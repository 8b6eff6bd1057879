----------------------- MODULE RefreshSessions_proofs -----------------------
(***************************************************************************)
(* IInv of RefreshSessionsInv is inductive, for every value of the         *)
(* constants, and the safety properties of RefreshSessions follow.         *)
(***************************************************************************)
EXTENDS RefreshSessionsInv, FiniteSetTheorems, TLAPS

-----------------------------------------------------------------------------
(* What a step of t leaves to the other transactions.  A step of no         *)
(* transaction is one of None.                                             *)

Frame(t) ==
  /\ \A s \in Txs \ {t} : tx'[s] = tx[s]
  /\ \A k \in Tokens : rowLock[k] \in Txs \ {t} =>
       /\ rowLock'[k] = rowLock[k] /\ answers'[k] = answers[k]
       /\ k \in Active => k \in Active'
  /\ \A u \in Users : userLock[u] \in Txs \ {t} =>
       /\ userLock'[u] = userLock[u] /\ epoch'[u] = epoch[u]
       /\ \A k \in rows' \ rows : owner'[k] # u
  /\ \A k \in Tokens : owner[k] # None => owner'[k] = owner[k]
  /\ \A s \in Txs \ {t} : Rotating(s) =>
       /\ owner'[tx[s].new] = None
       /\ t \in Txs /\ Rotating(t)' => tx'[t].new # tx[s].new
  /\ consumed \subseteq consumed'
  /\ nextToken <= nextToken' /\ nextToken' \in Int

\* The types of what a transaction's record holds.
LEMMA TxFields ==
  ASSUME TypeOK, NEW s \in Txs
  PROVE  /\ tx[s].pc \in {"idle", "insert", "successor", "select", "rows", "links", "write"}
         /\ tx[s].kind \in {"none", "rotate", "revoke", "logout", "cleanup", "password"}
         /\ tx[s].user \in Users \cup {None} /\ tx[s].token \in Tokens \cup {NoToken}
         /\ tx[s].new \in Tokens \cup {NoToken} /\ tx[s].want \in Tokens \cup {NoToken}
         /\ tx[s].fresh \in BOOLEAN /\ tx[s].todo \subseteq Tokens /\ tx[s].done \subseteq Tokens
  <1>1. tx[s] \in TxState
    BY DEF TypeOK
  <1>2. QED
    BY <1>1 DEF TxState

LEMMA ModelValues == None \notin Txs /\ None \notin Users /\ NoToken \notin Tokens
  BY NoneAssumption, BoundAssumption DEF NoToken, Tokens

LEMMA IdleFields ==
  /\ Idle \in TxState
  /\ Idle.pc = "idle" /\ Idle.kind = "none" /\ Idle.done = {} /\ Idle.todo = {}
  /\ Idle.user = None /\ Idle.token = NoToken /\ Idle.new = NoToken /\ Idle.want = NoToken
  BY DEF Idle, TxState

\* A transaction keeps its invariant during the steps of the others.
LEMMA OthersKeep ==
  ASSUME IInv, NEW t, Frame(t), NEW s \in Txs \ {t}
  PROVE  TxInv(s)'
  <1> USE DEF IInv
  <1>1. tx'[s] = tx[s] /\ TxInv(s) /\ TypeOK
    BY DEF Frame
  <1>2. Shape(s)'
    BY <1>1 DEF TxInv, Shape
  <1>3. DoneInv(s)'
    BY <1>1, TxFields DEF TxInv, DoneInv, Frame
  <1>4. RotateInv(s)'
    <2> SUFFICES ASSUME Rotating(s) PROVE RotateInv(s)'
      BY <1>1 DEF RotateInv, Rotating
    <2>1. /\ tx[s].token \in Active /\ rowLock[tx[s].token] = s
          /\ tx[s].user = owner[tx[s].token]
          /\ tx[s].new \in Tokens /\ tx[s].new < nextToken /\ owner[tx[s].new] = None
          /\ \A r \in Txs \ {s} : Rotating(r) => tx[r].new # tx[s].new
      BY <1>1 DEF TxInv, RotateInv
    <2>2. tx[s].token \in Tokens /\ owner[tx[s].token] # None
      BY <1>1, <2>1, ModelValues DEF TypeOK, Active, TokensInv
    <2>t. nextToken \in Int /\ tx[s].new \in Int
      BY <1>1, <2>1, BoundAssumption DEF TypeOK, Tokens
    <2>3. /\ tx'[s].token \in Active' /\ rowLock'[tx'[s].token] = s
          /\ tx'[s].user = owner'[tx'[s].token]
      BY <1>1, <2>1, <2>2 DEF Frame
    <2>4. tx'[s].new \in Tokens /\ tx'[s].new < nextToken' /\ owner'[tx'[s].new] = None
      BY <1>1, <2>1, <2>t DEF Frame
    <2>5. \A r \in Txs \ {s} : Rotating(r)' => tx'[r].new # tx'[s].new
      <3> SUFFICES ASSUME NEW r \in Txs \ {s}, Rotating(r)' PROVE tx'[r].new # tx'[s].new
        OBVIOUS
      <3>1. CASE r = t
        BY <1>1, <3>1 DEF Frame
      <3>2. CASE r # t
        BY <1>1, <2>1, <3>2 DEF Frame, Rotating
      <3>3. QED
        BY <3>1, <3>2
    <2>6. QED
      BY <2>3, <2>4, <2>5 DEF RotateInv, Active
  <1>5. RepeatInv(s)'
    BY <1>1 DEF TxInv, RepeatInv, Frame, TypeOK
  <1>6. PasswordInv(s)'
    <2> SUFFICES ASSUME tx[s].kind = "password" PROVE PasswordInv(s)'
      BY <1>1 DEF PasswordInv
    <2>1. tx[s].user \in Users /\ userLock[tx[s].user] = s /\ epoch[tx[s].user] < MaxChanges
      BY <1>1 DEF TxInv, PasswordInv
    <2>2. /\ userLock'[tx[s].user] = s /\ epoch'[tx[s].user] = epoch[tx[s].user]
          /\ \A k \in rows' \ rows : owner'[k] # tx[s].user
      BY <2>1 DEF Frame
    <2>3. {k \in rows' : owner'[k] = tx[s].user} \subseteq {k \in rows : owner[k] = tx[s].user}
      BY <1>1, <2>2, ModelValues DEF Frame, TokensInv, TypeOK
    <2>4. QED
      BY <1>1, <2>1, <2>2, <2>3 DEF TxInv, PasswordInv
  <1>7. QED
    BY <1>2, <1>3, <1>4, <1>5, <1>6 DEF TxInv

\* An ended transaction has nothing to keep.
LEMMA EndedKeeps ==
  ASSUME NEW t \in Txs, tx'[t] = Idle
  PROVE  TxInv(t)' /\ ~Rotating(t)'
  BY IdleFields DEF TxInv, Shape, DoneInv, RotateInv, Rotating, RepeatInv, PasswordInv

\* A step that changes no token, no session and no password keeps what is said
\* of them.
LEMMA DataKeep ==
  ASSUME IInv, UNCHANGED <<tokenVars, epoch, answers>>,
         nextToken <= nextToken', nextToken' \in Int
  PROVE  TokensInv' /\ OneActive' /\ AnswersInv' /\ PasswordEndsSessions'
  <1>1. UNCHANGED <<rows, owner, family, next, consumed, revoked, born, epoch, answers>>
    BY DEF tokenVars
  <1>2. nextToken \in Int /\ Tokens \subseteq Int
    BY BoundAssumption DEF IInv, TypeOK, Tokens
  <1>3. TokensInv'
    <2>1. ASSUME NEW k \in Tokens, owner[k] # None
          PROVE  k < nextToken' /\ owner[family[k]] # None
      BY <1>2, <2>1 DEF IInv, TokensInv
    <2>2. QED
      BY <1>1, <2>1 DEF IInv, TokensInv
  <1>4. Active' = Active
    BY <1>1 DEF Active
  <1>5. OneActive' /\ AnswersInv' /\ PasswordEndsSessions'
    BY <1>1, <1>4 DEF IInv, OneActive, AnswersInv, PasswordEndsSessions
  <1>6. QED
    BY <1>3, <1>5

\* A step that only moves its own transaction on: what is left to show.
LEMMA LocalStep ==
  ASSUME IInv, NEW t \in Txs, NEW r \in TxState, tx' = [tx EXCEPT ![t] = r],
         UNCHANGED <<tokenVars, clockVars, epoch, answers>>,
         faults' \in 0 .. MaxFaults,
         nextToken' \in 1 .. MaxTokens + 1, nextToken <= nextToken',
         rowLock' \in [Tokens -> Txs \cup {None}], userLock' \in [Users -> Txs \cup {None}],
         \A k \in Tokens : rowLock[k] \in Txs \ {t} => rowLock'[k] = rowLock[k],
         \A u \in Users : userLock[u] \in Txs \ {t} => userLock'[u] = userLock[u],
         \A u \in Users : userLock'[u] \in Txs \ {t} => userLock'[u] = userLock[u],
         \A s \in Txs \ {t} : Rotating(s) /\ Rotating(t)' => r.new # tx[s].new,
         \A u \in Users : userLock'[u] = t =>
           r.kind = "password" /\ r.user = u /\ \A s \in Txs \ {t} : ~Inserted(s, u),
         \A u \in Users : userLock[u] \in Txs \ {t} =>
           ~(r.kind = "rotate" /\ r.pc = "write" /\ r.user = u),
         TxInv(t)'
  PROVE  IInv'
  <1>1. /\ UNCHANGED <<rows, owner, family, next, consumed, revoked, born, epoch, answers>>
        /\ UNCHANGED <<expired, fresh>>
    BY DEF tokenVars, clockVars
  <1>2. TypeOK /\ TypeOK'
    BY <1>1 DEF IInv, TypeOK
  <1>3. tx'[t] = r /\ \A s \in Txs \ {t} : tx'[s] = tx[s]
    BY <1>2 DEF TypeOK
  <1>4. nextToken' \in Int
    OBVIOUS
  <1>5. Active' = Active
    BY <1>1 DEF Active
  <1>6. Frame(t)
    <2>1. \A s \in Txs \ {t} : Rotating(s) => owner[tx[s].new] = None
      BY DEF IInv, TxInv, RotateInv
    <2>2. QED
      BY <1>1, <1>3, <1>4, <1>5, <2>1 DEF Frame
  <1>7. \A s \in Txs : TxInv(s)'
    BY <1>6, OthersKeep
  <1>8. UsersInv'
    <2> SUFFICES ASSUME NEW u \in Users, userLock'[u] # None
                 PROVE  /\ tx'[userLock'[u]].kind = "password" /\ tx'[userLock'[u]].user = u
                        /\ \A s \in Txs : ~Inserted(s, u)'
      BY DEF UsersInv, Inserted
    <2>1. userLock'[u] \in Txs
      OBVIOUS
    <2>2. CASE userLock'[u] = t
      BY <1>3, <2>2 DEF Inserted
    <2>3. CASE userLock'[u] # t
      <3>1. userLock[u] = userLock'[u] /\ userLock[u] \in Txs \ {t}
        BY <2>1, <2>3
      <3>2. /\ tx[userLock[u]].kind = "password" /\ tx[userLock[u]].user = u
            /\ \A s \in Txs : ~Inserted(s, u)
        BY <3>1, ModelValues DEF IInv, UsersInv
      <3>3. QED
        BY <1>3, <3>1, <3>2 DEF Inserted
    <2>4. QED
      BY <2>2, <2>3
  <1>9. QED
    BY <1>2, <1>4, <1>7, <1>8, DataKeep DEF IInv

-----------------------------------------------------------------------------
(* The steps of a transaction that commit nothing                          *)

LEMMA NextTokenType ==
  ASSUME TypeOK
  PROVE  nextToken \in 1 .. MaxTokens + 1 /\ nextToken \in Int /\ MaxTokens \in Nat
         /\ faults \in 0 .. MaxFaults
  BY BoundAssumption DEF TypeOK

LEMMA RollbackStep ==
  ASSUME IInv, NEW t \in Txs, Rollback(t), faults' \in 0 .. MaxFaults
  PROVE  IInv'
  <1>1. TypeOK /\ nextToken \in 1 .. MaxTokens + 1 /\ nextToken \in Int
    BY NextTokenType DEF IInv
  <1>2. /\ tx' = [tx EXCEPT ![t] = Idle] /\ nextToken' = nextToken
        /\ rowLock' = [k \in Tokens |-> IF rowLock[k] = t THEN None ELSE rowLock[k]]
        /\ userLock' = [u \in Users |-> IF userLock[u] = t THEN None ELSE userLock[u]]
        /\ UNCHANGED <<tokenVars, clockVars, epoch, answers>>
    BY DEF Rollback, End
  <1>3. tx'[t] = Idle
    BY <1>1, <1>2 DEF TypeOK
  <1>4. TxInv(t)' /\ ~Rotating(t)'
    BY <1>3, EndedKeeps
  <1>5. /\ rowLock' \in [Tokens -> Txs \cup {None}] /\ userLock' \in [Users -> Txs \cup {None}]
        /\ \A k \in Tokens : rowLock[k] \in Txs \ {t} => rowLock'[k] = rowLock[k]
        /\ \A u \in Users : userLock[u] \in Txs \ {t} => userLock'[u] = userLock[u]
        /\ \A u \in Users : userLock'[u] \in Txs \ {t} => userLock'[u] = userLock[u]
        /\ \A u \in Users : userLock'[u] # t
    BY <1>1, <1>2, ModelValues DEF TypeOK
  <1>6. /\ Idle \in TxState /\ nextToken' \in 1 .. MaxTokens + 1 /\ nextToken <= nextToken'
        /\ \A s \in Txs \ {t} : Rotating(s) /\ Rotating(t)' => Idle.new # tx[s].new
        /\ \A u \in Users : userLock'[u] = t =>
             Idle.kind = "password" /\ Idle.user = u /\ \A s \in Txs \ {t} : ~Inserted(s, u)
        /\ \A u \in Users : userLock[u] \in Txs \ {t} =>
             ~(Idle.kind = "rotate" /\ Idle.pc = "write" /\ Idle.user = u)
    BY <1>1, <1>2, <1>4, <1>5, IdleFields
  <1>7. QED
    BY <1>2, <1>4, <1>5, <1>6, LocalStep

\* Nothing is said of the user rows a transaction does not change.
LEMMA SameUsers ==
  ASSUME IInv, NEW t \in Txs, userLock' = userLock
  PROVE  /\ userLock' \in [Users -> Txs \cup {None}]
         /\ \A u \in Users : userLock[u] = t =>
              /\ tx[t].kind = "password" /\ tx[t].user = u
              /\ \A s \in Txs : ~Inserted(s, u)
  BY ModelValues DEF IInv, TypeOK, UsersInv

LEMMA BeginRotateStep ==
  ASSUME IInv, NEW t \in Txs, NEW k \in Tokens, BeginRotate(t, k)
  PROVE  IInv'
  <1> DEFINE r == [[Idle EXCEPT !.pc = "insert", !.kind = "rotate", !.new = nextToken]
                     EXCEPT !.user = owner[k], !.token = k]
  <1>1. TypeOK /\ nextToken \in Int /\ MaxTokens \in Nat /\ faults \in 0 .. MaxFaults
    BY NextTokenType DEF IInv
  <1>2. /\ k \notin consumed /\ nextToken <= MaxTokens /\ nextToken' = nextToken + 1
        /\ tx[t].pc = "idle" /\ k \in rows /\ rowLock[k] = None /\ k \notin revoked
        /\ rowLock' = [rowLock EXCEPT ![k] = t] /\ tx' = [tx EXCEPT ![t] = r]
        /\ UNCHANGED <<tokenVars, clockVars, epoch, answers, userLock, faults>>
    BY DEF BeginRotate, Present, Unused, RowFree
  <1>3. nextToken \in Tokens /\ owner[k] \in Users
    BY <1>1, <1>2 DEF Tokens, IInv, TokensInv, TypeOK
  <1>4. /\ r \in TxState /\ r.pc = "insert" /\ r.kind = "rotate" /\ r.new = nextToken
        /\ r.user = owner[k] /\ r.token = k /\ r.done = {}
    BY <1>3 DEF Idle, TxState
  <1> HIDE DEF r
  <1>5. tx'[t] = r /\ \A s \in Txs \ {t} : tx'[s] = tx[s]
    BY <1>1, <1>2 DEF TypeOK
  <1>6. \A s \in Txs \ {t} : Rotating(s) => tx[s].new # nextToken
    BY <1>1 DEF IInv, TxInv, RotateInv
  <1>7. owner[nextToken] = None
    BY <1>1, <1>3 DEF IInv, TokensInv
  <1>8. TxInv(t)'
    <2>1. k \in Active' /\ rowLock'[k] = t
      BY <1>1, <1>2 DEF Active, tokenVars, TypeOK
    <2>2. RotateInv(t)'
      <3>1. tx'[t].new \in Tokens /\ tx'[t].new < nextToken' /\ owner'[tx'[t].new] = None
        BY <1>1, <1>2, <1>3, <1>4, <1>5, <1>7 DEF tokenVars
      <3>2. tx'[t].token \in Active' /\ rowLock'[tx'[t].token] = t
            /\ tx'[t].user = owner'[tx'[t].token]
        BY <1>2, <1>4, <1>5, <2>1 DEF tokenVars
      <3>3. \A s \in Txs \ {t} : Rotating(s)' => tx'[s].new # tx'[t].new
        BY <1>4, <1>5, <1>6 DEF Rotating
      <3>4. QED
        BY <3>1, <3>2, <3>3 DEF RotateInv, Active
    <2>3. Shape(t)' /\ DoneInv(t)' /\ RepeatInv(t)' /\ PasswordInv(t)'
      BY <1>4, <1>5 DEF Shape, DoneInv, RepeatInv, PasswordInv
    <2>4. QED
      BY <2>2, <2>3 DEF TxInv
  <1>9. nextToken' \in 1 .. MaxTokens + 1 /\ nextToken <= nextToken'
    BY <1>1, <1>2 DEF TypeOK
  <1>10. \A u \in Users : userLock[u] # t
    BY <1>2, SameUsers DEF IInv, TxInv, Shape
  <1>11. /\ rowLock' \in [Tokens -> Txs \cup {None}]
         /\ \A j \in Tokens : rowLock[j] \in Txs \ {t} => rowLock'[j] = rowLock[j]
    BY <1>1, <1>2, ModelValues DEF TypeOK
  <1>12. /\ UNCHANGED <<tokenVars, clockVars, epoch, answers>> /\ userLock' = userLock
         /\ faults' \in 0 .. MaxFaults
    BY <1>1, <1>2
  <1>13. userLock' \in [Users -> Txs \cup {None}]
    BY <1>1, <1>12 DEF TypeOK
  <1>14. /\ \A u \in Users : userLock[u] \in Txs \ {t} => userLock'[u] = userLock[u]
         /\ \A u \in Users : userLock'[u] \in Txs \ {t} => userLock'[u] = userLock[u]
         /\ \A s \in Txs \ {t} : Rotating(s) /\ Rotating(t)' => r.new # tx[s].new
         /\ \A u \in Users : userLock'[u] = t =>
              r.kind = "password" /\ r.user = u /\ \A s \in Txs \ {t} : ~Inserted(s, u)
         /\ \A u \in Users : userLock[u] \in Txs \ {t} =>
              ~(r.kind = "rotate" /\ r.pc = "write" /\ r.user = u)
    BY <1>4, <1>6, <1>10, <1>12
  <1>15. QED
    BY <1>2, <1>4, <1>8, <1>9, <1>11, <1>12, <1>13, <1>14, LocalStep

\* A step of a transaction that leaves the users rows alone.
LEMMA StatementStep ==
  ASSUME IInv, NEW t \in Txs, NEW r \in TxState, tx' = [tx EXCEPT ![t] = r],
         UNCHANGED <<tokenVars, clockVars, epoch, answers, userLock, nextToken, faults>>,
         rowLock' \in [Tokens -> Txs \cup {None}],
         \A k \in Tokens : rowLock[k] \in Txs \ {t} => rowLock'[k] = rowLock[k],
         r.kind = "rotate" /\ r.pc \in {"insert", "write"} => Rotating(t) /\ r.new = tx[t].new,
         tx[t].kind = "password" => r.kind = "password" /\ r.user = tx[t].user,
         r.kind = "rotate" /\ r.pc = "write" => userLock[r.user] \in {None, t},
         TxInv(t)'
  PROVE  IInv'
  <1>1. TypeOK /\ nextToken \in 1 .. MaxTokens + 1 /\ nextToken \in Int /\ faults \in 0 .. MaxFaults
    BY NextTokenType DEF IInv
  <1>2. tx'[t] = r /\ \A s \in Txs \ {t} : tx'[s] = tx[s]
    BY <1>1 DEF TypeOK
  <1>3. /\ UNCHANGED <<tokenVars, clockVars, epoch, answers>> /\ userLock' = userLock
        /\ nextToken' \in 1 .. MaxTokens + 1 /\ nextToken <= nextToken'
        /\ faults' \in 0 .. MaxFaults
    BY <1>1
  <1>4. userLock' \in [Users -> Txs \cup {None}]
    BY <1>3, SameUsers
  <1>5. \A s \in Txs \ {t} : Rotating(s) /\ Rotating(t)' => r.new # tx[s].new
    BY <1>2 DEF IInv, TxInv, RotateInv, Rotating
  <1>6. \A u \in Users : userLock'[u] = t =>
          r.kind = "password" /\ r.user = u /\ \A s \in Txs \ {t} : ~Inserted(s, u)
    BY <1>3, SameUsers
  <1>7. \A u \in Users : userLock[u] \in Txs \ {t} =>
          ~(r.kind = "rotate" /\ r.pc = "write" /\ r.user = u)
    BY ModelValues
  <1>8. /\ \A u \in Users : userLock[u] \in Txs \ {t} => userLock'[u] = userLock[u]
        /\ \A u \in Users : userLock'[u] \in Txs \ {t} => userLock'[u] = userLock[u]
    BY <1>3
  <1>9. QED
    BY <1>3, <1>4, <1>5, <1>6, <1>7, <1>8, LocalStep

LEMMA BeginRepeatStep ==
  ASSUME IInv, NEW t \in Txs, NEW k \in Tokens, BeginRepeat(t, k)
  PROVE  IInv'
  <1> DEFINE r1 == [[Idle EXCEPT !.pc = "select", !.kind = "revoke"]
                      EXCEPT !.user = owner[k], !.token = k]
  <1> DEFINE r2 == [[Idle EXCEPT !.pc = "successor", !.kind = "rotate", !.want = next[k],
                                 !.fresh = k \in fresh /\ next[k] \notin expired]
                      EXCEPT !.user = owner[k], !.token = k]
  <1>1. TypeOK /\ owner[k] \in Users \cup {None} /\ next[k] \in Tokens \cup {NoToken}
    BY DEF IInv, TypeOK
  <1>2. /\ r1 \in TxState /\ r1.pc = "select" /\ r1.kind = "revoke" /\ r1.done = {}
        /\ r2 \in TxState /\ r2.pc = "successor" /\ r2.kind = "rotate" /\ r2.want = next[k]
        /\ r2.token = k /\ r2.done = {}
    BY <1>1 DEF Idle, TxState
  <1>3. /\ k \in consumed /\ tx[t].pc = "idle" /\ rowLock[k] = None
        /\ rowLock' = [rowLock EXCEPT ![k] = t]
        /\ \/ tx' = [tx EXCEPT ![t] = r1]
           \/ next[k] # NoToken /\ tx' = [tx EXCEPT ![t] = r2]
        /\ UNCHANGED <<tokenVars, clockVars, epoch, answers, userLock, nextToken, faults>>
    BY DEF BeginRepeat, Present, Unused, RowFree
  <1> HIDE DEF r1, r2
  <1>4. tx[t].kind # "password"
    BY <1>3 DEF IInv, TxInv, Shape
  <1>5. /\ rowLock' \in [Tokens -> Txs \cup {None}] /\ rowLock'[k] = t
        /\ \A j \in Tokens : rowLock[j] \in Txs \ {t} => rowLock'[j] = rowLock[j]
    BY <1>1, <1>3, ModelValues DEF TypeOK
  <1>6. CASE tx' = [tx EXCEPT ![t] = r1]
    <2>1. tx'[t] = r1
      BY <1>1, <1>6 DEF TypeOK
    <2>2. TxInv(t)'
      BY <1>2, <2>1 DEF TxInv, Shape, DoneInv, RotateInv, Rotating, RepeatInv, PasswordInv
    <2>3. QED
      BY <1>2, <1>3, <1>4, <1>5, <1>6, <2>2, StatementStep
  <1>7. CASE next[k] # NoToken /\ tx' = [tx EXCEPT ![t] = r2]
    <2>1. tx'[t] = r2
      BY <1>1, <1>7 DEF TypeOK
    <2>2. next[k] \in Tokens /\ answers[k] = {next[k]} /\ answers' = answers /\ k \in consumed'
      BY <1>1, <1>3, <1>7 DEF IInv, AnswersInv, tokenVars
    <2>3. TxInv(t)'
      <3>1. RepeatInv(t)'
        BY <1>2, <1>5, <2>1, <2>2 DEF RepeatInv
      <3>2. QED
        BY <1>2, <2>1, <3>1 DEF TxInv, Shape, DoneInv, RotateInv, Rotating, PasswordInv
    <2>4. QED
      BY <1>2, <1>3, <1>4, <1>5, <1>7, <2>3, StatementStep
  <1>8. QED
    BY <1>3, <1>6, <1>7

LEMMA InsertStep ==
  ASSUME IInv, NEW t \in Txs, Insert(t)
  PROVE  IInv'
  <1> DEFINE r == [tx[t] EXCEPT !.pc = "write"]
  <1>1. TypeOK /\ tx[t] \in TxState
    BY DEF IInv, TypeOK
  <1>2. /\ tx[t].pc = "insert" /\ Granted(t) /\ tx' = [tx EXCEPT ![t] = r] /\ rowLock' = rowLock
        /\ UNCHANGED <<tokenVars, clockVars, epoch, answers, userLock, nextToken, faults>>
    BY DEF Insert
  <1>3. tx[t].kind = "rotate" /\ Rotating(t)
    BY <1>2 DEF IInv, TxInv, Shape, Rotating
  <1>4. /\ r \in TxState /\ r.pc = "write" /\ r.kind = "rotate" /\ r.new = tx[t].new
        /\ r.user = tx[t].user /\ r.token = tx[t].token /\ r.done = tx[t].done
    BY <1>1, <1>3 DEF TxState
  <1> HIDE DEF r
  <1>5. tx'[t] = r /\ \A s \in Txs \ {t} : tx'[s] = tx[s]
    BY <1>1, <1>2 DEF TypeOK
  <1>6. userLock[r.user] \in {None, t}
    BY <1>2, <1>4 DEF Granted, Holder
  <1>7. /\ UNCHANGED <<owner, nextToken, Active, rowLock>>
    BY <1>2 DEF tokenVars, Active
  <1>8. TxInv(t)'
    <2>1. RotateInv(t)'
      BY <1>3, <1>4, <1>5, <1>7 DEF IInv, TxInv, RotateInv, Rotating
    <2>2. DoneInv(t)'
      BY <1>4, <1>5, <1>7 DEF IInv, TxInv, DoneInv
    <2>3. QED
      BY <1>4, <1>5, <2>1, <2>2 DEF TxInv, Shape, RepeatInv, PasswordInv
  <1>9. /\ rowLock' \in [Tokens -> Txs \cup {None}]
        /\ \A k \in Tokens : rowLock[k] \in Txs \ {t} => rowLock'[k] = rowLock[k]
    BY <1>1, <1>2 DEF TypeOK
  <1>10. QED
    BY <1>2, <1>3, <1>4, <1>6, <1>8, <1>9, StatementStep

LEMMA DetectReuseStep ==
  ASSUME IInv, NEW t \in Txs, DetectReuse(t)
  PROVE  IInv'
  <1> DEFINE r == [tx[t] EXCEPT !.kind = "revoke", !.pc = "select", !.want = NoToken]
  <1>1. TypeOK /\ tx[t] \in TxState
    BY DEF IInv, TypeOK
  <1>2. /\ tx[t].pc = "successor" /\ Granted(t) /\ tx' = [tx EXCEPT ![t] = r]
        /\ rowLock' = [rowLock EXCEPT ![tx[t].want] = t]
        /\ UNCHANGED <<tokenVars, clockVars, epoch, answers, userLock, nextToken, faults>>
    BY DEF DetectReuse
  <1>3. tx[t].kind = "rotate" /\ tx[t].want \in Tokens /\ rowLock[tx[t].want] \in {None, t}
    BY <1>2 DEF IInv, TxInv, Shape, RepeatInv, Granted, Holder
  <1>4. r \in TxState /\ r.pc = "select" /\ r.kind = "revoke" /\ r.done = tx[t].done
    BY <1>1 DEF TxState
  <1> HIDE DEF r
  <1>5. tx'[t] = r
    BY <1>1, <1>2 DEF TypeOK
  <1>6. /\ rowLock' \in [Tokens -> Txs \cup {None}]
        /\ \A k \in Tokens : rowLock[k] \in Txs \ {t} => rowLock'[k] = rowLock[k]
        /\ \A k \in Tokens : rowLock[k] = t => rowLock'[k] = t
    BY <1>1, <1>2, <1>3, ModelValues DEF TypeOK
  <1>7. DoneInv(t)'
    BY <1>1, <1>4, <1>5, <1>6, TxFields DEF IInv, TxInv, DoneInv
  <1>8. TxInv(t)'
    BY <1>4, <1>5, <1>7 DEF TxInv, Shape, RotateInv, Rotating, RepeatInv, PasswordInv
  <1>9. QED
    BY <1>2, <1>3, <1>4, <1>6, <1>8, StatementStep

-----------------------------------------------------------------------------
(* Statements over several rows                                            *)

\* The record of a statement that goes on to one of the rows S, or is over.
LEMMA VisitRecord ==
  ASSUME NEW t \in Txs, NEW record \in TxState, NEW S \in SUBSET Tokens,
         Visit(t, record, S, "write")
  PROVE  \E r \in TxState :
           /\ tx' = [tx EXCEPT ![t] = r]
           /\ r.kind = record.kind /\ r.user = record.user /\ r.done = record.done
           /\ \/ S = {} /\ r.pc = "write"
              \/ r.pc = record.pc /\ r.want \in S /\ S \subseteq r.todo \cup {r.want}
  <1>1. CASE S = {} /\ tx' = [tx EXCEPT ![t] = [record EXCEPT !.pc = "write", !.want = NoToken]]
    <2> DEFINE r == [record EXCEPT !.pc = "write", !.want = NoToken]
    <2>1. r \in TxState /\ r.kind = record.kind /\ r.user = record.user /\ r.done = record.done
          /\ r.pc = "write"
      BY DEF TxState
    <2>2. QED
      BY <1>1, <2>1
  <1>2. CASE \E k \in S :
               tx' = [tx EXCEPT ![t] = [record EXCEPT !.want = k, !.todo = S \ {k}]]
    <2>1. PICK k \in S : tx' = [tx EXCEPT ![t] = [record EXCEPT !.want = k, !.todo = S \ {k}]]
      BY <1>2
    <2> DEFINE r == [record EXCEPT !.want = k, !.todo = S \ {k}]
    <2>2. r \in TxState /\ r.kind = record.kind /\ r.user = record.user /\ r.done = record.done
          /\ r.pc = record.pc /\ r.want = k /\ r.todo = S \ {k}
      BY <2>1 DEF TxState
    <2> HIDE DEF r
    <2>3. S \subseteq r.todo \cup {r.want} /\ r.want \in S
      BY <2>1, <2>2
    <2>4. tx' = [tx EXCEPT ![t] = r]
      BY <2>1 DEF r
    <2>5. QED
      BY <2>2, <2>3, <2>4
  <1>3. QED
    BY <1>1, <1>2 DEF Visit

LEMMA VisitStep ==
  ASSUME IInv, NEW t \in Txs, NEW record \in TxState, NEW S \in SUBSET Tokens,
         Visit(t, record, S, "write"),
         UNCHANGED <<tokenVars, clockVars, epoch, answers, userLock, nextToken, faults>>,
         record.pc \in {"rows", "links"},
         record.kind \in {"revoke", "logout", "cleanup", "password"},
         rowLock' \in [Tokens -> Txs \cup {None}],
         \A k \in Tokens : rowLock[k] \in Txs \ {t} => rowLock'[k] = rowLock[k],
         \A k \in record.done : rowLock'[k] = t,
         tx[t].kind = "password" <=> record.kind = "password",
         record.kind = "password" =>
           /\ record.user = tx[t].user
           /\ record.pc = "rows" => {k \in rows : owner[k] = tx[t].user} \subseteq record.done \cup S
           /\ record.pc = "links" => {k \in rows : owner[k] = tx[t].user} \subseteq record.done
  PROVE  IInv'
  <1>1. PICK r \in TxState :
          /\ tx' = [tx EXCEPT ![t] = r]
          /\ r.kind = record.kind /\ r.user = record.user /\ r.done = record.done
          /\ \/ S = {} /\ r.pc = "write"
             \/ r.pc = record.pc /\ r.want \in S /\ S \subseteq r.todo \cup {r.want}
    BY VisitRecord
  <1>2. tx'[t] = r
    BY <1>1 DEF IInv, TypeOK
  <1>3. Shape(t)' /\ DoneInv(t)' /\ RotateInv(t)' /\ RepeatInv(t)'
    BY <1>1, <1>2 DEF Shape, DoneInv, RotateInv, Rotating, RepeatInv
  <1>4. PasswordInv(t)'
    <2> SUFFICES ASSUME record.kind = "password" PROVE PasswordInv(t)'
      BY <1>1, <1>2 DEF PasswordInv
    <2>1. /\ tx[t].user \in Users /\ userLock[tx[t].user] = t
          /\ epoch[tx[t].user] < MaxChanges
      BY DEF IInv, TxInv, PasswordInv
    <2>2. UNCHANGED <<rows, owner, userLock, epoch>> /\ r.user = tx[t].user
      BY <1>1 DEF tokenVars
    <2>3. QED
      BY <1>1, <1>2, <2>1, <2>2 DEF PasswordInv
  <1>5. TxInv(t)'
    BY <1>3, <1>4 DEF TxInv
  <1>6. QED
    BY <1>1, <1>5, StatementStep

LEMMA SelectStep ==
  ASSUME IInv, NEW t \in Txs, Select(t)
  PROVE  IInv'
  <1> DEFINE record == [tx[t] EXCEPT !.pc = "rows"]
  <1>1. TypeOK /\ tx[t] \in TxState
    BY DEF IInv, TypeOK
  <1>2. /\ tx[t].pc = "select" /\ Visit(t, record, Targets(t), "write") /\ rowLock' = rowLock
        /\ UNCHANGED <<tokenVars, clockVars, epoch, answers, userLock, nextToken, faults>>
    BY DEF Select
  <1>3. /\ record \in TxState /\ record.pc = "rows" /\ record.kind = tx[t].kind
        /\ record.user = tx[t].user /\ record.done = tx[t].done
    BY <1>1 DEF TxState
  <1> HIDE DEF record
  <1>4. tx[t].kind \in {"revoke", "password"}
    BY <1>2 DEF IInv, TxInv, Shape
  <1>5. Targets(t) \subseteq Tokens
    BY <1>1 DEF Targets, FamilyOf, TypeOK
  <1>6. tx[t].kind = "password" => Targets(t) = {k \in rows : owner[k] = tx[t].user}
    BY DEF Targets
  <1>7. \A k \in record.done : rowLock'[k] = t
    BY <1>2, <1>3 DEF IInv, TxInv, DoneInv
  <1>8. rowLock' \in [Tokens -> Txs \cup {None}]
    BY <1>1, <1>2 DEF TypeOK
  <1>9. QED
    BY <1>2, <1>3, <1>4, <1>5, <1>6, <1>7, <1>8, VisitStep

\* The locks after a statement locked its current row.
LEMMA RowLocked ==
  ASSUME TypeOK, NEW t \in Txs, NEW k \in Tokens, rowLock[k] \in {None, t},
         rowLock' = [rowLock EXCEPT ![k] = IF k \in rows THEN t ELSE @]
  PROVE  /\ rowLock' \in [Tokens -> Txs \cup {None}]
         /\ \A j \in Tokens : rowLock[j] \in Txs \ {t} => rowLock'[j] = rowLock[j]
         /\ \A j \in Tokens : rowLock[j] = t => rowLock'[j] = t
         /\ k \in rows => rowLock'[k] = t
  BY ModelValues DEF TypeOK

LEMMA TakeRowStep ==
  ASSUME IInv, NEW t \in Txs, TakeRow(t)
  PROVE  IInv'
  <1> DEFINE k == tx[t].want
             done == tx[t].done \cup ({k} \cap rows)
             record == [tx[t] EXCEPT !.done = done]
             linked == [record EXCEPT !.pc = "links"]
             mine == {j \in rows : owner[j] = tx[t].user}
  <1>1. TypeOK /\ tx[t] \in TxState
    BY DEF IInv, TypeOK
  <1>2. /\ tx[t].pc = "rows" /\ Granted(t)
        /\ rowLock' = [rowLock EXCEPT ![k] = IF k \in rows THEN t ELSE @]
        /\ \/ tx[t].todo # {} /\ Visit(t, record, tx[t].todo, "write")
           \/ tx[t].todo = {} /\ tx[t].kind = "revoke" /\ Visit(t, record, {}, "write")
           \/ /\ tx[t].todo = {} /\ tx[t].kind # "revoke"
              /\ Visit(t, linked, Links(done), "write")
        /\ UNCHANGED <<tokenVars, clockVars, epoch, answers, userLock, nextToken, faults>>
    BY DEF TakeRow
  <1>3. /\ k \in Tokens /\ tx[t].kind \in {"revoke", "logout", "cleanup", "password"}
        /\ rowLock[k] \in {None, t} /\ tx[t].todo \subseteq Tokens /\ tx[t].done \subseteq Tokens
    BY <1>1, <1>2, TxFields DEF IInv, TxInv, Shape, Granted, Holder
  <1>4. /\ record \in TxState /\ record.pc = "rows" /\ record.kind = tx[t].kind
        /\ record.user = tx[t].user /\ record.done = done
    BY <1>1, <1>2, <1>3 DEF TxState
  <1>5. /\ linked \in TxState /\ linked.pc = "links" /\ linked.kind = tx[t].kind
        /\ linked.user = tx[t].user /\ linked.done = done
    BY <1>1, <1>2, <1>3 DEF TxState
  <1>6. /\ rowLock' \in [Tokens -> Txs \cup {None}]
        /\ \A j \in Tokens : rowLock[j] \in Txs \ {t} => rowLock'[j] = rowLock[j]
        /\ \A j \in Tokens : rowLock[j] = t => rowLock'[j] = t
        /\ k \in rows => rowLock'[k] = t
    BY <1>1, <1>2, <1>3, RowLocked
  <1>7. \A j \in done : rowLock'[j] = t
    BY <1>3, <1>6 DEF IInv, TxInv, DoneInv
  <1>8. tx[t].kind = "password" => mine \subseteq done \cup tx[t].todo
    <2>1. tx[t].kind = "password" => mine \subseteq tx[t].done \cup tx[t].todo \cup {k}
      BY <1>2 DEF IInv, TxInv, PasswordInv
    <2>2. mine \subseteq rows
      OBVIOUS
    <2>3. QED
      BY <2>1, <2>2
  <1>9. Links(done) \subseteq Tokens
    BY <1>1 DEF Links, TypeOK
  <1>10. CASE tx[t].todo # {} /\ Visit(t, record, tx[t].todo, "write")
    <2> HIDE DEF done, record, linked
    <2>1. QED
      BY <1>2, <1>3, <1>4, <1>6, <1>7, <1>8, <1>10, VisitStep
  <1>11. CASE tx[t].todo = {} /\ tx[t].kind = "revoke" /\ Visit(t, record, {}, "write")
    <2> HIDE DEF done, record, linked
    <2>1. QED
      BY <1>2, <1>3, <1>4, <1>6, <1>7, <1>11, VisitStep
  <1>12. CASE /\ tx[t].todo = {} /\ tx[t].kind # "revoke"
              /\ Visit(t, linked, Links(done), "write")
    <2> HIDE DEF done, record, linked
    <2>1. QED
      BY <1>2, <1>3, <1>5, <1>6, <1>7, <1>8, <1>9, <1>12, VisitStep
  <1>13. QED
    BY <1>2, <1>10, <1>11, <1>12

LEMMA TakeLinkStep ==
  ASSUME IInv, NEW t \in Txs, TakeLink(t)
  PROVE  IInv'
  <1> DEFINE k == tx[t].want
  <1>1. TypeOK /\ tx[t] \in TxState
    BY DEF IInv, TypeOK
  <1>2. /\ tx[t].pc = "links" /\ Granted(t)
        /\ rowLock' = [rowLock EXCEPT ![k] = IF k \in rows THEN t ELSE @]
        /\ Visit(t, tx[t], tx[t].todo, "write")
        /\ UNCHANGED <<tokenVars, clockVars, epoch, answers, userLock, nextToken, faults>>
    BY DEF TakeLink
  <1>3. /\ k \in Tokens /\ tx[t].kind \in {"revoke", "logout", "cleanup", "password"}
        /\ rowLock[k] \in {None, t} /\ tx[t].todo \subseteq Tokens /\ tx[t].done \subseteq Tokens
    BY <1>1, <1>2, TxFields DEF IInv, TxInv, Shape, Granted, Holder
  <1>4. /\ rowLock' \in [Tokens -> Txs \cup {None}]
        /\ \A j \in Tokens : rowLock[j] \in Txs \ {t} => rowLock'[j] = rowLock[j]
        /\ \A j \in Tokens : rowLock[j] = t => rowLock'[j] = t
    BY <1>1, <1>2, <1>3, RowLocked
  <1>5. \A j \in tx[t].done : rowLock'[j] = t
    BY <1>3, <1>4 DEF IInv, TxInv, DoneInv
  <1>6. tx[t].kind = "password" => {j \in rows : owner[j] = tx[t].user} \subseteq tx[t].done
    BY <1>2 DEF IInv, TxInv, PasswordInv
  <1>7. QED
    BY <1>1, <1>2, <1>3, <1>4, <1>5, <1>6, VisitStep

\* The record of a statement of its own, begun by an idle connection.
LEMMA BeginStatementStep ==
  ASSUME IInv, NEW t \in Txs, NEW kind \in {"logout", "cleanup"}, NEW S \in SUBSET Tokens,
         tx[t].pc = "idle", rowLock' = rowLock,
         Visit(t, [Idle EXCEPT !.pc = "rows", !.kind = kind], S, "write"),
         UNCHANGED <<tokenVars, clockVars, epoch, answers, userLock, nextToken, faults>>
  PROVE  IInv'
  <1> DEFINE record == [Idle EXCEPT !.pc = "rows", !.kind = kind]
  <1>1. /\ record \in TxState /\ record.pc = "rows" /\ record.kind = kind /\ record.done = {}
    BY DEF Idle, TxState
  <1>2. Visit(t, record, S, "write")
    OBVIOUS
  <1> HIDE DEF record
  <1>3. tx[t].kind # "password"
    BY DEF IInv, TxInv, Shape
  <1>4. rowLock' \in [Tokens -> Txs \cup {None}]
    BY DEF IInv, TypeOK
  <1>5. QED
    BY <1>1, <1>2, <1>3, <1>4, VisitStep

LEMMA BeginLogoutStep ==
  ASSUME IInv, NEW t \in Txs, NEW k \in Tokens, BeginLogout(t, k)
  PROVE  IInv'
  <1>1. /\ tx[t].pc = "idle" /\ rowLock' = rowLock
        /\ Visit(t, [Idle EXCEPT !.pc = "rows", !.kind = "logout"], {k}, "write")
        /\ UNCHANGED <<tokenVars, clockVars, epoch, answers, userLock, nextToken, faults>>
    BY DEF BeginLogout
  <1>2. QED
    BY <1>1, BeginStatementStep

LEMMA BeginCleanupStep ==
  ASSUME IInv, NEW t \in Txs, BeginCleanup(t)
  PROVE  IInv'
  <1>1. /\ tx[t].pc = "idle" /\ rowLock' = rowLock
        /\ Visit(t, [Idle EXCEPT !.pc = "rows", !.kind = "cleanup"], rows \cap expired, "write")
        /\ UNCHANGED <<tokenVars, clockVars, epoch, answers, userLock, nextToken, faults>>
    BY DEF BeginCleanup
  <1>2. rows \cap expired \subseteq Tokens
    BY DEF IInv, TypeOK
  <1>3. QED
    BY <1>1, <1>2, BeginStatementStep

LEMMA BeginPasswordStep ==
  ASSUME IInv, NEW t \in Txs, NEW u \in Users, BeginPassword(t, u)
  PROVE  IInv'
  <1> DEFINE r == [Idle EXCEPT !.pc = "select", !.kind = "password", !.user = u]
  <1>1. TypeOK /\ nextToken \in 1 .. MaxTokens + 1 /\ nextToken \in Int /\ faults \in 0 .. MaxFaults
    BY NextTokenType DEF IInv
  <1>2. /\ tx[t].pc = "idle" /\ userLock[u] = None /\ \A s \in Txs : ~Inserted(s, u)
        /\ epoch[u] < MaxChanges /\ userLock' = [userLock EXCEPT ![u] = t]
        /\ tx' = [tx EXCEPT ![t] = r]
        /\ UNCHANGED <<tokenVars, clockVars, epoch, answers, rowLock, nextToken, faults>>
    BY DEF BeginPassword, UserFree
  <1>3. /\ r \in TxState /\ r.pc = "select" /\ r.kind = "password" /\ r.user = u /\ r.done = {}
    BY DEF Idle, TxState
  <1> HIDE DEF r
  <1>4. tx'[t] = r
    BY <1>1, <1>2 DEF TypeOK
  <1>5. \A v \in Users : userLock[v] # t
    BY <1>2, ModelValues DEF IInv, UsersInv, TxInv, Shape
  <1>6. /\ userLock' \in [Users -> Txs \cup {None}] /\ userLock'[u] = t
        /\ \A v \in Users \ {u} : userLock'[v] = userLock[v]
    BY <1>1, <1>2 DEF TypeOK
  <1>7. TxInv(t)'
    BY <1>2, <1>3, <1>4, <1>6 DEF TxInv, Shape, DoneInv, RotateInv, Rotating, RepeatInv, PasswordInv
  <1>8. /\ \A v \in Users : userLock[v] \in Txs \ {t} => userLock'[v] = userLock[v]
        /\ \A v \in Users : userLock'[v] \in Txs \ {t} => userLock'[v] = userLock[v]
        /\ \A v \in Users : userLock'[v] = t =>
             r.kind = "password" /\ r.user = v /\ \A s \in Txs \ {t} : ~Inserted(s, v)
    BY <1>2, <1>3, <1>5, <1>6, ModelValues
  <1>9. ~Rotating(t)'
    BY <1>3, <1>4 DEF Rotating
  <1>10. /\ UNCHANGED <<tokenVars, clockVars, epoch, answers>> /\ faults' \in 0 .. MaxFaults
         /\ nextToken' \in 1 .. MaxTokens + 1 /\ nextToken <= nextToken'
         /\ rowLock' \in [Tokens -> Txs \cup {None}]
         /\ \A k \in Tokens : rowLock[k] \in Txs \ {t} => rowLock'[k] = rowLock[k]
    BY <1>1, <1>2 DEF TypeOK
  <1>11. QED
    BY <1>2, <1>3, <1>6, <1>7, <1>8, <1>9, <1>10, LocalStep

-----------------------------------------------------------------------------
(* Commits                                                                 *)

\* What the end of t leaves, whatever it commits.
Ended(t) ==
  /\ tx' \in [Txs -> TxState]
  /\ rowLock' \in [Tokens -> Txs \cup {None}] /\ userLock' \in [Users -> Txs \cup {None}]
  /\ \A s \in Txs \ {t} : tx'[s] = tx[s]
  /\ \A k \in Tokens : rowLock[k] \in Txs \ {t} => rowLock'[k] = rowLock[k]
  /\ \A u \in Users : userLock[u] \in Txs \ {t} => userLock'[u] = userLock[u]
  /\ ~Rotating(t)' /\ TxInv(t)'
  /\ UsersInv'

LEMMA EndStep ==
  ASSUME IInv, NEW t \in Txs, End(t)
  PROVE  Ended(t)
  <1>1. TypeOK
    BY DEF IInv
  <1>2. /\ tx' = [tx EXCEPT ![t] = Idle]
        /\ rowLock' = [k \in Tokens |-> IF rowLock[k] = t THEN None ELSE rowLock[k]]
        /\ userLock' = [u \in Users |-> IF userLock[u] = t THEN None ELSE userLock[u]]
    BY DEF End
  <1>3. tx' \in [Txs -> TxState] /\ tx'[t] = Idle /\ \A s \in Txs \ {t} : tx'[s] = tx[s]
    BY <1>1, <1>2, IdleFields DEF TypeOK
  <1>4. ~Rotating(t)' /\ TxInv(t)'
    BY <1>3, EndedKeeps
  <1>5. /\ rowLock' \in [Tokens -> Txs \cup {None}] /\ userLock' \in [Users -> Txs \cup {None}]
        /\ \A k \in Tokens : rowLock[k] \in Txs \ {t} => rowLock'[k] = rowLock[k]
        /\ \A u \in Users : userLock[u] \in Txs \ {t} => userLock'[u] = userLock[u]
        /\ \A u \in Users : userLock'[u] # None =>
             userLock'[u] = userLock[u] /\ userLock[u] \in Txs \ {t}
    BY <1>1, <1>2, ModelValues DEF TypeOK
  <1>6. UsersInv'
    <2> SUFFICES ASSUME NEW u \in Users, userLock'[u] # None
                 PROVE  /\ tx'[userLock'[u]].kind = "password" /\ tx'[userLock'[u]].user = u
                        /\ \A s \in Txs : ~Inserted(s, u)'
      BY DEF UsersInv, Inserted
    <2>1. userLock'[u] = userLock[u] /\ userLock[u] \in Txs \ {t}
      BY <1>5
    <2>2. /\ tx[userLock[u]].kind = "password" /\ tx[userLock[u]].user = u
          /\ \A s \in Txs : ~Inserted(s, u)
      BY <2>1, ModelValues DEF IInv, UsersInv
    <2>3. \A s \in Txs : ~Inserted(s, u)'
      BY <1>3, <2>2, IdleFields DEF Inserted
    <2>4. QED
      BY <1>3, <2>1, <2>2, <2>3
  <1>7. QED
    BY <1>3, <1>4, <1>5, <1>6 DEF Ended

\* The tokens of transactions in progress are locked by them alone.
LEMMA NewTokens ==
  ASSUME IInv, NEW s \in Txs, Rotating(s)
  PROVE  tx[s].new \in Tokens /\ owner[tx[s].new] = None
  BY DEF IInv, TxInv, RotateInv

LEMMA CommitRevokeStep ==
  ASSUME IInv, NEW t \in Txs, CommitRevoke(t)
  PROVE  IInv'
  <1>1. TypeOK /\ nextToken \in Int
    BY NextTokenType DEF IInv
  <1>2. Ended(t)
    BY EndStep DEF CommitRevoke
  <1>3. /\ revoked' = revoked \cup tx[t].done
        /\ UNCHANGED <<rows, owner, family, next, consumed, born, epoch, answers, nextToken,
                       expired, fresh, faults>>
    BY DEF CommitRevoke, clockVars
  <1>4. tx[t].done \subseteq Tokens /\ \A k \in tx[t].done : rowLock[k] = t
    BY <1>1, TxFields DEF IInv, TxInv, DoneInv
  <1>5. TypeOK'
    BY <1>1, <1>2, <1>3, <1>4 DEF TypeOK, Ended
  <1>6. Active' = Active \ tx[t].done
    BY <1>3 DEF Active
  <1>7. Frame(t)
    BY <1>1, <1>2, <1>3, <1>4, <1>6, NewTokens DEF Frame, Ended
  <1>8. \A s \in Txs : TxInv(s)'
    BY <1>2, <1>7, OthersKeep DEF Ended
  <1>9. TokensInv' /\ AnswersInv' /\ PasswordEndsSessions' /\ OneActive'
    BY <1>3, <1>6 DEF IInv, TokensInv, AnswersInv, PasswordEndsSessions, OneActive
  <1>10. QED
    BY <1>2, <1>5, <1>8, <1>9 DEF IInv, Ended

LEMMA CommitDeleteStep ==
  ASSUME IInv, NEW t \in Txs, CommitDelete(t)
  PROVE  IInv'
  <1>1. TypeOK /\ nextToken \in Int
    BY NextTokenType DEF IInv
  <1>2. Ended(t)
    BY EndStep DEF CommitDelete
  <1>3. /\ rows' = rows \ tx[t].done /\ tx[t].pc = "write"
        /\ next' = [k \in Tokens |-> IF next[k] \in tx[t].done THEN NoToken ELSE next[k]]
        /\ epoch' = [u \in Users |->
             IF tx[t].kind = "password" /\ u = tx[t].user THEN epoch[u] + 1 ELSE epoch[u]]
        /\ UNCHANGED <<owner, family, consumed, revoked, born, answers, nextToken,
                       expired, fresh, faults>>
    BY DEF CommitDelete, clockVars
  <1>4. tx[t].done \subseteq Tokens /\ \A k \in tx[t].done : rowLock[k] = t
    BY <1>1, TxFields DEF IInv, TxInv, DoneInv
  <1>5. tx[t].kind = "password" =>
          /\ tx[t].user \in Users /\ userLock[tx[t].user] = t /\ epoch[tx[t].user] < MaxChanges
          /\ {k \in rows : owner[k] = tx[t].user} \subseteq tx[t].done
    BY <1>3 DEF IInv, TxInv, PasswordInv
  <1>6. TypeOK'
    <2>1. epoch' \in [Users -> 0 .. MaxChanges]
      BY <1>1, <1>3, <1>5, BoundAssumption DEF TypeOK
    <2>2. next' \in [Tokens -> Tokens \cup {NoToken}]
      BY <1>1, <1>3 DEF TypeOK
    <2>3. rows' \subseteq Tokens
      BY <1>1, <1>3 DEF TypeOK
    <2>4. QED
      BY <1>1, <1>2, <1>3, <2>1, <2>2, <2>3 DEF TypeOK, Ended
  <1>7. Active' = Active \ tx[t].done
    BY <1>3 DEF Active
  <1>8. Frame(t)
    <2>1. \A u \in Users : userLock[u] \in Txs \ {t} => epoch'[u] = epoch[u]
      BY <1>3, <1>5
    <2>2. QED
      BY <1>1, <1>2, <1>3, <1>4, <1>7, <2>1, NewTokens DEF Frame, Ended
  <1>9. \A s \in Txs : TxInv(s)'
    BY <1>2, <1>8, OthersKeep DEF Ended
  <1>10. TokensInv'
    BY <1>1, <1>3 DEF IInv, TokensInv, TypeOK
  <1>11. AnswersInv'
    BY <1>3 DEF IInv, AnswersInv
  <1>12. OneActive'
    BY <1>3, <1>7 DEF IInv, OneActive
  <1>13. PasswordEndsSessions'
    <2> SUFFICES ASSUME NEW k \in rows' PROVE born'[k] = epoch'[owner'[k]]
      BY DEF PasswordEndsSessions
    <2>1. k \in rows /\ k \notin tx[t].done /\ owner[k] \in Users /\ born[k] = epoch[owner[k]]
      BY <1>3 DEF IInv, TokensInv, PasswordEndsSessions
    <2>2. ~(tx[t].kind = "password" /\ owner[k] = tx[t].user)
      BY <1>5, <2>1
    <2>3. QED
      BY <1>3, <2>1, <2>2
  <1>14. QED
    BY <1>2, <1>6, <1>9, <1>10, <1>11, <1>12, <1>13 DEF IInv, Ended

LEMMA AnswerAgainStep ==
  ASSUME IInv, NEW t \in Txs, AnswerAgain(t)
  PROVE  IInv'
  <1> DEFINE k == tx[t].token
             n == tx[t].want
  <1>1. TypeOK /\ nextToken \in Int
    BY NextTokenType DEF IInv
  <1>2. Ended(t)
    BY EndStep DEF AnswerAgain
  <1>3. /\ n \in Active /\ answers' = [answers EXCEPT ![k] = @ \cup {n}]
        /\ UNCHANGED <<rows, owner, family, next, consumed, revoked, born, epoch, nextToken,
                       expired, fresh, faults>>
    BY DEF AnswerAgain, tokenVars, clockVars
  <1>4. k \in consumed /\ rowLock[k] = t /\ n \in Tokens /\ answers[k] \subseteq {n}
    BY DEF AnswerAgain, IInv, TxInv, RepeatInv
  <1>5. k \in Tokens
    BY <1>1, <1>4 DEF TypeOK
  <1> HIDE DEF k, n
  <1>6. /\ answers' \in [Tokens -> SUBSET Tokens]
        /\ answers'[k] = {n} /\ \A j \in Tokens \ {k} : answers'[j] = answers[j]
    BY <1>1, <1>3, <1>4, <1>5 DEF TypeOK
  <1>7. TypeOK'
    BY <1>1, <1>2, <1>3, <1>6 DEF TypeOK, Ended
  <1>8. Active' = Active
    BY <1>3 DEF Active
  <1>9. Frame(t)
    <2>1. \A j \in Tokens : rowLock[j] \in Txs \ {t} =>
            /\ rowLock'[j] = rowLock[j] /\ answers'[j] = answers[j]
            /\ j \in Active => j \in Active'
      BY <1>2, <1>4, <1>6, <1>8 DEF Ended
    <2>2. \A u \in Users : userLock[u] \in Txs \ {t} =>
            /\ userLock'[u] = userLock[u] /\ epoch'[u] = epoch[u]
            /\ \A j \in rows' \ rows : owner'[j] # u
      BY <1>2, <1>3 DEF Ended
    <2>3. /\ \A s \in Txs \ {t} : tx'[s] = tx[s]
          /\ ~Rotating(t)'
          /\ \A j \in Tokens : owner[j] # None => owner'[j] = owner[j]
          /\ consumed \subseteq consumed' /\ nextToken <= nextToken' /\ nextToken' \in Int
      BY <1>1, <1>2, <1>3 DEF Ended
    <2>4. \A s \in Txs \ {t} : Rotating(s) => owner'[tx[s].new] = None
      BY <1>3, NewTokens
    <2>5. QED
      BY <2>1, <2>2, <2>3, <2>4 DEF Frame
  <1>10. \A s \in Txs : TxInv(s)'
    BY <1>2, <1>9, OthersKeep DEF Ended
  <1>11. TokensInv'
    <2>1. owner[k] # None
      BY <1>4, <1>5 DEF IInv, TokensInv
    <2>2. QED
      BY <1>3, <1>6, <2>1 DEF IInv, TokensInv
  <1>12. AnswersInv'
    <2> SUFFICES ASSUME NEW j \in Tokens
                 PROVE  /\ answers'[j] # {} => j \in consumed
                        /\ next[j] # NoToken => answers'[j] = {next[j]}
                        /\ \E m \in Tokens \cup {NoToken} : answers'[j] \subseteq {m}
      BY <1>3 DEF AnswersInv
    <2>1. CASE j = k
      BY <1>4, <1>6, <2>1 DEF IInv, AnswersInv
    <2>2. CASE j # k
      BY <1>6, <2>2 DEF IInv, AnswersInv
    <2>3. QED
      BY <2>1, <2>2
  <1>13. OneActive' /\ PasswordEndsSessions'
    BY <1>3, <1>8 DEF IInv, OneActive, PasswordEndsSessions
  <1>14. QED
    BY <1>2, <1>7, <1>10, <1>11, <1>12, <1>13 DEF IInv, Ended

LEMMA CommitRotateStep ==
  ASSUME IInv, NEW t \in Txs, CommitRotate(t)
  PROVE  IInv'
  <1> DEFINE k == tx[t].token
             n == tx[t].new
  <1>1. TypeOK /\ nextToken \in Int
    BY NextTokenType DEF IInv
  <1>2. Ended(t)
    BY EndStep DEF CommitRotate
  <1>3. /\ rows' = rows \cup {n} /\ owner' = [owner EXCEPT ![n] = tx[t].user]
        /\ family' = [family EXCEPT ![n] = family[k]] /\ born' = [born EXCEPT ![n] = born[k]]
        /\ consumed' = consumed \cup {k} /\ fresh' = fresh \cup {k}
        /\ next' = [next EXCEPT ![k] = n] /\ answers' = [answers EXCEPT ![k] = @ \cup {n}]
        /\ UNCHANGED <<revoked, expired, epoch, nextToken, faults>>
    BY DEF CommitRotate
  <1>4. /\ Rotating(t) /\ k \in Active /\ rowLock[k] = t /\ tx[t].user = owner[k]
        /\ n \in Tokens /\ n < nextToken /\ owner[n] = None
        /\ \A s \in Txs \ {t} : Rotating(s) => tx[s].new # n
    <2>1. Rotating(t)
      BY DEF CommitRotate, Rotating
    <2>2. QED
      BY <2>1 DEF IInv, TxInv, RotateInv
  <1>5. \A u \in Users : userLock[u] \in Txs => u # tx[t].user
    <2>1. Inserted(t, tx[t].user)
      BY DEF CommitRotate, Inserted
    <2>2. QED
      BY <2>1, ModelValues DEF IInv, UsersInv
  <1> HIDE DEF k, n
  <1>6. /\ k \in Tokens /\ k \in rows /\ k \notin consumed /\ owner[k] \in Users /\ owner[k] # None
        /\ family[k] \in Tokens /\ born[k] \in 0 .. MaxChanges /\ k # n
    BY <1>1, <1>4, ModelValues DEF Active, IInv, TokensInv, TypeOK
  <1>7. /\ n \notin rows /\ n \notin consumed /\ answers[n] = {} /\ next[n] = NoToken
        /\ answers[k] = {} /\ next[k] = NoToken
    <2>1. n \notin rows /\ n \notin consumed /\ answers[n] = {} /\ next[n] = NoToken
      BY <1>4, ModelValues DEF IInv, TokensInv
    <2>2. answers[k] = {} /\ next[k] = NoToken
      BY <1>6 DEF IInv, AnswersInv
    <2>3. QED
      BY <2>1, <2>2
  <1>8. /\ owner' \in [Tokens -> Users \cup {None}] /\ owner'[n] = owner[k]
        /\ \A j \in Tokens \ {n} : owner'[j] = owner[j]
        /\ family' \in [Tokens -> Tokens] /\ family'[n] = family[k]
        /\ \A j \in Tokens \ {n} : family'[j] = family[j]
        /\ born' \in [Tokens -> 0 .. MaxChanges] /\ born'[n] = born[k]
        /\ \A j \in Tokens \ {n} : born'[j] = born[j]
    BY <1>1, <1>3, <1>4, <1>6 DEF TypeOK
  <1>9. /\ next' \in [Tokens -> Tokens \cup {NoToken}] /\ next'[k] = n
        /\ \A j \in Tokens \ {k} : next'[j] = next[j]
        /\ answers' \in [Tokens -> SUBSET Tokens] /\ answers'[k] = {n}
        /\ \A j \in Tokens \ {k} : answers'[j] = answers[j]
    BY <1>1, <1>3, <1>4, <1>6, <1>7 DEF TypeOK
  <1>10. TypeOK'
    <2>1. rows' \subseteq Tokens /\ consumed' \subseteq Tokens /\ fresh' \subseteq Tokens
      BY <1>1, <1>3, <1>4, <1>6 DEF TypeOK
    <2>2. QED
      BY <1>1, <1>2, <1>3, <1>8, <1>9, <2>1 DEF TypeOK, Ended
  <1>11. Active' \subseteq (Active \cup {n}) \ {k} /\ Active \ {k} \subseteq Active'
    BY <1>3, <1>6 DEF Active
  <1>12. Frame(t)
    <2>1. \A j \in Tokens : rowLock[j] \in Txs \ {t} =>
            rowLock'[j] = rowLock[j] /\ answers'[j] = answers[j] /\ (j \in Active => j \in Active')
      BY <1>2, <1>4, <1>9, <1>11 DEF Ended
    <2>2. \A u \in Users : userLock[u] \in Txs \ {t} =>
            /\ userLock'[u] = userLock[u] /\ epoch'[u] = epoch[u]
            /\ \A j \in rows' \ rows : owner'[j] # u
      <3>1. rows' \ rows \subseteq {n} /\ owner'[n] = tx[t].user
        BY <1>3, <1>4, <1>8
      <3>2. QED
        BY <1>2, <1>3, <1>5, <3>1 DEF Ended
    <2>3. \A j \in Tokens : owner[j] # None => owner'[j] = owner[j]
      BY <1>4, <1>8
    <2>4. \A s \in Txs \ {t} : Rotating(s) => owner'[tx[s].new] = None
      BY <1>4, <1>8, NewTokens
    <2>5. /\ \A s \in Txs \ {t} : tx'[s] = tx[s]
          /\ ~Rotating(t)'
          /\ consumed \subseteq consumed' /\ nextToken <= nextToken' /\ nextToken' \in Int
      BY <1>1, <1>2, <1>3 DEF Ended
    <2>6. QED
      BY <2>1, <2>2, <2>3, <2>4, <2>5 DEF Frame
  <1>13. \A s \in Txs : TxInv(s)'
    BY <1>2, <1>12, OthersKeep DEF Ended
  <1>14. TokensInv'
    <2>1. \A j \in rows' : owner'[j] \in Users
      BY <1>1, <1>3, <1>6, <1>8 DEF IInv, TokensInv, TypeOK
    <2>2. ASSUME NEW j \in Tokens, owner'[j] # None
          PROVE  j < nextToken' /\ owner'[family'[j]] # None
      <3>1. CASE j = n
        <4>1. owner[family[k]] # None
          BY <1>6 DEF IInv, TokensInv
        <4>2. owner'[family[k]] # None
          BY <1>4, <1>6, <1>8, <4>1
        <4>3. QED
          BY <1>3, <1>4, <1>8, <3>1, <4>2
      <3>2. CASE j # n
        <4>1. j < nextToken /\ owner[family[j]] # None /\ family[j] \in Tokens
          BY <1>1, <1>8, <2>2, <3>2 DEF IInv, TokensInv, TypeOK
        <4>2. QED
          BY <1>3, <1>4, <1>8, <3>2, <4>1
      <3>3. QED
        BY <3>1, <3>2
    <2>3. ASSUME NEW j \in Tokens, owner'[j] = None
          PROVE  family'[j] = j /\ next'[j] = NoToken /\ answers'[j] = {} /\ j \notin consumed'
      <3>1. j # n /\ owner[j] = None /\ j # k
        BY <1>6, <1>8, <2>3
      <3>2. family[j] = j /\ next[j] = NoToken /\ answers[j] = {} /\ j \notin consumed
        BY <3>1 DEF IInv, TokensInv
      <3>3. QED
        BY <1>3, <1>8, <1>9, <3>1, <3>2
    <2>4. QED
      BY <2>1, <2>2, <2>3 DEF TokensInv
  <1>15. AnswersInv'
    <2> SUFFICES ASSUME NEW j \in Tokens
                 PROVE  /\ answers'[j] # {} => j \in consumed'
                        /\ next'[j] # NoToken => answers'[j] = {next'[j]}
                        /\ \E m \in Tokens \cup {NoToken} : answers'[j] \subseteq {m}
      BY DEF AnswersInv
    <2>1. CASE j = k
      BY <1>3, <1>4, <1>9, <2>1
    <2>2. CASE j # k
      BY <1>3, <1>9, <2>2 DEF IInv, AnswersInv
    <2>3. QED
      BY <2>1, <2>2
  <1>16. OneActive'
    <2> SUFFICES ASSUME NEW i \in Active', NEW j \in Active', family'[i] = family'[j]
                 PROVE  i = j
      BY DEF OneActive, Active
    <2>1. ASSUME NEW i1 \in Active, i1 # k, i1 # n PROVE family'[i1] # family[k]
      <3>1. i1 \in Tokens /\ family[i1] # family[k]
        BY <1>1, <1>4, <2>1 DEF IInv, OneActive, Active, TypeOK
      <3>2. QED
        BY <1>8, <2>1, <3>1
    <2>2. CASE i = n \/ j = n
      BY <1>8, <1>11, <2>1, <2>2
    <2>3. CASE i # n /\ j # n
      <3>1. i \in Active /\ j \in Active
        BY <1>11, <2>3
      <3>2. family[i] = family[j]
        BY <1>1, <1>8, <2>3, <3>1 DEF Active, TypeOK
      <3>3. QED
        BY <3>1, <3>2 DEF IInv, OneActive
    <2>4. QED
      BY <2>2, <2>3
  <1>17. PasswordEndsSessions'
    <2> SUFFICES ASSUME NEW j \in rows' PROVE born'[j] = epoch'[owner'[j]]
      BY DEF PasswordEndsSessions
    <2>1. CASE j = n
      BY <1>3, <1>6, <1>8, <2>1 DEF IInv, PasswordEndsSessions
    <2>2. CASE j # n
      BY <1>1, <1>3, <1>8, <2>2 DEF IInv, PasswordEndsSessions, TypeOK
    <2>3. QED
      BY <2>1, <2>2
  <1>18. QED
    BY <1>2, <1>10, <1>13, <1>14, <1>15, <1>16, <1>17 DEF IInv, Ended

-----------------------------------------------------------------------------
(* Steps of no transaction                                                 *)

LEMMA LoginStep ==
  ASSUME IInv, NEW u \in Users, Login(u)
  PROVE  IInv'
  <1> DEFINE n == nextToken
  <1>1. TypeOK /\ n \in Int /\ MaxTokens \in Nat
    BY NextTokenType DEF IInv
  <1>2. /\ userLock[u] = None /\ n <= MaxTokens /\ nextToken' = n + 1 /\ rows' = rows \cup {n}
        /\ owner' = [owner EXCEPT ![n] = u] /\ born' = [born EXCEPT ![n] = epoch[u]]
        /\ UNCHANGED <<family, next, consumed, revoked, expired, fresh, epoch, answers, rowLock,
                       userLock, tx, faults>>
    BY DEF Login, clockVars
  <1>3. n \in Tokens
    BY <1>1, <1>2 DEF TypeOK, Tokens
  <1>4. \A k \in Tokens : owner[k] # None => k < n /\ owner[family[k]] # None
    BY DEF IInv, TokensInv
  <1>5. /\ owner[n] = None /\ n \notin rows /\ n \notin consumed
        /\ family[n] = n /\ next[n] = NoToken /\ answers[n] = {}
    BY <1>1, <1>3, <1>4, ModelValues DEF IInv, TokensInv
  <1>6. nextToken' \in 1 .. MaxTokens + 1 /\ nextToken <= nextToken' /\ nextToken' \in Int
    BY <1>1, <1>2 DEF TypeOK
  <1>k. Tokens \subseteq Int
    BY DEF Tokens
  <1>l. \A k \in Tokens : k < n \/ k = n => k < nextToken'
    BY <1>1, <1>2, <1>k
  <1> HIDE DEF n
  <1>7. /\ owner' \in [Tokens -> Users \cup {None}] /\ owner'[n] = u
        /\ \A j \in Tokens \ {n} : owner'[j] = owner[j]
        /\ born' \in [Tokens -> 0 .. MaxChanges] /\ born'[n] = epoch[u]
        /\ \A j \in Tokens \ {n} : born'[j] = born[j]
    BY <1>1, <1>2, <1>3 DEF TypeOK
  <1>8. TypeOK'
    BY <1>1, <1>2, <1>3, <1>6, <1>7 DEF TypeOK
  <1>9. Active \subseteq Active' /\ Active' \subseteq Active \cup {n}
    BY <1>2 DEF Active
  <1>10. Frame(None)
    <2>1. \A s \in Txs : Rotating(s) => tx[s].new \in Tokens /\ tx[s].new # n
      BY <1>5, NewTokens, <1>1, <1>k DEF IInv, TxInv, RotateInv, n
    <2>2. \A s \in Txs : Rotating(s) => owner'[tx[s].new] = None
      BY <1>7, <2>1, NewTokens
    <2>3. \A j \in Tokens : owner[j] # None => owner'[j] = owner[j]
      BY <1>5, <1>7
    <2>4. \A v \in Users : userLock[v] \in Txs => \A j \in rows' \ rows : owner'[j] # v
      BY <1>2, <1>7, ModelValues
    <2>5. QED
      BY <1>2, <1>6, <1>9, <2>2, <2>3, <2>4, ModelValues DEF Frame
  <1>11. \A s \in Txs : TxInv(s)'
    BY <1>10, OthersKeep, ModelValues
  <1>12. UsersInv'
    BY <1>2 DEF IInv, UsersInv, Inserted
  <1>13. TokensInv'
    <2>1. \A j \in rows' : owner'[j] \in Users
      BY <1>1, <1>2, <1>7 DEF IInv, TokensInv, TypeOK
    <2>2. ASSUME NEW j \in Tokens, owner'[j] # None
          PROVE  j < nextToken' /\ owner'[family'[j]] # None
      <3>1. CASE j = n
        BY <1>2, <1>5, <1>7, <1>l, <3>1, ModelValues
      <3>2. CASE j # n
        <4>1. j < n /\ owner[family[j]] # None /\ family[j] \in Tokens
          BY <1>1, <1>4, <1>7, <2>2, <3>2 DEF TypeOK
        <4>2. QED
          BY <1>2, <1>5, <1>7, <1>l, <4>1
      <3>3. QED
        BY <3>1, <3>2
    <2>3. ASSUME NEW j \in Tokens, owner'[j] = None
          PROVE  family'[j] = j /\ next'[j] = NoToken /\ answers'[j] = {} /\ j \notin consumed'
      BY <1>2, <1>7, <2>3, ModelValues DEF IInv, TokensInv
    <2>4. QED
      BY <2>1, <2>2, <2>3 DEF TokensInv
  <1>14. AnswersInv'
    BY <1>2 DEF IInv, AnswersInv
  <1>15. OneActive'
    <2> SUFFICES ASSUME NEW i \in Active', NEW j \in Active', family[i] = family[j]
                 PROVE  i = j
      BY <1>2 DEF OneActive, Active
    <2>1. \A k \in Active : k \in Tokens /\ family[k] # n
      BY <1>1, <1>4, <1>5, ModelValues DEF Active, IInv, TokensInv, TypeOK
    <2>2. QED
      BY <1>5, <1>9, <2>1 DEF IInv, OneActive
  <1>16. PasswordEndsSessions'
    <2> SUFFICES ASSUME NEW j \in rows' PROVE born'[j] = epoch'[owner'[j]]
      BY DEF PasswordEndsSessions
    <2>1. CASE j = n
      BY <1>2, <1>7, <2>1
    <2>2. CASE j # n
      BY <1>1, <1>2, <1>7, <2>2 DEF IInv, PasswordEndsSessions, TypeOK
    <2>3. QED
      BY <2>1, <2>2
  <1>17. QED
    BY <1>8, <1>11, <1>12, <1>13, <1>14, <1>15, <1>16 DEF IInv

LEMMA QuietStep ==
  ASSUME IInv, UNCHANGED <<tokenVars, epoch, answers, rowLock, userLock, tx, nextToken, faults>>,
         expired' \subseteq Tokens, fresh' \subseteq Tokens
  PROVE  IInv'
  <1>1. UNCHANGED <<rows, owner, family, next, consumed, revoked, born, epoch, answers, rowLock,
                    userLock, tx, nextToken, faults>>
    BY DEF tokenVars
  <1>2. TypeOK'
    BY <1>1 DEF IInv, TypeOK
  <1>3. \A s \in Txs : TxInv(s)'
    BY <1>1 DEF IInv, TxInv, Shape, DoneInv, RotateInv, Rotating, RepeatInv, PasswordInv, Active
  <1>4. UsersInv'
    BY <1>1 DEF IInv, UsersInv, Inserted
  <1>5. TokensInv' /\ AnswersInv' /\ OneActive' /\ PasswordEndsSessions'
    BY <1>1 DEF IInv, TokensInv, AnswersInv, OneActive, PasswordEndsSessions, Active
  <1>6. QED
    BY <1>2, <1>3, <1>4, <1>5 DEF IInv

-----------------------------------------------------------------------------
(* The invariant                                                           *)

LEMMA InitInv == Init => IInv
  <1> SUFFICES ASSUME Init PROVE IInv
    OBVIOUS
  <1>1. /\ rows = {} /\ consumed = {} /\ revoked = {} /\ expired = {} /\ fresh = {}
        /\ owner = [k \in Tokens |-> None] /\ family = [k \in Tokens |-> k]
        /\ next = [k \in Tokens |-> NoToken] /\ epoch = [u \in Users |-> 0]
        /\ born = [k \in Tokens |-> 0] /\ answers = [k \in Tokens |-> {}]
        /\ rowLock = [k \in Tokens |-> None] /\ userLock = [u \in Users |-> None]
        /\ tx = [t \in Txs |-> Idle] /\ nextToken = 1 /\ faults = 0
    BY DEF Init
  <1>2. MaxTokens \in Nat /\ MaxChanges \in Nat /\ MaxFaults \in Nat
    BY BoundAssumption
  <1>3. 0 \in 0 .. MaxChanges /\ 0 \in 0 .. MaxFaults /\ 1 \in 1 .. MaxTokens + 1
    BY <1>2
  <1>4. TypeOK
    BY <1>1, <1>3, IdleFields DEF TypeOK
  <1>5. \A t \in Txs : TxInv(t)
    BY <1>1, IdleFields DEF TxInv, Shape, DoneInv, RotateInv, Rotating, RepeatInv, PasswordInv
  <1>6. UsersInv /\ TokensInv /\ OneActive /\ PasswordEndsSessions
    BY <1>1 DEF UsersInv, TokensInv, OneActive, Active, PasswordEndsSessions
  <1>7. AnswersInv
    BY <1>1 DEF AnswersInv
  <1>8. QED
    BY <1>4, <1>5, <1>6, <1>7 DEF IInv

LEMMA NextInv == IInv /\ [Next]_vars => IInv'
  <1> SUFFICES ASSUME IInv, [Next]_vars PROVE IInv'
    OBVIOUS
  <1>0. TypeOK /\ nextToken \in 1 .. MaxTokens + 1 /\ nextToken \in Int /\ faults \in 0 .. MaxFaults
        /\ MaxFaults \in Nat
    BY NextTokenType, BoundAssumption DEF IInv
  <1>1. CASE \E u \in Users : Login(u)
    BY <1>1, LoginStep
  <1>2. CASE \E t \in Txs, k \in Tokens : BeginRotate(t, k)
    BY <1>2, BeginRotateStep
  <1>3. CASE \E t \in Txs, k \in Tokens : BeginRepeat(t, k)
    BY <1>3, BeginRepeatStep
  <1>4. CASE \E t \in Txs, k \in Tokens : BeginLogout(t, k)
    BY <1>4, BeginLogoutStep
  <1>5. CASE \E t \in Txs : BeginCleanup(t)
    BY <1>5, BeginCleanupStep
  <1>6. CASE \E t \in Txs, u \in Users : BeginPassword(t, u)
    BY <1>6, BeginPasswordStep
  <1>7. CASE \E t \in Txs : Step(t)
    BY <1>7, InsertStep, CommitRotateStep, AnswerAgainStep, DetectReuseStep, SelectStep,
       TakeRowStep, TakeLinkStep, CommitRevokeStep, CommitDeleteStep DEF Step
  <1>8. CASE \E k \in Tokens : Age(k)
    BY <1>0, <1>8, QuietStep DEF Age, TypeOK
  <1>9. CASE \E k \in Tokens : Expire(k)
    BY <1>0, <1>9, QuietStep DEF Expire, TypeOK
  <1>10. CASE \E t \in Txs : DeadlockVictim(t)
    BY <1>0, <1>10, RollbackStep DEF DeadlockVictim
  <1>11. CASE \E t \in Txs : Abort(t)
    <2>1. PICK t \in Txs : Abort(t)
      BY <1>11
    <2>2. Rollback(t) /\ faults' \in 0 .. MaxFaults
      BY <1>0, <2>1 DEF Abort
    <2>3. QED
      BY <2>2, RollbackStep
  <1>12. CASE Quiescent \/ UNCHANGED vars
    BY <1>0, <1>12, QuietStep DEF Quiescent, vars, TypeOK, tokenVars, clockVars
  <1>13. QED
    BY <1>1, <1>2, <1>3, <1>4, <1>5, <1>6, <1>7, <1>8, <1>9, <1>10, <1>11, <1>12 DEF Next

\* The strengthened invariant holds in every reachable state: what the row lock of a
\* presented token protects, and what the users row lock of a password change keeps out.
THEOREM SessionInvariance == Spec => []IInv
  BY InitInv, NextInv, PTL DEF Spec

\* Every variable has its type; in particular no password change goes unlocked
\* beyond the bound.
THEOREM TypeCorrect == Spec => []TypeOK
  BY SessionInvariance, PTL DEF IInv

\* The unique index on the active token of a family never rejects the successor.
THEOREM RotationNeverConflicts == Spec => []InsertNeverConflicts
  <1>1. IInv => InsertNeverConflicts
    <2> SUFFICES ASSUME IInv, NEW t \in Txs, tx[t].pc = "insert"
                 PROVE  Active \cap FamilyOf(tx[t].token) \subseteq {tx[t].token}
      BY DEF InsertNeverConflicts
    <2>1. tx[t].token \in Active
      BY DEF IInv, TxInv, Shape, RotateInv, Rotating
    <2>2. QED
      BY <2>1 DEF IInv, OneActive, FamilyOf
  <1>2. QED
    BY <1>1, SessionInvariance, PTL

\* A presented token gives one successor, however often and whenever it is presented.
THEOREM OneSuccessor == Spec => []OneAnswer
  <1>1. ASSUME NEW n, NEW S \in SUBSET {n} PROVE Cardinality(S) <= 1
    <2>1. IsFiniteSet({n}) /\ Cardinality({n}) = 1
      BY FS_Singleton
    <2>2. QED
      BY <2>1, FS_Subset
  <1>2. IInv => OneAnswer
    BY <1>1 DEF IInv, AnswersInv, OneAnswer
  <1>3. QED
    BY <1>2, SessionInvariance, PTL

\* No row descends from a login before the last change of its owner's password.
THEOREM PasswordRevokes == Spec => []PasswordEndsSessions
  BY SessionInvariance, PTL DEF IInv

\* A step that inserts no token keeps an ended session ended.
LEMMA EndedStays ==
  ASSUME Active' \subseteq Active, family' = family, NEW f, \A k \in Active : family[k] # f
  PROVE  \A k \in Active' : family'[k] # f
  OBVIOUS

\* A session without an active token does not get one again.
THEOREM SessionsEnd == Spec => SessionsStayEnded
  <1> DEFINE Stay == \A f \in Tokens :
                       /\ owner[f] # None /\ family[f] = f
                       /\ \A k \in Active : family[k] # f
                       => \A k \in Active' : family'[k] # f
  <1>1. IInv /\ [Next]_vars => Stay
    <2> SUFFICES ASSUME IInv, [Next]_vars, NEW f \in Tokens, owner[f] # None, family[f] = f,
                        \A k \in Active : family[k] # f, NEW k \in Active'
                 PROVE  family'[k] # f
      BY DEF Stay
    <2>1. CASE \E u \in Users : Login(u)
      <3>1. PICK u \in Users : Login(u)
        BY <2>1
      <3>2. nextToken \in Tokens /\ nextToken \in Int
        BY <3>1, NextTokenType DEF Login, Tokens, IInv, TypeOK
      <3>3. owner[nextToken] = None /\ family[nextToken] = nextToken
        BY <3>2 DEF IInv, TokensInv
      <3>4. family' = family /\ Active' \subseteq Active \cup {nextToken}
        BY <3>1 DEF Login, Active
      <3>5. QED
        BY <3>3, <3>4
    <2>2. ASSUME NEW t \in Txs, CommitRotate(t) PROVE family'[k] # f
      <3>1. tx[t].token \in Active
        BY <2>2 DEF CommitRotate, IInv, TxInv, RotateInv, Rotating
      <3>2. /\ Active' \subseteq Active \cup {tx[t].new}
            /\ family' = [family EXCEPT ![tx[t].new] = family[tx[t].token]]
        BY <2>2 DEF CommitRotate, Active
      <3>3. Active \subseteq Tokens /\ family \in [Tokens -> Tokens] /\ tx[t].new \in Tokens
        BY <2>2, NewTokens DEF Active, IInv, TypeOK, CommitRotate, Rotating
      <3>4. QED
        BY <3>1, <3>2, <3>3
    <2>3. ASSUME NEW t \in Txs, CommitRevoke(t) \/ CommitDelete(t) PROVE family'[k] # f
      <3>1. Active' \subseteq Active /\ family' = family
        BY <2>3 DEF CommitRevoke, CommitDelete, Active
      <3>2. QED
        BY <3>1, EndedStays
    <2>4. CASE UNCHANGED tokenVars
      <3>1. Active' \subseteq Active /\ family' = family
        BY <2>4 DEF tokenVars, Active
      <3>2. QED
        BY <3>1, EndedStays
    <2>5. CASE \/ \E t \in Txs, j \in Tokens : BeginRotate(t, j) \/ BeginRepeat(t, j)
               \/ \E t \in Txs, j \in Tokens : BeginLogout(t, j)
               \/ \E t \in Txs : BeginCleanup(t)
               \/ \E t \in Txs, u \in Users : BeginPassword(t, u)
               \/ \E j \in Tokens : Age(j) \/ Expire(j)
               \/ \E t \in Txs : DeadlockVictim(t) \/ Abort(t)
               \/ Quiescent \/ UNCHANGED vars
      BY <2>4, <2>5 DEF BeginRotate, BeginRepeat, Present, BeginLogout, BeginCleanup,
         BeginPassword, Age, Expire, DeadlockVictim, Abort, Rollback, Quiescent, vars, tokenVars
    <2>6. CASE \E t \in Txs : Step(t)
      <3>1. PICK t \in Txs : Step(t)
        BY <2>6
      <3>2. CASE CommitRotate(t) \/ CommitRevoke(t) \/ CommitDelete(t)
        BY <2>2, <2>3, <3>2
      <3>3. CASE Insert(t) \/ AnswerAgain(t) \/ DetectReuse(t) \/ Select(t) \/ TakeRow(t)
                 \/ TakeLink(t)
        BY <2>4, <3>3 DEF Insert, AnswerAgain, DetectReuse, Select, TakeRow, TakeLink
      <3>4. QED
        BY <3>1, <3>2, <3>3 DEF Step
    <2>7. QED
      BY <2>1, <2>5, <2>6 DEF Next
  <1>2. QED
    BY <1>1, SessionInvariance, PTL DEF Spec, SessionsStayEnded
=============================================================================
