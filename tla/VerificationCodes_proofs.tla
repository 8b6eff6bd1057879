----------------------- MODULE VerificationCodes_proofs -----------------------
(***************************************************************************)
(* IInv of VerificationCodesInv is inductive, for every value of the       *)
(* constants, and the safety properties of VerificationCodes follow.       *)
(***************************************************************************)
EXTENDS VerificationCodesInv, TLAPS

-----------------------------------------------------------------------------
(* Values                                                                  *)

LEMMA ModelValues ==
  /\ None \notin Txs /\ None \notin Users /\ None \notin Emails /\ None \notin Identities
  /\ NoCode \notin Codes /\ Codes \subseteq Int /\ MaxCodes \in Nat /\ MaxAttempts \in Nat \ {0}
  BY NoneAssumption, BoundAssumption DEF NoCode, Codes

LEMMA IdleFields ==
  /\ Idle \in TxState
  /\ Idle.pc = "idle" /\ Idle.kind = "none" /\ Idle.purpose = "none" /\ Idle.user = None
  /\ Idle.email = None /\ Idle.identity = None /\ Idle.new = FALSE /\ Idle.code = NoCode
  /\ Idle.seen = 0 /\ Idle.want = NoCode /\ Idle.todo = {} /\ Idle.done = {}
  BY BoundAssumption DEF Idle, TxState

\* The types of what a transaction's record holds.
LEMMA TxFields ==
  ASSUME TypeOK, NEW s \in Txs
  PROVE  /\ tx[s].pc \in {"idle", "newuser", "delete", "rows", "insert", "key", "write", "mail",
                          "find", "load", "check", "reset", "move", "index", "link"}
         /\ tx[s].kind \in {"none", "register", "resend", "forgot", "change", "verify", "reset",
                            "confirm", "clear", "cleanup", "purge", "social", "connect"}
         /\ tx[s].purpose \in Purposes \cup {"none"}
         /\ tx[s].user \in Users \cup {None} /\ tx[s].email \in Emails \cup {None}
         /\ tx[s].identity \in Identities \cup {None} /\ tx[s].new \in BOOLEAN
         /\ tx[s].code \in Codes \cup {NoCode} /\ tx[s].seen \in 0 .. MaxAttempts
         /\ tx[s].want \in Codes \cup {NoCode}
         /\ tx[s].todo \subseteq Codes /\ tx[s].done \subseteq Codes
  <1>1. tx[s] \in TxState
    BY DEF TypeOK
  <1>2. QED
    BY <1>1 DEF TxState

LEMMA RowFields ==
  ASSUME TypeOK, NEW c \in rows
  PROVE  /\ c \in Codes /\ row[c] \in CodeRow
         /\ row[c].purpose \in Purposes /\ row[c].email \in Emails
         /\ row[c].account \in Users \cup {None} /\ row[c].attempts \in 0 .. MaxAttempts - 1
         /\ row[c].expired \in BOOLEAN /\ row[c].madeFor \in Codes \cup {NoCode}
  <1>1. row[c] \in CodeRow /\ c \in Codes
    BY DEF TypeOK, rows
  <1>2. QED
    BY <1>1 DEF CodeRow

\* A code that is there is none that is not.
LEMMA RowsApart ==
  ASSUME NEW r \in CodeRow
  PROVE  r # NoRow
  <1>1. r.purpose \in Purposes /\ NoRow.purpose = "none"
    BY DEF CodeRow, NoRow
  <1>2. QED
    BY <1>1 DEF Purposes

LEMMA Deleted ==
  ASSUME TypeOK, NEW S, row' = Without(S)
  PROVE  /\ row' \in [Codes -> CodeRow \cup {NoRow}]
         /\ rows' = rows \ S
         /\ \A c \in rows' : row'[c] = row[c]
  BY DEF TypeOK, Without, rows

-----------------------------------------------------------------------------
(* What a step of t leaves to the other transactions.  A step of no         *)
(* transaction is one of None.                                             *)

KeepsLocks(t) ==
  /\ \A u \in Users : userLock[u] \in Txs \ {t} => userLock'[u] = userLock[u]
  /\ \A c \in Codes : rowLock[c] \in Txs \ {t} => rowLock'[c] = rowLock[c]

KeepsLocked(t) ==
  \A c \in rows : rowLock[c] \in Txs \ {t} => c \in rows' /\ row'[c].attempts = row[c].attempts

\* A code that is there now was there, or is the one that t has made.
KeepsRows(t) ==
  \A c \in rows' :
    \/ /\ c \in rows /\ row'[c].purpose = row[c].purpose
       /\ row'[c].email = row[c].email /\ row'[c].account = row[c].account
    \/ /\ t \in Txs /\ Makes(t) /\ Inserting(t) /\ c = tx[t].code /\ row'[c].purpose = tx[t].purpose
       /\ row'[c].email = tx[t].email /\ row'[c].account = tx[t].user

KeepsAccount(s) ==
  /\ Holds(s) \/ Creates(s) =>
       /\ addr'[tx[s].user] = addr[tx[s].user]
       /\ tx[s].user \in verified' => tx[s].user \in verified
  /\ Claimed(s) => \A u \in Users : addr'[u] # tx[s].email
  /\ \A i \in Identities : Links(s, i) => \A u \in Users : linked'[u] # i

KeepsCounts(s) ==
  Makes(s) => guesses'[tx[s].code] = guesses[tx[s].code] /\ uses'[tx[s].code] = uses[tx[s].code]

\* What t goes on with does not meet what s is at.
Apart(t, s) ==
  /\ Creates(s) => tx'[t].user # tx[s].user
  /\ Claimed(s) /\ Claimed(t)' => tx'[t].email # tx[s].email
  /\ Makes(s) /\ Makes(t)' => tx'[t].code # tx[s].code
  /\ Inserting(s) /\ Inserting(t)' =>
       ~Collides(s, tx'[t].purpose, tx'[t].email, tx'[t].user)
  /\ \A i \in Identities : Links(s, i) => ~Links(t, i)'

Frame(t) ==
  /\ KeepsLocks(t) /\ KeepsLocked(t) /\ KeepsRows(t)
  /\ verified \subseteq verified'
  /\ nextCode <= nextCode' /\ nextCode' \in Int
  /\ \A s \in Txs \ {t} :
       /\ tx'[s] = tx[s] /\ KeepsAccount(s) /\ KeepsCounts(s)
       /\ t \in Txs => Apart(t, s)

\* Two transactions do not hold or make the same account.
LEMMA UsersApart ==
  ASSUME IInv, NEW t \in Txs, NEW s \in Txs \ {t},
         Holds(t) \/ Creates(t), Holds(s) \/ Creates(s)
  PROVE  tx[t].user # tx[s].user
  <1>1. HoldInv(t) /\ HoldInv(s) /\ CreateInv(t) /\ CreateInv(s)
    BY DEF IInv, TxInv
  <1>2. CASE Creates(t) \/ Creates(s)
    BY <1>1, <1>2 DEF CreateInv
  <1>3. CASE Holds(t) /\ Holds(s)
    BY <1>1, <1>3 DEF HoldInv
  <1>4. QED
    BY <1>2, <1>3

\* A code is not made for an account that is purged.
LEMMA PurgesApart ==
  ASSUME IInv, NEW t \in Txs, NEW s \in Txs \ {t}, Makes(t), Purges(s)
  PROVE  tx[t].user # tx[s].user
  <1>1. HoldInv(s) /\ Subject(t) /\ Shape(t) /\ Holds(s)
    BY DEF IInv, TxInv, Holds
  <1>2. tx[s].user \in Users /\ tx[s].user \notin verified
    BY <1>1 DEF HoldInv
  <1>3. CASE tx[t].kind \in {"register", "resend"}
    <2>1. Holds(t) \/ Creates(t)
      BY <1>3, TxFields DEF IInv, Makes, MakingPcs, Holds, HoldsUnverified, Creates, TxInv, Shape
    <2>2. QED
      BY <1>1, <2>1, UsersApart
  <1>4. CASE tx[t].kind = "forgot"
    BY <1>1, <1>2, <1>4, ModelValues DEF Subject
  <1>5. CASE tx[t].kind = "change"
    BY <1>1, <1>2, <1>5 DEF Subject
  <1>6. QED
    BY <1>3, <1>4, <1>5 DEF Makes

\* A transaction keeps its invariant during the steps of the others.
LEMMA OthersKeep ==
  ASSUME IInv, NEW t, Frame(t), NEW s \in Txs \ {t}
  PROVE  TxInv(s)'
  <1>1. tx'[s] = tx[s] /\ TxInv(s) /\ TypeOK
    BY DEF Frame, IInv
  <1>2. Shape(s)'
    BY <1>1 DEF TxInv, Shape
  <1>3. Subject(s)'
    <2>1. Subject(s) /\ verified \subseteq verified'
      BY <1>1 DEF TxInv, Frame
    <2>2. QED
      BY <1>1, <2>1 DEF Subject
  <1>4. HoldInv(s)'
    <2>1. HoldInv(s) /\ KeepsAccount(s) /\ KeepsLocks(t) /\ verified \subseteq verified'
      BY <1>1 DEF TxInv, Frame
    <2>2. (Holds(s)' <=> Holds(s)) /\ (HoldsUnverified(s)' <=> HoldsUnverified(s))
          /\ (Purges(s)' <=> Purges(s)) /\ (Connects(s)' <=> Connects(s))
      BY <1>1 DEF Holds, HoldsUnverified, Purges, Connects
    <2>3. SUFFICES ASSUME Holds(s) PROVE HoldInv(s)'
      BY <2>2 DEF HoldInv, Holds
    <2>4. /\ tx[s].user \in Users /\ userLock'[tx[s].user] = s
          /\ addr'[tx[s].user] = addr[tx[s].user]
          /\ tx[s].user \in verified' <=> tx[s].user \in verified
      BY <2>1, <2>3 DEF HoldInv, KeepsAccount, KeepsLocks
    <2>5. QED
      BY <1>1, <2>1, <2>2, <2>4 DEF HoldInv
  <1>5. CreateInv(s)'
    <2>1. CreateInv(s) /\ KeepsAccount(s)
      BY <1>1 DEF TxInv, Frame
    <2>2. (Creates(s)' <=> Creates(s)) /\ (Claimed(s)' <=> Claimed(s))
      BY <1>1 DEF Creates, Claimed
    <2>3. ASSUME Creates(s)
          PROVE  /\ tx'[s].user \in Users /\ addr'[tx'[s].user] = None
                 /\ \A r \in Txs \ {s} : tx'[r].user # tx'[s].user
      <3>1. tx[s].user \in Users /\ addr'[tx'[s].user] = None
        BY <1>1, <2>1, <2>3 DEF CreateInv, KeepsAccount
      <3>2. ASSUME NEW r \in Txs \ {s} PROVE tx'[r].user # tx'[s].user
        <4>1. CASE r = t
          BY <1>1, <2>3, <4>1 DEF Frame, Apart
        <4>2. CASE r # t
          BY <1>1, <2>1, <2>3, <4>2 DEF Frame, CreateInv
        <4>3. QED
          BY <4>1, <4>2
      <3>3. QED
        BY <1>1, <3>1, <3>2
    <2>4. ASSUME Claimed(s)
          PROVE  /\ UserOf(tx[s].email)' = {}
                 /\ \A r \in Txs \ {s} : Claimed(r)' => tx'[r].email # tx'[s].email
      <3>1. \A u \in Users : addr'[u] # tx'[s].email
        BY <1>1, <2>1, <2>4 DEF KeepsAccount
      <3>2. ASSUME NEW r \in Txs \ {s}, Claimed(r)' PROVE tx'[r].email # tx'[s].email
        <4>1. CASE r = t
          BY <1>1, <2>4, <3>2, <4>1 DEF Frame, Apart
        <4>2. CASE r # t
          <5>1. tx'[r] = tx[r]
            BY <4>2 DEF Frame
          <5>2. Claimed(r)
            BY <3>2, <5>1 DEF Claimed, Creates
          <5>3. QED
            BY <1>1, <2>1, <2>4, <5>1, <5>2 DEF CreateInv
        <4>3. QED
          BY <4>1, <4>2
      <3>3. QED
        BY <3>1, <3>2 DEF UserOf
    <2>5. QED
      BY <2>2, <2>3, <2>4 DEF CreateInv
  <1>6. MakeInv(s)'
    <2>1. MakeInv(s) /\ KeepsCounts(s) /\ KeepsRows(t)
      BY <1>1 DEF TxInv, Frame
    <2>2. (Makes(s)' <=> Makes(s)) /\ (Inserting(s)' <=> Inserting(s))
      BY <1>1 DEF Makes, Inserting
    <2>3. ASSUME Makes(s)
          PROVE  /\ tx[s].code \in Codes /\ tx[s].code < nextCode' /\ tx[s].code \notin rows'
                 /\ guesses'[tx[s].code] = 0 /\ uses'[tx[s].code] = 0
                 /\ \A r \in Txs \ {s} : Makes(r)' => tx'[r].code # tx[s].code
      <3>1. /\ tx[s].code \in Codes /\ tx[s].code < nextCode /\ tx[s].code \notin rows
            /\ guesses[tx[s].code] = 0 /\ uses[tx[s].code] = 0
            /\ \A r \in Txs \ {s} : Makes(r) => tx[r].code # tx[s].code
        BY <2>1, <2>3 DEF MakeInv
      <3>2. tx[s].code < nextCode'
        <4>1. nextCode \in 1 .. MaxCodes + 1
          BY <1>1 DEF TypeOK
        <4>2. nextCode \in Int /\ tx[s].code \in Int
          BY <3>1, <4>1, BoundAssumption DEF Codes
        <4>3. nextCode <= nextCode' /\ nextCode' \in Int
          BY DEF Frame
        <4>4. QED
          BY <3>1, <4>2, <4>3
      <3>3. tx[s].code \notin rows'
        BY <2>1, <3>1 DEF KeepsRows
      <3>4. guesses'[tx[s].code] = 0 /\ uses'[tx[s].code] = 0
        BY <2>1, <2>3, <3>1 DEF KeepsCounts
      <3>5. ASSUME NEW r \in Txs \ {s}, Makes(r)' PROVE tx'[r].code # tx[s].code
        <4>1. CASE r = t
          BY <2>3, <3>5, <4>1 DEF Frame, Apart
        <4>2. CASE r # t
          <5>1. tx'[r] = tx[r]
            BY <4>2 DEF Frame
          <5>2. Makes(r)
            BY <3>5, <5>1 DEF Makes
          <5>3. QED
            BY <3>1, <5>1, <5>2
        <4>3. QED
          BY <4>1, <4>2
      <3>6. QED
        BY <3>1, <3>2, <3>3, <3>4, <3>5
    <2>4. ASSUME Inserting(s)
          PROVE  /\ Collisions(s)' = {}
                 /\ \A r \in Txs \ {s} : Inserting(r)' =>
                      ~Collides(s, tx[r].purpose, tx[r].email, tx[r].user)'
      <3>1. /\ Collisions(s) = {}
            /\ \A r \in Txs \ {s} : Inserting(r) =>
                 ~Collides(s, tx[r].purpose, tx[r].email, tx[r].user)
        BY <2>1, <2>4 DEF MakeInv
      <3>2. ASSUME NEW c \in rows' \ tx'[s].done
            PROVE  ~Collides(s, row[c].purpose, row[c].email, row[c].account)'
        <4>1. CASE /\ c \in rows /\ row'[c].purpose = row[c].purpose
                   /\ row'[c].email = row[c].email /\ row'[c].account = row[c].account
          BY <1>1, <3>1, <3>2, <4>1 DEF Collides, Collisions
        <4>2. CASE /\ t \in Txs /\ Inserting(t) /\ c = tx[t].code /\ row'[c].purpose = tx[t].purpose
                   /\ row'[c].email = tx[t].email /\ row'[c].account = tx[t].user
          <5>1. ~Collides(s, tx[t].purpose, tx[t].email, tx[t].user)
            BY <3>1, <4>2
          <5>2. QED
            BY <1>1, <4>2, <5>1 DEF Collides
        <4>3. QED
          BY <2>1, <3>2, <4>1, <4>2 DEF KeepsRows
      <3>3. ASSUME NEW r \in Txs \ {s}, Inserting(r)'
            PROVE  ~Collides(s, tx[r].purpose, tx[r].email, tx[r].user)'
        <4>1. CASE r = t
          <5>1. ~Collides(s, tx'[t].purpose, tx'[t].email, tx'[t].user)
            BY <2>4, <3>3, <4>1 DEF Frame, Apart
          <5>2. QED
            BY <1>1, <4>1, <5>1 DEF Collides
        <4>2. CASE r # t
          <5>1. tx'[r] = tx[r]
            BY <4>2 DEF Frame
          <5>2. Inserting(r)
            BY <3>3, <5>1 DEF Inserting
          <5>3. QED
            BY <1>1, <3>1, <5>1, <5>2 DEF Collides
        <4>3. QED
          BY <4>1, <4>2
      <3>4. QED
        BY <3>2, <3>3 DEF Collisions
    <2>5. QED
      BY <1>1, <2>2, <2>3, <2>4 DEF MakeInv
  <1>7. DeleteInv(s)'
    <2>1. DeleteInv(s) /\ KeepsLocks(t) /\ KeepsRows(t)
      BY <1>1 DEF TxInv, Frame
    <2>2. \A c \in tx'[s].done : rowLock'[c] = s
      <3>1. tx[s].done \subseteq Codes
        BY <1>1, TxFields
      <3>2. QED
        BY <1>1, <2>1, <3>1 DEF DeleteInv, KeepsLocks
    <2>3. ASSUME Purges(s)
          PROVE  {c \in rows' : row'[c].account = tx[s].user}
                   \subseteq {c \in rows : row[c].account = tx[s].user}
      <3>1. ASSUME NEW c \in rows', row'[c].account = tx[s].user
            PROVE  c \in rows /\ row[c].account = tx[s].user
        <4>1. CASE c \in rows /\ row'[c].account = row[c].account
          BY <3>1, <4>1
        <4>2. CASE t \in Txs /\ Makes(t) /\ row'[c].account = tx[t].user
          BY <2>3, <3>1, <4>2, PurgesApart
        <4>3. QED
          BY <2>1, <3>1, <4>1, <4>2 DEF KeepsRows
      <3>2. QED
        BY <3>1
    <2>4. QED
      BY <1>1, <2>1, <2>2, <2>3 DEF DeleteInv, Purges
  <1>8. CheckInv(s)'
    <2>1. CheckInv(s) /\ KeepsLocks(t) /\ KeepsLocked(t)
      BY <1>1 DEF TxInv, Frame
    <2>2. rows \subseteq Codes
      BY DEF rows
    <2>3. QED
      BY <1>1, <2>1, <2>2 DEF CheckInv, Checks, KeepsLocks, KeepsLocked
  <1>9. LinkInv(s)'
    <2>1. LinkInv(s) /\ KeepsAccount(s) /\ Shape(s) /\ Subject(s)
      BY <1>1 DEF TxInv, Frame
    <2> DEFINE i == tx[s].identity
    <2>2. SUFFICES ASSUME Links(s, i)
                   PROVE  /\ \A u \in Users : linked'[u] # i
                          /\ \A r \in Txs \ {s} :
                               ~(/\ tx'[r].kind \in {"social", "connect"} /\ tx'[r].pc = "write"
                                 /\ tx'[r].identity = i)
      BY <1>1 DEF LinkInv, LinkedTo, Links
    <2>3. i \in Identities
      BY <2>1, <2>2 DEF Links, Subject
    <2>4. \A u \in Users : linked'[u] # i
      BY <2>1, <2>2, <2>3 DEF KeepsAccount
    <2>5. ASSUME NEW r \in Txs \ {s}
          PROVE  ~(/\ tx'[r].kind \in {"social", "connect"} /\ tx'[r].pc = "write"
                   /\ tx'[r].identity = i)
      <3>1. CASE r = t
        BY <2>2, <2>3, <3>1 DEF Frame, Apart, Links
      <3>2. CASE r # t
        BY <2>1, <2>2, <3>2 DEF Frame, LinkInv, Links
      <3>3. QED
        BY <3>1, <3>2
    <2>6. QED
      BY <2>4, <2>5
  <1>10. QED
    BY <1>2, <1>3, <1>4, <1>5, <1>6, <1>7, <1>8, <1>9 DEF TxInv


-----------------------------------------------------------------------------
(* Steps that commit nothing                                               *)

\* Such a step moves its own transaction on: what is left to show.
LEMMA LocalStep ==
  ASSUME IInv, NEW t \in Txs, NEW r \in TxState, tx' = [tx EXCEPT ![t] = r],
         UNCHANGED <<userVars, codeVars>>, faults' \in 0 .. MaxFaults,
         nextCode' \in 1 .. MaxCodes + 1, nextCode <= nextCode',
         userLock' \in [Users -> Txs \cup {None}], rowLock' \in [Codes -> Txs \cup {None}],
         KeepsLocks(t), \A s \in Txs \ {t} : Apart(t, s), TxInv(t)'
  PROVE  IInv'
  <1>1. TypeOK
    BY DEF IInv
  <1>2. /\ addr' = addr /\ verified' = verified /\ password' = password /\ old' = old
        /\ linked' = linked /\ row' = row /\ guesses' = guesses /\ uses' = uses /\ rows' = rows
    BY DEF userVars, codeVars, rows
  <1>3. TypeOK'
    BY <1>1, <1>2 DEF TypeOK
  <1>4. nextCode \in Int /\ nextCode' \in Int
    BY <1>1, BoundAssumption DEF TypeOK
  <1>5. Frame(t)
    <2>1. KeepsLocked(t) /\ KeepsRows(t) /\ verified \subseteq verified'
      BY <1>2 DEF KeepsLocked, KeepsRows
    <2>2. ASSUME NEW s \in Txs \ {t}
          PROVE  tx'[s] = tx[s] /\ KeepsAccount(s) /\ KeepsCounts(s)
      <3>1. tx'[s] = tx[s]
        BY <1>1 DEF TypeOK
      <3>2. CreateInv(s) /\ LinkInv(s) /\ Shape(s)
        BY DEF IInv, TxInv
      <3>3. KeepsAccount(s)
        BY <1>2, <3>2 DEF KeepsAccount, CreateInv, LinkInv, UserOf, LinkedTo, Links
      <3>4. KeepsCounts(s)
        BY <1>2 DEF KeepsCounts
      <3>5. QED
        BY <3>1, <3>3, <3>4
    <2>3. QED
      BY <1>4, <2>1, <2>2 DEF Frame
  <1>6. \A s \in Txs : TxInv(s)'
    BY <1>5, OthersKeep
  <1>7. AccountsInv' /\ CodeVerifiesItsPassword' /\ AttemptsAreLimited'
    BY <1>2 DEF IInv, AccountsInv, AccountsAreUnique, CodeVerifiesItsPassword, AttemptsAreLimited
  <1>8. CodesInv'
    <2>1. CodesInv /\ Codes \subseteq Int /\ rows \subseteq Codes
      BY ModelValues DEF IInv, rows
    <2>2. \A c \in Codes : (c < nextCode => c < nextCode') /\ (c >= nextCode' => c >= nextCode)
      BY <1>4, <2>1
    <2>3. QED
      BY <1>2, <2>1, <2>2 DEF CodesInv
  <1>9. QED
    BY <1>3, <1>6, <1>7, <1>8 DEF IInv

\* What t releases was its own.
LEMMA Released ==
  ASSUME TypeOK, NEW t \in Txs, Release(t)
  PROVE  /\ userLock' \in [Users -> Txs \cup {None}] /\ rowLock' \in [Codes -> Txs \cup {None}]
         /\ KeepsLocks(t)
  BY DEF TypeOK, Release, KeepsLocks

\* An ended transaction has nothing to keep and is in nobody's way.
LEMMA EndedKeeps ==
  ASSUME IInv, NEW t \in Txs, tx'[t] = Idle
  PROVE  TxInv(t)' /\ \A s \in Txs \ {t} : Apart(t, s)
  <1>1. Shape(t)' /\ Subject(t)' /\ HoldInv(t)' /\ CreateInv(t)'
    BY IdleFields DEF Shape, Subject, HoldInv, Holds, HoldsUnverified, Purges, Connects,
                      CreateInv, Claimed, Creates
  <1>2. MakeInv(t)' /\ DeleteInv(t)' /\ CheckInv(t)' /\ LinkInv(t)'
    BY IdleFields DEF MakeInv, Makes, Inserting, DeleteInv, Purges, CheckInv, Checks, LinkInv, Links
  <1>3. ASSUME NEW s \in Txs \ {t} PROVE Apart(t, s)
    <2>1. Creates(s) => tx[s].user \in Users
      BY DEF IInv, TxInv, CreateInv
    <2>2. QED
      BY <2>1, IdleFields, ModelValues DEF Apart, Claimed, Creates, Makes, Inserting, Links
  <1>4. QED
    BY <1>1, <1>2, <1>3 DEF TxInv

LEMMA IdleStep ==
  ASSUME IInv, NEW t \in Txs, tx' = [tx EXCEPT ![t] = Idle],
         UNCHANGED <<userVars, codeVars, nextCode>>, faults' \in 0 .. MaxFaults,
         userLock' \in [Users -> Txs \cup {None}], rowLock' \in [Codes -> Txs \cup {None}],
         KeepsLocks(t)
  PROVE  IInv'
  <1>1. nextCode \in 1 .. MaxCodes + 1 /\ nextCode \in Int /\ tx'[t] = Idle
    BY BoundAssumption DEF IInv, TypeOK
  <1>2. TxInv(t)' /\ \A s \in Txs \ {t} : Apart(t, s)
    BY <1>1, EndedKeeps
  <1>3. nextCode' \in 1 .. MaxCodes + 1 /\ nextCode <= nextCode'
    BY <1>1
  <1>4. QED
    BY <1>2, <1>3, IdleFields, LocalStep

LEMMA RollbackStep ==
  ASSUME IInv, NEW t \in Txs, Rollback(t), faults' \in 0 .. MaxFaults
  PROVE  IInv'
  <1>1. TypeOK /\ Release(t) /\ tx' = [tx EXCEPT ![t] = Idle]
    BY DEF IInv, Rollback, End
  <1>2. UNCHANGED <<userVars, codeVars, nextCode>>
    BY DEF Rollback
  <1>3. QED
    BY <1>1, <1>2, Released, IdleStep

LEMMA FaultsType == ASSUME IInv, UNCHANGED faults PROVE faults' \in 0 .. MaxFaults
  BY DEF IInv, TypeOK

\* A transaction that has visited no code, inserted no code and no link, and checks none.
LEMMA PlainTx ==
  ASSUME NEW t \in Txs, tx'[t].done = {}, tx'[t].pc \in {"newuser", "delete", "find", "link"}
  PROVE  /\ ~Inserting(t)' /\ DeleteInv(t)' /\ CheckInv(t)' /\ LinkInv(t)'
         /\ \A i : ~Links(t, i)'
  BY DEF Inserting, DeleteInv, CheckInv, Checks, LinkInv, Links

\* A request begins, with the account it found, or one it is to make, or none.
LEMMA BeginStep ==
  ASSUME IInv, NEW t \in Txs, NEW r \in TxState, tx' = [tx EXCEPT ![t] = r],
         UNCHANGED <<userVars, codeVars, faults, rowLock>>,
         userLock' \in [Users -> Txs \cup {None}], KeepsLocks(t),
         r.pc \in {"newuser", "delete", "find", "link"}, r.done = {},
         r.new => r.pc = "newuser",
         ~r.new => r.user = None \/ addr[r.user] # None,
         r.new => /\ r.user \in Users /\ addr[r.user] = None
                  /\ \A s \in Txs : tx[s].user # r.user,
         \/ r.kind \notin {"register", "resend", "forgot", "change"} /\ nextCode' = nextCode
         \/ NewCode /\ r.code = nextCode,
         Shape(t)', Subject(t)', HoldInv(t)'
  PROVE  IInv'
  <1>1. TypeOK /\ tx'[t] = r /\ (\A s \in Txs \ {t} : tx'[s] = tx[s]) /\ CodesInv
    BY DEF IInv, TypeOK
  <1>2. /\ addr' = addr /\ verified' = verified /\ guesses' = guesses /\ uses' = uses
        /\ rows' = rows /\ row' = row
    BY DEF userVars, codeVars, rows
  <1>3. nextCode \in Int /\ nextCode \in 1 .. MaxCodes + 1
    BY <1>1, BoundAssumption DEF TypeOK
  <1>4. nextCode' \in 1 .. MaxCodes + 1 /\ nextCode <= nextCode'
    BY <1>3, BoundAssumption DEF NewCode
  <1>5. ASSUME Makes(t)'
        PROVE  /\ r.code = nextCode /\ r.code \in Codes /\ r.code < nextCode' /\ r.code \notin rows
               /\ guesses[r.code] = 0 /\ uses[r.code] = 0
               /\ \A s \in Txs \ {t} : Makes(s) => tx[s].code # r.code
    <2>1. r.kind \in {"register", "resend", "forgot", "change"}
      BY <1>1, <1>5 DEF Makes
    <2>2. nextCode <= MaxCodes /\ nextCode' = nextCode + 1 /\ r.code = nextCode
      BY <2>1 DEF NewCode
    <2>3. r.code \in Codes /\ r.code < nextCode'
      BY <1>3, <2>2, BoundAssumption DEF Codes
    <2>4. guesses[r.code] = 0 /\ uses[r.code] = 0 /\ r.code \notin rows
      BY <1>1, <1>3, <2>2, <2>3 DEF CodesInv
    <2>5. ASSUME NEW s \in Txs \ {t}, Makes(s) PROVE tx[s].code # r.code
      <3>1. tx[s].code < nextCode
        BY <2>5 DEF IInv, TxInv, MakeInv
      <3>2. QED
        BY <1>3, <2>2, <3>1
    <2>6. QED
      BY <2>2, <2>3, <2>4, <2>5
  <1>6. /\ ~Inserting(t)' /\ DeleteInv(t)' /\ CheckInv(t)' /\ LinkInv(t)'
        /\ \A i : ~Links(t, i)'
    BY <1>1, PlainTx
  <1>7. ~Claimed(t)' /\ CreateInv(t)'
    BY <1>1, <1>2 DEF Claimed, Creates, CreateInv
  <1>8. MakeInv(t)'
    BY <1>1, <1>2, <1>5, <1>6 DEF MakeInv, Makes
  <1>9. ASSUME NEW s \in Txs \ {t} PROVE Apart(t, s)
    <2>1. Creates(s) => tx[s].user \in Users /\ addr[tx[s].user] = None
      BY DEF IInv, TxInv, CreateInv
    <2>2. Creates(s) => r.user # tx[s].user
      BY <2>1, ModelValues
    <2>3. QED
      BY <1>1, <1>5, <1>6, <1>7, <2>2 DEF Apart
  <1>10. rowLock' \in [Codes -> Txs \cup {None}] /\ faults' \in 0 .. MaxFaults
    BY <1>1 DEF TypeOK
  <1>11. QED
    BY <1>4, <1>6, <1>7, <1>8, <1>9, <1>10, LocalStep DEF TxInv

\* A transaction goes on with the same subject.
LEMMA MoveOnStep ==
  ASSUME IInv, NEW t \in Txs, NEW r \in TxState, tx' = [tx EXCEPT ![t] = r],
         UNCHANGED <<userVars, codeVars, faults, nextCode>>,
         userLock' \in [Users -> Txs \cup {None}], rowLock' \in [Codes -> Txs \cup {None}],
         KeepsLocks(t),
         r.kind = tx[t].kind, r.purpose = tx[t].purpose, r.user = tx[t].user,
         r.email = tx[t].email, r.identity = tx[t].identity, r.new = tx[t].new,
         r.pc = "reset" => tx[t].pc = "reset",
         Creates(t)' => Creates(t),
         Claimed(t)' => \/ Claimed(t)
                        \/ /\ UserOf(tx[t].email) = {}
                           /\ \A s \in Txs \ {t} : Claimed(s) => tx[s].email # tx[t].email,
         Makes(t)' => Makes(t) /\ r.code = tx[t].code,
         Inserting(t)' => r.done = tx[t].done,
         Inserting(t)' =>
            \/ Inserting(t)
            \/ /\ Collisions(t) = {}
               /\ \A s \in Txs \ {t} : Inserting(s) =>
                    ~Collides(t, tx[s].purpose, tx[s].email, tx[s].user),
         \A i \in Identities : Links(t, i)' =>
            Links(t, i) \/ (LinkedTo(i) = {} /\ \A s \in Txs \ {t} : ~Links(s, i)),
         Shape(t)', HoldInv(t)', DeleteInv(t)', CheckInv(t)'
  PROVE  IInv'
  <1>1. TypeOK /\ tx'[t] = r /\ (\A s \in Txs \ {t} : tx'[s] = tx[s]) /\ TxInv(t)
    BY DEF IInv, TypeOK
  <1>2. /\ addr' = addr /\ verified' = verified /\ linked' = linked
        /\ guesses' = guesses /\ uses' = uses /\ rows' = rows /\ row' = row
    BY DEF userVars, codeVars, rows
  <1>3. Subject(t)'
    BY <1>1, <1>2 DEF TxInv, Subject
  <1>4. CreateInv(t)'
    <2>1. UserOf(tx[t].email)' = UserOf(tx[t].email)
      BY <1>1, <1>2 DEF UserOf
    <2>2. \A s \in Txs \ {t} : Claimed(s)' => Claimed(s)
      BY <1>1 DEF Claimed, Creates
    <2>3. CreateInv(t)
      BY <1>1 DEF TxInv
    <2>4. Creates(t)' => /\ tx'[t].user \in Users /\ addr'[tx'[t].user] = None
                         /\ \A s \in Txs \ {t} : tx'[s].user # tx'[t].user
      BY <1>1, <1>2, <2>3 DEF CreateInv
    <2>5. Claimed(t)' => /\ UserOf(tx[t].email) = {}
                         /\ \A s \in Txs \ {t} : Claimed(s) => tx[s].email # tx[t].email
      BY <2>3 DEF CreateInv
    <2>6. QED
      BY <1>1, <2>1, <2>2, <2>4, <2>5 DEF CreateInv
  <1>5. Inserting(t)' =>
          /\ Collisions(t) = {}
          /\ \A s \in Txs \ {t} : Inserting(s) =>
               ~Collides(t, tx[s].purpose, tx[s].email, tx[s].user)
    BY <1>1 DEF TxInv, MakeInv
  <1>6. MakeInv(t)'
    <2>1. ASSUME Makes(t)'
          PROVE  /\ r.code \in Codes /\ r.code < nextCode' /\ r.code \notin rows'
                 /\ guesses'[r.code] = 0 /\ uses'[r.code] = 0
                 /\ \A s \in Txs \ {t} : Makes(s)' => tx'[s].code # r.code
      <3>1. Makes(t) /\ r.code = tx[t].code
        BY <2>1
      <3>2. \A s \in Txs \ {t} : Makes(s)' => Makes(s)
        BY <1>1 DEF Makes
      <3>3. QED
        BY <1>1, <1>2, <3>1, <3>2 DEF TxInv, MakeInv
    <2>2. ASSUME Inserting(t)'
          PROVE  /\ Collisions(t)' = {}
                 /\ \A s \in Txs \ {t} : Inserting(s)' =>
                      ~Collides(t, tx[s].purpose, tx[s].email, tx[s].user)'
      <3>1. Collisions(t)' = Collisions(t)
        BY <1>1, <1>2, <2>2 DEF Collisions, Collides
      <3>2. ASSUME NEW s \in Txs \ {t}, Inserting(s)'
            PROVE  ~Collides(t, tx[s].purpose, tx[s].email, tx[s].user)'
        <4>1. tx'[s] = tx[s] /\ Inserting(s)
          BY <1>1, <3>2 DEF Inserting
        <4>2. ~Collides(t, tx[s].purpose, tx[s].email, tx[s].user)
          BY <1>5, <2>2, <4>1
        <4>3. QED
          BY <1>1, <4>1, <4>2 DEF Collides
      <3>3. QED
        BY <1>5, <2>2, <3>1, <3>2
    <2>3. QED
      BY <1>1, <2>1, <2>2 DEF MakeInv
  <1>7. ASSUME NEW i \in Identities, Links(t, i)'
        PROVE  LinkedTo(i) = {} /\ \A s \in Txs \ {t} : ~Links(s, i)
    BY <1>1, <1>7 DEF TxInv, LinkInv, Links
  <1>8. LinkInv(t)'
    <2>1. SUFFICES ASSUME Links(t, tx[t].identity)'
                   PROVE  /\ {u \in Users : linked'[u] = r.identity} = {}
                          /\ \A s \in Txs \ {t} :
                               ~(/\ tx'[s].kind \in {"social", "connect"} /\ tx'[s].pc = "write"
                                 /\ tx'[s].identity = r.identity)
      BY <1>1 DEF LinkInv, Links, LinkedTo
    <2>2. r.kind \in {"social", "connect"} /\ r.pc = "write"
      BY <1>1, <2>1 DEF Links
    <2>3. r.identity \in Identities
      BY <1>1, <1>3, <2>2 DEF Subject
    <2>4. Links(t, r.identity)'
      BY <1>1, <2>2 DEF Links
    <2>5. LinkedTo(r.identity) = {} /\ \A s \in Txs \ {t} : ~Links(s, r.identity)
      BY <1>7, <2>3, <2>4
    <2>6. QED
      BY <1>1, <1>2, <2>5 DEF LinkedTo, Links
  <1>9. ASSUME NEW s \in Txs \ {t} PROVE Apart(t, s)
    <2>1. Creates(s) => r.user # tx[s].user
      BY DEF IInv, TxInv, CreateInv
    <2>2. Claimed(s) /\ Claimed(t)' => r.email # tx[s].email
      BY DEF IInv, TxInv, CreateInv
    <2>3. Makes(s) /\ Makes(t)' => r.code # tx[s].code
      BY DEF IInv, TxInv, MakeInv
    <2>4. Inserting(s) /\ Inserting(t)' => ~Collides(s, r.purpose, r.email, r.user)
      <3>1. SUFFICES ASSUME Inserting(s), Inserting(t)'
                     PROVE  ~Collides(s, tx[t].purpose, tx[t].email, tx[t].user)
        OBVIOUS
      <3>2. ~Collides(t, tx[s].purpose, tx[s].email, tx[s].user)
        BY <1>5, <3>1
      <3>3. tx[s].user = tx[t].user => (tx[s].user # None <=> tx[t].user # None)
        OBVIOUS
      <3>4. QED
        BY <3>2, <3>3 DEF Collides
    <2>5. QED
      BY <1>1, <1>7, <2>1, <2>2, <2>3, <2>4 DEF Apart
  <1>10. nextCode' \in 1 .. MaxCodes + 1 /\ nextCode <= nextCode' /\ faults' \in 0 .. MaxFaults
    BY <1>1, BoundAssumption DEF TypeOK
  <1>11. QED
    BY <1>3, <1>4, <1>6, <1>8, <1>9, <1>10, LocalStep DEF TxInv


-----------------------------------------------------------------------------
(* Requests begin                                                          *)

LEMMA Locked ==
  ASSUME TypeOK, NEW t \in Txs, NEW u \in Users, UserHolders(t, u) = {},
         userLock' = [userLock EXCEPT ![u] = t], UNCHANGED rowLock
  PROVE  /\ userLock' \in [Users -> Txs \cup {None}] /\ KeepsLocks(t)
         /\ userLock'[u] = t
  <1>1. userLock[u] \in {t, None}
    BY DEF UserHolders
  <1>2. QED
    BY <1>1, ModelValues DEF TypeOK, KeepsLocks

LEMMA NothingLocked ==
  ASSUME TypeOK, NEW t \in Txs, UNCHANGED userLock, UNCHANGED rowLock
  PROVE  /\ userLock' \in [Users -> Txs \cup {None}] /\ KeepsLocks(t)
         /\ rowLock' \in [Codes -> Txs \cup {None}]
  BY DEF TypeOK, KeepsLocks

LEMMA NewUserRecord ==
  ASSUME NEW record \in TxState, NEW u \in Users
  PROVE  [record EXCEPT !.pc = "newuser", !.new = TRUE, !.user = u] \in TxState
  BY DEF TxState

\* An account that is not there yet has no number that a request uses.
LEMMA NewUserStep ==
  ASSUME IInv, NEW t \in Txs, NEW e \in Emails, NEW record \in TxState, NewUser(t, e, record),
         record.done = {}, record.email = e,
         \/ /\ record.kind = "register" /\ record.purpose = "REGISTER"
            /\ NewCode /\ record.code = nextCode
         \/ record.kind = "social" /\ record.identity \in Identities /\ nextCode' = nextCode
  PROVE  IInv'
  <1>1. PICK u \in UserOf(None) :
           /\ \A s \in Txs : tx[s].user # u
           /\ Goto(t, [record EXCEPT !.pc = "newuser", !.new = TRUE, !.user = u])
    BY DEF NewUser
  <1> DEFINE r == [record EXCEPT !.pc = "newuser", !.new = TRUE, !.user = u]
  <1>2. u \in Users /\ addr[u] = None
    BY DEF UserOf
  <1>3. r \in TxState
    BY <1>2, NewUserRecord
  <1>4. /\ r.pc = "newuser" /\ r.new = TRUE /\ r.user = u /\ r.kind = record.kind /\ r.done = {}
        /\ r.purpose = record.purpose /\ r.email = e /\ r.identity = record.identity
        /\ r.code = record.code
    BY DEF TxState
  <1> HIDE DEF r
  <1>5. /\ tx' = [tx EXCEPT ![t] = r] /\ UNCHANGED <<userVars, codeVars, faults>>
        /\ UNCHANGED userLock /\ UNCHANGED rowLock
    BY <1>1 DEF Goto, NewUser, r
  <1>6. tx'[t] = r /\ TypeOK
    BY <1>5 DEF IInv, TypeOK
  <1>7. Shape(t)' /\ Subject(t)'
    BY <1>2, <1>4, <1>6 DEF Shape, Subject
  <1>8. HoldInv(t)'
    BY <1>4, <1>6 DEF HoldInv, Holds, HoldsUnverified, Purges, Connects
  <1>9. \/ r.kind \notin {"register", "resend", "forgot", "change"} /\ nextCode' = nextCode
        \/ NewCode /\ r.code = nextCode
    BY <1>4
  <1>10. UNCHANGED <<userVars, codeVars, faults, rowLock>>
    BY <1>5
  <1>11. QED
    BY <1>1, <1>2, <1>3, <1>4, <1>5, <1>6, <1>7, <1>8, <1>9, <1>10, NothingLocked, BeginStep

\* A request finds an account by its address and locks it.
LEMMA BeginLocked ==
  ASSUME IInv, NEW t \in Txs, NEW u \in Users, NEW r \in TxState, LockUser(t, u, r),
         addr[u] # None,
         r.user = u, r.done = {}, r.new = FALSE,
         \/ r.kind \notin {"register", "resend", "forgot", "change"} /\ nextCode' = nextCode
         \/ NewCode /\ r.code = nextCode,
         \/ /\ r.kind \in {"register", "resend"} /\ r.pc = "delete" /\ r.purpose = "REGISTER"
            /\ u \notin verified /\ addr[u] = r.email
         \/ r.kind = "verify" /\ r.pc = "find" /\ u \notin verified /\ addr[u] = r.email
         \/ /\ r.kind = "social" /\ r.pc = "link" /\ u \notin verified /\ addr[u] = r.email
            /\ r.identity \in Identities
         \/ r.kind = "purge" /\ r.pc = "delete" /\ u \notin verified
         \/ r.kind = "connect" /\ r.pc = "link" /\ u \in verified /\ r.identity \in Identities
  PROVE  IInv'
  <1>1. /\ tx' = [tx EXCEPT ![t] = r] /\ UNCHANGED <<userVars, codeVars, faults, rowLock>>
        /\ UserHolders(t, u) = {} /\ userLock' = [userLock EXCEPT ![u] = t]
    BY DEF LockUser, Goto
  <1>2. TypeOK /\ tx'[t] = r /\ addr' = addr /\ verified' = verified
    BY <1>1 DEF IInv, TypeOK, userVars
  <1>3. userLock' \in [Users -> Txs \cup {None}] /\ KeepsLocks(t) /\ userLock'[u] = t
    BY <1>1, <1>2, Locked
  <1>4. Shape(t)'
    BY <1>2 DEF Shape
  <1>5. Subject(t)'
    <2>1. addr[u] \in Emails
      BY <1>2 DEF TypeOK
    <2>2. QED
      BY <1>2, <2>1 DEF Subject
  <1>6. HoldInv(t)'
    BY <1>2, <1>3 DEF HoldInv, Holds, HoldsUnverified, Purges, Connects
  <1>7. r.pc \in {"newuser", "delete", "find", "link"}
    OBVIOUS
  <1>8. QED
    BY <1>1, <1>3, <1>4, <1>5, <1>6, <1>7, BeginStep

\* A request that locks no account begins.
LEMMA BeginFree ==
  ASSUME IInv, NEW t \in Txs, NEW r \in TxState, tx' = [tx EXCEPT ![t] = r],
         UNCHANGED <<userVars, codeVars, faults>>, UNCHANGED <<userLock, rowLock>>,
         r.done = {}, r.new = FALSE,
         r.user = None \/ r.user \in verified,
         \/ r.kind \notin {"register", "resend", "forgot", "change"} /\ nextCode' = nextCode
         \/ NewCode /\ r.code = nextCode,
         \/ /\ r.kind = "forgot" /\ r.pc = "delete" /\ r.purpose = "PASSWORD_RESET"
            /\ r.user = None /\ r.email \in Emails
         \/ /\ r.kind = "change" /\ r.pc = "delete" /\ r.purpose = "EMAIL_CHANGE"
            /\ r.user \in verified /\ r.email \in Emails
         \/ r.kind = "reset" /\ r.pc = "find" /\ r.email \in Emails
         \/ r.kind = "confirm" /\ r.pc = "find" /\ r.email \in Emails /\ r.user \in verified
         \/ r.kind \in {"clear", "cleanup"} /\ r.pc = "delete"
  PROVE  IInv'
  <1>1. TypeOK /\ tx'[t] = r /\ addr' = addr /\ verified' = verified
    BY DEF IInv, TypeOK, userVars
  <1>2. Shape(t)'
    BY <1>1 DEF Shape
  <1>3. Subject(t)'
    BY <1>1 DEF Subject, TypeOK
  <1>4. HoldInv(t)'
    BY <1>1 DEF HoldInv, Holds, HoldsUnverified, Purges, Connects
  <1>5. r.pc \in {"newuser", "delete", "find", "link"}
    OBVIOUS
  <1>6. r.user = None \/ addr[r.user] # None
    BY DEF IInv, AccountsInv
  <1>7. UNCHANGED <<userVars, codeVars, faults, rowLock>> /\ UNCHANGED userLock /\ UNCHANGED rowLock
    OBVIOUS
  <1>8. QED
    BY <1>1, <1>2, <1>3, <1>4, <1>5, <1>6, <1>7, NothingLocked, BeginStep

LEMMA NextCode == ASSUME TypeOK, NewCode PROVE nextCode \in Codes
  BY BoundAssumption DEF TypeOK, NewCode, Codes

LEMMA UserOfFacts ==
  ASSUME NEW e \in Emails, NEW u \in UserOf(e)
  PROVE  u \in Users /\ addr[u] = e /\ addr[u] # None
  BY ModelValues DEF UserOf

LEMMA BeginRegisterStep ==
  ASSUME IInv, NEW t \in Txs, NEW e \in Emails, BeginRegister(t, e)
  PROVE  IInv'
  <1>1. NewCode /\ TypeOK
    BY DEF BeginRegister, IInv
  <1>2. CASE \E u \in UserOf(e) \ verified :
               LockUser(t, u, Making("register", "REGISTER", u, e))
    <2>1. PICK u \in UserOf(e) \ verified : LockUser(t, u, Making("register", "REGISTER", u, e))
      BY <1>2
    <2> DEFINE r == Making("register", "REGISTER", u, e)
    <2>2. u \in Users /\ addr[u] = e /\ addr[u] # None
      BY UserOfFacts
    <2>3. /\ r \in TxState /\ r.pc = "delete" /\ r.kind = "register" /\ r.purpose = "REGISTER"
          /\ r.user = u /\ r.email = e /\ r.code = nextCode /\ r.done = {} /\ r.new = FALSE
      BY <1>1, <2>2, NextCode, IdleFields DEF Making, TxState, Idle, Purposes
    <2> HIDE DEF r
    <2>4. LockUser(t, u, r)
      BY <2>1 DEF r
    <2>5. QED
      BY <1>1, <2>1, <2>2, <2>3, <2>4, BeginLocked
  <1>3. CASE NewUser(t, e, Making("register", "REGISTER", None, e))
    <2> DEFINE r == Making("register", "REGISTER", None, e)
    <2>1. /\ r \in TxState /\ r.kind = "register" /\ r.purpose = "REGISTER"
          /\ r.email = e /\ r.code = nextCode /\ r.done = {}
      BY <1>1, NextCode, IdleFields DEF Making, TxState, Idle, Purposes
    <2> HIDE DEF r
    <2>2. NewUser(t, e, r)
      BY <1>3 DEF r
    <2>3. QED
      BY <1>1, <2>1, <2>2, NewUserStep
  <1>4. QED
    BY <1>2, <1>3 DEF BeginRegister

LEMMA BeginResendStep ==
  ASSUME IInv, NEW t \in Txs, NEW e \in Emails, BeginResend(t, e)
  PROVE  IInv'
  <1>1. NewCode /\ TypeOK
    BY DEF BeginResend, IInv
  <1>2. PICK u \in UserOf(e) \ verified : LockUser(t, u, Making("resend", "REGISTER", u, e))
    BY DEF BeginResend
  <1> DEFINE r == Making("resend", "REGISTER", u, e)
  <1>3. u \in Users /\ addr[u] = e /\ addr[u] # None
    BY UserOfFacts
  <1>4. /\ r \in TxState /\ r.pc = "delete" /\ r.kind = "resend" /\ r.purpose = "REGISTER"
        /\ r.user = u /\ r.email = e /\ r.code = nextCode /\ r.done = {} /\ r.new = FALSE
    BY <1>1, <1>3, NextCode, IdleFields DEF Making, TxState, Idle, Purposes
  <1> HIDE DEF r
  <1>5. LockUser(t, u, r)
    BY <1>2 DEF r
  <1>6. QED
    BY <1>1, <1>2, <1>3, <1>4, <1>5, BeginLocked

LEMMA BeginForgotStep ==
  ASSUME IInv, NEW t \in Txs, NEW e \in Emails, BeginForgot(t, e)
  PROVE  IInv'
  <1> DEFINE r == Making("forgot", "PASSWORD_RESET", None, e)
  <1>1. NewCode /\ TypeOK
    BY DEF BeginForgot, IInv
  <1>2. /\ r \in TxState /\ r.pc = "delete" /\ r.kind = "forgot" /\ r.purpose = "PASSWORD_RESET"
        /\ r.user = None /\ r.email = e /\ r.code = nextCode /\ r.done = {} /\ r.new = FALSE
    BY <1>1, NextCode, IdleFields DEF Making, TxState, Idle, Purposes
  <1>3. /\ tx' = [tx EXCEPT ![t] = r] /\ UNCHANGED <<userVars, codeVars, faults>>
        /\ UNCHANGED <<userLock, rowLock>>
    BY DEF BeginForgot, Goto
  <1> HIDE DEF r
  <1>4. QED
    BY <1>1, <1>2, <1>3, BeginFree

LEMMA BeginChangeStep ==
  ASSUME IInv, NEW t \in Txs, NEW u \in Users, NEW e \in Emails, BeginChange(t, u, e)
  PROVE  IInv'
  <1> DEFINE r == Making("change", "EMAIL_CHANGE", u, e)
  <1>1. NewCode /\ TypeOK /\ u \in verified
    BY DEF BeginChange, IInv
  <1>2. /\ r \in TxState /\ r.pc = "delete" /\ r.kind = "change" /\ r.purpose = "EMAIL_CHANGE"
        /\ r.user = u /\ r.email = e /\ r.code = nextCode /\ r.done = {} /\ r.new = FALSE
    BY <1>1, NextCode, IdleFields DEF Making, TxState, Idle, Purposes
  <1>3. /\ tx' = [tx EXCEPT ![t] = r] /\ UNCHANGED <<userVars, codeVars, faults>>
        /\ UNCHANGED <<userLock, rowLock>>
    BY DEF BeginChange, Goto
  <1> HIDE DEF r
  <1>4. QED
    BY <1>1, <1>2, <1>3, BeginFree

LEMMA BeginVerifyStep ==
  ASSUME IInv, NEW t \in Txs, NEW e \in Emails, BeginVerify(t, e)
  PROVE  IInv'
  <1>1. PICK u \in UserOf(e) \ verified : LockUser(t, u, Checking("verify", "REGISTER", u, e))
    BY DEF BeginVerify
  <1> DEFINE r == Checking("verify", "REGISTER", u, e)
  <1>2. u \in Users /\ addr[u] = e /\ addr[u] # None
    BY UserOfFacts
  <1>3. /\ r \in TxState /\ r.pc = "find" /\ r.kind = "verify"
        /\ r.user = u /\ r.email = e /\ r.done = {} /\ r.new = FALSE
    BY <1>2, IdleFields DEF Checking, TxState, Idle, Purposes
  <1>4. LockUser(t, u, r) /\ nextCode' = nextCode
    BY <1>1 DEF BeginVerify
  <1> HIDE DEF r
  <1>5. QED
    BY <1>1, <1>2, <1>3, <1>4, BeginLocked

LEMMA BeginCheckStep ==
  ASSUME IInv, NEW t \in Txs, NEW e \in Emails, BeginCheck(t, e)
  PROVE  IInv'
  <1>1. UNCHANGED <<userLock, rowLock>> /\ nextCode' = nextCode
    BY DEF BeginCheck
  <1>2. CASE Goto(t, Checking("reset", "PASSWORD_RESET", None, e))
    <2> DEFINE r == Checking("reset", "PASSWORD_RESET", None, e)
    <2>1. /\ r \in TxState /\ r.pc = "find" /\ r.kind = "reset"
          /\ r.user = None /\ r.email = e /\ r.done = {} /\ r.new = FALSE
      BY IdleFields DEF Checking, TxState, Idle, Purposes
    <2>2. tx' = [tx EXCEPT ![t] = r] /\ UNCHANGED <<userVars, codeVars, faults>>
      BY <1>2 DEF Goto
    <2> HIDE DEF r
    <2>3. QED
      BY <1>1, <2>1, <2>2, BeginFree
  <1>3. CASE \E u \in verified : Goto(t, Checking("confirm", "EMAIL_CHANGE", u, e))
    <2>1. PICK u \in verified : Goto(t, Checking("confirm", "EMAIL_CHANGE", u, e))
      BY <1>3
    <2> DEFINE r == Checking("confirm", "EMAIL_CHANGE", u, e)
    <2>2. u \in Users
      BY DEF IInv, TypeOK
    <2>3. /\ r \in TxState /\ r.pc = "find" /\ r.kind = "confirm"
          /\ r.user = u /\ r.email = e /\ r.done = {} /\ r.new = FALSE
      BY <2>2, IdleFields DEF Checking, TxState, Idle, Purposes
    <2>4. tx' = [tx EXCEPT ![t] = r] /\ UNCHANGED <<userVars, codeVars, faults>>
      BY <2>1 DEF Goto
    <2> HIDE DEF r
    <2>5. QED
      BY <1>1, <2>1, <2>3, <2>4, BeginFree
  <1>4. QED
    BY <1>2, <1>3 DEF BeginCheck

LEMMA BeginSocialStep ==
  ASSUME IInv, NEW t \in Txs, NEW i \in Identities, NEW e \in Emails, BeginSocial(t, i, e)
  PROVE  IInv'
  <1>1. nextCode' = nextCode
    BY DEF BeginSocial
  <1>2. CASE \E u \in UserOf(e) \ verified : LockUser(t, u, [LoggingIn(i, e) EXCEPT !.user = u])
    <2>1. PICK u \in UserOf(e) \ verified : LockUser(t, u, [LoggingIn(i, e) EXCEPT !.user = u])
      BY <1>2
    <2> DEFINE r == [LoggingIn(i, e) EXCEPT !.user = u]
    <2>2. u \in Users /\ addr[u] = e /\ addr[u] # None
      BY UserOfFacts
    <2>3. /\ r \in TxState /\ r.pc = "link" /\ r.kind = "social" /\ r.identity = i
          /\ r.user = u /\ r.email = e /\ r.done = {} /\ r.new = FALSE
      BY <2>2, IdleFields DEF LoggingIn, TxState, Idle
    <2> HIDE DEF r
    <2>4. LockUser(t, u, r)
      BY <2>1 DEF r
    <2>5. QED
      BY <1>1, <2>1, <2>2, <2>3, <2>4, BeginLocked
  <1>3. CASE NewUser(t, e, LoggingIn(i, e))
    <2> DEFINE r == LoggingIn(i, e)
    <2>1. /\ r \in TxState /\ r.kind = "social" /\ r.identity = i /\ r.email = e /\ r.done = {}
      BY IdleFields DEF LoggingIn, TxState, Idle
    <2> HIDE DEF r
    <2>2. NewUser(t, e, r)
      BY <1>3 DEF r
    <2>3. QED
      BY <1>1, <2>1, <2>2, NewUserStep
  <1>4. QED
    BY <1>2, <1>3 DEF BeginSocial

LEMMA BeginConnectStep ==
  ASSUME IInv, NEW t \in Txs, NEW u \in Users, NEW i \in Identities, BeginConnect(t, u, i)
  PROVE  IInv'
  <1> DEFINE r == [Idle EXCEPT !.pc = "link", !.kind = "connect", !.user = u, !.identity = i]
  <1>1. LockUser(t, u, r) /\ nextCode' = nextCode /\ u \in verified
    BY DEF BeginConnect
  <1>2. /\ r \in TxState /\ r.pc = "link" /\ r.kind = "connect" /\ r.user = u
        /\ r.identity = i /\ r.done = {} /\ r.new = FALSE
    BY IdleFields DEF TxState, Idle
  <1>3. addr[u] # None
    BY <1>1 DEF IInv, AccountsInv
  <1> HIDE DEF r
  <1>4. QED
    BY <1>1, <1>2, <1>3, BeginLocked

LEMMA BeginCleanupStep ==
  ASSUME IInv, NEW t \in Txs, BeginCleanup(t)
  PROVE  IInv'
  <1> DEFINE r == [Idle EXCEPT !.pc = "delete", !.kind = "cleanup"]
  <1>1. /\ tx' = [tx EXCEPT ![t] = r] /\ UNCHANGED <<userVars, codeVars, faults>>
        /\ UNCHANGED <<userLock, rowLock>> /\ nextCode' = nextCode
    BY DEF BeginCleanup, Goto
  <1>2. /\ r \in TxState /\ r.pc = "delete" /\ r.kind = "cleanup" /\ r.user = None
        /\ r.done = {} /\ r.new = FALSE
    BY IdleFields DEF TxState, Idle
  <1> HIDE DEF r
  <1>3. QED
    BY <1>1, <1>2, BeginFree

LEMMA BeginPurgeStep ==
  ASSUME IInv, NEW t \in Txs, NEW u \in Users, BeginPurge(t, u)
  PROVE  IInv'
  <1> DEFINE r == [Idle EXCEPT !.pc = "delete", !.kind = "purge", !.user = u]
  <1>1. LockUser(t, u, r) /\ nextCode' = nextCode /\ u \notin verified /\ addr[u] # None
    BY DEF BeginPurge
  <1>2. /\ r \in TxState /\ r.pc = "delete" /\ r.kind = "purge" /\ r.user = u
        /\ r.done = {} /\ r.new = FALSE
    BY IdleFields DEF TxState, Idle
  <1> HIDE DEF r
  <1>3. QED
    BY <1>1, <1>2, BeginLocked


-----------------------------------------------------------------------------
(* Requests go on                                                          *)

\* What a request that goes on without another row lock leaves alone.
LEMMA QuietMove ==
  ASSUME IInv, NEW t \in Txs, NEW r \in TxState, Goto(t, r),
         UNCHANGED <<userLock, rowLock, nextCode>>
  PROVE  /\ tx' = [tx EXCEPT ![t] = r] /\ tx'[t] = r
         /\ UNCHANGED <<userVars, codeVars, faults, nextCode>>
         /\ addr' = addr /\ verified' = verified /\ row' = row /\ rows' = rows
         /\ userLock' \in [Users -> Txs \cup {None}] /\ rowLock' \in [Codes -> Txs \cup {None}]
         /\ KeepsLocks(t) /\ userLock' = userLock /\ rowLock' = rowLock
  <1>1. TypeOK /\ UNCHANGED userLock /\ UNCHANGED rowLock
    BY DEF IInv
  <1>2. tx' = [tx EXCEPT ![t] = r] /\ tx'[t] = r
    BY <1>1 DEF Goto, TypeOK
  <1>3. UNCHANGED <<userVars, codeVars, faults, nextCode>>
    BY DEF Goto
  <1>4. addr' = addr /\ verified' = verified /\ row' = row /\ rows' = rows
    BY <1>3 DEF userVars, codeVars, rows
  <1>5. QED
    BY <1>1, <1>2, <1>3, <1>4, NothingLocked

LEMMA InsertUserStep ==
  ASSUME IInv, NEW t \in Txs, InsertUser(t)
  PROVE  IInv'
  <1> DEFINE r == [tx[t] EXCEPT !.pc = IF tx[t].kind = "social" THEN "link" ELSE "delete"]
  <1>1. TxInv(t) /\ TypeOK /\ tx[t].pc = "newuser" /\ ~Blocked(t)
    BY DEF IInv, InsertUser
  <1>2. CASE Rollback(t) /\ UNCHANGED faults
    BY <1>2, FaultsType, RollbackStep
  <1>3. CASE /\ ~Taken(tx[t].email, tx[t].user) /\ Goto(t, r)
             /\ UNCHANGED <<userLock, rowLock, nextCode>>
    <2>1. tx[t] \in TxState
      BY <1>1 DEF TypeOK
    <2>2. /\ r \in TxState /\ r.pc = (IF tx[t].kind = "social" THEN "link" ELSE "delete")
          /\ r.kind = tx[t].kind /\ r.purpose = tx[t].purpose /\ r.user = tx[t].user
          /\ r.email = tx[t].email /\ r.identity = tx[t].identity /\ r.new = tx[t].new
          /\ r.code = tx[t].code /\ r.done = tx[t].done
      BY <2>1 DEF TxState
    <2>3. tx[t].new /\ tx[t].kind \in {"register", "social"} /\ Creates(t)
      BY <1>1 DEF TxInv, Shape, Creates
    <2>4. tx[t].user \in Users /\ addr[tx[t].user] = None /\ tx[t].email \in Emails
      BY <1>1, <2>3 DEF TxInv, CreateInv, Subject
    <2>5. UserOf(tx[t].email) = {}
      BY <1>3, <2>4, ModelValues DEF Taken, UserOf
    <2>6. ASSUME NEW s \in Txs \ {t}, Claimed(s) PROVE tx[s].email # tx[t].email
      <3>1. {z \in Txs \ {t} : Claims(z, tx[t].email)} = {}
        BY <1>1 DEF Blocked, WaitsFor
      <3>2. ~Claims(s, tx[t].email)
        BY <3>1
      <3>3. QED
        BY <2>6, <3>2 DEF Claims, Claimed, Creates
    <2> HIDE DEF r
    <2>7. /\ tx' = [tx EXCEPT ![t] = r] /\ tx'[t] = r
          /\ UNCHANGED <<userVars, codeVars, faults, nextCode>>
          /\ userLock' \in [Users -> Txs \cup {None}] /\ rowLock' \in [Codes -> Txs \cup {None}]
          /\ KeepsLocks(t) /\ rowLock' = rowLock
      BY <1>3, <2>2, QuietMove
    <2>8. Shape(t)'
      BY <2>2, <2>3, <2>7 DEF Shape
    <2>9. HoldInv(t)' /\ CheckInv(t)'
      BY <2>2, <2>3, <2>7 DEF HoldInv, Holds, HoldsUnverified, Purges, Connects, CheckInv, Checks
    <2>10. DeleteInv(t)'
      BY <1>1, <2>2, <2>3, <2>7 DEF TxInv, DeleteInv, Purges
    <2>11. Makes(t)' => Makes(t) /\ r.code = tx[t].code
      BY <1>1, <2>2, <2>7 DEF Makes, MakingPcs
    <2>12. ~Inserting(t)' /\ \A i \in Identities : ~Links(t, i)'
      BY <2>2, <2>7 DEF Inserting, Links
    <2>13. r.pc # "reset"
      BY <2>2
    <2>14. QED
      BY <2>2, <2>3, <2>5, <2>6, <2>7, <2>8, <2>9, <2>10, <2>11, <2>12, <2>13, MoveOnStep
  <1>4. QED
    BY <1>2, <1>3 DEF InsertUser

LEMMA OverRecord ==
  ASSUME NEW record \in TxState, NEW over \in {"write", "insert"}
  PROVE  [record EXCEPT !.pc = over, !.want = NoCode, !.todo = {}] \in TxState
  BY DEF TxState

\* The DELETE of t goes on to one of the codes S, with record.done deleted so far.
LEMMA VisitStep ==
  ASSUME IInv, NEW t \in Txs, NEW record \in TxState, NEW S \in SUBSET Codes,
         Visit(t, record, S), tx[t].pc \in {"delete", "rows"},
         record.kind = tx[t].kind, record.purpose = tx[t].purpose, record.user = tx[t].user,
         record.email = tx[t].email, record.identity = tx[t].identity, record.new = tx[t].new,
         record.code = tx[t].code,
         UNCHANGED <<userLock, nextCode>>,
         rowLock' \in [Codes -> Txs \cup {None}], KeepsLocks(t),
         \A c \in record.done : rowLock'[c] = t,
         Purges(t) => {c \in rows : row[c].account = tx[t].user} \subseteq record.done \cup S
  PROVE  IInv'
  <1> DEFINE over == IF record.kind \in {"clear", "cleanup", "purge"} THEN "write" ELSE "insert"
  <1>1. PICK r :
          /\ Goto(t, r)
          /\ \/ S = {} /\ r = [record EXCEPT !.pc = over, !.want = NoCode, !.todo = {}]
             \/ \E c \in S : r = [record EXCEPT !.pc = "rows", !.want = c, !.todo = S \ {c}]
    BY DEF Visit
  <1>2. TxInv(t) /\ TypeOK
    BY DEF IInv
  <1>3. tx[t].kind \in {"register", "resend", "forgot", "change", "clear", "cleanup", "purge"}
    BY <1>2 DEF TxInv, Shape
  <1>4. /\ r \in TxState /\ r.kind = tx[t].kind /\ r.purpose = tx[t].purpose
        /\ r.user = tx[t].user /\ r.email = tx[t].email /\ r.identity = tx[t].identity
        /\ r.new = tx[t].new /\ r.code = tx[t].code /\ r.done = record.done
        /\ \/ S = {} /\ r.pc = over
           \/ \E c \in S : r.pc = "rows" /\ r.want = c /\ r.todo = S \ {c}
    <2>1. CASE S = {} /\ r = [record EXCEPT !.pc = over, !.want = NoCode, !.todo = {}]
      <3>1. over \in {"write", "insert"}
        OBVIOUS
      <3> HIDE DEF over
      <3>2. [record EXCEPT !.pc = over, !.want = NoCode, !.todo = {}] \in TxState
        BY <3>1, OverRecord
      <3>3. QED
        BY <2>1, <3>2 DEF TxState
    <2>2. CASE \E c \in S : r = [record EXCEPT !.pc = "rows", !.want = c, !.todo = S \ {c}]
      <3>1. PICK c \in S : r = [record EXCEPT !.pc = "rows", !.want = c, !.todo = S \ {c}]
        BY <2>2
      <3>2. QED
        BY <3>1 DEF TxState
    <2>3. QED
      BY <1>1, <2>1, <2>2
  <1>5. /\ tx' = [tx EXCEPT ![t] = r] /\ tx'[t] = r
        /\ UNCHANGED <<userVars, codeVars, faults, nextCode>>
        /\ userLock' \in [Users -> Txs \cup {None}] /\ userLock' = userLock
    BY <1>1, <1>2 DEF Goto, TypeOK
  <1>6. addr' = addr /\ verified' = verified /\ row' = row /\ rows' = rows
    BY <1>5 DEF userVars, codeVars, rows
  <1>7. /\ r.pc \in {"rows", "write", "insert"}
        /\ r.pc = "write" => r.kind \in {"clear", "cleanup", "purge"}
        /\ r.pc = "insert" => r.kind \in {"register", "resend", "forgot", "change"}
        /\ r.pc = "rows" => r.want \in Codes
        /\ r.kind = "purge" => r.pc \in {"rows", "write"}
    BY <1>3, <1>4
  <1>8. Shape(t)'
    <2>1. r.new => r.kind \in {"register", "social"}
      BY <1>2, <1>4 DEF TxInv, Shape
    <2>2. QED
      BY <1>3, <1>4, <1>5, <1>7, <2>1 DEF Shape
  <1>9. HoldInv(t)'
    BY <1>2, <1>3, <1>4, <1>5, <1>6, <1>7
       DEF TxInv, HoldInv, Holds, HoldsUnverified, Purges, Connects, MakingPcs
  <1>10. CheckInv(t)'
    BY <1>5, <1>7 DEF CheckInv, Checks
  <1>11. DeleteInv(t)'
    <2>1. r.pc = "rows" => record.done \cup S \subseteq r.done \cup r.todo \cup {r.want}
      BY <1>4
    <2>2. r.pc = "write" => record.done \cup S \subseteq r.done
      BY <1>4
    <2>3. Purges(t)' => Purges(t)
      BY <1>4, <1>5 DEF Purges
    <2>4. QED
      BY <1>4, <1>5, <1>6, <2>1, <2>2, <2>3 DEF DeleteInv
  <1>12. /\ Creates(t)' => Creates(t)
         /\ Claimed(t)' => Claimed(t)
         /\ Makes(t)' => Makes(t) /\ r.code = tx[t].code
    BY <1>4, <1>5 DEF Creates, Claimed, Makes, MakingPcs
  <1>13. ~Inserting(t)' /\ \A i \in Identities : ~Links(t, i)'
    BY <1>3, <1>4, <1>5, <1>7 DEF Inserting, Links
  <1>14. r.pc # "reset"
    BY <1>7
  <1>15. QED
    BY <1>4, <1>5, <1>8, <1>9, <1>10, <1>11, <1>12, <1>13, <1>14, MoveOnStep

LEMMA DeleteStep ==
  ASSUME IInv, NEW t \in Txs, Delete(t)
  PROVE  IInv'
  <1>1. /\ TxInv(t) /\ TypeOK /\ tx[t].pc = "delete" /\ tx[t] \in TxState
        /\ UNCHANGED userLock /\ UNCHANGED rowLock /\ UNCHANGED nextCode
        /\ Visit(t, tx[t], Matching(t))
    BY DEF IInv, Delete, TypeOK
  <1>2. Matching(t) \in SUBSET Codes
    BY DEF Matching, Expired, rows
  <1>3. rowLock' \in [Codes -> Txs \cup {None}] /\ KeepsLocks(t)
    BY <1>1, NothingLocked
  <1>4. \A c \in tx[t].done : rowLock'[c] = t
    BY <1>1 DEF TxInv, DeleteInv
  <1>5. Purges(t) => {c \in rows : row[c].account = tx[t].user} \subseteq tx[t].done \cup Matching(t)
    BY DEF Purges, Matching
  <1>6. QED
    BY <1>1, <1>2, <1>3, <1>4, <1>5, VisitStep

LEMMA TakeRowStep ==
  ASSUME IInv, NEW t \in Txs, TakeRow(t)
  PROVE  IInv'
  <1> DEFINE c == tx[t].want
             record == [tx[t] EXCEPT !.done = @ \cup ({c} \cap rows)]
  <1>1. TxInv(t) /\ TypeOK /\ tx[t].pc = "rows" /\ tx[t] \in TxState /\ ~Blocked(t)
    BY DEF IInv, TakeRow, TypeOK
  <1>2. /\ rowLock' = [rowLock EXCEPT ![c] = IF c \in rows THEN t ELSE @]
        /\ Visit(t, record, tx[t].todo) /\ UNCHANGED <<userLock, nextCode>>
    BY DEF TakeRow
  <1>3. c \in Codes /\ tx[t].todo \in SUBSET Codes
    BY <1>1, TxFields DEF TxInv, Shape
  <1>4. rowLock[c] \in {t, None}
    BY <1>1 DEF Blocked, WaitsFor
  <1>5. /\ record \in TxState /\ record.done = tx[t].done \cup ({c} \cap rows)
        /\ record.kind = tx[t].kind /\ record.purpose = tx[t].purpose
        /\ record.user = tx[t].user /\ record.email = tx[t].email
        /\ record.identity = tx[t].identity /\ record.new = tx[t].new
        /\ record.code = tx[t].code
    BY <1>1, <1>3 DEF TxState
  <1>6. rowLock' \in [Codes -> Txs \cup {None}] /\ KeepsLocks(t)
    <2>1. UNCHANGED userLock
      BY <1>2
    <2>2. QED
      BY <1>1, <1>2, <1>3, <1>4, <2>1, ModelValues DEF TypeOK, KeepsLocks
  <1>7. \A d \in record.done : rowLock'[d] = t
    <2>1. \A d \in tx[t].done : rowLock[d] = t /\ d \in Codes
      BY <1>1, TxFields DEF TxInv, DeleteInv
    <2>2. QED
      BY <1>1, <1>2, <1>3, <1>5, <2>1 DEF TypeOK
  <1>8. Purges(t) =>
          {d \in rows : row[d].account = tx[t].user} \subseteq record.done \cup tx[t].todo
    BY <1>1, <1>5 DEF TxInv, DeleteInv
  <1> HIDE DEF record
  <1>9. QED
    BY <1>1, <1>2, <1>3, <1>5, <1>6, <1>7, <1>8, VisitStep

LEMMA InsertCodeStep ==
  ASSUME IInv, NEW t \in Txs, InsertCode(t)
  PROVE  IInv'
  <1> DEFINE r == [tx[t] EXCEPT !.pc = IF tx[t].kind = "change" THEN "key" ELSE "write"]
  <1>1. TxInv(t) /\ TypeOK /\ tx[t].pc = "insert" /\ ~Blocked(t) /\ tx[t] \in TxState
    BY DEF IInv, InsertCode, TypeOK
  <1>2. CASE Rollback(t) /\ UNCHANGED faults
    BY <1>2, FaultsType, RollbackStep
  <1>3. CASE /\ Collisions(t) = {} /\ Goto(t, r) /\ UNCHANGED <<userLock, rowLock, nextCode>>
    <2>1. /\ r \in TxState /\ r.pc = (IF tx[t].kind = "change" THEN "key" ELSE "write")
          /\ r.kind = tx[t].kind /\ r.purpose = tx[t].purpose /\ r.user = tx[t].user
          /\ r.email = tx[t].email /\ r.identity = tx[t].identity /\ r.new = tx[t].new
          /\ r.code = tx[t].code /\ r.done = tx[t].done
      BY <1>1 DEF TxState
    <2>2. /\ tx[t].kind \in {"register", "resend", "forgot", "change"}
          /\ tx[t].new => tx[t].kind = "register"
      BY <1>1 DEF TxInv, Shape
    <2>3. ASSUME NEW s \in Txs \ {t}, Inserting(s)
          PROVE  ~Collides(t, tx[s].purpose, tx[s].email, tx[s].user)
      <3>1. {z \in Txs \ {t} :
               \/ Inserting(z) /\ Collides(t, tx[z].purpose, tx[z].email, tx[z].user)
               \/ Collisions(t) \cap tx[z].done # {}} = {}
        BY <1>1 DEF Blocked, WaitsFor
      <3>2. QED
        BY <2>3, <3>1
    <2> HIDE DEF r
    <2>4. /\ tx' = [tx EXCEPT ![t] = r] /\ tx'[t] = r
          /\ UNCHANGED <<userVars, codeVars, faults, nextCode>>
          /\ addr' = addr /\ verified' = verified
          /\ userLock' \in [Users -> Txs \cup {None}] /\ rowLock' \in [Codes -> Txs \cup {None}]
          /\ KeepsLocks(t) /\ userLock' = userLock /\ rowLock' = rowLock
      BY <1>3, <2>1, QuietMove
    <2>5. Shape(t)'
      BY <2>1, <2>2, <2>4 DEF Shape
    <2>6. HoldInv(t)'
      BY <1>1, <2>1, <2>2, <2>4
         DEF TxInv, HoldInv, Holds, HoldsUnverified, Purges, Connects, MakingPcs
    <2>7. CheckInv(t)'
      BY <2>1, <2>4 DEF CheckInv, Checks
    <2>8. DeleteInv(t)'
      BY <1>1, <2>1, <2>2, <2>4 DEF TxInv, DeleteInv, Purges
    <2>9. /\ Creates(t)' => Creates(t)
          /\ Claimed(t)' => Claimed(t)
          /\ Makes(t)' => Makes(t) /\ r.code = tx[t].code
      BY <1>1, <2>1, <2>4 DEF Creates, Claimed, Makes, MakingPcs
    <2>10. \A i \in Identities : ~Links(t, i)'
      BY <2>1, <2>2, <2>4 DEF Links
    <2>11. r.pc # "reset"
      BY <2>1
    <2>12. QED
      BY <1>3, <2>1, <2>3, <2>4, <2>5, <2>6, <2>7, <2>8, <2>9, <2>10, <2>11, MoveOnStep
  <1>4. QED
    BY <1>2, <1>3 DEF InsertCode

LEMMA CheckKeyStep ==
  ASSUME IInv, NEW t \in Txs, CheckKey(t)
  PROVE  IInv'
  <1> DEFINE r == [tx[t] EXCEPT !.pc = "write"]
  <1>1. /\ TxInv(t) /\ TypeOK /\ tx[t].pc = "key" /\ tx[t] \in TxState
        /\ Goto(t, r) /\ UNCHANGED <<userLock, rowLock, nextCode>>
    BY DEF IInv, CheckKey, TypeOK
  <1>2. /\ r \in TxState /\ r.pc = "write"
        /\ r.kind = tx[t].kind /\ r.purpose = tx[t].purpose /\ r.user = tx[t].user
        /\ r.email = tx[t].email /\ r.identity = tx[t].identity /\ r.new = tx[t].new
        /\ r.code = tx[t].code /\ r.done = tx[t].done
    BY <1>1 DEF TxState
  <1>3. tx[t].kind = "change" /\ ~tx[t].new
    BY <1>1 DEF TxInv, Shape
  <1> HIDE DEF r
  <1>4. /\ tx' = [tx EXCEPT ![t] = r] /\ tx'[t] = r
        /\ UNCHANGED <<userVars, codeVars, faults, nextCode>>
        /\ userLock' \in [Users -> Txs \cup {None}] /\ rowLock' \in [Codes -> Txs \cup {None}]
        /\ KeepsLocks(t) /\ userLock' = userLock /\ rowLock' = rowLock
    BY <1>1, <1>2, QuietMove
  <1>5. Shape(t)'
    BY <1>2, <1>3, <1>4 DEF Shape
  <1>6. HoldInv(t)' /\ CheckInv(t)'
    BY <1>2, <1>3, <1>4
       DEF HoldInv, Holds, HoldsUnverified, Purges, Connects, CheckInv, Checks
  <1>7. DeleteInv(t)'
    BY <1>1, <1>2, <1>3, <1>4 DEF TxInv, DeleteInv, Purges
  <1>8. ~Creates(t)' /\ ~Claimed(t)' /\ \A i \in Identities : ~Links(t, i)'
    BY <1>2, <1>3, <1>4 DEF Creates, Claimed, Links
  <1>9. Makes(t) /\ Inserting(t)
    BY <1>1, <1>3 DEF Makes, MakingPcs, Inserting
  <1>10. r.pc # "reset"
    BY <1>2
  <1>11. QED
    BY <1>2, <1>4, <1>5, <1>6, <1>7, <1>8, <1>9, <1>10, MoveOnStep

LEMMA MailStep ==
  ASSUME IInv, NEW t \in Txs, Mail(t)
  PROVE  IInv'
  <1>1. /\ TxInv(t) /\ TypeOK /\ tx[t].pc = "mail" /\ UNCHANGED <<userLock, rowLock>>
        /\ nextCode' = nextCode
    BY DEF IInv, Mail
  <1>2. CASE Goto(t, Idle)
    <2>1. /\ tx' = [tx EXCEPT ![t] = Idle] /\ UNCHANGED <<userVars, codeVars, faults, nextCode>>
          /\ userLock' \in [Users -> Txs \cup {None}] /\ rowLock' \in [Codes -> Txs \cup {None}]
          /\ KeepsLocks(t)
      BY <1>1, <1>2, IdleFields, QuietMove
    <2>2. QED
      BY <2>1, FaultsType, IdleStep
  <1>3. CASE Goto(t, [Idle EXCEPT !.pc = "delete", !.kind = "clear", !.purpose = tx[t].purpose,
                        !.email = tx[t].email,
                        !.user = IF tx[t].kind = "change" THEN tx[t].user ELSE None])
    <2> DEFINE u == IF tx[t].kind = "change" THEN tx[t].user ELSE None
               r == [Idle EXCEPT !.pc = "delete", !.kind = "clear", !.purpose = tx[t].purpose,
                                 !.email = tx[t].email, !.user = u]
    <2>1. u = None \/ u \in verified
      BY <1>1 DEF TxInv, Subject
    <2>2. /\ u \in Users \cup {None} /\ tx[t].purpose \in Purposes \cup {"none"}
          /\ tx[t].email \in Emails \cup {None}
      BY <1>1, TxFields
    <2> HIDE DEF u
    <2>3. /\ r \in TxState /\ r.pc = "delete" /\ r.kind = "clear" /\ r.user = u
          /\ r.done = {} /\ r.new = FALSE
      BY <2>2, IdleFields DEF TxState, Idle
    <2>4. tx' = [tx EXCEPT ![t] = r] /\ UNCHANGED <<userVars, codeVars, faults>>
      BY <1>3 DEF Goto, u
    <2> HIDE DEF r
    <2>5. QED
      BY <1>1, <2>1, <2>3, <2>4, BeginFree
  <1>4. QED
    BY <1>2, <1>3 DEF Mail


\* A request that checks a code, or is linked, goes on: it makes nothing.
LEMMA CheckingMove ==
  ASSUME IInv, NEW t \in Txs, NEW r \in TxState, Goto(t, r), UNCHANGED nextCode,
         userLock' \in [Users -> Txs \cup {None}], rowLock' \in [Codes -> Txs \cup {None}],
         KeepsLocks(t), \A c \in Codes : rowLock[c] = t => rowLock'[c] = t,
         tx[t].pc \in {"find", "load", "check", "move"},
         r.pc \in {"load", "check", "move", "index"},
         r.kind = tx[t].kind, r.purpose = tx[t].purpose, r.user = tx[t].user,
         r.email = tx[t].email, r.identity = tx[t].identity, r.new = tx[t].new,
         r.done = tx[t].done,
         r.pc = "load" => r.want \in Codes,
         r.pc \in {"move", "index"} => r.kind = "confirm",
         r.kind = "verify" => userLock' = userLock,
         r.pc = "index" => tx[t].user \in Users /\ userLock'[tx[t].user] = t,
         r.pc # "load" => /\ r.code \in rows /\ rowLock'[r.code] = t
                          /\ r.seen = row[r.code].attempts
  PROVE  IInv'
  <1>1. TxInv(t) /\ TypeOK
    BY DEF IInv
  <1>2. /\ tx' = [tx EXCEPT ![t] = r] /\ tx'[t] = r
        /\ UNCHANGED <<userVars, codeVars, faults, nextCode>>
    BY <1>1 DEF Goto, TypeOK
  <1>3. addr' = addr /\ verified' = verified /\ row' = row /\ rows' = rows
    BY <1>2 DEF userVars, codeVars, rows
  <1>4. tx[t].kind \in {"verify", "reset", "confirm"} /\ ~tx[t].new
    BY <1>1 DEF TxInv, Shape
  <1>5. Shape(t)'
    BY <1>2, <1>4 DEF Shape
  <1>6. HoldInv(t)'
    BY <1>1, <1>2, <1>3, <1>4 DEF TxInv, HoldInv, Holds, HoldsUnverified, Purges, Connects
  <1>7. DeleteInv(t)'
    <2>1. \A c \in tx[t].done : rowLock[c] = t /\ c \in Codes
      BY <1>1, TxFields DEF TxInv, DeleteInv
    <2>2. QED
      BY <1>2, <1>4, <2>1 DEF DeleteInv, Purges
  <1>8. CheckInv(t)'
    BY <1>2, <1>3 DEF CheckInv, Checks
  <1>9. /\ ~Creates(t)' /\ ~Claimed(t)' /\ ~Makes(t)' /\ ~Inserting(t)'
        /\ \A i \in Identities : ~Links(t, i)'
    BY <1>2, <1>4 DEF Creates, Claimed, Makes, Inserting, Links
  <1>10. r.pc # "reset"
    OBVIOUS
  <1>11. QED
    BY <1>2, <1>5, <1>6, <1>7, <1>8, <1>9, <1>10, MoveOnStep

LEMMA FindStep ==
  ASSUME IInv, NEW t \in Txs, Find(t)
  PROVE  IInv'
  <1> DEFINE S == Pending(tx[t].purpose, tx[t].email, tx[t].user)
  <1>1. TypeOK /\ tx[t].pc = "find" /\ tx[t] \in TxState
    BY DEF IInv, Find, TypeOK
  <1>2. CASE Rollback(t) /\ UNCHANGED faults
    BY <1>2, FaultsType, RollbackStep
  <1>3. CASE /\ \E c \in S : Goto(t, [tx[t] EXCEPT !.pc = "load", !.want = c])
             /\ UNCHANGED <<userLock, rowLock, nextCode>>
    <2>1. PICK c \in S : Goto(t, [tx[t] EXCEPT !.pc = "load", !.want = c])
      BY <1>3
    <2> DEFINE r == [tx[t] EXCEPT !.pc = "load", !.want = c]
    <2>2. c \in Codes
      BY DEF Pending, rows
    <2>3. /\ r \in TxState /\ r.pc = "load" /\ r.want = c
          /\ r.kind = tx[t].kind /\ r.purpose = tx[t].purpose /\ r.user = tx[t].user
          /\ r.email = tx[t].email /\ r.identity = tx[t].identity /\ r.new = tx[t].new
          /\ r.done = tx[t].done
      BY <1>1, <2>2 DEF TxState
    <2>4. Goto(t, r)
      BY <2>1
    <2> HIDE DEF r
    <2>5. UNCHANGED userLock /\ UNCHANGED rowLock /\ UNCHANGED nextCode
      BY <1>3
    <2>6. QED
      BY <1>1, <2>2, <2>3, <2>4, <2>5, NothingLocked, CheckingMove
  <1>4. QED
    BY <1>2, <1>3 DEF Find

LEMMA LoadStep ==
  ASSUME IInv, NEW t \in Txs, Load(t)
  PROVE  IInv'
  <1> DEFINE c == tx[t].want
  <1>1. TxInv(t) /\ TypeOK /\ tx[t].pc = "load" /\ tx[t] \in TxState /\ ~Blocked(t)
    BY DEF IInv, Load, CodeFree, TypeOK
  <1>2. CASE Rollback(t) /\ UNCHANGED faults
    BY <1>2, FaultsType, RollbackStep
  <1>3. CASE /\ c \in rows /\ rowLock' = [rowLock EXCEPT ![c] = t]
             /\ Goto(t, [tx[t] EXCEPT !.pc = "check", !.code = c, !.want = NoCode,
                                      !.seen = row[c].attempts])
             /\ UNCHANGED <<userLock, nextCode>>
    <2> DEFINE n == row[c].attempts
               r == [tx[t] EXCEPT !.pc = "check", !.code = c, !.want = NoCode, !.seen = n]
    <2>1. c \in Codes
      BY <1>3 DEF rows
    <2>2. n \in 0 .. MaxAttempts
      <3>1. n \in 0 .. MaxAttempts - 1
        BY <1>1, <1>3, RowFields
      <3>2. QED
        BY <3>1, BoundAssumption
    <2>3. rowLock[c] \in {t, None}
      BY <1>1 DEF Blocked, WaitsFor
    <2> HIDE DEF c, n
    <2>4. /\ r \in TxState /\ r.pc = "check" /\ r.code = c /\ r.seen = n
          /\ r.kind = tx[t].kind /\ r.purpose = tx[t].purpose /\ r.user = tx[t].user
          /\ r.email = tx[t].email /\ r.identity = tx[t].identity /\ r.new = tx[t].new
          /\ r.done = tx[t].done
      BY <1>1, <2>1, <2>2 DEF TxState
    <2>5. Goto(t, r)
      BY <1>3 DEF n
    <2> HIDE DEF r
    <2>6. /\ userLock' = userLock /\ userLock' \in [Users -> Txs \cup {None}]
          /\ rowLock' \in [Codes -> Txs \cup {None}]
          /\ rowLock'[c] = t /\ \A d \in Codes : rowLock[d] = t => rowLock'[d] = t
      BY <1>1, <1>3, <2>1 DEF TypeOK
    <2>7. KeepsLocks(t)
      BY <1>1, <1>3, <2>1, <2>3, <2>6, ModelValues DEF KeepsLocks, TypeOK
    <2>8. UNCHANGED nextCode
      BY <1>3
    <2>9. n = row[c].attempts
      BY DEF n
    <2>10. QED
      BY <1>1, <1>3, <2>4, <2>5, <2>6, <2>7, <2>8, <2>9, CheckingMove
  <1>4. QED
    BY <1>2, <1>3 DEF Load

\* The new address is free: the account is to be locked.
LEMMA FreeAddressStep ==
  ASSUME IInv, NEW t \in Txs, tx[t].pc = "check", tx[t].kind = "confirm",
         Goto(t, [tx[t] EXCEPT !.pc = "move"]), UNCHANGED <<userLock, rowLock, nextCode>>
  PROVE  IInv'
  <1> DEFINE r == [tx[t] EXCEPT !.pc = "move"]
  <1>1. TxInv(t) /\ TypeOK /\ tx[t] \in TxState
    BY DEF IInv, TypeOK
  <1>2. /\ r \in TxState /\ r.pc = "move" /\ r.code = tx[t].code /\ r.seen = tx[t].seen
        /\ r.kind = tx[t].kind /\ r.purpose = tx[t].purpose /\ r.user = tx[t].user
        /\ r.email = tx[t].email /\ r.identity = tx[t].identity /\ r.new = tx[t].new
        /\ r.done = tx[t].done
    BY <1>1 DEF TxState
  <1>3. Goto(t, r) /\ UNCHANGED userLock /\ UNCHANGED rowLock /\ UNCHANGED nextCode
    OBVIOUS
  <1>4. r.code \in rows /\ rowLock[r.code] = t /\ r.seen = row[r.code].attempts
    BY <1>1, <1>2 DEF TxInv, CheckInv, Checks
  <1> HIDE DEF r
  <1>5. QED
    BY <1>1, <1>2, <1>3, <1>4, NothingLocked, CheckingMove

\* The account whose password is to be reset has been read.
LEMMA ResetStep ==
  ASSUME IInv, NEW t \in Txs, tx[t].pc = "check", tx[t].kind = "reset",
         NEW u \in UserOf(tx[t].email),
         Goto(t, [tx[t] EXCEPT !.pc = "reset", !.user = u]),
         UNCHANGED <<userLock, rowLock, nextCode>>
  PROVE  IInv'
  <1> DEFINE r == [tx[t] EXCEPT !.pc = "reset", !.user = u]
  <1>1. TxInv(t) /\ TypeOK /\ tx[t] \in TxState
    BY DEF IInv, TypeOK
  <1>2. tx[t].email \in Emails /\ ~tx[t].new
    BY <1>1 DEF TxInv, Subject, Shape
  <1>3. u \in Users /\ addr[u] # None
    BY <1>2, UserOfFacts
  <1>4. /\ r \in TxState /\ r.pc = "reset" /\ r.code = tx[t].code /\ r.seen = tx[t].seen
        /\ r.kind = tx[t].kind /\ r.user = u /\ r.email = tx[t].email /\ r.new = tx[t].new
        /\ r.done = tx[t].done
    BY <1>1, <1>3 DEF TxState
  <1>5. Goto(t, r)
    OBVIOUS
  <1> HIDE DEF r
  <1>6. /\ tx' = [tx EXCEPT ![t] = r] /\ tx'[t] = r
        /\ UNCHANGED <<userVars, codeVars, faults, nextCode>>
        /\ addr' = addr /\ verified' = verified /\ row' = row /\ rows' = rows
        /\ userLock' \in [Users -> Txs \cup {None}] /\ rowLock' \in [Codes -> Txs \cup {None}]
        /\ KeepsLocks(t) /\ userLock' = userLock /\ rowLock' = rowLock
    BY <1>4, <1>5, QuietMove
  <1>7. Shape(t)' /\ Subject(t)'
    BY <1>2, <1>3, <1>4, <1>6 DEF Shape, Subject
  <1>8. /\ HoldInv(t)' /\ CreateInv(t)' /\ MakeInv(t)' /\ LinkInv(t)'
        /\ ~Claimed(t)' /\ ~Makes(t)' /\ ~Inserting(t)' /\ \A i \in Identities : ~Links(t, i)'
    BY <1>2, <1>4, <1>6
       DEF HoldInv, Holds, HoldsUnverified, Purges, Connects, CreateInv, Claimed, Creates,
           MakeInv, Makes, Inserting, LinkInv, Links
  <1>9. DeleteInv(t)' /\ CheckInv(t)'
    BY <1>1, <1>4, <1>6 DEF TxInv, DeleteInv, Purges, CheckInv, Checks
  <1>10. ASSUME NEW s \in Txs \ {t} PROVE Apart(t, s)
    <2>1. Creates(s) => tx[s].user # u
      BY <1>3 DEF IInv, TxInv, CreateInv
    <2>2. QED
      BY <1>4, <1>6, <1>8, <2>1 DEF Apart
  <1>11. nextCode' \in 1 .. MaxCodes + 1 /\ nextCode <= nextCode' /\ faults' \in 0 .. MaxFaults
    BY <1>1, <1>6, BoundAssumption DEF TypeOK
  <1>12. QED
    BY <1>4, <1>6, <1>7, <1>8, <1>9, <1>10, <1>11, LocalStep DEF TxInv

LEMMA LockMoveStep ==
  ASSUME IInv, NEW t \in Txs, LockMove(t)
  PROVE  IInv'
  <1> DEFINE r == [tx[t] EXCEPT !.pc = "index"]
             u == tx[t].user
  <1>1. /\ TxInv(t) /\ TypeOK /\ tx[t].pc = "move" /\ tx[t] \in TxState /\ ~Blocked(t)
        /\ Goto(t, r) /\ userLock' = [userLock EXCEPT ![u] = t]
        /\ rowLock' = rowLock /\ nextCode' = nextCode
    BY DEF IInv, LockMove, TypeOK
  <1>2. tx[t].kind = "confirm" /\ u \in Users
    BY <1>1 DEF TxInv, Shape, Subject, TypeOK
  <1>3. /\ r \in TxState /\ r.pc = "index" /\ r.code = tx[t].code /\ r.seen = tx[t].seen
        /\ r.kind = tx[t].kind /\ r.purpose = tx[t].purpose /\ r.user = tx[t].user
        /\ r.email = tx[t].email /\ r.identity = tx[t].identity /\ r.new = tx[t].new
        /\ r.done = tx[t].done
    BY <1>1 DEF TxState
  <1>4. UserHolders(t, u) = {}
    BY <1>1 DEF Blocked, WaitsFor
  <1>5. userLock' \in [Users -> Txs \cup {None}] /\ KeepsLocks(t) /\ userLock'[u] = t
    BY <1>1, <1>2, <1>4, Locked
  <1>6. /\ rowLock' \in [Codes -> Txs \cup {None}]
        /\ r.code \in rows /\ rowLock'[r.code] = t /\ r.seen = row[r.code].attempts
    BY <1>1, <1>3 DEF TxInv, CheckInv, Checks, TypeOK
  <1> HIDE DEF r
  <1>7. QED
    BY <1>1, <1>2, <1>3, <1>5, <1>6, CheckingMove

LEMMA InsertLinkStep ==
  ASSUME IInv, NEW t \in Txs, InsertLink(t)
  PROVE  IInv'
  <1> DEFINE r == [tx[t] EXCEPT !.pc = "write"]
             i == tx[t].identity
  <1>1. TxInv(t) /\ TypeOK /\ tx[t].pc = "link" /\ tx[t] \in TxState /\ ~Blocked(t)
    BY DEF IInv, InsertLink, TypeOK
  <1>2. CASE Rollback(t) /\ UNCHANGED faults
    BY <1>2, FaultsType, RollbackStep
  <1>3. CASE ~Linked(i) /\ Goto(t, r) /\ UNCHANGED <<userLock, rowLock, nextCode>>
    <2>1. /\ r \in TxState /\ r.pc = "write"
          /\ r.kind = tx[t].kind /\ r.purpose = tx[t].purpose /\ r.user = tx[t].user
          /\ r.email = tx[t].email /\ r.identity = tx[t].identity /\ r.new = tx[t].new
          /\ r.code = tx[t].code /\ r.done = tx[t].done
      BY <1>1 DEF TxState
    <2>2. tx[t].kind \in {"social", "connect"} /\ (tx[t].new => tx[t].kind = "social")
      BY <1>1 DEF TxInv, Shape
    <2>3. LinkedTo(i) = {} /\ \A s \in Txs \ {t} : ~Links(s, i)
      <3>1. {s \in Txs \ {t} : Links(s, i)} = {}
        BY <1>1 DEF Blocked, WaitsFor
      <3>2. QED
        BY <1>3, <3>1 DEF Linked
    <2> HIDE DEF r
    <2>4. /\ tx' = [tx EXCEPT ![t] = r] /\ tx'[t] = r
          /\ UNCHANGED <<userVars, codeVars, faults, nextCode>>
          /\ addr' = addr /\ verified' = verified
          /\ userLock' \in [Users -> Txs \cup {None}] /\ rowLock' \in [Codes -> Txs \cup {None}]
          /\ KeepsLocks(t) /\ userLock' = userLock /\ rowLock' = rowLock
      BY <1>3, <2>1, QuietMove
    <2>5. Shape(t)'
      BY <2>1, <2>2, <2>4 DEF Shape
    <2>6. HoldInv(t)'
      BY <1>1, <2>1, <2>2, <2>4 DEF TxInv, HoldInv, Holds, HoldsUnverified, Purges, Connects
    <2>7. CheckInv(t)'
      BY <2>1, <2>4 DEF CheckInv, Checks
    <2>8. DeleteInv(t)'
      BY <1>1, <2>1, <2>2, <2>4 DEF TxInv, DeleteInv, Purges
    <2>9. /\ Creates(t)' => Creates(t)
          /\ Claimed(t)' => Claimed(t)
          /\ ~Makes(t)' /\ ~Inserting(t)'
      BY <1>1, <2>1, <2>2, <2>4 DEF Creates, Claimed, Makes, Inserting
    <2>10. ASSUME NEW j \in Identities, Links(t, j)'
           PROVE  LinkedTo(j) = {} /\ \A s \in Txs \ {t} : ~Links(s, j)
      <3>1. j = i
        BY <2>1, <2>4, <2>10 DEF Links
      <3>2. QED
        BY <2>3, <3>1
    <2>11. r.pc # "reset"
      BY <2>1
    <2>12. QED
      BY <2>1, <2>4, <2>5, <2>6, <2>7, <2>8, <2>9, <2>10, <2>11, MoveOnStep
  <1>4. QED
    BY <1>2, <1>3 DEF InsertLink


-----------------------------------------------------------------------------
(* Commits                                                                 *)

LEMMA CodeNumbers ==
  ASSUME TypeOK
  PROVE  nextCode \in Int /\ \A c \in Codes : c \in Int
  BY BoundAssumption DEF TypeOK, Codes

\* CodesInv after a step, its conjuncts apart.
LEMMA CodesAreNow ==
  ASSUME \A d \in rows' : /\ d < nextCode' /\ guesses'[d] = row'[d].attempts /\ uses'[d] = 0
                          /\ row'[d].purpose # "PASSWORD_RESET" => row'[d].account \in Users,
         \A d \in Codes : d >= nextCode' => guesses'[d] = 0 /\ uses'[d] = 0
  PROVE  CodesInv'
  BY DEF CodesInv

\* Codes that t holds are deleted.
LEMMA DeletedByHolder ==
  ASSUME IInv, NEW t \in Txs, NEW S, row' = Without(S), \A c \in S : rowLock[c] = t
  PROVE  /\ row' \in [Codes -> CodeRow \cup {NoRow}] /\ rows' = rows \ S
         /\ (\A c \in rows' : row'[c] = row[c])
         /\ KeepsLocked(t) /\ KeepsRows(t)
  <1>1. /\ row' \in [Codes -> CodeRow \cup {NoRow}] /\ rows' = rows \ S
        /\ \A c \in rows' : row'[c] = row[c]
    BY Deleted DEF IInv
  <1>2. KeepsLocked(t)
    BY <1>1 DEF KeepsLocked
  <1>3. KeepsRows(t)
    BY <1>1 DEF KeepsRows
  <1>4. QED
    BY <1>1, <1>2, <1>3

\* Of the accounts, t changes the one it holds or makes.
LEMMA AccountsKeep ==
  ASSUME IInv, NEW t \in Txs, Holds(t) \/ Creates(t),
         \A v \in Users \ {tx[t].user} : addr'[v] = addr[v],
         verified' \subseteq verified \cup {tx[t].user},
         \/ addr'[tx[t].user] \in {addr[tx[t].user], None}
         \/ \A s \in Txs \ {t} : Claimed(s) => tx[s].email # addr'[tx[t].user],
         \A v \in Users : \/ linked'[v] \in {linked[v], None}
                          \/ \A s \in Txs \ {t} : ~Links(s, linked'[v]),
         NEW s \in Txs \ {t}
  PROVE  KeepsAccount(s)
  <1>1. CreateInv(s) /\ HoldInv(s) /\ LinkInv(s) /\ Subject(s) /\ Shape(s) /\ TypeOK
    BY DEF IInv, TxInv
  <1>2. ASSUME Holds(s) \/ Creates(s)
        PROVE  /\ addr'[tx[s].user] = addr[tx[s].user]
               /\ tx[s].user \in verified' => tx[s].user \in verified
    <2>1. tx[s].user # tx[t].user /\ tx[s].user \in Users
      BY <1>1, <1>2, UsersApart DEF HoldInv, CreateInv
    <2>2. QED
      BY <2>1
  <1>3. ASSUME Claimed(s), NEW u \in Users
        PROVE  addr'[u] # tx[s].email
    <2>1. addr[u] # tx[s].email /\ tx[s].email \in Emails
      BY <1>1, <1>3 DEF CreateInv, UserOf, Claimed, Creates, Subject, Shape
    <2>2. CASE u = tx[t].user
      BY <1>3, <2>1, <2>2, ModelValues
    <2>3. CASE u # tx[t].user
      BY <2>1, <2>3
    <2>4. QED
      BY <2>2, <2>3
  <1>4. ASSUME NEW i \in Identities, Links(s, i), NEW u \in Users
        PROVE  linked'[u] # i
    <2>1. i = tx[s].identity
      BY <1>4 DEF Links
    <2>2. linked[u] # i
      BY <1>1, <1>4, <2>1 DEF LinkInv, LinkedTo
    <2>3. CASE linked'[u] \in {linked[u], None}
      BY <2>2, <2>3, ModelValues
    <2>4. CASE \A r \in Txs \ {t} : ~Links(r, linked'[u])
      BY <1>4, <2>4
    <2>5. QED
      BY <2>3, <2>4
  <1>5. QED
    BY <1>2, <1>3, <1>4 DEF KeepsAccount

\* A step that leaves accounts and links alone.
LEMMA AccountsSame ==
  ASSUME IInv, UNCHANGED <<addr, verified, linked>>, NEW s \in Txs
  PROVE  KeepsAccount(s) /\ AccountsInv'
  <1>1. CreateInv(s) /\ LinkInv(s)
    BY DEF IInv, TxInv
  <1>2. KeepsAccount(s)
    BY <1>1 DEF KeepsAccount, CreateInv, LinkInv, UserOf, LinkedTo, Links
  <1>3. AccountsInv'
    BY DEF IInv, AccountsInv, AccountsAreUnique
  <1>4. QED
    BY <1>2, <1>3

\* The codes that are left verify what they did.
LEMMA CodesKeep ==
  ASSUME IInv,
         \A c \in rows' :
           /\ c \in rows /\ row'[c].purpose = row[c].purpose
           /\ row'[c].email = row[c].email /\ row'[c].account = row[c].account
           /\ row'[c].madeFor = row[c].madeFor
           /\ row[c].purpose = "REGISTER" /\ row[c].account \notin verified' =>
                /\ row[c].account \notin verified
                /\ password'[row[c].account] = password[row[c].account]
                /\ addr'[row[c].account] = addr[row[c].account]
  PROVE  CodeVerifiesItsPassword'
  BY DEF IInv, CodeVerifiesItsPassword

\* A transaction commits, and goes on as r.
LEMMA CommitStep ==
  ASSUME IInv, NEW t \in Txs, NEW r \in TxState, Release(t), tx' = [tx EXCEPT ![t] = r],
         UNCHANGED <<nextCode, faults>>,
         addr' \in [Users -> Emails \cup {None}], verified' \subseteq Users, old' \subseteq Users,
         password' \in [Users -> Codes \cup {NoCode}],
         linked' \in [Users -> Identities \cup {None}],
         row' \in [Codes -> CodeRow \cup {NoRow}],
         guesses' \in [Codes -> Nat], uses' \in [Codes -> Nat],
         verified \subseteq verified', KeepsLocked(t), KeepsRows(t),
         \A s \in Txs \ {t} : KeepsAccount(s) /\ KeepsCounts(s) /\ Apart(t, s),
         TxInv(t)', AccountsInv', CodesInv', CodeVerifiesItsPassword', AttemptsAreLimited'
  PROVE  IInv'
  <1>1. TypeOK
    BY DEF IInv
  <1>2. /\ userLock' \in [Users -> Txs \cup {None}] /\ rowLock' \in [Codes -> Txs \cup {None}]
        /\ KeepsLocks(t)
    BY <1>1, Released
  <1>3. tx' \in [Txs -> TxState] /\ \A s \in Txs \ {t} : tx'[s] = tx[s]
    BY <1>1 DEF TypeOK
  <1>4. nextCode <= nextCode' /\ nextCode' \in Int
    BY <1>1, CodeNumbers
  <1>5. Frame(t)
    BY <1>2, <1>3, <1>4 DEF Frame
  <1>6. \A s \in Txs : TxInv(s)'
    BY <1>5, OthersKeep
  <1>7. TypeOK'
    BY <1>1, <1>2, <1>3 DEF TypeOK
  <1>8. QED
    BY <1>6, <1>7 DEF IInv

\* A transaction commits and ends.
LEMMA EndStep ==
  ASSUME IInv, NEW t \in Txs, End(t), UNCHANGED <<nextCode, faults>>,
         addr' \in [Users -> Emails \cup {None}], verified' \subseteq Users, old' \subseteq Users,
         password' \in [Users -> Codes \cup {NoCode}],
         linked' \in [Users -> Identities \cup {None}],
         row' \in [Codes -> CodeRow \cup {NoRow}],
         guesses' \in [Codes -> Nat], uses' \in [Codes -> Nat],
         verified \subseteq verified', KeepsLocked(t), KeepsRows(t),
         \A s \in Txs \ {t} : KeepsAccount(s) /\ KeepsCounts(s),
         AccountsInv', CodesInv', CodeVerifiesItsPassword', AttemptsAreLimited'
  PROVE  IInv'
  <1>1. Release(t) /\ tx' = [tx EXCEPT ![t] = Idle] /\ TypeOK
    BY DEF IInv, End
  <1>2. tx'[t] = Idle
    BY <1>1 DEF TypeOK
  <1>3. TxInv(t)' /\ \A s \in Txs \ {t} : Apart(t, s)
    BY <1>2, EndedKeeps
  <1>4. QED
    BY <1>1, <1>3, IdleFields, CommitStep

\* What t knows of the code it checks.
LEMMA Checked ==
  ASSUME IInv, NEW t \in Txs, Checks(t)
  PROVE  LET c == tx[t].code
         IN /\ c \in rows /\ c \in Codes /\ rowLock[c] = t /\ c < nextCode
            /\ tx[t].seen = row[c].attempts /\ guesses[c] = tx[t].seen /\ uses[c] = 0
            /\ tx[t].seen \in 0 .. MaxAttempts - 1 /\ tx[t].seen \in Nat
            /\ \A s \in Txs : Makes(s) => tx[s].code # c
  <1> DEFINE c == tx[t].code
  <1>1. c \in rows /\ rowLock[c] = t /\ tx[t].seen = row[c].attempts
    BY DEF IInv, TxInv, CheckInv
  <1>2. c \in Codes /\ row[c].attempts \in 0 .. MaxAttempts - 1
    BY <1>1, RowFields DEF IInv
  <1>3. c < nextCode /\ guesses[c] = row[c].attempts /\ uses[c] = 0
    BY <1>1 DEF IInv, CodesInv
  <1>4. \A s \in Txs : Makes(s) => tx[s].code # c
    BY <1>1 DEF IInv, TxInv, MakeInv
  <1>5. tx[t].seen \in Nat
    BY <1>1, <1>2, BoundAssumption
  <1>6. QED
    BY <1>1, <1>2, <1>3, <1>4, <1>5

\* The code is deleted, its attempt counted or not.
LEMMA DiscardStep ==
  ASSUME IInv, NEW t \in Txs, Checks(t), Discard(t),
         \/ guesses' = guesses
         \/ guesses' = [guesses EXCEPT ![tx[t].code] = @ + 1]
  PROVE  IInv'
  <1> DEFINE c == tx[t].code
  <1>1. /\ c \in rows /\ c \in Codes /\ rowLock[c] = t /\ guesses[c] = tx[t].seen /\ uses[c] = 0
        /\ c < nextCode /\ tx[t].seen \in 0 .. MaxAttempts - 1 /\ tx[t].seen \in Nat
        /\ \A s \in Txs : Makes(s) => tx[s].code # c
    BY Checked
  <1>2. TypeOK /\ CodesInv /\ AttemptsAreLimited
    BY DEF IInv
  <1>3. /\ row' = Without({c}) /\ End(t) /\ UNCHANGED <<nextCode, faults>>
        /\ addr' = addr /\ verified' = verified /\ password' = password /\ old' = old
        /\ linked' = linked /\ uses' = uses /\ nextCode' = nextCode
    BY DEF Discard, userVars
  <1>4. /\ row' \in [Codes -> CodeRow \cup {NoRow}] /\ rows' = rows \ {c}
        /\ (\A d \in rows' : row'[d] = row[d]) /\ KeepsLocked(t) /\ KeepsRows(t)
    <2>1. \A d \in {c} : rowLock[d] = t
      BY <1>1
    <2> HIDE DEF c
    <2>2. QED
      BY <1>3, <2>1, DeletedByHolder
  <1>5. /\ guesses' \in [Codes -> Nat] /\ \A d \in Codes \ {c} : guesses'[d] = guesses[d]
        /\ guesses'[c] \in {guesses[c], guesses[c] + 1}
    BY <1>1, <1>2 DEF TypeOK
  <1>6. UNCHANGED <<addr, verified, linked>>
    BY <1>3
  <1>7. \A s \in Txs \ {t} : KeepsAccount(s) /\ KeepsCounts(s)
    <2>1. ASSUME NEW s \in Txs \ {t} PROVE KeepsCounts(s)
      BY <1>1, <1>3, <1>5 DEF KeepsCounts, IInv, TxInv, MakeInv
    <2>2. QED
      BY <1>6, <2>1, AccountsSame
  <1>8. AccountsInv'
    BY <1>6, AccountsSame
  <1>9. CodesInv'
    <2>1. nextCode \in Int /\ c \in Int
      BY <1>1, <1>2, CodeNumbers
    <2>2. \A d \in rows' : /\ d < nextCode' /\ guesses'[d] = row'[d].attempts /\ uses'[d] = 0
                           /\ row'[d].purpose # "PASSWORD_RESET" => row'[d].account \in Users
      BY <1>2, <1>3, <1>4, <1>5 DEF CodesInv, rows
    <2>3. \A d \in Codes : d >= nextCode' => guesses'[d] = 0 /\ uses'[d] = 0
      BY <1>1, <1>2, <1>3, <1>5, <2>1 DEF CodesInv
    <2>4. QED
      BY <2>2, <2>3, CodesAreNow
  <1>10. CodeVerifiesItsPassword'
    BY <1>3, <1>4, CodesKeep
  <1>11. AttemptsAreLimited'
    <2>1. guesses'[c] <= MaxAttempts
      BY <1>1, <1>5, BoundAssumption
    <2>2. QED
      BY <1>1, <1>2, <1>3, <1>5, <2>1 DEF AttemptsAreLimited
  <1>12. QED
    BY <1>2, <1>3, <1>4, <1>5, <1>7, <1>8, <1>9, <1>10, <1>11, EndStep DEF TypeOK

LEMMA RefuseStep ==
  ASSUME IInv, NEW t \in Txs, Refuse(t)
  PROVE  IInv'
  BY DiscardStep DEF Refuse, Checks

\* The attempt is counted.
LEMMA CountStep ==
  ASSUME IInv, NEW t \in Txs, Checks(t), tx[t].seen + 1 < MaxAttempts,
         guesses' = [guesses EXCEPT ![tx[t].code] = @ + 1],
         row' = [row EXCEPT ![tx[t].code] =
                   IF tx[t].code \in rows THEN [@ EXCEPT !.attempts = tx[t].seen + 1] ELSE @],
         End(t), UNCHANGED <<userVars, uses, nextCode, faults>>
  PROVE  IInv'
  <1> DEFINE c == tx[t].code
             n == tx[t].seen + 1
             counted == [row[c] EXCEPT !.attempts = n]
  <1>1. /\ c \in rows /\ c \in Codes /\ rowLock[c] = t /\ guesses[c] = tx[t].seen /\ uses[c] = 0
        /\ c < nextCode /\ tx[t].seen \in 0 .. MaxAttempts - 1 /\ tx[t].seen \in Nat
        /\ \A s \in Txs : Makes(s) => tx[s].code # c
    BY Checked
  <1>2. TypeOK /\ CodesInv /\ AttemptsAreLimited
    BY DEF IInv
  <1>3. /\ addr' = addr /\ verified' = verified /\ password' = password /\ old' = old
        /\ linked' = linked /\ uses' = uses /\ nextCode' = nextCode
    BY DEF userVars
  <1>4. n \in 0 .. MaxAttempts - 1 /\ n \in Nat /\ n < MaxAttempts /\ guesses[c] + 1 = n
    BY <1>1, BoundAssumption
  <1>5. row[c] \in CodeRow
    BY <1>1, <1>2, RowFields
  <1> HIDE DEF n
  <1>6. /\ counted \in CodeRow /\ counted.attempts = n
        /\ counted.purpose = row[c].purpose /\ counted.email = row[c].email
        /\ counted.account = row[c].account /\ counted.madeFor = row[c].madeFor
    BY <1>4, <1>5 DEF CodeRow
  <1>7. counted # NoRow
    BY <1>6, RowsApart
  <1>8. row' = [row EXCEPT ![c] = counted]
    BY <1>1 DEF n
  <1> HIDE DEF counted
  <1>9. /\ row' \in [Codes -> CodeRow \cup {NoRow}] /\ rows' = rows
        /\ row'[c] = counted /\ \A d \in rows \ {c} : row'[d] = row[d]
    BY <1>1, <1>2, <1>6, <1>7, <1>8 DEF TypeOK, rows
  <1>10. KeepsLocked(t)
    BY <1>1, <1>9 DEF KeepsLocked
  <1>11. KeepsRows(t)
    BY <1>1, <1>6, <1>9 DEF KeepsRows
  <1>12. /\ guesses' \in [Codes -> Nat] /\ \A d \in Codes \ {c} : guesses'[d] = guesses[d]
         /\ guesses'[c] = n
    BY <1>1, <1>2, <1>4 DEF TypeOK
  <1>13. UNCHANGED <<addr, verified, linked>>
    BY <1>3
  <1>14. \A s \in Txs \ {t} : KeepsAccount(s) /\ KeepsCounts(s)
    <2>1. ASSUME NEW s \in Txs \ {t} PROVE KeepsCounts(s)
      BY <1>1, <1>3, <1>12 DEF KeepsCounts, IInv, TxInv, MakeInv
    <2>2. QED
      BY <1>13, <2>1, AccountsSame
  <1>15. AccountsInv'
    BY <1>13, AccountsSame
  <1>16. CodesInv'
    <2>1. nextCode \in Int /\ c \in Int
      BY <1>1, <1>2, CodeNumbers
    <2>2. ASSUME NEW d \in rows'
          PROVE  /\ d < nextCode' /\ guesses'[d] = row'[d].attempts /\ uses'[d] = 0
                 /\ row'[d].purpose # "PASSWORD_RESET" => row'[d].account \in Users
      BY <1>1, <1>2, <1>3, <1>6, <1>9, <1>12 DEF CodesInv, rows
    <2>3. \A d \in Codes : d >= nextCode' => guesses'[d] = 0 /\ uses'[d] = 0
      BY <1>1, <1>2, <1>3, <1>12, <2>1 DEF CodesInv
    <2>4. QED
      BY <2>2, <2>3, CodesAreNow
  <1>17. CodeVerifiesItsPassword'
    BY <1>1, <1>3, <1>6, <1>9, CodesKeep
  <1>18. AttemptsAreLimited'
    <2>1. guesses'[c] <= MaxAttempts /\ guesses'[c] # MaxAttempts
      BY <1>4, <1>12, BoundAssumption
    <2>2. QED
      BY <1>1, <1>2, <1>3, <1>12, <2>1 DEF AttemptsAreLimited
  <1>19. UNCHANGED <<nextCode, faults>>
    OBVIOUS
  <1>20. QED
    BY <1>2, <1>3, <1>9, <1>10, <1>11, <1>12, <1>14, <1>15, <1>16, <1>17, <1>18, <1>19, EndStep
       DEF TypeOK

LEMMA WrongStep ==
  ASSUME IInv, NEW t \in Txs, Wrong(t)
  PROVE  IInv'
  <1>1. Checks(t) /\ guesses' = [guesses EXCEPT ![tx[t].code] = @ + 1]
    BY DEF Wrong, Checks
  <1>2. CASE Discard(t)
    BY <1>1, <1>2, DiscardStep
  <1>3. CASE /\ ~Exhausted(tx[t].seen + 1)
             /\ row' = [row EXCEPT ![tx[t].code] =
                   IF tx[t].code \in rows THEN [@ EXCEPT !.attempts = tx[t].seen + 1] ELSE @]
             /\ End(t) /\ UNCHANGED <<userVars, uses, nextCode, faults>>
    <2>1. tx[t].seen \in Nat
      BY <1>1, Checked
    <2>2. tx[t].seen + 1 < MaxAttempts
      BY <1>3, <2>1, BoundAssumption DEF Exhausted
    <2>3. QED
      BY <1>1, <1>3, <2>2, CountStep
  <1>4. QED
    BY <1>2, <1>3 DEF Wrong

\* The code is used up by what it allows.
LEMMA AcceptStep ==
  ASSUME IInv, NEW t \in Txs, Checks(t), Accept(t),
         addr' \in [Users -> Emails \cup {None}], verified' \subseteq Users,
         verified \subseteq verified', password' \in [Users -> Codes \cup {NoCode}],
         \A s \in Txs \ {t} : KeepsAccount(s), AccountsInv',
         \A u \in Users \ verified' :
           u \notin verified /\ password'[u] = password[u] /\ addr'[u] = addr[u]
  PROVE  IInv'
  <1> DEFINE c == tx[t].code
  <1>1. /\ c \in rows /\ c \in Codes /\ rowLock[c] = t /\ guesses[c] = tx[t].seen /\ uses[c] = 0
        /\ c < nextCode /\ tx[t].seen \in 0 .. MaxAttempts - 1 /\ tx[t].seen \in Nat
        /\ \A s \in Txs : Makes(s) => tx[s].code # c
    BY Checked
  <1>2. TypeOK /\ CodesInv /\ AttemptsAreLimited
    BY DEF IInv
  <1>3. /\ row' = Without({c}) /\ End(t) /\ UNCHANGED <<nextCode, faults>>
        /\ uses' = [uses EXCEPT ![c] = @ + 1] /\ old' = old \ {tx[t].user}
        /\ linked' = linked /\ guesses' = guesses /\ nextCode' = nextCode
    BY DEF Accept
  <1>4. /\ row' \in [Codes -> CodeRow \cup {NoRow}] /\ rows' = rows \ {c}
        /\ (\A d \in rows' : row'[d] = row[d]) /\ KeepsLocked(t) /\ KeepsRows(t)
    <2>1. row' = Without({c}) /\ \A d \in {c} : rowLock[d] = t
      BY <1>1, <1>3
    <2> HIDE DEF c
    <2>2. QED
      BY <2>1, DeletedByHolder
  <1>5. uses' \in [Codes -> Nat] /\ \A d \in Codes \ {c} : uses'[d] = uses[d]
    BY <1>1, <1>2, <1>3 DEF TypeOK
  <1>6. \A s \in Txs \ {t} : KeepsCounts(s)
    BY <1>1, <1>3, <1>5 DEF KeepsCounts, IInv, TxInv, MakeInv
  <1>7. CodesInv'
    <2>1. nextCode \in Int /\ c \in Int
      BY <1>1, <1>2, CodeNumbers
    <2>2. ASSUME NEW d \in rows'
          PROVE  /\ d < nextCode' /\ guesses'[d] = row'[d].attempts /\ uses'[d] = 0
                 /\ row'[d].purpose # "PASSWORD_RESET" => row'[d].account \in Users
      <3>1. d \in rows /\ d \in Codes \ {c} /\ row'[d] = row[d]
        BY <1>4 DEF rows
      <3>2. uses'[d] = uses[d] /\ guesses'[d] = guesses[d] /\ nextCode' = nextCode
        BY <1>3, <1>5, <3>1
      <3>3. QED
        BY <1>2, <3>1, <3>2 DEF CodesInv
    <2>3. \A d \in Codes : d >= nextCode' => guesses'[d] = 0 /\ uses'[d] = 0
      BY <1>1, <1>2, <1>3, <1>5, <2>1 DEF CodesInv
    <2>4. QED
      BY <2>2, <2>3, CodesAreNow
  <1>8. CodeVerifiesItsPassword'
    <2>1. ASSUME NEW d \in rows', row[d].purpose = "REGISTER", row[d].account \notin verified'
          PROVE  /\ row[d].account \notin verified
                 /\ password'[row[d].account] = password[row[d].account]
                 /\ addr'[row[d].account] = addr[row[d].account]
      <3>1. row[d].account \in Users
        BY <1>2, <1>4, <2>1 DEF CodesInv
      <3>2. QED
        BY <2>1, <3>1
    <2>2. QED
      BY <1>4, <2>1, CodesKeep
  <1>9. AttemptsAreLimited'
    <2>1. guesses'[c] # MaxAttempts
      BY <1>1, <1>3, BoundAssumption
    <2>2. QED
      BY <1>1, <1>2, <1>3, <1>5, <2>1 DEF AttemptsAreLimited
  <1>10. old' \subseteq Users
    BY <1>2, <1>3 DEF TypeOK
  <1>11. QED
    BY <1>2, <1>3, <1>4, <1>5, <1>6, <1>7, <1>8, <1>9, <1>10, EndStep DEF TypeOK


\* The account is verified.
LEMMA VerifyStep ==
  ASSUME IInv, NEW t \in Txs, tx[t].pc = "check", tx[t].kind = "verify",
         verified' = verified \cup {tx[t].user}, Accept(t), UNCHANGED <<addr, password>>
  PROVE  IInv'
  <1> DEFINE u == tx[t].user
  <1>1. TypeOK /\ AccountsInv /\ Subject(t) /\ HoldInv(t) /\ Checks(t)
    BY DEF IInv, TxInv, Checks
  <1>2. Holds(t) /\ HoldsUnverified(t)
    BY DEF Holds, HoldsUnverified
  <1>3. u \in Users /\ addr[u] # None
    BY <1>1, <1>2, ModelValues DEF HoldInv, Subject
  <1>4. addr' = addr /\ password' = password /\ linked' = linked
    BY DEF Accept
  <1>5. \A s \in Txs \ {t} : KeepsAccount(s)
    BY <1>2, <1>4, AccountsKeep
  <1>6. AccountsInv'
    BY <1>1, <1>3, <1>4 DEF AccountsInv, AccountsAreUnique
  <1>7. /\ addr' \in [Users -> Emails \cup {None}] /\ verified' \subseteq Users
        /\ verified \subseteq verified' /\ password' \in [Users -> Codes \cup {NoCode}]
    BY <1>1, <1>3, <1>4 DEF TypeOK
  <1>8. QED
    BY <1>1, <1>4, <1>5, <1>6, <1>7, AcceptStep

LEMMA RightStep ==
  ASSUME IInv, NEW t \in Txs, Right(t)
  PROVE  IInv'
  <1> DEFINE taken == UserOf(tx[t].email)
  <1>1. tx[t].pc = "check" /\ Checks(t)
    BY DEF Right, Checks
  <1>2. CASE /\ tx[t].kind = "verify" /\ verified' = verified \cup {tx[t].user}
             /\ Accept(t) /\ UNCHANGED <<addr, password>>
    BY <1>1, <1>2, VerifyStep
  <1>3. CASE Rollback(t) /\ UNCHANGED faults
    BY <1>3, FaultsType, RollbackStep
  <1>4. CASE /\ tx[t].kind = "reset"
             /\ \E u \in taken : Goto(t, [tx[t] EXCEPT !.pc = "reset", !.user = u])
             /\ UNCHANGED <<userLock, rowLock, nextCode>>
    BY <1>1, <1>4, ResetStep
  <1>5. CASE Discard(t) /\ UNCHANGED guesses
    BY <1>1, <1>5, DiscardStep
  <1>6. CASE /\ tx[t].kind = "confirm" /\ Goto(t, [tx[t] EXCEPT !.pc = "move"])
             /\ UNCHANGED <<userLock, rowLock, nextCode>>
    BY <1>1, <1>6, FreeAddressStep
  <1>7. QED
    BY <1>2, <1>3, <1>4, <1>5, <1>6 DEF Right

LEMMA ResetPasswordStep ==
  ASSUME IInv, NEW t \in Txs, ResetPassword(t)
  PROVE  IInv'
  <1> DEFINE u == tx[t].user
  <1>1. TypeOK /\ tx[t].pc = "reset" /\ Subject(t) /\ Checks(t)
    BY DEF IInv, TxInv, ResetPassword, Checks
  <1>2. CASE Rollback(t) /\ UNCHANGED faults
    BY <1>2, FaultsType, RollbackStep
  <1>3. CASE /\ u \in verified /\ password' = [password EXCEPT ![u] = NoCode]
             /\ Accept(t) /\ UNCHANGED <<addr, verified>>
    <2>1. UNCHANGED <<addr, verified, linked>> /\ addr' = addr /\ verified' = verified
      BY <1>3 DEF Accept
    <2>2. AccountsInv' /\ \A s \in Txs \ {t} : KeepsAccount(s)
      <3>1. AccountsInv'
        BY <2>1, AccountsSame
      <3>2. QED
        BY <2>1, <3>1, AccountsSame
    <2>3. /\ addr' \in [Users -> Emails \cup {None}] /\ verified' \subseteq Users
          /\ verified \subseteq verified' /\ password' \in [Users -> Codes \cup {NoCode}]
      BY <1>1, <1>3, <2>1 DEF TypeOK
    <2>4. \A v \in Users \ verified' :
             v \notin verified /\ password'[v] = password[v] /\ addr'[v] = addr[v]
      BY <1>1, <1>3, <2>1 DEF TypeOK
    <2>5. QED
      BY <1>1, <1>3, <2>2, <2>3, <2>4, AcceptStep
  <1>4. QED
    BY <1>2, <1>3 DEF ResetPassword

LEMMA MoveStep ==
  ASSUME IInv, NEW t \in Txs, Move(t)
  PROVE  IInv'
  <1> DEFINE u == tx[t].user
             e == tx[t].email
  <1>1. /\ TypeOK /\ tx[t].pc = "index" /\ Shape(t) /\ Subject(t) /\ Checks(t) /\ ~Blocked(t)
        /\ AccountsInv
    BY DEF IInv, TxInv, Move, Checks
  <1>2. CASE Rollback(t) /\ UNCHANGED faults
    BY <1>2, FaultsType, RollbackStep
  <1>3. CASE /\ ~Taken(e, u) /\ addr' = [addr EXCEPT ![u] = e]
             /\ verified' = verified \cup {u}
             /\ Accept(t) /\ UNCHANGED password
    <2>1. u \in verified /\ u \in Users /\ e \in Emails /\ Holds(t)
      BY <1>1 DEF Shape, Subject, TypeOK, Holds
    <2>2. \A v \in Users \ {u} : addr[v] # e
      BY <1>3 DEF Taken, UserOf
    <2>3. \A s \in Txs \ {t} : Claimed(s) => tx[s].email # e
      <3>1. {s \in Txs \ {t} : Claims(s, e)} = {}
        BY <1>1 DEF Blocked, WaitsFor
      <3>2. QED
        BY <3>1 DEF Claims, Claimed, Creates
    <2>4. linked' = linked /\ password' = password
      BY <1>3 DEF Accept
    <2>5. addr'[u] = e /\ \A v \in Users \ {u} : addr'[v] = addr[v]
      BY <1>1, <1>3, <2>1 DEF TypeOK
    <2>6. \A s \in Txs \ {t} : KeepsAccount(s)
      <3>1. \A v \in Users : linked'[v] \in {linked[v], None}
        BY <2>4
      <3>2. \A s \in Txs \ {t} : Claimed(s) => tx[s].email # addr'[u]
        BY <2>3, <2>5
      <3>3. verified' \subseteq verified \cup {u}
        BY <1>3
      <3>4. QED
        BY <2>1, <2>5, <3>1, <3>2, <3>3, AccountsKeep
    <2>7. AccountsInv'
      <3>1. \A v \in verified' : addr'[v] # None
        BY <1>1, <1>3, <2>1, <2>5, ModelValues DEF AccountsInv, TypeOK
      <3>2. \A v, w \in Users : addr'[v] = addr'[w] /\ addr'[v] # None => v = w
        BY <1>1, <2>2, <2>5 DEF AccountsInv, AccountsAreUnique
      <3>3. \A v \in Users : linked'[v] # None => v \in verified' /\ addr'[v] # None
        BY <1>1, <1>3, <2>1, <2>4, <2>5, ModelValues DEF AccountsInv, AccountsAreUnique
      <3>4. QED
        BY <1>1, <2>4, <3>1, <3>2, <3>3 DEF AccountsInv, AccountsAreUnique
    <2>8. /\ addr' \in [Users -> Emails \cup {None}] /\ verified' \subseteq Users
          /\ verified \subseteq verified' /\ password' \in [Users -> Codes \cup {NoCode}]
      BY <1>1, <1>3, <2>1, <2>4 DEF TypeOK
    <2>9. \A v \in Users \ verified' :
             v \notin verified /\ password'[v] = password[v] /\ addr'[v] = addr[v]
      BY <1>3, <2>4, <2>5
    <2>10. QED
      BY <1>1, <1>3, <2>6, <2>7, <2>8, <2>9, AcceptStep
  <1>4. QED
    BY <1>2, <1>3 DEF Move

\* A new account, whose address and number are nobody else's, is in the table.
LEMMA NewAccount ==
  ASSUME IInv, NEW t \in Txs, Claimed(t), addr' = [addr EXCEPT ![tx[t].user] = tx[t].email]
  PROVE  LET u == tx[t].user
         IN /\ u \in Users /\ u \notin verified /\ addr[u] = None /\ linked[u] = None
            /\ tx[t].email \in Emails
            /\ addr' \in [Users -> Emails \cup {None}]
            /\ addr'[u] = tx[t].email /\ \A v \in Users \ {u} : addr'[v] = addr[v]
            /\ \A s \in Txs \ {t} : Claimed(s) => tx[s].email # addr'[u]
            /\ \A v, w \in Users : addr'[v] = addr'[w] /\ addr'[v] # None => v = w
  <1> DEFINE u == tx[t].user
  <1>1. TypeOK /\ Creates(t) /\ CreateInv(t) /\ Shape(t) /\ Subject(t) /\ AccountsInv
    BY DEF IInv, TxInv, Claimed
  <1>2. /\ u \in Users /\ addr[u] = None /\ UserOf(tx[t].email) = {}
        /\ \A s \in Txs \ {t} : Claimed(s) => tx[s].email # tx[t].email
    BY <1>1 DEF CreateInv
  <1>3. tx[t].email \in Emails
    BY <1>1 DEF Shape, Subject, Creates
  <1>4. u \notin verified /\ linked[u] = None
    BY <1>1, <1>2 DEF AccountsInv, AccountsAreUnique
  <1>5. /\ addr' \in [Users -> Emails \cup {None}] /\ addr'[u] = tx[t].email
        /\ \A v \in Users \ {u} : addr'[v] = addr[v]
    BY <1>1, <1>2, <1>3 DEF TypeOK
  <1>6. \A v, w \in Users : addr'[v] = addr'[w] /\ addr'[v] # None => v = w
    BY <1>1, <1>2, <1>5 DEF UserOf, AccountsInv, AccountsAreUnique
  <1>7. QED
    BY <1>2, <1>3, <1>4, <1>5, <1>6


\* The code that t commits, in its row.
LEMMA MadeCode ==
  ASSUME IInv, NEW t \in Txs, Inserting(t), NEW made,
         made = [purpose |-> tx[t].purpose, email |-> tx[t].email, account |-> tx[t].user,
                 attempts |-> 0, expired |-> FALSE, madeFor |-> PasswordAfter(t)]
  PROVE  /\ made \in CodeRow /\ made # NoRow
         /\ made.purpose = tx[t].purpose /\ made.email = tx[t].email
         /\ made.account = tx[t].user /\ made.attempts = 0 /\ made.madeFor = PasswordAfter(t)
         /\ made.purpose # "PASSWORD_RESET" => made.account \in Users
         /\ PasswordAfter(t) \in Codes \cup {NoCode}
  <1>1. TypeOK /\ Subject(t)
    BY DEF IInv, TxInv
  <1>2. /\ tx[t].purpose \in Purposes /\ tx[t].email \in Emails
        /\ tx[t].user \in Users \cup {None}
        /\ tx[t].purpose # "PASSWORD_RESET" => tx[t].user \in Users
    BY <1>1 DEF Inserting, Subject, Purposes, TypeOK
  <1>3. PasswordAfter(t) \in Codes \cup {NoCode}
    BY <1>1, <1>2, TxFields DEF PasswordAfter, TypeOK
  <1>4. 0 \in 0 .. MaxAttempts - 1
    BY BoundAssumption
  <1>5. made \in CodeRow
    BY <1>2, <1>3, <1>4 DEF CodeRow
  <1>6. QED
    BY <1>2, <1>3, <1>5, RowsApart

LEMMA CommitCodeStep ==
  ASSUME IInv, NEW t \in Txs, CommitCode(t)
  PROVE  IInv'
  <1> DEFINE n == tx[t].code
             u == tx[t].user
             done == tx[t].done
             p == PasswordAfter(t)
             made == [purpose |-> tx[t].purpose, email |-> tx[t].email, account |-> u,
                      attempts |-> 0, expired |-> FALSE, madeFor |-> p]
             r == [tx[t] EXCEPT !.pc = "mail", !.done = {}]
  <1>1. /\ TypeOK /\ AccountsInv /\ CodesInv /\ CodeVerifiesItsPassword /\ AttemptsAreLimited
        /\ Shape(t) /\ Subject(t) /\ HoldInv(t) /\ MakeInv(t) /\ DeleteInv(t)
        /\ tx[t] \in TxState /\ Inserting(t) /\ tx[t].pc = "write"
    BY DEF IInv, TxInv, CommitCode, TypeOK
  <1>2. tx[t].kind \in {"register", "resend", "forgot", "change"} /\ Makes(t)
    BY <1>1 DEF Inserting, Makes, MakingPcs
  <1>3. /\ n \in Codes /\ n < nextCode /\ n \notin rows /\ guesses[n] = 0 /\ uses[n] = 0
        /\ Collisions(t) = {}
    BY <1>1, <1>2 DEF MakeInv
  <1>4. /\ row' = [Without(done) EXCEPT ![n] = made]
        /\ addr' = (IF tx[t].new THEN [addr EXCEPT ![u] = tx[t].email] ELSE addr)
        /\ password' = (IF u = None THEN password ELSE [password EXCEPT ![u] = p])
        /\ old' = (IF tx[t].purpose = "REGISTER" THEN old \ {u} ELSE old)
        /\ Release(t) /\ tx' = [tx EXCEPT ![t] = r]
        /\ UNCHANGED <<verified, linked, guesses, uses, nextCode, faults>>
    BY <1>3 DEF CommitCode, Replaced
  <1>5. /\ made \in CodeRow /\ made # NoRow
        /\ made.purpose = tx[t].purpose /\ made.email = tx[t].email
        /\ made.account = u /\ made.attempts = 0 /\ made.madeFor = p
        /\ made.purpose # "PASSWORD_RESET" => made.account \in Users
        /\ p \in Codes \cup {NoCode}
    BY <1>1, MadeCode
  <1> HIDE DEF made, p
  <1>6. /\ row' \in [Codes -> CodeRow \cup {NoRow}]
        /\ rows' = (rows \ done) \cup {n}
        /\ row'[n] = made /\ \A c \in rows \ done : row'[c] = row[c]
    BY <1>1, <1>3, <1>4, <1>5 DEF TypeOK, Without, rows
  <1>7. /\ r \in TxState /\ r.pc = "mail" /\ r.done = {}
        /\ r.kind = tx[t].kind /\ r.purpose = tx[t].purpose /\ r.user = u
        /\ r.email = tx[t].email /\ r.identity = tx[t].identity /\ r.new = tx[t].new
    BY <1>1 DEF TxState
  <1> HIDE DEF r
  <1>8. tx'[t] = r /\ verified' = verified /\ linked' = linked /\ guesses' = guesses /\ uses' = uses
        /\ nextCode' = nextCode
    BY <1>1, <1>4 DEF TypeOK
  <1>9. u \in Users \cup {None}
    BY <1>1, TxFields
  <1>10. KeepsLocked(t)
    BY <1>1, <1>3, <1>6 DEF KeepsLocked, DeleteInv
  <1>11. KeepsRows(t)
    BY <1>1, <1>2, <1>5, <1>6 DEF KeepsRows
  <1>12. /\ addr' \in [Users -> Emails \cup {None}]
         /\ tx[t].new => u \in Users /\ u \notin verified /\ addr'[u] = tx[t].email
         /\ \A v \in Users \ verified : addr'[v] = addr[v] \/ (tx[t].new /\ v = u)
         /\ AccountsInv' /\ \A s \in Txs \ {t} : KeepsAccount(s)
    <2>1. CASE tx[t].new
      <3>1. Claimed(t) /\ Creates(t) /\ addr' = [addr EXCEPT ![u] = tx[t].email]
        BY <1>1, <1>4, <2>1 DEF Claimed, Creates
      <3>2. /\ u \in Users /\ u \notin verified /\ addr[u] = None /\ linked[u] = None
            /\ addr' \in [Users -> Emails \cup {None}] /\ tx[t].email \in Emails
            /\ addr'[u] = tx[t].email /\ \A v \in Users \ {u} : addr'[v] = addr[v]
            /\ \A s \in Txs \ {t} : Claimed(s) => tx[s].email # addr'[u]
            /\ \A v, w \in Users : addr'[v] = addr'[w] /\ addr'[v] # None => v = w
        BY <3>1, NewAccount
      <3>3. AccountsInv'
        <4>1. \A v \in verified' : addr'[v] # None
          BY <1>1, <1>8, <3>2 DEF AccountsInv, TypeOK
        <4>2. \A v \in Users : linked'[v] # None => v \in verified' /\ addr'[v] # None
          BY <1>1, <1>8, <3>2 DEF AccountsInv, AccountsAreUnique
        <4>3. QED
          BY <1>1, <1>8, <3>2, <4>1, <4>2 DEF AccountsInv, AccountsAreUnique
      <3>4. \A s \in Txs \ {t} : KeepsAccount(s)
        <4>1. \A v \in Users : linked'[v] \in {linked[v], None}
          BY <1>8
        <4>2. verified' \subseteq verified \cup {u}
          BY <1>8
        <4>3. QED
          BY <3>1, <3>2, <4>1, <4>2, AccountsKeep
      <3>5. QED
        BY <2>1, <3>2, <3>3, <3>4
    <2>2. CASE ~tx[t].new
      <3>1. UNCHANGED <<addr, verified, linked>>
        BY <1>4, <2>2
      <3>2. AccountsInv' /\ \A s \in Txs \ {t} : KeepsAccount(s)
        <4>1. AccountsInv'
          BY <3>1, AccountsSame
        <4>2. QED
          BY <3>1, <4>1, AccountsSame
      <3>3. QED
        BY <1>1, <2>2, <3>1, <3>2 DEF TypeOK
    <2>3. QED
      BY <2>1, <2>2
  <1>13. CodesInv'
    <2>1. ASSUME NEW d \in rows'
          PROVE  /\ d < nextCode' /\ guesses'[d] = row'[d].attempts /\ uses'[d] = 0
                 /\ row'[d].purpose # "PASSWORD_RESET" => row'[d].account \in Users
      <3>1. CASE d = n
        BY <1>3, <1>5, <1>6, <1>8, <3>1
      <3>2. CASE d \in rows \ done
        BY <1>1, <1>6, <1>8, <3>2 DEF CodesInv
      <3>3. QED
        BY <1>6, <3>1, <3>2
    <2>2. \A d \in Codes : d >= nextCode' => guesses'[d] = 0 /\ uses'[d] = 0
      BY <1>1, <1>8 DEF CodesInv
    <2>3. QED
      BY <2>1, <2>2, CodesAreNow
  <1>14. CodeVerifiesItsPassword'
    <2>1. SUFFICES ASSUME NEW d \in rows', row'[d].purpose = "REGISTER",
                          row'[d].account \notin verified
                   PROVE  /\ row'[d].madeFor = password'[row'[d].account]
                          /\ addr'[row'[d].account] = row'[d].email
      BY <1>8 DEF CodeVerifiesItsPassword
    <2>2. CASE d = n
      <3>1. tx[t].purpose = "REGISTER" /\ u \in Users /\ u \notin verified
        BY <1>5, <1>6, <2>1, <2>2
      <3>2. tx[t].kind \in {"register", "resend"}
        BY <1>1, <1>2, <3>1 DEF Subject
      <3>3. password'[u] = p
        BY <1>1, <1>4, <3>1, ModelValues DEF TypeOK
      <3>4. addr'[u] = tx[t].email
        <4>1. CASE tx[t].new
          BY <1>12, <4>1
        <4>2. CASE ~tx[t].new
          BY <1>1, <1>4, <3>2, <4>2 DEF HoldInv, HoldsUnverified, MakingPcs
        <4>3. QED
          BY <4>1, <4>2
      <3>5. QED
        BY <1>5, <1>6, <2>2, <3>3, <3>4
    <2>3. CASE d \in rows \ done
      <3> DEFINE v == row[d].account
      <3>1. row'[d] = row[d] /\ d \in rows
        BY <1>6, <2>3
      <3>2. v \in Users /\ v \notin verified /\ row[d].purpose = "REGISTER"
        BY <1>1, <2>1, <3>1 DEF CodesInv
      <3>3. row[d].madeFor = password[v] /\ addr[v] = row[d].email
        BY <1>1, <3>1, <3>2 DEF CodeVerifiesItsPassword
      <3>4. v # u
        <4>1. SUFFICES ASSUME v = u PROVE FALSE
          OBVIOUS
        <4>2. tx[t].kind \in {"register", "resend"}
          BY <1>1, <1>2, <3>2, <4>1, ModelValues DEF Subject
        <4>3. Collides(t, row[d].purpose, row[d].email, row[d].account)
          BY <1>1, <3>2, <4>1, <4>2, ModelValues DEF Collides, Subject
        <4>4. QED
          BY <1>3, <2>3, <4>3 DEF Collisions
      <3>5. password'[v] = password[v] /\ addr'[v] = addr[v]
        BY <1>1, <1>4, <1>12, <3>2, <3>4 DEF TypeOK
      <3>6. QED
        BY <3>1, <3>3, <3>5
    <2>4. QED
      BY <1>6, <2>2, <2>3
  <1>15. AttemptsAreLimited'
    BY <1>1, <1>8 DEF AttemptsAreLimited
  <1>16. TxInv(t)'
    <2>1. Shape(t)' /\ Subject(t)'
      BY <1>1, <1>2, <1>7, <1>8 DEF Shape, Subject
    <2>2. HoldInv(t)' /\ CreateInv(t)' /\ MakeInv(t)'
      BY <1>2, <1>7, <1>8
         DEF HoldInv, Holds, HoldsUnverified, Purges, Connects, MakingPcs, CreateInv, Claimed,
             Creates, MakeInv, Makes, Inserting
    <2>3. DeleteInv(t)' /\ CheckInv(t)' /\ LinkInv(t)'
      BY <1>2, <1>7, <1>8 DEF DeleteInv, Purges, CheckInv, Checks, LinkInv, Links
    <2>4. QED
      BY <2>1, <2>2, <2>3 DEF TxInv
  <1>17. ASSUME NEW s \in Txs \ {t} PROVE KeepsCounts(s) /\ Apart(t, s)
    <2>1. Creates(s) => tx[s].user # u
      BY DEF IInv, TxInv, CreateInv
    <2>2. ~Claimed(t)' /\ ~Makes(t)' /\ ~Inserting(t)' /\ \A i \in Identities : ~Links(t, i)'
      BY <1>7, <1>8 DEF Claimed, Creates, Makes, MakingPcs, Inserting, Links
    <2>3. Apart(t, s)
      BY <1>7, <1>8, <2>1, <2>2 DEF Apart
    <2>4. QED
      BY <1>8, <2>3 DEF KeepsCounts
  <1>18. /\ verified' \subseteq Users /\ verified \subseteq verified' /\ old' \subseteq Users
         /\ password' \in [Users -> Codes \cup {NoCode}]
         /\ linked' \in [Users -> Identities \cup {None}]
         /\ guesses' \in [Codes -> Nat] /\ uses' \in [Codes -> Nat]
    BY <1>1, <1>4, <1>5, <1>8 DEF TypeOK
  <1>19. Release(t) /\ tx' = [tx EXCEPT ![t] = r] /\ UNCHANGED <<nextCode, faults>>
    BY <1>4
  <1>20. \A s \in Txs \ {t} : KeepsAccount(s) /\ KeepsCounts(s) /\ Apart(t, s)
    BY <1>12, <1>17
  <1>21. QED
    BY <1>6, <1>7, <1>10, <1>11, <1>12, <1>13, <1>14, <1>15, <1>16, <1>18, <1>19, <1>20, CommitStep

LEMMA CommitLinkStep ==
  ASSUME IInv, NEW t \in Txs, CommitLink(t)
  PROVE  IInv'
  <1> DEFINE u == tx[t].user
             i == tx[t].identity
  <1>1. /\ TypeOK /\ AccountsInv /\ Shape(t) /\ Subject(t) /\ HoldInv(t) /\ LinkInv(t)
        /\ CodesInv /\ AttemptsAreLimited
        /\ tx[t].kind \in {"social", "connect"} /\ tx[t].pc = "write"
    BY DEF IInv, TxInv, CommitLink
  <1>2. /\ addr' = (IF tx[t].new THEN [addr EXCEPT ![u] = tx[t].email] ELSE addr)
        /\ password' = (IF tx[t].new THEN [password EXCEPT ![u] = NoCode] ELSE password)
        /\ verified' = verified \cup {u} /\ linked' = [linked EXCEPT ![u] = i]
        /\ old' = old \ {u} /\ End(t) /\ UNCHANGED <<codeVars, nextCode, faults>>
    BY DEF CommitLink
  <1>3. /\ row' = row /\ rows' = rows /\ guesses' = guesses /\ uses' = uses
        /\ nextCode' = nextCode
    BY <1>2 DEF codeVars, rows
  <1>4. Holds(t) \/ (Claimed(t) /\ Creates(t))
    BY <1>1 DEF Holds, HoldsUnverified, Connects, Claimed, Creates
  <1>5. /\ u \in Users /\ i \in Identities /\ LinkedTo(i) = {}
        /\ \A s \in Txs \ {t} : ~Links(s, i)
    BY <1>1, <1>4, NewAccount DEF HoldInv, Subject, LinkInv, Links, Claimed, Creates, CreateInv, IInv,
                                TxInv
  <1>6. /\ addr' \in [Users -> Emails \cup {None}] /\ addr'[u] # None
        /\ \A v \in Users \ {u} : addr'[v] = addr[v]
        /\ \/ addr'[u] = addr[u]
           \/ \A s \in Txs \ {t} : Claimed(s) => tx[s].email # addr'[u]
        /\ \A v, w \in Users : addr'[v] = addr'[w] /\ addr'[v] # None => v = w
    <2>1. CASE tx[t].new
      <3>1. Claimed(t) /\ addr' = [addr EXCEPT ![u] = tx[t].email]
        BY <1>1, <1>2, <2>1 DEF Claimed, Creates
      <3>2. /\ addr' \in [Users -> Emails \cup {None}] /\ tx[t].email \in Emails
            /\ addr'[u] = tx[t].email /\ \A v \in Users \ {u} : addr'[v] = addr[v]
            /\ \A s \in Txs \ {t} : Claimed(s) => tx[s].email # addr'[u]
            /\ \A v, w \in Users : addr'[v] = addr'[w] /\ addr'[v] # None => v = w
        BY <3>1, NewAccount
      <3>3. addr'[u] # None
        BY <3>2, ModelValues
      <3>4. QED
        BY <3>2, <3>3
    <2>2. CASE ~tx[t].new
      <3>1. addr' = addr
        BY <1>2, <2>2
      <3>2. addr[u] # None
        <4>1. CASE tx[t].kind = "social"
          BY <1>1, <2>2, <4>1, ModelValues DEF HoldInv, HoldsUnverified, Subject
        <4>2. CASE tx[t].kind = "connect"
          BY <1>1, <4>2 DEF HoldInv, Connects, AccountsInv
        <4>3. QED
          BY <1>1, <4>1, <4>2
      <3>3. QED
        BY <1>1, <3>1, <3>2 DEF TypeOK, AccountsInv, AccountsAreUnique
    <2>3. QED
      BY <2>1, <2>2
  <1>7. linked' \in [Users -> Identities \cup {None}] /\ linked'[u] = i
        /\ \A v \in Users \ {u} : linked'[v] = linked[v] /\ linked[v] # i
    BY <1>1, <1>2, <1>5 DEF TypeOK, LinkedTo
  <1>8. AccountsInv'
    <2>1. \A v \in verified' : addr'[v] # None
      BY <1>1, <1>2, <1>6 DEF AccountsInv, TypeOK
    <2>2. \A v, w \in Users : linked'[v] = linked'[w] /\ linked'[v] # None => v = w
      BY <1>1, <1>7 DEF AccountsInv, AccountsAreUnique
    <2>3. \A v \in Users : linked'[v] # None => v \in verified'
      BY <1>1, <1>2, <1>7 DEF AccountsInv, AccountsAreUnique
    <2>4. QED
      BY <1>6, <2>1, <2>2, <2>3 DEF AccountsInv, AccountsAreUnique
  <1>9. ASSUME NEW s \in Txs \ {t} PROVE KeepsAccount(s) /\ KeepsCounts(s)
    <2>1. Holds(t) \/ Creates(t)
      BY <1>4
    <2>2. \A v \in Users : linked'[v] \in {linked[v], None} \/ \A z \in Txs \ {t} : ~Links(z, linked'[v])
      BY <1>5, <1>7
    <2>3. verified' \subseteq verified \cup {u}
      BY <1>2
    <2>4. addr'[u] \in {addr[u], None} \/ \A z \in Txs \ {t} : Claimed(z) => tx[z].email # addr'[u]
      BY <1>6
    <2>5. KeepsAccount(s)
      BY <1>6, <2>1, <2>2, <2>3, <2>4, AccountsKeep
    <2>6. QED
      BY <1>3, <2>5 DEF KeepsCounts
  <1>10. KeepsLocked(t) /\ KeepsRows(t)
    BY <1>3 DEF KeepsLocked, KeepsRows
  <1>11. CodesInv' /\ AttemptsAreLimited'
    BY <1>1, <1>3 DEF CodesInv, AttemptsAreLimited
  <1>12. CodeVerifiesItsPassword'
    <2>1. ASSUME NEW d \in rows', row[d].purpose = "REGISTER", row[d].account \notin verified'
          PROVE  /\ row[d].account \notin verified
                 /\ password'[row[d].account] = password[row[d].account]
                 /\ addr'[row[d].account] = addr[row[d].account]
      <3>1. row[d].account \in Users \ {u} /\ row[d].account \notin verified
        BY <1>1, <1>2, <1>3, <2>1 DEF CodesInv
      <3>2. QED
        BY <1>1, <1>2, <1>6, <3>1 DEF TypeOK
    <2>2. QED
      BY <1>3, <2>1, CodesKeep
  <1>13. /\ verified' \subseteq Users /\ verified \subseteq verified' /\ old' \subseteq Users
         /\ password' \in [Users -> Codes \cup {NoCode}]
         /\ row' \in [Codes -> CodeRow \cup {NoRow}]
         /\ guesses' \in [Codes -> Nat] /\ uses' \in [Codes -> Nat]
    BY <1>1, <1>2, <1>3, <1>5 DEF TypeOK
  <1>14. End(t) /\ UNCHANGED <<nextCode, faults>>
    BY <1>2
  <1>15. QED
    BY <1>6, <1>7, <1>8, <1>9, <1>10, <1>11, <1>12, <1>13, <1>14, EndStep

LEMMA CommitDeleteStep ==
  ASSUME IInv, NEW t \in Txs, CommitDelete(t)
  PROVE  IInv'
  <1> DEFINE u == tx[t].user
             done == tx[t].done
             purges == tx[t].kind = "purge"
  <1>1. /\ TypeOK /\ AccountsInv /\ HoldInv(t) /\ DeleteInv(t)
        /\ CodesInv /\ AttemptsAreLimited /\ tx[t].pc = "write"
    BY DEF IInv, TxInv, CommitDelete
  <1>2. /\ row' = Without(done)
        /\ addr' = [v \in Users |-> IF purges /\ v = u THEN None ELSE addr[v]]
        /\ old' = (IF purges THEN old \ {u} ELSE old)
        /\ linked' = (IF purges THEN [linked EXCEPT ![u] = None] ELSE linked)
        /\ End(t) /\ verified' = verified /\ password' = password
        /\ guesses' = guesses /\ uses' = uses /\ nextCode' = nextCode /\ faults' = faults
    BY DEF CommitDelete
  <1>3. /\ row' \in [Codes -> CodeRow \cup {NoRow}] /\ rows' = rows \ done
        /\ (\A c \in rows' : row'[c] = row[c]) /\ KeepsLocked(t) /\ KeepsRows(t)
    <2>1. \A c \in done : rowLock[c] = t
      BY <1>1 DEF DeleteInv
    <2>2. QED
      BY <1>2, <2>1, DeletedByHolder
  <1>4. addr' \in [Users -> Emails \cup {None}] /\ linked' \in [Users -> Identities \cup {None}]
    BY <1>1, <1>2 DEF TypeOK
  <1>5. /\ AccountsInv' /\ CodeVerifiesItsPassword'
        /\ \A s \in Txs \ {t} : KeepsAccount(s)
    <2>1. CASE purges
      <3>1. Holds(t) /\ Purges(t)
        BY <2>1 DEF Holds, Purges
      <3>2. u \in Users /\ u \notin verified
        BY <1>1, <3>1 DEF HoldInv
      <3>3. /\ addr'[u] = None /\ \A v \in Users \ {u} : addr'[v] = addr[v]
        BY <1>2, <2>1, <3>2
      <3>4. linked'[u] = None /\ \A v \in Users \ {u} : linked'[v] = linked[v]
        BY <1>1, <1>2, <2>1, <3>2 DEF TypeOK
      <3>5. AccountsInv'
        <4>1. \A v \in verified' : addr'[v] # None
          BY <1>1, <1>2, <3>2, <3>3 DEF AccountsInv, TypeOK
        <4>2. \A v, w \in Users : addr'[v] = addr'[w] /\ addr'[v] # None => v = w
          BY <1>1, <3>3 DEF AccountsInv, AccountsAreUnique
        <4>3. \A v, w \in Users : linked'[v] = linked'[w] /\ linked'[v] # None => v = w
          BY <1>1, <3>4 DEF AccountsInv, AccountsAreUnique
        <4>4. \A v \in Users : linked'[v] # None => v \in verified' /\ addr'[v] # None
          BY <1>1, <1>2, <3>3, <3>4 DEF AccountsInv, AccountsAreUnique
        <4>5. QED
          BY <4>1, <4>2, <4>3, <4>4 DEF AccountsInv, AccountsAreUnique
      <3>6. \A s \in Txs \ {t} : KeepsAccount(s)
        <4>1. \A v \in Users : linked'[v] \in {linked[v], None}
          BY <3>4
        <4>2. verified' \subseteq verified \cup {u}
          BY <1>2
        <4>3. QED
          BY <3>1, <3>3, <4>1, <4>2, AccountsKeep
      <3>7. CodeVerifiesItsPassword'
        <4>1. ASSUME NEW d \in rows', row[d].purpose = "REGISTER"
              PROVE  addr'[row[d].account] = addr[row[d].account]
          <5>1. d \in rows \ done
            BY <1>3
          <5>2. row[d].account \in Users /\ row[d].account # u
            BY <1>1, <3>1, <4>1, <5>1 DEF CodesInv, DeleteInv
          <5>3. QED
            BY <3>3, <5>2
        <4>2. QED
          BY <1>2, <1>3, <4>1, CodesKeep
      <3>8. QED
        BY <3>5, <3>6, <3>7
    <2>2. CASE ~purges
      <3>1. addr' = addr
        BY <1>1, <1>2, <2>2 DEF TypeOK
      <3>2. UNCHANGED <<addr, verified, linked>>
        BY <1>2, <2>2, <3>1
      <3>3. \A s \in Txs : KeepsAccount(s) /\ AccountsInv'
        BY <3>2, AccountsSame
      <3>4. CodeVerifiesItsPassword'
        BY <1>2, <1>3, <3>1, CodesKeep
      <3>5. QED
        BY <3>3, <3>4
    <2>3. QED
      BY <2>1, <2>2
  <1>6. CodesInv'
    <2>1. \A d \in rows' :
            /\ d < nextCode' /\ guesses'[d] = row'[d].attempts /\ uses'[d] = 0
            /\ row'[d].purpose # "PASSWORD_RESET" => row'[d].account \in Users
      BY <1>1, <1>2, <1>3 DEF CodesInv
    <2>2. \A d \in Codes : d >= nextCode' => guesses'[d] = 0 /\ uses'[d] = 0
      BY <1>1, <1>2 DEF CodesInv
    <2>3. QED
      BY <2>1, <2>2, CodesAreNow
  <1>7. AttemptsAreLimited'
    BY <1>1, <1>2 DEF AttemptsAreLimited
  <1>8. \A s \in Txs \ {t} : KeepsCounts(s)
    BY <1>2 DEF KeepsCounts
  <1>9. /\ verified' \subseteq Users /\ verified \subseteq verified' /\ old' \subseteq Users
        /\ password' \in [Users -> Codes \cup {NoCode}]
        /\ guesses' \in [Codes -> Nat] /\ uses' \in [Codes -> Nat]
    BY <1>1, <1>2 DEF TypeOK
  <1>10. End(t) /\ UNCHANGED <<nextCode, faults>>
    BY <1>2
  <1>11. QED
    BY <1>3, <1>4, <1>5, <1>6, <1>7, <1>8, <1>9, <1>10, EndStep

-----------------------------------------------------------------------------
(* The clock                                                               *)

\* Codes expire and accounts grow old; nothing that is relied on changes.
LEMMA ClockStep ==
  ASSUME IInv,
         UNCHANGED <<addr, verified, password, linked, guesses, uses, userLock, rowLock, tx,
                     nextCode, faults>>,
         old' \subseteq Users, row' \in [Codes -> CodeRow \cup {NoRow}], rows' = rows,
         \A c \in rows :
           /\ row'[c].purpose = row[c].purpose /\ row'[c].email = row[c].email
           /\ row'[c].account = row[c].account /\ row'[c].attempts = row[c].attempts
           /\ row'[c].madeFor = row[c].madeFor
  PROVE  IInv'
  <1>1. TypeOK /\ CodesInv /\ AttemptsAreLimited
    BY DEF IInv
  <1>2. /\ addr' = addr /\ verified' = verified /\ password' = password /\ linked' = linked
        /\ guesses' = guesses /\ uses' = uses /\ nextCode' = nextCode /\ tx' = tx
        /\ userLock' = userLock /\ rowLock' = rowLock /\ faults' = faults
    OBVIOUS
  <1>3. TypeOK'
    BY <1>1, <1>2 DEF TypeOK
  <1>4. AccountsInv' /\ \A s \in Txs : KeepsAccount(s)
    <2>1. UNCHANGED <<addr, verified, linked>>
      BY <1>2
    <2>2. AccountsInv'
      BY <1>2 DEF IInv, AccountsInv, AccountsAreUnique
    <2>3. QED
      BY <2>1, <2>2, AccountsSame
  <1>5. Frame(None)
    <2>1. KeepsLocks(None) /\ KeepsLocked(None) /\ KeepsRows(None)
      BY <1>2 DEF KeepsLocks, KeepsLocked, KeepsRows
    <2>2. nextCode <= nextCode' /\ nextCode' \in Int
      BY <1>1, <1>2, CodeNumbers
    <2>3. ASSUME NEW s \in Txs PROVE tx'[s] = tx[s] /\ KeepsCounts(s)
      BY <1>2 DEF KeepsCounts
    <2>4. QED
      BY <1>2, <1>4, <2>1, <2>2, <2>3, ModelValues DEF Frame
  <1>6. \A s \in Txs : TxInv(s)'
    <2>1. \A s \in Txs \ {None} : TxInv(s)'
      BY <1>5, OthersKeep
    <2>2. QED
      BY <2>1, ModelValues
  <1>7. CodesInv'
    <2>1. \A d \in rows' :
            /\ d < nextCode' /\ guesses'[d] = row'[d].attempts /\ uses'[d] = 0
            /\ row'[d].purpose # "PASSWORD_RESET" => row'[d].account \in Users
      BY <1>1, <1>2 DEF CodesInv
    <2>2. \A d \in Codes : d >= nextCode' => guesses'[d] = 0 /\ uses'[d] = 0
      BY <1>1, <1>2 DEF CodesInv
    <2>3. QED
      BY <2>1, <2>2, CodesAreNow
  <1>8. CodeVerifiesItsPassword'
    BY <1>2, CodesKeep
  <1>9. AttemptsAreLimited'
    BY <1>1, <1>2 DEF AttemptsAreLimited
  <1>10. QED
    BY <1>3, <1>4, <1>6, <1>7, <1>8, <1>9 DEF IInv

LEMMA ExpireStep ==
  ASSUME IInv, NEW c \in Codes, Expire(c)
  PROVE  IInv'
  <1> DEFINE gone == [row[c] EXCEPT !.expired = TRUE]
  <1>1. TypeOK /\ c \in rows /\ row[c] \in CodeRow
    BY RowFields DEF IInv, Expire
  <1>2. /\ gone \in CodeRow /\ gone.purpose = row[c].purpose /\ gone.email = row[c].email
        /\ gone.account = row[c].account /\ gone.attempts = row[c].attempts
        /\ gone.madeFor = row[c].madeFor
    BY <1>1 DEF CodeRow
  <1>3. row' = [row EXCEPT ![c] = gone]
    BY DEF Expire
  <1>4. gone # NoRow
    BY <1>2, RowsApart
  <1> HIDE DEF gone
  <1>5. /\ row' \in [Codes -> CodeRow \cup {NoRow}] /\ rows' = rows
        /\ row'[c] = gone /\ \A d \in rows \ {c} : row'[d] = row[d]
    BY <1>1, <1>2, <1>3, <1>4 DEF TypeOK, rows
  <1>6. /\ UNCHANGED <<addr, verified, password, linked, guesses, uses, userLock, rowLock, tx,
                       nextCode, faults>>
        /\ old' \subseteq Users
    BY <1>1 DEF Expire, userVars, TypeOK
  <1>7. QED
    BY <1>2, <1>5, <1>6, ClockStep

LEMMA GrowOldStep ==
  ASSUME IInv, NEW u \in Users, GrowOld(u)
  PROVE  IInv'
  <1>1. TypeOK /\ row' = row /\ rows' = rows
    BY DEF IInv, GrowOld, codeVars, rows
  <1>2. /\ UNCHANGED <<addr, verified, password, linked, guesses, uses, userLock, rowLock, tx,
                       nextCode, faults>>
        /\ old' \subseteq Users /\ row' \in [Codes -> CodeRow \cup {NoRow}]
    BY <1>1 DEF GrowOld, codeVars, TypeOK
  <1>3. QED
    BY <1>1, <1>2, ClockStep

-----------------------------------------------------------------------------
(* The invariant                                                           *)

LEMMA InitInv == Init => IInv
  <1> SUFFICES ASSUME Init
               PROVE  IInv
    OBVIOUS
  <1>1. \A t \in Txs : tx[t] = Idle
    BY DEF Init
  <1>2. rows = {}
    BY DEF Init, rows
  <1>3. TypeOK
    <2>1. addr \in [Users -> Emails \cup {None}] /\ verified \subseteq Users
      BY EstablishedAssumption DEF Init
    <2>2. /\ old \subseteq Users /\ password \in [Users -> Codes \cup {NoCode}]
          /\ linked \in [Users -> Identities \cup {None}]
          /\ row \in [Codes -> CodeRow \cup {NoRow}]
          /\ userLock \in [Users -> Txs \cup {None}] /\ rowLock \in [Codes -> Txs \cup {None}]
      BY DEF Init
    <2>3. guesses \in [Codes -> Nat] /\ uses \in [Codes -> Nat]
      BY DEF Init
    <2>4. tx \in [Txs -> TxState]
      BY IdleFields DEF Init
    <2>5. nextCode \in 1 .. MaxCodes + 1 /\ faults \in 0 .. MaxFaults
      BY BoundAssumption DEF Init
    <2>6. QED
      BY <2>1, <2>2, <2>3, <2>4, <2>5 DEF TypeOK
  <1>4. ASSUME NEW t \in Txs
        PROVE  TxInv(t)
    <2>1. /\ tx[t] = Idle /\ tx[t].pc = "idle" /\ tx[t].kind = "none" /\ tx[t].purpose = "none"
          /\ tx[t].new = FALSE /\ tx[t].done = {}
      BY <1>1, IdleFields
    <2>2. Shape(t) /\ Subject(t)
      BY <2>1 DEF Shape, Subject
    <2>3. HoldInv(t)
      BY <2>1 DEF HoldInv, Holds, HoldsUnverified, Purges, Connects
    <2>4. CreateInv(t) /\ MakeInv(t)
      BY <2>1 DEF CreateInv, Claimed, Creates, MakeInv, Makes, Inserting
    <2>5. DeleteInv(t) /\ CheckInv(t) /\ LinkInv(t)
      BY <2>1 DEF DeleteInv, Purges, CheckInv, Checks, LinkInv, Links
    <2>6. QED
      BY <2>2, <2>3, <2>4, <2>5 DEF TxInv
  <1>5. AccountsInv
    <2>1. \A u \in verified : addr[u] # None
      BY EstablishedAssumption, ModelValues DEF Init
    <2>2. \A u, v \in Users : addr[u] = addr[v] /\ addr[u] # None => u = v
      BY EstablishedAssumption DEF Init
    <2>3. \A u \in Users : linked[u] = None
      BY DEF Init
    <2>4. QED
      BY <2>1, <2>2, <2>3 DEF AccountsInv, AccountsAreUnique
  <1>6. CodesInv /\ CodeVerifiesItsPassword
    BY <1>2 DEF Init, CodesInv, CodeVerifiesItsPassword
  <1>7. AttemptsAreLimited
    <2>1. \A c \in Codes : guesses[c] = 0 /\ uses[c] = 0
      BY DEF Init
    <2>2. QED
      BY <2>1, BoundAssumption DEF AttemptsAreLimited
  <1>8. QED
    BY <1>3, <1>4, <1>5, <1>6, <1>7 DEF IInv

LEMMA StepStep ==
  ASSUME IInv, NEW t \in Txs, Step(t)
  PROVE  IInv'
  <1>1. CASE Make(t)
    BY <1>1, InsertUserStep, DeleteStep, TakeRowStep, InsertCodeStep, CheckKeyStep, CommitCodeStep
       DEF Make
  <1>2. CASE Mail(t)
    BY <1>2, MailStep
  <1>3. CASE Decide(t)
    BY <1>3, FindStep, LoadStep, RefuseStep, WrongStep, RightStep, ResetPasswordStep, LockMoveStep,
       MoveStep DEF Decide
  <1>4. CASE InsertLink(t) \/ CommitLink(t)
    BY <1>4, InsertLinkStep, CommitLinkStep
  <1>5. CASE CommitDelete(t)
    BY <1>5, CommitDeleteStep
  <1>6. QED
    BY <1>1, <1>2, <1>3, <1>4, <1>5 DEF Step

\* A transaction that the detection of deadlocks or a fault rolls back.
LEMMA LostStep ==
  ASSUME IInv, NEW t \in Txs, DeadlockVictim(t) \/ Abort(t)
  PROVE  IInv'
  <1>1. CASE DeadlockVictim(t)
    <2>1. Rollback(t) /\ UNCHANGED faults
      BY <1>1 DEF DeadlockVictim
    <2>2. QED
      BY <2>1, FaultsType, RollbackStep
  <1>2. CASE Abort(t)
    <2>1. Rollback(t) /\ faults < MaxFaults /\ faults' = faults + 1
      BY <1>2 DEF Abort
    <2>2. faults' \in 0 .. MaxFaults
      BY <2>1, BoundAssumption DEF IInv, TypeOK
    <2>3. QED
      BY <2>1, <2>2, RollbackStep
  <1>3. QED
    BY <1>1, <1>2

LEMMA StutterStep ==
  ASSUME IInv, UNCHANGED vars
  PROVE  IInv'
  <1>1. /\ UNCHANGED <<addr, verified, password, old, linked, row, guesses, uses>>
        /\ UNCHANGED <<userLock, rowLock, tx, nextCode, faults>>
    BY DEF vars
  <1>2. rows' = rows
    BY <1>1 DEF rows
  <1>3. TypeOK' /\ AccountsInv' /\ CodesInv' /\ CodeVerifiesItsPassword' /\ AttemptsAreLimited'
    BY <1>1, <1>2 DEF IInv, TypeOK, AccountsInv, AccountsAreUnique, CodesInv,
                      CodeVerifiesItsPassword, AttemptsAreLimited
  <1>4. ASSUME NEW t \in Txs
        PROVE  TxInv(t)'
    <2>1. TxInv(t)
      BY DEF IInv
    <2>2. Shape(t)' /\ Subject(t)'
      BY <1>1, <2>1 DEF TxInv, Shape, Subject
    <2>3. HoldInv(t)'
      BY <1>1, <2>1 DEF TxInv, HoldInv, Holds, HoldsUnverified, Purges, Connects
    <2>4. CreateInv(t)' /\ LinkInv(t)'
      BY <1>1, <2>1 DEF TxInv, CreateInv, Claimed, Creates, UserOf, LinkInv, Links, LinkedTo
    <2>5. MakeInv(t)'
      BY <1>1, <1>2, <2>1 DEF TxInv, MakeInv, Makes, Inserting, Collisions, Collides
    <2>6. DeleteInv(t)' /\ CheckInv(t)'
      BY <1>1, <1>2, <2>1 DEF TxInv, DeleteInv, Purges, CheckInv, Checks
    <2>7. QED
      BY <2>2, <2>3, <2>4, <2>5, <2>6 DEF TxInv
  <1>5. QED
    BY <1>3, <1>4 DEF IInv

LEMMA NextInv == IInv /\ [Next]_vars => IInv'
  <1> SUFFICES ASSUME IInv, [Next]_vars
               PROVE  IInv'
    OBVIOUS
  <1>1. CASE \E t \in Txs, e \in Emails :
               \/ BeginRegister(t, e) \/ BeginResend(t, e) \/ BeginForgot(t, e)
               \/ BeginVerify(t, e) \/ BeginCheck(t, e)
    BY <1>1, BeginRegisterStep, BeginResendStep, BeginForgotStep, BeginVerifyStep, BeginCheckStep
  <1>2. CASE \E t \in Txs, u \in Users, e \in Emails : BeginChange(t, u, e)
    BY <1>2, BeginChangeStep
  <1>3. CASE \E t \in Txs, i \in Identities, e \in Emails : BeginSocial(t, i, e)
    BY <1>3, BeginSocialStep
  <1>4. CASE \E t \in Txs, u \in Users, i \in Identities : BeginConnect(t, u, i)
    BY <1>4, BeginConnectStep
  <1>5. CASE (\E t \in Txs : BeginCleanup(t)) \/ (\E t \in Txs, u \in Users : BeginPurge(t, u))
    BY <1>5, BeginCleanupStep, BeginPurgeStep
  <1>6. CASE \E t \in Txs : Step(t)
    BY <1>6, StepStep
  <1>7. CASE (\E c \in Codes : Expire(c)) \/ (\E u \in Users : GrowOld(u))
    BY <1>7, ExpireStep, GrowOldStep
  <1>8. CASE \E t \in Txs : DeadlockVictim(t) \/ Abort(t)
    BY <1>8, LostStep
  <1>9. CASE Quiescent \/ UNCHANGED vars
    BY <1>9, StutterStep DEF Quiescent
  <1>10. QED
    BY <1>1, <1>2, <1>3, <1>4, <1>5, <1>6, <1>7, <1>8, <1>9 DEF Next

-----------------------------------------------------------------------------
(* The theorems                                                            *)

\* Every reachable state satisfies the inductive invariant.
THEOREM Inductive == Spec => []IInv
  <1>1. Init => IInv
    BY InitInv
  <1>2. IInv /\ [Next]_vars => IInv'
    BY NextInv
  <1>3. QED
    BY <1>1, <1>2, PTL DEF Spec

\* Every variable keeps its type: the columns of users and email_verifications, the
\* locks, and what a transaction has read.
THEOREM TypeCorrect == Spec => []TypeOK
  <1>1. IInv => TypeOK
    BY DEF IInv
  <1>2. QED
    BY <1>1, Inductive, PTL

\* A code that is pending for an account not verified yet turns it on with the password
\* and the address the account has now: create_email_verification, resend, the e-mail
\* change, the social login and the purge cannot come in between, for they all lock
\* the users row that the code was made under.
THEOREM VerifiesItsPassword == Spec => []CodeVerifiesItsPassword
  <1>1. IInv => CodeVerifiesItsPassword
    BY DEF IInv
  <1>2. QED
    BY <1>1, Inductive, PTL

\* The unique indexes of users(email) and account_providers, with the rows locked by a
\* request between its SELECT and its commit, leave an address and an identity with
\* one account; an account with an identity is a verified one.
THEOREM UniqueAccounts == Spec => []AccountsAreUnique
  <1>1. IInv => AccountsAreUnique
    BY DEF IInv, AccountsInv
  <1>2. QED
    BY <1>1, Inductive, PTL

\* No code is tried more often than MAX_EMAIL_VERIFICATION_ATTEMPTS, and one tried as
\* often is never accepted: the attempts a request has read are the ones of the
\* row it holds.
THEOREM LimitedAttempts == Spec => []AttemptsAreLimited
  <1>1. IInv => AttemptsAreLimited
    BY DEF IInv
  <1>2. QED
    BY <1>1, Inductive, PTL

-----------------------------------------------------------------------------
(* What a step may change                                                  *)

\* Only these steps change users or email_verifications.
Commits(t) ==
  \/ CommitCode(t) \/ CommitLink(t) \/ CommitDelete(t)
  \/ Refuse(t) \/ Wrong(t) \/ Right(t) \/ ResetPassword(t) \/ Move(t)

LEMMA OnlyCommitsChange ==
  ASSUME [Next]_vars
  PROVE  \/ UNCHANGED <<userVars, codeVars>>
         \/ \E t \in Txs : Commits(t)
         \/ \E c \in Codes : Expire(c)
         \/ \E u \in Users : GrowOld(u)
  <1> USE DEF Goto, Rollback
  <1>1. ASSUME NEW t \in Txs, NEW e \in Emails,
               \/ BeginRegister(t, e) \/ BeginResend(t, e) \/ BeginForgot(t, e)
               \/ BeginVerify(t, e) \/ BeginCheck(t, e)
        PROVE  UNCHANGED <<userVars, codeVars>>
    BY <1>1 DEF BeginRegister, BeginResend, BeginForgot, BeginVerify, BeginCheck, LockUser, NewUser
  <1>2. ASSUME NEW t \in Txs, NEW u \in Users, NEW e \in Emails, BeginChange(t, u, e)
        PROVE  UNCHANGED <<userVars, codeVars>>
    BY <1>2 DEF BeginChange
  <1>3. ASSUME NEW t \in Txs, NEW i \in Identities, NEW e \in Emails, BeginSocial(t, i, e)
        PROVE  UNCHANGED <<userVars, codeVars>>
    BY <1>3 DEF BeginSocial, LockUser, NewUser
  <1>4. ASSUME NEW t \in Txs, NEW u \in Users, NEW i \in Identities, BeginConnect(t, u, i)
        PROVE  UNCHANGED <<userVars, codeVars>>
    BY <1>4 DEF BeginConnect, LockUser
  <1>5. ASSUME NEW t \in Txs, BeginCleanup(t) \/ \E u \in Users : BeginPurge(t, u)
        PROVE  UNCHANGED <<userVars, codeVars>>
    BY <1>5 DEF BeginCleanup, BeginPurge, LockUser
  <1>6. ASSUME NEW t \in Txs, Step(t)
        PROVE  UNCHANGED <<userVars, codeVars>> \/ Commits(t)
    <2>1. CASE InsertUser(t) \/ Delete(t) \/ TakeRow(t) \/ InsertCode(t) \/ CheckKey(t)
      BY <2>1 DEF InsertUser, Delete, TakeRow, Visit, InsertCode, CheckKey
    <2>2. CASE Mail(t) \/ InsertLink(t)
      BY <2>2 DEF Mail, InsertLink
    <2>3. CASE Find(t) \/ Load(t) \/ LockMove(t)
      BY <2>3 DEF Find, Load, LockMove
    <2>4. CASE Commits(t)
      BY <2>4
    <2>5. QED
      BY <1>6, <2>1, <2>2, <2>3, <2>4 DEF Step, Make, Decide, Commits
  <1>7. ASSUME NEW t \in Txs, DeadlockVictim(t) \/ Abort(t)
        PROVE  UNCHANGED <<userVars, codeVars>>
    BY <1>7 DEF DeadlockVictim, Abort
  <1>8. CASE Quiescent \/ UNCHANGED vars
    BY <1>8 DEF Quiescent, vars, userVars, codeVars
  <1>9. QED
    BY <1>1, <1>2, <1>3, <1>4, <1>5, <1>6, <1>7, <1>8 DEF Next

LEMMA UsesStep ==
  ASSUME IInv, [Next]_vars, NEW c \in Codes, uses'[c] # uses[c]
  PROVE  c \in rows
  <1>1. PICK t \in Txs : Commits(t)
    <2>1. ~(UNCHANGED <<userVars, codeVars>>)
      BY DEF codeVars
    <2>2. \A d \in Codes : ~Expire(d)
      BY DEF Expire
    <2>3. \A u \in Users : ~GrowOld(u)
      BY DEF GrowOld, codeVars
    <2>4. QED
      BY <2>1, <2>2, <2>3, OnlyCommitsChange
  <1>2. Right(t) \/ ResetPassword(t) \/ Move(t)
    <2>1. ~(CommitCode(t) \/ CommitLink(t) \/ CommitDelete(t) \/ Refuse(t) \/ Wrong(t))
      BY DEF CommitCode, CommitLink, CommitDelete, Refuse, Wrong, Discard, codeVars
    <2>2. QED
      BY <1>1, <2>1 DEF Commits
  <1>3. Accept(t) /\ Checks(t)
    BY <1>2 DEF Right, ResetPassword, Move, Discard, Rollback, Goto, codeVars, Checks
  <1>4. tx[t].code \in rows /\ uses' = [uses EXCEPT ![tx[t].code] = @ + 1]
    BY <1>3, Checked DEF Accept
  <1>5. c = tx[t].code
    BY <1>4 DEF IInv, TypeOK
  <1>6. QED
    BY <1>4, <1>5

LEMMA VerifiedGrows == [Next]_vars => verified \subseteq verified'
  <1> SUFFICES ASSUME [Next]_vars
               PROVE  verified \subseteq verified'
    OBVIOUS
  <1>1. CASE UNCHANGED <<userVars, codeVars>>
    BY <1>1 DEF userVars
  <1>2. ASSUME NEW t \in Txs, Commits(t)
        PROVE  verified \subseteq verified'
    <2>1. CASE CommitCode(t) \/ CommitLink(t) \/ CommitDelete(t)
      BY <2>1 DEF CommitCode, CommitLink, CommitDelete
    <2>2. CASE Refuse(t) \/ Wrong(t)
      BY <2>2 DEF Refuse, Wrong, Discard, userVars
    <2>3. CASE Right(t)
      BY <2>3 DEF Right, Discard, Rollback, Goto, userVars
    <2>4. CASE ResetPassword(t) \/ Move(t)
      BY <2>4 DEF ResetPassword, Move, Rollback, userVars
    <2>5. QED
      BY <1>2, <2>1, <2>2, <2>3, <2>4 DEF Commits
  <1>3. CASE \E c \in Codes : Expire(c)
    BY <1>3 DEF Expire, userVars
  <1>4. CASE \E u \in Users : GrowOld(u)
    BY <1>4 DEF GrowOld
  <1>5. QED
    BY <1>1, <1>2, <1>3, <1>4, OnlyCommitsChange

LEMMA LinkStep ==
  ASSUME IInv, [Next]_vars, NEW u \in verified, linked'[u] # linked[u]
  PROVE  \E t \in Txs : tx[t].kind = "connect" /\ tx[t].user = u
  <1>1. TypeOK /\ u \in Users
    BY DEF IInv, TypeOK
  <1>2. PICK t \in Txs : CommitLink(t) \/ CommitDelete(t)
    <2>1. ~(UNCHANGED <<userVars, codeVars>>)
      BY DEF userVars
    <2>2. \A c \in Codes : ~Expire(c)
      BY DEF Expire, userVars
    <2>3. \A v \in Users : ~GrowOld(v)
      BY DEF GrowOld
    <2>4. PICK t \in Txs : Commits(t)
      BY <2>1, <2>2, <2>3, OnlyCommitsChange
    <2>5. ~(CommitCode(t) \/ Refuse(t) \/ Wrong(t))
      BY DEF CommitCode, Refuse, Wrong, Discard, userVars
    <2>6. ~(Right(t) \/ ResetPassword(t) \/ Move(t))
      BY DEF Right, ResetPassword, Move, Accept, Discard, Rollback, Goto, userVars
    <2>7. QED
      BY <2>4, <2>5, <2>6 DEF Commits
  <1>3. TxInv(t)
    BY DEF IInv
  <1>4. CASE CommitDelete(t)
    <2>1. Purges(t) /\ tx[t].user = u
      BY <1>1, <1>4 DEF CommitDelete, TypeOK, Purges
    <2>2. u \notin verified
      BY <1>3, <2>1 DEF TxInv, HoldInv
    <2>3. QED
      BY <2>2
  <1>5. CASE CommitLink(t)
    <2>1. tx[t].kind \in {"social", "connect"} /\ tx[t].pc = "write" /\ tx[t].user = u
      BY <1>1, <1>5 DEF CommitLink, TypeOK
    <2>2. CASE tx[t].kind = "connect"
      BY <2>1, <2>2
    <2>3. CASE tx[t].kind = "social" /\ ~tx[t].new
      <3>1. u \notin verified
        BY <1>3, <2>1, <2>3 DEF TxInv, HoldInv, HoldsUnverified
      <3>2. QED
        BY <3>1
    <2>4. CASE tx[t].new
      <3>1. addr[u] = None
        BY <1>3, <2>1, <2>4 DEF TxInv, CreateInv, Creates
      <3>2. QED
        BY <3>1 DEF IInv, AccountsInv
    <2>5. QED
      BY <2>1, <2>2, <2>3, <2>4
  <1>6. QED
    BY <1>2, <1>4, <1>5

\* A code is accepted while its row is there, so once: the request that accepts it holds
\* the row from its SELECT ... FOR UPDATE to the DELETE.
THEOREM CodesDieOnce == Spec => DeletedCodesStayDead
  <1>1. IInv /\ [Next]_vars => [\A c \in Codes : uses'[c] # uses[c] => c \in rows]_vars
    BY UsesStep
  <1>2. QED
    BY <1>1, Inductive, PTL DEF Spec, DeletedCodesStayDead

\* No verified account is deleted: a purge holds the row of an account that is not
\* verified, and nobody verifies it before its commit.
THEOREM VerifiedAreKept == Spec => VerifiedAccountsStay
  <1>1. IInv' /\ [Next]_vars => [\A u \in verified : addr'[u] # None]_vars
    <2> SUFFICES ASSUME IInv', [Next]_vars, NEW u \in verified
                 PROVE  addr'[u] # None
      OBVIOUS
    <2>1. u \in verified'
      BY VerifiedGrows
    <2>2. QED
      BY <2>1 DEF IInv, AccountsInv
  <1>2. QED
    BY <1>1, Inductive, PTL DEF Spec, VerifiedAccountsStay

\* The link of a verified account changes in a request of its own user only: a social
\* login holds the row of an account that is not verified, or makes a new one.
THEOREM LinkedByOwner == Spec => OwnersLink
  <1>1. IInv /\ [Next]_vars =>
          [\A u \in verified : linked'[u] # linked[u] =>
             \E t \in Txs : tx[t].kind = "connect" /\ tx[t].user = u]_vars
    BY LinkStep
  <1>2. QED
    BY <1>1, Inductive, PTL DEF Spec, OwnersLink
=============================================================================
