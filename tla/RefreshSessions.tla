--------------------------- MODULE RefreshSessions ---------------------------
(***************************************************************************)
(* The refresh_tokens table and the transactions over it (READ COMMITTED): *)
(*                                                                         *)
(*   auth/service.rs        rotate_refresh_token, logout, login and the    *)
(*                          other callers of create_refresh_token,         *)
(*                          change_password, set_password, reset_password  *)
(*   shared/maintenance.rs  the deletion of expired tokens                 *)
(*                                                                         *)
(* A token is named by its row.  A client may present a token at any time, *)
(* and again: two tabs, a retry, a lost response.  As in OrderStock the    *)
(* row variables hold committed rows, and what a transaction has done but  *)
(* not committed is in its record.  A statement that touches several rows  *)
(* fixes which ones when it starts and waits for each one's lock.          *)
(***************************************************************************)
EXTENDS Integers, FiniteSets

CONSTANTS
  Users, Txs,
  MaxTokens,   \* bound: tokens ever inserted
  MaxChanges,  \* bound: password changes of a user
  MaxExpired,  \* bound: tokens that expire
  MaxFaults,   \* bound: transactions lost to a crash or a lost connection
  None

Tokens == 1 .. MaxTokens
NoToken == 0

ASSUME NoneAssumption == None \notin Txs \cup Users
ASSUME BoundAssumption ==
  /\ MaxTokens \in Nat /\ MaxChanges \in Nat
  /\ MaxExpired \in Nat /\ MaxFaults \in Nat

VARIABLES
  rows,       \* the rows of refresh_tokens
  owner, family,
  next,       \* replaced_by_token_id
  consumed, revoked, expired,
  fresh,      \* consumed less than REFRESH_TOKEN_IDEMPOTENT_WINDOW_SECONDS ago
  epoch,      \* password changes of each user
  born,       \* history: the epoch of the login a token descends from
  answers,    \* history: the tokens handed out for each token presented
  rowLock,    \* the transaction holding a token row, or None
  userLock,   \* the transaction holding a users row FOR UPDATE, or None
  tx, nextToken, faults

tokenVars == <<rows, owner, family, next, consumed, revoked, born>>
clockVars == <<expired, fresh>>
vars == <<rows, owner, family, next, consumed, revoked, expired, fresh, epoch, born,
          answers, rowLock, userLock, tx, nextToken, faults>>

Idle == [pc |-> "idle", kind |-> "none", user |-> None, token |-> NoToken,
         new |-> NoToken, want |-> NoToken, fresh |-> FALSE, todo |-> {}, done |-> {}]

(***************************************************************************)
(* pc = "insert": the presented token is consumed, its successor is to be  *)
(* inserted; "successor": it was consumed before, its successor is to be   *)
(* locked; "select": the rows of the next statement are to be chosen;      *)
(* "rows": it is at row want, with todo still to come and done locked;     *)
(* "links": the same for the rows the foreign keys of deleted ones touch;  *)
(* "write": only the commit is left.                                       *)
(***************************************************************************)
TxState ==
  [pc : {"idle", "insert", "successor", "select", "rows", "links", "write"},
   kind : {"none", "rotate", "revoke", "logout", "cleanup", "password"},
   user : Users \cup {None}, token : Tokens \cup {NoToken},
   new : Tokens \cup {NoToken}, want : Tokens \cup {NoToken}, fresh : BOOLEAN,
   todo : SUBSET Tokens, done : SUBSET Tokens]

TypeOK ==
  /\ rows \subseteq Tokens
  /\ owner \in [Tokens -> Users \cup {None}]
  /\ family \in [Tokens -> Tokens]
  /\ next \in [Tokens -> Tokens \cup {NoToken}]
  /\ consumed \subseteq Tokens /\ revoked \subseteq Tokens
  /\ expired \subseteq Tokens /\ fresh \subseteq Tokens
  /\ epoch \in [Users -> 0 .. MaxChanges]
  /\ born \in [Tokens -> 0 .. MaxChanges]
  /\ answers \in [Tokens -> SUBSET Tokens]
  /\ rowLock \in [Tokens -> Txs \cup {None}]
  /\ userLock \in [Users -> Txs \cup {None}]
  /\ tx \in [Txs -> TxState]
  /\ nextToken \in 1 .. MaxTokens + 1
  /\ faults \in 0 .. MaxFaults

-----------------------------------------------------------------------------
\* The rows of the partial unique index idx_refresh_tokens_active_family.
Active == rows \ (consumed \cup revoked)

FamilyOf(k) == {j \in rows : family[j] = family[k]}

Init ==
  /\ rows = {} /\ consumed = {} /\ revoked = {} /\ expired = {} /\ fresh = {}
  /\ owner = [k \in Tokens |-> None]
  /\ family = [k \in Tokens |-> k]
  /\ next = [k \in Tokens |-> NoToken]
  /\ epoch = [u \in Users |-> 0]
  /\ born = [k \in Tokens |-> 0]
  /\ answers = [k \in Tokens |-> {}]
  /\ rowLock = [k \in Tokens |-> None]
  /\ userLock = [u \in Users |-> None]
  /\ tx = [t \in Txs |-> Idle]
  /\ nextToken = 1
  /\ faults = 0

-----------------------------------------------------------------------------
(* Locks                                                                   *)

End(t) ==
  /\ rowLock' = [k \in Tokens |-> IF rowLock[k] = t THEN None ELSE rowLock[k]]
  /\ userLock' = [u \in Users |-> IF userLock[u] = t THEN None ELSE userLock[u]]
  /\ tx' = [tx EXCEPT ![t] = Idle]

Rollback(t) ==
  /\ End(t)
  /\ UNCHANGED <<tokenVars, clockVars, epoch, answers, nextToken>>

\* An INSERT into refresh_tokens locks the users row FOR KEY SHARE for its
\* foreign key: it waits for a FOR UPDATE, and a FOR UPDATE waits for it.
Inserted(t, u) == tx[t].kind = "rotate" /\ tx[t].pc = "write" /\ tx[t].user = u

\* Mutant of UserFree: the users row read without FOR UPDATE (the UPDATE of
\* password_hash alone does not wait for FOR KEY SHARE).
UserUnlocked(u) == userLock[u] = None

\* Mutant of UserFree: nothing is locked at all.
UserUnread(u) == TRUE

UserFree(u) == userLock[u] = None /\ \A t \in Txs : ~Inserted(t, u)

\* What t is waiting for, if its next step needs a lock.
Holder(t) ==
  CASE tx[t].pc = "insert" -> userLock[tx[t].user]
    [] tx[t].pc \in {"successor", "rows", "links"} -> rowLock[tx[t].want]
    [] OTHER -> None

Granted(t) == Holder(t) \in {None, t}

\* Mutant of Blocked: the successor is asked for with NOWAIT, again and again until its
\* row is free, so that the database does not see the request waiting.
BlockedUnlessPolling(t) == tx[t].pc # "successor" /\ ~Granted(t)

\* The statement of t waits in the queue of a row: the locks are asked for without
\* NOWAIT or SKIP LOCKED.
Blocked(t) == ~Granted(t)

\* The statement goes on to one of the rows S, or is over.
Visit(t, record, S, over) ==
  \/ S = {} /\ tx' = [tx EXCEPT ![t] = [record EXCEPT !.pc = over, !.want = NoToken]]
  \/ \E k \in S : tx' = [tx EXCEPT ![t] = [record EXCEPT !.want = k, !.todo = S \ {k}]]

-----------------------------------------------------------------------------
(* rotate_refresh_token                                                    *)

\* Mutant of RowFree: SELECT without FOR UPDATE.
UnlockedRead(k) == TRUE

RowFree(k) == rowLock[k] = None

\* SELECT ... WHERE token_hash = $1 FOR UPDATE.  Without a row, or with a revoked
\* or expired one, the answer is 401 and nothing changes.
Present(t, k, record) ==
  /\ tx[t].pc = "idle"
  /\ k \in rows /\ RowFree(k)
  /\ k \notin revoked \cup expired
  /\ rowLock' = [rowLock EXCEPT ![k] = t]
  /\ tx' = [tx EXCEPT ![t] = [record EXCEPT !.user = owner[k], !.token = k]]
  /\ UNCHANGED <<tokenVars, clockVars, epoch, answers, userLock, faults>>

\* Mutant of Unused: a token without a successor counts as unused.
WithoutSuccessor(k) == next[k] = NoToken

Unused(k) == k \notin consumed

\* The token is unused: the record of its successor is built.
BeginRotate(t, k) ==
  /\ Unused(k)
  /\ nextToken <= MaxTokens
  /\ nextToken' = nextToken + 1
  /\ Present(t, k, [Idle EXCEPT !.pc = "insert", !.kind = "rotate", !.new = nextToken])

\* It was used before: its successor decides, if it still has one.
BeginRepeat(t, k) ==
  /\ ~Unused(k)
  /\ \/ /\ next[k] = NoToken
        /\ Present(t, k, [Idle EXCEPT !.pc = "select", !.kind = "revoke"])
     \/ /\ next[k] # NoToken
        /\ Present(t, k, [Idle EXCEPT !.pc = "successor", !.kind = "rotate", !.want = next[k],
                                      !.fresh = k \in fresh /\ next[k] \notin expired])
  /\ UNCHANGED nextToken

\* UPDATE consumed_at, INSERT of the successor, UPDATE replaced_by_token_id.
\* InsertNeverConflicts shows that the unique index lets the INSERT pass.
Insert(t) ==
  /\ tx[t].pc = "insert" /\ Granted(t)
  /\ Active \cap FamilyOf(tx[t].token) \subseteq {tx[t].token}
  /\ tx' = [tx EXCEPT ![t].pc = "write"]
  /\ UNCHANGED <<tokenVars, clockVars, epoch, answers, rowLock, userLock, nextToken, faults>>

CommitRotate(t) ==
  LET k == tx[t].token
      n == tx[t].new
  IN /\ tx[t].kind = "rotate" /\ tx[t].pc = "write"
     /\ rows' = rows \cup {n}
     /\ owner' = [owner EXCEPT ![n] = tx[t].user]
     /\ family' = [family EXCEPT ![n] = family[k]]
     /\ born' = [born EXCEPT ![n] = born[k]]
     /\ consumed' = consumed \cup {k}
     /\ fresh' = fresh \cup {k}
     /\ next' = [next EXCEPT ![k] = n]
     /\ answers' = [answers EXCEPT ![k] = @ \cup {n}]
     /\ End(t)
     /\ UNCHANGED <<revoked, expired, epoch, nextToken, faults>>

\* SELECT ... WHERE id = successor FOR UPDATE: the same token was presented a
\* moment ago and its successor has not been used.
AnswerAgain(t) ==
  /\ tx[t].pc = "successor" /\ Granted(t)
  /\ tx[t].fresh /\ tx[t].want \in Active
  /\ answers' = [answers EXCEPT ![tx[t].token] = @ \cup {tx[t].want}]
  /\ End(t)
  /\ UNCHANGED <<tokenVars, clockVars, epoch, nextToken, faults>>

\* Otherwise the token is reused.
DetectReuse(t) ==
  /\ tx[t].pc = "successor" /\ Granted(t)
  /\ ~(tx[t].fresh /\ tx[t].want \in Active)
  /\ rowLock' = [rowLock EXCEPT ![tx[t].want] = t]
  /\ tx' = [tx EXCEPT ![t].kind = "revoke", ![t].pc = "select", ![t].want = NoToken]
  /\ UNCHANGED <<tokenVars, clockVars, epoch, answers, userLock, nextToken, faults>>

-----------------------------------------------------------------------------
(* Statements over several rows                                            *)

\* UPDATE ... WHERE family_id = $1; DELETE ... WHERE user_id = $1.
Targets(t) ==
  IF tx[t].kind = "revoke" THEN FamilyOf(tx[t].token)
  ELSE {k \in rows : owner[k] = tx[t].user}

Select(t) ==
  /\ tx[t].pc = "select"
  /\ Visit(t, [tx[t] EXCEPT !.pc = "rows"], Targets(t), "write")
  /\ UNCHANGED <<tokenVars, clockVars, epoch, answers, rowLock, userLock, nextToken, faults>>

\* ON DELETE SET NULL of replaced_by_token_id and parent_token_id.
Links(D) == ({p \in rows : next[p] \in D} \cup {next[k] : k \in D}) \cap (rows \ D)

\* The statement locks its current row, or skips it: deleted in the meantime.
TakeRow(t) ==
  LET k == tx[t].want
      done == tx[t].done \cup ({k} \cap rows)
      record == [tx[t] EXCEPT !.done = done]
  IN /\ tx[t].pc = "rows" /\ Granted(t)
     /\ rowLock' = [rowLock EXCEPT ![k] = IF k \in rows THEN t ELSE @]
     /\ \/ tx[t].todo # {} /\ Visit(t, record, tx[t].todo, "write")
        \/ tx[t].todo = {} /\ tx[t].kind = "revoke" /\ Visit(t, record, {}, "write")
        \/ /\ tx[t].todo = {} /\ tx[t].kind # "revoke"
           /\ Visit(t, [record EXCEPT !.pc = "links"], Links(done), "write")
     /\ UNCHANGED <<tokenVars, clockVars, epoch, answers, userLock, nextToken, faults>>

TakeLink(t) ==
  LET k == tx[t].want
  IN /\ tx[t].pc = "links" /\ Granted(t)
     /\ rowLock' = [rowLock EXCEPT ![k] = IF k \in rows THEN t ELSE @]
     /\ Visit(t, tx[t], tx[t].todo, "write")
     /\ UNCHANGED <<tokenVars, clockVars, epoch, answers, userLock, nextToken, faults>>

\* SET revoked_at = COALESCE(revoked_at, $2).
CommitRevoke(t) ==
  /\ tx[t].kind = "revoke" /\ tx[t].pc = "write"
  /\ revoked' = revoked \cup tx[t].done
  /\ End(t)
  /\ UNCHANGED <<rows, owner, family, next, consumed, born, clockVars, epoch, answers,
                 nextToken, faults>>

CommitDelete(t) ==
  /\ tx[t].kind \in {"logout", "cleanup", "password"} /\ tx[t].pc = "write"
  /\ rows' = rows \ tx[t].done
  /\ next' = [k \in Tokens |-> IF next[k] \in tx[t].done THEN NoToken ELSE next[k]]
  /\ epoch' = [u \in Users |->
                 IF tx[t].kind = "password" /\ u = tx[t].user THEN epoch[u] + 1 ELSE epoch[u]]
  /\ End(t)
  /\ UNCHANGED <<owner, family, consumed, revoked, born, clockVars, answers, nextToken, faults>>

-----------------------------------------------------------------------------
(* The other operations                                                    *)

\* create_refresh_token: a session of its own, after a login, a verified e-mail
\* address or an exchanged ticket.  The single INSERT waits for the users row.
Login(u) ==
  /\ userLock[u] = None
  /\ nextToken <= MaxTokens
  /\ nextToken' = nextToken + 1
  /\ rows' = rows \cup {nextToken}
  /\ owner' = [owner EXCEPT ![nextToken] = u]
  /\ born' = [born EXCEPT ![nextToken] = epoch[u]]
  /\ UNCHANGED <<family, next, consumed, revoked, clockVars, epoch, answers, rowLock,
                 userLock, tx, faults>>

\* DELETE ... WHERE token_hash = $1.
BeginLogout(t, k) ==
  /\ tx[t].pc = "idle" /\ k \in rows
  /\ Visit(t, [Idle EXCEPT !.pc = "rows", !.kind = "logout"], {k}, "write")
  /\ UNCHANGED <<tokenVars, clockVars, epoch, answers, rowLock, userLock, nextToken, faults>>

\* DELETE ... WHERE expires_at <= NOW().
BeginCleanup(t) ==
  /\ tx[t].pc = "idle" /\ rows \cap expired # {}
  /\ Visit(t, [Idle EXCEPT !.pc = "rows", !.kind = "cleanup"], rows \cap expired, "write")
  /\ UNCHANGED <<tokenVars, clockVars, epoch, answers, rowLock, userLock, nextToken, faults>>

\* change_password, set_password, reset_password: SELECT ... FROM users FOR
\* UPDATE; the DELETE of the user's tokens comes later.
BeginPassword(t, u) ==
  /\ tx[t].pc = "idle" /\ UserFree(u)
  /\ epoch[u] < MaxChanges
  /\ userLock' = [userLock EXCEPT ![u] = t]
  /\ tx' = [tx EXCEPT ![t] = [Idle EXCEPT !.pc = "select", !.kind = "password", !.user = u]]
  /\ UNCHANGED <<tokenVars, clockVars, epoch, answers, rowLock, nextToken, faults>>

\* Time: the retry window of a consumed token closes, a token expires.
Age(k) ==
  /\ k \in rows \cap fresh
  /\ fresh' = fresh \ {k}
  /\ UNCHANGED <<tokenVars, expired, epoch, answers, rowLock, userLock, tx, nextToken, faults>>

Expire(k) ==
  /\ k \in rows \ expired /\ Cardinality(expired) < MaxExpired
  /\ expired' = expired \cup {k}
  /\ UNCHANGED <<tokenVars, fresh, epoch, answers, rowLock, userLock, tx, nextToken, faults>>

Deadlocked(C) == C # {} /\ (\A t \in C : Blocked(t)) /\ {Holder(t) : t \in C} = C

DeadlockVictim(t) ==
  /\ \E C \in SUBSET Txs : t \in C /\ Deadlocked(C)
  /\ Rollback(t)
  /\ UNCHANGED faults

Abort(t) ==
  /\ tx[t].pc # "idle"
  /\ faults < MaxFaults
  /\ faults' = faults + 1
  /\ Rollback(t)

\* The bound on tokens is reached and every transaction has ended.
Quiescent ==
  /\ nextToken > MaxTokens
  /\ \A t \in Txs : tx[t].pc = "idle"
  /\ UNCHANGED vars

-----------------------------------------------------------------------------
Step(t) ==
  \/ Insert(t) \/ CommitRotate(t) \/ AnswerAgain(t) \/ DetectReuse(t)
  \/ Select(t) \/ TakeRow(t) \/ TakeLink(t) \/ CommitRevoke(t) \/ CommitDelete(t)

Next ==
  \/ \E u \in Users : Login(u)
  \/ \E t \in Txs, k \in Tokens : BeginRotate(t, k)
  \/ \E t \in Txs, k \in Tokens : BeginRepeat(t, k)
  \/ \E t \in Txs, k \in Tokens : BeginLogout(t, k)
  \/ \E t \in Txs : BeginCleanup(t)
  \/ \E t \in Txs, u \in Users : BeginPassword(t, u)
  \/ \E t \in Txs : Step(t)
  \/ \E k \in Tokens : Age(k)
  \/ \E k \in Tokens : Expire(k)
  \/ \E t \in Txs : DeadlockVictim(t)
  \/ \E t \in Txs : Abort(t)
  \/ Quiescent

Spec == Init /\ [][Next]_vars

(* As in OrderStock.  *)
Fairness ==
  /\ \A t \in Txs : SF_vars(Step(t))
  /\ WF_vars(\E t \in Txs : DeadlockVictim(t))

FairSpec == Spec /\ Fairness

-----------------------------------------------------------------------------
(* Properties                                                              *)

\* The unique index on the active token of a family never turns a refresh into
\* an error: the presented token is the only one when its successor is inserted.
InsertNeverConflicts ==
  \A t \in Txs : tx[t].pc = "insert" =>
    Active \cap FamilyOf(tx[t].token) \subseteq {tx[t].token}

\* A token presented again and again, at once or later, also when its successor
\* has been logged out or cleaned up, never gives a second successor.
OneAnswer == \A k \in Tokens : Cardinality(answers[k]) <= 1

\* A change or reset of the password ends every session of the user begun before
\* it, those too whose token was being rotated meanwhile (API_DOCS.md: the
\* backend revokes every refresh_token of the user).
PasswordEndsSessions == \A k \in rows : born[k] = epoch[owner[k]]

\* A session that has no active token left - logged out, expired, revoked -
\* does not come back to life.
SessionsStayEnded ==
  [][\A f \in Tokens :
       /\ owner[f] # None /\ family[f] = f
       /\ \A k \in Active : family[k] # f
       => \A k \in Active' : family'[k] # f]_vars

\* After a token was found reused its session is over and its client has to log
\* in again (API_DOCS.md:799; "Refresh token reuse detected").
ReuseEndsSession ==
  [][\A t \in Txs : CommitRevoke(t) =>
       \A k \in Active' : family'[k] # family[tx[t].token]]_vars

\* No request waits for ever, although families, users and foreign keys are
\* locked in different orders: requests that wait for each other are all seen waiting
\* by the deadlock detector, and one of them fails.
RequestsEnd == \A t \in Txs : []<>(tx[t].pc = "idle")
=============================================================================
