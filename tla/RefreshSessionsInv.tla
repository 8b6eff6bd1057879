------------------------- MODULE RefreshSessionsInv -------------------------
(***************************************************************************)
(* The inductive invariant behind the theorems of RefreshSessions_proofs.  *)
(***************************************************************************)
EXTENDS RefreshSessions

\* Which kind of transaction is at which point.
Shape(t) ==
  /\ tx[t].pc \in {"insert", "successor"} => tx[t].kind = "rotate"
  /\ tx[t].pc = "select" => tx[t].kind \in {"revoke", "password"}
  /\ tx[t].pc \in {"rows", "links"} =>
       tx[t].kind \in {"revoke", "logout", "cleanup", "password"} /\ tx[t].want \in Tokens
  /\ tx[t].kind = "password" => tx[t].pc \in {"select", "rows", "links", "write"}

\* What a statement has visited stays locked until the commit.
DoneInv(t) == \A k \in tx[t].done : rowLock[k] = t

Rotating(t) == tx[t].kind = "rotate" /\ tx[t].pc \in {"insert", "write"}

\* A token being rotated is still the active one of its family; its successor is
\* nobody else's.
RotateInv(t) ==
  Rotating(t) =>
    /\ tx[t].token \in Active /\ rowLock[tx[t].token] = t
    /\ tx[t].user = owner[tx[t].token]
    /\ tx[t].new \in Tokens /\ tx[t].new < nextToken /\ owner[tx[t].new] = None
    /\ \A s \in Txs \ {t} : Rotating(s) => tx[s].new # tx[t].new

\* A repeated token has given its successor, and nothing else, before.
RepeatInv(t) ==
  tx[t].pc = "successor" =>
    /\ tx[t].token \in consumed /\ rowLock[tx[t].token] = t
    /\ tx[t].want \in Tokens
    /\ answers[tx[t].token] \subseteq {tx[t].want}

\* A password change keeps new sessions of its user out, and its DELETE is on
\* its way to all the old ones.
PasswordInv(t) ==
  LET mine == {k \in rows : owner[k] = tx[t].user}
  IN tx[t].kind = "password" =>
     /\ tx[t].user \in Users /\ userLock[tx[t].user] = t
     /\ epoch[tx[t].user] < MaxChanges
     /\ tx[t].pc = "rows" => mine \subseteq tx[t].done \cup tx[t].todo \cup {tx[t].want}
     /\ tx[t].pc \in {"links", "write"} => mine \subseteq tx[t].done

TxInv(t) == Shape(t) /\ DoneInv(t) /\ RotateInv(t) /\ RepeatInv(t) /\ PasswordInv(t)

UsersInv ==
  \A u \in Users : userLock[u] # None =>
    /\ tx[userLock[u]].kind = "password" /\ tx[userLock[u]].user = u
    /\ \A t \in Txs : ~Inserted(t, u)

\* Rows that were never inserted; families are begun by a login.
TokensInv ==
  /\ \A k \in rows : owner[k] \in Users
  /\ \A k \in Tokens : owner[k] # None => k < nextToken /\ owner[family[k]] # None
  /\ \A k \in Tokens : owner[k] = None =>
       family[k] = k /\ next[k] = NoToken /\ answers[k] = {} /\ k \notin consumed

OneActive == \A j, k \in Active : family[j] = family[k] => j = k

AnswersInv ==
  \A k \in Tokens :
    /\ answers[k] # {} => k \in consumed
    /\ next[k] # NoToken => answers[k] = {next[k]}
    /\ \E n \in Tokens \cup {NoToken} : answers[k] \subseteq {n}

IInv ==
  /\ TypeOK
  /\ \A t \in Txs : TxInv(t)
  /\ UsersInv
  /\ TokensInv
  /\ OneActive
  /\ AnswersInv
  /\ PasswordEndsSessions
=============================================================================
