------------------------- MODULE VerificationCodesInv -------------------------
(***************************************************************************)
(* The inductive invariant behind the theorems of VerificationCodes_proofs. *)
(***************************************************************************)
EXTENDS VerificationCodes

-----------------------------------------------------------------------------
(* What a transaction is doing                                             *)

MakingPcs == {"newuser", "delete", "rows", "insert", "key", "write"}

\* t has taken the number of a code and not committed it.
Makes(t) == tx[t].kind \in {"register", "resend", "forgot", "change"} /\ tx[t].pc \in MakingPcs

\* t is to insert, or has inserted, an account.
Creates(t) ==
  tx[t].new /\ tx[t].pc \in {"newuser", "delete", "rows", "insert", "link", "write"}

\* It has inserted it: it is in the unique index of users(email).
Claimed(t) == Creates(t) /\ tx[t].pc # "newuser"

\* t holds the row of its account, which it found by its address, not verified.
HoldsUnverified(t) ==
  \/ tx[t].kind \in {"register", "resend"} /\ ~tx[t].new /\ tx[t].pc \in MakingPcs
  \/ tx[t].kind = "verify" /\ tx[t].pc # "idle"
  \/ tx[t].kind = "social" /\ ~tx[t].new

Purges(t) == tx[t].kind = "purge"
Connects(t) == tx[t].kind = "connect"

Holds(t) == HoldsUnverified(t) \/ Purges(t) \/ Connects(t) \/ tx[t].pc = "index"

\* t holds the code it checks.
Checks(t) == tx[t].pc \in {"check", "reset", "move", "index"}

-----------------------------------------------------------------------------
(* What holds of each transaction                                          *)

\* Which kind of transaction is at which point.
Shape(t) ==
  LET k == tx[t].kind
  IN /\ tx[t].pc = "idle" => tx[t] = Idle
     /\ tx[t].pc = "newuser" => tx[t].new
     /\ tx[t].new => k \in {"register", "social"}
     /\ tx[t].pc \in {"delete", "rows"} =>
          k \in {"register", "resend", "forgot", "change", "clear", "cleanup", "purge"}
     /\ tx[t].pc = "rows" => tx[t].want \in Codes
     /\ tx[t].pc = "insert" => k \in {"register", "resend", "forgot", "change"}
     /\ tx[t].pc = "key" => k = "change"
     /\ tx[t].pc = "write" =>
          k \in {"register", "resend", "forgot", "change", "social", "connect",
                 "clear", "cleanup", "purge"}
     /\ tx[t].pc = "mail" => k \in {"register", "resend", "forgot", "change"}
     /\ tx[t].pc \in {"find", "load", "check"} => k \in {"verify", "reset", "confirm"}
     /\ tx[t].pc = "load" => tx[t].want \in Codes
     /\ tx[t].pc = "reset" => k = "reset"
     /\ tx[t].pc \in {"move", "index"} => k = "confirm"
     /\ tx[t].pc = "link" => k \in {"social", "connect"}
     /\ k \in {"verify", "reset", "confirm"} =>
          tx[t].pc \in {"find", "load", "check", "reset", "move", "index"}
     /\ k \in {"social", "connect"} => tx[t].pc \in {"newuser", "link", "write"}
     /\ k = "purge" => tx[t].pc \in {"delete", "rows", "write"}

\* The purpose, address and account a transaction has to do with.
Subject(t) ==
  LET k == tx[t].kind
  IN /\ k \in {"register", "resend"} =>
          tx[t].purpose = "REGISTER" /\ tx[t].email \in Emails /\ tx[t].user \in Users
     /\ k = "forgot" =>
          tx[t].purpose = "PASSWORD_RESET" /\ tx[t].email \in Emails /\ tx[t].user = None
     /\ k = "change" =>
          /\ tx[t].purpose = "EMAIL_CHANGE" /\ tx[t].email \in Emails
          /\ tx[t].user \in verified
     /\ k \in {"verify", "confirm", "social"} => tx[t].email \in Emails /\ tx[t].user \in Users
     /\ k = "reset" => tx[t].email \in Emails
     /\ tx[t].pc = "reset" => tx[t].user \in Users
     /\ k = "confirm" => tx[t].user \in verified
     /\ k \in {"social", "connect"} => tx[t].identity \in Identities

\* The account that t holds is as t found it.
HoldInv(t) ==
  LET u == tx[t].user
  IN /\ Holds(t) => u \in Users /\ userLock[u] = t
     /\ HoldsUnverified(t) => u \notin verified /\ addr[u] = tx[t].email
     /\ Purges(t) => u \notin verified /\ addr[u] # None
     /\ Connects(t) => u \in verified

\* The account that t makes is nobody else's, and when it is inserted its address
\* is nobody else's either.
CreateInv(t) ==
  /\ Creates(t) =>
       /\ tx[t].user \in Users /\ addr[tx[t].user] = None
       /\ \A s \in Txs \ {t} : tx[s].user # tx[t].user
  /\ Claimed(t) =>
       /\ UserOf(tx[t].email) = {}
       /\ \A s \in Txs \ {t} : Claimed(s) => tx[s].email # tx[t].email

\* The code that t makes is a new one; when it is inserted it is the only one for
\* its address and for its account.
MakeInv(t) ==
  LET c == tx[t].code
  IN /\ Makes(t) =>
          /\ c \in Codes /\ c < nextCode /\ c \notin rows
          /\ guesses[c] = 0 /\ uses[c] = 0
          /\ \A s \in Txs \ {t} : Makes(s) => tx[s].code # c
     /\ Inserting(t) =>
          /\ Collisions(t) = {}
          /\ \A s \in Txs \ {t} : Inserting(s) =>
               ~Collides(t, tx[s].purpose, tx[s].email, tx[s].user)

\* What a DELETE has visited stays locked until the commit; the one of a purge is on its
\* way to every code of the account.
DeleteInv(t) ==
  LET mine == {c \in rows : row[c].account = tx[t].user}
  IN /\ \A c \in tx[t].done : rowLock[c] = t
     /\ Purges(t) /\ tx[t].pc = "rows" => mine \subseteq tx[t].done \cup tx[t].todo \cup {tx[t].want}
     /\ Purges(t) /\ tx[t].pc = "write" => mine \subseteq tx[t].done

\* The code that t checks is still there, as t has read it.
CheckInv(t) ==
  LET c == tx[t].code
  IN Checks(t) => c \in rows /\ rowLock[c] = t /\ tx[t].seen = row[c].attempts

\* The identity that t has linked is nobody else's.
LinkInv(t) ==
  LET i == tx[t].identity
  IN Links(t, i) => LinkedTo(i) = {} /\ \A s \in Txs \ {t} : ~Links(s, i)

TxInv(t) ==
  /\ Shape(t) /\ Subject(t) /\ HoldInv(t) /\ CreateInv(t) /\ MakeInv(t)
  /\ DeleteInv(t) /\ CheckInv(t) /\ LinkInv(t)

-----------------------------------------------------------------------------
(* What holds of the rows                                                  *)

AccountsInv == (\A u \in verified : addr[u] # None) /\ AccountsAreUnique

\* The attempts of a code that is there are the wrong codes presented; a code not made
\* yet is in its first state.
CodesInv ==
  /\ \A c \in rows :
       /\ c < nextCode
       /\ row[c].purpose # "PASSWORD_RESET" => row[c].account \in Users
       /\ guesses[c] = row[c].attempts /\ uses[c] = 0
  /\ \A c \in Codes : c >= nextCode => guesses[c] = 0 /\ uses[c] = 0

IInv ==
  /\ TypeOK
  /\ \A t \in Txs : TxInv(t)
  /\ AccountsInv /\ CodesInv
  /\ CodeVerifiesItsPassword
  /\ AttemptsAreLimited
=============================================================================
