-------------------------- MODULE VerificationCodes --------------------------
(***************************************************************************)
(* The codes of email_verifications, the columns of users they decide, and *)
(* the transactions over both (READ COMMITTED):                            *)
(*                                                                         *)
(*   auth/service.rs        create_email_verification, resend, verify,     *)
(*                          request_password_reset, reset_password,        *)
(*                          resolve_social_user, link_social_identity      *)
(*   user/service.rs        request_email_change, verify_email_change      *)
(*   auth/handler.rs,                                                      *)
(*   user/handler.rs        the e-mail after the commit, and the clearing  *)
(*                          of the code when it cannot be sent             *)
(*   shared/maintenance.rs  expired codes, accounts never verified         *)
(*                                                                         *)
(* A code is named by its row; whether a presented code is the right one   *)
(* is the presenter's choice.  A password is named by the code made with   *)
(* it (0: chosen in some other way).                                       *)
(***************************************************************************)
EXTENDS Integers, FiniteSets

CONSTANTS
  Users, Emails, Txs,
  Identities,    \* the accounts at one provider of social logins
  Established,   \* the verified accounts at the start: their addresses
  MaxAttempts,   \* MAX_EMAIL_VERIFICATION_ATTEMPTS
  MaxCodes,      \* bound: codes ever made
  MaxClock,      \* bound: expired codes and old accounts at one time
  MaxFaults,     \* bound: transactions lost to a crash or a lost connection
  None

Purposes == {"REGISTER", "PASSWORD_RESET", "EMAIL_CHANGE"}
Codes == 1 .. MaxCodes
NoCode == 0

ASSUME NoneAssumption == None \notin Txs \cup Users \cup Emails \cup Identities
ASSUME EstablishedAssumption ==
  /\ DOMAIN Established \subseteq Users
  /\ \A u \in DOMAIN Established : Established[u] \in Emails
  /\ \A u, v \in DOMAIN Established : Established[u] = Established[v] => u = v
ASSUME BoundAssumption ==
  /\ MaxAttempts \in Nat \ {0} /\ MaxCodes \in Nat /\ MaxClock \in Nat /\ MaxFaults \in Nat

VARIABLES
  addr,       \* users.email, None when there is no such account
  verified,   \* the accounts with is_verified
  password,
  old,        \* accounts not updated for UNVERIFIED_USER_RETENTION_DAYS
  linked,     \* account_providers: the identity of each account at the provider, or None
  row,        \* email_verifications
  guesses,    \* history: wrong codes presented against each code
  uses,       \* history: how often each code was accepted
  userLock,   \* the transaction holding a users row FOR UPDATE, or None
  rowLock,    \* the transaction holding a code, or None
  tx, nextCode, faults

userVars == <<addr, verified, password, old, linked>>
codeVars == <<row, guesses, uses>>
vars == <<addr, verified, password, old, linked, row, guesses, uses, userLock, rowLock, tx,
          nextCode, faults>>

\* madeFor is history: the password the account had when the code was made.
CodeRow ==
  [purpose : Purposes, email : Emails, account : Users \cup {None},
   attempts : 0 .. MaxAttempts - 1, expired : BOOLEAN, madeFor : Codes \cup {NoCode}]

NoRow == [purpose |-> "none", email |-> None, account |-> None, attempts |-> 0,
          expired |-> FALSE, madeFor |-> NoCode]

rows == {c \in Codes : row[c] # NoRow}

\* What a DELETE of the rows S leaves.
Without(S) == [c \in Codes |-> IF c \in S THEN NoRow ELSE row[c]]

Idle == [pc |-> "idle", kind |-> "none", purpose |-> "none", user |-> None, email |-> None,
         identity |-> None, new |-> FALSE, code |-> NoCode, seen |-> 0, want |-> NoCode,
         todo |-> {}, done |-> {}]

(***************************************************************************)
(* pc = "newuser": the users row is to be inserted; "delete": the rows of  *)
(* a DELETE are to be chosen; "rows": it is at row want, with todo to come *)
(* and done deleted; "insert": the code is to be inserted, "key": its      *)
(* foreign key checked; "write": only the commit is left; "mail": it is    *)
(* committed and its e-mail on the way; "find", "load": the code to check  *)
(* is to be found and locked; "check": its fate decided; "reset", "move":  *)
(* the users row is to be locked; "index": the new address to be entered;  *)
(* "link": the identity of a social login to be linked with the account.   *)
(***************************************************************************)
TxState ==
  [pc : {"idle", "newuser", "delete", "rows", "insert", "key", "write", "mail",
         "find", "load", "check", "reset", "move", "index", "link"},
   kind : {"none", "register", "resend", "forgot", "change", "verify", "reset", "confirm",
           "clear", "cleanup", "purge", "social", "connect"},
   purpose : Purposes \cup {"none"}, user : Users \cup {None}, email : Emails \cup {None},
   identity : Identities \cup {None}, new : BOOLEAN,
   code : Codes \cup {NoCode}, seen : 0 .. MaxAttempts,
   want : Codes \cup {NoCode}, todo : SUBSET Codes, done : SUBSET Codes]

TypeOK ==
  /\ addr \in [Users -> Emails \cup {None}]
  /\ verified \subseteq Users /\ old \subseteq Users
  /\ password \in [Users -> Codes \cup {NoCode}]
  /\ linked \in [Users -> Identities \cup {None}]
  /\ row \in [Codes -> CodeRow \cup {NoRow}]
  /\ guesses \in [Codes -> Nat] /\ uses \in [Codes -> Nat]
  /\ userLock \in [Users -> Txs \cup {None}]
  /\ rowLock \in [Codes -> Txs \cup {None}]
  /\ tx \in [Txs -> TxState]
  /\ nextCode \in 1 .. MaxCodes + 1
  /\ faults \in 0 .. MaxFaults

Init ==
  /\ addr = [u \in Users |-> IF u \in DOMAIN Established THEN Established[u] ELSE None]
  /\ verified = DOMAIN Established
  /\ password = [u \in Users |-> NoCode]
  /\ old = {}
  /\ linked = [u \in Users |-> None]
  /\ row = [c \in Codes |-> NoRow]
  /\ guesses = [c \in Codes |-> 0] /\ uses = [c \in Codes |-> 0]
  /\ userLock = [u \in Users |-> None]
  /\ rowLock = [c \in Codes |-> None]
  /\ tx = [t \in Txs |-> Idle]
  /\ nextCode = 1
  /\ faults = 0

-----------------------------------------------------------------------------
(* Locks                                                                   *)

Release(t) ==
  /\ userLock' = [u \in Users |-> IF userLock[u] = t THEN None ELSE userLock[u]]
  /\ rowLock' = [c \in Codes |-> IF rowLock[c] = t THEN None ELSE rowLock[c]]

End(t) == Release(t) /\ tx' = [tx EXCEPT ![t] = Idle]

Rollback(t) == End(t) /\ UNCHANGED <<userVars, codeVars, nextCode>>

\* t moves on; nothing is committed.
Goto(t, record) ==
  /\ tx' = [tx EXCEPT ![t] = record]
  /\ UNCHANGED <<userVars, codeVars, faults>>

\* The foreign key of an inserted code holds its users row FOR KEY SHARE.
Shares(s, u) == tx[s].kind = "change" /\ tx[s].pc = "write" /\ tx[s].user = u

UserHolders(t, u) ==
  ({userLock[u]} \cup {s \in Txs : Shares(s, u)}) \ {t, None}

\* Uncommitted changes of the unique indexes: of users(email), ...
Claims(s, e) ==
  \/ tx[s].new /\ tx[s].email = e /\ tx[s].pc \in {"delete", "rows", "insert", "link", "write"}
  \/ tx[s].kind = "purge" /\ addr[tx[s].user] = e
  \/ tx[s].pc = "index" /\ addr[tx[s].user] = e

\* ... of email_verifications(purpose, email) and (purpose, user_id).
Collides(t, p, e, u) ==
  tx[t].purpose = p /\ (tx[t].email = e \/ (u # None /\ tx[t].user = u))

\* ... of account_providers(provider_name, provider_id).
Links(s, i) == tx[s].kind \in {"social", "connect"} /\ tx[s].pc = "write" /\ tx[s].identity = i

Inserting(s) ==
  tx[s].kind \in {"register", "resend", "forgot", "change"} /\ tx[s].pc \in {"key", "write"}

Collisions(t) == {c \in rows \ tx[t].done : Collides(t, row[c].purpose, row[c].email, row[c].account)}

WaitsFor(t) ==
  CASE tx[t].pc \in {"load", "rows"} -> {rowLock[tx[t].want]} \ {t, None}
    [] tx[t].pc \in {"newuser", "index"} -> {s \in Txs \ {t} : Claims(s, tx[t].email)}
    [] tx[t].pc = "insert" ->
         {s \in Txs \ {t} :
            \/ Inserting(s) /\ Collides(t, tx[s].purpose, tx[s].email, tx[s].user)
            \/ Collisions(t) \cap tx[s].done # {}}
    [] tx[t].pc = "key" -> {userLock[tx[t].user]} \ {t, None}
    [] tx[t].pc \in {"reset", "move"} -> UserHolders(t, tx[t].user)
    [] tx[t].pc = "link" -> {s \in Txs \ {t} : Links(s, tx[t].identity)}
    [] OTHER -> {}

Blocked(t) == WaitsFor(t) # {}

-----------------------------------------------------------------------------
(* Making a code                                                           *)

UserOf(e) == {u \in Users : addr[u] = e}

\* Mutant of Taken: a unique index WHERE is_verified.
TakenVerified(e, u) == (UserOf(e) \cap verified) \ {u} # {}

Taken(e, u) == UserOf(e) \ {u} # {}

\* SELECT ... FROM users WHERE email = $1 FOR UPDATE.
LockUser(t, u, record) ==
  /\ tx[t].pc = "idle"
  /\ UserHolders(t, u) = {}
  /\ userLock' = [userLock EXCEPT ![u] = t]
  /\ Goto(t, record)
  /\ UNCHANGED rowLock

NewCode == nextCode <= MaxCodes /\ nextCode' = nextCode + 1

Making(kind, p, u, e) ==
  [Idle EXCEPT !.pc = "delete", !.kind = kind, !.purpose = p, !.user = u, !.email = e,
               !.code = nextCode]

\* There is none: one is to be inserted.
NewUser(t, e, record) ==
  /\ tx[t].pc = "idle" /\ UserOf(e) = {}
  /\ \E u \in UserOf(None) :
       /\ \A s \in Txs : tx[s].user # u
       /\ Goto(t, [record EXCEPT !.pc = "newuser", !.new = TRUE, !.user = u])
  /\ UNCHANGED <<userLock, rowLock>>

\* create_email_verification: the account exists and is not verified, or a new
\* one is made; resend_email_verification: it exists.
BeginRegister(t, e) ==
  /\ NewCode
  /\ \/ \E u \in UserOf(e) \ verified : LockUser(t, u, Making("register", "REGISTER", u, e))
     \/ NewUser(t, e, Making("register", "REGISTER", None, e))

BeginResend(t, e) ==
  /\ NewCode
  /\ \E u \in UserOf(e) \ verified : LockUser(t, u, Making("resend", "REGISTER", u, e))

\* request_password_reset reads the account before its transaction.
BeginForgot(t, e) ==
  /\ NewCode /\ tx[t].pc = "idle" /\ UserOf(e) \cap verified # {}
  /\ Goto(t, Making("forgot", "PASSWORD_RESET", None, e))
  /\ UNCHANGED <<userLock, rowLock>>

\* So does request_email_change.
BeginChange(t, u, e) ==
  /\ NewCode /\ tx[t].pc = "idle" /\ u \in verified /\ UserOf(e) = {}
  /\ Goto(t, Making("change", "EMAIL_CHANGE", u, e))
  /\ UNCHANGED <<userLock, rowLock>>

\* INSERT INTO users: the address may have been taken since the SELECT.
InsertUser(t) ==
  /\ tx[t].pc = "newuser" /\ ~Blocked(t)
  /\ \/ /\ Taken(tx[t].email, tx[t].user)
        /\ Rollback(t) /\ UNCHANGED faults
     \/ /\ ~Taken(tx[t].email, tx[t].user)
        /\ Goto(t, [tx[t] EXCEPT !.pc = IF tx[t].kind = "social" THEN "link" ELSE "delete"])
        /\ UNCHANGED <<userLock, rowLock, nextCode>>

\* Mutant of Expired: joined with users, which drops the codes without an account.
ExpiredOfAccounts == {c \in rows : row[c].expired /\ row[c].account # None}

Expired == {c \in rows : row[c].expired}

\* The rows a DELETE finds when it starts.
Matching(t) ==
  CASE tx[t].kind = "cleanup" -> Expired
    [] tx[t].kind = "purge" -> {c \in rows : row[c].account = tx[t].user}
    [] tx[t].kind = "clear" ->
         {c \in rows : /\ row[c].purpose = tx[t].purpose /\ row[c].email = tx[t].email
                       /\ tx[t].user \in {None, row[c].account}}
    [] OTHER -> {c \in rows : Collides(t, row[c].purpose, row[c].email, row[c].account)}

\* The DELETE goes on to one of the rows S, or is over.
Visit(t, record, S) ==
  LET over == IF record.kind \in {"clear", "cleanup", "purge"} THEN "write" ELSE "insert"
  IN \/ S = {} /\ Goto(t, [record EXCEPT !.pc = over, !.want = NoCode, !.todo = {}])
     \/ \E c \in S : Goto(t, [record EXCEPT !.pc = "rows", !.want = c, !.todo = S \ {c}])

Delete(t) ==
  /\ tx[t].pc = "delete"
  /\ Visit(t, tx[t], Matching(t))
  /\ UNCHANGED <<userLock, rowLock, nextCode>>

\* It locks its current row, or skips it: deleted in the meantime.
TakeRow(t) ==
  LET c == tx[t].want
  IN /\ tx[t].pc = "rows" /\ ~Blocked(t)
     /\ rowLock' = [rowLock EXCEPT ![c] = IF c \in rows THEN t ELSE @]
     /\ Visit(t, [tx[t] EXCEPT !.done = @ \cup ({c} \cap rows)], tx[t].todo)
     /\ UNCHANGED <<userLock, nextCode>>

\* INSERT: fails when another request has made a code since the DELETE.
InsertCode(t) ==
  /\ tx[t].pc = "insert" /\ ~Blocked(t)
  /\ \/ /\ Collisions(t) # {}
        /\ Rollback(t) /\ UNCHANGED faults
     \/ /\ Collisions(t) = {}
        /\ Goto(t, [tx[t] EXCEPT !.pc = IF tx[t].kind = "change" THEN "key" ELSE "write"])
        /\ UNCHANGED <<userLock, rowLock, nextCode>>

CheckKey(t) ==
  /\ tx[t].pc = "key" /\ ~Blocked(t)
  /\ Goto(t, [tx[t] EXCEPT !.pc = "write"])
  /\ UNCHANGED <<userLock, rowLock, nextCode>>

PasswordAfter(t) ==
  CASE tx[t].kind = "register" -> tx[t].code
    [] tx[t].user # None -> password[tx[t].user]
    [] OTHER -> NoCode

\* Mutant of Replaced: a pending code of the account is kept, and sent again.
ReplacedByOld(t) ==
  IF tx[t].done = {} THEN tx[t].code ELSE CHOOSE c \in tx[t].done : TRUE

\* The code that is pending after the transaction.
Replaced(t) == tx[t].code

CommitCode(t) ==
  LET n == Replaced(t)
      u == tx[t].user
      made == [purpose |-> tx[t].purpose, email |-> tx[t].email, account |-> u, attempts |-> 0,
               expired |-> FALSE, madeFor |-> PasswordAfter(t)]
  IN /\ Inserting(t) /\ tx[t].pc = "write"
     /\ row' = IF n \in rows THEN row ELSE [Without(tx[t].done) EXCEPT ![n] = made]
     /\ addr' = IF tx[t].new THEN [addr EXCEPT ![u] = tx[t].email] ELSE addr
     /\ password' = IF u = None THEN password ELSE [password EXCEPT ![u] = PasswordAfter(t)]
     /\ old' = IF tx[t].purpose = "REGISTER" THEN old \ {u} ELSE old
     /\ Release(t)
     /\ tx' = [tx EXCEPT ![t] = [@ EXCEPT !.pc = "mail", !.done = {}]]
     /\ UNCHANGED <<verified, linked, guesses, uses, nextCode, faults>>

\* The e-mail is sent, or cannot be and what is pending for the address is
\* cleared - whoever made it.  A resend clears nothing.
Mail(t) ==
  /\ tx[t].pc = "mail"
  /\ \/ Goto(t, Idle)
     \/ /\ tx[t].kind # "resend"
        /\ Goto(t, [Idle EXCEPT !.pc = "delete", !.kind = "clear", !.purpose = tx[t].purpose,
                      !.email = tx[t].email,
                      !.user = IF tx[t].kind = "change" THEN tx[t].user ELSE None])
  /\ UNCHANGED <<userLock, rowLock, nextCode>>

-----------------------------------------------------------------------------
(* Checking a code                                                         *)

Pending(p, e, u) ==
  {c \in rows : row[c].purpose = p /\ row[c].email = e /\ row[c].account = u}

Checking(kind, p, u, e) ==
  [Idle EXCEPT !.pc = "find", !.kind = kind, !.purpose = p, !.user = u, !.email = e]

BeginVerify(t, e) ==
  /\ \E u \in UserOf(e) \ verified : LockUser(t, u, Checking("verify", "REGISTER", u, e))
  /\ UNCHANGED nextCode

\* reset_password, verify_email_change: without a code nothing happens.
BeginCheck(t, e) ==
  /\ tx[t].pc = "idle"
  /\ \/ Pending("PASSWORD_RESET", e, None) # {}
        /\ Goto(t, Checking("reset", "PASSWORD_RESET", None, e))
     \/ \E u \in verified :
          Pending("EMAIL_CHANGE", e, u) # {} /\ Goto(t, Checking("confirm", "EMAIL_CHANGE", u, e))
  /\ UNCHANGED <<userLock, rowLock, nextCode>>

\* SELECT ... WHERE email = $1 AND purpose = $2 ... FOR UPDATE.
Find(t) ==
  LET S == Pending(tx[t].purpose, tx[t].email, tx[t].user)
  IN /\ tx[t].pc = "find"
     /\ \/ S = {} /\ Rollback(t) /\ UNCHANGED faults
        \/ /\ \E c \in S : Goto(t, [tx[t] EXCEPT !.pc = "load", !.want = c])
           /\ UNCHANGED <<userLock, rowLock, nextCode>>

\* Mutant of CodeFree: SELECT without FOR UPDATE.
CodeRead(t) == TRUE

CodeFree(t) == ~Blocked(t)

Load(t) ==
  LET c == tx[t].want
  IN /\ tx[t].pc = "load" /\ CodeFree(t)
     /\ \/ c \notin rows /\ Rollback(t) /\ UNCHANGED faults
        \/ /\ c \in rows
           /\ rowLock' = [rowLock EXCEPT ![c] = t]
           /\ Goto(t, [tx[t] EXCEPT !.pc = "check", !.code = c, !.want = NoCode,
                                    !.seen = row[c].attempts])
           /\ UNCHANGED <<userLock, nextCode>>

\* The code is deleted and the request refused.
Discard(t) ==
  /\ row' = Without({tx[t].code})
  /\ End(t)
  /\ UNCHANGED <<userVars, uses, nextCode, faults>>

Refuse(t) ==
  /\ tx[t].pc = "check"
  /\ row[tx[t].code].expired \/ tx[t].seen >= MaxAttempts
  /\ Discard(t) /\ UNCHANGED guesses

\* Mutant of Exhausted: one more attempt than allowed.
ExhaustedLater(n) == n > MaxAttempts

Exhausted(n) == n >= MaxAttempts

\* The committed transaction counts the attempt, or deletes the code.
Wrong(t) ==
  LET c == tx[t].code
  IN /\ tx[t].pc = "check" /\ ~row[c].expired /\ tx[t].seen < MaxAttempts
     /\ guesses' = [guesses EXCEPT ![c] = @ + 1]
     /\ \/ Exhausted(tx[t].seen + 1) /\ Discard(t)
        \/ /\ ~Exhausted(tx[t].seen + 1)
           /\ row' = [row EXCEPT ![c] = IF c \in rows THEN [@ EXCEPT !.attempts = tx[t].seen + 1] ELSE @]
           /\ End(t)
           /\ UNCHANGED <<userVars, uses, nextCode, faults>>

\* The code is right: it is deleted with the change it allows.
Accept(t) ==
  /\ row' = Without({tx[t].code})
  /\ uses' = [uses EXCEPT ![tx[t].code] = @ + 1]
  /\ old' = old \ {tx[t].user}
  /\ End(t)
  /\ UNCHANGED <<linked, guesses, nextCode, faults>>

Right(t) ==
  LET taken == UserOf(tx[t].email)
  IN /\ tx[t].pc = "check" /\ ~row[tx[t].code].expired /\ tx[t].seen < MaxAttempts
     /\ \/ /\ tx[t].kind = "verify"
           /\ verified' = verified \cup {tx[t].user}
           /\ Accept(t) /\ UNCHANGED <<addr, password>>
        \/ /\ tx[t].kind = "reset" /\ taken = {}
           /\ Rollback(t) /\ UNCHANGED faults
        \/ /\ tx[t].kind = "reset"
           /\ \E u \in taken : Goto(t, [tx[t] EXCEPT !.pc = "reset", !.user = u])
           /\ UNCHANGED <<userLock, rowLock, nextCode>>
        \/ /\ tx[t].kind = "confirm" /\ taken \ {tx[t].user} # {}
           /\ Discard(t) /\ UNCHANGED guesses
        \/ /\ tx[t].kind = "confirm" /\ taken \ {tx[t].user} = {}
           /\ Goto(t, [tx[t] EXCEPT !.pc = "move"])
           /\ UNCHANGED <<userLock, rowLock, nextCode>>

\* The account is locked, then given its new password - unless its address has
\* changed meanwhile, it is not verified, or the password is the old one.
ResetPassword(t) ==
  LET u == tx[t].user
  IN /\ tx[t].pc = "reset" /\ ~Blocked(t)
     /\ \/ Rollback(t) /\ UNCHANGED faults
        \/ /\ addr[u] = tx[t].email /\ u \in verified
           /\ password' = [password EXCEPT ![u] = NoCode]
           /\ Accept(t) /\ UNCHANGED <<addr, verified>>

\* UPDATE users SET email: the row first, then the unique index.
LockMove(t) ==
  /\ tx[t].pc = "move" /\ ~Blocked(t)
  /\ userLock' = [userLock EXCEPT ![tx[t].user] = t]
  /\ Goto(t, [tx[t] EXCEPT !.pc = "index"])
  /\ UNCHANGED <<rowLock, nextCode>>

Move(t) ==
  LET u == tx[t].user
  IN /\ tx[t].pc = "index" /\ ~Blocked(t)
     /\ \/ Taken(tx[t].email, u) /\ Rollback(t) /\ UNCHANGED faults
        \/ /\ ~Taken(tx[t].email, u)
           /\ addr' = [addr EXCEPT ![u] = tx[t].email]
           /\ verified' = verified \cup {u}
           /\ Accept(t) /\ UNCHANGED password

-----------------------------------------------------------------------------
(* Social login                                                            *)

LinkedTo(i) == {u \in Users : linked[u] = i}

LoggingIn(i, e) == [Idle EXCEPT !.pc = "link", !.kind = "social", !.email = e, !.identity = i]

\* Mutant of BeginSocial: the account is read, not locked.
ReadSocial(t, i, e) ==
  /\ LinkedTo(i) = {}
  /\ tx[t].pc = "idle"
  /\ \/ /\ \E u \in UserOf(e) \ verified : Goto(t, [LoggingIn(i, e) EXCEPT !.user = u])
        /\ UNCHANGED <<userLock, rowLock>>
     \/ NewUser(t, e, LoggingIn(i, e))
  /\ UNCHANGED nextCode

\* resolve_social_user with identity i, whose address is e: the account with the
\* address, not verified, is to be linked, a missing one made.  Other logins change
\* nothing: a linked account is verified (AccountsAreUnique), one that is verified and
\* not linked is refused.
BeginSocial(t, i, e) ==
  /\ LinkedTo(i) = {}
  /\ \/ \E u \in UserOf(e) \ verified : LockUser(t, u, [LoggingIn(i, e) EXCEPT !.user = u])
     \/ NewUser(t, e, LoggingIn(i, e))
  /\ UNCHANGED nextCode

\* link_social_identity: the user, logged in and so verified, links its account.
BeginConnect(t, u, i) ==
  /\ u \in verified /\ linked[u] = None /\ LinkedTo(i) = {}
  /\ LockUser(t, u, [Idle EXCEPT !.pc = "link", !.kind = "connect", !.user = u, !.identity = i])
  /\ UNCHANGED nextCode

\* Mutant of Linked: the identities are not unique.
LinkedNever(i) == FALSE

Linked(i) == LinkedTo(i) # {}

\* insert_provider_link: refused when another request has linked the identity.
InsertLink(t) ==
  /\ tx[t].pc = "link" /\ ~Blocked(t)
  /\ \/ Linked(tx[t].identity) /\ Rollback(t) /\ UNCHANGED faults
     \/ /\ ~Linked(tx[t].identity)
        /\ Goto(t, [tx[t] EXCEPT !.pc = "write"])
        /\ UNCHANGED <<userLock, rowLock, nextCode>>

\* The account is made or marked verified, with its link.
CommitLink(t) ==
  LET u == tx[t].user
  IN /\ tx[t].kind \in {"social", "connect"} /\ tx[t].pc = "write"
     /\ addr' = IF tx[t].new THEN [addr EXCEPT ![u] = tx[t].email] ELSE addr
     /\ password' = IF tx[t].new THEN [password EXCEPT ![u] = NoCode] ELSE password
     /\ verified' = verified \cup {u}
     /\ linked' = [linked EXCEPT ![u] = tx[t].identity]
     /\ old' = old \ {u}
     /\ End(t)
     /\ UNCHANGED <<codeVars, nextCode, faults>>

-----------------------------------------------------------------------------
(* The cleanup worker, the clock, failures                                 *)

BeginCleanup(t) ==
  /\ tx[t].pc = "idle" /\ Expired # {}
  /\ Goto(t, [Idle EXCEPT !.pc = "delete", !.kind = "cleanup"])
  /\ UNCHANGED <<userLock, rowLock, nextCode>>

\* Mutant of BeginPurge: the accounts are selected first, then deleted by id.
PurgeSelected(t, u) ==
  /\ u \in old \ verified /\ addr[u] # None /\ tx[t].pc = "idle"
  /\ Goto(t, [Idle EXCEPT !.pc = "delete", !.kind = "purge", !.user = u])
  /\ UNCHANGED <<userLock, rowLock, nextCode>>

\* DELETE FROM users WHERE is_verified = FALSE AND updated_at <= ..., one account
\* at a time; its codes and its link follow (ON DELETE CASCADE).
BeginPurge(t, u) ==
  /\ u \in old \ verified /\ addr[u] # None
  /\ LockUser(t, u, [Idle EXCEPT !.pc = "delete", !.kind = "purge", !.user = u])
  /\ UNCHANGED nextCode

CommitDelete(t) ==
  /\ tx[t].kind \in {"clear", "cleanup", "purge"} /\ tx[t].pc = "write"
  /\ row' = Without(tx[t].done)
  /\ addr' = [u \in Users |->
                IF tx[t].kind = "purge" /\ u = tx[t].user THEN None ELSE addr[u]]
  /\ old' = IF tx[t].kind = "purge" THEN old \ {tx[t].user} ELSE old
  /\ linked' = IF tx[t].kind = "purge" THEN [linked EXCEPT ![tx[t].user] = None] ELSE linked
  /\ End(t)
  /\ UNCHANGED <<verified, password, guesses, uses, nextCode, faults>>

Ticks == Cardinality(Expired) + Cardinality(old)

Expire(c) ==
  /\ c \in rows /\ ~row[c].expired /\ Ticks < MaxClock
  /\ row' = [row EXCEPT ![c].expired = TRUE]
  /\ UNCHANGED <<userVars, guesses, uses, userLock, rowLock, tx, nextCode, faults>>

GrowOld(u) ==
  /\ addr[u] # None /\ u \notin old \cup verified /\ Ticks < MaxClock
  /\ old' = old \cup {u}
  /\ UNCHANGED <<addr, verified, password, linked, codeVars, userLock, rowLock, tx, nextCode, faults>>

\* Each waits for one of the others.
Deadlocked(C) == C # {} /\ \A t \in C : WaitsFor(t) \cap C # {}

DeadlockVictim(t) ==
  /\ Blocked(t)
  /\ \E C \in SUBSET Txs :
       /\ t \in C /\ Deadlocked(C)
       /\ \A D \in SUBSET C \ {C} : ~Deadlocked(D)
  /\ Rollback(t)
  /\ UNCHANGED faults

Abort(t) ==
  /\ tx[t].pc # "idle"
  /\ faults < MaxFaults
  /\ faults' = faults + 1
  /\ Rollback(t)

\* The bound on codes is reached and every request has ended.
Quiescent ==
  /\ nextCode > MaxCodes
  /\ \A t \in Txs : tx[t].pc = "idle"
  /\ UNCHANGED vars

-----------------------------------------------------------------------------
Make(t) ==
  InsertUser(t) \/ Delete(t) \/ TakeRow(t) \/ InsertCode(t) \/ CheckKey(t) \/ CommitCode(t)

Decide(t) ==
  \/ Find(t) \/ Load(t) \/ Refuse(t) \/ Wrong(t) \/ Right(t)
  \/ ResetPassword(t) \/ LockMove(t) \/ Move(t)

Step(t) ==
  \/ Make(t) \/ Mail(t) \/ Decide(t)
  \/ InsertLink(t) \/ CommitLink(t)
  \/ CommitDelete(t)

Next ==
  \/ \E t \in Txs, e \in Emails : BeginRegister(t, e)
  \/ \E t \in Txs, e \in Emails : BeginResend(t, e)
  \/ \E t \in Txs, e \in Emails : BeginForgot(t, e)
  \/ \E t \in Txs, u \in Users, e \in Emails : BeginChange(t, u, e)
  \/ \E t \in Txs, e \in Emails : BeginVerify(t, e)
  \/ \E t \in Txs, e \in Emails : BeginCheck(t, e)
  \/ \E t \in Txs, i \in Identities, e \in Emails : BeginSocial(t, i, e)
  \/ \E t \in Txs, u \in Users, i \in Identities : BeginConnect(t, u, i)
  \/ \E t \in Txs : BeginCleanup(t)
  \/ \E t \in Txs, u \in Users : BeginPurge(t, u)
  \/ \E t \in Txs : Step(t)
  \/ \E c \in Codes : Expire(c)
  \/ \E u \in Users : GrowOld(u)
  \/ \E t \in Txs : DeadlockVictim(t)
  \/ \E t \in Txs : Abort(t)
  \/ Quiescent

Spec == Init /\ [][Next]_vars

(* As in OrderStock: waiters of a row are queued, deadlocks are detected, and the *)
(* interval of the cleanup worker ticks for ever.                                 *)
Fairness ==
  /\ \A t \in Txs : SF_vars(Step(t))
  /\ WF_vars(\E t \in Txs : DeadlockVictim(t))
  /\ SF_vars(\E t \in Txs : BeginCleanup(t))

FairSpec == Spec /\ Fairness

-----------------------------------------------------------------------------
(* Properties                                                              *)

\* The code of an account that is not verified yet turns on the account as it is
\* now: with the password of the request that made the code (or that it was sent
\* again for), under the address it was sent to - whoever registers, resends,
\* verifies, logs in with a provider or is purged at the same time.
CodeVerifiesItsPassword ==
  \A c \in rows :
    LET u == row[c].account
    IN row[c].purpose = "REGISTER" /\ u \notin verified =>
         row[c].madeFor = password[u] /\ addr[u] = row[c].email

\* Registrations, e-mail changes and social logins that race for an address leave
\* it with one account; logins and link requests that race for an identity leave it
\* with one account, which is verified: resolve_social_user never has one to verify
\* that it finds by its link, and the purge, which takes links along, spares it.
AccountsAreUnique ==
  /\ \A u, v \in Users : addr[u] = addr[v] /\ addr[u] # None => u = v
  /\ \A u, v \in Users : linked[u] = linked[v] /\ linked[u] # None => u = v
  /\ \A u \in Users : linked[u] # None => u \in verified /\ addr[u] # None

\* MAX_EMAIL_VERIFICATION_ATTEMPTS is a limit, also for codes presented at the
\* same time: as many wrong ones and the right one is refused as well.
AttemptsAreLimited ==
  \A c \in Codes : guesses[c] <= MaxAttempts /\ (guesses[c] = MaxAttempts => uses[c] = 0)

\* A code is accepted once (API_DOCS.md:392), by one of the requests presenting it,
\* and not after it was replaced (API_DOCS.md:272), cleared or refused.
DeletedCodesStayDead == [][\A c \in Codes : uses'[c] # uses[c] => c \in rows]_vars

\* The purge of old accounts takes none that a request verifies at the same time.
VerifiedAccountsStay == [][\A u \in verified : addr'[u] # None]_vars

\* An account that is verified already is linked by its own user only, never by
\* a social login that brings the same address (API_DOCS.md:411), not even when a
\* code verifies it at that moment.
OwnersLink ==
  [][\A u \in verified : linked'[u] # linked[u] =>
       \E t \in Txs : tx[t].kind = "connect" /\ tx[t].user = u]_vars

\* The worker reaches every expired code, whatever requests hold it meanwhile.
ExpiredCodesGo == \A c \in Codes : []<>~row[c].expired
=============================================================================
