---------------------------- MODULE SlugDirectory ----------------------------
(***************************************************************************)
(* What the public lookup by slug promises of one kind of row (products,   *)
(* or categories), whatever requests run at the same time:                 *)
(*                                                                         *)
(*   - the canonical slug of a row leads to that row;                      *)
(*   - a slug that leads to a row leads to the same row for ever, whatever *)
(*     slug that row has by then, until the row is deleted;                *)
(*   - a row is given no slug that leads to another row;                   *)
(*   - giving a row a slug touches no link but that slug's, and a deletion *)
(*     none but those of the deleted row.                                  *)
(***************************************************************************)
CONSTANTS Rows, Slugs, None

VARIABLES
  canonical,  \* the slug of each row, None if there is no such row
  leads       \* the row each slug leads to, or None

vars == <<canonical, leads>>

Init == canonical = [r \in Rows |-> None] /\ leads = [s \in Slugs |-> None]

\* Row r is created with slug s, or renamed: its old slug still leads to it.
Publish(r, s) ==
  /\ leads[s] \in {None, r}
  /\ canonical' = [canonical EXCEPT ![r] = s]
  /\ leads' = [leads EXCEPT ![s] = r]

\* Row r is deleted, with the links that led to it.
Delete(r) ==
  /\ canonical[r] # None
  /\ canonical' = [canonical EXCEPT ![r] = None]
  /\ leads' = [s \in Slugs |-> IF leads[s] = r THEN None ELSE leads[s]]

Next == \E r \in Rows : (\E s \in Slugs : Publish(r, s)) \/ Delete(r)

Spec == Init /\ [][Next]_vars
=============================================================================
