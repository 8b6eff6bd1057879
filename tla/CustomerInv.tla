----------------------------- MODULE CustomerInv -----------------------------
(***************************************************************************)
(* The inductive invariant behind the theorems of Customer_proofs.         *)
(***************************************************************************)
EXTENDS Customer

AddressKinds == {"create", "update", "delete"}
PictureKinds == {"profile", "slip"}

-----------------------------------------------------------------------------
(* What holds of each request                                              *)

\* Which kind of request is at which point, and with what in its record.
Shape(t) ==
  LET k == tx[t].kind
  IN /\ tx[t].pc \in {"idle", "discard"} => k = "none"
     /\ tx[t].pc \in {"owner", "rows"} => k \in AddressKinds
     /\ tx[t].pc \in {"pick", "place"} => k = "checkout"
     /\ tx[t].pc = "save" => k \in PictureKinds
     /\ tx[t].pc = "write" => k \in AddressKinds \cup PictureKinds
     /\ tx[t].pc = "cart" => k \in {"add", "set"}
     /\ k \in AddressKinds \cup {"checkout"} => tx[t].row \in Addresses
     /\ k \in {"create", "update"} => tx[t].content \in Contents
     /\ k \in {"create", "delete"} => tx[t].wish # "no"
     /\ k = "slip" => tx[t].row \in Orders /\ orders[tx[t].row] # None /\ tx[t].file # None
     /\ tx[t].pc = "discard" <=> k = "none" /\ tx[t].file # None
     /\ k \notin PictureKinds \cup {"none"} => tx[t].file = None
     /\ ~(k \in PictureKinds /\ tx[t].pc = "write") => tx[t].previous = None

\* t is past lock_address_owner: it holds the row of the customer.
Owns(t) == tx[t].kind \in AddressKinds /\ tx[t].pc \in {"rows", "write"}

\* t is about to commit changes of addresses.
Changes(t) == tx[t].kind \in AddressKinds /\ tx[t].pc = "write"

\* What t has read of the addresses is still so.
AddressInv(t) ==
  /\ Owns(t) => userLock = t
  /\ tx[t].kind = "create" =>
       /\ tx[t].row \notin Ids
       /\ \A s \in Txs \ {t} : tx[s].kind = "create" => tx[s].row # tx[t].row
  /\ Changes(t) => /\ Present(t)
                   /\ tx[t].default = Defaults(t) /\ tx[t].fallback = Replacement(t)
                   /\ tx[t].kind # "create" => addressLock[tx[t].row] = t

\* The address a checkout has read is still there, and says what it said.
CheckoutInv(t) ==
  tx[t].pc = "place" => /\ tx[t].row \in Ids /\ addressLock[tx[t].row] = t
                        /\ tx[t].content = Named(tx[t].row).content

\* The upsert of the cart goes by a stock there has been.
CartInv(t) == tx[t].n <= peak

-----------------------------------------------------------------------------
(* Pictures                                                                *)

Shown == {avatar} \cup Slips

\* t is about to replace a picture.
Replaces(t) == tx[t].kind \in PictureKinds /\ tx[t].pc = "write"

\* The file of t is in the store, nobody sees it and nobody else has it.
FileInv(t) ==
  tx[t].file # None =>
    /\ tx[t].file \in stored /\ tx[t].file \notin Shown
    /\ \A s \in Txs \ {t} : tx[s].file # tx[t].file

\* The picture t replaces is the one that is shown.
PreviousInv(t) ==
  Replaces(t) =>
    IF tx[t].kind = "profile" THEN userLock = t /\ tx[t].previous = avatar
                              ELSE /\ orderLock[tx[t].row] = t
                                   /\ tx[t].previous = orders[tx[t].row].slip

\* No picture is shown in two places.
ShownOnce ==
  /\ avatar # None => avatar \notin Slips
  /\ \A o, p \in Orders :
       orders[o] # None /\ orders[p] # None /\ orders[o].slip = orders[p].slip
         /\ orders[o].slip # None => o = p

PicturesInv ==
  ~unanswered => /\ \A t \in Txs : FileInv(t) /\ PreviousInv(t)
                 /\ ShownOnce

-----------------------------------------------------------------------------
IInv ==
  /\ TypeOK
  /\ \A t \in Txs : Shape(t) /\ AddressInv(t) /\ CheckoutInv(t) /\ CartInv(t)
  /\ OneDefault
  /\ unanswered => faults > 0
  /\ PicturesInv /\ PicturesExist /\ NoFileIsForgotten
  /\ CartIsCovered
=============================================================================
