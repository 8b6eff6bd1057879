----------------------------- MODULE MCCatalogue -----------------------------
(* Instances of Catalogue for TLC. *)
EXTENDS CatalogueInv, TLC

CONSTANTS c1, c2, p1, p2, t1, t2

\* "A 2" has the slug that "A" gets when "a" is taken.
SlugsOfNames ==
  [x \in {"A", "A 2"} |->
     IF x = "A" THEN <<"a", "a-2", "a-3", "a-4", "a-5">>
                ELSE <<"a-2", "a-2-2", "a-2-3", "a-2-4", "a-2-5">>]

AllSlugs == {"a", "a-2", "a-3", "a-4", "a-5", "a-2-2", "a-2-3", "a-2-4", "a-2-5"}
=============================================================================
