------------------------- MODULE MCVerificationCodes -------------------------
(* Instances of VerificationCodes for TLC. *)
EXTENDS VerificationCodesInv, TLC

CONSTANTS t1, t2, t3, u1, u2, e1, e2, i1, i2

NoAccounts == <<>>
OneAccount == u1 :> e1

TxSymmetry == Permutations(Txs)
=============================================================================
