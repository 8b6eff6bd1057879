-------------------------- MODULE MCRefreshSessions --------------------------
(* Instances of RefreshSessions for TLC. *)
EXTENDS RefreshSessionsInv, TLC

CONSTANTS t1, t2, t3, u1, u2

TxSymmetry == Permutations(Txs)
=============================================================================
