------------------------ MODULE MCArbitrationContext ------------------------
(* Small instances of ArbitrationContext for TLC. *)
EXTENDS ArbitrationContext, TLC

CONSTANTS a1, a2, sh, rm, p1, p2, e1, e2, e3

AppSymmetry == Permutations(Apps)
=============================================================================
