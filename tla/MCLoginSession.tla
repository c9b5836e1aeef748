--------------------------- MODULE MCLoginSession ---------------------------
(***************************************************************************)
(* Small instance of LoginSession: three requests, which are alike.        *)
(***************************************************************************)
EXTENDS LoginSession, TLC

CONSTANTS p1, p2, p3

Symmetry == Permutations(Proc)
=============================================================================
