--------------------------- MODULE MCSystemTask ---------------------------
(***************************************************************************)
(* Small instances of SystemTask.                                          *)
(***************************************************************************)
EXTENDS SystemTask, TLC

CONSTANTS t1, t2, r1, r2, r3

RunnersAlike == Permutations(Runner)
=============================================================================
