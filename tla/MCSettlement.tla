---------------------------- MODULE MCSettlement ----------------------------
(***************************************************************************)
(* Small instances of Settlement for TLC.  Positions, closers and workers  *)
(* are model values; the close requests in flight are interchangeable.     *)
(***************************************************************************)
EXTENDS Settlement, TLC

RequestSymmetry == Permutations(Manuals)
=============================================================================
