---------------------------- MODULE MCFlushMerge ----------------------------
(* Instances of FlushMerge.  The callers are interchangeable, which only   *)
(* the runs without a liveness property use.                               *)
EXTENDS FlushMerge, TLC

Symmetry == Permutations(Callers)
=============================================================================
