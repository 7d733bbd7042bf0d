--------------------------- MODULE MCNodeManager ---------------------------
(* Instances of NodeManager.  Creators are interchangeable,                *)
(* and so are the addresses.                                               *)
EXTENDS NodeManager, TLC

Symmetry == Permutations(Creators) \cup Permutations(Addrs)
=============================================================================
