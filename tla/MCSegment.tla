----------------------------- MODULE MCSegment -----------------------------
(* Small instances of Segment.  mkfs gives each log in use a section of    *)
(* its own, in the order of the logs.                                      *)
EXTENDS Segment

Rank == [HOT_DATA |-> 0, WARM_DATA |-> 1, COLD_DATA |-> 2,
         HOT_NODE |-> 3, WARM_NODE |-> 4, COLD_NODE |-> 5]
MCFormatSeg == [t \in Logs |-> SegsPerSec * Cardinality({u \in Logs : Rank[u] < Rank[t]})]
=============================================================================
