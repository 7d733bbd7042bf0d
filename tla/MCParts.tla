------------------------------- MODULE MCParts -------------------------------
(***************************************************************************)
(* Four parts of the file system that share no state in these models:      *)
(* discard commands, the entries of a directory, the name space, and       *)
(* recovery after a power cut.  A behaviour is one of a single part, which *)
(* Init picks; the others rest in an initial state.                        *)
(***************************************************************************)
EXTENDS Discard, Directory, Namespace, MCRecovery

VARIABLE part

partVars == <<part, discardVars, dirVars, nsVars, recVars>>

\* Four names with three hashes; one fits in a slot, the others fill a block.
MCNameHash == [n \in Names |-> CASE n = "a" -> 2 [] n = "b" -> 1 [] OTHER -> 3]
MCNameSlots == [n \in Names |-> IF n = "a" THEN 1 ELSE 3]

\* A trim of two of the three segments, of any length.
MCTrimRequests == {<<0, 1, 1>>}
MCVolumes == {{0, 1, 4}}

DiscardRests == DiscardInit /\ sit.log = 0 /\ sit.cur = CHOOSE used \in Volumes : TRUE
DirRests == DirInit /\ dir = NewDir(0, TRUE)
RecRests == RecInit /\ script = CHOOSE s \in Scenarios : TRUE

PartsInit ==
    /\ part \in {"discard", "directory", "names", "recovery"}
    /\ IF part = "discard" THEN DiscardInit ELSE DiscardRests
    /\ IF part = "directory" THEN DirInit ELSE DirRests
    /\ NsInit
    /\ IF part = "recovery" THEN RecInit ELSE RecRests

DiscardPart ==
    /\ part = "discard" /\ DiscardNext
    /\ UNCHANGED <<part, dirVars, nsVars, recVars>>

DirPart ==
    /\ part = "directory" /\ DirNext
    /\ UNCHANGED <<part, discardVars, nsVars, recVars>>

NsPart ==
    /\ part = "names" /\ NsNext
    /\ UNCHANGED <<part, discardVars, dirVars, recVars>>

RecPart ==
    /\ part = "recovery" /\ RecNext
    /\ UNCHANGED <<part, discardVars, dirVars, nsVars>>

PartsNext == DiscardPart \/ DirPart \/ NsPart \/ RecPart

PartsSpec == PartsInit /\ [][PartsNext]_partVars
=============================================================================
