----------------------------- MODULE MCRecovery -----------------------------
(***************************************************************************)
(* Programs of system calls for Recovery.  Each is tried with a power cut  *)
(* at every step, some with two, beside a flusher that writes a node at    *)
(* any time.                                                               *)
(***************************************************************************)
EXTENDS Recovery

Scenario(program, crashes) ==
    [calls |-> program, crashes |-> crashes, flushes |-> 1, reads |-> 0,
     reorder |-> FALSE, again |-> FALSE, early |-> FALSE]

x == <<"root", "x">>
y == <<"root", "y">>
z == <<"sub", "x">>

Programs ==
    [overwrite  |-> << <<"create", 1, x>>, <<"write", 1, 0>>, <<"fsync", 1, FALSE>>,
                       <<"write", 1, 0>>, <<"fsync", 1, TRUE>> >>,
     checkpoint |-> << <<"create", 1, x>>, <<"write", 1, 1>>, <<"checkpoint">>,
                       <<"write", 1, 0>>, <<"write", 1, 1>>, <<"fsync", 1, TRUE>> >>,
     rename     |-> << <<"create", 1, x>>, <<"fsync", 1, FALSE>>, <<"rename", x, y>>,
                       <<"create", 2, x>>, <<"fsync", 2, FALSE>> >>,
     link       |-> << <<"mkdir">>, <<"create", 1, z>>, <<"fsync", 1, FALSE>>,
                       <<"link", 1, x>>, <<"fsync", 1, FALSE>>, <<"unlink", z>>,
                       <<"fsync", 1, FALSE>> >>,
     truncate   |-> << <<"create", 1, x>>, <<"write", 1, 0>>, <<"fsync", 1, FALSE>>,
                       <<"truncate", 1>>, <<"create", 2, y>>, <<"write", 2, 0>>,
                       <<"fsync", 2, FALSE>> >>,
     replace    |-> << <<"create", 1, x>>, <<"create", 2, y>>, <<"fsync", 1, FALSE>>,
                       <<"rename", x, y>>, <<"checkpoint">>, <<"fsync", 1, FALSE>> >>,
     during     |-> << <<"create", 1, x>>, <<"write", 1, 1>>, <<"fsync", 1, FALSE>>,
                       <<"checkpoint">>, <<"fsync", 1, TRUE>> >>,
     during0    |-> << <<"create", 1, x>>, <<"write", 1, 0>>, <<"fsync", 1, FALSE>>,
                       <<"write", 1, 0>>, <<"checkpoint">>, <<"fsync", 1, TRUE>> >>,
     reuse      |-> << <<"create", 1, x>>, <<"fsync", 1, FALSE>>, <<"unlink", x>>,
                       <<"create", 2, x>>, <<"fsync", 2, FALSE>> >>]

MCScenarios ==
    {Scenario(Programs[p], IF p \in {"truncate", "during", "during0"} THEN 1 ELSE 2) : p \in DOMAIN Programs}

\* An fsync that returns while the checkpoint writes its pack has to last.
EarlyScenarios ==
    {[Scenario(<< <<"create", 1, x>>, <<"write", 1, 0>>, <<"fsync", 1, FALSE>>,
                  <<"checkpoint">> >>, 1) EXCEPT !.flushes = 0, !.early = TRUE]}

\* A device that completes node writes out of order.
ReorderScenarios ==
    {[Scenario(<< <<"create", 1, x>>, <<"create", 2, y>>, <<"fsync", 2, FALSE>> >>, 1)
        EXCEPT !.reorder = TRUE]}

\* A power cut during the checkpoint that ends recovery.
AgainScenarios ==
    {[Scenario(<< <<"create", 1, x>>, <<"fsync", 1, FALSE>> >>, 2)
        EXCEPT !.flushes = 0, !.again = TRUE]}

\* A NAT entry is dropped and read back.
ReadScenarios ==
    {[Scenario(<< <<"create", 1, x>>, <<"write", 1, 1>>, <<"checkpoint">>,
                  <<"write", 1, 1>>, <<"fsync", 1, TRUE>> >>, 1) EXCEPT !.reads = 1]}

\* A block of a direct node is written while an fsync of the file ends.
AppendScenarios ==
    {[Scenario(<< <<"create", 1, x>>, <<"checkpoint">>, <<"fsync", 1, TRUE>>,
                  <<"write", 1, 1>>, <<"fsync", 1, TRUE>> >>, 1) EXCEPT !.flushes = 0]}
=============================================================================
