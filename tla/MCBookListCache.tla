-------------------------- MODULE MCBookListCache --------------------------
(* BookListCache on small instances. *)
EXTENDS BookListCache, TLC

Symmetry == Permutations(Readers) \cup Permutations(Writers) \cup Permutations(Instances)

\* Of passing time, a second mutation, and a fault of Redis or of its client, two
\* at a time: the bound of the third is spent at the start.
MCInit ==
    /\ Init
    /\ \/ version = 0 /\ clock = 0       /\ resends = MaxFaults
       \/ version = 0 /\ clock = MaxTime /\ resends = 0
       \/ version = 1 /\ clock = 0       /\ resends = 0

MCSpec == MCInit /\ [][Next]_vars

============================================================================
