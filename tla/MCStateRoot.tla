------------------------------ MODULE MCStateRoot ------------------------------
EXTENDS StateRoot, TLC
\* Every opening validates the payload of events; notes are read on access.
Refers == [f \in Fact |-> IF f = "event" THEN "payload" ELSE "note"]
Interchangeable == Permutations(Operator) \cup Permutations(Destination)
=============================================================================
