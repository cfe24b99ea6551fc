----------------------------- MODULE MCContinuity -----------------------------
EXTENDS ExternalContinuity, TLC
Interchangeable == Permutations(Worker) \cup Permutations(Content)
                     \cup Permutations(Goal)
=============================================================================
