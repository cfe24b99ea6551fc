----------------------------- MODULE MCExtensions -----------------------------
EXTENDS Extensions, TLC
Interchangeable == Permutations(Worker) \cup Permutations(Field)
                     \cup Permutations(Namespace)
=============================================================================
