-------------------------- MODULE MCReleaseLifecycle --------------------------
EXTENDS ReleaseLifecycle, TLC
\* A, B and D open the same Journal, C advances its schema.
Versions == [r \in Release |-> IF r = "C" THEN 2 ELSE 1]
=============================================================================
