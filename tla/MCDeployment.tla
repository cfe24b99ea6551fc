----------------------------- MODULE MCDeployment -----------------------------
EXTENDS Deployment, TLC
\* B opens what the installed release A opens, C advances the schema by two versions.
Versions == [r \in Release |-> IF r = "C" THEN 3 ELSE 1]
=============================================================================
