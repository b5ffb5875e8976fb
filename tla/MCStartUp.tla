----------------------------- MODULE MCStartUp -----------------------------
\* Three replicas and three faults.
EXTENDS StartUp

CONSTANTS r1, r2, r3
=============================================================================
