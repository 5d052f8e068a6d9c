------------------------------ MODULE MCShmtx ------------------------------
EXTENDS Shmtx

CONSTANTS w1, w2, w3, m

MCWorkers == {w1, w2, w3}
=============================================================================
