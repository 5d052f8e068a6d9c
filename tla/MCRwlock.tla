------------------------------ MODULE MCRwlock ------------------------------
EXTENDS Rwlock

CONSTANTS p1, p2, p3, p4

MCProcs == {p1, p2, p3, p4}
=============================================================================
