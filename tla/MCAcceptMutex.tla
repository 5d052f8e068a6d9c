--------------------------- MODULE MCAcceptMutex ---------------------------
EXTENDS AcceptMutex

CONSTANTS w1, w2, s1, s2

MCWorkers == {w1, w2}
MCSockets == {s1, s2}
MCNone == {}
MCNoOwner == [s \in {} |-> w1]
MCOne == {s2}
MCOwner == [s \in MCOne |-> w2]
=============================================================================
