SPECIFICATION FairSpec
CONSTANTS
  w1 = w1
  w2 = w2
  s1 = s1
  s2 = s2
  Free = Free
  Workers <- MCWorkers
  Sockets <- MCSockets
  Reuseport <- MCNone
  Owner <- MCNoOwner
  MultiAccept = FALSE
  ConnectionN = 16
  Spare = 2
  MaxClients = 1
  MaxErrors = 2
  MaxCtlErrors = 0
  MaxCrashes = 0
PROPERTY NeverRefusesForEver
CHECK_DEADLOCK FALSE
