SPECIFICATION FairSpec
CONSTANTS
  w1 = w1
  w2 = w2
  s1 = s1
  s2 = s2
  Free = Free
  Workers <- MCWorkers
  Sockets <- MCSockets
  Reuseport <- MCOne
  Owner <- MCOwner
  MultiAccept = TRUE
  ConnectionN = 16
  Spare = 2
  MaxClients = 3
  MaxErrors = 1
  MaxCtlErrors = 1
  MaxCrashes = 1
INVARIANTS HeldOnlyToAccept FlagTellsListening
PROPERTY ClientsAreServed
CHECK_DEADLOCK FALSE
