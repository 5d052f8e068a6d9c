SPECIFICATION Spec
CONSTANTS
  n1 = n1
  n2 = n2
  n3 = n3
  s1 = s1
  a1 = a1
  u1 = u1
  u2 = u2
  None = None
  Names <- MCNames
  Services <- MCServices
  Addresses <- MCAddresses
  Unfit <- MCUnfit
  Users <- MCUsers
  Plans <- MCPlans
  Targets <- MCTargets
  MaxRecursion = 1
  MaxAsks = 2
  MaxFaults = 1
INVARIANT ResolverIsSound
PROPERTY EveryCallerIsTold
CHECK_DEADLOCK FALSE
