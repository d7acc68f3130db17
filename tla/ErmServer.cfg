CONSTANTS
  Nobody = Nobody
  c1 = c1
  c2 = c2
  c3 = c3
  v1 = v1
  v2 = v2
  f1 = f1
  app1 = app1
  Conns = {c1, c2, c3}
  Items = {v1, v2, f1}
  ItemsOf <- MCItemsOf
  Config <- MCConfig
  requesterWinsPriorityTie = FALSE
  PoolItems <- MCPoolItems
  RevokeRetries = 1
  AppOf <- MCAppOf
  Priorities = {1, 2}
  Usages <- MCUsages
  ResStates = {"idle"}
  MaxRequests = 1
  MaxCloses = 1
SPECIFICATION Spec
INVARIANTS
  TypeOK
  QueuesSorted
  ExclusiveGrant
  NoIdleResource
  BetterRequestRevokes
  RequestInOnePlace
PROPERTIES
  ImplementsOwnership
SYMMETRY MCSymmetry
CHECK_DEADLOCK FALSE
