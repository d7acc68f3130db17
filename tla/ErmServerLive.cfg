CONSTANTS
  Nobody = Nobody
  c1 = c1
  c2 = c2
  c3 = c3
  v1 = v1
  v2 = v2
  f1 = f1
  app1 = app1
  Conns = {c1, c2}
  Items = {v1}
  ItemsOf <- MCItemsOf
  Config <- MCConfig
  requesterWinsPriorityTie = FALSE
  PoolItems <- MCSmallPool
  RevokeRetries = 1
  AppOf <- MCAppOf
  Priorities = {1, 2}
  Usages <- MCUsage
  ResStates = {"idle", "active"}
  MaxRequests = 2
  MaxCloses = 1
SPECIFICATION FairSpec
INVARIANTS
  IdleWhenFree

  
CHECK_DEADLOCK FALSE
