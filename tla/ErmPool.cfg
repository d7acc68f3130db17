CONSTANTS
  r1 = r1
  r2 = r2
  Items = {r1, r2}
  PoolItems = 4
  Priorities = {1, 2}
SPECIFICATION Spec
INVARIANTS
  ListsDisjoint
PROPERTIES
  ImplementsQueues
CHECK_DEADLOCK FALSE
