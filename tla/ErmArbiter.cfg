CONSTANTS
  Nobody = Nobody
  Somebody = Somebody
  Decoders = 3
  Bits = {1, 2}
  AskedPriorities = {1, 2}
  Sizes = {1, 2}
SPECIFICATION ArbiterSpec
INVARIANTS
  OnlyFromWeaker
  DeniedOnlyIfUnservable
  FreeFirstInGroup
CHECK_DEADLOCK FALSE
