SPECIFICATION Spec
CONSTANTS
  Setups <- MCFive
  Fd = {1, 2, 3, 4, 5}
  player_id = player_id
  MIX <- MCMix
  MAX_CAPACITY = 10
  SIZE_MAX = 15
CHECK_DEADLOCK FALSE
INVARIANT RemovalReturns
