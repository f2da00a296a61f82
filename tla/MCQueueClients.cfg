SPECIFICATION Spec
CONSTANTS
  Conn = {c1, c2, c3, c4}
  None = None
  Fd = {f1, f2}
  PLAYERS_QUEUE_SIZE = 3
  SIZE_MAX = 9
  PLAYERS_PER_MATCH = 2
  MaxSearch = 6
SYMMETRY Symmetry
CHECK_DEADLOCK FALSE
INVARIANT ReadyMeansEnough
