SPECIFICATION FairSpec
CONSTANTS
  Conn = {c1, c2}
  None = None
  Fd <- MCFd
  PLAYERS_QUEUE_SIZE = 3
  SIZE_MAX = 9
  PLAYERS_PER_MATCH = 2
  PORTS_LIMIT = 1
  BROKER_ROOM = 2
  FD_QUEUE_CAPACITY = 1
  SEG = 2
  MaxRequest = 3
  MaxHangUp = 1
INVARIANTS RequestsStayWhole
PROPERTIES ResultReachesClient RequestIsRead MatchIsFormed
