SPECIFICATION Spec
CONSTANTS
  Conn = {c1, c2, c3}
  None = None
  Fd <- MCFd
  PLAYERS_QUEUE_SIZE = 2
  SIZE_MAX = 9
  PLAYERS_PER_MATCH = 2
  PORTS_LIMIT = 1
  BROKER_ROOM = 2
  FD_QUEUE_CAPACITY = 1
  SEG = 1
  MaxRequest = 4
  MaxHangUp = 1
SYMMETRY Symmetry
INVARIANTS SignalsMatchQueues OutputWillBeSent ReadingResumes OwnResultWhileUp
  QueueAgreesWithoutHeirs OneOutcome IndInv SearchInv
PROPERTIES ImplementsMatchmaking
