CONSTANTS
  p1 = p1
  p2 = p2
  none = none
  Player <- MCPlayer
  Client <- MCClient
  Stranger = {}
  SeqNum = {0}
  players_num = 1
  ITEMS = 1
  MAIL_DROP_SIZE = 2
  CONNECTION_DEADLINE_TICKS = 0
  GAME_INIT_TICKS = 1
  GAME_DURATION_TICKS = 2
  ITEMS_AUTH_RATE = 2
  SERVER_TICK_RATE = 2
  None = none
SPECIFICATION SystemSpec
CHECK_DEADLOCK FALSE
PROPERTIES
  ProcessAsAssumed
  ImplementsSession
