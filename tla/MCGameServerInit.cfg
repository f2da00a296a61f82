CONSTANTS
  p1 = p1
  p2 = p2
  p3 = p3
  none = none
  Player <- MCPlayer
  Stranger <- MCStranger
  SeqNum = {0}
  players_num = 2
  ITEMS = 2
  MAIL_DROP_SIZE = 3
  CONNECTION_DEADLINE_TICKS = 1
  GAME_INIT_TICKS = 1
  GAME_DURATION_TICKS = 3
  ITEMS_AUTH_RATE = 2
  None = none
SPECIFICATION Spec
INVARIANT
  OneSlotPerPlayer
