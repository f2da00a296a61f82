CONSTANTS
  p1 = p1
  p2 = p2
  none = none
  Player <- MCPlayer
  Client <- MCClient
  players_num = 2
  ITEMS = 1
  CONNECTION_DEADLINE_TICKS = 1
  GAME_INIT_TICKS = 1
  GAME_DURATION_TICKS = 4
  ITEMS_AUTH_RATE = 2
  SERVER_TICK_RATE = 2
  None = none
SPECIFICATION FairSpec
CHECK_DEADLOCK FALSE
INVARIANTS
  CreditFollowsTaking
  TakenStaysTaken
  ScreenFollowsMatch
PROPERTIES
  InitLeadsToSeat
