SPECIFICATION Spec
CONSTANTS
  w1 = w1
  w2 = w2
  Windows <- MCWindows
  Older <- MCOlder
  KdeIcon <- MCKdeIcon
  Titles <- MCTitles
  Panel = Panel
  None = None
  Desktops = {0, 1}
  BarStart = 3
  BarWidth = 9
  MaxTaskWidth = 5
  PressAt = {4, 9}
  MaxActs = 4
INVARIANTS
  TypeOK
  AtMostOneFocused
  TasksFollowClients
  MarksFollowWindows
  ScreenFollowsList
  PixmapsOwned
  TasksLaidOut
CHECK_DEADLOCK FALSE
