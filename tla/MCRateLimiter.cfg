SPECIFICATION Spec
CONSTANTS
  m1 = m1
  m2 = m2
  m3 = m3
  NoMsg = NoMsg
  Msgs <- MCMsgs
  Slots = 6
  Window = 2
  Looks = 5
  MaxSent = 8
  MaxTime = 6
INVARIANTS
  AtMostSlotsPerWindow
  AtMostTwoInTheWindow
  RefusedOnlyWhenFull
CHECK_DEADLOCK FALSE
