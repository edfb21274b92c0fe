SPECIFICATION Spec
CONSTANTS
  odd = odd
  even = even
  failing = failing
  r1 = r1
  r2 = r2
  Absent = Absent
  NumFiles = 2
  Contents <- MCContents
  Patch <- MCPatch
  Bad <- MCBad
  Reloads <- MCReloads
  Shipped <- MCShipped
  MaxEvents = 2
  MaxActs = 3
INVARIANTS
  TypeOK
  OneReloadAtATime
  EveryChangeRead
  NoChangeLost
PROPERTIES
  RulesApplied
CHECK_DEADLOCK FALSE
