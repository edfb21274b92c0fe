SPECIFICATION Spec
CONSTANTS
  odd = odd
  even = even
  failing = failing
  r1 = r1
  r2 = r2
  Absent = Absent
  NumFiles = 2
  Contents <- MCContents
  Patch <- MCPatch
  Bad <- MCBad
  Reloads <- MCReloads
  Shipped <- MCShipped
  MaxEvents = 2
  MaxActs = 1
PROPERTY
  LateChangesApplied
CHECK_DEADLOCK FALSE
