SPECIFICATION Spec
CONSTANTS
  b1 = b1
  b2 = b2
  alice = alice
  r1 = r1
  r2 = r2
  r3 = r3
  None = None
  Users <- OneUser
  Requests <- ThreeRequests
  Browsers <- TwoBrowsers
  Overlapping <- OneBrowser
  MaxFaults = 1
CHECK_DEADLOCK FALSE
SYMMETRY RequestSymmetry
INVARIANTS
  TypeOK
  SessionsFromLogins
  ResumedOnce
  ShownOnce
PROPERTIES
  StashReachesLogin
  ErrorsReachOwner
