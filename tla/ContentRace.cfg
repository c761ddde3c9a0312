SPECIFICATION Spec
CONSTANTS
  r1 = r1
  r2 = r2
  r3 = r3
  s1 = s1
  o1 = o1
  o2 = o2
  p1 = p1
  p2 = p2
  a = a
  b = b
  title = title
  creator = creator
  None = None
  Requests <- MCRequests
  Slugs <- MCSlugs
  ValidSlugs <- MCSlugs
  Owners <- MCOwners
  Passphrases <- MCPassphrases
  Paths <- MCPaths
  Fields <- MCFields
  Plans <- RacePlans
  Overlap = TRUE
  MaxFaults = 0
INVARIANTS
  EnvelopeInStep
