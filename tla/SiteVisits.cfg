SPECIFICATION SiteSpec
CONSTANTS
  r1 = r1
  r2 = r2
  r3 = r3
  s1 = s1
  o1 = o1
  p1 = p1
  p2 = p2
  a = a
  b = b
  upperA = upperA
  title = title
  v1 = v1
  None = None
  Requests <- MCRequests
  Slugs <- MCSlugs
  ValidSlugs <- MCSlugs
  Owners <- MCOwners
  Passphrases <- MCPassphrases
  Paths <- MCPaths
  Fields <- MCFields
  Plans <- SitePlans
  Overlap = FALSE
  MaxFaults = 1
  Visitors <- MCVisitors
  Asked <- Exact
  Canon <- MCCanon
  MaxVisits = 3
PROPERTIES
  ServedReadable
  RotationRelocks
  UnlockedStays
