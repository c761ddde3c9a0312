SPECIFICATION FrontSpec
CONSTANTS
  r1 = r1
  r2 = r2
  r3 = r3
  r4 = r4
  s1 = s1
  bad = bad
  o1 = o1
  o2 = o2
  p1 = p1
  p2 = p2
  a = a
  b = b
  title = title
  creator = creator
  None = None
  Requests <- MCRequests
  Slugs <- MCSlugs
  ValidSlugs <- MCValidSlugs
  Owners <- MCOwners
  Passphrases <- MCPassphrases
  Paths <- MCPaths
  Fields <- MCFields
  Plans <- MCPlans
  Forms <- MCForms
  Overlap = FALSE
  MaxFaults = 1
INVARIANTS
  TornOnlyByReplacement
  TornOnlyByFault
  SingleUpload
  UnreadableContained
PROPERTIES
  ImplementsCatalogue
  ReplacementRestores
  OnlySupplied
  PassphraseGuards
