SPECIFICATION Spec
CONSTANTS
  Segments = {"", ".", "..", ".x", "a", "a..b", "__MACOSX"}
  Blank = ""
  Dotted = {".", "..", ".x"}
  DoubleDots = {"..", "a..b"}
  MacSegments = {"__MACOSX"}
  MaxSegments = 3
  MaxEntries = 2
INVARIANTS
  TypeOK
  HiddenFiltered
  NothingLost
  OnePathOneName
