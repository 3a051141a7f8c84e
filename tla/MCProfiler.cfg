SPECIFICATION Spec
CONSTANTS
  WarmUp = 2
  Window = 2
  MaxMem = 2
INVARIANTS CommTimeIsWireTime PeakIsOfTheWindow RssGrowthIsTheWindows
