SPECIFICATION Spec
CONSTANTS
  Engines = {"ses"}
  Entries = {0, 1}
  MaxText = 5
  MaxBytes = 5
  ChunkSize = 2
  BaseMatch = 3
  LeastMatch = 3
  LeastAnchor = 2
  AnchorShare = 1
  LeastWindow = 3
  MostWindow = 4
  PopularFrom = 4
  PopularShare = 4
  Base = 3
  MaxCandidates = 1
  LongMatch = 2
  MaxExtend = 3
  Byte = 4
  OffWidth = 2
  MinMerge = 1
INVARIANT BackendsEquallyValid
CHECK_DEADLOCK FALSE
