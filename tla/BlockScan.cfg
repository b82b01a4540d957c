SPECIFICATION Spec
CONSTANTS
  Texts <- MCTexts
  Payloads <- MCPayloads
  Snapshots <- MCSnapshots
  Logs <- MCLogs
  PrevLogs <- MCPrevLogs
  ChunkSizes = {4}
  PrevOverlap = 2
  Cuts = {0, 5, 9, 10}
  Kept = {0, 3}
INVARIANTS ParsersAgree StartsAreBlocks WalkExact
PROPERTY WalkEnds
CHECK_DEADLOCK FALSE
