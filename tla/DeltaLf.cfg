SPECIFICATION BlameSpec
CONSTANTS
  Blank = Blank
  word = word
  Words <- MCWords
  Malformed = {}
  Endings = {"lf"}
  MaxParts = 1
  MaxLines = 3
  MaxDeltas = 2
  MaxHistory = 6
INVARIANTS
  RoundTrip
  NamedLinesUntouched
  NeverRefused
  TrackerMirrors
  EveryLineAnswered
CHECK_DEADLOCK FALSE
