SPECIFICATION Spec
CONSTANTS
  Blank = Blank
  word = word
  Words <- MCPlainWords
  Malformed = {}
  Endings = {"lf", "crlf"}
  MaxParts = 2
  MaxLines = 2
INVARIANTS
  RoundTrip
CHECK_DEADLOCK FALSE
