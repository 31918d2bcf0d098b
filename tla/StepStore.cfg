CONSTANTS
  Mark = "*"
  Needles <- SomeNeedles
  Chars <- SomeChars
  MaxText = 4
  MaxRuns = 3
SPECIFICATION Spec
CHECK_DEADLOCK FALSE
INVARIANTS RefIsGood EventAfterRecord StreamIsRedacted
PROPERTIES NotExecutedTwice
