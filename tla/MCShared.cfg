SPECIFICATION MCSpec
CONSTANTS
  Line = 2
  Lines = 3
  Ranges <- MCRanges
  MemTop = 8
  Halves = {0, 1}
  MaxPattern = 3
INVARIANTS
  CodeVisible
  ReadsInside
  FirstMatch
