SPECIFICATION MCSpec
CONSTANTS
  U32 = 64
  Sector = 4
  Window = 8
  Scratch = 40
  Tables <- MCTables
  Pages = {4, 8, 16}
  ImageLen = 12
  OtherReads <- MCOtherReads
  MaxReads = 2
  Sizes = {0, 512, 1024}
  Ranks = {0, 1, 2, 4, 5}
INVARIANTS
  BootsFromRam
  OthersFromFlash
  ArgumentSound
