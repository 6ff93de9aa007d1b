CONSTANTS
  U32Max = 191
  MaxSlots = 12
  ImageSize = 7
  ImageFile = 5
  StackSize = 8
  HeapSize = 8
  HookLen = 2
  Returning = {170}
  Configs <- MCBootConfigs
  Sram <- MCSram
  Dram <- MCDram
  BromBase = 16
  DaAddr = 150
  PlAddr = 32
  PlLen = 6
  LkAddr = 124
  LkLen = 6
  LkBssLen = 8
  HookOff = 2
  BootargLen = 5
  ChunkSize = 4
  ReplCommands <- MCReplCommands
  MaxCommands = 2
SPECIFICATION Spec
INVARIANTS
  PayloadIntact
  HaltsOnlyForLack
  AnswersMatch
  BootIntact
  LkFindsItsBoot
  FailsOnlyOutside
PROPERTIES
  HostEnds
  SuccessLeadsToBoot
