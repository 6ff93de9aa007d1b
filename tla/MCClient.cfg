CONSTANTS
  U32Max = 63
  MaxSlots = 5
  ImageSize = 7
  ImageFile = 5
  StackSize = 6
  HeapSize = 8
  HookLen = 2
  Returning = {56}
  Loads <- MCLoads
  ClientMessages <- MCMessages
  MaxRequests = 4
SPECIFICATION Spec
INVARIANTS
  OneAnswer
  GrantsDisjoint
  AreasDisjoint
  GotMatchesBase
PROPERTIES
  EveryRequestAnswered
