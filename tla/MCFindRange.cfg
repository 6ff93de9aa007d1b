CONSTANTS
  U32Max = 47
  MaxSlots = 12
  Memories <- MCMemories
  Blacklists <- MCBlacklists
  Sizes <- MCSizes
SPECIFICATION Spec
INVARIANTS
  FirstFit
  ResultUsable
PROPERTIES
  Terminates
