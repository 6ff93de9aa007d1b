CONSTANTS
  U32Max = 63
  MaxSlots = 12
  Heaps <- MCHeaps
  ReqSizes <- MCReqSizes
  ReqAligns <- MCReqAligns
  MaxRequests = 4
SPECIFICATION Spec
INVARIANTS
  RestOfHeap
  BlocksDisjoint
  AnswerRight
