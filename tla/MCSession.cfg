CONSTANTS
  HwCode = 25970
  Refusals = {1, 7168, 65536}
  Requests <- AllRequests
  Programs = {"loader", "da"}
  Leftovers <- ConstLeftovers
  MaxCalls = 3
SPECIFICATION Spec
INVARIANTS InStep ErrorsAreTrue
PROPERTY CommandIsCall
