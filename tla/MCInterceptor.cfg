SPECIFICATION Spec
CONSTANTS
  Hooks = {1, 2}
  Layouts <- MCLayouts
  Targets <- MCTargets
  HeapStart = 252
  HeapEnd = 480
  Fuel = 24
INVARIANTS
  OriginalRuns
  TrampolineFits
  HookTakesCalls
PROPERTY
  RevertUnhooks
