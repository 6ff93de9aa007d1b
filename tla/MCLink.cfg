CONSTANTS
  HwCode = 25970
  Refusals = {1}
  Ready <- ConstReady
  MaxReady = 2
  MaxEpoch = 3
  Crash = {TRUE, FALSE}
SPECIFICATION Spec
INVARIANTS HwCodeIsRight PreloaderAsserted PayloadForItsLoader JumpsToPayload
PROPERTY HostEnds
