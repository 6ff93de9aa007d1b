SPECIFICATION Spec
CONSTANTS
  Requests <- MCRequests
  Responses <- MCResponses
  DataBytes = {0, 200}
  MaxSends = 2
  MaxLen = 128
INVARIANTS
  SendsFit
  DeviceHears
  HostHears
