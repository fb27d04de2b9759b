SPECIFICATION Spec
CONSTANTS
  GND = "GND"
  NoNet = "none"
  Clearance <- MCClearance
  CopperEdge = 1
  Step = 2
  RoutingEdge = 0
  MaxNetVias = 1
  Width <- MCWidth
  ViaSize <- MCViaSize
  PadOrder <- MCPadOrder
  NetOrder <- MCNetOrder
  RetryRounds = 3
  Calls = 2
  Boards <- MCBoards
  Requests <- MCRequests
INVARIANTS
  CopyIsTheOffer
  RouterMeetsChecker
  RoutedIsJoined
  RouterIsExecuted
CHECK_DEADLOCK FALSE
