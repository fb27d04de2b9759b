SPECIFICATION Spec
CONSTANTS
  GND = "GND"
  NoNet = "none"
  Clearance <- MCClearance
  CopperEdge = 1
  Grid = 4
  Starts = 2
  Iterations = 1
  Connectors <- MCConnectors
  Pitch = 4
  MaxVias = 2
  ViaDiameter = 2
  MinIsland = 5
  Boards <- MCBoards
  ByHand <- MCByHand
INVARIANTS
  TilesAreExact
  PlannerMeetsChecker
  ProposalsAreExecuted
  PlacementIsLegal
CHECK_DEADLOCK FALSE
