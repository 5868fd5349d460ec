SPECIFICATION Spec
CONSTANTS
  Seats = {"a", "b"}
  Templates = {"ta", "tb"}
  Home <- MCHome
  Target <- MCTarget
  PrincipalOf <- MCPrincipal
  BoardOf <- MCBoard
  BoardCap <- MCBoardCap
  HostCap = 2
  MaxTries = 1
  MaxRev = 1
  MaxGen = 2
  MaxRequests = 2
  MaxFaults = 1
INVARIANTS TypeOK CapsHold StoppedHasNoProcess
PROPERTIES ActsOnce
CHECK_DEADLOCK FALSE
