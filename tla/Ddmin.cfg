SPECIFICATION SearchSpec
CONSTANTS
  Problem <- MCProblem
  Budget = 9
  MaxUnits = 5
  MaxFailures = 1
INVARIANTS KeptIsAccepted OneMinimal
CHECK_DEADLOCK FALSE
