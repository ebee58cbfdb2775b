\* Both modes, every fault, one cancel_all racing the ticks.
\* The run stops where the bound on ids is met.
SPECIFICATION Spec
CONSTANTS
  Grids <- MovingGrids
  Prices <- MCPrices
  Cancellers = {"stop"}
  Faults <- AllFaults
  Modes = {FALSE, TRUE}
  MaxId = 2
INVARIANTS
  TypeOK
  FilledMeansGone
PROPERTY
  TerminalRowsStayTerminal
CHECK_DEADLOCK FALSE
