\* Both modes: one grid, an exchange that answers, fills, ageing, one cancel_all.
\* The run stops where the bound on ids is met.
SPECIFICATION FairSpec
CONSTANTS
  Grids <- OneGrid
  Prices <- MCPrices
  Cancellers = {"stop"}
  Faults <- NoFaults
  Modes = {FALSE, TRUE}
  MaxId = 4
PROPERTY
  SettlesOnGrid
CHECK_DEADLOCK FALSE
