\* An emergency stop in the middle of a tick.
\* The run stops where the bot has exited, or the bound on ids is met.
SPECIFICATION BotSpec
CONSTANTS
  Grids <- TwoLevelGrid
  Prices <- MCPrices
  Cancellers <- Calls
  Faults = {}
  Modes = {FALSE}
  MaxId = 2
  Events = {"emergency"}
  MaxMissed = 2
INVARIANT
  EmergencyLeavesNothing
CHECK_DEADLOCK FALSE
