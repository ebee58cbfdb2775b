\* Every event, a grid of one level, failing cancellations.
\* The run stops where the bot has exited, or the bound on ids is met.
SPECIFICATION MonitorSpec
CONSTANTS
  Grids <- OneLevelGrid
  Prices <- MCPrices
  Cancellers <- Calls
  Faults = {"cancel", "reject"}
  Modes = {FALSE}
  MaxId = 1
  Events = {"pause", "resume", "emergency", "stop", "lowBalance", "loss", "newDay", "noConnect"}
  MaxMissed = 2
INVARIANTS
  MissesAreConsecutive
PROPERTIES
  HaltedStaysIdle
  StallTriggersSwitch
  TriggerEndsPlacing
  StopEndsLoop
CHECK_DEADLOCK FALSE
