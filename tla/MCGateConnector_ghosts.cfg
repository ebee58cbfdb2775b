\* An order ends while the connection is down.
\* The run stops where the bounds are met.
SPECIFICATION GateSpec
CONSTANTS
  Items <- MCEvents
  N = 4
  MaxId = 1
  MaxRequests = 1
  MaxConns = 2
INVARIANT
  NoGhosts
CHECK_DEADLOCK FALSE
