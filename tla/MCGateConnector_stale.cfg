\* A caller about to send while the io thread leaves its try block.
\* The run stops where the bounds are met.
SPECIFICATION GateSpec
CONSTANTS
  Items <- MCEvents
  N = 4
  MaxId = 1
  MaxRequests = 1
  MaxConns = 2
INVARIANT
  NoStalePointer
CHECK_DEADLOCK FALSE
