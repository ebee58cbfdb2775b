\* Gate connector: two connections, one order, one request, a queue of one place (the
\* longer queue is in the run of the hand-overs).  Process: two exchanges, two attempts
\* to connect the database.  Requests: two callers, one thread, a burst of two.
\* Live feed: two clients with queues of two, four events.
\* The run stops where a process has ended or the bounds are met.
SPECIFICATION ProgressSpec
CONSTANTS
  Items <- MCEvents
  N = 2
  MaxId = 1
  MaxRequests = 1
  MaxConns = 2
  Enabled = {"gate", "mexc"}
  Retries = 2
  Callers = {"tick", "cancel"}
  Burst = 2
  Grain = 2
  MaxRetries = 2
  Workers = 1
  Sockets = {"s1", "s2"}
  FeedLen = 2
  MaxEvents = 4
INVARIANTS
  DoneMeansAllReached
  NoGaps
PROPERTIES
  
  ShutdownEnds
  ImplementsBucket
  
CHECK_DEADLOCK FALSE
