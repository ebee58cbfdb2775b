------------------------------ MODULE MCProgress ------------------------------
(***************************************************************************)
(* What must end, for TLC: the teardown of the gate connector, the process *)
(* and the calls of the connectors; and the events of the live feed.       *)
(* These modules share no variable, so a behaviour follows one of them,    *)
(* chosen at the start, and the others keep their initial state.           *)
(***************************************************************************)
EXTENDS GateConnector, Process, Requests, LiveFeed

VARIABLE part  \* the module followed

MCEvents == Events

progressVars == <<gateVars, procVars, requestsVars, liveVars, part>>

ProgressInit ==
  /\ GateInit
  /\ ProcInit
  /\ RequestsInit
  /\ LiveInit
  /\ part \in {"gate", "process", "requests", "feed"}
  \* One initial state for the modules that are not followed.
  /\ part = "gate" \/ nextId = 1
  /\ part = "requests" \/ connector = "ccxt"

ProgressNext ==
  \/ part = "gate" /\ GateNext /\ UNCHANGED <<procVars, requestsVars, liveVars, part>>
  \/ part = "process" /\ ProcNext /\ UNCHANGED <<gateVars, requestsVars, liveVars, part>>
  \/ part = "requests" /\ RequestsNext /\ UNCHANGED <<gateVars, procVars, liveVars, part>>
  \/ part = "feed" /\ LiveNext /\ UNCHANGED <<gateVars, procVars, requestsVars, part>>

\* GateFairSpec, ProcFairness and RequestsFairness, each for its part.
ProgressFairness ==
  /\ WF_gateVars(part = "gate" /\ IoStep)
  /\ WF_gateVars(part = "gate" /\ Join)
  /\ WF_procVars(part = "process" /\ ServerExits)
  /\ WF_procVars(part = "process" /\ RunBot)
  /\ WF_procVars(part = "process" /\ Shutdown)
  /\ WF_procVars(part = "process" /\ cancelled /\ \E t \in tasks : TaskEnds(t))
  /\ WF_requestsVars(part = "requests" /\ Tick)
  /\ WF_requestsVars(part = "requests" /\ HoldLock)
  /\ WF_requestsVars(part = "requests" /\ WakeUp)
  /\ WF_requestsVars(part = "requests" /\ ThreadStarts)
  /\ \A i \in 1 .. Workers : WF_requestsVars(part = "requests" /\ ThreadEnds(i))
  /\ \A c \in Callers : WF_requestsVars(part = "requests" /\ Attempt(c))
  /\ \A c \in Callers : WF_requestsVars(part = "requests" /\ BackoffOver(c))

ProgressSpec == ProgressInit /\ [][ProgressNext]_progressVars /\ ProgressFairness
=============================================================================
