----------------------------- MODULE ExchangeBot -----------------------------
(***************************************************************************)
(* core/exchange_bot.py with safety/q_switch.py, safety/heartbeat.py,      *)
(* safety/circuit_breaker.py and the control routes of api/routes.py: the  *)
(* life of one bot around its OrderManager.                                *)
(*                                                                         *)
(* Coroutines: the run loop (start, _run_loop, _tick), the heartbeat       *)
(* monitor, the API handlers, and the shutdown (ExchangeBot.stop called by *)
(* Orchestrator.stop, which cancels the run loop's task afterwards).  All  *)
(* of them reach the same OrderManager, whose calls of cancel_all are here *)
(* "api", "heartbeat" and "stop".                                          *)
(***************************************************************************)
EXTENDS OrderManager

CONSTANTS
  Events,      \* what may happen from outside: a subset of EventKinds
  MaxMissed    \* max_missed_heartbeats

\* The operator's requests, a balance below the threshold, an equity that trips
\* the circuit breaker, a new UTC day, a connect that fails.
EventKinds ==
  {"pause", "resume", "emergency", "stop", "lowBalance", "loss", "newDay", "noConnect"}

ASSUME BotAssumption ==
  /\ Cancellers = {"api", "heartbeat", "stop"}
  /\ Events \subseteq EventKinds
  /\ MaxMissed \in Nat \ {0}

VARIABLES
  bpc,        \* where the run loop awaits
  running,    \* ExchangeBot._running
  balance,    \* the cached balance: "none", "ok" or "low"
  triggered,  \* QSwitch._triggered
  tripped,    \* CircuitBreaker._tripped
  connected,  \* connector.is_connected
  hpc,        \* the heartbeat monitor's task; "failing" from its call of
              \* _emergency_stop on, which cpc["heartbeat"] then tells more of
  missed,     \* Heartbeat._missed
  sinceBeat,  \* wake-ups of the monitor since the last beat, at most MaxMissed + 1
  spc         \* the shutdown

safetyVars == <<triggered, tripped>>
hbVars     == <<hpc, missed, sinceBeat>>
botVars    == <<bpc, running, balance, triggered, tripped, connected, hpc, missed,
                sinceBeat, spc>>
vars       == <<omVars, botVars>>

BotInit ==
  /\ Init
  /\ bpc = "starting"
  /\ running = FALSE
  /\ balance = "none"
  /\ triggered = FALSE
  /\ tripped = FALSE
  /\ connected = FALSE
  /\ hpc = "none"
  /\ missed = 0
  /\ sinceBeat = 0
  /\ spc = "no"

-----------------------------------------------------------------------------
(* The run loop.                                                           *)

\* `while self._running`: the flag is read before the queue is awaited, and not
\* again when a state arrives.
LoopHead(run) == bpc' = IF run THEN "wait" ELSE "exited"

\* A beat that leaves the count of misses alone.
BeatWithoutReset == sinceBeat' = 0 /\ UNCHANGED missed

\* Heartbeat.beat.
Beat == missed' = 0 /\ sinceBeat' = 0

\* connect and _warmup are over (a failed warm-up leaves no balance); the loop
\* and the heartbeat monitor start, even if the bot was stopped meanwhile.  The
\* last beat dates from the construction of the bot, however long ago that is.
Started ==
  /\ bpc = "starting"
  /\ connected' = TRUE
  /\ \/ balance' = "ok"
     \/ "lowBalance" \in Events /\ balance' \in {"none", "low"}
  /\ running' = TRUE
  /\ hpc' = "sleep"
  /\ sinceBeat' \in 0 .. 2
  /\ bpc' = "wait"
  /\ UNCHANGED <<safetyVars, missed, spc, omVars>>

\* connect raises: start ends with it.
StartFails ==
  /\ "noConnect" \in Events
  /\ bpc = "starting"
  /\ bpc' = "exited"
  /\ UNCHANGED <<running, balance, safetyVars, connected, hbVars, spc, omVars>>

\* queue.get returns a GlobalState, or times out after 5 s.
TakeState ==
  /\ bpc = "wait"
  /\ bpc' = "balance"
  /\ UNCHANGED <<running, balance, safetyVars, connected, hbVars, spc, omVars>>

WaitTimeout ==
  /\ bpc = "wait"
  /\ ~running
  /\ LoopHead(running)
  /\ UNCHANGED <<running, balance, safetyVars, connected, hbVars, spc, omVars>>

\* A check of the balance that forgets an earlier trigger.
HaltsOnBalance(b) == b = "low"

\* QSwitch.check: triggered before, or by a balance below a threshold.
Halts(b) == triggered \/ b = "low"

\* The tick ends before diff_and_repost, as a successful one.
SkipTick == LoopHead(running) /\ Beat /\ UNCHANGED omVars

\* _get_balance: the cached balance, or what the exchange answers now.
GetBalance ==
  \/ balance' = balance
  \/ balance' = "ok"
  \/ "lowBalance" \in Events /\ balance' = "low"

\* CircuitBreaker.record_equity: a new day clears a trip, a loss or a drawdown
\* trips.
RecordEquity ==
  \/ UNCHANGED tripped
  \/ "newDay" \in Events /\ tripped' = FALSE
  \/ "loss" \in Events /\ tripped' = TRUE

\* _tick after _get_balance, up to diff_and_repost with the grid the quant model
\* computed.  QSwitch.check fires on a low balance.
SafetyChecks ==
  /\ bpc = "balance"
  /\ GetBalance
  /\ \/ /\ balance' = "none"
        /\ UNCHANGED safetyVars
        /\ SkipTick
     \/ /\ balance' # "none"
        /\ Halts(balance')
        /\ triggered' = TRUE
        /\ UNCHANGED tripped
        /\ SkipTick
     \/ /\ balance' # "none"
        /\ ~Halts(balance')
        /\ UNCHANGED triggered
        /\ RecordEquity
        /\ \/ tripped' /\ SkipTick
           \/ /\ ~tripped'
              /\ \E g \in Grids : Begin(g)
              /\ bpc' = "diff"
              /\ UNCHANGED <<missed, sinceBeat>>
  /\ UNCHANGED <<running, connected, hpc, spc>>

\* The rest of _tick (fills, snapshots, events) is over: beat and loop.
TickDone ==
  /\ bpc = "diff"
  /\ pc = "idle"
  /\ ~raised
  /\ LoopHead(running) /\ Beat
  /\ UNCHANGED <<running, balance, safetyVars, connected, hpc, spc, omVars>>

\* _tick raised: no beat; reconnect if the connector says it is down.  Connectors
\* say so only once they were disconnected, that is, after the shutdown.
TickRaised ==
  /\ bpc = "diff"
  /\ pc = "idle"
  /\ raised \/ "db" \in Faults
  /\ IF connected THEN LoopHead(running) ELSE bpc' = "reconnect"
  /\ UNCHANGED <<running, balance, safetyVars, connected, hbVars, spc, omVars>>

\* _try_reconnect.
Reconnected ==
  /\ bpc = "reconnect"
  /\ connected' = TRUE
  /\ LoopHead(running)
  /\ UNCHANGED <<running, balance, safetyVars, hbVars, spc, omVars>>

ReconnectFailed ==
  /\ bpc = "reconnect"
  /\ running' = FALSE
  /\ triggered' = TRUE
  /\ LoopHead(FALSE)
  /\ UNCHANGED <<balance, tripped, connected, hbVars, spc, omVars>>

Loop == Started \/ StartFails \/ TakeState \/ WaitTimeout \/ SafetyChecks \/ TickDone \/ TickRaised
          \/ Reconnected \/ ReconnectFailed

-----------------------------------------------------------------------------
(* The heartbeat monitor.                                                  *)

TooMany(n) == n >= MaxMissed

\* An emergency stop that does not trigger the switch.
StopWithoutTrigger ==
  /\ running' = FALSE
  /\ UNCHANGED triggered
  /\ CancelAll("heartbeat")

\* ExchangeBot._emergency_stop, up to its await.
BotEmergencyStop ==
  /\ running' = FALSE
  /\ triggered' = TRUE
  /\ CancelAll("heartbeat")

\* It wakes every interval and compares the time since the last beat with 1.5
\* intervals: certainly less if a beat came since the last wake-up, certainly
\* more if none came for two, either if none came for one.  At max_missed
\* consecutive misses it calls _emergency_stop and ends with it.
MonitorWakes ==
  /\ hpc = "sleep"
  /\ sinceBeat' = IF sinceBeat > MaxMissed THEN sinceBeat ELSE sinceBeat + 1
  /\ \/ /\ sinceBeat <= 1
        /\ missed' = 0
        /\ UNCHANGED <<hpc, running, triggered, omVars>>
     \/ /\ sinceBeat >= 1
        /\ missed' = missed + 1
        /\ \/ /\ ~TooMany(missed')
              /\ UNCHANGED <<hpc, running, triggered, omVars>>
           \/ /\ TooMany(missed')
              /\ BotEmergencyStop
              /\ hpc' = "failing"
  /\ UNCHANGED <<bpc, balance, tripped, connected, spc>>

-----------------------------------------------------------------------------
(* The API.                                                                *)

\* POST /api/control/pause
Pause ==
  /\ "pause" \in Events
  /\ triggered' = TRUE
  /\ UNCHANGED <<bpc, running, balance, tripped, connected, hbVars, spc, omVars>>

\* POST /api/control/resume
Resume ==
  /\ "resume" \in Events
  /\ triggered' = FALSE
  /\ tripped' = FALSE
  /\ UNCHANGED <<bpc, running, balance, connected, hbVars, spc, omVars>>

\* An emergency stop that cancels and lets the ticks go on.
CancelWithoutTrigger ==
  /\ "emergency" \in Events
  /\ CancelAll("api")
  /\ UNCHANGED botVars

\* POST /api/control/emergency_stop, as far as this bot is concerned.
EmergencyStop ==
  /\ "emergency" \in Events
  /\ triggered' = TRUE
  /\ CancelAll("api")
  /\ UNCHANGED <<bpc, running, balance, tripped, connected, hbVars, spc>>

-----------------------------------------------------------------------------
(* The shutdown.                                                           *)

\* Heartbeat.stop: cancel the monitor's task, with the cancel_all it may be in, and
\* await it, which raises the exception a failed _emergency_stop left in it.
HeartbeatStop ==
  \/ /\ hpc = "failing" /\ cpc["heartbeat"] = "failed"
     /\ spc' = "raised"
     /\ UNCHANGED <<hpc, cancelVars>>
  \/ /\ hpc = "failing" /\ cpc["heartbeat"] = "done"
     /\ spc' = "heartbeat"
     /\ UNCHANGED <<hpc, cancelVars>>
  \/ /\ hpc = "failing" /\ cpc["heartbeat"] \notin {"done", "failed"}
     /\ spc' = "heartbeat"
     /\ hpc' = "cancelled"
     /\ cpc' = [cpc EXCEPT !["heartbeat"] = "failed"]
     /\ cq' = [cq EXCEPT !["heartbeat"] = {}]
  \/ /\ hpc # "failing"
     /\ spc' = "heartbeat"
     /\ hpc' = IF hpc = "sleep" THEN "cancelled" ELSE hpc
     /\ UNCHANGED cancelVars

\* ExchangeBot.stop, up to its call of cancel_all.
Stop ==
  /\ "stop" \in Events
  /\ spc = "no"
  /\ running' = FALSE
  /\ HeartbeatStop
  /\ UNCHANGED <<bpc, balance, safetyVars, connected, missed, sinceBeat>>
  /\ UNCHANGED <<exchangeVars, db, memoryVars, tickVars>>

StopCancelsAll ==
  /\ spc = "heartbeat"
  /\ CancelAll("stop")
  /\ spc' = "cancelAll"
  /\ UNCHANGED <<bpc, running, balance, safetyVars, connected, hbVars>>

\* A stop that never reaches its end.
StopAlwaysRaises ==
  /\ spc = "cancelAll"
  /\ cpc["stop"] \in {"done", "failed"}
  /\ spc' = "raised"
  /\ UNCHANGED <<bpc, running, balance, safetyVars, connected, hbVars, omVars>>

\* connector.disconnect, or the exception of cancel_all, which skips it.
StopEnds ==
  /\ spc = "cancelAll"
  /\ \/ cpc["stop"] = "done" /\ spc' = "done" /\ connected' = FALSE
     \/ cpc["stop"] = "failed" /\ spc' = "raised" /\ UNCHANGED connected
  /\ UNCHANGED <<bpc, running, balance, safetyVars, hbVars, omVars>>

\* Orchestrator.stop cancels the bot's task: whatever it awaits is abandoned.  A
\* create request it was awaiting may have left already.
TaskCancelled ==
  /\ spc = "done"
  /\ bpc # "exited"
  /\ bpc' = "exited"
  /\ Return(FALSE)
  /\ \/ UNCHANGED late
     \/ pc = "create" /\ ~dry_run /\ late' = late \cup {grid[cur]}
  /\ UNCHANGED <<running, balance, safetyVars, connected, hbVars, spc>>
  /\ UNCHANGED <<nextId, order, live, db, memoryVars, cancelVars>>

Shutdown == StopCancelsAll \/ StopEnds \/ TaskCancelled

-----------------------------------------------------------------------------
OrderManagerStep ==
  /\ \/ TickStep
     \/ \E c \in Cancellers : CancelAllStep(c)
     \/ Exchange
     \/ Environment
  /\ UNCHANGED botVars

BotNext ==
  \/ Loop
  \/ MonitorWakes
  \/ Pause
  \/ Resume
  \/ EmergencyStop
  \/ Stop
  \/ Shutdown
  \/ OrderManagerStep

BotSpec == BotInit /\ [][BotNext]_vars

\* The monitor's timer alone: the run loop and the exchange may hang anywhere.
MonitorSpec == BotSpec /\ WF_vars(MonitorWakes)

\* The coroutines run, the exchange answers, the queue delivers or times out.
\* Nobody is obliged to press a button.
BotFairness ==
  /\ WF_vars(Loop)
  /\ WF_vars(Shutdown)
  /\ WF_vars(TickStep /\ UNCHANGED botVars)
  /\ WF_vars(Exchange /\ UNCHANGED botVars)
  /\ \A c \in Cancellers : WF_vars(CancelAllStep(c) /\ UNCHANGED botVars)
  /\ \A c \in Cancellers : WF_vars(ExecCancelAll(c) /\ UNCHANGED botVars)

-----------------------------------------------------------------------------
(* Properties.                                                             *)

\* q_switch.py: "Once triggered, the bot stops placing orders until manually
\* reset": with no diff_and_repost under way, none begins as long as the switch
\* stays triggered, whoever triggered it and whatever the loop was doing then.
HaltedStaysIdle ==
  [][triggered /\ triggered' /\ pc = "idle" => pc' = "idle"]_vars

\* If nothing hangs, the diff_and_repost a trigger did not interrupt comes to an end.
TriggerEndsPlacing == BotFairness => (triggered ~> (pc = "idle" \/ ~triggered))

\* A run loop that stops beating, wherever it hangs for good, gets the Q-Switch triggered,
\* unless the monitor is itself being shut down.
StallTriggersSwitch == (hpc = "sleep") ~> (sinceBeat = 0 \/ triggered \/ spc # "no")

\* The monitor never counts a miss while beats keep coming: missed wake-ups are
\* consecutive ones, none of which found a beat.
MissesAreConsecutive == missed <= sinceBeat

\* If nothing hangs, the run loop ends after stop, whatever it was doing, when
\* cancel_all succeeds.
StopEndsLoop ==
  BotFairness => ((spc = "heartbeat") ~> (bpc = "exited" \/ cpc["stop"] = "failed"))

-----------------------------------------------------------------------------
(* What the documentation says of the code.                                *)

\* docs/API.md, answer of emergency_stop: "All orders cancelled. Manual API resume
\* required."  Once its cancel_all succeeded and no tick or request is under way,
\* nothing rests on the book as long as nobody resumes.
EmergencyLeavesNothing ==
  cpc["api"] = "done" /\ triggered /\ pc = "idle" /\ late = {} => live = {}

=============================================================================
