------------------------------- MODULE Process -------------------------------
(***************************************************************************)
(* main.py with the life cycle of core/orchestrator.py, of                 *)
(* core/regime_master.py and of core/paper_trader.py: how the process      *)
(* starts, how a signal, a lost database or a crash ends it, and the       *)
(* emergency stop of all bots.                                             *)
(*                                                                         *)
(* main gathers three coroutines: run_server, run_bot, which connects the  *)
(* database and then starts the orchestrator, and wait_for_shutdown.  The  *)
(* orchestrator in its turn gathers one task for each bot and each paper   *)
(* trader, the price loop and the regime master.  What a bot does in its   *)
(* task and in its stop is ExchangeBot's; here its stop ends or raises.    *)
(***************************************************************************)
EXTENDS Naturals, FiniteSets

CONSTANTS
  Enabled,  \* the exchanges of the configuration
  Retries   \* DB_CONNECT_RETRIES

ASSUME ProcessAssumption == Retries \in Nat \ {0} /\ IsFiniteSet(Enabled)

VARIABLES
  signalled,  \* a SIGTERM or SIGINT came
  event,      \* shutdown_event is set
  server,     \* "serving", "leaving" (should_exit) or "exited"
  runBot,     \* run_bot: "connect", "gather" or "done"
  attempts,   \* attempts to connect the database
  db,         \* "down", "up" or "closed"
  built,      \* the bots of app.state.orchestrator; Orchestrator._bots
  traders,    \* Orchestrator._paper_traders
  launched,   \* app.state.orchestrator is set
  looping,    \* Orchestrator._running
  tasks,      \* Orchestrator._tasks that have not ended
  cancelled,  \* they were cancelled
  waiter,     \* wait_for_shutdown: "wait", "bots", "traders", "master", "exit",
              \* "done" or "raised"
  left,       \* what the loop it is in has left to stop
  stopped,    \* the bots and paper traders whose stop has ended
  found,      \* it found an orchestrator
  alarm,      \* emergency_stop_all: "none", "under way", "answered" or "failed"
  untouched,  \* the bots it has not come to
  halted      \* the bots whose Q-Switch it triggered

mainVars  == <<signalled, event, server, runBot, attempts, db>>
lifeVars  == <<built, traders, launched, looping, tasks, cancelled>>
waitVars  == <<waiter, left, stopped, found>>
alarmVars == <<alarm, untouched, halted>>
procVars  == <<mainVars, lifeVars, waitVars, alarmVars>>

BotTask(e)   == <<"bot", e>>
PaperTask(e) == <<"paper", e>>
LoopTasks    == {<<"price">>, <<"master">>}

ProcInit ==
  /\ signalled = FALSE /\ event = FALSE
  /\ server = "serving"
  /\ runBot = "connect" /\ attempts = 0 /\ db = "down"
  /\ built = {} /\ traders = {} /\ launched = FALSE /\ looping = FALSE /\ tasks = {} /\ cancelled = FALSE
  /\ waiter = "wait" /\ left = {} /\ stopped = {} /\ found = FALSE
  /\ alarm = "none" /\ untouched = {} /\ halted = {}

-----------------------------------------------------------------------------
(* The signal and the server.                                              *)

\* handle_signal; uvicorn handles the signal as well, and leaves.
Signal ==
  /\ ~signalled
  /\ signalled' = TRUE
  /\ event' = TRUE
  /\ server' = IF server = "serving" THEN "leaving" ELSE server
  /\ UNCHANGED <<runBot, attempts, db, lifeVars, waitVars, alarmVars>>

ServerExits ==
  /\ server = "leaving"
  /\ server' = "exited"
  /\ UNCHANGED <<signalled, event, runBot, attempts, db, lifeVars, waitVars, alarmVars>>

-----------------------------------------------------------------------------
(* run_bot and Orchestrator.start.                                         *)

\* connect_db_with_retries: after the last attempt run_bot gives up.
ConnectFails ==
  /\ runBot = "connect"
  /\ attempts' = attempts + 1
  /\ IF attempts' < Retries THEN UNCHANGED <<runBot, event>>
     ELSE runBot' = "done" /\ event' = TRUE
  /\ UNCHANGED <<signalled, server, db, lifeVars, waitVars, alarmVars>>

\* The database is connected; the orchestrator is made and started without another
\* await, up to its gather.  Building a connector may raise, which leaves the bots
\* built before and no task.  A paper trader exists in dry-run mode, unless building
\* it failed.
Start ==
  /\ runBot = "connect"
  /\ attempts < Retries
  /\ db' = "up"
  /\ launched' = TRUE
  /\ looping' = TRUE
  /\ built' \in SUBSET Enabled
  /\ traders' \in SUBSET built'
  /\ \/ /\ built' # Enabled
        /\ runBot' = "done" /\ event' = TRUE
        /\ UNCHANGED tasks
     \/ /\ built' = Enabled
        /\ tasks' = {BotTask(e) : e \in built'} \cup {PaperTask(e) : e \in traders'} \cup LoopTasks
        /\ runBot' = "gather" /\ UNCHANGED event
  /\ UNCHANGED <<signalled, server, attempts, cancelled, waitVars, alarmVars>>

\* A task ends: a bot or a paper trader that could not connect, that halted or was
\* stopped; the price loop once _running is false; any task once cancelled.
TaskEnds(t) ==
  /\ t \in tasks
  /\ t \in LoopTasks => cancelled \/ (t = <<"price">> /\ ~looping)
  /\ tasks' = tasks \ {t}
  /\ UNCHANGED <<mainVars, built, traders, launched, looping, cancelled, waitVars, alarmVars>>

\* The gather of start returns.
StartReturns ==
  /\ runBot = "gather"
  /\ tasks = {}
  /\ runBot' = "done"
  /\ event' = TRUE
  /\ UNCHANGED <<signalled, server, attempts, db, lifeVars, waitVars, alarmVars>>

RunBot == ConnectFails \/ Start \/ StartReturns

-----------------------------------------------------------------------------
(* wait_for_shutdown and Orchestrator.stop.                                *)

\* The event is set: stop the orchestrator, if there is one.
ShutdownBegins ==
  /\ waiter = "wait"
  /\ event
  /\ found' = launched
  /\ IF launched THEN waiter' = "bots" /\ looping' = FALSE /\ left' = built
     ELSE waiter' = "exit" /\ UNCHANGED <<looping, left>>
  /\ UNCHANGED <<mainVars, built, traders, launched, tasks, cancelled, stopped, alarmVars>>

\* A stop whose exception does not keep the others from being stopped.
StopSwallowed(e) ==
  /\ left' = left \ {e}
  /\ UNCHANGED <<waiter, stopped>>

\* bot.stop or pt.stop raises, and stop with it.
StopRaises(e) ==
  /\ waiter' = "raised"
  /\ UNCHANGED <<left, stopped>>

\* The loops of stop, one after the other: each awaits the stop of each bot, then of
\* each paper trader.
StopOne(e) ==
  /\ waiter \in {"bots", "traders"}
  /\ e \in left
  /\ \/ /\ stopped' = stopped \cup {<<waiter, e>>}
        /\ left' = left \ {e}
        /\ UNCHANGED waiter
     \/ StopRaises(e)
  /\ UNCHANGED <<mainVars, lifeVars, found, alarmVars>>

NextLoop ==
  /\ left = {}
  /\ \/ waiter = "bots" /\ waiter' = "traders" /\ left' = traders
     \/ waiter = "traders" /\ waiter' = "master" /\ UNCHANGED left
  /\ UNCHANGED <<mainVars, lifeVars, stopped, found, alarmVars>>

\* A stop that leaves the tasks to themselves.
StopWithoutCancel ==
  /\ waiter = "master"
  /\ tasks' = tasks \ {<<"master">>}
  /\ waiter' = "exit"
  /\ UNCHANGED <<mainVars, built, traders, launched, looping, cancelled, left, stopped, found, alarmVars>>

\* RegimeMaster.stop, which cancels and awaits its task; then stop cancels them all.
StopMaster ==
  /\ waiter = "master"
  /\ tasks' = tasks \ {<<"master">>}
  /\ cancelled' = TRUE
  /\ waiter' = "exit"
  /\ UNCHANGED <<mainVars, built, traders, launched, looping, left, stopped, found, alarmVars>>

\* server.should_exit, and db.disconnect.
Exit ==
  /\ waiter = "exit"
  /\ server' = IF server = "serving" THEN "leaving" ELSE server
  /\ db' = "closed"
  /\ waiter' = "done"
  /\ UNCHANGED <<signalled, event, runBot, attempts, lifeVars, left, stopped, found, alarmVars>>

Shutdown == ShutdownBegins \/ (\E e \in Enabled : StopOne(e)) \/ NextLoop \/ StopMaster \/ Exit

-----------------------------------------------------------------------------
(* emergency_stop_all.                                                     *)

\* POST /api/control/emergency_stop, which the server takes while it serves.
Alarm ==
  /\ alarm = "none"
  /\ server = "serving" /\ launched
  /\ alarm' = "under way"
  /\ untouched' = built
  /\ UNCHANGED <<mainVars, lifeVars, waitVars, halted>>

\* The next bot: its switch is triggered, then its cancel_all is awaited, which ends
\* or raises.
AlarmNext(e) ==
  /\ alarm = "under way"
  /\ e \in untouched
  /\ untouched' = untouched \ {e}
  /\ halted' = halted \cup {e}
  /\ \/ UNCHANGED alarm
     \/ alarm' = "failed"
  /\ UNCHANGED <<mainVars, lifeVars, waitVars>>

AlarmAnswered ==
  /\ alarm = "under way"
  /\ untouched = {}
  /\ alarm' = "answered"
  /\ UNCHANGED <<mainVars, lifeVars, waitVars, untouched, halted>>

-----------------------------------------------------------------------------
ProcNext ==
  \/ Signal
  \/ ServerExits
  \/ RunBot
  \/ \E t \in tasks : TaskEnds(t)
  \/ Shutdown
  \/ Alarm
  \/ \E e \in Enabled : AlarmNext(e)
  \/ AlarmAnswered

\* The coroutines run, the server leaves when told to, and a cancelled task ends.
ProcFairness ==
  /\ WF_procVars(ServerExits)
  /\ WF_procVars(RunBot)
  /\ WF_procVars(Shutdown)
  /\ WF_procVars(cancelled /\ \E t \in tasks : TaskEnds(t))

ProcSpec == ProcInit /\ [][ProcNext]_procVars /\ ProcFairness

-----------------------------------------------------------------------------
(* Properties.                                                             *)

\* main's gather has returned.
Exited == server = "exited" /\ runBot = "done" /\ waiter \in {"done", "raised"}

\* wait_for_shutdown, run_bot: a signal that finds the orchestrator running ends the
\* process, whatever the bots and traders are doing, unless a stop raises.
ShutdownEnds ==
  (signalled /\ runBot = "gather" /\ waiter = "wait") ~> (Exited \/ waiter = "raised")

\* Orchestrator.stop, wait_for_shutdown, emergency_stop_all: what is reported as done
\* has reached everyone.  The database is closed by a shutdown that found an
\* orchestrator only after every bot and every paper trader was stopped, however the
\* tasks end meanwhile.  An emergency stop halts the bots it came to even if cancelling
\* their orders fails, and its answer means that all of them are halted.
DoneMeansAllReached ==
  /\ waiter = "done" /\ found =>
       /\ \A e \in built : <<"bots", e>> \in stopped
       /\ \A e \in traders : <<"traders", e>> \in stopped
  /\ alarm # "none" => halted = built \ untouched
  /\ alarm = "answered" => halted = built

=============================================================================
