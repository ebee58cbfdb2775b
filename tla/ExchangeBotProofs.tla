-------------------------- MODULE ExchangeBotProofs --------------------------
(***************************************************************************)
(* Theorems about ExchangeBot: what is proved of the order manager alone   *)
(* holds in the bot that stops and cancels it, and what the bot adds.      *)
(***************************************************************************)
EXTENDS ExchangeBot, OrderManagerProofs

-----------------------------------------------------------------------------
(* What the bot does to its order manager.                                 *)

\* A step of the bot is a step of the order manager, the end of the awaited
\* request of a cancelled task, or the end of the monitor's cancel_all.
LEMMA ManagerStep ==
  ASSUME [BotNext]_vars
  PROVE  [Next]_omVars \/ TaskCancelled \/ Stop
  <1>a. {"api", "heartbeat", "stop"} \subseteq Cancellers
    BY BotAssumption
  <1>1. CASE UNCHANGED vars
    BY <1>1 DEF vars
  <1>2. CASE Loop
    <2>1. CASE SafetyChecks
      BY <2>1 DEF SafetyChecks, SkipTick, Next, Tick
    <2>2. CASE Started \/ StartFails \/ TakeState \/ WaitTimeout \/ TickDone \/ TickRaised
                 \/ Reconnected \/ ReconnectFailed
      BY <2>2 DEF Started, StartFails, TakeState, WaitTimeout, TickDone, TickRaised,
                  Reconnected, ReconnectFailed
    <2> QED
      BY <1>2, <2>1, <2>2 DEF Loop
  <1>3. CASE MonitorWakes
    BY <1>3, <1>a DEF MonitorWakes, BotEmergencyStop, Next
  <1>4. CASE Pause \/ Resume
    BY <1>4 DEF Pause, Resume
  <1>5. CASE EmergencyStop
    BY <1>5, <1>a DEF EmergencyStop, Next
  <1>6. CASE StopCancelsAll \/ StopEnds
    BY <1>6, <1>a DEF StopCancelsAll, StopEnds, Next
  <1>7. CASE OrderManagerStep
    BY <1>7 DEF OrderManagerStep, Next, Tick
  <1> QED
    BY <1>1, <1>2, <1>3, <1>4, <1>5, <1>6, <1>7 DEF BotNext, Shutdown

\* The two others touch neither the book, nor the rows, nor what the order manager
\* remembers.
LEMMA ShutdownStep ==
  ASSUME TaskCancelled \/ Stop
  PROVE  /\ UNCHANGED <<nextId, order, live, db, memoryVars>>
         /\ pc' = "idle" \/ UNCHANGED tickVars
  BY DEF TaskCancelled, Stop, Return, exchangeVars

LEMMA ShutdownType ==
  ASSUME TypeOK, TaskCancelled \/ Stop
  PROVE  TypeOK'
  <1>1. CASE TaskCancelled
    <2>1. MemoryTypeOK' /\ CancelTypeOK'
      BY <1>1, Untouched DEF TaskCancelled
    <2>2. TickTypeOK'
      BY <1>1, ReturnType DEF TaskCancelled
    <2>3. late' \subseteq Levels
      <3>1. pc = "create" => grid[cur] \in Levels
        BY DEF TypeOK, TickTypeOK
      <3>2. late \subseteq Levels
        BY DEF TypeOK, ExchangeTypeOK
      <3>3. late' = late \/ (pc = "create" /\ late' = late \cup {grid[cur]})
        BY <1>1 DEF TaskCancelled
      <3> QED
        BY <3>1, <3>2, <3>3
    <2>4. ExchangeTypeOK'
      BY <1>1, <2>3 DEF TaskCancelled, TypeOK, ExchangeTypeOK
    <2> QED
      BY <2>1, <2>2, <2>4 DEF TypeOK
  <1>2. CASE Stop
    <2>1. ExchangeTypeOK' /\ MemoryTypeOK' /\ TickTypeOK' /\ nextId' = nextId
      BY <1>2, Untouched DEF Stop, exchangeVars
    <2>2. \/ UNCHANGED cancelVars
          \/ /\ cpc' = [cpc EXCEPT !["heartbeat"] = "failed"]
             /\ cq' = [cq EXCEPT !["heartbeat"] = {}]
      BY <1>2 DEF Stop, HeartbeatStop
    <2>3. CancelTypeOK'
      BY <2>1, <2>2 DEF TypeOK, CancelTypeOK, cancelVars
    <2> QED
      BY <2>1, <2>3 DEF TypeOK
  <1> QED
    BY <1>1, <1>2

\* The order manager's inductive invariant is one of the bot's.
LEMMA ManagerInvariant == BotSpec => []IInv
  <1>1. BotInit => IInv
    BY IInvInit DEF BotInit
  <1>2. IInv /\ [BotNext]_vars => IInv'
    <2> SUFFICES ASSUME IInv, TaskCancelled \/ Stop PROVE IInv'
      BY ManagerStep, IInvNext
    <2>1. TypeOK'
      BY ShutdownType DEF IInv
    <2>2. FilledMeansGone' /\ NoRowYet'
      BY ShutdownStep DEF IInv, FilledMeansGone, NoRowYet
    <2>3. MissingAreGone' /\ NewHasNoRow'
      BY ShutdownStep DEF IInv, MissingAreGone, NewHasNoRow, tickVars, memoryVars
    <2> QED
      BY <2>1, <2>2, <2>3 DEF IInv
  <1> QED
    BY <1>1, <1>2, PTL DEF BotSpec

\* An order whose row says "filled" is not on the book, in the bot whose task is
\* cancelled at any await and whose shutdown abandons a cancel_all.
THEOREM FilledOrdersAreGoneInTheBot == BotSpec => []FilledMeansGone
  <1>1. IInv => FilledMeansGone
    BY DEF IInv
  <1> QED
    BY <1>1, ManagerInvariant, PTL

\* A row that says "filled" or "canceled" never says "open" again, in the bot.
THEOREM TerminalRowsInTheBot == BotSpec => TerminalRowsStayTerminal
  <1>1. IInv /\ [BotNext]_vars
          => [\A i \in Ids : db[i] \in {"filled", "canceled"}
                               => db'[i] \in {"filled", "canceled"}]_db
    <2> SUFFICES ASSUME IInv, [BotNext]_vars,
                        NEW i \in Ids, db[i] \in {"filled", "canceled"}
                 PROVE  db'[i] \in {"filled", "canceled"}
      OBVIOUS
    <2>1. pc = "createRow" => db[cur] = "none"
      BY DEF IInv, NewHasNoRow
    <2>2. CASE [Next]_omVars
      BY <2>1, <2>2, RowStep DEF IInv
    <2>3. CASE TaskCancelled \/ Stop
      BY <2>3, ShutdownStep
    <2> QED
      BY <2>2, <2>3, ManagerStep
  <1> QED
    BY <1>1, ManagerInvariant, PTL DEF BotSpec, TerminalRowsStayTerminal

-----------------------------------------------------------------------------
(* Halting.                                                                *)

\* Nothing but Begin starts a diff_and_repost.
LEMMA OnlyBeginStarts ==
  ASSUME pc = "idle", OrderManagerStep
  PROVE  pc' = "idle"
  <1>1. ~TickStep
    BY DEF TickStep, SyncOpenOrders, SyncMark, SyncSkipped, CancelOne, CancelOneRow,
           CancelOneRaises, PlaceOne, PlaceOneRow, PlaceOneRaises
  <1>2. ~ExecFetch /\ ~ExecCancel /\ ~ExecCreate
    BY DEF ExecFetch, ExecCancel, ExecCreate
  <1> QED
    BY <1>1, <1>2 DEF OrderManagerStep, CancelAllStep, CancelAllAnswered, CancelAllRow,
         CancelAllRaises, Exchange, ExecCancelAll, Environment, Leave, ExecLate, AgeOut,
         tickVars

\* The only call of diff_and_repost is behind QSwitch.check, in the same stretch of
\* _tick between two awaits.
LEMMA HaltedStep ==
  ASSUME [BotNext]_vars, triggered, triggered', pc = "idle"
  PROVE  pc' = "idle"
  <1>1. CASE Loop
    <2>1. CASE SafetyChecks
      BY <2>1 DEF SafetyChecks, Halts, SkipTick, omVars
    <2>2. CASE Started \/ StartFails \/ TakeState \/ WaitTimeout \/ TickDone \/ TickRaised
                 \/ Reconnected \/ ReconnectFailed
      BY <2>2 DEF Started, StartFails, TakeState, WaitTimeout, TickDone, TickRaised,
                  Reconnected, ReconnectFailed, omVars
    <2> QED
      BY <1>1, <2>1, <2>2 DEF Loop
  <1>2. CASE MonitorWakes \/ Pause \/ Resume \/ EmergencyStop
    BY <1>2 DEF MonitorWakes, BotEmergencyStop, Pause, Resume, EmergencyStop, CancelAll,
                omVars, tickVars
  <1>3. CASE Stop \/ TaskCancelled
    BY <1>3, ShutdownStep DEF tickVars
  <1>4. CASE StopCancelsAll \/ StopEnds \/ UNCHANGED vars
    BY <1>4 DEF StopCancelsAll, StopEnds, CancelAll, vars, omVars, tickVars
  <1>5. CASE OrderManagerStep
    BY <1>5, OnlyBeginStarts
  <1> QED
    BY <1>1, <1>2, <1>3, <1>4, <1>5 DEF BotNext, Shutdown

\* While the switch stays triggered no diff_and_repost begins, whoever triggered it and
\* whatever the loop was doing then.
THEOREM HaltedBotsStayIdle == BotSpec => HaltedStaysIdle
  <1>1. [BotNext]_vars => [triggered /\ triggered' /\ pc = "idle" => pc' = "idle"]_vars
    BY HaltedStep
  <1> QED
    BY <1>1, PTL DEF BotSpec, HaltedStaysIdle

-----------------------------------------------------------------------------
(* The heartbeat monitor.                                                  *)

\* The monitor runs only after start, and as long as it runs the misses are below the
\* bound it stops at; MissesAreConsecutive alone would not survive the cap on the
\* wake-ups counted since the last beat.
MonitorInv ==
  /\ missed \in Nat
  /\ sinceBeat \in Nat
  /\ MissesAreConsecutive
  /\ bpc = "starting" => hpc = "none" /\ missed = 0
  /\ hpc = "sleep" => missed < MaxMissed

LEMMA MonitorStep == MonitorInv /\ [BotNext]_vars => MonitorInv'
  <1> SUFFICES ASSUME MonitorInv, [BotNext]_vars PROVE MonitorInv'
    OBVIOUS
  <1>a. MaxMissed \in Nat \ {0}
    BY BotAssumption
  <1> USE DEF MonitorInv, MissesAreConsecutive
  <1>1. CASE Started
    BY <1>1, <1>a DEF Started
  <1>2. CASE MonitorWakes
    <2>1. bpc # "starting" /\ bpc' = bpc /\ missed < MaxMissed
      BY <1>2 DEF MonitorWakes
    <2>2. CASE sinceBeat <= 1 /\ missed' = 0 /\ UNCHANGED hpc
      BY <1>2, <1>a, <2>1, <2>2 DEF MonitorWakes
    <2>3. CASE /\ missed' = missed + 1
               /\ (~TooMany(missed') /\ UNCHANGED hpc) \/ hpc' = "failing"
      BY <1>2, <1>a, <2>1, <2>3 DEF MonitorWakes, TooMany
    <2> QED
      BY <1>2, <2>2, <2>3 DEF MonitorWakes
  <1>3. CASE SafetyChecks \/ TickDone
    <2>1. /\ bpc # "starting" /\ bpc' # "starting" /\ hpc' = hpc
          /\ (missed' = 0 /\ sinceBeat' = 0) \/ UNCHANGED <<missed, sinceBeat>>
      BY <1>3 DEF SafetyChecks, TickDone, SkipTick, Beat, LoopHead
    <2> QED
      BY <2>1, <1>a
  <1>4. CASE Stop
    <2>1. UNCHANGED <<bpc, missed, sinceBeat>> /\ (hpc' = hpc \/ (hpc # "none" /\ hpc' = "cancelled"))
      BY <1>4 DEF Stop, HeartbeatStop
    <2> QED
      BY <2>1
  <1>5. CASE \/ StartFails \/ TakeState \/ WaitTimeout \/ TickRaised \/ Reconnected
             \/ ReconnectFailed \/ Pause \/ Resume \/ EmergencyStop
             \/ StopCancelsAll \/ StopEnds \/ TaskCancelled \/ OrderManagerStep
             \/ UNCHANGED vars
    <2>1. UNCHANGED hbVars /\ (bpc' = bpc \/ bpc' # "starting")
      BY <1>5 DEF StartFails, TakeState, WaitTimeout, TickRaised, Reconnected,
           ReconnectFailed, Pause, Resume, EmergencyStop, StopCancelsAll, StopEnds,
           TaskCancelled, OrderManagerStep, LoopHead, vars, botVars, hbVars
    <2> QED
      BY <2>1 DEF hbVars
  <1> QED
    BY <1>1, <1>2, <1>3, <1>4, <1>5 DEF BotNext, Loop, Shutdown

\* The monitor never counts a miss while beats keep coming.
THEOREM CountedMissesAreConsecutive == BotSpec => []MissesAreConsecutive
  <1>1. BotInit => MonitorInv
    BY DEF BotInit, MonitorInv, MissesAreConsecutive
  <1>2. MonitorInv => MissesAreConsecutive
    BY DEF MonitorInv
  <1> QED
    BY <1>1, <1>2, MonitorStep, PTL DEF BotSpec

-----------------------------------------------------------------------------
(* One order per level.                                                    *)

\* No two levels of a grid lie within the tolerance of each other.
SpacedGrids ==
  \A g \in Grids : \A k, l \in DOMAIN g : k < l => ~Near(g[k].price, g[l].price)

\* The requests whose failure lets diff_and_repost compare the grid with a list of
\* orders that misses some: a failed sync, a create executed after its tick.
ListsAreComplete == Faults \cap {"fetch", "late", "db"} = {}

\* The switch is not reset, and no cancel_all is called without it.
HaltsAreFinal == Events \cap {"resume", "stop"} = {}

\* diff_and_repost, up to the comparison.
Preparing == pc \in {"fetch", "fetched", "mark"} \/ stage = "age"

\* The level k of the grid has no order near it.
Free(k) == \A i \in Book : ~Near(order[i].price, grid[k].price)

\* What is still to be placed is free, and placed in grid order.
PlacementsFree ==
  /\ \A k \in toPlace : Free(k)
  /\ pc = "create" => Free(cur) /\ \A k \in toPlace : cur < k

\* Before the comparison, what rests on the book is in the list the exchange sent, or
\* already adopted; what the sync is about to remove is still there, unless a
\* cancel_all emptied the book first.
BookIsKnown ==
  /\ pc = "fetched" => live \subseteq snap
  /\ pc = "mark" => live \subseteq snap /\ (markQ \subseteq open \/ live = {})
  /\ stage = "age" => live \subseteq open
  /\ pc = "cancelled" => cur \notin live

StageInv ==
  /\ stage = "age" => pc \in {"cancel", "cancelled", "cancelRow"}
  /\ pc # "idle" => grid \in Grids
  /\ dry_run => live = {} /\ pc \notin {"fetched", "mark", "cancelled", "createdAck"}

\* A cancel_all runs only in a halted bot; if the exchange executed it before the
\* comparison, the book is empty until the placements.
CancelsHalt ==
  /\ late = {}
  /\ spc = "no"
  /\ \A c \in Cancellers : cpc[c] # "idle" => triggered
  /\ \A c \in Cancellers : Preparing /\ cpc[c] \in {"answered", "rows"} => live = {}

BookInv ==
  /\ TypeOK
  /\ StageInv
  /\ CancelsHalt
  /\ BookIsKnown
  /\ PlacementsFree
  /\ NoDuplicateLevel

\* A step of a bot whose halts are final.
LEMMA FinalHaltStep ==
  ASSUME HaltsAreFinal, TypeOK, spc = "no", [BotNext]_vars
  PROVE  /\ [Next]_omVars
         /\ spc' = "no"
         /\ triggered => triggered'
         /\ \A c \in Cancellers : cpc[c] = "idle" /\ cpc'[c] # "idle" => triggered'
  <1>a. ~Stop /\ ~TaskCancelled /\ ~Resume /\ ~StopCancelsAll /\ ~StopEnds
    BY DEF HaltsAreFinal, Stop, TaskCancelled, Resume, StopCancelsAll, StopEnds
  <1>b. cpc \in [Cancellers -> {"idle", "request", "answered", "rows", "done", "failed"}]
    BY DEF TypeOK, CancelTypeOK
  <1>1. [Next]_omVars
    BY <1>a, ManagerStep
  <1>2. CASE Loop
    <2>1. UNCHANGED <<spc, cpc>> /\ (triggered => triggered')
      <3>1. CASE Started \/ StartFails \/ TakeState \/ WaitTimeout
        BY <3>1 DEF Started, StartFails, TakeState, WaitTimeout, safetyVars, cancelVars, omVars
      <3>2. CASE SafetyChecks
        BY <3>2 DEF SafetyChecks, SkipTick, Begin, safetyVars, cancelVars, omVars
      <3>3. CASE TickDone \/ TickRaised \/ Reconnected
        BY <3>3 DEF TickDone, TickRaised, Reconnected, safetyVars, cancelVars, omVars
      <3>4. CASE ReconnectFailed
        <4>1. triggered' = TRUE /\ UNCHANGED <<spc, omVars>>
          BY <3>4 DEF ReconnectFailed
        <4>2. triggered'
          BY <4>1
        <4> QED
          BY <4>1, <4>2 DEF omVars, cancelVars
      <3> QED
        BY <1>2, <3>1, <3>2, <3>3, <3>4 DEF Loop
    <2> QED
      BY <1>1, <2>1
  <1>3. CASE MonitorWakes
    <2>1. spc' = "no" /\ (UNCHANGED <<triggered, cpc>> \/ triggered' = TRUE)
      BY <1>3 DEF MonitorWakes, BotEmergencyStop, omVars
    <2> QED
      BY <1>1, <2>1
  <1>4. CASE Pause \/ EmergencyStop
    <2>1. spc' = "no" /\ triggered' = TRUE
      BY <1>4 DEF Pause, EmergencyStop
    <2> QED
      BY <1>1, <2>1
  <1>5. CASE OrderManagerStep \/ UNCHANGED vars
    <2>1. UNCHANGED <<spc, triggered>>
      BY <1>5 DEF OrderManagerStep, botVars, vars
    <2>2. \A c \in Cancellers : cpc[c] = "idle" => cpc'[c] = "idle"
      <3>1. CASE UNCHANGED cpc
        BY <3>1
      <3>2. ASSUME NEW c \in Cancellers, CancelAllStep(c) \/ ExecCancelAll(c)
            PROVE  \A d \in Cancellers : cpc[d] = "idle" => cpc'[d] = "idle"
        BY <3>2, <1>b DEF CancelAllStep, CancelAllAnswered, CancelAllRow, CancelAllRaises,
                          ExecCancelAll, ListOpen
      <3>3. CASE TickStep \/ Environment \/ ExecFetch \/ ExecCancel \/ ExecCreate
                   \/ UNCHANGED vars
        <4>1. UNCHANGED cpc
          BY <3>3 DEF TickStep, SyncOpenOrders, SyncMark, SyncSkipped, CancelOne,
               CancelOneRow, CancelOneRaises, PlaceOne, PlaceOneRow, PlaceOneRaises,
               Environment, Leave, ExecLate, AgeOut, ExecFetch, ExecCancel, ExecCreate,
               cancelVars, vars, omVars
        <4> QED
          BY <4>1
      <3> QED
        BY <1>5, <3>2, <3>3 DEF OrderManagerStep, Exchange
    <2> QED
      BY <1>1, <2>1, <2>2
  <1> QED
    BY <1>a, <1>2, <1>3, <1>4, <1>5 DEF BotNext, Shutdown, vars

\* The comparison finds the levels that are free, if it knows the whole book.
LEMMA MissingLevelsAreFree ==
  ASSUME NEW S, Book \subseteq S
  PROVE  \A k \in FindMissingLevels(S, grid) : Free(k)
  BY DEF FindMissingLevels, Free

LEMMA PlaceNextFree ==
  ASSUME Book' \subseteq Book, order' = order, grid \in Seq(Levels),
         NEW todo \in SUBSET DOMAIN grid, \A k \in todo : Free(k), PlaceNext(todo)
  PROVE  PlacementsFree'
  <1> DEFINE real == {k \in todo : Placeable(grid, k)}
  <1>1. CASE Return(FALSE)
    BY <1>1 DEF Return, PlacementsFree
  <1>2. ASSUME NEW k \in real, \A j \in real : k <= j, pc' = "create", cur' = k,
               toPlace' = real \ {k}, UNCHANGED grid
        PROVE  PlacementsFree'
    <2>1. \A j \in toPlace' : k < j
      <3>1. DOMAIN grid \subseteq Nat
        OBVIOUS
      <3> QED
        BY <1>2, <3>1
    <2>2. \A j \in real : Free(j)'
      BY <1>2 DEF Free
    <2> QED
      BY <1>2, <2>1, <2>2 DEF PlacementsFree
  <1> QED
    BY <1>1, <1>2 DEF PlaceNext

LEMMA CancelNextFree ==
  ASSUME Book' \subseteq Book, order' = order, grid \in Seq(Levels), NEW stale,
         NEW todo \in SUBSET DOMAIN grid, \A k \in todo : Free(k), CancelNext(stale, todo)
  PROVE  PlacementsFree'
  <1>1. CASE PlaceNext(todo)
    BY <1>1, PlaceNextFree
  <1>2. CASE toPlace' = todo /\ pc' = "cancel" /\ UNCHANGED grid
    BY <1>2 DEF PlacementsFree, Free
  <1> QED
    BY <1>1, <1>2 DEF CancelNext

LEMMA AgeNextFree ==
  ASSUME Book' \subseteq Book, order' = order, grid \in Seq(Levels), NEW S, Book \subseteq S,
         NEW todo, AgeNext(todo, S)
  PROVE  PlacementsFree'
  <1>1. CASE Diff(S)
    <2>1. FindMissingLevels(S, grid) \in SUBSET DOMAIN grid
      BY DEF FindMissingLevels
    <2> QED
      BY <1>1, <2>1, MissingLevelsAreFree, CancelNextFree DEF Diff
  <1>2. CASE toPlace' = {} /\ pc' = "cancel"
    BY <1>2 DEF PlacementsFree
  <1> QED
    BY <1>1, <1>2 DEF AgeNext

\* After a loop of diff_and_repost the tick is past the comparison, or awaits the
\* cancellation of an aged order.
LEMMA LoopsKeepStage ==
  /\ \A e : Return(e) => stage' = "diff"
  /\ \A S : PlaceNext(S) => stage' = "diff" /\ (pc' = "idle" \/ grid' = grid)
  /\ \A S, T : CancelNext(S, T) => stage' = "diff" /\ (pc' = "idle" \/ grid' = grid)
  /\ \A S, T : AgeNext(S, T) =>
                 (stage' = "diff" \/ pc' = "cancel") /\ (pc' = "idle" \/ grid' = grid)
  /\ \A S : CancelStaleByAge(S) =>
              (stage' = "diff" \/ pc' = "cancel") /\ (pc' = "idle" \/ grid' = grid)
  /\ \A S : Adopt(S) =>
              (stage' = "diff" \/ pc' = "cancel") /\ (pc' = "idle" \/ grid' = grid)
  <1>1. \A e : Return(e) => stage' = "diff" /\ pc' = "idle"
    BY DEF Return
  <1>2. \A S : PlaceNext(S) => stage' = "diff" /\ (pc' = "idle" \/ grid' = grid)
    BY <1>1 DEF PlaceNext
  <1>3. \A S, T : CancelNext(S, T) => stage' = "diff" /\ (pc' = "idle" \/ grid' = grid)
    BY <1>2 DEF CancelNext
  <1>4. \A S, T : AgeNext(S, T) =>
                    (stage' = "diff" \/ pc' = "cancel") /\ (pc' = "idle" \/ grid' = grid)
    BY <1>3 DEF AgeNext, Diff
  <1> QED
    BY <1>1, <1>2, <1>3, <1>4 DEF CancelStaleByAge, Adopt

LEMMA StageStep ==
  ASSUME ListsAreComplete, TypeOK, StageInv, late = {}, [Next]_omVars
  PROVE  /\ StageInv'
         /\ Preparing' => Preparing \/ (pc = "idle" /\ pc' # "idle")
         /\ Preparing => live' \subseteq live
  <1> USE DEF StageInv, Preparing
  <1>a. stage \in {"age", "diff"} /\ cur \in Nat
    BY DEF TypeOK, TickTypeOK
  <1>1. CASE SyncOpenOrders
    BY <1>1, LoopsGoOn, LoopsKeepStage DEF SyncOpenOrders, exchangeVars
  <1>2. CASE SyncMark
    BY <1>2, LoopsGoOn, LoopsKeepStage DEF SyncMark, exchangeVars
  <1>3. CASE SyncSkipped
    BY <1>3, LoopsGoOn, LoopsKeepStage
       DEF SyncSkipped, exchangeVars, memoryVars, ListsAreComplete
  <1>4. CASE CancelOneRow
    <2>1. live' = live /\ dry_run' = dry_run
      BY <1>4 DEF CancelOneRow, exchangeVars, memoryVars
    <2>2. CASE stage = "age" /\ AgeNext(ageQ, open)
      BY <1>4, <2>1, <2>2, LoopsGoOn, LoopsKeepStage DEF CancelOneRow
    <2>3. CASE stage = "diff" /\ CancelNext(toCancel, toPlace)
      BY <1>4, <2>1, <2>3, LoopsGoOn, LoopsKeepStage DEF CancelOneRow
    <2> QED
      BY <1>4, <2>2, <2>3 DEF CancelOneRow
  <1>5. CASE PlaceOneRow \/ PlaceOneRaises \/ CancelOneRaises
    <2>1. live' = live /\ dry_run' = dry_run
      BY <1>5 DEF PlaceOneRow, PlaceOneRaises, CancelOneRaises, exchangeVars, memoryVars
    <2>2. (\E S : PlaceNext(S)) \/ (\E e : Return(e))
      BY <1>5 DEF PlaceOneRow, PlaceOneRaises, CancelOneRaises
    <2> QED
      BY <1>5, <2>1, <2>2, LoopsGoOn, LoopsKeepStage
         DEF PlaceOneRow, PlaceOneRaises, CancelOneRaises
  <1>6. CASE CancelOne \/ PlaceOne \/ ExecFetch \/ ExecCancel \/ ExecCreate
    BY <1>6 DEF CancelOne, PlaceOne, ExecFetch, ExecCancel, ExecCreate, exchangeVars,
                memoryVars, localVars
  <1>7. CASE \E g \in Grids : Begin(g)
    BY <1>7 DEF Begin, exchangeVars, memoryVars
  <1>8. CASE \/ UNCHANGED omVars
             \/ \E c \in Cancellers : CancelAll(c) \/ CancelAllStep(c) \/ ExecCancelAll(c)
             \/ Leave \/ ExecLate \/ AgeOut
    <2>1. UNCHANGED tickVars
      BY <1>8 DEF omVars, tickVars, CancelAll, CancelAllStep, CancelAllAnswered,
                  CancelAllRow, CancelAllRaises, ExecCancelAll, Leave, ExecLate, AgeOut
    <2>2. live' \subseteq live /\ dry_run' = dry_run
      BY <1>8 DEF omVars, exchangeVars, memoryVars, CancelAll, CancelAllStep,
                  CancelAllAnswered, ListOpen, CancelAllRow, CancelAllRaises,
                  ExecCancelAll, Leave, ExecLate, AgeOut
    <2> QED
      BY <2>1, <2>2 DEF tickVars
  <1> QED
    BY <1>1, <1>2, <1>3, <1>4, <1>5, <1>6, <1>7, <1>8
       DEF Next, Tick, TickStep, Exchange, Environment

LEMMA CancelsHaltStep ==
  ASSUME ListsAreComplete, HaltsAreFinal, TypeOK, StageInv, CancelsHalt, [BotNext]_vars
  PROVE  CancelsHalt'
  <1>a. [Next]_omVars
    BY FinalHaltStep DEF CancelsHalt
  <1>b. cpc \in [Cancellers -> {"idle", "request", "answered", "rows", "done", "failed"}]
    BY DEF TypeOK, CancelTypeOK
  <1>1. late' = {}
    <2>1. CASE PlaceOneRaises
      BY <2>1 DEF PlaceOneRaises, ListsAreComplete, CancelsHalt
    <2>2. CASE ExecLate
      BY <2>2 DEF ExecLate, CancelsHalt
    <2>3. ASSUME ~PlaceOneRaises, ~ExecLate PROVE late' = late
      BY <1>a, <2>3 DEF Next, Tick, TickStep, Exchange, Environment, omVars, exchangeVars,
           SyncOpenOrders, SyncMark, SyncSkipped, CancelOne, CancelOneRow, CancelOneRaises,
           PlaceOne, PlaceOneRow, Begin, CancelAll, CancelAllStep, CancelAllAnswered,
           CancelAllRow, CancelAllRaises, ExecCancelAll, ExecFetch, ExecCancel, ExecCreate,
           Leave, AgeOut
    <2> QED
      BY <2>1, <2>2, <2>3 DEF CancelsHalt
  <1>2. spc' = "no" /\ \A c \in Cancellers : cpc'[c] # "idle" => triggered'
    BY FinalHaltStep DEF CancelsHalt
  <1>3. ASSUME NEW c \in Cancellers, Preparing', cpc'[c] \in {"answered", "rows"}
        PROVE  live' = {}
    <2>1. CASE cpc[c] \in {"answered", "rows"}
      <3>1. triggered /\ triggered'
        BY <2>1, FinalHaltStep DEF CancelsHalt
      <3>2. Preparing
        BY <1>a, <1>3, <3>1, StageStep, HaltedStep DEF CancelsHalt
      <3> QED
        BY <1>a, <2>1, <3>2, StageStep DEF CancelsHalt
    <2>2. CASE cpc[c] \notin {"answered", "rows"}
      <3>1. ExecCancelAll(c) \/ (CancelAll(c) /\ dry_run)
        <4>1. CASE \E d \in Cancellers : CancelAll(d) \/ CancelAllStep(d) \/ ExecCancelAll(d)
          BY <1>3, <1>b, <2>2, <4>1 DEF CancelAll, CancelAllStep, CancelAllAnswered, ListOpen,
               CancelAllRow, CancelAllRaises, ExecCancelAll
        <4>2. ASSUME ~\E d \in Cancellers : CancelAll(d) \/ CancelAllStep(d) \/ ExecCancelAll(d)
              PROVE  cpc' = cpc
          BY <1>a, <4>2 DEF Next, Tick, TickStep, Exchange, Environment, omVars, cancelVars,
               SyncOpenOrders, SyncMark, SyncSkipped, CancelOne, CancelOneRow,
               CancelOneRaises, PlaceOne, PlaceOneRow, PlaceOneRaises, Begin, ExecFetch,
               ExecCancel, ExecCreate, Leave, ExecLate, AgeOut
        <4> QED
          BY <1>3, <2>2, <4>1, <4>2
      <3> QED
        BY <3>1 DEF ExecCancelAll, CancelAll, StageInv, exchangeVars
    <2> QED
      BY <2>1, <2>2
  <1> QED
    BY <1>1, <1>2, <1>3 DEF CancelsHalt

LEMMA BookIsKnownStep ==
  ASSUME ListsAreComplete, TypeOK, StageInv, CancelsHalt, BookIsKnown, [Next]_omVars
  PROVE  BookIsKnown'
  <1> USE DEF BookIsKnown
  <1>a. late = {} /\ (dry_run => live = {}) /\ (pc # "idle" => grid \in Grids)
    BY DEF CancelsHalt, StageInv
  <1>b. pc \notin {"cancel", "cancelled", "cancelRow"} => stage # "age"
    BY DEF StageInv
  <1>1. CASE SyncOpenOrders
    <2>1. pc = "fetched" /\ live' = live /\ live \subseteq snap /\ stage # "age"
      BY <1>1, <1>b DEF SyncOpenOrders, exchangeVars
    <2>2. CASE Adopt(open)
      BY <2>1, <2>2, LoopsGoOn DEF Adopt
    <2>3. CASE \E i \in NoLongerOpen(open) :
                 /\ open' = open \ {i} /\ markQ' = NoLongerOpen(open) \ {i}
                 /\ pc' = "mark" /\ UNCHANGED <<stage, snap>>
      BY <2>1, <2>3 DEF NoLongerOpen
    <2> QED
      BY <1>1, <2>2, <2>3 DEF SyncOpenOrders
  <1>2. CASE SyncMark
    <2>1. pc = "mark" /\ live' = live /\ stage # "age"
      BY <1>2, <1>b DEF SyncMark, exchangeVars
    <2>2. CASE Adopt(open)
      BY <2>1, <2>2, LoopsGoOn DEF Adopt
    <2>3. CASE \E i \in markQ : /\ i \in open /\ open' = open \ {i} /\ markQ' = markQ \ {i}
                                /\ UNCHANGED <<pc, stage, snap>>
      BY <2>1, <2>3
    <2>4. CASE (\E i \in markQ : i \notin open) /\ CancelStaleByAge(open) /\ UNCHANGED open
      BY <2>1, <2>4, LoopsGoOn
    <2> QED
      BY <1>2, <2>2, <2>3, <2>4 DEF SyncMark
  <1>3. CASE SyncSkipped
    <2>1. live' = {}
      BY <1>3, <1>a DEF SyncSkipped, ListsAreComplete, exchangeVars
    <2> QED
      BY <1>3, <2>1, LoopsGoOn DEF SyncSkipped
  <1>4. CASE CancelOneRow
    <2>1. live' = live /\ open' = open
      BY <1>4 DEF CancelOneRow, exchangeVars, memoryVars
    <2>2. CASE stage = "age" /\ AgeNext(ageQ, open)
      BY <2>1, <2>2, LoopsGoOn
    <2>3. CASE CancelNext(toCancel, toPlace)
      BY <2>1, <2>3, LoopsGoOn, LoopsKeepStage
    <2> QED
      BY <1>4, <2>2, <2>3 DEF CancelOneRow
  <1>5. CASE PlaceOneRow \/ PlaceOneRaises \/ CancelOneRaises
    <2>1. (\E S : PlaceNext(S)) \/ (\E e : Return(e))
      BY <1>5 DEF PlaceOneRow, PlaceOneRaises, CancelOneRaises
    <2> QED
      BY <2>1, LoopsGoOn, LoopsKeepStage
  <1>6. CASE CancelOne
    BY <1>6, <1>a DEF CancelOne, exchangeVars, localVars
  <1>7. CASE PlaceOne \/ ExecCreate \/ \E g \in Grids : Begin(g)
    <2>1. /\ stage' = stage /\ stage # "age"
          /\ pc' \in {"createdAck", "createRow", "fetch"}
      BY <1>7, <1>b DEF PlaceOne, ExecCreate, Begin
    <2> QED
      BY <2>1
  <1>8. CASE ExecFetch \/ ExecCancel
    BY <1>8, <1>b DEF ExecFetch, ExecCancel, exchangeVars, memoryVars, localVars
  <1>9. ASSUME NEW c \in Cancellers, CancelAll(c) \/ CancelAllStep(c) \/ ExecCancelAll(c)
        PROVE  BookIsKnown'
    <2>1. UNCHANGED tickVars /\ live' \subseteq live
      BY <1>9 DEF tickVars, CancelAll, CancelAllStep, CancelAllAnswered, CancelAllRow,
           CancelAllRaises, ExecCancelAll, exchangeVars
    <2>2. open' = open \/ cpc[c] = "rows"
      BY <1>9 DEF CancelAll, CancelAllStep, CancelAllAnswered, CancelAllRow, ListOpen,
           CancelAllRaises, ExecCancelAll, memoryVars
    <2>3. pc = "mark" \/ stage = "age" => open' = open \/ live = {}
      BY <2>2 DEF CancelsHalt, Preparing
    <2> QED
      BY <2>1, <2>3 DEF tickVars
  <1>10. CASE Leave \/ AgeOut \/ ExecLate \/ UNCHANGED omVars
    <2>1. UNCHANGED <<tickVars, open>> /\ live' \subseteq live
      BY <1>10, <1>a DEF omVars, tickVars, Leave, AgeOut, ExecLate, exchangeVars, memoryVars
    <2> QED
      BY <2>1 DEF tickVars
  <1> QED
    BY <1>1, <1>2, <1>3, <1>4, <1>5, <1>6, <1>7, <1>8, <1>9, <1>10
       DEF Next, Tick, TickStep, Exchange, Environment

\* The book shrinks, or grows by the awaited placement.
LEMMA BookGrows ==
  ASSUME ListsAreComplete, TypeOK, StageInv, late = {}, [Next]_omVars
  PROVE  \/ Book' \subseteq Book /\ order' = order
         \/ /\ pc = "create" /\ pc' # "create"
            /\ Accept(grid[cur])
            /\ Book' \subseteq Book \cup {nextId}
            /\ UNCHANGED <<toPlace, grid>>
  <1> USE DEF Book
  <1>a. dry_run => pc \notin {"fetched", "mark", "cancelled", "createdAck"}
    BY DEF StageInv
  <1>1. CASE ExecCreate \/ PlaceOne
    BY <1>1, <1>a DEF ExecCreate, PlaceOne, memoryVars
  <1>2. CASE \/ SyncOpenOrders \/ SyncMark \/ SyncSkipped \/ CancelOne \/ CancelOneRow
             \/ CancelOneRaises \/ PlaceOneRow \/ PlaceOneRaises
             \/ \E g \in Grids : Begin(g)
    <2>1. UNCHANGED <<order, live, dry_run>>
      BY <1>2 DEF SyncOpenOrders, SyncMark, SyncSkipped, CancelOne, CancelOneRow,
           CancelOneRaises, PlaceOneRow, PlaceOneRaises, Begin, exchangeVars, memoryVars
    <2>2. dry_run => open' \subseteq open
      BY <1>2, <1>a DEF SyncOpenOrders, SyncMark, SyncSkipped, CancelOne, CancelOneRow,
           CancelOneRaises, PlaceOneRow, PlaceOneRaises, Begin, memoryVars
    <2> QED
      BY <2>1, <2>2
  <1>3. CASE \/ UNCHANGED omVars
             \/ \E c \in Cancellers : CancelAll(c) \/ CancelAllStep(c) \/ ExecCancelAll(c)
             \/ ExecFetch \/ ExecCancel \/ Leave \/ AgeOut
    <2>1. UNCHANGED <<order, dry_run>> /\ live' \subseteq live /\ open' \subseteq open
      BY <1>3 DEF omVars, exchangeVars, memoryVars, CancelAll, CancelAllStep,
           CancelAllAnswered, ListOpen, CancelAllRow, CancelAllRaises, ExecCancelAll,
           ExecFetch, ExecCancel, Leave, AgeOut
    <2> QED
      BY <2>1
  <1>4. ~ExecLate
    BY DEF ExecLate
  <1> QED
    BY <1>1, <1>2, <1>3, <1>4 DEF Next, Tick, TickStep, Exchange, Environment

\* What is placed keeps the book and the other placements apart.
LEMMA PlacementStep ==
  ASSUME SpacedGrids, TypeOK, StageInv, PlacementsFree, NoDuplicateLevel,
         pc = "create", pc' # "create", Accept(grid[cur]),
         Book' \subseteq Book \cup {nextId}, UNCHANGED <<toPlace, grid>>
  PROVE  PlacementsFree' /\ NoDuplicateLevel'
  <1>a. Book \subseteq 1 .. nextId - 1 /\ nextId \in Nat /\ nextId \in Ids
    BY GivenIds, ConstantsAssumption
       DEF Book, TypeOK, ExchangeTypeOK, MemoryTypeOK, Accept, Ids
  <1>b. \A i \in Book : i < nextId /\ order'[i] = order[i]
    <2>1. order \in [Ids -> Info] /\ order' = [order EXCEPT ![nextId] = grid[cur]]
      BY DEF TypeOK, ExchangeTypeOK, Accept
    <2>2. \A i \in Book : i \in Ids /\ i < nextId /\ i # nextId
      BY <1>a, GivenIds DEF TypeOK
    <2> QED
      BY <2>1, <2>2
  <1>c. order'[nextId] = grid[cur]
    BY <1>a DEF TypeOK, ExchangeTypeOK, Accept
  <1>d. Free(cur)
    BY DEF PlacementsFree
  <1>1. PlacementsFree'
    <2> SUFFICES ASSUME NEW k \in toPlace, NEW i \in Book'
                 PROVE  ~Near(order'[i].price, grid[k].price)
      BY DEF PlacementsFree, Free
    <2>1. CASE i \in Book
      BY <1>b, <2>1 DEF PlacementsFree, Free
    <2>2. CASE i = nextId
      <3>1. cur \in DOMAIN grid /\ k \in DOMAIN grid /\ grid \in Grids /\ cur < k
        BY DEF TypeOK, TickTypeOK, StageInv, PlacementsFree
      <3> QED
        BY <1>c, <2>2, <3>1 DEF SpacedGrids
    <2> QED
      BY <2>1, <2>2
  <1>2. NoDuplicateLevel'
    <2> SUFFICES ASSUME NEW i \in Book', NEW j \in Book', i < j
                 PROVE  ~Near(order'[i].price, order'[j].price)
      BY DEF NoDuplicateLevel
    <2>1. CASE i \in Book /\ j \in Book
      BY <1>b, <2>1 DEF NoDuplicateLevel
    <2>2. CASE i \in Book /\ j = nextId
      BY <1>b, <1>c, <1>d, <2>2 DEF Free
    <2>3. ~(i = nextId /\ (j \in Book \/ j = nextId))
      BY <1>a, <1>b
    <2> QED
      BY <2>1, <2>2, <2>3
  <1> QED
    BY <1>1, <1>2

\* The other steps drop placements, or compare the grid with the whole book.
LEMMA PlacementsFreeStep ==
  ASSUME ListsAreComplete, TypeOK, StageInv, CancelsHalt, BookIsKnown, PlacementsFree,
         [Next]_omVars, Book' \subseteq Book, order' = order
  PROVE  PlacementsFree'
  <1>a. /\ grid \in Seq(Levels)
        /\ toPlace \in SUBSET DOMAIN grid
        /\ \A k \in toPlace : Free(k)
        /\ pc = "idle" => toPlace = {}
    BY DEF TypeOK, TickTypeOK, PlacementsFree
  <1>b. dry_run => pc \notin {"fetched", "mark"}
    BY DEF StageInv
  <1>c. UNCHANGED <<toPlace, grid>> /\ pc' # "create" => PlacementsFree'
    BY <1>a DEF PlacementsFree, Free
  <1>d. \A e : Return(e) => PlacementsFree'
    BY DEF Return, PlacementsFree
  <1>e. \A S : Book \subseteq S /\ CancelStaleByAge(S) => PlacementsFree'
    BY <1>a, AgeNextFree DEF CancelStaleByAge
  <1>1. CASE SyncOpenOrders
    <2>1. Book \subseteq open \cup snap
      BY <1>1, <1>b DEF SyncOpenOrders, Book, BookIsKnown
    <2>2. Adopt(open) => PlacementsFree'
      BY <1>e, <2>1 DEF Adopt
    <2> QED
      BY <1>1, <1>c, <2>2 DEF SyncOpenOrders
  <1>2. CASE SyncMark
    <2>1. Book = live /\ live \subseteq snap /\ (markQ \subseteq open \/ live = {})
      BY <1>2, <1>b DEF SyncMark, Book, BookIsKnown
    <2>2. CASE Adopt(open)
      BY <1>e, <2>1, <2>2 DEF Adopt
    <2>3. CASE (\E i \in markQ : i \notin open) /\ CancelStaleByAge(open)
      BY <1>e, <2>1, <2>3
    <2>4. CASE UNCHANGED <<pc, grid, toPlace>>
      BY <1>2, <1>c, <2>4 DEF SyncMark
    <2> QED
      BY <1>2, <2>2, <2>3, <2>4 DEF SyncMark
  <1>3. CASE SyncSkipped
    BY <1>3, <1>e DEF SyncSkipped, ListsAreComplete, Book
  <1>4. CASE CancelOneRow
    <2>1. CASE stage = "age" /\ AgeNext(ageQ, open)
      BY <1>a, <2>1, AgeNextFree DEF Book, BookIsKnown
    <2>2. CASE CancelNext(toCancel, toPlace)
      BY <1>a, <2>2, CancelNextFree
    <2> QED
      BY <1>4, <2>1, <2>2 DEF CancelOneRow
  <1>5. CASE PlaceOneRow \/ PlaceOneRaises \/ CancelOneRaises
    <2>1. PlaceNext(toPlace) => PlacementsFree'
      BY <1>a, PlaceNextFree
    <2> QED
      BY <1>5, <1>d, <2>1 DEF PlaceOneRow, PlaceOneRaises, CancelOneRaises
  <1>6. CASE CancelOne \/ PlaceOne \/ ExecFetch \/ ExecCancel \/ ExecCreate
    <2>1. UNCHANGED <<toPlace, grid>> /\ pc' # "create"
      BY <1>6 DEF CancelOne, PlaceOne, ExecFetch, ExecCancel, ExecCreate, localVars
    <2> QED
      BY <1>c, <2>1
  <1>7. CASE \E g \in Grids : Begin(g)
    BY <1>7, <1>a DEF Begin, PlacementsFree
  <1>8. CASE \/ UNCHANGED omVars
             \/ \E c \in Cancellers : CancelAll(c) \/ CancelAllStep(c) \/ ExecCancelAll(c)
             \/ Leave \/ ExecLate \/ AgeOut
    <2>1. UNCHANGED tickVars
      BY <1>8 DEF omVars, tickVars, CancelAll, CancelAllStep, CancelAllAnswered,
                  CancelAllRow, CancelAllRaises, ExecCancelAll, Leave, ExecLate, AgeOut
    <2> QED
      BY <2>1 DEF tickVars, PlacementsFree, Free
  <1> QED
    BY <1>1, <1>2, <1>3, <1>4, <1>5, <1>6, <1>7, <1>8
       DEF Next, Tick, TickStep, Exchange, Environment

\* No two orders of the book lie within the tolerance of each other, whatever moves
\* the grids, whichever answers of create and cancel requests are lost, and wherever
\* a halt with its cancel_all comes into a tick.
THEOREM NoLevelTwice ==
  ASSUME SpacedGrids, ListsAreComplete, HaltsAreFinal
  PROVE  BotSpec => []NoDuplicateLevel
  <1>1. BotInit => BookInv
    <2> SUFFICES ASSUME BotInit PROVE BookInv
      OBVIOUS
    <2>1. TypeOK
      BY InitType DEF BotInit
    <2>2. StageInv /\ CancelsHalt /\ BookIsKnown
      BY DEF BotInit, Init, StageInv, CancelsHalt, BookIsKnown
    <2>3. PlacementsFree /\ NoDuplicateLevel
      BY DEF BotInit, Init, PlacementsFree, NoDuplicateLevel, Book
    <2> QED
      BY <2>1, <2>2, <2>3 DEF BookInv
  <1>2. BookInv /\ [BotNext]_vars => BookInv'
    <2> SUFFICES ASSUME BookInv, [BotNext]_vars PROVE BookInv'
      OBVIOUS
    <2>a. /\ TypeOK /\ StageInv /\ CancelsHalt /\ BookIsKnown
          /\ PlacementsFree /\ NoDuplicateLevel
      BY DEF BookInv
    <2>b. [Next]_omVars /\ late = {}
      BY <2>a, FinalHaltStep DEF CancelsHalt
    <2>1. TypeOK' /\ StageInv' /\ CancelsHalt' /\ BookIsKnown'
      BY <2>a, <2>b, NextType, StageStep, CancelsHaltStep, BookIsKnownStep
    <2>2. PlacementsFree' /\ NoDuplicateLevel'
      <3>1. CASE Book' \subseteq Book /\ order' = order
        BY <2>a, <2>b, <3>1, PlacementsFreeStep DEF NoDuplicateLevel
      <3>2. CASE /\ pc = "create" /\ pc' # "create"
                 /\ Accept(grid[cur])
                 /\ Book' \subseteq Book \cup {nextId}
                 /\ UNCHANGED <<toPlace, grid>>
        BY <2>a, <3>2, PlacementStep
      <3> QED
        BY <2>a, <2>b, <3>1, <3>2, BookGrows
    <2> QED
      BY <2>1, <2>2 DEF BookInv
  <1>3. BookInv => NoDuplicateLevel
    BY DEF BookInv
  <1> QED
    BY <1>1, <1>2, <1>3, PTL DEF BotSpec

=============================================================================
