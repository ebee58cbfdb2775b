--------------------------------- MODULE Fills ---------------------------------
(***************************************************************************)
(* How the fills of a bot's orders reach the database: _ingest_fills of    *)
(* core/exchange_bot.py and insert_fill of db/queries.py, across failed    *)
(* fetches, failed INSERTs and restarts of the process.                    *)
(*                                                                         *)
(* Time is counted in milliseconds, the resolution of the exchange's       *)
(* timestamps and of the request's `since`.                                *)
(***************************************************************************)
EXTENDS Integers, Sequences

CONSTANTS
  FillLimit,   \* fills the exchange returns at most (100 in the code)
  FirstHour,   \* how far back the first poll looks (an hour)
  MaxTime,     \* bound on the clock
  MaxTrades,   \* bound on the trades
  MaxRestarts  \* bound on the restarts

ASSUME FillsAssumption == {FillLimit, FirstHour} \subseteq Nat \ {0}

VARIABLES
  clock,     \* the time
  trades,    \* the exchange's trades, oldest first: their timestamps
  fillRows,  \* the trades that have a row in the table fills
  lastTs,    \* _last_fill_ts, or NoTs
  since0,    \* where the last poll without a cursor looked from, or NoTs (history)
  toInsert,  \* the fills fetched and not inserted, as indices of trades
  restarts

fillsVars == <<clock, trades, fillRows, lastTs, since0, toInsert, restarts>>

NoTs == -1

FillsInit ==
  /\ clock = 0 /\ trades = <<>> /\ fillRows = {}
  /\ lastTs = NoTs /\ since0 = NoTs
  /\ toInsert = <<>> /\ restarts = 0

TimePasses ==
  /\ clock < MaxTime
  /\ clock' = clock + 1
  /\ UNCHANGED <<trades, fillRows, lastTs, since0, toInsert, restarts>>

\* An order is filled; a trade may share its millisecond with another.
TradeHappens ==
  /\ Len(trades) < MaxTrades
  /\ trades' = Append(trades, clock)
  /\ UNCHANGED <<clock, fillRows, lastTs, since0, toInsert, restarts>>

\* `_last_fill_ts + 0.001`, which the conversion to milliseconds may truncate.
Since ==
  IF lastTs # NoTs THEN {lastTs, lastTs + 1}
  ELSE {IF clock > FirstHour THEN clock - FirstHour ELSE 0}

\* Up to FillLimit trades, in their order.
From(first) ==
  [k \in 1 .. IF Len(trades) < first + FillLimit THEN Len(trades) - first + 1 ELSE FillLimit
     |-> first + k - 1]

\* fetch_fills: the oldest ones since then.  There is one answer, the trades being in
\* the order of their times.
FetchFills(since) ==
  {From(first) : first \in {f \in 1 .. Len(trades) + 1 :
                              \A i \in DOMAIN trades : i < f <=> trades[i] < since}}

\* A poll that moves on to the newest fill before it is inserted.
PolledAhead(fills) ==
  /\ toInsert' = fills
  /\ lastTs' = IF fills = <<>> THEN lastTs ELSE trades[fills[Len(fills)]]

\* The fills are to be inserted one by one.
Polled(fills) ==
  /\ toInsert' = fills
  /\ UNCHANGED lastTs

\* _ingest_fills, up to the first INSERT; a failed fetch changes nothing.
Ingest ==
  /\ toInsert = <<>>
  /\ \E since \in Since :
       /\ \E fills \in FetchFills(since) : Polled(fills)
       /\ since0' = IF lastTs = NoTs THEN since ELSE since0
  /\ UNCHANGED <<clock, trades, fillRows, restarts>>

\* insert_fill, ON CONFLICT DO NOTHING; if it raises the rest is left for another poll.
InsertFill ==
  /\ toInsert # <<>>
  /\ \/ /\ fillRows' = fillRows \cup {Head(toInsert)}
        /\ lastTs' = IF trades[Head(toInsert)] > lastTs THEN trades[Head(toInsert)] ELSE lastTs
        /\ toInsert' = Tail(toInsert)
     \/ toInsert' = <<>> /\ UNCHANGED <<fillRows, lastTs>>
  /\ UNCHANGED <<clock, trades, since0, restarts>>

\* The process is started again; only the database remains.
Restart ==
  /\ restarts < MaxRestarts
  /\ restarts' = restarts + 1
  /\ lastTs' = NoTs /\ since0' = NoTs /\ toInsert' = <<>>
  /\ UNCHANGED <<clock, trades, fillRows>>

FillsNext == TimePasses \/ TradeHappens \/ Ingest \/ InsertFill \/ Restart

FillsSpec == FillsInit /\ [][FillsNext]_fillsVars

-----------------------------------------------------------------------------
(* Properties.                                                             *)

\* _ingest_fills: of what happened after the last poll without a cursor and before the
\* cursor nothing is missing, whatever failed, was cut off by the limit or interrupted by
\* a restart, but trades in the same millisecond as one that has its row.
MissedShareTheInstant ==
  \A i \in DOMAIN trades :
    since0 # NoTs /\ since0 <= trades[i] /\ trades[i] < lastTs /\ i \notin fillRows =>
      \E j \in fillRows : trades[j] = trades[i]

=============================================================================
