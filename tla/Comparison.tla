------------------------------ MODULE Comparison ------------------------------
(***************************************************************************)
(* core/ab_comparator.py as scripts/ab_paper_trade.py runs it for one      *)
(* exchange: a CCXT and a C++ connector are given the same grid at every   *)
(* tick and their fills are simulated and counted apart.                   *)
(*                                                                         *)
(* Two coroutines: the strategy loop, whose tick awaits both tickers, and  *)
(* the report loop.  Spreads are in thousandths and prices in thousandths  *)
(* of the mid's unit.  Latencies and downtimes are not counted.            *)
(***************************************************************************)
EXTENDS Integers, FiniteSets

CONSTANTS
  ABMids,    \* the mid prices
  ABGrids,   \* the spreads of a grid, negative for buys
  MaxTicks   \* bound on the ticks

ASSUME ComparisonAssumption ==
  /\ ABMids \subseteq Nat \ {0}
  /\ \A g, h \in ABGrids : g \subseteq Int \ {0} /\ Cardinality(g) = Cardinality(h)

VARIABLES
  phase,     \* start: "connecting", "sleep", "fetching", "leaving", "ended" or "failed"
  reporter,  \* the report loop runs
  on,        \* ABComparator._running
  expired,   \* duration_s is over
  mids,      \* mids[c]: what c's ticker gave in this tick, 0 for None
  waiting,   \* the connectors whose tickers are awaited
  midNow,    \* _curr_mid, 0 at first
  resting,   \* resting[c]: _ccxt_orders and _cpp_orders, prices signed by their sides
  metrics,   \* metrics[c]: [up, outages, tried, got, placed, errors, fills]
  even,      \* so far both tickers came, or neither, in every tick
  report     \* main: "none", "written" or "raised"

abLoop == <<phase, reporter, on, expired, report>>
abTick == <<mids, waiting, midNow, resting, metrics, even>>
abVars == <<abLoop, abTick>>

Conns == {"ccxt", "cpp"}
GridSize == Cardinality(CHOOSE g \in ABGrids : TRUE)

ComparisonInit ==
  /\ phase = "connecting" /\ reporter = FALSE /\ on = FALSE /\ expired = FALSE /\ report = "none"
  /\ mids = [c \in Conns |-> 0] /\ waiting = {} /\ midNow = 0
  /\ resting = [c \in Conns |-> {}]
  /\ metrics = [c \in Conns |-> [up |-> TRUE, outages |-> 0, tried |-> 0, got |-> 0,
                                 placed |-> 0, errors |-> 0, fills |-> 0]]
  /\ even = TRUE

-----------------------------------------------------------------------------
(* Life cycle.                                                             *)

\* start: both connect, or one raises, and start with it.
Connected ==
  /\ phase = "connecting"
  /\ \/ phase' = "sleep" /\ on' = TRUE /\ reporter' = TRUE
     \/ phase' = "failed" /\ UNCHANGED <<on, reporter>>
  /\ UNCHANGED <<expired, report, abTick>>

\* stop, which a comparator that connects forgets.
StopComparator ==
  /\ on' = FALSE
  /\ UNCHANGED <<phase, reporter, expired, report, abTick>>

Expires ==
  /\ ~expired /\ phase \in {"sleep", "fetching"}
  /\ expired' = TRUE
  /\ UNCHANGED <<phase, reporter, on, report, abTick>>

\* _strategy_loop: the end, and _report_loop's.
LoopOver ==
  /\ phase = "sleep"
  /\ ~on \/ expired
  /\ phase' = "leaving"
  /\ on' = FALSE
  /\ UNCHANGED <<reporter, expired, report, abTick>>

ReporterOver ==
  /\ reporter
  /\ ~on \/ expired
  /\ reporter' = FALSE
  /\ UNCHANGED <<phase, on, expired, report, abTick>>

\* `finally`: both disconnect.
Disconnected ==
  /\ phase = "leaving" /\ ~reporter
  /\ phase' = "ended"
  /\ UNCHANGED <<reporter, on, expired, report, abTick>>

\* main: the report of a comparator that could not connect is looked up like any other.
Report ==
  /\ report = "none"
  /\ \/ phase = "ended" /\ report' = "written"
     \/ phase = "failed" /\ report' = "raised"
  /\ UNCHANGED <<phase, reporter, on, expired, abTick>>

-----------------------------------------------------------------------------
(* A tick.                                                                 *)

TickBegins ==
  /\ phase = "sleep" /\ on /\ ~expired
  /\ \A c \in Conns : metrics[c].tried < MaxTicks
  /\ phase' = "fetching"
  /\ waiting' = Conns
  /\ mids' = [c \in Conns |-> 0]
  /\ metrics' = [c \in Conns |-> [metrics[c] EXCEPT !.tried = @ + 1]]
  /\ UNCHANGED <<reporter, on, expired, report, midNow, resting, even>>

\* _fetch_ticker_safe returns: record_ticker with record_connect or record_disconnect.
TickerCame(c) ==
  /\ c \in waiting
  /\ waiting' = waiting \ {c}
  /\ \/ /\ \E m \in ABMids : mids' = [mids EXCEPT ![c] = m]
        /\ metrics' = [metrics EXCEPT ![c].got = @ + 1, ![c].up = TRUE]
     \/ /\ metrics' = [metrics EXCEPT ![c].up = FALSE,
                                      ![c].outages = IF metrics[c].up THEN @ + 1 ELSE @]
        /\ UNCHANGED mids
  /\ UNCHANGED <<abLoop, midNow, resting, even>>

\* _simulate_fills: a buy is filled when the ask comes down through it, a sell when the
\* bid goes up through it.
FilledBetween(orders, prev, curr) ==
  {o \in orders : \/ o < 0 /\ 1001 * curr <= -o /\ -o < 1001 * prev
                  \/ o > 0 /\ 999 * curr >= o /\ o > 999 * prev}

\* _build_grid
BuildGrid(mid, spreads) ==
  {IF d < 0 THEN -(mid * (1000 + d)) ELSE mid * (1000 + d) : d \in spreads}

\* The C++ orders are replaced before their fills are simulated.
MatchedFirst(prev, curr) ==
  [c \in Conns |-> IF c = "cpp" THEN {} ELSE FilledBetween(resting[c], prev, curr)]

\* The orders filled in this tick, for both connectors alike.
Matched(prev, curr) ==
  [c \in Conns |-> IF prev = curr THEN {} ELSE FilledBetween(resting[c], prev, curr)]

\* _tick without any price: the orders stay.
NoPrice ==
  /\ phase = "fetching" /\ waiting = {}
  /\ mids["ccxt"] = 0 /\ mids["cpp"] = 0
  /\ metrics' = [c \in Conns |-> [metrics[c] EXCEPT !.errors = @ + 1]]
  /\ phase' = "sleep"
  /\ UNCHANGED <<reporter, on, expired, report, mids, waiting, midNow, resting, even>>

\* _tick with a price, CCXT's before C++'s: fills, then a new grid for each connector
\* whose ticker came.
Replaced ==
  /\ phase = "fetching" /\ waiting = {}
  /\ LET mid  == IF mids["ccxt"] > 0 THEN mids["ccxt"] ELSE mids["cpp"]
         prev == IF midNow > 0 THEN midNow ELSE mid
     IN /\ mid > 0
        /\ midNow' = mid
        /\ \E spreads \in ABGrids :
             resting' = [c \in Conns |-> IF mids[c] > 0 THEN BuildGrid(mid, spreads) ELSE {}]
        /\ metrics' = [c \in Conns |->
             [metrics[c] EXCEPT !.fills  = @ + Cardinality(Matched(prev, mid)[c]),
                                !.placed = IF mids[c] > 0 THEN @ + GridSize ELSE @,
                                !.errors = IF mids[c] > 0 THEN @ ELSE @ + 1]]
  /\ even' = (even /\ (mids["ccxt"] > 0) = (mids["cpp"] > 0))
  /\ phase' = "sleep"
  /\ UNCHANGED <<reporter, on, expired, report, mids, waiting>>

ComparisonNext ==
  \/ Connected \/ StopComparator \/ Expires \/ LoopOver \/ ReporterOver \/ Disconnected \/ Report
  \/ TickBegins \/ (\E c \in Conns : TickerCame(c)) \/ NoPrice \/ Replaced

ComparisonSpec == ComparisonInit /\ [][ComparisonNext]_abVars

-----------------------------------------------------------------------------
(* Properties.                                                             *)

\* ABComparator: "Differences in fill rate, latency, and reliability reveal the real-world
\* advantage of the C++ connector."  Connectors that were up and down together end with
\* the same orders and the same fills, and two that have orders have the same ones.
FairComparison ==
  /\ even => /\ resting["ccxt"] = resting["cpp"]
             /\ metrics["ccxt"].fills = metrics["cpp"].fills
  /\ resting["ccxt"] = {} \/ resting["cpp"] = {} \/ resting["ccxt"] = resting["cpp"]

=============================================================================
