-------------------------------- MODULE Equity --------------------------------
(***************************************************************************)
(* A bot's own view of its money: the cached balance of                    *)
(* core/exchange_bot.py, safety/circuit_breaker.py, the balance check of   *)
(* safety/q_switch.py and the baseline of core/inventory_tracker.py.       *)
(*                                                                         *)
(* The bot starts, warms up and then ticks; the exchange changes its       *)
(* balance, the calendar day ends, and the API resumes it.  ExchangeBot    *)
(* leaves open whether the breaker trips; here it is computed.             *)
(***************************************************************************)
EXTENDS Integers, Sequences, FiniteSetsExt

CONSTANTS
  Balances,  \* balances of the account: [usd, token]
  Mids,      \* global mid prices
  MinUsd,    \* min_balance_usd
  LossPct,   \* max_daily_loss_pct
  DrawPct,   \* max_drawdown_pct
  MaxDays,   \* bound on the days that end
  MaxSeen    \* bound on the equities recorded since the last reset

ASSUME EquityAssumption ==
  /\ Mids \subseteq Nat /\ LossPct \in 1 .. 100 /\ DrawPct \in 1 .. 100
  /\ \A b \in Balances : b.usd \in Nat /\ b.token \in Nat

VARIABLES
  account,    \* the balance at the exchange
  balance,    \* ExchangeBot._balance, as a set of at most one
  warm,       \* the warm-up is over
  configured, \* the token of initial_balances, or None
  baseline,   \* InventoryTracker._initial_token, or None
  holding,    \* _current_token
  low,        \* QSwitch._triggered
  startEquity, peakEquity, day, tripped, \* of the CircuitBreaker
  today,      \* the calendar day
  seen        \* the equities recorded since the last reset (history)

breakerVars == <<startEquity, peakEquity, day, tripped, seen>>
stockVars   == <<configured, baseline, holding>>
equityVars  == <<account, balance, warm, low, today, breakerVars, stockVars>>

None == -1

\* _create_bots: a configured initial balance is the first baseline.
EquityInit ==
  /\ account \in Balances
  /\ balance = {} /\ warm = FALSE
  /\ configured \in {b.token : b \in Balances} \cup {None}
  /\ baseline = configured
  /\ holding = 0
  /\ low = FALSE
  /\ startEquity = None /\ peakEquity = None
  /\ day = 0 /\ today = 0
  /\ tripped = FALSE
  /\ seen = <<>>

-----------------------------------------------------------------------------
(* CircuitBreaker.record_equity.                                           *)

PctBelow(e, from, pct) == from > 0 /\ (from - e) * 100 >= pct * from

\* A new day that does not forget the trip.
NewDayTripped(e) ==
  /\ startEquity' = e /\ peakEquity' = e
  /\ day' = today
  /\ UNCHANGED tripped

\* The first equity of a new day starts it, and is not compared.
NewDay(e) ==
  /\ startEquity' = e /\ peakEquity' = e
  /\ day' = today
  /\ tripped' = FALSE

SameDay(e) ==
  LET start == IF startEquity = None THEN e ELSE startEquity
      peak  == IF peakEquity = None THEN e ELSE IF e > peakEquity THEN e ELSE peakEquity
  IN /\ startEquity' = start /\ peakEquity' = peak
     /\ tripped' = (tripped \/ PctBelow(e, start, LossPct) \/ PctBelow(e, peak, DrawPct))
     /\ UNCHANGED day

RecordEquity(e) ==
  IF today # day THEN NewDay(e) /\ seen' = <<e>>
  ELSE SameDay(e) /\ seen' = Append(seen, e)

-----------------------------------------------------------------------------
(* The bot.                                                                *)

\* _warmup; without a `_initial_balance` in the exchange's configuration, which nobody
\* sets, the observed balance is recorded, whatever was configured.
Warmup ==
  /\ ~warm
  /\ warm' = TRUE
  /\ \/ balance' = {account} /\ baseline' = account.token
     \/ UNCHANGED <<balance, baseline>>
  /\ UNCHANGED <<account, low, today, breakerVars, configured, holding>>

\* _get_balance: from the cache, fetched, or stale because fetching failed.
Fetched == {account} \cup balance

\* An update that takes every balance for the first one.
UpdateAlways(b) ==
  /\ baseline' = b.token
  /\ holding' = b.token

\* InventoryTracker.update
Update(b) ==
  /\ baseline' = IF baseline = None THEN b.token ELSE baseline
  /\ holding' = b.token

\* _tick, up to the grid: the switch, the breaker, the inventory.
BalanceTick ==
  /\ warm
  /\ \E b \in Fetched, mid \in Mids :
       /\ balance' = {b}
       /\ low' = (low \/ b.usd < MinUsd)
       /\ IF low' THEN UNCHANGED <<breakerVars, baseline, holding>>
          ELSE /\ Len(seen) < MaxSeen
               /\ RecordEquity(b.usd + b.token * mid)
               /\ IF tripped' THEN UNCHANGED <<baseline, holding>> ELSE Update(b)
  /\ UNCHANGED <<account, warm, configured, today>>

\* POST /api/control/resume
ResumeBot ==
  /\ low' = FALSE
  /\ tripped' = FALSE
  /\ startEquity' = None /\ peakEquity' = None
  /\ seen' = <<>>
  /\ UNCHANGED <<account, balance, warm, today, day, stockVars>>

AccountMoves ==
  /\ account' \in Balances
  /\ UNCHANGED <<balance, warm, low, today, breakerVars, stockVars>>

DayEnds ==
  /\ today < MaxDays
  /\ today' = today + 1
  /\ UNCHANGED <<account, balance, warm, low, breakerVars, stockVars>>

EquityNext == Warmup \/ BalanceTick \/ ResumeBot \/ AccountMoves \/ DayEnds

EquitySpec == EquityInit /\ [][EquityNext]_equityVars

-----------------------------------------------------------------------------
(* Properties.                                                             *)

Broke(s) ==
  \E i \in 1 .. Len(s) :
    \/ PctBelow(s[i], s[1], LossPct)
    \/ PctBelow(s[i], Max({s[j] : j \in 1 .. i}), DrawPct)

\* circuit_breaker.py, "Halts when: Daily loss > max_daily_loss_pct, Drawdown from peak >
\* max_drawdown_pct": tripped is exactly that some equity recorded since the day began,
\* or since the API reset it, was that far below the first or below an earlier one,
\* across days without a tick, halts and resumes.
BreakerIsExact == tripped <=> Broke(seen)

\* InventoryTracker: after the warm-up the drift is measured from one baseline for good,
\* whether it was configured, recorded, or taken from the first tick.
BaselineSettled == [][warm /\ baseline # None => baseline' = baseline]_equityVars

=============================================================================
