----------------------------- MODULE Orchestrator -----------------------------
(***************************************************************************)
(* core/orchestrator.py (price loop and configuration reload),             *)
(* core/regime_master.py and the intake of core/exchange_bot.py: how the   *)
(* market state and the regime computed from it reach the bots.            *)
(*                                                                         *)
(* Coroutines: the price loop, the regime master's loop, one run loop for  *)
(* each bot, and the API handlers that reload the configuration.  They     *)
(* meet in three kinds of bounded queues, all of which drop what does not  *)
(* fit: the master's pending states, each bot's states and each bot's      *)
(* regimes.  States and regimes are numbered: regime n is the one computed *)
(* from state n, and regime 0 the default.                                 *)
(***************************************************************************)
EXTENDS Integers, Sequences, FiniteSetsExt

CONSTANTS
  Exchanges,   \* the exchanges a bot was built for
  Configs,     \* configurations: [weights, enabled]
  Prices,      \* mid prices a ticker may give
  QueueLen,    \* length of a bot's two queues (5 in the code)
  PendingLen,  \* length of the master's queue (10 in the code)
  MaxStates    \* bound on the states published

ASSUME OrchestratorAssumption ==
  /\ IsFiniteSet(Exchanges)
  /\ Prices \subseteq Nat
  /\ \A c \in Configs : c.enabled \subseteq Exchanges /\ c.weights \in [Exchanges -> Nat]
  /\ QueueLen \in Nat \ {0} /\ PendingLen \in Nat \ {0}

VARIABLES
  config,   \* Orchestrator.config
  parts,    \* parts[e][p]: the configuration that part p of e's bot was built from
  loop,     \* where the price loop awaits: "sleep", "tickers" or "candles"
  weights,  \* global_mid_weights, as read when the tick began
  tickers,  \* the mid prices of the exchanges that answered
  state,    \* Orchestrator._state
  pending,  \* RegimeMaster._pending_queue
  current,  \* RegimeMaster._current
  queue,    \* queue[e]: the states waiting for e's bot
  regimes,  \* regimes[e]: the regimes waiting for it
  last,     \* last[e]: the number of ExchangeBot._last_global_state
  applied,  \* applied[e]: ExchangeBot._current_regime_state, 0 for None
  tick      \* tick[e]: the tick under way, [state, regime], or NoTick

priceVars  == <<loop, weights, tickers, state>>
masterVars == <<pending, current>>
intakeVars == <<last, applied, tick>>
orchVars   == <<config, parts, priceVars, masterVars, queue, regimes, intakeVars>>

\* What a bot keeps of its configuration: config, spread_engine, depth_engine and
\* agg_model; q_switch, circuit_breaker, heartbeat and rate_limiter; order_manager.
Parts == {"config", "spread", "depth", "agg", "safety", "orders"}

NoState == [n |-> 0, tickers |-> <<>>, sum |-> 0, weight |-> 1]
NoTick  == [state |-> [n |-> 0, regime |-> 0], regime |-> 0]

OrchInit ==
  /\ config \in Configs
  /\ config.enabled = Exchanges
  /\ parts = [e \in Exchanges |-> [p \in Parts |-> config]]
  /\ loop = "sleep"
  /\ weights = config.weights
  /\ tickers = <<>>
  /\ state = NoState
  /\ pending = <<>>
  /\ current = 0
  /\ queue = [e \in Exchanges |-> <<>>]
  /\ regimes = [e \in Exchanges |-> <<>>]
  /\ last = [e \in Exchanges |-> 0]
  /\ applied = [e \in Exchanges |-> 0]
  /\ tick = [e \in Exchanges |-> NoTick]

\* put_nowait with QueueFull ignored: what does not fit is dropped.
PutNowait(q, len, x) == IF Len(q) < len THEN Append(q, x) ELSE q

-----------------------------------------------------------------------------
(* The price loop.                                                         *)

\* _tick_prices, up to the tickers.  The loop sleeps half a second before, and the
\* regime master, on the same event loop, only suspends on an empty queue: it has
\* dealt with the state before.
TickStarts ==
  /\ loop = "sleep"
  /\ pending = <<>>
  /\ state.n < MaxStates
  /\ loop' = "tickers"
  /\ weights' = config.weights
  /\ UNCHANGED <<config, parts, tickers, state, masterVars, queue, regimes, intakeVars>>

\* Weights normalised over every exchange, whether it answered or not.
WeightOfAll(w, t) == MapThenSumSet(LAMBDA e : w[e], Exchanges)

\* normalize_weights over the exchanges that answered: the sum that divides them.
ActiveWeight(w, t) == MapThenSumSet(LAMBDA e : w[e], DOMAIN t)

WeightedSum(w, t) == MapThenSumSet(LAMBDA e : w[e] * t[e], DOMAIN t)

\* The end of a tick: the state, with the regime the master has now, goes to the
\* master and to every bot that has room for it.
Publish(t) ==
  LET n == state.n + 1
  IN /\ state' = [n |-> n, tickers |-> t, sum |-> WeightedSum(weights, t),
                  weight |-> ActiveWeight(weights, t)]
     /\ pending' = PutNowait(pending, PendingLen, n)
     /\ queue' = [e \in Exchanges |->
                    PutNowait(queue[e], QueueLen, [n |-> n, regime |-> current])]
     /\ loop' = "sleep"

\* The tickers of the exchanges that answered.  No weight raises, no price returns;
\* otherwise candles are fetched first when a minute has passed.
Tickers ==
  /\ loop = "tickers"
  /\ \E answered \in SUBSET Exchanges :
       \E t \in [answered -> Prices] :
         \/ /\ ActiveWeight(weights, t) = 0 \/ WeightedSum(weights, t) = 0
            /\ loop' = "sleep"
            /\ UNCHANGED <<tickers, state, pending, queue>>
         \/ /\ WeightedSum(weights, t) > 0
            /\ Publish(t)
            /\ UNCHANGED tickers
         \/ /\ WeightedSum(weights, t) > 0
            /\ loop' = "candles"
            /\ tickers' = t
            /\ UNCHANGED <<state, pending, queue>>
  /\ UNCHANGED <<config, parts, weights, current, regimes, intakeVars>>

\* The candles came, or did not.
Candles ==
  /\ loop = "candles"
  /\ Publish(tickers)
  /\ tickers' = <<>>
  /\ UNCHANGED <<config, parts, weights, current, regimes, intakeVars>>

PriceLoop == TickStarts \/ Tickers \/ Candles

-----------------------------------------------------------------------------
(* The regime master.                                                      *)

\* _process_state: the regime of the state, unless the detector raises, becomes the
\* current one and goes to every bot that has room for it.
Process ==
  /\ pending # <<>>
  /\ pending' = Tail(pending)
  /\ \/ UNCHANGED <<current, regimes>>
     \/ /\ current' = Head(pending)
        /\ regimes' = [e \in Exchanges |-> PutNowait(regimes[e], QueueLen, Head(pending))]
  /\ UNCHANGED <<config, parts, priceVars, queue, intakeVars>>

-----------------------------------------------------------------------------
(* The bots.                                                               *)

\* A drain that keeps the oldest of the regimes that waited.
DrainToOldest(e) ==
  /\ applied' = [applied EXCEPT ![e] = IF regimes[e] = <<>> THEN @ ELSE Head(regimes[e])]
  /\ regimes' = [regimes EXCEPT ![e] = <<>>]

\* _drain_regime_queue: the last of the regimes that waited.
Drain(e) ==
  /\ applied' = [applied EXCEPT ![e] = IF regimes[e] = <<>> THEN @ ELSE regimes[e][Len(regimes[e])]]
  /\ regimes' = [regimes EXCEPT ![e] = <<>>]

\* _resolve_mm_params: the regime that came through the queue, or the state's own.
Resolve(e, s) == IF applied'[e] # 0 THEN applied'[e] ELSE s.regime

\* queue.get returns and _tick begins, up to its first await.
Take(e) ==
  /\ tick[e] = NoTick
  /\ queue[e] # <<>>
  /\ LET s == Head(queue[e])
     IN /\ last' = [last EXCEPT ![e] = s.n]
        /\ Drain(e)
        /\ tick' = [tick EXCEPT ![e] = [state |-> s, regime |-> Resolve(e, s)]]
  /\ queue' = [queue EXCEPT ![e] = Tail(@)]
  /\ UNCHANGED <<config, parts, priceVars, masterVars>>

\* The tick is over: it placed its grid, was skipped, or raised.  The loop goes on
\* to the next state either way.
TickEnds(e) ==
  /\ tick[e] # NoTick
  /\ tick' = [tick EXCEPT ![e] = NoTick]
  /\ UNCHANGED <<config, parts, priceVars, masterVars, queue, regimes, last, applied>>

-----------------------------------------------------------------------------
(* The API.                                                                *)

\* The parts of a bot that trigger_config_reload replaces.
Reloaded == {"config", "spread", "depth", "agg"}

\* PUT /api/config and PUT /api/config/exchanges/{exchange}: a valid configuration
\* replaces the current one; the bots of the exchanges it enables get new parts, the
\* others go on with the ones they have.
Reload ==
  /\ \E c \in Configs :
       /\ config' = c
       /\ parts' = [e \in Exchanges |->
                      [p \in Parts |-> IF e \in c.enabled /\ p \in Reloaded THEN c ELSE parts[e][p]]]
  /\ UNCHANGED <<priceVars, masterVars, queue, regimes, intakeVars>>

-----------------------------------------------------------------------------
Bot(e) == Take(e) \/ TickEnds(e)

OrchNext ==
  \/ PriceLoop
  \/ Process
  \/ \E e \in Exchanges : Bot(e)
  \/ Reload

OrchSpec == OrchInit /\ [][OrchNext]_orchVars

-----------------------------------------------------------------------------
(* Properties.                                                             *)

BotTickBegins(e) == tick[e] = NoTick /\ tick'[e] # NoTick

\* Whatever two queues that both drop the newest make of it, a bot never acts on a market
\* older than one it has acted on; and once the master has dealt with every state, the
\* regime a bot applies to the state it takes is not older than the one the orchestrator
\* put into that state, however long the bot was busy.
IntakeGoesForward ==
  [][\A e \in Exchanges : BotTickBegins(e) =>
       /\ tick'[e].state.n > last[e]
       /\ current = state.n => tick'[e].regime >= tick'[e].state.regime]_orchVars

\* An exchange that does not answer does not move the global mid out of the range of
\* those that do: the weights are normalised over the responders alone.
MidAmongResponders ==
  state.n > 0 =>
    \E x \in DOMAIN state.tickers, y \in DOMAIN state.tickers :
      /\ state.tickers[x] * state.weight <= state.sum
      /\ state.sum <= state.tickers[y] * state.weight

=============================================================================
