------------------------------- MODULE Requests -------------------------------
(***************************************************************************)
(* A bot's requests to its exchange: safety/rate_limiter.py in front of    *)
(* exchange/ccxt_connector.py or exchange/cpp_connector.py, whichever      *)
(* exchange/factory.py makes.                                              *)
(*                                                                         *)
(* Each caller is a coroutine of the bot: its tick, a cancel_all, the poll *)
(* for fills.  It takes a token, under the limiter's lock, and then calls  *)
(* the connector.  The CCXT connector tries again after an error of the    *)
(* network; the C++ connector runs the call in a pool of threads.  A       *)
(* caller's task may be cancelled wherever it awaits.                      *)
(***************************************************************************)
EXTENDS Integers, Sequences, FiniteSets, SequencesExt

CONSTANTS
  Callers,    \* the coroutines that call
  Burst,      \* max_requests_per_second
  Grain,      \* time is counted in 1 / (Burst * Grain) of a second
  MaxRetries, \* _MAX_RETRIES
  Workers     \* the threads of the pool (8 in the code)

ASSUME RequestsAssumption == {Burst, Grain, MaxRetries, Workers} \subseteq Nat \ {0}

VARIABLES
  connector, \* "ccxt" or "cpp"
  tokens,    \* RateLimiter._tokens, in 1 / Grain
  elapsed,   \* the time since _last_refill, as far as it matters
  line,      \* the callers at the limiter's lock; the first one holds it
  nap,       \* what is left of its sleep, or -1 when it does not sleep
  parity,    \* of the number of tokens granted
  call,      \* call[c]: "idle", "acquire", "request", "backoff", "queued" or "running"
  attempt,   \* attempt[c]: the attempts before this one
  threads,   \* calls that threads are busy with: callers, or "abandoned"
  jobs       \* the callers waiting for a thread

limiterVars  == <<tokens, elapsed, line, nap, parity>>
callVars     == <<call, attempt>>
poolVars     == <<threads, jobs>>
requestsVars == <<connector, limiterVars, callVars, poolVars>>

Full == Burst * Grain

AtMost(a, b) == IF a < b THEN a ELSE b

\* create_connector: C++ if it is asked for, by the caller or else by the environment,
\* and built and there for the exchange; else CCXT.
Connector(useCpp, env, built, supported) ==
  LET want == IF useCpp = "unset" THEN env ELSE useCpp
  IN IF want = "true" /\ built /\ supported THEN "cpp" ELSE "ccxt"

RequestsInit ==
  /\ \E useCpp \in {"unset", "true", "false"}, env \in {"true", "false"}, built, supported \in BOOLEAN :
       connector = Connector(useCpp, env, built, supported)
  /\ tokens = Full /\ elapsed = 0
  /\ line = <<>> /\ nap = -1 /\ parity = 0
  /\ call = [c \in Callers |-> "idle"]
  /\ attempt = [c \in Callers |-> 0]
  /\ threads = <<>> /\ jobs = <<>>

-----------------------------------------------------------------------------
(* RateLimiter.acquire.                                                    *)

\* A refill that lets tokens pile up.
RefilledUncapped == tokens + elapsed

\* _refill
Refilled == AtMost(Full, tokens + elapsed)

CallStarts(c) ==
  /\ call[c] = "idle"
  /\ call' = [call EXCEPT ![c] = "acquire"]
  /\ line' = Append(line, c)
  /\ attempt' = [attempt EXCEPT ![c] = 0]
  /\ UNCHANGED <<connector, tokens, elapsed, nap, parity, poolVars>>

\* The token is taken and the lock released; the connector is called.
Granted(c, found) ==
  /\ tokens' = found - Grain
  /\ elapsed' = 0
  /\ nap' = -1
  /\ parity' = 1 - parity
  /\ line' = Tail(line)
  /\ IF connector = "ccxt"
       THEN call' = [call EXCEPT ![c] = "request"] /\ UNCHANGED jobs
       ELSE call' = [call EXCEPT ![c] = "queued"] /\ jobs' = Append(jobs, c)
  /\ UNCHANGED <<connector, attempt, threads>>

\* The holder of the lock refills; with less than a token it sleeps.
HoldLock ==
  /\ line # <<>> /\ nap = -1
  /\ \/ Refilled >= Grain /\ Granted(Head(line), Refilled)
     \/ /\ Refilled < Grain
        /\ tokens' = Refilled
        /\ elapsed' = 0
        /\ nap' = Grain - Refilled
        /\ UNCHANGED <<connector, line, parity, callVars, poolVars>>

\* The sleep is over, now or some time ago.
WakeUp ==
  /\ nap = 0
  /\ Granted(Head(line), Refilled)

Tick ==
  /\ elapsed' = AtMost(elapsed + 1, Full)
  /\ nap' = IF nap > 0 THEN nap - 1 ELSE nap
  /\ UNCHANGED <<connector, tokens, line, parity, callVars, poolVars>>

-----------------------------------------------------------------------------
(* CCXTConnector: _retry.                                                  *)

\* The call returns or raises.
Ends(c) ==
  /\ call' = [call EXCEPT ![c] = "idle"]
  /\ UNCHANGED attempt

\* An attempt that is never the last.
RetriedForever(c) ==
  /\ call' = [call EXCEPT ![c] = "backoff"]
  /\ UNCHANGED attempt

\* A retryable error: another attempt after a pause, unless this was the last.
Retried(c) ==
  IF attempt[c] = MaxRetries THEN Ends(c)
  ELSE /\ attempt' = [attempt EXCEPT ![c] = @ + 1]
       /\ call' = [call EXCEPT ![c] = "backoff"]

\* The exchange answers or refuses, which ends the call, or the network fails.
Attempt(c) ==
  /\ call[c] = "request"
  /\ Ends(c) \/ Retried(c)
  /\ UNCHANGED <<connector, limiterVars, poolVars>>

BackoffOver(c) ==
  /\ call[c] = "backoff"
  /\ call' = [call EXCEPT ![c] = "request"]
  /\ UNCHANGED <<connector, limiterVars, attempt, poolVars>>

-----------------------------------------------------------------------------
(* The C++ connectors: _run in the pool of threads.                        *)

ThreadStarts ==
  /\ jobs # <<>> /\ Len(threads) < Workers
  /\ threads' = Append(threads, Head(jobs))
  /\ jobs' = Tail(jobs)
  /\ call' = [call EXCEPT ![Head(jobs)] = "running"]
  /\ UNCHANGED <<connector, limiterVars, attempt>>

\* A call returns or raises.
ThreadEnds(i) ==
  /\ i \in DOMAIN threads
  /\ threads' = RemoveAt(threads, i)
  /\ IF threads[i] = "abandoned" THEN UNCHANGED callVars ELSE Ends(threads[i])
  /\ UNCHANGED <<connector, limiterVars, jobs>>

-----------------------------------------------------------------------------
\* `async with self._lock`: whoever is cancelled leaves the line or releases the lock.
LockLeft(c) ==
  /\ line' = SelectSeq(line, LAMBDA x : x # c)
  /\ nap' = IF line # <<>> /\ Head(line) = c THEN -1 ELSE nap

\* A job no thread has taken is dropped.
JobsLeft(c) == SelectSeq(jobs, LAMBDA x : x # c)

\* The caller's task is cancelled.  A thread goes on with the call of a caller that is
\* gone.
Cancel(c) ==
  /\ call[c] # "idle"
  /\ LockLeft(c)
  /\ jobs' = JobsLeft(c)
  /\ threads' = [i \in DOMAIN threads |-> IF threads[i] = c THEN "abandoned" ELSE threads[i]]
  /\ Ends(c)
  /\ UNCHANGED <<connector, tokens, elapsed, parity>>

RequestsNext ==
  \/ \E c \in Callers : CallStarts(c) \/ Attempt(c) \/ BackoffOver(c) \/ Cancel(c)
  \/ HoldLock \/ WakeUp \/ Tick
  \/ ThreadStarts
  \/ \E i \in 1 .. Workers : ThreadEnds(i)

\* Time passes; the event loop runs what is ready; a request is answered, or times out.
RequestsFairness ==
  /\ WF_requestsVars(Tick) /\ WF_requestsVars(HoldLock) /\ WF_requestsVars(WakeUp)
  /\ WF_requestsVars(ThreadStarts)
  /\ \A i \in 1 .. Workers : WF_requestsVars(ThreadEnds(i))
  /\ \A c \in Callers : WF_requestsVars(Attempt(c)) /\ WF_requestsVars(BackoffOver(c))

RequestsSpec == RequestsInit /\ [][RequestsNext]_requestsVars /\ RequestsFairness

-----------------------------------------------------------------------------
(* Properties.                                                             *)

Bucket == INSTANCE TokenBucket WITH level <- AtMost(Full, tokens + elapsed)

\* rate_limiter.py, "Allows up to max_per_second requests per second, with burst
\* tolerance": with refills only when somebody asks, sleeps that last too long and
\* callers cancelled in theirs, tokens are granted as by a bucket that fills all the time.
ImplementsBucket == Bucket!BucketSpec

\* RateLimiter.acquire, _retry, _run: every call comes to an end, whichever callers are
\* cancelled while they hold the lock, wait for it or occupy a thread.
EveryCallEnds == \A c \in Callers : call[c] # "idle" ~> call[c] = "idle"

=============================================================================
