---------------------------- MODULE ProgressProofs ----------------------------
(***************************************************************************)
(* Theorems about the life of the process, the requests and the live feed: *)
(* what a shutdown and an emergency stop report as done has reached        *)
(* everyone, for any set of exchanges and any number of attempts to connect*)
(* the database; the rate limiter grants tokens as a bucket would that     *)
(* fills all the time, for any rate, any number of callers and any         *)
(* cancellations; a client of the live feed is told a stream without gaps, *)
(* for any number of clients, events and any length of their queues.       *)
(***************************************************************************)
EXTENDS Process, Requests, LiveFeed, SequenceTheorems, TLAPS

-----------------------------------------------------------------------------
(* Process.                                                                *)

\* The sets of bots and traders change no more once the orchestrator is launched, which
\* both the shutdown and the emergency stop wait for.
Settled ==
  /\ launched => runBot # "connect"
  /\ found => launched
  /\ alarm # "none" => launched

\* How far the loops of stop have come, when there was an orchestrator to stop.
StopInv ==
  found =>
    /\ waiter = "bots" => \A e \in built : e \in left \/ <<"bots", e>> \in stopped
    /\ waiter \in {"traders", "master", "exit", "done"} =>
         \A e \in built : <<"bots", e>> \in stopped
    /\ waiter = "traders" => \A e \in traders : e \in left \/ <<"traders", e>> \in stopped
    /\ waiter \in {"master", "exit", "done"} =>
         \A e \in traders : <<"traders", e>> \in stopped

\* Which bots the emergency stop has come to.
AlarmInv ==
  /\ alarm = "none" => untouched = {} /\ halted = {}
  /\ alarm # "none" => halted = built \ untouched
  /\ untouched \subseteq built
  /\ alarm = "answered" => untouched = {}

\* The shutdown has found nothing before it began.
WaitInv == waiter = "wait" => ~found

LifeInv == Settled /\ StopInv /\ AlarmInv /\ WaitInv

LEMMA LifeInit == ProcInit => LifeInv
BY DEF ProcInit, LifeInv, Settled, StopInv, AlarmInv, WaitInv

\* The steps of main, run_bot and the tasks that touch neither shutdown nor alarm, but for
\* Start, which finds neither begun with an orchestrator.
LEMMA MainSteps ==
  ASSUME LifeInv, Signal \/ ServerExits \/ ConnectFails \/ StartReturns \/ (\E t \in tasks : TaskEnds(t))
  PROVE  LifeInv'
<1>1. UNCHANGED <<built, traders, launched, waitVars, alarmVars>>
      /\ (runBot # "connect" => runBot' # "connect")
  BY DEF Signal, ServerExits, ConnectFails, StartReturns, TaskEnds, lifeVars, mainVars
<1> QED
  BY <1>1 DEF LifeInv, Settled, StopInv, AlarmInv, WaitInv, waitVars, alarmVars

LEMMA StartStep ==
  ASSUME LifeInv, Start
  PROVE  LifeInv'
<1>1. ~found /\ alarm = "none"
  BY DEF LifeInv, Settled, Start
<1>2. runBot' # "connect" /\ launched' /\ UNCHANGED <<waitVars, alarmVars>>
  BY DEF Start
<1>3. untouched = {} /\ halted = {}
  BY <1>1 DEF LifeInv, AlarmInv
<1> QED
  BY <1>1, <1>2, <1>3 DEF LifeInv, Settled, StopInv, AlarmInv, WaitInv, waitVars, alarmVars

\* The shutdown: what is left to stop shrinks only by what was stopped.
LEMMA ShutdownSteps ==
  ASSUME LifeInv, Shutdown
  PROVE  LifeInv'
<1>1. /\ UNCHANGED <<built, traders, launched, alarmVars>>
      /\ runBot' = runBot
  BY DEF Shutdown, ShutdownBegins, StopOne, StopRaises, NextLoop, StopMaster, Exit, mainVars,
         lifeVars, alarmVars
<1>2. Settled' /\ WaitInv' /\ AlarmInv'
  BY <1>1 DEF LifeInv, Settled, WaitInv, AlarmInv, alarmVars, Shutdown, ShutdownBegins, StopOne,
              StopRaises, NextLoop, StopMaster, Exit
<1>3. StopInv'
  <2>1. CASE ShutdownBegins
    BY <2>1, <1>1 DEF ShutdownBegins, StopInv
  <2>2. CASE \E e \in Enabled : StopOne(e)
    <3> PICK e \in Enabled : StopOne(e)
      BY <2>2
    <3>1. CASE waiter' = "raised"
      BY <3>1 DEF StopInv
    <3>2. CASE /\ waiter' = waiter
               /\ left' = left \ {e}
               /\ stopped' = stopped \cup {<<waiter, e>>}
      BY <3>2, <1>1 DEF StopOne, LifeInv, StopInv
    <3> QED
      BY <3>1, <3>2 DEF StopOne, StopRaises
  <2>3. CASE NextLoop
    BY <2>3, <1>1 DEF NextLoop, LifeInv, StopInv
  <2>4. CASE StopMaster \/ Exit
    BY <2>4, <1>1 DEF StopMaster, Exit, LifeInv, StopInv
  <2> QED
    BY <2>1, <2>2, <2>3, <2>4 DEF Shutdown
<1> QED
  BY <1>2, <1>3 DEF LifeInv

\* The emergency stop: each bot it comes to is halted, whether it fails there or not.
LEMMA AlarmSteps ==
  ASSUME LifeInv, Alarm \/ (\E e \in Enabled : AlarmNext(e)) \/ AlarmAnswered
  PROVE  LifeInv'
<1>1. UNCHANGED <<mainVars, lifeVars, waitVars>>
  BY DEF Alarm, AlarmNext, AlarmAnswered
<1>2. Settled' /\ StopInv' /\ WaitInv'
  BY <1>1 DEF LifeInv, Settled, StopInv, WaitInv, mainVars, lifeVars, waitVars, Alarm, AlarmNext,
              AlarmAnswered
<1>3. AlarmInv'
  <2>1. CASE Alarm
    BY <2>1 DEF Alarm, LifeInv, AlarmInv, lifeVars
  <2>2. CASE \E e \in Enabled : AlarmNext(e)
    <3> PICK e \in Enabled : AlarmNext(e)
      BY <2>2
    <3>1. built' = built /\ alarm' \in {"under way", "failed"}
      BY DEF AlarmNext, lifeVars
    <3> QED
      BY <3>1 DEF AlarmNext, LifeInv, AlarmInv
  <2>3. CASE AlarmAnswered
    BY <2>3 DEF AlarmAnswered, LifeInv, AlarmInv, lifeVars
  <2> QED
    BY <2>1, <2>2, <2>3
<1> QED
  BY <1>2, <1>3 DEF LifeInv

LEMMA LifeStep == LifeInv /\ [ProcNext]_procVars => LifeInv'
<1> SUFFICES ASSUME LifeInv, [ProcNext]_procVars PROVE LifeInv'
  OBVIOUS
<1>1. CASE UNCHANGED procVars
  BY <1>1 DEF procVars, mainVars, lifeVars, waitVars, alarmVars, LifeInv, Settled, StopInv, AlarmInv, WaitInv
<1>2. CASE ProcNext
  BY <1>2, MainSteps, StartStep, ShutdownSteps, AlarmSteps DEF ProcNext, RunBot
<1> QED
  BY <1>1, <1>2

\* Orchestrator.stop, wait_for_shutdown and emergency_stop_all, whatever interleaves and
\* wherever a stop or a cancellation raises: what is reported as done has reached every
\* bot and every paper trader.
THEOREM ReportedMeansReached == ProcSpec => []DoneMeansAllReached
<1>1. LifeInv => DoneMeansAllReached
  BY DEF LifeInv, StopInv, AlarmInv, DoneMeansAllReached
<1> QED
  BY LifeInit, LifeStep, <1>1, PTL DEF ProcSpec

-----------------------------------------------------------------------------
(* Requests: the rate limiter.                                             *)

\* A sleeper wakes to a whole token: what is left of its sleep and the time since the
\* refill make up what was missing.
SleepLongEnough == nap >= 0 => tokens + elapsed + nap >= Grain

LimiterInv ==
  /\ tokens \in 0 .. Full /\ elapsed \in Nat /\ nap \in Nat \cup {-1}
  /\ parity \in {0, 1}
  /\ elapsed <= Full
  /\ SleepLongEnough

LEMMA FullIs == Grain \in Nat /\ Full \in Nat /\ Grain <= Full /\ Grain > 0
<1>1. \A b, g \in Nat \ {0} : b * g \in Nat /\ g <= b * g
  BY SMT
<1>2. Burst \in Nat \ {0} /\ Grain \in Nat \ {0}
  BY RequestsAssumption
<1> QED
  BY <1>1, <1>2 DEF Full

LEMMA RefilledIs ==
  ASSUME tokens \in 0 .. Full, elapsed \in Nat
  PROVE  /\ Refilled \in 0 .. Full
         /\ Refilled = Full \/ Refilled = tokens + elapsed
         /\ tokens + elapsed >= Grain => Refilled >= Grain
BY FullIs DEF Refilled, AtMost

-----------------------------------------------------------------------------
(* The invariant.                                                          *)

LEMMA LimiterInit == RequestsInit => LimiterInv
BY FullIs DEF RequestsInit, LimiterInv, SleepLongEnough

LEMMA GrantedInv ==
  ASSUME LimiterInv, NEW c, Granted(c, Refilled), Refilled >= Grain
  PROVE  LimiterInv'
<1>1. tokens' = Refilled - Grain /\ elapsed' = 0 /\ nap' = -1 /\ parity' = 1 - parity
  BY DEF Granted
<1> QED
  BY <1>1, RefilledIs, FullIs DEF LimiterInv, SleepLongEnough

LEMMA HoldLockInv ==
  ASSUME LimiterInv, HoldLock
  PROVE  LimiterInv'
<1>1. CASE Refilled >= Grain /\ Granted(Head(line), Refilled)
  BY <1>1, GrantedInv
<1>2. CASE /\ Refilled < Grain
           /\ tokens' = Refilled /\ elapsed' = 0 /\ nap' = Grain - Refilled
           /\ parity' = parity
  BY <1>2, RefilledIs, FullIs DEF LimiterInv, SleepLongEnough
<1> QED
  BY <1>1, <1>2 DEF HoldLock

LEMMA WakeUpInv ==
  ASSUME LimiterInv, WakeUp
  PROVE  LimiterInv' /\ Refilled >= Grain
<1>1. Refilled >= Grain
  BY RefilledIs DEF LimiterInv, SleepLongEnough, WakeUp
<1> QED
  BY <1>1, GrantedInv DEF WakeUp

LEMMA TickInv ==
  ASSUME LimiterInv, Tick
  PROVE  LimiterInv'
<1>1. /\ elapsed' = AtMost(elapsed + 1, Full) /\ tokens' = tokens /\ parity' = parity
      /\ nap' = IF nap > 0 THEN nap - 1 ELSE nap
  BY DEF Tick
<1> QED
  BY <1>1, FullIs DEF LimiterInv, SleepLongEnough, AtMost

\* The connectors and a cancelled caller take and add no token; at most they end a sleep.
Elsewhere ==
  \/ \E c \in Callers : CallStarts(c) \/ Attempt(c) \/ BackoffOver(c) \/ Cancel(c)
  \/ ThreadStarts
  \/ \E i \in 1 .. Workers : ThreadEnds(i)
  \/ UNCHANGED requestsVars

LEMMA ElsewhereSame ==
  ASSUME Elsewhere
  PROVE  UNCHANGED <<tokens, elapsed, parity>> /\ nap' \in {nap, -1}
BY DEF Elsewhere, CallStarts, Attempt, BackoffOver, Cancel, LockLeft, ThreadStarts,
       ThreadEnds, requestsVars, limiterVars

LEMMA LimiterStep == LimiterInv /\ [RequestsNext]_requestsVars => LimiterInv'
<1> SUFFICES ASSUME LimiterInv, [RequestsNext]_requestsVars PROVE LimiterInv'
  OBVIOUS
<1>1. CASE Elsewhere
  BY <1>1, ElsewhereSame DEF LimiterInv, SleepLongEnough
<1> QED
  BY <1>1, HoldLockInv, WakeUpInv, TickInv DEF RequestsNext, Elsewhere

-----------------------------------------------------------------------------
(* The refinement.                                                         *)

LEMMA GrantTakes ==
  ASSUME LimiterInv, NEW c, Granted(c, Refilled), Refilled >= Grain
  PROVE  Bucket!Take
<1>1. tokens' = Refilled - Grain /\ elapsed' = 0 /\ parity' = 1 - parity
  BY DEF Granted
<1>2. Refilled \in 0 .. Full
  BY RefilledIs DEF LimiterInv
<1>3. AtMost(Full, tokens + elapsed)' = Refilled - Grain
  BY <1>1, <1>2, FullIs DEF AtMost
<1> QED
  BY <1>1, <1>3 DEF Bucket!Take, Refilled

LEMMA TickFills ==
  ASSUME LimiterInv, Tick
  PROVE  Bucket!Fill \/ UNCHANGED <<AtMost(Full, tokens + elapsed), parity>>
<1>1. elapsed' = AtMost(elapsed + 1, Full) /\ tokens' = tokens /\ parity' = parity
  BY DEF Tick
<1>2. CASE tokens + elapsed < Full
  <2>1. /\ AtMost(Full, tokens + elapsed)' = tokens + elapsed + 1
        /\ AtMost(Full, tokens + elapsed) = tokens + elapsed
    BY <1>1, <1>2, FullIs DEF LimiterInv, AtMost
  <2> QED
    BY <1>1, <1>2, <2>1 DEF Bucket!Fill, Full
<1>3. CASE tokens + elapsed >= Full
  BY <1>1, <1>3, FullIs DEF LimiterInv, AtMost
<1> QED
  BY <1>2, <1>3, FullIs DEF LimiterInv

LEMMA HoldLockTakes ==
  ASSUME LimiterInv, HoldLock
  PROVE  Bucket!Take \/ UNCHANGED <<AtMost(Full, tokens + elapsed), parity>>
<1>1. CASE Refilled >= Grain /\ Granted(Head(line), Refilled)
  BY <1>1, GrantTakes
<1>2. CASE tokens' = Refilled /\ elapsed' = 0 /\ parity' = parity
  BY <1>2, RefilledIs, FullIs DEF LimiterInv, AtMost, Refilled
<1> QED
  BY <1>1, <1>2 DEF HoldLock

LEMMA StepBucket ==
  LimiterInv /\ [RequestsNext]_requestsVars =>
    [Bucket!Fill \/ Bucket!Take]_<<AtMost(Full, tokens + elapsed), parity>>
<1> SUFFICES ASSUME LimiterInv, [RequestsNext]_requestsVars
             PROVE  [Bucket!Fill \/ Bucket!Take]_<<AtMost(Full, tokens + elapsed), parity>>
  OBVIOUS
<1>1. CASE Elsewhere
  BY <1>1, ElsewhereSame DEF AtMost
<1>2. CASE WakeUp
  BY <1>2, WakeUpInv, GrantTakes DEF WakeUp
<1> QED
  BY <1>1, <1>2, HoldLockTakes, TickFills DEF RequestsNext, Elsewhere

LEMMA InitBucket == RequestsInit => Bucket!BucketInit
BY FullIs DEF RequestsInit, Bucket!BucketInit, AtMost, Full

\* RateLimiter: tokens are granted as by a bucket that fills without a pause, so no run of
\* calls, sleeps and cancellations gets more than burst and rate allow.
THEOREM LimiterIsBucket == RequestsSpec => ImplementsBucket
BY LimiterInit, LimiterStep, InitBucket, StepBucket, PTL
   DEF RequestsSpec, ImplementsBucket, Bucket!BucketSpec

-----------------------------------------------------------------------------
(* LiveFeed: what a client has been told.                                  *)

Consecutive(q) == \A i \in 1 .. Len(q) - 1 : q[i + 1] = q[i] + 1

LastOf(q) == q[Len(q)]

Live == {"wait", "send", "beat"}

\* The last event the endpoint has taken, if it has taken one.
HasTaken(s) == endpoint[s] = "send" \/ heard[s] # <<>>
Taken(s)    == IF endpoint[s] = "send" THEN sending[s] ELSE LastOf(heard[s])

LiveTypeOK ==
  /\ events \in Nat
  /\ mail \in [Sockets -> Seq(Nat)]
  /\ endpoint \in [Sockets -> Live \cup {"none", "closed"}]
  /\ sending \in [Sockets -> Nat]
  /\ heard \in [Sockets -> Seq(Nat)]

\* What was heard, what is being sent and what waits is one stream, which ends with the
\* last event as long as the client is subscribed.
Stream(s) ==
  /\ Consecutive(heard[s])
  /\ Consecutive(mail[s])
  /\ endpoint[s] = "send" /\ heard[s] # <<>> => sending[s] = LastOf(heard[s]) + 1
  /\ endpoint[s] \in Live /\ HasTaken(s) /\ mail[s] # <<>> => mail[s][1] = Taken(s) + 1
  /\ s \in clients => endpoint[s] \in Live
  /\ s \in clients /\ mail[s] # <<>> => LastOf(mail[s]) = events
  /\ s \in clients /\ mail[s] = <<>> /\ HasTaken(s) => Taken(s) = events
  /\ endpoint[s] = "none" => mail[s] = <<>> /\ heard[s] = <<>>

FeedInv == LiveTypeOK /\ \A s \in Sockets : Stream(s)

-----------------------------------------------------------------------------
(* Sequences of consecutive numbers.                                       *)

LEMMA EmptyConsecutive == Consecutive(<<>>)
BY DEF Consecutive

LEMMA AppendConsecutive ==
  ASSUME NEW q \in Seq(Nat), NEW e \in Nat, Consecutive(q), q # <<>> => e = LastOf(q) + 1
  PROVE  /\ Append(q, e) \in Seq(Nat) /\ Append(q, e) # <<>>
         /\ Consecutive(Append(q, e))
         /\ LastOf(Append(q, e)) = e
         /\ Append(q, e)[1] = IF q = <<>> THEN e ELSE q[1]
<1> DEFINE t == Append(q, e)
<1>1. /\ t \in Seq(Nat) /\ Len(t) = Len(q) + 1 /\ Len(q) \in Nat
      /\ t[Len(t)] = e /\ \A i \in 1 .. Len(q) : t[i] = q[i]
      /\ q = <<>> <=> Len(q) = 0
  OBVIOUS
<1> HIDE DEF t
<1>2. Consecutive(t)
  <2> SUFFICES ASSUME NEW i \in 1 .. Len(t) - 1 PROVE t[i + 1] = t[i] + 1
    BY DEF Consecutive
  <2>1. CASE i = Len(q)
    BY <1>1, <2>1 DEF LastOf
  <2>2. CASE i # Len(q)
    <3>1. i \in 1 .. Len(q) - 1 /\ i + 1 \in 1 .. Len(q) /\ i \in 1 .. Len(q)
      BY <1>1, <2>2
    <3>2. q[i + 1] = q[i] + 1
      BY <3>1 DEF Consecutive
    <3> QED
      BY <1>1, <3>1, <3>2
  <2> QED
    BY <2>1, <2>2
<1>3. t # <<>> /\ LastOf(t) = e /\ t[1] = IF q = <<>> THEN e ELSE q[1]
  BY <1>1 DEF LastOf
<1> QED
  BY <1>1, <1>2, <1>3 DEF t

LEMMA TailConsecutive ==
  ASSUME NEW q \in Seq(Nat), Consecutive(q), q # <<>>
  PROVE  /\ Tail(q) \in Seq(Nat) /\ Consecutive(Tail(q)) /\ Head(q) = q[1] /\ Head(q) \in Nat
         /\ Tail(q) # <<>> => Tail(q)[1] = Head(q) + 1 /\ LastOf(Tail(q)) = LastOf(q)
         /\ Tail(q) = <<>> => Head(q) = LastOf(q)
<1> DEFINE t == Tail(q)
<1>1. Len(q) \in Nat /\ Len(q) >= 1 /\ Head(q) = q[1] /\ q[1] \in Nat
  OBVIOUS
<1>2. t \in Seq(Nat) /\ Len(t) = Len(q) - 1 /\ \A i \in 1 .. Len(q) - 1 : t[i] = q[i + 1]
  BY <1>1
<1> HIDE DEF t
<1>3. t = <<>> <=> Len(t) = 0
  BY <1>2, EmptySeq
<1>4. Consecutive(t)
  <2> SUFFICES ASSUME NEW i \in 1 .. Len(t) - 1 PROVE t[i + 1] = t[i] + 1
    BY DEF Consecutive
  <2>1. i \in 1 .. Len(q) - 1 /\ i + 1 \in 1 .. Len(q) - 1
    BY <1>1, <1>2
  <2>2. t[i] = q[i + 1] /\ t[i + 1] = q[(i + 1) + 1]
    BY <1>2, <2>1
  <2>3. q[(i + 1) + 1] = q[i + 1] + 1
    BY <2>1 DEF Consecutive
  <2> QED
    BY <2>2, <2>3
<1>5. t # <<>> => t[1] = Head(q) + 1 /\ LastOf(t) = LastOf(q)
  <2> SUFFICES ASSUME t # <<>> PROVE t[1] = Head(q) + 1 /\ LastOf(t) = LastOf(q)
    OBVIOUS
  <2>1. 1 \in 1 .. Len(q) - 1 /\ Len(t) \in 1 .. Len(q) - 1 /\ Len(t) + 1 = Len(q)
    BY <1>1, <1>2, <1>3
  <2>2. t[1] = q[1 + 1] /\ t[Len(t)] = q[Len(t) + 1]
    BY <1>2, <2>1
  <2>3. q[1 + 1] = q[1] + 1
    BY <2>1 DEF Consecutive
  <2> QED
    BY <1>1, <2>1, <2>2, <2>3 DEF LastOf
<1>6. t = <<>> => Head(q) = LastOf(q)
  <2>1. t = <<>> => Len(q) = 1
    BY <1>1, <1>2, <1>3
  <2> QED
    BY <1>1, <2>1 DEF LastOf
<1> QED
  BY <1>1, <1>2, <1>4, <1>5, <1>6 DEF t

-----------------------------------------------------------------------------
(* The invariant.                                                          *)

LEMMA FeedInit == LiveInit => FeedInv
<1> SUFFICES ASSUME LiveInit PROVE FeedInv
  OBVIOUS
<1>1. <<>> \in Seq(Nat)
  OBVIOUS
<1>2. LiveTypeOK
  BY <1>1 DEF LiveInit, LiveTypeOK
<1>3. ASSUME NEW s \in Sockets PROVE Stream(s)
  <2>1. heard[s] = <<>> /\ mail[s] = <<>> /\ endpoint[s] = "none" /\ s \notin clients
    BY DEF LiveInit
  <2> QED
    BY <2>1, EmptyConsecutive DEF Stream, HasTaken, Live
<1> QED
  BY <1>2, <1>3 DEF FeedInv

\* A step of one socket leaves the streams of the others alone.
LEMMA OthersKeep ==
  ASSUME FeedInv, NEW s \in Sockets, NEW r \in Sockets, r # s,
         Subscribe(s) \/ Receive(s) \/ HeartbeatDue(s) \/ Sent(s) \/ Leaves(s)
  PROVE  Stream(r)'
<1>1. /\ events' = events /\ heard'[r] = heard[r] /\ mail'[r] = mail[r]
      /\ endpoint'[r] = endpoint[r] /\ sending'[r] = sending[r] /\ (r \in clients' <=> r \in clients)
  BY DEF Subscribe, Receive, HeartbeatDue, Sent, Leaves, Unsubscribed, FeedInv, LiveTypeOK
<1> QED
  BY <1>1 DEF FeedInv, Stream, HasTaken, Taken

LEMMA SubscribeInv ==
  ASSUME FeedInv, NEW s \in Sockets, Subscribe(s)
  PROVE  LiveTypeOK' /\ Stream(s)'
<1>1. /\ mail[s] = <<>> /\ heard[s] = <<>> /\ endpoint'[s] = "wait"
      /\ mail' = mail /\ heard' = heard
  BY DEF Subscribe, FeedInv, LiveTypeOK, Stream
<1>2. LiveTypeOK'
  BY DEF Subscribe, FeedInv, LiveTypeOK, Live
<1> QED
  BY <1>1, <1>2, EmptyConsecutive DEF Stream, HasTaken, Live

LEMMA ReceiveInv ==
  ASSUME FeedInv, NEW s \in Sockets, Receive(s)
  PROVE  LiveTypeOK' /\ Stream(s)'
<1>1. /\ mail[s] \in Seq(Nat) /\ heard[s] \in Seq(Nat) /\ mail[s] # <<>> /\ Consecutive(mail[s])
      /\ endpoint[s] = "wait" /\ endpoint'[s] = "send" /\ sending'[s] = Head(mail[s])
      /\ mail'[s] = Tail(mail[s]) /\ heard' = heard /\ events' = events /\ clients' = clients
  BY DEF Receive, FeedInv, LiveTypeOK, Stream
<1>2. /\ Tail(mail[s]) \in Seq(Nat) /\ Consecutive(Tail(mail[s])) /\ Head(mail[s]) \in Nat
      /\ Head(mail[s]) = mail[s][1]
      /\ Tail(mail[s]) # <<>> => /\ Tail(mail[s])[1] = Head(mail[s]) + 1
                                 /\ LastOf(Tail(mail[s])) = LastOf(mail[s])
      /\ Tail(mail[s]) = <<>> => Head(mail[s]) = LastOf(mail[s])
  BY <1>1, TailConsecutive
<1>3. LiveTypeOK'
  BY <1>1, <1>2 DEF Receive, FeedInv, LiveTypeOK, Live
<1>4. Stream(s)
  BY DEF FeedInv
<1> QED
  BY <1>1, <1>2, <1>3, <1>4 DEF Stream, HasTaken, Taken, Live

LEMMA SentInv ==
  ASSUME FeedInv, NEW s \in Sockets, Sent(s)
  PROVE  LiveTypeOK' /\ Stream(s)'
<1>0. Stream(s)
  BY DEF FeedInv
<1>1. /\ mail[s] \in Seq(Nat) /\ heard[s] \in Seq(Nat) /\ sending[s] \in Nat
      /\ endpoint[s] \in {"send", "beat"} /\ endpoint'[s] = "wait"
      /\ mail' = mail /\ sending' = sending /\ events' = events /\ clients' = clients
      /\ heard'[s] = IF endpoint[s] = "send" THEN Append(heard[s], sending[s]) ELSE heard[s]
  BY DEF Sent, FeedInv, LiveTypeOK
<1>2. CASE endpoint[s] = "send"
  <2>1. /\ Append(heard[s], sending[s]) \in Seq(Nat) /\ Append(heard[s], sending[s]) # <<>>
        /\ Consecutive(Append(heard[s], sending[s]))
        /\ LastOf(Append(heard[s], sending[s])) = sending[s]
    BY <1>0, <1>1, <1>2, AppendConsecutive DEF Stream
  <2>2. LiveTypeOK'
    BY <1>1, <1>2, <2>1 DEF Sent, FeedInv, LiveTypeOK, Live
  <2> QED
    BY <1>0, <1>1, <1>2, <2>1, <2>2 DEF Stream, HasTaken, Taken, Live
<1>3. CASE endpoint[s] = "beat"
  <2>1. LiveTypeOK'
    BY <1>1, <1>3 DEF Sent, FeedInv, LiveTypeOK, Live
  <2> QED
    BY <1>0, <1>1, <1>3, <2>1 DEF Stream, HasTaken, Taken, Live
<1> QED
  BY <1>1, <1>2, <1>3

LEMMA PauseInv ==
  ASSUME FeedInv, NEW s \in Sockets, HeartbeatDue(s) \/ Leaves(s)
  PROVE  LiveTypeOK' /\ Stream(s)'
<1>1. Stream(s)
  BY DEF FeedInv
<1>2. LiveTypeOK'
  BY DEF HeartbeatDue, Leaves, FeedInv, LiveTypeOK, Live
<1>3. /\ mail' = mail /\ heard' = heard /\ sending' = sending /\ events' = events
      /\ endpoint[s] \in Live
      /\ \/ endpoint[s] = "wait" /\ endpoint'[s] = "beat" /\ clients' = clients
         \/ endpoint'[s] = "closed" /\ s \notin clients'
  BY DEF HeartbeatDue, Leaves, Unsubscribed, FeedInv, LiveTypeOK, Live
<1> QED
  BY <1>1, <1>2, <1>3 DEF Stream, HasTaken, Taken, Live

\* A broadcast extends the stream of every client whose queue has room, and unsubscribes
\* the others.
LEMMA BroadcastInv ==
  ASSUME FeedInv, Broadcast
  PROVE  FeedInv'
<1>1. /\ events \in Nat /\ events' = events + 1
      /\ endpoint' = endpoint /\ sending' = sending /\ heard' = heard
  BY DEF Broadcast, feedOf, FeedInv, LiveTypeOK
<1>2. ASSUME NEW s \in Sockets
      PROVE  \/ s \notin clients' /\ mail'[s] = mail[s]
             \/ s \in clients /\ mail'[s] = Append(mail[s], events + 1)
  BY <1>1 DEF Broadcast, DropSlow
<1>3. ASSUME NEW s \in Sockets
      PROVE  mail'[s] \in Seq(Nat) /\ Stream(s)'
  <2>0. Stream(s) /\ mail[s] \in Seq(Nat)
    BY DEF FeedInv, LiveTypeOK
  <2>1. CASE s \notin clients' /\ mail'[s] = mail[s]
    BY <1>1, <2>0, <2>1 DEF Stream, HasTaken, Taken
  <2>2. CASE s \in clients /\ mail'[s] = Append(mail[s], events + 1)
    <3>1. Consecutive(mail[s]) /\ (mail[s] # <<>> => events + 1 = LastOf(mail[s]) + 1)
      BY <2>0, <2>2 DEF Stream
    <3>2. events + 1 \in Nat
      BY <1>1
    <3>3. /\ mail'[s] \in Seq(Nat) /\ mail'[s] # <<>> /\ Consecutive(mail'[s])
          /\ LastOf(mail'[s]) = events + 1
          /\ mail'[s][1] = IF mail[s] = <<>> THEN events + 1 ELSE mail[s][1]
      BY <2>0, <2>2, <3>1, <3>2, AppendConsecutive
    <3>4. (s \in clients)' => endpoint[s] \in Live
      BY <2>0, <2>2 DEF Stream
    <3> QED
      BY <1>1, <2>0, <2>2, <3>3, <3>4 DEF Stream, HasTaken, Taken, Live
  <2> QED
    BY <1>2, <2>1, <2>2
<1>4. DOMAIN mail' = Sockets /\ mail' = [s \in Sockets |-> mail'[s]]
  BY DEF Broadcast
<1> QED
  BY <1>1, <1>3, <1>4 DEF FeedInv, LiveTypeOK

LEMMA FeedStep == FeedInv /\ [LiveNext]_liveVars => FeedInv'
<1> SUFFICES ASSUME FeedInv, [LiveNext]_liveVars PROVE FeedInv'
  OBVIOUS
<1>1. CASE UNCHANGED liveVars
  BY <1>1 DEF liveVars, feedOf, FeedInv, LiveTypeOK, Stream, HasTaken, Taken
<1>2. ASSUME NEW s \in Sockets,
             Subscribe(s) \/ Receive(s) \/ HeartbeatDue(s) \/ Sent(s) \/ Leaves(s)
      PROVE  FeedInv'
  <2>1. LiveTypeOK' /\ Stream(s)'
    BY <1>2, SubscribeInv, ReceiveInv, SentInv, PauseInv
  <2>2. \A r \in Sockets : r # s => Stream(r)'
    BY <1>2, OthersKeep
  <2> QED
    BY <2>1, <2>2 DEF FeedInv
<1> QED
  BY <1>1, <1>2, BroadcastInv DEF LiveNext

\* LiveFeed.broadcast: a client hears consecutive events, however slow it is, whoever
\* subscribes, leaves or is dropped meanwhile.
THEOREM StreamHasNoGaps == LiveSpec => []NoGaps
<1>1. FeedInv => NoGaps
  BY DEF FeedInv, Stream, Consecutive, NoGaps
<1> QED
  BY FeedInit, FeedStep, <1>1, PTL DEF LiveSpec

=============================================================================
