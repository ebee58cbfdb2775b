---------------------------- MODULE GateConnector ----------------------------
(***************************************************************************)
(* exchange/cpp/src/gate_connector.cpp: the Gate.io connector.             *)
(*                                                                         *)
(* Threads: the io thread (bootstrap over REST, WebSocket session,         *)
(* receive loop, teardown, backoff), the thread that calls connect and     *)
(* disconnect, the threads that place and cancel orders and wait for the   *)
(* answer, and the thread in fetch_open_orders.  They share the map of     *)
(* pending requests, the pointer to the WebSocket client, and the queue of *)
(* order events, which is SpscQueue with the io thread as its producer.    *)
(*                                                                         *)
(* One action is the code between two accesses to what they share, or a    *)
(* section under one mutex.  A connection carries messages in order and    *)
(* loses those not received when it breaks.                                *)
(***************************************************************************)
EXTENDS SpscQueue

CONSTANTS
  MaxId,        \* bound: orders ever accepted
  MaxRequests,  \* bound: calls of ws_api_request
  MaxConns      \* bound: WebSocket connections

Ids      == 1 .. MaxId
Requests == 1 .. MaxRequests

\* OrderEvent; id 0 is a default-constructed one.
Events == [type : {"OPEN", "CANCEL", "FILL"}, id : 0 .. MaxId]

ASSUME GateAssumption ==
  /\ Items = Events
  /\ MaxId \in Nat
  /\ MaxRequests \in Nat
  /\ MaxConns \in Nat

VARIABLES
  \* the exchange
  nextId,      \* the id of the next order
  live,        \* ids resting on the book
  subscribed,  \* it sends order events on the present connection
  inbox,       \* requests received on the present connection, unanswered
  stray,       \* requests sent on a connection that broke, unanswered
  wire,        \* messages on their way to the io thread
  made,        \* made[r]: the order request r created or cancelled, 0 if none
  unseen,      \* ids whose last change no event or snapshot tells of
  \* connect and disconnect
  running,     \* running_
  connected,   \* connected_
  ctl,         \* the calling thread
  \* the io thread
  io,          \* where it is
  booted,      \* ticker_ready_, and so balance_ready_
  ws_ready,    \* ws_ready_
  ws_ptr,      \* ws_ptr_ is not null
  conn,        \* number of the last connection
  boot,        \* open orders of the REST snapshot still to be pushed
  \* ws_api_request, for each request id
  rq,          \* where the call is
  ask,         \* the order to cancel, 0 for a new one
  sentOn,      \* the connection it was sent on
  pending,     \* keys of pending_requests_
  promise,     \* what the promise holds
  \* fetch_open_orders
  fetching,
  orders       \* consumer_orders_

exchangeVars == <<nextId, live, subscribed, inbox, stray, wire, made, unseen>>
ctlVars      == <<running, connected, ctl>>
ioVars       == <<io, booted, ws_ready, ws_ptr, conn, boot>>
requestVars  == <<rq, ask, sentOn, pending, promise>>
fetchVars    == <<fetching, orders>>
gateVars     == <<exchangeVars, ctlVars, ioVars, requestVars, fetchVars, queueVars>>

GateInit ==
  /\ QueueInit
  /\ buf_[0] = [type |-> "OPEN", id |-> 0]
  /\ nextId \in 1 .. MaxId + 1
  /\ live = 1 .. nextId - 1    \* left by an earlier session
  /\ subscribed = FALSE
  /\ inbox = {}
  /\ stray = {}
  /\ wire = <<>>
  /\ made = [r \in Requests |-> 0]
  /\ unseen = live
  /\ running = FALSE
  /\ connected = FALSE
  /\ ctl = "closed"
  /\ io = "off"
  /\ booted = FALSE
  /\ ws_ready = FALSE
  /\ ws_ptr = FALSE
  /\ conn = 0
  /\ boot = {}
  /\ rq = [r \in Requests |-> "new"]
  /\ ask = [r \in Requests |-> 0]
  /\ sentOn = [r \in Requests |-> 0]
  /\ pending = {}
  /\ promise = [r \in Requests |-> "empty"]
  /\ fetching = FALSE
  /\ orders = {}

-----------------------------------------------------------------------------
(* connect and disconnect.                                                 *)

Connect ==
  /\ ctl = "closed"
  /\ running' = TRUE
  /\ io' = "loop"
  /\ ctl' = "waiting"
  /\ UNCHANGED <<exchangeVars, connected, booted, ws_ready, ws_ptr, conn, boot,
                 requestVars, fetchVars, queueVars>>

\* The predicate of wait_for; a missed notification only delays its evaluation.
ConnectReturns ==
  /\ ctl = "waiting"
  /\ booted /\ ws_ready
  /\ connected' = TRUE
  /\ ctl' = "open"
  /\ UNCHANGED <<exchangeVars, running, ioVars, requestVars, fetchVars, queueVars>>

ConnectTimesOut ==
  /\ ctl = "waiting"
  /\ ~(booted /\ ws_ready)
  /\ running' = FALSE
  /\ ctl' = "joining"
  /\ UNCHANGED <<exchangeVars, connected, ioVars, requestVars, fetchVars, queueVars>>

Disconnect ==
  /\ ctl = "open"
  /\ running' = FALSE
  /\ connected' = FALSE
  /\ ctl' = "joining"
  /\ UNCHANGED <<exchangeVars, ioVars, requestVars, fetchVars, queueVars>>

\* io_thread_.join() returns.
Join ==
  /\ ctl = "joining"
  /\ io = "off"
  /\ ctl' = "closed"
  /\ UNCHANGED <<exchangeVars, running, connected, ioVars, requestVars, fetchVars, queueVars>>

-----------------------------------------------------------------------------
(* The io thread: bootstrap.                                               *)

\* The WsClient is a local of the try block: it exists in these places.
Alive == io \in {"login", "receive", "recv"}

Goto(place) ==
  /\ io' = place
  /\ UNCHANGED <<exchangeVars, ctlVars, booted, ws_ready, ws_ptr, conn, boot,
                 requestVars, fetchVars, queueVars>>

\* `while (running_)`, at the start and after the backoff.
LoopHead == io = "loop" /\ Goto(IF running THEN "balance" ELSE "off")

\* The balance arrives, or rest_get throws.
FetchBalance == io = "balance" /\ (Goto("snapshot") \/ Goto("dead"))

\* The open orders at the moment the exchange answers, up to an exception, which
\* is caught.
FetchSnapshot ==
  /\ io = "snapshot"
  /\ boot' \in SUBSET live
  /\ unseen' = unseen \ boot'
  /\ io' = "pushing"
  /\ UNCHANGED <<nextId, live, subscribed, inbox, stray, wire, made, ctlVars, booted,
                 ws_ready, ws_ptr, conn, requestVars, fetchVars, queueVars>>

\* push, up to its comparison; the event is dropped if the queue is full.
Enqueue(event) ==
  \/ PushStarts(event) /\ UNCHANGED unseen
  \/ PushFull /\ unseen' = unseen \cup {event.id}

PushSnapshot ==
  /\ io = "pushing"
  /\ \E i \in boot :
       /\ Enqueue([type |-> "OPEN", id |-> i])
       /\ boot' = boot \ {i}
  /\ UNCHANGED <<nextId, live, subscribed, inbox, stray, wire, made, ctlVars, io,
                 booted, ws_ready, ws_ptr, conn, requestVars, fetchVars>>

\* The rest of a push.
PushGoesOn ==
  /\ PushWrites \/ PushPublishes
  /\ UNCHANGED <<exchangeVars, ctlVars, ioVars, requestVars, fetchVars>>

\* The ticker arrives, perhaps an empty one, or rest_get throws; the order filter
\* may fail to load.
FetchTicker ==
  /\ io = "pushing"
  /\ ppc = "idle"
  /\ boot = {}
  /\ \/ Goto("dead")
     \/ /\ io' = "connecting"
        /\ booted' \in {booted, TRUE}
        /\ UNCHANGED <<exchangeVars, ctlVars, ws_ready, ws_ptr, conn, boot,
                       requestVars, fetchVars, queueVars>>

WsConnect ==
  /\ io = "connecting"
  /\ \/ Goto("dead")
     \/ /\ conn < MaxConns
        /\ conn' = conn + 1
        /\ ws_ptr' = TRUE
        /\ io' = "login"
        /\ UNCHANGED <<exchangeVars, ctlVars, booted, ws_ready, boot, requestVars,
                       fetchVars, queueVars>>

\* ws_login, then ws_ready_ is set and the subscriptions are sent; the exchange
\* acts on them when it receives them.
Login ==
  /\ io = "login"
  /\ ws_ready' = TRUE
  /\ io' = "receive"
  /\ UNCHANGED <<exchangeVars, ctlVars, booted, ws_ptr, conn, boot, requestVars,
                 fetchVars, queueVars>>

-----------------------------------------------------------------------------
(* The io thread: the receive loop.                                        *)

\* `while (running_)`, and a call of recv_msg.
Poll == io = "receive" /\ ppc = "idle" /\ running /\ Goto("recv")

\* recv_msg returns nothing, or nothing that changes the modelled state.
RecvTimesOut == io = "recv" /\ Goto("receive")

\* Taking any answer for a success.
FulfilAlways(r, ok) ==
  IF r \in pending THEN [promise EXCEPT ![r] = "value"] ELSE promise

\* The promise of request r, if it is still in the map, gets its answer.
Fulfil(r, ok) ==
  IF r \in pending THEN [promise EXCEPT ![r] = IF ok THEN "value" ELSE "error"]
                   ELSE promise

ReceiveAnswer ==
  /\ io = "recv"
  /\ wire # <<>>
  /\ Head(wire).kind = "answer"
  /\ promise' = Fulfil(Head(wire).req, Head(wire).ok)
  /\ pending' = pending \ {Head(wire).req}
  /\ wire' = Tail(wire)
  /\ io' = "receive"
  /\ UNCHANGED <<nextId, live, subscribed, inbox, stray, made, unseen, ctlVars, booted,
                 ws_ready, ws_ptr, conn, boot, rq, ask, sentOn, fetchVars, queueVars>>

ReceiveEvent ==
  /\ io = "recv"
  /\ wire # <<>>
  /\ Head(wire).kind = "event"
  /\ Enqueue(Head(wire).event)
  /\ wire' = Tail(wire)
  /\ io' = "receive"
  /\ UNCHANGED <<nextId, live, subscribed, inbox, stray, made, ctlVars, booted,
                 ws_ready, ws_ptr, conn, boot, requestVars, fetchVars>>

\* The first ticker, if the bootstrap brought none.
ReceiveTicker ==
  /\ io = "recv"
  /\ ~booted
  /\ booted' = TRUE
  /\ io' = "receive"
  /\ UNCHANGED <<exchangeVars, ctlVars, ws_ready, ws_ptr, conn, boot, requestVars,
                 fetchVars, queueVars>>

EventIds(messages) ==
  {messages[k].event.id : k \in {j \in DOMAIN messages : messages[j].kind = "event"}}

\* The WsClient is destroyed: what was on its way to the io thread is lost, what
\* was on its way to the exchange may arrive.
LeaveTryBlock ==
  /\ io' = "dead"
  /\ subscribed' = FALSE
  /\ wire' = <<>>
  /\ unseen' = unseen \cup EventIds(wire)
  /\ stray' = stray \cup inbox
  /\ inbox' = {}
  /\ UNCHANGED <<nextId, live, made, ctlVars, booted, ws_ready, ws_ptr, conn, boot,
                 requestVars, fetchVars, queueVars>>

\* A send or a receive throws.
ConnectionLost == Alive /\ ppc = "idle" /\ LeaveTryBlock

\* A loop that looks at running_ only when there is a message.
StopAfterMessage ==
  io = "receive" /\ ppc = "idle" /\ wire # <<>> /\ ~running /\ LeaveTryBlock

Stop == io = "receive" /\ ppc = "idle" /\ ~running /\ LeaveTryBlock

-----------------------------------------------------------------------------
(* The io thread: teardown.                                                *)

\* A teardown that forgets the pointer.
ClearReadyOnly ==
  /\ io = "dead"
  /\ ws_ready' = FALSE
  /\ io' = "failing"
  /\ UNCHANGED <<exchangeVars, ctlVars, booted, ws_ptr, conn, boot, requestVars,
                 fetchVars, queueVars>>

ClearPointer ==
  /\ io = "dead"
  /\ ws_ready' = FALSE
  /\ ws_ptr' = FALSE
  /\ io' = "failing"
  /\ UNCHANGED <<exchangeVars, ctlVars, booted, conn, boot, requestVars, fetchVars, queueVars>>

\* fail_pending_requests, then the backoff or the end of the thread.
FailPending ==
  /\ io = "failing"
  /\ promise' = [r \in Requests |-> IF r \in pending THEN "error" ELSE promise[r]]
  /\ pending' = {}
  /\ io' = IF running THEN "loop" ELSE "off"
  /\ UNCHANGED <<exchangeVars, ctlVars, booted, ws_ready, ws_ptr, conn, boot,
                 rq, ask, sentOn, fetchVars, queueVars>>

\* What the io thread does without the network's help.
IoStep ==
  \/ LoopHead
  \/ FetchBalance
  \/ FetchSnapshot
  \/ PushSnapshot
  \/ PushGoesOn
  \/ FetchTicker
  \/ WsConnect
  \/ Login
  \/ Poll
  \/ RecvTimesOut
  \/ ReceiveAnswer
  \/ ReceiveEvent
  \/ ReceiveTicker
  \/ Stop
  \/ ClearPointer
  \/ FailPending

-----------------------------------------------------------------------------
(* create_limit_order and cancel_order: ws_api_request.                    *)

\* The promise is registered under a fresh request id.
Register(r) ==
  /\ connected
  /\ rq[r] = "new"
  /\ \A q \in Requests : q < r => rq[q] # "new"
  /\ \E i \in 0 .. nextId - 1 : ask' = [ask EXCEPT ![r] = i]
  /\ rq' = [rq EXCEPT ![r] = "registered"]
  /\ pending' = pending \cup {r}
  /\ UNCHANGED <<exchangeVars, ctlVars, ioVars, sentOn, promise, fetchVars, queueVars>>

\* The section under ws_send_mutex_.  send_text may throw, which leaves the promise
\* in the map.  A client that was destroyed may do as if it had sent.
Send(r) ==
  /\ rq[r] = "registered"
  /\ \/ /\ ws_ptr
        /\ inbox' = IF Alive THEN inbox \cup {r} ELSE inbox
        /\ rq' = [rq EXCEPT ![r] = "waiting"]
        /\ sentOn' = [sentOn EXCEPT ![r] = conn]
     \/ /\ ws_ptr
        /\ rq' = [rq EXCEPT ![r] = "raised"]
        /\ UNCHANGED <<inbox, sentOn>>
     \/ /\ ~ws_ptr
        /\ rq' = [rq EXCEPT ![r] = "erasing"]
        /\ UNCHANGED <<inbox, sentOn>>
  /\ UNCHANGED <<nextId, live, subscribed, stray, wire, made, unseen, ctlVars, ioVars,
                 ask, pending, promise, fetchVars, queueVars>>

\* wait_for times out.
TimeOut(r) ==
  /\ rq[r] = "waiting"
  /\ promise[r] = "empty"
  /\ rq' = [rq EXCEPT ![r] = "erasing"]
  /\ UNCHANGED <<exchangeVars, ctlVars, ioVars, ask, sentOn, pending, promise,
                 fetchVars, queueVars>>

\* The entry is removed, if it is still there, and the call throws.
Erase(r) ==
  /\ rq[r] = "erasing"
  /\ pending' = pending \ {r}
  /\ rq' = [rq EXCEPT ![r] = "raised"]
  /\ UNCHANGED <<exchangeVars, ctlVars, ioVars, ask, sentOn, promise, fetchVars, queueVars>>

Get(r) ==
  /\ rq[r] = "waiting"
  /\ promise[r] # "empty"
  /\ rq' = [rq EXCEPT ![r] = IF promise[r] = "value" THEN "returned" ELSE "raised"]
  /\ UNCHANGED <<exchangeVars, ctlVars, ioVars, ask, sentOn, pending, promise,
                 fetchVars, queueVars>>

Request(r) == Register(r) \/ Send(r) \/ TimeOut(r) \/ Erase(r) \/ Get(r)

-----------------------------------------------------------------------------
(* fetch_open_orders.                                                      *)

\* Forgetting that a filled order is no longer open.
AppliedButFills(known, event) ==
  CASE event.type = "OPEN"   -> known \cup {event.id}
    [] event.type = "CANCEL" -> known \ {event.id}
    [] event.type = "FILL"   -> known

Applied(known, event) ==
  IF event.type = "OPEN" THEN known \cup {event.id} ELSE known \ {event.id}

FetchBegins ==
  /\ connected
  /\ ~fetching
  /\ fetching' = TRUE
  /\ UNCHANGED <<exchangeVars, ctlVars, ioVars, requestVars, orders, queueVars>>

Drain ==
  /\ fetching
  /\ \/ /\ PopStarts \/ PopReads
        /\ UNCHANGED fetchVars
     \/ /\ PopReleases
        /\ orders' = Applied(orders, copy)
        /\ UNCHANGED fetching
     \/ /\ PopEmpty
        /\ fetching' = FALSE
        /\ UNCHANGED orders
  /\ UNCHANGED <<exchangeVars, ctlVars, ioVars, requestVars>>

-----------------------------------------------------------------------------
(* The exchange.                                                           *)

Answer(r, ok) == <<[kind |-> "answer", req |-> r, ok |-> ok]>>

\* The event of a change, if there is a subscription.
Report(type, i) ==
  IF subscribed THEN <<[kind |-> "event", event |-> [type |-> type, id |-> i]]>> ELSE <<>>

Told(i) == unseen' = IF subscribed THEN unseen \ {i} ELSE unseen \cup {i}

ExecSubscribe ==
  /\ io \in {"receive", "recv"}
  /\ ~subscribed
  /\ subscribed' = TRUE
  /\ UNCHANGED <<nextId, live, inbox, stray, wire, made, unseen, ctlVars, ioVars,
                 requestVars, fetchVars, queueVars>>

\* A request takes effect; its answer and its event come in either order.  There is
\* no answer for a request whose connection broke.
Execute(r) ==
  /\ r \in inbox \cup stray
  /\ \E i \in Ids, type \in {"OPEN", "CANCEL"} :
       /\ \/ /\ ask[r] = 0 /\ i = nextId /\ type = "OPEN"
             /\ nextId' = nextId + 1
             /\ live' = live \cup {i}
          \/ /\ ask[r] = i /\ i \in live /\ type = "CANCEL"
             /\ live' = live \ {i}
             /\ UNCHANGED nextId
       /\ made' = [made EXCEPT ![r] = i]
       /\ Told(i)
       /\ \/ r \in inbox /\ wire' = wire \o Answer(r, TRUE) \o Report(type, i)
          \/ r \in inbox /\ wire' = wire \o Report(type, i) \o Answer(r, TRUE)
          \/ r \in stray /\ wire' = wire \o Report(type, i)
  /\ inbox' = inbox \ {r}
  /\ stray' = stray \ {r}
  /\ UNCHANGED <<subscribed, ctlVars, ioVars, requestVars, fetchVars, queueVars>>

\* A request is refused, or lost with its connection.
Refuse(r) ==
  /\ \/ r \in inbox /\ wire' = wire \o Answer(r, FALSE)
     \/ r \in stray /\ UNCHANGED wire
  /\ inbox' = inbox \ {r}
  /\ stray' = stray \ {r}
  /\ UNCHANGED <<nextId, live, subscribed, made, unseen, ctlVars, ioVars, requestVars,
                 fetchVars, queueVars>>

\* An order is filled, or cancelled by cancel_all_orders or someone else.
LeaveBook ==
  /\ \E i \in live, type \in {"FILL", "CANCEL"} :
       /\ live' = live \ {i}
       /\ wire' = wire \o Report(type, i)
       /\ Told(i)
  /\ UNCHANGED <<nextId, subscribed, inbox, stray, made, ctlVars, ioVars, requestVars,
                 fetchVars, queueVars>>

-----------------------------------------------------------------------------
GateNext ==
  \/ Connect
  \/ ConnectReturns
  \/ ConnectTimesOut
  \/ Disconnect
  \/ Join
  \/ IoStep
  \/ ConnectionLost
  \/ \E r \in Requests : Request(r) \/ Execute(r) \/ Refuse(r)
  \/ FetchBegins
  \/ Drain
  \/ ExecSubscribe
  \/ LeaveBook

GateSpec == GateInit /\ [][GateNext]_gateVars

\* The io thread runs on (its REST calls, recv_msg and the backoff end), and join
\* returns once it has ended.
GateFairSpec == GateSpec /\ WF_gateVars(IoStep) /\ WF_gateVars(Join)

-----------------------------------------------------------------------------
(* Properties.                                                             *)

\* Nothing is on its way to the thread that called fetch_open_orders.
Quiet == subscribed /\ wire = <<>> /\ ppc = "idle" /\ Size = 0

\* Apart from orders whose last change nobody listened to (before a subscription,
\* on a connection that broke, with the queue full) and no later snapshot shows,
\* fetch_open_orders ends up with the book: across reconnects, old snapshots and
\* requests whose answer is lost, no event is missed or applied out of order.
KnowsTheBook == Quiet => (orders \ live) \cup (live \ orders) \subseteq unseen

\* The connection a request was sent on is gone and torn down.
Gone(r) == sentOn[r] < conn \/ (sentOn[r] = conn /\ ~Alive /\ io \notin {"dead", "failing"})

\* fail_pending_requests: "callers unblock immediately with an error rather than
\* waiting for the timeout".  Whenever its registration, its sending and the
\* teardown interleave, no caller goes on waiting for a connection that is gone.
GoneRequestsFail ==
  \A r \in Requests : rq[r] = "waiting" /\ Gone(r) => promise[r] # "empty"

\* A call returns normally only if the exchange executed that very request, however
\* late answers, timeouts and reconnects interleave.
ReturnedMeansMade == \A r \in Requests : rq[r] = "returned" => made[r] # 0

\* disconnect and a failed connect return, wherever the io thread is.
DisconnectReturns == ctl = "joining" ~> ctl = "closed"

-----------------------------------------------------------------------------
(* What the comments say of the code.                                      *)

\* gate_connector.h, ws_ready_: callers get a clean error "during the reconnect
\* window instead of using a stale pointer".
NoStalePointer == \A r \in Requests : rq[r] = "registered" /\ ws_ptr => Alive

\* gate_connector.cpp, fetch_open_orders: "Return a snapshot of the current open
\* orders."
NoGhosts == Quiet => orders \subseteq live

=============================================================================
