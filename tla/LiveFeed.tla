------------------------------- MODULE LiveFeed -------------------------------
(***************************************************************************)
(* api/websocket.py with the WebSocket endpoint of api/routes.py: events   *)
(* of the bots, broadcast to the clients that watch them.                  *)
(*                                                                         *)
(* Nothing is awaited while the feed's lock is held, so a broadcast is one *)
(* step.  Each client has a queue and an endpoint, a coroutine that sends  *)
(* one message after the other, and a heartbeat after 30 seconds without.  *)
(* A socket is one connection; events are numbered.                        *)
(***************************************************************************)
EXTENDS Naturals, Sequences

CONSTANTS
  Sockets,   \* connections to /ws
  FeedLen,   \* length of a client's queue (100 in the code)
  MaxEvents  \* bound on the events

ASSUME LiveFeedAssumption == FeedLen \in Nat \ {0}

VARIABLES
  events,   \* the number of events broadcast
  clients,  \* LiveFeed._clients, by socket
  mail,     \* mail[s]: its queue
  endpoint, \* endpoint[s]: "none", "wait", "send", "beat" or "closed"
  sending,  \* sending[s]: the event it sends
  heard     \* heard[s]: the events sent to the client

feedOf   == <<endpoint, sending, heard>>
liveVars == <<events, clients, mail, feedOf>>

LiveInit ==
  /\ events = 0 /\ clients = {}
  /\ mail = [s \in Sockets |-> <<>>]
  /\ endpoint = [s \in Sockets |-> "none"]
  /\ sending = [s \in Sockets |-> 0]
  /\ heard = [s \in Sockets |-> <<>>]

\* accept and subscribe
Subscribe(s) ==
  /\ endpoint[s] = "none"
  /\ clients' = clients \cup {s}
  /\ endpoint' = [endpoint EXCEPT ![s] = "wait"]
  /\ UNCHANGED <<events, mail, sending, heard>>

\* Only messages are dropped when a queue is full, not its client.
KeepSlow(full) == clients

\* Clients whose queue was full are removed.
DropSlow(full) == clients \ full

\* broadcast, which every typed helper calls.
Broadcast ==
  /\ events < MaxEvents
  /\ events' = events + 1
  /\ LET full == {s \in clients : Len(mail[s]) = FeedLen}
     IN /\ mail' = [s \in Sockets |-> IF s \in clients \ full THEN Append(mail[s], events')
                                      ELSE mail[s]]
        /\ clients' = DropSlow(full)
  /\ UNCHANGED feedOf

\* q.get() returns a message.
Receive(s) ==
  /\ endpoint[s] = "wait"
  /\ mail[s] # <<>>
  /\ endpoint' = [endpoint EXCEPT ![s] = "send"]
  /\ sending' = [sending EXCEPT ![s] = Head(mail[s])]
  /\ mail' = [mail EXCEPT ![s] = Tail(@)]
  /\ UNCHANGED <<events, clients, heard>>

\* wait_for times out: a heartbeat is sent.
HeartbeatDue(s) ==
  /\ endpoint[s] = "wait"
  /\ mail[s] = <<>>
  /\ endpoint' = [endpoint EXCEPT ![s] = "beat"]
  /\ UNCHANGED <<events, clients, mail, sending, heard>>

\* send_text is over.
Sent(s) ==
  /\ endpoint[s] \in {"send", "beat"}
  /\ heard' = [heard EXCEPT ![s] = IF endpoint[s] = "send" THEN Append(@, sending[s]) ELSE @]
  /\ endpoint' = [endpoint EXCEPT ![s] = "wait"]
  /\ UNCHANGED <<events, clients, mail, sending>>

\* `finally`: unsubscribe.
Unsubscribed(s) == clients \ {s}

\* The client is gone: send_text raises, or the server closes the connection.
Leaves(s) ==
  /\ endpoint[s] \in {"wait", "send", "beat"}
  /\ endpoint' = [endpoint EXCEPT ![s] = "closed"]
  /\ clients' = Unsubscribed(s)
  /\ UNCHANGED <<events, mail, sending, heard>>

LiveNext ==
  \/ Broadcast
  \/ \E s \in Sockets : Subscribe(s) \/ Receive(s) \/ HeartbeatDue(s) \/ Sent(s) \/ Leaves(s)

LiveSpec == LiveInit /\ [][LiveNext]_liveVars

-----------------------------------------------------------------------------
(* Properties.                                                             *)

\* broadcast, "Silently drops slow clients": what a client is told has no gaps, from its
\* first event on, however slow it is, until it is told nothing more.
NoGaps ==
  \A s \in Sockets : \A i \in 1 .. Len(heard[s]) - 1 : heard[s][i + 1] = heard[s][i] + 1

=============================================================================
