---------------------------- MODULE MCGateThreads ----------------------------
(***************************************************************************)
(* The gate connector's three hand-overs between its threads, for TLC: the *)
(* order events through SpscQueue, the ticker through a Seqlock, the       *)
(* balance through an AtomicDoubleBuffer.  They share no variable, so a    *)
(* behaviour follows one of them, chosen at the start, and the others keep *)
(* their initial state.                                                    *)
(***************************************************************************)
EXTENDS GateConnector, Seqlock, AtomicDoubleBuffer

CONSTANTS r1, bid, offer, usd, token

VARIABLE part  \* the hand-over followed

MCEvents  == Events
MCReaders == {r1}
MCTicker  == {bid, offer}
MCBalance == {usd, token}

threadVars == <<gateVars, seqVars, vars, part>>

ThreadsInit ==
  /\ GateInit
  /\ SeqInit
  /\ Init
  /\ part \in {"events", "ticker", "balance"}

ThreadsNext ==
  \/ part = "events" /\ GateNext /\ UNCHANGED <<seqVars, vars, part>>
  \/ part = "ticker" /\ SeqNext /\ UNCHANGED <<gateVars, vars, part>>
  \/ part = "balance" /\ Next /\ UNCHANGED <<gateVars, seqVars, part>>

ThreadsSpec == ThreadsInit /\ [][ThreadsNext]_threadVars
=============================================================================
