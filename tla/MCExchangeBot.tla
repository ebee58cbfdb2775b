---------------------------- MODULE MCExchangeBot ----------------------------
(* Small instances of ExchangeBot for TLC. *)
EXTENDS ExchangeBot, FiniteSets, TLC

Level(s, p, a) == [side |-> s, price |-> p, amount |-> a]

MCPrices     == {10000, 10002, 10020, 10040}
OneLevelGrid == {<<Level("buy", 10000, 1)>>}
TwoLevelGrid == {<<Level("buy", 10000, 1), Level("sell", 10020, 1)>>}

\* Next to it a price that moved within the tolerance and one that moved out of it.
MovingGrids == TwoLevelGrid \cup {<<Level("buy", 10002, 1), Level("sell", 10040, 1)>>}
Calls        == {"api", "heartbeat", "stop"}
=============================================================================
