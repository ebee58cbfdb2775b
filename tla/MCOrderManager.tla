--------------------------- MODULE MCOrderManager ---------------------------
(* Small instances of OrderManager for TLC. *)
EXTENDS OrderManager, FiniteSets, TLC

Level(s, p, a) == [side |-> s, price |-> p, amount |-> a]

\* The usual grid; one whose buy level lost its amount and whose sell price moved
\* out of the tolerance.
GridA == <<Level("buy", 10000, 1), Level("sell", 10020, 1)>>
GridB == <<Level("buy", 10000, 0), Level("sell", 10040, 1)>>

MCPrices    == {10000, 10020, 10040}
OneGrid     == {GridA}
MovingGrids == {GridA, GridB}

NoFaults  == {}
AllFaults == FaultKinds
=============================================================================
