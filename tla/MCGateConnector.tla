--------------------------- MODULE MCGateConnector ---------------------------
(* Small instances of GateConnector for TLC. *)
EXTENDS GateConnector, TLC

MCEvents == Events
=============================================================================
