--------------------------- MODULE MCBridgeClient ---------------------------
(* A small instance of BridgeClient for TLC.                               *)
EXTENDS BridgeClient
=============================================================================
