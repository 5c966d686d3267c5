--------------------------- MODULE MCMuxScheduler ---------------------------
(* Small instances of MuxScheduler for TLC.                                *)
EXTENDS MuxScheduler
=============================================================================
