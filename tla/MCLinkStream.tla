---------------------------- MODULE MCLinkStream ----------------------------
(***************************************************************************)
(* LinkStream on small instances for TLC.                                  *)
(***************************************************************************)
EXTENDS LinkStream
=============================================================================
