---------------------------- MODULE MCMuxStream ----------------------------
(* A small instance of MuxStream for TLC: what goes wrong outside the two  *)
(* sessions, and how many bytes each side sends.                           *)
EXTENDS MuxStream

Upload == [faults |-> {}, bytes |-> [x \in Side |-> IF x = Client THEN 3 ELSE 1]]
Reply  == [faults |-> AllFaults, bytes |-> [x \in Side |-> IF x = Server THEN 1 ELSE 0]]

UploadsOrReplies == {Upload, Reply}
=============================================================================
