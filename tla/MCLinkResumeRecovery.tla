------------------------ MODULE MCLinkResumeRecovery ------------------------
(* A small instance of LinkResumeRecovery for TLC.                         *)
EXTENDS LinkResumeRecovery
=============================================================================
