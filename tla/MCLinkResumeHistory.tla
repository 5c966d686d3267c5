------------------------ MODULE MCLinkResumeHistory -------------------------
(* A small instance of LinkResumeHistory for TLC.                          *)
EXTENDS LinkResumeHistory
=============================================================================
