------------------------- MODULE LinkResumeHistory --------------------------
(***************************************************************************)
(* LinkResume with a history variable: which server sessions took bytes of *)
(* the client's present session.                                           *)
(***************************************************************************)
EXTENDS LinkResume

VARIABLE fed    \* "none", "current", "earlier" (one that is no more) or "both"

hvars == <<vars, fed>>

HInit == Init /\ fed = "none"

HNext ==
    /\ Next
    /\ fed' = CASE c'.id # c.id -> "none"
                [] c'.id = c.id /\ s'.id # s.id -> IF fed = "current" THEN "earlier" ELSE fed
                [] c'.id = c.id /\ s'.id = s.id /\ s'.rx # s.rx ->
                     IF fed \in {"none", "current"} THEN "current" ELSE "both"
                [] OTHER -> fed

HSpec == HInit /\ [][HNext]_hvars

\* When the server's session is gone, because its process was restarted or the
\* session expired, the client's streams close: bytes of one client session
\* never reach two server sessions (RunServer's createdSession branch, which
\* makes a session for whatever identifier a HELLO carries).
OldStreamsClose == fed # "both"
=============================================================================
