------------------------- MODULE LinkResumeRecovery -------------------------
(***************************************************************************)
(* LinkResume with an end to disturbances: from some moment on the radio,  *)
(* the processes and the time-outs let the two programs do their work. The *)
(* moment is marked by a variable, because a disturbance often looks like  *)
(* a regular step (a hand-shake given up early and one that was refused    *)
(* leave the same state).                                                  *)
(***************************************************************************)
EXTENDS LinkResume

VARIABLE calm   \* disturbances are over

rvars == <<vars, calm>>

RInit == Init /\ calm = FALSE

RNext ==
    \/ (Client \/ Server \/ Traffic) /\ UNCHANGED calm
    \/ ~ calm /\ Disturbance /\ UNCHANGED calm
    \/ ~ calm /\ calm' = TRUE /\ UNCHANGED vars

\* A step that is part of a calm behaviour.
Calm(A) == calm /\ A /\ UNCHANGED calm

\* Every loop, goroutine, timer and platform event gets its turn. Of packets
\* sent again and again one arrives, and a HELLO that waits is read before its
\* connection's deadline at least some of the time.
Fairness ==
    /\ WF_rvars(Calm(CNextSession \/ CConnect \/ (CGiveUp /\ ~ up) \/ CAnswer))
    /\ SF_rvars(Calm(CHello /\ toClient = <<>> /\ toServer' # toServer))
    /\ WF_rvars(Calm((CFail /\ Unanswered) \/ CStrayPacket \/ CRcvClose))
    /\ SF_rvars(Calm(CExpire /\ ~ Resuming(c))) /\ WF_rvars(Calm(CExpireClose /\ ~ c.bound))
    /\ WF_rvars(Calm(SAccept \/ SReadFailed \/ SBusy \/ SResume \/ SCreate \/ SBind
                     \/ SBindRefused \/ SAttach))
    /\ SF_rvars(Calm(SReadHello))
    /\ SF_rvars(Calm((SBusy \/ SBind \/ SBindRefused \/ SSendReply) /\ toClient' # toClient))
    /\ WF_rvars(Calm(SHelloInBinding \/ SRcvClose \/ (SFail /\ ~ (sConn = "bound" /\ up))))
    /\ WF_rvars(Calm(SSendReply))
    /\ WF_rvars(Calm((SExpire /\ ~ Resuming(s)) \/ (SExpireClose /\ ~ s.bound)))
    /\ WF_rvars(Calm(SDisconnected))

FairSpec == RInit /\ [][RNext]_rvars /\ Fairness

Serving == BothLive /\ c.id = s.id

\* Once disturbances stop, the ends are attached to each other again and again,
\* whatever state the outage left behind: no refusal, stale connection, leftover
\* packet or unexpired session of an earlier client keeps them apart for good.
Recovers == []<> (calm => Serving)
=============================================================================
