----------------------------- MODULE Heartbeat ------------------------------
(***************************************************************************)
(* Liveness detection of one binding (src/internal/link/session.go): the   *)
(* heartbeat loop, the send loop and the packets received, which share the *)
(* send lock of a BLE packet connection (src/internal/ble/send_lock.go).   *)
(*                                                                         *)
(* Time passes in ticks, of which heartbeatCheckInterval is one. A         *)
(* goroutine that can run does so before the next tick; a write to the     *)
(* Bluetooth stack lasts as long as the stack likes, up to MaxWrite for    *)
(* PING and without limit for the send loop's packets.                     *)
(***************************************************************************)
EXTENDS Integers

CONSTANTS
    Interval,       \* heartbeatInterval
    Response,       \* heartbeatResponseTimeout
    Limit,          \* heartbeatFailureLimit
    SendTimeout,    \* sendTimeout
    MaxWrite,       \* bound: ticks that the Bluetooth stack takes for a PING
    MaxSilence      \* bound: ticks of silence that are counted

ASSUME HeartbeatAssumption ==
    /\ Response \in Nat \ {0} /\ Interval \in Nat /\ Interval >= Response
    /\ Limit \in Nat \ {0} /\ SendTimeout \in Nat \ {0}
    /\ MaxWrite \in Nat /\ MaxSilence \in Nat /\ MaxSilence >= Limit * Response

VARIABLES
    bound,              \* the binding is current
    open,               \* its packet connection is open
    heartbeatPending, heartbeatFailures,
    sinceSent,          \* ticks since heartbeatSentAt, up to Interval
    silence,            \* ticks since lastRX, up to MaxSilence
    checked,            \* the heartbeat loop has run in this tick
    pc,                 \* [Sender -> "wait", "lock", "write", "result", "detach" or "stopped"]
    age,                \* [Sender -> ticks since its Send started, up to its deadline]
    err,                \* [Sender -> what Send returned]
    heard,              \* a packet was received since the PING's Send started
    token,              \* who holds the send lock, or "free"
    writing             \* ticks that the PING's write has lasted

Sender == {"ping", "data"}

state == <<heartbeatPending, heartbeatFailures, sinceSent>>
conn  == <<bound, open>>
vars  == <<conn, state, silence, checked, pc, age, err, heard, token, writing>>

Deadline(x) == IF x = "ping" THEN Response ELSE SendTimeout

UpTo(n, max) == IF n < max THEN n ELSE max

\* attach starts the loops.
Init ==
    /\ bound = TRUE /\ open = TRUE
    /\ heartbeatPending = FALSE /\ heartbeatFailures = 0 /\ sinceSent = 0
    /\ silence = 0 /\ checked = FALSE /\ heard = FALSE
    /\ pc = [x \in Sender |-> "wait"] /\ age = [x \in Sender |-> 0]
    /\ err = [x \in Sender |-> "none"]
    /\ token = "free" /\ writing = 0

-----------------------------------------------------------------------------
(* The send lock.                                                          *)

Waiting == {x \in Sender : pc[x] = "lock" /\ token # x}

\* lockPacketSend, first select: the token, or a place among those who wait.
Acquire(x) == token' = IF token = "free" THEN x ELSE token

\* The channel hands the token to whoever is parked at it.
Unlock == token' \in IF Waiting = {} THEN {"free"} ELSE Waiting

\* Send starts.
StartSend(x) ==
    /\ pc' = [pc EXCEPT ![x] = "lock"] /\ age' = [age EXCEPT ![x] = 0]
    /\ err' = [err EXCEPT ![x] = "none"]
    /\ Acquire(x)

\* The deadline has passed, failBinding has cancelled the binding's context, or
\* the connection has been closed.
Cancelled(x) == age[x] >= Deadline(x) \/ ~ bound \/ ~ open

\* What a cancelled Send returns: where two causes are ready, either.
CancelError(x) ==
    {e \in {"deadline", "closed"} :
        IF e = "deadline" THEN age[x] >= Deadline(x) ELSE ~ bound \/ ~ open}

Returns(x, e) ==
    /\ pc' = [pc EXCEPT ![x] = "result"]
    /\ err' = [err EXCEPT ![x] = e]
    /\ UNCHANGED <<bound, state, silence, checked, age, heard>>

\* The deadline passes, or the connection is closed, while x waits.
GiveUp(x) ==
    /\ x \in Waiting /\ Cancelled(x)
    /\ \E e \in CancelError(x) : Returns(x, e)
    /\ UNCHANGED <<open, token, writing>>

\* Fault: whoever is too late keeps the token.
LockedLateKeeps(x) ==
    /\ pc[x] = "lock" /\ token = x
    /\ Cancelled(x)
    /\ UNCHANGED token
    /\ \E e \in CancelError(x) : Returns(x, e)
    /\ UNCHANGED <<open, writing>>

\* The token and the cancellation came together: the token goes back.
LockedLate(x) ==
    /\ pc[x] = "lock" /\ token = x
    /\ Cancelled(x)
    /\ Unlock
    /\ \E e \in CancelError(x) : Returns(x, e)
    /\ UNCHANGED <<open, writing>>

Locked(x) ==
    /\ pc[x] = "lock" /\ token = x
    /\ ~ Cancelled(x)
    /\ pc' = [pc EXCEPT ![x] = "write"]
    /\ writing' = IF x = "ping" THEN 0 ELSE writing
    /\ UNCHANGED <<conn, state, silence, checked, age, err, heard, token>>

\* The Bluetooth stack takes the packet or fails; the deadline does not
\* interrupt it. After a failure the client's Send closes the connection, the
\* server's does not.
Written(x) ==
    /\ pc[x] = "write"
    /\ Unlock
    /\ \E e \in {"ok", "failed"} :
          /\ Returns(x, e)
          /\ open' \in IF e = "ok" THEN {open} ELSE {open, FALSE}
    /\ writing' = 0

-----------------------------------------------------------------------------
(* handlePacket, sendLoop and heartbeatLoop.                               *)

\* Fault: a packet answers the probe and leaves the failures counted.
ReceiveKeepsFailures ==
    /\ bound /\ open
    /\ heartbeatPending' = FALSE
    /\ silence' = 0 /\ heard' = TRUE
    /\ UNCHANGED <<conn, heartbeatFailures, sinceSent, checked, pc, age, err, token, writing>>

\* Any packet proves the link alive.
Receive ==
    /\ bound /\ open
    /\ heartbeatPending' = FALSE /\ heartbeatFailures' = 0
    /\ silence' = 0 /\ heard' = TRUE
    /\ UNCHANGED <<conn, sinceSent, checked, pc, age, err, token, writing>>

\* The send loop has a packet.
SendPacket ==
    /\ pc["data"] = "wait" /\ bound
    /\ StartSend("data")
    /\ UNCHANGED <<conn, state, silence, checked, heard, writing>>

\* Send returned to the send loop.
SendResult ==
    /\ pc["data"] = "result"
    /\ pc' = [pc EXCEPT !["data"] = IF ~ bound THEN "stopped"
                                    ELSE IF err["data"] = "ok" THEN "wait" ELSE "detach"]
    /\ UNCHANGED <<conn, state, silence, checked, age, err, heard, token, writing>>

\* failBinding, by whichever loop has met its error.
failBinding(x) ==
    /\ pc[x] = "detach"
    /\ bound' = FALSE /\ open' = FALSE
    /\ pc' = [pc EXCEPT ![x] = "stopped"]
    /\ UNCHANGED <<state, silence, checked, age, err, heard, token, writing>>

\* The platform reports that the link is gone.
Disconnect ==
    /\ open
    /\ open' = FALSE
    /\ UNCHANGED <<bound, state, silence, checked, pc, age, err, heard, token, writing>>

\* The receive loop meets the closed connection.
ReceiveClosed ==
    /\ bound /\ ~ open
    /\ bound' = FALSE
    /\ UNCHANGED <<open, state, silence, checked, pc, age, err, heard, token, writing>>

\* A loop that waits finds its binding gone.
Stop(x) ==
    /\ pc[x] = "wait" /\ ~ bound
    /\ pc' = [pc EXCEPT ![x] = "stopped"]
    /\ UNCHANGED <<conn, state, silence, checked, age, err, heard, token, writing>>

\* heartbeatCheckLocked: the response interval is over; that was the last one.
Due == heartbeatPending /\ sinceSent >= Response
LastFailure == Due /\ heartbeatFailures + 1 >= Limit

\* Fault: after a failure the next probe waits for the regular interval.
ProbesWithoutHaste == ~ heartbeatPending /\ sinceSent >= Interval

\* heartbeatCheckLocked asks for a probe: the interval is over, or the last one
\* was not answered and may still be repeated.
Probes == (Due /\ ~ LastFailure) \/ (~ heartbeatPending /\ sinceSent >= Interval)

heartbeatCheck ==
    /\ pc["ping"] = "wait" /\ bound /\ ~ checked
    /\ checked' = TRUE
    /\ heartbeatFailures' = IF Due THEN heartbeatFailures + 1 ELSE heartbeatFailures
    /\ \/ /\ Probes
          /\ heartbeatPending' = TRUE /\ sinceSent' = 0 /\ heard' = FALSE
          /\ StartSend("ping")
       \/ /\ ~ Probes
          /\ heartbeatPending' = (heartbeatPending /\ ~ Due)
          /\ pc' = IF LastFailure THEN [pc EXCEPT !["ping"] = "detach"] ELSE pc
          /\ UNCHANGED <<sinceSent, heard, age, err, token>>
    /\ UNCHANGED <<conn, silence, writing>>

\* Fault: a probe that could not be sent in time ends the binding.
heartbeatSendResultStrict ==
    /\ pc["ping"] = "result"
    /\ \/ /\ bound /\ err["ping"] = "ok"
          /\ sinceSent' = IF heartbeatPending THEN 0 ELSE sinceSent
          /\ pc' = [pc EXCEPT !["ping"] = "wait"]
          /\ UNCHANGED <<heartbeatPending, heartbeatFailures>>
       \/ /\ bound /\ err["ping"] # "ok"
          /\ pc' = [pc EXCEPT !["ping"] = "detach"]
          /\ UNCHANGED state
       \/ ~ bound /\ pc' = [pc EXCEPT !["ping"] = "stopped"] /\ UNCHANGED state
    /\ UNCHANGED <<conn, silence, checked, age, err, heard, token, writing>>

\* heartbeatSendResultLocked: the response interval starts when the PING is out;
\* a PING that was not sent in time counts for nothing if a packet was received
\* meanwhile; any other error ends the binding.
heartbeatSendResult ==
    /\ pc["ping"] = "result"
    /\ \/ /\ bound /\ err["ping"] = "ok"
          /\ sinceSent' = IF heartbeatPending THEN 0 ELSE sinceSent
          /\ pc' = [pc EXCEPT !["ping"] = "wait"]
          /\ UNCHANGED <<heartbeatPending, heartbeatFailures>>
       \/ /\ bound /\ err["ping"] = "deadline" /\ heard
          /\ heartbeatPending' = FALSE /\ heartbeatFailures' = 0 /\ sinceSent' = 0
          /\ pc' = [pc EXCEPT !["ping"] = "wait"]
       \/ /\ bound /\ err["ping"] # "ok" /\ ~ (err["ping"] = "deadline" /\ heard)
          /\ pc' = [pc EXCEPT !["ping"] = "detach"]
          /\ UNCHANGED state
       \/ ~ bound /\ pc' = [pc EXCEPT !["ping"] = "stopped"] /\ UNCHANGED state
    /\ UNCHANGED <<conn, silence, checked, age, err, heard, token, writing>>

-----------------------------------------------------------------------------
\* Something happens before the next tick.
Urgent ==
    \/ bound /\ ~ open
    \/ pc["ping"] = "wait" /\ ~ checked
    \/ \E x \in Sender :
          \/ pc[x] \in {"result", "detach"}
          \/ pc[x] = "lock" /\ (token = x \/ Cancelled(x))
    \/ pc["ping"] = "write" /\ writing >= MaxWrite

Tick ==
    /\ bound /\ ~ Urgent
    /\ checked' = FALSE
    /\ sinceSent' = UpTo(sinceSent + 1, Interval)
    /\ silence' = UpTo(silence + 1, MaxSilence)
    /\ age' = [x \in Sender |-> UpTo(age[x] + 1, Deadline(x))]
    /\ writing' = IF pc["ping"] = "write" THEN writing + 1 ELSE 0
    /\ UNCHANGED <<conn, heartbeatPending, heartbeatFailures, pc, err, heard, token>>

Next ==
    \/ Receive \/ Disconnect \/ ReceiveClosed \/ Tick
    \/ SendPacket \/ SendResult \/ heartbeatCheck \/ heartbeatSendResult
    \/ \E x \in Sender :
          GiveUp(x) \/ LockedLate(x) \/ Locked(x) \/ Written(x) \/ failBinding(x) \/ Stop(x)

Spec == Init /\ [][Next]_vars

-----------------------------------------------------------------------------
(* Properties.                                                             *)

\* Every variable keeps its type; the failures stay at the limit.
TypeOK ==
    /\ bound \in BOOLEAN /\ open \in BOOLEAN
    /\ heartbeatPending \in BOOLEAN /\ heartbeatFailures \in 0..Limit
    /\ sinceSent \in 0..Interval /\ silence \in 0..MaxSilence
    /\ checked \in BOOLEAN /\ heard \in BOOLEAN
    /\ pc \in [Sender -> {"wait", "lock", "write", "result", "detach", "stopped"}]
    /\ age \in [Sender -> Nat] /\ \A x \in Sender : age[x] <= Deadline(x)
    /\ err \in [Sender -> {"none", "ok", "failed", "deadline", "closed"}]
    /\ token \in Sender \cup {"free"} /\ writing \in 0..MaxWrite

\* The send lock is neither lost nor shared: whoever holds the token is about
\* to write or writing, and nobody waits for a token that is free. (In
\* lockPacketSend the token and a cancellation may become ready together.)
TokenKept ==
    /\ token # "free" => pc[token] \in {"lock", "write"}
    /\ \A x \in Sender : pc[x] = "write" => token = x
    /\ token = "free" => Waiting = {}

\* A binding whose peer is heard from is kept: the heartbeat gives up only
\* after Limit whole response intervals without any packet, or when PING could
\* not even be sent in the time of one, without any packet meanwhile. An error
\* of the Bluetooth stack is another matter.
AliveKept ==
    [][pc["ping"] # "detach" /\ pc'["ping"] = "detach" =>
          \/ pc["ping"] = "wait" /\ silence >= Limit * Response
          \/ pc["ping"] = "result" /\ err["ping"] = "deadline" /\ silence >= Response
          \/ pc["ping"] = "result" /\ err["ping"] \in {"failed", "closed"}]_vars

\* The longest silence before a probe that nothing excuses: a probe whose wait for
\* the lock was excused by a packet at its start and then an interval, or one whose
\* write outlasted the interval although a packet had answered it before.
Excused == IF MaxWrite > Interval + 1 THEN (Response - 1) + MaxWrite ELSE Response + Interval

\* The longest silence of a binding that is kept: that, and for each failure a wait
\* for the lock, a write and a response interval.
Longest == Excused + Limit * ((Response - 1) + MaxWrite + Response)

\* A silent peer is noticed in time, whatever the send loop does: also when its
\* write to the Bluetooth stack never returns.
DetectsInTime == bound => silence <= Longest
=============================================================================
