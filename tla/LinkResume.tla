----------------------------- MODULE LinkResume -----------------------------
(***************************************************************************)
(* The life of resumable sessions across connections and processes:        *)
(* RunClient's reconnect loop (src/internal/app/client.go), RunServer's    *)
(* accept loop (src/internal/app/server.go), the HELLO handshake, attach,  *)
(* detach, expiry and close of a Session (src/internal/link/session.go,    *)
(* handshake.go), and the packet connections of both ends                  *)
(* (src/internal/ble/client_conn.go, server_supported.go).                 *)
(*                                                                         *)
(* One client process and one server process, each of which may restart.   *)
(* The bytes of the two streams are counted, not carried: LinkStream shows *)
(* what replay does between two offsets, this module which offsets, whose, *)
(* the two ends agree to continue from.                                    *)
(*                                                                         *)
(* The client's connection is the BLE connection itself. The server's is   *)
(* an object that any packet creates when there is none, and that the      *)
(* platform's disconnect event closes; closing it from inside the server   *)
(* leaves the BLE connection up. Time is abstracted: an armed resume timer *)
(* may run out at any moment while it is still armed.                      *)
(***************************************************************************)
EXTENDS Integers, Sequences

CONSTANTS
    Ids,            \* bound: session identifiers in use at a time
    NoId,           \* the identifier of no session
    MaxBytes,       \* bound: bytes that the present sessions of the two ends write between them
    MaxQueue,       \* bound: packets waiting in a connection's receive queue
    LossyAir,       \* may a packet be lost on the air or in a full receive queue?
    MaxLate         \* bound: disconnect events still on their way when the client is back

ASSUME LinkResumeAssumption ==
    /\ Ids # {} /\ NoId \notin Ids
    /\ MaxBytes \in Nat /\ MaxQueue \in Nat \ {0}
    /\ LossyAir \in BOOLEAN /\ MaxLate \in Nat

VARIABLES
    c,          \* the client's current Session
    cPhase,     \* "idle", or "hello" inside BindClient
    up,         \* the client's connection is open
    toClient,   \* its receive queue
    gone,       \* disconnect events on their way to the server
    doubt,      \* history, of the client's connection: it was made before the server heard
                \* of the end of the one before, or a HELLO_ACK to it was lost
    s,          \* the Session in the server's currentLink, or NoSession
    sPc,        \* the accept loop: "idle", "hello" (ReadHello), "check", "bind" or "attach"
    sHello,     \* the Hello it is working on
    sCreated,   \* createdSession
    sConn,      \* who holds the server's open connection, or "none"
    sDead,      \* the accept queue holds a connection that is closed already
    toServer    \* the open connection's receive queue

clientVars == <<c, cPhase>>
bleVars    == <<up, toClient, gone, doubt>>
loopVars   == <<sPc, sHello, sCreated>>
connVars   == <<sConn, sDead, toServer>>
vars       == <<clientVars, bleVars, s, loopVars, connVars>>

NoReply == -1   \* helloReply = nil

Hello(id, expected) == [type |-> "hello", id |-> id, expected |-> expected]
HelloAck(expected)  == [type |-> "ack", expected |-> expected]
Reject(reason)      == [type |-> "reject", reason |-> reason]
ClosePacket         == [type |-> "close"]
NoHello             == Hello(NoId, 0)

NewSession(id) ==
    [id |-> id, closed |-> FALSE, bound |-> FALSE, base |-> 0, next |-> 0, rx |-> 0,
     timer |-> FALSE, expiring |-> FALSE, reply |-> NoReply]

\* attach: a timer of the previous detachment no longer matches detachedAt.
Attached(x) == [x EXCEPT !.bound = TRUE, !.timer = FALSE]

\* Fault: a binding that fails starts no resume timer.
DetachedForever(x) == [x EXCEPT !.bound = FALSE]

\* failBinding: detachedAt is set and its timer starts.
Detached(x) == [x EXCEPT !.bound = FALSE, !.timer = TRUE]

\* closeWithError.
Closed(x) == [x EXCEPT !.closed = TRUE, !.bound = FALSE, !.timer = FALSE, !.expiring = FALSE]

\* validatePeerExpected: the peer asks for a byte that is still retained.
Retained(x, e) == x.base <= e /\ e <= x.next

\* reconcilePeerLocked: bytes before the offset are released.
Released(x, e) == [x EXCEPT !.base = e]

\* No session, or one that is done: RunServer forgets it before it looks further.
NoSession == Closed(NewSession(NoId))

CLive == c.bound /\ up
SLive == s.bound /\ sConn = "bound"
BothLive == CLive /\ SLive

Init ==
    /\ \E id \in Ids : c = NewSession(id)
    /\ s = NoSession
    /\ cPhase = "idle" /\ up = FALSE /\ toClient = <<>> /\ gone = 0 /\ doubt = FALSE
    /\ sPc = "idle" /\ sHello = NoHello /\ sCreated = FALSE
    /\ sConn = "none" /\ sDead = FALSE /\ toServer = <<>>

\* The BLE connection is gone for the client; the server's platform will say so.
ClientDown ==
    /\ up' = FALSE /\ toClient' = <<>> /\ doubt' = FALSE
    /\ gone' = IF up THEN gone + 1 ELSE gone

\* serverPacketConn.close: its queue is lost, and a connection that the accept
\* loop has not taken yet keeps its place in the accept queue.
ServerDown ==
    /\ sConn' = "none" /\ toServer' = <<>>
    /\ sDead' = (sDead \/ sConn = "queued")

\* Fault: a second connection is queued behind one that nobody has taken.
DeliverQueuesTwo(p) ==
    \/ LossyAir /\ UNCHANGED connVars
    \/ /\ sConn # "none" /\ Len(toServer) < MaxQueue
       /\ toServer' = Append(toServer, p)
       /\ UNCHANGED <<sConn, sDead>>
    \/ /\ sConn = "none"
       /\ sConn' = "queued" /\ toServer' = <<p>>
       /\ UNCHANGED sDead

\* A packet reaches the server: ensureConnection, then push. It is lost when the
\* accept queue is full and, if packets can be lost, on the air or when the
\* receive queue is full.
Deliver(p) ==
    \/ (LossyAir \/ (sConn = "none" /\ sDead)) /\ UNCHANGED connVars
    \/ /\ sConn # "none" /\ Len(toServer) < MaxQueue
       /\ toServer' = Append(toServer, p)
       /\ UNCHANGED <<sConn, sDead>>
    \/ /\ sConn = "none" /\ ~ sDead
       /\ sConn' = "queued" /\ toServer' = <<p>>
       /\ UNCHANGED sDead

\* A notification to the client, lost without a connection and, if packets can
\* be lost, on the air or when the receive queue is full.
Notify(p) ==
    \/ (LossyAir \/ ~ up) /\ toClient' = toClient
    \/ up /\ Len(toClient) < MaxQueue /\ toClient' = Append(toClient, p)

\* A HELLO_ACK to the client, of which history keeps the loss.
Acknowledge(expected) ==
    /\ Notify(HelloAck(expected))
    /\ doubt' = (doubt \/ toClient' = toClient)

\* NewSession draws a random identifier: one that no session and no packet has.
FreshIds ==
    Ids \ ({c.id, s.id, sHello.id}
           \cup {toServer[k].id : k \in {j \in DOMAIN toServer : toServer[j].type = "hello"}})

-----------------------------------------------------------------------------
(* The client: RunClient and BindClient.                                   *)

\* The session is done: a fresh one, with a random identifier, takes over.
CNextSession ==
    /\ c.closed /\ cPhase = "idle"
    /\ \E id \in FreshIds : c' = NewSession(id)
    /\ UNCHANGED <<cPhase, bleVars, s, loopVars, connVars>>

\* adapter.Connect succeeds and BindClient starts.
CConnect ==
    /\ ~ c.closed /\ ~ c.bound /\ cPhase = "idle"
    /\ gone <= MaxLate
    /\ cPhase' = "hello"
    /\ up' = TRUE /\ toClient' = <<>> /\ doubt' = (gone > 0)
    /\ UNCHANGED <<c, gone, s, loopVars, connVars>>

\* BindClient sends HELLO, at once and again every second without an answer.
CHello ==
    /\ cPhase = "hello" /\ up
    /\ Deliver(Hello(c.id, c.rx))
    /\ UNCHANGED <<clientVars, bleVars, s, loopVars>>

\* The handshake's deadline passes or its connection closes.
CGiveUp ==
    /\ cPhase = "hello"
    /\ cPhase' = "idle"
    /\ ClientDown
    /\ UNCHANGED <<c, s, loopVars, connVars>>

\* HELLO_ACK with an offset that is still retained: continue from there. The
\* session may have expired meanwhile, which attach notices.
CBind ==
    /\ Head(toClient).type = "ack" /\ Retained(c, Head(toClient).expected)
    /\ cPhase' = "idle"
    /\ LET x == Released(c, Head(toClient).expected)
       IN  \/ c.closed /\ c' = x /\ ClientDown
           \/ ~ c.closed /\ c' = Attached(x) /\ toClient' = Tail(toClient) /\ UNCHANGED <<up, gone, doubt>>
    /\ UNCHANGED <<s, loopVars, connVars>>

\* HELLO_ACK outside the retained range, or a rejection other than "resume
\* failed": drop the connection and try again later with the same session.
CRefused ==
    /\ \/ Head(toClient).type = "ack" /\ ~ Retained(c, Head(toClient).expected)
       \/ Head(toClient) = Reject("server busy")
    /\ cPhase' = "idle"
    /\ ClientDown
    /\ UNCHANGED <<c, s, loopVars, connVars>>

\* The server no longer has the session: give it up.
CResumeFailed ==
    /\ Head(toClient) = Reject("resume failed")
    /\ cPhase' = "idle"
    /\ c' = Closed(c)
    /\ ClientDown
    /\ UNCHANGED <<s, loopVars, connVars>>

\* BindClient skips any other packet (CLOSE does not decode as HELLO_ACK).
CSkip ==
    /\ Head(toClient) = ClosePacket
    /\ toClient' = Tail(toClient)
    /\ UNCHANGED <<clientVars, up, gone, doubt, s, loopVars, connVars>>

\* BindClient receives a packet while it waits for an answer.
CAnswer ==
    /\ cPhase = "hello" /\ toClient # <<>>
    /\ CBind \/ CRefused \/ CResumeFailed \/ CSkip

\* Fault: an attached session ignores handshake packets.
CStrayIgnored ==
    /\ CLive /\ toClient # <<>>
    /\ Head(toClient).type \in {"ack", "reject"}
    /\ toClient' = Tail(toClient)
    /\ UNCHANGED <<clientVars, up, gone, doubt, s, loopVars, connVars>>

\* A handshake packet that reaches the attached session is a protocol error.
CStrayPacket ==
    /\ CLive /\ toClient # <<>>
    /\ Head(toClient).type \in {"ack", "reject"}
    /\ c' = Detached(c)
    /\ ClientDown
    /\ UNCHANGED <<cPhase, s, loopVars, connVars>>

CRcvClose ==
    /\ CLive /\ toClient # <<>>
    /\ Head(toClient) = ClosePacket
    /\ c' = Closed(c)
    /\ ClientDown
    /\ UNCHANGED <<cPhase, s, loopVars, connVars>>

\* failBinding: a transport error, unanswered heartbeats or a closed connection.
CFail ==
    /\ c.bound
    /\ c' = Detached(c)
    /\ ClientDown
    /\ UNCHANGED <<cPhase, s, loopVars, connVars>>

\* expireAfter looks at the session, then closes it after releasing the lock.
CExpire ==
    /\ c.timer /\ ~ c.bound /\ ~ c.closed
    /\ c' = [c EXCEPT !.timer = FALSE, !.expiring = TRUE]
    /\ UNCHANGED <<cPhase, bleVars, s, loopVars, connVars>>

CExpireClose ==
    /\ c.expiring
    /\ c' = Closed(c)
    /\ IF c.bound THEN ClientDown ELSE UNCHANGED bleVars
    /\ UNCHANGED <<cPhase, s, loopVars, connVars>>

\* Close, also the end of a failed mux: a bound session tells its peer.
CClose ==
    /\ ~ c.closed
    /\ c' = Closed(c)
    /\ IF c.bound THEN ClientDown ELSE UNCHANGED bleVars
    /\ IF CLive THEN Deliver(ClosePacket) ELSE UNCHANGED connVars
    /\ UNCHANGED <<cPhase, s, loopVars>>

\* A heartbeat or DATA of a client whose server has closed its connection
\* object creates another one.
CTraffic ==
    /\ CLive /\ sConn = "none" /\ ~ sDead
    /\ sConn' = "queued" /\ toServer' = <<>>
    /\ UNCHANGED <<clientVars, bleVars, s, loopVars, sDead>>

CRestart ==
    /\ \E id \in FreshIds : c' = NewSession(id)
    /\ cPhase' = "idle"
    /\ ClientDown
    /\ UNCHANGED <<s, loopVars, connVars>>

\* The radio connection breaks.
LinkDown ==
    /\ up
    /\ ClientDown
    /\ UNCHANGED <<clientVars, s, loopVars, connVars>>

-----------------------------------------------------------------------------
(* The server: RunServer, BindServer and the attached session's HELLO.     *)

\* Accept takes the next connection; ReadHello fails at once on a closed one.
SAccept ==
    /\ sPc = "idle"
    /\ \/ sConn = "queued" /\ sConn' = "accept" /\ sPc' = "hello" /\ UNCHANGED sDead
       \/ sDead /\ sDead' = FALSE /\ UNCHANGED <<sConn, sPc>>
    /\ UNCHANGED <<clientVars, bleVars, s, sHello, sCreated, toServer>>

\* ReadHello returns the first HELLO and skips everything else.
SReadHello ==
    /\ sPc = "hello" /\ sConn = "accept" /\ toServer # <<>>
    /\ toServer' = Tail(toServer)
    /\ \/ Head(toServer).type = "hello" /\ sHello' = Head(toServer) /\ sPc' = "check"
       \/ Head(toServer).type # "hello" /\ UNCHANGED <<sHello, sPc>>
    /\ UNCHANGED <<clientVars, bleVars, s, sCreated, sConn, sDead>>

\* The accept loop is through with its connection, which it closes.
LoopDown == IF sConn = "accept" THEN ServerDown ELSE UNCHANGED connVars

\* The accept loop goes on to the next connection; its locals go out of scope.
LoopAgain == sPc' = "idle" /\ sHello' = NoHello /\ sCreated' = FALSE

\* ReadHello's deadline passes or its connection is closed.
SReadFailed ==
    /\ sPc = "hello"
    /\ sPc' = "idle"
    /\ LoopDown
    /\ UNCHANGED <<clientVars, bleVars, s, sHello, sCreated>>

\* SendReject on the loop's connection.
Refuse(reason) == IF sConn = "accept" THEN Notify(Reject(reason)) ELSE UNCHANGED toClient

\* Another client's HELLO is refused while a session is resumable. (So is one
\* that asks for compression the server does not offer; the client treats both
\* alike, and a configuration that never connects is left out.)
SBusy ==
    /\ sPc = "check" /\ ~ s.closed /\ s.id # sHello.id
    /\ Refuse("server busy")
    /\ LoopDown /\ LoopAgain
    /\ UNCHANGED <<clientVars, up, gone, doubt, s>>

\* The session this HELLO names goes on.
SResume ==
    /\ sPc = "check" /\ ~ s.closed /\ s.id = sHello.id
    /\ sPc' = "bind" /\ sCreated' = FALSE
    /\ UNCHANGED <<clientVars, bleVars, s, sHello, connVars>>

\* Without a session, or with one that is done, a new one takes the identifier
\* that the client sent.
SCreate ==
    /\ sPc = "check" /\ s.closed
    /\ sPc' = "bind" /\ sCreated' = TRUE
    /\ s' = NewSession(sHello.id)
    /\ UNCHANGED <<clientVars, bleVars, sHello, connVars>>

\* Fault: the accept loop keeps the session it created for a failed HELLO.
BindFailedKeeps(x) ==
    /\ Refuse("resume failed")
    /\ LoopDown /\ LoopAgain
    /\ s' = x
    /\ UNCHANGED <<clientVars, up, gone, doubt>>

\* What RunServer does when BindServer returns an error: "resume failed" goes
\* out if it still can, and a session created for this HELLO is dropped.
BindFailed(x) ==
    /\ Refuse("resume failed")
    /\ LoopDown /\ LoopAgain
    /\ s' = IF sCreated THEN NoSession ELSE x
    /\ UNCHANGED <<clientVars, up, gone, doubt>>

\* BindServer up to its HELLO_ACK, which cannot go out on a closed connection.
SBind ==
    /\ sPc = "bind"
    /\ ~ s.closed /\ Retained(s, sHello.expected) /\ sConn = "accept"
    /\ s' = Released(s, sHello.expected)
    /\ Acknowledge(s.rx)
    /\ sPc' = "attach"
    /\ UNCHANGED <<clientVars, up, gone, sHello, sCreated, connVars>>

SBindRefused ==
    /\ sPc = "bind"
    /\ \/ (s.closed \/ ~ Retained(s, sHello.expected)) /\ BindFailed(s)
       \/ /\ ~ s.closed /\ Retained(s, sHello.expected) /\ sConn # "accept"
          /\ BindFailed(Released(s, sHello.expected))

\* attach: the connection, if it is still open, now belongs to the session.
SAttach ==
    /\ sPc = "attach"
    /\ \/ s.closed /\ BindFailed(s)
       \/ /\ ~ s.closed
          /\ s' = Attached(s)
          /\ LoopAgain
          /\ sConn' = IF sConn = "accept" THEN "bound" ELSE sConn
          /\ UNCHANGED <<clientVars, bleVars, sDead, toServer>>

\* HELLO reaches the attached session: another client's is ignored, a repeated
\* one will be answered again, one that cannot be served fails the binding.
SHelloInBinding ==
    /\ SLive /\ toServer # <<>> /\ Head(toServer).type = "hello"
    /\ LET h == Head(toServer)
       IN  \/ /\ h.id # s.id
              /\ toServer' = Tail(toServer)
              /\ UNCHANGED <<s, sConn, sDead>>
           \/ /\ h.id = s.id /\ Retained(s, h.expected)
              /\ s' = [Released(s, h.expected) EXCEPT !.reply = s.rx]
              /\ toServer' = Tail(toServer)
              /\ UNCHANGED <<sConn, sDead>>
           \/ /\ h.id = s.id /\ ~ Retained(s, h.expected)
              /\ s' = Detached(s)
              /\ ServerDown
    /\ UNCHANGED <<clientVars, bleVars, sPc, sHello, sCreated>>

\* The send loop's first duty: an unsent HELLO_ACK, on whatever binding.
SSendReply ==
    /\ SLive /\ s.reply # NoReply
    /\ Acknowledge(s.reply)
    /\ s' = [s EXCEPT !.reply = NoReply]
    /\ UNCHANGED <<clientVars, up, gone, loopVars, connVars>>

SRcvClose ==
    /\ SLive /\ toServer # <<>> /\ Head(toServer) = ClosePacket
    /\ s' = NoSession
    /\ ServerDown
    /\ UNCHANGED <<clientVars, bleVars, loopVars>>

\* The session's own connection is closed with its binding.
BindingDown == IF SLive THEN ServerDown ELSE UNCHANGED connVars

SFail ==
    /\ s.bound
    /\ s' = Detached(s)
    /\ BindingDown
    /\ UNCHANGED <<clientVars, bleVars, loopVars>>

SExpire ==
    /\ s.timer /\ ~ s.bound /\ ~ s.closed
    /\ s' = [s EXCEPT !.timer = FALSE, !.expiring = TRUE]
    /\ UNCHANGED <<clientVars, bleVars, loopVars, connVars>>

SExpireClose ==
    /\ s.expiring
    /\ s' = NoSession
    /\ BindingDown
    /\ UNCHANGED <<clientVars, bleVars, loopVars>>

\* Close, when the session's mux ends: a bound session tells its peer.
SClose ==
    /\ ~ s.closed
    /\ s' = NoSession
    /\ IF SLive THEN Notify(ClosePacket) ELSE UNCHANGED toClient
    /\ BindingDown
    /\ UNCHANGED <<clientVars, up, gone, doubt, loopVars>>

\* The platform reports that the central left: closeCurrent.
SDisconnected ==
    /\ gone > 0
    /\ gone' = gone - 1
    /\ ServerDown
    /\ UNCHANGED <<clientVars, up, toClient, doubt, s, loopVars>>

SRestart ==
    /\ s' = NoSession
    /\ LoopAgain
    /\ sConn' = "none" /\ sDead' = FALSE /\ toServer' = <<>>
    /\ up' = FALSE /\ toClient' = <<>> /\ gone' = 0 /\ doubt' = FALSE
    /\ UNCHANGED clientVars

-----------------------------------------------------------------------------
(* The streams between the two sessions.                                   *)

CWrite ==
    /\ ~ c.closed /\ c.next + s.next < MaxBytes
    /\ c' = [c EXCEPT !.next = @ + 1]
    /\ UNCHANGED <<cPhase, bleVars, s, loopVars, connVars>>

SWrite ==
    /\ ~ s.closed /\ c.next + s.next < MaxBytes
    /\ s' = [s EXCEPT !.next = @ + 1]
    /\ UNCHANGED <<clientVars, bleVars, loopVars, connVars>>

\* The next byte arrives in order, replayed from the sender's base if need be.
ToServer ==
    /\ BothLive /\ c.base <= s.rx /\ s.rx < c.next
    /\ s' = [s EXCEPT !.rx = @ + 1]
    /\ UNCHANGED <<clientVars, bleVars, loopVars, connVars>>

ToClient ==
    /\ BothLive /\ s.base <= c.rx /\ c.rx < s.next
    /\ c' = [c EXCEPT !.rx = @ + 1]
    /\ UNCHANGED <<cPhase, bleVars, s, loopVars, connVars>>

AckToClient ==
    /\ BothLive /\ c.base < s.rx /\ s.rx <= c.next
    /\ c' = Released(c, s.rx)
    /\ UNCHANGED <<cPhase, bleVars, s, loopVars, connVars>>

AckToServer ==
    /\ BothLive /\ s.base < c.rx /\ c.rx <= s.next
    /\ s' = Released(s, c.rx)
    /\ UNCHANGED <<clientVars, bleVars, loopVars, connVars>>

-----------------------------------------------------------------------------
\* Nobody answers the client's heartbeats, nor is anybody about to.
Unanswered == ~ up \/ ~ (SLive \/ (sPc = "attach" /\ sConn = "accept"))

\* The handshake that would resume session x is under way.
Resuming(x) == cPhase = "hello" /\ up /\ c.id = x.id

\* What the two programs do of themselves to find each other.
Client ==
    \/ CNextSession \/ CConnect \/ (CHello /\ toClient = <<>>) \/ (CGiveUp /\ ~ up) \/ CAnswer
    \/ CStrayPacket \/ CRcvClose \/ (CFail /\ Unanswered)
    \/ (CExpire /\ ~ Resuming(c)) \/ (CExpireClose /\ ~ c.bound) \/ CTraffic

Server ==
    \/ SAccept \/ SReadHello \/ SReadFailed \/ SBusy \/ SResume \/ SCreate \/ SBind
    \/ SBindRefused \/ SAttach \/ SHelloInBinding \/ SSendReply \/ SRcvClose
    \/ (SFail /\ ~ (sConn = "bound" /\ up)) \/ (SExpire /\ ~ Resuming(s))
    \/ (SExpireClose /\ ~ s.bound) \/ SDisconnected

Traffic == CWrite \/ SWrite \/ ToServer \/ ToClient \/ AckToClient \/ AckToServer

\* An outage, a replaced process, a closed session, or a time-out that cuts
\* short what was still going on.
Disturbance ==
    \/ LinkDown \/ CRestart \/ SRestart \/ CClose \/ SClose
    \/ (CGiveUp /\ up) \/ (CHello /\ toClient # <<>>)
    \/ (CFail /\ ~ Unanswered) \/ (SFail /\ sConn = "bound" /\ up)
    \/ (CExpire /\ Resuming(c)) \/ (SExpire /\ Resuming(s))
    \/ (CExpireClose /\ c.bound) \/ (SExpireClose /\ s.bound)

Next == Client \/ Server \/ Traffic \/ Disturbance

Spec == Init /\ [][Next]_vars

-----------------------------------------------------------------------------
Offsets  == 0 .. MaxBytes
Packets  == {HelloAck(e) : e \in Offsets} \cup {ClosePacket}
            \cup {Reject(r) : r \in {"server busy", "resume failed"}}
Hellos   == {Hello(i, e) : i \in Ids, e \in Offsets}
Sessions == [id : Ids \cup {NoId}, closed : BOOLEAN, bound : BOOLEAN, base : Offsets, next : Offsets,
             rx : Offsets, timer : BOOLEAN, expiring : BOOLEAN, reply : Offsets \cup {NoReply}]

\* Types, and who may hold a connection: only a handshake or a bound session of
\* the client, and never the accept queue of the server twice.
TypeOK ==
    /\ c \in Sessions /\ s \in Sessions
    /\ cPhase \in {"idle", "hello"} /\ up \in BOOLEAN /\ doubt \in BOOLEAN
    /\ gone \in 0 .. MaxLate + 1 /\ (up => gone <= MaxLate)
    /\ toClient \in Seq(Packets)
    /\ sPc \in {"idle", "hello", "check", "bind", "attach"}
    /\ sHello \in Hellos \cup {NoHello} /\ sCreated \in BOOLEAN
    /\ sConn \in {"none", "queued", "accept", "bound"} /\ sDead \in BOOLEAN
    /\ toServer \in Seq(Hellos \cup {ClosePacket})
    /\ up => c.bound \/ cPhase = "hello"
    /\ sDead => sConn # "queued"

\* Whenever both ends are attached and no handshake packet is left to handle,
\* they are ends of the same session and each still holds every byte that the
\* other expects: a request outside the retained interval has failed, as
\* validatePeerExpected is there to ensure on either side.
AttachedAgree ==
    BothLive /\ toClient = <<>> =>
        /\ c.id = s.id
        /\ c.base <= s.rx /\ s.rx <= c.next
        /\ s.base <= c.rx /\ c.rx <= s.next

\* The same of every connection that the client made after the server had heard
\* of the end of the one before, and in which no HELLO_ACK was lost, whatever
\* else is lost, expires, restarts or is repeated. HELLO_ACK names no session,
\* so a client can take the answer of a session that has been replaced since;
\* it is the successor's answer, arriving later, that undoes the mistake.
ResumeSound == ~ doubt => AttachedAgree

\* A session that the server keeps is bound, or being bound for the first
\* time, or its resume timer will end it: the accept loop cannot be left
\* answering "server busy" for a session that nothing will ever close.
NeverBusyForever ==
    ~ s.closed =>
        \/ s.bound \/ s.timer \/ s.expiring
        \/ sCreated /\ sPc \in {"bind", "attach"}
=============================================================================
