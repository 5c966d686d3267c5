-------------------------- MODULE LinkResumeProofs --------------------------
(***************************************************************************)
(* Proofs about LinkResume, for any number of identifiers, any amount of   *)
(* traffic and any length of the receive queues.                           *)
(***************************************************************************)
EXTENDS LinkResume, TLAPS

-----------------------------------------------------------------------------
(* Every step is one of these.                                             *)

ClientStep ==
    \/ CNextSession \/ CConnect \/ CHello \/ CGiveUp
    \/ cPhase = "hello" /\ toClient # <<>> /\ (CBind \/ CRefused \/ CResumeFailed \/ CSkip)
    \/ CStrayPacket \/ CRcvClose \/ CFail \/ CExpire \/ CExpireClose \/ CClose \/ CTraffic
    \/ CRestart \/ LinkDown

ServerStep ==
    \/ SAccept \/ SReadHello \/ SReadFailed \/ SBusy \/ SResume \/ SCreate \/ SBind
    \/ SBindRefused \/ SAttach \/ SHelloInBinding \/ SSendReply \/ SRcvClose \/ SFail
    \/ SExpire \/ SExpireClose \/ SClose \/ SDisconnected \/ SRestart

LEMMA Steps == ASSUME Next PROVE ClientStep \/ ServerStep \/ Traffic
BY DEF Next, Client, Server, Disturbance, ClientStep, ServerStep, CAnswer

-----------------------------------------------------------------------------
(* Types.                                                                  *)

LEMMA OffsetFacts ==
    /\ Offsets \subseteq Nat /\ 0 \in Offsets /\ NoReply \notin Offsets
    /\ \A e \in Offsets, n \in Nat : n <= e => n \in Offsets
    /\ \A n, m \in Nat : n + m < MaxBytes => n + 1 \in Offsets /\ m + 1 \in Offsets
BY LinkResumeAssumption DEF Offsets, NoReply

\* What the operations on a Session do to its fields.
LEMMA SessionOps ==
    ASSUME NEW x \in Sessions
    PROVE  /\ Attached(x) \in Sessions /\ Detached(x) \in Sessions /\ Closed(x) \in Sessions
           /\ \A e \in Offsets : Released(x, e) \in Sessions
BY DEF Sessions, Attached, Detached, Closed, Released

SameOffsets(x, y) == y.id = x.id /\ y.base = x.base /\ y.next = x.next /\ y.rx = x.rx

LEMMA SessionFields ==
    ASSUME NEW x \in Sessions
    PROVE  /\ SameOffsets(x, Attached(x)) /\ SameOffsets(x, Detached(x)) /\ SameOffsets(x, Closed(x))
           /\ Attached(x).bound /\ Attached(x).closed = x.closed
           /\ ~ Detached(x).bound /\ Detached(x).timer /\ Detached(x).closed = x.closed
           /\ ~ Closed(x).bound /\ Closed(x).closed
BY DEF Sessions, Attached, Detached, Closed, SameOffsets

LEMMA ReleasedFields ==
    ASSUME NEW x \in Sessions, NEW e \in Offsets
    PROVE  LET y == Released(x, e)
           IN  /\ y.id = x.id /\ y.base = e /\ y.next = x.next /\ y.rx = x.rx
               /\ y.closed = x.closed /\ y.bound = x.bound /\ y.timer = x.timer
               /\ y.expiring = x.expiring
BY DEF Sessions, Released

LEMMA NewSessionType ==
    /\ \A id \in Ids \cup {NoId} : NewSession(id) \in Sessions
    /\ NoSession \in Sessions
BY OffsetFacts DEF Sessions, NewSession, NoSession, Closed

LEMMA NewSessionFields ==
    /\ \A id : /\ NewSession(id).id = id /\ ~ NewSession(id).closed /\ ~ NewSession(id).bound
               /\ NewSession(id).base = 0 /\ NewSession(id).next = 0 /\ NewSession(id).rx = 0
    /\ NoSession.closed /\ ~ NoSession.bound /\ NoSession.base = 0 /\ NoSession.next = 0
BY DEF NewSession, NoSession, Closed

LEMMA PacketTypes ==
    /\ \A e \in Offsets : HelloAck(e) \in Packets
    /\ ClosePacket \in Packets /\ Reject("server busy") \in Packets /\ Reject("resume failed") \in Packets
    /\ \A p \in Packets : p.type = "ack" => p.expected \in Offsets /\ p = HelloAck(p.expected)
    /\ \A p \in Packets : p.type \in {"ack", "reject", "close"}
    /\ \A id \in Ids, e \in Offsets : Hello(id, e) \in Hellos
    /\ \A h \in Hellos : h.id \in Ids /\ h.expected \in Offsets /\ h.type = "hello"
    /\ ClosePacket \notin Hellos /\ ClosePacket.type = "close" /\ NoHello \notin Hellos
    /\ NoHello.id = NoId /\ NoHello.expected = 0
<1>1. /\ \A e \in Offsets : HelloAck(e) \in Packets
      /\ ClosePacket \in Packets /\ Reject("server busy") \in Packets /\ Reject("resume failed") \in Packets
  BY DEF Packets
<1>2. ASSUME NEW p \in Packets
      PROVE  /\ p.type = "ack" => p.expected \in Offsets /\ p = HelloAck(p.expected)
             /\ p.type \in {"ack", "reject", "close"}
  <2>1. CASE \E e \in Offsets : p = HelloAck(e)
    <3>1. PICK e \in Offsets : p = HelloAck(e)
      BY <2>1
    <3>2. p.type = "ack" /\ p.expected = e
      BY <3>1 DEF HelloAck
    <3> QED BY <3>1, <3>2
  <2>2. CASE p = ClosePacket
    BY <2>2 DEF ClosePacket
  <2>3. CASE \E r \in {"server busy", "resume failed"} : p = Reject(r)
    <3>1. PICK r \in {"server busy", "resume failed"} : p = Reject(r)
      BY <2>3
    <3>2. p.type = "reject"
      BY <3>1 DEF Reject
    <3> QED BY <3>2
  <2> QED BY <2>1, <2>2, <2>3 DEF Packets
<1>3. \A id \in Ids, e \in Offsets : Hello(id, e) \in Hellos
  BY DEF Hellos
<1>4. \A h \in Hellos : h.id \in Ids /\ h.expected \in Offsets /\ h.type = "hello"
  BY DEF Hellos, Hello
<1>5. ClosePacket.type = "close" /\ NoHello.id = NoId /\ NoHello.expected = 0
  BY DEF ClosePacket, NoHello, Hello
<1>6. ClosePacket \notin Hellos /\ NoHello \notin Hellos
  BY <1>4, <1>5, LinkResumeAssumption
<1> QED BY <1>1, <1>2, <1>3, <1>4, <1>5, <1>6

LEMMA Queues ==
    ASSUME NEW S, NEW q \in Seq(S)
    PROVE  /\ \A p \in S : /\ Append(q, p) \in Seq(S) /\ Append(q, p) # <<>>
                           /\ \A k \in DOMAIN Append(q, p) :
                                 \/ k \in DOMAIN q /\ Append(q, p)[k] = q[k]
                                 \/ Append(q, p)[k] = p
                           /\ \A k \in DOMAIN q : k \in DOMAIN Append(q, p) /\ Append(q, p)[k] = q[k]
                           /\ \E k \in DOMAIN Append(q, p) : Append(q, p)[k] = p
           /\ \A p \in S : <<p>> \in Seq(S) /\ <<p>>[1] = p /\ DOMAIN <<p>> = {1}
           /\ q # <<>> => /\ Head(q) \in S /\ Tail(q) \in Seq(S)
                          /\ 1 \in DOMAIN q /\ q[1] = Head(q)
                          /\ \A k \in DOMAIN Tail(q) : k + 1 \in DOMAIN q /\ Tail(q)[k] = q[k + 1]
                          /\ \A k \in DOMAIN q : \/ k = 1
                                                 \/ k - 1 \in DOMAIN Tail(q) /\ Tail(q)[k - 1] = q[k]
           /\ <<>> \in Seq(S) /\ DOMAIN <<>> = {}
<1>1. ASSUME NEW p \in S
      PROVE  /\ Append(q, p) \in Seq(S) /\ Append(q, p) # <<>>
             /\ \A k \in DOMAIN Append(q, p) :
                   \/ k \in DOMAIN q /\ Append(q, p)[k] = q[k]
                   \/ Append(q, p)[k] = p
             /\ \A k \in DOMAIN q : k \in DOMAIN Append(q, p) /\ Append(q, p)[k] = q[k]
  OBVIOUS
<1>2. ASSUME NEW p \in S
      PROVE  \E k \in DOMAIN Append(q, p) : Append(q, p)[k] = p
  <2>1. Len(q) + 1 \in DOMAIN Append(q, p) /\ Append(q, p)[Len(q) + 1] = p
    OBVIOUS
  <2> QED BY <2>1
<1>3. ASSUME NEW p \in S
      PROVE  <<p>> \in Seq(S) /\ <<p>>[1] = p /\ DOMAIN <<p>> = {1}
  OBVIOUS
<1>4. ASSUME q # <<>>
      PROVE  /\ Head(q) \in S /\ Tail(q) \in Seq(S)
             /\ 1 \in DOMAIN q /\ q[1] = Head(q)
             /\ \A k \in DOMAIN Tail(q) : k + 1 \in DOMAIN q /\ Tail(q)[k] = q[k + 1]
             /\ \A k \in DOMAIN q : \/ k = 1
                                    \/ k - 1 \in DOMAIN Tail(q) /\ Tail(q)[k - 1] = q[k]
  BY <1>4
<1>5. <<>> \in Seq(S) /\ DOMAIN <<>> = {}
  OBVIOUS
<1> QED BY <1>1, <1>2, <1>3, <1>4, <1>5

ClientTypes == c \in Sessions /\ c.id \in Ids /\ cPhase \in {"idle", "hello"}
BleTypes    ==
    /\ up \in BOOLEAN /\ doubt \in BOOLEAN /\ toClient \in Seq(Packets)
    /\ gone \in 0 .. MaxLate + 1 /\ (up => gone <= MaxLate)
ServerTypes == s \in Sessions
LoopTypes   ==
    /\ sPc \in {"idle", "hello", "check", "bind", "attach"}
    /\ sHello \in Hellos \cup {NoHello} /\ sCreated \in BOOLEAN
ConnTypes   ==
    /\ sConn \in {"none", "queued", "accept", "bound"} /\ sDead \in BOOLEAN
    /\ toServer \in Seq(Hellos \cup {ClosePacket})
    /\ sDead => sConn # "queued"

Types == ClientTypes /\ BleTypes /\ ServerTypes /\ LoopTypes /\ ConnTypes

\* Who leaves what alone.
LEMMA Frames ==
    /\ ClientStep => UNCHANGED <<s, loopVars>>
    /\ ServerStep => UNCHANGED clientVars
    /\ Traffic => UNCHANGED <<cPhase, bleVars, loopVars, connVars>>
<1>1. ClientStep => UNCHANGED <<s, loopVars>>
  BY DEF ClientStep, CNextSession, CConnect, CHello, CGiveUp, CBind, CRefused, CResumeFailed,
         CSkip, CStrayPacket, CRcvClose, CFail, CExpire, CExpireClose, CClose, CTraffic,
         CRestart, LinkDown
<1>2. ServerStep => UNCHANGED clientVars
  BY DEF ServerStep, SAccept, SReadHello, SReadFailed, SBusy, SResume, SCreate, SBind,
         SBindRefused, SAttach, BindFailed, SHelloInBinding, SSendReply, SRcvClose, SFail,
         SExpire, SExpireClose, SClose, SDisconnected, SRestart
<1>3. Traffic => UNCHANGED <<cPhase, bleVars, loopVars, connVars>>
  BY DEF Traffic, CWrite, SWrite, ToServer, ToClient, AckToClient, AckToServer, clientVars
<1> QED BY <1>1, <1>2, <1>3

\* The packets at the head of the two queues.
LEMMA Heads ==
    ASSUME Types
    PROVE  /\ toClient # <<>> /\ Head(toClient).type = "ack" => Head(toClient).expected \in Offsets
           /\ toClient # <<>> => Tail(toClient) \in Seq(Packets)
           /\ toServer # <<>> => Tail(toServer) \in Seq(Hellos \cup {ClosePacket})
           /\ toServer # <<>> /\ Head(toServer).type = "hello" => Head(toServer) \in Hellos
           /\ sHello.expected \in Offsets /\ sHello.id \in Ids \cup {NoId}
           /\ Hello(c.id, c.rx) \in Hellos
           /\ c.rx \in Nat /\ c.base \in Nat /\ c.next \in Nat
           /\ s.rx \in Nat /\ s.base \in Nat /\ s.next \in Nat
<1>1. /\ toClient # <<>> => Head(toClient) \in Packets /\ Tail(toClient) \in Seq(Packets)
      /\ toServer # <<>> => /\ Head(toServer) \in Hellos \cup {ClosePacket}
                            /\ Tail(toServer) \in Seq(Hellos \cup {ClosePacket})
  BY Queues DEF Types, BleTypes, ConnTypes
<1>2. sHello.expected \in Offsets /\ sHello.id \in Ids \cup {NoId}
  BY PacketTypes, OffsetFacts DEF Types, LoopTypes
<1>3. c.rx \in Offsets /\ c.base \in Offsets /\ c.next \in Offsets
  BY DEF Types, ClientTypes, Sessions
<1>4. s.rx \in Offsets /\ s.base \in Offsets /\ s.next \in Offsets
  BY DEF Types, ServerTypes, Sessions
<1>5. Hello(c.id, c.rx) \in Hellos
  BY <1>3, PacketTypes DEF Types, ClientTypes
<1> QED BY <1>1, <1>2, <1>3, <1>4, <1>5, PacketTypes, OffsetFacts

LEMMA ClientTyped ==
    ASSUME Types, Next
    PROVE  ClientTypes'
<1> USE DEF ClientTypes
<1>0. c \in Sessions /\ c.id \in Ids /\ cPhase \in {"idle", "hello"}
  BY DEF Types
<1>1. CASE ServerStep
  BY <1>0, <1>1, Frames DEF clientVars
<1>2. CASE Traffic
  <2>1. CASE CWrite
    <3>1. c.next + 1 \in Offsets
      BY <2>1, OffsetFacts, Heads DEF CWrite
    <3> QED BY <1>0, <2>1, <3>1 DEF CWrite, Sessions
  <2>2. CASE ToClient
    <3>1. c.rx + 1 \in Offsets
      <4>1. c.rx + 1 <= s.next /\ c.rx + 1 \in Nat /\ s.next \in Offsets
        BY <2>2, Heads DEF ToClient, Types, ServerTypes, Sessions
      <4> QED BY <4>1, OffsetFacts
    <3> QED BY <1>0, <2>2, <3>1 DEF ToClient, Sessions
  <2>3. CASE AckToClient
    <3>1. s.rx \in Offsets
      BY DEF Types, ServerTypes, Sessions
    <3> QED BY <1>0, <2>3, <3>1, SessionOps, ReleasedFields DEF AckToClient
  <2>4. CASE SWrite \/ ToServer \/ AckToServer
    BY <1>0, <2>4 DEF SWrite, ToServer, AckToServer, clientVars
  <2> QED BY <1>2, <2>1, <2>2, <2>3, <2>4 DEF Traffic
<1>3. CASE ClientStep
  <2>1. CASE CNextSession \/ CRestart
    <3>1. PICK id \in Ids : c' = NewSession(id) /\ cPhase' \in {"idle", "hello"}
      BY <1>0, <2>1 DEF CNextSession, CRestart, FreshIds
    <3> QED BY <3>1, NewSessionType, NewSessionFields
  <2>2. CASE CConnect \/ CHello \/ CGiveUp \/ CTraffic \/ LinkDown \/ CRefused \/ CSkip
    BY <1>0, <2>2 DEF CConnect, CHello, CGiveUp, CTraffic, LinkDown, CRefused, CSkip, clientVars
  <2>3. CASE toClient # <<>> /\ CBind
    <3> DEFINE e == Head(toClient).expected
    <3>1. e \in Offsets
      BY <2>3, Heads DEF CBind
    <3>2. Released(c, e) \in Sessions /\ Released(c, e).id = c.id
      BY <1>0, <3>1, SessionOps, ReleasedFields
    <3>3. Attached(Released(c, e)) \in Sessions /\ Attached(Released(c, e)).id = c.id
      BY <3>2, SessionOps, SessionFields DEF SameOffsets
    <3> QED BY <1>0, <2>3, <3>2, <3>3 DEF CBind
  <2>4. CASE CResumeFailed \/ CStrayPacket \/ CRcvClose \/ CFail \/ CExpireClose \/ CClose
    <3>1. c' \in {Closed(c), Detached(c)} /\ cPhase' \in {"idle", "hello"}
      BY <1>0, <2>4 DEF CResumeFailed, CStrayPacket, CRcvClose, CFail, CExpireClose, CClose
    <3> QED BY <1>0, <3>1, SessionOps, SessionFields DEF SameOffsets
  <2>5. CASE CExpire
    BY <1>0, <2>5 DEF CExpire, Sessions
  <2> QED BY <1>3, <2>1, <2>2, <2>3, <2>4, <2>5 DEF ClientStep
<1> QED BY <1>1, <1>2, <1>3, Steps

LEMMA ServerTyped ==
    ASSUME Types, Next
    PROVE  ServerTypes'
<1> USE DEF ServerTypes
<1>0. s \in Sessions /\ c \in Sessions
  BY DEF Types, ClientTypes
<1>1. CASE ClientStep
  BY <1>0, <1>1, Frames
<1>2. CASE Traffic
  <2>1. CASE SWrite
    <3>1. s.next + 1 \in Offsets
      BY <2>1, OffsetFacts, Heads DEF SWrite
    <3> QED BY <1>0, <2>1, <3>1 DEF SWrite, Sessions
  <2>2. CASE ToServer
    <3>1. s.rx + 1 \in Offsets
      <4>1. s.rx + 1 <= c.next /\ s.rx + 1 \in Nat /\ c.next \in Offsets
        BY <1>0, <2>2, Heads DEF ToServer, Sessions
      <4> QED BY <4>1, OffsetFacts
    <3> QED BY <1>0, <2>2, <3>1 DEF ToServer, Sessions
  <2>3. CASE AckToServer
    <3>1. c.rx \in Offsets
      BY <1>0 DEF Sessions
    <3> QED BY <1>0, <2>3, <3>1, SessionOps DEF AckToServer
  <2>4. CASE CWrite \/ ToClient \/ AckToClient
    BY <1>0, <2>4 DEF CWrite, ToClient, AckToClient
  <2> QED BY <1>2, <2>1, <2>2, <2>3, <2>4 DEF Traffic
<1>3. CASE ServerStep
  <2>0. /\ NoSession \in Sessions /\ NewSession(sHello.id) \in Sessions
        /\ Released(s, sHello.expected) \in Sessions /\ Attached(s) \in Sessions
        /\ Detached(s) \in Sessions
    BY <1>0, NewSessionType, SessionOps, Heads
  <2>1. CASE SAccept \/ SReadHello \/ SReadFailed \/ SBusy \/ SResume \/ SDisconnected
    BY <1>0, <2>1 DEF SAccept, SReadHello, SReadFailed, SBusy, SResume, SDisconnected
  <2>2. CASE SCreate \/ SBind \/ SRcvClose \/ SFail \/ SExpireClose \/ SClose \/ SRestart
    BY <2>0, <2>2 DEF SCreate, SBind, SRcvClose, SFail, SExpireClose, SClose, SRestart
  <2>3. CASE SBindRefused \/ SAttach
    BY <1>0, <2>0, <2>3 DEF SBindRefused, SAttach, BindFailed
  <2>4. CASE SHelloInBinding
    <3> DEFINE h == Head(toServer)
    <3>1. h.expected \in Offsets
      BY <2>4, Heads, PacketTypes DEF SHelloInBinding
    <3>2. [Released(s, h.expected) EXCEPT !.reply = s.rx] \in Sessions
      BY <1>0, <3>1, SessionOps DEF Sessions
    <3> QED BY <1>0, <2>0, <2>4, <3>2 DEF SHelloInBinding
  <2>5. CASE SSendReply
    BY <1>0, <2>5 DEF SSendReply, Sessions
  <2>6. CASE SExpire
    BY <1>0, <2>6 DEF SExpire, Sessions
  <2> QED BY <1>3, <2>1, <2>2, <2>3, <2>4, <2>5, <2>6 DEF ServerStep
<1> QED BY <1>1, <1>2, <1>3, Steps

\* A packet sent to the client.
LEMMA Notified ==
    ASSUME Types, NEW p \in Packets, Notify(p)
    PROVE  toClient' \in Seq(Packets)
<1>1. Append(toClient, p) \in Seq(Packets)
  BY Queues DEF Types, BleTypes
<1> QED BY <1>1 DEF Notify, Types, BleTypes

\* The connection and its history are marks.
LEMMA MarksTyped ==
    ASSUME Types, Next
    PROVE  up' \in BOOLEAN /\ doubt' \in BOOLEAN
<1>0. up \in BOOLEAN /\ doubt \in BOOLEAN
  BY DEF Types, BleTypes
<1>1. CASE UNCHANGED <<up, doubt>>
  BY <1>0, <1>1
<1>2. CASE ClientDown \/ SRestart
  BY <1>2, Zenon DEF ClientDown, SRestart
<1>6. CASE CConnect
  <2>1. gone > 0 \/ ~ (gone > 0)
    OBVIOUS
  <2>2. CASE gone > 0
    <3>1. (gone > 0) = TRUE
      BY <2>2
    <3> QED BY <1>6, <3>1, Zenon DEF CConnect
  <2>3. CASE ~ (gone > 0)
    <3>1. (gone > 0) = FALSE
      BY <2>3
    <3> QED BY <1>6, <3>1, Zenon DEF CConnect
  <2> QED BY <2>1, <2>2, <2>3
<1>3. CASE SBind \/ SSendReply
  <2>1. doubt' \in BOOLEAN
    BY <1>3, Zenon DEF SBind, SSendReply, Acknowledge
  <2> QED BY <1>0, <1>3, <2>1 DEF SBind, SSendReply
<1>4. CASE ClientStep
  BY <1>1, <1>2, <1>4, <1>6
     DEF ClientStep, CNextSession, CHello, CGiveUp, CBind, CRefused, CResumeFailed, CSkip,
         CStrayPacket, CRcvClose, CFail, CExpire, CExpireClose, CClose, CTraffic, CRestart,
         LinkDown, bleVars
<1>5. CASE ServerStep
  BY <1>1, <1>2, <1>3, <1>5
     DEF ServerStep, SAccept, SReadHello, SReadFailed, SBusy, SResume, SCreate,
         SBindRefused, SAttach, BindFailed, SHelloInBinding, SRcvClose, SFail,
         SExpire, SExpireClose, SClose, SDisconnected, bleVars
<1> QED BY <1>1, <1>4, <1>5, Steps, Frames DEF bleVars

\* No more disconnect events are on their way than the bound allows.
LEMMA GoneTyped ==
    ASSUME Types, Next
    PROVE  gone' \in 0 .. MaxLate + 1 /\ (up' => gone' <= MaxLate)
<1>0. /\ up \in BOOLEAN /\ gone \in 0 .. MaxLate + 1 /\ (up => gone <= MaxLate) /\ MaxLate \in Nat
  BY LinkResumeAssumption DEF Types, BleTypes
<1>1. CASE UNCHANGED <<up, gone>>
  BY <1>0, <1>1
<1>2. CASE ClientDown
  <2>1. ~ up' /\ (gone' = gone \/ (up /\ gone' = gone + 1))
    BY <1>0, <1>2 DEF ClientDown
  <2> QED BY <1>0, <2>1
<1>3. CASE CConnect
  BY <1>0, <1>3 DEF CConnect
<1>4. CASE SDisconnected
  <2>1. up' = up /\ gone' = gone - 1 /\ gone > 0
    BY <1>4 DEF SDisconnected
  <2> QED BY <1>0, <2>1
<1>5. CASE SRestart
  <2>1. gone' = 0
    BY <1>5 DEF SRestart
  <2> QED BY <1>0, <2>1
<1>6. CASE ClientStep
  BY <1>1, <1>2, <1>3, <1>6
     DEF ClientStep, CNextSession, CHello, CGiveUp, CBind, CRefused, CResumeFailed, CSkip,
         CStrayPacket, CRcvClose, CFail, CExpire, CExpireClose, CClose, CTraffic, CRestart,
         LinkDown, bleVars
<1>7. CASE ServerStep
  BY <1>1, <1>4, <1>5, <1>7
     DEF ServerStep, SAccept, SReadHello, SReadFailed, SBusy, SResume, SCreate, SBind, SSendReply,
         SBindRefused, SAttach, BindFailed, SHelloInBinding, SRcvClose, SFail,
         SExpire, SExpireClose, SClose, bleVars
<1> QED BY <1>1, <1>6, <1>7, Steps, Frames DEF bleVars

LEMMA BleTyped ==
    ASSUME Types, Next
    PROVE  BleTypes'
<1> SUFFICES toClient' \in Seq(Packets)
  BY MarksTyped, GoneTyped DEF BleTypes
<1>0. toClient \in Seq(Packets) /\ <<>> \in Seq(Packets)
  BY DEF Types, BleTypes
<1>1. CASE Traffic
  BY <1>0, <1>1, Frames DEF bleVars
<1>2. CASE ClientStep
  <2>1. CASE UNCHANGED bleVars
    BY <1>0, <2>1 DEF bleVars
  <2>2. CASE ClientDown
    BY <1>0, <2>2 DEF ClientDown
  <2>3. CASE CConnect
    BY <1>0, <2>3 DEF CConnect
  <2>4. CASE toClient # <<>> /\ (CBind \/ CSkip)
    BY <1>0, <2>2, <2>4, Heads DEF CBind, CSkip
  <2> QED BY <1>2, <2>1, <2>2, <2>3, <2>4
          DEF ClientStep, CNextSession, CHello, CGiveUp, CRefused, CResumeFailed,
              CStrayPacket, CRcvClose, CFail, CExpire, CExpireClose, CClose, CTraffic,
              CRestart, LinkDown
<1>3. CASE ServerStep
  <2>1. CASE UNCHANGED bleVars
    BY <1>0, <2>1 DEF bleVars
  <2>2. CASE SBusy
    BY <1>0, <2>2, Notified, PacketTypes DEF SBusy, Refuse
  <2>3. CASE SBindRefused
    BY <1>0, <2>3, Notified, PacketTypes DEF SBindRefused, BindFailed, Refuse
  <2>4. CASE SAttach
    BY <1>0, <2>4, Notified, PacketTypes DEF SAttach, BindFailed, Refuse, bleVars
  <2>5. CASE SBind
    <3>1. HelloAck(s.rx) \in Packets
      BY PacketTypes DEF Types, ServerTypes, Sessions
    <3> QED BY <2>5, <3>1, Notified DEF SBind, Acknowledge
  <2>6. CASE SSendReply
    <3>1. HelloAck(s.reply) \in Packets
      BY <2>6, PacketTypes DEF SSendReply, Types, ServerTypes, Sessions
    <3> QED BY <2>6, <3>1, Notified DEF SSendReply, Acknowledge
  <2>7. CASE SClose
    BY <1>0, <2>7, Notified, PacketTypes DEF SClose
  <2>8. CASE SDisconnected \/ SRestart
    BY <1>0, <2>8 DEF SDisconnected, SRestart
  <2> QED BY <1>3, <2>1, <2>2, <2>3, <2>4, <2>5, <2>6, <2>7, <2>8
          DEF ServerStep, SAccept, SReadHello, SReadFailed, SResume, SCreate, SHelloInBinding,
              SRcvClose, SFail, SExpire, SExpireClose
<1> QED BY <1>1, <1>2, <1>3, Steps

LEMMA LoopTyped ==
    ASSUME Types, Next
    PROVE  LoopTypes'
<1> USE DEF LoopTypes
<1>0. LoopTypes
  BY DEF Types
<1>1. CASE ClientStep \/ Traffic
  BY <1>0, <1>1, Frames DEF loopVars
<1>2. CASE ServerStep
  <2>1. CASE UNCHANGED loopVars
    BY <1>0, <2>1 DEF loopVars
  <2>2. CASE LoopAgain
    BY <2>2 DEF LoopAgain
  <2>3. CASE SAccept \/ SReadFailed \/ SResume \/ SCreate \/ SBind
    BY <1>0, <2>3 DEF SAccept, SReadFailed, SResume, SCreate, SBind
  <2>4. CASE SReadHello
    BY <1>0, <2>4, Heads DEF SReadHello
  <2> QED BY <1>2, <2>1, <2>2, <2>3, <2>4
          DEF ServerStep, SBusy, SBindRefused, SAttach, BindFailed, SHelloInBinding, SSendReply,
              SRcvClose, SFail, SExpire, SExpireClose, SClose, SDisconnected, SRestart, loopVars
<1> QED BY <1>1, <1>2, Steps

\* A packet sent to the server.
LEMMA Delivered ==
    ASSUME Types, NEW p \in Hellos \cup {ClosePacket}, Deliver(p)
    PROVE  ConnTypes'
<1>1. Append(toServer, p) \in Seq(Hellos \cup {ClosePacket}) /\ <<p>> \in Seq(Hellos \cup {ClosePacket})
  BY Queues DEF Types, ConnTypes
<1>2. CASE UNCHANGED connVars
  BY <1>2 DEF Types, ConnTypes, connVars
<1>3. CASE toServer' = Append(toServer, p) /\ UNCHANGED <<sConn, sDead>>
  BY <1>1, <1>3 DEF Types, ConnTypes
<1>4. CASE ~ sDead /\ sConn' = "queued" /\ toServer' = <<p>> /\ UNCHANGED sDead
  BY <1>1, <1>4 DEF Types, ConnTypes
<1> QED BY <1>2, <1>3, <1>4 DEF Deliver

LEMMA ConnTyped ==
    ASSUME Types, Next
    PROVE  ConnTypes'
<1>0. ConnTypes /\ <<>> \in Seq(Hellos \cup {ClosePacket})
  BY DEF Types
<1>1. CASE UNCHANGED connVars
  BY <1>0, <1>1 DEF connVars, ConnTypes
<1>2. CASE ServerDown
  BY <1>0, <1>2 DEF ServerDown, ConnTypes
<1>3. CASE ClientStep
  <2>1. CASE CHello
    BY <2>1, Delivered, Heads DEF CHello
  <2>2. CASE CClose
    BY <1>1, <2>2, Delivered DEF CClose
  <2>3. CASE CTraffic
    BY <1>0, <2>3 DEF CTraffic, ConnTypes
  <2> QED BY <1>1, <1>3, <2>1, <2>2, <2>3
          DEF ClientStep, CNextSession, CConnect, CGiveUp, CBind, CRefused, CResumeFailed,
              CSkip, CStrayPacket, CRcvClose, CFail, CExpire, CExpireClose, CRestart, LinkDown
<1>4. CASE ServerStep
  <2>1. CASE SAccept
    BY <1>0, <2>1 DEF SAccept, ConnTypes
  <2>2. CASE SReadHello
    BY <1>0, <2>2, Heads DEF SReadHello, ConnTypes
  <2>3. CASE SAttach
    <3>1. CASE sConn' = IF sConn = "accept" THEN "bound" ELSE sConn
      <4>1. CASE UNCHANGED <<sDead, toServer>>
        BY <1>0, <3>1, <4>1 DEF ConnTypes
      <4> QED BY <1>1, <1>2, <2>3, <4>1 DEF SAttach, BindFailed, LoopDown
    <3> QED BY <1>1, <1>2, <2>3, <3>1 DEF SAttach, BindFailed, LoopDown
  <2>4. CASE SHelloInBinding
    <3>1. CASE toServer # <<>> /\ toServer' = Tail(toServer) /\ UNCHANGED <<sConn, sDead>>
      BY <1>0, <3>1, Heads DEF ConnTypes
    <3> QED BY <1>2, <2>4, <3>1 DEF SHelloInBinding
  <2>5. CASE SRestart
    BY <1>0, <2>5 DEF SRestart, ConnTypes
  <2> QED BY <1>1, <1>2, <1>4, <2>1, <2>2, <2>3, <2>4, <2>5
          DEF ServerStep, SReadFailed, SBusy, SResume, SCreate, SBind, SBindRefused, BindFailed,
              LoopDown, BindingDown, SSendReply, SRcvClose, SFail, SExpire, SExpireClose, SClose,
              SDisconnected
<1>5. CASE Traffic
  BY <1>1, <1>5, Frames
<1> QED BY <1>3, <1>4, <1>5, Steps

-----------------------------------------------------------------------------
(* The phases of the two sessions.                                         *)

\* BindClient works on an unbound session, a session that is done has no
\* binding, and an open connection has an owner.
ClientPhases ==
    /\ cPhase = "hello" => ~ c.bound
    /\ c.closed => ~ c.bound
    /\ up => c.bound \/ cPhase = "hello"

ServerPhases == s.closed => ~ s.bound

Phases == Types /\ ClientPhases /\ ServerPhases

LEMMA ClientPhased ==
    ASSUME Phases, Next
    PROVE  ClientPhases'
<1> USE DEF ClientPhases
<1>0. c \in Sessions /\ ClientPhases /\ up \in BOOLEAN
  BY DEF Phases, Types, ClientTypes, BleTypes
<1>1. CASE ServerStep
  <2>1. UNCHANGED clientVars /\ (up' = up \/ up' = FALSE)
    BY <1>1, Frames DEF ServerStep, SAccept, SReadHello, SReadFailed, SBusy, SResume, SCreate,
       SBind, SBindRefused, SAttach, BindFailed, SHelloInBinding, SSendReply, SRcvClose, SFail,
       SExpire, SExpireClose, SClose, SDisconnected, SRestart, bleVars
  <2> QED BY <1>0, <2>1 DEF clientVars
<1>2. CASE Traffic
  <2>1. c'.bound = c.bound /\ c'.closed = c.closed
    <3>1. CASE AckToClient
      <4>1. s.rx \in Offsets
        BY DEF Phases, Types, ServerTypes, Sessions
      <4> QED BY <1>0, <3>1, <4>1, ReleasedFields DEF AckToClient
    <3>2. CASE CWrite \/ ToClient
      BY <1>0, <3>2 DEF CWrite, ToClient, Sessions
    <3>3. CASE SWrite \/ ToServer \/ AckToServer
      BY <3>3 DEF SWrite, ToServer, AckToServer, clientVars
    <3> QED BY <1>2, <3>1, <3>2, <3>3 DEF Traffic
  <2> QED BY <1>0, <1>2, <2>1, Frames DEF bleVars
<1>3. CASE ClientStep
  <2>1. CASE CNextSession
    <3>1. PICK id \in Ids : c' = NewSession(id)
      BY <2>1 DEF CNextSession, FreshIds
    <3> QED BY <1>0, <2>1, <3>1, NewSessionFields DEF CNextSession, bleVars
  <2>2. CASE CRestart
    <3>1. PICK id \in Ids : c' = NewSession(id)
      BY <2>2 DEF CRestart, FreshIds
    <3> QED BY <2>2, <3>1, NewSessionFields DEF CRestart, ClientDown
  <2>3. CASE CConnect
    BY <1>0, <2>3 DEF CConnect
  <2>4. CASE CHello \/ CTraffic
    BY <1>0, <2>4 DEF CHello, CTraffic, clientVars, bleVars
  <2>5. CASE CGiveUp \/ CRefused \/ LinkDown
    BY <1>0, <2>5 DEF CGiveUp, CRefused, LinkDown, ClientDown, clientVars
  <2>6. CASE CSkip
    BY <1>0, <2>6 DEF CSkip, clientVars
  <2>7. CASE cPhase = "hello" /\ toClient # <<>> /\ CBind
    <3> DEFINE x == Released(c, Head(toClient).expected)
    <3>1. Head(toClient).expected \in Offsets
      BY <2>7, Heads DEF CBind, Phases
    <3>2. x \in Sessions /\ x.bound = c.bound /\ x.closed = c.closed
      BY <1>0, <3>1, SessionOps, ReleasedFields
    <3>3. Attached(x).bound /\ Attached(x).closed = c.closed
      BY <3>2, SessionFields
    <3> HIDE DEF x
    <3>4. CASE c.closed /\ c' = x /\ ClientDown /\ cPhase' = "idle"
      BY <1>0, <3>2, <3>4 DEF ClientDown
    <3>5. CASE ~ c.closed /\ c' = Attached(x) /\ cPhase' = "idle" /\ up' = up
      BY <1>0, <3>3, <3>5
    <3> QED BY <2>7, <3>4, <3>5 DEF CBind, x
  <2>8. CASE CResumeFailed \/ CStrayPacket \/ CRcvClose \/ CFail
    <3>1. c' \in {Closed(c), Detached(c)} /\ up' = FALSE /\ cPhase' \in {cPhase, "idle"}
      BY <2>8 DEF CResumeFailed, CStrayPacket, CRcvClose, CFail, ClientDown
    <3> QED BY <1>0, <3>1, SessionFields
  <2>9. CASE CExpireClose \/ CClose
    <3>1. c' = Closed(c) /\ cPhase' = cPhase /\ up' = IF c.bound THEN FALSE ELSE up
      BY <2>9 DEF CExpireClose, CClose, ClientDown, bleVars
    <3> QED BY <1>0, <3>1, SessionFields
  <2>10. CASE CExpire
    <3>1. c'.bound = c.bound /\ c'.closed = c.closed
      BY <1>0, <2>10 DEF CExpire, Sessions
    <3> QED BY <1>0, <2>10, <3>1 DEF CExpire, bleVars
  <2> QED BY <1>3, <2>1, <2>2, <2>3, <2>4, <2>5, <2>6, <2>7, <2>8, <2>9, <2>10 DEF ClientStep
<1> QED BY <1>1, <1>2, <1>3, Steps

\* What a step does to the fields of the server's session on which the
\* lasting properties rest.
LEMMA ServerFields ==
    ASSUME Phases, Next
    PROVE  \/ s' = NoSession
           \/ /\ s.closed /\ ~ s'.closed /\ ~ s'.bound
              /\ SCreate
           \/ /\ s'.closed = s.closed /\ s'.id = s.id /\ s'.bound = s.bound
              /\ s'.timer = s.timer /\ s'.expiring = s.expiring
           \/ s'.closed = s.closed /\ s'.id = s.id /\ ~ s'.bound /\ s'.timer
           \/ /\ ~ s.closed /\ ~ s'.closed /\ s'.id = s.id /\ s'.bound
              /\ SAttach
           \/ SExpire /\ s'.closed = s.closed /\ s'.id = s.id /\ ~ s'.bound /\ s'.expiring
<1>0. s \in Sessions
  BY DEF Phases, Types, ServerTypes
<1>1. CASE s' = s
  BY <1>1
<1>2. CASE s' = Detached(s)
  BY <1>0, <1>2, SessionFields DEF SameOffsets
<1>3. CASE \E e \in Offsets : s' = Released(s, e)
  BY <1>0, <1>3, ReleasedFields
<1>4. CASE ClientStep
  BY <1>1, <1>4, Frames
<1>5. CASE Traffic
  <2>1. CASE SWrite \/ ToServer
    BY <1>0, <2>1 DEF SWrite, ToServer, Sessions
  <2>2. CASE AckToServer
    BY <1>3, <2>2 DEF AckToServer, Phases, Types, ClientTypes, Sessions
  <2> QED BY <1>1, <1>5, <2>1, <2>2 DEF Traffic, CWrite, ToClient, AckToClient
<1>6. CASE ServerStep
  <2>1. CASE SCreate
    BY <2>1, NewSessionFields DEF SCreate
  <2>2. CASE SBind
    BY <1>3, <2>2, Heads DEF SBind, Phases
  <2>3. CASE SBindRefused
    BY <1>1, <1>3, <2>3, Heads DEF SBindRefused, BindFailed, Phases
  <2>4. CASE SAttach
    <3>1. CASE ~ s.closed /\ s' = Attached(s)
      BY <1>0, <2>4, <3>1, SessionFields DEF SameOffsets
    <3> QED BY <1>1, <2>4, <3>1 DEF SAttach, BindFailed
  <2>5. CASE SHelloInBinding
    <3> DEFINE e == Head(toServer).expected
    <3>1. e \in Offsets
      BY <2>5, Heads, PacketTypes DEF SHelloInBinding, Phases
    <3>2. CASE s' = [Released(s, e) EXCEPT !.reply = s.rx]
      <4>1. Released(s, e) \in Sessions
        BY <1>0, <3>1, SessionOps
      <4>2. /\ s'.closed = Released(s, e).closed /\ s'.id = Released(s, e).id
            /\ s'.bound = Released(s, e).bound /\ s'.timer = Released(s, e).timer
            /\ s'.expiring = Released(s, e).expiring
        BY <3>2, <4>1 DEF Sessions
      <4> QED BY <1>0, <3>1, <4>2, ReleasedFields
    <3> QED BY <1>1, <1>2, <2>5, <3>2 DEF SHelloInBinding
  <2>6. CASE SExpire \/ SSendReply
    BY <1>0, <2>6 DEF SExpire, SSendReply, Sessions
  <2> QED BY <1>1, <1>2, <1>6, <2>1, <2>2, <2>3, <2>4, <2>5, <2>6
          DEF ServerStep, SAccept, SReadHello, SReadFailed, SBusy, SResume, SRcvClose, SFail,
              SExpireClose, SClose, SDisconnected, SRestart
<1> QED BY <1>4, <1>5, <1>6, Steps

LEMMA InitPhases == ASSUME Init PROVE Phases
<1>1. PICK id \in Ids : c = NewSession(id)
  BY DEF Init
<1>2. ClientTypes /\ ServerTypes
  BY <1>1, NewSessionType, NewSessionFields DEF Init, ClientTypes, ServerTypes
<1>3. BleTypes /\ LoopTypes /\ ConnTypes
  <2>1. <<>> \in Seq(Packets) /\ <<>> \in Seq(Hellos \cup {ClosePacket})
    OBVIOUS
  <2>2. BleTypes
    <3>1. up \in BOOLEAN /\ doubt \in BOOLEAN
      BY Zenon DEF Init
    <3>2. gone = 0 /\ 0 \in 0 .. MaxLate + 1 /\ 0 <= MaxLate
      BY LinkResumeAssumption DEF Init
    <3> QED BY <2>1, <3>1, <3>2 DEF Init, BleTypes
  <2>3. LoopTypes
    BY DEF Init, LoopTypes
  <2>4. ConnTypes
    BY <2>1 DEF Init, ConnTypes
  <2> QED BY <2>2, <2>3, <2>4
<1>4. ClientPhases /\ ServerPhases
  BY <1>1, NewSessionFields DEF Init, ClientPhases, ServerPhases
<1> QED BY <1>2, <1>3, <1>4 DEF Phases, Types

LEMMA NextPhases == ASSUME Phases, [Next]_vars PROVE Phases'
<1>1. CASE UNCHANGED vars
  BY <1>1 DEF vars, clientVars, bleVars, loopVars, connVars, Phases, Types, ClientTypes, BleTypes,
     ServerTypes, LoopTypes, ConnTypes, ClientPhases, ServerPhases
<1>2. CASE Next
  <2>1. Types'
    BY <1>2, ClientTyped, ServerTyped, BleTyped, LoopTyped, ConnTyped DEF Phases, Types
  <2>2. ServerPhases'
    <3>1. s.closed \in BOOLEAN /\ s'.closed \in BOOLEAN
      BY <2>1 DEF Phases, Types, ServerTypes, Sessions
    <3> QED BY <1>2, <3>1, ServerFields, NewSessionFields DEF Phases, ServerPhases
  <2> QED BY <1>2, <2>1, <2>2, ClientPhased DEF Phases
<1> QED BY <1>1, <1>2

\* The fields of both sessions, both queues and the accept loop keep their
\* types, an open connection of the client always has an owner, and the accept
\* queue never holds two connections, for every number of identifiers, amount
\* of traffic and length of the receive queues, on a lossy radio too.
THEOREM TypesHold == Spec => []TypeOK
<1>1. Phases => TypeOK
  BY DEF Phases, Types, ClientTypes, BleTypes, ServerTypes, LoopTypes, ConnTypes, ClientPhases, TypeOK
<1> QED BY <1>1, InitPhases, NextPhases, PTL DEF Spec

-----------------------------------------------------------------------------
(* A session that the server keeps will be ended or is in use.             *)

LEMMA NextNeverBusy == ASSUME Phases, NeverBusyForever, [Next]_vars PROVE NeverBusyForever'
<1> USE DEF NeverBusyForever
<1>0. s.closed \in BOOLEAN /\ s.bound \in BOOLEAN /\ s.timer \in BOOLEAN /\ s.expiring \in BOOLEAN
  BY DEF Phases, Types, ServerTypes, Sessions
<1>1. CASE UNCHANGED vars
  BY <1>1 DEF vars, loopVars
<1>2. CASE Next
  <2>1. CASE s' = NoSession
    BY <2>1, NewSessionFields
  <2>2. CASE SCreate
    BY <2>2 DEF SCreate
  <2>3. CASE s'.bound \/ s'.timer \/ s'.expiring
    BY <2>3
  <2>4. CASE /\ s'.closed = s.closed /\ s'.id = s.id /\ s'.bound = s.bound
             /\ s'.timer = s.timer /\ s'.expiring = s.expiring
    <3>1. CASE s.closed \/ s.bound \/ s.timer \/ s.expiring
      BY <2>4, <3>1
    <3>2. CASE ~ s.closed /\ sCreated /\ sPc \in {"bind", "attach"}
      <4>1. CASE UNCHANGED loopVars
        BY <3>2, <4>1 DEF loopVars
      <4>2. CASE ServerStep
        <5>1. CASE SBind
          BY <3>2, <5>1 DEF SBind
        <5>2. CASE SAttach
          <6>1. CASE s' = Attached(s)
            <7>1. s'.bound
              BY <6>1, SessionFields DEF Phases, Types, ServerTypes
            <7> QED BY <7>1
          <6> QED BY <2>1, <3>2, <5>2, <6>1 DEF SAttach, BindFailed
        <5>3. CASE SBindRefused
          BY <2>1, <3>2, <5>3 DEF SBindRefused, BindFailed
        <5> QED BY <2>1, <2>2, <3>2, <4>1, <4>2, <5>1, <5>2, <5>3
                DEF ServerStep, SAccept, SReadHello, SReadFailed, SBusy, SResume, SHelloInBinding,
                    SSendReply, SRcvClose, SFail, SExpire, SExpireClose, SClose, SDisconnected,
                    SRestart, loopVars
      <4> QED BY <1>2, <4>1, <4>2, Steps, Frames
    <3> QED BY <3>1, <3>2, <1>0
  <2> QED BY <1>2, <2>1, <2>2, <2>3, <2>4, ServerFields
<1> QED BY <1>1, <1>2

\* The accept loop is never left answering "server busy" for a session that
\* nothing will ever close.
THEOREM KeptSessionsEnd == Spec => []NeverBusyForever
<1>1. Init => NeverBusyForever
  BY NewSessionFields DEF Init, NeverBusyForever
<1> QED BY <1>1, InitPhases, NextPhases, NextNeverBusy, PTL DEF Spec

-----------------------------------------------------------------------------
(* Resumption, on connections without doubt.                               *)

\* The two ends of a connection: once the client has left and the server has
\* heard of it, nothing of the connection remains.
Paired ==
    /\ up /\ ~ doubt => gone = 0
    /\ ~ up => toClient = <<>>
    /\ ~ up /\ gone = 0 => sConn = "none" /\ toServer = <<>>

\* The accept loop works on a connection until the session owns it, and on the
\* session that the HELLO it has read names.
Holders ==
    /\ sConn = "accept" => sPc # "idle"
    /\ sConn = "bound" => sPc = "idle"
    /\ sPc \in {"bind", "attach"} /\ ~ s.closed => s.id = sHello.id

\* A HELLO of this connection names the client's session and an offset that it
\* has reached, its present one while BindClient waits.
Current(h) == h.id = c.id /\ h.expected <= c.rx /\ (cPhase = "hello" => h.expected = c.rx)

HellosCurrent ==
    up /\ ~ doubt =>
          /\ \A k \in DOMAIN toServer : toServer[k].type = "hello" => Current(toServer[k])
          /\ sConn = "accept" /\ sPc \in {"check", "bind", "attach"} => Current(sHello)

\* The server has sent its HELLO_ACK, and has attached the session or is about to.
Serving == ~ s.closed /\ (SLive \/ (sPc = "attach" /\ sConn = "accept"))

\* A client that still waits for the answer will find it in its queue.
Answering ==
    up /\ ~ doubt /\ cPhase = "hello" /\ Serving =>
        /\ s.id = c.id /\ s.base = c.rx /\ c.rx <= s.next
        /\ \E k \in DOMAIN toClient : toClient[k] = HelloAck(s.rx)

\* A client that has handled every packet agrees with the server.
Agreed ==
    up /\ ~ doubt /\ c.bound /\ toClient = <<>> /\ Serving =>
        /\ c.id = s.id
        /\ c.base <= s.rx /\ s.rx <= c.next
        /\ s.base <= c.rx /\ c.rx <= s.next

Resumable == Phases /\ Paired /\ Holders /\ HellosCurrent /\ Answering /\ Agreed

\* A connection without doubt has just been made, all disconnects being known,
\* or was without doubt before.
LEMMA DoubtStays ==
    ASSUME Phases, Next, up', ~ doubt'
    PROVE  (CConnect /\ gone = 0) \/ (up /\ ~ doubt /\ gone' <= gone)
<1>0. up \in BOOLEAN /\ doubt \in BOOLEAN /\ gone \in Nat
  BY LinkResumeAssumption DEF Phases, Types, BleTypes
<1>1. CASE UNCHANGED <<up, gone, doubt>>
  BY <1>0, <1>1
<1>2. ~ ClientDown /\ ~ SRestart
  BY DEF ClientDown, SRestart
<1>3. CASE CConnect
  <2>1. ~ (gone > 0)
    BY <1>3, Zenon DEF CConnect
  <2> QED BY <1>0, <1>3, <2>1
<1>4. CASE ClientStep
  BY <1>1, <1>2, <1>3, <1>4
     DEF ClientStep, CNextSession, CHello, CGiveUp, CBind, CRefused, CResumeFailed, CSkip,
         CStrayPacket, CRcvClose, CFail, CExpire, CExpireClose, CClose, CTraffic, CRestart,
         LinkDown, bleVars
<1>5. CASE SBind \/ SSendReply \/ SDisconnected
  <2>1. ~ doubt
    BY <1>5, Zenon DEF SBind, SSendReply, SDisconnected, Acknowledge
  <2>2. up' = up /\ gone' <= gone
    <3>1. up' = up /\ (gone' = gone \/ gone' = gone - 1)
      BY <1>5 DEF SBind, SSendReply, SDisconnected
    <3>2. gone' <= gone
      BY <1>0, <3>1
    <3> QED BY <3>1, <3>2
  <2> QED BY <2>1, <2>2
<1>6. CASE ServerStep
  BY <1>1, <1>2, <1>5, <1>6
     DEF ServerStep, SAccept, SReadHello, SReadFailed, SBusy, SResume, SCreate,
         SBindRefused, SAttach, BindFailed, SHelloInBinding, SRcvClose, SFail,
         SExpire, SExpireClose, SClose, bleVars
<1> QED BY <1>1, <1>4, <1>6, Steps, Frames DEF bleVars

LEMMA NoDoubt ==
    ASSUME Phases, Next, ServerStep \/ Traffic, up', ~ doubt'
    PROVE  up /\ ~ doubt
BY DoubtStays, Frames DEF CConnect, clientVars

LEMMA NextPaired ==
    ASSUME Phases, Paired, Next
    PROVE  Paired'
<1>0. up \in BOOLEAN /\ gone \in Nat /\ gone' \in Nat
  BY NextPhases, LinkResumeAssumption DEF Phases, Types, BleTypes
<1>1. /\ up' /\ ~ doubt' => gone' = 0
      /\ ~ up' => toClient' = <<>>
  <2>1. ASSUME up', ~ doubt' PROVE gone' = 0
    BY <1>0, <2>1, DoubtStays DEF CConnect, Paired
  <2> USE DEF Paired
  <2>2. CASE UNCHANGED bleVars
    BY <2>1, <2>2 DEF bleVars
  <2>3. CASE ClientDown \/ CConnect
    BY <2>1, <2>3 DEF ClientDown, CConnect
  <2>4. CASE toClient # <<>> /\ UNCHANGED up
    BY <2>1, <2>4
  <2>5. CASE ClientStep
    BY <2>2, <2>3, <2>4, <2>5
       DEF ClientStep, CNextSession, CHello, CGiveUp, CBind, CRefused, CResumeFailed, CSkip,
           CStrayPacket, CRcvClose, CFail, CExpire, CExpireClose, CClose, CTraffic, CRestart, LinkDown
  <2>6. ASSUME NEW p, Notify(p), UNCHANGED up
        PROVE  ~ up' => toClient' = <<>>
    BY <2>6 DEF Notify
  <2>7. CASE SBusy \/ SBindRefused \/ SAttach
    BY <2>1, <2>2, <2>6, <2>7 DEF SBusy, SBindRefused, SAttach, BindFailed, Refuse, bleVars
  <2>8. CASE SBind \/ SSendReply \/ SClose
    BY <2>1, <2>2, <2>6, <2>8 DEF SBind, SSendReply, SClose, Acknowledge, bleVars
  <2>9. CASE SDisconnected \/ SRestart
    BY <2>1, <2>9 DEF SDisconnected, SRestart
  <2>10. CASE ServerStep
    BY <2>2, <2>7, <2>8, <2>9, <2>10
       DEF ServerStep, SAccept, SReadHello, SReadFailed, SResume, SCreate, SHelloInBinding,
           SRcvClose, SFail, SExpire, SExpireClose
  <2> QED BY <2>2, <2>5, <2>10, Steps, Frames
<1>2. ~ up' /\ gone' = 0 => (~ up /\ gone = 0) \/ SDisconnected \/ SRestart
  <2>1. CASE UNCHANGED <<up, gone>> \/ ClientDown \/ CConnect
    BY <1>0, <2>1 DEF ClientDown, CConnect
  <2>2. CASE ClientStep
    BY <2>1, <2>2
       DEF ClientStep, CNextSession, CHello, CGiveUp, CBind, CRefused, CResumeFailed, CSkip,
           CStrayPacket, CRcvClose, CFail, CExpire, CExpireClose, CClose, CTraffic, CRestart,
           LinkDown, bleVars
  <2>3. CASE ServerStep
    BY <2>1, <2>3
       DEF ServerStep, SAccept, SReadHello, SReadFailed, SBusy, SResume, SCreate, SBind,
           SBindRefused, SAttach, BindFailed, SHelloInBinding, SSendReply, SRcvClose, SFail,
           SExpire, SExpireClose, SClose, bleVars
  <2> QED BY <2>1, <2>2, <2>3, Steps, Frames DEF bleVars
<1>3. CASE SDisconnected \/ SRestart
  BY <1>1, <1>3 DEF SDisconnected, SRestart, ServerDown, Paired
<1>4. ASSUME ~ up, sConn = "none", toServer = <<>>
      PROVE  sConn' = "none" /\ toServer' = <<>>
  <2>1. CASE UNCHANGED connVars \/ ServerDown
    BY <1>4, <2>1 DEF connVars, ServerDown
  <2>2. CASE ClientStep
    BY <1>4, <2>1, <2>2
       DEF ClientStep, CNextSession, CConnect, CHello, CGiveUp, CBind, CRefused, CResumeFailed,
           CSkip, CStrayPacket, CRcvClose, CFail, CExpire, CExpireClose, CClose, CTraffic,
           CRestart, LinkDown, CLive
  <2>3. CASE SAccept \/ SReadHello \/ SAttach \/ SHelloInBinding \/ SRestart
    BY <1>4, <2>1, <2>3
       DEF SAccept, SReadHello, SAttach, BindFailed, LoopDown, SHelloInBinding, SRestart
  <2>4. CASE ServerStep
    BY <2>1, <2>3, <2>4
       DEF ServerStep, SReadFailed, SBusy, SResume, SCreate, SBind, SBindRefused, BindFailed,
           LoopDown, BindingDown, SSendReply, SRcvClose, SFail, SExpire, SExpireClose, SClose,
           SDisconnected
  <2> QED BY <2>1, <2>2, <2>4, Steps, Frames
<1> QED BY <1>1, <1>2, <1>3, <1>4 DEF Paired

LEMMA NextHolders ==
    ASSUME Phases, Holders, Next
    PROVE  Holders'
<1>0. s.closed \in BOOLEAN /\ s'.closed \in BOOLEAN
  BY NextPhases DEF Phases, Types, ServerTypes, Sessions
<1>1. CASE ClientStep \/ Traffic
  <2>1. UNCHANGED loopVars /\ s'.closed = s.closed /\ s'.id = s.id
    <3>1. UNCHANGED loopVars /\ sPc' = sPc /\ (ClientStep => s' = s)
      BY <1>1, Frames DEF loopVars
    <3>2. CASE Traffic
      <4>0. s \in Sessions
        BY DEF Phases, Types, ServerTypes
      <4>1. CASE SWrite \/ ToServer
        BY <3>1, <4>0, <4>1 DEF SWrite, ToServer, Sessions
      <4>2. CASE AckToServer
        <5>1. c.rx \in Offsets
          BY DEF Phases, Types, ClientTypes, Sessions
        <5> QED BY <3>1, <4>0, <4>2, <5>1, ReleasedFields DEF AckToServer
      <4> QED BY <3>1, <3>2, <4>1, <4>2 DEF Traffic, CWrite, ToClient, AckToClient
    <3> QED BY <1>1, <3>1, <3>2
  <2>2. sConn' = sConn \/ sConn' = "queued"
    BY <1>1, Frames
       DEF ClientStep, CNextSession, CConnect, CHello, CGiveUp, CBind, CRefused, CResumeFailed,
           CSkip, CStrayPacket, CRcvClose, CFail, CExpire, CExpireClose, CClose, CTraffic,
           CRestart, LinkDown, Deliver, connVars
  <2> QED BY <2>1, <2>2 DEF Holders, loopVars
<1>2. CASE ServerStep
  <2>1. (sConn' = "accept" => sPc' # "idle") /\ (sConn' = "bound" => sPc' = "idle")
    <3> USE DEF Holders
    <3>1. CASE UNCHANGED <<sConn, sPc>>
      BY <3>1
    <3>2. CASE ServerDown
      BY <3>2 DEF ServerDown
    <3>3. CASE SAccept \/ SReadHello \/ SReadFailed
      BY <3>1, <3>2, <3>3 DEF SAccept, SReadHello, SReadFailed, LoopDown, connVars
    <3>4. CASE SBusy \/ SResume \/ SCreate \/ SBind \/ SBindRefused
      BY <3>2, <3>4 DEF SBusy, SResume, SCreate, SBind, SBindRefused, BindFailed, LoopDown,
                        LoopAgain, connVars
    <3>5. CASE SAttach
      BY <3>2, <3>5 DEF SAttach, BindFailed, LoopDown, LoopAgain, connVars
    <3>6. CASE SHelloInBinding \/ SRestart
      BY <3>1, <3>2, <3>6 DEF SHelloInBinding, SRestart
    <3> QED BY <1>2, <3>1, <3>2, <3>3, <3>4, <3>5, <3>6
            DEF ServerStep, SSendReply, SRcvClose, SFail, SExpire, SExpireClose, SClose,
                SDisconnected, BindingDown, loopVars, connVars
  <2>2. sPc' \in {"bind", "attach"} /\ ~ s'.closed => s'.id = sHello'.id
    <3>1. CASE SCreate
      BY <3>1, NewSessionFields DEF SCreate
    <3>2. CASE SResume
      BY <3>2 DEF SResume
    <3>3. CASE SBind
      BY <1>0, <3>3, ServerFields, NewSessionFields DEF SBind, SCreate, SAttach, SExpire, Holders
    <3>4. CASE UNCHANGED loopVars
      BY <1>0, <3>1, <3>4, ServerFields, NewSessionFields DEF Holders, loopVars
    <3> QED BY <1>2, <3>1, <3>2, <3>3, <3>4
            DEF ServerStep, SAccept, SReadHello, SReadFailed, SBusy, SBindRefused, SAttach,
                BindFailed, LoopAgain, SHelloInBinding, SSendReply, SRcvClose, SFail, SExpire,
                SExpireClose, SClose, SDisconnected, SRestart, loopVars
  <2> QED BY <2>1, <2>2 DEF Holders
<1> QED BY <1>1, <1>2, Steps

\* A step of the client after which its connection is open.
LEMMA ClientStays ==
    ASSUME Phases, ClientStep, up'
    PROVE  /\ UNCHANGED connVars \/ CHello \/ CTraffic
           /\ \/ CConnect /\ ~ up /\ UNCHANGED connVars
              \/ /\ up /\ c'.id = c.id /\ c'.base = c.base /\ c'.next = c.next /\ c'.rx = c.rx
                 /\ cPhase' = cPhase /\ (c'.bound => c.bound)
                 /\ toClient' = toClient \/ (cPhase = "hello" /\ toClient # <<>> /\ CSkip)
              \/ /\ up /\ cPhase = "hello" /\ cPhase' = "idle" /\ toClient # <<>>
                 /\ Head(toClient).type = "ack" /\ toClient' = Tail(toClient)
                 /\ c'.id = c.id /\ c'.base = Head(toClient).expected
                 /\ c'.next = c.next /\ c'.rx = c.rx
                 /\ Retained(c, Head(toClient).expected) /\ UNCHANGED connVars
<1>0. /\ c \in Sessions /\ up \in BOOLEAN
      /\ cPhase = "hello" => ~ c.bound
      /\ c.closed => ~ c.bound
      /\ up => c.bound \/ cPhase = "hello"
  BY DEF Phases, ClientPhases, Types, ClientTypes, BleTypes
<1>1. ~ ClientDown
  BY DEF ClientDown
<1>2. CASE CNextSession \/ CRestart
  BY <1>0, <1>1, <1>2 DEF CNextSession, CRestart, bleVars
<1>3. CASE CConnect
  BY <1>0, <1>3 DEF CConnect
<1>4. CASE CHello \/ CTraffic \/ (cPhase = "hello" /\ toClient # <<>> /\ CSkip)
  BY <1>4 DEF CHello, CTraffic, CSkip, clientVars, bleVars
<1>5. CASE CGiveUp \/ CRefused \/ CResumeFailed \/ CStrayPacket \/ CRcvClose \/ CFail \/ LinkDown
  BY <1>1, <1>5 DEF CGiveUp, CRefused, CResumeFailed, CStrayPacket, CRcvClose, CFail, LinkDown
<1>6. CASE CExpireClose \/ CClose
  <2>1. c' = Closed(c) /\ UNCHANGED <<cPhase, bleVars, connVars>>
    BY <1>1, <1>6 DEF CExpireClose, CClose, CLive
  <2> QED BY <1>0, <2>1, SessionFields DEF SameOffsets, bleVars
<1>7. CASE CExpire
  <2>1. /\ c'.id = c.id /\ c'.base = c.base /\ c'.next = c.next /\ c'.rx = c.rx
        /\ c'.bound = c.bound
    BY <1>0, <1>7 DEF CExpire, Sessions
  <2> QED BY <1>7, <2>1, <1>0 DEF CExpire, bleVars
<1>8. CASE cPhase = "hello" /\ toClient # <<>> /\ CBind
  <2> DEFINE e == Head(toClient).expected
  <2>1. e \in Offsets
    BY <1>8, Heads DEF CBind, Phases
  <2>2. Released(c, e) \in Sessions
    BY <1>0, <2>1, SessionOps
  <2>3. SameOffsets(Released(c, e), Attached(Released(c, e)))
    BY <2>2, SessionFields
  <2>4. /\ Released(c, e).id = c.id /\ Released(c, e).base = e /\ Released(c, e).next = c.next
        /\ Released(c, e).rx = c.rx
    BY <1>0, <2>1, ReleasedFields
  <2>5. c' = Attached(Released(c, e)) /\ toClient' = Tail(toClient) /\ up
    BY <1>1, <1>8 DEF CBind
  <2> QED BY <1>8, <2>3, <2>4, <2>5 DEF CBind, SameOffsets
<1>9. \/ CNextSession \/ CRestart \/ CConnect \/ CHello \/ CTraffic \/ CExpireClose \/ CClose
      \/ CExpire \/ CGiveUp \/ CResumeFailed \/ CStrayPacket \/ CRcvClose \/ CFail \/ LinkDown
      \/ (cPhase = "hello" /\ toClient # <<>> /\ CSkip) \/ CRefused
      \/ (cPhase = "hello" /\ toClient # <<>> /\ CBind)
  BY DEF ClientStep
<1> QED BY <1>2, <1>3, <1>4, <1>5, <1>6, <1>7, <1>8, <1>9

\* A step of the server after which the client's connection is open.
LEMMA ServerStays ==
    ASSUME Phases, ServerStep, up'
    PROVE  /\ up /\ UNCHANGED clientVars
           /\ toClient' = toClient \/ \E p \in Packets : toClient' = Append(toClient, p)
<1>1. CASE UNCHANGED bleVars
  BY <1>1, Frames DEF bleVars
<1>2. ASSUME NEW p \in Packets, Notify(p), up' = up
      PROVE  up /\ (toClient' = toClient \/ \E q \in Packets : toClient' = Append(toClient, q))
  BY <1>2 DEF Notify
<1>3. CASE SBusy \/ SBindRefused \/ SAttach
  BY <1>1, <1>2, <1>3, Frames, PacketTypes DEF SBusy, SBindRefused, SAttach, BindFailed, Refuse
<1>4. CASE SBind \/ SSendReply
  <2>1. HelloAck(s.rx) \in Packets /\ (s.reply # NoReply => HelloAck(s.reply) \in Packets)
    BY PacketTypes DEF Phases, Types, ServerTypes, Sessions
  <2> QED BY <1>2, <1>4, <2>1, Frames DEF SBind, SSendReply, Acknowledge
<1>5. CASE SClose
  BY <1>2, <1>5, Frames, PacketTypes DEF SClose
<1>6. CASE SDisconnected \/ SRestart
  BY <1>6, Frames DEF SDisconnected, SRestart
<1> QED BY <1>1, <1>3, <1>4, <1>5, <1>6
        DEF ServerStep, SAccept, SReadHello, SReadFailed, SResume, SCreate, SHelloInBinding,
            SRcvClose, SFail, SExpire, SExpireClose

\* A step of the server after which it serves the client: its HELLO_ACK goes
\* out, or it served the client before and at most a HELLO has released bytes.
LEMMA ServingStays ==
    ASSUME Phases, Holders, ServerStep, Serving'
    PROVE  \/ /\ SBind
              /\ s'.id = s.id /\ s'.base = sHello.expected /\ s'.next = s.next /\ s'.rx = s.rx
           \/ /\ Serving
              /\ s'.id = s.id /\ s'.next = s.next /\ s'.rx = s.rx
              /\ \/ s'.base = s.base
                 \/ \E k \in DOMAIN toServer :
                       /\ toServer[k].type = "hello" /\ s'.base = toServer[k].expected
                       /\ Retained(s, toServer[k].expected)
<1>0. s \in Sessions /\ (s.closed => ~ s.bound)
  BY DEF Phases, ServerPhases, Types, ServerTypes
<1>1. /\ ~ s'.closed
      /\ (s'.bound /\ sConn' = "bound") \/ (sPc' = "attach" /\ sConn' = "accept")
  BY DEF Serving, SLive
<1>2. s' # NoSession
  BY <1>1, NewSessionFields
<1>3. CASE SAccept \/ SReadHello \/ SReadFailed \/ SResume \/ SDisconnected
  <2>1. s' = s /\ ~ (sPc' = "attach" /\ sPc # "attach")
    BY <1>3 DEF SAccept, SReadHello, SReadFailed, SResume, SDisconnected, loopVars
  <2>2. CASE s'.bound /\ sConn' = "bound"
    <3>1. sConn = "bound"
      BY <1>3, <2>2 DEF SAccept, SReadHello, SReadFailed, SResume, SDisconnected, LoopDown,
                        ServerDown, connVars
    <3> QED BY <1>1, <2>1, <2>2, <3>1 DEF Serving, SLive
  <2>3. CASE sPc' = "attach" /\ sConn' = "accept"
    BY <1>3, <2>3 DEF SAccept, SReadHello, SReadFailed, SResume, SDisconnected, ServerDown
  <2> QED BY <1>1, <2>2, <2>3
<1>4. CASE SBusy \/ SCreate
  BY <1>1, <1>4, NewSessionFields
     DEF SBusy, SCreate, LoopDown, LoopAgain, ServerDown, connVars, Holders
<1>5. CASE SBind
  BY <1>0, <1>5, Heads, ReleasedFields DEF SBind, Phases
<1>6. CASE SBindRefused
  BY <1>1, <1>6 DEF SBindRefused, BindFailed, LoopDown, LoopAgain, ServerDown, connVars, Holders
<1>7. CASE SAttach
  <2>1. CASE s.closed /\ BindFailed(s)
    BY <1>1, <1>2, <2>1 DEF BindFailed
  <2>2. CASE ~ s.closed /\ s' = Attached(s)
    <3>1. sConn = "accept" /\ sPc = "attach"
      BY <1>1, <1>2, <1>7, <2>2 DEF SAttach, BindFailed, LoopAgain, Holders
    <3> QED BY <1>0, <2>2, <3>1, SessionFields DEF SameOffsets, Serving
  <2> QED BY <1>7, <2>1, <2>2 DEF SAttach
<1>8. CASE SHelloInBinding
  <2> DEFINE h == Head(toServer)
  <2>1. /\ Serving /\ toServer # <<>> /\ h.type = "hello"
    BY <1>0, <1>8 DEF SHelloInBinding, Serving, SLive
  <2>2. h.expected \in Offsets /\ 1 \in DOMAIN toServer /\ toServer[1] = h
    <3>1. toServer \in Seq(Hellos \cup {ClosePacket})
      BY DEF Phases, Types, ConnTypes
    <3>2. 1 \in DOMAIN toServer /\ toServer[1] = h
      BY <2>1, <3>1, Queues
    <3>3. h \in Hellos
      BY <2>1, Heads DEF Phases
    <3> QED BY <3>2, <3>3, PacketTypes
  <2>3. CASE s' = s
    BY <2>1, <2>3
  <2>4. CASE Retained(s, h.expected) /\ s' = [Released(s, h.expected) EXCEPT !.reply = s.rx]
    <3>1. Released(s, h.expected) \in Sessions
      BY <1>0, <2>2, SessionOps
    <3>2. /\ s'.id = Released(s, h.expected).id /\ s'.base = Released(s, h.expected).base
          /\ s'.next = Released(s, h.expected).next /\ s'.rx = Released(s, h.expected).rx
      BY <2>4, <3>1 DEF Sessions
    <3>3. s'.id = s.id /\ s'.base = h.expected /\ s'.next = s.next /\ s'.rx = s.rx
      BY <1>0, <2>2, <3>2, ReleasedFields
    <3> QED BY <2>1, <2>2, <2>4, <3>3
  <2>5. CASE ServerDown
    BY <1>1, <2>5 DEF ServerDown
  <2> QED BY <1>8, <2>3, <2>4, <2>5 DEF SHelloInBinding
<1>9. CASE SSendReply
  <2>1. /\ s'.id = s.id /\ s'.base = s.base /\ s'.next = s.next /\ s'.rx = s.rx
        /\ Serving
    BY <1>0, <1>9 DEF SSendReply, Sessions, Serving, SLive
  <2> QED BY <2>1
<1>10. CASE SFail
  <2>1. ~ s'.bound
    BY <1>0, <1>10, SessionFields DEF SFail
  <2>2. sPc' = "attach" /\ sConn' = "accept"
    BY <1>1, <2>1
  <2>3. sPc = "attach" /\ sConn = "accept" /\ ~ s.closed
    BY <1>0, <1>10, <2>2 DEF SFail, BindingDown, ServerDown, loopVars, connVars
  <2> QED BY <1>0, <1>10, <2>3, SessionFields DEF SFail, SameOffsets, Serving
<1>11. CASE SExpire
  <2>1. /\ ~ s'.bound /\ ~ s.closed
        /\ s'.id = s.id /\ s'.base = s.base /\ s'.next = s.next /\ s'.rx = s.rx
    BY <1>0, <1>11 DEF SExpire, Sessions
  <2>2. sPc = "attach" /\ sConn = "accept"
    BY <1>1, <1>11, <2>1 DEF SExpire, loopVars, connVars
  <2> QED BY <2>1, <2>2 DEF Serving
<1> QED BY <1>2, <1>3, <1>4, <1>5, <1>6, <1>7, <1>8, <1>9, <1>10, <1>11
        DEF ServerStep, SRcvClose, SExpireClose, SClose, SRestart

\* The client's session while bytes move.
LEMMA TrafficFields ==
    ASSUME Phases, Traffic
    PROVE  /\ c'.id = c.id /\ c'.bound = c.bound /\ c'.closed = c.closed
           /\ s'.id = s.id /\ s'.bound = s.bound /\ s'.closed = s.closed
           /\ \/ CWrite /\ s' = s /\ c'.base = c.base /\ c'.rx = c.rx /\ c'.next = c.next + 1
              \/ SWrite /\ c' = c /\ s'.base = s.base /\ s'.rx = s.rx /\ s'.next = s.next + 1
              \/ ToServer /\ c' = c /\ s'.base = s.base /\ s'.rx = s.rx + 1 /\ s'.next = s.next
              \/ ToClient /\ s' = s /\ c'.base = c.base /\ c'.rx = c.rx + 1 /\ c'.next = c.next
              \/ AckToClient /\ s' = s /\ c'.base = s.rx /\ c'.rx = c.rx /\ c'.next = c.next
              \/ AckToServer /\ c' = c /\ s'.base = c.rx /\ s'.rx = s.rx /\ s'.next = s.next
<1>0. c \in Sessions /\ s \in Sessions /\ c.rx \in Offsets /\ s.rx \in Offsets
  BY DEF Phases, Types, ClientTypes, ServerTypes, Sessions
<1>1. CASE CWrite
  BY <1>0, <1>1 DEF CWrite, Sessions
<1>2. CASE SWrite
  BY <1>0, <1>2 DEF SWrite, Sessions, clientVars
<1>3. CASE ToServer
  BY <1>0, <1>3 DEF ToServer, Sessions, clientVars
<1>4. CASE ToClient
  BY <1>0, <1>4 DEF ToClient, Sessions
<1>5. CASE AckToClient
  BY <1>0, <1>5, ReleasedFields DEF AckToClient
<1>6. CASE AckToServer
  BY <1>0, <1>6, ReleasedFields DEF AckToServer, clientVars
<1> QED BY <1>1, <1>2, <1>3, <1>4, <1>5, <1>6 DEF Traffic

\* Nothing of an earlier connection is left when the client connects without doubt.
LEMMA Connects ==
    ASSUME Phases, Paired, CConnect, ~ doubt'
    PROVE  ~ up /\ sConn = "none" /\ toServer = <<>>
<1>1. ~ up /\ gone \in Nat
  BY LinkResumeAssumption DEF CConnect, Phases, ClientPhases, Types, BleTypes
<1>2. ~ (gone > 0)
  BY Zenon DEF CConnect
<1> QED BY <1>1, <1>2 DEF Paired

LEMMA NextHellosCurrent ==
    ASSUME Phases, Paired, Holders, HellosCurrent, Next
    PROVE  HellosCurrent'
<1> SUFFICES ASSUME up', ~ doubt'
             PROVE  /\ \A k \in DOMAIN toServer' : toServer'[k].type = "hello" => Current(toServer[k])'
                    /\ sConn' = "accept" /\ sPc' \in {"check", "bind", "attach"} => Current(sHello)'
  BY DEF HellosCurrent
<1>0. toServer \in Seq(Hellos \cup {ClosePacket}) /\ c.rx \in Nat /\ s.rx \in Nat
  BY Heads DEF Phases, Types, ConnTypes
<1>1. CASE ClientStep
  <2>1. CASE CConnect /\ ~ up /\ UNCHANGED connVars
    BY <2>1, Connects DEF connVars
  <2>2. CASE up /\ ~ doubt /\ c'.id = c.id /\ c'.rx = c.rx /\ cPhase' \in {cPhase, "idle"}
    <3>1. \A h : Current(h) => h.id = c'.id /\ h.expected <= c'.rx /\ (cPhase' = "hello" => h.expected = c'.rx)
      BY <2>2 DEF Current
    <3>2. UNCHANGED <<sPc, sHello>>
      BY <1>1, Frames DEF loopVars
    <3>3. sConn' = "accept" => sConn = "accept"
      BY <1>1, ClientStays DEF CHello, CTraffic, Deliver, connVars
    <3>4. ASSUME NEW k \in DOMAIN toServer', toServer'[k].type = "hello"
          PROVE  Current(toServer'[k])
      <4>1. CASE UNCHANGED toServer
        BY <2>2, <3>4, <4>1 DEF HellosCurrent
      <4>2. CASE CHello
        <5>1. Current(Hello(c.id, c.rx))
          BY <1>0 DEF Current, Hello
        <5>2. Hello(c.id, c.rx) \in Hellos
          BY Heads DEF Phases
        <5>3. \/ UNCHANGED toServer \/ toServer' = Append(toServer, Hello(c.id, c.rx))
              \/ toServer' = <<Hello(c.id, c.rx)>>
          BY <4>2 DEF CHello, Deliver, connVars
        <5>4. CASE toServer' = Append(toServer, Hello(c.id, c.rx))
          BY <1>0, <2>2, <3>4, <5>1, <5>2, <5>4, Queues DEF HellosCurrent
        <5>5. CASE toServer' = <<Hello(c.id, c.rx)>>
          BY <1>0, <3>4, <5>1, <5>2, <5>5, Queues
        <5> QED BY <4>1, <5>3, <5>4, <5>5
      <4>3. CASE CTraffic
        BY <3>4, <4>3 DEF CTraffic
      <4> QED BY <1>1, <4>1, <4>2, <4>3, ClientStays DEF connVars
    <3> QED BY <2>2, <3>1, <3>2, <3>3, <3>4 DEF HellosCurrent, Current
  <2>3. CASE CConnect /\ UNCHANGED connVars
    BY <2>1, <2>3, Connects
  <2> QED BY <1>1, <2>2, <2>3, ClientStays, DoubtStays DEF CConnect
<1>2. CASE Traffic
  <2>1. UNCHANGED <<cPhase, up, doubt, sPc, sHello, sConn, toServer>>
    BY <1>2, Frames DEF bleVars, loopVars, connVars
  <2>0. up /\ ~ doubt
    BY <1>2, NoDoubt
  <2>2. c'.id = c.id /\ (c'.rx = c.rx \/ (cPhase # "hello" /\ c'.rx = c.rx + 1))
    BY <1>2, TrafficFields DEF ToClient, BothLive, CLive, Phases, ClientPhases
  <2>3. ASSUME NEW h, h.expected \in Nat, Current(h)
        PROVE  h.id = c'.id /\ h.expected <= c'.rx /\ (cPhase' = "hello" => h.expected = c'.rx)
    BY <1>0, <2>1, <2>2, <2>3 DEF Current
  <2>4. sHello.expected \in Nat
    BY Heads, OffsetFacts DEF Phases
  <2>5. ASSUME NEW k \in DOMAIN toServer, toServer[k].type = "hello"
        PROVE  toServer[k].expected \in Nat
    <3>1. toServer[k] \in Hellos \cup {ClosePacket}
      BY <1>0
    <3> QED BY <2>5, <3>1, PacketTypes, OffsetFacts
  <2>6. ASSUME NEW k \in DOMAIN toServer', toServer'[k].type = "hello"
        PROVE  Current(toServer[k])'
    BY <2>0, <2>1, <2>3, <2>5, <2>6 DEF HellosCurrent, Current
  <2> QED BY <2>0, <2>1, <2>3, <2>4, <2>6 DEF HellosCurrent, Current
<1>3. CASE ServerStep
  <2>1. up /\ ~ doubt /\ UNCHANGED clientVars
    BY <1>3, ServerStays, NoDoubt
  <2>2. \A h : Current(h) => h.id = c'.id /\ h.expected <= c'.rx /\ (cPhase' = "hello" => h.expected = c'.rx)
    BY <2>1 DEF Current, clientVars
  <2>3. UNCHANGED toServer \/ toServer' = <<>> \/ (toServer # <<>> /\ toServer' = Tail(toServer))
    BY <1>3 DEF ServerStep, SAccept, SReadHello, SReadFailed, SBusy, SResume, SCreate, SBind,
       SBindRefused, SAttach, BindFailed, SHelloInBinding, SSendReply, SRcvClose, SFail, SExpire,
       SExpireClose, SClose, SDisconnected, SRestart, LoopDown, BindingDown, ServerDown, connVars
  <2>4. ASSUME NEW k \in DOMAIN toServer', toServer'[k].type = "hello"
        PROVE  Current(toServer'[k])
    <3>1. CASE UNCHANGED toServer
      BY <2>1, <2>4, <3>1 DEF HellosCurrent
    <3>2. CASE toServer # <<>> /\ toServer' = Tail(toServer)
      <4>1. k + 1 \in DOMAIN toServer /\ toServer'[k] = toServer[k + 1]
        BY <1>0, <2>4, <3>2, Queues
      <4> QED BY <2>1, <2>4, <4>1 DEF HellosCurrent
    <3> QED BY <2>3, <2>4, <3>1, <3>2
  <2>5. ASSUME sConn' = "accept", sPc' \in {"check", "bind", "attach"}
        PROVE  Current(sHello')
    <3>1. CASE SReadHello
      <4>1. CASE sPc' = sPc /\ sHello' = sHello /\ sPc = "hello"
        BY <2>5, <4>1
      <4>2. CASE toServer # <<>> /\ Head(toServer).type = "hello" /\ sHello' = Head(toServer)
        <5>1. 1 \in DOMAIN toServer /\ toServer[1] = Head(toServer)
          BY <1>0, <4>2, Queues
        <5> QED BY <2>1, <4>2, <5>1 DEF HellosCurrent
      <4> QED BY <3>1, <4>1, <4>2 DEF SReadHello
    <3>2. CASE sConn = "accept" /\ sPc \in {"check", "bind", "attach"} /\ sHello' = sHello
      BY <2>1, <3>2 DEF HellosCurrent
    <3> QED BY <1>3, <2>5, <3>1, <3>2
            DEF ServerStep, SAccept, SReadFailed, SBusy, SResume, SCreate, SBind, SBindRefused,
                SAttach, BindFailed, LoopAgain, SHelloInBinding, SSendReply, SRcvClose, SFail,
                SExpire, SExpireClose, SClose, SDisconnected, SRestart, BindingDown, ServerDown,
                loopVars, connVars
  <2> QED BY <2>2, <2>4, <2>5 DEF Current
<1> QED BY <1>1, <1>2, <1>3, Steps

\* A step of the client or of the streams makes nobody a server.
LEMMA ServingKept ==
    ASSUME Phases, ClientStep \/ Traffic, up', Serving'
    PROVE  Serving
<1>1. CASE ClientStep
  <2>1. s' = s /\ sPc' = sPc
    BY <1>1, Frames DEF loopVars
  <2>2. sConn' \in {"accept", "bound"} => sConn = sConn'
    BY <1>1, ClientStays DEF CHello, CTraffic, Deliver, connVars
  <2> QED BY <2>1, <2>2 DEF Serving, SLive
<1>2. CASE Traffic
  BY <1>2, Frames, TrafficFields DEF Serving, SLive, loopVars, connVars
<1> QED BY <1>1, <1>2

LEMMA NextAnswering ==
    ASSUME Resumable, Next
    PROVE  Answering'
<1> USE DEF Resumable
<1> SUFFICES ASSUME up', ~ doubt', cPhase' = "hello", Serving'
             PROVE  /\ s'.id = c'.id /\ s'.base = c'.rx /\ c'.rx <= s'.next
                    /\ \E k \in DOMAIN toClient' : toClient'[k] = HelloAck(s'.rx)
  BY DEF Answering, HelloAck
<1>0. toClient \in Seq(Packets) /\ c.rx \in Nat /\ s.rx \in Nat /\ s.next \in Nat
  BY Heads DEF Phases, Types, BleTypes
<1>1. CASE ClientStep
  <2>1. Serving /\ s' = s
    BY <1>1, ServingKept, Frames
  <2>2. ~ CConnect
    BY <2>1, Connects DEF Serving, SLive
  <2>3. /\ up /\ ~ doubt /\ c'.id = c.id /\ c'.rx = c.rx /\ cPhase = "hello"
        /\ toClient' = toClient \/ (toClient # <<>> /\ CSkip)
    BY <1>1, <2>2, ClientStays, DoubtStays
  <2>4. PICK k \in DOMAIN toClient : toClient[k] = HelloAck(s.rx)
    BY <2>1, <2>3 DEF Answering
  <2>5. \E j \in DOMAIN toClient' : toClient'[j] = HelloAck(s'.rx)
    <3>1. CASE toClient' = toClient
      BY <2>1, <2>4, <3>1
    <3>2. CASE toClient # <<>> /\ CSkip
      <4>1. Head(toClient) # HelloAck(s.rx) /\ toClient' = Tail(toClient)
        BY <3>2 DEF CSkip, ClosePacket, HelloAck
      <4>2. k # 1
        BY <1>0, <2>4, <3>2, <4>1, Queues
      <4>3. k - 1 \in DOMAIN toClient' /\ toClient'[k - 1] = toClient[k]
        BY <1>0, <3>2, <4>1, <4>2, Queues
      <4> QED BY <2>1, <2>4, <4>3
    <3> QED BY <2>3, <3>1, <3>2
  <2> QED BY <2>1, <2>3, <2>5 DEF Answering
<1>2. CASE Traffic
  <2>1. Serving /\ UNCHANGED <<up, cPhase, toClient>> /\ ~ doubt
    BY <1>2, ServingKept, Frames, NoDoubt DEF bleVars
  <2>2. ~ BothLive
    BY <2>1 DEF BothLive, CLive, Phases, ClientPhases
  <2>3. /\ c'.id = c.id /\ s'.id = s.id /\ c'.rx = c.rx /\ s'.base = s.base /\ s'.rx = s.rx
        /\ s'.next = s.next \/ s'.next = s.next + 1
    BY <1>2, <2>2, TrafficFields DEF ToServer, ToClient, AckToClient, AckToServer
  <2> QED BY <1>0, <2>1, <2>3 DEF Answering
<1>3. CASE ServerStep
  <2>1. up /\ ~ doubt /\ c' = c /\ cPhase = "hello"
    BY <1>3, ServerStays, NoDoubt DEF clientVars
  <2>2. CASE SBind
    <3>1. /\ s'.id = s.id /\ s'.base = sHello.expected /\ s'.next = s.next /\ s'.rx = s.rx
      <4>1. s \in Sessions /\ sHello.expected \in Offsets
        BY Heads DEF Phases, Types, ServerTypes
      <4> QED BY <2>2, <4>1, ReleasedFields DEF SBind
    <3>2. sHello.id = c.id /\ sHello.expected = c.rx /\ s.id = sHello.id /\ c.rx <= s.next
      BY <2>1, <2>2 DEF SBind, HellosCurrent, Current, Holders, Retained
    <3>3. toClient' = Append(toClient, HelloAck(s.rx)) /\ HelloAck(s.rx) \in Packets
      BY <2>1, <2>2, PacketTypes DEF SBind, Acknowledge, Notify, Phases, Types, ServerTypes, Sessions
    <3>4. \E k \in DOMAIN toClient' : toClient'[k] = HelloAck(s.rx)
      BY <1>0, <3>3, Queues
    <3> QED BY <2>1, <3>1, <3>2, <3>4
  <2>3. CASE ~ SBind
    <3>1. /\ Serving /\ s'.id = s.id /\ s'.next = s.next /\ s'.rx = s.rx
          /\ \/ s'.base = s.base
             \/ \E k \in DOMAIN toServer :
                   /\ toServer[k].type = "hello" /\ s'.base = toServer[k].expected
                   /\ Retained(s, toServer[k].expected)
      BY <1>3, <2>3, ServingStays
    <3>2. s'.base = c.rx
      BY <2>1, <3>1 DEF Answering, HellosCurrent, Current
    <3>3. PICK k \in DOMAIN toClient : toClient[k] = HelloAck(s.rx)
      BY <2>1, <3>1 DEF Answering
    <3>4. k \in DOMAIN toClient' /\ toClient'[k] = toClient[k]
      BY <1>0, <1>3, ServerStays, Queues
    <3>5. toClient'[k] = HelloAck(s'.rx)
      BY <3>1, <3>3, <3>4
    <3> QED BY <2>1, <3>1, <3>2, <3>4, <3>5 DEF Answering
  <2> QED BY <2>2, <2>3
<1> QED BY <1>1, <1>2, <1>3, Steps

LEMMA NextAgreed ==
    ASSUME Resumable, Next
    PROVE  Agreed'
<1> USE DEF Resumable
<1> SUFFICES ASSUME up', ~ doubt', c'.bound, toClient' = <<>>, Serving'
             PROVE  /\ c'.id = s'.id
                    /\ c'.base <= s'.rx /\ s'.rx <= c'.next
                    /\ s'.base <= c'.rx /\ c'.rx <= s'.next
  BY DEF Agreed
<1>0. /\ toClient \in Seq(Packets)
      /\ c.rx \in Nat /\ c.base \in Nat /\ c.next \in Nat
      /\ s.rx \in Nat /\ s.base \in Nat /\ s.next \in Nat
  BY Heads DEF Phases, Types, BleTypes
<1>1. CASE ClientStep
  <2>1. Serving /\ s' = s
    BY <1>1, ServingKept, Frames
  <2>2. ~ CConnect /\ ~ doubt
    BY <2>1, Connects, DoubtStays DEF Serving, SLive
  <2>3. CASE /\ up /\ cPhase = "hello" /\ toClient # <<>>
             /\ Head(toClient).type = "ack" /\ toClient' = Tail(toClient)
             /\ c'.id = c.id /\ c'.base = Head(toClient).expected /\ c'.next = c.next /\ c'.rx = c.rx
             /\ Retained(c, Head(toClient).expected)
    <3>1. PICK k \in DOMAIN toClient : toClient[k] = HelloAck(s.rx)
      BY <2>1, <2>2, <2>3 DEF Answering
    <3>2. k = 1
      BY <1>0, <2>3, Queues
    <3>3. Head(toClient) = HelloAck(s.rx)
      BY <1>0, <2>3, <3>1, <3>2, Queues
    <3>4. Head(toClient).expected = s.rx
      BY <3>3 DEF HelloAck
    <3> QED BY <1>0, <2>1, <2>2, <2>3, <3>4 DEF Answering, Retained
  <2>4. CASE /\ up /\ c'.id = c.id /\ c'.base = c.base /\ c'.next = c.next /\ c'.rx = c.rx
             /\ (c'.bound => c.bound)
             /\ toClient' = toClient \/ (cPhase = "hello" /\ toClient # <<>> /\ CSkip)
    <3>1. c.bound /\ toClient = <<>>
      BY <2>4 DEF Phases, ClientPhases
    <3> QED BY <2>1, <2>2, <2>4, <3>1 DEF Agreed
  <2> QED BY <1>1, <2>2, <2>3, <2>4, ClientStays
<1>2. CASE Traffic
  <2>1. Serving /\ UNCHANGED <<up, toClient>> /\ ~ doubt
    BY <1>2, ServingKept, Frames, NoDoubt DEF bleVars
  <2>2. c.bound /\ c.id = s.id /\ c.base <= s.rx /\ s.rx <= c.next /\ s.base <= c.rx /\ c.rx <= s.next
    BY <1>2, <2>1, TrafficFields DEF Agreed
  <2> QED BY <1>0, <1>2, <2>2, TrafficFields DEF ToServer, ToClient
<1>3. CASE ServerStep
  <2>1. up /\ ~ doubt /\ c' = c
    BY <1>3, ServerStays, NoDoubt DEF clientVars
  <2>2. toClient = <<>> /\ toClient' = toClient
    BY <1>0, <1>3, ServerStays, Queues
  <2>3. ~ SBind
    <3>1. SBind => toClient' = Append(toClient, HelloAck(s.rx)) /\ HelloAck(s.rx) \in Packets
      BY <2>1, PacketTypes DEF SBind, Acknowledge, Notify, Phases, Types, ServerTypes, Sessions
    <3> QED BY <1>0, <3>1, Queues
  <2>4. /\ Serving /\ s'.id = s.id /\ s'.next = s.next /\ s'.rx = s.rx
        /\ \/ s'.base = s.base
           \/ \E k \in DOMAIN toServer :
                 /\ toServer[k].type = "hello" /\ s'.base = toServer[k].expected
                 /\ Retained(s, toServer[k].expected)
    BY <1>3, <2>3, ServingStays
  <2> QED BY <2>1, <2>2, <2>4 DEF Agreed, HellosCurrent, Current
<1> QED BY <1>1, <1>2, <1>3, Steps

\* HELLO and HELLO_ACK always leave the two ends of a connection with the same
\* session and with offsets that both can serve, unless a HELLO_ACK to it was
\* lost or it was made before the server had heard of the end of the one before:
\* for every number of identifiers, of late disconnect events and of bytes, and
\* whatever other packets are lost. TLC shows both exceptions needed (AttachedAgree).
THEOREM ResumptionSound == Spec => []ResumeSound
<1>1. Init => Resumable
  BY InitPhases, NewSessionFields
     DEF Init, Resumable, Paired, Holders, HellosCurrent, Answering, Agreed, Serving, SLive
<1>2. Resumable /\ [Next]_vars => Resumable'
  <2>1. CASE UNCHANGED vars
    BY <2>1, NextPhases DEF vars, clientVars, bleVars, loopVars, connVars, Resumable, Paired, Holders,
       HellosCurrent, Current, Answering, Agreed, Serving, SLive, HelloAck
  <2>2. CASE Next
    BY <2>2, NextPhases, NextPaired, NextHolders, NextHellosCurrent, NextAnswering, NextAgreed
       DEF Resumable
  <2> QED BY <2>1, <2>2
<1>3. Resumable => ResumeSound
  BY DEF Resumable, Phases, ServerPhases, Agreed, Serving, BothLive, CLive, SLive, AttachedAgree,
         ResumeSound
<1> QED BY <1>1, <1>2, <1>3, PTL DEF Spec
=============================================================================
