----------------------------- MODULE LinkStream -----------------------------
(***************************************************************************)
(* One direction of a resumable BLE session (src/internal/link/session.go):*)
(* the bytes one Session's Write accepts, the replay buffer they wait in,  *)
(* the DATA packets cut from it for the current binding, the peer Session's*)
(* reassembly, its cumulative ACKs, and the handshake offset that lets a   *)
(* replacement binding continue the same stream.                           *)
(*                                                                         *)
(* A session has the two directions at once; they share only the binding   *)
(* (whose loss is FailSender and FailReceiver here) and the send loop's    *)
(* priorities, so each direction is this module with the roles swapped.    *)
(*                                                                         *)
(* The byte at stream offset n is written as the number n, so that a byte  *)
(* delivered at a wrong place is visible. Times are abstracted to choices: *)
(* an armed timer may fire at any moment, a dirty ACK may leave at any     *)
(* moment after it became dirty.                                           *)
(*                                                                         *)
(* A packet in flight may be lost, overtaken, or delivered several times:  *)
(* the sets below hold copies of equal packets (an original and its        *)
(* retransmission) as one element. Packets may also outlive a binding,     *)
(* because the server side reuses one packet connection across HELLOs      *)
(* (ensureConnection in src/internal/ble/server_supported.go).             *)
(***************************************************************************)
EXTENDS Integers, Sequences, FiniteSets, FiniteSetsExt

CONSTANTS
    ReplayWindow,   \* Config.ReplayWindow of the sending session, in bytes
    RxWindow,       \* Config.ReplayWindow of the receiving session (not negotiated)
    LiveWindow,     \* liveWriteWindow
    Sizes,          \* payload sizes (packet MTU - 9) a binding may negotiate
    InitFlight,     \* initialFlightWindowPackets
    MaxFlight,      \* maxFlightWindowPackets
    FastAcks,       \* fastRetransmitACKs
    MaxSeq,         \* ^uint64(0), the largest stream offset
    MaxData,        \* bound: distinct DATA packets in flight
    MaxAcks,        \* bound: distinct ACK packets in flight
    MaxHellos       \* bound: distinct handshake offsets in flight

ASSUME WindowAssumption ==
    /\ ReplayWindow \in Nat \ {0}
    /\ RxWindow \in Nat \ {0}
    /\ LiveWindow \in Nat \ {0}
    /\ MaxSeq \in Nat
    /\ FastAcks \in Nat \ {0}

ASSUME FlightAssumption ==
    /\ InitFlight \in Nat \ {0}
    /\ MaxFlight \in Nat
    /\ InitFlight <= MaxFlight

\* normalizeMTU keeps a packet's MTU in 20..244, far below any replay window.
ASSUME SizesAssumption ==
    /\ Sizes # {}
    /\ Sizes \subseteq 1..RxWindow

VARIABLES
    \* the sending session
    txBase,         \* oldest offset the peer has not acknowledged
    txNext,         \* next offset Write will use
    txBuf,          \* retained bytes txBase .. txNext-1
    reconciled,     \* a handshake adopted the peer's offset; attach is next
    \* its current binding (current != nil iff txBound)
    txBound, sendNext, armed, duplicateACK, flightPackets, payloadSize,
    \* the receiving session
    rxBound,        \* current != nil
    rxNext,         \* next offset expected
    rxBuf,          \* received in order, not yet read
    rxPending,      \* fragments ahead of a gap, by offset
    rxPendingBytes, \* the counter the code keeps beside the map
    ackDirty,       \* a cumulative ACK is owed
    got,            \* every byte Read has returned, in order
    \* packets in flight
    data, acks, hellos

sender   == <<txBase, txNext, txBuf, reconciled>>
binding  == <<txBound, sendNext, armed, duplicateACK, flightPackets, payloadSize>>
receiver == <<rxBound, rxNext, rxBuf, rxPending, rxPendingBytes, ackDirty, got>>
net      == <<data, acks, hellos>>
vars     == <<sender, binding, receiver, net>>

NoPending == [s \in {} |-> <<>>]

Init ==
    /\ txBase = 0 /\ txNext = 0 /\ txBuf = <<>> /\ reconciled = FALSE
    /\ txBound = FALSE /\ sendNext = 0 /\ armed = FALSE
    /\ duplicateACK = 0 /\ flightPackets = InitFlight /\ payloadSize \in Sizes
    /\ rxBound = FALSE /\ rxNext = 0 /\ rxBuf = <<>>
    /\ rxPending = NoPending /\ rxPendingBytes = 0
    /\ ackDirty = FALSE /\ got = <<>>
    /\ data = {} /\ acks = {} /\ hellos = {}

\* A packet is taken from the network; another copy of it may remain.
Take(set, packet, rest) == rest \in {set, set \ {packet}}

Lesser(a, b) == IF a <= b THEN a ELSE b
Greater(a, b) == IF a >= b THEN a ELSE b

-----------------------------------------------------------------------------
(* The application's ends of the stream.                                   *)

WriteSpace ==
    LET room == ReplayWindow - Len(txBuf)
    IN  IF txBound THEN Lesser(room, LiveWindow - Len(txBuf)) ELSE room

\* One turn of Write's loop: a chunk that fits is retained for replay. At the
\* end of the sequence space Write returns ErrSequenceExhausted instead.
Write(n) ==
    /\ n <= WriteSpace
    /\ n <= MaxSeq - txNext
    /\ txBuf' = txBuf \o [i \in 1..n |-> txNext + i - 1]
    /\ txNext' = txNext + n
    /\ UNCHANGED <<txBase, reconciled, binding, receiver, net>>

\* Read copies out of the contiguous buffer, bound or not.
Read(n) ==
    /\ n <= Len(rxBuf)
    /\ got' = got \o SubSeq(rxBuf, 1, n)
    /\ rxBuf' = SubSeq(rxBuf, n + 1, Len(rxBuf))
    /\ UNCHANGED <<sender, binding, net, rxBound, rxNext, rxPending, rxPendingBytes, ackDirty>>

-----------------------------------------------------------------------------
(* The sending session's packets.                                          *)

reduceFlightWindow(flight) == Greater(InitFlight, flight \div 2)

\* Fault: the first packet of a burst does not start the timer.
EmitDataUntimed(start, timer, flight) ==
    LET windowEnd == Lesser(txNext, txBase + payloadSize * flight)
        n == Lesser(payloadSize, windowEnd - start)
        first == start - txBase + 1
    IN  /\ start < windowEnd
        /\ data' = data \cup {[seq |-> start, payload |-> SubSeq(txBuf, first, first + n - 1)]}
        /\ Cardinality(data') <= MaxData
        /\ sendNext' = start + n
        /\ armed' = timer

\* The DATA packet nextPacketLocked cuts at offset start, if the flight window
\* has room for one there; resetting the cursor alone sends nothing.
EmitData(start, timer, flight) ==
    LET windowEnd == Lesser(txNext, txBase + payloadSize * flight)
        n == Lesser(payloadSize, windowEnd - start)
        first == start - txBase + 1
    IN  IF start < windowEnd
        THEN /\ data' = data \cup {[seq |-> start, payload |-> SubSeq(txBuf, first, first + n - 1)]}
             /\ Cardinality(data') <= MaxData
             /\ sendNext' = start + n
             /\ armed' = (timer \/ start = txBase)
        ELSE /\ data' = data
             /\ sendNext' = start
             /\ armed' = timer

\* nextPacketLocked with no retransmission due. A cursor the handshake left
\* behind the base restarts there with its timer and duplicate count cleared.
SendData ==
    /\ txBound
    /\ LET stray == sendNext < txBase \/ sendNext > txNext
       IN  /\ stray \/ sendNext < Lesser(txNext, txBase + payloadSize * flightPackets)
           /\ EmitData(IF stray THEN txBase ELSE sendNext, armed /\ ~stray, flightPackets)
           /\ duplicateACK' = IF stray THEN 0 ELSE duplicateACK
    /\ UNCHANGED <<sender, receiver, acks, hellos, txBound, flightPackets, payloadSize>>

\* nextPacketLocked when the retransmission timer has run out: go back to the
\* base, re-arm, shrink the flight window, and send the first packet again.
RetransmitTimeout ==
    /\ txBound
    /\ sendNext > txBase /\ sendNext <= txNext
    /\ armed
    /\ flightPackets' = reduceFlightWindow(flightPackets)
    /\ EmitData(txBase, TRUE, flightPackets')
    /\ duplicateACK' = 0
    /\ UNCHANGED <<sender, receiver, acks, hellos, txBound, payloadSize>>

-----------------------------------------------------------------------------
(* acceptDataLocked: what the receiving session does with a DATA packet.   *)

EndOf(p) == p.seq + Len(p.payload)

\* The offset of the first byte of p that is not delivered yet.
NewSeq(p) == Greater(p.seq, rxNext)

\* Fault: a partially delivered packet is appended whole.
WholePayload(p) == p.payload

\* The unseen suffix of a partially delivered packet.
NewPayload(p) == SubSeq(p.payload, NewSeq(p) - p.seq + 1, Len(p.payload))

FragmentEnd(pending, s) == s + Len(pending[s])

Overlapping(p) ==
    {s \in DOMAIN rxPending : NewSeq(p) < FragmentEnd(rxPending, s) /\ s < EndOf(p)}

OverlapBytes(p) ==
    MapThenSumSet(LAMBDA s : Lesser(EndOf(p), FragmentEnd(rxPending, s)) - s, Overlapping(p))

\* The gap-filling packet disagrees with a retained fragment.
Conflicts(p) ==
    /\ NewSeq(p) = rxNext
    /\ \E s \in Overlapping(p) :
          \E o \in s..(Lesser(EndOf(p), FragmentEnd(rxPending, s)) - 1) :
              p.payload[o - p.seq + 1] # rxPending[s][o - s + 1]

\* Fault: fragments do not count against the receive window.
RejectsIgnoringPending(p) ==
    \/ EndOf(p) <= rxNext
    \/ EndOf(p) - rxNext > RxWindow
    \/ NewSeq(p) # rxNext /\ Overlapping(p) # {}
    \/ Len(rxBuf) + Len(NewPayload(p)) > RxWindow
    \/ NewSeq(p) > rxNext /\ Cardinality(DOMAIN rxPending) >= MaxFlight

\* Fault: a packet is accepted however far ahead of the gap it lies.
RejectsIgnoringDistance(p) ==
    \/ EndOf(p) <= rxNext
    \/ NewSeq(p) # rxNext /\ Overlapping(p) # {}
    \/ Len(rxBuf) + rxPendingBytes + Len(NewPayload(p)) - OverlapBytes(p) > RxWindow
    \/ NewSeq(p) > rxNext /\ Cardinality(DOMAIN rxPending) >= MaxFlight

\* The duplicates, overlaps and window overruns that are dropped and answered
\* with an immediate cumulative ACK.
Rejects(p) ==
    \/ EndOf(p) <= rxNext
    \/ EndOf(p) - rxNext > RxWindow
    \/ NewSeq(p) # rxNext /\ Overlapping(p) # {}
    \/ ~ Conflicts(p)
       /\ Len(rxBuf) + rxPendingBytes + Len(NewPayload(p)) - OverlapBytes(p) > RxWindow
    \/ NewSeq(p) > rxNext /\ Cardinality(DOMAIN rxPending) >= MaxFlight

\* The errors acceptDataLocked returns; handlePacket's caller then fails the
\* binding (FailReceiver).
ReplayError(p) == EndOf(p) > MaxSeq \/ (~ Rejects(p) /\ Conflicts(p))

\* Fragments after a packet ending at end has been delivered: covered ones are
\* gone, one that reaches past end keeps its suffix.
Trim(pending, end) ==
    LET live == {s \in DOMAIN pending : FragmentEnd(pending, s) > end}
    IN  [t \in {Greater(s, end) : s \in live} |->
            LET s == CHOOSE s \in live : Greater(s, end) = t
            IN  SubSeq(pending[s], t - s + 1, Len(pending[s]))]

Holds(pending, s, o) == s <= o /\ o < FragmentEnd(pending, s)
Covers(pending, o) == \E s \in DOMAIN pending : Holds(pending, s, o)

\* The drain loop stops at the first offset no fragment holds.
DrainsTo(pending, from, to) ==
    /\ ~ Covers(pending, to)
    /\ \A o \in from..(to - 1) : Covers(pending, o)

DrainedBytes(pending, from, to) ==
    [i \in 1..(to - from) |->
        LET s == CHOOSE s \in DOMAIN pending : Holds(pending, s, from + i - 1)
        IN  pending[s][from + i - s]]

PendingFrom(pending, o) == [s \in {t \in DOMAIN pending : t >= o} |-> pending[s]]

TotalBytes(pending, starts) == MapThenSumSet(LAMBDA s : Len(pending[s]), starts)

\* Fault: the kept suffix is not counted again.
CountWithoutSuffix(end, kept, to) ==
    rxPendingBytes
        - TotalBytes(rxPending, {s \in DOMAIN rxPending : s < end})
        - TotalBytes(kept, {s \in DOMAIN kept : s < to})

\* How the counter changes: covered fragments leave, the kept suffix returns,
\* drained fragments leave.
CountAfter(end, kept, to) ==
    rxPendingBytes
        - TotalBytes(rxPending, {s \in DOMAIN rxPending : s < end})
        + TotalBytes(kept, DOMAIN kept \ DOMAIN rxPending)
        - TotalBytes(kept, {s \in DOMAIN kept : s < to})

RcvRejected(p) ==
    /\ rxBound
    /\ Rejects(p) /\ ~ ReplayError(p)
    /\ Take(data, p, data')
    /\ ackDirty' = TRUE
    /\ UNCHANGED <<sender, binding, acks, hellos, rxBound, rxNext, rxBuf, rxPending, rxPendingBytes, got>>

\* A packet beyond a gap is copied aside.
RcvBuffered(p) ==
    /\ rxBound
    /\ ~ Rejects(p) /\ ~ ReplayError(p)
    /\ p.seq > rxNext
    /\ Take(data, p, data')
    /\ rxPending' = [s \in DOMAIN rxPending \cup {p.seq} |->
                        IF s = p.seq THEN p.payload ELSE rxPending[s]]
    /\ rxPendingBytes' = rxPendingBytes + Len(p.payload)
    /\ ackDirty' = TRUE
    /\ UNCHANGED <<sender, binding, acks, hellos, rxBound, rxNext, rxBuf, got>>

\* The packet continues the stream: it and the fragments it connects move to
\* the contiguous buffer. A conflicting replay fails the binding instead.
RcvAdvance(p) ==
    /\ rxBound
    /\ ~ Rejects(p) /\ ~ ReplayError(p)
    /\ p.seq <= rxNext
    /\ Take(data, p, data')
    /\ LET kept == Trim(rxPending, EndOf(p))
       IN  \E to \in EndOf(p)..(rxNext + RxWindow) :
              /\ DrainsTo(kept, EndOf(p), to)
              /\ rxNext' = to
              /\ rxBuf' = rxBuf \o NewPayload(p) \o DrainedBytes(kept, EndOf(p), to)
              /\ rxPending' = PendingFrom(kept, to)
              /\ rxPendingBytes' = CountAfter(EndOf(p), kept, to)
    /\ ackDirty' = TRUE
    /\ UNCHANGED <<sender, binding, acks, hellos, rxBound, got>>

-----------------------------------------------------------------------------
(* Cumulative acknowledgements.                                            *)

\* Fault: the ACK covers the bytes held ahead of the gap as well.
SendAckOfEverything ==
    /\ rxBound
    /\ ackDirty
    /\ ackDirty' = FALSE
    /\ acks' = acks \cup {rxNext + rxPendingBytes}
    /\ Cardinality(acks') <= MaxAcks
    /\ UNCHANGED <<sender, binding, data, hellos, rxBound, rxNext, rxBuf, rxPending, rxPendingBytes, got>>

\* Fault: the ACK names the last byte it wants confirmed, one too many.
SendAckOneTooFar ==
    /\ rxBound
    /\ ackDirty
    /\ ackDirty' = FALSE
    /\ acks' = acks \cup {rxNext + 1}
    /\ Cardinality(acks') <= MaxAcks
    /\ UNCHANGED <<sender, binding, data, hellos, rxBound, rxNext, rxBuf, rxPending, rxPendingBytes, got>>

\* The batch of packets or the delay that makes a dirty ACK due is a choice.
SendAck ==
    /\ rxBound
    /\ ackDirty
    /\ ackDirty' = FALSE
    /\ acks' = acks \cup {rxNext}
    /\ Cardinality(acks') <= MaxAcks
    /\ UNCHANGED <<sender, binding, data, hellos, rxBound, rxNext, rxBuf, rxPending, rxPendingBytes, got>>

validatePeerExpected(e) == txBase <= e /\ e <= txNext

\* reconcilePeerLocked on a valid offset: the peer has the bytes below it.
reconcilePeer(e) ==
    /\ txBase' = e
    /\ txBuf' = SubSeq(txBuf, e - txBase + 1, Len(txBuf))
    /\ UNCHANGED txNext

RcvAckStale(e) ==
    /\ txBound
    /\ e < txBase
    /\ Take(acks, e, acks')
    /\ UNCHANGED <<sender, binding, receiver, data, hellos>>

\* Fault: every advancing ACK stops the timer.
RcvAckAdvanceStopsTimer(e) ==
    /\ txBound
    /\ validatePeerExpected(e) /\ e > txBase
    /\ Take(acks, e, acks')
    /\ reconcilePeer(e)
    /\ duplicateACK' = 0
    /\ flightPackets' = Lesser(MaxFlight, flightPackets + 1)
    /\ sendNext' = Greater(sendNext, e)
    /\ armed' = FALSE
    /\ UNCHANGED <<reconciled, txBound, payloadSize, receiver, data, hellos>>

\* handleAckLocked, first half: the base moves, so the flight window grows and
\* the timer restarts for what is still unacknowledged.
RcvAckAdvance(e) ==
    /\ txBound
    /\ validatePeerExpected(e) /\ e > txBase
    /\ Take(acks, e, acks')
    /\ reconcilePeer(e)
    /\ duplicateACK' = 0
    /\ flightPackets' = Lesser(MaxFlight, flightPackets + 1)
    /\ sendNext' = Greater(sendNext, e)
    /\ armed' = (sendNext' > e)
    /\ UNCHANGED <<reconciled, txBound, payloadSize, receiver, data, hellos>>

\* handleAckLocked, second half: repeated ACKs of the base mean a gap, and
\* enough of them restart sending at the base without waiting for the timer.
RcvAckDuplicate(e) ==
    /\ txBound
    /\ e = txBase
    /\ Take(acks, e, acks')
    /\ IF sendNext <= txBase
       THEN UNCHANGED <<sendNext, armed, duplicateACK, flightPackets>>
       ELSE IF duplicateACK + 1 < FastAcks
       THEN /\ duplicateACK' = duplicateACK + 1
            /\ UNCHANGED <<sendNext, armed, flightPackets>>
       ELSE /\ sendNext' = txBase
            /\ armed' = TRUE
            /\ duplicateACK' = 0
            /\ flightPackets' = reduceFlightWindow(flightPackets)
    /\ UNCHANGED <<sender, txBound, payloadSize, receiver, data, hellos>>

-----------------------------------------------------------------------------
(* Handshakes and bindings.                                                *)

\* HELLO or HELLO_ACK carries the receiver's cumulative offset, encoded now.
SendHello ==
    /\ hellos' = hellos \cup {rxNext}
    /\ Cardinality(hellos') <= MaxHellos
    /\ UNCHANGED <<sender, binding, receiver, data, acks>>

\* BindClient or BindServer adopts the peer's offset. The old binding, if the
\* session still has one, keeps its cursor until attach replaces it.
Reconcile(e) ==
    /\ validatePeerExpected(e)
    /\ Take(hellos, e, hellos')
    /\ reconcilePeer(e)
    /\ reconciled' = TRUE
    /\ UNCHANGED <<binding, receiver, data, acks>>

\* A bind attempt whose peer offset is outside the retained range gives up.
RefuseHello(e) ==
    /\ ~ validatePeerExpected(e)
    /\ Take(hellos, e, hellos')
    /\ UNCHANGED <<sender, binding, receiver, data, acks>>

\* The HELLO_ACK could not be sent, or attach found the session closed.
AbandonHandshake ==
    /\ reconciled
    /\ reconciled' = FALSE
    /\ UNCHANGED <<txBase, txNext, txBuf, binding, receiver, net>>

\* attach on the sending side: replay from the base, with the new packet size.
AttachSender(size) ==
    /\ reconciled
    /\ reconciled' = FALSE
    /\ txBound' = TRUE
    /\ sendNext' = txBase
    /\ armed' = FALSE
    /\ duplicateACK' = 0
    /\ flightPackets' = InitFlight
    /\ payloadSize' = size
    /\ UNCHANGED <<txBase, txNext, txBuf, receiver, net>>

\* attach on the receiving side: fragments of other packet sizes are dropped.
AttachReceiver ==
    /\ rxBound' = TRUE
    /\ rxPending' = NoPending
    /\ rxPendingBytes' = 0
    /\ UNCHANGED <<sender, binding, net, rxNext, rxBuf, ackDirty, got>>

\* A HELLO that reaches a live binding: the offset is adopted and the packet
\* size may shrink, while the cursor stays where it is.
HelloInBinding(e, size) ==
    /\ txBound
    /\ validatePeerExpected(e)
    /\ size <= payloadSize
    /\ Take(hellos, e, hellos')
    /\ reconcilePeer(e)
    /\ payloadSize' = size
    /\ UNCHANGED <<reconciled, txBound, sendNext, armed, duplicateACK, flightPackets, receiver, data, acks>>

\* failBinding, for any reason: a transport error, the heartbeat, or an error
\* handlePacket returned. The fields of the dead binding are never read again.
FailSender ==
    /\ txBound
    /\ txBound' = FALSE
    /\ sendNext' = 0 /\ armed' = FALSE /\ duplicateACK' = 0
    /\ flightPackets' = InitFlight
    /\ UNCHANGED <<sender, payloadSize, receiver, net>>

\* Fault: losing the binding drops what the reader has not taken yet.
FailReceiverDropsUnread ==
    /\ rxBound
    /\ rxBound' = FALSE
    /\ rxNext' = Len(got) /\ rxBuf' = <<>>
    /\ UNCHANGED <<sender, binding, net, rxPending, rxPendingBytes, ackDirty, got>>

FailReceiver ==
    /\ rxBound
    /\ rxBound' = FALSE
    /\ UNCHANGED <<sender, binding, net, rxNext, rxBuf, rxPending, rxPendingBytes, ackDirty, got>>

Lose ==
    /\ \/ (\E p \in data : data' = data \ {p}) /\ UNCHANGED <<acks, hellos>>
       \/ (\E e \in acks : acks' = acks \ {e}) /\ UNCHANGED <<data, hellos>>
       \/ (\E e \in hellos : hellos' = hellos \ {e}) /\ UNCHANGED <<data, acks>>
    /\ UNCHANGED <<sender, binding, receiver>>

-----------------------------------------------------------------------------
RcvData == \E p \in data : RcvRejected(p) \/ RcvBuffered(p) \/ RcvAdvance(p)
RcvAck  == \E e \in acks : RcvAckStale(e) \/ RcvAckAdvance(e) \/ RcvAckDuplicate(e)

Next ==
    \/ \E n \in 1..ReplayWindow : Write(n)
    \/ \E n \in 1..RxWindow : Read(n)
    \/ SendData \/ RetransmitTimeout \/ SendAck \/ SendHello
    \/ RcvData \/ RcvAck
    \/ \E e \in hellos : Reconcile(e) \/ RefuseHello(e)
    \/ \E e \in hellos, size \in Sizes : HelloInBinding(e, size)
    \/ \E size \in Sizes : AttachSender(size)
    \/ AttachReceiver \/ AbandonHandshake
    \/ FailSender \/ FailReceiver \/ Lose

Spec == Init /\ [][Next]_vars

(***************************************************************************)
(* Fairness. The send loop, the reader and the reconnect loops run forever *)
(* (weak fairness); a packet sent again and again is delivered in the end  *)
(* (strong fairness); copies do not linger in the network.                 *)
(***************************************************************************)
Fairness ==
    /\ WF_vars(SendData) /\ WF_vars(RetransmitTimeout) /\ WF_vars(SendAck)
    /\ WF_vars(\E n \in 1..RxWindow : Read(n))
    /\ SF_vars(\E p \in data : RcvAdvance(p))
    /\ SF_vars(\E p \in data : RcvRejected(p) /\ data' # data)
    /\ SF_vars(\E e \in acks : RcvAckAdvance(e))
    /\ WF_vars(RcvData /\ data' # data) /\ WF_vars(RcvAck /\ acks' # acks)
    /\ WF_vars(~ txBound /\ SendHello)
    /\ WF_vars(\E e \in hellos : RefuseHello(e) /\ hellos' # hellos)
    /\ SF_vars(~ txBound /\ \E e \in hellos : Reconcile(e))
    /\ SF_vars(~ txBound /\ \E size \in Sizes : AttachSender(size))
    /\ WF_vars(~ rxBound /\ AttachReceiver)

FairSpec == Spec /\ Fairness

-----------------------------------------------------------------------------
(* Properties.                                                             *)

\* Every variable has the type the code gives it (rxPendingBytes is determined
\* by FragmentsExact).
TypeOK ==
    /\ txBase \in Nat /\ txNext \in Nat /\ txBuf \in Seq(Nat)
    /\ reconciled \in BOOLEAN /\ txBound \in BOOLEAN
    /\ sendNext \in Nat /\ armed \in BOOLEAN /\ duplicateACK \in 0..(FastAcks - 1)
    /\ flightPackets \in InitFlight..MaxFlight /\ payloadSize \in Sizes
    /\ rxBound \in BOOLEAN /\ rxNext \in Nat /\ rxBuf \in Seq(Nat)
    /\ DOMAIN rxPending \subseteq Nat
    /\ \A s \in DOMAIN rxPending : rxPending[s] \in Seq(Nat)
    /\ ackDirty \in BOOLEAN /\ got \in Seq(Nat)
    /\ \A p \in data : p \in [seq : Nat, payload : Seq(Nat)]
    /\ acks \subseteq Nat /\ hellos \subseteq Nat

\* The sequence holds the bytes of the stream from offset from on.
StreamBytes(from, q) == \A i \in 1..Len(q) : q[i] = from + i - 1

\* What Read has returned and what it will return next is the written stream
\* itself, byte for byte, up to the cumulative offset: no byte is lost,
\* repeated or moved by replay, resegmentation or a change of binding.
ExactDelivery ==
    /\ Len(got) + Len(rxBuf) = rxNext
    /\ StreamBytes(0, got)
    /\ StreamBytes(Len(got), rxBuf)

\* Every byte written and not delivered is still held for replay, at the place
\* its offset says; the base never passes what the receiver has.
ReplayCovers ==
    /\ txBase <= rxNext /\ rxNext <= txNext
    /\ Len(txBuf) = txNext - txBase
    /\ StreamBytes(txBase, txBuf)

\* Retained fragments lie beyond the gap, do not overlap, and the byte counter
\* kept beside the map is exactly what they hold.
FragmentsExact ==
    /\ \A s \in DOMAIN rxPending : s > rxNext
    /\ \A s, t \in DOMAIN rxPending : s < t => FragmentEnd(rxPending, s) <= t
    /\ rxPendingBytes = TotalBytes(rxPending, DOMAIN rxPending)

\* A stalled reader costs each side at most one replay window of memory, and
\* the reassembly map at most the flight window's packets.
MemoryBound ==
    /\ Len(txBuf) <= ReplayWindow
    /\ Len(rxBuf) + rxPendingBytes <= RxWindow
    /\ Cardinality(DOMAIN rxPending) <= MaxFlight

\* Unacknowledged packets always have a retransmission timer running: the only
\* thing that recovers the last packet of a burst, or a lost last ACK.
RetransmitArmed == txBound /\ sendNext > txBase => armed

\* No packet of an intact peer, however late, is ever answered by failing the
\* binding: neither "conflicting replay data" nor an ACK out of range.
NoReplayError ==
    /\ \A p \in data : ~ ReplayError(p)
    /\ \A e \in acks : e <= txNext

\* Once the reader has caught up, the packet that closes the gap is accepted,
\* whatever fragments the window already holds.
GapFillFits ==
    rxBuf = <<>> => \A p \in data : p.seq <= rxNext /\ rxNext < EndOf(p) => ~ Rejects(p)

\* The replay protocol implements the promise of ByteStream, step by step.
Stream == INSTANCE ByteStream WITH written <- txNext, accepted <- rxNext, released <- txBase
StreamSpec == Stream!Spec

\* A step that drops or replaces a live binding.
Disturbs ==
    \/ FailSender \/ FailReceiver
    \/ rxBound /\ AttachReceiver
    \/ txBound /\ \E size \in Sizes : AttachSender(size)

\* If from some time on both ends keep the binding they have, every byte ever
\* written is read in the end: no loss pattern, stale offset, half-filled
\* window or change of packet size wedges the stream.
Delivered ==
    (<>[][~ Disturbs]_vars) => \A n \in 1..MaxSeq : (txNext >= n) ~> (Len(got) >= n)
=============================================================================
