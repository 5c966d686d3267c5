-------------------------- MODULE LinkStreamProofs --------------------------
(***************************************************************************)
(* Proofs about LinkStream for every window, packet size and stream length.*)
(* The inductive invariant says that whatever carries bytes (the replay    *)
(* buffer, packets in flight, fragments, the reader's buffer) carries the  *)
(* bytes its offset names, and that every offset in flight is one the      *)
(* receiver has reached. A second invariant, StoreInv, bounds the buffers: *)
(* the fragments lie apart and within one window of the gap, so the sums   *)
(* the code keeps are numbers of offsets, and a step that trims, drains or *)
(* adds fragments is a statement about sets of offsets.                    *)
(***************************************************************************)
EXTENDS LinkStream, FiniteSetTheorems, WellFoundedInduction, TLAPS

Run(from, q) == q \in Seq(Nat) /\ StreamBytes(from, q)

\* A packet or fragment holds at least one byte, and only written ones.
Carries(seq, q) == Run(seq, q) /\ Len(q) >= 1 /\ seq + Len(q) <= txNext

SenderInv ==
    /\ txBase <= rxNext /\ rxNext <= txNext /\ txNext <= MaxSeq
    /\ Len(txBuf) = txNext - txBase
    /\ Run(txBase, txBuf)

CursorInv ==
    /\ sendNext <= txNext
    /\ txBound /\ sendNext > txBase => armed

ReaderInv ==
    /\ Len(got) + Len(rxBuf) = rxNext
    /\ Run(0, got)
    /\ Run(Len(got), rxBuf)

FragmentInv ==
    \A s \in DOMAIN rxPending : s \in Nat /\ s > rxNext /\ Carries(s, rxPending[s])

PacketInv ==
    \A p \in data : p \in [seq : Nat, payload : Seq(Nat)] /\ Carries(p.seq, p.payload)

OffsetInv == \A e \in acks \cup hellos : e \in Nat /\ e <= rxNext

Inv == TypeOK /\ SenderInv /\ CursorInv /\ ReaderInv /\ FragmentInv /\ PacketInv /\ OffsetInv

-----------------------------------------------------------------------------
(* Sequences of stream bytes.                                              *)

\* A slice of a run is the run from the slice's first offset.
LEMMA RunSlice ==
    ASSUME NEW from \in Nat, NEW q, Run(from, q),
           NEW m \in Int, NEW n \in Int, 1 <= m, m <= n + 1, n <= Len(q)
    PROVE  /\ Run(from + m - 1, SubSeq(q, m, n))
           /\ Len(SubSeq(q, m, n)) = n - m + 1
<1>1. q \in Seq(Nat) /\ \A i \in 1..Len(q) : q[i] = from + i - 1
  BY DEF Run, StreamBytes
<1>2. SubSeq(q, m, n) \in Seq(Nat) /\ Len(SubSeq(q, m, n)) = n - m + 1
  BY <1>1
<1>3. \A i \in 1..(n - m + 1) : SubSeq(q, m, n)[i] = q[m + i - 1]
  BY <1>1
<1>4. \A i \in 1..(n - m + 1) : SubSeq(q, m, n)[i] = (from + m - 1) + i - 1
  <2> SUFFICES ASSUME NEW i \in 1..(n - m + 1)
               PROVE  SubSeq(q, m, n)[i] = (from + m - 1) + i - 1
    OBVIOUS
  <2>1. m + i - 1 \in 1..Len(q)
    BY <1>1
  <2> QED
    BY <2>1, <1>1, <1>3
<1> QED
  BY <1>2, <1>4 DEF Run, StreamBytes

\* Runs that meet make one run.
LEMMA RunConcat ==
    ASSUME NEW from \in Nat, NEW q, NEW r, Run(from, q), Run(from + Len(q), r)
    PROVE  /\ Run(from, q \o r)
           /\ Len(q \o r) = Len(q) + Len(r)
<1>1. q \in Seq(Nat) /\ r \in Seq(Nat) /\ Len(q) \in Nat /\ Len(r) \in Nat
  BY DEF Run
<1>2. q \o r \in Seq(Nat) /\ Len(q \o r) = Len(q) + Len(r)
  BY <1>1
<1>3. ASSUME NEW i \in 1..(Len(q) + Len(r))
      PROVE  (q \o r)[i] = from + i - 1
  <2>1. CASE i <= Len(q)
    <3>1. (q \o r)[i] = q[i]
      BY <2>1, <1>1
    <3> QED
      BY <3>1, <2>1, <1>1 DEF Run, StreamBytes
  <2>2. CASE i > Len(q)
    <3>1. (q \o r)[i] = r[i - Len(q)]
      BY <2>2, <1>1
    <3>2. i - Len(q) \in 1..Len(r)
      BY <2>2, <1>1
    <3>3. r[i - Len(q)] = from + Len(q) + (i - Len(q)) - 1
      BY <3>2 DEF Run, StreamBytes
    <3> QED
      BY <3>1, <3>3, <1>1
  <2> QED
    BY <2>1, <2>2, <1>1
<1> QED
  BY <1>2, <1>3 DEF Run, StreamBytes

\* Bytes named one by one are a run.
LEMMA RunFunction ==
    ASSUME NEW from \in Nat, NEW n \in Nat,
           NEW q, q = [i \in 1..n |-> q[i]],
           \A i \in 1..n : q[i] = from + i - 1
    PROVE  Run(from, q) /\ Len(q) = n
<1>1. \A i \in 1..n : q[i] \in Nat
  OBVIOUS
<1>2. q \in [1..n -> Nat]
  BY <1>1
<1>3. q \in Seq(Nat) /\ Len(q) = n
  BY <1>2
<1> QED
  BY <1>3 DEF Run, StreamBytes

\* The empty buffer is a run from anywhere.
LEMMA RunEmpty == ASSUME NEW from \in Nat PROVE Run(from, <<>>) /\ Len(<<>>) = 0
  BY DEF Run, StreamBytes

-----------------------------------------------------------------------------
(* Reassembly.                                                             *)

\* A fragment trimmed at the end of a delivered packet holds the right bytes.
LEMMA TrimCarries ==
    ASSUME NEW pending, NEW end \in Nat, txNext \in Nat,
           \A s \in DOMAIN pending : s \in Nat /\ Carries(s, pending[s])
    PROVE  \A t \in DOMAIN Trim(pending, end) :
              t \in Nat /\ t >= end /\ Carries(t, Trim(pending, end)[t])
<1> DEFINE live == {s \in DOMAIN pending : FragmentEnd(pending, s) > end}
<1> SUFFICES ASSUME NEW t \in {Greater(s, end) : s \in live}
             PROVE  t \in Nat /\ t >= end /\ Carries(t, Trim(pending, end)[t])
  BY DEF Trim
<1> DEFINE s == CHOOSE s \in live : Greater(s, end) = t
<1>1. s \in live /\ Greater(s, end) = t
  OBVIOUS
<1>2. Trim(pending, end)[t] = SubSeq(pending[s], t - s + 1, Len(pending[s]))
  BY DEF Trim
<1>3. s \in Nat /\ Carries(s, pending[s]) /\ s + Len(pending[s]) > end
  BY <1>1 DEF FragmentEnd
<1> HIDE DEF s, live
<1>4. Len(pending[s]) \in Nat /\ Run(s, pending[s]) /\ s + Len(pending[s]) <= txNext /\ Len(pending[s]) >= 1
  BY <1>3 DEF Carries, Run
<1>5. t \in Nat /\ t >= end /\ t >= s /\ t < s + Len(pending[s])
  BY <1>1, <1>3, <1>4 DEF Greater
<1>6. /\ Run(s + (t - s + 1) - 1, SubSeq(pending[s], t - s + 1, Len(pending[s])))
      /\ Len(SubSeq(pending[s], t - s + 1, Len(pending[s]))) = Len(pending[s]) - (t - s + 1) + 1
  <2>1. t - s + 1 \in Int /\ 1 <= t - s + 1 /\ t - s + 1 <= Len(pending[s]) + 1 /\ Len(pending[s]) \in Int
    BY <1>3, <1>4, <1>5
  <2> QED
    BY <2>1, <1>3, <1>4, RunSlice
<1>7. s + (t - s + 1) - 1 = t
  BY <1>3, <1>5
<1> QED
  BY <1>2, <1>3, <1>4, <1>5, <1>6, <1>7 DEF Carries

\* The drained fragments continue the stream up to where the drain stops.
LEMMA DrainRun ==
    ASSUME NEW pending, NEW from \in Nat, NEW to \in Nat, from <= to,
           \A s \in DOMAIN pending : s \in Nat /\ Carries(s, pending[s]),
           DrainsTo(pending, from, to)
    PROVE  /\ Run(from, DrainedBytes(pending, from, to))
           /\ Len(DrainedBytes(pending, from, to)) = to - from
<1> DEFINE q == DrainedBytes(pending, from, to)
<1>1. \A i \in 1..(to - from) : q[i] = from + i - 1
  <2> SUFFICES ASSUME NEW i \in 1..(to - from) PROVE q[i] = from + i - 1
    OBVIOUS
  <2> DEFINE o == from + i - 1
             s == CHOOSE s \in DOMAIN pending : Holds(pending, s, o)
  <2>1. o \in from..(to - 1)
    OBVIOUS
  <2>2. \E t \in DOMAIN pending : Holds(pending, t, o)
    BY <2>1 DEF DrainsTo, Covers
  <2>3. s \in DOMAIN pending /\ Holds(pending, s, o)
    BY <2>2
  <2>4. q[i] = pending[s][from + i - s]
    BY DEF DrainedBytes
  <2>5. s \in Nat /\ pending[s] \in Seq(Nat) /\ StreamBytes(s, pending[s])
    BY <2>3 DEF Carries, Run
  <2> HIDE DEF s
  <2>6. from + i - s \in 1..Len(pending[s])
    BY <2>3, <2>5 DEF Holds, FragmentEnd
  <2>7. pending[s][from + i - s] = s + (from + i - s) - 1
    BY <2>5, <2>6 DEF StreamBytes
  <2> QED
    BY <2>4, <2>5, <2>7
<1>2. q = [i \in 1..(to - from) |-> q[i]]
  BY DEF DrainedBytes
<1>3. to - from \in Nat
  OBVIOUS
<1> HIDE DEF q
<1>4. Run(from, q) /\ Len(q) = to - from
  BY <1>1, <1>2, <1>3, RunFunction
<1> QED
  BY <1>4 DEF q

\* What remains after the drain lies beyond it.
LEMMA PendingBeyond ==
    ASSUME NEW pending, NEW to \in Nat,
           \A s \in DOMAIN pending : s \in Nat /\ Carries(s, pending[s]),
           ~ Covers(pending, to)
    PROVE  \A s \in DOMAIN PendingFrom(pending, to) :
              s \in Nat /\ s > to /\ Carries(s, PendingFrom(pending, to)[s])
<1> SUFFICES ASSUME NEW s \in DOMAIN pending, s >= to
             PROVE  s \in Nat /\ s > to /\ Carries(s, pending[s])
  BY DEF PendingFrom
<1>1. s \in Nat /\ Carries(s, pending[s]) /\ Len(pending[s]) \in Nat /\ Len(pending[s]) >= 1
  BY DEF Carries, Run
<1>2. s # to
  BY <1>1 DEF Covers, Holds, FragmentEnd
<1> QED
  BY <1>1, <1>2

-----------------------------------------------------------------------------
(* The invariant holds initially and every action preserves it.            *)

\* Two sessions that were never bound, with nothing written or in flight.
LEMMA InitInv == Init => Inv
<1> SUFFICES ASSUME Init PROVE Inv
  OBVIOUS
<1> USE WindowAssumption, FlightAssumption, SizesAssumption
<1>1. TypeOK
  <2>1. DOMAIN rxPending = {} /\ <<>> \in Seq(Nat)
    BY DEF Init, NoPending
  <2>2. flightPackets \in InitFlight..MaxFlight /\ 0 \in 0..(FastAcks - 1)
    BY DEF Init
  <2> QED
    BY <2>1, <2>2 DEF Init, TypeOK
<1>2. SenderInv /\ CursorInv /\ ReaderInv
  BY RunEmpty DEF Init, SenderInv, CursorInv, ReaderInv
<1>3. FragmentInv /\ PacketInv /\ OffsetInv
  BY DEF Init, FragmentInv, PacketInv, OffsetInv, NoPending
<1> QED
  BY <1>1, <1>2, <1>3 DEF Inv

\* Write extends the replay buffer by the bytes its offsets name.
LEMMA WriteInv == ASSUME Inv, NEW n \in 1..ReplayWindow, Write(n) PROVE Inv'
<1> USE WindowAssumption
<1> DEFINE chunk == [i \in 1..n |-> txNext + i - 1]
<1>0. n \in Nat /\ n >= 1 /\ txNext \in Nat /\ txBase \in Nat /\ rxNext \in Nat /\ Run(txBase, txBuf)
      /\ Len(txBuf) = txNext - txBase /\ txNext + n <= MaxSeq /\ txNext' = txNext + n
  BY DEF Inv, TypeOK, SenderInv, Write
<1>1. Run(txNext, chunk) /\ Len(chunk) = n
  <2>1. chunk = [i \in 1..n |-> chunk[i]] /\ \A i \in 1..n : chunk[i] = txNext + i - 1
    OBVIOUS
  <2> HIDE DEF chunk
  <2> QED
    BY <2>1, <1>0, RunFunction
<1>2. txBuf' = txBuf \o chunk
  BY DEF Write
<1> HIDE DEF chunk
<1>3. Run(txBase, txBuf \o chunk) /\ Len(txBuf \o chunk) = Len(txBuf) + n
  BY <1>0, <1>1, RunConcat
<1>4. TypeOK'
  BY <1>0, <1>2, <1>3, SMTT(30) DEF Inv, TypeOK, Write, Run, binding, receiver, net
<1>5. SenderInv'
  <2>1. txBase' = txBase /\ rxNext' = rxNext
    BY DEF Write, receiver
  <2>2. Run(txBase', txBuf')
    BY <1>2, <1>3, <2>1
  <2>3. txBase <= rxNext /\ rxNext <= txNext
    BY DEF Inv, SenderInv
  <2>4. Len(txBuf') = txNext' - txBase'
    BY <1>0, <1>2, <1>3, <2>1
  <2>5. rxNext' <= txNext' /\ txBase' <= rxNext' /\ txNext' <= MaxSeq
    BY <1>0, <2>1, <2>3
  <2> QED
    BY <2>2, <2>4, <2>5 DEF SenderInv, Run, StreamBytes
<1>6. CursorInv'
  BY <1>0 DEF Inv, TypeOK, CursorInv, Write, binding
<1>7. ReaderInv' /\ OffsetInv'
  BY DEF Inv, ReaderInv, OffsetInv, Run, StreamBytes, Write, receiver, net
<1>8. FragmentInv' /\ PacketInv'
  <2>1. \A s, q : s \in Nat /\ Carries(s, q) => Run(s, q) /\ Len(q) >= 1 /\ s + Len(q) <= txNext'
    BY <1>0 DEF Carries, Run
  <2>2. rxPending' = rxPending /\ rxNext' = rxNext /\ data' = data
    BY DEF Write, receiver, net
  <2> QED
    BY <2>1, <2>2 DEF Inv, FragmentInv, PacketInv, Carries, Run, StreamBytes
<1> QED
  BY <1>4, <1>5, <1>6, <1>7, <1>8 DEF Inv

\* Read moves bytes from the buffer's front to the reader.
LEMMA ReadInv == ASSUME Inv, NEW n \in 1..RxWindow, Read(n) PROVE Inv'
<1> USE WindowAssumption
<1>0. n \in Nat /\ n >= 1 /\ n <= Len(rxBuf) /\ Run(0, got) /\ Run(Len(got), rxBuf)
      /\ Len(got) \in Nat /\ Len(rxBuf) \in Nat /\ Len(got) + Len(rxBuf) = rxNext
  BY DEF Inv, ReaderInv, Read, Run
<1>1. /\ Run(Len(got) + 1 - 1, SubSeq(rxBuf, 1, n))
      /\ Len(SubSeq(rxBuf, 1, n)) = n - 1 + 1
  BY <1>0, RunSlice
<1>2. /\ Run(Len(got) + (n + 1) - 1, SubSeq(rxBuf, n + 1, Len(rxBuf)))
      /\ Len(SubSeq(rxBuf, n + 1, Len(rxBuf))) = Len(rxBuf) - (n + 1) + 1
  BY <1>0, RunSlice
<1>3. Len(got) + 1 - 1 = 0 + Len(got) /\ n - 1 + 1 = n
  BY <1>0
<1>4. Run(0, got') /\ Len(got') = Len(got) + n
  BY <1>0, <1>1, <1>3, RunConcat DEF Read
<1>5. Len(got) + (n + 1) - 1 = Len(got')
  BY <1>0, <1>4
<1>6. Run(Len(got'), rxBuf') /\ Len(rxBuf') = Len(rxBuf) - n
  BY <1>0, <1>2, <1>5 DEF Read
<1>7. UNCHANGED <<sender, binding, net, rxBound, rxNext, rxPending, rxPendingBytes, ackDirty>>
  BY DEF Read
<1>8. TypeOK'
  BY <1>4, <1>6, <1>7 DEF Inv, TypeOK, Run, sender, binding, net
<1>9. ReaderInv'
  BY <1>0, <1>4, <1>6, <1>7 DEF ReaderInv, Run, StreamBytes
<1>10. SenderInv' /\ CursorInv' /\ FragmentInv' /\ PacketInv' /\ OffsetInv'
  BY <1>7 DEF Inv, SenderInv, CursorInv, FragmentInv, PacketInv, OffsetInv, Carries, Run, StreamBytes,
              sender, binding, net
<1> QED
  BY <1>8, <1>9, <1>10 DEF Inv

\* Only the sending binding's cursor and the packets in flight change.
LEMMA EmitInv ==
    ASSUME Inv, txBound, NEW start \in txBase..txNext, NEW timer \in BOOLEAN,
           NEW flight \in InitFlight..MaxFlight, EmitData(start, timer, flight),
           start > txBase => timer, duplicateACK' \in 0..(FastAcks - 1),
           flightPackets' \in InitFlight..MaxFlight,
           UNCHANGED <<sender, receiver, acks, hellos, txBound, payloadSize>>
    PROVE  Inv'
<1> USE WindowAssumption, FlightAssumption, SizesAssumption
<1> DEFINE windowEnd == Lesser(txNext, txBase + payloadSize * flight)
           n == Lesser(payloadSize, windowEnd - start)
           first == start - txBase + 1
           packet == [seq |-> start, payload |-> SubSeq(txBuf, first, first + n - 1)]
<1>0. /\ txBase \in Nat /\ txNext \in Nat /\ start \in Nat /\ txBase <= start /\ start <= txNext
      /\ payloadSize \in Nat /\ payloadSize >= 1 /\ flight \in Nat
      /\ Run(txBase, txBuf) /\ Len(txBuf) = txNext - txBase
  BY DEF Inv, TypeOK, SenderInv
<1>1. payloadSize * flight \in Nat
  BY <1>0
<1>2. windowEnd \in Nat /\ windowEnd <= txNext
  BY <1>0, <1>1 DEF Lesser
<1>3. start < windowEnd => n \in Nat /\ n >= 1 /\ start + n <= txNext
  BY <1>0, <1>2 DEF Lesser
<1>4. start < windowEnd => Carries(start, packet.payload) /\ packet \in [seq : Nat, payload : Seq(Nat)]
  <2> SUFFICES ASSUME start < windowEnd
               PROVE  Carries(start, packet.payload) /\ packet \in [seq : Nat, payload : Seq(Nat)]
    OBVIOUS
  <2> HIDE DEF n, windowEnd
  <2>1. first \in Int /\ first + n - 1 \in Int /\ 1 <= first /\ first <= (first + n - 1) + 1
        /\ first + n - 1 <= Len(txBuf)
    BY <1>0, <1>3
  <2>2. /\ Run(txBase + first - 1, SubSeq(txBuf, first, first + n - 1))
        /\ Len(SubSeq(txBuf, first, first + n - 1)) = (first + n - 1) - first + 1
    BY <2>1, <1>0, RunSlice
  <2>3. txBase + first - 1 = start /\ (first + n - 1) - first + 1 = n
    BY <1>0, <1>3
  <2> QED
    BY <2>2, <2>3, <1>0, <1>3 DEF Carries, Run
<1>5. /\ data' \in {data, data \cup {packet}} /\ (data' # data => start < windowEnd)
      /\ sendNext' \in Nat /\ sendNext' <= txNext /\ armed' \in BOOLEAN
      /\ sendNext' > txBase => armed'
  <2>1. CASE start < windowEnd
    <3>1. data' = data \cup {packet} /\ sendNext' = start + n /\ armed' = (timer \/ start = txBase)
      BY <2>1 DEF EmitData
    <3> HIDE DEF n, windowEnd, packet
    <3>2. sendNext' \in Nat /\ sendNext' <= txNext
      BY <3>1, <2>1, <1>0, <1>3
    <3>3. armed'
      <4>1. start > txBase \/ start = txBase
        BY <1>0
      <4> QED
        BY <3>1, <4>1
    <3> QED
      BY <3>1, <3>2, <3>3, <2>1
  <2>2. CASE ~ (start < windowEnd)
    <3>1. data' = data /\ sendNext' = start /\ armed' = timer
      BY <2>2 DEF EmitData
    <3> QED
      BY <3>1, <1>0
  <2> QED
    BY <2>1, <2>2
<1> HIDE DEF n, windowEnd, packet
<1>6. packet.seq = start
  BY DEF packet
<1>7. PacketInv'
  BY <1>4, <1>5, <1>6 DEF Inv, PacketInv, Carries, Run, StreamBytes, sender
<1>8. TypeOK'
  BY <1>5, <1>7 DEF Inv, TypeOK, PacketInv, sender, receiver
<1>9. CursorInv'
  BY <1>5 DEF CursorInv, sender
<1>10. SenderInv' /\ ReaderInv' /\ FragmentInv' /\ OffsetInv'
  BY DEF Inv, SenderInv, ReaderInv, FragmentInv, OffsetInv, Carries, Run, StreamBytes, sender, receiver
<1> QED
  BY <1>7, <1>8, <1>9, <1>10 DEF Inv

\* nextPacketLocked without and with a retransmission due.
LEMMA SendDataInv == ASSUME Inv, SendData PROVE Inv'
<1> USE WindowAssumption, FlightAssumption
<1> DEFINE stray == sendNext < txBase \/ sendNext > txNext
           start == IF stray THEN txBase ELSE sendNext
           timer == armed /\ ~ stray
<1>1. txBound /\ EmitData(start, timer, flightPackets)
      /\ UNCHANGED <<sender, receiver, acks, hellos, txBound, payloadSize>>
  BY DEF SendData
<1>2. start \in txBase..txNext
  BY DEF Inv, TypeOK, SenderInv
<1>3. timer \in BOOLEAN
  OBVIOUS
<1>4. start > txBase => timer
  <2>1. SUFFICES ASSUME start > txBase PROVE timer
    OBVIOUS
  <2>2. ~ stray
    BY <2>1 DEF Inv, TypeOK
  <2> QED
    BY <2>1, <2>2, <1>1 DEF Inv, CursorInv
<1>5. duplicateACK' \in 0..(FastAcks - 1)
  BY DEF SendData, Inv, TypeOK
<1>6. flightPackets \in InitFlight..MaxFlight /\ flightPackets' = flightPackets
  BY DEF SendData, Inv, TypeOK
<1> HIDE DEF stray, start, timer
<1> QED
  BY <1>1, <1>2, <1>3, <1>4, <1>5, <1>6, EmitInv

\* reduceFlightWindow stays between the initial and the largest flight window.
LEMMA ReduceRange ==
    ASSUME NEW flight \in InitFlight..MaxFlight
    PROVE  reduceFlightWindow(flight) \in InitFlight..MaxFlight
  BY FlightAssumption DEF reduceFlightWindow, Greater

\* A retransmission sends true bytes of the stream again, from the base.
LEMMA RetransmitTimeoutInv == ASSUME Inv, RetransmitTimeout PROVE Inv'
<1> USE WindowAssumption, FlightAssumption
<1>1. txBound /\ EmitData(txBase, TRUE, flightPackets')
      /\ UNCHANGED <<sender, receiver, acks, hellos, txBound, payloadSize>>
  BY DEF RetransmitTimeout
<1>2. txBase \in txBase..txNext
  BY DEF Inv, TypeOK, SenderInv
<1>3. flightPackets' \in InitFlight..MaxFlight
  BY ReduceRange DEF RetransmitTimeout, Inv, TypeOK
<1>4. duplicateACK' \in 0..(FastAcks - 1)
  BY DEF RetransmitTimeout
<1> QED
  BY <1>1, <1>2, <1>3, <1>4, EmitInv

\* Packets and offsets that remain in flight keep their truth.
LEMMA PacketsShrink ==
    ASSUME PacketInv, data' \subseteq data, txNext' = txNext
    PROVE  PacketInv'
  BY DEF PacketInv, Carries, Run, StreamBytes

\* Offsets that remain in flight are still ones the receiver has reached.
LEMMA OffsetsShrink ==
    ASSUME OffsetInv, TypeOK, acks' \subseteq acks, hellos' \subseteq hellos,
           rxNext' \in Nat, rxNext <= rxNext'
    PROVE  OffsetInv'
  BY DEF OffsetInv, TypeOK

\* A rejected packet changes only the owed ACK.
LEMMA RcvRejectedInv == ASSUME Inv, NEW p \in data, RcvRejected(p) PROVE Inv'
<1>1. data' \subseteq data /\ UNCHANGED <<sender, binding, acks, hellos, rxBound, rxNext, rxBuf, rxPending, got>>
      /\ ackDirty' = TRUE
  BY DEF RcvRejected, Take
<1>2. PacketInv' /\ OffsetInv'
  BY <1>1, PacketsShrink, OffsetsShrink DEF Inv, TypeOK, sender
<1>3. TypeOK'
  BY <1>1 DEF Inv, TypeOK, sender, binding
<1>4. SenderInv' /\ CursorInv' /\ ReaderInv' /\ FragmentInv'
  BY <1>1 DEF Inv, SenderInv, CursorInv, ReaderInv, FragmentInv, Carries, Run, StreamBytes, sender, binding
<1> QED
  BY <1>2, <1>3, <1>4 DEF Inv

\* A packet beyond the gap becomes a true fragment.
LEMMA RcvBufferedInv == ASSUME Inv, NEW p \in data, RcvBuffered(p) PROVE Inv'
<1>1. data' \subseteq data /\ UNCHANGED <<sender, binding, acks, hellos, rxBound, rxNext, rxBuf, got>>
      /\ ackDirty' = TRUE /\ p.seq > rxNext
      /\ rxPending' = [s \in DOMAIN rxPending \cup {p.seq} |->
                         IF s = p.seq THEN p.payload ELSE rxPending[s]]
  BY DEF RcvBuffered, Take
<1>2. PacketInv' /\ OffsetInv'
  BY <1>1, PacketsShrink, OffsetsShrink DEF Inv, TypeOK, sender
<1>3. p.seq \in Nat /\ p.payload \in Seq(Nat) /\ Carries(p.seq, p.payload)
  BY DEF Inv, PacketInv
<1>4. \A s \in DOMAIN rxPending' : s \in Nat /\ s > rxNext /\ Carries(s, rxPending'[s])
  BY <1>1, <1>3 DEF Inv, FragmentInv
<1>5. FragmentInv'
  BY <1>1, <1>4 DEF FragmentInv, Carries, Run, StreamBytes, sender
<1>6. TypeOK'
  BY <1>1, <1>4 DEF Inv, TypeOK, Carries, Run, sender, binding
<1>7. SenderInv' /\ CursorInv' /\ ReaderInv'
  BY <1>1 DEF Inv, SenderInv, CursorInv, ReaderInv, Run, StreamBytes, sender, binding
<1> QED
  BY <1>2, <1>5, <1>6, <1>7 DEF Inv

\* A packet that continues the stream, with the fragments it connects, moves
\* exactly the next bytes to the reader's buffer.
LEMMA RcvAdvanceInv == ASSUME Inv, NEW p \in data, RcvAdvance(p) PROVE Inv' /\ rxNext <= rxNext'
<1> USE WindowAssumption
<1> DEFINE end == EndOf(p)
           kept == Trim(rxPending, end)
<1>0. PICK to \in end..(rxNext + RxWindow) :
          /\ DrainsTo(kept, end, to)
          /\ rxNext' = to
          /\ rxBuf' = rxBuf \o NewPayload(p) \o DrainedBytes(kept, end, to)
          /\ rxPending' = PendingFrom(kept, to)
  BY DEF RcvAdvance
<1>1. data' \subseteq data /\ UNCHANGED <<sender, binding, acks, hellos, rxBound, got>>
      /\ ackDirty' = TRUE /\ p.seq <= rxNext /\ ~ Rejects(p)
  BY DEF RcvAdvance, Take
<1>2. p.seq \in Nat /\ Run(p.seq, p.payload) /\ Len(p.payload) \in Nat /\ rxNext \in Nat
      /\ end = p.seq + Len(p.payload) /\ end <= txNext /\ txNext \in Nat
  BY DEF Inv, TypeOK, PacketInv, Carries, Run, EndOf
<1>3. rxNext < end
  BY <1>1, <1>2 DEF Rejects
<1>4. to \in Nat /\ end \in Nat /\ end <= to
  BY <1>2, <1>3
<1>5. Run(rxNext, NewPayload(p)) /\ Len(NewPayload(p)) = end - rxNext
  <2> DEFINE m == rxNext - p.seq + 1
             len == Len(p.payload)
  <2>0. NewSeq(p) = rxNext
    BY <1>1, <1>2 DEF NewSeq, Greater
  <2>1. NewPayload(p) = SubSeq(p.payload, m, len)
    BY <2>0 DEF NewPayload
  <2>2. m \in Int /\ len \in Int /\ 1 <= m /\ m <= len + 1 /\ len <= Len(p.payload)
    BY <1>1, <1>2, <1>3
  <2>3. p.seq + m - 1 = rxNext /\ len - m + 1 = end - rxNext
    BY <1>2
  <2> HIDE DEF m, len
  <2>4. /\ Run(p.seq + m - 1, SubSeq(p.payload, m, len))
        /\ Len(SubSeq(p.payload, m, len)) = len - m + 1
    BY <2>2, <1>2, RunSlice
  <2> QED
    BY <2>1, <2>3, <2>4
<1>6. \A t \in DOMAIN kept : t \in Nat /\ t >= end /\ Carries(t, kept[t])
  BY <1>2, <1>4, TrimCarries DEF Inv, FragmentInv
<1> HIDE DEF kept
<1>7. Run(end, DrainedBytes(kept, end, to)) /\ Len(DrainedBytes(kept, end, to)) = to - end
  BY <1>0, <1>4, <1>6, DrainRun
<1>8. Run(Len(got), rxBuf') /\ Len(rxBuf') = Len(rxBuf) + (to - rxNext)
  <2> DEFINE front == rxBuf \o NewPayload(p)
             rest == DrainedBytes(kept, end, to)
  <2>1. Run(Len(got), rxBuf) /\ Len(got) \in Nat /\ Len(rxBuf) \in Nat /\ Len(got) + Len(rxBuf) = rxNext
    BY DEF Inv, ReaderInv, Run
  <2>2. Run(Len(got), front) /\ Len(front) = Len(rxBuf) + (end - rxNext)
    BY <2>1, <1>5, RunConcat
  <2>3. rxBuf' = front \o rest
    BY <1>0
  <2> HIDE DEF front, rest, end
  <2>4. Len(got) + Len(front) = end
    BY <2>1, <2>2, <1>2, <1>4
  <2>5. Run(Len(got) + Len(front), rest) /\ Len(rest) = to - end
    BY <2>4, <1>7 DEF rest
  <2>6. Run(Len(got), front \o rest) /\ Len(front \o rest) = Len(front) + Len(rest)
    <3>1. Len(got) \in Nat
      BY <2>1
    <3>2. Run(Len(got), front)
      BY <2>2
    <3>3. Run(Len(got) + Len(front), rest)
      BY <2>5
    <3> QED
      BY ONLY <3>1, <3>2, <3>3, RunConcat
  <2>7. Len(front) + Len(rest) = Len(rxBuf) + (to - rxNext)
    BY <2>1, <2>2, <2>5, <1>2, <1>4, SMTT(30)
  <2> QED
    BY <2>3, <2>6, <2>7
<1>9. \A s \in DOMAIN rxPending' : s \in Nat /\ s > to /\ Carries(s, rxPending'[s])
  BY <1>0, <1>4, <1>6, PendingBeyond DEF DrainsTo
<1>10. to <= txNext
  <2>1. CASE to = end
    BY <2>1, <1>2
  <2>2. CASE to > end
    <3>1. to - 1 \in end..(to - 1)
      BY <2>2, <1>4
    <3>2. PICK s \in DOMAIN kept : Holds(kept, s, to - 1)
      BY <3>1, <1>0 DEF DrainsTo, Covers
    <3>3. s \in Nat /\ Len(kept[s]) \in Nat /\ s + Len(kept[s]) <= txNext
      BY <1>6 DEF Carries, Run
    <3> QED
      BY <3>2, <3>3, <1>2, <1>4 DEF Holds, FragmentEnd
  <2> QED
    BY <2>1, <2>2, <1>4
<1>11. PacketInv' /\ OffsetInv' /\ rxNext <= rxNext'
  BY <1>0, <1>1, <1>2, <1>3, <1>4, PacketsShrink, OffsetsShrink DEF Inv, sender
<1>12. FragmentInv'
  BY <1>0, <1>1, <1>9 DEF FragmentInv, Carries, Run, StreamBytes, sender
<1>13. TypeOK'
  BY <1>0, <1>1, <1>4, <1>8, <1>9 DEF Inv, TypeOK, Carries, Run, sender, binding
<1>14. ReaderInv'
  <2>1. Len(got) \in Nat /\ Len(rxBuf) \in Nat /\ Len(got) + Len(rxBuf) = rxNext /\ Run(0, got) /\ got' = got
    BY <1>1 DEF Inv, ReaderInv, Run
  <2>2. Len(got) + (Len(rxBuf) + (to - rxNext)) = to
    BY <2>1, <1>4
  <2>3. Len(got') + Len(rxBuf') = rxNext'
    BY <2>1, <2>2, <1>0, <1>8
  <2> QED
    BY <2>1, <2>3, <1>8 DEF ReaderInv, Run, StreamBytes
<1>15. SenderInv'
  <2>1. txBase \in Nat /\ txBase <= rxNext
    BY DEF Inv, TypeOK, SenderInv
  <2>2. txBase' <= rxNext' /\ rxNext' <= txNext'
    BY <2>1, <1>0, <1>1, <1>2, <1>3, <1>4, <1>10 DEF sender
  <2> QED
    BY <2>2, <1>1 DEF Inv, SenderInv, Run, StreamBytes, sender
<1>16. CursorInv'
  BY <1>1 DEF Inv, CursorInv, sender, binding
<1> QED
  BY <1>11, <1>12, <1>13, <1>14, <1>15, <1>16 DEF Inv

\* ACK and HELLO carry the offset the receiver has reached.
LEMMA SendAckInv == ASSUME Inv, SendAck PROVE Inv'
<1>1. acks' = acks \cup {rxNext} /\ ackDirty' = FALSE
      /\ UNCHANGED <<sender, binding, data, hellos, rxBound, rxNext, rxBuf, rxPending, got>>
  BY DEF SendAck
<1>2. rxNext \in Nat
  BY DEF Inv, TypeOK
<1>3. TypeOK' /\ OffsetInv'
  <2>1. acks' \subseteq Nat
    BY <1>1, <1>2 DEF Inv, TypeOK
  <2>2. TypeOK'
    BY <1>1, <2>1 DEF Inv, TypeOK, sender, binding
  <2>3. OffsetInv'
    BY <1>1, <1>2 DEF Inv, OffsetInv
  <2> QED
    BY <2>2, <2>3
<1>4. SenderInv' /\ CursorInv' /\ ReaderInv' /\ FragmentInv' /\ PacketInv'
  BY <1>1 DEF Inv, SenderInv, CursorInv, ReaderInv, FragmentInv, PacketInv, Carries, Run, StreamBytes,
              sender, binding
<1> QED
  BY <1>3, <1>4 DEF Inv

\* A handshake offset is the receiver's cumulative offset at that moment.
LEMMA SendHelloInv == ASSUME Inv, SendHello PROVE Inv'
<1>1. hellos' = hellos \cup {rxNext} /\ UNCHANGED <<sender, binding, receiver, data, acks>>
  BY DEF SendHello
<1>2. rxNext \in Nat
  BY DEF Inv, TypeOK
<1>3. TypeOK' /\ OffsetInv'
  <2>1. hellos' \subseteq Nat
    BY <1>1, <1>2 DEF Inv, TypeOK
  <2>2. TypeOK'
    BY <1>1, <2>1 DEF Inv, TypeOK, sender, binding, receiver
  <2>3. OffsetInv'
    BY <1>1, <1>2 DEF Inv, OffsetInv, receiver
  <2> QED
    BY <2>2, <2>3
<1>4. SenderInv' /\ CursorInv' /\ ReaderInv' /\ FragmentInv' /\ PacketInv'
  BY <1>1 DEF Inv, SenderInv, CursorInv, ReaderInv, FragmentInv, PacketInv, Carries, Run, StreamBytes,
              sender, binding, receiver
<1> QED
  BY <1>3, <1>4 DEF Inv

\* Releasing what the peer has leaves the rest of the replay buffer in place.
LEMMA ReconcileKeeps ==
    ASSUME Inv, NEW e \in acks \cup hellos, txBase <= e, reconcilePeer(e), rxNext' = rxNext
    PROVE  /\ SenderInv'
           /\ txBase' = e /\ e \in Nat /\ txBuf' \in Seq(Nat) /\ txNext' = txNext
<1> DEFINE m == e - txBase + 1
           len == Len(txBuf)
<1>1. /\ e \in Nat /\ e <= rxNext /\ txBase \in Nat /\ rxNext \in Nat /\ txNext \in Nat
      /\ rxNext <= txNext /\ txNext <= MaxSeq /\ len = txNext - txBase /\ Run(txBase, txBuf)
  BY DEF Inv, TypeOK, SenderInv, OffsetInv
<1>2. txBase' = e /\ txBuf' = SubSeq(txBuf, m, len) /\ txNext' = txNext
  BY DEF reconcilePeer
<1>3. m \in Int /\ len \in Int /\ 1 <= m /\ m <= len + 1 /\ len <= Len(txBuf)
  BY <1>1
<1>4. txBase + m - 1 = e /\ len - m + 1 = txNext - e
  BY <1>1
<1> HIDE DEF m, len
<1>5. Run(txBase + m - 1, SubSeq(txBuf, m, len)) /\ Len(SubSeq(txBuf, m, len)) = len - m + 1
  BY <1>1, <1>3, RunSlice
<1>6. Run(txBase', txBuf') /\ Len(txBuf') = txNext' - txBase'
  BY <1>2, <1>4, <1>5
<1> QED
  BY <1>1, <1>2, <1>6 DEF SenderInv, Run, StreamBytes

\* An ACK below the base changes nothing (handleAckLocked's early return).
LEMMA RcvAckStaleInv == ASSUME Inv, NEW e \in acks, RcvAckStale(e) PROVE Inv'
<1>1. acks' \subseteq acks /\ UNCHANGED <<sender, binding, receiver, data, hellos>>
  BY DEF RcvAckStale, Take
<1>2. TypeOK' /\ OffsetInv'
  BY <1>1 DEF Inv, TypeOK, OffsetInv, sender, binding, receiver
<1>3. SenderInv' /\ CursorInv' /\ ReaderInv' /\ FragmentInv' /\ PacketInv'
  BY <1>1 DEF Inv, SenderInv, CursorInv, ReaderInv, FragmentInv, PacketInv, Carries, Run, StreamBytes,
              sender, binding, receiver
<1> QED
  BY <1>2, <1>3 DEF Inv

\* An advancing ACK releases what the receiver has and restarts the timer.
LEMMA RcvAckAdvanceInv == ASSUME Inv, NEW e \in acks, RcvAckAdvance(e) PROVE Inv' /\ txBase <= txBase'
<1> USE WindowAssumption, FlightAssumption
<1>1. /\ acks' \subseteq acks /\ txBase <= e /\ e <= txNext /\ reconcilePeer(e) /\ duplicateACK' = 0
      /\ flightPackets' = Lesser(MaxFlight, flightPackets + 1)
      /\ sendNext' = Greater(sendNext, e) /\ armed' = (sendNext' > e)
      /\ UNCHANGED <<reconciled, txBound, payloadSize, receiver, data, hellos>>
  BY DEF RcvAckAdvance, Take, validatePeerExpected
<1>2. SenderInv' /\ txBase' = e /\ e \in Nat /\ txBuf' \in Seq(Nat) /\ txNext' = txNext
  BY <1>1, ReconcileKeeps DEF receiver
<1>3. sendNext' \in Nat /\ sendNext' <= txNext'
  BY <1>1, <1>2 DEF Inv, TypeOK, CursorInv, Greater
<1>4. CursorInv'
  BY <1>1, <1>2, <1>3 DEF CursorInv
<1>5. flightPackets' \in InitFlight..MaxFlight
  BY <1>1 DEF Inv, TypeOK, Lesser
<1>6. armed' \in BOOLEAN
  BY <1>1
<1>7. TypeOK'
  <2>1. duplicateACK' \in 0..(FastAcks - 1) /\ txBase' \in Nat /\ txNext' \in Nat
    BY <1>1, <1>2 DEF Inv, TypeOK
  <2>2. acks' \subseteq Nat
    BY <1>1 DEF Inv, TypeOK
  <2>3. UNCHANGED <<reconciled, txBound, payloadSize, receiver, data, hellos>> /\ txBuf' \in Seq(Nat)
    BY <1>1, <1>2
  <2> QED
    BY <2>1, <2>2, <2>3, <1>3, <1>5, <1>6 DEF Inv, TypeOK, receiver
<1>8. ReaderInv' /\ FragmentInv' /\ PacketInv' /\ OffsetInv'
  BY <1>1, <1>2 DEF Inv, ReaderInv, FragmentInv, PacketInv, OffsetInv, Carries, Run, StreamBytes, receiver
<1> QED
  BY <1>1, <1>2, <1>4, <1>7, <1>8 DEF Inv

\* A fast retransmission moves the cursor back to the base.
LEMMA RcvAckDuplicateInv == ASSUME Inv, NEW e \in acks, RcvAckDuplicate(e) PROVE Inv'
<1> USE WindowAssumption, FlightAssumption
<1>1. acks' \subseteq acks /\ UNCHANGED <<sender, txBound, payloadSize, receiver, data, hellos>>
  BY DEF RcvAckDuplicate, Take
<1>2. \/ UNCHANGED <<sendNext, armed, duplicateACK, flightPackets>>
      \/ /\ duplicateACK + 1 < FastAcks /\ duplicateACK' = duplicateACK + 1
         /\ UNCHANGED <<sendNext, armed, flightPackets>>
      \/ /\ sendNext' = txBase /\ armed' = TRUE /\ duplicateACK' = 0
         /\ flightPackets' = reduceFlightWindow(flightPackets)
  BY DEF RcvAckDuplicate
<1>3. /\ sendNext' \in Nat /\ sendNext' <= txNext /\ duplicateACK' \in 0..(FastAcks - 1)
      /\ flightPackets' \in InitFlight..MaxFlight
  <2>1. /\ sendNext \in Nat /\ sendNext <= txNext /\ duplicateACK \in 0..(FastAcks - 1)
        /\ flightPackets \in InitFlight..MaxFlight /\ txBase \in Nat /\ txBase <= txNext
    BY DEF Inv, TypeOK, CursorInv, SenderInv
  <2>2. reduceFlightWindow(flightPackets) \in InitFlight..MaxFlight
    BY <2>1, ReduceRange
  <2> QED
    BY <1>2, <2>1, <2>2
<1>4. armed' \in BOOLEAN /\ ((sendNext' = sendNext /\ armed' = armed) \/ armed' = TRUE)
  BY <1>2 DEF Inv, TypeOK
<1>5. CursorInv'
  BY <1>1, <1>3, <1>4 DEF Inv, CursorInv, sender
<1>6. TypeOK'
  BY <1>1, <1>3, <1>4 DEF Inv, TypeOK, sender, receiver
<1>7. SenderInv' /\ ReaderInv' /\ FragmentInv' /\ PacketInv' /\ OffsetInv'
  BY <1>1 DEF Inv, SenderInv, ReaderInv, FragmentInv, PacketInv, OffsetInv, Carries, Run, StreamBytes,
              sender, receiver
<1> QED
  BY <1>5, <1>6, <1>7 DEF Inv

\* A handshake releases bytes and leaves the old cursor where it was.
LEMMA ReconcileInv == ASSUME Inv, NEW e \in hellos, Reconcile(e) PROVE Inv' /\ txBase <= txBase'
<1>1. /\ hellos' \subseteq hellos /\ txBase <= e /\ reconcilePeer(e) /\ reconciled' = TRUE
      /\ UNCHANGED <<binding, receiver, data, acks>>
  BY DEF Reconcile, Take, validatePeerExpected
<1>2. SenderInv' /\ txBase' = e /\ e \in Nat /\ txBuf' \in Seq(Nat) /\ txNext' = txNext
  BY <1>1, ReconcileKeeps DEF receiver
<1>3. CursorInv'
  BY <1>1, <1>2 DEF Inv, TypeOK, CursorInv, binding
<1>4. TypeOK'
  BY <1>1, <1>2 DEF Inv, TypeOK, binding, receiver
<1>5. ReaderInv' /\ FragmentInv' /\ PacketInv' /\ OffsetInv'
  BY <1>1, <1>2 DEF Inv, ReaderInv, FragmentInv, PacketInv, OffsetInv, Carries, Run, StreamBytes, receiver
<1> QED
  BY <1>1, <1>2, <1>3, <1>4, <1>5 DEF Inv

\* A HELLO in a live binding releases bytes and leaves the cursor and timer.
LEMMA HelloInBindingInv ==
    ASSUME Inv, NEW e \in hellos, NEW size \in Sizes, HelloInBinding(e, size)
    PROVE  Inv' /\ txBase <= txBase'
<1>1. /\ hellos' \subseteq hellos /\ txBase <= e /\ reconcilePeer(e) /\ payloadSize' = size
      /\ UNCHANGED <<reconciled, txBound, sendNext, armed, duplicateACK, flightPackets, receiver, data, acks>>
  BY DEF HelloInBinding, Take, validatePeerExpected
<1>2. SenderInv' /\ txBase' = e /\ e \in Nat /\ txBuf' \in Seq(Nat) /\ txNext' = txNext
  BY <1>1, ReconcileKeeps DEF receiver
<1>3. CursorInv'
  BY <1>1, <1>2 DEF Inv, TypeOK, CursorInv
<1>4. TypeOK'
  BY <1>1, <1>2 DEF Inv, TypeOK, receiver
<1>5. ReaderInv' /\ FragmentInv' /\ PacketInv' /\ OffsetInv'
  BY <1>1, <1>2 DEF Inv, ReaderInv, FragmentInv, PacketInv, OffsetInv, Carries, Run, StreamBytes, receiver
<1> QED
  BY <1>1, <1>2, <1>3, <1>4, <1>5 DEF Inv

\* Binding changes touch no bytes but the dropped fragments.
LEMMA BindingInv ==
    ASSUME Inv,
           \/ \E e \in hellos : RefuseHello(e)
           \/ AbandonHandshake
           \/ \E size \in Sizes : AttachSender(size)
           \/ FailSender
    PROVE  Inv'
<1> USE WindowAssumption, FlightAssumption
<1>1. /\ hellos' \subseteq hellos /\ UNCHANGED <<txBase, txNext, txBuf, receiver, data, acks>>
      /\ reconciled' \in {reconciled, FALSE, TRUE} /\ payloadSize' \in Sizes
      /\ \/ UNCHANGED <<txBound, sendNext, armed, duplicateACK, flightPackets>>
         \/ /\ txBound' \in BOOLEAN /\ sendNext' \in {0, txBase} /\ armed' = FALSE
            /\ duplicateACK' = 0 /\ flightPackets' = InitFlight
  BY DEF RefuseHello, AbandonHandshake, AttachSender, FailSender, Take, Inv, TypeOK,
         sender, binding, receiver, net
<1>2. TypeOK'
  <2>1. /\ sendNext' \in Nat /\ duplicateACK' \in 0..(FastAcks - 1)
        /\ flightPackets' \in InitFlight..MaxFlight /\ hellos' \subseteq Nat
    BY <1>1 DEF Inv, TypeOK
  <2>2. txBound' \in BOOLEAN /\ armed' \in BOOLEAN /\ reconciled' \in BOOLEAN
    BY <1>1 DEF Inv, TypeOK
  <2>3. UNCHANGED <<txBase, txNext, txBuf, receiver, data, acks>> /\ payloadSize' \in Sizes
    BY <1>1
  <2> QED
    BY <2>1, <2>2, <2>3 DEF Inv, TypeOK, receiver
<1>3. CursorInv'
  BY <1>1 DEF Inv, TypeOK, SenderInv, CursorInv
<1>4. SenderInv' /\ ReaderInv' /\ FragmentInv' /\ PacketInv' /\ OffsetInv'
  BY <1>1 DEF Inv, SenderInv, ReaderInv, FragmentInv, PacketInv, OffsetInv, Carries, Run, StreamBytes, receiver
<1> QED
  BY <1>2, <1>3, <1>4 DEF Inv

\* A new or lost receiving binding, and a lost packet, keep the invariant.
LEMMA ReceiverBindingInv == ASSUME Inv, AttachReceiver \/ FailReceiver \/ Lose PROVE Inv'
<1>1. /\ data' \subseteq data /\ acks' \subseteq acks /\ hellos' \subseteq hellos
      /\ UNCHANGED <<sender, binding, rxNext, rxBuf, ackDirty, got>> /\ rxBound' \in BOOLEAN
      /\ (rxPending' = rxPending \/ DOMAIN rxPending' = {})
  BY DEF AttachReceiver, FailReceiver, Lose, NoPending, Inv, TypeOK, net, receiver
<1>2. TypeOK'
  BY <1>1 DEF Inv, TypeOK, sender, binding
<1>3. SenderInv' /\ CursorInv' /\ ReaderInv' /\ FragmentInv' /\ PacketInv' /\ OffsetInv'
  BY <1>1, ZenonT(30) DEF Inv, SenderInv, CursorInv, ReaderInv, FragmentInv, PacketInv, OffsetInv, Carries, Run,
              StreamBytes, sender, binding
<1> QED
  BY <1>2, <1>3 DEF Inv

\* Every action of the two sessions and of the network preserves the invariant.
LEMMA NextInv == Inv /\ [Next]_vars => Inv'
<1> SUFFICES ASSUME Inv, [Next]_vars PROVE Inv'
  OBVIOUS
<1>1. CASE (\E n \in 1..ReplayWindow : Write(n)) \/ (\E n \in 1..RxWindow : Read(n))
  BY <1>1, WriteInv, ReadInv
<1>2. CASE SendData \/ RetransmitTimeout \/ SendAck \/ SendHello
  BY <1>2, SendDataInv, RetransmitTimeoutInv, SendAckInv, SendHelloInv
<1>3. CASE RcvData
  BY <1>3, RcvRejectedInv, RcvBufferedInv, RcvAdvanceInv DEF RcvData
<1>4. CASE RcvAck
  BY <1>4, RcvAckStaleInv, RcvAckAdvanceInv, RcvAckDuplicateInv DEF RcvAck
<1>5. CASE \E e \in hellos : Reconcile(e) \/ RefuseHello(e)
  BY <1>5, ReconcileInv, BindingInv
<1>6. CASE \E e \in hellos, size \in Sizes : HelloInBinding(e, size)
  BY <1>6, HelloInBindingInv
<1>7. CASE (\E size \in Sizes : AttachSender(size)) \/ AbandonHandshake \/ FailSender
  BY <1>7, BindingInv
<1>8. CASE AttachReceiver \/ FailReceiver \/ Lose
  BY <1>8, ReceiverBindingInv
<1>9. CASE UNCHANGED vars
  <2>1. UNCHANGED <<sender, binding, receiver, net>>
    BY <1>9 DEF vars
  <2> QED
    BY <2>1 DEF Inv, TypeOK, SenderInv, CursorInv, ReaderInv, FragmentInv, PacketInv, OffsetInv, Carries, Run,
                StreamBytes, sender, binding, receiver, net
<1> QED
  BY <1>1, <1>2, <1>3, <1>4, <1>5, <1>6, <1>7, <1>8, <1>9 DEF Next

-----------------------------------------------------------------------------
(* Theorems.                                                               *)

\* The inductive invariant holds throughout every execution of the session
\* pair, whatever is lost, repeated, reordered or rebound.
THEOREM Invariance == Spec => []Inv
<1>1. Init => Inv
  BY InitInv
<1>2. Inv /\ [Next]_vars => Inv'
  BY NextInv
<1> QED
  BY <1>1, <1>2, PTL DEF Spec

\* Type correctness of both sessions and of the packets between them.
THEOREM TypeCorrect == Spec => []TypeOK
<1>1. Inv => TypeOK
  BY DEF Inv
<1> QED
  BY <1>1, Invariance, PTL

\* Read returns the written stream, byte for byte (Session.Read and
\* acceptDataLocked), for every window, packet size and number of bindings.
THEOREM DeliveryIsExact == Spec => []ExactDelivery
<1>1. Inv => ExactDelivery
  BY DEF Inv, ReaderInv, Run, ExactDelivery
<1> QED
  BY <1>1, Invariance, PTL

\* Whatever the receiver lacks is retained by the sender (reconcilePeerLocked
\* and handleAckLocked release no more than the receiver has).
THEOREM ReplayIsCovered == Spec => []ReplayCovers
<1>1. Inv => ReplayCovers
  BY DEF Inv, SenderInv, Run, ReplayCovers
<1> QED
  BY <1>1, Invariance, PTL

\* Outstanding packets always have a running timer (nextPacketLocked,
\* handleAckLocked), also after a handshake moved the base under the cursor.
THEOREM TimerIsArmed == Spec => []RetransmitArmed
<1>1. Inv => RetransmitArmed
  BY DEF Inv, CursorInv, RetransmitArmed
<1> QED
  BY <1>1, Invariance, PTL

\* acceptDataLocked never meets conflicting replay data or an exhausted
\* sequence, and handleAckLocked never an offset beyond what was written.
THEOREM PeersAgree == Spec => []NoReplayError
<1>1. Inv => NoReplayError
  <2> SUFFICES ASSUME Inv PROVE NoReplayError
    OBVIOUS
  <2>1. ASSUME NEW p \in data PROVE ~ ReplayError(p)
    <3>1. p.seq \in Nat /\ p.payload \in Seq(Nat) /\ StreamBytes(p.seq, p.payload)
          /\ EndOf(p) = p.seq + Len(p.payload) /\ EndOf(p) <= txNext /\ rxNext \in Nat /\ txNext \in Nat
      BY DEF Inv, TypeOK, PacketInv, Carries, Run, EndOf
    <3>2. ~ (EndOf(p) > MaxSeq)
      BY <3>1, WindowAssumption DEF Inv, SenderInv
    <3>3. ~ Conflicts(p)
      <4> SUFFICES ASSUME NewSeq(p) = rxNext, NEW s \in Overlapping(p),
                          NEW o \in s..(Lesser(EndOf(p), FragmentEnd(rxPending, s)) - 1)
                   PROVE  p.payload[o - p.seq + 1] = rxPending[s][o - s + 1]
        BY DEF Conflicts
      <4>1. s \in DOMAIN rxPending /\ s \in Nat /\ s > rxNext /\ rxPending[s] \in Seq(Nat)
            /\ StreamBytes(s, rxPending[s])
        BY DEF Overlapping, Inv, FragmentInv, Carries, Run
      <4>2. p.seq <= rxNext
        BY <3>1 DEF NewSeq, Greater
      <4>3. o \in Nat /\ o >= s /\ o < p.seq + Len(p.payload) /\ o < s + Len(rxPending[s])
        BY <3>1, <4>1 DEF Lesser, FragmentEnd
      <4>4. o - p.seq + 1 \in 1..Len(p.payload) /\ o - s + 1 \in 1..Len(rxPending[s])
        <5>1. p.seq \in Nat /\ rxNext \in Nat /\ s \in Nat /\ s > rxNext
              /\ Len(p.payload) \in Nat /\ Len(rxPending[s]) \in Nat
          BY <3>1, <4>1
        <5> QED
          BY ONLY <5>1, <4>2, <4>3
      <4>5. p.payload[o - p.seq + 1] = p.seq + (o - p.seq + 1) - 1
        BY <3>1, <4>4 DEF StreamBytes
      <4>6. rxPending[s][o - s + 1] = s + (o - s + 1) - 1
        BY <4>1, <4>4 DEF StreamBytes
      <4> QED
        BY <4>5, <4>6, <3>1, <4>1, <4>3, SMTT(30)
    <3> QED
      BY <3>2, <3>3 DEF ReplayError
  <2>2. \A e \in acks : e <= txNext
    BY DEF Inv, TypeOK, OffsetInv, SenderInv
  <2> QED
    BY <2>1, <2>2 DEF NoReplayError
<1> QED
  BY <1>1, Invariance, PTL

\* The replay protocol implements ByteStream: whatever the transport does, each
\* step is a write, an in-order acceptance, a release of what was accepted, an
\* in-order read, or no change to the stream at all.
THEOREM Implements == Spec => StreamSpec
<1>1. Init => Stream!Init
  BY DEF Init, Stream!Init
<1>2. Inv /\ Inv' /\ [Next]_vars => [Stream!Next]_(Stream!vars)
  <2> SUFFICES ASSUME Inv, Inv', [Next]_vars PROVE [Stream!Next]_(Stream!vars)
    OBVIOUS
  <2>0. /\ txBase \in Nat /\ txNext \in Nat /\ rxNext \in Nat
        /\ txBase' \in Nat /\ txNext' \in Nat /\ rxNext' \in Nat
        /\ txBase' <= rxNext' /\ rxNext' <= txNext'
    BY DEF Inv, TypeOK, SenderInv
  <2>1. ASSUME NEW n \in 1..ReplayWindow, Write(n) PROVE Stream!Write
    <3>1. txNext' = txNext + n /\ UNCHANGED <<rxNext, txBase, got>>
      BY <2>1 DEF Write, receiver
    <3>2. txNext' > txNext
      BY <3>1, <2>0, WindowAssumption
    <3> QED
      BY <3>1, <3>2, <2>0 DEF Stream!Write
  <2>2. ASSUME NEW n \in 1..RxWindow, Read(n) PROVE Stream!Read
    <3>1. /\ UNCHANGED <<txNext, rxNext, txBase>> /\ n <= Len(rxBuf)
          /\ got' = got \o SubSeq(rxBuf, 1, n)
      BY <2>2 DEF Read, sender
    <3>2. got' \in Seq(Nat) /\ StreamBytes(0, got') /\ Len(got') \in Nat /\ Len(got') <= rxNext'
      BY <2>0 DEF Inv, ReaderInv, Run, StreamBytes
    <3>3. Len(got) \in Nat /\ Len(got) <= Len(got')
      <4>1. got \in Seq(Nat) /\ rxBuf \in Seq(Nat) /\ n \in Nat
        BY WindowAssumption DEF Inv, TypeOK
      <4>2. SubSeq(rxBuf, 1, n) \in Seq(Nat)
        BY <4>1, <3>1
      <4>3. Len(got') = Len(got) + Len(SubSeq(rxBuf, 1, n)) /\ Len(SubSeq(rxBuf, 1, n)) \in Nat
        BY <4>1, <4>2, <3>1
      <4> QED
        BY <4>1, <4>3
    <3>4. got' = [i \in 1..Len(got') |-> i - 1]
      <4>1. got' = [i \in 1..Len(got') |-> got'[i]]
        BY <3>2
      <4>2. \A i \in 1..Len(got') : got'[i] = i - 1
        BY <3>2 DEF StreamBytes
      <4> QED
        BY <4>1, <4>2
    <3>5. Len(got') \in Len(got)..rxNext
      BY <3>1, <3>2, <3>3, <2>0
    <3> QED
      BY <3>1, <3>4, <3>5 DEF Stream!Read
  <2>3. ASSUME NEW p \in data, RcvAdvance(p) PROVE Stream!Accept
    <3>1. UNCHANGED <<txNext, txBase, got>>
      BY <2>3 DEF RcvAdvance, sender
    <3>2. rxNext <= rxNext'
      BY <2>3, RcvAdvanceInv
    <3> QED
      BY <3>1, <3>2, <2>0 DEF Stream!Accept
  <2>4. ASSUME txBase <= txBase', UNCHANGED <<txNext, rxNext, got>> PROVE Stream!Release
    BY <2>4, <2>0 DEF Stream!Release
  <2>5. ASSUME NEW e \in acks, RcvAckAdvance(e) PROVE Stream!Release
    <3>1. UNCHANGED <<txNext, rxNext, got>>
      BY <2>5 DEF RcvAckAdvance, reconcilePeer, receiver
    <3> QED
      BY <3>1, <2>4, <2>5, RcvAckAdvanceInv
  <2>6. ASSUME NEW e \in hellos, Reconcile(e) PROVE Stream!Release
    <3>1. UNCHANGED <<txNext, rxNext, got>>
      BY <2>6 DEF Reconcile, reconcilePeer, receiver
    <3> QED
      BY <3>1, <2>4, <2>6, ReconcileInv
  <2>7. ASSUME NEW e \in hellos, NEW size \in Sizes, HelloInBinding(e, size) PROVE Stream!Release
    <3>1. UNCHANGED <<txNext, rxNext, got>>
      BY <2>7 DEF HelloInBinding, reconcilePeer, receiver
    <3> QED
      BY <3>1, <2>4, <2>7, HelloInBindingInv
  <2>8. CASE \/ SendData \/ RetransmitTimeout \/ SendAck \/ SendHello
             \/ (\E p \in data : RcvRejected(p) \/ RcvBuffered(p))
             \/ (\E e \in acks : RcvAckStale(e) \/ RcvAckDuplicate(e))
             \/ (\E e \in hellos : RefuseHello(e)) \/ (\E size \in Sizes : AttachSender(size))
             \/ AttachReceiver \/ AbandonHandshake \/ FailSender \/ FailReceiver \/ Lose
             \/ UNCHANGED vars
    <3>1. UNCHANGED <<txNext, rxNext, txBase, got>>
      BY <2>8 DEF SendData, RetransmitTimeout, SendAck, SendHello, RcvRejected, RcvBuffered, RcvAckStale,
                  RcvAckDuplicate, RefuseHello, AttachSender, AttachReceiver, AbandonHandshake, FailSender,
                  FailReceiver, Lose, vars, sender, binding, receiver, net
    <3> QED
      BY <3>1 DEF Stream!vars
  <2> QED
    BY <2>1, <2>2, <2>3, <2>5, <2>6, <2>7, <2>8 DEF Next, RcvData, RcvAck, Stream!Next
<1> QED
  BY <1>1, <1>2, Invariance, PTL DEF Spec, StreamSpec, Stream!Spec

-----------------------------------------------------------------------------
(* Counting fragments. TotalBytes and OverlapBytes are sums over a set of  *)
(* fragments; of fragments that do not overlap they are the number of      *)
(* offsets covered, and then what a step does to them is a matter of sets. *)

Less == {p \in Nat \X Nat : p[1] < p[2]}

\* The order of the natural numbers is well founded.
LEMMA LessWF == IsWellFoundedOn(Less, Nat)
BY NatLessThanWellFounded DEF OpToRel, Less

\* A set with 0 that is closed under the successor has every number.
LEMMA SetInduction ==
    ASSUME NEW T, 0 \in T, \A n \in Nat : n \in T => n + 1 \in T
    PROVE  Nat \subseteq T
<1> SUFFICES ASSUME NEW m \in Nat \ T PROVE FALSE
  OBVIOUS
<1> DEFINE S == Nat \ T
<1>1. S \subseteq Nat /\ S # {}
  OBVIOUS
<1> HIDE DEF S
<1>2. PICK x \in S : \A y \in S : ~ (<<y, x>> \in Less)
  BY LessWF, <1>1, WFMin
<1>3. x \in Nat /\ x # 0 /\ x - 1 \in Nat
  BY <1>1, <1>2 DEF S
<1>4. x - 1 \in S
  BY <1>2, <1>3 DEF S
<1>5. <<x - 1, x>> \in Less
  BY <1>3 DEF Less
<1> QED BY <1>2, <1>4, <1>5

\* A sum over S, one element at a time, as MapThenSumSet takes it.
Sums(S, f, g) ==
    g = [T \in SUBSET S |-> IF T = {} THEN 0
                            ELSE f[CHOOSE x \in T : TRUE] + g[T \ {CHOOSE x \in T : TRUE}]]

\* B gives each element of S a finite set of its own.
Disjoint(S, B) ==
    /\ IsFiniteSet(S) /\ \A s \in S : IsFiniteSet(B[s])
    /\ \A s, t \in S : s # t => B[s] \cap B[t] = {}

All(T, B) == UNION {B[s] : s \in T}

SizesOf(S, B) == [s \in S |-> Cardinality(B[s])]

\* One more set of its own adds its size to the union.
LEMMA AllStep ==
    ASSUME NEW S, NEW B, Disjoint(S, B), NEW T \in SUBSET S, NEW x \in T, IsFiniteSet(All(T \ {x}, B))
    PROVE  /\ IsFiniteSet(All(T, B))
           /\ Cardinality(All(T, B)) = Cardinality(B[x]) + Cardinality(All(T \ {x}, B))
<1>1. All(T, B) = B[x] \cup All(T \ {x}, B)
  BY DEF All
<1>2. B[x] \cap All(T \ {x}, B) = {}
  BY DEF All, Disjoint
<1>3. IsFiniteSet(B[x])
  BY DEF Disjoint
<1> DEFINE P == B[x]
           Q == All(T \ {x}, B)
<1>4. IsFiniteSet(P) /\ IsFiniteSet(Q) /\ P \cap Q = {} /\ All(T, B) = P \cup Q
  BY <1>1, <1>2, <1>3
<1> HIDE DEF P, Q
<1>5. /\ IsFiniteSet(P \cup Q)
      /\ Cardinality(P \cup Q) = Cardinality(P) + Cardinality(Q) - Cardinality(P \cap Q)
  BY <1>4, FS_Union
<1>6. Cardinality(P \cap Q) = 0 /\ Cardinality(P) \in Nat /\ Cardinality(Q) \in Nat
  BY <1>4, FS_EmptySet, FS_CardinalityType
<1>7. Cardinality(P \cup Q) = Cardinality(P) + Cardinality(Q)
  BY <1>5, <1>6
<1> QED BY <1>4, <1>5, <1>7 DEF P, Q

\* Every part of a finite family of finite sets has a finite union.
LEMMA AllFinite ==
    ASSUME NEW S, NEW B, Disjoint(S, B)
    PROVE  \A T \in SUBSET S : IsFiniteSet(T) /\ IsFiniteSet(All(T, B))
<1> DEFINE U == {n \in Nat : \A T \in SUBSET S : IsFiniteSet(T) /\ Cardinality(T) = n => IsFiniteSet(All(T, B))}
<1>1. 0 \in U
  <2>1. ASSUME NEW T \in SUBSET S, IsFiniteSet(T), Cardinality(T) = 0 PROVE IsFiniteSet(All(T, B))
    <3>1. T = {}
      BY <2>1, FS_EmptySet
    <3>2. All(T, B) = {}
      BY <3>1 DEF All
    <3> QED BY <3>2, FS_EmptySet
  <2> QED BY <2>1
<1>2. ASSUME NEW n \in Nat, n \in U PROVE n + 1 \in U
  <2>1. ASSUME NEW T \in SUBSET S, IsFiniteSet(T), Cardinality(T) = n + 1 PROVE IsFiniteSet(All(T, B))
    <3>1. T # {}
      BY <2>1, FS_EmptySet
    <3>2. PICK x \in T : TRUE
      BY <3>1
    <3>3. IsFiniteSet(T \ {x}) /\ Cardinality(T \ {x}) = n
      BY <2>1, <3>2, FS_RemoveElement
    <3>4. T \ {x} \in SUBSET S
      OBVIOUS
    <3>5. IsFiniteSet(All(T \ {x}, B))
      BY <1>2, <3>3, <3>4
    <3> QED BY <3>2, <3>5, AllStep
  <2>2. n + 1 \in Nat
    OBVIOUS
  <2> QED BY <2>1, <2>2
<1>3. Nat \subseteq U
  <2> HIDE DEF U
  <2> QED BY <1>1, <1>2, SetInduction
<1>4. ASSUME NEW T \in SUBSET S PROVE IsFiniteSet(T) /\ IsFiniteSet(All(T, B))
  <2>1. IsFiniteSet(T) /\ Cardinality(T) \in Nat
    BY FS_Subset, FS_CardinalityType DEF Disjoint
  <2>2. Cardinality(T) \in U
    BY <1>3, <2>1
  <2> QED BY <2>1, <2>2
<1> QED BY <1>4

\* The sum of the sizes is the size of the union.
LEMMA SumsUnion ==
    ASSUME NEW S, NEW B, Disjoint(S, B)
    PROVE  /\ \E g : Sums(S, SizesOf(S, B), g)
           /\ \A g : Sums(S, SizesOf(S, B), g) => g[S] = Cardinality(All(S, B))
<1> DEFINE f == SizesOf(S, B)
           h == [T \in SUBSET S |-> Cardinality(All(T, B))]
<1>0. h[{}] = 0
  <2>1. All({}, B) = {}
    BY DEF All
  <2> QED BY <2>1, FS_EmptySet
<1>1. ASSUME NEW T \in SUBSET S, T # {}
      PROVE  LET x == CHOOSE x \in T : TRUE
             IN  x \in T /\ T \ {x} \in SUBSET S /\ h[T] = f[x] + h[T \ {x}]
  <2> DEFINE x == CHOOSE x \in T : TRUE
  <2>1. x \in T /\ T \ {x} \in SUBSET S
    BY <1>1
  <2> HIDE DEF x
  <2>2. IsFiniteSet(All(T \ {x}, B))
    BY <2>1, AllFinite
  <2>3. Cardinality(All(T, B)) = Cardinality(B[x]) + Cardinality(All(T \ {x}, B))
    BY <2>1, <2>2, AllStep
  <2>4. x \in T /\ T \ {x} \in SUBSET S /\ h[T] = f[x] + h[T \ {x}]
    BY <2>1, <2>3 DEF SizesOf
  <2> HIDE DEF f, h
  <2> QED BY <2>4 DEF x
<1>2. Sums(S, f, h)
  <2>1. ASSUME NEW T \in SUBSET S
        PROVE  h[T] = IF T = {} THEN 0 ELSE f[CHOOSE x \in T : TRUE] + h[T \ {CHOOSE x \in T : TRUE}]
    <3> HIDE DEF h, f
    <3> QED BY <1>0, <1>1
  <2>2. h = [T \in SUBSET S |-> h[T]]
    OBVIOUS
  <2> HIDE DEF h, f
  <2> QED BY <2>1, <2>2 DEF Sums
<1> HIDE DEF h, f
<1>3. ASSUME NEW g, Sums(S, f, g) PROVE g[S] = h[S]
  <2>0. \A T \in SUBSET S : g[T] = IF T = {} THEN 0 ELSE f[CHOOSE x \in T : TRUE] + g[T \ {CHOOSE x \in T : TRUE}]
    BY <1>3 DEF Sums
  <2> DEFINE U == {n \in Nat : \A T \in SUBSET S : Cardinality(T) = n => g[T] = h[T]}
  <2>1. 0 \in U
    <3>1. ASSUME NEW T \in SUBSET S, Cardinality(T) = 0 PROVE g[T] = h[T]
      <4>1. T = {}
        BY <3>1, AllFinite, FS_EmptySet
      <4> QED BY <1>0, <2>0, <4>1
    <3> QED BY <3>1
  <2>2. ASSUME NEW n \in Nat, n \in U PROVE n + 1 \in U
    <3>1. ASSUME NEW T \in SUBSET S, Cardinality(T) = n + 1 PROVE g[T] = h[T]
      <4> DEFINE x == CHOOSE x \in T : TRUE
      <4>1. IsFiniteSet(T) /\ T # {}
        BY <3>1, AllFinite, FS_EmptySet
      <4>2. x \in T /\ T \ {x} \in SUBSET S /\ h[T] = f[x] + h[T \ {x}]
        BY <1>1, <4>1
      <4>3. g[T] = f[x] + g[T \ {x}]
        BY <2>0, <4>1
      <4> HIDE DEF x
      <4>4. Cardinality(T \ {x}) = n
        <5>1. Cardinality(T \ {x}) = Cardinality(T) - 1
          BY <4>1, <4>2, FS_RemoveElement
        <5> QED BY ONLY <5>1, <3>1, n \in Nat
      <4>5. g[T \ {x}] = h[T \ {x}]
        BY <2>2, <4>2, <4>4
      <4> QED BY <4>2, <4>3, <4>5
    <3>2. n + 1 \in Nat
      OBVIOUS
    <3> QED BY <3>1, <3>2
  <2>3. Nat \subseteq U
    <3> HIDE DEF U
    <3> QED BY <2>1, <2>2, SetInduction
  <2>4. S \in SUBSET S /\ Cardinality(S) \in Nat
    BY FS_CardinalityType DEF Disjoint
  <2> QED BY <2>3, <2>4
<1>4. h[S] = Cardinality(All(S, B))
  BY DEF h
<1> QED BY <1>2, <1>3, <1>4 DEF f

\* TotalBytes counts a union when each fragment's length is its set's size.
LEMMA TotalUnion ==
    ASSUME NEW S, NEW B, Disjoint(S, B), NEW pending, \A s \in S : Len(pending[s]) = Cardinality(B[s])
    PROVE  TotalBytes(pending, S) = Cardinality(All(S, B))
<1> DEFINE Sum(g) == g = [T \in SUBSET S |-> IF T = {} THEN 0
                        ELSE Len(pending[CHOOSE x \in T : TRUE]) + g[T \ {CHOOSE x \in T : TRUE}]]
           G == CHOOSE g : Sum(g)
<1>1. \A g : Sum(g) <=> Sums(S, SizesOf(S, B), g)
  <2>1. ASSUME NEW T \in SUBSET S, T # {}
        PROVE  Len(pending[CHOOSE x \in T : TRUE]) = SizesOf(S, B)[CHOOSE x \in T : TRUE]
    <3>1. (CHOOSE x \in T : TRUE) \in S
      BY <2>1
    <3> QED BY <3>1 DEF SizesOf
  <2> QED BY <2>1 DEF Sums
<1>2. TotalBytes(pending, S) = G[S]
  BY DEF TotalBytes, MapThenSumSet, MapThenFoldSet
<1>3. Sum(G)
  <2> HIDE DEF Sum
  <2>1. \E g : Sum(g)
    BY <1>1, SumsUnion
  <2> QED BY <2>1
<1> HIDE DEF G, Sum
<1> QED BY <1>1, <1>2, <1>3, SumsUnion
-----------------------------------------------------------------------------
(* Maps of fragments that do not overlap.                                  *)

Apart(pending) ==
    \A s, t \in DOMAIN pending : s < t => FragmentEnd(pending, s) <= t

Tidy(pending) ==
    /\ IsFiniteSet(DOMAIN pending)
    /\ \A s \in DOMAIN pending : s \in Nat /\ pending[s] \in Seq(Nat) /\ Len(pending[s]) >= 1
    /\ Apart(pending)

Span(pending) == [s \in DOMAIN pending |-> s..(FragmentEnd(pending, s) - 1)]

\* The offsets the fragments that start in T hold.
Offsets(pending, T) == All(T, Span(pending))

\* Membership in Offsets, in terms of the fragments.
LEMMA OffsetsHold ==
    ASSUME NEW pending, Tidy(pending), NEW T \in SUBSET DOMAIN pending, NEW o
    PROVE  o \in Offsets(pending, T) <=> o \in Nat /\ \E s \in T : Holds(pending, s, o)
<1>1. \A s \in T : Span(pending)[s] = s..(FragmentEnd(pending, s) - 1) /\ s \in Nat
                   /\ Len(pending[s]) \in Nat
  BY DEF Tidy, Span
<1>2. o \in Offsets(pending, T) <=> \E s \in T : o \in Span(pending)[s]
  BY DEF Offsets, All
<1>3. \A s \in T : o \in Span(pending)[s] <=> o \in Nat /\ Holds(pending, s, o)
  BY <1>1 DEF Holds, FragmentEnd
<1> QED BY <1>2, <1>3

\* Fragments that do not overlap have spans of their own.
LEMMA SpanDisjoint ==
    ASSUME NEW pending, Tidy(pending), NEW T \in SUBSET DOMAIN pending
    PROVE  /\ Disjoint(T, Span(pending))
           /\ \A s \in T : Len(pending[s]) = Cardinality(Span(pending)[s])
<1>1. \A s \in T : /\ Span(pending)[s] = s..(s + Len(pending[s]) - 1) /\ s \in Nat
                   /\ Len(pending[s]) \in Nat /\ Len(pending[s]) >= 1
  BY DEF Tidy, Span, FragmentEnd
<1>2. ASSUME NEW s \in T
      PROVE  IsFiniteSet(Span(pending)[s]) /\ Len(pending[s]) = Cardinality(Span(pending)[s])
  <2> DEFINE b == s + Len(pending[s]) - 1
  <2>1. s \in Int /\ b \in Int /\ ~ (s > b) /\ b - s + 1 = Len(pending[s])
    BY <1>1
  <2>2. Span(pending)[s] = s..b
    BY <1>1
  <2> HIDE DEF b
  <2>3. IsFiniteSet(s..b) /\ Cardinality(s..b) = b - s + 1
    BY <2>1, FS_Interval
  <2> QED BY <2>1, <2>2, <2>3
<1>3. ASSUME NEW s \in T, NEW t \in T, s # t PROVE Span(pending)[s] \cap Span(pending)[t] = {}
  <2>1. s < t \/ t < s
    BY <1>1, <1>3
  <2>2. s < t => s + Len(pending[s]) <= t
    BY DEF Tidy, Apart, FragmentEnd
  <2>3. t < s => t + Len(pending[t]) <= s
    BY DEF Tidy, Apart, FragmentEnd
  <2> QED BY <1>1, <2>1, <2>2, <2>3
<1>4. IsFiniteSet(T)
  BY FS_Subset DEF Tidy
<1> QED BY <1>2, <1>3, <1>4 DEF Disjoint

\* TotalBytes counts the offsets held.
LEMMA Counted ==
    ASSUME NEW pending, Tidy(pending), NEW T \in SUBSET DOMAIN pending
    PROVE  /\ IsFiniteSet(Offsets(pending, T))
           /\ TotalBytes(pending, T) = Cardinality(Offsets(pending, T))
           /\ TotalBytes(pending, T) \in Nat
<1>1. Disjoint(T, Span(pending)) /\ \A s \in T : Len(pending[s]) = Cardinality(Span(pending)[s])
  BY SpanDisjoint
<1>2. T \in SUBSET T
  OBVIOUS
<1>3. IsFiniteSet(Offsets(pending, T))
  BY <1>1, <1>2, AllFinite DEF Offsets
<1>4. TotalBytes(pending, T) = Cardinality(Offsets(pending, T))
  BY <1>1, TotalUnion DEF Offsets
<1> QED BY <1>3, <1>4, FS_CardinalityType

\* Two disjoint finite sets have the size of both together.
LEMMA CountApart ==
    ASSUME NEW P, NEW Q, IsFiniteSet(P), IsFiniteSet(Q), P \cap Q = {}
    PROVE  Cardinality(P \cup Q) = Cardinality(P) + Cardinality(Q)
<1>1. Cardinality(P \cup Q) = Cardinality(P) + Cardinality(Q) - Cardinality(P \cap Q)
  BY FS_Union
<1>2. Cardinality(P \cap Q) = 0 /\ Cardinality(P) \in Nat /\ Cardinality(Q) \in Nat
  BY FS_EmptySet, FS_CardinalityType
<1> QED BY <1>1, <1>2

\* The bytes of two groups of fragments add up.
LEMMA TotalSplit ==
    ASSUME NEW pending, Tidy(pending), NEW T \in SUBSET DOMAIN pending, NEW U \in SUBSET DOMAIN pending,
           T \cap U = {}
    PROVE  TotalBytes(pending, T \cup U) = TotalBytes(pending, T) + TotalBytes(pending, U)
<1> DEFINE P == Offsets(pending, T)
           Q == Offsets(pending, U)
<1>1. Offsets(pending, T \cup U) = P \cup Q
  BY DEF Offsets, All
<1>2. P \cap Q = {}
  <2>1. T \cup U \in SUBSET DOMAIN pending
    OBVIOUS
  <2>2. Disjoint(T \cup U, Span(pending))
    BY <2>1, SpanDisjoint
  <2>3. \A s \in T, t \in U : Span(pending)[s] \cap Span(pending)[t] = {}
    BY <2>2 DEF Disjoint
  <2> QED BY <2>3 DEF Offsets, All
<1>3. IsFiniteSet(P) /\ TotalBytes(pending, T) = Cardinality(P)
  BY Counted
<1>4. IsFiniteSet(Q) /\ TotalBytes(pending, U) = Cardinality(Q)
  BY Counted
<1>5. TotalBytes(pending, T \cup U) = Cardinality(P \cup Q)
  <2>1. T \cup U \in SUBSET DOMAIN pending
    OBVIOUS
  <2> QED BY <1>1, <2>1, Counted
<1> HIDE DEF P, Q
<1> QED BY <1>2, <1>3, <1>4, <1>5, CountApart

\* Maps that agree on a group count it alike.
LEMMA TotalAgree ==
    ASSUME NEW pending, NEW other, Tidy(pending), Tidy(other),
           NEW T \in SUBSET DOMAIN pending, T \subseteq DOMAIN other,
           \A s \in T : pending[s] = other[s]
    PROVE  TotalBytes(pending, T) = TotalBytes(other, T)
<1>1. \A s \in T : Span(pending)[s] = Span(other)[s]
  BY DEF Span, FragmentEnd
<1>2. Offsets(pending, T) = Offsets(other, T)
  BY <1>1 DEF Offsets, All
<1>3. TotalBytes(other, T) = Cardinality(Offsets(other, T))
  BY Counted
<1> QED BY <1>2, <1>3, Counted
-----------------------------------------------------------------------------
(* What Trim does to such a map.                                           *)

\* A fragment that reaches past end stays, from end on at the earliest.
LEMMA TrimShape ==
    ASSUME NEW pending, Tidy(pending), NEW end \in Nat,
           NEW s \in DOMAIN pending, FragmentEnd(pending, s) > end,
           NEW t, t = Greater(s, end)
    PROVE  /\ t \in DOMAIN Trim(pending, end) /\ t \in Nat /\ t >= end /\ t >= s
           /\ t < FragmentEnd(pending, s)
           /\ Trim(pending, end)[t] = SubSeq(pending[s], t - s + 1, Len(pending[s]))
           /\ Trim(pending, end)[t] \in Seq(Nat) /\ Len(Trim(pending, end)[t]) >= 1
           /\ FragmentEnd(Trim(pending, end), t) = FragmentEnd(pending, s)
<1> DEFINE live == {u \in DOMAIN pending : FragmentEnd(pending, u) > end}
           u == CHOOSE u \in live : Greater(u, end) = t
<1>1. s \in live
  OBVIOUS
<1>2. u \in live /\ Greater(u, end) = t
  BY <1>1
<1>3. /\ DOMAIN Trim(pending, end) = {Greater(x, end) : x \in live}
      /\ t \in DOMAIN Trim(pending, end)
      /\ Trim(pending, end)[t] = SubSeq(pending[u], t - u + 1, Len(pending[u]))
  BY <1>1 DEF Trim
<1> HIDE DEF u
<1>4. /\ s \in Nat /\ u \in Nat /\ u \in DOMAIN pending
      /\ pending[s] \in Seq(Nat) /\ Len(pending[s]) \in Nat
      /\ FragmentEnd(pending, s) = s + Len(pending[s]) /\ FragmentEnd(pending, u) = u + Len(pending[u])
      /\ FragmentEnd(pending, u) > end
      /\ s < u => FragmentEnd(pending, s) <= u
      /\ u < s => FragmentEnd(pending, u) <= s
      /\ Len(pending[u]) \in Nat /\ Len(pending[s]) >= 1
  BY <1>2 DEF Tidy, Apart, FragmentEnd
<1> HIDE DEF live
<1>5. u = s
  BY <1>2, <1>4 DEF Greater
<1>6. t \in Nat /\ t >= end /\ t >= s /\ t < FragmentEnd(pending, s)
  BY <1>4 DEF Greater
<1> DEFINE q == pending[s]
           m == t - s + 1
           len == Len(q)
<1>7. q \in Seq(Nat) /\ m \in Int /\ len \in Int /\ 1 <= m /\ m <= len /\ len <= Len(q) /\ len = Len(pending[s])
  BY <1>4, <1>6
<1> HIDE DEF q, m, len
<1>8. SubSeq(q, m, len) \in Seq(Nat) /\ Len(SubSeq(q, m, len)) = len - m + 1
  BY <1>7
<1>9. Trim(pending, end)[t] = SubSeq(q, m, len)
  BY <1>3, <1>5 DEF q, m, len
<1>10. Len(SubSeq(q, m, len)) = FragmentEnd(pending, s) - t
  <2> DEFINE l == Len(pending[s])
  <2>1. s \in Nat /\ t \in Nat /\ l \in Nat /\ len = l /\ m = t - s + 1
    BY <1>4, <1>6, <1>7 DEF m
  <2>2. FragmentEnd(pending, s) = s + l
    BY <1>4
  <2> HIDE DEF l
  <2>3. l - (t - s + 1) + 1 = (s + l) - t
    BY ONLY <2>1
  <2> QED BY <1>8, <2>1, <2>2, <2>3
<1>11. FragmentEnd(Trim(pending, end), t) = FragmentEnd(pending, s)
  <2>1. t + (FragmentEnd(pending, s) - t) = FragmentEnd(pending, s)
    BY <1>4, <1>6
  <2> QED BY <1>9, <1>10, <2>1 DEF FragmentEnd
<1>12. Trim(pending, end)[t] \in Seq(Nat) /\ Len(Trim(pending, end)[t]) >= 1
  <2>1. FragmentEnd(pending, s) - t >= 1
    BY <1>4, <1>6
  <2> QED BY <1>8, <1>9, <1>10, <2>1
<1> QED BY <1>3, <1>5, <1>6, <1>11, <1>12

\* Every fragment kept comes from one that reached past end.
LEMMA TrimSource ==
    ASSUME NEW pending, NEW end, NEW t \in DOMAIN Trim(pending, end)
    PROVE  \E s \in DOMAIN pending : FragmentEnd(pending, s) > end /\ t = Greater(s, end)
  BY DEF Trim

\* Trimmed fragments are still apart, and no more than before.
LEMMA TrimTidy ==
    ASSUME NEW pending, Tidy(pending), NEW end \in Nat
    PROVE  /\ Tidy(Trim(pending, end))
           /\ Cardinality(DOMAIN Trim(pending, end)) <= Cardinality(DOMAIN pending)
<1> DEFINE kept == Trim(pending, end)
           live == {s \in DOMAIN pending : FragmentEnd(pending, s) > end}
           f == [s \in live |-> Greater(s, end)]
<1>1. f \in Surjection(live, DOMAIN kept)
  <2>1. DOMAIN kept = {Greater(s, end) : s \in live}
    BY DEF Trim
  <2> HIDE DEF live, kept
  <2>2. f \in [live -> DOMAIN kept] /\ \A t \in DOMAIN kept : \E s \in live : f[s] = t
    BY <2>1
  <2> HIDE DEF f
  <2> QED BY <2>2 DEF Surjection
<1>2. IsFiniteSet(live) /\ Cardinality(live) <= Cardinality(DOMAIN pending)
  <2>1. live \in SUBSET DOMAIN pending /\ IsFiniteSet(DOMAIN pending)
    BY DEF Tidy
  <2> HIDE DEF live
  <2> QED BY <2>1, FS_Subset
<1>3. IsFiniteSet(DOMAIN kept) /\ Cardinality(DOMAIN kept) <= Cardinality(live)
  <2> HIDE DEF f, live, kept
  <2> QED BY <1>1, <1>2, FS_Surjection
<1>4. Cardinality(DOMAIN kept) <= Cardinality(DOMAIN pending)
  <2>1. Cardinality(DOMAIN kept) \in Nat /\ Cardinality(live) \in Nat /\ Cardinality(DOMAIN pending) \in Nat
    BY <1>2, <1>3, FS_CardinalityType DEF Tidy
  <2> HIDE DEF live, kept
  <2> QED BY <1>2, <1>3, <2>1
<1> HIDE DEF live, f, kept
<1>5. \A t \in DOMAIN kept : t \in Nat /\ kept[t] \in Seq(Nat) /\ Len(kept[t]) >= 1
  <2> SUFFICES ASSUME NEW t \in DOMAIN kept PROVE t \in Nat /\ kept[t] \in Seq(Nat) /\ Len(kept[t]) >= 1
    OBVIOUS
  <2>1. PICK s \in DOMAIN pending : FragmentEnd(pending, s) > end /\ t = Greater(s, end)
    BY TrimSource DEF kept
  <2> QED BY <2>1, TrimShape DEF kept
<1>6. Apart(kept)
  <2> SUFFICES ASSUME NEW t \in DOMAIN kept, NEW u \in DOMAIN kept, t < u
               PROVE  FragmentEnd(kept, t) <= u
    BY DEF Apart
  <2>1. PICK s \in DOMAIN pending : FragmentEnd(pending, s) > end /\ t = Greater(s, end)
    BY TrimSource DEF kept
  <2>2. PICK v \in DOMAIN pending : FragmentEnd(pending, v) > end /\ u = Greater(v, end)
    BY TrimSource DEF kept
  <2>3. FragmentEnd(kept, t) = FragmentEnd(pending, s) /\ t >= s /\ t \in Nat /\ t >= end
    BY <2>1, TrimShape DEF kept
  <2>4. s \in Nat /\ v \in Nat /\ Len(pending[s]) \in Nat
    BY DEF Tidy
  <2>5. s < v /\ v <= u /\ u \in Nat
    BY <2>1, <2>2, <2>3, <2>4 DEF Greater
  <2>6. FragmentEnd(pending, s) <= v /\ FragmentEnd(pending, s) \in Nat
    BY <2>4, <2>5 DEF Tidy, Apart, FragmentEnd
  <2> QED BY <2>3, <2>4, <2>5, <2>6
<1> QED BY <1>3, <1>4, <1>5, <1>6 DEF Tidy, kept

\* The offsets kept are the ones from end on.
LEMMA TrimOffsets ==
    ASSUME NEW pending, Tidy(pending), NEW end \in Nat
    PROVE  Offsets(Trim(pending, end), DOMAIN Trim(pending, end))
             = {o \in Offsets(pending, DOMAIN pending) : o >= end}
<1> DEFINE kept == Trim(pending, end)
           D == DOMAIN pending
           E == DOMAIN kept
<1>0. Tidy(kept) /\ D \in SUBSET D /\ E \in SUBSET E
  BY TrimTidy
<1> HIDE DEF kept
<1>1. \A o : o \in Offsets(kept, E) <=> o \in Nat /\ \E t \in E : Holds(kept, t, o)
  BY <1>0, OffsetsHold
<1>2. \A o : o \in Offsets(pending, D) <=> o \in Nat /\ \E s \in D : Holds(pending, s, o)
  BY <1>0, OffsetsHold
<1>3. ASSUME NEW o \in Nat, NEW t \in E, Holds(kept, t, o)
      PROVE  o >= end /\ \E s \in D : Holds(pending, s, o)
  <2>1. PICK s \in D : FragmentEnd(pending, s) > end /\ t = Greater(s, end)
    BY TrimSource DEF kept
  <2>2. FragmentEnd(kept, t) = FragmentEnd(pending, s) /\ t >= s /\ t >= end /\ t \in Nat
    BY <2>1, TrimShape DEF kept
  <2>3. s \in Nat
    BY DEF Tidy
  <2>4. o >= end /\ s <= o
    BY <1>3, <2>2, <2>3 DEF Holds
  <2>5. Holds(pending, s, o)
    BY <1>3, <2>2, <2>4 DEF Holds
  <2> QED BY <2>4, <2>5
<1>4. ASSUME NEW o \in Nat, o >= end, NEW s \in D, Holds(pending, s, o)
      PROVE  \E t \in E : Holds(kept, t, o)
  <2> DEFINE t == Greater(s, end)
  <2>1. s \in Nat /\ Len(pending[s]) \in Nat /\ FragmentEnd(pending, s) \in Nat
    BY DEF Tidy, FragmentEnd
  <2>2. FragmentEnd(pending, s) > end
    BY <1>4, <2>1 DEF Holds
  <2>3. t \in E /\ FragmentEnd(kept, t) = FragmentEnd(pending, s)
    BY <2>2, TrimShape DEF kept
  <2>4. t <= o
    BY <1>4, <2>1 DEF Holds, Greater
  <2>5. Holds(kept, t, o)
    BY <1>4, <2>3, <2>4 DEF Holds
  <2> QED BY <2>3, <2>5
<1>5. \A o : o \in Offsets(kept, E) <=> o \in Offsets(pending, D) /\ o >= end
  BY <1>1, <1>2, <1>3, <1>4
<1>6. Offsets(kept, E) = {o \in Offsets(pending, D) : o >= end}
  BY <1>5
<1> QED BY <1>6 DEF kept

\* The fragments Trim leaves alone are the ones that start at end or later.
LEMMA TrimSame ==
    ASSUME NEW pending, Tidy(pending), NEW end \in Nat
    PROVE  /\ DOMAIN Trim(pending, end) \cap DOMAIN pending = {s \in DOMAIN pending : s >= end}
           /\ \A s \in DOMAIN pending : s >= end => Trim(pending, end)[s] = pending[s]
<1>1. ASSUME NEW s \in DOMAIN pending, s >= end
      PROVE  s \in DOMAIN Trim(pending, end) /\ Trim(pending, end)[s] = pending[s]
  <2>1. /\ s \in Nat /\ pending[s] \in Seq(Nat) /\ Len(pending[s]) \in Nat /\ Len(pending[s]) >= 1
        /\ FragmentEnd(pending, s) = s + Len(pending[s])
    BY DEF Tidy, FragmentEnd
  <2>2. s = Greater(s, end) /\ FragmentEnd(pending, s) > end
    BY <1>1, <2>1 DEF Greater
  <2>3. s \in DOMAIN Trim(pending, end)
        /\ Trim(pending, end)[s] = SubSeq(pending[s], s - s + 1, Len(pending[s]))
    BY <2>2, TrimShape
  <2>4. s - s + 1 = 1
    BY <2>1
  <2>5. SubSeq(pending[s], 1, Len(pending[s])) = pending[s]
    BY <2>1
  <2> QED BY <2>3, <2>4, <2>5
<1>2. ASSUME NEW t \in DOMAIN Trim(pending, end), t \in DOMAIN pending PROVE t >= end
  <2>1. PICK s \in DOMAIN pending : FragmentEnd(pending, s) > end /\ t = Greater(s, end)
    BY TrimSource
  <2> QED BY <2>1, TrimShape
<1> QED BY <1>1, <1>2
-----------------------------------------------------------------------------
(* What a gap-filling packet does to the counter.                          *)

\* OverlapBytes counts the retained offsets the packet holds as well.
LEMMA OverlapCounted ==
    ASSUME Tidy(rxPending), NEW p, EndOf(p) \in Nat, NewSeq(p) = rxNext, rxNext \in Nat,
           \A s \in DOMAIN rxPending : s > rxNext
    PROVE  OverlapBytes(p) = Cardinality({o \in Offsets(rxPending, DOMAIN rxPending) : o < EndOf(p)})
<1> DEFINE end == EndOf(p)
           S == Overlapping(p)
           D == DOMAIN rxPending
           B == [s \in S |-> s..(Lesser(end, FragmentEnd(rxPending, s)) - 1)]
           size(s) == Lesser(end, FragmentEnd(rxPending, s)) - s
           Sum(g) == g = [T \in SUBSET S |-> IF T = {} THEN 0
                        ELSE size(CHOOSE x \in T : TRUE) + g[T \ {CHOOSE x \in T : TRUE}]]
           G == CHOOSE g : Sum(g)
<1>0. S \in SUBSET D /\ D \in SUBSET D
  BY DEF Overlapping
<1>1. \A s \in D : s \in Nat /\ Len(rxPending[s]) \in Nat /\ Len(rxPending[s]) >= 1
                   /\ FragmentEnd(rxPending, s) = s + Len(rxPending[s])
  BY DEF Tidy, FragmentEnd
<1>2. \A s \in D : s \in S <=> s < end
  BY <1>1 DEF Overlapping
<1>3. OverlapBytes(p) = G[S]
  BY DEF OverlapBytes, MapThenSumSet, MapThenFoldSet
<1> HIDE DEF S, G, end
<1>4. \A s \in S : Cardinality(B[s]) = size(s) /\ IsFiniteSet(B[s])
  <2> SUFFICES ASSUME NEW s \in S PROVE Cardinality(B[s]) = size(s) /\ IsFiniteSet(B[s])
    OBVIOUS
  <2> DEFINE b == Lesser(end, FragmentEnd(rxPending, s)) - 1
  <2>1. s \in Int /\ b \in Int /\ ~ (s > b) /\ b - s + 1 = size(s)
    BY <1>0, <1>1, <1>2 DEF Lesser, end
  <2>2. B[s] = s..b
    OBVIOUS
  <2> HIDE DEF b, B
  <2>3. IsFiniteSet(s..b) /\ Cardinality(s..b) = b - s + 1
    BY <2>1, FS_Interval
  <2> QED BY <2>1, <2>2, <2>3
<1>5. Disjoint(S, B)
  <2>1. Disjoint(S, Span(rxPending))
    BY <1>0, SpanDisjoint
  <2>2. \A s \in S : B[s] \subseteq Span(rxPending)[s]
    BY <1>0, <1>1 DEF Span, Lesser, end
  <2> HIDE DEF B
  <2> QED BY <1>4, <2>1, <2>2 DEF Disjoint
<1>6. \A g : Sum(g) <=> Sums(S, SizesOf(S, B), g)
  <2>1. ASSUME NEW T \in SUBSET S, T # {}
        PROVE  size(CHOOSE x \in T : TRUE) = SizesOf(S, B)[CHOOSE x \in T : TRUE]
    <3>1. (CHOOSE x \in T : TRUE) \in S
      BY <2>1
    <3> HIDE DEF B, size
    <3> QED BY <1>4, <3>1 DEF SizesOf
  <2> HIDE DEF B, size
  <2> QED BY <2>1 DEF Sums
<1>7. Sum(G)
  <2> HIDE DEF Sum, B
  <2>1. \E g : Sum(g)
    BY <1>5, <1>6, SumsUnion
  <2> QED BY <2>1 DEF G
<1>8. G[S] = Cardinality(All(S, B))
  <2> HIDE DEF Sum, B
  <2> QED BY <1>5, <1>6, <1>7, SumsUnion
<1>9. All(S, B) = {o \in Offsets(rxPending, D) : o < end}
  <2>1. \A o : o \in Offsets(rxPending, D) <=> o \in Nat /\ \E s \in D : Holds(rxPending, s, o)
    BY <1>0, OffsetsHold
  <2>2. \A o : o \in All(S, B) <=> \E s \in S : o \in B[s]
    BY DEF All
  <2>3. \A s \in S : \A o : o \in B[s] <=> o \in Nat /\ Holds(rxPending, s, o) /\ o < end
    BY <1>0, <1>1 DEF Holds, Lesser, end
  <2>4. \A s \in D : \A o \in Nat : Holds(rxPending, s, o) /\ o < end => s \in S
    BY <1>1, <1>2 DEF Holds, end
  <2> HIDE DEF B
  <2>5. \A o : o \in All(S, B) <=> o \in Offsets(rxPending, D) /\ o < end
    BY <1>0, <2>1, <2>2, <2>3, <2>4
  <2> QED BY <2>5
<1> QED BY <1>3, <1>8, <1>9 DEF end

\* The counter after the drain counts what the drain leaves, and what the
\* drain takes is at least the run of offsets it closes.
LEMMA CountAfterExact ==
    ASSUME Tidy(rxPending), rxPendingBytes = TotalBytes(rxPending, DOMAIN rxPending),
           NEW end \in Nat, NEW to \in Nat, end <= to,
           DrainsTo(Trim(rxPending, end), end, to)
    PROVE  LET kept == Trim(rxPending, end)
               rest == PendingFrom(kept, to)
           IN  /\ Tidy(rest)
               /\ Cardinality(DOMAIN rest) <= Cardinality(DOMAIN rxPending)
               /\ CountAfter(end, kept, to) = TotalBytes(rest, DOMAIN rest)
               /\ TotalBytes(rest, DOMAIN rest) + (to - end) <= TotalBytes(kept, DOMAIN kept)
<1> DEFINE kept == Trim(rxPending, end)
           D == DOMAIN rxPending
           E == DOMAIN kept
           low == {s \in D : s < end}
           high == {s \in D : s >= end}
           below == {s \in E : s < to}
           above == {s \in E : s >= to}
           rest == PendingFrom(kept, to)
<1>1. Tidy(kept) /\ Cardinality(E) <= Cardinality(D)
  BY TrimTidy
<1>2. E \cap D = high /\ \A s \in high : kept[s] = rxPending[s]
  BY TrimSame
<1>3. DOMAIN rest = above /\ \A s \in above : rest[s] = kept[s]
  BY DEF PendingFrom
<1>4. DrainsTo(kept, end, to)
  OBVIOUS
<1>5. CountAfter(end, kept, to) = TotalBytes(rxPending, D) - TotalBytes(rxPending, low)
                                  + TotalBytes(kept, E \ D) - TotalBytes(kept, below)
  BY DEF CountAfter
<1>6. /\ \A s \in D : s \in Nat
      /\ \A s \in E : s \in Nat
  BY <1>1 DEF Tidy
<1>7. /\ low \in SUBSET D /\ high \in SUBSET D /\ low \cap high = {} /\ low \cup high = D
      /\ high \in SUBSET E /\ E \ D \in SUBSET E /\ high \cap (E \ D) = {} /\ high \cup (E \ D) = E
      /\ below \in SUBSET E /\ above \in SUBSET E /\ below \cap above = {} /\ below \cup above = E
  BY <1>2, <1>6
<1> HIDE DEF kept, rest, D, E, low, high, below, above
<1>8. TotalBytes(rxPending, D) = TotalBytes(rxPending, low) + TotalBytes(rxPending, high)
  <2>1. low \in SUBSET DOMAIN rxPending /\ high \in SUBSET DOMAIN rxPending
    BY <1>7 DEF D
  <2>2. TotalBytes(rxPending, low \cup high) = TotalBytes(rxPending, low) + TotalBytes(rxPending, high)
    BY <1>7, <2>1, TotalSplit
  <2> QED BY <1>7, <2>2
<1>9. TotalBytes(kept, E) = TotalBytes(kept, high) + TotalBytes(kept, E \ D)
  <2>1. high \in SUBSET DOMAIN kept /\ E \ D \in SUBSET DOMAIN kept
    BY <1>7 DEF E
  <2>2. TotalBytes(kept, high \cup (E \ D)) = TotalBytes(kept, high) + TotalBytes(kept, E \ D)
    BY <1>1, <1>7, <2>1, TotalSplit
  <2> QED BY <1>7, <2>2
<1>10. TotalBytes(kept, E) = TotalBytes(kept, below) + TotalBytes(kept, above)
  <2>1. below \in SUBSET DOMAIN kept /\ above \in SUBSET DOMAIN kept
    BY <1>7 DEF E
  <2>2. TotalBytes(kept, below \cup above) = TotalBytes(kept, below) + TotalBytes(kept, above)
    BY <1>1, <1>7, <2>1, TotalSplit
  <2> QED BY <1>7, <2>2
<1>11. TotalBytes(kept, high) = TotalBytes(rxPending, high)
  BY <1>1, <1>2, <1>7, TotalAgree DEF D, E
<1>12. Tidy(rest) /\ Cardinality(DOMAIN rest) <= Cardinality(D)
  <2>1. IsFiniteSet(E) /\ IsFiniteSet(D)
    BY <1>1 DEF Tidy, D, E
  <2>2. IsFiniteSet(above) /\ Cardinality(above) <= Cardinality(E)
    BY <1>7, <2>1, FS_Subset
  <2>3. Cardinality(above) <= Cardinality(D)
    <3>1. Cardinality(above) \in Nat /\ Cardinality(E) \in Nat /\ Cardinality(D) \in Nat
      BY <2>1, <2>2, FS_CardinalityType
    <3> QED BY <1>1, <2>2, <3>1
  <2>4. above \subseteq DOMAIN kept
    BY <1>7 DEF E
  <2> QED BY <1>1, <1>3, <2>2, <2>3, <2>4 DEF Tidy, Apart, FragmentEnd
<1>13. TotalBytes(kept, above) = TotalBytes(rest, above)
  <2>1. above \in SUBSET DOMAIN kept /\ above \subseteq DOMAIN rest /\ \A s \in above : kept[s] = rest[s]
    BY <1>3, <1>7 DEF E
  <2> QED BY <1>1, <1>12, <2>1, TotalAgree
<1>14. TotalBytes(kept, below) >= to - end
  <2>1. end..(to - 1) \in SUBSET Offsets(kept, below)
    <3> SUFFICES ASSUME NEW o \in end..(to - 1) PROVE o \in Offsets(kept, below)
      OBVIOUS
    <3>1. PICK s \in DOMAIN kept : Holds(kept, s, o)
      BY <1>4 DEF DrainsTo, Covers
    <3>2. s \in below /\ o \in Nat
      BY <1>6, <3>1 DEF Holds, below, E
    <3> QED BY <1>1, <1>7, <3>1, <3>2, OffsetsHold DEF E
  <2>2. IsFiniteSet(Offsets(kept, below)) /\ TotalBytes(kept, below) = Cardinality(Offsets(kept, below))
    BY <1>1, <1>7, Counted DEF E
  <2>3. Cardinality(end..(to - 1)) = to - end
    <3>1. to - 1 \in Int /\ end \in Int
      OBVIOUS
    <3>2. Cardinality(end..(to - 1)) = IF end > to - 1 THEN 0 ELSE (to - 1) - end + 1
      BY <3>1, FS_Interval
    <3> QED BY <3>2
  <2>4. Cardinality(end..(to - 1)) <= Cardinality(Offsets(kept, below))
    BY <2>1, <2>2, FS_Subset
  <2> QED BY <2>2, <2>3, <2>4
<1>15. /\ TotalBytes(rxPending, low) \in Nat /\ TotalBytes(rxPending, high) \in Nat
       /\ TotalBytes(kept, E \ D) \in Nat /\ TotalBytes(kept, below) \in Nat /\ TotalBytes(kept, above) \in Nat
  BY <1>1, <1>7, Counted DEF D, E
<1>16. CountAfter(end, kept, to) = TotalBytes(rest, DOMAIN rest)
  <2> DEFINE a == TotalBytes(rxPending, low)
             b == TotalBytes(rxPending, high)
             c == TotalBytes(kept, E \ D)
             d == TotalBytes(kept, below)
             e == TotalBytes(kept, above)
  <2>1. CountAfter(end, kept, to) = (a + b) - a + c - d
    BY <1>5, <1>8
  <2>2. b + c = d + e
    BY <1>9, <1>10, <1>11
  <2>3. TotalBytes(rest, DOMAIN rest) = e
    BY <1>3, <1>13
  <2>4. a \in Nat /\ b \in Nat /\ c \in Nat /\ d \in Nat /\ e \in Nat
    BY <1>15
  <2> HIDE DEF a, b, c, d, e
  <2>5. (a + b) - a + c - d = e
    BY ONLY <2>2, <2>4
  <2> QED BY <2>1, <2>3, <2>5
<1>17. TotalBytes(rest, DOMAIN rest) + (to - end) <= TotalBytes(kept, DOMAIN kept)
  <2>1. TotalBytes(rest, DOMAIN rest) = TotalBytes(kept, above)
    BY <1>3, <1>13
  <2> QED BY <1>10, <1>14, <1>15, <2>1 DEF E
<1> QED BY <1>12, <1>16, <1>17 DEF kept, rest, D

\* What is retained below a packet's end and what is retained from there on
\* make up the counter.
LEMMA CountHalves ==
    ASSUME Tidy(rxPending), NEW p, EndOf(p) \in Nat, NewSeq(p) = rxNext, rxNext \in Nat,
           \A s \in DOMAIN rxPending : s > rxNext
    PROVE  LET kept == Trim(rxPending, EndOf(p))
           IN  /\ TotalBytes(rxPending, DOMAIN rxPending) = OverlapBytes(p) + TotalBytes(kept, DOMAIN kept)
               /\ OverlapBytes(p) \in Nat /\ TotalBytes(kept, DOMAIN kept) \in Nat
               /\ IsFiniteSet(Offsets(kept, DOMAIN kept))
               /\ TotalBytes(kept, DOMAIN kept) = Cardinality(Offsets(kept, DOMAIN kept))
<1> DEFINE end == EndOf(p)
           kept == Trim(rxPending, end)
           H == Offsets(rxPending, DOMAIN rxPending)
           P == {o \in H : o < end}
           Q == {o \in H : o >= end}
<1>1. Tidy(kept)
  BY TrimTidy
<1>2. Offsets(kept, DOMAIN kept) = Q
  BY TrimOffsets
<1>3. IsFiniteSet(Offsets(kept, DOMAIN kept)) /\ TotalBytes(kept, DOMAIN kept) = Cardinality(Offsets(kept, DOMAIN kept))
  <2> HIDE DEF kept
  <2>1. DOMAIN kept \in SUBSET DOMAIN kept
    OBVIOUS
  <2> QED BY <1>1, <2>1, Counted
<1>4. IsFiniteSet(H) /\ TotalBytes(rxPending, DOMAIN rxPending) = Cardinality(H)
  <2>1. DOMAIN rxPending \in SUBSET DOMAIN rxPending
    OBVIOUS
  <2> QED BY <2>1, Counted
<1>5. \A o \in H : o \in Nat
  <2>1. DOMAIN rxPending \in SUBSET DOMAIN rxPending
    OBVIOUS
  <2> QED BY <2>1, OffsetsHold
<1>6. P \cap Q = {} /\ P \cup Q = H /\ P \in SUBSET H /\ Q \in SUBSET H
  <2> HIDE DEF H
  <2> QED BY <1>5
<1>7. OverlapBytes(p) = Cardinality(P)
  BY OverlapCounted
<1> HIDE DEF kept, H, P, Q, end
<1>8. IsFiniteSet(P) /\ IsFiniteSet(Q)
  BY <1>4, <1>6, FS_Subset
<1>9. Cardinality(H) = Cardinality(P) + Cardinality(Q) /\ Cardinality(P) \in Nat /\ Cardinality(Q) \in Nat
  BY <1>6, <1>8, CountApart, FS_CardinalityType
<1> QED BY <1>2, <1>3, <1>4, <1>7, <1>9 DEF kept, end
-----------------------------------------------------------------------------
(* The invariant of the two buffers and of the fragment map.               *)

\* The fragments lie apart and within one receive window of the gap, the
\* counter is what they hold, and buffer, counter and map are in bounds.
FragmentStore ==
    /\ Tidy(rxPending)
    /\ \A s \in DOMAIN rxPending : FragmentEnd(rxPending, s) <= rxNext + RxWindow
    /\ rxPendingBytes = TotalBytes(rxPending, DOMAIN rxPending)
    /\ Len(rxBuf) + rxPendingBytes <= RxWindow
    /\ Cardinality(DOMAIN rxPending) <= MaxFlight

StoreInv ==
    /\ FragmentStore
    /\ Len(txBuf) <= ReplayWindow
    /\ \A p \in data : Len(p.payload) <= RxWindow

\* No fragment takes no room.
LEMMA EmptyStore ==
    ASSUME NEW pending, DOMAIN pending = {}
    PROVE  Tidy(pending) /\ TotalBytes(pending, DOMAIN pending) = 0 /\ Cardinality(DOMAIN pending) = 0
<1>1. Tidy(pending)
  BY FS_EmptySet DEF Tidy, Apart
<1>2. Offsets(pending, {}) = {}
  BY DEF Offsets, All
<1>3. TotalBytes(pending, {}) = Cardinality({})
  <2>1. {} \in SUBSET DOMAIN pending
    OBVIOUS
  <2> QED BY <1>1, <1>2, <2>1, Counted
<1> QED BY <1>1, <1>3, FS_EmptySet

\* Two new sessions hold nothing.
LEMMA StoreInit == Init => StoreInv
<1> SUFFICES ASSUME Init PROVE StoreInv
  OBVIOUS
<1> USE WindowAssumption, FlightAssumption
<1>1. DOMAIN rxPending = {}
  BY DEF Init, NoPending
<1>2. Tidy(rxPending) /\ TotalBytes(rxPending, DOMAIN rxPending) = 0 /\ Cardinality(DOMAIN rxPending) = 0
  BY <1>1, EmptyStore
<1>3. Len(rxBuf) = 0 /\ Len(txBuf) = 0 /\ rxPendingBytes = 0 /\ data = {}
  BY DEF Init
<1> QED BY <1>1, <1>2, <1>3 DEF StoreInv, FragmentStore

\* Steps of the sending side leave the fragments alone.
LEMMA StoreKept ==
    ASSUME FragmentStore, UNCHANGED <<rxNext, rxBuf, rxPending, rxPendingBytes>>
    PROVE  FragmentStore'
  BY DEF FragmentStore

\* Write takes only what WriteSpace leaves of the replay window.
LEMMA WriteStore == ASSUME Inv, StoreInv, NEW n \in 1..ReplayWindow, Write(n) PROVE StoreInv'
<1> USE WindowAssumption
<1>1. FragmentStore' /\ data' = data
  BY StoreKept DEF Write, StoreInv, receiver, net
<1>2. Len(txBuf') <= ReplayWindow
  <2>1. Len(txBuf) \in Nat /\ n \in Nat /\ txBuf \in Seq(Nat) /\ txNext \in Nat
    BY DEF Inv, TypeOK
  <2>2. n <= ReplayWindow - Len(txBuf)
    BY <2>1 DEF Write, WriteSpace, Lesser
  <2> DEFINE chunk == [i \in 1..n |-> txNext + i - 1]
  <2>3. chunk \in Seq(Nat) /\ Len(chunk) = n
    <3>1. chunk \in [1..n -> Nat]
      BY <2>1
    <3> HIDE DEF chunk
    <3> QED BY <2>1, <3>1
  <2>4. txBuf' = txBuf \o chunk
    BY DEF Write
  <2> HIDE DEF chunk
  <2>5. Len(txBuf') = Len(txBuf) + n
    <3>1. Len(txBuf \o chunk) = Len(txBuf) + Len(chunk)
      BY ONLY <2>1, <2>3
    <3> QED BY <2>3, <2>4, <3>1
  <2> QED BY <2>1, <2>2, <2>5
<1> QED BY <1>1, <1>2 DEF StoreInv

\* Read only makes room.
LEMMA ReadStore == ASSUME Inv, StoreInv, NEW n \in 1..RxWindow, Read(n) PROVE StoreInv'
<1> USE WindowAssumption
<1>1. UNCHANGED <<txBuf, data, rxNext, rxPending, rxPendingBytes>>
  BY DEF Read, sender, net
<1>2. Len(rxBuf') <= Len(rxBuf) /\ Len(rxBuf') \in Nat /\ Len(rxBuf) \in Nat
  <2>1. rxBuf \in Seq(Nat) /\ n \in Nat /\ n >= 1 /\ n <= Len(rxBuf) /\ Len(rxBuf) \in Nat
        /\ rxBuf' = SubSeq(rxBuf, n + 1, Len(rxBuf))
    BY DEF Inv, TypeOK, Read
  <2>2. Len(rxBuf') = Len(rxBuf) - n
    BY <2>1
  <2> QED BY <2>1, <2>2
<1>3. rxPendingBytes \in Nat
  <2>1. DOMAIN rxPending \in SUBSET DOMAIN rxPending
    OBVIOUS
  <2> QED BY <2>1, Counted DEF StoreInv, FragmentStore
<1>4. Len(rxBuf') + rxPendingBytes <= RxWindow
  BY <1>2, <1>3 DEF StoreInv, FragmentStore
<1>5. FragmentStore'
  BY <1>1, <1>4 DEF StoreInv, FragmentStore
<1> QED BY <1>1, <1>5 DEF StoreInv

\* A packet holds at most one payload, which no receive window is too small for.
LEMMA EmitStore ==
    ASSUME Inv, StoreInv, NEW start \in txBase..txNext, NEW timer, NEW flight \in InitFlight..MaxFlight,
           EmitData(start, timer, flight), UNCHANGED <<sender, receiver>>
    PROVE  StoreInv'
<1> USE WindowAssumption, FlightAssumption, SizesAssumption
<1> DEFINE windowEnd == Lesser(txNext, txBase + payloadSize * flight)
           n == Lesser(payloadSize, windowEnd - start)
           first == start - txBase + 1
           packet == [seq |-> start, payload |-> SubSeq(txBuf, first, first + n - 1)]
<1>0. /\ txBase \in Nat /\ txNext \in Nat /\ start \in Nat /\ txBase <= start /\ start <= txNext
      /\ payloadSize \in Nat /\ payloadSize >= 1 /\ payloadSize <= RxWindow /\ flight \in Nat
      /\ txBuf \in Seq(Nat) /\ Len(txBuf) = txNext - txBase
  BY DEF Inv, TypeOK, SenderInv
<1>1. payloadSize * flight \in Nat
  BY <1>0
<1>2. windowEnd \in Nat /\ windowEnd <= txNext
  BY <1>0, <1>1 DEF Lesser
<1>3. start < windowEnd => n \in Nat /\ n >= 1 /\ start + n <= txNext /\ n <= RxWindow
  BY <1>0, <1>2 DEF Lesser
<1>4. start < windowEnd => Len(packet.payload) <= RxWindow
  <2> SUFFICES ASSUME start < windowEnd PROVE Len(packet.payload) <= RxWindow
    OBVIOUS
  <2> DEFINE last == first + n - 1
  <2> HIDE DEF n, windowEnd
  <2>1. first \in Int /\ last \in Int /\ 1 <= first /\ last <= Len(txBuf) /\ last - first + 1 = n /\ first <= last
    BY <1>0, <1>3, SMTT(30)
  <2>2. packet.payload = SubSeq(txBuf, first, last)
    OBVIOUS
  <2> HIDE DEF first, last, packet
  <2>3. Len(SubSeq(txBuf, first, last)) = last - first + 1
    BY <1>0, <2>1
  <2> QED BY <1>3, <2>1, <2>2, <2>3
<1>5. data' = data \/ (data' = data \cup {packet} /\ start < windowEnd)
  BY DEF EmitData
<1> HIDE DEF packet, windowEnd
<1>6. \A p \in data' : Len(p.payload) <= RxWindow
  BY <1>4, <1>5 DEF StoreInv
<1>7. FragmentStore' /\ Len(txBuf') <= ReplayWindow
  BY StoreKept DEF StoreInv, sender, receiver
<1> QED BY <1>6, <1>7 DEF StoreInv

\* nextPacketLocked, with and without a retransmission due.
LEMMA SendStore == ASSUME Inv, StoreInv, SendData \/ RetransmitTimeout PROVE StoreInv'
<1>1. CASE SendData
  <2> DEFINE stray == sendNext < txBase \/ sendNext > txNext
             start == IF stray THEN txBase ELSE sendNext
             timer == armed /\ ~ stray
  <2>1. EmitData(start, timer, flightPackets) /\ UNCHANGED <<sender, receiver>>
    BY <1>1 DEF SendData
  <2>2. start \in txBase..txNext /\ flightPackets \in InitFlight..MaxFlight
    BY DEF Inv, TypeOK, SenderInv
  <2> HIDE DEF start, timer
  <2> QED BY <2>1, <2>2, EmitStore
<1>2. CASE RetransmitTimeout
  <2>1. EmitData(txBase, TRUE, reduceFlightWindow(flightPackets)) /\ UNCHANGED <<sender, receiver>>
    BY <1>2 DEF RetransmitTimeout
  <2>2. txBase \in txBase..txNext /\ reduceFlightWindow(flightPackets) \in InitFlight..MaxFlight
    BY ReduceRange DEF Inv, TypeOK, SenderInv
  <2> QED BY <2>1, <2>2, EmitStore
<1> QED BY <1>1, <1>2

\* Releasing acknowledged bytes makes the replay buffer no longer.
LEMMA ReleaseStore ==
    ASSUME Inv, StoreInv, Inv', txBase <= txBase', txNext' = txNext, data' \subseteq data, UNCHANGED receiver
    PROVE  StoreInv'
<1> USE WindowAssumption
<1>1. Len(txBuf) = txNext - txBase /\ Len(txBuf') = txNext' - txBase' /\ txBase \in Nat /\ txNext \in Nat
      /\ txBase' \in Nat
  BY DEF Inv, SenderInv, TypeOK
<1>2. Len(txBuf') <= ReplayWindow
  <2>1. Len(txBuf) <= ReplayWindow
    BY DEF StoreInv
  <2>2. txNext' = txNext /\ txBase <= txBase' /\ ReplayWindow \in Nat
    OBVIOUS
  <2>3. \A a, b, c, w \in Nat : c >= b /\ a - b <= w => a - c <= w
    OBVIOUS
  <2>4. txNext - txBase <= ReplayWindow
    BY <1>1, <2>1
  <2>5. txNext - txBase' <= ReplayWindow
    BY <1>1, <2>2, <2>3, <2>4
  <2>6. Len(txBuf') = txNext - txBase'
    BY <1>1, <2>2
  <2> QED BY <2>5, <2>6
<1>3. FragmentStore'
  BY StoreKept DEF StoreInv, receiver
<1> QED BY <1>2, <1>3 DEF StoreInv

\* Steps that only drop packets, move the cursor or change a binding.
LEMMA QuietStore ==
    ASSUME StoreInv, data' \subseteq data, UNCHANGED <<txBuf, rxNext, rxBuf, rxPending, rxPendingBytes>>
    PROVE  StoreInv'
<1>1. FragmentStore'
  BY StoreKept DEF StoreInv
<1> QED BY <1>1 DEF StoreInv

\* attach drops the fragments and the counter together.
LEMMA AttachReceiverStore == ASSUME Inv, StoreInv, AttachReceiver PROVE StoreInv'
<1> USE WindowAssumption, FlightAssumption
<1>1. DOMAIN rxPending' = {} /\ rxPendingBytes' = 0 /\ UNCHANGED <<txBuf, data, rxNext, rxBuf>>
  BY DEF AttachReceiver, NoPending, sender, net
<1>2. Tidy(rxPending') /\ TotalBytes(rxPending', DOMAIN rxPending') = 0 /\ Cardinality(DOMAIN rxPending') = 0
  BY <1>1, EmptyStore
<1>3. rxPendingBytes \in Nat /\ Len(rxBuf) \in Nat
  <2>1. DOMAIN rxPending \in SUBSET DOMAIN rxPending
    OBVIOUS
  <2>2. rxPendingBytes \in Nat
    BY <2>1, Counted DEF StoreInv, FragmentStore
  <2> QED BY <2>2 DEF Inv, TypeOK
<1>4. FragmentStore'
  BY <1>1, <1>2, <1>3 DEF StoreInv, FragmentStore
<1> QED BY <1>1, <1>4 DEF StoreInv

\* One fragment counts its own length.
LEMMA TotalSingle ==
    ASSUME NEW pending, Tidy(pending), NEW s \in DOMAIN pending
    PROVE  TotalBytes(pending, {s}) = Len(pending[s])
<1>1. Offsets(pending, {s}) = Span(pending)[s]
  BY DEF Offsets, All
<1>2. {s} \in SUBSET DOMAIN pending
  OBVIOUS
<1>3. Len(pending[s]) = Cardinality(Span(pending)[s])
  BY <1>2, SpanDisjoint
<1> QED BY <1>1, <1>2, <1>3, Counted

\* A packet that meets no fragment overlaps none of their bytes.
LEMMA OverlapNone == ASSUME NEW p, Overlapping(p) = {} PROVE OverlapBytes(p) = 0
<1> DEFINE S == Overlapping(p)
           size(s) == Lesser(EndOf(p), FragmentEnd(rxPending, s)) - s
           Sum(g) == g = [T \in SUBSET S |-> IF T = {} THEN 0
                        ELSE size(CHOOSE x \in T : TRUE) + g[T \ {CHOOSE x \in T : TRUE}]]
           G == CHOOSE g : Sum(g)
           h == [T \in SUBSET S |-> 0]
<1>1. OverlapBytes(p) = G[S]
  BY DEF OverlapBytes, MapThenSumSet, MapThenFoldSet
<1>2. Sum(h)
  <2>1. \A T \in SUBSET S : T = {}
    OBVIOUS
  <2> HIDE DEF S, size
  <2> QED BY <2>1
<1>3. Sum(G)
  <2> HIDE DEF Sum, h
  <2> QED BY <1>2
<1>4. G[{}] = 0
  <2> HIDE DEF G, size
  <2> QED BY <1>3
<1> QED BY <1>1, <1>4

\* A packet put aside lies apart from the fragments there and fits with them.
LEMMA BufferedStore == ASSUME Inv, StoreInv, NEW p \in data, RcvBuffered(p) PROVE StoreInv'
<1> USE WindowAssumption, FlightAssumption
<1> DEFINE D == DOMAIN rxPending
           x == p.seq
           len == Len(p.payload)
           new == [s \in D \cup {x} |-> IF s = x THEN p.payload ELSE rxPending[s]]
<1>1. /\ data' \subseteq data /\ UNCHANGED <<txBuf, rxNext, rxBuf>> /\ x > rxNext
      /\ rxPending' = new /\ rxPendingBytes' = rxPendingBytes + len /\ ~ Rejects(p)
  BY DEF RcvBuffered, Take, sender
<1>2. x \in Nat /\ p.payload \in Seq(Nat) /\ len \in Nat /\ len >= 1 /\ rxNext \in Nat
      /\ EndOf(p) = x + len /\ Len(rxBuf) \in Nat
  BY DEF Inv, TypeOK, PacketInv, Carries, EndOf
<1>3. NewSeq(p) = x /\ NewSeq(p) # rxNext /\ ~ Conflicts(p)
  BY <1>1, <1>2 DEF NewSeq, Greater, Conflicts
<1>4. Len(NewPayload(p)) = len
  <2>1. x - x + 1 = 1
    BY <1>2
  <2>2. SubSeq(p.payload, 1, len) = p.payload
    BY <1>2
  <2> QED BY <1>3, <2>1, <2>2 DEF NewPayload
<1>5. Overlapping(p) = {} /\ EndOf(p) - rxNext <= RxWindow /\ ~ (Cardinality(D) >= MaxFlight)
      /\ ~ (Len(rxBuf) + rxPendingBytes + len - OverlapBytes(p) > RxWindow)
  <2>1. NewSeq(p) > rxNext
    BY <1>1, <1>3
  <2>2. /\ ~ (EndOf(p) - rxNext > RxWindow) /\ Overlapping(p) = {}
        /\ ~ (Len(rxBuf) + rxPendingBytes + Len(NewPayload(p)) - OverlapBytes(p) > RxWindow)
        /\ ~ (Cardinality(D) >= MaxFlight)
    BY <1>1, <1>3, <2>1 DEF Rejects
  <2>3. EndOf(p) - rxNext <= RxWindow
    BY <1>2, <2>2
  <2> QED BY <1>4, <2>2, <2>3
<1>6. OverlapBytes(p) = 0
  BY <1>5, OverlapNone
<1>7. Tidy(rxPending) /\ rxPendingBytes = TotalBytes(rxPending, D) /\ rxPendingBytes \in Nat
      /\ Cardinality(D) \in Nat
  <2>1. D \in SUBSET D
    OBVIOUS
  <2>2. Tidy(rxPending) /\ rxPendingBytes = TotalBytes(rxPending, D)
    BY DEF StoreInv, FragmentStore
  <2>3. Cardinality(D) \in Nat
    BY <2>2, FS_CardinalityType DEF Tidy
  <2> QED BY <2>1, <2>2, <2>3, Counted
<1>8. \A s \in D : /\ s \in Nat /\ Len(rxPending[s]) \in Nat /\ Len(rxPending[s]) >= 1
                   /\ FragmentEnd(rxPending, s) = s + Len(rxPending[s])
                   /\ ~ (x < FragmentEnd(rxPending, s) /\ s < x + len)
  BY <1>2, <1>3, <1>5, <1>7, SMTT(30) DEF Tidy, Overlapping, FragmentEnd
<1>9. x \notin D
  BY <1>2, <1>8
<1>10. /\ DOMAIN new = D \cup {x} /\ new[x] = p.payload /\ \A s \in D : new[s] = rxPending[s]
  BY <1>9
<1> HIDE DEF new, D, x, len
<1>11. FragmentEnd(new, x) = x + len /\ \A s \in D : FragmentEnd(new, s) = FragmentEnd(rxPending, s)
  BY <1>10 DEF FragmentEnd, len
<1>12. Apart(new)
  <2> SUFFICES ASSUME NEW s \in D \cup {x}, NEW t \in D \cup {x}, s < t PROVE FragmentEnd(new, s) <= t
    BY <1>10 DEF Apart
  <2>1. CASE s \in D /\ t \in D
    BY <1>7, <1>11, <2>1 DEF Tidy, Apart, D
  <2>2. CASE s = x /\ t \in D
    BY <1>2, <1>8, <1>11, <2>2
  <2>3. CASE s \in D /\ t = x
    BY <1>2, <1>8, <1>11, <2>3
  <2>4. CASE s = x /\ t = x
    BY <1>2, <2>4
  <2> QED BY <2>1, <2>2, <2>3, <2>4
<1>13. IsFiniteSet(D \cup {x}) /\ Cardinality(D \cup {x}) = Cardinality(D) + 1
  BY <1>7, <1>9, FS_AddElement DEF Tidy, D
<1>14. Tidy(new)
  <2>1. \A s \in D \cup {x} : s \in Nat /\ new[s] \in Seq(Nat) /\ Len(new[s]) >= 1
    BY <1>2, <1>7, <1>10 DEF Tidy, D, len
  <2> QED BY <1>10, <1>12, <1>13, <2>1 DEF Tidy
<1>15. TotalBytes(new, D \cup {x}) = rxPendingBytes + len
  <2>1. D \in SUBSET DOMAIN new /\ {x} \in SUBSET DOMAIN new /\ D \cap {x} = {} /\ x \in DOMAIN new
    BY <1>9, <1>10
  <2>2. TotalBytes(new, D \cup {x}) = TotalBytes(new, D) + TotalBytes(new, {x})
    BY <1>14, <2>1, TotalSplit
  <2>3. TotalBytes(new, {x}) = len
    BY <1>10, <1>14, <2>1, TotalSingle DEF len
  <2>4. TotalBytes(new, D) = TotalBytes(rxPending, D)
    BY <1>7, <1>10, <1>14, <2>1, TotalAgree DEF D
  <2> QED BY <1>7, <2>2, <2>3, <2>4
<1>16. \A s \in D \cup {x} : FragmentEnd(new, s) <= rxNext + RxWindow
  <2>1. FragmentEnd(new, x) <= rxNext + RxWindow
    BY <1>2, <1>5, <1>11
  <2>2. \A s \in D : FragmentEnd(new, s) <= rxNext + RxWindow
    BY <1>11 DEF StoreInv, FragmentStore, D
  <2> QED BY <2>1, <2>2
<1>17. Len(rxBuf) + (rxPendingBytes + len) <= RxWindow
  BY <1>2, <1>5, <1>6, <1>7
<1>18. Cardinality(D) + 1 <= MaxFlight
  BY <1>5, <1>7
<1>19. FragmentStore'
  BY <1>1, <1>10, <1>13, <1>14, <1>15, <1>16, <1>17, <1>18 DEF FragmentStore
<1> QED BY <1>1, <1>19 DEF StoreInv

\* Filling the gap moves bytes from the map to the buffer; together they grow
\* only by what the packet adds, which Rejects has checked.
LEMMA AdvanceStore == ASSUME Inv, StoreInv, NEW p \in data, RcvAdvance(p) PROVE StoreInv'
<1> USE WindowAssumption, FlightAssumption
<1> DEFINE end == EndOf(p)
           kept == Trim(rxPending, end)
<1>0. PICK to \in end..(rxNext + RxWindow) :
          /\ DrainsTo(kept, end, to)
          /\ rxNext' = to
          /\ rxPending' = PendingFrom(kept, to)
          /\ rxPendingBytes' = CountAfter(end, kept, to)
  BY DEF RcvAdvance
<1> DEFINE rest == PendingFrom(kept, to)
<1>1. /\ data' \subseteq data /\ UNCHANGED <<txBuf, got>>
      /\ p.seq <= rxNext /\ ~ Rejects(p) /\ ~ ReplayError(p)
  BY DEF RcvAdvance, Take, sender
<1>2. p.seq \in Nat /\ p.payload \in Seq(Nat) /\ Len(p.payload) \in Nat /\ rxNext \in Nat
      /\ end = p.seq + Len(p.payload) /\ Len(rxBuf) \in Nat /\ end \in Nat
  BY DEF Inv, TypeOK, PacketInv, Carries, EndOf
<1>3. NewSeq(p) = rxNext /\ rxNext < end /\ to \in Nat /\ end <= to
  BY <1>0, <1>1, <1>2 DEF Rejects, NewSeq, Greater
<1>4. Len(NewPayload(p)) = end - rxNext
  <2> DEFINE m == rxNext - p.seq + 1
             len == Len(p.payload)
  <2>1. NewPayload(p) = SubSeq(p.payload, m, len)
    BY <1>3 DEF NewPayload
  <2>2. m \in Int /\ len \in Int /\ 1 <= m /\ m <= len /\ len <= Len(p.payload) /\ len - m + 1 = end - rxNext
    <3>1. p.seq \in Nat /\ rxNext \in Nat /\ len \in Nat /\ end = p.seq + len /\ p.seq <= rxNext /\ rxNext < end
      BY <1>1, <1>2, <1>3
    <3>2. len <= Len(p.payload)
      BY <1>2
    <3> HIDE DEF len, end
    <3> QED BY ONLY <3>1, <3>2
  <2> HIDE DEF m, len
  <2>3. Len(SubSeq(p.payload, m, len)) = len - m + 1
    BY <1>2, <2>2
  <2> QED BY <2>1, <2>2, <2>3
<1>5. Len(rxBuf) + rxPendingBytes + (end - rxNext) - OverlapBytes(p) <= RxWindow
  <2>0. Tidy(rxPending) /\ rxPendingBytes = TotalBytes(rxPending, DOMAIN rxPending)
        /\ \A s \in DOMAIN rxPending : s > rxNext
    BY DEF StoreInv, FragmentStore, Inv, FragmentInv
  <2>1. OverlapBytes(p) \in Nat
    BY <1>2, <1>3, <2>0, CountHalves
  <2>2. rxPendingBytes \in Nat
    <3>1. DOMAIN rxPending \in SUBSET DOMAIN rxPending
      OBVIOUS
    <3> QED BY <2>0, <3>1, Counted
  <2>3. ~ Conflicts(p)
    BY <1>1 DEF ReplayError
  <2>4. ~ (Len(rxBuf) + rxPendingBytes + (end - rxNext) - OverlapBytes(p) > RxWindow)
    BY <1>1, <1>4, <2>3 DEF Rejects
  <2> HIDE DEF end
  <2> QED BY <1>2, <2>1, <2>2, <2>4
<1>6. /\ rxPendingBytes = OverlapBytes(p) + TotalBytes(kept, DOMAIN kept)
      /\ OverlapBytes(p) \in Nat /\ TotalBytes(kept, DOMAIN kept) \in Nat
  BY <1>2, <1>3, CountHalves DEF StoreInv, FragmentStore, Inv, FragmentInv
<1>7. /\ Tidy(rest)
      /\ Cardinality(DOMAIN rest) <= Cardinality(DOMAIN rxPending)
      /\ CountAfter(end, kept, to) = TotalBytes(rest, DOMAIN rest)
      /\ TotalBytes(rest, DOMAIN rest) + (to - end) <= TotalBytes(kept, DOMAIN kept)
  BY <1>0, <1>2, <1>3, CountAfterExact DEF StoreInv, FragmentStore
<1>8. \A t \in DOMAIN rest : FragmentEnd(rest, t) <= to + RxWindow
  <2> SUFFICES ASSUME NEW t \in DOMAIN rest PROVE FragmentEnd(rest, t) <= to + RxWindow
    OBVIOUS
  <2>1. t \in DOMAIN kept /\ FragmentEnd(rest, t) = FragmentEnd(kept, t)
    BY DEF PendingFrom, FragmentEnd
  <2>2. PICK s \in DOMAIN rxPending : FragmentEnd(rxPending, s) > end /\ t = Greater(s, end)
    BY <2>1, TrimSource
  <2>3. Tidy(rxPending)
    BY DEF StoreInv, FragmentStore
  <2>4. FragmentEnd(kept, t) = FragmentEnd(rxPending, s)
    BY <1>2, <2>2, <2>3, TrimShape
  <2>5. FragmentEnd(rxPending, s) <= rxNext + RxWindow /\ FragmentEnd(rxPending, s) \in Nat
    BY <2>3 DEF StoreInv, FragmentStore, Tidy, FragmentEnd
  <2> HIDE DEF kept, rest, end
  <2> QED BY <1>2, <1>3, <2>1, <2>4, <2>5
<1>9. Len(rxBuf') = Len(rxBuf) + (to - rxNext)
  <2>1. Inv'
    BY RcvAdvanceInv
  <2>2. Len(got') + Len(rxBuf') = rxNext' /\ Len(rxBuf') \in Nat
    BY <2>1 DEF Inv, ReaderInv, TypeOK
  <2>3. Len(got) + Len(rxBuf) = rxNext /\ Len(got) \in Nat
    BY DEF Inv, ReaderInv, TypeOK
  <2>4. Len(got) + Len(rxBuf') = to
    BY <1>0, <1>1, <2>2
  <2> DEFINE g == Len(got)
             l == Len(rxBuf)
             k == Len(rxBuf')
  <2>5. g \in Nat /\ l \in Nat /\ k \in Nat /\ g + l = rxNext /\ g + k = to
    BY <1>2, <2>2, <2>3, <2>4
  <2> HIDE DEF g, l, k
  <2>6. k = l + ((g + k) - (g + l))
    BY ONLY <2>5
  <2>7. k = l + (to - rxNext)
    BY ONLY <2>5, <2>6
  <2> QED BY <2>7 DEF k, l
<1>10. TotalBytes(rest, DOMAIN rest) \in Nat
  <2> HIDE DEF rest
  <2>1. DOMAIN rest \in SUBSET DOMAIN rest
    OBVIOUS
  <2> QED BY <1>7, <2>1, Counted
<1>11. Len(rxBuf') + TotalBytes(rest, DOMAIN rest) <= RxWindow
  <2> DEFINE a == TotalBytes(rest, DOMAIN rest)
             b == TotalBytes(kept, DOMAIN kept)
             c == OverlapBytes(p)
             l == Len(rxBuf)
  <2>1. a \in Nat /\ b \in Nat /\ c \in Nat /\ l \in Nat /\ end \in Nat /\ to \in Nat /\ rxNext \in Nat
    BY <1>2, <1>3, <1>6, <1>10
  <2>2. l + (c + b) + (end - rxNext) - c <= RxWindow /\ a + (to - end) <= b
    BY <1>5, <1>6, <1>7
  <2> HIDE DEF a, b, c, l, end
  <2>3. (l + (to - rxNext)) + a <= RxWindow
    BY ONLY <2>1, <2>2, WindowAssumption
  <2> QED BY <1>9, <2>3 DEF a, l
<1>12. Cardinality(DOMAIN rest) <= MaxFlight
  <2>1. Tidy(rxPending) /\ Cardinality(DOMAIN rxPending) <= MaxFlight
    BY DEF StoreInv, FragmentStore
  <2> HIDE DEF rest
  <2>2. Cardinality(DOMAIN rest) \in Nat /\ Cardinality(DOMAIN rxPending) \in Nat
    BY <1>7, <2>1, FS_CardinalityType DEF Tidy
  <2> QED BY <1>7, <2>1, <2>2
<1>13. rxPending' = rest /\ rxPendingBytes' = TotalBytes(rest, DOMAIN rest) /\ rxNext' = to
  BY <1>0, <1>7
<1> HIDE DEF rest, kept, end
<1>14. FragmentStore'
  BY <1>7, <1>8, <1>11, <1>12, <1>13 DEF FragmentStore
<1> QED BY <1>1, <1>14 DEF StoreInv

\* Every action of the two sessions and of the network keeps the bounds.
LEMMA StoreNext == Inv /\ StoreInv /\ Inv' /\ [Next]_vars => StoreInv'
<1> SUFFICES ASSUME Inv, StoreInv, Inv', [Next]_vars PROVE StoreInv'
  OBVIOUS
<1>1. CASE (\E n \in 1..ReplayWindow : Write(n)) \/ (\E n \in 1..RxWindow : Read(n))
  BY <1>1, WriteStore, ReadStore
<1>2. CASE SendData \/ RetransmitTimeout
  BY <1>2, SendStore
<1>3. CASE \E p \in data : RcvBuffered(p) \/ RcvAdvance(p)
  BY <1>3, BufferedStore, AdvanceStore
<1>4. ASSUME NEW e \in acks, RcvAckAdvance(e) PROVE StoreInv'
  <2>1. txNext' = txNext /\ data' = data /\ UNCHANGED receiver
    BY <1>4 DEF RcvAckAdvance, reconcilePeer
  <2>2. txBase <= txBase'
    BY <1>4, RcvAckAdvanceInv
  <2> QED BY <2>1, <2>2, ReleaseStore
<1>5. ASSUME NEW e \in hellos, Reconcile(e) PROVE StoreInv'
  <2>1. txNext' = txNext /\ data' = data /\ UNCHANGED receiver
    BY <1>5 DEF Reconcile, reconcilePeer
  <2>2. txBase <= txBase'
    BY <1>5, ReconcileInv
  <2> QED BY <2>1, <2>2, ReleaseStore
<1>6. ASSUME NEW e \in hellos, NEW size \in Sizes, HelloInBinding(e, size) PROVE StoreInv'
  <2>1. txNext' = txNext /\ data' = data /\ UNCHANGED receiver
    BY <1>6 DEF HelloInBinding, reconcilePeer
  <2>2. txBase <= txBase'
    BY <1>6, HelloInBindingInv
  <2> QED BY <2>1, <2>2, ReleaseStore
<1>7. CASE AttachReceiver
  BY <1>7, AttachReceiverStore
<1>8. CASE \/ SendAck \/ SendHello \/ (\E p \in data : RcvRejected(p))
           \/ (\E e \in acks : RcvAckStale(e) \/ RcvAckDuplicate(e))
           \/ (\E e \in hellos : RefuseHello(e)) \/ (\E size \in Sizes : AttachSender(size))
           \/ AbandonHandshake \/ FailSender \/ FailReceiver \/ Lose \/ UNCHANGED vars
  <2>1. data' \subseteq data /\ UNCHANGED <<txBuf, rxNext, rxBuf, rxPending, rxPendingBytes>>
    BY <1>8 DEF SendAck, SendHello, RcvRejected, RcvAckStale, RcvAckDuplicate, RefuseHello, AttachSender,
                AbandonHandshake, FailSender, FailReceiver, Lose, Take, vars, sender, binding, receiver, net
  <2> QED BY <2>1, QuietStore
<1> QED
  BY <1>1, <1>2, <1>3, <1>4, <1>5, <1>6, <1>7, <1>8 DEF Next, RcvData, RcvAck

\* Both sessions' buffers and the packets between them stay in bounds, with the
\* fragments apart and the counter exact.
THEOREM StoreInvariance == Spec => [](Inv /\ StoreInv)
<1>1. Init => Inv /\ StoreInv
  BY InitInv, StoreInit
<1>2. (Inv /\ StoreInv) /\ [Next]_vars => (Inv /\ StoreInv)'
  BY NextInv, StoreNext
<1> QED
  BY <1>1, <1>2, PTL DEF Spec

\* acceptDataLocked keeps its fragments beyond the gap and apart, and its byte
\* counter equal to what they hold, through every trim and drain.
THEOREM FragmentsStayExact == Spec => []FragmentsExact
<1>1. Inv /\ StoreInv => FragmentsExact
  BY DEF Inv, FragmentInv, StoreInv, FragmentStore, Tidy, Apart, FragmentsExact
<1> QED
  BY <1>1, StoreInvariance, PTL

\* Write and acceptDataLocked together hold each session's memory to one
\* replay window, and the fragment map to the flight window's packets.
THEOREM MemoryStaysBounded == Spec => []MemoryBound
<1>1. Inv /\ StoreInv => MemoryBound
  BY DEF StoreInv, FragmentStore, MemoryBound
<1> QED
  BY <1>1, StoreInvariance, PTL

\* With the reader caught up, acceptDataLocked takes the packet that closes the
\* gap, however full the fragment map is: the session cannot wedge on memory.
THEOREM GapAlwaysFits == Spec => []GapFillFits
<1>1. Inv /\ StoreInv => GapFillFits
  <2> SUFFICES ASSUME Inv, StoreInv, rxBuf = <<>>, NEW p \in data, p.seq <= rxNext, rxNext < EndOf(p)
               PROVE  ~ Rejects(p)
    BY DEF GapFillFits
  <2> USE WindowAssumption
  <2> DEFINE end == EndOf(p)
             len == Len(p.payload)
             kept == Trim(rxPending, end)
             H == Offsets(kept, DOMAIN kept)
  <2>1. /\ p.seq \in Nat /\ p.payload \in Seq(Nat) /\ len \in Nat /\ rxNext \in Nat
        /\ end = p.seq + len /\ end \in Nat /\ len <= RxWindow
    BY DEF Inv, TypeOK, PacketInv, Carries, EndOf, StoreInv
  <2>2. NewSeq(p) = rxNext
    BY <2>1 DEF NewSeq, Greater
  <2>3. end - rxNext <= RxWindow /\ ~ (end <= rxNext) /\ end <= rxNext + RxWindow
    <3>1. p.seq <= rxNext /\ rxNext < end
      OBVIOUS
    <3> HIDE DEF end, len
    <3> QED BY ONLY <2>1, <3>1, WindowAssumption
  <2>4. Tidy(rxPending) /\ rxPendingBytes = TotalBytes(rxPending, DOMAIN rxPending)
        /\ \A s \in DOMAIN rxPending : s > rxNext /\ FragmentEnd(rxPending, s) <= rxNext + RxWindow
    BY DEF StoreInv, FragmentStore, Inv, FragmentInv
  <2>5. /\ rxPendingBytes = OverlapBytes(p) + TotalBytes(kept, DOMAIN kept)
        /\ OverlapBytes(p) \in Nat /\ TotalBytes(kept, DOMAIN kept) \in Nat
        /\ IsFiniteSet(H) /\ TotalBytes(kept, DOMAIN kept) = Cardinality(H)
    BY <2>1, <2>2, <2>4, CountHalves
  <2>6. H \in SUBSET (end..(rxNext + RxWindow - 1))
    <3>1. Tidy(kept)
      BY <2>1, <2>4, TrimTidy
    <3> SUFFICES ASSUME NEW o \in H PROVE o \in end..(rxNext + RxWindow - 1)
      OBVIOUS
    <3>2. DOMAIN kept \in SUBSET DOMAIN kept
      OBVIOUS
    <3>3. PICK t \in DOMAIN kept : Holds(kept, t, o) /\ o \in Nat
      <4> HIDE DEF kept
      <4> QED BY <3>1, <3>2, OffsetsHold
    <3>4. PICK s \in DOMAIN rxPending : FragmentEnd(rxPending, s) > end /\ t = Greater(s, end)
      BY TrimSource
    <3>5. FragmentEnd(kept, t) = FragmentEnd(rxPending, s) /\ t >= end /\ t \in Nat
      BY <2>1, <2>4, <3>4, TrimShape
    <3>6. FragmentEnd(rxPending, s) <= rxNext + RxWindow /\ FragmentEnd(rxPending, s) \in Nat
      BY <2>4 DEF Tidy, FragmentEnd
    <3>7. t <= o /\ o < FragmentEnd(rxPending, s) /\ o \in Nat
      BY <3>3, <3>5 DEF Holds
    <3> HIDE DEF end, kept, H
    <3> QED BY <2>1, <3>5, <3>6, <3>7
  <2>7. Cardinality(H) <= rxNext + RxWindow - end
    <3> HIDE DEF end, H
    <3> DEFINE b == rxNext + RxWindow - 1
    <3>1. end \in Int /\ b \in Int
      BY <2>1
    <3>2. IsFiniteSet(end..b) /\ Cardinality(end..b) = IF end > b THEN 0 ELSE b - end + 1
      <4> HIDE DEF b
      <4> QED BY <3>1, FS_Interval
    <3>3. Cardinality(H) <= Cardinality(end..b)
      BY <2>6, <3>2, FS_Subset
    <3>4. Cardinality(end..b) = rxNext + RxWindow - end
      <4>1. (IF end > b THEN 0 ELSE b - end + 1) = rxNext + RxWindow - end
        BY ONLY <2>1, <2>3, WindowAssumption, SMTT(30) DEF b
      <4> QED BY <3>2, <4>1
    <3> QED BY <3>3, <3>4
  <2>8. Len(NewPayload(p)) = end - rxNext
    <3> DEFINE m == rxNext - p.seq + 1
    <3>1. NewPayload(p) = SubSeq(p.payload, m, len)
      BY <2>2 DEF NewPayload
    <3>2. m \in Int /\ len \in Int /\ 1 <= m /\ m <= len /\ len <= Len(p.payload) /\ len - m + 1 = end - rxNext
      <4>1. p.seq <= rxNext /\ rxNext < end /\ len <= Len(p.payload)
        BY <2>1
      <4> HIDE DEF len, end
      <4> QED BY ONLY <2>1, <4>1
    <3> HIDE DEF m, len, end
    <3>3. Len(SubSeq(p.payload, m, len)) = len - m + 1
      BY <2>1, <3>2
    <3> QED BY <3>1, <3>2, <3>3
  <2>9. ~ (Len(rxBuf) + rxPendingBytes + Len(NewPayload(p)) - OverlapBytes(p) > RxWindow)
    <3> DEFINE a == OverlapBytes(p)
               b == TotalBytes(kept, DOMAIN kept)
    <3>1. a \in Nat /\ b \in Nat /\ rxPendingBytes = a + b /\ b <= rxNext + RxWindow - end
          /\ end \in Nat /\ rxNext \in Nat
      BY <2>1, <2>5, <2>7
    <3>2. Len(rxBuf) = 0 /\ Len(NewPayload(p)) = end - rxNext
      BY <2>8
    <3> HIDE DEF a, b, end
    <3>3. ~ (0 + (a + b) + (end - rxNext) - a > RxWindow)
      BY ONLY <3>1, WindowAssumption
    <3> QED BY <3>1, <3>2, <3>3 DEF a
  <2>10. ~ (end - rxNext > RxWindow) /\ ~ (NewSeq(p) > rxNext)
    BY <2>1, <2>2, <2>3
  <2> QED BY <2>2, <2>3, <2>9, <2>10 DEF Rejects
<1> QED
  BY <1>1, StoreInvariance, PTL
=============================================================================
