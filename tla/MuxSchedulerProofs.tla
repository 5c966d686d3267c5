------------------------- MODULE MuxSchedulerProofs -------------------------
(***************************************************************************)
(* Proofs about MuxScheduler for any set of streams and any limit: the     *)
(* scheduler queue never overflows, never holds a stream twice, and never  *)
(* forgets a stream that has something to send.                            *)
(*                                                                         *)
(* The argument: a stream's turn is a token. It is created by enqueueLocked*)
(* when the stream is not marked scheduled, moves from the schedule call   *)
(* into ready and on to the writer, and is given up, with the mark, by     *)
(* nextOutbound. While the stream can still be written to, no mark means   *)
(* no token (Idle); while it is in the map, a mark means a token (Marked)  *)
(* and queued frames mean a mark (Pending). Reset and removal break these  *)
(* links only for streams that will never be written to again.             *)
(***************************************************************************)
EXTENDS MuxScheduler, FiniteSetTheorems, SequenceTheorems, TLAPS

USE DEF Capacity

\* Where a stream's turn may be.
Token(i) == Queued(i) \/ calls[i] > 0 \/ Held(i)

Fresh   == \A i \in Ids \ used : ~ Token(i) /\ out[i] = 0
Idle    == \A i \in Usable \ scheduled : ~ Token(i)
Marked  == \A i \in streams \cap scheduled : Token(i)
Pending == \A i \in streams : out[i] > 0 => i \in scheduled

\* Only streams of the map wait for a turn, and the map respects the limit.
Listed ==
    /\ ~ done => \A k \in DOMAIN ready : ready[k] \in streams
    /\ done => streams = {}
    /\ Cardinality(streams) <= MaxStreams
    /\ wpc \in {"took", "found", "requeue", "drop"} => wid \in Ids

Inv == TypeOK /\ OneTurn /\ Fresh /\ Idle /\ Marked /\ Pending /\ Listed

-----------------------------------------------------------------------------
\* What removeStream does to the scheduler queue: the stream is gone from it and
\* every other stream keeps its one place.
LEMMA PurgeKeeps ==
  ASSUME NEW i, ready \in Seq(Ids), Purge(i)
  PROVE  /\ ready' \in Seq(Ids) /\ Len(ready') <= Len(ready)
         /\ \A k \in DOMAIN ready' : ready'[k] # i /\ Queued(ready'[k])
         /\ \A j : j # i /\ Queued(j) => Queued(j)'
         /\ (\A j, k \in DOMAIN ready : ready[j] = ready[k] => j = k)
            => \A j, k \in DOMAIN ready' : ready'[j] = ready'[k] => j = k
  <1> DEFINE kept == {k \in DOMAIN ready : ready[k] # i}
  <1> DEFINE n == Cardinality(kept)
  <1>1. DOMAIN ready = 1..Len(ready) /\ Len(ready) \in Nat
    OBVIOUS
  <1>2. IsFiniteSet(kept) /\ n \in Nat /\ n <= Len(ready)
    <2>1. IsFiniteSet(1..Len(ready)) /\ Cardinality(1..Len(ready)) = Len(ready)
      BY <1>1, FS_Interval, SMTT(30)
    <2> QED  BY <1>1, <2>1, FS_Subset, FS_CardinalityType
  <1>3. PICK order \in Bijection(1..n, kept) : ready' = [k \in 1..n |-> ready[order[k]]]
    BY DEF Purge
  <1>4. /\ order \in [1..n -> kept]
        /\ \A a, b \in 1..n : order[a] = order[b] => a = b
        /\ \A t \in kept : \E k \in 1..n : order[k] = t
    BY <1>3 DEF Bijection, Injection, Surjection, IsInjective
  <1> HIDE DEF n
  <1>5. DOMAIN ready' = 1..n /\ \A k \in 1..n : ready'[k] = ready[order[k]] /\ order[k] \in kept
    BY <1>3, <1>4
  <1>6. \A k \in 1..n : ready'[k] \in Ids /\ ready'[k] # i
    BY <1>1, <1>5
  <1>7. ready' \in Seq(Ids) /\ Len(ready') = n
    <2>1. ready' \in [1..n -> Ids]
      BY <1>3, <1>5, <1>6
    <2> QED  BY <1>2, <2>1
  <1>8. \A k \in DOMAIN ready' : Queued(ready'[k])
    BY <1>5 DEF Queued
  <1>9. ASSUME NEW j, j # i, Queued(j)  PROVE Queued(j)'
    <2>1. PICK m \in DOMAIN ready : ready[m] = j
      BY <1>9 DEF Queued
    <2>2. m \in kept
      BY <1>9, <2>1
    <2>3. PICK k \in 1..n : order[k] = m
      BY <1>4, <2>2
    <2> QED  BY <1>5, <2>1, <2>3 DEF Queued
  <1>10. ASSUME \A j, k \in DOMAIN ready : ready[j] = ready[k] => j = k,
                NEW j \in DOMAIN ready', NEW k \in DOMAIN ready', ready'[j] = ready'[k]
         PROVE  j = k
    BY <1>4, <1>5, <1>10
  <1> QED  BY <1>2, <1>5, <1>6, <1>7, <1>8, <1>9, <1>10

\* Appending a stream that is not in the scheduler queue.
LEMMA AppendKeeps ==
  ASSUME NEW i \in Ids, ready \in Seq(Ids), ready' = Append(ready, i)
  PROVE  /\ ready' \in Seq(Ids) /\ Len(ready') = Len(ready) + 1
         /\ \A j : Queued(j)' <=> Queued(j) \/ j = i
         /\ (\A j, k \in DOMAIN ready : ready[j] = ready[k] => j = k) /\ ~ Queued(i)
            => \A j, k \in DOMAIN ready' : ready'[j] = ready'[k] => j = k
  BY DEF Queued

\* Taking the first stream out of the scheduler queue.
LEMMA TailKeeps ==
  ASSUME ready \in Seq(Ids), ready # <<>>, ready' = Tail(ready)
  PROVE  /\ ready' \in Seq(Ids) /\ Len(ready') <= Len(ready) /\ Head(ready) \in Ids
         /\ Queued(Head(ready))
         /\ \A j : Queued(j)' => Queued(j)
         /\ \A j : Queued(j) => Queued(j)' \/ j = Head(ready)
         /\ (\A j, k \in DOMAIN ready : ready[j] = ready[k] => j = k)
            => /\ \A j, k \in DOMAIN ready' : ready'[j] = ready'[k] => j = k
               /\ \A h : h = Head(ready) => ~ Queued(h)'
  <1>1. /\ Len(ready') = Len(ready) - 1 /\ ready' \in Seq(Ids) /\ Len(ready) \in Nat \ {0}
        /\ DOMAIN ready = 1..Len(ready) /\ DOMAIN ready' = 1..(Len(ready) - 1)
        /\ \A k \in 1..(Len(ready) - 1) : ready'[k] = ready[k + 1]
        /\ Head(ready) = ready[1] /\ Head(ready) \in Ids
    OBVIOUS
  <1>2. \A j : Queued(j) => Queued(j)' \/ j = Head(ready)
    <2> SUFFICES ASSUME NEW j, Queued(j), j # ready[1]  PROVE Queued(j)'
      BY <1>1
    <2>1. PICK k \in DOMAIN ready : ready[k] = j
      BY DEF Queued
    <2>2. k - 1 \in 1..(Len(ready) - 1) /\ ready'[k - 1] = j
      BY <1>1, <2>1
    <2> QED  BY <1>1, <2>2 DEF Queued
  <1>3. \A j : Queued(j)' => \E k \in 2..Len(ready) : ready[k] = j
    BY <1>1 DEF Queued
  <1>4. Queued(Head(ready)) /\ \A j : Queued(j)' => Queued(j)
    BY <1>1, <1>3 DEF Queued
  <1>5. ASSUME \A j, k \in DOMAIN ready : ready[j] = ready[k] => j = k
        PROVE  /\ \A j, k \in DOMAIN ready' : ready'[j] = ready'[k] => j = k
               /\ \A h : h = Head(ready) => ~ Queued(h)'
    <2>1. ASSUME NEW j \in DOMAIN ready', NEW k \in DOMAIN ready', ready'[j] = ready'[k]
          PROVE  j = k
      <3>1. j + 1 \in DOMAIN ready /\ k + 1 \in DOMAIN ready /\ ready[j + 1] = ready[k + 1]
        BY <1>1, <2>1
      <3>2. j + 1 = k + 1
        BY <1>5, <3>1
      <3> QED  BY <1>1, <3>2
    <2>2. ASSUME NEW h, h = ready[1], Queued(h)'  PROVE FALSE
      <3>1. PICK k \in 1..(Len(ready) - 1) : ready[k + 1] = ready[1]
        BY <1>1, <2>2 DEF Queued
      <3>2. k + 1 \in DOMAIN ready /\ 1 \in DOMAIN ready
        BY <1>1
      <3> QED  BY <1>5, <3>1, <3>2
    <2> QED  BY <1>1, <2>1, <2>2
  <1> QED  BY <1>1, <1>2, <1>4, <1>5

-----------------------------------------------------------------------------
(* The invariant holds initially and every action preserves it.            *)

\* A session starts with no stream.
LEMMA InitInv == Init => Inv
  <1> SUFFICES ASSUME Init PROVE Inv
    OBVIOUS
  <1>1. Cardinality(streams) = 0
    BY FS_EmptySet DEF Init
  <1>2. TypeOK /\ OneTurn
    <2>1. ready = <<>> /\ DOMAIN ready = {} /\ Len(ready) = 0 /\ ready \in Seq(Ids)
      BY DEF Init
    <2>2. TypeOK
      <3>1. out \in [Ids -> Nat] /\ calls \in [Ids -> Nat] /\ 0 <= MaxStreams
        BY MuxSchedulerAssumption DEF Init
      <3> QED  BY <2>1, <3>1 DEF Init, TypeOK
    <2> QED  BY <2>1, <2>2 DEF Init, OneTurn, Queued, Held
  <1>4. Fresh /\ Idle /\ Marked /\ Pending
    BY MuxSchedulerAssumption DEF Init, Fresh, Idle, Marked, Pending, Token, Queued, Held, Usable
  <1>3. Listed
    BY <1>1, MuxSchedulerAssumption DEF Init, Listed
  <1> QED  BY <1>2, <1>3, <1>4 DEF Inv

\* A new stream has nothing to send and no turn; the limit holds.
LEMMA RegisterInv == ASSUME Inv, NEW i \in Ids, Register(i) PROVE Inv'
  <1> USE DEF Inv
  <1>1. /\ UNCHANGED <<ready, calls, wid, wpc, out, scheduled, closed, dying, done>> /\ ~ done
        /\ used' = used \cup {i} /\ i \notin used /\ streams' \subseteq streams \cup {i}
    BY DEF Register, queues, writer
  <1>2. \A j : Token(j)' <=> Token(j)
    BY <1>1 DEF Token, Queued, Held
  <1>3. TypeOK' /\ OneTurn'
    BY <1>1 DEF Register, TypeOK, OneTurn, Queued, Held, queues, writer
  <1>4. Fresh' /\ Idle' /\ Marked' /\ Pending'
    BY <1>1, <1>2 DEF Fresh, Idle, Marked, Pending, Usable, TypeOK
  <1>5. Cardinality(streams') <= MaxStreams
    <2>1. IsFiniteSet(streams) /\ Cardinality(streams) \in Nat /\ i \notin streams
      BY <1>1, MuxSchedulerAssumption, FS_Subset, FS_CardinalityType DEF TypeOK
    <2>2. Cardinality(streams \cup {i}) = Cardinality(streams) + 1
      BY <2>1, FS_AddElement
    <2>3. CASE streams' = streams
      BY <2>3 DEF Listed
    <2>4. CASE Cardinality(streams) < MaxStreams /\ streams' = streams \cup {i}
      BY <2>1, <2>2, <2>4, MuxSchedulerAssumption
    <2> QED  BY <2>3, <2>4 DEF Register
  <1>6. Listed'
    BY <1>1, <1>5 DEF Listed, Register
  <1> QED  BY <1>3, <1>4, <1>6

\* Approval and a received FIN change flags that no turn depends on.
LEMMA FlagsInv == ASSUME Inv, NEW i \in Ids, Opened(i) \/ receiveFIN(i) PROVE Inv'
  <1> USE DEF Inv
  <1>1. /\ UNCHANGED <<used, streams, ready, calls, wid, wpc, out, scheduled, closed, dying, done>>
        /\ i \in Usable
    BY DEF Opened, receiveFIN, queues, writer, life
  <1>2. \A j : Token(j)' <=> Token(j)
    BY <1>1 DEF Token, Queued, Held
  <1>3. TypeOK' /\ OneTurn'
    BY <1>1 DEF Opened, receiveFIN, TypeOK, OneTurn, Queued, Held, Usable
  <1>4. Fresh' /\ Idle' /\ Marked' /\ Pending' /\ Listed'
    BY <1>1, <1>2 DEF Fresh, Idle, Marked, Pending, Usable, Listed
  <1> QED  BY <1>3, <1>4

\* A queued frame comes with a turn: the one there is, or a new one.
LEMMA WriteInv == ASSUME Inv, NEW i \in Ids, Write(i) \/ CloseWrite(i) PROVE Inv'
  <1> USE DEF Inv
  <1>1. /\ UNCHANGED <<used, streams, ready, wid, wpc, closed, dying, done>>
        /\ i \in Usable /\ Enqueue(i)
    BY DEF Write, CloseWrite, sets, writer, life
  <1>2. /\ out' \in [Ids -> Nat] /\ \A j \in Ids : j # i => out'[j] = out[j]
        /\ scheduled' = scheduled \cup {i}
        /\ calls' \in [Ids -> Nat] /\ \A j \in Ids : j # i => calls'[j] = calls[j]
        /\ i \in scheduled => calls' = calls
        /\ i \notin scheduled => calls'[i] = calls[i] + 1
    BY <1>1 DEF Enqueue, TypeOK
  <1>3. (\A j : Queued(j)' <=> Queued(j)) /\ (\A j : Held(j)' <=> Held(j))
    <2>1. ready' = ready /\ wid' = wid /\ wpc' = wpc
      BY <1>1
    <2> QED  BY <2>1 DEF Queued, Held
  <1>4. i \notin scheduled => calls[i] = 0 /\ ~ Queued(i) /\ ~ Held(i)
    BY <1>1 DEF Idle, Token, TypeOK
  <1>5. OneTurn'
    <2>1. \A j, k \in DOMAIN ready' : ready'[j] = ready'[k] => j = k
      BY <1>1 DEF OneTurn
    <2>2. ASSUME NEW j \in Ids
          PROVE  /\ calls'[j] <= 1
                 /\ ~ (Queued(j)' /\ calls'[j] > 0) /\ ~ (Queued(j)' /\ Held(j)') /\ ~ (calls'[j] > 0 /\ Held(j)')
      <3>1. CASE j # i \/ i \in scheduled
        BY <1>2, <1>3, <3>1 DEF OneTurn
      <3>2. CASE j = i /\ i \notin scheduled
        BY <1>2, <1>3, <1>4, <3>2
      <3> QED  BY <3>1, <3>2
    <2> QED  BY <2>1, <2>2 DEF OneTurn
  <1>6. TypeOK'
    BY <1>1, <1>2 DEF TypeOK, Usable, Write, CloseWrite, sets
  <1>7. streams \subseteq Ids /\ Usable \subseteq used /\ used \subseteq Ids /\ Usable' = Usable
    BY <1>1 DEF TypeOK, Usable
  <1>8. /\ \A j \in Ids : j # i => (Token(j)' <=> Token(j))
        /\ Token(i)' <=> Token(i) \/ i \notin scheduled
    BY <1>2, <1>3, <1>4 DEF Token, TypeOK
  <1>9. Fresh' /\ Idle' /\ Marked' /\ Pending'
    BY <1>1, <1>2, <1>7, <1>8 DEF Fresh, Idle, Marked, Pending
  <1>10. Listed'
    BY <1>1 DEF Listed
  <1> QED  BY <1>5, <1>6, <1>10, <1>9

\* A stream that closes keeps its turn until it leaves the map.
LEMMA CloseInv ==
  ASSUME Inv, NEW i \in Ids, receiveReset(i) \/ Close(i) \/ EndStream(i)  PROVE Inv'
  <1> USE DEF Inv
  <1>1. /\ UNCHANGED <<used, streams, ready, calls, wid, wpc, out, scheduled, done>>
        /\ closed' = closed \cup {i} /\ dying' \subseteq dying /\ i \in used
    BY DEF receiveReset, Close, EndStream, sets, queues, life, writer, TypeOK, Usable
  <1>2. \A j : Token(j)' <=> Token(j)
    BY <1>1 DEF Token, Queued, Held
  <1>3. TypeOK'
    BY <1>1 DEF receiveReset, Close, EndStream, TypeOK, sets
  <1>4. OneTurn'
    BY <1>1 DEF OneTurn, Queued, Held
  <1>5. Fresh' /\ Idle' /\ Marked' /\ Pending' /\ Listed'
    BY <1>1, <1>2 DEF Fresh, Idle, Marked, Pending, Usable, Listed
  <1> QED  BY <1>3, <1>4, <1>5

\* Reset takes the mark and the frames of a stream together.
LEMMA ResetInv == ASSUME Inv, NEW i \in Ids, Reset(i) PROVE Inv'
  <1> USE DEF Inv
  <1>1. /\ UNCHANGED <<used, streams, dying, ready, calls, wid, wpc, done>>
        /\ closed' = closed \cup {i} /\ scheduled' = scheduled \ {i} /\ i \in used
        /\ out' \in [Ids -> Nat] /\ out'[i] = 0 /\ \A j \in Ids : j # i => out'[j] = out[j]
    BY DEF Reset, sets, life, writer, TypeOK, Usable
  <1>2. \A j : Token(j)' <=> Token(j)
    BY <1>1 DEF Token, Queued, Held
  <1>3. TypeOK'
    BY <1>1 DEF Reset, TypeOK, sets
  <1>4. OneTurn'
    BY <1>1 DEF OneTurn, Queued, Held
  <1>5. Fresh' /\ Idle' /\ Marked' /\ Pending' /\ Listed'
    BY <1>1, <1>2 DEF Fresh, Idle, Marked, Pending, Usable, Listed, TypeOK
  <1> QED  BY <1>3, <1>4, <1>5

\* removeStream, called by a goroutine or by the writer after the last frame.
LEMMA RemoveInv ==
  ASSUME Inv, NEW i \in Ids, Remove(i) \/ (Drop /\ wid = i)  PROVE Inv'
  <1> USE DEF Inv
  <1>1. /\ UNCHANGED <<used, opened, closed, localWriteClosed, remoteWriteClosed, closeAfterDrain,
                       scheduled, out, calls, dying, done, wid>>
        /\ streams' = streams \ {i} /\ removing' \subseteq removing /\ Purge(i)
        /\ wpc' = wpc \/ (wpc = "drop" /\ wpc' = "write")
    BY DEF Remove, Drop, sets, queues, writer
  <1>2. ready \in Seq(Ids)
    BY DEF TypeOK
  <1>3. /\ ready' \in Seq(Ids) /\ Len(ready') <= Len(ready)
        /\ \A k \in DOMAIN ready' : ready'[k] # i /\ Queued(ready'[k])
        /\ \A j : j # i /\ Queued(j) => Queued(j)'
        /\ \A j, k \in DOMAIN ready' : ready'[j] = ready'[k] => j = k
    BY <1>1, <1>2, PurgeKeeps DEF OneTurn
  <1>4. \A j : Queued(j)' => Queued(j)
    BY <1>3 DEF Queued
  <1>5. \A j : Held(j)' <=> Held(j)
    BY <1>1 DEF Held
  <1>6. \A j : (Token(j)' => Token(j)) /\ (j # i /\ Token(j) => Token(j)')
    BY <1>1, <1>3, <1>4, <1>5 DEF Token
  <1>7. TypeOK'
    BY <1>1, <1>3, MuxSchedulerAssumption DEF TypeOK
  <1>8. OneTurn'
    BY <1>1, <1>3, <1>4, <1>5 DEF OneTurn
  <1>9. Fresh' /\ Idle' /\ Marked' /\ Pending'
    BY <1>1, <1>6 DEF Fresh, Idle, Marked, Pending, Usable
  <1>10. Cardinality(streams') <= MaxStreams
    <2>1. IsFiniteSet(streams) /\ Cardinality(streams) \in Nat
      BY MuxSchedulerAssumption, FS_Subset, FS_CardinalityType DEF TypeOK
    <2>2. Cardinality(streams') <= Cardinality(streams) /\ Cardinality(streams') \in Nat
      BY <1>1, <2>1, FS_Subset, FS_CardinalityType
    <2> QED  BY <2>1, <2>2, MuxSchedulerAssumption DEF Listed
  <1>11. Listed'
    <2>1. ~ done => \A k \in DOMAIN ready' : ready'[k] \in streams'
      BY <1>1, <1>3 DEF Listed, Queued
    <2> QED  BY <1>1, <1>10, <2>1 DEF Listed
  <1> QED  BY <1>7, <1>8, <1>9, <1>11

\* The end of a session empties the map; what is queued is never served again.
LEMMA ShutdownInv ==
  ASSUME Inv, Shutdown, UNCHANGED <<sets, closed, out, scheduled, removing, ready>>,
         calls' \in [Ids -> Nat], \A i \in Ids : calls'[i] <= calls[i],
         wid' \in Ids \cup {NoId}, wpc' \in {"write", "stopped"} \/ UNCHANGED writer
  PROVE  Inv'
  <1> USE DEF Inv
  <1>1. streams' = {} /\ dying' = streams /\ done' /\ Cardinality(streams') = 0
    BY FS_EmptySet DEF Shutdown
  <1>2. UNCHANGED <<used, opened, closed, localWriteClosed, remoteWriteClosed, closeAfterDrain>>
    BY DEF sets
  <1>3. \A j : Queued(j)' <=> Queued(j)
    BY DEF Queued
  <1>4. \A j : Held(j)' => Held(j)
    BY DEF Held, writer
  <1>5. \A j \in Ids : Token(j)' => Token(j)
    <2> SUFFICES ASSUME NEW j \in Ids, Token(j)' PROVE Token(j)
      OBVIOUS
    <2>1. calls'[j] > 0 => calls[j] > 0
      BY DEF TypeOK
    <2> QED  BY <1>3, <1>4, <2>1 DEF Token
  <1>6. TypeOK'
    <2>1. wpc' \in {"outer", "inner", "took", "found", "requeue", "drop", "write", "stopped"}
      BY DEF TypeOK, writer
    <2> QED  BY <1>1, <1>2, <2>1 DEF TypeOK, Shutdown
  <1>7. OneTurn'
    <2>1. \A j \in Ids : calls'[j] <= 1 /\ (calls'[j] > 0 => calls[j] > 0)
      BY DEF OneTurn, TypeOK
    <2> QED  BY <1>3, <1>4, <2>1 DEF OneTurn
  <1>8. Fresh' /\ Idle' /\ Marked' /\ Pending'
    <2>1. Usable' \subseteq Usable /\ Usable \subseteq Ids
      BY <1>1, <1>2 DEF Usable, TypeOK
    <2> QED  BY <1>1, <1>2, <1>5, <2>1 DEF Fresh, Idle, Marked, Pending
  <1>9. Listed'
    BY <1>1, MuxSchedulerAssumption DEF Listed, writer
  <1> QED  BY <1>6, <1>7, <1>8, <1>9

\* schedule puts the turn that a goroutine or the writer carries into ready.
LEMMA PushInv ==
  ASSUME Inv, NEW i \in Ids, Schedule(i) \/ (Requeue /\ wid = i)  PROVE Inv'
  <1> USE DEF Inv
  <1>1. /\ UNCHANGED <<used, opened, closed, localWriteClosed, remoteWriteClosed, closeAfterDrain,
                       scheduled, out, removing, wid>>
        /\ Push(i) /\ (calls[i] > 0 \/ Held(i))
    BY DEF Schedule, Requeue, sets, queues, writer, Held
  <1>2. /\ calls' \in [Ids -> Nat] /\ \A j \in Ids : calls'[j] <= calls[j]
        /\ \A j \in Ids : j # i => calls'[j] = calls[j]
        /\ \A j \in Ids : calls'[j] \in Nat /\ calls[j] \in Nat
    <2>1. calls \in [Ids -> Nat]
      BY DEF TypeOK
    <2>2. CASE Schedule(i)
      BY <2>1, <2>2 DEF Schedule
    <2>3. CASE calls' = calls
      BY <2>1, <2>3
    <2> QED  BY <2>2, <2>3 DEF Requeue, queues
  <1>3. /\ wpc' = wpc \/ (wpc = "requeue" /\ wpc' = "write" /\ wid = i)
        /\ wid' \in Ids \cup {NoId}
        /\ wpc' \in {"write", "stopped"} \/ UNCHANGED writer
    BY <1>1 DEF Schedule, Requeue, writer, TypeOK
  <1>4. ~ Queued(i) /\ calls'[i] = 0 /\ ~ Held(i)'
    <2>1. ~ Queued(i)
      BY <1>1 DEF OneTurn
    <2>2. CASE Schedule(i)
      <3>1. calls[i] = 1 /\ ~ Held(i) /\ calls'[i] = calls[i] - 1 /\ UNCHANGED writer
        BY <1>2, <2>2 DEF Schedule, OneTurn, TypeOK
      <3> QED  BY <2>1, <3>1 DEF Held, writer
    <2>3. CASE Requeue /\ wid = i
      <3>1. Held(i) /\ calls' = calls /\ wpc' = "write"
        BY <2>3 DEF Requeue, Held, queues
      <3> QED  BY <1>2, <2>1, <3>1 DEF OneTurn, Held
    <2> QED  BY <2>2, <2>3
  <1>5. \A j \in Ids : Held(j)' => Held(j)
    BY <1>1, <1>3 DEF Held
  <1>6. \A j \in Ids : j # i => (Held(j)' <=> Held(j))
    BY <1>1, <1>3 DEF Held
  <1>7. CASE i \in streams /\ Len(ready) >= MaxStreams /\ Shutdown /\ UNCHANGED ready
    <2>1. UNCHANGED <<sets, closed, out, scheduled, removing, ready>>
      BY <1>1, <1>7 DEF sets
    <2> QED  BY <1>2, <1>3, <1>7, <2>1, ShutdownInv
  <1>8. CASE i \notin streams /\ UNCHANGED <<ready, life>>
    <2>1. streams' = streams /\ dying' = dying /\ done' = done /\ ready' = ready
      BY <1>8 DEF life
    <2>2. \A j : Queued(j)' <=> Queued(j)
      BY <2>1 DEF Queued
    <2>3. \A j \in Ids : (Token(j)' => Token(j)) /\ (j # i /\ Token(j) => Token(j)')
      <3> SUFFICES ASSUME NEW j \in Ids PROVE (Token(j)' => Token(j)) /\ (j # i /\ Token(j) => Token(j)')
        OBVIOUS
      <3>1. (calls'[j] > 0 => calls[j] > 0) /\ (j # i => calls'[j] = calls[j])
        BY <1>2
      <3> QED  BY <1>5, <1>6, <2>2, <3>1 DEF Token
    <2>4. TypeOK'
      BY <1>1, <1>2, <1>3, <2>1 DEF TypeOK
    <2>5. OneTurn'
      <3>1. \A j \in Ids : calls'[j] <= 1 /\ (calls'[j] > 0 => calls[j] > 0)
        BY <1>2 DEF OneTurn
      <3> QED  BY <1>5, <2>1, <2>2, <3>1 DEF OneTurn
    <2>6. Fresh' /\ Idle' /\ Marked' /\ Pending'
      <3>1. Usable' = Usable /\ Usable \subseteq Ids /\ streams \subseteq Ids
        BY <1>1, <2>1 DEF Usable, TypeOK
      <3> QED  BY <1>1, <1>8, <2>1, <2>3, <3>1 DEF Fresh, Idle, Marked, Pending
    <2>7. Listed'
      BY <1>1, <1>3, <2>1 DEF Listed
    <2> QED  BY <2>4, <2>5, <2>6, <2>7
  <1>9. CASE i \in streams /\ Len(ready) < MaxStreams /\ ready' = Append(ready, i) /\ UNCHANGED life
    <2>1. streams' = streams /\ dying' = dying /\ done' = done
      BY <1>9 DEF life
    <2>2. /\ ready' \in Seq(Ids) /\ Len(ready') = Len(ready) + 1
          /\ \A j : Queued(j)' <=> Queued(j) \/ j = i
          /\ \A j, k \in DOMAIN ready' : ready'[j] = ready'[k] => j = k
      BY <1>4, <1>9, AppendKeeps DEF TypeOK, OneTurn
    <2>3. \A j \in Ids : Token(j)' <=> Token(j)
      <3> SUFFICES ASSUME NEW j \in Ids PROVE Token(j)' <=> Token(j)
        OBVIOUS
      <3>1. CASE j = i
        BY <1>1, <2>2, <3>1 DEF Token
      <3>2. CASE j # i
        BY <1>2, <1>6, <2>2, <3>2 DEF Token
      <3> QED  BY <3>1, <3>2
    <2>4. TypeOK'
      <3>1. Len(ready') <= MaxStreams
        BY <1>9, <2>2, MuxSchedulerAssumption DEF TypeOK
      <3> QED  BY <1>1, <1>2, <1>3, <2>1, <2>2, <3>1 DEF TypeOK
    <2>5. OneTurn'
      <3> SUFFICES ASSUME NEW j \in Ids
                   PROVE  /\ calls'[j] <= 1
                          /\ ~ (Queued(j)' /\ calls'[j] > 0) /\ ~ (Queued(j)' /\ Held(j)')
                          /\ ~ (calls'[j] > 0 /\ Held(j)')
        BY <2>2 DEF OneTurn
      <3>1. CASE j = i
        BY <1>4, <3>1
      <3>2. CASE j # i
        BY <1>2, <1>6, <2>2, <3>2 DEF OneTurn
      <3> QED  BY <3>1, <3>2
    <2>6. Fresh' /\ Idle' /\ Marked' /\ Pending'
      <3>1. Usable' = Usable /\ Usable \subseteq Ids /\ streams \subseteq Ids
        BY <1>1, <2>1 DEF Usable, TypeOK
      <3> QED  BY <1>1, <2>1, <2>3, <3>1 DEF Fresh, Idle, Marked, Pending
    <2>7. Listed'
      <3>1. ~ done => \A j : Queued(j)' => j \in streams
        BY <1>9, <2>2 DEF Listed, Queued
      <3>2. ~ done => \A k \in DOMAIN ready' : ready'[k] \in streams
        BY <3>1 DEF Queued
      <3> QED  BY <1>1, <1>3, <2>1, <3>2 DEF Listed
    <2> QED  BY <2>4, <2>5, <2>6, <2>7
  <1> QED  BY <1>1, <1>7, <1>8, <1>9 DEF Push

\* The writer takes the first stream's turn out of ready.
LEMMA TakeReadyInv == ASSUME Inv, TakeReady PROVE Inv'
  <1> USE DEF Inv
  <1> DEFINE h == Head(ready)
  <1>1. /\ UNCHANGED <<used, opened, closed, localWriteClosed, remoteWriteClosed, closeAfterDrain,
                       scheduled, out, calls, streams, dying, done, removing>>
        /\ wpc = "inner" /\ wpc' = "took" /\ wid' = h /\ ready # <<>> /\ ready' = Tail(ready)
    BY DEF TakeReady, sets, queues, life
  <1>2. /\ ready' \in Seq(Ids) /\ Len(ready') <= Len(ready) /\ h \in Ids
        /\ Queued(h)
        /\ \A j : Queued(j)' => Queued(j)
        /\ \A j : Queued(j) => Queued(j)' \/ j = h
        /\ \A j, k \in DOMAIN ready' : ready'[j] = ready'[k] => j = k
        /\ \A j : j = h => ~ Queued(j)'
    BY <1>1, TailKeeps DEF TypeOK, OneTurn
  <1> HIDE DEF h
  <1>3. \A j : ~ Held(j) /\ (Held(j)' <=> j = h)
    BY <1>1 DEF Held
  <1>4. \A j : Token(j)' <=> Token(j)
    BY <1>1, <1>2, <1>3 DEF Token
  <1>5. TypeOK'
    BY <1>1, <1>2, MuxSchedulerAssumption DEF TypeOK
  <1>6. OneTurn'
    BY <1>1, <1>2, <1>3 DEF OneTurn
  <1>7. Fresh' /\ Idle' /\ Marked' /\ Pending'
    BY <1>1, <1>4 DEF Fresh, Idle, Marked, Pending, Usable
  <1>8. Listed'
    <2>1. ~ done => \A k \in DOMAIN ready' : ready'[k] \in streams
      <3>1. ~ done => \A j : Queued(j) => j \in streams
        BY DEF Listed, Queued
      <3> QED  BY <1>2, <3>1 DEF Queued
    <2> QED  BY <1>1, <1>2, <2>1 DEF Listed
  <1> QED  BY <1>5, <1>6, <1>7, <1>8

\* Turns of the writer that neither take nor return a stream's turn.
LEMMA SelectInv == ASSUME Inv, TakeControl \/ NoControl \/ WriterStops  PROVE Inv'
  <1> USE DEF Inv
  <1>1. /\ UNCHANGED <<used, opened, closed, localWriteClosed, remoteWriteClosed, closeAfterDrain,
                       scheduled, out, calls, streams, dying, done, removing, ready, wid>>
        /\ wpc \in {"outer", "inner"} /\ wpc' \in {"inner", "write", "stopped"}
    BY DEF TakeControl, NoControl, WriterStops, sets, queues, life
  <1>2. \A j : Held(j)' <=> Held(j)
    BY <1>1 DEF Held
  <1>3. \A j : Queued(j)' <=> Queued(j)
    BY <1>1 DEF Queued
  <1>4. \A j : Token(j)' <=> Token(j)
    BY <1>1, <1>2, <1>3 DEF Token
  <1>5. TypeOK' /\ OneTurn'
    BY <1>1, <1>2, <1>3 DEF TypeOK, OneTurn
  <1>6. Fresh' /\ Idle' /\ Marked' /\ Pending' /\ Listed'
    BY <1>1, <1>4 DEF Fresh, Idle, Marked, Pending, Usable, Listed
  <1> QED  BY <1>5, <1>6

\* The turn of a stream that has left the map ends with the look-up.
LEMMA LookupInv == ASSUME Inv, Lookup PROVE Inv'
  <1> USE DEF Inv
  <1>1. /\ UNCHANGED <<used, opened, closed, localWriteClosed, remoteWriteClosed, closeAfterDrain,
                       scheduled, out, calls, streams, dying, done, removing, ready>>
        /\ wpc = "took" /\ wid \in Ids
        /\ \/ wid \in streams /\ wpc' = "found" /\ wid' = wid
           \/ wid \notin streams /\ wpc' = "outer" /\ wid' = NoId
    BY DEF Lookup, sets, queues, life, Listed
  <1>2. \A j : Queued(j)' <=> Queued(j)
    BY <1>1 DEF Queued
  <1>3. \A j \in Ids : (Held(j)' => Held(j)) /\ (Held(j) /\ j \in streams => Held(j)')
    BY <1>1, MuxSchedulerAssumption DEF Held
  <1>4. \A j \in Ids : (Token(j)' => Token(j)) /\ (Token(j) /\ j \in streams => Token(j)')
    BY <1>1, <1>2, <1>3 DEF Token
  <1>5. TypeOK' /\ OneTurn'
    BY <1>1, <1>2, <1>3 DEF TypeOK, OneTurn
  <1>6. Fresh' /\ Idle' /\ Marked' /\ Pending' /\ Listed'
    <2>1. Usable' = Usable /\ Usable \subseteq Ids /\ streams \subseteq Ids
      BY <1>1 DEF Usable, TypeOK
    <2> QED  BY <1>1, <1>4, <2>1 DEF Fresh, Idle, Marked, Pending, Listed
  <1> QED  BY <1>5, <1>6

\* nextOutbound gives up the turn together with the mark, or keeps both.
LEMMA nextOutboundInv == ASSUME Inv, nextOutbound PROVE Inv'
  <1> USE DEF Inv
  <1>1. /\ UNCHANGED <<used, opened, closed, localWriteClosed, remoteWriteClosed, closeAfterDrain,
                       calls, streams, dying, done, removing, ready>>
        /\ wpc = "found" /\ wid \in Ids /\ out \in [Ids -> Nat]
    BY DEF nextOutbound, sets, life, Listed, TypeOK
  <1>2. \A j : Queued(j)' <=> Queued(j)
    BY <1>1 DEF Queued
  <1>3. Held(wid) /\ ~ Queued(wid) /\ calls[wid] = 0
    BY <1>1 DEF OneTurn, Held, TypeOK
  <1>4. /\ out' \in [Ids -> Nat] /\ \A j \in Ids : j # wid => out'[j] = out[j]
        /\ wid' \in {wid, NoId}
        /\ \/ wpc' = "requeue" /\ scheduled' = scheduled /\ wid' = wid /\ out[wid] > 0
           \/ wpc' \in {"outer", "drop", "write"} /\ scheduled' = scheduled \ {wid} /\ out'[wid] = 0
        /\ wpc' = "drop" => wid' = wid
    <2>1. CASE out[wid] = 0
      BY <1>1, <2>1 DEF nextOutbound
    <2>2. CASE out[wid] = 1
      BY <1>1, <2>2 DEF nextOutbound
    <2>3. CASE out[wid] > 1
      BY <1>1, <2>3 DEF nextOutbound
    <2> QED  BY <1>1, <2>1, <2>2, <2>3
  <1>5. calls' = calls /\ ready' = ready
    BY <1>1
  <1>6. \A j \in Ids : (Held(j)' => Held(j)) /\ (j # wid => ~ Held(j))
    BY <1>1, <1>4 DEF Held
  <1>7. wpc' = "requeue" => \A j \in Ids : Held(j)' <=> Held(j)
    BY <1>1, <1>4 DEF Held
  <1>8. wpc' # "requeue" => \A j \in Ids : ~ Held(j)'
    BY <1>1, <1>4 DEF Held
  <1>9. \A j \in Ids : (Token(j)' => Token(j)) /\ (j # wid => (Token(j)' <=> Token(j)))
    BY <1>2, <1>5, <1>6 DEF Token
  <1>10. wpc' = "requeue" => (Token(wid) /\ \A j \in Ids : Token(j)' <=> Token(j))
    BY <1>2, <1>3, <1>5, <1>7 DEF Token
  <1>11. wpc' # "requeue" => \A j \in Ids : j = wid => ~ Token(j)'
    BY <1>2, <1>3, <1>5, <1>8 DEF Token
  <1>12. TypeOK'
    BY <1>1, <1>4 DEF TypeOK
  <1>13. OneTurn'
    BY <1>2, <1>5, <1>6 DEF OneTurn
  <1>14. Usable' = Usable /\ Usable \subseteq Ids /\ streams \subseteq Ids
    BY <1>1 DEF Usable, TypeOK
  <1>15. CASE wpc' = "requeue"
    BY <1>1, <1>4, <1>10, <1>12, <1>13, <1>14, <1>15 DEF Fresh, Idle, Marked, Pending, Listed
  <1>16. CASE wpc' # "requeue"
    <2>1. Fresh'
      BY <1>1, <1>4, <1>9, <1>16 DEF Fresh
    <2>2. Idle' /\ Marked'
      BY <1>1, <1>4, <1>9, <1>11, <1>14, <1>16 DEF Idle, Marked
    <2>3. Pending'
      BY <1>1, <1>4, <1>14, <1>16 DEF Pending
    <2>4. Listed'
      BY <1>1, <1>4, <1>16 DEF Listed
    <2> QED  BY <1>12, <1>13, <2>1, <2>2, <2>3, <2>4
  <1> QED  BY <1>15, <1>16

\* A written frame ends the writer's turn; a failed one ends the session.
LEMMA WriteFrameInv == ASSUME Inv, WriteFrame PROVE Inv'
  <1>1. CASE Shutdown
    <2>1. /\ UNCHANGED <<sets, closed, out, scheduled, removing, ready>> /\ calls' = calls
          /\ wid' \in Ids \cup {NoId} /\ wpc' \in {"outer", "stopped"}
      BY DEF WriteFrame, queues
    <2>2. calls' \in [Ids -> Nat] /\ \A i \in Ids : calls'[i] <= calls[i]
      BY <2>1 DEF Inv, TypeOK
    <2>3. wpc' = "stopped"
      BY <1>1 DEF WriteFrame, Shutdown, life
    <2> QED  BY <1>1, <2>1, <2>2, <2>3, ShutdownInv
  <1>2. CASE UNCHANGED life
    <2> USE DEF Inv
    <2>1. /\ UNCHANGED <<used, opened, closed, localWriteClosed, remoteWriteClosed, closeAfterDrain,
                         scheduled, out, calls, streams, dying, done, removing, ready>>
          /\ wpc = "write" /\ wpc' \in {"outer", "stopped"} /\ wid' = NoId
      BY <1>2 DEF WriteFrame, sets, queues, life
    <2>2. \A j : Held(j)' <=> Held(j)
      BY <2>1 DEF Held
    <2>3. \A j : Queued(j)' <=> Queued(j)
      BY <2>1 DEF Queued
    <2>4. \A j : Token(j)' <=> Token(j)
      BY <2>1, <2>2, <2>3 DEF Token
    <2>5. TypeOK' /\ OneTurn'
      BY <2>1, <2>2, <2>3 DEF TypeOK, OneTurn
    <2>6. Fresh' /\ Idle' /\ Marked' /\ Pending' /\ Listed'
      BY <2>1, <2>4 DEF Fresh, Idle, Marked, Pending, Usable, Listed
    <2> QED  BY <2>5, <2>6
  <1> QED  BY <1>1, <1>2 DEF WriteFrame

\* A session that ends for any other reason.
LEMMA EndInv == ASSUME Inv, End PROVE Inv'
  <1>1. /\ Shutdown /\ UNCHANGED <<sets, closed, out, scheduled, removing, ready>> /\ calls' = calls
        /\ UNCHANGED writer /\ wid' = wid
    BY DEF End, queues, writer
  <1>2. calls' \in [Ids -> Nat] /\ (\A i \in Ids : calls'[i] <= calls[i]) /\ wid' \in Ids \cup {NoId}
    BY <1>1 DEF Inv, TypeOK
  <1> QED  BY <1>1, <1>2, ShutdownInv

\* Every step of a goroutine, of readLoop and of writeLoop preserves the
\* invariant.
LEMMA NextInv == Inv /\ [Next]_vars => Inv'
  <1> SUFFICES ASSUME Inv, [Next]_vars PROVE Inv'
    OBVIOUS
  <1>1. CASE UNCHANGED vars
    <2>1. UNCHANGED <<used, opened, closed, localWriteClosed, remoteWriteClosed, closeAfterDrain,
                      scheduled, out, calls, streams, dying, done, removing, ready, wid, wpc>>
      BY <1>1 DEF vars, sets, queues, life, writer
    <2>2. \A j : (Queued(j)' <=> Queued(j)) /\ (Held(j)' <=> Held(j)) /\ (Token(j)' <=> Token(j))
      BY <2>1 DEF Queued, Held, Token
    <2>3. TypeOK' /\ OneTurn'
      BY <2>1, <2>2 DEF Inv, TypeOK, OneTurn
    <2>4. Fresh' /\ Idle' /\ Marked' /\ Pending' /\ Listed'
      BY <2>1, <2>2 DEF Inv, Fresh, Idle, Marked, Pending, Usable, Listed
    <2> QED  BY <2>3, <2>4 DEF Inv
  <1>2. CASE End
    BY <1>2, EndInv
  <1>3. ASSUME NEW i \in Ids, Stream(i)  PROVE Inv'
    BY <1>3, RegisterInv, FlagsInv, WriteInv, CloseInv, ResetInv, RemoveInv, PushInv DEF Stream
  <1>4. CASE Writer
    <2>1. wpc \in {"requeue", "drop"} => wid \in Ids
      BY DEF Inv, Listed
    <2>2. CASE Requeue \/ Drop
      BY <2>1, <2>2, PushInv, RemoveInv DEF Requeue, Drop
    <2> QED  BY <1>4, <2>2, SelectInv, TakeReadyInv, LookupInv, nextOutboundInv, WriteFrameInv DEF Writer
  <1> QED  BY <1>1, <1>2, <1>3, <1>4 DEF Next

-----------------------------------------------------------------------------
\* The token invariant holds throughout the life of a mux session.
THEOREM Invariance == Spec => []Inv
  <1> QED  BY InitInv, NextInv, PTL DEF Spec

\* Types, and a scheduler queue within its capacity, for any number of streams.
THEOREM TypeCorrect == Spec => []TypeOK
  <1>1. Inv => TypeOK
    BY DEF Inv
  <1> QED  BY <1>1, Invariance, PTL

\* schedule never finds the queue full for a stream that is in the map, so its
\* shutdown branch is dead code: the queue holds other streams of the map only,
\* each once, and they are fewer than the limit.
THEOREM QueueNeverFull == Spec => []SchedulerFits
  <1>1. Inv => SchedulerFits
    <2> SUFFICES ASSUME Inv, NEW i \in streams, calls[i] > 0 \/ (wpc = "requeue" /\ wid = i)
                 PROVE  Len(ready) < Capacity
      BY DEF SchedulerFits
    <2> USE DEF Inv
    <2>1. i \in Ids /\ ready \in Seq(Ids) /\ Len(ready) \in Nat /\ DOMAIN ready = 1..Len(ready)
      BY DEF TypeOK
    <2>2. ~ Queued(i) /\ ~ done
      BY <2>1 DEF OneTurn, Held, Listed
    <2>3. \A k \in 1..Len(ready) : ready[k] \in streams \ {i}
      BY <2>1, <2>2 DEF Listed, Queued
    <2>4. ready \in Injection(1..Len(ready), streams \ {i})
      <3>1. ready \in [1..Len(ready) -> streams \ {i}]
        BY <2>1, <2>3
      <3> QED  BY <2>1, <3>1 DEF Injection, IsInjective, OneTurn
    <2>5. IsFiniteSet(streams) /\ Cardinality(streams) \in Nat
      BY MuxSchedulerAssumption, FS_Subset, FS_CardinalityType DEF TypeOK
    <2>6. IsFiniteSet(streams \ {i}) /\ Cardinality(streams \ {i}) = Cardinality(streams) - 1
      BY <2>5, FS_RemoveElement
    <2>7. Cardinality(1..Len(ready)) <= Cardinality(streams \ {i})
      BY <2>4, <2>6, FS_Injection
    <2>8. Cardinality(1..Len(ready)) = Len(ready)
      BY <2>1, FS_Interval, SMTT(30)
    <2> QED  BY <2>1, <2>5, <2>6, <2>7, <2>8, MuxSchedulerAssumption DEF Listed
  <1> QED  BY <1>1, Invariance, PTL

\* A stream of the map with frames to send has a turn coming.
THEOREM WakeupsAreKept == Spec => []NoLostWakeup
  <1>1. Inv => NoLostWakeup
    BY DEF Inv, NoLostWakeup, Pending, Marked, Token
  <1> QED  BY <1>1, Invariance, PTL

\* No stream waits for two turns at a time.
THEOREM TurnsAreSingle == Spec => []OneTurn
  <1>1. Inv => OneTurn
    BY DEF Inv
  <1> QED  BY <1>1, Invariance, PTL

-----------------------------------------------------------------------------
(* Closed streams. The session's end empties the map before it closes the  *)
(* streams that were in it, so those need nobody to remove them.           *)

Ended == ~ done => dying = {}

Closing == ReleaseComes /\ Ended

\* A step of the application or of readLoop on one stream.
LEMMA StreamCloses == ASSUME Inv, Closing, NEW i \in Ids, Stream(i) PROVE Closing'
  <1> USE DEF Inv, Closing, ReleaseComes, Ended
  <1>1. CASE Register(i)
    BY <1>1 DEF Register, queues, writer, TypeOK
  <1>2. CASE Opened(i) \/ receiveFIN(i)
    BY <1>2 DEF Opened, receiveFIN, queues, life, writer
  <1>3. CASE Write(i) \/ CloseWrite(i)
    <2>1. out \in [Ids -> Nat] /\ out' = [out EXCEPT ![i] = @ + 1]
      BY <1>3 DEF Write, CloseWrite, Enqueue, TypeOK
    <2>2. \A j \in Ids : out[j] > 0 => out'[j] > 0
      BY <2>1
    <2> QED  BY <1>3, <2>2 DEF Write, CloseWrite, Enqueue, sets, life, writer, TypeOK
  <1>4. CASE receiveReset(i)
    BY <1>4 DEF receiveReset, sets, queues, life, writer
  <1>5. CASE Close(i)
    BY <1>5 DEF Close, queues, life, writer, TypeOK
  <1>6. CASE Reset(i)
    BY <1>6 DEF Reset, sets, life, writer, TypeOK
  <1>7. CASE Remove(i)
    BY <1>7 DEF Remove, sets, queues, writer
  <1>8. CASE Schedule(i)
    BY <1>8 DEF Schedule, Push, Shutdown, sets, life, writer
  <1>9. CASE EndStream(i)
    BY <1>9 DEF EndStream, sets, queues, writer, Listed
  <1> QED  BY <1>1, <1>2, <1>3, <1>4, <1>5, <1>6, <1>7, <1>8, <1>9 DEF Stream

\* A step of the writer: it takes the last frame of a stream that waits to be
\* removed only to remove it next.
LEMMA WriterCloses == ASSUME Inv, Closing, Writer PROVE Closing'
  <1> USE DEF Inv, Closing, ReleaseComes, Ended
  <1>1. CASE TakeControl \/ NoControl \/ TakeReady \/ WriterStops
    BY <1>1 DEF TakeControl, NoControl, TakeReady, WriterStops, sets, queues, life
  <1>2. CASE Lookup
    BY <1>2 DEF Lookup, sets, queues, life
  <1>3. CASE nextOutbound
    <2>1. /\ UNCHANGED <<closed, streams, removing, closeAfterDrain, dying, done>>
          /\ wpc = "found" /\ wid \in Ids
      BY <1>3 DEF nextOutbound, sets, life, Listed
    <2>2. \A j \in Ids : out[j] > 0 => \/ out'[j] > 0
                                       \/ j = wid /\ out[wid] = 1
      BY <1>3, <2>1 DEF nextOutbound, TypeOK
    <2>3. out[wid] = 1 /\ wid \in closeAfterDrain => wpc' = "drop" /\ wid' = wid
      BY <1>3, <2>1 DEF nextOutbound
    <2> QED  BY <2>1, <2>2, <2>3 DEF TypeOK
  <1>4. CASE Requeue
    BY <1>4 DEF Requeue, Push, Shutdown, sets, queues, life
  <1>5. CASE Drop
    BY <1>5 DEF Drop, sets, queues
  <1>6. CASE WriteFrame
    BY <1>6 DEF WriteFrame, Shutdown, sets, queues, life
  <1> QED  BY <1>1, <1>2, <1>3, <1>4, <1>5, <1>6 DEF Writer

\* A closed stream that is still in the map has someone to remove it, whichever
\* of Close, Reset, RESET from the peer, drain and shutdown come together.
THEOREM ReleaseIsUnderWay == Spec => []ReleaseComes
  <1>1. Init => Closing
    BY DEF Init, Closing, ReleaseComes, Ended
  <1>2. Inv /\ Closing /\ [Next]_vars => Closing'
    <2> SUFFICES ASSUME Inv, Closing, [Next]_vars PROVE Closing'
      OBVIOUS
    <2>1. CASE UNCHANGED vars
      BY <2>1 DEF Closing, ReleaseComes, Ended, vars, sets, queues, life, writer
    <2>2. CASE End
      BY <2>2 DEF End, Shutdown, Closing, ReleaseComes, Ended, sets, queues, writer
    <2> QED  BY <2>1, <2>2, StreamCloses, WriterCloses DEF Next
  <1>3. Closing => ReleaseComes
    BY DEF Closing
  <1> QED  BY <1>1, <1>2, <1>3, Invariance, PTL DEF Spec
=============================================================================
