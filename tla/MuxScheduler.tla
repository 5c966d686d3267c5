---------------------------- MODULE MuxScheduler ----------------------------
(***************************************************************************)
(* The goroutines of one multiplexing session, client or server            *)
(* (src/internal/mux/session.go, stream.go): the map of streams, each      *)
(* stream's queue of outbound frames, the scheduler queue ready that holds *)
(* the streams with something to send, and the single writer.              *)
(*                                                                         *)
(* A step is what happens under one lock or in one channel operation. What *)
(* a goroutine still has to do after it unlocked is state: a schedule call *)
(* (calls), a removeStream call (removing), the reset of the streams of a  *)
(* session that was shut down (dying).                                     *)
(*                                                                         *)
(* Frames are counted: their order in a stream and their contents are the  *)
(* subject of MuxStream, and so is the control queue. Here it is a choice  *)
(* whether the writer finds a control frame, and a full control queue is   *)
(* one of the ways a session ends. What the peer sends is a choice.        *)
(***************************************************************************)
EXTENDS Integers, Sequences, FiniteSets, Functions

CONSTANTS
    Ids,            \* bound: the streams of a session's life
    NoId,           \* no stream
    MaxStreams,     \* Session.maxStreams
    MaxOut          \* bound: frames queued in a stream (its send window)

ASSUME MuxSchedulerAssumption ==
    /\ IsFiniteSet(Ids) /\ NoId \notin Ids
    /\ MaxStreams \in Nat \ {0} /\ MaxOut \in Nat \ {0}

VARIABLES
    used,       \* identifiers handed out so far; none is used twice
    streams,    \* the keys of Session.streams
    opened, closed, localWriteClosed, remoteWriteClosed, closeAfterDrain, scheduled,
    out,        \* frames in Stream.outbound
    calls,      \* schedule calls under way, per stream
    removing,   \* streams with a removeStream call under way
    dying,      \* streams that shutdown still has to reset
    ready,      \* Session.ready
    done,       \* Session.closed
    wpc,        \* writeLoop: "outer", "inner", "took", "found", "requeue", "drop", "write" or "stopped"
    wid         \* the stream it serves

sets   == <<used, opened, localWriteClosed, remoteWriteClosed, closeAfterDrain>>
queues == <<out, scheduled, calls>>
life   == <<streams, dying, done>>
writer == <<wpc, wid>>
vars   == <<sets, closed, queues, life, removing, ready, writer>>

\* Fault: the channel is made one place too small.
CapacityOneShort == MaxStreams - 1

\* The places of Session.ready.
Capacity == MaxStreams

Init ==
    /\ used = {} /\ streams = {} /\ opened = {} /\ closed = {}
    /\ localWriteClosed = {} /\ remoteWriteClosed = {} /\ closeAfterDrain = {}
    /\ scheduled = {} /\ out = [i \in Ids |-> 0] /\ calls = [i \in Ids |-> 0]
    /\ removing = {} /\ dying = {} /\ ready = <<>>
    /\ done = FALSE /\ wpc = "outer" /\ wid = NoId

\* shutdown, the first time: the map is emptied at once, its streams are reset
\* one by one afterwards.
Shutdown ==
    /\ done' = TRUE
    /\ dying' = streams
    /\ streams' = {}

\* The streams whose calls do something: a stream leaves the map only when it is
\* closed, or when the session ends and is about to close it.
Usable == (streams \cup dying) \ closed

-----------------------------------------------------------------------------
(* Streams come: OpenService on a client, handleOpen on a server.          *)

\* An identifier is used up even if the stream comes to nothing: the limit is
\* reached, or the accept queue is full and readLoop, before anyone else knows
\* of the stream, removes it again.
Register(i) ==
    /\ ~ done /\ i \notin used
    /\ used' = used \cup {i}
    /\ \/ Cardinality(streams) < MaxStreams /\ streams' = streams \cup {i}
       \/ UNCHANGED streams
    /\ UNCHANGED <<opened, localWriteClosed, remoteWriteClosed, closeAfterDrain, closed,
                   queues, dying, done, removing, ready, writer>>

\* markOpened on a client, Approve, which answers OPEN_OK, on a server.
Opened(i) ==
    /\ i \in Usable \ opened
    /\ opened' = opened \cup {i}
    /\ UNCHANGED <<used, localWriteClosed, remoteWriteClosed, closeAfterDrain, closed,
                   queues, life, removing, ready, writer>>

-----------------------------------------------------------------------------
(* The application's goroutines and readLoop on an open stream.            *)

\* enqueueLocked: the stream is handed to the scheduler if it is not there yet.
Enqueue(i) ==
    /\ out[i] < MaxOut
    /\ out' = [out EXCEPT ![i] = @ + 1]
    /\ scheduled' = scheduled \cup {i}
    /\ calls' = IF i \in scheduled THEN calls ELSE [calls EXCEPT ![i] = @ + 1]

\* Write queues a DATA frame.
Write(i) ==
    /\ i \in (Usable \cap opened) \ localWriteClosed
    /\ Enqueue(i)
    /\ UNCHANGED <<sets, closed, life, removing, ready, writer>>

\* CloseWrite queues FIN behind the data.
CloseWrite(i) ==
    /\ i \in (Usable \cap opened) \ localWriteClosed
    /\ localWriteClosed' = localWriteClosed \cup {i}
    /\ Enqueue(i)
    /\ UNCHANGED <<used, opened, remoteWriteClosed, closeAfterDrain, closed,
                   life, removing, ready, writer>>

receiveFIN(i) ==
    /\ i \in Usable \ remoteWriteClosed
    /\ remoteWriteClosed' = remoteWriteClosed \cup {i}
    /\ UNCHANGED <<used, opened, localWriteClosed, closeAfterDrain, closed,
                   queues, life, removing, ready, writer>>

\* RESET or OPEN_ERROR arrives: the stream is closed, and removed in any case
\* (again, to no effect, if a removal is under way).
receiveReset(i) ==
    /\ i \in streams \ removing
    /\ closed' = closed \cup {i}
    /\ removing' = removing \cup {i}
    /\ UNCHANGED <<sets, queues, life, ready, writer>>

\* Fault: a graceful Close leaves the removal to the writer, drained or not.
CloseLeavesDrained(i) ==
    /\ i \in Usable
    /\ closed' = closed \cup {i}
    /\ \/ /\ i \in localWriteClosed \cap remoteWriteClosed
          /\ closeAfterDrain' = closeAfterDrain \cup {i}
          /\ UNCHANGED removing
       \/ /\ i \notin localWriteClosed \cap remoteWriteClosed
          /\ removing' = removing \cup {i}
          /\ UNCHANGED closeAfterDrain
    /\ UNCHANGED <<used, opened, localWriteClosed, remoteWriteClosed,
                   queues, life, ready, writer>>

\* Close after both directions have ended waits for the outbound queue to
\* drain; any other Close, and Reject, abandon the stream and tell the peer.
Close(i) ==
    /\ i \in Usable
    /\ closed' = closed \cup {i}
    /\ \/ /\ i \in localWriteClosed \cap remoteWriteClosed
          /\ closeAfterDrain' = closeAfterDrain \cup {i}
          /\ removing' = IF out[i] = 0 THEN removing \cup {i} ELSE removing
       \/ /\ i \notin localWriteClosed \cap remoteWriteClosed
          /\ removing' = removing \cup {i}
          /\ UNCHANGED closeAfterDrain
    /\ UNCHANGED <<used, opened, localWriteClosed, remoteWriteClosed,
                   queues, life, ready, writer>>

\* Reset drops what is queued: a copy error, an OPEN that timed out, or a frame
\* the stream cannot accept.
Reset(i) ==
    /\ i \in Usable
    /\ closed' = closed \cup {i}
    /\ out' = [out EXCEPT ![i] = 0]
    /\ scheduled' = scheduled \ {i}
    /\ removing' = removing \cup {i}
    /\ UNCHANGED <<sets, calls, life, ready, writer>>

-----------------------------------------------------------------------------
(* The session's queues.                                                   *)

\* The entries of other streams, in the order that rotating them through the
\* channel leaves; the writer, which takes entries without the lock, may turn
\* the rotation.
Rotation(order) ==
    LET n == Cardinality(DOMAIN order)
    IN  Cardinality({k \in 1..n : order[k] > order[(k % n) + 1]}) <= 1

Purge(i) ==
    LET kept == {k \in DOMAIN ready : ready[k] # i}
    IN  \E order \in Bijection(1..Cardinality(kept), kept) :
            /\ Rotation(order)
            /\ ready' = [k \in 1..Cardinality(kept) |-> ready[order[k]]]

\* removeStream.
Remove(i) ==
    /\ i \in removing
    /\ removing' = removing \ {i}
    /\ streams' = streams \ {i}
    /\ Purge(i)
    /\ UNCHANGED <<sets, closed, queues, dying, done, writer>>

\* Fault: a stream with more to send keeps its turn.
PushInFront(i) ==
    \/ i \notin streams /\ UNCHANGED <<ready, life>>
    \/ /\ i \in streams /\ Len(ready) < Capacity
       /\ ready' = <<i>> \o ready
       /\ UNCHANGED life
    \/ /\ i \in streams /\ Len(ready) >= Capacity
       /\ Shutdown
       /\ UNCHANGED ready

\* The body of schedule: a stream that was removed meanwhile is left alone.
Push(i) ==
    \/ i \notin streams /\ UNCHANGED <<ready, life>>
    \/ /\ i \in streams /\ Len(ready) < Capacity
       /\ ready' = Append(ready, i)
       /\ UNCHANGED life
    \/ /\ i \in streams /\ Len(ready) >= Capacity
       /\ Shutdown
       /\ UNCHANGED ready

Schedule(i) ==
    /\ calls[i] > 0
    /\ calls' = [calls EXCEPT ![i] = @ - 1]
    /\ Push(i)
    /\ UNCHANGED <<sets, closed, out, scheduled, removing, writer>>

\* sendControl finds its queue full, readLoop meets an error, or the session is
\* closed.
End ==
    /\ ~ done
    /\ Shutdown
    /\ UNCHANGED <<sets, closed, queues, removing, ready, writer>>

\* The rest of shutdown: receiveReset of every stream there was.
EndStream(i) ==
    /\ i \in dying
    /\ dying' = dying \ {i}
    /\ closed' = closed \cup {i}
    /\ UNCHANGED <<sets, queues, streams, done, removing, ready, writer>>

-----------------------------------------------------------------------------
(* writeLoop.                                                              *)

\* Either select may find a control frame.
TakeControl ==
    /\ wpc \in {"outer", "inner"}
    /\ wpc' = "write"
    /\ UNCHANGED <<sets, closed, queues, life, removing, ready, wid>>

\* The first select finds no control frame and falls through.
NoControl ==
    /\ wpc = "outer" /\ ~ done
    /\ wpc' = "inner"
    /\ UNCHANGED <<sets, closed, queues, life, removing, ready, wid>>

\* The second select takes a stream, whatever has been queued since.
TakeReady ==
    /\ wpc = "inner" /\ ready # <<>>
    /\ wpc' = "took" /\ wid' = Head(ready)
    /\ ready' = Tail(ready)
    /\ UNCHANGED <<sets, closed, queues, life, removing>>

Lookup ==
    /\ wpc = "took"
    /\ \/ wid \in streams /\ wpc' = "found" /\ UNCHANGED wid
       \/ wid \notin streams /\ wpc' = "outer" /\ wid' = NoId
    /\ UNCHANGED <<sets, closed, queues, life, removing, ready>>

\* Fault: the last frame leaves the stream marked as scheduled.
nextOutboundKeepsMark ==
    /\ wpc = "found" /\ out[wid] > 0
    /\ out' = [out EXCEPT ![wid] = @ - 1]
    /\ wpc' = IF out[wid] > 1 THEN "requeue" ELSE IF wid \in closeAfterDrain THEN "drop" ELSE "write"
    /\ UNCHANGED <<sets, closed, scheduled, calls, life, removing, ready, wid>>

\* nextOutbound under the stream's lock. What it does after unlocking, the
\* requeue or the removal, comes before the frame is written.
nextOutbound ==
    /\ wpc = "found"
    /\ \/ /\ out[wid] = 0
          /\ scheduled' = scheduled \ {wid}
          /\ wpc' = "outer" /\ wid' = NoId
          /\ UNCHANGED out
       \/ /\ out[wid] > 0
          /\ out' = [out EXCEPT ![wid] = @ - 1]
          /\ scheduled' = IF out[wid] > 1 THEN scheduled ELSE scheduled \ {wid}
          /\ wpc' = IF out[wid] > 1 THEN "requeue" ELSE IF wid \in closeAfterDrain THEN "drop" ELSE "write"
          /\ UNCHANGED wid
    /\ UNCHANGED <<sets, closed, calls, life, removing, ready>>

Requeue ==
    /\ wpc = "requeue"
    /\ wpc' = "write"
    /\ Push(wid)
    /\ UNCHANGED <<sets, closed, queues, removing, wid>>

\* The drained stream of a graceful Close leaves the map.
Drop ==
    /\ wpc = "drop"
    /\ wpc' = "write"
    /\ streams' = streams \ {wid}
    /\ Purge(wid)
    /\ UNCHANGED <<sets, closed, queues, dying, done, removing, wid>>

\* WriteFrame succeeds, or fails and ends the session.
WriteFrame ==
    /\ wpc = "write"
    /\ wid' = NoId
    /\ \/ ~ done /\ wpc' = "outer" /\ UNCHANGED life
       \/ ~ done /\ wpc' = "stopped" /\ Shutdown
       \/ done /\ wpc' = "stopped" /\ UNCHANGED life
    /\ UNCHANGED <<sets, closed, queues, removing, ready>>

WriterStops ==
    /\ wpc \in {"outer", "inner"} /\ done
    /\ wpc' = "stopped"
    /\ UNCHANGED <<sets, closed, queues, life, removing, ready, wid>>

Writer ==
    \/ TakeControl \/ NoControl \/ TakeReady \/ Lookup \/ nextOutbound
    \/ Requeue \/ Drop \/ WriteFrame \/ WriterStops

Stream(i) ==
    \/ Register(i) \/ Opened(i) \/ Write(i) \/ CloseWrite(i)
    \/ receiveFIN(i) \/ receiveReset(i) \/ Close(i) \/ Reset(i)
    \/ Remove(i) \/ Schedule(i) \/ EndStream(i)

Next == Writer \/ End \/ \E i \in Ids : Stream(i)

Spec == Init /\ [][Next]_vars

\* The writer and every goroutine that has left a lock go on; of the cases a
\* select finds ready, each is chosen some of the time; and control frames do
\* not keep the writer busy for good (each answers or announces something that
\* a stream does, and window updates are bounded by the data they acknowledge).
Fairness ==
    /\ WF_vars(Writer) /\ SF_vars(TakeReady) /\ []<>(wpc \in {"inner", "stopped"})
    /\ \A i \in Ids : WF_vars(Schedule(i)) /\ WF_vars(Remove(i))

FairSpec == Spec /\ Fairness

-----------------------------------------------------------------------------
(* Properties.                                                             *)

Queued(i) == \E k \in DOMAIN ready : ready[k] = i
Held(i)   == wid = i /\ wpc \in {"took", "found", "requeue"}

\* Every variable has its type, and the scheduler queue its capacity.
TypeOK ==
    /\ used \subseteq Ids /\ streams \subseteq used
    /\ opened \subseteq used /\ closed \subseteq used
    /\ localWriteClosed \subseteq used /\ remoteWriteClosed \subseteq used
    /\ closeAfterDrain \subseteq closed /\ scheduled \subseteq used
    /\ out \in [Ids -> Nat] /\ calls \in [Ids -> Nat]
    /\ removing \subseteq closed /\ dying \subseteq used
    /\ ready \in Seq(Ids) /\ Len(ready) <= MaxStreams
    /\ done \in BOOLEAN
    /\ wpc \in {"outer", "inner", "took", "found", "requeue", "drop", "write", "stopped"}
    /\ wid \in Ids \cup {NoId}

\* Whenever schedule runs for a stream that is still in the map, the scheduler
\* queue has room for it: "multiplexing scheduler queue full", which would end
\* every stream of the session, never happens.
SchedulerFits ==
    \A i \in streams : calls[i] > 0 \/ (wpc = "requeue" /\ wid = i) => Len(ready) < Capacity

\* A stream in the map with frames to send is in the scheduler queue, on its
\* way there, or being served: its frames cannot be forgotten, whatever Write,
\* CloseWrite, Close, Reset and nextOutbound do to the scheduled mark at once.
NoLostWakeup == \A i \in streams : out[i] > 0 => Queued(i) \/ calls[i] > 0 \/ Held(i)

\* A stream waits for one turn at a time: it is never twice in the scheduler
\* queue, nor in it while it is being served or scheduled again. (At most one
\* frame of a ready stream goes out before the next ready stream's.)
OneTurn ==
    /\ \A j, k \in DOMAIN ready : ready[j] = ready[k] => j = k
    /\ \A i \in Ids :
          /\ calls[i] <= 1
          /\ ~ (Queued(i) /\ calls[i] > 0) /\ ~ (Queued(i) /\ Held(i)) /\ ~ (calls[i] > 0 /\ Held(i))

\* A stream with frames to send has one written, however much other streams
\* send (the rotation of ready by nextOutbound's requeue), or leaves the map.
Flows ==
    \A i \in Ids : (i \in streams /\ out[i] > 0) ~> (wid = i /\ wpc = "write") \/ i \notin streams

\* A closed stream that still takes one of the session's places has someone to
\* remove it: a removeStream call, or the writer, once it has taken the last of
\* the frames that a graceful Close left (NoLostWakeup brings it there). Close
\* and nextOutbound may meet at that last frame in either order.
ReleaseComes ==
    \A i \in closed \cap streams :
        i \in removing \/ (wpc = "drop" /\ wid = i) \/ (i \in closeAfterDrain /\ out[i] > 0)
=============================================================================
