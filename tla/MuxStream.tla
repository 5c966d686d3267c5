------------------------------ MODULE MuxStream ------------------------------
(***************************************************************************)
(* One stream of a multiplexing session from OPEN to its last frame: both  *)
(* ends of src/internal/mux/stream.go with the frame handlers of           *)
(* session.go, flow control, half-close and reset, and the goroutines of   *)
(* src/internal/bridge that open the stream (client.go), dial its target   *)
(* (server.go) and copy bytes to and from TCP (proxy.go).                  *)
(*                                                                         *)
(* The resumable link between the two sessions is a pair of FIFO queues    *)
(* (LinkStream shows that it is). Other streams of the session appear only *)
(* as choices: they may fill the server's stream limit or its accept       *)
(* queue, and they may end the session. That a stream with outbound frames *)
(* gets its turn at the writer is what MuxScheduler shows.                 *)
(*                                                                         *)
(* A step is what a goroutine does up to its next wait or its next lock;   *)
(* the removal of a closed stream and the RESET behind it are one step     *)
(* with the closing, because a closed stream ignores everything in between.*)
(***************************************************************************)
EXTENDS Integers, Sequences

CONSTANTS
    Window,         \* InitialStreamWindow
    Threshold,      \* windowUpdateThreshold
    MaxPayload,     \* protocol.MaxDataPayload
    MaxWire,        \* bound: frames in the link, one way
    Scenarios       \* what may happen outside the two sessions, one of them in a behaviour

Client == "client"
Server == "server"
Side   == {Client, Server}
Other(x) == IF x = Client THEN Server ELSE Client

\* A TCP read or write error, an OPEN time-out, a failed dial, a full stream
\* limit or accept queue, the end of the session; and "preempt": writeLoop may
\* be suspended between its two selects.
AllFaults == {"source", "sink", "timeout", "dial", "limit", "end", "preempt"}

ASSUME MuxStreamAssumption ==
    /\ Window \in Nat \ {0} /\ Threshold \in 1..Window /\ MaxPayload \in Nat \ {0}
    /\ MaxWire \in Nat \ {0}
    /\ \A e \in Scenarios : e.faults \subseteq AllFaults /\ e.bytes \in [Side -> Nat]

VARIABLES
    st,         \* the Stream of each side
    app,        \* its goroutines in the bridge
    control,    \* the stream's frames in each side's control queue
    wire,       \* frames each side has written and the other has not read yet
    inner,      \* writeLoop found no control frame and is at its second select
    alive,      \* the multiplexing session of each side is open
    sent, rcvd, \* bytes taken from and given to TCP so far
    scenario    \* the faults of this behaviour, and (bound) the bytes each side sends

vars == <<st, app, control, wire, inner, alive, sent, rcvd, scenario>>

Faults == scenario.faults

Frame(type)  == [type |-> type, n |-> 0]
Data(n)      == [type |-> "DATA", n |-> n]
Update(n)    == [type |-> "WINDOW_UPDATE", n |-> n]

newStream ==
    [registered |-> FALSE, opened |-> FALSE, closed |-> FALSE,
     localWriteClosed |-> FALSE, remoteWriteClosed |-> FALSE, closeAfterDrain |-> FALSE,
     sendWindow |-> Window, receiveWindow |-> Window, pendingWindowUpdate |-> 0,
     inbound |-> 0, outbound |-> <<>>]

\* phase: "idle", "opening" (OpenService or the dial), "proxy" or "done"; source
\* and sink: the two copying goroutines, "run", "ok" or "err"; eof: the source
\* ended because TCP did; held: bytes that Read returned and TCP has not taken,
\* with the window update that Read still has to queue for them; reset: the
\* proxy has met an error.
NewApp == [phase |-> "idle", source |-> "run", sink |-> "run", eof |-> FALSE,
           held |-> 0, update |-> 0, reset |-> FALSE]

Init ==
    /\ st = [x \in Side |-> newStream] /\ app = [x \in Side |-> NewApp]
    /\ control = [x \in Side |-> <<>>] /\ wire = [x \in Side |-> <<>>]
    /\ inner = [x \in Side |-> FALSE] /\ alive = [x \in Side |-> TRUE]
    /\ sent = [x \in Side |-> 0] /\ rcvd = [x \in Side |-> 0]
    /\ scenario \in Scenarios

sendControl(x, f) == control' = [control EXCEPT ![x] = Append(@, f)]

-----------------------------------------------------------------------------
(* Operations of a Stream, as functions of its state.                      *)

\* Closed and out of the map.
Gone(s) == [s EXCEPT !.closed = TRUE, !.registered = FALSE]

\* Fault: the peer is not told.
ResetSilently(x) ==
    /\ st' = IF st[x].closed THEN st ELSE [st EXCEPT ![x] = [Gone(@) EXCEPT !.outbound = <<>>]]
    /\ UNCHANGED control

\* Reset: nothing if the stream is closed already.
Reset(x) ==
    \/ /\ st[x].closed
       /\ UNCHANGED <<st, control>>
    \/ /\ ~ st[x].closed
       /\ st' = [st EXCEPT ![x] = [Gone(@) EXCEPT !.outbound = <<>>]]
       /\ sendControl(x, Frame("RESET"))

\* Fault: FIN takes precedence over the data.
CloseWriteFirst(s) ==
    IF s.localWriteClosed \/ s.closed THEN s
    ELSE [s EXCEPT !.localWriteClosed = TRUE, !.outbound = <<Frame("FIN")>> \o @]

\* CloseWrite: FIN follows the data.
CloseWrite(s) ==
    IF s.localWriteClosed \/ s.closed THEN s
    ELSE [s EXCEPT !.localWriteClosed = TRUE, !.outbound = Append(@, Frame("FIN"))]

\* Close, graceful when both directions have ended: then it waits for the
\* outbound queue, else it abandons the stream.
Close(x) ==
    LET s == st[x]
        graceful == s.localWriteClosed /\ s.remoteWriteClosed
        closing  == [s EXCEPT !.closed = TRUE, !.closeAfterDrain = graceful,
                              !.registered = graceful /\ s.outbound # <<>>]
    IN  /\ st' = IF s.closed THEN st ELSE [st EXCEPT ![x] = closing]
        /\ IF s.closed \/ graceful THEN UNCHANGED control ELSE sendControl(x, Frame("RESET"))

-----------------------------------------------------------------------------
(* Opening: Client.handle and OpenService, serveServer, Approve and Reject.*)

OpenService ==
    /\ app[Client].phase = "idle" /\ alive[Client]
    /\ st' = [st EXCEPT ![Client].registered = TRUE]
    /\ app' = [app EXCEPT ![Client].phase = "opening"]
    /\ sendControl(Client, Frame("OPEN"))
    /\ UNCHANGED <<wire, inner, alive, sent, rcvd, scenario>>

\* waitOpened returns, and the proxy starts or the connection ends.
waitOpened ==
    /\ app[Client].phase = "opening"
    /\ \/ st[Client].opened /\ app' = [app EXCEPT ![Client].phase = "proxy"]
       \/ /\ (~ st[Client].opened /\ st[Client].closed) \/ ~ alive[Client]
          /\ app' = [app EXCEPT ![Client].phase = "done"]
    /\ UNCHANGED <<st, control, wire, inner, alive, sent, rcvd, scenario>>

\* streamOpenTimeout passes first, perhaps after OPEN_OK has arrived.
OpenTimeout ==
    /\ "timeout" \in Faults
    /\ app[Client].phase = "opening"
    /\ app' = [app EXCEPT ![Client].phase = "done"]
    /\ Reset(Client)
    /\ UNCHANGED <<wire, inner, alive, sent, rcvd, scenario>>

\* The dial succeeds and Approve answers OPEN_OK, unless the stream is closed.
DialOK ==
    /\ app[Server].phase = "opening"
    /\ \/ /\ st[Server].closed
          /\ app' = [app EXCEPT ![Server].phase = "done"]
          /\ UNCHANGED <<st, control>>
       \/ /\ ~ st[Server].closed
          /\ app' = [app EXCEPT ![Server].phase = "proxy"]
          /\ st' = [st EXCEPT ![Server].opened = TRUE]
          /\ sendControl(Server, Frame("OPEN_OK"))
    /\ UNCHANGED <<wire, inner, alive, sent, rcvd, scenario>>

\* No such service, or the dial fails: Reject answers OPEN_ERROR.
DialFails ==
    /\ "dial" \in Faults
    /\ app[Server].phase = "opening"
    /\ app' = [app EXCEPT ![Server].phase = "done"]
    /\ \/ st[Server].closed /\ UNCHANGED <<st, control>>
       \/ /\ ~ st[Server].closed
          /\ st' = [st EXCEPT ![Server] = Gone(@)]
          /\ sendControl(Server, Frame("OPEN_ERROR"))
    /\ UNCHANGED <<wire, inner, alive, sent, rcvd, scenario>>

-----------------------------------------------------------------------------
(* readLoop.                                                               *)

\* The next frame on its way to x.
Incoming(x) == Head(wire[Other(x)])

Receives(x, types) ==
    /\ alive[x] /\ wire[Other(x)] # <<>> /\ Incoming(x).type \in types
    /\ wire' = [wire EXCEPT ![Other(x)] = Tail(@)]
    /\ UNCHANGED <<inner, alive, sent, rcvd, scenario>>

\* handleOpen: the stream goes to the accept queue, or is refused because other
\* streams fill the map or the queue.
handleOpen ==
    /\ Receives(Server, {"OPEN"})
    /\ \/ /\ st' = [st EXCEPT ![Server].registered = TRUE]
          /\ app' = [app EXCEPT ![Server].phase = "opening"]
          /\ UNCHANGED control
       \/ /\ "limit" \in Faults
          /\ sendControl(Server, Frame("OPEN_ERROR"))
          /\ UNCHANGED <<st, app>>

\* Fault: every late frame is answered with RESET.
HandleLateReplies(x) ==
    /\ ~ st[x].registered
    /\ Receives(x, {"OPEN_OK", "OPEN_ERROR", "DATA", "WINDOW_UPDATE", "FIN", "RESET"})
    /\ IF Incoming(x).type \in {"OPEN_ERROR", "RESET"} THEN UNCHANGED control
       ELSE sendControl(x, Frame("RESET"))
    /\ UNCHANGED <<st, app>>

\* A frame for a stream that is not in the map any more is discarded.
HandleLate(x) ==
    /\ ~ st[x].registered
    /\ Receives(x, {"OPEN_OK", "OPEN_ERROR", "DATA", "WINDOW_UPDATE", "FIN", "RESET"})
    /\ UNCHANGED <<st, app, control>>

HandleOpenOK(x) ==
    /\ st[x].registered /\ Receives(x, {"OPEN_OK"})
    /\ st' = IF st[x].closed THEN st ELSE [st EXCEPT ![x].opened = TRUE]
    /\ UNCHANGED <<app, control>>

\* OPEN_ERROR and RESET close the stream, if it is not closed, and remove it.
HandleEnd(x) ==
    /\ st[x].registered /\ Receives(x, {"OPEN_ERROR", "RESET"})
    /\ st' = [st EXCEPT ![x] = Gone(@)]
    /\ UNCHANGED <<app, control>>

\* Data that the stream cannot take in its present state.
DataError(s, n) == s.closed \/ s.remoteWriteClosed \/ ~ s.opened \/ n > s.receiveWindow

receiveData(x) ==
    /\ st[x].registered /\ Receives(x, {"DATA"})
    /\ \/ DataError(st[x], Incoming(x).n) /\ Reset(x)
       \/ /\ ~ DataError(st[x], Incoming(x).n)
          /\ st' = [st EXCEPT ![x].receiveWindow = @ - Incoming(x).n,
                              ![x].inbound = @ + Incoming(x).n]
          /\ UNCHANGED control
    /\ UNCHANGED app

UpdateError(s, n) == n = 0 \/ n > Window - s.sendWindow

updateSendWindow(x) ==
    /\ st[x].registered /\ Receives(x, {"WINDOW_UPDATE"})
    /\ \/ UpdateError(st[x], Incoming(x).n) /\ Reset(x)
       \/ /\ ~ UpdateError(st[x], Incoming(x).n)
          /\ st' = [st EXCEPT ![x].sendWindow = @ + Incoming(x).n]
          /\ UNCHANGED control
    /\ UNCHANGED app

receiveFIN(x) ==
    /\ st[x].registered /\ Receives(x, {"FIN"})
    /\ st' = IF st[x].closed THEN st ELSE [st EXCEPT ![x].remoteWriteClosed = TRUE]
    /\ UNCHANGED <<app, control>>

-----------------------------------------------------------------------------
(* writeLoop.                                                              *)

NoControl(x) ==
    /\ alive[x] /\ ~ inner[x] /\ control[x] = <<>>
    /\ inner' = [inner EXCEPT ![x] = TRUE]
    /\ UNCHANGED <<st, app, control, wire, alive, sent, rcvd, scenario>>

\* Either select takes a control frame.
WriteControl(x) ==
    /\ alive[x] /\ control[x] # <<>> /\ Len(wire[x]) < MaxWire
    /\ control' = [control EXCEPT ![x] = Tail(@)]
    /\ wire' = [wire EXCEPT ![x] = Append(@, Head(control[x]))]
    /\ inner' = [inner EXCEPT ![x] = FALSE]
    /\ UNCHANGED <<st, app, alive, sent, rcvd, scenario>>

\* The second select takes the stream, and nextOutbound its next frame. A
\* control frame queued since the first select found none has no precedence;
\* unless the writer was suspended between the selects, there is none.
WriteOutbound(x) ==
    /\ alive[x] /\ inner[x] /\ Len(wire[x]) < MaxWire
    /\ control[x] # <<>> => "preempt" \in Faults
    /\ st[x].registered /\ st[x].outbound # <<>>
    /\ wire' = [wire EXCEPT ![x] = Append(@, Head(st[x].outbound))]
    /\ st' = [st EXCEPT ![x].outbound = Tail(@),
                        ![x].registered = Len(st[x].outbound) > 1 \/ ~ st[x].closeAfterDrain]
    /\ inner' = [inner EXCEPT ![x] = FALSE]
    /\ UNCHANGED <<app, control, alive, sent, rcvd, scenario>>

\* The session of x ends: a full control queue, a framing error, another
\* failure, or because the other side's has ended and the link with it.
Shutdown(x) ==
    /\ "end" \in Faults \/ ~ alive[Other(x)]
    /\ alive[x]
    /\ alive' = [alive EXCEPT ![x] = FALSE]
    /\ st' = [st EXCEPT ![x] = IF @.registered THEN Gone(@) ELSE @]
    /\ UNCHANGED <<app, control, wire, inner, sent, rcvd, scenario>>

-----------------------------------------------------------------------------
(* ProxyWithTraffic on either side.                                        *)

\* One frame's worth of bytes from TCP.
Write(x, n) ==
    /\ app[x].phase = "proxy" /\ app[x].source = "run"
    /\ ~ st[x].closed /\ ~ st[x].localWriteClosed
    /\ n <= st[x].sendWindow /\ n <= MaxPayload /\ sent[x] + n <= scenario.bytes[x]
    /\ st' = [st EXCEPT ![x].sendWindow = @ - n, ![x].outbound = Append(@, Data(n))]
    /\ sent' = [sent EXCEPT ![x] = @ + n]
    /\ UNCHANGED <<app, control, wire, inner, alive, rcvd, scenario>>

\* Fault: the end of TCP is not passed on.
SourceEndsQuietly(x) ==
    /\ app[x].phase = "proxy" /\ app[x].source = "run"
    /\ app' = [app EXCEPT ![x].source = "ok", ![x].eof = ~ app[x].reset]
    /\ UNCHANGED <<st, control, wire, inner, alive, sent, rcvd, scenario>>

\* TCP has no more bytes, or the proxy itself has closed it. CloseWrite in any
\* case.
SourceEnds(x) ==
    /\ app[x].phase = "proxy" /\ app[x].source = "run"
    /\ app' = [app EXCEPT ![x].source = "ok", ![x].eof = ~ app[x].reset]
    /\ st' = [st EXCEPT ![x] = CloseWrite(@)]
    /\ UNCHANGED <<control, wire, inner, alive, sent, rcvd, scenario>>

\* Reading TCP fails, or Write finds the stream closed.
SourceFails(x) ==
    /\ app[x].phase = "proxy" /\ app[x].source = "run"
    /\ ("source" \in Faults /\ ~ app[x].reset) \/ st[x].closed
    /\ app' = [app EXCEPT ![x].source = "err"]
    /\ st' = [st EXCEPT ![x] = CloseWrite(@)]
    /\ UNCHANGED <<control, wire, inner, alive, sent, rcvd, scenario>>

\* Read takes bytes, keeps count of those whose window space is still to be
\* returned, and may have an update to queue.
ReadWith(x, n, kept, update) ==
    /\ app[x].phase = "proxy" /\ app[x].sink = "run" /\ app[x].held = 0
    /\ n <= st[x].inbound
    /\ st' = [st EXCEPT ![x].inbound = @ - n, ![x].receiveWindow = @ + n,
                        ![x].pendingWindowUpdate = kept]
    /\ app' = [app EXCEPT ![x].held = n, ![x].update = update]
    /\ UNCHANGED <<control, wire, inner, alive, sent, rcvd, scenario>>

\* Fault: the pending count is not reset.
ReadKeepsPending(x, n) ==
    LET pending == st[x].pendingWindowUpdate + n
    IN  ReadWith(x, n, pending, IF pending >= Threshold THEN pending ELSE 0)

\* Fault: only what this Read took is returned.
ReadReturnsLess(x, n) ==
    LET pending == st[x].pendingWindowUpdate + n
    IN  IF pending >= Threshold THEN ReadWith(x, n, 0, n) ELSE ReadWith(x, n, pending, 0)

\* Fault: the threshold itself is not enough.
ReadWaits(x, n) ==
    LET pending == st[x].pendingWindowUpdate + n
    IN  IF pending > Threshold THEN ReadWith(x, n, 0, pending) ELSE ReadWith(x, n, pending, 0)

Read(x, n) ==
    LET pending == st[x].pendingWindowUpdate + n
    IN  IF pending >= Threshold THEN ReadWith(x, n, 0, pending) ELSE ReadWith(x, n, pending, 0)

\* Read queues its window update and the bytes go to TCP, which may fail; TCP
\* closed by the proxy itself counts as a clean end of the copy.
Forward(x) ==
    /\ app[x].held > 0
    /\ IF app[x].update > 0 THEN sendControl(x, Update(app[x].update)) ELSE UNCHANGED control
    /\ LET taken == [app[x] EXCEPT !.held = 0, !.update = 0]
       IN  \/ /\ ~ app[x].reset
             /\ app' = [app EXCEPT ![x] = taken]
             /\ rcvd' = [rcvd EXCEPT ![x] = @ + app[x].held]
          \/ /\ app[x].reset
             /\ app' = [app EXCEPT ![x] = [taken EXCEPT !.sink = "ok"]]
             /\ UNCHANGED rcvd
          \/ /\ ~ app[x].reset /\ "sink" \in Faults
             /\ app' = [app EXCEPT ![x] = [taken EXCEPT !.sink = "err"]]
             /\ UNCHANGED rcvd
    /\ UNCHANGED <<st, wire, inner, alive, sent, scenario>>

\* Read returns EOF, also on a closed stream whose peer had finished, and TCP is
\* half-closed.
SinkEnds(x) ==
    /\ app[x].phase = "proxy" /\ app[x].sink = "run" /\ app[x].held = 0
    /\ st[x].inbound = 0 /\ st[x].remoteWriteClosed
    /\ \/ app' = [app EXCEPT ![x].sink = "ok"]
       \/ "sink" \in Faults /\ ~ app[x].reset /\ app' = [app EXCEPT ![x].sink = "err"]
    /\ UNCHANGED <<st, control, wire, inner, alive, sent, rcvd, scenario>>

\* Read finds the stream closed.
SinkFails(x) ==
    /\ app[x].phase = "proxy" /\ app[x].sink = "run" /\ app[x].held = 0
    /\ st[x].inbound = 0 /\ ~ st[x].remoteWriteClosed /\ st[x].closed
    /\ app' = [app EXCEPT ![x].sink = "err"]
    /\ UNCHANGED <<st, control, wire, inner, alive, sent, rcvd, scenario>>

\* The proxy meets the first error: reset the stream, close TCP.
ProxyFails(x) ==
    /\ app[x].phase = "proxy" /\ ~ app[x].reset
    /\ app[x].source = "err" \/ app[x].sink = "err"
    /\ app' = [app EXCEPT ![x].reset = TRUE]
    /\ Reset(x)
    /\ UNCHANGED <<wire, inner, alive, sent, rcvd, scenario>>

\* Both copies are over.
ProxyEnds(x) ==
    /\ app[x].phase = "proxy"
    /\ app[x].source # "run" /\ app[x].sink # "run"
    /\ app[x].source = "err" \/ app[x].sink = "err" => app[x].reset
    /\ app' = [app EXCEPT ![x].phase = "done"]
    /\ Close(x)
    /\ UNCHANGED <<wire, inner, alive, sent, rcvd, scenario>>

-----------------------------------------------------------------------------
Opening == OpenService \/ waitOpened \/ OpenTimeout \/ DialOK \/ DialFails

readLoop(x) ==
    \/ HandleLate(x) \/ HandleOpenOK(x) \/ HandleEnd(x)
    \/ receiveData(x) \/ updateSendWindow(x) \/ receiveFIN(x)

writeLoop(x) == NoControl(x) \/ WriteControl(x) \/ WriteOutbound(x)

Proxy(x) ==
    \/ SourceEnds(x) \/ SourceFails(x) \/ Forward(x) \/ SinkEnds(x) \/ SinkFails(x)
    \/ ProxyFails(x) \/ ProxyEnds(x)
    \/ \E n \in 1..Window : Write(x, n) \/ Read(x, n)

Next ==
    \/ Opening \/ handleOpen
    \/ \E x \in Side : readLoop(x) \/ writeLoop(x) \/ Proxy(x) \/ Shutdown(x)

Spec == Init /\ [][Next]_vars

\* Goroutines run and the link delivers. Nothing is assumed of the TCP peers
\* but that they take what they are given, and of the targets but that a dial
\* returns; that the outbound queue gets its turn is MuxScheduler's Flows.
Fairness ==
    /\ WF_vars(waitOpened) /\ WF_vars(DialOK \/ DialFails) /\ WF_vars(handleOpen)
    /\ \A x \in Side :
        /\ WF_vars(readLoop(x)) /\ WF_vars(writeLoop(x))
        /\ WF_vars(Forward(x)) /\ WF_vars(SinkEnds(x) \/ SinkFails(x))
        /\ WF_vars(\E n \in 1..Window : Read(x, n))
        /\ WF_vars(ProxyFails(x) \/ ProxyEnds(x))
        /\ WF_vars(~ alive[Other(x)] /\ Shutdown(x))

FairSpec == Spec /\ Fairness

-----------------------------------------------------------------------------
(* Properties.                                                             *)

Frames == [type : {"OPEN", "OPEN_OK", "OPEN_ERROR", "DATA", "WINDOW_UPDATE", "FIN", "RESET"},
           n : 0..Window]

Streams == [registered : BOOLEAN, opened : BOOLEAN, closed : BOOLEAN,
            localWriteClosed : BOOLEAN, remoteWriteClosed : BOOLEAN, closeAfterDrain : BOOLEAN,
            sendWindow : 0..Window, receiveWindow : 0..Window,
            pendingWindowUpdate : 0..(Threshold - 1), inbound : 0..Window, outbound : Seq(Frames)]

Apps == [phase : {"idle", "opening", "proxy", "done"}, source : {"run", "ok", "err"},
         sink : {"run", "ok", "err"}, eof : BOOLEAN, held : 0..Window, update : 0..Window,
         reset : BOOLEAN]

\* Every variable keeps its type. The windows stay within InitialStreamWindow:
\* the unsigned arithmetic of stream.go (lines 136, 203, 245, 257, 260) never
\* wraps.
TypeOK ==
    /\ st \in [Side -> Streams] /\ app \in [Side -> Apps]
    /\ control \in [Side -> Seq(Frames)] /\ wire \in [Side -> Seq(Frames)]
    /\ inner \in [Side -> BOOLEAN] /\ alive \in [Side -> BOOLEAN]
    /\ sent \in [Side -> Nat] /\ rcvd \in [Side -> Nat] /\ scenario \in Scenarios

\* The sum of a sequence of numbers.
Total(f) ==
    LET sum[k \in 0..Len(f)] == IF k = 0 THEN 0 ELSE sum[k - 1] + f[k]
    IN  sum[Len(f)]

\* The sum of n over the frames of q of the given type.
Carried(q, type) == Total([i \in DOMAIN q |-> IF q[i].type = type THEN q[i].n ELSE 0])

\* Where the window of the direction from x to its peer is: the space x may
\* still use, the bytes on their way to the reader, and the space on its way
\* back.
Space(x) ==
    LET y == Other(x)
    IN  st[x].sendWindow + Carried(st[x].outbound, "DATA") + Carried(wire[x], "DATA")
          + st[y].inbound + st[y].pendingWindowUpdate + app[y].update
          + Carried(control[y], "WINDOW_UPDATE") + Carried(wire[y], "WINDOW_UPDATE")

\* Flow control neither leaks nor invents window space: while neither end has
\* closed the stream, its parts make up InitialStreamWindow. So receiveData
\* never finds the window exceeded and updateSendWindow never an invalid amount
\* on a healthy stream.
WindowConserved ==
    \A x \in Side : ~ st[x].closed /\ ~ st[Other(x)].closed => Space(x) = Window

\* A reader that sees the end of the stream has been given every byte that the
\* writer took from TCP, and the writer had finished: neither a reset, a close
\* nor the precedence of control frames makes a truncated stream look complete.
EOFExact ==
    \A x \in Side :
        app[x].sink = "ok" /\ ~ app[x].reset =>
            rcvd[x] = sent[Other(x)] /\ st[Other(x)].localWriteClosed

\* What one stream can leave in the control queue while the writer is blocked:
\* its opening frame, the updates that a full window is worth and one RESET.
\* The queue has room for eight frames per stream.
ControlShare ==
    \A x \in Side : Len(control[x]) <= (Window \div Threshold) + 2

\* A stream closed at one end, for any reason, is eventually out of the maps of
\* both sessions: every way of closing it sends the peer what it needs to let go.
BothEndsRelease ==
    [] <> ((\E x \in Side : st[x].closed) => \A y \in Side : ~ st[y].registered)

\* All that x has sent has arrived, and x may send more.
Settled(x) ==
    rcvd[Other(x)] = sent[x] /\ (st[x].sendWindow > 0 \/ app[x].source # "run")

\* Without faults outside, every byte a side takes from TCP reaches the other
\* side's TCP, also when the window is smaller than the stream: a window that is
\* used up opens again, and no update is kept back for ever (Stream.Read).
Transfers == Faults = {} => [] <> (\A x \in Side : Settled(x))

\* Without faults outside, an end of file at one side becomes one at the other.
HalfClose ==
    Faults = {} => [] <> (\A x \in Side : app[x].eof => app[Other(x)].sink = "ok")
=============================================================================
