---------------------------- MODULE BridgeClient ----------------------------
(***************************************************************************)
(* The client's bridge (src/internal/bridge/client.go) between local TCP   *)
(* connections and the sessions that RunClient (src/internal/app/client.go)*)
(* makes one after the other: the endpoint that is replaced while          *)
(* connections wait for it, open streams on it and are proxied, the        *)
(* connection limit, and the end of a mux session                          *)
(* (src/internal/mux/session.go, shutdown).                                *)
(*                                                                         *)
(* RunClient makes a session only when the link of the one before is       *)
(* closed and its mux session is down, so link, mux, streams and collected *)
(* are those of the current session. A connection, an endpoint or a        *)
(* watching goroutine may belong to an earlier one. The deadlines of       *)
(* handle may pass at any moment; the end of the process is left out.      *)
(***************************************************************************)
EXTENDS Integers, FiniteSets

CONSTANTS
    Conns,      \* bound: local TCP connections at a time
    Sessions,   \* bound: sessions that something still refers to
    NoSession,  \* no endpoint
    Limit       \* cfg.MaxConnections: the bridge's slots and the mux's streams

ASSUME BridgeAssumption ==
    /\ IsFiniteSet(Conns)
    /\ Sessions # {} /\ NoSession \notin Sessions
    /\ Limit \in Nat \ {0}

VARIABLES
    session,    \* RunClient's current session
    link,       \* its link session: "unbound", "bound" or "closed"
    mux,        \* its mux session: "open", "closing" (done is closed) or "down"
    streams,    \* connections with a stream in the mux session's map
    lingering,  \* streams in the map that drain after their connection ended
    collected,  \* connections whose streams shutdown is going to reset
    watch,      \* SetEndpoint's goroutine for a session: "wait", "clear" or "none"
    endpoint,   \* c.endpoint
    pc,         \* where a connection's handle is
    held,       \* the endpoint it has in hand
    broken,     \* connections whose stream has been reset from outside
    slots       \* len(c.limit)

runVars  == <<session, link>>
muxVars  == <<mux, streams, lingering, collected>>
endVars  == <<watch, endpoint>>
connVars == <<pc, held, broken, slots>>
vars     == <<runVars, muxVars, endVars, connVars>>

Init ==
    /\ session \in Sessions /\ link = "unbound"
    /\ mux = "open" /\ streams = {} /\ lingering = 0 /\ collected = {}
    /\ watch = [g \in Sessions |-> IF g = session THEN "wait" ELSE "none"]
    /\ endpoint = session
    /\ pc = [k \in Conns |-> "none"] /\ held = [k \in Conns |-> NoSession]
    /\ broken = {} /\ slots = 0

-----------------------------------------------------------------------------
(* RunClient, the link session and the mux session.                        *)

LinkBound ==
    /\ link = "unbound" /\ link' = "bound"
    /\ UNCHANGED <<session, muxVars, endVars, connVars>>

LinkLost ==
    /\ link = "bound" /\ link' = "unbound"
    /\ UNCHANGED <<session, muxVars, endVars, connVars>>

\* The session expires, its peer closes it or no longer has it.
LinkClosed ==
    /\ link # "closed" /\ link' = "closed"
    /\ UNCHANGED <<session, muxVars, endVars, connVars>>

\* Fault: a bound session is left to the peer to close.
CloseLinkUnlessBound == link' = IF link = "bound" THEN "bound" ELSE "closed"

\* linkSession.Close, as Reset and as the mux session's conn.Close.
CloseLink == link' = "closed"

\* shutdown, up to the close of done: readLoop or writeLoop failed, RunClient
\* found the link closed, or the control queue was full. The map is emptied.
MuxEnds ==
    /\ mux = "open"
    /\ mux' = "closing"
    /\ collected' = streams /\ streams' = {} /\ lingering' = 0
    /\ UNCHANGED <<runVars, endVars, connVars>>

\* The rest of shutdown: the link is closed and the collected streams are reset.
MuxDown ==
    /\ mux = "closing"
    /\ mux' = "down"
    /\ CloseLink
    /\ broken' = broken \cup collected /\ collected' = {}
    /\ UNCHANGED <<session, streams, lingering, endVars, pc, held, slots>>

\* A session that nothing refers to stands for a new one.
Fresh == {g \in Sessions \ {session, endpoint} : watch[g] = "none" /\ \A k \in Conns : held[k] # g}

\* The link is closed and muxSession.Close has returned, so shutdown is
\* complete: RunClient makes the next session and SetEndpoint installs it.
NextSession ==
    /\ link = "closed" /\ mux = "down"
    /\ \E g \in Fresh :
          /\ session' = g /\ endpoint' = g
          /\ watch' = [watch EXCEPT ![g] = "wait"]
    /\ link' = "unbound" /\ mux' = "open"
    /\ UNCHANGED <<streams, lingering, collected, connVars>>

-----------------------------------------------------------------------------
(* SetEndpoint's goroutine.                                                *)

\* Mux.Done is closed; Reset closes the link session that belongs to it.
WatchReset(g) ==
    /\ watch[g] = "wait"
    /\ g = session => mux # "open"
    /\ watch' = [watch EXCEPT ![g] = "clear"]
    /\ IF g = session THEN CloseLink ELSE UNCHANGED link
    /\ UNCHANGED <<session, endpoint, muxVars, connVars>>

\* Fault: whatever is installed is taken away.
WatchClearsAny(g) ==
    /\ watch[g] = "clear"
    /\ watch' = [watch EXCEPT ![g] = "none"]
    /\ endpoint' = NoSession
    /\ UNCHANGED <<runVars, muxVars, connVars>>

WatchClear(g) ==
    /\ watch[g] = "clear"
    /\ watch' = [watch EXCEPT ![g] = "none"]
    /\ endpoint' = IF endpoint = g THEN NoSession ELSE endpoint
    /\ UNCHANGED <<runVars, muxVars, connVars>>

-----------------------------------------------------------------------------
(* serveListener and handle.                                               *)

\* A connection beyond the limit is closed at once.
Accept(k) ==
    /\ pc[k] = "none" /\ slots < Limit
    /\ slots' = slots + 1
    /\ pc' = [pc EXCEPT ![k] = "waiting"]
    /\ UNCHANGED <<runVars, muxVars, endVars, held, broken>>

\* Fault: a connection that was never proxied keeps its slot.
LeaveEarlyKeepsSlot(k) ==
    /\ pc' = [pc EXCEPT ![k] = "none"] /\ held' = [held EXCEPT ![k] = NoSession]
    /\ broken' = broken \ {k}
    /\ slots' = IF pc[k] = "proxy" THEN slots - 1 ELSE slots

\* handle returns: the connection is closed and its slot is free.
Leave(k) ==
    /\ pc' = [pc EXCEPT ![k] = "none"] /\ held' = [held EXCEPT ![k] = NoSession]
    /\ broken' = broken \ {k}
    /\ slots' = slots - 1

\* waitReady reads the endpoint ...
TakeEndpoint(k) ==
    /\ pc[k] = "waiting" /\ endpoint # NoSession
    /\ pc' = [pc EXCEPT ![k] = "checking"] /\ held' = [held EXCEPT ![k] = endpoint]
    /\ UNCHANGED <<runVars, muxVars, endVars, broken, slots>>

\* ... and, without the lock, whether it is usable: bound, and not done.
Usable(g) == g = session /\ link = "bound" /\ mux = "open"

CheckEndpoint(k) ==
    /\ pc[k] = "checking"
    /\ \/ Usable(held[k]) /\ pc' = [pc EXCEPT ![k] = "ready"] /\ UNCHANGED held
       \/ /\ ~ Usable(held[k])
          /\ pc' = [pc EXCEPT ![k] = "waiting"] /\ held' = [held EXCEPT ![k] = NoSession]
    /\ UNCHANGED <<runVars, muxVars, endVars, broken, slots>>

\* Fault: the deadline is looked at only without an endpoint.
WaitDeadlineWithoutEndpoint(k) ==
    /\ pc[k] = "waiting" /\ endpoint = NoSession
    /\ Leave(k)
    /\ UNCHANGED <<runVars, muxVars, endVars>>

\* resumeTimeout has passed when waitReady is about to sleep.
WaitDeadline(k) ==
    /\ pc[k] = "waiting"
    /\ Leave(k)
    /\ UNCHANGED <<runVars, muxVars, endVars>>

\* The mux session that k has in hand is done.
MuxOver(k) == held[k] # session \/ mux # "open"

\* Fault: OpenService does not look at closed.
OpenUnchecked(k) ==
    /\ pc[k] = "ready" /\ Cardinality(streams) + lingering < Limit
    /\ streams' = IF held[k] = session THEN streams \cup {k} ELSE streams
    /\ pc' = [pc EXCEPT ![k] = "sending"]
    /\ UNCHANGED <<runVars, mux, lingering, collected, endVars, held, broken, slots>>

\* OpenService enters the stream into the map, under the lock that shutdown takes.
Open(k) ==
    /\ pc[k] = "ready" /\ ~ MuxOver(k) /\ Cardinality(streams) + lingering < Limit
    /\ streams' = streams \cup {k}
    /\ pc' = [pc EXCEPT ![k] = "sending"]
    /\ UNCHANGED <<runVars, mux, lingering, collected, endVars, held, broken, slots>>

\* The session is done, or its map is full (streams that still drain count).
OpenRefused(k) ==
    /\ pc[k] = "ready" /\ (MuxOver(k) \/ Cardinality(streams) + lingering >= Limit)
    /\ Leave(k)
    /\ UNCHANGED <<runVars, muxVars, endVars>>

\* removeStream, for a stream that may be gone from the map already. The reset
\* that shutdown may still send it finds it closed.
Remove(k) ==
    /\ streams' = streams \ {k} /\ collected' = collected \ {k}
    /\ UNCHANGED <<mux, lingering>>

\* sendControl queues OPEN. With room in the queue and done closed, either case
\* of its select may be taken.
SendOpen(k) ==
    /\ pc[k] = "sending"
    /\ pc' = [pc EXCEPT ![k] = "opening"]
    /\ UNCHANGED <<runVars, muxVars, endVars, held, broken, slots>>

SendOpenFails(k) ==
    /\ pc[k] = "sending" /\ MuxOver(k)
    /\ Leave(k) /\ Remove(k)
    /\ UNCHANGED <<runVars, endVars>>

\* waitOpened: OPEN_OK has arrived, whatever has happened to the stream since.
Opened(k) ==
    /\ pc[k] = "opening"
    /\ pc' = [pc EXCEPT ![k] = "proxy"]
    /\ UNCHANGED <<runVars, muxVars, endVars, held, broken, slots>>

\* OPEN_ERROR, a reset, or streamOpenTimeout; Reset removes the stream.
OpenFails(k) ==
    /\ pc[k] = "opening"
    /\ Leave(k) /\ Remove(k)
    /\ UNCHANGED <<runVars, endVars>>

\* ProxyWithTraffic returns, with TCP or the stream ended in an error ...
ProxyFails(k) ==
    /\ pc[k] = "proxy"
    /\ Leave(k) /\ Remove(k)
    /\ UNCHANGED <<runVars, endVars>>

\* ... or with both directions at their end: the stream stays until it has drained.
ProxyEnds(k) ==
    /\ pc[k] = "proxy" /\ k \in streams
    /\ Leave(k)
    /\ streams' = streams \ {k} /\ lingering' = lingering + 1
    /\ UNCHANGED <<runVars, mux, collected, endVars>>

Drained ==
    /\ lingering > 0
    /\ lingering' = lingering - 1
    /\ UNCHANGED <<runVars, mux, streams, collected, endVars, connVars>>

\* handleFrame: the peer's RESET or OPEN_ERROR ends the stream under the connection.
StreamReset(k) ==
    /\ mux = "open" /\ k \in streams
    /\ streams' = streams \ {k} /\ broken' = broken \cup {k}
    /\ UNCHANGED <<runVars, mux, lingering, collected, endVars, pc, held, slots>>

-----------------------------------------------------------------------------
RunClient == LinkBound \/ LinkLost \/ LinkClosed \/ MuxEnds \/ MuxDown \/ NextSession \/ Drained

SetEndpoint(g) == WatchReset(g) \/ WatchClear(g)

handle(k) ==
    \/ Accept(k) \/ TakeEndpoint(k) \/ CheckEndpoint(k) \/ WaitDeadline(k)
    \/ Open(k) \/ OpenRefused(k) \/ SendOpen(k) \/ SendOpenFails(k) \/ Opened(k) \/ OpenFails(k)
    \/ ProxyFails(k) \/ ProxyEnds(k)

Next ==
    \/ RunClient
    \/ \E g \in Sessions : SetEndpoint(g)
    \/ \E k \in Conns : handle(k) \/ StreamReset(k)

Spec == Init /\ [][Next]_vars

\* Goroutines run and deadlines pass; waitReady's sleep ends by its deadline
\* some time, although others may wake it. A mux session notices that its link
\* is closed. Nothing is assumed of the link, the peer or TCP.
Fairness ==
    /\ WF_vars(MuxEnds /\ link = "closed") /\ WF_vars(MuxDown) /\ WF_vars(NextSession)
    /\ \A g \in Sessions : WF_vars(WatchReset(g)) /\ WF_vars(WatchClear(g))
    /\ \A k \in Conns :
          /\ WF_vars(CheckEndpoint(k)) /\ SF_vars(WaitDeadline(k))
          /\ WF_vars(Open(k) \/ OpenRefused(k)) /\ WF_vars(SendOpen(k) \/ SendOpenFails(k))
          /\ WF_vars(OpenFails(k)) /\ WF_vars(ProxyFails(k) /\ k \in broken)

FairSpec == Spec /\ Fairness

-----------------------------------------------------------------------------
Busy == {k \in Conns : pc[k] # "none"}

\* Types, and the slots: each is taken by one connection that handle still has,
\* whichever way it will return.
TypeOK ==
    /\ session \in Sessions /\ endpoint \in Sessions \cup {NoSession}
    /\ link \in {"unbound", "bound", "closed"} /\ mux \in {"open", "closing", "down"}
    /\ streams \subseteq Conns /\ collected \subseteq Conns /\ broken \subseteq Conns
    /\ lingering \in 0 .. Limit
    /\ watch \in [Sessions -> {"wait", "clear", "none"}]
    /\ pc \in [Conns -> {"none", "waiting", "checking", "ready", "sending", "opening", "proxy"}]
    /\ held \in [Conns -> Sessions \cup {NoSession}]
    /\ slots = Cardinality(Busy) /\ slots <= Limit

\* While its mux session runs, the current session is the bridge's endpoint:
\* the goroutine of an earlier endpoint, however late, never takes away its
\* successor (SetEndpoint's comparison), so a waiting connection finds it.
EndpointCurrent == mux = "open" => endpoint = session /\ watch[session] = "wait"

\* A connection with a stream is in the map of the running mux session, or
\* shutdown is about to reset its stream, or it has been reset: none is left to
\* a session that no longer reads (OpenService and shutdown under one lock).
NoOrphan ==
    \A k \in Conns : pc[k] \in {"sending", "opening", "proxy"} =>
        \/ k \in streams /\ held[k] = session /\ mux = "open"
        \/ k \in collected /\ held[k] = session /\ mux = "closing"
        \/ k \in broken

\* A connection does not wait for ever, neither for an endpoint that never
\* becomes usable nor for a stream that is never answered.
Settles ==
    \A k \in Conns :
        pc[k] \in {"waiting", "checking", "ready", "sending", "opening"} ~> pc[k] \in {"none", "proxy"}

\* When the mux session has ended, for whatever reason, RunClient gets to the
\* next one: it cannot go on waiting on a link session that is still bound.
Renewed == mux # "open" ~> mux = "open"
=============================================================================
