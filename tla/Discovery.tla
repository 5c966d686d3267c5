------------------------------ MODULE Discovery ------------------------------
(***************************************************************************)
(* How the client finds its server and gets a packet connection to it: the *)
(* device choice of RunClient (src/internal/app/client.go), Find, Connect  *)
(* and the connection table of the Adapter (src/internal/ble/ble.go), and  *)
(* the life of a clientPacketConn (src/internal/ble/client_conn.go).       *)
(*                                                                         *)
(* The platform keeps one radio connection per address, whatever number of *)
(* native devices refer to it: connecting to a connected address returns   *)
(* at once, and any Disconnect ends it for all of them. It tells of the    *)
(* end by an event that carries only the address and may come late; or it  *)
(* tells of Disconnect calls only, as on Linux, from inside the call.      *)
(*                                                                         *)
(* A step is what a goroutine does up to its next wait. A failure with no  *)
(* cause in the model (a radio or platform error, a time-out, a server     *)
(* that moves) is a mishap, and there is a bound on their number.          *)
(***************************************************************************)
EXTENDS Naturals

CONSTANTS
    Addrs, NoAddr,      \* platform addresses
    Ids, NoId,          \* stable server identities
    Home,               \* the server at each address when the client starts
    Wanted,             \* the server the user means
    Movers,             \* servers that may come back at another address
    Conns, NoConn,      \* clientPacketConn values (bound: that many at a time)
    MaxMishaps,         \* bound on mishaps
    Handler             \* the platform calls connectionChanged "inside" Disconnect, or "later"

ASSUME DiscoveryAssumption ==
    /\ NoAddr \notin Addrs /\ NoId \notin Ids /\ NoConn \notin Conns
    /\ Home \in [Addrs -> Ids \cup {NoId}] /\ Addrs \cap Ids = {} /\ Wanted \in Ids /\ Movers \subseteq Ids
    /\ MaxMishaps \in Nat /\ Handler \in {"inside", "later"}

VARIABLES
    who,            \* the server at each address
    advertisesBusy, \* does a server advertise while it is connected? (never changes)
    up,             \* addresses with a radio connection of this client
    events,         \* disconnect events the platform has not delivered yet
    abandoned,      \* history: connections that a packet connection left up when it closed
    pc,             \* where RunClient is, inside Find and Connect
    dev,            \* the Device at hand
    todo,           \* devices of the scan that Find has not probed yet
    deviceID,       \* the address or identity that RunClient looks for
    known,          \* selectedDevice or lastDevice, to be tried once before a scan
    fresh,          \* the packet connection that Connect is making or BindClient tries
    cur,            \* the packet connection the link session is bound to
    late,           \* native Connect calls that nobody waits for any more
    lateUp,         \* those that succeeded and are not disconnected yet
    table,          \* Adapter.connections
    addr,           \* of each packet connection: its address
    life,           \* of each: "open", "leaving" (in Close), "dropping" (in close(false)), "closed"
    cancelled,      \* the program's context is done
    mishaps         \* how many more there may be

platform == <<who, advertisesBusy, up, events, abandoned>>
loop     == <<pc, dev, todo, deviceID, known>>
object   == <<table, addr, life>>
world    == <<cancelled, mishaps>>
vars     == <<platform, loop, fresh, cur, late, lateUp, object, world>>

\* native.Disconnect calls connectionChanged and then ends the connection, and
\* nothing is heard of connections that end otherwise, as on Linux.
CallsBack == Handler = "inside"

\* The picker ends a probe of a device's services when the user chooses, and does
\* not wait for it: a native Connect may be left, or a packet connection in Close.
\* (Such a start counts as one of the mishaps.)
ProbeLeft(a) ==
    \/ /\ late = {a} /\ up = {} /\ events = {}
       /\ table = [b \in Addrs |-> NoConn]
       /\ addr = [k \in Conns |-> NoAddr] /\ life = [k \in Conns |-> "closed"]
    \/ /\ late = {} /\ up = {a} /\ events = {}
       /\ \E k \in Conns :
            /\ table = [b \in Addrs |-> IF b = a THEN k ELSE NoConn]
            /\ addr = [j \in Conns |-> IF j = k THEN a ELSE NoAddr]
            /\ life = [j \in Conns |-> IF j = k THEN "leaving" ELSE "closed"]

NothingLeft ==
    /\ late = {} /\ up = {} /\ events = {}
    /\ table = [b \in Addrs |-> NoConn]
    /\ addr = [k \in Conns |-> NoAddr] /\ life = [k \in Conns |-> "closed"]

\* The user gives a name, or picks a device from a list, where it is shown with
\* the identity it was probed for, if any.
Init ==
    /\ who = Home /\ advertisesBusy \in BOOLEAN /\ abandoned = {}
    /\ pc = "choose" /\ dev = NoAddr /\ todo = {}
    /\ deviceID \in {Wanted} \cup {a \in Addrs : Home[a] = Wanted}
    /\ known \in {NoAddr} \cup {a \in Addrs : Home[a] = Wanted}
    /\ fresh = NoConn /\ cur = NoConn /\ lateUp = {}
    /\ \/ NothingLeft /\ mishaps = MaxMishaps
       \/ /\ known # NoAddr /\ \E a \in Addrs : Home[a] # NoId /\ ProbeLeft(a)
          /\ MaxMishaps > 0 /\ mishaps = MaxMishaps - 1
    /\ cancelled = FALSE

-----------------------------------------------------------------------------
(* The platform.                                                           *)

Mishap == mishaps > 0 /\ mishaps' = mishaps - 1 /\ UNCHANGED cancelled

\* A call fails: for a reason, because the program is ending, or by mishap.
Fails(reason) == IF reason \/ cancelled THEN UNCHANGED world ELSE Mishap

Reachable(a) == who[a] # NoId

Advertising == {a \in Addrs : who[a] # NoId /\ (advertisesBusy \/ a \notin up)}

\* native.Connect succeeds; whoever asked now answers for the connection.
Linked(a) ==
    /\ up' = up \cup {a} /\ abandoned' = abandoned \ {a}
    /\ UNCHANGED <<who, advertisesBusy, events>>

\* The radio connection ends, and the platform will say so, unless it calls back.
Ended(a) ==
    /\ up' = up \ {a} /\ abandoned' = abandoned \ {a}
    /\ events' = IF a \in up /\ ~ CallsBack THEN events \cup {a} ELSE events
    /\ UNCHANGED advertisesBusy

\* native.Disconnect does nothing to a connection that is already down. If it
\* calls back, it gets no further before close of the packet connection that the
\* table has for the address is over, which ends by removing it from the table.
Disconnect(a) ==
    /\ CallsBack => table[a] = NoConn
    /\ Ended(a) /\ UNCHANGED who

RadioLost(a) ==
    /\ Mishap /\ a \in up /\ Ended(a)
    /\ UNCHANGED <<who, loop, fresh, cur, late, lateUp, object>>

\* A server or its Bluetooth is restarted and comes back with another address.
Move(a, b) ==
    /\ Mishap /\ who[a] \in Movers /\ who[b] = NoId
    /\ who' = [who EXCEPT ![a] = NoId, ![b] = who[a]]
    /\ Ended(a)
    /\ UNCHANGED <<loop, fresh, cur, late, lateUp, object>>

Cancel ==
    /\ ~ cancelled /\ cancelled' = TRUE
    /\ UNCHANGED <<platform, loop, fresh, cur, late, lateUp, object, mishaps>>

-----------------------------------------------------------------------------
(* RunClient's choice of a device, and Find.                               *)

Goto(p, d, t) == pc' = p /\ dev' = d /\ todo' = t

\* Find or Connect failed: RunClient waits a second and starts over.
Retry == Goto("choose", NoAddr, {})

Exact == dev = deviceID

\* The device has a connection that Connect takes over, or none.
Found(connected) ==
    IF connected THEN Goto("discovering", dev, {}) ELSE Goto("dialing", dev, {})

\* Fault: the last known device is not forgotten when it is tried.
ChooseKeepsKnown ==
    /\ pc = "choose" /\ cur = NoConn /\ ~ cancelled
    /\ IF known # NoAddr THEN Goto("dialing", known, {}) ELSE Goto("scanning", NoAddr, {})
    /\ UNCHANGED <<platform, deviceID, known, fresh, cur, late, lateUp, object, world>>

Choose ==
    /\ pc = "choose" /\ cur = NoConn /\ ~ cancelled
    /\ IF known # NoAddr THEN Goto("dialing", known, {}) /\ known' = NoAddr
                         ELSE Goto("scanning", NoAddr, {}) /\ UNCHANGED known
    /\ UNCHANGED <<platform, deviceID, fresh, cur, late, lateUp, object, world>>

\* A device with the wanted platform ID is taken; otherwise every device in
\* turn is asked for its identity, if an identity is what is wanted.
ScanEnds ==
    /\ pc = "scanning"
    /\ \E heard \in SUBSET Advertising :
         /\ Fails(heard = Advertising)
         /\ CASE deviceID \in heard -> Goto("probing", deviceID, {})
              [] deviceID \notin heard /\ deviceID \in Ids -> Goto("next", NoAddr, heard)
              [] OTHER -> Retry
    /\ UNCHANGED <<platform, deviceID, known, fresh, cur, late, lateUp, object>>

ScanFails ==
    /\ pc = "scanning" /\ Fails(FALSE) /\ Retry
    /\ UNCHANGED <<platform, deviceID, known, fresh, cur, late, lateUp, object>>

NextDevice ==
    /\ pc = "next"
    /\ \/ todo = {} /\ Retry
       \/ \E a \in todo : Goto("probing", a, todo \ {a})
    /\ UNCHANGED <<platform, deviceID, known, fresh, cur, late, lateUp, object, world>>

\* identifyConnected: the native connection, then the identity read over it.
ProbeConnected ==
    /\ pc = "probing" /\ Reachable(dev)
    /\ Linked(dev) /\ Goto("reading", dev, todo)
    /\ UNCHANGED <<deviceID, known, fresh, cur, late, lateUp, object, world>>

ProbeFailed ==
    /\ pc = "probing" /\ Fails(~ Reachable(dev))
    /\ IF Exact THEN Found(FALSE) ELSE Goto("next", NoAddr, todo)
    /\ UNCHANGED <<platform, deviceID, known, fresh, cur, late, lateUp, object>>

\* connectNative gives up waiting; a goroutine of its own will clean up.
ProbeCancelled ==
    /\ pc = "probing" /\ cancelled
    /\ late' = late \cup {dev}
    /\ IF Exact THEN Found(FALSE) ELSE Retry
    /\ UNCHANGED <<platform, deviceID, known, fresh, cur, lateUp, object, world>>

\* Fault: the identity is not compared.
ReadIDOfAny ==
    /\ pc = "reading" /\ dev \in up /\ Found(TRUE) /\ deviceID' = who[dev]
    /\ UNCHANGED <<platform, known, fresh, cur, late, lateUp, object, world>>

ReadID ==
    /\ pc = "reading" /\ dev \in up
    /\ IF Exact \/ who[dev] = deviceID
       THEN /\ Found(TRUE) /\ deviceID' = who[dev]
            /\ UNCHANGED platform
       ELSE /\ Disconnect(dev) /\ Goto("next", NoAddr, todo)
            /\ UNCHANGED deviceID
    /\ UNCHANGED <<known, fresh, cur, late, lateUp, object, world>>

\* Fault: a device without a readable identity is skipped and left connected.
ReadIDFailsForgets ==
    /\ pc = "reading" /\ Fails(dev \notin up)
    /\ CASE Exact /\ ~ cancelled -> Found(TRUE)
         [] cancelled -> Retry
         [] OTHER -> Goto("next", NoAddr, todo)
    /\ UNCHANGED <<platform, deviceID, known, fresh, cur, late, lateUp, object>>

\* An old server has no identity to read: a device asked for by its platform
\* ID is used all the same, over the connection at hand.
ReadIDFails ==
    /\ pc = "reading" /\ Fails(dev \notin up)
    /\ IF Exact /\ ~ cancelled
       THEN Found(TRUE) /\ UNCHANGED platform
       ELSE Disconnect(dev) /\ IF cancelled THEN Retry ELSE Goto("next", NoAddr, todo)
    /\ UNCHANGED <<deviceID, known, fresh, cur, late, lateUp, object>>

\* identifyConnected sees the cancellation first and disconnects by itself.
ReadIDCancelled ==
    /\ pc = "reading" /\ cancelled
    /\ Disconnect(dev)
    /\ IF Exact THEN Found(FALSE) ELSE Retry
    /\ UNCHANGED <<deviceID, known, fresh, cur, late, lateUp, object, world>>

-----------------------------------------------------------------------------
(* Connect, and the link session's handshake over the new connection.      *)

Dialed ==
    /\ pc = "dialing" /\ Reachable(dev)
    /\ Linked(dev) /\ Found(TRUE)
    /\ UNCHANGED <<deviceID, known, fresh, cur, late, lateUp, object, world>>

DialFailed ==
    /\ pc = "dialing" /\ Fails(~ Reachable(dev)) /\ Retry
    /\ UNCHANGED <<platform, deviceID, known, fresh, cur, late, lateUp, object>>

DialTimedOut ==
    /\ pc = "dialing" /\ Fails(FALSE) /\ Retry
    /\ late' = late \cup {dev}
    /\ UNCHANGED <<platform, deviceID, known, fresh, cur, lateUp, object>>

\* The goroutine that connectNative left behind.
LateConnected(a) ==
    /\ a \in late /\ Reachable(a)
    /\ late' = late \ {a} /\ lateUp' = lateUp \cup {a} /\ Linked(a)
    /\ UNCHANGED <<loop, fresh, cur, object, world>>

LateFailed(a) ==
    /\ a \in late /\ Fails(~ Reachable(a)) /\ late' = late \ {a}
    /\ UNCHANGED <<platform, loop, fresh, cur, lateUp, object>>

LateDisconnect(a) ==
    /\ a \in lateUp /\ lateUp' = lateUp \ {a} /\ Disconnect(a)
    /\ UNCHANGED <<loop, fresh, cur, late, object, world>>

\* Objects that nobody refers to stand for those still to be made.
Spare == {k \in Conns : life[k] = "closed" /\ k # cur}

Discovered ==
    /\ pc = "discovering" /\ dev \in up
    /\ Spare # {}
    /\ LET k == CHOOSE k \in Spare : TRUE IN
         /\ fresh' = k /\ life' = [life EXCEPT ![k] = "open"]
         /\ addr' = [addr EXCEPT ![k] = dev] /\ table' = [table EXCEPT ![dev] = k]
    /\ Goto("starting", dev, {})
    /\ UNCHANGED <<platform, deviceID, known, cur, late, lateUp, world>>

DiscoveryFails ==
    /\ pc = "discovering" /\ Fails(dev \notin up)
    /\ Disconnect(dev) /\ Retry
    /\ UNCHANGED <<deviceID, known, fresh, cur, late, lateUp, object>>

\* close(disconnect) starts; a second call only waits for the first.
BeginClose(k, how) ==
    /\ life' = [life EXCEPT ![k] = IF life[k] = "open" THEN how ELSE life[k]]
    /\ abandoned' = IF life[k] = "open" /\ how = "dropping" /\ addr[k] \in up
                    THEN abandoned \cup {addr[k]} ELSE abandoned
    /\ UNCHANGED <<who, advertisesBusy, up, events, table, addr>>

\* start succeeds; RunClient adopts the identity that Connect read, if it could.
Started ==
    /\ pc = "starting" /\ dev \in up
    /\ Goto("binding", dev, {})
    /\ \/ deviceID' = who[dev] /\ UNCHANGED world
       \/ Fails(FALSE) /\ UNCHANGED deviceID
    /\ UNCHANGED <<platform, known, fresh, cur, late, lateUp, object>>

StartFails ==
    /\ pc = "starting" /\ Fails(dev \notin up)
    /\ BeginClose(fresh, "leaving") /\ Goto("closing", dev, {})
    /\ UNCHANGED <<deviceID, known, fresh, cur, late, lateUp>>

Bound ==
    /\ pc = "binding" /\ life[fresh] = "open" /\ dev \in up /\ ~ cancelled
    /\ cur' = fresh /\ fresh' = NoConn /\ known' = dev /\ Retry
    /\ UNCHANGED <<platform, deviceID, late, lateUp, object, world>>

BindFails ==
    /\ pc = "binding" /\ Fails(life[fresh] # "open" \/ dev \notin up)
    /\ BeginClose(fresh, "leaving") /\ Goto("closing", dev, {})
    /\ UNCHANGED <<deviceID, known, fresh, cur, late, lateUp>>

Closed ==
    /\ pc = "closing" /\ life[fresh] = "closed"
    /\ fresh' = NoConn /\ Retry
    /\ UNCHANGED <<platform, deviceID, known, cur, late, lateUp, object, world>>

-----------------------------------------------------------------------------
(* The end of a packet connection.                                         *)

\* failBinding or the end of the session: the link lets go of the connection
\* and RunClient may look for the next one while this one is still closing.
Unbind ==
    /\ cur # NoConn /\ Fails(life[cur] # "open")
    /\ BeginClose(cur, "leaving") /\ cur' = NoConn
    /\ UNCHANGED <<loop, fresh, late, lateUp>>

\* The platform has something to report of a: an event, or, if it calls back, a
\* Disconnect of a packet connection or of a late goroutine (the others run while
\* no packet connection is open, and find nothing to close).
Told(a) ==
    IF CallsBack THEN a \in lateUp \/ \E k \in Conns : life[k] = "leaving" /\ addr[k] = a
                 ELSE a \in events

\* connectionChanged: whatever connection has the address is closed.
connectionChanged(a) ==
    /\ Told(a)
    /\ LET k == table[a] IN
         IF k # NoConn /\ life[k] = "open"
         THEN /\ life' = [life EXCEPT ![k] = "dropping"]
              /\ abandoned' = IF a \in up THEN abandoned \cup {a} ELSE abandoned
         ELSE UNCHANGED <<life, abandoned>>
    /\ events' = events \ {a}
    /\ UNCHANGED <<who, advertisesBusy, up, loop, fresh, cur, late, lateUp, table, addr, world>>

\* monitor sees the loss within a second, once start has made it.
monitor(k) ==
    /\ life[k] = "open" /\ addr[k] \notin up /\ ~ (pc = "starting" /\ fresh = k)
    /\ BeginClose(k, "dropping")
    /\ UNCHANGED <<loop, fresh, cur, late, lateUp, world>>

\* A Send fails, both as a command and as a request; or monitor's question does.
SendFails(k) ==
    /\ Mishap /\ life[k] = "open" /\ ~ (pc = "starting" /\ fresh = k)
    /\ BeginClose(k, "dropping")
    /\ UNCHANGED <<loop, fresh, cur, late, lateUp>>

\* Fault: onClose removes whatever entry the address has.
onCloseAny(k) == table' = [table EXCEPT ![addr[k]] = NoConn]

\* onClose removes the entry of this connection, never that of a successor.
onClose(k) == table' = [a \in Addrs |-> IF table[a] = k THEN NoConn ELSE table[a]]

\* The rest of close, after EnableNotifications(nil), which can take seconds.
CloseEnds(k) ==
    /\ \/ life[k] = "leaving" /\ Disconnect(addr[k])
       \/ life[k] = "dropping" /\ UNCHANGED platform
    /\ onClose(k)
    /\ life' = [life EXCEPT ![k] = "closed"] /\ addr' = [addr EXCEPT ![k] = NoAddr]
    /\ UNCHANGED <<loop, fresh, cur, late, lateUp, world>>

-----------------------------------------------------------------------------
Find    == ScanEnds \/ ScanFails \/ NextDevice \/ ProbeConnected \/ ProbeFailed
           \/ ProbeCancelled \/ ReadID \/ ReadIDFails \/ ReadIDCancelled
Connect == Dialed \/ DialFailed \/ DialTimedOut \/ Discovered \/ DiscoveryFails
           \/ Started \/ StartFails
Bind    == Bound \/ BindFails \/ Closed

Next ==
    \/ Choose \/ Find \/ Connect \/ Bind \/ Unbind \/ Cancel
    \/ \E a \in Addrs : LateConnected(a) \/ LateFailed(a) \/ LateDisconnect(a)
                        \/ connectionChanged(a) \/ RadioLost(a)
    \/ \E a, b \in Addrs : Move(a, b)
    \/ \E k \in Conns : monitor(k) \/ SendFails(k) \/ CloseEnds(k)

Spec == Init /\ [][Next]_vars

\* Every goroutine runs on, native calls return, events are delivered.
Fairness ==
    /\ WF_vars(Choose \/ Find \/ Connect \/ Bind) /\ WF_vars(Unbind)
    /\ \A a \in Addrs : /\ WF_vars(LateConnected(a) \/ LateFailed(a))
                        /\ WF_vars(LateDisconnect(a)) /\ WF_vars(connectionChanged(a))
    /\ \A k \in Conns : WF_vars(monitor(k)) /\ WF_vars(CloseEnds(k))

FairSpec == Spec /\ Fairness

-----------------------------------------------------------------------------
(* Properties.                                                             *)

Live(k) == k # NoConn /\ life[k] = "open"

TypeOK ==
    /\ who \in [Addrs -> Ids \cup {NoId}] /\ advertisesBusy \in BOOLEAN
    /\ up \subseteq Addrs /\ events \subseteq Addrs /\ abandoned \subseteq up
    /\ pc \in {"choose", "scanning", "next", "probing", "reading", "dialing",
               "discovering", "starting", "binding", "closing"}
    /\ dev \in Addrs \cup {NoAddr} /\ todo \subseteq Addrs
    /\ dev = NoAddr <=> pc \in {"choose", "scanning", "next"}
    /\ deviceID \in Addrs \cup Ids /\ known \in Addrs \cup {NoAddr}
    /\ fresh \in Conns \cup {NoConn} /\ cur \in Conns \cup {NoConn}
    /\ fresh # NoConn <=> pc \in {"starting", "binding", "closing"}
    /\ late \subseteq Addrs /\ lateUp \subseteq Addrs
    /\ table \in [Addrs -> Conns \cup {NoConn}]
    /\ addr \in [Conns -> Addrs \cup {NoAddr}]
    /\ life \in [Conns -> {"open", "leaving", "dropping", "closed"}]
    /\ \A k \in Conns : addr[k] = NoAddr <=> life[k] = "closed"
    /\ cancelled \in BOOLEAN /\ mishaps \in 0..MaxMishaps

\* Somebody is still going to use or end the radio connection at a.
HasOwner(a) ==
    \/ pc \in {"reading", "discovering"} /\ dev = a
    \/ \E k \in Conns : life[k] \in {"open", "leaving"} /\ addr[k] = a
    \/ a \in lateUp

\* No radio connection is forgotten on any path through Find, Connect and the
\* late goroutines of connectNative: each has a goroutine or a packet connection
\* that will end it, except one whose packet connection was dropped because of
\* a failure or an event; and an open packet connection is always in the hands
\* of RunClient or of the link session.
Owned ==
    /\ \A a \in up \ abandoned : HasOwner(a)
    /\ \A k \in Conns : life[k] = "open" => k \in {cur, fresh}

\* The connection in use is the one the table names for its address, so that a
\* disconnect event reaches it, whatever earlier connections to the address are
\* still closing (the comparison in onClose).
TableCurrent ==
    \A k \in {cur, fresh} : Live(k) => table[addr[k]] = k

\* The link never binds to a server the user did not ask for: probing other
\* servers, picking the last known address and adopting the identity that was
\* read lead to the same server, as long as no other server takes its address.
RightServer ==
    /\ deviceID \in Ids => deviceID = Wanted
    /\ Live(cur) /\ addr[cur] \in up => who[addr[cur]] = Wanted

Serving == Live(cur) /\ addr[cur] \in up

\* RunClient can still name its server.
Resolvable == deviceID \in Ids \/ who[deviceID] # NoId

\* A server that does not advertise while connected cannot be found over the
\* connection that this client itself left up.
LockedOut == ~ advertisesBusy /\ abandoned # {}

\* When there are no more mishaps, the client gets a connection to its server and keeps
\* it: late events, late disconnects of connections given up and closing
\* predecessors at the same address can cut it only finitely often.
Reconnects == <> [] (Serving \/ cancelled \/ ~ Resolvable \/ LockedOut)

\* Close returns, so that the client goes back to its discovery loop or exits:
\* again and again there is no Close under way. Close holds the connection's once
\* while it calls native.Disconnect; where that calls connectionChanged before it
\* returns, the callback waits for the same once.
CloseReturns == [] <> (\A k \in Conns : life[k] # "leaving")
=============================================================================
