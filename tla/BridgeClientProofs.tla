------------------------- MODULE BridgeClientProofs -------------------------
(***************************************************************************)
(* Proofs about BridgeClient for any number of connections, sessions and   *)
(* slots: a slot is never lost or given twice, a late goroutine never      *)
(* takes the current endpoint away, and no connection is left behind on a  *)
(* mux session that has ended.                                             *)
(*                                                                         *)
(* EndpointCurrent and NoOrphan are inductive on top of the types. That a  *)
(* draining stream always finds room to be counted needs the bound on the  *)
(* whole map, Room.                                                        *)
(***************************************************************************)
EXTENDS BridgeClient, FiniteSetTheorems, TLAPS

\* The mux session's map holds at most Limit streams.
Room == Cardinality(streams) + lingering <= Limit

Phases == {"none", "waiting", "checking", "ready", "sending", "opening", "proxy"}

\* The part of the types that belongs to the connections.
ConnsOK ==
    /\ pc \in [Conns -> Phases]
    /\ held \in [Conns -> Sessions \cup {NoSession}]
    /\ broken \subseteq Conns
    /\ slots = Cardinality(Busy) /\ slots <= Limit

\* The part that belongs to the current session and the endpoint.
SessionOK ==
    /\ session \in Sessions /\ endpoint \in Sessions \cup {NoSession}
    /\ link \in {"unbound", "bound", "closed"} /\ mux \in {"open", "closing", "down"}
    /\ watch \in [Sessions -> {"wait", "clear", "none"}]

\* The part that belongs to the mux session's map.
MapOK ==
    /\ streams \subseteq Conns /\ collected \subseteq Conns
    /\ lingering \in Nat
    /\ Room

Inv == ConnsOK /\ SessionOK /\ MapOK /\ EndpointCurrent /\ NoOrphan

LEMMA LimitType == Limit \in Nat /\ 0 < Limit
  BY BridgeAssumption

\* Every set of connections has a size.
LEMMA ConnSets ==
  ASSUME NEW S \in SUBSET Conns
  PROVE  IsFiniteSet(S) /\ Cardinality(S) \in Nat
  BY BridgeAssumption, FS_Subset, FS_CardinalityType

LEMMA InvTypes == Inv => TypeOK
<1> SUFFICES ASSUME Inv PROVE TypeOK
  OBVIOUS
<1>1. Cardinality(streams) \in Nat
  BY ConnSets DEF Inv, MapOK
<1>2. lingering \in 0 .. Limit
  BY <1>1, LimitType DEF Inv, MapOK, Room
<1> QED
  BY <1>2 DEF Inv, ConnsOK, SessionOK, MapOK, TypeOK, Phases

\* A connection that moves on inside handle keeps its slot.
LEMMA MoveKeepsSlot ==
  ASSUME ConnsOK, NEW k \in Conns, pc[k] # "none",
         NEW q \in Phases \ {"none"}, pc' = [pc EXCEPT ![k] = q], UNCHANGED slots
  PROVE  pc' \in [Conns -> Phases] /\ slots' = Cardinality(Busy') /\ slots' <= Limit
<1>1. Busy' = Busy
  BY DEF Busy, ConnsOK
<1> QED
  BY <1>1 DEF ConnsOK

\* A connection that leaves returns exactly its slot.
LEMMA LeaveReturnsSlot ==
  ASSUME ConnsOK, NEW k \in Conns, pc[k] # "none", Leave(k)
  PROVE  ConnsOK'
<1>1. Busy \in SUBSET Conns /\ k \in Busy
  BY DEF Busy
<1>2. Busy' = Busy \ {k}
  BY DEF Busy, ConnsOK, Leave
<1>3. IsFiniteSet(Busy) /\ Cardinality(Busy) \in Nat
  BY <1>1, ConnSets
<1>4. Cardinality(Busy') = Cardinality(Busy) - 1
  BY <1>1, <1>2, <1>3, FS_RemoveElement
<1>5. pc' \in [Conns -> Phases] /\ held' \in [Conns -> Sessions \cup {NoSession}] /\ broken' \subseteq Conns
  BY DEF ConnsOK, Leave, Phases
<1>6. slots' = Cardinality(Busy') /\ slots' <= Limit
  BY <1>3, <1>4, LimitType DEF ConnsOK, Leave
<1> QED
  BY <1>5, <1>6 DEF ConnsOK

\* Removing a stream makes room.
LEMMA RemoveMakesRoom ==
  ASSUME MapOK, NEW k \in Conns, Remove(k)
  PROVE  MapOK'
<1>1. IsFiniteSet(streams) /\ Cardinality(streams) \in Nat
  BY ConnSets DEF MapOK
<1>2. Cardinality(streams \ {k}) = IF k \in streams THEN Cardinality(streams) - 1 ELSE Cardinality(streams)
  BY <1>1, FS_RemoveElement
<1> QED
  BY <1>1, <1>2, LimitType DEF MapOK, Room, Remove

\* A connection that leaves and whose stream is removed orphans nobody else.
LEMMA LeaveOrphansNobody ==
  ASSUME Inv, NEW k \in Conns, pc[k] # "none", Leave(k), Remove(k), UNCHANGED <<runVars, endVars>>
  PROVE  Inv'
<1>1. ConnsOK'
  BY LeaveReturnsSlot DEF Inv
<1>2. MapOK'
  BY RemoveMakesRoom DEF Inv
<1>3. SessionOK' /\ EndpointCurrent'
  BY DEF Inv, SessionOK, EndpointCurrent, Remove, runVars, endVars
<1>4. NoOrphan'
  BY DEF Inv, ConnsOK, NoOrphan, Leave, Remove, runVars, endVars
<1> QED
  BY <1>1, <1>2, <1>3, <1>4 DEF Inv

\* A connection that leaves without a stream.
LEMMA LeaveWithoutStream ==
  ASSUME Inv, NEW k \in Conns, pc[k] \in {"waiting", "ready"}, Leave(k),
         UNCHANGED <<runVars, muxVars, endVars>>
  PROVE  Inv'
<1>1. ConnsOK'
  BY LeaveReturnsSlot DEF Inv
<1>2. MapOK' /\ SessionOK' /\ EndpointCurrent'
  BY DEF Inv, MapOK, Room, SessionOK, EndpointCurrent, runVars, muxVars, endVars
<1>3. NoOrphan'
  BY DEF Inv, ConnsOK, NoOrphan, Leave, runVars, muxVars, endVars
<1> QED
  BY <1>1, <1>2, <1>3 DEF Inv

LEMMA InitInv == Init => Inv
<1> SUFFICES ASSUME Init PROVE Inv
  OBVIOUS
<1>1. Busy = {}
  BY DEF Init, Busy
<1>2. ConnsOK
  BY <1>1, FS_EmptySet, LimitType DEF Init, ConnsOK, Phases
<1>3. MapOK
  BY FS_EmptySet, LimitType DEF Init, MapOK, Room
<1>4. SessionOK /\ EndpointCurrent /\ NoOrphan
  BY DEF Init, SessionOK, EndpointCurrent, NoOrphan
<1> QED
  BY <1>2, <1>3, <1>4 DEF Inv

\* Steps of RunClient, the link session and the mux session.
LEMMA RunClientInv == Inv /\ RunClient => Inv'
<1> SUFFICES ASSUME Inv, RunClient PROVE Inv'
  OBVIOUS
<1>1. CASE LinkBound \/ LinkLost \/ LinkClosed
  <2>1. UNCHANGED <<session, muxVars, endVars, connVars>> /\ link' \in {"unbound", "bound", "closed"}
    BY <1>1 DEF LinkBound, LinkLost, LinkClosed
  <2> QED
    BY <2>1 DEF Inv, ConnsOK, Busy, SessionOK, MapOK, Room, EndpointCurrent, NoOrphan,
                muxVars, endVars, connVars
<1>2. CASE MuxEnds
  <2>1. MapOK'
    BY <1>2, FS_EmptySet, LimitType DEF Inv, MapOK, Room, MuxEnds
  <2>2. ConnsOK' /\ SessionOK' /\ EndpointCurrent'
    BY <1>2 DEF Inv, ConnsOK, Busy, SessionOK, EndpointCurrent, MuxEnds, runVars, endVars, connVars
  <2>3. NoOrphan'
    BY <1>2 DEF Inv, NoOrphan, MuxEnds, runVars, endVars, connVars
  <2> QED
    BY <2>1, <2>2, <2>3 DEF Inv
<1>3. CASE MuxDown
  <2>1. MapOK' /\ SessionOK' /\ EndpointCurrent'
    BY <1>3 DEF Inv, MapOK, Room, SessionOK, EndpointCurrent, MuxDown, CloseLink, endVars
  <2>2. ConnsOK'
    BY <1>3 DEF Inv, ConnsOK, Busy, MapOK, MuxDown
  <2>3. NoOrphan'
    BY <1>3 DEF Inv, NoOrphan, MuxDown
  <2> QED
    BY <2>1, <2>2, <2>3 DEF Inv
<1>4. CASE NextSession
  <2>1. PICK g \in Sessions : /\ session' = g /\ endpoint' = g
                              /\ watch' = [watch EXCEPT ![g] = "wait"]
    BY <1>4 DEF NextSession, Fresh
  <2>2. /\ mux = "down" /\ link' = "unbound" /\ mux' = "open"
        /\ UNCHANGED <<streams, lingering, collected, connVars>>
    BY <1>4 DEF NextSession
  <2>3. MapOK' /\ SessionOK' /\ EndpointCurrent'
    BY <2>1, <2>2 DEF Inv, MapOK, Room, SessionOK, EndpointCurrent
  <2>4. ConnsOK'
    BY <2>2 DEF Inv, ConnsOK, Busy, connVars
  <2>5. NoOrphan'
    BY <2>2 DEF Inv, NoOrphan, connVars
  <2> QED
    BY <2>3, <2>4, <2>5 DEF Inv
<1>5. CASE Drained
  <2>1. Cardinality(streams) \in Nat
    BY ConnSets DEF Inv, MapOK
  <2>2. MapOK'
    BY <1>5, <2>1, LimitType DEF Inv, MapOK, Room, Drained
  <2> QED
    BY <1>5, <2>2 DEF Inv, ConnsOK, Busy, SessionOK, EndpointCurrent, NoOrphan, Drained,
                      runVars, endVars, connVars
<1> QED
  BY <1>1, <1>2, <1>3, <1>4, <1>5 DEF RunClient

\* Steps of SetEndpoint's goroutines.
LEMMA SetEndpointInv == ASSUME Inv, NEW g \in Sessions, SetEndpoint(g) PROVE Inv'
<1>1. UNCHANGED <<muxVars, connVars>> /\ UNCHANGED session
  BY DEF SetEndpoint, WatchReset, WatchClear, runVars
<1>2. ConnsOK' /\ MapOK' /\ NoOrphan'
  BY <1>1 DEF Inv, ConnsOK, Busy, MapOK, Room, NoOrphan, muxVars, connVars
<1>3. CASE WatchReset(g)
  <2>1. SessionOK'
    BY <1>1, <1>3 DEF Inv, SessionOK, WatchReset, CloseLink, muxVars
  <2>2. EndpointCurrent'
    BY <1>1, <1>3 DEF Inv, SessionOK, EndpointCurrent, WatchReset, muxVars
  <2> QED
    BY <1>2, <2>1, <2>2 DEF Inv
<1>4. CASE WatchClear(g)
  <2>1. SessionOK'
    BY <1>1, <1>4 DEF Inv, SessionOK, WatchClear, runVars, muxVars
  <2>2. EndpointCurrent'
    BY <1>1, <1>4 DEF Inv, SessionOK, EndpointCurrent, WatchClear, muxVars
  <2> QED
    BY <1>2, <2>1, <2>2 DEF Inv
<1> QED
  BY <1>3, <1>4 DEF SetEndpoint

\* Steps of a connection's handle.
LEMMA HandleInv == ASSUME Inv, NEW k \in Conns, handle(k) PROVE Inv'
<1> USE DEF Phases
<1>1. CASE Accept(k)
  <2>1. Busy' = Busy \cup {k} /\ k \notin Busy /\ Busy \in SUBSET Conns
    BY <1>1 DEF Inv, ConnsOK, Busy, Accept
  <2>2. Cardinality(Busy') = Cardinality(Busy) + 1 /\ Cardinality(Busy) \in Nat
    BY <2>1, ConnSets, FS_AddElement
  <2>3. ConnsOK'
    BY <1>1, <2>2, LimitType DEF Inv, ConnsOK, Accept
  <2>4. NoOrphan'
    BY <1>1 DEF Inv, ConnsOK, NoOrphan, Accept, runVars, muxVars
  <2> QED
    BY <1>1, <2>3, <2>4 DEF Inv, SessionOK, MapOK, Room, EndpointCurrent, Accept,
                            runVars, muxVars, endVars
<1>2. CASE TakeEndpoint(k)
  <2>1. pc' \in [Conns -> Phases] /\ slots' = Cardinality(Busy') /\ slots' <= Limit
    BY <1>2, MoveKeepsSlot DEF Inv, TakeEndpoint
  <2>2. ConnsOK'
    BY <1>2, <2>1 DEF Inv, ConnsOK, SessionOK, TakeEndpoint
  <2>3. NoOrphan'
    BY <1>2 DEF Inv, ConnsOK, NoOrphan, TakeEndpoint, runVars, muxVars
  <2> QED
    BY <1>2, <2>2, <2>3 DEF Inv, SessionOK, MapOK, Room, EndpointCurrent, TakeEndpoint,
                            runVars, muxVars, endVars
<1>3. CASE CheckEndpoint(k)
  <2>1. PICK q \in {"ready", "waiting"} : pc' = [pc EXCEPT ![k] = q]
    BY <1>3 DEF CheckEndpoint
  <2>2. pc' \in [Conns -> Phases] /\ slots' = Cardinality(Busy') /\ slots' <= Limit
    BY <1>3, <2>1, MoveKeepsSlot DEF Inv, CheckEndpoint
  <2>3. held' = held \/ held' = [held EXCEPT ![k] = NoSession]
    BY <1>3 DEF CheckEndpoint
  <2>4. ConnsOK'
    BY <1>3, <2>2, <2>3 DEF Inv, ConnsOK, CheckEndpoint
  <2>5. NoOrphan'
    BY <1>3, <2>1, <2>3 DEF Inv, ConnsOK, NoOrphan, CheckEndpoint, runVars, muxVars
  <2> QED
    BY <1>3, <2>4, <2>5 DEF Inv, SessionOK, MapOK, Room, EndpointCurrent, CheckEndpoint,
                            runVars, muxVars, endVars
<1>4. CASE WaitDeadline(k) \/ OpenRefused(k)
  BY <1>4, LeaveWithoutStream DEF WaitDeadline, OpenRefused
<1>5. CASE Open(k)
  <2>1. pc' \in [Conns -> Phases] /\ slots' = Cardinality(Busy') /\ slots' <= Limit
    BY <1>5, MoveKeepsSlot DEF Inv, Open
  <2>2. ConnsOK'
    BY <1>5, <2>1 DEF Inv, ConnsOK, Open
  <2>3. IsFiniteSet(streams) /\ Cardinality(streams) \in Nat
    BY ConnSets DEF Inv, MapOK
  <2>4. Cardinality(streams \cup {k}) = IF k \in streams THEN Cardinality(streams) ELSE Cardinality(streams) + 1
    BY <2>3, FS_AddElement
  <2>5. MapOK'
    BY <1>5, <2>3, <2>4, LimitType DEF Inv, MapOK, Room, Open
  <2>6. NoOrphan'
    BY <1>5 DEF Inv, ConnsOK, NoOrphan, Open, MuxOver, runVars
  <2> QED
    BY <1>5, <2>2, <2>5, <2>6 DEF Inv, SessionOK, EndpointCurrent, Open, runVars, endVars
<1>6. CASE SendOpen(k) \/ Opened(k)
  <2>1. /\ pc[k] \in {"sending", "opening"}
        /\ UNCHANGED <<runVars, muxVars, endVars, held, broken, slots>>
    BY <1>6 DEF SendOpen, Opened
  <2>2. PICK q \in {"opening", "proxy"} : pc' = [pc EXCEPT ![k] = q]
    BY <1>6 DEF SendOpen, Opened
  <2>3. pc' \in [Conns -> Phases] /\ slots' = Cardinality(Busy') /\ slots' <= Limit
    BY <2>1, <2>2, MoveKeepsSlot DEF Inv
  <2>4. ConnsOK'
    BY <2>1, <2>3 DEF Inv, ConnsOK
  <2>5. NoOrphan'
    BY <2>1, <2>2 DEF Inv, ConnsOK, NoOrphan, runVars, muxVars
  <2> QED
    BY <2>1, <2>4, <2>5 DEF Inv, SessionOK, MapOK, Room, EndpointCurrent, runVars, muxVars, endVars
<1>7. CASE SendOpenFails(k) \/ OpenFails(k) \/ ProxyFails(k)
  BY <1>7, LeaveOrphansNobody DEF SendOpenFails, OpenFails, ProxyFails
<1>8. CASE ProxyEnds(k)
  <2>1. ConnsOK'
    BY <1>8, LeaveReturnsSlot DEF Inv, ProxyEnds
  <2>2. IsFiniteSet(streams) /\ Cardinality(streams) \in Nat
    BY ConnSets DEF Inv, MapOK
  <2>3. Cardinality(streams \ {k}) = Cardinality(streams) - 1
    BY <1>8, <2>2, FS_RemoveElement DEF ProxyEnds
  <2>4. MapOK'
    BY <1>8, <2>2, <2>3, LimitType DEF Inv, MapOK, Room, ProxyEnds
  <2>5. NoOrphan'
    BY <1>8 DEF Inv, ConnsOK, NoOrphan, ProxyEnds, Leave, runVars
  <2> QED
    BY <1>8, <2>1, <2>4, <2>5 DEF Inv, SessionOK, EndpointCurrent, ProxyEnds, runVars, endVars
<1> QED
  BY <1>1, <1>2, <1>3, <1>4, <1>5, <1>6, <1>7, <1>8 DEF handle

\* A stream reset by the peer.
LEMMA StreamResetInv == ASSUME Inv, NEW k \in Conns, StreamReset(k) PROVE Inv'
<1>1. IsFiniteSet(streams) /\ Cardinality(streams) \in Nat
  BY ConnSets DEF Inv, MapOK
<1>2. Cardinality(streams \ {k}) = Cardinality(streams) - 1
  BY <1>1, FS_RemoveElement DEF StreamReset
<1>3. MapOK'
  BY <1>1, <1>2, LimitType DEF Inv, MapOK, Room, StreamReset
<1>4. ConnsOK' /\ SessionOK' /\ EndpointCurrent'
  BY DEF Inv, ConnsOK, Busy, SessionOK, EndpointCurrent, StreamReset, runVars, endVars
<1>5. NoOrphan'
  BY DEF Inv, NoOrphan, StreamReset, runVars
<1> QED
  BY <1>3, <1>4, <1>5 DEF Inv

LEMMA StutterInv == Inv /\ UNCHANGED vars => Inv'
  BY DEF Inv, ConnsOK, Busy, SessionOK, MapOK, Room, EndpointCurrent, NoOrphan,
         vars, runVars, muxVars, endVars, connVars

LEMMA Invariance == Spec => []Inv
<1>1. Inv /\ [Next]_vars => Inv'
  BY RunClientInv, SetEndpointInv, HandleInv, StreamResetInv, StutterInv DEF Next
<1> QED
  BY InitInv, <1>1, PTL DEF Spec

\* Types, and that every slot of the connection limit is held by exactly one
\* connection that handle still has: no way out of handle loses one.
THEOREM TypeCorrect == Spec => []TypeOK
  BY Invariance, InvTypes, PTL

\* The endpoint of a running session is never taken away by the goroutine that
\* SetEndpoint started for an earlier one.
THEOREM EndpointStaysCurrent == Spec => []EndpointCurrent
<1>1. Inv => EndpointCurrent
  BY DEF Inv
<1> QED
  BY Invariance, <1>1, PTL

\* No connection keeps a stream of a mux session that ended without being told,
\* however OpenService and shutdown interleave.
THEOREM NobodyIsOrphaned == Spec => []NoOrphan
<1>1. Inv => NoOrphan
  BY DEF Inv
<1> QED
  BY Invariance, <1>1, PTL
=============================================================================
