--------------------------- MODULE DiscoveryProofs ---------------------------
(***************************************************************************)
(* Proofs about Discovery, for any number of addresses, servers, packet    *)
(* connections and mishaps, and for either kind of platform: the types, no *)
(* radio connection without an owner, the connection table, and that the   *)
(* link is bound to the right server.                                      *)
(***************************************************************************)
EXTENDS Discovery, TLAPS

-----------------------------------------------------------------------------
(* The types in four parts.                                                *)

PlatformTypes ==
    /\ who \in [Addrs -> Ids \cup {NoId}] /\ advertisesBusy \in BOOLEAN
    /\ up \subseteq Addrs /\ events \subseteq Addrs /\ abandoned \subseteq up
    /\ late \subseteq Addrs /\ lateUp \subseteq Addrs

LoopTypes ==
    /\ pc \in {"choose", "scanning", "next", "probing", "reading", "dialing",
               "discovering", "starting", "binding", "closing"}
    /\ dev \in Addrs \cup {NoAddr} /\ todo \subseteq Addrs
    /\ dev = NoAddr <=> pc \in {"choose", "scanning", "next"}
    /\ deviceID \in Addrs \cup Ids /\ known \in Addrs \cup {NoAddr}
    /\ fresh \in Conns \cup {NoConn} /\ cur \in Conns \cup {NoConn}
    /\ fresh # NoConn <=> pc \in {"starting", "binding", "closing"}

ObjectTypes ==
    /\ table \in [Addrs -> Conns \cup {NoConn}]
    /\ addr \in [Conns -> Addrs \cup {NoAddr}]
    /\ life \in [Conns -> {"open", "leaving", "dropping", "closed"}]
    /\ \A k \in Conns : addr[k] = NoAddr <=> life[k] = "closed"

WorldTypes == cancelled \in BOOLEAN /\ mishaps \in 0..MaxMishaps

LEMMA TypeParts == PlatformTypes /\ LoopTypes /\ ObjectTypes /\ WorldTypes => TypeOK
BY DEF TypeOK, PlatformTypes, LoopTypes, ObjectTypes, WorldTypes

-----------------------------------------------------------------------------
(* The inductive invariant.                                                *)

\* A radio connection leads to a server.
UpInv == \A a \in up : who[a] # NoId

\* Who has which packet connection, and what the table says of it.
ConnInv ==
    /\ cur # NoConn => pc = "choose"
    /\ \A k \in Conns : life[k] = "open" => k \in {cur, fresh}
    /\ \A a \in Addrs : table[a] # NoConn => addr[table[a]] = a
    /\ \A k \in Conns : life[k] = "open" => table[addr[k]] = k
    /\ fresh # NoConn /\ life[fresh] = "open" => addr[fresh] = dev

OwnerInv == \A a \in up \ abandoned : HasOwner(a)

TypeInv == PlatformTypes /\ LoopTypes /\ ObjectTypes /\ WorldTypes

DInv == TypeInv /\ UpInv /\ ConnInv /\ OwnerInv

\* An address where the wanted server is, or may come to be.
Ours(a) == Home[a] \in {Wanted, NoId}

\* Whatever RunClient has to go by is a name of the wanted server.
NameInv ==
    /\ \A a \in Addrs : IF Ours(a) THEN who[a] \in {Wanted, NoId} ELSE who[a] = Home[a]
    /\ deviceID \in Ids => deviceID = Wanted
    /\ deviceID \in Addrs => Ours(deviceID)
    /\ known # NoAddr => Ours(known)
    /\ pc \in {"dialing", "discovering", "starting", "binding"} => Ours(dev)
    /\ cur # NoConn /\ life[cur] = "open" => Ours(addr[cur])

LEMMA DInvInit == Init => DInv
<1> SUFFICES ASSUME Init PROVE DInv  OBVIOUS
<1>0. NothingLeft \/ \E a \in Addrs : Home[a] # NoId /\ ProbeLeft(a)
  BY DEF Init
<1>1. PlatformTypes
  BY <1>0, DiscoveryAssumption DEF Init, PlatformTypes, NothingLeft, ProbeLeft
<1>2. LoopTypes
  BY DiscoveryAssumption DEF Init, LoopTypes
<1>3. ObjectTypes
  <2>1. CASE NothingLeft
    BY <2>1 DEF NothingLeft, ObjectTypes
  <2>2. CASE \E a \in Addrs : ProbeLeft(a)
    BY <2>2, DiscoveryAssumption DEF ProbeLeft, ObjectTypes
  <2> QED BY <1>0, <2>1, <2>2
<1>4. WorldTypes
  <2>1. cancelled \in BOOLEAN
    BY DEF Init
  <2>2. mishaps \in 0..MaxMishaps
    BY DiscoveryAssumption DEF Init
  <2> QED BY <2>1, <2>2 DEF WorldTypes
<1>5. UpInv
  BY <1>0 DEF Init, UpInv, NothingLeft, ProbeLeft
<1>6. OwnerInv
  BY <1>0 DEF Init, OwnerInv, HasOwner, NothingLeft, ProbeLeft
<1>7. ConnInv
  <2>1. CASE NothingLeft
    BY <2>1 DEF Init, NothingLeft, ConnInv
  <2>2. CASE \E a \in Addrs : ProbeLeft(a)
    BY <2>2, DiscoveryAssumption DEF Init, ProbeLeft, ConnInv
  <2> QED BY <1>0, <2>1, <2>2
<1> QED BY <1>1, <1>2, <1>3, <1>4, <1>5, <1>6, <1>7 DEF DInv, TypeInv

-----------------------------------------------------------------------------
(* Each part is kept by every step.                                        *)

\* Fails and Mishap never take the count below zero.
LEMMA WorldStep ==
    ASSUME WorldTypes, MaxMishaps \in Nat, Next
    PROVE  WorldTypes'
<1> USE DEF platform, loop, object, world
<1>1. CASE Choose
  BY <1>1 DEF Choose, Goto, WorldTypes
<1>2. CASE ScanEnds
  BY <1>2 DEF ScanEnds, Goto, Retry, Fails, Advertising, Mishap, WorldTypes
<1>3. CASE ScanFails
  BY <1>3 DEF ScanFails, Retry, Fails, Goto, Mishap, WorldTypes
<1>4. CASE NextDevice
  BY <1>4 DEF NextDevice, Goto, Retry, WorldTypes
<1>5. CASE ProbeConnected
  BY <1>5 DEF ProbeConnected, Goto, Linked, Reachable, WorldTypes
<1>6. CASE ProbeFailed
  BY <1>6 DEF ProbeFailed, Goto, Exact, Found, Fails, Reachable, Mishap, WorldTypes
<1>7. CASE ProbeCancelled
  BY <1>7 DEF ProbeCancelled, Retry, Exact, Found, Goto, WorldTypes
<1>8. CASE ReadID
  BY <1>8 DEF ReadID, Goto, Exact, Found, Disconnect, Ended, CallsBack, WorldTypes
<1>9. CASE ReadIDFails
  BY <1>9 DEF ReadIDFails, Goto, Retry, Exact, Found, Disconnect, Fails, Ended, Mishap,
     CallsBack, WorldTypes
<1>10. CASE ReadIDCancelled
  BY <1>10 DEF ReadIDCancelled, Retry, Exact, Found, Disconnect, Goto, Ended, CallsBack,
     WorldTypes
<1>11. CASE Dialed
  BY <1>11 DEF Dialed, Found, Linked, Reachable, Goto, WorldTypes
<1>12. CASE DialFailed
  BY <1>12 DEF DialFailed, Retry, Fails, Reachable, Goto, Mishap, WorldTypes
<1>13. CASE DialTimedOut
  BY <1>13 DEF DialTimedOut, Retry, Fails, Goto, Mishap, WorldTypes
<1>14. CASE Discovered
  BY <1>14 DEF Discovered, Goto, Spare, WorldTypes
<1>15. CASE DiscoveryFails
  BY <1>15 DEF DiscoveryFails, Retry, Disconnect, Fails, Goto, Ended, Mishap, CallsBack,
     WorldTypes
<1>16. CASE Started
  BY <1>16 DEF Started, Goto, Fails, Mishap, WorldTypes
<1>17. CASE StartFails
  BY <1>17 DEF StartFails, Goto, Fails, BeginClose, Mishap, CallsBack, WorldTypes
<1>18. CASE Bound
  BY <1>18 DEF Bound, Retry, Goto, WorldTypes
<1>19. CASE BindFails
  BY <1>19 DEF BindFails, Goto, Fails, BeginClose, Mishap, CallsBack, WorldTypes
<1>20. CASE Closed
  BY <1>20 DEF Closed, Retry, Goto, WorldTypes
<1>21. CASE Unbind
  BY <1>21 DEF Unbind, Fails, BeginClose, Mishap, CallsBack, WorldTypes
<1>22. CASE Cancel
  BY <1>22 DEF Cancel, WorldTypes
<1>23. CASE \E a \in Addrs : LateConnected(a)
  BY <1>23 DEF LateConnected, Linked, Reachable, WorldTypes
<1>24. CASE \E a \in Addrs : LateFailed(a)
  BY <1>24 DEF LateFailed, Fails, Reachable, Mishap, WorldTypes
<1>25. CASE \E a \in Addrs : LateDisconnect(a)
  BY <1>25 DEF LateDisconnect, Disconnect, Ended, CallsBack, WorldTypes
<1>26. CASE \E a \in Addrs : connectionChanged(a)
  BY <1>26 DEF connectionChanged, CallsBack, WorldTypes
<1>27. CASE \E a \in Addrs : RadioLost(a)
  BY <1>27 DEF RadioLost, Ended, Mishap, CallsBack, WorldTypes
<1>28. CASE \E a, b \in Addrs : Move(a, b)
  BY <1>28 DEF Move, Ended, Mishap, CallsBack, WorldTypes
<1>29. CASE \E k \in Conns : monitor(k)
  BY <1>29 DEF monitor, BeginClose, CallsBack, WorldTypes
<1>30. CASE \E k \in Conns : SendFails(k)
  BY <1>30 DEF SendFails, Mishap, BeginClose, CallsBack, WorldTypes
<1>31. CASE \E k \in Conns : CloseEnds(k)
  BY <1>31 DEF CloseEnds, Disconnect, onClose, CallsBack, Ended, WorldTypes
<1> QED BY <1>1, <1>2, <1>3, <1>4, <1>5, <1>6, <1>7, <1>8, <1>9, <1>10, <1>11, <1>12, <1>13,
       <1>14, <1>15, <1>16, <1>17, <1>18, <1>19, <1>20, <1>21, <1>22, <1>23, <1>24, <1>25,
       <1>26, <1>27, <1>28, <1>29, <1>30, <1>31
       DEF Next, Find, Connect, Bind

\* The platform.
LEMMA PlatformStep ==
    ASSUME TypeInv, UpInv, Next
    PROVE  PlatformTypes' /\ UpInv'
<1> PlatformTypes /\ LoopTypes /\ ObjectTypes
  BY DEF TypeInv
<1> USE DEF platform, loop, object, world
<1>1. CASE Choose
  BY <1>1, DiscoveryAssumption DEF Choose, Goto, PlatformTypes, LoopTypes, ObjectTypes, UpInv
<1>2. CASE ScanEnds
  BY <1>2, DiscoveryAssumption DEF ScanEnds, Goto, Retry, Fails, Advertising, Mishap,
     PlatformTypes, LoopTypes, ObjectTypes, UpInv
<1>3. CASE ScanFails
  BY <1>3, DiscoveryAssumption DEF ScanFails, Retry, Fails, Goto, Mishap, PlatformTypes,
     LoopTypes, ObjectTypes, UpInv
<1>4. CASE NextDevice
  BY <1>4, DiscoveryAssumption DEF NextDevice, Goto, Retry, PlatformTypes, LoopTypes,
     ObjectTypes, UpInv
<1>5. CASE ProbeConnected
  BY <1>5, DiscoveryAssumption DEF ProbeConnected, Goto, Linked, Reachable, PlatformTypes,
     LoopTypes, ObjectTypes, UpInv
<1>6. CASE ProbeFailed
  BY <1>6, DiscoveryAssumption DEF ProbeFailed, Goto, Exact, Found, Fails, Reachable,
     Mishap, PlatformTypes, LoopTypes, ObjectTypes, UpInv
<1>7. CASE ProbeCancelled
  BY <1>7, DiscoveryAssumption DEF ProbeCancelled, Retry, Exact, Found, Goto, PlatformTypes,
     LoopTypes, ObjectTypes, UpInv
<1>8. CASE ReadID
  BY <1>8, DiscoveryAssumption DEF ReadID, Goto, Exact, Found, Disconnect, Ended, CallsBack,
     PlatformTypes, LoopTypes, ObjectTypes, UpInv
<1>9. CASE ReadIDFails
  BY <1>9, DiscoveryAssumption DEF ReadIDFails, Goto, Retry, Exact, Found, Disconnect,
     Fails, Ended, Mishap, CallsBack, PlatformTypes, LoopTypes, ObjectTypes, UpInv
<1>10. CASE ReadIDCancelled
  BY <1>10, DiscoveryAssumption DEF ReadIDCancelled, Retry, Exact, Found, Disconnect, Goto,
     Ended, CallsBack, PlatformTypes, LoopTypes, ObjectTypes, UpInv
<1>11. CASE Dialed
  BY <1>11, DiscoveryAssumption DEF Dialed, Found, Linked, Reachable, Goto, PlatformTypes,
     LoopTypes, ObjectTypes, UpInv
<1>12. CASE DialFailed
  BY <1>12, DiscoveryAssumption DEF DialFailed, Retry, Fails, Reachable, Goto, Mishap,
     PlatformTypes, LoopTypes, ObjectTypes, UpInv
<1>13. CASE DialTimedOut
  BY <1>13, DiscoveryAssumption DEF DialTimedOut, Retry, Fails, Goto, Mishap, PlatformTypes,
     LoopTypes, ObjectTypes, UpInv
<1>14. CASE Discovered
  BY <1>14, DiscoveryAssumption DEF Discovered, Goto, Spare, PlatformTypes, LoopTypes,
     ObjectTypes, UpInv
<1>15. CASE DiscoveryFails
  BY <1>15, DiscoveryAssumption DEF DiscoveryFails, Retry, Disconnect, Fails, Goto, Ended,
     Mishap, CallsBack, PlatformTypes, LoopTypes, ObjectTypes, UpInv
<1>16. CASE Started
  BY <1>16, DiscoveryAssumption DEF Started, Goto, Fails, Mishap, PlatformTypes, LoopTypes,
     ObjectTypes, UpInv
<1>17. CASE StartFails
  BY <1>17, DiscoveryAssumption DEF StartFails, Goto, Fails, BeginClose, Mishap, CallsBack,
     PlatformTypes, LoopTypes, ObjectTypes, UpInv
<1>18. CASE Bound
  BY <1>18, DiscoveryAssumption DEF Bound, Retry, Goto, PlatformTypes, LoopTypes,
     ObjectTypes, UpInv
<1>19. CASE BindFails
  BY <1>19, DiscoveryAssumption DEF BindFails, Goto, Fails, BeginClose, Mishap, CallsBack,
     PlatformTypes, LoopTypes, ObjectTypes, UpInv
<1>20. CASE Closed
  BY <1>20, DiscoveryAssumption DEF Closed, Retry, Goto, PlatformTypes, LoopTypes,
     ObjectTypes, UpInv
<1>21. CASE Unbind
  BY <1>21, DiscoveryAssumption DEF Unbind, Fails, BeginClose, Mishap, CallsBack,
     PlatformTypes, LoopTypes, ObjectTypes, UpInv
<1>22. CASE Cancel
  BY <1>22, DiscoveryAssumption DEF Cancel, PlatformTypes, LoopTypes, ObjectTypes, UpInv
<1>23. CASE \E a \in Addrs : LateConnected(a)
  BY <1>23, DiscoveryAssumption DEF LateConnected, Linked, Reachable, PlatformTypes,
     LoopTypes, ObjectTypes, UpInv
<1>24. CASE \E a \in Addrs : LateFailed(a)
  BY <1>24, DiscoveryAssumption DEF LateFailed, Fails, Reachable, Mishap, PlatformTypes,
     LoopTypes, ObjectTypes, UpInv
<1>25. CASE \E a \in Addrs : LateDisconnect(a)
  BY <1>25, DiscoveryAssumption DEF LateDisconnect, Disconnect, Ended, CallsBack,
     PlatformTypes, LoopTypes, ObjectTypes, UpInv
<1>26. CASE \E a \in Addrs : connectionChanged(a)
  BY <1>26, DiscoveryAssumption DEF connectionChanged, CallsBack, PlatformTypes, LoopTypes,
     ObjectTypes, UpInv
<1>27. CASE \E a \in Addrs : RadioLost(a)
  BY <1>27, DiscoveryAssumption DEF RadioLost, Ended, Mishap, CallsBack, PlatformTypes,
     LoopTypes, ObjectTypes, UpInv
<1>28. CASE \E a, b \in Addrs : Move(a, b)
  BY <1>28, DiscoveryAssumption DEF Move, Ended, Mishap, CallsBack, PlatformTypes,
     LoopTypes, ObjectTypes, UpInv
<1>29. CASE \E k \in Conns : monitor(k)
  BY <1>29, DiscoveryAssumption DEF monitor, BeginClose, CallsBack, PlatformTypes,
     LoopTypes, ObjectTypes, UpInv
<1>30. CASE \E k \in Conns : SendFails(k)
  BY <1>30, DiscoveryAssumption DEF SendFails, Mishap, BeginClose, CallsBack, PlatformTypes,
     LoopTypes, ObjectTypes, UpInv
<1>31. CASE \E k \in Conns : CloseEnds(k)
  BY <1>31, DiscoveryAssumption DEF CloseEnds, Disconnect, onClose, CallsBack, Ended,
     PlatformTypes, LoopTypes, ObjectTypes, UpInv
<1> QED BY <1>1, <1>2, <1>3, <1>4, <1>5, <1>6, <1>7, <1>8, <1>9, <1>10, <1>11, <1>12, <1>13,
       <1>14, <1>15, <1>16, <1>17, <1>18, <1>19, <1>20, <1>21, <1>22, <1>23, <1>24, <1>25,
       <1>26, <1>27, <1>28, <1>29, <1>30, <1>31
       DEF Next, Find, Connect, Bind

\* RunClient.
LEMMA LoopStep ==
    ASSUME TypeInv, UpInv, Next
    PROVE  LoopTypes'
<1> PlatformTypes /\ LoopTypes /\ ObjectTypes
  BY DEF TypeInv
<1> USE DEF platform, loop, object, world
<1>1. CASE Choose
  BY <1>1, DiscoveryAssumption DEF Choose, Goto, PlatformTypes, LoopTypes, UpInv
<1>2. CASE ScanEnds
  BY <1>2, DiscoveryAssumption DEF ScanEnds, Goto, Retry, Fails, Advertising, Mishap,
     PlatformTypes, LoopTypes, UpInv
<1>3. CASE ScanFails
  BY <1>3, DiscoveryAssumption DEF ScanFails, Retry, Fails, Goto, Mishap, PlatformTypes,
     LoopTypes, UpInv
<1>4. CASE NextDevice
  BY <1>4, DiscoveryAssumption DEF NextDevice, Goto, Retry, PlatformTypes, LoopTypes, UpInv
<1>5. CASE ProbeConnected
  BY <1>5, DiscoveryAssumption DEF ProbeConnected, Goto, Linked, Reachable, PlatformTypes,
     LoopTypes, UpInv
<1>6. CASE ProbeFailed
  BY <1>6, DiscoveryAssumption DEF ProbeFailed, Goto, Exact, Found, Fails, Reachable,
     Mishap, PlatformTypes, LoopTypes, UpInv
<1>7. CASE ProbeCancelled
  BY <1>7, DiscoveryAssumption DEF ProbeCancelled, Retry, Exact, Found, Goto, PlatformTypes,
     LoopTypes, UpInv
<1>8. CASE ReadID
  BY <1>8, DiscoveryAssumption DEF ReadID, Goto, Exact, Found, Disconnect, Ended, CallsBack,
     PlatformTypes, LoopTypes, UpInv
<1>9. CASE ReadIDFails
  BY <1>9, DiscoveryAssumption DEF ReadIDFails, Goto, Retry, Exact, Found, Disconnect,
     Fails, Ended, Mishap, CallsBack, PlatformTypes, LoopTypes, UpInv
<1>10. CASE ReadIDCancelled
  BY <1>10, DiscoveryAssumption DEF ReadIDCancelled, Retry, Exact, Found, Disconnect, Goto,
     Ended, CallsBack, PlatformTypes, LoopTypes, UpInv
<1>11. CASE Dialed
  BY <1>11, DiscoveryAssumption DEF Dialed, Found, Linked, Reachable, Goto, PlatformTypes,
     LoopTypes, UpInv
<1>12. CASE DialFailed
  BY <1>12, DiscoveryAssumption DEF DialFailed, Retry, Fails, Reachable, Goto, Mishap,
     PlatformTypes, LoopTypes, UpInv
<1>13. CASE DialTimedOut
  BY <1>13, DiscoveryAssumption DEF DialTimedOut, Retry, Fails, Goto, Mishap, PlatformTypes,
     LoopTypes, UpInv
<1>14. CASE Discovered
  BY <1>14, DiscoveryAssumption DEF Discovered, Goto, Spare, PlatformTypes, LoopTypes, UpInv
<1>15. CASE DiscoveryFails
  BY <1>15, DiscoveryAssumption DEF DiscoveryFails, Retry, Disconnect, Fails, Goto, Ended,
     Mishap, CallsBack, PlatformTypes, LoopTypes, UpInv
<1>16. CASE Started
  BY <1>16, DiscoveryAssumption DEF Started, Goto, Fails, Mishap, PlatformTypes, LoopTypes,
     UpInv
<1>17. CASE StartFails
  BY <1>17, DiscoveryAssumption DEF StartFails, Goto, Fails, BeginClose, Mishap, CallsBack,
     PlatformTypes, LoopTypes, UpInv
<1>18. CASE Bound
  BY <1>18, DiscoveryAssumption DEF Bound, Retry, Goto, PlatformTypes, LoopTypes, UpInv
<1>19. CASE BindFails
  BY <1>19, DiscoveryAssumption DEF BindFails, Goto, Fails, BeginClose, Mishap, CallsBack,
     PlatformTypes, LoopTypes, UpInv
<1>20. CASE Closed
  BY <1>20, DiscoveryAssumption DEF Closed, Retry, Goto, PlatformTypes, LoopTypes, UpInv
<1>21. CASE Unbind
  BY <1>21, DiscoveryAssumption DEF Unbind, Fails, BeginClose, Mishap, CallsBack,
     PlatformTypes, LoopTypes, UpInv
<1>22. CASE Cancel
  BY <1>22, DiscoveryAssumption DEF Cancel, PlatformTypes, LoopTypes, UpInv
<1>23. CASE \E a \in Addrs : LateConnected(a)
  BY <1>23, DiscoveryAssumption DEF LateConnected, Linked, Reachable, PlatformTypes,
     LoopTypes, UpInv
<1>24. CASE \E a \in Addrs : LateFailed(a)
  BY <1>24, DiscoveryAssumption DEF LateFailed, Fails, Reachable, Mishap, PlatformTypes,
     LoopTypes, UpInv
<1>25. CASE \E a \in Addrs : LateDisconnect(a)
  BY <1>25, DiscoveryAssumption DEF LateDisconnect, Disconnect, Ended, CallsBack,
     PlatformTypes, LoopTypes, UpInv
<1>26. CASE \E a \in Addrs : connectionChanged(a)
  BY <1>26, DiscoveryAssumption DEF connectionChanged, CallsBack, PlatformTypes, LoopTypes,
     UpInv
<1>27. CASE \E a \in Addrs : RadioLost(a)
  BY <1>27, DiscoveryAssumption DEF RadioLost, Ended, Mishap, CallsBack, PlatformTypes,
     LoopTypes, UpInv
<1>28. CASE \E a, b \in Addrs : Move(a, b)
  BY <1>28, DiscoveryAssumption DEF Move, Ended, Mishap, CallsBack, PlatformTypes,
     LoopTypes, UpInv
<1>29. CASE \E k \in Conns : monitor(k)
  BY <1>29, DiscoveryAssumption DEF monitor, BeginClose, CallsBack, PlatformTypes,
     LoopTypes, UpInv
<1>30. CASE \E k \in Conns : SendFails(k)
  BY <1>30, DiscoveryAssumption DEF SendFails, Mishap, BeginClose, CallsBack, PlatformTypes,
     LoopTypes, UpInv
<1>31. CASE \E k \in Conns : CloseEnds(k)
  BY <1>31, DiscoveryAssumption DEF CloseEnds, Disconnect, onClose, CallsBack, Ended,
     PlatformTypes, LoopTypes, UpInv
<1> QED BY <1>1, <1>2, <1>3, <1>4, <1>5, <1>6, <1>7, <1>8, <1>9, <1>10, <1>11, <1>12, <1>13,
       <1>14, <1>15, <1>16, <1>17, <1>18, <1>19, <1>20, <1>21, <1>22, <1>23, <1>24, <1>25,
       <1>26, <1>27, <1>28, <1>29, <1>30, <1>31
       DEF Next, Find, Connect, Bind

\* The packet connections.
LEMMA ObjectStep ==
    ASSUME TypeInv, Next
    PROVE  ObjectTypes'
<1> LoopTypes /\ ObjectTypes
  BY DEF TypeInv
<1> USE DEF platform, loop, object, world
<1>1. CASE Choose
  BY <1>1, DiscoveryAssumption DEF Choose, Goto, LoopTypes, ObjectTypes
<1>2. CASE ScanEnds
  BY <1>2, DiscoveryAssumption DEF ScanEnds, Goto, Retry, Fails, Advertising, Mishap,
     LoopTypes, ObjectTypes
<1>3. CASE ScanFails
  BY <1>3, DiscoveryAssumption DEF ScanFails, Retry, Fails, Goto, Mishap, LoopTypes, ObjectTypes
<1>4. CASE NextDevice
  BY <1>4, DiscoveryAssumption DEF NextDevice, Goto, Retry, LoopTypes, ObjectTypes
<1>5. CASE ProbeConnected
  BY <1>5, DiscoveryAssumption DEF ProbeConnected, Goto, Linked, Reachable, LoopTypes,
     ObjectTypes
<1>6. CASE ProbeFailed
  BY <1>6, DiscoveryAssumption DEF ProbeFailed, Goto, Exact, Found, Fails, Reachable,
     Mishap, LoopTypes, ObjectTypes
<1>7. CASE ProbeCancelled
  BY <1>7, DiscoveryAssumption DEF ProbeCancelled, Retry, Exact, Found, Goto, LoopTypes,
     ObjectTypes
<1>8. CASE ReadID
  BY <1>8, DiscoveryAssumption DEF ReadID, Goto, Exact, Found, Disconnect, Ended, CallsBack,
     LoopTypes, ObjectTypes
<1>9. CASE ReadIDFails
  BY <1>9, DiscoveryAssumption DEF ReadIDFails, Goto, Retry, Exact, Found, Disconnect,
     Fails, Ended, Mishap, CallsBack, LoopTypes, ObjectTypes
<1>10. CASE ReadIDCancelled
  BY <1>10, DiscoveryAssumption DEF ReadIDCancelled, Retry, Exact, Found, Disconnect, Goto,
     Ended, CallsBack, LoopTypes, ObjectTypes
<1>11. CASE Dialed
  BY <1>11, DiscoveryAssumption DEF Dialed, Found, Linked, Reachable, Goto, LoopTypes,
     ObjectTypes
<1>12. CASE DialFailed
  BY <1>12, DiscoveryAssumption DEF DialFailed, Retry, Fails, Reachable, Goto, Mishap,
     LoopTypes, ObjectTypes
<1>13. CASE DialTimedOut
  BY <1>13, DiscoveryAssumption DEF DialTimedOut, Retry, Fails, Goto, Mishap, LoopTypes,
     ObjectTypes
<1>14. CASE Discovered
  BY <1>14, DiscoveryAssumption DEF Discovered, Goto, Spare, LoopTypes, ObjectTypes
<1>15. CASE DiscoveryFails
  BY <1>15, DiscoveryAssumption DEF DiscoveryFails, Retry, Disconnect, Fails, Goto, Ended,
     Mishap, CallsBack, LoopTypes, ObjectTypes
<1>16. CASE Started
  BY <1>16, DiscoveryAssumption DEF Started, Goto, Fails, Mishap, LoopTypes, ObjectTypes
<1>17. CASE StartFails
  BY <1>17, DiscoveryAssumption DEF StartFails, Goto, Fails, BeginClose, Mishap, CallsBack,
     LoopTypes, ObjectTypes
<1>18. CASE Bound
  BY <1>18, DiscoveryAssumption DEF Bound, Retry, Goto, LoopTypes, ObjectTypes
<1>19. CASE BindFails
  BY <1>19, DiscoveryAssumption DEF BindFails, Goto, Fails, BeginClose, Mishap, CallsBack,
     LoopTypes, ObjectTypes
<1>20. CASE Closed
  BY <1>20, DiscoveryAssumption DEF Closed, Retry, Goto, LoopTypes, ObjectTypes
<1>21. CASE Unbind
  BY <1>21, DiscoveryAssumption DEF Unbind, Fails, BeginClose, Mishap, CallsBack, LoopTypes,
     ObjectTypes
<1>22. CASE Cancel
  BY <1>22, DiscoveryAssumption DEF Cancel, LoopTypes, ObjectTypes
<1>23. CASE \E a \in Addrs : LateConnected(a)
  BY <1>23, DiscoveryAssumption DEF LateConnected, Linked, Reachable, LoopTypes, ObjectTypes
<1>24. CASE \E a \in Addrs : LateFailed(a)
  BY <1>24, DiscoveryAssumption DEF LateFailed, Fails, Reachable, Mishap, LoopTypes, ObjectTypes
<1>25. CASE \E a \in Addrs : LateDisconnect(a)
  BY <1>25, DiscoveryAssumption DEF LateDisconnect, Disconnect, Ended, CallsBack, LoopTypes,
     ObjectTypes
<1>26. CASE \E a \in Addrs : connectionChanged(a)
  BY <1>26, DiscoveryAssumption DEF connectionChanged, CallsBack, LoopTypes, ObjectTypes
<1>27. CASE \E a \in Addrs : RadioLost(a)
  BY <1>27, DiscoveryAssumption DEF RadioLost, Ended, Mishap, CallsBack, LoopTypes, ObjectTypes
<1>28. CASE \E a, b \in Addrs : Move(a, b)
  BY <1>28, DiscoveryAssumption DEF Move, Ended, Mishap, CallsBack, LoopTypes, ObjectTypes
<1>29. CASE \E k \in Conns : monitor(k)
  BY <1>29, DiscoveryAssumption DEF monitor, BeginClose, CallsBack, LoopTypes, ObjectTypes
<1>30. CASE \E k \in Conns : SendFails(k)
  BY <1>30, DiscoveryAssumption DEF SendFails, Mishap, BeginClose, CallsBack, LoopTypes,
     ObjectTypes
<1>31. CASE \E k \in Conns : CloseEnds(k)
  BY <1>31, DiscoveryAssumption DEF CloseEnds, Disconnect, onClose, CallsBack, Ended,
     LoopTypes, ObjectTypes
<1> QED BY <1>1, <1>2, <1>3, <1>4, <1>5, <1>6, <1>7, <1>8, <1>9, <1>10, <1>11, <1>12, <1>13,
       <1>14, <1>15, <1>16, <1>17, <1>18, <1>19, <1>20, <1>21, <1>22, <1>23, <1>24, <1>25,
       <1>26, <1>27, <1>28, <1>29, <1>30, <1>31
       DEF Next, Find, Connect, Bind

\* Their owners and the table.
LEMMA ConnStep ==
    ASSUME TypeInv, ConnInv, Next
    PROVE  ConnInv'
<1> LoopTypes /\ ObjectTypes
  BY DEF TypeInv
<1> USE DEF platform, loop, object, world
<1>1. CASE Choose
  BY <1>1, DiscoveryAssumption DEF Choose, Goto, LoopTypes, ObjectTypes, ConnInv
<1>2. CASE ScanEnds
  BY <1>2, DiscoveryAssumption DEF ScanEnds, Goto, Retry, Fails, Advertising, Mishap,
     LoopTypes, ObjectTypes, ConnInv
<1>3. CASE ScanFails
  BY <1>3, DiscoveryAssumption DEF ScanFails, Retry, Fails, Goto, Mishap, LoopTypes,
     ObjectTypes, ConnInv
<1>4. CASE NextDevice
  BY <1>4, DiscoveryAssumption DEF NextDevice, Goto, Retry, LoopTypes, ObjectTypes, ConnInv
<1>5. CASE ProbeConnected
  BY <1>5, DiscoveryAssumption DEF ProbeConnected, Goto, Linked, Reachable, LoopTypes,
     ObjectTypes, ConnInv
<1>6. CASE ProbeFailed
  BY <1>6, DiscoveryAssumption DEF ProbeFailed, Goto, Exact, Found, Fails, Reachable,
     Mishap, LoopTypes, ObjectTypes, ConnInv
<1>7. CASE ProbeCancelled
  BY <1>7, DiscoveryAssumption DEF ProbeCancelled, Retry, Exact, Found, Goto, LoopTypes,
     ObjectTypes, ConnInv
<1>8. CASE ReadID
  BY <1>8, DiscoveryAssumption DEF ReadID, Goto, Exact, Found, Disconnect, Ended, CallsBack,
     LoopTypes, ObjectTypes, ConnInv
<1>9. CASE ReadIDFails
  BY <1>9, DiscoveryAssumption DEF ReadIDFails, Goto, Retry, Exact, Found, Disconnect,
     Fails, Ended, Mishap, CallsBack, LoopTypes, ObjectTypes, ConnInv
<1>10. CASE ReadIDCancelled
  BY <1>10, DiscoveryAssumption DEF ReadIDCancelled, Retry, Exact, Found, Disconnect, Goto,
     Ended, CallsBack, LoopTypes, ObjectTypes, ConnInv
<1>11. CASE Dialed
  BY <1>11, DiscoveryAssumption DEF Dialed, Found, Linked, Reachable, Goto, LoopTypes,
     ObjectTypes, ConnInv
<1>12. CASE DialFailed
  BY <1>12, DiscoveryAssumption DEF DialFailed, Retry, Fails, Reachable, Goto, Mishap,
     LoopTypes, ObjectTypes, ConnInv
<1>13. CASE DialTimedOut
  BY <1>13, DiscoveryAssumption DEF DialTimedOut, Retry, Fails, Goto, Mishap, LoopTypes,
     ObjectTypes, ConnInv
<1>14. CASE Discovered
  BY <1>14, DiscoveryAssumption DEF Discovered, Goto, Spare, LoopTypes, ObjectTypes, ConnInv
<1>15. CASE DiscoveryFails
  BY <1>15, DiscoveryAssumption DEF DiscoveryFails, Retry, Disconnect, Fails, Goto, Ended,
     Mishap, CallsBack, LoopTypes, ObjectTypes, ConnInv
<1>16. CASE Started
  BY <1>16, DiscoveryAssumption DEF Started, Goto, Fails, Mishap, LoopTypes, ObjectTypes,
     ConnInv
<1>17. CASE StartFails
  BY <1>17, DiscoveryAssumption DEF StartFails, Goto, Fails, BeginClose, Mishap, CallsBack,
     LoopTypes, ObjectTypes, ConnInv
<1>18. CASE Bound
  BY <1>18, DiscoveryAssumption DEF Bound, Retry, Goto, LoopTypes, ObjectTypes, ConnInv
<1>19. CASE BindFails
  BY <1>19, DiscoveryAssumption DEF BindFails, Goto, Fails, BeginClose, Mishap, CallsBack,
     LoopTypes, ObjectTypes, ConnInv
<1>20. CASE Closed
  BY <1>20, DiscoveryAssumption DEF Closed, Retry, Goto, LoopTypes, ObjectTypes, ConnInv
<1>21. CASE Unbind
  BY <1>21, DiscoveryAssumption DEF Unbind, Fails, BeginClose, Mishap, CallsBack, LoopTypes,
     ObjectTypes, ConnInv
<1>22. CASE Cancel
  BY <1>22, DiscoveryAssumption DEF Cancel, LoopTypes, ObjectTypes, ConnInv
<1>23. CASE \E a \in Addrs : LateConnected(a)
  BY <1>23, DiscoveryAssumption DEF LateConnected, Linked, Reachable, LoopTypes,
     ObjectTypes, ConnInv
<1>24. CASE \E a \in Addrs : LateFailed(a)
  BY <1>24, DiscoveryAssumption DEF LateFailed, Fails, Reachable, Mishap, LoopTypes,
     ObjectTypes, ConnInv
<1>25. CASE \E a \in Addrs : LateDisconnect(a)
  BY <1>25, DiscoveryAssumption DEF LateDisconnect, Disconnect, Ended, CallsBack, LoopTypes,
     ObjectTypes, ConnInv
<1>26. CASE \E a \in Addrs : connectionChanged(a)
  BY <1>26, DiscoveryAssumption DEF connectionChanged, CallsBack, LoopTypes, ObjectTypes,
     ConnInv
<1>27. CASE \E a \in Addrs : RadioLost(a)
  BY <1>27, DiscoveryAssumption DEF RadioLost, Ended, Mishap, CallsBack, LoopTypes,
     ObjectTypes, ConnInv
<1>28. CASE \E a, b \in Addrs : Move(a, b)
  BY <1>28, DiscoveryAssumption DEF Move, Ended, Mishap, CallsBack, LoopTypes, ObjectTypes,
     ConnInv
<1>29. CASE \E k \in Conns : monitor(k)
  BY <1>29, DiscoveryAssumption DEF monitor, BeginClose, CallsBack, LoopTypes, ObjectTypes,
     ConnInv
<1>30. CASE \E k \in Conns : SendFails(k)
  BY <1>30, DiscoveryAssumption DEF SendFails, Mishap, BeginClose, CallsBack, LoopTypes,
     ObjectTypes, ConnInv
<1>31. CASE \E k \in Conns : CloseEnds(k)
  BY <1>31, DiscoveryAssumption DEF CloseEnds, Disconnect, onClose, CallsBack, Ended,
     LoopTypes, ObjectTypes, ConnInv
<1> QED BY <1>1, <1>2, <1>3, <1>4, <1>5, <1>6, <1>7, <1>8, <1>9, <1>10, <1>11, <1>12, <1>13,
       <1>14, <1>15, <1>16, <1>17, <1>18, <1>19, <1>20, <1>21, <1>22, <1>23, <1>24, <1>25,
       <1>26, <1>27, <1>28, <1>29, <1>30, <1>31
       DEF Next, Find, Connect, Bind

\* The owners of radio connections.
LEMMA OwnerStep ==
    ASSUME TypeInv, ConnInv, OwnerInv, Next
    PROVE  OwnerInv'
<1> PlatformTypes /\ LoopTypes /\ ObjectTypes
  BY DEF TypeInv
<1> USE DEF platform, loop, object, world
<1>1. CASE Choose
  BY <1>1, DiscoveryAssumption DEF Choose, Goto, PlatformTypes, LoopTypes, ObjectTypes,
     ConnInv, OwnerInv, HasOwner
<1>2. CASE ScanEnds
  BY <1>2, DiscoveryAssumption DEF ScanEnds, Goto, Retry, Fails, Advertising, Mishap,
     PlatformTypes, LoopTypes, ObjectTypes, ConnInv, OwnerInv, HasOwner
<1>3. CASE ScanFails
  BY <1>3, DiscoveryAssumption DEF ScanFails, Retry, Fails, Goto, Mishap, PlatformTypes,
     LoopTypes, ObjectTypes, ConnInv, OwnerInv, HasOwner
<1>4. CASE NextDevice
  BY <1>4, DiscoveryAssumption DEF NextDevice, Goto, Retry, PlatformTypes, LoopTypes,
     ObjectTypes, ConnInv, OwnerInv, HasOwner
<1>5. CASE ProbeConnected
  BY <1>5, DiscoveryAssumption DEF ProbeConnected, Goto, Linked, Reachable, PlatformTypes,
     LoopTypes, ObjectTypes, ConnInv, OwnerInv, HasOwner
<1>6. CASE ProbeFailed
  BY <1>6, DiscoveryAssumption DEF ProbeFailed, Goto, Exact, Found, Fails, Reachable,
     Mishap, PlatformTypes, LoopTypes, ObjectTypes, ConnInv, OwnerInv, HasOwner
<1>7. CASE ProbeCancelled
  BY <1>7, DiscoveryAssumption DEF ProbeCancelled, Retry, Exact, Found, Goto, PlatformTypes,
     LoopTypes, ObjectTypes, ConnInv, OwnerInv, HasOwner
<1>8. CASE ReadID
  BY <1>8, DiscoveryAssumption DEF ReadID, Goto, Exact, Found, Disconnect, Ended, CallsBack,
     PlatformTypes, LoopTypes, ObjectTypes, ConnInv, OwnerInv, HasOwner
<1>9. CASE ReadIDFails
  BY <1>9, DiscoveryAssumption DEF ReadIDFails, Goto, Retry, Exact, Found, Disconnect,
     Fails, Ended, Mishap, CallsBack, PlatformTypes, LoopTypes, ObjectTypes, ConnInv,
     OwnerInv, HasOwner
<1>10. CASE ReadIDCancelled
  BY <1>10, DiscoveryAssumption DEF ReadIDCancelled, Retry, Exact, Found, Disconnect, Goto,
     Ended, CallsBack, PlatformTypes, LoopTypes, ObjectTypes, ConnInv, OwnerInv, HasOwner
<1>11. CASE Dialed
  BY <1>11, DiscoveryAssumption DEF Dialed, Found, Linked, Reachable, Goto, PlatformTypes,
     LoopTypes, ObjectTypes, ConnInv, OwnerInv, HasOwner
<1>12. CASE DialFailed
  BY <1>12, DiscoveryAssumption DEF DialFailed, Retry, Fails, Reachable, Goto, Mishap,
     PlatformTypes, LoopTypes, ObjectTypes, ConnInv, OwnerInv, HasOwner
<1>13. CASE DialTimedOut
  BY <1>13, DiscoveryAssumption DEF DialTimedOut, Retry, Fails, Goto, Mishap, PlatformTypes,
     LoopTypes, ObjectTypes, ConnInv, OwnerInv, HasOwner
<1>14. CASE Discovered
  BY <1>14, DiscoveryAssumption DEF Discovered, Goto, Spare, PlatformTypes, LoopTypes,
     ObjectTypes, ConnInv, OwnerInv, HasOwner
<1>15. CASE DiscoveryFails
  BY <1>15, DiscoveryAssumption DEF DiscoveryFails, Retry, Disconnect, Fails, Goto, Ended,
     Mishap, CallsBack, PlatformTypes, LoopTypes, ObjectTypes, ConnInv, OwnerInv, HasOwner
<1>16. CASE Started
  BY <1>16, DiscoveryAssumption DEF Started, Goto, Fails, Mishap, PlatformTypes, LoopTypes,
     ObjectTypes, ConnInv, OwnerInv, HasOwner
<1>17. CASE StartFails
  BY <1>17, DiscoveryAssumption DEF StartFails, Goto, Fails, BeginClose, Mishap, CallsBack,
     PlatformTypes, LoopTypes, ObjectTypes, ConnInv, OwnerInv, HasOwner
<1>18. CASE Bound
  BY <1>18, DiscoveryAssumption DEF Bound, Retry, Goto, PlatformTypes, LoopTypes,
     ObjectTypes, ConnInv, OwnerInv, HasOwner
<1>19. CASE BindFails
  BY <1>19, DiscoveryAssumption DEF BindFails, Goto, Fails, BeginClose, Mishap, CallsBack,
     PlatformTypes, LoopTypes, ObjectTypes, ConnInv, OwnerInv, HasOwner
<1>20. CASE Closed
  BY <1>20, DiscoveryAssumption DEF Closed, Retry, Goto, PlatformTypes, LoopTypes,
     ObjectTypes, ConnInv, OwnerInv, HasOwner
<1>21. CASE Unbind
  BY <1>21, DiscoveryAssumption DEF Unbind, Fails, BeginClose, Mishap, CallsBack,
     PlatformTypes, LoopTypes, ObjectTypes, ConnInv, OwnerInv, HasOwner
<1>22. CASE Cancel
  BY <1>22, DiscoveryAssumption DEF Cancel, PlatformTypes, LoopTypes, ObjectTypes, ConnInv,
     OwnerInv, HasOwner
<1>23. CASE \E a \in Addrs : LateConnected(a)
  BY <1>23, DiscoveryAssumption DEF LateConnected, Linked, Reachable, PlatformTypes,
     LoopTypes, ObjectTypes, ConnInv, OwnerInv, HasOwner
<1>24. CASE \E a \in Addrs : LateFailed(a)
  BY <1>24, DiscoveryAssumption DEF LateFailed, Fails, Reachable, Mishap, PlatformTypes,
     LoopTypes, ObjectTypes, ConnInv, OwnerInv, HasOwner
<1>25. CASE \E a \in Addrs : LateDisconnect(a)
  BY <1>25, DiscoveryAssumption DEF LateDisconnect, Disconnect, Ended, CallsBack,
     PlatformTypes, LoopTypes, ObjectTypes, ConnInv, OwnerInv, HasOwner
<1>26. CASE \E a \in Addrs : connectionChanged(a)
  BY <1>26, DiscoveryAssumption DEF connectionChanged, CallsBack, PlatformTypes, LoopTypes,
     ObjectTypes, ConnInv, OwnerInv, HasOwner
<1>27. CASE \E a \in Addrs : RadioLost(a)
  BY <1>27, DiscoveryAssumption DEF RadioLost, Ended, Mishap, CallsBack, PlatformTypes,
     LoopTypes, ObjectTypes, ConnInv, OwnerInv, HasOwner
<1>28. CASE \E a, b \in Addrs : Move(a, b)
  BY <1>28, DiscoveryAssumption DEF Move, Ended, Mishap, CallsBack, PlatformTypes,
     LoopTypes, ObjectTypes, ConnInv, OwnerInv, HasOwner
<1>29. CASE \E k \in Conns : monitor(k)
  BY <1>29, DiscoveryAssumption DEF monitor, BeginClose, CallsBack, PlatformTypes,
     LoopTypes, ObjectTypes, ConnInv, OwnerInv, HasOwner
<1>30. CASE \E k \in Conns : SendFails(k)
  BY <1>30, DiscoveryAssumption DEF SendFails, Mishap, BeginClose, CallsBack, PlatformTypes,
     LoopTypes, ObjectTypes, ConnInv, OwnerInv, HasOwner
<1>31. CASE \E k \in Conns : CloseEnds(k)
  BY <1>31, DiscoveryAssumption DEF CloseEnds, Disconnect, onClose, CallsBack, Ended,
     PlatformTypes, LoopTypes, ObjectTypes, ConnInv, OwnerInv, HasOwner
<1> QED BY <1>1, <1>2, <1>3, <1>4, <1>5, <1>6, <1>7, <1>8, <1>9, <1>10, <1>11, <1>12, <1>13,
       <1>14, <1>15, <1>16, <1>17, <1>18, <1>19, <1>20, <1>21, <1>22, <1>23, <1>24, <1>25,
       <1>26, <1>27, <1>28, <1>29, <1>30, <1>31
       DEF Next, Find, Connect, Bind

\* The names of the wanted server.
LEMMA NameStep ==
    ASSUME Movers \subseteq {Wanted}, TypeInv, UpInv, ConnInv, NameInv, Next
    PROVE  NameInv'
<1> PlatformTypes /\ LoopTypes /\ ObjectTypes
  BY DEF TypeInv
<1> USE DEF platform, loop, object, world
<1>1. CASE Choose
  BY <1>1, DiscoveryAssumption DEF Choose, Goto, PlatformTypes, LoopTypes, ObjectTypes,
     UpInv, ConnInv, NameInv, Ours
<1>2. CASE ScanEnds
  BY <1>2, DiscoveryAssumption DEF ScanEnds, Goto, Retry, Fails, Advertising, Mishap,
     PlatformTypes, LoopTypes, ObjectTypes, UpInv, ConnInv, NameInv, Ours
<1>3. CASE ScanFails
  BY <1>3, DiscoveryAssumption DEF ScanFails, Retry, Fails, Goto, Mishap, PlatformTypes,
     LoopTypes, ObjectTypes, UpInv, ConnInv, NameInv, Ours
<1>4. CASE NextDevice
  BY <1>4, DiscoveryAssumption DEF NextDevice, Goto, Retry, PlatformTypes, LoopTypes,
     ObjectTypes, UpInv, ConnInv, NameInv, Ours
<1>5. CASE ProbeConnected
  BY <1>5, DiscoveryAssumption DEF ProbeConnected, Goto, Linked, Reachable, PlatformTypes,
     LoopTypes, ObjectTypes, UpInv, ConnInv, NameInv, Ours
<1>6. CASE ProbeFailed
  BY <1>6, DiscoveryAssumption DEF ProbeFailed, Goto, Exact, Found, Fails, Reachable,
     Mishap, PlatformTypes, LoopTypes, ObjectTypes, UpInv, ConnInv, NameInv, Ours
<1>7. CASE ProbeCancelled
  BY <1>7, DiscoveryAssumption DEF ProbeCancelled, Retry, Exact, Found, Goto, PlatformTypes,
     LoopTypes, ObjectTypes, UpInv, ConnInv, NameInv, Ours
<1>8. CASE ReadID
  BY <1>8, DiscoveryAssumption DEF ReadID, Goto, Exact, Found, Disconnect, Ended, CallsBack,
     PlatformTypes, LoopTypes, ObjectTypes, UpInv, ConnInv, NameInv, Ours
<1>9. CASE ReadIDFails
  BY <1>9, DiscoveryAssumption DEF ReadIDFails, Goto, Retry, Exact, Found, Disconnect,
     Fails, Ended, Mishap, CallsBack, PlatformTypes, LoopTypes, ObjectTypes, UpInv, ConnInv,
     NameInv, Ours
<1>10. CASE ReadIDCancelled
  BY <1>10, DiscoveryAssumption DEF ReadIDCancelled, Retry, Exact, Found, Disconnect, Goto,
     Ended, CallsBack, PlatformTypes, LoopTypes, ObjectTypes, UpInv, ConnInv, NameInv, Ours
<1>11. CASE Dialed
  BY <1>11, DiscoveryAssumption DEF Dialed, Found, Linked, Reachable, Goto, PlatformTypes,
     LoopTypes, ObjectTypes, UpInv, ConnInv, NameInv, Ours
<1>12. CASE DialFailed
  BY <1>12, DiscoveryAssumption DEF DialFailed, Retry, Fails, Reachable, Goto, Mishap,
     PlatformTypes, LoopTypes, ObjectTypes, UpInv, ConnInv, NameInv, Ours
<1>13. CASE DialTimedOut
  BY <1>13, DiscoveryAssumption DEF DialTimedOut, Retry, Fails, Goto, Mishap, PlatformTypes,
     LoopTypes, ObjectTypes, UpInv, ConnInv, NameInv, Ours
<1>14. CASE Discovered
  BY <1>14, DiscoveryAssumption DEF Discovered, Goto, Spare, PlatformTypes, LoopTypes,
     ObjectTypes, UpInv, ConnInv, NameInv, Ours
<1>15. CASE DiscoveryFails
  BY <1>15, DiscoveryAssumption DEF DiscoveryFails, Retry, Disconnect, Fails, Goto, Ended,
     Mishap, CallsBack, PlatformTypes, LoopTypes, ObjectTypes, UpInv, ConnInv, NameInv, Ours
<1>16. CASE Started
  BY <1>16, DiscoveryAssumption DEF Started, Goto, Fails, Mishap, PlatformTypes, LoopTypes,
     ObjectTypes, UpInv, ConnInv, NameInv, Ours
<1>17. CASE StartFails
  BY <1>17, DiscoveryAssumption DEF StartFails, Goto, Fails, BeginClose, Mishap, CallsBack,
     PlatformTypes, LoopTypes, ObjectTypes, UpInv, ConnInv, NameInv, Ours
<1>18. CASE Bound
  BY <1>18, DiscoveryAssumption DEF Bound, Retry, Goto, PlatformTypes, LoopTypes,
     ObjectTypes, UpInv, ConnInv, NameInv, Ours
<1>19. CASE BindFails
  BY <1>19, DiscoveryAssumption DEF BindFails, Goto, Fails, BeginClose, Mishap, CallsBack,
     PlatformTypes, LoopTypes, ObjectTypes, UpInv, ConnInv, NameInv, Ours
<1>20. CASE Closed
  BY <1>20, DiscoveryAssumption DEF Closed, Retry, Goto, PlatformTypes, LoopTypes,
     ObjectTypes, UpInv, ConnInv, NameInv, Ours
<1>21. CASE Unbind
  BY <1>21, DiscoveryAssumption DEF Unbind, Fails, BeginClose, Mishap, CallsBack,
     PlatformTypes, LoopTypes, ObjectTypes, UpInv, ConnInv, NameInv, Ours
<1>22. CASE Cancel
  BY <1>22, DiscoveryAssumption DEF Cancel, PlatformTypes, LoopTypes, ObjectTypes, UpInv,
     ConnInv, NameInv, Ours
<1>23. CASE \E a \in Addrs : LateConnected(a)
  BY <1>23, DiscoveryAssumption DEF LateConnected, Linked, Reachable, PlatformTypes,
     LoopTypes, ObjectTypes, UpInv, ConnInv, NameInv, Ours
<1>24. CASE \E a \in Addrs : LateFailed(a)
  BY <1>24, DiscoveryAssumption DEF LateFailed, Fails, Reachable, Mishap, PlatformTypes,
     LoopTypes, ObjectTypes, UpInv, ConnInv, NameInv, Ours
<1>25. CASE \E a \in Addrs : LateDisconnect(a)
  BY <1>25, DiscoveryAssumption DEF LateDisconnect, Disconnect, Ended, CallsBack,
     PlatformTypes, LoopTypes, ObjectTypes, UpInv, ConnInv, NameInv, Ours
<1>26. CASE \E a \in Addrs : connectionChanged(a)
  BY <1>26, DiscoveryAssumption DEF connectionChanged, CallsBack, PlatformTypes, LoopTypes,
     ObjectTypes, UpInv, ConnInv, NameInv, Ours
<1>27. CASE \E a \in Addrs : RadioLost(a)
  BY <1>27, DiscoveryAssumption DEF RadioLost, Ended, Mishap, CallsBack, PlatformTypes,
     LoopTypes, ObjectTypes, UpInv, ConnInv, NameInv, Ours
<1>28. CASE \E a, b \in Addrs : Move(a, b)
  BY <1>28, DiscoveryAssumption DEF Move, Ended, Mishap, CallsBack, PlatformTypes,
     LoopTypes, ObjectTypes, UpInv, ConnInv, NameInv, Ours
<1>29. CASE \E k \in Conns : monitor(k)
  BY <1>29, DiscoveryAssumption DEF monitor, BeginClose, CallsBack, PlatformTypes,
     LoopTypes, ObjectTypes, UpInv, ConnInv, NameInv, Ours
<1>30. CASE \E k \in Conns : SendFails(k)
  BY <1>30, DiscoveryAssumption DEF SendFails, Mishap, BeginClose, CallsBack, PlatformTypes,
     LoopTypes, ObjectTypes, UpInv, ConnInv, NameInv, Ours
<1>31. CASE \E k \in Conns : CloseEnds(k)
  BY <1>31, DiscoveryAssumption DEF CloseEnds, Disconnect, onClose, CallsBack, Ended,
     PlatformTypes, LoopTypes, ObjectTypes, UpInv, ConnInv, NameInv, Ours
<1> QED BY <1>1, <1>2, <1>3, <1>4, <1>5, <1>6, <1>7, <1>8, <1>9, <1>10, <1>11, <1>12, <1>13,
       <1>14, <1>15, <1>16, <1>17, <1>18, <1>19, <1>20, <1>21, <1>22, <1>23, <1>24, <1>25,
       <1>26, <1>27, <1>28, <1>29, <1>30, <1>31
       DEF Next, Find, Connect, Bind

-----------------------------------------------------------------------------
LEMMA DInvStep == DInv /\ [Next]_vars => DInv'
<1> SUFFICES ASSUME DInv, [Next]_vars PROVE DInv'  OBVIOUS
<1>1. TypeInv /\ UpInv /\ ConnInv /\ OwnerInv
  BY DEF DInv
<1>2. CASE Next
  <2>1. WorldTypes'
    BY <1>1, <1>2, WorldStep, DiscoveryAssumption DEF TypeInv
  <2>2. PlatformTypes' /\ UpInv' /\ LoopTypes' /\ ObjectTypes'
    BY <1>1, <1>2, PlatformStep, LoopStep, ObjectStep
  <2>3. ConnInv' /\ OwnerInv'
    BY <1>1, <1>2, ConnStep, OwnerStep
  <2> QED BY <2>1, <2>2, <2>3 DEF DInv, TypeInv
<1>3. CASE UNCHANGED vars
  <2> USE <1>1, <1>3 DEF vars, platform, loop, object, world
  <2>1. PlatformTypes' /\ LoopTypes' /\ ObjectTypes' /\ WorldTypes'
    BY DEF TypeInv, PlatformTypes, LoopTypes, ObjectTypes, WorldTypes
  <2>2. UpInv' /\ ConnInv' /\ OwnerInv'
    BY DEF UpInv, ConnInv, OwnerInv, HasOwner
  <2> QED BY <2>1, <2>2 DEF DInv, TypeInv
<1> QED BY <1>2, <1>3

LEMMA DInvariant == Spec => []DInv
BY DInvInit, DInvStep, PTL DEF Spec

\* The variables of RunClient's connection loop, of the Adapter and of its
\* packet connections keep their types; the loop has a device, and a packet
\* connection of its own, exactly at the places that use one.
THEOREM DiscoveryTypes == Spec => []TypeOK
<1>1. DInv => TypeOK
  BY TypeParts DEF DInv, TypeInv
<1> QED BY DInvariant, <1>1, PTL

\* Find, Connect, connectNative and close: no radio connection is forgotten,
\* however many addresses are tried and whatever fails on the way.
THEOREM RadioOwned == Spec => []Owned
<1>1. DInv => Owned
  BY DEF DInv, OwnerInv, ConnInv, Owned
<1> QED BY DInvariant, <1>1, PTL

\* Adapter.connections: a disconnect event reaches the connection in use,
\* whatever predecessors at its address are still closing.
THEOREM TableIsCurrent == Spec => []TableCurrent
<1>1. DInv => TableCurrent
  BY DEF DInv, ConnInv, TypeInv, LoopTypes, TableCurrent, Live
<1> QED BY DInvariant, <1>1, PTL

\* RunClient never binds its link to a server that was not asked for, if the
\* other servers keep their addresses.
THEOREM BindsRightServer ==
    ASSUME Movers \subseteq {Wanted}
    PROVE  Spec => []RightServer
<1>1. Init => NameInv
  <2> SUFFICES ASSUME Init PROVE NameInv  OBVIOUS
  <2> QED BY DiscoveryAssumption DEF Init, NameInv, Ours
<1>2. DInv /\ NameInv /\ [Next]_vars => NameInv'
  <2> SUFFICES ASSUME DInv, NameInv, [Next]_vars PROVE NameInv'  OBVIOUS
  <2>1. CASE Next
    BY <2>1, NameStep DEF DInv
  <2>2. CASE UNCHANGED vars
    BY <2>2 DEF vars, platform, loop, object, NameInv, Ours
  <2> QED BY <2>1, <2>2
<1>3. DInv /\ NameInv => RightServer
  <2> SUFFICES ASSUME DInv, NameInv PROVE RightServer  OBVIOUS
  <2> PlatformTypes /\ LoopTypes /\ ObjectTypes /\ UpInv
    BY DEF DInv, TypeInv
  <2>1. deviceID \in Ids => deviceID = Wanted
    BY DEF NameInv
  <2>2. ASSUME Live(cur), addr[cur] \in up PROVE who[addr[cur]] = Wanted
    BY <2>2 DEF Live, NameInv, UpInv, PlatformTypes
  <2> QED BY <2>1, <2>2 DEF RightServer
<1> QED BY DInvariant, <1>1, <1>2, <1>3, PTL DEF Spec
=============================================================================
