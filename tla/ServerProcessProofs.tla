------------------------ MODULE ServerProcessProofs ------------------------
(***************************************************************************)
(* Proofs about ServerIdentity, for any number of processes; about         *)
(* PeripheralServer, for every number of attempts, tries,                  *)
(* connections and visits, and about the server process as a whole, which  *)
(* keeps what its two parts keep although it ends and starts again.        *)
(***************************************************************************)
EXTENDS ServerProcess, TLAPS

-----------------------------------------------------------------------------
(* The inductive invariant of ServerIdentity. What is in the file is known *)
(* while a process has it open, and only one has.                          *)

\* What a process knows of its draw and of the file.
Knows(p) ==
    /\ pc[p] \in {"create", "write", "close"} => draw[p] \in drawn
    /\ pc[p] = "write"  => file = Empty
    /\ pc[p] = "remove" => file \in Damaged
    /\ pc[p] = "close"  => file = draw[p]

\* O_EXCL: at most one process has the file open.
OneWriter == \A p, q \in Writing : p = q

\* An identity in the file was drawn by some process.
FileDrawn == file \in ServerIDs => file \in drawn

IdentityInv ==
    /\ IdTypeOK
    /\ FileDrawn
    /\ \A p \in Procs : Knows(p)
    /\ OneWriter
    /\ IdentityKept

\* The identities are none of the other contents of the file.
LEMMA ContentsDiffer ==
    /\ Absent \notin ServerIDs /\ Empty \notin ServerIDs /\ Torn \notin ServerIDs
    /\ Absent # Empty /\ Absent # Torn /\ Empty # Torn
BY IdentityAssumption DEF Absent, Empty, Torn

\* A process that has the file open finds something in it.
LEMMA WritersHaveAFile ==
    ASSUME IdentityInv, NEW p \in Writing
    PROVE  file # Absent
BY ContentsDiffer DEF IdentityInv, IdTypeOK, Knows, Writing, Damaged

LEMMA IdentityInit == IdInit => IdentityInv
<1> SUFFICES ASSUME IdInit PROVE IdentityInv  OBVIOUS
<1>1. IdTypeOK /\ Writing = {}
  BY DEF IdInit, IdTypeOK, Writing
<1>2. \A p \in Procs : Knows(p)
  BY DEF IdInit, Knows
<1>3. FileDrawn /\ OneWriter /\ IdentityKept
  BY <1>1, ContentsDiffer DEF IdInit, FileDrawn, OneWriter, IdentityKept, Damaged
<1> QED BY <1>1, <1>2, <1>3 DEF IdentityInv

-----------------------------------------------------------------------------
(* A step moves one process only. The set of writers changes with it.      *)

LEMMA Moves ==
    ASSUME IdTypeOK, NEW p \in Procs, NEW where, Goes(p, where)
    PROVE  /\ pc'[p] = where
           /\ \A q \in Procs \ {p} : pc'[q] = pc[q]
           /\ Writing' = IF where \in {"write", "remove", "close"}
                         THEN Writing \cup {p} ELSE Writing \ {p}
<1>1. pc'[p] = where /\ \A q \in Procs \ {p} : pc'[q] = pc[q]
  BY DEF IdTypeOK, Goes
<1> QED BY <1>1 DEF Writing

-----------------------------------------------------------------------------
(* The steps, one lemma for each kind of effect on the file.               *)

\* A step that neither opens nor changes the file, and adopts at most what the
\* file holds: reading, drawing, closing, failing.
LEMMA FileStays ==
    ASSUME IdentityInv, NEW p \in Procs, NEW where, Goes(p, where), UNCHANGED file,
           where \in {"idle", "read", "draw", "create", "running"},
           draw' \in [Procs -> ServerIDs \cup {NoServerID}],
           \A q \in Procs \ {p} : draw'[q] = draw[q],
           where = "create" => draw'[p] \in drawn',
           drawn \subseteq drawn', drawn' \subseteq ServerIDs,
           adopted \subseteq adopted',
           \A i \in adopted' \ adopted : i = file /\ i \in ServerIDs,
           spoiled' \in BOOLEAN, spoiled => spoiled',
           pc[p] \in {"write", "remove"} => spoiled'
    PROVE  IdentityInv'
<1>1. /\ IdTypeOK /\ FileDrawn /\ OneWriter /\ IdentityKept
      /\ \A q \in Procs : Knows(q)
  BY DEF IdentityInv
<1>2. /\ pc'[p] = where
      /\ \A q \in Procs \ {p} : pc'[q] = pc[q]
      /\ Writing' = Writing \ {p}
  BY <1>1, Moves
<1>3. IdTypeOK'
  <2>1. pc' \in [Procs -> {"idle", "read", "draw", "create", "write", "remove", "close", "running"}]
    BY <1>1 DEF IdTypeOK, Goes
  <2>2. adopted' \subseteq drawn'
    BY <1>1 DEF IdTypeOK, FileDrawn
  <2> QED BY <1>1, <2>1, <2>2 DEF IdTypeOK
<1>4. FileDrawn'
  BY <1>1 DEF FileDrawn
<1>5. ASSUME NEW q \in Procs PROVE Knows(q)'
  <2>1. CASE q = p
    BY <2>1, <1>2 DEF Knows
  <2>2. CASE q # p
    BY <2>2, <1>1, <1>2 DEF Knows
  <2> QED BY <2>1, <2>2
<1>6. OneWriter'
  BY <1>1, <1>2 DEF OneWriter
<1>7. IdentityKept'
  <2>1. \A i \in adopted' : file' = i
    BY <1>1 DEF IdentityKept
  <2>2. ASSUME file' \in Damaged, Writing' = {} PROVE spoiled'
    <3>1. CASE p \in Writing
      <4>1. pc[p] # "close"
        BY <2>2, <1>1, ContentsDiffer DEF Knows, IdTypeOK, Damaged
      <4> QED BY <3>1, <4>1 DEF Writing
    <3>2. CASE p \notin Writing
      BY <3>2, <2>2, <1>1, <1>2 DEF IdentityKept
    <3> QED BY <3>1, <3>2
  <2> QED BY <2>1, <2>2 DEF IdentityKept
<1> QED BY <1>3, <1>4, <1>5, <1>6, <1>7 DEF IdentityInv

\* A step of the one process that has the file open, or that has just created
\* it: nobody has adopted anything and nobody else writes.
LEMMA FileWritten ==
    ASSUME IdentityInv, NEW p \in Procs, NEW where, Goes(p, where),
           where \in {"write", "remove", "close"} \/ (where = "idle" /\ (file' \in Damaged => spoiled')),
           p \in Writing \/ file = Absent, file \notin ServerIDs,
           draw' \in [Procs -> ServerIDs \cup {NoServerID}],
           \A q \in Procs \ {p} : draw'[q] = draw[q],
           where \in {"write", "close"} => draw'[p] \in drawn,
           file' \in {Absent} \cup Damaged \cup drawn,
           where = "write" => file' = Empty, where = "remove" => file' \in Damaged,
           where = "close" => file' = draw'[p],
           UNCHANGED <<drawn, adopted>>, spoiled' \in BOOLEAN
    PROVE  IdentityInv'
<1>1. /\ IdTypeOK /\ OneWriter /\ IdentityKept
      /\ \A q \in Procs : Knows(q)
  BY DEF IdentityInv
<1>2. /\ pc'[p] = where
      /\ \A q \in Procs \ {p} : pc'[q] = pc[q]
      /\ where \in {"write", "remove", "close"} => Writing' = Writing \cup {p}
      /\ where = "idle" => Writing' = Writing \ {p}
  BY <1>1, Moves
<1>3. Writing \subseteq {p}
  BY <1>1, WritersHaveAFile DEF OneWriter
<1>4. adopted = {}
  BY <1>1 DEF IdentityKept, IdTypeOK
<1>5. IdTypeOK'
  <2>1. pc' \in [Procs -> {"idle", "read", "draw", "create", "write", "remove", "close", "running"}]
    BY <1>1 DEF IdTypeOK, Goes
  <2> QED BY <1>1, <2>1 DEF IdTypeOK, Damaged
<1>6. FileDrawn'
  BY ContentsDiffer DEF FileDrawn, Damaged
<1>7. ASSUME NEW q \in Procs PROVE Knows(q)'
  <2>1. CASE q = p
    BY <2>1, <1>2 DEF Knows
  <2>2. CASE q # p
    <3>1. q \notin Writing
      BY <2>2, <1>3
    <3> QED BY <2>2, <3>1, <1>1, <1>2 DEF Knows, Writing
  <2> QED BY <2>1, <2>2
<1>8. OneWriter'
  BY <1>2, <1>3 DEF OneWriter
<1>9. IdentityKept'
  BY <1>2, <1>4 DEF IdentityKept
<1> QED BY <1>5, <1>6, <1>7, <1>8, <1>9 DEF IdentityInv

\* Every step of a process keeps the invariant.
LEMMA IdentityStep ==
    ASSUME IdentityInv, NEW p \in Procs, IdStep(p)
    PROVE  IdentityInv'
<1>t. IdTypeOK /\ FileDrawn /\ Knows(p)
  BY DEF IdentityInv
<1>r. ASSUME NEW where, Returns(p, where)
      PROVE  /\ Goes(p, where)
             /\ draw' \in [Procs -> ServerIDs \cup {NoServerID}]
             /\ \A q \in Procs \ {p} : draw'[q] = draw[q]
  BY <1>r, <1>t DEF Returns, IdTypeOK
<1>1. CASE Launch(p)
  BY <1>1, <1>t, FileStays DEF Launch, IdTypeOK
<1>2. CASE ReadFile(p)
  <2>1. CASE file \in ServerIDs
    <3>1. Adopts(p, file)
      BY <1>2, <2>1, ContentsDiffer DEF ReadFile, Damaged
    <3>2. Returns(p, "running") /\ adopted' = adopted \cup {file} /\ UNCHANGED <<file, drawn, spoiled>>
      BY <1>2, <3>1 DEF ReadFile, Adopts
    <3>3. pc[p] = "read"
      BY <1>2 DEF ReadFile
    <3> QED BY <2>1, <3>2, <3>3, <1>r, <1>t, FileStays DEF IdTypeOK
  <2>2. CASE file \in Damaged
    <3>1. Returns(p, "idle") /\ UNCHANGED <<file, drawn, spoiled, adopted>> /\ pc[p] = "read"
      BY <1>2, <2>2, ContentsDiffer DEF ReadFile, Damaged, FailsStart
    <3> QED BY <3>1, <1>r, <1>t, FileStays DEF IdTypeOK
  <2>3. CASE file = Absent
    <3>1. Goes(p, "draw") /\ UNCHANGED <<file, draw, drawn, spoiled, adopted>> /\ pc[p] = "read"
      BY <1>2, <2>3, ContentsDiffer DEF ReadFile, Damaged
    <3> QED BY <3>1, <1>t, FileStays DEF IdTypeOK
  <2> QED BY <1>t, <2>1, <2>2, <2>3 DEF IdTypeOK, Damaged
<1>3. CASE CallFails(p)
  <2>1. Returns(p, "idle") /\ UNCHANGED <<file, drawn, spoiled, adopted>>
        /\ pc[p] \in {"read", "draw", "create"}
    BY <1>3 DEF CallFails, FailsStart
  <2> QED BY <2>1, <1>r, <1>t, FileStays DEF IdTypeOK
<1>4. CASE NewServerID(p)
  <2>1. PICK id \in ServerIDs : drawn' = drawn \cup {id} /\ draw' = [draw EXCEPT ![p] = id]
    BY <1>4 DEF NewServerID
  <2>2. Goes(p, "create") /\ UNCHANGED <<file, adopted, spoiled>> /\ pc[p] = "draw"
    BY <1>4 DEF NewServerID
  <2>3. /\ draw' \in [Procs -> ServerIDs \cup {NoServerID}] /\ draw'[p] \in drawn'
        /\ \A q \in Procs \ {p} : draw'[q] = draw[q]
    BY <2>1, <1>t DEF IdTypeOK
  <2> QED BY <2>1, <2>2, <2>3, <1>t, FileStays DEF IdTypeOK
<1>5. CASE Create(p)
  <2>1. pc[p] = "create" /\ UNCHANGED <<draw, drawn, adopted, spoiled>>
    BY <1>5 DEF Create
  <2>2. CASE file = Absent
    <3>1. file' = Empty /\ Goes(p, "write")
      BY <1>5, <2>2 DEF Create
    <3>2. draw[p] \in drawn
      BY <2>1, <1>t DEF Knows
    <3> QED BY <2>1, <2>2, <3>1, <3>2, <1>t, FileWritten, ContentsDiffer DEF IdTypeOK, Damaged
  <2>3. CASE file # Absent
    <3>1. Goes(p, "read") /\ UNCHANGED file
      BY <1>5, <2>3 DEF Create
    <3> QED BY <2>1, <3>1, <1>t, FileStays DEF IdTypeOK
  <2> QED BY <2>2, <2>3
<1>6. CASE WriteID(p)
  <2>1. /\ pc[p] = "write" /\ file' = draw[p] /\ Goes(p, "close")
        /\ UNCHANGED <<draw, drawn, adopted, spoiled>>
    BY <1>6 DEF WriteID
  <2>2. p \in Writing /\ file = Empty /\ draw[p] \in drawn
    BY <2>1, <1>t DEF Knows, Writing
  <2> QED BY <2>1, <2>2, <1>t, FileWritten, ContentsDiffer DEF IdTypeOK
<1>7. CASE WriteFails(p)
  <2>1. /\ pc[p] = "write" /\ file' \in Damaged /\ Goes(p, "remove")
        /\ UNCHANGED <<draw, drawn, adopted, spoiled>>
    BY <1>7 DEF WriteFails
  <2>2. p \in Writing /\ file = Empty
    BY <2>1, <1>t DEF Knows, Writing
  <2> QED BY <2>1, <2>2, <1>t, FileWritten, ContentsDiffer DEF IdTypeOK
<1>8. CASE Remove(p)
  <2>1. /\ pc[p] = "remove" /\ Returns(p, "idle") /\ UNCHANGED <<drawn, adopted>>
        /\ \/ file' = Absent /\ spoiled' = spoiled
           \/ spoiled' = TRUE /\ file' = file
    BY <1>8 DEF Remove, FailsStart
  <2>2. p \in Writing /\ file \in Damaged
    BY <2>1, <1>t DEF Knows, Writing
  <2>3. Absent \notin Damaged /\ file \notin ServerIDs
    BY <2>2, ContentsDiffer DEF Damaged
  <2> QED BY <2>1, <2>2, <2>3, <1>r, <1>t, FileWritten DEF IdTypeOK
<1>9. CASE CloseFile(p)
  <2>1. pc[p] = "close" /\ UNCHANGED <<file, drawn, spoiled>> /\ file = draw[p] /\ draw[p] \in ServerIDs
    BY <1>9, <1>t DEF CloseFile, Knows, IdTypeOK
  <2>2. CASE Adopts(p, draw[p])
    <3>1. Returns(p, "running") /\ adopted' = adopted \cup {file}
      BY <2>1, <2>2 DEF Adopts
    <3> QED BY <2>1, <3>1, <1>r, <1>t, FileStays DEF IdTypeOK
  <2>3. CASE FailsStart(p)
    <3>1. Returns(p, "idle") /\ UNCHANGED adopted
      BY <2>3 DEF FailsStart
    <3> QED BY <2>1, <3>1, <1>r, <1>t, FileStays DEF IdTypeOK
  <2> QED BY <1>9, <2>2, <2>3 DEF CloseFile
<1>10. CASE Dies(p)
  <2>1. /\ Returns(p, "idle") /\ UNCHANGED <<drawn, adopted>>
        /\ spoiled' = (spoiled \/ pc[p] \in {"write", "remove"})
    BY <1>10 DEF Dies
  <2>2. spoiled' \in BOOLEAN /\ (spoiled => spoiled') /\ (pc[p] \in {"write", "remove"} => spoiled')
    BY <2>1, <1>t DEF IdTypeOK
  <2>3. CASE pc[p] = "write"
    <3>1. p \in Writing /\ file = Empty /\ file' \in Damaged
      BY <1>10, <2>3, <1>t DEF Dies, Knows, Writing
    <3> QED BY <2>1, <2>2, <2>3, <3>1, <1>r, <1>t, FileWritten, ContentsDiffer DEF IdTypeOK
  <2>4. CASE pc[p] # "write"
    <3>1. UNCHANGED file
      BY <1>10, <2>4 DEF Dies
    <3> QED BY <2>1, <2>2, <3>1, <1>r, <1>t, FileStays DEF IdTypeOK
  <2> QED BY <2>3, <2>4
<1> QED BY <1>1, <1>2, <1>3, <1>4, <1>5, <1>6, <1>7, <1>8, <1>9, <1>10 DEF IdStep, Loading

LEMMA IdentityInvariant == IdSpec => []IdentityInv
<1>1. IdentityInv /\ [IdNext]_idVars => IdentityInv'
  <2> SUFFICES ASSUME IdentityInv, [IdNext]_idVars PROVE IdentityInv'  OBVIOUS
  <2>1. CASE IdNext
    BY <2>1, IdentityStep DEF IdNext
  <2>2. CASE UNCHANGED idVars
    BY <2>2 DEF idVars, IdentityInv, IdTypeOK, FileDrawn, Knows, OneWriter, IdentityKept, Writing
  <2> QED BY <2>1, <2>2
<1> QED BY IdentityInit, <1>1, PTL DEF IdSpec

-----------------------------------------------------------------------------
\* The variables of loadOrCreateServerID keep their types, and an identity
\* that a process uses is always one that a process has drawn.
THEOREM IdentityTypes == IdSpec => []IdTypeOK
<1>1. IdentityInv => IdTypeOK
  BY DEF IdentityInv
<1> QED BY IdentityInvariant, <1>1, PTL

\* loadOrCreateServerID: whatever the number of processes that start, fail and
\* die, an identity that one of them used stays in the file, and the file is
\* left unreadable only by a process that died over it or could not remove it.
THEOREM IdentityIsKept == IdSpec => []IdentityKept
<1>1. IdentityInv => IdentityKept
  BY DEF IdentityInv
<1> QED BY IdentityInvariant, <1>1, PTL


-----------------------------------------------------------------------------
(* The inductive invariant of PeripheralServer.                            *)

\* Only Windows advertises by the service itself and restarts that; a restart
\* meets a service that is gone only when the server has been closed.
NativeInv ==
    /\ native => windows /\ (service \/ revived)
    /\ revived => stage = "closed"
    /\ rpc # "none" => windows /\ stage \in {"serving", "closing", "stopped", "closed"}
    /\ windows /\ (central \/ event) => stage \in {"added", "serving", "closing", "stopped", "closed"}
    /\ stage = "advertise" => ~ windows

\* What is registered and on the air at each stage.
StageInv ==
    /\ stage \in {"enable", "add", "aborted", "failedOnce", "failed", "closed"} => ~ service
    /\ stage \in {"added", "advertise", "serving", "closing", "stopped"} => service
    /\ stage # "serving" /\ stage # "closing" => ~ advert

\* Until the server ends, somebody has every open connection.
OpenInv == ~ done /\ stage # "failed" => open \subseteq accepted \cup offered \cup {queued}

PInv == PTypeOK /\ NativeInv /\ StageInv /\ OpenInv

\* The types in three parts: counters, marks and connections.
Counters ==
    /\ attempt \in 1..Attempts /\ visits \in 0..MaxVisits /\ tries \in 0..Tries

Marks ==
    /\ windows \in BOOLEAN /\ recovers \in BOOLEAN
    /\ stage \in {"enable", "add", "added", "advertise", "serving", "aborted", "failedOnce",
                  "failed", "closing", "stopped", "closed"}
    /\ radioTried \in BOOLEAN /\ servicesTried \in BOOLEAN /\ ctxDone \in BOOLEAN /\ done \in BOOLEAN
    /\ service \in BOOLEAN /\ native \in BOOLEAN /\ advert \in BOOLEAN
    /\ central \in BOOLEAN /\ event \in BOOLEAN /\ restarting \in BOOLEAN
    /\ rpc \in {"none", "wait", "try", "found", "stopped", "started", "ends"}
    /\ gaveUp \in BOOLEAN /\ missed \in BOOLEAN /\ revived \in BOOLEAN

Connections ==
    /\ {current, queued} \subseteq Conns \cup {NoConn}
    /\ open \subseteq Conns /\ accepted \subseteq Conns /\ offered \subseteq Conns

LEMMA TypeParts == (PTypeOK <=> Counters /\ Marks /\ Connections)
BY DEF PTypeOK, Counters, Marks, Connections

LEMMA TypePartsNext == (PTypeOK' <=> Counters' /\ Marks' /\ Connections')
BY DEF PTypeOK, Counters, Marks, Connections

LEMMA PInvHolds == PInv => Accounted
BY DEF PInv, NativeInv, StageInv, OpenInv, Accounted

LEMMA PInvInit == PInit => PInv
<1> SUFFICES ASSUME PInit PROVE PInv  OBVIOUS
<1>1. PTypeOK
  <2>1. Counters
    BY PeripheralAssumption DEF PInit, Counters
  <2>2. Marks
    BY DEF PInit, Marks
  <2>3. Connections
    BY DEF PInit, Connections
  <2> QED BY <2>1, <2>2, <2>3, TypeParts
<1>2. NativeInv /\ StageInv /\ OpenInv
  BY DEF PInit, NativeInv, StageInv, OpenInv
<1> QED BY <1>1, <1>2 DEF PInv

-----------------------------------------------------------------------------
(* The steps, by the part of the server that takes them.                   *)

\* The start, its failures and its recoveries.
LEMMA StartStep ==
    ASSUME PInv, Start
    PROVE  PInv'
<1> Counters /\ Marks /\ Connections /\ NativeInv /\ StageInv /\ OpenInv
  BY TypeParts DEF PInv
<1> USE DEF kind, start, radio, visit, restart, packets
<1>1. CASE Enabled
  <2>1. PTypeOK'
    <3>1. Counters'
      BY <1>1, PeripheralAssumption DEF Enabled, Counters
    <3>2. Marks'
      BY <1>1 DEF Enabled, Marks
    <3>3. Connections'
      BY <1>1 DEF Enabled, Connections
    <3> QED BY <3>1, <3>2, <3>3, TypePartsNext
  <2>2. NativeInv'
    BY <1>1 DEF Enabled, Marks, NativeInv, StageInv
  <2>3. StageInv'
    BY <1>1 DEF Enabled, Marks, NativeInv, StageInv
  <2>4. OpenInv'
    BY <1>1, PeripheralAssumption DEF Enabled, Connections, StageInv, OpenInv
  <2> QED BY <2>1, <2>2, <2>3, <2>4 DEF PInv
<1>2. CASE EnableFails
  <2>1. PTypeOK'
    <3>1. Counters'
      BY <1>2, PeripheralAssumption DEF EnableFails, Fails, Counters
    <3>2. Marks'
      BY <1>2 DEF EnableFails, Fails, Marks
    <3>3. Connections'
      BY <1>2 DEF EnableFails, Fails, Connections
    <3> QED BY <3>1, <3>2, <3>3, TypePartsNext
  <2>2. NativeInv'
    BY <1>2 DEF EnableFails, Fails, Marks, NativeInv, StageInv
  <2>3. StageInv'
    BY <1>2 DEF EnableFails, Fails, Marks, NativeInv, StageInv
  <2>4. OpenInv'
    BY <1>2, PeripheralAssumption DEF EnableFails, Fails, Connections, StageInv, OpenInv
  <2> QED BY <2>1, <2>2, <2>3, <2>4 DEF PInv
<1>3. CASE AddService
  <2>1. PTypeOK'
    <3>1. Counters'
      BY <1>3, PeripheralAssumption DEF AddService, Counters
    <3>2. Marks'
      BY <1>3 DEF AddService, Marks
    <3>3. Connections'
      BY <1>3 DEF AddService, Connections
    <3> QED BY <3>1, <3>2, <3>3, TypePartsNext
  <2>2. NativeInv'
    BY <1>3 DEF AddService, Marks, NativeInv, StageInv
  <2>3. StageInv'
    BY <1>3 DEF AddService, Marks, NativeInv, StageInv
  <2>4. OpenInv'
    BY <1>3, PeripheralAssumption DEF AddService, Connections, StageInv, OpenInv
  <2> QED BY <2>1, <2>2, <2>3, <2>4 DEF PInv
<1>4. CASE AddServiceFails
  <2>1. PTypeOK'
    <3>1. Counters'
      BY <1>4, PeripheralAssumption DEF AddServiceFails, Fails, Counters
    <3>2. Marks'
      BY <1>4 DEF AddServiceFails, Fails, Marks
    <3>3. Connections'
      BY <1>4 DEF AddServiceFails, Fails, Connections
    <3> QED BY <3>1, <3>2, <3>3, TypePartsNext
  <2>2. NativeInv'
    BY <1>4 DEF AddServiceFails, Fails, Marks, NativeInv, StageInv
  <2>3. StageInv'
    BY <1>4 DEF AddServiceFails, Fails, Marks, NativeInv, StageInv
  <2>4. OpenInv'
    BY <1>4, PeripheralAssumption DEF AddServiceFails, Fails, Connections, StageInv, OpenInv
  <2> QED BY <2>1, <2>2, <2>3, <2>4 DEF PInv
<1>5. CASE Added
  <2>1. PTypeOK'
    <3>1. Counters'
      BY <1>5, PeripheralAssumption DEF Added, Serves, Counters
    <3>2. Marks'
      <4>1. recovers' \in BOOLEAN /\ radioTried' \in BOOLEAN /\ servicesTried' \in BOOLEAN
        BY <1>5, Zenon DEF Added, Serves, Marks
      <4> QED BY <1>5, <4>1 DEF Added, Serves, Marks
    <3>3. Connections'
      BY <1>5 DEF Added, Serves, Connections
    <3> QED BY <3>1, <3>2, <3>3, TypePartsNext
  <2>2. NativeInv'
    BY <1>5 DEF Added, Serves, Marks, NativeInv, StageInv
  <2>3. StageInv'
    BY <1>5 DEF Added, Serves, Marks, NativeInv, StageInv
  <2>4. OpenInv'
    BY <1>5, PeripheralAssumption DEF Added, Serves, Connections, StageInv, OpenInv
  <2> QED BY <2>1, <2>2, <2>3, <2>4 DEF PInv
<1>6. CASE Advertise
  <2>1. PTypeOK'
    <3>1. Counters'
      BY <1>6, PeripheralAssumption DEF Advertise, Serves, Counters
    <3>2. Marks'
      <4>1. recovers' \in BOOLEAN /\ radioTried' \in BOOLEAN /\ servicesTried' \in BOOLEAN /\ advert' \in BOOLEAN
        BY <1>6, Zenon DEF Advertise, Serves, Marks
      <4> QED BY <1>6, <4>1 DEF Advertise, Serves, Marks
    <3>3. Connections'
      BY <1>6 DEF Advertise, Serves, Connections
    <3> QED BY <3>1, <3>2, <3>3, TypePartsNext
  <2>2. NativeInv'
    BY <1>6 DEF Advertise, Serves, Marks, NativeInv, StageInv
  <2>3. StageInv'
    BY <1>6 DEF Advertise, Serves, Marks, NativeInv, StageInv
  <2>4. OpenInv'
    BY <1>6, PeripheralAssumption DEF Advertise, Serves, Connections, StageInv, OpenInv
  <2> QED BY <2>1, <2>2, <2>3, <2>4 DEF PInv
<1>7. CASE AdvertiseFails
  <2>1. PTypeOK'
    <3>1. Counters'
      BY <1>7, PeripheralAssumption DEF AdvertiseFails, Fails, Counters
    <3>2. Marks'
      <4>1. advert' \in BOOLEAN /\ service' \in BOOLEAN
        BY <1>7, Zenon DEF AdvertiseFails, Fails, Marks
      <4> QED BY <1>7, <4>1 DEF AdvertiseFails, Fails, Marks
    <3>3. Connections'
      BY <1>7 DEF AdvertiseFails, Fails, Connections
    <3> QED BY <3>1, <3>2, <3>3, TypePartsNext
  <2>2. NativeInv'
    BY <1>7 DEF AdvertiseFails, Fails, Marks, NativeInv, StageInv
  <2>3. StageInv'
    BY <1>7 DEF AdvertiseFails, Fails, Marks, NativeInv, StageInv
  <2>4. OpenInv'
    BY <1>7, PeripheralAssumption DEF AdvertiseFails, Fails, Connections, StageInv, OpenInv
  <2> QED BY <2>1, <2>2, <2>3, <2>4 DEF PInv
<1>8. CASE Recover
  <2>1. PTypeOK'
    <3>1. Counters'
      BY <1>8, PeripheralAssumption DEF Recover, NextAttempt, Counters
    <3>2. Marks'
      BY <1>8 DEF Recover, NextAttempt, Marks
    <3>3. Connections'
      BY <1>8 DEF Recover, NextAttempt, Connections
    <3> QED BY <3>1, <3>2, <3>3, TypePartsNext
  <2>2. NativeInv'
    BY <1>8 DEF Recover, NextAttempt, Marks, NativeInv, StageInv
  <2>3. StageInv'
    BY <1>8 DEF Recover, NextAttempt, Marks, NativeInv, StageInv
  <2>4. OpenInv'
    BY <1>8, PeripheralAssumption DEF Recover, NextAttempt, Connections, StageInv, OpenInv
  <2> QED BY <2>1, <2>2, <2>3, <2>4 DEF PInv
<1>9. CASE NoRecovery
  <2>1. PTypeOK'
    <3>1. Counters'
      BY <1>9, PeripheralAssumption DEF NoRecovery, Counters
    <3>2. Marks'
      BY <1>9 DEF NoRecovery, Marks
    <3>3. Connections'
      BY <1>9 DEF NoRecovery, Connections
    <3> QED BY <3>1, <3>2, <3>3, TypePartsNext
  <2>2. NativeInv'
    BY <1>9 DEF NoRecovery, Marks, NativeInv, StageInv
  <2>3. StageInv'
    BY <1>9 DEF NoRecovery, Marks, NativeInv, StageInv
  <2>4. OpenInv'
    BY <1>9, PeripheralAssumption DEF NoRecovery, Connections, StageInv, OpenInv
  <2> QED BY <2>1, <2>2, <2>3, <2>4 DEF PInv
<1>10. CASE Backoff
  <2>1. PTypeOK'
    <3>1. Counters'
      BY <1>10, PeripheralAssumption DEF Backoff, NextAttempt, Counters
    <3>2. Marks'
      BY <1>10 DEF Backoff, NextAttempt, Marks
    <3>3. Connections'
      BY <1>10 DEF Backoff, NextAttempt, Connections
    <3> QED BY <3>1, <3>2, <3>3, TypePartsNext
  <2>2. NativeInv'
    BY <1>10 DEF Backoff, NextAttempt, Marks, NativeInv, StageInv
  <2>3. StageInv'
    BY <1>10 DEF Backoff, NextAttempt, Marks, NativeInv, StageInv
  <2>4. OpenInv'
    BY <1>10, PeripheralAssumption DEF Backoff, NextAttempt, Connections, StageInv, OpenInv
  <2> QED BY <2>1, <2>2, <2>3, <2>4 DEF PInv
<1> QED BY <1>1, <1>2, <1>3, <1>4, <1>5, <1>6, <1>7, <1>8, <1>9, <1>10 DEF Start

\* The restart of the advertisement.
LEMMA RestartStep ==
    ASSUME PInv, Restart
    PROVE  PInv'
<1> Counters /\ Marks /\ Connections /\ NativeInv /\ StageInv /\ OpenInv
  BY TypeParts DEF PInv
<1> USE DEF kind, start, radio, visit, restart, packets
<1>1. CASE Wait
  <2>1. PTypeOK'
    <3>1. Counters'
      BY <1>1, PeripheralAssumption DEF Wait, Counters
    <3>2. Marks'
      BY <1>1 DEF Wait, Marks
    <3>3. Connections'
      BY <1>1 DEF Wait, Connections
    <3> QED BY <3>1, <3>2, <3>3, TypePartsNext
  <2>2. NativeInv'
    BY <1>1 DEF Wait, Marks, NativeInv, StageInv
  <2>3. StageInv'
    BY <1>1 DEF Wait, Marks, NativeInv, StageInv
  <2>4. OpenInv'
    BY <1>1, PeripheralAssumption DEF Wait, Connections, StageInv, OpenInv
  <2> QED BY <2>1, <2>2, <2>3, <2>4 DEF PInv
<1>2. CASE RestartWorks
  <2>1. PTypeOK'
    <3>1. Counters'
      BY <1>2, PeripheralAssumption DEF RestartWorks, Counters
    <3>2. Marks'
      BY <1>2 DEF RestartWorks, Marks
    <3>3. Connections'
      BY <1>2 DEF RestartWorks, Connections
    <3> QED BY <3>1, <3>2, <3>3, TypePartsNext
  <2>2. NativeInv'
    BY <1>2 DEF RestartWorks, Marks, NativeInv, StageInv
  <2>3. StageInv'
    BY <1>2 DEF RestartWorks, Marks, NativeInv, StageInv
  <2>4. OpenInv'
    BY <1>2, PeripheralAssumption DEF RestartWorks, Connections, StageInv, OpenInv
  <2> QED BY <2>1, <2>2, <2>3, <2>4 DEF PInv
<1>3. CASE RestartFails
  <2>1. PTypeOK'
    <3>1. Counters'
      BY <1>3, PeripheralAssumption DEF RestartFails, Counters
    <3>2. Marks'
      <4>1. native' \in BOOLEAN /\ gaveUp' \in BOOLEAN
        BY <1>3, Zenon DEF RestartFails, Marks
      <4> QED BY <1>3, <4>1 DEF RestartFails, Marks
    <3>3. Connections'
      BY <1>3 DEF RestartFails, Connections
    <3> QED BY <3>1, <3>2, <3>3, TypePartsNext
  <2>2. NativeInv'
    <3>1. native' => native
      BY <1>3, Zenon DEF RestartFails, Marks
    <3> QED BY <1>3, <3>1 DEF RestartFails, Marks, NativeInv
  <2>3. StageInv'
    BY <1>3 DEF RestartFails, Marks, NativeInv, StageInv
  <2>4. OpenInv'
    BY <1>3, PeripheralAssumption DEF RestartFails, Connections, StageInv, OpenInv
  <2> QED BY <2>1, <2>2, <2>3, <2>4 DEF PInv
<1>4. CASE RestartEnds
  <2>1. PTypeOK'
    <3>1. Counters'
      BY <1>4, PeripheralAssumption DEF RestartEnds, Counters
    <3>2. Marks'
      <4>1. restarting' \in BOOLEAN
        BY <1>4, Zenon DEF RestartEnds, Marks
      <4> QED BY <1>4, <4>1 DEF RestartEnds, Marks
    <3>3. Connections'
      BY <1>4 DEF RestartEnds, Connections
    <3> QED BY <3>1, <3>2, <3>3, TypePartsNext
  <2>2. NativeInv'
    BY <1>4 DEF RestartEnds, Marks, NativeInv, StageInv
  <2>3. StageInv'
    BY <1>4 DEF RestartEnds, Marks, NativeInv, StageInv
  <2>4. OpenInv'
    BY <1>4, PeripheralAssumption DEF RestartEnds, Connections, StageInv, OpenInv
  <2> QED BY <2>1, <2>2, <2>3, <2>4 DEF PInv
<1>5. CASE RestartLooksUp
  <2>1. PTypeOK'
    <3>1. Counters'
      BY <1>5, PeripheralAssumption DEF RestartLooksUp, Counters
    <3>2. Marks'
      BY <1>5 DEF RestartLooksUp, Marks
    <3>3. Connections'
      BY <1>5 DEF RestartLooksUp, Connections
    <3> QED BY <3>1, <3>2, <3>3, TypePartsNext
  <2>2. NativeInv'
    BY <1>5 DEF RestartLooksUp, Marks, NativeInv, StageInv
  <2>3. StageInv'
    BY <1>5 DEF RestartLooksUp, Marks, NativeInv, StageInv
  <2>4. OpenInv'
    BY <1>5, PeripheralAssumption DEF RestartLooksUp, Connections, StageInv, OpenInv
  <2> QED BY <2>1, <2>2, <2>3, <2>4 DEF PInv
<1>6. CASE RestartStops
  <2>1. PTypeOK'
    <3>1. Counters'
      BY <1>6, PeripheralAssumption DEF RestartStops, Counters
    <3>2. Marks'
      <4>1. native' \in BOOLEAN
        BY <1>6, Zenon DEF RestartStops, Marks
      <4> QED BY <1>6, <4>1 DEF RestartStops, Marks
    <3>3. Connections'
      BY <1>6 DEF RestartStops, Connections
    <3> QED BY <3>1, <3>2, <3>3, TypePartsNext
  <2>2. NativeInv'
    BY <1>6 DEF RestartStops, Marks, NativeInv, StageInv
  <2>3. StageInv'
    BY <1>6 DEF RestartStops, Marks, NativeInv, StageInv
  <2>4. OpenInv'
    BY <1>6, PeripheralAssumption DEF RestartStops, Connections, StageInv, OpenInv
  <2> QED BY <2>1, <2>2, <2>3, <2>4 DEF PInv
<1>7. CASE RestartStarts
  <2>1. PTypeOK'
    <3>1. Counters'
      BY <1>7, PeripheralAssumption DEF RestartStarts, Counters
    <3>2. Marks'
      <4>1. native' \in BOOLEAN /\ revived' \in BOOLEAN
        BY <1>7, Zenon DEF RestartStarts, Marks
      <4> QED BY <1>7, <4>1 DEF RestartStarts, Marks
    <3>3. Connections'
      BY <1>7 DEF RestartStarts, Connections
    <3> QED BY <3>1, <3>2, <3>3, TypePartsNext
  <2>2. NativeInv'
    BY <1>7 DEF RestartStarts, Marks, NativeInv, StageInv
  <2>3. StageInv'
    BY <1>7 DEF RestartStarts, Marks, NativeInv, StageInv
  <2>4. OpenInv'
    BY <1>7, PeripheralAssumption DEF RestartStarts, Connections, StageInv, OpenInv
  <2> QED BY <2>1, <2>2, <2>3, <2>4 DEF PInv
<1> QED BY <1>1, <1>2, <1>3, <1>4, <1>5, <1>6, <1>7 DEF Restart

\* The end of the server.
LEMMA CloseStep ==
    ASSUME PInv, Close
    PROVE  PInv'
<1> Counters /\ Marks /\ Connections /\ NativeInv /\ StageInv /\ OpenInv
  BY TypeParts DEF PInv
<1> USE DEF kind, start, radio, visit, restart, packets
<1>1. CASE CloseBegins
  <2>1. PTypeOK'
    <3>1. Counters'
      BY <1>1, PeripheralAssumption DEF CloseBegins, CloseCurrent, Counters
    <3>2. Marks'
      BY <1>1 DEF CloseBegins, CloseCurrent, Marks
    <3>3. Connections'
      BY <1>1 DEF CloseBegins, CloseCurrent, Connections
    <3> QED BY <3>1, <3>2, <3>3, TypePartsNext
  <2>2. NativeInv'
    BY <1>1 DEF CloseBegins, CloseCurrent, Marks, NativeInv, StageInv
  <2>3. StageInv'
    BY <1>1 DEF CloseBegins, CloseCurrent, Marks, NativeInv, StageInv
  <2>4. OpenInv'
    BY <1>1, PeripheralAssumption DEF CloseBegins, CloseCurrent, Connections, StageInv, OpenInv
  <2> QED BY <2>1, <2>2, <2>3, <2>4 DEF PInv
<1>2. CASE CloseStops
  <2>1. PTypeOK'
    <3>1. Counters'
      BY <1>2, PeripheralAssumption DEF CloseStops, Counters
    <3>2. Marks'
      <4>1. advert' \in BOOLEAN
        BY <1>2, Zenon DEF CloseStops, Marks
      <4> QED BY <1>2, <4>1 DEF CloseStops, Marks
    <3>3. Connections'
      BY <1>2 DEF CloseStops, Connections
    <3> QED BY <3>1, <3>2, <3>3, TypePartsNext
  <2>2. NativeInv'
    BY <1>2 DEF CloseStops, Marks, NativeInv, StageInv
  <2>3. StageInv'
    BY <1>2 DEF CloseStops, Marks, NativeInv, StageInv
  <2>4. OpenInv'
    BY <1>2, PeripheralAssumption DEF CloseStops, Connections, StageInv, OpenInv
  <2> QED BY <2>1, <2>2, <2>3, <2>4 DEF PInv
<1>3. CASE CloseRemoves
  <2>1. PTypeOK'
    <3>1. Counters'
      BY <1>3, PeripheralAssumption DEF CloseRemoves, Counters
    <3>2. Marks'
      <4>1. service' \in BOOLEAN /\ native' \in BOOLEAN
        BY <1>3, Zenon DEF CloseRemoves, Marks
      <4> QED BY <1>3, <4>1 DEF CloseRemoves, Marks
    <3>3. Connections'
      BY <1>3 DEF CloseRemoves, Connections
    <3> QED BY <3>1, <3>2, <3>3, TypePartsNext
  <2>2. NativeInv'
    BY <1>3 DEF CloseRemoves, Marks, NativeInv, StageInv
  <2>3. StageInv'
    BY <1>3 DEF CloseRemoves, Marks, NativeInv, StageInv
  <2>4. OpenInv'
    BY <1>3, PeripheralAssumption DEF CloseRemoves, Connections, StageInv, OpenInv
  <2> QED BY <2>1, <2>2, <2>3, <2>4 DEF PInv
<1> QED BY <1>1, <1>2, <1>3 DEF Close

\* Connections, centrals and their events.
LEMMA PacketStep ==
    ASSUME PInv, 
           Cancel \/ Disconnected \/ Accept \/ Arrives \/ Leaves \/ ensureConnection
           \/ \E k \in Conns : Offer(k) \/ CloseConn(k)
    PROVE  PInv'
<1> Counters /\ Marks /\ Connections /\ NativeInv /\ StageInv /\ OpenInv
  BY TypeParts DEF PInv
<1> USE DEF kind, start, radio, visit, restart, packets
<1>1. CASE Cancel
  <2>1. PTypeOK'
    <3>1. Counters'
      BY <1>1, PeripheralAssumption DEF Cancel, Counters
    <3>2. Marks'
      BY <1>1 DEF Cancel, Marks
    <3>3. Connections'
      BY <1>1 DEF Cancel, Connections
    <3> QED BY <3>1, <3>2, <3>3, TypePartsNext
  <2>2. NativeInv'
    BY <1>1 DEF Cancel, Marks, NativeInv, StageInv
  <2>3. StageInv'
    BY <1>1 DEF Cancel, Marks, NativeInv, StageInv
  <2>4. OpenInv'
    BY <1>1, PeripheralAssumption DEF Cancel, Connections, StageInv, OpenInv
  <2> QED BY <2>1, <2>2, <2>3, <2>4 DEF PInv
<1>2. CASE Disconnected
  <2>1. PTypeOK'
    <3>1. Counters'
      BY <1>2, PeripheralAssumption DEF Disconnected, CloseCurrent, Schedule, Counters
    <3>2. Marks'
      <4>1. event' \in BOOLEAN /\ restarting' \in BOOLEAN /\ missed' \in BOOLEAN /\ gaveUp' \in BOOLEAN
        BY <1>2, Zenon DEF Disconnected, CloseCurrent, Schedule, Marks
      <4> QED BY <1>2, <4>1 DEF Disconnected, CloseCurrent, Schedule, Marks
    <3>3. Connections'
      BY <1>2 DEF Disconnected, CloseCurrent, Schedule, Connections
    <3> QED BY <3>1, <3>2, <3>3, TypePartsNext
  <2>2. NativeInv'
    BY <1>2 DEF Disconnected, CloseCurrent, Schedule, Marks, NativeInv, StageInv
  <2>3. StageInv'
    BY <1>2 DEF Disconnected, CloseCurrent, Schedule, Marks, NativeInv, StageInv
  <2>4. OpenInv'
    BY <1>2, PeripheralAssumption DEF Disconnected, CloseCurrent, Schedule, Connections, StageInv, OpenInv
  <2> QED BY <2>1, <2>2, <2>3, <2>4 DEF PInv
<1>3. CASE \E k \in Conns : Offer(k)
  <2>1. PTypeOK'
    <3>1. Counters'
      BY <1>3, PeripheralAssumption DEF Offer, Counters
    <3>2. Marks'
      BY <1>3 DEF Offer, Marks
    <3>3. Connections'
      BY <1>3 DEF Offer, Connections
    <3> QED BY <3>1, <3>2, <3>3, TypePartsNext
  <2>2. NativeInv'
    BY <1>3 DEF Offer, Marks, NativeInv, StageInv
  <2>3. StageInv'
    BY <1>3 DEF Offer, Marks, NativeInv, StageInv
  <2>4. OpenInv'
    BY <1>3, PeripheralAssumption DEF Offer, Connections, StageInv, OpenInv
  <2> QED BY <2>1, <2>2, <2>3, <2>4 DEF PInv
<1>4. CASE Accept
  <2>1. PTypeOK'
    <3>1. Counters'
      BY <1>4, PeripheralAssumption DEF Accept, Counters
    <3>2. Marks'
      BY <1>4 DEF Accept, Marks
    <3>3. Connections'
      BY <1>4 DEF Accept, Connections
    <3> QED BY <3>1, <3>2, <3>3, TypePartsNext
  <2>2. NativeInv'
    BY <1>4 DEF Accept, Marks, NativeInv, StageInv
  <2>3. StageInv'
    BY <1>4 DEF Accept, Marks, NativeInv, StageInv
  <2>4. OpenInv'
    BY <1>4, PeripheralAssumption DEF Accept, Connections, StageInv, OpenInv
  <2> QED BY <2>1, <2>2, <2>3, <2>4 DEF PInv
<1>5. CASE Arrives
  <2>1. PTypeOK'
    <3>1. Counters'
      BY <1>5, PeripheralAssumption DEF Arrives, Counters
    <3>2. Marks'
      BY <1>5 DEF Arrives, Marks
    <3>3. Connections'
      BY <1>5 DEF Arrives, Connections
    <3> QED BY <3>1, <3>2, <3>3, TypePartsNext
  <2>2. NativeInv'
    BY <1>5 DEF Arrives, Marks, NativeInv, StageInv
  <2>3. StageInv'
    BY <1>5 DEF Arrives, Marks, NativeInv, StageInv
  <2>4. OpenInv'
    BY <1>5, PeripheralAssumption DEF Arrives, Connections, StageInv, OpenInv
  <2> QED BY <2>1, <2>2, <2>3, <2>4 DEF PInv
<1>6. CASE Leaves
  <2>1. PTypeOK'
    <3>1. Counters'
      BY <1>6, PeripheralAssumption DEF Leaves, Counters
    <3>2. Marks'
      <4>1. central' \in BOOLEAN /\ event' \in BOOLEAN /\ native' \in BOOLEAN /\ gaveUp' \in BOOLEAN /\ missed' \in BOOLEAN
        BY <1>6, Zenon DEF Leaves, Marks
      <4> QED BY <1>6, <4>1 DEF Leaves, Marks
    <3>3. Connections'
      BY <1>6 DEF Leaves, Connections
    <3> QED BY <3>1, <3>2, <3>3, TypePartsNext
  <2>2. NativeInv'
    <3>1. native' => native
      BY <1>6, Zenon DEF Leaves, Marks
    <3> QED BY <1>6, <3>1 DEF Leaves, Marks, NativeInv
  <2>3. StageInv'
    BY <1>6 DEF Leaves, Marks, NativeInv, StageInv
  <2>4. OpenInv'
    BY <1>6, PeripheralAssumption DEF Leaves, Connections, StageInv, OpenInv
  <2> QED BY <2>1, <2>2, <2>3, <2>4 DEF PInv
<1>7. CASE ensureConnection
  <2>1. PTypeOK'
    <3>1. Counters'
      BY <1>7, PeripheralAssumption DEF ensureConnection, Spare, Counters
    <3>2. Marks'
      BY <1>7 DEF ensureConnection, Spare, Marks
    <3>3. Connections'
      BY <1>7 DEF ensureConnection, Spare, Connections
    <3> QED BY <3>1, <3>2, <3>3, TypePartsNext
  <2>2. NativeInv'
    BY <1>7 DEF ensureConnection, Spare, Marks, NativeInv, StageInv
  <2>3. StageInv'
    BY <1>7 DEF ensureConnection, Spare, Marks, NativeInv, StageInv
  <2>4. OpenInv'
    BY <1>7, PeripheralAssumption DEF ensureConnection, Spare, Connections, StageInv, OpenInv
  <2> QED BY <2>1, <2>2, <2>3, <2>4 DEF PInv
<1>8. CASE \E k \in Conns : CloseConn(k)
  <2>1. PTypeOK'
    <3>1. Counters'
      BY <1>8, PeripheralAssumption DEF CloseConn, Counters
    <3>2. Marks'
      BY <1>8 DEF CloseConn, Marks
    <3>3. Connections'
      BY <1>8 DEF CloseConn, Connections
    <3> QED BY <3>1, <3>2, <3>3, TypePartsNext
  <2>2. NativeInv'
    BY <1>8 DEF CloseConn, Marks, NativeInv, StageInv
  <2>3. StageInv'
    BY <1>8 DEF CloseConn, Marks, NativeInv, StageInv
  <2>4. OpenInv'
    BY <1>8, PeripheralAssumption DEF CloseConn, Connections, StageInv, OpenInv
  <2> QED BY <2>1, <2>2, <2>3, <2>4 DEF PInv
<1> QED BY <1>1, <1>2, <1>3, <1>4, <1>5, <1>6, <1>7, <1>8

LEMMA PInvStep == PInv /\ [PNext]_pVars => PInv'
<1> SUFFICES ASSUME PInv, [PNext]_pVars PROVE PInv'  OBVIOUS
<1>1. CASE PNext
  <2>1. CASE Start \/ Close \/ Restart
    BY <2>1, StartStep, CloseStep, RestartStep
  <2>2. CASE ~ (Start \/ Close \/ Restart)
    BY <1>1, <2>2, PacketStep DEF PNext
  <2> QED BY <2>1, <2>2
<1>2. CASE UNCHANGED pVars
  BY <1>2 DEF pVars, kind, start, radio, visit, restart, packets,
              PInv, PTypeOK, NativeInv, StageInv, OpenInv
<1> QED BY <1>1, <1>2

-----------------------------------------------------------------------------
(* The process as a whole.                                                 *)

\* The end of the process leaves its Bluetooth side as it was at the start.
LEMMA GoneKeeps == PInv /\ Gone => PInv'
<1> SUFFICES ASSUME PInv, Gone PROVE PInv'  OBVIOUS
<1>1. PTypeOK'
  <2>1. Counters'
    BY PeripheralAssumption DEF Gone, Counters
  <2>2. Marks'
    BY DEF PInv, PTypeOK, Gone, kind, Marks
  <2>3. Connections'
    BY DEF Gone, Connections
  <2> QED BY <2>1, <2>2, <2>3, TypePartsNext
<1>2. NativeInv' /\ StageInv' /\ OpenInv'
  BY DEF Gone, NativeInv, StageInv, OpenInv
<1> QED BY <1>1, <1>2 DEF PInv

LEMMA ProcessInit == Init => IdentityInv /\ PInv
BY IdentityInit, PInvInit DEF Init

LEMMA IdentityUnchanged == IdentityInv /\ UNCHANGED idVars => IdentityInv'
BY DEF idVars, IdentityInv, IdTypeOK, FileDrawn, Knows, OneWriter, IdentityKept, Writing

LEMMA ProcessStep == IdentityInv /\ PInv /\ [Next]_vars => IdentityInv' /\ PInv'
<1> SUFFICES ASSUME IdentityInv, PInv, [Next]_vars PROVE IdentityInv' /\ PInv'  OBVIOUS
<1>1. CASE Others
  BY <1>1, IdentityStep, PInvStep DEF Others
<1>2. CASE Loads
  BY <1>2, HostAssumption, IdentityStep, PInvStep DEF Loads, IdStep
<1>3. CASE Runs
  BY <1>3, IdentityUnchanged, PInvStep DEF Runs
<1>4. CASE Ends
  BY <1>4, HostAssumption, IdentityStep, GoneKeeps DEF Ends, IdStep
<1>5. CASE UNCHANGED vars
  BY <1>5, IdentityUnchanged, PInvStep DEF vars
<1> QED BY <1>1, <1>2, <1>3, <1>4, <1>5 DEF Next

LEMMA ProcessInvariant == Spec => [](IdentityInv /\ PInv)
BY ProcessInit, ProcessStep, PTL DEF Spec

\* The variables of the Bluetooth side keep their types: no more attempts and
\* tries than the code makes, and the queue and current hold connections.
THEOREM PeripheralTypes == PSpec => []PTypeOK
<1>1. PInv => PTypeOK
  BY DEF PInv
<1> QED BY PInvInit, PInvStep, <1>1, PTL DEF PSpec

\* The server's parts in one process among others, which ends and starts again
\* at any time: a start that failed or a server that was closed leaves nothing
\* registered or on the air, but for an advertisement that a restart with the
\* provider in hand brought back after Close; and no open connection is left
\* without an owner, whatever events, packets, restarts and Close do together.
THEOREM ServerAccounted == Spec => []Accounted
BY ProcessInvariant, PInvHolds, PTL

\* Whatever becomes of the Bluetooth side of the processes that use it, the
\* identity in the file is kept, as for loadOrCreateServerID alone.
THEOREM ServerKeepsIdentity == Spec => []IdentityKept
<1>1. IdentityInv => IdentityKept
  BY DEF IdentityInv
<1> QED BY ProcessInvariant, <1>1, PTL

\* As far as its file goes, a server process does only what loadOrCreateServerID
\* does: the composition implements the specification of its part.
THEOREM ProcessImplementsIdentity == Spec => IdSpec
<1>1. Init => IdInit
  BY DEF Init
<1>2. [Next]_vars => [IdNext]_idVars
  <2> SUFFICES ASSUME [Next]_vars PROVE [IdNext]_idVars  OBVIOUS
  <2>1. CASE Others
    BY <2>1 DEF Others, IdNext
  <2>2. CASE Loads
    BY <2>2, HostAssumption DEF Loads, IdNext, IdStep
  <2>3. CASE Runs
    BY <2>3 DEF Runs
  <2>4. CASE Ends
    BY <2>4, HostAssumption DEF Ends, IdNext, IdStep
  <2>5. CASE UNCHANGED vars
    BY <2>5 DEF vars
  <2> QED BY <2>1, <2>2, <2>3, <2>4, <2>5 DEF Next
<1> QED BY <1>1, <1>2, PTL DEF Spec, IdSpec
=============================================================================
