--------------------------- MODULE ServerIdentity ---------------------------
(***************************************************************************)
(* loadOrCreateServerID (src/internal/app/server_id.go): the file that     *)
(* keeps a server's identity, under processes that start at the same time, *)
(* fail, crash at any point and are started again. A step is one call to   *)
(* the file system. A write that fails leaves nothing, or too little to be *)
(* read as an identity.                                                    *)
(***************************************************************************)
CONSTANTS
    Procs,              \* processes that may run at a time
    ServerIDs,          \* what NewServerID may draw (bound: that many draws)
    NoServerID

ASSUME IdentityAssumption ==
    ServerIDs \cap {"absent", "empty", "torn", NoServerID} = {}

VARIABLES
    file,       \* Absent, Empty, Torn or the identity in the file
    pc,         \* where each process is
    draw,       \* the identity that each process has drawn
    drawn,      \* those drawn so far; no two draws are alike
    adopted,    \* history: the identities that processes came to use
    spoiled     \* history: a process died, or Remove failed, over an unfinished file

idVars == <<file, pc, draw, drawn, adopted, spoiled>>

Absent  == "absent"
Empty   == "empty"
Torn    == "torn"
Damaged == {Empty, Torn}

IdInit ==
    /\ file = Absent /\ pc = [p \in Procs |-> "idle"] /\ draw = [p \in Procs |-> NoServerID]
    /\ drawn = {} /\ adopted = {} /\ spoiled = FALSE

\* The processes that have the file open for writing or are about to remove it.
Writing == {p \in Procs : pc[p] \in {"write", "remove", "close"}}

Goes(p, where) == pc' = [pc EXCEPT ![p] = where]

\* The call returns an identity; or an error, and RunServer with it.
Returns(p, where) == Goes(p, where) /\ draw' = [draw EXCEPT ![p] = NoServerID]
Adopts(p, id) == Returns(p, "running") /\ adopted' = adopted \cup {id}
FailsStart(p) == Returns(p, "idle") /\ UNCHANGED adopted

Launch(p) ==
    /\ pc[p] = "idle" /\ Goes(p, "read")
    /\ UNCHANGED <<file, draw, drawn, adopted, spoiled>>

ReadFile(p) ==
    /\ pc[p] = "read"
    /\ CASE file \in ServerIDs -> Adopts(p, file)
         [] file \in Damaged   -> FailsStart(p)
         [] file = Absent      -> Goes(p, "draw") /\ UNCHANGED <<draw, adopted>>
    /\ UNCHANGED <<file, drawn, spoiled>>

\* ReadFile, MkdirAll, NewServerID or OpenFile returns another error.
CallFails(p) ==
    /\ pc[p] \in {"read", "draw", "create"} /\ FailsStart(p)
    /\ UNCHANGED <<file, drawn, spoiled>>

NewServerID(p) ==
    /\ pc[p] = "draw" /\ Goes(p, "create")
    /\ \E id \in ServerIDs \ drawn :
         drawn' = drawn \cup {id} /\ draw' = [draw EXCEPT ![p] = id]
    /\ UNCHANGED <<file, adopted, spoiled>>

\* Fault: the file is opened without O_EXCL and truncated.
CreateShared(p) ==
    /\ pc[p] = "create" /\ file' = Empty /\ Goes(p, "write")
    /\ UNCHANGED <<draw, drawn, adopted, spoiled>>

\* O_EXCL: the loser of a race starts over and reads the winner's file.
Create(p) ==
    /\ pc[p] = "create"
    /\ IF file = Absent THEN file' = Empty /\ Goes(p, "write")
                        ELSE Goes(p, "read") /\ UNCHANGED file
    /\ UNCHANGED <<draw, drawn, adopted, spoiled>>

WriteID(p) ==
    /\ pc[p] = "write" /\ file' = draw[p] /\ Goes(p, "close")
    /\ UNCHANGED <<draw, drawn, adopted, spoiled>>

WriteFails(p) ==
    /\ pc[p] = "write" /\ file' \in Damaged /\ Goes(p, "remove")
    /\ UNCHANGED <<draw, drawn, adopted, spoiled>>

Remove(p) ==
    /\ pc[p] = "remove" /\ FailsStart(p)
    /\ \/ file' = Absent /\ UNCHANGED spoiled
       \/ spoiled' = TRUE /\ UNCHANGED file
    /\ UNCHANGED drawn

\* An error of Close leaves a good file behind; the next start reads it.
CloseFile(p) ==
    /\ pc[p] = "close" /\ (Adopts(p, draw[p]) \/ FailsStart(p))
    /\ UNCHANGED <<file, drawn, spoiled>>

\* The process dies; what it was writing may be there in part.
Dies(p) ==
    /\ pc[p] # "idle" /\ Returns(p, "idle")
    /\ file' \in IF pc[p] = "write" THEN Damaged ELSE {file}
    /\ spoiled' = (spoiled \/ pc[p] \in {"write", "remove"})
    /\ UNCHANGED <<drawn, adopted>>

Loading(p) ==
    \/ Launch(p) \/ ReadFile(p) \/ CallFails(p) \/ NewServerID(p) \/ Create(p)
    \/ WriteID(p) \/ WriteFails(p) \/ Remove(p) \/ CloseFile(p)

IdStep(p) == Loading(p) \/ Dies(p)

IdNext == \E p \in Procs : IdStep(p)

IdSpec == IdInit /\ [][IdNext]_idVars

-----------------------------------------------------------------------------
IdTypeOK ==
    /\ file \in {Absent, Empty, Torn} \cup ServerIDs
    /\ pc \in [Procs -> {"idle", "read", "draw", "create", "write", "remove", "close", "running"}]
    /\ draw \in [Procs -> ServerIDs \cup {NoServerID}] /\ drawn \subseteq ServerIDs
    /\ adopted \subseteq drawn /\ spoiled \in BOOLEAN

\* A server's identity never changes: an identity that any process came to use
\* is in the file from then on, whoever else was creating, writing or removing
\* the file at that time or died there. And the file is never left unreadable,
\* which would keep every later process from starting, unless a process died
\* over it or could not remove it.
IdentityKept ==
    /\ \A i \in adopted : file = i
    /\ file \in Damaged /\ Writing = {} => spoiled
=============================================================================
