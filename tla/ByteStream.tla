----------------------------- MODULE ByteStream -----------------------------
(***************************************************************************)
(* What a resumable session promises for one direction of its stream       *)
(* (src/internal/link/session.go, Read and Write): the reader obtains the  *)
(* written bytes in order, each exactly once, and the writer forgets a     *)
(* byte only after the peer holds it, across any number of bindings.       *)
(***************************************************************************)
EXTENDS Integers, Sequences

VARIABLES
    written,    \* bytes Write has accepted
    accepted,   \* bytes the peer holds contiguously
    released,   \* bytes the writer no longer retains
    got         \* the bytes Read has returned

vars == <<written, accepted, released, got>>

Init == written = 0 /\ accepted = 0 /\ released = 0 /\ got = <<>>

Write ==
    /\ written' \in Nat /\ written' > written
    /\ UNCHANGED <<accepted, released, got>>

Accept ==
    /\ accepted' \in accepted..written
    /\ UNCHANGED <<written, released, got>>

Release ==
    /\ released' \in released..accepted
    /\ UNCHANGED <<written, accepted, got>>

\* Offsets name the bytes: the next byte to return is the one at Len(got).
Read ==
    /\ \E n \in Len(got)..accepted : got' = [i \in 1..n |-> i - 1]
    /\ UNCHANGED <<written, accepted, released>>

Next == Write \/ Accept \/ Release \/ Read

Spec == Init /\ [][Next]_vars
=============================================================================
