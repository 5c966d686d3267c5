-------------------------- MODULE HeartbeatProofs ---------------------------
(***************************************************************************)
(* Proofs about Heartbeat for any intervals and limits: the send lock's    *)
(* token is neither lost nor shared, a binding whose peer is heard from is *)
(* not given up, and one whose peer is silent is, in time.                 *)
(*                                                                         *)
(* The second needs to know how failures add up to silence: every failure  *)
(* counted stands for a response interval without a packet, and the probe  *)
(* that is out has had sinceSent ticks more (Unanswered); a probe that     *)
(* waits to be sent has waited in silence for its whole age unless a       *)
(* packet was heard (Unheard). The third counts silence from above, phase  *)
(* by phase of a probe (Watched).                                          *)
(***************************************************************************)
EXTENDS Heartbeat, TLAPS

\* The heartbeat loop still counts: the failure limit is not reached.
Counting == pc["ping"] \in {"wait", "lock", "write", "result"} => heartbeatFailures < Limit

Phase  == {"wait", "lock", "write", "result", "detach", "stopped"}
Result == {"none", "ok", "failed", "deadline", "closed"}

\* The type invariant of the senders, as the steps of a Send disturb it.
SendersOK ==
    /\ pc \in [Sender -> Phase] /\ err \in [Sender -> Result]
    /\ age \in [Sender -> Nat] /\ \A x \in Sender : age[x] <= Deadline(x)
    /\ token \in Sender \cup {"free"}

\* The type invariant of everything else.
CountersOK ==
    /\ bound \in BOOLEAN /\ open \in BOOLEAN
    /\ heartbeatPending \in BOOLEAN /\ heartbeatFailures \in 0..Limit
    /\ sinceSent \in 0..Interval /\ silence \in 0..MaxSilence
    /\ checked \in BOOLEAN /\ heard \in BOOLEAN /\ writing \in 0..MaxWrite

Inv == SendersOK /\ CountersOK /\ TokenKept /\ Counting

LEMMA Times ==
  /\ Response \in Nat /\ Interval \in Nat /\ Limit \in Nat /\ MaxWrite \in Nat /\ MaxSilence \in Nat
  /\ 0 < Response /\ Response <= Interval /\ 0 < Limit /\ Limit * Response <= MaxSilence
  /\ \A x \in Sender : Deadline(x) \in Nat /\ 0 < Deadline(x)
  BY HeartbeatAssumption DEF Deadline

LEMMA InitInv == Init => Inv
  <1> SUFFICES ASSUME Init PROVE Inv
    OBVIOUS
  <1>1. SendersOK
    BY Times DEF Init, SendersOK, Sender, Phase, Result
  <1>2. CountersOK
    <2>1. /\ heartbeatFailures \in 0..Limit /\ sinceSent \in 0..Interval
          /\ silence \in 0..MaxSilence /\ writing \in 0..MaxWrite
      BY Times DEF Init
    <2> QED  BY <2>1 DEF Init, CountersOK
  <1>3. TokenKept /\ Counting
    BY Times DEF Init, TokenKept, Waiting, Counting, Sender
  <1> QED  BY <1>1, <1>2, <1>3 DEF Inv

\* Send starts: the sender holds the token, or waits for one that is held.
LEMMA StartSendKeeps ==
  ASSUME SendersOK, TokenKept, NEW x \in Sender, pc[x] = "wait", StartSend(x)
  PROVE  SendersOK' /\ TokenKept'
  <1> USE DEF StartSend, Acquire, SendersOK
  <1>1. SendersOK'
    BY Times DEF Phase, Result
  <1>2. TokenKept'
    BY DEF TokenKept, Waiting, Sender
  <1> QED  BY <1>1, <1>2

\* Send returns without the token: it never had it, or gives it back.
LEMMA ReturnsKeeps ==
  ASSUME SendersOK, TokenKept, NEW x \in Sender, NEW e \in Result, Returns(x, e),
         \/ x \in Waiting /\ token' = token
         \/ pc[x] \in {"lock", "write"} /\ token = x /\ Unlock
  PROVE  SendersOK' /\ TokenKept'
  <1> USE DEF Returns, SendersOK
  <1>1. token' \in Sender \cup {"free"}
    BY DEF Unlock, Waiting
  <1>2. SendersOK'
    BY <1>1 DEF Phase, Result
  <1>3. pc' = [pc EXCEPT ![x] = "result"] /\ pc \in [Sender -> Phase]
    OBVIOUS
  <1>4. \A y \in Sender : pc'[y] = IF y = x THEN "result" ELSE pc[y]
    BY <1>3
  <1>5. CASE x \in Waiting /\ token' = token
    <2>1. token \in Sender /\ token # x
      BY <1>1, <1>5 DEF TokenKept, Waiting
    <2> QED  BY <1>2, <1>4, <1>5, <2>1 DEF TokenKept, Sender
  <1>6. CASE pc[x] \in {"lock", "write"} /\ token = x /\ Unlock
    <2>1. Waiting = {y \in Sender : y # x /\ pc[y] = "lock"}
      BY <1>6 DEF Waiting
    <2>2. \A y \in Sender : y # x => pc[y] # "write"
      BY <1>6 DEF TokenKept
    <2>3. CASE Waiting = {}
      <3>1. token' = "free" /\ token' \notin Sender
        BY <1>6, <2>3 DEF Unlock, Sender
      <3>2. Waiting' = {}
        BY <1>4, <2>1, <2>3 DEF Waiting
      <3> QED  BY <1>2, <1>4, <2>2, <3>1, <3>2 DEF TokenKept
    <2>4. CASE Waiting # {}
      <3>1. token' \in Sender /\ token' # x /\ pc[token'] = "lock" /\ token' # "free"
        BY <1>6, <2>1, <2>4 DEF Unlock, Sender
      <3> QED  BY <1>2, <1>4, <2>2, <3>1 DEF TokenKept
    <2> QED  BY <2>3, <2>4
  <1> QED  BY <1>5, <1>6

\* A step of one goroutine that touches neither its lock nor its token.
LEMMA MoveKeeps ==
  ASSUME SendersOK, TokenKept, NEW x \in Sender, pc[x] \notin {"lock", "write"},
         NEW p \in Phase \ {"lock", "write"}, pc' = [pc EXCEPT ![x] = p],
         UNCHANGED <<age, err, token>>
  PROVE  SendersOK' /\ TokenKept'
  BY DEF SendersOK, TokenKept, Waiting, Sender, Phase

-----------------------------------------------------------------------------
\* A Send that ends, one way or another.
LEMMA SendEndsInv ==
  ASSUME Inv, NEW x \in Sender, GiveUp(x) \/ LockedLate(x) \/ Written(x)
  PROVE  Inv'
  <1>1. SendersOK /\ CountersOK /\ TokenKept
    BY DEF Inv
  <1>2. PICK e \in Result : Returns(x, e)
    BY DEF GiveUp, LockedLate, Written, CancelError, Result
  <1>3. \/ x \in Waiting /\ token' = token
        \/ pc[x] \in {"lock", "write"} /\ token = x /\ Unlock
    BY <1>1 DEF GiveUp, LockedLate, Written, TokenKept
  <1>4. SendersOK' /\ TokenKept'
    BY <1>1, <1>2, <1>3, ReturnsKeeps
  <1>5. /\ UNCHANGED <<bound, heartbeatPending, heartbeatFailures, sinceSent, silence, checked, heard>>
        /\ pc' = [pc EXCEPT ![x] = "result"]
    BY <1>2 DEF Returns, state
  <1>6. open' \in BOOLEAN
    BY <1>1 DEF GiveUp, LockedLate, Written, CountersOK
  <1>7. writing' \in 0..MaxWrite
    <2>1. writing' \in {writing, 0}
      BY DEF GiveUp, LockedLate, Written
    <2> QED  BY <1>1, <2>1, Times DEF CountersOK
  <1>8. CountersOK'
    BY <1>1, <1>5, <1>6, <1>7 DEF CountersOK
  <1>9. Counting'
    BY <1>1, <1>3, <1>5 DEF Inv, Counting, Waiting, SendersOK
  <1> QED  BY <1>4, <1>8, <1>9 DEF Inv

\* A loop moves on without sending.
LEMMA MoveInv ==
  ASSUME Inv, NEW x \in Sender, failBinding(x) \/ Stop(x) \/ (x = "data" /\ SendResult)
  PROVE  Inv'
  <1>1. SendersOK /\ CountersOK /\ TokenKept
    BY DEF Inv
  <1>2. PICK p \in Phase \ {"lock", "write"} : pc' = [pc EXCEPT ![x] = p] /\ (x = "ping" => p = "stopped")
    BY DEF failBinding, Stop, SendResult, Phase
  <1>3. /\ UNCHANGED <<heartbeatPending, heartbeatFailures, sinceSent, silence, checked, heard,
                       age, err, token, writing>>
        /\ pc[x] \notin {"lock", "write"}
    BY DEF failBinding, Stop, SendResult, state
  <1>4. SendersOK' /\ TokenKept'
    BY <1>1, <1>2, <1>3, MoveKeeps
  <1>5. CountersOK'
    <2>1. bound' \in BOOLEAN /\ open' \in BOOLEAN
      BY <1>1 DEF failBinding, Stop, SendResult, conn, CountersOK
    <2> QED  BY <1>1, <1>3, <2>1 DEF CountersOK
  <1>6. Counting'
    BY <1>1, <1>2, <1>3 DEF Inv, Counting, SendersOK, Sender
  <1> QED  BY <1>4, <1>5, <1>6 DEF Inv

\* Packets and the end of the connection.
LEMMA ReceiveInv == ASSUME Inv, Receive \/ Disconnect \/ ReceiveClosed PROVE Inv'
  <1>1. SendersOK /\ CountersOK /\ TokenKept
    BY DEF Inv
  <1>2. UNCHANGED <<sinceSent, checked, pc, age, err, token, writing>>
    BY DEF Receive, Disconnect, ReceiveClosed, state
  <1>3. SendersOK' /\ TokenKept'
    BY <1>1, <1>2 DEF SendersOK, TokenKept, Waiting
  <1>4. heartbeatFailures' \in 0..Limit /\ silence' \in 0..MaxSilence /\ heartbeatFailures' <= heartbeatFailures
    BY <1>1, Times DEF Receive, Disconnect, ReceiveClosed, state, CountersOK
  <1>5. bound' \in BOOLEAN /\ open' \in BOOLEAN /\ heartbeatPending' \in BOOLEAN /\ heard' \in BOOLEAN
    BY <1>1 DEF Receive, Disconnect, ReceiveClosed, state, conn, CountersOK
  <1>6. CountersOK'
    BY <1>1, <1>2, <1>4, <1>5 DEF CountersOK
  <1>7. Counting'
    BY <1>1, <1>2, <1>4, Times DEF Inv, Counting, CountersOK
  <1> QED  BY <1>3, <1>6, <1>7 DEF Inv

LEMMA LockedInv == ASSUME Inv, NEW x \in Sender, Locked(x) PROVE Inv'
  <1>1. SendersOK /\ CountersOK /\ TokenKept
    BY DEF Inv
  <1>2. /\ UNCHANGED <<bound, open, heartbeatPending, heartbeatFailures, sinceSent, silence, checked,
                       age, err, heard, token>>
        /\ pc' = [pc EXCEPT ![x] = "write"] /\ pc[x] = "lock" /\ token = x
    BY DEF Locked, conn, state
  <1>3. SendersOK'
    BY <1>1, <1>2 DEF SendersOK, Phase
  <1>4. TokenKept'
    BY <1>1, <1>2 DEF SendersOK, TokenKept, Waiting, Sender
  <1>5. writing' \in 0..MaxWrite
    BY <1>1, Times DEF Locked, CountersOK
  <1>6. CountersOK'
    BY <1>1, <1>2, <1>5 DEF CountersOK
  <1>7. Counting'
    BY <1>1, <1>2 DEF Inv, Counting, SendersOK
  <1> QED  BY <1>3, <1>4, <1>6, <1>7 DEF Inv

LEMMA SendPacketInv == ASSUME Inv, SendPacket PROVE Inv'
  <1>1. SendersOK /\ CountersOK /\ TokenKept
    BY DEF Inv
  <1>2. /\ UNCHANGED <<bound, open, heartbeatPending, heartbeatFailures, sinceSent, silence, checked,
                       heard, writing>>
        /\ StartSend("data") /\ pc["data"] = "wait" /\ "data" \in Sender
    BY DEF SendPacket, conn, state, Sender
  <1>3. SendersOK' /\ TokenKept'
    BY <1>1, <1>2, StartSendKeeps
  <1>4. CountersOK'
    BY <1>1, <1>2 DEF CountersOK
  <1>5. pc'["ping"] = pc["ping"]
    BY <1>1, <1>2 DEF StartSend, SendersOK, Sender
  <1>6. Counting'
    BY <1>2, <1>5 DEF Inv, Counting
  <1> QED  BY <1>3, <1>4, <1>6 DEF Inv

\* heartbeatLoop at a tick: a failure is counted only below the limit, and the
\* one that reaches it ends the loop.
LEMMA CheckInv == ASSUME Inv, heartbeatCheck PROVE Inv'
  <1>1. SendersOK /\ CountersOK /\ TokenKept
    BY DEF Inv
  <1>2. /\ pc["ping"] = "wait" /\ "ping" \in Sender /\ heartbeatFailures < Limit
        /\ UNCHANGED <<bound, open, silence, writing>> /\ checked' = TRUE
        /\ heartbeatFailures' = IF Due THEN heartbeatFailures + 1 ELSE heartbeatFailures
    BY DEF heartbeatCheck, conn, Inv, Counting, Sender
  <1>3. heartbeatFailures' \in 0..Limit
    BY <1>1, <1>2, Times DEF CountersOK
  <1>4. CASE Probes
    <2>1. heartbeatPending' = TRUE /\ sinceSent' = 0 /\ heard' = FALSE /\ StartSend("ping")
      BY <1>4 DEF heartbeatCheck
    <2>2. SendersOK' /\ TokenKept'
      BY <1>1, <1>2, <2>1, StartSendKeeps
    <2>3. sinceSent' \in 0..Interval
      BY <2>1, Times
    <2>4. CountersOK'
      BY <1>1, <1>2, <1>3, <2>1, <2>3 DEF CountersOK
    <2>5. heartbeatFailures' < Limit
      <3>1. ~ (Due /\ heartbeatFailures + 1 >= Limit)
        BY <1>4 DEF Probes, Due, LastFailure
      <3> QED  BY <1>1, <1>2, <3>1, Times DEF CountersOK
    <2> QED  BY <2>2, <2>4, <2>5 DEF Inv, Counting
  <1>5. CASE ~ Probes
    <2>1. /\ heartbeatPending' = (heartbeatPending /\ ~ Due)
          /\ pc' = IF LastFailure THEN [pc EXCEPT !["ping"] = "detach"] ELSE pc
          /\ UNCHANGED <<sinceSent, heard, age, err, token>>
      BY <1>5 DEF heartbeatCheck
    <2>2. CountersOK'
      <3>1. heartbeatPending' \in BOOLEAN
        BY <2>1
      <3> QED  BY <1>1, <1>2, <1>3, <2>1, <3>1 DEF CountersOK
    <2>3. CASE LastFailure
      <3>1. pc' = [pc EXCEPT !["ping"] = "detach"]
        BY <2>1, <2>3
      <3>2. SendersOK' /\ TokenKept'
        BY <1>1, <1>2, <2>1, <3>1, MoveKeeps DEF Phase
      <3>3. Counting'
        BY <1>1, <1>2, <3>1 DEF Counting, SendersOK
      <3> QED  BY <2>2, <3>2, <3>3 DEF Inv
    <2>4. CASE ~ LastFailure
      <3>1. pc' = pc /\ heartbeatFailures' = heartbeatFailures
        BY <1>2, <1>5, <2>1, <2>4 DEF Probes
      <3>2. SendersOK' /\ TokenKept' /\ Counting'
        BY <1>1, <1>2, <2>1, <3>1 DEF SendersOK, TokenKept, Waiting, Counting
      <3> QED  BY <2>2, <3>2 DEF Inv
    <2> QED  BY <2>3, <2>4
  <1> QED  BY <1>4, <1>5

LEMMA SendResultInv == ASSUME Inv, heartbeatSendResult PROVE Inv'
  <1>1. SendersOK /\ CountersOK /\ TokenKept
    BY DEF Inv
  <1>2. PICK p \in Phase \ {"lock", "write"} : pc' = [pc EXCEPT !["ping"] = p]
    BY DEF heartbeatSendResult, Phase
  <1>3. /\ UNCHANGED <<bound, open, silence, checked, age, err, heard, token, writing>>
        /\ pc["ping"] = "result" /\ "ping" \in Sender
    BY DEF heartbeatSendResult, conn, Sender
  <1>4. SendersOK' /\ TokenKept'
    BY <1>1, <1>2, <1>3, MoveKeeps
  <1>5. sinceSent' \in {sinceSent, 0} /\ heartbeatFailures' \in {heartbeatFailures, 0}
    BY DEF heartbeatSendResult, state
  <1>6. heartbeatPending' \in BOOLEAN
    BY <1>1 DEF heartbeatSendResult, state, CountersOK
  <1>7. sinceSent' \in 0..Interval /\ heartbeatFailures' \in 0..Limit /\ heartbeatFailures' <= heartbeatFailures
    BY <1>1, <1>5, Times DEF CountersOK
  <1>8. CountersOK'
    BY <1>1, <1>3, <1>6, <1>7 DEF CountersOK
  <1>9. Counting'
    BY <1>1, <1>3, <1>7, Times DEF Inv, Counting, CountersOK
  <1> QED  BY <1>4, <1>8, <1>9 DEF Inv

LEMMA TickInv == ASSUME Inv, Tick PROVE Inv'
  <1>1. SendersOK /\ CountersOK /\ TokenKept
    BY DEF Inv
  <1>2. /\ UNCHANGED <<bound, open, heartbeatPending, heartbeatFailures, pc, err, heard, token>>
        /\ checked' = FALSE
        /\ sinceSent' = UpTo(sinceSent + 1, Interval) /\ silence' = UpTo(silence + 1, MaxSilence)
        /\ age' = [x \in Sender |-> UpTo(age[x] + 1, Deadline(x))]
        /\ writing' = IF pc["ping"] = "write" THEN writing + 1 ELSE 0
        /\ ~ (pc["ping"] = "write" /\ writing >= MaxWrite)
    BY DEF Tick, conn, Urgent
  <1>3. sinceSent' \in 0..Interval /\ silence' \in 0..MaxSilence /\ writing' \in 0..MaxWrite
    BY <1>1, <1>2, Times DEF CountersOK, UpTo
  <1>4. CountersOK'
    BY <1>1, <1>2, <1>3 DEF CountersOK
  <1>5. SendersOK'
    <2>1. \A x \in Sender : age'[x] \in Nat /\ age'[x] <= Deadline(x)
      BY <1>1, <1>2, Times DEF SendersOK, UpTo
    <2> QED  BY <1>1, <1>2, <2>1 DEF SendersOK
  <1>6. TokenKept' /\ Counting'
    BY <1>1, <1>2 DEF TokenKept, Waiting, Counting, Inv
  <1> QED  BY <1>4, <1>5, <1>6 DEF Inv

\* Every step preserves the invariant.
LEMMA NextInv == Inv /\ [Next]_vars => Inv'
  <1> SUFFICES ASSUME Inv, [Next]_vars PROVE Inv'
    OBVIOUS
  <1>1. CASE UNCHANGED vars
    BY <1>1 DEF vars, conn, state, Inv, SendersOK, CountersOK, TokenKept, Waiting, Counting
  <1>2. ASSUME NEW x \in Sender,
               GiveUp(x) \/ LockedLate(x) \/ Locked(x) \/ Written(x) \/ failBinding(x) \/ Stop(x)
        PROVE  Inv'
    BY <1>2, SendEndsInv, LockedInv, MoveInv
  <1>3. CASE SendResult
    BY <1>3, MoveInv DEF Sender
  <1> QED  BY <1>1, <1>2, <1>3, ReceiveInv, TickInv, SendPacketInv, CheckInv, SendResultInv DEF Next

THEOREM Invariance == Spec => []Inv
  <1> QED  BY InitInv, NextInv, PTL DEF Spec

\* Types; in particular the failures counted never exceed the limit.
THEOREM TypeCorrect == Spec => []TypeOK
  <1>1. Inv => TypeOK
    BY DEF Inv, SendersOK, CountersOK, TypeOK, Phase, Result
  <1> QED  BY <1>1, Invariance, PTL

\* The send lock is never lost, shared, or free while somebody waits for it,
\* however Sends and cancellations meet.
THEOREM TokenIsKept == Spec => []TokenKept
  <1>1. Inv => TokenKept
    BY DEF Inv
  <1> QED  BY <1>1, Invariance, PTL

-----------------------------------------------------------------------------
(* Silence.                                                                *)

\* What the failures and the probe that is out account for.
Unanswered ==
    heartbeatPending => silence = MaxSilence \/ silence >= heartbeatFailures * Response + sinceSent

\* Failures are counted against a probe that is out: an answer clears both.
Cleared ==
    pc["ping"] \in {"wait", "lock", "write", "result"} /\ ~ heartbeatPending => heartbeatFailures = 0

Unheard ==
    pc["ping"] \in {"lock", "write", "result"} /\ ~ heard => silence >= age["ping"]

\* A Send that ended has an error or none, and ran out of time only in time.
Late ==
    pc["ping"] = "result" =>
        err["ping"] # "none" /\ (err["ping"] = "deadline" => age["ping"] >= Response)

Quiet == Unanswered /\ Cleared /\ Unheard /\ Late

LEMMA Products ==
  /\ \A n \in Nat : n * Response \in Nat /\ (n + 1) * Response = n * Response + Response
  /\ 0 * Response = 0 /\ Response <= MaxSilence
  <1>1. \A n \in Nat : n * Response \in Nat /\ (n + 1) * Response = n * Response + Response
    BY Times
  <1>2. Limit * Response = (Limit - 1) * Response + Response /\ (Limit - 1) * Response \in Nat
    BY Times, <1>1
  <1> QED  BY Times, <1>1, <1>2

LEMMA InitQuiet == Init => Quiet
  BY DEF Init, Quiet, Unanswered, Cleared, Unheard, Late, Sender

\* The clock.
LEMMA TickQuiet == ASSUME Inv, Quiet, Tick PROVE Quiet'
  <1>1. SendersOK /\ CountersOK /\ "ping" \in Sender
    BY DEF Inv, Sender
  <1>2. /\ UNCHANGED <<heartbeatPending, heartbeatFailures, pc, err, heard>>
        /\ sinceSent' = UpTo(sinceSent + 1, Interval) /\ silence' = UpTo(silence + 1, MaxSilence)
        /\ age'["ping"] = UpTo(age["ping"] + 1, Deadline("ping")) /\ pc["ping"] # "result"
    BY <1>1 DEF Tick, Urgent
  <1>3. Deadline("ping") = Response /\ age["ping"] \in Nat
    BY <1>1 DEF Deadline, SendersOK
  <1>4. /\ heartbeatFailures \in Nat /\ heartbeatFailures * Response \in Nat
        /\ sinceSent \in Nat /\ silence \in Nat /\ silence <= MaxSilence
    BY <1>1, Products, Times DEF CountersOK
  <1>5. /\ sinceSent' \in Nat /\ sinceSent' <= sinceSent + 1
        /\ age'["ping"] \in Nat /\ age'["ping"] <= age["ping"] + 1 /\ age'["ping"] <= Response
    BY <1>2, <1>3, <1>4, Times DEF UpTo
  <1>6. silence' = MaxSilence \/ silence' = silence + 1
    BY <1>2 DEF UpTo
  <1>7. Unanswered'
    <2> SUFFICES ASSUME heartbeatPending, silence' # MaxSilence
                 PROVE  silence' >= heartbeatFailures * Response + sinceSent'
      BY <1>2 DEF Unanswered
    <2>1. silence' = silence + 1 /\ silence # MaxSilence
      BY <1>2, <1>4, <1>6, Times DEF UpTo
    <2>2. silence >= heartbeatFailures * Response + sinceSent
      BY <2>1 DEF Quiet, Unanswered
    <2> QED  BY <1>4, <1>5, <2>1, <2>2
  <1>8. Unheard'
    <2> SUFFICES ASSUME pc["ping"] \in {"lock", "write", "result"}, ~ heard
                 PROVE  silence' >= age'["ping"]
      BY <1>2 DEF Unheard
    <2>1. silence >= age["ping"]
      BY DEF Quiet, Unheard
    <2> QED  BY <1>3, <1>4, <1>5, <1>6, <2>1, Products, Times
  <1>9. Cleared' /\ Late'
    BY <1>2 DEF Quiet, Cleared, Late
  <1> QED  BY <1>7, <1>8, <1>9 DEF Quiet

\* heartbeatLoop at a tick.
LEMMA CheckQuiet == ASSUME Inv, Quiet, heartbeatCheck PROVE Quiet'
  <1>1. SendersOK /\ CountersOK /\ "ping" \in Sender /\ pc["ping"] = "wait"
    BY DEF Inv, Sender, heartbeatCheck
  <1>2. /\ heartbeatFailures \in Nat /\ heartbeatFailures * Response \in Nat
        /\ (heartbeatFailures + 1) * Response = heartbeatFailures * Response + Response
        /\ sinceSent \in Nat /\ silence \in Nat
    BY <1>1, Products, Times DEF CountersOK
  <1>3. /\ silence' = silence
        /\ heartbeatFailures' = IF Due THEN heartbeatFailures + 1 ELSE heartbeatFailures
    BY DEF heartbeatCheck
  <1>4. CASE Probes
    <2>1. heartbeatPending' /\ sinceSent' = 0 /\ pc'["ping"] = "lock" /\ age'["ping"] = 0
      BY <1>1, <1>4 DEF heartbeatCheck, StartSend, SendersOK
    <2>2. silence' = MaxSilence \/ silence' >= heartbeatFailures' * Response
      <3>1. CASE Due
        BY <1>2, <1>3, <3>1, Times DEF Due, Quiet, Unanswered
      <3>2. CASE ~ Due
        BY <1>1, <1>2, <1>3, <1>4, <3>2, Products DEF Probes, Quiet, Cleared
      <3> QED  BY <3>1, <3>2
    <2>3. heartbeatFailures' * Response \in Nat
      BY <1>2, <1>3, Products
    <2> QED  BY <1>2, <1>3, <2>1, <2>2, <2>3 DEF Quiet, Unanswered, Cleared, Unheard, Late
  <1>5. CASE ~ Probes
    <2>1. /\ heartbeatPending' = (heartbeatPending /\ ~ Due)
          /\ pc' = IF LastFailure THEN [pc EXCEPT !["ping"] = "detach"] ELSE pc
          /\ UNCHANGED <<sinceSent, heard, age, err>>
      BY <1>5 DEF heartbeatCheck
    <2>2. CASE LastFailure
      <3>1. ~ heartbeatPending' /\ pc'["ping"] = "detach"
        BY <1>1, <2>1, <2>2 DEF LastFailure, SendersOK
      <3> QED  BY <3>1 DEF Quiet, Unanswered, Cleared, Unheard, Late
    <2>3. CASE ~ LastFailure
      <3>1. pc' = pc /\ ~ Due /\ heartbeatFailures' = heartbeatFailures /\ heartbeatPending' = heartbeatPending
        BY <1>1, <1>3, <1>5, <2>1, <2>3 DEF Probes, CountersOK
      <3> QED  BY <1>3, <2>1, <3>1 DEF Quiet, Unanswered, Cleared, Unheard, Late
    <2> QED  BY <2>2, <2>3
  <1> QED  BY <1>4, <1>5

LEMMA SendResultQuiet == ASSUME Inv, Quiet, heartbeatSendResult PROVE Quiet'
  <1>1. SendersOK /\ CountersOK /\ "ping" \in Sender /\ pc["ping"] = "result"
    BY DEF Inv, Sender, heartbeatSendResult
  <1>2. /\ heartbeatFailures \in Nat /\ heartbeatFailures * Response \in Nat
        /\ sinceSent \in Nat /\ silence \in Nat
    BY <1>1, Products, Times DEF CountersOK
  <1>3. UNCHANGED <<silence, age, err, heard>> /\ pc'["ping"] \in {"wait", "detach", "stopped"}
    BY <1>1 DEF heartbeatSendResult, SendersOK
  <1>4. Unheard' /\ Late'
    BY <1>3 DEF Unheard, Late
  <1>5. CASE ~ heartbeatPending' /\ heartbeatFailures' = 0
    BY <1>4, <1>5 DEF Quiet, Unanswered, Cleared
  <1>6. CASE UNCHANGED <<heartbeatPending, heartbeatFailures>> /\ sinceSent' \in {sinceSent, 0}
    <2>1. sinceSent' <= sinceSent /\ sinceSent' \in Nat
      BY <1>2, <1>6
    <2>2. Unanswered'
      BY <1>2, <1>3, <1>6, <2>1 DEF Quiet, Unanswered
    <2>3. Cleared'
      BY <1>1, <1>6 DEF Quiet, Cleared
    <2> QED  BY <1>4, <2>2, <2>3 DEF Quiet
  <1> QED  BY <1>5, <1>6 DEF heartbeatSendResult, state

\* The steps of a Send, of the other loops and of the platform.
LEMMA OthersQuiet ==
  ASSUME Inv, Quiet, NEW x \in Sender,
         \/ GiveUp(x) \/ LockedLate(x) \/ Locked(x) \/ Written(x) \/ failBinding(x) \/ Stop(x)
         \/ SendPacket \/ SendResult \/ Disconnect \/ ReceiveClosed
  PROVE  Quiet'
  <1> USE DEF state
  <1>1. SendersOK /\ "ping" \in Sender /\ "data" \in Sender
    BY DEF Inv, Sender
  <1>2. UNCHANGED <<heartbeatPending, heartbeatFailures, sinceSent, silence, heard>>
    BY DEF GiveUp, LockedLate, Locked, Written, Returns, failBinding, Stop, SendPacket,
           SendResult, Disconnect, ReceiveClosed
  <1>3. age'["ping"] = age["ping"]
    BY <1>1 DEF GiveUp, LockedLate, Locked, Written, Returns, failBinding, Stop, SendPacket,
           SendResult, Disconnect, ReceiveClosed, StartSend, SendersOK
  <1>4. \/ pc'["ping"] = pc["ping"] /\ err'["ping"] = err["ping"]
        \/ pc'["ping"] = "stopped"
        \/ pc["ping"] \in {"lock", "write"} /\ pc'["ping"] = "write"
        \/ /\ pc["ping"] \in {"lock", "write"} /\ pc'["ping"] = "result"
           /\ err'["ping"] # "none" /\ (err'["ping"] = "deadline" => age["ping"] >= Response)
    <2>1. CASE GiveUp(x) \/ LockedLate(x) \/ Written(x)
      <3>1. PICK e \in Result : Returns(x, e) /\ e # "none" /\ (e = "deadline" => age[x] >= Deadline(x))
        BY <2>1 DEF GiveUp, LockedLate, Written, CancelError, Result
      <3>2. pc[x] \in {"lock", "write"}
        BY <2>1 DEF GiveUp, LockedLate, Written, Waiting
      <3> QED  BY <1>1, <3>1, <3>2 DEF Returns, SendersOK, Sender, Deadline
    <2>2. CASE Locked(x) \/ failBinding(x) \/ Stop(x)
      BY <1>1, <2>2 DEF Locked, failBinding, Stop, SendersOK, Sender
    <2>3. CASE SendPacket \/ SendResult
      BY <1>1, <2>3 DEF SendPacket, SendResult, StartSend, SendersOK, Sender
    <2>4. CASE Disconnect \/ ReceiveClosed
      BY <2>4 DEF Disconnect, ReceiveClosed
    <2> QED  BY <2>1, <2>2, <2>3, <2>4
  <1>5. Unanswered'
    BY <1>2 DEF Quiet, Unanswered
  <1>6. Cleared' /\ Unheard' /\ Late'
    BY <1>2, <1>3, <1>4 DEF Quiet, Cleared, Unheard, Late
  <1> QED  BY <1>5, <1>6 DEF Quiet

LEMMA NextQuiet == Inv /\ Quiet /\ [Next]_vars => Quiet'
  <1> SUFFICES ASSUME Inv, Quiet, [Next]_vars PROVE Quiet'
    OBVIOUS
  <1>1. CASE UNCHANGED vars
    BY <1>1 DEF vars, conn, state, Quiet, Unanswered, Cleared, Unheard, Late
  <1>2. CASE Receive
    BY <1>2 DEF Receive, Quiet, Unanswered, Cleared, Unheard, Late
  <1>3. "ping" \in Sender
    BY DEF Sender
  <1> QED
    BY <1>1, <1>2, <1>3, TickQuiet, CheckQuiet, SendResultQuiet, OthersQuiet DEF Next

\* The heartbeat gives a binding up only after the silence the comment on
\* heartbeatLoop promises, or when PING could not be sent for a response interval
\* in which nothing was heard, or when the Bluetooth stack refuses to send.
THEOREM AliveIsKept == Spec => AliveKept
  <1>1. Inv /\ Quiet /\ [Next]_vars =>
          [pc["ping"] # "detach" /\ pc'["ping"] = "detach" =>
              \/ pc["ping"] = "wait" /\ silence >= Limit * Response
              \/ pc["ping"] = "result" /\ err["ping"] = "deadline" /\ silence >= Response
              \/ pc["ping"] = "result" /\ err["ping"] \in {"failed", "closed"}]_vars
    <2> SUFFICES ASSUME Inv, Quiet, Next, pc["ping"] # "detach", pc'["ping"] = "detach"
                 PROVE  \/ pc["ping"] = "wait" /\ silence >= Limit * Response
                        \/ pc["ping"] = "result" /\ err["ping"] = "deadline" /\ silence >= Response
                        \/ pc["ping"] = "result" /\ err["ping"] \in {"failed", "closed"}
      OBVIOUS
    <2>1. SendersOK /\ CountersOK /\ "ping" \in Sender
      BY DEF Inv, Sender
    <2>2. heartbeatCheck \/ heartbeatSendResult
      BY <2>1 DEF Next, Receive, Disconnect, ReceiveClosed, Tick, SendPacket, StartSend, SendResult,
                  GiveUp, LockedLate, Locked, Written, Returns, failBinding, Stop, SendersOK
    <2>3. CASE heartbeatCheck
      <3>1. pc["ping"] = "wait" /\ LastFailure
        BY <2>1, <2>3 DEF heartbeatCheck, StartSend, SendersOK
      <3>2. heartbeatFailures \in Nat /\ heartbeatFailures < Limit
        BY <2>1, <3>1, Times DEF Inv, Counting, CountersOK
      <3>3. heartbeatFailures + 1 = Limit /\ heartbeatPending /\ sinceSent >= Response
        BY <3>1, <3>2, Times DEF LastFailure, Due
      <3>4. heartbeatFailures * Response \in Nat /\ Limit * Response = heartbeatFailures * Response + Response
        BY <3>2, <3>3, Products
      <3>5. silence = MaxSilence \/ silence >= heartbeatFailures * Response + sinceSent
        BY <3>3 DEF Quiet, Unanswered
      <3> QED  BY <2>1, <3>1, <3>3, <3>4, <3>5, Times DEF CountersOK
    <2>4. CASE heartbeatSendResult
      <3>1. /\ pc["ping"] = "result" /\ err["ping"] # "ok"
            /\ ~ (err["ping"] = "deadline" /\ heard)
        BY <2>1, <2>4 DEF heartbeatSendResult, SendersOK
      <3>2. err["ping"] \in {"none", "failed", "deadline", "closed"}
        BY <2>1, <3>1 DEF SendersOK, Result
      <3> QED  BY <2>1, <3>1, <3>2, Times DEF Quiet, Unheard, Late, SendersOK, CountersOK
    <2> QED  BY <2>2, <2>3, <2>4
  <1> QED  BY <1>1, InitQuiet, NextQuiet, Invariance, PTL DEF Spec, AliveKept

-----------------------------------------------------------------------------
(* A silent peer is noticed in time. In each phase of the heartbeat loop   *)
(* the silence is bounded by what the failures counted so far may have     *)
(* cost and by how long the phase has lasted.                              *)

\* What one failure may cost: the wait for the lock, the write, the response.
Cost == (Response - 1) + MaxWrite + Response

\* The silence when the present probe started.
Before == Excused + heartbeatFailures * Cost

Probing == pc["ping"] \in {"lock", "write", "result"}

\* The loop runs as long as its binding; a packet answers the probe that is out.
Running ==
    /\ pc["ping"] # "stopped"
    /\ Probing => (heard <=> ~ heartbeatPending)

\* After the check of this tick there is time left before the next one is due.
Checked ==
    checked =>
        /\ Probing => sinceSent = 0
        /\ pc["ping"] = "wait" => sinceSent < (IF heartbeatPending THEN Response ELSE Interval)

\* Between probes.
Idle ==
    pc["ping"] = "wait" /\ ~ heartbeatPending =>
        \/ silence <= Response + sinceSent
        \/ sinceSent = Interval /\ silence <= Excused

\* A probe is out, or on its way, and unanswered.
Asking ==
    heartbeatPending =>
        /\ pc["ping"] = "lock"   => silence <= Before + age["ping"]
        /\ pc["ping"] = "write"  => silence <= Before + (Response - 1) + writing
        /\ pc["ping"] = "result" => silence <= Before + Cost
        /\ pc["ping"] = "result" /\ err["ping"] = "ok" => silence <= Before + (Response - 1) + MaxWrite
        /\ pc["ping"] = "wait"   => /\ sinceSent <= Response
                                    /\ silence <= Before + (Response - 1) + MaxWrite + sinceSent

\* A probe is on its way that a packet has answered.
Answered ==
    ~ heartbeatPending =>
        /\ pc["ping"] = "lock"   => silence <= age["ping"]
        /\ pc["ping"] = "write"  => silence <= (Response - 1) + writing
        /\ pc["ping"] = "result" => silence <= Response + MaxWrite
        /\ pc["ping"] = "result" /\ err["ping"] = "ok" => silence <= (Response - 1) + MaxWrite
        /\ pc["ping"] = "result" /\ err["ping"] = "deadline" => silence <= Response
        /\ Probing => silence <= sinceSent \/ sinceSent = Interval

Leaving == pc["ping"] = "detach" => silence <= Longest

Timely == Running /\ Checked /\ Idle /\ Asking /\ Answered /\ Leaving

Watched == bound => Timely

LEMMA Costs ==
  /\ Cost \in Nat /\ Response <= Cost /\ Cost = (Response - 1) + MaxWrite + Response
  /\ Excused \in Nat /\ Response + Interval <= Excused /\ (Response - 1) + MaxWrite <= Excused
  /\ \A n \in Nat : n * Cost \in Nat /\ (n + 1) * Cost = n * Cost + Cost
  /\ \A n \in Nat : n < Limit => n * Cost + Cost <= Limit * Cost
  /\ 0 * Cost = 0 /\ Limit * Cost \in Nat /\ Longest = Excused + Limit * Cost
  <1>1. Cost \in Nat /\ Response <= Cost /\ Cost = (Response - 1) + MaxWrite + Response
    BY Times DEF Cost
  <1>2. Excused \in Nat /\ Response + Interval <= Excused /\ (Response - 1) + MaxWrite <= Excused
    BY Times DEF Excused
  <1>3. Longest = Excused + Limit * Cost
    BY DEF Longest, Cost
  <1> HIDE DEF Cost
  <1>4. \A n \in Nat : n * Cost \in Nat /\ (n + 1) * Cost = n * Cost + Cost
    BY <1>1
  <1>5. ASSUME NEW n \in Nat, n < Limit PROVE n * Cost + Cost <= Limit * Cost
    <2>1. PICK d \in Nat : Limit = (n + 1) + d
      <3>1. Limit - (n + 1) \in Nat /\ Limit = (n + 1) + (Limit - (n + 1))
        BY <1>5, Times
      <3> QED  BY <3>1
    <2>2. Limit * Cost = (n + 1) * Cost + d * Cost
      BY <1>1, <2>1
    <2> QED  BY <1>1, <1>4, <2>1, <2>2
  <1> QED  BY <1>1, <1>2, <1>3, <1>4, <1>5, Times

\* The numbers that the steps below compute with.
LEMMA Numbers ==
  ASSUME Inv
  PROVE  /\ heartbeatFailures \in Nat /\ heartbeatFailures * Cost \in Nat /\ Before \in Nat
         /\ Before = Excused + heartbeatFailures * Cost
         /\ sinceSent \in Nat /\ sinceSent <= Interval /\ silence \in Nat /\ writing \in Nat
         /\ writing <= MaxWrite /\ age["ping"] \in Nat /\ age["ping"] <= Response
         /\ pc["ping"] \in Phase /\ err["ping"] \in Result /\ "ping" \in Sender
         /\ heartbeatPending \in BOOLEAN /\ bound \in BOOLEAN /\ heard \in BOOLEAN /\ checked \in BOOLEAN
  <1>1. heartbeatFailures \in Nat /\ heartbeatFailures * Cost \in Nat
    BY Costs, Times DEF Inv, CountersOK
  <1>2. Before = Excused + heartbeatFailures * Cost /\ Before \in Nat
    <2>1. Excused \in Nat
      BY Costs
    <2> HIDE DEF Cost
    <2> QED  BY <1>1, <2>1 DEF Before
  <1>3. /\ sinceSent \in Nat /\ sinceSent <= Interval /\ silence \in Nat /\ writing \in Nat
        /\ writing <= MaxWrite
    BY Times DEF Inv, CountersOK
  <1>4. /\ age["ping"] \in Nat /\ age["ping"] <= Response
        /\ pc["ping"] \in Phase /\ err["ping"] \in Result /\ "ping" \in Sender
    BY DEF Inv, SendersOK, Sender, Deadline
  <1> QED  BY <1>1, <1>2, <1>3, <1>4 DEF Inv, CountersOK

LEMMA InitWatched == Init => Watched
  BY Times DEF Init, Watched, Timely, Running, Checked, Idle, Asking, Answered, Leaving, Probing, Sender

\* A step that the heartbeat loop does not notice.
LEMMA SameWatched ==
  ASSUME Watched, bound' => bound,
         UNCHANGED <<silence, sinceSent, heartbeatPending, heartbeatFailures, checked, heard>>,
         pc'["ping"] = pc["ping"], age'["ping"] = age["ping"], err'["ping"] = err["ping"],
         pc["ping"] = "write" => writing' = writing
  PROVE  Watched'
  <1> SUFFICES ASSUME bound' PROVE Timely'
    BY DEF Watched
  <1>1. Timely /\ Before' = Before /\ (Probing' <=> Probing)
    BY DEF Watched, Before, Probing
  <1>2. Running' /\ Checked' /\ Idle' /\ Leaving'
    BY <1>1 DEF Timely, Running, Checked, Idle, Leaving
  <1>3. Asking'
    BY <1>1 DEF Timely, Asking
  <1>4. Answered'
    BY <1>1 DEF Timely, Answered
  <1> QED  BY <1>2, <1>3, <1>4 DEF Timely

\* The clock moves only when the loop has done what was due.
LEMMA TickWatched == ASSUME Inv, Watched, Tick PROVE Watched'
  <1>1. Timely /\ bound
    BY DEF Tick, Watched
  <1>2. /\ UNCHANGED <<heartbeatPending, heartbeatFailures, pc, err, heard>> /\ checked' = FALSE
        /\ pc["ping"] \notin {"result", "detach"}
        /\ pc["ping"] = "wait" => checked
        /\ pc["ping"] = "lock" => age["ping"] < Response
    BY Numbers, Times DEF Tick, Urgent, Cancelled, Deadline
  <1>3. sinceSent' = UpTo(sinceSent + 1, Interval) /\ silence' = UpTo(silence + 1, MaxSilence)
    BY DEF Tick
  <1>4. silence' \in Nat /\ silence' <= silence + 1
    BY <1>3, Numbers, Times DEF UpTo
  <1>5. /\ sinceSent' \in Nat /\ sinceSent' <= Interval
        /\ sinceSent' = sinceSent + 1 \/ (sinceSent' = Interval /\ sinceSent = Interval)
    BY <1>3, Numbers, Times DEF UpTo
  <1>6. pc["ping"] = "lock" => age'["ping"] = age["ping"] + 1
    BY <1>2, Numbers, Times DEF Tick, UpTo, Deadline
  <1>7. pc["ping"] = "write" => writing' = writing + 1
    BY DEF Tick
  <1>8. Before' = Before
    BY <1>2 DEF Before
  <1>9. Running' /\ Checked' /\ Leaving'
    BY <1>1, <1>2 DEF Timely, Running, Checked, Leaving, Probing
  <1>10. Idle'
    <2> SUFFICES ASSUME pc["ping"] = "wait", ~ heartbeatPending PROVE silence' <= Response + sinceSent'
      BY <1>2 DEF Idle
    <2>1. sinceSent < Interval
      BY <1>1, <1>2 DEF Timely, Checked
    <2>2. silence <= Response + sinceSent
      BY <1>1, <2>1, Numbers, Times DEF Timely, Idle
    <2>3. sinceSent' = sinceSent + 1
      BY <1>5, <2>1, Numbers, Times
    <2>4. Response \in Nat /\ sinceSent \in Nat /\ silence \in Nat
      BY Numbers, Times
    <2> QED  BY <1>4, <2>2, <2>3, <2>4
  <1>11. Asking'
    <2> SUFFICES ASSUME heartbeatPending PROVE Asking'
      BY <1>2 DEF Asking
    <2>1. CASE pc["ping"] = "wait"
      <3>1. sinceSent < Response /\ sinceSent' = sinceSent + 1
        BY <1>1, <1>2, <1>5, <2>1, Numbers, Times DEF Timely, Checked
      <3>2. silence <= Before + (Response - 1) + MaxWrite + sinceSent
        BY <1>1, <2>1 DEF Timely, Asking
      <3>3. /\ sinceSent' <= Response
            /\ silence' <= Before + (Response - 1) + MaxWrite + sinceSent'
        BY <1>4, <3>1, <3>2, Numbers, Times
      <3> QED  BY <1>2, <1>8, <2>1, <3>3 DEF Asking
    <2>2. CASE pc["ping"] = "lock"
      <3>1. silence' <= Before + age'["ping"]
        BY <1>1, <1>4, <1>6, <2>2, Numbers DEF Timely, Asking
      <3> QED  BY <1>2, <1>8, <2>2, <3>1 DEF Asking
    <2>3. CASE pc["ping"] = "write"
      <3>1. silence' <= Before + (Response - 1) + writing'
        BY <1>1, <1>4, <1>7, <2>3, Numbers, Times DEF Timely, Asking
      <3> QED  BY <1>2, <1>8, <2>3, <3>1 DEF Asking
    <2> QED  BY <1>2, <2>1, <2>2, <2>3, Numbers DEF Asking, Phase
  <1>12. Answered'
    <2> SUFFICES ASSUME ~ heartbeatPending, Probing PROVE Answered'
      BY <1>2 DEF Answered, Probing
    <2>1. silence' <= sinceSent' \/ sinceSent' = Interval
      BY <1>1, <1>4, <1>5, Numbers, Times DEF Timely, Answered
    <2>2. CASE pc["ping"] = "lock"
      <3>1. silence' <= age'["ping"]
        BY <1>1, <1>4, <1>6, <2>2, Numbers DEF Timely, Answered
      <3> QED  BY <1>2, <2>1, <2>2, <3>1 DEF Answered
    <2>3. CASE pc["ping"] = "write"
      <3>1. silence' <= (Response - 1) + writing'
        BY <1>1, <1>4, <1>7, <2>3, Numbers, Times DEF Timely, Answered
      <3> QED  BY <1>2, <2>1, <2>3, <3>1 DEF Answered
    <2> QED  BY <1>2, <2>2, <2>3 DEF Probing
  <1> QED  BY <1>9, <1>10, <1>11, <1>12 DEF Timely, Watched

\* A packet ends the silence.
LEMMA ReceiveWatched == ASSUME Inv, Watched, Receive PROVE Watched'
  <1>1. Timely /\ bound
    BY DEF Receive, Watched
  <1>2. /\ UNCHANGED <<sinceSent, checked, pc, age, err, writing>>
        /\ heartbeatPending' = FALSE /\ silence' = 0 /\ heard' = TRUE
    BY DEF Receive
  <1>3. Running' /\ Asking'
    BY <1>1, <1>2 DEF Timely, Running, Asking, Probing
  <1>4. Checked'
    BY <1>1, <1>2, Numbers, Times DEF Timely, Checked, Probing
  <1>5. Idle' /\ Answered'
    BY <1>2, Numbers, Times DEF Idle, Answered, Probing
  <1>6. Leaving'
    BY <1>2, Costs DEF Leaving
  <1> QED  BY <1>3, <1>4, <1>5, <1>6 DEF Timely, Watched

\* The token comes in time: the write starts.
LEMMA LockedWatched == ASSUME Inv, Watched, Locked("ping") PROVE Watched'
  <1>1. /\ UNCHANGED <<bound, heartbeatPending, heartbeatFailures, sinceSent, silence, checked, heard, age>>
        /\ pc["ping"] = "lock" /\ pc'["ping"] = "write" /\ writing' = 0
    BY DEF Locked, conn, state, Inv, SendersOK, Sender
  <1>2. age["ping"] < Response /\ bound
    BY Numbers, Times DEF Locked, Cancelled, Deadline
  <1>3. Timely /\ Before' = Before
    BY <1>1, <1>2 DEF Watched, Before
  <1>4. Running' /\ Checked' /\ Idle' /\ Leaving'
    BY <1>1, <1>3 DEF Timely, Running, Checked, Idle, Leaving, Probing
  <1>5. Asking'
    <2>1. heartbeatPending => silence <= Before + (Response - 1) + 0
      BY <1>1, <1>2, <1>3, Numbers, Times DEF Timely, Asking
    <2> QED  BY <1>1, <1>3, <2>1 DEF Asking
  <1>6. Answered'
    <2>1. ~ heartbeatPending => silence <= (Response - 1) + 0 /\ (silence <= sinceSent \/ sinceSent = Interval)
      BY <1>1, <1>2, <1>3, Numbers, Times DEF Timely, Answered, Probing
    <2> QED  BY <1>1, <2>1 DEF Answered
  <1> QED  BY <1>4, <1>5, <1>6 DEF Timely, Watched

\* The Send of a probe ends: in time, with an error of the stack, or too late.
LEMMA SendEndsWatched ==
  ASSUME Inv, Watched, GiveUp("ping") \/ LockedLate("ping") \/ Written("ping")
  PROVE  Watched'
  <1>1. PICK e \in Result : /\ Returns("ping", e)
                            /\ pc["ping"] = "lock" => e # "ok"
                            /\ pc["ping"] = "write" => e # "deadline"
    BY DEF GiveUp, LockedLate, Written, CancelError, Waiting, Result
  <1>2. /\ UNCHANGED <<bound, heartbeatPending, heartbeatFailures, sinceSent, silence, checked, heard, age>>
        /\ pc["ping"] \in {"lock", "write"} /\ pc'["ping"] = "result" /\ err'["ping"] = e
    BY <1>1, Numbers DEF GiveUp, LockedLate, Written, Waiting, Returns, state, Inv, SendersOK
  <1> SUFFICES ASSUME bound PROVE Timely'
    BY <1>2 DEF Watched
  <1>3. Timely /\ Before' = Before
    BY <1>2 DEF Watched, Before
  <1>4. Running' /\ Checked' /\ Idle' /\ Leaving'
    BY <1>2, <1>3 DEF Timely, Running, Checked, Idle, Leaving, Probing
  <1>5. Asking'
    <2> SUFFICES ASSUME heartbeatPending
                 PROVE  silence <= Before + Cost /\ (e = "ok" => silence <= Before + (Response - 1) + MaxWrite)
      BY <1>2, <1>3 DEF Asking
    <2>1. CASE pc["ping"] = "lock"
      <3>1. silence <= Before + age["ping"]
        BY <1>3, <2>1 DEF Timely, Asking
      <3> QED  BY <1>1, <2>1, <3>1, Numbers, Costs, Times
    <2>2. CASE pc["ping"] = "write"
      <3>1. silence <= Before + (Response - 1) + writing
        BY <1>3, <2>2 DEF Timely, Asking
      <3> QED  BY <3>1, Numbers, Costs, Times
    <2> QED  BY <1>2, <2>1, <2>2
  <1>6. Answered'
    <2> SUFFICES ASSUME ~ heartbeatPending
                 PROVE  /\ silence <= Response + MaxWrite
                        /\ e = "ok" => silence <= (Response - 1) + MaxWrite
                        /\ e = "deadline" => silence <= Response
                        /\ silence <= sinceSent \/ sinceSent = Interval
      BY <1>2 DEF Answered
    <2>1. silence <= sinceSent \/ sinceSent = Interval
      BY <1>2, <1>3 DEF Timely, Answered, Probing
    <2>2. CASE pc["ping"] = "lock"
      <3>1. silence <= age["ping"]
        BY <1>3, <2>2 DEF Timely, Answered
      <3> QED  BY <1>1, <2>1, <2>2, <3>1, Numbers, Times
    <2>3. CASE pc["ping"] = "write"
      <3>1. silence <= (Response - 1) + writing
        BY <1>3, <2>3 DEF Timely, Answered
      <3> QED  BY <1>1, <2>1, <2>3, <3>1, Numbers, Times
    <2> QED  BY <1>2, <2>2, <2>3
  <1> QED  BY <1>4, <1>5, <1>6 DEF Timely

\* heartbeatLoop at a tick: a probe starts after an interval or after a failure,
\* and the last failure ends the binding.
LEMMA CheckWatched == ASSUME Inv, Quiet, Watched, heartbeatCheck PROVE Watched'
  <1>1. /\ Timely /\ bound /\ pc["ping"] = "wait" /\ heartbeatFailures < Limit
        /\ UNCHANGED <<bound, silence, writing>> /\ checked' = TRUE
        /\ heartbeatFailures' = IF Due THEN heartbeatFailures + 1 ELSE heartbeatFailures
    BY DEF heartbeatCheck, conn, Watched, Inv, Counting
  <1>2. ASSUME Due
        PROVE  silence <= Excused + (heartbeatFailures + 1) * Cost
    <2>1. /\ sinceSent <= Response
          /\ silence <= Before + (Response - 1) + MaxWrite + sinceSent
      BY <1>1, <1>2 DEF Timely, Asking, Due
    <2>2. silence <= Before + Cost
      BY <2>1, Numbers, Costs, Times
    <2>3. (heartbeatFailures + 1) * Cost = heartbeatFailures * Cost + Cost
      BY Numbers, Costs
    <2> QED  BY <2>2, <2>3, Numbers, Costs
  <1>3. CASE Probes
    <2>1. heartbeatPending' = TRUE /\ sinceSent' = 0 /\ heard' = FALSE /\ StartSend("ping")
      BY <1>3 DEF heartbeatCheck
    <2>2. pc'["ping"] = "lock" /\ age'["ping"] = 0
      BY <2>1, Numbers DEF StartSend, Inv, SendersOK
    <2>3. silence <= Before'
      <3>1. CASE Due
        BY <1>1, <1>2, <3>1 DEF Before
      <3>2. CASE ~ Due
        <4>1. ~ heartbeatPending /\ sinceSent = Interval
          BY <1>3, <3>2, Numbers, Times DEF Probes
        <4>2. silence <= Excused
          BY <1>1, <4>1, Numbers, Costs, Times DEF Timely, Idle
        <4>3. Before' = Before
          BY <1>1, <3>2 DEF Before
        <4> QED  BY <4>2, <4>3, Numbers, Costs
      <3> QED  BY <3>1, <3>2
    <2>4. Before' \in Nat
      <3>1. heartbeatFailures' \in Nat
        BY <1>1, Numbers
      <3>2. heartbeatFailures' * Cost \in Nat /\ Excused \in Nat
        BY <3>1, Costs
      <3> HIDE DEF Cost
      <3> QED  BY <3>2 DEF Before
    <2>5. silence' <= Before' + age'["ping"]
      BY <1>1, <2>2, <2>3, <2>4, Numbers
    <2>6. Running' /\ Checked' /\ Idle' /\ Answered' /\ Leaving'
      BY <2>1, <2>2 DEF Running, Checked, Idle, Answered, Leaving, Probing
    <2>7. Asking'
      BY <2>2, <2>5 DEF Asking
    <2> QED  BY <2>6, <2>7 DEF Timely, Watched
  <1>4. CASE ~ Probes
    <2>1. /\ heartbeatPending' = (heartbeatPending /\ ~ Due)
          /\ pc' = IF LastFailure THEN [pc EXCEPT !["ping"] = "detach"] ELSE pc
          /\ UNCHANGED <<sinceSent, heard, age, err, token>>
      BY <1>4 DEF heartbeatCheck
    <2>2. CASE LastFailure
      <3>1. pc'["ping"] = "detach"
        BY <2>1, <2>2, Numbers DEF Inv, SendersOK
      <3>2. (heartbeatFailures + 1) * Cost <= Limit * Cost
        BY <1>1, Numbers, Costs
      <3>3. (heartbeatFailures + 1) * Cost \in Nat
        <4>1. (heartbeatFailures + 1) * Cost = heartbeatFailures * Cost + Cost
          BY Numbers, Costs
        <4>2. heartbeatFailures * Cost \in Nat /\ Cost \in Nat
          BY Numbers, Costs
        <4> QED  BY <4>1, <4>2
      <3>4. silence <= Longest
        BY <1>2, <2>2, <3>2, <3>3, Numbers, Costs DEF LastFailure
      <3> QED  BY <1>1, <3>1, <3>4 DEF Watched, Timely, Running, Checked, Idle, Asking, Answered, Leaving, Probing
    <2>3. CASE ~ LastFailure
      <3>1. ~ Due /\ pc' = pc /\ UNCHANGED <<heartbeatPending, heartbeatFailures>>
        BY <1>1, <1>4, <2>1, <2>3, Numbers DEF Probes
      <3>2. sinceSent < (IF heartbeatPending THEN Response ELSE Interval)
        BY <1>4, <3>1, Numbers, Times DEF Probes, Due
      <3>3. Before' = Before
        BY <3>1 DEF Before
      <3>4. Checked' /\ Running' /\ Answered' /\ Leaving'
        BY <1>1, <2>1, <3>1, <3>2 DEF Checked, Running, Answered, Leaving, Probing
      <3>5. Idle' /\ Asking'
        BY <1>1, <2>1, <3>1, <3>3 DEF Timely, Idle, Asking
      <3> QED  BY <3>4, <3>5 DEF Timely, Watched
    <2> QED  BY <2>2, <2>3
  <1> QED  BY <1>3, <1>4

\* The probe's Send has returned.
LEMMA ResultWatched == ASSUME Inv, Quiet, Watched, heartbeatSendResult PROVE Watched'
  <1> SUFFICES ASSUME bound PROVE Timely'
    BY DEF heartbeatSendResult, conn, Watched
  <1>1. /\ Timely /\ pc["ping"] = "result" /\ heartbeatFailures < Limit
        /\ UNCHANGED <<silence, checked, err, heard, age, writing>>
    BY DEF heartbeatSendResult, Watched, Inv, Counting
  <1>2. CASE err["ping"] = "ok"
    <2>1. /\ sinceSent' = IF heartbeatPending THEN 0 ELSE sinceSent
          /\ pc'["ping"] = "wait"
          /\ UNCHANGED <<heartbeatPending, heartbeatFailures>>
      BY <1>2, Numbers DEF heartbeatSendResult, Inv, SendersOK
    <2>2. Before' = Before
      BY <2>1 DEF Before
    <2>3. Running' /\ Answered' /\ Leaving'
      BY <2>1 DEF Running, Answered, Leaving, Probing
    <2>4. Checked'
      BY <1>1, <2>1, Numbers, Times DEF Timely, Checked, Probing
    <2>5. Idle'
      BY <1>1, <1>2, <2>1, Numbers, Costs, Times DEF Timely, Idle, Answered, Probing
    <2>6. Asking'
      <3> SUFFICES ASSUME heartbeatPending
                   PROVE  0 <= Response /\ silence <= Before + (Response - 1) + MaxWrite + 0
        BY <1>1, <2>1, <2>2 DEF Asking
      <3> QED  BY <1>1, <1>2, Numbers, Times DEF Timely, Asking
    <2> QED  BY <2>3, <2>4, <2>5, <2>6 DEF Timely
  <1>3. CASE err["ping"] = "deadline" /\ heard
    <2>1. /\ sinceSent' = 0 /\ heartbeatPending' = FALSE /\ pc'["ping"] = "wait"
      BY <1>3, Numbers DEF heartbeatSendResult, Inv, SendersOK
    <2>2. silence <= Response
      BY <1>1, <1>3, Numbers DEF Timely, Running, Answered, Probing
    <2>3. Running' /\ Answered' /\ Leaving' /\ Asking'
      BY <2>1 DEF Running, Answered, Leaving, Asking, Probing
    <2>4. Checked' /\ Idle'
      BY <1>1, <2>1, <2>2, Numbers, Times DEF Checked, Idle, Probing
    <2> QED  BY <2>3, <2>4 DEF Timely
  <1>4. CASE err["ping"] # "ok" /\ ~ (err["ping"] = "deadline" /\ heard)
    <2>1. pc'["ping"] = "detach"
      BY <1>4, Numbers DEF heartbeatSendResult, Inv, SendersOK
    <2>2. silence <= Before + Cost
      <3>1. CASE heartbeatPending
        BY <1>1, <3>1 DEF Timely, Asking
      <3>2. CASE ~ heartbeatPending
        BY <1>1, <3>2, Numbers, Costs, Times DEF Timely, Answered
      <3> QED  BY <3>1, <3>2
    <2>3. heartbeatFailures * Cost + Cost <= Limit * Cost
      BY <1>1, Numbers, Costs
    <2>4. silence <= Longest
      BY <2>2, <2>3, Numbers, Costs
    <2> QED  BY <1>1, <2>1, <2>4 DEF Timely, Running, Checked, Idle, Asking, Answered, Leaving, Probing
  <1> QED  BY <1>2, <1>3, <1>4

LEMMA NextWatched == ASSUME Inv, Quiet, Watched, [Next]_vars PROVE Watched'
  <1>1. pc \in [Sender -> Phase] /\ age \in [Sender -> Nat] /\ err \in [Sender -> Result]
        /\ "ping" \in Sender /\ "data" \in Sender /\ "ping" # "data"
    BY DEF Inv, SendersOK, Sender
  <1>2. CASE UNCHANGED vars
    BY <1>2, SameWatched DEF vars, conn, state
  <1>3. CASE Disconnect \/ ReceiveClosed \/ SendPacket \/ SendResult
    <2>1. /\ bound' => bound
          /\ UNCHANGED <<silence, sinceSent, heartbeatPending, heartbeatFailures, checked, heard, writing>>
      BY <1>3 DEF Disconnect, ReceiveClosed, SendPacket, SendResult, conn, state
    <2>2. pc'["ping"] = pc["ping"] /\ age'["ping"] = age["ping"] /\ err'["ping"] = err["ping"]
      BY <1>1, <1>3 DEF Disconnect, ReceiveClosed, SendPacket, SendResult, StartSend
    <2> QED  BY <2>1, <2>2, SameWatched
  <1>4. ASSUME NEW x \in Sender, failBinding(x) \/ Stop(x)
        PROVE  Watched'
    BY <1>4 DEF failBinding, Stop, conn, Watched
  <1>5. CASE GiveUp("data") \/ LockedLate("data") \/ Locked("data") \/ Written("data")
    <2>1. /\ UNCHANGED <<bound, silence, sinceSent, heartbeatPending, heartbeatFailures, checked, heard>>
          /\ pc'["ping"] = pc["ping"] /\ age'["ping"] = age["ping"] /\ err'["ping"] = err["ping"]
      BY <1>1, <1>5 DEF GiveUp, LockedLate, Locked, Written, Returns, conn, state
    <2>2. pc["ping"] = "write" => writing' = writing
      BY <1>1, <1>5 DEF GiveUp, LockedLate, Locked, Written, Inv, TokenKept
    <2> QED  BY <2>1, <2>2, SameWatched
  <1>6. CASE GiveUp("ping") \/ LockedLate("ping") \/ Locked("ping") \/ Written("ping")
    BY <1>6, SendEndsWatched, LockedWatched
  <1>7. \A x \in Sender : x = "ping" \/ x = "data"
    BY DEF Sender
  <1> QED
    BY <1>2, <1>3, <1>4, <1>5, <1>6, <1>7, ReceiveWatched, TickWatched, CheckWatched, ResultWatched DEF Next

\* A silent peer is noticed within Longest, for any intervals and limits and
\* however long the send loop's write keeps the token.
THEOREM DeadPeerNoticed == Spec => []DetectsInTime
  <1>1. Inv /\ Watched => DetectsInTime
    <2> SUFFICES ASSUME Inv, Timely, bound PROVE silence <= Longest
      BY DEF Watched, DetectsInTime
    <2>1. CASE pc["ping"] = "detach"
      BY <2>1 DEF Timely, Leaving
    <2>2. CASE pc["ping"] \in {"wait", "lock", "write", "result"}
      <3>1. heartbeatFailures * Cost + Cost <= Limit * Cost
        BY <2>2, Numbers, Costs DEF Inv, Counting
      <3>2. Before + Cost <= Longest
        BY <3>1, Numbers, Costs
      <3>3. CASE heartbeatPending
        <4>1. silence <= Before + Cost
          BY <2>2, <3>3, Numbers, Costs, Times DEF Timely, Asking
        <4> QED  BY <3>2, <4>1, Numbers, Costs
      <3>4. CASE ~ heartbeatPending
        <4>1. silence <= Excused + Cost
          BY <2>2, <3>4, Numbers, Costs, Times DEF Timely, Idle, Answered
        <4> QED  BY <3>2, <4>1, Numbers, Costs
      <3> QED  BY <3>3, <3>4
    <2> QED  BY <2>1, <2>2, Numbers DEF Timely, Running, Phase
  <1>2. Inv /\ Quiet /\ Watched /\ [Next]_vars => Watched'
    BY NextWatched
  <1> QED  BY <1>1, <1>2, InitWatched, InitQuiet, NextQuiet, Invariance, PTL DEF Spec
=============================================================================
