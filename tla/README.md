# A TLA+ model of LightningBNB

LightningBNB carries TCP connections over Bluetooth Low Energy (BLE). A client
program connects to a server program's GATT service, keeps a *resumable session*
over it that survives lost BLE connections, and multiplexes TCP streams on that
session. This directory models the parts of the program in which order, loss,
concurrency and time matter, model-checks them with TLC on small instances, and
proves the central properties with TLAPS for all values of the constants.

`PROJECT.json` holds the machine-readable side: components, runs, the map from
definitions to source lines, hazards, findings and theorems. Paths below are
relative to `src/`.

## 1. Inventory

| Component | State | Operations | Talks to |
| --- | --- | --- | --- |
| link stream, `internal/link/session.go` | replay buffer `txBase/txNext/txBuf`, reassembly `rxNext/rxBuf/rxPending/rxPendingBytes`, per binding `sendNext`, retransmission deadline, flight window, duplicate-ACK count | `Write`, `Read`, `sendLoop`/`nextPacketLocked`, `handlePacket`/`acceptDataLocked`, `handleAckLocked`, `attach`, `failBinding` | the mux above (as an `io.ReadWriteCloser`), a `PacketConn` below |
| handshake and resume, `internal/link/session.go`, `handshake.go` | session identifier, `current` binding, `detachedAt`, `closed` | `BindClient`, `ReadHello`, `BindServer`, HELLO in a binding, `expireAfter`, `Close` | the client and server loops, the link stream's offsets |
| client and server loops, `internal/app/client.go`, `server.go` | the session that outlives connections, the mux on it | reconnect loop, accept loop, refusal, creation | BLE, link, mux, bridge |
| discovery and connection, `internal/ble/ble.go`, the device choice of `internal/app/client.go` | the identity or address looked for, the last known device, `Adapter.connections` | `scan`, `Find` with identity probes, `connectNative`, `Connect`, `connectionChanged` | the platform's radio, `RunClient`, the packet connections |
| peripheral server, `internal/ble/server_supported.go`, `startBLEServer` | the registered service, advertisements, `current`, the one-place accept queue, `restartingAdvertisement` | start with attempts and recoveries, `ensureConnection`, `Accept`, advertisement restart, `Close` | the platform's GATT server, `RunServer` |
| server identity, `internal/app/server_id.go`, `internal/ble/identity.go` | a file | `loadOrCreateServerID` | other processes, through the file |
| BLE packet connections, `internal/ble/client_conn.go`, `server_supported.go` | receive queues, `done`, the server's one current connection and its one-place accept queue | `Send`, `push`, `forward`, `close`, `monitor`, `ensureConnection`, `closeCurrent` | platform callbacks |
| heartbeat, `internal/link/session.go`; send lock, `internal/ble/send_lock.go` | `heartbeatPending/SentAt/Failures`, `lastRX`; a one-token channel | `heartbeatLoop`, `heartbeatCheckLocked`, `heartbeatSendResultLocked`, `lockPacketSend` | the send loop and the receive loop of the same binding |
| mux scheduler, `internal/mux/session.go`, `stream.go` | stream map, `ready` and `control` channels, per stream `scheduled`, `outbound` | `schedule`, `nextOutbound`, `writeLoop`, `removeStream`, `shutdown` | writers of every stream, `readLoop` |
| mux stream, same files | windows, half-close flags, `inbound`, `outbound` | open, approve, reject, `Read`, `Write`, `CloseWrite`, `Close`, `Reset`, the frame handlers | its peer through frames, the bridge |
| bridge, `internal/bridge` | current endpoint, connection slots, each connection's `handle` | `SetEndpoint`, `serveListener`, `waitReady`, open, dial, `ProxyWithTraffic` | TCP, mux, the client loop |
| framing and compression, service list, benchmark, picker, console, operating-system calls, command line | little or none | encodings, user interface | |

What is hard in this code, and what makes each part correct:

* **Link stream.** Packets are lost, overtaken and repeated, and are cut anew when
  a binding with another MTU replays. The reader must get the written bytes
  exactly once and in order; the writer may release a byte only when the peer has
  it; fragments ahead of a gap must never block the packet that fills the gap; a
  timer must run whenever something is unacknowledged; everything written must
  arrive once bindings last.
* **Resume.** Two loops, two processes that may restart, a timer at each end, a
  handshake that is retried, connection objects that any stray packet creates.
  Two ends attached to each other must be ends of one session with compatible
  offsets; no leftover may keep the server busy for ever; the two must find each
  other again after any disturbance.
* **Heartbeat.** A probe shares a lock with bulk data that may hold it for ever.
  A silent peer must be noticed in bounded time, a live one never dropped.
* **Mux scheduler.** The `scheduled` mark is set and cleared under a stream's lock
  while the calls that act on it run outside. No wake-up may be lost or doubled,
  the queue may never be full (that ends *all* streams), a busy stream may not
  starve another, a closed stream must leave.
* **Mux stream.** Opening time-outs, resets and half-closes cross frames in
  flight; control frames overtake data. An end of file must mean all bytes; window
  space must be conserved; both ends must let go.
* **Bridge.** Sessions end and are replaced under connections that wait for one,
  open a stream on it or are proxied over it. A goroutine of an ended endpoint may
  come late; a stream may be entered while its session is torn down. The current
  endpoint must stay, no connection may be left on a dead session, every slot must
  come back, and every wait must end.

* **Discovery and connection.** The platform has one radio connection per address
  and reports its end by an event that carries only the address and may come late;
  packet connections to the same address overlap while the old one closes. Native
  connects go on after their caller has given up. No radio connection may be
  forgotten (the server would stay occupied), events must reach the connection in
  use and not harm it for ever, `Close` must return, and all of probing, guessing
  and adopting of identities must lead to the server the user meant.
* **Server process.** Several processes may create one identity file, fail or die
  over it; an identity in use must stay. A start has several steps, each with its
  own cleaning-up, attempts and recoveries; a service, an advertisement or a
  connection must not be left behind, and a server that went off the air when its
  central left must come back.

## 2. Modules

| Module | Models | Notes |
| --- | --- | --- |
| `ByteStream` | the abstract promise of one direction of a session | refined by `LinkStream` |
| `LinkStream` | one direction of a resumable session | `StreamSpec` is the refinement |
| `LinkStreamProofs` | theorems about `LinkStream` | |
| `LinkResume` | sessions, handshakes, the two loops, the two connection objects | offsets are counted, bytes are not carried |
| `LinkResumeProofs` | theorems about `LinkResume` | |
| `LinkResumeRecovery` | `LinkResume` whose disturbances may end | liveness |
| `LinkResumeHistory` | `LinkResume` with a history variable | which server sessions got the client session's bytes |
| `Heartbeat` | heartbeat loop, send loop, receive loop and send lock of one binding | discrete time |
| `HeartbeatProofs` | theorems about `Heartbeat` | |
| `MuxScheduler` | the stream map, the scheduled marks, the `ready` queue, `writeLoop` | any number of streams, frames counted |
| `MuxSchedulerProofs` | theorems about `MuxScheduler` | |
| `MuxStream` | both ends of one stream and the bridge's goroutines | the link is a pair of FIFO queues |
| `MuxStreamProofs` | theorems about `MuxStream` | |
| `BridgeClient` | the client's bridge, the succession of sessions in `RunClient`, the end of a mux session | sessions are names, streams are in the map or not |
| `BridgeClientProofs` | theorems about `BridgeClient` | |
| `Discovery` | the client's device choice, `Find`, `Connect`, the connection table, the life of a `clientPacketConn` | the platform is a set of connected addresses and a set of events |
| `DiscoveryProofs` | theorems about `Discovery` | |
| `ServerIdentity` | `loadOrCreateServerID` in several processes | a step per file-system call |
| `PeripheralServer` | `startBLEServer`, `StartServerWithOptions`, the advertisement restart, the server's connections | both kinds of platform |
| `ServerProcess` | the composition of the two: a process among others that loads its identity, serves, ends and is started again | |
| `ServerProcessProofs` | theorems about `ServerIdentity`, `PeripheralServer` and the composition | |
| `MC*` | small instances for TLC | |

The layers lean on each other as the code does. `MuxStream` takes the link to be
FIFO and loss-free, which `LinkStream` proves; it takes for granted that an
outbound queue gets its turn, which `MuxScheduler` checks; `LinkStream` lets a
binding fail and be replaced at any moment, and `LinkResume` and `Heartbeat` show
when that happens and with which offsets. `BridgeClient` sees a session only as
bound, unbound or closed, and a stream only as present, reset or gone, which are
the outcomes of the modules below it. `Discovery` and `PeripheralServer` are the two
ends of the Bluetooth connection that `LinkResume` takes as given: they say how a
packet connection comes about at each end, who ends it and when the other can be
found again.

### LinkStream

State is the code's, field by field; a byte is the number of its offset, so a byte
in a wrong place is visible. `data`, `acks` and `hellos` are sets of packets in
flight: a packet may stay after delivery (a repetition), be lost, or be overtaken.
Actions: `Write` (with the replay or live window and the end of the sequence
space), `Read`, `SendData` (go-back and flight window of `nextPacketLocked`),
`RetransmitTimeout`, `RcvRejected`/`RcvBuffered`/`RcvAdvance` (the branches of
`acceptDataLocked`, including overlap, suffix and drain), `SendAck`,
`RcvAckStale`/`RcvAckAdvance`/`RcvAckDuplicate`, the handshake (`SendHello`,
`Reconcile`, `RefuseHello`, `AbandonHandshake`) and the two ends' attachment and
failure. Reconciling and attaching are separate steps, as they are under separate
locks. Times are choices: an armed timer may fire whenever it is armed.

### LinkResume

`c` and `s` are the two `Session` values with the offsets each direction has
reached; `cPhase`, and the server loop's variables, are the program counters of
`BindClient` and `RunServer`; `sConn` and the queues are the connection objects.
`CAnswer` is one received packet of `BindClient`, with its four outcomes; the last
of them, a packet that is skipped, needs a lost HELLO_ACK.
Every early return of the two loops is an action or a disjunct. Abstractions: the two
packets HELLO_ID and HELLO (`handshake.go:131-146`) are one, which arrives or not: the
server acts only when it has both; a
client's packet reaches the server's connection when it is sent (a delay is a
later send); packets in a connection closed before it was accepted are dropped
with it; a refusal because of compression counts as "server busy"; a closed
server session is no session, since `RunServer` clears it in the same step. Two
facts of the platform are parameters. `LossyAir`: a packet may be lost on the air
or in a full receive queue. `MaxLate`: how many disconnect events may still be on
their way (`gone`) when the client is back. The history variable `doubt` marks a
connection that was made under a late event or lost a HELLO_ACK; it ends with the
connection. `AttachedAgree` is what the handshake is for, and fails in such a
connection; `ResumeSound` says that it fails in no other.

### Heartbeat

One tick is `heartbeatCheckInterval`. Goroutines that can run do so before the
next tick (`Urgent`); a write to the Bluetooth stack takes as long as it likes for
the send loop and at most `MaxWrite` ticks for PING. `pc` is where each of the two
senders is; waiting for the token, being cancelled while waiting, getting the token
and the cancellation together, and writing are separate steps, and so are the
decision to detach and `failBinding`. A platform disconnect, or the client's own
close after a failed write, closes the connection under the loops.

### MuxScheduler

Sets hold the streams with each flag, `out` counts queued frames, `calls` counts
`schedule` calls that have left the stream's lock and not yet run, `removing` and
`dying` are `removeStream` calls and the resets of `shutdown` still to come.
`writeLoop` is a program counter `wpc` with a step per lock or channel operation.
`removeStream` rotates the channel while the writer takes from it, hence
`Rotation`.

### MuxStream

`st[x]` is the `Stream` of side `x`; `app[x]` its bridge goroutines; `control[x]`
its frames in the session's control queue; `wire[x]` what is written and not yet
read. `inner[x]` says that `writeLoop` has found no control frame and stands at its
second select, where it has no preference. `Faults` lists what may go wrong
outside: a TCP read or write error, an OPEN time-out, a failed dial, a full stream
limit or accept queue, the end of the session, and `preempt`, a writer suspended
between its two selects. A behaviour has one scenario: its faults and the bytes each
side has to send. Not-graceful `Close` exists in the
model's source but the bridge never reaches it after a proxy, as in the code.

### BridgeClient

`pc[k]` is where `handle` is with connection `k`, `held[k]` the endpoint it took.
Reading the endpoint, checking it and opening a stream on it are separate steps.
`shutdown` is two: `MuxEnds` empties the map under the lock and closes `done`,
`MuxDown` closes the link and resets the streams it collected. `RunClient` goes on
only when the link is closed and `muxSession.Close` has returned, which waits for a
shutdown that is under way (`sync.Once`); so there is one live session at a time.
The counters of `Snapshot` are the numbers of connections in each phase.
A connection beyond the limit is closed without a change of state.

### Discovery

`pc` and `dev` are where `RunClient` is and with which device, through `Find`
(`scanning`, `next`, `probing`, `reading`), `Connect` (`dialing`, `discovering`,
`starting`) and the handshake (`binding`, `closing`). `up` are the addresses with a
radio connection, `events` the disconnect events not yet delivered, `late` and
`lateUp` the goroutines that `connectNative` left behind. A packet connection `k` is
open, `leaving` (`Close`, which will disconnect), `dropping` (`close(false)`, which
will not) or closed; `EnableNotifications(nil)` lies between and can take seconds.
`deviceID` is an address or an identity and is replaced by the identity that was
read. Failures without a cause in the model are *mishaps*, of which there are at most
`MaxMishaps`; a failure with a cause (nobody there, the link is down, the context is
done) costs none. `Handler` is the platform's habit: it reports every end of a radio
connection by a later event, or it calls `connectionChanged` inside each `Disconnect`,
before it ends anything, and reports nothing else (Linux, for a central). In the second
case `Disconnect` gets on only when the table has no connection at the address, since
the handler waits for the `close` of the one it finds. `Init` has the user's name or choice: an identity, or
the address of a device of the wanted server, to be tried first or not. When the user
picked it from the list, the picker's last probe of some device's services, cancelled
and not waited for, may have left a native connect or a packet connection that is
closing; to keep the run small such a start has one mishap less.
The callback `onClose` is assigned after the entry is in the table; a connection
closed in between leaves a stale entry, which does nothing (its once is used up) and
is overwritten by the next connection: the model forgets the entry.

### ServerIdentity, PeripheralServer, ServerProcess

`file` is absent, empty, torn or an identity; a crash in the write leaves an empty or
torn file. A write that fails is taken to leave nothing that can be read as an
identity (a write that loses only the final newline would). `spoiled` records that a
process died over an unfinished file, or could not remove it.

`stage` is where the start, the service or the end is; `windows` is the platform, chosen
once, and `recovers` the option, chosen at each start. `native` is the WinRT
advertisement that belongs to the service, `advert` the generic one. A central may
arrive whenever the server is visible, leave at any time and be followed by another
before its disconnect event is handled. `rpc` is the restart goroutine; its wait, its
tries and the clearing of `restartingAdvertisement` are separate steps. A try is
`RestartServiceAdvertisement` (`third_party/bluetooth-v0.15.0/gatts_windows.go:354-383`)
in four: it looks the provider up under a lock, stops it, starts it and waits for it to
have started (`RestartLooksUp`, `RestartStops`, `RestartStarts`, `RestartWorks`), and
`RemoveService` may come between any two. Whether the released provider of a removed
service still starts is undefined; the model allows both, and `revived` records that it
did. `ensureConnection` makes a connection current under the lock and offers it after
that (`Offer`); several write callbacks may be between the two (`offered` is a set).
`Accept` may still take a connection when the server is closing, as its `select` may.
Failures of `Stop` and `RemoveService` are logged only and not modelled.

`ServerProcess` lets one process go through both parts, and through a crash or exit at
any point back to its start, while other processes use the same file.

## 3. Runs

| Run | Instance | Shows |
| --- | --- | --- |
| `link_safety` | replay window 4 = all bytes, receive window 3 below it, packets up to 2 bytes, 2 DATA, 1 ACK, 1 handshake offset in flight, flight window 2 to 3 | `ExactDelivery`, `ReplayCovers`, `FragmentsExact`, `NoReplayError`, `MemoryBound`, `GapFillFits`, `RetransmitArmed`, refinement of `ByteStream` |
| `link_liveness` | windows 2 below the 3 bytes sent, fair | `Delivered` |
| `resume` | 2 identifiers, one byte in either direction, queues of 1, lossy air, fair once calm | `TypeOK`, `ResumeSound`, `NeverBusyForever`, `Recovers` |
| `resume_lossy` | 3 identifiers up to symmetry, 2 bytes, queues of 2, lossy air | violated: `AttachedAgree` |
| `resume_restart` | 2 identifiers, 2 bytes, reliable air | violated: `OldStreamsClose` |
| `heartbeat` | interval 3, response 2, limit 2, send time-out 5, PING write up to 5 ticks | `TokenKept`, `AliveKept`, `DetectsInTime` |
| `mux_turns` | 2 streams, limit 2, 2 queued frames, fair | `NoLostWakeup`, `SchedulerFits`, `ReleaseComes`, `Flows` |
| `stream` | window 2, updates of 2, one frame on the wire; either 3 bytes up and 1 down without faults, or a one-byte reply with all faults; fair | `TypeOK`, `EOFExact`, `WindowConserved`, `ControlShare`, `Transfers`, `HalfClose`, `BothEndsRelease` |
| `discovery` | 3 addresses (the wanted server, another, a free one), 2 identities, 2 connections at a time, 3 mishaps, fair | `Owned`, `TableCurrent`, `RightServer`, `Reconnects` |
| `close_linux` | the same without mishaps, a platform that calls back inside `Disconnect`, fair | violated: `CloseReturns` |
| `server_start` | 2 processes, 2 identities, 4 attempts, 2 tries of the restart, 2 connections, 2 visits, fair | `IdentityKept`, `Accounted`, `AdvertisesAgain` |
| `bridge` | 3 connections, limit 2, 2 sessions in use, fair | `TypeOK` (each slot has one holder), `EndpointCurrent`, `NoOrphan`, `Settles`, `Renewed` |

The other modules' type invariants are proved.

**Why the bounds are enough.** The link instances let a packet straddle what was
delivered, what is kept and what is new (packets of one and two bytes at any of
four offsets, as the writer's bytes come), a retransmission meet the original, an
ACK meet a newer one, and a rebinding meet packets of the old binding; the sequence
space ends at four bytes, so its edge is reached. The receive window is below what
is sent: only then can it be full. A rebinding with another packet size is in the
proofs, whose `Sizes` is any set, and not in the run. For resume, two identifiers are the session of a client and the
one that the server still keeps for its predecessor; one byte, of either end, is enough
for an offset to be reached, asked for, released or out of range, and one place in each
queue for a packet that waits, is overtaken by the end of its connection, or finds no
room. What needs more (a foreign HELLO behind another one, bytes both ways, late
disconnect events) is in the proofs, which are for all of these constants, and in the
searches of `resume_lossy` and `resume_restart` up to their violations. Two streams are the least that can
starve each other. Two session names let the goroutine and the connections of an
ended session outlive the start of the next. A stream larger than its window and a threshold equal to the
window make the update the only way on. The heartbeat instance keeps the code's
proportions (3 s, 2 s, 2 failures, 5 s); `DetectsInTime`'s bound is attained, one
tick less is violated, for a PING write of 1, 3 or 5 ticks. Bounds named `Max...` cap counters in the guards only.

In `discovery`, three mishaps let a connect be given up, succeed late and meet a second
failure of its successor, or a server move and lose its connection twice; two packet
connections are the one that closes and its successor, and a third waits for one of
them. In `server_start`, two identities make the second draw differ from the first,
attempts are as in the code (two recoveries and two plain retries fit), two tries
(the code has three) are a first and a last one, and two visits let the event of one
central meet the other.

**Fairness.** Goroutines that can run do run (weak fairness of every loop step).
Strong fairness is used where the code repeats until it succeeds: of packets sent
again and again one arrives, of a select's ready cases each is chosen some of the
time. `mux_turns` assumes that control frames do not occupy the writer for ever:
each answers or announces something, and window updates are bounded by data.
`stream` assumes that TCP peers take what they are given and that a dial
returns, which its time-out ensures. `Recovers` assumes an end of
disturbances: from some moment on there is no outage, restart or close, the 15 s
handshake deadline is not reached while the link is up, a repeated HELLO does not
cross an answer already waiting, and a resume timer does not run out in the middle
of a handshake for its session. It is checked without late disconnect events
(`MaxLate = 0`): if each event came after the next connection was made, it would end
that connection, again and again. The goroutine of `RunClient`, the receive loop and the
accept loop each get their turn as one (a disjunction of their steps), timers, the send
loop and platform events as others. `Recovers`, `HalfClose` and `BothEndsRelease` have the
form "again and again, if so then": what they assume does not cease once it holds, so
this is the same as "leads to". The scenario without faults in `stream` has no
`preempt`: the writer is not suspended between its two selects.

`discovery` assumes that native calls return, the events of the platform come and
goroutines run (weak fairness); nothing is assumed of when. `Reconnects` says that
after the last mishap the client settles; `server_start` assumes that of a start, a
restart and an end that has begun each next step comes, and that a handler called by
the platform runs. A process may die, or never get to anything else.

`bridge` assumes nothing of the link, of TCP or of the peer: goroutines run and
deadlines pass, and `waitReady`, woken again and again, some time finds its deadline
passed (strong fairness: its `select` picks any ready case).

**Deadlock** is checked in the link and bridge runs. The other instances end:
identifiers are used up, the binding or the stream is over.

## 4. What disagrees with the documentation

* `resume_restart`: `docs/manual-testing.md` and the repository's README say that
  after a restart old streams close and never attach to the new process. The
  server makes a session for whatever identifier a HELLO carries
  (`internal/app/server.go:144`), and an offset of zero is compatible with a fresh
  session, so a client session whose first bytes were delivered but not yet
  acknowledged resumes, and its bytes reach two server sessions.

* `resume_lossy`: `docs/protocol.md:33` says "A request outside that interval fails
  rather than silently losing or duplicating bytes." HELLO_ACK names no session
  (`internal/link/session.go:208`), so a client may attach with the answer of a server
  session that has been replaced since, if the successor's answer is lost: on the air, or
  in a full receive queue (`internal/ble/client_conn.go:50`,
  `internal/ble/server_supported.go:271`). The successor then waits for bytes that the
  client has released. Both ends answer heartbeats while no byte is accepted. A
  disconnect event that comes late gives the same end (`MaxLate = 1`).
* `close_linux`: the repository's README says at line 236 "Use `Ctrl+C` to close the
  listener, BLE resources, active streams, and target sockets cleanly.", and at line 247
  "The client and server then reuse their normal discovery/advertising loops to rebind
  the same session." `clientPacketConn.close` calls `Disconnect` inside its `sync.Once`
  (`internal/ble/client_conn.go:139`). The vendored Linux backend calls the connect
  handler from inside `Disconnect`
  (`third_party/bluetooth-v0.15.0/gap_linux.go:538-548`), the handler is
  `connectionChanged`, and since the connection is still in the table it calls
  `close(false)` on it and waits for the same once. `Close` never returns, and with it
  `RunClient` after an interrupted start or a failed handshake, or the goroutine that
  gave a binding up. `Reconnects` is therefore claimed for the other platforms.
* The README says at line 246 "A blocked heartbeat write uses the same two-second
  deadline." The deadline ends only the wait for the send lock
  (`internal/link/session.go:673-675`); the native write after it
  (`internal/ble/client_conn.go:110-113`) is not interrupted. `Heartbeat` lets it last up
  to `MaxWrite` ticks, which is an assumption about the Bluetooth stack and enters the
  bound of `DetectsInTime`; a PING write that never returns would never be noticed by
  the heartbeat loop. No run shows this, because the model has the assumption built in.

More were met that no document speaks of; they have no run of their own.

* **DATA before OPEN_OK.** `writeLoop` prefers control frames only at its first
  select. If OPEN_OK and the first DATA are queued while it stands between the two,
  DATA may leave first and the client resets the stream (`internal/mux/stream.go:239`).
  `Transfers` is about behaviours without this (`preempt`).
* **A link left up.** A failed `Send`, `monitor` and a late disconnect event close the
  packet connection without disconnecting (`close(false)`). If the radio connection is
  in fact up, nobody ends it. A server that does not advertise while it is connected
  is then out of reach until the platform drops the connection: the exception
  `LockedOut` in `Reconnects`, `abandoned` in `Owned`.
* **A lost advertisement restart.** `scheduleAdvertisementRestart` ignores an event
  while `restartingAdvertisement` is set. If the restart has just succeeded, a central
  came and went, and the deferred function has not run yet, nothing restarts the
  advertisement (`missed` in `AdvertisesAgain`; also an event before `AddService` has
  returned, when there is no restart function).
* **An advertisement after Close.** `RestartServiceAdvertisement` uses the provider it
  looked up without the lock, for seconds, and never looks at `done`.
  `RemoveService` ("stops advertising the service and removes it",
  `third_party/bluetooth-v0.15.0/gatts_windows.go:385`) may come in between; the restart
  then calls into a provider that has been released, and a closed server may be left
  advertising until its process ends (`revived` in `Accounted`).
* **A recovery at the last attempt.** After a radio or service recovery
  `startBLEServer` logs "retrying GATT registration" and continues the loop; at the
  fourth attempt there is no further one (`Recover` with `NextAttempt`).
* **Another server at the address.** `lastDevice` is dialled by address and whatever
  identity is found there is adopted, so `RightServer` needs that other servers keep
  their addresses (`Movers`); a server moving to the address of the wanted one would be
  taken for it, and remain the one looked for.
* **A crash over the identity file** leaves it empty, and every later start fails with
  a parse error until the file is removed by hand (`spoiled` in `IdentityKept`).
* `ProxyWithTraffic` calls `CloseWrite` before it looks at the copy's error, so
  after a failed TCP read the peer may see FIN, and a clean end of file, before
  RESET. `EOFExact` therefore speaks of the bytes taken from TCP, not of how TCP
  ended.

* A connection's slot is free as soon as `handle` returns, while its stream stays in
  the mux session's map until it has drained. With both limits equal
  (`--max-connections`), a connection admitted by the bridge can be refused by
  `OpenService` as one stream too many (`OpenRefused` in `BridgeClient`).

## 5. Proofs

All proofs are for arbitrary constants under the modules' named assumptions
(positive windows and limits, packet sizes within the receive window, a response
interval no longer than the probe interval).

**`LinkStreamProofs`**: `TypeCorrect`, `DeliveryIsExact`, `ReplayIsCovered`,
`TimerIsArmed`, `PeersAgree`, and `Implements` (every step of `LinkStream` is a
step or a stutter of `ByteStream`). `ExactDelivery` alone is not inductive: a
packet in flight or a kept fragment could hold anything. `Inv` adds that whatever
carries bytes (replay buffer, packets, fragments, read buffer) carries the bytes
its offset names and only written ones, that `txBase <= rxNext <= txNext`, and that
every ACK or handshake offset in flight is one the receiver has reached. The last
is what makes releasing safe; the first is what makes overlap harmless.
`FragmentsStayExact`, `MemoryStaysBounded` and `GapAlwaysFits` rest on a second
invariant, `StoreInv`: the fragments lie apart (`Tidy`) and end within one receive
window of the gap, no packet is longer than that window, and the counter, the buffers
and the map are in bounds. The code's counter and its overlap sum are sums over a set
of fragments; because the fragments lie apart, each sum is the number of offsets they
hold (`Counted`, `OverlapCounted`), and a trim keeps exactly the offsets from the
packet's end on (`TrimOffsets`). So the overlap the packet replaces and the kept
fragments make up the counter (`CountHalves`), the counter after a drain is what the
drain leaves (`CountAfterExact`), and the offsets kept fit between the packet's end and
the end of the window, which is `GapAlwaysFits`: it needs the distance check of
`acceptDataLocked`, not only its memory check.

**`MuxSchedulerProofs`**: `TypeCorrect`, `QueueNeverFull`, `WakeupsAreKept`,
`TurnsAreSingle`, `ReleaseIsUnderWay`. The argument is that a stream's turn is a
token: created with the `scheduled` mark, moved from the call to the queue to the
writer, given up with the mark. `Inv` is `TypeOK`, `OneTurn` and: unused streams
have no token (`Fresh`), a stream that can still be written to and is unmarked has
none (`Idle`), a marked stream of the map has one (`Marked`), queued frames mean a
mark (`Pending`), only streams of the map are in the queue and they respect the
limit (`Listed`). The queue then holds fewer than the limit whenever a stream
outside it is to enter: the shutdown branch of `schedule` is dead code, for any
number of streams over time. `ReleaseIsUnderWay` adds that the end of a session
empties the map before it closes the streams.

**`HeartbeatProofs`**: `TypeCorrect`, `TokenIsKept`, `AliveIsKept`,
`DeadPeerNoticed`. For `AliveIsKept`,
failures must be tied to silence: each counted failure stands for a response
interval without a packet and the probe that is out for `sinceSent` ticks more
(`Unanswered`); an answer clears both (`Cleared`); a probe waiting to be sent has
waited in silence for its whole age unless a packet was heard (`Unheard`).
`DeadPeerNoticed` (`DetectsInTime`) is the converse and counts silence from above:
`Watched` bounds it in each phase of a probe by what went before (`Before`: the
longest excused silence and a full turn for each failure counted) and the probe's
own wait, write and response. The first attempt showed that the bound had been too
small for a PING write longer than the interval: a probe answered while it is still
being written excuses the whole write (`Excused`).

**`LinkResumeProofs`**: `TypesHold`, `KeptSessionsEnd` (`NeverBusyForever`), and
`ResumptionSound` (`ResumeSound`), for any number of identifiers, bytes and queue
places, with and without losses, and for any number of late disconnect events. What it
says of a connection depends on that connection only: `doubt` starts with a disconnect
event on its way and is set by a lost HELLO_ACK. (`AttachedAgree`, without `doubt`, is
what `resume_lossy` refutes.) As long as there is no doubt, `Resumable` adds to the types
and the phases of the two programs: a connection object of the server belongs to the
client's connection (`Paired`), an offset in a HELLO is one the client has reached
for the session it has now (`HellosCurrent`), a HELLO_ACK under way comes from the
session that is attached (`Answering`), and two ends with one identifier have
offsets that each can serve (`Agreed`).

**`MuxStreamProofs`**: `TypesHold`, `WindowsConserved`, `ControlShared`,
`StreamEndsExact` (`EOFExact`), for all windows, thresholds, payload sizes, bytes
and faults. None of the four stands alone. `Flow` is the types, `WindowConserved`
and: whatever is closed, the parts of a window never exceed it (`Balance`, without
which a late update could overflow a window that nobody checks any more), the queues
hold the kinds of frames they should (`Kinds`), the flags follow the connection's
goroutine and a stream is opened once (`Opens`, by counting OPEN and OPEN_OK in the
queues), and the frames of the control queue that are not updates are one for the
opening and one for the end (`Share`). `ControlShare` follows because an update is
worth `Threshold` at least. `Exact` is the argument for the end of file: FIN is the
last frame queued and no DATA follows it on the link (`Fins`); as long as the reader
copies, what was sent is what it has, what is on the link and what is queued, and
once FIN is on the link nothing is queued any more, even if the writer has let the
stream go since (`Arrives`).

**`BridgeClientProofs`**: `TypeCorrect`, `EndpointStaysCurrent`,
`NobodyIsOrphaned`, for any finite set of connections. `EndpointCurrent` is
inductive because it also says that the current session's goroutine still waits
while its mux session runs: a goroutine about to clear belongs to another session.
`NoOrphan` is inductive because entering the map and emptying it are each one step.
The slots need finite-set cardinalities, and the draining streams the bound on the
map (`Room`).

**`DiscoveryProofs`**: `DiscoveryTypes`, `RadioOwned`, `TableIsCurrent`, and
`BindsRightServer` under `Movers \subseteq {Wanted}`, for any number of addresses,
servers, connections and mishaps and both kinds of platform. `DInv` adds to the types
that a radio connection leads to somebody (`UpInv`), that only one of `RunClient` and
the link has a connection and an entry of the table names a connection with that
address (`ConnInv`): without the last, an event could close a connection to another
address and leave its radio connection without an owner. For the right server,
`NameInv` says that an address is *ours* if the wanted server is or may come there,
and that everything `RunClient` goes by (the identity, the known device, the device at
hand, the bound connection) is ours.

**`ServerProcessProofs`**: of `ServerIdentity`, for any number of processes,
`IdentityTypes` and `IdentityIsKept`. `IdentityKept` is not inductive: who removes the
file must know that nobody uses it. `IdentityInv` adds that one process at most has the
file open (`O_EXCL`), and what that process knows of its contents (`Knows`). Of the
composed process,
`PeripheralTypes`, `ServerAccounted`, `ServerKeepsIdentity`
and `ProcessImplementsIdentity`: the composed process implements `IdSpec`. `PInv` says
what is registered at each stage, and that only Windows has a native advertisement and
a restart. A restart that looks the provider up late finds none; one that has it already
can bring the advertisement back, and `PInv` says that only then does a native
advertisement outlive its service.

**Only model-checked.** All liveness (`Delivered`, `Recovers`, `Flows`,
`Transfers`, `HalfClose`, `BothEndsRelease`, `Settles`, `Renewed`, `Reconnects`,
`AdvertisesAgain`): the prover has no
support for fairness. Every invariant of a passing run is stated by a theorem. The
induction theorems of the library, which take an operator, cannot be instantiated; where
a sum over a sequence or a set needs induction, the proofs use that `<` is well founded
on the natural numbers, which speaks of sets: every set with 0 that is closed under the
successor has all of them (`SetInduction` in `LinkStreamProofs` and `MuxStreamProofs`).

## 6. Not modelled, and why

Frame encoding, compression and service-name parsing are pure functions over
bytes. The contents of advertisements decide only whether a device is one of ours.
The checks and recoveries of the platform (radio reset, service restart, sleep
prevention) are calls into the operating system, of which success and failure are
modelled. Picker, console, statistics and the command line are user interface; what
the picker hands over is an initial state of `Discovery`. Its last service probe may
also be further back than that state has it: still discovering services inside its own
`Connect` while `RunClient` connects to the same address, it would enter its connection
into the table over the newer one. This is left out; `TableCurrent` is claimed for one
`Connect` at a time. The benchmark is a load generator above the mux. Within modelled
parts, statistics, logging, read and write deadlines of streams (only the benchmark sets
them) and `CloseRead` are left out, and the scan's `scanMu`, since `RunClient` is the
only one to scan once it runs. `connectNative`'s check of the connected device
(`validateConnectedDevice`, `internal/ble/ble.go:428-430`) returns its error without
disconnecting; with the vendored backends it never fails, and `DialFailed` leaves it out.

## 7. Plan

In order:

1. A composition of `LinkResume` and `MuxScheduler`: the end of a link session ends
   its mux session and every stream.
2. A composition of `Discovery` and `PeripheralServer` over one radio, in which the
   server's advertising and the client's leftovers meet.
