-------------------------- MODULE PeripheralServer --------------------------
(***************************************************************************)
(* The server's Bluetooth side in one process: startBLEServer's attempts   *)
(* and recoveries (src/internal/app/server.go), StartServerWithOptions,    *)
(* the advertisement restart and the one current connection of the         *)
(* peripheralServer (src/internal/ble/server_supported.go).                *)
(*                                                                         *)
(* The platform tells of a central that went away by an event, maybe late. *)
(* On Windows the service advertises by itself and may stop doing so when  *)
(* a central goes; elsewhere there is a generic advertisement beside it.   *)
(***************************************************************************)
EXTENDS Naturals

CONSTANTS
    Attempts,           \* startBLEServer's attempts
    Tries,              \* the restart's attempts
    Conns, NoConn,      \* serverPacketConn values (bound: that many at a time)
    MaxVisits           \* bound on the visits of centrals

ASSUME PeripheralAssumption ==
    /\ Attempts \in Nat \ {0} /\ Tries \in Nat \ {0} /\ MaxVisits \in Nat
    /\ NoConn \notin Conns

VARIABLES
    windows,            \* runtime.GOOS (never changes)
    recovers,           \* startBLEServer may try to recover the adapter
    stage,              \* of the start, the service and the end
    attempt,            \* startBLEServer's loop variable
    radioTried, servicesTried,
    service,            \* the GATT service is registered
    native,             \* it advertises (Windows)
    advert,             \* the generic advertisement is on (elsewhere)
    ctxDone,            \* the program's context is cancelled
    done,               \* peripheralServer.done is closed
    central,            \* a central is connected
    visits,             \* visits so far
    event,              \* a disconnect event is on its way
    restarting,         \* restartingAdvertisement
    rpc,                \* the restart goroutine: "none", "wait", "ends", or in a try: "try",
                        \* "found" (the provider), "stopped", "started"
    tries,              \* its loop variable
    gaveUp, missed,     \* history, since the last visit: all tries failed; the event was ignored
    revived,            \* history: a service that had been removed was made to advertise
    current,            \* peripheralServer.current
    open,               \* connections that are not closed
    offered,            \* connections that a write callback is about to queue
    queued,             \* peripheralServer.connections, with one place
    accepted            \* connections that Accept has returned

start   == <<stage, attempt, radioTried, servicesTried, ctxDone, done>>
radio   == <<service, native, advert>>
visit   == <<central, visits, event>>
restart == <<restarting, rpc, tries, gaveUp, missed, revived>>
packets == <<current, open, offered, queued, accepted>>
pVars   == <<windows, recovers, start, radio, visit, restart, packets>>
kind    == <<windows, recovers>>

PInit ==
    /\ windows \in BOOLEAN /\ recovers \in {FALSE, windows}
    /\ stage = "enable" /\ attempt = 1 /\ radioTried = FALSE /\ servicesTried = FALSE
    /\ ctxDone = FALSE /\ done = FALSE
    /\ service = FALSE /\ native = FALSE /\ advert = FALSE
    /\ central = FALSE /\ visits = 0 /\ event = FALSE
    /\ restarting = FALSE /\ rpc = "none" /\ tries = 0 /\ gaveUp = FALSE /\ missed = FALSE
    /\ revived = FALSE
    /\ current = NoConn /\ open = {} /\ offered = {} /\ queued = NoConn /\ accepted = {}

-----------------------------------------------------------------------------
(* StartServerWithOptions.                                                 *)

Fails(aborted) ==
    stage' = IF aborted THEN "aborted" ELSE "failedOnce"

Enabled ==
    /\ stage = "enable" /\ stage' = "add"
    /\ UNCHANGED <<kind, attempt, radioTried, servicesTried, ctxDone, done, radio, visit, restart, packets>>

EnableFails ==
    /\ stage = "enable" /\ Fails(FALSE)
    /\ UNCHANGED <<kind, attempt, radioTried, servicesTried, ctxDone, done, radio, visit, restart, packets>>

\* From here on centrals may come and write.
AddService ==
    /\ stage = "add" /\ stage' = "added" /\ service' = TRUE /\ native' = windows
    /\ UNCHANGED <<kind, attempt, radioTried, servicesTried, ctxDone, done, advert, visit, restart, packets>>

\* AddService cleans up after itself, and may report an aborted advertisement.
AddServiceFails ==
    /\ stage = "add" /\ \E aborted \in {FALSE, windows} : Fails(aborted)
    /\ UNCHANGED <<kind, attempt, radioTried, servicesTried, ctxDone, done, radio, visit, restart, packets>>

\* startBLEServer returns the listener; its option and variables are no more.
Serves ==
    /\ stage' = "serving" /\ attempt' = 1 /\ radioTried' = FALSE /\ servicesTried' = FALSE
    /\ recovers' = FALSE

\* restartServiceAdvertisement is set.
Added ==
    /\ stage = "added"
    /\ IF windows
       THEN Serves
       ELSE stage' = "advertise" /\ UNCHANGED <<attempt, radioTried, servicesTried, recovers>>
    /\ UNCHANGED <<windows, ctxDone, done, radio, visit, restart, packets>>

Advertise ==
    /\ stage = "advertise" /\ Serves /\ advert' = TRUE
    /\ UNCHANGED <<windows, ctxDone, done, service, native, visit, restart, packets>>

\* Configure or Start fails: Stop, then RemoveService.
AdvertiseFails ==
    /\ stage = "advertise" /\ Fails(FALSE) /\ advert' = FALSE /\ service' = FALSE
    /\ UNCHANGED <<kind, attempt, radioTried, servicesTried, ctxDone, done, native, visit, restart, packets>>

-----------------------------------------------------------------------------
(* startBLEServer.                                                         *)

NextAttempt ==
    IF attempt < Attempts THEN stage' = "enable" /\ attempt' = attempt + 1
                          ELSE stage' = "failed" /\ UNCHANGED attempt

\* selectBLERecovery and RecoverServerAdapter or recoverBluetoothServicesElevated.
\* A recovery that works goes straight to the next attempt, if there is one.
Recover ==
    /\ stage = "aborted" /\ recovers /\ ~ ctxDone /\ ~ (radioTried /\ servicesTried)
    /\ radioTried' = TRUE /\ servicesTried' = radioTried
    /\ \/ NextAttempt
       \/ stage' = "failedOnce" /\ UNCHANGED attempt
    /\ UNCHANGED <<kind, ctxDone, done, radio, visit, restart, packets>>

NoRecovery ==
    /\ stage = "aborted" /\ (~ recovers \/ ctxDone \/ (radioTried /\ servicesTried))
    /\ stage' = "failedOnce"
    /\ UNCHANGED <<kind, attempt, radioTried, servicesTried, ctxDone, done, radio, visit, restart, packets>>

\* Only Windows tries again, after a wait that the context can cut short.
Backoff ==
    /\ stage = "failedOnce"
    /\ IF ~ windows \/ ctxDone THEN stage' = "failed" /\ UNCHANGED attempt ELSE NextAttempt
    /\ UNCHANGED <<kind, radioTried, servicesTried, ctxDone, done, radio, visit, restart, packets>>

Cancel ==
    /\ ~ ctxDone /\ ctxDone' = TRUE
    /\ UNCHANGED <<kind, stage, attempt, radioTried, servicesTried, done, radio, visit, restart, packets>>

-----------------------------------------------------------------------------
(* The current connection.                                                 *)

\* closeCurrent.
CloseCurrent == current' = NoConn /\ open' = open \ {current}

Spare == Conns \ (open \cup accepted \cup offered \cup {queued})

\* ensureConnection for a packet that a central wrote: if there is no open
\* connection to take it, a new one is made current, and then, after the lock,
\* offered to Accept; another callback may do the same meanwhile.
ensureConnection ==
    /\ central /\ service /\ current \notin open /\ Spare # {}
    /\ LET k == CHOOSE k \in Spare : TRUE IN
         current' = k /\ open' = open \cup {k} /\ offered' = offered \cup {k}
    /\ UNCHANGED <<kind, start, radio, visit, restart, queued, accepted>>

\* Fault: a connection that Accept has no room for stays open.
OfferLeavesOpen(k) ==
    /\ k \in offered /\ offered' = offered \ {k}
    /\ queued' = IF queued = NoConn THEN k ELSE queued
    /\ UNCHANGED <<kind, start, radio, visit, restart, current, open, accepted>>

\* If there is no room, or the server is ending, the connection is closed.
Offer(k) ==
    /\ k \in offered /\ offered' = offered \ {k}
    /\ \/ queued = NoConn /\ queued' = k /\ UNCHANGED <<open, current>>
       \/ /\ queued # NoConn \/ done
          /\ open' = open \ {k}
          /\ current' = IF current = k THEN NoConn ELSE current
          /\ UNCHANGED queued
    /\ UNCHANGED <<kind, start, radio, visit, restart, accepted>>

\* Until RunServer is gone, its select may choose the queue, the end at hand too.
Accept ==
    /\ stage \in {"serving", "closing", "stopped"} /\ queued # NoConn
    /\ queued' = NoConn /\ accepted' = accepted \cup {queued}
    /\ UNCHANGED <<kind, start, radio, visit, restart, current, open, offered>>

\* RunServer or the link session closes a connection; onClose clears current.
CloseConn(k) ==
    /\ k \in accepted /\ accepted' = accepted \ {k} /\ open' = open \ {k}
    /\ current' = IF current = k THEN NoConn ELSE current
    /\ UNCHANGED <<kind, start, radio, visit, restart, offered, queued>>

-----------------------------------------------------------------------------
(* Centrals, and the advertisement restart.                                *)

\* Somebody may find and connect to the server.
Visible == native \/ advert

Arrives ==
    /\ service /\ Visible /\ ~ central /\ visits < MaxVisits
    /\ central' = TRUE /\ visits' = visits + 1
    /\ UNCHANGED <<kind, start, radio, event, restart, packets>>

\* The central goes; WinRT may have stopped advertising by then.
Leaves ==
    /\ central /\ ~ event
    /\ central' = FALSE /\ event' = TRUE /\ native' \in {native, FALSE}
    /\ gaveUp' = FALSE /\ missed' = FALSE
    /\ UNCHANGED <<kind, start, service, advert, visits, restarting, rpc, tries, revived, packets>>

\* scheduleAdvertisementRestart. The event is wasted before AddService has
\* returned, and when a restart that has done its work is not over yet.
Schedule ==
    /\ IF stage # "added" /\ ~ restarting
       THEN restarting' = TRUE /\ rpc' = "wait" /\ tries' = 1 /\ UNCHANGED <<gaveUp, missed>>
       ELSE /\ missed' = (stage = "added" \/ rpc = "ends")
            /\ UNCHANGED <<restarting, rpc, tries, gaveUp>>
    /\ UNCHANGED revived

\* The connect handler: the event closes whatever connection is current.
Disconnected ==
    /\ event /\ event' = FALSE /\ CloseCurrent
    /\ IF windows THEN Schedule ELSE UNCHANGED restart
    /\ UNCHANGED <<kind, start, radio, central, visits, offered, queued, accepted>>

\* 750 milliseconds, or the wait after a failed try; done ends both.
Wait ==
    /\ rpc = "wait" /\ rpc' = IF done THEN "ends" ELSE "try"
    /\ UNCHANGED <<kind, start, radio, visit, restarting, tries, gaveUp, missed, revived, packets>>

\* A try is RestartServiceAdvertisement. It looks the provider up under a lock
\* and goes on without it: RemoveService may come at any point after that.
RestartLooksUp ==
    /\ rpc = "try" /\ service /\ rpc' = "found"
    /\ UNCHANGED <<kind, start, radio, visit, restarting, tries, gaveUp, missed, revived, packets>>

\* The provider is made to stop, unless it has, and has come to a stop.
RestartStops ==
    /\ rpc = "found" /\ native' = FALSE /\ rpc' = "stopped"
    /\ UNCHANGED <<kind, start, service, advert, visit, restarting, tries, gaveUp, missed, revived, packets>>

\* The provider of a service that was removed has been released, so that it is
\* undefined whether it starts (here) or the call fails (RestartFails).
RestartStarts ==
    /\ rpc = "stopped" /\ native' = TRUE /\ rpc' = "started" /\ revived' = ~ service
    /\ UNCHANGED <<kind, start, service, advert, visit, restarting, tries, gaveUp, missed, packets>>

\* The provider's status says that it has started.
RestartWorks ==
    /\ rpc = "started" /\ native /\ rpc' = "ends"
    /\ UNCHANGED <<kind, start, radio, visit, restarting, tries, gaveUp, missed, revived, packets>>

\* There is no provider, or one of the calls or waits after that fails.
RestartFails ==
    /\ \/ rpc = "try" /\ ~ service /\ UNCHANGED native
       \/ rpc \in {"found", "stopped", "started"} /\ native' \in {native, FALSE}
    /\ IF tries < Tries
       THEN rpc' = "wait" /\ tries' = tries + 1 /\ UNCHANGED gaveUp
       ELSE rpc' = "ends" /\ gaveUp' = TRUE /\ UNCHANGED tries
    /\ UNCHANGED <<kind, start, service, advert, visit, restarting, missed, revived, packets>>

\* Fault: only a restart that worked clears the mark.
RestartEndsUncleared ==
    /\ rpc = "ends" /\ rpc' = "none" /\ tries' = 0 /\ restarting' = gaveUp
    /\ UNCHANGED <<kind, start, radio, visit, gaveUp, missed, revived, packets>>

RestartEnds ==
    /\ rpc = "ends" /\ rpc' = "none" /\ tries' = 0 /\ restarting' = FALSE
    /\ UNCHANGED <<kind, start, radio, visit, gaveUp, missed, revived, packets>>

-----------------------------------------------------------------------------
(* peripheralServer.Close, by RunServer as it returns or by the goroutine  *)
(* that waits for the context; the once makes the second caller wait.      *)

CloseBegins ==
    /\ stage = "serving"
    /\ stage' = "closing" /\ done' = TRUE /\ CloseCurrent
    /\ UNCHANGED <<kind, attempt, radioTried, servicesTried, ctxDone, radio, visit, restart, offered, queued, accepted>>

CloseStops ==
    /\ stage = "closing" /\ stage' = "stopped" /\ advert' = FALSE
    /\ UNCHANGED <<kind, attempt, radioTried, servicesTried, ctxDone, done, service, native, visit, restart, packets>>

CloseRemoves ==
    /\ stage = "stopped" /\ stage' = "closed" /\ service' = FALSE /\ native' = FALSE
    /\ UNCHANGED <<kind, attempt, radioTried, servicesTried, ctxDone, done, advert, visit, restart, packets>>

\* The process ends, and with it all of this; the next one starts as PInit.
Gone ==
    /\ stage' = "enable" /\ attempt' = 1 /\ radioTried' = FALSE /\ servicesTried' = FALSE
    /\ ctxDone' = FALSE /\ done' = FALSE
    /\ service' = FALSE /\ native' = FALSE /\ advert' = FALSE
    /\ central' = FALSE /\ visits' = 0 /\ event' = FALSE
    /\ restarting' = FALSE /\ rpc' = "none" /\ tries' = 0 /\ gaveUp' = FALSE /\ missed' = FALSE
    /\ revived' = FALSE
    /\ current' = NoConn /\ open' = {} /\ offered' = {} /\ queued' = NoConn /\ accepted' = {}
    /\ recovers' \in {FALSE, windows} /\ UNCHANGED windows

-----------------------------------------------------------------------------
Start == Enabled \/ EnableFails \/ AddService \/ AddServiceFails \/ Added \/ Advertise
         \/ AdvertiseFails \/ Recover \/ NoRecovery \/ Backoff
Close == CloseBegins \/ CloseStops \/ CloseRemoves
Restart == Wait \/ RestartLooksUp \/ RestartStops \/ RestartStarts \/ RestartWorks
           \/ RestartFails \/ RestartEnds

PNext ==
    \/ Start \/ Cancel \/ Close \/ Restart \/ Disconnected \/ Accept
    \/ Arrives \/ Leaves \/ ensureConnection
    \/ \E k \in Conns : Offer(k) \/ CloseConn(k)

PSpec == PInit /\ [][PNext]_pVars

-----------------------------------------------------------------------------
PTypeOK ==
    /\ windows \in BOOLEAN /\ recovers \in BOOLEAN
    /\ stage \in {"enable", "add", "added", "advertise", "serving", "aborted", "failedOnce",
                  "failed", "closing", "stopped", "closed"}
    /\ attempt \in 1..Attempts /\ radioTried \in BOOLEAN /\ servicesTried \in BOOLEAN
    /\ ctxDone \in BOOLEAN /\ done \in BOOLEAN
    /\ service \in BOOLEAN /\ native \in BOOLEAN /\ advert \in BOOLEAN
    /\ central \in BOOLEAN /\ visits \in 0..MaxVisits /\ event \in BOOLEAN
    /\ restarting \in BOOLEAN /\ tries \in 0..Tries
    /\ rpc \in {"none", "wait", "try", "found", "stopped", "started", "ends"}
    /\ gaveUp \in BOOLEAN /\ missed \in BOOLEAN /\ revived \in BOOLEAN
    /\ {current, queued} \subseteq Conns \cup {NoConn}
    /\ open \subseteq Conns /\ accepted \subseteq Conns /\ offered \subseteq Conns

\* Nothing the server made is left without somebody to end it. A start that
\* failed leaves no service registered and does not advertise. Nor does a server
\* that was closed, unless a restart that had the provider in hand, from before
\* the service was removed, started it again. And until the server
\* ends an open connection is being offered, waits for Accept or has been
\* accepted, whatever the order of packets, disconnect events and closings.
Accounted ==
    /\ stage \in {"aborted", "failedOnce", "failed"} => ~ service /\ ~ native /\ ~ advert
    /\ stage = "closed" => ~ service /\ (native => revived) /\ ~ advert
    /\ ~ done /\ stage # "failed" => open \subseteq accepted \cup offered \cup {queued}

\* A server that stopped advertising when a central went advertises again, time
\* after time, unless its restart failed at every try, the event came when
\* nobody listened, or the service is removed.
AdvertisesAgain ==
    windows /\ service /\ ~ native ~> native \/ gaveUp \/ missed \/ ~ service
=============================================================================
