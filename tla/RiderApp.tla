------------------------------- MODULE RiderApp -------------------------------
(***************************************************************************)
(* The rider's single page over the ride pipeline: one button, one         *)
(* handleRequestRide awaited at a time, and what is on the screen. A fetch *)
(* that rejects tells the page nothing about the request it had sent,      *)
(* which may still be on its way, in the service, or answered.             *)
(***************************************************************************)
EXTENDS RidePipeline

CONSTANTS
  TripIds,        \* the ids that requestRide draws for the page's presses, in order
  AppFaultKinds   \* the page's failures; they count as Dispatch's do

ASSUME AppAssumption ==
  /\ TripIds \in Seq(Trips)
  /\ \A i, j \in 1 .. Len(TripIds) : TripIds[i] = TripIds[j] => i = j
  /\ AppFaultKinds \subseteq {"fetch"}

VARIABLES
  screen,      \* AppState: idle, loading, success, error
  presses,     \* how often the button was pressed, each time with one POST
  shown,       \* history: the trips whose id was on the screen
  abandoned    \* history: the trips whose fetch rejected

appVars  == <<screen, presses, shown, abandoned>>
rideVars == <<pipelineVars, appVars>>

AppInit ==
  /\ PipelineInit
  /\ screen = "idle"
  /\ presses = 0
  /\ shown = {}
  /\ abandoned = {}

Posted == {TripIds[i] : i \in 1 .. presses}
Trip   == TripIds[presses]     \* the request of the last press

\* Mutant of Press: the button stays enabled while a request is awaited.
PressAgain ==
  /\ presses < Len(TripIds)
  /\ presses' = presses + 1
  /\ screen' = "loading"
  /\ UNCHANGED <<pipelineVars, shown, abandoned>>

\* The button is disabled while the page is loading.
Press ==
  /\ screen # "loading"
  /\ presses < Len(TripIds)
  /\ presses' = presses + 1
  /\ screen' = "loading"
  /\ UNCHANGED <<pipelineVars, shown, abandoned>>

\* Mutant of SettleAs: the page goes back to its first state.
SettleAsIdle(status) ==
  /\ screen = "loading"
  /\ screen' = "idle"
  /\ UNCHANGED presses

\* The promise of the awaited request is settled.
SettleAs(status) ==
  /\ screen = "loading"
  /\ screen' = status
  /\ UNCHANGED presses

\* A 202 and its trip id.
ShowTrip ==
  /\ SettleAs("success")
  /\ request[Trip] = "accepted"
  /\ shown' = shown \cup {Trip}
  /\ UNCHANGED <<pipelineVars, abandoned>>

\* Mutant of ShowError: only a fetch that rejects is caught.
ShowErrorOfRejection ==
  /\ SettleAs("error")
  /\ request[Trip] = "dropped"
  /\ UNCHANGED <<pipelineVars, shown, abandoned>>

\* A status that is not ok, or the connection went down with the service.
ShowError ==
  /\ SettleAs("error")
  /\ request[Trip] \in {"failed", "dropped"}
  /\ UNCHANGED <<pipelineVars, shown, abandoned>>

\* fetch rejects, or the body of its answer breaks off: nothing is known of the
\* request.
FetchFault ==
  /\ "fetch" \in AppFaultKinds /\ faults < MaxFaults
  /\ faults' = faults + 1
  /\ abandoned' = abandoned \cup {Trip}
  /\ UNCHANGED <<trips, request, producerVars, committed, listenerVars, historyVars,
                 workerVars, told, shown>>

Abandon == SettleAs("error") /\ FetchFault

Settle == ShowTrip \/ ShowError \/ Abandon

\* A request thread starts with a POST that has arrived.
RideStep ==
  /\ PipelineNext
  /\ \A t \in Trips \ Posted : UNCHANGED request[t]
  /\ UNCHANGED appVars

Arrive ==
  /\ screen = "loading"
  /\ RequestRide(Trip) \/ RequestRideThrows(Trip)
  /\ UNCHANGED <<workerVars, told, appVars>>

AppNext == Press \/ Settle \/ RideStep

AppSpec == AppInit /\ [][AppNext]_rideVars

\* A POST arrives as long as somebody waits for it, and the browser settles every
\* fetch that has an answer.
FairAppSpec ==
  /\ AppSpec /\ Fairness /\ Worker!Fairness
  /\ WF_rideVars(Arrive) /\ WF_rideVars(Settle)

-------------------------------------------------------------------------------
(* Correctness.                                                            *)

\* The type invariant of the page and of what is behind it; no trip exists that
\* was not asked for.
AppTypeOK ==
  /\ PipelineTypeOK
  /\ screen \in {"idle", "loading", "success", "error"}
  /\ presses \in 0 .. Len(TripIds) /\ (screen = "idle" <=> presses = 0)
  /\ shown \subseteq Posted /\ abandoned \subseteq Posted
  /\ \A t \in Trips \ Posted : request[t] = "idle"

\* A trip id that was ever on the screen is backed by a row, whatever fails,
\* crashes or breaks off between the page and the database.
ShownIsDurable == \A t \in shown : trips[t].status # "NONE"

\* One rider, one request at a time: Dispatch, which has no idempotency key, never
\* handles two requests of the page at once, unless the page gave one up.
OneAtATime ==
  \A t, u \in Posted :
    (request[t] \in {"sent", "committed"} /\ request[u] \in {"sent", "committed"})
      => t = u \/ {t, u} \cap abandoned # {}

\* The page never hangs: whatever fails, restarts or breaks off, "Requesting" gives
\* way to a trip id or an error.
LoadingEnds == []<>(screen # "loading")
===============================================================================
