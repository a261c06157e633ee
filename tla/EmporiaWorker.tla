--------------------------- MODULE EmporiaWorker ----------------------------
(***************************************************************************)
(* emporia.EmporiaClient: the daemon thread that polls the Emporia cloud,  *)
(* and the asyncio side that starts it, stops it and applies what it       *)
(* emits.  The thread is suspended wherever it blocks (a login, a request, *)
(* a timed wait); between those points it is preempted by the event loop,  *)
(* by the clock and by a stop.                                             *)
(*                                                                         *)
(* The cloud is external: each login or request succeeds, fails, or fails  *)
(* as unauthorised, after any time (each is bounded by its own timeouts).  *)
(* A successful connect includes the device metadata; the readings of a    *)
(* power answer are reduced to the devices they cover.                     *)
(***************************************************************************)
EXTENDS Integers, Sequences, FiniteSets

CONSTANTS
    Devices,       \* device_gids, one channel each
    NoTime,        \* _status_timestamp is None
    Poll,          \* poll_interval_seconds
    StatusEvery,   \* status_interval_seconds
    StatusMaxAge,  \* status_stale_after_seconds
    Interval,      \* day_interval_seconds and month_interval_seconds
    MinWait,       \* max(5, poll_interval): the first retry delay
    MaxWait,       \* the longest retry delay (300 s)
    Doublings,     \* how often a retry delay doubles (6)
    MaxRuns,       \* bound: how often run() is entered
    MaxQueue,      \* bound: callbacks waiting in the event loop
    Horizon        \* bound: the clock stops here

Periods == {"day", "month"}

ASSUME WorkerAssumption ==
    /\ IsFiniteSet(Devices)
    /\ NoTime \notin Int
    /\ Poll \in Nat /\ StatusEvery \in Nat /\ StatusMaxAge \in Nat
    /\ Interval \in [Periods -> Nat \ {0}]
    /\ MinWait \in Nat \ {0} /\ MaxWait \in Nat \ {0} /\ Doublings \in 0..6
    /\ MaxRuns \in Nat /\ MaxQueue \in Nat /\ Horizon \in Nat

VARIABLES
    clock,          \* time.monotonic()
    run,            \* how many times run() has been entered
    stop,           \* the run's stop event; also set before the first run
    released,       \* main has begun to release the services
    pc,             \* where the worker thread is; "none" when it is not alive
    auth,           \* _auth is a live session
    online,         \* devices whose entry in _device_status is True
    statusTime,     \* _status_timestamp
    nextStatus,     \* _next_status
    statusFailures, \* _status_failures
    failures,       \* _poll_loop: failures
    nextEnergy,     \* _poll_loop: next_energy
    energyFailures, \* _poll_loop: energy_failures
    period,         \* the period of the energy request in progress
    started,        \* _poll_loop: started
    wakeAt,         \* when the timed wait in progress ends
    queue,          \* call_soon_threadsafe callbacks, oldest first
    shown,          \* devices whose channel was last given a reading
    confirmed,      \* history: when each device was last reported online
    overtaken       \* history: requests for the other period since due

statusVars == <<online, statusTime, nextStatus, statusFailures>>
energyVars == <<nextEnergy, energyFailures, period>>
runVars == <<run, stop, released>>
vars == <<clock, runVars, pc, auth, statusVars, failures, energyVars,
          started, wakeAt, queue, shown, confirmed, overtaken>>

Least(a, b) == IF a < b THEN a ELSE b

(* The delay after the n-th failure in a row. *)
Backoff(base, n) == Least(MaxWait, base * 2 ^ Least(n - 1, Doublings))

(* Failure counts matter only up to the last doubling. *)
Count(n) == Least(n + 1, Doublings + 1)

Results == {"ok", "failed", "unauthorised"}

(* _auth_error: the session is closed and forgotten. *)
AuthAfter(result, a) == a /\ result # "unauthorised"

\* Mutated form: a status is believed until it is replaced.
OnlineForever(d) == statusTime # NoTime /\ d \in online

(* _online *)
Online(d) == /\ statusTime # NoTime
             /\ clock - statusTime <= StatusMaxAge
             /\ d \in online

(* emit: hand a callback to the event loop, unless stopped.  The stop event  *)
(* is looked at first: a stop that falls in between does not take it back.   *)
Emit(message) == \/ queue' = Append(queue, message)
                 \/ stop /\ UNCHANGED queue

PowerMessage(ds) == [run |-> run, kind |-> "power", devices |-> ds]
Unavailable == [run |-> run, kind |-> "unavailable", devices |-> {}]
EnergyMessage == [run |-> run, kind |-> "energy", devices |-> {}]

Init ==
    /\ clock = 0 /\ run = 0 /\ stop = TRUE /\ released = FALSE
    /\ pc = "none" /\ auth = FALSE
    /\ online = {} /\ statusTime = NoTime /\ nextStatus = 0 /\ statusFailures = 0
    /\ failures = 0
    /\ nextEnergy = [p \in Periods |-> 0]
    /\ energyFailures = [p \in Periods |-> 0]
    /\ period = "day" /\ started = 0 /\ wakeAt = 0
    /\ queue = <<>> /\ shown = {}
    /\ confirmed = [d \in Devices |-> NoTime]
    /\ overtaken = [p \in Periods |-> 0]

-----------------------------------------------------------------------------
(* The asyncio side.                                                         *)

(* run: refused while the previous worker is alive.  A new worker starts     *)
(* with the loop's own variables fresh and the client's as they were.  Main  *)
(* does not enter it again once it releases the services.                    *)
Run ==
    /\ pc = "none" /\ stop /\ ~released /\ run < MaxRuns
    /\ run' = run + 1
    /\ stop' = FALSE
    /\ pc' = "top"
    /\ failures' = 0
    /\ nextEnergy' = [p \in Periods |-> 0]
    /\ energyFailures' = [p \in Periods |-> 0]
    /\ overtaken' = [p \in Periods |-> 0]
    /\ UNCHANGED <<clock, released, auth, statusVars, period, started, wakeAt, queue,
                   shown, confirmed>>

(* run is cancelled: its finally sets the stop event. *)
Cancel ==
    /\ ~stop
    /\ stop' = TRUE
    /\ UNCHANGED <<clock, run, released, pc, auth, statusVars, failures, energyVars,
                   started, wakeAt, queue, shown, confirmed, overtaken>>

(* run_service_workers waits for the cancelled run, not for its thread, and  *)
(* the services are released next.  The thread may still be in a request,    *)
(* and the event loop goes on with what is queued.                           *)
Release ==
    /\ stop /\ ~released
    /\ released' = TRUE
    /\ UNCHANGED <<clock, run, stop, pc, auth, statusVars, failures, energyVars,
                   started, wakeAt, queue, shown, confirmed, overtaken>>

\* Mutated form: what emit let through is applied.
MayDeliverEmitted(m) == m.run = run

(* deliver looks at the stop event of the run that emitted the callback. *)
MayDeliver(m) == m.run = run /\ ~stop

\* publish_power, cloud_unavailable: every channel is given what it reads.
Applied(m) == IF m.kind = "energy" THEN shown ELSE m.devices

Deliver ==
    /\ queue # <<>>
    /\ queue' = Tail(queue)
    /\ shown' = IF MayDeliver(Head(queue)) THEN Applied(Head(queue)) ELSE shown
    /\ UNCHANGED <<clock, runVars, pc, auth, statusVars, failures, energyVars,
                   started, wakeAt, confirmed, overtaken>>

Tick ==
    /\ clock < Horizon
    /\ clock' = clock + 1
    /\ UNCHANGED <<runVars, pc, auth, statusVars, failures, energyVars, started,
                   wakeAt, queue, shown, confirmed, overtaken>>

-----------------------------------------------------------------------------
(* _poll_loop and _work.                                                     *)

(* The loop ends and _work closes the session. *)
End ==
    /\ pc = "top" /\ stop
    /\ pc' = "none" /\ auth' = FALSE
    /\ UNCHANGED <<clock, runVars, statusVars, failures, energyVars, started,
                   wakeAt, queue, shown, confirmed, overtaken>>

(* A pass of the loop: _refresh_status, if its time has come, logs in first  *)
(* when there is no session.                                                 *)
BeginPass ==
    /\ pc = "top" /\ ~stop
    /\ started' = clock
    /\ \/ /\ clock < nextStatus
          /\ pc' = "power"
          /\ UNCHANGED nextStatus
       \/ /\ clock >= nextStatus
          /\ nextStatus' = clock + StatusEvery
          /\ pc' = IF auth THEN "status" ELSE "statusLogin"
    /\ UNCHANGED <<clock, runVars, auth, online, statusTime, statusFailures, failures,
                   energyVars, wakeAt, queue, shown, confirmed, overtaken>>

(* Any failure of the status leaves every device unknown until the retry. *)
StatusFails(result) ==
    /\ online' = {} /\ statusTime' = NoTime
    /\ statusFailures' = Count(statusFailures)
    /\ nextStatus' = clock + Backoff(StatusEvery, statusFailures')
    /\ auth' = (pc = "status" /\ AuthAfter(result, auth))
    /\ confirmed' = [d \in Devices |-> NoTime]
    /\ pc' = "power"

StatusLogin ==
    /\ pc = "statusLogin"
    /\ \E result \in Results :
         \/ /\ result = "ok"
            /\ auth' = TRUE /\ pc' = "status"
            /\ UNCHANGED <<statusVars, confirmed>>
         \/ result # "ok" /\ StatusFails(result)
    /\ UNCHANGED <<clock, runVars, failures, energyVars, started, wakeAt, queue,
                   shown, overtaken>>

\* What an answer may say: which devices are connected.
Statuses == SUBSET Devices

StatusAnswer ==
    /\ pc = "status"
    /\ \E result \in Results :
         \/ /\ result = "ok"
            /\ online' \in Statuses
            /\ statusTime' = clock /\ statusFailures' = 0
            /\ confirmed' = [d \in Devices |-> IF d \in online' THEN clock ELSE NoTime]
            /\ pc' = "power"
            /\ UNCHANGED <<nextStatus, auth>>
         \/ result # "ok" /\ StatusFails(result)
    /\ UNCHANGED <<clock, runVars, failures, energyVars, started, wakeAt, queue,
                   shown, overtaken>>

(* poll_power: with no device known to be online no request is made, and     *)
(* every channel is given an empty measurement.                              *)
BeginPower ==
    /\ pc = "power"
    /\ \/ /\ \E d \in Devices : Online(d)
          /\ pc' = IF auth THEN "powerRequest" ELSE "powerLogin"
          /\ UNCHANGED <<queue, failures>>
       \/ /\ \A d \in Devices : ~Online(d)
          /\ Emit(PowerMessage({}))
          /\ failures' = 0
          /\ pc' = "energy"
    /\ Len(queue) < MaxQueue
    /\ UNCHANGED <<clock, runVars, auth, statusVars, energyVars, started, wakeAt,
                   shown, confirmed, overtaken>>

(* A failed power poll makes the channels unavailable and backs off. *)
PowerFails(result) ==
    /\ auth' = (pc = "powerRequest" /\ AuthAfter(result, auth))
    /\ failures' = Count(failures)
    /\ Emit(Unavailable)
    /\ wakeAt' = clock + Backoff(MinWait, failures')
    /\ pc' = "waiting"

PowerLogin ==
    /\ pc = "powerLogin" /\ Len(queue) < MaxQueue
    /\ \E result \in Results :
         \/ /\ result = "ok"
            /\ auth' = TRUE /\ pc' = "powerRequest"
            /\ UNCHANGED <<failures, queue, wakeAt>>
         \/ result # "ok" /\ PowerFails(result)
    /\ UNCHANGED <<clock, runVars, statusVars, energyVars, started, shown,
                   confirmed, overtaken>>

(* The answer covers some devices; each counts only if it is still online.   *)
PowerAnswer ==
    /\ pc = "powerRequest" /\ Len(queue) < MaxQueue
    /\ \E result \in Results :
         \/ /\ result = "ok"
            /\ \E covered \in SUBSET Devices :
                 Emit(PowerMessage({d \in covered : Online(d)}))
            /\ failures' = 0 /\ pc' = "energy"
            /\ UNCHANGED <<auth, wakeAt>>
         \/ result # "ok" /\ PowerFails(result)
    /\ UNCHANGED <<clock, runVars, statusVars, energyVars, started, shown,
                   confirmed, overtaken>>

\* Mutated form: a due day period always goes first.
DuePeriodDayFirst ==
    IF clock >= nextEnergy["day"] THEN "day" ELSE "month"

(* The oldest due period wins; the day's on a tie. *)
DuePeriod == IF nextEnergy["day"] <= nextEnergy["month"] THEN "day" ELSE "month"

EnergyMayLogin == auth \/ statusFailures = 0

(* The wait that ends a pass. *)
Rest(from) == wakeAt' = IF started + Poll > from THEN started + Poll ELSE from

(* At most one energy request between two power polls. *)
BeginEnergy ==
    /\ pc = "energy"
    /\ \/ /\ ~stop /\ EnergyMayLogin /\ clock >= nextEnergy[DuePeriod]
          /\ period' = DuePeriod
          /\ pc' = IF auth THEN "energyRequest" ELSE "energyLogin"
          /\ overtaken' = [p \in Periods |->
                             IF p = DuePeriod THEN 0
                             ELSE IF clock >= nextEnergy[p] THEN overtaken[p] + 1
                             ELSE overtaken[p]]
          /\ UNCHANGED wakeAt
       \/ /\ stop \/ ~EnergyMayLogin \/ clock < nextEnergy[DuePeriod]
          /\ Rest(clock)
          /\ pc' = "waiting"
          /\ UNCHANGED <<period, overtaken>>
    /\ UNCHANGED <<clock, runVars, auth, statusVars, failures, nextEnergy,
                   energyFailures, started, queue, shown, confirmed>>

(* A failed energy request is retried later; power is not touched. *)
EnergyFails(result) ==
    /\ auth' = (pc = "energyRequest" /\ AuthAfter(result, auth))
    /\ energyFailures' = [energyFailures EXCEPT ![period] = Count(@)]
    /\ nextEnergy' = [nextEnergy EXCEPT ![period] =
          clock + Least(Interval[period], Backoff(MinWait, energyFailures'[period]))]
    /\ Rest(clock)
    /\ pc' = "waiting"
    /\ UNCHANGED queue

EnergyLogin ==
    /\ pc = "energyLogin"
    /\ \E result \in Results :
         \/ /\ result = "ok"
            /\ auth' = TRUE /\ pc' = "energyRequest"
            /\ UNCHANGED <<energyFailures, nextEnergy, queue, wakeAt>>
         \/ result # "ok" /\ EnergyFails(result)
    /\ UNCHANGED <<clock, runVars, statusVars, failures, period, started, shown,
                   confirmed, overtaken>>

EnergyAnswer ==
    /\ pc = "energyRequest" /\ Len(queue) < MaxQueue
    /\ \E result \in Results :
         \/ /\ result = "ok"
            /\ Emit(EnergyMessage)
            /\ energyFailures' = [energyFailures EXCEPT ![period] = 0]
            /\ nextEnergy' = [nextEnergy EXCEPT ![period] = clock + Interval[period]]
            /\ Rest(clock)
            /\ pc' = "waiting"
            /\ UNCHANGED auth
         \/ result # "ok" /\ EnergyFails(result)
    /\ UNCHANGED <<clock, runVars, statusVars, failures, period, started, shown,
                   confirmed, overtaken>>

\* Mutated form: a stop does not interrupt the wait.
WaitOver == clock >= wakeAt

WakeUp == clock >= wakeAt \/ stop

Wake ==
    /\ pc = "waiting" /\ WakeUp
    /\ pc' = "top"
    /\ UNCHANGED <<clock, runVars, auth, statusVars, failures, energyVars, started,
                   wakeAt, queue, shown, confirmed, overtaken>>

-----------------------------------------------------------------------------

Worker ==
    \/ BeginPass \/ StatusLogin \/ StatusAnswer
    \/ BeginPower \/ PowerLogin \/ PowerAnswer
    \/ BeginEnergy \/ EnergyLogin \/ EnergyAnswer
    \/ Wake \/ End

Next == Run \/ Cancel \/ Release \/ Deliver \/ Tick \/ Worker

Spec == Init /\ [][Next]_vars

(* The scheduler runs the thread, every login and request ends by its        *)
(* timeouts, and the event loop runs what is queued.                         *)
FairSpec == Spec /\ WF_vars(Worker) /\ WF_vars(Deliver)

(* A period that is due waits for at most one request of the other period,   *)
(* whatever fails (configuration.md: daily energy cannot starve monthly).    *)
DueOvertakenOnce == \A p \in Periods : overtaken[p] <= 1

(* A reading is only emitted for a device that the last status answer, no    *)
(* older than StatusMaxAge and followed by no failed one, reported online.   *)
Emitted == Len(queue') > Len(queue)
EmittedOnline ==
    [][Emitted => \A d \in queue'[Len(queue')].devices :
         confirmed[d] # NoTime /\ clock - confirmed[d] <= StatusMaxAge]_vars

(* Once main releases the services nothing is applied to them any more,      *)
(* though the thread may still emit and the event loop still holds what it   *)
(* emitted: the run that main waited for has set the stop event on its way   *)
(* out (main.py: stop workers before releasing their D-Bus resources).       *)
ReleasedUntouched == [][released => UNCHANGED shown]_vars

(* A stopped worker ends, whatever it was waiting for, and closes its        *)
(* session.                                                                  *)
StopEnds == stop ~> (pc = "none" /\ ~auth) \/ ~stop

=============================================================================
