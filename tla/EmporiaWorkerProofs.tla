------------------------ MODULE EmporiaWorkerProofs -------------------------
(***************************************************************************)
(* Proofs about the Emporia poll worker, for every set of devices, every   *)
(* interval and every interleaving of the worker, the event loop, the      *)
(* clock and the cloud's answers.                                          *)
(*                                                                         *)
(* DueOvertakenOnce is not inductive: that a period overtaken once is next *)
(* rests on the other period's time, which is only set when the request    *)
(* that overtook it ends, by success or by any failure.  Turns says how    *)
(* the two periods' times compare before and after that moment.            *)
(***************************************************************************)
EXTENDS EmporiaWorker, SequenceTheorems, TLAPS

Places == {"none", "top", "statusLogin", "status", "power", "powerLogin",
           "powerRequest", "energy", "energyLogin", "energyRequest", "waiting"}

Message == [run : Nat, kind : {"power", "unavailable", "energy"},
            devices : SUBSET Devices]

WorkerTyped ==
    /\ clock \in Nat /\ run \in Nat /\ stop \in BOOLEAN /\ released \in BOOLEAN
    /\ pc \in Places /\ auth \in BOOLEAN
    /\ online \in SUBSET Devices /\ statusTime \in Nat \union {NoTime}
    /\ nextStatus \in Int /\ statusFailures \in 0..Doublings + 1
    /\ failures \in 0..Doublings + 1
    /\ nextEnergy \in [Periods -> Int]
    /\ energyFailures \in [Periods -> 0..Doublings + 1]
    /\ period \in Periods /\ started \in Int /\ wakeAt \in Int
    /\ queue \in Seq(Message) /\ shown \in SUBSET Devices
    /\ confirmed \in [Devices -> Nat \union {NoTime}]
    /\ overtaken \in [Periods -> Nat]

\* A device is believed online since its last confirmation.
Believed == \A d \in online : statusTime # NoTime => confirmed[d] = statusTime

\* A request uses a session, and none is left when the worker has ended.
SessionKept ==
    /\ pc \in {"status", "powerRequest", "energyRequest"} => auth
    /\ pc = "none" => ~auth

RequestingEnergy == pc \in {"energyLogin", "energyRequest"}

\* A period that was overtaken is not overtaken again: while the request that
\* overtook it lasts it is due, and from then on its time is the earlier one.
Turns ==
    \A p, q \in Periods : p # q /\ overtaken[p] > 0 =>
        /\ overtaken[p] = 1
        /\ ~RequestingEnergy => nextEnergy[p] < nextEnergy[q]
        /\ RequestingEnergy => period = q /\ nextEnergy[p] <= clock

\* The services are only released behind a run that has set its stop event.
ReleasedAfterStop == released => stop

WorkerInv == WorkerTyped /\ Believed /\ SessionKept /\ Turns /\ ReleasedAfterStop

-----------------------------------------------------------------------------
(* Lemmas about the operators.                                               *)

\* However often an operation failed, its retry is at least one unit away.
LEMMA BackoffResult ==
    ASSUME NEW base \in Nat, NEW n \in 0..Doublings + 1
    PROVE  /\ Count(n) \in 0..Doublings + 1 /\ Count(n) > 0
           /\ Backoff(base, Count(n)) \in Nat
           /\ base > 0 => Backoff(base, Count(n)) > 0
<1>1. Count(n) \in 1..Doublings + 1
  BY WorkerAssumption DEF Count, Least
<1>2. Least(Count(n) - 1, Doublings) \in 0..6
  BY <1>1, WorkerAssumption DEF Least
<1>3. ASSUME NEW k \in 0..6
      PROVE  2 ^ k \in Nat /\ 2 ^ k > 0
  <2>1. 2^0 = 1 /\ 2^1 = 2 /\ 2^2 = 4 /\ 2^3 = 8 /\ 2^4 = 16 /\ 2^5 = 32 /\ 2^6 = 64
    OBVIOUS
  <2>2. k = 0 \/ k = 1 \/ k = 2 \/ k = 3 \/ k = 4 \/ k = 5 \/ k = 6
    OBVIOUS
  <2>3. 2 ^ k = 1 \/ 2 ^ k = 2 \/ 2 ^ k = 4 \/ 2 ^ k = 8 \/ 2 ^ k = 16
        \/ 2 ^ k = 32 \/ 2 ^ k = 64
    BY <2>1, <2>2, Zenon
  <2> DEFINE x == 2 ^ k
  <2>4. x = 1 \/ x = 2 \/ x = 4 \/ x = 8 \/ x = 16 \/ x = 32 \/ x = 64
    BY <2>3
  <2> HIDE DEF x
  <2>5. x \in Nat /\ x > 0
    BY <2>4
  <2>. QED BY <2>5 DEF x
<1> DEFINE x == 2 ^ Least(Count(n) - 1, Doublings)
<1>4. x \in Nat /\ x > 0
  BY <1>2, <1>3, Zenon
<1>5. Backoff(base, Count(n)) = Least(MaxWait, base * x)
  BY DEF Backoff
<1> HIDE DEF x
<1>6. base * x \in Nat /\ (base > 0 => base * x > 0)
  BY <1>4
<1>. QED BY <1>1, <1>5, <1>6, WorkerAssumption DEF Least

\* What is emitted joins the queue behind the rest, or is dropped after a stop.
LEMMA EmitResult ==
    ASSUME queue \in Seq(Message), NEW m \in Message, Emit(m)
    PROVE  /\ queue' \in Seq(Message)
           /\ Emitted => queue'[Len(queue')] = m
BY DEF Emit, Emitted

\* The worker's messages.
LEMMA MessageTyped ==
    ASSUME run \in Nat
    PROVE  /\ Unavailable \in Message /\ EnergyMessage \in Message
           /\ \A ds \in SUBSET Devices : PowerMessage(ds) \in Message
BY DEF Unavailable, EnergyMessage, PowerMessage, Message

-----------------------------------------------------------------------------
(* Types.                                                                    *)

\* A failed status request, energy request or power poll leaves typed state.
LEMMA FailuresTyped ==
    ASSUME WorkerTyped, NEW result
    PROVE  /\ StatusFails(result) =>
                /\ online' \in SUBSET Devices /\ statusTime' \in Nat \union {NoTime}
                /\ nextStatus' \in Int /\ statusFailures' \in 0..Doublings + 1
                /\ auth' \in BOOLEAN /\ pc' \in Places
                /\ confirmed' \in [Devices -> Nat \union {NoTime}]
           /\ PowerFails(result) =>
                /\ auth' \in BOOLEAN /\ pc' \in Places /\ wakeAt' \in Int
                /\ failures' \in 0..Doublings + 1 /\ queue' \in Seq(Message)
           /\ EnergyFails(result) =>
                /\ auth' \in BOOLEAN /\ pc' \in Places /\ wakeAt' \in Int
                /\ energyFailures' \in [Periods -> 0..Doublings + 1]
                /\ nextEnergy' \in [Periods -> Int]
                /\ nextEnergy'[period] > clock
                /\ \A p \in Periods : p # period => nextEnergy'[p] = nextEnergy[p]
                /\ UNCHANGED queue
<1>1. ASSUME StatusFails(result)
      PROVE  /\ online' \in SUBSET Devices /\ statusTime' \in Nat \union {NoTime}
             /\ nextStatus' \in Int /\ statusFailures' \in 0..Doublings + 1
             /\ auth' \in BOOLEAN /\ pc' \in Places
             /\ confirmed' \in [Devices -> Nat \union {NoTime}]
  <2>1. /\ Count(statusFailures) \in 0..Doublings + 1
        /\ Backoff(StatusEvery, Count(statusFailures)) \in Nat
    BY BackoffResult, WorkerAssumption DEF WorkerTyped
  <2>2. statusFailures' \in 0..Doublings + 1 /\ nextStatus' \in Int
    BY <1>1, <2>1 DEF StatusFails, WorkerTyped
  <2>3. auth' \in BOOLEAN /\ pc' \in Places
    BY <1>1, Zenon DEF StatusFails, Places
  <2>. QED BY <1>1, <2>2, <2>3 DEF StatusFails
<1>2. ASSUME PowerFails(result)
      PROVE  /\ auth' \in BOOLEAN /\ pc' \in Places /\ wakeAt' \in Int
             /\ failures' \in 0..Doublings + 1 /\ queue' \in Seq(Message)
  <2>1. /\ Count(failures) \in 0..Doublings + 1
        /\ Backoff(MinWait, Count(failures)) \in Nat
    BY BackoffResult, WorkerAssumption DEF WorkerTyped
  <2>2. failures' \in 0..Doublings + 1 /\ wakeAt' \in Int
    BY <1>2, <2>1 DEF PowerFails, WorkerTyped
  <2>3. auth' \in BOOLEAN /\ pc' \in Places
    BY <1>2, Zenon DEF PowerFails, Places
  <2>4. queue' \in Seq(Message)
    BY <1>2, EmitResult, MessageTyped DEF PowerFails, WorkerTyped
  <2>. QED BY <2>2, <2>3, <2>4
<1>3. ASSUME EnergyFails(result)
      PROVE  /\ auth' \in BOOLEAN /\ pc' \in Places /\ wakeAt' \in Int
             /\ energyFailures' \in [Periods -> 0..Doublings + 1]
             /\ nextEnergy' \in [Periods -> Int]
             /\ nextEnergy'[period] > clock
             /\ \A p \in Periods : p # period => nextEnergy'[p] = nextEnergy[p]
             /\ UNCHANGED queue
  <2>0. energyFailures[period] \in 0..Doublings + 1 /\ period \in Periods
    BY DEF WorkerTyped
  <2>1. /\ Count(energyFailures[period]) \in 0..Doublings + 1
        /\ Backoff(MinWait, Count(energyFailures[period])) \in Nat
        /\ Backoff(MinWait, Count(energyFailures[period])) > 0
    <3>1. MinWait \in Nat /\ MinWait > 0
      BY WorkerAssumption
    <3>. QED BY <2>0, <3>1, BackoffResult
  <2>2. /\ energyFailures' \in [Periods -> 0..Doublings + 1]
        /\ energyFailures'[period] = Count(energyFailures[period])
    BY <1>3, <2>0, <2>1 DEF EnergyFails, WorkerTyped
  <2>3. Interval[period] \in Nat /\ Interval[period] > 0
    BY <2>0, WorkerAssumption
  <2>4. nextEnergy' = [nextEnergy EXCEPT ![period] =
                         clock + Least(Interval[period],
                                       Backoff(MinWait, Count(energyFailures[period])))]
    BY <1>3, <2>2 DEF EnergyFails
  <2>5. LET d == Least(Interval[period], Backoff(MinWait, Count(energyFailures[period])))
        IN  d \in Nat /\ d > 0
    BY <2>1, <2>3 DEF Least
  <2>6. /\ nextEnergy' \in [Periods -> Int]
        /\ nextEnergy'[period] > clock
        /\ \A p \in Periods : p # period => nextEnergy'[p] = nextEnergy[p]
    BY <2>0, <2>4, <2>5 DEF WorkerTyped
  <2>7. auth' \in BOOLEAN /\ pc' \in Places
    BY <1>3, Zenon DEF EnergyFails, Places
  <2>8. wakeAt' \in Int
    BY <1>3, WorkerAssumption DEF EnergyFails, Rest, WorkerTyped
  <2>. QED BY <1>3, <2>2, <2>6, <2>7, <2>8 DEF EnergyFails
<1>. QED BY <1>1, <1>2, <1>3

\* Every step keeps the types.
LEMMA TypedStep == WorkerTyped /\ [Next]_vars => WorkerTyped'
<1> SUFFICES ASSUME WorkerTyped, [Next]_vars
             PROVE  WorkerTyped'
  OBVIOUS
<1>1. CASE Run
  <2>1. /\ UNCHANGED <<clock, released, auth, statusVars, period, started, wakeAt, queue,
                       shown, confirmed>>
        /\ stop' = FALSE /\ pc' = "top" /\ run' = run + 1
    BY <1>1, Zenon DEF Run
  <2>2. /\ failures' \in 0..Doublings + 1
        /\ nextEnergy' \in [Periods -> Int]
        /\ energyFailures' \in [Periods -> 0..Doublings + 1]
        /\ overtaken' \in [Periods -> Nat]
    BY <1>1, WorkerAssumption DEF Run
  <2>3. stop' \in BOOLEAN
    BY <2>1, Zenon
  <2>4. run' \in Nat /\ pc' \in Places
    BY <2>1 DEF WorkerTyped, runVars, Places
  <2>. QED BY <2>1, <2>2, <2>3, <2>4 DEF WorkerTyped, runVars, statusVars
<1>2. CASE Cancel \/ Release
  BY <1>2 DEF Cancel, Release, WorkerTyped, runVars, statusVars, energyVars
<1>3. CASE Deliver
  <2>1. Head(queue) \in Message /\ Tail(queue) \in Seq(Message)
    BY <1>3 DEF Deliver, WorkerTyped, runVars
  <2>2. Head(queue).devices \in SUBSET Devices
    BY <2>1 DEF Message
  <2>3. shown' \in SUBSET Devices
    BY <1>3, <2>2 DEF Deliver, Applied, WorkerTyped, runVars
  <2>. QED BY <1>3, <2>1, <2>3 DEF Deliver, WorkerTyped, runVars, statusVars, energyVars
<1>4. CASE Tick
  BY <1>4 DEF Tick, WorkerTyped, runVars, statusVars, energyVars
<1>5. CASE BeginPass
  BY <1>5, WorkerAssumption DEF BeginPass, WorkerTyped, runVars, Places, energyVars
<1>6. CASE StatusLogin
  <2>1. PICK result \in Results :
            \/ /\ auth' = TRUE /\ pc' = "status"
               /\ UNCHANGED <<statusVars, confirmed>>
            \/ StatusFails(result)
    BY <1>6 DEF StatusLogin
  <2>2. UNCHANGED <<clock, runVars, failures, energyVars, started, wakeAt, queue,
                    shown, overtaken>>
    BY <1>6 DEF StatusLogin
  <2>3. CASE StatusFails(result)
    BY <2>3, <2>2, FailuresTyped DEF WorkerTyped, runVars, energyVars
  <2>4. CASE auth' = TRUE /\ pc' = "status" /\ UNCHANGED <<statusVars, confirmed>>
    BY <2>4, <2>2 DEF WorkerTyped, runVars, Places, energyVars, statusVars
  <2>. QED BY <2>1, <2>3, <2>4
<1>7. CASE StatusAnswer
  <2>1. PICK result \in Results :
            \/ /\ online' \in Statuses
               /\ statusTime' = clock /\ statusFailures' = 0
               /\ confirmed' = [d \in Devices |-> IF d \in online' THEN clock ELSE NoTime]
               /\ pc' = "power"
               /\ UNCHANGED <<nextStatus, auth>>
            \/ StatusFails(result)
    BY <1>7 DEF StatusAnswer
  <2>2. UNCHANGED <<clock, runVars, failures, energyVars, started, wakeAt, queue,
                    shown, overtaken>>
    BY <1>7 DEF StatusAnswer
  <2>3. CASE StatusFails(result)
    BY <2>3, <2>2, FailuresTyped DEF WorkerTyped, runVars, energyVars
  <2>4. CASE ~StatusFails(result)
    BY <2>1, <2>4, <2>2, WorkerAssumption
       DEF WorkerTyped, runVars, Places, energyVars, Statuses
  <2>. QED BY <2>3, <2>4
<1>8. CASE BeginPower
  <2>1. /\ UNCHANGED <<clock, runVars, auth, statusVars, energyVars, started, wakeAt,
                       shown, confirmed, overtaken>>
        /\ pc' \in Places
        /\ failures' \in 0..Doublings + 1
    BY <1>8, WorkerAssumption DEF BeginPower, Places, WorkerTyped, runVars
  <2>2. queue' \in Seq(Message)
    BY <1>8, EmitResult, MessageTyped DEF BeginPower, WorkerTyped, runVars
  <2>. QED BY <2>1, <2>2 DEF WorkerTyped, runVars, energyVars, statusVars
<1>9. CASE PowerLogin
  <2>1. PICK result \in Results :
            \/ /\ auth' = TRUE /\ pc' = "powerRequest"
               /\ UNCHANGED <<failures, queue, wakeAt>>
            \/ PowerFails(result)
    BY <1>9 DEF PowerLogin
  <2>2. UNCHANGED <<clock, runVars, statusVars, energyVars, started, shown,
                    confirmed, overtaken>>
    BY <1>9 DEF PowerLogin
  <2>3. CASE PowerFails(result)
    BY <2>3, <2>2, FailuresTyped DEF WorkerTyped, runVars, energyVars, statusVars
  <2>4. CASE auth' = TRUE /\ pc' = "powerRequest" /\ UNCHANGED <<failures, queue, wakeAt>>
    BY <2>4, <2>2 DEF WorkerTyped, runVars, Places, energyVars, statusVars
  <2>. QED BY <2>1, <2>3, <2>4
<1>10. CASE PowerAnswer
  <2>1. PICK result \in Results :
            \/ /\ \E covered \in SUBSET Devices :
                    Emit(PowerMessage({d \in covered : Online(d)}))
               /\ failures' = 0 /\ pc' = "energy"
               /\ UNCHANGED <<auth, wakeAt>>
            \/ PowerFails(result)
    BY <1>10 DEF PowerAnswer
  <2>2. UNCHANGED <<clock, runVars, statusVars, energyVars, started, shown,
                    confirmed, overtaken>>
    BY <1>10 DEF PowerAnswer
  <2>3. CASE PowerFails(result)
    BY <2>3, <2>2, FailuresTyped DEF WorkerTyped, runVars, energyVars, statusVars
  <2>4. CASE ~PowerFails(result)
    <3>1. PICK covered \in SUBSET Devices :
              Emit(PowerMessage({d \in covered : Online(d)}))
      BY <2>1, <2>4
    <3>2. {d \in covered : Online(d)} \in SUBSET Devices
      OBVIOUS
    <3>3. queue' \in Seq(Message)
      BY <3>1, <3>2, EmitResult, MessageTyped DEF WorkerTyped, runVars
    <3>. QED BY <2>1, <2>4, <2>2, <3>3, WorkerAssumption
             DEF WorkerTyped, runVars, Places, energyVars, statusVars
  <2>. QED BY <2>3, <2>4
<1>11. CASE BeginEnergy
  <2>1. UNCHANGED <<clock, runVars, auth, statusVars, failures, nextEnergy,
                    energyFailures, started, queue, shown, confirmed>>
    BY <1>11 DEF BeginEnergy
  <2>2. DuePeriod \in Periods
    BY DEF DuePeriod, Periods
  <2>3. pc' \in Places /\ period' \in Periods
    BY <1>11, <2>2 DEF BeginEnergy, WorkerTyped, runVars, Places
  <2>4. wakeAt' \in Int
    BY <1>11, WorkerAssumption DEF BeginEnergy, WorkerTyped, runVars, Rest
  <2>5. overtaken' \in [Periods -> Nat]
    <3>1. overtaken \in [Periods -> Nat]
      BY DEF WorkerTyped, runVars
    <3>2. \/ overtaken' = [p \in Periods |->
                            IF p = DuePeriod THEN 0
                            ELSE IF clock >= nextEnergy[p] THEN overtaken[p] + 1
                            ELSE overtaken[p]]
          \/ overtaken' = overtaken
      BY <1>11 DEF BeginEnergy
    <3>3. \A p \in Periods : overtaken[p] \in Nat /\ overtaken[p] + 1 \in Nat /\ 0 \in Nat
      BY <3>1
    <3>. QED BY <3>1, <3>2, <3>3
  <2>. QED BY <2>1, <2>3, <2>4, <2>5 DEF WorkerTyped, runVars, statusVars
<1>12. CASE EnergyLogin
  <2>1. PICK result \in Results :
            \/ /\ auth' = TRUE /\ pc' = "energyRequest"
               /\ UNCHANGED <<energyFailures, nextEnergy, queue, wakeAt>>
            \/ EnergyFails(result)
    BY <1>12 DEF EnergyLogin
  <2>2. UNCHANGED <<clock, runVars, statusVars, failures, period, started, shown,
                    confirmed, overtaken>>
    BY <1>12 DEF EnergyLogin
  <2>3. CASE EnergyFails(result)
    BY <2>3, <2>2, FailuresTyped DEF WorkerTyped, runVars, statusVars
  <2>4. CASE /\ auth' = TRUE /\ pc' = "energyRequest"
             /\ UNCHANGED <<energyFailures, nextEnergy, queue, wakeAt>>
    BY <2>4, <2>2 DEF WorkerTyped, runVars, Places, statusVars
  <2>. QED BY <2>1, <2>3, <2>4
<1>13. CASE EnergyAnswer
  <2>1. PICK result \in Results :
            \/ /\ Emit(EnergyMessage)
               /\ energyFailures' = [energyFailures EXCEPT ![period] = 0]
               /\ nextEnergy' = [nextEnergy EXCEPT ![period] = clock + Interval[period]]
               /\ Rest(clock)
               /\ pc' = "waiting"
               /\ UNCHANGED auth
            \/ EnergyFails(result)
    BY <1>13 DEF EnergyAnswer
  <2>2. UNCHANGED <<clock, runVars, statusVars, failures, period, started, shown,
                    confirmed, overtaken>>
    BY <1>13 DEF EnergyAnswer
  <2>3. CASE EnergyFails(result)
    BY <2>3, <2>2, FailuresTyped DEF WorkerTyped, runVars, statusVars
  <2>4. CASE ~EnergyFails(result)
    <3>1. queue' \in Seq(Message)
      BY <2>1, <2>4, EmitResult, MessageTyped DEF WorkerTyped, runVars
    <3>2. Interval[period] \in Nat
      BY WorkerAssumption DEF WorkerTyped, runVars
    <3>3. wakeAt' \in Int
      BY <2>1, <2>4, WorkerAssumption DEF WorkerTyped, runVars, Rest
    <3>4. /\ energyFailures' \in [Periods -> 0..Doublings + 1]
          /\ nextEnergy' \in [Periods -> Int]
      <4>1. clock + Interval[period] \in Int /\ 0 \in 0..Doublings + 1
        BY <3>2, WorkerAssumption DEF WorkerTyped, runVars
      <4>2. /\ energyFailures' = [energyFailures EXCEPT ![period] = 0]
            /\ nextEnergy' = [nextEnergy EXCEPT ![period] = clock + Interval[period]]
            /\ energyFailures \in [Periods -> 0..Doublings + 1]
            /\ nextEnergy \in [Periods -> Int]
        BY <2>1, <2>4 DEF WorkerTyped, runVars
      <4>. QED BY <4>1, <4>2
    <3>. QED BY <2>1, <2>4, <2>2, <3>1, <3>3, <3>4
             DEF WorkerTyped, runVars, Places, statusVars
  <2>. QED BY <2>3, <2>4
<1>14. CASE Wake
  BY <1>14 DEF Wake, WorkerTyped, runVars, Places, statusVars, energyVars
<1>15. CASE End
  BY <1>15 DEF End, WorkerTyped, runVars, Places, statusVars, energyVars
<1>16. CASE UNCHANGED vars
  BY <1>16 DEF vars, WorkerTyped, runVars, statusVars, energyVars
<1>. QED BY <1>1, <1>2, <1>3, <1>4, <1>5, <1>6, <1>7, <1>8, <1>9, <1>10, <1>11,
            <1>12, <1>13, <1>14, <1>15, <1>16 DEF Next, Worker

-----------------------------------------------------------------------------
(* What the worker believes, the session it holds and whose turn it is.      *)

\* A failed operation forgets its belief, its session or its turn's time.
LEMMA FailuresKeep ==
    ASSUME WorkerTyped, SessionKept, NEW result
    PROVE  /\ StatusFails(result) => Believed' /\ SessionKept'
           /\ PowerFails(result) => SessionKept'
           /\ EnergyFails(result) => SessionKept'
<1>1. StatusFails(result) => Believed'
  BY DEF StatusFails, Believed
<1>2. /\ StatusFails(result) => pc' = "power"
      /\ PowerFails(result) => pc' = "waiting"
      /\ EnergyFails(result) => pc' = "waiting"
  BY DEF StatusFails, PowerFails, EnergyFails
<1>. QED BY <1>1, <1>2 DEF SessionKept

\* Only a status answer changes what is believed, and it confirms what it says.
LEMMA BelievedStep == WorkerTyped /\ Believed /\ [Next]_vars => Believed'
<1> SUFFICES ASSUME WorkerTyped, Believed, [Next]_vars
             PROVE  Believed'
  OBVIOUS
<1>1. CASE StatusLogin
  BY <1>1 DEF StatusLogin, StatusFails, Believed, statusVars
<1>2. CASE StatusAnswer
  BY <1>2 DEF StatusAnswer, StatusFails, Believed, Statuses, WorkerTyped
<1>3. CASE UNCHANGED <<online, statusTime, confirmed>>
  BY <1>3 DEF Believed
<1>4. CASE Next /\ ~StatusLogin /\ ~StatusAnswer
  BY <1>4, <1>3 DEF Next, Worker, Run, Cancel, Release, Deliver, Tick, BeginPass, BeginPower,
     PowerLogin, PowerAnswer, BeginEnergy, EnergyLogin, EnergyAnswer, Wake, End,
     statusVars
<1>. QED BY <1>1, <1>2, <1>3, <1>4 DEF vars, statusVars

\* A session opened by a login is there for the request that follows it.
LEMMA SessionStep == WorkerTyped /\ SessionKept /\ [Next]_vars => SessionKept'
<1> SUFFICES ASSUME WorkerTyped, SessionKept, [Next]_vars
             PROVE  SessionKept'
  OBVIOUS
<1>1. CASE UNCHANGED <<pc, auth>>
  BY <1>1 DEF SessionKept
<1>2. CASE Cancel \/ Release \/ Deliver \/ Tick
  BY <1>1, <1>2 DEF Cancel, Release, Deliver, Tick
<1>3. CASE Run \/ Wake
  BY <1>3 DEF Run, Wake, SessionKept
<1>4. CASE BeginPass \/ BeginPower \/ BeginEnergy
  BY <1>4 DEF BeginPass, BeginPower, BeginEnergy, SessionKept
<1>5. CASE StatusLogin \/ PowerLogin \/ EnergyLogin
  <2>1. PICK result : \/ auth' = TRUE /\ pc' \in {"status", "powerRequest", "energyRequest"}
                      \/ StatusFails(result) \/ PowerFails(result) \/ EnergyFails(result)
    BY <1>5 DEF StatusLogin, PowerLogin, EnergyLogin
  <2>. QED BY <2>1, FailuresKeep DEF SessionKept
<1>6. CASE StatusAnswer \/ PowerAnswer \/ EnergyAnswer
  <2>1. PICK result : \/ pc' \in {"power", "energy", "waiting"}
                      \/ StatusFails(result) \/ PowerFails(result) \/ EnergyFails(result)
    BY <1>6 DEF StatusAnswer, PowerAnswer, EnergyAnswer
  <2>. QED BY <2>1, FailuresKeep DEF SessionKept
<1>7. CASE End
  BY <1>7 DEF End, SessionKept
<1>8. CASE UNCHANGED vars
  BY <1>1, <1>8 DEF vars
<1>. QED BY <1>2, <1>3, <1>4, <1>5, <1>6, <1>7, <1>8 DEF Next, Worker

\* Only main releases, once the run has stopped, and it runs no other one.
LEMMA ReleaseStep == ReleasedAfterStop /\ [Next]_vars => ReleasedAfterStop'
<1> SUFFICES ASSUME ReleasedAfterStop, [Next]_vars
             PROVE  ReleasedAfterStop'
  OBVIOUS
<1>1. CASE Run \/ Cancel \/ Release
  BY <1>1 DEF Run, Cancel, Release, ReleasedAfterStop
<1>2. CASE Deliver \/ Tick \/ Worker \/ UNCHANGED vars
  <2>1. UNCHANGED <<stop, released>>
    BY <1>2 DEF Deliver, Tick, Worker, BeginPass, StatusLogin, StatusAnswer, BeginPower,
       PowerLogin, PowerAnswer, BeginEnergy, EnergyLogin, EnergyAnswer, Wake, End, vars,
       runVars
  <2>. QED BY <2>1 DEF ReleasedAfterStop
<1>. QED BY <1>1, <1>2 DEF Next

\* The end of an energy request puts its period behind any that is due.
LEMMA TurnEnds ==
    ASSUME WorkerTyped, Turns, RequestingEnergy,
           UNCHANGED <<clock, period, overtaken>>, pc' = "waiting",
           nextEnergy'[period] > clock, nextEnergy' \in [Periods -> Int],
           \A p \in Periods : p # period => nextEnergy'[p] = nextEnergy[p]
    PROVE  Turns'
<1> SUFFICES ASSUME NEW p \in Periods, NEW q \in Periods, p # q, overtaken[p] > 0
             PROVE  overtaken[p] = 1 /\ nextEnergy'[p] < nextEnergy'[q]
  BY DEF Turns, RequestingEnergy
<1>1. overtaken[p] = 1 /\ period = q /\ nextEnergy[p] <= clock
  BY DEF Turns
<1>2. nextEnergy'[p] = nextEnergy[p] /\ nextEnergy'[q] > clock
  BY <1>1
<1>3. nextEnergy[p] \in Int /\ nextEnergy'[q] \in Int /\ clock \in Int
  BY DEF WorkerTyped
<1>. QED BY <1>1, <1>2, <1>3

\* Every step keeps the turns of the two periods.
LEMMA TurnsStep == WorkerTyped /\ Turns /\ [Next]_vars => Turns'
<1> SUFFICES ASSUME WorkerTyped, Turns, [Next]_vars
             PROVE  Turns'
  OBVIOUS
<1>0. /\ clock \in Int /\ nextEnergy \in [Periods -> Int]
      /\ overtaken \in [Periods -> Nat] /\ period \in Periods
  BY DEF WorkerTyped
<1>1. CASE Run
  BY <1>1 DEF Run, Turns
<1>2. CASE Tick
  <2>1. UNCHANGED <<pc, period, nextEnergy, overtaken>> /\ clock' = clock + 1
    BY <1>2 DEF Tick, energyVars
  <2>. QED BY <2>1, <1>0 DEF Turns, RequestingEnergy
<1>3. CASE BeginEnergy
  <2>1. CASE /\ period' = DuePeriod /\ clock >= nextEnergy[DuePeriod]
             /\ pc' \in {"energyRequest", "energyLogin"}
             /\ overtaken' = [p \in Periods |->
                               IF p = DuePeriod THEN 0
                               ELSE IF clock >= nextEnergy[p] THEN overtaken[p] + 1
                               ELSE overtaken[p]]
    <3> SUFFICES ASSUME NEW p \in Periods, NEW q \in Periods, p # q, overtaken'[p] > 0
                 PROVE  overtaken'[p] = 1 /\ period' = q /\ nextEnergy'[p] <= clock'
      BY <2>1 DEF Turns, RequestingEnergy
    <3>1. UNCHANGED <<clock, nextEnergy>> /\ ~RequestingEnergy
      BY <1>3 DEF BeginEnergy, RequestingEnergy
    <3>2. p # DuePeriod /\ DuePeriod = q
      BY <2>1 DEF DuePeriod, Periods
    <3>3. nextEnergy[q] <= nextEnergy[p]
      BY <3>2, <1>0 DEF DuePeriod, Periods
    \* the period passed over has not been overtaken before
    <3>4. overtaken[p] = 0
      BY <3>1, <3>3, <1>0 DEF Turns
    <3>5. clock >= nextEnergy[p] /\ overtaken'[p] = 1
      BY <2>1, <3>2, <3>4
    <3>. QED BY <2>1, <3>1, <3>2, <3>5, <1>0
  <2>2. CASE UNCHANGED <<period, overtaken>> /\ pc' = "waiting"
    <3>1. UNCHANGED <<clock, nextEnergy>> /\ ~RequestingEnergy
      BY <1>3 DEF BeginEnergy, RequestingEnergy
    <3>. QED BY <2>2, <3>1 DEF Turns, RequestingEnergy
  <2>. QED BY <1>3, <2>1, <2>2 DEF BeginEnergy
<1>4. CASE EnergyLogin
  <2>1. PICK result \in Results :
            \/ pc' = "energyRequest" /\ UNCHANGED nextEnergy
            \/ EnergyFails(result)
    BY <1>4 DEF EnergyLogin
  <2>2. UNCHANGED <<clock, period, overtaken>> /\ RequestingEnergy
    BY <1>4 DEF EnergyLogin, RequestingEnergy
  <2>3. CASE EnergyFails(result)
    BY <2>3, <2>2, FailuresTyped, TurnEnds DEF EnergyFails
  <2>4. CASE pc' = "energyRequest" /\ UNCHANGED nextEnergy
    BY <2>4, <2>2 DEF Turns, RequestingEnergy
  <2>. QED BY <2>1, <2>3, <2>4
<1>5. CASE EnergyAnswer
  <2>1. PICK result \in Results :
            \/ /\ nextEnergy' = [nextEnergy EXCEPT ![period] = clock + Interval[period]]
               /\ pc' = "waiting"
            \/ EnergyFails(result)
    BY <1>5 DEF EnergyAnswer
  <2>2. UNCHANGED <<clock, period, overtaken>> /\ RequestingEnergy
    BY <1>5 DEF EnergyAnswer, RequestingEnergy
  <2>3. CASE EnergyFails(result)
    BY <2>3, <2>2, FailuresTyped, TurnEnds DEF EnergyFails
  <2>4. CASE ~EnergyFails(result)
    <3>1. Interval[period] \in Nat /\ Interval[period] > 0
      BY <1>0, WorkerAssumption
    <3>2. /\ nextEnergy'[period] > clock /\ nextEnergy' \in [Periods -> Int]
          /\ \A p \in Periods : p # period => nextEnergy'[p] = nextEnergy[p]
      BY <2>1, <2>4, <3>1, <1>0
    <3>. QED BY <2>1, <2>4, <2>2, <3>2, TurnEnds
  <2>. QED BY <2>3, <2>4
<1>6. CASE /\ UNCHANGED <<clock, nextEnergy, period, overtaken>>
           /\ RequestingEnergy' = RequestingEnergy
  BY <1>6 DEF Turns
<1>7. CASE UNCHANGED vars \/ Cancel \/ Release \/ Deliver
  BY <1>6, <1>7 DEF vars, energyVars, Cancel, Release, Deliver, RequestingEnergy
<1>8. CASE BeginPass \/ StatusLogin \/ StatusAnswer
  BY <1>6, <1>8 DEF BeginPass, StatusLogin, StatusAnswer, StatusFails, energyVars,
                    RequestingEnergy
<1>9. CASE BeginPower \/ PowerLogin \/ PowerAnswer
  BY <1>6, <1>9 DEF BeginPower, PowerLogin, PowerAnswer, PowerFails, energyVars,
                    RequestingEnergy
<1>10. CASE Wake \/ End
  BY <1>6, <1>10 DEF Wake, End, energyVars, RequestingEnergy
<1>. QED BY <1>1, <1>2, <1>3, <1>4, <1>5, <1>7, <1>8, <1>9, <1>10 DEF Next, Worker

-----------------------------------------------------------------------------

\* The inductive invariant of the worker.
THEOREM WorkerInvariant == Spec => []WorkerInv
<1>1. Init => WorkerInv
  <2> SUFFICES ASSUME Init
               PROVE  WorkerInv
    OBVIOUS
  <2>1. /\ stop \in BOOLEAN /\ released \in BOOLEAN /\ auth \in BOOLEAN
        /\ ~auth /\ ReleasedAfterStop
    BY Zenon DEF Init, ReleasedAfterStop
  <2>2. /\ clock \in Nat /\ run \in Nat /\ nextStatus \in Int /\ started \in Int
        /\ wakeAt \in Int /\ statusFailures \in 0..Doublings + 1
        /\ failures \in 0..Doublings + 1
        /\ nextEnergy \in [Periods -> Int] /\ overtaken \in [Periods -> Nat]
        /\ energyFailures \in [Periods -> 0..Doublings + 1]
    BY WorkerAssumption DEF Init
  <2>3. /\ pc \in Places /\ online \in SUBSET Devices
        /\ statusTime \in Nat \union {NoTime} /\ period \in Periods
        /\ queue \in Seq(Message) /\ shown \in SUBSET Devices
        /\ confirmed \in [Devices -> Nat \union {NoTime}]
    BY DEF Init, Places, Periods
  <2>4. WorkerTyped
    BY <2>1, <2>2, <2>3 DEF WorkerTyped
  <2>5. Believed /\ Turns
    BY DEF Init, Believed, Turns
  <2>6. SessionKept
    BY <2>1 DEF Init, SessionKept
  <2>. QED BY <2>1, <2>4, <2>5, <2>6 DEF WorkerInv
<1>2. WorkerInv /\ [Next]_vars => WorkerInv'
  BY TypedStep, BelievedStep, SessionStep, TurnsStep, ReleaseStep DEF WorkerInv
<1>. QED BY <1>1, <1>2, PTL DEF Spec

\* A period that is due is overtaken by at most one request of the other
\* period (_poll_loop picks the oldest due period, whatever failed before).
THEOREM NoStarving == Spec => []DueOvertakenOnce
<1>1. WorkerInv => DueOvertakenOnce
  <2> SUFFICES ASSUME WorkerInv, NEW p \in Periods
               PROVE  overtaken[p] <= 1
    BY DEF DueOvertakenOnce
  <2>1. PICK q \in Periods : p # q
    BY DEF Periods
  <2>2. overtaken[p] \in Nat
    BY DEF WorkerInv, WorkerTyped
  <2>3. overtaken[p] > 0 => overtaken[p] = 1
    BY <2>1 DEF WorkerInv, Turns
  <2>. QED BY <2>2, <2>3
<1>. QED BY <1>1, WorkerInvariant, PTL

\* No request is made without a session, and a worker that has ended has
\* closed its session (_work's finally, _auth_error).
THEOREM Sessions == Spec => []SessionKept
<1>1. WorkerInv => SessionKept
  BY DEF WorkerInv
<1>. QED BY <1>1, WorkerInvariant, PTL

\* Readings are only emitted for devices that a status answer, young enough
\* and not withdrawn by a failure, reported online (poll_power, _online).
THEOREM OnlyOnline == Spec => EmittedOnline
<1>1. WorkerInv /\ [Next]_vars =>
        [Emitted => \A d \in queue'[Len(queue')].devices :
           confirmed[d] # NoTime /\ clock - confirmed[d] <= StatusMaxAge]_vars
  <2> SUFFICES ASSUME WorkerInv, Next, Emitted,
                      NEW d \in queue'[Len(queue')].devices
               PROVE  confirmed[d] # NoTime /\ clock - confirmed[d] <= StatusMaxAge
    OBVIOUS
  <2>0. run \in Nat /\ queue \in Seq(Message)
    BY DEF WorkerInv, WorkerTyped
  <2>1. CASE \E m \in {Unavailable, EnergyMessage, PowerMessage({})} : Emit(m)
    <3>1. PICK m \in {Unavailable, EnergyMessage, PowerMessage({})} : Emit(m)
      BY <2>1
    <3>2. m \in Message
      BY <2>0, MessageTyped
    <3>3. m.devices = {}
      BY <3>1 DEF Unavailable, EnergyMessage, PowerMessage
    <3>. QED BY <2>0, <3>1, <3>2, <3>3, EmitResult
  <2>2. CASE \E covered \in SUBSET Devices :
                Emit(PowerMessage({x \in covered : Online(x)}))
    <3>1. PICK covered \in SUBSET Devices :
              Emit(PowerMessage({x \in covered : Online(x)}))
      BY <2>2
    <3>2. {x \in covered : Online(x)} \in SUBSET Devices
      OBVIOUS
    <3>3. queue'[Len(queue')] = PowerMessage({x \in covered : Online(x)})
      BY <2>0, <3>1, <3>2, MessageTyped, EmitResult
    <3>4. Online(d)
      BY <3>3 DEF PowerMessage
    <3>. QED BY <3>4 DEF Online, WorkerInv, WorkerTyped, Believed
  <2>3. ~UNCHANGED queue
    BY DEF Emitted
  <2>4. ~Deliver
    BY <2>0 DEF Deliver, Emitted
  <2>. QED BY <2>1, <2>2, <2>3, <2>4 DEF Next, Worker, Run, Cancel, Release, Tick, BeginPass,
         StatusLogin, StatusAnswer, StatusFails, BeginPower, PowerLogin, PowerAnswer,
         PowerFails, BeginEnergy, EnergyLogin, EnergyAnswer, EnergyFails, Wake, End
<1>. QED BY <1>1, WorkerInvariant, PTL DEF Spec, EmittedOnline

\* Nothing is applied to services that are being released, whatever the
\* thread still emits and the event loop still holds (run_service_workers
\* waits for the run, whose finally sets the event that deliver looks at).
THEOREM Untouched == Spec => ReleasedUntouched
<1>1. WorkerInv /\ [Next]_vars => [released => UNCHANGED shown]_vars
  <2> SUFFICES ASSUME WorkerInv, Next, released
               PROVE  UNCHANGED shown
    OBVIOUS
  <2>1. CASE Deliver
    <3>1. stop
      BY DEF WorkerInv, ReleasedAfterStop
    <3>2. ~MayDeliver(Head(queue))
      BY <3>1 DEF MayDeliver
    <3>. QED BY <2>1, <3>2 DEF Deliver
  <2>2. CASE ~Deliver
    BY <2>2 DEF Next, Worker, Run, Cancel, Release, Tick, BeginPass, StatusLogin,
       StatusAnswer, BeginPower, PowerLogin, PowerAnswer, BeginEnergy, EnergyLogin,
       EnergyAnswer, Wake, End
  <2>. QED BY <2>1, <2>2
<1>. QED BY <1>1, WorkerInvariant, PTL DEF Spec, ReleasedUntouched

=============================================================================
