--------------------------- MODULE EmporiaChannel ---------------------------
(***************************************************************************)
(* sources.EmporiaChannel: one channel fed by the Emporia cloud, with      *)
(* power and each energy field kept fresh independently.  Deliveries come  *)
(* from the poll worker in any order of source times (a slow answer, a     *)
(* repeated one, an empty one); between them the heartbeat refreshes the   *)
(* channel, and the wall clock may be stepped.                             *)
(***************************************************************************)
EXTENDS Integers

CONSTANTS
    Power, NoPower,  \* finite readings; None or non-finite
    NoTime,          \* a timestamp that is not finite, or no time yet
    Fields,          \* energy fields of the channel
    MaxAge,          \* stale_after of the channel
    EnergyMaxAge,    \* 2 * interval + 30 of the field's period
    Skew,            \* tolerated clock difference of a future timestamp (5 s)
    Stamps,          \* source timestamps a delivery may carry
    Walls,           \* values of the wall clock
    Horizon          \* bound: the monotonic clock stops here

ASSUME EmporiaAssumption ==
    /\ NoPower \notin Power
    /\ NoTime \notin Int
    /\ MaxAge \in Nat \ {0}
    /\ EnergyMaxAge \in [Fields -> Nat \ {0}]
    /\ Skew \in Nat
    /\ Stamps \subseteq Int
    /\ Walls \subseteq Int
    /\ Horizon \in Nat

Value == Power \union {NoPower}
Stamp == Stamps \union {NoTime}

VARIABLES
    wall,        \* time.time()
    mono,        \* time.monotonic()
    sample,      \* _sample: [value, time], value NoPower when None
    deadline,    \* _deadline
    watermark,   \* _watermark
    energy,      \* _energy of each field: [value, time, until]
    energyMark,  \* _energy_watermarks
    published,   \* the power and the time published on D-Bus
    publishedE,  \* the value and the time published for each energy field
    since,       \* history: when the published power's showing began
    reported,    \* history: newest time in the window of any power delivery
    reportedE,   \* history: the same for each energy field
    first,       \* history: when the time in reported was first delivered
    stepped      \* history: the wall clock was stepped

history == <<since, reported, reportedE, first, stepped>>
vars == <<wall, mono, sample, deadline, watermark, energy, energyMark,
          published, publishedE, history>>

Nothing == [value |-> NoPower, time |-> NoTime]
NoEnergy == [value |-> NoPower, time |-> NoTime, until |-> 0]

(* _fresh_until: None outside the window, else when the reading runs out. *)
InWindow(ts, maxAge) ==
    ts # NoTime /\ -Skew <= wall - ts /\ wall - ts < maxAge

FreshUntil(ts, maxAge) ==
    mono + maxAge - (IF wall > ts THEN wall - ts ELSE 0)

Least(a, b) == IF a < b THEN a ELSE b

\* Mutated form: a reading is published for ever.
PowerToPublishEver(s, d, now) == s

(* refresh: every handler ends by publishing what is still fresh. *)
PowerToPublish(s, d, now) == IF s # Nothing /\ now < d THEN s ELSE Nothing

Publish(s, d, e, now) ==
    /\ published' = PowerToPublish(s, d, now)
    /\ publishedE' = [f \in Fields |->
                        IF e[f] # NoEnergy /\ e[f].until > now
                          THEN [value |-> e[f].value, time |-> e[f].time]
                          ELSE Nothing]
    /\ since' = IF published' = Nothing THEN 0
                ELSE IF published # Nothing /\ published.time = published'.time
                       THEN since ELSE mono

Init == /\ wall \in Walls /\ mono = 0
        /\ sample = Nothing /\ deadline = 0 /\ watermark = NoTime
        /\ energy = [f \in Fields |-> NoEnergy]
        /\ energyMark = [f \in Fields |-> NoTime]
        /\ published = Nothing
        /\ publishedE = [f \in Fields |-> Nothing]
        /\ since = 0 /\ reported = NoTime /\ first = 0
        /\ reportedE = [f \in Fields |-> NoTime]
        /\ stepped = FALSE

IsOlder(ts, mark) == ts # NoTime /\ mark # NoTime /\ ts < mark

\* Mutated form: the watermark stays at the first time it was given.
MarkStuck(ts, maxAge, mark) ==
    IF InWindow(ts, maxAge) /\ mark = NoTime THEN ts ELSE mark

(* The watermark moves with any timely report, an empty one included. *)
Mark(ts, maxAge, mark) == IF InWindow(ts, maxAge) THEN ts ELSE mark

Newer(ts, t) == ts # NoTime /\ (t = NoTime \/ ts > t)

\* Mutated form: a repeated sample is given a new deadline.
SampleDeadlineRestarts(ts) == FreshUntil(ts, MaxAge)

(* The deadline of an accepted sample: repeating the sample in hand cannot   *)
(* postpone it.                                                              *)
SampleDeadline(ts) ==
    IF sample # Nothing /\ sample.time = ts
      THEN Least(FreshUntil(ts, MaxAge), deadline)
      ELSE FreshUntil(ts, MaxAge)

(* update: publish_power delivers a measurement of the channel. *)
Update(p, ts) ==
    /\ ~IsOlder(ts, watermark)
    /\ watermark' = Mark(ts, MaxAge, watermark)
    /\ \/ /\ InWindow(ts, MaxAge) /\ p # NoPower
          /\ sample' = [value |-> p, time |-> ts]
          /\ deadline' = SampleDeadline(ts)
       \/ /\ ~InWindow(ts, MaxAge) \/ p = NoPower
          /\ sample' = Nothing /\ deadline' = 0
    /\ Publish(sample', deadline', energy, mono)
    /\ reported' = IF InWindow(ts, MaxAge) /\ Newer(ts, reported) THEN ts ELSE reported
    /\ first' = IF reported' # reported THEN mono ELSE first
    /\ UNCHANGED <<wall, mono, energy, energyMark, reportedE, stepped>>

(* unavailable: the cloud request failed. *)
Unavailable ==
    /\ sample' = Nothing /\ deadline' = 0
    /\ Publish(sample', deadline', energy, mono)
    /\ UNCHANGED <<wall, mono, watermark, energy, energyMark,
                   reported, reportedE, first, stepped>>

EnergyDeadline(f, ts) ==
    IF energy[f] # NoEnergy /\ energy[f].time = ts
      THEN Least(FreshUntil(ts, EnergyMaxAge[f]), energy[f].until)
      ELSE FreshUntil(ts, EnergyMaxAge[f])

(* update_energy: publish_channel_energy delivers one field. *)
UpdateEnergy(f, v, ts) ==
    /\ ~IsOlder(ts, energyMark[f])
    /\ energyMark' = [energyMark EXCEPT ![f] = Mark(ts, EnergyMaxAge[f], @)]
    /\ energy' = [energy EXCEPT ![f] =
                    IF InWindow(ts, EnergyMaxAge[f]) /\ v # NoPower
                      THEN [value |-> v, time |-> ts, until |-> EnergyDeadline(f, ts)]
                      ELSE NoEnergy]
    /\ Publish(sample, deadline, energy', mono)
    /\ reportedE' = [reportedE EXCEPT ![f] =
                       IF InWindow(ts, EnergyMaxAge[f]) /\ Newer(ts, @) THEN ts ELSE @]
    /\ UNCHANGED <<wall, mono, sample, deadline, watermark, reported, first, stepped>>

(* refresh, once a second from the heartbeat: withdraws what ran out. *)
Refresh ==
    /\ Publish(sample, deadline, energy, mono)
    /\ UNCHANGED <<wall, mono, sample, deadline, watermark, energy, energyMark,
                   reported, reportedE, first, stepped>>

Tick ==
    /\ mono < Horizon
    /\ wall + 1 \in Walls
    /\ mono' = mono + 1 /\ wall' = wall + 1
    /\ UNCHANGED <<sample, deadline, watermark, energy, energyMark,
                   published, publishedE, history>>

SetClock ==
    /\ wall' \in Walls
    /\ stepped' = TRUE
    /\ UNCHANGED <<mono, sample, deadline, watermark, energy, energyMark,
                   published, publishedE, since, reported, reportedE, first>>

Next ==
    \/ \E p \in Value, ts \in Stamp : Update(p, ts)
    \/ \E f \in Fields, v \in Value, ts \in Stamp : UpdateEnergy(f, v, ts)
    \/ Unavailable \/ Refresh \/ Tick \/ SetClock

Spec == Init /\ [][Next]_vars
FairSpec == Spec /\ WF_vars(Refresh)

-----------------------------------------------------------------------------

Shown == published # Nothing

(* While one timestamp stays published, repeats of it and steps of the wall  *)
(* clock do not keep it there past MaxAge (test_sources.py: wall-clock       *)
(* rollback does not extend a cached reading).  A withdrawal forgets the     *)
(* deadline, so a timestamp delivered again after one is given a new life;   *)
(* as long as the wall clock was not stepped, the age keeps every such life  *)
(* within MaxAge, and the tolerated clock difference, of the first delivery. *)
LivesBounded ==
    Shown => /\ deadline <= since + MaxAge
             /\ ~stepped => deadline <= first + MaxAge + Skew

(* Neither a late answer nor an interval of unavailability takes the channel *)
(* back: what is published is never older than any timely report before it,  *)
(* empty reports included, for the power and for each energy field.          *)
NeverBackwards ==
    /\ Shown => published.time >= reported
    /\ \A f \in Fields : publishedE[f] # Nothing => publishedE[f].time >= reportedE[f]

(* Each reading that ran out is withdrawn by the heartbeat's refreshes alone *)
(* (architecture.md: stale channels must become unavailable).                *)
PowerRanOut == Shown /\ mono >= deadline
EnergyRanOut(f) == publishedE[f] # Nothing /\ energy[f].until <= mono
RanOutWithdrawn ==
    /\ PowerRanOut ~> ~PowerRanOut
    /\ \A f \in Fields : EnergyRanOut(f) ~> ~EnergyRanOut(f)

=============================================================================
