------------------------ MODULE EmporiaChannelProofs ------------------------
(***************************************************************************)
(* Proofs about one Emporia channel, for every set of readings, fields and *)
(* timestamps, every age limit and every behaviour of the wall clock.      *)
(*                                                                         *)
(* Neither invariant is inductive.  NeverBackwards speaks of what is       *)
(* published, but what a refresh will publish is the sample held back, so  *)
(* PowerHeld and EnergyHeld state that the reading held is the newest one  *)
(* reported, that only it is published, and that it is published for as    *)
(* long as it lasts.  LivesBounded compares two deadlines with the clock   *)
(* of their delivery; Anchored keeps the distance of the two clocks since  *)
(* then, which only a step of the wall clock can change.                   *)
(***************************************************************************)
EXTENDS EmporiaChannel, TLAPS

Sample == [value : Power, time : Stamps] \union {Nothing}
Energy == [value : Power, time : Stamps, until : Int] \union {NoEnergy}

ChannelTyped ==
    /\ wall \in Int /\ mono \in Int
    /\ sample \in Sample /\ deadline \in Int /\ watermark \in Stamp
    /\ energy \in [Fields -> Energy] /\ energyMark \in [Fields -> Stamp]
    /\ published \in Sample /\ publishedE \in [Fields -> Sample]
    /\ since \in Int /\ first \in Int /\ stepped \in BOOLEAN
    /\ reported \in Stamp /\ reportedE \in [Fields -> Stamp]

\* The sample held is the newest one reported, and it is what is published
\* until it runs out.
PowerHeld ==
    /\ watermark = reported
    /\ sample # Nothing => sample.time = reported
    /\ published # Nothing => published = sample
    /\ sample # Nothing /\ mono < deadline => published = sample

\* The same for each energy field.
EnergyHeld ==
    \A f \in Fields :
        /\ energyMark[f] = reportedE[f]
        /\ energy[f] # NoEnergy => energy[f].time = reportedE[f]
        /\ publishedE[f] # Nothing => /\ energy[f] # NoEnergy
                                      /\ publishedE[f].time = energy[f].time

\* Until the wall clock is stepped, the two clocks are as far apart as when
\* the newest report was found in its window, which bounds the deadline of any
\* later delivery of it.
Anchored ==
    ~stepped =>
        /\ reported # NoTime => wall - mono + first - reported >= -Skew
        /\ sample # Nothing => deadline <= first + MaxAge + Skew

ChannelInv == ChannelTyped /\ PowerHeld /\ EnergyHeld /\ Anchored /\ LivesBounded

-----------------------------------------------------------------------------
(* Lemmas about the operators.                                               *)

\* A timestamp other than NoTime is a number.
LEMMA StampNumber ==
    ASSUME NEW t \in Stamp
    PROVE  t # NoTime => t \in Stamps /\ t \in Int
BY EmporiaAssumption DEF Stamp

\* A reading is never mistaken for the absence of one.
LEMMA ReadingThere ==
    ASSUME NEW p \in Power, NEW ts \in Stamps, NEW u \in Int
    PROVE  /\ [value |-> p, time |-> ts] \in Sample
           /\ [value |-> p, time |-> ts] # Nothing
           /\ [value |-> p, time |-> ts, until |-> u] \in Energy
           /\ [value |-> p, time |-> ts, until |-> u] # NoEnergy
<1>1. p # NoPower
  BY EmporiaAssumption
<1>. QED BY <1>1 DEF Sample, Energy, Nothing, NoEnergy

\* What is held and not the absence of a reading is a reading.
LEMMA HeldReading ==
    /\ \A s \in Sample : s # Nothing => s.value \in Power /\ s.time \in Stamps
    /\ \A e \in Energy : e # NoEnergy =>
           /\ e.value \in Power /\ e.time \in Stamps /\ e.until \in Int
           /\ [value |-> e.value, time |-> e.time] \in Sample
           /\ [value |-> e.value, time |-> e.time] # Nothing
BY ReadingThere DEF Sample, Energy

\* A reading's deadline counts from its own time: a reading older than the
\* wall clock loses its age, and one from the future gains nothing.
LEMMA FreshUntilResult ==
    ASSUME wall \in Int, mono \in Int, NEW ts \in Int, NEW a \in Int
    PROVE  /\ FreshUntil(ts, a) \in Int
           /\ FreshUntil(ts, a) <= mono + a
           /\ FreshUntil(ts, a) <= mono + a - (wall - ts)
BY DEF FreshUntil

\* A delivery that is not older than the mark, and whose time is in the
\* window, moves the mark and the newest report to that time together.
LEMMA MarkFollows ==
    ASSUME wall \in Int, NEW ts \in Stamp, NEW mark \in Stamp, NEW a \in Int,
           ~IsOlder(ts, mark)
    PROVE  /\ Mark(ts, a, mark) \in Stamp
           /\ Mark(ts, a, mark) =
                IF InWindow(ts, a) /\ Newer(ts, mark) THEN ts ELSE mark
           /\ InWindow(ts, a) => /\ Mark(ts, a, mark) = ts
                                 /\ ts \in Stamps /\ ts \in Int
                                 /\ wall - ts >= -Skew
<1>1. /\ ts # NoTime => ts \in Stamps /\ ts \in Int
      /\ mark # NoTime => mark \in Int
  BY StampNumber
<1>. QED BY <1>1, EmporiaAssumption DEF Mark, IsOlder, Newer, InWindow

\* The publication at the end of a handler: the power is shown while it lasts,
\* and each energy field is the one held.
LEMMA PublishResult ==
    ASSUME NEW s \in Sample, NEW d \in Int, NEW e \in [Fields -> Energy],
           mono \in Int, since \in Int, published \in Sample,
           Publish(s, d, e, mono)
    PROVE  /\ published' \in Sample /\ publishedE' \in [Fields -> Sample]
           /\ since' \in Int
           /\ published' # Nothing => published' = s /\ mono < d
           /\ s # Nothing /\ mono < d => published' = s
           /\ published' # Nothing =>
                \/ published # Nothing /\ published.time = s.time /\ since' = since
                \/ ~(published # Nothing /\ published.time = s.time) /\ since' = mono
           /\ \A f \in Fields : publishedE'[f] # Nothing =>
                /\ e[f] # NoEnergy
                /\ publishedE'[f].time = e[f].time
<1>1. Nothing \in Sample
  BY DEF Sample
<1>2. /\ published' \in Sample
      /\ published' # Nothing => published' = s /\ mono < d
      /\ s # Nothing /\ mono < d => published' = s
  BY <1>1 DEF Publish, PowerToPublish
<1>3. /\ since' \in Int
      /\ published' # Nothing =>
           \/ published # Nothing /\ published.time = s.time /\ since' = since
           \/ ~(published # Nothing /\ published.time = s.time) /\ since' = mono
  BY <1>2 DEF Publish
<1>4. ASSUME NEW f \in Fields
      PROVE  /\ publishedE'[f] \in Sample
             /\ publishedE'[f] # Nothing =>
                  /\ e[f] # NoEnergy
                  /\ publishedE'[f].time = e[f].time
  <2>1. publishedE'[f] = IF e[f] # NoEnergy /\ e[f].until > mono
                           THEN [value |-> e[f].value, time |-> e[f].time]
                           ELSE Nothing
    BY DEF Publish
  <2>2. e[f] \in Energy
    OBVIOUS
  <2>. QED BY <2>1, <2>2, <1>1, HeldReading
<1>5. publishedE' \in [Fields -> Sample]
  <2>1. publishedE' = [f \in Fields |-> publishedE'[f]]
    BY DEF Publish
  <2>. QED BY <2>1, <1>4
<1>. QED BY <1>2, <1>3, <1>4, <1>5

-----------------------------------------------------------------------------
(* The invariant.                                                            *)

\* A new channel satisfies the invariant.
LEMMA InitInv == Init => ChannelInv
<1> SUFFICES ASSUME Init
             PROVE  ChannelInv
  OBVIOUS
<1>1. Nothing \in Sample /\ NoEnergy \in Energy /\ NoTime \in Stamp
  BY DEF Sample, Energy, Stamp
<1>2. ChannelTyped
  <2>1. wall \in Int /\ mono \in Int /\ since \in Int /\ first \in Int /\ deadline \in Int
    BY EmporiaAssumption DEF Init
  <2>2. /\ sample \in Sample /\ watermark \in Stamp /\ published \in Sample
        /\ stepped \in BOOLEAN /\ reported \in Stamp
    BY <1>1, Zenon DEF Init
  <2>3. /\ energy \in [Fields -> Energy] /\ energyMark \in [Fields -> Stamp]
        /\ publishedE \in [Fields -> Sample] /\ reportedE \in [Fields -> Stamp]
    BY <1>1 DEF Init
  <2>. QED BY <2>1, <2>2, <2>3 DEF ChannelTyped
<1>3. PowerHeld /\ EnergyHeld
  BY DEF Init, PowerHeld, EnergyHeld
<1>4. Anchored
  BY DEF Init, Anchored
<1>5. LivesBounded
  BY DEF Init, LivesBounded, Shown
<1>. QED BY <1>2, <1>3, <1>4, <1>5 DEF ChannelInv

\* A handler that leaves the power's deadline or shortens it, or replaces a
\* sample by another, ends in a publication whose life is bounded.
LEMMA PublishedLife ==
    ASSUME ChannelInv,
           NEW s \in Sample, NEW d \in Int, NEW e \in [Fields -> Energy],
           sample' = s, deadline' = d, energy' = e,
           UNCHANGED <<wall, mono, stepped>>,
           Publish(s, d, e, mono),
           \* a sample kept, or delivered again, lives no longer than before
           s # Nothing /\ sample # Nothing /\ sample.time = s.time => d <= deadline,
           \* a sample delivered lives at most MaxAge from now
           s # Nothing => s = sample \/ d <= mono + MaxAge,
           \* a sample held is the newest report
           s # Nothing => s.time = reported',
           watermark' = reported'
    PROVE  /\ published' \in Sample /\ publishedE' \in [Fields -> Sample]
           /\ since' \in Int
           /\ PowerHeld'
           /\ Shown' => deadline' <= since' + MaxAge
<1> USE DEF ChannelInv
<1>1. /\ mono \in Int /\ since \in Int /\ published \in Sample /\ deadline \in Int
      /\ MaxAge \in Int
  BY EmporiaAssumption DEF ChannelTyped
<1>2. /\ published' \in Sample /\ publishedE' \in [Fields -> Sample]
      /\ since' \in Int
      /\ published' # Nothing => published' = s /\ mono < d
      /\ s # Nothing /\ mono < d => published' = s
      /\ published' # Nothing =>
           \/ published # Nothing /\ published.time = s.time /\ since' = since
           \/ ~(published # Nothing /\ published.time = s.time) /\ since' = mono
  BY <1>1, PublishResult
<1>3. PowerHeld'
  BY <1>2 DEF PowerHeld
<1>4. ASSUME published' # Nothing
      PROVE  d <= since' + MaxAge
  <2>1. s # Nothing /\ published' = s /\ mono < d
    BY <1>2, <1>4
  <2>2. CASE published # Nothing /\ published.time = s.time /\ since' = since
    <3>1. published = sample /\ deadline <= since + MaxAge
      BY <2>2 DEF PowerHeld, LivesBounded, Shown
    <3>2. d <= deadline
      BY <2>1, <2>2, <3>1
    <3>. QED BY <3>1, <3>2, <2>2, <1>1
  <2>3. CASE ~(published # Nothing /\ published.time = s.time) /\ since' = mono
    <3>1. CASE s = sample
      \* a sample held and not yet published has run out
      <4>1. d <= deadline
        BY <2>1, <3>1
      <4>2. published = sample
        BY <4>1, <2>1, <3>1, <1>1 DEF PowerHeld
      <4>. QED BY <4>2, <3>1, <2>1, <2>3
    <3>2. CASE d <= mono + MaxAge
      BY <3>2, <2>3
    <3>. QED BY <3>1, <3>2, <2>1
  <2>. QED BY <2>1, <2>2, <2>3, <1>2, <1>4
<1>. QED BY <1>2, <1>3, <1>4 DEF Shown

\* A handler leaves every energy field it does not deliver as it was.
LEMMA EnergyKept ==
    ASSUME ChannelInv, UNCHANGED <<energy, energyMark, reportedE, mono>>,
           Publish(sample', deadline', energy, mono),
           sample' \in Sample, deadline' \in Int
    PROVE  EnergyHeld'
<1>1. /\ mono \in Int /\ since \in Int /\ published \in Sample
      /\ energy \in [Fields -> Energy]
  BY DEF ChannelInv, ChannelTyped
<1>2. \A f \in Fields : publishedE'[f] # Nothing =>
        /\ energy[f] # NoEnergy
        /\ publishedE'[f].time = energy[f].time
  BY <1>1, PublishResult
<1>. QED BY <1>2 DEF ChannelInv, EnergyHeld

\* update keeps the invariant.
LEMMA UpdateInv ==
    ASSUME ChannelInv, NEW p \in Value, NEW ts \in Stamp, Update(p, ts)
    PROVE  ChannelInv'
<1> USE DEF ChannelInv
<1>0. /\ wall \in Int /\ mono \in Int /\ MaxAge \in Int /\ Skew \in Int
      /\ watermark \in Stamp /\ watermark = reported /\ reported \in Stamp
      /\ sample \in Sample /\ deadline \in Int /\ first \in Int
      /\ energy \in [Fields -> Energy]
  BY EmporiaAssumption DEF ChannelTyped, PowerHeld
<1>1. ~IsOlder(ts, watermark)
  BY DEF Update
<1>2. /\ Mark(ts, MaxAge, watermark) \in Stamp
      /\ Mark(ts, MaxAge, watermark) =
           IF InWindow(ts, MaxAge) /\ Newer(ts, watermark) THEN ts ELSE watermark
      /\ InWindow(ts, MaxAge) => /\ Mark(ts, MaxAge, watermark) = ts
                                 /\ ts \in Stamps /\ ts \in Int
                                 /\ wall - ts >= -Skew
  BY <1>0, <1>1, MarkFollows
<1>3. /\ watermark' = reported' /\ reported' \in Stamp
      /\ InWindow(ts, MaxAge) => reported' = ts
      /\ ~InWindow(ts, MaxAge) => reported' = reported
  BY <1>0, <1>2 DEF Update
<1>4. /\ UNCHANGED <<wall, mono, energy, energyMark, reportedE, stepped>>
      /\ first' = IF reported' # reported THEN mono ELSE first
      /\ first' \in Int
      /\ Publish(sample', deadline', energy, mono)
  BY <1>0 DEF Update
<1>5. \/ /\ InWindow(ts, MaxAge) /\ p \in Power
         /\ sample' = [value |-> p, time |-> ts] /\ sample' # Nothing
         /\ deadline' = SampleDeadline(ts)
      \/ sample' = Nothing /\ deadline' = 0
  BY <1>2, ReadingThere DEF Update, Value
<1>6. /\ SampleDeadline(ts) \in Int \/ ~InWindow(ts, MaxAge)
      /\ InWindow(ts, MaxAge) =>
           /\ SampleDeadline(ts) <= mono + MaxAge
           /\ SampleDeadline(ts) <= mono + MaxAge - (wall - ts)
           /\ sample # Nothing /\ sample.time = ts => SampleDeadline(ts) <= deadline
  <2>. SUFFICES ASSUME InWindow(ts, MaxAge)
                PROVE  /\ SampleDeadline(ts) \in Int
                       /\ SampleDeadline(ts) <= mono + MaxAge
                       /\ SampleDeadline(ts) <= mono + MaxAge - (wall - ts)
                       /\ sample # Nothing /\ sample.time = ts =>
                            SampleDeadline(ts) <= deadline
    OBVIOUS
  <2>1. ts \in Int
    BY <1>2
  <2>2. /\ FreshUntil(ts, MaxAge) \in Int
        /\ FreshUntil(ts, MaxAge) <= mono + MaxAge
        /\ FreshUntil(ts, MaxAge) <= mono + MaxAge - (wall - ts)
    BY <1>0, <2>1, FreshUntilResult
  <2>. QED BY <2>1, <2>2, <1>0 DEF SampleDeadline, Least
<1>7. /\ sample' \in Sample /\ deadline' \in Int
      /\ sample' # Nothing => sample'.time = reported'
  BY <1>2, <1>3, <1>5, <1>6, ReadingThere DEF Sample
<1>8. /\ sample' # Nothing /\ sample # Nothing /\ sample.time = sample'.time =>
           deadline' <= deadline
      /\ sample' # Nothing => deadline' <= mono + MaxAge
  BY <1>5, <1>6
<1>9. /\ published' \in Sample /\ publishedE' \in [Fields -> Sample]
      /\ since' \in Int
      /\ PowerHeld'
      /\ Shown' => deadline' <= since' + MaxAge
  BY <1>0, <1>3, <1>4, <1>7, <1>8, PublishedLife
<1>10. EnergyHeld'
  BY <1>4, <1>7, EnergyKept
<1>11. Anchored'
  <2>. SUFFICES ASSUME ~stepped
                PROVE  /\ reported' # NoTime =>
                            wall - mono + first' - reported' >= -Skew
                       /\ sample' # Nothing => deadline' <= first' + MaxAge + Skew
    BY <1>4 DEF Anchored
  <2>1. reported' # NoTime => /\ reported' \in Int
                              /\ wall - mono + first' - reported' >= -Skew
    <3>1. reported # NoTime => reported \in Int
      BY <1>0, StampNumber
    <3>2. CASE reported' = reported
      BY <3>1, <3>2, <1>4 DEF Anchored
    <3>3. CASE reported' # reported
      BY <3>3, <1>0, <1>2, <1>3, <1>4
    <3>. QED BY <3>2, <3>3
  <2>2. ASSUME sample' # Nothing
        PROVE  deadline' <= first' + MaxAge + Skew
    <3>1. ts \in Int /\ reported' = ts /\ ts # NoTime
      BY <2>2, <1>2, <1>3, <1>5, EmporiaAssumption
    <3>2. deadline' <= mono + MaxAge - (wall - ts)
      BY <2>2, <1>5, <1>6
    <3>. QED BY <2>1, <3>1, <3>2, <1>0, <1>4, <1>7
  <2>. QED BY <2>1, <2>2
<1>12. LivesBounded'
  BY <1>9, <1>11, <1>7 DEF LivesBounded, Anchored, Shown, PowerHeld
<1>13. ChannelTyped'
  BY <1>0, <1>3, <1>4, <1>7, <1>9 DEF ChannelTyped
<1>. QED BY <1>9, <1>10, <1>11, <1>12, <1>13

\* update_energy keeps the invariant.
LEMMA UpdateEnergyInv ==
    ASSUME ChannelInv, NEW f \in Fields, NEW v \in Value, NEW ts \in Stamp,
           UpdateEnergy(f, v, ts)
    PROVE  ChannelInv'
<1> USE DEF ChannelInv
<1>0. /\ wall \in Int /\ mono \in Int /\ since \in Int /\ published \in Sample
      /\ sample \in Sample /\ deadline \in Int /\ reported \in Stamp
      /\ energy \in [Fields -> Energy] /\ energyMark \in [Fields -> Stamp]
      /\ reportedE \in [Fields -> Stamp] /\ energyMark[f] = reportedE[f]
      /\ EnergyMaxAge[f] \in Int
  BY EmporiaAssumption DEF ChannelTyped, EnergyHeld
<1>1. ~IsOlder(ts, energyMark[f])
  BY DEF UpdateEnergy
<1>2. /\ Mark(ts, EnergyMaxAge[f], energyMark[f]) \in Stamp
      /\ Mark(ts, EnergyMaxAge[f], energyMark[f]) =
           IF InWindow(ts, EnergyMaxAge[f]) /\ Newer(ts, energyMark[f])
             THEN ts ELSE energyMark[f]
      /\ InWindow(ts, EnergyMaxAge[f]) =>
           /\ Mark(ts, EnergyMaxAge[f], energyMark[f]) = ts
           /\ ts \in Stamps /\ ts \in Int
  BY <1>0, <1>1, MarkFollows
<1>3. /\ UNCHANGED <<wall, mono, sample, deadline, watermark, reported, first, stepped>>
      /\ Publish(sample, deadline, energy', mono)
  BY DEF UpdateEnergy
<1>4. /\ \A g \in Fields : energyMark'[g] = reportedE'[g]
      /\ energyMark' \in [Fields -> Stamp] /\ reportedE' \in [Fields -> Stamp]
      /\ InWindow(ts, EnergyMaxAge[f]) => reportedE'[f] = ts
      /\ \A g \in Fields \ {f} : reportedE'[g] = reportedE[g]
  BY <1>0, <1>2 DEF UpdateEnergy, EnergyHeld
<1>5. /\ energy'[f] \in Energy
      /\ energy'[f] # NoEnergy => energy'[f].time = reportedE'[f]
  <2>1. energy'[f] = IF InWindow(ts, EnergyMaxAge[f]) /\ v # NoPower
                       THEN [value |-> v, time |-> ts, until |-> EnergyDeadline(f, ts)]
                       ELSE NoEnergy
    BY <1>0 DEF UpdateEnergy
  <2>2. CASE InWindow(ts, EnergyMaxAge[f]) /\ v # NoPower
    <3>1. energy[f] # NoEnergy => energy[f].until \in Int
      BY <1>0, HeldReading
    <3>2. EnergyDeadline(f, ts) \in Int
      BY <3>1, <2>2, <1>0, <1>2, FreshUntilResult DEF EnergyDeadline, Least
    <3>3. v \in Power /\ ts \in Stamps /\ reportedE'[f] = ts
      BY <2>2, <1>2, <1>4 DEF Value
    <3>4. [value |-> v, time |-> ts, until |-> EnergyDeadline(f, ts)] \in Energy
      BY <3>2, <3>3, ReadingThere
    <3>. QED BY <2>1, <2>2, <3>3, <3>4
  <2>3. CASE ~(InWindow(ts, EnergyMaxAge[f]) /\ v # NoPower)
    BY <2>1, <2>3 DEF Energy
  <2>. QED BY <2>2, <2>3
<1>6. /\ energy' \in [Fields -> Energy]
      /\ \A g \in Fields \ {f} : energy'[g] = energy[g]
  BY <1>0, <1>5 DEF UpdateEnergy
<1>7. /\ published' \in Sample /\ publishedE' \in [Fields -> Sample]
      /\ since' \in Int
      /\ PowerHeld'
      /\ Shown' => deadline' <= since' + MaxAge
  BY <1>0, <1>3, <1>6, PublishedLife DEF PowerHeld
<1>8. EnergyHeld'
  <2>1. \A g \in Fields : publishedE'[g] # Nothing =>
          /\ energy'[g] # NoEnergy
          /\ publishedE'[g].time = energy'[g].time
    BY <1>0, <1>3, <1>6, PublishResult
  <2>. QED BY <2>1, <1>4, <1>5, <1>6 DEF EnergyHeld
<1>9. Anchored'
  BY <1>3 DEF Anchored
<1>10. LivesBounded'
  BY <1>7, <1>9, <1>3 DEF LivesBounded, Anchored, Shown, PowerHeld
<1>11. ChannelTyped'
  BY <1>3, <1>4, <1>6, <1>7 DEF ChannelTyped
<1>. QED BY <1>7, <1>8, <1>9, <1>10, <1>11

\* unavailable keeps the invariant.
LEMMA UnavailableInv == ASSUME ChannelInv, Unavailable PROVE ChannelInv'
<1> USE DEF ChannelInv
<1>1. /\ UNCHANGED <<wall, mono, watermark, energy, energyMark,
                     reported, reportedE, first, stepped>>
      /\ sample' = Nothing /\ deadline' = 0
      /\ sample' \in Sample /\ deadline' \in Int
      /\ Publish(sample', deadline', energy, mono)
      /\ energy \in [Fields -> Energy]
  BY DEF Unavailable, Sample, ChannelTyped
<1>2. watermark' = reported'
  BY <1>1 DEF PowerHeld
<1>3. /\ published' \in Sample /\ publishedE' \in [Fields -> Sample]
      /\ since' \in Int
      /\ PowerHeld'
      /\ Shown' => deadline' <= since' + MaxAge
  BY <1>1, <1>2, PublishedLife
<1>4. EnergyHeld'
  BY <1>1, EnergyKept
<1>5. Anchored'
  BY <1>1 DEF Anchored
<1>6. LivesBounded'
  BY <1>1, <1>3 DEF LivesBounded, Shown, PowerHeld
<1>7. ChannelTyped'
  BY <1>1, <1>3 DEF ChannelTyped
<1>. QED BY <1>3, <1>4, <1>5, <1>6, <1>7

\* refresh keeps the invariant.
LEMMA RefreshInv == ASSUME ChannelInv, Refresh PROVE ChannelInv'
<1> USE DEF ChannelInv
<1>1. /\ UNCHANGED <<wall, mono, sample, deadline, watermark, energy, energyMark,
                     reported, reportedE, first, stepped>>
      /\ sample \in Sample /\ deadline \in Int
      /\ Publish(sample, deadline, energy, mono)
      /\ energy \in [Fields -> Energy]
  BY DEF Refresh, ChannelTyped
<1>2. /\ watermark' = reported'
      /\ sample # Nothing => sample.time = reported'
  BY <1>1 DEF PowerHeld
<1>3. /\ published' \in Sample /\ publishedE' \in [Fields -> Sample]
      /\ since' \in Int
      /\ PowerHeld'
      /\ Shown' => deadline' <= since' + MaxAge
  BY <1>1, <1>2, PublishedLife
<1>4. EnergyHeld'
  BY <1>1, EnergyKept
<1>5. Anchored'
  BY <1>1 DEF Anchored
<1>6. LivesBounded'
  BY <1>1, <1>3, <1>5 DEF LivesBounded, Anchored, Shown, PowerHeld
<1>7. ChannelTyped'
  BY <1>1, <1>3 DEF ChannelTyped
<1>. QED BY <1>3, <1>4, <1>5, <1>6, <1>7

\* The clocks keep the invariant: a tick moves both, a step only the wall
\* clock's and sets the history's mark.
LEMMA ClocksInv == ASSUME ChannelInv, Tick \/ SetClock PROVE ChannelInv'
<1> USE DEF ChannelInv
<1>1. CASE Tick
  <2>0. /\ wall \in Int /\ mono \in Int /\ wall' = wall + 1 /\ mono' = mono + 1
        /\ deadline \in Int /\ first \in Int /\ Skew \in Int
        /\ reported # NoTime => reported \in Int
        /\ UNCHANGED <<sample, deadline, watermark, energy, energyMark,
                       published, publishedE, since, reported, reportedE, first, stepped>>
    BY <1>1, StampNumber, EmporiaAssumption DEF Tick, ChannelTyped, history
  <2>1. ChannelTyped'
    BY <2>0 DEF ChannelTyped
  <2>2. PowerHeld' /\ EnergyHeld'
    BY <2>0 DEF PowerHeld, EnergyHeld
  <2>3. Anchored'
    BY <2>0 DEF Anchored
  <2>4. LivesBounded'
    BY <2>0 DEF LivesBounded, Shown
  <2>. QED BY <2>1, <2>2, <2>3, <2>4
<1>2. CASE SetClock
  <2>0. /\ wall' \in Int /\ stepped' = TRUE
        /\ UNCHANGED <<mono, sample, deadline, watermark, energy, energyMark,
                       published, publishedE, since, reported, reportedE, first>>
    BY <1>2, EmporiaAssumption DEF SetClock
  <2>1. ChannelTyped'
    BY <2>0 DEF ChannelTyped
  <2>2. PowerHeld' /\ EnergyHeld'
    BY <2>0 DEF PowerHeld, EnergyHeld
  <2>3. Anchored'
    BY <2>0 DEF Anchored
  <2>4. LivesBounded'
    BY <2>0 DEF LivesBounded, Shown
  <2>. QED BY <2>1, <2>2, <2>3, <2>4
<1>. QED BY <1>1, <1>2

\* Every step keeps the invariant.
LEMMA NextInv == ChannelInv /\ [Next]_vars => ChannelInv'
<1> SUFFICES ASSUME ChannelInv, [Next]_vars
             PROVE  ChannelInv'
  OBVIOUS
<1>1. ASSUME NEW p \in Value, NEW ts \in Stamp, Update(p, ts)
      PROVE  ChannelInv'
  BY <1>1, UpdateInv
<1>2. ASSUME NEW f \in Fields, NEW v \in Value, NEW ts \in Stamp,
             UpdateEnergy(f, v, ts)
      PROVE  ChannelInv'
  BY <1>2, UpdateEnergyInv
<1>3. CASE Unavailable
  BY <1>3, UnavailableInv
<1>4. CASE Refresh
  BY <1>4, RefreshInv
<1>5. CASE Tick \/ SetClock
  BY <1>5, ClocksInv
<1>6. CASE UNCHANGED vars
  BY <1>6 DEF vars, history, ChannelInv, ChannelTyped, PowerHeld, EnergyHeld,
              Anchored, LivesBounded, Shown
<1>. QED BY <1>1, <1>2, <1>3, <1>4, <1>5, <1>6 DEF Next

-----------------------------------------------------------------------------

\* The inductive invariant: what is held is the newest report, only it is
\* published, and its deadline is tied to the clocks of its first delivery.
THEOREM ChannelInvariant == Spec => []ChannelInv
<1>. QED BY InitInv, NextInv, PTL DEF Spec

\* Repeats of a timestamp and steps of the wall clock never keep it published
\* past the age limit (EmporiaChannel.update and refresh).
THEOREM Lives == Spec => []LivesBounded
<1>1. ChannelInv => LivesBounded
  BY DEF ChannelInv
<1>. QED BY <1>1, ChannelInvariant, PTL

\* What is published is never older than a timely report before it, empty
\* reports included, for the power and for each energy field.
THEOREM Forward == Spec => []NeverBackwards
<1>1. ChannelInv => NeverBackwards
  <2>. SUFFICES ASSUME ChannelInv
                PROVE  NeverBackwards
    OBVIOUS
  <2>1. ASSUME Shown
        PROVE  published.time >= reported
    <3>1. published \in Sample /\ published # Nothing /\ published.time = reported
      BY <2>1 DEF ChannelInv, ChannelTyped, PowerHeld, Shown
    <3>2. reported \in Int
      BY <3>1, HeldReading, EmporiaAssumption
    <3>. QED BY <3>1, <3>2
  <2>2. ASSUME NEW f \in Fields, publishedE[f] # Nothing
        PROVE  publishedE[f].time >= reportedE[f]
    <3>1. publishedE[f] \in Sample
      BY DEF ChannelInv, ChannelTyped
    <3>2. publishedE[f].time = reportedE[f] /\ publishedE[f].time \in Stamps
      BY <2>2, <3>1, HeldReading DEF ChannelInv, EnergyHeld
    <3>3. publishedE[f].time \in Int
      <4>1. Stamps \subseteq Int
        BY EmporiaAssumption
      <4>. QED BY <3>2, <4>1
    <3> DEFINE x == publishedE[f].time
               y == reportedE[f]
    <3>4. x = y /\ x \in Int
      BY <3>2, <3>3
    <3> HIDE DEF x, y
    <3>5. x >= y
      BY <3>4
    <3>. QED BY <3>5 DEF x, y
  <2>. QED BY <2>1, <2>2 DEF NeverBackwards
<1>. QED BY <1>1, ChannelInvariant, PTL

=============================================================================
