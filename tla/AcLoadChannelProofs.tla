------------------------ MODULE AcLoadChannelProofs -------------------------
(***************************************************************************)
(* Proofs about one Home Assistant channel, for every set of readings and  *)
(* timestamps, every freshness limit and every behaviour of the two        *)
(* clocks.                                                                 *)
(*                                                                         *)
(* LifetimeBounded is not inductive: whether a repeated timestamp may be   *)
(* published depends on the deadline the code keeps for it while nothing   *)
(* is shown.  ChannelInv adds what ties that hidden deadline to history:   *)
(* only timestamps up to the watermark were ever published (Ordered), and  *)
(* the watermark's deadline, once it was published, is still known and no  *)
(* later than StaleAfter past that moment (Remembered).                    *)
(***************************************************************************)
EXTENDS AcLoadChannel, TLAPS

\* Only timestamps up to the watermark were ever published.
Ordered ==
    Limited => \A s \in Stamps : shownAt[s] # Never =>
                  chan.sourceTime # NoTime /\ s <= chan.sourceTime

\* The life of a published watermark is known and bounded, shown or not.
Remembered ==
    Limited => \A s \in Stamps : shownAt[s] # Never /\ s = chan.sourceTime =>
                  /\ chan.sourceDeadline # NoTime
                  /\ chan.sourceDeadline <= shownAt[s] + StaleAfter

\* /Connected agrees with the reading, and a limited channel's reading with
\* the time its limit rests on.
Coherent ==
    /\ chan.connected <=> IsShown(chan)
    /\ ~IsShown(chan) => chan.lastUpdate = NoTime /\ chan.freshUntil = 0
    /\ Limited /\ IsShown(chan) => /\ chan.lastUpdate = chan.sourceTime
                                   /\ chan.lastUpdate # NoTime
                                   /\ chan.freshUntil = chan.sourceDeadline

\* What a limited channel shows is in the history.
Recorded ==
    Limited /\ IsShown(chan) => /\ chan.lastUpdate \in Stamps
                                /\ shownAt[chan.lastUpdate] # Never

\* The published time is not behind the watermark.
NotBehind ==
    IsShown(chan) /\ chan.lastUpdate # NoTime /\ chan.sourceTime # NoTime =>
        chan.lastUpdate >= chan.sourceTime

ChannelInv == TypeOK /\ Coherent /\ Ordered /\ Remembered /\ Recorded /\ NotBehind

-----------------------------------------------------------------------------
(* Lemmas about the operators of AcLoad.                                     *)

\* Withdrawing a reading yields a channel with nothing to show whose
\* watermark and deadline are untouched.
LEMMA InvalidateResult ==
    ASSUME NEW ch \in Channel
    PROVE  /\ Invalidate(ch) \in Channel
           /\ ~IsShown(Invalidate(ch))
           /\ ~Invalidate(ch).connected
           /\ Invalidate(ch).lastUpdate = NoTime
           /\ Invalidate(ch).freshUntil = 0
           /\ Invalidate(ch).sourceTime = ch.sourceTime
           /\ Invalidate(ch).sourceDeadline = ch.sourceDeadline
<1>1. Invalidate(ch) \in Channel
  <2>1. NoPower \in Reading /\ NoTime \in Stamp /\ FALSE \in BOOLEAN /\ 0 \in Int
    BY DEF Reading, Stamp
  <2>. QED BY <2>1 DEF Invalidate, Channel
<1>2. ~Invalidate(ch).connected
  BY Zenon DEF Invalidate, Channel
<1>. QED BY <1>1, <1>2, ReadingAssumption DEF Invalidate, Channel, IsShown

\* Recording a timestamp moves the watermark to it, and keeps the deadline
\* exactly when the timestamp is the one already recorded.
LEMMA RecordResult ==
    ASSUME NEW ch \in Channel, NEW ts \in Int
    PROVE  /\ RecordSourceTime(ch, ts) \in Channel
           /\ RecordSourceTime(ch, ts).sourceTime = ts
           /\ ts = ch.sourceTime =>
                RecordSourceTime(ch, ts).sourceDeadline = ch.sourceDeadline
           /\ ts # ch.sourceTime =>
                RecordSourceTime(ch, ts).sourceDeadline = NoTime
BY DEF RecordSourceTime, Channel, Stamp

\* A deadline is at most maxAge away and never later than the one it had.
LEMMA DeadlineResult ==
    ASSUME NEW ch \in Channel, NEW ts \in Int, NEW maxAge \in Nat,
           NEW w \in Int, NEW m \in Int
    PROVE  /\ Deadline(ch, ts, maxAge, w, m) \in Int
           /\ Deadline(ch, ts, maxAge, w, m) <= m + maxAge
           /\ ch.sourceDeadline # NoTime =>
                Deadline(ch, ts, maxAge, w, m) <= ch.sourceDeadline
BY ReadingAssumption DEF Deadline, Channel, Stamp

\* The four outcomes of update_entity on a channel with a freshness limit:
\* an older report changes nothing; one without a usable reading withdraws,
\* moving the watermark if its time was in the window; one whose timestamp
\* has run out withdraws and keeps that deadline; any other is published
\* until a deadline in the future.
Ignored(n, ch, ts) == IsOlder(ch, ts) /\ n = ch

Withdrawn(n, ch, ts) ==
    /\ ~IsOlder(ch, ts)
    /\ \/ n = Invalidate(ch)
       \/ ts \in Int /\ n = Invalidate(RecordSourceTime(ch, ts))

Dated(n, ch, p, ts, maxAge, w, m) ==
    /\ ~IsOlder(ch, ts)
    /\ ts \in Int
    /\ p \in Power
    /\ n.sourceTime = ts
    /\ n.sourceDeadline \in Int
    /\ n.sourceDeadline <= m + maxAge
    /\ ts = ch.sourceTime /\ ch.sourceDeadline # NoTime =>
         n.sourceDeadline <= ch.sourceDeadline

RunOut(n, ch, p, ts, maxAge, w, m) ==
    /\ Dated(n, ch, p, ts, maxAge, w, m)
    /\ n.sourceDeadline <= m
    /\ n.power = NoPower /\ n.lastUpdate = NoTime
    /\ ~n.connected /\ n.freshUntil = 0

Published(n, ch, p, ts, maxAge, w, m) ==
    /\ Dated(n, ch, p, ts, maxAge, w, m)
    /\ n.sourceDeadline > m
    /\ n.power = p /\ n.lastUpdate = ts
    /\ n.connected /\ n.freshUntil = n.sourceDeadline

\* What update_entity returns for a channel with a freshness limit: the entity
\* is ignored, withdraws the reading, or is published until a deadline.
LEMMA LimitedUpdate ==
    ASSUME NEW ch \in Channel, NEW p \in Reading, NEW ts \in Stamp,
           NEW maxAge \in Nat, NEW w \in Int, NEW m \in Int
    PROVE  LET n == UpdateEntity(ch, p, ts, maxAge, w, m)
           IN  /\ n \in Channel
               /\ \/ Ignored(n, ch, ts)
                  \/ Withdrawn(n, ch, ts)
                  \/ RunOut(n, ch, p, ts, maxAge, w, m)
                  \/ Published(n, ch, p, ts, maxAge, w, m)
<1> DEFINE n == UpdateEntity(ch, p, ts, maxAge, w, m)
           marked == IF InWindow(ts, maxAge, w)
                       THEN RecordSourceTime(ch, ts) ELSE ch
<1>0. maxAge # Unlimited
  BY ReadingAssumption
<1>1. CASE IsOlder(ch, ts)
  <2>1. n = ch
    BY <1>1 DEF UpdateEntity
  <2>. QED BY <2>1, <1>1 DEF Ignored
<1>2. CASE ~IsOlder(ch, ts) /\ (p = NoPower \/ ~IsFresh(ts, maxAge, w))
  <2>1. n = Invalidate(marked)
    BY <1>2 DEF UpdateEntity
  <2>2. InWindow(ts, maxAge, w) => ts \in Int
    BY DEF InWindow, Stamp
  <2>3. marked \in Channel
    BY <2>2, RecordResult
  <2>4. Withdrawn(n, ch, ts)
    BY <1>2, <2>1, <2>2 DEF Withdrawn
  <2>. QED BY <2>1, <2>3, <2>4, InvalidateResult
<1>3. CASE ~IsOlder(ch, ts) /\ p # NoPower /\ IsFresh(ts, maxAge, w)
  <2> DEFINE d == Deadline(marked, ts, maxAge, w, m)
             dated == [marked EXCEPT !.freshUntil = d, !.sourceDeadline = d]
  <2>1. InWindow(ts, maxAge, w) /\ ts \in Int
    BY <1>0, <1>3 DEF IsFresh, InWindow, Stamp
  <2>2. marked = RecordSourceTime(ch, ts)
    BY <2>1
  <2>3. n = PublishUntil(marked, p, ts, d, m)
    BY <1>0, <1>3 DEF UpdateEntity
  <2>4. /\ marked \in Channel
        /\ marked.sourceTime = ts
        /\ ts = ch.sourceTime => marked.sourceDeadline = ch.sourceDeadline
    BY <2>1, <2>2, RecordResult
  <2>5. /\ d \in Int
        /\ d <= m + maxAge
        /\ marked.sourceDeadline # NoTime => d <= marked.sourceDeadline
    BY <2>1, <2>4, DeadlineResult
  <2>6. p \in Power
    BY <1>3 DEF Reading
  <2> HIDE DEF marked, d
  <2>7. /\ dated \in Channel
        /\ dated.sourceTime = ts
        /\ dated.sourceDeadline = d
        /\ dated.freshUntil = d
    BY <2>4, <2>5 DEF Channel, Stamp
  <2>8. CASE d <= m
    <3>1. n = Invalidate(dated)
      BY <2>3, <2>8 DEF PublishUntil
    <3>2. /\ n \in Channel
          /\ n.power = NoPower /\ n.lastUpdate = NoTime
          /\ ~n.connected /\ n.freshUntil = 0
          /\ n.sourceTime = ts /\ n.sourceDeadline = d
      BY <3>1, <2>7, InvalidateResult DEF IsShown
    <3>3. RunOut(n, ch, p, ts, maxAge, w, m)
      BY <3>2, <2>1, <2>4, <2>5, <2>6, <2>8, <1>3 DEF RunOut, Dated
    <3>. QED BY <3>2, <3>3
  <2>9. CASE ~(d <= m)
    <3>1. n = Publish(dated, p, ts)
      BY <2>3, <2>9 DEF PublishUntil
    <3>2. /\ n \in Channel
          /\ n.power = p /\ n.lastUpdate = ts /\ n.connected
          /\ n.freshUntil = d /\ n.sourceTime = ts /\ n.sourceDeadline = d
      BY <3>1, <2>1, <2>6, <2>7 DEF Publish, Channel, Reading, Stamp
    <3>3. Published(n, ch, p, ts, maxAge, w, m)
      BY <3>2, <2>1, <2>4, <2>5, <2>6, <2>9, <1>3 DEF Published, Dated
    <3>. QED BY <3>2, <3>3
  <2>. QED BY <2>8, <2>9
<1>. QED BY <1>1, <1>2, <1>3

\* Without a limit, update_entity never goes behind the watermark either.
LEMMA UnlimitedUpdate ==
    ASSUME NEW ch \in Channel, NEW p \in Reading, NEW ts \in Stamp,
           NEW w \in Int, NEW m \in Int
    PROVE  LET n == UpdateEntity(ch, p, ts, Unlimited, w, m)
           IN  /\ n \in Channel
               /\ \/ n = ch
                  \/ /\ ~IsShown(n) /\ ~n.connected
                     /\ n.lastUpdate = NoTime /\ n.freshUntil = 0
                  \/ /\ IsShown(n) /\ n.connected
                     /\ n.lastUpdate = ts
                     /\ ts # NoTime /\ n.sourceTime # NoTime =>
                          ts >= n.sourceTime
<1> DEFINE n == UpdateEntity(ch, p, ts, Unlimited, w, m)
           marked == IF InWindow(ts, Unlimited, w)
                       THEN RecordSourceTime(ch, ts) ELSE ch
<1>1. CASE IsOlder(ch, ts)
  BY <1>1 DEF UpdateEntity
<1>2. InWindow(ts, Unlimited, w) => ts \in Int
  BY DEF InWindow, Stamp
<1>3. marked \in Channel
  BY <1>2, RecordResult
<1>4. CASE ~IsOlder(ch, ts) /\ p = NoPower
  <2>1. n = Invalidate(marked)
    BY <1>4 DEF UpdateEntity
  <2>. QED BY <2>1, <1>3, InvalidateResult
<1>5. CASE ~IsOlder(ch, ts) /\ p # NoPower
  <2>1. n = Publish(marked, p, ts)
    BY <1>5 DEF UpdateEntity, IsFresh
  <2>2. p \in Reading /\ ts \in Stamp /\ TRUE \in BOOLEAN
    OBVIOUS
  <2>3. ts # NoTime /\ marked.sourceTime # NoTime => ts >= marked.sourceTime
    <3>1. CASE InWindow(ts, Unlimited, w)
      BY <3>1, <1>2, RecordResult
    <3>2. CASE ~InWindow(ts, Unlimited, w)
      BY <3>2, <1>5 DEF IsOlder, Channel, Stamp
    <3>. QED BY <3>1, <3>2
  <2> HIDE DEF marked
  <2>4. /\ n \in Channel
        /\ n.power = p /\ n.lastUpdate = ts
        /\ n.sourceTime = marked.sourceTime
    BY <2>1, <2>2, <1>3 DEF Publish, Channel
  <2>5. n.connected
    BY <2>1, <1>3, Zenon DEF Publish, Channel
  <2>. QED BY <2>3, <2>4, <2>5, <1>5 DEF IsShown
<1>. QED BY <1>1, <1>4, <1>5

-----------------------------------------------------------------------------
(* The inductive invariant.                                                  *)

\* A channel starts with nothing shown, recorded or remembered.
LEMMA ChannelInvInit == Init => ChannelInv
<1> SUFFICES ASSUME Init PROVE ChannelInv
  OBVIOUS
<1>1. NewChannel \in Channel
  <2>1. NoPower \in Reading /\ NoTime \in Stamp /\ FALSE \in BOOLEAN /\ 0 \in Int
    BY DEF Reading, Stamp
  <2>. QED BY <2>1 DEF NewChannel, Channel
<1>2. TypeOK
  BY <1>1, ChannelAssumption DEF Init, TypeOK
<1>3. chan.power = NoPower /\ chan.lastUpdate = NoTime /\ chan.freshUntil = 0
  BY DEF Init, NewChannel
<1>4. ~chan.connected
  BY Zenon DEF Init, NewChannel
<1>5. \A s \in Stamps : shownAt[s] = Never
  BY DEF Init
<1>. QED BY <1>2, <1>3, <1>4, <1>5
         DEF ChannelInv, Coherent, Ordered, Remembered, Recorded, NotBehind, IsShown

\* The history of a step: a first publication is dated now, the rest stays.
LEMMA RememberResult ==
    ASSUME NEW ch \in Channel, Remember(ch), TypeOK
    PROVE  /\ shownAt' \in [Stamps -> Nat \union {Never}]
           /\ \A s \in Stamps : shownAt[s] # Never => shownAt'[s] = shownAt[s]
           /\ \A s \in Stamps : shownAt[s] = Never =>
                \/ shownAt'[s] = Never
                \/ IsShown(ch) /\ ch.lastUpdate = s /\ shownAt'[s] = mono
           /\ \A s \in Stamps : IsShown(ch) /\ ch.lastUpdate = s =>
                shownAt'[s] # Never
<1>1. mono \in Nat /\ mono # Never
  BY ReadingAssumption, ChannelAssumption DEF TypeOK, Never
<1>2. shownAt \in [Stamps -> Nat \union {Never}]
  BY DEF TypeOK
<1>. QED BY <1>1, <1>2 DEF Remember

\* An entity preserves the invariant of a channel with a freshness limit.
LEMMA LimitedUpdateStep ==
    ASSUME ChannelInv, Limited,
           NEW p \in Reading, NEW ts \in Stamps \union {NoTime}, Update(p, ts)
    PROVE  ChannelInv'
<1> DEFINE n == UpdateEntity(chan, p, ts, StaleAfter, wall, mono)
<1>1. /\ chan' = n /\ wall' = wall /\ mono' = mono
      /\ Remember(n)
  BY DEF Update, Remember
<1>2. /\ chan \in Channel /\ ts \in Stamp /\ StaleAfter \in Nat
      /\ wall \in Int /\ mono \in Nat /\ StaleAfter # Unlimited
  BY ReadingAssumption, ChannelAssumption
     DEF ChannelInv, TypeOK, Stamp, Limited
<1>3. /\ n \in Channel
      /\ \/ Ignored(n, chan, ts)
         \/ Withdrawn(n, chan, ts)
         \/ RunOut(n, chan, p, ts, StaleAfter, wall, mono)
         \/ Published(n, chan, p, ts, StaleAfter, wall, mono)
  BY <1>2, LimitedUpdate
<1> HIDE DEF n
<1>4. TypeOK
  BY DEF ChannelInv
<1>5. /\ shownAt' \in [Stamps -> Nat \union {Never}]
      /\ \A s \in Stamps : shownAt[s] # Never => shownAt'[s] = shownAt[s]
      /\ \A s \in Stamps : shownAt[s] = Never =>
           \/ shownAt'[s] = Never
           \/ IsShown(n) /\ n.lastUpdate = s /\ shownAt'[s] = mono
      /\ \A s \in Stamps : IsShown(n) /\ n.lastUpdate = s => shownAt'[s] # Never
  BY <1>1, <1>3, <1>4, RememberResult
<1>6. TypeOK'
  BY <1>1, <1>3, <1>4, <1>5 DEF TypeOK
<1>7. CASE Ignored(n, chan, ts)
  <2>1. chan' = chan
    BY <1>1, <1>7 DEF Ignored
  <2>2. \A s \in Stamps : shownAt'[s] = shownAt[s]
    BY <1>5, <1>7 DEF Ignored, ChannelInv, Recorded
  <2>. QED BY <1>6, <2>1, <2>2
           DEF ChannelInv, Coherent, Ordered, Remembered, Recorded, NotBehind, IsShown, Limited
<1>8. CASE Withdrawn(n, chan, ts)
  <2>1. /\ n.power = NoPower /\ n.lastUpdate = NoTime
        /\ ~n.connected /\ n.freshUntil = 0
        /\ \/ /\ n.sourceTime = chan.sourceTime
              /\ n.sourceDeadline = chan.sourceDeadline
           \/ /\ ts \in Int /\ n.sourceTime = ts
              /\ ts = chan.sourceTime => n.sourceDeadline = chan.sourceDeadline
    <3>1. CASE n = Invalidate(chan)
      BY <3>1, <1>2, InvalidateResult DEF IsShown
    <3>2. CASE ts \in Int /\ n = Invalidate(RecordSourceTime(chan, ts))
      <4> DEFINE r == RecordSourceTime(chan, ts)
      <4>1. /\ r \in Channel /\ r.sourceTime = ts
            /\ ts = chan.sourceTime => r.sourceDeadline = chan.sourceDeadline
        BY <3>2, <1>2, RecordResult
      <4> HIDE DEF r
      <4>2. n = Invalidate(r)
        BY <3>2 DEF r
      <4>. QED BY <3>2, <4>1, <4>2, InvalidateResult DEF IsShown
    <3>. QED BY <3>1, <3>2, <1>8 DEF Withdrawn
  <2>2. \A s \in Stamps : shownAt'[s] = shownAt[s]
    BY <1>5, <2>1 DEF IsShown
  <2>3. ~IsOlder(chan, ts)
    BY <1>8 DEF Withdrawn
  <2>4. Coherent' /\ Recorded' /\ NotBehind'
    BY <1>1, <2>1 DEF Coherent, Recorded, NotBehind, IsShown, Limited
  <2>5. Ordered'
    BY <1>1, <1>2, <2>1, <2>2, <2>3, ChannelAssumption, ReadingAssumption
       DEF Ordered, ChannelInv, IsOlder, Channel, Stamp, Limited
  <2>6. Remembered'
    <3> SUFFICES ASSUME NEW s \in Stamps, shownAt'[s] # Never, s = chan'.sourceTime
                 PROVE  /\ chan'.sourceDeadline # NoTime
                        /\ chan'.sourceDeadline <= shownAt'[s] + StaleAfter
      BY DEF Remembered
    <3>1. shownAt[s] # Never
      BY <2>2
    <3>2. chan.sourceTime # NoTime /\ s <= chan.sourceTime /\ s \in Int
      BY <3>1, ChannelAssumption DEF ChannelInv, Ordered
    <3>3. s = chan.sourceTime /\ n.sourceDeadline = chan.sourceDeadline
      BY <1>1, <1>2, <2>1, <2>3, <3>2, ReadingAssumption DEF IsOlder, Channel, Stamp
    <3>. QED BY <1>1, <2>2, <3>1, <3>3 DEF ChannelInv, Remembered
  <2>. QED BY <1>6, <2>4, <2>5, <2>6 DEF ChannelInv
<1>9. CASE \/ RunOut(n, chan, p, ts, StaleAfter, wall, mono)
           \/ Published(n, chan, p, ts, StaleAfter, wall, mono)
  <2>1. Dated(n, chan, p, ts, StaleAfter, wall, mono)
    BY <1>9 DEF RunOut, Published
  <2>2. /\ ~IsOlder(chan, ts) /\ ts \in Int /\ ts \in Stamps /\ ts # NoTime
        /\ p # NoPower
        /\ n.sourceTime = ts /\ n.sourceDeadline \in Int
        /\ n.sourceDeadline # NoTime
        /\ n.sourceDeadline <= mono + StaleAfter
        /\ ts = chan.sourceTime /\ chan.sourceDeadline # NoTime =>
             n.sourceDeadline <= chan.sourceDeadline
    BY <2>1, ReadingAssumption DEF Dated
  <2>3. \/ /\ ~IsShown(n) /\ n.lastUpdate = NoTime
           /\ ~n.connected /\ n.freshUntil = 0
        \/ /\ IsShown(n) /\ n.lastUpdate = ts /\ n.connected
           /\ n.freshUntil = n.sourceDeadline
    BY <1>9, <2>2 DEF RunOut, Published, IsShown
  <2>4. Coherent'
    BY <1>1, <2>2, <2>3 DEF Coherent, IsShown, Limited
  <2>5. Recorded' /\ NotBehind'
    BY <1>1, <1>5, <2>2, <2>3 DEF Recorded, NotBehind, IsShown, Limited
  <2>6. \A s \in Stamps : shownAt[s] # Never => s <= ts
    BY <1>2, <2>2, ChannelAssumption
       DEF ChannelInv, Ordered, IsOlder, Channel, Stamp
  <2>7. \A s \in Stamps : shownAt'[s] # Never => s <= ts
    BY <1>5, <2>2, <2>3, <2>6
  <2>8. Ordered'
    BY <1>1, <2>2, <2>7 DEF Ordered
  <2>9. Remembered'
    <3> SUFFICES ASSUME shownAt'[ts] # Never
                 PROVE  n.sourceDeadline <= shownAt'[ts] + StaleAfter
      BY <1>1, <2>2 DEF Remembered
    <3>1. CASE shownAt[ts] # Never
      <4>1. ts = chan.sourceTime
        BY <3>1, <1>2, <2>2 DEF ChannelInv, Ordered, IsOlder, Channel, Stamp
      <4>2. /\ chan.sourceDeadline # NoTime
            /\ chan.sourceDeadline <= shownAt[ts] + StaleAfter
        BY <3>1, <4>1, <2>2 DEF ChannelInv, Remembered
      <4>3. chan.sourceDeadline \in Int /\ shownAt[ts] \in Nat
        BY <3>1, <4>2, <1>2, <1>4, <2>2 DEF Channel, Stamp, TypeOK
      <4>. QED BY <3>1, <4>1, <4>2, <4>3, <1>2, <1>5, <2>2
    <3>2. CASE shownAt[ts] = Never
      BY <3>2, <1>5, <2>2
    <3>. QED BY <3>1, <3>2
  <2>. QED BY <1>6, <2>4, <2>5, <2>8, <2>9 DEF ChannelInv
<1>. QED BY <1>3, <1>7, <1>8, <1>9

\* An entity preserves the invariant of a channel without a limit.
LEMMA UnlimitedUpdateStep ==
    ASSUME ChannelInv, ~Limited,
           NEW p \in Reading, NEW ts \in Stamps \union {NoTime}, Update(p, ts)
    PROVE  ChannelInv'
<1> DEFINE n == UpdateEntity(chan, p, ts, StaleAfter, wall, mono)
<1>1. /\ chan' = n /\ wall' = wall /\ mono' = mono
      /\ Remember(n)
  BY DEF Update, Remember
<1>2. /\ chan \in Channel /\ ts \in Stamp /\ StaleAfter = Unlimited
      /\ wall \in Int /\ mono \in Int
  BY ChannelAssumption DEF ChannelInv, TypeOK, Stamp, Limited
<1>3. /\ n \in Channel
      /\ \/ n = chan
         \/ /\ ~IsShown(n) /\ ~n.connected
            /\ n.lastUpdate = NoTime /\ n.freshUntil = 0
         \/ /\ IsShown(n) /\ n.connected
            /\ n.lastUpdate = ts
            /\ ts # NoTime /\ n.sourceTime # NoTime => ts >= n.sourceTime
  BY <1>2, UnlimitedUpdate
<1> HIDE DEF n
<1>4. TypeOK'
  BY <1>1, <1>3, RememberResult DEF ChannelInv, TypeOK
<1>5. ~Limited'
  BY DEF Limited
<1>6. Coherent' /\ NotBehind'
  BY <1>1, <1>3, <1>5 DEF ChannelInv, Coherent, NotBehind, IsShown
<1>. QED BY <1>4, <1>5, <1>6 DEF ChannelInv, Ordered, Remembered, Recorded

\* A withdrawal leaves watermark, deadline and history alone.
LEMMA WithdrawStep ==
    ASSUME ChannelInv, chan' = Invalidate(chan),
           wall' = wall, mono' = mono, shownAt' = shownAt
    PROVE  ChannelInv'
<1>1. /\ chan' \in Channel
      /\ chan'.power = NoPower /\ ~chan'.connected
      /\ chan'.lastUpdate = NoTime /\ chan'.freshUntil = 0
      /\ chan'.sourceTime = chan.sourceTime
      /\ chan'.sourceDeadline = chan.sourceDeadline
  BY InvalidateResult DEF ChannelInv, TypeOK, IsShown
<1>2. TypeOK'
  BY <1>1 DEF ChannelInv, TypeOK
<1>3. Coherent' /\ Recorded' /\ NotBehind'
  BY <1>1 DEF Coherent, Recorded, NotBehind, IsShown
<1>4. Ordered' /\ Remembered'
  BY <1>1 DEF ChannelInv, Ordered, Remembered, Limited
<1>. QED BY <1>2, <1>3, <1>4 DEF ChannelInv

\* Every step of the channel, the clocks' included, preserves the invariant.
LEMMA ChannelInvStep == ChannelInv /\ [Next]_vars => ChannelInv'
<1> SUFFICES ASSUME ChannelInv, [Next]_vars PROVE ChannelInv'
  OBVIOUS
<1> USE DEF Never
<1>1. ASSUME NEW p \in Reading, NEW ts \in Stamps \union {NoTime}, Update(p, ts)
      PROVE  ChannelInv'
  BY <1>1, LimitedUpdateStep, UnlimitedUpdateStep
<1>2. CASE Disconnected
  BY <1>2, WithdrawStep DEF Disconnected
<1>3. CASE ExpirePass
  <2>1. CASE StaleAfter # Unlimited /\ mono >= chan.freshUntil
    BY <1>3, <2>1, WithdrawStep DEF ExpirePass, Expire
  <2>2. CASE ~(StaleAfter # Unlimited /\ mono >= chan.freshUntil)
    BY <1>3, <2>2
       DEF ExpirePass, Expire, ChannelInv, TypeOK, Coherent, Ordered,
           Remembered, Recorded, NotBehind, IsShown, Limited
  <2>. QED BY <2>1, <2>2
<1>4. CASE Tick
  <2>1. TypeOK'
    BY <1>4, ChannelAssumption DEF Tick, ChannelInv, TypeOK
  <2>. QED BY <1>4, <2>1
           DEF Tick, ChannelInv, Coherent, Ordered, Remembered, Recorded,
               NotBehind, IsShown, Limited
<1>5. CASE SetClock
  BY <1>5 DEF SetClock, ChannelInv, TypeOK, Coherent, Ordered,
              Remembered, Recorded, NotBehind, IsShown, Limited
<1>6. CASE UNCHANGED vars
  BY <1>6 DEF vars, ChannelInv, TypeOK, Coherent, Ordered,
              Remembered, Recorded, NotBehind, IsShown, Limited
<1>. QED BY <1>1, <1>2, <1>3, <1>4, <1>5, <1>6 DEF Next

\* The inductive invariant holds in every reachable state, for every limit,
\* every set of timestamps and every behaviour of the wall clock.
THEOREM ChannelInvariant == Spec => []ChannelInv
<1>. QED BY ChannelInvInit, ChannelInvStep, PTL DEF Spec

-----------------------------------------------------------------------------
(* What it implies.                                                          *)

\* The variables and the service's fields keep their types.
THEOREM TypeCorrect == Spec => []TypeOK
<1>1. ChannelInv => TypeOK
  BY DEF ChannelInv
<1>. QED BY <1>1, ChannelInvariant, PTL

\* Repeating a timestamp never extends the life of its reading.
THEOREM LifetimeIsBounded == Spec => []LifetimeBounded
<1>1. ChannelInv => LifetimeBounded
  <2> SUFFICES ASSUME ChannelInv, Limited, IsShown(chan)
               PROVE  /\ shownAt[chan.lastUpdate] # Never
                      /\ chan.freshUntil <= shownAt[chan.lastUpdate] + StaleAfter
    BY DEF LifetimeBounded
  <2>1. chan.lastUpdate \in Stamps /\ shownAt[chan.lastUpdate] # Never
    BY DEF ChannelInv, Recorded
  <2>2. chan.lastUpdate = chan.sourceTime /\ chan.freshUntil = chan.sourceDeadline
    BY DEF ChannelInv, Coherent
  <2>. QED BY <2>1, <2>2 DEF ChannelInv, Remembered
<1>. QED BY <1>1, ChannelInvariant, PTL

\* The published reading is the newest one published or recorded.
THEOREM NewestIsShown == Spec => []NewestShown
<1>1. ChannelInv => NewestShown
  BY DEF ChannelInv, NewestShown, NotBehind, Ordered, Coherent
<1>. QED BY <1>1, ChannelInvariant, PTL

\* A publication by an entity, seen from the deadline it is given.
LEMMA ShowStep ==
    ASSUME ChannelInv, Limited, [Next]_vars, ~IsShown(chan), IsShown(chan')
    PROVE  \E p \in Reading, ts \in Stamps :
              Published(chan', chan, p, ts, StaleAfter, wall, mono)
<1>1. PICK p \in Reading, ts \in Stamps \union {NoTime} : Update(p, ts)
  <2>1. ~Disconnected /\ ~ExpirePass /\ ~Tick /\ ~SetClock /\ ~(UNCHANGED vars)
    BY InvalidateResult
       DEF Disconnected, ExpirePass, Tick, SetClock, vars, ChannelInv, TypeOK
  <2>. QED BY <2>1 DEF Next
<1> DEFINE n == UpdateEntity(chan, p, ts, StaleAfter, wall, mono)
<1>2. /\ chan \in Channel /\ ts \in Stamp /\ StaleAfter \in Nat
      /\ wall \in Int /\ mono \in Int
  BY ChannelAssumption DEF ChannelInv, TypeOK, Stamp, Limited
<1>3. /\ n \in Channel
      /\ \/ Ignored(n, chan, ts)
         \/ Withdrawn(n, chan, ts)
         \/ RunOut(n, chan, p, ts, StaleAfter, wall, mono)
         \/ Published(n, chan, p, ts, StaleAfter, wall, mono)
  BY <1>2, LimitedUpdate
<1>4. chan' = n
  BY <1>1 DEF Update
<1> HIDE DEF n
<1>5. ~Ignored(n, chan, ts) /\ ~RunOut(n, chan, p, ts, StaleAfter, wall, mono)
  BY <1>4 DEF Ignored, RunOut, IsShown
<1>6. ~Withdrawn(n, chan, ts)
  BY <1>2, <1>4, RecordResult, InvalidateResult DEF Withdrawn
<1>7. ts \in Stamps
  BY <1>3, <1>5, <1>6, ReadingAssumption DEF Published, Dated
<1>. QED BY <1>3, <1>4, <1>5, <1>6, <1>7

\* A timestamp whose life has ended is never published again.
THEOREM NoTimestampRevives == Spec => NoRevival
<1>1. ASSUME ChannelInv, [Next]_vars, Limited, ~IsShown(chan), IsShown(chan'),
             NEW s \in Stamps, shownAt[s] # Never, mono >= shownAt[s] + StaleAfter,
             chan'.lastUpdate = s
      PROVE  FALSE
  <2>1. PICK p \in Reading, ts \in Stamps :
           Published(chan', chan, p, ts, StaleAfter, wall, mono)
    BY <1>1, ShowStep
  <2>2. s = ts /\ s \in Int /\ s # NoTime
    BY <1>1, <2>1, ChannelAssumption, ReadingAssumption DEF Published
  <2>3. chan.sourceTime # NoTime /\ s <= chan.sourceTime /\ ~IsOlder(chan, s)
    BY <1>1, <2>1, <2>2 DEF ChannelInv, Ordered, Published, Dated
  <2>4. s = chan.sourceTime
    BY <1>1, <2>2, <2>3 DEF IsOlder, ChannelInv, TypeOK, Channel, Stamp
  <2>5. /\ chan.sourceDeadline # NoTime
        /\ chan.sourceDeadline <= shownAt[s] + StaleAfter
    BY <1>1, <2>4 DEF ChannelInv, Remembered
  <2>6. chan'.sourceDeadline > mono /\ chan'.sourceDeadline <= chan.sourceDeadline
    BY <2>1, <2>2, <2>4, <2>5 DEF Published, Dated
  <2>7. /\ chan.sourceDeadline \in Int /\ chan'.sourceDeadline \in Int
        /\ shownAt[s] \in Nat /\ mono \in Nat /\ StaleAfter \in Nat
    BY <1>1, <2>1, <2>5, ChannelAssumption
       DEF ChannelInv, TypeOK, Channel, Stamp, Published, Dated, Limited
  <2>. QED BY <1>1, <2>5, <2>6, <2>7
<1>2. ChannelInv /\ [Next]_vars =>
        [ Limited /\ ~IsShown(chan) /\ IsShown(chan') =>
            \A s \in Stamps :
              shownAt[s] # Never /\ mono >= shownAt[s] + StaleAfter
                => chan'.lastUpdate # s ]_vars
  BY <1>1
<1>. QED BY <1>2, ChannelInvariant, PTL DEF Spec, NoRevival

-----------------------------------------------------------------------------
(* The safety part of the contract.                                          *)

\* A channel with a freshness limit takes only steps the contract allows.
ContractSafety == Contract!Init /\ [][Contract!Next]_Contract!vars

\* What an entity does to the channel is a step, or a stutter, of the contract.
LEMMA ContractUpdate ==
    ASSUME ChannelInv, Limited,
           NEW p \in Reading, NEW ts \in Stamps \union {NoTime}, Update(p, ts)
    PROVE  Contract!Next \/ UNCHANGED Contract!vars
<1> DEFINE n == UpdateEntity(chan, p, ts, StaleAfter, wall, mono)
<1>1. chan' = n /\ mono' = mono
  BY DEF Update
<1>2. /\ chan \in Channel /\ ts \in Stamp /\ StaleAfter \in Nat
      /\ wall \in Int /\ mono \in Int
  BY ChannelAssumption DEF ChannelInv, TypeOK, Stamp, Limited
<1>3. /\ n \in Channel
      /\ \/ Ignored(n, chan, ts)
         \/ Withdrawn(n, chan, ts)
         \/ RunOut(n, chan, p, ts, StaleAfter, wall, mono)
         \/ Published(n, chan, p, ts, StaleAfter, wall, mono)
  BY <1>2, LimitedUpdate
<1> HIDE DEF n
<1>4. ~IsOlder(chan, ts) /\ ts \in Int /\ n.sourceTime = ts =>
        \/ n.sourceTime # NoTime /\ (chan.sourceTime # NoTime => n.sourceTime > chan.sourceTime)
        \/ n.sourceTime = chan.sourceTime
  BY <1>2, ReadingAssumption DEF IsOlder, Channel, Stamp
<1>5. CASE Ignored(n, chan, ts)
  BY <1>1, <1>5 DEF Ignored, Contract!vars
<1>6. CASE Withdrawn(n, chan, ts)
  <2>1. CASE n = Invalidate(chan)
    <3>1. /\ n.power = NoPower /\ n.sourceTime = chan.sourceTime
          /\ n.sourceDeadline = chan.sourceDeadline
      BY <2>1, <1>2, InvalidateResult DEF IsShown
    <3>2. chan.sourceDeadline # NoTime => chan.sourceDeadline \in Int
      BY <1>2 DEF Channel, Stamp
    <3>. QED BY <1>1, <3>1, <3>2
             DEF Contract!Next, Contract!Withdraw, Contract!SameStamp
  <2>2. CASE ts \in Int /\ n = Invalidate(RecordSourceTime(chan, ts))
    <3> DEFINE r == RecordSourceTime(chan, ts)
    <3>1. /\ r \in Channel /\ r.sourceTime = ts
          /\ ts = chan.sourceTime => r.sourceDeadline = chan.sourceDeadline
      BY <2>2, <1>2, RecordResult
    <3> HIDE DEF r
    <3>2. /\ n.power = NoPower /\ n.sourceTime = ts
          /\ ts = chan.sourceTime => n.sourceDeadline = chan.sourceDeadline
      BY <2>2, <3>1, InvalidateResult DEF r, IsShown
    <3>3. chan.sourceDeadline # NoTime => chan.sourceDeadline \in Int
      BY <1>2 DEF Channel, Stamp
    <3>. QED BY <1>1, <1>4, <1>6, <2>2, <3>2, <3>3
             DEF Withdrawn, Contract!Next, Contract!Withdraw,
                 Contract!SameStamp, Contract!NewStamp
  <2>. QED BY <1>6, <2>1, <2>2 DEF Withdrawn
<1>7. CASE RunOut(n, chan, p, ts, StaleAfter, wall, mono)
  <2>1. /\ n.power = NoPower
        /\ n.sourceTime = ts /\ ts \in Int /\ ~IsOlder(chan, ts)
        /\ n.sourceDeadline \in Int /\ n.sourceDeadline # NoTime
        /\ ts = chan.sourceTime /\ chan.sourceDeadline # NoTime =>
             n.sourceDeadline <= chan.sourceDeadline
    BY <1>7, ReadingAssumption DEF RunOut, Dated
  <2>. QED BY <1>1, <1>4, <2>1
           DEF Contract!Next, Contract!Withdraw, Contract!SameStamp, Contract!NewStamp
<1>8. CASE Published(n, chan, p, ts, StaleAfter, wall, mono)
  <2>1. /\ n.power \in Power
        /\ n.sourceTime = ts /\ ts \in Int /\ ts # NoTime /\ ~IsOlder(chan, ts)
        /\ n.sourceDeadline \in Int /\ n.sourceDeadline # NoTime
        /\ mono < n.sourceDeadline /\ n.sourceDeadline <= mono + StaleAfter
        /\ ts = chan.sourceTime /\ chan.sourceDeadline # NoTime =>
             n.sourceDeadline <= chan.sourceDeadline
    BY <1>2, <1>8, ReadingAssumption DEF Published, Dated
  <2>. QED BY <1>1, <1>4, <2>1
           DEF Contract!Next, Contract!Show, Contract!SameStamp, Contract!NewStamp
<1>. QED BY <1>3, <1>5, <1>6, <1>7, <1>8

\* The channel implements the safety part of the contract.
THEOREM ContractIsKept == ASSUME Limited PROVE Spec => ContractSafety
<1>1. Init => Contract!Init
  BY DEF Init, Contract!Init, NewChannel
<1>2. ASSUME ChannelInv, [Next]_vars
      PROVE  [Contract!Next]_Contract!vars
  <2>1. ASSUME chan' = Invalidate(chan), mono' = mono
        PROVE  Contract!Next
    <3>1. /\ chan'.power = NoPower /\ chan'.sourceTime = chan.sourceTime
          /\ chan'.sourceDeadline = chan.sourceDeadline
      BY <1>2, <2>1, InvalidateResult DEF ChannelInv, TypeOK, IsShown
    <3>2. chan.sourceDeadline # NoTime => chan.sourceDeadline \in Int
      BY <1>2 DEF ChannelInv, TypeOK, Channel, Stamp
    <3>. QED BY <2>1, <3>1, <3>2
             DEF Contract!Next, Contract!Withdraw, Contract!SameStamp
  <2>2. CASE \E p \in Reading, ts \in Stamps \union {NoTime} : Update(p, ts)
    BY <1>2, <2>2, ContractUpdate
  <2>3. CASE Disconnected
    BY <2>1, <2>3 DEF Disconnected
  <2>4. CASE ExpirePass
    BY <2>1, <2>4 DEF ExpirePass, Expire, Contract!vars
  <2>5. CASE Tick
    BY <1>2, <2>5 DEF Tick, ChannelInv, TypeOK, Contract!Next, Contract!Advance
  <2>6. CASE SetClock \/ UNCHANGED vars
    BY <2>6 DEF SetClock, vars, Contract!vars
  <2>. QED BY <1>2, <2>2, <2>3, <2>4, <2>5, <2>6 DEF Next
<1>. QED BY <1>1, <1>2, ChannelInvariant, PTL DEF Spec, ContractSafety

=============================================================================
