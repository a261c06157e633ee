--------------------------- MODULE HaClientProofs ---------------------------
(***************************************************************************)
(* Proofs about the Home Assistant client, for every set of channels and   *)
(* readings, every freshness limit, any number of changes, connections and *)
(* requests, and every interleaving of the client task, its refresh task,  *)
(* the request threads and Home Assistant.                                 *)
(*                                                                         *)
(* None of the properties is inductive.  OneRequest and SessionHandedOver  *)
(* rest on Handed: the only live thread is the one _rest_future stands     *)
(* for.  NothingOlderThanSeen has to say of every report still under way   *)
(* (in the inbox, in a snapshot, in a request) why it will not be taken    *)
(* for newer than it is: Ordered, Snapshots and Answers do.                *)
(***************************************************************************)
EXTENDS HaClient, SequenceTheorems, WellFoundedInduction, TLAPS

\* An entity without a timestamp is one that is not there.
Entity == {e \in [power : Reading, ts : Stamp, at : Nat] :
              (e.ts = NoTime /\ e.power = NoPower) \/ e.ts = e.at}

Message == [kind : {"event"}, channel : Channels, entity : Entity]
           \union [kind : {"result"}, states : [Channels -> Entity]]
           \union {Refused}

Request == [pc : {"unused", "start", "reading", "finish", "done"},
            channel : Channels \union {SweepAt(1)}, answer : Entity]

ClientTyped ==
    /\ clock \in Nat
    /\ ha \in [Channels -> Entity]
    /\ subscribed \in BOOLEAN /\ lost \in BOOLEAN
    /\ snap \in [Channels -> Entity] \union {NoSnapshot}
    /\ inbox \in Seq(Message)
    /\ task \in {"waiting", "opening", "subscribing", "snapshot", "listening", "stopped"}
    /\ eventTimes \in [Channels -> {<<>>} \union {<<t>> : t \in Stamp}]
    /\ ch \in [Channels -> Channel]
    /\ rev \in [Channels -> Nat]
    /\ refresh \in [pc : {"none", "sleeping", "draining", "awaiting"},
                    at : 0..SweepLength, rev : Nat, wake : Int]
    /\ restAfter \in [Channels -> Int]
    /\ restFuture \in Requests \union {NoRequest}
    /\ restClosed \in BOOLEAN /\ session \in BOOLEAN
    /\ req \in [Requests -> Request]
    /\ \A r \in Requests : Live(r) => req[r].channel \in Channels
    /\ seen \in [Channels -> Nat]
    /\ held \in Stamp

Fetching == refresh.pc \in {"draining", "awaiting"}

\* The refresh task only lives while listening, and messages only arrive
\* between a subscription and the end of its connection.
Phases ==
    /\ refresh.pc # "none" => task = "listening"
    /\ Fetching => refresh.at \in 1..SweepLength
    /\ task = "stopped" => restClosed
    /\ (inbox # <<>> \/ subscribed) => task \in {"subscribing", "snapshot", "listening"}

\* The only live thread is the one the future in hand stands for, and that
\* future is completed or has its thread.
Handed ==
    /\ \A r \in Requests : Live(r) => restFuture = r
    /\ restFuture # NoRequest => Live(restFuture) \/ Done(restFuture)
    /\ Fetching => restFuture # NoRequest

IsEvent(m) == m.kind = "event"

\* Home Assistant sends one snapshot per request, while it is waited for.
OneSnapshot ==
    /\ snap # NoSnapshot =>
         task = "snapshot" /\ \A k \in DOMAIN inbox : IsEvent(inbox[k])
    /\ \A k \in DOMAIN inbox : ~IsEvent(inbox[k]) =>
         task = "snapshot" /\ \A j \in DOMAIN inbox : j # k => IsEvent(inbox[j])

\* Nothing is processed that Home Assistant has not said, in its order.
Known == \A c \in Channels : seen[c] <= ha[c].at /\ ha[c].at <= clock

\* Channel c will not publish a report of time t.
Behind(c, t) ==
    \/ ch[c].sourceTime # NoTime /\ t < ch[c].sourceTime
    \/ StaleAfter[c] # Unlimited /\ clock - t > StaleAfter[c]

\* An event e on its way for channel c: if an answer overtook it, it is behind,
\* and no answer overtakes it while none may be applied.
Unpassed(c, e) ==
    /\ e.at <= ha[c].at
    /\ task # "listening" => seen[c] <= e.at
    /\ e.ts # NoTime /\ e.ts < seen[c] => Behind(c, e.ts)

\* Events arrive in the order of their reports.
Sorted ==
    \A j, k \in DOMAIN inbox :
        /\ j < k /\ IsEvent(inbox[j]) /\ IsEvent(inbox[k])
        /\ inbox[j].channel = inbox[k].channel
        => inbox[j].entity.at <= inbox[k].entity.at

Ordered ==
    /\ \A k \in DOMAIN inbox :
         IsEvent(inbox[k]) => Unpassed(inbox[k].channel, inbox[k].entity)
    /\ Sorted

\* A snapshot on its way is behind only events it can be compared with.
SnapshotOf(s) ==
    \A c \in Channels : /\ s[c].at <= ha[c].at
                        /\ eventTimes[c] = <<>> => seen[c] <= s[c].at

Snapshots ==
    /\ snap # NoSnapshot => SnapshotOf(snap)
    /\ \A k \in DOMAIN inbox : inbox[k].kind = "result" => SnapshotOf(inbox[k].states)
    /\ task = "snapshot" =>
         \A c \in Channels : eventTimes[c] # <<>> =>
             eventTimes[c][1] = NoTime \/ eventTimes[c][1] = seen[c]

\* While no event has come for the channel being fetched, it shows what it
\* showed at the decision or nothing, and an answer is not older than it.
Answers ==
    Fetching =>
        LET c == SweepAt(refresh.at)
        IN  /\ refresh.rev <= rev[c]
            /\ refresh.rev = rev[c] /\ IsShown(ch[c]) => ch[c].lastUpdate = held
            /\ refresh.pc = "awaiting" =>
                 LET q == req[restFuture]
                 IN  /\ q.channel = c
                     /\ q.answer.at <= ha[c].at
                     /\ q.answer.ts = NoTime => q.answer = NoEntity
                     /\ refresh.rev = rev[c] /\ q.answer.ts # NoTime => seen[c] <= q.answer.at

\* What a channel shows is dated and not behind its watermark.
Dated ==
    \A c \in Channels : IsShown(ch[c]) =>
        /\ ch[c].lastUpdate # NoTime
        /\ ch[c].sourceTime # NoTime => ch[c].sourceTime <= ch[c].lastUpdate

ClientInv ==
    /\ ClientTyped /\ Phases /\ Handed /\ SessionHandedOver
    /\ OneSnapshot /\ Known /\ Ordered /\ Snapshots /\ Answers /\ Dated
    /\ OfflineShowsNothing /\ NothingOlderThanSeen

-----------------------------------------------------------------------------
(* Lemmas about the operators.                                               *)

\* A nonempty set of natural numbers has a least element.
LEMMA LeastNatural ==
    ASSUME NEW T, T \subseteq Nat, T # {}
    PROVE  \E x \in T : \A y \in T : x <= y
<1>1. \E x \in T : \A y \in T : ~(<<y, x>> \in OpToRel(<, Nat))
  BY NatLessThanWellFounded, WFMin
<1>2. \A x, y \in T : <<y, x>> \notin OpToRel(<, Nat) => x <= y
  BY DEF OpToRel
<1>. QED BY <1>1, <1>2, Zenon

\* Every place of the sweep is a channel.
LEMMA SweepTyped ==
    /\ SweepLength \in Nat
    /\ \A k \in 1..SweepLength : SweepAt(k) \in Channels
<1>1. Len(Selected) \in {0, 1} /\ Len(Ordinary) \in Nat
  <2>1. Selected \in Seq(Channels) /\ Ordinary \in Seq(Channels) /\ Len(Selected) <= 1
    BY ClientAssumption
  <2>2. Len(Selected) \in Nat /\ Len(Ordinary) \in Nat
    BY <2>1, LenProperties
  <2>3. \A n \in Nat : n <= 1 => n \in {0, 1}
    OBVIOUS
  <2>. QED BY <2>1, <2>2, <2>3, Zenon
<1>2. SweepLength = IF Len(Selected) = 0 THEN Len(Ordinary) ELSE 1 + 2 * Len(Ordinary)
  <2>1. CASE Len(Selected) = 0
    BY <1>1, <2>1 DEF SweepLength
  <2>2. CASE Len(Selected) = 1
    BY <1>1, <2>2 DEF SweepLength
  <2>. QED BY <1>1, <2>1, <2>2
<1>3. /\ \A k \in 1..Len(Selected) : Selected[k] \in Channels
      /\ \A k \in 1..Len(Ordinary) : Ordinary[k] \in Channels
  BY ClientAssumption
<1>4. ASSUME NEW k \in 1..SweepLength
      PROVE  SweepAt(k) \in Channels
  <2>1. CASE Len(Selected) = 0
    <3>1. k % 1 = 0 /\ k \div 1 = k
      OBVIOUS
    <3>. QED BY <2>1, <3>1, <1>2, <1>3 DEF SweepAt
  <2>2. CASE Len(Selected) = 1
    <3>1. CASE k = 1
      BY <2>2, <3>1, <1>3 DEF SweepAt
    <3>2. CASE k > 1 /\ (k - 1) % 2 # 0
      <4>1. (k - 1) % 2 = 1
        BY <3>2
      <4>. QED BY <2>2, <3>2, <4>1, <1>3 DEF SweepAt
    <3>3. CASE k > 1 /\ (k - 1) % 2 = 0
      <4>1. (k - 1) \div 2 \in 1..Len(Ordinary)
        BY <2>2, <3>3, <1>1, <1>2
      <4>. QED BY <2>2, <3>3, <4>1, <1>3 DEF SweepAt
    <3>. QED BY <3>1, <3>2, <3>3
  <2>. QED BY <1>1, <2>1, <2>2
<1>. QED BY <1>1, <1>2, <1>4

\* Withdrawing a reading keeps the watermark.
LEMMA InvalidateResult ==
    ASSUME NEW c \in Channel
    PROVE  /\ Invalidate(c) \in Channel
           /\ ~IsShown(Invalidate(c))
           /\ Invalidate(c).sourceTime = c.sourceTime
<1>1. NoPower \in Reading /\ NoTime \in Stamp /\ FALSE \in BOOLEAN /\ 0 \in Int
  BY DEF Reading, Stamp
<1>. QED BY <1>1 DEF Invalidate, Channel, IsShown

\* Expiry withdraws a channel or leaves it.
LEMMA ExpireResult ==
    ASSUME NEW c \in Channel, NEW maxAge, NEW m \in Int
    PROVE  /\ Expire(c, maxAge, m) \in Channel
           /\ Expire(c, maxAge, m).sourceTime = c.sourceTime
           /\ IsShown(Expire(c, maxAge, m)) => Expire(c, maxAge, m) = c
BY InvalidateResult DEF Expire

\* What update_entity makes of a report, on a clock both sides share: what it
\* shows is what it showed, if the report is older than the watermark, or the
\* report; the watermark never goes back, and reaches the report's time if
\* that is in the window.
LEMMA UpdateResult ==
    ASSUME NEW c \in Channel, NEW p \in Reading, NEW ts \in Stamp,
           NEW maxAge \in Nat \union {Unlimited}, NEW t \in Int
    PROVE  LET n == UpdateEntity(c, p, ts, maxAge, t, t)
           IN  /\ n \in Channel
               /\ IsShown(n) => \/ n = c /\ IsOlder(c, ts)
                                \/ /\ ~IsOlder(c, ts) /\ p # NoPower
                                   /\ n.lastUpdate = ts
                                   /\ IsFresh(ts, maxAge, t)
                                   /\ n.sourceTime = ts \/ n.sourceTime = c.sourceTime
               /\ c.sourceTime # NoTime => /\ n.sourceTime # NoTime
                                           /\ c.sourceTime <= n.sourceTime
               /\ InWindow(ts, maxAge, t) => n.sourceTime # NoTime /\ ts <= n.sourceTime
<1> DEFINE marked == IF InWindow(ts, maxAge, t) THEN RecordSourceTime(c, ts) ELSE c
           n == UpdateEntity(c, p, ts, maxAge, t, t)
<1>1. /\ marked \in Channel
      /\ InWindow(ts, maxAge, t) => marked.sourceTime = ts /\ ts \in Int
      /\ ~InWindow(ts, maxAge, t) => marked.sourceTime = c.sourceTime
  BY DEF RecordSourceTime, Channel, Stamp, InWindow
<1>2. c.sourceTime # NoTime => c.sourceTime \in Int
  BY DEF Channel, Stamp
<1>3. CASE IsOlder(c, ts)
  <2>1. n = c
    BY <1>3 DEF UpdateEntity
  <2>2. c.sourceTime \in Int /\ ts \in Int /\ ts < c.sourceTime
    BY <1>2, <1>3 DEF IsOlder, Stamp
  <2>. QED BY <1>3, <2>1, <2>2, ReadingAssumption
<1>4. CASE ~IsOlder(c, ts)
  <2>1. /\ c.sourceTime # NoTime => marked.sourceTime # NoTime /\ c.sourceTime <= marked.sourceTime
        /\ InWindow(ts, maxAge, t) => marked.sourceTime # NoTime /\ ts <= marked.sourceTime
    BY <1>1, <1>2, <1>4, ReadingAssumption DEF IsOlder
  <2>2. CASE p = NoPower \/ ~IsFresh(ts, maxAge, t)
    <3>1. n = Invalidate(marked)
      BY <1>4, <2>2 DEF UpdateEntity
    <3> HIDE DEF marked
    <3>. QED BY <3>1, <1>1, <2>1, InvalidateResult
  <2>3. CASE p # NoPower /\ IsFresh(ts, maxAge, t) /\ maxAge = Unlimited
    <3>1. n = Publish(marked, p, ts)
      BY <1>4, <2>3 DEF UpdateEntity
    <3>2. /\ n \in Channel /\ n.lastUpdate = ts /\ n.sourceTime = marked.sourceTime
      <4>1. TRUE \in BOOLEAN
        OBVIOUS
      <4> HIDE DEF marked
      <4>. QED BY <3>1, <1>1, <4>1 DEF Publish, Channel
    <3>3. marked.sourceTime = ts \/ marked.sourceTime = c.sourceTime
      BY <1>1
    <3> HIDE DEF marked
    <3>. QED BY <2>1, <2>3, <3>2, <3>3, <1>4
  <2>4. CASE p # NoPower /\ IsFresh(ts, maxAge, t) /\ maxAge # Unlimited
    <3>1. InWindow(ts, maxAge, t) /\ ts \in Int /\ maxAge \in Nat
      BY <2>4, <1>1 DEF IsFresh
    <3> DEFINE d == Deadline(marked, ts, maxAge, t, t)
               dated == [marked EXCEPT !.freshUntil = d, !.sourceDeadline = d]
    <3>2. n = IF d <= t THEN Invalidate(dated) ELSE Publish(dated, p, ts)
      BY <1>4, <2>4 DEF UpdateEntity, PublishUntil
    <3>3. d \in Int
      <4>1. marked.sourceDeadline # NoTime => marked.sourceDeadline \in Int
        BY <1>1 DEF Channel, Stamp
      <4>. QED BY <3>1, <4>1 DEF Deadline
    <3>4. dated \in Channel /\ dated.sourceTime = marked.sourceTime
      <4> HIDE DEF marked, d
      <4>. QED BY <1>1, <3>3 DEF Channel, Stamp
    <3>5. /\ Publish(dated, p, ts) \in Channel
          /\ Publish(dated, p, ts).lastUpdate = ts
          /\ Publish(dated, p, ts).sourceTime = dated.sourceTime
      <4>1. TRUE \in BOOLEAN
        OBVIOUS
      <4> HIDE DEF dated
      <4>. QED BY <3>4, <4>1 DEF Publish, Channel
    <3>6. marked.sourceTime = ts
      BY <1>1, <3>1
    <3> HIDE DEF marked, d, dated
    <3>. QED BY <2>1, <2>4, <3>1, <3>2, <3>4, <3>5, <3>6, <1>4, InvalidateResult
  <2>. QED BY <2>2, <2>3, <2>4
<1>. QED BY <1>3, <1>4

\* The entity that is not there, and the requests that hold it.
LEMMA IdleTyped ==
    /\ NoEntity \in Entity
    /\ IdleRequest \in Request
    /\ \A c \in Channels : [IdleRequest EXCEPT !.pc = "start", !.channel = c] \in Request
<1>1. NoEntity \in Entity
  BY DEF NoEntity, Entity, Reading, Stamp
<1>. QED BY <1>1 DEF IdleRequest, Request

RefreshState == [pc : {"none", "sleeping", "draining", "awaiting"},
                 at : 0..SweepLength, rev : Nat, wake : Int]

\* A request is started when no thread is live: it is then the only one.
LEMMA StartResult ==
    ASSUME NEW c \in Channels, \A r \in Requests : ~Live(r),
           StartRequest(c, Spare(NoRequest))
    PROVE  /\ restFuture' \in Requests /\ restFuture' # NoRequest
           /\ req' \in [Requests -> Request]
           /\ req'[restFuture'].pc = "start" /\ req'[restFuture'].channel = c
           /\ req'[restFuture'].answer = NoEntity
           /\ \A q \in Requests : q # restFuture' => req'[q].pc = "unused"
<1> DEFINE r == CHOOSE x \in Requests : x \in Spare(NoRequest)
<1>1. \A x \in Requests : x \in Spare(NoRequest)
  BY ClientAssumption DEF Spare
<1>2. r \in Requests
  BY <1>1, ClientAssumption
<1>3. /\ restFuture' = r
      /\ req' = [q \in Requests |->
                   IF q = r THEN [IdleRequest EXCEPT !.pc = "start", !.channel = c]
                   ELSE IF q \in Spare(NoRequest) THEN IdleRequest ELSE req[q]]
  BY DEF StartRequest
<1> HIDE DEF r
<1>4. /\ req'[r] = [IdleRequest EXCEPT !.pc = "start", !.channel = c]
      /\ \A q \in Requests : q # r => req'[q] = IdleRequest
  BY <1>1, <1>2, <1>3
<1>5. req' \in [Requests -> Request]
  <2>1. \A q \in Requests : req'[q] \in Request
    BY <1>4, IdleTyped
  <2>. QED BY <1>3, <2>1
<1>6. req'[r].pc = "start" /\ req'[r].channel = c /\ req'[r].answer = NoEntity
  BY <1>4 DEF IdleRequest
<1>7. \A q \in Requests : q # r => req'[q].pc = "unused"
  BY <1>4 DEF IdleRequest
<1>. QED BY <1>2, <1>3, <1>5, <1>6, <1>7, ClientAssumption

\* The sweep goes on from place i: it sleeps, or stops at the first place due,
\* with the request it waits for.
Resumed(i, chans, after) ==
    /\ refresh' \in RefreshState /\ refresh'.pc # "none"
    /\ restFuture' \in Requests \union {NoRequest}
    /\ req' \in [Requests -> Request] /\ held' \in Stamp
    /\ \A r \in Requests : Live(r)' => restFuture' = r /\ req'[r].channel \in Channels
    /\ restFuture' # NoRequest => Live(restFuture)' \/ Done(restFuture)'
    /\ \A r \in Requests : req'[r].pc = "reading" => req[r].pc = "reading"
    /\ Fetching' =>
         /\ refresh'.at \in i..SweepLength /\ restFuture' # NoRequest
         /\ Due(SweepAt(refresh'.at), chans, after)
         /\ \A j \in i..SweepLength : Due(SweepAt(j), chans, after) => refresh'.at <= j
         /\ refresh'.rev = rev[SweepAt(refresh'.at)]
         /\ held' = chans[SweepAt(refresh'.at)].lastUpdate
    /\ refresh'.pc = "awaiting" => /\ req'[restFuture'].channel = SweepAt(refresh'.at)
                                   /\ req'[restFuture'].answer = NoEntity

LEMMA ContinueResult ==
    ASSUME ClientTyped, NEW i \in 1..SweepLength + 1,
           NEW chans \in [Channels -> Channel], NEW after \in [Channels -> Int],
           NEW pending \in Requests \union {NoRequest},
           \A r \in Requests : Live(r) => pending = r,
           pending # NoRequest => Live(pending) \/ Done(pending),
           Continue(i, chans, after, pending)
    PROVE  Resumed(i, chans, after)
<1> DEFINE due == {k \in i..SweepLength : Due(SweepAt(k), chans, after)}
           k == CHOOSE x \in due : \A y \in due : x <= y
<1>0. /\ clock \in Nat /\ req \in [Requests -> Request] /\ rev \in [Channels -> Nat]
      /\ \A r \in Requests : Live(r) => req[r].channel \in Channels
      /\ SweepLength \in Nat /\ RefreshEvery \in Nat
  BY SweepTyped, ClientAssumption DEF ClientTyped
<1>1. CASE /\ due = {}
           /\ refresh' = Sleeping(clock + RefreshEvery)
           /\ restFuture' = pending
           /\ req' = [r \in Requests |-> IF r \in Spare(pending) THEN IdleRequest ELSE req[r]]
           /\ held' = NoTime
  <2>1. /\ refresh' \in RefreshState /\ refresh'.pc = "sleeping"
    BY <1>0, <1>1 DEF RefreshState, Sleeping
  <2>2. req' \in [Requests -> Request] /\ held' \in Stamp
    BY <1>0, <1>1, IdleTyped DEF Stamp
  <2>3. ASSUME NEW r \in Requests
        PROVE  \/ req'[r] = req[r]
               \/ req'[r] = IdleRequest /\ r # pending
    BY <1>1 DEF Spare
  <2>4. IdleRequest.pc = "unused"
    BY DEF IdleRequest
  <2>5. pending # NoRequest => req'[pending] = req[pending]
    BY <2>3
  <2>6. \A r \in Requests : Live(r)' => restFuture' = r /\ req'[r].channel \in Channels
    BY <1>0, <1>1, <2>3, <2>4 DEF Live
  <2>7. restFuture' # NoRequest => Live(restFuture)' \/ Done(restFuture)'
    BY <1>1, <2>5 DEF Live, Done
  <2>8. \A r \in Requests : req'[r].pc = "reading" => req[r].pc = "reading"
    BY <2>3, <2>4
  <2>. QED BY <1>1, <2>1, <2>2, <2>6, <2>7, <2>8 DEF Resumed, Fetching
<1>2. CASE due # {}
  <2>1. PICK x \in due : \A y \in due : x <= y
    <3>1. due \subseteq Nat
      BY <1>0
    <3>. QED BY <1>2, <3>1, LeastNatural
  <2>2. k \in due /\ \A y \in due : k <= y
    BY <2>1
  <2>3. k \in i..SweepLength /\ k \in 1..SweepLength /\ SweepAt(k) \in Channels
    BY <1>0, <2>2, SweepTyped
  <2>4. /\ Due(SweepAt(k), chans, after)
        /\ \A j \in i..SweepLength : Due(SweepAt(j), chans, after) => k <= j
    BY <2>2
  <2>5. /\ rev[SweepAt(k)] \in Nat
        /\ chans[SweepAt(k)].lastUpdate \in Stamp
    BY <1>0, <2>3 DEF Channel
  <2>6. CASE /\ MustDrain(pending)
             /\ refresh' = [pc |-> "draining", at |-> k, rev |-> rev[SweepAt(k)], wake |-> 0]
             /\ held' = chans[SweepAt(k)].lastUpdate
             /\ restFuture' = pending
             /\ UNCHANGED req
    <3> HIDE DEF k, due
    <3>1. refresh' \in RefreshState /\ held' \in Stamp
      BY <2>3, <2>5, <2>6 DEF RefreshState
    <3>. QED BY <1>0, <2>3, <2>4, <2>6, <3>1 DEF Resumed, Fetching, MustDrain, Live, Done
  <2>7. CASE /\ ~MustDrain(pending)
             /\ refresh' = [pc |-> "awaiting", at |-> k, rev |-> rev[SweepAt(k)], wake |-> 0]
             /\ held' = chans[SweepAt(k)].lastUpdate
             /\ StartRequest(SweepAt(k), Spare(NoRequest))
    <3> HIDE DEF k, due
    <3>1. refresh' \in RefreshState /\ held' \in Stamp
      BY <2>3, <2>5, <2>7 DEF RefreshState
    <3>2. \A r \in Requests : ~Live(r)
      BY <2>7, ClientAssumption DEF MustDrain
    <3>3. /\ restFuture' \in Requests /\ restFuture' # NoRequest
          /\ req' \in [Requests -> Request]
          /\ req'[restFuture'].pc = "start" /\ req'[restFuture'].channel = SweepAt(k)
          /\ req'[restFuture'].answer = NoEntity
          /\ \A q \in Requests : q # restFuture' => req'[q].pc = "unused"
      BY <2>3, <2>7, <3>2, StartResult
    <3>4. \A r \in Requests : req'[r].pc # "reading"
      BY <3>3
    <3>5. Live(restFuture)'
      BY <3>3 DEF Live
    <3>6. \A r \in Requests : Live(r)' => restFuture' = r /\ req'[r].channel \in Channels
      BY <2>3, <3>3 DEF Live
    <3>. QED BY <2>3, <2>4, <2>7, <3>1, <3>3, <3>4, <3>5, <3>6 DEF Resumed, Fetching
  <2>. QED BY <1>2, <2>6, <2>7 DEF Continue
<1>. QED BY <1>1, <1>2 DEF Continue

\* What a message carries.
LEMMA MessageParts ==
    \A m \in Message :
        /\ m.kind \in {"event", "result", "refused"}
        /\ IsEvent(m) => m.channel \in Channels /\ m.entity \in Entity
        /\ m.kind = "result" => m.states \in [Channels -> Entity]
BY DEF Message, IsEvent, Refused

\* What an entity says.
LEMMA EntityParts ==
    \A e \in Entity :
        /\ e.power \in Reading /\ e.ts \in Stamp /\ e.at \in Nat
        /\ e.ts # NoTime => e.ts = e.at
        /\ e.ts = NoTime => e.power = NoPower
BY ReadingAssumption DEF Entity

\* What Home Assistant reports at time t.
LEMMA ReportTyped ==
    ASSUME NEW t \in Nat
    PROVE  /\ \A p \in Reading : Report(p, t) \in Entity /\ Report(p, t).at = t
           /\ Removal(t) \in Entity /\ Removal(t).at = t
BY DEF Report, Removal, Entity, Reading, Stamp

\* The inbox without its first message.
LEMMA InboxTail ==
    ASSUME inbox \in Seq(Message), inbox # <<>>, inbox' = Tail(inbox)
    PROVE  /\ 1 \in DOMAIN inbox /\ Head(inbox) = inbox[1] /\ Head(inbox) \in Message
           /\ inbox' \in Seq(Message)
           /\ \A k \in DOMAIN inbox' : /\ k \in Nat /\ 1 < k + 1
                                       /\ k + 1 \in DOMAIN inbox
                                       /\ inbox'[k] = inbox[k + 1]
BY HeadTailProperties, LenProperties

\* The inbox with one message more.
LEMMA InboxAppend ==
    ASSUME inbox \in Seq(Message), NEW m \in Message, inbox' = Append(inbox, m)
    PROVE  /\ inbox' \in Seq(Message)
           /\ \A k \in DOMAIN inbox' :
                \/ k \in DOMAIN inbox /\ inbox'[k] = inbox[k]
                \/ k \notin DOMAIN inbox /\ inbox'[k] = m /\ (\A j \in DOMAIN inbox : j < k)
                   /\ k = Len(inbox) + 1
BY AppendProperties, LenProperties

\* The first messages of the inbox.
LEMMA InboxPrefix ==
    ASSUME inbox \in Seq(Message), NEW n \in 0..Len(inbox), inbox' = SubSeq(inbox, 1, n)
    PROVE  /\ inbox' \in Seq(Message)
           /\ inbox = <<>> => inbox' = <<>>
           /\ \A k \in DOMAIN inbox' : k \in DOMAIN inbox /\ inbox'[k] = inbox[k]
<1>1. /\ inbox' \in Seq(Message) /\ Len(inbox') = n
      /\ \A k \in 1..n : inbox'[k] = inbox[k]
  <2>1. n \in Nat /\ Len(inbox) \in Nat /\ n <= Len(inbox)
    OBVIOUS
  <2>. QED BY <2>1, SubSeqProperties
<1>2. DOMAIN inbox' = 1..n /\ DOMAIN inbox = 1..Len(inbox)
  BY <1>1
<1>3. inbox = <<>> => inbox' = <<>>
  BY <1>1, EmptySeq
<1>. QED BY <1>1, <1>2, <1>3

\* A report or an answer leaves a channel typed.
LEMMA UpdateTyped ==
    ASSUME ClientTyped, NEW c \in Channels, NEW e \in Entity
    PROVE  UpdateChannel(c, e) \in Channel
<1>1. /\ ch[c] \in Channel /\ clock \in Int /\ e.power \in Reading /\ e.ts \in Stamp
      /\ StaleAfter[c] \in Nat \union {Unlimited}
  BY EntityParts, ClientAssumption DEF ClientTyped
<1>. QED BY <1>1, UpdateResult DEF UpdateChannel

-----------------------------------------------------------------------------
(* Types.                                                                    *)

\* Home Assistant's steps keep the types.
LEMMA ServerTyped == ASSUME ClientTyped, Server PROVE ClientTyped'
<1>0. inbox \in Seq(Message) /\ ha \in [Channels -> Entity] /\ clock \in Nat
  BY DEF ClientTyped
<1>1. ASSUME NEW c \in Changing, NEW e \in Entity, ServerReport(c, e)
      PROVE  ClientTyped'
  <2>1. c \in Channels
    BY ClientAssumption
  <2>2. Event(c, e) \in Message
    BY <2>1 DEF Event, Message
  <2>3. inbox' \in Seq(Message)
    BY <1>0, <1>1, <2>2, InboxAppend DEF ServerReport
  <2>4. ha' \in [Channels -> Entity]
    BY <1>0, <1>1 DEF ServerReport
  <2>. QED BY <1>1, <2>3, <2>4 DEF ServerReport, ClientTyped, restVars, Live
<1>2. CASE ServerSubscribe
  <2>1. subscribed' \in BOOLEAN
    BY <1>2, Zenon DEF ServerSubscribe
  <2>. QED BY <1>2, <2>1 DEF ServerSubscribe, ClientTyped, restVars, Live
<1>3. CASE ServerReadStates
  BY <1>3 DEF ServerReadStates, ClientTyped, restVars, Live
<1>4. CASE ServerAnswer
  <2>1. PICK m \in {Result(snap), Refused} : inbox' = Append(inbox, m)
    BY <1>4 DEF ServerAnswer
  <2>2. m \in Message
    BY <1>4 DEF ServerAnswer, ClientTyped, Result, Message
  <2>3. inbox' \in Seq(Message)
    BY <1>0, <2>1, <2>2, InboxAppend
  <2>. QED BY <1>4, <2>3 DEF ServerAnswer, ClientTyped, restVars, Live
<1>5. CASE LoseConnection
  <2>1. inbox' \in Seq(Message)
    BY <1>0, <1>5, InboxPrefix DEF LoseConnection
  <2>2. lost' \in BOOLEAN
    BY <1>5, Zenon DEF LoseConnection
  <2>. QED BY <1>5, <2>1, <2>2 DEF LoseConnection, ClientTyped, restVars, Live
<1>. QED BY <1>0, <1>1, <1>2, <1>3, <1>4, <1>5, ReportTyped DEF Server

\* Every way out of a connection keeps the types.
LEMMA OfflineTyped ==
    ASSUME ClientTyped, GoOffline, task' \in {"waiting", "stopped"}
    PROVE  ClientTyped'
<1>1. ch' \in [Channels -> Channel]
  BY InvalidateResult DEF GoOffline, AllWithdrawn, ClientTyped
<1>2. refresh' \in RefreshState
  BY SweepTyped DEF GoOffline, NoRefresh, RefreshState
<1>3. restClosed' \in BOOLEAN /\ session' \in BOOLEAN /\ lost' \in BOOLEAN /\ subscribed' \in BOOLEAN
  BY Zenon DEF GoOffline
<1>4. eventTimes' \in [Channels -> {<<>>} \union {<<t>> : t \in Stamp}]
  BY DEF GoOffline, NoTimes
<1>5. inbox' \in Seq(Message) /\ held' \in Stamp /\ snap' = NoSnapshot
  BY DEF GoOffline, Stamp
<1>. QED BY <1>1, <1>2, <1>3, <1>4, <1>5 DEF GoOffline, ClientTyped, RefreshState, Live

\* The client task's steps keep the types.
LEMMA TaskTyped == ASSUME ClientTyped, Client PROVE ClientTyped'
<1>0. inbox \in Seq(Message) /\ clock \in Nat /\ ch \in [Channels -> Channel]
      /\ seen \in [Channels -> Nat] /\ rev \in [Channels -> Nat]
  BY DEF ClientTyped
<1>1. CASE Connect
  <2>1. restClosed' \in BOOLEAN
    BY <1>1, Zenon DEF Connect
  <2>. QED BY <1>1, <2>1 DEF Connect, ClientTyped, haVars, Live
<1>2. CASE Opened
  BY <1>2 DEF Opened, ClientTyped, haVars, restVars, Live
<1>3. CASE Subscribed
  <2>1. eventTimes' \in [Channels -> {<<>>} \union {<<t>> : t \in Stamp}]
    BY <1>3 DEF Subscribed, NoTimes
  <2>. QED BY <1>3, <2>1 DEF Subscribed, ClientTyped, haVars, restVars, Live
<1>4. CASE HandleEvent
  <2> DEFINE c == Head(inbox).channel
             e == Head(inbox).entity
  <2>1. inbox # <<>> /\ inbox' = Tail(inbox) /\ IsEvent(Head(inbox))
    BY <1>4 DEF HandleEvent, IsEvent
  <2>2. inbox' \in Seq(Message) /\ c \in Channels /\ e \in Entity
    BY <1>0, <2>1, InboxTail, MessageParts
  <2>3. /\ rev' = [rev EXCEPT ![c] = @ + 1]
        /\ ch' = [ch EXCEPT ![c] = UpdateChannel(c, e)]
        /\ seen' = [seen EXCEPT ![c] = Later(@, e.at)]
        /\ eventTimes' = IF task = "snapshot"
                           THEN [eventTimes EXCEPT ![c] = <<e.ts>>] ELSE eventTimes
    BY <1>4 DEF HandleEvent
  <2>4. UNCHANGED <<clock, haVars, lost, task, refresh, restVars, held>>
    BY <1>4 DEF HandleEvent
  <2> HIDE DEF c, e
  <2>5. ch' \in [Channels -> Channel] /\ seen' \in [Channels -> Nat] /\ rev' \in [Channels -> Nat]
    BY <1>0, <2>2, <2>3, UpdateTyped, EntityParts DEF Later
  <2>6. eventTimes' \in [Channels -> {<<>>} \union {<<t>> : t \in Stamp}]
    BY <2>2, <2>3, EntityParts DEF ClientTyped
  <2>. QED BY <2>2, <2>4, <2>5, <2>6 DEF ClientTyped, haVars, restVars, Live
<1>5. CASE StatesAnswered
  <2>1. PICK applied \in SUBSET Channels :
          /\ applied # {} => Head(inbox).kind = "result"
          /\ ch' = [c \in Channels |->
                      IF c \in applied THEN UpdateChannel(c, Head(inbox).states[c]) ELSE ch[c]]
          /\ seen' = [c \in Channels |->
                        IF c \in applied THEN Later(seen[c], Head(inbox).states[c].at)
                                         ELSE seen[c]]
    <3>1. inbox # <<>> /\ Head(inbox).kind # "event" /\ Head(inbox) \in Message
      BY <1>0, <1>5 DEF StatesAnswered
    <3>2. Head(inbox).kind # "refused" => Head(inbox).kind = "result"
      BY <3>1, MessageParts
    <3>. QED BY <1>5, <3>2 DEF StatesAnswered
  <2>2. inbox # <<>> /\ inbox' = Tail(inbox)
    BY <1>5 DEF StatesAnswered
  <2>3. inbox' \in Seq(Message) /\ Head(inbox) \in Message
    BY <1>0, <2>2, InboxTail
  <2>4. \A c \in applied : Head(inbox).states[c] \in Entity
    BY <2>1, <2>3, MessageParts
  <2>5. ch' \in [Channels -> Channel] /\ seen' \in [Channels -> Nat]
    BY <1>0, <2>1, <2>4, UpdateTyped, EntityParts DEF Later
  <2>6. /\ refresh' \in RefreshState /\ task' = "listening"
        /\ eventTimes' \in [Channels -> {<<>>} \union {<<t>> : t \in Stamp}]
    BY <1>0, <1>5, SweepTyped, ClientAssumption
       DEF StatesAnswered, Sleeping, RefreshState, NoTimes
  <2>. QED BY <1>5, <2>3, <2>5, <2>6
           DEF StatesAnswered, ClientTyped, RefreshState, haVars, restVars, Live
<1>6. CASE ConnectionEnds \/ Stop
  BY <1>6, OfflineTyped DEF ConnectionEnds, Stop
<1>. QED BY <1>1, <1>2, <1>3, <1>4, <1>5, <1>6 DEF Client

\* The refresh task's steps keep the types, and go on with the sweep.
LEMMA RefreshSteps ==
    ASSUME ClientTyped, Phases, Handed
    PROVE  /\ RefreshWake => Resumed(1, ch, restAfter)
           /\ Drained /\ restClosed => Resumed(refresh.at + 1, ch, restAfter')
           /\ Fetched => /\ ch' \in [Channels -> Channel]
                         /\ seen' \in [Channels -> Nat]
                         /\ restAfter' \in [Channels -> Int]
                         /\ Resumed(refresh.at + 1, ch', restAfter')
<1>0. /\ ch \in [Channels -> Channel] /\ restAfter \in [Channels -> Int]
      /\ clock \in Nat /\ RestPause \in Nat /\ seen \in [Channels -> Nat]
      /\ restFuture \in Requests \union {NoRequest}
      /\ \A r \in Requests : Live(r) => restFuture = r
      /\ restFuture # NoRequest => Live(restFuture) \/ Done(restFuture)
      /\ SweepLength \in Nat
      /\ req \in [Requests -> Request]
  BY SweepTyped, ClientAssumption DEF ClientTyped, Handed
<1>1. ASSUME RefreshWake
      PROVE  Resumed(1, ch, restAfter)
  <2>1. Continue(1, ch, restAfter, restFuture)
    BY <1>1 DEF RefreshWake
  <2>2. 1 \in 1..SweepLength + 1
    BY <1>0
  <2>. QED BY <1>0, <2>1, <2>2, ContinueResult
<1>2. ASSUME Fetching
      PROVE  /\ refresh.at + 1 \in 1..SweepLength + 1
             /\ SweepAt(refresh.at) \in Channels
             /\ [restAfter EXCEPT ![SweepAt(refresh.at)] = clock + RestPause]
                  \in [Channels -> Int]
             /\ restFuture \in Requests
  BY <1>0, <1>2, SweepTyped DEF Phases, Handed
<1>3. ASSUME Drained, restClosed
      PROVE  Resumed(refresh.at + 1, ch, restAfter')
  <2>1. Fetching
    BY <1>3 DEF Drained, Fetching
  <2>2. restAfter' \in [Channels -> Int] /\ Continue(refresh.at + 1, ch, restAfter', restFuture)
    BY <1>2, <1>3, <2>1 DEF Drained
  <2>. QED BY <1>0, <1>2, <2>1, <2>2, ContinueResult
<1>4. ASSUME Fetched
      PROVE  /\ ch' \in [Channels -> Channel]
             /\ seen' \in [Channels -> Nat]
             /\ restAfter' \in [Channels -> Int]
             /\ Resumed(refresh.at + 1, ch', restAfter')
  <2>1. Fetching /\ Done(restFuture)
    BY <1>4 DEF Fetched, Fetching
  <2>2. req[restFuture].answer \in Entity
    BY <1>0, <1>2, <2>1 DEF Request
  <2>3. restAfter' \in [Channels -> Int] /\ Continue(refresh.at + 1, ch', restAfter', NoRequest)
    BY <1>2, <1>4, <2>1 DEF Fetched
  <2>4. ch' \in [Channels -> Channel] /\ seen' \in [Channels -> Nat]
    BY <1>0, <1>2, <1>4, <2>1, <2>2, UpdateTyped, EntityParts DEF Fetched, Later
  <2>5. \A r \in Requests : ~Live(r)
    BY <1>0, <2>1 DEF Done, Live
  <2>. QED BY <1>2, <2>1, <2>3, <2>4, <2>5, ContinueResult
<1>. QED BY <1>1, <1>3, <1>4

\* Draining ends in a request of its own unless the client was disconnected.
LEMMA DrainedStarts ==
    ASSUME ClientTyped, Phases, Handed, Drained, ~restClosed
    PROVE  /\ refresh' = [refresh EXCEPT !.pc = "awaiting"]
           /\ UNCHANGED <<restAfter, held>>
           /\ restFuture' \in Requests /\ restFuture' # NoRequest
           /\ req' \in [Requests -> Request]
           /\ req'[restFuture'].pc = "start"
           /\ req'[restFuture'].channel = SweepAt(refresh.at)
           /\ SweepAt(refresh.at) \in Channels
           /\ req'[restFuture'].answer = NoEntity
           /\ \A q \in Requests : q # restFuture' => req'[q].pc = "unused"
<1>1. /\ StartRequest(SweepAt(refresh.at), Spare(NoRequest))
      /\ refresh' = [refresh EXCEPT !.pc = "awaiting"]
      /\ UNCHANGED <<restAfter, held>>
  BY DEF Drained
<1>2. Fetching /\ Done(restFuture)
  BY DEF Drained, Fetching
<1>3. \A r \in Requests : ~Live(r)
  BY <1>2 DEF Handed, Live, Done
<1>4. SweepAt(refresh.at) \in Channels
  BY <1>2, SweepTyped DEF Phases
<1>. QED BY <1>1, <1>3, <1>4, StartResult

\* Every step keeps the types.
LEMMA TypedStep == ClientTyped /\ Phases /\ Handed /\ [Next]_vars => ClientTyped'
<1> SUFFICES ASSUME ClientTyped, Phases, Handed, [Next]_vars
             PROVE  ClientTyped'
  OBVIOUS
<1>1. CASE Server
  BY <1>1, ServerTyped
<1>2. CASE Client
  BY <1>2, TaskTyped
<1>3. CASE RefreshWake
  BY <1>3, RefreshSteps DEF RefreshWake, ClientTyped, Resumed, RefreshState, haVars
<1>4. CASE Drained
  <2>1. CASE restClosed
    <3>1. Fetching
      BY <1>4 DEF Drained, Fetching
    <3>2. restAfter' \in [Channels -> Int]
      <4>1. SweepAt(refresh.at) \in Channels /\ clock + RestPause \in Int
        BY <3>1, SweepTyped, ClientAssumption DEF Phases, ClientTyped
      <4>. QED BY <1>4, <2>1, <4>1 DEF Drained, ClientTyped
    <3>. QED BY <1>4, <2>1, <3>2, RefreshSteps
             DEF Drained, ClientTyped, Resumed, RefreshState, haVars
  <2>2. CASE ~restClosed
    <3>1. /\ restFuture' \in Requests
          /\ req' \in [Requests -> Request]
          /\ \A r \in Requests : Live(r)' => req'[r].channel \in Channels
      BY <1>4, <2>2, DrainedStarts DEF Live
    <3>2. refresh' \in RefreshState /\ UNCHANGED <<restAfter, held>>
      BY <1>4, <2>2, DrainedStarts DEF ClientTyped, RefreshState
    <3>. QED BY <1>4, <3>1, <3>2 DEF Drained, ClientTyped, RefreshState, haVars
  <2>. QED BY <2>1, <2>2
<1>5. CASE Fetched
  BY <1>5, RefreshSteps DEF Fetched, ClientTyped, Resumed, RefreshState, haVars
<1>6. ASSUME NEW r \in Requests, Thread(r)
      PROVE  ClientTyped'
  <2>0. req \in [Requests -> Request] /\ req[r] \in Request /\ UNCHANGED threadUnchanged
    BY <1>6 DEF ClientTyped, Thread, ThreadStart, ThreadRead, ThreadFinish
  <2>1. session' \in BOOLEAN
    BY <1>6, Zenon DEF Thread, ThreadStart, ThreadRead, ThreadFinish, ClientTyped
  <2>2. req' \in [Requests -> Request]
    <3>1. CASE ThreadStart(r) \/ ThreadFinish(r)
      BY <2>0, <3>1 DEF ThreadStart, ThreadFinish, Request
    <3>2. CASE ThreadRead(r)
      <4>1. PICK e \in {NoEntity, ha[req[r].channel]} :
                req' = [req EXCEPT ![r].pc = "finish", ![r].answer = e]
        BY <3>2 DEF ThreadRead
      <4>2. e \in Entity
        <5>1. Live(r)
          BY <3>2 DEF ThreadRead, Live
        <5>2. ha[req[r].channel] \in Entity
          BY <5>1 DEF ClientTyped
        <5>. QED BY <4>1, <5>2, IdleTyped
      <4>. QED BY <2>0, <4>1, <4>2 DEF Request
    <3>. QED BY <1>6, <3>1, <3>2 DEF Thread
  <2>3. \A q \in Requests : Live(q)' => req'[q].channel \in Channels
    <3>1. \A q \in Requests : req'[q].channel = req[q].channel /\ (Live(q)' => Live(q))
      BY <1>6, <2>0 DEF Thread, ThreadStart, ThreadRead, ThreadFinish, Live, Request
    <3>. QED BY <3>1 DEF ClientTyped
  <2>. QED BY <2>0, <2>1, <2>2, <2>3 DEF ClientTyped, threadUnchanged, haVars
<1>7. CASE ExpirePass
  <2>1. ch' \in [Channels -> Channel]
    BY <1>7, ExpireResult DEF ExpirePass, ClientTyped
  <2>. QED BY <1>7, <2>1 DEF ExpirePass, ClientTyped, haVars, restVars, Live
<1>8. CASE Tick
  BY <1>8 DEF Tick, ClientTyped, haVars, restVars, Live
<1>9. CASE UNCHANGED vars
  BY <1>9 DEF vars, ClientTyped, haVars, restVars, Live
<1>. QED BY <1>1, <1>2, <1>3, <1>4, <1>5, <1>6, <1>7, <1>8, <1>9 DEF Next, RefreshTask

-----------------------------------------------------------------------------
(* Who is alive, which request is whose, and who has the session.            *)

HandInv == Phases /\ Handed /\ SessionHandedOver

\* A step that leaves the tasks, the requests and the session alone.
LEMMA HandFrame ==
    ASSUME HandInv,
           UNCHANGED <<task, refresh, restFuture, restClosed, session, req>>,
           (inbox' # <<>> \/ subscribed') => task \in {"subscribing", "snapshot", "listening"}
    PROVE  HandInv'
BY DEF HandInv, Phases, Handed, SessionHandedOver, Fetching, Live, Done

\* A way out of a connection leaves the session to a thread or closes it.
LEMMA OfflineHands ==
    ASSUME ClientTyped, HandInv, GoOffline, task' \in {"waiting", "stopped"}
    PROVE  HandInv'
<1>1. /\ refresh'.pc = "none" /\ restClosed' /\ inbox' = <<>> /\ ~subscribed'
      /\ UNCHANGED <<restFuture, req>>
      /\ session' => session /\ ~SessionIdle
  BY DEF GoOffline, NoRefresh
<1>2. Phases'
  BY <1>1 DEF Phases, Fetching
<1>3. Handed'
  BY <1>1 DEF HandInv, Handed, Fetching, Live, Done
<1>4. ASSUME NEW r \in Requests, req'[r].pc = "reading"
      PROVE  session'
  <2>1. req[r].pc = "reading" /\ Live(r)
    BY <1>1, <1>4 DEF Live
  <2>2. restFuture = r /\ session
    BY <2>1 DEF HandInv, Handed, SessionHandedOver
  <2>3. ~SessionIdle
    BY <2>1, <2>2, ClientAssumption DEF SessionIdle, Done
  <2>. QED BY <2>2, <2>3 DEF GoOffline
<1>5. ASSUME session'
      PROVE  \E r \in Requests : Live(r)'
  <2>1. restFuture # NoRequest /\ ~Done(restFuture)
    BY <1>1, <1>5 DEF SessionIdle
  <2>2. Live(restFuture) /\ restFuture \in Requests
    BY <2>1 DEF HandInv, Handed, ClientTyped
  <2>. QED BY <1>1, <2>2 DEF Live
<1>. QED BY <1>2, <1>3, <1>4, <1>5 DEF HandInv, SessionHandedOver

\* Going on with the sweep keeps the only live thread the one in hand.
LEMMA ResumedHands ==
    ASSUME ClientTyped, HandInv, task = "listening", NEW i \in 1..SweepLength + 1,
           NEW chans, NEW after, Resumed(i, chans, after),
           UNCHANGED <<task, restClosed, session, inbox, subscribed>>
    PROVE  HandInv'
<1>1. i \in Nat /\ i >= 1 /\ SweepLength \in Nat
  BY SweepTyped
<1>2. Phases'
  <2>1. Fetching' => refresh'.at \in 1..SweepLength
    BY <1>1 DEF Resumed
  <2>. QED BY <2>1 DEF HandInv, Phases
<1>3. Handed'
  BY DEF Resumed, Handed
<1>4. SessionHandedOver'
  BY DEF HandInv, SessionHandedOver, Resumed
<1>. QED BY <1>2, <1>3, <1>4 DEF HandInv

\* Every step keeps the hand-over of requests and session.
LEMMA HandStep == ClientTyped /\ HandInv /\ OneSnapshot /\ [Next]_vars => HandInv'
<1> SUFFICES ASSUME ClientTyped, HandInv, OneSnapshot, [Next]_vars
             PROVE  HandInv'
  OBVIOUS
<1>0. Phases /\ Handed /\ SessionHandedOver /\ inbox \in Seq(Message)
  BY DEF HandInv, ClientTyped
<1>1. CASE Server
  <2>1. ASSUME NEW c, NEW e, ServerReport(c, e)
        PROVE  (inbox' # <<>> \/ subscribed') => task \in {"subscribing", "snapshot", "listening"}
    BY <1>0, <2>1 DEF ServerReport, Phases
  <2>2. ASSUME ServerSubscribe \/ ServerReadStates \/ ServerAnswer \/ LoseConnection
        PROVE  (inbox' # <<>> \/ subscribed') => task \in {"subscribing", "snapshot", "listening"}
    <3>1. CASE ServerSubscribe \/ ServerReadStates \/ LoseConnection
      BY <3>1 DEF ServerSubscribe, ServerReadStates, LoseConnection, Connected
    <3>2. CASE ServerAnswer
      BY <1>0, <3>2 DEF ServerAnswer, OneSnapshot
    <3>. QED BY <2>2, <3>1, <3>2
  <2>3. /\ (inbox' # <<>> \/ subscribed') => task \in {"subscribing", "snapshot", "listening"}
        /\ UNCHANGED <<task, refresh, restVars>>
    BY <1>1, <2>1, <2>2 DEF Server, ServerReport, ServerSubscribe, ServerReadStates,
                            ServerAnswer, LoseConnection
  <2>. QED BY <2>3, HandFrame DEF restVars
<1>2. CASE Connect
  BY <1>2, <1>0 DEF Connect, haVars, HandInv, Phases, Handed, SessionHandedOver, Fetching, Live, Done
<1>3. CASE Opened \/ Subscribed
  BY <1>3, <1>0 DEF Opened, Subscribed, haVars, restVars, HandInv, Phases, Handed,
                    SessionHandedOver, Fetching, Live, Done
<1>4. CASE HandleEvent
  BY <1>4, HandFrame DEF HandleEvent, restVars
<1>5. CASE StatesAnswered
  <2>1. /\ UNCHANGED <<restFuture, restClosed, session, req>>
        /\ task' = "listening" /\ refresh'.pc = "sleeping"
    BY <1>5 DEF StatesAnswered, restVars, Sleeping
  <2>. QED BY <1>0, <2>1 DEF HandInv, Phases, Handed, SessionHandedOver, Fetching, Live, Done
<1>6. CASE ConnectionEnds \/ Stop
  BY <1>6, OfflineHands DEF ConnectionEnds, Stop
<1>7. CASE RefreshWake
  <2>1. 1 \in 1..SweepLength + 1 /\ task = "listening"
    BY <1>0, <1>7, SweepTyped DEF RefreshWake, Phases
  <2>. QED BY <1>0, <1>7, <2>1, RefreshSteps, ResumedHands DEF RefreshWake, haVars
<1>8. CASE Drained
  <2>1. Fetching /\ task = "listening"
    BY <1>0, <1>8 DEF Drained, Fetching, Phases
  <2>2. refresh.at + 1 \in 1..SweepLength + 1
    BY <1>0, <2>1, SweepTyped DEF Phases
  <2>3. UNCHANGED <<task, restClosed, session, inbox, subscribed>>
    BY <1>8 DEF Drained, haVars
  <2>4. CASE restClosed
    BY <1>0, <1>8, <2>1, <2>2, <2>3, <2>4, RefreshSteps, ResumedHands
  <2>5. CASE ~restClosed
    <3>1. /\ refresh' = [refresh EXCEPT !.pc = "awaiting"]
          /\ restFuture' \in Requests /\ restFuture' # NoRequest
          /\ req'[restFuture'].pc = "start"
          /\ \A q \in Requests : q # restFuture' => req'[q].pc = "unused"
      BY <1>0, <1>8, <2>5, DrainedStarts
    <3>2. refresh'.at = refresh.at
      BY <3>1 DEF ClientTyped
    <3>3. Phases'
      BY <1>0, <2>1, <2>3, <3>2 DEF Phases
    <3>4. Handed'
      BY <3>1 DEF Handed, Live
    <3>5. SessionHandedOver'
      BY <2>1, <2>3, <3>1 DEF SessionHandedOver
    <3>. QED BY <3>3, <3>4, <3>5 DEF HandInv
  <2>. QED BY <2>4, <2>5
<1>9. CASE Fetched
  <2>1. Fetching /\ task = "listening"
    BY <1>0, <1>9 DEF Fetched, Fetching, Phases
  <2>2. refresh.at + 1 \in 1..SweepLength + 1
    BY <1>0, <2>1, SweepTyped DEF Phases
  <2>3. UNCHANGED <<task, restClosed, session, inbox, subscribed>>
    BY <1>9 DEF Fetched, haVars
  <2>. QED BY <1>0, <1>9, <2>1, <2>2, <2>3, RefreshSteps, ResumedHands
<1>10. ASSUME NEW r \in Requests, Thread(r)
       PROVE  HandInv'
  <2>0. /\ UNCHANGED <<task, refresh, restFuture, restClosed, inbox, subscribed>>
        /\ req \in [Requests -> Request] /\ req[r] \in Request
    BY <1>10 DEF Thread, ThreadStart, ThreadRead, ThreadFinish, threadUnchanged, haVars,
                 ClientTyped
  <2>1. /\ \A q \in Requests : q # r => req'[q] = req[q]
        /\ Live(r) /\ restFuture = r
    BY <1>0, <1>10, <2>0 DEF Thread, ThreadStart, ThreadRead, ThreadFinish, Live, Handed
  <2>2. \A q \in Requests : q # r => ~Live(q)
    BY <1>0, <2>1 DEF Handed
  <2>3. Phases'
    BY <1>0, <2>0 DEF Phases, Fetching
  <2>4. req'[r].pc \in {"reading", "finish", "done"}
    BY <1>10, <2>0 DEF Thread, ThreadStart, ThreadRead, ThreadFinish, Request
  <2>5. Handed'
    BY <1>0, <2>0, <2>1, <2>2, <2>4 DEF Handed, Live, Done, Fetching
  <2>6. \A q \in Requests : req'[q].pc = "reading" => q = r
    BY <2>1, <2>2 DEF Live
  <2>7. CASE ThreadStart(r)
    <3>1. req'[r].pc = (IF restClosed THEN "finish" ELSE "reading")
      BY <2>0, <2>7 DEF ThreadStart, Request
    <3>2. session' = (session \/ ~restClosed)
      BY <2>7 DEF ThreadStart
    <3>3. Live(r)'
      BY <3>1 DEF Live
    <3>4. req'[r].pc = "reading" => session'
      BY <3>1, <3>2
    <3>. QED BY <2>3, <2>5, <2>6, <3>3, <3>4 DEF HandInv, SessionHandedOver
  <2>8. CASE ThreadRead(r)
    <3>1. req'[r].pc = "finish"
      BY <2>0, <2>8 DEF ThreadRead, Request
    <3>. QED BY <2>3, <2>5, <2>6, <3>1 DEF HandInv, SessionHandedOver, Live
  <2>9. CASE ThreadFinish(r)
    <3>1. req'[r].pc = "done"
      BY <2>0, <2>9 DEF ThreadFinish, Request
    <3>2. session' = (session /\ ~restClosed)
      BY <2>9 DEF ThreadFinish
    <3>3. task = "stopped" => ~session'
      BY <1>0, <3>2 DEF Phases
    <3>. QED BY <2>0, <2>3, <2>5, <2>6, <3>1, <3>3 DEF HandInv, SessionHandedOver
  <2>. QED BY <1>10, <2>7, <2>8, <2>9 DEF Thread
<1>11. CASE ExpirePass \/ Tick \/ UNCHANGED vars
  BY <1>0, <1>11, HandFrame DEF ExpirePass, Tick, vars, haVars, restVars, Phases
<1>. QED BY <1>1, <1>2, <1>3, <1>4, <1>5, <1>6, <1>7, <1>8, <1>9, <1>10, <1>11
         DEF Next, Client, RefreshTask

-----------------------------------------------------------------------------
(* Messages under way.                                                       *)

\* Every step keeps one snapshot at most under way, while it is waited for.
LEMMA SnapStep == ClientTyped /\ Phases /\ OneSnapshot /\ [Next]_vars => OneSnapshot'
<1> SUFFICES ASSUME ClientTyped, Phases, OneSnapshot, [Next]_vars
             PROVE  OneSnapshot'
  OBVIOUS
<1>0. inbox \in Seq(Message)
  BY DEF ClientTyped
<1>1. ASSUME UNCHANGED <<task, snap, inbox>>
      PROVE  OneSnapshot'
  BY <1>1 DEF OneSnapshot
<1>2. ASSUME task # "snapshot", UNCHANGED <<snap, inbox>>
      PROVE  OneSnapshot'
  BY <1>2 DEF OneSnapshot
<1>3. ASSUME snap' = NoSnapshot, inbox' = <<>>
      PROVE  OneSnapshot'
  BY <1>3 DEF OneSnapshot
<1>4. ASSUME NEW c \in Changing, NEW e, ServerReport(c, e), inbox' = Append(inbox, Event(c, e)),
             e \in Entity
      PROVE  OneSnapshot'
  <2>1. Event(c, e) \in Message /\ IsEvent(Event(c, e))
    BY <1>4, ClientAssumption DEF Event, Message, IsEvent
  <2>2. UNCHANGED <<task, snap>>
    BY <1>4 DEF ServerReport
  <2>3. \A k \in DOMAIN inbox' : (k \in DOMAIN inbox /\ inbox'[k] = inbox[k]) \/ IsEvent(inbox'[k])
    BY <1>0, <1>4, <2>1, InboxAppend
  <2>. QED BY <2>2, <2>3 DEF OneSnapshot
<1>5. CASE Server
  <2>1. CASE ServerSubscribe
    BY <1>1, <2>1 DEF ServerSubscribe
  <2>2. CASE ServerReadStates
    BY <2>2 DEF ServerReadStates, OneSnapshot, IsEvent
  <2>3. CASE ServerAnswer
    <3>1. PICK m \in {Result(snap), Refused} : inbox' = Append(inbox, m)
      BY <2>3 DEF ServerAnswer
    <3>2. m \in Message
      BY <2>3 DEF ServerAnswer, ClientTyped, Result, Message
    <3>3. /\ task' = "snapshot" /\ snap' = NoSnapshot
          /\ \A k \in DOMAIN inbox : IsEvent(inbox[k])
      BY <2>3 DEF ServerAnswer, OneSnapshot
    <3>4. \A k \in DOMAIN inbox' : \/ k \in DOMAIN inbox /\ inbox'[k] = inbox[k]
                                 \/ k = Len(inbox) + 1
      BY <1>0, <3>1, <3>2, InboxAppend
    <3>. QED BY <3>3, <3>4 DEF OneSnapshot
  <2>4. CASE LoseConnection
    <3>1. snap' = NoSnapshot /\ task' = task
      BY <2>4 DEF LoseConnection
    <3>2. \A k \in DOMAIN inbox' : k \in DOMAIN inbox /\ inbox'[k] = inbox[k]
      BY <1>0, <2>4, InboxPrefix DEF LoseConnection
    <3>. QED BY <3>1, <3>2 DEF OneSnapshot
  <2>5. ASSUME NEW c \in Changing, NEW e \in Entity, ServerReport(c, e)
        PROVE  OneSnapshot'
    BY <1>1, <1>4, <2>5 DEF ServerReport
  <2>6. clock \in Nat
    BY DEF ClientTyped
  <2>. QED BY <1>5, <2>1, <2>2, <2>3, <2>4, <2>5, <2>6, ReportTyped DEF Server
<1>6. CASE Connect \/ Opened \/ Subscribed
  BY <1>2, <1>6 DEF Connect, Opened, Subscribed, haVars
<1>7. CASE HandleEvent
  <2>1. UNCHANGED <<task, snap>> /\ inbox # <<>> /\ inbox' = Tail(inbox)
    BY <1>7 DEF HandleEvent, haVars
  <2>2. \A k \in DOMAIN inbox' : /\ k \in Nat /\ k + 1 \in DOMAIN inbox
                                 /\ inbox'[k] = inbox[k + 1]
    BY <1>0, <2>1, InboxTail
  <2>3. \A j, k \in DOMAIN inbox' : j # k => j + 1 # k + 1
    BY <2>2
  <2>. QED BY <2>1, <2>2, <2>3 DEF OneSnapshot
<1>8. CASE StatesAnswered
  <2>1. /\ inbox # <<>> /\ inbox' = Tail(inbox) /\ ~IsEvent(Head(inbox))
        /\ snap' = snap
    BY <1>8 DEF StatesAnswered, IsEvent, haVars
  <2>2. /\ 1 \in DOMAIN inbox /\ ~IsEvent(inbox[1])
        /\ \A k \in DOMAIN inbox' : /\ k \in Nat /\ 1 < k + 1 /\ k + 1 \in DOMAIN inbox
                                    /\ inbox'[k] = inbox[k + 1]
    BY <1>0, <2>1, InboxTail
  <2>3. snap = NoSnapshot /\ \A k \in DOMAIN inbox : k # 1 => IsEvent(inbox[k])
    BY <2>2 DEF OneSnapshot
  <2>4. \A k \in DOMAIN inbox' : IsEvent(inbox'[k])
    <3>1. \A k \in DOMAIN inbox' : k + 1 # 1
      BY <2>2
    <3>. QED BY <2>2, <2>3, <3>1
  <2>. QED BY <2>1, <2>3, <2>4 DEF OneSnapshot
<1>9. CASE ConnectionEnds \/ Stop
  BY <1>3, <1>9 DEF ConnectionEnds, Stop, GoOffline
<1>10. CASE RefreshTask
  BY <1>1, <1>10 DEF RefreshTask, RefreshWake, Drained, Fetched, haVars
<1>11. ASSUME NEW r \in Requests, Thread(r)
       PROVE  OneSnapshot'
  BY <1>1, <1>11 DEF Thread, ThreadStart, ThreadRead, ThreadFinish, threadUnchanged, haVars
<1>12. CASE ExpirePass \/ Tick \/ UNCHANGED vars
  BY <1>1, <1>12 DEF ExpirePass, Tick, vars, haVars
<1>. QED BY <1>5, <1>6, <1>7, <1>8, <1>9, <1>10, <1>11, <1>12 DEF Next, Client

-----------------------------------------------------------------------------
(* What a step does to a channel and to what has been processed for it.      *)

\* Home Assistant's reports and the clock only go forward.
LEMMA TimePasses ==
    ASSUME ClientTyped, Known, [Next]_vars
    PROVE  /\ clock <= clock'
           /\ \A c \in Channels : ha[c].at <= ha'[c].at /\ ha'[c].at <= clock'
<1>0. clock \in Nat /\ \A c \in Channels : ha[c] \in Entity /\ ha[c].at \in Nat
  BY EntityParts DEF ClientTyped
<1>1. CASE UNCHANGED <<clock, ha>>
  BY <1>0, <1>1 DEF Known
<1>2. ASSUME NEW c \in Changing, NEW e \in Entity, e.at = clock, ServerReport(c, e)
      PROVE  /\ clock <= clock'
             /\ \A d \in Channels : ha[d].at <= ha'[d].at /\ ha'[d].at <= clock'
  <2>1. /\ ha' = [ha EXCEPT ![c] = e] /\ clock' = clock /\ ha[c].at < clock
        /\ c \in Channels /\ ha \in [Channels -> Entity]
    BY <1>2, ClientAssumption DEF ServerReport, ClientTyped
  <2>. QED BY <1>0, <1>2, <2>1 DEF Known
<1>3. CASE Tick
  BY <1>0, <1>3 DEF Tick, haVars, Known
<1>4. CASE ServerSubscribe \/ ServerReadStates \/ ServerAnswer \/ LoseConnection
  BY <1>1, <1>4 DEF ServerSubscribe, ServerReadStates, ServerAnswer, LoseConnection
<1>5. CASE Client
  BY <1>1, <1>5 DEF Client, Connect, Opened, Subscribed, HandleEvent, StatesAnswered,
                    ConnectionEnds, Stop, GoOffline, haVars
<1>6. CASE RefreshTask
  BY <1>1, <1>6 DEF RefreshTask, RefreshWake, Drained, Fetched, haVars
<1>7. ASSUME NEW r \in Requests, Thread(r)
      PROVE  UNCHANGED <<clock, ha>>
  BY <1>7 DEF Thread, ThreadStart, ThreadRead, ThreadFinish, threadUnchanged, haVars
<1>8. CASE ExpirePass \/ UNCHANGED vars
  BY <1>1, <1>8 DEF ExpirePass, vars, haVars
<1>9. CASE Server
  BY <1>0, <1>2, <1>4, <1>9, ReportTyped DEF Server
<1>. QED BY <1>1, <1>3, <1>5, <1>6, <1>7, <1>8, <1>9 DEF Next

\* A report the client may take for a channel: Home Assistant made it, and if
\* a newer one has been processed the channel will not publish it.
Takeable(c, e) ==
    /\ e.at <= ha[c].at
    /\ e.ts # NoTime /\ e.ts < seen[c] => Behind(c, e.ts)

Takes(c, e) ==
    /\ Takeable(c, e)
    /\ ch'[c] = UpdateChannel(c, e)
    /\ seen'[c] = Later(seen[c], e.at)

Withdrawn(c) ==
    /\ ch'[c] \in Channel /\ ~IsShown(ch'[c])
    /\ ch'[c].sourceTime = ch[c].sourceTime
    /\ seen'[c] = seen[c]

\* Taking a report never shows less than has been processed, never moves the
\* watermark back, and passes every report the channel would still publish.
LEMMA TakesResult ==
    ASSUME ClientTyped, Known, Dated, NothingOlderThanSeen,
           NEW c \in Channels, NEW e \in Entity, Takes(c, e)
    PROVE  /\ IsShown(ch'[c]) =>
                /\ ch'[c].lastUpdate # NoTime
                /\ ch'[c].sourceTime # NoTime => ch'[c].sourceTime <= ch'[c].lastUpdate
                /\ ch'[c].lastUpdate >= seen'[c]
           /\ ch[c].sourceTime # NoTime => /\ ch'[c].sourceTime # NoTime
                                           /\ ch[c].sourceTime <= ch'[c].sourceTime
           /\ e.ts # NoTime =>
                \/ ch'[c].sourceTime # NoTime /\ e.ts <= ch'[c].sourceTime
                \/ StaleAfter[c] # Unlimited /\ clock - e.ts > StaleAfter[c]
           /\ ch'[c] \in Channel
           /\ seen'[c] \in Nat /\ seen'[c] <= ha[c].at
           /\ seen'[c] = seen[c] \/ (seen'[c] = e.at /\ seen[c] < e.at)
<1> DEFINE n == UpdateEntity(ch[c], e.power, e.ts, StaleAfter[c], clock, clock)
<1>0. /\ ch[c] \in Channel /\ clock \in Nat /\ clock \in Int /\ seen[c] \in Nat
      /\ e.power \in Reading /\ e.ts \in Stamp /\ e.at \in Nat
      /\ StaleAfter[c] \in Nat \union {Unlimited}
      /\ e.ts # NoTime => e.ts = e.at /\ e.ts \in Int
      /\ e.ts = NoTime => e.power = NoPower
      /\ ha[c].at \in Nat /\ seen[c] <= ha[c].at /\ ha[c].at <= clock
      /\ e.at <= ha[c].at
  BY EntityParts, ClientAssumption DEF ClientTyped, Takes, Takeable, Known
<1>1. /\ n \in Channel
      /\ IsShown(n) => \/ n = ch[c] /\ IsOlder(ch[c], e.ts)
                       \/ /\ ~IsOlder(ch[c], e.ts) /\ e.power # NoPower
                          /\ n.lastUpdate = e.ts
                          /\ IsFresh(e.ts, StaleAfter[c], clock)
                          /\ n.sourceTime = e.ts \/ n.sourceTime = ch[c].sourceTime
      /\ ch[c].sourceTime # NoTime => /\ n.sourceTime # NoTime
                                      /\ ch[c].sourceTime <= n.sourceTime
      /\ InWindow(e.ts, StaleAfter[c], clock) => n.sourceTime # NoTime /\ e.ts <= n.sourceTime
  BY <1>0, UpdateResult
<1>2. ch'[c] = n
  BY DEF Takes, UpdateChannel
<1> HIDE DEF n
<1>3. /\ seen'[c] \in Nat /\ seen'[c] <= ha[c].at
      /\ seen'[c] = seen[c] \/ (seen'[c] = e.at /\ seen[c] < e.at)
      /\ seen[c] <= seen'[c]
  BY <1>0 DEF Takes, Later
<1>4. e.ts # NoTime => \/ InWindow(e.ts, StaleAfter[c], clock)
                       \/ StaleAfter[c] # Unlimited /\ clock - e.ts > StaleAfter[c]
  BY <1>0, ReadingAssumption DEF InWindow
<1>5. ASSUME IsShown(n)
      PROVE  /\ n.lastUpdate # NoTime
             /\ n.sourceTime # NoTime => n.sourceTime <= n.lastUpdate
             /\ n.lastUpdate >= seen'[c]
  <2>1. ch[c].sourceTime \in Stamp /\ ch[c].lastUpdate \in Stamp
    BY <1>0 DEF Channel
  <2>2. CASE n = ch[c] /\ IsOlder(ch[c], e.ts)
    <3>1. /\ ch[c].lastUpdate # NoTime
          /\ ch[c].sourceTime # NoTime => ch[c].sourceTime <= ch[c].lastUpdate
          /\ ch[c].lastUpdate >= seen[c]
      BY <1>5, <2>2 DEF Dated, NothingOlderThanSeen
    <3>2. ch[c].sourceTime \in Int /\ ch[c].lastUpdate \in Int /\ e.ts < ch[c].sourceTime /\ e.ts = e.at
      BY <1>0, <2>1, <2>2, <3>1 DEF IsOlder, Stamp
    <3>3. e.at <= ch[c].lastUpdate
      BY <1>0, <3>1, <3>2, ReadingAssumption
    <3>4. ch[c].lastUpdate >= seen'[c]
      BY <1>0, <1>3, <3>1, <3>2, <3>3
    <3>. QED BY <2>2, <3>1, <3>4
  <2>3. CASE /\ ~IsOlder(ch[c], e.ts) /\ e.power # NoPower
             /\ n.lastUpdate = e.ts
             /\ IsFresh(e.ts, StaleAfter[c], clock)
             /\ n.sourceTime = e.ts \/ n.sourceTime = ch[c].sourceTime
    <3>1. e.ts # NoTime /\ e.ts = e.at /\ e.ts \in Int
      BY <1>0, <2>3
    <3>2. e.ts >= seen[c]
      <4>1. CASE e.ts < seen[c]
        <5>1. Behind(c, e.ts)
          BY <3>1, <4>1 DEF Takes, Takeable
        <5>2. ~(ch[c].sourceTime # NoTime /\ e.ts < ch[c].sourceTime)
          BY <2>3, <3>1 DEF IsOlder
        <5>3. ~(StaleAfter[c] # Unlimited /\ clock - e.ts > StaleAfter[c])
          BY <1>0, <2>3, <3>1 DEF IsFresh, InWindow
        <5>. QED BY <5>1, <5>2, <5>3 DEF Behind
      <4>. QED BY <1>0, <3>1, <4>1
    <3>3. n.sourceTime # NoTime => n.sourceTime <= e.ts
      BY <2>1, <2>3, <3>1 DEF IsOlder, Stamp
    <3>4. e.ts >= seen'[c]
      BY <1>0, <1>3, <3>1, <3>2
    <3>. QED BY <2>3, <3>1, <3>3, <3>4
  <2>. QED BY <1>1, <1>5, <2>2, <2>3
<1>. QED BY <1>1, <1>2, <1>3, <1>4, <1>5

\* What a channel is after a step: as it was, withdrawn, or given a report it
\* may take.
Effect(c) ==
    \/ UNCHANGED <<ch[c], seen[c]>>
    \/ Withdrawn(c)
    \/ \E e \in Entity : Takes(c, e)

\* The event at the head of the inbox may be taken.
LEMMA EventTaken ==
    ASSUME ClientTyped, Ordered, HandleEvent
    PROVE  LET c == Head(inbox).channel
               e == Head(inbox).entity
           IN  /\ c \in Channels /\ e \in Entity /\ Takes(c, e)
               /\ \A d \in Channels : d # c => UNCHANGED <<ch[d], seen[d], rev[d]>>
               /\ rev'[c] = rev[c] + 1
               /\ task # "listening" => seen[c] <= e.at
               /\ eventTimes' = IF task = "snapshot"
                                  THEN [eventTimes EXCEPT ![c] = <<e.ts>>] ELSE eventTimes
<1> DEFINE c == Head(inbox).channel
           e == Head(inbox).entity
<1>1. inbox \in Seq(Message) /\ inbox # <<>> /\ inbox' = Tail(inbox) /\ IsEvent(Head(inbox))
  BY DEF ClientTyped, HandleEvent, IsEvent
<1>2. /\ 1 \in DOMAIN inbox /\ Head(inbox) = inbox[1]
      /\ c \in Channels /\ e \in Entity
  BY <1>1, InboxTail, MessageParts
<1>3. Takeable(c, e) /\ (task # "listening" => seen[c] <= e.at)
  BY <1>1, <1>2 DEF Ordered, Unpassed, Takeable
<1>4. /\ rev' = [rev EXCEPT ![c] = @ + 1]
      /\ ch' = [ch EXCEPT ![c] = UpdateChannel(c, e)]
      /\ seen' = [seen EXCEPT ![c] = Later(@, e.at)]
      /\ eventTimes' = IF task = "snapshot"
                         THEN [eventTimes EXCEPT ![c] = <<e.ts>>] ELSE eventTimes
  BY DEF HandleEvent
<1>5. /\ ch \in [Channels -> Channel] /\ seen \in [Channels -> Nat] /\ rev \in [Channels -> Nat]
  BY DEF ClientTyped
<1> HIDE DEF c, e
<1>6. Takes(c, e)
  BY <1>2, <1>3, <1>4, <1>5 DEF Takes
<1>7. rev'[c] = rev[c] + 1 /\ \A d \in Channels : d # c => UNCHANGED <<ch[d], seen[d], rev[d]>>
  BY <1>2, <1>4, <1>5
<1>8. QED BY <1>2, <1>3, <1>4, <1>6, <1>7 DEF c, e

\* So may each state of a snapshot that is applied.
LEMMA StatesTaken ==
    ASSUME ClientTyped, Snapshots, StatesAnswered, NEW c \in Channels
    PROVE  \/ UNCHANGED <<ch[c], seen[c]>>
           \/ \E e \in Entity : Takes(c, e) /\ e.ts # NoTime
<1> DEFINE applied ==
             IF Head(inbox).kind = "refused" THEN {}
             ELSE {d \in Channels : /\ Head(inbox).states[d].ts # NoTime
                                    /\ Supersedes(d, Head(inbox).states[d])}
           e == Head(inbox).states[c]
<1>1. /\ inbox \in Seq(Message) /\ inbox # <<>> /\ inbox' = Tail(inbox)
      /\ ~IsEvent(Head(inbox)) /\ task = "snapshot"
      /\ ch' = [d \in Channels |->
                  IF d \in applied THEN UpdateChannel(d, Head(inbox).states[d]) ELSE ch[d]]
      /\ seen' = [d \in Channels |->
                    IF d \in applied THEN Later(seen[d], Head(inbox).states[d].at) ELSE seen[d]]
  BY DEF ClientTyped, StatesAnswered, IsEvent
<1>2. 1 \in DOMAIN inbox /\ Head(inbox) = inbox[1] /\ Head(inbox) \in Message
  BY <1>1, InboxTail
<1>3. CASE c \notin applied
  <2> HIDE DEF applied
  <2>. QED BY <1>1, <1>3
<1>4. CASE c \in applied
  <2>1. Head(inbox).kind = "result" /\ e.ts # NoTime /\ Supersedes(c, e)
    BY <1>1, <1>2, <1>4, MessageParts DEF IsEvent
  <2>2. e \in Entity /\ SnapshotOf(Head(inbox).states)
    BY <1>2, <2>1, MessageParts DEF Snapshots
  <2>3. ch'[c] = UpdateChannel(c, e) /\ seen'[c] = Later(seen[c], e.at)
    <3> HIDE DEF applied
    <3>. QED BY <1>1, <1>4
  <2>4. e.at <= ha[c].at /\ (eventTimes[c] = <<>> => seen[c] <= e.at)
    BY <2>2 DEF SnapshotOf
  <2>5. e.ts = e.at /\ e.at \in Nat /\ seen[c] \in Nat
    BY <2>1, <2>2, EntityParts DEF ClientTyped
  <2>6. eventTimes[c] # <<>> => seen[c] < e.at
    BY <1>1, <2>1, <2>5 DEF Snapshots, Supersedes
  <2>7. ~(e.ts < seen[c])
    <3> HIDE DEF e
    <3>. QED BY <2>4, <2>5, <2>6
  <2> HIDE DEF e
  <2>8. Takes(c, e)
    BY <2>3, <2>4, <2>7 DEF Takes, Takeable
  <2>. QED BY <2>1, <2>2, <2>8
<1>. QED BY <1>3, <1>4

\* And so may an answer, if the channel had no event meanwhile.
LEMMA AnswerTaken ==
    ASSUME ClientTyped, Phases, Handed, Answers, Fetched
    PROVE  LET c == SweepAt(refresh.at)
               e == req[restFuture].answer
           IN  /\ c \in Channels /\ e \in Entity
               /\ \A d \in Channels : d # c => UNCHANGED <<ch[d], seen[d]>>
               /\ \/ ch'[c] = ch[c] /\ seen'[c] = seen[c]
                  \/ Takes(c, e) /\ (e.ts # NoTime => seen[c] <= e.at)
               /\ e.ts = NoTime => e.at = 0
<1> DEFINE c == SweepAt(refresh.at)
           e == req[restFuture].answer
<1>1. Fetching /\ refresh.pc = "awaiting"
  BY DEF Fetched, Fetching
<1>2. restFuture \in Requests /\ c \in Channels
  BY <1>1, SweepTyped DEF ClientTyped, Phases, Handed
<1>3. e \in Entity
  BY <1>2 DEF ClientTyped, Request
<1>4. /\ e.at <= ha[c].at
      /\ e.ts = NoTime => e = NoEntity
      /\ refresh.rev = rev[c] /\ e.ts # NoTime => seen[c] <= e.at
  BY <1>1 DEF Answers
<1>5. /\ ch' = IF MayApply(c) THEN [ch EXCEPT ![c] = UpdateChannel(c, e)] ELSE ch
      /\ seen' = IF MayApply(c) THEN [seen EXCEPT ![c] = Later(@, e.at)] ELSE seen
  BY DEF Fetched
<1>6. ch \in [Channels -> Channel] /\ seen \in [Channels -> Nat]
  BY DEF ClientTyped
<1>7. e.ts = NoTime => e.at = 0
  BY <1>4 DEF NoEntity
<1>8. e.ts # NoTime => e.ts = e.at
  BY <1>3, EntityParts
<1> HIDE DEF c, e
<1>9. CASE MayApply(c)
  <2>1. e.ts # NoTime => seen[c] <= e.at
    BY <1>4, <1>9 DEF MayApply
  <2>2. Takeable(c, e)
    <3>1. e.at \in Nat /\ seen[c] \in Nat
      BY <1>2, <1>3, <1>6, EntityParts
    <3>. QED BY <1>4, <1>8, <2>1, <3>1 DEF Takeable
  <2>3. ch'[c] = UpdateChannel(c, e) /\ seen'[c] = Later(seen[c], e.at)
    BY <1>2, <1>5, <1>6, <1>9
  <2>4. \A d \in Channels : d # c => UNCHANGED <<ch[d], seen[d]>>
    BY <1>2, <1>5, <1>6, <1>9
  <2>5. Takes(c, e)
    BY <2>2, <2>3 DEF Takes
  <2>. QED BY <1>2, <1>3, <1>7, <2>1, <2>4, <2>5 DEF c, e
<1>10. CASE ~MayApply(c)
  BY <1>2, <1>3, <1>5, <1>7, <1>10 DEF c, e
<1>. QED BY <1>9, <1>10

\* Every step does one of the three to every channel.
LEMMA Effects ==
    ASSUME ClientTyped, Phases, Handed, Ordered, Snapshots, Answers, [Next]_vars,
           NEW c \in Channels
    PROVE  Effect(c)
<1>0. ch \in [Channels -> Channel]
  BY DEF ClientTyped
<1>1. CASE UNCHANGED <<ch, seen>>
  BY <1>1 DEF Effect
<1>2. CASE HandleEvent
  BY <1>2, EventTaken DEF Effect
<1>3. CASE StatesAnswered
  BY <1>3, StatesTaken DEF Effect
<1>4. CASE Fetched
  BY <1>4, AnswerTaken DEF Effect
<1>5. CASE ConnectionEnds \/ Stop
  <2>1. ch'[c] = Invalidate(ch[c]) /\ seen' = seen
    BY <1>5 DEF ConnectionEnds, Stop, GoOffline, AllWithdrawn
  <2>. QED BY <1>0, <2>1, InvalidateResult DEF Effect, Withdrawn
<1>6. CASE ExpirePass
  <2>1. ch'[c] = Expire(ch[c], StaleAfter[c], clock) /\ seen' = seen /\ clock \in Int
    BY <1>6 DEF ExpirePass, ClientTyped
  <2>2. /\ ch'[c] \in Channel /\ ch'[c].sourceTime = ch[c].sourceTime
        /\ IsShown(ch'[c]) => ch'[c] = ch[c]
    BY <1>0, <2>1, ExpireResult
  <2>. QED BY <2>1, <2>2 DEF Effect, Withdrawn
<1>7. CASE Server
  BY <1>1, <1>7 DEF Server, ServerReport, ServerSubscribe, ServerReadStates, ServerAnswer,
                    LoseConnection
<1>8. CASE Connect \/ Opened \/ Subscribed
  BY <1>1, <1>8 DEF Connect, Opened, Subscribed
<1>9. CASE RefreshWake \/ Drained
  BY <1>1, <1>9 DEF RefreshWake, Drained
<1>10. ASSUME NEW r \in Requests, Thread(r)
       PROVE  UNCHANGED <<ch, seen>>
  BY <1>10 DEF Thread, ThreadStart, ThreadRead, ThreadFinish, threadUnchanged
<1>11. CASE Tick \/ UNCHANGED vars
  BY <1>1, <1>11 DEF Tick, vars
<1>. QED BY <1>1, <1>2, <1>3, <1>4, <1>5, <1>6, <1>7, <1>8, <1>9, <1>10, <1>11
         DEF Next, Client, RefreshTask

-----------------------------------------------------------------------------
(* What is shown, and every report under way.                                *)

\* Every step keeps what is shown dated and as new as what was processed.
LEMMA ShownStep ==
    ASSUME ClientInv, ClientTyped', [Next]_vars
    PROVE  /\ Known' /\ Dated' /\ NothingOlderThanSeen'
           /\ \A c \in Channels : ch[c].sourceTime # NoTime =>
                ch'[c].sourceTime # NoTime /\ ch[c].sourceTime <= ch'[c].sourceTime
<1>0. /\ ClientTyped /\ Phases /\ Handed /\ Ordered /\ Snapshots /\ Answers
      /\ Known /\ Dated /\ NothingOlderThanSeen
  BY DEF ClientInv
<1>1. ASSUME NEW c \in Channels
      PROVE  /\ seen'[c] \in Nat /\ seen'[c] <= ha[c].at
             /\ IsShown(ch'[c]) =>
                  /\ ch'[c].lastUpdate # NoTime
                  /\ ch'[c].sourceTime # NoTime => ch'[c].sourceTime <= ch'[c].lastUpdate
                  /\ ch'[c].lastUpdate >= seen'[c]
             /\ ch[c].sourceTime # NoTime =>
                  ch'[c].sourceTime # NoTime /\ ch[c].sourceTime <= ch'[c].sourceTime
  <2>1. /\ ch[c].sourceTime # NoTime => ch[c].sourceTime \in Int
        /\ seen[c] \in Nat /\ seen[c] <= ha[c].at
    BY <1>0 DEF ClientTyped, Channel, Stamp, Known
  <2>2. CASE UNCHANGED <<ch[c], seen[c]>>
    <3>1. IsShown(ch[c]) =>
            /\ ch[c].lastUpdate # NoTime
            /\ ch[c].sourceTime # NoTime => ch[c].sourceTime <= ch[c].lastUpdate
            /\ ch[c].lastUpdate >= seen[c]
      BY <1>0 DEF Dated, NothingOlderThanSeen
    <3>. QED BY <2>1, <2>2, <3>1
  <2>3. CASE Withdrawn(c)
    BY <2>1, <2>3 DEF Withdrawn
  <2>4. CASE \E e \in Entity : Takes(c, e)
    BY <1>0, <2>4, TakesResult
  <2>. QED BY <1>0, <2>2, <2>3, <2>4, Effects DEF Effect
<1>2. \A c \in Channels : ha[c].at <= ha'[c].at /\ ha'[c].at <= clock'
  BY <1>0, TimePasses
<1>3. Known'
  <2>1. \A c \in Channels : ha[c].at \in Nat /\ ha'[c].at \in Nat
    BY <1>0, EntityParts DEF ClientTyped
  <2>. QED BY <1>1, <1>2, <2>1 DEF Known
<1>4. Dated' /\ NothingOlderThanSeen'
  BY <1>1 DEF Dated, NothingOlderThanSeen
<1>. QED BY <1>1, <1>3, <1>4

\* A report that is behind stays behind.
LEMMA BehindKept ==
    ASSUME ClientInv, ClientTyped', [Next]_vars, NEW c \in Channels, NEW t \in Int, Behind(c, t)
    PROVE  Behind(c, t)'
<1>1. ch[c].sourceTime # NoTime =>
         /\ ch'[c].sourceTime # NoTime /\ ch[c].sourceTime <= ch'[c].sourceTime
         /\ ch[c].sourceTime \in Int /\ ch'[c].sourceTime \in Int
  BY ShownStep DEF ClientInv, ClientTyped, Channel, Stamp
<1>2. clock <= clock' /\ clock \in Nat /\ clock' \in Nat
  BY TimePasses DEF ClientInv, ClientTyped
<1>3. CASE ch[c].sourceTime # NoTime /\ t < ch[c].sourceTime
  BY <1>1, <1>3 DEF Behind
<1>4. CASE StaleAfter[c] # Unlimited /\ clock - t > StaleAfter[c]
  <2>1. StaleAfter[c] \in Nat
    BY <1>4, ClientAssumption
  <2>. QED BY <1>2, <1>4, <2>1 DEF Behind
<1>. QED BY <1>3, <1>4 DEF Behind

\* Every step leaves an offline client showing nothing.
LEMMA OfflineStep == ClientInv /\ [Next]_vars => OfflineShowsNothing'
<1> SUFFICES ASSUME ClientInv, [Next]_vars
             PROVE  OfflineShowsNothing'
  OBVIOUS
<1>0. ClientTyped /\ Phases /\ OfflineShowsNothing /\ ch \in [Channels -> Channel]
  BY DEF ClientInv, ClientTyped
<1>1. CASE /\ UNCHANGED ch
           /\ task' \in {"waiting", "opening", "subscribing", "stopped"} =>
                task \in {"waiting", "opening", "subscribing", "stopped"}
  BY <1>0, <1>1 DEF OfflineShowsNothing
<1>2. CASE task' \in {"snapshot", "listening"}
  BY <1>2 DEF OfflineShowsNothing
<1>3. CASE GoOffline
  BY <1>0, <1>3, InvalidateResult DEF GoOffline, AllWithdrawn, OfflineShowsNothing
<1>4. CASE ExpirePass
  <2>1. UNCHANGED task /\ clock \in Int
    BY <1>0, <1>4 DEF ExpirePass, ClientTyped
  <2>2. \A c \in Channels : IsShown(ch'[c]) => IsShown(ch[c])
    BY <1>0, <1>4, <2>1, ExpireResult DEF ExpirePass
  <2>. QED BY <1>0, <2>1, <2>2 DEF OfflineShowsNothing
<1>5. CASE Server
  BY <1>1, <1>5 DEF Server, ServerReport, ServerSubscribe, ServerReadStates, ServerAnswer,
                    LoseConnection
<1>6. CASE Client
  BY <1>1, <1>2, <1>3, <1>6 DEF Client, Connect, Opened, Subscribed, HandleEvent,
                                StatesAnswered, ConnectionEnds, Stop
<1>7. CASE RefreshTask
  <2>1. task = "listening" /\ UNCHANGED task
    BY <1>0, <1>7 DEF RefreshTask, RefreshWake, Drained, Fetched, Phases
  <2>. QED BY <1>2, <2>1
<1>8. ASSUME NEW r \in Requests, Thread(r)
      PROVE  UNCHANGED <<ch, task>>
  BY <1>8 DEF Thread, ThreadStart, ThreadRead, ThreadFinish, threadUnchanged
<1>9. CASE Tick \/ UNCHANGED vars
  BY <1>1, <1>9 DEF Tick, vars
<1>. QED BY <1>1, <1>4, <1>5, <1>6, <1>7, <1>8, <1>9 DEF Next

\* An event keeps its standing when its channel takes nothing newer.
LEMMA UnpassedKept ==
    ASSUME ClientInv, ClientTyped', [Next]_vars, NEW c \in Channels, NEW e \in Entity,
           Unpassed(c, e), task' # "listening" => task # "listening",
           seen'[c] = seen[c] \/ seen'[c] <= e.at
    PROVE  Unpassed(c, e)'
<1>1. /\ ha[c].at <= ha'[c].at /\ ha[c].at \in Nat /\ ha'[c].at \in Nat
      /\ e.at \in Nat /\ (e.ts # NoTime => e.ts = e.at) /\ seen'[c] \in Nat
  BY TimePasses, EntityParts DEF ClientInv, ClientTyped
<1>2. e.at <= ha'[c].at
  BY <1>1 DEF Unpassed
<1>3. task' # "listening" => seen'[c] <= e.at
  BY DEF Unpassed
<1>4. ASSUME e.ts # NoTime, e.ts < seen'[c]
      PROVE  Behind(c, e.ts)'
  <2>1. seen'[c] = seen[c] /\ e.ts \in Int
    BY <1>1, <1>4
  <2>2. Behind(c, e.ts)
    BY <1>4, <2>1 DEF Unpassed
  <2>. QED BY <2>1, <2>2, BehindKept
<1>. QED BY <1>2, <1>3, <1>4 DEF Unpassed

\* An event is behind once its channel takes a newer answer.
LEMMA UnpassedPassed ==
    ASSUME ClientInv, ClientTyped', [Next]_vars, NEW c \in Channels, NEW e \in Entity,
           Unpassed(c, e), task' = "listening", clock' = clock,
           NEW s \in Entity, Takes(c, s), s.ts = NoTime => s.at = 0
    PROVE  Unpassed(c, e)'
<1>0. ClientTyped /\ Known /\ Dated /\ NothingOlderThanSeen
  BY DEF ClientInv
<1>1. /\ ha[c].at <= ha'[c].at /\ ha[c].at \in Nat /\ ha'[c].at \in Nat
      /\ e.at \in Nat /\ (e.ts # NoTime => e.ts = e.at) /\ s.at \in Nat
      /\ s.ts # NoTime => s.ts = s.at
      /\ seen[c] \in Nat /\ clock \in Nat
  BY <1>0, TimePasses, EntityParts DEF ClientTyped
<1>2. /\ s.ts # NoTime =>
           \/ ch'[c].sourceTime # NoTime /\ s.ts <= ch'[c].sourceTime
           \/ StaleAfter[c] # Unlimited /\ clock - s.ts > StaleAfter[c]
      /\ seen'[c] = seen[c] \/ (seen'[c] = s.at /\ seen[c] < s.at)
      /\ ch'[c] \in Channel
  BY <1>0, TakesResult
<1>3. e.at <= ha'[c].at
  BY <1>1 DEF Unpassed
<1>4. ASSUME e.ts # NoTime, e.ts < seen'[c]
      PROVE  Behind(c, e.ts)'
  <2>1. e.ts \in Int
    BY <1>1, <1>4
  <2>2. CASE e.ts < seen[c]
    <3>1. Behind(c, e.ts)
      BY <1>4, <2>2 DEF Unpassed
    <3>. QED BY <2>1, <3>1, BehindKept
  <2>3. CASE ~(e.ts < seen[c])
    <3>1. seen[c] < s.at /\ e.ts < s.at
      BY <1>1, <1>2, <1>4, <2>3
    <3>2. s.ts = s.at /\ s.ts \in Int /\ s.ts # NoTime
      BY <1>1, <3>1
    <3>3. CASE ch'[c].sourceTime # NoTime /\ s.ts <= ch'[c].sourceTime
      <4>1. ch'[c].sourceTime \in Int
        BY <1>2, <3>3 DEF Channel, Stamp
      <4>. QED BY <2>1, <3>1, <3>2, <3>3, <4>1 DEF Behind
    <3>4. CASE StaleAfter[c] # Unlimited /\ clock - s.ts > StaleAfter[c]
      <4>1. StaleAfter[c] \in Nat
        BY <3>4, ClientAssumption
      <4>. QED BY <1>1, <2>1, <3>1, <3>2, <3>4, <4>1 DEF Behind
    <3>. QED BY <1>2, <3>2, <3>3, <3>4
  <2>. QED BY <2>2, <2>3
<1>. QED BY <1>3, <1>4 DEF Unpassed

\* The inbox is in order when it is sorted and each event has its standing.
LEMMA OrderedNext ==
    ASSUME Sorted',
           \A k \in DOMAIN inbox' : IsEvent(inbox'[k]) =>
               \E c \in Channels, e \in Entity :
                   c = inbox'[k].channel /\ e = inbox'[k].entity /\ Unpassed(c, e)'
    PROVE  Ordered'
<1>1. ASSUME NEW k \in DOMAIN inbox', IsEvent(inbox'[k])
      PROVE  Unpassed(inbox[k].channel, inbox[k].entity)'
  <2>1. PICK c \in Channels, e \in Entity :
            c = inbox'[k].channel /\ e = inbox'[k].entity /\ Unpassed(c, e)'
    BY <1>1
  <2>. QED BY <2>1 DEF Unpassed, Behind
<1>2. \A k \in DOMAIN inbox' : IsEvent(inbox[k])' => Unpassed(inbox[k].channel, inbox[k].entity)'
  BY <1>1
<1>. QED BY <1>2 DEF Ordered

\* Every step keeps events in order and what overtook them ahead of them.
LEMMA OrderedStep == ClientInv /\ ClientTyped' /\ [Next]_vars => Ordered'
<1> SUFFICES ASSUME ClientInv, ClientTyped', [Next]_vars
             PROVE  Ordered'
  OBVIOUS
<1>0. /\ ClientTyped /\ Phases /\ Handed /\ OneSnapshot /\ Known /\ Ordered /\ Snapshots
      /\ Answers /\ Dated /\ NothingOlderThanSeen /\ inbox \in Seq(Message) /\ clock \in Nat
      /\ \A k \in DOMAIN inbox : inbox[k] \in Message
      /\ \A k \in DOMAIN inbox : k \in Nat
  BY DEF ClientInv, ClientTyped
<1>1. \A k \in DOMAIN inbox : IsEvent(inbox[k]) =>
          /\ inbox[k].channel \in Channels /\ inbox[k].entity \in Entity
          /\ Unpassed(inbox[k].channel, inbox[k].entity)
  BY <1>0, MessageParts DEF Ordered
<1>2. ASSUME UNCHANGED seen, task' # "listening" => task # "listening",
             \A k \in DOMAIN inbox' : k \in DOMAIN inbox /\ inbox'[k] = inbox[k]
      PROVE  Ordered'
  <2>1. ASSUME NEW k \in DOMAIN inbox', IsEvent(inbox'[k])
        PROVE  \E c \in Channels, e \in Entity :
                   c = inbox'[k].channel /\ e = inbox'[k].entity /\ Unpassed(c, e)'
    <3>1. k \in DOMAIN inbox /\ inbox'[k] = inbox[k]
      BY <1>2
    <3>2. PICK c \in Channels, e \in Entity :
              c = inbox[k].channel /\ e = inbox[k].entity /\ Unpassed(c, e)
      BY <1>1, <2>1, <3>1
    <3>3. seen'[c] = seen[c]
      BY <1>2
    <3>4. Unpassed(c, e)'
      BY <1>2, <3>2, <3>3, UnpassedKept
    <3>. QED BY <3>1, <3>2, <3>4
  <2>2. Sorted'
    BY <1>0, <1>2 DEF Ordered, Sorted
  <2>. QED BY <2>1, <2>2, OrderedNext
<1>3. ASSUME NEW c \in Changing, NEW e \in Entity, e.at = clock, ServerReport(c, e),
             inbox' = Append(inbox, Event(c, e))
      PROVE  Ordered'
  <2>1. /\ c \in Channels /\ Event(c, e) \in Message /\ IsEvent(Event(c, e))
        /\ Event(c, e).channel = c /\ Event(c, e).entity = e
    BY <1>3, ClientAssumption DEF Event, Message, IsEvent
  <2>2. \A k \in DOMAIN inbox' :
          \/ k \in DOMAIN inbox /\ inbox'[k] = inbox[k]
          \/ k \notin DOMAIN inbox /\ inbox'[k] = Event(c, e) /\ (\A j \in DOMAIN inbox : j < k)
             /\ k = Len(inbox) + 1
    BY <1>0, <1>3, <2>1, InboxAppend
  <2>3. /\ ha'[c] = e /\ ha[c].at < clock /\ ha[c].at \in Nat
        /\ UNCHANGED <<seen, task, clock>>
    BY <1>0, <1>3, <2>1, EntityParts DEF ServerReport, ClientTyped
  <2>4. Unpassed(c, e)'
    <3>1. seen[c] \in Nat /\ seen[c] <= ha[c].at /\ e.at \in Nat /\ (e.ts # NoTime => e.ts = e.at)
      BY <1>0, <2>1, EntityParts DEF ClientTyped, Known
    <3>. QED BY <1>0, <1>3, <2>3, <3>1 DEF Unpassed
  <2>5. ASSUME NEW k \in DOMAIN inbox', IsEvent(inbox'[k])
        PROVE  \E d \in Channels, f \in Entity :
                   d = inbox'[k].channel /\ f = inbox'[k].entity /\ Unpassed(d, f)'
    <3>1. CASE inbox'[k] = Event(c, e)
      BY <2>1, <2>4, <3>1
    <3>2. CASE k \in DOMAIN inbox /\ inbox'[k] = inbox[k]
      <4>1. PICK d \in Channels, f \in Entity :
                d = inbox[k].channel /\ f = inbox[k].entity /\ Unpassed(d, f)
        BY <1>1, <2>5, <3>2
      <4>2. Unpassed(d, f)'
        BY <2>3, <4>1, UnpassedKept
      <4>. QED BY <3>2, <4>1, <4>2
    <3>. QED BY <2>2, <3>1, <3>2
  <2>6. \A j \in DOMAIN inbox : IsEvent(inbox[j]) /\ inbox[j].channel = c =>
            inbox[j].entity.at <= e.at
    <3>1. ASSUME NEW j \in DOMAIN inbox, IsEvent(inbox[j]), inbox[j].channel = c
          PROVE  inbox[j].entity.at <= e.at
      <4>1. inbox[j].entity.at <= ha[c].at /\ inbox[j].entity.at \in Nat
        BY <1>1, <3>1, EntityParts DEF Unpassed
      <4>. QED BY <1>0, <1>3, <2>3, <4>1
    <3>. QED BY <3>1
  <2>7. Sorted'
    <3>1. Len(inbox) \in Nat
      BY <1>0, LenProperties
    <3>2. \A k \in DOMAIN inbox' : k \notin DOMAIN inbox => ~(k < Len(inbox) + 1)
      BY <2>2, <3>1
    <3>3. ASSUME NEW j \in DOMAIN inbox', NEW k \in DOMAIN inbox', j < k,
                 IsEvent(inbox'[j]), IsEvent(inbox'[k]), inbox'[j].channel = inbox'[k].channel
          PROVE  inbox'[j].entity.at <= inbox'[k].entity.at
      <4>1. CASE k \in DOMAIN inbox /\ inbox'[k] = inbox[k]
        <5>1. j \in DOMAIN inbox
          BY <1>0, <2>2, <3>1, <3>3, <4>1
        <5>2. inbox'[j] = inbox[j]
          BY <2>2, <5>1
        <5>. QED BY <1>0, <3>3, <4>1, <5>1, <5>2 DEF Ordered, Sorted
      <4>2. CASE inbox'[k] = Event(c, e) /\ k = Len(inbox) + 1
        <5>1. j \in DOMAIN inbox /\ inbox'[j] = inbox[j]
          BY <2>2, <3>1, <3>3, <4>2
        <5>. QED BY <2>1, <2>6, <3>3, <4>2, <5>1
      <4>. QED BY <2>2, <4>1, <4>2
    <3>. QED BY <3>3 DEF Sorted
  <2>. QED BY <2>5, <2>7, OrderedNext
<1>4. ASSUME inbox # <<>>, inbox' = Tail(inbox)
      PROVE  /\ Sorted'
             /\ \A k \in DOMAIN inbox' : /\ k \in Nat /\ k + 1 \in DOMAIN inbox
                                         /\ inbox'[k] = inbox[k + 1] /\ 1 < k + 1
             /\ 1 \in DOMAIN inbox /\ Head(inbox) = inbox[1]
  <2>1. /\ \A k \in DOMAIN inbox' : /\ k \in Nat /\ k + 1 \in DOMAIN inbox
                                    /\ inbox'[k] = inbox[k + 1] /\ 1 < k + 1
        /\ 1 \in DOMAIN inbox /\ Head(inbox) = inbox[1]
    BY <1>0, <1>4, InboxTail
  <2>2. \A j, k \in DOMAIN inbox' : j < k => j + 1 < k + 1
    BY <2>1
  <2>3. Sorted'
    BY <1>0, <2>1, <2>2 DEF Ordered, Sorted
  <2>. QED BY <2>1, <2>3
<1>5. CASE HandleEvent
  <2>1. PICK c \in Channels, e \in Entity :
            /\ c = Head(inbox).channel /\ e = Head(inbox).entity /\ Takes(c, e)
            /\ \A d \in Channels : d # c => UNCHANGED <<ch[d], seen[d], rev[d]>>
    BY <1>0, <1>5, EventTaken
  <2>2. /\ inbox # <<>> /\ inbox' = Tail(inbox) /\ UNCHANGED task /\ IsEvent(Head(inbox))
    BY <1>5 DEF HandleEvent, IsEvent
  <2>3. ASSUME NEW k \in DOMAIN inbox', IsEvent(inbox'[k])
        PROVE  \E d \in Channels, f \in Entity :
                   d = inbox'[k].channel /\ f = inbox'[k].entity /\ Unpassed(d, f)'
    <3>1. /\ k + 1 \in DOMAIN inbox /\ inbox'[k] = inbox[k + 1] /\ 1 < k + 1
          /\ 1 \in DOMAIN inbox /\ Head(inbox) = inbox[1]
      BY <1>4, <2>2
    <3>2. PICK d \in Channels, f \in Entity :
              d = inbox[k + 1].channel /\ f = inbox[k + 1].entity /\ Unpassed(d, f)
      BY <1>1, <2>3, <3>1
    <3>3. CASE d # c
      BY <2>1, <2>2, <3>1, <3>2, <3>3, UnpassedKept
    <3>4. CASE d = c
      <4>1. e.at <= f.at
        BY <1>0, <2>1, <2>2, <2>3, <3>1, <3>2, <3>4 DEF Ordered, Sorted
      <4>2. seen'[c] = seen[c] \/ seen'[c] = e.at
        BY <1>0, <2>1, TakesResult
      <4>3. Unpassed(d, f)'
        BY <2>2, <3>2, <3>4, <4>1, <4>2, UnpassedKept
      <4>. QED BY <3>1, <3>2, <4>3
    <3>. QED BY <3>3, <3>4
  <2>. QED BY <1>4, <2>2, <2>3, OrderedNext
<1>6. CASE StatesAnswered
  <2>1. /\ inbox # <<>> /\ inbox' = Tail(inbox) /\ UNCHANGED clock /\ task' = "listening"
        /\ task # "listening"
    BY <1>6 DEF StatesAnswered
  <2>2. ASSUME NEW k \in DOMAIN inbox', IsEvent(inbox'[k])
        PROVE  \E d \in Channels, f \in Entity :
                   d = inbox'[k].channel /\ f = inbox'[k].entity /\ Unpassed(d, f)'
    <3>1. k + 1 \in DOMAIN inbox /\ inbox'[k] = inbox[k + 1]
      BY <1>4, <2>1
    <3>2. PICK d \in Channels, f \in Entity :
              d = inbox[k + 1].channel /\ f = inbox[k + 1].entity /\ Unpassed(d, f)
      BY <1>1, <2>2, <3>1
    <3>3. CASE UNCHANGED <<ch[d], seen[d]>>
      BY <2>1, <3>1, <3>2, <3>3, UnpassedKept
    <3>4. CASE \E s \in Entity : Takes(d, s) /\ s.ts # NoTime
      BY <2>1, <3>1, <3>2, <3>4, UnpassedPassed
    <3>. QED BY <1>0, <1>6, <3>3, <3>4, StatesTaken
  <2>. QED BY <1>4, <2>1, <2>2, OrderedNext
<1>7. CASE Fetched
  <2>1. PICK c \in Channels, s \in Entity :
            /\ \A d \in Channels : d # c => UNCHANGED <<ch[d], seen[d]>>
            /\ \/ ch'[c] = ch[c] /\ seen'[c] = seen[c]
               \/ Takes(c, s)
            /\ s.ts = NoTime => s.at = 0
    BY <1>0, <1>7, AnswerTaken
  <2>2. UNCHANGED <<inbox, clock, task>> /\ task = "listening"
    BY <1>0, <1>7 DEF Fetched, haVars, Phases
  <2>3. ASSUME NEW k \in DOMAIN inbox', IsEvent(inbox'[k])
        PROVE  \E d \in Channels, f \in Entity :
                   d = inbox'[k].channel /\ f = inbox'[k].entity /\ Unpassed(d, f)'
    <3>1. PICK d \in Channels, f \in Entity :
              d = inbox[k].channel /\ f = inbox[k].entity /\ Unpassed(d, f)
      BY <1>1, <2>2, <2>3
    <3>2. CASE seen'[d] = seen[d]
      BY <2>2, <3>1, <3>2, UnpassedKept
    <3>3. CASE d = c /\ Takes(c, s)
      BY <2>1, <2>2, <3>1, <3>3, UnpassedPassed
    <3>. QED BY <2>1, <3>2, <3>3
  <2>4. Sorted'
    BY <1>0, <2>2 DEF Ordered, Sorted
  <2>. QED BY <2>3, <2>4, OrderedNext
<1>8. CASE inbox' = <<>>
  <2>1. Sorted'
    BY <1>8 DEF Sorted
  <2>. QED BY <1>8, <2>1, OrderedNext
<1>9. CASE Server
  <2>1. ASSUME NEW c \in Changing, NEW e \in Entity, e.at = clock, ServerReport(c, e)
        PROVE  Ordered'
    BY <1>2, <1>3, <2>1 DEF ServerReport
  <2>2. CASE ServerSubscribe \/ ServerReadStates
    BY <1>2, <2>2 DEF ServerSubscribe, ServerReadStates
  <2>3. CASE LoseConnection
    <3>1. \A k \in DOMAIN inbox' : k \in DOMAIN inbox /\ inbox'[k] = inbox[k]
      BY <1>0, <2>3, InboxPrefix DEF LoseConnection
    <3>. QED BY <1>2, <2>3, <3>1 DEF LoseConnection
  <2>4. CASE ServerAnswer
    <3>1. PICK m \in {Result(snap), Refused} : inbox' = Append(inbox, m)
      BY <2>4 DEF ServerAnswer
    <3>2. m \in Message /\ ~IsEvent(m)
      BY <2>4, <3>1 DEF ServerAnswer, ClientTyped, Result, Refused, Message, IsEvent
    <3>3. \A k \in DOMAIN inbox' : IsEvent(inbox'[k]) => k \in DOMAIN inbox /\ inbox'[k] = inbox[k]
      BY <1>0, <3>1, <3>2, InboxAppend
    <3>4. Sorted'
      BY <1>0, <3>3 DEF Ordered, Sorted
    <3>5. ASSUME NEW k \in DOMAIN inbox', IsEvent(inbox'[k])
          PROVE  \E d \in Channels, f \in Entity :
                     d = inbox'[k].channel /\ f = inbox'[k].entity /\ Unpassed(d, f)'
      <4>1. k \in DOMAIN inbox /\ inbox'[k] = inbox[k]
        BY <3>3, <3>5
      <4>2. PICK d \in Channels, f \in Entity :
                d = inbox[k].channel /\ f = inbox[k].entity /\ Unpassed(d, f)
        BY <1>1, <3>5, <4>1
      <4>3. UNCHANGED <<seen, task>>
        BY <2>4 DEF ServerAnswer
      <4>. QED BY <4>1, <4>2, <4>3, UnpassedKept
    <3>. QED BY <3>4, <3>5, OrderedNext
  <2>. QED BY <1>0, <1>9, <2>1, <2>2, <2>3, <2>4, ReportTyped DEF Server
<1>10. CASE Connect \/ Opened \/ Subscribed
  BY <1>2, <1>10 DEF Connect, Opened, Subscribed
<1>11. CASE ConnectionEnds \/ Stop
  BY <1>8, <1>11 DEF ConnectionEnds, Stop, GoOffline
<1>12. CASE RefreshWake \/ Drained \/ ExpirePass \/ Tick \/ UNCHANGED vars
  BY <1>2, <1>12 DEF RefreshWake, Drained, ExpirePass, Tick, vars
<1>13. ASSUME NEW r \in Requests, Thread(r)
       PROVE  UNCHANGED <<seen, task, inbox>>
  BY <1>13 DEF Thread, ThreadStart, ThreadRead, ThreadFinish, threadUnchanged
<1>. QED BY <1>2, <1>5, <1>6, <1>7, <1>9, <1>10, <1>11, <1>12, <1>13
         DEF Next, Client, RefreshTask

\* Every step keeps a snapshot on its way comparable with what came before it.
LEMMA SnapshotsStep == ClientInv /\ ClientTyped' /\ OneSnapshot' /\ [Next]_vars => Snapshots'
<1> SUFFICES ASSUME ClientInv, ClientTyped', OneSnapshot', [Next]_vars
             PROVE  Snapshots'
  OBVIOUS
<1>0. /\ ClientTyped /\ Phases /\ Handed /\ OneSnapshot /\ Known /\ Ordered /\ Snapshots
      /\ Dated /\ NothingOlderThanSeen /\ inbox \in Seq(Message)
  BY DEF ClientInv, ClientTyped
<1>1. /\ \A c \in Channels : ha[c].at <= ha'[c].at /\ ha[c].at \in Nat /\ ha'[c].at \in Nat
      /\ \A c \in Channels : seen[c] \in Nat /\ seen[c] <= ha[c].at
  BY <1>0, TimePasses, EntityParts DEF ClientTyped, Known
<1>2. ASSUME NEW s \in [Channels -> Entity], SnapshotOf(s), UNCHANGED <<eventTimes, seen>>
      PROVE  SnapshotOf(s)'
  BY <1>1, <1>2, EntityParts DEF SnapshotOf
<1>3. CASE task' # "snapshot"
  <2>1. snap' = NoSnapshot /\ \A k \in DOMAIN inbox' : inbox'[k].kind # "result"
    BY <1>3 DEF OneSnapshot, IsEvent
  <2>. QED BY <1>3, <2>1 DEF Snapshots
<1>4. ASSUME UNCHANGED <<task, eventTimes, seen>>,
             snap' \in {snap, NoSnapshot},
             \A k \in DOMAIN inbox' : inbox'[k].kind = "result" =>
                 k \in DOMAIN inbox /\ inbox'[k] = inbox[k]
      PROVE  Snapshots'
  <2>1. ASSUME snap' # NoSnapshot
        PROVE  SnapshotOf(snap)'
    <3>1. snap' = snap /\ snap \in [Channels -> Entity] /\ SnapshotOf(snap)
      BY <1>0, <1>4, <2>1 DEF ClientTyped, Snapshots
    <3>2. PICK s \in [Channels -> Entity] : s = snap
      BY <3>1
    <3>3. SnapshotOf(s)'
      BY <1>2, <1>4, <3>1, <3>2
    <3>. QED BY <3>1, <3>2, <3>3 DEF SnapshotOf
  <2>2. ASSUME NEW k \in DOMAIN inbox', inbox'[k].kind = "result"
        PROVE  SnapshotOf(inbox[k].states)'
    <3>1. k \in DOMAIN inbox /\ inbox'[k] = inbox[k] /\ inbox[k] \in Message
      BY <1>0, <1>4, <2>2
    <3>2. PICK s \in [Channels -> Entity] : s = inbox[k].states /\ SnapshotOf(s)
      BY <1>0, <2>2, <3>1, MessageParts DEF Snapshots
    <3>3. SnapshotOf(s)'
      BY <1>2, <1>4, <3>2
    <3>. QED BY <3>1, <3>2, <3>3 DEF SnapshotOf
  <2>3. \A k \in DOMAIN inbox' : (inbox[k].kind = "result")' => SnapshotOf(inbox[k].states)'
    BY <2>2
  <2>4. task' = "snapshot" =>
          \A c \in Channels : eventTimes'[c] # <<>> =>
              eventTimes'[c][1] = NoTime \/ eventTimes'[c][1] = seen'[c]
    BY <1>0, <1>4 DEF Snapshots
  <2>. QED BY <2>1, <2>3, <2>4 DEF Snapshots
<1>5. CASE Server
  <2>1. ASSUME NEW c \in Changing, NEW e \in Entity, ServerReport(c, e)
        PROVE  Snapshots'
    <3>1. Event(c, e) \in Message /\ Event(c, e).kind # "result"
      BY <2>1, ClientAssumption DEF Event, Message
    <3>2. \A k \in DOMAIN inbox' : inbox'[k].kind = "result" =>
              k \in DOMAIN inbox /\ inbox'[k] = inbox[k]
      BY <1>0, <2>1, <3>1, InboxAppend DEF ServerReport
    <3>. QED BY <1>4, <2>1, <3>2 DEF ServerReport
  <2>2. CASE ServerSubscribe
    BY <1>4, <2>2 DEF ServerSubscribe
  <2>3. CASE ServerReadStates
    <3>1. /\ snap' = ha /\ UNCHANGED <<inbox, task, eventTimes, seen, ha>>
          /\ \A k \in DOMAIN inbox : inbox[k].kind = "event"
      BY <2>3 DEF ServerReadStates
    <3>2. SnapshotOf(snap)'
      BY <1>1, <3>1 DEF SnapshotOf
    <3>. QED BY <1>0, <3>1, <3>2 DEF Snapshots
  <2>4. CASE ServerAnswer
    <3>1. PICK m \in {Result(snap), Refused} : inbox' = Append(inbox, m)
      BY <2>4 DEF ServerAnswer
    <3>2. /\ m \in Message /\ snap # NoSnapshot /\ snap' = NoSnapshot
          /\ UNCHANGED <<task, eventTimes, seen>>
          /\ m.kind = "result" => m.states = snap
      BY <2>4, <3>1 DEF ServerAnswer, ClientTyped, Result, Refused, Message
    <3>3. ASSUME NEW k \in DOMAIN inbox', inbox'[k].kind = "result"
          PROVE  SnapshotOf(inbox[k].states)'
      <4>1. inbox'[k] = m
        BY <1>0, <3>1, <3>2, <3>3, InboxAppend DEF OneSnapshot, IsEvent
      <4>2. PICK s \in [Channels -> Entity] : s = snap /\ SnapshotOf(s)
        BY <1>0, <3>2 DEF ClientTyped, Snapshots
      <4>3. SnapshotOf(s)'
        BY <1>2, <3>2, <4>2
      <4>4. inbox'[k].states = s
        BY <3>2, <3>3, <4>1, <4>2
      <4>. QED BY <4>3, <4>4 DEF SnapshotOf
    <3>4. \A k \in DOMAIN inbox' : (inbox[k].kind = "result")' => SnapshotOf(inbox[k].states)'
      BY <3>3
    <3>5. task' = "snapshot" =>
            \A c \in Channels : eventTimes'[c] # <<>> =>
                eventTimes'[c][1] = NoTime \/ eventTimes'[c][1] = seen'[c]
      BY <1>0, <3>2 DEF Snapshots
    <3>. QED BY <3>2, <3>4, <3>5 DEF Snapshots
  <2>5. CASE LoseConnection
    <3>1. \A k \in DOMAIN inbox' : k \in DOMAIN inbox /\ inbox'[k] = inbox[k]
      BY <1>0, <2>5, InboxPrefix DEF LoseConnection
    <3>. QED BY <1>4, <2>5, <3>1 DEF LoseConnection
  <2>. QED BY <1>0, <1>5, <2>1, <2>2, <2>3, <2>4, <2>5, ReportTyped DEF Server, ClientTyped
<1>6. CASE Connect \/ Opened \/ StatesAnswered
  BY <1>3, <1>6 DEF Connect, Opened, StatesAnswered
<1>7. CASE Subscribed
  <2>1. task # "snapshot" /\ UNCHANGED <<snap, inbox>>
    BY <1>7 DEF Subscribed, haVars
  <2>2. snap = NoSnapshot /\ \A k \in DOMAIN inbox : inbox[k].kind # "result"
    BY <1>0, <2>1 DEF OneSnapshot, IsEvent
  <2>3. \A c \in Channels : eventTimes'[c] = <<>>
    BY <1>7 DEF Subscribed, NoTimes
  <2>. QED BY <2>1, <2>2, <2>3 DEF Snapshots
<1>8. CASE HandleEvent /\ task = "snapshot"
  <2>1. PICK c \in Channels, e \in Entity :
            /\ Takes(c, e) /\ seen[c] <= e.at
            /\ \A d \in Channels : d # c => UNCHANGED <<ch[d], seen[d], rev[d]>>
            /\ eventTimes' = [eventTimes EXCEPT ![c] = <<e.ts>>]
    BY <1>0, <1>8, EventTaken
  <2>2. UNCHANGED <<snap, task, ha>> /\ inbox # <<>> /\ inbox' = Tail(inbox)
    BY <1>8 DEF HandleEvent, haVars
  <2>3. eventTimes \in [Channels -> {<<>>} \union {<<t>> : t \in Stamp}]
    BY <1>0 DEF ClientTyped
  <2>4. /\ eventTimes'[c] = <<e.ts>> /\ eventTimes'[c] # <<>>
        /\ \A d \in Channels : d # c => eventTimes'[d] = eventTimes[d]
    BY <2>1, <2>3
  <2>5. seen'[c] = e.at
    <3>1. seen'[c] = seen[c] \/ (seen'[c] = e.at /\ seen[c] < e.at)
      BY <1>0, <2>1, TakesResult
    <3>2. seen'[c] = Later(seen[c], e.at) /\ seen[c] \in Nat /\ e.at \in Nat
      BY <1>1, <2>1, EntityParts DEF Takes
    <3>. QED BY <2>1, <3>2 DEF Later
  <2>6. ASSUME NEW s \in [Channels -> Entity], SnapshotOf(s)
        PROVE  SnapshotOf(s)'
    <3>1. \A d \in Channels : s[d].at <= ha'[d].at
      BY <2>2, <2>6 DEF SnapshotOf
    <3>2. \A d \in Channels : eventTimes'[d] = <<>> => seen'[d] <= s[d].at
      BY <2>1, <2>4, <2>6 DEF SnapshotOf
    <3>. QED BY <3>1, <3>2 DEF SnapshotOf
  <2>7. ASSUME snap' # NoSnapshot
        PROVE  SnapshotOf(snap)'
    <3>1. PICK s \in [Channels -> Entity] : s = snap /\ SnapshotOf(s)
      BY <1>0, <2>2, <2>7 DEF ClientTyped, Snapshots
    <3>2. SnapshotOf(s)'
      BY <2>6, <3>1
    <3>. QED BY <2>2, <3>1, <3>2 DEF SnapshotOf
  <2>8. ASSUME NEW k \in DOMAIN inbox', inbox'[k].kind = "result"
        PROVE  SnapshotOf(inbox[k].states)'
    <3>1. k + 1 \in DOMAIN inbox /\ inbox'[k] = inbox[k + 1] /\ inbox[k + 1] \in Message
      BY <1>0, <2>2, InboxTail
    <3>2. PICK s \in [Channels -> Entity] : s = inbox[k + 1].states /\ SnapshotOf(s)
      BY <1>0, <2>8, <3>1, MessageParts DEF Snapshots
    <3>3. SnapshotOf(s)'
      BY <2>6, <3>2
    <3>. QED BY <3>1, <3>2, <3>3 DEF SnapshotOf
  <2>9. \A k \in DOMAIN inbox' : (inbox[k].kind = "result")' => SnapshotOf(inbox[k].states)'
    BY <2>8
  <2>10. ASSUME NEW d \in Channels, eventTimes'[d] # <<>>
         PROVE  eventTimes'[d][1] = NoTime \/ eventTimes'[d][1] = seen'[d]
    <3>1. CASE d = c
      BY <2>4, <2>5, <3>1, EntityParts
    <3>2. CASE d # c
      BY <1>0, <1>8, <2>1, <2>4, <2>10, <3>2 DEF Snapshots
    <3>. QED BY <3>1, <3>2
  <2>. QED BY <2>7, <2>9, <2>10 DEF Snapshots
<1>9. CASE HandleEvent /\ task # "snapshot"
  BY <1>3, <1>9 DEF HandleEvent
<1>10. CASE ConnectionEnds \/ Stop
  BY <1>3, <1>10 DEF ConnectionEnds, Stop
<1>11. CASE RefreshTask
  <2>1. task' = "listening"
    BY <1>0, <1>11 DEF RefreshTask, RefreshWake, Drained, Fetched, Phases
  <2>. QED BY <1>3, <2>1
<1>12. ASSUME NEW r \in Requests, Thread(r)
       PROVE  UNCHANGED <<task, eventTimes, seen, snap, inbox>>
  BY <1>12 DEF Thread, ThreadStart, ThreadRead, ThreadFinish, threadUnchanged, haVars
<1>13. CASE ExpirePass \/ Tick \/ UNCHANGED vars
  BY <1>4, <1>13 DEF ExpirePass, Tick, vars, haVars
<1>. QED BY <1>4, <1>5, <1>6, <1>7, <1>8, <1>9, <1>10, <1>11, <1>12, <1>13 DEF Next, Client

\* Every step keeps an answer comparable with what came before it.
LEMMA AnswersStep == ClientInv /\ ClientTyped' /\ HandInv' /\ [Next]_vars => Answers'
<1> SUFFICES ASSUME ClientInv, ClientTyped', HandInv', [Next]_vars
             PROVE  Answers'
  OBVIOUS
<1>0. /\ ClientTyped /\ Phases /\ Handed /\ Ordered /\ Known /\ Answers
      /\ ch \in [Channels -> Channel] /\ req \in [Requests -> Request]
      /\ refresh \in RefreshState
  BY DEF ClientInv, ClientTyped, RefreshState
<1>1. /\ \A c \in Channels : ha[c].at <= ha'[c].at /\ ha[c].at \in Nat /\ ha'[c].at \in Nat
      /\ \A c \in Channels : seen[c] \in Nat /\ seen[c] <= ha[c].at
  BY <1>0, TimePasses, EntityParts DEF ClientInv, ClientTyped, Known
<1>2. Fetching => refresh.at \in 1..SweepLength /\ SweepAt(refresh.at) \in Channels
                  /\ restFuture \in Requests
  BY <1>0, SweepTyped DEF Phases, Handed, ClientTyped
<1>3. ASSUME UNCHANGED <<refresh, restFuture, req>>,
             Fetching =>
               LET c == SweepAt(refresh.at)
               IN  /\ refresh.rev <= rev'[c]
                   /\ refresh.rev = rev'[c] =>
                        /\ IsShown(ch'[c]) => ch'[c].lastUpdate = held'
                        /\ refresh.pc = "awaiting" /\ req[restFuture].answer.ts # NoTime
                             => seen'[c] <= req[restFuture].answer.at
      PROVE  Answers'
  <2>1. ASSUME Fetching, refresh.pc = "awaiting"
        PROVE  LET c == SweepAt(refresh.at)
                   q == req[restFuture]
               IN  /\ q.channel = c /\ q.answer.at <= ha'[c].at
                   /\ q.answer.ts = NoTime => q.answer = NoEntity
    <3>1. /\ req[restFuture].answer \in Entity
          /\ req[restFuture].answer.at <= ha[SweepAt(refresh.at)].at
          /\ req[restFuture].channel = SweepAt(refresh.at)
          /\ req[restFuture].answer.ts = NoTime => req[restFuture].answer = NoEntity
      BY <1>0, <1>2, <2>1 DEF Answers, Request
    <3>2. req[restFuture].answer.at \in Nat
      BY <3>1, EntityParts
    <3>. QED BY <1>1, <1>2, <2>1, <3>1, <3>2
  <2>. QED BY <1>3, <2>1 DEF Answers, Fetching
<1>4. ASSUME UNCHANGED <<refresh, restFuture, req, rev, seen, held>>,
             \A c \in Channels : IsShown(ch'[c]) => ch'[c] = ch[c]
      PROVE  Answers'
  BY <1>0, <1>2, <1>3, <1>4 DEF Answers
<1>5. CASE Server
  BY <1>4, <1>5 DEF Server, ServerReport, ServerSubscribe, ServerReadStates, ServerAnswer,
                    LoseConnection, restVars
<1>6. CASE Connect \/ Opened \/ Subscribed
  BY <1>4, <1>6 DEF Connect, Opened, Subscribed, restVars
<1>7. CASE HandleEvent
  <2>1. PICK c \in Channels :
            /\ \A d \in Channels : d # c => UNCHANGED <<ch[d], seen[d], rev[d]>>
            /\ rev'[c] = rev[c] + 1
    BY <1>0, <1>7, EventTaken
  <2>2. UNCHANGED <<refresh, restFuture, req, held>>
    BY <1>7 DEF HandleEvent, restVars
  <2>3. ASSUME Fetching
        PROVE  LET d == SweepAt(refresh.at)
               IN  /\ refresh.rev <= rev'[d]
                   /\ refresh.rev = rev'[d] => /\ ch'[d] = ch[d] /\ seen'[d] = seen[d]
                                               /\ rev'[d] = rev[d]
    <3>1. refresh.rev \in Nat /\ rev[c] \in Nat /\ refresh.rev <= rev[SweepAt(refresh.at)]
      BY <1>0, <2>3 DEF ClientTyped, Answers
    <3>. QED BY <1>2, <2>1, <2>3, <3>1
  <2>. QED BY <1>0, <1>3, <2>2, <2>3 DEF Answers
<1>8. CASE StatesAnswered \/ ConnectionEnds \/ Stop
  <2>1. ~Fetching'
    BY <1>8 DEF StatesAnswered, ConnectionEnds, Stop, GoOffline, NoRefresh, Sleeping, Fetching
  <2>. QED BY <2>1 DEF Answers
<1>9. ASSUME NEW i \in 1..SweepLength + 1, NEW after, Resumed(i, ch', after), UNCHANGED rev
      PROVE  Answers'
  <2>1. ASSUME Fetching'
        PROVE  /\ refresh'.at \in 1..SweepLength /\ SweepAt(refresh'.at) \in Channels
               /\ refresh'.rev = rev'[SweepAt(refresh'.at)]
               /\ refresh'.rev \in Nat
               /\ held' = ch'[SweepAt(refresh'.at)].lastUpdate
               /\ refresh'.pc = "awaiting" =>
                    /\ req'[restFuture'].channel = SweepAt(refresh'.at)
                    /\ req'[restFuture'].answer = NoEntity
    <3>1. refresh'.at \in i..SweepLength /\ SweepLength \in Nat /\ i \in Nat /\ i >= 1
      BY <1>9, <2>1, SweepTyped DEF Resumed
    <3>2. refresh'.at \in 1..SweepLength
      BY <3>1
    <3>3. refresh'.rev \in Nat
      BY <1>9 DEF Resumed, RefreshState
    <3>. QED BY <1>9, <2>1, <3>2, <3>3, SweepTyped DEF Resumed
  <2>2. NoEntity.at = 0 /\ NoEntity.ts = NoTime
    BY DEF NoEntity
  <2>. QED BY <1>1, <2>1, <2>2 DEF Answers
<1>10. CASE RefreshWake
  <2>1. 1 \in 1..SweepLength + 1
    BY SweepTyped
  <2>2. ch' = ch /\ Resumed(1, ch, restAfter) /\ UNCHANGED rev
    BY <1>0, <1>10, RefreshSteps DEF RefreshWake
  <2>. QED BY <1>9, <2>1, <2>2
<1>11. CASE Drained
  <2>1. Fetching /\ refresh.at + 1 \in 1..SweepLength + 1 /\ UNCHANGED <<ch, rev, seen, ha>>
    BY <1>2, <1>11, SweepTyped DEF Drained, Fetching, haVars
  <2>2. CASE restClosed
    BY <1>0, <1>9, <1>11, <2>1, <2>2, RefreshSteps
  <2>3. CASE ~restClosed
    <3>1. /\ refresh' = [refresh EXCEPT !.pc = "awaiting"]
          /\ UNCHANGED held
          /\ req'[restFuture'].channel = SweepAt(refresh.at)
          /\ req'[restFuture'].answer = NoEntity
      BY <1>0, <1>11, <2>3, DrainedStarts
    <3>2. refresh'.at = refresh.at /\ refresh'.rev = refresh.rev
      BY <1>0, <3>1 DEF RefreshState
    <3>3. NoEntity.at = 0 /\ NoEntity.ts = NoTime
      BY DEF NoEntity
    <3>. QED BY <1>0, <1>1, <1>2, <2>1, <3>1, <3>2, <3>3 DEF Answers
  <2>. QED BY <2>2, <2>3
<1>12. CASE Fetched
  <2>1. Fetching /\ refresh.at + 1 \in 1..SweepLength + 1 /\ UNCHANGED rev
    BY <1>2, <1>12, SweepTyped DEF Fetched, Fetching
  <2>. QED BY <1>0, <1>9, <1>12, <2>1, RefreshSteps
<1>13. ASSUME NEW r \in Requests, Thread(r)
       PROVE  Answers'
  <2>1. UNCHANGED <<ch, rev, refresh, restFuture, seen, held, ha>> /\ Live(r) /\ restFuture = r
    BY <1>0, <1>13 DEF Thread, ThreadStart, ThreadRead, ThreadFinish, threadUnchanged, haVars,
                       Live, Handed
  <2>2. req'[r].channel = req[r].channel
    BY <1>0, <1>13 DEF Thread, ThreadStart, ThreadRead, ThreadFinish, Request
  <2>3. CASE ThreadStart(r) \/ ThreadFinish(r)
    <3>1. req'[r].answer = req[r].answer
      BY <1>0, <2>3 DEF ThreadStart, ThreadFinish, Request
    <3>. QED BY <1>0, <2>1, <2>2, <3>1 DEF Answers, Fetching
  <2>4. CASE ThreadRead(r)
    <3>1. PICK e \in {NoEntity, ha[req[r].channel]} :
              /\ e.ts = NoTime => e = NoEntity
              /\ req' = [req EXCEPT ![r].pc = "finish", ![r].answer = e]
      BY <2>4 DEF ThreadRead
    <3>2. req'[r].answer = e
      BY <1>0, <3>1 DEF Request
    <3>3. NoEntity.at = 0 /\ NoEntity.ts = NoTime
      BY DEF NoEntity
    <3>4. ASSUME Fetching, refresh.pc = "awaiting"
          PROVE  LET c == SweepAt(refresh.at)
                 IN  /\ req'[r].channel = c
                     /\ e.at <= ha[c].at
                     /\ e.ts # NoTime => seen[c] <= e.at
      <4>1. req[r].channel = SweepAt(refresh.at)
        BY <1>0, <2>1, <3>4 DEF Answers
      <4>. QED BY <1>1, <1>2, <2>2, <3>1, <3>3, <3>4, <4>1
    <3>. QED BY <1>0, <2>1, <3>1, <3>2, <3>4 DEF Answers, Fetching
  <2>. QED BY <1>13, <2>3, <2>4 DEF Thread
<1>14. CASE ExpirePass
  <2>1. \A c \in Channels : IsShown(ch'[c]) => ch'[c] = ch[c]
    <3>1. clock \in Int
      BY <1>0 DEF ClientTyped
    <3>. QED BY <1>0, <1>14, <3>1, ExpireResult DEF ExpirePass
  <2>. QED BY <1>4, <1>14, <2>1 DEF ExpirePass, restVars
<1>15. CASE Tick \/ UNCHANGED vars
  BY <1>4, <1>15 DEF Tick, vars, restVars
<1>. QED BY <1>5, <1>6, <1>7, <1>8, <1>10, <1>11, <1>12, <1>13, <1>14, <1>15
         DEF Next, Client, RefreshTask

-----------------------------------------------------------------------------
(* The theorems.                                                             *)

LEMMA InitInv == Init => ClientInv
<1> SUFFICES ASSUME Init
             PROVE  ClientInv
  OBVIOUS
<1>1. ClientTyped
  <2>1. ha \in [Channels -> Entity]
    <3>1. {Report(p, 0) : p \in Reading} \subseteq Entity
      BY ReportTyped
    <3>. QED BY <3>1 DEF Init
  <2>2. ch \in [Channels -> Channel]
    <3>1. NewChannel \in Channel
      <4>1. NoPower \in Reading /\ NoTime \in Stamp /\ FALSE \in BOOLEAN /\ 0 \in Int
        BY DEF Reading, Stamp
      <4>. QED BY <4>1 DEF NewChannel, Channel
    <3>. QED BY <3>1 DEF Init
  <2>3. eventTimes \in [Channels -> {<<>>} \union {<<t>> : t \in Stamp}]
    BY DEF Init, NoTimes
  <2>4. refresh \in RefreshState /\ refresh.pc = "none"
    BY SweepTyped DEF Init, NoRefresh, RefreshState
  <2>5. /\ req \in [Requests -> Request]
        /\ \A r \in Requests : ~Live(r)
    BY IdleTyped DEF Init, IdleRequest, Live
  <2>6. subscribed \in BOOLEAN /\ lost \in BOOLEAN /\ restClosed \in BOOLEAN /\ session \in BOOLEAN
    BY Zenon DEF Init
  <2>. QED BY <2>1, <2>2, <2>3, <2>4, <2>5, <2>6 DEF Init, ClientTyped, RefreshState, Stamp
<1>2. ~Fetching /\ \A c \in Channels : ~IsShown(ch[c])
  BY DEF Init, Fetching, NoRefresh, IsShown, NewChannel
<1>3. HandInv
  <2>1. \A r \in Requests : req[r].pc = "unused"
    BY DEF Init, IdleRequest
  <2>. QED BY <1>2, <2>1 DEF Init, HandInv, Phases, Handed, SessionHandedOver, Live, NoRefresh
<1>4. OneSnapshot /\ Ordered /\ Snapshots /\ Answers
  BY <1>2 DEF Init, OneSnapshot, Ordered, Sorted, Snapshots, Answers
<1>5. Known
  BY DEF Init, Known, Report
<1>6. Dated /\ OfflineShowsNothing /\ NothingOlderThanSeen
  BY <1>2 DEF Dated, OfflineShowsNothing, NothingOlderThanSeen
<1>. QED BY <1>1, <1>3, <1>4, <1>5, <1>6 DEF HandInv, ClientInv

LEMMA InvStep == ClientInv /\ [Next]_vars => ClientInv'
<1> SUFFICES ASSUME ClientInv, [Next]_vars
             PROVE  ClientInv'
  OBVIOUS
<1>1. ClientTyped /\ HandInv /\ OneSnapshot
  BY DEF ClientInv, HandInv
<1>2. ClientTyped'
  BY <1>1, TypedStep DEF HandInv
<1>3. HandInv' /\ OneSnapshot'
  BY <1>1, HandStep, SnapStep DEF HandInv
<1>4. Known' /\ Dated' /\ NothingOlderThanSeen'
  BY <1>2, ShownStep
<1>5. Ordered' /\ Snapshots' /\ Answers' /\ OfflineShowsNothing'
  BY <1>2, <1>3, OrderedStep, SnapshotsStep, AnswersStep, OfflineStep
<1>. QED BY <1>2, <1>3, <1>4, <1>5 DEF ClientInv, HandInv

\* The inductive invariant of run_websocket_client, refresh_channels and the
\* REST threads.
THEOREM ClientInvariant == Spec => []ClientInv
BY InitInv, InvStep, PTL DEF Spec

\* At most one thread of _read_entity is ever at work (fetch_entity drains).
THEOREM Serialised == Spec => []OneRequest
<1>1. ClientInv => OneRequest
  BY DEF ClientInv, Handed, OneRequest
<1>. QED BY <1>1, ClientInvariant, PTL

\* No thread loses its session, and none is left open after shutdown.
THEOREM HandedOver == Spec => []SessionHandedOver
<1>1. ClientInv => SessionHandedOver
  BY DEF ClientInv
<1>. QED BY <1>1, ClientInvariant, PTL

\* set_connected(False) holds until the next subscription.
THEOREM Offline == Spec => []OfflineShowsNothing
<1>1. ClientInv => OfflineShowsNothing
  BY DEF ClientInv
<1>. QED BY <1>1, ClientInvariant, PTL

\* Event, snapshot and REST answer may arrive in any order.
THEOREM Newest == Spec => []NothingOlderThanSeen
<1>1. ClientInv => NothingOlderThanSeen
  BY DEF ClientInv
<1>. QED BY <1>1, ClientInvariant, PTL

\* The only step that ends a request of a client that stays online is the one
\* that takes its answer (the code after revalidate_channel's await).
LEMMA OnlyFetched ==
    ASSUME ClientInv, [Next]_vars, refresh.pc = "awaiting", refresh' # refresh,
           refresh'.pc \in {"awaiting", "draining"} \/ task' = "listening"
    PROVE  Fetched
<1>0. task = "listening"
  BY DEF ClientInv, Phases
<1>1. ~Server /\ ~ExpirePass /\ ~Tick /\ ~UNCHANGED vars
  BY DEF Server, ServerReport, ServerSubscribe, ServerReadStates, ServerAnswer,
         LoseConnection, ExpirePass, Tick, vars
<1>2. ~Client
  BY <1>0 DEF Client, Connect, Opened, Subscribed, HandleEvent, StatesAnswered,
              ConnectionEnds, Stop, GoOffline, NoRefresh
<1>3. ~RefreshWake /\ ~Drained
  BY DEF RefreshWake, Drained
<1>4. \A r \in Requests : ~Thread(r)
  BY DEF Thread, ThreadStart, ThreadRead, ThreadFinish, threadUnchanged
<1>. QED BY <1>1, <1>2, <1>3, <1>4 DEF Next, RefreshTask

\* A failed answer withdraws only what was shown when it was asked for.
THEOREM SparesNewer == Spec => FailureSparesNewer
<1>1. ASSUME ClientInv, [Next]_vars, NEW c \in Channels, AnswerConsumed(c), Withdraws(c)
      PROVE  ch[c].lastUpdate = held
  <2>1. Fetched /\ Fetching /\ SweepAt(refresh.at) = c
    BY <1>1, OnlyFetched DEF AnswerConsumed, Fetching
  <2>2. ch \in [Channels -> Channel] /\ IsShown(ch[c]) /\ ch'[c] # ch[c]
    BY <1>1 DEF ClientInv, ClientTyped, Withdraws
  <2>3. MayApply(c)
    BY <2>1, <2>2 DEF Fetched
  <2>. QED BY <1>1, <2>1, <2>2, <2>3 DEF ClientInv, Answers, MayApply
<1>2. ClientInv /\ [Next]_vars =>
        [\A c \in Channels :
           AnswerConsumed(c) /\ Withdraws(c) => ch[c].lastUpdate = held]_vars
  BY <1>1
<1>. QED BY <1>2, ClientInvariant, PTL DEF Spec, FailureSparesNewer

\* In the sweep the place after an ordinary channel's is the selected meter's.
LEMMA SelectedNext ==
    ASSUME NEW k \in DOMAIN Selected, NEW i \in 1..SweepLength,
           SweepAt(i) # Selected[k], i + 1 <= SweepLength
    PROVE  SweepAt(i + 1) = Selected[k]
<1>1. Selected \in Seq(Channels) /\ Len(Selected) <= 1 /\ Len(Selected) \in Nat
  BY ClientAssumption, LenProperties
<1>2. k = 1 /\ Len(Selected) = 1
  BY <1>1
<1>3. SweepLength \in Nat
  BY SweepTyped
<1>4. i > 1 /\ (i - 1) % 2 = 0
  BY <1>2, <1>3 DEF SweepAt
<1>5. i % 2 # 0 /\ i % 2 = 1
  BY <1>3, <1>4
<1>. QED BY <1>2, <1>3, <1>4, <1>5 DEF SweepAt

\* A slow ordinary request defers the selected meter behind no other.
THEOREM SelectedFirst == Spec => SelectedNotDeferred
<1> DEFINE Prompt(k) == SweepAt(refresh.at) # Selected[k] /\ Due(Selected[k], ch', restAfter')
                          => SweepAt(refresh'.at) = Selected[k]
<1>1. ASSUME ClientInv, [Next]_vars, GoesStraightOn, NEW k \in DOMAIN Selected
      PROVE  Prompt(k)
  <2> SUFFICES ASSUME SweepAt(refresh.at) # Selected[k], Due(Selected[k], ch', restAfter')
               PROVE  SweepAt(refresh'.at) = Selected[k]
    OBVIOUS
  <2>1. Fetched /\ Fetching /\ Fetching'
    BY <1>1, OnlyFetched DEF GoesStraightOn, Fetching
  <2>2. refresh.at \in 1..SweepLength /\ SweepLength \in Nat
    BY <1>1, <2>1, SweepTyped DEF ClientInv, Phases
  <2>3. Resumed(refresh.at + 1, ch', restAfter')
    BY <1>1, <2>1, RefreshSteps DEF ClientInv
  <2>4. /\ refresh'.at \in (refresh.at + 1)..SweepLength
        /\ \A j \in (refresh.at + 1)..SweepLength :
             Due(SweepAt(j), ch', restAfter') => refresh'.at <= j
    BY <2>1, <2>3 DEF Resumed
  <2>5. refresh.at + 1 \in (refresh.at + 1)..SweepLength
    BY <2>2, <2>4
  <2>6. SweepAt(refresh.at + 1) = Selected[k]
    BY <2>2, <2>5, SelectedNext
  <2>7. refresh'.at = refresh.at + 1
    BY <2>2, <2>4, <2>5, <2>6
  <2>. QED BY <2>6, <2>7
<1>2. ClientInv /\ [Next]_vars =>
        [GoesStraightOn =>
           \A c \in {Selected[k] : k \in DOMAIN Selected} :
             SweepAt(refresh.at) # c /\ Due(c, ch', restAfter')
               => SweepAt(refresh'.at) = c]_vars
  BY <1>1
<1>. QED BY <1>2, ClientInvariant, PTL DEF Spec, SelectedNotDeferred

=============================================================================
