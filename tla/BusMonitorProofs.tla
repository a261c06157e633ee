-------------------------- MODULE BusMonitorProofs --------------------------
(***************************************************************************)
(* Proofs about a monitor and the service it follows, for any items, any   *)
(* number of processes one after another, of writes and of calls.          *)
(*                                                                         *)
(* A cached value never goes back because a signal is newer than all that  *)
(* the monitor has been or will have been told before it is read: it       *)
(* carries the number of a write that is greater than every number in the  *)
(* messages ahead of it, in the replies tasks have taken and in the cache  *)
(* (Fresh).  A scan writes only what is unseen, which is still nothing.    *)
(* That what a task has been told is what it asked for takes following the *)
(* tasks: each has at most one message or one place in the event loop's    *)
(* queue (Once), and that fits the await it is at (Wire).                  *)
(*                                                                         *)
(* That the monitor agrees with the bus once nothing is in flight takes    *)
(* following the tokens.  An arrival and a departure each send one through *)
(* the queues: the announcement, then the task that follows it up, from    *)
(* await to await.  There is never more than one of each kind, a departure *)
(* is ahead of the next arrival, and a signal ahead of the departure of    *)
(* its process (LaneInv); the stages of the two tokens say what _services, *)
(* the rules and the entry by name are at every point (Registry).  Given   *)
(* that, every item's present value is on its way, in the cache, or will   *)
(* be what the scan under way was told (Shown), and what answers a write   *)
(* is behind its signal (Written).  All of it as long as no process has    *)
(* left before the monitor had added it.                                   *)
(***************************************************************************)
EXTENDS BusMonitor, SequenceTheorems, TLAPS

Owned == Conns \union {NoOne}
Changes == UNION {[S -> Nat] : S \in SUBSET Paths}
Body == {<<>>, Error} \union {Found(c) : c \in Owned} \union {Items(f) : f \in Changes}

Running == {"add", "match", "remove", "unmatch", "undo"}
Asking == {"names", "whose", "matching", "removing", "undoing", "scanning", "getting", "setting"}
Pcs == Running \union Asking \union {"none", "done", "got", "set"}
Task == [pc : Pcs, conn : Owned, body : Body]

Request == [what : {"names", "owner", "match", "unmatch", "items"}, task : Tasks]
             \union [what : {"get", "set"}, task : Tasks, path : Paths]
Announcement == [what : {"owner"}, old : Owned, new : Owned]
Change == [what : {"signal"}, from : Conns, items : Changes]
Reply == [what : {"reply"}, task : Tasks, body : Body]
Message == Announcement \union Change \union Reply
Place == [task : Tasks, hops : Nat]

Queues ==
    /\ outq \in Seq(Request) /\ calls \in Seq(Request)
    /\ inbox \in Seq(Message) /\ ready \in Seq(Place)

Service ==
    /\ owner \in Owned /\ lives \in 0..MaxLives /\ wrote \in Nat
    /\ vals \in [Paths -> Nat] /\ closing \in BOOLEAN
    /\ rules \in Nat /\ (calls # <<>> => owner # NoOne)

Known ==
    /\ tasks \in [Tasks -> Task]
    /\ cache \in [Conns -> [Paths -> [value : Nat, seen : BOOLEAN]]]
    /\ services \subseteq Owned /\ byName \in Owned \union {Pending}
    /\ waiter \in {"none", "waiting", "answered", "lost"}
    /\ fetched \subseteq Paths /\ missed \subseteq Paths /\ hasty \in BOOLEAN

BusTypes == Queues /\ Service /\ Known

-----------------------------------------------------------------------------
(* A task has at most one token: a message on its way, or its place in the *)
(* event loop's queue.                                                     *)

Holders(q) == {q[i].task : i \in DOMAIN q}
Single(q) == \A i, k \in DOMAIN q : q[i].task = q[k].task => i = k

Replies(q) == {i \in DOMAIN q : q[i].what = "reply"}
Answered(q) == {q[i].task : i \in Replies(q)}
SingleReply(q) == \A i, k \in Replies(q) : q[i].task = q[k].task => i = k

Once ==
    /\ Single(outq) /\ Single(calls) /\ Single(ready) /\ SingleReply(inbox)
    /\ Holders(outq) \cap Holders(calls) = {} /\ Holders(outq) \cap Holders(ready) = {}
    /\ Holders(calls) \cap Holders(ready) = {}
    /\ Answered(inbox) \cap Holders(outq) = {} /\ Answered(inbox) \cap Holders(calls) = {}
    /\ Answered(inbox) \cap Holders(ready) = {}

\* What a task sends before it awaits, what it is answered there.
Asks(pc, what) ==
    \/ pc = "names" /\ what = "names"
    \/ pc = "whose" /\ what = "owner"
    \/ pc = "matching" /\ what = "match"
    \/ pc \in {"removing", "undoing"} /\ what = "unmatch"
    \/ pc = "scanning" /\ what = "items"
    \/ pc = "getting" /\ what = "get"
    \/ pc = "setting" /\ what = "set"

Fits(pc, body) ==
    \/ pc \in {"names", "whose"} /\ \E c \in Owned : body = Found(c)
    \/ pc \in Gathers /\ body = <<>>
    \/ pc \in {"scanning", "getting", "setting"} /\ body = Error
    \/ pc = "scanning" /\ \E f \in [Paths -> Nat] : body = Items(f)
    \/ pc \in {"getting", "setting"} /\ \E f \in Changes : body = Items(f)

Wire ==
    /\ \A i \in DOMAIN outq : Asks(tasks[outq[i].task].pc, outq[i].what)
    /\ \A i \in DOMAIN calls : /\ Asks(tasks[calls[i].task].pc, calls[i].what)
                               /\ calls[i].what \in {"items", "get", "set"}
    /\ \A i \in Replies(inbox) : Fits(tasks[inbox[i].task].pc, inbox[i].body)
    /\ \A i \in DOMAIN ready : \/ tasks[ready[i].task].pc \in Running
                               \/ Fits(tasks[ready[i].task].pc, tasks[ready[i].task].body)

-----------------------------------------------------------------------------
(* A signal is newer than what was sent, taken or cached before it.        *)

Held(body) == IF \E f \in Changes : body = Items(f) THEN {body[2][p] : p \in DOMAIN body[2]} ELSE {}
Carried(m) == IF m.what = "signal" THEN {m.items[p] : p \in DOMAIN m.items}
              ELSE IF m.what = "reply" THEN Held(m.body) ELSE {}

Rising(q) == \A i, k \in DOMAIN q : i < k /\ q[k].what = "signal" =>
               \A v \in Carried(q[i]), w \in Carried(q[k]) : v < w
UpTo(q, n) == \A i \in DOMAIN q : \A v \in Carried(q[i]) : v <= n
Beyond(q, V) == \A k \in DOMAIN q : q[k].what = "signal" =>
                  \A v \in V, w \in Carried(q[k]) : v < w

Cached == {cache[c][p].value : c \in Conns, p \in Paths}
Taken == UNION {Held(tasks[t].body) : t \in Tasks}

Fresh ==
    /\ Rising(inbox) /\ UpTo(inbox, wrote)
    /\ Beyond(inbox, Cached) /\ Beyond(inbox, Taken)
    /\ \A v \in Cached \union Taken : v <= wrote
    /\ \A p \in Paths : vals[p] <= wrote
    /\ \A c \in Conns, p \in Paths : ~cache[c][p].seen => cache[c][p].value = 0

BusInv == BusTypes /\ Once /\ Wire /\ Fresh

-----------------------------------------------------------------------------
(* Lemmas about the queues.                                                *)

LEMMA TailOf ==
    ASSUME NEW S, NEW q \in Seq(S), q # <<>>
    PROVE  /\ Tail(q) \in Seq(S) /\ Head(q) \in S /\ Head(q) = q[1] /\ Len(q) \in Nat \ {0}
           /\ 1 \in DOMAIN q /\ DOMAIN Tail(q) = 1..(Len(q) - 1)
           /\ \A i \in DOMAIN Tail(q) : i + 1 \in DOMAIN q /\ Tail(q)[i] = q[i + 1]
           /\ \A k \in DOMAIN q : k # 1 => k - 1 \in DOMAIN Tail(q) /\ Tail(q)[k - 1] = q[k]
OBVIOUS

LEMMA EndOf ==
    ASSUME NEW S, NEW q \in Seq(S), NEW m \in S
    PROVE  /\ Append(q, m) \in Seq(S) /\ Len(q) \in Nat
           /\ DOMAIN q = 1..Len(q) /\ DOMAIN Append(q, m) = 1..(Len(q) + 1)
           /\ \A i \in DOMAIN q : Append(q, m)[i] = q[i]
           /\ Append(q, m)[Len(q) + 1] = m
OBVIOUS

LEMMA SingleTail ==
    ASSUME NEW S, NEW q \in Seq(S), q # <<>>, Single(q)
    PROVE  Single(Tail(q)) /\ Holders(Tail(q)) = Holders(q) \ {Head(q).task}
           /\ Head(q).task \in Holders(q)
<1>1. Single(Tail(q))
  <2>1. ASSUME NEW i \in DOMAIN Tail(q), NEW k \in DOMAIN Tail(q), Tail(q)[i].task = Tail(q)[k].task
        PROVE  i = k
    <3>1. i + 1 \in DOMAIN q /\ k + 1 \in DOMAIN q /\ q[i + 1].task = q[k + 1].task
          /\ i \in Int /\ k \in Int
      BY <2>1, TailOf
    <3> QED
      BY <3>1 DEF Single
  <2> QED
    BY <2>1 DEF Single
<1>2. Holders(Tail(q)) \subseteq Holders(q) \ {Head(q).task}
  <2>1. ASSUME NEW i \in DOMAIN Tail(q) PROVE Tail(q)[i].task \in Holders(q) \ {Head(q).task}
    <3>1. i + 1 \in DOMAIN q /\ Tail(q)[i] = q[i + 1] /\ i \in Nat \ {0}
          /\ 1 \in DOMAIN q /\ Head(q) = q[1]
      BY TailOf
    <3>2. q[i + 1].task # q[1].task
      BY <3>1 DEF Single
    <3> QED
      BY <3>1, <3>2 DEF Holders
  <2> QED
    BY <2>1 DEF Holders
<1>3. Holders(q) \ {Head(q).task} \subseteq Holders(Tail(q))
  <2>1. ASSUME NEW k \in DOMAIN q, q[k].task # Head(q).task PROVE q[k].task \in Holders(Tail(q))
    <3>1. k # 1
      BY <2>1, TailOf
    <3>2. k - 1 \in DOMAIN Tail(q) /\ Tail(q)[k - 1] = q[k]
      BY <3>1, TailOf
    <3> QED
      BY <3>2 DEF Holders
  <2> QED
    BY <2>1 DEF Holders
<1>4. Head(q).task \in Holders(q)
  <2>1. 1 \in DOMAIN q /\ Head(q) = q[1]
    BY TailOf
  <2> QED
    BY <2>1 DEF Holders
<1> QED
  BY <1>1, <1>2, <1>3, <1>4

LEMMA SingleAppend ==
    ASSUME NEW S, NEW q \in Seq(S), NEW m \in S, Single(q), m.task \notin Holders(q)
    PROVE  Single(Append(q, m)) /\ Holders(Append(q, m)) = Holders(q) \union {m.task}
<1>1. Single(Append(q, m))
  BY EndOf DEF Single, Holders
<1>2. Holders(Append(q, m)) = Holders(q) \union {m.task}
  BY EndOf DEF Holders
<1> QED
  BY <1>1, <1>2

LEMMA ReplyTail ==
    ASSUME NEW S, NEW q \in Seq(S), q # <<>>, SingleReply(q)
    PROVE  /\ SingleReply(Tail(q)) /\ Answered(Tail(q)) \subseteq Answered(q)
           /\ Head(q).what = "reply" => /\ Head(q).task \in Answered(q)
                                        /\ Head(q).task \notin Answered(Tail(q))
<1>1. \A i \in Replies(Tail(q)) : i + 1 \in Replies(q) /\ Tail(q)[i] = q[i + 1] /\ i \in Nat \ {0}
  BY TailOf DEF Replies
<1>2. SingleReply(Tail(q))
  <2>1. ASSUME NEW i \in Replies(Tail(q)), NEW k \in Replies(Tail(q)),
               Tail(q)[i].task = Tail(q)[k].task
        PROVE  i = k
    <3>1. i + 1 \in Replies(q) /\ k + 1 \in Replies(q) /\ q[i + 1].task = q[k + 1].task
      BY <1>1, <2>1
    <3>2. i + 1 = k + 1
      BY <3>1 DEF SingleReply
    <3> QED
      BY <1>1, <3>2
  <2> QED
    BY <2>1 DEF SingleReply
<1>3. Answered(Tail(q)) \subseteq Answered(q)
  BY <1>1 DEF Answered
<1>4. ASSUME Head(q).what = "reply"
      PROVE  Head(q).task \in Answered(q) /\ Head(q).task \notin Answered(Tail(q))
  <2>1. 1 \in Replies(q) /\ q[1] = Head(q)
    BY <1>4, TailOf DEF Replies
  <2>2. ASSUME NEW i \in Replies(Tail(q)) PROVE Tail(q)[i].task # Head(q).task
    <3>1. i + 1 \in Replies(q) /\ Tail(q)[i] = q[i + 1] /\ i \in Nat \ {0}
      BY <1>1
    <3>2. i + 1 # 1
      BY <3>1
    <3>3. q[i + 1].task # q[1].task
      BY <2>1, <3>1, <3>2 DEF SingleReply
    <3> QED
      BY <2>1, <3>1, <3>3
  <2> QED
    BY <2>1, <2>2 DEF Answered
<1> QED
  BY <1>2, <1>3, <1>4

LEMMA ReplyAppend ==
    ASSUME NEW S, NEW q \in Seq(S), NEW m \in S, SingleReply(q),
           m.what = "reply" => m.task \notin Answered(q)
    PROVE  /\ SingleReply(Append(q, m))
           /\ Answered(Append(q, m)) = Answered(q) \union (IF m.what = "reply" THEN {m.task} ELSE {})
<1>1. /\ \A i \in Replies(q) : i \in Replies(Append(q, m)) /\ Append(q, m)[i] = q[i]
      /\ \A i \in Replies(Append(q, m)) : \/ i \in Replies(q) /\ Append(q, m)[i] = q[i]
                                          \/ i = Len(q) + 1 /\ Append(q, m)[i] = m /\ m.what = "reply"
      /\ m.what = "reply" => Len(q) + 1 \in Replies(Append(q, m)) /\ Append(q, m)[Len(q) + 1] = m
  BY EndOf DEF Replies
<1>2. SingleReply(Append(q, m))
  <2>1. ASSUME NEW i \in Replies(Append(q, m)), NEW k \in Replies(Append(q, m)),
               Append(q, m)[i].task = Append(q, m)[k].task
        PROVE  i = k
    <3>1. CASE i \in Replies(q) /\ k \in Replies(q)
      <4>1. q[i].task = q[k].task
        BY <1>1, <2>1, <3>1
      <4> QED
        BY <3>1, <4>1 DEF SingleReply
    <3>2. \A j \in Replies(q) : q[j].task \in Answered(q)
      BY DEF Answered
    <3> QED
      BY <1>1, <2>1, <3>1, <3>2
  <2> QED
    BY <2>1 DEF SingleReply
<1>3. Answered(Append(q, m)) = Answered(q) \union (IF m.what = "reply" THEN {m.task} ELSE {})
  BY <1>1 DEF Answered
<1> QED
  BY <1>2, <1>3

LEMMA Shapes ==
    /\ \A m \in Message :
         /\ m.what \in {"owner", "signal", "reply"}
         /\ m.what = "owner" => m.old \in Owned /\ m.new \in Owned
         /\ m.what = "signal" => m.from \in Conns /\ m.items \in Changes
         /\ m.what = "reply" => m.task \in Tasks /\ m.body \in Body
    /\ \A m \in Request :
         /\ m.task \in Tasks
         /\ m.what \in {"names", "owner", "match", "unmatch", "items", "get", "set"}
         /\ m.what \in {"get", "set"} => m.path \in Paths
BY DEF Message, Announcement, Change, Reply, Request

LEMMA Made ==
    /\ \A old, new \in Owned : Owners(old, new) \in Message
    /\ \A t \in Tasks, body \in Body : Answer(t, body) \in Message
    /\ \A c \in Conns, items \in Changes :
         [what |-> "signal", from |-> c, items |-> items] \in Message
    /\ \A t \in Tasks, hops \in Nat : Schedule(t, hops) \in Place
BY DEF Message, Announcement, Change, Reply, Place, Owners, Answer, Schedule

LEMMA HeldNumbers ==
    /\ Held(<<>>) = {} /\ Held(Error) = {} /\ \A c \in Owned : Held(Found(c)) = {}
    /\ \A f \in Changes : Held(Items(f)) = {f[p] : p \in DOMAIN f}
    /\ \A body \in Body : Held(body) \subseteq Nat
    /\ \A m \in Message : Carried(m) \subseteq Nat
<1>1. Held(<<>>) = {} /\ Held(Error) = {} /\ \A c \in Owned : Held(Found(c)) = {}
  BY DEF Held, Items, Error, Found
<1>2. ASSUME NEW f \in Changes PROVE Held(Items(f)) = {f[p] : p \in DOMAIN f}
  BY DEF Held, Items
<1>3. ASSUME NEW f \in Changes PROVE {f[p] : p \in DOMAIN f} \subseteq Nat
  BY DEF Changes
<1>4. ASSUME NEW body \in Body PROVE Held(body) \subseteq Nat
  BY <1>1, <1>2, <1>3 DEF Body
<1>5. ASSUME NEW m \in Message PROVE Carried(m) \subseteq Nat
  BY <1>3, <1>4, Shapes DEF Carried
<1> QED
  BY <1>1, <1>2, <1>4, <1>5

LEMMA FreshTail ==
    ASSUME NEW q \in Seq(Message), q # <<>>, NEW n \in Nat, Rising(q), UpTo(q, n)
    PROVE  /\ Rising(Tail(q)) /\ UpTo(Tail(q), n)
           /\ \A v \in Carried(Head(q)) : v <= n
           /\ Beyond(Tail(q), Carried(Head(q)))
           /\ \A V : Beyond(q, V) => Beyond(Tail(q), V)
<1>1. /\ 1 \in DOMAIN q /\ Head(q) = q[1]
      /\ \A i \in DOMAIN Tail(q) : i + 1 \in DOMAIN q /\ Tail(q)[i] = q[i + 1] /\ i \in Nat \ {0}
  BY TailOf
<1>2. \A i, k \in Nat \ {0} : (i < k => i + 1 < k + 1) /\ 1 < i + 1
  OBVIOUS
<1>3. Rising(Tail(q))
  BY <1>1, <1>2 DEF Rising
<1>4. UpTo(Tail(q), n) /\ \A v \in Carried(Head(q)) : v <= n
  BY <1>1 DEF UpTo
<1>5. Beyond(Tail(q), Carried(Head(q)))
  BY <1>1, <1>2 DEF Beyond, Rising
<1>6. \A V : Beyond(q, V) => Beyond(Tail(q), V)
  BY <1>1 DEF Beyond
<1> QED
  BY <1>3, <1>4, <1>5, <1>6

LEMMA FreshAppend ==
    ASSUME NEW q \in Seq(Message), NEW m \in Message, NEW n \in Nat, NEW n2 \in Nat,
           Rising(q), UpTo(q, n), n <= n2, \A v \in Carried(m) : v <= n2,
           m.what = "signal" => \A v \in Carried(m) : v > n
    PROVE  /\ Rising(Append(q, m)) /\ UpTo(Append(q, m), n2)
           /\ \A V \in SUBSET Nat : Beyond(q, V) /\ (\A v \in V : v <= n) => Beyond(Append(q, m), V)
<1>1. /\ Append(q, m) \in Seq(Message) /\ Append(q, m)[Len(q) + 1] = m
      /\ \A i \in DOMAIN Append(q, m) : \/ i \in DOMAIN q /\ Append(q, m)[i] = q[i]
                                        \/ i = Len(q) + 1 /\ Append(q, m)[i] = m
      /\ \A i \in DOMAIN q : i < Len(q) + 1
      /\ \A i \in DOMAIN q : q[i] \in Message
  BY EndOf
<1>2. /\ \A i \in DOMAIN q : Carried(q[i]) \subseteq Nat
      /\ Carried(m) \subseteq Nat
  BY <1>1, HeldNumbers
<1>3. UpTo(Append(q, m), n2)
  <2>1. ASSUME NEW i \in DOMAIN q, NEW v \in Carried(q[i]) PROVE v <= n2
    <3>1. v <= n /\ v \in Nat
      BY <1>2 DEF UpTo
    <3> QED
      BY <3>1
  <2> QED
    BY <1>1, <2>1 DEF UpTo
<1>4. Rising(Append(q, m))
  <2> SUFFICES ASSUME NEW i \in DOMAIN Append(q, m), NEW k \in DOMAIN Append(q, m),
                      i < k, Append(q, m)[k].what = "signal",
                      NEW v \in Carried(Append(q, m)[i]), NEW w \in Carried(Append(q, m)[k])
               PROVE  v < w
    BY DEF Rising
  <2>1. i \in DOMAIN q /\ Append(q, m)[i] = q[i]
    <3>1. i < Len(q) + 1 /\ i \in Nat \ {0} /\ Len(q) \in Nat
      BY EndOf
    <3> QED
      BY <1>1, <3>1
  <2>2. CASE k \in DOMAIN q /\ Append(q, m)[k] = q[k]
    BY <2>1, <2>2 DEF Rising
  <2>3. CASE Append(q, m)[k] = m
    <3>1. v <= n /\ w > n
      BY <2>1, <2>3 DEF UpTo
    <3>2. v \in Nat /\ w \in Nat
      BY <1>2, <2>1, <2>3
    <3> QED
      BY <3>1, <3>2
  <2> QED
    BY <1>1, <2>2, <2>3
<1>5. ASSUME NEW V \in SUBSET Nat, Beyond(q, V), \A v \in V : v <= n
      PROVE  Beyond(Append(q, m), V)
  <2>1. ASSUME m.what = "signal", NEW v \in V, NEW w \in Carried(m) PROVE v < w
    <3>1. v <= n /\ w > n /\ v \in Nat /\ w \in Nat
      BY <1>2, <1>5, <2>1
    <3> QED
      BY <3>1
  <2> QED
    BY <1>1, <1>5, <2>1 DEF Beyond
<1> QED
  BY <1>3, <1>4, <1>5

-----------------------------------------------------------------------------
(* The steps of the tasks.  One that runs has its place at the head of the   *)
(* queue and no other token; it leaves one behind or none.                   *)

Ran(t, x) ==
    /\ ready # <<>> /\ Head(ready) = Schedule(t, 0)
    /\ x \in Task /\ x.body \in {<<>>, tasks[t].body}
    /\ tasks' = [tasks EXCEPT ![t] = x]
    /\ \/ ready' = Tail(ready) /\ outq' = outq
       \/ ready' = Append(Tail(ready), Schedule(t, 0)) /\ outq' = outq /\ x.pc \in Running
       \/ /\ ready' = Tail(ready)
          /\ \E m \in Request : m.task = t /\ Asks(x.pc, m.what) /\ outq' = Append(outq, m)
    /\ UNCHANGED <<inbox, calls>>

LEMMA RunStep ==
    ASSUME BusTypes, Once, Wire, NEW t \in Tasks, NEW x, Ran(t, x)
    PROVE  /\ Queues' /\ tasks' \in [Tasks -> Task] /\ Once' /\ Wire'
           /\ Taken' \subseteq Taken
<1>1. /\ ready \in Seq(Place) /\ ready # <<>> /\ Tail(ready) \in Seq(Place) /\ outq \in Seq(Request)
      /\ Head(ready).task = t /\ tasks \in [Tasks -> Task] /\ Schedule(t, 0) \in Place
      /\ Schedule(t, 0).task = t
  BY TailOf, Made DEF BusTypes, Queues, Known, Ran, Schedule
<1>2. /\ t \notin Holders(outq) /\ t \notin Holders(calls) /\ t \notin Answered(inbox)
      /\ Single(Tail(ready)) /\ Holders(Tail(ready)) = Holders(ready) \ {t}
  BY <1>1, SingleTail DEF Once
<1>3. /\ tasks' \in [Tasks -> Task] /\ tasks'[t] = x
      /\ \A u \in Tasks : u # t => tasks'[u] = tasks[u]
  BY <1>1 DEF Ran
<1>4. \A u \in Holders(outq) \union Holders(calls) \union Answered(inbox) \union Holders(Tail(ready)) :
        u \in Tasks /\ u # t
  <2>1. \A i \in DOMAIN outq : outq[i].task \in Tasks
    BY <1>1, Shapes
  <2>2. \A i \in DOMAIN calls : calls[i].task \in Tasks
    BY Shapes DEF BusTypes, Queues
  <2>3. \A i \in Replies(inbox) : inbox[i].task \in Tasks
    BY Shapes DEF BusTypes, Queues, Replies
  <2>4. \A i \in DOMAIN Tail(ready) : Tail(ready)[i].task \in Tasks
    <3>1. \A i \in DOMAIN Tail(ready) : Tail(ready)[i] \in Place
      BY <1>1
    <3> QED
      BY <3>1 DEF Place
  <2> QED
    BY <1>2, <2>1, <2>2, <2>3, <2>4 DEF Holders, Answered
<1>5. Taken' \subseteq Taken
  <2>1. ASSUME NEW u \in Tasks PROVE Held(tasks'[u].body) \subseteq Held(tasks[u].body)
    BY <1>3, HeldNumbers DEF Ran
  <2> QED
    BY <2>1 DEF Taken
\* The tokens of the other tasks.
<1>6. /\ \A i \in DOMAIN outq : Asks(tasks'[outq[i].task].pc, outq[i].what)
      /\ \A i \in DOMAIN calls : /\ Asks(tasks'[calls[i].task].pc, calls[i].what)
                                 /\ calls[i].what \in {"items", "get", "set"}
      /\ \A i \in Replies(inbox) : Fits(tasks'[inbox[i].task].pc, inbox[i].body)
  <2>1. \A i \in DOMAIN outq : Asks(tasks'[outq[i].task].pc, outq[i].what)
    BY <1>3, <1>4 DEF Wire, Holders
  <2>2. \A i \in DOMAIN calls : /\ Asks(tasks'[calls[i].task].pc, calls[i].what)
                                /\ calls[i].what \in {"items", "get", "set"}
    BY <1>3, <1>4 DEF Wire, Holders
  <2>3. \A i \in Replies(inbox) : Fits(tasks'[inbox[i].task].pc, inbox[i].body)
    BY <1>3, <1>4 DEF Wire, Answered
  <2> QED
    BY <2>1, <2>2, <2>3
<1>7. \A i \in DOMAIN Tail(ready) :
        \/ tasks'[Tail(ready)[i].task].pc \in Running
        \/ Fits(tasks'[Tail(ready)[i].task].pc, tasks'[Tail(ready)[i].task].body)
  BY <1>1, <1>3, <1>4, TailOf DEF Wire, Holders
<1>8. inbox' = inbox /\ calls' = calls
  BY DEF Ran
<1>9. CASE ready' = Tail(ready) /\ outq' = outq
  <2>1. Queues'
    BY <1>1, <1>8, <1>9 DEF Queues, BusTypes
  <2>2. Once'
    BY <1>2, <1>8, <1>9 DEF Once
  <2>3. Wire'
    BY <1>6, <1>7, <1>8, <1>9 DEF Wire
  <2> QED
    BY <1>3, <1>5, <2>1, <2>2, <2>3
<1>10. CASE ready' = Append(Tail(ready), Schedule(t, 0)) /\ outq' = outq /\ x.pc \in Running
  <2>1. Queues'
    BY <1>1, <1>8, <1>10, EndOf DEF Queues, BusTypes
  <2>2. Single(ready') /\ Holders(ready') = (Holders(ready) \ {t}) \union {t}
    <3>1. /\ Schedule(t, 0).task \notin Holders(Tail(ready)) /\ Schedule(t, 0) \in Place
          /\ Tail(ready) \in Seq(Place) /\ Single(Tail(ready))
      BY <1>1, <1>2
    <3>2. Single(ready') /\ Holders(ready') = Holders(Tail(ready)) \union {Schedule(t, 0).task}
      BY ONLY <1>10, <3>1, SingleAppend
    <3> QED
      BY <1>1, <1>2, <3>2
  <2>3. Once'
    <3>1. Holders(ready') \subseteq Holders(ready) \union {t}
      BY <2>2
    <3> QED
      BY <1>2, <1>8, <1>10, <2>2, <3>1 DEF Once
  <2>4. Wire'
    <3>1. \A i \in DOMAIN ready' : \/ tasks'[ready'[i].task].pc \in Running
                                  \/ Fits(tasks'[ready'[i].task].pc, tasks'[ready'[i].task].body)
      BY <1>1, <1>3, <1>7, <1>10, EndOf
    <3> QED
      BY <1>6, <1>8, <1>10, <3>1 DEF Wire
  <2> QED
    BY <1>3, <1>5, <2>1, <2>3, <2>4
<1>11. CASE /\ ready' = Tail(ready)
            /\ \E m \in Request : m.task = t /\ Asks(x.pc, m.what) /\ outq' = Append(outq, m)
  <2>1. PICK m \in Request : m.task = t /\ Asks(x.pc, m.what) /\ outq' = Append(outq, m)
    BY <1>11
  <2>2. Queues'
    BY <1>1, <1>8, <1>11, <2>1, EndOf DEF Queues, BusTypes
  <2>3. Single(outq') /\ Holders(outq') = Holders(outq) \union {t}
    BY <1>1, <1>2, <2>1, SingleAppend DEF Once
  <2>4. Once'
    BY <1>2, <1>8, <1>11, <2>3 DEF Once
  <2>5. Wire'
    <3>1. \A i \in DOMAIN outq' : Asks(tasks'[outq'[i].task].pc, outq'[i].what)
      BY <1>1, <1>3, <1>6, <2>1, EndOf
    <3> QED
      BY <1>6, <1>7, <1>8, <1>11, <3>1 DEF Wire
  <2> QED
    BY <1>3, <1>5, <2>2, <2>4, <2>5
<1> QED
  BY <1>9, <1>10, <1>11 DEF Ran

At(t, pc) == [tasks[t] EXCEPT !.pc = pc, !.body = <<>>]

LEMMA Going ==
    ASSUME BusTypes, NEW t \in Tasks, NEW from, Runs(t, from), NEW pc \in Pcs,
           UNCHANGED <<inbox, calls>>
    PROVE  /\ Goes(t, pc) /\ outq' = outq => Ran(t, At(t, pc))
           /\ \A what \in {"names", "owner", "match", "unmatch", "items"} :
                Goes(t, pc) /\ Send(t, what) /\ Asks(pc, what) => Ran(t, At(t, pc))
           /\ GoesOn(t, pc) /\ outq' = outq /\ pc \in Running => Ran(t, At(t, pc))
<1>1. tasks \in [Tasks -> Task] /\ tasks[t] \in Task
  BY DEF BusTypes, Known
<1>2. /\ At(t, pc) \in Task /\ At(t, pc).body = <<>> /\ At(t, pc).pc = pc
      /\ At(t, pc).conn = tasks[t].conn
  BY <1>1 DEF At, Task, Body
<1>3. [tasks EXCEPT ![t].pc = pc, ![t].body = <<>>] = [tasks EXCEPT ![t] = At(t, pc)]
  BY <1>1 DEF At, Task
<1>4. ready # <<>> /\ Head(ready) = Schedule(t, 0)
  BY DEF Runs
<1>5. ASSUME Goes(t, pc), outq' = outq PROVE Ran(t, At(t, pc))
  BY <1>2, <1>3, <1>4, <1>5 DEF Ran, Goes
<1>6. ASSUME NEW what \in {"names", "owner", "match", "unmatch", "items"},
             Goes(t, pc), Send(t, what), Asks(pc, what)
      PROVE  Ran(t, At(t, pc))
  <2> DEFINE m == [what |-> what, task |-> t]
  <2>1. m \in Request /\ m.task = t /\ m.what = what
    BY <1>6 DEF Request
  <2>2. outq' = Append(outq, m)
    BY <1>6 DEF Send
  <2> HIDE DEF m
  <2>3. \E n \in Request : n.task = t /\ Asks(At(t, pc).pc, n.what) /\ outq' = Append(outq, n)
    BY <1>2, <1>6, <2>1, <2>2
  <2> QED
    BY <1>2, <1>3, <1>4, <1>6, <2>3 DEF Ran, Goes
<1>7. ASSUME GoesOn(t, pc), outq' = outq, pc \in Running PROVE Ran(t, At(t, pc))
  BY <1>2, <1>3, <1>4, <1>7 DEF Ran, GoesOn
<1> QED
  BY <1>5, <1>6, <1>7

LEMMA FreshKept ==
    ASSUME Fresh, Taken' \subseteq Taken, UNCHANGED <<inbox, wrote, vals, cache>>
    PROVE  Fresh'
<1>1. Cached' = Cached
  BY DEF Cached
<1>2. Beyond(inbox, Taken')
  BY DEF Fresh, Beyond
<1>3. \A v \in Cached \union Taken' : v <= wrote
  BY DEF Fresh
<1> QED
  BY <1>1, <1>2, <1>3 DEF Fresh

LEMMA TakenFits ==
    ASSUME BusTypes, Wire, NEW t \in Tasks, NEW pc, Runs(t, pc), pc \notin Running
    PROVE  Fits(pc, tasks[t].body)
<1>1. 1 \in DOMAIN ready /\ ready[1].task = t /\ tasks[t].pc = pc
  BY TailOf DEF BusTypes, Queues, Runs, Schedule
<1> QED
  BY <1>1 DEF Wire

LEMMA TaskKeeps ==
    ASSUME BusInv, NEW t \in Tasks, NEW x, Ran(t, x),
           UNCHANGED <<publisher, rules, cache, history>>,
           services' \subseteq Owned, byName' \in Owned \union {Pending},
           waiter' \in {"none", "waiting", "answered", "lost"}
    PROVE  BusInv'
<1>1. Queues' /\ tasks' \in [Tasks -> Task] /\ Once' /\ Wire' /\ Taken' \subseteq Taken
  BY RunStep DEF BusInv
<1>2. Service'
  BY DEF BusInv, BusTypes, Service, publisher, Ran
<1>3. Known'
  BY <1>1 DEF BusInv, BusTypes, Known, history
<1>4. Fresh'
  BY <1>1, FreshKept DEF BusInv, publisher, Ran
<1> QED
  BY <1>1, <1>2, <1>3, <1>4 DEF BusInv, BusTypes

LEMMA ListSteps ==
    ASSUME BusInv, NEW t \in Tasks, ListServices(t)
    PROVE  BusInv'
<1>1. /\ UNCHANGED <<inbox, calls>> /\ UNCHANGED <<publisher, rules, cache, history>>
      /\ services' \subseteq Owned /\ byName' \in Owned \union {Pending}
      /\ waiter' \in {"none", "waiting", "answered", "lost"} /\ BusTypes /\ Wire
  BY DEF ListServices, daemon, monitor, BusInv, BusTypes, Known
<1>2. CASE Runs(t, "names") /\ Send(t, "owner") /\ Goes(t, "whose")
  <2>1. Ran(t, At(t, "whose"))
    BY <1>1, <1>2, Going DEF Asks, Pcs, Asking
  <2> QED
    BY <1>1, <2>1, TaskKeeps
<1>3. CASE Runs(t, "names") /\ Goes(t, "done") /\ outq' = outq
  <2>1. Ran(t, At(t, "done"))
    BY <1>1, <1>3, Going DEF Pcs
  <2> QED
    BY <1>1, <2>1, TaskKeeps
<1>4. CASE Runs(t, "whose") /\ Goes(t, "done") /\ outq' = outq
  <2>1. Ran(t, At(t, "done"))
    BY <1>1, <1>4, Going DEF Pcs
  <2> QED
    BY <1>1, <2>1, TaskKeeps
<1>5. CASE /\ Runs(t, "whose")
           /\ tasks' = [tasks EXCEPT ![t] = [NoTask EXCEPT !.pc = "add", !.conn = tasks[t].body[2]]]
           /\ ready' = Append(Tail(ready), Schedule(t, 0)) /\ outq' = outq
  <2> DEFINE x == [NoTask EXCEPT !.pc = "add", !.conn = tasks[t].body[2]]
  <2>1. Fits("whose", tasks[t].body)
    BY <1>1, <1>5, TakenFits DEF Running
  <2>2. tasks[t].body[2] \in Owned
    BY <2>1 DEF Fits, Found, Gathers
  <2>3. x \in Task /\ x.body = <<>> /\ x.pc = "add"
    BY <2>2 DEF NoTask, Task, Body, Pcs, Running
  <2>4. Ran(t, x)
    BY <1>1, <1>5, <2>3 DEF Ran, Running, Runs
  <2> HIDE DEF x
  <2> QED
    BY <1>1, <2>4, TaskKeeps
<1> QED
  BY <1>2, <1>3, <1>4, <1>5 DEF ListServices

LEMMA ServiceSteps ==
    ASSUME BusInv, NEW t \in Tasks,
           AddService(t) \/ SendMatches(t) \/ Scan(t) \/ RemoveService(t) \/ Removed(t)
    PROVE  BusInv'
<1>1. /\ services \subseteq Owned /\ byName \in Owned \union {Pending} /\ BusTypes /\ Wire
      /\ waiter \in {"none", "waiting", "answered", "lost"} /\ tasks[t].conn \in Owned
  BY DEF BusInv, BusTypes, Known, Task
<1>2. CASE AddService(t)
  <2>1. UNCHANGED <<inbox, calls>> /\ outq' = outq /\ UNCHANGED <<publisher, rules, cache, history>>
        /\ services' = services \union {tasks[t].conn} /\ UNCHANGED <<byName, waiter>>
        /\ Runs(t, "add")
    BY <1>2 DEF AddService, daemon
  <2>2. Goes(t, "done") \/ GoesOn(t, "match")
    BY <1>2 DEF AddService
  <2>3. Ran(t, At(t, "done")) \/ Ran(t, At(t, "match"))
    BY <1>1, <2>1, <2>2, Going DEF Pcs, Running
  <2> QED
    BY <1>1, <2>1, <2>3, TaskKeeps
<1>3. CASE SendMatches(t)
  <2>1. UNCHANGED <<inbox, calls>> /\ UNCHANGED <<publisher, rules, cache, history>>
        /\ UNCHANGED <<services, byName, waiter>>
    BY <1>3 DEF SendMatches, daemon, monitor
  <2>2. \/ Runs(t, "match") /\ Send(t, "match") /\ Goes(t, "matching")
        \/ Runs(t, "unmatch") /\ Send(t, "unmatch") /\ Goes(t, "removing")
        \/ Runs(t, "undo") /\ Send(t, "unmatch") /\ Goes(t, "undoing")
    BY <1>3 DEF SendMatches
  <2>3. \E pc \in Pcs : Ran(t, At(t, pc))
    BY <1>1, <2>1, <2>2, Going DEF Pcs, Asking, Asks
  <2> QED
    BY <1>1, <2>1, <2>3, TaskKeeps
<1>4. CASE Scan(t)
  <2>1. UNCHANGED <<inbox, calls>> /\ UNCHANGED <<publisher, rules, cache, history>>
        /\ UNCHANGED <<services, byName, waiter>>
        /\ Runs(t, "matching") /\ Send(t, "items") /\ Goes(t, "scanning")
    BY <1>4 DEF Scan, daemon, monitor
  <2>2. Ran(t, At(t, "scanning"))
    BY <1>1, <2>1, Going DEF Pcs, Asking, Asks
  <2> QED
    BY <1>1, <2>1, <2>2, TaskKeeps
<1>5. CASE RemoveService(t)
  <2>1. UNCHANGED <<inbox, calls>> /\ outq' = outq /\ UNCHANGED <<publisher, rules, cache, history>>
        /\ UNCHANGED <<services, byName, waiter>> /\ Runs(t, "remove")
    BY <1>5 DEF RemoveService, daemon, monitor
  <2>2. Goes(t, "done") \/ GoesOn(t, "unmatch")
    BY <1>5 DEF RemoveService
  <2>3. Ran(t, At(t, "done")) \/ Ran(t, At(t, "unmatch"))
    BY <1>1, <2>1, <2>2, Going DEF Pcs, Running
  <2> QED
    BY <1>1, <2>1, <2>3, TaskKeeps
<1>6. CASE Removed(t)
  <2>1. UNCHANGED <<inbox, calls>> /\ outq' = outq /\ UNCHANGED <<publisher, rules, cache, history>>
        /\ services' = services \ {tasks[t].conn} /\ Runs(t, "removing") /\ Goes(t, "done")
    BY <1>6 DEF Removed, daemon
  <2>2. byName' = Absent /\ waiter' \in {waiter, "lost"}
    BY <1>6 DEF Removed, ForgetName
  <2>3. Ran(t, At(t, "done"))
    BY <1>1, <2>1, Going DEF Pcs
  <2> QED
    BY <1>1, <2>1, <2>2, <2>3, TaskKeeps DEF Absent, Owned
<1> QED
  BY <1>2, <1>3, <1>4, <1>5, <1>6

LEMMA FreshCache ==
    ASSUME Fresh, BusTypes, BusTypes', Taken' \subseteq Taken, UNCHANGED <<inbox, wrote, vals>>,
           Cached' \subseteq Cached \union Taken,
           \A c \in Conns, p \in Paths : ~cache'[c][p].seen => cache'[c][p].value = 0
    PROVE  Fresh'
<1>1. Beyond(inbox, Taken') /\ Beyond(inbox, Cached')
  BY DEF Fresh, Beyond
<1>2. \A v \in Cached' \union Taken' : v <= wrote
  BY DEF Fresh
<1> QED
  BY <1>1, <1>2 DEF Fresh

LEMMA CacheUpdated ==
    ASSUME cache \in [Conns -> [Paths -> [value : Nat, seen : BOOLEAN]]], NEW f \in Changes, NEW from
    PROVE  /\ Updated(f, from) \in [Conns -> [Paths -> [value : Nat, seen : BOOLEAN]]]
           /\ \A c \in Conns, p \in Paths :
                \/ Updated(f, from)[c][p] = cache[c][p]
                \/ p \in DOMAIN f /\ Updated(f, from)[c][p] = [value |-> f[p], seen |-> TRUE]
<1>1. \A p \in DOMAIN f : f[p] \in Nat
  BY DEF Changes
<1> QED
  BY <1>1 DEF Updated

LEMMA CacheSteps ==
    ASSUME BusInv, NEW t \in Tasks, Scanned(t) \/ Fetched(t)
    PROVE  BusInv'
<1>1. /\ services \subseteq Owned /\ byName \in Owned \union {Pending} /\ BusTypes /\ Wire
      /\ waiter \in {"none", "waiting", "answered", "lost"} /\ tasks[t].conn \in Owned
      /\ cache \in [Conns -> [Paths -> [value : Nat, seen : BOOLEAN]]] /\ Fresh
  BY DEF BusInv, BusTypes, Known, Task
<1>2. /\ UNCHANGED <<inbox, calls>> /\ outq' = outq /\ UNCHANGED <<publisher, rules>>
      /\ services' = services /\ UNCHANGED <<hasty, missed>>
  BY DEF Scanned, Fetched, daemon, history
<1>3. \E x : Ran(t, x)
  <2>1. CASE Runs(t, "scanning") /\ Goes(t, "done")
    BY <1>1, <1>2, <2>1, Going DEF Pcs
  <2>2. CASE Runs(t, "scanning") /\ GoesOn(t, "undo")
    BY <1>1, <1>2, <2>2, Going DEF Pcs, Running
  <2>3. CASE Runs(t, "undoing") /\ Goes(t, "done")
    BY <1>1, <1>2, <2>3, Going DEF Pcs
  <2>4. CASE Runs(t, "getting") /\ Goes(t, "got")
    BY <1>1, <1>2, <2>4, Going DEF Pcs
  <2> QED
    BY <2>1, <2>2, <2>3, <2>4 DEF Scanned, Fetched
<1>4. Queues' /\ tasks' \in [Tasks -> Task] /\ Once' /\ Wire' /\ Taken' \subseteq Taken
  BY <1>3, RunStep DEF BusInv
<1>5. Service'
  BY <1>2 DEF BusInv, BusTypes, Service, publisher
<1>6. /\ byName' \in Owned \union {Pending} /\ waiter' \in {"none", "waiting", "answered", "lost"}
  BY <1>1 DEF Scanned, Fetched, SetResult
\* What is written to the cache is what the task was told.
<1>7. /\ cache' \in [Conns -> [Paths -> [value : Nat, seen : BOOLEAN]]]
      /\ \A c \in Conns, p \in Paths :
           cache'[c][p] = cache[c][p] \/ (cache'[c][p].seen /\ cache'[c][p].value \in Held(tasks[t].body))
      /\ fetched' \subseteq Paths
  <2>1. CASE Runs(t, "scanning") /\ cache' = UpdatedUnseen(tasks[t].body[2], tasks[t].conn)
             /\ tasks[t].body # Error /\ fetched' = fetched
    <3>1. Fits("scanning", tasks[t].body)
      BY <1>1, <2>1, TakenFits DEF Running
    <3>2. PICK f \in [Paths -> Nat] : tasks[t].body = Items(f)
      BY <2>1, <3>1 DEF Fits, Gathers
    <3>3. tasks[t].body[2] = f /\ f \in Changes
      BY <3>2 DEF Items, Changes
    <3>4. \A p \in Paths : f[p] \in Held(tasks[t].body)
      BY <3>2, <3>3, HeldNumbers
    <3>5. cache' = UpdatedUnseen(f, tasks[t].conn)
      BY <2>1, <3>3
    <3>6. \A c \in Conns, p \in Paths :
            cache'[c][p] = cache[c][p] \/ cache'[c][p] = [value |-> f[p], seen |-> TRUE]
      BY <1>1, <3>5 DEF UpdatedUnseen
    <3>7. cache' \in [Conns -> [Paths -> [value : Nat, seen : BOOLEAN]]]
      BY <1>1, <3>5 DEF UpdatedUnseen
    <3>8. ASSUME NEW c \in Conns, NEW p \in Paths
          PROVE  cache'[c][p] = cache[c][p] \/ (cache'[c][p].seen /\ cache'[c][p].value \in Held(tasks[t].body))
      <4>1. CASE cache'[c][p] = cache[c][p]
        BY <4>1
      <4>2. CASE cache'[c][p] = [value |-> f[p], seen |-> TRUE]
        BY <3>4, <4>2
      <4> QED
        BY <3>6, <4>1, <4>2
    <3> QED
      BY <2>1, <3>7, <3>8 DEF BusInv, BusTypes, Known
  <2>2. CASE cache' = cache /\ fetched' = fetched
    BY <1>1, <2>2 DEF BusInv, BusTypes, Known
  <2>3. CASE Runs(t, "getting") /\ cache' = Updated(tasks[t].body[2], tasks[t].conn)
             /\ tasks[t].body # Error /\ fetched' = fetched \union DOMAIN tasks[t].body[2]
    <3>1. Fits("getting", tasks[t].body)
      BY <1>1, <2>3, TakenFits DEF Running
    <3>2. PICK f \in Changes : tasks[t].body = Items(f)
      BY <2>3, <3>1 DEF Fits, Gathers
    <3>3. tasks[t].body[2] = f
      BY <3>2 DEF Items
    <3>4. \A p \in DOMAIN f : f[p] \in Held(tasks[t].body) /\ f[p] \in Nat /\ p \in Paths
      BY <3>2, HeldNumbers DEF Changes
    <3>5. cache' = Updated(f, tasks[t].conn)
      BY <2>3, <3>3
    <3>6. \A c \in Conns, p \in Paths :
            \/ cache'[c][p] = cache[c][p]
            \/ p \in DOMAIN f /\ cache'[c][p] = [value |-> f[p], seen |-> TRUE]
      BY <1>1, <3>2, <3>5, CacheUpdated
    <3>7. cache' \in [Conns -> [Paths -> [value : Nat, seen : BOOLEAN]]]
      BY <1>1, <3>2, <3>5, CacheUpdated
    <3>8. fetched' \subseteq Paths
      BY <2>3, <3>3, <3>4 DEF BusInv, BusTypes, Known
    <3>9. ASSUME NEW c \in Conns, NEW p \in Paths
          PROVE  cache'[c][p] = cache[c][p] \/ (cache'[c][p].seen /\ cache'[c][p].value \in Held(tasks[t].body))
      <4>1. CASE cache'[c][p] = cache[c][p]
        BY <4>1
      <4>2. CASE p \in DOMAIN f /\ cache'[c][p] = [value |-> f[p], seen |-> TRUE]
        BY <3>4, <4>2
      <4> QED
        BY <3>6, <4>1, <4>2
    <3> QED
      BY <3>7, <3>8, <3>9
  <2> QED
    BY <2>1, <2>2, <2>3 DEF Scanned, Fetched, history
<1>8. Known' /\ BusTypes'
  BY <1>1, <1>2, <1>4, <1>5, <1>6, <1>7 DEF BusInv, BusTypes, Known
<1>9. Fresh'
  <2>1. Cached' \subseteq Cached \union Taken
    <3>1. ASSUME NEW c \in Conns, NEW p \in Paths PROVE cache'[c][p].value \in Cached \union Taken
      BY <1>7 DEF Cached, Taken
    <3> QED
      BY <3>1 DEF Cached
  <2>2. \A c \in Conns, p \in Paths : ~cache'[c][p].seen => cache'[c][p].value = 0
    BY <1>1, <1>7 DEF Fresh
  <2> QED
    BY <1>1, <1>2, <1>4, <1>8, <2>1, <2>2, FreshCache DEF publisher
<1> QED
  BY <1>4, <1>8, <1>9 DEF BusInv

LEMMA SetStep ==
    ASSUME BusInv, NEW t \in Tasks, SetDone(t)
    PROVE  BusInv'
<1> DEFINE x == [tasks[t] EXCEPT !.pc = "set"]
<1>1. tasks \in [Tasks -> Task] /\ tasks[t] \in Task
  BY DEF BusInv, BusTypes, Known
<1>2. x \in Task /\ x.body = tasks[t].body
  BY <1>1 DEF Task, Pcs
<1>3. Ran(t, x)
  BY <1>1, <1>2 DEF SetDone, Ran, Runs, daemon
<1> HIDE DEF x
<1> QED
  BY <1>3, TaskKeeps DEF SetDone, daemon, monitor, BusInv, BusTypes, Known

-----------------------------------------------------------------------------
(* The event loop takes a task a hop further; a free task is started.        *)

LEMMA HopStep ==
    ASSUME BusInv, Hop
    PROVE  BusInv'
<1> DEFINE t == Head(ready).task
           m == Schedule(Head(ready).task, Head(ready).hops - 1)
<1>1. /\ ready \in Seq(Place) /\ ready # <<>> /\ Head(ready) \in Place /\ Tail(ready) \in Seq(Place)
      /\ Head(ready).hops > 0 /\ ready' = Append(Tail(ready), m)
      /\ 1 \in DOMAIN ready /\ ready[1] = Head(ready)
  BY TailOf DEF BusInv, BusTypes, Queues, Hop
<1>2. m \in Place /\ m.task = t /\ t \in Tasks
  BY <1>1 DEF Place, Schedule
<1>3. UNCHANGED <<publisher, daemon, outq, inbox, tasks, monitor, history>>
  BY DEF Hop
<1> HIDE DEF m
<1>4. /\ Single(Tail(ready)) /\ Holders(Tail(ready)) = Holders(ready) \ {t} /\ t \in Holders(ready)
  BY <1>1, SingleTail DEF BusInv, Once
<1>5. Single(ready') /\ Holders(ready') = Holders(ready)
  <2>1. /\ m.task \notin Holders(Tail(ready)) /\ m \in Place /\ Tail(ready) \in Seq(Place)
        /\ Single(Tail(ready)) /\ ready' = Append(Tail(ready), m)
    BY <1>1, <1>2, <1>4
  <2>2. Single(ready') /\ Holders(ready') = Holders(Tail(ready)) \union {m.task}
    BY ONLY <2>1, SingleAppend
  <2> QED
    BY <1>2, <1>4, <2>2
<1>6. Queues'
  BY <1>1, <1>2, <1>3, EndOf DEF BusInv, BusTypes, Queues, daemon
<1>7. Once'
  BY <1>3, <1>5 DEF BusInv, Once, daemon
<1>8. Wire'
  <2>1. \A i \in DOMAIN ready : \/ tasks[ready[i].task].pc \in Running
                               \/ Fits(tasks[ready[i].task].pc, tasks[ready[i].task].body)
    BY DEF BusInv, Wire
  <2>2. \A i \in DOMAIN ready' : ready'[i] = m \/ \E k \in DOMAIN ready : ready'[i] = ready[k]
    <3>1. \A i \in DOMAIN ready' : ready'[i] = m \/ \E k \in DOMAIN Tail(ready) : ready'[i] = Tail(ready)[k]
      BY <1>1, <1>2, EndOf
    <3>2. \A k \in DOMAIN Tail(ready) : \E j \in DOMAIN ready : Tail(ready)[k] = ready[j]
      BY <1>1, TailOf
    <3> QED
      BY <3>1, <3>2
  <2>3. \A i \in DOMAIN ready' : \/ tasks[ready'[i].task].pc \in Running
                                \/ Fits(tasks[ready'[i].task].pc, tasks[ready'[i].task].body)
    BY <1>1, <1>2, <2>1, <2>2
  <2> QED
    BY <1>3, <2>3 DEF BusInv, Wire, daemon
<1>9. Service' /\ Known'
  BY <1>3 DEF BusInv, BusTypes, Service, Known, publisher, daemon, monitor, history
<1>10. Fresh'
  <2>1. Taken' \subseteq Taken /\ UNCHANGED <<inbox, wrote, vals, cache>> /\ Fresh
    BY <1>3 DEF Taken, publisher, monitor, BusInv
  <2> QED
    BY <2>1, FreshKept
<1> QED
  BY <1>6, <1>7, <1>8, <1>9, <1>10 DEF BusInv, BusTypes

LEMMA IdleHoldsNothing ==
    ASSUME BusTypes, Wire, NEW t \in Tasks, tasks[t].pc \notin Running \union Asking
    PROVE  /\ t \notin Holders(outq) /\ t \notin Holders(calls)
           /\ t \notin Answered(inbox) /\ t \notin Holders(ready)
<1>1. t \notin Holders(outq)
  BY DEF Wire, Asks, Asking, Holders
<1>2. t \notin Holders(calls)
  BY DEF Wire, Asks, Asking, Holders
<1>3. t \notin Answered(inbox)
  BY DEF Wire, Fits, Asking, Gathers, Answered
<1>4. t \notin Holders(ready)
  BY DEF Wire, Fits, Asking, Gathers, Holders
<1> QED
  BY <1>1, <1>2, <1>3, <1>4

\* A free task is given something to do: the tokens of the others stay.
LEMMA StartKeeps ==
    ASSUME BusTypes, Wire, NEW t \in Tasks, NEW x \in Task, tasks[t].pc \notin Running \union Asking,
           tasks' = [tasks EXCEPT ![t] = x], x.body = <<>>
    PROVE  /\ tasks' \in [Tasks -> Task] /\ tasks'[t] = x
           /\ \A i \in DOMAIN outq : Asks(tasks'[outq[i].task].pc, outq[i].what)
           /\ \A i \in DOMAIN calls : /\ Asks(tasks'[calls[i].task].pc, calls[i].what)
                                      /\ calls[i].what \in {"items", "get", "set"}
           /\ \A i \in Replies(inbox) : Fits(tasks'[inbox[i].task].pc, inbox[i].body)
           /\ \A i \in DOMAIN ready :
                \/ tasks'[ready[i].task].pc \in Running
                \/ Fits(tasks'[ready[i].task].pc, tasks'[ready[i].task].body)
           /\ Taken' \subseteq Taken
<1>1. /\ tasks' \in [Tasks -> Task] /\ tasks'[t] = x
      /\ \A u \in Tasks : u # t => tasks'[u] = tasks[u]
  BY DEF BusTypes, Known
<1>2. /\ \A i \in DOMAIN outq : outq[i].task \in Tasks /\ outq[i].task # t
      /\ \A i \in DOMAIN calls : calls[i].task \in Tasks /\ calls[i].task # t
      /\ \A i \in Replies(inbox) : inbox[i].task \in Tasks /\ inbox[i].task # t
      /\ \A i \in DOMAIN ready : ready[i].task \in Tasks /\ ready[i].task # t
  <2>1. \A i \in DOMAIN outq : outq[i].task \in Tasks /\ outq[i].task # t
    BY Shapes, IdleHoldsNothing DEF BusTypes, Queues, Holders
  <2>2. \A i \in DOMAIN calls : calls[i].task \in Tasks /\ calls[i].task # t
    BY Shapes, IdleHoldsNothing DEF BusTypes, Queues, Holders
  <2>3. \A i \in Replies(inbox) : inbox[i].task \in Tasks /\ inbox[i].task # t
    BY Shapes, IdleHoldsNothing DEF BusTypes, Queues, Answered, Replies
  <2>4. \A i \in DOMAIN ready : ready[i] \in Place
    BY DEF BusTypes, Queues
  <2>5. \A i \in DOMAIN ready : ready[i].task \in Tasks /\ ready[i].task # t
    BY <2>4, IdleHoldsNothing DEF Place, Holders
  <2> QED
    BY <2>1, <2>2, <2>3, <2>5
<1>3. Taken' \subseteq Taken
  <2>1. ASSUME NEW u \in Tasks PROVE Held(tasks'[u].body) \subseteq Held(tasks[u].body)
    BY <1>1, HeldNumbers
  <2> QED
    BY <2>1 DEF Taken
<1>4. \A i \in DOMAIN outq : Asks(tasks'[outq[i].task].pc, outq[i].what)
  BY <1>1, <1>2 DEF Wire
<1>5. \A i \in DOMAIN calls : /\ Asks(tasks'[calls[i].task].pc, calls[i].what)
                              /\ calls[i].what \in {"items", "get", "set"}
  BY <1>1, <1>2 DEF Wire
<1>6. \A i \in Replies(inbox) : Fits(tasks'[inbox[i].task].pc, inbox[i].body)
  BY <1>1, <1>2 DEF Wire
<1>7. \A i \in DOMAIN ready : \/ tasks'[ready[i].task].pc \in Running
                             \/ Fits(tasks'[ready[i].task].pc, tasks'[ready[i].task].body)
  BY <1>1, <1>2 DEF Wire
<1> QED
  BY <1>1, <1>3, <1>4, <1>5, <1>6, <1>7

LEMMA CallStep ==
    ASSUME BusInv, NEW t \in Tasks, NEW p \in Paths, NEW what \in {"get", "set"}, Call(t, p, what)
    PROVE  BusInv'
<1> DEFINE x == [NoTask EXCEPT !.conn = byName, !.pc = IF what = "get" THEN "getting" ELSE "setting"]
           m == [what |-> what, task |-> t, path |-> p]
<1>1. /\ byName \in Conns /\ tasks[t].pc = "none" /\ tasks' = [tasks EXCEPT ![t] = x]
      /\ outq' = Append(outq, m) /\ UNCHANGED <<publisher, daemon, inbox, ready, monitor, history>>
  BY DEF Call, Free
<1>2. x \in Task /\ x.body = <<>> /\ x.pc = (IF what = "get" THEN "getting" ELSE "setting")
  BY <1>1 DEF NoTask, Task, Body, Pcs, Asking, Owned
<1>3. m \in Request /\ m.task = t /\ m.what = what
  BY DEF Request
<1>4. BusTypes /\ Wire /\ Once /\ Fresh /\ outq \in Seq(Request)
  BY DEF BusInv, BusTypes, Queues
<1> HIDE DEF x, m
<1>5. tasks[t].pc \notin Running \union Asking
  BY <1>1 DEF Running, Asking
<1>6. /\ t \notin Holders(outq) /\ t \notin Holders(calls)
      /\ t \notin Answered(inbox) /\ t \notin Holders(ready)
  BY <1>4, <1>5, IdleHoldsNothing
<1>7. /\ tasks' \in [Tasks -> Task] /\ tasks'[t] = x /\ Taken' \subseteq Taken
      /\ \A i \in DOMAIN outq : Asks(tasks'[outq[i].task].pc, outq[i].what)
      /\ \A i \in DOMAIN calls : /\ Asks(tasks'[calls[i].task].pc, calls[i].what)
                                 /\ calls[i].what \in {"items", "get", "set"}
      /\ \A i \in Replies(inbox) : Fits(tasks'[inbox[i].task].pc, inbox[i].body)
      /\ \A i \in DOMAIN ready : \/ tasks'[ready[i].task].pc \in Running
                                 \/ Fits(tasks'[ready[i].task].pc, tasks'[ready[i].task].body)
  BY <1>1, <1>2, <1>4, <1>5, StartKeeps
<1>8. Single(outq') /\ Holders(outq') = Holders(outq) \union {t}
  <2>1. Single(outq) /\ m.task \notin Holders(outq)
    BY <1>3, <1>4, <1>6 DEF Once
  <2>2. Single(outq') /\ Holders(outq') = Holders(outq) \union {m.task}
    BY ONLY <1>1, <1>3, <1>4, <2>1, SingleAppend
  <2> QED
    BY <1>3, <2>2
<1>9. Queues'
  BY <1>1, <1>3, <1>4, EndOf DEF BusTypes, Queues, daemon
<1>10. Once'
  BY <1>1, <1>4, <1>6, <1>8 DEF Once, daemon
<1>11. Wire'
  <2>1. \A i \in DOMAIN outq' : Asks(tasks'[outq'[i].task].pc, outq'[i].what)
    <3>1. Asks(x.pc, what)
      BY <1>2 DEF Asks
    <3> QED
      BY <1>1, <1>3, <1>4, <1>7, <3>1, EndOf
  <2> QED
    BY <1>1, <1>7, <2>1 DEF Wire, daemon
<1>12. Service' /\ Known'
  BY <1>1, <1>4, <1>7 DEF BusTypes, Service, Known, publisher, daemon, monitor, history
<1>13. Fresh'
  BY <1>1, <1>4, <1>7, FreshKept DEF publisher, monitor
<1> QED
  BY <1>9, <1>10, <1>11, <1>12, <1>13 DEF BusInv, BusTypes

-----------------------------------------------------------------------------
(* The publishing process and the daemon.                                    *)

\* A message that is not a reply answers nobody.
Same(q) == /\ q \in Seq(Message) /\ SingleReply(q) /\ Answered(q) = Answered(inbox)
           /\ \A i \in Replies(q) : Fits(tasks[q[i].task].pc, q[i].body)

LEMMA NoReply ==
    ASSUME BusTypes, Once, Wire, NEW m \in Message, m.what # "reply"
    PROVE  Same(inbox) /\ Same(Append(inbox, m))
<1>1. inbox \in Seq(Message)
  BY DEF BusTypes, Queues
<1>2. Same(inbox)
  BY <1>1 DEF Once, Wire, Same
<1>3. SingleReply(Append(inbox, m)) /\ Answered(Append(inbox, m)) = Answered(inbox)
  <2>1. SingleReply(inbox)
    BY DEF Once
  <2>2. /\ SingleReply(Append(inbox, m))
        /\ Answered(Append(inbox, m)) = Answered(inbox) \union (IF m.what = "reply" THEN {m.task} ELSE {})
    BY ONLY <1>1, <2>1, m \in Message, m.what # "reply", ReplyAppend
  <2> QED
    BY <2>2
<1>4. \A i \in Replies(Append(inbox, m)) : i \in Replies(inbox) /\ Append(inbox, m)[i] = inbox[i]
  BY <1>1, EndOf DEF Replies
<1>5. \A i \in Replies(Append(inbox, m)) :
        Fits(tasks[Append(inbox, m)[i].task].pc, Append(inbox, m)[i].body)
  BY <1>4 DEF Wire
<1> QED
  BY <1>1, <1>2, <1>3, <1>5, EndOf DEF Same

LEMMA Told ==
    ASSUME BusTypes, Once, Wire, Same(inbox'), UNCHANGED <<outq, calls, ready, tasks>>
    PROVE  Queues' /\ Once' /\ Wire'
<1>1. Queues'
  BY DEF BusTypes, Queues, Same
<1>2. Once'
  BY DEF Once, Same
<1>3. Wire'
  BY DEF Wire, Same
<1> QED
  BY <1>1, <1>2, <1>3

LEMMA FreshTold ==
    ASSUME BusTypes, Fresh, UNCHANGED <<cache, tasks>>, wrote' \in Nat, wrote <= wrote',
           Rising(inbox'), UpTo(inbox', wrote'), \A p \in Paths : vals'[p] <= wrote',
           \A V \in SUBSET Nat : Beyond(inbox, V) /\ (\A v \in V : v <= wrote) => Beyond(inbox', V)
    PROVE  Fresh'
<1>1. Cached' = Cached /\ Taken' = Taken
  BY DEF Cached, Taken
<1>2. Cached \subseteq Nat /\ Taken \subseteq Nat
  <2>1. Cached \subseteq Nat
    BY DEF BusTypes, Known, Cached
  <2>2. \A u \in Tasks : tasks[u].body \in Body
    BY DEF BusTypes, Known, Task
  <2> QED
    BY <2>1, <2>2, HeldNumbers DEF Taken
<1>3. /\ Beyond(inbox, Cached) /\ Beyond(inbox, Taken) /\ wrote \in Nat
      /\ \A v \in Cached : v <= wrote
      /\ \A v \in Taken : v <= wrote
  BY DEF Fresh, BusTypes, Service
<1>4. Beyond(inbox', Cached) /\ Beyond(inbox', Taken)
  BY <1>2, <1>3
<1>5. \A v \in Cached \union Taken : v <= wrote'
  <2>1. \A v \in Cached \union Taken : v \in Nat /\ v <= wrote
    BY <1>2, <1>3
  <2> QED
    BY <1>3, <2>1
<1>6. \A c \in Conns, p \in Paths : ~cache'[c][p].seen => cache'[c][p].value = 0
  BY DEF Fresh
<1> QED
  BY <1>1, <1>4, <1>5, <1>6 DEF Fresh

LEMMA RegisterStep ==
    ASSUME BusInv, Register
    PROVE  BusInv'
<1> DEFINE m == Owners(NoOne, owner')
<1>1. /\ lives' = lives + 1 /\ owner' = lives' /\ wrote' = wrote + 1 /\ lives < MaxLives
      /\ vals' = [p \in Paths |-> wrote'] /\ closing' = FALSE /\ inbox' = Append(inbox, m)
      /\ owner = NoOne
      /\ missed' = {} /\ UNCHANGED <<daemon, outq, tasks, ready, monitor, fetched, hasty>>
  BY DEF Register
<1>2. BusTypes /\ Once /\ Wire /\ Fresh /\ wrote \in Nat /\ lives \in 0..MaxLives /\ MaxLives \in Nat
  BY BusAssumption DEF BusInv, BusTypes, Service
<1>3. owner' \in Conns /\ lives' \in 0..MaxLives /\ wrote' \in Nat
  BY <1>1, <1>2 DEF Conns
<1>4. m \in Message /\ m.what = "owner"
  BY <1>3, Made DEF Owners, Owned, NoOne
<1> HIDE DEF m
<1>5. Queues' /\ Once' /\ Wire'
  BY <1>1, <1>2, <1>4, NoReply, Told DEF daemon
<1>6. Service'
  BY <1>1, <1>2, <1>3 DEF BusTypes, Service, daemon, Owned, NoOne, Conns
<1>7. Known'
  BY <1>1, <1>2 DEF BusTypes, Known, monitor
<1>8. Fresh'
  <2>1. inbox \in Seq(Message) /\ Carried(m) = {} /\ wrote <= wrote'
    BY <1>1, <1>2, <1>4 DEF BusTypes, Queues, Carried
  <2>2. Rising(inbox) /\ UpTo(inbox, wrote)
    BY <1>2 DEF Fresh
  <2>3. /\ Rising(inbox') /\ UpTo(inbox', wrote')
        /\ \A V \in SUBSET Nat : Beyond(inbox, V) /\ (\A v \in V : v <= wrote) => Beyond(inbox', V)
    BY <1>1, <1>2, <1>3, <1>4, <2>1, <2>2, FreshAppend
  <2>4. \A p \in Paths : vals'[p] <= wrote'
    BY <1>1, <1>3
  <2>5. UNCHANGED <<cache, tasks>>
    BY <1>1 DEF monitor
  <2> QED
    BY <1>2, <1>3, <2>1, <2>3, <2>4, <2>5, FreshTold
<1> QED
  BY <1>5, <1>6, <1>7, <1>8 DEF BusInv, BusTypes

LEMMA WriteStep ==
    ASSUME BusInv, NEW S \in SUBSET Paths, Write(S)
    PROVE  BusInv'
<1> DEFINE f == [p \in S |-> wrote']
           m == [what |-> "signal", from |-> owner, items |-> f]
<1>1. /\ owner # NoOne /\ wrote' = wrote + 1
      /\ vals' = [p \in Paths |-> IF p \in S THEN wrote' ELSE vals[p]]
      /\ inbox' = inbox \o Signal(f) /\ Misses(S)
      /\ UNCHANGED <<owner, lives, closing, daemon, outq, tasks, ready, monitor, fetched, hasty>>
  BY DEF Write
<1>2. /\ BusTypes /\ Once /\ Wire /\ Fresh /\ wrote \in Nat /\ owner \in Conns
      /\ vals \in [Paths -> Nat] /\ inbox \in Seq(Message)
  BY <1>1 DEF BusInv, BusTypes, Service, Owned, Queues
<1>3. wrote' \in Nat /\ wrote <= wrote' /\ wrote' > wrote
  BY <1>1, <1>2
<1>4. f \in Changes
  BY <1>3 DEF Changes
<1>5. m \in Message /\ m.what = "signal" /\ \A v \in Carried(m) : v = wrote'
  BY <1>2, <1>4, Made DEF Carried
<1>6. inbox' = inbox \/ inbox' = Append(inbox, m)
  BY <1>1, <1>2, <1>5 DEF Signal
<1> HIDE DEF m, f
<1>7. Queues' /\ Once' /\ Wire'
  <2>1. CASE inbox' = inbox
    BY <1>1, <1>2, <2>1 DEF BusTypes, Queues, Once, Wire, daemon
  <2>2. CASE inbox' = Append(inbox, m)
    BY <1>1, <1>2, <1>5, <2>2, NoReply, Told DEF daemon
  <2> QED
    BY <1>6, <2>1, <2>2
<1>8. vals' \in [Paths -> Nat] /\ \A p \in Paths : vals'[p] <= wrote'
  <2>1. \A p \in Paths : vals[p] \in Nat /\ vals[p] <= wrote
    BY <1>2 DEF Fresh
  <2> QED
    BY <1>1, <1>2, <1>3, <2>1
<1>9. Service' /\ Known'
  <2>1. missed' \subseteq Paths
    BY <1>1, <1>2 DEF Misses, BusTypes, Known
  <2> QED
    BY <1>1, <1>2, <1>3, <1>8, <2>1 DEF BusTypes, Service, Known, daemon, monitor
<1>10. Fresh'
  <2>1. /\ Rising(inbox') /\ UpTo(inbox', wrote')
        /\ \A V \in SUBSET Nat : Beyond(inbox, V) /\ (\A v \in V : v <= wrote) => Beyond(inbox', V)
    <3>1. Rising(inbox) /\ UpTo(inbox, wrote)
      BY <1>2 DEF Fresh
    <3>2. CASE inbox' = inbox
      <4>1. \A i \in DOMAIN inbox : Carried(inbox[i]) \subseteq Nat
        BY <1>2, HeldNumbers
      <4>2. UpTo(inbox, wrote')
        BY <1>2, <1>3, <3>1, <4>1 DEF UpTo
      <4> QED
        BY <3>1, <3>2, <4>2
    <3>3. CASE inbox' = Append(inbox, m)
      <4>1. \A v \in Carried(m) : v <= wrote' /\ v > wrote
        BY <1>3, <1>5
      <4> QED
        BY <1>2, <1>3, <1>5, <3>1, <3>3, <4>1, FreshAppend
    <3> QED
      BY <1>6, <3>2, <3>3
  <2> QED
    BY <1>1, <1>2, <1>3, <1>8, <2>1, FreshTold DEF monitor
<1> QED
  BY <1>7, <1>9, <1>10 DEF BusInv, BusTypes

\* The answer to a request goes to the task that waits for it.
LEMMA Answering ==
    ASSUME BusTypes, Once, Wire, NEW q, Same(q), NEW t \in Tasks, NEW body \in Body,
           t \notin Answered(inbox), Fits(tasks[t].pc, body),
           inbox' = Append(q, Answer(t, body)), tasks' = tasks
    PROVE  /\ inbox' \in Seq(Message) /\ SingleReply(inbox')
           /\ Answered(inbox') = Answered(inbox) \union {t}
           /\ \A i \in Replies(inbox') : Fits(tasks'[inbox'[i].task].pc, inbox'[i].body)
<1> DEFINE m == Answer(t, body)
<1>1. m \in Message /\ m.what = "reply" /\ m.task = t /\ m.body = body
  BY Made DEF Answer
<1>2. q \in Seq(Message) /\ SingleReply(q) /\ Answered(q) = Answered(inbox) /\ inbox' = Append(q, m)
  BY DEF Same
<1> HIDE DEF m
<1>3. SingleReply(inbox') /\ Answered(inbox') = Answered(inbox) \union {t}
  <2>1. m.what = "reply" => m.task \notin Answered(q)
    BY <1>1, <1>2
  <2>2. SingleReply(inbox') /\ Answered(inbox') = Answered(q) \union {m.task}
    BY ONLY <1>1, <1>2, <2>1, ReplyAppend
  <2> QED
    BY <1>1, <1>2, <2>2
<1>4. \A i \in Replies(inbox') : (i \in Replies(q) /\ inbox'[i] = q[i]) \/ inbox'[i] = m
  BY <1>1, <1>2, EndOf DEF Replies
<1>5. \A i \in Replies(inbox') : Fits(tasks'[inbox'[i].task].pc, inbox'[i].body)
  BY <1>1, <1>4 DEF Same
<1>6. inbox' \in Seq(Message)
  BY <1>1, <1>2, EndOf
<1> QED
  BY <1>3, <1>5, <1>6

LEMMA AnswerCall ==
    ASSUME BusTypes, Once, Wire, calls # <<>>, NEW q, Same(q), NEW body \in Body,
           Fits(tasks[Head(calls).task].pc, body), calls' = Tail(calls),
           inbox' = Append(q, Answer(Head(calls).task, body)), UNCHANGED <<outq, ready, tasks>>
    PROVE  Queues' /\ Once' /\ Wire'
<1> DEFINE t == Head(calls).task
<1>1. /\ calls \in Seq(Request) /\ Head(calls) \in Request /\ Tail(calls) \in Seq(Request)
      /\ 1 \in DOMAIN calls /\ calls[1] = Head(calls)
  BY TailOf DEF BusTypes, Queues
<1>2. t \in Tasks
  BY <1>1, Shapes
<1>3. /\ Single(Tail(calls)) /\ Holders(Tail(calls)) = Holders(calls) \ {t} /\ t \in Holders(calls)
  BY <1>1, SingleTail DEF Once
<1>4. t \notin Answered(inbox) /\ t \notin Holders(outq) /\ t \notin Holders(ready)
  BY <1>3 DEF Once
<1>5. /\ inbox' \in Seq(Message) /\ SingleReply(inbox') /\ Answered(inbox') = Answered(inbox) \union {t}
      /\ \A i \in Replies(inbox') : Fits(tasks'[inbox'[i].task].pc, inbox'[i].body)
  BY <1>2, <1>4, Answering
<1>6. Queues'
  BY <1>1, <1>5 DEF BusTypes, Queues
<1>7. Once'
  BY <1>3, <1>4, <1>5 DEF Once
<1>8. Wire'
  <2>1. \A i \in DOMAIN Tail(calls) : /\ Asks(tasks[Tail(calls)[i].task].pc, Tail(calls)[i].what)
                                      /\ Tail(calls)[i].what \in {"items", "get", "set"}
    BY <1>1, TailOf DEF Wire
  <2> QED
    BY <1>5, <2>1 DEF Wire
<1> QED
  BY <1>6, <1>7, <1>8

LEMMA AnswerSetStep ==
    ASSUME BusInv, AnswerSet
    PROVE  BusInv'
<1> DEFINE path == Head(calls).path
           f == [p \in {path} |-> wrote']
           m == [what |-> "signal", from |-> owner, items |-> f]
           a == Answer(Head(calls).task, Items(f))
<1>1. /\ calls # <<>> /\ Head(calls).what = "set" /\ wrote' = wrote + 1
      /\ vals' = [vals EXCEPT ![path] = wrote'] /\ SignalFirst(Head(calls).task, f)
      /\ Misses({path}) /\ calls' = Tail(calls)
      /\ UNCHANGED <<owner, lives, closing, rules, outq, tasks, ready, monitor, fetched, hasty>>
  BY DEF AnswerSet
<1>2. /\ BusTypes /\ Once /\ Wire /\ Fresh /\ wrote \in Nat
      /\ vals \in [Paths -> Nat] /\ inbox \in Seq(Message)
      /\ calls \in Seq(Request) /\ Head(calls) \in Request
      /\ 1 \in DOMAIN calls /\ calls[1] = Head(calls)
  BY <1>1, TailOf DEF BusInv, BusTypes, Service, Queues
<1>3. owner \in Conns
  BY <1>1, <1>2 DEF BusTypes, Service, Owned
<1>4. wrote' \in Nat /\ wrote <= wrote' /\ wrote' > wrote
  BY <1>1, <1>2
<1>5. path \in Paths
  BY <1>1, <1>2, Shapes
<1>6. f \in Changes
  <2>1. f \in [{path} -> Nat] /\ {path} \in SUBSET Paths
    BY <1>4, <1>5
  <2> QED
    BY <2>1 DEF Changes
<1>7. m \in Message /\ m.what = "signal" /\ \A v \in Carried(m) : v = wrote'
  BY <1>3, <1>6, Made DEF Carried
<1>8. /\ Items(f) \in Body /\ Fits(tasks[Head(calls).task].pc, Items(f))
      /\ Head(calls).task \in Tasks /\ Held(Items(f)) = {wrote'}
  <2>1. Items(f) \in Body
    BY <1>6 DEF Body
  <2>2. Asks(tasks[Head(calls).task].pc, "set")
    BY <1>1, <1>2 DEF Wire
  <2>3. Fits(tasks[Head(calls).task].pc, Items(f))
    BY <1>6, <2>2 DEF Asks, Fits
  <2>4. Held(Items(f)) = {wrote'}
    BY <1>6, HeldNumbers
  <2> QED
    BY <1>2, <2>1, <2>3, <2>4, Shapes
<1>9. a \in Message /\ a.what = "reply" /\ Carried(a) = {wrote'}
  BY <1>8, Made DEF Carried, Answer
<1>10. inbox' = Append(inbox, a) \/ inbox' = Append(Append(inbox, m), a)
  <2> HIDE DEF f
  <2>1. inbox' = inbox \o Signal(f) \o <<a>>
    BY <1>1 DEF SignalFirst
  <2>2. Signal(f) = <<>> \/ Signal(f) = <<m>>
    BY DEF Signal
  <2> HIDE DEF m, a
  <2> QED
    BY <1>2, <1>7, <1>9, <2>1, <2>2
<1> HIDE DEF m
<1>11. PICK q \in {inbox, Append(inbox, m)} : inbox' = Append(q, a)
  BY <1>10
<1>12. Same(q)
  BY <1>2, <1>7, <1>11, NoReply
<1>13. Queues' /\ Once' /\ Wire'
  <2> HIDE DEF f
  <2> QED
    BY <1>1, <1>2, <1>8, <1>11, <1>12, AnswerCall
<1> HIDE DEF a
<1>14. vals' \in [Paths -> Nat] /\ \A p \in Paths : vals'[p] <= wrote'
  <2>1. \A p \in Paths : vals[p] \in Nat /\ vals[p] <= wrote
    BY <1>2 DEF Fresh
  <2> HIDE DEF path, f
  <2> QED
    BY <1>1, <1>2, <1>4, <1>5, <2>1
<1>15. Service' /\ Known'
  <2>1. missed' \subseteq Paths
    BY <1>1, <1>2, <1>5 DEF Misses, BusTypes, Known
  <2>2. owner' # NoOne
    BY <1>1, <1>3 DEF Conns, NoOne
  <2> QED
    BY <1>1, <1>2, <1>4, <1>14, <2>1, <2>2 DEF BusTypes, Service, Known, monitor
<1>16. Fresh'
  <2>1. Rising(inbox) /\ UpTo(inbox, wrote)
    BY <1>2 DEF Fresh
  <2>2. \A v \in Carried(a) : v <= wrote'
    BY <1>4, <1>9
  <2>3. /\ Rising(inbox') /\ UpTo(inbox', wrote')
        /\ \A V \in SUBSET Nat : Beyond(inbox, V) /\ (\A v \in V : v <= wrote) => Beyond(inbox', V)
    <3>1. CASE inbox' = Append(inbox, a)
      BY <1>2, <1>4, <1>9, <2>1, <2>2, <3>1, FreshAppend
    <3>2. CASE inbox' = Append(Append(inbox, m), a)
      <4> DEFINE r == Append(inbox, m)
      <4>1. \A v \in Carried(m) : v <= wrote' /\ v > wrote
        BY <1>4, <1>7
      <4>2. /\ Rising(r) /\ UpTo(r, wrote')
            /\ \A V \in SUBSET Nat : Beyond(inbox, V) /\ (\A v \in V : v <= wrote) => Beyond(r, V)
        BY <1>2, <1>4, <1>7, <2>1, <4>1, FreshAppend
      <4>3. r \in Seq(Message) /\ inbox' = Append(r, a)
        BY <1>2, <1>7, <3>2, EndOf
      <4> HIDE DEF r
      <4>4. /\ Rising(inbox') /\ UpTo(inbox', wrote')
            /\ \A V \in SUBSET Nat : Beyond(r, V) /\ (\A v \in V : v <= wrote') => Beyond(inbox', V)
        <5>1. wrote' <= wrote'
          BY <1>4
        <5> QED
          BY <1>4, <1>9, <2>2, <4>2, <4>3, <5>1, FreshAppend
      <4>5. ASSUME NEW V \in SUBSET Nat, Beyond(inbox, V), \A v \in V : v <= wrote
            PROVE  Beyond(inbox', V)
        <5>1. \A v \in V : v <= wrote'
          BY <1>2, <1>4, <4>5
        <5> QED
          BY <4>2, <4>4, <4>5, <5>1
      <4> QED
        BY <4>4, <4>5
    <3> QED
      BY <1>10, <3>1, <3>2
  <2> QED
    BY <1>1, <1>2, <1>4, <1>14, <2>3, FreshTold DEF monitor
<1> QED
  BY <1>13, <1>15, <1>16 DEF BusInv, BusTypes

LEMMA AnswerGetStep ==
    ASSUME BusInv, AnswerGet
    PROVE  BusInv'
<1> DEFINE call == Head(calls)
           one == [p \in {call.path} |-> vals[p]]
           body == IF closing \/ call.what = "set" THEN Error
                   ELSE IF call.what = "items" THEN Items(vals) ELSE Items(one)
           a == Answer(call.task, body)
<1>1. /\ calls # <<>> /\ inbox' = Append(inbox, a) /\ calls' = Tail(calls)
      /\ UNCHANGED <<publisher, rules, outq, tasks, ready, monitor, history>>
  BY DEF AnswerGet
<1>2. /\ BusTypes /\ Once /\ Wire /\ Fresh /\ wrote \in Nat /\ vals \in [Paths -> Nat]
      /\ inbox \in Seq(Message) /\ calls \in Seq(Request) /\ call \in Request
      /\ 1 \in DOMAIN calls /\ calls[1] = call
  BY <1>1, TailOf DEF BusInv, BusTypes, Service, Queues
<1>3. Asks(tasks[call.task].pc, call.what) /\ call.what \in {"items", "get", "set"} /\ call.task \in Tasks
  BY <1>2, Shapes DEF Wire
<1>4. body \in Body /\ Fits(tasks[call.task].pc, body) /\ \A v \in Held(body) : \E p \in Paths : v = vals[p]
  <2>1. CASE closing \/ call.what = "set"
    <3>1. body = Error
      BY <2>1
    <3>2. tasks[call.task].pc \in {"scanning", "getting", "setting"}
      BY <1>3 DEF Asks
    <3> QED
      BY <3>1, <3>2, HeldNumbers DEF Body, Fits
  <2>2. CASE ~closing /\ call.what = "items"
    <3>1. body = Items(vals)
      BY <2>2
    <3>2. vals \in Changes
      BY <1>2 DEF Changes
    <3>3. tasks[call.task].pc = "scanning"
      BY <1>3, <2>2 DEF Asks
    <3> HIDE DEF body
    <3> QED
      BY <1>2, <3>1, <3>2, <3>3, HeldNumbers DEF Body, Fits
  <2>3. CASE ~closing /\ call.what = "get"
    <3>1. body = Items(one)
      BY <2>3
    <3>2. call.path \in Paths
      BY <1>2, <2>3, Shapes
    <3>3. one \in [{call.path} -> Nat] /\ {call.path} \in SUBSET Paths
      BY <1>2, <3>2
    <3>4. one \in Changes
      BY <3>3 DEF Changes
    <3>5. tasks[call.task].pc = "getting"
      BY <1>3, <2>3 DEF Asks
    <3>6. \A p \in DOMAIN one : one[p] = vals[p] /\ p \in Paths
      BY <3>2
    <3> HIDE DEF body, one
    <3> QED
      BY <3>1, <3>4, <3>5, <3>6, HeldNumbers DEF Body, Fits
  <2> QED
    BY <1>3, <2>1, <2>2, <2>3
<1> HIDE DEF body
<1>5. Same(inbox)
  BY <1>2 DEF Once, Wire, Same
<1>6. Queues' /\ Once' /\ Wire'
  BY <1>1, <1>2, <1>4, <1>5, AnswerCall
<1>7. a \in Message /\ a.what = "reply" /\ \A v \in Carried(a) : v <= wrote
  <2>1. a \in Message /\ a.what = "reply" /\ Carried(a) = Held(body)
    BY <1>3, <1>4, Made DEF Answer, Carried
  <2> QED
    BY <1>2, <1>4, <2>1 DEF Fresh
<1> HIDE DEF a
<1>8. Service' /\ Known'
  <2>1. (calls # <<>>)' => owner # NoOne
    BY <1>1, <1>2 DEF BusTypes, Service
  <2> QED
    BY <1>1, <1>2, <2>1 DEF BusTypes, Service, Known, publisher, monitor, history
<1>9. Fresh'
  <2>1. Rising(inbox) /\ UpTo(inbox, wrote) /\ wrote <= wrote /\ wrote' = wrote
    BY <1>1, <1>2 DEF Fresh, publisher
  <2>2. /\ Rising(inbox') /\ UpTo(inbox', wrote')
        /\ \A V \in SUBSET Nat : Beyond(inbox, V) /\ (\A v \in V : v <= wrote) => Beyond(inbox', V)
    BY <1>1, <1>2, <1>7, <2>1, FreshAppend
  <2>3. \A p \in Paths : vals'[p] <= wrote'
    BY <1>1, <1>2 DEF Fresh, publisher
  <2> QED
    BY <1>1, <1>2, <2>1, <2>2, <2>3, FreshTold DEF monitor
<1> QED
  BY <1>6, <1>8, <1>9 DEF BusInv, BusTypes

LEMMA CloseStep ==
    ASSUME BusInv, Close \/ WaitForService
    PROVE  BusInv'
<1>1. UNCHANGED <<owner, lives, wrote, vals, daemon, outq, inbox, tasks, ready, services, cache,
                  fetched, missed>>
  BY DEF Close, WaitForService, publisher, monitor, history
<1>2. BusTypes /\ Once /\ Wire /\ Fresh
  BY DEF BusInv
<1>3. /\ closing' \in BOOLEAN /\ hasty' \in BOOLEAN /\ byName' \in Owned \union {Pending}
      /\ waiter' \in {"none", "waiting", "answered", "lost"}
  <2>1. CASE Close
    <3>1. closing' = TRUE /\ UNCHANGED <<byName, waiter>> /\ hasty' = (hasty \/ byName # owner)
      BY <2>1 DEF Close, monitor
    <3>2. hasty' \in BOOLEAN
      BY <3>1
    <3> QED
      BY <1>2, <3>1, <3>2 DEF BusTypes, Known
  <2>2. CASE WaitForService
    BY <1>2, <2>2 DEF BusTypes, Known, Service, WaitForService, publisher, history
  <2> QED
    BY <2>1, <2>2
<1>4. Queues' /\ Once' /\ Wire'
  BY <1>1, <1>2 DEF BusTypes, Queues, Once, Wire, daemon
<1>5. Service' /\ Known'
  BY <1>1, <1>2, <1>3 DEF BusTypes, Service, Known, daemon
<1>6. Fresh'
  <2>1. Taken' \subseteq Taken
    BY <1>1 DEF Taken
  <2> QED
    BY <1>1, <1>2, <2>1, FreshKept
<1> QED
  BY <1>4, <1>5, <1>6 DEF BusInv, BusTypes

LEMMA RouteStep ==
    ASSUME BusInv, Route
    PROVE  BusInv'
<1> DEFINE msg == Head(outq)
           t == msg.task
           reply(r) == inbox' = Append(inbox, Answer(t, r))
<1>1. /\ outq # <<>> /\ outq' = Tail(outq)
      /\ UNCHANGED <<publisher, tasks, ready, monitor, history>>
  BY DEF Route
<1>2. /\ BusTypes /\ Once /\ Wire /\ Fresh /\ wrote \in Nat /\ owner \in Owned
      /\ inbox \in Seq(Message) /\ outq \in Seq(Request) /\ calls \in Seq(Request)
  BY DEF BusInv, BusTypes, Service, Queues
<1>3. /\ msg \in Request /\ Tail(outq) \in Seq(Request) /\ 1 \in DOMAIN outq /\ outq[1] = msg
  BY <1>1, <1>2, TailOf
<1>4. t \in Tasks /\ Asks(tasks[t].pc, msg.what)
  BY <1>2, <1>3, Shapes DEF Wire
<1>5. /\ Single(Tail(outq)) /\ Holders(Tail(outq)) = Holders(outq) \ {t} /\ t \in Holders(outq)
  BY <1>1, <1>2, SingleTail DEF Once
<1>6. t \notin Answered(inbox) /\ t \notin Holders(calls) /\ t \notin Holders(ready)
  BY <1>2, <1>5 DEF Once
<1>7. \A i \in DOMAIN Tail(outq) : Asks(tasks[Tail(outq)[i].task].pc, Tail(outq)[i].what)
  BY <1>1, <1>2, TailOf DEF Wire
<1>8. /\ Service' <=> (rules' \in Nat /\ (calls' # <<>> => owner # NoOne))
      /\ Known'
  BY <1>1, <1>2 DEF BusTypes, Service, Known, publisher, monitor, history
<1>9. Same(inbox)
  BY <1>2 DEF Once, Wire, Same
<1>10. ASSUME NEW r \in {<<>>, Error, Found(owner)}, Fits(tasks[t].pc, r), reply(r), calls' = calls,
              rules' \in Nat
       PROVE  BusInv'
  <2>1. r \in Body /\ Held(r) = {}
    BY <1>2, HeldNumbers DEF Body
  <2>2. /\ inbox' \in Seq(Message) /\ SingleReply(inbox') /\ Answered(inbox') = Answered(inbox) \union {t}
        /\ \A i \in Replies(inbox') : Fits(tasks'[inbox'[i].task].pc, inbox'[i].body)
    <3>1. tasks' = tasks
      BY <1>1
    <3> QED
      BY <1>2, <1>4, <1>6, <1>9, <1>10, <2>1, <3>1, Answering
  <2>3. Queues'
    BY <1>1, <1>2, <1>3, <1>10, <2>2 DEF BusTypes, Queues
  <2>4. Once'
    BY <1>1, <1>2, <1>5, <1>6, <1>10, <2>2 DEF Once
  <2>5. Wire'
    BY <1>1, <1>2, <1>7, <1>10, <2>2 DEF Wire
  <2>6. Fresh'
    <3> DEFINE a == Answer(t, r)
    <3>1. a \in Message /\ a.what = "reply" /\ Carried(a) = {}
      BY <1>4, <2>1, Made DEF Answer, Carried
    <3>2. inbox' = Append(inbox, a)
      BY <1>10
    <3> HIDE DEF a
    <3>3. Rising(inbox) /\ UpTo(inbox, wrote) /\ wrote <= wrote /\ wrote' = wrote
      BY <1>1, <1>2 DEF Fresh, publisher
    <3>4. /\ Rising(inbox') /\ UpTo(inbox', wrote')
          /\ \A V \in SUBSET Nat : Beyond(inbox, V) /\ (\A v \in V : v <= wrote) => Beyond(inbox', V)
      BY <1>2, <3>1, <3>2, <3>3, FreshAppend
    <3>5. \A p \in Paths : vals'[p] <= wrote'
      BY <1>1, <1>2 DEF Fresh, publisher
    <3> QED
      BY <1>1, <1>2, <3>3, <3>4, <3>5, FreshTold DEF monitor
  <2> QED
    BY <1>2, <1>8, <1>10, <2>3, <2>4, <2>5, <2>6 DEF BusInv, BusTypes, Service
<1>11. CASE msg.what \in {"match", "unmatch"}
  <2>1. reply(<<>>) /\ calls' = calls /\ rules' \in Nat
    BY <1>2, <1>11 DEF Route, BusTypes, Service
  <2>2. Fits(tasks[t].pc, <<>>)
    BY <1>4, <1>11 DEF Asks, Fits, Gathers
  <2> QED
    BY <1>10, <2>1, <2>2
<1>12. CASE msg.what \in {"names", "owner"}
  <2>1. reply(Found(owner)) /\ calls' = calls /\ rules' \in Nat
    BY <1>2, <1>12 DEF Route, BusTypes, Service, daemon
  <2>2. Fits(tasks[t].pc, Found(owner))
    BY <1>2, <1>4, <1>12 DEF Asks, Fits
  <2> QED
    BY <1>10, <2>1, <2>2
<1>13. CASE msg.what \in {"items", "get", "set"} /\ owner = NoOne
  <2>1. reply(Error) /\ calls' = calls /\ rules' \in Nat
    BY <1>2, <1>13 DEF Route, BusTypes, Service, daemon
  <2>2. Fits(tasks[t].pc, Error)
    BY <1>4, <1>13 DEF Asks, Fits
  <2> QED
    BY <1>10, <2>1, <2>2
<1>14. CASE msg.what \in {"items", "get", "set"} /\ owner # NoOne
  <2>1. calls' = Append(calls, msg) /\ UNCHANGED <<rules, inbox>>
    BY <1>14 DEF Route
  <2>2. Single(calls') /\ Holders(calls') = Holders(calls) \union {t}
    <3>1. Single(calls) /\ msg.task \notin Holders(calls)
      BY <1>2, <1>6 DEF Once
    <3> QED
      BY ONLY <1>2, <1>3, <2>1, <3>1, SingleAppend
  <2>3. Queues'
    BY <1>1, <1>2, <1>3, <2>1, EndOf DEF BusTypes, Queues
  <2>4. Once'
    BY <1>1, <1>2, <1>5, <1>6, <2>1, <2>2 DEF Once
  <2>5. Wire'
    <3>1. \A i \in DOMAIN calls' : /\ Asks(tasks[calls'[i].task].pc, calls'[i].what)
                                  /\ calls'[i].what \in {"items", "get", "set"}
      <4>1. \A i \in DOMAIN calls' : calls'[i] = msg \/ (i \in DOMAIN calls /\ calls'[i] = calls[i])
        BY <1>2, <1>3, <2>1, EndOf
      <4> QED
        BY <1>2, <1>4, <1>14, <4>1 DEF Wire
    <3> QED
      BY <1>1, <1>2, <1>7, <2>1, <3>1 DEF Wire
  <2>6. Service' /\ Known'
    BY <1>2, <1>8, <1>14, <2>1 DEF BusTypes, Service
  <2>7. Fresh'
    <3>1. Taken' \subseteq Taken
      BY <1>1 DEF Taken
    <3> QED
      BY <1>1, <1>2, <2>1, <3>1, FreshKept DEF publisher, monitor
  <2> QED
    BY <2>3, <2>4, <2>5, <2>6, <2>7 DEF BusInv, BusTypes
<1> QED
  BY <1>2, <1>3, <1>11, <1>12, <1>13, <1>14, Shapes

LEMMA ReadStep ==
    ASSUME BusInv, Read
    PROVE  BusInv'
<1> DEFINE msg == Head(inbox)
<1>1. /\ inbox # <<>> /\ inbox' = Tail(inbox)
      /\ UNCHANGED <<publisher, daemon, outq, services, byName, waiter, history>>
  BY DEF Read
<1>2. /\ BusTypes /\ Once /\ Wire /\ Fresh /\ wrote \in Nat /\ inbox \in Seq(Message)
      /\ tasks \in [Tasks -> Task] /\ ready \in Seq(Place)
      /\ cache \in [Conns -> [Paths -> [value : Nat, seen : BOOLEAN]]]
  BY DEF BusInv, BusTypes, Service, Queues, Known
<1>3. /\ msg \in Message /\ Tail(inbox) \in Seq(Message) /\ 1 \in DOMAIN inbox /\ inbox[1] = msg
      /\ \A i \in Replies(Tail(inbox)) : i + 1 \in Replies(inbox) /\ Tail(inbox)[i] = inbox[i + 1]
  BY <1>1, <1>2, TailOf DEF Replies
<1>4. /\ SingleReply(Tail(inbox)) /\ Answered(Tail(inbox)) \subseteq Answered(inbox)
      /\ msg.what = "reply" => msg.task \in Answered(inbox) /\ msg.task \notin Answered(Tail(inbox))
  BY <1>1, <1>2, ReplyTail DEF Once
<1>5. \A i \in Replies(Tail(inbox)) : Fits(tasks[Tail(inbox)[i].task].pc, Tail(inbox)[i].body)
  BY <1>2, <1>3 DEF Wire
<1>6. /\ Rising(Tail(inbox)) /\ UpTo(Tail(inbox), wrote)
      /\ \A v \in Carried(msg) : v <= wrote
      /\ Beyond(Tail(inbox), Carried(msg))
      /\ Beyond(Tail(inbox), Cached) /\ Beyond(Tail(inbox), Taken)
      /\ \A v \in Cached \union Taken : v <= wrote
  BY <1>1, <1>2, FreshTail DEF Fresh
<1>7. Service'
  BY <1>1, <1>2 DEF BusTypes, Service, publisher, daemon
\* Fresh once more, when no more is known than before and what was read.
<1>8. ASSUME Cached' \union Taken' \subseteq Cached \union Taken \union Carried(msg),
             \A c \in Conns, p \in Paths : ~cache'[c][p].seen => cache'[c][p].value = 0
      PROVE  Fresh'
  <2>1. Beyond(Tail(inbox), Cached') /\ Beyond(Tail(inbox), Taken')
    BY <1>6, <1>8 DEF Beyond
  <2>2. \A v \in Cached' \union Taken' : v <= wrote
    BY <1>6, <1>8
  <2>3. \A p \in Paths : vals[p] <= wrote
    BY <1>2 DEF Fresh
  <2> QED
    BY <1>1, <1>6, <1>8, <2>1, <2>2, <2>3 DEF Fresh, publisher
<1>9. CASE msg.what = "signal"
  <2>1. HandleSignal(msg) /\ UNCHANGED <<tasks, ready>>
    BY <1>9 DEF Read
  <2>2. msg.items \in Changes
    BY <1>3, <1>9, Shapes
  <2>3. \A p \in DOMAIN msg.items : msg.items[p] \in Nat /\ msg.items[p] \in Carried(msg)
    BY <1>9, <2>2 DEF Changes, Carried
  <2>4. cache' = cache \/ cache' = Updated(msg.items, msg.from)
    BY <2>1 DEF HandleSignal
  <2>5. cache' \in [Conns -> [Paths -> [value : Nat, seen : BOOLEAN]]]
    BY <1>2, <2>2, <2>4, CacheUpdated
  <2>6. ASSUME NEW c \in Conns, NEW p \in Paths
        PROVE  cache'[c][p] = cache[c][p] \/ (cache'[c][p].seen /\ cache'[c][p].value \in Carried(msg))
    <3>1. \/ cache'[c][p] = cache[c][p]
          \/ p \in DOMAIN msg.items /\ cache'[c][p] = [value |-> msg.items[p], seen |-> TRUE]
      <4> HIDE DEF msg
      <4>1. \A d \in Conns, r \in Paths :
              \/ Updated(msg.items, msg.from)[d][r] = cache[d][r]
              \/ /\ r \in DOMAIN msg.items
                 /\ Updated(msg.items, msg.from)[d][r] = [value |-> msg.items[r], seen |-> TRUE]
        BY <1>2, <2>2, CacheUpdated
      <4> QED
        BY <2>4, <4>1
    <3>2. CASE p \in DOMAIN msg.items /\ cache'[c][p] = [value |-> msg.items[p], seen |-> TRUE]
      BY <2>3, <3>2
    <3> QED
      BY <3>1, <3>2
  <2>7. Queues' /\ Once' /\ Wire'
    <3>1. Queues'
      BY <1>1, <1>2, <1>3, <2>1 DEF BusTypes, Queues, daemon
    <3>2. Once'
      BY <1>1, <1>2, <1>4, <2>1 DEF Once, daemon
    <3>3. Wire'
      BY <1>1, <1>2, <1>5, <2>1 DEF Wire, daemon
    <3> QED
      BY <3>1, <3>2, <3>3
  <2>8. Known'
    BY <1>1, <1>2, <2>1, <2>5 DEF BusTypes, Known, history
  <2>9. Fresh'
    <3>1. Cached' \subseteq Cached \union Carried(msg)
      <4>1. ASSUME NEW c \in Conns, NEW p \in Paths PROVE cache'[c][p].value \in Cached \union Carried(msg)
        BY <2>6 DEF Cached
      <4> QED
        BY <4>1 DEF Cached
    <3>2. Taken' = Taken
      BY <2>1 DEF Taken
    <3>3. \A c \in Conns, p \in Paths : ~cache'[c][p].seen => cache'[c][p].value = 0
      BY <1>2, <2>6 DEF Fresh
    <3> QED
      BY <1>8, <3>1, <3>2, <3>3
  <2> QED
    BY <1>7, <2>7, <2>8, <2>9 DEF BusInv, BusTypes
<1>10. CASE msg.what = "owner"
  <2>1. PICK t \in Tasks :
          /\ Free(t) /\ cache' = cache
          /\ tasks' = [tasks EXCEPT ![t] =
               IF msg.new = NoOne THEN [NoTask EXCEPT !.pc = "remove", !.conn = msg.old]
               ELSE [NoTask EXCEPT !.pc = "add", !.conn = msg.new]]
          /\ ready' = Append(ready, Schedule(t, 0))
    BY <1>10 DEF Read
  <2> DEFINE x == IF msg.new = NoOne THEN [NoTask EXCEPT !.pc = "remove", !.conn = msg.old]
                  ELSE [NoTask EXCEPT !.pc = "add", !.conn = msg.new]
             m == Schedule(t, 0)
  <2>2. x \in Task /\ x.body = <<>> /\ x.pc \in Running
    BY <1>3, <1>10, Shapes DEF NoTask, Task, Body, Pcs, Running
  <2>3. tasks' = [tasks EXCEPT ![t] = x] /\ ready' = Append(ready, m)
    BY <2>1
  <2>4. m \in Place /\ m.task = t
    BY Made DEF Schedule
  <2> HIDE DEF x, m
  <2>5. tasks[t].pc \notin Running \union Asking
    BY <2>1 DEF Free, Running, Asking
  <2>6. /\ t \notin Holders(outq) /\ t \notin Holders(calls)
        /\ t \notin Answered(inbox) /\ t \notin Holders(ready)
    BY <1>2, <2>5, IdleHoldsNothing
  <2>7. /\ tasks' \in [Tasks -> Task] /\ tasks'[t] = x /\ Taken' \subseteq Taken
        /\ \A i \in DOMAIN outq : Asks(tasks'[outq[i].task].pc, outq[i].what)
        /\ \A i \in DOMAIN calls : /\ Asks(tasks'[calls[i].task].pc, calls[i].what)
                                   /\ calls[i].what \in {"items", "get", "set"}
        /\ \A i \in Replies(inbox) : Fits(tasks'[inbox[i].task].pc, inbox[i].body)
        /\ \A i \in DOMAIN ready : \/ tasks'[ready[i].task].pc \in Running
                                   \/ Fits(tasks'[ready[i].task].pc, tasks'[ready[i].task].body)
    BY <1>2, <2>2, <2>3, <2>5, StartKeeps
  <2>8. Single(ready') /\ Holders(ready') = Holders(ready) \union {t}
    <3>1. Single(ready) /\ m.task \notin Holders(ready) /\ ready \in Seq(Place)
      BY <1>2, <2>4, <2>6 DEF Once
    <3>2. Single(ready') /\ Holders(ready') = Holders(ready) \union {m.task}
      BY ONLY <2>3, <2>4, <3>1, SingleAppend
    <3> QED
      BY <2>4, <3>2
  <2>9. Queues'
    BY <1>1, <1>2, <1>3, <2>3, <2>4, EndOf DEF BusTypes, Queues, daemon
  <2>10. Once'
    BY <1>1, <1>2, <1>4, <2>6, <2>8 DEF Once, daemon
  <2>11. Wire'
    <3>1. \A i \in DOMAIN ready' : \/ tasks'[ready'[i].task].pc \in Running
                                  \/ Fits(tasks'[ready'[i].task].pc, tasks'[ready'[i].task].body)
      BY <1>2, <2>2, <2>3, <2>4, <2>7, EndOf
    <3>2. \A i \in Replies(Tail(inbox)) : Fits(tasks'[Tail(inbox)[i].task].pc, Tail(inbox)[i].body)
      BY <1>3, <2>7
    <3> QED
      BY <1>1, <2>7, <3>1, <3>2 DEF Wire, daemon
  <2>12. Known'
    BY <1>1, <1>2, <2>1, <2>7 DEF BusTypes, Known, history
  <2>13. Fresh'
    <3>1. Cached' = Cached
      BY <2>1 DEF Cached
    <3>2. \A c \in Conns, p \in Paths : ~cache'[c][p].seen => cache'[c][p].value = 0
      BY <1>2, <2>1 DEF Fresh
    <3> QED
      BY <1>8, <2>7, <3>1, <3>2
  <2> QED
    BY <1>7, <2>9, <2>10, <2>11, <2>12, <2>13 DEF BusInv, BusTypes
<1>11. CASE msg.what = "reply"
  <2> DEFINE t == msg.task
             hops == IF tasks[t].pc \in Gathers THEN 2 ELSE 0
             m == Schedule(t, hops)
  <2>1. /\ cache' = cache /\ ready' = Append(ready, m)
        /\ tasks' = [tasks EXCEPT ![t].body = msg.body]
    BY <1>11 DEF Read
  <2>2. t \in Tasks /\ msg.body \in Body /\ tasks[t] \in Task
    BY <1>2, <1>3, <1>11, Shapes
  <2>3. m \in Place /\ m.task = t
    <3>1. hops \in Nat
      OBVIOUS
    <3> HIDE DEF hops
    <3> QED
      BY <2>2, <3>1, Made DEF Schedule
  <2> HIDE DEF m
  <2>4. /\ tasks' \in [Tasks -> Task] /\ tasks'[t].pc = tasks[t].pc /\ tasks'[t].body = msg.body
        /\ \A u \in Tasks : u # t => tasks'[u] = tasks[u]
    BY <1>2, <2>1, <2>2 DEF Task
  <2>5. /\ t \in Answered(inbox) /\ t \notin Answered(Tail(inbox))
        /\ t \notin Holders(outq) /\ t \notin Holders(calls) /\ t \notin Holders(ready)
    BY <1>2, <1>4, <1>11 DEF Once
  <2>6. Fits(tasks[t].pc, msg.body)
    <3>1. 1 \in Replies(inbox)
      BY <1>3, <1>11 DEF Replies
    <3> QED
      BY <1>2, <1>3, <3>1 DEF Wire
  <2>7. Single(ready') /\ Holders(ready') = Holders(ready) \union {t}
    <3>1. Single(ready) /\ m.task \notin Holders(ready) /\ ready \in Seq(Place)
      BY <1>2, <2>3, <2>5 DEF Once
    <3>2. Single(ready') /\ Holders(ready') = Holders(ready) \union {m.task}
      BY ONLY <2>1, <2>3, <3>1, SingleAppend
    <3> QED
      BY <2>3, <3>2
  <2>8. Queues'
    BY <1>1, <1>2, <1>3, <2>1, <2>3, EndOf DEF BusTypes, Queues, daemon
  <2>9. Once'
    BY <1>1, <1>2, <1>4, <2>5, <2>7 DEF Once, daemon
  <2>10. Wire'
    <3>1. \A i \in DOMAIN outq : Asks(tasks'[outq[i].task].pc, outq[i].what)
      <4>1. \A i \in DOMAIN outq : outq[i].task \in Tasks
        BY <1>2, Shapes DEF BusTypes, Queues
      <4> QED
        BY <1>2, <2>4, <4>1 DEF Wire
    <3>2. \A i \in DOMAIN calls : /\ Asks(tasks'[calls[i].task].pc, calls[i].what)
                                 /\ calls[i].what \in {"items", "get", "set"}
      <4>1. \A i \in DOMAIN calls : calls[i].task \in Tasks
        BY <1>2, Shapes DEF BusTypes, Queues
      <4> QED
        BY <1>2, <2>4, <4>1 DEF Wire
    <3>3. \A i \in Replies(Tail(inbox)) : Fits(tasks'[Tail(inbox)[i].task].pc, Tail(inbox)[i].body)
      <4>1. \A i \in Replies(Tail(inbox)) : Tail(inbox)[i].task \in Tasks
        BY <1>3, Shapes DEF Replies
      <4> QED
        BY <1>5, <2>4, <4>1
    <3>4. \A i \in DOMAIN ready : \/ tasks'[ready[i].task].pc \in Running
                                 \/ Fits(tasks'[ready[i].task].pc, tasks'[ready[i].task].body)
      <4>1. \A i \in DOMAIN ready : ready[i] \in Place
        BY <1>2
      <4>2. \A i \in DOMAIN ready : ready[i].task \in Tasks /\ ready[i].task # t
        BY <2>5, <4>1 DEF Holders, Place
      <4> QED
        BY <1>2, <2>4, <4>2 DEF Wire
    <3>5. \A i \in DOMAIN ready' : \/ tasks'[ready'[i].task].pc \in Running
                                  \/ Fits(tasks'[ready'[i].task].pc, tasks'[ready'[i].task].body)
      <4>1. \A i \in DOMAIN ready' : ready'[i] = m \/ (i \in DOMAIN ready /\ ready'[i] = ready[i])
        BY <1>2, <2>1, <2>3, EndOf
      <4> QED
        BY <2>3, <2>4, <2>6, <3>4, <4>1
    <3> QED
      BY <1>1, <3>1, <3>2, <3>3, <3>5 DEF Wire, daemon
  <2>11. Known'
    BY <1>1, <1>2, <2>1, <2>4 DEF BusTypes, Known, history
  <2>12. Fresh'
    <3>1. Cached' = Cached
      BY <2>1 DEF Cached
    <3>2. \A c \in Conns, p \in Paths : ~cache'[c][p].seen => cache'[c][p].value = 0
      BY <1>2, <2>1 DEF Fresh
    <3>3. Carried(msg) = Held(msg.body)
      BY <1>11 DEF Carried
    <3>4. Taken' \subseteq Taken \union Carried(msg)
      <4>1. ASSUME NEW u \in Tasks PROVE Held(tasks'[u].body) \subseteq Taken \union Carried(msg)
        BY <2>4, <3>3 DEF Taken
      <4> QED
        BY <4>1 DEF Taken
    <3> QED
      BY <1>8, <3>1, <3>2, <3>4
  <2> QED
    BY <1>7, <2>8, <2>9, <2>10, <2>11, <2>12 DEF BusInv, BusTypes
<1> QED
  BY <1>3, <1>9, <1>10, <1>11, Shapes

LEMMA LeaveStep ==
    ASSUME BusInv, Leave
    PROVE  BusInv'
<1> DEFINE m == Owners(owner, NoOne)
           q == Append(inbox, m)
           n == Len(calls)
           r == [i \in 1..n |-> Answer(calls[i].task, Error)]
<1>1. /\ owner # NoOne /\ owner' = NoOne /\ closing' = FALSE /\ hasty' = (hasty \/ byName # owner)
      /\ inbox' = inbox \o <<m>> \o r /\ calls' = <<>>
      /\ UNCHANGED <<lives, wrote, vals, rules, outq, tasks, ready, monitor, fetched, missed>>
  BY DEF Leave
<1>2. /\ BusTypes /\ Once /\ Wire /\ Fresh /\ wrote \in Nat /\ owner \in Owned
      /\ inbox \in Seq(Message) /\ calls \in Seq(Request)
  BY DEF BusInv, BusTypes, Service, Queues
<1>3. n \in Nat /\ DOMAIN calls = 1..n /\ \A i \in 1..n : calls[i] \in Request
  BY <1>2
<1>4. \A i \in 1..n : calls[i].task \in Tasks
  BY <1>3, Shapes
<1>5. m \in Message /\ m.what = "owner" /\ Carried(m) = {}
  BY <1>2, Made DEF Owners, Owned, Carried
<1>6. Same(q) /\ q \in Seq(Message)
  BY <1>2, <1>5, NoReply DEF Same
<1>7. \A i \in 1..n : /\ r[i] \in Message /\ r[i].what = "reply" /\ r[i].task = calls[i].task
                     /\ r[i].body = Error /\ Carried(r[i]) = {}
  BY <1>4, Made, HeldNumbers DEF Answer, Body, Carried
<1>8. r \in Seq(Message) /\ Len(r) = n
  BY <1>3, <1>7
<1>9. inbox' = q \o r
  <2> HIDE DEF m, r
  <2> QED
    BY <1>1, <1>2, <1>5
<1> HIDE DEF q, m, r
<1>10. /\ Len(q) \in Nat /\ inbox' \in Seq(Message) /\ DOMAIN q = 1..Len(q)
       /\ \A i \in DOMAIN inbox' :
            \/ i \in DOMAIN q /\ inbox'[i] = q[i]
            \/ i - Len(q) \in 1..n /\ inbox'[i] = r[i - Len(q)] /\ i > Len(q)
       /\ \A i \in DOMAIN q : i \in DOMAIN inbox' /\ inbox'[i] = q[i]
  BY <1>3, <1>6, <1>8, <1>9
<1>11. SingleReply(inbox') /\ Answered(inbox') \subseteq Answered(inbox) \union Holders(calls)
  <2>1. /\ SingleReply(q) /\ Answered(q) = Answered(inbox)
        /\ Single(calls) /\ Answered(inbox) \cap Holders(calls) = {}
    BY <1>2, <1>6 DEF Same, Once
  <2>2. \A i \in 1..n : r[i].task \in Holders(calls)
    BY <1>3, <1>7 DEF Holders
  <2>3. \A i \in Replies(q) : q[i].task \in Answered(inbox)
    BY <2>1 DEF Answered
  <2>4. \A i \in Replies(inbox') :
          \/ i \in Replies(q) /\ inbox'[i] = q[i]
          \/ i - Len(q) \in 1..n /\ inbox'[i] = r[i - Len(q)]
    BY <1>10 DEF Replies
  <2>5. ASSUME NEW i \in Replies(inbox'), NEW k \in Replies(inbox'), inbox'[i].task = inbox'[k].task
        PROVE  i = k
    <3>1. CASE i \in Replies(q) /\ inbox'[i] = q[i] /\ k \in Replies(q) /\ inbox'[k] = q[k]
      BY <2>1, <2>5, <3>1 DEF SingleReply
    <3>2. CASE /\ i - Len(q) \in 1..n /\ inbox'[i] = r[i - Len(q)]
               /\ k - Len(q) \in 1..n /\ inbox'[k] = r[k - Len(q)]
      <4>1. calls[i - Len(q)].task = calls[k - Len(q)].task
        BY <1>7, <2>5, <3>2
      <4>2. i - Len(q) = k - Len(q)
        BY <1>3, <2>1, <3>2, <4>1 DEF Single
      <4>3. i \in Int /\ k \in Int
        BY <1>10 DEF Replies
      <4> QED
        BY <1>10, <4>2, <4>3
    <3>3. CASE i \in Replies(q) /\ inbox'[i] = q[i] /\ k - Len(q) \in 1..n /\ inbox'[k] = r[k - Len(q)]
      BY <2>1, <2>2, <2>3, <2>5, <3>3
    <3>4. CASE k \in Replies(q) /\ inbox'[k] = q[k] /\ i - Len(q) \in 1..n /\ inbox'[i] = r[i - Len(q)]
      BY <2>1, <2>2, <2>3, <2>5, <3>4
    <3> QED
      BY <2>4, <3>1, <3>2, <3>3, <3>4
  <2>6. SingleReply(inbox')
    BY <2>5 DEF SingleReply
  <2>7. \A i \in Replies(inbox') : inbox'[i].task \in Answered(inbox) \union Holders(calls)
    BY <2>2, <2>3, <2>4
  <2> QED
    BY <2>6, <2>7 DEF Answered
<1>12. Queues'
  BY <1>1, <1>2, <1>10 DEF BusTypes, Queues
<1>13. Once'
  <2>1. Single(<<>>) /\ Holders(<<>>) = {}
    BY DEF Single, Holders
  <2> QED
    BY <1>1, <1>2, <1>11, <2>1 DEF Once
<1>14. Wire'
  <2>1. ASSUME NEW i \in 1..n PROVE Fits(tasks[calls[i].task].pc, Error)
    BY <1>2, <1>3 DEF Wire, Asks, Fits
  <2>2. \A i \in Replies(inbox') : Fits(tasks[inbox'[i].task].pc, inbox'[i].body)
    <3>1. \A i \in Replies(inbox') :
            \/ i \in Replies(q) /\ inbox'[i] = q[i]
            \/ i - Len(q) \in 1..n /\ inbox'[i] = r[i - Len(q)]
      BY <1>10 DEF Replies
    <3> QED
      BY <1>6, <1>7, <2>1, <3>1 DEF Same
  <2>3. \A i \in DOMAIN calls' : FALSE
    BY <1>1
  <2> QED
    BY <1>1, <1>2, <2>2, <2>3 DEF Wire
<1>15. Service' /\ Known'
  <2>1. hasty' \in BOOLEAN
    BY <1>1
  <2> QED
    BY <1>1, <1>2, <2>1 DEF BusTypes, Service, Known, monitor, Owned
<1>16. Fresh'
  <2>1. /\ Rising(inbox) /\ UpTo(inbox, wrote) /\ wrote <= wrote
        /\ \A v \in Carried(m) : v <= wrote
    BY <1>2, <1>5 DEF Fresh
  <2>2. /\ Rising(q) /\ UpTo(q, wrote)
        /\ \A V \in SUBSET Nat : Beyond(inbox, V) /\ (\A v \in V : v <= wrote) => Beyond(q, V)
    BY <1>2, <1>5, <2>1, FreshAppend DEF q
  <2>3. UpTo(inbox', wrote)
    BY <1>7, <1>10, <2>2 DEF UpTo
  <2>4. \A k \in DOMAIN inbox' : inbox'[k].what = "signal" => k \in DOMAIN q /\ inbox'[k] = q[k]
    BY <1>7, <1>10
  <2>5. Rising(inbox')
    <3> SUFFICES ASSUME NEW i \in DOMAIN inbox', NEW k \in DOMAIN inbox', i < k,
                        inbox'[k].what = "signal"
                 PROVE  \A v \in Carried(inbox'[i]), w \in Carried(inbox'[k]) : v < w
      BY DEF Rising
    <3>1. k \in DOMAIN q /\ inbox'[k] = q[k]
      BY <2>4
    <3>2. i \in DOMAIN q /\ inbox'[i] = q[i]
      <4>1. i \in Int /\ k \in Int /\ k <= Len(q)
        BY <1>10, <3>1
      <4> QED
        BY <1>10, <4>1
    <3> QED
      BY <2>2, <3>1, <3>2 DEF Rising
  <2>6. \A V : Beyond(q, V) => Beyond(inbox', V)
    BY <2>4 DEF Beyond
  <2>7. UNCHANGED <<cache, tasks>> /\ wrote' = wrote /\ vals' = vals
    BY <1>1 DEF monitor
  <2>8. \A p \in Paths : vals'[p] <= wrote'
    BY <1>2, <2>7 DEF Fresh
  <2> QED
    BY <1>2, <2>1, <2>2, <2>3, <2>5, <2>6, <2>7, <2>8, FreshTold
<1> QED
  BY <1>12, <1>13, <1>14, <1>15, <1>16 DEF BusInv, BusTypes

-----------------------------------------------------------------------------

LEMMA BusInit ==
    Init => BusInv
<1> SUFFICES ASSUME Init PROVE BusInv
  OBVIOUS
<1> DEFINE m == [what |-> "names", task |-> 1]
<1>1. /\ MaxLives \in Nat \ {0} /\ MaxCalls \in Nat /\ 1 \in Tasks
  BY BusAssumption DEF Tasks
<1>2. m \in Request /\ m.what = "names" /\ m.task = 1
  BY <1>1 DEF Request
<1>3. outq = <<m>> /\ calls = <<>> /\ inbox = <<>> /\ ready = <<>>
  BY DEF Init
<1> HIDE DEF m
<1>4. /\ outq \in Seq(Request) /\ DOMAIN outq = {1} /\ outq[1] = m
  BY <1>2, <1>3
<1>5. Queues
  BY <1>3, <1>4 DEF Queues
<1>6. /\ tasks \in [Tasks -> Task] /\ tasks[1].pc = "names" /\ \A t \in Tasks : tasks[t].body = <<>>
  BY <1>1 DEF Init, NoTask, Task, Pcs, Asking, Body, Owned, NoOne
<1>7. cache \in [Conns -> [Paths -> [value : Nat, seen : BOOLEAN]]]
  BY DEF Init, Unseen
<1>8. Service /\ Known
  <2>1. Service
    <3>1. owner = NoOne /\ lives = 0 /\ wrote = 0 /\ closing = FALSE /\ rules = 0 /\ calls = <<>>
      BY DEF Init
    <3>2. vals \in [Paths -> Nat]
      BY DEF Init
    <3>3. closing \in BOOLEAN
      BY <3>1
    <3> QED
      BY <1>1, <3>1, <3>2, <3>3 DEF Service, Owned
  <2>2. byName \in Owned
    BY DEF Init, Owned, NoOne, Absent
  <2>3. services = {} /\ fetched = {} /\ missed = {} /\ hasty = FALSE /\ waiter = "none"
    BY DEF Init
  <2> QED
    BY <1>6, <1>7, <2>1, <2>2, <2>3 DEF Known
<1>9. Once
  BY <1>3, <1>4 DEF Once, Single, SingleReply, Holders, Answered, Replies
<1>10. Wire
  BY <1>2, <1>3, <1>4, <1>6 DEF Wire, Asks, Replies
<1>11. Fresh
  <2>1. \A v \in Cached : v = 0
    BY DEF Init, Unseen, Cached
  <2>2. Taken = {}
    BY <1>6, HeldNumbers DEF Taken
  <2>3. Rising(inbox) /\ UpTo(inbox, wrote) /\ Beyond(inbox, Cached) /\ Beyond(inbox, Taken)
    BY <1>3 DEF Rising, UpTo, Beyond
  <2>4. wrote = 0 /\ \A p \in Paths : vals[p] = 0
    BY DEF Init
  <2>5. \A c \in Conns, p \in Paths : cache[c][p].value = 0
    BY DEF Init, Unseen
  <2> QED
    BY <2>1, <2>2, <2>3, <2>4, <2>5 DEF Fresh
<1> QED
  BY <1>5, <1>8, <1>9, <1>10, <1>11 DEF BusInv, BusTypes

LEMMA BusNext ==
    ASSUME BusInv, [Next]_vars
    PROVE  BusInv'
<1>1. CASE UNCHANGED vars
  BY <1>1 DEF vars, publisher, daemon, monitor, history, BusInv, BusTypes, Queues, Service, Known,
     Once, Wire, Fresh, Cached, Taken
<1>2. CASE Next
  BY <1>2, RegisterStep, CloseStep, LeaveStep, AnswerSetStep, AnswerGetStep, WriteStep, RouteStep,
     ReadStep, HopStep, ListSteps, ServiceSteps, CacheSteps, SetStep, CallStep DEF Next
<1> QED
  BY <1>1, <1>2

(* The queues, the tasks and the cache hold what their types say, each     *)
(* task one token, and signals are newer than what is ahead of them.       *)
THEOREM MonitorInvariant == Spec => []BusInv
<1>1. Init => BusInv
  BY BusInit
<1>2. BusInv /\ [Next]_vars => BusInv'
  BY BusNext
<1> QED
  BY <1>1, <1>2, PTL DEF Spec

-----------------------------------------------------------------------------
(* What a step may do to the cache.                                          *)

LEMMA Onwards ==
    ASSUME BusInv, Next, NEW c \in Conns, NEW p \in Paths,
           ~\E t \in Tasks : tasks[t].pc = "getting" /\ tasks'[t].pc = "got"
    PROVE  cache'[c][p].value >= cache[c][p].value
<1>1. /\ BusTypes /\ Wire /\ Fresh /\ cache[c][p].value \in Nat
      /\ cache \in [Conns -> [Paths -> [value : Nat, seen : BOOLEAN]]]
      /\ inbox \in Seq(Message)
  BY DEF BusInv, BusTypes, Known, Queues
<1>2. CASE cache' = cache
  BY <1>1, <1>2
<1>3. CASE Read
  <2> DEFINE msg == Head(inbox)
  <2>1. inbox # <<>>
    BY <1>3 DEF Read
  <2>2. msg \in Message /\ 1 \in DOMAIN inbox /\ inbox[1] = msg
    BY <1>1, <2>1, TailOf
  <2>3. cache' = cache \/ (msg.what = "signal" /\ cache' = Updated(msg.items, msg.from))
    BY <1>3 DEF Read, HandleSignal
  <2>4. CASE msg.what = "signal" /\ cache' = Updated(msg.items, msg.from)
    <3> HIDE DEF msg
    <3>1. msg.items \in Changes
      BY <2>2, <2>4, Shapes
    <3>2. \/ cache'[c][p] = cache[c][p]
          \/ p \in DOMAIN msg.items /\ cache'[c][p] = [value |-> msg.items[p], seen |-> TRUE]
      BY <1>1, <2>4, <3>1, CacheUpdated
    <3>3. CASE p \in DOMAIN msg.items /\ cache'[c][p] = [value |-> msg.items[p], seen |-> TRUE]
      <4>1. msg.items[p] \in Carried(msg) /\ msg.items[p] \in Nat
        BY <2>4, <3>1, <3>3 DEF Carried, Changes
      <4>2. cache[c][p].value \in Cached
        BY DEF Cached
      <4>3. cache[c][p].value < msg.items[p]
        BY <1>1, <2>2, <2>4, <4>1, <4>2 DEF Fresh, Beyond
      <4> QED
        BY <1>1, <3>3, <4>1, <4>3
    <3> QED
      BY <1>1, <3>2, <3>3
  <2> QED
    BY <1>2, <2>3, <2>4
<1>4. CASE \E t \in Tasks : Scanned(t)
  <2>1. PICK t \in Tasks : Scanned(t)
    BY <1>4
  <2>2. CASE /\ Runs(t, "scanning") /\ tasks[t].body # Error
             /\ cache' = UpdatedUnseen(tasks[t].body[2], tasks[t].conn)
    <3>1. Fits("scanning", tasks[t].body)
      BY <1>1, <2>2, TakenFits DEF Running
    <3>2. PICK f \in [Paths -> Nat] : tasks[t].body = Items(f)
      BY <2>2, <3>1 DEF Fits, Gathers
    <3>3. cache' = UpdatedUnseen(f, tasks[t].conn)
      BY <2>2, <3>2 DEF Items
    <3>4. \/ cache'[c][p] = cache[c][p]
          \/ ~cache[c][p].seen /\ cache'[c][p] = [value |-> f[p], seen |-> TRUE]
      BY <1>1, <3>3 DEF UpdatedUnseen
    <3>5. CASE ~cache[c][p].seen /\ cache'[c][p] = [value |-> f[p], seen |-> TRUE]
      <4>1. cache[c][p].value = 0 /\ f[p] \in Nat
        BY <1>1, <3>5 DEF Fresh
      <4> QED
        BY <3>5, <4>1
    <3> QED
      BY <1>1, <3>4, <3>5
  <2> QED
    BY <1>2, <2>1, <2>2 DEF Scanned
<1>5. CASE \E t \in Tasks : Fetched(t)
  <2>1. PICK t \in Tasks : Fetched(t)
    BY <1>5
  <2>2. tasks[t].pc = "getting" /\ tasks'[t].pc = "got"
    <3>1. tasks[t] \in Task /\ tasks \in [Tasks -> Task]
      BY <1>1 DEF BusTypes, Known
    <3> QED
      BY <2>1, <3>1 DEF Fetched, Runs, Goes, Task
  <2> QED
    BY <2>2
<1>6. CASE Register \/ Close \/ Leave \/ AnswerSet \/ AnswerGet \/ Route \/ Hop \/ WaitForService
  BY <1>2, <1>6 DEF Register, Close, Leave, AnswerSet, AnswerGet, Route, Hop, WaitForService, monitor
<1>7. CASE \E S \in SUBSET Paths \ {{}} : Write(S)
  BY <1>2, <1>7 DEF Write, monitor
<1>8. CASE \E t \in Tasks : \/ ListServices(t) \/ AddService(t) \/ SendMatches(t) \/ Scan(t)
                            \/ RemoveService(t) \/ Removed(t) \/ SetDone(t)
                            \/ \E r \in Paths, what \in {"get", "set"} : Call(t, r, what)
  BY <1>2, <1>8 DEF ListServices, AddService, SendMatches, Scan, RemoveService, Removed, SetDone,
     Call, monitor
<1> QED
  BY <1>3, <1>4, <1>5, <1>6, <1>7, <1>8 DEF Next

(* Whatever order signals, scans, announcements and restarts come in, only *)
(* fetch_value can put an older value over a newer one.                    *)
THEOREM OnlyForwards == Spec => NeverBackwards
<1>1. BusInv /\ [Next]_vars =>
        [\A c \in Conns, p \in Paths :
           \/ cache'[c][p].value >= cache[c][p].value
           \/ \E t \in Tasks : tasks[t].pc = "getting" /\ tasks'[t].pc = "got"]_vars
  BY Onwards
<1> QED
  BY <1>1, MonitorInvariant, PTL DEF Spec, NeverBackwards

-----------------------------------------------------------------------------
(* From here on: as long as no process has left before it was added.  A    *)
(* process that arrives, and one that leaves, each send one token through  *)
(* the queues: the announcement, then the task that follows it up.  A      *)
(* queue is seen as a lane of labels: which kind of token it is, at which  *)
(* stage of its way, and of which process.                                 *)

Lanes == {"in", "ready", "out", "call"}
Kinds == {"join", "part", "make", "signal", "other"}
Label == [kind : Kinds, stage : 0..11, conn : Owned]
Tag(kind, stage, c) == [kind |-> kind, stage |-> stage, conn |-> c]
Other == Tag("other", 0, NoOne)

\* The queue a token is in at each stage.
LaneOf(s) == IF s \in {0, 4, 10} THEN "in" ELSE IF s \in {3, 8} THEN "out"
             ELSE IF s = 9 THEN "call" ELSE "ready"

Stage(n, pc, hops) ==
    IF pc \in {"add", "remove"} THEN 1
    ELSE IF pc \in {"match", "unmatch"} THEN 2
    ELSE IF pc \in {"matching", "removing"}
      THEN (IF n = "out" THEN 3 ELSE IF n = "in" THEN 4 ELSE 7 - hops)
    ELSE IF n = "out" THEN 8 ELSE IF n = "call" THEN 9 ELSE IF n = "in" THEN 10 ELSE 11

\* Task 1 is that of create; the answer to it makes it add a process, too.
TaskLabel(n, t, hops, task, body) ==
    IF t = 1 THEN
      IF task.pc = "whose" /\ n \in {"in", "ready"} /\ body[2] # NoOne
        THEN Tag("make", IF n = "in" THEN 0 ELSE 1, body[2])
      ELSE IF task.pc = "add" THEN Tag("make", 2, task.conn) ELSE Other
    ELSE IF task.pc \in {"add", "match", "matching", "scanning"}
      THEN Tag("join", Stage(n, task.pc, hops), task.conn)
    ELSE IF task.pc \in {"remove", "unmatch", "removing"}
      THEN Tag("part", Stage(n, task.pc, hops), task.conn)
    ELSE Other

LabelOf(n, e, ts) ==
    IF n = "in" THEN
      IF e.what = "owner"
        THEN (IF e.new = NoOne THEN Tag("part", 0, e.old) ELSE Tag("join", 0, e.new))
      ELSE IF e.what = "signal" THEN Tag("signal", 0, e.from)
      ELSE TaskLabel(n, e.task, 0, ts[e.task], e.body)
    ELSE IF n = "ready" THEN TaskLabel(n, e.task, e.hops, ts[e.task], ts[e.task].body)
    ELSE TaskLabel(n, e.task, 0, ts[e.task], <<>>)

Lane(n, q, ts) == [i \in 1..Len(q) |-> LabelOf(n, q[i], ts)]
lanes == [n \in Lanes |-> IF n = "in" THEN Lane(n, inbox, tasks)
                          ELSE IF n = "ready" THEN Lane(n, ready, tasks)
                          ELSE IF n = "out" THEN Lane(n, outq, tasks)
                          ELSE Lane(n, calls, tasks)]

\* Who must be ahead of whom: at a later stage, or in front in the same queue.
Leads(x, y) == \/ x.kind = "part" /\ y.kind = "join"
               \/ x.kind \in {"make", "signal"} /\ y.kind = "part" /\ x.conn = y.conn
               \/ x.kind = "join" /\ y.kind = "make" /\ x.conn = y.conn

Sound(n, x) == x.kind # "other" =>
                  /\ LaneOf(x.stage) = n
                  /\ x.kind = "part" => x.stage <= 7
                  /\ x.kind = "make" => x.stage <= 2
                  /\ x.kind = "signal" => x.stage = 0

Ahead(x, i, y, k) == y.stage < x.stage \/ (y.stage = x.stage /\ i < k)

LaneInv(L) ==
    /\ L \in [Lanes -> Seq(Label)]
    /\ \A n \in Lanes : \A i \in DOMAIN L[n] : Sound(n, L[n][i])
    /\ \A n, m \in Lanes : \A i \in DOMAIN L[n], k \in DOMAIN L[m] :
         /\ L[n][i].kind \in {"join", "part"} /\ L[n][i].kind = L[m][k].kind => n = m /\ i = k
         /\ Leads(L[n][i], L[m][k]) => Ahead(L[n][i], i, L[m][k], k)

Labels(L) == UNION {{L[n][i] : i \in DOMAIN L[n]} : n \in Lanes}
Of(L, kind) == {x \in Labels(L) : x.kind = kind}
Joins == Of(lanes, "join")
Parts == Of(lanes, "part")
Upto(S, s) == \E x \in S : x.stage <= s

\* The process a leaving token is about.
Parted == IF owner = NoOne THEN lives ELSE lives - 1

Strands ==
    /\ tasks[1].pc \in {"names", "whose", "add", "done"}
    /\ \A t \in Tasks : /\ tasks[t].pc \in {"names", "whose"} => t = 1
                        /\ tasks[t].pc \notin {"undo", "undoing"}
                        /\ tasks[t].conn <= lives
                        /\ tasks[t].pc \in {"setting", "set"} => tasks[t].conn # NoOne
    /\ \A i \in DOMAIN ready :
         /\ ready[i].hops <= 2
         /\ ready[i].hops > 0 => tasks[ready[i].task].pc \in Gathers
         /\ tasks[ready[i].task].pc = "scanning" => tasks[ready[i].task].body # Error
    /\ \A i \in Replies(inbox) : tasks[inbox[i].task].pc = "scanning" => inbox[i].body # Error

Tokens ==
    /\ \A x \in Joins : x.conn = lives
    /\ \A x \in Parts : x.conn = Parted
    /\ \A x \in Of(lanes, "signal") : x.conn <= lives /\ (x.conn = lives => owner # NoOne \/ Parts # {})
    /\ \A x \in Of(lanes, "make") :
         /\ x.conn # NoOne /\ x.conn <= lives
         /\ x.conn \in services \/ \E y \in Joins : y.stage <= 1 /\ y.conn = x.conn

Registry ==
    /\ owner \in {NoOne, lives}
    /\ Joins # {} => owner # NoOne /\ ~closing
    /\ Parts # {} => Parted # NoOne /\ (owner # NoOne => Joins # {})
    /\ byName \in IF Parts # {} THEN {Parted}
                  ELSE IF owner # NoOne /\ Joins = {} THEN {lives} ELSE {Absent, Pending}
    /\ services = (IF Parts # {} THEN {Parted} ELSE {})
                    \union (IF owner # NoOne /\ ~Upto(Joins, 1) THEN {lives} ELSE {})
    /\ rules = (IF Upto(Parts, 3) THEN 1 ELSE 0)
                 + (IF owner # NoOne /\ ~Upto(Joins, 3) THEN 1 ELSE 0)
    /\ waiter # "lost" /\ (waiter = "waiting" => byName = Pending)

Protocol == LaneInv(lanes) /\ Strands /\ Tokens /\ Registry

-----------------------------------------------------------------------------
(* What the monitor shows of the present process.                          *)

Announces(m, p) == m.what = "signal" /\ m.from = lives /\ p \in DOMAIN m.items

\* The values of an item that are on their way, and what scans were told.
News(p) == {inbox[i].items[p] : i \in {k \in DOMAIN inbox : Announces(inbox[k], p)}}
Scans == {inbox[i].body : i \in {k \in Replies(inbox) : tasks[inbox[k].task].pc = "scanning"}}
           \union {tasks[ready[i].task].body :
                     i \in {k \in DOMAIN ready : tasks[ready[k].task].pc = "scanning"}}

Agrees(p) ==
    \/ vals[p] \in News(p)
    \/ /\ News(p) = {}
       /\ IF cache[lives][p].seen THEN cache[lives][p].value = vals[p]
          ELSE byName # lives /\ \A body \in Scans : body[2][p] = vals[p]

Shown ==
    /\ \A c \in Conns : c > lives => cache[c] = Unseen
    /\ \A p \in Paths : \A v \in News(p) : v <= vals[p]
    /\ owner # NoOne =>
         /\ \A p \in Paths \ (fetched \union missed) : Agrees(p)
         /\ \A p \in Paths \ fetched : cache[lives][p].seen => lives \in services

-----------------------------------------------------------------------------
(* What a caller of set_value finds in the cache.                          *)

Sets(t) == tasks[t].pc = "setting" /\ tasks[t].conn = lives
Shows(p, v) == cache[lives][p].value >= v

\* The call went to the process that is still known by name.
Addressed == \A t \in Tasks : Sets(t) /\ owner # NoOne => byName = lives

\* Its answer is in the cache, or a signal that says the same is on its way.
Promised == \A i \in Replies(inbox) : Sets(inbox[i].task) /\ inbox[i].body # Error =>
              \A p \in DOMAIN inbox[i].body[2] \ fetched :
                Shows(p, inbox[i].body[2][p]) \/ inbox[i].body[2][p] \in News(p)

ReadBack == \A t \in Tasks : tasks[t].conn = lives /\ tasks[t].pc \in {"setting", "set"}
                             /\ tasks[t].body \notin {<<>>, Error} =>
              \A p \in DOMAIN tasks[t].body[2] \ fetched : Shows(p, tasks[t].body[2][p])

Written == Addressed /\ Promised /\ ReadBack

-----------------------------------------------------------------------------
(* A label leaves a lane at the front, another enters one at the end.      *)

Popped(L, a) == [L EXCEPT ![a] = Tail(L[a])]
Pushed(L, b, l) == [L EXCEPT ![b] = Append(L[b], l)]

Shift(L, M, h, l) ==
    /\ \A kind \in {"join", "part"} :
         Of(M, kind) = (IF h.kind = kind THEN {} ELSE Of(L, kind))
                         \union (IF l.kind = kind THEN {l} ELSE {})
    /\ \A kind \in {"make", "signal"} :
         Of(M, kind) \subseteq Of(L, kind) \union (IF l.kind = kind THEN {l} ELSE {})

LEMMA Placed ==
    ASSUME NEW L, L \in [Lanes -> Seq(Label)]
    PROVE  /\ \A n \in Lanes : \A i \in DOMAIN L[n] : L[n][i] \in Labels(L) /\ L[n][i] \in Label
           /\ \A x \in Labels(L) : \E n \in Lanes : \E i \in DOMAIN L[n] : x = L[n][i]
           /\ \A x \in Labels(L) : x \in Label
           /\ \A x \in Label : x.kind \in Kinds /\ x.stage \in Nat /\ x.conn \in Owned
<1>1. \A n \in Lanes : \A i \in DOMAIN L[n] : L[n][i] \in Label
  OBVIOUS
<1> QED
  BY <1>1 DEF Labels, Label

LEMMA Popping ==
    ASSUME NEW L, LaneInv(L), NEW a \in Lanes, L[a] # <<>>, NEW h, h = Head(L[a])
    PROVE  /\ LaneInv(Popped(L, a)) /\ h \in Labels(L) /\ h \in Label /\ Sound(a, h)
           /\ Labels(Popped(L, a)) \subseteq Labels(L)
           /\ \A x \in Labels(L) : x = h \/ x \in Labels(Popped(L, a))
           /\ \A x \in Labels(Popped(L, a)) :
                /\ h.kind \in {"join", "part"} => x.kind # h.kind
                /\ Leads(x, h) => h.stage < x.stage
                /\ Leads(h, x) => x.stage <= h.stage
<1> DEFINE M == Popped(L, a)
<1>1. L \in [Lanes -> Seq(Label)] /\ L[a] \in Seq(Label)
  BY DEF LaneInv
<1>2. /\ Tail(L[a]) \in Seq(Label) /\ h = L[a][1] /\ 1 \in DOMAIN L[a]
      /\ \A i \in DOMAIN Tail(L[a]) : i + 1 \in DOMAIN L[a] /\ Tail(L[a])[i] = L[a][i + 1] /\ i \in Nat \ {0}
      /\ \A k \in DOMAIN L[a] : k # 1 => k - 1 \in DOMAIN Tail(L[a]) /\ Tail(L[a])[k - 1] = L[a][k]
  BY <1>1, TailOf
<1>3. /\ M \in [Lanes -> Seq(Label)] /\ M[a] = Tail(L[a])
      /\ \A n \in Lanes : n # a => M[n] = L[n]
  BY <1>1, <1>2 DEF Popped
<1> HIDE DEF M
\* Where a label of the popped lanes was.
<1> DEFINE was(n, i) == IF n = a THEN i + 1 ELSE i
<1>4. \A n \in Lanes : \A i \in DOMAIN M[n] :
        /\ was(n, i) \in DOMAIN L[n] /\ M[n][i] = L[n][was(n, i)] /\ i \in Nat \ {0}
        /\ was(n, i) \in Nat /\ (n = a => was(n, i) > 1)
  <2> SUFFICES ASSUME NEW n \in Lanes, NEW i \in DOMAIN M[n]
               PROVE  /\ was(n, i) \in DOMAIN L[n] /\ M[n][i] = L[n][was(n, i)] /\ i \in Nat \ {0}
                      /\ was(n, i) \in Nat /\ (n = a => was(n, i) > 1)
    OBVIOUS
  <2>1. CASE n = a
    BY <1>2, <1>3, <2>1
  <2>2. CASE n # a
    BY <1>1, <1>3, <2>2
  <2> QED
    BY <2>1, <2>2
<1>5. \A n \in Lanes : \A i, k \in Nat : (was(n, i) = was(n, k) => i = k) /\ (was(n, i) < was(n, k) => i < k)
  OBVIOUS
<1> HIDE DEF was
<1>6. \A x \in Labels(M) : \E n \in Lanes : \E i \in DOMAIN M[n] : x = M[n][i]
  BY <1>3, Placed
<1>7. Labels(M) \subseteq Labels(L)
  BY <1>1, <1>4, <1>6, Placed
<1>8. ASSUME NEW x \in Labels(L), x # h PROVE x \in Labels(M)
  <2>1. PICK n \in Lanes : \E i \in DOMAIN L[n] : x = L[n][i]
    BY <1>1, Placed
  <2>2. PICK i \in DOMAIN L[n] : x = L[n][i]
    BY <2>1
  <2>3. \E k \in DOMAIN M[n] : M[n][k] = x
    <3>1. CASE n # a
      BY <1>3, <2>2, <3>1
    <3>2. CASE n = a
      <4>1. i # 1
        BY <1>2, <1>8, <2>2, <3>2
      <4>2. i - 1 \in DOMAIN M[n] /\ M[n][i - 1] = x
        BY <1>2, <1>3, <2>2, <3>2, <4>1
      <4> QED
        BY <4>2
    <3> QED
      BY <3>1, <3>2
  <2> QED
    BY <1>3, <2>3, Placed
<1>9. /\ \A n \in Lanes : \A i \in DOMAIN L[n] : Sound(n, L[n][i])
      /\ \A n, m \in Lanes : \A i \in DOMAIN L[n], k \in DOMAIN L[m] :
           /\ L[n][i].kind \in {"join", "part"} /\ L[n][i].kind = L[m][k].kind => n = m /\ i = k
           /\ Leads(L[n][i], L[m][k]) => Ahead(L[n][i], i, L[m][k], k)
  BY DEF LaneInv
<1>10. LaneInv(M)
  <2>1. ASSUME NEW n \in Lanes, NEW m \in Lanes, NEW i \in DOMAIN M[n], NEW k \in DOMAIN M[m]
        PROVE  /\ M[n][i].kind \in {"join", "part"} /\ M[n][i].kind = M[m][k].kind => n = m /\ i = k
               /\ Leads(M[n][i], M[m][k]) => Ahead(M[n][i], i, M[m][k], k)
    <3>1. /\ was(n, i) \in DOMAIN L[n] /\ M[n][i] = L[n][was(n, i)] /\ i \in Nat /\ was(n, i) \in Nat
          /\ was(m, k) \in DOMAIN L[m] /\ M[m][k] = L[m][was(m, k)] /\ k \in Nat /\ was(m, k) \in Nat
      BY <1>4
    <3>2. M[n][i].kind \in {"join", "part"} /\ M[n][i].kind = M[m][k].kind => n = m /\ i = k
      BY <1>5, <1>9, <3>1
    <3>3. ASSUME Leads(M[n][i], M[m][k]) PROVE Ahead(M[n][i], i, M[m][k], k)
      <4>1. Ahead(M[n][i], was(n, i), M[m][k], was(m, k))
        BY <1>9, <3>1, <3>3
      <4>2. M[n][i].stage = M[m][k].stage => n = m
        BY <1>9, <3>1, <3>3 DEF Leads, Sound
      <4> QED
        BY <1>5, <3>1, <4>1, <4>2 DEF Ahead
    <3> QED
      BY <3>2, <3>3
  <2>2. \A n \in Lanes : \A i \in DOMAIN M[n] : Sound(n, M[n][i])
    BY <1>4, <1>9
  <2> QED
    BY <1>3, <2>1, <2>2 DEF LaneInv
<1>11. ASSUME NEW x \in Labels(M)
       PROVE  /\ h.kind \in {"join", "part"} => x.kind # h.kind
              /\ Leads(x, h) => h.stage < x.stage
              /\ Leads(h, x) => x.stage <= h.stage
  <2>1. PICK n \in Lanes : \E i \in DOMAIN M[n] : x = M[n][i]
    BY <1>6
  <2>2. PICK i \in DOMAIN M[n] : x = M[n][i]
    BY <2>1
  <2> DEFINE k == was(n, i)
  <2>3. k \in DOMAIN L[n] /\ x = L[n][k] /\ k \in Nat /\ (n = a => k > 1)
    BY <1>4, <2>2
  <2> HIDE DEF k
  <2>4. h.stage \in Nat /\ x.stage \in Nat
    BY <1>1, <1>2, <2>3, Placed
  <2>5. h.kind \in {"join", "part"} => x.kind # h.kind
    BY <1>2, <1>9, <2>3
  <2>6. Leads(x, h) => h.stage < x.stage
    <3>1. ASSUME Leads(x, h), h.stage = x.stage PROVE FALSE
      <4>1. n = a
        BY <1>2, <1>9, <2>3, <3>1 DEF Leads, Sound
      <4>2. Ahead(x, k, h, 1)
        BY <1>2, <1>9, <2>3, <3>1
      <4> QED
        BY <2>3, <2>4, <3>1, <4>1, <4>2 DEF Ahead
    <3>2. Leads(x, h) => Ahead(x, k, h, 1)
      BY <1>2, <1>9, <2>3
    <3> QED
      BY <2>4, <3>1, <3>2 DEF Ahead
  <2>7. Leads(h, x) => x.stage <= h.stage
    <3>1. Leads(h, x) => Ahead(h, 1, x, k)
      BY <1>2, <1>9, <2>3
    <3> QED
      BY <2>4, <3>1 DEF Ahead
  <2> QED
    BY <2>5, <2>6, <2>7
<1>12. h \in Labels(L) /\ h \in Label /\ Sound(a, h)
  BY <1>1, <1>2, <1>9, Placed
<1> QED
  BY <1>7, <1>8, <1>10, <1>11, <1>12 DEF M

\* A label may be pushed behind x.
Admits(x, l) == /\ l.kind \in {"join", "part"} => x.kind # l.kind
                /\ Leads(x, l) => l.stage <= x.stage
                /\ Leads(l, x) => x.stage < l.stage

LEMMA Pushing ==
    ASSUME NEW L, LaneInv(L), NEW b \in Lanes, NEW l \in Label, Sound(b, l),
           \A x \in Labels(L) : Admits(x, l)
    PROVE  LaneInv(Pushed(L, b, l)) /\ Labels(Pushed(L, b, l)) = Labels(L) \union {l}
<1> DEFINE M == Pushed(L, b, l)
           e == Len(L[b]) + 1
<1>1. L \in [Lanes -> Seq(Label)] /\ L[b] \in Seq(Label)
  BY DEF LaneInv
<1>2. /\ Append(L[b], l) \in Seq(Label) /\ Len(L[b]) \in Nat /\ e \in Nat
      /\ DOMAIN L[b] = 1..Len(L[b]) /\ DOMAIN Append(L[b], l) = 1..e
      /\ \A i \in DOMAIN L[b] : Append(L[b], l)[i] = L[b][i]
      /\ Append(L[b], l)[e] = l
  BY <1>1, EndOf
<1>3. /\ M \in [Lanes -> Seq(Label)] /\ M[b] = Append(L[b], l)
      /\ \A n \in Lanes : n # b => M[n] = L[n]
  BY <1>1, <1>2 DEF Pushed
<1> HIDE DEF M
<1>4. \A n \in Lanes : \A i \in DOMAIN M[n] : \/ i \in DOMAIN L[n] /\ M[n][i] = L[n][i]
                                              \/ n = b /\ i = e /\ M[n][i] = l
  BY <1>2, <1>3
<1>5. \A n \in Lanes : \A i \in DOMAIN L[n] : i \in DOMAIN M[n] /\ M[n][i] = L[n][i]
  <2>1. \A i \in DOMAIN L[b] : i \in DOMAIN M[b] /\ M[b][i] = L[b][i]
    BY <1>2, <1>3
  <2> QED
    BY <1>3, <2>1
<1>6. e \in DOMAIN M[b] /\ M[b][e] = l
  BY <1>2, <1>3
<1>7. \A i \in DOMAIN L[b] : i < e
  BY <1>2
<1> HIDE DEF e
<1>8. Labels(M) = Labels(L) \union {l}
  <2>1. Labels(M) \subseteq Labels(L) \union {l}
    <3>1. ASSUME NEW x \in Labels(M) PROVE x \in Labels(L) \union {l}
      <4>1. PICK n \in Lanes : \E i \in DOMAIN M[n] : x = M[n][i]
        BY <1>3, Placed
      <4>2. PICK i \in DOMAIN M[n] : x = M[n][i]
        BY <4>1
      <4> QED
        BY <1>1, <1>4, <4>2, Placed
    <3> QED
      BY <3>1
  <2>2. Labels(L) \subseteq Labels(M)
    <3>1. ASSUME NEW x \in Labels(L) PROVE x \in Labels(M)
      <4>1. PICK n \in Lanes : \E i \in DOMAIN L[n] : x = L[n][i]
        BY <1>1, Placed
      <4>2. PICK i \in DOMAIN L[n] : x = L[n][i]
        BY <4>1
      <4> QED
        BY <1>3, <1>5, <4>2, Placed
    <3> QED
      BY <3>1
  <2>3. l \in Labels(M)
    BY <1>3, <1>6, Placed
  <2> QED
    BY <2>1, <2>2, <2>3
<1>9. /\ \A n \in Lanes : \A i \in DOMAIN L[n] : Sound(n, L[n][i])
      /\ \A n, m \in Lanes : \A i \in DOMAIN L[n], k \in DOMAIN L[m] :
           /\ L[n][i].kind \in {"join", "part"} /\ L[n][i].kind = L[m][k].kind => n = m /\ i = k
           /\ Leads(L[n][i], L[m][k]) => Ahead(L[n][i], i, L[m][k], k)
  BY DEF LaneInv
<1>10. \A n \in Lanes : \A i \in DOMAIN M[n] : Sound(n, M[n][i])
  BY <1>4, <1>9
<1>11. ASSUME NEW n \in Lanes, NEW m \in Lanes, NEW i \in DOMAIN M[n], NEW k \in DOMAIN M[m]
       PROVE  /\ M[n][i].kind \in {"join", "part"} /\ M[n][i].kind = M[m][k].kind => n = m /\ i = k
              /\ Leads(M[n][i], M[m][k]) => Ahead(M[n][i], i, M[m][k], k)
  <2>1. CASE /\ i \in DOMAIN L[n] /\ M[n][i] = L[n][i] /\ k \in DOMAIN L[m] /\ M[m][k] = L[m][k]
    BY <1>9, <2>1
  <2>2. CASE i \in DOMAIN L[n] /\ M[n][i] = L[n][i] /\ m = b /\ k = e /\ M[m][k] = l
    <3>1. M[n][i] \in Labels(L) /\ M[n][i].stage \in Nat /\ l.stage \in Nat
      BY <1>1, <2>2, Placed
    <3>2. Leads(M[n][i], l) /\ M[n][i].stage = l.stage => n = b
      BY <1>9, <2>2 DEF Leads, Sound
    <3> QED
      BY <1>7, <2>2, <3>1, <3>2 DEF Ahead, Admits
  <2>3. CASE n = b /\ i = e /\ M[n][i] = l /\ k \in DOMAIN L[m] /\ M[m][k] = L[m][k]
    <3>1. M[m][k] \in Labels(L)
      BY <1>1, <2>3, Placed
    <3> QED
      BY <2>3, <3>1 DEF Ahead, Admits
  <2>4. CASE n = b /\ i = e /\ M[n][i] = l /\ m = b /\ k = e /\ M[m][k] = l
    BY <2>4 DEF Leads
  <2> QED
    BY <1>4, <2>1, <2>2, <2>3, <2>4
<1> QED
  BY <1>3, <1>8, <1>10, <1>11 DEF LaneInv, M

LEMMA Returning ==
    ASSUME NEW L, NEW P, LaneInv(P), NEW b \in Lanes, NEW h \in Label, NEW l \in Label, Sound(b, l),
           \/ l.kind = "other"
           \/ l.kind = h.kind /\ l.conn = h.conn /\ l.stage = h.stage + 1,
           h \in Labels(L), Labels(P) \subseteq Labels(L),
           \A x \in Labels(L) : x = h \/ x \in Labels(P),
           \A x \in Labels(P) : h.kind \in {"join", "part"} => x.kind # h.kind,
           \A x \in Labels(P) : Leads(x, h) => h.stage < x.stage,
           \A x \in Labels(P) : Leads(h, x) => x.stage <= h.stage
    PROVE  LaneInv(Pushed(P, b, l)) /\ Shift(L, Pushed(P, b, l), h, l)
<1> DEFINE M == Pushed(P, b, l)
<1>1. \A x \in Labels(P) : x \in Label /\ x.stage \in Nat
  BY Placed DEF LaneInv
<1>2. h.stage \in Nat /\ l.stage \in Nat
  BY DEF Label
<1>3. \A x \in Labels(P) : Admits(x, l)
  <2>1. CASE l.kind = "other"
    BY <2>1 DEF Leads, Admits
  <2>2. CASE l.kind = h.kind /\ l.conn = h.conn /\ l.stage = h.stage + 1
    <3>1. \A x \in Labels(P) : (Leads(x, l) => Leads(x, h)) /\ (Leads(l, x) => Leads(h, x))
      BY <2>2 DEF Leads
    <3> QED
      BY <1>1, <1>2, <2>2, <3>1 DEF Admits
  <2> QED
    BY <2>1, <2>2
<1>4. LaneInv(M) /\ Labels(M) = Labels(P) \union {l}
  <2>1. LaneInv(P) /\ b \in Lanes /\ l \in Label /\ Sound(b, l)
    OBVIOUS
  <2> QED
    BY ONLY <1>3, <2>1, Pushing
<1> HIDE DEF M
<1>5. ASSUME NEW kind \in {"join", "part"}
      PROVE  Of(M, kind) = (IF h.kind = kind THEN {} ELSE Of(L, kind))
                              \union (IF l.kind = kind THEN {l} ELSE {})
  <2>1. CASE h.kind = kind
    <3>1. \A x \in Labels(P) : x.kind # kind
      BY <1>5, <2>1
    <3> QED
      BY <1>4, <2>1, <3>1 DEF Of
  <2>2. CASE h.kind # kind
    <3>1. \A x : x \in Labels(P) /\ x.kind = kind <=> x \in Labels(L) /\ x.kind = kind
      BY <2>2
    <3> QED
      BY <1>4, <2>2, <3>1 DEF Of
  <2> QED
    BY <2>1, <2>2
<1>6. ASSUME NEW kind \in {"make", "signal"}
      PROVE  Of(M, kind) \subseteq Of(L, kind) \union (IF l.kind = kind THEN {l} ELSE {})
  BY <1>4 DEF Of
<1>7. Shift(L, M, h, l)
  BY <1>5, <1>6 DEF Shift
<1> QED
  BY <1>4, <1>7 DEF M

LEMMA Advancing ==
    ASSUME NEW L, LaneInv(L), NEW a \in Lanes, NEW b \in Lanes, L[a] # <<>>,
           NEW h, h = Head(L[a]), NEW l \in Label, Sound(b, l),
           \/ l.kind = "other"
           \/ l.kind = h.kind /\ l.conn = h.conn /\ l.stage = h.stage + 1
    PROVE  LaneInv(Pushed(Popped(L, a), b, l)) /\ Shift(L, Pushed(Popped(L, a), b, l), h, l)
<1>1. /\ LaneInv(Popped(L, a)) /\ h \in Labels(L) /\ h \in Label
      /\ Labels(Popped(L, a)) \subseteq Labels(L) /\ \A x \in Labels(L) : x = h \/ x \in Labels(Popped(L, a))
      /\ \A x \in Labels(Popped(L, a)) : h.kind \in {"join", "part"} => x.kind # h.kind
      /\ \A x \in Labels(Popped(L, a)) : Leads(x, h) => h.stage < x.stage
      /\ \A x \in Labels(Popped(L, a)) : Leads(h, x) => x.stage <= h.stage
  BY Popping
<1> QED
  BY <1>1, Returning

LEMMA Dropping ==
    ASSUME NEW L, LaneInv(L), NEW a \in Lanes, L[a] # <<>>, NEW h, h = Head(L[a])
    PROVE  LaneInv(Popped(L, a)) /\ Shift(L, Popped(L, a), h, Other)
<1> DEFINE P == Popped(L, a)
<1>1. /\ LaneInv(P) /\ h \in Labels(L)
      /\ Labels(P) \subseteq Labels(L) /\ \A x \in Labels(L) : x = h \/ x \in Labels(P)
      /\ \A x \in Labels(P) : h.kind \in {"join", "part"} => x.kind # h.kind
  BY Popping
<1> HIDE DEF P
<1>2. Other.kind = "other"
  BY DEF Other, Tag
<1>3. Shift(L, P, h, Other)
  BY <1>1, <1>2 DEF Shift, Of
<1> QED
  BY <1>1, <1>3 DEF P

\* A token enters the queues where they start, ahead of nobody.
LEMMA Entering ==
    ASSUME NEW L, LaneInv(L), NEW b \in Lanes, NEW l \in Label,
           \/ l.kind = "other"
           \/ b = "in" /\ l.stage = 0,
           \A x \in Labels(L) : /\ l.kind \in {"join", "part"} => x.kind # l.kind
                                /\ ~Leads(l, x)
    PROVE  LaneInv(Pushed(L, b, l)) /\ Shift(L, Pushed(L, b, l), Other, l)
<1> DEFINE M == Pushed(L, b, l)
<1>1. \A x \in Labels(L) : x \in Label /\ x.stage \in Nat
  BY Placed DEF LaneInv
<1>2. Sound(b, l)
  BY DEF Sound, LaneOf, Label
<1>3. \A x \in Labels(L) : Admits(x, l)
  BY <1>1 DEF Leads, Admits, Label
<1>4. LaneInv(M) /\ Labels(M) = Labels(L) \union {l}
  BY <1>2, <1>3, Pushing
<1> HIDE DEF M
<1>5. Other.kind = "other"
  BY DEF Other, Tag
<1>6. Shift(L, M, Other, l)
  BY <1>4, <1>5 DEF Shift, Of
<1> QED
  BY <1>4, <1>6 DEF M

\* The token at the front, among the others.
Foremost(L, h) ==
    /\ h.kind \in {"join", "part"} => Of(L, h.kind) = {h}
    /\ \A x \in Labels(L) :
         /\ x.stage \in Nat /\ x.conn \in Owned
         /\ Leads(x, h) => h.stage < x.stage
         /\ Leads(h, x) => x.stage <= h.stage

LEMMA Leading ==
    ASSUME NEW L, LaneInv(L), NEW a \in Lanes, L[a] # <<>>, NEW h, h = Head(L[a])
    PROVE  h \in Label /\ h \in Labels(L) /\ Sound(a, h) /\ Foremost(L, h)
<1>1. /\ h \in Labels(L) /\ h \in Label /\ Sound(a, h)
      /\ \A x \in Labels(L) : x = h \/ x \in Labels(Popped(L, a))
      /\ \A x \in Labels(Popped(L, a)) : /\ h.kind \in {"join", "part"} => x.kind # h.kind
                                         /\ Leads(x, h) => h.stage < x.stage
                                         /\ Leads(h, x) => x.stage <= h.stage
  BY Popping
<1>2. ~Leads(h, h)
  BY DEF Leads
<1>3. \A x \in Labels(L) : x.stage \in Nat /\ x.conn \in Owned
  BY Placed DEF LaneInv
<1>4. h.kind \in {"join", "part"} => Of(L, h.kind) = {h}
  BY <1>1 DEF Of
<1> QED
  BY <1>1, <1>2, <1>3, <1>4 DEF Foremost

\* Labels that stand for nothing may come and go.
LEMMA Padding ==
    ASSUME NEW L, LaneInv(L), NEW M, M \in [Lanes -> Seq(Label)],
           \A n \in Lanes : \A i \in DOMAIN M[n] :
             M[n][i].kind = "other" \/ (i \in DOMAIN L[n] /\ M[n][i] = L[n][i]),
           \A n \in Lanes : \A i \in DOMAIN L[n] :
             L[n][i].kind = "other" \/ (i \in DOMAIN M[n] /\ M[n][i] = L[n][i])
    PROVE  LaneInv(M) /\ \A kind \in Kinds \ {"other"} : Of(M, kind) = Of(L, kind)
<1>1. /\ \A n \in Lanes : \A i \in DOMAIN L[n] : Sound(n, L[n][i])
      /\ \A n, m \in Lanes : \A i \in DOMAIN L[n], k \in DOMAIN L[m] :
           /\ L[n][i].kind \in {"join", "part"} /\ L[n][i].kind = L[m][k].kind => n = m /\ i = k
           /\ Leads(L[n][i], L[m][k]) => Ahead(L[n][i], i, L[m][k], k)
      /\ L \in [Lanes -> Seq(Label)]
  BY DEF LaneInv
<1>2. \A n \in Lanes : \A i \in DOMAIN M[n] : Sound(n, M[n][i])
  BY <1>1 DEF Sound
<1>3. ASSUME NEW n \in Lanes, NEW m \in Lanes, NEW i \in DOMAIN M[n], NEW k \in DOMAIN M[m]
      PROVE  /\ M[n][i].kind \in {"join", "part"} /\ M[n][i].kind = M[m][k].kind => n = m /\ i = k
             /\ Leads(M[n][i], M[m][k]) => Ahead(M[n][i], i, M[m][k], k)
  <2>1. CASE M[n][i].kind = "other" \/ M[m][k].kind = "other"
    BY <2>1 DEF Leads
  <2>2. CASE M[n][i].kind # "other" /\ M[m][k].kind # "other"
    BY <1>1, <2>2
  <2> QED
    BY <2>1, <2>2
<1>4. ASSUME NEW kind \in Kinds \ {"other"} PROVE Of(M, kind) = Of(L, kind)
  <2>1. ASSUME NEW x \in Of(M, kind) PROVE x \in Of(L, kind)
    <3>1. PICK n \in Lanes : \E i \in DOMAIN M[n] : x = M[n][i]
      BY <2>1, Placed DEF Of
    <3>2. PICK i \in DOMAIN M[n] : x = M[n][i]
      BY <3>1
    <3>3. x.kind = kind /\ x.kind # "other"
      BY <2>1, <1>4 DEF Of
    <3>4. i \in DOMAIN L[n] /\ x = L[n][i]
      BY <3>2, <3>3
    <3>5. x \in Labels(L)
      BY <1>1, <3>4, Placed
    <3> QED
      BY <3>3, <3>5 DEF Of
  <2>2. ASSUME NEW x \in Of(L, kind) PROVE x \in Of(M, kind)
    <3>1. PICK n \in Lanes : \E i \in DOMAIN L[n] : x = L[n][i]
      BY <1>1, <2>2, Placed DEF Of
    <3>2. PICK i \in DOMAIN L[n] : x = L[n][i]
      BY <3>1
    <3>3. x.kind = kind /\ x.kind # "other"
      BY <2>2, <1>4 DEF Of
    <3>4. i \in DOMAIN M[n] /\ x = M[n][i]
      BY <3>2, <3>3
    <3>5. x \in Labels(M)
      BY <3>4, Placed
    <3> QED
      BY <3>3, <3>5 DEF Of
  <2> QED
    BY <2>1, <2>2
<1> QED
  BY <1>2, <1>3, <1>4 DEF LaneInv

-----------------------------------------------------------------------------
(* The lanes of queues that gain or lose an element.                       *)

LEMMA LaneFront ==
    ASSUME NEW S, NEW q \in Seq(S), q # <<>>, NEW n, NEW ts
    PROVE  /\ Lane(n, q, ts) # <<>> /\ Head(Lane(n, q, ts)) = LabelOf(n, Head(q), ts)
           /\ Lane(n, Tail(q), ts) = Tail(Lane(n, q, ts))
<1> DEFINE L == Lane(n, q, ts)
           T == {LabelOf(n, q[i], ts) : i \in 1..Len(q)}
<1>1. Len(q) \in Nat \ {0} /\ Head(q) = q[1] /\ Tail(q) \in Seq(S) /\ Len(Tail(q)) = Len(q) - 1
      /\ \A i \in 1..(Len(q) - 1) : Tail(q)[i] = q[i + 1]
  BY TailOf
<1>2. L \in Seq(T) /\ Len(L) = Len(q) /\ \A i \in 1..Len(q) : L[i] = LabelOf(n, q[i], ts)
  BY <1>1 DEF Lane
<1> HIDE DEF T
<1>3. /\ L # <<>> /\ Head(L) = LabelOf(n, q[1], ts)
  <2> HIDE DEF L
  <2> QED
    BY <1>1, <1>2
<1>4. Lane(n, Tail(q), ts) = [i \in 1..(Len(q) - 1) |-> LabelOf(n, q[i + 1], ts)]
  BY <1>1 DEF Lane
<1>5. Tail(L) = [i \in 1..(Len(q) - 1) |-> LabelOf(n, q[i + 1], ts)]
  <2> HIDE DEF L
  <2>1. /\ Tail(L) \in Seq(T) /\ Len(Tail(L)) = Len(q) - 1
        /\ \A i \in 1..(Len(q) - 1) : Tail(L)[i] = LabelOf(n, q[i + 1], ts)
    BY <1>1, <1>2, <1>3
  <2>2. Tail(L) \in [1..(Len(q) - 1) -> T]
    BY <2>1, LenProperties
  <2> QED
    BY <2>1, <2>2
<1> QED
  BY <1>1, <1>3, <1>4, <1>5

LEMMA LaneEnd ==
    ASSUME NEW S, NEW q \in Seq(S), NEW e \in S, NEW n, NEW ts
    PROVE  Lane(n, Append(q, e), ts) = Append(Lane(n, q, ts), LabelOf(n, e, ts))
<1> DEFINE L == Lane(n, q, ts)
           l == LabelOf(n, e, ts)
           T == {LabelOf(n, q[i], ts) : i \in 1..Len(q)} \union {l}
<1>1. /\ Len(q) \in Nat /\ Len(Append(q, e)) = Len(q) + 1 /\ Append(q, e)[Len(q) + 1] = e
      /\ \A i \in 1..Len(q) : Append(q, e)[i] = q[i]
  BY EndOf
<1>2. L \in Seq(T) /\ Len(L) = Len(q) /\ \A i \in 1..Len(q) : L[i] = LabelOf(n, q[i], ts)
  BY <1>1 DEF Lane
<1>3. Lane(n, Append(q, e), ts) = [i \in 1..(Len(q) + 1) |-> IF i = Len(q) + 1 THEN l ELSE L[i]]
  <2>1. \A i \in 1..(Len(q) + 1) :
          LabelOf(n, Append(q, e)[i], ts) = IF i = Len(q) + 1 THEN l ELSE L[i]
    BY <1>1, <1>2
  <2> HIDE DEF L, l
  <2> QED
    BY <1>1, <2>1 DEF Lane
<1>4. l \in T
  OBVIOUS
<1> HIDE DEF L, T, l
<1>5. Append(L, l) = [i \in 1..(Len(q) + 1) |-> IF i = Len(q) + 1 THEN l ELSE L[i]]
  <2>1. /\ Append(L, l) \in Seq(T) /\ Len(Append(L, l)) = Len(q) + 1
        /\ \A i \in 1..Len(q) : Append(L, l)[i] = L[i]
        /\ Append(L, l)[Len(q) + 1] = l
    BY <1>1, <1>2, <1>4
  <2>2. Append(L, l) \in [1..(Len(q) + 1) -> T]
    BY <2>1, LenProperties
  <2>3. \A i \in 1..(Len(q) + 1) : i = Len(q) + 1 \/ i \in 1..Len(q)
    BY <1>1
  <2>4. \A i \in 1..(Len(q) + 1) : Append(L, l)[i] = IF i = Len(q) + 1 THEN l ELSE L[i]
    BY <1>1, <2>1, <2>3
  <2> QED
    BY <2>2, <2>4
<1> QED
  BY <1>3, <1>5 DEF L, l

LEMMA LaneSame ==
    ASSUME NEW q, NEW n, NEW ts, NEW us,
           \A i \in 1..Len(q) : LabelOf(n, q[i], us) = LabelOf(n, q[i], ts)
    PROVE  Lane(n, q, us) = Lane(n, q, ts)
BY DEF Lane

AllBut(t, ts, us) == \A u \in Tasks : u # t => us[u] = ts[u]

\* A task that has no token in a queue does not show in its lane.
LEMMA ElsewhereIn ==
    ASSUME NEW t \in Tasks, NEW ts, NEW us, AllBut(t, ts, us),
           NEW q \in Seq(Message), t \notin Answered(q)
    PROVE  Lane("in", q, us) = Lane("in", q, ts)
<1>1. ASSUME NEW i \in 1..Len(q) PROVE LabelOf("in", q[i], us) = LabelOf("in", q[i], ts)
  <2>1. q[i] \in Message /\ i \in DOMAIN q
    OBVIOUS
  <2>2. q[i].what = "reply" => q[i].task \in Tasks /\ q[i].task # t
    BY <2>1, Shapes DEF Answered, Replies
  <2>3. q[i].what \in {"owner", "signal", "reply"}
    BY <2>1, Shapes
  <2> QED
    BY <2>2, <2>3 DEF LabelOf, AllBut
<1> QED
  BY <1>1, LaneSame

LEMMA ElsewhereReady ==
    ASSUME NEW t \in Tasks, NEW ts, NEW us, AllBut(t, ts, us),
           NEW q \in Seq(Place), t \notin Holders(q)
    PROVE  Lane("ready", q, us) = Lane("ready", q, ts)
<1>1. ASSUME NEW i \in 1..Len(q) PROVE LabelOf("ready", q[i], us) = LabelOf("ready", q[i], ts)
  <2>1. q[i] \in Place /\ i \in DOMAIN q
    OBVIOUS
  <2>2. q[i].task \in Tasks /\ q[i].task # t
    BY <2>1 DEF Holders, Place
  <2> QED
    BY <2>2 DEF LabelOf, AllBut
<1> QED
  BY <1>1, LaneSame

LEMMA ElsewhereAsked ==
    ASSUME NEW t \in Tasks, NEW ts, NEW us, AllBut(t, ts, us),
           NEW q \in Seq(Request), t \notin Holders(q)
    PROVE  Lane("out", q, us) = Lane("out", q, ts) /\ Lane("call", q, us) = Lane("call", q, ts)
<1> SUFFICES ASSUME NEW n \in {"out", "call"} PROVE Lane(n, q, us) = Lane(n, q, ts)
  OBVIOUS
<1>1. ASSUME NEW i \in 1..Len(q) PROVE LabelOf(n, q[i], us) = LabelOf(n, q[i], ts)
  <2>1. q[i] \in Request /\ i \in DOMAIN q
    OBVIOUS
  <2>2. q[i].task \in Tasks /\ q[i].task # t
    BY <2>1, Shapes DEF Holders
  <2> QED
    BY <2>2 DEF LabelOf, AllBut
<1> QED
  BY <1>1, LaneSame

IsLanes(L) == L = [n \in Lanes |-> L[n]]

LEMMA LanesAre ==
    /\ IsLanes(lanes)
    /\ lanes["in"] = Lane("in", inbox, tasks) /\ lanes["ready"] = Lane("ready", ready, tasks)
    /\ lanes["out"] = Lane("out", outq, tasks) /\ lanes["call"] = Lane("call", calls, tasks)
BY DEF lanes, Lanes, IsLanes

LEMMA PoppedLane ==
    ASSUME NEW L, IsLanes(L), NEW M, IsLanes(M), NEW a \in Lanes,
           \A n \in Lanes : n # a => M[n] = L[n], M[a] = Tail(L[a])
    PROVE  M = Popped(L, a)
BY DEF Popped, IsLanes

LEMMA PushedLane ==
    ASSUME NEW L, IsLanes(L), NEW M, IsLanes(M), NEW b \in Lanes, NEW l,
           \A n \in Lanes : n # b => M[n] = L[n], M[b] = Append(L[b], l)
    PROVE  M = Pushed(L, b, l)
BY DEF Pushed, IsLanes

LEMMA PassedLane ==
    ASSUME NEW L, IsLanes(L), NEW M, IsLanes(M),
           NEW a \in Lanes, NEW b \in Lanes, NEW l, a # b,
           \A n \in Lanes : n # a /\ n # b => M[n] = L[n], M[a] = Tail(L[a]), M[b] = Append(L[b], l)
    PROVE  M = Pushed(Popped(L, a), b, l)
BY DEF Popped, Pushed, IsLanes

LEMMA TurnedLane ==
    ASSUME NEW L, IsLanes(L), NEW M, IsLanes(M), NEW a \in Lanes, NEW l,
           \A n \in Lanes : n # a => M[n] = L[n], M[a] = Append(Tail(L[a]), l)
    PROVE  M = Pushed(Popped(L, a), a, l)
BY DEF Popped, Pushed, IsLanes

-----------------------------------------------------------------------------
(* A task runs: its token leaves the front of the event loop's queue, and  *)
(* goes to its end, to the daemon, or nowhere.                             *)

Follows(h, l) == \/ l.kind = "other"
                 \/ l.kind = h.kind /\ l.conn = h.conn /\ l.stage = h.stage + 1

Moved(h, l) == LaneInv(lanes') /\ Shift(lanes, lanes', h, l)

LEMMA RunLanes ==
    ASSUME BusTypes, Once, NEW t \in Tasks, NEW x \in Task, ready # <<>>, Head(ready) = Schedule(t, 0),
           tasks' = [tasks EXCEPT ![t] = x], UNCHANGED <<inbox, calls>>
    PROVE  /\ lanes["ready"] # <<>>
           /\ Head(lanes["ready"]) = TaskLabel("ready", t, 0, tasks[t], tasks[t].body)
           /\ ready' = Tail(ready) /\ outq' = outq => lanes' = Popped(lanes, "ready")
           /\ ready' = Append(Tail(ready), Schedule(t, 0)) /\ outq' = outq
                => lanes' = Pushed(Popped(lanes, "ready"), "ready", TaskLabel("ready", t, 0, x, x.body))
           /\ \A m \in Request : ready' = Tail(ready) /\ m.task = t /\ outq' = Append(outq, m)
                => lanes' = Pushed(Popped(lanes, "ready"), "out", TaskLabel("out", t, 0, x, <<>>))
<1>1. /\ ready \in Seq(Place) /\ Tail(ready) \in Seq(Place) /\ outq \in Seq(Request)
      /\ inbox \in Seq(Message) /\ calls \in Seq(Request)
      /\ Head(ready).task = t /\ Head(ready).hops = 0
      /\ Schedule(t, 0) \in Place /\ Schedule(t, 0).task = t /\ Schedule(t, 0).hops = 0
      /\ tasks'[t] = x /\ \A u \in Tasks : u # t => tasks'[u] = tasks[u]
  BY TailOf, Made DEF BusTypes, Queues, Known, Schedule
<1>2. /\ t \notin Holders(outq) /\ t \notin Holders(calls) /\ t \notin Answered(inbox)
      /\ t \notin Holders(Tail(ready))
  BY <1>1, SingleTail DEF Once
<1>3. /\ Lane("ready", ready, tasks) # <<>>
      /\ Head(Lane("ready", ready, tasks)) = LabelOf("ready", Head(ready), tasks)
      /\ Lane("ready", Tail(ready), tasks) = Tail(Lane("ready", ready, tasks))
  BY <1>1, LaneFront
<1>4. LabelOf("ready", Head(ready), tasks) = TaskLabel("ready", t, 0, tasks[t], tasks[t].body)
  BY <1>1 DEF LabelOf
<1>5. /\ Lane("in", inbox, tasks') = Lane("in", inbox, tasks)
      /\ Lane("ready", Tail(ready), tasks') = Lane("ready", Tail(ready), tasks)
      /\ Lane("out", outq, tasks') = Lane("out", outq, tasks)
      /\ Lane("call", calls, tasks') = Lane("call", calls, tasks)
  <2>1. t \in Tasks /\ AllBut(t, tasks, tasks')
    BY <1>1 DEF AllBut
  <2>2. inbox \in Seq(Message) /\ t \notin Answered(inbox)
    BY <1>1, <1>2
  <2>3. Tail(ready) \in Seq(Place) /\ t \notin Holders(Tail(ready))
    BY <1>1, <1>2
  <2>4. outq \in Seq(Request) /\ t \notin Holders(outq)
    BY <1>1, <1>2
  <2>5. calls \in Seq(Request) /\ t \notin Holders(calls)
    BY <1>1, <1>2
  <2>6. Lane("in", inbox, tasks') = Lane("in", inbox, tasks)
    BY ONLY <2>1, <2>2, ElsewhereIn
  <2>7. Lane("ready", Tail(ready), tasks') = Lane("ready", Tail(ready), tasks)
    <3>1. PICK q \in Seq(Place) : q = Tail(ready)
      BY ONLY <2>3
    <3>2. t \notin Holders(q)
      BY ONLY <2>3, <3>1
    <3>3. Lane("ready", q, tasks') = Lane("ready", q, tasks)
      BY ONLY <2>1, <3>2, ElsewhereReady
    <3> QED
      BY ONLY <3>1, <3>3
  <2>8. Lane("out", outq, tasks') = Lane("out", outq, tasks)
    BY ONLY <2>1, <2>4, ElsewhereAsked
  <2>9. Lane("call", calls, tasks') = Lane("call", calls, tasks)
    BY ONLY <2>1, <2>5, ElsewhereAsked
  <2> QED
    BY <2>6, <2>7, <2>8, <2>9
<1>6. /\ IsLanes(lanes) /\ IsLanes(lanes')
      /\ lanes["in"] = Lane("in", inbox, tasks) /\ lanes["ready"] = Lane("ready", ready, tasks)
      /\ lanes["out"] = Lane("out", outq, tasks) /\ lanes["call"] = Lane("call", calls, tasks)
      /\ lanes'["in"] = Lane("in", inbox', tasks') /\ lanes'["ready"] = Lane("ready", ready', tasks')
      /\ lanes'["out"] = Lane("out", outq', tasks') /\ lanes'["call"] = Lane("call", calls', tasks')
  BY LanesAre DEF lanes, Lanes, IsLanes
<1>11. IsLanes(lanes) /\ IsLanes(lanes')
  BY <1>6
<1>12. "ready" \in Lanes /\ "out" \in Lanes
  BY DEF Lanes
<1>7. lanes'["in"] = lanes["in"] /\ lanes'["call"] = lanes["call"]
  BY <1>5, <1>6
<1>8. ASSUME ready' = Tail(ready), outq' = outq PROVE lanes' = Popped(lanes, "ready")
  <2>1. lanes'["ready"] = Tail(lanes["ready"]) /\ lanes'["out"] = lanes["out"]
    BY <1>3, <1>5, <1>6, <1>8
  <2>2. \A n \in Lanes : n # "ready" => lanes'[n] = lanes[n]
    BY <1>7, <2>1 DEF Lanes
  <2> QED
    BY ONLY <1>11, <2>1, <2>2, <1>12, PoppedLane
<1>9. ASSUME ready' = Append(Tail(ready), Schedule(t, 0)), outq' = outq
      PROVE  lanes' = Pushed(Popped(lanes, "ready"), "ready", TaskLabel("ready", t, 0, x, x.body))
  <2>1. LabelOf("ready", Schedule(t, 0), tasks') = TaskLabel("ready", t, 0, x, x.body)
    BY <1>1 DEF LabelOf
  <2>2. Lane("ready", ready', tasks') =
          Append(Lane("ready", Tail(ready), tasks'), LabelOf("ready", Schedule(t, 0), tasks'))
    <3> DEFINE q == Tail(ready)
               m == Schedule(t, 0)
    <3>1. q \in Seq(Place) /\ m \in Place /\ ready' = Append(q, m)
      BY <1>1, <1>9
    <3> HIDE DEF q, m
    <3>2. Lane("ready", ready', tasks') = Append(Lane("ready", q, tasks'), LabelOf("ready", m, tasks'))
      BY ONLY <3>1, LaneEnd
    <3> QED
      BY <3>2 DEF q, m
  <2>3. /\ lanes'["ready"] = Append(Tail(lanes["ready"]), TaskLabel("ready", t, 0, x, x.body))
        /\ lanes'["out"] = lanes["out"]
    BY <1>3, <1>5, <1>6, <1>9, <2>1, <2>2
  <2>4. \A n \in Lanes : n # "ready" => lanes'[n] = lanes[n]
    BY <1>7, <2>3 DEF Lanes
  <2> QED
    BY ONLY <1>11, <2>3, <2>4, <1>12, TurnedLane
<1>10. ASSUME NEW m \in Request, ready' = Tail(ready), m.task = t, outq' = Append(outq, m)
       PROVE  lanes' = Pushed(Popped(lanes, "ready"), "out", TaskLabel("out", t, 0, x, <<>>))
  <2>1. LabelOf("out", m, tasks') = TaskLabel("out", t, 0, x, <<>>)
    BY <1>1, <1>10 DEF LabelOf
  <2>2. Lane("out", outq', tasks') = Append(Lane("out", outq, tasks'), LabelOf("out", m, tasks'))
    <3>1. outq \in Seq(Request) /\ m \in Request /\ outq' = Append(outq, m)
      BY <1>1, <1>10
    <3> QED
      BY ONLY <3>1, LaneEnd
  <2>3. /\ lanes'["ready"] = Tail(lanes["ready"])
        /\ lanes'["out"] = Append(lanes["out"], TaskLabel("out", t, 0, x, <<>>))
    BY <1>3, <1>5, <1>6, <1>10, <2>1, <2>2
  <2>4. \A n \in Lanes : n # "ready" /\ n # "out" => lanes'[n] = lanes[n]
    BY <1>7, <2>3 DEF Lanes
  <2> QED
    BY ONLY <1>11, <2>3, <2>4, <1>12, PassedLane
<1> QED
  BY <1>3, <1>4, <1>6, <1>8, <1>9, <1>10

LEMMA OtherLabel == Other \in Label /\ Other.kind = "other" /\ \A n : Sound(n, Other)
BY DEF Other, Tag, Label, Kinds, Owned, Sound

LEMMA RunMoves ==
    ASSUME BusTypes, Once, LaneInv(lanes), NEW t \in Tasks, NEW x \in Task,
           ready # <<>>, Head(ready) = Schedule(t, 0),
           tasks' = [tasks EXCEPT ![t] = x], UNCHANGED <<inbox, calls>>,
           NEW h, h = TaskLabel("ready", t, 0, tasks[t], tasks[t].body), NEW l \in Label, Follows(h, l),
           \/ ready' = Tail(ready) /\ outq' = outq /\ l = Other
           \/ /\ ready' = Append(Tail(ready), Schedule(t, 0)) /\ outq' = outq
              /\ l = TaskLabel("ready", t, 0, x, x.body) /\ Sound("ready", l)
           \/ /\ ready' = Tail(ready) /\ \E m \in Request : m.task = t /\ outq' = Append(outq, m)
              /\ l = TaskLabel("out", t, 0, x, <<>>) /\ Sound("out", l)
    PROVE  Moved(h, l)
<1>1. /\ lanes["ready"] # <<>> /\ Head(lanes["ready"]) = h
      /\ ready' = Tail(ready) /\ outq' = outq => lanes' = Popped(lanes, "ready")
      /\ ready' = Append(Tail(ready), Schedule(t, 0)) /\ outq' = outq
           => lanes' = Pushed(Popped(lanes, "ready"), "ready", TaskLabel("ready", t, 0, x, x.body))
      /\ \A m \in Request : ready' = Tail(ready) /\ m.task = t /\ outq' = Append(outq, m)
           => lanes' = Pushed(Popped(lanes, "ready"), "out", TaskLabel("out", t, 0, x, <<>>))
  BY RunLanes
<1>2. "ready" \in Lanes /\ "out" \in Lanes
  BY DEF Lanes
<1>3. CASE ready' = Tail(ready) /\ outq' = outq /\ l = Other
  BY <1>1, <1>2, <1>3, Dropping DEF Moved
<1>4. CASE /\ ready' = Append(Tail(ready), Schedule(t, 0)) /\ outq' = outq
           /\ l = TaskLabel("ready", t, 0, x, x.body) /\ Sound("ready", l)
  <2>1. lanes' = Pushed(Popped(lanes, "ready"), "ready", l)
    BY <1>1, <1>4
  <2> QED
    BY <1>1, <1>2, <1>4, <2>1, Advancing DEF Moved, Follows
<1>5. CASE /\ ready' = Tail(ready) /\ \E m \in Request : m.task = t /\ outq' = Append(outq, m)
           /\ l = TaskLabel("out", t, 0, x, <<>>) /\ Sound("out", l)
  <2>1. lanes' = Pushed(Popped(lanes, "ready"), "out", l)
    BY <1>1, <1>5
  <2> QED
    BY <1>1, <1>2, <1>5, <2>1, Advancing DEF Moved, Follows
<1> QED
  BY <1>3, <1>4, <1>5

-----------------------------------------------------------------------------
(* Steps after which the tokens stand for the same as before.              *)

LEMMA RunHead ==
    ASSUME BusTypes, LaneInv(lanes), NEW t \in Tasks, ready # <<>>, Head(ready) = Schedule(t, 0),
           NEW h, h = TaskLabel("ready", t, 0, tasks[t], tasks[t].body)
    PROVE  h \in Label /\ h \in Labels(lanes) /\ Sound("ready", h) /\ Foremost(lanes, h)
<1>1. ready \in Seq(Place)
  BY DEF BusTypes, Queues
<1>2. /\ Lane("ready", ready, tasks) # <<>>
      /\ Head(Lane("ready", ready, tasks)) = LabelOf("ready", Head(ready), tasks)
  BY <1>1, LaneFront
<1>3. LabelOf("ready", Head(ready), tasks) = h
  BY DEF LabelOf, Schedule
<1>4. lanes["ready"] # <<>> /\ h = Head(lanes["ready"]) /\ "ready" \in Lanes
  BY <1>2, <1>3, LanesAre DEF Lanes
<1> QED
  BY <1>4, Leading

\* The token of an arriving or a leaving process goes on, none is lost.
LEMMA OnTheWay ==
    ASSUME Tokens, Registry, NEW h \in Label, NEW l \in Label, Moved(h, l), Follows(h, l),
           h.kind \in {"make", "signal"} => h \in Labels(lanes),
           h.kind \in {"join", "part"} => Of(lanes, h.kind) = {h} /\ l.kind = h.kind,
           h.kind = "join" => h.stage \notin {1, 3}, h.kind = "part" => h.stage # 3,
           UNCHANGED <<owner, lives, closing, byName, services, rules, waiter>>
    PROVE  Tokens' /\ Registry'
<1>1. /\ Joins' = IF h.kind = "join" THEN {l} ELSE Joins
      /\ Parts' = IF h.kind = "part" THEN {l} ELSE Parts
      /\ \A x \in Of(lanes', "signal") : \E y \in Of(lanes, "signal") : y.conn = x.conn
      /\ \A x \in Of(lanes', "make") : \E y \in Of(lanes, "make") : y.conn = x.conn
  BY DEF Moved, Shift, Joins, Parts, Follows, Of
<1>2. h.kind = "join" => Joins = {h} /\ l.conn = h.conn /\ l.stage = h.stage + 1
  BY DEF Joins, Follows
<1>3. h.kind = "part" => Parts = {h} /\ l.conn = h.conn /\ l.stage = h.stage + 1
  BY DEF Parts, Follows
<1>4. h.stage \in Nat /\ l.stage \in Nat
  BY DEF Label
<1>5. /\ Upto(Joins', 1) <=> Upto(Joins, 1)
      /\ Upto(Joins', 3) <=> Upto(Joins, 3)
      /\ Upto(Parts', 3) <=> Upto(Parts, 3)
  <2>1. CASE h.kind = "join"
    BY <1>1, <1>2, <1>4, <2>1 DEF Upto
  <2>2. CASE h.kind = "part"
    BY <1>1, <1>3, <1>4, <2>2 DEF Upto
  <2>3. CASE h.kind \notin {"join", "part"}
    BY <1>1, <2>3
  <2> QED
    BY <2>1, <2>2, <2>3
<1>6. (Joins' = {} <=> Joins = {}) /\ (Parts' = {} <=> Parts = {})
  BY <1>1, <1>2, <1>3
<1>7. Registry'
  BY <1>5, <1>6 DEF Registry, Parted
<1>8. Tokens'
  <2>1. Parted' = Parted
    BY DEF Parted
  <2>2. \A x \in Joins' : x.conn = lives
    BY <1>1, <1>2 DEF Tokens
  <2>3. \A x \in Parts' : x.conn = Parted
    BY <1>1, <1>3 DEF Tokens
  <2>4. \A x \in Of(lanes', "signal") : x.conn <= lives /\ (x.conn = lives => owner # NoOne \/ Parts' # {})
    BY <1>1, <1>6 DEF Tokens
  <2>5. ASSUME NEW x \in Of(lanes', "make")
        PROVE  /\ x.conn # NoOne /\ x.conn <= lives
               /\ x.conn \in services \/ \E y \in Joins' : y.stage <= 1 /\ y.conn = x.conn
    <3>1. PICK z \in Of(lanes, "make") : z.conn = x.conn
      BY <1>1
    <3>2. /\ z.conn # NoOne /\ z.conn <= lives
          /\ z.conn \in services \/ \E y \in Joins : y.stage <= 1 /\ y.conn = z.conn
      BY DEF Tokens
    <3>3. ASSUME NEW y \in Joins, y.stage <= 1, y.conn = z.conn
          PROVE  \E w \in Joins' : w.stage <= 1 /\ w.conn = x.conn
      <4>1. CASE h.kind = "join"
        BY <1>1, <1>2, <1>4, <3>1, <3>3, <4>1
      <4>2. CASE h.kind # "join"
        BY <1>1, <3>1, <3>3, <4>2
      <4> QED
        BY <4>1, <4>2
    <3> QED
      BY <3>1, <3>2, <3>3
  <2> QED
    BY <2>1, <2>2, <2>3, <2>4, <2>5 DEF Tokens
<1> QED
  BY <1>7, <1>8

\* A task that runs keeps to the courses that the invariant allows.
LEMMA StrandsRun ==
    ASSUME BusTypes, Strands, NEW t \in Tasks, NEW x \in Task, tasks' = [tasks EXCEPT ![t] = x],
           ready # <<>>, Head(ready) = Schedule(t, 0), Once,
           \/ ready' = Tail(ready)
           \/ ready' = Append(Tail(ready), Schedule(t, 0)) /\ x.pc \in Running,
           UNCHANGED <<inbox, lives>>,
           t = 1 => x.pc \in {"names", "whose", "add", "done"},
           t # 1 => x.pc \notin {"names", "whose"},
           x.pc \notin {"undo", "undoing"}, x.conn <= lives,
           x.pc \in {"setting", "set"} => x.conn # NoOne
    PROVE  Strands'
<1>1. /\ tasks \in [Tasks -> Task] /\ 1 \in Tasks /\ tasks'[t] = x
      /\ \A u \in Tasks : u # t => tasks'[u] = tasks[u]
      /\ ready \in Seq(Place) /\ Tail(ready) \in Seq(Place) /\ Head(ready).task = t
      /\ inbox \in Seq(Message) /\ Schedule(t, 0) \in Place
      /\ Schedule(t, 0).task = t /\ Schedule(t, 0).hops = 0
  <2>1. 1 \in Tasks
    BY BusAssumption DEF Tasks
  <2> QED
    BY <2>1, TailOf, Made DEF BusTypes, Known, Queues, Schedule
<1>2. t \notin Holders(Tail(ready)) /\ t \notin Answered(inbox)
  BY <1>1, SingleTail DEF Once
<1>3. tasks'[1].pc \in {"names", "whose", "add", "done"}
  BY <1>1 DEF Strands
<1>4. \A u \in Tasks : /\ tasks'[u].pc \in {"names", "whose"} => u = 1
                       /\ tasks'[u].pc \notin {"undo", "undoing"}
                       /\ tasks'[u].conn <= lives
                       /\ tasks'[u].pc \in {"setting", "set"} => tasks'[u].conn # NoOne
  BY <1>1 DEF Strands
<1>5. ASSUME NEW i \in DOMAIN Tail(ready), NEW e, e = Tail(ready)[i]
      PROVE  /\ e.hops <= 2 /\ (e.hops > 0 => tasks'[e.task].pc \in Gathers)
             /\ tasks'[e.task].pc = "scanning" => tasks'[e.task].body # Error
  <2>1. i + 1 \in DOMAIN ready /\ e = ready[i + 1]
    BY <1>1, <1>5, TailOf
  <2>2. e.task \in Tasks /\ e.task # t
    <3>1. e \in Place
      BY <1>1, <1>5
    <3> QED
      BY <1>2, <1>5, <3>1 DEF Place, Holders
  <2>3. tasks'[e.task] = tasks[e.task]
    BY <1>1, <2>2
  <2> QED
    BY <2>1, <2>3 DEF Strands
<1>6. \A i \in DOMAIN ready' :
        /\ ready'[i].hops <= 2
        /\ ready'[i].hops > 0 => tasks'[ready'[i].task].pc \in Gathers
        /\ tasks'[ready'[i].task].pc = "scanning" => tasks'[ready'[i].task].body # Error
  <2>1. CASE ready' = Tail(ready)
    BY <1>5, <2>1
  <2>2. CASE ready' = Append(Tail(ready), Schedule(t, 0)) /\ x.pc \in Running
    <3>1. \A i \in DOMAIN ready' : \/ i \in DOMAIN Tail(ready) /\ ready'[i] = Tail(ready)[i]
                                   \/ ready'[i] = Schedule(t, 0)
      BY <1>1, <2>2, EndOf
    <3> QED
      BY <1>1, <1>5, <2>2, <3>1 DEF Running
  <2> QED
    BY <2>1, <2>2
<1>7. \A i \in Replies(inbox') : tasks'[inbox'[i].task].pc = "scanning" => inbox'[i].body # Error
  <2>1. ASSUME NEW i \in Replies(inbox) PROVE tasks'[inbox[i].task] = tasks[inbox[i].task]
    <3>1. inbox[i].task \in Tasks /\ inbox[i].task # t
      BY <1>1, <1>2, Shapes DEF Replies, Answered
    <3> QED
      BY <1>1, <3>1
  <2> QED
    BY <2>1 DEF Strands
<1> QED
  BY <1>3, <1>4, <1>6, <1>7 DEF Strands

-----------------------------------------------------------------------------
(* The steps of the tasks that change no register.                         *)

LEMMA TagIs ==
    ASSUME NEW kind \in Kinds, NEW s \in 0..11, NEW c \in Owned
    PROVE  /\ Tag(kind, s, c) \in Label
           /\ Tag(kind, s, c).kind = kind /\ Tag(kind, s, c).stage = s /\ Tag(kind, s, c).conn = c
BY DEF Tag, Label

LEMMA Arriving ==
    ASSUME NEW t, t # 1, NEW task, NEW body
    PROVE  /\ task.pc = "add" => TaskLabel("ready", t, 0, task, body) = Tag("join", 1, task.conn)
           /\ task.pc = "match" => TaskLabel("ready", t, 0, task, body) = Tag("join", 2, task.conn)
           /\ task.pc = "matching" =>
                /\ TaskLabel("out", t, 0, task, body) = Tag("join", 3, task.conn)
                /\ TaskLabel("in", t, 0, task, body) = Tag("join", 4, task.conn)
                /\ \A hops : TaskLabel("ready", t, hops, task, body) = Tag("join", 7 - hops, task.conn)
           /\ task.pc = "scanning" =>
                /\ TaskLabel("out", t, 0, task, body) = Tag("join", 8, task.conn)
                /\ TaskLabel("call", t, 0, task, body) = Tag("join", 9, task.conn)
                /\ TaskLabel("in", t, 0, task, body) = Tag("join", 10, task.conn)
                /\ \A hops : TaskLabel("ready", t, hops, task, body) = Tag("join", 11, task.conn)
BY DEF TaskLabel, Stage

LEMMA Leaving ==
    ASSUME NEW t, t # 1, NEW task, NEW body
    PROVE  /\ task.pc = "remove" => TaskLabel("ready", t, 0, task, body) = Tag("part", 1, task.conn)
           /\ task.pc = "unmatch" => TaskLabel("ready", t, 0, task, body) = Tag("part", 2, task.conn)
           /\ task.pc = "removing" =>
                /\ TaskLabel("out", t, 0, task, body) = Tag("part", 3, task.conn)
                /\ TaskLabel("in", t, 0, task, body) = Tag("part", 4, task.conn)
                /\ \A hops : TaskLabel("ready", t, hops, task, body) = Tag("part", 7 - hops, task.conn)
BY DEF TaskLabel, Stage

LEMMA Making ==
    ASSUME NEW task, NEW body
    PROVE  /\ task.pc = "whose" /\ body[2] # NoOne =>
                /\ TaskLabel("in", 1, 0, task, body) = Tag("make", 0, body[2])
                /\ TaskLabel("ready", 1, 0, task, body) = Tag("make", 1, body[2])
           /\ task.pc = "add" => TaskLabel("ready", 1, 0, task, body) = Tag("make", 2, task.conn)
           /\ task.pc \notin {"whose", "add"} => \A n, hops : TaskLabel(n, 1, hops, task, body) = Other
           /\ task.pc = "whose" => TaskLabel("out", 1, 0, task, body) = Other
           /\ task.pc = "whose" /\ body[2] = NoOne => \A n, hops : TaskLabel(n, 1, hops, task, body) = Other
BY DEF TaskLabel

LEMMA Passing ==
    ASSUME NEW t, t # 1, NEW task,
           task.pc \notin {"add", "match", "matching", "scanning", "remove", "unmatch", "removing"}
    PROVE  \A n, hops, body : TaskLabel(n, t, hops, task, body) = Other
BY DEF TaskLabel

\* What a step leaves alone that does not touch the registers.
registers == <<owner, lives, closing, byName, services, rules, waiter>>

Went(t, x, l) ==
    \/ ready' = Tail(ready) /\ outq' = outq /\ l = Other
    \/ /\ ready' = Append(Tail(ready), Schedule(t, 0)) /\ outq' = outq /\ x.pc \in Running
       /\ l = TaskLabel("ready", t, 0, x, x.body) /\ Sound("ready", l)
    \/ /\ ready' = Tail(ready) /\ \E m \in Request : m.task = t /\ outq' = Append(outq, m)
       /\ l = TaskLabel("out", t, 0, x, <<>>) /\ Sound("out", l)

\* Where a task may get to.
Course(t, x) ==
    /\ t = 1 => x.pc \in {"names", "whose", "add", "done"}
    /\ t # 1 => x.pc \notin {"names", "whose"}
    /\ x.pc \notin {"undo", "undoing"} /\ x.conn <= lives
    /\ x.pc \in {"setting", "set"} => x.conn # NoOne

Passes(t, x, h, l) ==
    /\ ready # <<>> /\ Head(ready) = Schedule(t, 0)
    /\ tasks' = [tasks EXCEPT ![t] = x] /\ UNCHANGED <<inbox, calls, lives>>
    /\ h = TaskLabel("ready", t, 0, tasks[t], tasks[t].body)
    /\ Went(t, x, l) /\ Course(t, x) /\ Follows(h, l)

\* The label's way on is one that no register counts.
Keeps(h, l) ==
    /\ UNCHANGED registers
    /\ h.kind \in {"join", "part"} => l.kind = h.kind
    /\ h.kind = "join" => h.stage \notin {1, 3}
    /\ h.kind = "part" => h.stage # 3

LEMMA RunKeeps ==
    ASSUME BusInv, Protocol, NEW t \in Tasks, NEW x \in Task, NEW h, NEW l \in Label, Passes(t, x, h, l)
    PROVE  /\ Moved(h, l) /\ Strands' /\ h \in Label /\ h \in Labels(lanes) /\ Foremost(lanes, h)
           /\ Keeps(h, l) => Protocol'
<1>1. /\ BusTypes /\ Once /\ LaneInv(lanes) /\ Strands /\ Tokens /\ Registry
      /\ ready # <<>> /\ Head(ready) = Schedule(t, 0)
      /\ tasks' = [tasks EXCEPT ![t] = x] /\ UNCHANGED <<inbox, calls, lives>>
      /\ h = TaskLabel("ready", t, 0, tasks[t], tasks[t].body)
      /\ Went(t, x, l) /\ Course(t, x) /\ Follows(h, l)
  BY DEF BusInv, Protocol, Passes
<1>2. /\ h \in Label /\ h \in Labels(lanes) /\ Foremost(lanes, h)
  BY <1>1, RunHead
<1>3. Moved(h, l)
  BY <1>1, RunMoves DEF Went
<1>4. Strands'
  BY <1>1, StrandsRun DEF Went, Course
<1>5. h.kind \in {"join", "part"} => Of(lanes, h.kind) = {h}
  BY <1>2 DEF Foremost
<1>6. ASSUME Keeps(h, l) PROVE Protocol'
  <2>1. /\ UNCHANGED <<owner, lives, closing, byName, services, rules, waiter>>
        /\ h.kind \in {"join", "part"} => l.kind = h.kind
        /\ h.kind = "join" => h.stage \notin {1, 3}
        /\ h.kind = "part" => h.stage # 3
    BY <1>6 DEF registers, Keeps
  <2>2. Tokens' /\ Registry'
    BY <1>1, <1>2, <1>3, <1>5, <2>1, OnTheWay
  <2> QED
    BY <1>3, <1>4, <2>2 DEF Protocol, Moved
<1> QED
  BY <1>2, <1>3, <1>4, <1>6

\* A task of an owner change goes from one await to the next.
LEMMA SendMatchesCalm ==
    ASSUME BusInv, Protocol, NEW t \in Tasks, SendMatches(t) \/ Scan(t) \/ RemoveService(t)
    PROVE  Protocol'
<1>1. /\ BusTypes /\ tasks \in [Tasks -> Task] /\ tasks[t] \in Task
      /\ UNCHANGED <<inbox, calls, lives>> /\ UNCHANGED registers
  BY DEF BusInv, BusTypes, Known, SendMatches, Scan, RemoveService, publisher, daemon, monitor, registers
<1>2. /\ tasks[1].pc \in {"names", "whose", "add", "done"} /\ tasks[t].conn <= lives
      /\ tasks[t].pc \notin {"undo", "undoing"}
  BY DEF Protocol, Strands
<1>3. ASSUME NEW from, NEW pc, NEW what, NEW kind, NEW s,
             \/ from = "match" /\ pc = "matching" /\ what = "match" /\ kind = "join" /\ s = 2
             \/ from = "unmatch" /\ pc = "removing" /\ what = "unmatch" /\ kind = "part" /\ s = 2
             \/ from = "matching" /\ pc = "scanning" /\ what = "items" /\ kind = "join" /\ s = 7,
             Runs(t, from), Send(t, what), Goes(t, pc)
      PROVE  Protocol'
  <2> DEFINE x == At(t, pc)
             h == TaskLabel("ready", t, 0, tasks[t], tasks[t].body)
             l == TaskLabel("out", t, 0, x, <<>>)
  <2>1. ready # <<>> /\ Head(ready) = Schedule(t, 0) /\ tasks[t].pc = from /\ t # 1
    BY <1>2, <1>3 DEF Runs
  <2>2. /\ x \in Task /\ x.pc = pc /\ x.conn = tasks[t].conn /\ x.conn \in Owned
        /\ tasks' = [tasks EXCEPT ![t] = x]
    <3>1. pc \in Pcs
      BY <1>3 DEF Pcs, Asking
    <3>2. x \in Task /\ x.pc = pc /\ x.conn = tasks[t].conn /\ x.conn \in Owned
      BY <1>1, <3>1 DEF At, Task, Body
    <3>3. [tasks EXCEPT ![t].pc = pc, ![t].body = <<>>] = [tasks EXCEPT ![t] = x]
      BY <1>1 DEF At, Task
    <3> QED
      BY <1>3, <3>2, <3>3 DEF Goes
  <2> HIDE DEF x
  <2>3. h = Tag(kind, s, x.conn) /\ l = Tag(kind, s + 1, x.conn)
    <3>1. t # 1 /\ tasks[t].pc = from /\ x.pc = pc /\ x.conn = tasks[t].conn
      BY <2>1, <2>2
    <3>2. ASSUME from = "match", pc = "matching"
          PROVE  h = Tag("join", 2, x.conn) /\ l = Tag("join", 3, x.conn)
      <4>1. t # 1 /\ tasks[t].pc = "match" /\ x.pc = "matching"
        BY <3>1, <3>2
      <4>2. h = Tag("join", 2, tasks[t].conn)
        BY ONLY <4>1 DEF TaskLabel, Stage
      <4>3. l = Tag("join", 3, x.conn)
        BY ONLY <4>1 DEF TaskLabel, Stage
      <4> QED
        BY <3>1, <4>2, <4>3
    <3>3. ASSUME from = "unmatch", pc = "removing"
          PROVE  h = Tag("part", 2, x.conn) /\ l = Tag("part", 3, x.conn)
      <4>1. t # 1 /\ tasks[t].pc = "unmatch" /\ x.pc = "removing"
        BY <3>1, <3>3
      <4>2. h = Tag("part", 2, tasks[t].conn)
        BY ONLY <4>1 DEF TaskLabel, Stage
      <4>3. l = Tag("part", 3, x.conn)
        BY ONLY <4>1 DEF TaskLabel, Stage
      <4> QED
        BY <3>1, <4>2, <4>3
    <3>4. ASSUME from = "matching", pc = "scanning"
          PROVE  h = Tag("join", 7, x.conn) /\ l = Tag("join", 8, x.conn)
      <4>1. t # 1 /\ tasks[t].pc = "matching" /\ x.pc = "scanning"
        BY <3>1, <3>4
      <4>2. h = Tag("join", 7 - 0, tasks[t].conn)
        BY ONLY <4>1 DEF TaskLabel, Stage
      <4>3. l = Tag("join", 8, x.conn)
        BY ONLY <4>1 DEF TaskLabel, Stage
      <4> QED
        BY <3>1, <4>2, <4>3
    <3>5. s \in Nat /\ (s = 2 => s + 1 = 3) /\ (s = 7 => s + 1 = 8)
      BY <1>3
    <3> HIDE DEF h, l
    <3> QED
      BY <1>3, <3>2, <3>3, <3>4, <3>5
  <2>4. /\ l \in Label /\ l.kind = h.kind /\ l.conn = h.conn /\ l.stage = h.stage + 1
        /\ h.kind = kind /\ h.stage = s /\ l.stage = s + 1
    BY <1>3, <2>2, <2>3 DEF Tag, Label, Kinds
  <2> HIDE DEF h, l
  <2>5. Sound("out", l)
    BY <1>3, <2>4 DEF Sound, LaneOf
  <2>6. Went(t, x, l)
    <3>1. [what |-> what, task |-> t] \in Request
      BY <1>3 DEF Request
    <3>2. ready' = Tail(ready) /\ outq' = Append(outq, [what |-> what, task |-> t])
      BY <1>3 DEF Send, Goes
    <3>3. \E m \in Request : m.task = t /\ outq' = Append(outq, m)
      BY <3>1, <3>2
    <3> QED
      BY <2>5, <3>2, <3>3 DEF Went, l
  <2>7. Course(t, x)
    BY <1>2, <1>3, <2>1, <2>2 DEF Course
  <2>8. Passes(t, x, h, l)
    BY <1>1, <2>1, <2>2, <2>4, <2>6, <2>7 DEF Passes, Follows, h
  <2>9. Keeps(h, l)
    BY <1>1, <1>3, <2>4 DEF Keeps
  <2> QED
    BY <2>2, <2>4, <2>8, <2>9, RunKeeps
<1>4. ASSUME Runs(t, "remove"), RemoveService(t)
      PROVE  Protocol'
  <2> DEFINE x == At(t, "unmatch")
             h == TaskLabel("ready", t, 0, tasks[t], tasks[t].body)
             l == TaskLabel("ready", t, 0, x, x.body)
  <2>1. ready # <<>> /\ Head(ready) = Schedule(t, 0) /\ tasks[t].pc = "remove" /\ t # 1
    BY <1>2, <1>4 DEF Runs
  <2>2. /\ x \in Task /\ x.pc = "unmatch" /\ x.conn = tasks[t].conn /\ x.conn \in Owned
    BY <1>1 DEF At, Task, Pcs, Running, Asking, Body
  <2>3. h = Tag("part", 1, x.conn) /\ l = Tag("part", 2, x.conn)
    <3> HIDE DEF x
    <3> QED
      BY <2>1, <2>2, Leaving
  <2>4. h.kind = "part" /\ h.stage = 1 /\ h.conn = tasks[t].conn
    BY <2>2, <2>3 DEF Tag
  <2>5. tasks[t].conn \in services
    <3>1. h \in Labels(lanes)
      BY <2>1, RunHead DEF BusInv, Protocol
    <3>2. h \in Parts
      BY <2>4, <3>1 DEF Parts, Of
    <3> QED
      BY <2>4, <3>2 DEF Protocol, Tokens, Registry
  <2>6. /\ ready' = Append(Tail(ready), Schedule(t, 0)) /\ outq' = outq
        /\ tasks' = [tasks EXCEPT ![t] = x]
    BY <1>1, <1>4, <2>5 DEF RemoveService, GoesOn, At, Task
  <2> HIDE DEF x
  <2>7. /\ l \in Label /\ Follows(h, l) /\ l.kind = "part" /\ Sound("ready", l)
    BY <2>2, <2>3 DEF Tag, Label, Kinds, Follows, Sound, LaneOf
  <2> HIDE DEF h, l
  <2>8. Went(t, x, l)
    BY <2>2, <2>6, <2>7 DEF Went, Running, l
  <2>9. Course(t, x)
    BY <1>2, <2>1, <2>2 DEF Course
  <2>10. Passes(t, x, h, l) /\ Keeps(h, l)
    BY <1>1, <2>1, <2>4, <2>6, <2>7, <2>8, <2>9 DEF Passes, Keeps, h
  <2> QED
    BY <2>2, <2>7, <2>10, RunKeeps
<1>5. CASE SendMatches(t)
  <2>1. \/ Runs(t, "match") /\ Send(t, "match") /\ Goes(t, "matching")
        \/ Runs(t, "unmatch") /\ Send(t, "unmatch") /\ Goes(t, "removing")
    BY <1>2, <1>5 DEF SendMatches, Runs
  <2> QED
    BY <1>3, <2>1
<1>6. CASE Scan(t)
  BY <1>3, <1>6 DEF Scan
<1> QED
  BY <1>4, <1>5, <1>6 DEF RemoveService

\* A task that ends gives up its token.
LEMMA AtIs ==
    ASSUME BusTypes, NEW t \in Tasks, NEW pc \in Pcs
    PROVE  /\ At(t, pc) \in Task /\ At(t, pc).pc = pc /\ At(t, pc).conn = tasks[t].conn
           /\ At(t, pc).body = <<>> /\ tasks[t].conn \in Owned /\ tasks[t] \in Task
           /\ [tasks EXCEPT ![t].pc = pc, ![t].body = <<>>] = [tasks EXCEPT ![t] = At(t, pc)]
<1>1. tasks \in [Tasks -> Task] /\ tasks[t] \in Task
  BY DEF BusTypes, Known
<1>2. /\ At(t, pc) \in Task /\ At(t, pc).pc = pc /\ At(t, pc).conn = tasks[t].conn
      /\ At(t, pc).body = <<>> /\ tasks[t].conn \in Owned
  BY <1>1 DEF At, Task, Body
<1>3. [tasks EXCEPT ![t].pc = pc, ![t].body = <<>>] = [tasks EXCEPT ![t] = At(t, pc)]
  BY <1>1 DEF At, Task
<1> QED
  BY <1>1, <1>2, <1>3

LEMMA Ending ==
    ASSUME BusInv, Protocol, NEW t \in Tasks, NEW from, Runs(t, from), NEW pc \in {"done", "got"},
           t = 1 => pc = "done", Goes(t, pc), UNCHANGED <<inbox, calls, outq, lives>>,
           NEW h, h = TaskLabel("ready", t, 0, tasks[t], tasks[t].body)
    PROVE  /\ Moved(h, Other) /\ Strands' /\ h \in Label /\ h \in Labels(lanes) /\ Foremost(lanes, h)
           /\ Keeps(h, Other) => Protocol'
<1> DEFINE x == At(t, pc)
<1>1. BusTypes /\ pc \in Pcs /\ Other \in Label /\ tasks[t].conn <= lives
  BY OtherLabel DEF BusInv, Pcs, Protocol, Strands
<1>2. x \in Task /\ x.pc = pc /\ x.conn = tasks[t].conn /\ tasks' = [tasks EXCEPT ![t] = x]
  BY <1>1, AtIs DEF Goes
<1> HIDE DEF x
<1>3. ready # <<>> /\ Head(ready) = Schedule(t, 0) /\ ready' = Tail(ready) /\ outq' = outq
  BY DEF Runs, Goes
<1>4. Went(t, x, Other)
  BY <1>3 DEF Went
<1>5. Course(t, x)
  BY <1>1, <1>2 DEF Course
<1>6. Passes(t, x, h, Other)
  BY <1>2, <1>3, <1>4, <1>5, OtherLabel DEF Passes, Follows
<1> QED
  BY <1>1, <1>2, <1>6, RunKeeps

LEMMA FetchedCalm ==
    ASSUME BusInv, Protocol, NEW t \in Tasks, Fetched(t) \/ SetDone(t)
    PROVE  Protocol'
<1> DEFINE h == TaskLabel("ready", t, 0, tasks[t], tasks[t].body)
<1>1. /\ BusTypes /\ tasks \in [Tasks -> Task] /\ tasks[t] \in Task
      /\ UNCHANGED <<inbox, calls, outq, lives>> /\ UNCHANGED registers
      /\ tasks[t].pc \in {"getting", "setting"} /\ ready # <<>> /\ Head(ready) = Schedule(t, 0)
      /\ t # 1 /\ tasks[t].conn <= lives
      /\ tasks[t].pc = "setting" => tasks[t].conn # NoOne
  <2>1. BusTypes /\ tasks \in [Tasks -> Task] /\ UNCHANGED <<inbox, calls, outq, lives>> /\ UNCHANGED registers
    BY DEF BusInv, BusTypes, Known, Fetched, SetDone, publisher, daemon, monitor, registers
  <2>2. tasks[t].pc \in {"getting", "setting"} /\ ready # <<>> /\ Head(ready) = Schedule(t, 0)
    BY DEF Fetched, SetDone, Runs
  <2> QED
    BY <2>1, <2>2 DEF Protocol, Strands
<1>2. h = Other
  BY <1>1, Passing
<1>3. Keeps(h, Other)
  BY <1>1, <1>2, OtherLabel DEF Keeps
<1> HIDE DEF h
<1>4. CASE Fetched(t)
  <2>1. Runs(t, "getting") /\ Goes(t, "got")
    BY <1>4 DEF Fetched
  <2> QED
    BY <1>1, <1>3, <2>1, Ending DEF h
<1>5. CASE SetDone(t)
  <2> DEFINE x == [tasks[t] EXCEPT !.pc = "set"]
  <2>1. /\ x \in Task /\ x.pc = "set" /\ x.conn = tasks[t].conn
    BY <1>1 DEF Task, Pcs
  <2>2. tasks' = [tasks EXCEPT ![t] = x] /\ ready' = Tail(ready)
    BY <1>1, <1>5 DEF SetDone
  <2>3. tasks[t].pc = "setting"
    BY <1>5 DEF SetDone, Runs
  <2> HIDE DEF x
  <2>4. Went(t, x, Other) /\ Course(t, x) /\ Follows(h, Other)
    BY <1>1, <2>1, <2>2, <2>3, OtherLabel DEF Went, Course, Follows
  <2>5. Passes(t, x, h, Other)
    BY <1>1, <2>2, <2>4 DEF Passes, h
  <2> QED
    BY <1>3, <2>1, <2>5, OtherLabel, RunKeeps
<1> QED
  BY <1>4, <1>5

LEMMA ListServicesCalm ==
    ASSUME BusInv, Protocol, NEW t \in Tasks, ListServices(t)
    PROVE  Protocol'
<1> DEFINE h == TaskLabel("ready", t, 0, tasks[t], tasks[t].body)
<1>1. /\ BusTypes /\ tasks \in [Tasks -> Task] /\ tasks[t] \in Task
      /\ UNCHANGED <<inbox, calls, lives>> /\ UNCHANGED registers
      /\ tasks[t].pc \in {"names", "whose"} /\ ready # <<>> /\ Head(ready) = Schedule(t, 0)
      /\ t = 1 /\ tasks[t].conn <= lives
  <2>1. BusTypes /\ tasks \in [Tasks -> Task] /\ UNCHANGED <<inbox, calls, lives>> /\ UNCHANGED registers
    BY DEF BusInv, BusTypes, Known, ListServices, publisher, daemon, monitor, registers
  <2>2. tasks[t].pc \in {"names", "whose"} /\ ready # <<>> /\ Head(ready) = Schedule(t, 0)
    BY DEF ListServices, Runs
  <2> QED
    BY <2>1, <2>2 DEF Protocol, Strands
<1>2. tasks[t].pc = "names" \/ tasks[t].body[2] = NoOne => h = Other
  BY <1>1, Making
<1>3. h = Other => Keeps(h, Other)
  BY <1>1, OtherLabel DEF Keeps
<1> HIDE DEF h
<1>4. CASE Runs(t, "names") /\ Send(t, "owner") /\ Goes(t, "whose")
  <2> DEFINE x == At(t, "whose")
             m == [what |-> "owner", task |-> t]
  <2>1. x \in Task /\ x.pc = "whose" /\ x.conn = tasks[t].conn /\ tasks' = [tasks EXCEPT ![t] = x]
    BY <1>1, <1>4, AtIs DEF Goes, Pcs, Asking
  <2> HIDE DEF x
  <2>2. m \in Request /\ m.task = t /\ outq' = Append(outq, m) /\ ready' = Tail(ready)
    BY <1>4 DEF Send, Goes, Request
  <2>3. TaskLabel("out", t, 0, x, <<>>) = Other
    BY <1>1, <2>1, Making
  <2> HIDE DEF m
  <2>4. Went(t, x, Other)
    BY <2>2, <2>3, OtherLabel DEF Went
  <2>5. Course(t, x)
    BY <1>1, <2>1 DEF Course
  <2>6. Passes(t, x, h, Other)
    BY <1>1, <2>1, <2>4, <2>5, OtherLabel DEF Passes, Follows, h
  <2> QED
    BY <1>2, <1>3, <1>4, <2>1, <2>6, OtherLabel, RunKeeps DEF Runs
<1>5. ASSUME NEW from, Runs(t, from), from = "names" \/ tasks[t].body[2] = NoOne,
             Goes(t, "done"), outq' = outq
      PROVE  Protocol'
  <2>1. Keeps(h, Other)
    BY <1>2, <1>3, <1>5 DEF Runs
  <2> QED
    BY <1>1, <1>5, <2>1, Ending DEF h
<1>6. CASE /\ Runs(t, "whose") /\ tasks[t].body[2] # NoOne
           /\ tasks' = [tasks EXCEPT ![t] = [NoTask EXCEPT !.pc = "add", !.conn = tasks[t].body[2]]]
           /\ ready' = Append(Tail(ready), Schedule(t, 0)) /\ outq' = outq
  <2> DEFINE c == tasks[t].body[2]
             x == [NoTask EXCEPT !.pc = "add", !.conn = c]
             l == TaskLabel("ready", t, 0, x, x.body)
  <2>1. tasks[t].pc = "whose"
    BY <1>6 DEF Runs
  <2>2. h = Tag("make", 1, c)
    BY <1>1, <1>6, <2>1, Making DEF h
  <2>3. c \in Owned
    <3>1. Wire /\ 1 \in DOMAIN ready /\ ready[1].task = t
      <4>1. ready \in Seq(Place)
        BY <1>1 DEF BusTypes, Queues
      <4> QED
        BY <1>1, <4>1, TailOf DEF BusInv, Schedule
    <3>2. Fits("whose", tasks[t].body)
      BY <2>1, <3>1 DEF Wire, Running
    <3> QED
      BY <3>2 DEF Fits, Found, Gathers
  <2>4. x \in Task /\ x.pc = "add" /\ x.conn = c
    BY <2>3 DEF NoTask, Task, Pcs, Running, Body
  <2>5. tasks' = [tasks EXCEPT ![t] = x]
    BY <1>6
  <2>6. l = Tag("make", 2, c)
    <3> HIDE DEF x, c
    <3> QED
      BY <1>1, <2>4, Making
  <2> HIDE DEF c
  <2>7. h \in Label /\ h.kind = "make" /\ h.stage = 1 /\ h.conn = c
    BY <2>2, <2>3, TagIs DEF Kinds
  <2>8. l \in Label /\ l.kind = "make" /\ l.stage = 2 /\ l.conn = c
    <3> HIDE DEF l
    <3> QED
      BY <2>6, <2>3, TagIs DEF Kinds
  <2> HIDE DEF x
  <2>9. Sound("ready", l)
    <3> HIDE DEF l
    <3> QED
      BY <2>8 DEF Sound, LaneOf
  <2>10. Went(t, x, l)
    BY <1>6, <2>4, <2>9 DEF Went, Running
  <2>11. c <= lives
    <3>1. h \in Labels(lanes)
      BY <1>1, RunHead DEF BusInv, Protocol, h
    <3>2. h \in Of(lanes, "make")
      BY <2>7, <3>1 DEF Of
    <3> QED
      BY <2>7, <3>2 DEF Protocol, Tokens
  <2>12. Course(t, x)
    BY <1>1, <2>4, <2>11 DEF Course
  <2> HIDE DEF l
  <2>13. Passes(t, x, h, l) /\ Keeps(h, l)
    BY <1>1, <2>5, <2>7, <2>8, <2>10, <2>12 DEF Passes, Follows, Keeps, h
  <2> QED
    BY <2>4, <2>8, <2>13, RunKeeps
<1> QED
  BY <1>4, <1>5, <1>6 DEF ListServices

-----------------------------------------------------------------------------
(* The steps of the tasks that change registers: a process enters          *)
(* _services, it becomes the one known by name, it leaves _services.       *)

\* A leaving process is not the present one.
LEMMA PartedIs ==
    ASSUME BusTypes, Registry
    PROVE  /\ owner # NoOne => Parted # lives /\ owner = lives
           /\ owner = NoOne => Parted = lives
           /\ lives \in Nat /\ lives <= MaxLives /\ Parted <= MaxLives /\ Parted # Pending /\ lives # Pending
           /\ MaxLives \in Nat
BY BusAssumption DEF Parted, Registry, BusTypes, Service, Pending

LEMMA AddServiceCalm ==
    ASSUME BusInv, Protocol, NEW t \in Tasks, AddService(t)
    PROVE  Protocol'
<1> DEFINE h == TaskLabel("ready", t, 0, tasks[t], tasks[t].body)
           c == tasks[t].conn
<1>1. /\ BusTypes /\ tasks \in [Tasks -> Task] /\ c \in Owned /\ c <= lives
      /\ UNCHANGED <<inbox, calls, outq, lives, owner, closing, byName, rules, waiter>>
      /\ tasks[t].pc = "add" /\ ready # <<>> /\ Head(ready) = Schedule(t, 0)
      /\ services' = services \union {c} /\ Runs(t, "add")
  <2>1. BusTypes /\ tasks \in [Tasks -> Task] /\ c \in Owned
    BY DEF BusInv, BusTypes, Known, Task
  <2>2. /\ UNCHANGED <<inbox, calls, outq, lives, owner, closing, byName, rules, waiter>>
        /\ services' = services \union {c} /\ Runs(t, "add")
    BY DEF AddService, publisher, daemon
  <2> QED
    BY <2>1, <2>2 DEF Runs, Protocol, Strands
<1>2. /\ h \in Labels(lanes) /\ Foremost(lanes, h)
  BY <1>1, RunHead DEF BusInv, Protocol
<1>3. CASE t = 1
  <2>1. h = Tag("make", 2, c)
    BY <1>1, <1>3, Making
  <2>2. h.kind = "make" /\ h.stage = 2 /\ h.conn = c
    BY <1>1, <2>1, TagIs DEF Kinds
  <2> HIDE DEF h
  <2>3. c \in services
    <3>1. c \in services \/ \E y \in Joins : y.stage <= 1 /\ y.conn = c
      BY <1>2, <2>2 DEF Protocol, Tokens, Of
    <3>2. ASSUME NEW y \in Joins, y.stage <= 1, y.conn = c PROVE FALSE
      <4>1. y \in Labels(lanes) /\ Leads(y, h)
        BY <2>2, <3>2 DEF Joins, Of, Leads
      <4> QED
        BY <1>2, <2>2, <3>2, <4>1 DEF Foremost
    <3> QED
      BY <3>1, <3>2
  <2>4. Goes(t, "done") /\ UNCHANGED registers
    BY <1>1, <2>3 DEF AddService, registers
  <2>5. Keeps(h, Other)
    BY <2>2, <2>4 DEF Keeps
  <2> QED
    BY <1>1, <2>4, <2>5, Ending DEF h
<1>4. CASE t # 1
  <2> DEFINE x == At(t, "match")
             l == TaskLabel("ready", t, 0, x, x.body)
  <2>1. h = Tag("join", 1, c)
    BY <1>1, <1>4, Arriving
  <2>2. h.kind = "join" /\ h.stage = 1 /\ h.conn = c
    BY <1>1, <2>1, TagIs DEF Kinds
  <2> HIDE DEF h
  <2>3. Joins = {h} /\ c = lives /\ owner # NoOne
    <3>1. Joins = {h}
      BY <1>2, <2>2 DEF Foremost, Joins
    <3> QED
      BY <2>2, <3>1 DEF Protocol, Tokens, Registry
  <2>4. c \notin services
    <3>1. Upto(Joins, 1)
      BY <2>2, <2>3 DEF Upto
    <3> QED
      BY <1>1, <2>3, <3>1, PartedIs DEF Protocol, Registry
  <2>5. x \in Task /\ x.pc = "match" /\ x.conn = c /\ [tasks EXCEPT ![t].pc = "match", ![t].body = <<>>] = [tasks EXCEPT ![t] = x]
    BY <1>1, AtIs DEF Pcs, Running
  <2>6. ready' = Append(Tail(ready), Schedule(t, 0)) /\ tasks' = [tasks EXCEPT ![t] = x]
    BY <2>4, <2>5 DEF AddService, GoesOn
  <2> HIDE DEF x
  <2>7. l = Tag("join", 2, c)
    BY <1>4, <2>5, Arriving
  <2> HIDE DEF c
  <2>8. l \in Label /\ l.kind = "join" /\ l.stage = 2 /\ l.conn = c
    <3> HIDE DEF l
    <3> QED
      BY <1>1, <2>7, TagIs DEF Kinds
  <2> HIDE DEF l
  <2>9. Sound("ready", l)
    BY <2>8 DEF Sound, LaneOf
  <2>10. Went(t, x, l)
    BY <1>1, <2>5, <2>6, <2>9 DEF Went, Running, l
  <2>11. Course(t, x)
    BY <1>1, <1>4, <2>5 DEF Course
  <2>12. Passes(t, x, h, l)
    BY <1>1, <2>2, <2>6, <2>8, <2>10, <2>11 DEF Passes, Follows, h
  <2>13. Moved(h, l) /\ Strands'
    BY <2>5, <2>8, <2>12, RunKeeps
  <2>14. Joins' = {l} /\ Parts' = Parts
    BY <2>2, <2>8, <2>13 DEF Moved, Shift, Joins, Parts
  <2>15. /\ \A y \in Of(lanes', "signal") : y \in Of(lanes, "signal")
         /\ \A y \in Of(lanes', "make") : y \in Of(lanes, "make")
    BY <2>8, <2>13 DEF Moved, Shift
  <2>16. /\ Upto(Joins, 1) /\ Upto(Joins, 3) /\ ~Upto(Joins', 1) /\ Upto(Joins', 3)
    BY <2>2, <2>3, <2>8, <2>14 DEF Upto
  <2>17. Parted' = Parted
    BY <1>1 DEF Parted
  <2>18. Tokens'
    <3>1. ASSUME NEW y \in Of(lanes', "make")
          PROVE  /\ y.conn # NoOne /\ y.conn <= lives' /\ y.conn \in services'
      BY <1>1, <2>2, <2>3, <2>15 DEF Protocol, Tokens
    <3>2. \A y \in Of(lanes', "signal") : y.conn <= lives' /\ (y.conn = lives' => owner' # NoOne \/ Parts' # {})
      BY <1>1, <2>14, <2>15 DEF Protocol, Tokens
    <3>3. \A y \in Parts' : y.conn = Parted'
      BY <2>14, <2>17 DEF Protocol, Tokens
    <3> QED
      BY <1>1, <2>3, <2>8, <2>14, <3>1, <3>2, <3>3 DEF Tokens
  <2>19. Registry'
    <3>1. services' = (IF Parts' # {} THEN {Parted'} ELSE {}) \union {lives'}
      BY <1>1, <2>3, <2>14, <2>16, <2>17 DEF Protocol, Registry
    <3>2. rules' = (IF Upto(Parts', 3) THEN 1 ELSE 0)
                     + (IF owner' # NoOne /\ ~Upto(Joins', 3) THEN 1 ELSE 0)
      BY <1>1, <2>14, <2>16 DEF Protocol, Registry
    <3>3. Joins # {} /\ Joins' # {}
      BY <2>3, <2>14
    <3> QED
      BY <1>1, <2>3, <2>14, <2>16, <2>17, <3>1, <3>2, <3>3 DEF Protocol, Registry
  <2> QED
    BY <2>13, <2>18, <2>19 DEF Protocol, Moved
<1> QED
  BY <1>3, <1>4

\* A token that is done with leaves the others where they were.
LEMMA ScannedCalm ==
    ASSUME BusInv, Protocol, NEW t \in Tasks, Scanned(t)
    PROVE  /\ Protocol' /\ Runs(t, "scanning") /\ tasks[t].body # Error /\ tasks[t].conn = lives
           /\ owner # NoOne /\ ~closing /\ byName \in {Absent, Pending} /\ byName' = lives
           /\ lives \in services
<1> DEFINE h == TaskLabel("ready", t, 0, tasks[t], tasks[t].body)
           c == tasks[t].conn
<1>1. /\ BusTypes /\ tasks \in [Tasks -> Task] /\ c \in Owned /\ c <= lives
      /\ UNCHANGED <<inbox, calls, outq, lives, owner, closing, services, rules>>
      /\ ready # <<>> /\ Head(ready) = Schedule(t, 0)
  <2>1. BusTypes /\ tasks \in [Tasks -> Task] /\ c \in Owned
    BY DEF BusInv, BusTypes, Known, Task
  <2>2. UNCHANGED <<inbox, calls, outq, lives, owner, closing, services, rules>>
    BY DEF Scanned, publisher, daemon
  <2>3. ready # <<>> /\ Head(ready) = Schedule(t, 0)
    BY DEF Scanned, Runs
  <2> QED
    BY <2>1, <2>2, <2>3 DEF Protocol, Strands
<1>2. /\ Runs(t, "scanning") /\ tasks[t].body # Error /\ t # 1
      /\ SetResult(c) /\ Goes(t, "done")
  <2>1. 1 \in DOMAIN ready /\ ready[1].task = t
    <3>1. ready \in Seq(Place)
      BY <1>1 DEF BusTypes, Queues
    <3> QED
      BY <1>1, <3>1, TailOf DEF Schedule
  <2>2. tasks[t].pc \notin {"undo", "undoing"} /\ (tasks[t].pc = "scanning" => tasks[t].body # Error /\ t # 1)
    BY <2>1 DEF Protocol, Strands
  <2> QED
    BY <2>2 DEF Scanned, Runs
<1>3. /\ h \in Labels(lanes) /\ Foremost(lanes, h) /\ Sound("ready", h)
  BY <1>1, RunHead DEF BusInv, Protocol
<1>4. tasks[t].pc = "scanning"
  BY <1>2 DEF Runs
<1>5. h = Tag("join", 11, c)
  BY <1>2, <1>4, Arriving
<1>6. h.kind = "join" /\ h.stage = 11 /\ h.conn = c
  BY <1>1, <1>5, TagIs DEF Kinds
<1> HIDE DEF h
<1>7. Moved(h, Other) /\ Strands'
  BY <1>1, <1>2, Ending DEF h
<1>8. Joins = {h} /\ c = lives /\ owner # NoOne /\ ~closing
  <2>1. Joins = {h}
    BY <1>3, <1>6 DEF Foremost, Joins
  <2> QED
    BY <1>6, <2>1 DEF Protocol, Tokens, Registry
<1>9. Parts = {}
  <2>1. ASSUME NEW y \in Parts PROVE FALSE
    <3>1. y \in Labels(lanes) /\ y.kind = "part"
      BY <2>1 DEF Parts, Of
    <3>2. Leads(y, h)
      BY <1>6, <3>1 DEF Leads
    <3>3. h.stage < y.stage /\ y.stage \in Nat
      BY <1>3, <3>1, <3>2 DEF Foremost
    <3>4. PICK n \in Lanes : \E i \in DOMAIN lanes[n] : y = lanes[n][i]
      BY <3>1, Placed DEF Protocol, LaneInv
    <3>5. y.stage <= 7
      BY <3>1, <3>4 DEF Protocol, LaneInv, Sound
    <3> QED
      BY <1>6, <3>3, <3>5
  <2> QED
    BY <2>1
<1>10. Joins' = {} /\ Parts' = {}
  BY <1>6, <1>7, <1>9, OtherLabel DEF Moved, Shift, Joins, Parts
<1>11. /\ \A y \in Of(lanes', "signal") : y \in Of(lanes, "signal")
       /\ \A y \in Of(lanes', "make") : y \in Of(lanes, "make")
  BY <1>7, OtherLabel DEF Moved, Shift
<1>12. ~Upto(Joins, 1) /\ ~Upto(Joins, 3) /\ ~Upto(Joins', 1) /\ ~Upto(Joins', 3) /\ ~Upto(Parts, 3) /\ ~Upto(Parts', 3)
  BY <1>6, <1>8, <1>9, <1>10 DEF Upto
<1>13. byName \in {Absent, Pending} /\ services = {lives} /\ rules = 1
  BY <1>8, <1>9, <1>12 DEF Protocol, Registry
<1>14. byName' = lives /\ waiter' = IF waiter = "waiting" THEN "answered" ELSE waiter
  BY <1>2, <1>8, <1>13 DEF SetResult
<1>15. Tokens'
  <2>1. \A y \in Of(lanes', "make") : y.conn # NoOne /\ y.conn <= lives' /\ y.conn \in services'
    BY <1>1, <1>6, <1>8, <1>11 DEF Protocol, Tokens
  <2>2. \A y \in Of(lanes', "signal") : y.conn <= lives' /\ (y.conn = lives' => owner' # NoOne \/ Parts' # {})
    BY <1>1, <1>8, <1>11 DEF Protocol, Tokens
  <2> QED
    BY <1>10, <2>1, <2>2 DEF Tokens
<1>16. Registry'
  <2>1. owner' \in {NoOne, lives'}
    BY <1>1 DEF Protocol, Registry
  <2>2. services' = {lives'} /\ rules' = 1
    BY <1>1, <1>13
  <2>3. waiter' # "lost" /\ waiter' # "waiting"
    BY <1>14 DEF Protocol, Registry
  <2> QED
    BY <1>1, <1>8, <1>10, <1>12, <1>14, <2>1, <2>2, <2>3 DEF Registry
<1> QED
  BY <1>2, <1>7, <1>8, <1>13, <1>14, <1>15, <1>16 DEF Protocol, Moved

LEMMA RemovedCalm ==
    ASSUME BusInv, Protocol, NEW t \in Tasks, Removed(t)
    PROVE  /\ Protocol' /\ Parts # {} /\ byName' = Absent /\ services' = services \ {Parted}
<1> DEFINE h == TaskLabel("ready", t, 0, tasks[t], tasks[t].body)
           c == tasks[t].conn
<1>1. /\ BusTypes /\ tasks \in [Tasks -> Task] /\ c \in Owned /\ c <= lives
      /\ UNCHANGED <<inbox, calls, outq, lives, owner, closing, rules>>
      /\ ready # <<>> /\ Head(ready) = Schedule(t, 0) /\ tasks[t].pc = "removing" /\ t # 1
      /\ Runs(t, "removing") /\ Goes(t, "done") /\ services' = services \ {c} /\ ForgetName
  <2>1. BusTypes /\ tasks \in [Tasks -> Task] /\ c \in Owned
    BY DEF BusInv, BusTypes, Known, Task
  <2>2. /\ UNCHANGED <<inbox, calls, outq, lives, owner, closing, rules>>
        /\ Runs(t, "removing") /\ Goes(t, "done") /\ services' = services \ {c} /\ ForgetName
    BY DEF Removed, publisher, daemon
  <2>3. ready # <<>> /\ Head(ready) = Schedule(t, 0) /\ tasks[t].pc = "removing"
    BY DEF Removed, Runs
  <2> QED
    BY <2>1, <2>2, <2>3 DEF Protocol, Strands
<1>2. /\ h \in Labels(lanes) /\ Foremost(lanes, h)
  BY <1>1, RunHead DEF BusInv, Protocol
<1>3. h = Tag("part", 7 - 0, c)
  BY <1>1, Leaving
<1>4. h.kind = "part" /\ h.stage = 7 /\ h.conn = c
  BY <1>1, <1>3, TagIs DEF Kinds
<1> HIDE DEF h
<1>5. Moved(h, Other) /\ Strands'
  BY <1>1, Ending DEF h
<1>6. Parts = {h} /\ c = Parted /\ (owner # NoOne => Joins # {}) /\ byName = Parted
  <2>1. Parts = {h}
    BY <1>2, <1>4 DEF Foremost, Parts
  <2> QED
    BY <1>4, <2>1 DEF Protocol, Tokens, Registry
<1>7. Joins' = Joins /\ Parts' = {}
  BY <1>4, <1>5, OtherLabel DEF Moved, Shift, Joins, Parts
<1>8. /\ \A y \in Of(lanes', "signal") : y \in Of(lanes, "signal") /\ y.conn # c
      /\ \A y \in Of(lanes', "make") : y \in Of(lanes, "make") /\ y.conn # c
  <2>1. /\ \A y \in Of(lanes', "signal") : y \in Of(lanes, "signal")
        /\ \A y \in Of(lanes', "make") : y \in Of(lanes, "make")
    BY <1>5, OtherLabel DEF Moved, Shift
  <2>2. ASSUME NEW y \in Labels(lanes), y.kind \in {"make", "signal"}, y.conn = c PROVE FALSE
    <3>1. Leads(y, h)
      BY <1>4, <2>2 DEF Leads
    <3>2. h.stage < y.stage /\ y.stage \in Nat
      BY <1>2, <3>1 DEF Foremost
    <3>3. PICK n \in Lanes : \E i \in DOMAIN lanes[n] : y = lanes[n][i]
      BY Placed DEF Protocol, LaneInv
    <3>4. y.stage <= 2
      BY <2>2, <3>2, <3>3 DEF Protocol, LaneInv, Sound
    <3> QED
      BY <1>4, <3>2, <3>4
  <2> QED
    BY <2>1, <2>2 DEF Of
<1>9. ~Upto(Parts, 3) /\ ~Upto(Parts', 3)
  BY <1>4, <1>6, <1>7 DEF Upto
<1>10. byName' = Absent /\ waiter' = waiter /\ waiter \notin {"lost", "waiting"}
  <2>1. byName # Pending
    BY <1>1, <1>6, PartedIs DEF Protocol
  <2> QED
    BY <1>1, <2>1 DEF ForgetName, Protocol, Registry
<1>11. Parted' = Parted
  BY <1>1 DEF Parted
<1>12. Tokens'
  <2>1. \A y \in Of(lanes', "make") : /\ y.conn # NoOne /\ y.conn <= lives'
                                      /\ y.conn \in services' \/ \E z \in Joins' : z.stage <= 1 /\ z.conn = y.conn
    BY <1>1, <1>7, <1>8 DEF Protocol, Tokens
  <2>2. \A y \in Of(lanes', "signal") : y.conn <= lives' /\ (y.conn = lives' => owner' # NoOne)
    BY <1>1, <1>6, <1>8, PartedIs DEF Protocol, Tokens
  <2>3. \A y \in Joins' : y.conn = lives'
    BY <1>1, <1>7 DEF Protocol, Tokens
  <2> QED
    BY <1>7, <2>1, <2>2, <2>3 DEF Tokens
<1>13. Registry'
  <2>1. services' = IF owner' # NoOne /\ ~Upto(Joins', 1) THEN {lives'} ELSE {}
    BY <1>1, <1>6, <1>7, PartedIs DEF Protocol, Registry
  <2>2. rules' = 0 + IF owner' # NoOne /\ ~Upto(Joins', 3) THEN 1 ELSE 0
    BY <1>1, <1>7, <1>9 DEF Protocol, Registry
  <2>3. owner' \in {NoOne, lives'} /\ (Joins' # {} => owner' # NoOne /\ ~closing')
    BY <1>1, <1>7 DEF Protocol, Registry
  <2> QED
    BY <1>1, <1>6, <1>7, <1>9, <1>10, <2>1, <2>2, <2>3 DEF Registry
<1> QED
  BY <1>1, <1>5, <1>6, <1>10, <1>12, <1>13 DEF Protocol, Moved

-----------------------------------------------------------------------------
(* The lanes of given queues, to follow a step one queue at a time.        *)

LanesOf(i, r, o, c, ts) == [n \in Lanes |-> IF n = "in" THEN Lane(n, i, ts)
                                            ELSE IF n = "ready" THEN Lane(n, r, ts)
                                            ELSE IF n = "out" THEN Lane(n, o, ts)
                                            ELSE Lane(n, c, ts)]

LEMMA LanesNow == /\ lanes = LanesOf(inbox, ready, outq, calls, tasks)
                  /\ lanes' = LanesOf(inbox', ready', outq', calls', tasks')
BY DEF lanes, LanesOf

LEMMA LanesOfIs ==
    ASSUME NEW i, NEW r, NEW o, NEW c, NEW ts
    PROVE  /\ IsLanes(LanesOf(i, r, o, c, ts))
           /\ LanesOf(i, r, o, c, ts)["in"] = Lane("in", i, ts)
           /\ LanesOf(i, r, o, c, ts)["ready"] = Lane("ready", r, ts)
           /\ LanesOf(i, r, o, c, ts)["out"] = Lane("out", o, ts)
           /\ LanesOf(i, r, o, c, ts)["call"] = Lane("call", c, ts)
BY DEF LanesOf, Lanes, IsLanes

\* Only the lane n differs.
Beside(L, M, n) == \A k \in Lanes : k # n => M[k] = L[k]

LEMMA LanesBeside ==
    ASSUME NEW i, NEW r, NEW o, NEW c, NEW ts, NEW q
    PROVE  /\ Beside(LanesOf(i, r, o, c, ts), LanesOf(q, r, o, c, ts), "in")
           /\ Beside(LanesOf(i, r, o, c, ts), LanesOf(i, q, o, c, ts), "ready")
           /\ Beside(LanesOf(i, r, o, c, ts), LanesOf(i, r, q, c, ts), "out")
           /\ Beside(LanesOf(i, r, o, c, ts), LanesOf(i, r, o, q, ts), "call")
BY DEF LanesOf, Lanes, Beside

Longer(S, q, m, d) == q \in Seq(S) /\ m \in S /\ d = Append(q, m)

LEMMA Gained ==
    ASSUME NEW S, NEW q, NEW m, NEW d, Longer(S, q, m, d), NEW n \in Lanes, NEW ts,
           NEW L, NEW M, IsLanes(L), IsLanes(M), Beside(L, M, n),
           L[n] = Lane(n, q, ts), M[n] = Lane(n, d, ts)
    PROVE  M = Pushed(L, n, LabelOf(n, m, ts))
<1>1. M[n] = Append(L[n], LabelOf(n, m, ts))
  <2>1. Lane(n, Append(q, m), ts) = Append(Lane(n, q, ts), LabelOf(n, m, ts))
    <3>1. q \in Seq(S) /\ m \in S
      BY DEF Longer
    <3> QED
      BY ONLY <3>1, LaneEnd
  <2>2. Lane(n, d, ts) = Append(Lane(n, q, ts), LabelOf(n, m, ts))
    BY <2>1 DEF Longer
  <2> QED
    BY ONLY <2>2, L[n] = Lane(n, q, ts), M[n] = Lane(n, d, ts)
<1>2. \A k \in Lanes : k # n => M[k] = L[k]
  BY DEF Beside
<1> QED
  BY <1>1, <1>2, PushedLane

\* What the lane n loses when its queue loses its first element.
Front(L, M, n, h) == M = Popped(L, n) /\ L[n] # <<>> /\ Head(L[n]) = h

LEMMA Taking ==
    ASSUME NEW S, NEW q, q \in Seq(S), q # <<>>, NEW n \in Lanes, NEW ts, NEW d, d = Tail(q),
           NEW e, e = Head(q), NEW L, NEW M, IsLanes(L), IsLanes(M), Beside(L, M, n),
           L[n] = Lane(n, q, ts), M[n] = Lane(n, d, ts)
    PROVE  Front(L, M, n, LabelOf(n, e, ts))
<1>1. /\ Lane(n, q, ts) # <<>> /\ Head(Lane(n, q, ts)) = LabelOf(n, Head(q), ts)
      /\ Lane(n, Tail(q), ts) = Tail(Lane(n, q, ts))
  BY ONLY q \in Seq(S), q # <<>>, LaneFront
<1>2. \A k \in Lanes : k # n => M[k] = L[k]
  BY DEF Beside
<1>3. M[n] = Tail(L[n])
  <2>1. Lane(n, d, ts) = Tail(Lane(n, q, ts))
    BY <1>1
  <2> QED
    BY ONLY <2>1, L[n] = Lane(n, q, ts), M[n] = Lane(n, d, ts)
<1>4. M = Popped(L, n)
  BY ONLY <1>2, <1>3, IsLanes(L), IsLanes(M), n \in Lanes, PoppedLane
<1>5. Head(L[n]) = LabelOf(n, e, ts) /\ L[n] # <<>>
  BY <1>1
<1> QED
  BY <1>4, <1>5 DEF Front

LEMMA Gain ==
    ASSUME NEW i \in Seq(Message), NEW r \in Seq(Place), NEW o \in Seq(Request),
           NEW c \in Seq(Request), NEW ts
    PROVE  /\ \A m \in Message :
                LanesOf(Append(i, m), r, o, c, ts) = Pushed(LanesOf(i, r, o, c, ts), "in", LabelOf("in", m, ts))
           /\ \A m \in Place :
                LanesOf(i, Append(r, m), o, c, ts) = Pushed(LanesOf(i, r, o, c, ts), "ready", LabelOf("ready", m, ts))
           /\ \A m \in Request :
                LanesOf(i, r, Append(o, m), c, ts) = Pushed(LanesOf(i, r, o, c, ts), "out", LabelOf("out", m, ts))
           /\ \A m \in Request :
                LanesOf(i, r, o, Append(c, m), ts) = Pushed(LanesOf(i, r, o, c, ts), "call", LabelOf("call", m, ts))
<1> DEFINE L == LanesOf(i, r, o, c, ts)
<1>1. /\ IsLanes(L) /\ L["in"] = Lane("in", i, ts) /\ L["ready"] = Lane("ready", r, ts)
      /\ L["out"] = Lane("out", o, ts) /\ L["call"] = Lane("call", c, ts)
  BY LanesOfIs
<1>2. "in" \in Lanes /\ "ready" \in Lanes /\ "out" \in Lanes /\ "call" \in Lanes
  BY DEF Lanes
<1>3. ASSUME NEW m \in Message PROVE LanesOf(Append(i, m), r, o, c, ts) = Pushed(L, "in", LabelOf("in", m, ts))
  <2> DEFINE d == Append(i, m)
             M == LanesOf(d, r, o, c, ts)
  <2>1. Longer(Message, i, m, d)
    BY DEF Longer
  <2> HIDE DEF d
  <2>2. IsLanes(M) /\ M["in"] = Lane("in", d, ts)
    BY ONLY LanesOfIs
  <2>3. Beside(L, M, "in")
    BY ONLY LanesBeside
  <2> HIDE DEF M, L
  <2>4. M = Pushed(L, "in", LabelOf("in", m, ts))
    BY ONLY <1>1, <1>2, <1>3, <2>1, <2>2, <2>3, Gained
  <2> QED
    BY <2>4 DEF M, d
<1>4. ASSUME NEW m \in Place PROVE LanesOf(i, Append(r, m), o, c, ts) = Pushed(L, "ready", LabelOf("ready", m, ts))
  <2> DEFINE d == Append(r, m)
             M == LanesOf(i, d, o, c, ts)
  <2>1. Longer(Place, r, m, d)
    BY DEF Longer
  <2> HIDE DEF d
  <2>2. IsLanes(M) /\ M["ready"] = Lane("ready", d, ts)
    BY ONLY LanesOfIs
  <2>3. Beside(L, M, "ready")
    BY ONLY LanesBeside
  <2> HIDE DEF M, L
  <2>4. M = Pushed(L, "ready", LabelOf("ready", m, ts))
    BY ONLY <1>1, <1>2, <1>4, <2>1, <2>2, <2>3, Gained
  <2> QED
    BY <2>4 DEF M, d
<1>5. ASSUME NEW m \in Request PROVE LanesOf(i, r, Append(o, m), c, ts) = Pushed(L, "out", LabelOf("out", m, ts))
  <2> DEFINE d == Append(o, m)
             M == LanesOf(i, r, d, c, ts)
  <2>1. Longer(Request, o, m, d)
    BY DEF Longer
  <2> HIDE DEF d
  <2>2. IsLanes(M) /\ M["out"] = Lane("out", d, ts)
    BY ONLY LanesOfIs
  <2>3. Beside(L, M, "out")
    BY ONLY LanesBeside
  <2> HIDE DEF M, L
  <2>4. M = Pushed(L, "out", LabelOf("out", m, ts))
    BY ONLY <1>1, <1>2, <1>5, <2>1, <2>2, <2>3, Gained
  <2> QED
    BY <2>4 DEF M, d
<1>6. ASSUME NEW m \in Request PROVE LanesOf(i, r, o, Append(c, m), ts) = Pushed(L, "call", LabelOf("call", m, ts))
  <2> DEFINE d == Append(c, m)
             M == LanesOf(i, r, o, d, ts)
  <2>1. Longer(Request, c, m, d)
    BY DEF Longer
  <2> HIDE DEF d
  <2>2. IsLanes(M) /\ M["call"] = Lane("call", d, ts)
    BY ONLY LanesOfIs
  <2>3. Beside(L, M, "call")
    BY ONLY LanesBeside
  <2> HIDE DEF M, L
  <2>4. M = Pushed(L, "call", LabelOf("call", m, ts))
    BY ONLY <1>1, <1>2, <1>6, <2>1, <2>2, <2>3, Gained
  <2> QED
    BY <2>4 DEF M, d
<1> QED
  BY <1>3, <1>4, <1>5, <1>6

LEMMA Loss ==
    ASSUME NEW i \in Seq(Message), NEW r \in Seq(Place), NEW o \in Seq(Request),
           NEW c \in Seq(Request), NEW ts
    PROVE  /\ i # <<>> =>
                Front(LanesOf(i, r, o, c, ts), LanesOf(Tail(i), r, o, c, ts), "in", LabelOf("in", Head(i), ts))
           /\ r # <<>> =>
                Front(LanesOf(i, r, o, c, ts), LanesOf(i, Tail(r), o, c, ts), "ready", LabelOf("ready", Head(r), ts))
           /\ o # <<>> =>
                Front(LanesOf(i, r, o, c, ts), LanesOf(i, r, Tail(o), c, ts), "out", LabelOf("out", Head(o), ts))
           /\ c # <<>> =>
                Front(LanesOf(i, r, o, c, ts), LanesOf(i, r, o, Tail(c), ts), "call", LabelOf("call", Head(c), ts))
<1> DEFINE L == LanesOf(i, r, o, c, ts)
<1>1. /\ IsLanes(L) /\ L["in"] = Lane("in", i, ts) /\ L["ready"] = Lane("ready", r, ts)
      /\ L["out"] = Lane("out", o, ts) /\ L["call"] = Lane("call", c, ts)
  BY LanesOfIs
<1>2. "in" \in Lanes /\ "ready" \in Lanes /\ "out" \in Lanes /\ "call" \in Lanes
  BY DEF Lanes
<1>3. ASSUME i # <<>> PROVE Front(L, LanesOf(Tail(i), r, o, c, ts), "in", LabelOf("in", Head(i), ts))
  <2> DEFINE d == Tail(i)
             e == Head(i)
             M == LanesOf(d, r, o, c, ts)
  <2>1. d = Tail(i) /\ e = Head(i) /\ i \in Seq(Message)
    OBVIOUS
  <2> HIDE DEF d, e
  <2>2. IsLanes(M) /\ M["in"] = Lane("in", d, ts)
    BY ONLY LanesOfIs
  <2>3. Beside(L, M, "in")
    BY ONLY LanesBeside
  <2> HIDE DEF M, L
  <2>4. Front(L, M, "in", LabelOf("in", e, ts))
    BY ONLY <1>1, <1>2, <1>3, <2>1, <2>2, <2>3, Taking
  <2> QED
    BY <2>4 DEF M, d, e
<1>4. ASSUME r # <<>> PROVE Front(L, LanesOf(i, Tail(r), o, c, ts), "ready", LabelOf("ready", Head(r), ts))
  <2> DEFINE d == Tail(r)
             e == Head(r)
             M == LanesOf(i, d, o, c, ts)
  <2>1. d = Tail(r) /\ e = Head(r) /\ r \in Seq(Place)
    OBVIOUS
  <2> HIDE DEF d, e
  <2>2. IsLanes(M) /\ M["ready"] = Lane("ready", d, ts)
    BY ONLY LanesOfIs
  <2>3. Beside(L, M, "ready")
    BY ONLY LanesBeside
  <2> HIDE DEF M, L
  <2>4. Front(L, M, "ready", LabelOf("ready", e, ts))
    BY ONLY <1>1, <1>2, <1>4, <2>1, <2>2, <2>3, Taking
  <2> QED
    BY <2>4 DEF M, d, e
<1>5. ASSUME o # <<>> PROVE Front(L, LanesOf(i, r, Tail(o), c, ts), "out", LabelOf("out", Head(o), ts))
  <2> DEFINE d == Tail(o)
             e == Head(o)
             M == LanesOf(i, r, d, c, ts)
  <2>1. d = Tail(o) /\ e = Head(o) /\ o \in Seq(Request)
    OBVIOUS
  <2> HIDE DEF d, e
  <2>2. IsLanes(M) /\ M["out"] = Lane("out", d, ts)
    BY ONLY LanesOfIs
  <2>3. Beside(L, M, "out")
    BY ONLY LanesBeside
  <2> HIDE DEF M, L
  <2>4. Front(L, M, "out", LabelOf("out", e, ts))
    BY ONLY <1>1, <1>2, <1>5, <2>1, <2>2, <2>3, Taking
  <2> QED
    BY <2>4 DEF M, d, e
<1>6. ASSUME c # <<>> PROVE Front(L, LanesOf(i, r, o, Tail(c), ts), "call", LabelOf("call", Head(c), ts))
  <2> DEFINE d == Tail(c)
             e == Head(c)
             M == LanesOf(i, r, o, d, ts)
  <2>1. d = Tail(c) /\ e = Head(c) /\ c \in Seq(Request)
    OBVIOUS
  <2> HIDE DEF d, e
  <2>2. IsLanes(M) /\ M["call"] = Lane("call", d, ts)
    BY ONLY LanesOfIs
  <2>3. Beside(L, M, "call")
    BY ONLY LanesBeside
  <2> HIDE DEF M, L
  <2>4. Front(L, M, "call", LabelOf("call", e, ts))
    BY ONLY <1>1, <1>2, <1>6, <2>1, <2>2, <2>3, Taking
  <2> QED
    BY <2>4 DEF M, d, e
<1> QED
  BY <1>3, <1>4, <1>5, <1>6

\* A token goes from one queue to another.
LEMMA Forwarding ==
    ASSUME LaneInv(lanes), NEW L, NEW a \in Lanes, NEW b \in Lanes, NEW h, Front(lanes, L, a, h),
           NEW l \in Label, Sound(b, l), Follows(h, l), lanes' = Pushed(L, b, l)
    PROVE  /\ Moved(h, l) /\ h \in Label /\ h \in Labels(lanes) /\ Sound(a, h) /\ Foremost(lanes, h)
<1>1. lanes[a] # <<>> /\ Head(lanes[a]) = h /\ lanes' = Pushed(Popped(lanes, a), b, l)
  BY DEF Front
<1>2. h \in Label /\ h \in Labels(lanes) /\ Sound(a, h) /\ Foremost(lanes, h)
  BY <1>1, Leading
<1>3. Moved(h, l)
  BY <1>1, Advancing DEF Moved, Follows
<1> QED
  BY <1>2, <1>3

\* Messages come in, no task moves.
LEMMA StrandsTold ==
    ASSUME Strands, UNCHANGED <<tasks, ready>>, lives <= lives', BusTypes, BusTypes',
           \A i \in Replies(inbox') :
             \/ i \in Replies(inbox) /\ inbox'[i] = inbox[i]
             \/ tasks[inbox'[i].task].pc = "scanning" => inbox'[i].body # Error
    PROVE  Strands'
<1>1. lives \in Nat /\ lives' \in Nat /\ \A t \in Tasks : tasks[t].conn \in Nat
  BY BusAssumption DEF BusTypes, Service, Known, Task, Owned, Conns, NoOne
<1>2. \A t \in Tasks : tasks[t].conn <= lives'
  BY <1>1 DEF Strands
<1> QED
  BY <1>2 DEF Strands

LEMMA ToldOne ==
    ASSUME BusTypes, Strands, UNCHANGED <<tasks, ready, lives>>, BusTypes', NEW m \in Message,
           inbox' = Append(inbox, m), m.what = "reply" /\ tasks[m.task].pc = "scanning" => m.body # Error
    PROVE  Strands'
<1>1. \A i \in Replies(inbox') : \/ i \in Replies(inbox) /\ inbox'[i] = inbox[i]
                                 \/ inbox'[i] = m /\ m.what = "reply"
  BY EndOf DEF BusTypes, Queues, Replies
<1>2. lives <= lives'
  BY DEF BusTypes, Service
<1> QED
  BY <1>1, <1>2, StrandsTold

\* A token goes on that no register counts.
LEMMA Forwarded ==
    ASSUME Protocol, Strands', NEW h \in Label, NEW l \in Label, Moved(h, l), Follows(h, l),
           h \in Labels(lanes), Foremost(lanes, h), Keeps(h, l)
    PROVE  Protocol'
<1>1. /\ UNCHANGED <<owner, lives, closing, byName, services, rules, waiter>>
      /\ h.kind \in {"join", "part"} => Of(lanes, h.kind) = {h} /\ l.kind = h.kind
      /\ h.kind = "join" => h.stage \notin {1, 3}
      /\ h.kind = "part" => h.stage # 3
  BY DEF Keeps, registers, Foremost
<1>2. Tokens' /\ Registry'
  BY <1>1, OnTheWay DEF Protocol
<1> QED
  BY <1>2 DEF Protocol, Moved

-----------------------------------------------------------------------------
(* Steps that move no token, or one that no register counts.               *)

LEMMA Steady ==
    ASSUME Protocol, Strands', LaneInv(lanes'), Shift(lanes, lanes', Other, Other), UNCHANGED registers
    PROVE  Protocol'
<1>1. Moved(Other, Other) /\ Follows(Other, Other) /\ Other \in Label /\ Other.kind = "other"
  BY OtherLabel DEF Moved, Follows
<1>2. Tokens' /\ Registry'
  BY <1>1, OnTheWay DEF Protocol, registers
<1> QED
  BY <1>2 DEF Protocol

LEMMA StandStill ==
    ASSUME Protocol, UNCHANGED <<inbox, outq, calls, tasks, ready>>
    PROVE  /\ lanes' = lanes /\ Joins' = Joins /\ Parts' = Parts
           /\ LaneInv(lanes') /\ Shift(lanes, lanes', Other, Other)
           /\ lives' = lives => Strands'
<1>1. lanes' = lanes
  BY LanesNow
<1>2. Joins' = Joins /\ Parts' = Parts
  BY <1>1 DEF Joins, Parts
<1>3. LaneInv(lanes') /\ Shift(lanes, lanes', Other, Other)
  BY <1>1, OtherLabel DEF Protocol, Shift
<1>4. lives' = lives => Strands'
  BY DEF Protocol, Strands
<1> QED
  BY <1>1, <1>2, <1>3, <1>4

LEMMA WaitCalm ==
    ASSUME BusInv, Protocol, WaitForService
    PROVE  Protocol'
<1>1. /\ UNCHANGED <<inbox, outq, calls, tasks, ready, services, owner, lives, closing, rules>>
      /\ waiter = "none"
      /\ byName \in {Absent, Pending} => waiter' = "waiting" /\ byName' = Pending
      /\ byName \notin {Absent, Pending} => waiter' = "answered" /\ byName' = byName
  BY DEF WaitForService, publisher, daemon
<1>2. /\ lanes' = lanes /\ Joins' = Joins /\ Parts' = Parts /\ LaneInv(lanes') /\ Strands'
  BY <1>1, StandStill
<1>3. Tokens'
  BY <1>1, <1>2 DEF Protocol, Tokens, Parted
<1>4. Registry'
  <2>1. (Parted # Absent /\ Parted # Pending) \/ Parts = {}
    BY PartedIs DEF BusInv, Protocol, Registry, Absent
  <2>2. owner # NoOne => lives # Absent /\ lives # Pending
    BY PartedIs DEF BusInv, Protocol, Registry, Absent
  <2>3. byName' \in IF Parts # {} THEN {Parted}
                    ELSE IF owner # NoOne /\ Joins = {} THEN {lives} ELSE {Absent, Pending}
    BY <1>1, <2>1, <2>2 DEF Protocol, Registry
  <2>4. waiter' # "lost" /\ (waiter' = "waiting" => byName' = Pending)
    BY <1>1
  <2>5. Parted' = Parted
    BY <1>1 DEF Parted
  <2> QED
    BY <1>1, <1>2, <2>3, <2>4, <2>5 DEF Protocol, Registry
<1> QED
  BY <1>2, <1>3, <1>4 DEF Protocol

\* What closes or leaves was added: nothing is on its way about it.
LEMMA AtRest ==
    ASSUME BusTypes, Registry, owner # NoOne, byName = owner
    PROVE  /\ owner = lives /\ Joins = {} /\ Parts = {} /\ services = {lives} /\ rules = 1
           /\ waiter \notin {"lost", "waiting"}
<1>1. owner = lives /\ Parted # lives /\ lives # Pending /\ lives # Absent
  BY PartedIs DEF Absent
<1>2. Parts = {}
  BY <1>1 DEF Registry
<1>3. Joins = {}
  BY <1>1, <1>2 DEF Registry
<1>4. ~Upto(Joins, 1) /\ ~Upto(Joins, 3) /\ ~Upto(Parts, 3)
  BY <1>2, <1>3 DEF Upto
<1> QED
  BY <1>1, <1>2, <1>3, <1>4 DEF Registry

LEMMA CloseCalm ==
    ASSUME BusInv, Protocol, Close, ~hasty'
    PROVE  Protocol'
<1>1. /\ UNCHANGED <<inbox, outq, calls, tasks, ready, services, owner, lives, rules, byName, waiter>>
      /\ owner # NoOne /\ byName = owner
  BY DEF Close, daemon, monitor
<1>2. /\ lanes' = lanes /\ Joins' = Joins /\ Parts' = Parts /\ LaneInv(lanes') /\ Strands'
  BY <1>1, StandStill
<1>3. Joins = {} /\ Parts = {}
  BY <1>1, AtRest DEF BusInv, Protocol
<1>4. Parted' = Parted
  BY <1>1 DEF Parted
<1>5. Tokens' /\ Registry'
  BY <1>1, <1>2, <1>3, <1>4 DEF Protocol, Tokens, Registry
<1> QED
  BY <1>2, <1>5 DEF Protocol

LEMMA HopCalm ==
    ASSUME BusInv, Protocol, Hop
    PROVE  Protocol'
<1> DEFINE t == Head(ready).task
           k == Head(ready).hops
           m == Schedule(t, k - 1)
           h == TaskLabel("ready", t, k, tasks[t], tasks[t].body)
           l == TaskLabel("ready", t, k - 1, tasks[t], tasks[t].body)
<1>1. /\ BusTypes /\ tasks \in [Tasks -> Task] /\ ready \in Seq(Place) /\ inbox \in Seq(Message)
      /\ outq \in Seq(Request) /\ calls \in Seq(Request) /\ Tail(ready) \in Seq(Place)
      /\ ready # <<>> /\ Head(ready) \in Place /\ 1 \in DOMAIN ready /\ ready[1] = Head(ready)
      /\ t \in Tasks /\ k \in Nat
  <2>1. ready # <<>> /\ ready \in Seq(Place)
    BY DEF Hop, BusInv, BusTypes, Queues
  <2>2. Head(ready) \in Place
    BY <2>1
  <2> QED
    BY <2>1, <2>2, TailOf DEF BusInv, BusTypes, Queues, Known, Place
<1>2. k > 0 /\ k <= 2 /\ tasks[t].pc \in {"matching", "removing"} /\ t # 1
  <2>1. k > 0
    BY DEF Hop
  <2> QED
    BY <1>1, <2>1 DEF Protocol, Strands, Gathers
<1>3. /\ ready' = Append(Tail(ready), m) /\ m \in Place /\ m.task = t /\ m.hops = k - 1
      /\ UNCHANGED <<inbox, outq, calls, tasks>> /\ UNCHANGED registers
  BY <1>1, <1>2 DEF Hop, Schedule, Place, publisher, daemon, monitor, registers
<1>4. LabelOf("ready", Head(ready), tasks) = h /\ LabelOf("ready", m, tasks) = l
  BY <1>3 DEF LabelOf
<1> DEFINE L == LanesOf(inbox, Tail(ready), outq, calls, tasks)
<1>5. Front(lanes, L, "ready", h)
  <2>1. Front(LanesOf(inbox, ready, outq, calls, tasks), L, "ready", LabelOf("ready", Head(ready), tasks))
    BY <1>1, Loss
  <2> QED
    BY <1>4, <2>1, LanesNow
<1>6. lanes' = Pushed(L, "ready", l)
  <2> DEFINE q == Tail(ready)
  <2>1. q \in Seq(Place) /\ lanes' = LanesOf(inbox, Append(q, m), outq, calls, tasks)
    BY <1>1, <1>3, LanesNow
  <2> HIDE DEF q, m
  <2>2. LanesOf(inbox, Append(q, m), outq, calls, tasks)
          = Pushed(LanesOf(inbox, q, outq, calls, tasks), "ready", LabelOf("ready", m, tasks))
    BY ONLY <1>1, <1>3, <2>1, Gain
  <2> QED
    BY <1>4, <2>1, <2>2 DEF q
<1> DEFINE kind == IF tasks[t].pc = "matching" THEN "join" ELSE "part"
           c == tasks[t].conn
<1>7. c \in Owned
  BY <1>1 DEF Task
<1>8. h = Tag(kind, 7 - k, c) /\ l = Tag(kind, 7 - (k - 1), c)
  <2> HIDE DEF t, k
  <2>1. CASE tasks[t].pc = "matching"
    BY <1>2, <2>1, Arriving
  <2>2. CASE tasks[t].pc = "removing"
    BY <1>2, <2>2, Leaving
  <2> QED
    BY <1>2, <2>1, <2>2
<1> HIDE DEF L, h, l, m
<1>9. /\ l \in Label /\ h.kind = kind /\ l.kind = kind /\ h.conn = c /\ l.conn = c
      /\ h.stage = 7 - k /\ l.stage = h.stage + 1 /\ h.stage \in 5..6
  <2>1. 7 - k \in 0..11 /\ 7 - (k - 1) \in 0..11 /\ 7 - (k - 1) = (7 - k) + 1 /\ 7 - k \in 5..6
    <3>1. k \in Nat /\ k > 0 /\ k <= 2
      BY <1>1, <1>2
    <3> HIDE DEF k
    <3> QED
      BY ONLY <3>1
  <2>2. kind \in Kinds
    BY DEF Kinds
  <2> DEFINE r == 7 - k
             s == 7 - (k - 1)
  <2> HIDE DEF r, s, kind, c, k, t
  <2>3. h = Tag(kind, r, c) /\ l = Tag(kind, s, c)
    BY <1>8 DEF r, s
  <2>4. r \in 0..11 /\ s \in 0..11 /\ s = r + 1 /\ r \in 5..6 /\ r = 7 - k
    BY <2>1 DEF r, s
  <2>5. l \in Label /\ h.kind = kind /\ l.kind = kind /\ h.conn = c /\ l.conn = c /\ h.stage = r /\ l.stage = s
    BY <1>7, <2>2, <2>3, <2>4, TagIs
  <2> QED
    BY <2>4, <2>5
<1> HIDE DEF c, k, t
<1>10. Sound("ready", l) /\ Follows(h, l) /\ Keeps(h, l)
  BY <1>3, <1>9 DEF Sound, LaneOf, Follows, Keeps
<1>11. "ready" \in Lanes
  BY DEF Lanes
<1>12. Moved(h, l) /\ h \in Label /\ h \in Labels(lanes) /\ Foremost(lanes, h)
  BY <1>5, <1>6, <1>9, <1>10, <1>11, Forwarding DEF Protocol
<1>13. Strands'
  <2>1. \A i \in DOMAIN ready' : \/ i + 1 \in DOMAIN ready /\ ready'[i] = ready[i + 1]
                                 \/ ready'[i] = m
    <3>1. \A i \in DOMAIN ready' : \/ i \in DOMAIN Tail(ready) /\ ready'[i] = Tail(ready)[i]
                                   \/ ready'[i] = m
      BY <1>1, <1>3, EndOf
    <3> QED
      BY <1>1, <3>1, TailOf
  <2>2. \A i \in DOMAIN ready' :
          /\ ready'[i].hops <= 2
          /\ ready'[i].hops > 0 => tasks'[ready'[i].task].pc \in Gathers
          /\ tasks'[ready'[i].task].pc = "scanning" => tasks'[ready'[i].task].body # Error
    BY <1>1, <1>2, <1>3, <2>1 DEF Protocol, Strands, Gathers
  <2>3. UNCHANGED <<tasks, inbox, lives>>
    BY <1>3 DEF registers
  <2> QED
    BY <2>2, <2>3 DEF Protocol, Strands
<1> QED
  BY <1>9, <1>10, <1>12, <1>13, Forwarded

-----------------------------------------------------------------------------
(* The daemon takes a message, and answers it or hands it on.              *)

LEMMA RouteLanes ==
    ASSUME BusTypes, outq # <<>>, outq' = Tail(outq), UNCHANGED <<tasks, ready>>,
           NEW L, L = LanesOf(inbox, ready, Tail(outq), calls, tasks)
    PROVE  /\ Front(lanes, L, "out", LabelOf("out", Head(outq), tasks))
           /\ \A m \in Message : inbox' = Append(inbox, m) /\ calls' = calls
                => lanes' = Pushed(L, "in", LabelOf("in", m, tasks))
           /\ inbox' = inbox /\ calls' = Append(calls, Head(outq))
                => lanes' = Pushed(L, "call", LabelOf("call", Head(outq), tasks))
<1>1. /\ ready \in Seq(Place) /\ inbox \in Seq(Message) /\ outq \in Seq(Request) /\ calls \in Seq(Request)
      /\ Tail(outq) \in Seq(Request) /\ Head(outq) \in Request
  BY TailOf DEF BusTypes, Queues
<1>2. Front(lanes, L, "out", LabelOf("out", Head(outq), tasks))
  <2>1. Front(LanesOf(inbox, ready, outq, calls, tasks), LanesOf(inbox, ready, Tail(outq), calls, tasks),
              "out", LabelOf("out", Head(outq), tasks))
    BY <1>1, Loss
  <2> QED
    BY <2>1, LanesNow
<1> DEFINE q == Tail(outq)
           e == Head(outq)
<1>3. q \in Seq(Request) /\ outq' = q /\ L = LanesOf(inbox, ready, q, calls, tasks) /\ e \in Request
  BY <1>1
<1> HIDE DEF q, e
<1>4. ASSUME NEW m \in Message, inbox' = Append(inbox, m), calls' = calls
      PROVE  lanes' = Pushed(L, "in", LabelOf("in", m, tasks))
  <2>1. lanes' = LanesOf(Append(inbox, m), ready, q, calls, tasks)
    BY <1>3, <1>4, LanesNow
  <2>2. m \in Message
    OBVIOUS
  <2>3. LanesOf(Append(inbox, m), ready, q, calls, tasks)
          = Pushed(LanesOf(inbox, ready, q, calls, tasks), "in", LabelOf("in", m, tasks))
    BY ONLY <1>1, <1>3, <2>2, Gain
  <2> QED
    BY <1>3, <2>1, <2>3
<1>5. ASSUME inbox' = inbox, calls' = Append(calls, e)
      PROVE  lanes' = Pushed(L, "call", LabelOf("call", e, tasks))
  <2>1. lanes' = LanesOf(inbox, ready, q, Append(calls, e), tasks)
    BY <1>3, <1>5, LanesNow
  <2>2. LanesOf(inbox, ready, q, Append(calls, e), tasks)
          = Pushed(LanesOf(inbox, ready, q, calls, tasks), "call", LabelOf("call", e, tasks))
    BY ONLY <1>1, <1>3, Gain
  <2> QED
    BY <1>3, <2>1, <2>2
<1> QED
  BY <1>2, <1>4, <1>5 DEF e

\* The label of an answer.
LEMMA AnswerLabel ==
    ASSUME NEW t, NEW body, NEW ts
    PROVE  LabelOf("in", Answer(t, body), ts) = TaskLabel("in", t, 0, ts[t], body)
BY DEF LabelOf, Answer

\* A token that stands for nothing goes, another begins its way.
LEMMA Beginning ==
    ASSUME LaneInv(lanes), NEW L, NEW a \in Lanes, NEW h, Front(lanes, L, a, h), h.kind = "other",
           NEW l \in Label, l.stage = 0, l.kind \notin {"join", "part"},
           \A x \in Labels(lanes) : ~Leads(l, x), lanes' = Pushed(L, "in", l)
    PROVE  LaneInv(lanes') /\ Shift(lanes, lanes', Other, l)
<1>1. LaneInv(L) /\ Shift(lanes, L, h, Other) /\ Labels(L) \subseteq Labels(lanes) /\ "in" \in Lanes
  BY Dropping, Popping DEF Front, Lanes
<1>2. LaneInv(lanes') /\ Shift(L, lanes', Other, l)
  <2>1. LaneInv(L) /\ l \in Label /\ "in" \in Lanes
    BY <1>1
  <2>2. \A x \in Labels(L) : /\ l.kind \in {"join", "part"} => x.kind # l.kind
                             /\ ~Leads(l, x)
    BY <1>1
  <2>3. LaneInv(Pushed(L, "in", l)) /\ Shift(L, Pushed(L, "in", l), Other, l)
    BY <2>1, <2>2, Entering
  <2> QED
    BY <2>3
<1>3. Shift(lanes, lanes', Other, l)
  <2>1. \A kind \in {"join", "part"} : Of(L, kind) = Of(lanes, kind)
    BY <1>1, OtherLabel DEF Shift
  <2>2. \A kind \in {"make", "signal"} : Of(L, kind) \subseteq Of(lanes, kind)
    BY <1>1, OtherLabel DEF Shift
  <2> QED
    BY <1>2, <2>1, <2>2 DEF Shift
<1> QED
  BY <1>2, <1>3

\* A call reaches the present process, or the daemon answers for nobody.
LEMMA RoutePlain ==
    ASSUME BusInv, BusTypes', Protocol, Route, NEW msg, msg = Head(outq),
           msg.what \in {"names", "items", "get", "set"}
    PROVE  Protocol'
<1> DEFINE t == msg.task
           L == LanesOf(inbox, ready, Tail(outq), calls, tasks)
           h == LabelOf("out", msg, tasks)
<1>1. /\ BusTypes /\ tasks \in [Tasks -> Task] /\ outq \in Seq(Request) /\ outq # <<>>
      /\ UNCHANGED <<tasks, ready>> /\ outq' = Tail(outq) /\ 1 \in DOMAIN outq /\ outq[1] = msg
      /\ msg \in Request /\ t \in Tasks /\ Asks(tasks[t].pc, msg.what) /\ inbox \in Seq(Message)
      /\ UNCHANGED registers /\ owner \in Owned
  <2>1. /\ BusTypes /\ tasks \in [Tasks -> Task] /\ outq \in Seq(Request) /\ Wire /\ inbox \in Seq(Message) /\ owner \in Owned
    BY DEF BusInv, BusTypes, Queues, Known, Service
  <2>2. /\ outq # <<>> /\ outq' = Tail(outq) /\ UNCHANGED <<tasks, ready>> /\ UNCHANGED registers
    BY DEF Route, publisher, monitor, registers, daemon
  <2>3. 1 \in DOMAIN outq /\ outq[1] = msg /\ msg \in Request
    BY <2>1, <2>2, TailOf
  <2> QED
    BY <2>1, <2>2, <2>3, Shapes DEF Wire
<1>2. Front(lanes, L, "out", h) /\ "out" \in Lanes /\ "in" \in Lanes /\ "call" \in Lanes
  BY <1>1, RouteLanes DEF Lanes
<1>3. h = TaskLabel("out", t, 0, tasks[t], <<>>)
  BY DEF LabelOf
<1>4. ASSUME h = Other, NEW body \in Body, tasks[t].pc # "scanning",
             inbox' = Append(inbox, Answer(t, body)), calls' = calls,
             TaskLabel("in", t, 0, tasks[t], body) = Other
      PROVE  Protocol'
  <2> DEFINE m == Answer(t, body)
  <2>1. m \in Message /\ m.task = t /\ inbox' = Append(inbox, m)
    BY <1>1, <1>4, Made DEF Answer
  <2> HIDE DEF m
  <2>2. LabelOf("in", m, tasks) = Other
    BY <1>4, AnswerLabel DEF m
  <2>3. lanes' = Pushed(L, "in", Other)
    BY <1>1, <1>4, <2>1, <2>2, RouteLanes
  <2>4. Strands'
    BY <1>1, <1>4, <2>1, ToldOne DEF Protocol, registers
  <2> HIDE DEF L, h
  <2>5. Moved(Other, Other)
    BY <1>2, <1>4, <2>3, OtherLabel, Forwarding DEF Protocol, Follows
  <2> QED
    BY <1>1, <2>4, <2>5, Steady DEF Moved
<1>5. ASSUME inbox' = inbox, calls' = Append(calls, msg), NEW l \in Label, LabelOf("call", msg, tasks) = l,
             Sound("call", l), Follows(h, l), Keeps(h, l)
      PROVE  Protocol'
  <2>1. lanes' = Pushed(L, "call", l)
    BY <1>1, <1>5, RouteLanes
  <2>2. Strands'
    BY <1>1, <1>5 DEF Protocol, Strands, registers
  <2> HIDE DEF L, h
  <2>3. Moved(h, l) /\ h \in Label /\ h \in Labels(lanes) /\ Foremost(lanes, h)
    BY <1>2, <1>5, <2>1, Forwarding DEF Protocol
  <2> QED
    BY <1>5, <2>2, <2>3, Forwarded
<1>6. CASE msg.what = "names"
  <2>1. tasks[t].pc = "names" /\ t = 1
    BY <1>1, <1>6 DEF Asks, Protocol, Strands
  <2>2. h = Other /\ \A body : TaskLabel("in", t, 0, tasks[t], body) = Other
    BY <1>3, <2>1, Making
  <2>3. inbox' = Append(inbox, Answer(t, Found(owner))) /\ calls' = calls /\ Found(owner) \in Body
    BY <1>1, <1>6 DEF Route, daemon, Body
  <2> QED
    BY <1>4, <2>1, <2>2, <2>3
<1>7. CASE msg.what \in {"get", "set"}
  <2>1. tasks[t].pc \in {"getting", "setting"} /\ t # 1
    BY <1>1, <1>7 DEF Asks, Protocol, Strands
  <2>2. /\ h = Other /\ \A body : TaskLabel("in", t, 0, tasks[t], body) = Other
        /\ LabelOf("call", msg, tasks) = Other
    BY <1>3, <2>1, Passing DEF LabelOf
  <2>3. Keeps(h, Other) /\ Follows(h, Other) /\ Sound("call", Other) /\ Other \in Label
    BY <1>1, <2>2, OtherLabel DEF Keeps, Follows
  <2>4. \/ inbox' = Append(inbox, Answer(t, Error)) /\ calls' = calls
        \/ inbox' = inbox /\ calls' = Append(calls, msg)
    BY <1>7 DEF Route, daemon
  <2>5. Error \in Body
    BY DEF Body
  <2> QED
    BY <1>4, <1>5, <2>1, <2>2, <2>3, <2>4, <2>5
<1>8. CASE msg.what = "items"
  <2>1. tasks[t].pc = "scanning" /\ t # 1 /\ tasks[t].conn \in Owned
    BY <1>1, <1>8 DEF Asks, Protocol, Strands, Task
  <2>2. h = Tag("join", 8, tasks[t].conn)
    <3> DEFINE task == tasks[t]
    <3>1. h = TaskLabel("out", t, 0, task, <<>>) /\ t # 1 /\ task.pc = "scanning"
      BY <1>3, <2>1
    <3> HIDE DEF h, t, task
    <3>2. h = Tag("join", 8, task.conn)
      BY ONLY <3>1 DEF TaskLabel, Stage
    <3> QED
      BY <3>2 DEF task
  <2>3. LabelOf("call", msg, tasks) = Tag("join", 9, tasks[t].conn)
    <3>1. LabelOf("call", msg, tasks) = TaskLabel("call", t, 0, tasks[t], <<>>)
      BY DEF LabelOf
    <3> QED
      BY <2>1, <3>1, Arriving
  <2> DEFINE l == Tag("join", 9, tasks[t].conn)
  <2>4. l \in Label /\ l.kind = "join" /\ l.stage = 9 /\ l.conn = tasks[t].conn
    BY <2>1, TagIs DEF Kinds
  <2>5. h.kind = "join" /\ h.stage = 8 /\ h.conn = tasks[t].conn
    BY <2>1, <2>2, TagIs DEF Kinds
  <2> HIDE DEF l
  <2>6. Sound("call", l) /\ Follows(h, l) /\ Keeps(h, l)
    <3> HIDE DEF h
    <3> QED
      BY <1>1, <2>4, <2>5 DEF Sound, LaneOf, Follows, Keeps
  <2>7. owner # NoOne
    <3> HIDE DEF h, L
    <3>1. h \in Labels(lanes)
      BY <1>2, Leading DEF Front, Protocol
    <3>2. Joins # {}
      BY <2>5, <3>1 DEF Joins, Of
    <3> QED
      BY <3>2 DEF Protocol, Registry
  <2>8. inbox' = inbox /\ calls' = Append(calls, msg)
    BY <1>8, <2>7 DEF Route, daemon
  <2> QED
    BY <1>5, <2>3, <2>4, <2>6, <2>8 DEF l
<1> QED
  BY <1>6, <1>7, <1>8

\* The daemon counts the rules of the process that arrives.
LEMMA RouteMatch ==
    ASSUME BusInv, BusTypes', Protocol, Route, NEW msg, msg = Head(outq), msg.what = "match"
    PROVE  /\ Protocol' /\ rules' = rules + 1 /\ owner # NoOne
<1> DEFINE t == msg.task
           L == LanesOf(inbox, ready, Tail(outq), calls, tasks)
           h == LabelOf("out", msg, tasks)
           m == Answer(t, <<>>)
           l == LabelOf("in", m, tasks)
           c == tasks[t].conn
<1>1. /\ BusTypes /\ tasks \in [Tasks -> Task] /\ outq # <<>> /\ UNCHANGED <<tasks, ready>>
      /\ outq' = Tail(outq) /\ t \in Tasks /\ tasks[t].pc = "matching" /\ t # 1
      /\ UNCHANGED <<owner, lives, closing, byName, services, waiter>> /\ c \in Owned
      /\ rules' = rules + 1 /\ inbox' = Append(inbox, m) /\ calls' = calls /\ m \in Message
  <2>1. /\ BusTypes /\ tasks \in [Tasks -> Task] /\ outq \in Seq(Request) /\ Wire
    BY DEF BusInv, BusTypes, Queues, Known
  <2>2. /\ outq # <<>> /\ outq' = Tail(outq) /\ UNCHANGED <<tasks, ready>>
        /\ UNCHANGED <<owner, lives, closing, byName, services, waiter>>
        /\ rules' = rules + 1 /\ inbox' = Append(inbox, m) /\ calls' = calls
    BY DEF Route, publisher, monitor
  <2>3. 1 \in DOMAIN outq /\ outq[1] = msg /\ msg \in Request
    BY <2>1, <2>2, TailOf
  <2>4. t \in Tasks /\ Asks(tasks[t].pc, "match")
    BY <2>1, <2>3, Shapes DEF Wire
  <2>5. tasks[t].pc = "matching" /\ t # 1
    BY <2>4 DEF Asks, Protocol, Strands
  <2>6. m \in Message
    BY <2>4, Made DEF Body
  <2> QED
    BY <2>1, <2>2, <2>4, <2>5, <2>6 DEF Task
<1>2. /\ Front(lanes, L, "out", h) /\ "out" \in Lanes /\ "in" \in Lanes
      /\ lanes' = Pushed(L, "in", l)
  BY <1>1, RouteLanes DEF Lanes
<1>3. h = Tag("join", 3, c) /\ l = Tag("join", 4, c)
  <2>1. h = TaskLabel("out", t, 0, tasks[t], <<>>) /\ l = TaskLabel("in", t, 0, tasks[t], <<>>)
    BY AnswerLabel DEF LabelOf
  <2> DEFINE task == tasks[t]
  <2>2. /\ t # 1 /\ task.pc = "matching" /\ c = task.conn
        /\ h = TaskLabel("out", t, 0, task, <<>>) /\ l = TaskLabel("in", t, 0, task, <<>>)
    BY <1>1, <2>1
  <2> HIDE DEF h, l, t, c, task
  <2>3. h = Tag("join", 3, task.conn)
    BY ONLY <2>2 DEF TaskLabel, Stage
  <2>4. l = Tag("join", 4, task.conn)
    BY ONLY <2>2 DEF TaskLabel, Stage
  <2> QED
    BY <2>2, <2>3, <2>4
<1>4. h.kind = "join" /\ h.stage = 3 /\ h.conn = c
  BY <1>1, <1>3, TagIs DEF Kinds
<1>5. l \in Label /\ l.kind = "join" /\ l.stage = 4 /\ l.conn = c
  <2> HIDE DEF l
  <2> QED
    BY <1>1, <1>3, TagIs DEF Kinds
<1>6. Strands'
  <2>1. m.what = "reply" /\ m.task = t
    BY DEF Answer
  <2> HIDE DEF m
  <2> QED
    BY <1>1, <2>1, ToldOne DEF Protocol
<1> HIDE DEF L, h, l, m, c, t
<1>7. Sound("in", l) /\ Follows(h, l)
  BY <1>4, <1>5 DEF Sound, LaneOf, Follows
<1>8. Moved(h, l) /\ h \in Label /\ h \in Labels(lanes) /\ Foremost(lanes, h)
  BY <1>2, <1>5, <1>7, Forwarding DEF Protocol
<1>9. Joins = {h} /\ Joins' = {l} /\ Parts' = Parts /\ owner # NoOne /\ c = lives
  <2>1. Joins = {h}
    BY <1>4, <1>8 DEF Foremost, Joins
  <2> QED
    BY <1>4, <1>5, <1>8, <2>1 DEF Moved, Shift, Joins, Parts, Protocol, Tokens, Registry
<1>10. ~Upto(Joins, 1) /\ ~Upto(Joins', 1) /\ Upto(Joins, 3) /\ ~Upto(Joins', 3)
  BY <1>4, <1>5, <1>9 DEF Upto
<1>11. Parted' = Parted
  BY <1>1 DEF Parted
<1>12. Tokens'
  <2>1. \A y \in Of(lanes', "make") : y \in Of(lanes, "make") /\ y.conn \in services
    BY <1>4, <1>5, <1>8, <1>9 DEF Moved, Shift, Protocol, Tokens
  <2>2. \A y \in Of(lanes', "signal") : y \in Of(lanes, "signal")
    BY <1>5, <1>8 DEF Moved, Shift
  <2> QED
    BY <1>1, <1>5, <1>9, <1>11, <2>1, <2>2 DEF Protocol, Tokens
<1>13. Registry'
  <2>1. rules \in {0, 1} /\ rules' = (IF Upto(Parts', 3) THEN 1 ELSE 0)
                     + (IF owner' # NoOne /\ ~Upto(Joins', 3) THEN 1 ELSE 0)
    BY <1>1, <1>9, <1>10 DEF Protocol, Registry
  <2>2. Joins # {} /\ Joins' # {}
    BY <1>9
  <2> QED
    BY <1>1, <1>9, <1>10, <1>11, <2>1, <2>2 DEF Protocol, Registry
<1> QED
  BY <1>1, <1>6, <1>8, <1>9, <1>12, <1>13 DEF Protocol, Moved

\* ... and no longer counts those of the process that leaves.
LEMMA RouteUnmatch ==
    ASSUME BusInv, BusTypes', Protocol, Route, NEW msg, msg = Head(outq), msg.what = "unmatch"
    PROVE  /\ Protocol' /\ rules = rules' + 1 /\ (owner # NoOne => Joins # {})
<1> DEFINE t == msg.task
           L == LanesOf(inbox, ready, Tail(outq), calls, tasks)
           h == LabelOf("out", msg, tasks)
           m == Answer(t, <<>>)
           l == LabelOf("in", m, tasks)
           c == tasks[t].conn
<1>1. /\ BusTypes /\ tasks \in [Tasks -> Task] /\ outq # <<>> /\ UNCHANGED <<tasks, ready>>
      /\ outq' = Tail(outq) /\ t \in Tasks /\ tasks[t].pc = "removing" /\ t # 1
      /\ UNCHANGED <<owner, lives, closing, byName, services, waiter>> /\ c \in Owned
      /\ rules' = (IF rules = 0 THEN 0 ELSE rules - 1)
      /\ inbox' = Append(inbox, m) /\ calls' = calls /\ m \in Message
  <2>1. /\ BusTypes /\ tasks \in [Tasks -> Task] /\ outq \in Seq(Request) /\ Wire
    BY DEF BusInv, BusTypes, Queues, Known
  <2>2. /\ outq # <<>> /\ outq' = Tail(outq) /\ UNCHANGED <<tasks, ready>>
        /\ UNCHANGED <<owner, lives, closing, byName, services, waiter>>
        /\ rules' = (IF rules = 0 THEN 0 ELSE rules - 1)
        /\ inbox' = Append(inbox, m) /\ calls' = calls
    BY DEF Route, publisher, monitor
  <2>3. 1 \in DOMAIN outq /\ outq[1] = msg /\ msg \in Request
    BY <2>1, <2>2, TailOf
  <2>4. t \in Tasks /\ Asks(tasks[t].pc, "unmatch")
    BY <2>1, <2>3, Shapes DEF Wire
  <2>5. tasks[t].pc = "removing" /\ t # 1
    BY <2>4 DEF Asks, Protocol, Strands
  <2>6. m \in Message
    BY <2>4, Made DEF Body
  <2> QED
    BY <2>1, <2>2, <2>4, <2>5, <2>6 DEF Task
<1>2. /\ Front(lanes, L, "out", h) /\ "out" \in Lanes /\ "in" \in Lanes
      /\ lanes' = Pushed(L, "in", l)
  BY <1>1, RouteLanes DEF Lanes
<1>3. h = Tag("part", 3, c) /\ l = Tag("part", 4, c)
  <2>1. h = TaskLabel("out", t, 0, tasks[t], <<>>) /\ l = TaskLabel("in", t, 0, tasks[t], <<>>)
    BY AnswerLabel DEF LabelOf
  <2>2. t # 1 /\ tasks[t].pc = "removing"
    BY <1>1
  <2> HIDE DEF h, l, t
  <2> QED
    BY ONLY <2>1, <2>2 DEF c, TaskLabel, Stage
<1>4. h.kind = "part" /\ h.stage = 3 /\ h.conn = c
  BY <1>1, <1>3, TagIs DEF Kinds
<1>5. l \in Label /\ l.kind = "part" /\ l.stage = 4 /\ l.conn = c
  <2> HIDE DEF l
  <2> QED
    BY <1>1, <1>3, TagIs DEF Kinds
<1>6. Strands'
  <2>1. m.what = "reply" /\ m.task = t
    BY DEF Answer
  <2> HIDE DEF m
  <2> QED
    BY <1>1, <2>1, ToldOne DEF Protocol
<1> HIDE DEF L, h, l, m, c, t
<1>7. Sound("in", l) /\ Follows(h, l)
  BY <1>4, <1>5 DEF Sound, LaneOf, Follows
<1>8. Moved(h, l) /\ h \in Label /\ h \in Labels(lanes) /\ Foremost(lanes, h)
  BY <1>2, <1>5, <1>7, Forwarding DEF Protocol
<1>9. Parts = {h} /\ Parts' = {l} /\ Joins' = Joins /\ c = Parted /\ (owner # NoOne => Joins # {})
  <2>1. Parts = {h}
    BY <1>4, <1>8 DEF Foremost, Parts
  <2> QED
    BY <1>4, <1>5, <1>8, <2>1 DEF Moved, Shift, Joins, Parts, Protocol, Tokens, Registry
<1>10. Upto(Parts, 3) /\ ~Upto(Parts', 3)
  BY <1>4, <1>5, <1>9 DEF Upto
<1>11. Parted' = Parted
  BY <1>1 DEF Parted
<1>12. Tokens'
  <2>1. \A y \in Of(lanes', "make") : y \in Of(lanes, "make")
    BY <1>5, <1>8 DEF Moved, Shift
  <2>2. \A y \in Of(lanes', "signal") : y \in Of(lanes, "signal")
    BY <1>5, <1>8 DEF Moved, Shift
  <2>3. Parts' # {}
    BY <1>9
  <2> QED
    BY <1>1, <1>5, <1>9, <1>11, <2>1, <2>2, <2>3 DEF Protocol, Tokens
<1>13. Registry' /\ rules = rules' + 1
  <2>1. rules = 1 + (IF owner # NoOne /\ ~Upto(Joins, 3) THEN 1 ELSE 0)
    BY <1>10 DEF Protocol, Registry
  <2>2. rules = rules' + 1 /\ rules' = (IF Upto(Parts', 3) THEN 1 ELSE 0)
                     + (IF owner' # NoOne /\ ~Upto(Joins', 3) THEN 1 ELSE 0)
    BY <1>1, <1>9, <1>10, <2>1
  <2>3. Parts # {} /\ Parts' # {}
    BY <1>9
  <2> QED
    BY <1>1, <1>9, <1>10, <1>11, <2>2, <2>3 DEF Protocol, Registry
<1> QED
  BY <1>6, <1>8, <1>9, <1>12, <1>13 DEF Protocol, Moved

\* create is told who is there, behind the announcement of it.
LEMMA RouteOwner ==
    ASSUME BusInv, BusTypes', Protocol, Route, NEW msg, msg = Head(outq), msg.what = "owner"
    PROVE  Protocol'
<1> DEFINE t == msg.task
           L == LanesOf(inbox, ready, Tail(outq), calls, tasks)
           h == LabelOf("out", msg, tasks)
           m == Answer(t, Found(owner))
           l == LabelOf("in", m, tasks)
<1>1. /\ BusTypes /\ outq # <<>> /\ UNCHANGED <<tasks, ready>> /\ outq' = Tail(outq)
      /\ tasks[t].pc = "whose" /\ t = 1 /\ UNCHANGED registers /\ owner \in Owned /\ owner \in {NoOne, lives}
      /\ inbox' = Append(inbox, m) /\ calls' = calls /\ m \in Message
  <2>1. /\ BusTypes /\ outq \in Seq(Request) /\ Wire /\ owner \in Owned
    BY DEF BusInv, BusTypes, Queues, Service
  <2>2. /\ outq # <<>> /\ outq' = Tail(outq) /\ UNCHANGED <<tasks, ready>> /\ UNCHANGED registers
        /\ inbox' = Append(inbox, m) /\ calls' = calls
    BY DEF Route, publisher, monitor, daemon, registers
  <2>3. 1 \in DOMAIN outq /\ outq[1] = msg /\ msg \in Request
    BY <2>1, <2>2, TailOf
  <2>4. t \in Tasks /\ Asks(tasks[t].pc, "owner")
    BY <2>1, <2>3, Shapes DEF Wire
  <2>5. tasks[t].pc = "whose" /\ t = 1
    BY <2>4 DEF Asks, Protocol, Strands
  <2>6. m \in Message
    BY <2>1, <2>4, Made DEF Body
  <2>7. owner \in {NoOne, lives}
    BY DEF Protocol, Registry
  <2> QED
    BY <2>1, <2>2, <2>5, <2>6, <2>7
<1>2. /\ Front(lanes, L, "out", h) /\ "out" \in Lanes /\ "in" \in Lanes
      /\ lanes' = Pushed(L, "in", l)
  BY <1>1, RouteLanes DEF Lanes
<1>3. h = Other /\ l = IF owner # NoOne THEN Tag("make", 0, owner) ELSE Other
  <2>1. h = TaskLabel("out", t, 0, tasks[t], <<>>) /\ l = TaskLabel("in", t, 0, tasks[t], Found(owner))
    BY AnswerLabel DEF LabelOf
  <2>2. t = 1 /\ tasks[t].pc = "whose" /\ Found(owner)[2] = owner
    BY <1>1 DEF Found
  <2> HIDE DEF h, l, t
  <2> QED
    BY ONLY <2>1, <2>2, Making
<1>4. h.kind = "other"
  BY <1>3, OtherLabel
<1>5. /\ l \in Label /\ l.stage = 0 /\ l.kind \in {"make", "other"}
      /\ l.kind = "make" => owner # NoOne /\ l.conn = owner
  <2> HIDE DEF l
  <2>1. Tag("make", 0, owner) \in Label /\ Tag("make", 0, owner).kind = "make"
        /\ Tag("make", 0, owner).stage = 0 /\ Tag("make", 0, owner).conn = owner
    BY <1>1, TagIs DEF Kinds
  <2>2. Other.stage = 0
    BY DEF Other, Tag
  <2> QED
    BY <1>3, <2>1, <2>2, OtherLabel
<1>6. Strands'
  <2>1. m.what = "reply" /\ m.task = t
    BY DEF Answer
  <2>2. UNCHANGED lives
    BY <1>1 DEF registers
  <2> HIDE DEF m
  <2> QED
    BY <1>1, <2>1, <2>2, ToldOne DEF Protocol
<1> HIDE DEF L, h, l, m, t
<1>7. \A x \in Labels(lanes) : ~Leads(l, x)
  <2>1. ASSUME NEW x \in Labels(lanes), Leads(l, x) PROVE FALSE
    <3>1. x.kind = "part" /\ x.conn = owner /\ owner # NoOne
      BY <1>5, <2>1 DEF Leads
    <3>2. x.conn = Parted
      BY <3>1 DEF Protocol, Tokens, Parts, Of
    <3> QED
      BY <1>1, <3>1, <3>2, PartedIs DEF Protocol
  <2> QED
    BY <2>1
<1>8. LaneInv(lanes') /\ Shift(lanes, lanes', Other, l)
  BY <1>2, <1>4, <1>5, <1>7, Beginning DEF Protocol
<1>9. /\ Joins' = Joins /\ Parts' = Parts
      /\ \A x \in Of(lanes', "signal") : x \in Of(lanes, "signal")
      /\ \A x \in Of(lanes', "make") : x \in Of(lanes, "make") \/ (x = l /\ l.kind = "make")
  BY <1>5, <1>8, OtherLabel DEF Shift, Joins, Parts
<1>10. UNCHANGED <<owner, lives, closing, byName, services, rules, waiter>> /\ Parted' = Parted
  BY <1>1 DEF registers, Parted
<1>11. Registry'
  BY <1>9, <1>10 DEF Protocol, Registry
<1>12. owner # NoOne => owner \in services \/ \E y \in Joins : y.stage <= 1 /\ y.conn = owner
  <2>1. ASSUME owner # NoOne, Upto(Joins, 1) PROVE \E y \in Joins : y.stage <= 1 /\ y.conn = owner
    BY <1>1, <2>1 DEF Upto, Protocol, Tokens
  <2>2. owner # NoOne /\ ~Upto(Joins, 1) => owner \in services
    BY <1>1 DEF Protocol, Registry
  <2> QED
    BY <2>1, <2>2
<1>13. Tokens'
  <2>1. owner <= lives
    BY <1>1, PartedIs DEF Protocol, NoOne
  <2>2. ASSUME NEW x \in Of(lanes', "make")
        PROVE  /\ x.conn # NoOne /\ x.conn <= lives
               /\ x.conn \in services \/ \E y \in Joins : y.stage <= 1 /\ y.conn = x.conn
    BY <1>5, <1>9, <1>12, <2>1 DEF Protocol, Tokens
  <2> QED
    BY <1>9, <1>10, <2>2 DEF Protocol, Tokens
<1> QED
  BY <1>6, <1>8, <1>11, <1>13 DEF Protocol

LEMMA RouteCalm ==
    ASSUME BusInv, BusTypes', Protocol, Route
    PROVE  Protocol'
<1>1. outq # <<>> /\ outq \in Seq(Request)
  BY DEF Route, BusInv, BusTypes, Queues
<1>2. Head(outq).what \in {"names", "owner", "match", "unmatch", "items", "get", "set"}
  BY <1>1, TailOf, Shapes
<1> QED
  BY <1>2, RoutePlain, RouteMatch, RouteUnmatch, RouteOwner

-----------------------------------------------------------------------------
(* What the publishing process does: it answers, writes and registers.     *)

LEMMA CallLanes ==
    ASSUME BusTypes, calls # <<>>, calls' = Tail(calls), UNCHANGED <<tasks, ready, outq>>,
           NEW q, q \in Seq(Message), NEW m \in Message, inbox' = Append(q, m),
           NEW K, K = LanesOf(q, ready, outq, calls, tasks),
           NEW L, L = LanesOf(q, ready, outq, Tail(calls), tasks)
    PROVE  /\ Front(K, L, "call", LabelOf("call", Head(calls), tasks))
           /\ lanes' = Pushed(L, "in", LabelOf("in", m, tasks))
<1>1. /\ ready \in Seq(Place) /\ outq \in Seq(Request) /\ calls \in Seq(Request)
      /\ Tail(calls) \in Seq(Request)
  BY TailOf DEF BusTypes, Queues
<1>2. Front(K, L, "call", LabelOf("call", Head(calls), tasks))
  BY <1>1, Loss
<1> DEFINE d == Tail(calls)
<1>3. d \in Seq(Request) /\ L = LanesOf(q, ready, outq, d, tasks) /\ calls' = d
  BY <1>1
<1> HIDE DEF d
<1>4. lanes' = Pushed(L, "in", LabelOf("in", m, tasks))
  <2>1. lanes' = LanesOf(Append(q, m), ready, outq, d, tasks)
    BY <1>3, LanesNow
  <2>2. m \in Message /\ q \in Seq(Message)
    OBVIOUS
  <2>3. LanesOf(Append(q, m), ready, outq, d, tasks)
          = Pushed(LanesOf(q, ready, outq, d, tasks), "in", LabelOf("in", m, tasks))
    BY ONLY <1>1, <1>3, <2>2, Gain
  <2> QED
    BY <1>3, <2>1, <2>3
<1> QED
  BY <1>2, <1>4

\* The first call that waits, and the task that made it.
LEMMA Caller ==
    ASSUME BusInv, Protocol, calls # <<>>, NEW t, t = Head(calls).task
    PROVE  /\ calls \in Seq(Request) /\ t \in Tasks /\ tasks[t] \in Task /\ t # 1
           /\ LabelOf("call", Head(calls), tasks) = TaskLabel("call", t, 0, tasks[t], <<>>)
           /\ Head(calls).what \in {"items", "get", "set"}
           /\ Head(calls).what = "items" => tasks[t].pc = "scanning"
           /\ Head(calls).what \in {"get", "set"} => tasks[t].pc \in {"getting", "setting"}
           /\ Head(calls).what = "set" => tasks[t].pc = "setting"
           /\ Head(calls).what \in {"get", "set"} => Head(calls).path \in Paths
<1>1. calls \in Seq(Request) /\ Wire /\ tasks \in [Tasks -> Task]
  BY DEF BusInv, BusTypes, Queues, Known
<1>2. 1 \in DOMAIN calls /\ calls[1] = Head(calls) /\ Head(calls) \in Request
  BY <1>1, TailOf
<1>3. t \in Tasks /\ Asks(tasks[t].pc, Head(calls).what) /\ Head(calls).what \in {"items", "get", "set"}
  BY <1>1, <1>2, Shapes DEF Wire
<1>4. LabelOf("call", Head(calls), tasks) = TaskLabel("call", t, 0, tasks[t], <<>>)
  BY DEF LabelOf
<1>5. /\ Head(calls).what = "items" => tasks[t].pc = "scanning"
      /\ Head(calls).what \in {"get", "set"} => tasks[t].pc \in {"getting", "setting"}
      /\ Head(calls).what = "set" => tasks[t].pc = "setting"
  BY <1>3 DEF Asks
<1>6. t # 1
  BY <1>3, <1>5 DEF Protocol, Strands
<1> QED
  BY <1>1, <1>2, <1>3, <1>4, <1>5, <1>6, Shapes

LEMMA AnswerGetCalm ==
    ASSUME BusInv, BusTypes', Protocol, AnswerGet
    PROVE  Protocol'
<1> DEFINE call == Head(calls)
           t == call.task
           body == IF closing \/ call.what = "set" THEN Error
                   ELSE IF call.what = "items" THEN Items(vals)
                   ELSE Items([p \in {call.path} |-> vals[p]])
           m == Answer(t, body)
           L == LanesOf(inbox, ready, outq, Tail(calls), tasks)
           h == LabelOf("call", call, tasks)
           l == LabelOf("in", m, tasks)
<1>1. /\ calls # <<>> /\ inbox' = Append(inbox, m) /\ calls' = Tail(calls)
      /\ UNCHANGED <<tasks, ready, outq, lives>> /\ UNCHANGED registers /\ BusTypes
      /\ inbox \in Seq(Message) /\ vals \in [Paths -> Nat]
  BY DEF AnswerGet, publisher, monitor, registers, BusInv, BusTypes, Queues, Service
<1>2. /\ t \in Tasks /\ tasks[t] \in Task /\ t # 1
      /\ h = TaskLabel("call", t, 0, tasks[t], <<>>)
      /\ call.what \in {"items", "get", "set"}
      /\ call.what = "items" => tasks[t].pc = "scanning"
      /\ call.what \in {"get", "set"} => tasks[t].pc \in {"getting", "setting"}
      /\ call.what \in {"get", "set"} => call.path \in Paths
  BY <1>1, Caller
<1>3. body \in Body
  <2>1. vals \in Changes
    BY <1>1 DEF Changes
  <2>2. call.what \in {"get", "set"} => [p \in {call.path} |-> vals[p]] \in Changes
    <3> DEFINE path == call.path
               what == call.what
    <3>1. (what \in {"get", "set"} => path \in Paths) /\ vals \in [Paths -> Nat]
      BY <1>1, <1>2
    <3> HIDE DEF path, what
    <3>2. what \in {"get", "set"} => {path} \in SUBSET Paths /\ [p \in {path} |-> vals[p]] \in [{path} -> Nat]
      BY ONLY <3>1
    <3>3. what \in {"get", "set"} => [p \in {path} |-> vals[p]] \in Changes
      BY <3>2 DEF Changes
    <3> QED
      BY <3>3 DEF path, what
  <2> QED
    BY <1>2, <2>1, <2>2 DEF Body
<1>4. m \in Message /\ m.what = "reply" /\ m.task = t /\ m.body = body
  <2> HIDE DEF body
  <2> QED
    BY <1>2, <1>3, Made DEF Answer
<1>5. l = TaskLabel("in", t, 0, tasks[t], body)
  BY AnswerLabel
<1> HIDE DEF m, body
<1>6. Front(lanes, L, "call", h) /\ lanes' = Pushed(L, "in", l) /\ "call" \in Lanes /\ "in" \in Lanes
  <2>1. lanes = LanesOf(inbox, ready, outq, calls, tasks)
    BY LanesNow
  <2> QED
    BY <1>1, <1>4, <2>1, CallLanes DEF Lanes
<1> HIDE DEF t, h, l, L, call
<1>7. /\ l \in Label /\ Sound("in", l) /\ Follows(h, l) /\ Keeps(h, l)
      /\ tasks[t].pc = "scanning" => h.kind = "join"
  <2>1. CASE tasks[t].pc = "scanning"
    <3> DEFINE task == tasks[t]
    <3>1. /\ task.conn \in Owned /\ t # 1 /\ task.pc = "scanning" /\ h = TaskLabel("call", t, 0, task, <<>>)
          /\ l = TaskLabel("in", t, 0, task, body)
      BY <1>2, <1>5, <2>1 DEF Task
    <3> HIDE DEF task
    <3>2. h = Tag("join", 9, task.conn)
      BY ONLY <3>1 DEF TaskLabel, Stage
    <3>3. l = Tag("join", 10, task.conn)
      BY ONLY <3>1 DEF TaskLabel, Stage
    <3>4. /\ l \in Label /\ l.kind = "join" /\ h.kind = "join" /\ l.stage = 10 /\ h.stage = 9
          /\ l.conn = task.conn /\ h.conn = task.conn
      BY <3>1, <3>2, <3>3, TagIs DEF Kinds
    <3> QED
      BY <1>1, <3>4 DEF Sound, LaneOf, Follows, Keeps
  <2>2. CASE tasks[t].pc \in {"getting", "setting"}
    <3>1. h = Other /\ l = Other
      BY <1>2, <1>5, <2>2, Passing
    <3> QED
      BY <1>1, <2>2, <3>1, OtherLabel DEF Follows, Keeps
  <2> QED
    BY <1>2, <2>1, <2>2
<1>8. Moved(h, l) /\ h \in Label /\ h \in Labels(lanes) /\ Foremost(lanes, h)
  BY <1>6, <1>7, Forwarding DEF Protocol
<1>9. tasks[t].pc = "scanning" => body # Error
  <2>1. ASSUME tasks[t].pc = "scanning" PROVE ~closing /\ call.what = "items"
    <3>1. Joins # {}
      BY <1>7, <1>8, <2>1 DEF Joins, Of
    <3> QED
      BY <1>2, <2>1, <3>1 DEF Protocol, Registry
  <2> QED
    BY <2>1 DEF body, Items, Error
<1>10. Strands'
  BY <1>1, <1>4, <1>9, ToldOne DEF Protocol
<1> QED
  BY <1>7, <1>8, <1>10, Forwarded

\* One more signal of the present process, or none.
Alike(L, M) ==
    /\ Of(M, "join") = Of(L, "join") /\ Of(M, "part") = Of(L, "part")
    /\ Of(M, "make") \subseteq Of(L, "make")
    /\ \A x \in Of(M, "signal") : x \in Of(L, "signal") \/ x.conn = lives

LEMMA AlikeKeeps ==
    ASSUME Protocol, Strands', LaneInv(lanes'), Alike(lanes, lanes'), owner # NoOne, UNCHANGED registers,
           BusTypes
    PROVE  Protocol'
<1>1. /\ Joins' = Joins /\ Parts' = Parts /\ Of(lanes', "make") \subseteq Of(lanes, "make")
      /\ \A x \in Of(lanes', "signal") : x \in Of(lanes, "signal") \/ x.conn = lives
  BY DEF Alike, Joins, Parts
<1>2. UNCHANGED <<owner, lives, closing, byName, services, rules, waiter>> /\ Parted' = Parted
  BY DEF registers, Parted
<1>3. Registry'
  BY <1>1, <1>2 DEF Protocol, Registry
<1>4. lives \in Nat
  BY PartedIs DEF Protocol
<1>5. Tokens'
  <2>1. \A x \in Of(lanes', "signal") : x.conn <= lives /\ (x.conn = lives => owner # NoOne \/ Parts # {})
    BY <1>1, <1>4 DEF Protocol, Tokens
  <2>2. \A x \in Of(lanes', "make") : x \in Of(lanes, "make")
    BY <1>1
  <2> QED
    BY <1>1, <1>2, <2>1, <2>2 DEF Protocol, Tokens
<1> QED
  BY <1>3, <1>5 DEF Protocol

LEMMA Announcing ==
    ASSUME BusInv, Protocol, owner # NoOne, NEW f \in Changes, NEW q, q = inbox \o Signal(f),
           NEW K, K = LanesOf(q, ready, outq, calls, tasks)
    PROVE  /\ LaneInv(K) /\ Alike(lanes, K) /\ q \in Seq(Message)
           /\ Replies(q) = Replies(inbox) /\ \A i \in DOMAIN inbox : i \in DOMAIN q /\ q[i] = inbox[i]
<1> DEFINE m == [what |-> "signal", from |-> owner, items |-> f]
<1>1. /\ inbox \in Seq(Message) /\ ready \in Seq(Place) /\ outq \in Seq(Request) /\ calls \in Seq(Request)
      /\ owner \in Conns /\ owner = lives /\ m \in Message /\ m.what = "signal" /\ m.from = lives
      /\ BusTypes
  <2>1. owner \in Conns /\ owner = lives
    BY DEF BusInv, BusTypes, Service, Owned, Protocol, Registry
  <2> QED
    BY <2>1, Made DEF BusInv, BusTypes, Queues
<1>2. \/ q = inbox
      \/ q = Append(inbox, m)
  BY <1>1 DEF Signal
<1> HIDE DEF m
<1>3. CASE q = inbox
  <2>1. K = lanes
    BY <1>3, LanesNow
  <2> QED
    BY <1>1, <1>3, <2>1 DEF Alike, Protocol
<1>4. CASE q = Append(inbox, m)
  <2> DEFINE l == LabelOf("in", m, tasks)
  <2>1. K = Pushed(lanes, "in", l)
    BY <1>1, <1>4, Gain, LanesNow
  <2>2. l = Tag("signal", 0, lives)
    BY <1>1 DEF LabelOf
  <2>3. l \in Label /\ l.kind = "signal" /\ l.stage = 0 /\ l.conn = lives
    <3> HIDE DEF l
    <3>1. lives \in Owned
      BY <1>1 DEF Owned
    <3> QED
      BY <2>2, <3>1, TagIs DEF Kinds
  <2> HIDE DEF l
  <2>4. \A x \in Labels(lanes) : ~Leads(l, x)
    <3>1. ASSUME NEW x \in Labels(lanes), Leads(l, x) PROVE FALSE
      <4>1. x.kind = "part" /\ x.conn = lives
        BY <2>3, <3>1 DEF Leads
      <4>2. x.conn = Parted
        BY <4>1 DEF Protocol, Tokens, Parts, Of
      <4> QED
        BY <1>1, <4>1, <4>2, PartedIs DEF Protocol
    <3> QED
      BY <3>1
  <2>5. LaneInv(K) /\ Shift(lanes, K, Other, l)
    <3>1. "in" \in Lanes
      BY DEF Lanes
    <3> QED
      BY <2>1, <2>3, <2>4, <3>1, Entering DEF Protocol
  <2>6. Alike(lanes, K)
    BY <2>3, <2>5, OtherLabel DEF Shift, Alike
  <2>7. q \in Seq(Message) /\ \A i \in DOMAIN inbox : i \in DOMAIN q /\ q[i] = inbox[i]
    BY <1>1, <1>4, EndOf
  <2>8. Replies(q) = Replies(inbox)
    <3>1. \A i \in DOMAIN q : (i \in DOMAIN inbox /\ q[i] = inbox[i]) \/ q[i] = m
      BY <1>1, <1>4, EndOf
    <3> QED
      BY <1>1, <2>7, <3>1 DEF Replies
  <2> QED
    BY <2>5, <2>6, <2>7, <2>8
<1> QED
  BY <1>2, <1>3, <1>4

LEMMA WriteCalm ==
    ASSUME BusInv, BusTypes', Protocol, NEW S \in SUBSET Paths, Write(S)
    PROVE  Protocol'
<1> DEFINE f == [p \in S |-> wrote']
<1>1. /\ owner # NoOne /\ inbox' = inbox \o Signal(f) /\ UNCHANGED registers
      /\ UNCHANGED <<outq, calls, tasks, ready, lives>> /\ wrote' \in Nat
  BY DEF Write, daemon, monitor, registers, BusTypes, Service
<1>2. f \in Changes
  BY <1>1 DEF Changes
<1> HIDE DEF f
<1>3. /\ LaneInv(lanes') /\ Alike(lanes, lanes')
      /\ Replies(inbox') = Replies(inbox) /\ \A i \in DOMAIN inbox : inbox'[i] = inbox[i]
  BY <1>1, <1>2, Announcing, LanesNow
<1>4. Strands'
  <2>1. \A i \in Replies(inbox') : i \in Replies(inbox) /\ inbox'[i] = inbox[i]
    BY <1>3 DEF Replies
  <2>2. lives <= lives' /\ BusTypes
    BY <1>1 DEF BusInv, BusTypes, Service
  <2> QED
    BY <1>1, <2>1, <2>2, StrandsTold DEF Protocol
<1> QED
  BY <1>1, <1>3, <1>4, AlikeKeeps DEF BusInv

LEMMA AnswerSetCalm ==
    ASSUME BusInv, BusTypes', Protocol, AnswerSet
    PROVE  Protocol'
<1> DEFINE call == Head(calls)
           t == call.task
           f == [p \in {call.path} |-> wrote']
           q == inbox \o Signal(f)
           m == Answer(t, Items(f))
           K == LanesOf(q, ready, outq, calls, tasks)
           L == LanesOf(q, ready, outq, Tail(calls), tasks)
<1>1. /\ calls # <<>> /\ calls' = Tail(calls) /\ call.what = "set"
      /\ UNCHANGED <<tasks, ready, outq, lives>> /\ UNCHANGED registers /\ BusTypes
      /\ wrote' \in Nat /\ owner # NoOne /\ SignalFirst(t, f) /\ inbox \in Seq(Message)
  BY DEF AnswerSet, monitor, registers, BusInv, BusTypes, Service, Queues
<1>2. /\ t \in Tasks /\ tasks[t] \in Task /\ t # 1 /\ tasks[t].pc = "setting" /\ call.path \in Paths
      /\ LabelOf("call", call, tasks) = TaskLabel("call", t, 0, tasks[t], <<>>)
  BY <1>1, Caller
<1>3. f \in Changes
  <2> DEFINE path == call.path
  <2>1. path \in Paths /\ wrote' \in Nat
    BY <1>1, <1>2
  <2> HIDE DEF path
  <2>2. {path} \in SUBSET Paths /\ [p \in {path} |-> wrote'] \in [{path} -> Nat]
    BY ONLY <2>1
  <2>3. [p \in {path} |-> wrote'] \in Changes
    BY <2>2 DEF Changes
  <2> QED
    BY <2>3 DEF path
<1>4. m \in Message /\ m.what = "reply" /\ m.task = t
  <2> HIDE DEF f
  <2> QED
    BY <1>2, <1>3, Made DEF Answer, Body
<1>5. LabelOf("call", call, tasks) = Other /\ LabelOf("in", m, tasks) = Other
  BY <1>2, Passing, AnswerLabel
<1> HIDE DEF f
<1>6. /\ LaneInv(K) /\ Alike(lanes, K) /\ q \in Seq(Message)
      /\ Replies(q) = Replies(inbox) /\ \A i \in DOMAIN inbox : i \in DOMAIN q /\ q[i] = inbox[i]
  BY <1>1, <1>3, Announcing
<1>7. inbox' = Append(q, m)
  <2>1. inbox' = q \o <<m>>
    BY <1>1 DEF SignalFirst
  <2> HIDE DEF q, m
  <2> QED
    BY <1>4, <1>6, <2>1
<1> HIDE DEF q, m, t
<1>8. Front(K, L, "call", Other) /\ lanes' = Pushed(L, "in", Other)
  BY <1>1, <1>4, <1>5, <1>6, <1>7, CallLanes
<1> HIDE DEF K, L, call
<1>9. LaneInv(lanes') /\ Shift(K, lanes', Other, Other)
  <2>1. "call" \in Lanes /\ "in" \in Lanes
    BY DEF Lanes
  <2>2. lanes' = Pushed(Popped(K, "call"), "in", Other) /\ K["call"] # <<>> /\ Other = Head(K["call"])
    BY <1>8 DEF Front
  <2> QED
    BY <1>6, <2>1, <2>2, OtherLabel, Advancing
<1>10. Alike(lanes, lanes')
  BY <1>6, <1>9, OtherLabel DEF Alike, Shift
<1>11. Strands'
  <2>1. \A i \in Replies(inbox') : \/ i \in Replies(q) /\ inbox'[i] = q[i]
                                   \/ inbox'[i] = m
    BY <1>4, <1>6, <1>7, EndOf DEF Replies
  <2>2. \A i \in Replies(inbox') : \/ i \in Replies(inbox) /\ inbox'[i] = inbox[i]
                                   \/ tasks[inbox'[i].task].pc # "scanning"
    BY <1>2, <1>4, <1>6, <2>1 DEF Replies
  <2>3. lives <= lives'
    BY <1>1 DEF BusTypes, Service
  <2> QED
    BY <1>1, <2>2, <2>3, StrandsTold DEF Protocol
<1> QED
  BY <1>1, <1>9, <1>10, <1>11, AlikeKeeps

-----------------------------------------------------------------------------
(* A process arrives, it leaves; the program makes a call.                 *)

LEMMA LanesAlike ==
    ASSUME NEW i, NEW r, NEW o, NEW c, NEW ts, NEW us,
           Lane("in", i, us) = Lane("in", i, ts), Lane("ready", r, us) = Lane("ready", r, ts),
           Lane("out", o, us) = Lane("out", o, ts), Lane("call", c, us) = Lane("call", c, ts)
    PROVE  LanesOf(i, r, o, c, us) = LanesOf(i, r, o, c, ts)
<1> DEFINE L == LanesOf(i, r, o, c, ts)
           M == LanesOf(i, r, o, c, us)
<1>1. IsLanes(L) /\ IsLanes(M)
  BY LanesOfIs
<1>2. \A n \in Lanes : L[n] = M[n]
  BY LanesOfIs DEF Lanes
<1> HIDE DEF L, M
<1>3. [n \in Lanes |-> L[n]] = [n \in Lanes |-> M[n]]
  BY <1>2
<1>4. L = M
  BY <1>1, <1>3 DEF IsLanes
<1> QED
  BY <1>4 DEF L, M

LEMMA RegisterCalm ==
    ASSUME BusInv, BusTypes', Protocol, Register
    PROVE  Protocol'
<1> DEFINE m == Owners(NoOne, lives')
           l == LabelOf("in", m, tasks)
<1>1. /\ owner = NoOne /\ lives' = lives + 1 /\ owner' = lives' /\ closing' = FALSE
      /\ inbox' = Append(inbox, m) /\ BusTypes /\ lives \in Nat /\ lives' \in Conns
      /\ UNCHANGED <<rules, services, byName, waiter>> /\ UNCHANGED <<outq, calls, tasks, ready>>
  <2>1. /\ owner = NoOne /\ lives' = lives + 1 /\ owner' = lives' /\ closing' = FALSE
        /\ inbox' = Append(inbox, m) /\ lives < MaxLives
        /\ UNCHANGED <<rules, services, byName, waiter>> /\ UNCHANGED <<outq, calls, tasks, ready>>
    BY DEF Register, daemon, monitor
  <2>2. BusTypes /\ lives \in 0..MaxLives
    BY DEF BusInv, BusTypes, Service
  <2> QED
    BY <2>1, <2>2, BusAssumption DEF Conns
<1>2. /\ inbox \in Seq(Message) /\ ready \in Seq(Place) /\ outq \in Seq(Request) /\ calls \in Seq(Request)
      /\ m \in Message /\ m.what = "owner" /\ m.new = lives'
  <2>1. m \in Message
    BY <1>1, Made DEF Owned
  <2> QED
    BY <1>1, <2>1 DEF BusTypes, Queues, Owners
<1> HIDE DEF m
<1>3. lanes' = Pushed(lanes, "in", l)
  <2>1. lanes' = LanesOf(Append(inbox, m), ready, outq, calls, tasks)
    BY <1>1, LanesNow
  <2>2. LanesOf(Append(inbox, m), ready, outq, calls, tasks)
          = Pushed(LanesOf(inbox, ready, outq, calls, tasks), "in", l)
    BY ONLY <1>2, Gain
  <2> QED
    BY <2>1, <2>2, LanesNow
<1>4. l = Tag("join", 0, lives')
  BY <1>1, <1>2, BusAssumption DEF LabelOf, Conns, NoOne
<1>5. l \in Label /\ l.kind = "join" /\ l.stage = 0 /\ l.conn = lives'
  <2> HIDE DEF l
  <2> QED
    BY <1>1, <1>4, TagIs DEF Kinds, Owned
<1> HIDE DEF l
<1>6. Joins = {}
  BY <1>1 DEF Protocol, Registry
<1>7. ASSUME NEW x \in Labels(lanes) PROVE x.kind # "join" /\ ~Leads(l, x)
  <2>1. x.kind # "join"
    BY <1>6 DEF Joins, Of
  <2>2. ASSUME Leads(l, x) PROVE FALSE
    <3>1. x.kind = "make" /\ x.conn = lives'
      BY <1>5, <2>2 DEF Leads
    <3>2. x.conn <= lives
      BY <3>1 DEF Protocol, Tokens, Of
    <3> QED
      BY <1>1, <3>1, <3>2
  <2> QED
    BY <2>1, <2>2
<1>8. LaneInv(lanes') /\ Shift(lanes, lanes', Other, l)
  <2>1. "in" \in Lanes
    BY DEF Lanes
  <2> QED
    BY <1>3, <1>5, <1>7, <2>1, Entering DEF Protocol
<1>9. /\ Joins' = {l} /\ Parts' = Parts
      /\ \A x \in Of(lanes', "signal") : x \in Of(lanes, "signal")
      /\ \A x \in Of(lanes', "make") : x \in Of(lanes, "make")
  BY <1>5, <1>6, <1>8, OtherLabel DEF Shift, Joins, Parts
<1>10. Parted' = Parted /\ lives' # NoOne /\ Upto(Joins', 1) /\ Upto(Joins', 3)
  BY <1>1, <1>5, <1>9, BusAssumption DEF Parted, Conns, NoOne, Upto
<1>11. Tokens'
  <2>1. \A x \in Of(lanes', "signal") : x.conn <= lives' /\ x.conn # lives'
    <3>1. \A x \in Of(lanes, "signal") : x.conn <= lives /\ x.conn \in Nat
      BY Placed, BusAssumption DEF Protocol, LaneInv, Tokens, Of, Owned, Conns, NoOne
    <3> QED
      BY <1>1, <1>9, <3>1
  <2>2. \A x \in Of(lanes', "make") : x.conn # NoOne /\ x.conn <= lives' /\ x.conn \in services'
    <3>1. \A x \in Of(lanes, "make") : x.conn # NoOne /\ x.conn <= lives /\ x.conn \in Nat /\ x.conn \in services
      BY <1>6, Placed, BusAssumption DEF Protocol, LaneInv, Tokens, Of, Owned, Conns, NoOne
    <3> QED
      BY <1>1, <1>9, <3>1
  <2> QED
    BY <1>5, <1>9, <1>10, <2>1, <2>2 DEF Protocol, Tokens
<1>12. Registry'
  <2>1. Joins' # {}
    BY <1>9
  <2>2. /\ byName \in IF Parts # {} THEN {Parted} ELSE {Absent, Pending}
        /\ services = (IF Parts # {} THEN {Parted} ELSE {})
        /\ rules = (IF Upto(Parts, 3) THEN 1 ELSE 0)
        /\ waiter # "lost" /\ (waiter = "waiting" => byName = Pending)
        /\ Parts # {} => Parted # NoOne
    BY <1>1 DEF Protocol, Registry
  <2> QED
    BY <1>1, <1>9, <1>10, <2>1, <2>2 DEF Registry
<1>13. Strands'
  <2>1. lives <= lives'
    BY <1>1
  <2>2. \A i \in Replies(inbox') : i \in Replies(inbox) /\ inbox'[i] = inbox[i]
    BY <1>1, <1>2, EndOf DEF Replies
  <2> QED
    BY <1>1, <2>1, <2>2, StrandsTold DEF Protocol
<1> QED
  BY <1>8, <1>11, <1>12, <1>13 DEF Protocol

LEMMA CallCalm ==
    ASSUME BusInv, BusTypes', Protocol, NEW t \in Tasks, NEW p \in Paths, NEW what \in {"get", "set"},
           Call(t, p, what)
    PROVE  Protocol'
<1> DEFINE x == [NoTask EXCEPT !.conn = byName, !.pc = IF what = "get" THEN "getting" ELSE "setting"]
           m == [what |-> what, task |-> t, path |-> p]
<1>1. /\ BusTypes /\ Wire /\ tasks \in [Tasks -> Task] /\ byName \in Conns /\ tasks[t].pc = "none"
      /\ tasks' = [tasks EXCEPT ![t] = x] /\ outq' = Append(outq, m) /\ m \in Request /\ m.task = t
      /\ UNCHANGED <<inbox, ready, calls, lives>> /\ UNCHANGED registers
      /\ ready \in Seq(Place) /\ inbox \in Seq(Message) /\ outq \in Seq(Request) /\ calls \in Seq(Request)
  <2>1. m \in Request
    BY DEF Request
  <2> QED
    BY <2>1 DEF Call, Free, BusInv, BusTypes, Known, Queues, publisher, daemon, monitor, registers
<1>2. x.pc \in {"getting", "setting"} /\ x.conn = byName
  BY DEF NoTask
<1> HIDE DEF x, m
<1>3. /\ tasks'[t] = x /\ (\A u \in Tasks : u # t => tasks'[u] = tasks[u]) /\ t # 1 /\ 1 \in Tasks
      /\ byName # NoOne
  BY <1>1, BusAssumption DEF Protocol, Strands, Conns, NoOne, Tasks
<1>4. /\ t \notin Holders(outq) /\ t \notin Holders(calls)
      /\ t \notin Answered(inbox) /\ t \notin Holders(ready)
  <2>1. tasks[t].pc \notin Running \union Asking
    BY <1>1 DEF Running, Asking
  <2> QED
    BY <1>1, <2>1, IdleHoldsNothing
<1>5. lanes' = Pushed(lanes, "out", Other)
  <2>1. LanesOf(inbox, ready, outq, calls, tasks') = lanes
    <3>1. t \in Tasks /\ AllBut(t, tasks, tasks')
      BY <1>3 DEF AllBut
    <3>2. inbox \in Seq(Message) /\ t \notin Answered(inbox)
      BY <1>1, <1>4
    <3>3. ready \in Seq(Place) /\ t \notin Holders(ready)
      BY <1>1, <1>4
    <3>4. outq \in Seq(Request) /\ t \notin Holders(outq)
      BY <1>1, <1>4
    <3>5. calls \in Seq(Request) /\ t \notin Holders(calls)
      BY <1>1, <1>4
    <3>6. Lane("in", inbox, tasks') = Lane("in", inbox, tasks)
      BY ONLY <3>1, <3>2, ElsewhereIn
    <3>7. Lane("ready", ready, tasks') = Lane("ready", ready, tasks)
      BY ONLY <3>1, <3>3, ElsewhereReady
    <3>8. Lane("out", outq, tasks') = Lane("out", outq, tasks)
      BY ONLY <3>1, <3>4, ElsewhereAsked
    <3>9. Lane("call", calls, tasks') = Lane("call", calls, tasks)
      BY ONLY <3>1, <3>5, ElsewhereAsked
    <3>10. lanes = LanesOf(inbox, ready, outq, calls, tasks)
      BY LanesNow
    <3> QED
      BY ONLY <3>6, <3>7, <3>8, <3>9, <3>10, LanesAlike
  <2>2. lanes' = LanesOf(inbox, ready, Append(outq, m), calls, tasks')
    BY <1>1, LanesNow
  <2>3. LanesOf(inbox, ready, Append(outq, m), calls, tasks')
          = Pushed(LanesOf(inbox, ready, outq, calls, tasks'), "out", LabelOf("out", m, tasks'))
    BY ONLY <1>1, Gain
  <2>4. LabelOf("out", m, tasks') = Other
    <3>1. LabelOf("out", m, tasks') = TaskLabel("out", t, 0, x, <<>>)
      BY <1>1, <1>3 DEF LabelOf
    <3> QED
      BY <1>2, <1>3, <3>1, Passing
  <2> QED
    BY <2>1, <2>2, <2>3, <2>4
<1>6. LaneInv(lanes') /\ Shift(lanes, lanes', Other, Other)
  <2>1. "out" \in Lanes /\ \A y \in Labels(lanes) : ~Leads(Other, y)
    BY OtherLabel DEF Lanes, Leads
  <2> QED
    BY <1>5, <2>1, OtherLabel, Entering DEF Protocol
<1>7. Strands'
  <2>1. byName <= lives
    BY <1>1, PartedIs, BusAssumption DEF Protocol, Registry, Parted, Conns, NoOne, Absent, Pending
  <2>2. \A u \in Tasks : /\ tasks'[u].pc \in {"names", "whose"} => u = 1
                         /\ tasks'[u].pc \notin {"undo", "undoing"}
                         /\ tasks'[u].conn <= lives
                         /\ tasks'[u].pc \in {"setting", "set"} => tasks'[u].conn # NoOne
    BY <1>2, <1>3, <2>1 DEF Protocol, Strands
  <2>3. \A i \in DOMAIN ready : tasks'[ready[i].task] = tasks[ready[i].task]
    <3>2. \A i \in DOMAIN ready : ready[i] \in Place /\ ready[i].task \in Holders(ready)
      BY <1>1 DEF Holders
    <3>1. \A i \in DOMAIN ready : ready[i].task \in Tasks /\ ready[i].task # t
      BY <1>4, <3>2 DEF Place
    <3> QED
      BY <1>3, <3>1
  <2>4. \A i \in Replies(inbox) : tasks'[inbox[i].task] = tasks[inbox[i].task]
    <3>1. \A i \in Replies(inbox) : inbox[i].task \in Tasks /\ inbox[i].task # t
      BY <1>1, <1>4, Shapes DEF Answered, Replies
    <3> QED
      BY <1>3, <3>1
  <2>5. tasks'[1].pc \in {"names", "whose", "add", "done"}
    BY <1>3 DEF Protocol, Strands
  <2> QED
    BY <1>1, <2>2, <2>3, <2>4, <2>5 DEF Protocol, Strands
<1> QED
  BY <1>1, <1>6, <1>7, Steady

LEMMA LeaveCalm ==
    ASSUME BusInv, BusTypes', Protocol, Leave, ~hasty'
    PROVE  Protocol'
<1> DEFINE m == Owners(owner, NoOne)
           q == Append(inbox, m)
           n == Len(calls)
           r == [i \in 1..n |-> Answer(calls[i].task, Error)]
           K == LanesOf(q, ready, outq, calls, tasks)
           l == LabelOf("in", m, tasks)
<1>1. /\ owner # NoOne /\ owner' = NoOne /\ closing' = FALSE /\ byName = owner
      /\ inbox' = inbox \o <<m>> \o r /\ calls' = <<>> /\ BusTypes /\ Wire
      /\ UNCHANGED <<lives, rules, outq, tasks, ready, services, byName, waiter>>
  BY DEF Leave, monitor, BusInv
<1>2. /\ owner = lives /\ Joins = {} /\ Parts = {} /\ services = {lives} /\ rules = 1
      /\ waiter \notin {"lost", "waiting"}
  BY <1>1, AtRest DEF Protocol
<1>3. /\ inbox \in Seq(Message) /\ ready \in Seq(Place) /\ outq \in Seq(Request) /\ calls \in Seq(Request)
      /\ m \in Message /\ m.what = "owner" /\ m.new = NoOne /\ m.old = lives /\ owner \in Owned
      /\ lives \in Owned /\ lives # NoOne /\ tasks \in [Tasks -> Task]
  <2>1. owner \in Owned
    BY <1>1 DEF BusTypes, Service
  <2>2. m \in Message
    BY <2>1, Made DEF Owned
  <2> QED
    BY <1>1, <1>2, <2>1, <2>2 DEF BusTypes, Queues, Owners, Known
<1>4. n \in Nat /\ DOMAIN calls = 1..n /\ \A i \in 1..n : calls[i] \in Request /\ calls[i].task \in Tasks
  BY <1>3, Shapes
<1>5. \A i \in 1..n : /\ r[i] \in Message /\ r[i].what = "reply" /\ r[i].task = calls[i].task /\ r[i].body = Error
  BY <1>4, Made DEF Answer, Body
<1>6. r \in Seq(Message) /\ Len(r) = n
  BY <1>4, <1>5
<1>7. inbox' = q \o r /\ q \in Seq(Message)
  <2> HIDE DEF m, r
  <2> QED
    BY <1>1, <1>3, <1>6
<1>8. K = Pushed(lanes, "in", l)
  <2> HIDE DEF m
  <2>1. LanesOf(Append(inbox, m), ready, outq, calls, tasks)
          = Pushed(LanesOf(inbox, ready, outq, calls, tasks), "in", LabelOf("in", m, tasks))
    BY ONLY <1>3, Gain
  <2> QED
    BY <2>1, LanesNow
<1>9. l = Tag("part", 0, lives)
  BY <1>3 DEF LabelOf
<1>10. l \in Label /\ l.kind = "part" /\ l.stage = 0 /\ l.conn = lives
  <2> HIDE DEF l
  <2> QED
    BY <1>3, <1>9, TagIs DEF Kinds
<1> HIDE DEF m, q, r, n, l
<1>11. LaneInv(K) /\ Shift(lanes, K, Other, l)
  <2>1. \A x \in Labels(lanes) : x.kind # "part" /\ ~Leads(l, x)
    BY <1>2, <1>10 DEF Leads, Joins, Parts, Of
  <2>2. "in" \in Lanes
    BY DEF Lanes
  <2> HIDE DEF K
  <2> QED
    BY <1>8, <1>10, <2>1, <2>2, Entering DEF Protocol
\* The calls that wait are the program's: no scan is under way.
<1>12. ASSUME NEW i \in 1..n PROVE tasks[calls[i].task].pc \in {"getting", "setting"} /\ calls[i].task # 1
  <2> DEFINE t == calls[i].task
  <2>1. t \in Tasks /\ Asks(tasks[t].pc, calls[i].what) /\ calls[i].what \in {"items", "get", "set"}
    BY <1>1, <1>4 DEF Wire
  <2>2. tasks[t].pc \in {"scanning", "getting", "setting"}
    BY <2>1 DEF Asks
  <2>3. t # 1
    BY <2>2 DEF Protocol, Strands
  <2>4. ASSUME tasks[t].pc = "scanning" PROVE FALSE
    <3>1. LabelOf("call", calls[i], tasks) = TaskLabel("call", t, 0, tasks[t], <<>>)
      BY DEF LabelOf
    <3>2. LabelOf("call", calls[i], tasks) = Tag("join", 9, tasks[t].conn)
      <4> DEFINE task == tasks[t]
                 e == LabelOf("call", calls[i], tasks)
      <4>1. e = TaskLabel("call", t, 0, task, <<>>) /\ t # 1 /\ task.pc = "scanning"
        BY <2>3, <2>4, <3>1
      <4> HIDE DEF task, e, t
      <4>2. e = Tag("join", 9, task.conn)
        BY ONLY <4>1 DEF TaskLabel, Stage
      <4> QED
        BY <4>2 DEF task, e
    <3>3. lanes["call"][i] = LabelOf("call", calls[i], tasks) /\ i \in DOMAIN lanes["call"]
      BY <1>4, LanesAre DEF Lane, n
    <3>4. lanes["call"][i] \in Labels(lanes)
      BY <3>3, Placed DEF Protocol, LaneInv, Lanes
    <3>5. tasks[t].conn \in Owned
      BY <1>3, <2>1 DEF Task
    <3>6. lanes["call"][i].kind = "join"
      BY <3>2, <3>3, <3>5, TagIs DEF Kinds
    <3> QED
      BY <1>2, <3>4, <3>6 DEF Joins, Of
  <2> QED
    BY <2>2, <2>3, <2>4
<1>13. /\ Len(q) \in Nat /\ DOMAIN q = 1..Len(q) /\ DOMAIN inbox' = 1..Len(inbox')
       /\ \A i \in DOMAIN inbox' :
            \/ i \in DOMAIN q /\ inbox'[i] = q[i]
            \/ i - Len(q) \in 1..n /\ inbox'[i] = r[i - Len(q)]
       /\ \A i \in DOMAIN q : i \in DOMAIN inbox' /\ inbox'[i] = q[i]
  BY <1>4, <1>6, <1>7
<1>14. lanes' = LanesOf(inbox', ready, outq, <<>>, tasks)
  BY <1>1, LanesNow
<1>15. /\ K["in"] = Lane("in", q, tasks) /\ lanes'["in"] = Lane("in", inbox', tasks)
       /\ K["call"] = Lane("call", calls, tasks) /\ lanes'["call"] = Lane("call", <<>>, tasks)
       /\ lanes'["ready"] = K["ready"] /\ lanes'["out"] = K["out"] /\ IsLanes(lanes')
  BY <1>14, LanesOfIs
<1>16. /\ DOMAIN lanes'["in"] = DOMAIN inbox' /\ DOMAIN K["in"] = DOMAIN q
       /\ \A i \in DOMAIN inbox' : lanes'["in"][i] = LabelOf("in", inbox'[i], tasks)
       /\ \A i \in DOMAIN q : K["in"][i] = LabelOf("in", q[i], tasks)
       /\ DOMAIN lanes'["call"] = {} /\ DOMAIN K["call"] = 1..n
       /\ \A i \in 1..n : K["call"][i] = LabelOf("call", calls[i], tasks)
  <2> HIDE DEF K
  <2>1. DOMAIN lanes'["in"] = DOMAIN inbox' /\ \A i \in DOMAIN inbox' : lanes'["in"][i] = LabelOf("in", inbox'[i], tasks)
    BY <1>13, <1>15 DEF Lane
  <2>2. DOMAIN K["in"] = DOMAIN q /\ \A i \in DOMAIN q : K["in"][i] = LabelOf("in", q[i], tasks)
    BY <1>13, <1>15 DEF Lane
  <2>3. DOMAIN K["call"] = 1..n /\ \A i \in 1..n : K["call"][i] = LabelOf("call", calls[i], tasks)
    BY <1>15 DEF Lane, n
  <2>4. DOMAIN lanes'["call"] = {}
    BY <1>15 DEF Lane
  <2> QED
    BY <2>1, <2>2, <2>3, <2>4
<1>17. \A i \in 1..n : LabelOf("call", calls[i], tasks) = Other /\ LabelOf("in", r[i], tasks) = Other
  <2> SUFFICES ASSUME NEW i \in 1..n
               PROVE  LabelOf("call", calls[i], tasks) = Other /\ LabelOf("in", r[i], tasks) = Other
    OBVIOUS
  <2> DEFINE t == calls[i].task
  <2>1. t # 1 /\ tasks[t].pc \in {"getting", "setting"} /\ r[i].what = "reply" /\ r[i].task = t
    BY <1>5, <1>12
  <2>2. /\ LabelOf("call", calls[i], tasks) = TaskLabel("call", t, 0, tasks[t], <<>>)
        /\ LabelOf("in", r[i], tasks) = TaskLabel("in", t, 0, tasks[t], r[i].body)
    BY <2>1 DEF LabelOf
  <2> HIDE DEF t
  <2> QED
    BY <2>1, <2>2, Passing
<1>18. LaneInv(lanes') /\ \A kind \in Kinds \ {"other"} : Of(lanes', kind) = Of(K, kind)
  <2> HIDE DEF K
  <2>1. \A k \in Lanes : \A i \in DOMAIN lanes'[k] :
          lanes'[k][i].kind = "other" \/ (i \in DOMAIN K[k] /\ lanes'[k][i] = K[k][i])
    <3>1. \A i \in DOMAIN lanes'["in"] :
            lanes'["in"][i].kind = "other" \/ (i \in DOMAIN K["in"] /\ lanes'["in"][i] = K["in"][i])
      BY <1>13, <1>16, <1>17, OtherLabel
    <3> QED
      BY <1>15, <1>16, <3>1 DEF Lanes
  <2>2. \A k \in Lanes : \A i \in DOMAIN K[k] :
          K[k][i].kind = "other" \/ (i \in DOMAIN lanes'[k] /\ lanes'[k][i] = K[k][i])
    <3>1. \A i \in DOMAIN K["in"] : i \in DOMAIN lanes'["in"] /\ lanes'["in"][i] = K["in"][i]
      BY <1>13, <1>16
    <3>2. \A i \in DOMAIN K["call"] : K["call"][i].kind = "other"
      BY <1>16, <1>17, OtherLabel
    <3> QED
      BY <1>15, <3>1, <3>2 DEF Lanes
  <2>3. lanes' \in [Lanes -> Seq(Label)]
    <3>1. K \in [Lanes -> Seq(Label)]
      BY <1>11 DEF LaneInv
    <3>2. lanes'["in"] \in Seq(Label)
      <4>1. \A i \in 1..Len(inbox') : lanes'["in"][i] \in Label
        <5>1. \A i \in DOMAIN K["in"] : K["in"][i] \in Label
          BY <3>1 DEF Lanes
        <5> QED
          BY <1>13, <1>16, <1>17, <5>1, OtherLabel
      <4>2. lanes'["in"] = [i \in 1..Len(inbox') |-> lanes'["in"][i]]
        BY <1>15 DEF Lane
      <4>3. Len(inbox') \in Nat
        BY <1>6, <1>7
      <4>4. [i \in 1..Len(inbox') |-> lanes'["in"][i]] \in Seq(Label)
        BY <4>1, <4>3
      <4> QED
        BY <4>2, <4>4
    <3>3. lanes'["call"] \in Seq(Label)
      BY <1>15 DEF Lane
    <3>4. \A k \in Lanes : lanes'[k] \in Seq(Label)
      BY <1>15, <3>1, <3>2, <3>3 DEF Lanes
    <3> QED
      BY <1>15, <3>4 DEF IsLanes
  <2> QED
    BY <1>11, <2>1, <2>2, <2>3, Padding
<1> HIDE DEF K
<1>19. /\ Joins' = {} /\ Parts' = {l}
       /\ \A x \in Of(lanes', "signal") : x \in Of(lanes, "signal")
       /\ \A x \in Of(lanes', "make") : x \in Of(lanes, "make")
  <2>1. /\ Of(K, "join") = {} /\ Of(K, "part") = {l}
        /\ Of(K, "signal") \subseteq Of(lanes, "signal") /\ Of(K, "make") \subseteq Of(lanes, "make")
    BY <1>2, <1>10, <1>11, OtherLabel DEF Shift, Joins, Parts
  <2> QED
    BY <1>18, <2>1 DEF Joins, Parts, Kinds
<1>20. Parted' = lives /\ Upto(Parts', 3) /\ Parts' # {}
  BY <1>1, <1>10, <1>19 DEF Parted, Upto
<1>21. Tokens'
  <2>1. \A x \in Of(lanes', "make") : x.conn # NoOne /\ x.conn <= lives /\ x.conn \in services
    BY <1>2, <1>19 DEF Protocol, Tokens
  <2>2. \A x \in Of(lanes', "signal") : x.conn <= lives
    BY <1>19 DEF Protocol, Tokens
  <2> QED
    BY <1>1, <1>10, <1>19, <1>20, <2>1, <2>2 DEF Tokens
<1>22. Registry'
  BY <1>1, <1>2, <1>3, <1>19, <1>20 DEF Registry
<1>23. Strands'
  <2>1. lives <= lives'
    BY <1>1 DEF BusTypes, Service
  <2>2. \A i \in Replies(inbox') : \/ i \in Replies(inbox) /\ inbox'[i] = inbox[i]
                                   \/ tasks[inbox'[i].task].pc # "scanning"
    <3>1. \A i \in DOMAIN q : q[i].what = "reply" => i \in DOMAIN inbox /\ q[i] = inbox[i]
      BY <1>3, EndOf DEF q
    <3> QED
      BY <1>5, <1>12, <1>13, <3>1 DEF Replies
  <2> QED
    BY <1>1, <2>1, <2>2, StrandsTold DEF Protocol
<1> QED
  BY <1>18, <1>21, <1>22, <1>23 DEF Protocol

-----------------------------------------------------------------------------
(* The monitor reads a message.                                            *)

LEMMA ReadLanes ==
    ASSUME BusTypes, inbox # <<>>, inbox' = Tail(inbox), UNCHANGED <<outq, calls>>,
           NEW L, L = LanesOf(Tail(inbox), ready, outq, calls, tasks)
    PROVE  /\ Front(lanes, L, "in", LabelOf("in", Head(inbox), tasks))
           /\ UNCHANGED <<tasks, ready>> => lanes' = L
           /\ \A t \in Tasks, m \in Place :
                /\ t \notin Answered(Tail(inbox)) /\ t \notin Holders(ready)
                /\ t \notin Holders(outq) /\ t \notin Holders(calls)
                /\ (\A u \in Tasks : u # t => tasks'[u] = tasks[u])
                /\ ready' = Append(ready, m)
                => lanes' = Pushed(L, "ready", LabelOf("ready", m, tasks'))
<1>1. /\ ready \in Seq(Place) /\ inbox \in Seq(Message) /\ outq \in Seq(Request) /\ calls \in Seq(Request)
      /\ Tail(inbox) \in Seq(Message)
  BY TailOf DEF BusTypes, Queues
<1>2. Front(lanes, L, "in", LabelOf("in", Head(inbox), tasks))
  <2>1. Front(LanesOf(inbox, ready, outq, calls, tasks), LanesOf(Tail(inbox), ready, outq, calls, tasks),
              "in", LabelOf("in", Head(inbox), tasks))
    BY <1>1, Loss
  <2> QED
    BY <2>1, LanesNow
<1> DEFINE q == Tail(inbox)
<1>3. q \in Seq(Message) /\ inbox' = q /\ L = LanesOf(q, ready, outq, calls, tasks)
  BY <1>1
<1> HIDE DEF q
<1>4. UNCHANGED <<tasks, ready>> => lanes' = L
  BY <1>3, LanesNow
<1>5. ASSUME NEW t \in Tasks, NEW m \in Place, t \notin Answered(q), t \notin Holders(ready),
             t \notin Holders(outq), t \notin Holders(calls),
             \A u \in Tasks : u # t => tasks'[u] = tasks[u],
             ready' = Append(ready, m)
      PROVE  lanes' = Pushed(L, "ready", LabelOf("ready", m, tasks'))
  <2>1. t \in Tasks /\ m \in Place /\ AllBut(t, tasks, tasks')
    BY <1>5 DEF AllBut
  <2>2. q \in Seq(Message) /\ t \notin Answered(q)
    BY <1>3, <1>5
  <2>3. ready \in Seq(Place) /\ t \notin Holders(ready)
    BY <1>1, <1>5
  <2>4. outq \in Seq(Request) /\ t \notin Holders(outq)
    BY <1>1, <1>5
  <2>5. calls \in Seq(Request) /\ t \notin Holders(calls)
    BY <1>1, <1>5
  <2>6. Lane("in", q, tasks') = Lane("in", q, tasks)
    BY ONLY <2>1, <2>2, ElsewhereIn
  <2>7. Lane("ready", ready, tasks') = Lane("ready", ready, tasks)
    BY ONLY <2>1, <2>3, ElsewhereReady
  <2>8. Lane("out", outq, tasks') = Lane("out", outq, tasks)
    BY ONLY <2>1, <2>4, ElsewhereAsked
  <2>9. Lane("call", calls, tasks') = Lane("call", calls, tasks)
    BY ONLY <2>1, <2>5, ElsewhereAsked
  <2>10. LanesOf(q, ready, outq, calls, tasks') = L
    BY ONLY <1>3, <2>6, <2>7, <2>8, <2>9, LanesAlike
  <2>11. lanes' = LanesOf(q, Append(ready, m), outq, calls, tasks')
    BY <1>3, <1>5, LanesNow
  <2>12. LanesOf(q, Append(ready, m), outq, calls, tasks')
           = Pushed(LanesOf(q, ready, outq, calls, tasks'), "ready", LabelOf("ready", m, tasks'))
    BY ONLY <2>1, <2>2, <2>3, <2>4, <2>5, Gain
  <2> QED
    BY <2>10, <2>11, <2>12
<1> QED
  BY <1>2, <1>4, <1>5 DEF q

LEMMA StrandsRead ==
    ASSUME BusTypes, Strands, inbox # <<>>, inbox' = Tail(inbox), lives' = lives,
           NEW t \in Tasks, NEW x \in Task, NEW m \in Place,
           tasks' = [tasks EXCEPT ![t] = x], ready' = Append(ready, m), m.task = t,
           t \notin Holders(ready), t \notin Answered(Tail(inbox)), Course(t, x),
           m.hops <= 2, m.hops > 0 => x.pc \in Gathers, x.pc = "scanning" => x.body # Error
    PROVE  Strands'
<1>1. /\ tasks \in [Tasks -> Task] /\ ready \in Seq(Place) /\ inbox \in Seq(Message)
      /\ tasks'[t] = x /\ (\A u \in Tasks : u # t => tasks'[u] = tasks[u]) /\ 1 \in Tasks
  BY BusAssumption DEF BusTypes, Queues, Known, Tasks
<1>2. tasks'[1].pc \in {"names", "whose", "add", "done"}
  BY <1>1 DEF Strands, Course
<1>3. \A u \in Tasks : /\ tasks'[u].pc \in {"names", "whose"} => u = 1
                       /\ tasks'[u].pc \notin {"undo", "undoing"}
                       /\ tasks'[u].conn <= lives'
                       /\ tasks'[u].pc \in {"setting", "set"} => tasks'[u].conn # NoOne
  BY <1>1 DEF Strands, Course
<1>4. ASSUME NEW i \in DOMAIN ready'
      PROVE  /\ ready'[i].hops <= 2
             /\ ready'[i].hops > 0 => tasks'[ready'[i].task].pc \in Gathers
             /\ tasks'[ready'[i].task].pc = "scanning" => tasks'[ready'[i].task].body # Error
  <2>1. ready'[i] = m \/ (i \in DOMAIN ready /\ ready'[i] = ready[i])
    BY <1>1, EndOf
  <2>2. CASE ready'[i] = m
    BY <1>1, <2>2
  <2>3. CASE i \in DOMAIN ready /\ ready'[i] = ready[i]
    <3>1. ready[i].task \in Holders(ready) /\ ready[i] \in Place
      BY <1>1, <2>3 DEF Holders
    <3>2. tasks'[ready[i].task] = tasks[ready[i].task]
      BY <1>1, <3>1 DEF Place
    <3> QED
      BY <2>3, <3>2 DEF Strands
  <2> QED
    BY <2>1, <2>2, <2>3
<1>5. ASSUME NEW i \in Replies(inbox')
      PROVE  tasks'[inbox'[i].task].pc = "scanning" => inbox'[i].body # Error
  <2> DEFINE q == Tail(inbox)
  <2>1. /\ q \in Seq(Message) /\ inbox' = q /\ t \notin Answered(q)
        /\ \A k \in DOMAIN q : k + 1 \in DOMAIN inbox /\ q[k] = inbox[k + 1]
    BY <1>1, TailOf
  <2> HIDE DEF q
  <2>2. i \in DOMAIN q /\ q[i].what = "reply" /\ q[i] \in Message
    BY <2>1 DEF Replies
  <2>3. q[i].task \in Tasks /\ q[i].task # t
    BY <2>1, <2>2, Shapes DEF Answered, Replies
  <2>4. tasks'[q[i].task] = tasks[q[i].task]
    BY <1>1, <2>3
  <2>5. i + 1 \in Replies(inbox) /\ q[i] = inbox[i + 1]
    BY <2>1, <2>2 DEF Replies
  <2> QED
    BY <2>1, <2>4, <2>5 DEF Strands
<1> QED
  BY <1>2, <1>3, <1>4, <1>5 DEF Strands

\* A signal has reached its process, or nobody who knows it.
LEMMA ReadSignal ==
    ASSUME BusInv, BusTypes', Protocol, Read, NEW msg, msg = Head(inbox), msg.what = "signal"
    PROVE  Protocol'
<1> DEFINE L == LanesOf(Tail(inbox), ready, outq, calls, tasks)
           h == LabelOf("in", msg, tasks)
<1>1. /\ BusTypes /\ inbox # <<>> /\ inbox' = Tail(inbox) /\ UNCHANGED <<outq, calls, tasks, ready>>
      /\ UNCHANGED registers /\ inbox \in Seq(Message)
  BY DEF BusInv, BusTypes, Queues, Read, publisher, daemon, registers
<1>2. Front(lanes, L, "in", h) /\ lanes' = L /\ "in" \in Lanes
  BY <1>1, ReadLanes DEF Lanes
<1>3. msg \in Message
  BY <1>1, TailOf
<1>4. h = Tag("signal", 0, msg.from) /\ msg.from \in Owned
  BY <1>3, Shapes DEF LabelOf, Owned
<1> HIDE DEF L, h
<1>5. h.kind = "signal"
  BY <1>4, TagIs DEF Kinds
<1>6. /\ Moved(h, Other) /\ h \in Label /\ h \in Labels(lanes) /\ Foremost(lanes, h)
  BY <1>2, Dropping, Leading DEF Protocol, Front, Moved
<1>7. Strands'
  <2>1. \A i \in Replies(inbox') : i + 1 \in Replies(inbox) /\ inbox'[i] = inbox[i + 1]
    BY <1>1, TailOf DEF Replies
  <2>2. lives \in Nat /\ lives' = lives
    BY <1>1, BusAssumption DEF BusTypes, Service, registers
  <2>3. \A i \in Replies(inbox') : tasks[inbox'[i].task].pc = "scanning" => inbox'[i].body # Error
    BY <2>1 DEF Protocol, Strands
  <2>4. BusTypes /\ BusTypes' /\ Strands /\ UNCHANGED <<tasks, ready>> /\ lives <= lives'
    BY <1>1, <2>2 DEF Protocol
  <2> QED
    BY ONLY <2>3, <2>4, StrandsTold
<1>8. Keeps(h, Other) /\ Follows(h, Other)
  BY <1>1, <1>5, OtherLabel DEF Keeps, Follows
<1> QED
  BY <1>6, <1>7, <1>8, OtherLabel, Forwarded

\* An announcement starts the task that follows it up.
LEMMA ReadOwner ==
    ASSUME BusInv, BusTypes', Protocol, Read, NEW msg, msg = Head(inbox), msg.what = "owner"
    PROVE  Protocol'
<1> DEFINE L == LanesOf(Tail(inbox), ready, outq, calls, tasks)
           h == LabelOf("in", msg, tasks)
           x == IF msg.new = NoOne THEN [NoTask EXCEPT !.pc = "remove", !.conn = msg.old]
                ELSE [NoTask EXCEPT !.pc = "add", !.conn = msg.new]
           kind == IF msg.new = NoOne THEN "part" ELSE "join"
           c == IF msg.new = NoOne THEN msg.old ELSE msg.new
<1>1. /\ BusTypes /\ inbox # <<>> /\ inbox' = Tail(inbox) /\ UNCHANGED <<outq, calls>>
      /\ UNCHANGED registers /\ inbox \in Seq(Message) /\ Once /\ Wire /\ tasks \in [Tasks -> Task]
  BY DEF BusInv, BusTypes, Queues, Known, Read, publisher, daemon, registers
<1>2. PICK t \in Tasks : Free(t) /\ tasks' = [tasks EXCEPT ![t] = x] /\ ready' = Append(ready, Schedule(t, 0))
  BY DEF Read
<1> DEFINE m == Schedule(t, 0)
           l == LabelOf("ready", m, tasks')
<1>3. m \in Place /\ m.task = t /\ m.hops = 0
  BY Made DEF Schedule
<1>4. msg \in Message /\ msg.old \in Owned /\ msg.new \in Owned
  BY <1>1, TailOf, Shapes
<1>5. /\ x \in Task /\ x.pc = (IF msg.new = NoOne THEN "remove" ELSE "add") /\ x.conn = c /\ c \in Owned
  BY <1>4 DEF NoTask, Task, Body, Pcs, Running
<1>6. h = Tag(kind, 0, c) /\ kind \in Kinds
  BY DEF LabelOf, Kinds
<1> HIDE DEF L, x
<1>7. /\ tasks'[t] = x /\ (\A u \in Tasks : u # t => tasks'[u] = tasks[u]) /\ t # 1 /\ 1 \in Tasks
      /\ tasks[t].pc = "none"
  BY <1>1, <1>2, BusAssumption DEF Protocol, Strands, Tasks, Free
<1>8. /\ t \notin Holders(outq) /\ t \notin Holders(calls)
      /\ t \notin Answered(Tail(inbox)) /\ t \notin Holders(ready)
  <2>1. tasks[t].pc \notin Running \union Asking
    BY <1>7 DEF Running, Asking
  <2>2. Answered(Tail(inbox)) \subseteq Answered(inbox)
    BY <1>1, ReplyTail DEF Once
  <2> QED
    BY <1>1, <2>1, <2>2, IdleHoldsNothing
<1>9. Front(lanes, L, "in", h) /\ lanes' = Pushed(L, "ready", l) /\ "in" \in Lanes /\ "ready" \in Lanes
  <2>1. ready' = Append(ready, m)
    BY <1>2
  <2> HIDE DEF m
  <2> QED
    BY <1>1, <1>3, <1>7, <1>8, <2>1, ReadLanes DEF L, Lanes
<1>10. l = Tag(kind, 1, c)
  <2>1. l = TaskLabel("ready", t, 0, x, x.body)
    BY <1>3, <1>7 DEF LabelOf
  <2> HIDE DEF l
  <2>2. CASE msg.new = NoOne
    <3>1. x.pc = "remove" /\ t # 1 /\ x.conn = c
      BY <1>5, <1>7, <2>2
    <3>2. l = Tag("part", 1, x.conn)
      BY ONLY <2>1, <3>1 DEF TaskLabel, Stage
    <3> QED
      BY <2>2, <3>1, <3>2
  <2>3. CASE msg.new # NoOne
    <3>1. x.pc = "add" /\ t # 1 /\ x.conn = c
      BY <1>5, <1>7, <2>3
    <3>2. l = Tag("join", 1, x.conn)
      BY ONLY <2>1, <3>1 DEF TaskLabel, Stage
    <3> QED
      BY <2>3, <3>1, <3>2
  <2> QED
    BY <2>2, <2>3
<1> HIDE DEF m, h, l
<1>11. /\ h.kind = kind /\ h.stage = 0 /\ h.conn = c /\ l.kind = kind /\ l.stage = 1 /\ l.conn = c
       /\ l \in Label
  BY <1>5, <1>6, <1>10, TagIs
<1>12. Sound("ready", l) /\ Follows(h, l) /\ Keeps(h, l)
  BY <1>1, <1>11 DEF Sound, LaneOf, Follows, Keeps
<1>13. Moved(h, l) /\ h \in Label /\ h \in Labels(lanes) /\ Foremost(lanes, h)
  BY <1>9, <1>11, <1>12, Forwarding DEF Protocol
<1>14. c <= lives
  <2>1. h.kind = "join" => h \in Joins
    BY <1>13 DEF Joins, Of
  <2>2. h.kind = "part" => h \in Parts
    BY <1>13 DEF Parts, Of
  <2>3. lives \in Nat /\ Parted <= lives
    BY <1>1, PartedIs DEF Protocol, Parted
  <2> QED
    BY <1>11, <2>1, <2>2, <2>3 DEF Protocol, Tokens
<1>15. Strands'
  <2>1. Course(t, x)
    BY <1>5, <1>7, <1>14 DEF Course
  <2>2. ready' = Append(ready, m) /\ lives' = lives /\ m.hops <= 2 /\ ~(m.hops > 0) /\ x.pc # "scanning"
    BY <1>1, <1>2, <1>3, <1>5 DEF m, registers
  <2> QED
    BY <1>1, <1>2, <1>3, <1>5, <1>8, <2>1, <2>2, StrandsRead DEF Protocol
<1> QED
  BY <1>11, <1>12, <1>13, <1>15, Forwarded

\* A reply puts the task that waits for it into the event loop's queue.
LEMMA ReadReply ==
    ASSUME BusInv, BusTypes', Protocol, Read, NEW msg, msg = Head(inbox), msg.what = "reply"
    PROVE  Protocol'
<1> DEFINE t == msg.task
           L == LanesOf(Tail(inbox), ready, outq, calls, tasks)
           h == LabelOf("in", msg, tasks)
           x == [tasks[t] EXCEPT !.body = msg.body]
           hops == IF tasks[t].pc \in Gathers THEN 2 ELSE 0
           m == Schedule(t, hops)
           l == LabelOf("ready", m, tasks')
<1>1. /\ BusTypes /\ inbox # <<>> /\ inbox' = Tail(inbox) /\ UNCHANGED <<outq, calls>>
      /\ UNCHANGED registers /\ inbox \in Seq(Message) /\ Once /\ Wire /\ tasks \in [Tasks -> Task]
      /\ tasks' = [tasks EXCEPT ![t] = x] /\ ready' = Append(ready, m)
  <2>1. /\ BusTypes /\ inbox # <<>> /\ inbox' = Tail(inbox) /\ UNCHANGED <<outq, calls>>
        /\ UNCHANGED registers /\ inbox \in Seq(Message) /\ Once /\ Wire /\ tasks \in [Tasks -> Task]
    BY DEF BusInv, BusTypes, Queues, Known, Read, publisher, daemon, registers
  <2>2. tasks' = [tasks EXCEPT ![t].body = msg.body] /\ ready' = Append(ready, m)
    BY DEF Read
  <2> QED
    BY <2>1, <2>2
<1>2. /\ msg \in Message /\ t \in Tasks /\ msg.body \in Body /\ tasks[t] \in Task
      /\ Fits(tasks[t].pc, msg.body)
  <2>1. 1 \in Replies(inbox) /\ inbox[1] = msg
    BY <1>1, TailOf DEF Replies
  <2> QED
    BY <1>1, <2>1, TailOf, Shapes DEF Wire
<1>3. /\ x \in Task /\ x.pc = tasks[t].pc /\ x.conn = tasks[t].conn /\ x.body = msg.body
      /\ x.conn \in Owned
  BY <1>2 DEF Task
<1>4. m \in Place /\ m.task = t /\ m.hops = hops /\ hops \in {0, 2}
  <2>1. hops \in {0, 2} /\ hops \in Nat
    OBVIOUS
  <2> HIDE DEF hops
  <2> QED
    BY <1>2, <2>1, Made DEF Schedule
<1>5. h = TaskLabel("in", t, 0, tasks[t], msg.body)
  BY DEF LabelOf
<1> HIDE DEF L, x
<1>6. tasks'[t] = x /\ (\A u \in Tasks : u # t => tasks'[u] = tasks[u])
  BY <1>1, <1>2
<1>7. l = TaskLabel("ready", t, hops, x, msg.body)
  BY <1>3, <1>4, <1>6 DEF LabelOf
<1>8. /\ t \notin Holders(outq) /\ t \notin Holders(calls)
      /\ t \notin Answered(Tail(inbox)) /\ t \notin Holders(ready)
  <2>1. t \in Answered(inbox) /\ t \notin Answered(Tail(inbox))
    BY <1>1, ReplyTail DEF Once
  <2> QED
    BY <1>1, <2>1 DEF Once
<1>9. Front(lanes, L, "in", h) /\ lanes' = Pushed(L, "ready", l) /\ "in" \in Lanes /\ "ready" \in Lanes
  <2>1. t \in Tasks /\ ready' = Append(ready, m)
    BY <1>1, <1>2
  <2> HIDE DEF m, t
  <2> QED
    BY <1>1, <1>4, <1>6, <1>8, <2>1, ReadLanes DEF L, Lanes
<1> DEFINE task == tasks[t]
           body == msg.body
<1>10. /\ task.pc \in Asking /\ task.conn \in Owned /\ task.conn <= lives
       /\ t = 1 => task.pc \in {"names", "whose"}
       /\ t # 1 => task.pc \notin {"names", "whose"}
       /\ task.pc \notin {"undo", "undoing"}
       /\ task.pc \in {"setting", "set"} => task.conn # NoOne
       /\ task.pc = "whose" => \E c \in Owned : body = Found(c)
  <2>1. task.pc \in Asking
    BY <1>2 DEF Fits, Gathers, Asking
  <2>2. task.pc = "whose" => \E c \in Owned : body = Found(c)
    BY <1>2 DEF Fits, Gathers
  <2> QED
    BY <1>2, <1>3, <2>1, <2>2 DEF Protocol, Strands, Asking
<1>11. ASSUME h = Other, l = Other PROVE Sound("ready", l) /\ Follows(h, l) /\ Keeps(h, l) /\ l \in Label
  BY <1>1, <1>11, OtherLabel DEF Follows, Keeps
<1>12. ASSUME NEW kind \in Kinds, NEW s, NEW c \in Owned, h = Tag(kind, s, c), l = Tag(kind, s + 1, c),
              \/ kind = "make" /\ s = 0
              \/ kind \in {"join", "part"} /\ s = 4
              \/ kind = "join" /\ s = 10
       PROVE  Sound("ready", l) /\ Follows(h, l) /\ Keeps(h, l) /\ l \in Label
  <2>1. s \in 0..11 /\ s + 1 \in 0..11
    BY <1>12
  <2>2. /\ h.kind = kind /\ h.stage = s /\ h.conn = c /\ l.kind = kind /\ l.stage = s + 1 /\ l.conn = c
        /\ l \in Label
    <3>1. h.kind = kind /\ h.stage = s /\ h.conn = c
      BY ONLY <1>12, <2>1, TagIs
    <3>2. l.kind = kind /\ l.stage = s + 1 /\ l.conn = c /\ l \in Label
      BY ONLY <1>12, <2>1, TagIs
    <3> QED
      BY <3>1, <3>2
  <2> HIDE DEF h, l
  <2> QED
    BY <1>1, <1>12, <2>2 DEF Sound, LaneOf, Follows, Keeps
<1>13. Sound("ready", l) /\ Follows(h, l) /\ Keeps(h, l) /\ l \in Label
  <2>1. CASE t = 1
    <3>1. h = TaskLabel("in", 1, 0, task, body) /\ l = TaskLabel("ready", 1, hops, x, body)
          /\ x.pc = task.pc /\ hops = 0
      BY <1>3, <1>5, <1>7, <1>10, <2>1 DEF Gathers
    <3>2. l = TaskLabel("ready", 1, 0, x, body)
      BY <3>1
    <3>3. CASE task.pc = "whose" /\ body[2] # NoOne
      <4>1. body[2] \in Owned
        BY <1>10, <3>3 DEF Found
      <4>2. h = Tag("make", 0, body[2])
        BY <3>1, <3>3, Making
      <4>3. l = Tag("make", 1, body[2])
        BY <3>1, <3>2, <3>3, Making
      <4>4. "make" \in Kinds /\ 0 + 1 = 1
        BY DEF Kinds
      <4> HIDE DEF h, l
      <4> QED
        BY <1>12, <4>1, <4>2, <4>3, <4>4
    <3>4. CASE ~(task.pc = "whose" /\ body[2] # NoOne)
      <4>1. task.pc \in {"names", "whose"} /\ x.pc = task.pc /\ (task.pc = "whose" => body[2] = NoOne)
        BY <1>10, <2>1, <3>1, <3>4
      <4>2. h = Other
        BY ONLY <3>1, <4>1, Making
      <4>3. l = Other
        BY ONLY <3>2, <4>1, Making
      <4> HIDE DEF h, l
      <4> QED
        BY <1>11, <4>2, <4>3
    <3> QED
      BY <3>3, <3>4
  <2>2. CASE t # 1 /\ task.pc \in {"matching", "removing", "scanning"}
    <3> DEFINE kind == IF task.pc = "removing" THEN "part" ELSE "join"
               s == IF task.pc = "scanning" THEN 10 ELSE 4
               c == task.conn
    <3>1. /\ t # 1 /\ x.pc = task.pc /\ x.conn = c /\ c \in Owned
          /\ h = TaskLabel("in", t, 0, task, body) /\ l = TaskLabel("ready", t, hops, x, body)
      BY <1>3, <1>5, <1>7, <1>10, <2>2
    <3>2. hops = (IF task.pc = "scanning" THEN 0 ELSE 2)
      BY <2>2 DEF Gathers
    <3> HIDE DEF h, l, hops, c, task, body
    <3>3. CASE task.pc = "matching"
      <4>1. task.pc = "matching" /\ x.pc = "matching" /\ hops = 2
        BY <3>1, <3>2, <3>3
      <4>2. h = Tag("join", 4, task.conn)
        BY ONLY <3>1, <4>1 DEF TaskLabel, Stage
      <4>3. l = Tag("join", 7 - hops, x.conn)
        BY ONLY <3>1, <4>1 DEF TaskLabel, Stage
      <4>4. 7 - hops = 4 + 1
        BY ONLY <4>1
      <4>5. "join" \in Kinds /\ h = Tag("join", 4, c) /\ l = Tag("join", 4 + 1, c)
        BY <3>1, <4>2, <4>3, <4>4 DEF Kinds, c
      <4> QED
        BY <1>12, <3>1, <4>5
    <3>4. CASE task.pc = "removing"
      <4>1. task.pc = "removing" /\ x.pc = "removing" /\ hops = 2
        BY <3>1, <3>2, <3>4
      <4>2. h = Tag("part", 4, task.conn)
        BY ONLY <3>1, <4>1 DEF TaskLabel, Stage
      <4>3. l = Tag("part", 7 - hops, x.conn)
        BY ONLY <3>1, <4>1 DEF TaskLabel, Stage
      <4>4. 7 - hops = 4 + 1
        BY ONLY <4>1
      <4>5. "part" \in Kinds /\ h = Tag("part", 4, c) /\ l = Tag("part", 4 + 1, c)
        BY <3>1, <4>2, <4>3, <4>4 DEF Kinds, c
      <4> QED
        BY <1>12, <3>1, <4>5
    <3>5. CASE task.pc = "scanning"
      <4>1. task.pc = "scanning" /\ x.pc = "scanning"
        BY <3>1, <3>5
      <4>2. h = Tag("join", 10, task.conn)
        BY ONLY <3>1, <4>1 DEF TaskLabel, Stage
      <4>3. l = Tag("join", 11, x.conn)
        BY ONLY <3>1, <4>1 DEF TaskLabel, Stage
      <4>4. "join" \in Kinds /\ h = Tag("join", 10, c) /\ l = Tag("join", 10 + 1, c)
        BY <3>1, <4>2, <4>3 DEF Kinds, c
      <4> QED
        BY <1>12, <3>1, <4>4
    <3> QED
      BY <2>2, <3>3, <3>4, <3>5 DEF task
  <2>3. CASE t # 1 /\ task.pc \notin {"matching", "removing", "scanning"}
    <3>1. /\ t # 1 /\ x.pc = task.pc
          /\ h = TaskLabel("in", t, 0, task, body) /\ l = TaskLabel("ready", t, hops, x, body)
          /\ task.pc \notin {"add", "match", "matching", "scanning", "remove", "unmatch", "removing"}
      BY <1>3, <1>5, <1>7, <1>10, <2>3 DEF Asking
    <3>2. h = Other
      BY ONLY <3>1, Passing
    <3>3. l = Other
      BY ONLY <3>1, Passing
    <3> HIDE DEF h, l
    <3> QED
      BY <1>11, <3>2, <3>3
  <2> QED
    BY <2>1, <2>2, <2>3
<1>14. Strands'
  <2>1. Course(t, x)
    BY <1>3, <1>10 DEF Course
  <2>2. /\ lives' = lives /\ m.hops <= 2 /\ (m.hops > 0 => x.pc \in Gathers)
        /\ (x.pc = "scanning" => x.body # Error)
    <3>1. hops <= 2 /\ (hops > 0 => task.pc \in Gathers)
      OBVIOUS
    <3>2. 1 \in Replies(inbox) /\ inbox[1] = msg
      BY <1>1, TailOf DEF Replies
    <3>3. task.pc = "scanning" => body # Error
      BY <3>2 DEF Protocol, Strands
    <3> QED
      BY <1>1, <1>3, <1>4, <3>1, <3>3 DEF registers
  <2> HIDE DEF m, t
  <2> QED
    BY <1>1, <1>2, <1>3, <1>4, <1>8, <2>1, <2>2, StrandsRead DEF Protocol
<1> HIDE DEF h, l, L
<1>15. Moved(h, l) /\ h \in Label /\ h \in Labels(lanes) /\ Foremost(lanes, h)
  BY <1>9, <1>13, Forwarding DEF Protocol
<1> QED
  BY <1>13, <1>14, <1>15, Forwarded

LEMMA ReadCalm ==
    ASSUME BusInv, BusTypes', Protocol, Read
    PROVE  Protocol'
<1>1. Head(inbox).what \in {"signal", "owner", "reply"}
  BY DEF Read
<1> QED
  BY <1>1, ReadSignal, ReadOwner, ReadReply

-----------------------------------------------------------------------------
(* The tokens are on their way from the start and after every step.        *)

LEMMA ProtocolInit ==
    Init => Protocol
<1> SUFFICES ASSUME Init PROVE Protocol
  OBVIOUS
<1>1. /\ MaxLives \in Nat \ {0} /\ 1 \in Tasks /\ BusTypes
      /\ owner = NoOne /\ lives = 0 /\ closing = FALSE /\ rules = 0 /\ services = {} /\ byName = Absent
      /\ waiter = "none" /\ calls = <<>> /\ inbox = <<>> /\ ready = <<>> /\ Len(outq) = 1
      /\ outq[1].what = "names" /\ outq[1].task = 1
      /\ tasks[1].pc = "names" /\ \A t \in Tasks : tasks[t].pc \in {"names", "none"} /\ tasks[t].conn = NoOne
      /\ \A t \in Tasks : tasks[t].pc = "names" => t = 1
  BY BusAssumption, BusInit DEF Init, NoTask, Tasks, BusInv
<1>2. LabelOf("out", outq[1], tasks) = Other
  <2>1. tasks[1].pc \notin {"whose", "add"}
    BY <1>1
  <2>2. LabelOf("out", outq[1], tasks) = TaskLabel("out", 1, 0, tasks[1], <<>>)
    BY <1>1 DEF LabelOf
  <2> QED
    BY <2>1, <2>2, Making
<1>3. /\ IsLanes(lanes) /\ lanes["in"] = <<>> /\ lanes["ready"] = <<>> /\ lanes["call"] = <<>>
      /\ lanes["out"] = <<Other>>
  <2>1. Lane("in", inbox, tasks) = <<>> /\ Lane("ready", ready, tasks) = <<>> /\ Lane("call", calls, tasks) = <<>>
    BY <1>1 DEF Lane
  <2>2. Lane("out", outq, tasks) = <<Other>>
    <3>1. Lane("out", outq, tasks) = [i \in 1..1 |-> LabelOf("out", outq[i], tasks)]
      BY <1>1 DEF Lane
    <3>2. \A i \in 1..1 : LabelOf("out", outq[i], tasks) = Other
      BY <1>2
    <3>3. Lane("out", outq, tasks) = [i \in 1..1 |-> Other]
      BY <3>1, <3>2
    <3>4. [i \in 1..1 |-> Other] = <<Other>>
      OBVIOUS
    <3> QED
      BY <3>3, <3>4
  <2> QED
    BY <2>1, <2>2, LanesAre
<1>4. \A n \in Lanes : lanes[n] \in Seq(Label) /\ \A i \in DOMAIN lanes[n] : lanes[n][i] = Other
  <2>1. <<Other>> \in Seq(Label) /\ \A i \in DOMAIN <<Other>> : <<Other>>[i] = Other
    BY OtherLabel
  <2>2. <<>> \in Seq(Label) /\ DOMAIN <<>> = {}
    OBVIOUS
  <2>3. \A n \in Lanes : lanes[n] = <<>> \/ lanes[n] = <<Other>>
    BY <1>3 DEF Lanes
  <2> QED
    BY <2>1, <2>2, <2>3
<1>5. \A x \in Labels(lanes) : x = Other
  BY <1>4 DEF Labels
<1>6. LaneInv(lanes)
  <2>1. lanes \in [Lanes -> Seq(Label)]
    BY <1>3, <1>4 DEF IsLanes
  <2>2. \A n : Sound(n, Other) /\ ~Leads(Other, Other) /\ Other.kind = "other"
    BY OtherLabel DEF Leads
  <2> QED
    BY <1>4, <2>1, <2>2 DEF LaneInv
<1>7. \A kind \in {"join", "part", "signal", "make"} : Of(lanes, kind) = {}
  BY <1>5, OtherLabel DEF Of
<1>8. Joins = {} /\ Parts = {} /\ Of(lanes, "signal") = {} /\ Of(lanes, "make") = {}
  BY <1>7 DEF Joins, Parts
<1>9. Strands
  <2>1. Replies(inbox) = {} /\ DOMAIN ready = {}
    BY <1>1 DEF Replies
  <2> QED
    BY <1>1, <2>1 DEF Strands, NoOne
<1>10. Tokens
  BY <1>8 DEF Tokens
<1>11. Registry
  BY <1>1, <1>8 DEF Registry, NoOne, Absent, Upto
<1> QED
  BY <1>6, <1>9, <1>10, <1>11 DEF Protocol

LEMMA ProtocolNext ==
    ASSUME BusInv, BusTypes', Protocol, [Next]_vars, ~hasty'
    PROVE  Protocol'
<1>1. CASE UNCHANGED vars
  <2>1. UNCHANGED <<inbox, outq, calls, tasks, ready>> /\ UNCHANGED registers /\ lives' = lives
    BY <1>1 DEF vars, publisher, daemon, monitor, registers
  <2> QED
    BY <2>1, StandStill, Steady
<1>2. CASE Next
  <2>1. CASE Register \/ Close \/ Leave \/ AnswerSet \/ AnswerGet \/ Route \/ Read \/ Hop \/ WaitForService
    BY <2>1, RegisterCalm, CloseCalm, LeaveCalm, AnswerSetCalm, AnswerGetCalm, RouteCalm, ReadCalm,
       HopCalm, WaitCalm
  <2>2. CASE \E S \in SUBSET Paths \ {{}} : Write(S)
    BY <2>2, WriteCalm
  <2>3. ASSUME NEW t \in Tasks,
               \/ ListServices(t) \/ AddService(t) \/ SendMatches(t) \/ Scan(t) \/ Scanned(t)
               \/ RemoveService(t) \/ Removed(t) \/ Fetched(t) \/ SetDone(t)
               \/ \E p \in Paths, what \in {"get", "set"} : Call(t, p, what)
        PROVE  Protocol'
    BY <2>3, ListServicesCalm, AddServiceCalm, SendMatchesCalm, ScannedCalm, RemovedCalm, FetchedCalm,
       CallCalm
  <2> QED
    BY <1>2, <2>1, <2>2, <2>3 DEF Next
<1> QED
  BY <1>1, <1>2

-----------------------------------------------------------------------------
(* What follows from the protocol.                                         *)

LEMMA Present ==
    ASSUME BusTypes
    PROVE  /\ \A i \in DOMAIN inbox : LabelOf("in", inbox[i], tasks) \in Labels(lanes)
           /\ \A i \in DOMAIN ready : LabelOf("ready", ready[i], tasks) \in Labels(lanes)
<1>1. inbox \in Seq(Message) /\ ready \in Seq(Place)
  BY DEF BusTypes, Queues
<1>2. ASSUME NEW i \in DOMAIN inbox PROVE LabelOf("in", inbox[i], tasks) \in Labels(lanes)
  <2>1. i \in DOMAIN lanes["in"] /\ lanes["in"][i] = LabelOf("in", inbox[i], tasks)
    BY <1>1, LanesAre DEF Lane
  <2> QED
    BY <2>1 DEF Labels, Lanes
<1>3. ASSUME NEW i \in DOMAIN ready PROVE LabelOf("ready", ready[i], tasks) \in Labels(lanes)
  <2>1. i \in DOMAIN lanes["ready"] /\ lanes["ready"][i] = LabelOf("ready", ready[i], tasks)
    BY <1>1, LanesAre DEF Lane
  <2> QED
    BY <2>1 DEF Labels, Lanes
<1> QED
  BY <1>2, <1>3

LEMMA OneJoin ==
    ASSUME LaneInv(lanes)
    PROVE  \A x, y \in Joins : x = y
<1> SUFFICES ASSUME NEW x \in Joins, NEW y \in Joins PROVE x = y
  OBVIOUS
<1>1. x \in Labels(lanes) /\ y \in Labels(lanes) /\ x.kind = "join" /\ y.kind = "join"
  BY DEF Joins, Of
<1>2. PICK n \in Lanes : \E i \in DOMAIN lanes[n] : x = lanes[n][i]
  BY <1>1 DEF Labels
<1>3. PICK i \in DOMAIN lanes[n] : x = lanes[n][i]
  BY <1>2
<1>4. PICK m \in Lanes : \E k \in DOMAIN lanes[m] : y = lanes[m][k]
  BY <1>1 DEF Labels
<1>5. PICK k \in DOMAIN lanes[m] : y = lanes[m][k]
  BY <1>4
<1> QED
  BY <1>1, <1>3, <1>5 DEF LaneInv

\* A scan is under way: the token of an arrival is at its last stages.
LEMMA Scanning ==
    ASSUME BusInv, Protocol, Scans # {}
    PROVE  \E x \in Joins : x.stage \in {10, 11}
<1>1. /\ BusTypes /\ tasks \in [Tasks -> Task] /\ inbox \in Seq(Message) /\ ready \in Seq(Place)
      /\ tasks[1].pc \in {"names", "whose", "add", "done"}
  BY DEF BusInv, BusTypes, Known, Queues, Protocol, Strands
<1>2. ASSUME NEW t \in Tasks, tasks[t].pc = "scanning", NEW x \in Labels(lanes), NEW s \in {10, 11},
             x = Tag("join", s, tasks[t].conn)
      PROVE  \E y \in Joins : y.stage \in {10, 11}
  <2>1. "join" \in Kinds /\ tasks[t].conn \in Owned /\ s \in 0..11
    BY <1>1 DEF Kinds, Task
  <2>2. x.kind = "join" /\ x.stage = s
    BY <1>2, <2>1, TagIs
  <2> QED
    BY <1>2, <2>2 DEF Joins, Of
<1>3. ASSUME NEW i \in Replies(inbox), tasks[inbox[i].task].pc = "scanning"
      PROVE  \E y \in Joins : y.stage \in {10, 11}
  <2> DEFINE t == inbox[i].task
             x == LabelOf("in", inbox[i], tasks)
  <2>1. i \in DOMAIN inbox /\ inbox[i] \in Message /\ inbox[i].what = "reply"
    BY <1>1 DEF Replies
  <2>2. t \in Tasks /\ t # 1 /\ tasks[t].pc = "scanning"
    BY <1>1, <1>3, <2>1, Shapes
  <2>3. x = TaskLabel("in", t, 0, tasks[t], inbox[i].body)
    BY <2>1 DEF LabelOf
  <2>4. x \in Labels(lanes)
    BY <1>1, <2>1, Present
  <2> HIDE DEF t, x
  <2>5. x = Tag("join", 10, tasks[t].conn)
    BY ONLY <2>2, <2>3 DEF TaskLabel, Stage
  <2> QED
    BY <1>2, <2>2, <2>4, <2>5
<1>4. ASSUME NEW i \in DOMAIN ready, tasks[ready[i].task].pc = "scanning"
      PROVE  \E y \in Joins : y.stage \in {10, 11}
  <2> DEFINE t == ready[i].task
             x == LabelOf("ready", ready[i], tasks)
  <2>1. ready[i] \in Place
    BY <1>1
  <2>2. t \in Tasks /\ t # 1 /\ tasks[t].pc = "scanning"
    BY <1>1, <1>4, <2>1 DEF Place
  <2>3. x = TaskLabel("ready", t, ready[i].hops, tasks[t], tasks[t].body)
    BY DEF LabelOf
  <2>4. x \in Labels(lanes)
    BY <1>1, Present
  <2> HIDE DEF t, x
  <2>5. x = Tag("join", 11, tasks[t].conn)
    BY ONLY <2>2, <2>3 DEF TaskLabel, Stage
  <2> QED
    BY <1>2, <2>2, <2>4, <2>5
<1>5. \/ \E i \in Replies(inbox) : tasks[inbox[i].task].pc = "scanning"
      \/ \E i \in DOMAIN ready : tasks[ready[i].task].pc = "scanning"
  BY DEF Scans
<1> QED
  BY <1>3, <1>4, <1>5

\* Before the rules of the present process are there nothing is known of it.
LEMMA Unheard ==
    ASSUME BusInv, Protocol, owner # NoOne, rules = 0 \/ lives \notin services
    PROVE  Scans = {} /\ byName # lives
<1>1. /\ BusTypes /\ LaneInv(lanes) /\ Registry
      /\ owner = lives /\ Parted # lives /\ lives # Pending /\ lives # Absent
  BY PartedIs DEF BusInv, Protocol, Absent
<1>2. PICK x \in Joins : x.stage <= 3
  <2>2. CASE rules = 0
    <3>1. Upto(Joins, 3)
      BY <1>1, <2>2 DEF Registry
    <3> QED
      BY <3>1 DEF Upto
  <2>3. CASE lives \notin services
    <3>1. Upto(Joins, 1)
      BY <1>1, <2>3 DEF Registry
    <3>2. \A x \in Joins : x.stage \in Nat
      BY <1>1, Placed DEF LaneInv, Joins, Of
    <3> QED
      BY <3>1, <3>2 DEF Upto
  <2> QED
    BY <2>2, <2>3
<1>3. Scans = {}
  <2>1. ASSUME Scans # {} PROVE FALSE
    <3>1. PICK y \in Joins : y.stage \in {10, 11}
      BY <2>1, Scanning
    <3>2. x = y
      BY <1>1, OneJoin
    <3> QED
      BY <1>2, <3>1, <3>2
  <2> QED
    BY <2>1
<1>4. byName # lives
  BY <1>1, <1>2 DEF Registry
<1> QED
  BY <1>3, <1>4

\* A signal of the present process, and the last, finds it where it is.
LEMMA SignalFinds ==
    ASSUME BusInv, Protocol, NEW i \in DOMAIN inbox, inbox[i].what = "signal", inbox[i].from = lives,
           owner = NoOne \/ byName = lives
    PROVE  lives \in services
<1>1. /\ BusTypes /\ Registry /\ Tokens /\ inbox \in Seq(Message)
  BY DEF BusInv, Protocol, BusTypes, Queues
<1>2. CASE owner # NoOne
  <2>1. owner = lives /\ byName = owner
    BY <1>1, <1>2, PartedIs
  <2> QED
    BY <1>1, <1>2, <2>1, AtRest
<1>3. CASE owner = NoOne
  <2> DEFINE x == LabelOf("in", inbox[i], tasks)
  <2>1. x = Tag("signal", 0, lives) /\ lives \in Owned
    BY <1>1, Shapes DEF LabelOf, Owned
  <2>2. x \in Labels(lanes)
    BY <1>1, Present
  <2> HIDE DEF x
  <2>3. x \in Of(lanes, "signal") /\ x.conn = lives
    BY <2>1, <2>2, TagIs DEF Of, Kinds
  <2>4. Parts # {} /\ Parted = lives
    BY <1>1, <1>3, <2>3, PartedIs DEF Tokens
  <2> QED
    BY <1>1, <2>4 DEF Registry
<1> QED
  BY <1>2, <1>3

-----------------------------------------------------------------------------
(* Steps that bring no news and leave the cache alone.                     *)

Signals(q) == {q[i] : i \in {k \in DOMAIN q : q[k].what = "signal"}}

Among(S, c, p) == {m.items[p] : m \in {s \in S : s.from = c /\ p \in DOMAIN s.items}}

LEMMA NewsAre ==
    /\ \A p : News(p) = Among(Signals(inbox), lives, p)
    /\ \A p : News(p)' = Among(Signals(inbox)', lives', p)
<1>1. \A p : News(p) = Among(Signals(inbox), lives, p)
  BY DEF News, Signals, Announces, Among
<1>2. \A p : News(p)' = Among(Signals(inbox)', lives', p)
  BY DEF News, Signals, Announces, Among
<1> QED
  BY <1>1, <1>2

LEMMA SignalsAppended ==
    ASSUME NEW S, NEW q \in Seq(S), NEW m \in S
    PROVE  Signals(Append(q, m)) = Signals(q) \union (IF m.what = "signal" THEN {m} ELSE {})
<1> DEFINE d == Append(q, m)
<1>1. /\ DOMAIN q = 1..Len(q) /\ DOMAIN d = 1..(Len(q) + 1) /\ Len(q) \in Nat
      /\ (\A i \in DOMAIN q : d[i] = q[i]) /\ d[Len(q) + 1] = m
  BY EndOf
<1> HIDE DEF d
<1>2. Signals(d) = Signals(q) \union (IF m.what = "signal" THEN {m} ELSE {})
  BY <1>1 DEF Signals
<1> QED
  BY <1>2 DEF d

LEMMA SignalsTaken ==
    ASSUME NEW S, NEW q \in Seq(S), q # <<>>
    PROVE  Signals(q) = Signals(Tail(q)) \union (IF Head(q).what = "signal" THEN {Head(q)} ELSE {})
<1> DEFINE d == Tail(q)
           h == Head(q)
<1>1. /\ h = q[1] /\ 1 \in DOMAIN q
      /\ \A i \in DOMAIN d : i + 1 \in DOMAIN q /\ d[i] = q[i + 1]
      /\ \A k \in DOMAIN q : k # 1 => k - 1 \in DOMAIN d /\ d[k - 1] = q[k]
  BY TailOf
<1> HIDE DEF d, h
<1>2. Signals(q) = Signals(d) \union (IF h.what = "signal" THEN {h} ELSE {})
  BY <1>1 DEF Signals
<1> QED
  BY <1>2 DEF d, h

\* What tasks that set a value, and their answers, may become.
SetsKept ==
    /\ \A t \in Tasks : Sets(t)' => Sets(t) \/ byName = lives
    /\ \A i \in Replies(inbox)' : Sets(inbox[i].task)' /\ inbox'[i].body # Error =>
         \E k \in Replies(inbox) : inbox[k] = inbox'[i] /\ Sets(inbox[k].task)
    /\ \A t \in Tasks : tasks'[t].conn = lives /\ tasks'[t].pc \in {"setting", "set"}
                        /\ tasks'[t].body \notin {<<>>, Error} =>
         \/ tasks[t].conn = lives /\ tasks[t].pc \in {"setting", "set"} /\ tasks[t].body = tasks'[t].body
         \/ \A p \in DOMAIN tasks'[t].body[2] \ fetched : Shows(p, tasks'[t].body[2][p])

Unaffected ==
    /\ UNCHANGED <<lives, vals, cache, fetched, missed>> /\ Signals(inbox)' = Signals(inbox)
    /\ owner' # NoOne => /\ owner # NoOne /\ Scans' \subseteq Scans \union {Items(vals)}
                         /\ lives \in services => lives \in services'
                         /\ byName' = lives <=> byName = lives

LEMMA UnaffectedShown ==
    ASSUME Shown, Unaffected
    PROVE  Shown'
<1>1. /\ UNCHANGED <<lives, vals, cache, fetched, missed>> /\ Signals(inbox)' = Signals(inbox)
      /\ owner' # NoOne => /\ owner # NoOne /\ Scans' \subseteq Scans \union {Items(vals)}
                           /\ lives \in services => lives \in services'
                           /\ byName' = lives <=> byName = lives
  BY DEF Unaffected
<1>2. \A p : News(p)' = News(p)
  BY <1>1, NewsAre
<1>3. \A c \in Conns : c > lives' => cache'[c] = Unseen
  BY <1>1 DEF Shown
<1>4. \A p \in Paths : \A v \in News(p)' : v <= vals'[p]
  BY <1>1, <1>2 DEF Shown
<1>5. ASSUME owner' # NoOne, NEW p \in Paths \ (fetched' \union missed') PROVE Agrees(p)'
  <2>1. Agrees(p) /\ News(p)' = News(p)
    BY <1>1, <1>2, <1>5 DEF Shown
  <2>2. Items(vals)[2][p] = vals[p]
    BY DEF Items
  <2>3. ASSUME \A body \in Scans : body[2][p] = vals[p] PROVE \A body \in Scans' : body[2][p] = vals'[p]
    BY <1>1, <1>5, <2>2, <2>3
  <2> QED
    BY <1>1, <1>5, <2>1, <2>3 DEF Agrees
<1>6. ASSUME owner' # NoOne, NEW p \in Paths \ fetched', cache'[lives'][p].seen PROVE lives' \in services'
  BY <1>1, <1>6 DEF Shown
<1> QED
  BY <1>3, <1>4, <1>5, <1>6 DEF Shown

LEMMA UnaffectedWritten ==
    ASSUME Written, Unaffected, SetsKept
    PROVE  Written'
<1>1. /\ UNCHANGED <<lives, cache, fetched>> /\ Signals(inbox)' = Signals(inbox)
      /\ owner' # NoOne => owner # NoOne /\ (byName' = lives <=> byName = lives)
  BY DEF Unaffected
<1>2. \A p : News(p)' = News(p)
  BY <1>1, NewsAre
<1>3. \A p, v : Shows(p, v)' <=> Shows(p, v)
  BY <1>1 DEF Shows
<1>4. Addressed'
  BY <1>1 DEF Addressed, Written, SetsKept
<1>5. Promised'
  <2>1. ASSUME NEW i \in Replies(inbox)', Sets(inbox[i].task)', inbox'[i].body # Error,
               NEW p \in DOMAIN inbox'[i].body[2] \ fetched'
        PROVE  Shows(p, inbox[i].body[2][p])' \/ inbox'[i].body[2][p] \in News(p)'
    <3>1. PICK k \in Replies(inbox) : inbox[k] = inbox'[i] /\ Sets(inbox[k].task)
      BY <2>1 DEF SetsKept
    <3>2. Shows(p, inbox[k].body[2][p]) \/ inbox[k].body[2][p] \in News(p)
      BY <1>1, <2>1, <3>1 DEF Promised, Written
    <3> QED
      BY <1>2, <1>3, <3>1, <3>2
  <2> QED
    BY <2>1 DEF Promised
<1>6. ReadBack'
  <2>1. ASSUME NEW t \in Tasks, tasks'[t].conn = lives', tasks'[t].pc \in {"setting", "set"},
               tasks'[t].body \notin {<<>>, Error}, NEW p \in DOMAIN tasks'[t].body[2] \ fetched'
        PROVE  Shows(p, tasks[t].body[2][p])'
    <3>1. CASE tasks[t].conn = lives /\ tasks[t].pc \in {"setting", "set"} /\ tasks[t].body = tasks'[t].body
      BY <1>1, <1>3, <2>1, <3>1 DEF ReadBack, Written
    <3>2. CASE \A r \in DOMAIN tasks'[t].body[2] \ fetched : Shows(r, tasks'[t].body[2][r])
      BY <1>1, <1>3, <2>1, <3>2
    <3> QED
      BY <1>1, <2>1, <3>1, <3>2 DEF SetsKept
  <2> QED
    BY <2>1 DEF ReadBack
<1> QED
  BY <1>4, <1>5, <1>6 DEF Written

\* A task that runs.
LEMMA RanAside ==
    ASSUME BusInv, NEW t \in Tasks, NEW x, Ran(t, x), x.pc # "setting", lives' = lives,
           x.pc = "set" => tasks[t].pc = "setting" /\ x.body = tasks[t].body /\ x.conn = tasks[t].conn
    PROVE  Scans' \subseteq Scans /\ Signals(inbox)' = Signals(inbox) /\ SetsKept
<1>1. /\ ready \in Seq(Place) /\ ready # <<>> /\ Head(ready) = Schedule(t, 0) /\ x \in Task
      /\ tasks \in [Tasks -> Task] /\ tasks' = [tasks EXCEPT ![t] = x] /\ inbox' = inbox
      /\ inbox \in Seq(Message) /\ Once
      /\ \/ ready' = Tail(ready)
         \/ ready' = Append(Tail(ready), Schedule(t, 0)) /\ x.pc \in Running
  BY DEF BusInv, BusTypes, Queues, Known, Ran
<1>2. tasks'[t] = x /\ \A u \in Tasks : u # t => tasks'[u] = tasks[u]
  BY <1>1
<1>3. t \in Holders(ready) /\ t \notin Answered(inbox) /\ t \notin Holders(Tail(ready))
  BY <1>1, SingleTail DEF Once, Schedule
<1>4. \A i \in Replies(inbox) : inbox[i].task \in Tasks /\ inbox[i].task # t
  BY <1>1, <1>3, Shapes DEF Answered, Replies
<1>5. \A i \in Replies(inbox) : tasks'[inbox[i].task] = tasks[inbox[i].task]
  BY <1>2, <1>4
<1>6. ASSUME NEW i \in DOMAIN ready', tasks'[ready'[i].task].pc = "scanning"
      PROVE  \E k \in DOMAIN ready : ready[k] = ready'[i] /\ tasks'[ready[k].task] = tasks[ready[k].task]
  <2> DEFINE q == Tail(ready)
             m == Schedule(t, 0)
  <2>1. /\ q \in Seq(Place) /\ m \in Place /\ m.task = t /\ t \notin Holders(q)
        /\ \A k \in DOMAIN q : k + 1 \in DOMAIN ready /\ ready[k + 1] = q[k]
        /\ ready' = q \/ (ready' = Append(q, m) /\ x.pc \in Running)
    BY <1>1, <1>3, TailOf, Made DEF Schedule
  <2> HIDE DEF q, m
  <2>2. (i \in DOMAIN q /\ ready'[i] = q[i]) \/ (ready'[i] = m /\ x.pc \in Running)
    <3>1. CASE ready' = q
      BY <3>1
    <3>2. CASE ready' = Append(q, m) /\ x.pc \in Running
      <4>1. i \in DOMAIN q \/ i = Len(q) + 1
        BY <2>1, <3>2, EndOf
      <4> QED
        BY <2>1, <3>2, <4>1, EndOf
    <3> QED
      BY <2>1, <3>1, <3>2
  <2>3. ~(ready'[i] = m /\ x.pc \in Running)
    BY <1>2, <1>6, <2>1 DEF Running
  <2>4. i \in DOMAIN q /\ ready'[i] = q[i]
    BY <2>2, <2>3
  <2>5. q[i].task \in Tasks /\ q[i].task # t
    <3>1. q[i] \in Place /\ q[i].task \in Holders(q)
      BY <2>1, <2>4 DEF Holders
    <3> QED
      BY <2>1, <3>1 DEF Place
  <2> QED
    BY <1>2, <2>1, <2>4, <2>5
<1>7. Scans' \subseteq Scans
  <2>1. ASSUME NEW i \in Replies(inbox), tasks'[inbox[i].task].pc = "scanning"
        PROVE  inbox[i].body \in Scans
    BY <1>5, <2>1 DEF Scans
  <2>2. ASSUME NEW i \in DOMAIN ready', tasks'[ready'[i].task].pc = "scanning"
        PROVE  tasks'[ready'[i].task].body \in Scans
    <3>1. PICK k \in DOMAIN ready : ready[k] = ready'[i] /\ tasks'[ready[k].task] = tasks[ready[k].task]
      BY <1>6, <2>2
    <3> QED
      BY <2>2, <3>1 DEF Scans
  <2>3. Replies(inbox)' = Replies(inbox)
    BY <1>1 DEF Replies
  <2>4. \A i \in Replies(inbox)' : inbox'[i] = inbox[i]
    BY <1>1
  <2>5. Scans' = {inbox'[i].body : i \in {k \in Replies(inbox)' : tasks'[inbox'[k].task].pc = "scanning"}}
           \union {tasks'[ready'[i].task].body :
                     i \in {k \in DOMAIN ready' : tasks'[ready'[k].task].pc = "scanning"}}
    BY DEF Scans
  <2> QED
    BY <2>1, <2>2, <2>3, <2>4, <2>5
<1>8. SetsKept
  <2>1. \A u \in Tasks : Sets(u)' => Sets(u)
    BY <1>2 DEF Sets
  <2>2. \A i \in Replies(inbox)' : Sets(inbox[i].task)' => Sets(inbox[i].task)
    BY <1>1, <1>4, <2>1 DEF Replies
  <2>3. \A u \in Tasks : tasks'[u].conn = lives /\ tasks'[u].pc \in {"setting", "set"} =>
          tasks[u].conn = lives /\ tasks[u].pc \in {"setting", "set"} /\ tasks[u].body = tasks'[u].body
    BY <1>2
  <2> QED
    BY <1>1, <2>1, <2>2, <2>3 DEF SetsKept, Replies
<1> QED
  BY <1>1, <1>7, <1>8 DEF Signals

-----------------------------------------------------------------------------
(* Those steps, one by one.                                                *)

LEMMA Errands ==
    ASSUME BusInv, NEW t \in Tasks,
           \/ ListServices(t) \/ AddService(t) \/ SendMatches(t) \/ Scan(t) \/ RemoveService(t)
           \/ Removed(t) \/ SetDone(t)
    PROVE  \E x : /\ Ran(t, x) /\ x.pc # "setting"
                  /\ x.pc = "set" => tasks[t].pc = "setting" /\ x.body = tasks[t].body /\ x.conn = tasks[t].conn
<1>1. BusTypes /\ Wire /\ UNCHANGED <<inbox, calls>> /\ tasks \in [Tasks -> Task]
  BY DEF BusInv, BusTypes, Known, ListServices, AddService, SendMatches, Scan, RemoveService, Removed, SetDone,
     daemon
<1>2. ASSUME NEW pc \in Pcs \ {"setting", "set"}, Ran(t, At(t, pc))
      PROVE  \E x : /\ Ran(t, x) /\ x.pc # "setting"
                    /\ x.pc = "set" => tasks[t].pc = "setting" /\ x.body = tasks[t].body /\ x.conn = tasks[t].conn
  <2>1. pc \in Pcs /\ pc \notin {"setting", "set"}
    OBVIOUS
  <2>2. At(t, pc).pc = pc
    BY <1>1, <2>1, AtIs
  <2> QED
    BY <1>2, <2>1, <2>2
<1>3. CASE ListServices(t)
  <2>1. CASE /\ Runs(t, "whose")
             /\ tasks' = [tasks EXCEPT ![t] = [NoTask EXCEPT !.pc = "add", !.conn = tasks[t].body[2]]]
             /\ ready' = Append(Tail(ready), Schedule(t, 0)) /\ outq' = outq
    <3> DEFINE x == [NoTask EXCEPT !.pc = "add", !.conn = tasks[t].body[2]]
    <3>1. Fits("whose", tasks[t].body)
      BY <1>1, <2>1, TakenFits DEF Running
    <3>2. tasks[t].body[2] \in Owned
      BY <3>1 DEF Fits, Found, Gathers
    <3>3. x \in Task /\ x.body = <<>> /\ x.pc = "add"
      BY <3>2 DEF NoTask, Task, Body, Pcs, Running
    <3>4. Ran(t, x)
      BY <1>1, <2>1, <3>3 DEF Ran, Running, Runs
    <3> QED
      BY <3>3, <3>4
  <2>2. CASE Runs(t, "names") /\ Send(t, "owner") /\ Goes(t, "whose")
    BY <1>1, <1>2, <2>2, Going DEF Asks, Pcs, Asking
  <2>3. ASSUME NEW pc, Runs(t, pc), Goes(t, "done"), outq' = outq
        PROVE  Ran(t, At(t, "done")) /\ "done" \in Pcs \ {"setting", "set"}
    BY <1>1, <2>3, Going DEF Pcs
  <2> QED
    BY <1>2, <1>3, <2>1, <2>2, <2>3 DEF ListServices
<1>4. CASE AddService(t)
  <2>1. Runs(t, "add") /\ outq' = outq /\ (Goes(t, "done") \/ GoesOn(t, "match"))
    BY <1>4 DEF AddService
  <2>2. Ran(t, At(t, "done")) \/ Ran(t, At(t, "match"))
    BY <1>1, <2>1, Going DEF Pcs, Running
  <2> QED
    BY <1>2, <2>2 DEF Pcs, Running
<1>5. CASE SendMatches(t)
  <2>1. \/ Runs(t, "match") /\ Send(t, "match") /\ Goes(t, "matching")
        \/ Runs(t, "unmatch") /\ Send(t, "unmatch") /\ Goes(t, "removing")
        \/ Runs(t, "undo") /\ Send(t, "unmatch") /\ Goes(t, "undoing")
    BY <1>5 DEF SendMatches
  <2>2. Ran(t, At(t, "matching")) \/ Ran(t, At(t, "removing")) \/ Ran(t, At(t, "undoing"))
    BY <1>1, <2>1, Going DEF Pcs, Asking, Asks
  <2> QED
    BY <1>2, <2>2 DEF Pcs, Asking
<1>6. CASE Scan(t)
  <2>1. Runs(t, "matching") /\ Send(t, "items") /\ Goes(t, "scanning")
    BY <1>6 DEF Scan
  <2>2. Ran(t, At(t, "scanning"))
    BY <1>1, <2>1, Going DEF Pcs, Asking, Asks
  <2> QED
    BY <1>2, <2>2 DEF Pcs, Asking
<1>7. CASE RemoveService(t)
  <2>1. Runs(t, "remove") /\ outq' = outq /\ (Goes(t, "done") \/ GoesOn(t, "unmatch"))
    BY <1>7 DEF RemoveService
  <2>2. Ran(t, At(t, "done")) \/ Ran(t, At(t, "unmatch"))
    BY <1>1, <2>1, Going DEF Pcs, Running
  <2> QED
    BY <1>2, <2>2 DEF Pcs, Running
<1>8. CASE Removed(t)
  <2>1. Runs(t, "removing") /\ outq' = outq /\ Goes(t, "done")
    BY <1>8 DEF Removed
  <2>2. Ran(t, At(t, "done"))
    BY <1>1, <2>1, Going DEF Pcs
  <2> QED
    BY <1>2, <2>2 DEF Pcs
<1>9. CASE SetDone(t)
  <2> DEFINE x == [tasks[t] EXCEPT !.pc = "set"]
  <2>1. x \in Task /\ x.body = tasks[t].body /\ x.pc = "set" /\ x.conn = tasks[t].conn
    BY <1>1 DEF Task, Pcs
  <2>2. Ran(t, x) /\ tasks[t].pc = "setting"
    BY <1>1, <1>9, <2>1 DEF SetDone, Ran, Runs, daemon
  <2> QED
    BY <2>1, <2>2
<1> QED
  BY <1>3, <1>4, <1>5, <1>6, <1>7, <1>8, <1>9

LEMMA ErrandsKeep ==
    ASSUME BusInv, Protocol, Shown, Written, NEW t \in Tasks,
           \/ ListServices(t) \/ AddService(t) \/ SendMatches(t) \/ Scan(t) \/ RemoveService(t)
           \/ Removed(t) \/ SetDone(t)
    PROVE  Shown' /\ Written'
<1>1. UNCHANGED <<owner, lives, vals, cache, fetched, missed>>
  BY DEF ListServices, AddService, SendMatches, Scan, RemoveService, Removed, SetDone, publisher, monitor, history
<1>2. /\ owner # NoOne /\ lives \in services => lives \in services'
      /\ owner # NoOne => (byName' = lives <=> byName = lives)
  <2>1. CASE Removed(t)
    <3>1. Parts # {} /\ byName' = Absent /\ services' = services \ {Parted}
      BY <2>1, RemovedCalm
    <3>2. byName = Parted /\ (owner # NoOne => Parted # lives /\ lives # Absent)
      BY <3>1, PartedIs DEF Protocol, Registry, BusInv, Absent
    <3> QED
      BY <3>1, <3>2
  <2>2. CASE ~Removed(t)
    BY <2>2 DEF ListServices, AddService, SendMatches, Scan, RemoveService, SetDone, monitor
  <2> QED
    BY <2>1, <2>2
<1>3. Scans' \subseteq Scans /\ Signals(inbox)' = Signals(inbox) /\ SetsKept
  BY <1>1, Errands, RanAside
<1>4. Unaffected
  BY <1>1, <1>2, <1>3 DEF Unaffected
<1> QED
  BY <1>3, <1>4, UnaffectedShown, UnaffectedWritten

\* The tasks stay as they are, and a message at most is sent.
LEMMA ToldAside ==
    ASSUME BusInv, UNCHANGED <<tasks, ready, lives>>,
           \/ inbox' = inbox
           \/ \E m \in Message : /\ inbox' = Append(inbox, m) /\ m.what = "reply"
                                 /\ tasks[m.task].pc = "setting" => m.body = Error
                                 /\ owner' # NoOne /\ tasks[m.task].pc = "scanning" => m.body = Items(vals)
    PROVE  /\ Signals(inbox)' = Signals(inbox) /\ SetsKept
           /\ owner' # NoOne => Scans' \subseteq Scans \union {Items(vals)}
<1>1. inbox \in Seq(Message)
  BY DEF BusInv, BusTypes, Queues
<1>2. CASE inbox' = inbox
  BY <1>2 DEF Signals, SetsKept, Sets, Scans, Replies
<1>3. ASSUME NEW m \in Message, inbox' = Append(inbox, m), m.what = "reply",
             tasks[m.task].pc = "setting" => m.body = Error,
             owner' # NoOne /\ tasks[m.task].pc = "scanning" => m.body = Items(vals)
      PROVE  /\ Signals(inbox)' = Signals(inbox) /\ SetsKept
             /\ owner' # NoOne => Scans' \subseteq Scans \union {Items(vals)}
  <2>1. Signals(inbox)' = Signals(inbox)
    <3> DEFINE d == Append(inbox, m)
    <3>3. Signals(d) = Signals(inbox) \union (IF m.what = "signal" THEN {m} ELSE {})
      BY <1>1, SignalsAppended
    <3> HIDE DEF d
    <3>1. Signals(d) = Signals(inbox)
      BY <1>3, <3>3
    <3>2. Signals(inbox)' = Signals(d)
      BY <1>3 DEF Signals, d
    <3> QED
      BY <3>1, <3>2
  <2>2. \A i \in Replies(inbox)' : inbox'[i] = m \/ (i \in Replies(inbox) /\ inbox'[i] = inbox[i])
    BY <1>1, <1>3, EndOf DEF Replies
  <2>3. \A t : Sets(t)' <=> Sets(t)
    BY DEF Sets
  <2>4. \A i \in Replies(inbox)' : Sets(inbox[i].task)' => Sets(inbox'[i].task)
    BY DEF Sets
  <2>5. SetsKept
    BY <1>3, <2>2, <2>3, <2>4 DEF SetsKept, Sets
  <2>6. ASSUME owner' # NoOne PROVE Scans' \subseteq Scans \union {Items(vals)}
    <3>1. Scans' = {inbox'[i].body : i \in {k \in Replies(inbox)' : tasks[inbox'[k].task].pc = "scanning"}}
             \union {tasks[ready[i].task].body :
                       i \in {k \in DOMAIN ready : tasks[ready[k].task].pc = "scanning"}}
      BY DEF Scans
    <3>2. \A i \in Replies(inbox)' : tasks[inbox'[i].task].pc = "scanning" =>
            inbox'[i].body = Items(vals) \/ inbox'[i].body \in Scans
      BY <1>3, <2>2, <2>6 DEF Scans
    <3> QED
      BY <3>1, <3>2 DEF Scans
  <2> QED
    BY <2>1, <2>5, <2>6
<1> QED
  BY <1>2, <1>3

LEMMA ToldKeep ==
    ASSUME BusInv, Shown, Written, UNCHANGED <<tasks, ready, lives, vals, cache, fetched, missed, owner, services>>,
           byName' = byName \/ owner = NoOne \/ (byName # lives /\ byName' # lives),
           \/ inbox' = inbox
           \/ \E m \in Message : /\ inbox' = Append(inbox, m) /\ m.what = "reply"
                                 /\ tasks[m.task].pc = "setting" => m.body = Error
                                 /\ owner # NoOne /\ tasks[m.task].pc = "scanning" => m.body = Items(vals)
    PROVE  Shown' /\ Written'
<1>1. /\ Signals(inbox)' = Signals(inbox) /\ SetsKept
      /\ owner' # NoOne => Scans' \subseteq Scans \union {Items(vals)}
  BY ToldAside
<1>2. Unaffected
  BY <1>1 DEF Unaffected
<1> QED
  BY <1>1, <1>2, UnaffectedShown, UnaffectedWritten

LEMMA RouteKeeps ==
    ASSUME BusInv, Shown, Written, Route
    PROVE  Shown' /\ Written'
<1> DEFINE msg == Head(outq)
           t == msg.task
<1>1. /\ UNCHANGED <<tasks, ready, lives, vals, cache, fetched, missed, owner, services, byName>>
      /\ outq # <<>> /\ outq \in Seq(Request) /\ Wire /\ owner \in Owned
  BY DEF Route, publisher, monitor, history, BusInv, BusTypes, Queues, Service
<1>2. msg \in Request /\ t \in Tasks /\ Asks(tasks[t].pc, msg.what)
  BY <1>1, TailOf, Shapes DEF Wire
<1>3. PICK body \in Body :
        \/ inbox' = inbox
        \/ /\ inbox' = Append(inbox, Answer(t, body))
           /\ \/ msg.what \in {"match", "unmatch", "names", "owner"}
              \/ owner = NoOne /\ body = Error
  <2>1. <<>> \in Body /\ Found(owner) \in Body /\ Error \in Body
    BY <1>1 DEF Body
  <2> QED
    BY <2>1 DEF Route
<1>4. Answer(t, body) \in Message /\ Answer(t, body).what = "reply" /\ Answer(t, body).task = t
      /\ Answer(t, body).body = body
  BY <1>2, Made DEF Answer
<1>5. msg.what \in {"match", "unmatch", "names", "owner"} => tasks[t].pc \notin {"setting", "scanning"}
  BY <1>2 DEF Asks
<1> DEFINE m == Answer(t, body)
<1>6. \/ inbox' = inbox
      \/ /\ inbox' = Append(inbox, m) /\ m \in Message /\ m.what = "reply"
         /\ tasks[m.task].pc = "setting" => m.body = Error
         /\ owner # NoOne /\ tasks[m.task].pc = "scanning" => m.body = Items(vals)
  BY <1>3, <1>4, <1>5
<1> HIDE DEF m
<1> QED
  BY <1>1, <1>6, ToldKeep

LEMMA AnswerGetKeeps ==
    ASSUME BusInv, BusTypes', Protocol, Shown, Written, AnswerGet
    PROVE  Shown' /\ Written'
<1> DEFINE call == Head(calls)
           t == call.task
           body == IF closing \/ call.what = "set" THEN Error
                   ELSE IF call.what = "items" THEN Items(vals)
                   ELSE Items([p \in {call.path} |-> vals[p]])
           m == Answer(t, body)
<1>1. /\ UNCHANGED <<tasks, ready, lives, vals, cache, fetched, missed, owner, services, byName>>
      /\ calls # <<>> /\ inbox' = Append(inbox, m) /\ inbox' \in Seq(Message) /\ inbox \in Seq(Message)
      /\ calls \in Seq(Request) /\ Wire
  BY DEF AnswerGet, publisher, monitor, history, BusInv, BusTypes, Queues
<1>2. call \in Request /\ t \in Tasks /\ Asks(tasks[t].pc, call.what) /\ call.what \in {"items", "get", "set"}
  BY <1>1, TailOf, Shapes DEF Wire
<1>3. m.what = "reply" /\ m.task = t /\ m.body = body
  BY DEF Answer
<1>4. m \in Message
  <2> HIDE DEF m
  <2>1. Len(inbox) + 1 \in DOMAIN inbox' /\ inbox'[Len(inbox) + 1] = m
    BY <1>1
  <2> QED
    BY <1>1, <2>1
<1>5. tasks[t].pc = "setting" => body = Error
  BY <1>2 DEF Asks
\* Nothing is unexported while the scan is under way.
<1>6. tasks[t].pc = "scanning" => ~closing /\ body = Items(vals)
  <2>1. ASSUME tasks[t].pc = "scanning" PROVE ~closing /\ call.what = "items"
    <3> DEFINE x == LabelOf("call", call, tasks)
    <3>1. call.what = "items" /\ t # 1 /\ tasks[t].conn \in Owned
      BY <1>2, <2>1 DEF Asks, Protocol, Strands, BusInv, BusTypes, Known, Task
    <3>2. x = TaskLabel("call", t, 0, tasks[t], <<>>)
      BY DEF LabelOf
    <3>3. x \in Labels(lanes)
      <4>1. 1 \in DOMAIN lanes["call"] /\ lanes["call"][1] = x
        <5>1. 1 \in 1..Len(calls) /\ calls[1] = call
          BY <1>1, TailOf
        <5> QED
          BY <5>1, LanesAre DEF Lane
      <4> QED
        BY <4>1 DEF Labels, Lanes
    <3>4. x = Tag("join", 9, tasks[t].conn)
      <4> DEFINE task == tasks[t]
      <4>1. x = TaskLabel("call", t, 0, task, <<>>) /\ t # 1 /\ task.pc = "scanning"
        BY <2>1, <3>1, <3>2
      <4> HIDE DEF x, t, task
      <4>2. x = Tag("join", 9, task.conn)
        BY ONLY <4>1 DEF TaskLabel, Stage
      <4> QED
        BY <4>2 DEF task
    <3> HIDE DEF x
    <3>5. x \in Joins
      BY <3>1, <3>3, <3>4, TagIs DEF Joins, Of, Kinds
    <3> QED
      BY <3>1, <3>5 DEF Protocol, Registry
  <2> QED
    BY <2>1
<1> HIDE DEF m
<1> QED
  BY <1>1, <1>3, <1>4, <1>5, <1>6, ToldKeep

LEMMA RestKeeps ==
    ASSUME BusInv, Protocol, Shown, Written, Close \/ WaitForService \/ UNCHANGED vars
    PROVE  Shown' /\ Written'
<1>1. UNCHANGED <<tasks, ready, lives, vals, cache, fetched, missed, owner, services, inbox>>
  BY DEF Close, WaitForService, vars, publisher, monitor, history
<1>2. CASE byName' = byName
  BY <1>1, <1>2, ToldKeep
<1>3. CASE byName' # byName
  <2>1. byName = Absent /\ byName' = Pending
    BY <1>3 DEF Close, WaitForService, vars, monitor
  <2>2. lives <= MaxLives /\ MaxLives \in Nat /\ lives \in Nat
    BY BusAssumption DEF BusInv, BusTypes, Service
  <2>3. lives # Pending
    BY <2>2 DEF Pending
  <2>4. CASE lives # Absent
    BY <1>1, <2>1, <2>3, <2>4, ToldKeep
  <2>5. CASE lives = Absent
    <3>1. owner = NoOne
      BY <2>5 DEF Protocol, Registry, Absent
    <3> QED
      BY <1>1, <3>1, ToldKeep
  <2> QED
    BY <2>4, <2>5
<1> QED
  BY <1>2, <1>3

LEMMA HopKeeps ==
    ASSUME BusInv, Shown, Written, Hop
    PROVE  Shown' /\ Written'
<1>1. /\ UNCHANGED <<tasks, lives, vals, cache, fetched, missed, owner, services, inbox, byName>>
      /\ ready \in Seq(Place) /\ ready # <<>>
      /\ ready' = Append(Tail(ready), Schedule(Head(ready).task, Head(ready).hops - 1))
  BY DEF Hop, publisher, monitor, history, BusInv, BusTypes, Queues
<1>2. ASSUME NEW i \in DOMAIN ready' PROVE \E k \in DOMAIN ready : ready'[i].task = ready[k].task
  <2> DEFINE q == Tail(ready)
             m == Schedule(Head(ready).task, Head(ready).hops - 1)
  <2>1. /\ q \in Seq(Place) /\ ready' = Append(q, m) /\ m.task = ready[1].task /\ 1 \in DOMAIN ready
        /\ \A k \in DOMAIN q : k + 1 \in DOMAIN ready /\ q[k] = ready[k + 1]
    BY <1>1, TailOf DEF Schedule
  <2>2. m \in Place
    <3>1. Head(ready) \in Place
      BY <1>1, TailOf
    <3>2. Head(ready).hops - 1 \in Nat
      <4>1. Head(ready).hops \in Nat /\ Head(ready).hops > 0
        BY <3>1 DEF Hop, Place
      <4> DEFINE k == Head(ready).hops
      <4>2. k \in Nat /\ k > 0
        BY <4>1
      <4> HIDE DEF k
      <4>3. k - 1 \in Nat
        BY ONLY <4>2
      <4> QED
        BY <4>3 DEF k
    <3> QED
      BY <3>1, <3>2 DEF Schedule, Place
  <2> HIDE DEF q, m
  <2>3. i \in DOMAIN q \/ i = Len(q) + 1
    BY <2>1, <2>2, EndOf
  <2>4. CASE i \in DOMAIN q
    BY <2>1, <2>2, <2>4, EndOf
  <2>5. CASE i = Len(q) + 1
    BY <2>1, <2>2, <2>5, EndOf
  <2> QED
    BY <2>3, <2>4, <2>5
<1>3. Scans' \subseteq Scans
  <2>1. Scans' = {inbox[i].body : i \in {k \in Replies(inbox) : tasks[inbox[k].task].pc = "scanning"}}
           \union {tasks[ready'[i].task].body :
                     i \in {k \in DOMAIN ready' : tasks[ready'[k].task].pc = "scanning"}}
    BY <1>1 DEF Scans, Replies
  <2>2. \A i \in DOMAIN ready' : tasks[ready'[i].task].pc = "scanning" => tasks[ready'[i].task].body \in Scans
    BY <1>2 DEF Scans
  <2> QED
    BY <2>1, <2>2 DEF Scans
<1>4. Signals(inbox)' = Signals(inbox) /\ SetsKept
  BY <1>1 DEF Signals, SetsKept, Sets, Replies
<1>5. Unaffected
  BY <1>1, <1>3, <1>4 DEF Unaffected
<1> QED
  BY <1>4, <1>5, UnaffectedShown, UnaffectedWritten

\* The calls that wait at a process that ends are answered with an error.
LEMMA LeaveKeeps ==
    ASSUME BusInv, Shown, Written, Leave
    PROVE  Shown' /\ Written'
<1> DEFINE m == Owners(owner, NoOne)
           q == Append(inbox, m)
           n == Len(calls)
           r == [i \in 1..n |-> Answer(calls[i].task, Error)]
<1>1. /\ owner' = NoOne /\ inbox' = inbox \o <<m>> \o r
      /\ UNCHANGED <<tasks, ready, lives, vals, cache, fetched, missed, services, byName>>
      /\ inbox \in Seq(Message) /\ calls \in Seq(Request) /\ owner \in Owned
  BY DEF Leave, monitor, BusInv, BusTypes, Queues, Service
<1>2. n \in Nat /\ \A i \in 1..n : calls[i].task \in Tasks
  BY <1>1, Shapes
<1>3. m \in Message /\ m.what = "owner"
  BY <1>1, Made DEF Owned, Owners
<1>4. \A i \in 1..n : r[i] \in Message /\ r[i].what = "reply" /\ r[i].body = Error
  BY <1>2, Made DEF Answer, Body
<1>5. r \in Seq(Message) /\ Len(r) = n
  BY <1>2, <1>4
<1>6. inbox' = q \o r /\ q \in Seq(Message)
  <2> HIDE DEF m, r
  <2> QED
    BY <1>1, <1>3, <1>5
<1>7. /\ \A i \in DOMAIN inbox : i \in DOMAIN q /\ q[i] = inbox[i]
      /\ \A i \in DOMAIN q : (i \in DOMAIN inbox /\ q[i] = inbox[i]) \/ q[i].what = "owner"
  <2> HIDE DEF m
  <2> QED
    BY <1>1, <1>3, EndOf
<1> HIDE DEF m, q, r, n
<1>8. /\ \A i \in DOMAIN q : i \in DOMAIN inbox' /\ inbox'[i] = q[i]
      /\ \A i \in DOMAIN inbox' : \/ i \in DOMAIN q /\ inbox'[i] = q[i]
                                  \/ inbox'[i].what = "reply" /\ inbox'[i].body = Error
  <2>1. /\ \A i \in DOMAIN inbox' :
             \/ i \in DOMAIN q /\ inbox'[i] = q[i]
             \/ i - Len(q) \in 1..n /\ inbox'[i] = r[i - Len(q)]
        /\ \A i \in DOMAIN q : i \in DOMAIN inbox' /\ inbox'[i] = q[i]
    BY <1>2, <1>5, <1>6
  <2> QED
    BY <1>4, <2>1
<1>9. /\ \A i \in DOMAIN inbox : i \in DOMAIN inbox' /\ inbox'[i] = inbox[i]
      /\ \A i \in DOMAIN inbox' : \/ i \in DOMAIN inbox /\ inbox'[i] = inbox[i]
                                  \/ inbox'[i].what = "owner"
                                  \/ inbox'[i].what = "reply" /\ inbox'[i].body = Error
  BY <1>7, <1>8
<1>10. Signals(inbox)' = Signals(inbox)
  BY <1>9 DEF Signals
<1>11. SetsKept
  <2>1. \A i \in Replies(inbox)' : (i \in Replies(inbox) /\ inbox'[i] = inbox[i]) \/ inbox'[i].body = Error
    BY <1>9 DEF Replies
  <2>2. \A t : Sets(t)' <=> Sets(t)
    BY <1>1 DEF Sets
  <2>3. \A i : Sets(inbox[i].task)' <=> Sets(inbox'[i].task)
    BY <1>1 DEF Sets
  <2> QED
    BY <1>1, <2>1, <2>2, <2>3 DEF SetsKept
<1>12. Unaffected
  BY <1>1, <1>10 DEF Unaffected
<1> QED
  BY <1>11, <1>12, UnaffectedShown, UnaffectedWritten

\* A task is started, or goes on with its answer.
LEMMA ResumeKeeps ==
    ASSUME BusInv, Shown, Written, NEW t \in Tasks, NEW x \in Task, tasks' = [tasks EXCEPT ![t] = x],
           UNCHANGED <<owner, lives, vals, cache, fetched, missed, services, byName>>,
           \/ inbox' = inbox
           \/ inbox # <<>> /\ inbox' = Tail(inbox) /\ Head(inbox).what # "signal",
           ready' = ready \/ \E m \in Place : m.task = t /\ ready' = Append(ready, m),
           t \notin Holders(ready), t \notin Answered(inbox'),
           x.pc = "scanning" => x.body \in Scans,
           x.pc = "setting" /\ x.conn = lives => Sets(t) \/ byName = lives,
           x.pc \in {"setting", "set"} /\ x.conn = lives /\ x.body \notin {<<>>, Error} =>
             \A p \in DOMAIN x.body[2] \ fetched : Shows(p, x.body[2][p])
    PROVE  Shown' /\ Written'
<1>1. /\ tasks \in [Tasks -> Task] /\ ready \in Seq(Place) /\ inbox \in Seq(Message)
      /\ tasks'[t] = x /\ (\A u \in Tasks : u # t => tasks'[u] = tasks[u])
  BY DEF BusInv, BusTypes, Queues, Known
<1>2. /\ inbox' \in Seq(Message) /\ Signals(inbox)' = Signals(inbox)
      /\ \A i \in DOMAIN inbox' : \E k \in DOMAIN inbox : inbox[k] = inbox'[i]
  <2>1. CASE inbox' = inbox
    BY <1>1, <2>1 DEF Signals
  <2>2. CASE inbox # <<>> /\ inbox' = Tail(inbox) /\ Head(inbox).what # "signal"
    <3> DEFINE q == Tail(inbox)
    <3>1. /\ q \in Seq(Message) /\ inbox' = q
          /\ \A i \in DOMAIN q : i + 1 \in DOMAIN inbox /\ inbox[i + 1] = q[i]
      BY <1>1, <2>2, TailOf
    <3>2. Signals(inbox) = Signals(q) \union (IF Head(inbox).what = "signal" THEN {Head(inbox)} ELSE {})
      BY <1>1, <2>2, SignalsTaken
    <3> HIDE DEF q
    <3>3. Signals(inbox) = Signals(q)
      BY <2>2, <3>2
    <3>4. Signals(inbox)' = Signals(q)
      BY <3>1 DEF Signals
    <3> QED
      BY <3>1, <3>3, <3>4
  <2> QED
    BY <2>1, <2>2
<1>3. ASSUME NEW i \in Replies(inbox)'
      PROVE  /\ tasks'[inbox'[i].task] = tasks[inbox'[i].task] /\ inbox'[i].task \in Tasks
             /\ \E k \in Replies(inbox) : inbox[k] = inbox'[i]
  <2>1. i \in DOMAIN inbox' /\ inbox'[i].what = "reply" /\ inbox'[i] \in Message
    BY <1>2 DEF Replies
  <2>2. inbox'[i].task \in Tasks
    BY <2>1, Shapes
  <2>3. inbox'[i].task # t
    BY <2>1 DEF Answered, Replies
  <2> QED
    BY <1>1, <1>2, <2>1, <2>2, <2>3 DEF Replies
<1>4. ASSUME NEW i \in DOMAIN ready'
      PROVE  \/ ready'[i].task = t
             \/ \E k \in DOMAIN ready : ready[k] = ready'[i] /\ tasks'[ready[k].task] = tasks[ready[k].task]
  <2>1. ready'[i].task = t \/ (i \in DOMAIN ready /\ ready'[i] = ready[i])
    <3>1. CASE ready' = ready
      BY <3>1
    <3>2. ASSUME NEW m \in Place, m.task = t, ready' = Append(ready, m)
          PROVE  ready'[i].task = t \/ (i \in DOMAIN ready /\ ready'[i] = ready[i])
      <4>1. i \in DOMAIN ready \/ i = Len(ready) + 1
        BY <1>1, <3>2, EndOf
      <4> QED
        BY <1>1, <3>2, <4>1, EndOf
    <3> QED
      BY <3>1, <3>2
  <2>2. ASSUME i \in DOMAIN ready, ready'[i] = ready[i] PROVE tasks'[ready[i].task] = tasks[ready[i].task]
    <3>1. ready[i] \in Place /\ ready[i].task \in Holders(ready)
      BY <1>1, <2>2 DEF Holders
    <3> QED
      BY <1>1, <3>1 DEF Place
  <2> QED
    BY <2>1, <2>2
<1>5. Scans' \subseteq Scans
  <2>1. \A i \in Replies(inbox)' : tasks'[inbox'[i].task].pc = "scanning" => inbox'[i].body \in Scans
    BY <1>3 DEF Scans
  <2>2. \A i \in DOMAIN ready' : tasks'[ready'[i].task].pc = "scanning" => tasks'[ready'[i].task].body \in Scans
    <3>1. ASSUME NEW i \in DOMAIN ready', tasks'[ready'[i].task].pc = "scanning"
          PROVE  tasks'[ready'[i].task].body \in Scans
      <4>1. CASE ready'[i].task = t
        BY <1>1, <3>1, <4>1
      <4>2. ASSUME NEW k \in DOMAIN ready, ready[k] = ready'[i], tasks'[ready[k].task] = tasks[ready[k].task]
            PROVE  tasks'[ready'[i].task].body \in Scans
        BY <3>1, <4>2 DEF Scans
      <4> QED
        BY <1>4, <4>1, <4>2
    <3> QED
      BY <3>1
  <2>3. Scans' = {inbox'[i].body : i \in {k \in Replies(inbox)' : tasks'[inbox'[k].task].pc = "scanning"}}
           \union {tasks'[ready'[i].task].body :
                     i \in {k \in DOMAIN ready' : tasks'[ready'[k].task].pc = "scanning"}}
    BY DEF Scans
  <2> QED
    BY <2>1, <2>2, <2>3
<1>6. SetsKept
  <2>1. \A u \in Tasks : Sets(u)' => Sets(u) \/ byName = lives
    BY <1>1 DEF Sets
  <2>2. ASSUME NEW i \in Replies(inbox)', Sets(inbox[i].task)'
        PROVE  \E k \in Replies(inbox) : inbox[k] = inbox'[i] /\ Sets(inbox[k].task)
    BY <1>3, <2>2 DEF Sets
  <2>3. ASSUME NEW u \in Tasks, tasks'[u].conn = lives, tasks'[u].pc \in {"setting", "set"},
               tasks'[u].body \notin {<<>>, Error}
        PROVE  \/ tasks[u].conn = lives /\ tasks[u].pc \in {"setting", "set"} /\ tasks[u].body = tasks'[u].body
               \/ \A p \in DOMAIN tasks'[u].body[2] \ fetched : Shows(p, tasks'[u].body[2][p])
    BY <1>1, <2>3
  <2> QED
    BY <2>1, <2>2, <2>3 DEF SetsKept
<1>7. Unaffected
  BY <1>2, <1>5 DEF Unaffected
<1> QED
  BY <1>6, <1>7, UnaffectedShown, UnaffectedWritten

LEMMA CallKeeps ==
    ASSUME BusInv, Shown, Written, NEW t \in Tasks, NEW p \in Paths, NEW what \in {"get", "set"}, Call(t, p, what)
    PROVE  Shown' /\ Written'
<1> DEFINE x == [NoTask EXCEPT !.conn = byName, !.pc = IF what = "get" THEN "getting" ELSE "setting"]
<1>1. /\ BusTypes /\ Wire /\ byName \in Conns /\ tasks[t].pc = "none" /\ tasks' = [tasks EXCEPT ![t] = x]
      /\ UNCHANGED <<owner, lives, vals, cache, fetched, missed, services, byName, inbox, ready>>
  BY DEF Call, Free, BusInv, publisher, daemon, monitor, history
<1>2. x \in Task /\ x.body = <<>> /\ x.pc \in {"getting", "setting"} /\ x.conn = byName
  BY <1>1 DEF NoTask, Task, Pcs, Asking, Owned, Body
<1> HIDE DEF x
<1>3. t \notin Holders(ready) /\ t \notin Answered(inbox)
  <2>1. tasks[t].pc \notin Running \union Asking
    BY <1>1 DEF Running, Asking
  <2> QED
    BY <1>1, <2>1, IdleHoldsNothing
<1>4. /\ t \notin Answered(inbox') /\ x.pc # "scanning" /\ x.body \in {<<>>, Error}
      /\ x.pc = "setting" /\ x.conn = lives => byName = lives
  BY <1>1, <1>2, <1>3
<1> QED
  BY <1>1, <1>2, <1>3, <1>4, ResumeKeeps

LEMMA ReadOwnerKeeps ==
    ASSUME BusInv, Shown, Written, Read, Head(inbox).what = "owner"
    PROVE  Shown' /\ Written'
<1> DEFINE msg == Head(inbox)
           x == IF msg.new = NoOne THEN [NoTask EXCEPT !.pc = "remove", !.conn = msg.old]
                ELSE [NoTask EXCEPT !.pc = "add", !.conn = msg.new]
<1>1. /\ BusTypes /\ Wire /\ Once /\ inbox # <<>> /\ inbox' = Tail(inbox) /\ inbox \in Seq(Message)
      /\ UNCHANGED <<owner, lives, vals, fetched, missed, services, byName>>
  BY DEF Read, BusInv, BusTypes, Queues, publisher, history
<1>2. PICK t \in Tasks : Free(t) /\ tasks' = [tasks EXCEPT ![t] = x] /\ ready' = Append(ready, Schedule(t, 0))
                         /\ cache' = cache
  BY DEF Read
<1>3. msg.old \in Owned /\ msg.new \in Owned
  BY <1>1, TailOf, Shapes
<1>4. x \in Task /\ x.pc \in {"add", "remove"}
  BY <1>3 DEF NoTask, Task, Body, Pcs, Running
<1> HIDE DEF x
<1>5. t \notin Holders(ready) /\ t \notin Answered(inbox')
  <2>1. tasks[t].pc \notin Running \union Asking
    BY <1>2 DEF Free, Running, Asking
  <2>2. Answered(Tail(inbox)) \subseteq Answered(inbox)
    BY <1>1, ReplyTail DEF Once
  <2> QED
    BY <1>1, <2>1, <2>2, IdleHoldsNothing
<1>6. \E m \in Place : m.task = t /\ ready' = Append(ready, m)
  BY <1>2, Made DEF Schedule
<1>7. x.pc \notin {"scanning", "setting", "set"} /\ Head(inbox).what # "signal"
  BY <1>4
<1> QED
  BY <1>1, <1>2, <1>4, <1>5, <1>6, <1>7, ResumeKeeps

\* No signal overtakes the answer to a write: what that promises is shown
\* already when the answer is read.
LEMMA ReadReplyKeeps ==
    ASSUME BusInv, Shown, Written, Read, Head(inbox).what = "reply"
    PROVE  Shown' /\ Written'
<1> DEFINE msg == Head(inbox)
           t == msg.task
           x == [tasks[t] EXCEPT !.body = msg.body]
           m == Schedule(t, IF tasks[t].pc \in Gathers THEN 2 ELSE 0)
<1>1. /\ BusTypes /\ Wire /\ Once /\ Fresh /\ inbox # <<>> /\ inbox' = Tail(inbox) /\ inbox \in Seq(Message)
      /\ UNCHANGED <<owner, lives, vals, fetched, missed, services, byName>>
      /\ tasks \in [Tasks -> Task]
  BY DEF Read, BusInv, BusTypes, Queues, Known, publisher, history
<1>2. tasks' = [tasks EXCEPT ![t] = x] /\ ready' = Append(ready, m) /\ cache' = cache
  BY DEF Read
<1>3. 1 \in Replies(inbox) /\ inbox[1] = msg /\ msg \in Message /\ 1 \in DOMAIN inbox
  BY <1>1, TailOf DEF Replies
<1>4. t \in Tasks /\ msg.body \in Body /\ tasks[t] \in Task /\ Fits(tasks[t].pc, msg.body)
  BY <1>1, <1>3, Shapes DEF Wire
<1>5. x \in Task /\ x.pc = tasks[t].pc /\ x.conn = tasks[t].conn /\ x.body = msg.body
  BY <1>4 DEF Task
<1>6. m \in Place /\ m.task = t
  BY <1>4, Made DEF Schedule
<1> HIDE DEF x, m
<1>7. t \notin Holders(ready) /\ t \notin Answered(inbox')
  <2>1. t \in Answered(inbox) /\ t \notin Answered(Tail(inbox))
    BY <1>1, ReplyTail DEF Once
  <2> QED
    BY <1>1, <2>1 DEF Once
<1>8. x.pc = "scanning" => x.body \in Scans
  BY <1>3, <1>5 DEF Scans
<1>9. x.pc = "setting" /\ x.conn = lives => Sets(t)
  BY <1>5 DEF Sets
<1>10. ASSUME x.pc \in {"setting", "set"}, x.conn = lives, x.body \notin {<<>>, Error},
              NEW p \in DOMAIN x.body[2] \ fetched
       PROVE  Shows(p, x.body[2][p])
  <2>1. tasks[t].pc = "setting" /\ Sets(t)
    BY <1>4, <1>5, <1>10 DEF Fits, Gathers, Sets
  <2>2. Shows(p, msg.body[2][p]) \/ msg.body[2][p] \in News(p)
    BY <1>3, <1>5, <1>10, <2>1 DEF Written, Promised
  <2>3. ASSUME msg.body[2][p] \in News(p) PROVE FALSE
    <3>1. PICK k \in DOMAIN inbox : Announces(inbox[k], p) /\ inbox[k].items[p] = msg.body[2][p]
      BY <2>3 DEF News
    <3>2. inbox[k].what = "signal" /\ inbox[k].items[p] \in Carried(inbox[k])
      BY <3>1 DEF Announces, Carried
    <3>3. PICK f \in Changes : msg.body = Items(f)
      BY <1>4, <1>5, <1>10, <2>1 DEF Fits, Gathers
    <3>4. msg.body[2][p] \in Carried(msg) /\ msg.body[2][p] \in Nat
      <4>1. msg.body[2] = f /\ p \in DOMAIN f /\ f[p] \in Nat
        BY <1>5, <1>10, <3>3 DEF Items, Changes
      <4>2. Carried(msg) = {f[r] : r \in DOMAIN f}
        BY <3>3, HeldNumbers DEF Carried
      <4> QED
        BY <4>1, <4>2
    <3>5. 1 < k
      <4>1. k # 1
        BY <1>3, <3>2
      <4>2. k \in 1..Len(inbox) /\ Len(inbox) \in Nat
        BY <1>1
      <4> QED
        BY <4>1, <4>2
    <3>6. msg.body[2][p] < inbox[k].items[p]
      BY <1>1, <1>3, <3>2, <3>4, <3>5 DEF Fresh, Rising
    <3> DEFINE v == msg.body[2][p]
    <3>7. v \in Nat /\ v < v
      BY <3>1, <3>4, <3>6
    <3> HIDE DEF v
    <3> QED
      BY <3>7
  <2> QED
    BY <1>5, <2>2, <2>3
<1>11. Head(inbox).what # "signal" /\ \E e \in Place : e.task = t /\ ready' = Append(ready, e)
  BY <1>2, <1>6
<1> HIDE DEF t
<1> QED
  BY <1>1, <1>2, <1>4, <1>5, <1>7, <1>8, <1>9, <1>10, <1>11, ResumeKeeps

-----------------------------------------------------------------------------
(* Steps that change the cache or bring news.                              *)

\* What a task that sets a value has been told.
Listens(task) ==
    /\ task.pc = "set" => task.body = Error \/ \E f \in Changes : task.body = Items(f)
    /\ task.pc = "setting" => task.body \in {<<>>, Error} \/ \E f \in Changes : task.body = Items(f)
Answers == \A t \in Tasks : Listens(tasks[t])

LEMMA AnswersRan ==
    ASSUME BusInv, Answers, NEW t \in Tasks, NEW x, Ran(t, x), x.pc # "setting",
           x.pc = "set" => tasks[t].pc = "setting" /\ x.body = tasks[t].body
    PROVE  Answers'
<1>1. /\ ready \in Seq(Place) /\ ready # <<>> /\ Head(ready) = Schedule(t, 0) /\ Wire
      /\ tasks \in [Tasks -> Task] /\ tasks' = [tasks EXCEPT ![t] = x]
  BY DEF BusInv, BusTypes, Queues, Known, Ran
<1>2. tasks'[t] = x /\ \A u \in Tasks : u # t => tasks'[u] = tasks[u]
  BY <1>1
<1>3. x.pc = "set" => Fits("setting", x.body)
  <2>1. 1 \in DOMAIN ready /\ ready[1].task = t
    BY <1>1, TailOf DEF Schedule
  <2> QED
    BY <1>1, <2>1 DEF Wire, Running
<1>4. Listens(x)
  BY <1>3 DEF Listens, Fits, Gathers
<1>5. \A u \in Tasks : Listens(tasks'[u])
  BY <1>2, <1>4 DEF Answers
<1> QED
  BY <1>5 DEF Answers, Listens

\* What scans and fetches do beside the cache.
LEMMA CacheErrands ==
    ASSUME BusInv, NEW t \in Tasks
    PROVE  /\ Fetched(t) => Ran(t, At(t, "got"))
           /\ Scanned(t) => Ran(t, At(t, "done")) \/ Ran(t, At(t, "undo"))
<1>1. BusTypes
  BY DEF BusInv
<1>2. ASSUME Fetched(t) PROVE Ran(t, At(t, "got"))
  <2>1. Runs(t, "getting") /\ Goes(t, "got") /\ outq' = outq /\ UNCHANGED <<inbox, calls>>
    BY <1>2 DEF Fetched, daemon
  <2> QED
    BY <1>1, <2>1, Going DEF Pcs
<1>3. ASSUME Scanned(t) PROVE Ran(t, At(t, "done")) \/ Ran(t, At(t, "undo"))
  <2>1. PICK pc : Runs(t, pc) /\ (Goes(t, "done") \/ GoesOn(t, "undo"))
    BY <1>3 DEF Scanned
  <2>2. outq' = outq /\ UNCHANGED <<inbox, calls>>
    BY <1>3 DEF Scanned, daemon
  <2> QED
    BY <1>1, <2>1, <2>2, Going DEF Pcs, Running
<1> QED
  BY <1>2, <1>3

LEMMA AnswersNext ==
    ASSUME BusInv, Answers, [Next]_vars
    PROVE  Answers'
<1>1. /\ BusTypes /\ Wire /\ tasks \in [Tasks -> Task]
  BY DEF BusInv, BusTypes, Known
<1>2. CASE tasks' = tasks
  BY <1>2 DEF Answers, Listens
<1>3. ASSUME NEW t \in Tasks, NEW x, tasks' = [tasks EXCEPT ![t] = x], Listens(x) PROVE Answers'
  <2>1. \A u \in Tasks : Listens(tasks'[u])
    BY <1>1, <1>3 DEF Answers
  <2> QED
    BY <2>1 DEF Answers, Listens
<1>4. ASSUME NEW t \in Tasks, NEW pc \in Pcs \ {"setting", "set"}, Ran(t, At(t, pc)) PROVE Answers'
  <2>1. pc \in Pcs /\ pc \notin {"setting", "set"}
    OBVIOUS
  <2>2. At(t, pc).pc = pc
    BY <1>1, <2>1, AtIs
  <2> QED
    BY <1>4, <2>1, <2>2, AnswersRan
<1>5. ASSUME NEW t \in Tasks, Fetched(t) \/ Scanned(t) PROVE Answers'
  <2>1. {"got", "done", "undo"} \subseteq Pcs \ {"setting", "set"}
    BY DEF Pcs, Running
  <2> QED
    BY <1>4, <1>5, <2>1, CacheErrands
<1>6. ASSUME NEW t \in Tasks,
             \/ ListServices(t) \/ AddService(t) \/ SendMatches(t) \/ Scan(t) \/ RemoveService(t)
             \/ Removed(t) \/ SetDone(t)
      PROVE  Answers'
  BY <1>6, Errands, AnswersRan
<1>7. ASSUME NEW t \in Tasks, NEW p \in Paths, NEW what \in {"get", "set"}, Call(t, p, what) PROVE Answers'
  <2> DEFINE x == [NoTask EXCEPT !.conn = byName, !.pc = IF what = "get" THEN "getting" ELSE "setting"]
  <2>1. tasks' = [tasks EXCEPT ![t] = x]
    BY <1>7 DEF Call
  <2>2. x.pc \in {"getting", "setting"} /\ x.body = <<>>
    BY DEF NoTask
  <2> HIDE DEF x
  <2>3. Listens(x)
    BY <2>2 DEF Listens
  <2> QED
    BY <1>3, <2>1, <2>3
<1>8. CASE Read
  <2> DEFINE msg == Head(inbox)
  <2>1. /\ msg \in Message /\ 1 \in DOMAIN inbox /\ inbox[1] = msg
    BY <1>1, <1>8, TailOf DEF Read, BusTypes, Queues
  <2>2. CASE msg.what = "signal"
    BY <1>2, <1>8, <2>2 DEF Read
  <2>3. CASE msg.what = "owner"
    <3> DEFINE x == IF msg.new = NoOne THEN [NoTask EXCEPT !.pc = "remove", !.conn = msg.old]
                    ELSE [NoTask EXCEPT !.pc = "add", !.conn = msg.new]
    <3>1. PICK t \in Tasks : tasks' = [tasks EXCEPT ![t] = x]
      BY <1>8, <2>3 DEF Read
    <3>2. x.pc \in {"add", "remove"}
      BY DEF NoTask
    <3> HIDE DEF x
    <3>3. Listens(x)
      BY <3>2 DEF Listens
    <3> QED
      BY <1>3, <3>1, <3>3
  <2>4. CASE msg.what = "reply"
    <3> DEFINE t == msg.task
               x == [tasks[t] EXCEPT !.body = msg.body]
    <3>1. tasks' = [tasks EXCEPT ![t] = x]
      BY <1>8, <2>4 DEF Read
    <3>2. t \in Tasks /\ Fits(tasks[t].pc, msg.body)
      BY <1>1, <2>1, <2>4, Shapes DEF Wire, Replies
    <3>3. x.pc = tasks[t].pc /\ x.body = msg.body
      BY <1>1, <3>2 DEF Task
    <3> HIDE DEF x
    <3>4. Listens(x)
      BY <3>2, <3>3 DEF Listens, Fits, Gathers
    <3> QED
      BY <1>3, <3>1, <3>2, <3>4
  <2> QED
    BY <1>8, <2>2, <2>3, <2>4 DEF Read
<1>9. CASE \/ Register \/ Close \/ Leave \/ AnswerSet \/ AnswerGet \/ Route \/ Hop \/ WaitForService
           \/ \E S \in SUBSET Paths \ {{}} : Write(S)
  BY <1>2, <1>9 DEF Register, Close, Leave, AnswerSet, AnswerGet, Route, Hop, WaitForService, Write
<1>10. CASE UNCHANGED vars
  BY <1>2, <1>10 DEF vars
<1> QED
  BY <1>5, <1>6, <1>7, <1>8, <1>9, <1>10 DEF Next

\* The cache has not gone back, and what promised something is shown or
\* still on its way.
LEMMA GrownWritten ==
    ASSUME BusInv, BusTypes', Protocol, Written, Answers', lives' = lives, fetched \subseteq fetched',
           owner' # NoOne => owner # NoOne /\ (byName = lives => byName' = lives),
           \A p \in Paths \ fetched' : lives \in Conns => cache'[lives][p].value >= cache[lives][p].value,
           owner = NoOne \/ byName = lives =>
             \A p \in Paths : \A v \in News(p) : v \in News(p)' \/ Shows(p, v)',
           \A t \in Tasks : Sets(t)' => Sets(t),
           \A i \in Replies(inbox)' : Sets(inbox[i].task)' /\ inbox'[i].body # Error =>
             \/ \E k \in Replies(inbox) : inbox[k] = inbox'[i] /\ Sets(inbox[k].task)
             \/ \A p \in DOMAIN inbox'[i].body[2] : inbox'[i].body[2][p] \in News(p)',
           \A t \in Tasks : tasks'[t].pc \in {"setting", "set"} /\ tasks'[t].conn = lives =>
             /\ tasks[t].conn = lives /\ tasks[t].pc \in {"setting", "set"}
             /\ tasks[t].body = tasks'[t].body
    PROVE  Written'
<1>1. ASSUME NEW p \in Paths \ fetched', NEW v \in Nat, lives \in Conns, Shows(p, v)
      PROVE  Shows(p, v)'
  <2>1. cache'[lives][p].value >= cache[lives][p].value /\ cache[lives][p].value >= v /\ lives' = lives
    BY <1>1 DEF Shows
  <2>2. cache'[lives][p].value \in Nat /\ cache[lives][p].value \in Nat
    BY <1>1 DEF BusInv, BusTypes, Known
  <2> DEFINE a == cache'[lives][p].value
             b == cache[lives][p].value
  <2>3. a >= b /\ b >= v /\ a \in Nat /\ b \in Nat
    BY <2>1, <2>2
  <2> HIDE DEF a, b
  <2>4. a >= v
    BY ONLY <1>1, <2>3
  <2> QED
    BY <2>1, <2>4 DEF Shows, a
<1>2. ASSUME NEW f \in Changes, NEW p \in DOMAIN f PROVE p \in Paths /\ f[p] \in Nat
  BY <1>2 DEF Changes
<1>3. \A t \in Tasks : tasks[t].pc \in {"setting", "set"} /\ tasks[t].conn = lives => lives \in Conns
  BY DEF Protocol, Strands, BusInv, BusTypes, Known, Task, Owned
<1>4. Addressed'
  BY DEF Addressed, Written
<1>5. Promised'
  <2>1. ASSUME NEW i \in Replies(inbox)', Sets(inbox[i].task)', inbox'[i].body # Error,
               NEW p \in DOMAIN inbox'[i].body[2] \ fetched'
        PROVE  Shows(p, inbox[i].body[2][p])' \/ inbox'[i].body[2][p] \in News(p)'
    <3>1. CASE \A r \in DOMAIN inbox'[i].body[2] : inbox'[i].body[2][r] \in News(r)'
      BY <2>1, <3>1
    <3>2. ASSUME NEW k \in Replies(inbox), inbox[k] = inbox'[i], Sets(inbox[k].task)
          PROVE  Shows(p, inbox[i].body[2][p])' \/ inbox'[i].body[2][p] \in News(p)'
      <4> DEFINE m == inbox[k]
      <4>1. m.task \in Tasks /\ Fits("setting", m.body) /\ tasks[m.task].conn = lives /\ tasks[m.task].pc = "setting"
        BY <3>2, Shapes DEF BusInv, BusTypes, Queues, Wire, Replies, Sets
      <4>2. PICK f \in Changes : m.body = Items(f)
        BY <2>1, <3>2, <4>1 DEF Fits, Gathers
      <4>3. p \in DOMAIN f \ fetched' /\ m.body[2][p] = f[p]
        BY <2>1, <3>2, <4>2 DEF Items
      <4>4. Shows(p, f[p]) \/ f[p] \in News(p)
        BY <2>1, <3>2, <4>3 DEF Promised, Written
      <4>5. lives \in Conns /\ p \in Paths \ fetched' /\ f[p] \in Nat
        BY <1>2, <1>3, <4>1, <4>3
      <4>6. owner = NoOne \/ byName = lives
        BY <3>2, <4>1 DEF Addressed, Written
      <4>7. Shows(p, f[p])' \/ f[p] \in News(p)'
        BY <1>1, <4>4, <4>5, <4>6
      <4>8. inbox'[i].body[2][p] = f[p]
        BY <3>2, <4>3
      <4> QED
        BY <4>7, <4>8 DEF Shows
    <3> QED
      BY <2>1, <3>1, <3>2
  <2> QED
    BY <2>1 DEF Promised
<1>6. ReadBack'
  <2>1. ASSUME NEW t \in Tasks, tasks'[t].conn = lives', tasks'[t].pc \in {"setting", "set"},
               tasks'[t].body \notin {<<>>, Error}, NEW p \in DOMAIN tasks'[t].body[2] \ fetched'
        PROVE  Shows(p, tasks[t].body[2][p])'
    <3>1. /\ tasks[t].conn = lives /\ tasks[t].pc \in {"setting", "set"} /\ tasks[t].body = tasks'[t].body
      BY <2>1
    <3>2. Listens(tasks'[t])
      BY DEF Answers, Listens
    <3>3. PICK f \in Changes : tasks'[t].body = Items(f)
      BY <2>1, <3>2 DEF Listens
    <3>4. p \in DOMAIN f \ fetched' /\ tasks'[t].body[2][p] = f[p] /\ tasks[t].body[2][p] = f[p]
      BY <2>1, <3>1, <3>3 DEF Items
    <3>5. Shows(p, f[p])
      <4>1. p \in DOMAIN tasks[t].body[2] \ fetched /\ tasks[t].body \notin {<<>>, Error}
        BY <2>1, <3>1
      <4>2. Shows(p, tasks[t].body[2][p])
        BY <3>1, <4>1 DEF ReadBack, Written
      <4> QED
        BY <3>4, <4>2
    <3>6. lives \in Conns /\ p \in Paths \ fetched' /\ f[p] \in Nat
      BY <1>2, <1>3, <3>1, <3>4
    <3>7. Shows(p, f[p])'
      BY <1>1, <3>5, <3>6
    <3> QED
      BY <3>4, <3>7 DEF Shows
  <2> QED
    BY <2>1 DEF ReadBack
<1> QED
  BY <1>4, <1>5, <1>6 DEF Written

\* The scan of the present process fills in what is unseen.
LEMMA ScannedKeeps ==
    ASSUME BusInv, BusTypes', Protocol, Shown, Written, Answers', NEW t \in Tasks, Scanned(t)
    PROVE  Shown' /\ Written'
<1> DEFINE x == At(t, "done")
<1>1. /\ Runs(t, "scanning") /\ tasks[t].body # Error /\ tasks[t].conn = lives
      /\ owner # NoOne /\ byName # lives /\ byName' = lives /\ lives \in services
      /\ lives \in Conns
  <2>1. /\ Runs(t, "scanning") /\ tasks[t].body # Error /\ tasks[t].conn = lives
        /\ owner # NoOne /\ byName \in {Absent, Pending} /\ byName' = lives /\ lives \in services
    BY ScannedCalm
  <2>2. owner = lives /\ lives # Pending /\ BusTypes
    BY <2>1, PartedIs DEF BusInv, Protocol
  <2>3. lives \in Conns
    BY <2>1, <2>2 DEF BusTypes, Service, Owned
  <2> QED
    BY <2>1, <2>2, <2>3 DEF Absent
<1>2. /\ UNCHANGED <<owner, lives, vals, services, fetched, missed, inbox, calls, outq>>
      /\ Goes(t, "done") /\ cache' = UpdatedUnseen(tasks[t].body[2], lives)
      /\ BusTypes /\ Wire /\ Next
  <2>1. Goes(t, "done") /\ cache' = UpdatedUnseen(tasks[t].body[2], lives)
    BY <1>1 DEF Scanned, Runs
  <2> QED
    BY <2>1 DEF Scanned, Next, publisher, daemon, history, BusInv
<1>3. Ran(t, x) /\ x.pc = "done"
  BY <1>1, <1>2, Going, AtIs DEF Pcs
<1>4. Scans' \subseteq Scans /\ Signals(inbox)' = Signals(inbox) /\ SetsKept
  <2> HIDE DEF x
  <2> QED
    BY <1>2, <1>3, RanAside
<1>5. \A p : News(p)' = News(p)
  BY <1>2, <1>4, NewsAre
<1>6. PICK f \in [Paths -> Nat] : tasks[t].body = Items(f)
  <2>1. Fits("scanning", tasks[t].body)
    BY <1>1, <1>2, TakenFits DEF Running
  <2> QED
    BY <1>1, <2>1 DEF Fits, Gathers
<1>7. tasks[t].body \in Scans /\ tasks[t].body[2] = f
  <2>1. 1 \in DOMAIN ready /\ ready[1].task = t /\ tasks[t].pc = "scanning"
    BY <1>1, <1>2, TailOf DEF BusTypes, Queues, Runs, Schedule
  <2> QED
    BY <1>6, <2>1 DEF Scans, Items
<1>8. /\ \A c \in Conns : c # lives => cache'[c] = cache[c]
      /\ \A p \in Paths : cache'[lives][p] =
           IF ~cache[lives][p].seen THEN [value |-> f[p], seen |-> TRUE] ELSE cache[lives][p]
  BY <1>1, <1>2, <1>7 DEF UpdatedUnseen, BusTypes, Known
<1>9. Shown'
  <2>1. \A c \in Conns : c > lives' => cache'[c] = Unseen
    <3>1. \A c \in Conns : c > lives => c # lives
      BY <1>2 DEF BusTypes, Service, Conns
    <3> QED
      BY <1>2, <1>8, <3>1 DEF Shown
  <2>2. \A p \in Paths : \A v \in News(p)' : v <= vals'[p]
    BY <1>2, <1>5 DEF Shown
  <2>3. ASSUME NEW p \in Paths \ (fetched' \union missed') PROVE Agrees(p)'
    <3>1. Agrees(p)
      BY <1>1, <1>2 DEF Shown
    <3>2. CASE vals[p] \in News(p)
      BY <1>2, <1>5, <3>2 DEF Agrees
    <3>3. CASE vals[p] \notin News(p)
      <4>1. /\ News(p)' = {}
            /\ IF cache[lives][p].seen THEN cache[lives][p].value = vals[p] ELSE f[p] = vals[p]
        BY <1>5, <1>7, <3>1, <3>3 DEF Agrees
      <4>2. cache'[lives][p].seen /\ cache'[lives][p].value = vals[p]
        <5>1. CASE cache[lives][p].seen
          <6>1. cache'[lives][p] = cache[lives][p]
            BY <1>8, <5>1
          <6> QED
            BY <4>1, <5>1, <6>1
        <5>2. CASE ~cache[lives][p].seen
          <6>1. cache'[lives][p] = [value |-> f[p], seen |-> TRUE]
            BY <1>8, <5>2
          <6>2. f[p] = vals[p]
            BY <4>1, <5>2
          <6> QED
            BY <6>1, <6>2
        <5> QED
          BY <5>1, <5>2
      <4> QED
        BY <1>2, <4>1, <4>2 DEF Agrees
    <3> QED
      BY <3>2, <3>3
  <2> QED
    BY <1>1, <1>2, <2>1, <2>2, <2>3 DEF Shown
<1>10. Written'
  <2>1. ASSUME NEW u \in Tasks PROVE ~(tasks[u].pc = "getting" /\ tasks'[u].pc = "got")
    <3>1. tasks'[t] = x /\ (u # t => tasks'[u] = tasks[u])
      BY <1>2, <1>3 DEF Ran, BusTypes, Known
    <3> HIDE DEF x
    <3> QED
      BY <1>3, <3>1
  <2>2. \A p \in Paths : cache'[lives][p].value >= cache[lives][p].value
    BY <1>1, <1>2, <2>1, Onwards
  <2>3. ASSUME NEW u \in Tasks
        PROVE  /\ Sets(u)' => Sets(u)
               /\ tasks'[u].pc \in {"setting", "set"} => tasks'[u] = tasks[u]
    <3>1. tasks'[t] = x /\ (u # t => tasks'[u] = tasks[u])
      BY <1>2, <1>3 DEF Ran, BusTypes, Known
    <3> HIDE DEF x
    <3> QED
      BY <1>2, <1>3, <3>1 DEF Sets
  <2>4. \A i \in Replies(inbox)' : Sets(inbox[i].task)' /\ inbox'[i].body # Error =>
          \E k \in Replies(inbox) : inbox[k] = inbox'[i] /\ Sets(inbox[k].task)
    BY <1>4 DEF SetsKept
  <2> QED
    BY <1>1, <1>2, <1>5, <2>2, <2>3, <2>4, GrownWritten
<1> QED
  BY <1>9, <1>10

\* What fetch_value writes is set apart.
LEMMA FetchedKeeps ==
    ASSUME BusInv, BusTypes', Protocol, Shown, Written, Answers', NEW t \in Tasks, Fetched(t)
    PROVE  Shown' /\ Written'
<1> DEFINE x == At(t, "got")
           c == tasks[t].conn
<1>1. /\ UNCHANGED <<owner, lives, vals, services, byName, missed, inbox, calls>>
      /\ BusTypes /\ Wire /\ tasks \in [Tasks -> Task] /\ c \in Owned /\ c <= lives
      /\ lives \in Nat
  <2>1. UNCHANGED <<owner, lives, vals, services, byName, missed, inbox, calls>>
    BY DEF Fetched, publisher, daemon
  <2> QED
    BY <2>1 DEF BusInv, BusTypes, Service, Known, Task, Protocol, Strands
<1>2. Ran(t, x) /\ x.pc = "got"
  BY <1>1, CacheErrands, AtIs DEF Pcs
<1>3. Scans' \subseteq Scans /\ Signals(inbox)' = Signals(inbox) /\ SetsKept
  <2> HIDE DEF x
  <2> QED
    BY <1>1, <1>2, RanAside
<1>4. \A p : News(p)' = News(p)
  BY <1>1, <1>3, NewsAre
<1>5. /\ fetched \subseteq fetched' /\ fetched' \subseteq Paths
      /\ \A d \in Conns, p \in Paths \ fetched' : cache'[d][p] = cache[d][p]
      /\ \A d \in Conns : d # c => cache'[d] = cache[d]
  <2>1. fetched' \subseteq Paths
    BY DEF BusTypes, Known
  <2>2. CASE UNCHANGED <<cache, fetched>>
    BY <2>1, <2>2
  <2>3. CASE /\ cache' = Updated(tasks[t].body[2], c)
             /\ fetched' = fetched \union DOMAIN tasks[t].body[2]
    <3> DEFINE f == tasks[t].body[2]
    <3>1. /\ cache' = Updated(f, c) /\ fetched' = fetched \union DOMAIN f
          /\ cache \in [Conns -> [Paths -> [value : Nat, seen : BOOLEAN]]]
      BY <1>1, <2>3 DEF BusTypes, Known
    <3> HIDE DEF f, c
    <3>2. \A d \in Conns : cache'[d] = IF d = c THEN [p \in Paths |->
            IF p \in DOMAIN f THEN [value |-> f[p], seen |-> TRUE] ELSE cache[c][p]] ELSE cache[d]
      BY <3>1 DEF Updated
    <3>3. ASSUME NEW d \in Conns, NEW p \in Paths \ fetched' PROVE cache'[d][p] = cache[d][p]
      <4>1. CASE d = c
        <5>1. cache'[d] = [q \in Paths |->
                IF q \in DOMAIN f THEN [value |-> f[q], seen |-> TRUE] ELSE cache[c][q]]
          BY <3>2, <4>1
        <5>2. p \in Paths /\ p \notin DOMAIN f
          BY <3>1, <3>3
        <5> QED
          BY <4>1, <5>1, <5>2
      <4> QED
        BY <3>2, <4>1
    <3>4. fetched \subseteq fetched' /\ \A d \in Conns : d # c => cache'[d] = cache[d]
      BY <3>1, <3>2
    <3> QED
      BY <2>1, <3>3, <3>4
  <2>4. \/ UNCHANGED <<cache, fetched>>
        \/ /\ cache' = Updated(tasks[t].body[2], c)
           /\ fetched' = fetched \union DOMAIN tasks[t].body[2]
    BY DEF Fetched
  <2> QED
    BY ONLY <2>2, <2>3, <2>4
<1>6. Shown'
  <2>1. \A d \in Conns : d > lives' => cache'[d] = Unseen
    <3>1. \A d \in Conns : d > lives => d # c
      <4>1. c \in Nat
        BY <1>1, BusAssumption DEF Owned, Conns, NoOne
      <4> HIDE DEF c
      <4> QED
        BY <1>1, <4>1 DEF Conns
    <3> QED
      BY <1>1, <1>5, <3>1 DEF Shown
  <2>2. \A p \in Paths : \A v \in News(p)' : v <= vals'[p]
    BY <1>1, <1>4 DEF Shown
  <2>3. ASSUME owner # NoOne, NEW p \in Paths \ fetched'
        PROVE  cache'[lives][p] = cache[lives][p]
    <3>1. lives \in Conns
      BY <1>1, <2>3 DEF Protocol, Registry, BusTypes, Service, Owned
    <3> QED
      BY <1>5, <3>1
  <2>4. ASSUME owner # NoOne, NEW p \in Paths \ (fetched' \union missed') PROVE Agrees(p)'
    <3>1. Agrees(p) /\ cache'[lives][p] = cache[lives][p]
      BY <1>1, <1>5, <2>3, <2>4 DEF Shown
    <3> QED
      BY <1>1, <1>3, <1>4, <3>1 DEF Agrees
  <2>5. ASSUME owner # NoOne, NEW p \in Paths \ fetched', cache'[lives][p].seen PROVE lives \in services
    <3>1. p \in Paths \ fetched /\ cache[lives][p].seen
      BY <1>5, <2>3, <2>5
    <3> QED
      BY <2>5, <3>1 DEF Shown
  <2> QED
    BY <1>1, <2>1, <2>2, <2>4, <2>5 DEF Shown
<1>7. Written'
  <2>1. \A p \in Paths \ fetched' : lives \in Conns => cache'[lives][p].value >= cache[lives][p].value
    <3>1. \A p \in Paths : lives \in Conns => cache[lives][p].value \in Nat
      BY <1>1 DEF BusTypes, Known
    <3> QED
      BY <1>5, <3>1
  <2>3. ASSUME NEW u \in Tasks
        PROVE  /\ Sets(u)' => Sets(u)
               /\ tasks'[u].pc \in {"setting", "set"} => tasks'[u] = tasks[u]
    <3>1. tasks'[t] = x /\ (u # t => tasks'[u] = tasks[u])
      BY <1>1, <1>2 DEF Ran
    <3> HIDE DEF x
    <3> QED
      BY <1>1, <1>2, <3>1 DEF Sets
  <2>4. \A i \in Replies(inbox)' : Sets(inbox[i].task)' /\ inbox'[i].body # Error =>
          \E k \in Replies(inbox) : inbox[k] = inbox'[i] /\ Sets(inbox[k].task)
    BY <1>3 DEF SetsKept
  <2> QED
    BY <1>1, <1>4, <1>5, <2>1, <2>3, <2>4, GrownWritten
<1> QED
  BY <1>6, <1>7

-----------------------------------------------------------------------------
(* Writes, and a process that starts.                                      *)

LEMMA NewsNumbers ==
    ASSUME BusTypes, NEW p
    PROVE  News(p) \subseteq Nat
<1>1. ASSUME NEW i \in DOMAIN inbox, Announces(inbox[i], p) PROVE inbox[i].items[p] \in Nat
  <2>1. inbox[i] \in Message
    BY DEF BusTypes, Queues
  <2>2. inbox[i].items[p] \in Carried(inbox[i])
    BY <1>1 DEF Announces, Carried
  <2> QED
    BY <2>1, <2>2, HeldNumbers
<1> QED
  BY <1>1 DEF News

LEMMA Announced ==
    ASSUME BusInv, Protocol, owner # NoOne, NEW f \in Changes, NEW q, q = inbox \o Signal(f)
    PROVE  /\ q \in Seq(Message) /\ Replies(q) = Replies(inbox) /\ lives \in Conns /\ owner = lives
           /\ \A i \in DOMAIN inbox : i \in DOMAIN q /\ q[i] = inbox[i]
           /\ Signals(q) = Signals(inbox) \union
                (IF rules = 0 THEN {} ELSE {[what |-> "signal", from |-> lives, items |-> f]})
<1> DEFINE K == LanesOf(q, ready, outq, calls, tasks)
           m == [what |-> "signal", from |-> lives, items |-> f]
<1>1. /\ q \in Seq(Message) /\ Replies(q) = Replies(inbox)
      /\ \A i \in DOMAIN inbox : i \in DOMAIN q /\ q[i] = inbox[i]
  BY Announcing
<1>2. inbox \in Seq(Message) /\ lives \in Conns /\ owner = lives
  BY DEF BusInv, BusTypes, Queues, Service, Owned, Protocol, Registry
<1>3. m \in Message /\ m.what = "signal"
  BY <1>2, Made
<1>4. q = IF rules = 0 THEN inbox ELSE Append(inbox, m)
  BY <1>2 DEF Signal
<1> HIDE DEF m
<1>5. Signals(Append(inbox, m)) = Signals(inbox) \union (IF m.what = "signal" THEN {m} ELSE {})
  BY <1>2, <1>3, SignalsAppended
<1>6. Signals(q) = Signals(inbox) \union (IF rules = 0 THEN {} ELSE {m})
  BY <1>3, <1>4, <1>5
<1> QED
  BY <1>1, <1>2, <1>6 DEF m

LEMMA WroteShown ==
    ASSUME BusInv, BusTypes', Protocol, Shown, NEW S \in SUBSET Paths, owner # NoOne, wrote' = wrote + 1,
           vals' = [p \in Paths |-> IF p \in S THEN wrote' ELSE vals[p]], Misses(S),
           UNCHANGED <<owner, lives, cache, fetched, services, byName>>, Scans' \subseteq Scans,
           NEW m, m.from = lives, DOMAIN m.items = S, \A p \in S : m.items[p] = wrote',
           Signals(inbox)' = Signals(inbox) \union (IF rules = 0 THEN {} ELSE {m})
    PROVE  /\ Shown'
           /\ \A p : News(p) \subseteq News(p)'
           /\ rules # 0 => \A p \in S : wrote' \in News(p)'
<1>1. /\ BusTypes /\ wrote \in Nat /\ wrote' \in Nat /\ owner = lives
      /\ \A p \in Paths : vals[p] \in Nat /\ vals[p] <= wrote
  BY DEF BusInv, BusTypes, Service, Fresh, Protocol, Registry
<1>2. \A p : News(p)' = News(p) \union (IF rules # 0 /\ p \in S THEN {wrote'} ELSE {})
  <2> SUFFICES ASSUME NEW p PROVE News(p)' = News(p) \union (IF rules # 0 /\ p \in S THEN {wrote'} ELSE {})
    OBVIOUS
  <2>1. News(p)' = Among(Signals(inbox)', lives, p) /\ News(p) = Among(Signals(inbox), lives, p)
    BY NewsAre
  <2>2. CASE rules = 0
    BY <2>1, <2>2
  <2>3. CASE rules # 0
    <3>1. Signals(inbox)' = Signals(inbox) \union {m}
      BY <2>3
    <3>2. Among(Signals(inbox) \union {m}, lives, p)
            = Among(Signals(inbox), lives, p) \union (IF p \in S THEN {wrote'} ELSE {})
      BY DEF Among
    <3> QED
      BY <2>1, <2>3, <3>1, <3>2
  <2> QED
    BY <2>2, <2>3
<1>3. \A p \in Paths : \A v \in News(p)' : v <= vals'[p]
  <2> SUFFICES ASSUME NEW p \in Paths, NEW v \in News(p)' PROVE v <= vals'[p]
    OBVIOUS
  <2>1. vals'[p] = IF p \in S THEN wrote' ELSE vals[p]
    OBVIOUS
  <2>2. CASE v \in News(p)
    <3>1. v \in Nat /\ v <= vals[p]
      BY <1>1, <2>2, NewsNumbers DEF Shown
    <3> DEFINE a == vals[p]
    <3>2. a \in Nat /\ a <= wrote /\ v <= a /\ v \in Nat
      BY <1>1, <3>1
    <3> HIDE DEF a
    <3>3. v <= wrote'
      BY <1>1, <3>2
    <3> QED
      BY <2>1, <3>1, <3>3
  <2>3. CASE rules # 0 /\ p \in S /\ v = wrote'
    BY <1>1, <2>1, <2>3
  <2> QED
    BY <1>2, <2>2, <2>3
<1>4. ASSUME NEW p \in Paths \ (fetched' \union missed') PROVE Agrees(p)'
  <2>1. CASE p \in S /\ rules # 0
    <3>1. vals'[p] = wrote' /\ wrote' \in News(p)'
      BY <1>2, <2>1
    <3> QED
      BY <3>1 DEF Agrees
  <2>2. CASE p \in S /\ rules = 0
    <3>1. ~Heard(p)
      BY <1>4, <2>2 DEF Misses
    <3>2. ~cache[lives][p].seen /\ News(p) = {}
      BY <1>1, <3>1 DEF Heard, News, Announces
    <3>3. Scans = {} /\ byName # lives
      BY <2>2, Unheard
    <3>4. News(p)' = {} /\ Scans' = {} /\ byName' # lives'
      BY <1>2, <2>2, <3>2, <3>3
    <3> QED
      BY <3>2, <3>4 DEF Agrees
  <2>3. CASE p \notin S
    <3>1. p \notin missed
      BY <1>4, <2>3 DEF Misses
    <3>2. Agrees(p)
      BY <1>4, <3>1 DEF Shown
    <3>3. News(p)' = News(p) /\ vals'[p] = vals[p]
      BY <1>2, <1>4, <2>3
    <3> QED
      BY <3>2, <3>3 DEF Agrees
  <2> QED
    BY <2>1, <2>2, <2>3
<1>5. \A c \in Conns : c > lives' => cache'[c] = Unseen
  BY DEF Shown
<1>6. \A p \in Paths \ fetched' : cache'[lives'][p].seen => lives' \in services'
  BY DEF Shown
<1>7. Shown'
  BY <1>3, <1>4, <1>5, <1>6 DEF Shown
<1> QED
  BY <1>2, <1>7

LEMMA WriteKeeps ==
    ASSUME BusInv, BusTypes', Protocol, Shown, Written, Answers', NEW S \in SUBSET Paths, Write(S)
    PROVE  Shown' /\ Written'
<1> DEFINE f == [p \in S |-> wrote']
           m == [what |-> "signal", from |-> lives, items |-> f]
<1>1. /\ owner # NoOne /\ wrote' = wrote + 1 /\ Misses(S) /\ wrote' \in Nat
      /\ vals' = [p \in Paths |-> IF p \in S THEN wrote' ELSE vals[p]]
      /\ inbox' = inbox \o Signal(f)
      /\ UNCHANGED <<owner, lives, tasks, ready, cache, fetched, services, byName>>
  BY DEF Write, monitor, BusTypes, Service
<1>2. f \in Changes /\ DOMAIN f = S /\ \A p \in S : f[p] = wrote'
  BY <1>1 DEF Changes
<1> HIDE DEF f
<1>3. /\ Replies(inbox') = Replies(inbox) /\ (\A i \in DOMAIN inbox : inbox'[i] = inbox[i])
      /\ Signals(inbox') = Signals(inbox) \union (IF rules = 0 THEN {} ELSE {m})
  BY <1>1, <1>2, Announced
<1>4. m.from = lives /\ m.items = f
  OBVIOUS
<1> HIDE DEF m
<1>5. \A i \in Replies(inbox') : i \in Replies(inbox) /\ inbox'[i] = inbox[i]
  BY <1>3 DEF Replies
<1>6. Replies(inbox)' = Replies(inbox') /\ Signals(inbox)' = Signals(inbox')
  BY DEF Replies, Signals
<1>7. Scans' \subseteq Scans
  <2>1. Scans' = {inbox'[i].body : i \in {k \in Replies(inbox)' : tasks[inbox'[k].task].pc = "scanning"}}
           \union {tasks[ready[i].task].body :
                     i \in {k \in DOMAIN ready : tasks[ready[k].task].pc = "scanning"}}
    BY <1>1 DEF Scans
  <2>2. ASSUME NEW i \in Replies(inbox'), tasks[inbox'[i].task].pc = "scanning"
        PROVE  inbox'[i].body \in Scans
    <3>1. i \in Replies(inbox) /\ inbox'[i] = inbox[i]
      BY <1>5
    <3> QED
      BY <2>2, <3>1 DEF Scans
  <2>3. {inbox'[i].body : i \in {k \in Replies(inbox') : tasks[inbox'[k].task].pc = "scanning"}} \subseteq Scans
    BY <2>2
  <2>4. {tasks[ready[i].task].body : i \in {k \in DOMAIN ready : tasks[ready[k].task].pc = "scanning"}} \subseteq Scans
    BY DEF Scans
  <2>5. Scans' = {inbox'[i].body : i \in {k \in Replies(inbox') : tasks[inbox'[k].task].pc = "scanning"}}
           \union {tasks[ready[i].task].body :
                     i \in {k \in DOMAIN ready : tasks[ready[k].task].pc = "scanning"}}
    BY <1>6, <2>1
  <2> QED
    BY ONLY <2>3, <2>4, <2>5
<1>8. Shown' /\ \A p : News(p) \subseteq News(p)'
  BY <1>1, <1>2, <1>3, <1>4, <1>6, <1>7, WroteShown
<1>9. Written'
  <2>1. \A p \in Paths \ fetched' : lives \in Conns => cache'[lives][p].value >= cache[lives][p].value
    BY <1>1 DEF BusInv, BusTypes, Known
  <2>2. \A t \in Tasks : Sets(t)' => Sets(t)
    BY <1>1 DEF Sets
  <2>3. \A i \in Replies(inbox)' : Sets(inbox[i].task)' /\ inbox'[i].body # Error =>
          \E k \in Replies(inbox) : inbox[k] = inbox'[i] /\ Sets(inbox[k].task)
    BY <1>1, <1>5, <1>6 DEF Sets
  <2> QED
    BY <1>1, <1>8, <2>1, <2>2, <2>3, GrownWritten
<1> QED
  BY <1>8, <1>9

\* The signal of a written value is on its way before the answer is.
LEMMA AnswerSetKeeps ==
    ASSUME BusInv, BusTypes', Protocol, Shown, Written, Answers', AnswerSet
    PROVE  Shown' /\ Written'
<1> DEFINE call == Head(calls)
           t == call.task
           path == call.path
           S == {path}
           f == [p \in S |-> wrote']
           m == [what |-> "signal", from |-> lives, items |-> f]
           q == inbox \o Signal(f)
           a == Answer(t, Items(f))
<1>1. /\ calls # <<>> /\ call.what = "set" /\ wrote' = wrote + 1 /\ Misses(S) /\ wrote' \in Nat
      /\ vals' = [vals EXCEPT ![path] = wrote'] /\ SignalFirst(t, f) /\ owner # NoOne
      /\ UNCHANGED <<owner, lives, tasks, ready, cache, fetched, services, byName>>
      /\ BusTypes /\ inbox \in Seq(Message) /\ vals \in [Paths -> Nat]
  BY DEF AnswerSet, monitor, BusInv, BusTypes, Service, Queues
<1>2. t \in Tasks /\ tasks[t].pc = "setting" /\ path \in Paths
  BY <1>1, Caller
<1> HIDE DEF call, t, path
<1>3. S \in SUBSET Paths /\ vals' = [p \in Paths |-> IF p \in S THEN wrote' ELSE vals[p]]
  BY <1>1, <1>2
<1> HIDE DEF S
<1>4. f \in Changes /\ DOMAIN f = S /\ \A p \in S : f[p] = wrote'
  BY <1>1, <1>3 DEF Changes
<1>5. inbox' = q \o <<a>>
  BY <1>1 DEF SignalFirst, S
<1> HIDE DEF f
<1>6. /\ q \in Seq(Message) /\ Replies(q) = Replies(inbox)
      /\ \A i \in DOMAIN inbox : i \in DOMAIN q /\ q[i] = inbox[i]
      /\ Signals(q) = Signals(inbox) \union (IF rules = 0 THEN {} ELSE {m})
  BY <1>1, <1>4, Announced
<1>7. m.from = lives /\ m.items = f
  OBVIOUS
<1>8. a \in Message /\ a.what = "reply" /\ a.task = t /\ a.body = Items(f)
  BY <1>2, <1>4, Made DEF Answer, Body
<1> HIDE DEF m, q, a
<1>9. inbox' = Append(q, a)
  BY <1>5, <1>6, <1>8
<1>10. \A i \in Replies(inbox') : (i \in Replies(inbox) /\ inbox'[i] = inbox[i]) \/ inbox'[i] = a
  <2>1. \A i \in Replies(inbox') : (i \in Replies(q) /\ inbox'[i] = q[i]) \/ inbox'[i] = a
    BY <1>6, <1>8, <1>9, EndOf DEF Replies
  <2> QED
    BY <1>6, <2>1 DEF Replies
<1>11. Signals(inbox') = Signals(inbox) \union (IF rules = 0 THEN {} ELSE {m})
  <2>1. Signals(Append(q, a)) = Signals(q) \union (IF a.what = "signal" THEN {a} ELSE {})
    BY <1>6, <1>8, SignalsAppended
  <2>2. Signals(inbox') = Signals(q)
    BY <1>8, <1>9, <2>1
  <2> QED
    BY <1>6, <2>2
<1>12. Replies(inbox)' = Replies(inbox') /\ Signals(inbox)' = Signals(inbox')
  BY DEF Replies, Signals
<1>13. Scans' \subseteq Scans
  <2>1. Scans' = {inbox'[i].body : i \in {k \in Replies(inbox)' : tasks[inbox'[k].task].pc = "scanning"}}
           \union {tasks[ready[i].task].body :
                     i \in {k \in DOMAIN ready : tasks[ready[k].task].pc = "scanning"}}
    BY <1>1 DEF Scans
  <2>2. \A i \in Replies(inbox') : tasks[inbox'[i].task].pc = "scanning" =>
          i \in Replies(inbox) /\ inbox'[i] = inbox[i]
    BY <1>2, <1>8, <1>10
  <2> QED
    BY <1>12, <2>1, <2>2 DEF Scans
<1>14. /\ Shown' /\ \A p : News(p) \subseteq News(p)'
       /\ rules # 0 => \A p \in S : wrote' \in News(p)'
  <2>1. UNCHANGED <<owner, lives, cache, fetched, services, byName>> /\ owner # NoOne /\ wrote' = wrote + 1
        /\ Misses(S)
    BY <1>1
  <2>2. DOMAIN m.items = S /\ (\A p \in S : m.items[p] = wrote') /\ m.from = lives
    BY <1>4, <1>7
  <2>3. Signals(inbox)' = Signals(inbox) \union (IF rules = 0 THEN {} ELSE {m})
    BY <1>11, <1>12
  <2> QED
    BY <1>3, <1>13, <2>1, <2>2, <2>3, WroteShown
<1>15. Written'
  <2>1. \A p \in Paths \ fetched' : lives \in Conns => cache'[lives][p].value >= cache[lives][p].value
    BY <1>1 DEF BusTypes, Known
  <2>2. \A u \in Tasks : Sets(u)' => Sets(u)
    BY <1>1 DEF Sets
  <2>3. ASSUME NEW i \in Replies(inbox)', Sets(inbox[i].task)'
        PROVE  \/ \E k \in Replies(inbox) : inbox[k] = inbox'[i] /\ Sets(inbox[k].task)
               \/ \A p \in DOMAIN inbox'[i].body[2] : inbox'[i].body[2][p] \in News(p)'
    <3>1. Sets(inbox'[i].task)
      BY <1>1, <2>3 DEF Sets
    <3>2. CASE i \in Replies(inbox) /\ inbox'[i] = inbox[i]
      BY <3>1, <3>2
    <3>3. CASE inbox'[i] = a
      <4>1. Sets(t) /\ inbox'[i].body[2] = f
        BY <1>8, <3>1, <3>3 DEF Items
      <4>2. byName = owner /\ owner = lives
        BY <1>1, <1>2, <4>1 DEF Written, Addressed, Protocol, Registry
      <4>3. rules = 1
        BY <1>1, <4>2, AtRest DEF Protocol
      <4> QED
        BY <1>4, <1>14, <4>1, <4>3
    <3> QED
      BY <1>10, <1>12, <3>2, <3>3
  <2> QED
    BY <1>1, <1>14, <2>1, <2>2, <2>3, GrownWritten
<1> QED
  BY <1>14, <1>15

\* Nothing is known of a process that has just started.
LEMMA RegisterKeeps ==
    ASSUME BusInv, BusTypes', Protocol, Shown, Register
    PROVE  Shown' /\ Written'
<1> DEFINE m == Owners(NoOne, lives')
<1>1. /\ owner = NoOne /\ lives' = lives + 1 /\ wrote' = wrote + 1 /\ inbox' = Append(inbox, m)
      /\ vals' = [p \in Paths |-> wrote'] /\ UNCHANGED <<tasks, ready, cache, fetched, services, byName>>
      /\ BusTypes /\ inbox \in Seq(Message) /\ lives \in Nat /\ lives' \in Conns /\ owner' = lives'
  <2>1. /\ owner = NoOne /\ lives' = lives + 1 /\ wrote' = wrote + 1 /\ inbox' = Append(inbox, m)
        /\ vals' = [p \in Paths |-> wrote'] /\ UNCHANGED <<tasks, ready, cache, fetched, services, byName>>
        /\ lives < MaxLives /\ owner' = lives'
    BY DEF Register, monitor
  <2>2. BusTypes /\ lives \in 0..MaxLives /\ inbox \in Seq(Message)
    BY DEF BusInv, BusTypes, Service, Queues
  <2> QED
    BY <2>1, <2>2, BusAssumption DEF Conns
<1>2. m \in Message /\ m.what = "owner"
  BY <1>1, Made DEF Owned, Owners
<1> HIDE DEF m
\* What is on its way is of earlier processes.
<1>3. \A p : News(p)' = {}
  <2>1. ASSUME NEW s \in Signals(inbox) PROVE s.from # lives'
    <3>1. PICK i \in DOMAIN inbox : s = inbox[i] /\ inbox[i].what = "signal"
      BY <2>1 DEF Signals
    <3> DEFINE x == LabelOf("in", inbox[i], tasks)
    <3>2. x = Tag("signal", 0, s.from) /\ x \in Labels(lanes) /\ s.from \in Conns
      BY <1>1, <3>1, Present, Shapes DEF LabelOf
    <3> HIDE DEF x
    <3>3. x \in Of(lanes, "signal") /\ x.conn = s.from
      BY <3>2, TagIs DEF Of, Kinds, Owned
    <3>4. s.from <= lives /\ s.from \in Nat
      BY <3>2, <3>3 DEF Protocol, Tokens, Conns
    <3> QED
      BY <1>1, <3>4
  <2>2. Signals(Append(inbox, m)) = Signals(inbox) \union (IF m.what = "signal" THEN {m} ELSE {})
    <3>1. inbox \in Seq(Message)
      BY <1>1
    <3> QED
      BY ONLY <1>2, <3>1, SignalsAppended
  <2>3. Signals(inbox') = Signals(inbox)
    BY <1>1, <1>2, <2>2
  <2>4. Signals(inbox)' = Signals(inbox)
    BY <2>3 DEF Signals
  <2> QED
    BY <2>1, <2>4, NewsAre DEF Among
<1>4. Scans' = {}
  <2>1. Joins = {}
    BY <1>1 DEF Protocol, Registry
  <2>2. Scans = {}
    BY <2>1, Scanning
  <2>3. \A i \in Replies(inbox') : i \in Replies(inbox) /\ inbox'[i] = inbox[i]
    BY <1>1, <1>2, EndOf DEF Replies
  <2>4. Scans' = {inbox'[i].body : i \in {k \in Replies(inbox') : tasks[inbox'[k].task].pc = "scanning"}}
           \union {tasks[ready[i].task].body :
                     i \in {k \in DOMAIN ready : tasks[ready[k].task].pc = "scanning"}}
    BY <1>1 DEF Scans, Replies
  <2>5. Scans' \subseteq Scans
    BY <2>3, <2>4 DEF Scans
  <2> QED
    BY <2>2, <2>5
<1>5. byName # lives'
  <2>1. Parted = lives /\ byName \in {Parted, Absent, Pending}
    BY <1>1, PartedIs DEF Protocol, Registry
  <2>2. lives' <= MaxLives /\ MaxLives \in Nat /\ lives' \in Nat
    BY <1>1, BusAssumption DEF Conns
  <2> QED
    BY <1>1, <2>1, <2>2 DEF Absent, NoOne, Pending
<1>6. \A c \in Conns : c >= lives' => cache'[c] = Unseen
  <2>1. \A c \in Conns : c >= lives' => c > lives
    BY <1>1 DEF Conns
  <2> QED
    BY <1>1, <2>1 DEF Shown
<1>7. \A p \in Paths : ~cache'[lives'][p].seen
  <2>1. cache'[lives'] = Unseen
    BY <1>1, <1>6 DEF Conns
  <2> QED
    BY <2>1 DEF Unseen
<1>8. Shown'
  <2>1. \A c \in Conns : c > lives' => cache'[c] = Unseen
    BY <1>1, <1>6 DEF Conns
  <2>2. \A p \in Paths : Agrees(p)'
    BY <1>1, <1>3, <1>4, <1>5, <1>7 DEF Agrees
  <2> QED
    BY <1>3, <1>7, <2>1, <2>2 DEF Shown
<1>9. Written'
  <2>1. ASSUME NEW t \in Tasks PROVE tasks'[t].conn # lives'
    <3>1. tasks[t].conn <= lives /\ tasks[t].conn \in Nat
      BY <1>1, BusAssumption DEF Protocol, Strands, BusTypes, Known, Task, Owned, Conns, NoOne
    <3> QED
      BY <1>1, <3>1
  <2>2. \A i \in Replies(inbox') : i \in Replies(inbox) /\ inbox'[i] = inbox[i]
    BY <1>1, <1>2, EndOf DEF Replies
  <2>3. \A i \in Replies(inbox)' : inbox'[i].task \in Tasks
    BY <1>1, <2>2, Shapes DEF Replies
  <2> QED
    BY <2>1, <2>3 DEF Written, Addressed, Promised, ReadBack, Sets
<1> QED
  BY <1>8, <1>9

\* A signal that is read: the cache follows when its process was added, and
\* what was written before it no longer matters.
LEMMA ReadSignalKeeps ==
    ASSUME BusInv, BusTypes', Protocol, Shown, Written, Answers', Read, Head(inbox).what = "signal"
    PROVE  Shown' /\ Written'
<1> DEFINE msg == Head(inbox)
           q == Tail(inbox)
           f == msg.items
           c == msg.from
<1>1. /\ inbox # <<>> /\ inbox' = q /\ BusTypes /\ Rising(inbox) /\ inbox \in Seq(Message) /\ Next
      /\ UNCHANGED <<owner, lives, vals, fetched, missed, services, byName, tasks, ready>>
      /\ cache' = IF c \in services THEN Updated(f, c) ELSE cache
  BY DEF Read, HandleSignal, Next, BusInv, BusTypes, Queues, Fresh, publisher, history
<1>2. /\ msg \in Message /\ 1 \in DOMAIN inbox /\ inbox[1] = msg /\ q \in Seq(Message)
      /\ \A i \in DOMAIN q : i + 1 \in DOMAIN inbox /\ q[i] = inbox[i + 1] /\ i \in Nat \ {0}
      /\ Signals(inbox) = Signals(q) \union (IF msg.what = "signal" THEN {msg} ELSE {})
  BY <1>1, TailOf, SignalsTaken
<1>3. msg.what = "signal" /\ f \in Changes /\ c \in Conns /\ lives \in Nat /\ c <= lives
  <2>1. msg.what = "signal" /\ f \in Changes /\ c \in Conns
    BY <1>2, Shapes
  <2> DEFINE x == LabelOf("in", inbox[1], tasks)
  <2>2. x = Tag("signal", 0, c) /\ x \in Labels(lanes)
    BY <1>1, <1>2, <2>1, Present DEF LabelOf
  <2> HIDE DEF x, c
  <2>3. x \in Of(lanes, "signal") /\ x.conn = c
    BY <2>1, <2>2, TagIs DEF Of, Kinds, Owned
  <2> QED
    BY <1>1, <2>1, <2>3 DEF Protocol, Tokens, BusTypes, Service
<1> HIDE DEF msg, q, f, c
<1>4. \A p : News(p) = News(p)' \union (IF c = lives /\ p \in DOMAIN f THEN {f[p]} ELSE {})
  <2> SUFFICES ASSUME NEW p
               PROVE  News(p) = News(p)' \union (IF c = lives /\ p \in DOMAIN f THEN {f[p]} ELSE {})
    OBVIOUS
  <2>1. Signals(inbox) = Signals(q) \union {msg} /\ msg.from = c /\ msg.items = f
    BY <1>2, <1>3 DEF f, c
  <2>2. Signals(inbox)' = Signals(q)
    BY <1>1 DEF Signals
  <2>3. Among(Signals(q) \union {msg}, lives, p)
          = Among(Signals(q), lives, p) \union (IF c = lives /\ p \in DOMAIN f THEN {f[p]} ELSE {})
    BY <2>1 DEF Among
  <2>4. News(p) = Among(Signals(inbox), lives, p) /\ News(p)' = Among(Signals(inbox)', lives', p)
    BY NewsAre
  <2> QED
    BY <1>1, <2>1, <2>2, <2>3, <2>4
<1>5. /\ \A d \in Conns : d # c => cache'[d] = cache[d]
      /\ c \notin services => cache' = cache
      /\ c \in services => \A p \in Paths : cache'[c][p] =
           IF p \in DOMAIN f THEN [value |-> f[p], seen |-> TRUE] ELSE cache[c][p]
  BY <1>1, <1>3 DEF Updated, BusTypes, Known
<1>6. Scans' \subseteq Scans
  <2>1. Scans' = {q[i].body : i \in {k \in Replies(q) : tasks[q[k].task].pc = "scanning"}}
           \union {tasks[ready[i].task].body :
                     i \in {k \in DOMAIN ready : tasks[ready[k].task].pc = "scanning"}}
    BY <1>1 DEF Scans, Replies
  <2>2. \A i \in Replies(q) : i + 1 \in Replies(inbox) /\ q[i] = inbox[i + 1]
    BY <1>2 DEF Replies
  <2>3. \A k \in Replies(inbox) : tasks[inbox[k].task].pc = "scanning" => inbox[k].body \in Scans
    BY DEF Scans
  <2>4. \A i \in Replies(q) : tasks[q[i].task].pc = "scanning" => q[i].body \in Scans
    BY <2>2, <2>3
  <2>5. \A i \in DOMAIN ready : tasks[ready[i].task].pc = "scanning" => tasks[ready[i].task].body \in Scans
    BY DEF Scans
  <2> QED
    BY <2>1, <2>4, <2>5
\* What is still on its way is newer.
<1>7. ASSUME c = lives, NEW p \in DOMAIN f, NEW v \in News(p)' PROVE f[p] < v
  <2>1. PICK i \in DOMAIN inbox' : Announces(inbox[i], p)' /\ v = inbox'[i].items[p]
    BY DEF News
  <2>2. /\ i \in DOMAIN q /\ q[i].what = "signal" /\ p \in DOMAIN q[i].items /\ v = q[i].items[p]
    BY <1>1, <2>1 DEF Announces
  <2>3. /\ i + 1 \in DOMAIN inbox /\ 1 < i + 1 /\ inbox[i + 1].what = "signal"
        /\ v \in Carried(inbox[i + 1]) /\ f[p] \in Carried(inbox[1])
    BY <1>2, <1>3, <1>7, <2>2 DEF Carried, f
  <2> QED
    BY <1>1, <1>2, <2>3 DEF Rising
<1>8. Shown'
  <2>1. \A d \in Conns : d > lives' => cache'[d] = Unseen
    <3>1. \A d \in Conns : d > lives => d # c
      BY <1>3 DEF Conns
    <3> QED
      BY <1>1, <1>5, <3>1 DEF Shown
  <2>2. \A p \in Paths : \A v \in News(p)' : v <= vals'[p]
    BY <1>1, <1>4 DEF Shown
  <2>3. ASSUME owner # NoOne, NEW p \in Paths \ fetched, cache'[lives][p].seen PROVE lives \in services
    <3>1. lives \in Conns
      BY <1>1, <2>3 DEF Protocol, Registry, BusTypes, Service, Owned
    <3>2. CASE cache'[lives] = cache[lives]
      BY <2>3, <3>2 DEF Shown
    <3>3. CASE cache'[lives] # cache[lives]
      BY <1>5, <3>1, <3>3
    <3> QED
      BY <3>2, <3>3
  <2>4. ASSUME owner # NoOne, NEW p \in Paths \ (fetched \union missed) PROVE Agrees(p)'
    <3>1. Agrees(p) /\ lives \in Conns
      BY <1>1, <2>4 DEF Shown, Protocol, Registry, BusTypes, Service, Owned
    <3>2. CASE vals[p] \in News(p)'
      BY <1>1, <3>2 DEF Agrees
    <3>3. CASE vals[p] \notin News(p)' /\ c = lives /\ p \in DOMAIN f
      <4>1. f[p] \in News(p)
        BY <1>4, <3>3
      <4>2. vals[p] = f[p]
        <5>1. vals[p] \in News(p)
          BY <3>1, <4>1 DEF Agrees
        <5> QED
          BY <1>4, <3>3, <5>1
      <4>3. News(p)' = {}
        <5>1. ASSUME NEW v \in News(p)' PROVE FALSE
          <6>1. f[p] < v /\ v <= f[p] /\ v \in Nat /\ f[p] \in Nat
            <7>1. v \in News(p) /\ News(p) \subseteq Nat
              BY <1>1, <1>4, <5>1, NewsNumbers
            <7>2. v <= vals[p]
              BY <2>4, <7>1 DEF Shown
            <7> QED
              BY <1>7, <3>3, <4>1, <4>2, <7>1, <7>2
          <6> DEFINE a == f[p]
          <6>2. a < v /\ v <= a /\ v \in Nat /\ a \in Nat
            BY <6>1
          <6> HIDE DEF a
          <6> QED
            BY <6>2
        <5> QED
          BY <5>1
      <4>4. CASE lives \in services
        <5>1. cache'[lives][p] = [value |-> f[p], seen |-> TRUE]
          BY <1>5, <2>4, <3>3, <4>4
        <5>2. cache'[lives][p].seen /\ cache'[lives][p].value = vals[p]
          BY <4>2, <5>1
        <5> QED
          BY <1>1, <4>3, <5>2 DEF Agrees
      <4>5. CASE lives \notin services
        <5>1. Scans = {} /\ byName # lives
          BY <2>4, <4>5, Unheard
        <5>2. ~cache[lives][p].seen
          BY <2>4, <4>5 DEF Shown
        <5>3. ~cache'[lives][p].seen /\ Scans' = {} /\ byName' # lives'
          BY <1>1, <1>5, <1>6, <3>3, <4>5, <5>1, <5>2
        <5> QED
          BY <1>1, <4>3, <5>3 DEF Agrees
      <4> QED
        BY <4>4, <4>5
    <3>4. CASE vals[p] \notin News(p)' /\ ~(c = lives /\ p \in DOMAIN f)
      <4>1. News(p)' = News(p)
        BY <1>4, <3>4
      <4>2. cache'[lives][p] = cache[lives][p]
        <5>1. CASE c = lives
          BY <1>5, <2>4, <3>4, <5>1
        <5>2. CASE c # lives
          BY <1>5, <3>1, <5>2
        <5> QED
          BY <5>1, <5>2
      <4> QED
        BY <1>1, <1>6, <3>1, <4>1, <4>2 DEF Agrees
    <3> QED
      BY <3>2, <3>3, <3>4
  <2> QED
    BY <1>1, <2>1, <2>2, <2>3, <2>4 DEF Shown
<1>9. Written'
  <2>1. \A p \in Paths : lives \in Conns => cache'[lives][p].value >= cache[lives][p].value
    <3>1. ~\E t \in Tasks : tasks[t].pc = "getting" /\ tasks'[t].pc = "got"
      BY <1>1
    <3> QED
      BY <1>1, <3>1, Onwards
  <2>2. ASSUME owner = NoOne \/ byName = lives, NEW p \in Paths, NEW v \in News(p)
        PROVE  v \in News(p)' \/ Shows(p, v)'
    <3>1. CASE v \in News(p)'
      BY <3>1
    <3>2. CASE c = lives /\ p \in DOMAIN f /\ v = f[p]
      <4>1. lives \in services
        BY <1>2, <1>3, <2>2, <3>2, SignalFinds DEF c
      <4>2. cache'[lives][p] = [value |-> v, seen |-> TRUE] /\ v \in Nat
        BY <1>1, <1>5, <2>2, <3>2, <4>1, NewsNumbers
      <4>3. cache'[lives'][p].value = v /\ v >= v
        BY <1>1, <4>2
      <4> QED
        BY <4>3 DEF Shows
    <3> QED
      BY <1>4, <2>2, <3>1, <3>2
  <2>3. \A t \in Tasks : Sets(t)' => Sets(t)
    BY <1>1 DEF Sets
  <2>4. ASSUME NEW i \in Replies(inbox)', Sets(inbox[i].task)'
        PROVE  \E k \in Replies(inbox) : inbox[k] = inbox'[i] /\ Sets(inbox[k].task)
    <3>1. i \in Replies(q) /\ inbox'[i] = q[i]
      BY <1>1 DEF Replies
    <3>2. i + 1 \in Replies(inbox) /\ inbox[i + 1] = inbox'[i]
      BY <1>2, <3>1 DEF Replies
    <3> QED
      BY <1>1, <2>4, <3>2 DEF Sets
  <2> QED
    BY <1>1, <2>1, <2>2, <2>3, <2>4, GrownWritten
<1> QED
  BY <1>8, <1>9

LEMMA ReadKeeps ==
    ASSUME BusInv, BusTypes', Protocol, Shown, Written, Answers', Read
    PROVE  Shown' /\ Written'
<1>1. Head(inbox).what \in {"signal", "owner", "reply"}
  BY DEF Read
<1> QED
  BY <1>1, ReadSignalKeeps, ReadOwnerKeeps, ReadReplyKeeps

-----------------------------------------------------------------------------
(* As long as nothing has left before it was added.                        *)

CalmInv == ~hasty => Protocol /\ Shown /\ Written /\ Answers

LEMMA CalmInit ==
    Init => CalmInv
<1> SUFFICES ASSUME Init PROVE CalmInv
  OBVIOUS
<1>1. Protocol /\ BusInv
  BY ProtocolInit, BusInit
<1>2. /\ owner = NoOne /\ inbox = <<>> /\ cache = [c \in Conns |-> Unseen] /\ lives = 0
      /\ \A t \in Tasks : tasks[t].pc \notin {"setting", "set"}
  BY DEF Init, NoTask
<1>3. \A p : News(p) = {}
  BY <1>2 DEF News
<1>4. Shown
  BY <1>2, <1>3 DEF Shown
<1>5. Written
  <2>1. Replies(inbox) = {}
    BY <1>2 DEF Replies
  <2> QED
    BY <1>2, <2>1 DEF Written, Addressed, Promised, ReadBack, Sets
<1>6. Answers
  BY <1>2 DEF Answers, Listens
<1> QED
  BY <1>1, <1>4, <1>5, <1>6 DEF CalmInv

LEMMA StillHasty ==
    ASSUME BusTypes, hasty, [Next]_vars
    PROVE  hasty'
<1>1. CASE Close \/ Leave
  BY <1>1 DEF Close, Leave
<1>2. CASE Register \/ AnswerSet \/ AnswerGet \/ Route \/ Read \/ Hop \/ WaitForService \/ UNCHANGED vars
  BY <1>2 DEF Register, AnswerSet, AnswerGet, Route, Read, Hop, WaitForService, vars, history
<1>3. CASE \E S \in SUBSET Paths \ {{}} : Write(S)
  BY <1>3 DEF Write
<1>4. ASSUME NEW t \in Tasks,
             \/ ListServices(t) \/ AddService(t) \/ SendMatches(t) \/ Scan(t) \/ Scanned(t)
             \/ RemoveService(t) \/ Removed(t) \/ Fetched(t) \/ SetDone(t)
             \/ \E p \in Paths, what \in {"get", "set"} : Call(t, p, what)
      PROVE  hasty'
  BY <1>4 DEF ListServices, AddService, SendMatches, Scan, Scanned, RemoveService, Removed, Fetched,
     SetDone, Call, history
<1> QED
  BY <1>1, <1>2, <1>3, <1>4 DEF Next

LEMMA CalmNext ==
    ASSUME BusInv, BusTypes', CalmInv, [Next]_vars
    PROVE  CalmInv'
<1> SUFFICES ASSUME ~hasty' PROVE (Protocol /\ Shown /\ Written /\ Answers)'
  BY DEF CalmInv
<1>1. Protocol /\ Shown /\ Written /\ Answers
  BY StillHasty DEF CalmInv, BusInv
<1>2. Protocol'
  BY <1>1, ProtocolNext
<1>3. Answers'
  BY <1>1, AnswersNext
<1>4. Shown' /\ Written'
  <2>1. CASE Close \/ WaitForService \/ UNCHANGED vars
    BY <1>1, <2>1, RestKeeps
  <2>2. CASE Register \/ Leave \/ AnswerSet \/ AnswerGet \/ Route \/ Read \/ Hop
    BY <1>1, <1>3, <2>2, RegisterKeeps, LeaveKeeps, AnswerSetKeeps, AnswerGetKeeps, RouteKeeps,
       ReadKeeps, HopKeeps
  <2>3. CASE \E S \in SUBSET Paths \ {{}} : Write(S)
    BY <1>1, <1>3, <2>3, WriteKeeps
  <2>4. ASSUME NEW t \in Tasks,
               \/ ListServices(t) \/ AddService(t) \/ SendMatches(t) \/ Scan(t)
               \/ RemoveService(t) \/ Removed(t) \/ SetDone(t)
        PROVE  Shown' /\ Written'
    BY <1>1, <2>4, ErrandsKeep
  <2>5. ASSUME NEW t \in Tasks, Scanned(t) \/ Fetched(t) PROVE Shown' /\ Written'
    BY <1>1, <1>3, <2>5, ScannedKeeps, FetchedKeeps
  <2>6. ASSUME NEW t \in Tasks, NEW p \in Paths, NEW what \in {"get", "set"}, Call(t, p, what)
        PROVE  Shown' /\ Written'
    BY <1>1, <2>6, CallKeeps
  <2> QED
    BY <2>1, <2>2, <2>3, <2>4, <2>5, <2>6 DEF Next
<1> QED
  BY <1>2, <1>3, <1>4

(* Every arrival and every departure has one token on its way, none ahead  *)
(* of what it must follow; what the monitor has, and what is on its way to *)
(* it, adds up to the present state of the bus.                            *)
THEOREM MonitorFollows == Spec => [](BusInv /\ CalmInv)
<1>1. Init => BusInv /\ CalmInv
  BY BusInit, CalmInit
<1>2. BusInv /\ CalmInv /\ [Next]_vars => (BusInv /\ CalmInv)'
  <2>1. ASSUME BusInv, CalmInv, [Next]_vars PROVE BusInv' /\ CalmInv'
    <3>1. BusInv'
      BY <2>1, BusNext
    <3>2. BusTypes'
      BY <3>1 DEF BusInv
    <3> QED
      BY <2>1, <3>1, <3>2, CalmNext
  <2> QED
    BY <2>1
<1> QED
  BY <1>1, <1>2, PTL DEF Spec

\* With nothing in flight there are no tokens and no news.
LEMMA Silence ==
    ASSUME BusInv, Protocol, Quiet
    PROVE  /\ Joins = {} /\ Parts = {} /\ Scans = {}
           /\ \A p : News(p) = {}
<1>1. inbox = <<>> /\ outq = <<>> /\ calls = <<>> /\ ready = <<>>
  BY DEF Quiet
<1>2. \A n \in Lanes : lanes[n] = <<>>
  <2>1. Lane("in", inbox, tasks) = <<>> /\ Lane("ready", ready, tasks) = <<>>
        /\ Lane("out", outq, tasks) = <<>> /\ Lane("call", calls, tasks) = <<>>
    BY <1>1 DEF Lane
  <2> QED
    BY <2>1, LanesAre DEF Lanes
<1>3. Labels(lanes) = {}
  BY <1>2 DEF Labels
<1>4. Joins = {} /\ Parts = {}
  BY <1>3 DEF Joins, Parts, Of
<1>5. Scans = {}
  BY <1>4, Scanning
<1>6. \A p : News(p) = {}
  BY <1>1 DEF News
<1> QED
  BY <1>4, <1>5, <1>6

(* Once nothing is in flight the monitor agrees with the bus, for any      *)
(* order announcements, signals, replies and tasks came in.                *)
THEOREM MonitorConverges == Spec => []Converged
<1>1. BusInv /\ CalmInv => Converged
  <2> SUFFICES ASSUME BusInv, CalmInv, Quiet, ~hasty
               PROVE  IF owner = NoOne
                      THEN services = {} /\ rules = 0 /\ byName \in {Absent, Pending}
                      ELSE /\ services = {owner} /\ byName = owner /\ rules = 1
                           /\ waiter \in {"none", "answered"}
                           /\ closing \/ \A p \in Paths \ (fetched \union missed) :
                                            cache[owner][p].value = vals[p]
    BY DEF Converged
  <2>1. Protocol /\ Shown /\ BusTypes /\ Registry
    BY DEF CalmInv, Protocol, BusInv
  <2>2. /\ Joins = {} /\ Parts = {} /\ Scans = {}
        /\ \A p : News(p) = {}
    BY <2>1, Silence
  <2>3. CASE owner = NoOne
    <3>1. ~Upto(Parts, 3)
      BY <2>2 DEF Upto
    <3> QED
      BY <2>1, <2>2, <2>3, <3>1 DEF Registry
  <2>4. CASE owner # NoOne
    <3>1. owner = lives /\ byName = owner
      BY <2>1, <2>2, <2>4, PartedIs DEF Registry
    <3>2. services = {lives} /\ rules = 1 /\ waiter \in {"none", "answered"}
      BY <2>1, <2>4, <3>1, AtRest DEF BusTypes, Known
    <3>3. ASSUME NEW p \in Paths \ (fetched \union missed) PROVE cache[owner][p].value = vals[p]
      <4>1. Agrees(p)
        BY <2>1, <2>4 DEF Shown
      <4> QED
        BY <2>2, <3>1, <4>1 DEF Agrees
    <3> QED
      BY <2>4, <3>1, <3>2, <3>3
  <2> QED
    BY <2>3, <2>4
<1> QED
  BY <1>1, MonitorFollows, PTL

(* When set_value returns 0 the caller reads its own value, or a newer     *)
(* one: the service sends the signal before the answer, it is read before  *)
(* the answer, and the monitor has added the process it comes from.        *)
THEOREM WritesAreRead == Spec => []ReadYourWrites
<1>1. BusInv /\ CalmInv => ReadYourWrites
  <2> SUFFICES ASSUME BusInv, CalmInv, NEW t \in Tasks, tasks[t].pc = "set", tasks[t].body # Error,
                      tasks[t].conn = lives, ~hasty, NEW p \in DOMAIN tasks[t].body[2] \ fetched
               PROVE  cache[tasks[t].conn][p].value >= tasks[t].body[2][p]
    BY DEF ReadYourWrites
  <2>1. Written /\ Answers
    BY DEF CalmInv
  <2>2. tasks[t].body \notin {<<>>, Error}
    <3>1. PICK f \in Changes : tasks[t].body = Items(f)
      BY <2>1 DEF Answers, Listens
    <3> QED
      BY <3>1 DEF Items
  <2>3. Shows(p, tasks[t].body[2][p])
    BY <2>1, <2>2 DEF Written, ReadBack
  <2> QED
    BY <2>3 DEF Shows
<1> QED
  BY <1>1, MonitorFollows, PTL

=============================================================================
