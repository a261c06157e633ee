------------------------------ MODULE HaClient ------------------------------
(***************************************************************************)
(* main.HaWebSocketClient and run_websocket_client: one asyncio task that  *)
(* connects, subscribes, applies a snapshot and listens; a refresh task it *)
(* starts while listening; and one daemon thread at a time for a blocking  *)
(* REST request.  Every action is what runs between two awaits (or under   *)
(* one lock, for the thread), so their interleavings are the program's.    *)
(*                                                                         *)
(* Home Assistant (ha, snap, the far end of inbox) is external: it changes *)
(* entities, sends an event for each change while subscribed, answers      *)
(* get_states with a snapshot it may have taken before events it sends     *)
(* first, answers REST requests with the current entity or not at all, and *)
(* loses connections.  Its clock is this host's; AcLoadChannel is where    *)
(* the clocks disagree.                                                    *)
(***************************************************************************)
EXTENDS AcLoad, Sequences, FiniteSets

CONSTANTS
    Selected,     \* the selected submeter's entity, in a sequence of 0 or 1
    Ordinary,     \* the other entities, in the order of channel_map
    StaleAfter,   \* each channel's freshness limit
    RefreshEvery, \* sleep between two sweeps (5 s)
    RestPause,    \* least time between two requests for a channel (5 s)
    Requests,     \* identities of futures and their threads; two suffice
    NoRequest,    \* _rest_future is None
    NoSnapshot,   \* the server holds no snapshot to send
    Changing,     \* bound: the entities that change in an instance
    Horizon       \* bound: the clock stops here

Channels == {Selected[k] : k \in DOMAIN Selected}
            \union {Ordinary[k] : k \in DOMAIN Ordinary}

ASSUME ClientAssumption ==
    /\ Selected \in Seq(Channels) /\ Ordinary \in Seq(Channels)
    /\ Len(Selected) <= 1
    /\ StaleAfter \in [Channels -> (Nat \ {0}) \union {Unlimited}]
    /\ RefreshEvery \in Nat \ {0}
    /\ RestPause \in Nat
    /\ NoRequest \notin Requests /\ Requests # {}
    /\ Changing \subseteq Channels
    /\ Horizon \in Nat

VARIABLES
    clock,       \* both time.monotonic() and time.time()
    ha,          \* external: each entity in Home Assistant
    subscribed,  \* external: the trigger subscription is active
    snap,        \* external: the snapshot Home Assistant is about to send
    inbox,       \* messages on the WebSocket, oldest first
    lost,        \* the connection broke; what is in inbox still arrives
    task,        \* where run_websocket_client is suspended
    eventTimes,  \* fetch_initial_states.event_updates
    ch,          \* the AcLoadService of each channel
    rev,         \* _event_revisions
    refresh,     \* the refresh_channels task
    restAfter,   \* _rest_after
    restFuture,  \* _rest_future (and _rest_waiter)
    restClosed,  \* _rest_closed
    session,     \* _rest_session is open
    req,         \* each request's thread and the result of its future
    seen,        \* history: newest report of each entity the client processed
    held         \* history: what the channel being fetched showed at the decision

haVars == <<ha, subscribed, snap>>
restVars == <<restAfter, restFuture, restClosed, session, req>>
vars == <<clock, ha, subscribed, snap, inbox, lost, task, eventTimes, ch, rev,
          refresh, restVars, seen, held>>

-----------------------------------------------------------------------------
(* Entities.  "at" is when Home Assistant made the report, known to the      *)
(* client only as the timestamp ts of an entity that exists.                 *)

Report(p, t) == [power |-> p, ts |-> t, at |-> t]
Removal(t)   == [power |-> NoPower, ts |-> NoTime, at |-> t]
NoEntity     == [power |-> NoPower, ts |-> NoTime, at |-> 0]

Event(c, e)  == [kind |-> "event", channel |-> c, entity |-> e]
Result(s)    == [kind |-> "result", states |-> s]
Refused      == [kind |-> "refused"]

Later(a, b) == IF a > b THEN a ELSE b

UpdateChannel(c, e) ==
    UpdateEntity(ch[c], e.power, e.ts, StaleAfter[c], clock, clock)

-----------------------------------------------------------------------------
(* The refresh task's sweep: the selected meter, then each ordinary channel  *)
(* with the selected meter checked again before it.                          *)

SweepLength == Len(Selected) + Len(Ordinary) * (Len(Selected) + 1)

\* Mutated form: the ordinary channels follow one another.
SweepAtStraight(i) ==
    LET n == Len(Selected)
    IN  IF i <= n THEN Selected[i]
        ELSE IF i <= n + Len(Ordinary) THEN Ordinary[i - n]
        ELSE Selected[1]

SweepAt(i) ==
    LET n == Len(Selected)
        k == i - n
    IN  IF i <= n THEN Selected[i]
        ELSE IF k % (n + 1) # 0 THEN Selected[k % (n + 1)]
        ELSE Ordinary[k \div (n + 1)]

NoRefresh == [pc |-> "none", at |-> 0, rev |-> 0, wake |-> 0]
Sleeping(t) == [pc |-> "sleeping", at |-> 0, rev |-> 0, wake |-> t]

(* revalidate_channel's first line, for the state a step leaves behind. *)
Due(c, chans, after) ==
    /\ NeedsRevalidation(chans[c], StaleAfter[c], clock)
    /\ clock >= after[c]

Live(r) == req[r].pc \in {"start", "reading", "finish"}
Done(r) == req[r].pc = "done"

IdleRequest == [pc |-> "unused", channel |-> SweepAt(1), answer |-> NoEntity]

(* fetch_entity past the drain: a new future and its daemon thread. *)
StartRequest(c, free) ==
    LET r == CHOOSE x \in Requests : x \in free
    IN  /\ restFuture' = r
        /\ req' = [q \in Requests |->
                     IF q = r THEN [IdleRequest EXCEPT !.pc = "start", !.channel = c]
                     ELSE IF q \in free THEN IdleRequest ELSE req[q]]

Spare(kept) == {r \in Requests : ~Live(r) /\ r # kept}

\* Mutated form: a request left behind is not waited for.
MustDrainNever(pending) == FALSE

MustDrain(pending) == pending # NoRequest

(* Go on with the sweep from position i: the next due channel captures its   *)
(* revision and fetches, behind an earlier request if one was left; with     *)
(* none due the task sleeps.                                                 *)
Continue(i, chans, after, pending) ==
    LET due == {k \in i..SweepLength : Due(SweepAt(k), chans, after)}
        k   == CHOOSE x \in due : \A y \in due : x <= y
    IN  \/ /\ due = {}
           /\ refresh' = Sleeping(clock + RefreshEvery)
           /\ restFuture' = pending
           /\ req' = [r \in Requests |-> IF r \in Spare(pending) THEN IdleRequest ELSE req[r]]
           /\ held' = NoTime
        \/ /\ due # {} /\ MustDrain(pending)
           /\ refresh' = [pc |-> "draining", at |-> k, rev |-> rev[SweepAt(k)], wake |-> 0]
           /\ held' = chans[SweepAt(k)].lastUpdate
           /\ restFuture' = pending
           /\ UNCHANGED req
        \/ /\ due # {} /\ ~MustDrain(pending)
           /\ refresh' = [pc |-> "awaiting", at |-> k, rev |-> rev[SweepAt(k)], wake |-> 0]
           /\ held' = chans[SweepAt(k)].lastUpdate
           /\ StartRequest(SweepAt(k), Spare(NoRequest))

-----------------------------------------------------------------------------
(* Home Assistant and the network: external.                                 *)

Connected == task \in {"subscribing", "snapshot", "listening"}

(* An entity changes, becomes unavailable or is removed. *)
ServerReport(c, e) ==
    /\ task # "stopped"
    /\ ha[c].at < clock
    /\ ha' = [ha EXCEPT ![c] = e]
    /\ inbox' = IF subscribed /\ ~lost THEN Append(inbox, Event(c, e)) ELSE inbox
    /\ UNCHANGED <<clock, subscribed, snap, lost, task, eventTimes, ch, rev,
                   refresh, restVars, seen, held>>

ServerSubscribe ==
    /\ task = "subscribing" /\ ~lost /\ ~subscribed
    /\ subscribed' = TRUE
    /\ UNCHANGED <<clock, ha, snap, inbox, lost, task, eventTimes, ch, rev,
                   refresh, restVars, seen, held>>

(* get_states: the states are read first and sent later. *)
ServerReadStates ==
    /\ task = "snapshot" /\ ~lost /\ snap = NoSnapshot
    /\ \A k \in DOMAIN inbox : inbox[k].kind = "event"
    /\ snap' = ha
    /\ UNCHANGED <<clock, ha, subscribed, inbox, lost, task, eventTimes, ch, rev,
                   refresh, restVars, seen, held>>

ServerAnswer ==
    /\ snap # NoSnapshot /\ ~lost
    /\ snap' = NoSnapshot
    /\ \E m \in {Result(snap), Refused} : inbox' = Append(inbox, m)
    /\ UNCHANGED <<clock, ha, subscribed, lost, task, eventTimes, ch, rev,
                   refresh, restVars, seen, held>>

(* The connection breaks; some of what was under way still arrives. *)
LoseConnection ==
    /\ Connected /\ ~lost
    /\ lost' = TRUE
    /\ snap' = NoSnapshot
    /\ \E n \in 0..Len(inbox) : inbox' = SubSeq(inbox, 1, n)
    /\ UNCHANGED <<clock, ha, subscribed, task, eventTimes, ch, rev,
                   refresh, restVars, seen, held>>

-----------------------------------------------------------------------------
(* run_websocket_client and the methods it awaits.                           *)

NoTimes == [c \in Channels |-> <<>>]

(* connect: the client may use REST again; then TCP, authentication. *)
Connect ==
    /\ task = "waiting"
    /\ task' = "opening"
    /\ restClosed' = FALSE
    /\ UNCHANGED <<clock, haVars, inbox, lost, eventTimes, ch, rev, refresh,
                   restAfter, restFuture, session, req, seen, held>>

(* auth_ok: subscribe_triggers sends its request. *)
Opened ==
    /\ task = "opening"
    /\ task' = "subscribing"
    /\ UNCHANGED <<clock, haVars, inbox, lost, eventTimes, ch, rev, refresh,
                   restVars, seen, held>>

(* The subscription is confirmed: fetch_initial_states sends get_states. *)
Subscribed ==
    /\ task = "subscribing" /\ subscribed
    /\ task' = "snapshot"
    /\ eventTimes' = NoTimes
    /\ UNCHANGED <<clock, haVars, inbox, lost, ch, rev, refresh, restVars, seen, held>>

(* handle_message for a trigger event; while the snapshot is awaited its     *)
(* time is also kept in event_updates.                                       *)
HandleEvent ==
    /\ task \in {"snapshot", "listening"}
    /\ inbox # <<>> /\ Head(inbox).kind = "event"
    /\ LET c == Head(inbox).channel
           e == Head(inbox).entity
       IN  /\ rev' = [rev EXCEPT ![c] = @ + 1]
           /\ ch' = [ch EXCEPT ![c] = UpdateChannel(c, e)]
           /\ seen' = [seen EXCEPT ![c] = Later(@, e.at)]
           /\ eventTimes' = IF task = "snapshot"
                              THEN [eventTimes EXCEPT ![c] = <<e.ts>>] ELSE eventTimes
    /\ inbox' = Tail(inbox)
    /\ UNCHANGED <<clock, haVars, lost, task, refresh, restVars, held>>

\* Mutated form: an event without a time does not count.
SupersedesUntimed(c, e) ==
    eventTimes[c] # <<>> =>
        LET t == eventTimes[c][1]
        IN  t = NoTime \/ e.ts = NoTime \/ t < e.ts

(* Events that arrived before the reply win unless the snapshot is newer. *)
Supersedes(c, e) ==
    eventTimes[c] # <<>> =>
        LET t == eventTimes[c][1]
        IN  t # NoTime /\ e.ts # NoTime /\ t < e.ts

(* The reply to get_states; a refused one is only logged.  listen then       *)
(* starts the refresh task, which sleeps first.                              *)
StatesAnswered ==
    /\ task = "snapshot"
    /\ inbox # <<>> /\ Head(inbox).kind # "event"
    /\ LET applied == IF Head(inbox).kind = "refused" THEN {}
                       ELSE {c \in Channels : /\ Head(inbox).states[c].ts # NoTime
                                              /\ Supersedes(c, Head(inbox).states[c])}
       IN  /\ ch' = [c \in Channels |->
                       IF c \in applied THEN UpdateChannel(c, Head(inbox).states[c]) ELSE ch[c]]
           /\ seen' = [c \in Channels |->
                         IF c \in applied THEN Later(seen[c], Head(inbox).states[c].at)
                                          ELSE seen[c]]
    /\ inbox' = Tail(inbox)
    /\ task' = "listening"
    /\ eventTimes' = NoTimes
    /\ refresh' = Sleeping(clock + RefreshEvery)
    /\ UNCHANGED <<clock, haVars, lost, rev, restVars, held>>

\* Mutated form: losing the connection leaves readings to expire.
AllWithdrawnByExpiry == [c \in Channels |-> Expire(ch[c], StaleAfter[c], clock)]

AllWithdrawn == [c \in Channels |-> Invalidate(ch[c])]

SessionIdle == restFuture = NoRequest \/ Done(restFuture)

(* What every way out of a connection does before its next await: the        *)
(* refresh task is cancelled and awaited, set_connected(False) withdraws     *)
(* every reading, and disconnect closes the session unless a thread may      *)
(* still be using it.  The WebSocket is closed and forgotten.                *)
GoOffline ==
    /\ ch' = AllWithdrawn
    /\ refresh' = NoRefresh
    /\ restClosed' = TRUE
    /\ session' = (session /\ ~SessionIdle)
    /\ inbox' = <<>> /\ lost' = FALSE
    /\ subscribed' = FALSE /\ snap' = NoSnapshot
    /\ eventTimes' = NoTimes
    /\ held' = NoTime
    /\ UNCHANGED <<clock, ha, rev, restAfter, restFuture, req, seen>>

(* Refused, timed out or broken while connecting; or listen ends because the *)
(* connection is lost and its last message has been read.                    *)
ConnectionEnds ==
    /\ \/ task \in {"opening", "subscribing", "snapshot"}
       \/ task = "listening" /\ lost /\ inbox = <<>>
    /\ task' = "waiting"
    /\ GoOffline

(* A termination signal cancels the task wherever it is suspended, and       *)
(* run_service_workers disconnects the client once more.                     *)
Stop ==
    /\ task # "stopped"
    /\ task' = "stopped"
    /\ GoOffline

-----------------------------------------------------------------------------
(* The refresh task, alive only while listening.                             *)

RefreshWake ==
    /\ refresh.pc = "sleeping" /\ clock >= refresh.wake
    /\ Continue(1, ch, restAfter, restFuture)
    /\ UNCHANGED <<clock, haVars, inbox, lost, task, eventTimes, ch, rev,
                   restAfter, restClosed, session, seen>>

(* A request left by an earlier connection has ended: its answer is dropped. *)
Drained ==
    /\ refresh.pc = "draining" /\ Done(restFuture)
    /\ LET c == SweepAt(refresh.at)
       IN  \/ /\ ~restClosed
              /\ StartRequest(c, Spare(NoRequest))
              /\ refresh' = [refresh EXCEPT !.pc = "awaiting"]
              /\ UNCHANGED <<restAfter, held>>
           \/ /\ restClosed
              /\ restAfter' = [restAfter EXCEPT ![c] = clock + RestPause]
              /\ Continue(refresh.at + 1, ch, restAfter', restFuture)
    /\ UNCHANGED <<clock, haVars, inbox, lost, task, eventTimes, ch, rev,
                   restClosed, session, seen>>

\* Mutated form: events that came meanwhile do not matter.
MayApplyAnyway(c) == ~restClosed

(* revalidate_channel after its await: the answer counts only if no event    *)
(* came for the channel meanwhile; then on with the sweep.                   *)
MayApply(c) == ~restClosed /\ refresh.rev = rev[c]

Fetched ==
    /\ refresh.pc = "awaiting" /\ Done(restFuture)
    /\ LET c == SweepAt(refresh.at)
           e == req[restFuture].answer
       IN  /\ restAfter' = [restAfter EXCEPT ![c] = clock + RestPause]
           /\ ch' = IF MayApply(c) THEN [ch EXCEPT ![c] = UpdateChannel(c, e)] ELSE ch
           /\ seen' = IF MayApply(c) THEN [seen EXCEPT ![c] = Later(@, e.at)] ELSE seen
           /\ Continue(refresh.at + 1, ch', restAfter', NoRequest)
    /\ UNCHANGED <<clock, haVars, inbox, lost, task, eventTimes, rev,
                   restClosed, session>>

-----------------------------------------------------------------------------
(* _read_entity: the daemon thread of request r.                             *)

threadUnchanged == <<clock, haVars, inbox, lost, task, eventTimes, ch, rev,
                     refresh, restAfter, restFuture, restClosed, seen, held>>

\* Mutated form: giving up never completes the future.
ThreadStartSilent(r) ==
    /\ req[r].pc = "start"
    /\ req' = [req EXCEPT ![r].pc = IF restClosed THEN "gone" ELSE "reading"]
    /\ session' = (session \/ ~restClosed)
    /\ UNCHANGED threadUnchanged

(* Under _rest_lock: give up if disconnected, else open or reuse the session. *)
ThreadStart(r) ==
    /\ req[r].pc = "start"
    /\ req' = [req EXCEPT ![r].pc = IF restClosed THEN "finish" ELSE "reading"]
    /\ session' = (session \/ ~restClosed)
    /\ UNCHANGED threadUnchanged

(* The HTTP exchange: the entity as it is now, or a failure of any kind.  An *)
(* entity that was removed is a failure (404).                               *)
ThreadRead(r) ==
    /\ req[r].pc = "reading"
    /\ \E e \in {NoEntity, ha[req[r].channel]} :
         /\ e.ts = NoTime => e = NoEntity
         /\ req' = [req EXCEPT ![r].pc = "finish", ![r].answer = e]
    /\ UNCHANGED <<session, threadUnchanged>>

\* Mutated form: the last user of a disconnected session leaves it open.
ThreadFinishLeaves(r) ==
    /\ req[r].pc = "finish"
    /\ req' = [req EXCEPT ![r].pc = "done"]
    /\ session' = session
    /\ UNCHANGED threadUnchanged

(* Under _rest_lock: close the session if the client disconnected meanwhile, *)
(* and complete the future.                                                  *)
ThreadFinish(r) ==
    /\ req[r].pc = "finish"
    /\ req' = [req EXCEPT ![r].pc = "done"]
    /\ session' = (session /\ ~restClosed)
    /\ UNCHANGED threadUnchanged

-----------------------------------------------------------------------------

(* heartbeat_task's expiry pass over every channel. *)
ExpirePass ==
    /\ \E c \in Channels : IsShown(ch[c])
    /\ ch' = [c \in Channels |-> Expire(ch[c], StaleAfter[c], clock)]
    /\ UNCHANGED <<clock, haVars, inbox, lost, task, eventTimes, rev, refresh,
                   restVars, seen, held>>

Tick ==
    /\ clock < Horizon
    /\ clock' = clock + 1
    /\ UNCHANGED <<haVars, inbox, lost, task, eventTimes, ch, rev, refresh,
                   restVars, seen, held>>

Init ==
    /\ clock = 0
    /\ ha \in [Channels -> {Report(p, 0) : p \in Reading}]
    /\ subscribed = FALSE /\ snap = NoSnapshot /\ inbox = <<>> /\ lost = FALSE
    /\ task = "waiting"
    /\ eventTimes = NoTimes
    /\ ch = [c \in Channels |-> NewChannel]
    /\ rev = [c \in Channels |-> 0]
    /\ refresh = NoRefresh
    /\ restAfter = [c \in Channels |-> 0]
    /\ restFuture = NoRequest /\ restClosed = FALSE /\ session = FALSE
    /\ req = [r \in Requests |-> IdleRequest]
    /\ seen = [c \in Channels |-> 0]
    /\ held = NoTime

Server ==
    \/ \E c \in Changing, p \in Reading : ServerReport(c, Report(p, clock))
    \/ \E c \in Changing : ServerReport(c, Removal(clock))
    \/ ServerSubscribe \/ ServerReadStates \/ ServerAnswer \/ LoseConnection

Client ==
    \/ Connect \/ Opened \/ Subscribed \/ HandleEvent \/ StatesAnswered
    \/ ConnectionEnds \/ Stop

RefreshTask == RefreshWake \/ Drained \/ Fetched

Thread(r) == ThreadStart(r) \/ ThreadRead(r) \/ ThreadFinish(r)

Next ==
    \/ Server \/ Client \/ RefreshTask \/ (\E r \in Requests : Thread(r))
    \/ ExpirePass \/ Tick

Spec == Init /\ [][Next]_vars

(* The event loop runs a ready task, the scheduler a thread, and a blocking  *)
(* request ends by its own connect and read timeouts.                        *)
FairSpec == /\ Spec
            /\ WF_vars(RefreshTask)
            /\ \A r \in Requests : WF_vars(Thread(r))

-----------------------------------------------------------------------------

(* Requests are serialised through one session: however often connections    *)
(* come and go, at most one thread is ever at work (configuration.md:        *)
(* disconnect/shutdown cannot start an overlapping request).                 *)
OneRequest == \A q, r \in Requests : Live(q) /\ Live(r) => q = r

(* Whoever comes last, a disconnect or a request thread, closes the session: *)
(* no thread has it closed under it, and after shutdown it is only open      *)
(* while a thread is left to use it.                                         *)
SessionHandedOver ==
    /\ \A r \in Requests : req[r].pc = "reading" => session
    /\ task = "stopped" /\ session => \E r \in Requests : Live(r)

(* Without a subscription that works nothing is shown as current: not while  *)
(* reconnecting, not after shutdown, whatever answer is still under way.     *)
OfflineShowsNothing ==
    task \in {"waiting", "opening", "subscribing", "stopped"} =>
        \A c \in Channels : ~IsShown(ch[c])

(* Whatever order events, snapshot and REST answers arrive in, a channel     *)
(* never shows a report older than one the client has already processed,     *)
(* removals, which carry no timestamp, included (architecture.md: initial    *)
(* snapshots must not overwrite newer events).                               *)
NothingOlderThanSeen ==
    \A c \in Channels : IsShown(ch[c]) => ch[c].lastUpdate >= seen[c]

(* A failed REST answer withdraws only what was already shown when its       *)
(* request was decided on, never the reading an event brought meanwhile.     *)
AnswerConsumed(c) ==
    /\ refresh.pc = "awaiting" /\ SweepAt(refresh.at) = c
    /\ refresh' # refresh /\ task' = "listening"
Withdraws(c) == IsShown(ch[c]) /\ ~IsShown(ch'[c])

FailureSparesNewer ==
    [][\A c \in Channels :
         AnswerConsumed(c) /\ Withdraws(c) => ch[c].lastUpdate = held]_vars

(* A slow ordinary request defers the selected meter behind no other: when   *)
(* it ends and the sweep goes straight on to another request, that request   *)
(* is the selected meter's if the meter is due by then.                      *)
GoesStraightOn == /\ refresh.pc = "awaiting" /\ refresh'.pc = "awaiting"
                  /\ refresh'.at # refresh.at

SelectedNotDeferred ==
    [][GoesStraightOn =>
         \A c \in {Selected[k] : k \in DOMAIN Selected} :
           SweepAt(refresh.at) # c /\ Due(c, ch', restAfter')
             => SweepAt(refresh'.at) = c]_vars

(* The refresh task never waits for ever: not for its own request, nor for   *)
(* one a cancelled connection left behind.                                   *)
FetchEnds ==
    \A k \in 1..SweepLength :
        refresh.pc \in {"draining", "awaiting"} /\ refresh.at = k
          ~> ~(refresh.pc \in {"draining", "awaiting"} /\ refresh.at = k)

=============================================================================
