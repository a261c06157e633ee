----------------------------- MODULE BusMonitor -----------------------------
(***************************************************************************)
(* aiovelib on both sides of the D-Bus: service.Service, a process that    *)
(* publishes items under a well-known name, and client.Monitor, which      *)
(* follows that name through its processes and caches the items.  Between  *)
(* them the daemon routes calls to the owner of the name, filters signals  *)
(* by the match rules and announces owners.  Values are the numbers of     *)
(* the writes that gave them, so newer is greater.                         *)
(***************************************************************************)
EXTENDS Naturals, Sequences, FiniteSets

CONSTANTS
    Paths,      \* items of the service
    MaxLives,   \* bound: processes that take the name, one after another
    MaxWrites,  \* bound: writes, the values a process starts with included
    MaxCalls    \* bound: fetch_value and set_value calls of the program

ASSUME BusAssumption == /\ Paths # {} /\ MaxLives \in Nat \ {0}
                        /\ MaxWrites \in Nat /\ MaxCalls \in Nat

Conns == 1..MaxLives
NoOne == 0
\* One task for Monitor.create, one for each owner change, one for each call.
Tasks == 1..(1 + 2 * MaxLives + MaxCalls)

VARIABLES
    owner,     \* the process that owns the name, NoOne when nobody does
    lives,     \* processes started so far
    wrote,     \* writes so far
    vals,      \* Service.objects: the values of the items
    closing,   \* close() has unexported the items, not yet freed the name
    rules,     \* the daemon's count of the monitor's match rule pair
    outq,      \* monitor to daemon
    calls,     \* calls that wait at the publishing process
    inbox,     \* daemon to monitor
    tasks,     \* the monitor's asyncio tasks
    ready,     \* the event loop's queue: a task and the hops still to go
    services,  \* _services: its keys
    cache,     \* Service.values of each process: value and seen
    byName,    \* _services_by_name[name]: absent, pending, or a process
    waiter,    \* the caller of wait_for_service
    fetched,   \* history: items fetch_value has written
    hasty,     \* history: a process left before the monitor had added it
    missed     \* history: items whose last write no rule let through although
               \* the monitor had an earlier one of the same process

publisher == <<owner, lives, wrote, vals, closing>>
daemon == <<rules, calls>>
monitor == <<services, cache, byName, waiter>>
history == <<fetched, hasty, missed>>
vars == <<publisher, daemon, outq, inbox, tasks, ready, monitor, history>>

\* A name with no entry, and one whose future has no result yet.
Absent == NoOne
Pending == MaxLives + 1
Unseen == [p \in Paths |-> [value |-> 0, seen |-> FALSE]]
NoTask == [pc |-> "none", conn |-> NoOne, body |-> <<>>]

Init == /\ owner = NoOne /\ lives = 0 /\ wrote = 0 /\ closing = FALSE
        /\ vals = [p \in Paths |-> 0]
        /\ rules = 0 /\ calls = <<>> /\ inbox = <<>>
        /\ outq = <<[what |-> "names", task |-> 1]>>
        /\ tasks = [t \in Tasks |-> IF t = 1 THEN [NoTask EXCEPT !.pc = "names"]
                                    ELSE NoTask]
        /\ ready = <<>> /\ services = {} /\ cache = [c \in Conns |-> Unseen]
        /\ byName = Absent /\ waiter = "none"
        /\ fetched = {} /\ hasty = FALSE /\ missed = {}

-----------------------------------------------------------------------------
(* The publishing process, and the daemon's announcements about it.        *)

Owners(old, new) == [what |-> "owner", old |-> old, new |-> new]
Answer(t, body) == [what |-> "reply", task |-> t, body |-> body]
Error == <<"error">>
Items(values) == <<"items", values>>
Found(c) == <<"owner", c>>

(* register: DO_NOT_QUEUE, so the name is free.                            *)
Register ==
    /\ owner = NoOne /\ lives < MaxLives /\ wrote < MaxWrites
    /\ lives' = lives + 1 /\ owner' = lives' /\ wrote' = wrote + 1
    /\ vals' = [p \in Paths |-> wrote'] /\ closing' = FALSE
    /\ inbox' = Append(inbox, Owners(NoOne, owner'))
    /\ missed' = {}
    /\ UNCHANGED <<daemon, outq, tasks, ready, monitor, fetched, hasty>>

\* A signal reaches the monitor when one of its rules matches.
Signal(changes) ==
    IF rules = 0 THEN <<>>
    ELSE <<[what |-> "signal", from |-> owner, items |-> changes]>>

\* Between the rules of two processes there are none: what was written then
\* is missed by a monitor that had an earlier value from the new process.
Heard(p) == \/ cache[owner][p].seen
            \/ \E i \in DOMAIN inbox : /\ inbox[i].what = "signal" /\ inbox[i].from = owner
                                       /\ p \in DOMAIN inbox[i].items

Misses(S) == missed' = IF rules = 0 THEN missed \union {p \in S : Heard(p)} ELSE missed \ S

(* A with block: every item set in it, then one ItemsChanged for those     *)
(* that changed.                                                           *)
Write(S) ==
    /\ owner # NoOne /\ ~closing /\ wrote < MaxWrites
    /\ wrote' = wrote + 1
    /\ vals' = [p \in Paths |-> IF p \in S THEN wrote' ELSE vals[p]]
    /\ inbox' = inbox \o Signal([p \in S |-> wrote']) /\ Misses(S)
    /\ UNCHANGED <<owner, lives, closing, daemon, outq, tasks, ready, monitor, fetched, hasty>>

\* Mutated form: the reply goes out before the signal.
ReplyFirst(t, change) ==
    inbox' = inbox \o <<Answer(t, Items(change))>> \o Signal(change)

(* Item.SetValue: the signal of the new value is sent before the reply.    *)
SignalFirst(t, change) ==
    inbox' = inbox \o Signal(change) \o <<Answer(t, Items(change))>>

AnswerSet ==
    /\ calls # <<>> /\ Head(calls).what = "set" /\ ~closing /\ wrote < MaxWrites
    /\ wrote' = wrote + 1
    /\ vals' = [vals EXCEPT ![Head(calls).path] = wrote']
    /\ SignalFirst(Head(calls).task, [p \in {Head(calls).path} |-> wrote'])
    /\ Misses({Head(calls).path}) /\ calls' = Tail(calls)
    /\ UNCHANGED <<owner, lives, closing, rules, outq, tasks, ready, monitor, fetched, hasty>>

(* GetItems, GetValue: the present values.  An error once they are         *)
(* unexported, and for a value the item does not take.                     *)
AnswerGet ==
    /\ calls # <<>>
    /\ LET call == Head(calls)
       IN inbox' = Append(inbox, Answer(call.task,
                     IF closing \/ call.what = "set" THEN Error
                     ELSE IF call.what = "items" THEN Items(vals)
                     ELSE Items([p \in {call.path} |-> vals[p]])))
    /\ calls' = Tail(calls)
    /\ UNCHANGED <<publisher, rules, outq, tasks, ready, monitor, history>>

(* close: the items first, then the name.                                  *)
Close ==
    /\ owner # NoOne /\ ~closing
    /\ closing' = TRUE /\ hasty' = (hasty \/ byName # owner)
    /\ UNCHANGED <<owner, lives, wrote, vals, daemon, outq, inbox, tasks, ready,
                   monitor, fetched, missed>>

(* The process ends, after close or without it: the daemon announces it    *)
(* and answers the calls it leaves.                                        *)
Leave ==
    /\ owner # NoOne
    /\ owner' = NoOne /\ closing' = FALSE /\ hasty' = (hasty \/ byName # owner)
    /\ inbox' = inbox \o <<Owners(owner, NoOne)>>
                      \o [i \in 1..Len(calls) |-> Answer(calls[i].task, Error)]
    /\ calls' = <<>>
    /\ UNCHANGED <<lives, wrote, vals, rules, outq, tasks, ready, monitor, fetched, missed>>

(* The daemon takes the monitor's next message: rules are counted, the     *)
(* calls to the service go to the owner of the name.                       *)
Route ==
    /\ outq # <<>>
    /\ outq' = Tail(outq)
    /\ LET msg == Head(outq)
           reply(r) == inbox' = Append(inbox, Answer(msg.task, r))
       IN \/ /\ msg.what = "match"
             /\ rules' = rules + 1 /\ reply(<<>>) /\ calls' = calls
          \/ /\ msg.what = "unmatch"
             /\ rules' = (IF rules = 0 THEN 0 ELSE rules - 1)
             /\ reply(<<>>) /\ calls' = calls
          \/ /\ msg.what \in {"names", "owner"}
             /\ reply(Found(owner)) /\ UNCHANGED daemon
          \/ /\ msg.what \in {"items", "get", "set"} /\ owner = NoOne
             /\ reply(Error) /\ UNCHANGED daemon
          \/ /\ msg.what \in {"items", "get", "set"} /\ owner # NoOne
             /\ calls' = Append(calls, msg) /\ UNCHANGED <<rules, inbox>>
    /\ UNCHANGED <<publisher, tasks, ready, monitor, history>>

-----------------------------------------------------------------------------
(* The monitor's message handler, and the queue of its event loop.         *)

Free(t) == tasks[t].pc = "none" /\ \A u \in Tasks : tasks[u].pc = "none" => t <= u
Schedule(t, hops) == [task |-> t, hops |-> hops]

(* items of update_items are applied whatever was there before; those of   *)
(* update_unseen_items only where no signal came first.                    *)
Updated(items, c) ==
    [cache EXCEPT ![c] = [p \in Paths |->
        IF p \in DOMAIN items THEN [value |-> items[p], seen |-> TRUE] ELSE cache[c][p]]]

\* Mutated form: a scan overwrites what a signal has brought.
ScanAll(items, c) == Updated(items, c)

UpdatedUnseen(items, c) ==
    [cache EXCEPT ![c] = [p \in Paths |->
        IF ~cache[c][p].seen THEN [value |-> items[p], seen |-> TRUE] ELSE cache[c][p]]]

\* Mutated form: signals wait until the service has been scanned.
SignalWhenFound(msg) ==
    cache' = IF byName = msg.from THEN Updated(msg.items, msg.from) ELSE cache

(* ItemsChanged of a process in _services, whatever its scan has reached.  *)
HandleSignal(msg) ==
    cache' = IF msg.from \in services THEN Updated(msg.items, msg.from) ELSE cache

\* A call made through asyncio.gather resumes its caller two hops later.
Gathers == {"matching", "removing", "undoing"}

Read ==
    /\ inbox # <<>>
    /\ inbox' = Tail(inbox)
    /\ LET msg == Head(inbox)
       IN \/ /\ msg.what = "signal"
             /\ HandleSignal(msg) /\ UNCHANGED <<tasks, ready>>
          \/ /\ msg.what = "owner"
             /\ \E t \in Tasks :
                  /\ Free(t)
                  /\ tasks' = [tasks EXCEPT ![t] =
                        IF msg.new = NoOne THEN [NoTask EXCEPT !.pc = "remove", !.conn = msg.old]
                        ELSE [NoTask EXCEPT !.pc = "add", !.conn = msg.new]]
                  /\ ready' = Append(ready, Schedule(t, 0))
             /\ cache' = cache
          \/ /\ msg.what = "reply"
             /\ tasks' = [tasks EXCEPT ![msg.task].body = msg.body]
             /\ ready' = Append(ready, Schedule(msg.task,
                            IF tasks[msg.task].pc \in Gathers THEN 2 ELSE 0))
             /\ cache' = cache
    /\ UNCHANGED <<publisher, daemon, outq, services, byName, waiter, history>>

Hop ==
    /\ ready # <<>> /\ Head(ready).hops > 0
    /\ ready' = Append(Tail(ready), Schedule(Head(ready).task, Head(ready).hops - 1))
    /\ UNCHANGED <<publisher, daemon, outq, inbox, tasks, monitor, history>>

Runs(t, pc) == /\ ready # <<>> /\ Head(ready) = Schedule(t, 0)
               /\ tasks[t].pc = pc
Goes(t, pc) == /\ tasks' = [tasks EXCEPT ![t].pc = pc, ![t].body = <<>>]
               /\ ready' = Tail(ready)
\* asyncio.gather starts its coroutines one hop later.
GoesOn(t, pc) == /\ tasks' = [tasks EXCEPT ![t].pc = pc, ![t].body = <<>>]
                 /\ ready' = Append(Tail(ready), Schedule(t, 0))
Send(t, what) == outq' = Append(outq, [what |-> what, task |-> t])

-----------------------------------------------------------------------------
(* The monitor's coroutines, from one await to the next.                   *)

(* create: list_dbus_services asks for the names, then for the owner.      *)
ListServices(t) ==
    /\ \/ /\ Runs(t, "names") /\ tasks[t].body[2] # NoOne
          /\ Send(t, "owner") /\ Goes(t, "whose")
       \/ /\ Runs(t, "names") /\ tasks[t].body[2] = NoOne
          /\ Goes(t, "done") /\ outq' = outq
       \/ /\ Runs(t, "whose") /\ tasks[t].body[2] # NoOne
          /\ tasks' = [tasks EXCEPT ![t] = [NoTask EXCEPT !.pc = "add",
                                              !.conn = tasks[t].body[2]]]
          /\ ready' = Append(Tail(ready), Schedule(t, 0)) /\ outq' = outq
       \/ /\ Runs(t, "whose") /\ tasks[t].body[2] = NoOne
          /\ Goes(t, "done") /\ outq' = outq
    /\ UNCHANGED <<publisher, daemon, inbox, monitor, history>>

(* add_service: the process enters _services before anything is awaited.   *)
AddService(t) ==
    /\ Runs(t, "add")
    /\ services' = services \union {tasks[t].conn}
    /\ IF tasks[t].conn \in services THEN Goes(t, "done") ELSE GoesOn(t, "match")
    /\ UNCHANGED <<publisher, daemon, outq, inbox, cache, byName, waiter, history>>

(* add_match, _remove_matches: the messages of a gather.                   *)
SendMatches(t) ==
    /\ \/ Runs(t, "match") /\ Send(t, "match") /\ Goes(t, "matching")
       \/ Runs(t, "unmatch") /\ Send(t, "unmatch") /\ Goes(t, "removing")
       \/ Runs(t, "undo") /\ Send(t, "unmatch") /\ Goes(t, "undoing")
    /\ UNCHANGED <<publisher, daemon, inbox, monitor, history>>

(* scan_service: GetItems to the name.                                     *)
Scan(t) ==
    /\ Runs(t, "matching") /\ Send(t, "items") /\ Goes(t, "scanning")
    /\ UNCHANGED <<publisher, daemon, inbox, monitor, history>>

(* set_result: a future that is done already refuses it.                   *)
SetResult(c) ==
    IF byName \in {Absent, Pending}
      THEN /\ byName' = c
           /\ waiter' = IF waiter = "waiting" THEN "answered" ELSE waiter
      ELSE UNCHANGED <<byName, waiter>>

Scanned(t) ==
    /\ \/ /\ Runs(t, "scanning") /\ tasks[t].body # Error
          /\ cache' = UpdatedUnseen(tasks[t].body[2], tasks[t].conn)
          /\ SetResult(tasks[t].conn)
          /\ Goes(t, "done")
       \/ /\ Runs(t, "scanning") /\ tasks[t].body = Error
          /\ GoesOn(t, "undo") /\ UNCHANGED <<cache, byName, waiter>>
       \/ /\ Runs(t, "undoing")
          /\ Goes(t, "done") /\ UNCHANGED <<cache, byName, waiter>>
    /\ UNCHANGED <<publisher, daemon, outq, inbox, services, history>>

RemoveService(t) ==
    /\ Runs(t, "remove")
    /\ IF tasks[t].conn \in services THEN GoesOn(t, "unmatch") ELSE Goes(t, "done")
    /\ UNCHANGED <<publisher, daemon, outq, inbox, monitor, history>>

(* del _services_by_name[name]: with a pending future, its waiter is left  *)
(* behind; with none, the task ends with a KeyError.                       *)
ForgetName ==
    /\ byName' = Absent
    /\ waiter' = IF byName = Pending /\ waiter = "waiting" THEN "lost" ELSE waiter

Removed(t) ==
    /\ Runs(t, "removing") /\ Goes(t, "done")
    /\ services' = services \ {tasks[t].conn}
    /\ ForgetName
    /\ UNCHANGED <<publisher, daemon, outq, inbox, cache, history>>

-----------------------------------------------------------------------------
(* The program's calls.                                                    *)

WaitForService ==
    /\ waiter = "none"
    /\ IF byName \in {Absent, Pending}
         THEN waiter' = "waiting" /\ byName' = Pending
         ELSE waiter' = "answered" /\ byName' = byName
    /\ UNCHANGED <<publisher, daemon, outq, inbox, tasks, ready, services, cache, history>>

CallsMade == Cardinality({t \in Tasks : tasks[t].pc \in {"getting", "setting", "got", "set"}})

(* Service.fetch_value and Monitor.set_value of a service that is known.   *)
Call(t, p, what) ==
    /\ byName \in Conns /\ CallsMade < MaxCalls /\ Free(t)
    /\ tasks' = [tasks EXCEPT ![t] = [NoTask EXCEPT !.conn = byName,
                    !.pc = IF what = "get" THEN "getting" ELSE "setting"]]
    /\ outq' = Append(outq, [what |-> what, task |-> t, path |-> p])
    /\ UNCHANGED <<publisher, daemon, inbox, ready, monitor, history>>

Fetched(t) ==
    /\ Runs(t, "getting")
    /\ Goes(t, "got")
    /\ IF tasks[t].body = Error THEN UNCHANGED <<cache, fetched>>
       ELSE /\ cache' = Updated(tasks[t].body[2], tasks[t].conn)
            /\ fetched' = fetched \union DOMAIN tasks[t].body[2]
    /\ UNCHANGED <<publisher, daemon, outq, inbox, services, byName, waiter, hasty, missed>>

SetDone(t) ==
    /\ Runs(t, "setting")
    /\ tasks' = [tasks EXCEPT ![t].pc = "set"]
    /\ ready' = Tail(ready)
    /\ UNCHANGED <<publisher, daemon, outq, inbox, monitor, history>>

Next == \/ Register \/ Close \/ Leave \/ AnswerSet \/ AnswerGet
        \/ \E S \in SUBSET Paths \ {{}} : Write(S)
        \/ Route \/ Read \/ Hop
        \/ \E t \in Tasks : \/ ListServices(t) \/ AddService(t) \/ SendMatches(t)
                             \/ Scan(t) \/ Scanned(t) \/ RemoveService(t) \/ Removed(t)
                             \/ Fetched(t) \/ SetDone(t)
                             \/ \E p \in Paths, what \in {"get", "set"} : Call(t, p, what)
        \/ WaitForService

Spec == Init /\ [][Next]_vars

-----------------------------------------------------------------------------
(* Properties                                                              *)

(* A cached value never goes back to an older one: a scan that was         *)
(* answered before a signal and resumes after it leaves the signal's value *)
(* alone (scan_service).  fetch_value alone may overwrite a newer value.   *)
NeverBackwards ==
    [][\A c \in Conns, p \in Paths :
         \/ cache'[c][p].value >= cache[c][p].value
         \/ \E t \in Tasks : tasks[t].pc = "getting" /\ tasks'[t].pc = "got"]_vars

Quiet == inbox = <<>> /\ outq = <<>> /\ calls = <<>> /\ ready = <<>>

(* Once nothing is in flight the monitor agrees with the bus, whatever     *)
(* order announcements, signals, replies and tasks came in: the present    *)
(* process is the one known by name and whoever waited for it has it, one  *)
(* pair of rules is registered and every item has its present value; with  *)
(* nobody there nothing is known and no rule is left.  A process that left *)
(* before it was added spoils this; and an item keeps an old value when    *)
(* its last write fell between the rules of two processes (missed).        *)
Converged ==
    Quiet /\ ~hasty =>
        IF owner = NoOne THEN services = {} /\ rules = 0 /\ byName \in {Absent, Pending}
        ELSE /\ services = {owner} /\ byName = owner /\ rules = 1
             /\ waiter \in {"none", "answered"}
             /\ closing \/ \A p \in Paths \ (fetched \union missed) : cache[owner][p].value = vals[p]

(* When set_value returns 0 the caller reads its own value, or a newer     *)
(* one, from the cache: the signal comes before the reply.  (The call goes *)
(* to the name: a process that took it since may have answered instead.)   *)
ReadYourWrites ==
    \A t \in Tasks :
        tasks[t].pc = "set" /\ tasks[t].body # Error /\ tasks[t].conn = lives /\ ~hasty
          => \A p \in DOMAIN tasks[t].body[2] \ fetched :
                cache[tasks[t].conn][p].value >= tasks[t].body[2][p]

=============================================================================
