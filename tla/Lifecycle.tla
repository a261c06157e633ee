------------------------------ MODULE Lifecycle ------------------------------
(***************************************************************************)
(* main.main from the first D-Bus connection to the last: channels are     *)
(* started one after the other, each on a bus of its own; the workers run  *)
(* until one fails or a signal stops them; they are cancelled and drained; *)
(* every bus is released.  Each action is what the main task, a worker or  *)
(* a close task runs between two awaits.                                   *)
(*                                                                         *)
(* Time is left out: a timeout may expire whenever no task is ready to     *)
(* run.  The D-Bus daemon, Home Assistant and the signals are external.    *)
(* How tasks are cancelled is that of Python 3.12's asyncio: wait_for and  *)
(* gather pass a cancellation on and wait for those they passed it to.     *)
(***************************************************************************)
EXTENDS Naturals, Sequences, SequencesExt

CONSTANTS
    Channels,      \* config.channels, in a sequence
    Malformed,     \* channels without the required fields
    HomeAssistant, \* the source: Home Assistant, or the Emporia cloud
    Interrupts     \* whether SIGINT may come before the handlers are set

Chan == ToSet(Channels)

ASSUME LifecycleAssumption ==
    /\ Channels \in Seq(Chan) /\ IsInjective(Channels)
    /\ Malformed \subseteq Chan
    /\ HomeAssistant \in BOOLEAN
    /\ Interrupts \in BOOLEAN

VARIABLES
    pc,        \* what the main task awaits
    at,        \* the channel being started
    link,      \* each channel's MessageBus
    names,     \* external: service names owned on the bus daemon
    unowned,   \* unowned_buses
    allocated, \* allocated_services
    services,  \* the registered services
    closing,   \* the task that closes a channel's service or bus
    task,      \* the workers
    signals,   \* installed_signals: the handlers are in place
    stopping,  \* request_shutdown was called
    interrupted, \* SIGINT cancelled the main task during start-up
    overdue,   \* the drain's five seconds are over
    refused,   \* history: channels whose own connection or registration failed
    swallowed  \* history: cancellations the client took for its refresh task's

setupVars == <<at, unowned, allocated, services, refused>>
busVars == <<link, names, closing>>
workVars == <<task, signals, stopping, overdue, swallowed>>
vars == <<pc, setupVars, busVars, workVars, interrupted>>

Monitor(c) == <<"monitor", c>>
Heartbeat == <<"heartbeat", "all">>
Source == <<"source", "all">>
Workers == {Monitor(c) : c \in Chan} \union {Heartbeat, Source}

Idle == [w \in Workers |-> "none"]
Ended(w) == task[w] \in {"none", "done"}

Init ==
    /\ pc = "starting" /\ at = 0
    /\ link = [c \in Chan |-> "none"] /\ names = {}
    /\ unowned = <<>> /\ allocated = {} /\ services = {} /\ refused = {}
    /\ closing = [c \in Chan |-> "none"]
    /\ task = Idle
    /\ signals = FALSE /\ stopping = FALSE /\ overdue = FALSE
    /\ interrupted = FALSE /\ swallowed = 0

-----------------------------------------------------------------------------
(* Start-up: register_services.                                              *)

(* Leave through close_dbus_resources(allocated_services, unowned_buses).    *)
Release(svcs, buses) ==
    /\ pc' = "releasing"
    /\ closing' = [c \in Chan |-> IF c \in svcs \union ToSet(buses)
                                    THEN "created" ELSE closing[c]]

(* After the last channel: the workers, unless no service was registered or  *)
(* the source's settings are refused.                                        *)
StartWorkers(svcs, buses) ==
    \/ /\ svcs # {}
       /\ pc' = "serving" /\ signals' = TRUE
       /\ task' = [w \in Workers |->
                     IF w \in {Monitor(c) : c \in Chan \ svcs} THEN "none" ELSE "ready"]
       /\ UNCHANGED closing
    \/ /\ Release(allocated, buses)
       /\ UNCHANGED <<signals, task>>

(* The loop goes on with the next channel that is not malformed. *)
NextChannel(i, links, buses, svcs) ==
    LET rest == {k \in i..Len(Channels) : Channels[k] \notin Malformed}
        k    == CHOOSE x \in rest : \A y \in rest : x <= y
    IN  \/ /\ rest # {}
           /\ pc' = "connecting" /\ at' = k
           /\ link' = [links EXCEPT ![Channels[k]] = "new"]
           /\ unowned' = Append(buses, Channels[k])
           /\ UNCHANGED <<closing, signals, task>>
        \/ /\ rest = {}
           /\ link' = links /\ unowned' = buses
           /\ StartWorkers(svcs, buses)
           /\ UNCHANGED at

Start ==
    /\ pc = "starting"
    /\ NextChannel(1, link, unowned, services)
    /\ UNCHANGED <<names, allocated, services, refused, stopping, overdue,
                   swallowed, interrupted>>

This == Channels[at]

(* connect_service_bus returns, AcLoadService is constructed and takes the   *)
(* bus over; or its construction fails, which ends the start-up.             *)
BusConnected ==
    /\ pc = "connecting"
    /\ link' = [link EXCEPT ![This] = "open"]
    /\ \/ /\ allocated' = allocated \union {This}
          /\ unowned' = Front(unowned)
          /\ pc' = "registering"
          /\ UNCHANGED closing
       \/ /\ Release(allocated, unowned)
          /\ UNCHANGED <<allocated, unowned>>
    /\ UNCHANGED <<at, services, refused, names, workVars, interrupted>>

(* bus.connect raises: close_unowned_bus disconnects, or fails to. *)
ConnectFails ==
    /\ pc = "connecting"
    /\ pc' = "closing bus"
    /\ link' = [link EXCEPT ![This] = "shut"] \/ UNCHANGED link
    /\ refused' = refused \union {This}
    /\ UNCHANGED <<at, unowned, allocated, services, names, closing, workVars, interrupted>>

(* A bus that could not be closed stays owned, to be closed in the end. *)
UnownedAfter ==
    IF link[This] = "shut"
      THEN RemoveAt(unowned, CHOOSE k \in DOMAIN unowned : unowned[k] = This)
      ELSE unowned

BusClosed ==
    /\ pc = "closing bus"
    /\ NextChannel(at + 1, link, UnownedAfter, services)
    /\ UNCHANGED <<names, allocated, services, refused, stopping, overdue,
                   swallowed, interrupted>>

Registered ==
    /\ pc = "registering" /\ link[This] = "open"
    /\ names' = names \union {This}
    /\ services' = services \union {This}
    /\ NextChannel(at + 1, link, unowned, services')
    /\ UNCHANGED <<allocated, refused, stopping, overdue, swallowed, interrupted>>

\* Mutated form: a channel that cannot be registered ends the start-up.
RegisterFailsFatal ==
    /\ pc = "registering"
    /\ refused' = refused \union {This}
    /\ Release(allocated, unowned)
    /\ UNCHANGED <<at, link, unowned, allocated, services, names, workVars, interrupted>>

(* The name is taken or the call fails: the service is closed at once. *)
RegisterFails ==
    /\ pc = "registering"
    /\ refused' = refused \union {This}
    /\ allocated' = allocated \ {This}
    /\ closing' = [closing EXCEPT ![This] = "created"]
    /\ pc' = "closing service"
    /\ UNCHANGED <<at, link, unowned, services, names, workVars, interrupted>>

CloseOver(c) == closing[c] \in {"done", "cancelled"}

ServiceClosed ==
    /\ pc = "closing service" /\ CloseOver(This)
    /\ \/ /\ ~interrupted
          /\ NextChannel(at + 1, link, unowned, services)
       \/ /\ interrupted
          /\ Release(allocated, unowned)
          /\ UNCHANGED <<at, link, unowned, signals, task>>
    /\ UNCHANGED <<names, allocated, services, refused, stopping, overdue,
                   swallowed, interrupted>>

-----------------------------------------------------------------------------
(* Closing: AcLoadService.close and close_unowned_bus.                       *)

Shut(c) == /\ link' = [link EXCEPT ![c] = "shut"]
           /\ names' = names \ {c}

(* A task cancelled before it began never does anything; one at work goes to *)
(* its finally.                                                              *)
CancelClosing ==
    /\ closing' = [c \in Chan |->
                     CASE closing[c] = "created" -> "cancelled"
                       [] closing[c] = "releasing name" -> "disconnecting"
                       [] closing[c] = "disconnecting" -> "done"
                       [] OTHER -> closing[c]]
    /\ LET cut == {c \in Chan : closing[c] = "releasing name"}
       IN  /\ link' = [c \in Chan |-> IF c \in cut THEN "shut" ELSE link[c]]
           /\ names' = names \ cut

(* A service unexports its items and releases its name while connected; a    *)
(* bus without a service is disconnected at once.                            *)
CloseStarts(c) ==
    /\ closing[c] = "created"
    /\ \/ /\ c \notin ToSet(unowned) /\ link[c] = "open"
          /\ closing' = [closing EXCEPT ![c] = "releasing name"]
          /\ UNCHANGED <<link, names>>
       \/ /\ c \in ToSet(unowned) \/ link[c] # "open"
          /\ closing' = [closing EXCEPT ![c] = "disconnecting"]
          /\ Shut(c)
    /\ UNCHANGED <<pc, setupVars, workVars, interrupted>>

(* The daemon answers or the call fails: the bus is disconnected either way. *)
NameReleased(c) ==
    /\ closing[c] = "releasing name"
    /\ closing' = [closing EXCEPT ![c] = "disconnecting"]
    /\ Shut(c)
    /\ UNCHANGED <<pc, setupVars, workVars, interrupted>>

(* The transport has ended, or a second has passed. *)
CloseEnds(c) ==
    /\ closing[c] = "disconnecting"
    /\ closing' = [closing EXCEPT ![c] = "done"]
    /\ UNCHANGED <<pc, setupVars, link, names, workVars, interrupted>>

(* close_dbus_resources allows five seconds. *)
CloseTimeout ==
    /\ pc \in {"closing service", "releasing"}
    /\ \E c \in Chan : closing[c] = "releasing name"
    /\ \A c \in Chan : closing[c] # "created"
    /\ CancelClosing
    /\ UNCHANGED <<pc, setupVars, workVars, interrupted>>

Exit ==
    /\ pc = "releasing"
    /\ \A c \in Chan : closing[c] = "none" \/ CloseOver(c)
    /\ pc' = "exited"
    /\ UNCHANGED <<setupVars, busVars, workVars, interrupted>>

\* Mutated form: main only owns services, not the bus that is being connected.
InterruptServicesOnly ==
    /\ Interrupts /\ ~interrupted
    /\ interrupted' = TRUE
    /\ \/ /\ pc \in {"connecting", "closing bus", "registering"}
          /\ Release(allocated, <<>>)
          /\ UNCHANGED <<link, names>>
       \/ /\ pc = "closing service" \/ (pc = "releasing" /\ task = Idle)
          /\ CancelClosing
          /\ UNCHANGED pc
    /\ UNCHANGED <<setupVars, workVars>>

(* SIGINT during start-up: asyncio.run cancels the main task wherever it is. *)
Interrupt ==
    /\ Interrupts /\ ~interrupted
    /\ interrupted' = TRUE
    /\ \/ /\ pc \in {"connecting", "closing bus", "registering"}
          /\ Release(allocated, unowned)
          /\ UNCHANGED <<link, names>>
       \/ /\ pc = "closing service" \/ (pc = "releasing" /\ task = Idle)
          /\ CancelClosing
          /\ UNCHANGED pc
    /\ UNCHANGED <<setupVars, workVars>>

-----------------------------------------------------------------------------
(* The workers: run_service_workers.                                         *)

(* What cancelling a worker does.  The client ends by way of its finally     *)
(* blocks, except while it awaits the refresh task it has itself cancelled:  *)
(* there the cancellation passes for the refresh task's own and is lost.     *)
AfterCancel(s) ==
    CASE s \in {"ready", "running", "sleeping"} -> "done"
      [] s = "connected" -> "leaving"
      [] s = "awaiting refresh" -> "deaf"
      [] OTHER -> s

\* Mutated form: whoever was not cancelled is left running.
CancelWorkersButSource == [w \in Workers |-> IF w = Source THEN task[w] ELSE AfterCancel(task[w])]

CancelWorkers == [w \in Workers |-> AfterCancel(task[w])]

WorkerStarts(w) ==
    /\ task[w] = "ready"
    /\ task' = [task EXCEPT ![w] = IF w = Source /\ HomeAssistant
                                     THEN "connected" ELSE "running"]
    /\ UNCHANGED <<pc, setupVars, busVars, signals, stopping, overdue, swallowed, interrupted>>

Fail == pc' = IF pc = "serving" THEN "failing" ELSE pc

(* A monitor sees its bus go; the heartbeat meets an error nobody expected.  *)
(* gather passes the first one on.                                           *)
WorkerFails(w) ==
    /\ task[w] = "running"
    /\ \/ w = Heartbeat
       \/ \E c \in Chan : w = Monitor(c) /\ link[c] = "lost"
    /\ task' = [task EXCEPT ![w] = "done"]
    /\ Fail
    /\ UNCHANGED <<setupVars, busVars, signals, stopping, overdue, swallowed, interrupted>>

(* The client meets such an error: it leaves like a cancelled one. *)
ClientFails ==
    /\ task[Source] = "connected"
    /\ task' = [task EXCEPT ![Source] = "leaving"]
    /\ UNCHANGED <<pc, setupVars, busVars, signals, stopping, overdue, swallowed, interrupted>>

(* External: the bus of a channel is gone, and its name with it. *)
LoseBus(c) ==
    /\ link[c] = "open" /\ closing[c] = "none"
    /\ link' = [link EXCEPT ![c] = "lost"]
    /\ names' = names \ {c}
    /\ UNCHANGED <<pc, setupVars, closing, workVars, interrupted>>

(* Home Assistant is gone: listen cancels its refresh task and awaits it. *)
ListenEnds ==
    /\ task[Source] = "connected"
    /\ task' = [task EXCEPT ![Source] = "awaiting refresh"]
    /\ UNCHANGED <<pc, setupVars, busVars, signals, stopping, overdue, swallowed, interrupted>>

(* The client disconnects and sleeps before it tries again. *)
RefreshEnded ==
    /\ task[Source] \in {"awaiting refresh", "deaf"}
    /\ task' = [task EXCEPT ![Source] = "sleeping"]
    /\ swallowed' = IF task[Source] = "deaf" /\ swallowed < 2 THEN swallowed + 1 ELSE swallowed
    /\ UNCHANGED <<pc, setupVars, busVars, signals, stopping, overdue, interrupted>>

(* A second or more later: time only passes once nobody is ready to run. *)
Quiet == /\ pc # "failing"
         /\ \A w \in Workers : task[w] \notin {"ready", "awaiting refresh", "deaf"}

Reconnect ==
    /\ task[Source] = "sleeping" /\ Quiet
    /\ task' = [task EXCEPT ![Source] = "connected"]
    /\ UNCHANGED <<pc, setupVars, busVars, signals, stopping, overdue, swallowed, interrupted>>

(* The client has disconnected on its way out. *)
Left ==
    /\ task[Source] = "leaving"
    /\ task' = [task EXCEPT ![Source] = "done"]
    /\ Fail
    /\ UNCHANGED <<setupVars, busVars, signals, stopping, overdue, swallowed, interrupted>>

(* request_shutdown cancels the main task, which passes the cancellation on  *)
(* to what it awaits.  While it disconnects the client, that is cut short.   *)
StopSignal ==
    /\ signals /\ ~stopping
    /\ stopping' = TRUE
    /\ \/ /\ pc = "serving"
          /\ task' = CancelWorkers
          /\ pc' = "failing"
          /\ UNCHANGED <<signals, closing>>
       \/ /\ pc = "failing"
          /\ UNCHANGED <<pc, task, signals, closing>>
       \/ /\ pc = "draining"
          /\ task' = CancelWorkers
          /\ UNCHANGED <<pc, signals, closing>>
       \/ /\ pc = "disconnecting"
          /\ signals' = FALSE
          /\ Release(allocated, unowned)
          /\ UNCHANGED task
    /\ UNCHANGED <<setupVars, link, names, overdue, swallowed, interrupted>>

(* The first worker has ended: the others are cancelled, once more if the    *)
(* signal did so already, and awaited.                                       *)
Drain ==
    /\ pc = "failing"
    /\ \E w \in Workers : task[w] = "done"
    /\ task' = CancelWorkers
    /\ pc' = "draining"
    /\ UNCHANGED <<setupVars, busVars, signals, stopping, overdue, swallowed, interrupted>>

(* After five seconds wait_for cancels the workers again, and waits on. *)
DrainTimeout ==
    /\ pc = "draining" /\ ~overdue /\ task[Source] # "deaf"
    /\ \E w \in Workers : ~Ended(w)
    /\ overdue' = TRUE
    /\ task' = CancelWorkers
    /\ UNCHANGED <<pc, setupVars, busVars, signals, stopping, swallowed, interrupted>>

Drained ==
    /\ pc = "draining" /\ \A w \in Workers : Ended(w)
    /\ pc' = "disconnecting"
    /\ UNCHANGED <<setupVars, busVars, workVars, interrupted>>

(* The client is disconnected once more; then the handlers are removed. *)
ClientClosed ==
    /\ pc = "disconnecting"
    /\ signals' = FALSE
    /\ Release(allocated, unowned)
    /\ UNCHANGED <<setupVars, link, names, task, stopping, overdue, swallowed, interrupted>>

-----------------------------------------------------------------------------

Startup == \/ Start \/ BusConnected \/ ConnectFails \/ BusClosed \/ Registered
           \/ RegisterFails \/ ServiceClosed
Closing(c) == CloseStarts(c) \/ NameReleased(c) \/ CloseEnds(c)
Shutdown == Drain \/ DrainTimeout \/ Drained \/ ClientClosed \/ CloseTimeout \/ Exit
Client == ListenEnds \/ RefreshEnded \/ Reconnect \/ ClientFails \/ Left

Next ==
    \/ Startup \/ Shutdown \/ Client \/ Interrupt \/ StopSignal
    \/ \E c \in Chan : Closing(c) \/ LoseBus(c)
    \/ \E w \in Workers : WorkerStarts(w) \/ WorkerFails(w)

Spec == Init /\ [][Next]_vars

(* The event loop runs what is ready, and the timers of its timeouts.  The   *)
(* daemon may never answer, and nothing makes a connection fail.             *)
FairSpec ==
    /\ Spec
    /\ WF_vars(BusClosed) /\ WF_vars(ServiceClosed)
    /\ WF_vars(Shutdown) /\ WF_vars(RefreshEnded) /\ WF_vars(Left)
    /\ \A c \in Chan : /\ WF_vars(CloseStarts(c)) /\ WF_vars(CloseEnds(c))
                       /\ WF_vars(WorkerFails(Monitor(c)))
    /\ \A w \in Workers : WF_vars(WorkerStarts(w))

-----------------------------------------------------------------------------

Connected(c) == link[c] \in {"new", "open", "lost"}

(* Workers end before what they write to is released, and when main is over  *)
(* no bus is left connected and no name owned, whatever failed in whatever   *)
(* order and wherever SIGINT falls (main.py: own every connection from       *)
(* allocation onward).  The one exception is a bus whose own close task was  *)
(* cancelled before it began, which takes a SIGINT during start-up: that bus *)
(* is left to the end of the process.                                        *)
AllReleased ==
    /\ pc \in {"releasing", "exited"} => \A w \in Workers : Ended(w)
    /\ \A c \in Chan : closing[c] = "cancelled" => interrupted
    /\ pc = "exited" =>
         \A c \in Chan : closing[c] # "cancelled" => c \notin names /\ ~Connected(c)

(* A channel that cannot be connected or registered does not keep the next   *)
(* ones from their turn (architecture.md: one failed channel connection must *)
(* not prevent independent channels from starting).                          *)
StillToStart(k) == {j \in k + 1..Len(Channels) : Channels[j] \notin Malformed}
FailureIsolated ==
    \A k \in DOMAIN Channels :
        at = k /\ Channels[k] \in refused /\ StillToStart(k) # {} ~> at > k \/ interrupted

(* What tells the program to end does end it: SIGINT during start-up, in     *)
(* whatever it was waiting for; once it serves, a stop signal and the loss   *)
(* of a published service's bus, so that its supervisor restarts it, unless  *)
(* the client takes two cancellations for its refresh task's.                *)
BusLost == pc = "serving" /\ \E c \in services : link[c] = "lost"
ProgramEnds ==
    /\ interrupted ~> pc = "exited"
    /\ BusLost \/ stopping ~> pc = "exited" \/ swallowed = 2

(* As documented, without the exception: CHANGELOG.md, detect lost D-Bus     *)
(* connections and exit for supervisor recovery.                             *)
LossAlwaysEnds == BusLost ~> pc = "exited"

=============================================================================
