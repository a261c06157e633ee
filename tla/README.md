# Specifications of dbus-emporia-vue

TLA+ models of the Venus OS service in this repository and of the release
toolkit that ships it, the TLC instances that check them, and TLAPS proofs of
what holds for every instance.

The service publishes Emporia Vue circuits as `com.victronenergy.acload.*` D-Bus
services. Its readings come from Home Assistant (WebSocket events, a start-up
snapshot and REST polls) or directly from the Emporia cloud. Whatever the
source, a controller may act on what is published. So the first question here
is whether a published reading is ever older than the service says it may be,
or older than one it has already replaced. The second is whether the program
starts, fails and stops without leaving anything behind. The third, for the
toolkit, is whether concurrent, repeated and failing CI runs can ever publish
one version twice, an older one after a newer, or something else than what was
built and checked.

    tlc -workers 4 -config MCHaClient.cfg MCHaClient    # any pair listed in section 4
    tlapm HaClientProofs.tla                            # any module of section 6

## 1. The system

### Components

| Component | Source | State it keeps | Operations | Model |
| --- | --- | --- | --- | --- |
| HA channel (`AcLoadService`) | `main.py` 123-318 | published power, `/LastUpdate`, `/Connected`; source watermark, its deadline, freshness time | `update_entity`, `invalidate`, `expire`, `set_connected`, `needs_revalidation` | `AcLoad`, `AcLoadChannel` |
| HA client (`HaWebSocketClient`, `run_websocket_client`) | `main.py` 321-570, 624-651 | WebSocket, event revisions, REST future, session, closed flag, `event_updates` | connect, subscribe, snapshot, listen, refresh sweep, REST thread, disconnect, reconnect | `HaClient` |
| Direct channel (`EmporiaChannel`) | `sources.py` 140-213 | sample, deadline, watermark; the same for each energy field | `update`, `unavailable`, `update_energy`, `refresh` | `EmporiaChannel` |
| Emporia worker (`EmporiaClient`) | `emporia.py` 178-539 | session, device status and its age, failure counts, next energy times, stop event | status, power and energy polls, login, back-off, `emit`/`deliver`, stop | `EmporiaWorker` (partly: response contents left out) |
| Start-up, workers, shutdown | `main.py` 654-783, 845-969 | allocated services, unowned buses, worker tasks, signal handlers | `register_services`, `run_service_workers`, `close_dbus_resources`, `monitor_service_bus` | `Lifecycle` |
| Version ledger | `scripts/release_state.py` | a JSON file on the branch `release-version-state`: counter, publication floor, plans | `reserve_plan`, `begin_publication`, `verify_promotion_order` | `VersionLedger`, `NumberLedger` |
| Release publication | `scripts/release_control.py`, `release_versioned.py`, the release workflow | tags, drafts, assets, public releases on GitHub | `prepare`, `publish_versioned`, `promote`, reconciliation of a lost answer, snapshots | `VersionLedger`, `ReleaseDraft` (partly) |
| Configuration checks | `sources.py` 25-137, `main.py` 573-621 | none | `emporia_config`, `ha_settings`, `selected_submeter` | not modelled |
| Parsing, signed usage | `parse_ha.py`, `emporia.py` 22-90, 305-358 | none | units, timestamps, signs | not modelled; inputs of the models |
| D-Bus items | `aiovelib/service.py` | item values, collected changes | `register`, `set_value`, `SetValue`, `GetItems`, `ItemChangeCollector`, `close` | `BusMonitor`, `Lifecycle` (partly) |
| D-Bus monitor client | `aiovelib/client.py` | services by owner and by name, cached values, match rules | `create`, `add_service`, `remove_service`, `scan_service`, `fetch_value`, `set_value`, `wait_for_service` | `BusMonitor` |
| Settings client | `aiovelib/localsettings.py` | none | calls on a monitor | not modelled |
| Heartbeat and token files | `main.py` 60-104, `emporia.py` 96-121 | one file each, replaced by rename | write, read | not modelled |
| Installer, updater, staging | `update.sh`, `setup`, `deploy.sh`, `register-package.sh`, `install.py` | the installed tree | stop, copy, verify, restart; `stage`, `unstage` | not modelled |
| Configuration generator, tariff export | `ha_config_gen.py`, `tariff_export.py` | none | one request or conversion, one file | not modelled |
| Image archives | `scripts/merge_oci_archives.py`, `version_plan.py` (`_OciMetadata`) | the archives of one CI job | check, merge, link; the independent reader | `OciArchive`, `OciRelease` |
| Evidence of images | `scripts/release_provenance.py` | an archive and its sidecar | `detach`, `verify_pair` | `OciArchive`, `OciRelease` |
| Version preparation | `scripts/prepare_version.py`, `version_plan.py` (`sync_versions`) | main, tags, a topic branch, its pull request, version files | `prepare` | `PrepareVersion` |
| Release client, signing, fuzzing, validation | `release.py`, `release_validation.py`, `release_fuzz.py`, `release_signing.py` | none shared | checks of one run's inputs | not modelled |
| Packaging, receipts, CI policy | the other files of `scripts/` | files of one CI job | conversions of one file, checks | not modelled |

### How they interact

One asyncio loop runs everything in the service except two kinds of threads.

* With Home Assistant as the source, `run_websocket_client` owns a WebSocket and a
  refresh task. The refresh task starts one daemon thread per REST request; the
  thread hands its answer back with `call_soon_threadsafe`. Events, snapshot
  entries and answers all end in `AcLoadService.update_entity`.
* With the cloud as the source, `EmporiaClient.run` starts one daemon thread. It
  polls and emits callbacks into the loop, which end in
  `EmporiaChannel.update`, `unavailable` and `update_energy`.
* Once a second `heartbeat_task` lets every channel expire. One monitor task per
  service waits for the loss of its bus. Any worker that ends takes the others
  with it; `main` then releases every bus, and a supervisor restarts the process.
* On the D-Bus, `aiovelib` publishes the items of a service in one process, and a monitor
  in another follows the service's name: calls go to whoever owns the name,
  signals arrive by match rules, and one task runs for each change of owner.
* CI runs share nothing but GitHub: the ledger file (replaced only if it is the one
  that was read), tags (created once) and releases (several drafts may have one tag).

### What is hard

* A state read before an `await` or by a thread, and used after it: the event
  revision around a REST request, the snapshot against newer events, a
  disconnect against the thread that uses the session.
* Two clocks. Age is computed from the wall clock, which NTP may step; deadlines
  live on the monotonic clock.
* Repetition. Home Assistant repeats a reading with its old timestamp through
  three paths, and none of them may lengthen the reading's life.
* Cancellation: what is cancelled, what swallows it, what is never started because
  of it.
* Back-off and serialisation, where one failing or slow request must not starve
  another.
* Lost answers: a CI request may have been carried out although it failed.
* What is checked and what is used: a file, a topic branch, a draft or its assets
  are read by one request and acted on by a later one, and people or other
  processes may change them in between.

Every such place is listed, with its line and the properties that watch it, under
`hazards` in `PROJECT.json`.

### What makes each component correct

* A channel: every source timestamp has one bounded life; nothing older comes back;
  what has run out is withdrawn although nothing arrives.
* The HA client: one request at a time; its session closed once and not under a
  thread; nothing shown while offline; no event overtaken by an older answer.
* The direct channel: the same as for a channel, for power and each energy field
  on their own.
* The worker: no energy period starved; readings of online devices only;
  nothing applied to services that are being released, and a stop ends it.
* The lifecycle: workers end before buses are released, and no bus is left behind;
  one failed channel does not stop the next; what must end the program ends it.
* The bus: the monitor converges to what the service has, never shows an older
  value after a newer one, and a caller reads its own write.
* The ledger and publication: unique numbers and tags, permanent plans, a number
  consumed before its tag and once, one release per tag, no downgrade.
* One publication: it works on its own draft, makes public what it verified, and
  promotes a candidate as it was at one moment.
* Archives: what is merged or detached holds exactly the checked inputs and passes
  the independent reader, or nothing is left.
* Preparation: no commit or edit of a person is lost; main's version never goes back.

## 2. The modules

| Module | Subject | Composes |
| --- | --- | --- |
| `FreshReading` | abstract: what any published channel promises | |
| `AcLoad` | operators for `AcLoadService`'s methods | |
| `AcLoadChannel` | one HA channel under any inputs | `AcLoad`; implements `FreshReading` |
| `HaClient` | WebSocket task, refresh task, REST threads, all channels | `AcLoad` |
| `EmporiaChannel` | one direct channel under any inputs | |
| `EmporiaWorker` | poll thread and the loop's side of it | |
| `Lifecycle` | main task, workers, buses, close tasks | |
| `NumberLedger` | abstract: the ledger as one atomic object | |
| `VersionLedger` | CI runs that share GitHub | implements `NumberLedger` |
| `ReleaseDraft` | one candidate and its promotion, request by request, among people | |
| `PrepareVersion` | preparations of a version, main, topics and a checkout | |
| `OciArchive` | operators: image archives and the three readers of them | |
| `OciRelease` | one merge or detachment over files others may write to | `OciArchive` |
| `BusMonitor` | a publishing service, the daemon and a monitor | |
| `...Proofs` | theorems: `AcLoadChannel`, `HaClient`, `EmporiaChannel`, `EmporiaWorker`, `Lifecycle`, `BusMonitor`, `VersionLedger`, and `ReleaseProofs` for `ReleaseDraft`, `OciRelease` and `PrepareVersion` | their modules |
| `MC...` | values for TLC | |

### AcLoad, AcLoadChannel, FreshReading

`AcLoad` represents an `AcLoadService` by a record of its fields: `power`,
`lastUpdate` and `connected` are what D-Bus shows; `freshUntil` is
`_fresh_until`, `sourceTime` the watermark `_source_time`, `sourceDeadline`
its deadline. One operator per method returns the fields as the method leaves
them, early returns included, so that the modules that use it share one
translation of the code. `AcLoadChannel` lets entities of any content
arrive in any order (`Update`), between expiry passes (`ExpirePass`), lost
connections (`Disconnected`), ticks, and steps of the wall clock (`SetClock`).
`shownAt` is a history variable: when each timestamp was first published.

`FreshReading` is the contract: one life per source timestamp, of at most
`MaxAge` from its acceptance, never extended and never restarted, and no older
timestamp afterwards. `ContractHolds` is the refinement `chan.power`,
`chan.sourceTime`, `chan.sourceDeadline` to its `shown`, `stamp` and `until`.

### HaClient

Each action is what one task runs between two awaits, or what a thread does
under `_rest_lock`.

| Actions | Code |
| --- | --- |
| `Connect`, `Opened`, `Subscribed` | `connect`, authentication, `subscribe_triggers` |
| `HandleEvent`, `StatesAnswered` | `handle_message`; `fetch_initial_states` with `event_updates` |
| `ConnectionEnds`, `Stop` | the `finally` of `listen`, `set_connected(False)`, `disconnect`; cancellation |
| `RefreshWake`, `Drained`, `Fetched` | `refresh_channels`, `revalidate_channel`, `fetch_entity` after each await |
| `ThreadStart`, `ThreadRead`, `ThreadFinish` | `_read_entity` in its daemon thread |
| `ExpirePass` | `refresh_channel_freshness` from the heartbeat |
| `ServerReport` ... `LoseConnection` | Home Assistant and the network: external |

`Continue` is the rest of a sweep: the loop up to the next await. The order of a sweep
(`SweepAt`) has the selected meter checked again before every ordinary channel.
Request identities are reused when their thread is done; two suffice because
`OneRequest` holds. The clocks agree here: their disagreement is
`AcLoadChannel`'s subject.

### EmporiaChannel

Every handler (`Update`, `UpdateEnergy`, `Unavailable`, `Refresh`) ends in
`Publish`, as every method ends in `refresh()`. This channel is not held to
`FreshReading`: `unavailable()` forgets the deadline, so a timestamp
delivered again after a failed request starts a second life. `LivesBounded`
states what remains true: a showing lasts at most `MaxAge` under any clock, and, as
long as the wall clock is not stepped, all lives of a timestamp end within
`MaxAge + Skew` of its first delivery, because a deadline is computed from age.

### EmporiaWorker

`pc` is where the thread blocks: a login, a request, or the timed wait.
A login or request ends `ok`, `failed` or `unauthorised` after any time.
`Emit` is `emit`: it looks at the stop event and then hands the callback over, so
that a stop in between does not take it back. `Deliver` is `deliver` in the
loop, which looks at the stop event of the run that emitted. `Cancel` is the
`finally` of `run`, and `Release` the main task, which waits for the run but not for
its thread before it releases the services. `main` enters `run` once; the model
enters it again, before a release, as the class allows. Failure counts are
kept only up to the last doubling, past which `Backoff` no longer depends on them.

### Lifecycle

`pc` is what the main task awaits. `link`, `unowned`, `allocated`, `services`
are the buses and the three collections that own them; `closing` is the task
that closes a channel; `task` the workers. Time is left out: a timeout may
expire when nothing that would prevent it is ready to run. The rules of
cancellation are those of Python 3.12: cancelling a task that has not started
ends it without running it (`"cancelled"` in `closing`); `gather` and `wait_for` pass a cancellation on and
wait. `ListenEnds` and `RefreshEnded` keep the one place where the client
suppresses `CancelledError`.

### VersionLedger and NumberLedger

A step is one request to GitHub together with the reads it depends on. Each
request may fail (`Fail`) or be carried out and its answer lost (the second
disjunct of each write). `view` is the ledger a run has read; the contents API
compares it when it replaces the file (`Swap`). `serialized`, chosen at the
start, says whether the workflow's concurrency group admits one run at a time:
only `NoDowngrade` needs it. Promotions copy an accepted RC to a stable tag.
Deletion of a public release by a person is external. `NumberLedger` says what
the file is to its users: an atomic object in which numbers and tags are unique,
plans permanent and both counters monotone.

### BusMonitor

Three parties and their queues: the publishing process (`Register`, `Write`,
`AnswerSet`, `AnswerGet`, `Close`, `Leave`), the daemon (`Route`, which is
external and does what the specification of D-Bus promises: order per sender,
calls to the owner of a name, signals by rule), and the monitor. `tasks` are its
coroutines, `pc` the await each is at; `ready` is the event loop's queue, in which
a task resumed through `asyncio.gather` comes two hops later, a detail on which the
order of scans and removals depends. Values are numbered by the write that
gave them, so that "older" has a meaning. Three history variables record the cases
in which the code promises less, each listed as a hazard: `hasty`, that a process left
before the monitor had added it; `fetched`, the items `fetch_value` has written;
`missed`, the items whose last write fell between the match rules of two processes
although the monitor had heard an earlier one (section 7).

### OciArchive and OciRelease

An archive is its root list of descriptors and a function from digests to
contents; what a digest stands for is fixed by `Content`, so that `Corrupt` under
a digest is exactly what a hash finds. `Native` is what
`merge_oci_archives.Archive` demands of an input, `Verifies` what
`version_plan._OciMetadata` demands of the result, `PairSound` what
`verify_pair` demands of an archive and its sidecar: three translations of three
readers, so that the properties compare them instead of restating one. `OciRelease`
is a run over two files which another process may write to after they were
checked (`Touch`), with a name that may be taken (`Create`) and a kill at any
point.

### PrepareVersion

A run reads main, the tags, the pull requests and the topic by one command each, and
pushes or replaces files on what it read. `main` is the list of its trees, a tree
the version of each declared file and a number for the rest. A local run shares the
operator's `checkout` with an editor. `overtaken` records edits made between a run's
last look at a file and its replacement, the window no comparison can close.

### ReleaseDraft

One job at a time, the candidate's and then its promotion's, each GitHub request a
step of its own; people create, edit, publish and delete releases, replace assets
and move tags between any two. A write whose answer is lost has happened or
not (`Lost`); `CreateDraft` then goes on to `ReadPage`, the two paged readings of
a list that changes meanwhile. A release's body carries the nonce of the run
that asked for it, so a body identifies its author. `GateReady` and `Report` are
the wait for GitHub to report the executing run. Runs that compete for numbers are
`VersionLedger`'s subject and absent here; there, a publication is coarse.

## 3. How it is put together

1. The channel first, because every reading ends there: `AcLoad`,
   `AcLoadChannel`, its contract and its proof.
2. Its surroundings: `HaClient` puts the same operators under the real
   interleavings; `EmporiaChannel` and `EmporiaWorker` are the second source.
3. `Lifecycle`, which starts and ends both sources.
4. The release side: `VersionLedger`, its abstract object and its proof; then what
   that model takes as one step, in `ReleaseDraft`.
5. What a release consists of, `OciArchive` and `OciRelease`, and where its
   version comes from, `PrepareVersion`.
6. `BusMonitor`, the library between the service and its readers.
7. What is left: section 9.

Every module takes its parameters as CONSTANTS under one named assumption, has
one action per operation and declares no recursive operator.

## 4. The runs

"States" are distinct states TLC reaches.

| Run | Instance | States | Question |
| --- | --- | --- | --- |
| `channel` | 4 timestamps, limit 2, skew 1, 6 ticks, wall clock stepped | 73,542 | does a channel keep the contract, and withdraw what is stale? |
| `ha_client` | 1 channel, 2 request identities, 3 ticks of 5 s, the entity changes and disappears | 962,028 | do events, snapshot, REST answers and reconnections ever show something old, or misuse the session? |
| `ha_client_sweep` | selected meter and 2 ordinary channels | 95,192 | is the meter deferred, does a wait for a request end? |
| `emporia_channel` | 3 timestamps, limits 2 and 3, one energy field | 145,266 | are lives bounded, does the heartbeat alone clear them? |
| `emporia_worker` | 1 device, 2 runs, 1 queued callback, 5 ticks | 3,085,164 | starvation, offline devices, a stop at any point and the release after it |
| `lifecycle` | 4 channels, one malformed, SIGINT at any point | 34,354 | are the buses released, after the workers; does what must end the program end it? |
| `lifecycle_loss` | as documented, without the exception | violated | section 7 |
| `bus_monitor` | 1 item, 2 processes, 4 writes, 1 call | 3,751,660 | does a monitor agree with the service, and never show the older value? |
| `ledger` | 2 builds, 1 promotion, 2 attempts each | 2,628,442 | is the ledger atomic; are releases unique and in order? |
| `release_draft` | 2 files, at most 5 releases on pages of 2, 3 acts of people | 580,562 | does a run keep to its own draft and to what it verified? |
| `oci_release` | some 170 exports of one platform with 2 of the other | 450,258 | do the three readers agree on what is published? |
| `prepare_version` | 2 runs, 2 files, 3 versions, 3 acts of people | 3,440,827 | is anybody's work lost, does a version go back? |

### The properties

| Property | Says |
| --- | --- |
| `LifetimeBounded`, `NoRevival` | repetition and clock steps never lengthen or restart a timestamp's life |
| `NewestShown` | nothing older than what was published or recorded before |
| `ContractHolds` | the channel implements `FreshReading`, its liveness included: the heartbeat alone withdraws what ran out |
| `OneRequest` | at most one REST thread is at work, over all connections |
| `SessionHandedOver` | the session is never closed under its thread, and never left open without one |
| `OfflineShowsNothing` | no reading is shown without a working subscription |
| `NothingOlderThanSeen` | no path shows a report older than one processed, removals included |
| `FailureSparesNewer` | a failed answer withdraws only what it was asked about |
| `SelectedNotDeferred`, `FetchEnds` | when a request ends and the sweep goes straight on, it goes on with the meter if that is due; every wait ends |
| `LivesBounded`, `NeverBackwards`, `RanOutWithdrawn` | the direct channel's counterparts, for power and each energy field |
| `DueOvertakenOnce`, `EmittedOnline` | the worker under failure |
| `ReleasedUntouched`, `StopEnds` | nothing reaches services that are being released, though the thread may still emit; a stop ends it and closes its session |
| `AllReleased` | workers end before buses are released, and the exit leaves no bus and no name but those whose close SIGINT cancelled before it began |
| `FailureIsolated`, `ProgramEnds` | progress of start-up and of the end |
| `Converged` | with nothing in flight the monitor knows the present owner, its values and one pair of match rules, but for the three cases of section 2 |
| `NeverBackwards` (of `BusMonitor`), `ReadYourWrites` | a scan never overwrites a newer signal; an answered `SetValue` is already in the caller's cache |
| `LedgerIsAtomic` | the file implements `NumberLedger` |
| `TagsConsumed`, `ConsumedOnce`, `OneRelease`, `NoDowngrade` | publication among concurrent runs |
| `OwnDraftOnly`, `PublishedAsBuilt`, `CandidateFrozen` | publication among people |
| `MergedVerifies`, `PairReplays`, `AllOrNothing` | merged and detached images |
| `PeopleKept`, `NeverBack`, `EditsKept` | preparation of a version |

### Bounds, and why they are enough

* `Horizon`: in the channel runs and `ha_client`, long enough for a reading to be
  accepted, to run out, and to be offered again after that. Deadlines are only
  compared with the clock, so that a longer run repeats these cases shifted in
  time. In `emporia_worker`, long enough for both energy periods to come due
  several times and for a delay to reach its cap. The sweep is over sooner.
* `Stamps`, `Walls`: a timestamp that is too old, one too far in the future,
  two valid ones in order, and wall clock values before, at and after them.
* `Requests`: two identities, one live and one left behind. A third could only be live if
  `OneRequest` were violated, and two already show that.
* Home Assistant's one channel in `ha_client`: channels share the session and
  the sweep, not readings; `ha_client_sweep` has three for the sweep.
* `MaxQueue`: a callback waits while the thread goes on. Only the model's thread
  blocks at a full queue; the loop's queue has no limit.
* `MaxRuns`: two, for what a stopped run leaves (a queued callback, the device
  status, its failures) to meet its successor.
* `Channels` of `Lifecycle`: four, so that two can fail between others, one of them
  malformed.
* `MaxAttempts`, two builds: one run and a retry of it, around a second
  run. One base version and the channels `rc` and `nightly`: `beta` differs
  from `rc` only in that it cannot be promoted and gives way to newer runs, as
  nightly does. Two policy floors: none, and one above the counter.
* `Builds` are interchangeable, which `SYMMETRY` uses, as are the runs of
  `PrepareVersion`; no liveness is checked there.
* `BusMonitor`: two processes, so that every task about the first may still be under
  way when the second arrives; four writes, of which each process needs one to start
  with, so that the second process can write once while the rules of the first still
  stand and once when they are gone, the case `missed` is about. One item: items meet
  only in a signal that carries some of them and a scan that carries all.
* `ReleaseDraft`: a page of two releases and at most five, so that an inventory has
  one to three pages, a full last one among them; three acts of people, enough to
  move an entry between pages in each of two readings and replace a file besides.
* `OciRelease`: the first platform's exports range over every root of one or two out of
  ten descriptors, and over each blob missing or corrupt; the other's are sound.
  Indexes nest once and one level too deep.
* `PrepareVersion`: three versions with two ways to pass one another; three acts,
  beside any number of merges.

The theorems of section 6 hold for every value of these bounds.

## 5. Fairness and deadlock

| Fairness | Justification |
| --- | --- |
| `WF(ExpirePass)`, `WF(Refresh)` | `heartbeat_task` runs a pass every second while it lives |
| `WF(RefreshTask)`, `WF(Thread(r))` | the loop resumes a ready task, the system schedules a thread, and a request has connect and read timeouts |
| `WF(Worker)`, `WF(Deliver)` | the same for the poll thread and the callbacks it queues |
| `FairSpec` of `Lifecycle` | ready tasks run, timers fire, a monitor polls its bus; nothing obliges the daemon to answer or a connection to fail |
| `WF(Lapse)` in `FreshReading` | implemented by the channel's `WF(ExpirePass)` |

No external event is fair: not a report, a reconnection, an answer of the bus
daemon or a signal. Weak fairness is enough because each of these steps stays
enabled until it is taken.

`CHECK_DEADLOCK FALSE` stands where the system may stop: `HaClient` and
`EmporiaWorker` after a stop at the end of the bounded time, `Lifecycle` after
its exit (or while the bus daemon does not answer), `VersionLedger` when every
run has used its attempts, and `ReleaseDraft`, `OciRelease`, `PrepareVersion` and
`BusMonitor` when runs are over and the bounds reached. The channel runs check
for deadlock.

## 6. What is proved

### AcLoadChannelProofs

For every limit, set of timestamps, behaviour of the wall clock and horizon.
`TypeOK`, `LifetimeBounded` and `NewestShown` are not inductive: they do not say what the
code remembers once a reading is withdrawn. The inductive invariant is

    ChannelInv == TypeOK /\ Coherent /\ Ordered /\ Remembered /\ Recorded /\ NotBehind

`Coherent` ties what is shown to the watermark and its deadline; `Ordered` puts every
timestamp ever shown at or below the watermark; `Remembered` keeps, for the
watermark's timestamp, its deadline within the limit of its first showing;
`Recorded` says that what a limited channel shows is in the history;
`NotBehind` covers the channel without a limit, which keeps no deadline. Lemmas
say what each operator of `AcLoad` returns (`InvalidateResult`,
`DeadlineResult`, `LimitedUpdate`, ...), so that the steps of `ChannelInvStep`
need not expand them.

Theorems: `ChannelInvariant`, `TypeCorrect`, `LifetimeIsBounded`,
`NewestIsShown`, `NoTimestampRevives`, and `ContractIsKept`: with a limit, every step is a step or a
stutter of `FreshReading`. They assume `ChannelAssumption` and the assumption
of `AcLoad` on its constants.

### VersionLedgerProofs

For every number of runs, attempts, versions and channels, from
`LedgerAssumption` alone. The invariant is built in layers, each proved inductive from
those below it:

1. `LedgerInv`: types; the ledger, and every ledger a run has read, is one
   `read_state` accepts; plans belong to builds; a reservation is new to the
   ledger its run has read; the plan a run goes by is the ledger's.
2. `ConsumptionInv`: a run past `begin` has its number at or below the floor;
   no run begins twice; no tag without a consumed number.
3. `ReleaseInv`: a tag has one release, no two runs have created one tag, and
   whoever has created one finds no release of it but its own draft.
4. `OrderInv`: what was ever public is at or below the floor; under the
   concurrency group it is below the number of the build that has begun, and
   not above that of the promotion.

Theorems: `LedgerInvariant`, `TypeCorrect`, `RetriesKeepPlan`,
`TagsFollowTheFloor`, `NumbersAreUsedOnce`, `TagsHaveOneRelease`,
`NothingGoesDown`, and `LedgerImplemented`, the refinement of `NumberLedger`.

### HaClientProofs

For every set of channels and readings, every limit and any number of reports,
connections and requests, from `ClientAssumption` (one selected meter at most, and at
least one request identity). The invariant `ClientInv` has two halves.
`Phases` and `Handed` follow the session: the only live thread is the one
`_rest_future` stands for, and a client that leaves its connection either closes
the session or leaves that to the thread. `Ordered`, `Snapshots`, `Answers` and
`Dated` follow the reports: what is still on its way (an event, a snapshot, an
answer) is either newer than all that was processed, or will be recognised as old
by a revision, by `event_updates` or by its timestamp. `NothingOlderThanSeen` speaks
only of the channel, and is not inductive without that.

Theorems: `Serialised` (`OneRequest`), `HandedOver` (`SessionHandedOver`), `Offline`
(`OfflineShowsNothing`), `Newest` (`NothingOlderThanSeen`), `SparesNewer`
(`FailureSparesNewer`) and `SelectedFirst` (`SelectedNotDeferred`).

### EmporiaChannelProofs

For every set of readings, fields and timestamps, every limit and any behaviour of
the wall clock. What a refresh will publish is the sample held back, so `PowerHeld`
and `EnergyHeld` say that this is the newest one reported and published for as long as
it lasts. `Anchored` keeps the distance of the two clocks since a timestamp was first
shown, which only a step of the wall clock changes. Theorems: `Lives`
(`LivesBounded`) and `Forward` (`NeverBackwards`).

### EmporiaWorkerProofs

For every finite set of devices and every interval, with at most six doublings of a
delay, as in the code. `Turns` compares the due times of the two energy periods before
and after the request that overtook one of them has ended, by success or by any
failure: without it `DueOvertakenOnce` says nothing about who is next.
`ReleasedAfterStop` ties what `main` releases to the run's stop event: the callbacks the
event loop still holds are harmless because `main` has waited for that run, and
enters no other. Theorems: `NoStarving` (`DueOvertakenOnce`), `Sessions` (the session
is kept until it is refused), `OnlyOnline` (`EmittedOnline`) and `Untouched`
(`ReleasedUntouched`).

### LifecycleProofs

For any list of different channels, any of them malformed, and wherever a signal
falls. `AllReleased` speaks of the end; what makes it true is that a connected
bus has an owner at every step: the list or the set `main` will close, or the
task that is closing it, unless SIGINT came before that task began (`Owned`, `Closed`),
and that a channel has nothing before its turn (`Ahead`). Theorem: `Released`.

### BusMonitorProofs

For any items and any number of processes, writes and calls, under `BusAssumption` alone.
Each task of the monitor has at most one token, a message on its way or a place in the
event loop's queue (`Once`), and what it is told is what it asked for (`Wire`). `Fresh`
numbers the rest: a signal is newer than everything ahead of it, taken by a task or
cached. Theorem: `OnlyForwards` (`NeverBackwards`).

`Converged` and `ReadYourWrites` speak of the moment when nothing is in flight or a call
has returned, and say nothing of how it came to that. Their invariant (`CalmInv`) holds
while no process has left before the monitor had added it (`~hasty`), and has four parts:

* `Protocol`. The queues are seen as four lanes of labels. An arrival and a
  departure each move one label from lane to lane, one stage an await. `LaneInv`: there is at
  most one of each, a departure is ahead of the next arrival, and a process's signals
  are ahead of its departure. `Strands`, `Tokens`: which await each task can be at, and
  whose process a label belongs to. `Registry`: what the stages of the two say of
  `services`, the entry by name and the number of match rules.
* `Shown`. An item's newest value is in a signal on its way (`News`), or none is on its
  way and it is cached, or it is what every scan under way was told.
* `Written`. Calls reach the process that has the name (`Addressed`), and what the answer to
  a write says is cached or in a signal ahead of it (`Promised`, `ReadBack`).
* `Answers`. Only a call's own answer is taken for it.

A step moves labels in one of a few ways (`Shift`), so that `LaneInv` is proved for those and
not for every action. Theorems: `MonitorFollows`, `MonitorConverges` (`Converged`) and
`WritesAreRead` (`ReadYourWrites`).

### ReleaseProofs

The three models of a release share one module of theorems, and therefore no name.

*Publication.* For any files and page size, and whatever people do. Every row a run has read
is one of a release as it was; a row that passes for the run's draft was made by the run,
because a body is its author's or a person's (`Rows`, `Own`). How far the run is in
its files (`Passed`) then says what the files behind it hold: as built unless changed
by people since (`Checks`), as downloaded (`Downloaded`), and unchanged while the
generation is (`Generations`). It is assumed that file names are different and that
none is `tag`, which the model uses for the tag in `late`. Theorems: `OwnDraft`
(`OwnDraftOnly`), `AsBuilt` (`PublishedAsBuilt`) and `Frozen` (`CandidateFrozen`).

*Archives.* For any inputs. `WholeOrNothing` (`AllOrNothing`), for any platforms, follows from
whose the files at the two names are at each step (`Places`). `AsChecked`, for two
platforms as in the code: what is published was assembled from the archives as they were
checked, although the blobs are read from the files a second time. `AsSeen` says that a file
nobody has touched holds what was checked, `Built` that what is
assembled is of that, once the run has looked at the files again. It gives two parts of the
checked properties for all inputs: a merge keeps every blob of both inputs (`KeepsBlobs`,
in `MergedVerifies`), and each input replayed from a pair is native, with evidence about
the image that runs (`GivesBack`, in `PairReplays`).

*Preparation.* For any versions, requests and number of runs. Main's trees, and the topics
that can be merged, have one version in every declared file, and a topic's is not older
than main's where it branched off (`Origin`, `Fit`); a run's target is not older than
main's at its head, and the topic it goes on from is no person's (`Choosing`). That the chosen
version is not older takes a greatest tag and a first free patch among finitely many
tags (`GreatestExists`, `FreeExists`). Theorems: `PushesKept` (`PeopleKept`) and
`MainForwards` (`NeverBack`). `EditsSurvive` (`EditsKept`) has its own invariant,
`EditInv`: the edit in a file that a local run is about to replace is one the run has read,
or its editor came late (`overtaken`); while another run may still replace it, the file has no
earlier edit than that; and a run without a late editor has read no earlier edit than
another that is about to replace the same file. `EditsKept` is proved for two runs at most, and is false for three: an edit that one run has overwritten late may be
brought back by a second, which had read it before, and be overwritten once more by
a third.

### Only model-checked

* Liveness (`FetchEnds`, `RanOutWithdrawn`, `StopEnds`, `FailureIsolated`,
  `ProgramEnds` and the liveness half of `ContractHolds`): the prover does not reason
  about `ENABLED`.
* The rest of `MergedVerifies` and `PairReplays`: that the second reader accepts a merge, and
  that the leaves of an archive and of its replay are the same. They compare walks of nested
  indexes (`Visits`, a recursive function, and selections from its value), so that they need
  induction over data, which the prover's libraries state for operators only.

`RetriesKeepPlan`, `Sessions` and `AsChecked` are theorems only: no run lists `PlanDurable`,
which the refinement contains, `SessionKept` or `Published`.

## 7. Where the code and its words differ

* `main.py` 676 (the exception in `AllReleased`). SIGINT during start-up, before signal handlers exist,
  can cancel a close task that has not begun; its body never runs, and `main`
  returns with that bus connected (`AllReleased` excepts the buses of such tasks and no
  other, wherever SIGINT falls), although the comment at 941 says that every
  connection is owned from its allocation. The process ends right after, so the system closes
  the socket.
* `main.py` 445 (`lifecycle_loss`). `listen` suppresses `CancelledError` around
  the await of its refresh task, and takes a cancellation of the client for the
  refresh task's. If both cancellations the client is given (the stop of the
  workers, and again after five seconds) fall into such an await, `main` waits
  for the client for ever, while the change log promises an exit after a lost
  bus. `ProgramEnds` shows that one such cancellation does no harm.
* `client.py` 398-401 (the exception `missed` in `Converged`). The comment says that a
  scan skips an item only when a signal has brought a newer value. Match rules
  are counted per name: when a service restarts, a signal of the new process may still
  come by the rules of the old one, which `remove_service` (371) then takes away, and what
  is written before `add_service` adds them again (337) is announced to nobody. The scan
  finds the item seen and keeps the older value until the next write.

## 8. What is not modelled

* Contents: units, signs, multipliers, channel numbers, D-Bus paths and texts, and
  the JSON a request carries. The models take what parsing returns.
* Requests to GitHub that are carried out only after the run that sent them has ended, and
  removal of the ledger's file or branch by hand.
* The promotion by a final build, which the repository's policy
  (`promote-bytes`) does not use, and the unversioned `candidate` command.
* In `ReleaseDraft`: the ledger, which `VersionLedger` has, and the pauses and limits
  of retried reads; the three readings of `ensure_absent` are one step, as
  what they find can only make the run fail later.
* In `BusMonitor`: a second well-known name, the older `PropertiesChanged` signal,
  which is the same to the cache, and texts.
* In `OciArchive`: sizes, compression, media-type variants and the exact JSON.
* The updater: one shell process without a second actor, which can only be cut off
  between two commands; nothing in the code recovers from that, so that there is
  no behaviour to check, only a window, listed as a hazard.
* A channel without a limit, except in the theorems: for `StaleAfter = Unlimited`
  only `NewestShown` says something.
* Windows nothing in the code closes, which the properties except by name or leave
  out: `fetch_value` overwrites a value with an older one a signal has overtaken
  (`client.py` 131); a tag may appear after a preparation read the tags
  (`prepare_version.py` 298), which the reservation of that version refuses later;
  two inputs within the limits give an index the reader with the same limits
  refuses (`merge_oci_archives.py` 220), and so fail closed; a first allocation
  that has created its branch and not the file stops every later one until the
  branch is repaired (`release_state.py` 211).
* The components marked "not modelled" in section 1, for the reasons listed
  under `components` in `PROJECT.json`: vendored code nobody imports, operator
  tools of one request, checks without state.

## 9. Plan

What is left to model, in this order:

1. `DirectSource`: `EmporiaWorker` and `EmporiaChannel` composed, so that a
   reading's age covers its time in the queue.
2. A second name in `BusMonitor`, and `wait_for_service` with a fair daemon.
3. The final-build promotion, and receipts between the jobs of one run.
4. Signed usage and configuration checks as operators, against a definition.
