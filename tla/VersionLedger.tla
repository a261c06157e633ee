---------------------------- MODULE VersionLedger ----------------------------
(***************************************************************************)
(* The release toolkit's version ledger (release_state) and the CI runs    *)
(* that use it: a build reserves a number and a tag, then publishes them;  *)
(* a promotion publishes an accepted RC's bytes as stable.  All they share *)
(* is GitHub: the ledger file on its branch, the tags, the releases.       *)
(*                                                                         *)
(* A step is one request, with the reads it depends on.  Merging a read    *)
(* with the one before it leaves out only orders that end in a failure: a  *)
(* ledger read is compared again when it is written.  Any request may      *)
(* fail, or be carried out and its answer lost; a failed run may be run    *)
(* again.  Deletion of a release by hand is external.                      *)
(***************************************************************************)
EXTENDS Naturals, FiniteSets

CONSTANTS
    Builds, Promotions, \* Actions runs, by what they are asked to do
    Bases,              \* base versions
    Channels,           \* channels the builds are asked for
    PolicyFloors,       \* build_number_floor of the runs' policies
    MaxAttempts,        \* bound: attempts of one run
    NoPlan, NoRun

Runs == Builds \union Promotions

Numbered == {"beta", "rc"}

Tags == [base : Bases, channel : Channels \union {"stable"}, seq : Nat, run : Runs \union {NoRun}]
Plans == [number : Nat, tag : Tags]
Intents == [base : Bases, channel : Channels, floor : PolicyFloors]

ASSUME LedgerAssumption ==
    /\ Builds \intersect Promotions = {} /\ NoRun \notin Runs /\ NoPlan \notin Plans
    /\ Channels \subseteq Numbered \union {"nightly"}
    /\ PolicyFloors \subseteq Nat
    /\ MaxAttempts \in Nat \ {0}

VARIABLES
    serialized, \* whether the workflow's concurrency group admits one run
    branch,     \* the branch release-version-state exists
    ledger,     \* its file; stored is FALSE while there is none
    tags,       \* tags of plans and of promotions
    releases,   \* drafts and public releases
    pc, attempt, intent,
    view,       \* the ledger a run has read, or has left behind it
    plan,       \* .release-plan.json, or the manifest of the RC to promote
    newest,     \* history: the highest number that was ever public
    begun       \* history: publications each build has begun

github == <<branch, ledger, tags, releases>>
local == <<pc, attempt, intent, view, plan>>
vars == <<serialized, github, local, newest, begun>>

Empty == [stored |-> FALSE, counter |-> 0, floor |-> 0, plans |-> [r \in Runs |-> NoPlan]]

Tag(base, channel, seq, r) == [base |-> base, channel |-> channel, seq |-> seq, run |-> r]
StableTag(base) == Tag(base, "stable", 0, NoRun)

\* The tag a run publishes: its plan's, or that of the stable copy.
Target(r) == IF r \in Builds THEN plan[r].tag ELSE StableTag(plan[r].tag.base)

Public == {x \in releases : x.public}
PublicTags == {x.tag : x \in Public}

\* Mutated form: a release looked up by its tag, which hides drafts.
OccupiedInPublic(tag) == tag \in PublicTags

Occupied(tag) == tag \in tags \/ \E x \in releases : x.tag = tag

Active(r) == pc[r] \notin {"idle", "failed", "done"}
MayRun == serialized => \A r \in Runs : ~Active(r)

Init ==
    /\ serialized \in BOOLEAN
    /\ branch = FALSE /\ ledger = Empty /\ tags = {} /\ releases = {}
    /\ pc = [r \in Runs |-> "idle"]
    /\ attempt = [r \in Runs |-> 0]
    /\ intent \in [Builds -> Intents]
    /\ view = [r \in Runs |-> Empty]
    /\ plan = [r \in Runs |-> NoPlan]
    /\ newest = 0
    /\ begun = [r \in Builds |-> 0]

Goto(r, place) == pc' = [pc EXCEPT ![r] = place]

StartBuild(r) ==
    /\ pc[r] = "idle" /\ MayRun
    /\ Goto(r, "prepare")
    /\ attempt' = [attempt EXCEPT ![r] = 1]
    /\ UNCHANGED <<serialized, github, intent, view, plan, newest, begun>>

\* verified_rc, of another run
Candidate(s) ==
    /\ ledger.plans[s] # NoPlan
    /\ ledger.plans[s].tag \in PublicTags
    /\ ledger.plans[s].tag.channel = "rc"

\* A person dispatches the stable channel with the tag of a published RC.
StartPromotion(r) ==
    /\ pc[r] = "idle" /\ MayRun
    /\ \E s \in Builds :
          /\ Candidate(s)
          /\ plan' = [plan EXCEPT ![r] = ledger.plans[s]]
    /\ Goto(r, "publish")
    /\ attempt' = [attempt EXCEPT ![r] = 1]
    /\ UNCHANGED <<serialized, github, intent, view, newest, begun>>

\* A person runs a run that has ended again, the whole of it or only the jobs
\* after prepare.
Retry(r) ==
    /\ pc[r] \in {"failed", "done"} /\ attempt[r] < MaxAttempts /\ MayRun
    /\ \/ r \in Builds /\ Goto(r, "prepare")
       \/ plan[r] # NoPlan /\ Goto(r, "publish")
    /\ attempt' = [attempt EXCEPT ![r] = @ + 1]
    /\ UNCHANGED <<serialized, github, intent, view, plan, newest, begun>>

\* Any check, request or job fails, the run is cancelled, or an automatic beta
\* finds its version released and stops.  A plan not yet written to its file is lost.
Fail(r) ==
    /\ Active(r)
    /\ Goto(r, "failed")
    /\ plan' = IF pc[r] = "reserve" THEN [plan EXCEPT ![r] = NoPlan] ELSE plan
    /\ UNCHANGED <<serialized, github, attempt, intent, view, newest, begun>>

-----------------------------------------------------------------------------
(* prepare: reserve_plan                                                   *)

Readable == ledger.stored \/ ~branch

\* read_state; a run that has its plan already gets it again.
ReadLedger(r) ==
    /\ pc[r] = "prepare" /\ Readable
    /\ intent[r].channel \in Numbered => ~Occupied(StableTag(intent[r].base))
    /\ view' = [view EXCEPT ![r] = ledger]
    /\ IF ledger.plans[r] = NoPlan
         THEN Goto(r, "number") /\ UNCHANGED plan
         ELSE Goto(r, "publish") /\ plan' = [plan EXCEPT ![r] = ledger.plans[r]]
    /\ UNCHANGED <<serialized, github, attempt, intent, newest, begun>>

\* Sequences of a base's candidates, on GitHub and in the ledger as it was read.
Taken(r) ==
    LET Same(tag) == tag.base = intent[r].base /\ tag.channel = intent[r].channel
        listed == tags \union {x.tag : x \in releases}
        reserved == {view[r].plans[s].tag : s \in {q \in Runs : view[r].plans[q] # NoPlan}}
    IN  {tag.seq : tag \in {u \in listed \union reserved : Same(u)}}

NextSequence(r) == {n \in {1} \union {m + 1 : m \in Taken(r)} : \A m \in Taken(r) : m < n}

\* Mutated form: a policy's floor replaces the counter.
NextNumberOfPolicy(r) == 1 + intent[r].floor

NextNumber(r) ==
    1 + (IF intent[r].floor > view[r].counter THEN intent[r].floor ELSE view[r].counter)

CandidateTags(r) ==
    IF intent[r].channel \in Numbered
      THEN {Tag(intent[r].base, intent[r].channel, n, NoRun) : n \in NextSequence(r)}
      ELSE {Tag(intent[r].base, "nightly", attempt[r], r)}

ChoosePlan(r) ==
    /\ pc[r] = "number"
    /\ \E tag \in CandidateTags(r) :
          /\ ~Occupied(tag)
          /\ plan' = [plan EXCEPT ![r] = [number |-> NextNumber(r), tag |-> tag]]
    /\ Goto(r, "reserve")
    /\ UNCHANGED <<serialized, github, attempt, intent, view, newest, begun>>

\* The first allocation creates the branch; until the write that follows has
\* succeeded it has no file, and read_state refuses it.
CreateBranch(r) ==
    /\ pc[r] = "reserve" /\ ~branch
    /\ branch' = TRUE
    /\ \/ UNCHANGED <<pc, plan>>
       \/ Goto(r, "failed") /\ plan' = [plan EXCEPT ![r] = NoPlan]
    /\ UNCHANGED <<serialized, ledger, tags, releases, attempt, intent, view, newest, begun>>

\* Mutated form: the last writer wins.
SwapBlindly(r, new) == ledger' = new

\* The contents API replaces the file only if it is the one the run has read.
Swap(r, new) ==
    /\ view[r] = ledger
    /\ ledger' = new

\* A run that gets no answer, or cannot store the plan's file, has no plan.
WritePlan(r) ==
    /\ pc[r] = "reserve" /\ branch
    /\ Swap(r, [view[r] EXCEPT !.stored = TRUE,
                               !.counter = plan[r].number,
                               !.plans[r] = plan[r]])
    /\ \/ Goto(r, "publish") /\ UNCHANGED plan
       \/ Goto(r, "failed") /\ plan' = [plan EXCEPT ![r] = NoPlan]
    /\ UNCHANGED <<serialized, branch, tags, releases, attempt, intent, view, newest, begun>>

-----------------------------------------------------------------------------
(* publish_versioned and promote: begin_publication, _publish_prepared     *)

PublishedPlan(s) == ledger.plans[s] # NoPlan /\ ledger.plans[s].tag \in PublicTags

\* Mutated form: a number may be used again while nothing newer is public.
PublishableAgain(r) ==
    /\ ledger.plans[r] = plan[r]
    /\ \A s \in Runs : PublishedPlan(s) => ledger.plans[s].number <= plan[r].number

\* _verify_reservation
Publishable(r) ==
    /\ ledger.plans[r] = plan[r]
    /\ plan[r].number > ledger.floor
    /\ \A s \in Runs : PublishedPlan(s) => ledger.plans[s].number < plan[r].number

\* Mutated form: only what is public now counts.
PromotableByReleases(r) ==
    /\ Cardinality({s \in Runs : ledger.plans[s] = plan[r]}) = 1
    /\ plan[r].tag \in PublicTags
    /\ \A s \in Runs : PublishedPlan(s) => ledger.plans[s].number <= plan[r].number

\* _verify_promotion_order
Promotable(r) ==
    /\ Cardinality({s \in Runs : ledger.plans[s] = plan[r]}) = 1
    /\ plan[r].number >= ledger.floor
    /\ plan[r].tag \in PublicTags
    /\ \A s \in Runs : PublishedPlan(s) => ledger.plans[s].number <= plan[r].number

\* What a run must find before it begins, whatever else it checks.
Ready(r) ==
    /\ Readable
    /\ IF r \in Builds THEN Publishable(r) ELSE Promotable(r)
    /\ ~Occupied(Target(r))
    /\ Target(r).channel \in Numbered => ~Occupied(StableTag(plan[r].tag.base))

\* An automatic run gives way to the run of a newer commit; its reserved
\* number is never used.
Superseded(r) ==
    /\ pc[r] = "publish" /\ Ready(r)
    /\ plan[r].tag.channel \in {"beta", "nightly"}
    /\ Goto(r, "done")
    /\ UNCHANGED <<serialized, github, attempt, intent, view, plan, newest, begun>>

\* A scheduled nightly stands back for a release of the same source, or for
\* the stable copy of one.
Reused(r) ==
    /\ pc[r] = "publish" /\ Ready(r)
    /\ plan[r].tag.channel = "nightly"
    /\ \E s \in Builds :
          /\ ledger.plans[s] # NoPlan
          /\ ledger.plans[s].tag.base = plan[r].tag.base
          /\ ledger.plans[s].tag.channel \in Numbered
          /\ \/ ledger.plans[s].tag \in PublicTags
             \/ /\ ledger.plans[s].tag.channel = "rc"
                /\ StableTag(plan[r].tag.base) \in PublicTags
    /\ Goto(r, "done")
    /\ UNCHANGED <<serialized, github, attempt, intent, view, plan, newest, begun>>

BeginRead(r) ==
    /\ pc[r] = "publish" /\ Ready(r)
    /\ view' = [view EXCEPT ![r] = ledger]
    /\ Goto(r, "begin")
    /\ UNCHANGED <<serialized, github, attempt, intent, plan, newest, begun>>

\* Mutated form: the floor is left to the first release that is public.
ConsumedLater(r) == IF newest = 0 THEN view[r] ELSE [view[r] EXCEPT !.floor = plan[r].number]

Consumed(r) == [view[r] EXCEPT !.floor = plan[r].number]

\* view becomes what begin_publication returns, which the run compares the
\* ledger with before it believes in a draft whose creation got no answer.
BeginWrite(r) ==
    /\ pc[r] = "begin"
    /\ Swap(r, Consumed(r))
    /\ view' = [view EXCEPT ![r] = Consumed(r)]
    /\ begun' = IF r \in Builds THEN [begun EXCEPT ![r] = @ + 1] ELSE begun
    /\ Goto(r, "tag") \/ Goto(r, "failed")
    /\ UNCHANGED <<serialized, branch, tags, releases, attempt, intent, plan, newest>>

\* ensure_absent, then POST git/refs, which GitHub refuses for a tag that exists.
CreateTag(r) ==
    /\ pc[r] = "tag"
    /\ ~Occupied(Target(r))
    /\ tags' = tags \union {Target(r)}
    /\ Goto(r, "draft") \/ Goto(r, "failed")
    /\ UNCHANGED <<serialized, branch, ledger, releases, attempt, intent, view, plan, newest, begun>>

\* The notes of a build's draft carry a marker of this attempt.
Draft(r) == [tag |-> Target(r), number |-> plan[r].number, run |-> r,
             attempt |-> attempt[r], public |-> FALSE]

\* POST releases.  GitHub takes several drafts of one tag.
CreateDraft(r) ==
    /\ pc[r] = "draft"
    /\ releases' = releases \union {Draft(r)}
    /\ \/ Goto(r, "upload")
       \/ Goto(r, IF r \in Builds THEN "unsure" ELSE "failed")
    /\ UNCHANGED <<serialized, branch, ledger, tags, attempt, intent, view, plan, newest, begun>>

\* The request was lost before it was carried out.
LoseDraft(r) ==
    /\ pc[r] = "draft" /\ r \in Builds
    /\ Goto(r, "unsure")
    /\ UNCHANGED <<serialized, github, attempt, intent, view, plan, newest, begun>>

\* create_confirmation: nobody has written the ledger since this run did.
Confirmed(r) == ledger = view[r]

\* _reconcile_created_release
Reconcile(r) ==
    /\ pc[r] = "unsure"
    /\ Confirmed(r)
    /\ {x \in releases : x.tag = Target(r)} = {Draft(r)}
    /\ Goto(r, "upload")
    /\ UNCHANGED <<serialized, github, attempt, intent, view, plan, newest, begun>>

\* PATCH releases/{id}, after the uploads and the check of the tag.
Publish(r) ==
    /\ pc[r] = "upload"
    /\ Draft(r) \in releases /\ Target(r) \in tags
    /\ releases' = (releases \ {Draft(r)}) \union {[Draft(r) EXCEPT !.public = TRUE]}
    /\ newest' = IF plan[r].number > newest THEN plan[r].number ELSE newest
    /\ Goto(r, "done") \/ Goto(r, "failed")
    /\ UNCHANGED <<serialized, branch, ledger, tags, attempt, intent, view, plan, begun>>

\* External: a person deletes a public release, with its tag or without it.
Delete ==
    /\ \E x \in Public :
          /\ releases' = releases \ {x}
          /\ tags' \in {tags, tags \ {x.tag}}
    /\ UNCHANGED <<serialized, branch, ledger, local, newest, begun>>

Build(r) ==
    StartBuild(r) \/ ReadLedger(r) \/ ChoosePlan(r) \/ CreateBranch(r) \/ WritePlan(r)

Publication(r) ==
    \/ Superseded(r) \/ Reused(r)
    \/ BeginRead(r) \/ BeginWrite(r) \/ CreateTag(r)
    \/ CreateDraft(r) \/ LoseDraft(r) \/ Reconcile(r) \/ Publish(r)

Next ==
    \/ \E r \in Builds : Build(r)
    \/ \E r \in Promotions : StartPromotion(r)
    \/ \E r \in Runs : Publication(r) \/ Retry(r) \/ Fail(r)
    \/ Delete

Spec == Init /\ [][Next]_vars

-----------------------------------------------------------------------------
(* Properties                                                              *)

Places == {"idle", "prepare", "number", "reserve", "publish", "begin",
           "tag", "draft", "unsure", "upload", "done", "failed"}
Releases == [tag : Tags, number : Nat, run : Runs, attempt : Nat, public : BOOLEAN]
Ledgers == [stored : BOOLEAN, counter : Nat, floor : Nat, plans : [Runs -> Plans \union {NoPlan}]]

\* What read_state demands of the file: a ledger that fails it stops every
\* release for good.
Valid(state) ==
    /\ state \in Ledgers
    /\ state.floor <= state.counter
    /\ \A s \in Runs : state.plans[s] # NoPlan => state.plans[s].number <= state.counter

\* Types; and whatever the runs write, and have read, read_state accepts.
TypeOK ==
    /\ serialized \in BOOLEAN /\ branch \in BOOLEAN
    /\ Valid(ledger) /\ (ledger.stored => branch) /\ (~ledger.stored => ledger = Empty)
    /\ tags \subseteq Tags
    /\ releases \subseteq Releases
    /\ pc \in [Runs -> Places]
    /\ attempt \in [Runs -> 0..MaxAttempts]
    /\ intent \in [Builds -> Intents]
    /\ view \in [Runs -> Ledgers] /\ \A r \in Runs : Valid(view[r])
    /\ plan \in [Runs -> Plans \union {NoPlan}]
    /\ newest \in Nat /\ begun \in [Builds -> Nat]

\* Concurrent runs, retries and lost answers notwithstanding, the file is one
\* atomic ledger: a number and a tag belong to one run, a run's plan is never
\* replaced, and the counter and the floor never move back (docs/VERSIONING.md,
\* "Durable allocation and retries").
Ledger == INSTANCE NumberLedger
            WITH counter <- ledger.counter, floor <- ledger.floor, plans <- ledger.plans
LedgerIsAtomic == Ledger!Spec

\* The plan a build goes by is the one in the ledger, whichever attempt
\* reserved it: retries are bound to the same identity.
PlanDurable ==
    \A r \in Builds : plan[r] # NoPlan /\ pc[r] # "reserve" => ledger.plans[r] = plan[r]

\* begin_publication consumes a number before the first tag that bears it, so
\* no tag is ever found above the floor, after any failure.
TagsConsumed ==
    \A tag \in tags : \E s \in Builds :
        /\ ledger.plans[s] # NoPlan
        /\ ledger.plans[s].number <= ledger.floor
        /\ \/ ledger.plans[s].tag = tag
           \/ ledger.plans[s].tag.channel = "rc" /\ StableTag(ledger.plans[s].tag.base) = tag

\* A failed publication consumes its number: no retry publishes it again.
ConsumedOnce == \A r \in Builds : begun[r] <= 1

\* However often creation is retried or its answer lost, a tag has one release.
OneRelease == \A x, y \in releases : x.tag = y.tag => x = y

\* Under the workflow's concurrency group nothing becomes public that is older
\* than what was public before, deleted or not: an updater never sees a native
\* build number go down.
NoDowngrade ==
    [][\A x \in releases' \ releases : serialized /\ x.public =>
            IF x.run \in Builds THEN x.number > newest ELSE x.number >= newest]_vars
=============================================================================
