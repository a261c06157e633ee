------------------------ MODULE VersionLedgerProofs -------------------------
(***************************************************************************)
(* Proofs about the version ledger for any number of runs, attempts,       *)
(* versions and channels.                                                  *)
(*                                                                         *)
(* None of the properties is inductive.  The invariant is built in layers: *)
(*   LedgerInv       what a run holds agrees with the ledger it has read;  *)
(*                   since a write succeeds only on that ledger, writing   *)
(*                   is an atomic step of NumberLedger;                    *)
(*   ConsumptionInv  what has begun to be published stays below the floor; *)
(*   ReleaseInv      a tag is the lock on its release;                     *)
(*   OrderInv        a run alone with a consumed number is above all that  *)
(*                   was public.                                           *)
(* Each layer uses the ones before it.                                     *)
(***************************************************************************)
EXTENDS VersionLedger, TLAPS

\* Where a run works with a plan.
Publishing == {"publish", "begin", "tag", "draft", "unsure", "upload"}

Shapes ==
    /\ serialized \in BOOLEAN /\ branch \in BOOLEAN
    /\ ledger \in Ledgers
    /\ tags \subseteq Tags
    /\ releases \subseteq Releases
    /\ pc \in [Runs -> Places]
    /\ attempt \in [Runs -> 0..MaxAttempts]
    /\ intent \in [Builds -> Intents]
    /\ view \in [Runs -> Ledgers]
    /\ plan \in [Runs -> Plans \union {NoPlan}]
    /\ newest \in Nat /\ begun \in [Builds -> Nat]

\* A run that is past its reservation, or at it, has a plan; only builds
\* reserve.
Equipped ==
    \A r \in Runs :
        /\ pc[r] \in {"reserve"} \union Publishing => plan[r] # NoPlan
        /\ pc[r] \in {"prepare", "number", "reserve"} => r \in Builds

Typed == Shapes /\ Equipped

\* A run that stands back for another only ends.
StandsBack(r) == Superseded(r) \/ Reused(r)

LEMMA StandingBack ==
    ASSUME NEW r \in Runs, StandsBack(r)
    PROVE  /\ pc[r] = "publish" /\ pc' = [pc EXCEPT ![r] = "done"]
           /\ UNCHANGED <<serialized, branch, ledger, tags, releases, attempt, intent, view,
                          plan, newest, begun>>
BY DEF StandsBack, Superseded, Reused, Goto, github

LEMMA EmptyTyped == Empty \in Ledgers
BY DEF Empty, Ledgers

LEMMA TargetTyped ==
    ASSUME Typed, NEW r \in Runs, plan[r] # NoPlan
    PROVE  Target(r) \in Tags
BY DEF Typed, Shapes, Target, StableTag, Tag, Tags, Plans

LEMMA DraftTyped ==
    ASSUME Typed, NEW r \in Runs, plan[r] # NoPlan
    PROVE  /\ Draft(r) \in Releases
           /\ [Draft(r) EXCEPT !.public = TRUE] \in Releases
<1>1. Target(r) \in Tags
  BY TargetTyped
<1>2. plan[r].number \in Nat /\ attempt[r] \in Nat
  BY LedgerAssumption DEF Typed, Shapes, Plans
<1>. QED BY <1>1, <1>2 DEF Draft, Releases

LEMMA CandidatesTyped ==
    ASSUME Typed, NEW r \in Builds
    PROVE  CandidateTags(r) \subseteq Tags /\ NextNumber(r) \in Nat
<1>1. Taken(r) \subseteq Nat
  <2>1. SUFFICES ASSUME NEW n \in Taken(r) PROVE n \in Nat
    OBVIOUS
  <2>2. PICK tag \in tags \union {x.tag : x \in releases} \union
                     {view[r].plans[s].tag : s \in {q \in Runs : view[r].plans[q] # NoPlan}} :
                n = tag.seq
    BY <2>1 DEF Taken
  <2>3. \A x \in releases : x.tag \in Tags
    BY DEF Typed, Shapes, Releases
  <2>4. \A s \in Runs : view[r].plans[s] # NoPlan => view[r].plans[s].tag \in Tags
    BY DEF Typed, Shapes, Ledgers, Plans, Runs
  <2>5. tag \in Tags
    BY <2>2, <2>3, <2>4 DEF Typed, Shapes
  <2>. QED BY <2>2, <2>5 DEF Tags
<1>2. NextSequence(r) \subseteq Nat
  BY <1>1 DEF NextSequence
<1>3. intent[r] \in Intents /\ view[r] \in Ledgers /\ attempt[r] \in Nat
  BY LedgerAssumption DEF Typed, Shapes, Runs
<1>4. CandidateTags(r) \subseteq Tags
  <2>1. intent[r].base \in Bases /\ intent[r].channel \in Channels
    BY <1>3 DEF Intents
  <2>2. CASE intent[r].channel \in Numbered
    BY <1>2, <2>1, <2>2 DEF CandidateTags, Tags, Tag
  <2>3. CASE intent[r].channel \notin Numbered
    <3>1. intent[r].channel = "nightly" /\ r \in Runs
      BY <2>1, <2>3, LedgerAssumption DEF Runs
    <3>2. CandidateTags(r) = {Tag(intent[r].base, "nightly", attempt[r], r)}
      BY <2>3 DEF CandidateTags
    <3>. QED BY <1>3, <2>1, <3>1, <3>2 DEF Tags, Tag
  <2>. QED BY <2>2, <2>3
<1>5. NextNumber(r) \in Nat
  <2>1. intent[r].floor \in Nat /\ view[r].counter \in Nat
    BY <1>3, LedgerAssumption DEF Intents, Ledgers
  <2>. QED BY <2>1 DEF NextNumber
<1>. QED BY <1>4, <1>5

LEMMA TypedInit == Init => Typed
<1>. SUFFICES ASSUME Init PROVE Typed
  OBVIOUS
<1>1. intent \in [Builds -> Intents]
  BY DEF Init, Intents
<1>2. attempt \in [Runs -> 0..MaxAttempts]
  BY LedgerAssumption DEF Init
<1>. QED BY <1>1, <1>2, EmptyTyped DEF Init, Typed, Shapes, Equipped, Publishing, Places

LEMMA TypedStep == Typed /\ [Next]_vars => Typed'
<1>. SUFFICES ASSUME Typed, [Next]_vars PROVE Typed'
  OBVIOUS
<1>. USE LedgerAssumption DEF Typed, Shapes, Equipped, Publishing, Places, Goto
<1>1. ASSUME NEW r \in Builds, StartBuild(r) PROVE Typed'
  <2>1. attempt' \in [Runs -> 0..MaxAttempts]
    BY <1>1 DEF StartBuild, Runs
  <2>. QED BY <1>1, <2>1 DEF StartBuild, github, Runs
<1>2. ASSUME NEW r \in Promotions, StartPromotion(r) PROVE Typed'
  <2>1. PICK s \in Builds : /\ ledger.plans[s] # NoPlan
                            /\ plan' = [plan EXCEPT ![r] = ledger.plans[s]]
    BY <1>2 DEF StartPromotion, Candidate
  <2>2. ledger.plans[s] \in Plans
    BY <2>1 DEF Ledgers, Runs
  <2>3. plan' \in [Runs -> Plans \union {NoPlan}] /\ plan'[r] # NoPlan
    BY <2>1, <2>2 DEF Runs
  <2>4. attempt' \in [Runs -> 0..MaxAttempts]
    BY <1>2 DEF StartPromotion, Runs
  <2>. QED BY <1>2, <2>1, <2>3, <2>4 DEF StartPromotion, github, Runs
<1>3. ASSUME NEW r \in Runs, Retry(r) PROVE Typed'
  <2>1. attempt' \in [Runs -> 0..MaxAttempts]
    BY <1>3 DEF Retry
  <2>. QED BY <1>3, <2>1 DEF Retry, github
<1>4. ASSUME NEW r \in Runs, Fail(r) PROVE Typed'
  BY <1>4 DEF Fail, github
<1>5. ASSUME NEW r \in Builds, ReadLedger(r) PROVE Typed'
  <2>1. CASE ledger.plans[r] = NoPlan
    BY <1>5, <2>1 DEF ReadLedger, github, Runs
  <2>2. CASE ledger.plans[r] # NoPlan
    <3>1. ledger.plans[r] \in Plans
      BY <2>2 DEF Ledgers, Runs
    <3>. QED BY <1>5, <2>2, <3>1 DEF ReadLedger, github, Runs
  <2>. QED BY <2>1, <2>2
<1>6. ASSUME NEW r \in Builds, ChoosePlan(r) PROVE Typed'
  BY <1>6, CandidatesTyped DEF ChoosePlan, github, Runs, Plans
<1>7. ASSUME NEW r \in Builds, CreateBranch(r) PROVE Typed'
  BY <1>7 DEF CreateBranch, Runs
<1>8. ASSUME NEW r \in Builds, WritePlan(r) PROVE Typed'
  <2>1. ledger' \in Ledgers
    BY <1>8 DEF WritePlan, Swap, Runs, Ledgers, Plans
  <2>. QED BY <1>8, <2>1 DEF WritePlan, Runs
<1>9. ASSUME NEW r \in Runs, BeginRead(r) PROVE Typed'
  BY <1>9 DEF BeginRead, github
<1>10. ASSUME NEW r \in Runs, BeginWrite(r) PROVE Typed'
  <2>1. Consumed(r) \in Ledgers
    BY <1>10 DEF BeginWrite, Consumed, Ledgers, Plans
  <2>. QED BY <1>10, <2>1 DEF BeginWrite, Swap
<1>11. ASSUME NEW r \in Runs, CreateTag(r) PROVE Typed'
  BY <1>11, TargetTyped DEF CreateTag
<1>12. ASSUME NEW r \in Runs, CreateDraft(r) PROVE Typed'
  BY <1>12, DraftTyped DEF CreateDraft
<1>13. ASSUME NEW r \in Runs, LoseDraft(r) PROVE Typed'
  BY <1>13 DEF LoseDraft, github
<1>14. ASSUME NEW r \in Runs, Reconcile(r) PROVE Typed'
  BY <1>14 DEF Reconcile, github
<1>15. ASSUME NEW r \in Runs, Publish(r) PROVE Typed'
  BY <1>15, DraftTyped DEF Publish, Plans
<1>16. ASSUME Delete PROVE Typed'
  BY <1>16 DEF Delete, local
<1>17. ASSUME NEW r \in Runs, StandsBack(r) PROVE Typed'
  BY <1>17, StandingBack
<1>18. ASSUME UNCHANGED vars PROVE Typed'
  BY <1>18 DEF vars, github, local
<1>. QED
  BY <1>1, <1>2, <1>3, <1>4, <1>5, <1>6, <1>7, <1>8, <1>9, <1>10, <1>11, <1>12,
     <1>13, <1>14, <1>15, <1>16, <1>17, <1>18
  DEF Next, Build, Publication, StandsBack

-----------------------------------------------------------------------------
(* What runs know of the ledger.                                           *)

PlanOf(r, p) == p.tag.channel \in Channels /\ (p.tag.channel = "nightly" => p.tag.run = r)

\* Plans belong to builds, and a nightly's tag names its run.
Owned(state) == \A s \in Runs : state.plans[s] # NoPlan => s \in Builds /\ PlanOf(s, state.plans[s])

Owners == Owned(ledger) /\ \A r \in Runs : Owned(view[r])

Validity ==
    /\ Valid(ledger) /\ \A r \in Runs : Valid(view[r])
    /\ ledger.stored => branch
    /\ ~ledger.stored => ledger = Empty

\* A reservation is new to the ledger the run has read.
Fresh ==
    \A r \in Builds :
        /\ pc[r] \in {"number", "reserve"} => view[r].plans[r] = NoPlan
        /\ pc[r] = "reserve" =>
              /\ PlanOf(r, plan[r])
              /\ plan[r].number > view[r].counter
              /\ \A s \in Runs : view[r].plans[s] # NoPlan => view[r].plans[s].tag # plan[r].tag

\* A promotion works with the plan of an RC that is in the ledger.
Accepted ==
    \A r \in Promotions : plan[r] # NoPlan =>
        \E s \in Builds : ledger.plans[s] = plan[r] /\ plan[r].tag.channel = "rc"

\* What a publication is about to write as the floor is not below it.
Advancing ==
    \A r \in Runs : pc[r] = "begin" =>
        IF r \in Builds THEN plan[r].number > view[r].floor ELSE plan[r].number >= view[r].floor

LedgerInv == Typed /\ Validity /\ Owners /\ Fresh /\ PlanDurable /\ Accepted /\ Advancing

LEMMA PlanInLedger ==
    ASSUME LedgerInv, NEW r \in Runs, plan[r] # NoPlan, pc[r] # "reserve"
    PROVE  \E s \in Builds : ledger.plans[s] = plan[r] /\ plan[r].number <= ledger.counter
<1>1. \E s \in Builds : ledger.plans[s] = plan[r]
  BY DEF LedgerInv, PlanDurable, Accepted, Runs
<1>. QED BY <1>1 DEF LedgerInv, Validity, Valid, Runs

\* The number and the tag ChoosePlan takes are new to the ledger it has read.
LEMMA ChoiceIsFresh ==
    ASSUME LedgerInv, NEW r \in Builds, NEW tag \in CandidateTags(r),
           view[r].plans[r] = NoPlan
    PROVE  /\ NextNumber(r) > view[r].counter
           /\ PlanOf(r, [number |-> NextNumber(r), tag |-> tag])
           /\ \A s \in Runs : view[r].plans[s] # NoPlan => view[r].plans[s].tag # tag
<1>1. intent[r].channel \in Channels /\ intent[r].floor \in Nat
      /\ view[r].counter \in Nat
  BY LedgerAssumption DEF LedgerInv, Typed, Shapes, Intents, Ledgers, Runs
<1>2. NextNumber(r) > view[r].counter
  BY <1>1 DEF NextNumber
<1>3. CASE intent[r].channel \in Numbered
  <2>1. PICK n \in NextSequence(r) : tag = Tag(intent[r].base, intent[r].channel, n, NoRun)
    BY <1>3 DEF CandidateTags
  <2>2. \A m \in Taken(r) : m < n
    BY <2>1 DEF NextSequence
  <2>3. ASSUME NEW s \in Runs, view[r].plans[s] # NoPlan, view[r].plans[s].tag = tag
        PROVE  FALSE
    <3>1. tag.base = intent[r].base /\ tag.channel = intent[r].channel /\ tag.seq = n
      BY <2>1 DEF Tag
    <3>2. n \in Taken(r)
      BY <2>3, <3>1 DEF Taken
    <3>3. n \in Nat
      BY <2>3, <3>1 DEF LedgerInv, Typed, Shapes, Ledgers, Plans, Tags, Runs
    <3>. QED BY <2>2, <3>2, <3>3
  <2>4. tag.channel \in Channels /\ tag.channel # "nightly"
    BY <1>1, <1>3, <2>1 DEF Tag, Numbered
  <2>. QED BY <1>2, <2>3, <2>4 DEF PlanOf
<1>4. CASE intent[r].channel \notin Numbered
  <2>1. tag.channel = "nightly" /\ tag.run = r
    BY <1>4 DEF CandidateTags, Tag
  <2>1a. tag.channel \in Channels
    <3>1. intent[r].channel = "nightly"
      BY <1>1, <1>4, LedgerAssumption
    <3>. QED BY <1>1, <2>1, <3>1
  <2>2. ASSUME NEW s \in Runs, view[r].plans[s] # NoPlan, view[r].plans[s].tag = tag
        PROVE  FALSE
    <3>1. s = r
      BY <2>1, <2>2 DEF LedgerInv, Owners, Owned, PlanOf, Runs
    <3>. QED BY <2>2, <3>1
  <2>. QED BY <1>2, <2>1, <2>1a, <2>2 DEF PlanOf
<1>. QED BY <1>3, <1>4

LEMMA LedgerInit == Init => LedgerInv
<1>. SUFFICES ASSUME Init PROVE LedgerInv
  OBVIOUS
<1>1. Valid(Empty) /\ Owned(Empty)
  BY EmptyTyped DEF Valid, Owned, Empty
<1>. QED BY <1>1, TypedInit
  DEF Init, LedgerInv, Validity, Owners, Fresh, PlanDurable, Accepted, Advancing, Runs, Empty

\* Steps that leave the ledger, the views and the plans alone and enter no
\* place where more must be known.
LEMMA Indifferent ==
    ASSUME LedgerInv, Typed', UNCHANGED <<branch, ledger, view, plan>>,
           \A r \in Runs : pc'[r] = pc[r] \/ pc'[r] \notin {"number", "reserve", "begin"},
           \A r \in Builds : pc[r] = "reserve" => pc'[r] = "reserve"
    PROVE  LedgerInv'
BY LedgerAssumption DEF LedgerInv, Validity, Owners, Owned, Fresh, PlanDurable, Accepted, Advancing, Runs, Valid

LEMMA LedgerStep == LedgerInv /\ [Next]_vars => LedgerInv'
<1>. SUFFICES ASSUME LedgerInv, [Next]_vars PROVE LedgerInv'
  OBVIOUS
<1>. Typed /\ Typed' /\ pc \in [Runs -> Places]
  BY TypedStep DEF LedgerInv, Typed, Shapes
<1>1. ASSUME NEW r \in Builds, StartBuild(r) PROVE LedgerInv'
  BY <1>1, Indifferent DEF StartBuild, Goto, github, Runs
<1>2. ASSUME NEW r \in Promotions, StartPromotion(r) PROVE LedgerInv'
  <2>1. PICK s \in Builds : /\ ledger.plans[s].tag.channel = "rc"
                            /\ plan' = [plan EXCEPT ![r] = ledger.plans[s]]
    BY <1>2 DEF StartPromotion, Candidate
  <2>. USE <1>2, <2>1, LedgerAssumption
       DEF StartPromotion, Goto, github, LedgerInv, Typed, Shapes, Runs
  <2>1a. r \notin Builds
    OBVIOUS
  <2>2. Accepted'
    BY DEF Accepted
  <2>3. Validity' /\ Owners' /\ PlanDurable'
    BY <2>1a DEF Validity, Valid, Owners, Owned, PlanDurable
  <2>4. Fresh' /\ Advancing'
    BY <2>1a DEF Fresh, Advancing
  <2>. QED BY <2>2, <2>3, <2>4
<1>3. ASSUME NEW r \in Runs, Retry(r) PROVE LedgerInv'
  <2>1. /\ pc[r] # "reserve" /\ UNCHANGED <<branch, ledger, view, plan>>
        /\ \E place \in {"prepare", "publish"} : pc' = [pc EXCEPT ![r] = place]
    BY <1>3 DEF Retry, Goto, github
  <2>. QED BY <2>1, Indifferent
<1>4. ASSUME NEW r \in Runs, Fail(r) PROVE LedgerInv'
  <2>1. CASE pc[r] # "reserve"
    BY <1>4, <2>1, Indifferent DEF Fail, Goto, github
  <2>2. CASE pc[r] = "reserve"
    <3>. USE <1>4, <2>2, LedgerAssumption
         DEF Fail, Goto, github, LedgerInv, Typed, Shapes, Runs
    <3>1. Validity' /\ Owners'
      BY DEF Validity, Valid, Owners, Owned
    <3>2. Fresh' /\ PlanDurable' /\ Accepted' /\ Advancing'
      BY DEF Fresh, PlanDurable, Accepted, Advancing
    <3>. QED BY <3>1, <3>2
  <2>. QED BY <2>1, <2>2
<1>5. ASSUME NEW r \in Builds, ReadLedger(r) PROVE LedgerInv'
  <2>. USE <1>5, LedgerAssumption DEF ReadLedger, Goto, github, LedgerInv, Typed, Shapes, Runs
  <2>1. Validity' /\ Owners'
    BY DEF Validity, Valid, Owners, Owned
  <2>2. Fresh'
    BY DEF Fresh
  <2>3. PlanDurable' /\ Accepted' /\ Advancing'
    BY DEF PlanDurable, Accepted, Advancing
  <2>. QED BY <2>1, <2>2, <2>3
<1>6. ASSUME NEW r \in Builds, ChoosePlan(r) PROVE LedgerInv'
  <2>1. PICK tag \in CandidateTags(r) :
            plan' = [plan EXCEPT ![r] = [number |-> NextNumber(r), tag |-> tag]]
    BY <1>6 DEF ChoosePlan
  <2>. USE <1>6, LedgerAssumption DEF ChoosePlan, Goto, github, LedgerInv, Typed, Shapes, Runs
  <2>2. view[r].plans[r] = NoPlan
    BY DEF Fresh
  <2>3. plan'[r] = [number |-> NextNumber(r), tag |-> tag]
    BY <2>1
  <2>4. Validity' /\ Owners'
    BY DEF Validity, Valid, Owners, Owned
  <2>5. Fresh'
    BY <2>1, <2>2, <2>3, ChoiceIsFresh DEF Fresh
  <2>6. PlanDurable' /\ Accepted' /\ Advancing'
    BY <2>1 DEF PlanDurable, Accepted, Advancing
  <2>. QED BY <2>4, <2>5, <2>6
<1>7. ASSUME NEW r \in Builds, CreateBranch(r) PROVE LedgerInv'
  <2>. USE <1>7, LedgerAssumption DEF CreateBranch, Goto, LedgerInv, Typed, Shapes, Runs
  <2>1. Validity' /\ Owners'
    BY DEF Validity, Valid, Owners, Owned
  <2>2. Fresh' /\ PlanDurable' /\ Accepted' /\ Advancing'
    BY DEF Fresh, PlanDurable, Accepted, Advancing
  <2>. QED BY <2>1, <2>2
<1>8. ASSUME NEW r \in Builds, WritePlan(r) PROVE LedgerInv'
  <2>. USE <1>8, LedgerAssumption DEF WritePlan, Swap, Goto, LedgerInv, Typed, Shapes, Runs
  <2>1. view[r] = ledger /\ plan[r] \in Plans /\ pc[r] = "reserve"
        /\ ledger.plans[r] = NoPlan /\ plan[r].number > ledger.counter /\ PlanOf(r, plan[r])
    BY DEF Equipped, Fresh
  <2>2. /\ ledger'.stored = TRUE /\ ledger'.counter = plan[r].number
        /\ ledger'.floor = ledger.floor
        /\ ledger'.plans = [ledger.plans EXCEPT ![r] = plan[r]]
    BY <2>1 DEF Ledgers
  <2>3. Validity'
    <3>1. Valid(ledger)'
      BY <2>1, <2>2 DEF Validity, Valid, Ledgers, Plans
    <3>2. \A q \in Runs : Valid(view[q])'
      BY DEF Validity, Valid
    <3>. QED BY <2>2, <3>1, <3>2 DEF Validity
  <2>4. Owners'
    <3>1. Owned(ledger)'
      BY <2>1, <2>2 DEF Owners, Owned, Ledgers
    <3>. QED BY <3>1 DEF Owners, Owned
  <2>5. Fresh' /\ Advancing'
    BY DEF Fresh, Advancing
  <2>6. \A q \in Runs : q # r => ledger'.plans[q] = ledger.plans[q] /\ plan'[q] = plan[q]
                                  /\ pc'[q] = pc[q]
    BY <2>2 DEF Ledgers
  <2>7. PlanDurable'
    <3>1. plan'[r] # NoPlan => ledger'.plans[r] = plan'[r]
      BY <2>1, <2>2 DEF Ledgers
    <3>. QED BY <2>6, <3>1 DEF PlanDurable
  <2>8. Accepted'
    <3>1. ASSUME NEW q \in Promotions, plan'[q] # NoPlan
          PROVE  \E s \in Builds : ledger'.plans[s] = plan'[q] /\ plan'[q].tag.channel = "rc"
      <4>1. q # r /\ plan'[q] = plan[q]
        BY <2>6
      <4>2. PICK s \in Builds : ledger.plans[s] = plan[q] /\ plan[q].tag.channel = "rc"
        BY <3>1, <4>1 DEF Accepted
      <4>3. s # r
        BY <2>1, <3>1, <4>1, <4>2
      <4>. QED BY <2>6, <4>1, <4>2, <4>3
    <3>. QED BY <3>1 DEF Accepted
  <2>. QED BY <2>3, <2>4, <2>5, <2>7, <2>8
<1>9. ASSUME NEW r \in Runs, BeginRead(r) PROVE LedgerInv'
  <2>. USE <1>9, LedgerAssumption DEF BeginRead, Goto, github, LedgerInv, Typed, Shapes, Runs
  <2>1. Validity' /\ Owners'
    BY DEF Validity, Valid, Owners, Owned
  <2>2. Advancing'
    BY DEF Ready, Advancing, Publishable, Promotable
  <2>3. Fresh' /\ PlanDurable' /\ Accepted'
    BY DEF Fresh, PlanDurable, Accepted
  <2>. QED BY <2>1, <2>2, <2>3
<1>10. ASSUME NEW r \in Runs, BeginWrite(r) PROVE LedgerInv'
  <2>1. PICK s \in Builds : ledger.plans[s] = plan[r] /\ plan[r].number <= ledger.counter
    BY <1>10, PlanInLedger DEF BeginWrite, LedgerInv, Typed, Equipped, Publishing
  <2>. USE <1>10, LedgerAssumption DEF BeginWrite, Swap, Goto, LedgerInv, Typed, Shapes, Runs
  <2>2. plan[r] \in Plans
    BY DEF Equipped, Publishing
  <2>3. /\ view[r] = ledger /\ ledger' = Consumed(r) /\ view'[r] = Consumed(r)
        /\ ledger'.stored = ledger.stored /\ ledger'.counter = ledger.counter
        /\ ledger'.floor = plan[r].number
        /\ ledger'.plans = ledger.plans
    BY DEF Consumed, Ledgers
  <2>4. ledger.stored
    BY <2>1, <2>2 DEF Validity, Empty
  <2>5. Valid(ledger)'
    BY <2>1, <2>2, <2>3 DEF Validity, Valid, Ledgers, Plans
  <2>6. Validity'
    BY <2>3, <2>4, <2>5 DEF Validity, Valid
  <2>7. Owners'
    BY <2>3 DEF Owners, Owned
  <2>8. Fresh' /\ PlanDurable' /\ Accepted' /\ Advancing'
    BY <2>3 DEF Fresh, PlanDurable, Accepted, Advancing
  <2>. QED BY <2>6, <2>7, <2>8
<1>11. ASSUME NEW r \in Runs, CreateTag(r) PROVE LedgerInv'
  <2>1. /\ pc[r] # "reserve" /\ UNCHANGED <<branch, ledger, view, plan>>
        /\ \E place \in {"draft", "failed"} : pc' = [pc EXCEPT ![r] = place]
    BY <1>11 DEF CreateTag, Goto
  <2>. QED BY <2>1, Indifferent
<1>12. ASSUME NEW r \in Runs, CreateDraft(r) PROVE LedgerInv'
  <2>1. /\ pc[r] # "reserve" /\ UNCHANGED <<branch, ledger, view, plan>>
        /\ \E place \in {"upload", "unsure", "failed"} : pc' = [pc EXCEPT ![r] = place]
    BY <1>12 DEF CreateDraft, Goto
  <2>. QED BY <2>1, Indifferent
<1>13. ASSUME NEW r \in Runs, LoseDraft(r) PROVE LedgerInv'
  BY <1>13, Indifferent DEF LoseDraft, Goto, github
<1>14. ASSUME NEW r \in Runs, Reconcile(r) PROVE LedgerInv'
  BY <1>14, Indifferent DEF Reconcile, Goto, github
<1>15. ASSUME NEW r \in Runs, Publish(r) PROVE LedgerInv'
  <2>1. /\ pc[r] # "reserve" /\ UNCHANGED <<branch, ledger, view, plan>>
        /\ \E place \in {"done", "failed"} : pc' = [pc EXCEPT ![r] = place]
    BY <1>15 DEF Publish, Goto
  <2>. QED BY <2>1, Indifferent
<1>16. ASSUME Delete PROVE LedgerInv'
  BY <1>16, Indifferent DEF Delete, local
<1>17. ASSUME NEW r \in Runs, StandsBack(r) PROVE LedgerInv'
  <2>1. /\ pc[r] = "publish" /\ UNCHANGED <<branch, ledger, view, plan>>
        /\ pc' = [pc EXCEPT ![r] = "done"]
    BY <1>17, StandingBack
  <2>. QED BY <2>1, Indifferent
<1>18. ASSUME UNCHANGED vars PROVE LedgerInv'
  BY <1>18, Indifferent DEF vars, github, local
<1>. QED
  BY <1>1, <1>2, <1>3, <1>4, <1>5, <1>6, <1>7, <1>8, <1>9, <1>10, <1>11, <1>12,
     <1>13, <1>14, <1>15, <1>16, <1>17, <1>18
  DEF Next, Build, Publication, StandsBack

-----------------------------------------------------------------------------
(* The file is an atomic ledger.                                           *)

\* Only two requests write the file.
LEMMA LedgerWrites ==
    ASSUME [Next]_vars
    PROVE  \/ ledger' = ledger
           \/ \E r \in Builds : WritePlan(r)
           \/ \E r \in Runs : BeginWrite(r)
<1>1. ASSUME NEW r \in Builds, Build(r) PROVE ledger' = ledger \/ WritePlan(r)
  BY <1>1 DEF Build, StartBuild, ReadLedger, ChoosePlan, CreateBranch, github
<1>2. ASSUME NEW r \in Runs, Publication(r) PROVE ledger' = ledger \/ BeginWrite(r)
  BY <1>2, StandingBack DEF Publication, StandsBack, BeginRead, CreateTag, CreateDraft, LoseDraft, Reconcile, Publish, github
<1>3. ASSUME NEW r \in Runs, Retry(r) \/ Fail(r) PROVE ledger' = ledger
  BY <1>3 DEF Retry, Fail, github
<1>4. ASSUME NEW r \in Promotions, StartPromotion(r) PROVE ledger' = ledger
  BY <1>4 DEF StartPromotion, github
<1>5. ASSUME Delete PROVE ledger' = ledger
  BY <1>5 DEF Delete
<1>6. ASSUME UNCHANGED vars PROVE ledger' = ledger
  BY <1>6 DEF vars, github
<1>. QED BY <1>1, <1>2, <1>3, <1>4, <1>5, <1>6 DEF Next

\* A write that succeeds reserves or consumes in the ledger as it is now.
LEMMA LedgerRefines ==
    ASSUME LedgerInv, [Next]_vars
    PROVE  [Ledger!Next]_Ledger!vars
<1>1. CASE ledger' = ledger
  BY <1>1 DEF Ledger!vars
<1>2. ASSUME NEW r \in Builds, WritePlan(r) PROVE Ledger!Next
  <2>. r \in Runs
    BY DEF Runs
  <2>1. /\ view[r] = ledger /\ pc[r] = "reserve" /\ plan[r] # NoPlan
        /\ ledger.plans[r] = NoPlan /\ plan[r].number > ledger.counter
        /\ \A q \in Runs : ledger.plans[q] # NoPlan => ledger.plans[q].tag # plan[r].tag
    BY <1>2 DEF WritePlan, Swap, LedgerInv, Typed, Equipped, Fresh
  <2>2. ledger \in Ledgers
    BY DEF LedgerInv, Typed, Shapes
  <2>3. /\ ledger'.counter = plan[r].number /\ ledger'.floor = ledger.floor
        /\ ledger'.plans = [ledger.plans EXCEPT ![r] = plan[r]]
        /\ ledger'.plans[r] = plan[r]
    BY <1>2, <2>1, <2>2 DEF WritePlan, Swap, Ledgers
  <2>4. Ledger!Reserve(r, ledger'.plans[r])
    BY <2>1, <2>3 DEF Ledger!Reserve
  <2>. QED BY <2>4 DEF Ledger!Next
<1>3. ASSUME NEW r \in Runs, BeginWrite(r) PROVE Ledger!Next
  <2>1. /\ view[r] = ledger /\ pc[r] = "begin" /\ plan[r] # NoPlan
        /\ plan[r] \in Plans /\ ledger \in Ledgers
    BY <1>3 DEF BeginWrite, Swap, LedgerInv, Typed, Shapes, Equipped, Publishing
  <2>2. plan[r].number >= ledger.floor
    <3>1. plan[r].number \in Nat /\ ledger.floor \in Nat
      BY <2>1 DEF Plans, Ledgers
    <3>. QED BY <2>1, <3>1 DEF LedgerInv, Advancing
  <2>3. PICK s \in Builds : ledger.plans[s] = plan[r]
    BY <2>1, PlanInLedger
  <2>4. /\ ledger'.counter = ledger.counter /\ ledger'.floor = plan[r].number
        /\ ledger'.plans = ledger.plans
    BY <1>3, <2>1 DEF BeginWrite, Swap, Consumed, Ledgers
  <2>5. Ledger!Consume(s)
    BY <2>1, <2>2, <2>3, <2>4 DEF Ledger!Consume
  <2>. QED BY <2>5 DEF Ledger!Next, Runs
<1>. QED BY <1>1, <1>2, <1>3, LedgerWrites

\* The floor never falls and a plan is never replaced.
LEMMA LedgerGrows ==
    ASSUME LedgerInv, [Next]_vars
    PROVE  /\ ledger'.floor >= ledger.floor
           /\ \A q \in Runs : ledger.plans[q] # NoPlan => ledger'.plans[q] = ledger.plans[q]
<1>1. ledger.floor \in Nat /\ ledger.plans \in [Runs -> Plans \union {NoPlan}]
  BY DEF LedgerInv, Typed, Shapes, Ledgers
<1>2. CASE UNCHANGED Ledger!vars
  BY <1>1, <1>2 DEF Ledger!vars
<1>3. ASSUME NEW r \in Runs, NEW p, Ledger!Reserve(r, p)
      PROVE  /\ ledger'.floor >= ledger.floor
             /\ \A q \in Runs : ledger.plans[q] # NoPlan => ledger'.plans[q] = ledger.plans[q]
  BY <1>1, <1>3 DEF Ledger!Reserve
<1>4. ASSUME NEW r \in Runs, Ledger!Consume(r)
      PROVE  /\ ledger'.floor >= ledger.floor
             /\ \A q \in Runs : ledger.plans[q] # NoPlan => ledger'.plans[q] = ledger.plans[q]
  BY <1>1, <1>4 DEF Ledger!Consume
<1>. QED BY LedgerRefines, <1>2, <1>3, <1>4 DEF Ledger!Next

-----------------------------------------------------------------------------
(* A number is consumed before it is used, and used once.                  *)

Begun(r) == pc[r] \in {"tag", "draft", "unsure", "upload"}

BegunConsumed == \A r \in Runs : Begun(r) => plan[r].number <= ledger.floor

\* What a build has begun to publish is consumed for good.
BegunOnce ==
    \A r \in Builds :
        begun[r] # 0 => /\ begun[r] = 1
                        /\ ledger.plans[r] # NoPlan
                        /\ ledger.plans[r].number <= ledger.floor

ConsumptionInv == BegunConsumed /\ BegunOnce /\ TagsConsumed

LEMMA LedgerNumbers ==
    ASSUME LedgerInv, NEW s \in Runs, ledger.plans[s] # NoPlan
    PROVE  ledger.plans[s] \in Plans /\ ledger.plans[s].number \in Nat /\ ledger.floor \in Nat
BY DEF LedgerInv, Typed, Shapes, Ledgers, Plans

\* Steps that begin no publication and create no tag.
LEMMA ConsumptionKept ==
    ASSUME LedgerInv, LedgerInv', [Next]_vars, ConsumptionInv,
           begun' = begun, tags' \subseteq tags,
           \A r \in Runs : Begun(r)' => Begun(r) /\ plan'[r] = plan[r]
    PROVE  ConsumptionInv'
<1>1. BegunConsumed'
  <2>1. ASSUME NEW r \in Runs, Begun(r)' PROVE plan'[r].number <= ledger'.floor
    <3>1. plan[r].number <= ledger.floor /\ plan'[r] = plan[r] /\ plan[r] \in Plans
      BY <2>1 DEF ConsumptionInv, BegunConsumed, LedgerInv, Typed, Shapes, Equipped, Publishing, Begun
    <3>2. plan[r].number \in Nat /\ ledger.floor \in Nat /\ ledger'.floor \in Nat
      BY <3>1 DEF Plans, LedgerInv, Typed, Shapes, Ledgers
    <3>. QED BY <3>1, <3>2, LedgerGrows
  <2>. QED BY <2>1 DEF BegunConsumed
<1>2. \A s \in Runs : ledger.plans[s] # NoPlan /\ ledger.plans[s].number <= ledger.floor =>
          ledger'.plans[s] = ledger.plans[s] /\ ledger'.plans[s].number <= ledger'.floor
  <2>1. ledger'.floor \in Nat
    BY DEF LedgerInv, Typed, Shapes, Ledgers
  <2>. QED BY <2>1, LedgerGrows, LedgerNumbers
<1>3. BegunOnce'
  BY <1>2 DEF ConsumptionInv, BegunOnce, Runs
<1>4. TagsConsumed'
  BY <1>2 DEF ConsumptionInv, TagsConsumed, Runs
<1>. QED BY <1>1, <1>3, <1>4 DEF ConsumptionInv

LEMMA ConsumptionInit == Init => ConsumptionInv
BY DEF Init, ConsumptionInv, BegunConsumed, BegunOnce, TagsConsumed, Begun

LEMMA ConsumptionStep ==
    LedgerInv /\ LedgerInv' /\ ConsumptionInv /\ [Next]_vars => ConsumptionInv'
<1>. SUFFICES ASSUME LedgerInv, LedgerInv', ConsumptionInv, [Next]_vars PROVE ConsumptionInv'
  OBVIOUS
<1>. pc \in [Runs -> Places] /\ plan \in [Runs -> Plans \union {NoPlan}]
  BY DEF LedgerInv, Typed, Shapes
<1>1. ASSUME NEW r \in Builds, Build(r) PROVE ConsumptionInv'
  <2>1. /\ begun' = begun /\ tags' = tags /\ ~Begun(r)' /\ r \in Runs
        /\ \A q \in Runs \ {r} : pc'[q] = pc[q] /\ plan'[q] = plan[q]
    BY <1>1 DEF Build, StartBuild, ReadLedger, ChoosePlan, CreateBranch, WritePlan, Goto,
                github, Begun, Runs
  <2>. QED BY <2>1, ConsumptionKept DEF Begun
<1>2. ASSUME NEW r \in Promotions, StartPromotion(r) PROVE ConsumptionInv'
  <2>1. /\ begun' = begun /\ tags' = tags /\ ~Begun(r)' /\ r \in Runs
        /\ \A q \in Runs \ {r} : pc'[q] = pc[q] /\ plan'[q] = plan[q]
    BY <1>2 DEF StartPromotion, Goto, github, Begun, Runs
  <2>. QED BY <2>1, ConsumptionKept DEF Begun
<1>3. ASSUME NEW r \in Runs, Retry(r) \/ Fail(r) \/ StandsBack(r) \/ BeginRead(r)
      PROVE  ConsumptionInv'
  <2>1. /\ begun' = begun /\ tags' = tags /\ ~Begun(r)'
        /\ \A q \in Runs \ {r} : pc'[q] = pc[q] /\ plan'[q] = plan[q]
    BY <1>3, StandingBack DEF Retry, Fail, BeginRead, Goto, github, Begun
  <2>. QED BY <2>1, ConsumptionKept DEF Begun
<1>4. ASSUME NEW r \in Runs, BeginWrite(r) PROVE ConsumptionInv'
  <2>1. /\ view[r] = ledger /\ pc[r] = "begin" /\ plan[r] \in Plans /\ ledger \in Ledgers
        /\ tags' = tags /\ plan' = plan
    BY <1>4 DEF BeginWrite, Swap, LedgerInv, Typed, Shapes, Equipped, Publishing
  <2>2. ledger'.floor = plan[r].number /\ ledger'.plans = ledger.plans
    BY <1>4, <2>1 DEF BeginWrite, Swap, Consumed, Ledgers
  <2>3. plan[r].number \in Nat /\ ledger.floor \in Nat /\ plan[r].number >= ledger.floor
        /\ (r \in Builds => plan[r].number > ledger.floor)
    BY <2>1 DEF Plans, Ledgers, LedgerInv, Advancing
  <2>4. BegunConsumed'
    <3>1. ASSUME NEW q \in Runs, Begun(q)' PROVE plan[q].number <= plan[r].number
      <4>1. CASE q = r
        BY <2>3, <4>1
      <4>2. CASE q # r
        <5>1. Begun(q) /\ plan[q] \in Plans
          BY <1>4, <3>1, <4>2 DEF BeginWrite, Goto, Begun, LedgerInv, Typed, Equipped, Publishing
        <5>2. plan[q].number <= ledger.floor /\ plan[q].number \in Nat
          BY <5>1 DEF ConsumptionInv, BegunConsumed, Plans
        <5>. QED BY <2>3, <5>2
      <4>. QED BY <4>1, <4>2
    <3>. QED BY <2>1, <2>2, <3>1 DEF BegunConsumed
  <2>5. \A s \in Runs : ledger.plans[s] # NoPlan /\ ledger.plans[s].number <= ledger.floor =>
            ledger'.plans[s].number <= ledger'.floor
    BY <2>2, <2>3, LedgerNumbers
  <2>6. BegunOnce'
    <3>1. ASSUME r \in Builds
          PROVE  /\ begun[r] = 0 /\ begun' = [begun EXCEPT ![r] = 1]
                 /\ ledger'.plans[r] # NoPlan /\ ledger'.plans[r].number <= ledger'.floor
      <4>1. ledger.plans[r] = plan[r] /\ ledger.plans[r] # NoPlan
        BY <2>1, <3>1 DEF LedgerInv, PlanDurable, Typed, Equipped, Publishing
      <4>2. begun[r] = 0
        BY <2>3, <3>1, <4>1 DEF ConsumptionInv, BegunOnce
      <4>3. begun' = [begun EXCEPT ![r] = 1]
        BY <1>4, <3>1, <4>2 DEF BeginWrite
      <4>. QED BY <2>2, <2>3, <4>1, <4>2, <4>3
    <3>2. begun \in [Builds -> Nat]
      BY DEF LedgerInv, Typed, Shapes
    <3>3. CASE r \in Builds
      BY <2>2, <2>5, <3>1, <3>2, <3>3 DEF ConsumptionInv, BegunOnce, Runs
    <3>4. CASE r \notin Builds
      <4>1. begun' = begun
        BY <1>4, <3>4 DEF BeginWrite
      <4>. QED BY <2>2, <2>5, <4>1 DEF ConsumptionInv, BegunOnce, Runs
    <3>. QED BY <3>3, <3>4
  <2>7. TagsConsumed'
    BY <2>1, <2>2, <2>5 DEF ConsumptionInv, TagsConsumed, Runs
  <2>. QED BY <2>4, <2>6, <2>7 DEF ConsumptionInv
<1>5. ASSUME NEW r \in Runs, CreateTag(r) PROVE ConsumptionInv'
  <2>1. /\ pc[r] = "tag" /\ ledger' = ledger /\ plan' = plan /\ begun' = begun
        /\ tags' = tags \union {Target(r)}
        /\ \A q \in Runs : Begun(q)' => Begun(q)
    BY <1>5 DEF CreateTag, Goto, Begun
  <2>2. BegunConsumed' /\ BegunOnce'
    BY <2>1 DEF ConsumptionInv, BegunConsumed, BegunOnce
  <2>3. plan[r] # NoPlan /\ plan[r].number <= ledger.floor
    BY <2>1 DEF ConsumptionInv, BegunConsumed, Begun, LedgerInv, Typed, Equipped, Publishing
  <2>4. PICK s \in Builds : /\ ledger.plans[s] = plan[r]
                            /\ r \notin Builds => plan[r].tag.channel = "rc"
    BY <2>1, <2>3 DEF LedgerInv, PlanDurable, Accepted, Runs
  <2>5. \/ ledger.plans[s].tag = Target(r)
        \/ ledger.plans[s].tag.channel = "rc" /\ StableTag(ledger.plans[s].tag.base) = Target(r)
    BY <2>4 DEF Target
  <2>6. TagsConsumed'
    BY <2>1, <2>3, <2>4, <2>5 DEF ConsumptionInv, TagsConsumed, StableTag, Tag
  <2>. QED BY <2>2, <2>6 DEF ConsumptionInv
<1>6. ASSUME NEW r \in Runs, CreateDraft(r) \/ LoseDraft(r) \/ Reconcile(r) \/ Publish(r)
      PROVE  ConsumptionInv'
  <2>1. /\ begun' = begun /\ tags' = tags /\ plan' = plan /\ Begun(r)
        /\ \A q \in Runs \ {r} : pc'[q] = pc[q]
    BY <1>6 DEF CreateDraft, LoseDraft, Reconcile, Publish, Goto, github, Begun
  <2>. QED BY <2>1, ConsumptionKept DEF Begun
<1>7. ASSUME Delete PROVE ConsumptionInv'
  <2>1. begun' = begun /\ tags' \subseteq tags /\ plan' = plan /\ pc' = pc
    BY <1>7 DEF Delete, local
  <2>. QED BY <2>1, ConsumptionKept DEF Begun
<1>8. ASSUME UNCHANGED vars PROVE ConsumptionInv'
  BY <1>8, ConsumptionKept DEF vars, local, github, Begun
<1>. QED
  BY <1>1, <1>2, <1>3, <1>4, <1>5, <1>6, <1>7, <1>8 DEF Next, Publication, StandsBack

-----------------------------------------------------------------------------
(* A tag has one release.                                                  *)

Holds(r) == pc[r] \in {"draft", "unsure", "upload"}

\* A run that has created its tag still has it, and no release but its own
\* draft bears it.
Held ==
    \A r \in Runs : Holds(r) =>
        /\ Target(r) \in tags
        /\ \A x \in releases : x.tag = Target(r) => x = Draft(r) /\ pc[r] # "draft"

\* No two runs have created one tag.
Apart == \A r, s \in Runs : Holds(r) /\ Holds(s) /\ Target(r) = Target(s) => r = s

ReleaseInv == Held /\ Apart /\ OneRelease

\* Steps that touch neither tags nor releases and make no run a holder.
LEMMA ReleasesKept ==
    ASSUME ReleaseInv, tags' = tags, releases' = releases,
           \A r \in Runs : Holds(r)' =>
               /\ Holds(r) /\ plan'[r] = plan[r] /\ attempt'[r] = attempt[r]
               /\ pc'[r] = "draft" => pc[r] = "draft"
    PROVE  ReleaseInv'
<1>1. \A r \in Runs : Holds(r)' => Target(r)' = Target(r) /\ Draft(r)' = Draft(r)
  BY DEF Target, Draft
<1>2. Held'
  BY <1>1 DEF ReleaseInv, Held
<1>3. Apart'
  BY <1>1 DEF ReleaseInv, Apart
<1>. QED BY <1>2, <1>3 DEF ReleaseInv, OneRelease

LEMMA ReleaseInit == Init => ReleaseInv
BY DEF Init, ReleaseInv, Held, Apart, OneRelease, Holds

LEMMA ReleaseStep == LedgerInv /\ ReleaseInv /\ [Next]_vars => ReleaseInv'
<1>. SUFFICES ASSUME LedgerInv, ReleaseInv, [Next]_vars PROVE ReleaseInv'
  OBVIOUS
<1>. pc \in [Runs -> Places]
  BY DEF LedgerInv, Typed, Shapes
<1>1. ASSUME NEW r \in Builds, Build(r) PROVE ReleaseInv'
  <2>1. /\ tags' = tags /\ releases' = releases /\ ~Holds(r)' /\ r \in Runs
        /\ \A q \in Runs \ {r} : pc'[q] = pc[q] /\ plan'[q] = plan[q] /\ attempt'[q] = attempt[q]
    BY <1>1 DEF Build, StartBuild, ReadLedger, ChoosePlan, CreateBranch, WritePlan, Goto,
                github, Holds, Runs, LedgerInv, Typed, Shapes
  <2>. QED BY <2>1, ReleasesKept DEF Holds
<1>2. ASSUME NEW r \in Promotions, StartPromotion(r) PROVE ReleaseInv'
  <2>1. /\ tags' = tags /\ releases' = releases /\ ~Holds(r)' /\ r \in Runs
        /\ \A q \in Runs \ {r} : pc'[q] = pc[q] /\ plan'[q] = plan[q] /\ attempt'[q] = attempt[q]
    BY <1>2 DEF StartPromotion, Goto, github, Holds, Runs, LedgerInv, Typed, Shapes
  <2>. QED BY <2>1, ReleasesKept DEF Holds
<1>3. ASSUME NEW r \in Runs, Retry(r) \/ Fail(r) \/ StandsBack(r) \/ BeginRead(r)
                             \/ BeginWrite(r)
      PROVE  ReleaseInv'
  <2>1. /\ tags' = tags /\ releases' = releases /\ ~Holds(r)'
        /\ \A q \in Runs \ {r} : pc'[q] = pc[q] /\ plan'[q] = plan[q] /\ attempt'[q] = attempt[q]
    BY <1>3, StandingBack DEF Retry, Fail, BeginRead, BeginWrite, Goto, github, Holds, LedgerInv, Typed, Shapes
  <2>. QED BY <2>1, ReleasesKept DEF Holds
<1>4. ASSUME NEW r \in Runs, LoseDraft(r) \/ Reconcile(r) PROVE ReleaseInv'
  <2>1. /\ tags' = tags /\ releases' = releases /\ plan' = plan /\ attempt' = attempt
        /\ Holds(r) /\ pc'[r] # "draft"
        /\ \A q \in Runs \ {r} : pc'[q] = pc[q]
    BY <1>4 DEF LoseDraft, Reconcile, Goto, github, Holds
  <2>. QED BY <2>1, ReleasesKept DEF Holds
<1>5. ASSUME NEW r \in Runs, CreateTag(r) PROVE ReleaseInv'
  <2>1. /\ releases' = releases /\ plan' = plan /\ attempt' = attempt
        /\ tags' = tags \union {Target(r)} /\ pc'[r] \in {"draft", "failed"}
        /\ Target(r) \notin tags /\ \A x \in releases : x.tag # Target(r)
        /\ \A q \in Runs \ {r} : pc'[q] = pc[q]
    BY <1>5 DEF CreateTag, Goto, Occupied
  <2>2. \A q \in Runs : Target(q)' = Target(q) /\ Draft(q)' = Draft(q)
    BY <2>1 DEF Target, Draft
  <2>3. \A q \in Runs : Holds(q) => Target(q) # Target(r)
    BY <2>1 DEF ReleaseInv, Held
  <2>4. Held'
    BY <2>1, <2>2 DEF ReleaseInv, Held, Holds
  <2>5. Apart'
    BY <2>1, <2>2, <2>3 DEF ReleaseInv, Apart, Holds
  <2>. QED BY <2>1, <2>4, <2>5 DEF ReleaseInv, OneRelease
<1>6. ASSUME NEW r \in Runs, CreateDraft(r) PROVE ReleaseInv'
  <2>1. /\ tags' = tags /\ plan' = plan /\ attempt' = attempt /\ pc[r] = "draft"
        /\ releases' = releases \union {Draft(r)} /\ pc'[r] \in {"upload", "unsure", "failed"}
        /\ \A q \in Runs \ {r} : pc'[q] = pc[q]
    BY <1>6 DEF CreateDraft, Goto
  <2>2. \A q \in Runs : Target(q)' = Target(q) /\ Draft(q)' = Draft(q)
    BY <2>1 DEF Target, Draft
  <2>3. Draft(r).tag = Target(r)
    BY DEF Draft
  <2>4. \A x \in releases : x.tag # Target(r)
    BY <2>1 DEF ReleaseInv, Held, Holds
  <2>5. \A q \in Runs \ {r} : Holds(q) => Target(q) # Target(r)
    BY <2>1 DEF ReleaseInv, Apart, Holds
  <2>6. Held'
    BY <2>1, <2>2, <2>3, <2>4, <2>5 DEF ReleaseInv, Held, Holds
  <2>7. Apart'
    BY <2>1, <2>2 DEF ReleaseInv, Apart, Holds
  <2>8. OneRelease'
    BY <2>1, <2>3, <2>4 DEF ReleaseInv, OneRelease
  <2>. QED BY <2>6, <2>7, <2>8 DEF ReleaseInv
<1>7. ASSUME NEW r \in Runs, Publish(r) PROVE ReleaseInv'
  <2>. DEFINE shown == [Draft(r) EXCEPT !.public = TRUE]
  <2>1. /\ tags' = tags /\ plan' = plan /\ attempt' = attempt /\ pc[r] = "upload"
        /\ releases' = (releases \ {Draft(r)}) \union {shown} /\ pc'[r] \in {"done", "failed"}
        /\ \A q \in Runs \ {r} : pc'[q] = pc[q]
    BY <1>7 DEF Publish, Goto
  <2>2. \A q \in Runs : Target(q)' = Target(q) /\ Draft(q)' = Draft(q)
    BY <2>1 DEF Target, Draft
  <2>3. shown.tag = Target(r)
    BY DEF Draft
  <2>. HIDE DEF shown
  <2>4. \A x \in releases : x.tag = Target(r) => x = Draft(r)
    BY <2>1 DEF ReleaseInv, Held, Holds
  <2>5. \A q \in Runs \ {r} : Holds(q) => Target(q) # Target(r)
    BY <2>1 DEF ReleaseInv, Apart, Holds
  <2>6. Held'
    BY <2>1, <2>2, <2>3, <2>5 DEF ReleaseInv, Held, Holds
  <2>7. Apart'
    BY <2>1, <2>2 DEF ReleaseInv, Apart, Holds
  <2>8. OneRelease'
    BY <2>1, <2>3, <2>4 DEF ReleaseInv, OneRelease
  <2>. QED BY <2>6, <2>7, <2>8 DEF ReleaseInv
<1>8. ASSUME Delete PROVE ReleaseInv'
  <2>1. PICK x \in releases : /\ x.public /\ releases' = releases \ {x}
                              /\ tags' \in {tags, tags \ {x.tag}}
    BY <1>8 DEF Delete, Public
  <2>2. plan' = plan /\ attempt' = attempt /\ pc' = pc
    BY <1>8 DEF Delete, local
  <2>3. \A q \in Runs : Target(q)' = Target(q) /\ Draft(q)' = Draft(q) /\ Holds(q)' = Holds(q)
    BY <2>2 DEF Target, Draft, Holds
  <2>4. \A q \in Runs : Holds(q) => x.tag # Target(q)
    <3>1. \A q \in Runs : ~Draft(q).public
      BY DEF Draft
    <3>. QED BY <2>1, <3>1 DEF ReleaseInv, Held
  <2>5. Held'
    BY <2>1, <2>2, <2>3, <2>4 DEF ReleaseInv, Held
  <2>6. Apart' /\ OneRelease'
    BY <2>1, <2>3 DEF ReleaseInv, Apart, OneRelease
  <2>. QED BY <2>5, <2>6 DEF ReleaseInv
<1>9. ASSUME UNCHANGED vars PROVE ReleaseInv'
  BY <1>9, ReleasesKept DEF vars, local, github, Holds
<1>. QED
  BY <1>1, <1>2, <1>3, <1>4, <1>5, <1>6, <1>7, <1>8, <1>9
  DEF Next, Publication, StandsBack

-----------------------------------------------------------------------------
(* Nothing public is followed by something older.                          *)

Alone == serialized => \A r, s \in Runs : Active(r) /\ Active(s) => r = s

\* A run that has consumed its number is above all that was ever public, as
\* long as it runs alone.
Above ==
    /\ newest <= ledger.floor
    /\ serialized => \A r \in Runs : Begun(r) =>
          IF r \in Builds THEN newest < plan[r].number ELSE newest <= plan[r].number

OrderInv == Alone /\ Above

LEMMA OrderInit == Init => OrderInv
BY DEF Init, OrderInv, Alone, Above, Active, Begun, Empty

LEMMA OrderStep ==
    LedgerInv /\ LedgerInv' /\ ConsumptionInv /\ OrderInv /\ [Next]_vars => OrderInv'
<1>. SUFFICES ASSUME LedgerInv, LedgerInv', ConsumptionInv, OrderInv, [Next]_vars
              PROVE  OrderInv'
  OBVIOUS
<1>. /\ pc \in [Runs -> Places] /\ plan \in [Runs -> Plans \union {NoPlan}]
     /\ newest \in Nat /\ ledger.floor \in Nat /\ ledger'.floor \in Nat
  BY DEF LedgerInv, Typed, Shapes, Ledgers
<1>1. ledger'.floor >= ledger.floor
  BY LedgerGrows
<1>2. ASSUME newest' = newest, serialized' = serialized,
             NEW r \in Runs, Active(r) \/ MayRun \/ ~Active(r)', ~Begun(r)',
             \A q \in Runs \ {r} : pc'[q] = pc[q] /\ plan'[q] = plan[q]
      PROVE  OrderInv'
  <2>1. Alone'
    BY <1>2 DEF OrderInv, Alone, Active, MayRun
  <2>2. Above'
    BY <1>1, <1>2 DEF OrderInv, Above, Begun
  <2>. QED BY <2>1, <2>2 DEF OrderInv
<1>3. ASSUME NEW r \in Builds, Build(r) PROVE OrderInv'
  <2>1. /\ newest' = newest /\ serialized' = serialized /\ r \in Runs /\ ~Begun(r)'
        /\ \A q \in Runs \ {r} : pc'[q] = pc[q] /\ plan'[q] = plan[q]
        /\ Active(r) \/ MayRun
    BY <1>3 DEF Build, StartBuild, ReadLedger, ChoosePlan, CreateBranch, WritePlan, Goto,
                Begun, Runs, Active
  <2>. QED BY <1>2, <2>1
<1>4. ASSUME NEW r \in Promotions, StartPromotion(r) PROVE OrderInv'
  <2>1. /\ newest' = newest /\ serialized' = serialized /\ r \in Runs /\ ~Begun(r)'
        /\ \A q \in Runs \ {r} : pc'[q] = pc[q] /\ plan'[q] = plan[q]
        /\ MayRun
    BY <1>4 DEF StartPromotion, Goto, Begun, Runs
  <2>. QED BY <1>2, <2>1
<1>5. ASSUME NEW r \in Runs, Retry(r) \/ Fail(r) \/ StandsBack(r) \/ BeginRead(r)
      PROVE  OrderInv'
  <2>1. /\ newest' = newest /\ serialized' = serialized /\ ~Begun(r)'
        /\ \A q \in Runs \ {r} : pc'[q] = pc[q] /\ plan'[q] = plan[q]
        /\ Active(r) \/ MayRun
    BY <1>5, StandingBack DEF Retry, Fail, BeginRead, Goto, Begun, Active
  <2>. QED BY <1>2, <2>1
<1>6. ASSUME NEW r \in Runs, BeginWrite(r) PROVE OrderInv'
  <2>1. /\ view[r] = ledger /\ pc[r] = "begin" /\ plan[r] \in Plans /\ plan' = plan
        /\ newest' = newest /\ serialized' = serialized /\ Active(r)
        /\ \A q \in Runs \ {r} : pc'[q] = pc[q]
    BY <1>6 DEF BeginWrite, Swap, Goto, Active, LedgerInv, Typed, Shapes, Equipped, Publishing
  <2>2. Alone'
    BY <2>1 DEF OrderInv, Alone, Active
  <2>3. /\ plan[r].number \in Nat /\ plan[r].number >= ledger.floor
        /\ r \in Builds => plan[r].number > ledger.floor
    BY <2>1 DEF Plans, LedgerInv, Advancing
  <2>4. Above'
    <3>1. ASSUME NEW q \in Runs, serialized, Begun(q)'
          PROVE  IF q \in Builds THEN newest < plan[q].number ELSE newest <= plan[q].number
      <4>1. CASE q = r
        BY <2>3, <4>1 DEF OrderInv, Above
      <4>2. CASE q # r
        <5>1. Begun(q)
          BY <2>1, <3>1, <4>2 DEF Begun
        <5>. QED BY <3>1, <5>1 DEF OrderInv, Above
      <4>. QED BY <4>1, <4>2
    <3>. QED BY <1>1, <2>1, <3>1 DEF OrderInv, Above
  <2>. QED BY <2>2, <2>4 DEF OrderInv
<1>7. ASSUME newest' = newest, serialized' = serialized, plan' = plan,
             \A q \in Runs : Active(q)' => Active(q),
             \A q \in Runs : Begun(q)' => Begun(q)
      PROVE  OrderInv'
  BY <1>1, <1>7 DEF OrderInv, Alone, Above
<1>8. ASSUME NEW r \in Runs,
             CreateTag(r) \/ CreateDraft(r) \/ LoseDraft(r) \/ Reconcile(r)
      PROVE  OrderInv'
  <2>1. /\ newest' = newest /\ serialized' = serialized /\ plan' = plan
        /\ Begun(r) /\ \A q \in Runs \ {r} : pc'[q] = pc[q]
    BY <1>8 DEF CreateTag, CreateDraft, LoseDraft, Reconcile, Goto, Begun
  <2>. QED BY <1>7, <2>1 DEF Begun, Active
<1>9. ASSUME NEW r \in Runs, Publish(r) PROVE OrderInv'
  <2>1. /\ serialized' = serialized /\ plan' = plan /\ ledger' = ledger
        /\ Begun(r) /\ ~Active(r)' /\ ~Begun(r)' /\ pc[r] = "upload"
        /\ newest' = IF plan[r].number > newest THEN plan[r].number ELSE newest
        /\ \A q \in Runs \ {r} : pc'[q] = pc[q]
    BY <1>9 DEF Publish, Goto, Begun, Active
  <2>2. Alone'
    BY <2>1 DEF OrderInv, Alone, Active
  <2>3. newest' <= ledger.floor
    BY <2>1 DEF OrderInv, Above, ConsumptionInv, BegunConsumed
  <2>4. ASSUME serialized, NEW q \in Runs, Begun(q)' PROVE FALSE
    <3>1. q # r /\ Begun(q)
      BY <2>1, <2>4 DEF Begun
    <3>2. Active(q) /\ Active(r)
      BY <2>1, <3>1 DEF Active, Begun
    <3>. QED BY <2>4, <3>1, <3>2 DEF OrderInv, Alone
  <2>5. Above'
    BY <2>1, <2>3, <2>4 DEF Above
  <2>. QED BY <2>2, <2>5 DEF OrderInv
<1>10. ASSUME Delete PROVE OrderInv'
  BY <1>7, <1>10 DEF Delete, local, Active, Begun
<1>11. ASSUME UNCHANGED vars PROVE OrderInv'
  BY <1>7, <1>11 DEF vars, local, Active, Begun
<1>. QED
  BY <1>3, <1>4, <1>5, <1>6, <1>8, <1>9, <1>10, <1>11
  DEF Next, Publication, StandsBack

\* Only Publish makes a release public, and what it makes public is above.
LEMMA OrderOfRelease ==
    ASSUME LedgerInv, OrderInv, [Next]_vars, NEW x \in releases' \ releases,
           serialized, x.public
    PROVE  IF x.run \in Builds THEN x.number > newest ELSE x.number >= newest
<1>1. PICK r \in Runs : CreateDraft(r) \/ Publish(r)
  <2>1. ASSUME NEW r \in Builds, Build(r) PROVE releases' = releases
    BY <2>1 DEF Build, StartBuild, ReadLedger, ChoosePlan, CreateBranch, WritePlan, github
  <2>2. ASSUME NEW r \in Promotions, StartPromotion(r) PROVE releases' = releases
    BY <2>2 DEF StartPromotion, github
  <2>3. ASSUME NEW r \in Runs, Retry(r) \/ Fail(r) \/ StandsBack(r) \/ BeginRead(r)
                               \/ BeginWrite(r) \/ CreateTag(r) \/ LoseDraft(r) \/ Reconcile(r)
        PROVE  releases' = releases
    BY <2>3, StandingBack DEF Retry, Fail, BeginRead, BeginWrite, CreateTag, LoseDraft, Reconcile, github
  <2>4. ASSUME Delete PROVE releases' \subseteq releases
    BY <2>4 DEF Delete
  <2>5. ASSUME UNCHANGED vars PROVE releases' = releases
    BY <2>5 DEF vars, github
  <2>. QED BY <2>1, <2>2, <2>3, <2>4, <2>5 DEF Next, Publication, StandsBack
<1>2. CASE CreateDraft(r)
  BY <1>2 DEF CreateDraft, Draft
<1>3. CASE Publish(r)
  <2>1. x.run = r /\ x.number = plan[r].number
    BY <1>3 DEF Publish, Draft
  <2>2. Begun(r) /\ plan[r] \in Plans
    BY <1>3 DEF Publish, Begun, LedgerInv, Typed, Shapes, Equipped, Publishing
  <2>3. plan[r].number \in Nat /\ newest \in Nat
    BY <2>2 DEF Plans, LedgerInv, Typed, Shapes
  <2>. QED BY <2>1, <2>2, <2>3 DEF OrderInv, Above
<1>. QED BY <1>1, <1>2, <1>3

-----------------------------------------------------------------------------
(* The theorems.                                                           *)

Inv == LedgerInv /\ ConsumptionInv /\ ReleaseInv /\ OrderInv

\* Inv holds in every state of every number of runs, attempts and versions.
THEOREM LedgerInvariant == Spec => []Inv
<1>1. Init => Inv
  BY LedgerInit, ConsumptionInit, ReleaseInit, OrderInit DEF Inv
<1>2. Inv /\ [Next]_vars => Inv'
  BY LedgerStep, ConsumptionStep, ReleaseStep, OrderStep DEF Inv
<1>. QED BY <1>1, <1>2, PTL DEF Spec

\* Whatever the runs write, read_state accepts: no run ever leaves a ledger
\* that would stop all later ones.
THEOREM TypeCorrect == Spec => []TypeOK
<1>1. Inv => TypeOK
  BY DEF Inv, LedgerInv, Typed, Shapes, Validity, TypeOK
<1>. QED BY LedgerInvariant, <1>1, PTL

\* Retries are bound to the plan that is in the ledger.
THEOREM RetriesKeepPlan == Spec => []PlanDurable
<1>1. Inv => PlanDurable
  BY DEF Inv, LedgerInv
<1>. QED BY LedgerInvariant, <1>1, PTL

\* No tag is created before its number is consumed.
THEOREM TagsFollowTheFloor == Spec => []TagsConsumed
<1>1. Inv => TagsConsumed
  BY DEF Inv, ConsumptionInv
<1>. QED BY LedgerInvariant, <1>1, PTL

\* No build begins to publish twice, however often it is run again.
THEOREM NumbersAreUsedOnce == Spec => []ConsumedOnce
<1>1. Inv => ConsumedOnce
  BY DEF Inv, LedgerInv, Typed, Shapes, ConsumptionInv, BegunOnce, ConsumedOnce
<1>. QED BY LedgerInvariant, <1>1, PTL

\* No tag gets two releases.
THEOREM TagsHaveOneRelease == Spec => []OneRelease
<1>1. Inv => OneRelease
  BY DEF Inv, ReleaseInv
<1>. QED BY LedgerInvariant, <1>1, PTL

\* Serialized runs publish in the order of their numbers.
THEOREM NothingGoesDown == Spec => NoDowngrade
<1>1. Inv /\ [Next]_vars =>
        [\A x \in releases' \ releases : serialized /\ x.public =>
            IF x.run \in Builds THEN x.number > newest ELSE x.number >= newest]_vars
  BY OrderOfRelease DEF Inv
<1>. QED BY LedgerInvariant, <1>1, PTL DEF NoDowngrade, Spec

\* Read, compare and write amount to one atomic ledger: numbers and tags are
\* unique, plans permanent, counter and floor monotone.
THEOREM LedgerImplemented == Spec => LedgerIsAtomic
<1>1. Init => Ledger!Init
  BY DEF Init, Empty, Ledger!Init
<1>2. Inv /\ [Next]_vars => [Ledger!Next]_Ledger!vars
  BY LedgerRefines DEF Inv
<1>. QED BY LedgerInvariant, <1>1, <1>2, PTL DEF Spec, LedgerIsAtomic, Ledger!Spec
=============================================================================
