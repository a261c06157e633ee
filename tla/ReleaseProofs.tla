--------------------------- MODULE ReleaseProofs ----------------------------
(***************************************************************************)
(* Proofs about how a release is published, assembled and prepared.        *)
(*                                                                         *)
(* The publication of a candidate and its promotion (ReleaseDraft), for    *)
(* any files, any page size, and whatever people do in between.  That a    *)
(* run works on its own draft follows from what is true of every row it    *)
(* has read: a body is its author's or a person's, so a row that passed    *)
(* for the draft of the create call was made by it (Rows).  That what      *)
(* becomes public was built, and that a promotion accepts what it has      *)
(* downloaded, follow from how far the run is in its files: those behind   *)
(* it have the bytes it wants, unless people changed them since (Checks,   *)
(* Downloaded), and one that has kept its generation has not changed at    *)
(* all (Generations).                                                      *)
(*                                                                         *)
(* The archives (OciRelease), for any inputs: a run leaves all it promises *)
(* or nothing (Places), and what it publishes is assembled from the inputs *)
(* as they were checked, since they are looked at again after they have    *)
(* been read (AsSeen, Built).                                              *)
(*                                                                         *)
(* The preparation of a version (PrepareVersion), for any versions and any *)
(* number of runs: what a run is about to push descends from main and is   *)
(* no older than where it branched off (Origin, Choosing).                 *)
(* And for at most two local runs: a file about to be replaced has been    *)
(* read as it now is, or its editor came late (EditInv).                   *)
(***************************************************************************)
EXTENDS ReleaseDraft, OciRelease, PrepareVersion,
        SequenceTheorems, FiniteSetTheorems, WellFoundedInduction, TLAPS

Authors == Jobs \union {"older", "people"}
Asset == [gen : Nat, bytes : {"none", "built", "other"},
          state : {"none", "uploaded", "starter"}]
Assets == [Names -> Asset]
Entry == [id : Nat, tag : Jobs \union {"older"}, creator : Authors, body : Authors,
          draft : BOOLEAN, stamp : Nat, assets : Assets]
RowType == [id : Nat, tag : Jobs \union {"older"}, checked : BOOLEAN]

RunType == [status : {"queued", "in_progress", "completed"},
            gate : {"none", "running", "success", "failure"}]

\* Every release has an ID of its own, and was given it.
GitHub ==
    /\ releases \in Seq(Entry) /\ made \in Nat \ {0}
    /\ refs \in [Jobs -> {"none", "source", "moved"}]
    /\ acts \in Nat
    /\ \A i \in DOMAIN releases : releases[i].id \in 1..made
    /\ \A i, k \in DOMAIN releases : releases[i].id = releases[k].id => i = k
    /\ \A i \in DOMAIN releases : releases[i].body \in {releases[i].creator, "people"}
    /\ \A i \in DOMAIN releases, f \in Names : releases[i].assets[f].gen <= acts

Memory ==
    /\ job \in Jobs /\ n \in 1..Len(Files)
    /\ stage \in [Names -> {"none", "built"}]
    /\ release \in 0..made
    /\ listed \in [id : 0..made, stamp : Nat, assets : Assets]
    /\ \A f \in Names : listed.assets[f].gen <= acts
    /\ read.pass \in {1, 2} /\ read.page \in Nat \ {0}
    /\ DOMAIN read.rows = {1, 2}
    /\ \A pass \in {1, 2} : read.rows[pass] \in Seq(RowType)
    /\ run \in RunType

Reading == {"pages", "match", "failed"}
Publishing == {"verify", "ref", "publish"}
Uploading == {"absent", "tag", "create", "pages", "match", "reread", "checkref", "again",
              "upload", "list"}
Taking == {"download", "unused"}
Accepting == {"resnapref", "resnap", "resnapassets"}

\* What has the ID of the run's draft was made by the run.
Own == release # 0 =>
    \A i \in DOMAIN releases : releases[i].id = release => releases[i].creator = job

\* So was what a row that passed for it was read from.
Rows ==
    /\ pc \notin Reading => read = NoRead
    /\ \A pass \in {1, 2} : \A k \in DOMAIN read.rows[pass] :
         /\ read.rows[pass][k].id \in 1..made
         /\ pc # "failed" /\ read.rows[pass][k].checked =>
              \A i \in DOMAIN releases :
                releases[i].id = read.rows[pass][k].id => releases[i].creator = job

\* A candidate's gate has succeeded once the run is past its wait.
Gate == job = "rc" /\ pc \notin {"wait", "failed"} => run.gate = "success"

\* How many files the run has behind it.
Passed == IF pc \in Taking \union {"verify"} THEN n - 1 ELSE Len(Files)

Staged ==
    /\ pc \in Uploading \union Publishing \union Accepting =>
         \A f \in Names : stage[f] = IF f = Extra THEN "none" ELSE "built"
    /\ stage[Extra] = "none"
    /\ pc \in {"snapref", "snap", "snapassets", "list"} => n = 1
    /\ pc = "wait" /\ job = "stable" => n = 1
    /\ pc \in Taking => \A k \in 1..Passed : stage[Files[k]] = "built"

\* What the run has verified is as built, unless people changed it since.
Checks ==
    pc \in Publishing =>
        /\ \A i \in DOMAIN releases : releases[i].id = release =>
             /\ \A k \in 1..Passed :
                  Files[k] \notin late => releases[i].assets[Files[k]].bytes = "built"
             /\ Extra \notin late => releases[i].assets[Extra].bytes = "none"
        /\ pc = "publish" => refs[job] = "source" \/ "tag" \in late

\* The candidate is public, and what was downloaded is what was listed.
Downloaded ==
    /\ pc \in Taking \union Accepting \union {"snapassets"} =>
         \A i \in DOMAIN releases : releases[i].id = listed.id => ~releases[i].draft
    /\ pc \in Taking \union Accepting =>
         /\ listed.assets[Extra] = NoAsset
         /\ \A k \in 1..Passed : listed.assets[Files[k]].bytes = "built"

\* An asset of the candidate with the generation that was listed is that one.
Generations ==
    pc \in Taking =>
        \A i \in DOMAIN releases, f \in Names :
           releases[i].id = listed.id /\ releases[i].assets[f] # NoAsset
             /\ releases[i].assets[f].gen = listed.assets[f].gen
           => releases[i].assets[f] = listed.assets[f]

DraftInv ==
    /\ GitHub /\ Memory /\ Own /\ Rows /\ Gate /\ Staged
    /\ Checks /\ Downloaded /\ Generations

-----------------------------------------------------------------------------
(* Lemmas about GitHub's answers.                                            *)

LEMMA FileNames ==
    /\ Len(Files) \in Nat /\ Len(Files) > 1
    /\ \A k \in 1..Len(Files) : Files[k] \in Names /\ Files[k] # Extra /\ Files[k] # "tag"
    /\ \A f \in Names : f # Extra => \E k \in 1..Len(Files) : Files[k] = f
    /\ Extra \in Names /\ Extra # "tag"
BY DraftAssumption DEF Names, ToSet

\* A release that is there is the one entry with its ID.
LEMMA TheRelease ==
    ASSUME GitHub, NEW id, Known(id)
    PROVE  \E i \in DOMAIN releases :
              /\ releases[i].id = id /\ Release(id) = releases[i] /\ releases[i] \in Entry
              /\ \A k \in DOMAIN releases : releases[k].id = id => k = i
<1> DEFINE i == CHOOSE k \in DOMAIN releases : releases[k].id = id
<1>1. i \in DOMAIN releases /\ releases[i].id = id
  BY DEF Known
<1>2. Release(id) = releases[i]
  BY DEF Release
<1> HIDE DEF i
<1>3. releases[i] \in Entry
  BY <1>1 DEF GitHub
<1>4. \A k \in DOMAIN releases : releases[k].id = id => k = i
  BY <1>1 DEF GitHub
<1>. QED BY <1>1, <1>2, <1>3, <1>4

\* A release is created: it is the first of the list, with a new ID.
LEMMA Prepended ==
    ASSUME GitHub, NEW tag \in Jobs, NEW who \in Authors,
           made' = made + 1, releases' = <<Draft(tag, who)>> \o releases,
           acts' \in Nat, acts' >= acts, refs' = refs
    PROVE  /\ GitHub'
           /\ \A j \in DOMAIN releases' :
                \/ releases'[j].id = made' /\ releases'[j].creator = who
                \/ \E i \in DOMAIN releases : releases'[j] = releases[i]
<1> DEFINE d == Draft(tag, who)
<1>0. /\ releases \in Seq(Entry) /\ made \in Nat \ {0} /\ acts \in Nat
      /\ Len(releases) \in Nat /\ DOMAIN releases = 1..Len(releases)
  BY DEF GitHub
<1>1. Empty \in Assets /\ \A f \in Names : Empty[f].gen = 0
  BY DEF Empty, NoAsset, Assets, Asset
<1>2. /\ d \in Entry /\ d.id = made + 1 /\ d.creator = who /\ d.body = who
      /\ d.assets = Empty
  BY <1>0, <1>1 DEF Draft, Entry, Authors, Jobs
<1> HIDE DEF d
<1>3. /\ releases' = <<d>> \o releases /\ <<d>> \in Seq(Entry) /\ Len(<<d>>) = 1 /\ <<d>>[1] = d
  BY <1>2 DEF d
<1>4. /\ releases' \in Seq(Entry) /\ Len(releases') = 1 + Len(releases)
      /\ \A j \in 1..1 + Len(releases) :
           releases'[j] = IF j <= 1 THEN <<d>>[j] ELSE releases[j - 1]
  BY <1>0, <1>3, ConcatProperties
<1>5. DOMAIN releases' = 1..1 + Len(releases)
  BY <1>4
<1>6. \A j \in DOMAIN releases' :
         \/ j = 1 /\ releases'[j] = d
         \/ j - 1 \in DOMAIN releases /\ releases'[j] = releases[j - 1] /\ j # 1
  BY <1>0, <1>3, <1>4, <1>5
<1>7. \A j \in DOMAIN releases' :
         /\ releases'[j].id \in 1..made'
         /\ releases'[j].body \in {releases'[j].creator, "people"}
         /\ \A f \in Names : releases'[j].assets[f].gen <= acts'
  <2> TAKE j \in DOMAIN releases'
  <2>1. CASE j = 1 /\ releases'[j] = d
    BY <1>0, <1>1, <1>2, <2>1
  <2>2. CASE j - 1 \in DOMAIN releases /\ releases'[j] = releases[j - 1]
    <3>1. /\ releases'[j].id \in 1..made
          /\ releases'[j].body \in {releases'[j].creator, "people"}
          /\ \A f \in Names : releases'[j].assets[f].gen <= acts
      BY <2>2 DEF GitHub
    <3>2. \A f \in Names : releases'[j].assets[f].gen \in Nat
      <4>1. releases[j - 1] \in Entry
        BY <1>0, <2>2
      <4>. QED BY <2>2, <4>1 DEF Entry, Assets, Asset
    <3>. QED BY <1>0, <3>1, <3>2
  <2>. QED BY <1>6, <2>1, <2>2
<1>8. \A j, k \in DOMAIN releases' : releases'[j].id = releases'[k].id => j = k
  <2> TAKE j, k \in DOMAIN releases'
  <2>1. \A x \in DOMAIN releases : releases[x].id # made + 1
    BY <1>0 DEF GitHub
  <2>2. \A x, y \in DOMAIN releases : releases[x].id = releases[y].id => x = y
    BY DEF GitHub
  <2>3. j \in Nat /\ k \in Nat
    BY <1>0, <1>5
  <2>. QED BY <1>2, <1>6, <2>1, <2>2, <2>3
<1>9. GitHub'
  <2>1. made' \in Nat \ {0}
    BY <1>0
  <2>. QED BY <1>4, <1>7, <1>8, <2>1 DEF GitHub
<1>. QED BY <1>2, <1>6, <1>9

\* A release is changed, in its body, its assets or its state.
LEMMA Altered ==
    ASSUME GitHub, NEW i0 \in DOMAIN releases, NEW r \in Entry,
           r.id = releases[i0].id, r.creator = releases[i0].creator,
           r.body \in {r.creator, "people"},
           Becomes(r.id, r), acts' \in Nat, acts' >= acts,
           \A f \in Names : r.assets[f].gen <= acts', made' = made, refs' = refs
    PROVE  /\ GitHub' /\ DOMAIN releases' = DOMAIN releases
           /\ \A i \in DOMAIN releases : releases'[i] = IF i = i0 THEN r ELSE releases[i]
<1>0. /\ releases \in Seq(Entry) /\ made \in Nat \ {0} /\ acts \in Nat
      /\ Len(releases) \in Nat /\ DOMAIN releases = 1..Len(releases)
  BY DEF GitHub
<1>1. DOMAIN releases' = DOMAIN releases
  BY DEF Becomes
<1>2. \A i \in DOMAIN releases : releases'[i] = IF i = i0 THEN r ELSE releases[i]
  BY DEF Becomes, GitHub
<1>3. releases' \in Seq(Entry)
  <2>1. releases' = [i \in 1..Len(releases) |-> releases'[i]]
    BY <1>0 DEF Becomes
  <2>2. \A i \in 1..Len(releases) : releases'[i] \in Entry
    BY <1>0, <1>2
  <2>. QED BY <1>0, <2>1, <2>2
<1>4. \A i \in DOMAIN releases :
         /\ releases'[i].id = releases[i].id
         /\ releases'[i].body \in {releases'[i].creator, "people"}
         /\ \A f \in Names : releases'[i].assets[f].gen <= acts'
  <2> TAKE i \in DOMAIN releases
  <2>1. CASE i = i0
    BY <1>2, <2>1
  <2>2. CASE i # i0
    <3>1. releases'[i] = releases[i]
      BY <1>2, <2>2
    <3>2. /\ releases[i].body \in {releases[i].creator, "people"}
          /\ \A f \in Names : releases[i].assets[f].gen <= acts
      BY DEF GitHub
    <3>3. \A f \in Names : releases[i].assets[f].gen \in Nat
      <4>1. releases[i] \in Entry
        BY <1>0
      <4>. QED BY <4>1 DEF Entry, Assets, Asset
    <3>. QED BY <1>0, <3>1, <3>2, <3>3
  <2>. QED BY <2>1, <2>2
<1>5. GitHub'
  BY <1>0, <1>1, <1>3, <1>4 DEF GitHub
<1>. QED BY <1>1, <1>2, <1>5

\* A release is deleted.
LEMMA Deleted ==
    ASSUME GitHub, NEW k \in DOMAIN releases, releases' = RemoveAt(releases, k),
           acts' \in Nat, acts' >= acts, made' = made, refs' = refs
    PROVE  /\ GitHub'
           /\ \A j \in DOMAIN releases' : \E i \in DOMAIN releases : releases'[j] = releases[i]
<1> DEFINE a == SubSeq(releases, 1, k - 1)
           b == SubSeq(releases, k + 1, Len(releases))
           from(j) == IF j <= k - 1 THEN j ELSE j + 1
<1>0. /\ releases \in Seq(Entry) /\ made \in Nat \ {0} /\ acts \in Nat
      /\ Len(releases) \in Nat /\ DOMAIN releases = 1..Len(releases)
  BY DEF GitHub
<1>1. /\ a \in Seq(Entry) /\ Len(a) = k - 1 /\ \A i \in 1..k - 1 : a[i] = releases[i]
  BY <1>0, SubSeqProperties
<1>2. /\ b \in Seq(Entry) /\ Len(b) = Len(releases) - k
      /\ \A i \in 1..Len(releases) - k : b[i] = releases[i + k]
  <2>1. PICK m \in Int : m = k + 1
    BY <1>0
  <2>2. /\ \A i \in m..Len(releases) : releases[i] \in Entry
        /\ Len(releases) \in Int
    BY <1>0, <2>1
  <2>3. /\ SubSeq(releases, m, Len(releases)) \in Seq(Entry)
        /\ Len(SubSeq(releases, m, Len(releases))) =
             IF m <= Len(releases) THEN Len(releases) - m + 1 ELSE 0
        /\ \A i \in 1..Len(releases) - m + 1 :
             SubSeq(releases, m, Len(releases))[i] = releases[m + i - 1]
    BY <2>1, <2>2, SubSeqProperties
  <2>4. b = SubSeq(releases, m, Len(releases))
    BY <2>1
  <2> HIDE DEF b
  <2>5. Len(b) = Len(releases) - k
    BY <1>0, <2>1, <2>3, <2>4
  <2>6. ASSUME NEW i \in 1..Len(releases) - k
        PROVE  b[i] = releases[i + k]
    <3>1. i \in 1..Len(releases) - m + 1 /\ m + i - 1 = i + k
      BY <1>0, <2>1
    <3>. QED BY <2>3, <2>4, <3>1
  <2>. QED BY <2>3, <2>4, <2>5, <2>6
<1>3. releases' = a \o b
  BY DEF RemoveAt, a, b
<1> HIDE DEF a, b
<1>4. /\ releases' \in Seq(Entry) /\ Len(releases') = Len(releases) - 1
      /\ \A i \in 1..Len(releases) - 1 :
           releases'[i] = IF i <= k - 1 THEN a[i] ELSE b[i - (k - 1)]
  <2>1. Len(a) + Len(b) = Len(releases) - 1
    BY <1>0, <1>1, <1>2
  <2>2. /\ a \o b \in Seq(Entry) /\ Len(a \o b) = Len(a) + Len(b)
        /\ \A i \in 1..Len(a) + Len(b) :
             (a \o b)[i] = IF i <= Len(a) THEN a[i] ELSE b[i - Len(a)]
    BY <1>1, <1>2, ConcatProperties
  <2>. QED BY <1>1, <1>3, <2>1, <2>2
<1>5. DOMAIN releases' = 1..Len(releases) - 1
  BY <1>4
<1>6. ASSUME NEW j \in DOMAIN releases'
      PROVE  from(j) \in DOMAIN releases /\ releases'[j] = releases[from(j)]
  <2>1. CASE j <= k - 1
    <3>1. j \in 1..k - 1 /\ j \in 1..Len(releases) - 1 /\ j \in 1..Len(releases)
      BY <1>0, <1>5, <2>1
    <3>. QED BY <1>0, <1>1, <1>4, <2>1, <3>1
  <2>2. CASE ~(j <= k - 1)
    <3>1. /\ j \in 1..Len(releases) - 1 /\ j - (k - 1) \in 1..Len(releases) - k
          /\ j - (k - 1) + k = j + 1 /\ j + 1 \in 1..Len(releases)
      BY <1>0, <1>5, <2>2
    <3>2. releases'[j] = b[j - (k - 1)]
      BY <1>4, <2>2, <3>1
    <3>3. b[j - (k - 1)] = releases[j + 1]
      BY <1>2, <3>1
    <3>. QED BY <1>0, <2>2, <3>1, <3>2, <3>3
  <2>. QED BY <2>1, <2>2
<1>7. \A i, j \in DOMAIN releases' : from(i) = from(j) => i = j
  BY <1>0, <1>5
<1> HIDE DEF from
<1>8. \A i, j \in DOMAIN releases' : releases'[i].id = releases'[j].id => i = j
  BY <1>6, <1>7 DEF GitHub
<1>9. \A j \in DOMAIN releases' :
         /\ releases'[j].id \in 1..made
         /\ releases'[j].body \in {releases'[j].creator, "people"}
         /\ \A f \in Names : releases'[j].assets[f].gen <= acts'
  <2> TAKE j \in DOMAIN releases'
  <2>1. PICK i \in DOMAIN releases : releases'[j] = releases[i]
    BY <1>6
  <2>2. /\ releases[i].id \in 1..made
        /\ releases[i].body \in {releases[i].creator, "people"}
        /\ \A f \in Names : releases[i].assets[f].gen <= acts
    BY DEF GitHub
  <2>3. \A f \in Names : releases[i].assets[f].gen \in Nat
    <3>1. releases[i] \in Entry
      BY <1>0
    <3>. QED BY <3>1 DEF Entry, Assets, Asset
  <2>. QED BY <1>0, <2>1, <2>2, <2>3
<1>10. GitHub'
  BY <1>0, <1>4, <1>8, <1>9 DEF GitHub
<1>. QED BY <1>6, <1>10

-----------------------------------------------------------------------------
(* What steps of several kinds keep.                                         *)

\* Every release is new, or was there with its author.
Succeeds ==
    /\ made' \in {made, made + 1}
    /\ \A j \in DOMAIN releases' :
         \/ releases'[j].id = made + 1
         \/ \E i \in DOMAIN releases : /\ releases'[j].id = releases[i].id
                                        /\ releases'[j].creator = releases[i].creator

LEMMA SameGitHub ==
    ASSUME GitHub, UNCHANGED <<releases, made, refs, acts>>
    PROVE  GitHub' /\ Succeeds
<1>1. GitHub'
  BY DEF GitHub
<1>2. Succeeds
  BY DEF Succeeds
<1>. QED BY <1>1, <1>2

\* So the run's draft, and what it has read, are still whose they were.
LEMMA IdentityKept ==
    ASSUME DraftInv, GitHub', Succeeds, UNCHANGED <<job, read>>,
           pc' = "failed" \/ pc # "failed", pc' \notin Reading => pc \notin Reading
    PROVE  Rows' /\ (release' = release => Own')
<1>0. /\ made \in Nat /\ made' \in Nat /\ made <= made' /\ release \in 0..made
      /\ \A j \in DOMAIN releases' : releases'[j].id \in Nat
      /\ \A pass \in {1, 2} : \A k \in DOMAIN read.rows[pass] : read.rows[pass][k].id \in 1..made
  <2>1. made \in Nat /\ made' \in {made, made + 1} /\ release \in 0..made
    BY DEF DraftInv, GitHub, Memory, Succeeds
  <2>2. \A j \in DOMAIN releases' : releases'[j].id \in 1..made'
    BY DEF GitHub
  <2>3. \A pass \in {1, 2} : \A k \in DOMAIN read.rows[pass] : read.rows[pass][k].id \in 1..made
    BY DEF DraftInv, Rows
  <2>. QED BY <2>1, <2>2, <2>3
<1>1. ASSUME NEW id \in 0..made, NEW j \in DOMAIN releases', releases'[j].id = id
      PROVE  \E i \in DOMAIN releases : releases[i].id = id
                                        /\ releases[i].creator = releases'[j].creator
  <2>1. releases'[j].id # made + 1
    BY <1>0, <1>1
  <2>. QED BY <1>1, <2>1 DEF Succeeds
<1>2. ASSUME release' = release
      PROVE  Own'
  BY <1>0, <1>1, <1>2 DEF DraftInv, Own
<1>3. Rows'
  <2>1. pc' \notin Reading => read' = NoRead
    BY DEF DraftInv, Rows
  <2>2. ASSUME NEW pass \in {1, 2}, NEW k \in DOMAIN read.rows[pass]
        PROVE  /\ read.rows[pass][k].id \in 1..made'
               /\ pc' # "failed" /\ read.rows[pass][k].checked =>
                    \A j \in DOMAIN releases' :
                      releases'[j].id = read.rows[pass][k].id => releases'[j].creator = job
    <3>1. read.rows[pass][k].id \in 1..made /\ read.rows[pass][k].id \in 0..made
      BY <1>0, <2>2
    <3>2. read.rows[pass][k].id \in 1..made'
      BY <1>0, <3>1
    <3>3. ASSUME pc # "failed", read.rows[pass][k].checked, NEW j \in DOMAIN releases',
                 releases'[j].id = read.rows[pass][k].id
          PROVE  releases'[j].creator = job
      <4>1. PICK i \in DOMAIN releases : /\ releases[i].id = read.rows[pass][k].id
                                         /\ releases[i].creator = releases'[j].creator
        BY <1>1, <3>1, <3>3
      <4>. QED BY <2>2, <3>3, <4>1 DEF DraftInv, Rows
    <3>. QED BY <3>2, <3>3
  <2>. QED BY <2>1, <2>2 DEF Rows
<1>. QED BY <1>2, <1>3

\* A run that fails leaves no more to be shown.
LEMMA FailedStep ==
    ASSUME DraftInv, GitHub', Memory', Succeeds, pc' = "failed",
           UNCHANGED <<job, stage, read, release>>
    PROVE  DraftInv'
<1>1. Rows' /\ Own'
  BY IdentityKept DEF Reading
<1>2. Gate' /\ Staged'
  BY DEF DraftInv, Gate, Staged, Uploading, Publishing, Accepting, Taking
<1>3. Checks' /\ Downloaded' /\ Generations'
  BY DEF Checks, Downloaded, Generations, Publishing, Accepting, Taking
<1>. QED BY <1>1, <1>2, <1>3 DEF DraftInv

\* Nor does a run that goes on and has learnt nothing.
LEMMA MovesStep ==
    ASSUME DraftInv, GitHub',
           UNCHANGED <<releases, made, acts, job, memory, run, late>>,
           \/ pc = "wait" /\ pc' = "stage" /\ GateReady
           \/ pc = "wait" /\ pc' = "snapref" /\ job # "rc"
           \/ pc \in Uploading \ Reading /\ pc' \in Uploading \ {"pages", "match", "list"}
           \/ pc \in Taking /\ pc' \in Taking
           \/ pc = "snapref" /\ pc' = "snap"
           \/ pc \in Accepting /\ pc' \in Accepting \union {"absent"}
           \/ pc' = "failed"
    PROVE  DraftInv'
<1>1. Memory' /\ Succeeds
  BY DEF DraftInv, Memory, memory, Succeeds
<1>2. Rows' /\ Own'
  <2>1. pc' = "failed" \/ pc # "failed"
    BY DEF Uploading, Reading, Taking, Accepting
  <2>2. pc' \notin Reading => pc \notin Reading
    BY DEF Uploading, Reading, Taking, Accepting
  <2>. QED BY <1>1, <2>1, <2>2, IdentityKept DEF memory
<1>3. Gate'
  <2>1. pc' = "failed" \/ pc \notin {"wait", "failed"} \/ GateReady \/ job # "rc"
    BY DEF Uploading, Reading, Taking, Accepting
  <2>2. job \in Jobs
    BY DEF DraftInv, Memory
  <2>. QED BY <2>1, <2>2 DEF DraftInv, Gate, GateReady, Jobs
<1>4. Staged'
  BY DEF DraftInv, Memory, Staged, Uploading, Publishing, Accepting, Taking, Jobs, memory, Passed,
         Reading
<1>5. Checks' /\ Downloaded' /\ Generations'
  <2>1. pc' \notin Publishing
    BY DEF Uploading, Reading, Taking, Accepting, Publishing
  <2>2. pc' \in Taking => pc \in Taking
    BY DEF Uploading, Reading, Taking, Accepting
  <2>3. pc' \in Accepting => pc \in Accepting
    BY DEF Uploading, Reading, Taking, Accepting
  <2>4. pc' # "snapassets"
    BY DEF Uploading, Reading, Taking, Accepting
  <2>5. pc' \in Taking \union Accepting =>
          Passed' = Passed
    BY <2>2, <2>3 DEF Passed, Taking, Accepting, memory
  <2>. QED BY <2>1, <2>2, <2>3, <2>4, <2>5
           DEF DraftInv, Checks, Downloaded, Generations, memory
<1>. QED BY <1>1, <1>2, <1>3, <1>4, <1>5 DEF DraftInv

-----------------------------------------------------------------------------
(* People.                                                                   *)

\* What people do shows in the history, or in the asset itself.
PeopleDid ==
    /\ late \subseteq late'
    /\ refs'[job] = refs[job] \/ "tag" \in late'
    /\ \A j \in DOMAIN releases' :
         \/ releases'[j].id = made + 1 /\ made' = made + 1
         \/ \E i \in DOMAIN releases :
              /\ releases'[j].id = releases[i].id
              /\ releases'[j].creator = releases[i].creator
              /\ releases'[j].draft => releases[i].draft
              /\ \A f \in Names :
                   \/ releases'[j].assets[f] = releases[i].assets[f]
                   \/ /\ f \in late' \/ releases[i].id # release
                      /\ \/ releases'[j].assets[f] = NoAsset
                         \/ releases'[j].assets[f].gen = acts + 1

LEMMA PeopleStep ==
    ASSUME DraftInv, GitHub', PeopleDid, made' \in {made, made + 1},
           UNCHANGED <<job, pc, memory, run>>, pc # "failed", acts' = acts + 1
    PROVE  DraftInv'
<1>0. /\ GitHub /\ Memory /\ made \in Nat /\ made' \in Nat /\ made <= made' /\ acts \in Nat
      /\ release \in 0..made /\ listed.id \in 0..made /\ job \in Jobs
      /\ \A f \in Names : listed.assets[f].gen \in Nat /\ listed.assets[f].gen <= acts
  <2>1. /\ GitHub /\ Memory /\ made \in Nat /\ made' \in {made, made + 1} /\ acts \in Nat
        /\ release \in 0..made /\ listed \in [id : 0..made, stamp : Nat, assets : Assets]
        /\ job \in Jobs /\ \A f \in Names : listed.assets[f].gen <= acts
    BY DEF DraftInv, GitHub, Memory
  <2>. QED BY <2>1 DEF Assets, Asset
<1>1. Succeeds
  BY DEF Succeeds, PeopleDid
<1>2. Memory'
  <2>1. listed' \in [id : 0..made', stamp : Nat, assets : Assets] /\ release' \in 0..made'
    <3>1. listed \in [id : 0..made, stamp : Nat, assets : Assets]
      BY <1>0 DEF Memory
    <3>. QED BY <1>0, <3>1 DEF memory
  <2>2. \A f \in Names : listed'.assets[f].gen <= acts'
    BY <1>0 DEF memory
  <2>. QED BY <1>0, <2>1, <2>2 DEF Memory, memory
<1>3. Rows' /\ Own'
  BY <1>1, IdentityKept DEF memory
<1>4. Gate' /\ Staged'
  BY DEF DraftInv, Gate, Staged, Passed, memory
\* An entry with an ID that is known to the run was there before.
<1>5. ASSUME NEW id \in 0..made, NEW j \in DOMAIN releases', releases'[j].id = id
      PROVE  \E i \in DOMAIN releases :
              /\ releases[i].id = id
              /\ releases'[j].draft => releases[i].draft
              /\ \A f \in Names :
                   \/ releases'[j].assets[f] = releases[i].assets[f]
                   \/ /\ f \in late' \/ id # release
                      /\ \/ releases'[j].assets[f] = NoAsset
                         \/ releases'[j].assets[f].gen = acts + 1
  <2>1. id # made + 1
    BY <1>0, <1>5
  <2>. QED BY <1>5, <2>1 DEF PeopleDid
<1>6. Passed' = Passed
  BY DEF Passed, memory
<1>7. Checks'
  <2> SUFFICES ASSUME pc \in Publishing PROVE Checks'
    BY DEF Checks
  <2>1. ASSUME NEW j \in DOMAIN releases', releases'[j].id = release
        PROVE  /\ \A k \in 1..Passed :
                    Files[k] \notin late' => releases'[j].assets[Files[k]].bytes = "built"
               /\ Extra \notin late' => releases'[j].assets[Extra].bytes = "none"
    <3>1. PICK i \in DOMAIN releases :
              /\ releases[i].id = release
              /\ \A f \in Names : f \notin late' => releases'[j].assets[f] = releases[i].assets[f]
      BY <1>0, <1>5, <2>1
    <3>2. /\ \A k \in 1..Passed :
               Files[k] \notin late => releases[i].assets[Files[k]].bytes = "built"
          /\ Extra \notin late => releases[i].assets[Extra].bytes = "none"
      BY <3>1 DEF DraftInv, Checks
    <3>3. late \subseteq late' /\ \A k \in 1..Passed : Files[k] \in Names
      <4>1. late \subseteq late'
        BY DEF PeopleDid
      <4>2. Passed \in Int /\ Passed <= Len(Files)
        <5>1. n \in 1..Len(Files) /\ Len(Files) \in Nat
          BY <1>0, FileNames DEF Memory
        <5>. QED BY <5>1 DEF Passed
      <4>. QED BY <4>1, <4>2, FileNames
    <3>. QED BY <3>1, <3>2, <3>3, FileNames
  <2>2. pc = "publish" => refs'[job] = "source" \/ "tag" \in late'
    BY DEF DraftInv, Checks, PeopleDid
  <2>. QED BY <1>6, <2>1, <2>2 DEF Checks, memory
<1>8. Downloaded'
  <2>1. ASSUME pc \in Taking \union Accepting \union {"snapassets"},
               NEW j \in DOMAIN releases', releases'[j].id = listed.id
        PROVE  ~releases'[j].draft
    BY <1>0, <1>5, <2>1 DEF DraftInv, Downloaded
  <2>2. pc \in Taking \union Accepting =>
          /\ listed.assets[Extra] = NoAsset
          /\ \A k \in 1..Passed : listed.assets[Files[k]].bytes = "built"
    BY DEF DraftInv, Downloaded
  <2>. QED BY <1>6, <2>1, <2>2 DEF Downloaded, memory
<1>9. Generations'
  <2>1. ASSUME pc \in Taking, NEW j \in DOMAIN releases', NEW f \in Names,
               releases'[j].id = listed.id, releases'[j].assets[f] # NoAsset,
               releases'[j].assets[f].gen = listed.assets[f].gen
        PROVE  releases'[j].assets[f] = listed.assets[f]
    <3>1. PICK i \in DOMAIN releases :
             /\ releases[i].id = listed.id
             /\ \A g \in Names : \/ releases'[j].assets[g] = releases[i].assets[g]
                                \/ releases'[j].assets[g] = NoAsset
                                \/ releases'[j].assets[g].gen = acts + 1
      BY <1>0, <1>5, <2>1
    <3>2. listed.assets[f].gen # acts + 1
      BY <1>0
    <3>3. releases'[j].assets[f] = releases[i].assets[f]
      BY <2>1, <3>1, <3>2
    <3>. QED BY <2>1, <3>1, <3>3 DEF DraftInv, Generations
  <2>. QED BY <2>1 DEF Generations, memory
<1>. QED BY <1>2, <1>3, <1>4, <1>7, <1>8, <1>9 DEF DraftInv

LEMMA PeopleKeepInv ==
    ASSUME DraftInv,
           \/ \E r \in ToSet(releases) :
                \/ EditRelease(r) \/ PublishByHand(r) \/ DeleteRelease(r)
                \/ \E f \in Names : ChangeAsset(r, f)
           \/ \E j \in Jobs : CreateByHand(j) \/ MoveTag(j)
    PROVE  DraftInv'
<1>0. /\ GitHub /\ acts \in Nat /\ made \in Nat
  BY DEF DraftInv, GitHub
<1>1. Acts
  BY DEF EditRelease, PublishByHand, DeleteRelease, ChangeAsset, CreateByHand, MoveTag
<1>2. /\ UNCHANGED <<job, pc, memory, run>> /\ pc # "failed" /\ acts' = acts + 1
      /\ acts' \in Nat /\ acts' >= acts
  BY <1>0, <1>1 DEF Acts
<1>3. ASSUME NEW j \in Jobs, CreateByHand(j)
      PROVE  DraftInv'
  <2>1. /\ made' = made + 1 /\ releases' = <<Draft(j, "people")>> \o releases
        /\ UNCHANGED <<refs, late>>
    BY <1>3 DEF CreateByHand
  <2>2. "people" \in Authors
    BY DEF Authors
  <2>3. /\ GitHub'
        /\ \A k \in DOMAIN releases' :
              \/ releases'[k].id = made'
              \/ \E i \in DOMAIN releases : releases'[k] = releases[i]
    BY <1>0, <1>2, <2>1, <2>2, Prepended
  <2>4. PeopleDid
    BY <2>1, <2>3 DEF PeopleDid
  <2>. QED BY <1>2, <2>1, <2>3, <2>4, PeopleStep
<1>4. ASSUME NEW j \in Jobs, MoveTag(j)
      PROVE  DraftInv'
  <2>1. /\ refs' = [refs EXCEPT ![j] = IF @ = "none" THEN "moved" ELSE "none"]
        /\ late' = (IF j = job THEN late \union {"tag"} ELSE late)
        /\ UNCHANGED <<releases, made>>
    BY <1>4 DEF MoveTag
  <2>2. refs' \in [Jobs -> {"none", "source", "moved"}] /\ (refs'[job] = refs[job] \/ j = job)
    BY <1>0, <2>1 DEF GitHub
  <2>3. \A i \in DOMAIN releases, f \in Names : releases[i].assets[f].gen <= acts'
    <3>1. \A i \in DOMAIN releases, f \in Names :
             releases[i].assets[f].gen \in Nat /\ releases[i].assets[f].gen <= acts
      <4>1. \A i \in DOMAIN releases : releases[i].assets \in Assets
        <5>1. \A i \in DOMAIN releases : releases[i] \in Entry
          BY <1>0 DEF GitHub
        <5>. QED BY <5>1 DEF Entry
      <4>. QED BY <1>0, <4>1 DEF GitHub, Assets, Asset
    <3>. QED BY <1>0, <1>2, <3>1
  <2>4. GitHub'
    BY <1>0, <1>2, <2>1, <2>2, <2>3 DEF GitHub
  <2>5. PeopleDid
    BY <2>1, <2>2 DEF PeopleDid
  <2>. QED BY <1>2, <2>1, <2>4, <2>5, PeopleStep
<1>5. ASSUME NEW r \in ToSet(releases), DeleteRelease(r)
      PROVE  DraftInv'
  <2>1. PICK k \in DOMAIN releases : releases' = RemoveAt(releases, k)
    <3>1. \E k \in DOMAIN releases : releases[k] = r
      BY DEF ToSet
    <3>. QED BY <1>5, <3>1 DEF DeleteRelease
  <2>2. UNCHANGED <<made, refs, late>>
    BY <1>5 DEF DeleteRelease
  <2>3. /\ GitHub'
        /\ \A j \in DOMAIN releases' : \E i \in DOMAIN releases : releases'[j] = releases[i]
    BY <1>0, <1>2, <2>1, <2>2, Deleted
  <2>4. PeopleDid
    BY <2>2, <2>3 DEF PeopleDid
  <2>. QED BY <1>2, <2>2, <2>3, <2>4, PeopleStep
<1>6. ASSUME NEW r \in ToSet(releases),
             EditRelease(r) \/ PublishByHand(r) \/ \E f \in Names : ChangeAsset(r, f)
      PROVE  DraftInv'
  <2>1. PICK i0 \in DOMAIN releases : releases[i0] = r
    BY DEF ToSet
  <2>2. r \in Entry /\ r.body \in {r.creator, "people"} /\ r.id \in Nat
    <3>1. r \in Entry /\ r.body \in {r.creator, "people"}
      BY <1>0, <2>1 DEF GitHub
    <3>. QED BY <3>1 DEF Entry
  <2>3. \A f \in Names : r.assets[f].gen \in Nat /\ r.assets[f].gen <= acts /\ r.assets[f].gen <= acts'
    <3>1. \A f \in Names : r.assets[f].gen \in Nat /\ r.assets[f].gen <= acts
      BY <1>0, <2>1, <2>2 DEF GitHub, Entry, Assets, Asset
    <3>. QED BY <1>0, <1>2, <3>1
  <2>4. ASSUME NEW s \in Entry, Becomes(r.id, s), s.id = r.id, s.creator = r.creator,
               s.body \in {s.creator, "people"}, s.draft => r.draft,
               UNCHANGED <<made, refs>>, late \subseteq late',
               \A f \in Names : \/ s.assets[f] = r.assets[f]
                                \/ /\ f \in late' \/ r.id # release
                                   /\ \/ s.assets[f] = NoAsset
                                      \/ s.assets[f].gen = acts + 1
        PROVE  DraftInv'
    <3>1. \A f \in Names : s.assets[f].gen <= acts'
      BY <1>0, <1>2, <2>3, <2>4 DEF NoAsset
    <3>2. /\ GitHub' /\ DOMAIN releases' = DOMAIN releases
          /\ \A i \in DOMAIN releases : releases'[i] = IF i = i0 THEN s ELSE releases[i]
      BY <1>0, <1>2, <2>1, <2>4, <3>1, Altered
    <3>3. PeopleDid
      <4>1. ASSUME NEW j \in DOMAIN releases'
            PROVE  \E i \in DOMAIN releases :
                      /\ releases'[j].id = releases[i].id
                      /\ releases'[j].creator = releases[i].creator
                      /\ releases'[j].draft => releases[i].draft
                      /\ \A f \in Names :
                           \/ releases'[j].assets[f] = releases[i].assets[f]
                           \/ /\ f \in late' \/ releases[i].id # release
                              /\ \/ releases'[j].assets[f] = NoAsset
                                 \/ releases'[j].assets[f].gen = acts + 1
        <5>1. CASE j = i0
          <6>1. releases'[j] = s /\ releases[i0] = r
            BY <2>1, <3>2, <5>1
          <6>. QED BY <2>1, <2>4, <6>1
        <5>2. CASE j # i0
          BY <3>2, <5>2
        <5>. QED BY <5>1, <5>2
      <4>2. late \subseteq late' /\ refs' = refs
        BY <2>4
      <4>. QED BY <4>1, <4>2 DEF PeopleDid
    <3>. QED BY <1>2, <2>4, <3>2, <3>3, PeopleStep
  <2>5. CASE EditRelease(r)
    <3>1. PICK s : s = [r EXCEPT !.body = "people", !.stamp = acts + 1]
      OBVIOUS
    <3>2. /\ s \in Entry /\ s.id = r.id /\ s.creator = r.creator /\ s.body = "people"
          /\ s.draft = r.draft /\ s.assets = r.assets
      <4>1. "people" \in Authors /\ acts + 1 \in Nat
        BY <1>0 DEF Authors
      <4>2. s = [[r EXCEPT !.body = "people"] EXCEPT !.stamp = acts + 1]
        BY <3>1
      <4>. QED BY <2>2, <4>1, <4>2 DEF Entry
    <3>3. Becomes(r.id, s) /\ UNCHANGED <<made, refs, late>>
      BY <2>5, <3>1 DEF EditRelease
    <3>. QED BY <2>4, <3>2, <3>3
  <2>6. CASE PublishByHand(r)
    <3>1. PICK s : s = [r EXCEPT !.draft = FALSE]
      OBVIOUS
    <3>2. /\ s \in Entry /\ s.id = r.id /\ s.creator = r.creator /\ s.body = r.body
          /\ ~s.draft /\ s.assets = r.assets
      BY <2>2, <3>1 DEF Entry
    <3>3. Becomes(r.id, s) /\ UNCHANGED <<made, refs, late>>
      BY <2>6, <3>1 DEF PublishByHand
    <3>. QED BY <2>2, <2>4, <3>2, <3>3
  <2>7. ASSUME NEW f \in Names, ChangeAsset(r, f)
        PROVE  DraftInv'
    <3>1. PICK a \in Asset : /\ a = NoAsset \/ a.gen = acts + 1
                             /\ Becomes(r.id, [r EXCEPT !.assets[f] = a])
      <4>1. CASE Becomes(r.id, [r EXCEPT !.assets[f] =
                    [gen |-> acts + 1, bytes |-> "other", state |-> "uploaded"]])
        <5>1. [gen |-> acts + 1, bytes |-> "other", state |-> "uploaded"] \in Asset
          BY <1>0 DEF Asset
        <5>. QED BY <4>1, <5>1
      <4>2. CASE Becomes(r.id, [r EXCEPT !.assets[f] = NoAsset])
        <5>1. NoAsset \in Asset
          BY DEF Asset, NoAsset
        <5>. QED BY <4>2, <5>1
      <4>. QED BY <2>7, <4>1, <4>2 DEF ChangeAsset
    <3>2. PICK s : s = [r EXCEPT !.assets[f] = a]
      OBVIOUS
    <3>3. r.assets \in Assets
      BY <2>2 DEF Entry
    <3>4. /\ s \in Entry /\ s.id = r.id /\ s.creator = r.creator /\ s.body = r.body
          /\ s.draft = r.draft /\ s.assets = [r.assets EXCEPT ![f] = a]
      <4>1. [r.assets EXCEPT ![f] = a] \in Assets
        BY <3>1, <3>3 DEF Assets
      <4>2. s = [r EXCEPT !.assets = [r.assets EXCEPT ![f] = a]]
        BY <3>2
      <4>. QED BY <2>2, <4>1, <4>2 DEF Entry
    <3>5. s.assets[f] = a /\ \A g \in Names : g # f => s.assets[g] = r.assets[g]
      BY <3>3, <3>4 DEF Assets
    <3>6. /\ late' = (IF r.id = release THEN late \union {f} ELSE late)
          /\ UNCHANGED <<made, refs>>
      BY <2>7 DEF ChangeAsset
    <3>7. Becomes(r.id, s) /\ late \subseteq late' /\ (f \in late' \/ r.id # release)
      BY <3>1, <3>2, <3>6
    <3>. QED BY <2>2, <2>4, <3>1, <3>4, <3>5, <3>6, <3>7
  <2>. QED BY <1>6, <2>5, <2>6, <2>7
<1>. QED BY <1>3, <1>4, <1>5, <1>6

-----------------------------------------------------------------------------
(* The run: before its draft.                                                *)

LEMMA WaitSteps ==
    ASSUME DraftInv,
           WaitForExecutingRun \/ Report \/ CheckAbsent \/ CreateTag \/ Reread
             \/ SnapshotRef \/ GiveUp
    PROVE  DraftInv'
<1>0. GitHub /\ Memory
  BY DEF DraftInv
<1>1. CASE WaitForExecutingRun \/ CheckAbsent \/ Reread \/ SnapshotRef \/ GiveUp
  <2>1. /\ UNCHANGED <<releases, made, refs, acts, job, memory, run, late>>
        /\ \/ pc = "wait" /\ pc' = "stage" /\ GateReady
           \/ pc = "wait" /\ pc' = "snapref" /\ job # "rc"
           \/ pc \in {"absent", "reread", "checkref", "again"}
                /\ pc' \in {"tag", "checkref", "again", "upload"}
           \/ pc = "unused" /\ pc' = "download"
           \/ pc = "snapref" /\ pc' = "snap"
           \/ pc = "resnapref" /\ pc' = "resnap"
           \/ pc' = "failed"
    BY <1>1 DEF WaitForExecutingRun, CheckAbsent, Reread, SnapshotRef, GiveUp, Goes, Fails, github
  <2>2. \/ pc = "wait" /\ pc' = "stage" /\ GateReady
        \/ pc = "wait" /\ pc' = "snapref" /\ job # "rc"
        \/ pc \in Uploading \ Reading /\ pc' \in Uploading \ {"pages", "match", "list"}
        \/ pc \in Taking /\ pc' \in Taking
        \/ pc = "snapref" /\ pc' = "snap"
        \/ pc \in Accepting /\ pc' \in Accepting \union {"absent"}
        \/ pc' = "failed"
    BY <2>1 DEF Uploading, Reading, Taking, Accepting
  <2>3. GitHub'
    BY <1>0, <2>1, SameGitHub
  <2>. QED BY <2>1, <2>2, <2>3, MovesStep
<1>2. CASE CreateTag
  <2>1. /\ UNCHANGED <<releases, made, acts, job, memory, run, late>>
        /\ pc = "tag" /\ pc' \in {"create", "failed"}
        /\ refs' = refs \/ refs' = [refs EXCEPT ![job] = "source"]
    BY <1>2 DEF CreateTag, Goes, Fails, Lost
  <2>2. GitHub'
    <3>1. refs' \in [Jobs -> {"none", "source", "moved"}]
      BY <1>0, <2>1 DEF GitHub, Memory
    <3>. QED BY <1>0, <2>1, <3>1 DEF GitHub
  <2>3. \/ pc \in Uploading \ Reading /\ pc' \in Uploading \ {"pages", "match", "list"}
        \/ pc' = "failed"
    BY <2>1 DEF Uploading, Reading
  <2>. QED BY <2>1, <2>2, <2>3, MovesStep
<1>3. CASE Report
  <2>1. /\ pc = "wait" /\ pc' = pc /\ UNCHANGED <<releases, made, refs, acts, job, memory, late>>
    BY <1>3 DEF Report, github
  <2>2. run' \in RunType
    <3>1. run \in RunType
      BY <1>0 DEF Memory
    <3>2. \/ \E next \in {"in_progress", "completed"} : run' = [run EXCEPT !.status = next]
          \/ \E gate \in {"running", "success", "failure"} : run' = [run EXCEPT !.gate = gate]
      BY <1>3 DEF Report
    <3>. QED BY <3>1, <3>2 DEF RunType
  <2>3. GitHub' /\ Succeeds
    BY <1>0, <2>1, SameGitHub
  <2>4. Memory'
    BY <1>0, <2>1, <2>2 DEF Memory, memory
  <2>5. Rows' /\ Own'
    BY <2>1, <2>3, IdentityKept DEF memory
  <2>6. Gate' /\ Staged' /\ Checks' /\ Downloaded' /\ Generations'
    BY <2>1 DEF DraftInv, Gate, Staged, Checks, Downloaded, Generations, memory,
                Uploading, Publishing, Accepting, Taking
  <2>. QED BY <2>3, <2>4, <2>5, <2>6 DEF DraftInv
<1>. QED BY <1>1, <1>2, <1>3

LEMMA StagingSteps ==
    ASSUME DraftInv, StageAssets \/ Promote
    PROVE  DraftInv'
<1>0. /\ GitHub /\ Memory /\ Extra \in Names /\ made \in Nat /\ acts \in Nat /\ 1 \in 1..Len(Files)
  BY FileNames DEF DraftInv, GitHub
<1>1. CASE StageAssets
  <2>1. /\ pc = "stage" /\ pc' = "absent"
        /\ stage' = [f \in Names |-> IF f = Extra THEN "none" ELSE "built"]
        /\ UNCHANGED <<releases, made, refs, job, n, release, listed, read, acts, run, late>>
    BY <1>1 DEF StageAssets, Goes, github
  <2>2. GitHub' /\ Succeeds
    BY <1>0, <2>1, SameGitHub
  <2>3. Memory'
    BY <1>0, <2>1 DEF Memory
  <2>4. Rows' /\ Own'
    BY <2>1, <2>2, IdentityKept DEF Reading
  <2>5. Gate' /\ Checks' /\ Downloaded' /\ Generations'
    BY <2>1 DEF DraftInv, Gate, Checks, Downloaded, Generations, Publishing, Accepting, Taking
  <2>6. Staged'
    BY <1>0, <2>1 DEF DraftInv, Staged, Uploading, Publishing, Accepting, Taking
  <2>. QED BY <2>2, <2>3, <2>4, <2>5, <2>6 DEF DraftInv
<1>2. CASE Promote
  <2>1. /\ pc = "done" /\ job = "rc" /\ job' = "stable" /\ pc' = "wait" /\ run' = Queued
        /\ stage' = [f \in Names |-> "none"]
        /\ release' = 0 /\ listed' = NoList /\ n' = 1 /\ late' = {}
        /\ UNCHANGED <<releases, made, refs, read, acts>>
    BY <1>2 DEF Promote, github
  <2>2. GitHub'
    BY <1>0, <2>1, SameGitHub
  <2>3. Memory'
    <3>1. listed' \in [id : 0..made, stamp : Nat, assets : Assets]
      <4>1. Empty \in Assets
        BY DEF Empty, NoAsset, Assets, Asset
      <4>2. 0 \in 0..made
        BY <1>0
      <4>. QED BY <2>1, <4>1, <4>2 DEF NoList
    <3>2. \A f \in Names : listed'.assets[f].gen <= acts
      BY <1>0, <2>1 DEF NoList, Empty, NoAsset
    <3>3. run' \in RunType /\ release' \in 0..made
      BY <1>0, <2>1 DEF Queued, RunType
    <3>. QED BY <1>0, <2>1, <3>1, <3>2, <3>3 DEF Memory, Jobs
  <2>4. Rows'
    <3>1. read = NoRead
      BY <2>1 DEF DraftInv, Rows, Reading
    <3>2. \A pass \in {1, 2} : DOMAIN read.rows[pass] = {}
      BY <3>1 DEF NoRead
    <3>. QED BY <2>1, <3>1, <3>2 DEF Rows
  <2>5. Own' /\ Gate' /\ Checks' /\ Downloaded' /\ Generations'
    BY <2>1 DEF Own, Gate, Checks, Downloaded, Generations, Publishing, Accepting, Taking
  <2>6. Staged'
    BY <1>0, <2>1 DEF Staged, Uploading, Publishing, Accepting, Taking
  <2>. QED BY <2>2, <2>3, <2>4, <2>5, <2>6 DEF DraftInv
<1>. QED BY <1>1, <1>2

\* Its answer lost, the created draft is among GitHub's releases all the same.
LEMMA CreateStep ==
    ASSUME DraftInv, CreateDraft
    PROVE  DraftInv'
<1>0. /\ GitHub /\ Memory /\ made \in Nat /\ acts \in Nat /\ job \in Jobs
  BY DEF DraftInv, GitHub, Memory
<1>1. /\ pc = "create" /\ pc' \in {"upload", "pages", "failed"}
      /\ UNCHANGED <<refs, job, n, stage, listed, read, acts, run, late>>
      /\ Created \/ UNCHANGED <<releases, made>>
      /\ \/ release' = release /\ pc' # "upload"
         \/ Created /\ release' = made' /\ pc' = "upload"
  BY DEF CreateDraft, Goes, Fails
<1>2. /\ GitHub' /\ made' \in {made, made + 1}
      /\ \A k \in DOMAIN releases' :
            \/ releases'[k].id = made + 1 /\ made' = made + 1 /\ releases'[k].creator = job
            \/ \E i \in DOMAIN releases : releases'[k] = releases[i]
  <2>1. CASE Created
    <3>1. made' = made + 1 /\ releases' = <<Draft(job, job)>> \o releases
      BY <2>1 DEF Created
    <3>2. PICK j \in Jobs : j = job
      BY <1>0
    <3>3. j \in Authors /\ releases' = <<Draft(j, j)>> \o releases
      BY <3>1, <3>2 DEF Authors
    <3>4. /\ GitHub'
          /\ \A k \in DOMAIN releases' :
               \/ releases'[k].id = made' /\ releases'[k].creator = j
               \/ \E i \in DOMAIN releases : releases'[k] = releases[i]
      BY <1>0, <1>1, <3>1, <3>3, Prepended
    <3>. QED BY <3>1, <3>2, <3>4
  <2>2. CASE UNCHANGED <<releases, made>>
    <3>1. GitHub'
      BY <1>0, <1>1, <2>2, SameGitHub
    <3>. QED BY <2>2, <3>1
  <2>. QED BY <1>1, <2>1, <2>2
<1>3. Succeeds
  BY <1>2 DEF Succeeds
<1>4. Memory'
  <2>1. listed \in [id : 0..made, stamp : Nat, assets : Assets] /\ release \in 0..made
    BY <1>0 DEF Memory
  <2>2. listed \in [id : 0..made', stamp : Nat, assets : Assets]
    BY <1>0, <1>2, <2>1
  <2>3. release' \in 0..made'
    BY <1>0, <1>1, <1>2, <2>1
  <2>. QED BY <1>0, <1>1, <2>2, <2>3 DEF Memory
<1>5. Rows' /\ (release' = release => Own')
  BY <1>1, <1>2, <1>3, IdentityKept DEF Reading
<1>6. Own'
  <2>1. CASE release' = made' /\ Created
    <3>1. made' = made + 1
      BY <2>1 DEF Created
    <3>2. \A i \in DOMAIN releases : releases[i].id # made + 1
      BY <1>0 DEF GitHub
    <3>. QED BY <1>1, <1>2, <2>1, <3>1, <3>2 DEF Own
  <2>. QED BY <1>1, <1>5, <2>1
<1>7. Gate' /\ Staged'
  BY <1>1 DEF DraftInv, Gate, Staged, Uploading, Publishing, Accepting, Taking
<1>8. Checks' /\ Downloaded' /\ Generations'
  BY <1>1 DEF Checks, Downloaded, Generations, Publishing, Accepting, Taking
<1>. QED BY <1>2, <1>4, <1>5, <1>6, <1>7, <1>8 DEF DraftInv

-----------------------------------------------------------------------------
(* The run: looking for the draft of a lost answer.                          *)

\* A row is read from a release, and passes only if the run made it.
LEMMA RowRead ==
    ASSUME DraftInv, NEW j \in DOMAIN releases
    PROVE  /\ Row(releases[j]) \in RowType /\ Row(releases[j]).id \in 1..made
           /\ Row(releases[j]).checked =>
                \A i \in DOMAIN releases :
                  releases[i].id = Row(releases[j]).id => releases[i].creator = job
<1>0. GitHub /\ job \in Jobs
  BY DEF DraftInv, Memory
<1>1. /\ releases[j].id \in Nat /\ releases[j].id \in 1..made
      /\ releases[j].tag \in Jobs \union {"older"} /\ releases[j].draft \in BOOLEAN
  <2>1. releases[j] \in Entry /\ releases[j].id \in 1..made
    BY <1>0 DEF GitHub
  <2>. QED BY <2>1 DEF Entry
<1>2. Checked(releases[j]) \in BOOLEAN
  BY DEF Checked
<1>3. Row(releases[j]) \in RowType /\ Row(releases[j]).id = releases[j].id
  BY <1>1, <1>2 DEF Row, RowType
<1>4. ASSUME Row(releases[j]).checked
      PROVE  releases[j].creator = job
  <2>1. releases[j].body = job
    BY <1>4 DEF Row, Checked
  <2>2. releases[j].body \in {releases[j].creator, "people"}
    BY <1>0 DEF GitHub
  <2>. QED BY <1>0, <2>1, <2>2 DEF Jobs
<1>5. \A i \in DOMAIN releases : releases[i].id = releases[j].id => i = j
  BY <1>0 DEF GitHub
<1>. QED BY <1>1, <1>3, <1>4, <1>5

LEMMA ReadStep ==
    ASSUME DraftInv, ReadPage
    PROVE  DraftInv'
<1> DEFINE first == (read.page - 1) * PageSize + 1
           upto == Min({read.page * PageSize, Len(releases)})
           size == IF first > upto THEN 0 ELSE upto - first + 1
           rows == [i \in 1..size |-> Row(releases[first + i - 1])]
           known == read.rows[read.pass]
           next == Len(rows) = PageSize \/ Len(releases) > read.page * PageSize
           after == [pass |-> IF next THEN read.pass ELSE 2,
                     page |-> IF next THEN read.page + 1 ELSE 1,
                     rows |-> [read.rows EXCEPT ![read.pass] = known \o rows]]
<1>0. /\ GitHub /\ Memory /\ pc = "pages"
      /\ Len(releases) \in Nat /\ DOMAIN releases = 1..Len(releases)
      /\ UNCHANGED <<releases, made, refs, acts, job, n, stage, release, listed, run, late>>
  BY DEF DraftInv, ReadPage, GitHub, github
<1>1. /\ pc' \in {"pages", "match", "failed"}
      /\ (pc' = "failed" /\ read' = read) \/ read' = after
  BY DEF ReadPage
<1>2. GitHub' /\ Succeeds
  BY <1>0, SameGitHub
<1>3. CASE pc' = "failed" /\ read' = read
  <2>1. Memory'
    BY <1>0, <1>3 DEF Memory
  <2>. QED BY <1>0, <1>2, <1>3, <2>1, FailedStep
<1>4. CASE read' = after
  <2>1. /\ size \in Nat
        /\ \A i \in 1..size : first + i - 1 \in DOMAIN releases
    <3>0. Len(releases) \in Nat
      BY <1>0
    <3>1. read.page \in Nat \ {0} /\ PageSize \in Nat \ {0}
      BY <1>0, DraftAssumption DEF Memory
    <3>2. PICK a \in Nat : a = (read.page - 1) * PageSize
      BY <3>1
    <3>3. PICK b \in Nat : b = read.page * PageSize
      BY <3>1
    <3>4. upto \in {b, Len(releases)} /\ upto <= Len(releases)
      <4>1. \E x \in {b, Len(releases)} : \A y \in {b, Len(releases)} : x <= y
        BY <1>0, <3>3
      <4>. QED BY <3>3, <4>1 DEF Min
    <3>5. first = a + 1
      BY <3>2
    <3> HIDE DEF first, upto
    <3>6. first \in Nat /\ first >= 1
      BY <3>2, <3>5
    <3>7. upto \in Int
      BY <3>0, <3>3, <3>4
    <3>8. CASE first > upto
      <4>1. size = 0
        BY <3>8
      <4>. QED BY <4>1
    <3>9. CASE ~(first > upto)
      <4>1. size = upto - first + 1
        BY <3>9
      <4> HIDE DEF size
      <4>2. size \in Nat
        BY <3>6, <3>9, <3>7, <4>1
      <4>3. ASSUME NEW i \in 1..size
            PROVE  first + i - 1 \in 1..Len(releases)
        <5>1. upto <= Len(releases)
          BY <3>4
        <5>. QED BY <3>0, <3>6, <3>7, <4>1, <4>2, <5>1
      <4>. QED BY <1>0, <4>2, <4>3
    <3>. QED BY <3>8, <3>9
  <2> HIDE DEF first, upto, size
  <2>2. /\ rows \in Seq(RowType) /\ Len(rows) = size
        /\ \A i \in 1..size :
             /\ rows[i].id \in 1..made
             /\ rows[i].checked =>
                  \A j \in DOMAIN releases :
                    releases[j].id = rows[i].id => releases[j].creator = job
    BY <2>1, RowRead
  <2>3. /\ read.pass \in {1, 2} /\ known \in Seq(RowType) /\ Len(known) \in Nat
        /\ DOMAIN known = 1..Len(known)
    BY <1>0 DEF Memory
  <2>4. \A k \in DOMAIN known :
           /\ known[k].id \in 1..made
           /\ known[k].checked =>
                \A j \in DOMAIN releases :
                  releases[j].id = known[k].id => releases[j].creator = job
    BY <1>0, <2>3 DEF DraftInv, Rows
  <2> HIDE DEF rows, known
  <2>5. PICK all : all = known \o rows
    OBVIOUS
  <2>6. /\ all \in Seq(RowType) /\ Len(all) = Len(known) + size
        /\ \A i \in 1..Len(known) + size :
             all[i] = IF i <= Len(known) THEN known[i] ELSE rows[i - Len(known)]
    BY <2>2, <2>3, <2>5, ConcatProperties
  <2>7. ASSUME NEW k \in DOMAIN all
        PROVE  /\ all[k].id \in 1..made
               /\ all[k].checked =>
                    \A j \in DOMAIN releases :
                      releases[j].id = all[k].id => releases[j].creator = job
    <3>1. k \in 1..Len(known) + size
      BY <2>6
    <3>2. CASE k <= Len(known)
      <4>1. k \in 1..Len(known) /\ all[k] = known[k]
        BY <2>1, <2>3, <2>6, <3>1, <3>2
      <4>2. k \in DOMAIN known
        BY <2>3, <4>1
      <4>. QED BY <2>4, <4>1, <4>2
    <3>3. CASE ~(k <= Len(known))
      <4>1. k - Len(known) \in 1..size /\ all[k] = rows[k - Len(known)]
        BY <2>1, <2>3, <2>6, <3>1, <3>3
      <4>. QED BY <2>2, <4>1
    <3>. QED BY <3>2, <3>3
  <2>8. /\ read' = after /\ read'.rows = [read.rows EXCEPT ![read.pass] = all]
        /\ DOMAIN read.rows = {1, 2}
    <3>1. after.rows = [read.rows EXCEPT ![read.pass] = known \o rows]
      OBVIOUS
    <3>2. DOMAIN read.rows = {1, 2}
      BY <1>0 DEF Memory
    <3> HIDE DEF after
    <3>. QED BY <1>4, <2>5, <3>1, <3>2
  <2>9. \A p \in {1, 2} : read'.rows[p] = IF p = read.pass THEN all ELSE read.rows[p]
    BY <2>3, <2>8
  <2>10. Memory'
    <3>1. read'.pass \in {1, 2} /\ read'.page \in Nat \ {0}
      <4>1. read.page \in Nat \ {0}
        BY <1>0 DEF Memory
      <4>. QED BY <2>3, <2>8, <4>1
    <3>2. DOMAIN read'.rows = {1, 2} /\ \A p \in {1, 2} : read'.rows[p] \in Seq(RowType)
      BY <1>0, <2>6, <2>8, <2>9 DEF Memory
    <3>. QED BY <1>0, <3>1, <3>2 DEF Memory
  <2>11. Rows'
    <3>1. pc' \in Reading
      BY <1>1 DEF Reading
    <3>2. ASSUME NEW p \in {1, 2}, NEW k \in DOMAIN read'.rows[p]
          PROVE  /\ read'.rows[p][k].id \in 1..made
                 /\ read'.rows[p][k].checked =>
                      \A j \in DOMAIN releases :
                        releases[j].id = read'.rows[p][k].id => releases[j].creator = job
      <4>1. CASE p = read.pass
        BY <2>7, <2>9, <3>2, <4>1
      <4>2. CASE p # read.pass
        BY <1>0, <2>9, <3>2, <4>2 DEF DraftInv, Rows
      <4>. QED BY <4>1, <4>2
    <3>. QED BY <1>0, <3>1, <3>2 DEF Rows
  <2>12. Own'
    BY <1>0 DEF DraftInv, Own
  <2>13. Gate' /\ Staged'
    BY <1>0, <1>1 DEF DraftInv, Gate, Staged, Uploading, Publishing, Accepting, Taking
  <2>14. Checks' /\ Downloaded' /\ Generations'
    BY <1>1 DEF Checks, Downloaded, Generations, Publishing, Accepting, Taking
  <2>. QED BY <1>2, <2>10, <2>11, <2>12, <2>13, <2>14 DEF DraftInv
<1>. QED BY <1>1, <1>3, <1>4

LEMMA MatchStep ==
    ASSUME DraftInv, Match
    PROVE  DraftInv'
<1> DEFINE second == Matches(read.rows[2])
           r == CHOOSE x \in second : TRUE
<1>0. /\ GitHub /\ Memory /\ pc = "match" /\ pc' \in {"reread", "failed"}
      /\ read' = NoRead /\ made \in Nat
      /\ UNCHANGED <<releases, made, refs, acts, job, n, stage, listed, run, late>>
  BY DEF DraftInv, GitHub, Match, Goes, Fails, github
<1>1. \/ release' = release
      \/ /\ Cardinality(second) = 1 /\ \A x \in second : x.checked
         /\ release' = r.id
  BY DEF Match
<1>2. release' # release =>
         \E k \in DOMAIN read.rows[2] : /\ read.rows[2][k].checked
                                        /\ release' = read.rows[2][k].id
  <2>1. SUFFICES ASSUME release' # release
                 PROVE  \E k \in DOMAIN read.rows[2] : /\ read.rows[2][k].checked
                                                       /\ release' = read.rows[2][k].id
    OBVIOUS
  <2>2. Cardinality(second) # 0
    BY <1>1, <2>1
  <2>3. second # {}
    BY <2>2, FS_EmptySet
  <2>4. r \in second
    BY <2>3
  <2>5. r.checked /\ release' = r.id
    BY <1>1, <2>1, <2>4
  <2>. QED BY <2>4, <2>5 DEF Matches
<1>3. release' \in 0..made /\ Own'
  <2>1. CASE release' = release
    BY <1>0, <2>1 DEF DraftInv, Memory, Own
  <2>2. CASE release' # release
    <3>1. PICK k \in DOMAIN read.rows[2] : /\ read.rows[2][k].checked
                                          /\ release' = read.rows[2][k].id
      BY <1>2, <2>2
    <3>2. /\ read.rows[2][k].id \in 1..made
          /\ \A i \in DOMAIN releases :
               releases[i].id = read.rows[2][k].id => releases[i].creator = job
      BY <1>0, <3>1 DEF DraftInv, Rows
    <3>. QED BY <1>0, <3>1, <3>2 DEF Own
  <2>. QED BY <2>1, <2>2
<1>4. GitHub'
  BY <1>0, SameGitHub
<1>5. Memory'
  <2>1. /\ NoRead.pass \in {1, 2} /\ NoRead.page \in Nat \ {0} /\ DOMAIN NoRead.rows = {1, 2}
        /\ \A p \in {1, 2} : NoRead.rows[p] \in Seq(RowType)
    BY DEF NoRead
  <2>. QED BY <1>0, <1>3, <2>1 DEF Memory
<1>6. Rows'
  <2>1. \A p \in {1, 2} : DOMAIN NoRead.rows[p] = {}
    BY DEF NoRead
  <2>. QED BY <1>0, <2>1 DEF Rows
<1>7. Gate' /\ Staged'
  BY <1>0 DEF DraftInv, Gate, Staged, Uploading, Publishing, Accepting, Taking
<1>8. Checks' /\ Downloaded' /\ Generations'
  BY <1>0 DEF Checks, Downloaded, Generations, Publishing, Accepting, Taking
<1>. QED BY <1>3, <1>4, <1>5, <1>6, <1>7, <1>8 DEF DraftInv

-----------------------------------------------------------------------------
(* The run: its draft's assets, their verification and their publication.    *)

LEMMA UploadStep ==
    ASSUME DraftInv, Upload
    PROVE  DraftInv'
<1> DEFINE f == Files[n]
<1>0. /\ GitHub /\ Memory /\ pc = "upload" /\ pc' \in {"upload", "list", "failed"}
      /\ made \in Nat /\ acts \in Nat /\ n \in 1..Len(Files)
      /\ UNCHANGED <<made, refs, acts, job, stage, release, listed, read, run, late>>
  BY DEF DraftInv, GitHub, Memory, Upload, Goes, Fails, Lost
<1>1. \/ releases' = releases
      \/ Known(release) /\ \E state \in {"uploaded", "starter"} : Stored(f, state)
  BY DEF Upload, Lost
<1>2. \/ n' = n /\ pc' # "list"
      \/ n = Len(Files) /\ n' = 1
      \/ n # Len(Files) /\ n' = n + 1 /\ pc' # "list"
  BY DEF Upload, Goes, Lost, Fails
<1>3. n' \in 1..Len(Files) /\ (pc' = "list" => n' = 1)
  BY <1>0, <1>2, FileNames
<1>4. f \in Names /\ f # Extra
  BY <1>0, FileNames
<1> HIDE DEF f
<1>5. GitHub' /\ Succeeds
  <2>1. CASE releases' = releases
    BY <1>0, <2>1, SameGitHub
  <2>2. ASSUME Known(release), NEW state \in {"uploaded", "starter"}, Stored(f, state)
        PROVE  GitHub' /\ Succeeds
    <3>1. PICK i0 \in DOMAIN releases :
             releases[i0].id = release /\ Release(release) = releases[i0]
      BY <1>0, <2>2, TheRelease
    <3>2. PICK a : a = [gen |-> 0, bytes |-> stage[f], state |-> state]
      OBVIOUS
    <3>3. a \in Asset /\ a.gen = 0
      <4>1. stage[f] \in {"none", "built"}
        BY <1>0, <1>4 DEF Memory
      <4>. QED BY <3>2, <4>1 DEF Asset
    <3>4. /\ releases[i0] \in Entry
          /\ releases[i0].body \in {releases[i0].creator, "people"}
          /\ \A g \in Names : releases[i0].assets[g].gen <= acts
      BY <1>0 DEF GitHub
    <3>5. PICK r : r = releases[i0]
      OBVIOUS
    <3>6. PICK s : s = [r EXCEPT !.assets[f] = a]
      OBVIOUS
    <3>7. r \in Entry /\ r.assets \in Assets
      BY <3>4, <3>5 DEF Entry
    <3>8. /\ s \in Entry /\ s.id = r.id /\ s.creator = r.creator /\ s.body = r.body
          /\ s.assets = [r.assets EXCEPT ![f] = a]
      <4>1. [r.assets EXCEPT ![f] = a] \in Assets
        BY <3>3, <3>7 DEF Assets
      <4>2. s = [r EXCEPT !.assets = [r.assets EXCEPT ![f] = a]]
        BY <3>6
      <4>. QED BY <3>7, <4>1, <4>2 DEF Entry
    <3>9. \A g \in Names : s.assets[g].gen <= acts'
      <4>1. \A g \in Names : s.assets[g] = a \/ s.assets[g] = r.assets[g]
        BY <3>7, <3>8 DEF Assets
      <4>. QED BY <1>0, <3>3, <3>4, <3>5, <4>1
    <3>10. Becomes(r.id, s)
      BY <2>2, <3>1, <3>2, <3>5, <3>6 DEF Stored
    <3>11. /\ GitHub' /\ DOMAIN releases' = DOMAIN releases
           /\ \A i \in DOMAIN releases : releases'[i] = IF i = i0 THEN s ELSE releases[i]
      <4>1. /\ s \in Entry /\ s.id = releases[i0].id /\ s.creator = releases[i0].creator
            /\ s.body \in {s.creator, "people"} /\ Becomes(s.id, s)
        BY <3>4, <3>5, <3>8, <3>10
      <4>2. acts' \in Nat /\ acts' >= acts /\ made' = made /\ refs' = refs
        BY <1>0
      <4>. QED BY <1>0, <3>9, <4>1, <4>2, Altered
    <3>12. Succeeds
      <4>1. \A j \in DOMAIN releases : /\ releases'[j].id = releases[j].id
                                       /\ releases'[j].creator = releases[j].creator
        BY <3>5, <3>8, <3>11
      <4>. QED BY <1>0, <3>11, <4>1 DEF Succeeds
    <3>. QED BY <3>11, <3>12
  <2>. QED BY <1>1, <2>1, <2>2
<1>6. Memory'
  BY <1>0, <1>3 DEF Memory
<1>7. Rows' /\ Own'
  BY <1>0, <1>5, IdentityKept DEF Reading
<1>8. Gate' /\ Staged'
  BY <1>0, <1>3 DEF DraftInv, Gate, Staged, Uploading, Publishing, Accepting, Taking
<1>9. Checks' /\ Downloaded' /\ Generations'
  BY <1>0 DEF Checks, Downloaded, Generations, Publishing, Accepting, Taking
<1>. QED BY <1>5, <1>6, <1>7, <1>8, <1>9 DEF DraftInv

LEMMA ListStep ==
    ASSUME DraftInv, ListAssets
    PROVE  DraftInv'
<1>0. /\ GitHub /\ Memory /\ pc = "list" /\ n = 1 /\ made \in Nat /\ acts \in Nat
      /\ UNCHANGED <<releases, made, refs, acts, job, n, stage, release, read, run>>
  BY DEF DraftInv, GitHub, Memory, ListAssets, Goes, Fails, github, Staged
<1>1. GitHub' /\ Succeeds
  BY <1>0, SameGitHub
<1>2. CASE pc' = "failed" /\ listed' = listed
  <2>1. Memory'
    BY <1>0, <1>2 DEF Memory
  <2>. QED BY <1>0, <1>1, <1>2, <2>1, FailedStep
<1>3. ASSUME Known(release), Complete(Release(release).assets), pc' = "verify",
             listed' = [NoList EXCEPT !.id = release, !.assets = Release(release).assets]
      PROVE  DraftInv'
  <2>1. PICK i0 \in DOMAIN releases :
           /\ Release(release) = releases[i0] /\ releases[i0] \in Entry
           /\ \A i \in DOMAIN releases : releases[i].id = release => i = i0
    BY <1>0, <1>3, TheRelease
  <2>2. PICK assets : assets = releases[i0].assets
    OBVIOUS
  <2>3. assets \in Assets /\ \A f \in Names : assets[f].gen <= acts
    <3>1. releases[i0].assets \in Assets
      BY <2>1 DEF Entry
    <3>. QED BY <1>0, <2>2, <3>1 DEF GitHub
  <2>4. listed' = [id |-> release, stamp |-> 0, assets |-> assets]
    BY <1>3, <2>1, <2>2 DEF NoList
  <2>5. Memory'
    <3>1. release \in 0..made
      BY <1>0 DEF Memory
    <3>2. listed' \in [id : 0..made, stamp : Nat, assets : Assets]
      BY <2>3, <2>4, <3>1
    <3>3. \A f \in Names : listed'.assets[f].gen <= acts
      BY <2>3, <2>4
    <3>. QED BY <1>0, <3>2, <3>3 DEF Memory
  <2>6. Rows' /\ Own'
    BY <1>0, <1>1, <1>3, IdentityKept DEF Reading
  <2>7. Gate' /\ Staged'
    BY <1>0, <1>3 DEF DraftInv, Gate, Staged, Uploading, Publishing, Accepting, Taking
  <2>8. assets[Extra].bytes = "none"
    <3>1. assets[Extra] = NoAsset
      BY <1>3, <2>1, <2>2, FileNames DEF Complete
    <3>. QED BY <3>1 DEF NoAsset
  <2>9. Passed' = 0
    BY <1>0, <1>3 DEF Passed
  <2>10. Checks'
    BY <1>0, <1>3, <2>1, <2>2, <2>8, <2>9 DEF Checks
  <2>11. Downloaded' /\ Generations'
    BY <1>3 DEF Downloaded, Generations, Accepting, Taking
  <2>. QED BY <1>1, <2>5, <2>6, <2>7, <2>10, <2>11 DEF DraftInv
<1>. QED BY <1>2, <1>3 DEF ListAssets, Goes, Fails

LEMMA VerifyStep ==
    ASSUME DraftInv, VerifyUploadedAsset
    PROVE  DraftInv'
<1>0. /\ GitHub /\ Memory /\ pc = "verify" /\ n \in 1..Len(Files)
      /\ UNCHANGED <<releases, made, refs, acts, job, stage, release, listed, read, run>>
  BY DEF DraftInv, Memory, VerifyUploadedAsset, Goes, Fails, github
<1>1. GitHub' /\ Succeeds
  BY <1>0, SameGitHub
<1>2. CASE pc' = "failed" /\ n' = n
  <2>1. Memory'
    BY <1>0, <1>2 DEF Memory
  <2>. QED BY <1>0, <1>1, <1>2, <2>1, FailedStep
<1>3. ASSUME Verified(Files[n]), pc' = (IF n = Len(Files) THEN "ref" ELSE "verify"),
             n' = (IF n = Len(Files) THEN 1 ELSE n + 1), late' = late \ {Files[n]}
      PROVE  DraftInv'
  <2>0. Len(Files) \in Nat /\ Files[n] \in Names /\ Files[n] # Extra
    BY <1>0, FileNames
  <2>1. n' \in 1..Len(Files)
    BY <1>0, <1>3, <2>0
  <2>2. Memory'
    BY <1>0, <2>1 DEF Memory
  <2>3. Rows' /\ Own'
    BY <1>0, <1>1, <1>3, IdentityKept DEF Reading
  <2>4. Gate' /\ Staged'
    BY <1>0, <1>3 DEF DraftInv, Gate, Staged, Uploading, Publishing, Accepting, Taking
  <2>5. Passed = n - 1 /\ Passed' = n
    BY <1>0, <1>3, <2>0 DEF Passed, Taking
  <2>6. PICK i0 \in DOMAIN releases :
           /\ Release(release) = releases[i0]
           /\ \A i \in DOMAIN releases : releases[i].id = release => i = i0
    BY <1>0, <1>3, TheRelease DEF Verified, Downloads
  <2>7. releases[i0].assets[Files[n]].bytes = "built"
    <3>1. stage[Files[n]] = "built"
      BY <1>0, <2>0 DEF DraftInv, Staged, Publishing
    <3>. QED BY <1>3, <2>6, <3>1 DEF Verified
  <2>8. ASSUME releases[i0].id = release
        PROVE  /\ \A k \in 1..n : Files[k] \notin late' =>
                                     releases[i0].assets[Files[k]].bytes = "built"
               /\ Extra \notin late' => releases[i0].assets[Extra].bytes = "none"
    <3>1. /\ \A k \in 1..n - 1 : Files[k] \notin late =>
                                    releases[i0].assets[Files[k]].bytes = "built"
          /\ Extra \notin late => releases[i0].assets[Extra].bytes = "none"
      BY <1>0, <2>5, <2>8 DEF DraftInv, Checks, Publishing
    <3>2. ASSUME NEW k \in 1..n, Files[k] \notin late'
          PROVE  releases[i0].assets[Files[k]].bytes = "built"
      <4>1. CASE Files[k] = Files[n]
        BY <2>7, <4>1
      <4>2. CASE Files[k] # Files[n]
        <5>1. k \in 1..n - 1
          BY <1>0, <4>2
        <5>2. Files[k] \notin late
          BY <1>3, <3>2, <4>2
        <5>. QED BY <3>1, <5>1, <5>2
      <4>. QED BY <4>1, <4>2
    <3>. QED BY <1>3, <2>0, <3>1, <3>2
  <2>9. Checks'
    <3>1. pc' # "publish"
      BY <1>3
    <3>. QED BY <1>0, <2>5, <2>6, <2>8, <3>1 DEF Checks
  <2>10. Downloaded' /\ Generations'
    BY <1>3 DEF Downloaded, Generations, Accepting, Taking
  <2>. QED BY <1>1, <2>2, <2>3, <2>4, <2>9, <2>10 DEF DraftInv
<1>. QED BY <1>2, <1>3 DEF VerifyUploadedAsset, Goes, Fails

LEMMA TagStep ==
    ASSUME DraftInv, CheckTag
    PROVE  DraftInv'
<1>0. /\ GitHub /\ Memory /\ pc = "ref"
      /\ UNCHANGED <<releases, made, refs, acts, job, n, stage, release, listed, read, run>>
  BY DEF DraftInv, CheckTag, Goes, Fails, github, memory
<1>1. GitHub' /\ Succeeds
  BY <1>0, SameGitHub
<1>2. Memory'
  BY <1>0 DEF Memory
<1>3. CASE pc' = "failed"
  BY <1>0, <1>1, <1>2, <1>3, FailedStep
<1>4. ASSUME refs[job] = "source", pc' = "publish", late' = late \ {"tag"}
      PROVE  DraftInv'
  <2>1. Rows' /\ Own'
    BY <1>0, <1>1, <1>4, IdentityKept DEF Reading
  <2>2. Gate' /\ Staged'
    BY <1>0, <1>4 DEF DraftInv, Gate, Staged, Uploading, Publishing, Accepting, Taking
  <2>3. Passed = Len(Files) /\ Passed' = Len(Files)
    BY <1>0, <1>4 DEF Passed, Taking
  <2>4. Checks'
    <3>1. ASSUME NEW i \in DOMAIN releases, releases[i].id = release
          PROVE  /\ \A k \in 1..Len(Files) :
                      Files[k] \notin late' => releases[i].assets[Files[k]].bytes = "built"
                 /\ Extra \notin late' => releases[i].assets[Extra].bytes = "none"
      <4>1. /\ \A k \in 1..Len(Files) :
                 Files[k] \notin late => releases[i].assets[Files[k]].bytes = "built"
            /\ Extra \notin late => releases[i].assets[Extra].bytes = "none"
        BY <1>0, <2>3, <3>1 DEF DraftInv, Checks, Publishing
      <4>. QED BY <1>4, <4>1, FileNames
    <3>. QED BY <1>0, <1>4, <2>3, <3>1 DEF Checks
  <2>5. Downloaded' /\ Generations'
    BY <1>4 DEF Downloaded, Generations, Accepting, Taking
  <2>. QED BY <1>1, <1>2, <2>1, <2>2, <2>4, <2>5 DEF DraftInv
<1>. QED BY <1>3, <1>4 DEF CheckTag, Goes, Fails

LEMMA PublishStep ==
    ASSUME DraftInv, Publish
    PROVE  DraftInv'
<1>0. /\ GitHub /\ Memory /\ pc = "publish" /\ pc' \in {"done", "failed"}
      /\ acts \in Nat /\ made \in Nat
      /\ UNCHANGED <<made, refs, acts, job, n, stage, release, listed, read, run, late>>
  BY DEF DraftInv, GitHub, Publish, Goes, Fails, Lost, memory
<1>1. releases' = releases \/ (Known(release) /\ MadePublic)
  BY DEF Publish, Lost
<1>2. GitHub' /\ Succeeds
  <2>1. CASE releases' = releases
    BY <1>0, <2>1, SameGitHub
  <2>2. CASE Known(release) /\ MadePublic
    <3>1. PICK i0 \in DOMAIN releases :
             /\ releases[i0].id = release /\ Release(release) = releases[i0]
             /\ releases[i0] \in Entry
      BY <1>0, <2>2, TheRelease
    <3>2. PICK r : r = releases[i0]
      OBVIOUS
    <3>3. PICK s : s = [r EXCEPT !.draft = FALSE]
      OBVIOUS
    <3>4. /\ s \in Entry /\ s.id = r.id /\ s.creator = r.creator /\ s.body = r.body
          /\ s.assets = r.assets
      BY <3>1, <3>2, <3>3 DEF Entry
    <3>5. r.body \in {r.creator, "people"} /\ \A f \in Names : r.assets[f].gen <= acts
      BY <1>0, <3>2 DEF GitHub
    <3>6. Becomes(r.id, s)
      BY <2>2, <3>1, <3>2, <3>3 DEF MadePublic
    <3>7. /\ GitHub' /\ DOMAIN releases' = DOMAIN releases
          /\ \A i \in DOMAIN releases : releases'[i] = IF i = i0 THEN s ELSE releases[i]
      BY <1>0, <3>2, <3>4, <3>5, <3>6, Altered
    <3>8. Succeeds
      <4>1. \A j \in DOMAIN releases : /\ releases'[j].id = releases[j].id
                                       /\ releases'[j].creator = releases[j].creator
        BY <3>2, <3>4, <3>7
      <4>. QED BY <1>0, <3>7, <4>1 DEF Succeeds
    <3>. QED BY <3>7, <3>8
  <2>. QED BY <1>1, <2>1, <2>2
<1>3. Memory'
  BY <1>0 DEF Memory
<1>4. Rows' /\ Own'
  BY <1>0, <1>2, IdentityKept DEF Reading
<1>5. Gate' /\ Staged'
  BY <1>0 DEF DraftInv, Gate, Staged, Uploading, Publishing, Accepting, Taking
<1>6. Checks' /\ Downloaded' /\ Generations'
  BY <1>0 DEF Checks, Downloaded, Generations, Publishing, Accepting, Taking
<1>. QED BY <1>2, <1>3, <1>4, <1>5, <1>6 DEF DraftInv

-----------------------------------------------------------------------------
(* The promotion: the candidate, before its downloads and after them.        *)

LEMMA SnapshotReleaseStep ==
    ASSUME DraftInv, SnapshotRelease
    PROVE  DraftInv'
<1>0. /\ GitHub /\ Memory /\ pc \in {"snap", "resnap"}
      /\ UNCHANGED <<releases, made, refs, acts, job, n, stage, release, read, run, late>>
  BY DEF DraftInv, SnapshotRelease, Goes, Fails, github
<1>1. GitHub' /\ Succeeds
  BY <1>0, SameGitHub
<1>2. CASE listed' = listed /\ (pc' = "failed" \/ (pc = "resnap" /\ pc' = "resnapassets"))
  <2>1. \/ pc \in Accepting /\ pc' \in Accepting \union {"absent"}
        \/ pc' = "failed"
    BY <1>2 DEF Accepting
  <2>. QED BY <1>0, <1>1, <1>2, <2>1, MovesStep DEF memory
<1>3. ASSUME NEW r \in Public("rc"), pc = "snap", pc' = "snapassets",
             listed' = [listed EXCEPT !.id = r.id, !.stamp = r.stamp]
      PROVE  DraftInv'
  <2>1. PICK i0 \in DOMAIN releases : r = releases[i0] /\ ~releases[i0].draft
    BY DEF Public, ToSet
  <2>2. r \in Entry /\ r.id \in 1..made /\ made \in Nat
    BY <1>0, <2>1 DEF GitHub
  <2>3. listed \in [id : 0..made, stamp : Nat, assets : Assets]
    BY <1>0 DEF Memory
  <2>4. listed' = [id |-> r.id, stamp |-> r.stamp, assets |-> listed.assets]
    BY <1>3, <2>3
  <2>5. Memory'
    <3>1. r.id \in 0..made /\ r.stamp \in Nat /\ listed.assets \in Assets
      BY <2>2, <2>3 DEF Entry
    <3>2. listed' \in [id : 0..made, stamp : Nat, assets : Assets]
      BY <2>4, <3>1
    <3>3. \A f \in Names : listed'.assets[f].gen <= acts
      BY <1>0, <2>4 DEF Memory
    <3>. QED BY <1>0, <3>2, <3>3 DEF Memory
  <2>6. Rows' /\ Own'
    BY <1>0, <1>1, <1>3, IdentityKept DEF Reading
  <2>7. Gate' /\ Staged'
    BY <1>0, <1>3 DEF DraftInv, Gate, Staged, Uploading, Publishing, Accepting, Taking
  <2>8. Downloaded'
    <3>1. \A i \in DOMAIN releases : releases[i].id = r.id => i = i0
      BY <1>0, <2>1 DEF GitHub
    <3>. QED BY <1>0, <1>3, <2>1, <2>4, <3>1 DEF Downloaded, Accepting, Taking
  <2>9. Checks' /\ Generations'
    BY <1>3 DEF Checks, Generations, Publishing, Taking
  <2>. QED BY <1>1, <2>5, <2>6, <2>7, <2>8, <2>9 DEF DraftInv
<1>4. \/ listed' = listed /\ (pc' = "failed" \/ (pc = "resnap" /\ pc' = "resnapassets"))
      \/ \E r \in Public("rc") : /\ pc = "snap" /\ pc' = "snapassets"
                                 /\ listed' = [listed EXCEPT !.id = r.id, !.stamp = r.stamp]
  BY DEF SnapshotRelease, Goes, Fails
<1>. QED BY <1>2, <1>3, <1>4

LEMMA SnapshotAssetsStep ==
    ASSUME DraftInv, SnapshotAssets
    PROVE  DraftInv'
<1> DEFINE assets == Release(listed.id).assets
<1>0. /\ GitHub /\ Memory /\ pc \in {"snapassets", "resnapassets"}
      /\ UNCHANGED <<releases, made, refs, acts, job, n, stage, release, read, run, late>>
  BY DEF DraftInv, SnapshotAssets, Goes, Fails, github
<1>1. GitHub' /\ Succeeds
  BY <1>0, SameGitHub
<1>2. CASE listed' = listed /\ (pc' = "failed" \/ (pc = "resnapassets" /\ pc' = "absent"))
  <2>1. \/ pc \in Accepting /\ pc' \in Accepting \union {"absent"}
        \/ pc' = "failed"
    BY <1>2 DEF Accepting
  <2>. QED BY <1>0, <1>1, <1>2, <2>1, MovesStep DEF memory
<1>3. CASE /\ Known(listed.id) /\ Complete(assets) /\ pc = "snapassets" /\ pc' = "download"
           /\ listed' = [listed EXCEPT !.assets = assets]
  <2>1. PICK i0 \in DOMAIN releases :
           /\ Release(listed.id) = releases[i0] /\ releases[i0] \in Entry
           /\ releases[i0].id = listed.id
           /\ \A i \in DOMAIN releases : releases[i].id = listed.id => i = i0
    BY <1>0, <1>3, TheRelease
  <2>2. assets = releases[i0].assets
    BY <2>1
  <2>3. n = 1
    BY <1>3 DEF DraftInv, Staged
  <2>4. assets[Extra] = NoAsset
    BY <1>3, FileNames DEF Complete
  <2> HIDE DEF assets
  <2>5. assets \in Assets /\ \A f \in Names : assets[f].gen <= acts
    <3>1. releases[i0].assets \in Assets
      BY <2>1 DEF Entry
    <3>. QED BY <1>0, <2>2, <3>1 DEF GitHub
  <2>6. listed \in [id : 0..made, stamp : Nat, assets : Assets]
    BY <1>0 DEF Memory
  <2>7. listed' = [id |-> listed.id, stamp |-> listed.stamp, assets |-> assets]
    BY <1>3, <2>6
  <2>8. Memory'
    <3>1. listed' \in [id : 0..made, stamp : Nat, assets : Assets]
      BY <2>5, <2>6, <2>7
    <3>2. \A f \in Names : listed'.assets[f].gen <= acts
      BY <2>5, <2>7
    <3>. QED BY <1>0, <3>1, <3>2 DEF Memory
  <2>9. Rows' /\ Own'
    BY <1>0, <1>1, <1>3, IdentityKept DEF Reading
  <2>10. Passed' = 0
    BY <1>0, <1>3, <2>3 DEF Passed, Taking
  <2>11. Gate' /\ Staged'
    BY <1>0, <1>3, <2>10 DEF DraftInv, Gate, Staged, Uploading, Publishing, Accepting, Taking
  <2>12. Downloaded'
    <3>1. \A i \in DOMAIN releases : releases[i].id = listed.id => ~releases[i].draft
      BY <1>3 DEF DraftInv, Downloaded
    <3>. QED BY <1>0, <2>4, <2>7, <2>10, <3>1 DEF Downloaded
  <2>13. Generations'
    BY <1>0, <2>1, <2>2, <2>7 DEF Generations
  <2>14. Checks'
    BY <1>3 DEF Checks, Publishing
  <2>. QED BY <1>1, <2>8, <2>9, <2>11, <2>12, <2>13, <2>14 DEF DraftInv
<1>4. \/ listed' = listed /\ (pc' = "failed" \/ (pc = "resnapassets" /\ pc' = "absent"))
      \/ /\ Known(listed.id) /\ Complete(assets) /\ pc = "snapassets" /\ pc' = "download"
         /\ listed' = [listed EXCEPT !.assets = assets]
  BY DEF SnapshotAssets, Goes, Fails
<1>. QED BY <1>2, <1>3, <1>4

LEMMA DownloadStep ==
    ASSUME DraftInv, Download
    PROVE  DraftInv'
<1> DEFINE f == Files[n]
<1>0. /\ GitHub /\ Memory /\ pc = "download" /\ n \in 1..Len(Files)
      /\ UNCHANGED <<releases, made, refs, acts, job, release, listed, read, run, late>>
  BY DEF DraftInv, Memory, Download, Goes, Fails, github
<1>1. GitHub' /\ Succeeds
  BY <1>0, SameGitHub
<1>2. CASE pc' = "failed" /\ n' = n /\ stage' = stage
  <2>1. Memory'
    BY <1>0, <1>2 DEF Memory
  <2>. QED BY <1>0, <1>1, <1>2, <2>1, FailedStep
<1>3. ASSUME Downloads(listed.id, f, listed.assets[f].gen), Genuine(f),
             \/ n = Len(Files) /\ pc' = "resnapref" /\ n' = 1
             \/ n # Len(Files) /\ pc' \in Taking /\ n' = n + 1,
             stage' = [stage EXCEPT ![f] = Release(listed.id).assets[f].bytes]
      PROVE  DraftInv'
  <2>0. Len(Files) \in Nat /\ f \in Names /\ f # Extra /\ stage \in [Names -> {"none", "built"}]
    BY <1>0, FileNames DEF Memory
  <2>1. n' \in 1..Len(Files)
    BY <1>0, <1>3, <2>0
  <2>2. Passed = n - 1 /\ Passed' = n
    BY <1>0, <1>3, <2>0 DEF Passed, Taking
  <2>3. stage' = [stage EXCEPT ![f] = "built"]
    BY <1>3 DEF Genuine
  <2>4. listed.assets[f].bytes = "built"
    <3>1. PICK i0 \in DOMAIN releases :
             releases[i0].id = listed.id /\ Release(listed.id) = releases[i0]
      BY <1>0, <1>3, TheRelease DEF Downloads
    <3>2. releases[i0].assets[f] = listed.assets[f]
      BY <1>0, <1>3, <2>0, <3>1 DEF DraftInv, Generations, Taking, Downloads
    <3>. QED BY <1>3, <3>1, <3>2 DEF Genuine
  <2>5. \A k \in 1..n : stage'[Files[k]] = "built" /\ listed.assets[Files[k]].bytes = "built"
    <3>1. \A k \in 1..n - 1 : stage[Files[k]] = "built" /\ listed.assets[Files[k]].bytes = "built"
      BY <1>0, <2>2 DEF DraftInv, Staged, Downloaded, Taking
    <3>2. \A k \in 1..n : Files[k] \in Names
      BY <1>0, <2>0, FileNames
    <3>3. ASSUME NEW k \in 1..n
          PROVE  stage'[Files[k]] = "built" /\ listed.assets[Files[k]].bytes = "built"
      <4>1. CASE Files[k] = f
        BY <2>0, <2>3, <2>4, <4>1
      <4>2. CASE Files[k] # f
        <5>1. k # n
          BY <4>2
        <5>2. k \in 1..n - 1
          BY <1>0, <5>1
        <5>. QED BY <2>0, <2>3, <3>1, <3>2, <4>2, <5>2
      <4>. QED BY <4>1, <4>2
    <3>. QED BY <3>3
  <2>6. stage'[Extra] = "none"
    BY <2>0, <2>3 DEF DraftInv, Staged
  <2> HIDE DEF f
  <2>7. Memory'
    BY <1>0, <2>0, <2>1, <2>3 DEF Memory
  <2>8. pc' \in Taking \union {"resnapref"}
    BY <1>3
  <2>9. Rows' /\ Own'
    BY <1>0, <1>1, <2>8, IdentityKept DEF Reading, Taking
  <2>10. Gate'
    BY <1>0 DEF DraftInv, Gate
  <2>11. Staged'
    <3>1. CASE pc' \in Taking
      BY <2>2, <2>5, <2>6, <3>1 DEF Staged, Uploading, Publishing, Accepting, Taking
    <3>2. CASE pc' = "resnapref" /\ n = Len(Files)
      <4>1. \A g \in Names : stage'[g] = IF g = Extra THEN "none" ELSE "built"
        BY <2>5, <2>6, <3>2, FileNames
      <4>. QED BY <2>6, <3>2, <4>1 DEF Staged, Taking
    <3>. QED BY <1>3, <3>1, <3>2
  <2>12. Checks'
    BY <2>8 DEF Checks, Publishing, Taking
  <2>13. Downloaded'
    <3>1. listed.assets[Extra] = NoAsset
      BY <1>0 DEF DraftInv, Downloaded, Taking
    <3>2. \A i \in DOMAIN releases : releases[i].id = listed.id => ~releases[i].draft
      BY <1>0 DEF DraftInv, Downloaded, Taking
    <3>. QED BY <1>0, <2>2, <2>5, <3>1, <3>2 DEF Downloaded
  <2>14. Generations'
    BY <1>0 DEF DraftInv, Generations, Taking
  <2>. QED BY <1>1, <2>7, <2>9, <2>10, <2>11, <2>12, <2>13, <2>14 DEF DraftInv
<1>4. \/ pc' = "failed" /\ n' = n /\ stage' = stage
      \/ /\ Downloads(listed.id, f, listed.assets[f].gen) /\ Genuine(f)
         /\ pc' = CASE n = Len(Files) -> "resnapref"
                    [] n = 1 -> "unused"
                    [] OTHER -> "download"
         /\ n' = IF n = Len(Files) THEN 1 ELSE n + 1
         /\ stage' = [stage EXCEPT ![f] = Release(listed.id).assets[f].bytes]
  BY Zenon DEF Download, Goes, Fails
<1>5. \/ pc' = "failed" /\ n' = n /\ stage' = stage
      \/ /\ Downloads(listed.id, f, listed.assets[f].gen) /\ Genuine(f)
         /\ \/ n = Len(Files) /\ pc' = "resnapref" /\ n' = 1
            \/ n # Len(Files) /\ pc' \in Taking /\ n' = n + 1
         /\ stage' = [stage EXCEPT ![f] = Release(listed.id).assets[f].bytes]
  <2> HIDE DEF f
  <2>. QED BY <1>0, <1>4, FileNames DEF Taking
<1>. QED BY <1>2, <1>3, <1>5

-----------------------------------------------------------------------------
(* The invariant and what follows from it.                                   *)

LEMMA InitInv == Init => DraftInv
<1> SUFFICES ASSUME Init PROVE DraftInv
  OBVIOUS
<1> DEFINE older == [id |-> 1, tag |-> "older", creator |-> "older", body |-> "older",
                     draft |-> FALSE, stamp |-> 0, assets |-> Empty]
<1>0. /\ releases = <<older>> /\ made = 1 /\ refs = [j \in Jobs |-> "none"]
      /\ job = "rc" /\ pc = "wait" /\ n = 1 /\ stage = [f \in Names |-> "none"]
      /\ release = 0 /\ listed = NoList /\ read = NoRead /\ acts = 0 /\ run = Queued
  BY DEF Init
<1>1. Empty \in Assets /\ \A f \in Names : Empty[f].gen = 0
  BY DEF Empty, NoAsset, Assets, Asset
<1>2. older \in Entry
  BY <1>1 DEF Entry, Authors, Jobs
<1>3. older.id = 1 /\ older.body = older.creator /\ older.assets = Empty
  OBVIOUS
<1> HIDE DEF older
<1>4. releases \in Seq(Entry) /\ DOMAIN releases = {1} /\ releases[1] = older
  BY <1>0, <1>2
<1>5. GitHub
  <2>1. refs \in [Jobs -> {"none", "source", "moved"}]
    BY <1>0
  <2>2. 1 \in 1..made /\ made \in Nat \ {0} /\ acts \in Nat /\ acts = 0
    BY <1>0
  <2>. QED BY <1>1, <1>3, <1>4, <2>1, <2>2 DEF GitHub
<1>6. Memory
  <2>1. listed \in [id : 0..made, stamp : Nat, assets : Assets]
    BY <1>0, <1>1 DEF NoList
  <2>2. \A f \in Names : listed.assets[f].gen <= acts
    BY <1>0, <1>1 DEF NoList
  <2>3. /\ NoRead.pass \in {1, 2} /\ NoRead.page \in Nat \ {0} /\ DOMAIN NoRead.rows = {1, 2}
        /\ \A p \in {1, 2} : NoRead.rows[p] \in Seq(RowType)
    BY DEF NoRead
  <2>4. run \in RunType
    BY <1>0 DEF Queued, RunType
  <2>5. n \in 1..Len(Files) /\ release \in 0..made /\ stage \in [Names -> {"none", "built"}]
    BY <1>0, FileNames
  <2>. QED BY <1>0, <2>1, <2>2, <2>3, <2>4, <2>5 DEF Memory, Jobs
<1>7. Rows
  <2>1. \A p \in {1, 2} : DOMAIN NoRead.rows[p] = {}
    BY DEF NoRead
  <2>. QED BY <1>0, <2>1 DEF Rows
<1>8. Staged
  BY <1>0, FileNames DEF Staged, Uploading, Publishing, Accepting, Taking
<1>9. Own /\ Gate /\ Checks /\ Downloaded /\ Generations
  BY <1>0 DEF Own, Gate, Checks, Downloaded, Generations, Publishing, Accepting, Taking
<1>. QED BY <1>5, <1>6, <1>7, <1>8, <1>9 DEF DraftInv

LEMMA InvStep == DraftInv /\ [Next]_vars => DraftInv'
<1> SUFFICES ASSUME DraftInv, [Next]_vars PROVE DraftInv'
  OBVIOUS
<1>1. CASE UNCHANGED vars
  <2>1. GitHub' /\ Memory' /\ Own' /\ Rows'
    BY <1>1 DEF vars, github, memory, DraftInv, GitHub, Memory, Own, Rows
  <2>2. Passed' = Passed
    BY <1>1 DEF vars, memory, Passed
  <2>3. Gate' /\ Staged' /\ Checks' /\ Downloaded' /\ Generations'
    BY <1>1, <2>2 DEF vars, github, memory, DraftInv, Gate, Staged, Checks, Downloaded, Generations
  <2>. QED BY <2>1, <2>3 DEF DraftInv
<1>2. CASE WaitForExecutingRun \/ Report \/ CheckAbsent \/ CreateTag \/ Reread
             \/ SnapshotRef \/ GiveUp
  BY <1>2, WaitSteps
<1>3. CASE StageAssets \/ Promote
  BY <1>3, StagingSteps
<1>4. CASE CreateDraft \/ ReadPage \/ Match
  BY <1>4, CreateStep, ReadStep, MatchStep
<1>5. CASE Upload \/ ListAssets \/ VerifyUploadedAsset \/ CheckTag \/ Publish
  BY <1>5, UploadStep, ListStep, VerifyStep, TagStep, PublishStep
<1>6. CASE SnapshotRelease \/ SnapshotAssets \/ Download
  BY <1>6, SnapshotReleaseStep, SnapshotAssetsStep, DownloadStep
<1>7. CASE \/ \E r \in ToSet(releases) :
                \/ EditRelease(r) \/ PublishByHand(r) \/ DeleteRelease(r)
                \/ \E f \in Names : ChangeAsset(r, f)
           \/ \E j \in Jobs : CreateByHand(j) \/ MoveTag(j)
  BY <1>7, PeopleKeepInv
<1>. QED BY <1>1, <1>2, <1>3, <1>4, <1>5, <1>6, <1>7 DEF Next

\* Whatever GitHub answers and people do, the strengthened invariant holds.
THEOREM DraftInvariant == Spec => []DraftInv
BY InitInv, InvStep, PTL DEF Spec

\* A run uploads to and publishes only the draft of its own create call,
\* however many releases of its tag people create while it reads the pages.
THEOREM OwnDraft == Spec => []OwnDraftOnly
<1>1. DraftInv => OwnDraftOnly
  <2> SUFFICES ASSUME DraftInv, release # 0, Known(release)
               PROVE  Release(release).creator = job
    BY DEF OwnDraftOnly
  <2>1. PICK i \in DOMAIN releases :
           releases[i].id = release /\ Release(release) = releases[i]
    BY TheRelease DEF DraftInv
  <2>. QED BY <2>1 DEF DraftInv, Own
<1>. QED BY <1>1, DraftInvariant, PTL

\* What a run makes public was built by it, under a tag at the source and
\* behind its gate, but for what people changed after it was verified.
THEOREM AsBuilt == Spec => PublishedAsBuilt
<1> DEFINE Passable == pc = "publish" /\ Known(release) =>
              /\ job = "rc" => run.gate = "success"
              /\ refs[job] = "source" \/ "tag" \in late
              /\ \A f \in Names \ late :
                   Release(release).assets[f].bytes = IF f = Extra THEN "none" ELSE "built"
<1>1. DraftInv => Passable
  <2> SUFFICES ASSUME DraftInv, pc = "publish", Known(release) PROVE Passable
    OBVIOUS
  <2>1. PICK i \in DOMAIN releases :
           releases[i].id = release /\ Release(release) = releases[i]
    BY TheRelease DEF DraftInv
  <2>2. /\ \A k \in 1..Len(Files) :
             Files[k] \notin late => releases[i].assets[Files[k]].bytes = "built"
        /\ Extra \notin late => releases[i].assets[Extra].bytes = "none"
        /\ refs[job] = "source" \/ "tag" \in late
    <3>1. Passed = Len(Files)
      BY DEF Passed, Taking
    <3>. QED BY <2>1, <3>1 DEF DraftInv, Checks, Publishing
  <2>3. ASSUME NEW f \in Names \ late
        PROVE  Release(release).assets[f].bytes = IF f = Extra THEN "none" ELSE "built"
    BY <2>1, <2>2, FileNames
  <2>. QED BY <2>2, <2>3 DEF DraftInv, Gate
<1>2. Passable => [pc = "publish" /\ Known(release) /\ Release(release).draft
                  /\ releases' # releases /\ acts' = acts =>
                  /\ job = "rc" => run.gate = "success"
                  /\ refs[job] = "source" \/ "tag" \in late
                  /\ \A f \in Names \ late :
                       Release(release).assets[f].bytes =
                         IF f = Extra THEN "none" ELSE "built"]_vars
  OBVIOUS
<1> HIDE DEF Passable
<1>. QED BY <1>1, <1>2, DraftInvariant, PTL DEF PublishedAsBuilt

\* A promotion accepts a candidate only while one public release has every
\* file that it downloaded, whatever people did between the downloads.
THEOREM Frozen == Spec => CandidateFrozen
<1>1. DraftInv /\ [Next]_vars =>
        [pc = "resnapassets" /\ pc' = "absent" =>
           /\ ~Release(listed.id).draft
           /\ \A f \in Names : Release(listed.id).assets[f].bytes = stage[f]]_vars
  <2> SUFFICES ASSUME DraftInv, Next, pc = "resnapassets", pc' = "absent"
               PROVE  /\ ~Release(listed.id).draft
                      /\ \A f \in Names : Release(listed.id).assets[f].bytes = stage[f]
    BY DEF vars
  <2>1. SnapshotAssets
    <3>1. ~(\/ WaitForExecutingRun \/ Report \/ StageAssets \/ CheckAbsent \/ CreateTag
            \/ CreateDraft \/ ReadPage \/ Match \/ Reread)
      BY DEF WaitForExecutingRun, Report, StageAssets, CheckAbsent, CreateTag, CreateDraft,
             ReadPage, Match, Reread, Goes, Fails, Lost
    <3>2. ~(\/ Upload \/ ListAssets \/ VerifyUploadedAsset \/ CheckTag \/ Publish
            \/ Promote \/ SnapshotRef \/ SnapshotRelease \/ Download \/ GiveUp)
      BY DEF Upload, ListAssets, VerifyUploadedAsset, CheckTag, Publish, Promote, SnapshotRef,
             SnapshotRelease, Download, GiveUp, Goes, Fails, Lost
    <3>3. ~(\E r \in ToSet(releases) :
              \/ EditRelease(r) \/ PublishByHand(r) \/ DeleteRelease(r)
              \/ \E f \in Names : ChangeAsset(r, f))
      BY DEF EditRelease, PublishByHand, DeleteRelease, ChangeAsset, Acts
    <3>4. ~(\E j \in Jobs : CreateByHand(j) \/ MoveTag(j))
      BY DEF CreateByHand, MoveTag, Acts
    <3>. QED BY <3>1, <3>2, <3>3, <3>4 DEF Next
  <2>2. Known(listed.id) /\ Release(listed.id).assets = listed.assets
    BY <2>1 DEF SnapshotAssets, SameAssets, Goes, Fails
  <2>3. PICK i \in DOMAIN releases :
           releases[i].id = listed.id /\ Release(listed.id) = releases[i]
    BY <2>2, TheRelease DEF DraftInv
  <2>4. /\ ~releases[i].draft /\ listed.assets[Extra] = NoAsset
        /\ \A k \in 1..Len(Files) : listed.assets[Files[k]].bytes = "built"
    <3>1. Passed = Len(Files)
      BY DEF Passed, Taking
    <3>. QED BY <2>3, <3>1 DEF DraftInv, Downloaded, Accepting
  <2>5. \A f \in Names : stage[f] = IF f = Extra THEN "none" ELSE "built"
    BY DEF DraftInv, Staged, Accepting
  <2>6. ASSUME NEW f \in Names
        PROVE  listed.assets[f].bytes = stage[f]
    <3>1. CASE f = Extra
      BY <2>4, <2>5, <3>1 DEF NoAsset
    <3>2. CASE f # Extra
      BY <2>4, <2>5, <3>2, FileNames
    <3>. QED BY <3>1, <3>2
  <2>. QED BY <2>2, <2>3, <2>4, <2>6
<1>. QED BY <1>1, DraftInvariant, PTL DEF Spec, CandidateFrozen

-----------------------------------------------------------------------------
(* The archives of a release                                               *)

Steps == {"start", "open", "assemble", "written", "verify", "link", "linkside", "done", "failed", "killed"}

\* Whose the files at the two names are, and how far the run is.
Places ==
    /\ mode \in {"merge", "detach"} /\ step \in Steps
    /\ output.by \in {"nobody", "others", "us"} /\ (output.by = "nobody" => output = Nothing)
    /\ sidecar.by \in {"nobody", "others", "us"} /\ (sidecar.by = "nobody" => sidecar = Nothing)
    /\ output.by = "us" => step \in {"linkside", "done", "killed"}
    /\ sidecar.by = "us" => step = "done"
    /\ step = "done" /\ mode = "detach" => sidecar.by = "us"

\* The blobs of the archives as they were checked, and what is assembled of
\* them.
BlobsSeen == LET first == CHOOSE p \in Platforms : TRUE
                 second == CHOOSE p \in Platforms \ {first} : TRUE
             IN Both(seen[second].blobs, seen[first].blobs)
Assembled == IF mode = "merge" THEN [image |-> Merged(AllLeaves, BlobsSeen)]
             ELSE [image |-> Runtime(seen, BlobsSeen), side |-> Sidecar(seen, BlobsSeen)]

\* An input nobody has written to since it was checked is what was checked.
Unopened == {"start", "open", "failed", "killed"}
AsSeen ==
    /\ disk = [p \in Platforms |-> [archive |-> disk[p].archive, touched |-> disk[p].touched]]
    /\ seen = [p \in Platforms |-> seen[p]]
    /\ \A p \in Platforms : seen[p] # Nothing \/ step \notin Unopened =>
         /\ Native(seen[p], p, Version)
         /\ ~disk[p].touched => disk[p].archive = seen[p]

\* So was what is assembled, once the inputs have been looked at again.
Built ==
    /\ step = "written" /\ (\A p \in Platforms : ~disk[p].touched) => temp = Assembled
    /\ step \in {"verify", "link", "linkside", "done"} => temp = Assembled
    /\ mode = "detach" /\ step \in {"link", "linkside", "done"} => PairSound(temp.image, temp.side, Version)
    /\ output.by = "us" =>
         /\ temp = Assembled /\ output.data = temp.image
         /\ mode = "detach" => PairSound(temp.image, temp.side, Version)
         /\ \A p \in Platforms : Native(seen[p], p, Version)
    /\ sidecar.by = "us" => temp = Assembled /\ sidecar.data = temp.side

AssemblyInv == Places /\ AsSeen /\ Built

TwoPlatforms == \E a, b : a # b /\ Platforms = {a, b}

\* While nobody has written to them, the files hold what was checked.
LEMMA BlobsUntouched ==
    ASSUME TwoPlatforms, \A p \in Platforms : disk[p].archive = seen[p]
    PROVE  BlobsNow = BlobsSeen
<1> DEFINE first == CHOOSE p \in Platforms : TRUE
           second == CHOOSE p \in Platforms \ {first} : TRUE
<1>1. first \in Platforms /\ second \in Platforms
  BY DEF TwoPlatforms
<1> QED
  BY <1>1 DEF BlobsNow, BlobsSeen

LEMMA PlacesInit == AssemblyInit => Places
BY DEF AssemblyInit, Places, Steps, Nothing, Others

LEMMA AssemblyStart == AssemblyInit => AssemblyInv
<1> SUFFICES ASSUME AssemblyInit PROVE AssemblyInv
  OBVIOUS
<1>1. Places
  BY PlacesInit
<1>2. AsSeen
  BY DEF AssemblyInit, AsSeen, Unopened
<1>3. Built
  BY DEF AssemblyInit, Built, Nothing, Others
<1> QED
  BY <1>1, <1>2, <1>3 DEF AssemblyInv

LEMMA PlacesStep == Places /\ [AssemblyNext]_assemblyVars => Places'
<1> SUFFICES ASSUME Places, [AssemblyNext]_assemblyVars PROVE Places'
  OBVIOUS
<1> USE DEF Places, Steps
<1>1. CASE Begin
  BY <1>1 DEF Begin, Advances, Stops
<1>2. CASE \E p \in Platforms : Open(p)
  BY <1>2 DEF Open, Advances, Stops
<1>3. CASE Assemble
  BY <1>3 DEF Assemble, Advances, Stops
<1>4. CASE CheckInputs
  BY <1>4 DEF CheckInputs, Advances, Stops
<1>5. CASE VerifyPair
  BY <1>5 DEF VerifyPair, Advances, Stops
<1>6. CASE LinkOutput
  BY <1>6 DEF LinkOutput, Advances, Stops, Ours, Nothing
<1>7. CASE LinkSidecar
  BY <1>7 DEF LinkSidecar, Advances, Stops, Ours, Nothing, TakeBack
<1>8. CASE Kill
  BY <1>8 DEF Kill
<1>9. CASE Create
  BY <1>9 DEF Create, Others
<1>10. CASE \E p \in Platforms : Touch(p)
  BY <1>10 DEF Touch
<1>11. CASE UNCHANGED assemblyVars
  BY <1>11 DEF assemblyVars
<1> QED
  BY <1>1, <1>2, <1>3, <1>4, <1>5, <1>6, <1>7, <1>8, <1>9, <1>10, <1>11 DEF AssemblyNext

\* What is assembled depends on what was checked alone.
LEMMA AssembledKept ==
    ASSUME UNCHANGED <<mode, seen>>
    PROVE  /\ Assembled' = Assembled
           /\ \A p \in Platforms : Native(seen[p], p, Version)' <=> Native(seen[p], p, Version)
<1>1. AllLeaves' = AllLeaves /\ BlobsSeen' = BlobsSeen
  BY DEF AllLeaves, BlobsSeen
<1>2. Assembled' = Assembled
  BY <1>1 DEF Assembled
<1> QED
  BY <1>2

\* An input is read when it is opened; one that is written to is marked.
LEMMA AsSeenStep ==
    ASSUME AssemblyInv, [AssemblyNext]_assemblyVars
    PROVE  AsSeen'
<1> USE DEF AssemblyInv, AsSeen, Unopened
<1>1. CASE \E p \in Platforms : Open(p)
  <2>1. PICK p \in Platforms : Open(p)
    BY <1>1
  <2>2. UNCHANGED <<mode, disk>> /\ step = "open"
    BY <2>1 DEF Open, Advances, Stops
  <2>3. CASE Stops("open") /\ seen' = seen
    BY <2>2, <2>3 DEF Stops
  <2>4. CASE ~(Stops("open") /\ seen' = seen)
    <3>1. /\ Native(disk[p].archive, p, Version)
          /\ step' = IF \A q \in Platforms \ {p} : seen[q] # Nothing THEN "assemble" ELSE "open"
          /\ seen' = [seen EXCEPT ![p] = disk[p].archive]
      BY <2>1, <2>4 DEF Open, Advances
    <3>2. seen' = [q \in Platforms |-> seen'[q]] /\ seen'[p] = disk[p].archive
          /\ \A q \in Platforms \ {p} : seen'[q] = seen[q]
      BY <3>1
    <3>3. ASSUME NEW q \in Platforms, seen'[q] # Nothing \/ step' \notin Unopened
          PROVE  Native(seen'[q], q, Version) /\ (~disk'[q].touched => disk'[q].archive = seen'[q])
      <4>1. CASE q = p
        BY <2>2, <3>1, <3>2, <4>1
      <4>2. CASE q # p
        <5>1. seen[q] # Nothing /\ seen'[q] = seen[q]
          BY <3>1, <3>2, <3>3, <4>2
        <5> QED
          BY <2>2, <5>1
      <4> QED
        BY <4>1, <4>2
    <3> QED
      BY <2>2, <3>2, <3>3
  <2> QED
    BY <2>3, <2>4
<1>2. CASE \E p \in Platforms : Touch(p)
  <2>1. PICK p \in Platforms : \E d :
          /\ disk' = [disk EXCEPT ![p] = [archive |-> [@.archive EXCEPT !.blobs[d] = Corrupt],
                                          touched |-> TRUE]]
          /\ UNCHANGED <<mode, step, seen>>
    BY <1>2 DEF Touch
  <2>2. disk'[p].touched /\ \A q \in Platforms \ {p} : disk'[q] = disk[q]
    BY <2>1
  <2>3. disk' = [q \in Platforms |-> [archive |-> disk'[q].archive, touched |-> disk'[q].touched]]
    BY <2>1
  <2> QED
    BY <2>1, <2>2, <2>3
<1>3. CASE UNCHANGED <<mode, disk, seen>> /\ (step' \in Unopened \/ step \notin Unopened)
  BY <1>3
<1>4. \/ Begin \/ Assemble \/ CheckInputs \/ VerifyPair \/ LinkOutput \/ LinkSidecar
      \/ Kill \/ Create \/ UNCHANGED assemblyVars
      => UNCHANGED <<mode, disk, seen>> /\ (step' \in Unopened \/ step \notin Unopened)
  BY DEF Begin, Assemble, CheckInputs, VerifyPair, LinkOutput, LinkSidecar,
         Kill, Create, assemblyVars, Advances, Stops
<1> QED
  BY <1>1, <1>2, <1>3, <1>4 DEF AssemblyNext

\* Between the checks nothing but the run sets what is assembled, and an
\* input is looked at after it was read.
LEMMA BuiltStep ==
    ASSUME TwoPlatforms, AssemblyInv, [AssemblyNext]_assemblyVars
    PROVE  Built'
<1>0. /\ Places /\ AsSeen /\ Built /\ mode \in {"merge", "detach"}
      /\ output.by = "us" => step \in {"linkside", "done", "killed"}
      /\ sidecar.by = "us" => step = "done"
  BY DEF AssemblyInv, Places
<1>1. CASE \E p \in Platforms : Open(p)
  <2>1. step = "open" /\ step' \in {"open", "assemble", "failed"} /\ UNCHANGED <<output, sidecar>>
    BY <1>1 DEF Open, Advances, Stops
  <2> QED
    BY <1>0, <2>1 DEF Built
<1>2. ASSUME UNCHANGED <<mode, seen>>, AssemblyNext \/ UNCHANGED assemblyVars
      PROVE  Built'
  <2>1. /\ Assembled' = Assembled
        /\ PairSound(temp.image, temp.side, Version)' <=> PairSound(temp'.image, temp'.side, Version)
        /\ (\A p \in Platforms : Native(seen[p], p, Version))'
             <=> \A p \in Platforms : Native(seen[p], p, Version)
    BY <1>2, AssembledKept
  <2>2. CASE Begin
    BY <1>0, <2>2 DEF Built, Begin, Advances, Stops
  <2>3. CASE Assemble
    <3>1. /\ step = "assemble" /\ step' = "written" /\ UNCHANGED <<mode, disk, seen, output, sidecar>>
          /\ temp' = IF mode = "merge" THEN MergedFile ELSE PairFiles
      BY <2>3 DEF Assemble, Advances
    <3>2. ASSUME \A p \in Platforms : ~disk[p].touched
          PROVE  temp' = Assembled
      <4>1. \A p \in Platforms : disk[p].archive = seen[p]
        BY <1>0, <3>1, <3>2 DEF AsSeen, Unopened
      <4>2. BlobsNow = BlobsSeen
        BY <4>1, BlobsUntouched
      <4> QED
        BY <3>1, <4>2 DEF Assembled, MergedFile, PairFiles
    <3> QED
      BY <1>0, <2>1, <3>1, <3>2 DEF Built
  <2>4. CASE CheckInputs
    BY <1>0, <1>2, <2>1, <2>4 DEF Built, CheckInputs, Advances, Stops
  <2>5. CASE VerifyPair
    BY <1>0, <1>2, <2>1, <2>5 DEF Built, VerifyPair, Advances
  <2>6. CASE LinkOutput
    <3>1. /\ step = "link" /\ UNCHANGED <<mode, temp, sidecar>> /\ step' \in {"done", "linkside", "failed"}
          /\ output' = Ours(temp.image) \/ output' = output
      BY <2>6 DEF LinkOutput, Advances, Stops
    <3>2. temp = Assembled /\ (mode = "detach" => PairSound(temp.image, temp.side, Version))
          /\ \A p \in Platforms : Native(seen[p], p, Version)
      BY <1>0, <3>1 DEF Built, AsSeen, Unopened
    <3>3. output'.by = "us" => output'.data = temp.image
      BY <1>0, <3>1 DEF Ours, Built
    <3> QED
      BY <1>0, <1>2, <2>1, <3>1, <3>2, <3>3 DEF Built
  <2>7. CASE LinkSidecar
    <3>1. /\ step = "linkside" /\ UNCHANGED <<mode, temp>> /\ step' \in {"done", "failed"}
          /\ sidecar' = Ours(temp.side) \/ sidecar' = sidecar
          /\ output' = Nothing \/ output' = output
      BY <2>7 DEF LinkSidecar, Advances, Stops, TakeBack
    <3>2. temp = Assembled /\ (sidecar'.by = "us" => sidecar'.data = temp.side)
          /\ (output'.by = "us" => output' = output)
      BY <1>0, <3>1 DEF Ours, Built, Nothing
    <3> QED
      BY <1>0, <1>2, <2>1, <3>1, <3>2 DEF Built
  <2>8. CASE Kill
    BY <1>0, <1>2, <2>1, <2>8 DEF Built, Kill
  <2>9. CASE Create
    <3>1. /\ step \notin {"start", "done", "failed", "killed"} /\ UNCHANGED <<mode, step, disk, seen, temp>>
          /\ output' = Others \/ output' = output
          /\ sidecar' = Others \/ sidecar' = sidecar
      BY <2>9 DEF Create
    <3>2. (output'.by = "us" => output' = output) /\ (sidecar'.by = "us" => sidecar' = sidecar)
      BY <3>1 DEF Others
    <3> QED
      BY <1>0, <2>1, <3>1, <3>2 DEF Built
  <2>10. CASE \E p \in Platforms : Touch(p)
    <3>1. UNCHANGED <<mode, step, seen, temp, output, sidecar>>
      BY <2>10 DEF Touch
    <3>2. step = "written" /\ (\A p \in Platforms : ~disk'[p].touched)
            => \A p \in Platforms : ~disk[p].touched
      BY <1>0, <2>10 DEF Touch, AsSeen
    <3> QED
      BY <1>0, <2>1, <3>1, <3>2 DEF Built
  <2>11. CASE UNCHANGED assemblyVars
    BY <1>0, <2>1, <2>11 DEF Built, assemblyVars
  <2>12. CASE \E p \in Platforms : Open(p)
    BY <1>1, <2>12
  <2> QED
    BY <1>2, <2>2, <2>3, <2>4, <2>5, <2>6, <2>7, <2>8, <2>9, <2>10, <2>11, <2>12
       DEF AssemblyNext
<1>3. (\E p \in Platforms : Open(p)) \/ UNCHANGED <<mode, seen>>
  BY DEF AssemblyNext, Begin, Assemble, CheckInputs, VerifyPair, LinkOutput, LinkSidecar,
         Kill, Create, Touch, assemblyVars
<1> QED
  BY <1>1, <1>2, <1>3

\* A merge keeps every blob of the inputs that were checked, and a detached
\* pair gives them back.
Published ==
    /\ mode = "merge" /\ output.by = "us" =>
         output.data = Merged(AllLeaves, BlobsSeen) /\ KeepsBlobs(output.data)
    /\ mode = "detach" /\ output.by = "us" =>
         /\ output.data = Runtime(seen, BlobsSeen)
         /\ sidecar.by = "us" => /\ sidecar.data = Sidecar(seen, BlobsSeen)
                                 /\ \A p \in Platforms : GivesBack(output.data, sidecar.data, p)

\* One input's blob may be under the other's digest, but both are sound.
LEMMA MergeKeeps ==
    ASSUME TwoPlatforms, \A p \in Platforms : Native(seen[p], p, Version)
    PROVE  KeepsBlobs(Merged(AllLeaves, BlobsSeen))
<1> DEFINE first == CHOOSE p \in Platforms : TRUE
           second == CHOOSE p \in Platforms \ {first} : TRUE
           top == IndexOf(SelectSeq(AllLeaves, InFront) \o SelectSeq(AllLeaves, LAMBDA l : ~InFront(l)))
           out == Merged(AllLeaves, BlobsSeen)
<1>1. first \in Platforms /\ second \in Platforms /\ Platforms = {first, second}
  BY DEF TwoPlatforms
<1>2. top # Corrupt
  <2>1. top.kind = "index" /\ Corrupt.kind = "corrupt"
    BY DEF IndexOf, Corrupt
  <2> HIDE DEF top
  <2> QED
    BY <2>1
<1>3. BlobsSeen = Both(seen[second].blobs, seen[first].blobs)
  BY DEF BlobsSeen
<1>4. out.blobs = Both([d \in {Inner} |-> top], BlobsSeen)
  BY DEF Merged, Under
<1>5. \A p \in Platforms : \A d \in DOMAIN seen[p].blobs : seen[p].blobs[d] # Corrupt
  BY DEF Native, Walked
<1> HIDE DEF first, second, top, out
<1>6. DOMAIN out.blobs = {Inner} \union DOMAIN seen[second].blobs \union DOMAIN seen[first].blobs
  BY <1>3, <1>4 DEF Both
<1>7. \A d \in DOMAIN out.blobs :
        out.blobs[d] = IF d = Inner THEN top
                       ELSE IF d \in DOMAIN seen[second].blobs THEN seen[second].blobs[d]
                       ELSE seen[first].blobs[d]
  BY <1>3, <1>4 DEF Both
<1>8. ASSUME NEW p \in Platforms, NEW d \in DOMAIN seen[p].blobs
      PROVE  d \in DOMAIN out.blobs /\ out.blobs[d] # Corrupt
  BY <1>1, <1>2, <1>5, <1>6, <1>7, <1>8
<1> QED
  BY <1>8 DEF KeepsBlobs, Sound, Stores, out

\* The check of the pair is the check of each replayed input.
LEMMA PairGivesBack ==
    ASSUME NEW out, NEW side, PairSound(out, side, Version), NEW p \in Platforms
    PROVE  GivesBack(out, side, p)
<1> DEFINE original == Replayed(out, side, p)
<1>1. Native(original, p, Version)
  BY DEF PairSound
<1> HIDE DEF original
<1>2. ASSUME NEW l \in ToSet(AttestationLeaves(original))
      PROVE  Subject(original, l) = ImageDigest(original)
  <2>1. PICK i \in DOMAIN AttestationLeaves(original) : l = AttestationLeaves(original)[i]
    BY DEF ToSet
  <2> QED
    BY <1>1, <2>1 DEF Native, ImageDigest
<1> QED
  BY <1>1, <1>2 DEF GivesBack, original

\* The invariant of a merge or a detachment of two platforms' archives.
THEOREM AssemblyInvariant ==
    ASSUME TwoPlatforms
    PROVE  AssemblySpec => []AssemblyInv
<1>1. AssemblyInv /\ [AssemblyNext]_assemblyVars => AssemblyInv'
  BY PlacesStep, AsSeenStep, BuiltStep DEF AssemblyInv
<1> QED
  BY AssemblyStart, <1>1, PTL DEF AssemblySpec

\* What is published was assembled from the archives as they were checked,
\* whoever wrote to them since: a merge keeps every blob of both, and a pair
\* gives back inputs that are native and whose evidence is about what runs.
THEOREM AsChecked ==
    ASSUME TwoPlatforms
    PROVE  AssemblySpec => []Published
<1>1. AssemblyInv => Published
  BY MergeKeeps, PairGivesBack DEF AssemblyInv, Places, Built, Assembled, Published
<1> QED
  BY AssemblyInvariant, <1>1, PTL

\* A run that ends by itself leaves the archive or the pair it promises, or
\* nothing of its own, whoever takes the names meanwhile.
THEOREM WholeOrNothing == AssemblySpec => []AllOrNothing
<1>1. Places => AllOrNothing
  BY DEF Places, AllOrNothing
<1> QED
  BY PlacesInit, PlacesStep, <1>1, PTL DEF AssemblySpec

-----------------------------------------------------------------------------
(* The preparation of a version                                            *)

\* The order of versions is one.
LEMMA OlderOrders ==
    ASSUME NEW u \in Nat \X Nat \X Nat, NEW v \in Nat \X Nat \X Nat, NEW w \in Nat \X Nat \X Nat
    PROVE  /\ ~Older(v, v)
           /\ Older(u, v) /\ Older(v, w) => Older(u, w)
           /\ u # v => Older(u, v) \/ Older(v, u)
BY DEF Older

\* Finitely many versions have a greatest.
LEMMA GreatestExists ==
    ASSUME NEW S, S \subseteq Nat \X Nat \X Nat, IsFiniteSet(S), S # {}
    PROVE  /\ Greatest(S) \in S
           /\ \A w \in S \ {Greatest(S)} : Older(w, Greatest(S))
<1> DEFINE Tops(X) == \E v \in X : \A w \in X \ {v} : Older(w, v)
           Bad == {X \in SUBSET S : X # {} /\ ~Tops(X)}
<1>1. ASSUME Bad # {} PROVE FALSE
  <2>1. IsWellFoundedOn(StrictSubsetOrdering(S), SUBSET S)
    BY FS_StrictSubsetOrderingWellFounded, FS_FiniteSubsetsOfFinite
  <2>2. Bad \subseteq SUBSET S
    OBVIOUS
  <2> HIDE DEF Bad
  <2>3. PICK X \in Bad : \A Y \in Bad : <<Y, X>> \notin StrictSubsetOrdering(S)
    BY <1>1, <2>1, <2>2, WFMin
  <2> USE DEF Bad
  <2>4. X \subseteq S /\ X # {} /\ ~Tops(X)
    OBVIOUS
  <2>5. PICK x \in X : TRUE
    BY <2>4
  <2>6. X \ {x} # {}
    BY <2>4
  <2>7. <<X \ {x}, X>> \in StrictSubsetOrdering(S)
    BY <2>4 DEF StrictSubsetOrdering
  <2>8. Tops(X \ {x})
    BY <2>3, <2>4, <2>6, <2>7
  <2>9. PICK g \in X \ {x} : \A w \in (X \ {x}) \ {g} : Older(w, g)
    BY <2>8
  <2>10. x \in Nat \X Nat \X Nat /\ g \in Nat \X Nat \X Nat /\ g # x
    BY <2>4
  <2>11. CASE Older(x, g)
    BY <2>4, <2>9, <2>11
  <2>12. CASE Older(g, x)
    <3>1. ASSUME NEW w \in X \ {x} PROVE Older(w, x)
      <4>1. w \in Nat \X Nat \X Nat
        BY <2>4
      <4> QED
        BY <2>9, <2>10, <2>12, <4>1, OlderOrders
    <3> QED
      BY <2>4, <3>1
  <2> QED
    BY <2>10, <2>11, <2>12, OlderOrders
<1>2. Tops(S)
  BY <1>1
<1> QED
  BY <1>2 DEF Greatest

\* Among more numbers than there are tags one is free, and the first of those
\* is what is taken.
LEMMA FreeExists ==
    ASSUME NEW v, v[3] \in Nat, NEW occupied, IsFiniteSet(occupied)
    PROVE  \E k \in Nat : FirstFree(v, occupied) = <<v[1], v[2], v[3] + k>>
<1> DEFINE At(j) == <<v[1], v[2], v[3] + j>>
           taken(j) == At(j) \in occupied
           c == Cardinality(occupied)
           Free == {j \in 0..c : ~taken(j)}
<1>1. c \in Nat /\ IsFiniteSet(0..c) /\ Cardinality(0..c) = c + 1
  BY FS_CardinalityType, FS_Interval
<1>2. Free # {}
  <2> SUFFICES ASSUME \A j \in 0..c : taken(j) PROVE FALSE
    OBVIOUS
  <2> DEFINE f == [j \in 0..c |-> At(j)]
  <2>1. f \in [0..c -> occupied]
    OBVIOUS
  <2>2. Cardinality(occupied) < Cardinality(0..c)
    BY <1>1
  <2> HIDE DEF f
  <2>3. PICK x, y \in 0..c : x # y /\ f[x] = f[y]
    BY <1>1, <2>1, <2>2, FS_PigeonHole
  <2> QED
    BY <1>1, <2>3 DEF f
<1>3. \E k \in 0..c : ~taken(k) /\ \A m \in 0..(k - 1) : taken(m)
  <2>1. Free \subseteq Nat
    BY <1>1
  <2> HIDE DEF Free
  <2>2. PICK k \in Free : \A m \in Free : <<m, k>> \notin OpToRel(<, Nat)
    BY <1>2, <2>1, WFMin, NatLessThanWellFounded
  <2> USE DEF Free
  <2>3. k \in 0..c /\ ~taken(k)
    OBVIOUS
  <2>4. ASSUME NEW m \in 0..(k - 1) PROVE taken(m)
    <3>1. m \in 0..c /\ m < k /\ m \in Nat /\ k \in Nat
      BY <1>1, <2>3
    <3>2. <<m, k>> \in OpToRel(<, Nat)
      BY <3>1 DEF OpToRel
    <3> QED
      BY <2>2, <3>1, <3>2
  <2> QED
    BY <2>3, <2>4
<1>4. Cardinality(occupied) = c
  BY DEF Cardinality, Cardinality, IsFiniteSet, IsFiniteSet
<1> DEFINE K == CHOOSE j \in 0..c : ~taken(j) /\ \A m \in 0..(j - 1) : taken(m)
<1>5. K \in 0..c
  BY <1>3
<1>6. FirstFree(v, occupied) = <<v[1], v[2], v[3] + K>>
  BY <1>4 DEF FirstFree
<1> HIDE DEF K
<1>7. K \in Nat
  BY <1>1, <1>5
<1> QED
  BY <1>6, <1>7

-----------------------------------------------------------------------------
\* Main's trees and a fit topic have one version in every declared file; a fit
\* topic's is not older than main's where it branched off.
Trees == {Tree(v, j) : v \in Versions, j \in Nat}
Fit(c) == /\ c.at \in 1..Len(main) /\ c.foreign \in BOOLEAN /\ c.tree \in Trees
          /\ ~Older(Declared(c.tree), Declared(main[c.at]))

Origin ==
    /\ main \in Seq(Trees) /\ main # <<>>
    /\ IsFiniteSet({v \in Versions : tags[v] # "no"})
    /\ tags = [v \in Versions |-> tags[v]] /\ topics = [v \in Versions |-> topics[v]]
    /\ \A v \in Versions : topics[v] # Unset => Fit(topics[v])
    /\ \A v \in prs : v \in Versions /\ Fit(topics[v])

\* What a run goes by: a head of main, a version not older than that head's,
\* and a topic of these runs' own.
Ended == {"idle", "failed", "done", "unchanged"}
Fields == {"pc", "local", "head", "fetched", "target", "existing", "topic", "todo", "read", "file"}
Fielded(x) == x \in [Fields -> {x[k] : k \in Fields}]
Choosing(r) ==
    LET x == prep[r]
    IN /\ Fielded(x)
       /\ x.pc \notin Ended => x.head \in 1..Len(main)
       /\ x.pc \in {"prs", "topic", "push", "create"} =>
            x.target \in Versions
            /\ ~Older(x.target, Declared(main[x.head]))
       /\ x.pc \in {"push", "create"} /\ x.topic # Unset =>
            Fit(x.topic) /\ ~x.topic.foreign /\ Declared(x.topic.tree) = x.target

PrepInv ==
    /\ Origin
    /\ prep = [r \in Runs |-> prep[r]]
    /\ \A r \in Runs : Choosing(r)

LEMMA DeclaredOf ==
    ASSUME NEW v \in Versions, NEW j
    PROVE  Declared(Tree(v, j)) = v
<1>1. \A w \in Versions : [f \in VersionFiles |-> v] = [f \in VersionFiles |-> w] => v = w
  <2> SUFFICES ASSUME NEW w \in Versions, [f \in VersionFiles |-> v] = [f \in VersionFiles |-> w]
               PROVE  v = w
    OBVIOUS
  <2>1. [f \in VersionFiles |-> v][BaseFile] = [f \in VersionFiles |-> w][BaseFile]
    OBVIOUS
  <2> QED
    BY <2>1, PrepareAssumption
<1> QED
  BY <1>1 DEF Declared, Tree

LEMMA TreeHas ==
    ASSUME NEW tree \in Trees
    PROVE  /\ Declared(tree) \in Versions /\ tree.rest \in Nat
           /\ tree = Tree(Declared(tree), tree.rest)
           /\ tree.files = [f \in VersionFiles |-> Declared(tree)]
<1>1. PICK v \in Versions, j \in Nat : tree = Tree(v, j)
  BY DEF Trees
<1>2. Declared(tree) = v
  BY <1>1, DeclaredOf
<1> QED
  BY <1>1, <1>2 DEF Tree

\* Two trees with the same files declare the same version.
LEMMA SameFiles ==
    ASSUME NEW s, NEW t, s.files = t.files
    PROVE  Declared(s) = Declared(t)
BY DEF Declared

LEMMA ChosenNotOlder ==
    ASSUME NEW current \in Versions, NEW merged, NEW occupied, NEW request,
           IsFiniteSet(occupied), merged \subseteq occupied, occupied \subseteq Versions,
           ChooseVersion(current, merged, occupied, request) \in Versions
    PROVE  ~Older(ChooseVersion(current, merged, occupied, request), current)
<1> DEFINE v == Bumped(current, merged, request)
           t == ChooseVersion(current, merged, occupied, request)
<1>1. ~Older(v, current)
  BY PrepareAssumption DEF ChooseVersion
<1>2. CASE request # "next-patch"
  BY <1>1, <1>2, PrepareAssumption DEF ChooseVersion
<1>3. CASE request = "next-patch"
  <2>1. t = FirstFree(v, occupied)
    BY <1>1, <1>3 DEF ChooseVersion
  <2>2. current \in Nat \X Nat \X Nat
    BY PrepareAssumption
  <2>3. v \in Nat \X Nat \X Nat
    <3>1. CASE merged = {}
      BY <1>3, <2>2, <3>1 DEF Bumped
    <3>2. CASE merged # {}
      <4>1. IsFiniteSet(merged) /\ merged \subseteq Nat \X Nat \X Nat
        BY FS_Subset, PrepareAssumption
      <4>2. Greatest(merged) \in Nat \X Nat \X Nat
        BY <3>2, <4>1, GreatestExists
      <4> QED
        BY <1>3, <2>2, <4>2 DEF Bumped, NextPatch
    <3> QED
      BY <3>1, <3>2
  <2> HIDE DEF v, t
  <2>4. PICK k \in Nat : t = <<v[1], v[2], v[3] + k>>
    BY <2>1, <2>3, FreeExists
  <2> QED
    BY <1>1, <2>2, <2>3, <2>4 DEF Older, t
<1> QED
  BY <1>2, <1>3

\* What was true of a commit stays so while main grows.
LEMMA MainGrows ==
    ASSUME PrepInv, main' = main \/ \E t \in Trees : main' = Append(main, t)
    PROVE  /\ main' \in Seq(Trees) /\ main' # <<>> /\ Len(main) \in Nat \ {0}
           /\ \A i \in 1..Len(main) : i \in 1..Len(main') /\ main'[i] = main[i] /\ main[i] \in Trees
           /\ \A c : Fit(c) => Fit(c)'
<1>1. main \in Seq(Trees) /\ main # <<>>
  BY DEF PrepInv, Origin
<1>2. Len(main) \in Nat \ {0} /\ \A i \in 1..Len(main) : main[i] \in Trees
  BY <1>1, EmptySeq, LenProperties, ElementOfSeq
<1>3. /\ main' \in Seq(Trees) /\ main' # <<>>
      /\ \A i \in 1..Len(main) : i \in 1..Len(main') /\ main'[i] = main[i]
  <2>1. CASE main' = main
    BY <1>1, <2>1
  <2>2. ASSUME NEW t \in Trees, main' = Append(main, t)
        PROVE  /\ main' \in Seq(Trees) /\ main' # <<>>
               /\ \A i \in 1..Len(main) : i \in 1..Len(main') /\ main'[i] = main[i]
    BY <1>1, <1>2, <2>2, AppendProperties
  <2> QED
    BY <2>1, <2>2
<1>4. ASSUME NEW c, Fit(c) PROVE Fit(c)'
  BY <1>3, <1>4 DEF Fit
<1> QED
  BY <1>1, <1>2, <1>3, <1>4

\* Runs that a step leaves alone go by the same.
LEMMA RunKept ==
    ASSUME PrepInv, main' = main \/ \E t \in Trees : main' = Append(main, t),
           NEW r \in Runs, prep'[r] = prep[r]
    PROVE  Choosing(r)'
<1>1. Choosing(r) /\ Len(main) \in Nat \ {0}
  BY MainGrows DEF PrepInv
<1>2. /\ \A i \in 1..Len(main) : i \in 1..Len(main') /\ main'[i] = main[i]
      /\ \A c : Fit(c) => Fit(c)'
  BY MainGrows
<1> DEFINE x == prep[r]
<1>3. x.pc \in {"prs", "topic", "push", "create"} => x.pc \notin Ended
  BY DEF Ended
<1> QED
  BY <1>1, <1>2, <1>3 DEF Choosing

\* A step of one run leaves the others as they were.
LEMMA OneRun ==
    ASSUME PrepInv, Origin', main' = main, NEW r \in Runs,
           prep' = [q \in Runs |-> prep'[q]],
           \A q \in Runs \ {r} : prep'[q] = prep[q], Choosing(r)'
    PROVE  PrepInv'
<1>1. \A q \in Runs \ {r} : Choosing(q)'
  BY RunKept
<1> QED
  BY <1>1 DEF PrepInv

LEMMA PrepInit ==
    ASSUME PrepareInit
    PROVE  PrepInv
<1>1. Tree(First, 0) \in Trees
  BY PrepareAssumption DEF Trees
<1>2. main = <<Tree(First, 0)>> /\ prs = {} /\ topics = [v \in Versions |-> Unset]
      /\ prep = [r \in Runs |-> Start]
      /\ tags = [v \in Versions |-> IF v = First THEN "merged" ELSE "no"]
  BY DEF PrepareInit
<1>3. {v \in Versions : tags[v] # "no"} = {First}
  BY <1>2, PrepareAssumption
<1>4. IsFiniteSet({v \in Versions : tags[v] # "no"})
  BY <1>3, FS_Singleton
<1>5. Origin
  BY <1>1, <1>2, <1>4 DEF Origin
<1>6. \A r \in Runs : Choosing(r)
  BY <1>2 DEF Choosing, Fielded, Fields, Start, Ended
<1> QED
  BY <1>2, <1>5, <1>6 DEF PrepInv

LEMMA MainSteps ==
    ASSUME PrepInv, MainMoves \/ \E v \in Versions : Merge(v)
    PROVE  /\ PrepInv'
           /\ ~Older(Declared(main'[Len(main')]), Declared(Newest))
<1> DEFINE top == Newest
<1>1. /\ main \in Seq(Trees) /\ main # <<>> /\ Len(main) \in Nat \ {0} /\ top \in Trees
      /\ top = main[Len(main)]
      /\ \A i \in 1..Len(main) : main[i] \in Trees
  BY MainGrows, EmptySeq, LenProperties, ElementOfSeq DEF PrepInv, Origin, Newest
<1>2. \E t \in Trees : main' = Append(main, t) /\ ~Older(Declared(t), Declared(top))
  <2>1. CASE MainMoves
    <3> DEFINE t == [top EXCEPT !.rest = @ + 1]
    <3>1. top = Tree(Declared(top), top.rest) /\ Declared(top) \in Versions /\ top.rest \in Nat
      BY <1>1, TreeHas
    <3>2. t = Tree(Declared(top), top.rest + 1)
      BY <3>1 DEF Tree
    <3>3. t \in Trees /\ Declared(t) = Declared(top)
      BY <3>1, <3>2, DeclaredOf DEF Trees
    <3>4. main' = Append(main, t)
      BY <2>1 DEF MainMoves
    <3> QED
      BY <3>1, <3>3, <3>4, OlderOrders, PrepareAssumption
  <2>2. ASSUME NEW v \in Versions, Merge(v)
        PROVE  \E t \in Trees : main' = Append(main, t) /\ ~Older(Declared(t), Declared(top))
    <3> DEFINE c == topics[v]
               extra == IF c.foreign THEN 1 ELSE 0
               t == [files |-> c.tree.files, rest |-> top.rest + extra]
    <3>1. main' = Append(main, t) /\ top.files \in {main[c.at].files, c.tree.files} /\ v \in prs
      BY <2>2 DEF Merge, Mergeable
    <3>2. Fit(c)
      BY <3>1 DEF PrepInv, Origin
    <3>3. c.tree \in Trees /\ c.at \in 1..Len(main)
          /\ ~Older(Declared(c.tree), Declared(main[c.at]))
      BY <3>2 DEF Fit
    <3>4. Declared(c.tree) \in Versions
          /\ c.tree.files = [f \in VersionFiles |-> Declared(c.tree)] /\ top.rest \in Nat
      BY <1>1, <3>3, TreeHas
    <3>5. t = Tree(Declared(c.tree), top.rest + extra) /\ top.rest + extra \in Nat
      BY <3>4 DEF Tree
    <3>6. t \in Trees /\ Declared(t) = Declared(c.tree)
      BY <3>4, <3>5, DeclaredOf DEF Trees
    <3>7. Declared(top) \in {Declared(main[c.at]), Declared(c.tree)}
      <4> HIDE DEF top, c
      <4> QED
        BY <3>1, SameFiles
    <3>8. ~Older(Declared(c.tree), Declared(c.tree))
      BY <3>4, OlderOrders, PrepareAssumption
    <3> QED
      BY <3>1, <3>3, <3>6, <3>7, <3>8
  <2> QED
    BY <2>1, <2>2
<1>3. main' \in Seq(Trees) /\ main' # <<>> /\ \A c : Fit(c) => Fit(c)'
  BY <1>2, MainGrows
<1>4. UNCHANGED <<prep, tags, topics>> /\ prs' \subseteq prs
  BY DEF MainMoves, Merge, Deed
<1>5. Origin'
  BY <1>3, <1>4 DEF PrepInv, Origin
<1>6. \A r \in Runs : Choosing(r)'
  BY <1>2, <1>4, RunKept
<1>7. PrepInv'
  BY <1>4, <1>5, <1>6 DEF PrepInv
<1>8. PICK t \in Trees : main' = Append(main, t) /\ ~Older(Declared(t), Declared(top))
  BY <1>2
<1>9. main'[Len(main')] = t
  BY <1>1, <1>8, AppendProperties
<1> QED
  BY <1>7, <1>8, <1>9

LEMMA PeopleSteps ==
    ASSUME PrepInv,
           \/ \E v \in Versions : \/ ReleaseTag(v) \/ PersonPushes(v)
                                  \/ DeleteTopic(v)
           \/ \E f \in VersionFiles : Edit(f)
           \/ Pull
    PROVE  PrepInv' /\ UNCHANGED <<main, prep>>
<1>1. UNCHANGED <<main, prep>>
  BY DEF ReleaseTag, PersonPushes, DeleteTopic, Edit, Pull, Deed,
         remote
<1>2. main \in Seq(Trees) /\ main # <<>> /\ \A c : Fit(c) => Fit(c)'
  BY <1>1, MainGrows DEF PrepInv, Origin
<1>3. Origin'
  <2>1. CASE UNCHANGED <<tags, topics, prs>>
    BY <1>1, <1>2, <2>1 DEF PrepInv, Origin
  <2>2. ASSUME NEW v \in Versions, ReleaseTag(v) PROVE Origin'
    <3> DEFINE named == {w \in Versions : tags[w] # "no"}
    <3>1. UNCHANGED <<topics, prs>> /\ tags' = [w \in Versions |-> tags'[w]]
          /\ \A w \in Versions \ {v} : tags'[w] = tags[w]
      BY <2>2 DEF ReleaseTag, PrepInv, Origin
    <3>2. IsFiniteSet(named \union {v})
      BY FS_AddElement DEF PrepInv, Origin
    <3>3. named' \subseteq named \union {v}
      BY <3>1
    <3> HIDE DEF named
    <3>4. IsFiniteSet(named')
      BY <3>2, <3>3, FS_Subset
    <3> QED
      BY <1>1, <1>2, <3>1, <3>4 DEF PrepInv, Origin, named
  <2>3. ASSUME NEW v \in Versions, PersonPushes(v) PROVE Origin'
    <3>1. UNCHANGED <<tags, prs>> /\ topics' = [topics EXCEPT ![v] = topics'[v]]
          /\ topics'[v] = IF topics[v] = Unset THEN Commit(Newest, Len(main), TRUE)
                          ELSE Commit(topics[v].tree, topics[v].at, TRUE)
      BY <2>3 DEF PersonPushes, PrepInv, Origin
    <3>2. Fit(topics'[v])
      <4>1. CASE topics[v] = Unset
        <5>1. Newest \in Trees /\ Newest = main[Len(main)] /\ Len(main) \in 1..Len(main)
          BY <1>2, MainGrows, LenProperties DEF Newest
        <5>2. ~Older(Declared(Newest), Declared(Newest))
          BY <5>1, TreeHas, OlderOrders, PrepareAssumption
        <5> QED
          BY <3>1, <4>1, <5>1, <5>2 DEF Fit, Commit
      <4>2. CASE topics[v] # Unset
        <5>1. Fit(topics[v])
          BY <4>2 DEF PrepInv, Origin
        <5> QED
          BY <3>1, <4>2, <5>1 DEF Fit, Commit
      <4> QED
        BY <4>1, <4>2
    <3>3. \A w \in Versions \ {v} : topics'[w] = topics[w]
      BY <3>1 DEF PrepInv, Origin
    <3>4. topics' = [w \in Versions |-> topics'[w]]
      BY <3>1 DEF PrepInv, Origin
    <3>5. \A w \in prs : w \in Versions /\ Fit(topics'[w])
      BY <3>2, <3>3 DEF PrepInv, Origin
    <3>6. \A w \in Versions : topics'[w] # Unset => Fit(topics'[w])
      BY <3>2, <3>3 DEF PrepInv, Origin
    <3> QED
      BY <1>1, <1>2, <3>1, <3>4, <3>5, <3>6 DEF PrepInv, Origin, Fit
  <2>4. ASSUME NEW v \in Versions, DeleteTopic(v) PROVE Origin'
    <3>1. /\ UNCHANGED tags /\ topics' = [topics EXCEPT ![v] = Unset] /\ prs' = prs \ {v}
      BY <2>4 DEF DeleteTopic
    <3>2. /\ topics' = [w \in Versions |-> topics'[w]] /\ topics'[v] = Unset
          /\ \A w \in Versions \ {v} : topics'[w] = topics[w]
      BY <3>1 DEF PrepInv, Origin
    <3> QED
      BY <1>1, <1>2, <3>1, <3>2 DEF PrepInv, Origin, Fit
  <2> QED
    BY <2>1, <2>2, <2>3, <2>4 DEF Edit, Pull, remote
<1>4. \A r \in Runs : Choosing(r)'
  BY <1>1, RunKept
<1> QED
  BY <1>1, <1>3, <1>4 DEF PrepInv

\* A run that reads, ends or deeds files leaves what GitHub has alone.
LEMMA ReadingSteps ==
    ASSUME PrepInv, NEW r \in Runs,
           \/ Checkout(r) \/ ReadTags(r) \/ Fail(r) \/ ListPullRequests(r)
           \/ ReadTopic(r) \/ ReadFiles(r) \/ StageFiles(r) \/ Replace(r)
           \/ CheckFiles(r) \/ \E f \in VersionFiles : Recheck(r, f)
    PROVE  PrepInv' /\ UNCHANGED <<main, topics>>
<1>1. UNCHANGED <<main, tags, topics, prs>>
  BY DEF Checkout, ReadTags, Fail, ListPullRequests, ReadTopic,
         ReadFiles, StageFiles, Replace, CheckFiles, Recheck, remote
<1> SUFFICES PrepInv'
  BY <1>1
<1>2. /\ Origin' /\ Len(main) \in 1..Len(main) /\ Len(main) \in Nat
      /\ \A c : Fit(c) => Fit(c)'
      /\ \A i \in 1..Len(main) : main[i] \in Trees
  <2>1. Origin'
    BY <1>1 DEF PrepInv, Origin, Fit
  <2>2. /\ Len(main) \in Nat \ {0} /\ \A i \in 1..Len(main) : main[i] \in Trees
        /\ \A c : Fit(c) => Fit(c)'
    BY <1>1, MainGrows
  <2> QED
    BY <2>1, <2>2
<1> DEFINE x == prep[r]
<1>3. /\ prep = [q \in Runs |-> prep[q]] /\ Choosing(r)
  BY DEF PrepInv
<1>4. ASSUME NEW y, prep' = [prep EXCEPT ![r] = y], prep'[r] = y => Choosing(r)'
      PROVE  PrepInv'
  BY <1>1, <1>2, <1>3, <1>4, OneRun
<1>5. ASSUME NEW to \in Ended, Ends(r, to) PROVE PrepInv'
  <2> DEFINE y == [Start EXCEPT !.pc = to]
  <2>1. prep' = [prep EXCEPT ![r] = y]
    BY <1>5 DEF Ends
  <2>2. Fielded(y) /\ y.pc = to
    BY DEF Start, Fielded, Fields
  <2> HIDE DEF y
  <2>3. prep'[r] = y => Choosing(r)'
    BY <2>2 DEF Choosing, Ended
  <2> QED
    BY <1>4, <2>1, <2>3
<1>6. ASSUME NEW y, Fielded(y), y.head = x.head, x.pc \notin Ended, y.pc \in {"tags", "read", "stage", "replace", "replacing"},
             prep' = [prep EXCEPT ![r] = y]
      PROVE  PrepInv'
  <2>1. prep'[r] = y => Choosing(r)'
    BY <1>1, <1>3, <1>6 DEF Choosing, Ended
  <2> QED
    BY <1>4, <1>6, <2>1
<1>7. CASE Checkout(r)
  <2>1. PICK local \in BOOLEAN :
          prep' = [prep EXCEPT ![r] =
               [Start EXCEPT !.pc = "tags", !.local = local, !.head = Len(main),
                             !.fetched = {v \in Versions : tags[v] = "merged"}]]
    BY <1>7 DEF Checkout
  <2> DEFINE y == [Start EXCEPT !.pc = "tags", !.local = local, !.head = Len(main),
                             !.fetched = {v \in Versions : tags[v] = "merged"}]
  <2>2. Fielded(y) /\ y.pc = "tags" /\ y.head = Len(main)
    BY DEF Start, Fielded, Fields
  <2> HIDE DEF y
  <2>3. prep'[r] = y => Choosing(r)'
    BY <1>1, <1>2, <2>2 DEF Choosing
  <2> QED
    BY <1>4, <2>1, <2>3 DEF y
<1>8. CASE ReadTags(r)
  <2> DEFINE occupied == {v \in Versions : tags[v] # "no"}
             merged == x.fetched \intersect occupied
             current == IF x.local THEN checkout[BaseFile].v ELSE Declared(Taken(r))
  <2>1. x.pc = "tags" /\ \E request \in Requests :
          LET target == ChooseVersion(current, merged, occupied, request)
          IN IF target \notin Versions THEN Ends(r, "failed")
             ELSE Learns(r, IF x.local THEN "read" ELSE "prs", "target", target)
    BY <1>8 DEF ReadTags
  <2>2. PICK request \in Requests :
          LET target == ChooseVersion(current, merged, occupied, request)
          IN IF target \notin Versions THEN Ends(r, "failed")
             ELSE Learns(r, IF x.local THEN "read" ELSE "prs", "target", target)
    BY <2>1
  <2> DEFINE target == ChooseVersion(current, merged, occupied, request)
             to == IF x.local THEN "read" ELSE "prs"
             y == [[x EXCEPT !.pc = to] EXCEPT !["target"] = target]
  <2>3. CASE target \notin Versions
    BY <1>5, <2>2, <2>3 DEF Ended
  <2>4. CASE target \in Versions
    <3>1. prep' = [prep EXCEPT ![r] = y]
      BY <2>2, <2>4 DEF Learns
    <3>2. IsFiniteSet(occupied)
      BY DEF PrepInv, Origin
    <3>3. x.head \in 1..Len(main) /\ Fielded(x)
      BY <1>3, <2>1 DEF Choosing, Ended
    <3>4. ~x.local => ~Older(target, Declared(main[x.head]))
      <4> HAVE ~x.local
      <4>1. current = Declared(main[x.head]) /\ current \in Versions
        <5>1. current = Declared(main[x.head])
          BY DEF Taken
        <5>2. main[x.head] \in Trees
          BY <1>2, <3>3
        <5> QED
          BY <5>1, <5>2, TreeHas
      <4>2. merged \subseteq occupied /\ occupied \subseteq Versions
        OBVIOUS
      <4> HIDE DEF current, merged, occupied
      <4>3. ~Older(target, current)
        BY <2>4, <3>2, <4>1, <4>2, ChosenNotOlder
      <4> QED
        BY <4>1, <4>3
    <3> HIDE DEF occupied, merged, current, target
    <3>5. Fielded(y) /\ y.pc = to /\ y.target = target /\ y.head = x.head
      <4> HIDE DEF x, to
      <4> QED
        BY <3>3 DEF Fielded, Fields
    <3>6. CASE x.local
      BY <1>6, <2>1, <3>1, <3>5, <3>6 DEF Ended
    <3>7. CASE ~x.local
      <4> HIDE DEF y
      <4>1. prep'[r] = y => Choosing(r)'
        BY <1>1, <2>4, <3>3, <3>4, <3>5, <3>7 DEF Choosing
      <4> QED
        BY <1>4, <3>1, <4>1 DEF y
    <3> QED
      BY <3>6, <3>7
  <2> QED
    BY <2>3, <2>4
<1>9. CASE ListPullRequests(r)
  <2> DEFINE found == IF x.target \in prs THEN topics[x.target].id ELSE Unset
             y == [[x EXCEPT !.pc = "topic"] EXCEPT !["existing"] = found]
  <2>1. prep' = [prep EXCEPT ![r] = y] /\ x.pc = "prs"
    BY <1>9 DEF ListPullRequests, Learns
  <2>2. Fielded(x)
    BY <1>3 DEF Choosing
  <2>3. Fielded(y) /\ y.pc = "topic" /\ y.target = x.target /\ y.head = x.head
    <3> HIDE DEF x, found
    <3> QED
      BY <2>2 DEF Fielded, Fields
  <2> HIDE DEF y
  <2>4. prep'[r] = y => Choosing(r)'
    BY <1>1, <1>3, <2>1, <2>3 DEF Choosing, Ended
  <2> QED
    BY <1>4, <2>1, <2>4 DEF y
<1>10. CASE ReadTopic(r)
  <2> DEFINE t == topics[x.target]
             y == [[x EXCEPT !.pc = "push"] EXCEPT !["topic"] = t]
  <2>1. /\ x.pc = "topic"
        /\ \/ /\ t # Unset => Owned(t, x.target, x.head)
              /\ prep' = [prep EXCEPT ![r] = y]
           \/ Ends(r, "failed")
    BY <1>10 DEF ReadTopic, Learns
  <2>2. Fielded(x) /\ x.target \in Versions
    BY <1>3, <2>1 DEF Choosing
  <2>3. Fielded(y) /\ y.pc = "push" /\ y.target = x.target /\ y.head = x.head /\ y.topic = t
    <3> HIDE DEF x, t
    <3> QED
      BY <2>2 DEF Fielded, Fields
  <2>4. CASE Ends(r, "failed")
    BY <1>5, <2>4 DEF Ended
  <2>5. CASE (t # Unset => Owned(t, x.target, x.head)) /\ prep' = [prep EXCEPT ![r] = y]
    <3>1. t # Unset => Fit(t) /\ ~t.foreign /\ Declared(t.tree) = x.target
      <4> HAVE t # Unset
      <4>1. Fit(t)
        BY <2>2 DEF PrepInv, Origin
      <4>2. Declared(t.tree) = x.target /\ ~t.foreign
        BY <2>2, <2>5, DeclaredOf DEF Owned
      <4> QED
        BY <4>1, <4>2
    <3> HIDE DEF y
    <3>2. prep'[r] = y => Choosing(r)'
      BY <1>1, <1>3, <2>1, <2>3, <3>1 DEF Choosing, Ended, Fit
    <3> QED
      BY <1>4, <2>5, <3>2 DEF y
  <2> QED
    BY <2>1, <2>4, <2>5
<1>11. CASE Fail(r)
  BY <1>5, <1>11 DEF Fail, Ended
<1>12. CASE CheckFiles(r)
  BY <1>5, <1>12 DEF CheckFiles, Ended
<1>13. CASE \/ ReadFiles(r) \/ StageFiles(r) \/ Replace(r)
            \/ \E f \in VersionFiles : Recheck(r, f)
  <2> DEFINE y == prep'[r]
  <2>1. Fielded(x) /\ x.pc \notin Ended
    BY <1>3, <1>13 DEF Choosing, Ended, ReadFiles, StageFiles, Replace, Recheck
  <2>2. prep' = [prep EXCEPT ![r] = y] /\ Fielded(y) /\ y.head = x.head
        /\ y.pc \in {"stage", "replace", "replacing"}
    <3>1. CASE ReadFiles(r)
      <4> DEFINE todo == {f \in VersionFiles : checkout[f].v # x.target}
                 z == [x EXCEPT !.pc = "stage", !.read = checkout, !.todo = todo]
      <4>1. prep' = [prep EXCEPT ![r] = z] /\ y = z
        BY <1>3, <3>1 DEF ReadFiles
      <4> HIDE DEF x, y, todo
      <4>2. Fielded(z) /\ z.head = x.head /\ z.pc = "stage"
        BY <2>1 DEF Fielded, Fields
      <4> QED
        BY <4>1, <4>2
    <3>2. CASE StageFiles(r)
      <4> DEFINE z == [x EXCEPT !.pc = "replace"]
      <4>1. prep' = [prep EXCEPT ![r] = z] /\ y = z
        BY <1>3, <3>2 DEF StageFiles, Proceeds
      <4> HIDE DEF x, y
      <4>2. Fielded(z) /\ z.head = x.head /\ z.pc = "replace"
        BY <2>1 DEF Fielded, Fields
      <4> QED
        BY <4>1, <4>2
    <3>3. CASE Replace(r)
      BY <1>3, <2>1, <3>3 DEF Replace, Fielded, Fields
    <3>4. ASSUME NEW f \in VersionFiles, Recheck(r, f) PROVE <2>2
      BY <1>3, <2>1, <3>4 DEF Recheck, Fielded, Fields
    <3> QED
      BY <1>13, <3>1, <3>2, <3>3, <3>4
  <2> HIDE DEF y
  <2> QED
    BY <1>6, <2>1, <2>2
<1> QED
  BY <1>7, <1>8, <1>9, <1>10, <1>11, <1>12, <1>13

\* A push leaves what a person pushed, and what it pushes is fit.
LEMMA PushStep ==
    ASSUME PrepInv, NEW r \in Runs, Push(r)
    PROVE  /\ PrepInv' /\ UNCHANGED main
           /\ \A v \in Versions :
                topics[v] # Unset => ~topics[v].foreign \/ topics'[v] = topics[v]
<1> DEFINE x == prep[r]
           v == x.target
           old == x.topic
           at == IF old = Unset THEN x.head ELSE Max({old.at, x.head})
           new == Commit(NewTree(r), at, FALSE)
<1>1. /\ UNCHANGED <<main, tags, prs>> /\ x.pc = "push" /\ Choosing(r)
      /\ prep = [q \in Runs |-> prep[q]] /\ Fielded(x)
  BY DEF Push, PrepInv, Choosing
<1>2. /\ v \in Versions /\ x.head \in 1..Len(main) /\ ~Older(v, Declared(main[x.head]))
      /\ old # Unset => Fit(old) /\ ~old.foreign /\ Declared(old.tree) = v
  BY <1>1 DEF Choosing, Ended
<1>3. /\ Len(main) \in Nat /\ \A i \in 1..Len(main) : main[i] \in Trees
  BY <1>1, MainGrows
<1>4. Fit(new)
  <2>1. NewTree(r) \in Trees /\ Declared(NewTree(r)) = v
    <3>1. Taken(r).rest \in Nat
      BY <1>2, <1>3, TreeHas DEF Taken
    <3> QED
      BY <1>2, <3>1, DeclaredOf DEF NewTree, Trees
  <2>2. at \in 1..Len(main) /\ ~Older(v, Declared(main[at]))
    <3>1. CASE old = Unset
      BY <1>2, <3>1
    <3>2. CASE old # Unset
      <4>1. old.at \in 1..Len(main) /\ ~Older(v, Declared(main[old.at]))
        BY <1>2, <3>2 DEF Fit
      <4>2. ASSUME NEW i \in Int, NEW k \in Int PROVE Max({i, k}) \in {i, k}
        BY DEF Max
      <4>3. at \in {old.at, x.head}
        BY <1>2, <1>3, <3>2, <4>1, <4>2
      <4> HIDE DEF at
      <4> QED
        BY <1>2, <4>1, <4>3
    <3> QED
      BY <3>1, <3>2
  <2> HIDE DEF at, v
  <2> QED
    BY <2>1, <2>2 DEF Fit, Commit
<1>5. \/ topics' = topics /\ \E to \in Ended : Ends(r, to)
      \/ topics' = topics /\ Proceeds(r, "create")
      \/ /\ topics[v] \in {Unset, old} /\ topics' = [topics EXCEPT ![v] = new]
         /\ Proceeds(r, "create")
  BY DEF Push, FastForward, Ended
<1> HIDE DEF new
<1>6. Origin'
  <2>1. CASE topics' = topics
    BY <1>1, <2>1 DEF PrepInv, Origin, Fit
  <2>2. CASE topics' = [topics EXCEPT ![v] = new]
    <3>1. /\ topics' = [w \in Versions |-> topics'[w]] /\ topics'[v] = new
          /\ \A w \in Versions \ {v} : topics'[w] = topics[w]
      BY <1>2, <2>2 DEF PrepInv, Origin
    <3>2. \A w \in prs : w \in Versions /\ Fit(topics'[w])
      BY <1>4, <3>1 DEF PrepInv, Origin
    <3>3. \A w \in Versions : topics'[w] # Unset => Fit(topics'[w])
      BY <1>4, <3>1 DEF PrepInv, Origin
    <3> QED
      BY <1>1, <3>1, <3>2, <3>3 DEF PrepInv, Origin, Fit
  <2> QED
    BY <1>5, <2>1, <2>2
<1>7. PrepInv'
  <2> DEFINE y == prep'[r]
  <2>1. CASE \E to \in Ended : Ends(r, to)
    <3>1. PICK to \in Ended : prep' = [prep EXCEPT ![r] = [Start EXCEPT !.pc = to]]
      BY <2>1 DEF Ends
    <3>2. Fielded(y) /\ y.pc = to
      BY <1>1, <3>1 DEF Start, Fielded, Fields
    <3>3. Choosing(r)'
      BY <3>2 DEF Choosing, Ended, Fielded
    <3> QED
      BY <1>1, <1>6, <3>1, <3>3, OneRun
  <2>2. CASE Proceeds(r, "create")
    <3>1. prep' = [prep EXCEPT ![r].pc = "create"]
      BY <2>2 DEF Proceeds
    <3>2. Fielded(y) /\ y.pc = "create" /\ y.head = x.head /\ y.target = v /\ y.topic = old
      BY <1>1, <3>1 DEF Fielded, Fields
    <3>3. Choosing(r)'
      BY <1>1, <1>2, <3>2 DEF Choosing, Ended, Fit, Fielded
    <3> QED
      BY <1>1, <1>6, <3>1, <3>3, OneRun
  <2> QED
    BY <1>5, <2>1, <2>2
<1>8. ASSUME NEW w \in Versions, topics[w] # Unset PROVE ~topics[w].foreign \/ topics'[w] = topics[w]
  BY <1>2, <1>5, <1>8 DEF PrepInv, Origin
<1> QED
  BY <1>1, <1>7, <1>8

LEMMA CreateRequestStep ==
    ASSUME PrepInv, NEW r \in Runs, CreatePullRequest(r)
    PROVE  PrepInv' /\ UNCHANGED <<main, topics>>
<1> DEFINE x == prep[r]
<1>1. /\ UNCHANGED <<main, tags, topics>> /\ Ends(r, "done") /\ x.pc = "create"
      /\ \/ prs' = prs
         \/ x.target \in Versions /\ topics[x.target] # Unset /\ prs' = prs \union {x.target}
  BY DEF CreatePullRequest, PrepInv, Choosing
<1>2. Origin'
  BY <1>1 DEF PrepInv, Origin, Fit
<1>3. prep' = [prep EXCEPT ![r] = [Start EXCEPT !.pc = "done"]]
  BY <1>1 DEF Ends
<1>4. prep = [q \in Runs |-> prep[q]]
  BY DEF PrepInv
<1>5. Fielded(prep'[r]) /\ prep'[r].pc = "done"
  BY <1>3, <1>4 DEF Start, Fielded, Fields
<1>6. Choosing(r)'
  BY <1>5 DEF Choosing, Ended, Fielded
<1> QED
  BY <1>1, <1>2, <1>3, <1>4, <1>6, OneRun

LEMMA PrepStep ==
    ASSUME PrepInv, [PrepareNext]_prepareVars
    PROVE  PrepInv'
<1>1. CASE UNCHANGED prepareVars
  BY <1>1 DEF prepareVars, remote, PrepInv, Origin, Choosing, Fit
<1>2. ASSUME NEW r \in Runs, Push(r) PROVE PrepInv'
  BY <1>2, PushStep
<1>3. ASSUME NEW r \in Runs, CreatePullRequest(r) PROVE PrepInv'
  BY <1>3, CreateRequestStep
<1> QED
  BY <1>1, <1>2, <1>3, MainSteps, PeopleSteps, ReadingSteps DEF PrepareNext

\* The inductive invariant of a preparation: main's trees and every topic have
\* one version in all declared files, not older than where the topic branched
\* off, and a run is about to push no other.
THEOREM PreparationInvariant == PrepareSpec => []PrepInv
<1>1. PrepareInit => PrepInv
  BY PrepInit
<1>2. PrepInv /\ [PrepareNext]_prepareVars => PrepInv'
  BY PrepStep
<1> QED
  BY <1>1, <1>2, PTL DEF PrepareSpec

\* What somebody pushed to a topic is never replaced by a run.
THEOREM PushesKept == PrepareSpec => PeopleKept
<1> DEFINE Kept == \A v \in Versions :
                     IF topics[v] = Unset THEN TRUE
                     ELSE topics[v].foreign /\ prep' # prep => topics'[v] = topics[v]
<1>1. PrepInv /\ [PrepareNext]_prepareVars => [Kept]_prepareVars
  <2> SUFFICES ASSUME PrepInv, PrepareNext PROVE Kept
    OBVIOUS
  <2>1. CASE \E r \in Runs : Push(r)
    BY <2>1, PushStep
  <2>2. CASE topics' = topics \/ prep' = prep
    BY <2>2
  <2> HIDE DEF Kept
  <2> QED
    BY <2>1, <2>2, MainSteps, PeopleSteps, ReadingSteps, CreateRequestStep
       DEF PrepareNext, MainMoves, Merge
<1> QED
  BY <1>1, PreparationInvariant, PTL DEF PrepareSpec, PeopleKept

\* Main's version never goes back.
THEOREM MainForwards == PrepareSpec => NeverBack
<1> DEFINE Back == Older(Declared(main'[Len(main')]), Declared(Newest))
<1>1. PrepInv /\ [PrepareNext]_prepareVars => [~Back]_prepareVars
  <2> SUFFICES ASSUME PrepInv, PrepareNext PROVE ~Back
    OBVIOUS
  <2>1. CASE main' = main
    <3>1. Newest \in Trees /\ main'[Len(main')] = Newest
      BY <2>1, MainGrows DEF Newest
    <3>2. Declared(Newest) \in Nat \X Nat \X Nat
      BY <3>1, TreeHas, PrepareAssumption
    <3> QED
      BY <3>1, <3>2, OlderOrders
  <2> HIDE DEF Back
  <2>2. CASE MainMoves \/ \E v \in Versions : Merge(v)
    BY <2>2, MainSteps DEF Back
  <2>3. CASE \E r \in Runs : Push(r) \/ CreatePullRequest(r)
    BY <2>1, <2>3, PushStep, CreateRequestStep
  <2> QED
    BY <2>1, <2>2, <2>3, PeopleSteps, ReadingSteps DEF PrepareNext
<1> QED
  BY <1>1, PreparationInvariant, PTL DEF PrepareSpec, NeverBack

-----------------------------------------------------------------------------
\* Local runs.  A run that is about to replace a file has read its latest edit,
\* unless one came after the last look; and until the other run has replaced it
\* for good, the file has no earlier edit than that.
Underway == {"read", "stage", "replace", "replacing"}
Over == {"failed", "done", "unchanged"}
May(r, f) ==
    /\ prep[r].pc \notin Over
    /\ prep[r].pc \in {"replace", "replacing"} => f \in prep[r].todo
Replacing(r, f) == prep[r].pc = "replacing" /\ prep[r].file = f
Found(r, f) == prep[r].read[f].edit
Contents == [VersionFiles -> [v : Versions, edit : 0..deeds]]

Holding(r) ==
    /\ prep[r].pc \in Underway => prep[r].local /\ prep[r].target \in Versions
    /\ prep[r].pc \in Underway \ {"read"} => prep[r].read \in Contents
    /\ prep[r].pc = "replacing" => prep[r].file \in prep[r].todo \intersect VersionFiles
Current(r, f) ==
    Replacing(r, f) =>
        /\ <<r, f>> \notin overtaken => checkout[f].edit <= Found(r, f)
        /\ \A q \in Runs \ {r} :
             /\ May(q, f) => Found(r, f) <= checkout[f].edit
             /\ Replacing(q, f) /\ <<r, f>> \notin overtaken => Found(q, f) <= Found(r, f)

EditInv ==
    /\ deeds \in Nat /\ checkout \in Contents
    /\ \A r \in Runs : Holding(r) /\ \A f \in VersionFiles : Current(r, f)

LEMMA EditInit ==
    ASSUME PrepareInit
    PROVE  EditInv
<1>1. /\ deeds = 0 /\ prep = [r \in Runs |-> Start] /\ Start.pc = "idle"
      /\ checkout = [f \in VersionFiles |-> [v |-> First, edit |-> 0]] /\ First \in Versions
  BY PrepareAssumption DEF PrepareInit, Clean, Tree, Start
<1> QED
  BY <1>1 DEF EditInv, Contents, Holding, Current, Replacing, Underway

\* A step of one run that does not leave it about to replace a file, nor with
\* a file to replace that it had not before.
LEMMA QuietStep ==
    ASSUME EditInv, NEW r \in Runs, UNCHANGED <<checkout, deeds, overtaken>>,
           \A q \in Runs \ {r} : prep'[q] = prep[q],
           Holding(r)', prep'[r].pc # "replacing",
           prep[r].pc \notin Over \union {"replace", "replacing"} \/ prep'[r].pc \in Over
    PROVE  EditInv'
<1>1. deeds' \in Nat /\ checkout' \in Contents' /\ Contents' = Contents
  BY DEF EditInv, Contents
<1>2. \A f : (May(r, f)' => May(r, f)) /\ ~Replacing(r, f)'
  BY DEF May, Replacing, Over
<1>3. ASSUME NEW q \in Runs \ {r}
      PROVE  \A f : May(q, f)' = May(q, f) /\ Replacing(q, f)' = Replacing(q, f) /\ Found(q, f)' = Found(q, f)
  BY <1>3 DEF May, Replacing, Found
<1>4. ASSUME NEW q \in Runs PROVE Holding(q)'
  <2>1. CASE q # r
    BY <1>1, <2>1 DEF EditInv, Holding
  <2> QED
    BY <2>1
<1>5. ASSUME NEW q \in Runs, NEW f \in VersionFiles PROVE Current(q, f)'
  <2>1. CASE q # r
    BY <1>2, <1>3, <2>1 DEF EditInv, Current
  <2> QED
    BY <1>2, <2>1 DEF Current
<1> QED
  BY <1>1, <1>4, <1>5 DEF EditInv

LEMMA QuietSteps ==
    ASSUME PrepInv, EditInv, NEW r \in Runs,
           \/ Checkout(r) \/ ReadTags(r) \/ Fail(r) \/ ListPullRequests(r)
           \/ ReadTopic(r) \/ Push(r) \/ CreatePullRequest(r)
           \/ ReadFiles(r) \/ StageFiles(r) \/ CheckFiles(r)
    PROVE  EditInv'
<1> DEFINE x == prep[r]
<1>1. UNCHANGED <<checkout, deeds, overtaken>>
  BY DEF Checkout, ReadTags, Fail, ListPullRequests, ReadTopic,
         Push, CreatePullRequest, ReadFiles, StageFiles, CheckFiles
<1>2. /\ prep = [q \in Runs |-> prep[q]] /\ Fielded(x) /\ Holding(r)
      /\ checkout \in Contents
  BY DEF PrepInv, Choosing, EditInv
<1>3. ASSUME NEW y, prep' = [prep EXCEPT ![r] = y],
             x.pc \notin Over \union {"replace", "replacing"} \/ y.pc \in Over,
             y.pc # "replacing",
             y.pc \in Underway => y.local /\ y.target \in Versions,
             y.pc \in Underway \ {"read"} => y.read \in Contents
      PROVE  EditInv'
  <2>1. prep'[r] = y /\ \A q \in Runs \ {r} : prep'[q] = prep[q]
    BY <1>2, <1>3
  <2>2. Holding(r)'
    BY <1>1, <1>3, <2>1 DEF Holding, Contents
  <2> QED
    BY <1>1, <1>3, <2>1, <2>2, QuietStep
<1>4. ASSUME NEW to \in Over, Ends(r, to) PROVE EditInv'
  <2> DEFINE y == [Start EXCEPT !.pc = to]
  <2>1. prep' = [prep EXCEPT ![r] = y] /\ y.pc = to
    BY <1>4 DEF Ends, Start
  <2> HIDE DEF y
  <2> QED
    BY <1>3, <2>1 DEF Over, Underway
<1>5. ASSUME NEW y, prep' = [prep EXCEPT ![r] = y],
             x.pc \notin Over \union {"replace", "replacing"}, y.pc \in {"tags", "prs", "topic", "push", "create"}
      PROVE  EditInv'
  BY <1>3, <1>5 DEF Underway
<1>6. ASSUME NEW to, NEW k \in Fields \ {"pc"}, NEW v
      PROVE  LET y == [[x EXCEPT !.pc = to] EXCEPT ![k] = v]
             IN y.pc = to /\ y[k] = v /\ \A l \in Fields \ {"pc", k} : y[l] = x[l]
  <2> HIDE DEF x
  <2> QED
    BY <1>2 DEF Fielded, Fields
<1>7. CASE Checkout(r)
  <2>1. PICK local \in BOOLEAN :
          prep' = [prep EXCEPT ![r] =
               [Start EXCEPT !.pc = "tags", !.local = local, !.head = Len(main),
                             !.fetched = {v \in Versions : tags[v] = "merged"}]]
    BY <1>7 DEF Checkout
  <2> DEFINE y == [Start EXCEPT !.pc = "tags", !.local = local, !.head = Len(main),
                             !.fetched = {v \in Versions : tags[v] = "merged"}]
  <2>2. y.pc = "tags" /\ x.pc = "idle"
    BY <1>7 DEF Checkout, Start
  <2> HIDE DEF y
  <2> QED
    BY <1>5, <2>1, <2>2 DEF y, Over
<1>8. CASE ReadTags(r)
  <2>1. x.pc = "tags" /\ \E target :
          \/ Ends(r, "failed")
          \/ /\ target \in Versions
             /\ Learns(r, IF x.local THEN "read" ELSE "prs", "target", target)
    BY <1>8 DEF ReadTags
  <2>2. PICK target :
          \/ Ends(r, "failed")
          \/ /\ target \in Versions
             /\ Learns(r, IF x.local THEN "read" ELSE "prs", "target", target)
    BY <2>1
  <2> DEFINE to == IF x.local THEN "read" ELSE "prs"
             y == [[x EXCEPT !.pc = to] EXCEPT !["target"] = target]
  <2>3. CASE Ends(r, "failed")
    BY <1>4, <2>3 DEF Over
  <2>4. CASE target \in Versions /\ prep' = [prep EXCEPT ![r] = y]
    <3>1. y.pc = to /\ y.target = target /\ y.local = x.local
      BY <1>6 DEF Fields
    <3> HIDE DEF y
    <3>2. x.pc \notin Over \union {"replace", "replacing"} /\ y.pc \in {"read", "prs"}
      BY <2>1, <3>1 DEF Over
    <3>3. y.pc \in Underway => y.local /\ y.target \in Versions
      BY <2>4, <3>1 DEF Underway
    <3> QED
      BY <1>3, <2>4, <3>2, <3>3 DEF y, Underway
  <2> QED
    BY <2>2, <2>3, <2>4 DEF Learns
<1>9. CASE ListPullRequests(r)
  <2> DEFINE found == IF x.target \in prs THEN topics[x.target].id ELSE Unset
             y == [[x EXCEPT !.pc = "topic"] EXCEPT !["existing"] = found]
  <2>1. prep' = [prep EXCEPT ![r] = y] /\ x.pc = "prs"
    BY <1>9 DEF ListPullRequests, Learns
  <2>2. y.pc = "topic"
    <3> HIDE DEF found, x
    <3> QED
      BY <1>2 DEF Fielded, Fields
  <2> HIDE DEF y
  <2> QED
    BY <1>5, <2>1, <2>2 DEF Over
<1>10. CASE ReadTopic(r)
  <2> DEFINE t == topics[x.target]
             y == [[x EXCEPT !.pc = "push"] EXCEPT !["topic"] = t]
  <2>1. x.pc = "topic" /\ (prep' = [prep EXCEPT ![r] = y] \/ Ends(r, "failed"))
    BY <1>10 DEF ReadTopic, Learns
  <2>2. y.pc = "push"
    <3> HIDE DEF t, x
    <3> QED
      BY <1>2 DEF Fielded, Fields
  <2> HIDE DEF y
  <2> QED
    BY <1>4, <1>5, <2>1, <2>2 DEF Over
<1>11. CASE Push(r)
  <2> DEFINE y == [x EXCEPT !.pc = "create"]
  <2>1. x.pc = "push" /\ (prep' = [prep EXCEPT ![r] = y] \/ Ends(r, "unchanged"))
    BY <1>2, <1>11 DEF Push, Proceeds
  <2>2. y.pc = "create"
    BY <1>2 DEF Fielded, Fields
  <2> HIDE DEF y
  <2> QED
    BY <1>4, <1>5, <2>1, <2>2 DEF Over
<1>12. CASE CreatePullRequest(r) \/ Fail(r) \/ CheckFiles(r)
  BY <1>4, <1>12 DEF CreatePullRequest, Fail, CheckFiles, Over
<1>13. CASE ReadFiles(r)
  <2> DEFINE y == prep'[r]
  <2>1. /\ prep' = [prep EXCEPT ![r] = y] /\ x.pc = "read"
        /\ y.pc = "stage" /\ y.read = checkout /\ y.local = x.local /\ y.target = x.target
    BY <1>2, <1>13 DEF ReadFiles, Fielded, Fields
  <2> HIDE DEF y
  <2>2. x.local /\ x.target \in Versions
    BY <1>2, <2>1 DEF Holding, Underway
  <2> QED
    BY <1>2, <1>3, <2>1, <2>2 DEF Over
<1>14. CASE StageFiles(r)
  <2> DEFINE y == prep'[r]
  <2>1. /\ prep' = [prep EXCEPT ![r] = y] /\ x.pc = "stage"
        /\ y.pc = "replace" /\ y.read = x.read /\ y.local = x.local /\ y.target = x.target
    BY <1>2, <1>14 DEF StageFiles, Proceeds, Fielded, Fields
  <2> HIDE DEF y
  <2>2. x.local /\ x.target \in Versions /\ x.read \in Contents
    BY <1>2, <2>1 DEF Holding, Underway
  <2> QED
    BY <1>2, <1>3, <2>1, <2>2 DEF Over
<1> QED
  BY <1>7, <1>8, <1>9, <1>10, <1>11, <1>12, <1>13, <1>14

\* The last look at a file finds it as it was read.
LEMMA RecheckStep ==
    ASSUME PrepInv, EditInv, NEW r \in Runs, NEW f \in VersionFiles, Recheck(r, f)
    PROVE  EditInv'
<1> DEFINE x == prep[r]
<1>1. /\ UNCHANGED <<checkout, deeds>> /\ overtaken' = overtaken \ {<<r, f>>}
      /\ x.pc = "replace" /\ f \in x.todo /\ checkout[f] = x.read[f]
      /\ prep' = [prep EXCEPT ![r].pc = "replacing", ![r].file = f]
  BY DEF Recheck, Unchanged
<1>2. prep = [q \in Runs |-> prep[q]] /\ Fielded(x) /\ Holding(r)
  BY DEF PrepInv, Choosing, EditInv
<1>3. /\ prep'[r].pc = "replacing" /\ prep'[r].file = f
      /\ prep'[r].local = x.local /\ prep'[r].target = x.target
      /\ prep'[r].read = x.read /\ prep'[r].todo = x.todo
      /\ \A q \in Runs \ {r} : prep'[q] = prep[q]
  BY <1>1, <1>2 DEF Fielded, Fields
<1> HIDE DEF x
<1>4. deeds' \in Nat /\ checkout' \in Contents' /\ Contents' = Contents
  BY <1>1 DEF EditInv, Contents
<1>5. \A q \in Runs : Holding(q)'
  <2>1. Holding(r)'
    BY <1>1, <1>2, <1>3, <1>4 DEF Holding, Underway, x
  <2>2. ASSUME NEW q \in Runs \ {r} PROVE Holding(q)'
    BY <1>3, <1>4 DEF EditInv, Holding
  <2> QED
    BY <2>1, <2>2
<1>6. /\ \A g : Replacing(r, g)' <=> g = f
      /\ Found(r, f)' = Found(r, f) /\ Found(r, f) = checkout[f].edit
      /\ May(r, f) /\ \A g : May(r, g)' => May(r, g)
  BY <1>1, <1>3 DEF Replacing, Found, May, Over, x
<1>7. ASSUME NEW q \in Runs \ {r}
      PROVE  \A g : May(q, g)' = May(q, g) /\ Replacing(q, g)' = Replacing(q, g) /\ Found(q, g)' = Found(q, g)
  BY <1>3 DEF May, Replacing, Found
<1>8. checkout \in Contents /\ deeds \in Nat
  BY DEF EditInv
<1>9. checkout[f].edit \in Nat
  BY <1>8 DEF Contents
<1>10. ASSUME NEW q \in Runs \ {r}, NEW g \in VersionFiles PROVE Current(q, g)'
  <2> SUFFICES ASSUME Replacing(q, g)
               PROVE  /\ <<q, g>> \notin overtaken => checkout[g].edit <= Found(q, g)
                      /\ \A p \in Runs \ {q} :
                           /\ May(p, g)' => Found(q, g) <= checkout[g].edit
                           /\ Replacing(p, g)' /\ <<q, g>> \notin overtaken => Found(p, g)' <= Found(q, g)
    BY <1>1, <1>7 DEF Current
  <2>1. Current(q, g)
    BY DEF EditInv
  <2>2. /\ <<q, g>> \notin overtaken => checkout[g].edit <= Found(q, g)
        /\ \A p \in Runs \ {q} :
             /\ May(p, g) => Found(q, g) <= checkout[g].edit
             /\ Replacing(p, g) /\ <<q, g>> \notin overtaken => Found(p, g) <= Found(q, g)
    BY <2>1 DEF Current
  <2>3. ASSUME NEW p \in Runs \ {q}
        PROVE  /\ May(p, g)' => Found(q, g) <= checkout[g].edit
               /\ Replacing(p, g)' /\ <<q, g>> \notin overtaken => Found(p, g)' <= Found(q, g)
    <3>1. CASE p = r
      BY <1>6, <2>2, <3>1
    <3>2. CASE p # r
      BY <1>7, <2>2, <3>2
    <3> QED
      BY <3>1, <3>2
  <2> QED
    BY <2>2, <2>3
<1>11. Current(r, f)'
  <2>1. ASSUME NEW q \in Runs \ {r}, Replacing(q, f) PROVE Found(q, f) <= checkout[f].edit
    BY <1>6, <2>1 DEF EditInv, Current
  <2>2. checkout'[f].edit <= Found(r, f)'
    BY <1>1, <1>6, <1>9
  <2>3. ASSUME NEW q \in Runs \ {r}
        PROVE  /\ Found(r, f)' <= checkout'[f].edit
               /\ Replacing(q, f)' => Found(q, f)' <= Found(r, f)'
    BY <1>1, <1>6, <1>7, <1>9, <2>1
  <2> QED
    BY <2>2, <2>3 DEF Current
<1>12. \A g \in VersionFiles : Current(r, g)'
  BY <1>6, <1>11 DEF Current
<1> QED
  BY <1>4, <1>5, <1>10, <1>12 DEF EditInv

\* A replacement puts back no edit but one that came after the last look.
LEMMA ReplaceStep ==
    ASSUME PrepInv, EditInv, NEW r \in Runs, Replace(r),
           \E a, b : Runs \subseteq {a, b}
    PROVE  /\ EditInv'
           /\ \A q \in Runs \ {r} : prep'[q] = prep[q]
           /\ \A f \in VersionFiles : checkout'[f].edit < checkout[f].edit => <<r, f>> \in overtaken
<1> DEFINE x == prep[r]
           f == x.file
<1>1. /\ UNCHANGED <<deeds, overtaken>> /\ x.pc = "replacing"
      /\ checkout' = [checkout EXCEPT ![f] = [x.read[f] EXCEPT !.v = x.target]]
      /\ prep' = [prep EXCEPT ![r].pc = "replace", ![r].todo = @ \ {f}]
  BY DEF Replace
<1>2. /\ prep = [q \in Runs |-> prep[q]] /\ Fielded(x) /\ Holding(r)
      /\ checkout \in Contents /\ deeds \in Nat
  BY DEF PrepInv, Choosing, EditInv
<1>3. /\ prep'[r].pc = "replace" /\ prep'[r].todo = x.todo \ {f}
      /\ prep'[r].local = x.local /\ prep'[r].target = x.target /\ prep'[r].read = x.read
      /\ \A q \in Runs \ {r} : prep'[q] = prep[q]
  BY <1>1, <1>2 DEF Fielded, Fields
<1>4. x.local /\ x.target \in Versions /\ x.read \in Contents /\ f \in x.todo /\ f \in VersionFiles
  BY <1>1, <1>2 DEF Holding, Underway
<1> HIDE DEF f, x
<1>5. /\ checkout' \in Contents /\ checkout'[f].edit = Found(r, f)
      /\ \A g \in VersionFiles \ {f} : checkout'[g] = checkout[g]
  <2>1. /\ [x.read[f] EXCEPT !.v = x.target] \in [v : Versions, edit : 0..deeds]
        /\ [x.read[f] EXCEPT !.v = x.target].edit = x.read[f].edit
    BY <1>4 DEF Contents
  <2> QED
    BY <1>1, <1>2, <1>4, <2>1 DEF Contents, Found, x
<1>6. Contents' = Contents /\ deeds' \in Nat /\ checkout' \in Contents'
  BY <1>1, <1>2, <1>5 DEF Contents
<1>7. \A q \in Runs : Holding(q)'
  <2>1. Holding(r)'
    BY <1>3, <1>4, <1>6 DEF Holding
  <2>2. ASSUME NEW q \in Runs \ {r} PROVE Holding(q)'
    BY <1>3, <1>6 DEF EditInv, Holding
  <2> QED
    BY <2>1, <2>2
<1>8. /\ \A g : ~Replacing(r, g)' /\ (May(r, g)' => g # f /\ May(r, g))
      /\ Replacing(r, f)
  BY <1>1, <1>3 DEF Replacing, May, Over, x, f
<1>9. ASSUME NEW q \in Runs \ {r}
      PROVE  \A g : May(q, g)' = May(q, g) /\ Replacing(q, g)' = Replacing(q, g) /\ Found(q, g)' = Found(q, g)
  BY <1>3 DEF May, Replacing, Found
<1>10. \A q, p \in Runs \ {r} : p = q
  OBVIOUS
<1>11. \A q \in Runs, g \in VersionFiles : Current(q, g)
  BY DEF EditInv
<1>12. ASSUME NEW q \in Runs \ {r}, NEW g \in VersionFiles PROVE Current(q, g)'
  <2> SUFFICES ASSUME Replacing(q, g)
               PROVE  /\ <<q, g>> \notin overtaken => checkout'[g].edit <= Found(q, g)
                      /\ May(r, g)' => Found(q, g) <= checkout'[g].edit
    BY <1>1, <1>8, <1>9, <1>10 DEF Current
  <2>1. CASE g = f
    BY <1>4, <1>5, <1>8, <1>11, <2>1 DEF Current
  <2>2. CASE g # f
    BY <1>5, <1>8, <1>11, <2>2 DEF Current
  <2> QED
    BY <2>1, <2>2
<1>13. EditInv'
  BY <1>6, <1>7, <1>8, <1>12 DEF EditInv, Current
<1>14. ASSUME NEW g \in VersionFiles, checkout'[g].edit < checkout[g].edit PROVE <<r, g>> \in overtaken
  <2>1. checkout[g].edit \in Nat
    BY <1>2 DEF Contents
  <2>2. g = f
    BY <1>5, <1>14, <2>1
  <2>3. Found(r, f) \in Nat
    BY <1>4 DEF Found, Contents, x
  <2> QED
    BY <1>5, <1>8, <1>11, <1>14, <2>1, <2>2, <2>3 DEF Current
<1> QED
  BY <1>3, <1>13, <1>14

\* An editor's change is the file's latest; a run about to replace it is late.
LEMMA EditStep ==
    ASSUME PrepInv, EditInv, NEW f \in VersionFiles, Edit(f)
    PROVE  EditInv'
<1>1. /\ UNCHANGED prep /\ deeds' = deeds + 1
      /\ checkout' = [checkout EXCEPT ![f].edit = deeds + 1]
      /\ overtaken' = overtaken \union {<<r, f>> : r \in {q \in Runs : Replacing(q, f)}}
  BY DEF Edit, Deed, Replacing
<1>2. deeds \in Nat /\ checkout \in Contents
  BY DEF EditInv
<1>3. deeds' \in Nat /\ \A j \in 0..deeds : j \in 0..deeds'
  BY <1>1, <1>2
<1>4. /\ checkout' \in Contents' /\ checkout'[f].edit = deeds + 1
      /\ \A g \in VersionFiles \ {f} : checkout'[g] = checkout[g]
  BY <1>1, <1>2, <1>3 DEF Contents
<1>5. \A c \in Contents : c \in Contents'
  BY <1>3 DEF Contents
<1>6. ASSUME NEW r \in Runs PROVE Holding(r)'
  BY <1>1, <1>5 DEF EditInv, Holding
<1>7. ASSUME NEW r \in Runs, NEW g \in VersionFiles PROVE Current(r, g)'
  <2>1. \A q \in Runs : May(q, g)' = May(q, g) /\ Replacing(q, g)' = Replacing(q, g) /\ Found(q, g)' = Found(q, g)
    BY <1>1 DEF May, Replacing, Found
  <2>2. Current(r, g) /\ Holding(r)
    BY DEF EditInv
  <2>3. CASE g # f
    BY <1>1, <1>4, <2>1, <2>2, <2>3 DEF Current
  <2>4. CASE g = f /\ Replacing(r, f)
    <3>1. <<r, f>> \in overtaken'
      BY <1>1, <2>4
    <3>2. Found(r, f) \in 0..deeds
      <4>1. prep[r].read \in Contents
        BY <2>2, <2>4 DEF Holding, Replacing, Underway
      <4> QED
        BY <4>1 DEF Found, Contents
    <3>3. Found(r, f) <= checkout'[f].edit
      BY <1>2, <1>4, <3>2
    <3> QED
      BY <2>1, <2>4, <3>1, <3>3 DEF Current
  <2>5. CASE g = f /\ ~Replacing(r, f)
    BY <2>1, <2>5 DEF Current
  <2> QED
    BY <2>3, <2>4, <2>5
<1> QED
  BY <1>3, <1>4, <1>6, <1>7 DEF EditInv

\* Only a checkout in which no run is under way is brought up to date.
LEMMA PullStep ==
    ASSUME PrepInv, EditInv, Pull
    PROVE  EditInv'
<1>1. /\ \A r \in Runs : prep[r].local => prep[r].pc \in {"failed", "done"}
      /\ checkout' = Clean(Newest) /\ UNCHANGED <<deeds, prep>>
  BY DEF Pull
<1>2. Newest \in Trees
  BY DEF Newest, PrepInv, Origin
<1>3. checkout' \in Contents' /\ deeds' \in Nat
  <2>1. Declared(Newest) \in Versions
        /\ Newest.files = [f \in VersionFiles |-> Declared(Newest)]
    BY <1>2, TreeHas
  <2> QED
    BY <1>1, <2>1 DEF Contents, Clean, EditInv
<1>4. ASSUME NEW r \in Runs PROVE Holding(r)' /\ \A f : ~Replacing(r, f)'
  BY <1>1 DEF EditInv, Holding, Replacing, Underway
<1> QED
  BY <1>3, <1>4 DEF EditInv, Current

LEMMA EditingStep ==
    ASSUME \E a, b : Runs \subseteq {a, b},
           PrepInv, EditInv, [PrepareNext]_prepareVars
    PROVE  EditInv'
<1>1. CASE UNCHANGED <<checkout, prep, deeds, overtaken>>
  BY <1>1 DEF EditInv, Holding, Current, Contents, May, Replacing, Found
<1>2. CASE \/ MainMoves \/ \E v \in Versions : \/ Merge(v) \/ ReleaseTag(v)
                                                    \/ PersonPushes(v) \/ DeleteTopic(v)
  <2>1. /\ UNCHANGED <<checkout, prep, overtaken>> /\ deeds' \in {deeds, deeds + 1}
    BY <1>2 DEF MainMoves, Merge, ReleaseTag, PersonPushes, DeleteTopic, Deed
  <2>2. deeds \in Nat
    BY DEF EditInv
  <2>3. deeds' \in Nat /\ \A j \in 0..deeds : j \in 0..deeds'
    BY <2>1, <2>2
  <2>4. \A c \in Contents : c \in Contents'
    BY <2>3 DEF Contents
  <2> QED
    BY <2>1, <2>3, <2>4 DEF EditInv, Holding, Current, May, Replacing, Found
<1>3. ASSUME NEW r \in Runs, Replace(r) PROVE EditInv'
  BY <1>3, ReplaceStep
<1>4. ASSUME NEW f \in VersionFiles, Edit(f) PROVE EditInv'
  BY <1>4, EditStep
<1>5. ASSUME NEW r \in Runs, NEW f \in VersionFiles, Recheck(r, f) PROVE EditInv'
  BY <1>5, RecheckStep
<1>6. CASE Pull
  BY <1>6, PullStep
<1>7. UNCHANGED prepareVars => UNCHANGED <<checkout, prep, deeds, overtaken>>
  BY DEF prepareVars
<1> QED
  BY <1>1, <1>2, <1>3, <1>4, <1>5, <1>6, <1>7, QuietSteps DEF PrepareNext

\* An editor's change to a version file survives the local runs, of which there
\* are two at most, unless it came after the last look at the file.
THEOREM EditsSurvive ==
    ASSUME \E a, b : Runs \subseteq {a, b}
    PROVE  PrepareSpec => EditsKept
<1> DEFINE Kept == \A f \in VersionFiles, r \in Runs :
                     checkout'[f].edit < checkout[f].edit /\ prep'[r] # prep[r] => <<r, f>> \in overtaken
<1>1. PrepareInit => EditInv
  BY EditInit
<1>2. PrepInv /\ EditInv /\ [PrepareNext]_prepareVars => EditInv'
  BY EditingStep
<1>3. PrepInv /\ EditInv /\ [PrepareNext]_prepareVars => [Kept]_prepareVars
  <2> SUFFICES ASSUME PrepInv, EditInv, PrepareNext PROVE Kept
    OBVIOUS
  <2>1. \A f \in VersionFiles : checkout[f].edit \in Nat
    BY DEF EditInv, Contents
  <2>2. CASE \E r \in Runs : Replace(r)
    BY <2>2, ReplaceStep
  <2>3. CASE checkout' = checkout \/ UNCHANGED prep
    BY <2>1, <2>3
  <2> HIDE DEF Kept
  <2> QED
    BY <2>2, <2>3
       DEF PrepareNext, Checkout, ReadTags, Fail, ListPullRequests, ReadTopic,
           Push, CreatePullRequest, ReadFiles, StageFiles, CheckFiles,
           Recheck, MainMoves, Merge, ReleaseTag, PersonPushes,
           DeleteTopic, Edit, Pull, Deed
<1> QED
  BY <1>1, <1>2, <1>3, PreparationInvariant, PTL DEF PrepareSpec, EditsKept

=============================================================================
