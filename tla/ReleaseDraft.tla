---------------------------- MODULE ReleaseDraft ----------------------------
(***************************************************************************)
(* The publication of a release candidate and its promotion to a stable    *)
(* release, as release_control carries them out on GitHub: a tag, a draft, *)
(* its assets one by one, their verification and the switch to public.     *)
(* Answers are lost, reads fail, and people with access to the repository  *)
(* create, edit, publish and delete releases, replace assets and move tags *)
(* at any point.  A release's body carries the nonce of the run that made  *)
(* it, so a body is the name of its author.                                *)
(***************************************************************************)
EXTENDS Naturals, Sequences, SequencesExt, FiniteSets, FiniteSetsExt

CONSTANTS
    Files,        \* the release's files, in order, the manifest among them
    Extra,        \* the name of a file that is not one of them
    PageSize,     \* releases on a page of an inventory (100)
    MaxReleases,  \* bound: releases ever created
    MaxActs       \* bound: what people do

ASSUME DraftAssumption == /\ Files \in Seq(ToSet(Files)) /\ IsInjective(Files)
                          /\ Len(Files) > 1 /\ Extra \notin ToSet(Files)
                          /\ "tag" \notin ToSet(Files) \union {Extra}
                          /\ PageSize \in Nat \ {0}
                          /\ MaxReleases \in Nat \ {0} /\ MaxActs \in Nat

Names == ToSet(Files) \union {Extra}
Jobs == {"rc", "stable"}

VARIABLES
    releases,  \* GitHub's releases, the newest first
    made,      \* releases created so far
    refs,      \* the two tags: "none", "source" or "moved"
    job,       \* the transaction under way, "rc" first
    pc,        \* how far it is
    n,         \* the file it is at
    stage,     \* the private staging directory
    release,   \* the ID of its draft, 0 while it has none
    listed,    \* an inventory it has read: assets by name, and the release
    read,      \* the two readings of the list of releases
    acts,      \* what people have done so far
    run,       \* what Actions reports of the run: its status and its gate
    late       \* history: files, and the tag, that they changed in the
               \* draft after the run verified them

github == <<releases, made, refs>>
memory == <<n, stage, release, listed, read>>
vars == <<github, job, pc, memory, acts, run, late>>

NoAsset == [gen |-> 0, bytes |-> "none", state |-> "none"]
Empty == [f \in Names |-> NoAsset]
NoList == [id |-> 0, stamp |-> 0, assets |-> Empty]
NoRead == [pass |-> 1, page |-> 1, rows |-> [i \in {1, 2} |-> <<>>]]

Queued == [status |-> "queued", gate |-> "none"]

Draft(tag, who) == [id |-> made + 1, tag |-> tag, creator |-> who, body |-> who,
                    draft |-> TRUE, stamp |-> 0, assets |-> Empty]

Init == /\ releases = <<[id |-> 1, tag |-> "older", creator |-> "older", body |-> "older",
                         draft |-> FALSE, stamp |-> 0, assets |-> Empty]>>
        /\ made = 1 /\ refs = [j \in Jobs |-> "none"]
        /\ job = "rc" /\ pc = "wait" /\ n = 1
        /\ stage = [f \in Names |-> "none"]
        /\ release = 0 /\ listed = NoList /\ read = NoRead
        /\ acts = 0 /\ run = Queued /\ late = {}

-----------------------------------------------------------------------------
(* GitHub's answers                                                        *)

Known(id) == \E i \in DOMAIN releases : releases[i].id = id
Release(id) == releases[CHOOSE i \in DOMAIN releases : releases[i].id = id]
Becomes(id, r) ==
    releases' = [i \in DOMAIN releases |-> IF releases[i].id = id THEN r ELSE releases[i]]
Public(tag) == {r \in ToSet(releases) : r.tag = tag /\ ~r.draft}

Goes(from, to) == pc = from /\ pc' = to
(* A command that fails ends the run, whatever it has left on GitHub.      *)
Fails(from) == pc = from /\ pc' = "failed"

(* A write is sent once: it has happened or not when its answer is lost.   *)
Lost(from, write, kept) == Fails(from) /\ (write \/ kept)

(* A read fails three times, a limit of the readback is reached, or the    *)
(* run ends before its next request.                                       *)
GiveUp == /\ pc \notin {"done", "failed"} /\ pc' = "failed"
          /\ UNCHANGED <<github, job, memory, acts, run, late>>

(* download_asset: by its ID, so a replaced asset is not found.            *)
Downloads(id, f, gen) ==
    /\ Known(id)
    /\ Release(id).assets[f] # NoAsset /\ Release(id).assets[f].gen = gen

-----------------------------------------------------------------------------
(* One transaction: _publish_prepared                                      *)

(* release_gate_ready: the gate before the run's publication job.          *)
GateReady == job = "stable" \/ run.gate = "success"
GateFailed == job = "rc" /\ run.status = "in_progress" /\ run.gate = "failure"

(* wait_for_executing_run: what Actions reports of a run that is executing *)
(* lags behind; it waits for five minutes, then gives up.                  *)
WaitForExecutingRun ==
    /\ \/ /\ run.status = "in_progress" /\ GateReady
          /\ Goes("wait", IF job = "rc" THEN "stage" ELSE "snapref")
       \/ (run.status = "completed" \/ GateFailed) /\ Fails("wait")
    /\ UNCHANGED <<github, job, memory, acts, run, late>>

(* Actions: the run is cancelled, or reported and its gate ends, at last.  *)
Report ==
    /\ pc = "wait"
    /\ \/ /\ run.status # "completed"
          /\ run' \in {[run EXCEPT !.status = next] : next \in {"in_progress", "completed"}}
       \/ run.gate = "none" /\ job = "rc" /\ run' = [run EXCEPT !.gate = "running"]
       \/ /\ run.gate = "running"
          /\ run' \in {[run EXCEPT !.gate = end] : end \in {"success", "failure"}}
    /\ UNCHANGED <<github, job, pc, memory, acts, late>>

(* stage_assets: private copies, which the manifest has the digests of.    *)
StageAssets ==
    /\ Goes("stage", "absent")
    /\ stage' = [f \in Names |-> IF f = Extra THEN "none" ELSE "built"]
    /\ UNCHANGED <<github, job, n, release, listed, read, acts, run, late>>

(* ensure_absent: promote also asks, once it has the manifest.             *)
Absent == refs[job] = "none" /\ \A i \in DOMAIN releases : releases[i].tag # job

CheckAbsent ==
    /\ \/ Absent /\ (Goes("absent", "tag") \/ Goes("unused", "download"))
       \/ ~Absent /\ (Fails("absent") \/ Fails("unused"))
    /\ UNCHANGED <<github, job, memory, acts, run, late>>

CreateTag ==
    /\ \/ Goes("tag", "create") /\ refs[job] = "none" /\ refs' = [refs EXCEPT ![job] = "source"]
       \/ Fails("tag") /\ refs[job] # "none" /\ refs' = refs
       \/ Lost("tag", refs[job] = "none" /\ refs' = [refs EXCEPT ![job] = "source"], refs' = refs)
    /\ UNCHANGED <<releases, made, job, memory, acts, run, late>>

Created == /\ made < MaxReleases /\ made' = made + 1
           /\ releases' = <<Draft(job, job)>> \o releases

(* create_release_once: the answer may leave open whether there is a draft *)
(* now.  A candidate then looks for it; a promotion gives up.              *)
CreateDraft ==
    /\ \/ Goes("create", "upload") /\ Created /\ release' = made'
       \/ /\ Goes("create", IF job = "rc" THEN "pages" ELSE "failed")
          /\ (Created \/ UNCHANGED <<releases, made>>) /\ release' = release
       \/ Fails("create") /\ UNCHANGED <<releases, made, release>>
    /\ UNCHANGED <<refs, job, n, stage, listed, read, acts, run, late>>

\* Mutated form: any empty draft of the tag will do.
CheckedByTag(r) == r.draft /\ r.assets = Empty

(* checked_release: the draft is word for word the one that was asked for. *)
Checked(r) == r.draft /\ r.assets = Empty /\ r.body = job

Row(r) == [id |-> r.id, tag |-> r.tag, checked |-> Checked(r)]

(* CreateReadback.pages: the list is read page by page while it changes. A *)
(* full page without a next link is followed by one more.                  *)
ReadPage ==
    /\ pc = "pages"
    /\ LET from == (read.page - 1) * PageSize + 1
           upto == Min({read.page * PageSize, Len(releases)})
           rows == [i \in 1..(IF from > upto THEN 0 ELSE upto - from + 1) |->
                      Row(releases[from + i - 1])]
           known == read.rows[read.pass]
           next == Len(rows) = PageSize \/ Len(releases) > read.page * PageSize
       IN IF \E i \in DOMAIN rows, k \in DOMAIN known : rows[i].id = known[k].id
            THEN pc' = "failed" /\ read' = read
          ELSE /\ pc' = IF next \/ read.pass = 1 THEN "pages" ELSE "match"
               /\ read' = [pass |-> IF next THEN read.pass ELSE 2,
                           page |-> IF next THEN read.page + 1 ELSE 1,
                           rows |-> [read.rows EXCEPT ![read.pass] = known \o rows]]
    /\ UNCHANGED <<github, job, n, stage, release, listed, acts, run, late>>

(* _reconcile_created_release: both readings name the same releases, one   *)
(* of them of this tag, and it is the draft that was asked for.            *)
Inventory(rows) == {<<rows[i].id, rows[i].tag>> : i \in DOMAIN rows}
Matches(rows) == {rows[i] : i \in {k \in DOMAIN rows : rows[k].tag = job}}

Match ==
    /\ LET first == Matches(read.rows[1])
           second == Matches(read.rows[2])
       IN IF /\ Inventory(read.rows[1]) = Inventory(read.rows[2])
             /\ Cardinality(second) = 1 /\ Cardinality(first) = 1
             /\ \A r \in first \union second : r.checked
            THEN Goes("match", "reread") /\ release' = (CHOOSE r \in second : TRUE).id
            ELSE Fails("match") /\ release' = release
    /\ read' = NoRead
    /\ UNCHANGED <<github, job, n, stage, listed, acts, run, late>>

(* The draft is read twice more, and the tag in between.                   *)
Reread ==
    /\ LET same == Known(release) /\ Checked(Release(release))
       IN \/ same /\ (Goes("reread", "checkref") \/ Goes("again", "upload"))
          \/ ~same /\ (Fails("reread") \/ Fails("again"))
          \/ refs[job] = "source" /\ Goes("checkref", "again")
          \/ refs[job] # "source" /\ Fails("checkref")
    /\ UNCHANGED <<github, job, memory, acts, run, late>>

Stored(f, state) ==
    Becomes(release, [Release(release) EXCEPT
        !.assets[f] = [gen |-> 0, bytes |-> stage[f], state |-> state]])

(* upload: by the draft's ID, once; a name that is there is refused.       *)
Upload ==
    /\ LET f == Files[n]
           free == Known(release) /\ Release(release).assets[f] = NoAsset
       IN \/ /\ free /\ Stored(f, "uploaded")
             /\ Goes("upload", IF n = Len(Files) THEN "list" ELSE "upload")
             /\ n' = IF n = Len(Files) THEN 1 ELSE n + 1
          \/ Fails("upload") /\ ~free /\ UNCHANGED <<releases, n>>
          \/ Lost("upload", free /\ \E state \in {"uploaded", "starter"} : Stored(f, state),
                  UNCHANGED releases) /\ n' = n
    /\ UNCHANGED <<made, refs, job, stage, release, listed, read, acts, run, late>>

Complete(assets) == \A f \in Names : (assets[f] # NoAsset) = (f # Extra)

ListAssets ==
    /\ \/ /\ Known(release) /\ Complete(Release(release).assets)
          /\ Goes("list", "verify")
          /\ listed' = [NoList EXCEPT !.id = release, !.assets = Release(release).assets]
          /\ late' = {}
       \/ /\ ~(Known(release) /\ Complete(Release(release).assets))
          /\ Fails("list") /\ UNCHANGED <<listed, late>>
    /\ UNCHANGED <<github, job, n, stage, release, read, acts, run>>

\* Mutated form: the size alone is compared.
SizeOnly(f) ==
    /\ listed.assets[f].state = "uploaded"
    /\ Downloads(release, f, listed.assets[f].gen)

(* verify_uploaded_asset: every byte is downloaded again.                  *)
Verified(f) ==
    /\ listed.assets[f].state = "uploaded"
    /\ Downloads(release, f, listed.assets[f].gen)
    /\ Release(release).assets[f].bytes = stage[f]

VerifyUploadedAsset ==
    /\ \/ /\ Verified(Files[n])
          /\ Goes("verify", IF n = Len(Files) THEN "ref" ELSE "verify")
          /\ n' = IF n = Len(Files) THEN 1 ELSE n + 1
          /\ late' = late \ {Files[n]}
       \/ ~Verified(Files[n]) /\ Fails("verify") /\ UNCHANGED <<n, late>>
    /\ UNCHANGED <<github, job, stage, release, listed, read, acts, run>>

CheckTag ==
    /\ \/ refs[job] = "source" /\ Goes("ref", "publish") /\ late' = late \ {"tag"}
       \/ refs[job] # "source" /\ Fails("ref") /\ late' = late
    /\ UNCHANGED <<github, job, memory, acts, run>>

(* The PATCH; GitHub has one public release of a tag.                      *)
MadePublic == Becomes(release, [Release(release) EXCEPT !.draft = FALSE])

Publish ==
    /\ LET allowed == Known(release) /\ \A r \in Public(job) : r.id = release
       IN \/ allowed /\ Goes("publish", "done") /\ MadePublic
          \/ ~allowed /\ Fails("publish") /\ UNCHANGED releases
          \/ Lost("publish", allowed /\ MadePublic, UNCHANGED releases)
    /\ UNCHANGED <<made, refs, job, memory, acts, run, late>>

-----------------------------------------------------------------------------
(* The promotion of the candidate: promote                                 *)

(* snapshot_identity: a replaced asset has another ID, an edited release   *)
(* another time.                                                           *)
SameRelease(r) == r.id = listed.id /\ r.stamp = listed.stamp

\* Mutated form: the names of the assets alone must not change.
SameNames(assets) == \A f \in Names : (assets[f] = NoAsset) = (listed.assets[f] = NoAsset)

SameAssets(assets) == assets = listed.assets

(* The promotion of a candidate whose run has succeeded.                   *)
Promote ==
    /\ pc = "done" /\ job = "rc" /\ job' = "stable" /\ pc' = "wait"
    /\ run' = Queued
    /\ stage' = [f \in Names |-> "none"]
    /\ release' = 0 /\ listed' = NoList /\ n' = 1 /\ late' = {}
    /\ UNCHANGED <<github, read, acts>>

(* release_snapshot asks three times: for the tag, which must be at the    *)
(* source, for its public release and for that release's assets.           *)
SnapshotRef ==
    /\ \/ refs["rc"] = "source" /\ (Goes("snapref", "snap") \/ Goes("resnapref", "resnap"))
       \/ refs["rc"] # "source" /\ (Fails("snapref") \/ Fails("resnapref"))
    /\ UNCHANGED <<github, job, memory, acts, run, late>>

SnapshotRelease ==
    /\ \/ \E r \in Public("rc") :
            \/ Goes("snap", "snapassets")
               /\ listed' = [listed EXCEPT !.id = r.id, !.stamp = r.stamp]
            \/ Goes("resnap", "resnapassets") /\ SameRelease(r) /\ listed' = listed
            \/ Fails("resnap") /\ ~SameRelease(r) /\ listed' = listed
       \/ Public("rc") = {} /\ (Fails("snap") \/ Fails("resnap")) /\ listed' = listed
    /\ UNCHANGED <<github, job, n, stage, release, read, acts, run, late>>

(* The candidate must be after the downloads what it was before them.      *)
SnapshotAssets ==
    /\ LET assets == Release(listed.id).assets
           sound == Known(listed.id) /\ Complete(assets)
                      /\ \A f \in Names : assets[f].state # "starter"
       IN \/ /\ sound /\ Goes("snapassets", "download")
             /\ listed' = [listed EXCEPT !.assets = assets]
          \/ sound /\ SameAssets(assets) /\ Goes("resnapassets", "absent") /\ listed' = listed
          \/ ~sound /\ Fails("snapassets") /\ listed' = listed
          \/ ~(sound /\ SameAssets(assets)) /\ Fails("resnapassets") /\ listed' = listed
    /\ UNCHANGED <<github, job, n, stage, release, read, acts, run, late>>

(* verify_evidence has the manifest as the run that built it uploaded it,  *)
(* and the manifest the digest of every other file.                        *)
Genuine(f) == Release(listed.id).assets[f].bytes = "built"

Download ==
    /\ LET f == Files[n]
           good == Downloads(listed.id, f, listed.assets[f].gen) /\ Genuine(f)
       IN \/ /\ good
             /\ Goes("download", CASE n = Len(Files) -> "resnapref"
                                    [] n = 1 -> "unused"
                                    [] OTHER -> "download")
             /\ n' = IF n = Len(Files) THEN 1 ELSE n + 1
             /\ stage' = [stage EXCEPT ![f] = Release(listed.id).assets[f].bytes]
          \/ ~good /\ Fails("download") /\ UNCHANGED <<n, stage>>
    /\ UNCHANGED <<github, job, release, listed, read, acts, run, late>>

-----------------------------------------------------------------------------
(* People                                                                  *)

Acts == acts < MaxActs /\ acts' = acts + 1 /\ pc # "failed" /\ UNCHANGED <<job, pc, memory, run>>

CreateByHand(tag) ==
    /\ made < MaxReleases /\ made' = made + 1
    /\ releases' = <<Draft(tag, "people")>> \o releases
    /\ UNCHANGED <<refs, late>> /\ Acts

EditRelease(r) ==
    /\ Becomes(r.id, [r EXCEPT !.body = "people", !.stamp = acts + 1])
    /\ UNCHANGED <<made, refs, late>> /\ Acts

PublishByHand(r) ==
    /\ r.draft /\ Public(r.tag) = {}
    /\ Becomes(r.id, [r EXCEPT !.draft = FALSE])
    /\ UNCHANGED <<made, refs, late>> /\ Acts

DeleteRelease(r) ==
    /\ releases' = RemoveAt(releases, CHOOSE i \in DOMAIN releases : releases[i] = r)
    /\ UNCHANGED <<made, refs, late>> /\ Acts

\* An asset is replaced or removed.
ChangeAsset(r, f) ==
    /\ \/ Becomes(r.id, [r EXCEPT !.assets[f] =
              [gen |-> acts + 1, bytes |-> "other", state |-> "uploaded"]])
       \/ r.assets[f] # NoAsset /\ Becomes(r.id, [r EXCEPT !.assets[f] = NoAsset])
    /\ late' = IF r.id = release THEN late \union {f} ELSE late
    /\ UNCHANGED <<made, refs>> /\ Acts

MoveTag(j) ==
    /\ refs' = [refs EXCEPT ![j] = IF @ = "none" THEN "moved" ELSE "none"]
    /\ late' = IF j = job THEN late \union {"tag"} ELSE late
    /\ UNCHANGED <<releases, made>> /\ Acts

Next ==
    \/ WaitForExecutingRun \/ Report \/ StageAssets \/ CheckAbsent \/ CreateTag \/ CreateDraft
    \/ ReadPage \/ Match \/ Reread
    \/ Upload \/ ListAssets \/ VerifyUploadedAsset \/ CheckTag \/ Publish
    \/ Promote \/ SnapshotRef \/ SnapshotRelease \/ SnapshotAssets \/ Download \/ GiveUp
    \/ \E r \in ToSet(releases) :
         \/ EditRelease(r) \/ PublishByHand(r) \/ DeleteRelease(r)
         \/ \E f \in Names : ChangeAsset(r, f)
    \/ \E j \in Jobs : CreateByHand(j) \/ MoveTag(j)

Spec == Init /\ [][Next]_vars

-----------------------------------------------------------------------------
(* Properties                                                              *)

(* A run uploads to and publishes the draft of its own create call and no  *)
(* other: not one that people made under the same tag, before the call or  *)
(* while its lost answer is being looked for, whatever the pages showed.   *)
OwnDraftOnly ==
    release # 0 /\ Known(release) => Release(release).creator = job

(* What a run makes public is what was built, file by file and nothing     *)
(* else, under a tag at the source and, for a candidate, behind a gate     *)
(* that succeeded; only what people change after it was verified differs.  *)
PublishedAsBuilt ==
    [][pc = "publish" /\ Known(release) /\ Release(release).draft /\ releases' # releases
         /\ acts' = acts =>
         /\ job = "rc" => run.gate = "success"
         /\ refs[job] = "source" \/ "tag" \in late
         /\ \A f \in Names \ late :
              Release(release).assets[f].bytes = IF f = Extra THEN "none" ELSE "built"]_vars

(* When a promotion accepts its candidate, one release has at that moment  *)
(* every file it has staged and nothing else, however people changed the   *)
(* candidate between the downloads.                                        *)
CandidateFrozen ==
    [][pc = "resnapassets" /\ pc' = "absent" =>
         /\ ~Release(listed.id).draft
         /\ \A f \in Names : Release(listed.id).assets[f].bytes = stage[f]]_vars

=============================================================================
