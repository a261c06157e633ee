--------------------------- MODULE PrepareVersion ---------------------------
(***************************************************************************)
(* prepare_version: setting the next base version in every declared file,  *)
(* either on a topic branch for review or in the operator's own checkout.  *)
(* A run reads main, the tags, the pull requests and the topic one after   *)
(* the other, and pushes on what it read; meanwhile main moves, people     *)
(* push to the topic, merge it, delete it or release, and another run may  *)
(* prepare the same version or another one.  A tree is the version of each *)
(* declared file and a number for all the rest.                            *)
(***************************************************************************)
EXTENDS Naturals, Sequences, FiniteSets, FiniteSetsExt

CONSTANTS
    Runs,          \* with --pr, or without it and then all in one checkout
    VersionFiles,  \* the declared version files
    BaseFile,      \* version_file: the one the current version is read from
    Versions,      \* <<major, minor, patch>>
    Requests,      \* what a run is asked for: a bump's name or a version
    First,         \* main's version at the start
    MaxDeeds,      \* bound: what people do besides merging and pulling
    Unset

ASSUME PrepareAssumption ==
    /\ BaseFile \in VersionFiles /\ First \in Versions
    /\ Versions \subseteq Nat \X Nat \X Nat /\ Unset \notin Versions

VARIABLES
    main,       \* default branch: its trees, the newest last
    tags,       \* origin's stable tags: "no", "merged" or "elsewhere"
    topics,     \* release/version-X branches: Unset, or a commit
    prs,        \* versions with an open pull request of the repository
    pushes,     \* commits pushed so far, the newest one's name
    checkout,   \* the operator's checkout: each file's version and latest edit
    prep,       \* what each run has read and decided
    deeds,      \* what people have done so far
    overtaken   \* history: files edited after a run looked at them last

remote == <<main, tags, topics, prs, pushes>>
prepareVars == <<remote, checkout, prep, deeds, overtaken>>

Start == [pc |-> "idle", local |-> FALSE, head |-> 0, fetched |-> {},
          target |-> Unset, existing |-> Unset,
          topic |-> Unset, todo |-> {}, read |-> Unset, file |-> Unset]
Tree(v, rest) == [files |-> [f \in VersionFiles |-> v], rest |-> rest]
Taken(r) == main[prep[r].head]
Newest == main[Len(main)]
Clean(tree) == [f \in VersionFiles |-> [v |-> tree.files[f], edit |-> 0]]
Declared(tree) == CHOOSE v \in Versions : tree.files = [f \in VersionFiles |-> v]

PrepareInit ==
    /\ main = <<Tree(First, 0)>>
    /\ tags = [v \in Versions |-> IF v = First THEN "merged" ELSE "no"]
    /\ topics = [v \in Versions |-> Unset] /\ prs = {} /\ pushes = 0
    /\ checkout = Clean(Tree(First, 0))
    /\ prep = [r \in Runs |-> Start]
    /\ deeds = 0 /\ overtaken = {}

-----------------------------------------------------------------------------
(* Choosing a version                                                      *)

Older(v, w) ==
    \/ v[1] < w[1]
    \/ v[1] = w[1] /\ v[2] < w[2]
    \/ v[1] = w[1] /\ v[2] = w[2] /\ v[3] < w[3]

Greatest(S) == CHOOSE v \in S : \A w \in S \ {v} : Older(w, v)
NextPatch(v) == <<v[1], v[2], v[3] + 1>>

(* _bumped_version: a version prepared already, newer than every tag of    *)
(* main's history, is kept.                                                *)
Bumped(current, merged, bump) ==
    CASE bump = "next-patch" ->
           IF merged = {} \/ Older(Greatest(merged), current) THEN current
           ELSE NextPatch(Greatest(merged))
      [] bump = "major" -> <<current[1] + 1, 0, 0>>
      [] bump = "minor" -> <<current[1], current[2] + 1, 0>>
      [] bump = "patch" -> NextPatch(current)
      [] OTHER -> bump

\* The first patch from v on that no tag of origin names.
FirstFree(v, occupied) ==
    LET taken(k) == <<v[1], v[2], v[3] + k>> \in occupied
        k == CHOOSE n \in 0..Cardinality(occupied) :
                ~taken(n) /\ \A m \in 0..(n - 1) : taken(m)
    IN <<v[1], v[2], v[3] + k>>

\* Mutated form: nothing keeps the version from going back.
ChooseAny(current, merged, occupied, request) ==
    LET v == Bumped(current, merged, request)
    IN IF request = "next-patch" THEN FirstFree(v, occupied)
       ELSE IF v \in occupied THEN Unset ELSE v

(* choose_version: Unset stands for its error.                             *)
ChooseVersion(current, merged, occupied, request) ==
    LET v == Bumped(current, merged, request)
    IN IF Older(v, current) THEN Unset
       ELSE IF request = "next-patch" THEN FirstFree(v, occupied)
       ELSE IF v \in occupied THEN Unset ELSE v

-----------------------------------------------------------------------------
(* A run                                                                   *)

Proceeds(r, pc) == prep' = [prep EXCEPT ![r].pc = pc]
Ends(r, pc) == prep' = [prep EXCEPT ![r] = [Start EXCEPT !.pc = pc]]
Learns(r, pc, field, value) ==
    prep' = [prep EXCEPT ![r] = [[@ EXCEPT !.pc = pc] EXCEPT ![field] = value]]

(* _validate_preparation_checkout: a clean checkout of what main now is,   *)
(* and main's tags fetched with it.                                        *)
Checkout(r) ==
    /\ prep[r].pc = "idle"
    /\ \E local \in BOOLEAN :
         /\ local => checkout = Clean(Newest)
         /\ prep' = [prep EXCEPT ![r] =
               [Start EXCEPT !.pc = "tags", !.local = local, !.head = Len(main),
                             !.fetched = {v \in Versions : tags[v] = "merged"}]]
    /\ UNCHANGED <<remote, checkout, deeds, overtaken>>

(* advertised_tags and choose_version: origin's tags are read again, and   *)
(* those fetched before count as main's if they are still there.           *)
ReadTags(r) ==
    /\ prep[r].pc = "tags"
    /\ \E request \in Requests :
         LET occupied == {v \in Versions : tags[v] # "no"}
             merged == prep[r].fetched \intersect occupied
             current == IF prep[r].local THEN checkout[BaseFile].v ELSE Declared(Taken(r))
             target == ChooseVersion(current, merged, occupied, request)
         IN IF target \notin Versions THEN Ends(r, "failed")
            ELSE Learns(r, IF prep[r].local THEN "read" ELSE "prs", "target", target)
    /\ UNCHANGED <<remote, checkout, deeds, overtaken>>

(* own_pull_requests: those of forks are left out.                         *)
ListPullRequests(r) ==
    /\ prep[r].pc = "prs"
    /\ LET v == prep[r].target
       IN Learns(r, "topic", "existing", IF v \in prs THEN topics[v].id ELSE Unset)
    /\ UNCHANGED <<remote, checkout, deeds, overtaken>>

(* verify_owned_topic: the topic is the tree it branched from with the     *)
(* version set in the declared files, and no change of a person's.         *)
Owned(topic, v, head) ==
    LET ancestor == main[Min({topic.at, head})]
    IN topic.tree = Tree(v, ancestor.rest) /\ ~topic.foreign

(* _preparation_topic, remote_topic: the open pull request shows the very  *)
(* commit that is now on the topic, and the topic is one of these runs'.   *)
ReadTopic(r) ==
    /\ prep[r].pc = "topic"
    /\ LET v == prep[r].target
           topic == topics[v]
       IN IF /\ prep[r].existing # Unset => topic # Unset /\ topic.id = prep[r].existing
             /\ topic # Unset => Owned(topic, v, prep[r].head)
            THEN Learns(r, "push", "topic", topic)
            ELSE Ends(r, "failed")
    /\ UNCHANGED <<remote, checkout, deeds, overtaken>>

NewTree(r) == Tree(prep[r].target, Taken(r).rest)
Commit(tree, at, foreign) ==
    [id |-> pushes + 1, tree |-> tree, at |-> at, foreign |-> foreign]

\* Mutated form: the push is forced.
ForcedPush(r) == TRUE

(* git push without force: origin's branch is still the commit's parent,   *)
(* or is gone.                                                             *)
FastForward(r) == topics[prep[r].target] \in {Unset, prep[r].topic}

(* The worktree at head, its files set; nothing to do when main or the     *)
(* topic is like that already.                                             *)
Push(r) ==
    /\ prep[r].pc = "push"
    /\ LET v == prep[r].target
           old == prep[r].topic
           same == IF old = Unset THEN FALSE ELSE old.tree = NewTree(r)
       IN \/ /\ prep[r].existing = Unset /\ NewTree(r) = Taken(r)
             /\ Ends(r, "unchanged") /\ UNCHANGED <<topics, pushes>>
          \/ /\ ~(prep[r].existing = Unset /\ NewTree(r) = Taken(r)) /\ same
             /\ Proceeds(r, "create") /\ UNCHANGED <<topics, pushes>>
          \/ /\ ~(prep[r].existing = Unset /\ NewTree(r) = Taken(r)) /\ ~same
             /\ FastForward(r)
             /\ topics' = [topics EXCEPT ![v] = Commit(NewTree(r),
                    IF old = Unset THEN prep[r].head ELSE Max({old.at, prep[r].head}), FALSE)]
             /\ pushes' = pushes + 1
             /\ Proceeds(r, "create")
    /\ UNCHANGED <<main, tags, prs, checkout, deeds, overtaken>>

(* gh pr create, unless one was open: GitHub has one for a branch at most. *)
CreatePullRequest(r) ==
    /\ prep[r].pc = "create" /\ Ends(r, "done")
    /\ \/ prep[r].existing # Unset /\ prs' = prs
       \/ /\ prep[r].existing = Unset
          /\ prep[r].target \notin prs /\ topics[prep[r].target] # Unset
          /\ prs' = prs \union {prep[r].target}
    /\ UNCHANGED <<main, tags, topics, pushes, checkout, deeds, overtaken>>

(* A command fails, a push is refused or the run is stopped.  What a local *)
(* run has replaced by then stays replaced.                                *)
Fail(r) ==
    /\ prep[r].pc \notin {"idle", "failed", "done", "unchanged"}
    /\ Ends(r, "failed")
    /\ UNCHANGED <<remote, checkout, deeds, overtaken>>

(* sync_versions: every file is read and edited in memory, so an edit made *)
(* by then is carried along; nothing is written yet.                       *)
ReadFiles(r) ==
    /\ prep[r].pc = "read"
    /\ prep' = [prep EXCEPT ![r].pc = "stage", ![r].read = checkout,
                          ![r].todo = {f \in VersionFiles : checkout[f].v # prep[r].target}]
    /\ UNCHANGED <<remote, checkout, deeds, overtaken>>

(* _apply_version_edits: all files are still what was read, and the new   *)
(* ones are staged beside them.                                            *)
StageFiles(r) ==
    /\ prep[r].pc = "stage" /\ checkout = prep[r].read
    /\ Proceeds(r, "replace")
    /\ UNCHANGED <<remote, checkout, deeds, overtaken>>

\* Mutated form: the file is not compared again.
NeverLooks(r, f) == f \in prep[r].todo

Unchanged(r, f) == f \in prep[r].todo /\ checkout[f] = prep[r].read[f]

(* Each file is compared once more, then replaced by name.                 *)
Recheck(r, f) ==
    /\ prep[r].pc = "replace" /\ Unchanged(r, f)
    /\ prep' = [prep EXCEPT ![r].pc = "replacing", ![r].file = f]
    /\ overtaken' = overtaken \ {<<r, f>>}
    /\ UNCHANGED <<remote, checkout, deeds>>

Replace(r) ==
    /\ prep[r].pc = "replacing"
    /\ LET f == prep[r].file
       IN /\ checkout' = [checkout EXCEPT ![f] = [prep[r].read[f] EXCEPT !.v = prep[r].target]]
          /\ prep' = [prep EXCEPT ![r].pc = "replace", ![r].todo = @ \ {f}]
    /\ UNCHANGED <<remote, deeds, overtaken>>

(* check_base_versions: every declared file now has the version.           *)
CheckFiles(r) ==
    /\ prep[r].pc = "replace" /\ prep[r].todo = {}
    /\ Ends(r, IF \A f \in VersionFiles : checkout[f].v = prep[r].target THEN "done" ELSE "failed")
    /\ UNCHANGED <<remote, checkout, deeds, overtaken>>

-----------------------------------------------------------------------------
(* People                                                                  *)

Deed == deeds < MaxDeeds /\ deeds' = deeds + 1 /\ UNCHANGED prep

MainMoves ==
    /\ main' = Append(main, [Newest EXCEPT !.rest = @ + 1])
    /\ UNCHANGED <<tags, topics, prs, pushes, checkout, overtaken>> /\ Deed

\* GitHub merges a pull request (as one commit) when no declared file conflicts.
Mergeable(topic) == Newest.files \in {main[topic.at].files, topic.tree.files}

Merge(v) ==
    /\ v \in prs /\ Mergeable(topics[v])
    /\ main' = Append(main, [files |-> topics[v].tree.files,
                             rest |-> Newest.rest + (IF topics[v].foreign THEN 1 ELSE 0)])
    /\ prs' = prs \ {v}
    /\ UNCHANGED <<tags, topics, pushes, checkout, deeds, overtaken, prep>>

(* A release is tagged on main's history or off it.                        *)
ReleaseTag(v) ==
    /\ tags[v] = "no"
    /\ \/ v = Declared(Newest) /\ tags' = [tags EXCEPT ![v] = "merged"]
       \/ tags' = [tags EXCEPT ![v] = "elsewhere"]
    /\ UNCHANGED <<main, topics, prs, pushes, checkout, overtaken>> /\ Deed

PersonPushes(v) ==
    /\ topics' = [topics EXCEPT ![v] =
          IF @ = Unset THEN Commit(Newest, Len(main), TRUE)
          ELSE Commit(@.tree, @.at, TRUE)]
    /\ pushes' = pushes + 1
    /\ UNCHANGED <<main, tags, prs, checkout, overtaken>> /\ Deed

DeleteTopic(v) ==
    /\ topics[v] # Unset
    /\ topics' = [topics EXCEPT ![v] = Unset] /\ prs' = prs \ {v}
    /\ UNCHANGED <<main, tags, pushes, checkout, overtaken>> /\ Deed

(* Somebody edits a version file of the checkout.                          *)
Edit(f) ==
    /\ checkout' = [checkout EXCEPT ![f].edit = deeds + 1]
    /\ overtaken' = overtaken \union
                  {<<r, f>> : r \in {q \in Runs : prep[q].pc = "replacing" /\ prep[q].file = f}}
    /\ UNCHANGED remote /\ Deed

(* The operator has main as it now is in the checkout, and nothing else.   *)
Pull ==
    /\ \A r \in Runs : prep[r].local => prep[r].pc \in {"failed", "done"}
    /\ checkout' = Clean(Newest) /\ overtaken' = {}
    /\ UNCHANGED <<remote, deeds, prep>>

PrepareNext ==
    \/ \E r \in Runs :
         \/ Checkout(r) \/ ReadTags(r) \/ Fail(r)
         \/ ListPullRequests(r) \/ ReadTopic(r) \/ Push(r) \/ CreatePullRequest(r)
         \/ ReadFiles(r) \/ StageFiles(r) \/ Replace(r) \/ CheckFiles(r)
         \/ \E f \in VersionFiles : Recheck(r, f)
    \/ \E v \in Versions : Merge(v) \/ ReleaseTag(v) \/ PersonPushes(v) \/ DeleteTopic(v)
    \/ \E f \in VersionFiles : Edit(f)
    \/ MainMoves \/ Pull

PrepareSpec == PrepareInit /\ [][PrepareNext]_prepareVars

-----------------------------------------------------------------------------
(* Properties                                                              *)

(* What somebody pushed to a topic is never replaced by a run, however the *)
(* push falls between the run's reads and its own push.                    *)
PeopleKept ==
    [][\A v \in Versions :
         IF topics[v] = Unset THEN TRUE
         ELSE topics[v].foreign /\ prep' # prep => topics'[v] = topics[v]]_prepareVars

(* Main's version never goes back, whatever pull requests of these runs    *)
(* are merged and in whatever order.                                       *)
NeverBack == [][~Older(Declared(main'[Len(main')]), Declared(Newest))]_prepareVars

(* An editor's change to a version file survives a local run, unless it    *)
(* was made between the last look at the file and its replacement.         *)
EditsKept ==
    [][\A f \in VersionFiles, r \in Runs :
         checkout'[f].edit < checkout[f].edit /\ prep'[r] # prep[r] => <<r, f>> \in overtaken]_prepareVars

=============================================================================
