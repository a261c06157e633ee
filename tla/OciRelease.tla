----------------------------- MODULE OciRelease -----------------------------
(***************************************************************************)
(* One run of merge_archives or of detach over the two native archives of  *)
(* a release: the inputs are opened and checked, the output is assembled   *)
(* next to its final name from the files as they then are, the inputs are  *)
(* looked at again, and the result is linked into place.  Meanwhile        *)
(* another process may write to an input or take an output's name, and the *)
(* run may be killed at any point.                                         *)
(***************************************************************************)
EXTENDS OciArchive

CONSTANTS
    Inputs,   \* [Platforms -> set of archives]: what a build may have exported
    Version   \* the version and revision of the release

VARIABLES
    mode,     \* "merge" or "detach"
    step,     \* how far the run is
    disk,     \* the input files: [archive, touched], touched since it was opened
    seen,     \* the archives as they were checked
    temp,     \* what has been assembled: [image, side]
    output,   \* the file at the output's name
    sidecar   \* the file at the sidecar's name

assemblyVars == <<mode, step, disk, seen, temp, output, sidecar>>

Nothing == [by |-> "nobody"]
Others == [by |-> "others"]
Ours(data) == [by |-> "us", data |-> data]

AssemblyInit ==
    /\ mode \in {"merge", "detach"} /\ step = "start"
    /\ disk \in [Platforms -> [archive : UNION {Inputs[p] : p \in Platforms},
                               touched : {FALSE}]]
    /\ \A p \in Platforms : disk[p].archive \in Inputs[p]
    /\ seen = [p \in Platforms |-> Nothing]
    /\ temp = Nothing
    /\ output \in {Nothing, Others} /\ sidecar = Nothing

Advances(from, to) == step = from /\ step' = to

Stops(from) == step = from /\ step' = "failed"

(* Neither output may exist.                                               *)
Begin ==
    /\ \/ Advances("start", "open") /\ output = Nothing /\ (mode = "merge" \/ sidecar = Nothing)
       \/ Stops("start") /\ ~(output = Nothing /\ (mode = "merge" \/ sidecar = Nothing))
    /\ UNCHANGED <<mode, disk, seen, temp, output, sidecar>>

(* Archive: the file is read through and checked.  detach wants BuildKit's *)
(* provenance besides.                                                     *)
Open(p) ==
    /\ seen[p] = Nothing
    /\ IF Native(disk[p].archive, p, Version)
            /\ (mode = "detach" => HasProvenance(disk[p].archive))
         THEN /\ Advances("open", IF \A q \in Platforms \ {p} : seen[q] # Nothing
                                    THEN "assemble" ELSE "open")
              /\ seen' = [seen EXCEPT ![p] = disk[p].archive]
         ELSE Stops("open") /\ seen' = seen
    /\ UNCHANGED <<mode, disk, temp, output, sidecar>>

AllLeaves == FlattenSeq([i \in 1..2 |->
    LET order == CHOOSE s \in [1..2 -> Platforms] : IsInjective(s) IN Leaves(seen[order[i]])])

\* The blobs are read again from the files while the output is written.
BlobsNow == LET first == CHOOSE p \in Platforms : TRUE
                second == CHOOSE p \in Platforms \ {first} : TRUE
            IN Both(disk[second].archive.blobs, disk[first].archive.blobs)

\* Written next to their final names.
MergedFile == [image |-> Merged(AllLeaves, BlobsNow)]
PairFiles == [image |-> Runtime(seen, BlobsNow), side |-> Sidecar(seen, BlobsNow)]

Assemble ==
    /\ Advances("assemble", "written")
    /\ temp' = IF mode = "merge" THEN MergedFile ELSE PairFiles
    /\ UNCHANGED <<mode, disk, seen, output, sidecar>>

\* Mutated form: the inputs are not looked at again.
NeverLooksAgain ==
    /\ Advances("written", "verify")
    /\ UNCHANGED <<mode, disk, seen, temp, output, sidecar>>

(* unchanged: size and times of each input are those of its opening.       *)
CheckInputs ==
    /\ \/ Advances("written", "verify") /\ \A p \in Platforms : ~disk[p].touched
       \/ Stops("written") /\ \E p \in Platforms : disk[p].touched
    /\ UNCHANGED <<mode, disk, seen, temp, output, sidecar>>

(* detach checks the assembled pair as a consumer would; merge does not.   *)
VerifyPair ==
    /\ Advances("verify", IF mode = "merge" \/ PairSound(temp.image, temp.side, Version)
                            THEN "link" ELSE "failed")
    /\ UNCHANGED <<mode, disk, seen, temp, output, sidecar>>

(* os.link never replaces a file.                                          *)
LinkOutput ==
    /\ \/ /\ Advances("link", IF mode = "merge" THEN "done" ELSE "linkside")
          /\ output = Nothing /\ output' = Ours(temp.image)
       \/ Stops("link") /\ output # Nothing /\ output' = output
    /\ UNCHANGED <<mode, disk, seen, temp, sidecar>>

\* Mutated form: the first link stays.
LeftThere == output' = output

(* When the second link fails the first is taken back, if it is still the  *)
(* file that was linked.                                                   *)
TakeBack == output' = IF output.by = "us" THEN Nothing ELSE output

LinkSidecar ==
    /\ \/ /\ Advances("linkside", "done")
          /\ sidecar = Nothing /\ sidecar' = Ours(temp.side) /\ output' = output
       \/ Stops("linkside") /\ sidecar # Nothing /\ sidecar' = sidecar /\ TakeBack
    /\ UNCHANGED <<mode, disk, seen, temp>>

(* The run is killed: what was linked stays.                               *)
Kill ==
    /\ step \notin {"done", "failed", "killed"} /\ step' = "killed"
    /\ UNCHANGED <<mode, disk, seen, temp, output, sidecar>>

(* Another process writes to an input: some blob is no longer its digest's *)
(* content, or the file is another archive altogether.                     *)
Touch(p) ==
    /\ step \notin {"start", "done", "failed", "killed"} /\ ~disk[p].touched
    /\ seen[p] # Nothing
    /\ \E d \in DOMAIN disk[p].archive.blobs :
         disk' = [disk EXCEPT ![p] = [archive |-> [@.archive EXCEPT !.blobs[d] = Corrupt],
                                      touched |-> TRUE]]
    /\ UNCHANGED <<mode, step, seen, temp, output, sidecar>>

(* Another process creates a file of the output's or the sidecar's name,   *)
(* or replaces the output.                                                 *)
Create ==
    /\ step \notin {"start", "done", "failed", "killed"}
    /\ \/ output # Others /\ output' = Others /\ sidecar' = sidecar
       \/ sidecar = Nothing /\ sidecar' = Others /\ output' = output
    /\ UNCHANGED <<mode, step, disk, seen, temp>>

AssemblyNext ==
    \/ Begin \/ Assemble \/ CheckInputs \/ VerifyPair \/ LinkOutput \/ LinkSidecar
    \/ Kill \/ Create
    \/ \E p \in Platforms : Open(p) \/ Touch(p)

AssemblySpec == AssemblyInit /\ [][AssemblyNext]_assemblyVars

-----------------------------------------------------------------------------
(* Properties                                                              *)

\* Every blob of the checked inputs is there, and what its digest says.
KeepsBlobs(out) == \A p \in Platforms : \A d \in DOMAIN seen[p].blobs : Sound(out, d)

\* A platform's input, replayed, passes the native check, and every
\* attestation in it is about the image that runs.
GivesBack(out, side, p) ==
    LET original == Replayed(out, side, p)
    IN /\ Native(original, p, Version)
       /\ \A l \in ToSet(AttestationLeaves(original)) :
            Subject(original, l) = ImageDigest(original)

(* Whatever the inputs and whoever wrote to them meanwhile, a published    *)
(* merge passes the other validator, version_plan's, holds every blob of   *)
(* the checked inputs and one image for each platform.                     *)
MergedVerifies ==
    mode = "merge" /\ output.by = "us" =>
        LET out == output.data
        IN /\ Len(Visits(out)) <= MaxVisits => Verifies(out, Version)
           /\ KeepsBlobs(out)
           /\ ToSet(Leaves(out)) = UNION {ToSet(Leaves(seen[p])) : p \in Platforms}
           /\ Len(ImageLeaves(out)) = Cardinality(Platforms)

(* A published pair gives back the original inputs: each platform's graph, *)
(* replayed over the runnable archive, has the leaves that were checked    *)
(* when it was opened, every attestation in it is about the image that     *)
(* runs, and the archive itself passes version_plan.                       *)
PairReplays ==
    mode = "detach" /\ output.by = "us" =>
        /\ Verifies(output.data, Version)
        /\ sidecar.by = "us" =>
             \A p \in Platforms :
               /\ GivesBack(output.data, sidecar.data, p)
               /\ Leaves(Replayed(output.data, sidecar.data, p)) = Leaves(seen[p])

(* A run that ends by itself leaves all it promises or nothing of its own: *)
(* half a pair remains only where it was killed or a file was replaced.    *)
AllOrNothing ==
    /\ step = "failed" => output.by # "us" /\ sidecar.by # "us"
    /\ step = "done" /\ mode = "detach" => sidecar.by = "us"

=============================================================================
