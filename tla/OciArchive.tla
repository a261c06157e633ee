----------------------------- MODULE OciArchive -----------------------------
(***************************************************************************)
(* OCI image archives as the release scripts read and write them.  An      *)
(* archive is a root list of descriptors and the blobs it stores, each     *)
(* under a digest; what a digest stands for is fixed by Content, so a      *)
(* stored blob that differs from it is corrupt.  Sizes, limits on bytes,   *)
(* compression and the exact JSON are left out.  Three readers are         *)
(* modelled: the native-input check of merge_oci_archives.Archive, the     *)
(* independent check of version_plan._OciMetadata, and the checks of a     *)
(* detached pair in release_provenance.                                    *)
(***************************************************************************)
EXTENDS Naturals, Sequences, SequencesExt, FiniteSets

CONSTANTS
    Digest,      \* digests of the blobs of the inputs
    Content,     \* the content each of them stands for
    Inner,       \* the digest of the index the scripts generate
    Platforms,   \* linux/amd64 and linux/arm64
    Unknown,     \* the platform of an attestation
    None,        \* no digest
    Depth,       \* nesting of indexes that is followed (8)
    MaxVisits    \* descriptors that are followed (1024)

ASSUME OciAssumption ==
    /\ DOMAIN Content = Digest /\ Inner \notin Digest /\ None \notin Digest
    /\ Unknown \notin Platforms
    /\ Depth \in Nat /\ MaxVisits \in Nat

\* Contents: an index lists descriptors; an image names its config and
\* layers; a config its platform, version and root filesystem; an
\* attestation its subject (None in the legacy form) and its statements.
\* Bytes that are no content of the digest they are stored under.
Corrupt == [kind |-> "corrupt"]
Manifest(c) == c.kind \in {"image", "attestation"}

\* The blob stored for a digest, when there is one and it is what it says.
Stores(a, d) == d \in DOMAIN a.blobs
Sound(a, d) == Stores(a, d) /\ a.blobs[d] # Corrupt
Is(a, d, kind) == Sound(a, d) /\ a.blobs[d].kind = kind

(* walk, walk_index: every descriptor below the root with its depth, in    *)
(* the order visited.                                                      *)
Children(a, d) == IF Is(a, d, "index") THEN a.blobs[d].manifests ELSE <<>>

Visits(a) ==
    LET below[depth \in 0..Depth, list \in {a.root} \union
                {Children(a, d) : d \in DOMAIN a.blobs}] ==
          FlattenSeq([i \in DOMAIN list |->
              <<[at |-> depth, of |-> list[i]]>> \o
              (IF list[i].media = "index" /\ depth < Depth
                 THEN below[depth + 1, Children(a, list[i].digest)] ELSE <<>>)])
    IN below[0, a.root]

(* Limits of the walk; below the last level an index is an error.          *)
WithinLimits(a) ==
    /\ Len(Visits(a)) <= MaxVisits
    /\ \A i \in DOMAIN Visits(a) :
         Visits(a)[i].at = Depth => Visits(a)[i].of.media # "index"

Leaves(a) == LET found == SelectSeq(Visits(a), LAMBDA v : v.of.media # "index")
             IN [i \in DOMAIN found |-> found[i].of]

(* blob: the content is there and of the media type the descriptor gives.  *)
Described(a, desc) ==
    /\ Sound(a, desc.digest)
    /\ IF desc.media = "index"
         THEN Is(a, desc.digest, "index") /\ a.blobs[desc.digest].manifests # <<>>
       ELSE desc.media = "manifest" /\ Manifest(a.blobs[desc.digest])

\* A leaf is an attestation by its annotation or by its artifact type.
Attests(a, desc) ==
    \/ desc.role = "attestation-manifest"
    \/ LET c == a.blobs[desc.digest] IN c.kind = "attestation" /\ c.subject # None

ImageLeaves(a) == SelectSeq(Leaves(a), LAMBDA l : ~Attests(a, l))
AttestationLeaves(a) == SelectSeq(Leaves(a), LAMBDA l : Attests(a, l))

-----------------------------------------------------------------------------
(* merge_oci_archives.Archive                                              *)

(* image: the config is for the expected platform and version, and the     *)
(* layers hold the root filesystem it names.                               *)
Image(a, desc, p, version) ==
    LET image == a.blobs[desc.digest]
    IN /\ image.kind = "image" /\ desc.role = "none"
       /\ Is(a, image.config, "config")
       /\ a.blobs[image.config].platform = p /\ desc.platform = p
       /\ a.blobs[image.config].version = version
       /\ \A i \in DOMAIN image.layers : Is(a, image.layers[i], "layer")
       /\ a.blobs[image.config].rootfs = image.layers

\* The image an attestation is about, by its subject or its reference.
Subject(a, desc) ==
    IF a.blobs[desc.digest].subject # None THEN a.blobs[desc.digest].subject
    ELSE desc.reference

(* attestation: no runnable image itself, and every statement is about its *)
(* subject.                                                                *)
Attestation(a, desc) ==
    LET data == a.blobs[desc.digest]
    IN /\ data.kind = "attestation" /\ desc.platform = Unknown
       /\ desc.reference \in {None, Subject(a, desc)}
       /\ Stores(a, Subject(a, desc))
       /\ data.statements # <<>>
       /\ \A i \in DOMAIN data.statements :
            /\ Is(a, data.statements[i], "statement")
            /\ a.blobs[data.statements[i]].about = Subject(a, desc)

(* inventory, which hashes every blob, referenced or not; the walk; and    *)
(* validate_complete_graph for a native input: one image, which every      *)
(* attestation is about.                                                   *)
Walked(a) ==
    /\ \A d \in DOMAIN a.blobs : a.blobs[d] # Corrupt
    /\ a.root # <<>> /\ WithinLimits(a)
    /\ \A i \in DOMAIN Visits(a) : Described(a, Visits(a)[i].of)
    /\ IsInjective([i \in DOMAIN Leaves(a) |-> Leaves(a)[i].digest])

\* Mutated form: an attestation may be about another image of the archive.
NativeAnySubject(a, p, version) ==
    /\ Walked(a)
    /\ Len(ImageLeaves(a)) = 1
    /\ Image(a, ImageLeaves(a)[1], p, version)
    /\ \A i \in DOMAIN AttestationLeaves(a) : Attestation(a, AttestationLeaves(a)[i])

Native(a, p, version) ==
    /\ Walked(a)
    /\ Len(ImageLeaves(a)) = 1
    /\ Image(a, ImageLeaves(a)[1], p, version)
    /\ \A i \in DOMAIN AttestationLeaves(a) :
         /\ Attestation(a, AttestationLeaves(a)[i])
         /\ Subject(a, AttestationLeaves(a)[i]) = ImageLeaves(a)[1].digest

(* merge_archives: one index of every leaf, images first, and the blobs of *)
(* both inputs once.                                                       *)
InFront(l) == l.platform # Unknown
IndexOf(leaves) == [kind |-> "index", manifests |-> leaves]
ToInner == [media |-> "index", digest |-> Inner, platform |-> None,
            role |-> "none", reference |-> None]

\* The blobs of two stores, the first's where both have one.
Both(some, others) == [d \in DOMAIN some \union DOMAIN others |->
                         IF d \in DOMAIN some THEN some[d] ELSE others[d]]

\* Blobs below the generated index.
Under(index, blobs) == Both([d \in {Inner} |-> index], blobs)

Merged(leaves, blobs) ==
    [root |-> <<ToInner>>,
     blobs |-> Under(IndexOf(SelectSeq(leaves, InFront) \o
                             SelectSeq(leaves, LAMBDA l : ~InFront(l))), blobs)]

-----------------------------------------------------------------------------
(* version_plan._OciMetadata                                               *)

(* blob: metadata is read and hashed, anything else is only looked up.     *)
Blob(a, d, metadata) == Stores(a, d) /\ (metadata => a.blobs[d] # Corrupt)

(* walk: an attestation is told by its marks before its media type.        *)
Follows(a, desc) ==
    /\ Blob(a, desc.digest, TRUE)
    /\ Described(a, desc)
    /\ desc.media = "index" => desc.role = "none"

(* runnable: layers are looked up, their bytes are not read.               *)
Runnable(a, desc, version) ==
    LET image == a.blobs[desc.digest]
    IN /\ image.kind = "image"
       /\ Blob(a, image.config, TRUE) /\ Is(a, image.config, "config")
       /\ a.blobs[image.config].platform # Unknown
       /\ desc.platform \in {None, a.blobs[image.config].platform}
       /\ a.blobs[image.config].version = version
       /\ \A i \in DOMAIN image.layers : Blob(a, image.layers[i], FALSE)

(* attestation, artifact_attestation, legacy_attestation: the subject or   *)
(* the reference is one of the runnable images.                            *)
AttestsRunnable(a, desc, images) ==
    LET data == a.blobs[desc.digest]
    IN /\ data.kind = "attestation" /\ desc.media = "manifest" /\ desc.platform = Unknown
       /\ data.subject # None => desc.reference \in {None, data.subject}
       /\ data.statements # <<>>
       /\ \A i \in DOMAIN data.statements : Blob(a, data.statements[i], FALSE)
       /\ Subject(a, desc) \in images \union {None}

Verifies(a, version) ==
    /\ a.root # <<>> /\ WithinLimits(a)
    /\ \A i \in DOMAIN Visits(a) : Follows(a, Visits(a)[i].of)
    /\ ImageLeaves(a) # <<>>
    /\ \A i \in DOMAIN ImageLeaves(a) : Runnable(a, ImageLeaves(a)[i], version)
    /\ LET images == {ImageLeaves(a)[i].digest : i \in DOMAIN ImageLeaves(a)}
       IN \A i \in DOMAIN AttestationLeaves(a) :
            AttestsRunnable(a, AttestationLeaves(a)[i], images)

-----------------------------------------------------------------------------
(* release_provenance                                                      *)

\* What an archive's walk reads as JSON, and what its image runs on.
ImageDigest(a) == ImageLeaves(a)[1].digest
RunBlobs(a, image) == {image, a.blobs[image].config} \union ToSet(a.blobs[image].layers)
Statements(a) == UNION {ToSet(a.blobs[l.digest].statements) : l \in ToSet(AttestationLeaves(a))}
Metadata(a) ==
    {v.of.digest : v \in ToSet(Visits(a))} \union Statements(a)
      \union {a.blobs[l.digest].config : l \in ToSet(ImageLeaves(a))}

HasProvenance(a) == \E d \in Statements(a) : a.blobs[d].provenance

(* collect_runtime_inputs, runtime_metadata: the two images alone form the *)
(* runnable archive; the sidecar keeps each input's root and every blob    *)
(* its graph was read from.                                                *)
Picked(blobs, keep) == [d \in keep |-> blobs[d]]

Runtime(seen, blobs) ==
    LET image(p) == ImageLeaves(seen[p])[1]
        order == CHOOSE s \in [1..Cardinality(Platforms) -> Platforms] : IsInjective(s)
    IN [root |-> <<ToInner>>,
        blobs |-> Under(IndexOf([i \in DOMAIN order |-> image(order[i])]),
                        Picked(blobs, UNION {RunBlobs(seen[p], ImageDigest(seen[p])) : p \in Platforms}))]

Sidecar(seen, blobs) ==
    [roots |-> [p \in Platforms |-> seen[p].root],
     blobs |-> Picked(blobs, UNION {Metadata(seen[p]) : p \in Platforms})]

(* RuntimeArchive: both platforms once, no attestation, nothing else.      *)
RuntimeSound(a, version) ==
    /\ Walked(a) /\ AttestationLeaves(a) = <<>>
    /\ a.root = <<ToInner>> /\ a.blobs[Inner] = IndexOf(Leaves(a))
    /\ Len(ImageLeaves(a)) = Cardinality(Platforms)
    /\ \A p \in Platforms : \E i \in DOMAIN ImageLeaves(a) :
         Image(a, ImageLeaves(a)[i], p, version)
    /\ DOMAIN a.blobs = {Inner} \union
         UNION {RunBlobs(a, l.digest) : l \in ToSet(ImageLeaves(a))}

(* EvidenceArchive: the original graph, replayed over the runnable blobs.  *)
Replayed(run, side, p) == [root |-> side.roots[p], blobs |-> Both(side.blobs, run.blobs)]

(* read_sidecar, decode: every blob of the sidecar is its digest's content. *)
Decoded(side) == \A d \in DOMAIN side.blobs : side.blobs[d] # Corrupt

(* verify_pair: every original input passes the native check again, is     *)
(* about the image that runs, and no blob of the sidecar is left over.     *)
PairSound(run, side, version) ==
    /\ RuntimeSound(run, version)
    /\ Decoded(side)
    /\ \A p \in Platforms :
         LET original == Replayed(run, side, p)
         IN /\ Native(original, p, version) /\ HasProvenance(original)
            /\ \E l \in ToSet(ImageLeaves(run)) : l.digest = ImageDigest(original)
    /\ DOMAIN side.blobs = UNION {Metadata(Replayed(run, side, p)) : p \in Platforms}

=============================================================================
