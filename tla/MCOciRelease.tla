---------------------------- MODULE MCOciRelease ----------------------------
(* A small instance of OciRelease: an image for each platform that share a   *)
(* layer, one whose layers are not those of its config, attestations of the  *)
(* artifact and the legacy form, about the right and the wrong image, and    *)
(* indexes nested once and too deeply.  Of the blobs an export needs, one    *)
(* may be missing and one corrupt.                                           *)
EXTENDS OciRelease

Descriptor(media, digest, platform, role, reference) ==
    [media |-> media, digest |-> digest, platform |-> platform, role |-> role,
     reference |-> reference]
ImageOf(digest, platform) == Descriptor("manifest", digest, platform, "none", None)
ArtifactOf(digest) == Descriptor("manifest", digest, Unknown, "none", None)
LegacyOf(digest, image) ==
    Descriptor("manifest", digest, Unknown, "attestation-manifest", image)
IndexAt(digest) == Descriptor("index", digest, None, "none", None)

ConfigOf(p, rootfs) == [kind |-> "config", platform |-> p, version |-> "v", rootfs |-> rootfs]
ImageContent(config) == [kind |-> "image", config |-> config, layers |-> <<"layer">>]
StatementOn(image) == [kind |-> "statement", about |-> image, provenance |-> TRUE]
AttestationOn(image, s) == [kind |-> "attestation", subject |-> image, statements |-> <<s>>]

MCPlatforms == {"amd64", "arm64"}

MCContent ==
    ("layer" :> [kind |-> "layer"]) @@ ("other" :> [kind |-> "layer"]) @@
    ("config64" :> ConfigOf("amd64", <<"layer">>)) @@
    ("configArm" :> ConfigOf("arm64", <<"layer">>)) @@
    ("configOther" :> ConfigOf("amd64", <<"other">>)) @@
    ("image64" :> ImageContent("config64")) @@
    ("imageArm" :> ImageContent("configArm")) @@
    ("imageOther" :> ImageContent("configOther")) @@
    ("on64" :> StatementOn("image64")) @@ ("onArm" :> StatementOn("imageArm")) @@
    ("att64" :> AttestationOn("image64", "on64")) @@
    ("attArm" :> AttestationOn("imageArm", "onArm")) @@
    ("legacy64" :> AttestationOn(None, "on64")) @@
    ("index64" :> IndexOf(<<ImageOf("image64", "amd64"), ArtifactOf("att64")>>)) @@
    ("deep" :> IndexOf(<<IndexAt("index64")>>))

MCDigest == {"layer", "other", "config64", "configArm", "configOther", "image64", "imageArm",
             "imageOther", "on64", "onArm", "att64", "attArm", "legacy64", "index64", "deep"}

Kept(digests) == [d \in digests |-> Content[d]]
ArmBlobs == {"layer", "configArm", "imageArm", "onArm", "attArm"}
Exports64 ==
    LET all == MCDigest
        leaves == {ImageOf("image64", "amd64"), ImageOf("image64", "arm64"),
                   ImageOf("imageOther", "amd64"), ArtifactOf("att64"), ArtifactOf("attArm"),
                   LegacyOf("legacy64", "image64"), LegacyOf("legacy64", "imageArm"),
                   IndexAt("index64"), IndexAt("image64"), IndexAt("deep")}
        roots == {<<x>> : x \in leaves} \union {<<x, y>> : x \in leaves, y \in leaves}
        stored == {Kept(all)} \union {Kept(all \ {d}) : d \in all}
                    \union {[Kept(all) EXCEPT ![d] = Corrupt] : d \in all}
        usual == {<<IndexAt("index64")>>, <<ImageOf("image64", "amd64"),
                                           LegacyOf("legacy64", "image64")>>}
    IN {[root |-> r, blobs |-> Kept(all)] : r \in roots}
         \union {[root |-> r, blobs |-> b] : r \in usual, b \in stored}
ExportsArm ==
    {[root |-> <<ImageOf("imageArm", "arm64"), ArtifactOf("attArm")>>, blobs |-> Kept(ArmBlobs)],
     [root |-> <<ImageOf("imageArm", "arm64")>>, blobs |-> Kept(ArmBlobs)]}

MCInputs == [p \in MCPlatforms |-> IF p = "amd64" THEN Exports64 ELSE ExportsArm]

=============================================================================
