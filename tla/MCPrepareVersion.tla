-------------------------- MODULE MCPrepareVersion --------------------------
(* Small instances of PrepareVersion: two runs, two version files, a line   *)
(* of patches and the next minor version.                                    *)
EXTENDS PrepareVersion, TLC

CONSTANTS r1, r2, fa, fb

MCRuns == {r1, r2}
MCSymmetry == Permutations(MCRuns)
MCFiles == {fa, fb}
MCFirst == <<1, 0, 0>>
MCVersions == {<<1, 0, 0>>, <<1, 0, 1>>, <<1, 1, 0>>}
MCRequests == {"next-patch", "minor", <<1, 0, 1>>}

=============================================================================
