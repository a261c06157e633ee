--------------------------- MODULE MCVersionLedger ---------------------------
(***************************************************************************)
(* Two builds and a promotion, each run at most twice; policies that ask   *)
(* for no number, or for more than the first run takes.                    *)
(***************************************************************************)
EXTENDS VersionLedger, TLC

CONSTANTS r1, r2, p1

MCBuilds == {r1, r2}
MCPromotions == {p1}
MCPolicyFloors == {0, 2}
Symmetry == Permutations(MCBuilds)
=============================================================================
