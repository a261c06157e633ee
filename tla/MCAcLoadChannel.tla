-------------------------- MODULE MCAcLoadChannel ---------------------------
(* Small instances of AcLoadChannel: 4 source timestamps, a wall clock that  *)
(* reaches past StaleAfter of the oldest and before the newest by more than  *)
(* Skew, and a horizon that lets a reading expire and be offered again.      *)
EXTENDS AcLoadChannel

CONSTANT w1

OnePower == {w1}
MCStamps == 2..5
MCWalls == 2..7

=============================================================================
