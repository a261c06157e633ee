-------------------------- MODULE MCEmporiaChannel --------------------------
(* Small instances of EmporiaChannel: one energy field with a longer limit   *)
(* than the power's, source times from too old to too new, and a horizon     *)
(* past the end of any first life.                                           *)
EXTENDS EmporiaChannel

CONSTANTS w, day

MCPower == {w}
OneField == {day}
MCEnergyMaxAge == [f \in Fields |-> 3]
MCStamps == 3..5
MCWalls == 2..8

=============================================================================
