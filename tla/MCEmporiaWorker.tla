--------------------------- MODULE MCEmporiaWorker --------------------------
(* Small instances of EmporiaWorker: a status that is refreshed every second *)
(* tick and believed for three, retry delays of 1, 2 and 3 (capped), energy  *)
(* periods short enough for both to come due several times.                  *)
EXTENDS EmporiaWorker

CONSTANT d1

OneDevice == {d1}
MCInterval == [p \in Periods |-> IF p = "day" THEN 1 ELSE 2]

=============================================================================
