----------------------------- MODULE MCHaClient -----------------------------
(* Small instances of HaClient in units of five seconds: the least freshness *)
(* limit (10 s) is 2, a sweep or a retry pause is 1, the clock tolerance 1.  *)
EXTENDS HaClient

CONSTANTS w, meter, load1, load2, r1, r2

MCPower == {w}
MCRequests == {r1, r2}
NoMeter == <<>>
Meter == <<meter>>
OneChannel == <<load1>>
TwoChannels == <<load1, load2>>
None == {}
All == Channels
MCLimits == [c \in Channels |-> 2]

=============================================================================
