------------------------------- MODULE AcLoad -------------------------------
(***************************************************************************)
(* The Home Assistant side of main.AcLoadService: how one channel turns an *)
(* entity into published values, and how it ages.  Each operator takes the *)
(* service's fields as a record and returns them as the method leaves      *)
(* them; modules that own channels (AcLoadChannel, HaClient) apply them.   *)
(*                                                                         *)
(* Record fields:                                                          *)
(*   power          /Ac/Power and /Ac/L1/Power (always written together)   *)
(*   lastUpdate     /LastUpdate                                            *)
(*   connected      /Connected (/Status is its negation)                   *)
(*   freshUntil     _fresh_until, on the monotonic clock                   *)
(*   sourceTime     _source_time, on the wall clock of the source          *)
(*   sourceDeadline _source_deadline, on the monotonic clock               *)
(* Times are integers in any unit; powers are opaque finite values.        *)
(***************************************************************************)
EXTENDS Integers

CONSTANTS
    Power,      \* finite readings, after unit normalisation
    NoPower,    \* None: missing, malformed, non-finite or wrong unit
    NoTime,     \* None: no usable timestamp, or no deadline yet
    Unlimited,  \* stale_after_seconds: null (no freshness limit)
    Skew        \* tolerated clock difference of a future timestamp (5 s)

ASSUME ReadingAssumption ==
    /\ NoPower \notin Power
    /\ NoTime \notin Int
    /\ Unlimited \notin Int
    /\ Skew \in Nat

Reading == Power \union {NoPower}
Stamp   == Int \union {NoTime}

Channel == [power : Reading, lastUpdate : Stamp, connected : BOOLEAN,
            freshUntil : Int, sourceTime : Stamp, sourceDeadline : Stamp]

\* Mutated form: no deadline where the code starts from 0.0.
NewChannelNoDeadline ==
    [power |-> NoPower, lastUpdate |-> NoTime, connected |-> FALSE,
     freshUntil |-> NoTime, sourceTime |-> NoTime, sourceDeadline |-> NoTime]

(* __init__: nothing published, no source time seen. *)
NewChannel == [power |-> NoPower, lastUpdate |-> NoTime, connected |-> FALSE,
               freshUntil |-> 0, sourceTime |-> NoTime,
               sourceDeadline |-> NoTime]

IsShown(ch) == ch.power # NoPower

\* Mutated form: the deadline is forgotten.
InvalidateForgets(ch) == [ch EXCEPT !.freshUntil = 0, !.power = NoPower,
                                    !.lastUpdate = NoTime, !.connected = FALSE,
                                    !.sourceDeadline = NoTime]

(* The watermark and the deadline of its timestamp survive a withdrawal. *)
Invalidate(ch) == [ch EXCEPT !.freshUntil = 0, !.power = NoPower,
                             !.lastUpdate = NoTime, !.connected = FALSE]

Publish(ch, p, ts) == [ch EXCEPT !.power = p, !.lastUpdate = ts,
                                 !.connected = TRUE]

\* Mutated form: every report restarts the deadline.
RecordSourceTimeRestarts(ch, ts) ==
    [ch EXCEPT !.sourceDeadline = NoTime, !.sourceTime = ts]

RecordSourceTime(ch, ts) ==
    [ch EXCEPT !.sourceDeadline = IF ts = ch.sourceTime THEN @ ELSE NoTime,
               !.sourceTime = ts]

\* Mutated form: the watermark is not consulted.
IsOlderUnchecked(ch, ts) == FALSE

IsOlder(ch, ts) ==
    /\ ts # NoTime
    /\ ch.sourceTime # NoTime
    /\ ts < ch.sourceTime

(* Within the freshness window; a future timestamp is tolerated up to Skew. *)
InWindow(ts, maxAge, wall) ==
    /\ ts # NoTime
    /\ -Skew <= wall - ts
    /\ maxAge # Unlimited => wall - ts <= maxAge

IsFresh(ts, maxAge, wall) == maxAge = Unlimited \/ InWindow(ts, maxAge, wall)

\* Mutated form: the timestamp's earlier deadline is not a cap.
DeadlineUncapped(ch, ts, maxAge, wall, mono) ==
    LET age == wall - ts
    IN  mono + maxAge - (IF age > 0 THEN age ELSE 0)

(* now + max_age - max(0, age), never later than the timestamp's deadline. *)
Deadline(ch, ts, maxAge, wall, mono) ==
    LET age == wall - ts
        d   == mono + maxAge - (IF age > 0 THEN age ELSE 0)
    IN  IF ch.sourceDeadline # NoTime /\ ch.sourceDeadline < d
          THEN ch.sourceDeadline
          ELSE d

(* The tail of update_entity, for a channel with a freshness limit. *)
PublishUntil(ch, p, ts, d, mono) ==
    LET dated == [ch EXCEPT !.freshUntil = d, !.sourceDeadline = d]
    IN  IF d <= mono THEN Invalidate(dated) ELSE Publish(dated, p, ts)

(* update_entity with the power and source time that were parsed. *)
UpdateEntity(ch, p, ts, maxAge, wall, mono) ==
    LET marked == IF InWindow(ts, maxAge, wall)
                    THEN RecordSourceTime(ch, ts) ELSE ch
    IN  IF IsOlder(ch, ts) THEN ch
        ELSE IF p = NoPower \/ ~IsFresh(ts, maxAge, wall) THEN Invalidate(marked)
        ELSE IF maxAge = Unlimited THEN Publish(marked, p, ts)
        ELSE PublishUntil(marked, p, ts,
                          Deadline(marked, ts, maxAge, wall, mono), mono)

(* expire: the once-a-second pass of heartbeat_task. *)
Expire(ch, maxAge, mono) ==
    IF maxAge # Unlimited /\ mono >= ch.freshUntil THEN Invalidate(ch) ELSE ch

(* needs_revalidation: half of the allowed age, or more, is spent. *)
NeedsRevalidation(ch, maxAge, mono) ==
    /\ maxAge # Unlimited
    /\ 2 * (ch.freshUntil - mono) <= maxAge

=============================================================================
