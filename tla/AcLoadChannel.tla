--------------------------- MODULE AcLoadChannel ----------------------------
(***************************************************************************)
(* One Home Assistant channel on its own: any sequence of REST and         *)
(* WebSocket entities, in any order and with any timestamps, arriving      *)
(* between once-a-second expiry passes, lost connections, and a wall clock *)
(* that may be stepped either way while the monotonic clock runs on.       *)
(***************************************************************************)
EXTENDS AcLoad

CONSTANTS
    StaleAfter,  \* ha_stale_after_seconds or the submeter's own limit
    Stamps,      \* source timestamps an entity may carry
    Walls,       \* values the wall clock may be set to
    Horizon      \* bound: the monotonic clock stops here

ASSUME ChannelAssumption ==
    /\ StaleAfter = Unlimited \/ StaleAfter \in Nat \ {0}
    /\ Stamps \subseteq Int
    /\ Walls \subseteq Int
    /\ Horizon \in Nat

Never == NoTime

VARIABLES
    wall,     \* time.time()
    mono,     \* time.monotonic()
    chan,     \* the AcLoadService's fields
    shownAt   \* history: when each source timestamp was first published

vars == <<wall, mono, chan, shownAt>>

(* History of what was published, kept beside the code's own bookkeeping. *)
Remember(ch) ==
    shownAt' = [s \in Stamps |->
                  IF IsShown(ch) /\ ch.lastUpdate = s /\ shownAt[s] = Never
                    THEN mono ELSE shownAt[s]]

Init == /\ wall \in Walls
        /\ mono = 0
        /\ chan = NewChannel
        /\ shownAt = [s \in Stamps |-> Never]

(* A WebSocket event, a snapshot entry or a REST answer reaches the channel; *)
(* an answer that failed carries neither power nor time.                     *)
Update(p, ts) ==
    /\ chan' = UpdateEntity(chan, p, ts, StaleAfter, wall, mono)
    /\ Remember(chan')
    /\ UNCHANGED <<wall, mono>>

(* set_connected(False): the WebSocket is gone. *)
Disconnected ==
    /\ chan' = Invalidate(chan)
    /\ UNCHANGED <<wall, mono, shownAt>>

(* One pass of refresh_channel_freshness that withdraws the reading. *)
ExpirePass ==
    /\ IsShown(chan)
    /\ chan' = Expire(chan, StaleAfter, mono)
    /\ UNCHANGED <<wall, mono, shownAt>>

Tick ==
    /\ mono < Horizon
    /\ mono' = mono + 1
    /\ wall' = IF wall + 1 \in Walls THEN wall + 1 ELSE wall
    /\ UNCHANGED <<chan, shownAt>>

(* The host's wall clock is stepped (NTP, a GPS fix, an operator). *)
SetClock ==
    /\ wall' \in Walls
    /\ UNCHANGED <<mono, chan, shownAt>>

Next ==
    \/ \E p \in Reading, ts \in Stamps \union {NoTime} : Update(p, ts)
    \/ Disconnected
    \/ ExpirePass
    \/ Tick
    \/ SetClock

Spec == Init /\ [][Next]_vars

(* heartbeat_task runs an expiry pass every second for as long as it lives. *)
FairSpec == Spec /\ WF_vars(ExpirePass)

-----------------------------------------------------------------------------

(* Every field keeps its type: freshUntil is always a time, so that expire() *)
(* can compare it before anything was received.                              *)
TypeOK ==
    /\ wall \in Walls
    /\ mono \in 0..Horizon
    /\ chan \in Channel
    /\ shownAt \in [Stamps -> Nat \union {Never}]

Limited == StaleAfter # Unlimited

(* Repeating a timestamp, at any moment and under any wall-clock step, never *)
(* keeps its reading alive longer than StaleAfter after it was first shown   *)
(* (docs/configuration.md: re-reading an old timestamp never extends its     *)
(* lifetime).                                                                *)
LifetimeBounded ==
    Limited /\ IsShown(chan) =>
        /\ shownAt[chan.lastUpdate] # Never
        /\ chan.freshUntil <= shownAt[chan.lastUpdate] + StaleAfter

(* The published reading is never older than one published or recorded       *)
(* before it: no delayed REST answer or snapshot takes the channel back.     *)
NewestShown ==
    IsShown(chan) /\ chan.lastUpdate # NoTime =>
        /\ chan.sourceTime # NoTime => chan.lastUpdate >= chan.sourceTime
        /\ Limited => \A s \in Stamps : shownAt[s] # Never => s <= chan.lastUpdate

(* A timestamp whose life has ended is never published again, although       *)
(* invalidate() clears the freshness time and the wall clock may be stepped  *)
(* back so that the timestamp looks fresh.                                   *)
NoRevival ==
    [][ Limited /\ ~IsShown(chan) /\ IsShown(chan') =>
          \A s \in Stamps :
            shownAt[s] # Never /\ mono >= shownAt[s] + StaleAfter
              => chan'.lastUpdate # s ]_vars

(* The channel implements the contract every source is held to: bounded      *)
(* lives, no way back, and the withdrawal of what has run out by the expiry  *)
(* passes alone (architecture.md: stale channels must become unavailable).   *)
Contract == INSTANCE FreshReading WITH
    now <- mono, shown <- chan.power, stamp <- chan.sourceTime,
    until <- chan.sourceDeadline, MaxAge <- StaleAfter

ContractHolds == Contract!Spec

=============================================================================
