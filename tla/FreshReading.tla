---------------------------- MODULE FreshReading ----------------------------
(***************************************************************************)
(* What any published channel promises, whatever its source: it shows a    *)
(* reading or nothing.  Each source timestamp gets one life on the         *)
(* receiver's monotonic clock, of at most MaxAge from its first            *)
(* acceptance.  Delivering it again may shorten that life, never extend or *)
(* restart it, and an older timestamp never comes back.                    *)
(***************************************************************************)
EXTENDS Integers

CONSTANTS Power, NoPower, NoTime, MaxAge

VARIABLES
    now,    \* the receiver's monotonic clock
    shown,  \* the published reading, or NoPower
    stamp,  \* the newest source timestamp accepted so far
    until   \* when the life of stamp ends, once it has one

vars == <<now, shown, stamp, until>>

Init == /\ now = 0
        /\ shown = NoPower
        /\ stamp = NoTime
        /\ until = NoTime

Advance == /\ now' > now
           /\ UNCHANGED <<shown, stamp, until>>

(* The source's time moves forward; the new timestamp has no life yet. *)
NewStamp == /\ stamp' # NoTime
            /\ stamp # NoTime => stamp' > stamp

SameStamp == /\ stamp' = stamp
             /\ until # NoTime => until' # NoTime /\ until' <= until

Show == /\ shown' \in Power
        /\ stamp' # NoTime
        /\ NewStamp \/ SameStamp
        /\ until' # NoTime
        /\ now < until' /\ until' <= now + MaxAge
        /\ now' = now

Withdraw == /\ shown' = NoPower
            /\ NewStamp \/ SameStamp
            /\ now' = now

(* The reading outlived its timestamp. *)
Lapse == /\ shown # NoPower
         /\ now >= until
         /\ shown' = NoPower
         /\ UNCHANGED <<now, stamp, until>>

Next == Advance \/ Show \/ Withdraw \/ Lapse

Spec == Init /\ [][Next]_vars /\ WF_vars(Lapse)

=============================================================================
