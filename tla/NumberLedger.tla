---------------------------- MODULE NumberLedger ----------------------------
(***************************************************************************)
(* What the version ledger promises its users, as one atomic object: a run *)
(* reserves one plan, under a number above every number before it and a    *)
(* tag of its own, and never another; publication consumes reserved        *)
(* numbers in their order.  Nothing is ever taken back.                    *)
(***************************************************************************)
EXTENDS Naturals

CONSTANTS Runs, NoPlan

VARIABLES counter, floor, plans

vars == <<counter, floor, plans>>

Init ==
    /\ counter = 0 /\ floor = 0
    /\ plans = [r \in Runs |-> NoPlan]

Reserve(r, p) ==
    /\ plans[r] = NoPlan /\ p # NoPlan
    /\ p.number > counter
    /\ \A s \in Runs : plans[s] # NoPlan => plans[s].tag # p.tag
    /\ counter' = p.number
    /\ plans' = [plans EXCEPT ![r] = p]
    /\ UNCHANGED floor

Consume(r) ==
    /\ plans[r] # NoPlan
    /\ plans[r].number >= floor
    /\ floor' = plans[r].number
    /\ UNCHANGED <<counter, plans>>

Next == \E r \in Runs : Reserve(r, plans'[r]) \/ Consume(r)

Spec == Init /\ [][Next]_vars
=============================================================================
