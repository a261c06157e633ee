---------------------------- MODULE MCBusMonitor ----------------------------
(* A small instance of BusMonitor: one item, two processes one after the     *)
(* other, and as many writes as it takes for one to be heard and the next    *)
(* missed between the match rules of the two.                                *)
EXTENDS BusMonitor

CONSTANT p

OneItem == {p}

=============================================================================
