----------------------------- MODULE MCLifecycle -----------------------------
(***************************************************************************)
(* Instances of Lifecycle.                                                 *)
(***************************************************************************)
EXTENDS Lifecycle

CONSTANTS c1, c2, c3, c4

TwoChannels == <<c1, c2>>
FourChannels == <<c1, c2, c3, c4>>
NoneMalformed == {}
SecondMalformed == {c2}

=============================================================================
