---------------------------- MODULE AtomicSwitch ----------------------------
(***************************************************************************)
(* What an installing command promises of the parts it writes one by one:  *)
(* seen from outside, all of them move to a version at once, or none does. *)
(***************************************************************************)
CONSTANTS Part, Version, None

VARIABLE version

Init == version \in [Part -> Version \union {None}]

Switch == \E v \in Version : version' = [part \in Part |-> v]

Spec == Init /\ [][Switch]_version
=============================================================================
