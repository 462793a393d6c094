---------------------------- MODULE MCConsumerScope ----------------------------
(***************************************************************************)
(* A small instance of ConsumerScope: two projects that share the user's   *)
(* two Skills, one of them with a copy of its own.                         *)
(***************************************************************************)
EXTENDS ConsumerScope, TLC

CONSTANTS p1, p2, boot, sidecar, local, bootstrap, review

Sorted == <<p1, p2>>
Names  == (boot :> bootstrap) @@ (local :> bootstrap) @@ (sidecar :> review)
Seen   == (p1 :> <<boot, sidecar>>) @@ (p2 :> <<local, boot, sidecar>>)
=============================================================================
