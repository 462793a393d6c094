-------------------------- MODULE MCInstructionSync --------------------------
(***************************************************************************)
(* Small instances of InstructionSync: two hosts, enrolled in order, and   *)
(* commits with different documents but the last, which reverts to the     *)
(* first one's.                                                            *)
(***************************************************************************)
EXTENDS InstructionSync, TLC

CONSTANTS p1, p2, codex, pi, d1, d2, e1, e2

Enrolled == <<codex, pi>>
ThreeCommits == 1..3
Reverting == <<d1, d2, d1>>

Symmetric == Permutations(Proc)
=============================================================================
