------------------------- MODULE MCReleasePromotion -------------------------
(***************************************************************************)
(* A small instance of ReleasePromotion: the workflow can make two builds  *)
(* of the tagged commit (two runs of the builder on two hosts need not     *)
(* agree), and the operator a third one of another commit.                 *)
(***************************************************************************)
EXTENDS ReleasePromotion, TLC

CONSTANTS o1, o2, w1, w2, b1, b2, b3, c1, c2

Commits == [b \in {b1, b2, b3} |-> IF b = b3 THEN c2 ELSE c1]

Dirs == {Built(b) : b \in {b1, b2, b3}}
=============================================================================
