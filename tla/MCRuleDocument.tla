---------------------------- MODULE MCRuleDocument ----------------------------
(***************************************************************************)
(* A small instance of RuleDocument: five rules, of which one is too       *)
(* large and one quotes a marker, and a block with room for two.           *)
(***************************************************************************)
EXTENDS RuleDocument, TLC

CONSTANTS a, b, c, large, quote, text, k1, k2

Ranks == (c :> 1) @@ (a :> 2) @@ (b :> 3) @@ (large :> 4) @@ (quote :> 5)
Sizes == (a :> 2) @@ (b :> 2) @@ (c :> 3) @@ (large :> 9) @@ (quote :> 2)

Symmetric == Permutations(Card)
==============================================================================
