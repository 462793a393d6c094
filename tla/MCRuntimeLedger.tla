--------------------------- MODULE MCRuntimeLedger ---------------------------
(***************************************************************************)
(* Small instances of RuntimeLedger.  A document is the set of rules it    *)
(* carries; a proposal adds one.  A scope's name stands for its own        *)
(* AGENTS.md.  A tick of the clock is a day or so: the windows keep the    *)
(* order of the code's (an hour, a day, seven days), not the ratio.        *)
(***************************************************************************)
EXTENDS RuntimeLedger, TLC

CONSTANTS p1, p2, s1, s2, a, b, r1, r2, e1, e2, t1, t2, shared

MCBytes     == SUBSET {r1, r2}
NoRules     == {{}}
Add(r)      == [d \in MCBytes |-> d \union {r}]
AddOne      == {Add(r1)}

SharedFile == [sc \in Scope |-> {shared}]

Symmetric == Permutations(Proc) \union Permutations(Session)
               \union Permutations(Scope) \union Permutations(Event)
               \union Permutations(Token)
=============================================================================
