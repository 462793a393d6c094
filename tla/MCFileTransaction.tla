-------------------------- MODULE MCFileTransaction --------------------------
(***************************************************************************)
(* Small instances of FileTransaction.  A document is the set of rules it  *)
(* carries; requests deploy a rule (a no-op where it is already there) or  *)
(* revoke one.  Files 1 and 2 are the portable source and the host target  *)
(* of the global rules, file 3 is a project's AGENTS.md.                   *)
(***************************************************************************)
EXTENDS FileTransactionRefinement, TLC

CONSTANTS p1, p2, r1, r2, e1, e2, t1, t2, t3

MCBytes     == SUBSET {r1, r2}
NoRules     == {{}}
FirstRule   == {{r1}}
Deploy(r)   == [b \in MCBytes |-> b \union {r}]
Revoke(r)   == [b \in {c \in MCBytes : r \in c} |-> b \ {r}]
DeployBoth  == {Deploy(r1), Deploy(r2)}
DeployOne   == {Deploy(r1)}
AddOrRemove == {Deploy(r2), Revoke(r1)}

Global        == {1, 2}
GlobalOnly    == {{1, 2}}

NoFaults   == [f \in Faults |-> 0]
Crashes    == [NoFaults EXCEPT !["crash"] = 2, !["io"] = 1]
AllFaults  == [f \in Faults |-> 1]
OneCrash   == [NoFaults EXCEPT !["crash"] = 1]

Symmetric == Permutations({p1, p2}) \union Permutations({t1, t2, t3})
               \union Permutations({e1, e2})
=============================================================================
