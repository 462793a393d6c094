--------------------------- MODULE AtomicRevision ---------------------------
(***************************************************************************)
(* What RuleService promises of an approved revision (deploy, deploy_bundle *)
(* and revoke, rule_service.py): the files of its scope change together, in *)
(* one step, from what they hold to what the request makes of it; an       *)
(* approval is spent by it and never again; and for the global rules the   *)
(* registry's binding changes in the same step.                            *)
(***************************************************************************)
EXTENDS FiniteSets

CONSTANTS Path, Scopes, GlobalScope, Bytes, InitialBytes, Edits, Event

VARIABLES
  docs,       \* the text in force in each file
  registered, \* the global text the registry knows
  spent       \* the approvals that have been used

Init ==
  /\ docs \in [Path -> InitialBytes]
  /\ registered \in InitialBytes
  /\ \A q \in GlobalScope : docs[q] = registered
  /\ spent = {}

\* Applying a request to every file of S gives every one of them the text b.
Revises(S, ed, b) ==
  \A q \in S : docs[q] \in DOMAIN ed /\ ed[docs[q]] = b

\* The binding follows a global revision.
Binding(S, b) == IF S = GlobalScope THEN b ELSE registered

Revise(S, e) ==
  /\ e \notin spent
  /\ \E ed \in Edits, b \in Bytes :
       /\ Revises(S, ed, b)
       /\ docs' = [q \in Path |-> IF q \in S THEN b ELSE docs[q]]
       /\ registered' = Binding(S, b)
  /\ spent' = spent \union {e}

Next == \E S \in Scopes, e \in Event : Revise(S, e)

Spec == Init /\ [][Next]_<<docs, registered, spent>>
=============================================================================
