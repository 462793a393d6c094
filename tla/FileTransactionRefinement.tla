---------------------- MODULE FileTransactionRefinement ----------------------
(***************************************************************************)
(* apply() and recover() implement the atomic revision: the text in force  *)
(* in a file is what the next recovery would leave in it.  Below, the      *)
(* condition under which they do, and the invariant that shows it.         *)
(***************************************************************************)
EXTENDS FileTransaction

Abstract == INSTANCE AtomicRevision WITH
  docs       <- [q \in Path |-> Recovered(q)],
  registered <- binding,
  spent      <- {plan[t].ev : t \in done}

\* Every step of every call, and of every recovery from a crash, either leaves
\* the text in force alone or is one whole approved revision.
ImplementsAtomicRevision == Abstract!Spec

-----------------------------------------------------------------------------
(* apply() recovers before it takes its locks and does not look again: the *)
(* journal of a call that dies in between may cover the files it is about  *)
(* to write.                                                               *)

NoStaleJournal ==
  \A p \in Proc, t \in Tx :
    pc[p] = "manifest" /\ Live(t) => plan[t].scope \intersect plan[tx[p]].scope = {}

-----------------------------------------------------------------------------
(* The inductive invariant of the refinement, on top of RecoveryInvariant. *)

\* Nobody edits the files behind the locks, nor interrupts between a commit and
\* its flag.
Undisturbed == budget["edit"] = 0 /\ budget["interrupt"] = 0

\* A plan comes from one request, which makes the same document of every file.
PlansAreRequests ==
  \A t \in Tx : plan[t] # NoPlan =>
    \E ed \in Edits, b \in Bytes : \A q \in plan[t].scope :
      /\ plan[t].before[q] \in DOMAIN ed
      /\ ed[plan[t].before[q]] = b
      /\ plan[t].after[q] = b

\* Two journals that both wait to be settled claim different files.
LiveDisjoint ==
  \A t, u \in Tx : Live(t) /\ Live(u) /\ t # u => plan[t].scope \intersect plan[u].scope = {}

\* From the manifest to the end of the transaction its journal waits to be
\* settled, and from then on no longer; what is undone was never committed.
JournalKept(p) ==
  /\ pc[p] \in {"flag", "mark", "retire", "rollback", "discard"} => Live(tx[p])
  /\ pc[p] \in UndoSteps => tx[p] \notin done
  /\ pc[p] \in {"delete", "purge"} => ~Live(tx[p])
  /\ pc[p] = "rdelete" => ~Live(cur[p])

\* The text the evidence decides for.
InForce(t, q) == IF t \in done THEN plan[t].after[q] ELSE plan[t].before[q]

\* A file is as last committed unless a journal claims it, and then the journal
\* holds that text.
TextKept ==
  /\ \A q \in Path : Covering(q) = {} => files[q] = latest[q]
  /\ \A t \in Tx : Live(t) => \A q \in plan[t].scope : latest[q] = InForce(t, q)

\* How far the loops of apply() over the files of a revision have come ...
ApplyProgress(p) ==
  LET r == plan[tx[p]] IN
    /\ pc[p] \in {"mkdir", "manifest", "discard"} => \A q \in r.scope : files[q] = r.before[q]
    /\ pc[p] \in {"write", "verify"} => \A q \in r.scope \ left[p] : files[q] = r.after[q]
    /\ pc[p] \in {"written", "commit", "flag", "mark", "retire"} =>
         \A q \in r.scope : files[q] = r.after[q]
    /\ pc[p] = "rollback" => \A q \in r.scope \ left[p] : files[q] = r.before[q]

\* ... and those of recover() over the files of a journal.
RecoverProgress(p) ==
  LET S == plan[cur[p]].scope IN
    /\ pc[p] \in {"rcheck", "rwrite"} => \A q \in S \ left[p] : files[q] = Snapshot(p, q)
    /\ pc[p] = "rretire" => \A q \in S : files[q] = Snapshot(p, q)

Progress(p) == JournalKept(p) /\ ApplyProgress(p) /\ RecoverProgress(p)

RevisionInvariant ==
  /\ RecoveryInvariant
  /\ Undisturbed
  /\ PlansAreRequests
  /\ LiveDisjoint
  /\ TextKept
  /\ \A p \in Proc : Progress(p)

\* Nothing but a global revision touches the global files' texts.
ScopesApart == \A S \in Scopes : S = GlobalScope \/ S \intersect GlobalScope = {}

\* The registry knows the text in force of the global files.
InParity == \A q \in GlobalScope : latest[q] = binding

\* What recover() has still to look at, where one call runs at a time.
Cleared ==
  \A p \in Proc, t \in Tx : Live(t) =>
    /\ pc[p] = "scan" => t \in todo[p]
    /\ pc[p] \in {"rlock"} \union RecoveredSteps => t \in todo[p] \/ t = cur[p]
    /\ pc[p] = "rdelete" => t # cur[p]
    /\ pc[p] \notin PreSteps \union {"manifest"}

\* Where no call dies, every journal has its owner.
NothingDies == budget["crash"] = 0 /\ budget["io"] = 0

Owned == \A t \in Tx : Live(t) => \E p \in Proc : tx[p] = t /\ pc[p] \in OwningSteps
=============================================================================
