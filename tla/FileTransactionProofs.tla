------------------------ MODULE FileTransactionProofs ------------------------
(***************************************************************************)
(* What holds of the file transactions for any number of processes, files, *)
(* transactions and faults.  Three inductive invariants, one after another: *)
(*   - RecoveryInvariant: recovery decides soundly and an approval         *)
(*     authorises one transaction only;                                    *)
(*   - LockOrder: no two calls ever wait for each other;                   *)
(*   - RevisionInvariant: apply() and recover() implement AtomicRevision   *)
(*     wherever no stale journal is in a call's way, and the two settings  *)
(*     in which none ever is.                                              *)
(*                                                                         *)
(* Calls that end without touching a file, a journal or the database share *)
(* the lemma LeavingKeeps; every action has a lemma of its own.            *)
(***************************************************************************)
EXTENDS FileTransactionRefinement, TLAPS

USE NullAssumption
USE DEF store, db, loc, Goto, SetJournal, RecoveryInvariant, TypeOK,
        Steps, ScanSteps, RepairSteps, PreSteps, TryingSteps, WonSteps, UndoSteps,
        OwningSteps, LockedSteps, RecoveredSteps, JournalStates, LiveStates, Live,
        JournalStages, ProcessStages

LEMMA PlanFacts ==
  ASSUME NEW r \in Plans
  PROVE  /\ r.ev \in Event
         /\ r.scope \in Scopes
         /\ r.scope # {}
         /\ r.scope \subseteq Path
         /\ r.before \in [r.scope -> Bytes]
         /\ r.after \in [r.scope -> Bytes]
         /\ r # NoPlan
  BY ScopeAssumption DEF Plans, PlansFor

\* A fault that strikes leaves a budget for the others.
LEMMA BudgetFacts ==
  ASSUME RecoveryInvariant, NEW f \in Faults, Suffer(f)
  PROVE  budget' \in [Faults -> Nat]
  BY DEF Suffer

\* What Leave does to the shared state: it frees the caller's locks only, and
\* forgets at most the plan no journal was made for.
LEMMA LeaveFacts ==
  ASSUME RecoveryInvariant, NEW p \in Proc, Leave(p)
  PROVE  /\ lock' \in [Path -> Proc \union {NoProc}]
         /\ \A q \in Path, r \in Proc \ {p} : lock[q] = r => lock'[q] = r
         /\ plan' \in [Tx -> Plans \union {NoPlan}]
         /\ \A t \in Tx : journal[t] # "unused" \/ t # tx[p] => plan'[t] = plan[t]
  BY DEF Leave, Released

LEMMA LeaveTypes ==
  ASSUME RecoveryInvariant, NEW p \in Proc, Leave(p)
  PROVE  /\ pc' \in [Proc -> Steps]
         /\ op' \in [Proc -> Ops \union {NoOp}]
         /\ tx' \in [Proc -> Tx \union {NoTx}]
         /\ cur' \in [Proc -> Tx \union {NoTx}]
         /\ sweep' \in [Proc -> SUBSET Tx]
         /\ todo' \in [Proc -> SUBSET Tx]
         /\ left' \in [Proc -> SUBSET Path]
         /\ redo' \in [Proc -> BOOLEAN]
         /\ pc'[p] = "idle" /\ tx'[p] = NoTx
         /\ \A r \in Proc \ {p} : /\ pc'[r] = pc[r] /\ op'[r] = op[r] /\ tx'[r] = tx[r]
                                  /\ cur'[r] = cur[r] /\ left'[r] = left[r]
                                  /\ redo'[r] = redo[r]
  BY DEF Leave

\* A call that returns, raises or dies keeps the invariant: whatever it held is
\* free again and nothing else has moved.
LEMMA LeavingKeeps ==
  ASSUME RecoveryInvariant, NEW p \in Proc, Leave(p),
         UNCHANGED <<files, journal, db>>, budget' \in [Faults -> Nat]
  PROVE  RecoveryInvariant'
  <1>1. TypeOK'
    BY LeaveFacts, LeaveTypes
  <1>2. Ownership' /\ LoopsInScope'
    <2>1. ASSUME NEW r \in Proc, r # p
          PROVE  /\ pc[r] # "idle" /\ tx[r] = NoTx => op[r] # NoOp
                 /\ pc[r] \in {"parity", "plan"} => tx[r] = NoTx
                 /\ pc[r] \in LockedSteps \union {"lock"} => tx[r] # NoTx
                 /\ tx[r] # NoTx => /\ plan'[tx[r]] # NoPlan
                                    /\ \A s \in Proc \ {r} : tx'[s] # tx[r]
                                    /\ pc[r] \notin OwningSteps => journal'[tx[r]] = "unused"
                 /\ pc[r] \in RecoveredSteps \union {"rlock"} =>
                      cur[r] # NoTx /\ journal'[cur[r]] \notin {"unused", "dir"}
      BY <2>1, LeaveFacts, LeaveTypes DEF Ownership
    <2>2. Ownership'
      BY <2>1, LeaveTypes DEF Ownership
    <2>3. LoopsInScope'
      BY LeaveFacts, LeaveTypes DEF Ownership, LoopsInScope, Stages
    <2> QED
      BY <2>2, <2>3
  <1>3. LocksHeld'
    <2> SUFFICES ASSUME NEW r \in Proc
                 PROVE  /\ pc'[r] \in LockedSteps =>
                              \A q \in plan'[tx'[r]].scope : lock'[q] = r
                        /\ pc'[r] \in RecoveredSteps =>
                              \A q \in plan'[cur'[r]].scope : lock'[q] = r
      BY DEF LocksHeld
    <2>1. CASE r = p
      BY <2>1, LeaveTypes
    <2>2. CASE r # p
      <3>1. pc[r] \in LockedSteps =>
              /\ tx[r] \in Tx /\ plan'[tx[r]] = plan[tx[r]] /\ plan[tx[r]] \in Plans
              /\ \A q \in plan[tx[r]].scope : lock[q] = r
        BY <2>2, LeaveFacts DEF Ownership, LocksHeld
      <3>2. pc[r] \in RecoveredSteps =>
              /\ cur[r] \in Tx /\ plan'[cur[r]] = plan[cur[r]] /\ plan[cur[r]] \in Plans
              /\ \A q \in plan[cur[r]].scope : lock[q] = r
        BY <2>2, LeaveFacts DEF Ownership, LocksHeld, Stages
      <3> QED
        BY <2>2, <3>1, <3>2, PlanFacts, LeaveFacts, LeaveTypes
    <2> QED
      BY <2>1, <2>2
  <1>4. Stages'
    <2>1. JournalStages'
      BY LeaveFacts DEF Stages
    <2>2. ProcessStages'
      BY LeaveTypes DEF Stages
    <2> QED
      BY <2>1, <2>2 DEF Stages
  <1>5. Evidence' /\ ApprovalSingleUse'
    BY LeaveFacts DEF Evidence, ApprovalSingleUse, Stages
  <1>6. RecoveryDecisionSound'
    BY LeaveTypes DEF RecoveryDecisionSound
  <1> QED
    BY <1>1, <1>2, <1>3, <1>4, <1>5, <1>6

LEMMA Initially == Init => RecoveryInvariant
  <1> SUFFICES ASSUME Init PROVE RecoveryInvariant
    OBVIOUS
  <1>1. TypeOK
    BY BytesAssumption, BudgetAssumption DEF Init
  <1>2. Ownership /\ LoopsInScope /\ LocksHeld
    BY DEF Init, Ownership, LoopsInScope, LocksHeld
  <1>3. Stages /\ Evidence
    BY DEF Init, Stages, Evidence
  <1>4. ApprovalSingleUse /\ RecoveryDecisionSound
    BY DEF Init, ApprovalSingleUse, RecoveryDecisionSound
  <1> QED
    BY <1>1, <1>2, <1>3, <1>4

LEMMA BeginKeeps ==
  ASSUME RecoveryInvariant, NEW p \in Proc, Begin(p)
  PROVE  RecoveryInvariant'
  <1> USE DEF Begin
  <1>1. TypeOK'
    BY PlanFacts DEF Ownership, LoopsInScope, Ops
  <1>2. Ownership' /\ LoopsInScope'
    BY PlanFacts DEF Ownership, LoopsInScope, Stages, Ops
  <1>3. LocksHeld'
    BY PlanFacts DEF LocksHeld, Ownership
  <1>4. Stages'
    BY PlanFacts DEF Stages, Ownership, LocksHeld
  <1>5. Evidence' /\ ApprovalSingleUse'
    BY PlanFacts DEF Evidence, ApprovalSingleUse, Stages, Ownership
  <1>6. RecoveryDecisionSound'
    BY PlanFacts DEF RecoveryDecisionSound, Stages, Ownership, LocksHeld, Evidence
  <1> QED
    BY <1>1, <1>2, <1>3, <1>4, <1>5, <1>6

LEMMA AssertParityKeeps ==
  ASSUME RecoveryInvariant, NEW p \in Proc, AssertParity(p)
  PROVE  RecoveryInvariant'
  <1>1. CASE Leave(p)
    BY <1>1, LeavingKeeps DEF AssertParity
  <1>2. CASE ~Leave(p)
    <2>1. /\ pc[p] = "parity" /\ pc' = [pc EXCEPT ![p] = "plan"]
          /\ UNCHANGED <<files, lock, journal, plan, db, loc, budget>>
      BY <1>2 DEF AssertParity
    <2>2. TypeOK'
      BY <2>1 DEF Ownership
    <2>3. Ownership' /\ LoopsInScope'
      BY <2>1 DEF Ownership, LoopsInScope
    <2>4. LocksHeld'
      BY <2>1 DEF LocksHeld, Ownership
    <2>5. Stages'
      BY <2>1 DEF Stages, Ownership, LocksHeld
    <2>6. Evidence' /\ ApprovalSingleUse'
      BY <2>1 DEF Evidence, ApprovalSingleUse, Stages, Ownership
    <2>7. RecoveryDecisionSound'
      BY <2>1 DEF RecoveryDecisionSound, Stages, Ownership, Evidence
    <2> QED
      BY <2>2, <2>3, <2>4, <2>5, <2>6, <2>7
  <1> QED
    BY <1>1, <1>2

LEMMA PlanRevisionKeeps ==
  ASSUME RecoveryInvariant, NEW p \in Proc, PlanRevision(p)
  PROVE  RecoveryInvariant'
  <1>1. CASE Leave(p)
    BY <1>1, LeavingKeeps DEF PlanRevision
  <1>2. CASE ~Leave(p)
    <2>1. PICK t \in Tx :
            /\ plan[t] = NoPlan
            /\ journal[t] = "unused"
            /\ plan' = [plan EXCEPT ![t] =
                 [ev |-> op[p].ev, scope |-> op[p].scope,
                  before |-> [q \in op[p].scope |-> files[q]],
                  after  |-> [q \in op[p].scope |-> op[p].edit[files[q]]]]]
            /\ tx' = [tx EXCEPT ![p] = t]
      BY <1>2 DEF PlanRevision
    <2>2. /\ pc[p] = "plan" /\ pc' = [pc EXCEPT ![p] = "list"]
          /\ op' = [op EXCEPT ![p] = NoOp]
          /\ \A q \in op[p].scope : files[q] \in DOMAIN op[p].edit
          /\ UNCHANGED <<files, lock, journal, db, sweep, todo, cur, left, redo, budget>>
      BY <1>2 DEF PlanRevision
    <2>3. /\ op[p].ev \in Event /\ op[p].scope \in Scopes /\ op[p].edit \in Edits
          /\ op[p].scope \subseteq Path /\ tx[p] = NoTx
      BY <2>2, ScopeAssumption DEF Ownership, Ops
    <2>4. plan'[t] \in Plans
      <3>1. [q \in op[p].scope |-> files[q]] \in [op[p].scope -> Bytes]
        BY <2>3
      <3>2. [q \in op[p].scope |-> op[p].edit[files[q]]] \in [op[p].scope -> Bytes]
        BY <2>2, <2>3, EditsAssumption
      <3> QED
        BY <2>1, <2>3, <3>1, <3>2 DEF Plans, PlansFor
    <2>5. TypeOK'
      BY <2>1, <2>2, <2>4
    <2>6. Ownership' /\ LoopsInScope'
      BY <2>1, <2>2, <2>3, <2>4 DEF Ownership, LoopsInScope
    <2>7. LocksHeld'
      BY <2>1, <2>2, <2>3 DEF LocksHeld, Ownership, Stages
    <2>8. Stages'
      BY <2>1, <2>2, <2>3, <2>4 DEF Stages, Ownership
    <2>9. t \notin done
      BY <2>1 DEF Stages
    <2>10. Evidence' /\ ApprovalSingleUse'
      BY <2>1, <2>2, <2>9 DEF Evidence, ApprovalSingleUse
    <2>11. RecoveryDecisionSound'
      BY <2>1, <2>2 DEF RecoveryDecisionSound
    <2> QED
      BY <2>5, <2>6, <2>7, <2>8, <2>10, <2>11
  <1> QED
    BY <1>1, <1>2

LEMMA ListJournalsKeeps ==
  ASSUME RecoveryInvariant, NEW p \in Proc, ListJournals(p)
  PROVE  RecoveryInvariant'
  <1> USE DEF ListJournals
  <1>1. TypeOK'
    BY PlanFacts DEF Ownership, LoopsInScope
  <1>2. Ownership' /\ LoopsInScope'
    BY PlanFacts DEF Ownership, LoopsInScope, Stages
  <1>3. LocksHeld'
    BY PlanFacts DEF LocksHeld, Ownership
  <1>4. Stages'
    BY PlanFacts DEF Stages, Ownership, LocksHeld
  <1>5. Evidence' /\ ApprovalSingleUse'
    BY PlanFacts DEF Evidence, ApprovalSingleUse, Stages, Ownership
  <1>6. RecoveryDecisionSound'
    BY PlanFacts DEF RecoveryDecisionSound, Stages, Ownership, LocksHeld, Evidence
  <1> QED
    BY <1>1, <1>2, <1>3, <1>4, <1>5, <1>6

LEMMA SweepRetiredKeeps ==
  ASSUME RecoveryInvariant, NEW p \in Proc, SweepRetired(p)
  PROVE  RecoveryInvariant'
  <1> USE DEF SweepRetired
  <1>1. TypeOK'
    BY PlanFacts DEF Ownership, LoopsInScope
  <1>2. Ownership' /\ LoopsInScope'
    BY PlanFacts DEF Ownership, LoopsInScope, Stages
  <1>3. LocksHeld'
    BY PlanFacts DEF LocksHeld, Ownership
  <1>4. Stages'
    BY PlanFacts DEF Stages, Ownership, LocksHeld
  <1>5. Evidence' /\ ApprovalSingleUse'
    BY PlanFacts DEF Evidence, ApprovalSingleUse, Stages, Ownership
  <1>6. RecoveryDecisionSound'
    BY PlanFacts DEF RecoveryDecisionSound, Stages, Ownership, LocksHeld, Evidence
  <1> QED
    BY <1>1, <1>2, <1>3, <1>4, <1>5, <1>6

LEMMA OpenJournalKeeps ==
  ASSUME RecoveryInvariant, NEW p \in Proc, OpenJournal(p)
  PROVE  RecoveryInvariant'
  <1>1. CASE Leave(p)
    BY <1>1, LeavingKeeps DEF OpenJournal
  <1>2. CASE ~Leave(p)
    <2>1. /\ pc[p] = "scan"
          /\ todo' \in [Proc -> SUBSET Tx]
          /\ UNCHANGED <<files, lock, journal, plan, db, op, tx, sweep, left, redo, budget>>
          /\ \/ UNCHANGED <<pc, cur>>
             \/ \E t \in Tx : /\ Live(t)
                              /\ cur' = [cur EXCEPT ![p] = t]
                              /\ pc' = [pc EXCEPT ![p] = "rlock"]
      BY <1>2 DEF OpenJournal, Passed
    <2>2. TypeOK'
      BY <2>1 DEF Ownership
    <2>3. Ownership' /\ LoopsInScope'
      BY <2>1 DEF Ownership, LoopsInScope
    <2>4. LocksHeld'
      BY <2>1 DEF LocksHeld, Ownership
    <2>5. Stages'
      BY <2>1 DEF Stages, Ownership, LocksHeld
    <2>6. Evidence' /\ ApprovalSingleUse'
      BY <2>1 DEF Evidence, ApprovalSingleUse, Stages, Ownership
    <2>7. RecoveryDecisionSound'
      BY <2>1 DEF RecoveryDecisionSound, Stages, Ownership, Evidence
    <2> QED
      BY <2>2, <2>3, <2>4, <2>5, <2>6, <2>7
  <1> QED
    BY <1>1, <1>2

LEMMA FinishRecoveryKeeps ==
  ASSUME RecoveryInvariant, NEW p \in Proc, FinishRecovery(p)
  PROVE  RecoveryInvariant'
  <1> USE DEF FinishRecovery
  <1>1. TypeOK'
    BY PlanFacts DEF Ownership, LoopsInScope
  <1>2. Ownership' /\ LoopsInScope'
    BY PlanFacts DEF Ownership, LoopsInScope, Stages
  <1>3. LocksHeld'
    BY PlanFacts DEF LocksHeld, Ownership
  <1>4. Stages'
    BY PlanFacts DEF Stages, Ownership, LocksHeld
  <1>5. Evidence' /\ ApprovalSingleUse'
    BY PlanFacts DEF Evidence, ApprovalSingleUse, Stages, Ownership
  <1>6. RecoveryDecisionSound'
    BY PlanFacts DEF RecoveryDecisionSound, Stages, Ownership, LocksHeld, Evidence
  <1> QED
    BY <1>1, <1>2, <1>3, <1>4, <1>5, <1>6

LEMMA LockJournalPathsKeeps ==
  ASSUME RecoveryInvariant, NEW p \in Proc, LockJournalPaths(p)
  PROVE  RecoveryInvariant'
  <1> USE DEF LockJournalPaths, LockNext, Unlocked, IsFirst, Free
  <1>1. TypeOK'
    BY PlanFacts DEF Ownership, LoopsInScope
  <1>2. Ownership' /\ LoopsInScope'
    BY PlanFacts DEF Ownership, LoopsInScope, Stages
  <1>3. LocksHeld'
    BY PlanFacts DEF LocksHeld, Ownership
  <1>4. Stages'
    BY PlanFacts DEF Stages, Ownership, LocksHeld
  <1>5. Evidence' /\ ApprovalSingleUse'
    BY PlanFacts DEF Evidence, ApprovalSingleUse, Stages, Ownership
  <1>6. RecoveryDecisionSound'
    BY PlanFacts DEF RecoveryDecisionSound, Stages, Ownership, LocksHeld, Evidence
  <1> QED
    BY <1>1, <1>2, <1>3, <1>4, <1>5, <1>6

LEMMA DecideRecoveryKeeps ==
  ASSUME RecoveryInvariant, NEW p \in Proc, DecideRecovery(p)
  PROVE  RecoveryInvariant'
  <1>1. CASE Leave(p)
    BY <1>1, LeavingKeeps DEF DecideRecovery
  \* The journal was settled by another call: its locks are given back.
  <1>2. CASE /\ NextJournal(p)
             /\ UNCHANGED <<files, journal, plan, db, op, tx, sweep, todo, left, redo, budget>>
    <2>1. TypeOK'
      BY <1>2 DEF NextJournal, Released
    <2>2. pc[p] = "decide"
      BY DEF DecideRecovery
    <2>3. Ownership' /\ LoopsInScope'
      BY <1>2, <2>2 DEF NextJournal, Ownership, LoopsInScope
    <2>4. LocksHeld'
      <3>1. ASSUME NEW r \in Proc \ {p}, pc[r] \in LockedSteps
            PROVE  \A q \in plan[tx[r]].scope : lock'[q] = r
        <4>1. plan[tx[r]] \in Plans /\ \A q \in plan[tx[r]].scope : lock[q] = r
          BY <3>1 DEF LocksHeld, Ownership
        <4> QED
          BY <1>2, <4>1, PlanFacts DEF NextJournal, Released
      <3>2. ASSUME NEW r \in Proc \ {p}, pc[r] \in RecoveredSteps
            PROVE  \A q \in plan[cur[r]].scope : lock'[q] = r
        <4>1. plan[cur[r]] \in Plans /\ \A q \in plan[cur[r]].scope : lock[q] = r
          BY <3>2 DEF LocksHeld, Ownership, Stages
        <4> QED
          BY <1>2, <4>1, PlanFacts DEF NextJournal, Released
      <3> QED
        BY <1>2, <3>1, <3>2 DEF NextJournal, LocksHeld
    <2>5. Stages'
      BY <1>2 DEF NextJournal, Stages
    <2>6. Evidence' /\ ApprovalSingleUse'
      BY <1>2 DEF Evidence, ApprovalSingleUse
    <2>7. RecoveryDecisionSound'
      BY <1>2 DEF NextJournal, RecoveryDecisionSound
    <2> QED
      BY <2>1, <2>3, <2>4, <2>5, <2>6, <2>7
  <1>3. CASE /\ Live(cur[p])
             /\ Provable(cur[p])
             /\ redo' = [redo EXCEPT ![p] = Committed(cur[p])]
             /\ left' = [left EXCEPT ![p] = plan[cur[p]].scope]
             /\ pc' = [pc EXCEPT ![p] = "rcheck"]
             /\ UNCHANGED <<files, lock, journal, plan, db, op, tx, sweep, todo, cur, budget>>
    <2>1. /\ pc[p] = "decide" /\ cur[p] \in Tx /\ plan[cur[p]] \in Plans
          /\ plan[cur[p]].scope \subseteq Path /\ plan[cur[p]].ev \in Event
      BY PlanFacts DEF DecideRecovery, Ownership, Stages
    \* The row and the manifest speak only for committed transactions; and where
    \* both are silent the event, still there, says that nothing was committed.
    <2>2. Committed(cur[p]) <=> cur[p] \in done
      <3>1. Committed(cur[p]) => cur[p] \in done
        BY <2>1 DEF Committed, Stages, Evidence
      <3>2. cur[p] \in done => Committed(cur[p])
        BY <1>3, <2>1 DEF Provable, Committed, Evidence
      <3> QED
        BY <3>1, <3>2
    <2>3. TypeOK'
      BY <1>3, <2>1 DEF Committed
    <2>4. Ownership' /\ LoopsInScope'
      BY <1>3, <2>1 DEF Ownership, LoopsInScope
    <2>5. LocksHeld'
      BY <1>3, <2>1 DEF LocksHeld
    <2>6. Stages'
      BY <1>3, <2>1 DEF Stages
    <2>7. Evidence' /\ ApprovalSingleUse'
      BY <1>3 DEF Evidence, ApprovalSingleUse
    <2>8. RecoveryDecisionSound'
      BY <1>3, <2>1, <2>2 DEF RecoveryDecisionSound
    <2> QED
      BY <2>3, <2>4, <2>5, <2>6, <2>7, <2>8
  <1> QED
    BY <1>1, <1>2, <1>3 DEF DecideRecovery

LEMMA CheckDriftKeeps ==
  ASSUME RecoveryInvariant, NEW p \in Proc, CheckDrift(p)
  PROVE  RecoveryInvariant'
  <1>1. CASE Leave(p)
    BY <1>1, LeavingKeeps DEF CheckDrift
  <1>2. CASE ~Leave(p)
    <2>1. /\ pc[p] = "rcheck" /\ pc' = [pc EXCEPT ![p] = "rwrite"]
          /\ UNCHANGED <<files, lock, journal, plan, db, loc, budget>>
      BY <1>2 DEF CheckDrift
    <2>2. TypeOK'
      BY <2>1 DEF Ownership
    <2>3. Ownership' /\ LoopsInScope'
      BY <2>1 DEF Ownership, LoopsInScope
    <2>4. LocksHeld'
      BY <2>1 DEF LocksHeld, Ownership
    <2>5. Stages'
      BY <2>1 DEF Stages, Ownership, LocksHeld
    <2>6. Evidence' /\ ApprovalSingleUse'
      BY <2>1 DEF Evidence, ApprovalSingleUse, Stages, Ownership
    <2>7. RecoveryDecisionSound'
      BY <2>1 DEF RecoveryDecisionSound, Stages, Ownership, Evidence
    <2> QED
      BY <2>2, <2>3, <2>4, <2>5, <2>6, <2>7
  <1> QED
    BY <1>1, <1>2

LEMMA RestoreTargetKeeps ==
  ASSUME RecoveryInvariant, NEW p \in Proc, RestoreTarget(p)
  PROVE  RecoveryInvariant'
  <1> USE DEF RestoreTarget, IsFirst, AfterRound, Snapshot
  <1>0. plan[cur[p]] \in Plans
    BY DEF Ownership, Stages
  <1>1. TypeOK'
    <2>1. ASSUME NEW q \in left[p]
          PROVE  plan[cur[p]].after[q] \in Bytes /\ plan[cur[p]].before[q] \in Bytes
      BY <1>0, PlanFacts DEF LoopsInScope
    <2> QED
      BY <2>1
  <1>2. Ownership' /\ LoopsInScope'
    BY PlanFacts DEF Ownership, LoopsInScope, Stages
  <1>3. LocksHeld'
    BY PlanFacts DEF LocksHeld, Ownership
  <1>4. Stages'
    BY PlanFacts DEF Stages, Ownership, LocksHeld
  <1>5. Evidence' /\ ApprovalSingleUse'
    BY PlanFacts DEF Evidence, ApprovalSingleUse, Stages, Ownership
  <1>6. RecoveryDecisionSound'
    BY PlanFacts DEF RecoveryDecisionSound, Stages, Ownership, LocksHeld, Evidence
  <1> QED
    BY <1>1, <1>2, <1>3, <1>4, <1>5, <1>6

LEMMA RetireRecoveredKeeps ==
  ASSUME RecoveryInvariant, NEW p \in Proc, RetireRecovered(p)
  PROVE  RecoveryInvariant'
  <1> USE DEF RetireRecovered
  <1>1. TypeOK'
    BY PlanFacts DEF Ownership, LoopsInScope
  <1>2. Ownership' /\ LoopsInScope'
    BY PlanFacts DEF Ownership, LoopsInScope, Stages
  <1>3. LocksHeld'
    BY PlanFacts DEF LocksHeld, Ownership
  <1>4. Stages'
    BY PlanFacts DEF Stages, Ownership, LocksHeld
  <1>5. Evidence' /\ ApprovalSingleUse'
    BY PlanFacts DEF Evidence, ApprovalSingleUse, Stages, Ownership
  <1>6. RecoveryDecisionSound'
    BY PlanFacts DEF RecoveryDecisionSound, Stages, Ownership, LocksHeld, Evidence
  <1> QED
    BY <1>1, <1>2, <1>3, <1>4, <1>5, <1>6

LEMMA DeleteRecoveredKeeps ==
  ASSUME RecoveryInvariant, NEW p \in Proc, DeleteRecovered(p)
  PROVE  RecoveryInvariant'
  <1> USE DEF DeleteRecovered, NextJournal, Released
  <1>1. TypeOK'
    BY PlanFacts DEF Ownership, LoopsInScope
  <1>2. Ownership' /\ LoopsInScope'
    BY PlanFacts DEF Ownership, LoopsInScope, Stages
  <1>3. LocksHeld'
    <2>1. ASSUME NEW r \in Proc \ {p}, pc[r] \in LockedSteps
          PROVE  \A q \in plan[tx[r]].scope : lock'[q] = r
      <3>1. plan[tx[r]] \in Plans /\ \A q \in plan[tx[r]].scope : lock[q] = r
        BY <2>1 DEF LocksHeld, Ownership
      <3> QED
        BY <3>1, PlanFacts
    <2>2. ASSUME NEW r \in Proc \ {p}, pc[r] \in RecoveredSteps
          PROVE  \A q \in plan[cur[r]].scope : lock'[q] = r
      <3>1. plan[cur[r]] \in Plans /\ \A q \in plan[cur[r]].scope : lock[q] = r
        BY <2>2 DEF LocksHeld, Ownership, Stages
      <3> QED
        BY <3>1, PlanFacts
    <2> QED
      BY <2>1, <2>2 DEF LocksHeld
  <1>4. Stages'
    BY PlanFacts DEF Stages, Ownership, LocksHeld
  <1>5. Evidence' /\ ApprovalSingleUse'
    BY PlanFacts DEF Evidence, ApprovalSingleUse, Stages, Ownership
  <1>6. RecoveryDecisionSound'
    BY PlanFacts DEF RecoveryDecisionSound, Stages, Ownership, LocksHeld, Evidence
  <1> QED
    BY <1>1, <1>2, <1>3, <1>4, <1>5, <1>6

LEMMA LockTargetsKeeps ==
  ASSUME RecoveryInvariant, NEW p \in Proc, LockTargets(p)
  PROVE  RecoveryInvariant'
  <1> USE DEF LockTargets, LockNext, Unlocked, IsFirst, Free
  <1>1. TypeOK'
    BY PlanFacts DEF Ownership, LoopsInScope
  <1>2. Ownership' /\ LoopsInScope'
    BY PlanFacts DEF Ownership, LoopsInScope, Stages
  <1>3. LocksHeld'
    BY PlanFacts DEF LocksHeld, Ownership
  <1>4. Stages'
    BY PlanFacts DEF Stages, Ownership, LocksHeld
  <1>5. Evidence' /\ ApprovalSingleUse'
    BY PlanFacts DEF Evidence, ApprovalSingleUse, Stages, Ownership
  <1>6. RecoveryDecisionSound'
    BY PlanFacts DEF RecoveryDecisionSound, Stages, Ownership, LocksHeld, Evidence
  <1> QED
    BY <1>1, <1>2, <1>3, <1>4, <1>5, <1>6

LEMMA LockTimeoutKeeps ==
  ASSUME RecoveryInvariant, NEW p \in Proc, LockTimeout(p)
  PROVE  RecoveryInvariant'
  BY LeavingKeeps DEF LockTimeout

LEMMA AssertUnchangedKeeps ==
  ASSUME RecoveryInvariant, NEW p \in Proc, AssertUnchanged(p)
  PROVE  RecoveryInvariant'
  <1>1. CASE Leave(p)
    BY <1>1, LeavingKeeps DEF AssertUnchanged
  <1>2. CASE ~Leave(p)
    <2>1. /\ pc[p] = "check" /\ pc' = [pc EXCEPT ![p] = "mkdir"]
          /\ UNCHANGED <<files, lock, journal, plan, db, loc, budget>>
      BY <1>2 DEF AssertUnchanged
    <2>2. TypeOK'
      BY <2>1 DEF Ownership
    <2>3. Ownership' /\ LoopsInScope'
      BY <2>1 DEF Ownership, LoopsInScope
    <2>4. LocksHeld'
      BY <2>1 DEF LocksHeld, Ownership
    <2>5. Stages'
      BY <2>1 DEF Stages, Ownership, LocksHeld
    <2>6. Evidence' /\ ApprovalSingleUse'
      BY <2>1 DEF Evidence, ApprovalSingleUse, Stages, Ownership
    <2>7. RecoveryDecisionSound'
      BY <2>1 DEF RecoveryDecisionSound, Stages, Ownership, Evidence
    <2> QED
      BY <2>2, <2>3, <2>4, <2>5, <2>6, <2>7
  <1> QED
    BY <1>1, <1>2

LEMMA MakeJournalKeeps ==
  ASSUME RecoveryInvariant, NEW p \in Proc, MakeJournal(p)
  PROVE  RecoveryInvariant'
  <1> USE DEF MakeJournal
  <1>1. TypeOK'
    BY PlanFacts DEF Ownership, LoopsInScope
  <1>2. Ownership' /\ LoopsInScope'
    BY PlanFacts DEF Ownership, LoopsInScope, Stages
  <1>3. LocksHeld'
    BY PlanFacts DEF LocksHeld, Ownership
  <1>4. Stages'
    BY PlanFacts DEF Stages, Ownership, LocksHeld
  <1>5. Evidence' /\ ApprovalSingleUse'
    BY PlanFacts DEF Evidence, ApprovalSingleUse, Stages, Ownership
  <1>6. RecoveryDecisionSound'
    BY PlanFacts DEF RecoveryDecisionSound, Stages, Ownership, LocksHeld, Evidence
  <1> QED
    BY <1>1, <1>2, <1>3, <1>4, <1>5, <1>6

LEMMA WriteManifestKeeps ==
  ASSUME RecoveryInvariant, NEW p \in Proc, WriteManifest(p)
  PROVE  RecoveryInvariant'
  <1> USE DEF WriteManifest
  <1>1. TypeOK'
    BY PlanFacts DEF Ownership, LoopsInScope
  <1>2. Ownership' /\ LoopsInScope'
    BY PlanFacts DEF Ownership, LoopsInScope, Stages
  <1>3. LocksHeld'
    BY PlanFacts DEF LocksHeld, Ownership
  <1>4. Stages'
    BY PlanFacts DEF Stages, Ownership, LocksHeld
  <1>5. Evidence' /\ ApprovalSingleUse'
    BY PlanFacts DEF Evidence, ApprovalSingleUse, Stages, Ownership
  <1>6. RecoveryDecisionSound'
    BY PlanFacts DEF RecoveryDecisionSound, Stages, Ownership, LocksHeld, Evidence
  <1> QED
    BY <1>1, <1>2, <1>3, <1>4, <1>5, <1>6

LEMMA JournalFailsKeeps ==
  ASSUME RecoveryInvariant, NEW p \in Proc, JournalFails(p)
  PROVE  RecoveryInvariant'
  <1>0. CASE UNCHANGED journal
    BY <1>0, LeavingKeeps, BudgetFacts DEF JournalFails, Faults
  <1> SUFFICES ASSUME journal' # journal
               PROVE  RecoveryInvariant'
    BY <1>0
  <1>1. /\ pc[p] = "manifest" /\ Leave(p) /\ Suffer("io")
        /\ journal' = [journal EXCEPT ![tx[p]] = "gone"]
        /\ UNCHANGED <<files, db>>
    BY DEF JournalFails
  <1>2. /\ tx[p] \in Tx /\ plan[tx[p]] \in Plans /\ plan[tx[p]].scope # {}
        /\ \A r \in Proc \ {p} : tx[r] # tx[p]
    BY <1>1, PlanFacts DEF Ownership
  <1>3. \A t \in Tx : journal'[t] = IF t = tx[p] THEN "gone" ELSE journal[t]
    BY <1>1, <1>2
  <1>4. \A t \in Tx : journal[t] # "unused" => plan'[t] = plan[t]
    BY <1>1, LeaveFacts
  <1>5. \A r \in Proc \ {p} : pc[r] \in RepairSteps => cur[r] # tx[p]
    BY <1>1, <1>2 DEF LocksHeld, Stages
  <1>6. TypeOK'
    BY <1>1, <1>2, LeaveFacts, LeaveTypes, BudgetFacts DEF Faults
  <1>7. Ownership' /\ LoopsInScope'
    <2>1. ASSUME NEW r \in Proc, r # p
          PROVE  /\ pc[r] # "idle" /\ tx[r] = NoTx => op[r] # NoOp
                 /\ pc[r] \in {"parity", "plan"} => tx[r] = NoTx
                 /\ pc[r] \in LockedSteps \union {"lock"} => tx[r] # NoTx
                 /\ tx[r] # NoTx => /\ plan'[tx[r]] # NoPlan
                                    /\ \A s \in Proc \ {r} : tx'[s] # tx[r]
                                    /\ pc[r] \notin OwningSteps => journal'[tx[r]] = "unused"
                 /\ pc[r] \in RecoveredSteps \union {"rlock"} =>
                      cur[r] # NoTx /\ journal'[cur[r]] \notin {"unused", "dir"}
      BY <1>1, <1>2, <1>3, <2>1, LeaveFacts, LeaveTypes DEF Ownership
    <2>2. Ownership'
      <3>1. \A r \in Proc \ {p} : /\ pc'[r] = pc[r] /\ op'[r] = op[r]
                                 /\ tx'[r] = tx[r] /\ cur'[r] = cur[r]
        BY <1>1, LeaveTypes
      <3>2. pc'[p] = "idle" /\ tx'[p] = NoTx
        BY <1>1, LeaveTypes
      <3> QED
        BY ONLY <2>1, <3>1, <3>2, SMT DEF Ownership, LockedSteps, OwningSteps, TryingSteps,
             WonSteps, UndoSteps, RecoveredSteps, RepairSteps
    <2>3. LoopsInScope'
      BY <1>1, <1>2, <1>3, LeaveFacts, LeaveTypes DEF Ownership, LoopsInScope, Stages
    <2> QED
      BY <2>2, <2>3
  <1>8. LocksHeld'
    <2>1. ASSUME NEW r \in Proc \ {p}, pc[r] \in LockedSteps
          PROVE  \A q \in plan'[tx[r]].scope : lock'[q] = r
      <3>1. /\ plan[tx[r]] \in Plans /\ tx[r] # tx[p] /\ tx[r] \in Tx
            /\ \A q \in plan[tx[r]].scope : lock[q] = r
        BY <1>2, <2>1 DEF LocksHeld, Ownership
      <3> QED
        BY <1>1, <3>1, PlanFacts, LeaveFacts
    <2>2. ASSUME NEW r \in Proc \ {p}, pc[r] \in RecoveredSteps
          PROVE  \A q \in plan'[cur[r]].scope : lock'[q] = r
      <3>1. /\ plan[cur[r]] \in Plans /\ cur[r] \in Tx /\ journal[cur[r]] # "unused"
            /\ \A q \in plan[cur[r]].scope : lock[q] = r
        BY <2>2 DEF LocksHeld, Ownership, Stages
      <3> QED
        BY <1>1, <1>4, <3>1, PlanFacts, LeaveFacts
    <2>3. ASSUME NEW r \in Proc
          PROVE  /\ pc'[r] \in LockedSteps    => \A q \in plan'[tx'[r]].scope : lock'[q] = r
                 /\ pc'[r] \in RecoveredSteps => \A q \in plan'[cur'[r]].scope : lock'[q] = r
      <3>1. CASE r = p
        BY <1>1, <3>1, LeaveTypes
      <3>2. CASE r # p
        BY <1>1, <2>1, <2>2, <3>2, LeaveTypes
      <3> QED
        BY <3>1, <3>2
    <2> QED
      BY <2>3 DEF LocksHeld
  <1>9. Stages'
    <2>1. JournalStages'
      BY <1>1, <1>2, <1>3, LeaveFacts DEF Stages
    <2>2. ProcessStages'
      BY <1>1, <1>2, <1>3, <1>5, LeaveTypes DEF Stages, Ownership
    <2> QED
      BY <2>1, <2>2 DEF Stages
  <1>10. Evidence' /\ ApprovalSingleUse'
    BY <1>1, <1>4 DEF Evidence, ApprovalSingleUse, Stages
  <1>11. RecoveryDecisionSound'
    BY <1>1, LeaveTypes DEF RecoveryDecisionSound
  <1> QED
    BY <1>6, <1>7, <1>8, <1>9, <1>10, <1>11

LEMMA WriteTargetKeeps ==
  ASSUME RecoveryInvariant, NEW p \in Proc, WriteTarget(p)
  PROVE  RecoveryInvariant'
  <1> USE DEF WriteTarget, IsFirst
  <1>1. TypeOK'
    BY PlanFacts DEF Ownership, LoopsInScope
  <1>2. Ownership' /\ LoopsInScope'
    BY PlanFacts DEF Ownership, LoopsInScope, Stages
  <1>3. LocksHeld'
    BY PlanFacts DEF LocksHeld, Ownership
  <1>4. Stages'
    BY PlanFacts DEF Stages, Ownership, LocksHeld
  <1>5. Evidence' /\ ApprovalSingleUse'
    BY PlanFacts DEF Evidence, ApprovalSingleUse, Stages, Ownership
  <1>6. RecoveryDecisionSound'
    BY PlanFacts DEF RecoveryDecisionSound, Stages, Ownership, LocksHeld, Evidence
  <1> QED
    BY <1>1, <1>2, <1>3, <1>4, <1>5, <1>6

LEMMA VerifyTargetKeeps ==
  ASSUME RecoveryInvariant, NEW p \in Proc, VerifyTarget(p)
  PROVE  RecoveryInvariant'
  <1> USE DEF VerifyTarget, IsFirst, AfterRound, StartRollback
  <1>0. plan[tx[p]] \in Plans /\ plan[tx[p]].scope \subseteq Path
    BY PlanFacts DEF Ownership
  <1>1. TypeOK'
    <2>1. left' \in [Proc -> SUBSET Path]
      BY <1>0
    <2>2. pc' \in [Proc -> Steps]
      OBVIOUS
    <2> QED
      BY <2>1, <2>2
  <1>2. Ownership' /\ LoopsInScope'
    BY PlanFacts DEF Ownership, LoopsInScope, Stages
  <1>3. LocksHeld'
    BY PlanFacts DEF LocksHeld, Ownership
  <1>4. Stages'
    BY PlanFacts DEF Stages, Ownership, LocksHeld
  <1>5. Evidence' /\ ApprovalSingleUse'
    BY PlanFacts DEF Evidence, ApprovalSingleUse, Stages, Ownership
  <1>6. RecoveryDecisionSound'
    BY PlanFacts DEF RecoveryDecisionSound, Stages, Ownership, LocksHeld, Evidence
  <1> QED
    BY <1>1, <1>2, <1>3, <1>4, <1>5, <1>6

LEMMA SetFilesWrittenKeeps ==
  ASSUME RecoveryInvariant, NEW p \in Proc, SetFilesWritten(p)
  PROVE  RecoveryInvariant'
  <1> USE DEF SetFilesWritten
  <1>1. TypeOK'
    BY PlanFacts DEF Ownership, LoopsInScope
  <1>2. Ownership' /\ LoopsInScope'
    BY PlanFacts DEF Ownership, LoopsInScope, Stages
  <1>3. LocksHeld'
    BY PlanFacts DEF LocksHeld, Ownership
  <1>4. Stages'
    BY PlanFacts DEF Stages, Ownership, LocksHeld
  <1>5. Evidence' /\ ApprovalSingleUse'
    BY PlanFacts DEF Evidence, ApprovalSingleUse, Stages, Ownership
  <1>6. RecoveryDecisionSound'
    BY PlanFacts DEF RecoveryDecisionSound, Stages, Ownership, LocksHeld, Evidence
  <1> QED
    BY <1>1, <1>2, <1>3, <1>4, <1>5, <1>6

LEMMA CommitDatabaseKeeps ==
  ASSUME RecoveryInvariant, NEW p \in Proc, CommitDatabase(p)
  PROVE  RecoveryInvariant'
  <1> USE DEF CommitDatabase, MayConsume, BindingAfter, StartRollback
  <1>0. plan[tx[p]] \in Plans /\ plan[tx[p]].scope \subseteq Path
    BY PlanFacts DEF Ownership
  <1>1. TypeOK'
    <2>1. /\ plan[tx[p]].ev \in Event /\ tx[p] \in Tx
          /\ plan[tx[p]].after \in [plan[tx[p]].scope -> Bytes]
      BY <1>0, PlanFacts DEF Ownership
    <2>2. latest' \in [Path -> Bytes]
      BY <1>0, <2>1
    <2>3. binding' \in Bytes
      BY <1>0, <2>1, PlanFacts
    <2>4. left' \in [Proc -> SUBSET Path] /\ pc' \in [Proc -> Steps]
      BY <1>0
    <2>5. consumed' \in [Event -> Tx \union {NoTx}] /\ done' \subseteq Tx
      BY <2>1
    <2> QED
      BY <2>2, <2>3, <2>4, <2>5
  <1>2. Ownership' /\ LoopsInScope'
    BY PlanFacts DEF Ownership, LoopsInScope, Stages
  <1>3. LocksHeld'
    BY PlanFacts DEF LocksHeld, Ownership
  <1>4. Stages'
    BY PlanFacts DEF Stages, Ownership, LocksHeld
  <1>5. Evidence' /\ ApprovalSingleUse'
    <2>1. CASE ~MayConsume(plan[tx[p]].ev)
      BY <2>1 DEF Evidence, ApprovalSingleUse
    <2>2. CASE MayConsume(plan[tx[p]].ev)
      <3>1. /\ tx[p] \in Tx /\ plan[tx[p]].ev \in Event
            /\ consumed' = [consumed EXCEPT ![plan[tx[p]].ev] = tx[p]]
            /\ done' = done \union {tx[p]} /\ plan' = plan /\ evt' = evt
        BY <1>0, <2>2, PlanFacts DEF Ownership
      <3>2. \A t \in done : plan[t].ev # plan[tx[p]].ev
        BY <2>2, <3>1 DEF Evidence
      <3> QED
        BY <2>2, <3>1, <3>2 DEF Evidence, ApprovalSingleUse
    <2> QED
      BY <2>1, <2>2
  <1>6. RecoveryDecisionSound'
    BY PlanFacts DEF RecoveryDecisionSound, Stages, Ownership, LocksHeld, Evidence
  <1> QED
    BY <1>1, <1>2, <1>3, <1>4, <1>5, <1>6

LEMMA FlagCommittedKeeps ==
  ASSUME RecoveryInvariant, NEW p \in Proc, FlagCommitted(p)
  PROVE  RecoveryInvariant'
  <1> USE DEF FlagCommitted
  <1>1. TypeOK'
    BY PlanFacts DEF Ownership, LoopsInScope
  <1>2. Ownership' /\ LoopsInScope'
    BY PlanFacts DEF Ownership, LoopsInScope, Stages
  <1>3. LocksHeld'
    BY PlanFacts DEF LocksHeld, Ownership
  <1>4. Stages'
    BY PlanFacts DEF Stages, Ownership, LocksHeld
  <1>5. Evidence' /\ ApprovalSingleUse'
    BY PlanFacts DEF Evidence, ApprovalSingleUse, Stages, Ownership
  <1>6. RecoveryDecisionSound'
    BY PlanFacts DEF RecoveryDecisionSound, Stages, Ownership, LocksHeld, Evidence
  <1> QED
    BY <1>1, <1>2, <1>3, <1>4, <1>5, <1>6

LEMMA MarkCommittedKeeps ==
  ASSUME RecoveryInvariant, NEW p \in Proc, MarkCommitted(p)
  PROVE  RecoveryInvariant'
  <1> USE DEF MarkCommitted
  <1>1. TypeOK'
    BY PlanFacts DEF Ownership, LoopsInScope
  <1>2. Ownership' /\ LoopsInScope'
    BY PlanFacts DEF Ownership, LoopsInScope, Stages
  <1>3. LocksHeld'
    BY PlanFacts DEF LocksHeld, Ownership
  <1>4. Stages'
    BY PlanFacts DEF Stages, Ownership, LocksHeld
  <1>5. Evidence' /\ ApprovalSingleUse'
    BY PlanFacts DEF Evidence, ApprovalSingleUse, Stages, Ownership
  <1>6. RecoveryDecisionSound'
    BY PlanFacts DEF RecoveryDecisionSound, Stages, Ownership, LocksHeld, Evidence
  <1> QED
    BY <1>1, <1>2, <1>3, <1>4, <1>5, <1>6

LEMMA RetireJournalKeeps ==
  ASSUME RecoveryInvariant, NEW p \in Proc, RetireJournal(p)
  PROVE  RecoveryInvariant'
  <1> USE DEF RetireJournal
  <1>1. TypeOK'
    BY PlanFacts DEF Ownership, LoopsInScope
  <1>2. Ownership' /\ LoopsInScope'
    BY PlanFacts DEF Ownership, LoopsInScope, Stages
  <1>3. LocksHeld'
    BY PlanFacts DEF LocksHeld, Ownership
  <1>4. Stages'
    <2>1. tx[p] \in Tx /\ plan[tx[p]] \in Plans /\ plan[tx[p]].scope # {}
      BY PlanFacts DEF Ownership
    <2>2. \A r \in Proc \ {p} : tx[r] # tx[p]
      BY <2>1 DEF Ownership
    <2>3. \A r \in Proc \ {p} : pc[r] \in RepairSteps => cur[r] # tx[p]
      BY <2>1 DEF LocksHeld
    <2>4. \A t \in Tx : journal'[t] = IF t = tx[p] THEN "retired" ELSE journal[t]
      BY <2>1
    <2>5. \A r \in Proc : pc'[r] = IF r # p THEN pc[r]
                                    ELSE IF pc[p] = "retire" THEN "delete" ELSE "purge"
      OBVIOUS
    <2>6. pc[p] = "retire" => tx[p] \in done
      BY DEF Stages
    <2>7. journal[tx[p]] \notin {"unused", "dir"}
      BY <2>1 DEF Stages
    <2> QED
      BY <2>1, <2>2, <2>3, <2>4, <2>5, <2>6, <2>7 DEF Stages, Ownership
  <1>5. Evidence' /\ ApprovalSingleUse'
    BY PlanFacts DEF Evidence, ApprovalSingleUse, Stages, Ownership
  <1>6. RecoveryDecisionSound'
    BY PlanFacts DEF RecoveryDecisionSound, Stages, Ownership, LocksHeld, Evidence
  <1> QED
    BY <1>1, <1>2, <1>3, <1>4, <1>5, <1>6

LEMMA DeleteJournalKeeps ==
  ASSUME RecoveryInvariant, NEW p \in Proc, DeleteJournal(p)
  PROVE  RecoveryInvariant'
  <1>1. /\ pc[p] \in {"delete", "purge"} /\ Leave(p)
        /\ journal' = [journal EXCEPT ![tx[p]] = "gone"]
        /\ UNCHANGED <<files, db, budget>>
    BY DEF DeleteJournal
  <1>2. /\ tx[p] \in Tx /\ plan[tx[p]] \in Plans /\ plan[tx[p]].scope # {}
        /\ \A r \in Proc \ {p} : tx[r] # tx[p]
    BY <1>1, PlanFacts DEF Ownership
  <1>3. \A t \in Tx : journal'[t] = IF t = tx[p] THEN "gone" ELSE journal[t]
    BY <1>1, <1>2
  <1>4. \A t \in Tx : journal[t] # "unused" => plan'[t] = plan[t]
    BY <1>1, LeaveFacts
  <1>5. \A r \in Proc \ {p} : pc[r] \in RepairSteps => cur[r] # tx[p]
    BY <1>1, <1>2 DEF LocksHeld, Stages
  <1>6. TypeOK'
    BY <1>1, <1>2, LeaveFacts, LeaveTypes
  <1>7. Ownership' /\ LoopsInScope'
    <2>1. ASSUME NEW r \in Proc, r # p
          PROVE  /\ pc[r] # "idle" /\ tx[r] = NoTx => op[r] # NoOp
                 /\ pc[r] \in {"parity", "plan"} => tx[r] = NoTx
                 /\ pc[r] \in LockedSteps \union {"lock"} => tx[r] # NoTx
                 /\ tx[r] # NoTx => /\ plan'[tx[r]] # NoPlan
                                    /\ \A s \in Proc \ {r} : tx'[s] # tx[r]
                                    /\ pc[r] \notin OwningSteps => journal'[tx[r]] = "unused"
                 /\ pc[r] \in RecoveredSteps \union {"rlock"} =>
                      cur[r] # NoTx /\ journal'[cur[r]] \notin {"unused", "dir"}
      BY <1>1, <1>2, <1>3, <2>1, LeaveFacts, LeaveTypes DEF Ownership
    <2>2. Ownership'
      <3>1. \A r \in Proc \ {p} : /\ pc'[r] = pc[r] /\ op'[r] = op[r]
                                 /\ tx'[r] = tx[r] /\ cur'[r] = cur[r]
        BY <1>1, LeaveTypes
      <3>2. pc'[p] = "idle" /\ tx'[p] = NoTx
        BY <1>1, LeaveTypes
      <3> QED
        BY ONLY <2>1, <3>1, <3>2, SMT DEF Ownership, LockedSteps, OwningSteps, TryingSteps,
             WonSteps, UndoSteps, RecoveredSteps, RepairSteps
    <2>3. LoopsInScope'
      BY <1>1, <1>2, <1>3, LeaveFacts, LeaveTypes DEF Ownership, LoopsInScope, Stages
    <2> QED
      BY <2>2, <2>3
  <1>8. LocksHeld'
    <2>1. ASSUME NEW r \in Proc \ {p}, pc[r] \in LockedSteps
          PROVE  \A q \in plan'[tx[r]].scope : lock'[q] = r
      <3>1. /\ plan[tx[r]] \in Plans /\ tx[r] # tx[p] /\ tx[r] \in Tx
            /\ \A q \in plan[tx[r]].scope : lock[q] = r
        BY <1>2, <2>1 DEF LocksHeld, Ownership
      <3> QED
        BY <1>1, <3>1, PlanFacts, LeaveFacts
    <2>2. ASSUME NEW r \in Proc \ {p}, pc[r] \in RecoveredSteps
          PROVE  \A q \in plan'[cur[r]].scope : lock'[q] = r
      <3>1. /\ plan[cur[r]] \in Plans /\ cur[r] \in Tx /\ journal[cur[r]] # "unused"
            /\ \A q \in plan[cur[r]].scope : lock[q] = r
        BY <2>2 DEF LocksHeld, Ownership, Stages
      <3> QED
        BY <1>1, <1>4, <3>1, PlanFacts, LeaveFacts
    <2>3. ASSUME NEW r \in Proc
          PROVE  /\ pc'[r] \in LockedSteps    => \A q \in plan'[tx'[r]].scope : lock'[q] = r
                 /\ pc'[r] \in RecoveredSteps => \A q \in plan'[cur'[r]].scope : lock'[q] = r
      <3>1. CASE r = p
        BY <1>1, <3>1, LeaveTypes
      <3>2. CASE r # p
        BY <1>1, <2>1, <2>2, <3>2, LeaveTypes
      <3> QED
        BY <3>1, <3>2
    <2> QED
      BY <2>3 DEF LocksHeld
  <1>9. Stages'
    <2>1. JournalStages'
      BY <1>1, <1>2, <1>3, LeaveFacts DEF Stages
    <2>2. ProcessStages'
      BY <1>1, <1>2, <1>3, <1>5, LeaveTypes DEF Stages, Ownership
    <2> QED
      BY <2>1, <2>2 DEF Stages
  <1>10. Evidence' /\ ApprovalSingleUse'
    BY <1>1, <1>4 DEF Evidence, ApprovalSingleUse, Stages
  <1>11. RecoveryDecisionSound'
    BY <1>1, LeaveTypes DEF RecoveryDecisionSound
  <1> QED
    BY <1>6, <1>7, <1>8, <1>9, <1>10, <1>11

LEMMA RollbackTargetKeeps ==
  ASSUME RecoveryInvariant, NEW p \in Proc, RollbackTarget(p)
  PROVE  RecoveryInvariant'
  <1> USE DEF RollbackTarget, IsLast, AfterRound
  <1>1. TypeOK'
    BY PlanFacts DEF Ownership, LoopsInScope
  <1>2. Ownership' /\ LoopsInScope'
    BY PlanFacts DEF Ownership, LoopsInScope, Stages
  <1>3. LocksHeld'
    BY PlanFacts DEF LocksHeld, Ownership
  <1>4. Stages'
    BY PlanFacts DEF Stages, Ownership, LocksHeld
  <1>5. Evidence' /\ ApprovalSingleUse'
    BY PlanFacts DEF Evidence, ApprovalSingleUse, Stages, Ownership
  <1>6. RecoveryDecisionSound'
    BY PlanFacts DEF RecoveryDecisionSound, Stages, Ownership, LocksHeld, Evidence
  <1> QED
    BY <1>1, <1>2, <1>3, <1>4, <1>5, <1>6

LEMMA WriteFailsKeeps ==
  ASSUME RecoveryInvariant, NEW p \in Proc, WriteFails(p)
  PROVE  RecoveryInvariant'
  <1> USE DEF WriteFails, StartRollback
  <1>0. plan[tx[p]] \in Plans /\ plan[tx[p]].scope \subseteq Path
    BY PlanFacts DEF Ownership
  <1>1. TypeOK'
    BY <1>0, PlanFacts, BudgetFacts DEF Faults
  <1>2. Ownership' /\ LoopsInScope'
    BY PlanFacts, BudgetFacts DEF Ownership, LoopsInScope, Stages
  <1>3. LocksHeld'
    BY PlanFacts, BudgetFacts DEF LocksHeld, Ownership
  <1>4. Stages'
    BY PlanFacts, BudgetFacts DEF Stages, Ownership, LocksHeld
  <1>5. Evidence' /\ ApprovalSingleUse'
    BY PlanFacts, BudgetFacts DEF Evidence, ApprovalSingleUse, Stages, Ownership
  <1>6. RecoveryDecisionSound'
    BY PlanFacts, BudgetFacts DEF RecoveryDecisionSound, Stages, Ownership, LocksHeld, Evidence
  <1> QED
    BY <1>1, <1>2, <1>3, <1>4, <1>5, <1>6

LEMMA InterruptBeforeFlagKeeps ==
  ASSUME RecoveryInvariant, NEW p \in Proc, InterruptBeforeFlag(p)
  PROVE  RecoveryInvariant'
  <1> USE DEF InterruptBeforeFlag, StartRollback
  <1>0. plan[tx[p]] \in Plans /\ plan[tx[p]].scope \subseteq Path
    BY PlanFacts DEF Ownership
  <1>1. TypeOK'
    BY <1>0, PlanFacts, BudgetFacts DEF Faults
  <1>2. Ownership' /\ LoopsInScope'
    BY PlanFacts, BudgetFacts DEF Ownership, LoopsInScope, Stages
  <1>3. LocksHeld'
    BY PlanFacts, BudgetFacts DEF LocksHeld, Ownership
  <1>4. Stages'
    BY PlanFacts, BudgetFacts DEF Stages, Ownership, LocksHeld
  <1>5. Evidence' /\ ApprovalSingleUse'
    BY PlanFacts, BudgetFacts DEF Evidence, ApprovalSingleUse, Stages, Ownership
  <1>6. RecoveryDecisionSound'
    BY PlanFacts, BudgetFacts DEF RecoveryDecisionSound, Stages, Ownership, LocksHeld, Evidence
  <1> QED
    BY <1>1, <1>2, <1>3, <1>4, <1>5, <1>6

LEMMA CallFailsKeeps ==
  ASSUME RecoveryInvariant, NEW p \in Proc, CallFails(p)
  PROVE  RecoveryInvariant'
  BY LeavingKeeps, BudgetFacts DEF CallFails, Faults

LEMMA CrashKeeps ==
  ASSUME RecoveryInvariant, NEW p \in Proc, Crash(p)
  PROVE  RecoveryInvariant'
  BY LeavingKeeps, BudgetFacts DEF Crash, Faults

LEMMA ExternalEditKeeps ==
  ASSUME RecoveryInvariant, NEW q \in Path, NEW b \in Bytes, ExternalEdit(q, b)
  PROVE  RecoveryInvariant'
  <1> USE DEF ExternalEdit
  <1>1. TypeOK'
    BY BudgetFacts DEF Faults
  <1>2. Ownership' /\ LoopsInScope' /\ LocksHeld'
    BY DEF Ownership, LoopsInScope, LocksHeld
  <1>3. Stages' /\ Evidence'
    BY DEF Stages, Evidence
  <1>4. ApprovalSingleUse' /\ RecoveryDecisionSound'
    BY DEF ApprovalSingleUse, RecoveryDecisionSound
  <1> QED
    BY <1>1, <1>2, <1>3, <1>4

\* An event that goes takes its row along: the history then has no evidence left,
\* and none that could mislead.
LEMMA PruningKeeps ==
  ASSUME RecoveryInvariant, NEW e \in Event, Supersede(e) \/ Prune(e)
  PROVE  RecoveryInvariant'
  <1> USE DEF Supersede, Prune
  <1>1. TypeOK'
    OBVIOUS
  <1>2. Ownership' /\ LoopsInScope' /\ LocksHeld'
    BY DEF Ownership, LoopsInScope, LocksHeld
  <1>3. Stages'
    BY DEF Stages
  <1>4. Evidence'
    <2>1. CASE Supersede(e)
      BY <2>1 DEF Evidence
    <2>2. CASE Prune(e)
      <3>1. \A f \in Event : /\ evt'[f] = IF f = e THEN "gone" ELSE evt[f]
                            /\ consumed'[f] = IF f = e THEN NoTx ELSE consumed[f]
        BY <2>2
      <3>2. \A t \in done' : consumed'[plan'[t].ev] = t \/ evt'[plan'[t].ev] = "gone"
        <4> SUFFICES ASSUME NEW t \in done
                     PROVE  consumed'[plan[t].ev] = t \/ evt'[plan[t].ev] = "gone"
          BY <2>2
        <4>1. t \in Tx /\ plan[t] \in Plans
          BY DEF Stages
        <4> QED
          BY <3>1, <4>1, PlanFacts DEF Evidence
      <3>3. \A f \in Event : consumed'[f] # NoTx =>
              consumed'[f] \in done' /\ plan'[consumed'[f]].ev = f
        BY <2>2, <3>1 DEF Evidence
      <3> QED
        BY <3>2, <3>3 DEF Evidence
    <2> QED
      BY <2>1, <2>2
  <1>5. ApprovalSingleUse' /\ RecoveryDecisionSound'
    BY DEF ApprovalSingleUse, RecoveryDecisionSound
  <1> QED
    BY <1>1, <1>2, <1>3, <1>4, <1>5

LEMMA StutteringKeeps == RecoveryInvariant /\ UNCHANGED vars => RecoveryInvariant'
  <1> SUFFICES ASSUME RecoveryInvariant, UNCHANGED vars
               PROVE  RecoveryInvariant'
    OBVIOUS
  <1> USE DEF vars
  <1>1. TypeOK'
    OBVIOUS
  <1>2. Ownership' /\ LoopsInScope' /\ LocksHeld'
    BY DEF Ownership, LoopsInScope, LocksHeld
  <1>3. Stages' /\ Evidence'
    BY DEF Stages, Evidence
  <1>4. ApprovalSingleUse' /\ RecoveryDecisionSound'
    BY DEF ApprovalSingleUse, RecoveryDecisionSound
  <1> QED
    BY <1>1, <1>2, <1>3, <1>4

LEMMA RecoverKeeps ==
  ASSUME RecoveryInvariant, NEW p \in Proc, Recover(p)
  PROVE  RecoveryInvariant'
  BY ListJournalsKeeps, SweepRetiredKeeps, OpenJournalKeeps, FinishRecoveryKeeps,
     LockJournalPathsKeeps, DecideRecoveryKeeps, CheckDriftKeeps, RestoreTargetKeeps,
     RetireRecoveredKeeps, DeleteRecoveredKeeps, Zenon
     DEF Recover

LEMMA ApplyKeeps ==
  ASSUME RecoveryInvariant, NEW p \in Proc, Apply(p)
  PROVE  RecoveryInvariant'
  BY LockTargetsKeeps, AssertUnchangedKeeps, MakeJournalKeeps, WriteManifestKeeps,
     WriteTargetKeeps, VerifyTargetKeeps, SetFilesWrittenKeeps, CommitDatabaseKeeps,
     FlagCommittedKeeps, MarkCommittedKeeps, RetireJournalKeeps, DeleteJournalKeeps,
     RollbackTargetKeeps, Zenon
     DEF Apply

LEMMA FaultKeeps ==
  ASSUME RecoveryInvariant, NEW p \in Proc, Fault(p)
  PROVE  RecoveryInvariant'
  BY JournalFailsKeeps, WriteFailsKeeps, InterruptBeforeFlagKeeps, CallFailsKeeps,
     CrashKeeps, Zenon
     DEF Fault

LEMMA Inductive == RecoveryInvariant /\ [Next]_vars => RecoveryInvariant'
  <1> SUFFICES ASSUME RecoveryInvariant, [Next]_vars
               PROVE  RecoveryInvariant'
    OBVIOUS
  <1>1. ASSUME NEW p \in Proc, Begin(p) PROVE RecoveryInvariant'
    BY <1>1, BeginKeeps, Zenon
  <1>2. ASSUME NEW p \in Proc, Continue(p) PROVE RecoveryInvariant'
    BY <1>2, AssertParityKeeps, PlanRevisionKeeps, RecoverKeeps, ApplyKeeps,
       LockTimeoutKeeps, Zenon DEF Continue
  <1>3. ASSUME NEW p \in Proc, Fault(p) PROVE RecoveryInvariant'
    BY <1>3, FaultKeeps, Zenon
  <1>4. CASE Environment
    BY <1>4, ExternalEditKeeps, PruningKeeps, Zenon DEF Environment
  <1>5. CASE UNCHANGED vars
    BY <1>5, StutteringKeeps
  <1> QED
    BY <1>1, <1>2, <1>3, <1>4, <1>5, Zenon DEF Next

\* Every variable of the file transaction stays within its type, for any number
\* of processes, files, approvals and faults.
THEOREM TypeCorrect == Spec => []TypeOK
  <1>1. Init => RecoveryInvariant
    BY Initially
  <1>2. RecoveryInvariant /\ [Next]_vars => RecoveryInvariant'
    BY Inductive
  <1>3. RecoveryInvariant => TypeOK
    OBVIOUS
  <1> QED
    BY <1>1, <1>2, <1>3, PTL DEF Spec

\* The invariant that all_faults checks holds of every behaviour.
THEOREM InvariantHolds == Spec => []RecoveryInvariant
  BY Initially, Inductive, PTL DEF Spec

\* recover() rewrites files forward exactly for transactions whose database commit
\* happened, whatever crashed, failed, was edited or was pruned before.
THEOREM RecoverySound == Spec => []RecoveryDecisionSound
  <1>1. RecoveryInvariant => RecoveryDecisionSound
    OBVIOUS
  <1> QED
    BY <1>1, Initially, Inductive, PTL DEF Spec

\* An approval authorises one transaction ever, although _prune deletes its
\* consumption row (consume, _prune).
THEOREM SingleUse == Spec => []ApprovalSingleUse
  <1>1. RecoveryInvariant => ApprovalSingleUse
    OBVIOUS
  <1> QED
    BY <1>1, Initially, Inductive, PTL DEF Spec

-----------------------------------------------------------------------------
(* The order of the locks.                                                 *)

USE DEF Wanted

\* A call that ends gives its locks back; the others keep theirs, and the plans
\* they were taken for.
LEMMA LeavingKeepsOrder ==
  ASSUME RecoveryInvariant, LockOrder, NEW p \in Proc, Leave(p),
         \A t \in Tx : journal[t] \notin {"unused", "dir"} => journal'[t] # "unused"
  PROVE  LockOrder'
  <1>1. ASSUME NEW r \in Proc, NEW q \in Path, lock'[q] = r
        PROVE  r # p /\ lock[q] = r
    BY <1>1 DEF Leave, Released
  <1>2. ASSUME NEW r \in Proc, r # p, pc[r] = "lock"
        PROVE  plan'[tx[r]] = plan[tx[r]] /\ plan[tx[r]].scope \subseteq Path
    BY <1>2, LeaveFacts, PlanFacts DEF Ownership
  <1>3. ASSUME NEW r \in Proc, r # p, pc[r] = "rlock"
        PROVE  plan'[cur[r]] = plan[cur[r]] /\ plan[cur[r]].scope \subseteq Path
    BY <1>3, LeaveFacts, PlanFacts DEF Ownership, Stages
  <1>4. ASSUME NEW r \in Proc, NEW q \in Path, lock'[q] = r
        PROVE  /\ pc'[r] \in LockedSteps \union RecoveredSteps \union {"rlock", "lock"}
               /\ pc'[r] \in {"rlock", "lock"} =>
                    /\ q \in Wanted(r)'
                    /\ \A s \in Wanted(r)' : s < q => lock'[s] = r
    <2>1. r # p /\ lock[q] = r
      BY <1>1, <1>4
    <2>2. pc'[r] = pc[r] /\ tx'[r] = tx[r] /\ cur'[r] = cur[r]
      BY <2>1, LeaveTypes
    <2>3. CASE pc[r] = "lock"
      BY <2>1, <2>2, <2>3, <1>2, LeaveFacts DEF LockOrder
    <2>4. CASE pc[r] = "rlock"
      BY <2>1, <2>2, <2>4, <1>3, LeaveFacts DEF LockOrder
    <2>5. CASE pc[r] \notin {"rlock", "lock"}
      BY <2>1, <2>2, <2>5 DEF LockOrder
    <2> QED
      BY <2>3, <2>4, <2>5
  <1> QED
    BY <1>4 DEF LockOrder

\* A step that takes and gives no lock, and starts no collection of locks, leaves
\* the order as it is.
LEMMA ElsewhereKeepsOrder ==
  ASSUME RecoveryInvariant, LockOrder, lock' = lock, tx' = tx,
         \A t \in Tx : plan[t] # NoPlan => plan'[t] = plan[t],
         \A r \in Proc : \/ pc'[r] = pc[r] /\ cur'[r] = cur[r]
                         \/ /\ \A q \in Path : lock[q] # r
                         \/ /\ pc'[r] \in LockedSteps \union RecoveredSteps
  PROVE  LockOrder'
  <1> SUFFICES ASSUME NEW r \in Proc, NEW q \in Path, lock[q] = r
      PROVE  /\ pc'[r] \in LockedSteps \union RecoveredSteps \union {"rlock", "lock"}
             /\ pc'[r] \in {"rlock", "lock"} =>
                  /\ q \in Wanted(r)'
                  /\ \A s \in Wanted(r)' : s < q => lock[s] = r
    BY DEF LockOrder
  <1>1. CASE pc'[r] \in LockedSteps \union RecoveredSteps
    BY <1>1
  <1>2. CASE pc'[r] = pc[r] /\ cur'[r] = cur[r] /\ pc[r] = "lock"
    <2>1. plan'[tx[r]] = plan[tx[r]]
      BY <1>2 DEF Ownership
    <2> QED
      BY <1>2, <2>1 DEF LockOrder
  <1>3. CASE pc'[r] = pc[r] /\ cur'[r] = cur[r] /\ pc[r] = "rlock"
    <2>1. plan'[cur[r]] = plan[cur[r]]
      BY <1>3 DEF Ownership, Stages
    <2> QED
      BY <1>3, <2>1 DEF LockOrder
  <1>4. CASE pc'[r] = pc[r] /\ pc[r] \notin {"rlock", "lock"}
    BY <1>4 DEF LockOrder
  <1> QED
    BY <1>1, <1>2, <1>3, <1>4

\* lock_paths takes the lowest lock that is missing.
LEMMA LockNextKeepsOrder ==
  ASSUME RecoveryInvariant, LockOrder, NEW p \in Proc,
         NEW l \in LockedSteps \union RecoveredSteps,
         \/ pc[p] = "rlock" /\ LockNext(p, plan[cur[p]].scope, l)
         \/ pc[p] = "lock" /\ LockNext(p, plan[tx[p]].scope, l),
         UNCHANGED <<plan, tx, cur>>
  PROVE  LockOrder'
  <1>0. /\ LockNext(p, Wanted(p), l) /\ Wanted(p)' = IF pc'[p] = l THEN {} ELSE Wanted(p)
        /\ Wanted(p) \subseteq Path
    <2>1. plan' = plan /\ tx' = tx /\ cur' = cur
      OBVIOUS
    <2>2. CASE pc[p] = "rlock"
      <3>1. LockNext(p, plan[cur[p]].scope, l)
        BY <2>2
      <3>2. plan[cur[p]].scope \subseteq Path
        BY <2>2, PlanFacts DEF Ownership, Stages
      <3>3. pc'[p] \in {l, pc[p]}
        BY <3>1 DEF LockNext
      <3>4. l # "rlock" /\ l # "lock"
        OBVIOUS
      <3> QED
        BY <2>1, <2>2, <3>1, <3>2, <3>3, <3>4
    <2>3. CASE pc[p] = "lock"
      <3>1. LockNext(p, plan[tx[p]].scope, l)
        BY <2>3
      <3>2. plan[tx[p]].scope \subseteq Path
        BY <2>3, PlanFacts DEF Ownership
      <3>3. pc'[p] \in {l, pc[p]}
        BY <3>1 DEF LockNext
      <3>4. l # "rlock" /\ l # "lock"
        OBVIOUS
      <3> QED
        BY <2>1, <2>3, <3>1, <3>2, <3>3, <3>4
    <2> QED
      BY <2>2, <2>3
  <1>1. PICK n \in Path : /\ IsFirst(n, Unlocked(p, Wanted(p)))
                          /\ Free(n)
                          /\ lock' = [lock EXCEPT ![n] = p]
                          /\ pc' = [pc EXCEPT ![p] =
                               IF Unlocked(p, Wanted(p)) = {n} THEN l ELSE pc[p]]
    BY <1>0 DEF LockNext
  <1>2. ASSUME NEW r \in Proc, NEW q \in Path, lock'[q] = r
        PROVE  /\ pc'[r] \in LockedSteps \union RecoveredSteps \union {"rlock", "lock"}
               /\ pc'[r] \in {"rlock", "lock"} =>
                    /\ q \in Wanted(r)'
                    /\ \A s \in Wanted(r)' : s < q => lock'[s] = r
    <2>1. CASE r # p
      <3>1. lock[q] = r /\ pc'[r] = pc[r] /\ Wanted(r)' = Wanted(r)
        BY <1>1, <1>2, <2>1
      <3>2. \A s \in Path : lock[s] = r => lock'[s] = r
        BY <1>1, <2>1 DEF Free
      <3>3. pc[r] \in {"rlock", "lock"} => Wanted(r) \subseteq Path
        BY PlanFacts DEF Ownership, Stages
      <3> QED
        BY <3>1, <3>2, <3>3 DEF LockOrder
    <2>2. CASE r = p /\ pc'[p] = l
      BY <2>2
    <2>3. CASE r = p /\ pc'[p] # l
      <3>1. pc'[p] = pc[p] /\ Wanted(p)' = Wanted(p)
        BY <1>0, <1>1, <2>3
      <3>2. q \in Wanted(p) /\ \A s \in Wanted(p) : s < q => lock'[s] = p
        <4>1. CASE q = n
          BY <1>0, <1>1, <4>1, PathAssumption DEF IsFirst, Unlocked
        <4>2. CASE q # n
          BY <1>0, <1>1, <1>2, <2>3, <4>2 DEF LockOrder
        <4> QED
          BY <4>1, <4>2
      <3> QED
        BY <2>3, <3>1, <3>2
    <2> QED
      BY <2>1, <2>2, <2>3
  <1> QED
    BY <1>2 DEF LockOrder

\* The locks a call gives back between two journals are all it holds.
LEMMA NextJournalKeepsOrder ==
  ASSUME RecoveryInvariant, LockOrder, NEW p \in Proc, NextJournal(p),
         UNCHANGED <<plan, tx>>
  PROVE  LockOrder'
  <1> SUFFICES ASSUME NEW r \in Proc, NEW q \in Path, lock'[q] = r
      PROVE  /\ pc'[r] \in LockedSteps \union RecoveredSteps \union {"rlock", "lock"}
             /\ pc'[r] \in {"rlock", "lock"} =>
                  /\ q \in Wanted(r)'
                  /\ \A s \in Wanted(r)' : s < q => lock'[s] = r
    BY DEF LockOrder
  <1>1. r # p /\ lock[q] = r
    BY DEF NextJournal, Released
  <1>2. pc'[r] = pc[r] /\ Wanted(r)' = Wanted(r)
    BY <1>1 DEF NextJournal
  <1>3. \A s \in Path : lock[s] = r => lock'[s] = r
    BY <1>1 DEF NextJournal, Released
  <1>4. pc[r] \in {"rlock", "lock"} => Wanted(r) \subseteq Path
    BY PlanFacts DEF Ownership, Stages
  <1> QED
    BY <1>1, <1>2, <1>3, <1>4 DEF LockOrder

LEMMA RecoverKeepsOrder ==
  ASSUME RecoveryInvariant, LockOrder, NEW p \in Proc, Recover(p)
  PROVE  LockOrder'
  <1> USE LeavingKeepsOrder, ElsewhereKeepsOrder, LockNextKeepsOrder, NextJournalKeepsOrder
  <1>1. CASE ListJournals(p)
    BY <1>1 DEF ListJournals, LockOrder
  <1>2. CASE SweepRetired(p)
    BY <1>2 DEF SweepRetired
  <1>3. CASE OpenJournal(p)
    BY <1>3 DEF OpenJournal, LockOrder
  <1>4. CASE FinishRecovery(p)
    BY <1>4 DEF FinishRecovery, LockOrder
  <1>5. CASE LockJournalPaths(p)
    BY <1>5 DEF LockJournalPaths
  <1>6. CASE DecideRecovery(p)
    BY <1>6 DEF DecideRecovery
  <1>7. CASE CheckDrift(p)
    BY <1>7 DEF CheckDrift
  <1>8. CASE RestoreTarget(p)
    BY <1>8 DEF RestoreTarget, AfterRound
  <1>9. CASE RetireRecovered(p)
    BY <1>9 DEF RetireRecovered
  <1>10. CASE DeleteRecovered(p)
    BY <1>10 DEF DeleteRecovered
  <1> QED
    BY <1>1, <1>2, <1>3, <1>4, <1>5, <1>6, <1>7, <1>8, <1>9, <1>10 DEF Recover

LEMMA ApplyKeepsOrder ==
  ASSUME RecoveryInvariant, LockOrder, NEW p \in Proc, Apply(p)
  PROVE  LockOrder'
  <1> USE LeavingKeepsOrder, ElsewhereKeepsOrder, LockNextKeepsOrder
  <1>1. CASE LockTargets(p)
    BY <1>1 DEF LockTargets
  <1>2. CASE AssertUnchanged(p)
    BY <1>2 DEF AssertUnchanged
  <1>3. CASE MakeJournal(p)
    BY <1>3 DEF MakeJournal
  <1>4. CASE WriteManifest(p)
    BY <1>4 DEF WriteManifest
  <1>5. CASE WriteTarget(p)
    BY <1>5 DEF WriteTarget
  <1>6. CASE VerifyTarget(p)
    BY <1>6 DEF VerifyTarget, AfterRound, StartRollback
  <1>7. CASE SetFilesWritten(p)
    BY <1>7 DEF SetFilesWritten
  <1>8. CASE CommitDatabase(p)
    BY <1>8 DEF CommitDatabase, StartRollback
  <1>9. CASE FlagCommitted(p)
    BY <1>9 DEF FlagCommitted
  <1>10. CASE MarkCommitted(p)
    BY <1>10 DEF MarkCommitted
  <1>11. CASE RetireJournal(p)
    BY <1>11 DEF RetireJournal
  <1>12. CASE DeleteJournal(p)
    BY <1>12 DEF DeleteJournal
  <1>13. CASE RollbackTarget(p)
    BY <1>13 DEF RollbackTarget, AfterRound
  <1> QED
    BY <1>1, <1>2, <1>3, <1>4, <1>5, <1>6, <1>7, <1>8, <1>9, <1>10, <1>11, <1>12, <1>13 DEF Apply

LEMMA FaultKeepsOrder ==
  ASSUME RecoveryInvariant, LockOrder, NEW p \in Proc, Fault(p)
  PROVE  LockOrder'
  <1> USE LeavingKeepsOrder, ElsewhereKeepsOrder
  <1>1. CASE JournalFails(p)
    BY <1>1 DEF JournalFails
  <1>2. CASE WriteFails(p)
    BY <1>2 DEF WriteFails, StartRollback
  <1>3. CASE InterruptBeforeFlag(p)
    BY <1>3 DEF InterruptBeforeFlag, StartRollback
  <1>4. CASE CallFails(p)
    BY <1>4 DEF CallFails
  <1>5. CASE Crash(p)
    BY <1>5 DEF Crash
  <1> QED
    BY <1>1, <1>2, <1>3, <1>4, <1>5 DEF Fault

LEMMA InductiveOrder ==
  RecoveryInvariant /\ LockOrder /\ [Next]_vars => LockOrder'
  <1> SUFFICES ASSUME RecoveryInvariant, LockOrder, [Next]_vars
               PROVE  LockOrder'
    OBVIOUS
  <1>1. ASSUME NEW p \in Proc, Begin(p) PROVE LockOrder'
    BY <1>1, ElsewhereKeepsOrder DEF Begin, LockOrder
  <1>2. ASSUME NEW p \in Proc, AssertParity(p) PROVE LockOrder'
    BY <1>2, ElsewhereKeepsOrder, LeavingKeepsOrder DEF AssertParity, LockOrder
  <1>3. ASSUME NEW p \in Proc, PlanRevision(p) PROVE LockOrder'
    <2>1. CASE Leave(p)
      BY <1>3, <2>1, LeavingKeepsOrder DEF PlanRevision
    <2>2. CASE ~Leave(p)
      <3>1. /\ pc[p] = "plan" /\ pc' = [pc EXCEPT ![p] = "list"]
            /\ UNCHANGED <<lock, cur>>
            /\ \A r \in Proc \ {p} : tx'[r] = tx[r]
            /\ \A t \in Tx : plan[t] # NoPlan => plan'[t] = plan[t]
        BY <1>3, <2>2 DEF PlanRevision
      <3>2. \A r \in Proc : pc[r] \in {"rlock", "lock"} => Wanted(r)' = Wanted(r)
        BY <3>1 DEF Ownership, Stages
      <3> QED
        BY <3>1, <3>2 DEF LockOrder
    <2> QED
      BY <2>1, <2>2
  <1>4. ASSUME NEW p \in Proc, LockTimeout(p) PROVE LockOrder'
    BY <1>4, LeavingKeepsOrder DEF LockTimeout
  <1>5. ASSUME NEW p \in Proc, Continue(p) PROVE LockOrder'
    BY <1>2, <1>3, <1>4, <1>5, RecoverKeepsOrder, ApplyKeepsOrder, Zenon DEF Continue
  <1>6. ASSUME NEW p \in Proc, Fault(p) PROVE LockOrder'
    BY <1>6, FaultKeepsOrder, Zenon
  <1>7. CASE Environment
    BY <1>7, ElsewhereKeepsOrder DEF Environment, ExternalEdit, Supersede, Prune
  <1>8. CASE UNCHANGED vars
    BY <1>8, ElsewhereKeepsOrder DEF vars
  <1> QED
    BY <1>1, <1>5, <1>6, <1>7, <1>8, Zenon DEF Next

\* Each of two calls that wait for each other would miss a lower file than the
\* one it holds.
LEMMA OrderExcludesCycles == RecoveryInvariant /\ LockOrder => NoWaitCycle
  <1> SUFFICES ASSUME RecoveryInvariant, LockOrder,
                      NEW p \in Proc, NEW r \in Proc, p # r,
                      Blocked(p, r), Blocked(r, p)
               PROVE  FALSE
    BY DEF NoWaitCycle
  <1>1. PICK m \in Path : IsFirst(m, Unlocked(p, Wanted(p))) /\ lock[m] = r
    BY DEF Blocked
  <1>2. PICK n \in Path : IsFirst(n, Unlocked(r, Wanted(r))) /\ lock[n] = p
    BY DEF Blocked
  <1>3. n \in Wanted(r) /\ lock[n] # r /\ m \in Wanted(p) /\ lock[m] # p
    BY <1>1, <1>2 DEF IsFirst, Unlocked
  <1>4. pc[p] \in {"rlock", "lock"} /\ pc[r] \in {"rlock", "lock"}
    BY <1>3
  <1>5. ~(n < m)
    BY <1>1, <1>3, <1>4 DEF LockOrder
  <1>6. ~(m < n)
    BY <1>2, <1>3, <1>4 DEF LockOrder
  <1> QED
    BY <1>1, <1>2, <1>5, <1>6, PathAssumption

\* lock_paths sorts the files, so two calls never wait for each other and no call
\* needs its time-out to get on.
THEOREM NoDeadlock == Spec => []NoWaitCycle
  <1>1. Init => LockOrder
    BY DEF Init, LockOrder
  <1> QED
    BY <1>1, Initially, Inductive, InductiveOrder, OrderExcludesCycles, PTL DEF Spec

-----------------------------------------------------------------------------
(* Revisions.  No lemma below looks at the order of the locks.             *)

HIDE DEF Wanted
USE DEF RevisionInvariant

-----------------------------------------------------------------------------
(* What a step of one process leaves of the others.                        *)

\* The locals of r have not moved.
Still(r) == /\ pc'[r] = pc[r] /\ tx'[r] = tx[r] /\ cur'[r] = cur[r]
            /\ left'[r] = left[r] /\ redo'[r] = redo[r]

\* What a process acts on: its own transaction, or the journal it recovers.
LEMMA ActsOn ==
  ASSUME RecoveryInvariant, NEW r \in Proc
  PROVE  /\ pc[r] \in LockedSteps =>
              /\ tx[r] \in Tx /\ plan[tx[r]] \in Plans
              /\ plan[tx[r]].scope \subseteq Path /\ plan[tx[r]].scope # {}
              /\ \A q \in plan[tx[r]].scope : lock[q] = r
         /\ pc[r] \in RecoveredSteps =>
              /\ cur[r] \in Tx /\ plan[cur[r]] \in Plans
              /\ plan[cur[r]].scope \subseteq Path /\ plan[cur[r]].scope # {}
              /\ journal[cur[r]] \notin {"unused", "dir"}
              /\ \A q \in plan[cur[r]].scope : lock[q] = r
  <1>1. pc[r] \in LockedSteps =>
          /\ tx[r] \in Tx /\ plan[tx[r]] \in Plans
          /\ \A q \in plan[tx[r]].scope : lock[q] = r
    BY DEF Ownership, LocksHeld
  <1>2. pc[r] \in RecoveredSteps =>
          /\ cur[r] \in Tx /\ plan[cur[r]] \in Plans
          /\ journal[cur[r]] \notin {"unused", "dir"}
          /\ \A q \in plan[cur[r]].scope : lock[q] = r
    BY DEF Ownership, LocksHeld, Stages
  <1> QED
    BY <1>1, <1>2, PlanFacts

LEMMA OtherProgress ==
  ASSUME RecoveryInvariant, NEW r \in Proc, Progress(r), Still(r),
         \A q \in Path : lock[q] = r => files'[q] = files[q],
         pc[r] \in LockedSteps => /\ plan'[tx[r]] = plan[tx[r]]
                                  /\ Live(tx[r])' <=> Live(tx[r])
                                  /\ tx[r] \in done' <=> tx[r] \in done,
         pc[r] \in RecoveredSteps => /\ plan'[cur[r]] = plan[cur[r]]
                                     /\ ~Live(cur[r]) => ~Live(cur[r])'
  PROVE  Progress(r)'
  <1>1. JournalKept(r)'
    BY DEF Still, Progress, JournalKept
  <1>2. ApplyProgress(r)'
    <2>1. CASE pc[r] \in LockedSteps
      <3> DEFINE t == tx[r]  S == plan[tx[r]].scope
      <3>1. \A q \in S : files'[q] = files[q]
        BY <2>1, ActsOn
      <3>2. plan'[t] = plan[t]
        BY <2>1
      <3> QED
        BY <2>1, <3>1, <3>2 DEF Still, Progress, ApplyProgress
    <2>2. CASE pc[r] \notin LockedSteps
      BY <2>2 DEF Still, ApplyProgress
    <2> QED
      BY <2>1, <2>2
  <1>3. RecoverProgress(r)'
    <2>1. CASE pc[r] \in RecoveredSteps
      <3>1. \A q \in plan[cur[r]].scope : files'[q] = files[q]
        BY <2>1, ActsOn
      <3>2. \A q \in plan[cur[r]].scope : Snapshot(r, q)' = Snapshot(r, q)
        BY <2>1 DEF Still, Snapshot
      <3> QED
        BY <2>1, <3>1, <3>2 DEF Still, Progress, RecoverProgress
    <2>2. CASE pc[r] \notin RecoveredSteps
      BY <2>2 DEF Still, RecoverProgress
    <2> QED
      BY <2>1, <2>2
  <1> QED
    BY <1>1, <1>2, <1>3 DEF Progress

\* Plans that stay, or are forgotten, are still requests.
LEMMA RequestsKept ==
  ASSUME PlansAreRequests, \A t \in Tx : plan'[t] \in {plan[t], NoPlan}
  PROVE  PlansAreRequests'
  BY DEF PlansAreRequests

\* A step that changes no text, no commit and no journal's being waited for.
LEMMA QuietKeeps ==
  ASSUME RevisionInvariant, RecoveryInvariant', Undisturbed', PlansAreRequests',
         NEW p \in Proc, UNCHANGED <<files, latest, done>>,
         \A t \in Tx : Live(t)' <=> Live(t),
         \A t \in Tx : plan[t] # NoPlan /\ ~(t = tx[p] /\ journal[t] = "unused")
                         => plan'[t] = plan[t],
         \A r \in Proc \ {p} : Still(r),
         Progress(p)'
  PROVE  RevisionInvariant'
  <1>1. \A t \in Tx : Live(t) => plan'[t] = plan[t]
    BY DEF Stages
  <1>2. LiveDisjoint'
    BY <1>1 DEF LiveDisjoint
  <1>3. \A q \in Path : Covering(q)' = Covering(q)
    BY <1>1 DEF Covering
  <1>4. \A t \in Tx : Live(t) => \A q \in plan[t].scope : InForce(t, q)' = InForce(t, q)
    BY <1>1 DEF InForce
  <1>5. TextKept'
    BY <1>1, <1>3, <1>4 DEF TextKept
  <1>6. ASSUME NEW r \in Proc \ {p} PROVE Progress(r)'
    <2>1. pc[r] \in LockedSteps => plan'[tx[r]] = plan[tx[r]]
      BY ActsOn DEF Ownership
    <2>2. pc[r] \in RecoveredSteps => plan'[cur[r]] = plan[cur[r]]
      BY ActsOn, PlanFacts
    <2>3. /\ pc[r] \in LockedSteps => tx'[r] = tx[r] /\ (Live(tx[r])' <=> Live(tx[r]))
          /\ pc[r] \in RecoveredSteps => cur'[r] = cur[r] /\ (~Live(cur[r]) => ~Live(cur[r])')
      BY <1>6, ActsOn DEF Still
    <2> QED
      BY <1>6, <2>1, <2>2, <2>3, OtherProgress
  <1> QED
    BY <1>2, <1>5, <1>6

\* Leaving is quiet.
LEMMA LeavingRevises ==
  ASSUME RevisionInvariant, RecoveryInvariant', Undisturbed', NEW p \in Proc, Leave(p),
         UNCHANGED <<files, latest, done>>,
         \A t \in Tx : Live(t)' <=> Live(t)
  PROVE  RevisionInvariant'
  <1>1. PlansAreRequests'
    BY RequestsKept DEF Leave
  <1>2. \A t \in Tx : plan[t] # NoPlan /\ ~(t = tx[p] /\ journal[t] = "unused")
                         => plan'[t] = plan[t]
    BY LeaveFacts
  <1>3. \A r \in Proc \ {p} : Still(r)
    BY LeaveTypes DEF Still
  <1>4. Progress(p)'
    BY LeaveTypes DEF Progress, JournalKept, ApplyProgress, RecoverProgress
  <1> QED
    BY <1>1, <1>2, <1>3, <1>4, QuietKeeps

\* A process writes files of a journal it has the locks for.
LEMMA WritingKeeps ==
  ASSUME RevisionInvariant, RecoveryInvariant', NEW p \in Proc, NEW t \in Tx, Live(t),
         \A q \in plan[t].scope : lock[q] = p,
         \A q \in Path \ plan[t].scope : files'[q] = files[q],
         UNCHANGED <<journal, plan, latest, done, budget>>,
         \A r \in Proc \ {p} : Still(r),
         Progress(p)'
  PROVE  RevisionInvariant'
  <1>1. Undisturbed' /\ PlansAreRequests' /\ LiveDisjoint'
    BY DEF Undisturbed, PlansAreRequests, LiveDisjoint
  <1>2. \A q \in Path : Covering(q)' = Covering(q)
    BY DEF Covering
  <1>3. \A u \in Tx, q \in Path : InForce(u, q)' = InForce(u, q)
    BY DEF InForce
  <1>4. TextKept'
    <2>1. \A q \in Path : Covering(q) = {} => q \notin plan[t].scope
      BY DEF Covering
    <2>2. \A u \in Tx : Live(u) => plan[u].scope \subseteq Path
      BY PlanFacts DEF Stages
    <2>3. ASSUME NEW q \in Path, Covering(q)' = {} PROVE files'[q] = latest'[q]
      BY <1>2, <2>1, <2>3 DEF TextKept
    <2>4. ASSUME NEW u \in Tx, Live(u)', NEW q \in plan[u].scope
          PROVE  latest'[q] = InForce(u, q)'
      <3>1. Live(u) /\ q \in Path
        BY <2>2, <2>4
      <3> QED
        BY <1>3, <2>4, <3>1 DEF TextKept
    <2> QED
      BY <2>3, <2>4 DEF TextKept
  <1>5. ASSUME NEW r \in Proc \ {p} PROVE Progress(r)'
    <2>1. \A q \in Path : lock[q] = r => files'[q] = files[q]
      BY <1>5
    <2>2. /\ Live(tx[r])' <=> Live(tx[r])
          /\ tx[r] \in done' <=> tx[r] \in done
          /\ Live(cur[r])' <=> Live(cur[r])
      BY <1>5 DEF Still
    <2>3. plan'[tx[r]] = plan[tx[r]] /\ plan'[cur[r]] = plan[cur[r]]
      OBVIOUS
    <2> QED
      BY <1>5, <2>1, <2>2, <2>3, OtherProgress
  <1> QED
    BY <1>1, <1>4, <1>5

\* A journal is settled when every file of it has the text that is in force.
LEMMA SettlingKeeps ==
  ASSUME RevisionInvariant, RecoveryInvariant', NEW p \in Proc, NEW t \in Tx, Live(t),
         \A q \in plan[t].scope : lock[q] = p /\ files[q] = InForce(t, q),
         \A u \in Tx : Live(u)' <=> Live(u) /\ u # t,
         UNCHANGED <<files, plan, latest, done, budget>>,
         \A r \in Proc \ {p} : Still(r),
         Progress(p)'
  PROVE  RevisionInvariant'
  <1>1. Undisturbed' /\ PlansAreRequests' /\ LiveDisjoint'
    <2>1. Undisturbed' /\ PlansAreRequests'
      BY DEF Undisturbed, PlansAreRequests
    <2>2. LiveDisjoint'
      BY DEF LiveDisjoint
    <2> QED
      BY <2>1, <2>2
  <1>2. plan[t] \in Plans /\ plan[t].scope # {}
    BY PlanFacts DEF Stages
  <1>3. \A q \in Path \ plan[t].scope : Covering(q)' = Covering(q)
    BY DEF Covering
  <1>4. \A u \in Tx, q \in Path : InForce(u, q)' = InForce(u, q)
    BY DEF InForce
  <1>5. TextKept'
    <2>1. \A q \in plan[t].scope : files[q] = latest[q]
      BY DEF TextKept
    <2>2. \A u \in Tx : Live(u) => plan[u].scope \subseteq Path
      BY PlanFacts DEF Stages
    <2>3. ASSUME NEW q \in Path, Covering(q)' = {} PROVE files'[q] = latest'[q]
      BY <1>3, <2>1, <2>3 DEF TextKept
    <2>4. ASSUME NEW u \in Tx, Live(u)', NEW q \in plan[u].scope
          PROVE  latest'[q] = InForce(u, q)'
      <3>1. Live(u) /\ q \in Path
        BY <2>2, <2>4
      <3> QED
        BY <1>4, <2>4, <3>1 DEF TextKept
    <2> QED
      BY <2>3, <2>4 DEF TextKept
  <1>6. ASSUME NEW r \in Proc \ {p} PROVE Progress(r)'
    <2>1. pc[r] \in LockedSteps => tx[r] # t
      BY <1>2, <1>6, ActsOn
    <2>2. pc[r] \in LockedSteps => (Live(tx[r])' <=> Live(tx[r]))
      BY <1>6, <2>1, ActsOn DEF Still
    <2>3. pc[r] \in RecoveredSteps => (~Live(cur[r]) => ~Live(cur[r])')
      BY <1>6, ActsOn DEF Still
    <2>4. plan'[tx[r]] = plan[tx[r]] /\ plan'[cur[r]] = plan[cur[r]]
      OBVIOUS
    <2> QED
      BY <1>6, <2>2, <2>3, <2>4, OtherProgress
  <1> QED
    BY <1>1, <1>5, <1>6

-----------------------------------------------------------------------------
(* Calls that begin, plan and recover.                                     *)

\* Steps that promise nothing of the files.
LEMMA FreeSteps ==
  ASSUME NEW p \in Proc,
         pc'[p] \in ScanSteps \union {"idle", "decide", "parity", "plan", "lock", "check"}
  PROVE  Progress(p)'
  BY DEF Progress, JournalKept, ApplyProgress, RecoverProgress

LEMMA BeginRevises ==
  ASSUME RevisionInvariant, NEW p \in Proc, Begin(p)
  PROVE  RevisionInvariant'
  <1>1. RecoveryInvariant'
    BY BeginKeeps
  <1>2. PlansAreRequests' /\ Undisturbed'
    BY DEF Begin, PlansAreRequests, Undisturbed
  <1>3. \A r \in Proc \ {p} : Still(r)
    BY DEF Begin, Still
  <1>4. Progress(p)'
    BY FreeSteps DEF Begin
  <1> QED
    BY <1>1, <1>2, <1>3, <1>4, QuietKeeps DEF Begin

LEMMA AssertParityRevises ==
  ASSUME RevisionInvariant, NEW p \in Proc, AssertParity(p)
  PROVE  RevisionInvariant'
  <1>1. RecoveryInvariant' /\ Undisturbed'
    BY AssertParityKeeps DEF AssertParity, Undisturbed
  <1>2. CASE Leave(p)
    BY <1>1, <1>2, LeavingRevises DEF AssertParity
  <1>3. CASE ~Leave(p)
    <2>1. /\ pc' = [pc EXCEPT ![p] = "plan"]
          /\ UNCHANGED <<files, journal, plan, db, loc>>
      BY <1>3 DEF AssertParity
    <2>2. PlansAreRequests'
      BY <2>1, RequestsKept
    <2>3. \A r \in Proc \ {p} : Still(r)
      BY <2>1 DEF Still
    <2>4. Progress(p)'
      BY <2>1, FreeSteps
    <2> QED
      BY <1>1, <2>1, <2>2, <2>3, <2>4, QuietKeeps
  <1> QED
    BY <1>2, <1>3

LEMMA PlanRevisionRevises ==
  ASSUME RevisionInvariant, NEW p \in Proc, PlanRevision(p)
  PROVE  RevisionInvariant'
  <1>1. RecoveryInvariant' /\ Undisturbed'
    BY PlanRevisionKeeps DEF PlanRevision, Undisturbed
  <1>2. CASE Leave(p)
    BY <1>1, <1>2, LeavingRevises DEF PlanRevision
  <1>3. CASE ~Leave(p)
    <2>1. PICK t \in Tx :
            /\ plan[t] = NoPlan
            /\ plan' = [plan EXCEPT ![t] =
                 [ev |-> op[p].ev, scope |-> op[p].scope,
                  before |-> [q \in op[p].scope |-> files[q]],
                  after  |-> [q \in op[p].scope |-> op[p].edit[files[q]]]]]
            /\ tx' = [tx EXCEPT ![p] = t]
      BY <1>3 DEF PlanRevision
    <2>2. /\ pc[p] = "plan" /\ pc' = [pc EXCEPT ![p] = "list"]
          /\ \A q \in op[p].scope : files[q] \in DOMAIN op[p].edit
          /\ \A q, r \in op[p].scope : op[p].edit[files[q]] = op[p].edit[files[r]]
          /\ UNCHANGED <<files, journal, latest, done, cur, left, redo>>
      BY <1>3 DEF PlanRevision
    <2>3. /\ op[p].scope \in Scopes /\ op[p].edit \in Edits /\ tx[p] = NoTx
      BY <2>2 DEF Ownership, Ops
    <2>4. PICK q0 \in op[p].scope : TRUE
      BY <2>3, ScopeAssumption
    <2> DEFINE b0 == op[p].edit[files[q0]]
    <2>5. b0 \in Bytes
      BY <2>2, <2>3, EditsAssumption
    <2>6. /\ plan'[t].scope = op[p].scope
          /\ \A q \in op[p].scope : /\ plan'[t].before[q] = files[q]
                                    /\ plan'[t].after[q] = op[p].edit[files[q]]
      BY <2>1
    <2>7. \E ed \in Edits, b \in Bytes : \A q \in plan'[t].scope :
            /\ plan'[t].before[q] \in DOMAIN ed
            /\ ed[plan'[t].before[q]] = b
            /\ plan'[t].after[q] = b
      <3>1. \A q \in plan'[t].scope :
              /\ plan'[t].before[q] \in DOMAIN op[p].edit
              /\ op[p].edit[plan'[t].before[q]] = b0
              /\ plan'[t].after[q] = b0
        BY <2>2, <2>4, <2>6
      <3> QED
        BY <2>3, <2>5, <3>1
    <2>8. PlansAreRequests'
      <3>1. \A u \in Tx \ {t} : plan'[u] = plan[u]
        BY <2>1
      <3> SUFFICES ASSUME NEW u \in Tx, plan'[u] # NoPlan
                   PROVE  \E ed \in Edits, b \in Bytes : \A q \in plan'[u].scope :
                            /\ plan'[u].before[q] \in DOMAIN ed
                            /\ ed[plan'[u].before[q]] = b
                            /\ plan'[u].after[q] = b
        BY DEF PlansAreRequests
      <3>2. CASE u = t
        BY <2>7, <3>2
      <3>3. CASE u # t
        <4>1. plan'[u] = plan[u]
          BY <3>1, <3>3
        <4> QED
          BY <4>1 DEF PlansAreRequests
      <3> QED
        BY <3>2, <3>3
    <2>9. \A r \in Proc \ {p} : Still(r)
      BY <2>1, <2>2 DEF Still
    <2>10. Progress(p)'
      BY <2>2, FreeSteps
    <2>11. \A u \in Tx : plan[u] # NoPlan => plan'[u] = plan[u]
      BY <2>1
    <2> QED
      BY <1>1, <2>2, <2>8, <2>9, <2>10, <2>11, QuietKeeps
  <1> QED
    BY <1>2, <1>3

LEMMA ScanningRevises ==
  ASSUME RevisionInvariant, NEW p \in Proc,
         ListJournals(p) \/ SweepRetired(p) \/ FinishRecovery(p) \/ LockJournalPaths(p)
  PROVE  RevisionInvariant'
  <1>1. RecoveryInvariant'
    BY ListJournalsKeeps, SweepRetiredKeeps, FinishRecoveryKeeps, LockJournalPathsKeeps
  <1>2. /\ UNCHANGED <<files, plan, db, tx, cur, left, redo, budget>>
        /\ \A r \in Proc \ {p} : pc'[r] = pc[r]
        /\ pc'[p] \in {"scan", "parity", "lock", "rlock", "decide"}
    BY DEF ListJournals, SweepRetired, FinishRecovery, LockJournalPaths, LockNext
  <1>3. \A t \in Tx : Live(t)' <=> Live(t)
    BY DEF ListJournals, SweepRetired, FinishRecovery, LockJournalPaths, LockNext
  <1>4. PlansAreRequests' /\ Undisturbed'
    BY <1>2, RequestsKept DEF Undisturbed
  <1>5. \A r \in Proc \ {p} : Still(r)
    BY <1>2 DEF Still
  <1>6. Progress(p)'
    BY <1>2, FreeSteps
  <1> QED
    BY <1>1, <1>2, <1>3, <1>4, <1>5, <1>6, QuietKeeps

LEMMA OpenJournalRevises ==
  ASSUME RevisionInvariant, NEW p \in Proc, OpenJournal(p)
  PROVE  RevisionInvariant'
  <1>1. RecoveryInvariant' /\ Undisturbed'
    BY OpenJournalKeeps DEF OpenJournal, Undisturbed
  <1>2. CASE Leave(p)
    BY <1>1, <1>2, LeavingRevises DEF OpenJournal
  <1>3. CASE ~Leave(p)
    <2>1. /\ UNCHANGED <<files, journal, plan, db, tx, left, redo>>
          /\ \A r \in Proc \ {p} : pc'[r] = pc[r] /\ cur'[r] = cur[r]
          /\ pc'[p] \in {"scan", "rlock"}
      BY <1>3 DEF OpenJournal
    <2>2. PlansAreRequests'
      BY <2>1, RequestsKept
    <2>3. \A r \in Proc \ {p} : Still(r)
      BY <2>1 DEF Still
    <2>4. Progress(p)'
      BY <2>1, FreeSteps
    <2> QED
      BY <1>1, <2>1, <2>2, <2>3, <2>4, QuietKeeps
  <1> QED
    BY <1>2, <1>3

LEMMA DecideRecoveryRevises ==
  ASSUME RevisionInvariant, NEW p \in Proc, DecideRecovery(p)
  PROVE  RevisionInvariant'
  <1>1. RecoveryInvariant' /\ Undisturbed'
    BY DecideRecoveryKeeps DEF DecideRecovery, Undisturbed
  <1>2. CASE Leave(p)
    BY <1>1, <1>2, LeavingRevises DEF DecideRecovery
  <1>3. CASE ~Leave(p)
    <2>1. /\ UNCHANGED <<files, journal, plan, db, tx>>
          /\ \A r \in Proc \ {p} : Still(r)
          /\ \/ pc'[p] = "scan"
             \/ pc'[p] = "rcheck" /\ cur' = cur /\ left'[p] = plan[cur[p]].scope
      BY <1>3 DEF DecideRecovery, NextJournal, Still
    <2>2. PlansAreRequests'
      BY <2>1, RequestsKept
    <2>3. Progress(p)'
      BY <2>1, FreeSteps DEF Progress, JournalKept, ApplyProgress, RecoverProgress
    <2> QED
      BY <1>1, <2>1, <2>2, <2>3, QuietKeeps
  <1> QED
    BY <1>2, <1>3

LEMMA CheckDriftRevises ==
  ASSUME RevisionInvariant, NEW p \in Proc, CheckDrift(p)
  PROVE  RevisionInvariant'
  <1>1. RecoveryInvariant' /\ Undisturbed'
    BY CheckDriftKeeps DEF CheckDrift, Undisturbed
  <1>2. CASE Leave(p)
    BY <1>1, <1>2, LeavingRevises DEF CheckDrift
  <1>3. CASE ~Leave(p)
    <2>1. /\ pc[p] = "rcheck" /\ pc' = [pc EXCEPT ![p] = "rwrite"]
          /\ UNCHANGED <<files, journal, plan, db, loc>>
      BY <1>3 DEF CheckDrift
    <2>2. PlansAreRequests'
      BY <2>1, RequestsKept
    <2>3. \A r \in Proc \ {p} : Still(r)
      BY <2>1 DEF Still
    <2>4. Progress(p)'
      BY <2>1 DEF Progress, JournalKept, ApplyProgress, RecoverProgress, Snapshot
    <2> QED
      BY <1>1, <2>1, <2>2, <2>3, <2>4, QuietKeeps
  <1> QED
    BY <1>2, <1>3

LEMMA RestoreTargetRevises ==
  ASSUME RevisionInvariant, NEW p \in Proc, RestoreTarget(p)
  PROVE  RevisionInvariant'
  <1>1. RecoveryInvariant'
    BY RestoreTargetKeeps
  <1>2. PICK q \in Path :
          /\ q \in left[p]
          /\ files' = [files EXCEPT ![q] = Snapshot(p, q)]
          /\ left' = [left EXCEPT ![p] = @ \ {q}]
          /\ pc' = [pc EXCEPT ![p] = AfterRound(p, q, "rcheck", "rretire")]
    BY DEF RestoreTarget, IsFirst
  <1>3. /\ pc[p] = "rwrite"
        /\ UNCHANGED <<lock, journal, plan, db, tx, cur, redo, budget>>
    BY DEF RestoreTarget
  <1>4. /\ cur[p] \in Tx /\ Live(cur[p]) /\ plan[cur[p]].scope \subseteq Path
        /\ \A r \in plan[cur[p]].scope : lock[r] = p
        /\ left[p] \subseteq plan[cur[p]].scope
    BY <1>3, ActsOn DEF Stages, LoopsInScope
  <1>5. \A r \in Proc \ {p} : Still(r)
    BY <1>2, <1>3 DEF Still
  <1>6. \A r \in plan[cur[p]].scope : Snapshot(p, r)' = Snapshot(p, r)
    BY <1>3 DEF Snapshot
  <1>7. \A r \in plan[cur[p]].scope \ left[p] : files[r] = Snapshot(p, r)
    BY <1>3 DEF Progress, RecoverProgress
  <1>8. \A r \in plan[cur[p]].scope \ (left[p] \ {q}) : files'[r] = Snapshot(p, r)
    BY <1>2, <1>4, <1>7
  <1>9. Progress(p)'
    <2>1. CASE left[p] = {q}
      <3>1. pc'[p] = "rretire"
        BY <1>2, <2>1 DEF AfterRound
      <3> QED
        BY <1>3, <1>6, <1>8, <2>1, <3>1
           DEF Progress, JournalKept, ApplyProgress, RecoverProgress
    <2>2. CASE left[p] # {q}
      <3>1. pc'[p] = "rcheck" /\ left'[p] = left[p] \ {q}
        BY <1>2, <2>2 DEF AfterRound
      <3> QED
        BY <1>3, <1>6, <1>8, <3>1 DEF Progress, JournalKept, ApplyProgress, RecoverProgress
    <2> QED
      BY <2>1, <2>2
  <1>10. \A r \in Path \ plan[cur[p]].scope : files'[r] = files[r]
    BY <1>2, <1>4
  <1> QED
    BY <1>1, <1>3, <1>4, <1>5, <1>9, <1>10, WritingKeeps

LEMMA RetireRecoveredRevises ==
  ASSUME RevisionInvariant, NEW p \in Proc, RetireRecovered(p)
  PROVE  RevisionInvariant'
  <1>1. RecoveryInvariant'
    BY RetireRecoveredKeeps
  <1>2. /\ pc[p] = "rretire" /\ pc' = [pc EXCEPT ![p] = "rdelete"]
        /\ journal' = [journal EXCEPT ![cur[p]] = "retired"]
        /\ UNCHANGED <<files, plan, db, loc, budget>>
    BY DEF RetireRecovered
  <1>3. /\ cur[p] \in Tx /\ Live(cur[p])
        /\ \A r \in plan[cur[p]].scope : lock[r] = p
    BY <1>2, ActsOn DEF Stages
  <1>4. PICK t \in Tx : t = cur[p]
    BY <1>3
  <1>5. \A r \in plan[t].scope : lock[r] = p /\ files[r] = InForce(t, r)
    BY <1>2, <1>3, <1>4
       DEF Progress, RecoverProgress, Snapshot, InForce, RecoveryDecisionSound
  <1>6. \A u \in Tx : Live(u)' <=> Live(u) /\ u # t
    BY <1>2, <1>4
  <1>7. \A r \in Proc \ {p} : Still(r)
    BY <1>2 DEF Still
  <1>8. Progress(p)'
    BY <1>2, <1>3 DEF Progress, JournalKept, ApplyProgress, RecoverProgress
  <1>9. Live(t)
    BY <1>3, <1>4
  <1>10. UNCHANGED <<files, plan, latest, done, budget>>
    BY <1>2
  <1> QED
    BY <1>1, <1>5, <1>6, <1>7, <1>8, <1>9, <1>10, SettlingKeeps

LEMMA DeleteRecoveredRevises ==
  ASSUME RevisionInvariant, NEW p \in Proc, DeleteRecovered(p)
  PROVE  RevisionInvariant'
  <1>1. RecoveryInvariant'
    BY DeleteRecoveredKeeps
  <1>2. /\ pc[p] = "rdelete" /\ pc' = [pc EXCEPT ![p] = "scan"]
        /\ journal' = [journal EXCEPT ![cur[p]] = "gone"]
        /\ cur' = [cur EXCEPT ![p] = NoTx]
        /\ redo' = [redo EXCEPT ![p] = FALSE]
        /\ UNCHANGED <<files, plan, db, tx, left, budget>>
    BY DEF DeleteRecovered, NextJournal
  <1>3. cur[p] \in Tx /\ ~Live(cur[p])
    BY <1>2, ActsOn DEF Progress, JournalKept
  <1>4. \A u \in Tx : Live(u)' <=> Live(u)
    BY <1>2, <1>3
  <1>5. PlansAreRequests' /\ Undisturbed'
    BY <1>2, RequestsKept DEF Undisturbed
  <1>6. \A r \in Proc \ {p} : Still(r)
    BY <1>2 DEF Still
  <1>7. Progress(p)'
    BY <1>2, FreeSteps
  <1> QED
    BY <1>1, <1>2, <1>4, <1>5, <1>6, <1>7, QuietKeeps

-----------------------------------------------------------------------------
(* apply().                                                                *)

LEMMA LockTargetsRevises ==
  ASSUME RevisionInvariant, NEW p \in Proc, LockTargets(p)
  PROVE  RevisionInvariant'
  <1>1. RecoveryInvariant'
    BY LockTargetsKeeps
  <1>2. /\ UNCHANGED <<files, journal, plan, db, tx, cur, left, redo, budget>>
        /\ \A r \in Proc \ {p} : pc'[r] = pc[r]
        /\ pc'[p] \in {"lock", "check"}
    BY DEF LockTargets, LockNext
  <1>3. PlansAreRequests' /\ Undisturbed'
    BY <1>2, RequestsKept DEF Undisturbed
  <1>4. \A r \in Proc \ {p} : Still(r)
    BY <1>2 DEF Still
  <1>5. Progress(p)'
    BY <1>2, FreeSteps
  <1> QED
    BY <1>1, <1>2, <1>3, <1>4, <1>5, QuietKeeps

LEMMA LockTimeoutRevises ==
  ASSUME RevisionInvariant, NEW p \in Proc, LockTimeout(p)
  PROVE  RevisionInvariant'
  BY LockTimeoutKeeps, LeavingRevises DEF LockTimeout, Undisturbed

LEMMA AssertUnchangedRevises ==
  ASSUME RevisionInvariant, NEW p \in Proc, AssertUnchanged(p)
  PROVE  RevisionInvariant'
  <1>1. RecoveryInvariant' /\ Undisturbed'
    BY AssertUnchangedKeeps DEF AssertUnchanged, Undisturbed
  <1>2. CASE Leave(p)
    BY <1>1, <1>2, LeavingRevises DEF AssertUnchanged
  <1>3. CASE ~Leave(p)
    <2>1. /\ pc' = [pc EXCEPT ![p] = "mkdir"]
          /\ \A q \in plan[tx[p]].scope : files[q] = plan[tx[p]].before[q]
          /\ UNCHANGED <<files, journal, plan, db, loc>>
      BY <1>3 DEF AssertUnchanged, Unchanged
    <2>2. PlansAreRequests'
      BY <2>1, RequestsKept
    <2>3. \A r \in Proc \ {p} : Still(r)
      BY <2>1 DEF Still
    <2>4. Progress(p)'
      BY <2>1 DEF Progress, JournalKept, ApplyProgress, RecoverProgress
    <2> QED
      BY <1>1, <2>1, <2>2, <2>3, <2>4, QuietKeeps
  <1> QED
    BY <1>2, <1>3

LEMMA MakeJournalRevises ==
  ASSUME RevisionInvariant, NEW p \in Proc, MakeJournal(p)
  PROVE  RevisionInvariant'
  <1>1. RecoveryInvariant'
    BY MakeJournalKeeps
  <1>2. /\ pc[p] = "mkdir" /\ pc' = [pc EXCEPT ![p] = "manifest"]
        /\ journal' = [journal EXCEPT ![tx[p]] = "dir"]
        /\ UNCHANGED <<files, plan, db, loc, budget>>
    BY DEF MakeJournal
  <1>3. tx[p] \in Tx /\ journal[tx[p]] = "unused"
    BY <1>2 DEF Ownership
  <1>4. \A u \in Tx : Live(u)' <=> Live(u)
    BY <1>2, <1>3
  <1>5. PlansAreRequests' /\ Undisturbed'
    BY <1>2, RequestsKept DEF Undisturbed
  <1>6. \A r \in Proc \ {p} : Still(r)
    BY <1>2 DEF Still
  <1>7. Progress(p)'
    BY <1>2 DEF Progress, JournalKept, ApplyProgress, RecoverProgress
  <1> QED
    BY <1>1, <1>2, <1>4, <1>5, <1>6, <1>7, QuietKeeps

\* With the manifest the journal claims its files, which no other may claim yet.
LEMMA WriteManifestRevises ==
  ASSUME RevisionInvariant, NoStaleJournal, NEW p \in Proc, WriteManifest(p)
  PROVE  RevisionInvariant'
  <1>1. RecoveryInvariant'
    BY WriteManifestKeeps
  <1>2. /\ pc[p] = "manifest" /\ pc' = [pc EXCEPT ![p] = "write"]
        /\ journal' = [journal EXCEPT ![tx[p]] = "prepared"]
        /\ left' = [left EXCEPT ![p] = plan[tx[p]].scope]
        /\ UNCHANGED <<files, plan, db, tx, cur, redo, budget>>
    BY DEF WriteManifest
  <1>3. PICK t \in Tx : t = tx[p]
    BY <1>2 DEF Ownership
  <1>4. /\ journal[t] = "dir" /\ t \notin done
        /\ plan[t].scope # {} /\ plan[t].scope \subseteq Path
    BY <1>2, <1>3, ActsOn DEF Stages
  <1>5. \A u \in Tx : Live(u) => plan[u].scope \intersect plan[t].scope = {}
    BY <1>2, <1>3 DEF NoStaleJournal
  <1>6. \A u \in Tx : Live(u)' <=> Live(u) \/ u = t
    BY <1>2, <1>3
  <1>7. LiveDisjoint'
    BY <1>2, <1>5, <1>6 DEF LiveDisjoint
  <1>8. \A q \in plan[t].scope : latest[q] = plan[t].before[q]
    <2>1. \A q \in plan[t].scope : Covering(q) = {}
      BY <1>5 DEF Covering
    <2>2. \A q \in plan[t].scope : files[q] = plan[t].before[q]
      BY <1>2, <1>3 DEF Progress, ApplyProgress
    <2> QED
      BY <1>4, <2>1, <2>2 DEF TextKept
  <1>9. TextKept'
    <2>1. ASSUME NEW q \in Path, Covering(q)' = {} PROVE files'[q] = latest'[q]
      <3>1. Covering(q) = {}
        BY <1>2, <1>6, <2>1 DEF Covering
      <3> QED
        BY <1>2, <3>1 DEF TextKept
    <2>2. ASSUME NEW u \in Tx, Live(u)', NEW q \in plan[u].scope
          PROVE  latest'[q] = InForce(u, q)'
      <3>1. CASE u = t
        BY <1>2, <1>4, <1>8, <2>2, <3>1 DEF InForce
      <3>2. CASE u # t
        BY <1>2, <1>6, <2>2, <3>2 DEF InForce, TextKept
      <3> QED
        BY <3>1, <3>2
    <2> QED
      BY <1>2, <2>1, <2>2 DEF TextKept
  <1>10. PlansAreRequests' /\ Undisturbed'
    BY <1>2, RequestsKept DEF Undisturbed
  <1>11. ASSUME NEW r \in Proc \ {p} PROVE Progress(r)'
    <2>1. Still(r)
      BY <1>2, <1>11 DEF Still
    <2>2. pc[r] \in LockedSteps => (Live(tx[r])' <=> Live(tx[r]))
      BY <1>2, <1>3, <1>6, <1>11, ActsOn DEF Ownership
    <2>3. pc[r] \in RecoveredSteps => (~Live(cur[r]) => ~Live(cur[r])')
      BY <1>2, <1>4, <1>6, <1>11, ActsOn
    <2>4. /\ plan'[tx[r]] = plan[tx[r]] /\ plan'[cur[r]] = plan[cur[r]]
          /\ tx[r] \in done' <=> tx[r] \in done
          /\ \A q \in Path : files'[q] = files[q]
      BY <1>2
    <2>5. Progress(r)
      BY <1>11
    <2> QED
      BY <1>11, <2>1, <2>2, <2>3, <2>4, <2>5, OtherProgress
  <1>12. Progress(p)'
    BY <1>2 DEF Progress, JournalKept, ApplyProgress, RecoverProgress
  <1> QED
    BY <1>1, <1>7, <1>9, <1>10, <1>11, <1>12

LEMMA JournalFailsRevises ==
  ASSUME RevisionInvariant, NEW p \in Proc, JournalFails(p)
  PROVE  RevisionInvariant'
  <1>1. RecoveryInvariant'
    BY JournalFailsKeeps
  <1>2. Undisturbed'
    BY DEF JournalFails, Suffer, Undisturbed, Faults
  <1>3. \A u \in Tx : Live(u)' <=> Live(u)
    BY DEF JournalFails, Ownership, Stages
  <1> QED
    BY <1>1, <1>2, <1>3, LeavingRevises DEF JournalFails

\* The transaction of a call between the manifest and the settled journal.
LEMMA Applying ==
  ASSUME RevisionInvariant, NEW p \in Proc,
         pc[p] \in TryingSteps \union {"flag", "mark", "retire", "rollback", "discard"}
  PROVE  /\ tx[p] \in Tx /\ Live(tx[p]) /\ plan[tx[p]] \in Plans
         /\ plan[tx[p]].scope \subseteq Path /\ plan[tx[p]].scope # {}
         /\ \A q \in plan[tx[p]].scope : lock[q] = p
  BY ActsOn DEF Progress, JournalKept, Stages

LEMMA WriteTargetRevises ==
  ASSUME RevisionInvariant, NEW p \in Proc, WriteTarget(p)
  PROVE  RevisionInvariant'
  <1>1. RecoveryInvariant'
    BY WriteTargetKeeps
  <1>2. PICK q \in Path :
          /\ q \in left[p]
          /\ files' = [files EXCEPT ![q] =
                        IF plan[tx[p]].after[q] # plan[tx[p]].before[q]
                          THEN plan[tx[p]].after[q] ELSE @]
    BY DEF WriteTarget, IsFirst
  <1>3. /\ pc[p] = "write" /\ pc' = [pc EXCEPT ![p] = "verify"]
        /\ UNCHANGED <<lock, journal, plan, db, tx, cur, left, redo, budget>>
    BY DEF WriteTarget
  <1>4. left[p] \subseteq plan[tx[p]].scope
    BY <1>3 DEF LoopsInScope
  <1>5. \A r \in Proc \ {p} : Still(r)
    BY <1>3 DEF Still
  <1>6. \A r \in Path \ {q} : files'[r] = files[r]
    BY <1>2
  <1>7. \A r \in plan[tx[p]].scope \ left[p] : files'[r] = plan[tx[p]].after[r]
    BY <1>2, <1>3, <1>6, Applying DEF Progress, ApplyProgress
  <1>8. Progress(p)'
    BY <1>3, <1>7 DEF Progress, JournalKept, ApplyProgress, RecoverProgress
  <1>9. \A r \in Path \ plan[tx[p]].scope : files'[r] = files[r]
    BY <1>2, <1>4, <1>6
  <1> QED
    BY <1>1, <1>3, <1>5, <1>8, <1>9, Applying, WritingKeeps

\* Whoever rolls back has not committed.
LEMMA RollbackStarts ==
  ASSUME RevisionInvariant, NEW p \in Proc, pc[p] \in TryingSteps, StartRollback(p),
         UNCHANGED <<files, journal, plan, latest, done, tx, cur, redo>>,
         RecoveryInvariant', Undisturbed'
  PROVE  RevisionInvariant'
  <1>1. /\ pc' = [pc EXCEPT ![p] = "rollback"]
        /\ left' = [left EXCEPT ![p] = plan[tx[p]].scope]
    BY DEF StartRollback
  <1>2. Live(tx[p]) /\ tx[p] \notin done
    BY DEF Stages
  <1>3. Progress(p)'
    BY <1>1, <1>2 DEF Progress, JournalKept, ApplyProgress, RecoverProgress
  <1>4. PlansAreRequests'
    BY RequestsKept
  <1>5. \A r \in Proc \ {p} : Still(r)
    BY <1>1 DEF Still
  <1> QED
    BY <1>3, <1>4, <1>5, QuietKeeps

LEMMA VerifyTargetRevises ==
  ASSUME RevisionInvariant, NEW p \in Proc, VerifyTarget(p)
  PROVE  RevisionInvariant'
  <1>1. RecoveryInvariant' /\ Undisturbed'
    BY VerifyTargetKeeps DEF VerifyTarget, Undisturbed
  <1>2. PICK q \in Path :
          /\ q \in left[p]
          /\ IF files[q] = plan[tx[p]].after[q]
               THEN /\ left' = [left EXCEPT ![p] = @ \ {q}]
                    /\ Goto(p, AfterRound(p, q, "write", "written"))
               ELSE StartRollback(p)
    BY DEF VerifyTarget, IsFirst
  <1>3. pc[p] = "verify" /\ UNCHANGED <<files, lock, journal, plan, db, tx, cur, redo, budget>>
    BY DEF VerifyTarget
  <1>4. CASE files[q] = plan[tx[p]].after[q]
    <2>1. left' = [left EXCEPT ![p] = @ \ {q}]
      BY <1>2, <1>4
    <2>2. pc' = [pc EXCEPT ![p] = IF left[p] = {q} THEN "written" ELSE "write"]
      BY <1>2, <1>4 DEF AfterRound
    <2>3. \A r \in plan[tx[p]].scope \ (left[p] \ {q}) : files[r] = plan[tx[p]].after[r]
      BY <1>3, <1>4 DEF Progress, ApplyProgress
    <2>4. Progress(p)'
      <3>1. CASE left[p] = {q}
        <4>1. pc'[p] = "written" /\ \A r \in plan[tx[p]].scope : files[r] = plan[tx[p]].after[r]
          BY <2>2, <2>3, <3>1
        <4> QED
          BY <1>3, <4>1 DEF Progress, JournalKept, ApplyProgress, RecoverProgress
      <3>2. CASE left[p] # {q}
        <4>1. pc'[p] = "write" /\ left'[p] = left[p] \ {q}
          BY <2>1, <2>2, <3>2
        <4> QED
          BY <1>3, <2>3, <4>1 DEF Progress, JournalKept, ApplyProgress, RecoverProgress
      <3> QED
        BY <3>1, <3>2
    <2>5. PlansAreRequests'
      BY <1>3, RequestsKept
    <2>6. \A r \in Proc \ {p} : Still(r)
      BY <1>3, <2>1, <2>2 DEF Still
    <2> QED
      BY <1>1, <1>3, <2>4, <2>5, <2>6, QuietKeeps
  <1>5. CASE files[q] # plan[tx[p]].after[q]
    BY <1>1, <1>2, <1>3, <1>5, RollbackStarts
  <1> QED
    BY <1>4, <1>5

LEMMA SetFilesWrittenRevises ==
  ASSUME RevisionInvariant, NEW p \in Proc, SetFilesWritten(p)
  PROVE  RevisionInvariant'
  <1>1. RecoveryInvariant'
    BY SetFilesWrittenKeeps
  <1>2. /\ pc[p] = "written" /\ pc' = [pc EXCEPT ![p] = "commit"]
        /\ journal' = [journal EXCEPT ![tx[p]] = "files_written"]
        /\ UNCHANGED <<files, plan, db, loc, budget>>
    BY DEF SetFilesWritten
  <1>3. \A u \in Tx : Live(u)' <=> Live(u)
    BY <1>2, Applying
  <1>4. PlansAreRequests' /\ Undisturbed'
    BY <1>2, RequestsKept DEF Undisturbed
  <1>5. \A r \in Proc \ {p} : Still(r)
    BY <1>2 DEF Still
  <1>6. Progress(p)'
    BY <1>2 DEF Progress, JournalKept, ApplyProgress, RecoverProgress
  <1> QED
    BY <1>1, <1>2, <1>3, <1>4, <1>5, <1>6, QuietKeeps

\* What CommitDatabase does when the approval may be consumed.
Commits(p) ==
  LET r == plan[tx[p]] IN
    /\ pc[p] = "commit" /\ pc' = [pc EXCEPT ![p] = "flag"]
    /\ MayConsume(r.ev)
    /\ done' = done \union {tx[p]}
    /\ latest' = [q \in Path |-> IF q \in r.scope THEN r.after[q] ELSE latest[q]]
    /\ binding' = BindingAfter(r)
    /\ UNCHANGED <<files, journal, plan, loc, budget>>

LEMMA CommitOrRollback ==
  ASSUME NEW p \in Proc, CommitDatabase(p)
  PROVE  \/ Commits(p)
         \/ /\ pc[p] = "commit" /\ StartRollback(p)
            /\ UNCHANGED <<files, journal, plan, db, tx, cur, redo, budget>>
  BY DEF CommitDatabase, Commits

\* The commit makes the text its journal has written the text in force.
LEMMA CommitDatabaseRevises ==
  ASSUME RevisionInvariant, NEW p \in Proc, CommitDatabase(p)
  PROVE  RevisionInvariant'
  <1>1. RecoveryInvariant'
    BY CommitDatabaseKeeps
  <1>2. CASE ~Commits(p)
    BY <1>1, <1>2, CommitOrRollback, RollbackStarts DEF Undisturbed
  <1>3. CASE Commits(p)
    <2>1. /\ pc[p] = "commit" /\ pc' = [pc EXCEPT ![p] = "flag"]
          /\ done' = done \union {tx[p]}
          /\ latest' = [q \in Path |-> IF q \in plan[tx[p]].scope THEN plan[tx[p]].after[q]
                                       ELSE latest[q]]
          /\ UNCHANGED <<files, journal, plan, loc, budget>>
      BY <1>3 DEF Commits
    <2>2. PICK t \in Tx : t = tx[p]
      BY <2>1, Applying
    <2>3. Live(t) /\ plan[t].scope \subseteq Path
      BY <2>1, <2>2, Applying
    <2>4. \A q \in plan[t].scope : files[q] = plan[t].after[q]
      BY <2>1, <2>2 DEF Progress, ApplyProgress
    <2>5. PlansAreRequests' /\ Undisturbed' /\ LiveDisjoint'
      <3>1. PlansAreRequests' /\ Undisturbed'
        BY <2>1, RequestsKept DEF Undisturbed
      <3>2. LiveDisjoint'
        BY <2>1 DEF LiveDisjoint
      <3> QED
        BY <3>1, <3>2
    <2>6. TextKept'
      <3>1. ASSUME NEW q \in Path, Covering(q)' = {} PROVE files'[q] = latest'[q]
        <4>1. Covering(q) = {}
          BY <2>1, <3>1 DEF Covering
        <4>2. q \notin plan[t].scope
          BY <2>3, <4>1 DEF Covering
        <4> QED
          BY <2>1, <2>2, <4>1, <4>2 DEF TextKept
      <3>2. ASSUME NEW u \in Tx, Live(u), NEW q \in plan[u].scope
            PROVE  latest'[q] = InForce(u, q)'
        <4>1. q \in Path
          BY <3>2, PlanFacts DEF Stages
        <4>2. CASE u = t
          BY <2>1, <2>2, <3>2, <4>1, <4>2 DEF InForce
        <4>3. CASE u # t
          <5>1. q \notin plan[t].scope
            BY <2>3, <3>2, <4>3 DEF LiveDisjoint
          <5> QED
            BY <2>1, <2>2, <3>2, <4>1, <4>3, <5>1 DEF InForce, TextKept
        <4> QED
          BY <4>2, <4>3
      <3> QED
        BY <2>1, <3>1, <3>2 DEF TextKept
    <2>7. ASSUME NEW r \in Proc \ {p} PROVE Progress(r)'
      <3>1. Still(r) /\ Progress(r)
        BY <2>1, <2>7 DEF Still
      <3>2. pc[r] \in LockedSteps => tx[r] # t
        BY <2>2, <2>7, ActsOn DEF Ownership
      <3>3. /\ plan'[tx[r]] = plan[tx[r]] /\ plan'[cur[r]] = plan[cur[r]]
            /\ Live(tx[r])' <=> Live(tx[r])
            /\ Live(cur[r])' <=> Live(cur[r])
            /\ pc[r] \in LockedSteps => (tx[r] \in done' <=> tx[r] \in done)
            /\ \A q \in Path : files'[q] = files[q]
        BY <2>1, <2>2, <3>2
      <3> QED
        BY <2>7, <3>1, <3>3, OtherProgress
    <2>8. Progress(p)'
      BY <2>1, <2>2, <2>3, <2>4 DEF Progress, JournalKept, ApplyProgress, RecoverProgress
    <2> QED
      BY <1>1, <2>5, <2>6, <2>7, <2>8
  <1> QED
    BY <1>2, <1>3

LEMMA MarkingRevises ==
  ASSUME RevisionInvariant, NEW p \in Proc, FlagCommitted(p) \/ MarkCommitted(p)
  PROVE  RevisionInvariant'
  <1>1. RecoveryInvariant'
    BY FlagCommittedKeeps, MarkCommittedKeeps
  <1>2. /\ UNCHANGED <<files, plan, db, loc, budget>>
        /\ \/ /\ pc[p] = "flag" /\ pc' = [pc EXCEPT ![p] = "mark"]
              /\ journal' = journal
           \/ /\ pc[p] = "mark" /\ pc' = [pc EXCEPT ![p] = "retire"]
              /\ journal' = [journal EXCEPT ![tx[p]] = "committed"]
    BY DEF FlagCommitted, MarkCommitted
  <1>3. tx[p] \in Tx /\ Live(tx[p])
    BY <1>2, Applying
  <1>4. \A u \in Tx : Live(u)' <=> Live(u)
    BY <1>2, <1>3
  <1>5. PlansAreRequests' /\ Undisturbed'
    BY <1>2, RequestsKept DEF Undisturbed
  <1>6. \A r \in Proc \ {p} : Still(r)
    BY <1>2 DEF Still
  <1>7. Live(tx[p])'
    BY <1>2, <1>3
  <1>8. Progress(p)'
    BY <1>2, <1>7 DEF Progress, JournalKept, ApplyProgress, RecoverProgress
  <1> QED
    BY <1>1, <1>2, <1>4, <1>5, <1>6, <1>8, QuietKeeps

LEMMA RetireJournalRevises ==
  ASSUME RevisionInvariant, NEW p \in Proc, RetireJournal(p)
  PROVE  RevisionInvariant'
  <1>1. RecoveryInvariant'
    BY RetireJournalKeeps
  <1>2. /\ pc[p] \in {"retire", "discard"}
        /\ pc' = [pc EXCEPT ![p] = IF pc[p] = "retire" THEN "delete" ELSE "purge"]
        /\ journal' = [journal EXCEPT ![tx[p]] = "retired"]
        /\ UNCHANGED <<files, plan, db, loc, budget>>
    BY DEF RetireJournal
  <1>3. PICK t \in Tx : t = tx[p]
    BY <1>2, Applying
  <1>4. Live(t)
    BY <1>2, <1>3, Applying
  <1>5. \A r \in plan[t].scope : lock[r] = p /\ files[r] = InForce(t, r)
    <2>1. \A r \in plan[t].scope : lock[r] = p
      BY <1>2, <1>3, Applying
    <2>2. CASE pc[p] = "retire"
      BY <1>3, <2>1, <2>2 DEF Progress, ApplyProgress, Stages, InForce
    <2>3. CASE pc[p] = "discard"
      BY <1>3, <2>1, <2>3 DEF Progress, ApplyProgress, JournalKept, InForce
    <2> QED
      BY <1>2, <2>2, <2>3
  <1>6. \A u \in Tx : Live(u)' <=> Live(u) /\ u # t
    BY <1>2, <1>3
  <1>7. \A r \in Proc \ {p} : Still(r)
    BY <1>2 DEF Still
  <1>8. Progress(p)'
    BY <1>2, <1>3 DEF Progress, JournalKept, ApplyProgress, RecoverProgress
  <1>9. UNCHANGED <<files, plan, latest, done, budget>>
    BY <1>2
  <1> QED
    BY <1>1, <1>4, <1>5, <1>6, <1>7, <1>8, <1>9, SettlingKeeps

LEMMA DeleteJournalRevises ==
  ASSUME RevisionInvariant, NEW p \in Proc, DeleteJournal(p)
  PROVE  RevisionInvariant'
  <1>1. RecoveryInvariant' /\ Undisturbed'
    BY DeleteJournalKeeps DEF DeleteJournal, Undisturbed
  <1>2. tx[p] \in Tx /\ ~Live(tx[p])
    BY ActsOn DEF DeleteJournal, Progress, JournalKept
  <1>3. \A u \in Tx : Live(u)' <=> Live(u)
    BY <1>2 DEF DeleteJournal
  <1> QED
    BY <1>1, <1>3, LeavingRevises DEF DeleteJournal

LEMMA RollbackTargetRevises ==
  ASSUME RevisionInvariant, NEW p \in Proc, RollbackTarget(p)
  PROVE  RevisionInvariant'
  <1>1. RecoveryInvariant'
    BY RollbackTargetKeeps
  <1>2. PICK q \in Path :
          /\ q \in left[p]
          /\ files' = [files EXCEPT ![q] = plan[tx[p]].before[q]]
          /\ left' = [left EXCEPT ![p] = @ \ {q}]
          /\ pc' = [pc EXCEPT ![p] = IF left[p] = {q} THEN "discard" ELSE "rollback"]
    BY DEF RollbackTarget, IsLast, AfterRound
  <1>3. pc[p] = "rollback" /\ UNCHANGED <<lock, journal, plan, db, tx, cur, redo, budget>>
    BY DEF RollbackTarget
  <1>4. left[p] \subseteq plan[tx[p]].scope
    BY <1>3 DEF LoopsInScope
  <1>5. \A r \in Proc \ {p} : Still(r)
    BY <1>2, <1>3 DEF Still
  <1>6. \A r \in plan[tx[p]].scope \ (left[p] \ {q}) : files'[r] = plan[tx[p]].before[r]
    BY <1>2, <1>3, Applying DEF Progress, ApplyProgress
  <1>7. Live(tx[p]) /\ tx[p] \notin done
    BY <1>3, Applying DEF Progress, JournalKept
  <1>8. Progress(p)'
    <2>1. CASE left[p] = {q}
      <3>1. pc'[p] = "discard" /\ \A r \in plan[tx[p]].scope : files'[r] = plan[tx[p]].before[r]
        BY <1>2, <1>6, <2>1
      <3> QED
        BY <1>3, <1>7, <3>1 DEF Progress, JournalKept, ApplyProgress, RecoverProgress
    <2>2. CASE left[p] # {q}
      <3>1. pc'[p] = "rollback" /\ left'[p] = left[p] \ {q}
        BY <1>2, <2>2
      <3> QED
        BY <1>3, <1>6, <1>7, <3>1 DEF Progress, JournalKept, ApplyProgress, RecoverProgress
    <2> QED
      BY <2>1, <2>2
  <1>9. \A r \in Path \ plan[tx[p]].scope : files'[r] = files[r]
    BY <1>2, <1>4
  <1> QED
    BY <1>1, <1>3, <1>5, <1>8, <1>9, Applying, WritingKeeps

-----------------------------------------------------------------------------
(* Faults, and the whole.                                                  *)

LEMMA WriteFailsRevises ==
  ASSUME RevisionInvariant, NEW p \in Proc, WriteFails(p)
  PROVE  RevisionInvariant'
  <1>1. RecoveryInvariant'
    BY WriteFailsKeeps
  <1>2. Undisturbed'
    BY DEF WriteFails, Suffer, Undisturbed, Faults
  <1> QED
    BY <1>1, <1>2, RollbackStarts DEF WriteFails

LEMMA DyingRevises ==
  ASSUME RevisionInvariant, NEW p \in Proc, CallFails(p) \/ Crash(p)
  PROVE  RevisionInvariant'
  <1>1. RecoveryInvariant'
    BY CallFailsKeeps, CrashKeeps
  <1>2. Undisturbed'
    BY DEF CallFails, Crash, Suffer, Undisturbed, Faults
  <1> QED
    BY <1>1, <1>2, LeavingRevises DEF CallFails, Crash

LEMMA NoInterrupt ==
  ASSUME RevisionInvariant, NEW p \in Proc, InterruptBeforeFlag(p)
  PROVE  FALSE
  BY DEF InterruptBeforeFlag, Suffer, Undisturbed

LEMMA NoEdit ==
  ASSUME RevisionInvariant, NEW q \in Path, NEW b \in Bytes, ExternalEdit(q, b)
  PROVE  FALSE
  BY DEF ExternalEdit, Suffer, Undisturbed

\* The prompt events may age and go at any time.
LEMMA AgingRevises ==
  ASSUME RevisionInvariant, RecoveryInvariant',
         UNCHANGED <<files, lock, journal, plan, done, latest, pc, loc, budget>>
  PROVE  RevisionInvariant'
  <1>1. Undisturbed' /\ PlansAreRequests'
    BY RequestsKept DEF Undisturbed
  <1>2. LiveDisjoint'
    BY DEF LiveDisjoint
  <1>3. TextKept'
    BY DEF TextKept, Covering, InForce
  <1>4. ASSUME NEW r \in Proc PROVE Progress(r)'
    BY <1>4, OtherProgress DEF Still
  <1> QED
    BY <1>1, <1>2, <1>3, <1>4

LEMMA RevisionInitially ==
  ASSUME Init, Budget["edit"] = 0, Budget["interrupt"] = 0
  PROVE  RevisionInvariant
  <1>1. RecoveryInvariant
    BY Initially
  <1>2. Undisturbed /\ PlansAreRequests /\ LiveDisjoint
    BY DEF Init, Undisturbed, PlansAreRequests, LiveDisjoint
  <1>3. TextKept
    BY DEF Init, TextKept
  <1>4. \A p \in Proc : Progress(p)
    BY DEF Init, Progress, JournalKept, ApplyProgress, RecoverProgress
  <1> QED
    BY <1>1, <1>2, <1>3, <1>4

\* The invariant is inductive wherever no stale journal is in a call's way.
LEMMA RevisionInductive ==
  RevisionInvariant /\ NoStaleJournal /\ [Next]_vars => RevisionInvariant'
  <1> SUFFICES ASSUME RevisionInvariant, NoStaleJournal, [Next]_vars
               PROVE  RevisionInvariant'
    OBVIOUS
  <1>1. ASSUME NEW p \in Proc, Begin(p) PROVE RevisionInvariant'
    BY <1>1, BeginRevises, Zenon
  <1>2. ASSUME NEW p \in Proc, Recover(p) PROVE RevisionInvariant'
    BY <1>2, ScanningRevises, OpenJournalRevises, DecideRecoveryRevises, CheckDriftRevises,
       RestoreTargetRevises, RetireRecoveredRevises, DeleteRecoveredRevises, Zenon DEF Recover
  <1>3. ASSUME NEW p \in Proc, Apply(p) PROVE RevisionInvariant'
    BY <1>3, LockTargetsRevises, AssertUnchangedRevises, MakeJournalRevises,
       WriteManifestRevises, WriteTargetRevises, VerifyTargetRevises, SetFilesWrittenRevises,
       CommitDatabaseRevises, MarkingRevises, RetireJournalRevises, DeleteJournalRevises,
       RollbackTargetRevises, Zenon DEF Apply
  <1>4. ASSUME NEW p \in Proc, Continue(p) PROVE RevisionInvariant'
    BY <1>2, <1>3, <1>4, AssertParityRevises, PlanRevisionRevises, LockTimeoutRevises, Zenon
       DEF Continue
  <1>5. ASSUME NEW p \in Proc, Fault(p) PROVE RevisionInvariant'
    BY <1>5, JournalFailsRevises, WriteFailsRevises, NoInterrupt, DyingRevises, Zenon DEF Fault
  <1>6. CASE Environment
    <2>1. ASSUME NEW e \in Event, Supersede(e) \/ Prune(e) PROVE RevisionInvariant'
      <3>1. RecoveryInvariant'
        BY <2>1, PruningKeeps
      <3> QED
        BY <2>1, <3>1, AgingRevises DEF Supersede, Prune
    <2> QED
      BY <1>6, <2>1, NoEdit, Zenon DEF Environment
  <1>7. CASE UNCHANGED vars
    <2>1. RecoveryInvariant'
      BY <1>7, StutteringKeeps
    <2> QED
      BY <1>7, <2>1, AgingRevises DEF vars
  <1> QED
    BY <1>1, <1>4, <1>5, <1>6, <1>7, Zenon DEF Next

-----------------------------------------------------------------------------
(* What the invariant says of a file.                                      *)

\* What the next recovery leaves in a file is what was last committed for it.
LEMMA RecoveredIsLatest ==
  ASSUME RevisionInvariant, NEW q \in Path
  PROVE  Recovered(q) = latest[q]
  <1>1. CASE Covering(q) = {}
    BY <1>1 DEF Recovered, TextKept
  <1>2. CASE Covering(q) # {}
    <2> DEFINE t == CHOOSE t \in Covering(q) : TRUE
    <2>1. t \in Covering(q)
      BY <1>2
    <2>2. t \in Tx /\ Live(t) /\ q \in plan[t].scope
      BY <2>1 DEF Covering
    <2>3. Recovered(q) = InForce(t, q)
      BY <1>2 DEF Recovered, InForce
    <2> QED
      BY <2>2, <2>3 DEF TextKept
  <1> QED
    BY <1>1, <1>2

LEMMA TextInForce == RevisionInvariant => LastCommitRecoverable
  BY RecoveredIsLatest DEF LastCommitRecoverable

\* The locks the call at the manifest holds exclude every journal with an owner.
LEMMA OwnersExclude == RecoveryInvariant /\ Owned => NoStaleJournal
  <1> SUFFICES ASSUME RecoveryInvariant, Owned, NEW p \in Proc, NEW t \in Tx,
                      pc[p] = "manifest", Live(t), NEW q \in plan[t].scope,
                      q \in plan[tx[p]].scope
               PROVE  FALSE
    BY DEF NoStaleJournal
  <1>1. PICK r \in Proc : tx[r] = t /\ pc[r] \in OwningSteps
    BY DEF Owned
  <1>2. journal[tx[p]] = "dir"
    BY DEF Stages
  <1>3. r # p
    BY <1>1, <1>2
  <1>4. lock[q] = r /\ lock[q] = p
    BY <1>1, ActsOn
  <1> QED
    BY <1>3, <1>4

-----------------------------------------------------------------------------
(* One process at a time: recover() leaves no journal behind.              *)

LEMMA ClearedByScan ==
  ASSUME RecoveryInvariant, Cleared, \A p, r \in Proc : p = r,
         NEW p \in Proc, Recover(p)
  PROVE  Cleared'
  <1> SUFFICES ASSUME NEW t \in Tx, Live(t)'
               PROVE  /\ pc'[p] = "scan" => t \in todo'[p]
                      /\ pc'[p] \in {"rlock"} \union RecoveredSteps => t \in todo'[p] \/ t = cur'[p]
                      /\ pc'[p] = "rdelete" => t # cur'[p]
                      /\ pc'[p] \notin PreSteps \union {"manifest"}
    BY DEF Cleared
  <1> USE DEF Cleared
  <1>1. CASE ListJournals(p)
    BY <1>1 DEF ListJournals
  <1>2. CASE SweepRetired(p)
    BY <1>2 DEF SweepRetired
  <1>3. CASE OpenJournal(p)
    BY <1>3, LeaveTypes DEF OpenJournal, Passed
  <1>4. CASE FinishRecovery(p)
    BY <1>4 DEF FinishRecovery
  <1>5. CASE LockJournalPaths(p)
    BY <1>5 DEF LockJournalPaths, LockNext
  <1>6. CASE DecideRecovery(p)
    BY <1>6, LeaveTypes DEF DecideRecovery, NextJournal
  <1>7. CASE CheckDrift(p)
    BY <1>7, LeaveTypes DEF CheckDrift
  <1>8. CASE RestoreTarget(p)
    BY <1>8 DEF RestoreTarget, AfterRound
  <1>9. CASE RetireRecovered(p)
    BY <1>9 DEF RetireRecovered, Ownership
  <1>10. CASE DeleteRecovered(p)
    BY <1>10 DEF DeleteRecovered, NextJournal, Ownership
  <1> QED
    BY <1>1, <1>2, <1>3, <1>4, <1>5, <1>6, <1>7, <1>8, <1>9, <1>10, Zenon DEF Recover

LEMMA ClearedByApply ==
  ASSUME RecoveryInvariant, Cleared, \A p, r \in Proc : p = r,
         NEW p \in Proc, Apply(p)
  PROVE  Cleared'
  <1> SUFFICES ASSUME NEW t \in Tx, Live(t)'
               PROVE  pc'[p] \notin {"scan", "rlock", "manifest"} \union RecoveredSteps
                                      \union PreSteps
    BY DEF Cleared
  <1> USE DEF Cleared
  <1>1. CASE LockTargets(p)
    BY <1>1 DEF LockTargets, LockNext
  <1>2. CASE AssertUnchanged(p)
    BY <1>2, LeaveTypes DEF AssertUnchanged
  <1>3. CASE MakeJournal(p)
    BY <1>3 DEF MakeJournal
  <1>4. CASE WriteManifest(p) \/ WriteTarget(p) \/ SetFilesWritten(p) \/ FlagCommitted(p)
                \/ MarkCommitted(p) \/ RetireJournal(p)
    BY <1>4 DEF WriteManifest, WriteTarget, SetFilesWritten, FlagCommitted, MarkCommitted,
                RetireJournal
  <1>5. CASE VerifyTarget(p) \/ CommitDatabase(p) \/ RollbackTarget(p)
    BY <1>5 DEF VerifyTarget, CommitDatabase, RollbackTarget, StartRollback, AfterRound
  <1>6. CASE DeleteJournal(p)
    BY <1>6, LeaveTypes DEF DeleteJournal
  <1> QED
    BY <1>1, <1>2, <1>3, <1>4, <1>5, <1>6, Zenon DEF Apply

LEMMA ClearedElsewhere ==
  ASSUME RecoveryInvariant, Cleared, \A p, r \in Proc : p = r,
         NEW p \in Proc,
         Begin(p) \/ AssertParity(p) \/ PlanRevision(p) \/ LockTimeout(p) \/ Fault(p)
  PROVE  Cleared'
  <1>1. pc'[p] \in {"idle", "list", "plan", "rollback"}
    <2>1. CASE Leave(p)
      BY <2>1, LeaveTypes
    <2>2. CASE ~Leave(p)
      BY <2>2 DEF Begin, AssertParity, PlanRevision, LockTimeout, Fault, JournalFails, WriteFails,
         InterruptBeforeFlag, CallFails, Crash, StartRollback
    <2> QED
      BY <2>1, <2>2
  <1> QED
    BY <1>1 DEF Cleared

LEMMA ClearedInductive ==
  ASSUME \A p, r \in Proc : p = r, RecoveryInvariant, Cleared, [Next]_vars
  PROVE  Cleared'
  <1>1. ASSUME NEW p \in Proc, Begin(p) \/ Continue(p) \/ Fault(p) PROVE Cleared'
    BY <1>1, ClearedByScan, ClearedByApply, ClearedElsewhere DEF Continue
  <1>2. CASE Environment \/ UNCHANGED vars
    BY <1>2 DEF Environment, ExternalEdit, Supersede, Prune, vars, Cleared
  <1> QED
    BY <1>1, <1>2, Zenon DEF Next

LEMMA ClearedExcludes == Cleared => NoStaleJournal
  BY DEF Cleared, NoStaleJournal

-----------------------------------------------------------------------------
(* No call dies: every journal has an owner that holds its locks.          *)

LEMMA OwnedKept ==
  ASSUME Owned, NEW p \in Proc,
         \A r \in Proc \ {p} : pc'[r] = pc[r] /\ tx'[r] = tx[r],
         \A t \in Tx : Live(t)' => Live(t) \/ (t = tx'[p] /\ pc'[p] \in OwningSteps),
         pc[p] \in OwningSteps => \/ pc'[p] \in OwningSteps /\ tx'[p] = tx[p]
                                  \/ \A t \in Tx : t = tx[p] => ~Live(t)'
  PROVE  Owned'
  BY DEF Owned

LEMMA OwnedByLeaving ==
  ASSUME RecoveryInvariant, Owned, NEW p \in Proc, Leave(p), pc[p] \notin OwningSteps,
         UNCHANGED journal
  PROVE  Owned'
  <1>1. \A r \in Proc \ {p} : pc'[r] = pc[r] /\ tx'[r] = tx[r]
    BY LeaveTypes
  <1> QED
    BY <1>1, OwnedKept

LEMMA OwnedByScan ==
  ASSUME RecoveryInvariant, Owned, NEW p \in Proc, Recover(p)
  PROVE  Owned'
  <1>1. CASE Leave(p) /\ (OpenJournal(p) \/ DecideRecovery(p) \/ CheckDrift(p))
    BY <1>1, OwnedByLeaving DEF OpenJournal, DecideRecovery, CheckDrift
  <1>2. CASE ~(Leave(p) /\ (OpenJournal(p) \/ DecideRecovery(p) \/ CheckDrift(p)))
    <2>1. pc[p] \notin OwningSteps
      BY DEF Recover, ListJournals, SweepRetired, OpenJournal, FinishRecovery, LockJournalPaths,
         DecideRecovery, CheckDrift, RestoreTarget, RetireRecovered, DeleteRecovered
    <2>2. /\ tx' = tx
          /\ \A r \in Proc \ {p} : pc'[r] = pc[r]
      BY <1>2 DEF Recover, ListJournals, SweepRetired, OpenJournal, FinishRecovery,
         LockJournalPaths, LockNext, DecideRecovery, NextJournal, CheckDrift, RestoreTarget,
         RetireRecovered, DeleteRecovered
    <2>3. \A t \in Tx : Live(t)' => Live(t)
      BY DEF Recover, ListJournals, SweepRetired, OpenJournal, FinishRecovery, LockJournalPaths,
         DecideRecovery, CheckDrift, RestoreTarget, RetireRecovered, DeleteRecovered
    <2> QED
      BY <2>1, <2>2, <2>3, OwnedKept
  <1> QED
    BY <1>1, <1>2

LEMMA OwnedByApply ==
  ASSUME RecoveryInvariant, Owned, NEW p \in Proc, Apply(p)
  PROVE  Owned'
  <1>1. CASE AssertUnchanged(p) /\ Leave(p)
    BY <1>1, OwnedByLeaving DEF AssertUnchanged
  <1>2. CASE DeleteJournal(p)
    <2>1. \A r \in Proc \ {p} : pc'[r] = pc[r] /\ tx'[r] = tx[r]
      BY <1>2, LeaveTypes DEF DeleteJournal
    <2>2. \A t \in Tx : journal'[t] = IF t = tx[p] THEN "gone" ELSE journal[t]
      BY <1>2 DEF DeleteJournal
    <2> QED
      BY <2>1, <2>2, OwnedKept
  <1>3. CASE WriteManifest(p)
    <2>1. /\ pc' = [pc EXCEPT ![p] = "write"] /\ tx' = tx
          /\ journal' = [journal EXCEPT ![tx[p]] = "prepared"]
      BY <1>3 DEF WriteManifest
    <2> QED
      BY <2>1, OwnedKept
  <1>4. CASE LockTargets(p) \/ (AssertUnchanged(p) /\ ~Leave(p)) \/ MakeJournal(p)
    <2>1. /\ tx' = tx /\ pc[p] \notin OwningSteps
          /\ \A r \in Proc \ {p} : pc'[r] = pc[r]
          /\ \A t \in Tx : Live(t)' => Live(t)
      BY <1>4 DEF LockTargets, LockNext, AssertUnchanged, MakeJournal
    <2> QED
      BY <2>1, OwnedKept
  <1>5. CASE WriteTarget(p) \/ VerifyTarget(p) \/ SetFilesWritten(p) \/ CommitDatabase(p)
                \/ FlagCommitted(p) \/ MarkCommitted(p) \/ RetireJournal(p) \/ RollbackTarget(p)
    <2>1. tx' = tx /\ \A r \in Proc \ {p} : pc'[r] = pc[r]
      BY <1>5 DEF WriteTarget, VerifyTarget, SetFilesWritten, CommitDatabase, FlagCommitted,
         MarkCommitted, RetireJournal, RollbackTarget, StartRollback
    <2>2. pc[p] \in OwningSteps /\ pc'[p] \in OwningSteps
      BY <1>5 DEF WriteTarget, VerifyTarget, SetFilesWritten, CommitDatabase, FlagCommitted,
         MarkCommitted, RetireJournal, RollbackTarget, StartRollback, AfterRound
    <2>3. \A t \in Tx : Live(t)' => Live(t) \/ t = tx'[p]
      BY <1>5 DEF WriteTarget, VerifyTarget, SetFilesWritten, CommitDatabase, FlagCommitted,
         MarkCommitted, RetireJournal, RollbackTarget, StartRollback
    <2> QED
      BY <2>1, <2>2, <2>3, OwnedKept
  <1> QED
    BY <1>1, <1>2, <1>3, <1>4, <1>5, Zenon DEF Apply

LEMMA OwnedElsewhere ==
  ASSUME RecoveryInvariant, NothingDies, Owned, NEW p \in Proc,
         Begin(p) \/ AssertParity(p) \/ PlanRevision(p) \/ LockTimeout(p) \/ Fault(p)
  PROVE  Owned'
  <1>1. CASE LockTimeout(p)
    <2>1. pc[p] \in {"rlock", "lock"}
      BY <1>1 DEF LockTimeout, Blocked, IsFirst, Unlocked, Wanted
    <2> QED
      BY <1>1, <2>1, OwnedByLeaving DEF LockTimeout
  <1>2. CASE Leave(p) /\ (AssertParity(p) \/ PlanRevision(p))
    BY <1>2, OwnedByLeaving DEF AssertParity, PlanRevision
  <1>3. CASE ~Leave(p) /\ (AssertParity(p) \/ PlanRevision(p))
    <2>1. /\ pc[p] \in {"parity", "plan"} /\ UNCHANGED journal
          /\ \A r \in Proc \ {p} : pc'[r] = pc[r] /\ tx'[r] = tx[r]
      BY <1>3 DEF AssertParity, PlanRevision
    <2> QED
      BY <2>1, OwnedKept
  <1>4. CASE Begin(p)
    <2>1. /\ pc[p] = "idle" /\ UNCHANGED <<journal, tx>>
          /\ \A r \in Proc \ {p} : pc'[r] = pc[r]
      BY <1>4 DEF Begin
    <2> QED
      BY <2>1, OwnedKept
  <1>5. CASE InterruptBeforeFlag(p)
    <2>1. /\ pc[p] = "flag" /\ pc' = [pc EXCEPT ![p] = "rollback"] /\ UNCHANGED <<journal, tx>>
      BY <1>5 DEF InterruptBeforeFlag, StartRollback
    <2> QED
      BY <2>1, OwnedKept
  <1>6. CASE JournalFails(p) \/ WriteFails(p) \/ CallFails(p) \/ Crash(p)
    BY <1>6 DEF JournalFails, WriteFails, CallFails, Crash, Suffer, NothingDies
  <1> QED
    BY <1>1, <1>2, <1>3, <1>4, <1>5, <1>6, Zenon DEF Fault

LEMMA NothingDiesStill ==
  ASSUME RecoveryInvariant, NothingDies, [Next]_vars
  PROVE  NothingDies'
  <1>1. ASSUME NEW p \in Proc, Begin(p) \/ Continue(p) PROVE budget' = budget
    BY <1>1 DEF Begin, Continue, AssertParity, PlanRevision, LockTimeout,
       Recover, ListJournals, SweepRetired, OpenJournal, FinishRecovery, LockJournalPaths,
       DecideRecovery, CheckDrift, RestoreTarget, RetireRecovered, DeleteRecovered,
       Apply, LockTargets, AssertUnchanged, MakeJournal, WriteManifest, WriteTarget,
       VerifyTarget, SetFilesWritten, CommitDatabase, FlagCommitted, MarkCommitted,
       RetireJournal, DeleteJournal, RollbackTarget
  <1>2. ASSUME NEW p \in Proc, Fault(p) PROVE Suffer("interrupt")
    BY <1>2 DEF Fault, JournalFails, WriteFails, InterruptBeforeFlag, CallFails, Crash, Suffer,
       NothingDies
  <1>3. CASE Environment \/ UNCHANGED vars
    <2>1. Suffer("edit") \/ budget' = budget
      BY <1>3 DEF Environment, ExternalEdit, Supersede, Prune, vars
    <2>2. ASSUME Suffer("edit") PROVE NothingDies'
      BY <2>2 DEF NothingDies, Suffer
    <2> QED
      BY <2>1, <2>2 DEF NothingDies
  <1>4. ASSUME Suffer("interrupt") PROVE NothingDies'
    BY <1>4 DEF NothingDies, Suffer
  <1>5. ASSUME budget' = budget PROVE NothingDies'
    BY <1>5 DEF NothingDies
  <1> QED
    BY <1>1, <1>2, <1>3, <1>4, <1>5, Zenon DEF Next

LEMMA OwnedInductive ==
  ASSUME RecoveryInvariant, NothingDies, Owned, [Next]_vars
  PROVE  Owned'
  <1>1. ASSUME NEW p \in Proc, Begin(p) \/ Continue(p) \/ Fault(p) PROVE Owned'
    BY <1>1, OwnedByScan, OwnedByApply, OwnedElsewhere DEF Continue
  <1>2. CASE Environment \/ UNCHANGED vars
    BY <1>2 DEF Environment, ExternalEdit, Supersede, Prune, vars, Owned
  <1> QED
    BY <1>1, <1>2, Zenon DEF Next

-----------------------------------------------------------------------------
(* The abstract steps.                                                     *)

\* Every step but a commit leaves the text in force, the binding and the history
\* of commits alone.
LEMMA OnlyCommitsCount ==
  ASSUME RevisionInvariant, [Next]_vars, \A p \in Proc : ~Commits(p)
  PROVE  UNCHANGED <<latest, binding, done>>
  <1>1. ASSUME NEW p \in Proc, Begin(p) \/ Fault(p) PROVE UNCHANGED <<latest, binding, done>>
    BY <1>1 DEF Begin, Fault, JournalFails, WriteFails, InterruptBeforeFlag, CallFails, Crash
  <1>2. ASSUME NEW p \in Proc, Continue(p) PROVE UNCHANGED <<latest, binding, done>>
    <2>1. ~Commits(p)
      OBVIOUS
    <2> QED
      BY <1>2, <2>1, CommitOrRollback
         DEF Continue, AssertParity, PlanRevision, LockTimeout,
         Recover, ListJournals, SweepRetired, OpenJournal, FinishRecovery, LockJournalPaths,
         DecideRecovery, CheckDrift, RestoreTarget, RetireRecovered, DeleteRecovered,
         Apply, LockTargets, AssertUnchanged, MakeJournal, WriteManifest, WriteTarget,
         VerifyTarget, SetFilesWritten, FlagCommitted, MarkCommitted,
         RetireJournal, DeleteJournal, RollbackTarget
  <1>3. CASE Environment
    <2>1. ASSUME NEW e \in Event, Supersede(e) \/ Prune(e)
          PROVE  UNCHANGED <<latest, binding, done>>
      BY <2>1 DEF Supersede, Prune
    <2> QED
      BY <1>3, <2>1, NoEdit, Zenon DEF Environment
  <1>4. CASE UNCHANGED vars
    BY <1>4 DEF vars
  <1> QED
    BY <1>1, <1>2, <1>3, <1>4, Zenon DEF Next

\* The plan of a committed transaction is never forgotten or replaced.
LEMMA CommittedPlansStay ==
  ASSUME RecoveryInvariant, [Next]_vars, NEW t \in done
  PROVE  plan'[t] = plan[t]
  <1>1. t \in Tx /\ journal[t] # "unused" /\ plan[t] # NoPlan
    BY DEF Stages
  <1>2. ASSUME NEW p \in Proc, Leave(p) PROVE plan'[t] = plan[t]
    BY <1>1, <1>2, LeaveFacts
  <1>3. ASSUME NEW p \in Proc, Begin(p) \/ Continue(p) \/ Fault(p) PROVE plan'[t] = plan[t]
    <2>1. CASE PlanRevision(p) /\ ~Leave(p)
      BY <1>1, <2>1 DEF PlanRevision
    <2>2. CASE ~(PlanRevision(p) /\ ~Leave(p)) /\ ~Leave(p)
      BY <1>3, <2>2 DEF Begin, Fault, JournalFails, WriteFails, InterruptBeforeFlag, CallFails,
         Crash, Continue, AssertParity, LockTimeout, Recover, ListJournals, SweepRetired,
         OpenJournal, FinishRecovery, LockJournalPaths, DecideRecovery, CheckDrift,
         RestoreTarget, RetireRecovered, DeleteRecovered, Apply, LockTargets, AssertUnchanged,
         MakeJournal, WriteManifest, WriteTarget, VerifyTarget, SetFilesWritten,
         CommitDatabase, FlagCommitted, MarkCommitted, RetireJournal, DeleteJournal,
         RollbackTarget
    <2> QED
      BY <1>2, <2>1, <2>2
  <1>4. CASE Environment \/ UNCHANGED vars
    BY <1>4 DEF Environment, ExternalEdit, Supersede, Prune, vars
  <1> QED
    BY <1>3, <1>4, Zenon DEF Next

\* The two global files are given one text, and the registry its digest.
LEMMA ParityKept ==
  ASSUME ScopesApart, RevisionInvariant, InParity, [Next]_vars
  PROVE  InParity'
  <1>1. ASSUME NEW p \in Proc, Commits(p) PROVE InParity'
    <2>1. /\ pc[p] = "commit"
          /\ latest' = [q \in Path |-> IF q \in plan[tx[p]].scope THEN plan[tx[p]].after[q]
                                       ELSE latest[q]]
          /\ binding' = BindingAfter(plan[tx[p]])
      BY <1>1 DEF Commits
    <2>2. /\ tx[p] \in Tx /\ plan[tx[p]] \in Plans /\ plan[tx[p]].scope \in Scopes
          /\ plan[tx[p]].scope # {}
      BY <2>1, Applying, PlanFacts
    <2>3. CASE plan[tx[p]].scope = GlobalScope
      <3>1. PICK b \in Bytes : \A q \in plan[tx[p]].scope : plan[tx[p]].after[q] = b
        BY <2>2, PlanFacts DEF PlansAreRequests
      <3>2. \A q \in GlobalScope : latest'[q] = b
        BY <2>1, <2>3, <3>1, ScopeAssumption
      <3>3. (CHOOSE q \in GlobalScope : TRUE) \in GlobalScope
        BY <2>2, <2>3
      <3>4. binding' = b
        BY <2>1, <2>3, <3>1, <3>3 DEF BindingAfter
      <3> QED
        BY <3>2, <3>4 DEF InParity
    <2>4. CASE plan[tx[p]].scope # GlobalScope
      <3>1. plan[tx[p]].scope \intersect GlobalScope = {} /\ binding' = binding
        BY <2>1, <2>2, <2>4 DEF ScopesApart, BindingAfter
      <3> QED
        BY <2>1, <3>1, ScopeAssumption DEF InParity
    <2> QED
      BY <2>3, <2>4
  <1>2. ASSUME \A p \in Proc : ~Commits(p) PROVE InParity'
    BY <1>2, OnlyCommitsCount DEF InParity
  <1> QED
    BY <1>1, <1>2

\* A commit is one whole revision, with an approval that was not used before.
LEMMA CommitIsRevision ==
  ASSUME RevisionInvariant, RevisionInvariant', NEW p \in Proc, Commits(p),
         \A q \in Path : Recovered(q) = latest[q],
         \A q \in Path : Recovered(q)' = latest'[q]
  PROVE  Abstract!Next
  <1> DEFINE r == plan[tx[p]]
  <1>1. /\ pc[p] = "commit" /\ MayConsume(r.ev)
        /\ done' = done \union {tx[p]}
        /\ latest' = [q \in Path |-> IF q \in r.scope THEN r.after[q] ELSE latest[q]]
        /\ binding' = BindingAfter(r) /\ plan' = plan
    BY DEF Commits
  <1>2. /\ tx[p] \in Tx /\ r \in Plans /\ r.ev \in Event /\ r.scope \in Scopes
        /\ r.scope # {} /\ r.scope \subseteq Path
        /\ Live(tx[p]) /\ tx[p] \notin done
    BY <1>1, Applying, PlanFacts DEF Stages
  <1>3. PICK ed \in Edits, b \in Bytes : \A q \in r.scope :
          r.before[q] \in DOMAIN ed /\ ed[r.before[q]] = b /\ r.after[q] = b
    BY <1>2, PlanFacts DEF PlansAreRequests
  <1>4. r.ev \notin {plan[t].ev : t \in done}
    <2> SUFFICES ASSUME NEW t \in done, plan[t].ev = r.ev PROVE FALSE
      OBVIOUS
    <2>1. consumed[plan[t].ev] = t \/ evt[plan[t].ev] = "gone"
      BY DEF Evidence
    <2>2. evt[plan[t].ev] = "current" /\ consumed[plan[t].ev] = NoTx
      BY <1>1 DEF MayConsume
    <2>3. t \in Tx
      OBVIOUS
    <2> QED
      BY <2>1, <2>2, <2>3
  <1>5. {plan[t].ev : t \in done}' = {plan[t].ev : t \in done} \union {r.ev}
    BY <1>1
  <1>6. \A q \in r.scope : Recovered(q) = r.before[q]
    BY <1>2 DEF TextKept, InForce
  <1>7. Abstract!Revises(r.scope, ed, b)
    BY <1>2, <1>3, <1>6 DEF Abstract!Revises
  <1>8. [q \in Path |-> Recovered(q)]'
          = [q \in Path |-> IF q \in r.scope THEN b ELSE [s \in Path |-> Recovered(s)][q]]
    BY <1>1, <1>3
  <1>9. binding' = Abstract!Binding(r.scope, b)
    BY <1>1, <1>2, <1>3 DEF BindingAfter, Abstract!Binding
  <1>10. PICK S \in Scopes, e \in Event : S = r.scope /\ e = r.ev
    BY <1>2
  <1>11. Abstract!Revise(S, e)
    BY <1>3, <1>4, <1>5, <1>7, <1>8, <1>9, <1>10 DEF Abstract!Revise
  <1> QED
    BY <1>11 DEF Abstract!Next

LEMMA StepIsAbstract ==
  ASSUME RevisionInvariant, RevisionInvariant', [Next]_vars
  PROVE  [Abstract!Next]_<<[q \in Path |-> Recovered(q)], binding, {plan[t].ev : t \in done}>>
  <1>1. /\ \A q \in Path : Recovered(q) = latest[q]
        /\ \A q \in Path : Recovered(q)' = latest'[q]
    <2>1. LastCommitRecoverable /\ LastCommitRecoverable'
      BY TextInForce, PTL
    <2> QED
      BY <2>1 DEF LastCommitRecoverable
  <1>2. ASSUME NEW p \in Proc, Commits(p) PROVE Abstract!Next
    BY <1>1, <1>2, CommitIsRevision
  <1>3. ASSUME \A p \in Proc : ~Commits(p)
        PROVE  UNCHANGED <<[q \in Path |-> Recovered(q)], binding, {plan[t].ev : t \in done}>>
    <2>1. UNCHANGED <<latest, binding, done>>
      BY <1>3, OnlyCommitsCount
    <2>2. [q \in Path |-> Recovered(q)]' = [q \in Path |-> Recovered(q)]
      BY <1>1, <2>1
    <2>3. {plan[t].ev : t \in done}' = {plan[t].ev : t \in done}
      BY <2>1, CommittedPlansStay
    <2> QED
      BY <2>1, <2>2, <2>3
  <1> QED
    BY <1>2, <1>3

LEMMA AbstractInitially ==
  ASSUME Init, Budget["edit"] = 0, Budget["interrupt"] = 0
  PROVE  Abstract!Init
  <1>1. \A q \in Path : Recovered(q) = latest[q]
    BY RevisionInitially, RecoveredIsLatest
  <1> QED
    BY <1>1, ScopeAssumption DEF Init, Abstract!Init

-----------------------------------------------------------------------------
(* The theorems.                                                           *)

\* Where one process runs at a time, recover() has settled every journal when the
\* call writes its own: whatever crashed or failed before, none covers its files.
THEOREM OneCallerMeetsNoJournal ==
  ASSUME \A p, r \in Proc : p = r
  PROVE  Spec => []NoStaleJournal
  <1>1. Init => Cleared
    BY DEF Init, Cleared
  <1>2. RecoveryInvariant /\ Cleared /\ [Next]_vars => Cleared'
    BY ClearedInductive
  <1> QED
    BY <1>1, <1>2, InvariantHolds, ClearedExcludes, PTL DEF Spec

\* Where no call dies between the manifest and the end of its transaction, the
\* locks keep calls apart, however many run at once.
THEOREM LocksKeepJournalsApart ==
  ASSUME Budget["crash"] = 0, Budget["io"] = 0
  PROVE  Spec => []NoStaleJournal
  <1>1. Init => Owned /\ NothingDies
    BY DEF Init, Owned, NothingDies
  <1>2. RecoveryInvariant /\ Owned /\ NothingDies /\ [Next]_vars => Owned' /\ NothingDies'
    BY OwnedInductive, NothingDiesStill
  <1> QED
    BY <1>1, <1>2, InvariantHolds, OwnersExclude, PTL DEF Spec

LEMMA RevisionHolds ==
  ASSUME Budget["edit"] = 0, Budget["interrupt"] = 0
  PROVE  Spec /\ []NoStaleJournal => []RevisionInvariant
  <1>1. Init => RevisionInvariant
    BY RevisionInitially
  <1> QED
    BY <1>1, RevisionInductive, PTL DEF Spec

\* No window between the first write of a revision and the deletion of its journal
\* loses a committed text or keeps an uncommitted one (apply, recover).
THEOREM CommitsAreRecoverable ==
  ASSUME Budget["edit"] = 0, Budget["interrupt"] = 0
  PROVE  Spec /\ []NoStaleJournal => []LastCommitRecoverable
  BY TextInForce, RevisionHolds, PTL

\* Source, target and binding of the global rules agree whenever no journal claims
\* the files (_update_global_binding_after).
THEOREM GlobalFilesInParity ==
  ASSUME Budget["edit"] = 0, Budget["interrupt"] = 0, ScopesApart
  PROVE  Spec /\ []NoStaleJournal => []GlobalParity
  <1>1. Init => InParity
    BY ScopeAssumption DEF Init, InParity
  <1>2. RevisionInvariant /\ InParity /\ [Next]_vars => InParity'
    BY ParityKept
  <1>3. RevisionInvariant /\ InParity => GlobalParity
    BY ScopeAssumption DEF GlobalParity, InParity, TextKept
  <1> QED
    BY <1>1, <1>2, <1>3, RevisionHolds, PTL DEF Spec

\* Every step of apply() and recover(), and of the crashes between them, leaves the
\* text in force alone or is one whole approved revision: AtomicRevision.
THEOREM RevisionsAreAtomic ==
  ASSUME Budget["edit"] = 0, Budget["interrupt"] = 0
  PROVE  Spec /\ []NoStaleJournal => ImplementsAtomicRevision
  <1>1. Init => Abstract!Init
    BY AbstractInitially
  <1>2. RevisionInvariant /\ RevisionInvariant' /\ [Next]_vars =>
          [Abstract!Next]_<<[q \in Path |-> Recovered(q)], binding, {plan[t].ev : t \in done}>>
    BY StepIsAbstract
  <1> QED
    BY <1>1, <1>2, RevisionHolds, PTL DEF Spec, ImplementsAtomicRevision, Abstract!Spec

\* What crash_recovery checks, for every number of crashes and I/O failures: one
\* process at a time, which may die anywhere and start again.
THEOREM CrashesAreAtomic ==
  ASSUME Budget["edit"] = 0, Budget["interrupt"] = 0, \A p, r \in Proc : p = r
  PROVE  Spec => []LastCommitRecoverable /\ ImplementsAtomicRevision
  BY OneCallerMeetsNoJournal, CommitsAreRecoverable, RevisionsAreAtomic, PTL

\* What concurrent_calls checks, for every number of processes that do not die.
THEOREM ConcurrentCallsAreAtomic ==
  ASSUME Budget["edit"] = 0, Budget["interrupt"] = 0, Budget["crash"] = 0, Budget["io"] = 0
  PROVE  Spec => []LastCommitRecoverable /\ ImplementsAtomicRevision
  BY LocksKeepJournalsApart, CommitsAreRecoverable, RevisionsAreAtomic, PTL
==============================================================================
