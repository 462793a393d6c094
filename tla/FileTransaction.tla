--------------------------- MODULE FileTransaction ---------------------------
(***************************************************************************)
(* One approved revision of instruction files, from the approval check to  *)
(* the deletion of its journal: RuleService.deploy, deploy_bundle and      *)
(* revoke around FileTransactionCoordinator.apply and recover              *)
(* (rule_service.py).  Every process of the machine runs the same code; it *)
(* may crash at any step, its file operations may fail, other programs     *)
(* edit the files without taking the locks, and prompt events grow stale   *)
(* and are pruned while it runs.                                           *)
(*                                                                         *)
(* A document is an opaque member of Bytes (absence is one of its values). *)
(* A request's effect is a function of Edits from the documents its plan   *)
(* accepts to the document it produces.  The digests kept by the global    *)
(* binding are modelled by the document they are the digest of.            *)
(***************************************************************************)
EXTENDS Naturals, FiniteSets

CONSTANTS
  Proc,         \* processes running the command line or a skill
  Path,         \* instruction files, numbered in the order their locks are taken
  Scopes,       \* sets of files one revision rewrites together
  GlobalScope,  \* the portable source and the host target of global rules
  Bytes,        \* file contents
  InitialBytes, \* contents the files may start with
  Edits,        \* what requests do: functions from accepted to resulting contents
  Event,        \* captured prompts that may be cited as approvals
  Tx,           \* transaction ids, the bound on journals ever created
  Budget,       \* how many faults of each kind a behaviour may have
  NoProc, NoTx, NoPlan, NoOp

Faults == {"crash", "io", "edit", "interrupt"}

ASSUME PathAssumption    == Path \subseteq Nat
ASSUME ScopeAssumption   == /\ Scopes \subseteq (SUBSET Path) \ {{}}
                            /\ GlobalScope \subseteq Path
ASSUME BytesAssumption   == InitialBytes \subseteq Bytes
ASSUME EditsAssumption   == \A ed \in Edits : /\ DOMAIN ed \subseteq Bytes
                                              /\ \A b \in DOMAIN ed : ed[b] \in Bytes
ASSUME BudgetAssumption  == Budget \in [Faults -> Nat]

VARIABLES
  files,    \* what each instruction file holds
  lock,     \* the holder of each file's lock
  journal,  \* how far each transaction's journal directory has come
  plan,     \* the transaction's before and after snapshots, its event and files
  evt,      \* prompt_events: current, past (row kept but not usable) or gone
  consumed, \* approval_consumptions: the transaction that used an event
  binding,  \* the global document the registry has digests of
  done,     \* every transaction whose database commit happened (history)
  latest,   \* what each file was last committed or edited to hold (history)
  pc, op, tx, sweep, todo, cur, left, redo, \* locals of each process
  budget    \* the faults still to come

store == <<journal, plan>>
db    == <<evt, consumed, binding, done, latest>>
loc   == <<op, tx, sweep, todo, cur, left, redo>>
vars  == <<files, lock, journal, plan, evt, consumed, binding, done, latest,
           pc, op, tx, sweep, todo, cur, left, redo, budget>>

Ops == [ev: Event, scope: Scopes, edit: Edits]

PlansFor(S) == [ev: Event, scope: {S}, before: [S -> Bytes], after: [S -> Bytes]]
Plans       == UNION {PlansFor(S) : S \in Scopes}

ASSUME NullAssumption == /\ NoProc \notin Proc
                         /\ NoTx \notin Tx
                         /\ NoPlan \notin Plans
                         /\ NoOp \notin Ops

\* A journal that recover() can read and has not settled.
LiveStates    == {"prepared", "files_written", "committed"}
JournalStates == LiveStates \union {"unused", "dir", "retired", "gone"}

\* Where a process stands in recover() ...
ScanSteps   == {"list", "scan", "rlock"}
RepairSteps == {"rcheck", "rwrite", "rretire"}
\* ... and in apply(), from the first lock to the end of the transaction.
PreSteps    == {"lock", "check", "mkdir"}
TryingSteps == {"write", "verify", "written", "commit"}
WonSteps    == {"mark", "retire", "delete"}
UndoSteps   == {"rollback", "discard", "purge"}
Steps == ScanSteps \union RepairSteps \union PreSteps \union TryingSteps
           \union WonSteps \union UndoSteps
           \union {"idle", "decide", "rdelete", "parity", "plan", "manifest", "flag"}

Live(t) == journal[t] \in LiveStates

Init ==
  /\ files \in [Path -> InitialBytes]
  /\ binding \in InitialBytes
  /\ \A q \in GlobalScope : files[q] = binding
  /\ lock = [q \in Path |-> NoProc]
  /\ journal = [t \in Tx |-> "unused"]
  /\ plan = [t \in Tx |-> NoPlan]
  /\ evt = [e \in Event |-> "current"]
  /\ consumed = [e \in Event |-> NoTx]
  /\ done = {}
  /\ latest = files
  /\ pc = [p \in Proc |-> "idle"]
  /\ op = [p \in Proc |-> NoOp]
  /\ tx = [p \in Proc |-> NoTx]
  /\ sweep = [p \in Proc |-> {}]
  /\ todo = [p \in Proc |-> {}]
  /\ cur = [p \in Proc |-> NoTx]
  /\ left = [p \in Proc |-> {}]
  /\ redo = [p \in Proc |-> FALSE]
  /\ budget = Budget

-----------------------------------------------------------------------------
(* Steps shared by the handlers.                                           *)

Goto(p, l) == pc' = [pc EXCEPT ![p] = l]

Released(p) == [q \in Path |-> IF lock[q] = p THEN NoProc ELSE lock[q]]

\* The call returns or raises: its locks are released and its locals are lost.
\* A plan no journal holds is lost with them.
Leave(p) ==
  /\ Goto(p, "idle")
  /\ lock' = Released(p)
  /\ plan' = [t \in Tx |-> IF t = tx[p] /\ journal[t] = "unused" THEN NoPlan ELSE plan[t]]
  /\ op' = [op EXCEPT ![p] = NoOp]
  /\ tx' = [tx EXCEPT ![p] = NoTx]
  /\ sweep' = [sweep EXCEPT ![p] = {}]
  /\ todo' = [todo EXCEPT ![p] = {}]
  /\ cur' = [cur EXCEPT ![p] = NoTx]
  /\ left' = [left EXCEPT ![p] = {}]
  /\ redo' = [redo EXCEPT ![p] = FALSE]

SetJournal(t, st) == journal' = [journal EXCEPT ![t] = st]

Suffer(fault) ==
  /\ budget[fault] > 0
  /\ budget' = [budget EXCEPT ![fault] = @ - 1]

\* The lowest and the highest file of a set; no order at all.
IsFirst_Unsorted(q, S) == q \in S
IsFirst(q, S) == q \in S /\ \A r \in S : q <= r
IsLast(q, S)  == q \in S /\ \A r \in S : r <= q

\* After a loop's body ran for q: its next round, or what follows the loop.
AfterRound(p, q, again, next) == IF left[p] = {q} THEN next ELSE again

Unlocked(p, S) == {q \in S : lock[q] # p}

\* flock and msvcrt locking exclude every other holder; or do not.
Free_Shared(q) == TRUE
Free(q)        == lock[q] = NoProc

\* lock_paths: one lock at a time in sorted order; go on to l with the last.
LockNext(p, S, l) ==
  \E q \in Path :
    /\ IsFirst(q, Unlocked(p, S))
    /\ Free(q)
    /\ lock' = [lock EXCEPT ![q] = p]
    /\ Goto(p, IF Unlocked(p, S) = {q} THEN l ELSE pc[p])

\* What recover() and apply() are about to lock.
Wanted(p) == CASE pc[p] = "rlock" -> plan[cur[p]].scope
               [] pc[p] = "lock"  -> plan[tx[p]].scope
               [] OTHER           -> {}

Blocked(p, r) == \E q \in Path : IsFirst(q, Unlocked(p, Wanted(p))) /\ lock[q] = r

-----------------------------------------------------------------------------
(* RuleService: an approved request and its plan.                          *)

\* authorization.validate, then the first recover().
Begin(p) ==
  /\ pc[p] = "idle"
  /\ \E e \in Event, S \in Scopes, ed \in Edits :
       /\ evt[e] = "current"
       /\ consumed[e] = NoTx
       /\ op' = [op EXCEPT ![p] = [ev |-> e, scope |-> S, edit |-> ed]]
  /\ Goto(p, "list")
  /\ UNCHANGED <<files, lock, store, db, tx, sweep, todo, cur, left, redo, budget>>

\* _global_paths_and_assert_parity: source, target and binding agree.
AssertParity(p) ==
  /\ pc[p] = "parity"
  /\ IF op[p].scope = GlobalScope => \A q \in GlobalScope : files[q] = binding
       THEN Goto(p, "plan") /\ UNCHANGED <<lock, plan, loc>>
       ELSE Leave(p)
  /\ UNCHANGED <<files, journal, db, budget>>

\* The plan re-reads every file; all of them must produce the same document
\* (_assert_same_global_plan).  Bound: a call that finds no transaction left ends.
PlanRevision(p) ==
  /\ pc[p] = "plan"
  /\ LET S == op[p].scope  ed == op[p].edit IN
     IF /\ \A q \in S : files[q] \in DOMAIN ed
        /\ \A q, r \in S : ed[files[q]] = ed[files[r]]
        /\ \E t \in Tx : plan[t] = NoPlan /\ journal[t] = "unused"
       THEN \E t \in Tx :
              /\ plan[t] = NoPlan
              /\ journal[t] = "unused"
              /\ plan' = [plan EXCEPT ![t] =
                   [ev |-> op[p].ev, scope |-> S,
                    before |-> [q \in S |-> files[q]],
                    after  |-> [q \in S |-> ed[files[q]]]]]
              /\ tx' = [tx EXCEPT ![p] = t]
              /\ op' = [op EXCEPT ![p] = NoOp]
              /\ Goto(p, "list")
              /\ UNCHANGED <<lock, sweep, todo, cur, left, redo>>
       ELSE Leave(p)
  /\ UNCHANGED <<files, journal, db, budget>>

-----------------------------------------------------------------------------
(* FileTransactionCoordinator.recover                                      *)

ListJournals(p) ==
  /\ pc[p] = "list"
  /\ sweep' = [sweep EXCEPT ![p] = {t \in Tx : journal[t] = "retired"}]
  /\ todo' = [todo EXCEPT ![p] = {t \in Tx : Live(t) \/ journal[t] = "dir"}]
  /\ Goto(p, "scan")
  /\ UNCHANGED <<files, lock, store, db, op, tx, cur, left, redo, budget>>

\* Directories listed under their .cleanup- name, deleted without a lock.
SweepRetired(p) ==
  /\ pc[p] = "scan"
  /\ \E t \in sweep[p] :
       /\ SetJournal(t, IF journal[t] = "retired" THEN "gone" ELSE journal[t])
       /\ sweep' = [sweep EXCEPT ![p] = @ \ {t}]
  /\ UNCHANGED <<files, lock, plan, db, pc, op, tx, todo, cur, left, redo, budget>>

\* The scan moves past a directory, or comes back to it.
Passed_Retried(p, t) == todo
Passed(p, t)         == [todo EXCEPT ![p] = @ \ {t}]

\* A directory that vanished meanwhile is skipped; one without a manifest
\* raises instruction_recovery_failed.
OpenJournal(p) ==
  /\ pc[p] = "scan"
  /\ sweep[p] = {}
  /\ \E t \in todo[p] :
       \/ /\ journal[t] \in {"retired", "gone"}
          /\ todo' = Passed(p, t)
          /\ UNCHANGED <<lock, plan, pc, op, tx, sweep, cur, left, redo>>
       \/ /\ Live(t)
          /\ todo' = Passed(p, t)
          /\ cur' = [cur EXCEPT ![p] = t]
          /\ Goto(p, "rlock")
          /\ UNCHANGED <<lock, plan, op, tx, sweep, left, redo>>
       \/ /\ journal[t] = "dir"
          /\ Leave(p)
  /\ UNCHANGED <<files, journal, db, budget>>

FinishRecovery(p) ==
  /\ pc[p] = "scan"
  /\ sweep[p] = {}
  /\ todo[p] = {}
  /\ Goto(p, IF tx[p] = NoTx THEN "parity" ELSE "lock")
  /\ UNCHANGED <<files, lock, store, db, loc, budget>>

LockJournalPaths(p) ==
  /\ pc[p] = "rlock"
  /\ LockNext(p, plan[cur[p]].scope, "decide")
  /\ UNCHANGED <<files, store, db, loc, budget>>

\* Give the locks of the journal back and go on with the scan.
NextJournal(p) ==
  /\ lock' = Released(p)
  /\ cur' = [cur EXCEPT ![p] = NoTx]
  /\ Goto(p, "scan")

\* The commit evidence: the manifest's last state, or the approval's row.  The
\* first form asks the manifest alone.
Committed_Manifest(t) == journal[t] = "committed"
Committed(t) == journal[t] = "committed" \/ \E e \in Event : consumed[e] = t

\* Without the event, a missing row no longer shows that nothing was committed.
Provable_Assumed(t) == TRUE
Provable(t) == Committed(t) \/ evt[plan[t].ev] # "gone"

\* Under the locks: re-read the manifest and the database's evidence; raise
\* instruction_recovery_unproven when it cannot decide.
DecideRecovery(p) ==
  /\ pc[p] = "decide"
  /\ \/ /\ ~Live(cur[p])
        /\ NextJournal(p)
        /\ UNCHANGED <<plan, op, tx, sweep, todo, left, redo>>
     \/ /\ Live(cur[p])
        /\ ~Provable(cur[p])
        /\ Leave(p)
     \/ /\ Live(cur[p])
        /\ Provable(cur[p])
        /\ redo' = [redo EXCEPT ![p] = Committed(cur[p])]
        /\ left' = [left EXCEPT ![p] = plan[cur[p]].scope]
        /\ Goto(p, "rcheck")
        /\ UNCHANGED <<lock, plan, op, tx, sweep, todo, cur>>
  /\ UNCHANGED <<files, journal, db, budget>>

Snapshot_Before(p, q) == plan[cur[p]].before[q]
Snapshot(p, q) == IF redo[p] THEN plan[cur[p]].after[q] ELSE plan[cur[p]].before[q]

\* A file may hold either snapshot; the first form expects the one to restore.
Expected_Final(p, q) == files[q] = Snapshot(p, q)
Expected(p, q) == files[q] \in {plan[cur[p]].before[q], plan[cur[p]].after[q]}

\* instruction_recovery_drift unless the file holds one of the two snapshots.
CheckDrift(p) ==
  /\ pc[p] = "rcheck"
  /\ \E q \in Path :
       /\ IsFirst(q, left[p])
       /\ IF Expected(p, q)
            THEN Goto(p, "rwrite") /\ UNCHANGED <<lock, plan, loc>>
            ELSE Leave(p)
  /\ UNCHANGED <<files, journal, db, budget>>

RestoreTarget(p) ==
  /\ pc[p] = "rwrite"
  /\ \E q \in Path :
       /\ IsFirst(q, left[p])
       /\ files' = [files EXCEPT ![q] = Snapshot(p, q)]
       /\ left' = [left EXCEPT ![p] = @ \ {q}]
       /\ Goto(p, AfterRound(p, q, "rcheck", "rretire"))
  /\ UNCHANGED <<lock, store, db, op, tx, sweep, todo, cur, redo, budget>>

RetireRecovered(p) ==
  /\ pc[p] = "rretire"
  /\ SetJournal(cur[p], "retired")
  /\ Goto(p, "rdelete")
  /\ UNCHANGED <<files, lock, plan, db, loc, budget>>

DeleteRecovered(p) ==
  /\ pc[p] = "rdelete"
  /\ SetJournal(cur[p], "gone")
  /\ NextJournal(p)
  /\ redo' = [redo EXCEPT ![p] = FALSE]
  /\ UNCHANGED <<files, plan, db, op, tx, sweep, todo, left, budget>>

-----------------------------------------------------------------------------
(* FileTransactionCoordinator.apply                                        *)

LockTargets(p) ==
  /\ pc[p] = "lock"
  /\ LockNext(p, plan[tx[p]].scope, "check")
  /\ UNCHANGED <<files, store, db, loc, budget>>

\* _acquire_file_lock gives up after its timeout: instruction_lock_timeout.
LockTimeout(p) ==
  /\ \E r \in Proc \ {p} : Blocked(p, r)
  /\ Leave(p)
  /\ UNCHANGED <<files, journal, db, budget>>

Unchanged_Assumed(t) == TRUE
Unchanged(t) == \A q \in plan[t].scope : files[q] = plan[t].before[q]

\* _assert_unchanged: instruction_drift when a file is not what was planned on.
AssertUnchanged(p) ==
  /\ pc[p] = "check"
  /\ IF Unchanged(tx[p])
       THEN Goto(p, "mkdir") /\ UNCHANGED <<lock, plan, loc>>
       ELSE Leave(p)
  /\ UNCHANGED <<files, journal, db, budget>>

\* _write_journal: the directory and its snapshots, then the manifest.
MakeJournal(p) ==
  /\ pc[p] = "mkdir"
  /\ SetJournal(tx[p], "dir")
  /\ Goto(p, "manifest")
  /\ UNCHANGED <<files, lock, plan, db, loc, budget>>

WriteManifest(p) ==
  /\ pc[p] = "manifest"
  /\ SetJournal(tx[p], "prepared")
  /\ left' = [left EXCEPT ![p] = plan[tx[p]].scope]
  /\ Goto(p, "write")
  /\ UNCHANGED <<files, lock, plan, db, op, tx, sweep, todo, cur, redo, budget>>

\* A failure in between removes the directory, or tries to (ignore_errors).
JournalFails(p) ==
  /\ pc[p] \in {"mkdir", "manifest"}
  /\ Suffer("io")
  /\ \/ pc[p] = "manifest" /\ SetJournal(tx[p], "gone")
     \/ UNCHANGED journal
  /\ Leave(p)
  /\ UNCHANGED <<files, db>>

WriteTarget(p) ==
  /\ pc[p] = "write"
  /\ \E q \in Path :
       /\ IsFirst(q, left[p])
       /\ files' = [files EXCEPT ![q] =
                     IF plan[tx[p]].after[q] # plan[tx[p]].before[q]
                       THEN plan[tx[p]].after[q] ELSE @]
  /\ Goto(p, "verify")
  /\ UNCHANGED <<lock, store, db, loc, budget>>

\* Any exception before the commit restores every file, the last one first.
StartRollback(p) ==
  /\ left' = [left EXCEPT ![p] = plan[tx[p]].scope]
  /\ Goto(p, "rollback")

VerifyTarget(p) ==
  /\ pc[p] = "verify"
  /\ \E q \in Path :
       /\ IsFirst(q, left[p])
       /\ IF files[q] = plan[tx[p]].after[q]
            THEN /\ left' = [left EXCEPT ![p] = @ \ {q}]
                 /\ Goto(p, AfterRound(p, q, "write", "written"))
            ELSE StartRollback(p)
  /\ UNCHANGED <<files, lock, store, db, op, tx, sweep, todo, cur, redo, budget>>

SetFilesWritten(p) ==
  /\ pc[p] = "written"
  /\ SetJournal(tx[p], "files_written")
  /\ Goto(p, "commit")
  /\ UNCHANGED <<files, lock, plan, db, loc, budget>>

\* authorization.consume inserts its row only for a current, unused event.
MayConsume_Again(e) == evt[e] = "current"
MayConsume(e) == evt[e] = "current" /\ consumed[e] = NoTx

\* _update_global_binding_after: the digest of the text just written.
BindingAfter_Stale(r) ==
  IF r.scope = GlobalScope THEN r.before[CHOOSE q \in GlobalScope : TRUE] ELSE binding
BindingAfter(r) ==
  IF r.scope = GlobalScope THEN r.after[CHOOSE q \in GlobalScope : TRUE] ELSE binding

\* The database transaction: the approval's row and the global binding.
CommitDatabase(p) ==
  /\ pc[p] = "commit"
  /\ LET t == tx[p]  r == plan[t] IN
     IF MayConsume(r.ev)
       THEN /\ consumed' = [consumed EXCEPT ![r.ev] = t]
            /\ done' = done \union {t}
            /\ latest' = [q \in Path |-> IF q \in r.scope THEN r.after[q] ELSE latest[q]]
            /\ binding' = BindingAfter(r)
            /\ Goto(p, "flag")
            /\ UNCHANGED left
       ELSE StartRollback(p) /\ UNCHANGED <<consumed, done, latest, binding>>
  /\ UNCHANGED <<files, lock, store, evt, op, tx, sweep, todo, cur, redo, budget>>

\* committed = True: from here on an exception leaves the files alone.
FlagCommitted(p) ==
  /\ pc[p] = "flag"
  /\ Goto(p, "mark")
  /\ UNCHANGED <<files, lock, store, db, loc, budget>>

MarkCommitted(p) ==
  /\ pc[p] = "mark"
  /\ SetJournal(tx[p], "committed")
  /\ Goto(p, "retire")
  /\ UNCHANGED <<files, lock, plan, db, loc, budget>>

RetireJournal(p) ==
  /\ pc[p] \in {"retire", "discard"}
  /\ SetJournal(tx[p], "retired")
  /\ Goto(p, IF pc[p] = "retire" THEN "delete" ELSE "purge")
  /\ UNCHANGED <<files, lock, plan, db, loc, budget>>

DeleteJournal(p) ==
  /\ pc[p] \in {"delete", "purge"}
  /\ SetJournal(tx[p], "gone")
  /\ Leave(p)
  /\ UNCHANGED <<files, db, budget>>

RollbackTarget(p) ==
  /\ pc[p] = "rollback"
  /\ \E q \in Path :
       /\ IsLast(q, left[p])
       /\ files' = [files EXCEPT ![q] = plan[tx[p]].before[q]]
       /\ left' = [left EXCEPT ![p] = @ \ {q}]
       /\ Goto(p, AfterRound(p, q, "rollback", "discard"))
  /\ UNCHANGED <<lock, store, db, op, tx, sweep, todo, cur, redo, budget>>

-----------------------------------------------------------------------------
(* What may go wrong.                                                      *)

\* An I/O failure before the commit (or a SQLite one at it) rolls back.
WriteFails(p) ==
  /\ pc[p] \in TryingSteps
  /\ Suffer("io")
  /\ StartRollback(p)
  /\ UNCHANGED <<files, lock, store, db, op, tx, sweep, todo, cur, redo>>

\* An interrupt between SQLite's commit and the flag finds the flag unset.
InterruptBeforeFlag(p) ==
  /\ pc[p] = "flag"
  /\ Suffer("interrupt")
  /\ StartRollback(p)
  /\ UNCHANGED <<files, lock, store, db, op, tx, sweep, todo, cur, redo>>

\* A failing recovery, rollback or cleanup ends the call; its journal stays.
CallFails(p) ==
  /\ pc[p] \in ScanSteps \union RepairSteps \union {"decide", "rdelete"}
               \union WonSteps \union UndoSteps
  /\ Suffer("io")
  /\ Leave(p)
  /\ UNCHANGED <<files, journal, db>>

\* The process dies; the kernel releases its locks.
Crash(p) ==
  /\ pc[p] # "idle"
  /\ Suffer("crash")
  /\ Leave(p)
  /\ UNCHANGED <<files, journal, db>>

\* Another program writes an instruction file without taking its lock.
ExternalEdit(q, b) ==
  /\ b # files[q]
  /\ Suffer("edit")
  /\ files' = [files EXCEPT ![q] = b]
  /\ latest' = [latest EXCEPT ![q] = b]
  /\ UNCHANGED <<lock, store, evt, consumed, binding, done, pc, loc>>

\* A newer prompt of the session, or seven days, make an event unusable.
Supersede(e) ==
  /\ evt[e] = "current"
  /\ evt' = [evt EXCEPT ![e] = "past"]
  /\ UNCHANGED <<files, lock, store, consumed, binding, done, latest, pc, loc, budget>>

\* _prune: the event goes, and the foreign key takes its consumption along.
Prune(e) ==
  /\ evt[e] = "past"
  /\ evt' = [evt EXCEPT ![e] = "gone"]
  /\ consumed' = [consumed EXCEPT ![e] = NoTx]
  /\ UNCHANGED <<files, lock, store, binding, done, latest, pc, loc, budget>>

-----------------------------------------------------------------------------

Recover(p) ==
  \/ ListJournals(p) \/ SweepRetired(p) \/ OpenJournal(p) \/ FinishRecovery(p)
  \/ LockJournalPaths(p) \/ DecideRecovery(p) \/ CheckDrift(p) \/ RestoreTarget(p)
  \/ RetireRecovered(p) \/ DeleteRecovered(p)

Apply(p) ==
  \/ LockTargets(p) \/ AssertUnchanged(p) \/ MakeJournal(p) \/ WriteManifest(p)
  \/ WriteTarget(p) \/ VerifyTarget(p) \/ SetFilesWritten(p) \/ CommitDatabase(p)
  \/ FlagCommitted(p) \/ MarkCommitted(p) \/ RetireJournal(p) \/ DeleteJournal(p)
  \/ RollbackTarget(p)

\* A started call goes on; it is not obliged to start.
Continue(p) ==
  AssertParity(p) \/ PlanRevision(p) \/ Recover(p) \/ Apply(p) \/ LockTimeout(p)

Fault(p) ==
  \/ JournalFails(p) \/ WriteFails(p) \/ InterruptBeforeFlag(p) \/ CallFails(p)
  \/ Crash(p)

Environment ==
  \/ \E q \in Path, b \in Bytes : ExternalEdit(q, b)
  \/ \E e \in Event : Supersede(e) \/ Prune(e)

Next ==
  \/ \E p \in Proc : Begin(p) \/ Continue(p) \/ Fault(p)
  \/ Environment

Spec == Init /\ [][Next]_vars

FairSpec == Spec /\ \A p \in Proc : WF_vars(Continue(p))

-----------------------------------------------------------------------------
(* Properties.                                                             *)

\* Every variable stays within its type.
TypeOK ==
  /\ files \in [Path -> Bytes]
  /\ latest \in [Path -> Bytes]
  /\ binding \in Bytes
  /\ lock \in [Path -> Proc \union {NoProc}]
  /\ journal \in [Tx -> JournalStates]
  /\ plan \in [Tx -> Plans \union {NoPlan}]
  /\ evt \in [Event -> {"current", "past", "gone"}]
  /\ consumed \in [Event -> Tx \union {NoTx}]
  /\ done \subseteq Tx
  /\ pc \in [Proc -> Steps]
  /\ op \in [Proc -> Ops \union {NoOp}]
  /\ tx \in [Proc -> Tx \union {NoTx}]
  /\ cur \in [Proc -> Tx \union {NoTx}]
  /\ sweep \in [Proc -> SUBSET Tx]
  /\ todo \in [Proc -> SUBSET Tx]
  /\ left \in [Proc -> SUBSET Path]
  /\ redo \in [Proc -> BOOLEAN]
  /\ budget \in [Faults -> Nat]

\* Whatever crashes, failed writes, edits and pruning came before, recovery
\* that is rewriting files goes forward exactly for transactions whose database
\* commit happened (recover, the evidence query and what follows it).
RecoveryDecisionSound ==
  \A p \in Proc : pc[p] \in RepairSteps => (redo[p] <=> cur[p] \in done)

\* An approval authorises one transaction ever, although its consumption row
\* is pruned with the event (consume, _prune).
ApprovalSingleUse ==
  \A t, u \in done : plan[t].ev = plan[u].ev => t = u

Covering(q) == {t \in Tx : Live(t) /\ q \in plan[t].scope}

\* The text the next recovery leaves in a file.
Recovered(q) ==
  IF Covering(q) = {} THEN files[q]
  ELSE LET t == CHOOSE t \in Covering(q) : TRUE
       IN  IF t \in done THEN plan[t].after[q] ELSE plan[t].before[q]

\* What is in a file, or what its journal can bring back, is the last text
\* committed for it: no window between the first write and the deletion of the
\* journal loses a committed text or keeps an uncommitted one.
LastCommitRecoverable == \A q \in Path : Recovered(q) = latest[q]

\* A committed text stays in its file, apart from files some journal still
\* claims.
CommittedTextKept == \A q \in Path : Covering(q) = {} => files[q] = latest[q]

\* Source, target and binding of the global rules agree whenever nobody holds a
\* lock on them and no journal claims them (_update_global_binding_after).
GlobalParity ==
  (\A q \in GlobalScope : lock[q] = NoProc /\ Covering(q) = {})
    => \A q \in GlobalScope : files[q] = binding

\* Locks are waited for in one order, so two processes never wait for each
\* other and the time-out is never what gets them out (lock_paths, sorted).
NoWaitCycle == \A p, r \in Proc : p # r => ~(Blocked(p, r) /\ Blocked(r, p))

\* As long as calls keep being made, a journal whose outcome can still be proved
\* is settled, whatever crashes came before (recover at the start of each call).
\* A directory without a manifest stops every recovery and is excepted.
JournalsSettle ==
  []<>(\E p \in Proc : pc[p] = "list") =>
    \A t \in Tx :
      Live(t) ~> ~Live(t) \/ ~Provable(t) \/ \E u \in Tx : journal[u] = "dir"

\* A call that has started ends, in success or with an error, whatever other
\* calls hold.
CallsEnd == \A p \in Proc : pc[p] # "idle" ~> pc[p] = "idle"

-----------------------------------------------------------------------------
(* The inductive invariants: RecoveryInvariant is behind                   *)
(* RecoveryDecisionSound and ApprovalSingleUse, LockOrder behind           *)
(* NoWaitCycle.                                                            *)

\* Steps at which a process has taken every lock of its transaction, or of the
\* journal it recovers; and those at which its own journal exists.
OwningSteps    == {"manifest"} \union TryingSteps \union {"flag"} \union WonSteps
                    \union UndoSteps
LockedSteps    == {"check", "mkdir"} \union OwningSteps
RecoveredSteps == {"decide", "rdelete"} \union RepairSteps

\* A process that acts on a transaction has its plan, and is alone with it.
Ownership ==
  \A p \in Proc :
    /\ pc[p] # "idle" /\ tx[p] = NoTx => op[p] # NoOp
    /\ pc[p] \in {"parity", "plan"} => tx[p] = NoTx
    /\ pc[p] \in LockedSteps \union {"lock"} => tx[p] # NoTx
    /\ tx[p] # NoTx =>
         /\ plan[tx[p]] # NoPlan
         /\ \A r \in Proc \ {p} : tx[r] # tx[p]
         /\ pc[p] \notin OwningSteps => journal[tx[p]] = "unused"
    /\ pc[p] \in RecoveredSteps \union {"rlock"} =>
         cur[p] # NoTx /\ journal[cur[p]] \notin {"unused", "dir"}

\* The files a loop still has to visit are files of its transaction.
LoopsInScope ==
  \A p \in Proc :
    /\ pc[p] \in {"write", "verify", "rollback"} => left[p] \subseteq plan[tx[p]].scope
    /\ pc[p] \in {"rcheck", "rwrite"} => left[p] \subseteq plan[cur[p]].scope

\* What is done with a file is done under its lock.
LocksHeld ==
  \A p \in Proc :
    /\ pc[p] \in LockedSteps    => \A q \in plan[tx[p]].scope : lock[q] = p
    /\ pc[p] \in RecoveredSteps => \A q \in plan[cur[p]].scope : lock[q] = p

\* How far a journal has come tells whether its transaction has committed.
JournalStages ==
  \A t \in Tx :
    /\ journal[t] # "unused" => plan[t] # NoPlan
    /\ journal[t] \in {"unused", "dir"} => t \notin done
    /\ journal[t] = "committed" => t \in done

\* So does the place where its owner, or the process that recovers it, stands.
ProcessStages ==
  \A p \in Proc :
    /\ pc[p] = "manifest" => journal[tx[p]] = "dir"
    /\ pc[p] \in TryingSteps => tx[p] \notin done /\ Live(tx[p])
    /\ pc[p] \in WonSteps \union {"flag"} => tx[p] \in done
    /\ pc[p] \in UndoSteps => journal[tx[p]] \notin {"unused", "dir"}
    /\ pc[p] \in RepairSteps => Live(cur[p])

Stages == JournalStages /\ ProcessStages

\* The approval rows and the history of commits tell the same story for as long
\* as the event is kept.
Evidence ==
  /\ \A t \in done : consumed[plan[t].ev] = t \/ evt[plan[t].ev] = "gone"
  /\ \A e \in Event : consumed[e] # NoTx =>
       /\ consumed[e] \in done
       /\ plan[consumed[e]].ev = e

\* Locks are held only by calls at work on files, and while a call still collects
\* them it holds the lowest of the files it wants, without a gap.
LockOrder ==
  \A p \in Proc, q \in Path : lock[q] = p =>
    /\ pc[p] \in LockedSteps \union RecoveredSteps \union {"rlock", "lock"}
    /\ pc[p] \in {"rlock", "lock"} =>
         /\ q \in Wanted(p)
         /\ \A r \in Wanted(p) : r < q => lock[r] = p

RecoveryInvariant ==
  /\ TypeOK
  /\ Ownership
  /\ LoopsInScope
  /\ LocksHeld
  /\ Stages
  /\ Evidence
  /\ ApprovalSingleUse
  /\ RecoveryDecisionSound
=============================================================================
