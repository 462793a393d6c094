# Verification of agent-memory-sidecar

agent-memory-sidecar keeps confirmed rules in the instruction files a coding agent reads
(`AGENTS.md` of a project, and a global one that exists twice: a portable source in Git and the
copy the host reads). A rule enters or leaves a file only with an approval the user typed as a
prompt. Around that stand the commands that install the program on a host, carry the instructions
to several hosts, keep a workstation's sources current and publish a release. The modules here state
what the code promises about all this, check it with TLC on small instances, and prove all of it but
the liveness properties with TLAPS for every instance.

Paths are relative to the repository's root; `rule_service.py` stands for
`src/agent_memory_sidecar/rule_service.py`, and likewise for its neighbours; `managed_sources.py` is
the script of `skills/agent-memory-workstation-bootstrap`, `publish_release.py` is in `scripts/`.

## The system

| component | state it keeps | operations | interacts with |
|---|---|---|---|
| File transactions (`rule_service.py`, `FileTransactionCoordinator`) | `transactions/tx_*/` next to the Store: manifest, before and after snapshots | `recover`, `apply` | instruction files under locks, approval rows in the Store |
| Rule service (`rule_service.py`, `RuleService`) | none | `create_proposal`, `deploy`, `deploy_bundle`, `revoke`, `confirm_proposal`, `discard_proposal`, `list` | all of the rows above and below |
| Instruction documents (`instructions.py`, `proposal.py`, `rule_preview.py`) | the instruction files, a lock file for each | `plan_deploy`, `plan_deploy_bundle`, `plan_revoke`, previews; `lock_paths`, `atomic_write`, `restore_file` | called by the service and the synchronization |
| Authorization ledger (`authorization.py`) | `approval_consumptions` | `validate`, `consume` | reads events and sessions of the runtime ledger |
| Runtime ledger (`runtime_ledger.py`) | `prompt_events`, `runtime_sessions`, `proposal_tokens` | `capture_prompt`, `current_event`, `create_proposal`, `pending_for_approval`, `delete_proposal`, `_prune` | written by hooks, read by every approval |
| Runtime hook (`runtime_hook.py`) | none | one call for every prompt and compaction | captures into the ledger; silent during maintenance |
| Installation and setup (`installation.py`, `codex_integration.py`, `runtime_package.py`, `skill.py`) | `runtime_installation`, `global_instruction_binding`, artifact, `hooks.json`, the Skill | `setup`, `doctor`, `bind_global` | the binding says which global files a revision rewrites |
| Store cutover (`core_cutover.py`) | maintenance lock, backup, the Store file | preview, apply, rollback | stops hooks with the lock, replaces the Store |
| Instruction synchronization (`instruction_sync.py`) | its configuration, a recovery journal, source snapshots | `synchronize` | the same files, locks and bindings as a global revision |
| Workstation bootstrap (`managed_sources.py`) | marketplace and plugin, checkouts, Skills, a receipt | `workstation-reconcile`, `source-cutover`, `sync-sources`, `verify_workstation_consumer` | Codex, git, `setup` |
| Release (`publish_release.py`, the tag workflow, `resolve_release.py`) | the GitHub release, receipts, the resolved directory | inspect, apply, resolve | three machines that share only the release |
| Global owner scout (`skills/`), command line, release builders | none that outlives a call | render, validate, build | the components above |

What is hard in it:

* Every command is a process of its own. Several run at once, on the same files and Store, and
  share nothing but file locks, SQLite and the journal directory.
* One revision changes two files, two tables and a journal; a setup changes a Store, an artifact,
  two files and a Skill; a synchronization three things for every host. A process can die after
  each write, and only the first and the last of these have a journal.
* Evidence ages: a newer prompt makes an approval unusable, and `_prune` deletes an event seven
  days old together with the row that says it was used. Recovery decides by that row.
* Editors, Codex, git and the tag workflow change the same things without any lock.

What makes each component right: a revision happens completely or not at all and is not lost
later; an approval works once; recovery restores what the transaction's outcome demands; the
global source, target and binding stay equal; calls end, without waiting for each other in a
circle; a proposal is confirmed only as it was shown; a plan changes nothing outside the managed
block; a setup, a cutover, a synchronization or a reconcile that fails leaves what was there
before; what is reported as installed, ready or published is so. `PROJECT.json` lists the hazards
behind these line by line.

## Modules

| module | models | rests on or is used by |
|---|---|---|
| `FileTransaction` | one approved revision with its journal and recovery | the core |
| `AtomicRevision`, `FileTransactionRefinement` | what it promises; the mapping to it, and the invariants of that refinement | |
| `RuntimeLedger` | prompts, proposals, approvals | the events of `FileTransaction` |
| `RuleDocument` | what a revision plans over a document | the requests of both |
| `InstructionSync`, `AtomicSwitch` | one document on several hosts, and what that promises | |
| `Installation` | `setup` and the Store cutover on a host | |
| `WorkstationReconcile` | distribution, checkouts, Skills and Core of a workstation | `Installation` is one step of it |
| `ConsumerScope` | what the workstation may tell a user is ready | starts from `WorkstationReconcile`'s outcome |
| `ReleasePromotion` | draft, publication and resolution of a release | |
| `MC...` | small instances for TLC | |
| `FileTransactionProofs`, `RuntimeLedgerProofs`, `InstructionSyncProofs`, `InstallationProofs`, `WorkstationReconcileProofs`, `ConsumerScopeProofs`, `ReleasePromotionProofs`, `RuleDocumentProofs` | proofs | |

Operators with an underscore in their name (`Snapshot_Before` beside `Snapshot`) are wrong versions
of their neighbour, each with a mistake the code could have had. They are used nowhere; put in the
neighbour's place, each makes TLC report the property it is kept for.

### FileTransaction

`FileTransaction` is the core: one approved revision, from the approval check to the deletion of
its journal, for any number of processes.

| in the model | in the code |
|---|---|
| `files`, `lock` | the instruction files, and their lock files (`lock_paths`, `_acquire_file_lock`) |
| `journal`, `plan` | a journal directory: absent, `dir` (no manifest yet), the manifest's states, `retired` (renamed to `.cleanup-`), gone; and its snapshots |
| `evt`, `consumed` | an event as `validate` and `consume` see it, and its row in `approval_consumptions` |
| `binding` | the digests of `global_instruction_binding`, as the document they are digests of |
| `pc`, `op`, `tx`, `sweep`, `todo`, `cur`, `left`, `redo` | where a process stands, its request, its transaction, and the loops of `recover` and `apply` |
| `done`, `latest` | history: committed transactions, and the text each file was last committed or edited to |
| `budget` | the faults a behaviour may still have |

An action is one step between two points at which another process, a crash or an edit can come in:
a rename, a file replaced, a database transaction, a lock taken. The `Begin` to `PlanRevision`
steps are `RuleService`; `ListJournals` to `DeleteRecovered` are `recover`, which a call runs twice
(before it plans and at the start of `apply`); `LockTargets` to `RollbackTarget` are `apply`;
`JournalFails` to `Prune` are what may go wrong. A document is an opaque value and a request a
function on documents, so that the model says nothing about the text of rules. Temporary files,
permission checks and the removal of the empty `transactions` directory are left out.

`AtomicRevision` is the promise: all files of a revision's scope change in one step, together with
the binding, and an approval is spent by it. `FileTransactionRefinement` maps the detailed state to
it. The text in force in a file is not what the file holds but what the next recovery would leave
there: the file's own text if no journal claims it, otherwise the journal's `after` or `before`
snapshot, depending on whether the transaction committed. Under that mapping the commit of the
database is the one step that changes anything.

`MCFileTransaction` gives the small instances: a document is the set of rules
it carries, requests deploy a rule or revoke one, files 1 and 2 are the global source and target,
file 3 is a project's.

### RuntimeLedger

`RuntimeLedger` is what an approval rests on: the hooks that record prompts, and the commands that
propose, confirm and discard. It keeps the tables that `FileTransaction` reduces to three states of an
event, and reduces the files to what `FileTransaction` shows of them: one file for each request,
written under its lock, then committed with the approval or put back.

| in the model | in the code |
|---|---|
| `prompt_events`, `runtime_sessions`, `proposal_tokens`, `approval_consumptions` | the tables of those names (`database.py`), as functions from their keys to rows; the sessions are the keys of `proposal_tokens` because of its `UNIQUE (source_session)` |
| `last_pruned`, `clock` | `core_schema.last_pruned_at`, and the time `_timestamp` and `_parse_timestamp` compare |
| `docs`, `lock` | the instruction files and their locks |
| `pc`, `call` | where a process stands, with its arguments and the rows it has read |
| `captured`, `minted` | history: the ids ever given to events and tokens (`uuid4`) |
| `settled` | history: what the last commit left in each file |

`Submit` and `CapturePrompt` are a hook: the scope check of `_identity_for_event`, the time stamp, and
the transaction of `capture_prompt` with `_prune` in it; between the two another hook of the same
session may come first. `Propose`, `ResolveSource` and `InsertToken` are `create_proposal`: the revision
is computed, the event resolved, and the token inserted or refused. `Confirm`, `Validate`,
`PlanRevision`, `WriteTarget` and `CommitApproval` are `confirm_proposal`; `Deploy` enters at the plan;
`Discard` and `FindPending` go straight to the commit. Time may pass between any two of them. A request
is a partial function from texts to texts, which stands for the proposal with the rules it supersedes;
the digests of a token are kept as what they are digests of. Several reads in a row are one step where
the commit repeats them. Left out: the recovery and journals (`FileTransaction` has them), the second
file of a global rule, old tokens that carry no revision, and the `SessionStart` hook, which only reads.

`MCRuntimeLedger` gives its small instances. `EventsOnlyAge` ties the two modules together: it says
that an event goes through the states `FileTransaction` gives it, in its order, and by no other step.

### RuleDocument

A document is a sequence of tokens: line ends of two kinds, a bare carriage return, a user's line, the
two markers, the heading, a rule, which may quote a marker (`Quoting`). CR LF in the bytes is always the one
token CRLF, in every document (`Whole`) and where two pieces of text come together (`Joined`): a text that
ends in a bare carriage return has a CRLF, and other newlines, once an LF follows it. `Separate` says that
inside the block nothing shares a line with the heading or a rule. `Valid`, `RulesOf` and `Outside` are `_parse_document`; `ManagedBlock` and `Replaced` are
`replace_managed_region`, `Fits` is `measure_capacity`; `PlanDeploy`, `PlanBundle` and `PlanRevoke` are the three plans with
their checks, order and budgets; `PreviewRule` and `PreviewBundle` are a review, `ConfirmRule` and
`ConfirmBundle` the confirmation that must find the same base, text and shadowing file. A user edits the bytes, and the override file, between any two steps, so that the plans
meet documents no plan of the program wrote. Rules have an id (by which an item supersedes) and a size, and the limits are small numbers;
what a rule's text says beyond a marker, UTF-8, the rendering of its four lines, and lines of blanks in
place of empty ones are left out. `Without` is the
list comprehension by which the code drops rules or newlines. The assumptions say that the tokens
the parser tells apart are different (a user's line holds no marker, nor a part of one that its neighbours would complete, since a line that
holds one counts as that marker, and a line inside the block that is not the rendering of a rule makes it invalid), that different rules have different
ids, that a bundle has finitely many cards, and that the bounds are numbers. `InTurn` deploys the
items of a bundle in the order of their ids (`ById`), because that is the order the code gives to new rules at the same place.

### InstructionSync

`synchronize()` is a preview and an apply that must see the same; both are here, with the locks, the
second look under them, the snapshot of the source, the journal, and host by host the check, the
write, the registry row and the readback, then the configuration; and the `except` block that goes back over
the hosts touched. A crash may come at every step, a failure wherever the code can raise. Two calls
run at once with an editor, deployments on a bound host and publications of new commits.

| in the model | in the code |
|---|---|
| `file`, `bind`, `store` | each host's `AGENTS.md`, its `global_instruction_binding` row, whether its Store exists |
| `config`, `journal`, `snap` | `instruction-sync.json`, `instruction-sync-recovery.json`, the snapshot directory of each commit |
| `lock`, `call` | the state and target locks (taken together), and each call's plan, host and failures |
| `sealed`, `latest` | history: the journal's call has nothing left to fail; what was last put into a host |

`AtomicSwitch` says that all parts move to a version in one step. `Versions` maps the hosts and the configuration to
it, an unfinished call counted as not begun: what its journal says is what is there.

### Installation

`Order` is the order of the writes of `setup --apply` and `core-cutover --apply` and `UndoOrder` that of
their except blocks; each write has its action, with the failure before or after its effect and the
crash between two of them. A prompt hook checks the maintenance lock and then opens the Store in two
steps. A package version stands for artifact, hook command, Skill and runtime row. The migration
carries events, sessions and consumptions by their own rules, so approvals are followed from the old
Store to the new. The doctor is a predicate over what is on the host.

### WorkstationReconcile and ConsumerScope

`WorkstationReconcile` is a run of one of the three commands, in the order the code takes its parts,
with the exchange of every checkout as its two renames and the except block in its own order. A reconcile
and a cutover refuse, at the exchange, a checkout that changed since the plan
(`source_cutover_plan_stale`, also for a target that should be absent); `sync-sources` alone does not look. Codex
and its user, and git, change what the plan fixed. A command may take effect and report a failure; one that
is not due, because its part is as it should be, is no step and cannot fail.
`ConsumerScope` is the scan after it: the host's catalog, asked for once for all projects within one
deadline, then project by project and Skill by Skill the bytes, and then the pack with the status it gives, against the validator's rules, while Skills are
rewritten, switched or moved.

### ReleasePromotion

Every request to GitHub is a step. The tag workflow deletes and uploads assets one by one and may run
again; `publish_release.py` reads files, source, remote, policy and draft one after another, publishes
by name, and reads back a bounded number of times; `resolve_release.py` downloads piece by piece and
places its directory with one rename. A build stands for the bytes of its archives; a digest is the content it was
taken of. The last of the files read again and the receipt are one step, where the code still asks git for
the tag and compares the statement (`publish_release.py:378-389`): `ReceiptTrue` does not cover a file changed
in that window. GitHub itself is external: a draft may change, a published release becomes immutable some time
later if the policy is on.

## Runs

| run | asks | bounds |
|---|---|---|
| `crash_recovery` | `LastCommitRecoverable`, `GlobalParity`; do crashing calls implement `AtomicRevision`? | 1 process, 2 crashes and 1 I/O failure, 2 transactions, 2 approvals, files 1 and 2 |
| `concurrent_calls` | `NoWaitCycle`; do concurrent calls implement `AtomicRevision`? | 2 processes, 2 files, 2 transactions, no faults |
| `all_faults` | `RecoveryDecisionSound`, `ApprovalSingleUse`, and the inductive `RecoveryInvariant` | 2 processes, one fault of each kind, 1 approval |
| `journals_settle` | `JournalsSettle`: is a journal left by a crash settled by later calls? `CallsEnd`: does every call end? | 2 processes, 1 crash, 2 transactions, 1 approval |
| `ledger` | `ConfirmedAsShown`, `FailedCommitUndone`, `CurrentPromptKept`, `TokensLeave`, `EventsOnlyAge` | 2 processes, 2 sessions in 2 projects with a file in common, 2 prompts, 2 proposals of one rule, time 0 to 3 with windows of 2 |
| `rule_document` | `PlansRoundTrip`, `OutsideKept`, `RevokeUndoesDeploy`, `BundleIsSequence`, `ConfirmsWhatWasShown`, types | 5 rules (one too large, one that quotes a marker), 2 edits by hand, 2 changes by the program |
| `instruction_sync` | `SyncIsAtomic`, `RollbackComplete`, `JournalBlocks`, `ContentKept` | 2 calls, 2 hosts, 3 commits (the third restores the first's text), 1 edit, 1 crash, 1 failure |
| `installation` | `WholeInstallation`, `HooksRunnable`, `SkillKept`, `ApprovalsOnce`, `SetupRepairs` | 2 versions, 2 documents, 2 commands, 3 prompts of which 2 may be in a legacy Store, 1 crash, 1 failure, 1 outside change |
| `workstation_reconcile` | `OldKept`, `ReceiptTrue`, `RetrySucceeds` | 2 releases, 2 owner commits, 2 runs, 2 troubles (a crash, a failure or a change by others) |
| `consumer_scope` | `PackAccepted`, `ReadyIsTrue`, `ReadyWasTrue` | 2 projects, 3 Skills of 2 names, 1 change during the scan |
| `release_promotion` | `ResolvedWhole`, `PublishesThePlan`, `ReceiptTrue`, `CallsEnd` | 1 operator, 1 resolver, 3 builds of 2 commits, 1 further workflow run, 1 change, 2 readbacks |
| `lost_revision` | shows that `CommittedTextKept` does not hold | 2 processes, 1 crash, 2 approvals |

What they show, beyond "it holds":

* `crash_recovery`, `concurrent_calls`: seen through the journals, a revision of two files, the binding
  and the approval is one step whatever the process dies of, or it is nothing. Both cannot be asked
  at once: with a crash *and* a waiting call the answer is `lost_revision`. A call that passed
  `recover` while another was writing waits for its locks; the other dies with its journal
  `prepared`. The waiting call finds its files unchanged and commits, and leaves the stale journal
  behind. The next recovery restores the old text over the committed one.
* `installation`: nothing here is atomic, since there is no journal. What holds is that an
  installation the doctor passes is whole, that the hooks always name an artifact that is there, and
  that one undisturbed `setup` repairs whatever a crash left.
* `instruction_sync`: edits in the instant between a check and the write it allows are lost in the
  code; `ContentKept` excepts exactly these (`InWindow`).
* `workstation_reconcile`: the read-back and the receipt are true when they are written although the
  plan is older than what it was made of; a failed run may stay half undone, and the old checkouts
  are then still there for a retry.

**Bounds.** The faults are bounded by `Budget` or the `Max...` constants. Two crashes are enough for a
crash during the recovery from a crash, which is where a second one differs from the first. Two
processes are enough for one that waits and one that holds; two files, two hosts or two checkouts
for work cut in half. Two requests, one that adds and one that removes, or three commits of which one
goes back, make the texts differ from each other and from the first. In `ledger` two prompts are
enough for one that supersedes the other, in either order of arrival, or for two sessions that prune
each other's rows; two tokens for one that replaces the other; a clock of three lets a row expire on
the boundary and past it. In `installation` a version change needs two commands. `release_promotion`
has a second build of the tagged commit, which shares the source manifest, and a build of another
commit. Wherever a run has fewer transactions than calls could start, calls stop being planned: the
liveness run has as many as its approval and its crash can use up. `CHECK_DEADLOCK FALSE` is there
because the systems may come to rest, when every approval, command or change is used. Symmetry is
used in safety runs only.

**Assumptions of the runs.** `installation` starts one command at a time, as one operator does, and keeps rule commands away
while a command runs (`RulesMeanwhile = FALSE`): with them a rollback may put an older document
back, see below. `workstation_reconcile` has one run at a time. `release_promotion` has one operator and one
resolver, to keep its time; the proofs are for any number of both.

**Fairness.** `FairSpec` of `FileTransaction` assumes weak fairness of the steps of a call that has
started (`Continue`): the code of one process is a straight sequence with bounded loops, and the
operating system runs it. Nothing obliges a call to start, a fault to happen or an approval to age;
`JournalsSettle` therefore says what happens if calls keep being made. A lock that is held by another
call is either released or waited for until `_acquire_file_lock` times out, and both are steps of
`Continue`. `FairSpec` of `ReleasePromotion` assumes the same of an operator's call: each command it
runs has a time-out, and the readback counts its attempts. The other modules state no liveness.

## Proofs

Proved for every value of the constants, from the assumptions named in the modules:

| module | theorem | states |
|---|---|---|
| `FileTransactionProofs` | `TypeCorrect` | `Spec => []TypeOK` |
| | `InvariantHolds` | `Spec => []RecoveryInvariant` |
| | `RecoverySound` | recovery that rewrites files goes forward exactly for committed transactions |
| | `SingleUse` | no two transactions ever had the same approval |
| | `NoDeadlock` | no two calls wait for each other |
| | `CommitsAreRecoverable` | `LastCommitRecoverable` without edits and interrupts, if `NoStaleJournal` holds |
| | `GlobalFilesInParity` | `GlobalParity` under the same, if no project scope touches a global file (`ScopesApart`) |
| | `RevisionsAreAtomic` | the refinement of `AtomicRevision` under the same |
| | `OneCallerMeetsNoJournal` | `NoStaleJournal`, whatever fails or crashes, where one call runs at a time |
| | `LocksKeepJournalsApart` | `NoStaleJournal` for any number of calls none of which dies |
| | `CrashesAreAtomic`, `ConcurrentCallsAreAtomic` | the two together: what `crash_recovery` and `concurrent_calls` check |
| `RuntimeLedgerProofs` | `LedgerTypeCorrect`, `LedgerHolds` | types, and `LedgerInvariant` |
| | `CurrentPromptSurvives` | a session that is there has its current prompt, of its scope and time |
| | `FailedTextUndone` | a file nobody has locked holds what the last commit left |
| | `ProposalsStay` | a proposal goes by expiry, replacement or its own approval |
| | `ConfirmationAsShown` | a confirmation commits what was announced over what it was announced for |
| | `EventsAge` | what `FileTransaction` assumes of events |
| `InstructionSyncProofs` | `Inductive`, `SyncTypeCorrect` | `SyncInvariant`, and types |
| | `SyncImplementsSwitch` | `Spec => SyncIsAtomic`: the refinement of `AtomicSwitch` |
| | `HostsInStep` | every host is at the commit the configuration names |
| | `JournalGuards` | only its writer removes a journal, and nobody else writes rows or configuration meanwhile |
| | `RollbackRestores` | a removed journal left everything as it says |
| | `TextIsKept` | what a host was last given is there, or in the journal of the call that replaced it |
| `InstallationProofs` | `TypeCorrect` | `Spec => []TypeOK` |
| | `HooksStayRunnable` | the hooks name an artifact that is there |
| | `SkillIsKept` | a Skill that is there is replaced only by another |
| | `ApprovalsAreUsedOnce` | no Store accepts a used approval, if `RulesMeanwhile = FALSE` |
| | `InstallationStaysWhole` | what succeeded, or was undone on a whole host, is whole |
| | `SetupsRepair` | a setup nothing disturbs succeeds |
| `WorkstationReconcileProofs` | `ReconcileTypeCorrect` | types |
| | `CheckoutsAreKept` | a checkout is in place or aside until its run has committed |
| | `ReceiptsAreTrue` | the receipt is true of every part nobody changed since it was looked at |
| | `RetriesSucceed` | a run nothing disturbs is not rolled back, whatever it found |
| `ConsumerScopeProofs` | `ConsumerTypeCorrect` | types |
| | `PacksAreAccepted` | the validators accept every scope and pack that is built |
| | `ReadyIsSo` | ready after an undisturbed scan: every project loads exactly the release |
| | `ReadyWasSo` | ready after any scan: every loaded Skill was once read as the release's |
| `RuleDocumentProofs` | `DocumentAndReviewAreTyped` | types, and no CRLF in two pieces; what a review shows is valid and within the budget |
| | `PlansPassTheirOwnChecks` | a plan that fits is refused by its own checks exactly when it would be misread; a revocation never is |
| | `RevokeRestoresTheBytes` | deploying the first rule and revoking it gives back every byte |
| | `ProgramKeepsOutsideBytes` | the program changes a document only where its block is |
| | `ConfirmationsWriteTheReview` | a confirmation writes what was shown, on what it was shown for |
| | `BundlesEqualTheirItemsInTurn` | a bundle of new rules is its items deployed one at a time |
| `ReleasePromotionProofs` | `Inductive`, `PromotionTypeCorrect` | `PromotionInvariant`, and types |
| | `ResolutionWhole` | a resolution is one whole build of the tag's commit |
| | `PublicationAsPlanned` | an undisturbed publication is the approved plan |
| | `ReceiptSound` | a receipt is true when it is written |

**Files.** `RecoveryDecisionSound` is not inductive. Recovery decides once, under the locks, and what it
decided must stay true until it has renamed the journal: so no other process may commit that
transaction meanwhile (`Ownership`: a transaction has one owner; `LocksHeld`: the owner that could
commit and the recoverer would hold the same lock), the decision must have been right (`Evidence`: a
consumption row is there for exactly the committed transactions whose event is kept;
`JournalStages`: a manifest says `committed` only after the commit), and the journal must still be
live (`ProcessStages`). `RecoveryInvariant` is the conjunction. The proof has a lemma for each
action; calls that end without having changed anything, by an error, a time-out or a crash, are one
case, `LeavingKeeps`. `ApprovalSingleUse` follows from `Evidence` at the commit: an event that is
still current and unused belongs to no committed transaction. Assumed: paths are numbers, scopes are
non-empty sets of paths, requests map texts to texts, null values stand outside the sets they
complete.

`LockOrder` says that a call collecting its locks holds the lowest of those it wants, without a gap.
Each of two calls waiting for each other would then miss a lower file than the one it holds for the
other (`OrderExcludesCycles`). It is inductive together with `RecoveryInvariant`, which says that the
plan a lock was taken for does not change.

The refinement of `AtomicRevision` needs more, `RevisionInvariant`. Seen through the mapping every
step but `CommitDatabase` must leave the text in force alone; this is so because the mapping then
equals the history variable `latest`, and the invariant says what keeps them equal. `TextKept`: a file no
journal claims is as last committed, and the journal that claims one holds that text on the side the
evidence decides for. `LiveDisjoint`: no two live journals claim one file, without which "the"
journal of a file would mean nothing. `JournalKept`: from its manifest to its end a transaction's
journal is live, and no longer. `ApplyProgress` and `RecoverProgress` say how far the loops over the
files have come, so that at the moment a journal is given up all its files are on the right side.
`PlansAreRequests`: a plan makes one document out of one document, which is what the abstract step
asks of it. TLC checked the invariant on the instances of `crash_recovery`, `concurrent_calls` and
`lost_revision` before it was proved. The hypotheses are these:

* No edits behind the locks and no interrupts (`Budget["edit"]` and `Budget["interrupt"]` are 0).
  `AtomicRevision` has no step for an edit, and the interrupt between commit and flag is a deviation, see below.
* `NoStaleJournal`: no call writes its manifest while another journal claims one of its files. This
  is exactly what `lost_revision` violates. It is a hypothesis on the behaviour, not on a
  constant, and two theorems discharge it. Where one call runs at a time, recovery has settled every
  journal before a call plans and again before it writes (`Cleared`). Where no call dies, a live
  journal belongs to a running call that holds the locks of its files (`Owned`).
* `ScopesApart`, for `GlobalParity` only: the file of a project is not one of the two global files.

**Ledger.** `LedgerInvariant` adds to the properties what they rest on: no row is stamped with a time
to come (`StampsPast`), foreign keys refer and ids are not given twice (`RowsRefer`), and what each
call has read still fits (`CallsFit`). A confirmation holds a row it read long before its commit.
`TokenFits` says that if a token of that id is still there, it is that row, in the session of the
approving prompt; `FileFits` that nothing was committed to the file since it was compared under the
lock. So when the commit finds the id, everything that was checked on the row before holds of the
table now. `CurrentPromptKept` needs `SessionTTL <= EventTTL`, an assumption of the module: a session
and its prompt carry the same time, so a prune that leaves the session leaves the prompt. All changes
of the tables by a capture, with or without a prune, are stated once, in `CaptureEffect`.

**Synchronization.** The refinement needs to know, at the one step that shows (`Seal`), that every
host has been moved, and at the one that gives up its journal (`UndoEnd`), that every host is back.
`SyncInvariant` says so for each position of a call: the hosts before it have the new row and those
after it are as in the journal (`ForwardFits`); on the way back the hosts above it are as in the
journal, those remembered as failed excepted (`BackFits`); the journal is the call's own and holds
its plan (`JournalFits`), because what the plan read was found again under the locks (`SeenFits`).
Everything else a call writes is hidden behind its journal (`Covered`), and other calls keep away
because they have no lock (`MoveKeeps`). `ContentKept` needs more, `ContentInvariant`: which text is
in which host between a write and its readback, and that a host of another text than the journal's or
the plan's was given it by a user. A call tells by comparing bytes whether a text is its own. This is why
`EditsAssumption` says that no user types a published document by hand: such a copy would be
taken for the call's own and rolled back. Assumed besides: the enrolled targets list every host once,
the bounds are numbers, the null values stand outside their sets.

**Installation.** The invariants are layers, each proved from those before it. `TypeOK` contains that a
command is only at a step of its own order or undo order. `HooksFit`: past the artifact's step
the artifact is there, and so is that of the hooks a rollback would put back. `SkillFits` says at
each step of the exchange which of the two copies exists; the property follows, because `drop` comes
after the new copy is in place. `SetupStore` and `CutoverStore` say which Store a command works on:
a setup's own or the one it found, a cutover's copy until it replaces the legacy one. On them rest
`ApprovalsFit` (every Store that could come into use remembers the approvals that were spent, or,
if it is a legacy Store whose consumptions were lost, doubts all events up to then), `WholeFits` (a
command that began on a whole host can still put that back: what it began with was whole, and each
part its undoing has passed is as at the start) and `RepairFits` (what an undisturbed setup has brought to its version so
far, and that only a fault or a disturbance leads into the undoing). `ApprovalsAreUsedOnce` has
the hypothesis `RulesMeanwhile = FALSE`: a rule command between a cutover's replacement and its
rollback spends an approval in a Store that the rollback discards, and the legacy Store put back does
not know of it. The code keeps hooks away meanwhile, and not rule commands. The other five need no
such hypothesis.

**Workstation.** `QueueFits` ties the queue of checkouts to those already set aside, so that no
checkout is exchanged twice. `KeptFits` says where the checkout a run found is: in place,
aside, or stray after a rollback that failed. `PlanFits` and `ReceiptFits` follow what has been
looked at again since the plan was made: `late` holds the parts that were not, or that others
changed since, and the receipt is true of the rest. For `RetrySucceeds` a run without a failure and without
a change by others (`Calm`) has to know the whole host at each step, part by part in the
order of its commands: `CalmSources`, `CalmDistribution`, `CalmHost`. What earlier runs left behind
enters only through the plan, so nothing is assumed of it. Assumed: releases, Owner commits
and the marks for absent or unreadable parts are different values, the bounds are numbers.

**Consumers.** The actions are nine kinds of steps (`StepKinds`): nothing moves, a scan begins, the
catalog comes, a project opens, an entry is read or noted, a project ends, the pack is built, the
host changes. Each invariant is kept by each kind. `CursorFits` and `CatalogFits` say where the
scan stands and what its catalog lists, `HeldFits` that the history has seen the released
bytes wherever they are. `RowsFit` says of every row what it was read from, and `ProjectsFit` of
every project in the result that its rows are those of its catalog, in the inventory's order, with
none left out unless some project is bounded. An exact scope therefore has every project, each
with one enabled entry of each name, read as exact; this is `ReadyReads` and `ReadyRows`, from which
both properties follow. `PackFits` is what is kept of the pack. Assumed: the inventory lists each
project once, a catalog each directory, and the product ships at least one name. An empty
inventory is among the cases.

**Documents.** These are theorems about documents, bundles and lists of rules of every length. The
induction they need is done on sets of numbers: a set of naturals that holds 0, and n + 1 with n, is
all of them (`Induction`, from the library's fact that `<` on the naturals is well-founded). So
a recursive function is first shown to exist and to satisfy its equations, and then what it computes
is shown for one length after another: `Without` keeps the order and exactly the other elements,
`FlattenSeq` puts the entries of a block one after another. `Marked` describes a document by
the text before, between and after its two markers. From it follows what parsing finds: the two
places, the body, and the region with the blank line before and the newline after it that belong to
the block. A block that was written contains no other marker and nothing but the heading, the rules
and newlines (`Between`), and so reads back as those rules (`Reads`); what `Replaced` puts around it is
what `Outside` finds. Two plans are the exception (`Misread`): one with a rule that quotes a marker, which the
document would then hold twice, and the first block of a text without CRLF that ends in a bare carriage
return, which the blank line's LF would make one. `MisreadFails` shows that these are always refused, and
`PlansRoundTrip` that no other plan within the budgets is; the bytes above and below a block come together
only where the block leaves (`Joined`), and stay `Whole`. `OutsideKept` and `RevokeUndoesDeploy` say this
of a step and of two plans in a row. `DocumentInvariant` is short: the types, and that a review is a plan that was made on
the bytes it keeps (`ReviewOK`). It is what a confirmation rests on: equal tokens mean equal items,
and equal bytes the same plan. For `BundleIsSequence` the rules of a
bundle are seen with their places. `Combined` is the one enumeration of the placed rules by place
and then id (`Enumerates`). One more item, of a higher id than those before it, goes to the place
where its deployment would put it: to the
place of the first rule it supersedes, which no other item supersedes, or to the end. `Turns` are the
rules left deployment by deployment, and each equals the bundle of the items so far.

**Release.** `PromotionInvariant` says that GitHub holds only the workflow's builds of the tag
(`OnlyTagged`), what each call still knows of the draft and of the lock (`CallFits`: a call whose
draft changed after it read it is marked as raced), and that what a resolver checked is locked
(`ResolutionFits`, `OutputFits`). Assumed: at least one build of the tag exists and builds have commits.

Only model-checked: the liveness properties `JournalsSettle` and `CallsEnd` of both modules, since
the proof system handles neither fairness nor `ENABLED`. Every other property of a passing run is a
theorem, some under hypotheses that the run's constants satisfy and that are named above. The
library's induction theorems take an operator as a parameter and cannot be used here; the induction
over data in `RuleDocumentProofs` goes through sets instead. RECURSIVE operators would be out of
reach, and none is used.

## Known deviations

Where the code does otherwise than its documents say, or than one would expect. The first is the
finding of `lost_revision`; the models behave as the code does in the others as well, and their
properties are stated around them.

* A stale journal undoes a committed revision (`rule_service.py:389`), see `lost_revision` above.
* An interrupt between SQLite's commit and `committed = True` (`rule_service.py:416`) sends a committed
  revision into the rollback branch.
* A crash between `mkdir` and the manifest (`rule_service.py:464`) leaves a directory on which every later
  mutation fails. `JournalsSettle` excepts it. A `recover` that lists a live transaction's directory
  before its manifest is there fails the same way (`:197`), and one that removes the empty parent races
  with a new one (`:328`).
* A rollback in the same process writes the old bytes over an edit made since the check
  (`rule_service.py:425`), where `recover` would have noticed.
* A project whose folder is that of the global source or target has the same `AGENTS.md`
  (`instructions.py:263`). A project rule deployed there changes that file without its twin and the binding.
* Once the event of an unfinished transaction is pruned nothing can prove its outcome, and recovery
  refuses it for good (`rule_service.py:242`).
* A proposal past its 24 hours that no hourly prune has deleted makes `create_proposal` answer
  `proposal_pending` (`runtime_ledger.py:238`; `docs/specs/interface.md:256`), although it can be neither
  confirmed nor discarded. Its expiry is read when a confirmation starts and not again at its commit
  (`rule_service.py:642`), and any prompt of its session may confirm it (`:744`).
* `bind_global` and `setup` change the binding without the locks of the files it describes
  (`installation.py:203`), and `_update_global_binding_after` keeps the root and commit it finds
  (`rule_service.py:958`).
* A rule whose text holds a marker cannot be deployed: its plan fails its own round trip
  (`instructions.py:900`). So does the first rule for a document without CRLF that ends in a bare carriage
  return (`:694-697`): it must be given a newline by hand first.
* The maintenance lock is a file that a crash leaves behind (`core_cutover.py:810`); a hook that checked
  it before may open the Store being replaced (`runtime_hook.py:88`).
* `hooks.json` and the host's `AGENTS.md` are rewritten from what was read before
  (`codex_integration.py:230`, `:186`, `:245`): an edit in between is lost.
* A crash while a snapshot is copied leaves half of one, on which later calls stop
  (`instruction_sync.py:273`); the rollback that removes a Store it created takes with it what a
  hook wrote there (`:317`).
* A read-back that fails after core setup restores distribution, Skills and checkouts and leaves the
  Core and its binding new (`managed_sources.py:1158`; `docs/specs/topology.md:184`). What Codex's user did to
  the distribution during a run is overwritten by its undoing (`:1224`, `:1183`).
* A publication that times out may still happen (`publish_release.py:324`); the call reports a failure
  and a later inspection finds the release published.

## Not modelled

* The command line: parsing and printing around the components above; one call of it is one call of
  theirs.
* Identity and file security: path resolution and permission checks are reads of the operating
  system without state of their own; where they refuse, the models have a failing call.
* The Global owner scout: reports are read, validated and rendered by pure functions of one process;
  no state is kept between calls, and what is checked is the shape of JSON.
* The release builders: one process that runs tools and writes archives into a directory of its own,
  removed on failure.
* Within the modelled components: redaction and formatting, the texts of rules, SQLite's pragmas, the
  enrollment profiles and legacy manifests of the bootstrap skill, the inspection of archives.

## What is left

1. `RuntimeLedger` composed with the commit of `FileTransaction`, in place of its three event states, and
   proposals for the two global files.
2. Rule commands during a setup or cutover (`RulesMeanwhile = TRUE`) with what then still holds.
3. Two operators of one release, and two runs of a reconcile at once.
