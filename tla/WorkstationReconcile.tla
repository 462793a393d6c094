------------------------ MODULE WorkstationReconcile ------------------------
(***************************************************************************)
(* What managed_sources.py changes on a workstation: Codex's marketplace   *)
(* and plugin, the managed checkouts, the installed Skills and, through    *)
(* `setup`, the Core and its Owner binding.  `workstation-reconcile` shows *)
(* a plan, applies it by its hash, and keeps every rollback until a final  *)
(* readback; `source-cutover` is the same without the distribution and the *)
(* readback; `sync-sources` exchanges the checkouts only.  There is no     *)
(* journal: an exception is undone, a crash is not.                        *)
(*                                                                         *)
(* A release stands for its tag, commit, plugin, Skills and Core.  The     *)
(* Core's own transaction is Installation; here setup is one step.         *)
(***************************************************************************)
EXTENDS Naturals, Sequences, FiniteSets, SequencesExt

CONSTANTS
  Release,     \* releases a manifest may name
  Owner,       \* commits of the canonical Owner repository
  MaxRuns, MaxTroubles,   \* bounds: runs; crashes, failures and changes by others
  None

ASSUME BoundsAssumption ==
  /\ {MaxRuns, MaxTroubles} \subseteq Nat
  /\ None \notin Release \union Owner /\ Release \intersect Owner = {}
  /\ {"off", "unreadable", "gone"} \intersect (Release \union Owner \union {None}) = {}

Source == {"sidecar", "owner"}
Skill == {"bootstrap", "scout"}
Part == {"market", "plugin", "core", "bind"} \union Source \union Skill

VARIABLES
  host,      \* what is installed, part by part
  shown,     \* the plan a dry run printed last
  run,       \* the last run that passed its checks
  strays,    \* checkouts left aside by a run that died or could not clean up
  receipt,   \* source-cutover-receipt.json
  count

vars == <<host, shown, run, strays, receipt, count>>

-----------------------------------------------------------------------------
(* The order of a run and of its except block.                             *)

\* (mutant) the copies aside are removed before the receipt is written.
Order_EarlyCleanup ==
  [reconcile |-> <<"clone", "recheck", "unplug", "unmarket", "market", "plug", "snapshot",
                   "bootstrap", "scout", "setup", "verify", "cleanup", "receipt">>,
   cutover   |-> <<"clone", "recheck", "snapshot", "bootstrap", "scout", "setup", "cleanup",
                   "receipt">>,
   sync      |-> <<"clone", "cleanup">>]

Order ==
  [reconcile |-> <<"clone", "recheck", "unplug", "unmarket", "market", "plug", "snapshot",
                   "bootstrap", "scout", "setup", "verify", "receipt", "cleanup">>,
   cutover   |-> <<"clone", "recheck", "snapshot", "bootstrap", "scout", "setup", "receipt",
                   "cleanup">>,
   sync      |-> <<"clone", "cleanup">>]
UndoOrder == <<"undoPlug", "undoMarket", "redoMarket", "redoPlug", "undoScout",
               "undoBootstrap", "undoSources">>
Swapping == {"aside", "place"}
Ended == {"done", "undone", "broken", "crashed"}
Steps(s) == {s[i] : i \in DOMAIN s}

Following(s, pc, end) ==
  LET i == CHOOSE j \in DOMAIN s : s[j] = pc IN IF i = Len(s) THEN end ELSE s[i + 1]

\* The sources are exchanged one by one after they are all cloned.
NextPc(r) ==
  CASE r.pc = "aside" -> "place"
    [] r.pc \in {"clone", "place"} ->
         IF r.queue # <<>> THEN "aside" ELSE Following(Order[r.op], "clone", "done")
    [] r.pc \in Steps(UndoOrder) ->
         Following(UndoOrder, r.pc, IF r.broken THEN "broken" ELSE "undone")
    [] OTHER -> Following(Order[r.op], r.pc, "done")

At(pc) == run.pc = pc
Running == run.pc \notin Ended

\* A run that failed keeps what it found and met; one that succeeded, nothing.
Closed(r) == [r EXCEPT !.plan = None, !.queue = <<>>, !.swapped = <<>>, !.copies = None,
                       !.aside = [n \in Source |-> None], !.external = FALSE, !.late = {},
                       !.found = FALSE]
Done(r) == [Closed(r) EXCEPT !.before = host, !.touched = {}, !.fault = FALSE]
Go(r) == run' = LET s == [r EXCEPT !.pc = NextPc(r)] IN
                  IF s.pc = "done" THEN Done(s) ELSE IF s.pc \in Ended THEN Closed(s) ELSE s
Abort(r) == run' = [r EXCEPT !.pc = UndoOrder[1]]
Set(p, v) == host' = [host EXCEPT ![p] = v]

Init ==
  /\ \E r \in Release : \E o \in Owner \union {None} :
       \/ host = [p \in Part |-> None]
       \/ \E m \in {r, None} :
            host = [p \in Part |-> IF p \in {"owner", "bind"} THEN o
                                  ELSE IF p \in {"market", "plugin"} THEN m ELSE r]
  /\ shown = None /\ strays = {} /\ receipt = None
  /\ run = [op |-> "sync", plan |-> None, pc |-> "done", queue |-> <<>>, swapped |-> <<>>,
            aside |-> [n \in Source |-> None], copies |-> None, external |-> FALSE,
            found |-> FALSE, fault |-> FALSE, broken |-> FALSE, touched |-> {}, late |-> {},
            before |-> host]
  /\ count = [run |-> 0, trouble |-> 0]

-----------------------------------------------------------------------------
(* Plans.                                                                  *)

\* A marketplace checkout is a release, clean and with its own metadata, or not to be trusted.
Checkouts == Release \union {"unreadable"}

\* observe_distribution: a release whose checkout or cache bears it out, nothing, a plugin
\* turned off, or what cannot be trusted.
Observable(p) == Checkouts \union {None} \union (IF p = "plugin" THEN {"off"} ELSE {})

\* load_desired_bundle: what the manifests of a release make of every part of the host.
DesiredBundle(want) == [p \in {"market", "plugin", "core"} \union Skill |-> want]

\* _preserved_owner_identity: a manifest without Owner keeps an exactly bound one.
Ambiguous(spec) == spec = None /\ host.owner # host.bind
DesiredOwner(spec) == IF spec = None THEN host.owner ELSE spec

\* (mutant) the plugin is not read back.
DistributionExact_Market(want) == host.market = want

\* No global binding: a Core without an Owner.
PublicCore == host.bind = None

\* The distribution is what the release manifest names.
DistributionExact(want) ==
  \A p \in {"market", "plugin"} : host[p] = DesiredBundle(want)[p]
\* Both installed Skills hash to the bytes of the release.
SkillsExact(want) == \A s \in Skill : host[s] = DesiredBundle(want)[s]

\* _host_is_exact over a fresh observation: Doctor, binding, Core and both Skills.
DoctorOk == host.core \in Release /\ (host.bind # None => host.bind = host.owner)
HostExact(want, owner) ==
  /\ host.sidecar = want /\ DoctorOk /\ host.core = DesiredBundle(want).core
  /\ PublicCore <=> (owner = None)
  /\ SkillsExact(want)

\* What a plan holds of the checkouts.
SourcePlan == [n \in Source |-> host[n]]

PlanOf(want, spec) ==
  LET owner == DesiredOwner(spec)
      noop == host.sidecar = want /\ host.owner = owner
  IN [want |-> want, spec |-> spec, owner |-> owner, market |-> host.market,
      plugin |-> host.plugin, sources |-> SourcePlan,
      exact |-> noop /\ HostExact(want, owner)]
Blocked(p) == p.market = "unreadable" \/ p.plugin \in {"unreadable", "off"}

\* (mutant) only a missing marketplace is due.
TouchesMarket_Missing(p) == p.market = None

\* What a plan says of the marketplace and the plugin.
TouchesMarket(p) == p.market # p.want
TouchesPlugin(p) == TouchesMarket(p) \/ p.plugin # p.want

\* --dry-run, between runs; the plan stays good until another is shown or one is applied.
Inspect(want, spec) ==
  /\ ~Running /\ count.run < MaxRuns /\ shown = None
  /\ ~Ambiguous(spec) /\ shown' = PlanOf(want, spec)
  /\ UNCHANGED <<host, run, strays, receipt, count>>

Started(op, p) ==
  [op |-> op, plan |-> p, pc |-> Order[op][1], queue |-> <<>>, swapped |-> <<>>,
   aside |-> [n \in Source |-> None], copies |-> None, external |-> FALSE,
   found |-> FALSE, fault |-> FALSE, broken |-> FALSE, touched |-> {}, late |-> Part,
   before |-> host]
Begin ==
  /\ ~Running /\ count.run < MaxRuns
  /\ count' = [count EXCEPT !.run = @ + 1]
  /\ UNCHANGED <<host, strays, receipt>>

\* --apply --plan-hash: everything is read again and must make the plan shown.
Apply(op) ==
  /\ shown # None /\ ~Ambiguous(shown.spec)
  /\ LET fresh == PlanOf(shown.want, shown.spec) IN
       /\ IF op = "reconcile" THEN shown = fresh /\ ~Blocked(fresh)
                              ELSE shown.sources = fresh.sources /\ shown.owner = fresh.owner
       /\ run' = Started(op, fresh)
  /\ shown' = None
  /\ Begin

\* sync-sources, from a manifest that pins no commit.
Sync(want, spec) ==
  /\ run' = Started("sync", [PlanOf(want, spec) EXCEPT !.owner = spec])
  /\ shown = None /\ shown' = None
  /\ Begin

-----------------------------------------------------------------------------
(* The checkouts.                                                          *)

Named(p) == IF p.spec = None THEN <<"sidecar">> ELSE <<"sidecar", "owner">>
Want(p, n) == IF n = "sidecar" THEN p.want ELSE p.spec

\* Every source that differs is cloned to a staging directory and inspected.
Clone ==
  /\ At("clone")
  /\ LET Due(n) == IF host[n] # Want(run.plan, n) THEN <<n>> ELSE <<>> IN
       Go([run EXCEPT !.queue =
             Due("sidecar") \o (IF run.plan.spec = None THEN <<>> ELSE Due("owner"))])
  /\ UNCHANGED <<host, shown, strays, receipt, count>>

\* The old checkout is moved aside: a reconcile and a cutover give up where it is no
\* longer the one of the plan, sync-sources does not look.
MoveAside ==
  /\ At("aside")
  /\ LET n == Head(run.queue) IN
       IF run.op # "sync" /\ host[n] # run.plan.sources[n]
         THEN Abort(run) /\ UNCHANGED host
         ELSE /\ Set(n, None)
              /\ Go([run EXCEPT !.aside[n] = host[n], !.swapped = Append(@, n)])
  /\ UNCHANGED <<shown, strays, receipt, count>>

Place ==
  /\ At("place")
  /\ LET n == Head(run.queue) IN
       /\ Set(n, Want(run.plan, n))
       /\ Go([run EXCEPT !.queue = Tail(@)])
  /\ UNCHANGED <<shown, strays, receipt, count>>

\* The sources that were not exchanged must be those of the plan still.
Recheck ==
  /\ At("recheck")
  /\ IF /\ \A n \in Source : ~Contains(run.swapped, n) => host[n] = run.plan.sources[n]
        /\ ~Ambiguous(run.plan.spec)
       THEN Go(run) ELSE Abort(run)
  /\ UNCHANGED <<host, shown, strays, receipt, count>>

-----------------------------------------------------------------------------
(* The distribution, through the Codex command line.                       *)

\* Codex removes what is there, adds what is not, and takes a plugin from a marketplace.
Accepts(p, v) ==
  IF v = None THEN host[p] # None
  ELSE host[p] = None /\ (p = "plugin" => host.market \in Release)

\* The commands of an exchange, and those of its compensation, in their order; the
\* compensation looks at the distribution once, before its first command.
Command(r) ==
  LET was == r.plan IN
  CASE r.pc = "unplug"     -> [part |-> "plugin", to |-> None,
                               due |-> TouchesPlugin(was) /\ was.plugin # None]
    [] r.pc = "unmarket"   -> [part |-> "market", to |-> None,
                               due |-> TouchesMarket(was) /\ was.market # None]
    [] r.pc = "market"     -> [part |-> "market", to |-> was.want, due |-> TouchesMarket(was)]
    [] r.pc = "plug"       -> [part |-> "plugin", to |-> host.market, due |-> TouchesPlugin(was)]
    [] r.pc = "undoPlug"   -> [part |-> "plugin", to |-> None,
                               due |-> TouchesPlugin(was) /\ host.plugin \in Release \union {"off"}]
    [] r.pc = "undoMarket" -> [part |-> "market", to |-> None,
                               due |-> TouchesMarket(was) /\ r.found]
    [] r.pc = "redoMarket" -> [part |-> "market", to |-> was.market,
                               due |-> TouchesMarket(was) /\ was.market # None]
    [] r.pc = "redoPlug"   -> [part |-> "plugin", to |-> host.market,
                               due |-> TouchesPlugin(was) /\ was.plugin # None]

Commands == {"unplug", "unmarket", "market", "plug"}
Compensation == {"undoPlug", "undoMarket", "redoMarket", "redoPlug"}

Distribute ==
  /\ run.pc \in Commands
  /\ LET c == Command(run) IN
       IF ~c.due THEN Go(run) /\ UNCHANGED host
       ELSE IF Accepts(c.part, c.to)
         THEN Set(c.part, c.to) /\ Go([run EXCEPT !.external = TRUE])
         ELSE Abort([run EXCEPT !.external = TRUE]) /\ UNCHANGED host
  /\ UNCHANGED <<shown, strays, receipt, count>>

\* A failed compensation is remembered, and the rest of the rollback goes on.
Forgo(r) == [r EXCEPT !.broken = TRUE, !.pc = "redoPlug"]
Restored(h) == h.market = run.plan.market /\ h.plugin = run.plan.plugin

Compensate ==
  /\ run.pc \in Compensation
  /\ LET c == Command(run) IN
       IF ~run.external THEN Go([run EXCEPT !.pc = "redoPlug"]) /\ UNCHANGED host
       ELSE IF c.due /\ ~Accepts(c.part, c.to)
         THEN Go(Forgo(run)) /\ UNCHANGED host
         ELSE /\ host' = IF c.due THEN [host EXCEPT ![c.part] = c.to] ELSE host
              /\ Go([run EXCEPT !.broken = At("redoPlug") /\ ~Restored(host'),
                                 !.found = IF At("undoPlug") THEN host.market \in Release ELSE @])
  /\ UNCHANGED <<shown, strays, receipt, count>>

-----------------------------------------------------------------------------
(* materialize_host.                                                       *)

SnapshotSkills ==
  /\ At("snapshot")
  /\ Go([run EXCEPT !.copies = [s \in Skill |-> host[s]]])
  /\ UNCHANGED <<host, shown, strays, receipt, count>>

\* The checkouts are inspected once more, before the first installation.
Inspected(p) ==
  /\ \A n \in ToSet(Named(p)) : host[n] = Want(p, n)
  /\ p.spec = None => (IF p.owner = None THEN PublicCore ELSE ~Ambiguous(None))

InstallSkill ==
  /\ run.pc \in Skill
  /\ IF At("bootstrap") /\ ~Inspected(run.plan)
       THEN Abort(run) /\ UNCHANGED host
       ELSE /\ Set(run.pc, host.sidecar)
            /\ Go([run EXCEPT !.late = IF At("bootstrap") THEN @ \ Source ELSE @])
  /\ UNCHANGED <<shown, strays, receipt, count>>

\* setup --apply --rebind-global-rules-source, and the commit it reports.
SetupDone == [host EXCEPT !.core = host.sidecar,
                          !.bind = IF run.plan.owner = None THEN @ ELSE host.owner]
Setup ==
  /\ At("setup")
  /\ host.sidecar # None
  /\ host' = SetupDone
  /\ IF host.sidecar = run.plan.want THEN Go(run) ELSE Abort(run)
  /\ UNCHANGED <<shown, strays, receipt, count>>

-----------------------------------------------------------------------------
(* The end.                                                                *)

\* precommit_verify: distribution and host are observed anew; of the Owner's checkout
\* only that the binding agrees with it.
Verify ==
  /\ At("verify")
  /\ IF DistributionExact(run.plan.want) /\ HostExact(run.plan.want, run.plan.owner)
       THEN Go([run EXCEPT !.late = @ \intersect {"owner"}]) ELSE Abort(run)
  /\ UNCHANGED <<host, shown, strays, receipt, count>>

WriteReceipt ==
  /\ At("receipt")
  /\ receipt' = [want |-> run.plan.want, owner |-> run.plan.owner]
  /\ Go(run)
  /\ UNCHANGED <<host, shown, strays, count>>

Cleanup ==
  /\ At("cleanup")
  /\ Go([run EXCEPT !.aside = [n \in Source |-> None], !.copies = None])
  /\ UNCHANGED <<host, shown, strays, receipt, count>>

-----------------------------------------------------------------------------
(* The except block.                                                       *)

UndoSkill ==
  /\ run.pc \in {"undoScout", "undoBootstrap"}
  /\ LET s == IF At("undoScout") THEN "scout" ELSE "bootstrap" IN
       host' = IF run.copies = None THEN host ELSE [host EXCEPT ![s] = run.copies[s]]
  /\ Go(run)
  /\ UNCHANGED <<shown, strays, receipt, count>>

\* What is in place goes, what was aside comes back; sync-sources keeps what is in
\* place where the copy aside is gone already.
UndoSources ==
  /\ At("undoSources")
  /\ host' = [p \in Part |->
                IF Contains(run.swapped, p) /\ run.aside[p] # "gone" THEN run.aside[p] ELSE host[p]]
  /\ Go(run)
  /\ UNCHANGED <<shown, strays, receipt, count>>

-----------------------------------------------------------------------------
(* Failures.                                                               *)

Trouble ==
  /\ count.trouble < MaxTroubles /\ count' = [count EXCEPT !.trouble = @ + 1]
  /\ UNCHANGED <<shown, receipt>>
Faulty == [run EXCEPT !.fault = TRUE]
Left(r) == {r.aside[n] : n \in Source} \ {None, "gone"}

\* A step raises.  A command that timed out may have done its work.
StepFails ==
  /\ run.pc \in (Steps(Order[run.op]) \union Swapping) \ {"cleanup"}
  /\ run.pc \in Commands => Command(run).due
  /\ \/ UNCHANGED host
     \/ At("place") /\ Set(Head(run.queue), Want(run.plan, Head(run.queue)))
     \/ /\ run.pc \in Commands /\ Accepts(Command(run).part, Command(run).to)
        /\ Set(Command(run).part, Command(run).to)
     \/ At("setup") /\ host.sidecar # None /\ host' = SetupDone
  /\ Abort([Faulty EXCEPT !.external = @ \/ run.pc \in Commands])
  /\ Trouble /\ UNCHANGED strays

\* After the receipt a failed cleanup is only reported; sync-sources undoes what it can.
CleanupFails ==
  /\ At("cleanup")
  /\ IF run.op = "sync"
       THEN /\ \E n \in ToSet(run.swapped) :
                 Abort([Faulty EXCEPT !.aside = [k \in Source |->
                         IF k # n /\ run.aside[k] # None THEN "gone" ELSE run.aside[k]]])
            /\ UNCHANGED strays
       ELSE /\ run' = Done([run EXCEPT !.pc = "done"])
            /\ strays' = strays \union Left(run)
  /\ Trouble /\ UNCHANGED host

\* A failed compensation goes on with the Skills; any other failure ends the rollback.
UndoFails ==
  /\ run.pc \in Steps(UndoOrder)
  /\ run.pc \in Compensation => run.external
  /\ IF run.pc \in Compensation
       THEN Go(Forgo(Faulty)) /\ UNCHANGED strays
       ELSE /\ run' = Closed([Faulty EXCEPT !.pc = "broken"])
            /\ strays' = strays \union Left(run)
  /\ Trouble /\ UNCHANGED host

\* A crash may fall between the two renames that exchange a Skill.
Crash ==
  /\ Running /\ Trouble
  /\ run' = Closed([run EXCEPT !.pc = "crashed"])
  /\ strays' = strays \union Left(run)
  /\ \/ UNCHANGED host
     \/ run.pc \in Skill /\ Set(run.pc, None)

-----------------------------------------------------------------------------
(* What others do: Codex and its user, a pull of the Owner, an edited Skill. *)

Outside ==
  /\ Trouble /\ UNCHANGED strays
  /\ \E p \in {"market", "plugin", "owner"} \union Skill :
       /\ \/ p = "market" /\ \E v \in Observable(p) : Set(p, v)
          \/ p = "plugin" /\ \E v \in Observable(p) \ Release : Set(p, v)
          \/ p = "owner" /\ host.owner # None /\ \E v \in Owner : Set(p, v)
          \/ p \in Skill /\ \E v \in Release \union {None} : Set(p, v)
       /\ host' # host
       /\ run' = IF Running THEN [run EXCEPT !.touched = @ \union {p}, !.late = @ \union {p}]
                 ELSE IF At("done") THEN run ELSE [run EXCEPT !.touched = @ \union {p}]

Work ==
  \/ Clone \/ MoveAside \/ Place \/ Recheck \/ Distribute \/ SnapshotSkills \/ InstallSkill
  \/ Setup \/ Verify \/ WriteReceipt \/ Cleanup \/ Compensate \/ UndoSkill \/ UndoSources

Next ==
  \/ \E want \in Release, spec \in Owner \union {None} : Inspect(want, spec) \/ Sync(want, spec)
  \/ \E op \in {"reconcile", "cutover"} : Apply(op)
  \/ Work
  \/ StepFails \/ CleanupFails \/ UndoFails \/ Crash
  \/ Outside

Spec == Init /\ [][Next]_vars

-----------------------------------------------------------------------------
(* Properties.                                                             *)

Before == run.before

\* The receipt of a reconcile is true when it is written: every part nobody else
\* changed since the run last looked at it is the one of the release it names.
ReceiptTrue ==
  [][At("receipt") /\ run'.pc = "cleanup" /\ run.op = "reconcile" =>
       /\ \A p \in {"market", "plugin", "sidecar", "core"} \union Skill :
            p \notin run.late => host[p] = receipt'.want
       /\ "owner" \notin run.late =>
            host.owner = receipt'.owner /\ host.bind = receipt'.owner]_vars

\* A checkout is never lost before the run that replaces it has committed: it is in
\* place, moved aside, or left aside by a crash or a rollback that failed.
OldKept ==
  \A n \in Source :
    /\ run.op # "sync"
    /\ Before[n] # None /\ n \notin run.touched
    /\ run.pc \notin {"cleanup", "done"}
    => Before[n] \in {host[n], run.aside[n]} \union strays

\* A run that meets no failure of its own and no change by others succeeds, whatever
\* a crash or a failed run before it left behind.
RetrySucceeds == run.pc \in {"undone", "broken"} => run.fault \/ run.touched # {}

-----------------------------------------------------------------------------
(* The invariants the proofs rest on.                                      *)

Builds == Release \union {None}
Commits == Owner \union {None}
Values == Release \union Owner \union {None, "off", "unreadable"}
Hosts == {h \in [Part -> Values] :
            /\ h.market \in Checkouts \union {None}
            /\ h.plugin \in Checkouts \union {None, "off"}
            /\ \A p \in {"core", "sidecar"} \union Skill : h[p] \in Builds
            /\ h.owner \in Commits /\ h.bind \in Commits}

Ops == {"reconcile", "cutover", "sync"}
Forward(op) == Steps(Order[op]) \union Swapping
Pcs(op) == Forward(op) \union Steps(UndoOrder) \union Ended
Queues == {<<>>, <<"sidecar">>, <<"owner">>, <<"sidecar", "owner">>}
Plans == [want : Release, spec : Commits, owner : Commits, market : Checkouts \union {None},
          plugin : Checkouts \union {None, "off"}, sources : [Source -> Values],
          exact : BOOLEAN]
Asides == {a \in [Source -> Values \union {"gone"}] :
             /\ a.sidecar \in Builds \union {"gone"} /\ a.owner \in Commits \union {"gone"}}
Runs == [op : Ops, plan : Plans \union {None}, pc : UNION {Pcs(op) : op \in Ops},
         queue : Queues, swapped : Seq(Source), aside : Asides,
         copies : [Skill -> Builds] \union {None}, external : BOOLEAN, found : BOOLEAN,
         fault : BOOLEAN, broken : BOOLEAN, touched : SUBSET Part, late : SUBSET Part,
         before : Hosts]

TypeOK ==
  /\ host \in Hosts /\ shown \in Plans \union {None}
  /\ run \in Runs /\ run.pc \in Pcs(run.op) /\ (Running => run.plan \in Plans)
  /\ strays \subseteq Release \union Owner
  /\ receipt \in [want : Release, owner : Commits] \union {None}
  /\ count \in [run : Nat, trouble : Nat]

\* A checkout waits in the queue until it has been moved aside, and only those a
\* manifest names are exchanged.
QueueFits ==
  /\ At("clone") => run.queue = <<>> /\ run.swapped = <<>>
  /\ At("aside") => /\ run.queue # <<>>
                    /\ \A n \in Source : Contains(run.queue, n) => ~Contains(run.swapped, n)
  /\ At("place") => /\ run.queue # <<>> /\ Contains(run.swapped, Head(run.queue))
                    /\ \A n \in Source : Contains(Tail(run.queue), n) =>
                                          ~Contains(run.swapped, n)
  /\ Running /\ run.plan.spec = None => /\ ~Contains(run.queue, "owner")
                                       /\ ~Contains(run.swapped, "owner")

\* Where the checkout a run found is, until the run has ended.
KeptFits ==
  \A n \in Source :
    run.op # "sync" /\ n \notin run.touched =>
      /\ Running => IF Contains(run.swapped, n) THEN run.aside[n] = Before[n]
                                               ELSE host[n] = Before[n]
      /\ run.pc \in Ended \ {"done"} /\ Before[n] # None => Before[n] \in {host[n]} \union strays

\* A plan keeps the Owner a manifest does not name.
PlanFits ==
  run.op # "sync" /\ Running =>
    run.plan.owner = IF run.plan.spec = None THEN run.plan.sources["owner"] ELSE run.plan.spec

Rechecked == {"unplug", "unmarket", "market", "plug", "snapshot", "bootstrap"}

\* What a reconcile has looked at, and nobody changed since, is as the release says.
ReceiptFits ==
  run.op = "reconcile" =>
    /\ run.pc \in Rechecked /\ run.plan.spec = None =>
         /\ host.bind = run.plan.owner
         /\ run.plan.owner = None => host.owner = None
    /\ run.pc \in {"scout", "setup", "verify", "receipt"} /\ "owner" \notin run.late =>
         host.owner = run.plan.owner
    /\ At("receipt") =>
         /\ \A p \in {"market", "plugin", "sidecar", "core"} \union Skill :
              p \notin run.late => host[p] = run.plan.want
         /\ "owner" \notin run.late => host.bind = run.plan.owner

\* Nothing went wrong in a run so far: it knows the whole host.
Calm == ~run.fault /\ run.touched = {}

CalmSources ==
  /\ \A n \in Source : ~Contains(run.swapped, n) => host[n] = run.plan.sources[n]
  /\ run.plan.spec = None /\ run.op # "sync" => host.bind = run.plan.owner
  /\ ~At("clone") =>
       \A n \in ToSet(Named(run.plan)) :
         \/ run.pc \in Swapping /\ Contains(run.queue, n)
         \/ host[n] = Want(run.plan, n)

\* The distribution, after each of its commands.
CalmDistribution ==
  run.op = "reconcile" =>
    /\ run.pc \in {"clone", "recheck", "unplug"} \union Swapping =>
         host.market = run.plan.market /\ host.plugin = run.plan.plugin
    /\ At("unmarket") => host.market = run.plan.market
    /\ At("market") => host.market = IF TouchesMarket(run.plan) THEN None ELSE run.plan.want
    /\ run.pc \in {"unmarket", "market", "plug"} =>
         host.plugin = IF TouchesPlugin(run.plan) THEN None ELSE run.plan.want
    /\ At("plug") => host.market = run.plan.want
    /\ run.pc \in {"snapshot", "bootstrap", "scout", "setup", "verify"} =>
         DistributionExact(run.plan.want)

CalmHost ==
  /\ run.pc \in {"scout", "setup", "verify"} => host.bootstrap = run.plan.want
  /\ run.pc \in {"setup", "verify"} => host.scout = run.plan.want
  /\ At("verify") => /\ host.core = run.plan.want
                     /\ run.plan.owner # None => host.bind = run.plan.owner

CalmFits ==
  Calm => /\ run.pc \notin Steps(UndoOrder) \union {"undone", "broken"}
          /\ Running => CalmSources /\ CalmDistribution /\ CalmHost
=============================================================================
