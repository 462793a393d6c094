---------------------------- MODULE ConsumerScope ----------------------------
(***************************************************************************)
(* What a workstation can say of the tasks that will use it                *)
(* (managed_sources.py).  verify_workstation_consumer asks the host which  *)
(* Skills each Desktop project sees, reads the bytes of the enabled ones,  *)
(* and builds a deployment pack whose status the user acts on; every part  *)
(* it could not read must leave the pack short of ready.                   *)
(*                                                                         *)
(* The user may enable, disable or rewrite a Skill, and move a project,    *)
(* between any two steps.  The reconcile plan it starts from is            *)
(* WorkstationReconcile's subject: only its outcome is here.               *)
(***************************************************************************)
EXTENDS Naturals, FiniteSets, Sequences, SequencesExt

CONSTANTS
  Project,
  Inventory,    \* the projects in the order the scan sorts them
  Skill,        \* Skill directories on the host
  Capability,   \* CONSUMER_SKILLS: the names the product ships
  NameOf,       \* the name of a Skill directory
  Sees,         \* the directories a project's catalog lists, in its order
  Desired, Patched, Old, \* contents: the release's, another of its version, another version
  Unreadable,
  MaxChanges    \* bound on changes while a scan runs

ASSUME InventoryAssumption ==
  /\ Inventory \in Seq(Project) /\ Range(Inventory) = Project /\ IsInjective(Inventory)
  /\ Capability # {} /\ NameOf \in [Skill -> Capability]
  /\ Sees \in [Project -> Seq(Skill)] /\ \A p \in Project : IsInjective(Sees[p])
  /\ MaxChanges \in Nat

VARIABLES
  content,   \* bytes of each Skill directory
  enabled,   \* whether the host loads it
  open,      \* projects whose directory exists
  listing,   \* the inventory's own status: complete or bounded
  exact,     \* the reconcile plan is noop: distribution, sources and host as released
  scan,      \* the verification: where it stands and what it has read
  pack,      \* the deployment pack it built
  changes,   \* changes since the scan began
  held       \* history: Skills whose bytes were the release's at some moment of the scan

vars == <<content, enabled, open, listing, exact, scan, pack, changes, held>>
world == <<content, enabled, open, listing, exact>>

Contents  == {Desired, Patched, Old, Unreadable}
VersionOf(c) == IF c = Old THEN "old" ELSE "released"
NoPack    == [status |-> "none"]
Idle      == [pc |-> "idle", i |-> 0, catalog |-> <<>>, j |-> 0, hash |-> Desired,
              version |-> "old", skills |-> <<>>, projects |-> <<>>, scanned |-> 0]

Relations(skills) == {skills[k].relation : k \in DOMAIN skills}
Enabled(skills, name) ==
  {k \in DOMAIN skills : skills[k].name = name /\ skills[k].enabled}

-----------------------------------------------------------------------------
(* The scope: what the projects read add up to.                            *)

ProjectStatus(skills) ==
  IF "unreadable" \in Relations(skills) THEN "bounded"
  ELSE IF "drifted" \in Relations(skills) THEN "drifted" ELSE "exact"

\* Two enabled directories of one name: which one a task loads is not known.
\* (mutant) the second enabled directory is taken for the first one's copy.
Disambiguated_Same(skills) == skills
Disambiguated(skills) ==
  [k \in DOMAIN skills |->
     IF /\ skills[k].enabled /\ skills[k].relation # "unreadable"
        /\ Cardinality(Enabled(skills, skills[k].name)) > 1
       THEN [skills[k] EXCEPT !.relation = "drifted"] ELSE skills[k]]

Statuses(projects) == {projects[k].status : k \in DOMAIN projects}

ScopeStatus(projects) ==
  IF listing = "bounded" \/ "bounded" \in Statuses(projects) THEN "bounded"
  ELSE IF "drifted" \in Statuses(projects) THEN "drifted" ELSE "exact"

Total(projects) ==
  FoldLeft(LAMBDA n, p : n + Len(p.skills), 0, projects)

Scope(s) ==
  [status |-> ScopeStatus(s.projects), inventory |-> listing,
   count |-> Len(Inventory), scanned |-> s.scanned,
   matching |-> Total(s.projects), projects |-> s.projects]
NotObserved ==
  [status |-> "not_observed", inventory |-> "not_observed",
   count |-> 0, scanned |-> 0, matching |-> 0, projects |-> <<>>]

\* What validate_consumer_scope demands of a project and of a scope.
ProjectValid(p) ==
  /\ \A k \in DOMAIN p.skills : (p.skills[k].relation = "disabled") = ~p.skills[k].enabled
  /\ p.status = IF p.status = "bounded" THEN "bounded" ELSE ProjectStatus(p.skills)
  /\ p.status # "bounded" =>
       \A name \in Capability :
         /\ Enabled(p.skills, name) # {}
         /\ p.status = "exact" =>
              /\ Cardinality(Enabled(p.skills, name)) = 1
              /\ \A k \in Enabled(p.skills, name) : p.skills[k].relation = "exact"

ScopeValid(c) ==
  LET drifted == \E k \in DOMAIN c.projects : "drifted" \in Relations(c.projects[k].skills)
  IN  /\ c.scanned <= c.count
      /\ \A k \in DOMAIN c.projects : ProjectValid(c.projects[k])
      /\ c.matching = Total(c.projects)
      /\ IF c.status = "not_observed" THEN c = NotObserved
         ELSE /\ c.status = IF c.inventory = "bounded" \/ "bounded" \in Statuses(c.projects)
                              THEN "bounded" ELSE IF drifted THEN "drifted" ELSE "exact"
              /\ c.status \in {"exact", "drifted"} =>
                   /\ c.inventory = "complete"
                   /\ Len(c.projects) = c.count /\ c.scanned = c.count

-----------------------------------------------------------------------------
(* The pack.                                                               *)

PackStatus(reload, verified, scope) ==
  IF reload \/ ~verified THEN "reload_required"
  ELSE IF scope.status = "drifted" THEN "consumer_scope_drift"
  ELSE IF scope.status # "exact" THEN "consumer_scope_bounded" ELSE "ready"

BuildPack(reload, verified, scope) ==
  LET status  == PackStatus(reload, verified, scope)
      pending == reload \/ ~verified
  IN  [status |-> status, scope |-> scope,
       reload |-> IF pending THEN "required" ELSE "not_required",
       entry  |-> CASE pending                            -> "available_next_task"
                    [] status = "consumer_scope_drift"    -> "ambiguous"
                    [] status = "consumer_scope_bounded"  -> "unproven"
                    [] OTHER                              -> "verified"]

\* What validate_pack demands of status, activation and scope together.
PackValid(p) ==
  /\ ScopeValid(p.scope)
  /\ <<p.status, p.reload, p.entry>> \in
       {<<"reload_required", "required", "available_next_task">>,
        <<"ready", "not_required", "verified">>,
        <<"consumer_scope_drift", "not_required", "ambiguous">>,
        <<"consumer_scope_bounded", "not_required", "unproven">>}
  /\ p.status = "ready" => p.scope.status = "exact"
  /\ p.status = "consumer_scope_drift" => p.scope.status = "drifted"
  /\ p.status = "consumer_scope_bounded" => p.scope.status = "bounded"

-----------------------------------------------------------------------------
(* The verification.                                                       *)

Init ==
  /\ content \in [Skill -> Contents] /\ enabled \in [Skill -> BOOLEAN]
  /\ open \in SUBSET Project /\ listing \in {"complete", "bounded"}
  /\ exact \in BOOLEAN
  /\ scan = Idle /\ pack = NoPack /\ changes = 0 /\ held = {}

To(s) == scan' = s /\ UNCHANGED <<content, enabled, open, listing, exact, changes, held>>
Reading(pc) == scan.pc = pc /\ UNCHANGED pack

\* A reconcile that just applied leaves a pack that asks for a new task.
Reconciled ==
  /\ scan = Idle /\ pack = NoPack /\ exact
  /\ \E reload \in BOOLEAN : pack' = BuildPack(reload, FALSE, NotObserved)
  /\ UNCHANGED <<content, enabled, open, listing, exact, scan, changes, held>>

\* The plan must be noop; then the host is asked for its catalog of every project.
Inspect ==
  /\ scan = Idle /\ exact
  /\ scan' = [Idle EXCEPT !.pc = "catalog"]
  /\ pack' = NoPack /\ changes' = 0
  /\ held' = {s \in Skill : content[s] = Desired}
  /\ UNCHANGED world

Project1 == Inventory[scan.i]
Listed   == scan.catalog[Project1]

\* The catalog is one answer of the app-server: its errors are per project, and a
\* timeout or an answer that cannot be read leaves none.
Catalog ==
  /\ Reading("catalog")
  /\ \E failed \in {{}, Project} \union {{p} : p \in Project} :
       To([scan EXCEPT !.pc = IF Inventory = <<>> THEN "build" ELSE "root", !.i = 1,
             !.catalog = [p \in Project |->
                IF p \in failed THEN <<>>
                ELSE <<[k \in DOMAIN Sees[p] |->
                        [skill |-> Sees[p][k], enabled |-> enabled[Sees[p][k]]]]>>]])

\* The project ends with what was read of it; without Skills only if it is bounded.
Closed(s, status, skills) ==
  [s EXCEPT !.pc = IF s.i < Len(Inventory) THEN "root" ELSE "build",
            !.i = s.i + 1, !.j = 0, !.skills = <<>>,
            !.projects = IF skills # <<>> \/ status = "bounded"
                           THEN Append(@, [status |-> status, skills |-> skills]) ELSE @]
Bounded(s) == Closed(s, "bounded", s.skills)

\* (mutant) a project the host gave no answer for is skipped.
OpenProject_Skips ==
  /\ Reading("root")
  /\ LET found == IF Project1 \in open THEN [scan EXCEPT !.scanned = @ + 1] ELSE scan
     IN  To(IF Project1 \notin open THEN Bounded(found)
            ELSE IF Listed = <<>> THEN Closed(found, "exact", <<>>)
            ELSE [found EXCEPT !.pc = "entry", !.j = 1])
OpenProject ==
  /\ Reading("root")
  /\ LET found == IF Project1 \in open THEN [scan EXCEPT !.scanned = @ + 1] ELSE scan
     IN  To(IF Project1 \notin open \/ Listed = <<>> THEN Bounded(found)
            ELSE [found EXCEPT !.pc = "entry", !.j = 1])

Entry == Head(Listed)[scan.j]
Row(relation) == [name |-> NameOf[Entry.skill], enabled |-> Entry.enabled, relation |-> relation]
Read(relation) == [scan EXCEPT !.pc = "entry", !.j = @ + 1, !.skills = Append(@, Row(relation))]
More    == scan.j <= Len(Head(Listed))

\* The tree is hashed, its version read, and hashed again.
Hash ==
  /\ Reading("entry") /\ More
  /\ To(IF ~Entry.enabled THEN Read("disabled")
        ELSE IF content[Entry.skill] = Unreadable THEN Read("unreadable")
        ELSE [scan EXCEPT !.pc = "version", !.hash = content[Entry.skill]])

\* An entry the catalog describes badly ends the project with what was read.
Malformed == Reading("entry") /\ More /\ To(Bounded(scan))

ReadVersion ==
  /\ Reading("version")
  /\ To(IF content[Entry.skill] = Unreadable THEN Read("unreadable")
        ELSE [scan EXCEPT !.pc = "again", !.version = VersionOf(content[Entry.skill])])

\* (mutant) the version alone decides.
HashAgain_VersionOnly ==
  /\ Reading("again")
  /\ To(IF content[Entry.skill] # scan.hash THEN Read("unreadable")
        ELSE IF scan.version = "released" THEN Read("exact")
        ELSE Read("drifted"))
HashAgain ==
  /\ Reading("again")
  /\ To(IF content[Entry.skill] # scan.hash THEN Read("unreadable")
        ELSE IF scan.hash = Desired /\ scan.version = "released" THEN Read("exact")
        ELSE Read("drifted"))

\* A project without an enabled entry of some name is bounded, with the entries as read
\* (which of them an earlier name had called ambiguous is left out: bounded is all it says).
CloseProject ==
  /\ Reading("entry") /\ ~More
  /\ LET skills == Disambiguated(scan.skills)
     IN  To(IF \E name \in Capability : Enabled(scan.skills, name) = {}
              THEN Bounded(scan)
              ELSE Closed(scan, ProjectStatus(skills), skills))

Build ==
  /\ scan.pc = "build"
  /\ pack' = BuildPack(FALSE, TRUE, Scope(scan))
  /\ scan' = [scan EXCEPT !.pc = "done"]
  /\ UNCHANGED <<content, enabled, open, listing, exact, changes, held>>

Again == scan.pc = "done" /\ To(Idle) /\ UNCHANGED pack

-----------------------------------------------------------------------------
(* The user and the host, while it runs.                                   *)

Scanning == scan.pc \notin {"idle", "done"}
Change ==
  /\ Scanning /\ changes < MaxChanges /\ changes' = changes + 1
  /\ UNCHANGED <<listing, exact, scan, pack>>

Rewrite == /\ Change
           /\ \E s \in Skill, c \in Contents :
                /\ content' = [content EXCEPT ![s] = c]
                /\ held' = IF c = Desired THEN held \union {s} ELSE held
           /\ UNCHANGED <<enabled, open>>
Toggle  == /\ Change
           /\ \E s \in Skill : enabled' = [enabled EXCEPT ![s] = ~@]
           /\ UNCHANGED <<content, open, held>>
Move    == /\ Change
           /\ \E p \in Project : open' = (open \union {p}) \ (open \intersect {p})
           /\ UNCHANGED <<content, enabled, held>>

Next == \/ Reconciled \/ Inspect \/ Catalog \/ OpenProject \/ Hash \/ Malformed
        \/ ReadVersion \/ HashAgain \/ CloseProject \/ Build \/ Again
        \/ Rewrite \/ Toggle \/ Move
Spec == Init /\ [][Next]_vars

-----------------------------------------------------------------------------
(* Properties.                                                             *)

\* The validators accept what the builders make: no reading of the host, however it
\* ends, turns into a pack the program refuses to return.
PackAccepted ==
  /\ scan.pc = "build" => ScopeValid(Scope(scan))
  /\ pack # NoPack => PackValid(pack)

\* A capability of a project as a task would find it now.
Sound(p, name) ==
  LET found == {s \in Range(Sees[p]) : NameOf[s] = name /\ enabled[s]}
  IN  Cardinality(found) = 1 /\ \A s \in found : content[s] = Desired

\* A scan nothing disturbed calls the workstation ready only if every project of a
\* complete inventory would load exactly the released Skills.
ReadyIsTrue ==
  scan.pc = "done" /\ changes = 0 /\ pack.status = "ready" =>
    listing = "complete" /\ open = Project /\ \A p \in Project, n \in Capability : Sound(p, n)

\* Even disturbed, ready says of each project that every Skill it was told to load
\* held the released bytes at some moment of the scan.
ReadyWasTrue ==
  scan.pc = "done" /\ pack.status = "ready" =>
    \A p \in Project : \A k \in DOMAIN scan.catalog[p][1] :
      scan.catalog[p][1][k].enabled => scan.catalog[p][1][k].skill \in held

-----------------------------------------------------------------------------
(* The invariants the proofs rest on.                                      *)

Rows == [name : Capability, enabled : BOOLEAN,
         relation : {"disabled", "unreadable", "exact", "drifted"}]
Reads == [status : {"exact", "drifted", "bounded"}, skills : Seq(Rows)]
Entries == [skill : Skill, enabled : BOOLEAN]
Catalogs == [Project -> {c \in Seq(Seq(Entries)) : Len(c) <= 1}]
Within == {"entry", "version", "again"}
Scans == [pc : {"idle", "catalog", "root", "build", "done"} \union Within, i : Nat,
          catalog : Catalogs \union {<<>>}, j : Nat, hash : Contents,
          version : {"old", "released"}, skills : Seq(Rows), projects : Seq(Reads),
          scanned : Nat]
Before == {"idle", "catalog"}

TypeOK ==
  /\ content \in [Skill -> Contents] /\ enabled \in [Skill -> BOOLEAN]
  /\ open \subseteq Project /\ listing \in {"complete", "bounded"} /\ exact \in BOOLEAN
  /\ scan \in Scans /\ (scan.pc \notin Before => scan.catalog \in Catalogs)
  /\ pack.status \in {"none", "reload_required", "consumer_scope_drift",
                      "consumer_scope_bounded", "ready"}
  /\ changes \in Nat /\ held \subseteq Skill

\* Where the scan stands in the inventory and in the entries of a project.
CursorFits ==
  /\ scan.pc \notin Before => scan.i \in 1 .. Len(Inventory) + 1
  /\ scan.pc \in Within \union {"root"} => scan.i <= Len(Inventory)
  /\ scan.pc \in {"build", "done"} => scan.i = Len(Inventory) + 1
  /\ scan.pc \in Before \union {"root"} => scan.skills = <<>>
  /\ scan.pc \in Within => /\ Listed # <<>> /\ scan.j = Len(scan.skills) + 1
                           /\ scan.j <= Len(Head(Listed)) + 1
  /\ scan.pc \in {"version", "again"} => More /\ Entry.enabled

\* A catalog lists what the project sees, as it was enabled if nothing changed.
CatalogFits ==
  scan.pc \notin Before =>
    \A p \in Project : scan.catalog[p] # <<>> =>
      /\ Len(scan.catalog[p][1]) = Len(Sees[p])
      /\ \A k \in DOMAIN Sees[p] :
           /\ scan.catalog[p][1][k].skill = Sees[p][k]
           /\ changes = 0 => scan.catalog[p][1][k].enabled = enabled[Sees[p][k]]

HeldFits == scan.pc # "idle" => \A s \in Skill : content[s] = Desired => s \in held

\* What a row says of the entry it was read for.
RowFits(row, entry) ==
  /\ row.name = NameOf[entry.skill] /\ row.enabled = entry.enabled
  /\ row.relation = "disabled" <=> ~row.enabled
  /\ row.relation = "exact" =>
       entry.skill \in held /\ (changes = 0 => content[entry.skill] = Desired)
RowsFit ==
  scan.pc \in Within =>
    \A k \in DOMAIN scan.skills : RowFits(scan.skills[k], Head(Listed)[k])

\* Projects opened so far, and what a project that is not bounded was read from.
Begun == IF scan.pc \in Within THEN scan.i ELSE scan.i - 1
ProjectFits(read, p) ==
  /\ scan.catalog[p] # <<>> /\ Len(read.skills) = Len(scan.catalog[p][1])
  /\ \A k \in DOMAIN read.skills : RowFits(read.skills[k], scan.catalog[p][1][k])
  /\ changes = 0 => p \in open
ProjectsFit ==
  /\ scan.pc \in Before => scan.projects = <<>> /\ scan.scanned = 0
  /\ \A k \in DOMAIN scan.projects : ProjectValid(scan.projects[k])
  /\ scan.pc \notin Before =>
       /\ scan.scanned <= Begun
       /\ "bounded" \notin Statuses(scan.projects) =>
            /\ scan.scanned = Begun /\ Len(scan.projects) = scan.i - 1
            /\ \A k \in DOMAIN scan.projects : ProjectFits(scan.projects[k], Inventory[k])
  /\ scan.pc \in Within /\ changes = 0 => Project1 \in open

PackFits ==
  /\ scan.pc = "done" => pack = BuildPack(FALSE, TRUE, Scope(scan))
  /\ pack # NoPack => PackValid(pack)
=============================================================================
