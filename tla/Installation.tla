---------------------------- MODULE Installation ----------------------------
(***************************************************************************)
(* What `setup --apply` and `maintenance core-cutover --apply` change on a *)
(* host, write by write: the Store and its registry rows, the immutable    *)
(* artifact, hooks.json, the host's AGENTS.md and the installed Skill      *)
(* (codex_integration.py, core_cutover.py, installation.py, skill.py,      *)
(* runtime_package.py).  Neither keeps a journal: an exception is undone   *)
(* by the except block, a crash leaves what was written.  Prompt hooks,    *)
(* rule commands and editors go on meanwhile.                              *)
(*                                                                         *)
(* A package version stands for its artifact, its hook command, its Skill  *)
(* and the runtime row that names them.  Prompt events are numbered in the *)
(* order of their time stamps.  One operator starts one command at a time. *)
(***************************************************************************)
EXTENDS Naturals, Sequences

CONSTANTS
  Version,     \* package versions that may be installed
  Doc,         \* documents of the canonical source and the host
  MaxEvent,    \* bound on prompt events
  OldEvents,   \* how many of them a legacy Store may already hold
  MaxCommands, MaxCrashes, MaxFaults, MaxOutside,   \* bounds
  RulesMeanwhile,  \* whether rule commands run while a command does
  None

ASSUME BoundsAssumption ==
  /\ {MaxEvent, OldEvents, MaxCommands, MaxCrashes, MaxFaults, MaxOutside} \subseteq Nat
  /\ OldEvents <= MaxEvent /\ RulesMeanwhile \in BOOLEAN
  /\ None \notin Version \union Doc \union {"legacy"} /\ "legacy" \notin Version

VARIABLES
  store,      \* memory.sqlite: its schema, registry rows, events and approvals
  artifacts,  \* runtime/agent-memory-*.pyz
  hooks,      \* hooks.json: the sidecar's entry, and the user's own, numbered
  source,     \* global/AGENTS.md of the canonical checkout
  target,     \* AGENTS.md of the host
  skill,      \* the Skill's directory and the copy install_skill moves aside
  strays,     \* Skill snapshots no running command owns
  lockFile,   \* memory.sqlite.rotation.lock exists
  cmd,        \* the last command started
  hook,       \* a prompt hook between its lock check and its write
  spent,      \* history: events whose approval was used
  clean,      \* history: the last command succeeded, or undid itself on a host that was clean
  count       \* commands, crashes, faults, outside changes and events so far

vars == <<store, artifacts, hooks, source, target, skill, strays, lockFile, cmd, hook,
          spent, clean, count>>

Event == 1..MaxEvent
Absent == [kind |-> "absent", row |-> None, bind |-> None, events |-> {}, live |-> {},
           used |-> {}, doubt |-> 0, horizon |-> 0]
Empty == [Absent EXCEPT !.kind = "core"]

\* CoreDatabase opens a Store whose schema it knows; setup refuses another one.
CoreSchema(s) == s.kind = "core"
Openable(s)   == s.kind = "absent" \/ CoreSchema(s)

-----------------------------------------------------------------------------
(* The two commands, as the order of their writes and of their undoing.    *)

\* (mutant) the hooks are written before the artifact they name.
Order_HooksFirst ==
  [setup   |-> <<"store", "hooks", "artifact", "selftest", "target", "snapshot",
                 "prepare", "stash", "place", "drop", "bind", "doctor", "discard">>,
   cutover |-> <<"backup", "migrate", "hooks", "artifact", "snapshot", "prepare", "stash",
                 "place", "drop", "bind", "selftest", "replace", "doctor", "discard", "unlock">>]

Order == [setup   |-> <<"store", "artifact", "selftest", "target", "hooks", "snapshot",
                        "prepare", "stash", "place", "drop", "bind", "doctor", "discard">>,
          cutover |-> <<"backup", "migrate", "artifact", "snapshot", "prepare", "stash",
                        "place", "drop", "bind", "selftest", "replace", "hooks", "doctor",
                        "discard", "unlock">>]
UndoOrder == [setup   |-> <<"undoHooks", "undoTarget", "undoSkill", "undoSwap",
                            "undoRegistry", "undoStore">>,
              cutover |-> <<"undoReplace", "undoHooks", "undoSkill", "undoSwap", "undoTemp">>]
Ended == {"done", "undone", "broken", "crashed"}

Steps(s) == {s[i] : i \in 1..Len(s)}
Following(s, pc, end) ==
  LET i == CHOOSE j \in 1..Len(s) : s[j] = pc IN IF i = Len(s) THEN end ELSE s[i + 1]
Next1(c) == IF c.pc \in Steps(Order[c.op]) THEN Following(Order[c.op], c.pc, "done")
            ELSE Following(UndoOrder[c.op], c.pc, "undone")
Undone(c) == [c EXCEPT !.pc = UndoOrder[c.op][1]]

At(pc) == cmd.pc = pc
Advance == cmd' = [cmd EXCEPT !.pc = Next1(cmd)]
Running == cmd.pc \notin Ended

Init ==
  /\ artifacts \in SUBSET Version
  /\ source \in Doc
  /\ target \in Doc \union {None}
  /\ \/ /\ store = Absent
        /\ hooks = [side |-> None, user |-> 0] /\ skill = [dir |-> None, prev |-> None]
     \/ \E v \in artifacts : \E bound \in BOOLEAN :
          /\ store = [Empty EXCEPT !.row = v, !.bind = IF bound THEN source ELSE None]
          /\ bound => target = source
          /\ hooks = [side |-> v, user |-> 0] /\ skill = [dir |-> v, prev |-> None]
     \/ \E live, used, lost \in SUBSET (1..OldEvents) : \E doubt, horizon \in 0..OldEvents :
          /\ \A e \in lost : e <= doubt
          /\ store = [Absent EXCEPT !.kind = "legacy", !.events = 1..OldEvents,
                        !.live = live, !.used = used, !.doubt = doubt, !.horizon = horizon]
          /\ spent = used \union lost
          /\ hooks = [side |-> "legacy", user |-> 0]
          /\ skill \in [dir : Version \union {None}, prev : {None}]
  /\ store.kind # "legacy" => spent = {}
  /\ strays = {} /\ lockFile = FALSE /\ hook = FALSE /\ clean = TRUE
  /\ cmd = [op |-> "setup", ver |-> None, pc |-> "done", start |-> None, global |-> FALSE,
            doc |-> None, wrote |-> FALSE, snapped |-> FALSE, made |-> FALSE,
            temp |-> None, approval |-> None, fault |-> FALSE, disturbed |-> FALSE, whole |-> TRUE]
  /\ count = [command |-> 0, crash |-> 0, fault |-> 0, outside |-> 0, event |-> OldEvents]

-----------------------------------------------------------------------------
(* Starting a command: what it reads is what it may put back.              *)

Observed == [store |-> store, hooks |-> hooks, target |-> target, skill |-> skill.dir]

Begin(op, v, global, approval) ==
  /\ ~Running /\ count.command < MaxCommands
  /\ count' = [count EXCEPT !.command = @ + 1]
  /\ cmd' = [op |-> op, ver |-> v, pc |-> Order[op][1], start |-> Observed, global |-> global,
             doc |-> IF global THEN source ELSE None, wrote |-> FALSE, snapped |-> FALSE,
             made |-> FALSE, temp |-> None, approval |-> approval, fault |-> FALSE,
             disturbed |-> FALSE, whole |-> clean]
  /\ clean' = FALSE

\* The local document may be replaced: it is the bound one, or there is none to lose.
Materializable ==
  IF store.bind # None THEN target = store.bind ELSE target \in {None, source}

\* setup() up to its first write; a legacy Store is migration_required.
Setup(v) ==
  /\ Openable(store)
  /\ \E global \in BOOLEAN :
       /\ store.bind # None => global
       /\ global => Materializable
       /\ Begin("setup", v, global, None)
  /\ UNCHANGED <<store, artifacts, hooks, source, target, skill, strays, lockFile, hook, spent>>

\* An approval of the legacy Store that no recorded consumption may have used.
LegacyUsable(s, e) ==
  e \in s.events /\ e \in s.live /\ e > s.horizon /\ e \notin s.used /\ e > s.doubt

\* apply_core_cutover() up to its backup: the lock file, then the approval.
Cutover(v) ==
  /\ store.kind = "legacy" /\ ~lockFile
  /\ \E e \in store.events : LegacyUsable(store, e) /\ Begin("cutover", v, FALSE, e)
  /\ lockFile' = TRUE
  /\ UNCHANGED <<store, artifacts, hooks, source, target, skill, strays, hook, spent>>

-----------------------------------------------------------------------------
(* The Store.                                                              *)

CreateStore ==
  /\ At("store")
  /\ IF cmd.start.store.kind = "absent"
       THEN /\ store' = Empty
            /\ cmd' = [cmd EXCEPT !.pc = Next1(cmd), !.made = TRUE]
       ELSE UNCHANGED store /\ Advance
  /\ UNCHANGED <<artifacts, hooks, source, target, skill, strays, lockFile, hook, spent, clean, count>>

\* _backup_store, then _read_hooks: both are what the rollback uses.
Backup ==
  /\ At("backup")
  /\ cmd' = [cmd EXCEPT !.pc = Next1(cmd), !.start.store = store, !.start.hooks = hooks]
  /\ UNCHANGED <<store, artifacts, hooks, source, target, skill, strays, lockFile, hook, spent, clean, count>>

\* Events within retention, and the consumptions that name one of them.
EventsKept(s) == {x \in s.events : x > s.horizon}
ConsumptionsKept(s) == s.used \intersect EventsKept(s)

\* (mutant) every session keeps its prompt.
SessionsKept_All(s) == s.live \intersect EventsKept(s)

\* A session keeps its prompt only where no unattributable consumption may be its.
SessionsKept(s) == {x \in s.live \intersect EventsKept(s) : x > s.doubt}

BindingKept(new, s)     == [new EXCEPT !.bind = s.bind]
CutoverConsumed(new, e) == [new EXCEPT !.used = @ \union {e}]

\* _migrate_database into an empty Store; the approval of this cutover is consumed there.
Migrated(s, e) ==
  LET kept == [Empty EXCEPT !.events = EventsKept(s), !.live = SessionsKept(s),
                            !.used = ConsumptionsKept(s)]
  IN  CutoverConsumed(BindingKept(kept, s), e)

Migrate ==
  /\ At("migrate")
  /\ cmd' = [cmd EXCEPT !.pc = Next1(cmd), !.temp = Migrated(store, cmd.approval)]
  /\ UNCHANGED <<store, artifacts, hooks, source, target, skill, strays, lockFile, hook, spent, clean, count>>

\* bind_runtime and bind_global: one row each, replaced.
RuntimeBound(s) == [s EXCEPT !.row = cmd.ver]
GlobalBound(s)  == IF cmd.global THEN [s EXCEPT !.bind = cmd.doc] ELSE s

\* In one transaction, in the Store or in the migrated copy.
Bind ==
  /\ At("bind")
  /\ IF cmd.op = "cutover"
       THEN /\ cmd' = [cmd EXCEPT !.pc = Next1(cmd), !.temp = RuntimeBound(@)]
            /\ UNCHANGED store
       ELSE store' = GlobalBound(RuntimeBound(store)) /\ Advance
  /\ UNCHANGED <<artifacts, hooks, source, target, skill, strays, lockFile, hook, spent, clean, count>>

ReplaceStore ==
  /\ At("replace")
  /\ store' = cmd.temp
  /\ cmd' = [cmd EXCEPT !.pc = Next1(cmd), !.made = TRUE, !.temp = None]
  /\ UNCHANGED <<artifacts, hooks, source, target, skill, strays, lockFile, hook, spent, clean, count>>

-----------------------------------------------------------------------------
(* Artifact, host document and hooks.                                      *)

InstallArtifact ==
  /\ At("artifact")
  /\ artifacts' = artifacts \union {cmd.ver}
  /\ Advance
  /\ UNCHANGED <<store, hooks, source, target, skill, strays, lockFile, hook, spent, clean, count>>

SelfTest ==
  /\ At("selftest")
  /\ Advance
  /\ UNCHANGED <<store, artifacts, hooks, source, target, skill, strays, lockFile, hook, spent, clean, count>>

\* The source is read again for its bytes: the plan holds only their hash.
WriteTarget ==
  /\ At("target")
  /\ IF cmd.global /\ cmd.start.target # cmd.doc
       THEN /\ target' = source
            /\ cmd' = [cmd EXCEPT !.pc = Next1(cmd), !.wrote = TRUE, !.start.target = target]
       ELSE UNCHANGED target /\ Advance
  /\ UNCHANGED <<store, artifacts, hooks, source, skill, strays, lockFile, hook, spent, clean, count>>

\* The user's entries are those read when the command began.
Desired(c) == [c.start.hooks EXCEPT !.side = c.ver]

\* The hash of this product's entries, whatever else the file holds.
HooksCurrent == cmd.start.hooks.side = cmd.ver

WriteHooks ==
  /\ At("hooks")
  /\ hooks' = IF cmd.op = "setup" /\ HooksCurrent THEN hooks ELSE Desired(cmd)
  /\ Advance
  /\ UNCHANGED <<store, artifacts, source, target, skill, strays, lockFile, hook, spent, clean, count>>

-----------------------------------------------------------------------------
(* install_skill(), after a snapshot of the whole directory.               *)

Snapshot ==
  /\ At("snapshot")
  /\ cmd' = [cmd EXCEPT !.pc = Next1(cmd), !.snapped = TRUE, !.start.skill = skill.dir]
  /\ UNCHANGED <<store, artifacts, hooks, source, target, skill, strays, lockFile, hook, spent, clean, count>>

\* (mutant) the copy left aside is always dropped.
Leftover_Dropped(s) == [s EXCEPT !.prev = None]

\* A copy an earlier call left aside is dropped, or put back where it is the only one.
Leftover(s) ==
  IF s.prev = None THEN s
  ELSE [dir |-> IF s.dir # None THEN s.dir ELSE s.prev, prev |-> None]

\* (mutant) any Skill that is installed already will do.
Prepare_AnyVersion ==
  /\ At("prepare")
  /\ IF skill.dir # None
       THEN UNCHANGED skill /\ cmd' = [cmd EXCEPT !.pc = Following(Order[cmd.op], "drop", "done")]
       ELSE skill' = Leftover(skill) /\ Advance
  /\ UNCHANGED <<store, artifacts, hooks, source, target, strays, lockFile, hook, spent, clean, count>>

\* The installed files are those of this package, byte for byte.
SkillCurrent == skill.dir = cmd.ver

Prepare ==
  /\ At("prepare")
  /\ IF SkillCurrent
       THEN UNCHANGED skill /\ cmd' = [cmd EXCEPT !.pc = Following(Order[cmd.op], "drop", "done")]
       ELSE skill' = Leftover(skill) /\ Advance
  /\ UNCHANGED <<store, artifacts, hooks, source, target, strays, lockFile, hook, spent, clean, count>>

Stash ==
  /\ At("stash")
  /\ skill' = IF skill.dir = None THEN skill ELSE [dir |-> None, prev |-> skill.dir]
  /\ Advance
  /\ UNCHANGED <<store, artifacts, hooks, source, target, strays, lockFile, hook, spent, clean, count>>

Place ==
  /\ At("place")
  /\ skill' = [skill EXCEPT !.dir = cmd.ver]
  /\ Advance
  /\ UNCHANGED <<store, artifacts, hooks, source, target, strays, lockFile, hook, spent, clean, count>>

Drop ==
  /\ At("drop")
  /\ skill' = [skill EXCEPT !.prev = None]
  /\ Advance
  /\ UNCHANGED <<store, artifacts, hooks, source, target, strays, lockFile, hook, spent, clean, count>>

\* Its own except block: the new directory goes, the one set aside comes back.
SkillUndone(s, pc) ==
  LET dir == IF pc = "drop" THEN None ELSE s.dir IN
    IF s.prev # None /\ dir = None THEN [dir |-> s.prev, prev |-> None] ELSE [s EXCEPT !.dir = dir]

-----------------------------------------------------------------------------
(* Verification, and the end.                                              *)

\* doctor(): everything is the version the runtime row names, and in parity.
DoctorOk ==
  /\ CoreSchema(store) /\ store.row # None
  /\ store.row \in artifacts /\ hooks.side = store.row /\ skill.dir = store.row
  /\ store.bind # None => target = store.bind /\ source = store.bind

Doctor ==
  /\ At("doctor")
  /\ IF DoctorOk THEN Advance ELSE cmd' = Undone(cmd)
  /\ UNCHANGED <<store, artifacts, hooks, source, target, skill, strays, lockFile, hook, spent, clean, count>>

Discard ==
  /\ At("discard")
  /\ cmd' = [cmd EXCEPT !.pc = Next1(cmd), !.snapped = FALSE]
  /\ clean' = (cmd.op = "setup")
  /\ UNCHANGED <<store, artifacts, hooks, source, target, skill, strays, lockFile, hook, spent, count>>

Unlock ==
  /\ At("unlock")
  /\ lockFile' = FALSE /\ clean' = TRUE
  /\ spent' = spent \union {cmd.approval}
  /\ Advance
  /\ UNCHANGED <<store, artifacts, hooks, source, target, skill, strays, hook, count>>

-----------------------------------------------------------------------------
(* The except blocks.                                                      *)

\* An exception at a step; the backup's leaves before the try block.
Fail ==
  /\ cmd.pc \in Steps(Order[cmd.op]) \ {"discard", "unlock"}
  /\ count.fault < MaxFaults /\ count' = [count EXCEPT !.fault = @ + 1]
  /\ cmd' = [IF At("backup") THEN [cmd EXCEPT !.pc = "undoTemp"] ELSE Undone(cmd)
               EXCEPT !.fault = TRUE]
  /\ skill' = IF cmd.pc \in {"stash", "place", "drop"} THEN SkillUndone(skill, cmd.pc) ELSE skill
  /\ UNCHANGED <<store, artifacts, hooks, source, target, strays, lockFile, hook, spent, clean>>

UndoReplace ==
  /\ At("undoReplace")
  /\ store' = IF cmd.made THEN cmd.start.store ELSE store
  /\ Advance
  /\ UNCHANGED <<artifacts, hooks, source, target, skill, strays, lockFile, hook, spent, clean, count>>

\* (mutant) the hooks are left as they are.
UndoHooks_Skipped ==
  /\ At("undoHooks")
  /\ Advance
  /\ UNCHANGED <<store, artifacts, hooks, source, target, skill, strays, lockFile, hook, spent, clean, count>>

UndoHooks ==
  /\ At("undoHooks")
  /\ hooks' = cmd.start.hooks
  /\ Advance
  /\ UNCHANGED <<store, artifacts, source, target, skill, strays, lockFile, hook, spent, clean, count>>

UndoTarget ==
  /\ At("undoTarget")
  /\ target' = IF cmd.wrote THEN cmd.start.target ELSE target
  /\ Advance
  /\ UNCHANGED <<store, artifacts, hooks, source, skill, strays, lockFile, hook, spent, clean, count>>

\* restore_skill: the directory goes, then the snapshot is moved into its place.
UndoSkill ==
  /\ At("undoSkill")
  /\ skill' = IF cmd.snapped THEN [skill EXCEPT !.dir = None] ELSE skill
  /\ Advance
  /\ UNCHANGED <<store, artifacts, hooks, source, target, strays, lockFile, hook, spent, clean, count>>

UndoSwap ==
  /\ At("undoSwap")
  /\ skill' = IF cmd.snapped THEN [skill EXCEPT !.dir = cmd.start.skill] ELSE skill
  /\ cmd' = [cmd EXCEPT !.pc = Next1(cmd), !.snapped = FALSE]
  /\ UNCHANGED <<store, artifacts, hooks, source, target, strays, lockFile, hook, spent, clean, count>>

UndoRegistry ==
  /\ At("undoRegistry")
  /\ store' = IF cmd.start.store.kind = "core"
                THEN [store EXCEPT !.row = cmd.start.store.row, !.bind = cmd.start.store.bind]
                ELSE store
  /\ Advance
  /\ UNCHANGED <<artifacts, hooks, source, target, skill, strays, lockFile, hook, spent, clean, count>>

UndoStore ==
  /\ At("undoStore")
  /\ store' = IF cmd.made THEN Absent ELSE store
  /\ clean' = cmd.whole
  /\ Advance
  /\ UNCHANGED <<artifacts, hooks, source, target, skill, strays, lockFile, hook, spent, count>>

UndoTemp ==
  /\ At("undoTemp")
  /\ lockFile' = FALSE /\ clean' = cmd.whole
  /\ cmd' = [cmd EXCEPT !.pc = "undone", !.temp = None]
  /\ UNCHANGED <<store, artifacts, hooks, source, target, skill, strays, hook, spent, count>>

Orphaned == IF cmd.snapped THEN strays \union ({cmd.start.skill} \ {None}) ELSE strays

\* A step of the rollback fails: the rest is skipped, the lock released.
UndoFails ==
  /\ cmd.pc \in Steps(UndoOrder[cmd.op])
  /\ count.fault < MaxFaults /\ count' = [count EXCEPT !.fault = @ + 1]
  /\ cmd' = [cmd EXCEPT !.pc = "broken", !.fault = TRUE, !.temp = None]
  /\ strays' = Orphaned
  /\ lockFile' = IF cmd.op = "cutover" THEN FALSE ELSE lockFile
  /\ UNCHANGED <<store, artifacts, hooks, source, target, skill, hook, spent, clean>>

Crash ==
  /\ Running
  /\ count.crash < MaxCrashes /\ count' = [count EXCEPT !.crash = @ + 1]
  /\ cmd' = [cmd EXCEPT !.pc = "crashed", !.temp = None]
  /\ strays' = Orphaned
  /\ UNCHANGED <<store, artifacts, hooks, source, target, skill, lockFile, hook, spent, clean>>

-----------------------------------------------------------------------------
(* What goes on meanwhile.                                                 *)

\* execute_runtime_hook looks for the lock file once, then opens the Store.
HookCheck ==
  /\ ~hook /\ hooks.side \in artifacts /\ ~lockFile /\ count.event < MaxEvent
  /\ hook' = TRUE
  /\ UNCHANGED <<store, artifacts, hooks, source, target, skill, strays, lockFile, cmd, spent, clean, count>>

\* The event becomes its session's current prompt, in place of another or of none.
HookCapture ==
  /\ hook /\ hook' = FALSE
  /\ IF CoreSchema(store)
       THEN \E gone \in {{}} \union {{e} : e \in store.live} :
              /\ store' = [store EXCEPT !.events = @ \union {count.event + 1},
                                        !.live = (@ \ gone) \union {count.event + 1}]
              /\ count' = [count EXCEPT !.event = @ + 1]
       ELSE UNCHANGED <<store, count>>
  /\ UNCHANGED <<artifacts, hooks, source, target, skill, strays, lockFile, cmd, spent, clean>>

Usable(e) == CoreSchema(store) /\ e \in store.events /\ e \in store.live /\ e \notin store.used

Outside ==
  /\ count.outside < MaxOutside
  /\ count' = [count EXCEPT !.outside = @ + 1]
  /\ cmd' = [cmd EXCEPT !.disturbed = TRUE]

\* A rule command uses an approval; a global one moves source, target and binding.
Rule ==
  /\ Outside
  /\ (RulesMeanwhile \/ ~Running)
  /\ \E e \in Event :
       /\ Usable(e)
       /\ spent' = spent \union {e}
       /\ \E d \in Doc \union {None} :
            \/ /\ d = None
               /\ store' = [store EXCEPT !.used = @ \union {e}] /\ UNCHANGED <<source, target>>
            \/ /\ d \in Doc /\ store.bind # None /\ target = store.bind /\ source = store.bind
               /\ store' = [store EXCEPT !.used = @ \union {e}, !.bind = d]
               /\ source' = d /\ target' = d
  /\ UNCHANGED <<artifacts, hooks, skill, strays, lockFile, hook, clean>>

\* The user edits hooks.json, or the canonical checkout moves on.
EditHooks ==
  /\ Outside
  /\ hooks' = [hooks EXCEPT !.user = count.outside + 1]
  /\ UNCHANGED <<store, artifacts, source, target, skill, strays, lockFile, hook, spent, clean>>
Pull ==
  /\ Outside
  /\ \E d \in Doc \ {source} : source' = d
  /\ UNCHANGED <<store, artifacts, hooks, target, skill, strays, lockFile, hook, spent, clean>>

Work ==
  \/ CreateStore \/ Backup \/ Migrate \/ Bind \/ ReplaceStore \/ InstallArtifact \/ SelfTest
  \/ WriteTarget \/ WriteHooks \/ Snapshot \/ Prepare \/ Stash \/ Place \/ Drop \/ Doctor
  \/ Discard \/ Unlock
  \/ UndoReplace \/ UndoHooks \/ UndoTarget \/ UndoSkill \/ UndoSwap \/ UndoRegistry
  \/ UndoStore \/ UndoTemp

Next ==
  \/ \E v \in Version : Setup(v) \/ Cutover(v)
  \/ Work \/ Fail \/ UndoFails \/ Crash
  \/ HookCheck \/ HookCapture \/ Rule \/ EditHooks \/ Pull

Spec == Init /\ [][Next]_vars

-----------------------------------------------------------------------------
(* Properties.                                                             *)

\* hooks.json "only points to" an immutable artifact that is there, whatever
\* fails or crashes: the artifact is in place before the hooks name it.
HooksRunnable == hooks.side \in Version => hooks.side \in artifacts

\* A command that succeeded, or that undid itself on a host that was whole, leaves
\* one version everywhere, or the legacy or empty host it found.
WholeInstallation ==
  clean => CASE store.kind = "core"   -> /\ store.row # None /\ hooks.side = store.row
                                         /\ skill.dir = store.row
             [] store.kind = "legacy" -> hooks.side = "legacy"
             [] store.kind = "absent" -> hooks.side = None

\* "Approvals are one-time": no Store, migrated or restored, accepts an event
\* whose approval was used before.
ApprovalsOnce == \A e \in Event : Usable(e) => e \notin spent

\* A host that has a Skill keeps one in place or set aside, whatever fails or crashes
\* while it is exchanged; only the rollback of a first installation removes the last,
\* and the restoration, which holds the snapshot in its hand.
SkillHere == {skill.dir, skill.prev} \ {None}
SkillKept ==
  [][SkillHere # {} => \/ SkillHere' # {}
                       \/ cmd.start.skill = None /\ skill.prev = None
                       \/ At("undoSkill") /\ cmd.snapped]_vars

\* A setup fails only for a cause of its own time: whatever a crash of an earlier
\* command left on the host, the next one that may start repairs it.
SetupRepairs ==
  cmd.op = "setup" /\ cmd.pc \in {"undone", "broken"} => cmd.fault \/ cmd.disturbed

-----------------------------------------------------------------------------
(* The invariants the proofs rest on.                                      *)

Stores == [kind : {"absent", "core", "legacy"}, row : Version \union {None},
           bind : Doc \union {None}, events : SUBSET Event, live : SUBSET Event,
           used : SUBSET Event, doubt : 0..OldEvents, horizon : 0..OldEvents]
Hooks  == [side : Version \union {None, "legacy"}, user : 0..MaxOutside]
Skills == [dir : Version \union {None}, prev : Version \union {None}]
Starts == [store : Stores, hooks : Hooks, target : Doc \union {None},
           skill : Version \union {None}]
Undos(op)  == Steps(UndoOrder[op])
Pcs(op)    == Steps(Order[op]) \union Undos(op) \union Ended
Cmds == [op : {"setup", "cutover"}, ver : Version \union {None},
         pc : Pcs("setup") \union Pcs("cutover"), start : Starts \union {None},
         global : BOOLEAN, doc : Doc \union {None}, wrote : BOOLEAN, snapped : BOOLEAN,
         made : BOOLEAN, temp : Stores \union {None}, approval : Event \union {None},
         fault : BOOLEAN, disturbed : BOOLEAN, whole : BOOLEAN]
Migrating == {"artifact", "snapshot", "prepare", "stash", "place", "drop", "bind", "selftest",
              "replace"}
Counts == [command : 0..MaxCommands, crash : 0..MaxCrashes, fault : 0..MaxFaults,
           outside : 0..MaxOutside, event : 0..MaxEvent]

\* Store, hooks, Skill and command stay what the commands know how to read, and
\* a running command is at a step of its own kind.
TypeOK ==
  /\ store \in Stores /\ artifacts \subseteq Version /\ hooks \in Hooks
  /\ source \in Doc /\ target \in Doc \union {None} /\ skill \in Skills
  /\ strays \subseteq Version /\ lockFile \in BOOLEAN /\ hook \in BOOLEAN
  /\ spent \subseteq Event /\ clean \in BOOLEAN /\ count \in Counts
  /\ hook => count.event < MaxEvent
  /\ cmd \in Cmds /\ cmd.pc \in Pcs(cmd.op)
  /\ Running => cmd.ver \in Version /\ cmd.start \in Starts
  /\ Running /\ cmd.op = "cutover" => cmd.approval \in Event
  /\ cmd.op = "cutover" /\ cmd.pc \in Migrating => cmd.temp \in Stores

\* A command names its artifact only after it installed it.
PastArtifact == {"selftest", "target", "hooks", "snapshot", "prepare", "stash", "place", "drop",
                 "bind", "replace", "doctor", "discard", "unlock"}
HooksFit ==
  /\ HooksRunnable
  /\ Running /\ cmd.start.hooks.side \in Version => cmd.start.hooks.side \in artifacts
  /\ cmd.pc \in PastArtifact => cmd.ver \in artifacts

\* Where the copies of the Skill are while it is exchanged.
SkillFits ==
  /\ cmd.pc \in {"prepare", "stash", "place", "drop"} => cmd.snapped
  /\ At("prepare") => skill.dir = cmd.start.skill
  /\ At("stash") => skill.prev = None /\ (skill.dir = None => cmd.start.skill = None)
  /\ At("place") => skill.dir = None /\ (skill.prev = None => cmd.start.skill = None)
  /\ At("drop") => skill.dir = cmd.ver /\ (skill.prev = None => cmd.start.skill = None)
  /\ Running /\ ~cmd.snapped /\ ~At("unlock") => skill.dir = cmd.start.skill

\* The Store a setup works on is there, or its own.
SetupStore ==
  Running /\ cmd.op = "setup" =>
    /\ cmd.start.store.kind # "legacy"
    /\ cmd.start.store.kind = "core" => store.kind = "core" /\ ~cmd.made
    /\ cmd.start.store.kind # "core" => store.kind = IF cmd.made THEN "core" ELSE "absent"
    /\ At("store") => ~cmd.made
    /\ cmd.pc \in Steps(Order["setup"]) \ {"store"} => store.kind = "core"
    /\ At("undoStore") /\ cmd.start.store.kind = "core" => store.row = cmd.start.store.row

\* A cutover works on a copy; the legacy Store stays until it is replaced, and
\* is there again when that is undone.  The copy knows the approval it used.
Replaced == {"hooks", "doctor", "discard", "unlock"}
CutoverStore ==
  Running /\ cmd.op = "cutover" =>
    /\ cmd.start.store.kind = "legacy"
    /\ cmd.pc \in {"backup", "migrate"} \union Migrating => ~cmd.made
    /\ IF cmd.pc \in Replaced
         THEN store.kind = "core" /\ cmd.made /\ cmd.approval \in store.used
         ELSE store.kind = "legacy" \/ (At("undoReplace") /\ cmd.made)
    /\ cmd.pc \in Migrating => /\ cmd.temp.kind = "core"
                               /\ cmd.approval \in cmd.temp.used

\* What a Store says of the approvals that were used.
Remembers(s) ==
  /\ \A e \in s.events : e <= count.event
  /\ s.kind = "core" => \A e \in s.events \intersect s.live : e \notin s.used => e \notin spent
  /\ s.kind = "legacy" => \A e \in spent : e \in s.used \/ e <= s.doubt
ApprovalsFit ==
  /\ \A e \in spent : e <= count.event
  /\ Remembers(store)
  /\ Running /\ cmd.op = "cutover" => cmd.approval <= count.event /\ Remembers(cmd.start.store)
  /\ Running /\ cmd.op = "cutover" /\ cmd.pc \in Migrating => Remembers(cmd.temp)

\* What a command found, if it was whole, and what of it is back while it is undone.
Whole(s, side, dir) ==
  CASE s.kind = "core"   -> s.row # None /\ side = s.row /\ dir = s.row
    [] s.kind = "legacy" -> side = "legacy"
    [] s.kind = "absent" -> side = None
WholeFits ==
  /\ clean => ~Running /\ Whole(store, hooks.side, skill.dir)
  /\ Running /\ cmd.whole => Whole(cmd.start.store, cmd.start.hooks.side, cmd.start.skill)
  /\ cmd.pc \in {"discard", "unlock"} =>
       store.kind = "core" /\ Whole(store, hooks.side, skill.dir)
  /\ cmd.pc \in {"backup", "undoTarget", "undoSkill", "undoSwap", "undoRegistry", "undoStore",
                  "undoTemp"} => hooks.side = cmd.start.hooks.side
  /\ cmd.pc \in {"undoRegistry", "undoStore"} => ~cmd.snapped
  /\ cmd.op = "setup" /\ cmd.pc \in {"store", "artifact", "selftest", "target", "hooks", "snapshot"}
       => ~cmd.snapped

\* What an undisturbed setup has brought to its version so far.
RepairFits ==
  /\ cmd.op = "setup" /\ cmd.pc \in Undos("setup") \union {"undone", "broken"} =>
       cmd.fault \/ cmd.disturbed
  /\ cmd.op = "setup" /\ cmd.pc \in Steps(Order["setup"]) /\ ~cmd.disturbed =>
       /\ IF cmd.global THEN cmd.doc = source /\ cmd.doc \in Doc ELSE store.bind = None
       /\ IF cmd.pc \in {"store", "artifact", "selftest", "target"}
            THEN target = cmd.start.target ELSE cmd.global => target = cmd.doc
       /\ IF cmd.pc \in {"store", "artifact", "selftest", "target", "hooks"}
            THEN hooks.side = cmd.start.hooks.side ELSE hooks.side = cmd.ver
       /\ cmd.pc \in {"bind", "doctor", "discard"} => skill.dir = cmd.ver
       /\ cmd.pc \in {"doctor", "discard"} =>
            /\ store.row = cmd.ver
            /\ cmd.global => store.bind = cmd.doc
=============================================================================
