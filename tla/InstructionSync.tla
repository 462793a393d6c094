--------------------------- MODULE InstructionSync ---------------------------
(***************************************************************************)
(* One published AGENTS.md, copied to every host of a workstation          *)
(* (instruction_sync.py).  synchronize() is called twice: a preview, whose *)
(* hash the user reviews, and an apply that must observe the same again,   *)
(* take the locks, look once more, and change all hosts or none, with a    *)
(* journal of what it replaces while it runs.  Editors do not take the     *)
(* locks; a rule deployment does.                                          *)
(*                                                                         *)
(* Observing is one step: what it reads is read again under the lock.      *)
(* A commit stands for its snapshot directory; the override file, the      *)
(* path checks and Git's refusals are Refuse and Fails, at any step.       *)
(***************************************************************************)
EXTENDS Naturals, Sequences

CONSTANTS
  Proc,        \* calls of synchronize --apply, each with its preview
  Host,        \* host applications
  Targets,     \* the hosts in the order they are enrolled
  Commit,      \* commits of published main, 1..n: the bound on publications
  DocOf,       \* the document of a commit
  Edits,       \* documents a user may write into a host by hand
  MaxEdits, MaxCrashes, MaxFaults,
  ConfigFile,  \* names the configuration among the parts a call switches
  NoDoc, NoRow, None

ASSUME TargetsAssumption ==
  /\ Targets \in Seq(Host) /\ ConfigFile \notin Host
  /\ Host = {Targets[i] : i \in 1..Len(Targets)}
  /\ \A i, j \in 1..Len(Targets) : Targets[i] = Targets[j] => i = j
ASSUME DocAssumption ==
  /\ Commit \subseteq Nat \ {0} /\ 1 \in Commit
  /\ DOMAIN DocOf = Commit
\* A user's own text is none of the published ones: a call cannot tell a copy
\* made by hand from what it wrote itself.
ASSUME EditsAssumption == \A c \in Commit : DocOf[c] \notin Edits
ASSUME BoundAssumption == {MaxEdits, MaxCrashes, MaxFaults} \subseteq Nat

Docs     == {DocOf[c] : c \in Commit} \union Edits
BindRow  == [commit : Commit, doc : Docs]

VARIABLES
  remote,    \* head of the published main
  file,      \* AGENTS.md of each host
  bind,      \* global_instruction_binding row in each host's Store
  store,     \* whether the host has a Store
  config,    \* instruction-sync.json: the commit it names
  journal,   \* instruction-sync-recovery.json; its field by is history
  snap,      \* snapshot directory of each commit
  lock,      \* holder of the state and target locks
  call,      \* each call: where it stands and what it remembers
  sealed,    \* history: the journal is that of a call whose last write is done
  latest,    \* history: what a user, a deployment or a finished call last put in a host
  faults     \* edits, crashes and failures so far

vars == <<remote, file, bind, store, config, journal, snap, lock, call, sealed,
          latest, faults>>
hostVars == <<file, bind, store>>

-----------------------------------------------------------------------------
(* What a call observes, plans and journals.                               *)

Obs == [commit |-> remote, config |-> config, file |-> file, bind |-> bind]
Seen(c) == c.plan          \* the observation behind the reviewed plan hash
Data(c) == DocOf[Seen(c).commit]

\* No target of an observation has drifted from its binding, adopted hosts aside.
Admissible(o, adopted) ==
  \A h \in Host :
    \/ o.file[h] \in {NoDoc, DocOf[o.commit]}
    \/ h \in adopted
    \/ o.bind[h] # NoRow /\ o.file[h] = o.bind[h].doc

\* The checkouts the call reads, its own and the hosts', have nothing unpublished.
SourcesClean(o) ==
  /\ o.config # None => snap[o.config] # "dirty"
  /\ \A h \in Host : o.bind[h] # NoRow => snap[o.bind[h].commit] # "dirty"

\* (mutant) Only the binding is compared with what the preview read.
HostAsSeen_Binding(c, h) == bind[h] = Seen(c).bind[h]
HostAsSeen(c, h) == file[h] = Seen(c).file[h] /\ bind[h] = Seen(c).bind[h]

Idle == [pc |-> "idle", plan |-> None, adopt |-> {}, i |-> 0, created |-> FALSE,
         failed |-> {}]
Goto(p, step) == call' = [call EXCEPT ![p].pc = step]
Release(p)    == lock' = IF lock = p THEN None ELSE lock

\* Steps of _apply inside its try block, and the exceptions a step may raise.
Protected == {"check", "write", "bind", "readback", "config", "seal"}
Undoing   == {"undoCheck", "undoWrite", "undoBind", "undoConfig", "undoEnd", "discard"}
Holding   == {"recheck", "snapshot", "copying", "journal", "finish"} \union Protected \union Undoing
Ended     == {"applied", "refused", "undone", "incomplete", "crashed"}

Cur(c) == Targets[c.i]

\* Where an exception in the try block goes: the last touched host, or the config.
Undo(c) == [c EXCEPT !.pc = IF c.i = 0 THEN "undoConfig" ELSE "undoCheck"]

Init ==
  /\ remote = 1 /\ config = None /\ journal = None /\ lock = None /\ sealed = FALSE
  /\ \E bound \in SUBSET Host :
       /\ bind  = [h \in Host |-> IF h \in bound
                                    THEN [commit |-> 1, doc |-> DocOf[1]] ELSE NoRow]
       /\ store = [h \in Host |-> h \in bound]
       /\ snap  = [c \in Commit |-> IF c = 1 /\ bound # {} THEN "clean" ELSE "absent"]
       /\ file \in [Host -> {NoDoc, DocOf[1]} \union Edits]
       /\ \A h \in bound : file[h] = DocOf[1]
  /\ call = [p \in Proc |-> Idle]
  /\ latest = file
  /\ faults = [edit |-> 0, crash |-> 0, fail |-> 0]

-----------------------------------------------------------------------------
(* synchronize(): preview, then apply up to the lock.                      *)

Preview(p) ==
  /\ call[p].pc = "idle"
  /\ journal = None
  /\ \E adopted \in SUBSET {h \in Host : bind[h] = NoRow /\ file[h] # NoDoc} :
       /\ Admissible(Obs, adopted)
       /\ SourcesClean(Obs)
       /\ call' = [call EXCEPT ![p].pc = "planned", ![p].plan = Obs, ![p].adopt = adopted]
  /\ UNCHANGED <<remote, hostVars, config, journal, snap, lock, sealed, latest, faults>>

\* The apply call makes the plan again; its hash must be the reviewed one.
Begin(p) ==
  /\ call[p].pc = "planned"
  /\ IF journal = None /\ Obs = Seen(call[p]) /\ SourcesClean(Obs)
       THEN Goto(p, "lock") ELSE Goto(p, "refused")
  /\ UNCHANGED <<remote, hostVars, config, journal, snap, lock, sealed, latest, faults>>

Lock(p) ==
  /\ call[p].pc = "lock" /\ lock = None
  /\ lock' = p
  /\ Goto(p, "recheck")
  /\ UNCHANGED <<remote, hostVars, config, journal, snap, sealed, latest, faults>>

\* (mutant) The journal of another call is not looked for again under the locks.
Recheck_NoJournal(p) ==
  /\ call[p].pc = "recheck"
  /\ Goto(p, "snapshot")
  /\ UNCHANGED <<remote, hostVars, config, journal, snap, lock, sealed, latest, faults>>

Recheck(p) ==
  /\ call[p].pc = "recheck"
  /\ IF /\ journal = None /\ config = Seen(call[p]).config
        /\ \A h \in Host : HostAsSeen(call[p], h)
        /\ SourcesClean(Seen(call[p]))
       THEN Goto(p, "snapshot") /\ UNCHANGED lock
       ELSE Goto(p, "refused") /\ Release(p)
  /\ UNCHANGED <<remote, hostVars, config, journal, snap, sealed, latest, faults>>

\* A refusal the model has no state for: a lock timeout, an override file, Git.
Refuse(p) ==
  /\ call[p].pc \in {"planned", "lock", "recheck", "snapshot", "copying", "journal"}
  /\ Goto(p, "refused") /\ Release(p)
  /\ faults.fail < MaxFaults
  /\ faults' = [faults EXCEPT !.fail = @ + 1]
  /\ UNCHANGED <<remote, hostVars, config, journal, snap, sealed, latest>>

-----------------------------------------------------------------------------
(* _apply(): the snapshot of the source, the journal, the hosts, the config. *)

\* An existing snapshot must be the verified one; a missing one is copied.
Snapshot(p) ==
  /\ call[p].pc = "snapshot"
  /\ LET c == Seen(call[p]).commit IN
       \/ /\ snap[c] = "clean" /\ Goto(p, "journal") /\ UNCHANGED <<lock, snap>>
       \/ /\ snap[c] = "absent" /\ Goto(p, "copying")
          /\ snap' = [snap EXCEPT ![c] = "partial"] /\ UNCHANGED lock
       \/ /\ snap[c] \notin {"clean", "absent"}
          /\ Goto(p, "refused") /\ Release(p) /\ UNCHANGED snap
  /\ UNCHANGED <<remote, hostVars, config, journal, sealed, latest, faults>>

CopyTree(p) ==
  /\ call[p].pc = "copying"
  /\ snap' = [snap EXCEPT ![Seen(call[p]).commit] = "clean"]
  /\ call' = [call EXCEPT ![p].pc = "journal", ![p].created = TRUE]
  /\ UNCHANGED <<remote, hostVars, config, journal, lock, sealed, latest, faults>>

WriteJournal(p) ==
  /\ call[p].pc = "journal"
  /\ journal' = [file |-> Seen(call[p]).file, bind |-> Seen(call[p]).bind, store |-> store,
                 config |-> Seen(call[p]).config, by |-> p]
  /\ sealed' = FALSE
  /\ Goto(p, "check")
  /\ UNCHANGED <<remote, hostVars, config, snap, lock, latest, faults>>

\* Between two hosts: the next one must still be as it was planned.
CheckHost(p) ==
  /\ call[p].pc = "check"
  /\ LET c == call[p] IN
       IF c.i = Len(Targets) THEN Goto(p, "config")
       ELSE IF HostAsSeen(c, Targets[c.i + 1])
              THEN call' = [call EXCEPT ![p].pc = "write", ![p].i = c.i + 1]
              ELSE call' = [call EXCEPT ![p] = Undo(c)]
  /\ UNCHANGED <<remote, hostVars, config, journal, snap, lock, sealed, latest, faults>>

WriteFile(p) ==
  /\ call[p].pc = "write"
  /\ LET c == call[p] IN
       file' = IF Seen(c).file[Cur(c)] = Data(c) THEN file ELSE [file EXCEPT ![Cur(c)] = Data(c)]
  /\ Goto(p, "bind")
  /\ UNCHANGED <<remote, bind, store, config, journal, snap, lock, sealed, latest, faults>>

NewRow(c) == [commit |-> Seen(c).commit, doc |-> Data(c)]

SetBinding(p) ==
  /\ call[p].pc = "bind"
  /\ LET c == call[p] IN
       IF Seen(c).bind[Cur(c)] = NewRow(c) THEN UNCHANGED <<bind, store>>
       ELSE /\ bind' = [bind EXCEPT ![Cur(c)] = NewRow(c)]
            /\ store' = [store EXCEPT ![Cur(c)] = TRUE]
  /\ Goto(p, "readback")
  /\ UNCHANGED <<remote, file, config, journal, snap, lock, sealed, latest, faults>>

Readback(p) ==
  /\ call[p].pc = "readback"
  /\ LET c == call[p] IN
       IF file[Cur(c)] = Data(c) THEN Goto(p, "check")
       ELSE call' = [call EXCEPT ![p] = Undo(c)]
  /\ UNCHANGED <<remote, hostVars, config, journal, snap, lock, sealed, latest, faults>>

WriteConfig(p) ==
  /\ call[p].pc = "config"
  /\ config' = Seen(call[p]).commit
  /\ Goto(p, "seal")
  /\ UNCHANGED <<remote, hostVars, journal, snap, lock, sealed, latest, faults>>

\* The configuration is read back; this was the last step that could fail.
Seal(p) ==
  /\ call[p].pc = "seal"
  /\ sealed' = TRUE
  /\ latest' = [h \in Host |-> IF file[h] = Data(call[p]) THEN file[h] ELSE latest[h]]
  /\ Goto(p, "finish")
  /\ UNCHANGED <<remote, hostVars, config, journal, snap, lock, faults>>

\* The journal of a finished call is removed, or stays if that fails.
Finish(p) ==
  /\ call[p].pc = "finish"
  /\ \/ journal' = None /\ sealed' = FALSE /\ UNCHANGED faults
     \/ /\ faults.fail < MaxFaults /\ faults' = [faults EXCEPT !.fail = @ + 1]
        /\ UNCHANGED <<journal, sealed>>
  /\ Goto(p, "applied") /\ Release(p)
  /\ UNCHANGED <<remote, hostVars, config, snap, latest>>

-----------------------------------------------------------------------------
(* The except block: put back, in reverse, what the call has touched.      *)

Fails(p) ==
  /\ call[p].pc \in Protected
  /\ faults.fail < MaxFaults
  /\ faults' = [faults EXCEPT !.fail = @ + 1]
  /\ call' = [call EXCEPT ![p] = Undo(call[p])]
  /\ UNCHANGED <<remote, hostVars, config, journal, snap, lock, sealed, latest>>

Below(c) == Undo([c EXCEPT !.i = c.i - 1])
\* (mutant) A host that could not be restored is not remembered.
NotUndone_Forgotten(c) == Below(c)
NotUndone(c) == [Below(c) EXCEPT !.failed = @ \union {Cur(c)}]

\* A content neither old nor new is a user's, and stays.
UndoCheck(p) ==
  /\ call[p].pc = "undoCheck"
  /\ LET c == call[p] IN
       IF file[Cur(c)] \in {Seen(c).file[Cur(c)], Data(c)} THEN Goto(p, "undoWrite")
       ELSE call' = [call EXCEPT ![p] = NotUndone(c)]
  /\ UNCHANGED <<remote, hostVars, config, journal, snap, lock, sealed, latest, faults>>

UndoFile(p) ==
  /\ call[p].pc = "undoWrite"
  /\ file' = [file EXCEPT ![Cur(call[p])] = Seen(call[p]).file[Cur(call[p])]]
  /\ Goto(p, "undoBind")
  /\ UNCHANGED <<remote, bind, store, config, journal, snap, lock, sealed, latest, faults>>

UndoBinding(p) ==
  /\ call[p].pc = "undoBind"
  /\ LET c == call[p] IN
       /\ bind'  = [bind  EXCEPT ![Cur(c)] = Seen(c).bind[Cur(c)]]
       /\ store' = [store EXCEPT ![Cur(c)] = journal.store[Cur(c)]]
       /\ call' = [call EXCEPT ![p] = Below(c)]
  /\ UNCHANGED <<remote, file, config, journal, snap, lock, sealed, latest, faults>>

UndoFails(p) ==
  /\ call[p].pc \in {"undoCheck", "undoWrite", "undoBind", "undoConfig"}
  /\ faults.fail < MaxFaults
  /\ faults' = [faults EXCEPT !.fail = @ + 1]
  /\ LET c == call[p] IN
       call' = [call EXCEPT ![p] =
                 IF c.pc = "undoConfig" THEN [c EXCEPT !.pc = "undoEnd", !.failed = @ \union {None}]
                 ELSE NotUndone(c)]
  /\ UNCHANGED <<remote, hostVars, config, journal, snap, lock, sealed, latest>>

\* (mutant) The rollback leaves the configuration as it is.
UndoConfig_Skipped(p) ==
  /\ call[p].pc = "undoConfig"
  /\ Goto(p, "undoEnd")
  /\ UNCHANGED <<remote, hostVars, config, journal, snap, lock, sealed, latest, faults>>

UndoConfig(p) ==
  /\ call[p].pc = "undoConfig"
  /\ config' = Seen(call[p]).config
  /\ Goto(p, "undoEnd")
  /\ UNCHANGED <<remote, hostVars, journal, snap, lock, sealed, latest, faults>>

\* The journal goes, with a snapshot made for this call, only when all is back.
UndoEnd(p) ==
  /\ call[p].pc = "undoEnd"
  /\ LET c == call[p] IN
       IF c.failed # {} THEN Goto(p, "incomplete") /\ Release(p) /\ UNCHANGED <<journal, snap>>
       ELSE /\ journal' = None
            /\ IF c.created
                 THEN /\ snap' = [snap EXCEPT ![Seen(c).commit] = "partial"]
                      /\ Goto(p, "discard") /\ UNCHANGED lock
                 ELSE Goto(p, "undone") /\ Release(p) /\ UNCHANGED snap
  /\ UNCHANGED <<remote, hostVars, config, sealed, latest, faults>>

Discard(p) ==
  /\ call[p].pc = "discard"
  /\ snap' = [snap EXCEPT ![Seen(call[p]).commit] = "absent"]
  /\ Goto(p, "undone") /\ Release(p)
  /\ UNCHANGED <<remote, hostVars, config, journal, sealed, latest, faults>>

-----------------------------------------------------------------------------
(* The rest of the workstation and of the world.                           *)

Crash(p) ==
  /\ call[p].pc \in Holding \union {"lock"}
  /\ faults.crash < MaxCrashes
  /\ faults' = [faults EXCEPT !.crash = @ + 1]
  /\ Goto(p, "crashed") /\ Release(p)
  /\ UNCHANGED <<remote, hostVars, config, journal, snap, sealed, latest>>

\* The instant between a check of a host's file and the write it allows.
InWindow(h) ==
  \E p \in Proc : call[p].pc \in {"write", "undoWrite"} /\ Cur(call[p]) = h

ExternalEdit(h) ==
  /\ faults.edit < MaxEdits
  /\ faults' = [faults EXCEPT !.edit = @ + 1]
  /\ \E e \in Edits \ {file[h]} :
       /\ file' = [file EXCEPT ![h] = e]
       /\ latest' = IF InWindow(h) THEN latest ELSE [latest EXCEPT ![h] = e]
  /\ UNCHANGED <<remote, bind, store, config, journal, snap, lock, call, sealed>>

\* A global rule deployment from host h: source and target under their locks.
Deploy(h) ==
  /\ lock = None
  /\ remote + 1 \in Commit
  /\ bind[h] # NoRow /\ snap[bind[h].commit] = "clean" /\ file[h] = bind[h].doc
  /\ LET d == DocOf[remote + 1] IN
       /\ file' = [file EXCEPT ![h] = d]
       /\ bind' = [bind EXCEPT ![h].doc = d]
       /\ latest' = [latest EXCEPT ![h] = d]
       /\ snap' = [snap EXCEPT ![bind[h].commit] = "dirty"]
  /\ UNCHANGED <<remote, store, config, journal, lock, call, sealed, faults>>

\* A new commit reaches main, from another device or from the checkout at c.
Publish ==
  /\ remote + 1 \in Commit
  /\ remote' = remote + 1
  /\ \/ UNCHANGED snap
     \/ snap[remote] = "dirty" /\ snap' = [snap EXCEPT ![remote] = "moved"]
  /\ UNCHANGED <<hostVars, config, journal, lock, call, sealed, latest, faults>>

Step(p) ==
  \/ Preview(p) \/ Begin(p) \/ Lock(p) \/ Recheck(p) \/ Snapshot(p) \/ CopyTree(p)
  \/ WriteJournal(p) \/ CheckHost(p) \/ WriteFile(p) \/ SetBinding(p) \/ Readback(p)
  \/ WriteConfig(p) \/ Seal(p) \/ Finish(p) \/ UndoCheck(p) \/ UndoFile(p) \/ UndoBinding(p)
  \/ UndoConfig(p) \/ UndoEnd(p) \/ Discard(p)

Next ==
  \/ \E p \in Proc : Step(p) \/ Refuse(p) \/ Fails(p) \/ UndoFails(p) \/ Crash(p)
  \/ \E h \in Host : ExternalEdit(h) \/ Deploy(h)
  \/ Publish

Spec == Init /\ [][Next]_vars

-----------------------------------------------------------------------------
Steps == {"idle", "planned", "lock"} \union Holding \union Ended
SnapStates == {"absent", "partial", "clean", "dirty", "moved"}
Files == [Host -> Docs \union {NoDoc}]
Binds == [Host -> BindRow \union {NoRow}]
Plans == [commit : Commit, config : Commit \union {None}, file : Files, bind : Binds]
Journals == [file : Files, bind : Binds, store : [Host -> BOOLEAN],
             config : Commit \union {None}, by : Proc]
Calls == [pc : Steps, plan : Plans \union {None}, adopt : SUBSET Host,
          i : 0..Len(Targets), created : BOOLEAN, failed : SUBSET (Host \union {None})]

Counts == [edit : 0..MaxEdits, crash : 0..MaxCrashes, fail : 0..MaxFaults]

ASSUME NullAssumption ==
  None \notin Proc \union Commit \union Plans \union Journals /\ NoRow \notin BindRow

\* Hosts, registry, configuration, journal, snapshots and calls stay what
\* synchronize() knows how to read: a bound row has a commit and a document.
TypeOK ==
  /\ remote \in Commit
  /\ file \in Files /\ latest \in Files
  /\ bind \in Binds
  /\ store \in [Host -> BOOLEAN]
  /\ config \in Commit \union {None}
  /\ journal \in Journals \union {None}
  /\ snap \in [Commit -> SnapStates]
  /\ lock \in Proc \union {None}
  /\ call \in [Proc -> Calls]
  /\ sealed \in BOOLEAN
  /\ faults \in Counts

\* What a user or a deployment put in a host is there, or in the journal a
\* reviewer recovers from, until a finished call replaces it.  Edits that land
\* between a check and its write are not counted (InWindow).
ContentKept ==
  \A h \in Host : file[h] # latest[h] => journal # None /\ journal.file[h] = latest[h]

\* A journal is only removed after a rollback that restored every row, Store and
\* the configuration: "an exception restores touched files and registry rows".
RollbackComplete ==
  [][journal # None /\ journal' = None /\ ~sealed =>
       bind' = journal.bind /\ store' = journal.store /\ config' = journal.config]_vars

\* An interrupted transaction "requires reviewed recovery": only the call that
\* wrote a journal, still running and holding the locks, replaces or removes it,
\* and no other call writes hosts or configuration meanwhile.
JournalBlocks ==
  [][journal # None =>
       /\ journal' # journal => call[journal.by].pc \in Holding /\ lock = journal.by
       /\ <<config, store>>' # <<config, store>> => lock = journal.by]_vars

\* Unfinished calls count as not having begun: the journal tells what was there.
Pending  == journal # None /\ ~sealed
HeldBy(row) == IF row = NoRow THEN None ELSE row.commit
Versions == [part \in Host \union {ConfigFile} |->
               IF part = ConfigFile THEN IF Pending THEN journal.config ELSE config
               ELSE HeldBy(IF Pending THEN journal.bind[part] ELSE bind[part])]

Switching == INSTANCE AtomicSwitch WITH
  Part <- Host \union {ConfigFile}, Version <- Commit, version <- Versions

\* The hosts and the configuration move to a commit together: each step of a
\* synchronization is a switch of all of them or changes nothing of that.
SyncIsAtomic == Switching!Spec

-----------------------------------------------------------------------------
(* The invariant the proofs rest on.                                       *)

Restored(h) == bind[h] = journal.bind[h] /\ store[h] = journal.store[h]
Replaced(c, j) == j < c.i \/ (j = c.i /\ c.pc \notin {"write", "bind"})

\* A call holds the locks from its recheck to its end and knows its plan.
CallFits(p, c) ==
  /\ c.pc \in Holding <=> lock = p
  /\ c.pc \in Holding \union {"planned", "lock"} => c.plan \in Plans
  /\ c.pc \in {"idle", "planned", "lock", "recheck", "snapshot", "copying", "journal"} =>
       c.i = 0 /\ c.failed = {}

\* From its recheck to its journal it finds rows and configuration as planned.
SeenFits(c) ==
  c.pc \in {"snapshot", "copying", "journal"} =>
    journal = None /\ config = c.plan.config /\ bind = c.plan.bind

\* The journal of a call that writes or undoes is its own and holds its plan.
JournalFits(p, c) ==
  /\ c.pc \in Protected \union (Undoing \ {"discard"}) \union {"finish"} =>
       /\ journal # None /\ journal.by = p
       /\ journal.bind = c.plan.bind /\ journal.config = c.plan.config
  /\ c.pc \in Protected \union (Undoing \ {"discard"}) => ~sealed
  /\ c.pc = "finish" => sealed

\* Going forward, hosts up to the current one have the new row, the others are
\* as in the journal; the configuration is written when all hosts are.
ForwardFits(c) ==
  /\ c.pc \in Protected =>
       /\ c.failed = {}
       /\ c.pc # "seal" => config = c.plan.config
       /\ \A j \in 1..Len(Targets) :
            IF Replaced(c, j) THEN bind[Targets[j]] = NewRow(c) ELSE Restored(Targets[j])
  /\ c.pc \in {"write", "bind", "readback"} => c.i # 0
  /\ c.pc \in {"config", "seal"} => c.i = Len(Targets)
  /\ c.pc = "seal" => config = c.plan.commit

\* Going back, hosts above the current one are as in the journal, but those
\* the call remembers as failed; the configuration comes last.
BackFits(c) ==
  c.pc \in Undoing \ {"discard"} =>
    /\ \A j \in 1..Len(Targets) : j > c.i /\ Targets[j] \notin c.failed => Restored(Targets[j])
    /\ IF c.pc \in {"undoConfig", "undoEnd"} THEN c.i = 0 ELSE c.i # 0
    /\ c.pc = "undoEnd" /\ c.failed = {} => config = c.plan.config

Fits(p, c) == CallFits(p, c) /\ SeenFits(c) /\ JournalFits(p, c) /\ ForwardFits(c) /\ BackFits(c)
CallsFit   == \A p \in Proc : Fits(p, call[p])

\* Every host is at the commit the configuration names, once it names one.
InStep == Versions[ConfigFile] # None => \A h \in Host : Versions[h] = Versions[ConfigFile]

\* The calls, the journal and what they have written so far fit each other.
SyncInvariant == TypeOK /\ CallsFit /\ InStep

\* From its recheck to the end of its try block or rollback, a call's plan has
\* what the user last put in a host, or the host itself has a later edit.
Journaled == Protected \union (Undoing \ {"discard"})
KeepsText(c) ==
  /\ c.pc \in {"snapshot", "copying", "journal"} \union Journaled =>
       \A h \in Host : \/ latest[h] = c.plan.file[h]
                       \/ latest[h] \in Edits /\ latest[h] = file[h]
  /\ c.pc \in Journaled => journal.file = c.plan.file
  /\ c.pc \in {"write", "undoWrite"} => latest[Cur(c)] = c.plan.file[Cur(c)]

\* Going forward, the hosts to come have what the user last put there, and
\* those read back have the new document or a later edit.
ReadBack(c, j) == j < c.i \/ (j = c.i /\ c.pc \notin {"write", "bind", "readback"})
ForwardText(c) ==
  c.pc \in Protected =>
    \A j \in 1..Len(Targets) :
      /\ j > c.i => file[Targets[j]] = latest[Targets[j]]
      /\ ReadBack(c, j) => file[Targets[j]] \in {Data(c), latest[Targets[j]]}

\* Going back, the hosts above the current one have it again, but the failed.
BackText(c) ==
  /\ c.pc \in Undoing \ {"discard"} =>
       \A j \in 1..Len(Targets) :
         j > c.i /\ Targets[j] \notin c.failed => file[Targets[j]] = latest[Targets[j]]
  /\ c.pc = "undoBind" => file[Cur(c)] = latest[Cur(c)]

\* A call that is done has replaced what was there before.
DoneText(c) == c.pc = "finish" => file = latest

TextFits(c) == KeepsText(c) /\ ForwardText(c) /\ BackText(c) /\ DoneText(c)

\* What users and deployments put in the hosts is where the calls know it.
ContentInvariant == ContentKept /\ \A p \in Proc : TextFits(call[p])
=============================================================================
