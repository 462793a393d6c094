------------------------ MODULE InstructionSyncProofs ------------------------
(***************************************************************************)
(* SyncInvariant is inductive for any calls, hosts, commits and faults: a  *)
(* call that holds the locks knows which hosts it has moved, and its       *)
(* journal what they were.  From it follow that a synchronization is one   *)
(* switch of all hosts and the configuration or none, that only the writer *)
(* of a journal removes it, and that a rollback restored what it says.     *)
(* ContentInvariant adds what users and deployments last put in the hosts. *)
(*                                                                         *)
(* A step has a lemma of its own, which shows what it makes of its call    *)
(* (Fits) and of the versions seen from outside; MoveKeeps adds the other  *)
(* calls, OutsideKeeps, BackKeeps and OthersKeep what similar steps share. *)
(***************************************************************************)
EXTENDS InstructionSync, TLAPS

Inv == SyncInvariant

USE NullAssumption
USE DEF Inv, SyncInvariant

\* The targets list every host once, and the configuration is none of them.
LEMMA Numbers == Len(Targets) \in Nat /\ \A j \in 1..Len(Targets) : Targets[j] \in Host
  BY TargetsAssumption

LEMMA Listed == \A h \in Host : \E j \in 1..Len(Targets) : h = Targets[j]
  BY TargetsAssumption

LEMMA Distinct == \A i, j \in 1..Len(Targets) : i # j => Targets[i] # Targets[j]
  BY TargetsAssumption

LEMMA ConfigApart == ConfigFile \notin Host
  BY TargetsAssumption

LEMMA Orders ==
  ASSUME NEW m \in Nat, NEW n \in Nat
  PROVE  (m < n + 1 <=> m <= n) /\ (m > n => ~(m <= n)) /\ ~(m < m)
  OBVIOUS

LEMMA StepKinds ==
  /\ \A s \in Holding : s \in Steps /\ s \notin {"idle", "planned", "lock"} \union Ended
  /\ \A s \in Ended : s \in Steps
  /\ Protected \subseteq Holding /\ Undoing \subseteq Holding
  BY DEF Holding, Steps, Protected, Undoing, Ended

LEMMA CommitDocs == \A c \in Commit : DocOf[c] \in Docs
  BY DEF Docs

\* A fault is counted only below its bound.
LEMMA Counted ==
  ASSUME NEW f \in Counts
  PROVE  /\ f.fail < MaxFaults => [f EXCEPT !.fail = @ + 1] \in Counts
         /\ f.crash < MaxCrashes => [f EXCEPT !.crash = @ + 1] \in Counts
         /\ f.edit < MaxEdits => [f EXCEPT !.edit = @ + 1] \in Counts
  <1>1. MaxEdits \in Nat /\ MaxCrashes \in Nat /\ MaxFaults \in Nat
    BY BoundAssumption
  <1>2. f.edit \in 0..MaxEdits /\ f.crash \in 0..MaxCrashes /\ f.fail \in 0..MaxFaults
    BY DEF Counts
  <1>3. f = [edit |-> f.edit, crash |-> f.crash, fail |-> f.fail]
    BY DEF Counts
  <1>4. ASSUME f.fail < MaxFaults PROVE [f EXCEPT !.fail = @ + 1] \in Counts
    <2>1. f.fail + 1 \in 0..MaxFaults
      BY <1>1, <1>2, <1>4
    <2>2. [f EXCEPT !.fail = @ + 1] = [edit |-> f.edit, crash |-> f.crash, fail |-> f.fail + 1]
      BY <1>3
    <2> QED
      BY <1>2, <2>1, <2>2 DEF Counts
  <1>5. ASSUME f.crash < MaxCrashes PROVE [f EXCEPT !.crash = @ + 1] \in Counts
    <2>1. f.crash + 1 \in 0..MaxCrashes
      BY <1>1, <1>2, <1>5
    <2>2. [f EXCEPT !.crash = @ + 1] = [edit |-> f.edit, crash |-> f.crash + 1, fail |-> f.fail]
      BY <1>3
    <2> QED
      BY <1>2, <2>1, <2>2 DEF Counts
  <1>6. ASSUME f.edit < MaxEdits PROVE [f EXCEPT !.edit = @ + 1] \in Counts
    <2>1. f.edit + 1 \in 0..MaxEdits
      BY <1>1, <1>2, <1>6
    <2>2. [f EXCEPT !.edit = @ + 1] = [edit |-> f.edit + 1, crash |-> f.crash, fail |-> f.fail]
      BY <1>3
    <2> QED
      BY <1>2, <2>1, <2>2 DEF Counts
  <1> QED
    BY <1>4, <1>5, <1>6

LEMMA SameRows ==
  ASSUME NEW f \in Binds, NEW g \in Binds, \A h \in Host : f[h] = g[h]
  PROVE  f = g
  BY DEF Binds

LEMMA InitialInv == Init => Inv
  <1> SUFFICES ASSUME Init PROVE Inv
    OBVIOUS
  <1>1. PICK bound \in SUBSET Host :
          /\ bind  = [h \in Host |-> IF h \in bound
                                       THEN [commit |-> 1, doc |-> DocOf[1]] ELSE NoRow]
          /\ store = [h \in Host |-> h \in bound]
          /\ snap  = [c \in Commit |-> IF c = 1 /\ bound # {} THEN "clean" ELSE "absent"]
          /\ file \in [Host -> {NoDoc, DocOf[1]} \union Edits]
    BY DEF Init
  <1>2. bind \in Binds /\ store \in [Host -> BOOLEAN] /\ file \in Files
    <2>1. bind \in Binds
      BY <1>1, CommitDocs, DocAssumption DEF Binds, BindRow
    <2>2. store \in [Host -> BOOLEAN]
      BY <1>1
    <2>3. file \in Files
      BY <1>1, CommitDocs, DocAssumption DEF Files, Docs
    <2> QED
      BY <2>1, <2>2, <2>3
  <1>3. Idle \in Calls
    BY Numbers DEF Idle, Calls, Steps
  <1>4. TypeOK
    <2>1. snap \in [Commit -> SnapStates]
      BY <1>1 DEF SnapStates
    <2>2. call \in [Proc -> Calls]
      BY <1>3 DEF Init
    <2>3. faults \in Counts
      BY BoundAssumption DEF Init, Counts
    <2>4. remote \in Commit /\ config = None /\ journal = None /\ lock = None
          /\ sealed = FALSE /\ latest = file
      BY DocAssumption DEF Init
    <2> QED
      BY <1>2, <2>1, <2>2, <2>3, <2>4 DEF TypeOK
  <1>5. ASSUME NEW p \in Proc PROVE Fits(p, call[p])
    <2>1. call[p] = Idle /\ lock = None /\ p # None
      BY DEF Init
    <2> QED
      BY <2>1 DEF Idle, Fits, CallFits, SeenFits, JournalFits, ForwardFits, BackFits,
                  Holding, Protected, Undoing
  <1>6. InStep
    BY DEF Init, InStep, Versions, Pending
  <1> QED
    BY <1>4, <1>5, <1>6 DEF CallsFit

-----------------------------------------------------------------------------
(* What a step makes of its call, and of the version seen from outside.    *)

\* Only p's call moves, to step s.
Moved(p, s) == /\ call' \in [Proc -> Calls] /\ call'[p].pc = s
               /\ \A r \in Proc \ {p} : call'[r] = call[r]
SamePlan(p) == call'[p].plan = call[p].plan
SameCall(p) == SamePlan(p) /\ call'[p].i = call[p].i /\ call'[p].failed = call[p].failed

LEMMA PcOnly ==
  ASSUME NEW c \in Calls, NEW s \in Steps, NEW d, d = [c EXCEPT !.pc = s]
  PROVE  /\ d \in Calls /\ d.pc = s
         /\ d.plan = c.plan /\ d.i = c.i /\ d.failed = c.failed
  BY DEF Calls

LEMMA CallMoves ==
  ASSUME TypeOK, NEW p \in Proc, NEW c \in Calls, call' = [call EXCEPT ![p] = c]
  PROVE  Moved(p, c.pc) /\ call'[p] = c
  BY DEF TypeOK, Moved

LEMMA PlanMoves ==
  ASSUME TypeOK, NEW p \in Proc, NEW o \in Plans, NEW a \in SUBSET Host,
         call' = [call EXCEPT ![p].pc = "planned", ![p].plan = o, ![p].adopt = a]
  PROVE  /\ Moved(p, "planned") /\ call'[p].plan = o
         /\ call'[p].i = call[p].i /\ call'[p].failed = call[p].failed
  <1>1. call \in [Proc -> Calls] /\ call[p] \in Calls
    BY DEF TypeOK
  <1> DEFINE c == call[p]
             d == [c EXCEPT !.pc = "planned", !.plan = o, !.adopt = a]
  <1>2. d = [call[p] EXCEPT !.pc = "planned", !.plan = o, !.adopt = a]
    OBVIOUS
  <1>3. /\ d \in Calls /\ d.pc = "planned" /\ d.plan = o
        /\ d.i = call[p].i /\ d.failed = call[p].failed
    <2> c \in Calls
      BY <1>1
    <2>1. d = [c EXCEPT !.pc = "planned", !.plan = o, !.adopt = a]
      OBVIOUS
    <2> HIDE DEF c, d
    <2>2. /\ d \in Calls /\ d.pc = "planned" /\ d.plan = o
          /\ d.i = c.i /\ d.failed = c.failed
      BY <2>1 DEF Calls, Steps
    <2> QED
      BY <2>2 DEF c
  <1> HIDE DEF d
  <1>4. call'[p] = d /\ \A r \in Proc \ {p} : call'[r] = call[r]
    BY <1>1, <1>2
  <1>5. call' \in [Proc -> Calls]
    BY <1>1, <1>2, <1>3
  <1> QED
    BY <1>3, <1>4, <1>5 DEF Moved

LEMMA GotoMoves ==
  ASSUME TypeOK, NEW p \in Proc, NEW s \in Steps, Goto(p, s)
  PROVE  Moved(p, s) /\ SameCall(p)
  <1> DEFINE c == [call[p] EXCEPT !.pc = s]
  <1>1. call[p] \in Calls
    BY DEF TypeOK
  <1>2. /\ c \in Calls /\ c.pc = s
        /\ c.plan = call[p].plan /\ c.i = call[p].i /\ c.failed = call[p].failed
    BY <1>1, PcOnly
  <1>3. call' = [call EXCEPT ![p] = c]
    BY DEF Goto, TypeOK
  <1> HIDE DEF c
  <1> QED
    BY <1>2, <1>3, CallMoves DEF SameCall, SamePlan

\* The exception of a step goes to the current host, or to the configuration.
LEMMA UndoMoves ==
  ASSUME TypeOK, NEW p \in Proc, NEW c \in Calls, call' = [call EXCEPT ![p] = Undo(c)]
  PROVE  /\ Moved(p, IF c.i = 0 THEN "undoConfig" ELSE "undoCheck")
         /\ call'[p].plan = c.plan /\ call'[p].i = c.i /\ call'[p].failed = c.failed
  <1>1. Undo(c) \in Calls
    BY DEF Undo, Calls, Steps, Holding, Undoing
  <1>2. /\ Undo(c).plan = c.plan /\ Undo(c).i = c.i /\ Undo(c).failed = c.failed
        /\ Undo(c).pc = IF c.i = 0 THEN "undoConfig" ELSE "undoCheck"
    BY DEF Undo, Calls
  <1> QED
    BY <1>1, <1>2 DEF TypeOK, Moved

Parts == Host \union {ConfigFile}
Switches == \E v \in Commit : Versions' = [part \in Parts |-> v]

LEMMA SameVersions ==
  ASSUME UNCHANGED <<bind, config, journal, sealed>>
  PROVE  Versions' = Versions
  BY DEF Versions, Pending

\* Hosts and configuration stay in step.
LEMMA StepsTogether ==
  ASSUME InStep, Versions' = Versions \/ Switches
  PROVE  InStep'
  BY DEF InStep, Switches, Parts

\* The steps of a call leave the others' alone if nobody else has the locks.
LEMMA MoveKeeps ==
  ASSUME Inv, NEW p \in Proc, \A r \in Proc \ {p} : call'[r] = call[r],
         lock \in {None, p}, lock' \in {None, p},
         TypeOK', Fits(p, call[p])', Versions' = Versions \/ Switches
  PROVE  Inv'
  <1>1. ASSUME NEW r \in Proc PROVE Fits(r, call[r])'
    <2>1. CASE r = p
      BY <2>1
    <2>2. CASE r # p
      <3>1. call'[r] = call[r] /\ lock # r /\ lock' # r /\ call[r].pc \notin Holding
        BY <2>2 DEF CallsFit, Fits, CallFits
      <3> QED
        BY <3>1 DEF CallsFit, Fits, CallFits, SeenFits, JournalFits, ForwardFits, BackFits,
                    Holding, Protected, Undoing
    <2> QED
      BY <2>1, <2>2
  <1> QED
    BY <1>1, StepsTogether DEF CallsFit

\* A call that has no lock, and takes none, changes nothing the others see.
LEMMA OutsideKeeps ==
  ASSUME Inv, NEW p \in Proc, NEW s \in {"planned", "lock"} \union Ended, Moved(p, s),
         call[p].pc \notin Holding, UNCHANGED <<bind, store, config, journal, sealed, lock>>,
         s \notin Ended => /\ call'[p].plan \in Plans
                          /\ call'[p].i = 0 /\ call'[p].failed = {},
         remote' \in Commit, file' \in Files, latest' \in Files,
         snap' \in [Commit -> SnapStates],
         faults' \in Counts
  PROVE  Inv' /\ Versions' = Versions
  <1>1. TypeOK'
    BY DEF TypeOK, Moved
  <1>2. ASSUME NEW r \in Proc PROVE Fits(r, call[r])'
    <2>1. CASE r = p
      <3>1. call'[r].pc \notin Holding /\ lock' # p
        BY <2>1, StepKinds DEF Moved, CallsFit, Fits, CallFits, Holding, Protected, Undoing
      <3> QED
        BY <2>1, <3>1 DEF Moved, Fits, CallFits, SeenFits, JournalFits, ForwardFits, BackFits,
                    Holding, Protected, Undoing, Ended
    <2>2. CASE r # p
      <3>1. call'[r] = call[r] /\ Fits(r, call[r])
        BY <2>2 DEF Moved, CallsFit
      <3> QED
        BY <3>1 DEF Fits, CallFits, SeenFits, JournalFits, ForwardFits, BackFits, Restored, NewRow, Seen, Data
    <2> QED
      BY <2>1, <2>2
  <1> QED
    BY <1>1, <1>2, SameVersions, StepsTogether DEF CallsFit

LEMMA EndedFits ==
  ASSUME NEW p \in Proc, call'[p].pc \in Ended, lock' # p
  PROVE  Fits(p, call[p])'
  BY DEF Fits, CallFits, SeenFits, JournalFits, ForwardFits, BackFits,
         Holding, Protected, Undoing, Ended

\* A call that ends and gives its locks back.
LEMMA LeaveKeeps ==
  ASSUME Inv, NEW p \in Proc, NEW s \in Ended, Moved(p, s), lock = p, lock' = None,
         TypeOK', Versions' = Versions
  PROVE  Inv'
  <1>1. Fits(p, call[p])'
    BY EndedFits DEF Moved
  <1> QED
    BY <1>1, MoveKeeps DEF Moved

LEMMA HolderFacts ==
  ASSUME Inv, NEW p \in Proc, call[p].pc \in Holding
  PROVE  /\ lock = p /\ Fits(p, call[p]) /\ call[p] \in Calls /\ call[p].plan \in Plans
         /\ call[p].plan.commit \in Commit /\ Data(call[p]) \in Docs
         /\ NewRow(call[p]) \in BindRow
  <1>1. lock = p /\ Fits(p, call[p]) /\ call[p] \in Calls /\ call[p].plan \in Plans
    BY DEF CallsFit, Fits, CallFits, TypeOK
  <1>2. call[p].plan.commit \in Commit /\ Data(call[p]) \in Docs
    BY <1>1, CommitDocs DEF Plans, Data, Seen
  <1> QED
    BY <1>1, <1>2 DEF NewRow, Seen, BindRow

-----------------------------------------------------------------------------
(* Calls that have no locks.                                               *)

LEMMA PreviewKeeps ==
  ASSUME Inv, NEW p \in Proc, Preview(p)
  PROVE  Inv' /\ Versions' = Versions
  <1>1. PICK adopted \in SUBSET Host :
          call' = [call EXCEPT ![p].pc = "planned", ![p].plan = Obs, ![p].adopt = adopted]
    BY DEF Preview
  <1>2. Obs \in Plans
    BY DEF Obs, Plans, TypeOK
  <1>3. /\ Moved(p, "planned") /\ call'[p].plan = Obs
        /\ call'[p].i = call[p].i /\ call'[p].failed = call[p].failed
    BY <1>1, <1>2, PlanMoves
  <1>5. call[p].i = 0 /\ call[p].failed = {} /\ call[p].pc \notin Holding
    BY StepKinds DEF Preview, CallsFit, Fits, CallFits
  <1> QED
    BY <1>2, <1>3, <1>5, OutsideKeeps DEF Preview, hostVars, TypeOK

LEMMA BeginKeeps ==
  ASSUME Inv, NEW p \in Proc, Begin(p)
  PROVE  Inv' /\ Versions' = Versions
  <1>1. PICK s \in {"lock", "refused"} : Goto(p, s)
    BY DEF Begin
  <1>2. Moved(p, s) /\ SameCall(p)
    BY <1>1, GotoMoves DEF Steps, Ended
  <1>3. call[p].plan \in Plans /\ call[p].i = 0 /\ call[p].failed = {}
        /\ call[p].pc \notin Holding
    BY StepKinds DEF Begin, CallsFit, Fits, CallFits
  <1> QED
    BY <1>2, <1>3, OutsideKeeps DEF Begin, hostVars, SameCall, SamePlan, TypeOK, Ended

LEMMA LockKeeps ==
  ASSUME Inv, NEW p \in Proc, Lock(p)
  PROVE  Inv' /\ Versions' = Versions
  <1>1. Moved(p, "recheck") /\ SameCall(p)
    BY GotoMoves DEF Lock, Steps, Holding
  <1>2. call[p].plan \in Plans /\ call[p].i = 0 /\ call[p].failed = {}
    BY DEF Lock, CallsFit, Fits, CallFits
  <1>3. Fits(p, call[p])'
    BY <1>1, <1>2 DEF Lock, Moved, SameCall, SamePlan, Fits, CallFits, SeenFits, JournalFits,
                      ForwardFits, BackFits, Holding, Protected, Undoing
  <1>4. TypeOK'
    BY <1>1 DEF Lock, hostVars, Moved, TypeOK
  <1>5. Versions' = Versions
    BY SameVersions DEF Lock, hostVars
  <1> QED
    BY <1>1, <1>3, <1>4, <1>5, MoveKeeps DEF Lock, Moved

\* A call that is refused or crashes, with the locks or without them.
LEMMA StopKeeps ==
  ASSUME Inv, NEW p \in Proc, NEW s \in Ended, Goto(p, s), Release(p),
         call[p].pc \in Holding \union {"planned", "lock"},
         UNCHANGED <<remote, hostVars, config, journal, snap, sealed, latest>>,
         faults' \in Counts
  PROVE  Inv' /\ Versions' = Versions
  <1>1. Moved(p, s)
    BY GotoMoves, StepKinds
  <1>2. Versions' = Versions
    BY SameVersions DEF hostVars
  <1>3. lock' \in Proc \union {None}
    BY DEF Release, TypeOK
  <1>4. TypeOK'
    BY <1>1, <1>3 DEF hostVars, Moved, TypeOK
  <1>5. CASE call[p].pc \in Holding
    BY <1>1, <1>2, <1>4, <1>5, HolderFacts, LeaveKeeps DEF Release
  <1>6. CASE call[p].pc \notin Holding
    <2>1. lock' = lock
      BY <1>6 DEF Release, CallsFit, Fits, CallFits
    <2> QED
      BY <1>1, <1>6, <2>1, OutsideKeeps DEF hostVars, TypeOK
  <1> QED
    BY <1>5, <1>6

LEMMA RefuseKeeps ==
  ASSUME Inv, NEW p \in Proc, Refuse(p)
  PROVE  Inv' /\ Versions' = Versions
  <1>1. faults' \in Counts
    BY Counted DEF Refuse, TypeOK
  <1>2. call[p].pc \in Holding \union {"planned", "lock"} /\ "refused" \in Ended
    BY DEF Refuse, Holding, Ended
  <1> QED
    BY <1>1, <1>2, StopKeeps DEF Refuse

LEMMA CrashKeeps ==
  ASSUME Inv, NEW p \in Proc, Crash(p)
  PROVE  Inv' /\ Versions' = Versions
  <1>1. faults' \in Counts
    BY Counted DEF Crash, TypeOK
  <1>2. call[p].pc \in Holding \union {"planned", "lock"} /\ "crashed" \in Ended
    BY DEF Crash, Ended
  <1> QED
    BY <1>1, <1>2, StopKeeps DEF Crash

-----------------------------------------------------------------------------
(* The call that has the locks, up to its journal.                         *)

LEMMA RecheckKeeps ==
  ASSUME Inv, NEW p \in Proc, Recheck(p)
  PROVE  Inv' /\ Versions' = Versions
  <1>1. lock = p /\ call[p].plan \in Plans /\ call[p].i = 0 /\ call[p].failed = {}
    BY HolderFacts DEF Recheck, Holding, CallsFit, Fits, CallFits
  <1>2. Versions' = Versions
    BY SameVersions DEF Recheck, hostVars
  <1>3. CASE lock' = lock /\ Goto(p, "snapshot") /\ journal = None
             /\ config = call[p].plan.config /\ \A h \in Host : HostAsSeen(call[p], h)
    <2>1. Moved(p, "snapshot") /\ SameCall(p)
      BY <1>3, GotoMoves DEF Steps, Holding
    <2>2. bind = call[p].plan.bind
      <3>1. bind \in Binds /\ call[p].plan.bind \in Binds
        BY <1>1 DEF TypeOK, Plans
      <3> QED
        BY <1>3, <3>1, SameRows DEF HostAsSeen, Seen
    <2>3. Fits(p, call[p])'
      BY <1>1, <1>3, <2>1, <2>2
      DEF Recheck, hostVars, Moved, SameCall, SamePlan, Fits, CallFits, SeenFits, JournalFits,
          ForwardFits, BackFits, Holding, Protected, Undoing
    <2>4. TypeOK'
      BY <1>3, <2>1 DEF Recheck, hostVars, Moved, TypeOK
    <2> QED
      BY <1>1, <1>2, <1>3, <2>1, <2>3, <2>4, MoveKeeps DEF Moved
  <1>4. CASE Goto(p, "refused") /\ Release(p)
    BY <1>4, StopKeeps DEF Recheck, Holding, Ended, TypeOK
  <1> QED
    BY <1>3, <1>4 DEF Recheck, Seen

LEMMA SnapshotKeeps ==
  ASSUME Inv, NEW p \in Proc, Snapshot(p)
  PROVE  Inv' /\ Versions' = Versions
  <1>1. /\ lock = p /\ call[p].plan \in Plans /\ call[p].i = 0 /\ call[p].failed = {}
        /\ SeenFits(call[p]) /\ call[p].plan.commit \in Commit
    BY HolderFacts DEF Snapshot, Holding, Fits, CallFits
  <1>2. Versions' = Versions
    BY SameVersions DEF Snapshot, hostVars
  <1>3. snap' \in [Commit -> SnapStates]
    BY DEF Snapshot, SnapStates, TypeOK
  <1>4. ASSUME NEW s \in {"journal", "copying"}, Goto(p, s), lock' = lock PROVE Inv'
    <2>1. Moved(p, s) /\ SameCall(p)
      BY <1>4, GotoMoves DEF Steps, Holding
    <2>2. Fits(p, call[p])'
      BY <1>1, <1>4, <2>1
      DEF Snapshot, hostVars, Moved, SameCall, SamePlan, Fits, CallFits, SeenFits, JournalFits,
          ForwardFits, BackFits, Holding, Protected, Undoing
    <2>3. TypeOK'
      BY <1>3, <1>4, <2>1 DEF Snapshot, hostVars, Moved, TypeOK
    <2> QED
      BY <1>1, <1>2, <1>4, <2>1, <2>2, <2>3, MoveKeeps DEF Moved
  <1>5. CASE Goto(p, "refused") /\ Release(p) /\ snap' = snap
    BY <1>5, StopKeeps DEF Snapshot, Holding, Ended, TypeOK
  <1> QED
    BY <1>2, <1>4, <1>5 DEF Snapshot

\* Two fields at once: the copy of a snapshot, the next host.
LEMMA CreatedMoves ==
  ASSUME TypeOK, NEW p \in Proc,
         call' = [call EXCEPT ![p].pc = "journal", ![p].created = TRUE]
  PROVE  Moved(p, "journal") /\ SameCall(p)
  <1>1. call \in [Proc -> Calls] /\ call[p] \in Calls
    BY DEF TypeOK
  <1> DEFINE c == call[p]
             d == [c EXCEPT !.pc = "journal", !.created = TRUE]
  <1>2. c \in Calls /\ d = [c EXCEPT !.pc = "journal", !.created = TRUE]
    BY <1>1
  <1>3. call'[p] = d /\ \A r \in Proc \ {p} : call'[r] = call[r]
    BY <1>1
  <1>4. d \in Calls /\ d.pc = "journal" /\ d.plan = c.plan /\ d.i = c.i /\ d.failed = c.failed
    <2> HIDE DEF c, d
    <2> QED
      BY <1>2 DEF Calls, Steps, Holding
  <1>5. call' \in [Proc -> Calls]
    BY <1>1, <1>4
  <1> QED
    BY <1>3, <1>4, <1>5 DEF Moved, SameCall, SamePlan

LEMMA NextHostMoves ==
  ASSUME TypeOK, NEW p \in Proc, call[p].i # Len(Targets),
         call' = [call EXCEPT ![p].pc = "write", ![p].i = call[p].i + 1]
  PROVE  /\ Moved(p, "write") /\ SamePlan(p) /\ call'[p].failed = call[p].failed
         /\ call'[p].i = call[p].i + 1
  <1>1. call \in [Proc -> Calls] /\ call[p] \in Calls
    BY DEF TypeOK
  <1> DEFINE c == call[p]
             d == [c EXCEPT !.pc = "write", !.i = c.i + 1]
  <1>2. c \in Calls /\ c.i # Len(Targets) /\ d = [c EXCEPT !.pc = "write", !.i = c.i + 1]
    BY <1>1
  <1>3. call'[p] = d /\ \A r \in Proc \ {p} : call'[r] = call[r]
    BY <1>1
  <1>4. d \in Calls /\ d.pc = "write" /\ d.plan = c.plan /\ d.i = c.i + 1 /\ d.failed = c.failed
    <2> HIDE DEF c, d
    <2>1. c.i + 1 \in 0..Len(Targets)
      BY <1>2, Numbers DEF Calls
    <2> QED
      BY <1>2, <2>1 DEF Calls, Steps, Holding, Protected
  <1>5. call' \in [Proc -> Calls]
    BY <1>1, <1>4
  <1> QED
    BY <1>3, <1>4, <1>5 DEF Moved, SamePlan

LEMMA CopyTreeKeeps ==
  ASSUME Inv, NEW p \in Proc, CopyTree(p)
  PROVE  Inv' /\ Versions' = Versions
  <1>1. /\ lock = p /\ call[p].plan \in Plans /\ call[p].i = 0 /\ call[p].failed = {}
        /\ SeenFits(call[p])
    BY HolderFacts DEF CopyTree, Holding, Fits, CallFits
  <1>2. Versions' = Versions
    BY SameVersions DEF CopyTree, hostVars
  <1>3. Moved(p, "journal") /\ SameCall(p)
    BY CreatedMoves DEF CopyTree
  <1>4. Fits(p, call[p])'
    BY <1>1, <1>3
    DEF CopyTree, hostVars, Moved, SameCall, SamePlan, Fits, CallFits, SeenFits, JournalFits,
        ForwardFits, BackFits, Holding, Protected, Undoing
  <1>5. snap' \in [Commit -> SnapStates]
    BY DEF CopyTree, SnapStates, TypeOK
  <1>6. TypeOK'
    BY <1>3, <1>5 DEF CopyTree, hostVars, Moved, TypeOK
  <1> QED
    BY <1>1, <1>2, <1>3, <1>4, <1>6, MoveKeeps DEF CopyTree, Moved

LEMMA WriteJournalKeeps ==
  ASSUME Inv, NEW p \in Proc, WriteJournal(p)
  PROVE  Inv' /\ Versions' = Versions
  <1>1. /\ lock = p /\ call[p].plan \in Plans /\ call[p].i = 0 /\ call[p].failed = {}
        /\ journal = None /\ config = call[p].plan.config /\ bind = call[p].plan.bind
    BY HolderFacts DEF WriteJournal, Holding, Fits, CallFits, SeenFits
  <1>2. Moved(p, "check") /\ SameCall(p)
    BY GotoMoves DEF WriteJournal, Steps, Holding, Protected
  <1>3. journal' \in Journals /\ journal' # None
    BY <1>1 DEF WriteJournal, Journals, Plans, Seen, TypeOK
  <1>4. journal'.bind = bind /\ journal'.config = config /\ journal'.store = store /\ journal'.by = p
    BY <1>1 DEF WriteJournal, Seen
  <1>5. Versions' = Versions
    BY <1>1, <1>3, <1>4 DEF WriteJournal, hostVars, Versions, Pending
  <1>6. \A j \in 1..Len(Targets) : ~Replaced(call[p], j)' /\ Restored(Targets[j])'
    BY <1>1, <1>2, <1>4, Numbers
    DEF WriteJournal, hostVars, Replaced, Restored, SameCall
  <1>7. Fits(p, call[p])'
    BY <1>1, <1>2, <1>3, <1>4, <1>6
    DEF WriteJournal, hostVars, Moved, SameCall, SamePlan, Fits, CallFits, SeenFits, JournalFits,
        ForwardFits, BackFits, Holding, Protected, Undoing
  <1>8. TypeOK'
    BY <1>2, <1>3 DEF WriteJournal, hostVars, Moved, TypeOK
  <1> QED
    BY <1>1, <1>2, <1>5, <1>7, <1>8, MoveKeeps DEF WriteJournal, Moved

-----------------------------------------------------------------------------
(* Forward: the hosts in their order, the configuration, the journal.      *)

LEMMA ForwardFacts ==
  ASSUME Inv, NEW p \in Proc, call[p].pc \in Protected
  PROVE  /\ lock = p /\ call[p].pc \in Holding /\ call[p] \in Calls
         /\ call[p].plan \in Plans /\ call[p].plan.commit \in Commit
         /\ JournalFits(p, call[p]) /\ ForwardFits(call[p])
         /\ call[p].i \in 0..Len(Targets)
         /\ journal # None /\ ~sealed /\ Pending
  BY HolderFacts, StepKinds DEF Fits, JournalFits, Pending, Calls, TypeOK

\* While its journal holds, what a call writes is not yet seen from outside.
LEMMA Covered ==
  ASSUME Pending, UNCHANGED <<journal, sealed>>
  PROVE  Versions' = Versions
  BY DEF Pending, Versions

LEMMA ReplacedUpTo ==
  ASSUME NEW c, c.i \in Nat, NEW j \in Nat
  PROVE  /\ c.pc \in {"write", "bind"} => (Replaced(c, j) <=> j < c.i)
         /\ c.pc \notin {"write", "bind"} => (Replaced(c, j) <=> j <= c.i)
  BY DEF Replaced

LEMMA UndoKeeps ==
  ASSUME Inv, NEW p \in Proc, call[p].pc \in Protected,
         call' = [call EXCEPT ![p] = Undo(call[p])],
         UNCHANGED <<remote, hostVars, config, journal, snap, lock, sealed, latest>>,
         faults' \in Counts
  PROVE  Inv' /\ Versions' = Versions
  <1>1. /\ lock = p /\ call[p] \in Calls /\ call[p].plan \in Plans
        /\ JournalFits(p, call[p]) /\ ForwardFits(call[p])
        /\ call[p].i \in 0..Len(Targets) /\ Pending
    BY ForwardFacts
  <1>2. /\ Moved(p, IF call[p].i = 0 THEN "undoConfig" ELSE "undoCheck")
        /\ SameCall(p)
    BY <1>1, UndoMoves DEF SameCall, SamePlan
  <1>3. Versions' = Versions
    BY <1>1, Covered
  <1>4. \A j \in 1..Len(Targets) : j > call'[p].i => Restored(Targets[j])'
    <2> SUFFICES ASSUME NEW j \in 1..Len(Targets), j > call[p].i PROVE Restored(Targets[j])'
      BY <1>2 DEF SameCall
    <2>1. ~Replaced(call[p], j)
      <3>1. call[p].i \in Nat /\ j \in Nat
        BY <1>1, Numbers
      <3>2. ~(j <= call[p].i)
        BY <3>1, Orders
      <3> QED
        BY <3>1, <3>2, ReplacedUpTo
    <2>2. Restored(Targets[j])
      BY <1>1, <2>1 DEF ForwardFits
    <2> QED
      BY <2>2 DEF hostVars, Restored
  <1>5. Fits(p, call[p])'
    BY <1>1, <1>2, <1>4
    DEF hostVars, Moved, SameCall, SamePlan, Fits, CallFits, SeenFits, JournalFits,
        ForwardFits, BackFits, Holding, Protected, Undoing
  <1>6. TypeOK'
    BY <1>2 DEF hostVars, Moved, TypeOK
  <1> QED
    BY <1>1, <1>2, <1>3, <1>5, <1>6, MoveKeeps DEF Moved

LEMMA FailsKeeps ==
  ASSUME Inv, NEW p \in Proc, Fails(p)
  PROVE  Inv' /\ Versions' = Versions
  <1>1. faults' \in Counts
    BY Counted DEF Fails, TypeOK
  <1> QED
    BY <1>1, UndoKeeps DEF Fails

LEMMA CheckHostKeeps ==
  ASSUME Inv, NEW p \in Proc, CheckHost(p)
  PROVE  Inv' /\ Versions' = Versions
  <1>1. /\ lock = p /\ call[p] \in Calls /\ call[p].plan \in Plans
        /\ JournalFits(p, call[p]) /\ ForwardFits(call[p])
        /\ call[p].i \in 0..Len(Targets) /\ Pending /\ call[p].pc = "check"
    BY ForwardFacts DEF CheckHost, Protected
  <1>2. Versions' = Versions
    BY <1>1, Covered DEF CheckHost
  <1>3. CASE call[p].i = Len(Targets) /\ Goto(p, "config")
    <2>1. Moved(p, "config") /\ SameCall(p)
      BY <1>3, GotoMoves DEF Steps, Holding, Protected
    <2>2. \A j \in 1..Len(Targets) :
            Replaced(call[p], j)' = Replaced(call[p], j)
      BY <1>1, <2>1 DEF Replaced, Moved, SameCall
    <2>3. Fits(p, call[p])'
      BY <1>1, <1>3, <2>1, <2>2
      DEF CheckHost, hostVars, Moved, SameCall, SamePlan, Fits, CallFits, SeenFits, JournalFits,
          ForwardFits, BackFits, Holding, Protected, Undoing, Restored, NewRow, Seen, Data
    <2>4. TypeOK'
      BY <2>1 DEF CheckHost, hostVars, Moved, TypeOK
    <2> QED
      BY <1>1, <1>2, <2>1, <2>3, <2>4, MoveKeeps DEF CheckHost, Moved
  <1>4. CASE /\ call[p].i # Len(Targets)
             /\ call' = [call EXCEPT ![p].pc = "write", ![p].i = call[p].i + 1]
    <2>1. /\ Moved(p, "write") /\ SamePlan(p) /\ call'[p].failed = call[p].failed
          /\ call'[p].i = call[p].i + 1
      BY <1>4, NextHostMoves
    <2>2. ASSUME NEW j \in 1..Len(Targets) PROVE Replaced(call[p], j)' <=> Replaced(call[p], j)
      <3>1. call[p].i \in Nat /\ j \in Nat
        BY <1>1, Numbers
      <3>2. Replaced(call[p], j) <=> j <= call[p].i
        <4>1. call[p].pc \notin {"write", "bind"}
          BY <1>1
        <4> QED
          BY <3>1, <4>1, ReplacedUpTo
      <3>3. Replaced(call[p], j)' <=> j < call'[p].i
        BY <2>1 DEF Replaced, Moved
      <3>4. j < call[p].i + 1 <=> j <= call[p].i
        BY <3>1, Orders
      <3>5. j < call'[p].i <=> j <= call[p].i
        BY <2>1, <3>4
      <3> QED
        BY <3>2, <3>3, <3>5
    <2>5. call'[p].i # 0
      BY <1>1, <2>1, Numbers
    <2>3. Fits(p, call[p])'
      BY <1>1, <1>4, <2>1, <2>2, <2>5
      DEF CheckHost, hostVars, Moved, SamePlan, Fits, CallFits, SeenFits, JournalFits,
          ForwardFits, BackFits, Holding, Protected, Undoing, Restored, NewRow, Seen, Data
    <2>4. TypeOK'
      BY <2>1 DEF CheckHost, hostVars, Moved, TypeOK
    <2> QED
      BY <1>1, <1>2, <2>1, <2>3, <2>4, MoveKeeps DEF CheckHost, Moved
  <1>5. CASE call' = [call EXCEPT ![p] = Undo(call[p])]
    BY <1>5, UndoKeeps DEF CheckHost, Protected, TypeOK
  <1> QED
    BY <1>3, <1>4, <1>5 DEF CheckHost

LEMMA WriteFileKeeps ==
  ASSUME Inv, NEW p \in Proc, WriteFile(p)
  PROVE  Inv' /\ Versions' = Versions
  <1>1. /\ lock = p /\ call[p] \in Calls /\ call[p].plan \in Plans
        /\ JournalFits(p, call[p]) /\ ForwardFits(call[p])
        /\ call[p].i \in 0..Len(Targets) /\ Pending /\ call[p].pc = "write"
    BY ForwardFacts DEF WriteFile, Protected
  <1>2. Versions' = Versions
    BY <1>1, Covered DEF WriteFile
  <1>3. Moved(p, "bind") /\ SameCall(p)
    BY GotoMoves DEF WriteFile, Steps, Holding, Protected
  <1>4. \A j \in 1..Len(Targets) : Replaced(call[p], j)' = Replaced(call[p], j)
    BY <1>1, <1>3 DEF Replaced, Moved, SameCall
  <1>5. Fits(p, call[p])'
    BY <1>1, <1>3, <1>4
    DEF WriteFile, hostVars, Moved, SameCall, SamePlan, Fits, CallFits, SeenFits, JournalFits,
        ForwardFits, BackFits, Holding, Protected, Undoing, Restored, NewRow, Seen, Data
  <1>6. file' \in Files
    <2>1. Data(call[p]) \in Docs /\ file \in Files
      BY <1>1, HolderFacts DEF Holding, Protected, TypeOK
    <2> QED
      BY <2>1 DEF WriteFile, Files
  <1>7. TypeOK'
    BY <1>3, <1>6 DEF WriteFile, Moved, TypeOK
  <1> QED
    BY <1>1, <1>2, <1>3, <1>5, <1>7, MoveKeeps DEF WriteFile, Moved

LEMMA SetBindingKeeps ==
  ASSUME Inv, NEW p \in Proc, SetBinding(p)
  PROVE  Inv' /\ Versions' = Versions
  <1>1. /\ lock = p /\ call[p] \in Calls /\ call[p].plan \in Plans
        /\ JournalFits(p, call[p]) /\ ForwardFits(call[p])
        /\ call[p].i \in 0..Len(Targets) /\ Pending /\ call[p].pc = "bind"
    BY ForwardFacts DEF SetBinding, Protected
  <1>2. Versions' = Versions
    BY <1>1, Covered DEF SetBinding
  <1>3. Moved(p, "readback") /\ SameCall(p)
    BY GotoMoves DEF SetBinding, Steps, Holding, Protected
  <1> DEFINE c == call[p]
  <1>4. c.i # 0 /\ c.i \in 1..Len(Targets) /\ Cur(c) = Targets[c.i] /\ Cur(c) \in Host
        /\ \A j \in 1..Len(Targets) : j # c.i => Targets[j] # Cur(c)
    <2>1. c.i # 0
      BY <1>1 DEF ForwardFits
    <2>2. c.i \in 1..Len(Targets) /\ Cur(c) = Targets[c.i]
      BY <1>1, <2>1, Numbers DEF Cur
    <2> HIDE DEF c
    <2> QED
      BY <2>1, <2>2, Numbers, Distinct
  <1>5. NewRow(c) \in BindRow /\ bind \in Binds /\ store \in [Host -> BOOLEAN]
    BY <1>1, HolderFacts DEF Holding, Protected, TypeOK
  <1>6. bind' \in Binds /\ store' \in [Host -> BOOLEAN]
    <2>1. bind' = bind \/ bind' = [bind EXCEPT ![Cur(c)] = NewRow(c)]
      BY DEF SetBinding
    <2>2. store' = store \/ store' = [store EXCEPT ![Cur(c)] = TRUE]
      BY DEF SetBinding
    <2> HIDE DEF c
    <2>3. bind' \in Binds
      BY <1>4, <1>5, <2>1 DEF Binds
    <2>4. store' \in [Host -> BOOLEAN]
      BY <1>5, <2>2
    <2> QED
      BY <2>3, <2>4
  <1>7. bind'[Cur(c)] = NewRow(c)
    <2>1. CASE bind' = [bind EXCEPT ![Cur(c)] = NewRow(c)]
      BY <1>4, <1>5, <2>1 DEF Binds
    <2>2. CASE bind' = bind /\ Seen(c).bind[Cur(c)] = NewRow(c)
      <3>1. ~Replaced(c, c.i)
        <4>1. c.i \in Nat /\ ~(c.i < c.i) /\ c.pc \in {"write", "bind"}
          BY <1>1, Numbers
        <4> HIDE DEF c
        <4> QED
          BY <4>1, ReplacedUpTo
      <3>2. bind[Cur(c)] = journal.bind[Cur(c)]
        <4>1. \A j \in 1..Len(Targets) : ~Replaced(c, j) => Restored(Targets[j])
          BY <1>1 DEF ForwardFits, Protected
        <4> QED
          BY <1>4, <3>1, <4>1 DEF Restored
      <3> QED
        BY <1>1, <2>2, <3>2 DEF JournalFits, Seen, Protected
    <2> QED
      BY <2>1, <2>2 DEF SetBinding
  <1>8. \A h \in Host : h # Cur(c) => bind'[h] = bind[h] /\ store'[h] = store[h]
    BY <1>5 DEF SetBinding, Binds
  <1>9. ASSUME NEW j \in 1..Len(Targets)
        PROVE  IF Replaced(call[p], j)' THEN bind'[Targets[j]] = NewRow(c)
               ELSE Restored(Targets[j])'
    <2>1. c.i \in Nat /\ j \in Nat /\ Targets[j] \in Host
      BY <1>1, Numbers
    <2>2. Replaced(call[p], j)' <=> j <= c.i
      <3>1. call'[p].pc \notin {"write", "bind"} /\ call'[p].i = c.i
        BY <1>3 DEF Moved, SameCall
      <3>2. Replaced(call'[p], j) <=> j <= call'[p].i
        BY <2>1, <3>1, ReplacedUpTo
      <3> QED
        BY <3>1, <3>2 DEF Replaced
    <2>3. Replaced(c, j) <=> j < c.i
      <3>1. c.pc \in {"write", "bind"}
        BY <1>1
      <3> HIDE DEF c
      <3> QED
        BY <2>1, <3>1, ReplacedUpTo
    <2>4. CASE j = c.i
      BY <1>4, <1>7, <2>1, <2>2, <2>4
    <2>5. CASE j # c.i
      <3>1. bind'[Targets[j]] = bind[Targets[j]] /\ store'[Targets[j]] = store[Targets[j]]
        BY <1>4, <1>8, <2>1, <2>5
      <3>2. Replaced(call[p], j)' <=> Replaced(c, j)
        <4>1. \A m, n \in Nat : m # n => (m <= n <=> m < n)
          OBVIOUS
        <4> HIDE DEF c
        <4> QED
          BY <2>1, <2>2, <2>3, <2>5, <4>1
      <3>3. IF Replaced(c, j) THEN bind[Targets[j]] = NewRow(c) ELSE Restored(Targets[j])
        BY <1>1 DEF ForwardFits, Protected
      <3> QED
        BY <3>1, <3>2, <3>3 DEF Restored, SetBinding
    <2> QED
      BY <2>4, <2>5
  <1>10. NewRow(call[p])' = NewRow(c)
    BY <1>3 DEF NewRow, Seen, Data, SameCall, SamePlan
  <1>11. Fits(p, call[p])'
    BY <1>1, <1>3, <1>4, <1>9, <1>10
    DEF SetBinding, Moved, SameCall, SamePlan, Fits, CallFits, SeenFits, JournalFits,
        ForwardFits, BackFits, Holding, Protected, Undoing
  <1>12. TypeOK'
    BY <1>3, <1>6 DEF SetBinding, Moved, TypeOK
  <1> QED
    BY <1>1, <1>2, <1>3, <1>11, <1>12, MoveKeeps DEF SetBinding, Moved

LEMMA ReadbackKeeps ==
  ASSUME Inv, NEW p \in Proc, Readback(p)
  PROVE  Inv' /\ Versions' = Versions
  <1>1. /\ lock = p /\ call[p] \in Calls /\ call[p].plan \in Plans
        /\ JournalFits(p, call[p]) /\ ForwardFits(call[p])
        /\ call[p].i \in 0..Len(Targets) /\ Pending /\ call[p].pc = "readback"
    BY ForwardFacts DEF Readback, Protected
  <1>2. Versions' = Versions
    BY <1>1, Covered DEF Readback
  <1>3. CASE Goto(p, "check")
    <2>1. Moved(p, "check") /\ SameCall(p)
      BY <1>3, GotoMoves DEF Steps, Holding, Protected
    <2>2. \A j \in 1..Len(Targets) : Replaced(call[p], j)' <=> Replaced(call[p], j)
      BY <1>1, <2>1 DEF Replaced, Moved, SameCall
    <2>3. Fits(p, call[p])'
      BY <1>1, <2>1, <2>2
      DEF Readback, hostVars, Moved, SameCall, SamePlan, Fits, CallFits, SeenFits, JournalFits,
          ForwardFits, BackFits, Holding, Protected, Undoing, Restored, NewRow, Seen, Data
    <2>4. TypeOK'
      BY <2>1 DEF Readback, hostVars, Moved, TypeOK
    <2> QED
      BY <1>1, <1>2, <2>1, <2>3, <2>4, MoveKeeps DEF Readback, Moved
  <1>4. CASE call' = [call EXCEPT ![p] = Undo(call[p])]
    BY <1>4, UndoKeeps DEF Readback, Protected, TypeOK
  <1> QED
    BY <1>3, <1>4 DEF Readback

LEMMA WriteConfigKeeps ==
  ASSUME Inv, NEW p \in Proc, WriteConfig(p)
  PROVE  Inv' /\ Versions' = Versions
  <1>1. /\ lock = p /\ call[p] \in Calls /\ call[p].plan \in Plans
        /\ call[p].plan.commit \in Commit /\ JournalFits(p, call[p]) /\ ForwardFits(call[p])
        /\ call[p].i \in 0..Len(Targets) /\ Pending /\ call[p].pc = "config"
    BY ForwardFacts DEF WriteConfig, Protected
  <1>2. Versions' = Versions
    BY <1>1, Covered DEF WriteConfig
  <1>3. Moved(p, "seal") /\ SameCall(p)
    BY GotoMoves DEF WriteConfig, Steps, Holding, Protected
  <1>4. \A j \in 1..Len(Targets) : Replaced(call[p], j)' <=> Replaced(call[p], j)
    BY <1>1, <1>3 DEF Replaced, Moved, SameCall
  <1>5. Fits(p, call[p])'
    BY <1>1, <1>3, <1>4
    DEF WriteConfig, hostVars, Moved, SameCall, SamePlan, Fits, CallFits, SeenFits, JournalFits,
        ForwardFits, BackFits, Holding, Protected, Undoing, Restored, NewRow, Seen, Data
  <1>6. TypeOK'
    BY <1>1, <1>3 DEF WriteConfig, hostVars, Moved, Seen, TypeOK
  <1> QED
    BY <1>1, <1>2, <1>3, <1>5, <1>6, MoveKeeps DEF WriteConfig, Moved

\* The one step that is seen: every host and the configuration are at the commit.
LEMMA SealKeeps ==
  ASSUME Inv, NEW p \in Proc, Seal(p)
  PROVE  Inv' /\ Switches
  <1>1. /\ lock = p /\ call[p] \in Calls /\ call[p].plan \in Plans
        /\ call[p].plan.commit \in Commit /\ JournalFits(p, call[p]) /\ ForwardFits(call[p])
        /\ call[p].i \in 0..Len(Targets) /\ Pending /\ call[p].pc = "seal"
    BY ForwardFacts DEF Seal, Protected
  <1>2. Moved(p, "finish") /\ SameCall(p)
    BY GotoMoves DEF Seal, Steps, Holding
  <1>3. config = call[p].plan.commit /\ call[p].i = Len(Targets)
    BY <1>1 DEF ForwardFits
  <1>4. ASSUME NEW h \in Host PROVE HeldBy(bind[h]) = config
    <2>1. PICK j \in 1..Len(Targets) : h = Targets[j]
      BY Listed
    <2>2. Replaced(call[p], j)
      <3>1. call[p].i \in Nat /\ j \in Nat /\ j <= call[p].i
        BY <1>1, <1>3, Numbers
      <3>2. call[p].pc \notin {"write", "bind"}
        BY <1>1
      <3> QED
        BY <3>1, <3>2, ReplacedUpTo
    <2>3. bind[h] = NewRow(call[p])
      BY <1>1, <2>1, <2>2 DEF ForwardFits, Protected
    <2>4. NewRow(call[p]) # NoRow
      BY <1>1, HolderFacts DEF Holding, Protected
    <2> QED
      BY <1>3, <2>3, <2>4 DEF HeldBy, NewRow, Seen
  <1>5. Switches
    <2>1. ~Pending'
      BY DEF Seal, Pending
    <2>2. \A h \in Host : HeldBy(bind'[h]) = config /\ config' = config /\ h # ConfigFile
      BY <1>4, ConfigApart DEF Seal, hostVars
    <2>3. Versions' = [part \in Parts |-> config]
      BY <2>1, <2>2 DEF Seal, hostVars, Versions, Parts
    <2> QED
      BY <1>1, <1>3, <2>3 DEF Switches
  <1>6. Fits(p, call[p])'
    BY <1>1, <1>2
    DEF Seal, hostVars, Moved, SameCall, SamePlan, Fits, CallFits, SeenFits, JournalFits,
        ForwardFits, BackFits, Holding, Protected, Undoing
  <1>7. latest' \in Files
    <2>1. Data(call[p]) \in Docs /\ file \in Files /\ latest \in Files
      BY <1>1, HolderFacts DEF Holding, Protected, TypeOK
    <2> QED
      BY <2>1 DEF Seal, Files
  <1>8. TypeOK'
    BY <1>2, <1>7 DEF Seal, hostVars, Moved, TypeOK
  <1> QED
    BY <1>1, <1>2, <1>5, <1>6, <1>8, MoveKeeps DEF Seal, Moved

LEMMA FinishKeeps ==
  ASSUME Inv, NEW p \in Proc, Finish(p)
  PROVE  Inv' /\ Versions' = Versions
  <1>1. lock = p /\ call[p].pc \in Holding /\ sealed
    BY HolderFacts DEF Finish, Holding, Fits, JournalFits
  <1>2. Moved(p, "applied")
    BY GotoMoves DEF Finish, Steps, Ended
  <1>3. Versions' = Versions
    BY <1>1 DEF Finish, hostVars, Versions, Pending
  <1>4. faults' \in Counts
    BY Counted DEF Finish, TypeOK
  <1>5. lock' = None
    BY <1>1 DEF Finish, Release
  <1>6. TypeOK'
    BY <1>2, <1>4, <1>5 DEF Finish, hostVars, Moved, TypeOK
  <1> QED
    BY <1>1, <1>2, <1>3, <1>5, <1>6, LeaveKeeps DEF Ended

-----------------------------------------------------------------------------
(* Back: the hosts in reverse, the configuration, the journal, the snapshot. *)

LEMMA BackFacts ==
  ASSUME Inv, NEW p \in Proc, call[p].pc \in Undoing \ {"discard"}
  PROVE  /\ lock = p /\ call[p].pc \in Holding /\ call[p] \in Calls
         /\ call[p].plan \in Plans
         /\ JournalFits(p, call[p]) /\ BackFits(call[p])
         /\ journal # None /\ journal.by = p
         /\ journal.bind = call[p].plan.bind /\ journal.config = call[p].plan.config
         /\ ~sealed /\ Pending
  BY HolderFacts, StepKinds DEF Fits, JournalFits, Pending, TypeOK

\* The call goes on to a step of the rollback: the next host, or the same one.
LEMMA BackKeeps ==
  ASSUME Inv, NEW p \in Proc, call[p].pc \in Undoing \ {"discard"},
         NEW s \in Undoing \ {"discard"}, Moved(p, s), SamePlan(p),
         UNCHANGED <<journal, lock, sealed>>, BackFits(call[p])', TypeOK'
  PROVE  Inv' /\ Versions' = Versions
  <1>1. /\ lock = p /\ call[p].plan \in Plans /\ JournalFits(p, call[p]) /\ Pending
    BY BackFacts
  <1>2. Fits(p, call[p])'
    BY <1>1
    DEF Moved, SamePlan, Fits, CallFits, SeenFits, JournalFits, ForwardFits,
        Holding, Protected, Undoing
  <1>3. Versions' = Versions
    BY <1>1, Covered
  <1> QED
    BY <1>1, <1>2, <1>3, MoveKeeps DEF Moved

\* A host the rollback is at, and what comes below it.
LEMMA CurrentHost ==
  ASSUME Inv, NEW p \in Proc, call[p].pc \in {"undoCheck", "undoWrite", "undoBind"}
  PROVE  /\ call[p].i \in 1..Len(Targets) /\ Cur(call[p]) = Targets[call[p].i]
         /\ Cur(call[p]) \in Host
         /\ \A j \in 1..Len(Targets) : j # call[p].i => Targets[j] # Cur(call[p])
  <1> DEFINE c == call[p]
  <1>1. c \in Calls /\ c.i # 0
    BY BackFacts DEF BackFits, Undoing
  <1>2. c.i \in 1..Len(Targets) /\ Cur(c) = Targets[c.i]
    BY <1>1, Numbers DEF Cur, Calls
  <1> HIDE DEF c
  <1>3. Cur(c) \in Host /\ \A j \in 1..Len(Targets) : j # c.i => Targets[j] # Cur(c)
    BY <1>1, <1>2, Numbers, Distinct
  <1> QED
    BY <1>2, <1>3 DEF c

LEMMA OneLower ==
  ASSUME NEW n \in 1..Len(Targets)
  PROVE  n - 1 \in 0..Len(Targets) /\ \A j \in 1..Len(Targets) : j > n - 1 /\ j # n => j > n
  <1>1. \A l \in Nat : \A m \in 1..l : m \in Nat /\ m - 1 \in 0..l
    OBVIOUS
  <1>2. n \in Nat /\ n - 1 \in 0..Len(Targets)
    BY <1>1, Numbers
  <1>3. ASSUME NEW j \in 1..Len(Targets), j > n - 1, j # n PROVE j > n
    <2>1. j \in Nat
      BY <1>1, Numbers
    <2> QED
      BY <1>2, <1>3, <2>1
  <1> QED
    BY <1>2, <1>3

LEMMA LowerCall ==
  ASSUME NEW c \in Calls, c.i \in 1..Len(Targets)
  PROVE  /\ Below(c) \in Calls /\ Below(c).plan = c.plan /\ Below(c).failed = c.failed
         /\ Below(c).i = c.i - 1
         /\ Below(c).pc = IF c.i - 1 = 0 THEN "undoConfig" ELSE "undoCheck"
  <1> DEFINE d == [c EXCEPT !.i = c.i - 1]
  <1>1. c.i - 1 \in 0..Len(Targets)
    BY OneLower
  <1>2. d \in Calls /\ d.plan = c.plan /\ d.failed = c.failed /\ d.i = c.i - 1
    BY <1>1 DEF Calls
  <1>3. Below(c) = Undo(d)
    BY DEF Below
  <1> HIDE DEF d
  <1>4. /\ Undo(d) \in Calls /\ Undo(d).plan = d.plan /\ Undo(d).failed = d.failed
        /\ Undo(d).i = d.i /\ Undo(d).pc = IF d.i = 0 THEN "undoConfig" ELSE "undoCheck"
    BY <1>2 DEF Undo, Calls, Steps, Holding, Undoing
  <1> QED
    BY <1>2, <1>3, <1>4

\* The rollback leaves the current host, restored or remembered as failed.
LEMMA BelowKeeps ==
  ASSUME Inv, NEW p \in Proc, call[p].pc \in {"undoCheck", "undoWrite", "undoBind"},
         NEW d \in Calls, call' = [call EXCEPT ![p] = d],
         d.plan = call[p].plan, d.i = call[p].i - 1,
         d.pc = IF call[p].i - 1 = 0 THEN "undoConfig" ELSE "undoCheck",
         call[p].failed \subseteq d.failed,
         UNCHANGED <<remote, file, config, journal, snap, lock, sealed, latest>>,
         \A h \in Host : h # Cur(call[p]) => bind'[h] = bind[h] /\ store'[h] = store[h],
         bind' \in Binds, store' \in [Host -> BOOLEAN],
         faults' \in Counts,
         \/ Cur(call[p]) \in d.failed
         \/ /\ bind'[Cur(call[p])] = journal.bind[Cur(call[p])]
            /\ store'[Cur(call[p])] = journal.store[Cur(call[p])]
  PROVE  Inv' /\ Versions' = Versions
  <1>1. /\ call[p].i \in 1..Len(Targets) /\ Cur(call[p]) = Targets[call[p].i]
        /\ \A j \in 1..Len(Targets) : j # call[p].i => Targets[j] # Cur(call[p])
    BY CurrentHost
  <1>2. BackFits(call[p]) /\ call[p].pc \in Undoing \ {"discard"}
    BY BackFacts DEF Undoing
  <1>3. Moved(p, d.pc) /\ call'[p] = d /\ SamePlan(p)
    BY CallMoves DEF SamePlan
  <1>4. ASSUME NEW j \in 1..Len(Targets), j > d.i, Targets[j] \notin d.failed
        PROVE  Restored(Targets[j])'
    <2>1. CASE j = call[p].i
      BY <1>1, <1>4, <2>1 DEF Restored
    <2>2. CASE j # call[p].i
      <3>1. j > call[p].i
        BY <1>1, <1>4, <2>2, OneLower
      <3>2. Restored(Targets[j])
        BY <1>2, <1>4, <3>1 DEF BackFits
      <3>3. Targets[j] \in Host /\ Targets[j] # Cur(call[p])
        BY <1>1, <2>2, Numbers
      <3> QED
        BY <3>2, <3>3 DEF Restored
    <2> QED
      BY <2>1, <2>2
  <1>5. BackFits(call[p])'
    BY <1>3, <1>4 DEF BackFits
  <1>6. TypeOK'
    BY <1>3 DEF Moved, TypeOK
  <1>7. d.pc \in Undoing \ {"discard"}
    BY DEF Undoing
  <1> QED
    BY <1>2, <1>3, <1>5, <1>6, <1>7, BackKeeps

LEMMA NotUndoneKeeps ==
  ASSUME Inv, NEW p \in Proc, call[p].pc \in {"undoCheck", "undoWrite", "undoBind"},
         call' = [call EXCEPT ![p] = NotUndone(call[p])],
         UNCHANGED <<remote, hostVars, config, journal, snap, lock, sealed, latest>>,
         faults' \in Counts
  PROVE  Inv' /\ Versions' = Versions
  <1>1. call[p] \in Calls /\ call[p].i \in 1..Len(Targets) /\ Cur(call[p]) \in Host
    BY CurrentHost, BackFacts DEF Undoing
  <1>2. PICK c, x : c = Below(call[p]) /\ x = Cur(call[p])
    OBVIOUS
  <1>5. PICK d : d = [c EXCEPT !.failed = @ \union {x}]
    OBVIOUS
  <1>6. d = NotUndone(call[p])
    BY <1>2, <1>5 DEF NotUndone
  <1>7. /\ c \in Calls /\ c.plan = call[p].plan /\ c.i = call[p].i - 1
        /\ c.pc = IF call[p].i - 1 = 0 THEN "undoConfig" ELSE "undoCheck"
        /\ c.failed = call[p].failed
    BY <1>1, <1>2, LowerCall
  <1>8. x \in Host \union {None}
    BY <1>1, <1>2
  <1>3. /\ d \in Calls /\ d.plan = call[p].plan /\ d.i = call[p].i - 1
        /\ d.pc = IF call[p].i - 1 = 0 THEN "undoConfig" ELSE "undoCheck"
        /\ d.failed = call[p].failed \union {Cur(call[p])}
    <2>1. /\ d \in Calls /\ d.plan = c.plan /\ d.i = c.i /\ d.pc = c.pc
          /\ d.failed = c.failed \union {x}
      BY <1>5, <1>7, <1>8 DEF Calls
    <2> QED
      BY <1>2, <1>7, <2>1
  <1>4. bind \in Binds /\ store \in [Host -> BOOLEAN]
    BY DEF TypeOK
  <1> QED
    BY <1>3, <1>4, <1>6, BelowKeeps DEF hostVars

LEMMA UndoCheckKeeps ==
  ASSUME Inv, NEW p \in Proc, UndoCheck(p)
  PROVE  Inv' /\ Versions' = Versions
  <1>1. call[p].pc = "undoCheck" /\ call[p].pc \in Undoing \ {"discard"} /\ BackFits(call[p])
    BY BackFacts DEF UndoCheck, Undoing
  <1>2. CASE Goto(p, "undoWrite")
    <2>1. Moved(p, "undoWrite") /\ SameCall(p)
      BY <1>2, GotoMoves DEF Steps, Holding, Undoing
    <2>2. BackFits(call[p])'
      BY <1>1, <2>1 DEF UndoCheck, hostVars, Moved, SameCall, SamePlan, BackFits, Restored, Undoing
    <2>3. TypeOK'
      BY <2>1 DEF UndoCheck, hostVars, Moved, TypeOK
    <2> QED
      BY <1>1, <2>1, <2>2, <2>3, BackKeeps DEF UndoCheck, SameCall, Undoing
  <1>3. CASE call' = [call EXCEPT ![p] = NotUndone(call[p])]
    BY <1>3, NotUndoneKeeps DEF UndoCheck, TypeOK
  <1> QED
    BY <1>2, <1>3 DEF UndoCheck

LEMMA UndoFileKeeps ==
  ASSUME Inv, NEW p \in Proc, UndoFile(p)
  PROVE  Inv' /\ Versions' = Versions
  <1>1. /\ call[p].pc = "undoWrite" /\ call[p].pc \in Undoing \ {"discard"}
        /\ BackFits(call[p]) /\ call[p].plan \in Plans
    BY BackFacts DEF UndoFile, Undoing
  <1>2. Cur(call[p]) \in Host
    BY CurrentHost DEF UndoFile
  <1>3. Moved(p, "undoBind") /\ SameCall(p)
    BY GotoMoves DEF UndoFile, Steps, Holding, Undoing
  <1>4. BackFits(call[p])'
    BY <1>1, <1>3 DEF UndoFile, Moved, SameCall, SamePlan, BackFits, Restored, Undoing
  <1>5. file' \in Files
    <2>1. file \in Files /\ call[p].plan.file \in Files
      BY <1>1 DEF TypeOK, Plans
    <2> QED
      BY <1>2, <2>1 DEF UndoFile, Files, Seen
  <1>6. TypeOK'
    BY <1>3, <1>5 DEF UndoFile, Moved, TypeOK
  <1> QED
    BY <1>1, <1>3, <1>4, <1>6, BackKeeps DEF UndoFile, SameCall, Undoing

LEMMA UndoBindingKeeps ==
  ASSUME Inv, NEW p \in Proc, UndoBinding(p)
  PROVE  Inv' /\ Versions' = Versions
  <1>1. /\ call[p] \in Calls /\ call[p].i \in 1..Len(Targets) /\ Cur(call[p]) \in Host
        /\ call[p].plan \in Plans /\ journal.bind = call[p].plan.bind
        /\ journal \in Journals
    BY CurrentHost, BackFacts DEF UndoBinding, Undoing, TypeOK
  <1>2. /\ bind' = [bind EXCEPT ![Cur(call[p])] = journal.bind[Cur(call[p])]]
        /\ store' = [store EXCEPT ![Cur(call[p])] = journal.store[Cur(call[p])]]
    BY <1>1 DEF UndoBinding, Seen
  <1>3. journal.bind \in Binds /\ journal.store \in [Host -> BOOLEAN]
    BY <1>1 DEF Journals
  <1>4. bind \in Binds /\ store \in [Host -> BOOLEAN]
    BY DEF TypeOK
  <1> DEFINE h == Cur(call[p])
  <1>5. bind' \in Binds /\ bind'[h] = journal.bind[h]
        /\ \A g \in Host : g # h => bind'[g] = bind[g]
    <2>1. h \in Host /\ bind' = [bind EXCEPT ![h] = journal.bind[h]]
      BY <1>1, <1>2
    <2> HIDE DEF h
    <2> QED
      BY <1>3, <1>4, <2>1 DEF Binds
  <1>6. store' \in [Host -> BOOLEAN] /\ store'[h] = journal.store[h]
        /\ \A g \in Host : g # h => store'[g] = store[g]
    <2>1. h \in Host /\ store' = [store EXCEPT ![h] = journal.store[h]]
      BY <1>1, <1>2
    <2> HIDE DEF h
    <2> QED
      BY <1>3, <1>4, <2>1
  <1> HIDE DEF h
  <1>7. PICK d : d = Below(call[p])
    OBVIOUS
  <1>8. /\ d \in Calls /\ d.plan = call[p].plan /\ d.i = call[p].i - 1
        /\ d.pc = IF call[p].i - 1 = 0 THEN "undoConfig" ELSE "undoCheck"
        /\ d.failed = call[p].failed
    BY <1>1, <1>7, LowerCall
  <1>9. faults' \in Counts
    BY DEF UndoBinding, TypeOK
  <1> QED
    BY <1>5, <1>6, <1>7, <1>8, <1>9, BelowKeeps DEF UndoBinding, h

LEMMA UndoFailsKeeps ==
  ASSUME Inv, NEW p \in Proc, UndoFails(p)
  PROVE  Inv' /\ Versions' = Versions
  <1>1. faults' \in Counts
    BY Counted DEF UndoFails, TypeOK
  <1>2. CASE call[p].pc = "undoConfig"
    <2>1. /\ call[p] \in Calls /\ call[p].pc \in Undoing \ {"discard"} /\ BackFits(call[p])
      BY <1>2, BackFacts DEF Undoing
    <2> PICK b : b = call[p]
      OBVIOUS
    <2>2. PICK c : c = [b EXCEPT !.failed = @ \union {None}]
      OBVIOUS
    <2>3. PICK d : d = [c EXCEPT !.pc = "undoEnd"]
      OBVIOUS
    <2>4. /\ c \in Calls /\ c.plan = call[p].plan /\ c.i = call[p].i
          /\ c.failed = call[p].failed \union {None}
      <3>1. b \in Calls /\ None \in Host \union {None}
        BY <2>1
      <3> QED
        BY <2>2, <3>1 DEF Calls
    <2>5. /\ d \in Calls /\ d.pc = "undoEnd" /\ d.plan = c.plan /\ d.i = c.i
          /\ d.failed = c.failed
      <3>1. "undoEnd" \in Steps
        BY DEF Steps, Holding, Undoing
      <3> QED
        BY <2>3, <2>4, <3>1, PcOnly
    <2>6. call' = [call EXCEPT ![p] = d]
      <3>1. call' = [call EXCEPT ![p] =
                       [call[p] EXCEPT !.pc = "undoEnd", !.failed = @ \union {None}]]
        BY <1>2 DEF UndoFails
      <3>2. d = [call[p] EXCEPT !.pc = "undoEnd", !.failed = @ \union {None}]
        BY <2>1, <2>2, <2>3 DEF Calls
      <3> QED
        BY <3>1, <3>2
    <2>7. Moved(p, "undoEnd") /\ SamePlan(p) /\ call'[p] = d
      <3>1. Moved(p, d.pc) /\ call'[p] = d
        BY <2>5, <2>6, CallMoves
      <3> QED
        BY <2>4, <2>5, <3>1 DEF SamePlan
    <2>8. BackFits(call[p])'
      BY <1>2, <2>1, <2>4, <2>5, <2>7 DEF UndoFails, hostVars, BackFits, Restored
    <2>9. TypeOK'
      BY <1>1, <2>7 DEF UndoFails, hostVars, Moved, TypeOK
    <2> QED
      BY <2>1, <2>7, <2>8, <2>9, BackKeeps DEF UndoFails, Undoing
  <1>3. CASE call[p].pc # "undoConfig"
    BY <1>1, <1>3, NotUndoneKeeps DEF UndoFails
  <1> QED
    BY <1>2, <1>3

LEMMA UndoConfigKeeps ==
  ASSUME Inv, NEW p \in Proc, UndoConfig(p)
  PROVE  Inv' /\ Versions' = Versions
  <1>1. /\ call[p].pc = "undoConfig" /\ call[p].pc \in Undoing \ {"discard"}
        /\ BackFits(call[p]) /\ call[p].plan \in Plans
    BY BackFacts DEF UndoConfig, Undoing
  <1>2. Moved(p, "undoEnd") /\ SameCall(p)
    BY GotoMoves DEF UndoConfig, Steps, Holding, Undoing
  <1>3. config' = call[p].plan.config /\ config' \in Commit \union {None}
    BY <1>1 DEF UndoConfig, Seen, Plans
  <1>4. BackFits(call[p])'
    BY <1>1, <1>2, <1>3
    DEF UndoConfig, hostVars, Moved, SameCall, SamePlan, BackFits, Restored, Undoing
  <1>5. TypeOK'
    BY <1>2, <1>3 DEF UndoConfig, hostVars, Moved, TypeOK
  <1> QED
    BY <1>1, <1>2, <1>4, <1>5, BackKeeps DEF UndoConfig, SameCall, Undoing

\* At the end of a rollback that remembers no failure, all is back.
LEMMA AllRestored ==
  ASSUME Inv, NEW p \in Proc, call[p].pc = "undoEnd", call[p].failed = {}
  PROVE  bind = journal.bind /\ store = journal.store /\ config = journal.config
  <1>1. /\ BackFits(call[p]) /\ journal.config = call[p].plan.config /\ journal # None
    BY BackFacts DEF Undoing
  <1>2. ASSUME NEW h \in Host PROVE Restored(h)
    <2>1. PICK j \in 1..Len(Targets) : h = Targets[j]
      BY Listed
    <2>2. j > 0
      BY Numbers
    <2> QED
      BY <1>1, <2>1, <2>2 DEF BackFits, Undoing
  <1>3. journal \in Journals
    BY <1>1 DEF TypeOK
  <1>4. bind = journal.bind
    <2>1. bind \in Binds /\ journal.bind \in Binds
      BY <1>3 DEF Journals, TypeOK
    <2> QED
      BY <1>2, <2>1, SameRows DEF Restored
  <1>5. store = journal.store
    <2>1. store \in [Host -> BOOLEAN] /\ journal.store \in [Host -> BOOLEAN]
      BY <1>3 DEF Journals, TypeOK
    <2> QED
      BY <1>2, <2>1 DEF Restored
  <1> QED
    BY <1>1, <1>4, <1>5 DEF BackFits, Undoing

LEMMA UndoEndKeeps ==
  ASSUME Inv, NEW p \in Proc, UndoEnd(p)
  PROVE  Inv' /\ Versions' = Versions
  <1>1. /\ call[p].pc = "undoEnd" /\ call[p].pc \in Holding /\ lock = p
        /\ call[p].plan \in Plans /\ Pending /\ ~sealed /\ journal # None
        /\ call[p].plan.commit \in Commit
    BY BackFacts, HolderFacts DEF UndoEnd, Undoing
  <1>2. CASE call[p].failed # {}
    BY <1>1, <1>2, StopKeeps DEF UndoEnd, Ended, TypeOK
  <1>3. CASE call[p].failed = {}
    <2>1. journal' = None /\ UNCHANGED <<remote, hostVars, config, sealed, latest, faults>>
      BY <1>3 DEF UndoEnd
    <2>2. Versions' = Versions
      BY <1>1, <1>3, <2>1, AllRestored DEF hostVars, Versions, Pending
    <2>3. CASE /\ snap' = [snap EXCEPT ![Seen(call[p]).commit] = "partial"]
               /\ Goto(p, "discard") /\ lock' = lock
      <3>1. Moved(p, "discard") /\ SameCall(p)
        BY <2>3, GotoMoves DEF Steps, Holding, Undoing
      <3>2. Fits(p, call[p])'
        BY <1>1, <2>3, <3>1
        DEF Moved, SameCall, SamePlan, Fits, CallFits, SeenFits, JournalFits, ForwardFits,
            BackFits, Holding, Protected, Undoing
      <3>3. snap' \in [Commit -> SnapStates]
        BY <2>3 DEF SnapStates, TypeOK
      <3>4. TypeOK'
        BY <2>1, <2>3, <3>1, <3>3 DEF hostVars, Moved, TypeOK
      <3> QED
        BY <1>1, <2>2, <2>3, <3>1, <3>2, <3>4, MoveKeeps DEF Moved
    <2>4. CASE Goto(p, "undone") /\ Release(p) /\ snap' = snap
      <3>1. Moved(p, "undone")
        BY <2>4, GotoMoves DEF Steps, Ended
      <3>2. lock' = None
        BY <1>1, <2>4 DEF Release
      <3>3. TypeOK'
        BY <2>1, <2>4, <3>1, <3>2 DEF hostVars, Moved, TypeOK
      <3> QED
        BY <1>1, <2>2, <3>1, <3>2, <3>3, LeaveKeeps DEF Ended
    <2> QED
      BY <1>3, <2>3, <2>4 DEF UndoEnd
  <1> QED
    BY <1>2, <1>3

LEMMA DiscardKeeps ==
  ASSUME Inv, NEW p \in Proc, Discard(p)
  PROVE  Inv' /\ Versions' = Versions
  <1>1. lock = p /\ call[p].pc \in Holding
    BY HolderFacts DEF Discard, Holding, Undoing
  <1>2. Moved(p, "undone")
    BY GotoMoves DEF Discard, Steps, Ended
  <1>3. Versions' = Versions
    BY SameVersions DEF Discard, hostVars
  <1>4. snap' \in [Commit -> SnapStates]
    BY DEF Discard, SnapStates, TypeOK
  <1>5. lock' = None
    BY <1>1 DEF Discard, Release
  <1>6. TypeOK'
    BY <1>2, <1>4, <1>5 DEF Discard, hostVars, Moved, TypeOK
  <1> QED
    BY <1>1, <1>2, <1>3, <1>5, <1>6, LeaveKeeps DEF Ended

-----------------------------------------------------------------------------
(* The world: editors, deployments and publications.                       *)

\* A step of nobody's call, that changes no row while a call has the locks.
LEMMA OthersKeep ==
  ASSUME Inv, UNCHANGED <<call, lock, store, config, journal, sealed>>,
         bind' = bind \/ lock = None,
         TypeOK', Versions' = Versions
  PROVE  Inv'
  <1>1. ASSUME NEW p \in Proc PROVE Fits(p, call[p])'
    <2>1. Fits(p, call[p])
      BY DEF CallsFit
    <2>2. CASE bind' = bind
      BY <2>1, <2>2
      DEF Fits, CallFits, SeenFits, JournalFits, ForwardFits, BackFits, Replaced, Restored,
          NewRow, Seen, Data
    <2>3. CASE lock = None
      BY <2>1, <2>3
      DEF Fits, CallFits, SeenFits, JournalFits, ForwardFits, BackFits,
          Holding, Protected, Undoing
    <2> QED
      BY <2>2, <2>3
  <1> QED
    BY <1>1, StepsTogether DEF CallsFit

LEMMA ExternalEditKeeps ==
  ASSUME Inv, NEW h \in Host, ExternalEdit(h)
  PROVE  Inv' /\ Versions' = Versions
  <1>1. faults' \in Counts
    BY Counted DEF ExternalEdit, TypeOK
  <1>2. file' \in Files /\ latest' \in Files
    <2>1. PICK e \in Edits : /\ file' = [file EXCEPT ![h] = e]
                             /\ latest' = latest \/ latest' = [latest EXCEPT ![h] = e]
      BY DEF ExternalEdit
    <2>2. e \in Docs /\ file \in Files /\ latest \in Files
      BY DEF Docs, TypeOK
    <2> QED
      BY <2>1, <2>2 DEF Files
  <1>3. TypeOK'
    BY <1>1, <1>2 DEF ExternalEdit, TypeOK
  <1>4. Versions' = Versions
    BY SameVersions DEF ExternalEdit
  <1> QED
    BY <1>3, <1>4, OthersKeep DEF ExternalEdit

\* A deployment gives a bound host another document, and leaves its commit.
LEMMA DeployKeeps ==
  ASSUME Inv, NEW h \in Host, Deploy(h)
  PROVE  Inv' /\ Versions' = Versions
  <1>1. PICK d \in Docs : /\ file' = [file EXCEPT ![h] = d]
                          /\ bind' = [bind EXCEPT ![h].doc = d]
                          /\ latest' = [latest EXCEPT ![h] = d]
    BY CommitDocs DEF Deploy
  <1>2. bind \in Binds /\ bind[h] \in BindRow
    BY DEF Deploy, TypeOK, Binds
  <1>3. /\ bind' \in Binds
        /\ \A g \in Host : HeldBy(bind'[g]) = HeldBy(bind[g])
    <2>1. PICK row : row = [bind[h] EXCEPT !.doc = d]
      OBVIOUS
    <2>2. row \in BindRow /\ row.commit = bind[h].commit
      BY <1>2, <2>1 DEF BindRow
    <2>3. bind' = [bind EXCEPT ![h] = row]
      BY <1>1, <2>1
    <2>4. bind' \in Binds /\ bind'[h] = row /\ \A g \in Host : g # h => bind'[g] = bind[g]
      BY <1>2, <2>2, <2>3 DEF Binds
    <2>5. HeldBy(bind'[h]) = HeldBy(bind[h])
      BY <1>2, <2>2, <2>4 DEF HeldBy
    <2> QED
      BY <2>4, <2>5
  <1>4. file' \in Files /\ latest' \in Files
    BY <1>1 DEF Files, TypeOK
  <1>5. snap' \in [Commit -> SnapStates]
    BY DEF Deploy, SnapStates, TypeOK
  <1>6. TypeOK'
    BY <1>3, <1>4, <1>5 DEF Deploy, TypeOK
  <1>7. Versions' = Versions
    BY <1>3 DEF Deploy, Versions, Pending
  <1> QED
    BY <1>6, <1>7, OthersKeep DEF Deploy

LEMMA PublishKeeps ==
  ASSUME Inv, Publish
  PROVE  Inv' /\ Versions' = Versions
  <1>1. TypeOK'
    BY DEF Publish, hostVars, SnapStates, TypeOK
  <1>2. Versions' = Versions
    BY SameVersions DEF Publish, hostVars
  <1> QED
    BY <1>1, <1>2, OthersKeep DEF Publish, hostVars

-----------------------------------------------------------------------------
(* The theorems.                                                           *)

LEMMA StepKeeps ==
  ASSUME Inv, NEW p \in Proc, Step(p)
  PROVE  Inv' /\ (Versions' = Versions \/ Switches)
  <1>1. CASE Preview(p) \/ Begin(p) \/ Lock(p) \/ Recheck(p) \/ Snapshot(p)
    BY <1>1, PreviewKeeps, BeginKeeps, LockKeeps, RecheckKeeps, SnapshotKeeps
  <1>2. CASE CopyTree(p) \/ WriteJournal(p) \/ CheckHost(p) \/ WriteFile(p) \/ SetBinding(p)
    BY <1>2, CopyTreeKeeps, WriteJournalKeeps, CheckHostKeeps, WriteFileKeeps, SetBindingKeeps
  <1>3. CASE Readback(p) \/ WriteConfig(p) \/ Seal(p) \/ Finish(p)
    BY <1>3, ReadbackKeeps, WriteConfigKeeps, SealKeeps, FinishKeeps
  <1>4. CASE UndoCheck(p) \/ UndoFile(p) \/ UndoBinding(p)
    BY <1>4, UndoCheckKeeps, UndoFileKeeps, UndoBindingKeeps
  <1>5. CASE UndoConfig(p) \/ UndoEnd(p) \/ Discard(p)
    BY <1>5, UndoConfigKeeps, UndoEndKeeps, DiscardKeeps
  <1> QED
    BY <1>1, <1>2, <1>3, <1>4, <1>5 DEF Step

LEMMA NextKeeps ==
  ASSUME Inv, [Next]_vars
  PROVE  Inv' /\ (Versions' = Versions \/ Switches)
  <1>1. ASSUME NEW p \in Proc, Step(p) \/ Refuse(p) \/ Fails(p) \/ UndoFails(p) \/ Crash(p)
        PROVE  Inv' /\ (Versions' = Versions \/ Switches)
    BY <1>1, StepKeeps, RefuseKeeps, FailsKeeps, UndoFailsKeeps, CrashKeeps
  <1>2. ASSUME NEW h \in Host, ExternalEdit(h) \/ Deploy(h)
        PROVE  Inv' /\ Versions' = Versions
    BY <1>2, ExternalEditKeeps, DeployKeeps
  <1>3. CASE Publish
    BY <1>3, PublishKeeps
  <1>4. CASE UNCHANGED vars
    <2>1. TypeOK' /\ bind' = bind
      BY <1>4 DEF vars, TypeOK
    <2>2. Versions' = Versions
      BY <1>4, SameVersions DEF vars
    <2> QED
      BY <1>4, <2>1, <2>2, OthersKeep DEF vars
  <1> QED
    BY <1>1, <1>2, <1>3, <1>4 DEF Next

\* The calls, the journal and the hosts fit each other in every reachable state.
THEOREM Inductive == Spec => []Inv
  <1>1. Inv /\ [Next]_vars => Inv'
    BY NextKeeps
  <1> QED
    BY <1>1, InitialInv, PTL DEF Spec

THEOREM SyncTypeCorrect == Spec => []TypeOK
  <1>1. Inv => TypeOK
    OBVIOUS
  <1> QED
    BY <1>1, Inductive, PTL

\* Once the configuration names a commit, every host is bound to that commit,
\* counting an unfinished synchronization as not begun (_apply of
\* instruction_sync.py, both ends of its try block).
THEOREM HostsInStep == Spec => []InStep
  <1>1. Inv => InStep
    OBVIOUS
  <1> QED
    BY <1>1, Inductive, PTL

\* A synchronization moves all hosts and the configuration to its commit in
\* one step, or nothing: InstructionSync implements AtomicSwitch.
THEOREM SyncImplementsSwitch == Spec => SyncIsAtomic
  <1>1. Init => Switching!Init
    <2> SUFFICES ASSUME Init PROVE Switching!Init
      OBVIOUS
    <2>1. ~Pending /\ config = None
      BY DEF Init, Pending
    <2>2. ASSUME NEW h \in Host PROVE HeldBy(bind[h]) \in Commit \union {None}
      BY InitialInv DEF TypeOK, Binds, BindRow, HeldBy
    <2>3. Versions \in [Parts -> Commit \union {None}]
      BY <2>1, <2>2 DEF Versions, Parts
    <2> QED
      BY <2>3 DEF Parts, Switching!Init
  <1>2. Inv /\ [Next]_vars => [Switching!Switch]_(Versions)
    BY NextKeeps DEF Switches, Parts, Switching!Switch
  <1> QED
    BY <1>1, <1>2, Inductive, PTL DEF Spec, SyncIsAtomic, Switching!Spec

\* Which steps touch the journal, the configuration and the Stores.
LEMMA JournalSteps ==
  ASSUME NEW p \in Proc, Step(p)
  PROVE  journal' = journal \/ WriteJournal(p) \/ Finish(p) \/ UndoEnd(p)
  <1>1. CASE Preview(p) \/ Begin(p) \/ Lock(p) \/ Recheck(p) \/ Snapshot(p) \/ CopyTree(p)
    BY <1>1 DEF Preview, Begin, Lock, Recheck, Snapshot, CopyTree
  <1>2. CASE CheckHost(p) \/ WriteFile(p) \/ SetBinding(p) \/ Readback(p) \/ WriteConfig(p)
             \/ Seal(p)
    BY <1>2 DEF CheckHost, WriteFile, SetBinding, Readback, WriteConfig, Seal
  <1>3. CASE UndoCheck(p) \/ UndoFile(p) \/ UndoBinding(p) \/ UndoConfig(p) \/ Discard(p)
    BY <1>3 DEF UndoCheck, UndoFile, UndoBinding, UndoConfig, Discard
  <1> QED
    BY <1>1, <1>2, <1>3 DEF Step

LEMMA WriteSteps ==
  ASSUME NEW p \in Proc, Step(p)
  PROVE  UNCHANGED <<config, store>> \/ call[p].pc \in Protected \union (Undoing \ {"discard"})
  <1>1. CASE Preview(p) \/ Begin(p) \/ Lock(p) \/ Recheck(p) \/ Snapshot(p) \/ CopyTree(p)
             \/ WriteJournal(p) \/ CheckHost(p) \/ WriteFile(p)
    BY <1>1 DEF Preview, Begin, Lock, Recheck, Snapshot, CopyTree, WriteJournal, CheckHost,
                WriteFile, hostVars
  <1>2. CASE SetBinding(p) \/ WriteConfig(p) \/ UndoBinding(p) \/ UndoConfig(p)
    BY <1>2 DEF SetBinding, WriteConfig, UndoBinding, UndoConfig, Protected, Undoing
  <1>3. CASE Readback(p) \/ Seal(p) \/ Finish(p) \/ UndoCheck(p) \/ UndoFile(p) \/ UndoEnd(p)
             \/ Discard(p)
    BY <1>3 DEF Readback, Seal, Finish, UndoCheck, UndoFile, UndoEnd, Discard, hostVars
  <1> QED
    BY <1>1, <1>2, <1>3 DEF Step

LEMMA StillSteps ==
  ASSUME [Next]_vars, ~\E p \in Proc : Step(p)
  PROVE  UNCHANGED <<journal, config, store>>
  BY DEF Next, Refuse, Fails, UndoFails, Crash, ExternalEdit, Deploy, Publish, hostVars, vars

\* A journal is removed or replaced only by the call that wrote it, which has
\* the locks, and only that call writes configuration and Stores meanwhile
\* (_apply of instruction_sync.py; the refusal of synchronize()).
THEOREM JournalGuards == Spec => JournalBlocks
  <1>1. ASSUME Inv, NEW p \in Proc, Step(p), journal # None
        PROVE  /\ journal' # journal => call[journal.by].pc \in Holding /\ lock = journal.by
               /\ <<config, store>>' # <<config, store>> => lock = journal.by
    <2>1. ASSUME call[p].pc \in Protected \union (Undoing \ {"discard"}) \union {"finish"}
          PROVE  journal.by = p /\ lock = p /\ call[p].pc \in Holding
      <3>1. call[p].pc \in Holding
        BY <2>1, StepKinds DEF Holding
      <3>2. lock = p /\ JournalFits(p, call[p])
        BY <1>1, <3>1, HolderFacts DEF Fits
      <3> QED
        BY <2>1, <3>1, <3>2 DEF JournalFits
    <2>2. ~WriteJournal(p)
      BY <1>1, HolderFacts DEF WriteJournal, Holding, Fits, SeenFits
    <2>3. Finish(p) \/ UndoEnd(p) =>
            call[p].pc \in Protected \union (Undoing \ {"discard"}) \union {"finish"}
      BY DEF Finish, UndoEnd, Undoing
    <2> QED
      BY <1>1, <2>1, <2>2, <2>3, JournalSteps, WriteSteps
  <1>2. Inv /\ [Next]_vars =>
          (journal # None =>
             /\ journal' # journal => call[journal.by].pc \in Holding /\ lock = journal.by
             /\ <<config, store>>' # <<config, store>> => lock = journal.by)
    BY <1>1, StillSteps
  <1> QED
    BY <1>2, Inductive, PTL DEF Spec, JournalBlocks

\* A journal that is removed without a finished call leaves every row, Store and
\* the configuration as it says they were (the except block of _apply).
THEOREM RollbackRestores == Spec => RollbackComplete
  <1>1. ASSUME Inv, NEW p \in Proc, Step(p), journal # None, journal' = None, ~sealed
        PROVE  bind' = journal.bind /\ store' = journal.store /\ config' = journal.config
    <2>1. ~WriteJournal(p)
      BY <1>1, HolderFacts DEF WriteJournal, Holding, Fits, SeenFits
    <2>2. ~Finish(p)
      BY <1>1, HolderFacts DEF Finish, Holding, Fits, JournalFits
    <2>3. UndoEnd(p)
      BY <1>1, <2>1, <2>2, JournalSteps
    <2>4. call[p].pc = "undoEnd" /\ call[p].failed = {}
      BY <1>1, <2>3 DEF UndoEnd
    <2> QED
      <3>1. bind = journal.bind /\ store = journal.store /\ config = journal.config
        BY <1>1, <2>4, AllRestored
      <3> QED
        BY <2>3, <2>4, <3>1 DEF UndoEnd, hostVars
  <1>2. Inv /\ [Next]_vars =>
          (journal # None /\ journal' = None /\ ~sealed =>
             bind' = journal.bind /\ store' = journal.store /\ config' = journal.config)
    BY <1>1, StillSteps
  <1> QED
    BY <1>2, Inductive, PTL DEF Spec, RollbackComplete

-----------------------------------------------------------------------------
(* What users and deployments put in the hosts (ContentInvariant).         *)

Told == {"snapshot", "copying", "journal"} \union Journaled

LEMMA ToldKinds ==
  /\ Told \subseteq Holding /\ Journaled \subseteq Holding /\ "finish" \in Holding
  /\ Protected \subseteq Journaled /\ Journaled \subseteq Told
  /\ Undoing \ {"discard"} \subseteq Journaled
  /\ "finish" \notin Journaled /\ "finish" \notin Told
  /\ "undoBind" \in Undoing /\ "write" \in Protected /\ "undoWrite" \in Undoing
  /\ Protected \cap Undoing = {}
  BY DEF Told, Journaled, Holding, Protected, Undoing

\* A call that is not told of in KeepsText, or done, remembers no text.
LEMMA QuietText ==
  ASSUME NEW p \in Proc, call'[p].pc \notin Told, call'[p].pc # "finish"
  PROVE  TextFits(call[p])'
  <1>1. /\ call'[p].pc \notin Journaled /\ call'[p].pc \notin Protected
        /\ call'[p].pc \notin Undoing \ {"discard"}
        /\ call'[p].pc \notin {"write", "undoWrite", "undoBind"}
    BY ToldKinds DEF Undoing, Protected
  <1>2. KeepsText(call[p])'
    BY <1>1 DEF KeepsText, Told
  <1>3. ForwardText(call[p])' /\ BackText(call[p])' /\ DoneText(call[p])'
    BY <1>1 DEF ForwardText, BackText, DoneText
  <1> QED
    BY <1>2, <1>3 DEF TextFits

\* The steps of a call leave what the others remember alone.
LEMMA TextMoves ==
  ASSUME Inv, ContentInvariant, NEW p \in Proc, \A r \in Proc \ {p} : call'[r] = call[r],
         lock \in {None, p}, TextFits(call[p])', ContentKept'
  PROVE  ContentInvariant'
  <1>1. ASSUME NEW r \in Proc PROVE TextFits(call[r])'
    <2>1. CASE r = p
      BY <2>1
    <2>2. CASE r # p
      <3>1. call'[r] = call[r] /\ call[r].pc \notin Holding
        BY <2>2 DEF CallsFit, Fits, CallFits
      <3>2. call'[r].pc \notin Told /\ call'[r].pc # "finish"
        BY <3>1, ToldKinds
      <3> QED
        BY <3>2, QuietText
    <2> QED
      BY <2>1, <2>2
  <1> QED
    BY <1>1 DEF ContentInvariant

\* A call that moves to a step that remembers no text.
LEMMA QuietMoves ==
  ASSUME Inv, ContentInvariant, NEW p \in Proc, NEW s \in Steps \ (Told \union {"finish"}),
         Moved(p, s), UNCHANGED <<file, latest>>, journal' = journal \/ (lock = p /\ file = latest)
  PROVE  ContentInvariant'
  <1>1. TextFits(call[p])'
    BY QuietText DEF Moved
  <1>2. ContentKept'
    BY DEF ContentInvariant, ContentKept
  <1>3. ASSUME NEW r \in Proc \ {p} PROVE TextFits(call[r])'
    <2>1. call'[r] = call[r] /\ TextFits(call[r])
      BY DEF Moved, ContentInvariant
    <2>2. CASE journal' = journal
      BY <2>1, <2>2 DEF TextFits, KeepsText, ForwardText, BackText, DoneText, Data, Seen, Cur, ReadBack
    <2>3. CASE lock = p
      <3>1. call'[r].pc \notin Told /\ call'[r].pc # "finish"
        BY <2>1, <2>3, ToldKinds DEF CallsFit, Fits, CallFits
      <3> QED
        BY <3>1, QuietText
    <2> QED
      BY <2>2, <2>3
  <1> QED
    BY <1>1, <1>2, <1>3 DEF ContentInvariant

LEMMA QuietStops ==
  ASSUME Inv, ContentInvariant, NEW p \in Proc,
         NEW s \in Ended \union {"lock", "recheck", "discard"}, Goto(p, s),
         UNCHANGED <<file, latest>>, journal' = journal \/ (lock = p /\ file = latest)
  PROVE  ContentInvariant'
  <1>1. s \in Steps \ (Told \union {"finish"})
    BY DEF Steps, Holding, Told, Journaled, Protected, Undoing, Ended
  <1>2. Moved(p, s)
    BY <1>1, GotoMoves
  <1> QED
    BY <1>1, <1>2, QuietMoves

LEMMA HolderText ==
  ASSUME Inv, ContentInvariant, NEW p \in Proc, call[p].pc \in Told \union {"finish"}
  PROVE  /\ lock = p /\ call[p].plan \in Plans /\ call[p] \in Calls
         /\ TextFits(call[p]) /\ ContentKept
         /\ call[p].pc \in Journaled \union {"finish"} => journal # None
  <1>1. call[p].pc \in Holding
    BY ToldKinds
  <1> QED
    BY <1>1, HolderFacts, ToldKinds DEF ContentInvariant, Fits, JournalFits, Journaled

\* Steps that change no host: KeepsText holds on.
LEMMA SameText ==
  ASSUME Inv, ContentInvariant, NEW p \in Proc, call[p].pc \in Told, call'[p].pc \in Told,
         call'[p].pc \notin {"write", "undoWrite"},
         SamePlan(p), UNCHANGED <<file, latest>>,
         \/ journal' = journal /\ (call'[p].pc \in Journaled => call[p].pc \in Journaled)
         \/ journal'.file = call[p].plan.file
  PROVE  KeepsText(call[p])'
  BY HolderText DEF TextFits, KeepsText, SamePlan, Told

LEMMA PreviewText ==
  ASSUME Inv, ContentInvariant, NEW p \in Proc, Preview(p)
  PROVE  ContentInvariant'
  <1>1. PICK adopted \in SUBSET Host :
          call' = [call EXCEPT ![p].pc = "planned", ![p].plan = Obs, ![p].adopt = adopted]
    BY DEF Preview
  <1>2. Obs \in Plans
    BY DEF Obs, Plans, TypeOK
  <1>3. Moved(p, "planned")
    BY <1>1, <1>2, PlanMoves
  <1>4. "planned" \in Steps \ (Told \union {"finish"})
    BY DEF Steps, Told, Journaled, Protected, Undoing
  <1> QED
    BY <1>3, <1>4, QuietMoves DEF Preview, hostVars

LEMMA OutsideText ==
  ASSUME Inv, ContentInvariant, NEW p \in Proc,
         Begin(p) \/ Lock(p) \/ Refuse(p) \/ Crash(p) \/ Discard(p)
  PROVE  ContentInvariant'
  <1>1. UNCHANGED <<file, latest, journal>>
    BY DEF Begin, Lock, Refuse, Crash, Discard, hostVars
  <1>2. PICK s \in Ended \union {"lock", "recheck", "discard"} : Goto(p, s)
    BY DEF Begin, Lock, Refuse, Crash, Discard, Ended
  <1> QED
    BY <1>1, <1>2, QuietStops

LEMMA RecheckText ==
  ASSUME Inv, ContentInvariant, NEW p \in Proc, Recheck(p)
  PROVE  ContentInvariant'
  <1>1. UNCHANGED <<file, latest, journal>> /\ call[p].pc \in Holding /\ ContentKept
    BY DEF Recheck, hostVars, Holding, ContentInvariant
  <1>2. CASE Goto(p, "refused")
    BY <1>1, <1>2, QuietStops DEF Ended
  <1>3. CASE Goto(p, "snapshot") /\ journal = None /\ \A h \in Host : HostAsSeen(call[p], h)
    <2>1. Moved(p, "snapshot") /\ SamePlan(p)
      BY <1>3, GotoMoves DEF Steps, Holding, SameCall
    <2>2. \A h \in Host : latest[h] = call[p].plan.file[h]
      BY <1>1, <1>3 DEF HostAsSeen, Seen, ContentKept
    <2>3. TextFits(call[p])'
      BY <1>1, <2>1, <2>2 DEF Moved, SamePlan, TextFits, KeepsText, ForwardText, BackText,
                              DoneText, Journaled, Protected, Undoing
    <2> QED
      BY <1>1, <2>1, <2>3, TextMoves, HolderFacts DEF Moved, ContentKept
  <1> QED
    BY <1>2, <1>3 DEF Recheck

LEMMA SnapshotText ==
  ASSUME Inv, ContentInvariant, NEW p \in Proc, Snapshot(p) \/ CopyTree(p)
  PROVE  ContentInvariant'
  <1>1. /\ UNCHANGED <<file, latest, journal>> /\ call[p].pc \in {"snapshot", "copying"}
        /\ call[p].pc \in Told
    BY DEF Snapshot, CopyTree, hostVars, Told
  <1>2. CASE Goto(p, "refused")
    BY <1>1, <1>2, QuietStops DEF Ended
  <1>3. ASSUME NEW s \in {"copying", "journal"}, Moved(p, s), SamePlan(p) PROVE ContentInvariant'
    <2>1. call'[p].pc = s /\ s \in Told /\ s \notin Journaled
      BY <1>3 DEF Moved, Told, Journaled, Protected, Undoing
    <2>2. KeepsText(call[p])'
      BY <1>1, <1>3, <2>1, SameText
    <2>3. TextFits(call[p])'
      BY <1>3, <2>1, <2>2 DEF TextFits, ForwardText, BackText, DoneText, Journaled, Protected,
                              Undoing
    <2> QED
      BY <1>1, <1>3, <2>3, TextMoves, HolderText DEF Moved, ContentKept
  <1>4. CASE CopyTree(p)
    BY <1>3, <1>4, CreatedMoves DEF CopyTree, SameCall
  <1>5. ASSUME NEW s \in {"copying", "journal"}, Goto(p, s) PROVE ContentInvariant'
    <2>1. Moved(p, s) /\ SamePlan(p)
      BY <1>5, GotoMoves DEF Steps, Holding, SameCall
    <2> QED
      BY <1>3, <2>1
  <1> QED
    BY <1>2, <1>4, <1>5 DEF Snapshot

\* The journal has what the plan has; no host is touched yet.
LEMMA WriteJournalText ==
  ASSUME Inv, ContentInvariant, NEW p \in Proc, WriteJournal(p)
  PROVE  ContentInvariant'
  <1>1. /\ UNCHANGED <<file, latest>> /\ call[p].pc \in Told /\ call[p].pc = "journal"
        /\ journal'.file = call[p].plan.file /\ call[p].pc \in Holding
    BY DEF WriteJournal, hostVars, Told, Holding, Seen
  <1>2. journal = None /\ call[p].i = 0
    BY <1>1, HolderFacts DEF Fits, CallFits, SeenFits
  <1>3. Moved(p, "check") /\ SameCall(p)
    BY GotoMoves DEF WriteJournal, Steps, Holding, Protected
  <1>4. \A h \in Host : file[h] = latest[h]
    BY <1>2 DEF ContentInvariant, ContentKept
  <1>5. KeepsText(call[p])'
    BY <1>1, <1>3, SameText DEF Moved, SameCall, Told, Journaled, Protected
  <1>6. ForwardText(call[p])'
    BY <1>1, <1>4, Numbers DEF ForwardText
  <1>7. TextFits(call[p])'
    BY <1>3, <1>5, <1>6 DEF Moved, TextFits, BackText, DoneText, Undoing
  <1>8. ContentKept'
    BY <1>1, <1>4 DEF ContentKept
  <1> QED
    BY <1>1, <1>3, <1>7, <1>8, TextMoves, HolderFacts DEF Moved

\* Where the read back is: up to the current host, which counts after it.
LEMMA ReadBackUpTo ==
  ASSUME NEW c, c.i \in Nat, NEW j \in Nat
  PROVE  /\ c.pc \in {"write", "bind", "readback"} => (ReadBack(c, j) <=> j < c.i)
         /\ c.pc \notin {"write", "bind", "readback"} => (ReadBack(c, j) <=> j <= c.i)
  BY DEF ReadBack

\* A step forward that changes no host and reads back none.
LEMMA ForwardMoves ==
  ASSUME Inv, ContentInvariant, NEW p \in Proc, NEW s \in Protected \ {"write"},
         call[p].pc \in Protected, Moved(p, s), SameCall(p),
         UNCHANGED <<file, latest, journal>>,
         call[p].pc \in {"write", "bind", "readback"} => s \in {"bind", "readback"}
  PROVE  ContentInvariant'
  <1>1. /\ call[p].pc \in Told /\ s \in Told /\ call[p].pc \in Journaled
        /\ s \notin Undoing
    BY ToldKinds
  <1>2. KeepsText(call[p])'
    BY <1>1, SameText DEF Moved, SameCall, Undoing
  <1>3. ForwardText(call[p])'
    BY <1>1, HolderText DEF Moved, SameCall, SamePlan, TextFits, ForwardText, ReadBack, Data, Seen
  <1>4. BackText(call[p])' /\ DoneText(call[p])'
    BY <1>1, ToldKinds DEF Moved, BackText, DoneText
  <1>5. TextFits(call[p])' /\ ContentKept'
    BY <1>1, <1>2, <1>3, <1>4, HolderText DEF TextFits, ContentKept
  <1> QED
    BY <1>1, <1>5, TextMoves, HolderText DEF Moved

\* The exception: the hosts to come are as the user left them.
LEMMA UndoText ==
  ASSUME Inv, ContentInvariant, NEW p \in Proc, call[p].pc \in Protected,
         call' = [call EXCEPT ![p] = Undo(call[p])], UNCHANGED <<file, latest, journal>>
  PROVE  ContentInvariant'
  <1>1. call[p].pc \in Told /\ call[p].pc \in Journaled
    BY ToldKinds
  <1>2. /\ Moved(p, IF call[p].i = 0 THEN "undoConfig" ELSE "undoCheck")
        /\ SameCall(p)
    BY <1>1, HolderText, UndoMoves DEF SameCall, SamePlan
  <1>3. /\ call'[p].pc \in Told /\ call'[p].pc \notin {"write", "undoWrite", "undoBind", "finish"}
        /\ call'[p].pc \notin Protected
    BY <1>2 DEF Moved, Told, Journaled, Undoing, Protected
  <1>4. KeepsText(call[p])'
    BY <1>1, <1>2, <1>3, SameText DEF SameCall
  <1>5. ForwardText(call[p])' /\ DoneText(call[p])'
    BY <1>3 DEF ForwardText, DoneText
  <1>6. BackText(call[p])'
    BY <1>1, <1>2, <1>3, HolderText DEF SameCall, TextFits, ForwardText, BackText
  <1>7. TextFits(call[p])' /\ ContentKept'
    BY <1>1, <1>4, <1>5, <1>6, HolderText DEF TextFits, ContentKept
  <1> QED
    BY <1>1, <1>2, <1>7, TextMoves, HolderText DEF Moved

LEMMA CheckHostText ==
  ASSUME Inv, ContentInvariant, NEW p \in Proc, CheckHost(p)
  PROVE  ContentInvariant'
  <1>1. /\ UNCHANGED <<file, latest, journal>> /\ call[p].pc = "check"
        /\ call[p].pc \in Protected /\ call[p].pc \in Told /\ call[p].pc \in Journaled
    BY ToldKinds DEF CheckHost, hostVars, Protected
  <1>2. CASE Goto(p, "config")
    <2>1. Moved(p, "config") /\ SameCall(p)
      BY <1>2, GotoMoves DEF Steps, Holding, Protected
    <2> QED
      BY <1>1, <2>1, ForwardMoves DEF Protected
  <1>3. CASE /\ call[p].i # Len(Targets) /\ HostAsSeen(call[p], Targets[call[p].i + 1])
             /\ call' = [call EXCEPT ![p].pc = "write", ![p].i = call[p].i + 1]
    <2>1. /\ Moved(p, "write") /\ SamePlan(p) /\ call'[p].i = call[p].i + 1
      BY <1>3, NextHostMoves
    <2>2. call[p].i \in Nat /\ call[p].i + 1 \in 1..Len(Targets)
      <3>1. call[p].i \in 0..Len(Targets)
        BY <1>1, HolderText DEF Calls
      <3> QED
        BY <1>3, <3>1, Numbers
    <2>3. /\ TextFits(call[p]) /\ ContentKept /\ journal.file = call[p].plan.file
      BY <1>1, HolderText DEF TextFits, KeepsText
    <2>4. ASSUME NEW h \in Host, file[h] = call[p].plan.file[h]
          PROVE  latest[h] = call[p].plan.file[h]
      BY <1>1, <2>3, <2>4 DEF TextFits, KeepsText, Told
    <2>5. latest[Cur(call[p])]' = call[p].plan.file[Cur(call[p])']
      <3>1. Cur(call[p])' = Targets[call[p].i + 1]
        BY <2>1 DEF Cur
      <3>2. Targets[call[p].i + 1] \in Host
        BY <2>2, Numbers
      <3> QED
        BY <1>1, <1>3, <2>4, <3>1, <3>2 DEF HostAsSeen, Seen
    <2>6. KeepsText(call[p])'
      <3>1. \A h \in Host : \/ latest[h] = call[p].plan.file[h]
                            \/ latest[h] \in Edits /\ latest[h] = file[h]
        BY <1>1, <2>3 DEF TextFits, KeepsText, Told
      <3> QED
        BY <1>1, <2>1, <2>3, <2>5, <3>1 DEF Moved, SamePlan, KeepsText
    <2>7. ForwardText(call[p])'
      <3> SUFFICES ASSUME NEW j \in 1..Len(Targets)
                   PROVE  /\ j > call'[p].i => file[Targets[j]] = latest[Targets[j]]
                          /\ ReadBack(call[p], j)' =>
                               file[Targets[j]] \in {Data(call[p]), latest[Targets[j]]}
        BY <1>1, <2>1 DEF ForwardText, SamePlan, Data, Seen
      <3>1. j \in Nat
        BY Numbers
      <3>2. j > call[p].i + 1 => j > call[p].i
        BY <2>2, <3>1
      <3>3. ReadBack(call[p], j)' => ReadBack(call[p], j)
        <4>1. ReadBack(call[p], j) <=> j <= call[p].i
          BY <1>1, <2>2, <3>1, ReadBackUpTo
        <4>2. ReadBack(call[p], j)' <=> j < call[p].i + 1
          BY <2>1 DEF ReadBack, Moved
        <4> QED
          BY <2>2, <3>1, <4>1, <4>2, Orders
      <3> QED
        BY <1>1, <2>1, <2>3, <3>2, <3>3 DEF TextFits, ForwardText
    <2>8. BackText(call[p])' /\ DoneText(call[p])'
      BY <2>1 DEF Moved, BackText, DoneText, Undoing
    <2>9. TextFits(call[p])' /\ ContentKept'
      BY <1>1, <2>3, <2>6, <2>7, <2>8 DEF TextFits, ContentKept
    <2> QED
      BY <1>1, <2>1, <2>9, TextMoves, HolderText DEF Moved
  <1>4. CASE call' = [call EXCEPT ![p] = Undo(call[p])]
    BY <1>1, <1>4, UndoText
  <1> QED
    BY <1>2, <1>3, <1>4 DEF CheckHost

\* The host a call is at going forward, and the others.
LEMMA WritingHost ==
  ASSUME Inv, NEW p \in Proc, call[p].pc \in {"write", "bind", "readback"}
  PROVE  /\ call[p].i \in 1..Len(Targets) /\ Cur(call[p]) = Targets[call[p].i]
         /\ Cur(call[p]) \in Host
         /\ \A j \in 1..Len(Targets) : j # call[p].i => Targets[j] # Cur(call[p])
  <1> DEFINE c == call[p]
  <1>1. c \in Calls /\ c.i # 0
    BY ForwardFacts DEF ForwardFits, Protected
  <1>2. c.i \in 1..Len(Targets) /\ Cur(c) = Targets[c.i]
    BY <1>1, Numbers DEF Cur, Calls
  <1> HIDE DEF c
  <1>3. Cur(c) \in Host /\ \A j \in 1..Len(Targets) : j # c.i => Targets[j] # Cur(c)
    BY <1>1, <1>2, Numbers, Distinct
  <1> QED
    BY <1>2, <1>3 DEF c

LEMMA WriteFileText ==
  ASSUME Inv, ContentInvariant, NEW p \in Proc, WriteFile(p)
  PROVE  ContentInvariant'
  <1>1. /\ UNCHANGED <<latest, journal>> /\ call[p].pc = "write"
        /\ call[p].pc \in Protected /\ call[p].pc \in Told /\ call[p].pc \in Journaled
    BY ToldKinds DEF WriteFile, Protected
  <1>2. Moved(p, "bind") /\ SameCall(p)
    BY GotoMoves DEF WriteFile, Steps, Holding, Protected
  <1>3. /\ TextFits(call[p]) /\ ContentKept /\ journal.file = call[p].plan.file /\ journal # None
        /\ latest[Cur(call[p])] = call[p].plan.file[Cur(call[p])]
    BY <1>1, HolderText DEF TextFits, KeepsText
  <1>4. /\ call[p].i \in 1..Len(Targets) /\ Cur(call[p]) = Targets[call[p].i]
        /\ \A j \in 1..Len(Targets) : j # call[p].i => Targets[j] # Cur(call[p])
    BY <1>1, WritingHost
  <1>5. \A h \in Host : h # Cur(call[p]) => file'[h] = file[h]
    BY DEF WriteFile, TypeOK, Files
  <1>6. \A h \in Host : \/ latest[h] = call[p].plan.file[h]
                        \/ latest[h] \in Edits /\ latest[h] = file[h]
    BY <1>1, <1>3 DEF TextFits, KeepsText, Told
  <1>7. KeepsText(call[p])'
    <2>1. \A h \in Host : \/ latest[h] = call[p].plan.file[h]
                          \/ latest[h] \in Edits /\ latest[h] = file'[h]
      BY <1>3, <1>5, <1>6
    <2> QED
      BY <1>1, <1>2, <1>3, <2>1 DEF Moved, SameCall, SamePlan, KeepsText
  <1>8. ForwardText(call[p])'
    <2> SUFFICES ASSUME NEW j \in 1..Len(Targets)
                 PROVE  /\ j > call[p].i => file'[Targets[j]] = latest[Targets[j]]
                        /\ ReadBack(call[p], j)' =>
                             file'[Targets[j]] \in {Data(call[p]), latest[Targets[j]]}
      BY <1>1, <1>2 DEF ForwardText, SameCall, SamePlan, Data, Seen
    <2>1. j \in Nat /\ call[p].i \in Nat /\ Targets[j] \in Host
      BY <1>4, Numbers
    <2>2. ReadBack(call[p], j)' => ReadBack(call[p], j) /\ j # call[p].i
      <3>1. ReadBack(call[p], j)' <=> j < call[p].i
        BY <1>2 DEF ReadBack, Moved, SameCall
      <3> QED
        BY <2>1, <3>1, Orders DEF ReadBack
    <2>3. j > call[p].i => j # call[p].i
      BY <2>1
    <2>4. j # call[p].i => file'[Targets[j]] = file[Targets[j]]
      BY <1>4, <1>5, <2>1
    <2> QED
      BY <1>1, <1>3, <2>2, <2>3, <2>4 DEF TextFits, ForwardText
  <1>9. BackText(call[p])' /\ DoneText(call[p])'
    BY <1>2 DEF Moved, BackText, DoneText, Undoing
  <1>10. ContentKept'
    BY <1>1, <1>3, <1>5 DEF ContentKept
  <1> QED
    BY <1>1, <1>2, <1>7, <1>8, <1>9, <1>10, TextMoves, HolderText DEF Moved, TextFits

LEMMA SetBindingText ==
  ASSUME Inv, ContentInvariant, NEW p \in Proc, SetBinding(p) \/ WriteConfig(p)
  PROVE  ContentInvariant'
  <1>1. UNCHANGED <<file, latest, journal>>
    BY DEF SetBinding, WriteConfig, hostVars
  <1>2. CASE SetBinding(p)
    <2>1. Moved(p, "readback") /\ SameCall(p) /\ call[p].pc = "bind"
      BY <1>2, GotoMoves DEF SetBinding, Steps, Holding, Protected
    <2> QED
      BY <1>1, <2>1, ForwardMoves DEF Protected
  <1>3. CASE WriteConfig(p)
    <2>1. Moved(p, "seal") /\ SameCall(p) /\ call[p].pc = "config"
      BY <1>3, GotoMoves DEF WriteConfig, Steps, Holding, Protected
    <2> QED
      BY <1>1, <2>1, ForwardMoves DEF Protected
  <1> QED
    BY <1>2, <1>3

LEMMA ReadbackText ==
  ASSUME Inv, ContentInvariant, NEW p \in Proc, Readback(p)
  PROVE  ContentInvariant'
  <1>1. /\ UNCHANGED <<file, latest, journal>> /\ call[p].pc = "readback"
        /\ call[p].pc \in Protected /\ call[p].pc \in Told /\ call[p].pc \in Journaled
    BY ToldKinds DEF Readback, hostVars, Protected
  <1>2. CASE Goto(p, "check") /\ file[Cur(call[p])] = Data(call[p])
    <2>1. Moved(p, "check") /\ SameCall(p)
      BY <1>2, GotoMoves DEF Steps, Holding, Protected
    <2>2. call'[p].pc \in Told /\ call'[p].pc = "check"
      BY <2>1 DEF Moved, Told, Journaled, Protected
    <2>3. KeepsText(call[p])'
      BY <1>1, <2>1, <2>2, SameText DEF SameCall
    <2>4. ForwardText(call[p])'
      <3> SUFFICES ASSUME NEW j \in 1..Len(Targets)
                   PROVE  /\ j > call[p].i => file[Targets[j]] = latest[Targets[j]]
                          /\ ReadBack(call[p], j)' =>
                               file[Targets[j]] \in {Data(call[p]), latest[Targets[j]]}
        BY <1>1, <2>1 DEF ForwardText, SameCall, SamePlan, Data, Seen
      <3>1. ReadBack(call[p], j)' => j = call[p].i \/ ReadBack(call[p], j)
        BY <2>1 DEF ReadBack, SameCall
      <3>2. Cur(call[p]) = Targets[call[p].i]
        BY DEF Cur
      <3> QED
        BY <1>1, <1>2, <3>1, <3>2, HolderText DEF TextFits, ForwardText
    <2>5. BackText(call[p])' /\ DoneText(call[p])'
      BY <2>2 DEF BackText, DoneText, Undoing
    <2> QED
      BY <1>1, <2>1, <2>3, <2>4, <2>5, TextMoves, HolderText DEF Moved, TextFits, ContentKept
  <1>3. CASE call' = [call EXCEPT ![p] = Undo(call[p])]
    BY <1>1, <1>3, UndoText
  <1> QED
    BY <1>2, <1>3 DEF Readback

LEMMA FailsText ==
  ASSUME Inv, ContentInvariant, NEW p \in Proc, Fails(p)
  PROVE  ContentInvariant'
  BY UndoText DEF Fails, hostVars

\* All hosts are read back: what a host has now is what was last put there.
LEMMA SealText ==
  ASSUME Inv, ContentInvariant, NEW p \in Proc, Seal(p)
  PROVE  ContentInvariant'
  <1>1. /\ UNCHANGED <<file, journal>> /\ call[p].pc = "seal"
        /\ call[p].pc \in Protected /\ call[p].pc \in Told
    BY ToldKinds DEF Seal, hostVars, Protected
  <1>2. Moved(p, "finish")
    BY GotoMoves DEF Seal, Steps, Holding
  <1>3. call[p].i = Len(Targets)
    BY <1>1, ForwardFacts DEF ForwardFits
  <1>4. ASSUME NEW h \in Host PROVE file[h] \in {Data(call[p]), latest[h]}
    <2>1. PICK j \in 1..Len(Targets) : h = Targets[j]
      BY Listed
    <2>2. ReadBack(call[p], j)
      <3>1. j \in Nat /\ Len(Targets) \in Nat /\ j <= Len(Targets)
        BY Numbers
      <3> QED
        BY <1>1, <1>3, <3>1, ReadBackUpTo
    <2> QED
      BY <1>1, <2>1, <2>2, HolderText DEF TextFits, ForwardText
  <1>5. \A h \in Host : file[h] = latest'[h]
    BY <1>4 DEF Seal
  <1>6. file' = latest'
    <2>1. file \in Files /\ latest' = [h \in Host |-> file[h]]
      BY <1>4 DEF Seal, TypeOK
    <2> QED
      BY <1>1, <2>1 DEF Files
  <1>7. TextFits(call[p])'
    BY <1>2, <1>6 DEF Moved, TextFits, KeepsText, ForwardText, BackText, DoneText, Journaled,
                      Protected, Undoing
  <1>8. ContentKept'
    BY <1>6 DEF ContentKept
  <1> QED
    BY <1>1, <1>2, <1>7, <1>8, TextMoves, HolderText DEF Moved

LEMMA FinishText ==
  ASSUME Inv, ContentInvariant, NEW p \in Proc, Finish(p)
  PROVE  ContentInvariant'
  <1>1. file = latest /\ lock = p
    BY HolderText DEF Finish, TextFits, DoneText
  <1>2. UNCHANGED <<file, latest>> /\ Goto(p, "applied")
    BY DEF Finish, hostVars
  <1> QED
    BY <1>1, <1>2, QuietStops DEF Ended

\* A rollback goes on below a host it has put back, or remembers as failed.
LEMMA BelowText ==
  ASSUME Inv, ContentInvariant, NEW p \in Proc,
         call[p].pc \in {"undoCheck", "undoWrite", "undoBind"},
         NEW d \in Calls, call' = [call EXCEPT ![p] = d],
         d.plan = call[p].plan, d.i = call[p].i - 1,
         d.pc = IF call[p].i - 1 = 0 THEN "undoConfig" ELSE "undoCheck",
         call[p].failed \subseteq d.failed,
         UNCHANGED <<file, latest, journal>>,
         Cur(call[p]) \in d.failed \/ file[Cur(call[p])] = latest[Cur(call[p])]
  PROVE  ContentInvariant'
  <1>1. /\ call[p].i \in 1..Len(Targets) /\ Cur(call[p]) = Targets[call[p].i]
        /\ call[p].pc \in Undoing \ {"discard"}
    BY CurrentHost DEF Undoing
  <1>2. call[p].pc \in Told /\ call[p].pc \in Journaled
    BY <1>1, ToldKinds
  <1>3. Moved(p, d.pc) /\ call'[p] = d /\ SamePlan(p)
    BY CallMoves DEF SamePlan
  <1>4. /\ d.pc \in Told /\ d.pc \notin Protected
        /\ d.pc \notin {"write", "undoWrite", "undoBind", "finish"}
    BY DEF Told, Journaled, Undoing, Protected
  <1>5. KeepsText(call[p])'
    BY <1>2, <1>3, <1>4, SameText
  <1>6. ASSUME NEW j \in 1..Len(Targets), j > d.i, Targets[j] \notin d.failed
        PROVE  file[Targets[j]] = latest[Targets[j]]
    <2>1. CASE j = call[p].i
      BY <1>1, <1>6, <2>1
    <2>2. CASE j # call[p].i
      <3>1. j > call[p].i
        BY <1>1, <1>6, <2>2, OneLower
      <3> QED
        BY <1>1, <1>2, <1>6, <3>1, HolderText DEF TextFits, BackText
    <2> QED
      BY <2>1, <2>2
  <1>7. BackText(call[p])'
    BY <1>3, <1>4, <1>6 DEF BackText
  <1>8. ForwardText(call[p])' /\ DoneText(call[p])'
    BY <1>3, <1>4 DEF ForwardText, DoneText
  <1>9. TextFits(call[p])' /\ ContentKept'
    BY <1>2, <1>5, <1>7, <1>8, HolderText DEF TextFits, ContentKept
  <1> QED
    BY <1>2, <1>3, <1>9, TextMoves, HolderText DEF Moved

LEMMA NotUndoneText ==
  ASSUME Inv, ContentInvariant, NEW p \in Proc,
         call[p].pc \in {"undoCheck", "undoWrite", "undoBind"},
         call' = [call EXCEPT ![p] = NotUndone(call[p])],
         UNCHANGED <<file, latest, journal>>
  PROVE  ContentInvariant'
  <1>1. call[p] \in Calls /\ call[p].i \in 1..Len(Targets) /\ Cur(call[p]) \in Host
    BY CurrentHost, BackFacts DEF Undoing
  <1>2. PICK c, x : c = Below(call[p]) /\ x = Cur(call[p])
    OBVIOUS
  <1>3. PICK d : d = [c EXCEPT !.failed = @ \union {x}]
    OBVIOUS
  <1>4. d = NotUndone(call[p])
    BY <1>2, <1>3 DEF NotUndone
  <1>5. /\ c \in Calls /\ c.plan = call[p].plan /\ c.i = call[p].i - 1
        /\ c.pc = IF call[p].i - 1 = 0 THEN "undoConfig" ELSE "undoCheck"
        /\ c.failed = call[p].failed
    BY <1>1, <1>2, LowerCall
  <1>6. x \in Host \union {None}
    BY <1>1, <1>2
  <1>7. /\ d \in Calls /\ d.plan = call[p].plan /\ d.i = call[p].i - 1
        /\ d.pc = IF call[p].i - 1 = 0 THEN "undoConfig" ELSE "undoCheck"
        /\ d.failed = call[p].failed \union {Cur(call[p])}
    <2>1. /\ d \in Calls /\ d.plan = c.plan /\ d.i = c.i /\ d.pc = c.pc
          /\ d.failed = c.failed \union {x}
      BY <1>3, <1>5, <1>6 DEF Calls
    <2> QED
      BY <1>2, <1>5, <2>1
  <1> QED
    BY <1>4, <1>7, BelowText

\* A step back that changes no host and leaves none.
LEMMA BackMoves ==
  ASSUME Inv, ContentInvariant, NEW p \in Proc, NEW s \in Undoing \ {"discard"},
         call[p].pc \in Undoing \ {"discard"}, Moved(p, s), SamePlan(p),
         call'[p].i = call[p].i, call[p].failed \subseteq call'[p].failed,
         UNCHANGED <<file, latest, journal>>, s # "undoBind",
         s = "undoWrite" => latest[Cur(call[p])] = call[p].plan.file[Cur(call[p])]
  PROVE  ContentInvariant'
  <1>1. /\ call[p].pc \in Told /\ s \in Told /\ call[p].pc \in Journaled /\ s \in Journaled
        /\ s \notin Protected /\ s # "finish" /\ s # "write"
    BY ToldKinds
  <1>2. Cur(call[p])' = Cur(call[p])
    BY DEF Cur
  <1>3. KeepsText(call[p])'
    <2>1. /\ \A h \in Host : \/ latest[h] = call[p].plan.file[h]
                             \/ latest[h] \in Edits /\ latest[h] = file[h]
          /\ journal.file = call[p].plan.file
      BY <1>1, HolderText DEF TextFits, KeepsText, Told
    <2>2. s = "undoWrite" => latest'[Cur(call[p])'] = call'[p].plan.file[Cur(call[p])']
      BY <1>2 DEF SamePlan
    <2> QED
      BY <1>1, <2>1, <2>2 DEF Moved, SamePlan, KeepsText
  <1>4. BackText(call[p])'
    BY <1>1, HolderText DEF Moved, TextFits, BackText
  <1>5. ForwardText(call[p])' /\ DoneText(call[p])'
    BY <1>1 DEF Moved, ForwardText, DoneText
  <1>6. TextFits(call[p])' /\ ContentKept'
    BY <1>1, <1>3, <1>4, <1>5, HolderText DEF TextFits, ContentKept
  <1> QED
    BY <1>1, <1>6, TextMoves, HolderText DEF Moved

\* What is put back is what the user had, unless a later edit is left alone.
LEMMA UndoCheckText ==
  ASSUME Inv, ContentInvariant, NEW p \in Proc, UndoCheck(p)
  PROVE  ContentInvariant'
  <1>1. /\ UNCHANGED <<file, latest, journal>> /\ call[p].pc = "undoCheck"
        /\ call[p].pc \in Undoing \ {"discard"} /\ call[p].pc \in Told
    BY ToldKinds DEF UndoCheck, hostVars, Undoing
  <1>2. CASE /\ Goto(p, "undoWrite")
             /\ file[Cur(call[p])] \in {call[p].plan.file[Cur(call[p])], Data(call[p])}
    <2>1. Moved(p, "undoWrite") /\ SameCall(p)
      BY <1>2, GotoMoves DEF Steps, Holding, Undoing
    <2>2. Cur(call[p]) \in Host /\ Data(call[p]) \notin Edits
      BY <1>1, CurrentHost, HolderFacts, ToldKinds, EditsAssumption DEF Data, Seen
    <2>3. latest[Cur(call[p])] = call[p].plan.file[Cur(call[p])]
      BY <1>1, <1>2, <2>2, HolderText DEF TextFits, KeepsText, Told
    <2> QED
      BY <1>1, <2>1, <2>3, BackMoves DEF SameCall, Undoing
  <1>3. CASE call' = [call EXCEPT ![p] = NotUndone(call[p])]
    BY <1>1, <1>3, NotUndoneText
  <1> QED
    BY <1>2, <1>3 DEF UndoCheck, Seen

LEMMA UndoFileText ==
  ASSUME Inv, ContentInvariant, NEW p \in Proc, UndoFile(p)
  PROVE  ContentInvariant'
  <1>1. /\ UNCHANGED <<latest, journal>> /\ call[p].pc = "undoWrite"
        /\ call[p].pc \in Undoing \ {"discard"} /\ call[p].pc \in Told /\ call[p].pc \in Journaled
    BY ToldKinds DEF UndoFile, Undoing
  <1>2. Moved(p, "undoBind") /\ SameCall(p)
    BY GotoMoves DEF UndoFile, Steps, Holding, Undoing
  <1>3. Cur(call[p]) \in Host /\ Cur(call[p])' = Cur(call[p])
    BY <1>1, <1>2, CurrentHost DEF Cur, SameCall
  <1>4. /\ latest[Cur(call[p])] = call[p].plan.file[Cur(call[p])]
        /\ journal.file = call[p].plan.file /\ TextFits(call[p]) /\ ContentKept
    BY <1>1, HolderText DEF TextFits, KeepsText
  <1>5. /\ file'[Cur(call[p])] = latest[Cur(call[p])]
        /\ \A h \in Host : h # Cur(call[p]) => file'[h] = file[h]
    BY <1>3, <1>4 DEF UndoFile, Seen, TypeOK, Files
  <1>6. KeepsText(call[p])'
    <2>1. \A h \in Host : \/ latest[h] = call[p].plan.file[h]
                          \/ latest[h] \in Edits /\ latest[h] = file'[h]
      BY <1>1, <1>4, <1>5 DEF TextFits, KeepsText, Told
    <2> QED
      BY <1>1, <1>2, <1>4, <2>1 DEF Moved, SameCall, SamePlan, KeepsText
  <1>7. BackText(call[p])'
    <2>1. ASSUME NEW j \in 1..Len(Targets), j > call[p].i, Targets[j] \notin call[p].failed
          PROVE  file'[Targets[j]] = latest[Targets[j]]
      <3>1. Targets[j] \in Host /\ file[Targets[j]] = latest[Targets[j]]
        BY <1>1, <1>4, <2>1, Numbers DEF TextFits, BackText
      <3> QED
        BY <1>5, <3>1
    <2> QED
      BY <1>1, <1>2, <1>3, <1>5, <2>1 DEF SameCall, BackText
  <1>8. ForwardText(call[p])' /\ DoneText(call[p])'
    BY <1>2 DEF Moved, ForwardText, DoneText, Protected
  <1>9. ContentKept'
    BY <1>1, <1>4, <1>5 DEF ContentKept
  <1> QED
    BY <1>1, <1>2, <1>6, <1>7, <1>8, <1>9, TextMoves, HolderText DEF Moved, TextFits

LEMMA UndoBindingText ==
  ASSUME Inv, ContentInvariant, NEW p \in Proc, UndoBinding(p)
  PROVE  ContentInvariant'
  <1>1. /\ call[p] \in Calls /\ call[p].i \in 1..Len(Targets) /\ call[p].pc = "undoBind"
        /\ call[p].pc \in Told
    BY CurrentHost, BackFacts, ToldKinds DEF UndoBinding, Undoing
  <1>2. file[Cur(call[p])] = latest[Cur(call[p])]
    BY <1>1, HolderText DEF TextFits, BackText
  <1>3. PICK d : d = Below(call[p])
    OBVIOUS
  <1>4. /\ d \in Calls /\ d.plan = call[p].plan /\ d.i = call[p].i - 1
        /\ d.pc = IF call[p].i - 1 = 0 THEN "undoConfig" ELSE "undoCheck"
        /\ d.failed = call[p].failed
    BY <1>1, <1>3, LowerCall
  <1> QED
    BY <1>1, <1>2, <1>3, <1>4, BelowText DEF UndoBinding

LEMMA UndoFailsText ==
  ASSUME Inv, ContentInvariant, NEW p \in Proc, UndoFails(p)
  PROVE  ContentInvariant'
  <1>1. UNCHANGED <<file, latest, journal>>
    BY DEF UndoFails, hostVars
  <1>2. CASE call[p].pc = "undoConfig"
    <2>1. call[p] \in Calls /\ call[p].pc \in Undoing \ {"discard"}
      BY <1>2, BackFacts DEF Undoing
    <2> PICK c : c = call[p]
      OBVIOUS
    <2> PICK d : d = [c EXCEPT !.pc = "undoEnd", !.failed = @ \union {None}]
      OBVIOUS
    <2>2. /\ d \in Calls /\ d.pc = "undoEnd" /\ d.plan = c.plan /\ d.i = c.i
          /\ c.failed \subseteq d.failed
      <3>1. "undoEnd" \in Steps /\ c \in Calls
        BY <2>1 DEF Steps, Holding, Undoing
      <3> QED
        BY <3>1 DEF Calls
    <2>3. call' = [call EXCEPT ![p] = d]
      BY <1>2 DEF UndoFails
    <2>4. Moved(p, "undoEnd") /\ SamePlan(p) /\ call'[p] = d
      <3>1. Moved(p, d.pc) /\ call'[p] = d
        BY <2>2, <2>3, CallMoves
      <3> QED
        BY <2>2, <3>1 DEF SamePlan
    <2> QED
      BY <1>1, <2>1, <2>2, <2>4, BackMoves DEF Undoing
  <1>3. CASE call[p].pc # "undoConfig"
    BY <1>1, <1>3, NotUndoneText DEF UndoFails
  <1> QED
    BY <1>2, <1>3

LEMMA UndoConfigText ==
  ASSUME Inv, ContentInvariant, NEW p \in Proc, UndoConfig(p)
  PROVE  ContentInvariant'
  <1>1. UNCHANGED <<file, latest, journal>> /\ call[p].pc \in Undoing \ {"discard"}
    BY DEF UndoConfig, hostVars, Undoing
  <1>2. Moved(p, "undoEnd") /\ SameCall(p)
    BY GotoMoves DEF UndoConfig, Steps, Holding, Undoing
  <1> QED
    BY <1>1, <1>2, BackMoves DEF SameCall, Undoing

LEMMA UndoEndText ==
  ASSUME Inv, ContentInvariant, NEW p \in Proc, UndoEnd(p)
  PROVE  ContentInvariant'
  <1>1. /\ UNCHANGED <<file, latest>> /\ call[p].pc = "undoEnd" /\ call[p].pc \in Told
    BY ToldKinds DEF UndoEnd, hostVars, Undoing
  <1>2. PICK s \in Ended \union {"discard"} : Goto(p, s)
    BY DEF UndoEnd, Ended
  <1>3. CASE call[p].failed # {}
    BY <1>1, <1>2, <1>3, QuietStops DEF UndoEnd
  <1>4. CASE call[p].failed = {}
    <2>1. call[p].i = 0 /\ TextFits(call[p]) /\ lock = p
      BY <1>1, BackFacts, HolderText DEF BackFits, Undoing
    <2>2. ASSUME NEW h \in Host PROVE file[h] = latest[h]
      <3>1. PICK j \in 1..Len(Targets) : h = Targets[j]
        BY Listed
      <3>2. j > 0
        BY Numbers
      <3> QED
        BY <1>1, <1>4, <2>1, <3>1, <3>2 DEF TextFits, BackText, Undoing
    <2>3. file = latest
      <3>1. file \in Files /\ latest \in Files
        BY DEF TypeOK
      <3> QED
        BY <2>2, <3>1 DEF Files
    <2> QED
      BY <1>1, <1>2, <2>1, <2>3, QuietStops
  <1> QED
    BY <1>3, <1>4

\* A user edits a host: what the calls know of the other hosts stays.  In the
\* window of a write the call knows what it is about to replace.
LEMMA ExternalEditText ==
  ASSUME Inv, ContentInvariant, NEW h \in Host, ExternalEdit(h)
  PROVE  ContentInvariant'
  <1>1. PICK e \in Edits :
          /\ file' = [file EXCEPT ![h] = e]
          /\ latest' = IF InWindow(h) THEN latest ELSE [latest EXCEPT ![h] = e]
    BY DEF ExternalEdit
  <1>2. UNCHANGED <<journal, call, lock>>
    BY DEF ExternalEdit
  <1>3. /\ file'[h] = e /\ \A g \in Host : g # h => file'[g] = file[g] /\ latest'[g] = latest[g]
        /\ latest'[h] = IF InWindow(h) THEN latest[h] ELSE e
    BY <1>1 DEF TypeOK, Files
  <1>4. ASSUME NEW p \in Proc, call[p].pc \in {"write", "undoWrite"}
        PROVE  /\ Cur(call[p]) \in Host /\ lock = p /\ Cur(call[p])' = Cur(call[p])
               /\ journal # None /\ latest[Cur(call[p])] = call[p].plan.file[Cur(call[p])]
               /\ journal.file = call[p].plan.file
               /\ \A j \in 1..Len(Targets) : j # call[p].i => Targets[j] # Cur(call[p])
    <2>1. call[p].pc \in Told /\ call[p].pc \in Journaled
      BY <1>4, ToldKinds
    <2> QED
      BY <1>2, <1>4, <2>1, HolderText, CurrentHost, WritingHost DEF TextFits, KeepsText, Cur
  <1>5. ContentKept'
    <2> SUFFICES ASSUME NEW g \in Host, file'[g] # latest'[g]
                 PROVE  journal # None /\ journal.file[g] = latest'[g]
      BY <1>2 DEF ContentKept
    <2>1. CASE g # h
      BY <1>3, <2>1 DEF ContentInvariant, ContentKept
    <2>2. CASE g = h
      <3>1. InWindow(h) /\ latest'[h] = latest[h]
        BY <1>3, <2>2
      <3> QED
        BY <1>4, <2>2, <3>1 DEF InWindow
    <2> QED
      BY <2>1, <2>2
  <1>6. ASSUME NEW p \in Proc PROVE TextFits(call[p])'
    <2>1. TextFits(call[p])
      BY DEF ContentInvariant
    <2>2. CASE call[p].pc \notin Told /\ call[p].pc # "finish"
      BY <1>2, <2>2, QuietText
    <2>3. CASE call[p].pc = "finish"
      <3>1. file = latest
        BY <2>1, <2>3 DEF TextFits, DoneText
      <3>2. ~InWindow(h)
        BY <1>4, <2>3, HolderFacts, ToldKinds DEF InWindow
      <3>3. file' = latest'
        BY <1>1, <3>1, <3>2
      <3> QED
        BY <1>2, <2>3, <3>3, ToldKinds DEF TextFits, KeepsText, ForwardText, BackText, DoneText
    <2>4. CASE call[p].pc \in Told
      <3>1. lock = p /\ call[p].pc # "finish"
        BY <2>4, HolderText, ToldKinds
      <3>2. InWindow(h) <=> call[p].pc \in {"write", "undoWrite"} /\ Cur(call[p]) = h
        BY <1>4, <3>1 DEF InWindow
      <3>3. ASSUME NEW g \in Host
            PROVE  /\ \/ latest'[g] = call[p].plan.file[g]
                      \/ latest'[g] \in Edits /\ latest'[g] = file'[g]
                   /\ g = h /\ ~InWindow(h) => file'[g] = latest'[g]
        <4>1. CASE g # h
          BY <1>3, <2>1, <2>4, <4>1 DEF TextFits, KeepsText, Told
        <4>2. CASE g = h /\ ~InWindow(h)
          BY <1>3, <4>2
        <4>3. CASE g = h /\ InWindow(h)
          BY <1>3, <1>4, <3>2, <4>3
        <4> QED
          BY <4>1, <4>2, <4>3
      <3>4. KeepsText(call[p])'
        <4>1. ASSUME call[p].pc \in {"write", "undoWrite"}
              PROVE  latest[Cur(call[p])]' = call[p].plan.file[Cur(call[p])]
          <5>1. Cur(call[p])' = Cur(call[p]) /\ Cur(call[p]) \in Host
            BY <1>4, <4>1
          <5>2. latest'[Cur(call[p])] = latest[Cur(call[p])]
            BY <1>3, <3>2, <4>1, <5>1
          <5> QED
            BY <1>4, <4>1, <5>1, <5>2
        <4>2. Cur(call[p])' = Cur(call[p])
          BY <1>2 DEF Cur
        <4> QED
          BY <1>2, <2>1, <3>3, <4>1, <4>2 DEF TextFits, KeepsText
      <3>5. ForwardText(call[p])'
        <4> SUFFICES ASSUME call[p].pc \in Protected, NEW j \in 1..Len(Targets)
                     PROVE  /\ j > call[p].i => file'[Targets[j]] = latest'[Targets[j]]
                            /\ ReadBack(call[p], j) =>
                                 file'[Targets[j]] \in {Data(call[p]), latest'[Targets[j]]}
          BY <1>2 DEF ForwardText, ReadBack, Data, Seen
        <4>1. Targets[j] \in Host
          BY Numbers
        <4>2. CASE Targets[j] # h
          BY <1>3, <2>1, <4>1, <4>2 DEF TextFits, ForwardText
        <4>3. CASE Targets[j] = h /\ ~InWindow(h)
          BY <1>3, <4>3
        <4>4. CASE Targets[j] = h /\ InWindow(h)
          <5>1. j = call[p].i /\ call[p].pc = "write"
            BY <1>4, <3>2, <4>4, ToldKinds
          <5>2. j \in Nat
            BY Numbers
          <5>3. ~(j > j) /\ ~ReadBack(call[p], j)
            BY <5>1, <5>2 DEF ReadBack
          <5> QED
            BY <5>1, <5>3
        <4> QED
          BY <4>2, <4>3, <4>4
      <3>6. BackText(call[p])'
        <4>1. ASSUME call[p].pc \in Undoing \ {"discard"}, NEW j \in 1..Len(Targets),
                     j > call[p].i, Targets[j] \notin call[p].failed
              PROVE  file'[Targets[j]] = latest'[Targets[j]]
          <5>1. Targets[j] \in Host /\ file[Targets[j]] = latest[Targets[j]]
            BY <2>1, <4>1, Numbers DEF TextFits, BackText
          <5>2. CASE Targets[j] # h
            BY <1>3, <5>1, <5>2
          <5>3. CASE Targets[j] = h
            <6>1. j \in Nat /\ ~(j > j)
              BY Numbers
            <6>2. ~InWindow(h)
              BY <1>4, <3>2, <4>1, <5>3, <6>1
            <6> QED
              BY <1>3, <5>3, <6>2
          <5> QED
            BY <5>2, <5>3
        <4>2. ASSUME call[p].pc = "undoBind"
              PROVE  file[Cur(call[p])]' = latest[Cur(call[p])]'
          <5>1. Cur(call[p])' = Cur(call[p]) /\ Cur(call[p]) \in Host
            BY <1>2, <4>2, CurrentHost DEF Cur
          <5>2. file[Cur(call[p])] = latest[Cur(call[p])] /\ ~InWindow(h)
            BY <2>1, <3>2, <4>2 DEF TextFits, BackText
          <5> QED
            BY <1>3, <5>1, <5>2
        <4> QED
          BY <1>2, <4>1, <4>2 DEF BackText
      <3> QED
        BY <1>2, <3>1, <3>4, <3>5, <3>6 DEF TextFits, DoneText
    <2> QED
      BY <2>2, <2>3, <2>4
  <1> QED
    BY <1>5, <1>6 DEF ContentInvariant

\* A deployment finds no call with locks.
LEMMA DeployText ==
  ASSUME Inv, ContentInvariant, NEW h \in Host, Deploy(h)
  PROVE  ContentInvariant'
  <1>1. PICK d \in Docs : /\ file' = [file EXCEPT ![h] = d]
                          /\ latest' = [latest EXCEPT ![h] = d]
    BY CommitDocs DEF Deploy
  <1>2. UNCHANGED <<journal, call>> /\ lock = None
    BY DEF Deploy
  <1>3. ContentKept'
    BY <1>1, <1>2 DEF ContentInvariant, ContentKept, TypeOK, Files
  <1>4. ASSUME NEW p \in Proc PROVE TextFits(call[p])'
    <2>1. call'[p].pc \notin Told /\ call'[p].pc # "finish"
      BY <1>2, ToldKinds DEF CallsFit, Fits, CallFits
    <2> QED
      BY <2>1, QuietText
  <1> QED
    BY <1>3, <1>4 DEF ContentInvariant

LEMMA StillText ==
  ASSUME ContentInvariant, UNCHANGED <<file, latest, journal, call>>
  PROVE  ContentInvariant'
  <1>1. ASSUME NEW p \in Proc PROVE TextFits(call[p])'
    <2>1. TextFits(call[p])
      BY DEF ContentInvariant
    <2> QED
      BY <2>1 DEF TextFits, KeepsText, ForwardText, BackText, DoneText, ReadBack, Cur, Data, Seen
  <1> QED
    BY <1>1 DEF ContentInvariant, ContentKept

LEMMA InitialText == Init => ContentInvariant
  <1> SUFFICES ASSUME Init PROVE ContentInvariant
    OBVIOUS
  <1>1. ASSUME NEW p \in Proc PROVE TextFits(call[p])
    <2>1. call[p] = Idle
      BY <1>1 DEF Init
    <2> QED
      BY <2>1 DEF Idle, TextFits, KeepsText, ForwardText, BackText, DoneText, Journaled,
                  Protected, Undoing
  <1> QED
    BY <1>1 DEF Init, ContentInvariant, ContentKept

LEMMA NextText ==
  ASSUME Inv, ContentInvariant, [Next]_vars
  PROVE  ContentInvariant'
  <1>1. ASSUME NEW p \in Proc, Step(p) PROVE ContentInvariant'
    <2>1. CASE Preview(p) \/ Begin(p) \/ Lock(p) \/ Recheck(p) \/ Snapshot(p) \/ CopyTree(p)
      BY <2>1, PreviewText, OutsideText, RecheckText, SnapshotText
    <2>2. CASE WriteJournal(p) \/ CheckHost(p) \/ WriteFile(p) \/ SetBinding(p) \/ Readback(p)
      BY <2>2, WriteJournalText, CheckHostText, WriteFileText, SetBindingText, ReadbackText
    <2>3. CASE WriteConfig(p) \/ Seal(p) \/ Finish(p) \/ UndoCheck(p) \/ UndoFile(p)
      BY <2>3, SetBindingText, SealText, FinishText, UndoCheckText, UndoFileText
    <2>4. CASE UndoBinding(p) \/ UndoConfig(p) \/ UndoEnd(p) \/ Discard(p)
      BY <2>4, UndoBindingText, UndoConfigText, UndoEndText, OutsideText
    <2> QED
      BY <1>1, <2>1, <2>2, <2>3, <2>4 DEF Step
  <1>2. ASSUME NEW p \in Proc, Refuse(p) \/ Fails(p) \/ UndoFails(p) \/ Crash(p)
        PROVE  ContentInvariant'
    BY <1>2, OutsideText, FailsText, UndoFailsText
  <1>3. ASSUME NEW h \in Host, ExternalEdit(h) \/ Deploy(h) PROVE ContentInvariant'
    BY <1>3, ExternalEditText, DeployText
  <1>4. CASE Publish \/ UNCHANGED vars
    BY <1>4, StillText DEF Publish, hostVars, vars
  <1> QED
    BY <1>1, <1>2, <1>3, <1>4 DEF Next

\* What a user or a deployment last put in a host is there, or in the journal
\* of the call that replaced it, until a call has moved all hosts: forward,
\* back, after a crash, and while a user edits other hosts (_apply of
\* instruction_sync.py and its except block).
THEOREM TextIsKept == Spec => []ContentKept
  <1>1. Inv /\ ContentInvariant /\ [Next]_vars => ContentInvariant'
    BY NextText
  <1>2. ContentInvariant => ContentKept
    BY DEF ContentInvariant
  <1> QED
    BY <1>1, <1>2, InitialText, Inductive, PTL DEF Spec
=============================================================================
