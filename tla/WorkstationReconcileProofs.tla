--------------------- MODULE WorkstationReconcileProofs ---------------------
(***************************************************************************)
(* What the bootstrap commands keep for any releases, owners and bounds:   *)
(* no checkout is lost before a run has committed (KeptFits), a receipt is *)
(* true when it is written (ReceiptFits), and a run that nobody troubles   *)
(* succeeds (CalmFits).                                                    *)
(*                                                                         *)
(* A lemma per step says what it makes of the run (Moves); each invariant  *)
(* is then shown to be kept, on top of those before it.                    *)
(***************************************************************************)
EXTENDS WorkstationReconcile, TLAPS

-----------------------------------------------------------------------------
(* The order of the steps.                                                 *)

LEMMA ReconcileOrder ==
  ASSUME NEW s, s = Order["reconcile"]
  PROVE  /\ Len(s) = 13 /\ s[1] = "clone" /\ s[2] = "recheck" /\ s[3] = "unplug"
         /\ s[4] = "unmarket" /\ s[5] = "market" /\ s[6] = "plug" /\ s[7] = "snapshot"
         /\ s[8] = "bootstrap" /\ s[9] = "scout" /\ s[10] = "setup" /\ s[11] = "verify"
         /\ s[12] = "receipt" /\ s[13] = "cleanup"
  BY DEF Order

LEMMA CutoverOrder ==
  ASSUME NEW s, s = Order["cutover"]
  PROVE  /\ Len(s) = 8 /\ s[1] = "clone" /\ s[2] = "recheck" /\ s[3] = "snapshot"
         /\ s[4] = "bootstrap" /\ s[5] = "scout" /\ s[6] = "setup" /\ s[7] = "receipt"
         /\ s[8] = "cleanup"
  BY DEF Order

LEMMA SyncOrder ==
  ASSUME NEW s, s = Order["sync"]
  PROVE  /\ Len(s) = 2 /\ s[1] = "clone" /\ s[2] = "cleanup"
  BY DEF Order

LEMMA RollbackOrder ==
  ASSUME NEW s, s = UndoOrder
  PROVE  /\ Len(s) = 7 /\ s[1] = "undoPlug" /\ s[2] = "undoMarket" /\ s[3] = "redoMarket"
         /\ s[4] = "redoPlug" /\ s[5] = "undoScout" /\ s[6] = "undoBootstrap"
         /\ s[7] = "undoSources"
  BY DEF UndoOrder

LEMMA Places ==
  ASSUME NEW j \in 1..13
  PROVE  j = 1 \/ j = 2 \/ j = 3 \/ j = 4 \/ j = 5 \/ j = 6 \/ j = 7 \/ j = 8 \/ j = 9
         \/ j = 10 \/ j = 11 \/ j = 12 \/ j = 13
  OBVIOUS

\* Where a step occurs once in a sequence, it is followed by its neighbour.
LEMMA FollowingIs ==
  ASSUME NEW s, NEW end, NEW k \in 1..Len(s), \A j \in 1..Len(s) : s[j] = s[k] => j = k
  PROVE  Following(s, s[k], end) = IF k = Len(s) THEN end ELSE s[k + 1]
  BY DEF Following

ReconcileSteps == {"clone", "recheck", "unplug", "unmarket", "market", "plug", "snapshot",
                   "bootstrap", "scout", "setup", "verify", "receipt", "cleanup"}
CutoverSteps == {"clone", "recheck", "snapshot", "bootstrap", "scout", "setup", "receipt",
                 "cleanup"}
SyncSteps == {"clone", "cleanup"}
RollbackSteps == {"undoPlug", "undoMarket", "redoMarket", "redoPlug", "undoScout",
                  "undoBootstrap", "undoSources"}

LEMMA StepSets ==
  /\ Steps(Order["reconcile"]) = ReconcileSteps /\ Steps(Order["cutover"]) = CutoverSteps
  /\ Steps(Order["sync"]) = SyncSteps /\ Steps(UndoOrder) = RollbackSteps
  <1>1. Steps(Order["reconcile"]) = ReconcileSteps
    <2> PICK s : s = Order["reconcile"]
      OBVIOUS
    <2>1. Steps(s) = {s[i] : i \in 1..13}
      BY ReconcileOrder DEF Steps
    <2>2. \A j \in 1..13 : j \in 1..13
      OBVIOUS
    <2>3. \A j \in 1..13 : s[j] \in ReconcileSteps
      BY <2>2, Places, ReconcileOrder DEF ReconcileSteps
    <2> QED
      BY <2>1, <2>3, ReconcileOrder DEF ReconcileSteps
  <1>2. Steps(Order["cutover"]) = CutoverSteps
    <2> PICK s : s = Order["cutover"]
      OBVIOUS
    <2>1. Steps(s) = {s[i] : i \in 1..8}
      BY CutoverOrder DEF Steps
    <2>2. \A j \in 1..8 : j \in 1..13
      OBVIOUS
    <2>3. \A j \in 1..8 : s[j] \in CutoverSteps
      BY <2>2, Places, CutoverOrder DEF CutoverSteps
    <2> QED
      BY <2>1, <2>3, CutoverOrder DEF CutoverSteps
  <1>3. Steps(Order["sync"]) = SyncSteps
    <2> PICK s : s = Order["sync"]
      OBVIOUS
    <2>1. Steps(s) = {s[i] : i \in 1..2}
      BY SyncOrder DEF Steps
    <2>2. \A j \in 1..2 : j \in 1..13
      OBVIOUS
    <2>3. \A j \in 1..2 : s[j] \in SyncSteps
      BY <2>2, Places, SyncOrder DEF SyncSteps
    <2> QED
      BY <2>1, <2>3, SyncOrder DEF SyncSteps
  <1>4. Steps(UndoOrder) = RollbackSteps
    <2> PICK s : s = UndoOrder
      OBVIOUS
    <2>1. Steps(s) = {s[i] : i \in 1..7}
      BY RollbackOrder DEF Steps
    <2>2. \A j \in 1..7 : j \in 1..13
      OBVIOUS
    <2>3. \A j \in 1..7 : s[j] \in RollbackSteps
      BY <2>2, Places, RollbackOrder DEF RollbackSteps
    <2> QED
      BY <2>1, <2>3, RollbackOrder DEF RollbackSteps
  <1> QED
    BY <1>1, <1>2, <1>3, <1>4

LEMMA ReconcileFollows ==
  ASSUME NEW s, s = Order["reconcile"]
  PROVE  /\ Following(s, "clone", "done") = "recheck"
         /\ Following(s, "recheck", "done") = "unplug"
         /\ Following(s, "unplug", "done") = "unmarket"
         /\ Following(s, "unmarket", "done") = "market"
         /\ Following(s, "market", "done") = "plug"
         /\ Following(s, "plug", "done") = "snapshot"
         /\ Following(s, "snapshot", "done") = "bootstrap"
         /\ Following(s, "bootstrap", "done") = "scout"
         /\ Following(s, "scout", "done") = "setup"
         /\ Following(s, "setup", "done") = "verify"
         /\ Following(s, "verify", "done") = "receipt"
         /\ Following(s, "receipt", "done") = "cleanup"
         /\ Following(s, "cleanup", "done") = "done"
  <1>1. Len(s) = 13
    BY ReconcileOrder
  <1>2. ASSUME NEW i \in 1..13, NEW j \in 1..13, s[i] = s[j] PROVE i = j
    <2>1. i \in 1..13 /\ j \in 1..13
      OBVIOUS
    <2> QED
      BY <1>2, <2>1, Places, ReconcileOrder
  <1>3. ASSUME NEW k \in 1..13
        PROVE  Following(s, s[k], "done") = IF k = 13 THEN "done" ELSE s[k + 1]
    <2>1. k \in 1..Len(s) /\ \A j \in 1..Len(s) : s[j] = s[k] => j = k
      BY <1>1, <1>2
    <2>2. Following(s, s[k], "done") = IF k = Len(s) THEN "done" ELSE s[k + 1]
      BY <2>1, FollowingIs
    <2> QED
      BY <1>1, <2>2
  <1>4. 1 \in 1..13 /\ 2 \in 1..13 /\ 3 \in 1..13 /\ 4 \in 1..13 /\ 5 \in 1..13
        /\ 6 \in 1..13 /\ 7 \in 1..13 /\ 8 \in 1..13 /\ 9 \in 1..13 /\ 10 \in 1..13
        /\ 11 \in 1..13 /\ 12 \in 1..13 /\ 13 \in 1..13
    OBVIOUS
  <1>5. 1 + 1 = 2 /\ 2 + 1 = 3 /\ 3 + 1 = 4 /\ 4 + 1 = 5 /\ 5 + 1 = 6 /\ 6 + 1 = 7
        /\ 7 + 1 = 8 /\ 8 + 1 = 9 /\ 9 + 1 = 10 /\ 10 + 1 = 11 /\ 11 + 1 = 12 /\ 12 + 1 = 13
        /\ 1 # 13 /\ 2 # 13 /\ 3 # 13 /\ 4 # 13 /\ 5 # 13 /\ 6 # 13 /\ 7 # 13 /\ 8 # 13
        /\ 9 # 13 /\ 10 # 13 /\ 11 # 13 /\ 12 # 13
    OBVIOUS
  <1> QED
    BY <1>3, <1>4, <1>5, ReconcileOrder

LEMMA CutoverFollows ==
  ASSUME NEW s, s = Order["cutover"]
  PROVE  /\ Following(s, "clone", "done") = "recheck"
         /\ Following(s, "recheck", "done") = "snapshot"
         /\ Following(s, "snapshot", "done") = "bootstrap"
         /\ Following(s, "bootstrap", "done") = "scout"
         /\ Following(s, "scout", "done") = "setup"
         /\ Following(s, "setup", "done") = "receipt"
         /\ Following(s, "receipt", "done") = "cleanup"
         /\ Following(s, "cleanup", "done") = "done"
  <1>1. Len(s) = 8
    BY CutoverOrder
  <1>2. ASSUME NEW i \in 1..8, NEW j \in 1..8, s[i] = s[j] PROVE i = j
    <2>1. i \in 1..13 /\ j \in 1..13
      OBVIOUS
    <2> QED
      BY <1>2, <2>1, Places, CutoverOrder
  <1>3. ASSUME NEW k \in 1..8
        PROVE  Following(s, s[k], "done") = IF k = 8 THEN "done" ELSE s[k + 1]
    <2>1. k \in 1..Len(s) /\ \A j \in 1..Len(s) : s[j] = s[k] => j = k
      BY <1>1, <1>2
    <2>2. Following(s, s[k], "done") = IF k = Len(s) THEN "done" ELSE s[k + 1]
      BY <2>1, FollowingIs
    <2> QED
      BY <1>1, <2>2
  <1>4. 1 \in 1..8 /\ 2 \in 1..8 /\ 3 \in 1..8 /\ 4 \in 1..8 /\ 5 \in 1..8 /\ 6 \in 1..8
        /\ 7 \in 1..8 /\ 8 \in 1..8
    OBVIOUS
  <1>5. 1 + 1 = 2 /\ 2 + 1 = 3 /\ 3 + 1 = 4 /\ 4 + 1 = 5 /\ 5 + 1 = 6 /\ 6 + 1 = 7
        /\ 7 + 1 = 8 /\ 1 # 8 /\ 2 # 8 /\ 3 # 8 /\ 4 # 8 /\ 5 # 8 /\ 6 # 8 /\ 7 # 8
    OBVIOUS
  <1> QED
    BY <1>3, <1>4, <1>5, CutoverOrder

LEMMA SyncFollows ==
  ASSUME NEW s, s = Order["sync"]
  PROVE  /\ Following(s, "clone", "done") = "cleanup"
         /\ Following(s, "cleanup", "done") = "done"
  <1>1. Len(s) = 2
    BY SyncOrder
  <1>2. ASSUME NEW i \in 1..2, NEW j \in 1..2, s[i] = s[j] PROVE i = j
    <2>1. i \in 1..13 /\ j \in 1..13
      OBVIOUS
    <2> QED
      BY <1>2, <2>1, Places, SyncOrder
  <1>3. ASSUME NEW k \in 1..2
        PROVE  Following(s, s[k], "done") = IF k = 2 THEN "done" ELSE s[k + 1]
    <2>1. k \in 1..Len(s) /\ \A j \in 1..Len(s) : s[j] = s[k] => j = k
      BY <1>1, <1>2
    <2>2. Following(s, s[k], "done") = IF k = Len(s) THEN "done" ELSE s[k + 1]
      BY <2>1, FollowingIs
    <2> QED
      BY <1>1, <2>2
  <1>4. 1 \in 1..2 /\ 2 \in 1..2
    OBVIOUS
  <1>5. 1 + 1 = 2 /\ 1 # 2
    OBVIOUS
  <1> QED
    BY <1>3, <1>4, <1>5, SyncOrder

LEMMA RollbackFollows ==
  ASSUME NEW s, s = UndoOrder, NEW end
  PROVE  /\ Following(s, "undoPlug", end) = "undoMarket"
         /\ Following(s, "undoMarket", end) = "redoMarket"
         /\ Following(s, "redoMarket", end) = "redoPlug"
         /\ Following(s, "redoPlug", end) = "undoScout"
         /\ Following(s, "undoScout", end) = "undoBootstrap"
         /\ Following(s, "undoBootstrap", end) = "undoSources"
         /\ Following(s, "undoSources", end) = end
  <1>1. Len(s) = 7
    BY RollbackOrder
  <1>2. ASSUME NEW i \in 1..7, NEW j \in 1..7, s[i] = s[j] PROVE i = j
    <2>1. i \in 1..13 /\ j \in 1..13
      OBVIOUS
    <2> QED
      BY <1>2, <2>1, Places, RollbackOrder
  <1>3. ASSUME NEW k \in 1..7
        PROVE  Following(s, s[k], end) = IF k = 7 THEN end ELSE s[k + 1]
    <2>1. k \in 1..Len(s) /\ \A j \in 1..Len(s) : s[j] = s[k] => j = k
      BY <1>1, <1>2
    <2>2. Following(s, s[k], end) = IF k = Len(s) THEN end ELSE s[k + 1]
      BY <2>1, FollowingIs
    <2> QED
      BY <1>1, <2>2
  <1>4. 1 \in 1..7 /\ 2 \in 1..7 /\ 3 \in 1..7 /\ 4 \in 1..7 /\ 5 \in 1..7 /\ 6 \in 1..7
        /\ 7 \in 1..7
    OBVIOUS
  <1>5. 1 + 1 = 2 /\ 2 + 1 = 3 /\ 3 + 1 = 4 /\ 4 + 1 = 5 /\ 5 + 1 = 6 /\ 6 + 1 = 7 /\ 1 # 7
        /\ 2 # 7 /\ 3 # 7 /\ 4 # 7 /\ 5 # 7 /\ 6 # 7
    OBVIOUS
  <1> QED
    BY <1>3, <1>4, <1>5, RollbackOrder

AllPcs == ReconcileSteps \union Swapping \union RollbackSteps \union Ended

LEMMA PcSets ==
  /\ Pcs("reconcile") = ReconcileSteps \union Swapping \union RollbackSteps \union Ended
  /\ Pcs("cutover") = CutoverSteps \union Swapping \union RollbackSteps \union Ended
  /\ Pcs("sync") = SyncSteps \union Swapping \union RollbackSteps \union Ended
  /\ UNION {Pcs(op) : op \in Ops} = AllPcs
  <1>1. Pcs("reconcile") = ReconcileSteps \union Swapping \union RollbackSteps \union Ended
    BY StepSets DEF Pcs, Forward
  <1>2. Pcs("cutover") = CutoverSteps \union Swapping \union RollbackSteps \union Ended
    BY StepSets DEF Pcs, Forward
  <1>3. Pcs("sync") = SyncSteps \union Swapping \union RollbackSteps \union Ended
    BY StepSets DEF Pcs, Forward
  <1>4. Pcs("cutover") \subseteq AllPcs /\ Pcs("sync") \subseteq AllPcs
    BY <1>2, <1>3 DEF AllPcs, ReconcileSteps, CutoverSteps, SyncSteps
  <1>5. UNION {Pcs(op) : op \in Ops} = AllPcs
    BY <1>1, <1>4 DEF AllPcs, Ops
  <1> QED
    BY <1>1, <1>2, <1>3, <1>5

\* What comes after each step.
LEMMA NextOfExchange ==
  ASSUME NEW r, r.op \in Ops
  PROVE  /\ r.pc = "aside" => NextPc(r) = "place"
         /\ r.pc \in {"clone", "place"} =>
              NextPc(r) = IF r.queue # <<>> THEN "aside"
                          ELSE IF r.op = "sync" THEN "cleanup" ELSE "recheck"
  <1>1. r.op = "reconcile" \/ r.op = "cutover" \/ r.op = "sync"
    BY DEF Ops
  <1>2. Following(Order[r.op], "clone", "done") = IF r.op = "sync" THEN "cleanup" ELSE "recheck"
    BY <1>1, ReconcileFollows, CutoverFollows, SyncFollows
  <1> QED
    BY <1>2, StepSets DEF NextPc, RollbackSteps

LEMMA NextOfReconcile ==
  ASSUME NEW r, r.op = "reconcile"
  PROVE  /\ r.pc = "recheck" => NextPc(r) = "unplug"
         /\ r.pc = "unplug" => NextPc(r) = "unmarket"
         /\ r.pc = "unmarket" => NextPc(r) = "market"
         /\ r.pc = "market" => NextPc(r) = "plug"
         /\ r.pc = "plug" => NextPc(r) = "snapshot"
         /\ r.pc = "snapshot" => NextPc(r) = "bootstrap"
         /\ r.pc = "bootstrap" => NextPc(r) = "scout"
         /\ r.pc = "scout" => NextPc(r) = "setup"
         /\ r.pc = "setup" => NextPc(r) = "verify"
         /\ r.pc = "verify" => NextPc(r) = "receipt"
         /\ r.pc = "receipt" => NextPc(r) = "cleanup"
         /\ r.pc = "cleanup" => NextPc(r) = "done"
  <1>1. Order[r.op] = Order["reconcile"]
    OBVIOUS
  <1> QED
    BY <1>1, StepSets, ReconcileFollows DEF NextPc, RollbackSteps

LEMMA NextOfCutover ==
  ASSUME NEW r, r.op = "cutover"
  PROVE  /\ r.pc = "recheck" => NextPc(r) = "snapshot"
         /\ r.pc = "snapshot" => NextPc(r) = "bootstrap"
         /\ r.pc = "bootstrap" => NextPc(r) = "scout"
         /\ r.pc = "scout" => NextPc(r) = "setup"
         /\ r.pc = "setup" => NextPc(r) = "receipt"
         /\ r.pc = "receipt" => NextPc(r) = "cleanup"
         /\ r.pc = "cleanup" => NextPc(r) = "done"
  <1>1. Order[r.op] = Order["cutover"]
    OBVIOUS
  <1> QED
    BY <1>1, StepSets, CutoverFollows DEF NextPc, RollbackSteps

LEMMA NextOfSync ==
  ASSUME NEW r, r.op = "sync"
  PROVE  r.pc = "cleanup" => NextPc(r) = "done"
  <1>1. Order[r.op] = Order["sync"]
    OBVIOUS
  <1> QED
    BY <1>1, StepSets, SyncFollows DEF NextPc, RollbackSteps

LEMMA NextOfRollback ==
  ASSUME NEW r
  PROVE  /\ r.pc = "undoPlug" => NextPc(r) = "undoMarket"
         /\ r.pc = "undoMarket" => NextPc(r) = "redoMarket"
         /\ r.pc = "redoMarket" => NextPc(r) = "redoPlug"
         /\ r.pc = "redoPlug" => NextPc(r) = "undoScout"
         /\ r.pc = "undoScout" => NextPc(r) = "undoBootstrap"
         /\ r.pc = "undoBootstrap" => NextPc(r) = "undoSources"
         /\ r.pc = "undoSources" => NextPc(r) = IF r.broken THEN "broken" ELSE "undone"
         /\ UndoOrder[1] = "undoPlug"
  <1>1. UndoOrder[1] = "undoPlug"
    BY DEF UndoOrder
  <1>2. r.pc \in Steps(UndoOrder) =>
          NextPc(r) = Following(UndoOrder, r.pc, IF r.broken THEN "broken" ELSE "undone")
    BY StepSets DEF NextPc, RollbackSteps
  <1> QED
    BY <1>1, <1>2, StepSets, RollbackFollows DEF RollbackSteps

-----------------------------------------------------------------------------
(* Where a run stands.                                                     *)

LEMMA Kinds ==
  ASSUME TypeOK
  PROVE  /\ run \in Runs /\ host \in Hosts /\ run.op \in Ops /\ run.pc \in AllPcs
         /\ run.op = "cutover" =>
              run.pc \in CutoverSteps \union Swapping \union RollbackSteps \union Ended
         /\ run.op = "sync" =>
              run.pc \in SyncSteps \union Swapping \union RollbackSteps \union Ended
         /\ run.pc \notin Ended => run.plan \in Plans
  <1>1. run \in Runs /\ host \in Hosts /\ run.pc \in Pcs(run.op)
        /\ (run.pc \notin Ended => run.plan \in Plans)
    BY DEF TypeOK, Running
  <1>2. run.op \in Ops /\ run.pc \in AllPcs
    BY <1>1, PcSets DEF Runs
  <1> QED
    BY <1>1, <1>2, PcSets

\* What an action makes of the run: it goes to s, or it ends.
Kept == run'.op = run.op /\ run'.plan = run.plan /\ run'.before = run.before
Moves(s) == run' \in Runs /\ run'.pc = s /\ s \in Pcs(run.op) /\ Kept
Aside == run'.queue = run.queue /\ run'.swapped = run.swapped /\ run'.aside = run.aside
Quiet == run'.fault = run.fault /\ run'.touched = run.touched
Seen == run'.late = run.late
Leaves(s) == /\ run' \in Runs /\ run'.pc = s /\ run'.op = run.op /\ run'.before = run.before
             /\ run'.touched = run.touched
Succeeds == run' \in Runs /\ run'.pc = "done" /\ run'.op = run.op

LEMMA GoIs ==
  ASSUME NEW r \in Runs, Go(r)
  PROVE  /\ NextPc(r) \notin Ended => run' = [r EXCEPT !.pc = NextPc(r)]
         /\ NextPc(r) \in {"undone", "broken"} => run' = Closed([r EXCEPT !.pc = NextPc(r)])
         /\ NextPc(r) = "done" => run' = Done([r EXCEPT !.pc = "done"])
  <1>1. "pc" \in DOMAIN r
    BY DEF Runs
  <1>2. [r EXCEPT !.pc = NextPc(r)].pc = NextPc(r)
    BY <1>1
  <1> QED
    BY <1>2 DEF Go, Ended

LEMMA GoMoves ==
  ASSUME TypeOK, Go(run), NextPc(run) \in Pcs(run.op) \ Ended
  PROVE  Moves(NextPc(run)) /\ Aside /\ Quiet /\ Seen
  <1>1. run' = [run EXCEPT !.pc = NextPc(run)]
    BY Kinds, GoIs
  <1>2. NextPc(run) \in AllPcs
    BY Kinds, PcSets
  <1> QED
    BY <1>1, <1>2, Kinds, PcSets DEF Runs, Moves, Kept, Aside, Quiet, Seen

LEMMA Aborted ==
  ASSUME TypeOK
  PROVE  "undoPlug" \in Pcs(run.op) /\ "undoPlug" \in AllPcs
  <1>1. "undoPlug" \in RollbackSteps
    BY DEF RollbackSteps
  <1> QED
    BY <1>1, Kinds, PcSets DEF AllPcs, Ops

LEMMA AbortMoves ==
  ASSUME TypeOK, Abort(run)
  PROVE  Moves("undoPlug") /\ Aside /\ Quiet /\ Seen
  <1>1. run' = [run EXCEPT !.pc = "undoPlug"]
    BY NextOfRollback DEF Abort
  <1> QED
    BY <1>1, Aborted, Kinds, PcSets DEF Runs, Moves, Kept, Aside, Quiet, Seen

-----------------------------------------------------------------------------
(* Hosts and queues.                                                       *)

Allowed(p) == IF p = "market" THEN Checkouts \union {None}
              ELSE IF p = "plugin" THEN Checkouts \union {None, "off"}
              ELSE IF p \in {"owner", "bind"} THEN Commits ELSE Builds

LEMMA PartsAre ==
  /\ Part = {"market", "plugin", "core", "bind", "sidecar", "owner", "bootstrap", "scout"}
  /\ Source = {"sidecar", "owner"} /\ Skill = {"bootstrap", "scout"}
  /\ Source \subseteq Part /\ Skill \subseteq Part
  BY DEF Part, Source, Skill

LEMMA AllowedIs == \A p \in Part : Allowed(p) \subseteq Values
  BY PartsAre DEF Allowed, Values, Checkouts, Commits, Builds

LEMMA HostIs ==
  ASSUME NEW h
  PROVE  h \in Hosts <=> h \in [Part -> Values] /\ \A p \in Part : h[p] \in Allowed(p)
  <1>1. ASSUME h \in Hosts PROVE \A p \in Part : h[p] \in Allowed(p)
    BY <1>1, PartsAre DEF Hosts, Allowed
  <1>2. ASSUME h \in [Part -> Values], \A p \in Part : h[p] \in Allowed(p) PROVE h \in Hosts
    BY <1>2, PartsAre DEF Hosts, Allowed
  <1> QED
    BY <1>1, <1>2 DEF Hosts

LEMMA SetKeeps ==
  ASSUME NEW h \in Hosts, NEW p \in Part, NEW v \in Allowed(p), NEW k, k = [h EXCEPT ![p] = v]
  PROVE  k \in Hosts /\ k[p] = v /\ \A q \in Part : q # p => k[q] = h[q]
  <1>1. v \in Values
    BY AllowedIs
  <1>2. h \in [Part -> Values] /\ \A q \in Part : h[q] \in Allowed(q)
    BY HostIs
  <1>3. k \in [Part -> Values] /\ k[p] = v /\ \A q \in Part : q # p => k[q] = h[q]
    BY <1>1, <1>2
  <1>4. \A q \in Part : k[q] \in Allowed(q)
    BY <1>2, <1>3
  <1> QED
    BY <1>3, <1>4, HostIs

LEMMA SetHosts ==
  ASSUME NEW h \in Hosts, NEW p \in Part, NEW v \in Allowed(p)
  PROVE  [h EXCEPT ![p] = v] \in Hosts
  BY SetKeeps

LEMMA HostTypes ==
  ASSUME NEW h \in Hosts
  PROVE  /\ h \in [Part -> Values] /\ h.sidecar \in Builds /\ h.core \in Builds
         /\ h.bootstrap \in Builds /\ h.scout \in Builds
         /\ h.owner \in Commits /\ h.bind \in Commits
         /\ h.market \in Checkouts \union {None} /\ h.plugin \in Checkouts \union {None, "off"}
  BY PartsAre DEF Hosts

LEMMA NamedIs ==
  ASSUME NEW p
  PROVE  ToSet(Named(p)) = IF p.spec = None THEN {"sidecar"} ELSE {"sidecar", "owner"}
  BY DEF ToSet, Named

LEMMA QueueFacts ==
  ASSUME NEW q \in Queues
  PROVE  /\ q = <<>> => \A n : ~Contains(q, n)
         /\ q # <<>> => /\ Head(q) \in Source /\ Tail(q) \in Queues
                        /\ \A n : Contains(q, n) <=> n = Head(q) \/ Contains(Tail(q), n)
                        /\ ~Contains(Tail(q), Head(q))
  <1>1. CASE q = <<>>
    BY <1>1 DEF Contains
  <1>2. ASSUME NEW m \in Source, q = <<m>>
        PROVE  /\ Head(q) = m /\ Tail(q) = <<>>
               /\ \A n : Contains(q, n) <=> n = m
    <2>1. \A i \in 1..1 : i = 1
      OBVIOUS
    <2> QED
      BY <1>2, <2>1 DEF Contains
  <1>3. CASE q = <<"sidecar", "owner">>
    <2>1. Head(q) = "sidecar" /\ Tail(q) = <<"owner">> /\ Len(q) = 2 /\ q[1] = "sidecar"
          /\ q[2] = "owner"
      BY <1>3
    <2>2. \A i \in 1..2 : i = 1 \/ i = 2
      OBVIOUS
    <2>3. \A n : Contains(q, n) <=> n = "sidecar" \/ n = "owner"
      BY <2>1, <2>2 DEF Contains
    <2>4. \A i \in 1..1 : i = 1
      OBVIOUS
    <2>5. \A n : Contains(<<"owner">>, n) <=> n = "owner"
      BY <2>4 DEF Contains
    <2> QED
      BY <1>3, <2>1, <2>3, <2>5, PartsAre DEF Queues
  <1>4. \A n : ~Contains(<<>>, n)
    BY DEF Contains
  <1>5. CASE q = <<"sidecar">>
    BY <1>2, <1>4, <1>5, PartsAre DEF Queues
  <1>6. CASE q = <<"owner">>
    BY <1>2, <1>4, <1>6, PartsAre DEF Queues
  <1> QED
    BY <1>1, <1>3, <1>5, <1>6 DEF Queues

LEMMA AppendFacts ==
  ASSUME NEW s \in Seq(Source), NEW n \in Source
  PROVE  /\ Append(s, n) \in Seq(Source)
         /\ \A m : Contains(Append(s, n), m) <=> Contains(s, m) \/ m = n
  <1>1. Len(Append(s, n)) = Len(s) + 1 /\ Len(s) \in Nat /\ Append(s, n)[Len(s) + 1] = n
        /\ \A i \in 1..Len(s) : Append(s, n)[i] = s[i]
    OBVIOUS
  <1>2. \A i : i \in 1..(Len(s) + 1) <=> i \in 1..Len(s) \/ i = Len(s) + 1
    BY <1>1
  <1>3. \A m : Contains(Append(s, n), m) <=> Contains(s, m) \/ m = n
    BY <1>1, <1>2 DEF Contains
  <1> QED
    BY <1>3

LEMMA QueueHolds ==
  /\ \A n : Contains(<<"sidecar", "owner">>, n) <=> n = "sidecar" \/ n = "owner"
  /\ \A n : Contains(<<"sidecar">>, n) <=> n = "sidecar"
  /\ \A n : Contains(<<"owner">>, n) <=> n = "owner"
  /\ \A n : ~Contains(<<>>, n)
  <1>1. \A i \in 1..2 : i = 1 \/ i = 2
    OBVIOUS
  <1>2. \A i \in 1..1 : i = 1
    OBVIOUS
  <1>3. \A n : Contains(<<"sidecar", "owner">>, n) <=> n = "sidecar" \/ n = "owner"
    <2> DEFINE q == <<"sidecar", "owner">>
    <2>1. Len(q) = 2 /\ q[1] = "sidecar" /\ q[2] = "owner"
      OBVIOUS
    <2> QED
      BY <1>1, <2>1 DEF Contains
  <1>4. \A n : Contains(<<"sidecar">>, n) <=> n = "sidecar"
    BY <1>2 DEF Contains
  <1>5. \A n : Contains(<<"owner">>, n) <=> n = "owner"
    BY <1>2 DEF Contains
  <1> QED
    BY <1>3, <1>4, <1>5 DEF Contains

\* The checkouts due, in their order.
LEMMA DueFacts ==
  ASSUME NEW A \in BOOLEAN, NEW B \in BOOLEAN, NEW q,
         q = (IF A THEN <<"sidecar">> ELSE <<>>) \o (IF B THEN <<"owner">> ELSE <<>>)
  PROVE  /\ q \in Queues /\ (Contains(q, "sidecar") <=> A) /\ (Contains(q, "owner") <=> B)
  <1>1. q = IF A THEN (IF B THEN <<"sidecar", "owner">> ELSE <<"sidecar">>)
            ELSE (IF B THEN <<"owner">> ELSE <<>>)
    <2>1. CASE A /\ B
      <3> DEFINE a == <<"sidecar">>
                 b == <<"owner">>
      <3>1. a \in Seq({"sidecar", "owner"}) /\ b \in Seq({"sidecar", "owner"})
            /\ Len(a) = 1 /\ Len(b) = 1 /\ a[1] = "sidecar" /\ b[1] = "owner"
        OBVIOUS
      <3>2. Len(a \o b) = 2 /\ (a \o b)[1] = "sidecar" /\ (a \o b)[2] = "owner"
            /\ a \o b \in Seq({"sidecar", "owner"})
        BY <3>1
      <3>3. ASSUME NEW s \in Seq({"sidecar", "owner"}), Len(s) = 2, s[1] = "sidecar", s[2] = "owner"
            PROVE  s = <<"sidecar", "owner">>
        BY <3>3
      <3>4. a \o b = <<"sidecar", "owner">>
        BY <3>2, <3>3
      <3> QED
        BY <2>1, <3>4
    <2>2. CASE A /\ ~B
      BY <2>2
    <2>3. CASE ~A /\ B
      BY <2>3
    <2>4. CASE ~A /\ ~B
      BY <2>4
    <2> QED
      BY <2>1, <2>2, <2>3, <2>4
  <1>2. A /\ B => q = <<"sidecar", "owner">>
    BY <1>1
  <1>3. (A /\ ~B => q = <<"sidecar">>) /\ (~A /\ B => q = <<"owner">>)
        /\ (~A /\ ~B => q = <<>>)
    BY <1>1
  <1> QED
    BY <1>2, <1>3, QueueHolds DEF Queues

-----------------------------------------------------------------------------
(* The steps of a run.                                                     *)

\* A run that goes on as r.
Follows(r) == /\ run'.queue = r.queue /\ run'.swapped = r.swapped /\ run'.aside = r.aside
              /\ run'.fault = r.fault /\ run'.touched = r.touched /\ run'.late = r.late

LEMMA GoLike ==
  ASSUME TypeOK, NEW r \in Runs, Go(r), r.op = run.op, r.plan = run.plan,
         r.before = run.before, NextPc(r) \in Pcs(run.op) \ Ended
  PROVE  Moves(NextPc(r)) /\ Follows(r)
  <1>1. run' = [r EXCEPT !.pc = NextPc(r)]
    BY GoIs
  <1>2. NextPc(r) \in AllPcs
    BY Kinds, PcSets
  <1> QED
    BY <1>1, <1>2, PcSets DEF Runs, Moves, Kept, Follows

LEMMA AbortLike ==
  ASSUME TypeOK, NEW r \in Runs, Abort(r), r.op = run.op, r.plan = run.plan,
         r.before = run.before
  PROVE  Moves("undoPlug") /\ Follows(r)
  <1>1. run' = [r EXCEPT !.pc = "undoPlug"]
    BY NextOfRollback DEF Abort
  <1> QED
    BY <1>1, Aborted, PcSets DEF Runs, Moves, Kept, Follows

\* The places of a run at which it can be asked for its plan.
LEMMA Standing ==
  ASSUME TypeOK, NEW s, At(s), s \notin Ended
  PROVE  run.plan \in Plans /\ Running /\ run.pc = s
  BY Kinds DEF At, Running

LEMMA CloneStep ==
  ASSUME TypeOK, Clone
  PROVE  /\ At("clone") /\ host' = host /\ strays' = strays
         /\ run'.queue \in Queues
         /\ Moves(IF run'.queue # <<>> THEN "aside"
                  ELSE IF run.op = "sync" THEN "cleanup" ELSE "recheck")
         /\ run'.swapped = run.swapped /\ run'.aside = run.aside /\ Quiet /\ Seen
         /\ Contains(run'.queue, "sidecar") <=> host.sidecar # run.plan.want
         /\ Contains(run'.queue, "owner") <=>
              run.plan.spec # None /\ host.owner # run.plan.spec
  <1>1. At("clone") /\ host' = host /\ strays' = strays /\ run.pc = "clone"
    BY DEF Clone, At
  <1> DEFINE A == host.sidecar # run.plan.want
             B == run.plan.spec # None /\ host.owner # run.plan.spec
  <1>2. PICK q : /\ q = (IF A THEN <<"sidecar">> ELSE <<>>) \o (IF B THEN <<"owner">> ELSE <<>>)
                 /\ Go([run EXCEPT !.queue = q])
    <2>1. (IF host["sidecar"] # Want(run.plan, "sidecar") THEN <<"sidecar">> ELSE <<>>)
            = (IF A THEN <<"sidecar">> ELSE <<>>)
      BY DEF Want
    <2>2. (IF run.plan.spec = None THEN <<>>
           ELSE IF host["owner"] # Want(run.plan, "owner") THEN <<"owner">> ELSE <<>>)
            = (IF B THEN <<"owner">> ELSE <<>>)
      BY DEF Want
    <2> QED
      BY <2>1, <2>2 DEF Clone
  <1>3. q \in Queues /\ (Contains(q, "sidecar") <=> A) /\ (Contains(q, "owner") <=> B)
    BY <1>2, DueFacts
  <1>4. PICK r : r = [run EXCEPT !.queue = q]
    OBVIOUS
  <1>5. r \in Runs /\ Go(r)
    BY <1>2, <1>3, <1>4, Kinds DEF Runs
  <1>6. r.op = run.op /\ r.plan = run.plan /\ r.before = run.before /\ r.pc = "clone"
        /\ r.queue = q /\ r.swapped = run.swapped /\ r.aside = run.aside /\ r.fault = run.fault
        /\ r.touched = run.touched /\ r.late = run.late
    BY <1>1, <1>4, Kinds DEF Runs
  <1>7. NextPc(r) = IF q # <<>> THEN "aside" ELSE IF run.op = "sync" THEN "cleanup" ELSE "recheck"
    BY <1>6, Kinds, NextOfExchange
  <1>8. NextPc(r) \in Pcs(run.op) \ Ended
    BY <1>7, Kinds, PcSets DEF Ops, Swapping, ReconcileSteps, CutoverSteps, SyncSteps, Ended
  <1>9. Moves(NextPc(r)) /\ Follows(r)
    BY <1>5, <1>6, <1>8, GoLike
  <1> QED
    BY <1>1, <1>3, <1>6, <1>7, <1>9 DEF Follows, Quiet, Seen

LEMMA MoveAsideStep ==
  ASSUME TypeOK, MoveAside, run.queue # <<>>, NEW n, n = Head(run.queue)
  PROVE  /\ run.pc = "aside" /\ strays' = strays /\ n \in Source /\ Quiet /\ Seen
         /\ \/ /\ run.op # "sync" /\ host[n] # run.plan.sources[n] /\ host' = host
               /\ Moves("undoPlug") /\ Aside
            \/ /\ host' = [host EXCEPT ![n] = None] /\ host' \in Hosts /\ Moves("place")
               /\ run'.queue = run.queue /\ run'.swapped = Append(run.swapped, n)
               /\ run'.aside = [run.aside EXCEPT ![n] = host[n]]
  <1>1. run.pc = "aside" /\ strays' = strays
    BY DEF MoveAside, At
  <1>2. n \in Source /\ run \in Runs /\ run.queue \in Queues
    BY Kinds, QueueFacts DEF Runs
  <1>3. CASE run.op # "sync" /\ host[n] # run.plan.sources[n]
    <2>1. Abort(run) /\ host' = host
      BY <1>3 DEF MoveAside
    <2> QED
      BY <1>1, <1>2, <1>3, <2>1, AbortMoves
  <1>4. CASE ~(run.op # "sync" /\ host[n] # run.plan.sources[n])
    <2>1. host' = [host EXCEPT ![n] = None]
          /\ Go([run EXCEPT !.aside[n] = host[n], !.swapped = Append(@, n)])
      BY <1>4 DEF MoveAside, Set
    <2>2. PICK r : r = [run EXCEPT !.aside[n] = host[n], !.swapped = Append(@, n)]
      OBVIOUS
    <2>3. [run.aside EXCEPT ![n] = host[n]] \in Asides
      <3>1. host[n] \in Values /\ host.sidecar \in Builds /\ host.owner \in Commits
        BY <1>2, Kinds, HostTypes, PartsAre
      <3>2. run.aside \in Asides
        BY Kinds DEF Runs
      <3> QED
        BY <1>2, <3>1, <3>2, PartsAre DEF Asides
    <2>4. r \in Runs /\ Go(r)
      BY <1>2, <2>1, <2>2, <2>3, Kinds, AppendFacts DEF Runs
    <2>5. r.op = run.op /\ r.plan = run.plan /\ r.before = run.before /\ r.pc = "aside"
          /\ r.queue = run.queue /\ r.swapped = Append(run.swapped, n)
          /\ r.aside = [run.aside EXCEPT ![n] = host[n]] /\ r.fault = run.fault
          /\ r.touched = run.touched /\ r.late = run.late
      BY <1>1, <2>2, Kinds DEF Runs
    <2>6. NextPc(r) = "place"
      BY <2>5, Kinds, NextOfExchange
    <2>7. NextPc(r) \in Pcs(run.op) \ Ended
      BY <2>6, Kinds, PcSets DEF Ops, Swapping, Ended
    <2>8. Moves("place") /\ Follows(r)
      BY <2>4, <2>5, <2>6, <2>7, GoLike
    <2>9. host' \in Hosts
      BY <1>2, <2>1, Kinds, PartsAre, SetKeeps DEF Allowed, Commits, Builds
    <2> QED
      BY <1>1, <1>2, <2>1, <2>5, <2>8, <2>9 DEF Follows, Quiet, Seen
  <1> QED
    BY <1>3, <1>4

LEMMA PlaceStep ==
  ASSUME TypeOK, Place, run.queue # <<>>, NEW n, n = Head(run.queue)
  PROVE  /\ run.pc = "place" /\ strays' = strays /\ n \in Source /\ Quiet /\ Seen
         /\ host' = [host EXCEPT ![n] = Want(run.plan, n)] /\ host' \in Hosts
         /\ run'.queue = Tail(run.queue) /\ run'.swapped = run.swapped /\ run'.aside = run.aside
         /\ Moves(IF run'.queue # <<>> THEN "aside"
                  ELSE IF run.op = "sync" THEN "cleanup" ELSE "recheck")
  <1>1. run.pc = "place" /\ strays' = strays /\ host' = [host EXCEPT ![n] = Want(run.plan, n)]
        /\ Go([run EXCEPT !.queue = Tail(@)])
    BY DEF Place, At, Set
  <1>2. n \in Source /\ run \in Runs /\ run.queue \in Queues /\ Tail(run.queue) \in Queues
    BY Kinds, QueueFacts DEF Runs
  <1>3. PICK r : r = [run EXCEPT !.queue = Tail(@)]
    OBVIOUS
  <1>4. r \in Runs /\ Go(r)
    BY <1>1, <1>2, <1>3 DEF Runs
  <1>5. r.op = run.op /\ r.plan = run.plan /\ r.before = run.before /\ r.pc = "place"
        /\ r.queue = Tail(run.queue) /\ r.swapped = run.swapped /\ r.aside = run.aside
        /\ r.fault = run.fault /\ r.touched = run.touched /\ r.late = run.late
    BY <1>1, <1>2, <1>3 DEF Runs
  <1>6. NextPc(r) = IF r.queue # <<>> THEN "aside"
                    ELSE IF run.op = "sync" THEN "cleanup" ELSE "recheck"
    BY <1>5, Kinds, NextOfExchange
  <1>7. NextPc(r) \in Pcs(run.op) \ Ended
    BY <1>6, Kinds, PcSets DEF Ops, Swapping, ReconcileSteps, CutoverSteps, SyncSteps, Ended
  <1>8. Moves(NextPc(r)) /\ Follows(r)
    BY <1>4, <1>5, <1>7, GoLike
  <1>9. host' \in Hosts
    <2>1. run.plan \in Plans
      BY <1>1, Kinds DEF Ended
    <2>2. Want(run.plan, n) \in Allowed(n)
      BY <1>2, <2>1, PartsAre DEF Want, Plans, Allowed, Builds
    <2> QED
      BY <1>1, <1>2, <2>2, Kinds, PartsAre, SetKeeps
  <1> QED
    BY <1>1, <1>2, <1>5, <1>6, <1>8, <1>9 DEF Follows, Quiet, Seen

LEMMA RecheckStep ==
  ASSUME TypeOK, Recheck
  PROVE  /\ run.pc = "recheck" /\ host' = host /\ strays' = strays /\ run.op # "sync"
         /\ Aside /\ Quiet /\ Seen
         /\ \/ /\ Moves(IF run.op = "reconcile" THEN "unplug" ELSE "snapshot")
               /\ \A n \in Source : ~Contains(run.swapped, n) => host[n] = run.plan.sources[n]
               /\ ~Ambiguous(run.plan.spec)
            \/ /\ Moves("undoPlug")
               /\ \/ \E n \in Source : ~Contains(run.swapped, n) /\ host[n] # run.plan.sources[n]
                  \/ Ambiguous(run.plan.spec)
  <1>1. run.pc = "recheck" /\ host' = host /\ strays' = strays
    BY DEF Recheck, At
  <1>2. run.op = "reconcile" \/ run.op = "cutover"
    BY <1>1, Kinds DEF Ops, SyncSteps, Swapping, RollbackSteps, Ended
  <1>3. NextPc(run) = IF run.op = "reconcile" THEN "unplug" ELSE "snapshot"
    BY <1>1, <1>2, NextOfReconcile, NextOfCutover
  <1>4. NextPc(run) \in Pcs(run.op) \ Ended
    BY <1>2, <1>3, PcSets DEF ReconcileSteps, CutoverSteps, Ended
  <1>5. CASE (\A n \in Source : ~Contains(run.swapped, n) => host[n] = run.plan.sources[n])
             /\ ~Ambiguous(run.plan.spec)
    <2>1. Go(run)
      BY <1>5 DEF Recheck
    <2> QED
      BY <1>1, <1>2, <1>3, <1>4, <1>5, <2>1, GoMoves
  <1>6. CASE ~((\A n \in Source : ~Contains(run.swapped, n) => host[n] = run.plan.sources[n])
               /\ ~Ambiguous(run.plan.spec))
    <2>1. Abort(run)
      BY <1>6 DEF Recheck
    <2> QED
      BY <1>1, <1>2, <1>6, <2>1, AbortMoves
  <1> QED
    BY <1>5, <1>6

\* The commands of an exchange.
LEMMA CommandIs ==
  /\ At("unplug") => /\ Command(run).part = "plugin" /\ Command(run).to = None
                     /\ Command(run).due <=> TouchesPlugin(run.plan) /\ run.plan.plugin # None
  /\ At("unmarket") => /\ Command(run).part = "market" /\ Command(run).to = None
                       /\ Command(run).due <=> TouchesMarket(run.plan) /\ run.plan.market # None
  /\ At("market") => /\ Command(run).part = "market" /\ Command(run).to = run.plan.want
                     /\ Command(run).due <=> TouchesMarket(run.plan)
  /\ At("plug") => /\ Command(run).part = "plugin" /\ Command(run).to = host.market
                   /\ Command(run).due <=> TouchesPlugin(run.plan)
  /\ run.pc = "undoPlug" => Command(run).part = "plugin" /\ Command(run).to = None
  /\ run.pc = "undoMarket" => Command(run).part = "market" /\ Command(run).to = None
  /\ run.pc = "redoMarket" => Command(run).part = "market" /\ Command(run).to = run.plan.market
  /\ run.pc = "redoPlug" => Command(run).part = "plugin" /\ Command(run).to = host.market
  <1>1. At("unplug") => /\ Command(run).part = "plugin" /\ Command(run).to = None
                        /\ Command(run).due <=> TouchesPlugin(run.plan) /\ run.plan.plugin # None
    BY DEF Command, At
  <1>2. At("unmarket") => /\ Command(run).part = "market" /\ Command(run).to = None
                          /\ Command(run).due <=> TouchesMarket(run.plan) /\ run.plan.market # None
    BY DEF Command, At
  <1>3. At("market") => /\ Command(run).part = "market" /\ Command(run).to = run.plan.want
                        /\ Command(run).due <=> TouchesMarket(run.plan)
    BY DEF Command, At
  <1>4. At("plug") => /\ Command(run).part = "plugin" /\ Command(run).to = host.market
                      /\ Command(run).due <=> TouchesPlugin(run.plan)
    BY DEF Command, At
  <1>5. run.pc = "undoPlug" => Command(run).part = "plugin" /\ Command(run).to = None
    BY DEF Command
  <1>6. run.pc = "undoMarket" => Command(run).part = "market" /\ Command(run).to = None
    BY DEF Command
  <1>7. run.pc = "redoMarket" => /\ Command(run).part = "market"
                                 /\ Command(run).to = run.plan.market
    BY DEF Command
  <1>8. run.pc = "redoPlug" => Command(run).part = "plugin" /\ Command(run).to = host.market
    BY DEF Command
  <1> QED
    BY <1>1, <1>2, <1>3, <1>4, <1>5, <1>6, <1>7, <1>8

LEMMA CommandTypes ==
  ASSUME TypeOK, run.pc \in Commands \union Compensation
  PROVE  /\ Command(run).part \in {"market", "plugin"}
         /\ Command(run).to \in Allowed(Command(run).part)
         /\ [host EXCEPT ![Command(run).part] = Command(run).to] \in Hosts
  <1>1. run.plan \in Plans /\ host \in Hosts
    BY Kinds DEF Commands, Compensation, Ended
  <1>2. /\ host.market \in Checkouts \union {None} /\ run.plan.market \in Checkouts \union {None}
        /\ run.plan.want \in Checkouts
    BY <1>1, HostTypes DEF Plans, Checkouts
  <1>3. Command(run).part \in {"market", "plugin"}
    BY CommandIs DEF At, Commands, Compensation
  <1>4. Command(run).to \in Checkouts \union {None}
    BY <1>2, CommandIs DEF At, Commands, Compensation
  <1>5. Command(run).to \in Allowed(Command(run).part)
    BY <1>3, <1>4 DEF Allowed
  <1> QED
    BY <1>1, <1>3, <1>5, PartsAre, SetKeeps

NextCommand == IF At("unplug") THEN "unmarket" ELSE IF At("unmarket") THEN "market"
               ELSE IF At("market") THEN "plug" ELSE "snapshot"

LEMMA DistributeStep ==
  ASSUME TypeOK, Distribute
  PROVE  /\ run.pc \in Commands /\ strays' = strays /\ host' \in Hosts /\ run.op = "reconcile"
         /\ Aside /\ Quiet /\ Seen
         /\ \/ ~Command(run).due /\ host' = host /\ Moves(NextCommand)
            \/ /\ Command(run).due /\ Moves(NextCommand)
               /\ host' = [host EXCEPT ![Command(run).part] = Command(run).to]
            \/ /\ Command(run).due /\ ~Accepts(Command(run).part, Command(run).to)
               /\ host' = host /\ Moves("undoPlug")
  <1>1. run.pc \in Commands /\ strays' = strays
    BY DEF Distribute
  <1>2. run.op = "reconcile"
    BY <1>1, Kinds DEF Ops, Commands, CutoverSteps, SyncSteps, Swapping, RollbackSteps, Ended
  <1>3. PICK r : r = [run EXCEPT !.external = TRUE]
    OBVIOUS
  <1>4. r \in Runs /\ r.op = run.op /\ r.plan = run.plan /\ r.before = run.before
        /\ r.pc = run.pc /\ r.queue = run.queue /\ r.swapped = run.swapped
        /\ r.aside = run.aside /\ r.fault = run.fault /\ r.touched = run.touched
        /\ r.late = run.late
    BY <1>3, Kinds DEF Runs
  <1>5. NextPc(run) = NextCommand /\ NextPc(r) = NextCommand
    BY <1>1, <1>2, <1>4, NextOfReconcile DEF NextCommand, At, Commands
  <1>6. NextCommand \in Pcs(run.op) \ Ended
    BY <1>2, PcSets DEF NextCommand, ReconcileSteps, Ended
  <1>7. CASE ~Command(run).due
    <2>1. Go(run) /\ host' = host
      BY <1>7 DEF Distribute
    <2> QED
      BY <1>1, <1>2, <1>5, <1>6, <1>7, <2>1, GoMoves, Kinds
  <1>8. CASE Command(run).due /\ Accepts(Command(run).part, Command(run).to)
    <2>1. Go(r) /\ host' = [host EXCEPT ![Command(run).part] = Command(run).to]
      BY <1>3, <1>8 DEF Distribute, Set
    <2>2. Moves(NextCommand) /\ Follows(r)
      BY <1>4, <1>5, <1>6, <2>1, GoLike
    <2> QED
      BY <1>1, <1>2, <1>4, <1>8, <2>1, <2>2, CommandTypes DEF Follows, Aside, Quiet, Seen
  <1>9. CASE Command(run).due /\ ~Accepts(Command(run).part, Command(run).to)
    <2>1. Abort(r) /\ host' = host
      BY <1>3, <1>9 DEF Distribute
    <2>2. Moves("undoPlug") /\ Follows(r)
      BY <1>4, <2>1, AbortLike
    <2> QED
      BY <1>1, <1>2, <1>4, <1>9, <2>1, <2>2, Kinds DEF Follows, Aside, Quiet, Seen
  <1> QED
    BY <1>7, <1>8, <1>9

\* A compensation touches the distribution only, and the rollback goes on.
LEMMA CompensateStep ==
  ASSUME TypeOK, Compensate
  PROVE  /\ run.pc \in Compensation /\ strays' = strays /\ host' \in Hosts
         /\ Aside /\ Quiet /\ Seen
         /\ \E s \in RollbackSteps : Moves(s)
         /\ \A p \in Part : p \notin {"market", "plugin"} => host'[p] = host[p]
  <1>1. run.pc \in Compensation /\ strays' = strays
    BY DEF Compensate
  <1>2. PICK r : r \in Runs /\ Go(r) /\ r.op = run.op /\ r.plan = run.plan
                 /\ r.before = run.before /\ r.queue = run.queue /\ r.swapped = run.swapped
                 /\ r.aside = run.aside /\ r.fault = run.fault /\ r.touched = run.touched
                 /\ r.late = run.late /\ r.pc \in Compensation
                 /\ \/ host' = host
                    \/ host' = [host EXCEPT ![Command(run).part] = Command(run).to]
    <2>0. "redoPlug" \in AllPcs /\ "redoPlug" \in Compensation
      BY DEF AllPcs, RollbackSteps, Compensation
    <2>1. CASE ~run.external
      <3> PICK r : r = [run EXCEPT !.pc = "redoPlug"]
        OBVIOUS
      <3>1. Go(r) /\ host' = host
        BY <2>1 DEF Compensate
      <3>2. r \in Runs /\ r.pc = "redoPlug" /\ r.op = run.op /\ r.plan = run.plan
            /\ r.before = run.before /\ r.queue = run.queue /\ r.swapped = run.swapped
            /\ r.aside = run.aside /\ r.fault = run.fault /\ r.touched = run.touched
            /\ r.late = run.late
        BY <2>0, Kinds, PcSets DEF Runs
      <3> QED
        BY <2>0, <3>1, <3>2
    <2>2. CASE run.external /\ Command(run).due /\ ~Accepts(Command(run).part, Command(run).to)
      <3> PICK r : r = Forgo(run)
        OBVIOUS
      <3>1. Go(r) /\ host' = host
        BY <2>2 DEF Compensate
      <3>2. r \in Runs /\ r.pc = "redoPlug" /\ r.op = run.op /\ r.plan = run.plan
            /\ r.before = run.before /\ r.queue = run.queue /\ r.swapped = run.swapped
            /\ r.aside = run.aside /\ r.fault = run.fault /\ r.touched = run.touched
            /\ r.late = run.late
        BY <2>0, Kinds, PcSets DEF Runs, Forgo
      <3> QED
        BY <2>0, <3>1, <3>2
    <2>3. CASE run.external /\ ~(Command(run).due /\ ~Accepts(Command(run).part, Command(run).to))
      <3> DEFINE b == At("redoPlug") /\ ~Restored(host')
                 f == IF At("undoPlug") THEN host.market \in Release ELSE run.found
      <3> PICK r : r = [run EXCEPT !.broken = b, !.found = f]
        OBVIOUS
      <3>1. Go([run EXCEPT !.broken = At("redoPlug") /\ ~Restored(host'),
                           !.found = IF At("undoPlug") THEN host.market \in Release ELSE @])
            /\ host' = IF Command(run).due THEN [host EXCEPT ![Command(run).part] = Command(run).to]
                       ELSE host
        BY <2>3 DEF Compensate
      <3>2. Go(r)
        BY <3>1
      <3>3. b \in BOOLEAN /\ f \in BOOLEAN
        <4>1. b \in BOOLEAN
          OBVIOUS
        <4>2. run.found \in BOOLEAN
          BY Kinds DEF Runs
        <4>3. f \in BOOLEAN
          <5>1. CASE At("undoPlug")
            <6>1. CASE host.market \in Release
              BY <5>1, <6>1
            <6>2. CASE host.market \notin Release
              BY <5>1, <6>2
            <6> QED
              BY <6>1, <6>2
          <5>2. CASE ~At("undoPlug")
            <6>1. f = run.found
              BY <5>2
            <6> QED
              BY <4>2, <6>1
          <5> QED
            BY <5>1, <5>2
        <4> QED
          BY <4>1, <4>3
      <3> HIDE DEF b, f
      <3>4. r \in Runs /\ r.pc = run.pc /\ r.op = run.op /\ r.plan = run.plan
            /\ r.before = run.before /\ r.queue = run.queue /\ r.swapped = run.swapped
            /\ r.aside = run.aside /\ r.fault = run.fault /\ r.touched = run.touched
            /\ r.late = run.late
        BY <3>3, Kinds, PcSets DEF Runs
      <3> QED
        BY <1>1, <3>1, <3>2, <3>4
    <2> QED
      BY <2>1, <2>2, <2>3
  <1>3. NextPc(r) \in RollbackSteps
    BY <1>2, NextOfRollback DEF Compensation, RollbackSteps
  <1>4. NextPc(r) \in Pcs(run.op) \ Ended
    BY <1>3, Kinds, PcSets DEF RollbackSteps, Ended, Ops
  <1>5. Moves(NextPc(r)) /\ Follows(r)
    BY <1>2, <1>4, GoLike
  <1>6. Command(run).part \in {"market", "plugin"}
        /\ [host EXCEPT ![Command(run).part] = Command(run).to] \in Hosts
    BY <1>1, CommandTypes
  <1>7. host' \in Hosts /\ \A p \in Part : p \notin {"market", "plugin"} => host'[p] = host[p]
    BY <1>2, <1>6, Kinds, HostTypes
  <1> QED
    BY <1>1, <1>2, <1>3, <1>5, <1>7 DEF Follows, Aside, Quiet, Seen

LEMMA SnapshotSkillsStep ==
  ASSUME TypeOK, SnapshotSkills
  PROVE  /\ run.pc = "snapshot" /\ host' = host /\ strays' = strays
         /\ Moves("bootstrap") /\ Aside /\ Quiet /\ Seen
  <1>1. run.pc = "snapshot" /\ host' = host /\ strays' = strays
    BY DEF SnapshotSkills, At
  <1>2. run.op = "reconcile" \/ run.op = "cutover"
    BY <1>1, Kinds DEF Ops, SyncSteps, Swapping, RollbackSteps, Ended
  <1>3. PICK r : r = [run EXCEPT !.copies = [s \in Skill |-> host[s]]]
    OBVIOUS
  <1>4. [s \in Skill |-> host[s]] \in [Skill -> Builds]
    BY Kinds, HostTypes, PartsAre
  <1>5. r \in Runs /\ r.op = run.op /\ r.plan = run.plan /\ r.before = run.before
        /\ r.pc = run.pc /\ r.queue = run.queue /\ r.swapped = run.swapped
        /\ r.aside = run.aside /\ r.fault = run.fault /\ r.touched = run.touched
        /\ r.late = run.late
    BY <1>3, <1>4, Kinds DEF Runs
  <1>6. NextPc(r) = "bootstrap"
    BY <1>1, <1>2, <1>5, NextOfReconcile, NextOfCutover
  <1>7. NextPc(r) \in Pcs(run.op) \ Ended
    BY <1>2, <1>6, PcSets DEF ReconcileSteps, CutoverSteps, Ended
  <1>8. Moves(NextPc(r)) /\ Follows(r)
    BY <1>3, <1>5, <1>7, GoLike DEF SnapshotSkills
  <1> QED
    BY <1>1, <1>5, <1>6, <1>8 DEF Follows, Aside, Quiet, Seen

LEMMA InstallSkillStep ==
  ASSUME TypeOK, InstallSkill
  PROVE  /\ run.pc \in Skill /\ strays' = strays /\ run.op # "sync" /\ host' \in Hosts
         /\ Aside /\ Quiet
         /\ \/ /\ At("bootstrap") /\ ~Inspected(run.plan) /\ host' = host
               /\ Moves("undoPlug") /\ Seen
            \/ /\ At("bootstrap") => Inspected(run.plan)
               /\ host' = [host EXCEPT ![run.pc] = host.sidecar]
               /\ Moves(IF At("bootstrap") THEN "scout" ELSE "setup")
               /\ run'.late = IF At("bootstrap") THEN run.late \ Source ELSE run.late
  <1>1. run.pc \in Skill /\ strays' = strays
    BY DEF InstallSkill
  <1>2. run.op = "reconcile" \/ run.op = "cutover"
    BY <1>1, Kinds, PartsAre DEF Ops, SyncSteps, Swapping, RollbackSteps, Ended
  <1>3. CASE At("bootstrap") /\ ~Inspected(run.plan)
    <2>1. Abort(run) /\ host' = host
      BY <1>3 DEF InstallSkill
    <2> QED
      BY <1>1, <1>2, <1>3, <2>1, AbortMoves, Kinds
  <1>4. CASE ~(At("bootstrap") /\ ~Inspected(run.plan))
    <2>1. PICK r : r = [run EXCEPT !.late = IF At("bootstrap") THEN @ \ Source ELSE @]
      OBVIOUS
    <2>2. Go(r) /\ host' = [host EXCEPT ![run.pc] = host.sidecar]
      BY <1>4, <2>1 DEF InstallSkill, Set
    <2>3. r \in Runs /\ r.op = run.op /\ r.plan = run.plan /\ r.before = run.before
          /\ r.pc = run.pc /\ r.queue = run.queue /\ r.swapped = run.swapped
          /\ r.aside = run.aside /\ r.fault = run.fault /\ r.touched = run.touched
          /\ r.late = IF At("bootstrap") THEN run.late \ Source ELSE run.late
      BY <2>1, Kinds DEF Runs
    <2>4. NextPc(r) = IF At("bootstrap") THEN "scout" ELSE "setup"
      BY <1>1, <1>2, <2>3, PartsAre, NextOfReconcile, NextOfCutover DEF At
    <2>5. NextPc(r) \in Pcs(run.op) \ Ended
      BY <1>2, <2>4, PcSets DEF ReconcileSteps, CutoverSteps, Ended
    <2>6. Moves(NextPc(r)) /\ Follows(r)
      BY <2>2, <2>3, <2>5, GoLike
    <2>7. host.sidecar \in Allowed(run.pc)
      BY <1>1, Kinds, HostTypes, PartsAre DEF Allowed
    <2>8. run.pc \in Part /\ host \in Hosts
      BY <1>1, Kinds, PartsAre
    <2>9. host' \in Hosts
      BY <2>2, <2>7, <2>8, SetKeeps
    <2> QED
      BY <1>1, <1>2, <1>4, <2>2, <2>3, <2>4, <2>6, <2>9 DEF Follows, Aside, Quiet
  <1> QED
    BY <1>3, <1>4

LEMMA SetupDoneIs ==
  ASSUME TypeOK
  PROVE  /\ SetupDone \in Hosts /\ SetupDone.core = host.sidecar
         /\ SetupDone.bind = IF run.plan.owner = None THEN host.bind ELSE host.owner
         /\ \A p \in Part : p \notin {"core", "bind"} => SetupDone[p] = host[p]
  <1>1. host \in [Part -> Values] /\ \A p \in Part : host[p] \in Allowed(p)
    BY Kinds, HostIs
  <1>2. /\ host.sidecar \in Builds /\ host.bind \in Commits /\ host.owner \in Commits
    BY Kinds, HostTypes
  <1>3. Builds \subseteq Values /\ Commits \subseteq Values
    BY DEF Builds, Commits, Values
  <1>4. /\ SetupDone \in [Part -> Values] /\ SetupDone.core = host.sidecar
        /\ SetupDone.bind = IF run.plan.owner = None THEN host.bind ELSE host.owner
        /\ \A p \in Part : p \notin {"core", "bind"} => SetupDone[p] = host[p]
    BY <1>1, <1>2, <1>3, PartsAre DEF SetupDone
  <1>5. SetupDone["core"] \in Allowed("core") /\ SetupDone["bind"] \in Allowed("bind")
    BY <1>2, <1>4 DEF Allowed
  <1>6. \A p \in Part : SetupDone[p] \in Allowed(p)
    BY <1>1, <1>4, <1>5
  <1>7. SetupDone \in Hosts
    BY <1>4, <1>6, HostIs
  <1> QED
    BY <1>4, <1>7

LEMMA SetupStep ==
  ASSUME TypeOK, Setup
  PROVE  /\ run.pc = "setup" /\ strays' = strays /\ host' = SetupDone /\ run.op # "sync"
         /\ Aside /\ Quiet /\ Seen
         /\ \/ /\ host.sidecar = run.plan.want
               /\ Moves(IF run.op = "reconcile" THEN "verify" ELSE "receipt")
            \/ host.sidecar # run.plan.want /\ Moves("undoPlug")
  <1>1. run.pc = "setup" /\ strays' = strays /\ host' = SetupDone
    BY DEF Setup, At
  <1>2. run.op = "reconcile" \/ run.op = "cutover"
    BY <1>1, Kinds DEF Ops, SyncSteps, Swapping, RollbackSteps, Ended
  <1>3. NextPc(run) = IF run.op = "reconcile" THEN "verify" ELSE "receipt"
    BY <1>1, <1>2, NextOfReconcile, NextOfCutover
  <1>4. NextPc(run) \in Pcs(run.op) \ Ended
    BY <1>2, <1>3, PcSets DEF ReconcileSteps, CutoverSteps, Ended
  <1>5. CASE host.sidecar = run.plan.want
    <2>1. Go(run)
      BY <1>5 DEF Setup
    <2> QED
      BY <1>1, <1>2, <1>3, <1>4, <1>5, <2>1, GoMoves
  <1>6. CASE host.sidecar # run.plan.want
    <2>1. Abort(run)
      BY <1>6 DEF Setup
    <2> QED
      BY <1>1, <1>2, <1>6, <2>1, AbortMoves
  <1> QED
    BY <1>5, <1>6

LEMMA VerifyStep ==
  ASSUME TypeOK, Verify
  PROVE  /\ run.pc = "verify" /\ strays' = strays /\ host' = host /\ run.op = "reconcile"
         /\ Aside /\ Quiet
         /\ \/ /\ DistributionExact(run.plan.want) /\ HostExact(run.plan.want, run.plan.owner)
               /\ Moves("receipt") /\ run'.late = run.late \intersect {"owner"}
            \/ /\ ~(DistributionExact(run.plan.want) /\ HostExact(run.plan.want, run.plan.owner))
               /\ Moves("undoPlug") /\ Seen
  <1>1. run.pc = "verify" /\ strays' = strays /\ host' = host
    BY DEF Verify, At
  <1>2. run.op = "reconcile"
    BY <1>1, Kinds DEF Ops, CutoverSteps, SyncSteps, Swapping, RollbackSteps, Ended
  <1>3. CASE DistributionExact(run.plan.want) /\ HostExact(run.plan.want, run.plan.owner)
    <2>1. PICK r : r = [run EXCEPT !.late = @ \intersect {"owner"}]
      OBVIOUS
    <2>2. r \in Runs /\ r.op = run.op /\ r.plan = run.plan /\ r.before = run.before
          /\ r.pc = run.pc /\ r.queue = run.queue /\ r.swapped = run.swapped
          /\ r.aside = run.aside /\ r.fault = run.fault /\ r.touched = run.touched
          /\ r.late = run.late \intersect {"owner"}
      BY <2>1, Kinds DEF Runs
    <2>3. NextPc(r) = "receipt"
      BY <1>1, <1>2, <2>2, NextOfReconcile
    <2>4. NextPc(r) \in Pcs(run.op) \ Ended
      BY <1>2, <2>3, PcSets DEF ReconcileSteps, Ended
    <2>5. Go(r)
      BY <1>3, <2>1 DEF Verify
    <2>6. Moves(NextPc(r)) /\ Follows(r)
      BY <2>2, <2>4, <2>5, GoLike
    <2> QED
      BY <1>1, <1>2, <1>3, <2>2, <2>3, <2>6 DEF Follows, Aside, Quiet
  <1>4. CASE ~(DistributionExact(run.plan.want) /\ HostExact(run.plan.want, run.plan.owner))
    <2>1. Abort(run)
      BY <1>4 DEF Verify
    <2> QED
      BY <1>1, <1>2, <1>4, <2>1, AbortMoves
  <1> QED
    BY <1>3, <1>4

LEMMA WriteReceiptStep ==
  ASSUME TypeOK, WriteReceipt
  PROVE  /\ run.pc = "receipt" /\ strays' = strays /\ host' = host
         /\ receipt' = [want |-> run.plan.want, owner |-> run.plan.owner]
         /\ receipt' \in [want : Release, owner : Commits]
         /\ Moves("cleanup") /\ Aside /\ Quiet /\ Seen
  <1>1. run.pc = "receipt" /\ strays' = strays /\ host' = host /\ Go(run)
        /\ receipt' = [want |-> run.plan.want, owner |-> run.plan.owner]
    BY DEF WriteReceipt, At
  <1>2. run.op = "reconcile" \/ run.op = "cutover"
    BY <1>1, Kinds DEF Ops, SyncSteps, Swapping, RollbackSteps, Ended
  <1>3. NextPc(run) = "cleanup"
    BY <1>1, <1>2, NextOfReconcile, NextOfCutover
  <1>4. NextPc(run) \in Pcs(run.op) \ Ended
    BY <1>2, <1>3, PcSets DEF ReconcileSteps, CutoverSteps, Ended
  <1>5. run.plan \in Plans
    BY <1>1, Kinds DEF Ended
  <1>6. run.plan.want \in Release /\ run.plan.owner \in Commits
    BY <1>5 DEF Plans
  <1> QED
    BY <1>1, <1>3, <1>4, <1>6, GoMoves

\* A run that ends.
LEMMA ClosedIs ==
  ASSUME NEW r \in Runs
  PROVE  /\ Closed(r) \in Runs /\ Closed(r).pc = r.pc /\ Closed(r).op = r.op
         /\ Closed(r).before = r.before /\ Closed(r).touched = r.touched
         /\ Closed(r).fault = r.fault
  <1>1. [n \in Source |-> None] \in Asides
    BY PartsAre DEF Asides, Values, Builds, Commits
  <1>2. <<>> \in Queues /\ <<>> \in Seq(Source) /\ {} \subseteq Part
    BY DEF Queues
  <1> QED
    BY <1>1, <1>2 DEF Closed, Runs

LEMMA DoneIs ==
  ASSUME NEW r \in Runs, host \in Hosts
  PROVE  Done(r) \in Runs /\ Done(r).pc = r.pc /\ Done(r).op = r.op
  <1>1. PICK s : s = Closed(r)
    OBVIOUS
  <1>2. s \in Runs /\ s.pc = r.pc /\ s.op = r.op
    BY <1>1, ClosedIs
  <1>3. Done(r) = [s EXCEPT !.before = host, !.touched = {}, !.fault = FALSE]
    BY <1>1 DEF Done
  <1> QED
    BY <1>2, <1>3 DEF Runs

LEMMA EndedPcs ==
  ASSUME NEW op \in Ops
  PROVE  Ended \subseteq Pcs(op) /\ Ended \subseteq AllPcs
  BY PcSets DEF Ops, AllPcs

LEMMA ClosedLeaves ==
  ASSUME TypeOK, NEW s \in Ended, NEW r \in Runs, r.pc = s, r.op = run.op,
         r.before = run.before, r.touched = run.touched, run' = Closed(r)
  PROVE  Leaves(s) /\ run'.fault = r.fault
  BY ClosedIs DEF Leaves

LEMMA CleanupStep ==
  ASSUME TypeOK, Cleanup
  PROVE  run.pc = "cleanup" /\ strays' = strays /\ host' = host /\ Succeeds
  <1>1. run.pc = "cleanup" /\ strays' = strays /\ host' = host
    BY DEF Cleanup, At
  <1>2. PICK r : r = [run EXCEPT !.aside = [n \in Source |-> None], !.copies = None]
    OBVIOUS
  <1>3. [n \in Source |-> None] \in Asides
    BY PartsAre DEF Asides, Values, Builds, Commits
  <1>4. r \in Runs /\ r.op = run.op /\ r.pc = run.pc
    BY <1>2, <1>3, Kinds DEF Runs
  <1>5. NextPc(r) = "done"
    BY <1>1, <1>4, Kinds, NextOfReconcile, NextOfCutover, NextOfSync DEF Ops
  <1>6. run' = Done([r EXCEPT !.pc = "done"])
    BY <1>2, <1>4, <1>5, GoIs DEF Cleanup
  <1>7. PICK s : s = [r EXCEPT !.pc = "done"]
    OBVIOUS
  <1>8. s \in Runs /\ s.pc = "done" /\ s.op = run.op
    BY <1>4, <1>7, PcSets DEF Runs, AllPcs, Ended
  <1> QED
    BY <1>1, <1>6, <1>7, <1>8, DoneIs, Kinds DEF Succeeds

LEMMA UndoSkillStep ==
  ASSUME TypeOK, UndoSkill
  PROVE  /\ run.pc \in RollbackSteps /\ strays' = strays /\ host' \in Hosts
         /\ Aside /\ Quiet /\ Seen
         /\ \E s \in RollbackSteps : Moves(s)
         /\ \A p \in Part : p \notin Skill => host'[p] = host[p]
  <1>1. run.pc \in {"undoScout", "undoBootstrap"} /\ strays' = strays /\ Go(run)
    BY DEF UndoSkill
  <1>2. NextPc(run) \in RollbackSteps
    BY <1>1, NextOfRollback DEF RollbackSteps
  <1>3. NextPc(run) \in Pcs(run.op) \ Ended
    BY <1>2, Kinds, PcSets DEF RollbackSteps, Ended, Ops
  <1>4. PICK s \in Skill : host' = IF run.copies = None THEN host
                                   ELSE [host EXCEPT ![s] = run.copies[s]]
    BY PartsAre DEF UndoSkill
  <1>5. host' \in Hosts /\ \A p \in Part : p \notin Skill => host'[p] = host[p]
    <2>1. CASE run.copies = None
      BY <1>4, <2>1, Kinds
    <2>2. CASE run.copies # None
      <3>1. run.copies \in [Skill -> Builds]
        BY <2>2, Kinds DEF Runs
      <3>2. run.copies[s] \in Allowed(s) /\ s \in Part /\ host \in Hosts
        BY <3>1, Kinds, PartsAre DEF Allowed
      <3>3. host' = [host EXCEPT ![s] = run.copies[s]]
        BY <1>4, <2>2
      <3>4. host' \in Hosts
        BY <3>2, <3>3, SetHosts
      <3> QED
        BY <3>2, <3>3, <3>4, HostTypes
    <2> QED
      BY <2>1, <2>2
  <1> QED
    BY <1>1, <1>2, <1>3, <1>5, GoMoves DEF RollbackSteps

LEMMA UndoSourcesStep ==
  ASSUME TypeOK, UndoSources
  PROVE  /\ run.pc = "undoSources" /\ strays' = strays /\ host' \in Hosts
         /\ run'.fault = run.fault
         /\ \E s \in {"undone", "broken"} : Leaves(s)
         /\ \A n \in Source : host'[n] = IF Contains(run.swapped, n) /\ run.aside[n] # "gone"
                                         THEN run.aside[n] ELSE host[n]
  <1>1. run.pc = "undoSources" /\ strays' = strays /\ Go(run)
        /\ host' = [p \in Part |-> IF Contains(run.swapped, p) /\ run.aside[p] # "gone"
                                   THEN run.aside[p] ELSE host[p]]
    BY DEF UndoSources, At
  <1>2. NextPc(run) \in {"undone", "broken"}
    BY <1>1, NextOfRollback
  <1>3. PICK r : r = [run EXCEPT !.pc = NextPc(run)]
    OBVIOUS
  <1>4. r \in Runs /\ r.pc = NextPc(run) /\ r.op = run.op /\ r.before = run.before
        /\ r.touched = run.touched /\ r.fault = run.fault
    BY <1>2, <1>3, Kinds, PcSets DEF Runs, AllPcs, Ended
  <1>5. run' = Closed(r)
    BY <1>1, <1>2, <1>3, Kinds, GoIs
  <1>6. Leaves(NextPc(run)) /\ run'.fault = run.fault
    BY <1>2, <1>4, <1>5, ClosedLeaves DEF Ended
  <1>7. host' \in Hosts
    <2>1. \A p \in Part : Contains(run.swapped, p) => p \in Source
      BY Kinds DEF Runs, Contains
    <2>2. run.aside \in Asides /\ \A p \in Part : host[p] \in Allowed(p)
      BY Kinds, HostIs DEF Runs
    <2>3. \A n \in Source : run.aside[n] # "gone" => run.aside[n] \in Allowed(n)
      BY <2>2, PartsAre DEF Asides, Allowed
    <2>4. \A p \in Part : host'[p] \in Allowed(p)
      BY <1>1, <2>1, <2>2, <2>3
    <2>5. host' \in [Part -> Values]
      BY <1>1, <2>4, AllowedIs
    <2> QED
      BY <2>4, <2>5, HostIs
  <1> QED
    BY <1>1, <1>2, <1>6, <1>7, PartsAre

-----------------------------------------------------------------------------
(* Failures, changes by others, and beginnings.                            *)

LEMMA LeftTypes ==
  ASSUME TypeOK
  PROVE  Left(run) \subseteq Release \union Owner
  <1>1. run.aside \in Asides
    BY Kinds DEF Runs
  <1> QED
    BY <1>1, PartsAre DEF Left, Asides, Builds, Commits

LEMMA FaultyIs ==
  ASSUME TypeOK
  PROVE  /\ Faulty \in Runs /\ Faulty.fault = TRUE /\ Faulty.op = run.op /\ Faulty.pc = run.pc
         /\ Faulty.plan = run.plan /\ Faulty.before = run.before
         /\ Faulty.touched = run.touched /\ Faulty.late = run.late
         /\ Faulty.queue = run.queue /\ Faulty.swapped = run.swapped
         /\ Faulty.aside = run.aside /\ Faulty.external = run.external
  BY Kinds DEF Faulty, Runs

LEMMA StepFailsStep ==
  ASSUME TypeOK, QueueFits, StepFails
  PROVE  /\ Running /\ run.pc \notin RollbackSteps \union {"cleanup"} /\ strays' = strays
         /\ host' \in Hosts /\ Moves("undoPlug") /\ Aside /\ Seen
         /\ run'.fault /\ run'.touched = run.touched
         /\ \A n \in Source : ~Contains(run.swapped, n) => host'[n] = host[n]
  <1>1. run.pc \in (Steps(Order[run.op]) \union Swapping) \ {"cleanup"} /\ strays' = strays
        /\ Abort([Faulty EXCEPT !.external = @ \/ run.pc \in Commands])
    BY DEF StepFails
  <1>2. run.pc \in (ReconcileSteps \union Swapping) \ {"cleanup"}
    BY <1>1, StepSets, Kinds DEF Ops, ReconcileSteps, CutoverSteps, SyncSteps
  <1>3. Running /\ run.pc \notin RollbackSteps \union {"cleanup"} /\ run.plan \in Plans
    BY <1>2, Kinds DEF Running, Ended, RollbackSteps, ReconcileSteps, Swapping
  <1>4. Moves("undoPlug") /\ Aside /\ Seen /\ run'.fault /\ run'.touched = run.touched
    <2>1. PICK x : x = (Faulty.external \/ run.pc \in Commands)
      OBVIOUS
    <2>2. x \in BOOLEAN
      <3>1. Faulty.external \in BOOLEAN
        BY FaultyIs DEF Runs
      <3> QED
        BY <2>1, <3>1
    <2>3. PICK r : r = [Faulty EXCEPT !.external = x]
      OBVIOUS
    <2>4. Abort(r)
      BY <1>1, <2>1, <2>3
    <2>5. r \in Runs /\ r.op = run.op /\ r.plan = run.plan /\ r.before = run.before
          /\ r.queue = run.queue /\ r.swapped = run.swapped /\ r.aside = run.aside
          /\ r.fault = TRUE /\ r.touched = run.touched /\ r.late = run.late
      BY <2>2, <2>3, FaultyIs DEF Runs
    <2>6. Moves("undoPlug") /\ Follows(r)
      BY <2>4, <2>5, AbortLike
    <2> QED
      BY <2>5, <2>6 DEF Follows, Aside, Seen
  <1>5. host' \in Hosts /\ \A n \in Source : ~Contains(run.swapped, n) => host'[n] = host[n]
    <2>1. CASE host' = host
      BY <2>1, Kinds
    <2>2. CASE At("place") /\ Set(Head(run.queue), Want(run.plan, Head(run.queue)))
      <3>1. PICK n : n = Head(run.queue)
        OBVIOUS
      <3>2. n \in Source /\ n \in Part /\ Contains(run.swapped, n)
        BY <2>2, <3>1, Kinds, QueueFacts, PartsAre DEF QueueFits, Runs
      <3>3. host' = [host EXCEPT ![n] = Want(run.plan, n)]
        BY <2>2, <3>1 DEF Set
      <3>4. Want(run.plan, n) \in Allowed(n)
        BY <1>3, <3>2, PartsAre DEF Want, Plans, Allowed, Builds
      <3>5. host' \in Hosts
        BY <3>2, <3>3, <3>4, Kinds, SetHosts
      <3> QED
        BY <3>2, <3>3, <3>5, Kinds, HostTypes, PartsAre
    <2>3. CASE run.pc \in Commands /\ Set(Command(run).part, Command(run).to)
      <3>1. host' = [host EXCEPT ![Command(run).part] = Command(run).to]
        BY <2>3 DEF Set
      <3>2. host' \in Hosts /\ Command(run).part \notin Source
        BY <2>3, <3>1, CommandTypes, PartsAre
      <3> QED
        BY <3>1, <3>2, Kinds, HostTypes, PartsAre
    <2>4. CASE host' = SetupDone
      BY <2>4, SetupDoneIs, PartsAre
    <2> QED
      BY <2>1, <2>2, <2>3, <2>4 DEF StepFails
  <1> QED
    BY <1>1, <1>3, <1>4, <1>5

LEMMA CleanupFailsStep ==
  ASSUME TypeOK, CleanupFails
  PROVE  /\ run.pc = "cleanup" /\ host' = host
         /\ \/ /\ run.op = "sync" /\ strays' = strays /\ Moves("undoPlug")
               /\ run'.queue = run.queue /\ run'.swapped = run.swapped
               /\ run'.fault /\ run'.touched = run.touched
            \/ Succeeds /\ strays' = strays \union Left(run)
  <1>1. run.pc = "cleanup" /\ host' = host
    BY DEF CleanupFails, At
  <1>2. CASE run.op = "sync"
    <2>1. PICK n \in ToSet(run.swapped) :
            Abort([Faulty EXCEPT !.aside = [k \in Source |->
                    IF k # n /\ run.aside[k] # None THEN "gone" ELSE run.aside[k]]])
      BY <1>2 DEF CleanupFails
    <2>2. PICK a : a = [k \in Source |->
                          IF k # n /\ run.aside[k] # None THEN "gone" ELSE run.aside[k]]
      OBVIOUS
    <2>3. run.aside \in Asides
      BY Kinds DEF Runs
    <2>4. a \in Asides
      BY <2>2, <2>3, PartsAre DEF Asides
    <2>5. PICK r : r = [Faulty EXCEPT !.aside = a]
      OBVIOUS
    <2>6. Abort(r)
      BY <2>1, <2>2, <2>5
    <2>7. r \in Runs /\ r.op = run.op /\ r.plan = run.plan /\ r.before = run.before
          /\ r.queue = run.queue /\ r.swapped = run.swapped
          /\ r.fault = TRUE /\ r.touched = run.touched
      BY <2>4, <2>5, FaultyIs DEF Runs
    <2>8. Moves("undoPlug") /\ Follows(r)
      BY <2>6, <2>7, AbortLike
    <2>9. strays' = strays
      BY <1>2 DEF CleanupFails
    <2> QED
      BY <1>1, <1>2, <2>7, <2>8, <2>9 DEF Follows
  <1>3. CASE run.op # "sync"
    <2>1. PICK r : r = [run EXCEPT !.pc = "done"]
      OBVIOUS
    <2>2. r \in Runs /\ r.pc = "done" /\ r.op = run.op
      BY <2>1, Kinds, PcSets DEF Runs, AllPcs, Ended
    <2>3. run' = Done(r) /\ strays' = strays \union Left(run)
      BY <1>3, <2>1 DEF CleanupFails
    <2> QED
      BY <1>1, <2>2, <2>3, DoneIs, Kinds DEF Succeeds
  <1> QED
    BY <1>2, <1>3

LEMMA UndoFailsStep ==
  ASSUME TypeOK, UndoFails
  PROVE  /\ run.pc \in RollbackSteps /\ host' = host /\ run'.fault
         /\ \/ /\ \E s \in RollbackSteps : Moves(s)
               /\ Aside /\ run'.touched = run.touched /\ Seen /\ strays' = strays
            \/ Leaves("broken") /\ strays' = strays \union Left(run)
  <1>1. run.pc \in RollbackSteps /\ host' = host
    BY StepSets DEF UndoFails
  <1>2. CASE run.pc \in Compensation
    <2>1. PICK r : r = Forgo(Faulty)
      OBVIOUS
    <2>2. "redoPlug" \in AllPcs
      BY DEF AllPcs, RollbackSteps
    <2>3. r \in Runs /\ r.pc = "redoPlug" /\ r.op = run.op /\ r.plan = run.plan
          /\ r.before = run.before /\ r.queue = run.queue /\ r.swapped = run.swapped
          /\ r.aside = run.aside /\ r.fault = TRUE /\ r.touched = run.touched
          /\ r.late = run.late
      BY <2>1, <2>2, FaultyIs, PcSets DEF Runs, Forgo
    <2>4. NextPc(r) = "undoScout"
      BY <2>3, NextOfRollback
    <2>5. NextPc(r) \in Pcs(run.op) \ Ended
      BY <2>4, Kinds, PcSets DEF RollbackSteps, Ended, Ops
    <2>6. Go(r) /\ strays' = strays
      BY <1>2, <2>1 DEF UndoFails
    <2>7. Moves("undoScout") /\ Follows(r)
      BY <2>3, <2>4, <2>5, <2>6, GoLike
    <2>8. "undoScout" \in RollbackSteps
      BY DEF RollbackSteps
    <2> QED
      BY <1>1, <2>3, <2>6, <2>7, <2>8 DEF Follows, Aside, Seen
  <1>3. CASE run.pc \notin Compensation
    <2>1. PICK r : r = [Faulty EXCEPT !.pc = "broken"]
      OBVIOUS
    <2>2. r \in Runs /\ r.pc = "broken" /\ r.op = run.op /\ r.before = run.before
          /\ r.touched = run.touched /\ r.fault = TRUE
      BY <2>1, FaultyIs, PcSets DEF Runs, AllPcs, Ended
    <2>3. run' = Closed(r) /\ strays' = strays \union Left(run)
      BY <1>3, <2>1 DEF UndoFails
    <2>4. "broken" \in Ended
      BY DEF Ended
    <2>5. Leaves("broken") /\ run'.fault = r.fault
      BY <2>2, <2>3, <2>4, ClosedLeaves
    <2> QED
      BY <1>1, <2>2, <2>3, <2>5
  <1> QED
    BY <1>2, <1>3

LEMMA CrashStep ==
  ASSUME TypeOK, Crash
  PROVE  /\ Running /\ Leaves("crashed") /\ strays' = strays \union Left(run)
         /\ host' \in Hosts /\ \A n \in Source : host'[n] = host[n]
  <1>1. Running /\ strays' = strays \union Left(run)
    BY DEF Crash
  <1>2. PICK r : r = [run EXCEPT !.pc = "crashed"]
    OBVIOUS
  <1>3. r \in Runs /\ r.pc = "crashed" /\ r.op = run.op /\ r.before = run.before
        /\ r.touched = run.touched
    BY <1>2, Kinds, PcSets DEF Runs, AllPcs, Ended
  <1>4. run' = Closed(r) /\ "crashed" \in Ended
    BY <1>2 DEF Crash, Ended
  <1>5. Leaves("crashed")
    BY <1>3, <1>4, ClosedLeaves
  <1>6. host' \in Hosts /\ \A n \in Source : host'[n] = host[n]
    <2>1. CASE host' = host
      BY <2>1, Kinds
    <2>2. CASE run.pc \in Skill /\ Set(run.pc, None)
      <3>1. host' = [host EXCEPT ![run.pc] = None] /\ run.pc \in Part /\ run.pc \notin Source
        BY <2>2, PartsAre DEF Set
      <3>2. None \in Allowed(run.pc)
        BY <2>2, PartsAre DEF Allowed, Builds
      <3>3. host' \in Hosts
        BY <3>1, <3>2, Kinds, SetHosts
      <3> QED
        BY <3>1, <3>3, Kinds, HostTypes, PartsAre
    <2> QED
      BY <2>1, <2>2 DEF Crash
  <1> QED
    BY <1>1, <1>5, <1>6

\* Others change one part, and a run that has not succeeded is told.
LEMMA OutsideStep ==
  ASSUME TypeOK, Outside
  PROVE  /\ strays' = strays /\ host' \in Hosts /\ run' \in Runs /\ run'.pc = run.pc /\ Kept
         /\ Aside /\ run'.fault = run.fault
         /\ \E p \in {"market", "plugin", "owner"} \union Skill :
              /\ \A q \in Part : q # p => host'[q] = host[q]
              /\ p = "owner" => host.owner # None
              /\ run.pc # "done" => run'.touched = run.touched \union {p}
              /\ Running => run'.late = run.late \union {p}
  <1>1. strays' = strays
    BY DEF Outside
  <1>2. PICK p, v :
          /\ p \in {"market", "plugin", "owner"} \union Skill /\ v \in Allowed(p)
          /\ host' = [host EXCEPT ![p] = v] /\ (p = "owner" => host.owner # None)
          /\ run' = IF Running THEN [run EXCEPT !.touched = @ \union {p}, !.late = @ \union {p}]
                    ELSE IF At("done") THEN run ELSE [run EXCEPT !.touched = @ \union {p}]
    <2>1. PICK p \in {"market", "plugin", "owner"} \union Skill :
            /\ \/ p = "market" /\ \E v \in Observable(p) : Set(p, v)
               \/ p = "plugin" /\ \E v \in Observable(p) \ Release : Set(p, v)
               \/ p = "owner" /\ host.owner # None /\ \E v \in Owner : Set(p, v)
               \/ p \in Skill /\ \E v \in Release \union {None} : Set(p, v)
            /\ run' = IF Running
                      THEN [run EXCEPT !.touched = @ \union {p}, !.late = @ \union {p}]
                      ELSE IF At("done") THEN run ELSE [run EXCEPT !.touched = @ \union {p}]
      BY DEF Outside
    <2>2. CASE p = "market" /\ \E v \in Observable(p) : Set(p, v)
      BY <2>1, <2>2 DEF Set, Allowed, Observable, Checkouts
    <2>3. CASE p = "plugin" /\ \E v \in Observable(p) \ Release : Set(p, v)
      BY <2>1, <2>3 DEF Set, Allowed, Observable, Checkouts
    <2>4. CASE p = "owner" /\ host.owner # None /\ \E v \in Owner : Set(p, v)
      BY <2>1, <2>4 DEF Set, Allowed, Commits
    <2>5. CASE p \in Skill /\ \E v \in Release \union {None} : Set(p, v)
      BY <2>1, <2>5, PartsAre DEF Set, Allowed, Builds
    <2> QED
      BY <2>1, <2>2, <2>3, <2>4, <2>5
  <1>3. p \in Part
    BY <1>2, PartsAre
  <1>4. host' \in Hosts /\ \A q \in Part : q # p => host'[q] = host[q]
    BY <1>2, <1>3, Kinds, SetHosts, HostTypes
  <1>5. CASE Running
    <2>1. run' = [run EXCEPT !.touched = @ \union {p}, !.late = @ \union {p}]
      BY <1>2, <1>5
    <2>2. run' \in Runs /\ run'.pc = run.pc /\ Kept /\ Aside /\ run'.fault = run.fault
          /\ run'.touched = run.touched \union {p} /\ run'.late = run.late \union {p}
      BY <1>3, <2>1, Kinds DEF Runs, Kept, Aside
    <2> QED
      BY <1>1, <1>2, <1>4, <2>2
  <1>6. CASE ~Running /\ ~At("done")
    <2>1. run' = [run EXCEPT !.touched = @ \union {p}]
      BY <1>2, <1>6
    <2>2. run' \in Runs /\ run'.pc = run.pc /\ Kept /\ Aside /\ run'.fault = run.fault
          /\ run'.touched = run.touched \union {p}
      BY <1>3, <2>1, Kinds DEF Runs, Kept, Aside
    <2> QED
      BY <1>1, <1>2, <1>4, <1>6, <2>2
  <1>7. CASE ~Running /\ At("done")
    <2>1. run' = run /\ run.pc = "done"
      BY <1>2, <1>7 DEF At
    <2> QED
      BY <1>1, <1>2, <1>4, <1>7, <2>1, Kinds DEF Kept, Aside
  <1> QED
    BY <1>5, <1>6, <1>7

LEMMA PlanTypes ==
  ASSUME TypeOK, NEW want \in Release, NEW spec \in Commits
  PROVE  /\ PlanOf(want, spec) \in Plans /\ PlanOf(want, spec).want = want
         /\ PlanOf(want, spec).spec = spec
         /\ PlanOf(want, spec).owner = IF spec = None THEN host.owner ELSE spec
         /\ PlanOf(want, spec).market = host.market /\ PlanOf(want, spec).plugin = host.plugin
         /\ \A n \in Source : PlanOf(want, spec).sources[n] = host[n]
  <1>1. host \in Hosts
    BY Kinds
  <1>2. SourcePlan \in [Source -> Values] /\ \A n \in Source : SourcePlan[n] = host[n]
    BY <1>1, HostTypes, PartsAre DEF SourcePlan
  <1>3. DesiredOwner(spec) \in Commits
        /\ DesiredOwner(spec) = IF spec = None THEN host.owner ELSE spec
    BY <1>1, HostTypes DEF DesiredOwner
  <1>4. PICK e \in BOOLEAN :
          PlanOf(want, spec) = [want |-> want, spec |-> spec, owner |-> DesiredOwner(spec),
                                market |-> host.market, plugin |-> host.plugin,
                                sources |-> SourcePlan, exact |-> e]
    <2>1. PICK e : e = ((host.sidecar = want /\ host.owner = DesiredOwner(spec))
                          /\ HostExact(want, DesiredOwner(spec)))
      OBVIOUS
    <2>2. e \in BOOLEAN
      BY <2>1
    <2> QED
      BY <2>1, <2>2 DEF PlanOf
  <1> QED
    BY <1>1, <1>2, <1>3, <1>4, HostTypes DEF Plans

LEMMA FirstStep ==
  ASSUME NEW op \in Ops
  PROVE  Order[op][1] = "clone" /\ "clone" \in Pcs(op) /\ "clone" \in AllPcs
  <1>1. Order[op][1] = "clone"
    BY ReconcileOrder, CutoverOrder, SyncOrder DEF Ops
  <1> QED
    BY <1>1, PcSets DEF Ops, AllPcs, ReconcileSteps, CutoverSteps, SyncSteps

\* What a run begins with.
Starts == /\ ~Running /\ host' = host /\ strays' = strays
          /\ run' \in Runs /\ run'.pc = "clone" /\ "clone" \in Pcs(run'.op)
          /\ run'.plan \in Plans /\ run'.queue = <<>> /\ run'.swapped = <<>>
          /\ run'.fault = FALSE /\ run'.touched = {} /\ run'.before = host
          /\ run'.plan.market = host.market /\ run'.plan.plugin = host.plugin
          /\ \A n \in Source : run'.plan.sources[n] = host[n]
          /\ run'.op # "sync" =>
               /\ run'.plan.owner = IF run'.plan.spec = None THEN host.owner ELSE run'.plan.spec
               /\ run'.plan.spec = None => host.owner = host.bind

LEMMA StartedIs ==
  ASSUME TypeOK, NEW op \in Ops, NEW p \in Plans, run' = Started(op, p)
  PROVE  /\ run' \in Runs /\ run'.pc = "clone" /\ run'.op = op /\ run'.plan = p
         /\ run'.queue = <<>> /\ run'.swapped = <<>>
         /\ run'.fault = FALSE /\ run'.touched = {} /\ run'.before = host
  <1>1. [n \in Source |-> None] \in Asides
    BY PartsAre DEF Asides, Values, Builds, Commits
  <1>2. <<>> \in Queues /\ <<>> \in Seq(Source) /\ {} \subseteq Part
    BY DEF Queues
  <1>3. Order[op][1] = "clone" /\ "clone" \in AllPcs
    BY FirstStep
  <1> QED
    BY <1>1, <1>2, <1>3, Kinds, PcSets DEF Started, Runs

LEMMA ApplyStep ==
  ASSUME TypeOK, NEW op \in {"reconcile", "cutover"}, Apply(op)
  PROVE  Starts
  <1>1. /\ shown # None /\ ~Ambiguous(shown.spec) /\ ~Running /\ host' = host /\ strays' = strays
        /\ run' = Started(op, PlanOf(shown.want, shown.spec))
    BY DEF Apply, Begin
  <1>2. shown.want \in Release /\ shown.spec \in Commits
    BY <1>1 DEF TypeOK, Plans
  <1>3. PICK p : p = PlanOf(shown.want, shown.spec)
    OBVIOUS
  <1>4. /\ p \in Plans /\ p.spec = shown.spec
        /\ p.owner = IF shown.spec = None THEN host.owner ELSE shown.spec
        /\ p.market = host.market /\ p.plugin = host.plugin
        /\ \A n \in Source : p.sources[n] = host[n]
    BY <1>2, <1>3, PlanTypes
  <1>5. op \in Ops /\ run' = Started(op, p)
    BY <1>1, <1>3 DEF Ops
  <1>6. /\ run' \in Runs /\ run'.pc = "clone" /\ run'.op = op /\ run'.plan = p
        /\ run'.queue = <<>> /\ run'.swapped = <<>>
        /\ run'.fault = FALSE /\ run'.touched = {} /\ run'.before = host
    BY <1>4, <1>5, StartedIs
  <1>7. shown.spec = None => host.owner = host.bind
    BY <1>1 DEF Ambiguous
  <1> QED
    BY <1>1, <1>4, <1>5, <1>6, <1>7, FirstStep DEF Starts

LEMMA SyncStep ==
  ASSUME TypeOK, NEW want \in Release, NEW spec \in Commits, Sync(want, spec)
  PROVE  Starts
  <1>1. ~Running /\ host' = host /\ strays' = strays
        /\ run' = Started("sync", [PlanOf(want, spec) EXCEPT !.owner = spec])
    BY DEF Sync, Begin
  <1>2. PICK p : p = [PlanOf(want, spec) EXCEPT !.owner = spec]
    OBVIOUS
  <1>3. PICK f : f = PlanOf(want, spec)
    OBVIOUS
  <1>4. /\ f \in Plans /\ f.market = host.market /\ f.plugin = host.plugin
        /\ \A n \in Source : f.sources[n] = host[n]
    BY <1>3, PlanTypes
  <1>5. p = [f EXCEPT !.owner = spec]
    BY <1>2, <1>3
  <1>6. /\ p \in Plans /\ p.market = host.market /\ p.plugin = host.plugin
        /\ \A n \in Source : p.sources[n] = host[n]
    BY <1>4, <1>5 DEF Plans
  <1>7. "sync" \in Ops /\ run' = Started("sync", p)
    BY <1>1, <1>2 DEF Ops
  <1>8. /\ run' \in Runs /\ run'.pc = "clone" /\ run'.op = "sync" /\ run'.plan = p
        /\ run'.queue = <<>> /\ run'.swapped = <<>>
        /\ run'.fault = FALSE /\ run'.touched = {} /\ run'.before = host
    BY <1>6, <1>7, StartedIs
  <1> QED
    BY <1>1, <1>6, <1>7, <1>8, FirstStep DEF Starts

-----------------------------------------------------------------------------
(* Types, and the queue of checkouts.                                      *)

RunTyped == /\ host' \in Hosts /\ strays' \subseteq Release \union Owner
            /\ run' \in Runs /\ run'.pc \in Pcs(run'.op)
            /\ run'.pc \notin Ended => run'.plan \in Plans

LEMMA MovesTyped ==
  ASSUME TypeOK, run.pc \notin Ended, NEW s, Moves(s), host' \in Hosts,
         strays' \subseteq Release \union Owner
  PROVE  RunTyped
  BY Kinds DEF Moves, Kept, RunTyped

LEMMA EndsTyped ==
  ASSUME TypeOK, run' \in Runs, run'.pc \in Ended, run'.op = run.op, host' \in Hosts,
         strays' \subseteq Release \union Owner
  PROVE  RunTyped
  BY Kinds, EndedPcs DEF RunTyped

\* The steps that write nothing of the rest.
Plain == \/ Clone \/ MoveAside \/ Place \/ Recheck \/ Distribute \/ SnapshotSkills
         \/ InstallSkill \/ Setup \/ Verify \/ Cleanup \/ Compensate \/ UndoSkill \/ UndoSources
Troubled == StepFails \/ CleanupFails \/ UndoFails \/ Crash \/ Outside

LEMMA NextCases ==
  ASSUME Next
  PROVE  \/ \E want \in Release, spec \in Commits : Inspect(want, spec)
         \/ \E want \in Release, spec \in Commits : Sync(want, spec)
         \/ \E op \in {"reconcile", "cutover"} : Apply(op)
         \/ Plain \/ WriteReceipt \/ Troubled
  BY DEF Next, Work, Plain, Troubled, Commits

LEMMA InspectStep ==
  ASSUME TypeOK, NEW want \in Release, NEW spec \in Commits, Inspect(want, spec)
  PROVE  /\ UNCHANGED <<host, run, strays, receipt, count>> /\ shown' \in Plans
  BY PlanTypes DEF Inspect

LEMMA RestTyped ==
  ASSUME TypeOK, Next
  PROVE  /\ shown' \in Plans \union {None}
         /\ receipt' \in [want : Release, owner : Commits] \union {None}
         /\ count' \in [run : Nat, trouble : Nat]
  <1>1. /\ shown \in Plans \union {None} /\ count \in [run : Nat, trouble : Nat]
        /\ receipt \in [want : Release, owner : Commits] \union {None}
    BY DEF TypeOK
  <1>2. ASSUME NEW want \in Release, NEW spec \in Commits, Inspect(want, spec)
        PROVE  shown' \in Plans /\ receipt' = receipt /\ count' = count
    BY <1>2, InspectStep
  <1>3. ASSUME count' = [count EXCEPT !.run = @ + 1] PROVE count' \in [run : Nat, trouble : Nat]
    BY <1>1, <1>3
  <1>4. ASSUME NEW want \in Release, NEW spec \in Commits, Sync(want, spec)
        PROVE  shown' = None /\ receipt' = receipt /\ count' \in [run : Nat, trouble : Nat]
    BY <1>3, <1>4 DEF Sync, Begin
  <1>5. ASSUME NEW op \in {"reconcile", "cutover"}, Apply(op)
        PROVE  shown' = None /\ receipt' = receipt /\ count' \in [run : Nat, trouble : Nat]
    BY <1>3, <1>5 DEF Apply, Begin
  <1>6. ASSUME Plain PROVE shown' = shown /\ receipt' = receipt /\ count' = count
    BY <1>6 DEF Plain, Clone, MoveAside, Place, Recheck, Distribute, SnapshotSkills, InstallSkill,
                Setup, Verify, Cleanup, Compensate, UndoSkill, UndoSources
  <1>7. ASSUME WriteReceipt
        PROVE  /\ shown' = shown /\ count' = count
               /\ receipt' \in [want : Release, owner : Commits]
    BY <1>7, WriteReceiptStep DEF WriteReceipt
  <1>8. ASSUME Troubled PROVE Trouble
    BY <1>8 DEF Troubled, StepFails, CleanupFails, UndoFails, Crash, Outside
  <1>9. ASSUME Trouble
        PROVE  shown' = shown /\ receipt' = receipt /\ count' \in [run : Nat, trouble : Nat]
    BY <1>1, <1>9 DEF Trouble
  <1> QED
    BY <1>1, <1>2, <1>4, <1>5, <1>6, <1>7, <1>8, <1>9, NextCases

LEMMA PlainTyped ==
  ASSUME TypeOK, QueueFits, Plain
  PROVE  RunTyped
  <1>1. host \in Hosts /\ strays \subseteq Release \union Owner
    BY DEF TypeOK
  <1>2. CASE Clone
    BY <1>1, <1>2, CloneStep, MovesTyped DEF At, Ended
  <1>3. CASE MoveAside
    <2>1. run.queue # <<>>
      BY <1>3 DEF QueueFits, MoveAside
    <2> QED
      BY <1>1, <1>3, <2>1, MoveAsideStep, MovesTyped DEF Ended
  <1>4. CASE Place
    <2>1. run.queue # <<>>
      BY <1>4 DEF QueueFits, Place
    <2> QED
      BY <1>1, <1>4, <2>1, PlaceStep, MovesTyped DEF Ended
  <1>5. CASE Recheck
    BY <1>1, <1>5, RecheckStep, MovesTyped DEF Ended
  <1>6. CASE Distribute
    BY <1>1, <1>6, DistributeStep, MovesTyped DEF Ended, Commands
  <1>7. CASE SnapshotSkills
    BY <1>1, <1>7, SnapshotSkillsStep, MovesTyped DEF Ended
  <1>8. CASE InstallSkill
    BY <1>1, <1>8, InstallSkillStep, MovesTyped, PartsAre DEF Ended
  <1>9. CASE Setup
    BY <1>1, <1>9, SetupStep, SetupDoneIs, MovesTyped DEF Ended
  <1>10. CASE Verify
    BY <1>1, <1>10, VerifyStep, MovesTyped DEF Ended
  <1>11. CASE Cleanup
    BY <1>1, <1>11, CleanupStep, EndsTyped DEF Succeeds, Ended
  <1>12. CASE Compensate
    BY <1>1, <1>12, CompensateStep, MovesTyped DEF Ended, Compensation
  <1>13. CASE UndoSkill
    BY <1>1, <1>13, UndoSkillStep, MovesTyped DEF Ended, RollbackSteps
  <1>14. CASE UndoSources
    BY <1>1, <1>14, UndoSourcesStep, EndsTyped DEF Leaves, Ended
  <1> QED
    BY <1>2, <1>3, <1>4, <1>5, <1>6, <1>7, <1>8, <1>9, <1>10, <1>11, <1>12, <1>13, <1>14 DEF Plain

LEMMA TroubledTyped ==
  ASSUME TypeOK, QueueFits, Troubled
  PROVE  RunTyped
  <1>1. host \in Hosts /\ strays \subseteq Release \union Owner
        /\ strays \union Left(run) \subseteq Release \union Owner
    BY LeftTypes DEF TypeOK
  <1>2. CASE StepFails
    BY <1>1, <1>2, StepFailsStep, MovesTyped DEF Running
  <1>3. CASE CleanupFails
    BY <1>1, <1>3, CleanupFailsStep, MovesTyped, EndsTyped DEF Ended, Succeeds
  <1>4. CASE UndoFails
    BY <1>1, <1>4, UndoFailsStep, MovesTyped, EndsTyped DEF Ended, Leaves, RollbackSteps
  <1>5. CASE Crash
    BY <1>1, <1>5, CrashStep, EndsTyped DEF Ended, Leaves
  <1>6. CASE Outside
    BY <1>1, <1>6, OutsideStep, Kinds DEF Kept, RunTyped, TypeOK, Running
  <1> QED
    BY <1>2, <1>3, <1>4, <1>5, <1>6 DEF Troubled

LEMMA StartsTyped ==
  ASSUME TypeOK, Starts
  PROVE  RunTyped
  BY DEF Starts, RunTyped, TypeOK

LEMMA TypeKept ==
  ASSUME TypeOK, QueueFits, [Next]_vars
  PROVE  TypeOK'
  <1>1. CASE UNCHANGED vars
    BY <1>1 DEF TypeOK, vars, Running
  <1>2. CASE Next
    <2>1. RunTyped
      <3>1. CASE \E want \in Release, spec \in Commits : Inspect(want, spec)
        BY <3>1, InspectStep DEF RunTyped, TypeOK, Running
      <3>2. CASE WriteReceipt
        BY <3>2, WriteReceiptStep, MovesTyped DEF Ended, TypeOK
      <3> QED
        BY <1>2, <3>1, <3>2, NextCases, SyncStep, ApplyStep, StartsTyped, PlainTyped, TroubledTyped
    <2> QED
      BY <1>2, <2>1, RestTyped DEF RunTyped, TypeOK, Running
  <1> QED
    BY <1>1, <1>2

LEMMA InitTyped ==
  ASSUME Init
  PROVE  TypeOK /\ QueueFits
  <1>1. PICK r \in Release, o \in Commits :
          \/ host = [p \in Part |-> None]
          \/ \E m \in {r, None} :
               host = [p \in Part |-> IF p \in {"owner", "bind"} THEN o
                                     ELSE IF p \in {"market", "plugin"} THEN m ELSE r]
    BY DEF Init, Commits
  <1>2. /\ shown = None /\ strays = {} /\ receipt = None /\ count = [run |-> 0, trouble |-> 0]
        /\ run = [op |-> "sync", plan |-> None, pc |-> "done", queue |-> <<>>, swapped |-> <<>>,
                  aside |-> [n \in Source |-> None], copies |-> None, external |-> FALSE,
                  found |-> FALSE, fault |-> FALSE, broken |-> FALSE, touched |-> {},
                  late |-> {}, before |-> host]
    BY DEF Init
  <1>3. \A p \in Part : host[p] \in Allowed(p)
    <2>1. CASE host = [p \in Part |-> None]
      BY <2>1 DEF Allowed, Commits, Builds, Checkouts
    <2>2. ASSUME NEW m \in {r, None},
                 host = [p \in Part |-> IF p \in {"owner", "bind"} THEN o
                                       ELSE IF p \in {"market", "plugin"} THEN m ELSE r]
          PROVE  \A p \in Part : host[p] \in Allowed(p)
      BY <2>2, PartsAre DEF Allowed, Commits, Builds, Checkouts
    <2> QED
      BY <1>1, <2>1, <2>2
  <1>4. host \in [Part -> Values]
    <2>1. CASE host = [p \in Part |-> None]
      BY <2>1 DEF Values
    <2>2. ASSUME NEW m \in {r, None},
                 host = [p \in Part |-> IF p \in {"owner", "bind"} THEN o
                                       ELSE IF p \in {"market", "plugin"} THEN m ELSE r]
          PROVE  host \in [Part -> Values]
      BY <2>2 DEF Values, Commits
    <2> QED
      BY <1>1, <2>1, <2>2
  <1>5. host \in Hosts
    BY <1>3, <1>4, HostIs
  <1>6. [n \in Source |-> None] \in Asides
    BY PartsAre DEF Asides, Values, Builds, Commits
  <1>7. <<>> \in Queues /\ <<>> \in Seq(Source) /\ {} \subseteq Part
    BY DEF Queues
  <1>8. "sync" \in Ops /\ "done" \in AllPcs /\ "done" \in Pcs("sync")
    BY PcSets DEF Ops, AllPcs, Ended
  <1>9. run \in Runs
    BY <1>2, <1>5, <1>6, <1>7, <1>8, PcSets DEF Runs
  <1>10. run.pc = "done" /\ run.op = "sync"
    BY <1>2
  <1> QED
    BY <1>2, <1>5, <1>8, <1>9, <1>10 DEF TypeOK, QueueFits, Running, At, Ended

LEMMA QueueMoves ==
  ASSUME TypeOK, QueueFits, run.pc \notin Ended, NEW s, Moves(s),
         s \notin Swapping \union {"clone"},
         run'.queue = run.queue, run'.swapped = run.swapped
  PROVE  QueueFits'
  BY DEF QueueFits, Moves, Kept, At, Running, Swapping

LEMMA QueueEnds ==
  ASSUME run'.pc \in Ended
  PROVE  QueueFits'
  BY DEF QueueFits, At, Running, Ended

LEMMA QueueKept ==
  ASSUME TypeOK, QueueFits, [Next]_vars
  PROVE  QueueFits'
  <1>1. CASE run' = run
    BY <1>1 DEF QueueFits, At, Running
  <1>2. CASE Clone
    <2>1. \A n \in Source : n = "sidecar" \/ n = "owner"
      BY PartsAre
    <2>2. run'.queue \in Queues /\ run'.swapped = <<>> /\ run.plan = run'.plan
      BY <1>2, CloneStep DEF QueueFits, Moves, Kept
    <2>3. \A n : ~Contains(run'.swapped, n)
      BY <2>2, QueueHolds
    <2>4. run'.pc \in {"aside", "cleanup", "recheck"}
          /\ (run'.pc = "aside" => run'.queue # <<>>)
      BY <1>2, CloneStep DEF Moves
    <2>5. run'.plan.spec = None => ~Contains(run'.queue, "owner")
      BY <1>2, <2>2, CloneStep
    <2> QED
      BY <2>3, <2>4, <2>5 DEF QueueFits, At
  <1>3. CASE MoveAside
    <2>1. run.queue # <<>> /\ run.pc \notin Ended
      BY <1>3 DEF QueueFits, MoveAside, At, Ended
    <2>2. CASE host' = host /\ Moves("undoPlug") /\ Aside
      BY <2>1, <2>2, QueueMoves DEF Aside, Swapping
    <2>3. PICK n : n = Head(run.queue)
      OBVIOUS
    <2>4. CASE Moves("place") /\ run'.queue = run.queue /\ run'.swapped = Append(run.swapped, n)
      <3>1. n \in Source /\ run.swapped \in Seq(Source) /\ run.queue \in Queues
        BY <1>3, <2>1, <2>3, MoveAsideStep, Kinds DEF Runs
      <3>2. \A m : Contains(run'.swapped, m) <=> Contains(run.swapped, m) \/ m = n
        BY <2>4, <3>1, AppendFacts
      <3>3. /\ ~Contains(Tail(run.queue), n) /\ Contains(run.queue, n)
            /\ \A m \in Source : Contains(Tail(run.queue), m) => Contains(run.queue, m)
        BY <2>1, <2>3, <3>1, QueueFacts
      <3>4. \A m \in Source : Contains(run.queue, m) => ~Contains(run.swapped, m)
        BY <1>3 DEF QueueFits, MoveAside
      <3>5. run'.pc = "place" /\ run'.plan = run.plan
        BY <2>4 DEF Moves, Kept
      <3>6. run.plan.spec = None => n # "owner" /\ ~Contains(run.queue, "owner")
                                    /\ ~Contains(run.swapped, "owner")
        BY <2>1, <3>3 DEF QueueFits, Running
      <3> QED
        BY <2>1, <2>3, <2>4, <3>2, <3>3, <3>4, <3>5, <3>6 DEF QueueFits, At
    <2> QED
      BY <1>3, <2>1, <2>2, <2>3, <2>4, MoveAsideStep
  <1>4. CASE Place
    <2>1. run.queue # <<>> /\ run.pc \notin Ended
      BY <1>4 DEF QueueFits, Place, At, Ended
    <2>2. PICK n : n = Head(run.queue)
      OBVIOUS
    <2>3. /\ run'.queue = Tail(run.queue) /\ run'.swapped = run.swapped
          /\ run'.plan = run.plan /\ run'.pc \in {"aside", "cleanup", "recheck"}
          /\ (run'.pc = "aside" => run'.queue # <<>>)
      BY <1>4, <2>1, <2>2, PlaceStep DEF Moves, Kept
    <2>4. \A m \in Source : Contains(Tail(run.queue), m) => ~Contains(run.swapped, m)
      BY <1>4 DEF QueueFits, Place
    <2>5. \A m : Contains(Tail(run.queue), m) => Contains(run.queue, m)
      BY <2>1, Kinds, QueueFacts DEF Runs
    <2>6. run.plan.spec = None => ~Contains(run.queue, "owner") /\ ~Contains(run.swapped, "owner")
      BY <2>1 DEF QueueFits, Running
    <2> QED
      BY <2>3, <2>4, <2>5, <2>6 DEF QueueFits, At
  <1>5. CASE Recheck
    BY <1>5, RecheckStep, QueueMoves DEF Ended, Aside, Swapping
  <1>6. CASE Distribute
    BY <1>6, DistributeStep, QueueMoves DEF Ended, Aside, Swapping, Commands, NextCommand
  <1>7. CASE SnapshotSkills
    BY <1>7, SnapshotSkillsStep, QueueMoves DEF Ended, Aside, Swapping
  <1>8. CASE InstallSkill
    BY <1>8, InstallSkillStep, QueueMoves, PartsAre DEF Ended, Aside, Swapping
  <1>9. CASE Setup
    BY <1>9, SetupStep, QueueMoves DEF Ended, Aside, Swapping
  <1>10. CASE Verify
    BY <1>10, VerifyStep, QueueMoves DEF Ended, Aside, Swapping
  <1>11. CASE Cleanup
    BY <1>11, CleanupStep, QueueEnds DEF Succeeds, Ended
  <1>12. CASE Compensate
    BY <1>12, CompensateStep, QueueMoves DEF Ended, Aside, Swapping, Compensation, RollbackSteps
  <1>13. CASE UndoSkill
    BY <1>13, UndoSkillStep, QueueMoves DEF Ended, Aside, Swapping, RollbackSteps
  <1>14. CASE UndoSources
    BY <1>14, UndoSourcesStep, QueueEnds DEF Leaves, Ended
  <1>15. CASE WriteReceipt
    BY <1>15, WriteReceiptStep, QueueMoves DEF Ended, Aside, Swapping
  <1>16. CASE StepFails
    BY <1>16, StepFailsStep, QueueMoves DEF Running, Aside, Swapping
  <1>17. CASE CleanupFails
    BY <1>17, CleanupFailsStep, QueueMoves, QueueEnds DEF Ended, Succeeds, Swapping
  <1>18. CASE UndoFails
    BY <1>18, UndoFailsStep, QueueMoves, QueueEnds DEF Ended, Leaves, Aside, RollbackSteps, Swapping
  <1>19. CASE Crash
    BY <1>19, CrashStep, QueueEnds DEF Ended, Leaves
  <1>20. CASE Outside
    BY <1>20, OutsideStep DEF Kept, Aside, QueueFits, At, Running
  <1>21. CASE Starts
    <2>1. run'.pc = "clone" /\ run'.queue = <<>> /\ run'.swapped = <<>>
      BY <1>21 DEF Starts
    <2> QED
      BY <2>1, QueueHolds DEF QueueFits, At
  <1>22. CASE \E want \in Release, spec \in Commits : Inspect(want, spec)
    BY <1>1, <1>22, InspectStep
  <1>23. Plain => QueueFits'
    BY <1>2, <1>3, <1>4, <1>5, <1>6, <1>7, <1>8, <1>9, <1>10, <1>11, <1>12, <1>13, <1>14 DEF Plain
  <1>24. Troubled => QueueFits'
    BY <1>16, <1>17, <1>18, <1>19, <1>20 DEF Troubled
  <1>25. CASE UNCHANGED vars
    BY <1>1, <1>25 DEF vars
  <1> QED
    BY <1>15, <1>21, <1>22, <1>23, <1>24, <1>25, NextCases, SyncStep, ApplyStep

\* Every part of the host and of a run has its type, and no run has a step that is not
\* one of its command.
THEOREM ReconcileTypeCorrect == Spec => []TypeOK
  <1>1. Init => TypeOK /\ QueueFits
    BY InitTyped
  <1>2. TypeOK /\ QueueFits /\ [Next]_vars => (TypeOK /\ QueueFits)'
    BY TypeKept, QueueKept
  <1> QED
    BY <1>1, <1>2, PTL DEF Spec

-----------------------------------------------------------------------------
(* No checkout is lost.                                                    *)

LEMMA KeptMoves ==
  ASSUME TypeOK, KeptFits, Running, NEW s, Moves(s), s \notin Ended,
         run'.swapped = run.swapped, run.op # "sync" => run'.aside = run.aside,
         run'.touched = run.touched,
         \A n \in Source : ~Contains(run.swapped, n) => host'[n] = host[n]
  PROVE  KeptFits'
  BY DEF KeptFits, Moves, Kept, Running, Before

LEMMA KeptLeaves ==
  ASSUME TypeOK, KeptFits, Running, NEW s \in Ended, Leaves(s),
         strays' = strays \union Left(run), \A n \in Source : host'[n] = host[n]
  PROVE  KeptFits'
  <1>1. ASSUME NEW n \in Source, run.op # "sync", n \notin run.touched, run.before[n] # None
        PROVE  run.before[n] \in {host'[n]} \union strays'
    <2>1. IF Contains(run.swapped, n) THEN run.aside[n] = run.before[n]
                                      ELSE host[n] = run.before[n]
      BY <1>1 DEF KeptFits, Before
    <2>2. run.before[n] # "gone"
      <3>1. run.before \in Hosts
        BY Kinds DEF Runs
      <3>2. run.before[n] \in Values
        BY <3>1, HostTypes, PartsAre
      <3> QED
        BY <3>2, BoundsAssumption DEF Values
    <2>3. CASE Contains(run.swapped, n)
      BY <1>1, <2>1, <2>2, <2>3 DEF Left
    <2>4. CASE ~Contains(run.swapped, n)
      BY <2>1, <2>4
    <2> QED
      BY <2>3, <2>4
  <1> QED
    BY <1>1 DEF KeptFits, Leaves, Running, Before

LEMMA KeptSucceeds ==
  ASSUME Succeeds
  PROVE  KeptFits'
  BY DEF Succeeds, KeptFits, Running, Ended

LEMMA KeptKept ==
  ASSUME TypeOK, QueueFits, KeptFits, [Next]_vars
  PROVE  KeptFits'
  <1>1. CASE UNCHANGED <<run, host, strays>>
    BY <1>1 DEF KeptFits, Running, Before
  <1>2. CASE Clone
    BY <1>2, CloneStep, KeptMoves DEF At, Running, Ended, Quiet
  <1>3. CASE MoveAside
    <2>1. run.queue # <<>> /\ Running /\ run.pc = "aside"
      BY <1>3 DEF QueueFits, MoveAside, At, Running, Ended
    <2>2. PICK n : n = Head(run.queue)
      OBVIOUS
    <2>3. CASE host' = host /\ Moves("undoPlug") /\ Aside
      BY <1>3, <2>1, <2>2, <2>3, MoveAsideStep, KeptMoves DEF Aside, Quiet, Ended
    <2>4. CASE /\ host' = [host EXCEPT ![n] = None] /\ Moves("place")
               /\ run'.swapped = Append(run.swapped, n)
               /\ run'.aside = [run.aside EXCEPT ![n] = host[n]]
      <3>1. n \in Source /\ run.swapped \in Seq(Source) /\ run.queue \in Queues
            /\ run'.touched = run.touched /\ host \in Hosts /\ run.aside \in Asides
        BY <1>3, <2>1, <2>2, MoveAsideStep, Kinds DEF Runs, Quiet
      <3>2. \A m : Contains(run'.swapped, m) <=> Contains(run.swapped, m) \/ m = n
        BY <2>4, <3>1, AppendFacts
      <3>3. ~Contains(run.swapped, n)
        BY <2>1, <2>2, <3>1, QueueFacts DEF QueueFits, At
      <3>4. \A m \in Source : /\ m # n => host'[m] = host[m] /\ run'.aside[m] = run.aside[m]
                              /\ run'.aside[n] = host[n]
        BY <2>4, <3>1, HostTypes, PartsAre DEF Asides
      <3>5. run'.pc = "place" /\ run'.op = run.op /\ run'.before = run.before
        BY <2>4 DEF Moves, Kept
      <3>6. ASSUME NEW m \in Source, run.op # "sync", m \notin run.touched
            PROVE  IF Contains(run'.swapped, m) THEN run'.aside[m] = run.before[m]
                                                ELSE host'[m] = run.before[m]
        <4>1. IF Contains(run.swapped, m) THEN run.aside[m] = run.before[m]
                                          ELSE host[m] = run.before[m]
          BY <2>1, <3>6 DEF KeptFits, Before
        <4>2. CASE m = n
          BY <3>2, <3>3, <3>4, <4>1, <4>2
        <4>3. CASE m # n
          BY <3>2, <3>4, <4>1, <4>3
        <4> QED
          BY <4>2, <4>3
      <3> QED
        BY <3>1, <3>5, <3>6 DEF KeptFits, Running, Before, Ended
    <2> QED
      BY <1>3, <2>1, <2>2, <2>3, <2>4, MoveAsideStep
  <1>4. CASE Place
    <2>1. run.queue # <<>> /\ Running /\ run.pc = "place"
      BY <1>4 DEF QueueFits, Place, At, Running, Ended
    <2>2. PICK n : n = Head(run.queue)
      OBVIOUS
    <2>3. Contains(run.swapped, n)
      BY <2>1, <2>2 DEF QueueFits, At
    <2>4. /\ host' = [host EXCEPT ![n] = Want(run.plan, n)] /\ n \in Source
          /\ run'.swapped = run.swapped /\ run'.aside = run.aside /\ run'.touched = run.touched
      BY <1>4, <2>1, <2>2, PlaceStep DEF Quiet
    <2>5. \A m \in Source : ~Contains(run.swapped, m) => host'[m] = host[m]
      BY <2>3, <2>4, Kinds, HostTypes, PartsAre
    <2>6. PICK s : Moves(s) /\ s \notin Ended
      BY <1>4, <2>1, <2>2, PlaceStep DEF Ended
    <2> QED
      BY <2>1, <2>4, <2>5, <2>6, KeptMoves
  <1>5. CASE Recheck
    BY <1>5, RecheckStep, KeptMoves DEF Running, Ended, Quiet, Aside
  <1>6. CASE Distribute
    <2>1. \A n \in Source : host'[n] = host[n]
      BY <1>6, DistributeStep, CommandTypes, Kinds, HostTypes, PartsAre
    <2> QED
      BY <1>6, <2>1, DistributeStep, KeptMoves
         DEF Running, Ended, Quiet, Aside, Commands, NextCommand
  <1>7. CASE SnapshotSkills
    BY <1>7, SnapshotSkillsStep, KeptMoves DEF Running, Ended, Quiet, Aside
  <1>8. CASE InstallSkill
    <2>1. \A n \in Source : host'[n] = host[n]
      BY <1>8, InstallSkillStep, Kinds, HostTypes, PartsAre
    <2> QED
      BY <1>8, <2>1, InstallSkillStep, KeptMoves, PartsAre DEF Running, Ended, Quiet, Aside
  <1>9. CASE Setup
    <2>1. \A n \in Source : host'[n] = host[n]
      BY <1>9, SetupStep, SetupDoneIs, PartsAre
    <2> QED
      BY <1>9, <2>1, SetupStep, KeptMoves DEF Running, Ended, Quiet, Aside
  <1>10. CASE Verify
    BY <1>10, VerifyStep, KeptMoves DEF Running, Ended, Quiet, Aside
  <1>11. CASE Cleanup
    BY <1>11, CleanupStep, KeptSucceeds
  <1>12. CASE Compensate
    <2>1. \A n \in Source : host'[n] = host[n]
      BY <1>12, CompensateStep, PartsAre
    <2> QED
      BY <1>12, <2>1, CompensateStep, KeptMoves
         DEF Running, Ended, Quiet, Aside, Compensation, RollbackSteps
  <1>13. CASE UndoSkill
    <2>1. \A n \in Source : host'[n] = host[n]
      BY <1>13, UndoSkillStep, PartsAre
    <2> QED
      BY <1>13, <2>1, UndoSkillStep, KeptMoves DEF Running, Ended, Quiet, Aside, RollbackSteps
  <1>14. CASE UndoSources
    <2>1. run.pc = "undoSources" /\ Running
      BY <1>14, UndoSourcesStep DEF Running, Ended
    <2>2. /\ \E s \in {"undone", "broken"} : Leaves(s)
          /\ \A n \in Source : host'[n] = IF Contains(run.swapped, n) /\ run.aside[n] # "gone"
                                          THEN run.aside[n] ELSE host[n]
      BY <1>14, UndoSourcesStep
    <2>3. ASSUME NEW n \in Source, run.op # "sync", n \notin run.touched
          PROVE  host'[n] = run.before[n]
      <3>1. run.before \in Hosts
        BY Kinds DEF Runs
      <3>2. run.before[n] \in Values
        BY <3>1, HostTypes, PartsAre
      <3>3. run.before[n] # "gone"
        BY <3>2, BoundsAssumption DEF Values
      <3>4. IF Contains(run.swapped, n) THEN run.aside[n] = run.before[n]
                                        ELSE host[n] = run.before[n]
        BY <2>1, <2>3 DEF KeptFits, Before
      <3> QED
        BY <2>2, <3>3, <3>4
    <2> QED
      BY <2>2, <2>3 DEF KeptFits, Leaves, Running, Before, Ended
  <1>15. CASE WriteReceipt
    BY <1>15, WriteReceiptStep, KeptMoves DEF Running, Ended, Quiet, Aside
  <1>16. CASE StepFails
    BY <1>16, StepFailsStep, KeptMoves DEF Ended, Aside
  <1>17. CASE CleanupFails
    BY <1>17, CleanupFailsStep, KeptMoves, KeptSucceeds DEF Running, Ended
  <1>18. CASE UndoFails
    BY <1>18, UndoFailsStep, KeptMoves, KeptLeaves DEF Running, Ended, Aside, RollbackSteps
  <1>19. CASE Crash
    BY <1>19, CrashStep, KeptLeaves DEF Ended
  <1>20. CASE Outside
    <2>1. PICK p \in Part :
            /\ \A q \in Part : q # p => host'[q] = host[q]
            /\ run.pc # "done" => run'.touched = run.touched \union {p}
      BY <1>20, OutsideStep, PartsAre
    <2>2. /\ run'.pc = run.pc /\ run'.op = run.op /\ run'.before = run.before
          /\ run'.swapped = run.swapped /\ run'.aside = run.aside /\ strays' = strays
      BY <1>20, OutsideStep DEF Kept, Aside
    <2> QED
      BY <2>1, <2>2, PartsAre DEF KeptFits, Running, Before, Ended
  <1>21. CASE Starts
    BY <1>21, QueueHolds DEF Starts, KeptFits, Running, Before, Ended
  <1>22. CASE \E want \in Release, spec \in Commits : Inspect(want, spec)
    BY <1>1, <1>22, InspectStep
  <1>23. Plain => KeptFits'
    BY <1>2, <1>3, <1>4, <1>5, <1>6, <1>7, <1>8, <1>9, <1>10, <1>11, <1>12, <1>13, <1>14 DEF Plain
  <1>24. Troubled => KeptFits'
    BY <1>16, <1>17, <1>18, <1>19, <1>20 DEF Troubled
  <1>25. CASE UNCHANGED vars
    BY <1>1, <1>25 DEF vars
  <1> QED
    BY <1>15, <1>21, <1>22, <1>23, <1>24, <1>25, NextCases, SyncStep, ApplyStep

LEMMA KeptImplies ==
  ASSUME TypeOK, KeptFits
  PROVE  OldKept
  <1>1. ASSUME NEW n \in Source, run.op # "sync", Before[n] # None, n \notin run.touched,
               run.pc \notin {"cleanup", "done"}
        PROVE  Before[n] \in {host[n], run.aside[n]} \union strays
    BY <1>1 DEF KeptFits, Running
  <1> QED
    BY <1>1 DEF OldKept

\* A checkout is never lost before the run that replaces it has committed: it is in
\* place, moved aside, or left aside by a crash or a rollback that failed.
THEOREM CheckoutsAreKept == Spec => []OldKept
  <1>1. Init => TypeOK /\ QueueFits /\ KeptFits
    <2>1. Init => run.pc = "done"
      BY DEF Init
    <2> QED
      BY <2>1, InitTyped DEF KeptFits, Running, Ended
  <1>2. TypeOK /\ QueueFits /\ KeptFits /\ [Next]_vars => (TypeOK /\ QueueFits /\ KeptFits)'
    BY TypeKept, QueueKept, KeptKept
  <1>3. TypeOK /\ KeptFits => OldKept
    BY KeptImplies
  <1> QED
    BY <1>1, <1>2, <1>3, PTL DEF Spec

-----------------------------------------------------------------------------
(* A receipt is true.                                                      *)

LEMMA PlanKept ==
  ASSUME TypeOK, QueueFits, PlanFits, [Next]_vars
  PROVE  PlanFits'
  <1>1. CASE run' = run
    BY <1>1 DEF PlanFits, Running
  <1>2. CASE run'.pc \in Ended
    BY <1>2 DEF PlanFits, Running
  <1>3. CASE Running /\ run'.op = run.op /\ run'.plan = run.plan
    BY <1>3 DEF PlanFits
  <1>4. CASE Starts
    BY <1>4, PartsAre DEF PlanFits, Starts
  <1>5. CASE Clone
    BY <1>3, <1>5, CloneStep DEF Moves, Kept, At, Running, Ended
  <1>6. CASE MoveAside
    <2>1. run.queue # <<>>
      BY <1>6 DEF QueueFits, MoveAside
    <2> QED
      BY <1>3, <1>6, <2>1, MoveAsideStep DEF Moves, Kept, Running, Ended
  <1>7. CASE Place
    <2>1. run.queue # <<>>
      BY <1>7 DEF QueueFits, Place
    <2> QED
      BY <1>3, <1>7, <2>1, PlaceStep DEF Moves, Kept, Running, Ended
  <1>8. CASE Recheck
    BY <1>3, <1>8, RecheckStep DEF Moves, Kept, Running, Ended
  <1>9. CASE Distribute
    BY <1>3, <1>9, DistributeStep DEF Moves, Kept, Running, Ended, Commands
  <1>10. CASE SnapshotSkills
    BY <1>3, <1>10, SnapshotSkillsStep DEF Moves, Kept, Running, Ended
  <1>11. CASE InstallSkill
    BY <1>3, <1>11, InstallSkillStep, PartsAre DEF Moves, Kept, Running, Ended
  <1>12. CASE Setup
    BY <1>3, <1>12, SetupStep DEF Moves, Kept, Running, Ended
  <1>13. CASE Verify
    BY <1>3, <1>13, VerifyStep DEF Moves, Kept, Running, Ended
  <1>14. CASE Cleanup
    BY <1>2, <1>14, CleanupStep DEF Succeeds, Ended
  <1>15. CASE Compensate
    BY <1>3, <1>15, CompensateStep DEF Moves, Kept, Running, Ended, Compensation
  <1>16. CASE UndoSkill
    BY <1>3, <1>16, UndoSkillStep DEF Moves, Kept, Running, Ended, RollbackSteps
  <1>17. CASE UndoSources
    BY <1>2, <1>17, UndoSourcesStep DEF Leaves, Ended
  <1>18. CASE WriteReceipt
    BY <1>3, <1>18, WriteReceiptStep DEF Moves, Kept, Running, Ended
  <1>19. CASE StepFails
    BY <1>3, <1>19, StepFailsStep DEF Moves, Kept
  <1>20. CASE CleanupFails
    BY <1>2, <1>3, <1>20, CleanupFailsStep DEF Moves, Kept, Succeeds, Running, Ended
  <1>21. CASE UndoFails
    BY <1>2, <1>3, <1>21, UndoFailsStep DEF Moves, Kept, Leaves, Running, Ended, RollbackSteps
  <1>22. CASE Crash
    BY <1>2, <1>22, CrashStep DEF Leaves, Ended
  <1>23. CASE Outside
    BY <1>23, OutsideStep DEF Kept, PlanFits, Running
  <1>24. CASE \E want \in Release, spec \in Commits : Inspect(want, spec)
    BY <1>1, <1>24, InspectStep
  <1>25. Plain => PlanFits'
    BY <1>5, <1>6, <1>7, <1>8, <1>9, <1>10, <1>11, <1>12, <1>13, <1>14, <1>15, <1>16, <1>17
       DEF Plain
  <1>26. Troubled => PlanFits'
    BY <1>19, <1>20, <1>21, <1>22, <1>23 DEF Troubled
  <1>27. CASE UNCHANGED vars
    BY <1>1, <1>27 DEF vars
  <1> QED
    BY <1>4, <1>18, <1>24, <1>25, <1>26, <1>27, NextCases, SyncStep, ApplyStep

Asked == Rechecked \union {"scout", "setup", "verify", "receipt"}

LEMMA ReceiptElsewhere ==
  ASSUME run'.pc \notin Asked
  PROVE  ReceiptFits'
  BY DEF ReceiptFits, Asked, At

\* The Owner's checkout is the planned one after the inspection.
LEMMA InspectedOwner ==
  ASSUME TypeOK, PlanFits, ReceiptFits, run.op = "reconcile", At("bootstrap"),
         Inspected(run.plan)
  PROVE  host.owner = run.plan.owner
  <1>1. run.plan \in Plans /\ Running /\ run.pc = "bootstrap"
    BY Standing DEF Ended
  <1>2. CASE run.plan.spec # None
    <2>1. "owner" \in ToSet(Named(run.plan))
      BY <1>2, NamedIs
    <2>2. host["owner"] = Want(run.plan, "owner")
      BY <2>1 DEF Inspected
    <2>3. run.plan.owner = run.plan.spec
      BY <1>1, <1>2 DEF PlanFits
    <2> QED
      BY <2>2, <2>3 DEF Want
  <1>3. CASE run.plan.spec = None
    <2>1. host.bind = run.plan.owner /\ (run.plan.owner = None => host.owner = None)
      BY <1>1, <1>3 DEF ReceiptFits, Rechecked
    <2>2. run.plan.owner # None => host.owner = host.bind
      BY <1>3 DEF Inspected, Ambiguous
    <2> QED
      BY <2>1, <2>2
  <1> QED
    BY <1>2, <1>3

LEMMA ReceiptKept ==
  ASSUME TypeOK, QueueFits, PlanFits, ReceiptFits, [Next]_vars
  PROVE  ReceiptFits'
  <1>1. CASE UNCHANGED <<run, host>>
    BY <1>1 DEF ReceiptFits, At
  <1>2. CASE Clone
    BY <1>2, CloneStep, ReceiptElsewhere DEF Moves, Asked, Rechecked
  <1>3. CASE MoveAside
    <2>1. run.queue # <<>>
      BY <1>3 DEF QueueFits, MoveAside
    <2> QED
      BY <1>3, <2>1, MoveAsideStep, ReceiptElsewhere DEF Moves, Asked, Rechecked
  <1>4. CASE Place
    <2>1. run.queue # <<>>
      BY <1>4 DEF QueueFits, Place
    <2> QED
      BY <1>4, <2>1, PlaceStep, ReceiptElsewhere DEF Moves, Asked, Rechecked
  <1>5. CASE Recheck
    <2>1. CASE Moves("undoPlug")
      BY <2>1, ReceiptElsewhere DEF Moves, Asked, Rechecked
    <2>2. CASE run.op # "reconcile"
      BY <1>5, <2>2, RecheckStep DEF Moves, Kept, ReceiptFits
    <2>3. CASE /\ run.op = "reconcile" /\ Moves("unplug")
               /\ \A n \in Source : ~Contains(run.swapped, n) => host[n] = run.plan.sources[n]
               /\ ~Ambiguous(run.plan.spec)
      <3>1. run.pc = "recheck" /\ Running /\ host' = host
        BY <1>5, RecheckStep DEF Running, Ended
      <3>2. ASSUME run.plan.spec = None
            PROVE  host.bind = run.plan.owner /\ host.owner = run.plan.owner
        <4>1. ~Contains(run.swapped, "owner")
          BY <3>1, <3>2 DEF QueueFits
        <4>2. host["owner"] = run.plan.sources["owner"]
          BY <2>3, <4>1, PartsAre
        <4>3. run.plan.owner = run.plan.sources["owner"]
          BY <2>3, <3>1, <3>2 DEF PlanFits
        <4>4. host.owner = host.bind
          BY <2>3, <3>2 DEF Ambiguous
        <4> QED
          BY <4>2, <4>3, <4>4
      <3>3. run'.pc = "unplug" /\ run'.plan = run.plan
        BY <2>3 DEF Moves, Kept
      <3> QED
        BY <3>1, <3>2, <3>3 DEF ReceiptFits, Rechecked, At
    <2> QED
      BY <1>5, <2>1, <2>2, <2>3, RecheckStep
  <1>6. CASE Distribute
    <2>1. host'.bind = host.bind /\ host'.owner = host.owner
      BY <1>6, DistributeStep, CommandTypes, Kinds, HostTypes, PartsAre
    <2>2. CASE Moves("undoPlug")
      BY <2>2, ReceiptElsewhere DEF Moves, Asked, Rechecked
    <2>3. CASE Moves(NextCommand)
      <3>1. run'.pc \in {"unmarket", "market", "plug", "snapshot"} /\ run'.plan = run.plan
            /\ run'.op = run.op
        BY <2>3 DEF Moves, Kept, NextCommand
      <3>2. run.pc \in Rechecked
        BY <1>6, DistributeStep DEF Commands, Rechecked
      <3> QED
        BY <2>1, <3>1, <3>2 DEF ReceiptFits, Rechecked, At
    <2> QED
      BY <1>6, <2>2, <2>3, DistributeStep
  <1>7. CASE SnapshotSkills
    BY <1>7, SnapshotSkillsStep DEF Moves, Kept, ReceiptFits, Rechecked, At
  <1>8. CASE InstallSkill
    <2>1. host'.owner = host.owner
      BY <1>8, InstallSkillStep, Kinds, HostTypes, PartsAre
    <2>2. CASE Moves("undoPlug")
      BY <2>2, ReceiptElsewhere DEF Moves, Asked, Rechecked
    <2>3. CASE At("bootstrap") /\ Moves("scout") /\ Inspected(run.plan)
      <3>1. run.op = "reconcile" => host.owner = run.plan.owner
        BY <2>3, InspectedOwner
      <3> QED
        BY <2>1, <2>3, <3>1 DEF Moves, Kept, ReceiptFits, Rechecked, At
    <2>4. CASE ~At("bootstrap") /\ Moves("setup") /\ run'.late = run.late
      <3>1. run.pc = "scout"
        BY <1>8, <2>4, PartsAre, InstallSkillStep DEF At
      <3> QED
        BY <2>1, <2>4, <3>1 DEF Moves, Kept, ReceiptFits, Rechecked, At
    <2> QED
      BY <1>8, <2>2, <2>3, <2>4, InstallSkillStep
  <1>9. CASE Setup
    <2>1. host'.owner = host.owner
      BY <1>9, SetupStep, SetupDoneIs, PartsAre
    <2>2. CASE Moves("undoPlug")
      BY <2>2, ReceiptElsewhere DEF Moves, Asked, Rechecked
    <2>3. CASE run.op # "reconcile"
      BY <1>9, <2>3, SetupStep DEF Moves, Kept, ReceiptFits
    <2>4. CASE run.op = "reconcile" /\ Moves("verify")
      BY <1>9, <2>1, <2>4, SetupStep DEF Moves, Kept, Seen, ReceiptFits, Rechecked, At
    <2> QED
      BY <1>9, <2>2, <2>3, <2>4, SetupStep
  <1>10. CASE Verify
    <2>1. CASE Moves("undoPlug")
      BY <2>1, ReceiptElsewhere DEF Moves, Asked, Rechecked
    <2>2. CASE /\ DistributionExact(run.plan.want) /\ HostExact(run.plan.want, run.plan.owner)
               /\ Moves("receipt") /\ run'.late = run.late \intersect {"owner"}
      <3>1. run.pc = "verify" /\ host' = host /\ run.op = "reconcile"
            /\ run'.plan = run.plan /\ run'.pc = "receipt"
        BY <1>10, <2>2, VerifyStep DEF Moves, Kept
      <3>2. "owner" \notin run.late => host.owner = run.plan.owner
        BY <3>1 DEF ReceiptFits
      <3>3. \A p \in {"market", "plugin"} \union {"sidecar", "core"} \union Skill :
              host[p] = run.plan.want
        BY <2>2, PartsAre DEF DistributionExact, HostExact, SkillsExact, DesiredBundle
      <3>4. ASSUME host.owner = run.plan.owner PROVE host.bind = run.plan.owner
        BY <2>2, <3>4 DEF HostExact, PublicCore, DoctorOk
      <3> QED
        BY <2>2, <3>1, <3>2, <3>3, <3>4 DEF ReceiptFits, Rechecked, At
    <2> QED
      BY <1>10, <2>1, <2>2, VerifyStep
  <1>11. CASE Cleanup
    BY <1>11, CleanupStep, ReceiptElsewhere DEF Succeeds, Asked, Rechecked
  <1>12. CASE Compensate
    BY <1>12, CompensateStep, ReceiptElsewhere DEF Moves, RollbackSteps, Asked, Rechecked
  <1>13. CASE UndoSkill
    BY <1>13, UndoSkillStep, ReceiptElsewhere DEF Moves, RollbackSteps, Asked, Rechecked
  <1>14. CASE UndoSources
    BY <1>14, UndoSourcesStep, ReceiptElsewhere DEF Leaves, Asked, Rechecked
  <1>15. CASE WriteReceipt
    BY <1>15, WriteReceiptStep, ReceiptElsewhere DEF Moves, Asked, Rechecked
  <1>16. CASE StepFails
    BY <1>16, StepFailsStep, ReceiptElsewhere DEF Moves, Asked, Rechecked
  <1>17. CASE CleanupFails
    BY <1>17, CleanupFailsStep, ReceiptElsewhere DEF Moves, Succeeds, Asked, Rechecked
  <1>18. CASE UndoFails
    BY <1>18, UndoFailsStep, ReceiptElsewhere DEF Moves, Leaves, RollbackSteps, Asked, Rechecked
  <1>19. CASE Crash
    BY <1>19, CrashStep, ReceiptElsewhere DEF Leaves, Asked, Rechecked
  <1>20. CASE Outside
    <2>1. CASE ~Running
      BY <1>20, <2>1, OutsideStep, ReceiptElsewhere DEF Running, Ended, Asked, Rechecked
    <2>2. CASE Running
      <3>1. PICK p \in {"market", "plugin", "owner"} \union Skill :
              /\ \A q \in Part : q # p => host'[q] = host[q]
              /\ p = "owner" => host.owner # None
              /\ run'.late = run.late \union {p}
        BY <1>20, <2>2, OutsideStep
      <3>2. run'.pc = run.pc /\ run'.op = run.op /\ run'.plan = run.plan
        BY <1>20, OutsideStep DEF Kept
      <3>3. host'.bind = host.bind
        BY <3>1, PartsAre
      <3>4. p # "owner" => host'.owner = host.owner
        BY <3>1, PartsAre
      <3>5. \A q \in Part : q \notin run'.late => q \notin run.late /\ host'[q] = host[q]
        BY <3>1
      <3>6. {"market", "plugin", "sidecar", "core"} \union Skill \subseteq Part
            /\ "owner" \in Part
        BY PartsAre
      <3> QED
        BY <3>1, <3>2, <3>3, <3>4, <3>5, <3>6 DEF ReceiptFits, At
    <2> QED
      BY <2>1, <2>2
  <1>21. CASE Starts
    BY <1>21, ReceiptElsewhere DEF Starts, Asked, Rechecked
  <1>22. CASE \E want \in Release, spec \in Commits : Inspect(want, spec)
    BY <1>1, <1>22, InspectStep
  <1>23. Plain => ReceiptFits'
    BY <1>2, <1>3, <1>4, <1>5, <1>6, <1>7, <1>8, <1>9, <1>10, <1>11, <1>12, <1>13, <1>14 DEF Plain
  <1>24. Troubled => ReceiptFits'
    BY <1>16, <1>17, <1>18, <1>19, <1>20 DEF Troubled
  <1>25. CASE UNCHANGED vars
    BY <1>1, <1>25 DEF vars
  <1> QED
    BY <1>15, <1>21, <1>22, <1>23, <1>24, <1>25, NextCases, SyncStep, ApplyStep

LEMMA ReceiptStep ==
  ASSUME TypeOK, QueueFits, ReceiptFits, Next, At("receipt"), run'.pc = "cleanup",
         run.op = "reconcile"
  PROVE  /\ \A p \in {"market", "plugin", "sidecar", "core"} \union Skill :
              p \notin run.late => host[p] = receipt'.want
         /\ "owner" \notin run.late =>
              host.owner = receipt'.owner /\ host.bind = receipt'.owner
  <1>1. run.pc = "receipt" /\ Running
    BY DEF At, Running, Ended
  <1>2. WriteReceipt
    <2>1. ~Plain
      BY <1>1, PartsAre DEF Plain, Clone, MoveAside, Place, Recheck, Distribute, SnapshotSkills,
            InstallSkill, Setup, Verify, Cleanup, Compensate, UndoSkill, UndoSources, At,
            Commands, Compensation
    <2>2. ~Troubled
      <3>1. ~StepFails
        BY StepFailsStep DEF Moves
      <3>2. ~CleanupFails
        BY <1>1, CleanupFailsStep
      <3>3. ~UndoFails
        BY <1>1, UndoFailsStep DEF RollbackSteps
      <3>4. ~Crash
        BY CrashStep DEF Leaves
      <3>5. ~Outside
        BY <1>1, OutsideStep
      <3> QED
        BY <3>1, <3>2, <3>3, <3>4, <3>5 DEF Troubled
    <2>3. ~Starts
      BY DEF Starts
    <2>4. ~\E want \in Release, spec \in Commits : Inspect(want, spec)
      BY <1>1 DEF Inspect
    <2> QED
      BY <2>1, <2>2, <2>3, <2>4, NextCases, SyncStep, ApplyStep
  <1>3. receipt'.want = run.plan.want /\ receipt'.owner = run.plan.owner
    BY <1>2, WriteReceiptStep
  <1>4. /\ \A p \in {"market", "plugin", "sidecar", "core"} \union Skill :
             p \notin run.late => host[p] = run.plan.want
        /\ "owner" \notin run.late => host.owner = run.plan.owner
        /\ "owner" \notin run.late => host.bind = run.plan.owner
    BY <1>1 DEF ReceiptFits, At
  <1> QED
    BY <1>3, <1>4

LEMMA ReceiptFitsAlways == Spec => [](TypeOK /\ QueueFits /\ PlanFits /\ ReceiptFits)
  <1>1. Init => TypeOK /\ QueueFits /\ PlanFits /\ ReceiptFits
    <2>1. Init => run.pc = "done" /\ run.op = "sync"
      BY DEF Init
    <2> QED
      BY <2>1, InitTyped DEF PlanFits, ReceiptFits, Running, Ended
  <1>2. TypeOK /\ QueueFits /\ PlanFits /\ ReceiptFits /\ [Next]_vars
          => (TypeOK /\ QueueFits /\ PlanFits /\ ReceiptFits)'
    BY TypeKept, QueueKept, PlanKept, ReceiptKept
  <1> QED
    BY <1>1, <1>2, PTL DEF Spec

\* The receipt of a reconcile is true when it is written: every part nobody else
\* changed since the run last looked at it is the one of the release it names.
THEOREM ReceiptsAreTrue == Spec => ReceiptTrue
  <1> DEFINE A == At("receipt") /\ run'.pc = "cleanup" /\ run.op = "reconcile" =>
                    /\ \A p \in {"market", "plugin", "sidecar", "core"} \union Skill :
                         p \notin run.late => host[p] = receipt'.want
                    /\ "owner" \notin run.late =>
                         host.owner = receipt'.owner /\ host.bind = receipt'.owner
  <1>1. TypeOK /\ QueueFits /\ PlanFits /\ ReceiptFits /\ [Next]_vars => [A]_vars
    <2> SUFFICES ASSUME TypeOK, QueueFits, ReceiptFits, [Next]_vars PROVE [A]_vars
      OBVIOUS
    <2>1. CASE UNCHANGED vars
      BY <2>1
    <2>2. CASE Next
      BY <2>2, ReceiptStep
    <2> QED
      BY <2>1, <2>2
  <1> QED
    BY <1>1, ReceiptFitsAlways, PTL DEF Spec, ReceiptTrue

-----------------------------------------------------------------------------
(* A run that nobody troubles succeeds.                                    *)

LEMMA CalmTroubled ==
  ASSUME ~Calm'
  PROVE  CalmFits'
  BY DEF CalmFits

LEMMA CalmEnds ==
  ASSUME run'.pc \in {"done", "crashed"}
  PROVE  CalmFits'
  BY StepSets DEF CalmFits, Running, Ended, RollbackSteps

LEMMA CalmRolling ==
  ASSUME CalmFits, run.pc \in RollbackSteps, Quiet
  PROVE  CalmFits'
  BY StepSets DEF CalmFits, Calm, Quiet

\* What holds of a run at a step that is none of the rollback.
CalmThere == Calm /\ CalmSources /\ CalmDistribution /\ CalmHost

LEMMA CalmGoes ==
  ASSUME run'.pc \notin RollbackSteps \union Ended,
         Calm' => CalmSources' /\ CalmDistribution' /\ CalmHost'
  PROVE  CalmFits'
  BY StepSets DEF CalmFits, Ended

LEMMA CalmFrom ==
  ASSUME CalmFits, Running, Quiet, Calm'
  PROVE  CalmThere
  BY DEF CalmFits, Calm, CalmThere, Quiet

\* The host's Owner is the planned one once the checkouts are exchanged.
LEMMA CalmOwner ==
  ASSUME TypeOK, QueueFits, PlanFits, CalmSources, Running, run.op # "sync",
         run.pc \notin Swapping \union {"clone"}
  PROVE  host.owner = run.plan.owner /\ host.sidecar = run.plan.want
  <1>1. \A n \in ToSet(Named(run.plan)) : host[n] = Want(run.plan, n)
    BY DEF CalmSources, At
  <1>2. "sidecar" \in ToSet(Named(run.plan))
    BY NamedIs
  <1>3. host["sidecar"] = run.plan.want
    BY <1>1, <1>2 DEF Want
  <1>4. CASE run.plan.spec # None
    <2>1. "owner" \in ToSet(Named(run.plan))
      BY <1>4, NamedIs
    <2>2. host["owner"] = Want(run.plan, "owner")
      BY <1>1, <2>1
    <2>3. run.plan.owner = run.plan.spec
      BY <1>4 DEF PlanFits
    <2> QED
      BY <1>3, <2>2, <2>3 DEF Want
  <1>5. CASE run.plan.spec = None
    <2>1. ~Contains(run.swapped, "owner")
      BY <1>5 DEF QueueFits
    <2>2. host["owner"] = run.plan.sources["owner"]
      BY <2>1, PartsAre DEF CalmSources
    <2>3. run.plan.owner = run.plan.sources["owner"]
      BY <1>5 DEF PlanFits
    <2> QED
      BY <1>3, <2>2, <2>3
  <1> QED
    BY <1>4, <1>5

\* The sources of a calm run stay so at a step that leaves them and the binding alone.
LEMMA SourcesStay ==
  ASSUME CalmSources, run'.plan = run.plan, run'.op = run.op, run'.swapped = run.swapped,
         run'.queue = run.queue,
         run.pc \notin Swapping \union {"clone"}, run'.pc \notin {"clone"},
         host'.sidecar = host.sidecar, host'.owner = host.owner,
         run.plan.spec = None /\ run.op # "sync" => host'.bind = run.plan.owner
  PROVE  CalmSources'
  <1>1. \A n \in ToSet(Named(run.plan)) : n \in {"sidecar", "owner"}
    BY NamedIs
  <1>2. \A n \in ToSet(Named(run.plan)) : host[n] = Want(run.plan, n)
    BY DEF CalmSources, At
  <1>3. \A n \in {"sidecar", "owner"} : host'[n] = host[n]
    OBVIOUS
  <1>4. \A n \in Source : ~Contains(run'.swapped, n) => host'[n] = run'.plan.sources[n]
    BY <1>3, PartsAre DEF CalmSources
  <1>5. \A n \in ToSet(Named(run'.plan)) : host'[n] = Want(run'.plan, n)
    BY <1>1, <1>2, <1>3
  <1>6. run'.plan.spec = None /\ run'.op # "sync" => host'.bind = run'.plan.owner
    OBVIOUS
  <1> QED
    BY <1>4, <1>5, <1>6 DEF CalmSources

LEMMA CalmClone ==
  ASSUME TypeOK, QueueFits, CalmFits, Clone
  PROVE  CalmFits'
  <1>1. run.pc = "clone" /\ Running
    BY CloneStep DEF At, Running, Ended
  <1>2. /\ run'.pc \in {"aside", "cleanup", "recheck"} /\ run'.plan = run.plan /\ run'.op = run.op
        /\ run'.swapped = run.swapped /\ host' = host /\ run'.queue \in Queues
        /\ run'.pc # "aside" => run'.queue = <<>>
        /\ run'.pc = "cleanup" => run.op = "sync"
    BY CloneStep DEF Moves, Kept
  <1>3. ASSUME Calm' PROVE CalmThere
    BY <1>1, <1>3, CloneStep, CalmFrom
  <1>4. ASSUME CalmThere PROVE CalmSources'
    <2>1. \A n \in ToSet(Named(run.plan)) :
            Contains(run'.queue, n) \/ host[n] = Want(run.plan, n)
      BY CloneStep, NamedIs DEF Want
    <2>2. run'.pc # "aside" => \A n : ~Contains(run'.queue, n)
      BY <1>2, QueueHolds
    <2>3. \A n \in ToSet(Named(run'.plan)) :
             \/ run'.pc \in Swapping /\ Contains(run'.queue, n)
             \/ host'[n] = Want(run'.plan, n)
      BY <1>2, <2>1, <2>2 DEF Swapping
    <2> QED
      BY <1>2, <1>4, <2>3 DEF CalmThere, CalmSources
  <1>5. ASSUME CalmThere PROVE CalmDistribution'
    BY <1>1, <1>2, <1>5 DEF CalmThere, CalmDistribution, Swapping, At
  <1>6. CalmHost'
    BY <1>2 DEF CalmHost, At
  <1> QED
    BY <1>2, <1>3, <1>4, <1>5, <1>6, CalmGoes DEF RollbackSteps, Ended

LEMMA CalmMoveAside ==
  ASSUME TypeOK, QueueFits, CalmFits, MoveAside
  PROVE  CalmFits'
  <1>1. run.queue # <<>> /\ run.pc = "aside" /\ Running
    BY DEF MoveAside, At, Running, Ended, QueueFits
  <1>2. PICK n : n = Head(run.queue)
    OBVIOUS
  <1>3. n \in Source /\ Contains(run.queue, n) /\ ~Contains(run.swapped, n) /\ n \in Part
    BY <1>1, <1>2, Kinds, QueueFacts, PartsAre DEF Runs, QueueFits, At
  <1>4. Quiet
    BY <1>1, <1>2, MoveAsideStep
  <1>5. ASSUME Calm' PROVE CalmThere
    BY <1>1, <1>4, <1>5, CalmFrom
  <1>6. CASE host[n] # run.plan.sources[n]
    BY <1>3, <1>5, <1>6, CalmTroubled DEF CalmThere, CalmSources
  <1>7. CASE /\ host' = [host EXCEPT ![n] = None] /\ Moves("place") /\ run'.queue = run.queue
             /\ run'.swapped = Append(run.swapped, n)
    <2>1. run'.pc = "place" /\ run'.plan = run.plan /\ run'.op = run.op
      BY <1>7 DEF Moves, Kept
    <2>2. \A q \in Part : q # n => host'[q] = host[q]
      BY <1>3, <1>7, Kinds, HostTypes
    <2>3. \A m : Contains(run'.swapped, m) <=> Contains(run.swapped, m) \/ m = n
      BY <1>3, <1>7, Kinds, AppendFacts DEF Runs
    <2>4. ASSUME CalmThere PROVE CalmSources'
      <3>1. \A m \in Source : ~Contains(run'.swapped, m) => host'[m] = run'.plan.sources[m]
        BY <2>1, <2>2, <2>3, <2>4, PartsAre DEF CalmThere, CalmSources
      <3>2. host'.bind = host.bind
        BY <1>3, <2>2, PartsAre
      <3>3. \A m \in ToSet(Named(run.plan)) : m \in Source
        BY NamedIs, PartsAre
      <3>4. \A m \in ToSet(Named(run.plan)) :
              Contains(run.queue, m) \/ host[m] = Want(run.plan, m)
        BY <1>1, <2>4 DEF CalmThere, CalmSources, At
      <3>5. \A m \in ToSet(Named(run'.plan)) :
              \/ run'.pc \in Swapping /\ Contains(run'.queue, m)
              \/ host'[m] = Want(run'.plan, m)
        BY <1>3, <1>7, <2>1, <2>2, <3>3, <3>4, PartsAre DEF Swapping
      <3> QED
        BY <2>1, <2>4, <3>1, <3>2, <3>5 DEF CalmThere, CalmSources
    <2>5. ASSUME CalmThere PROVE CalmDistribution'
      <3>1. host'.market = host.market /\ host'.plugin = host.plugin
        BY <1>3, <2>2, PartsAre
      <3> QED
        BY <1>1, <2>1, <2>5, <3>1 DEF CalmThere, CalmDistribution, Swapping, At
    <2>6. CalmHost'
      BY <2>1 DEF CalmHost, At
    <2> QED
      BY <1>5, <2>1, <2>4, <2>5, <2>6, CalmGoes DEF RollbackSteps, Ended
  <1> QED
    BY <1>1, <1>2, <1>6, <1>7, MoveAsideStep

LEMMA CalmPlace ==
  ASSUME TypeOK, QueueFits, CalmFits, Place
  PROVE  CalmFits'
  <1>1. run.queue # <<>> /\ run.pc = "place" /\ Running
    BY DEF Place, At, Running, Ended, QueueFits
  <1>2. PICK n : n = Head(run.queue)
    OBVIOUS
  <1>3. n \in Source /\ Contains(run.swapped, n) /\ n \in Part
        /\ \A m : Contains(run.queue, m) <=> m = n \/ Contains(Tail(run.queue), m)
    BY <1>1, <1>2, Kinds, QueueFacts, PartsAre DEF Runs, QueueFits, At
  <1>4. /\ Quiet /\ host' = [host EXCEPT ![n] = Want(run.plan, n)]
        /\ run'.queue = Tail(run.queue) /\ run'.swapped = run.swapped
        /\ run'.plan = run.plan /\ run'.op = run.op
        /\ run'.pc \in {"aside", "cleanup", "recheck"}
        /\ run'.pc # "aside" => run'.queue = <<>>
    BY <1>1, <1>2, PlaceStep DEF Moves, Kept
  <1>5. ASSUME Calm' PROVE CalmThere
    BY <1>1, <1>4, <1>5, CalmFrom
  <1>6. host'[n] = Want(run.plan, n) /\ \A q \in Part : q # n => host'[q] = host[q]
    BY <1>3, <1>4, Kinds, HostTypes
  <1>7. ASSUME CalmThere PROVE CalmSources'
    <2>1. \A m \in Source : ~Contains(run'.swapped, m) => host'[m] = run'.plan.sources[m]
      BY <1>3, <1>4, <1>6, <1>7, PartsAre DEF CalmThere, CalmSources
    <2>2. host'.bind = host.bind
      BY <1>3, <1>6, PartsAre
    <2>3. \A m \in ToSet(Named(run.plan)) : m \in Part
      BY NamedIs, PartsAre
    <2>4. \A m \in ToSet(Named(run.plan)) :
            Contains(run.queue, m) \/ host[m] = Want(run.plan, m)
      BY <1>1, <1>7 DEF CalmThere, CalmSources, At
    <2>5. \A m \in ToSet(Named(run.plan)) :
            Contains(run'.queue, m) \/ host'[m] = Want(run.plan, m)
      BY <1>3, <1>4, <1>6, <2>3, <2>4
    <2>6. run'.pc # "aside" => \A m : ~Contains(run'.queue, m)
      BY <1>4, QueueHolds
    <2>7. \A m \in ToSet(Named(run'.plan)) :
            \/ run'.pc \in Swapping /\ Contains(run'.queue, m)
            \/ host'[m] = Want(run'.plan, m)
      BY <1>4, <2>5, <2>6 DEF Swapping
    <2> QED
      BY <1>4, <1>7, <2>1, <2>2, <2>7 DEF CalmThere, CalmSources
  <1>8. ASSUME CalmThere PROVE CalmDistribution'
    <2>1. host'.market = host.market /\ host'.plugin = host.plugin
      BY <1>3, <1>6, PartsAre
    <2> QED
      BY <1>1, <1>4, <1>8, <2>1 DEF CalmThere, CalmDistribution, Swapping, At
  <1>9. CalmHost'
    BY <1>4 DEF CalmHost, At
  <1> QED
    BY <1>4, <1>5, <1>7, <1>8, <1>9, CalmGoes DEF RollbackSteps, Ended

\* The steps after the exchange, each with what it leaves of the distribution and host.
LEMMA CalmStep ==
  ASSUME TypeOK, CalmFits, Running, run.pc \notin Swapping \union {"clone"},
         NEW s, Moves(s), s \notin RollbackSteps \union Ended \union {"clone"} \union Swapping,
         Aside, Quiet, host'.sidecar = host.sidecar, host'.owner = host.owner,
         CalmThere => /\ run.plan.spec = None /\ run.op # "sync" => host'.bind = run.plan.owner
                      /\ CalmDistribution' /\ CalmHost'
  PROVE  CalmFits'
  <1>1. ASSUME Calm' PROVE CalmThere
    BY <1>1, CalmFrom
  <1>2. ASSUME CalmThere PROVE CalmSources'
    BY <1>2, SourcesStay DEF Moves, Kept, Aside, CalmThere
  <1> QED
    BY <1>1, <1>2, CalmGoes DEF Moves

LEMMA CalmRecheck ==
  ASSUME TypeOK, QueueFits, PlanFits, CalmFits, Recheck
  PROVE  CalmFits'
  <1>1. /\ run.pc = "recheck" /\ host' = host /\ run.op # "sync" /\ Aside /\ Quiet
        /\ Running
    BY RecheckStep DEF Running, Ended
  <1>2. ASSUME Calm' PROVE CalmThere
    BY <1>1, <1>2, CalmFrom
  <1>3. CASE \/ \E n \in Source : ~Contains(run.swapped, n) /\ host[n] # run.plan.sources[n]
             \/ Ambiguous(run.plan.spec)
    <2>1. ASSUME CalmThere PROVE FALSE
      <3>1. \A n \in Source : ~Contains(run.swapped, n) => host[n] = run.plan.sources[n]
        BY <2>1 DEF CalmThere, CalmSources
      <3>2. host.owner = run.plan.owner
        BY <1>1, <2>1, CalmOwner DEF CalmThere, Swapping
      <3>3. run.plan.spec = None => host.bind = run.plan.owner
        BY <1>1, <2>1 DEF CalmThere, CalmSources
      <3> QED
        BY <1>3, <3>1, <3>2, <3>3 DEF Ambiguous
    <2> QED
      BY <1>2, <2>1, CalmTroubled
  <1>4. CASE Moves(IF run.op = "reconcile" THEN "unplug" ELSE "snapshot")
    <2>1. PICK s : Moves(s) /\ s = (IF run.op = "reconcile" THEN "unplug" ELSE "snapshot")
      BY <1>4
    <2>2. run'.pc = s /\ run'.op = run.op /\ run'.plan = run.plan
      BY <2>1 DEF Moves, Kept
    <2>3. CalmThere => CalmDistribution'
      BY <1>1, <2>1, <2>2 DEF CalmThere, CalmDistribution, At, Swapping
    <2>4. CalmHost'
      BY <2>1, <2>2 DEF CalmHost, At
    <2>5. CalmThere => (run.plan.spec = None /\ run.op # "sync" => host'.bind = run.plan.owner)
      BY <1>1 DEF CalmThere, CalmSources
    <2> QED
      BY <1>1, <2>1, <2>3, <2>4, <2>5, CalmStep DEF Swapping, RollbackSteps, Ended
  <1> QED
    BY <1>3, <1>4, RecheckStep

LEMMA CalmDistribute ==
  ASSUME TypeOK, QueueFits, PlanFits, CalmFits, Distribute
  PROVE  CalmFits'
  <1>1. /\ run.pc \in Commands /\ run.op = "reconcile" /\ Aside /\ Quiet /\ Running
        /\ run.plan \in Plans
    BY DistributeStep, Kinds DEF Running, Ended, Commands
  <1>2. ASSUME Calm' PROVE CalmThere
    BY <1>1, <1>2, CalmFrom
  <1>3. run.plan.want \in Release /\ run.plan.want # None
    BY <1>1, BoundsAssumption DEF Plans
  <1>4. CalmThere => (Command(run).due => Accepts(Command(run).part, Command(run).to))
    <2> SUFFICES ASSUME CalmDistribution
                 PROVE  Command(run).due => Accepts(Command(run).part, Command(run).to)
      BY DEF CalmThere
    <2>1. CASE run.pc = "unplug"
      <3>1. host.plugin = run.plan.plugin
        BY <1>1, <2>1 DEF CalmDistribution
      <3> QED
        BY <2>1, <3>1, CommandIs DEF At, Accepts
    <2>2. CASE run.pc = "unmarket"
      <3>1. host.market = run.plan.market
        BY <1>1, <2>2 DEF CalmDistribution, At
      <3> QED
        BY <2>2, <3>1, CommandIs DEF At, Accepts
    <2>3. CASE run.pc = "market"
      <3>1. host.market = IF TouchesMarket(run.plan) THEN None ELSE run.plan.want
        BY <1>1, <2>3 DEF CalmDistribution, At
      <3> QED
        BY <1>3, <2>3, <3>1, CommandIs DEF At, Accepts
    <2>4. CASE run.pc = "plug"
      <3>1. /\ host.market = run.plan.want
            /\ host.plugin = IF TouchesPlugin(run.plan) THEN None ELSE run.plan.want
        BY <1>1, <2>4 DEF CalmDistribution, At
      <3> QED
        BY <1>3, <2>4, <3>1, CommandIs DEF At, Accepts
    <2> QED
      BY <1>1, <2>1, <2>2, <2>3, <2>4 DEF Commands
  <1>5. CASE Command(run).due /\ ~Accepts(Command(run).part, Command(run).to)
    BY <1>2, <1>4, <1>5, CalmTroubled
  <1>6. CASE /\ Moves(NextCommand)
             /\ \/ ~Command(run).due /\ host' = host
                \/ /\ Command(run).due
                   /\ host' = [host EXCEPT ![Command(run).part] = Command(run).to]
    <2>1. PICK s : Moves(s) /\ s = NextCommand
      BY <1>6
    <2>2. run'.pc = s /\ run'.op = run.op /\ run'.plan = run.plan
      BY <2>1 DEF Moves, Kept
    <2>3. Command(run).part \in {"market", "plugin"}
      BY <1>1, CommandTypes
    <2>4. \A q \in Part : q # Command(run).part => host'[q] = host[q]
      BY <1>6, Kinds, HostTypes
    <2>5. Command(run).due => host'[Command(run).part] = Command(run).to
      BY <1>6, <2>3, Kinds, HostTypes, PartsAre
    <2>6. host'.sidecar = host.sidecar /\ host'.owner = host.owner /\ host'.bind = host.bind
      BY <2>3, <2>4, PartsAre
    <2>7. ASSUME CalmDistribution PROVE CalmDistribution'
      <3>1. CASE run.pc = "unplug"
        <4>1. /\ Command(run).part = "plugin" /\ Command(run).to = None
              /\ Command(run).due <=> TouchesPlugin(run.plan) /\ run.plan.plugin # None
          BY <3>1, CommandIs DEF At
        <4>2. s = "unmarket" /\ host.market = run.plan.market /\ host.plugin = run.plan.plugin
          BY <1>1, <2>1, <2>7, <3>1 DEF CalmDistribution, NextCommand, At
        <4>3. host'.market = run.plan.market
          BY <2>4, <4>1, <4>2, PartsAre
        <4>4. ~TouchesPlugin(run.plan) => run.plan.plugin = run.plan.want
          BY DEF TouchesPlugin
        <4>5. host'.plugin = IF TouchesPlugin(run.plan) THEN None ELSE run.plan.want
          BY <1>6, <2>5, <4>1, <4>2, <4>4
        <4> QED
          BY <2>2, <4>2, <4>3, <4>5 DEF CalmDistribution, At, Swapping
      <3>2. CASE run.pc = "unmarket"
        <4>1. /\ Command(run).part = "market" /\ Command(run).to = None
              /\ Command(run).due <=> TouchesMarket(run.plan) /\ run.plan.market # None
          BY <3>2, CommandIs DEF At
        <4>2. /\ s = "market" /\ host.market = run.plan.market
              /\ host.plugin = IF TouchesPlugin(run.plan) THEN None ELSE run.plan.want
          BY <1>1, <2>1, <2>7, <3>2 DEF CalmDistribution, NextCommand, At
        <4>3. host'.plugin = host.plugin
          BY <2>4, <4>1, PartsAre
        <4>4. ~TouchesMarket(run.plan) => run.plan.market = run.plan.want
          BY DEF TouchesMarket
        <4>5. host'.market = IF TouchesMarket(run.plan) THEN None ELSE run.plan.want
          BY <1>6, <2>5, <4>1, <4>2, <4>4
        <4> QED
          BY <2>2, <4>2, <4>3, <4>5 DEF CalmDistribution, At, Swapping
      <3>3. CASE run.pc = "market"
        <4>1. /\ Command(run).part = "market" /\ Command(run).to = run.plan.want
              /\ Command(run).due <=> TouchesMarket(run.plan)
          BY <3>3, CommandIs DEF At
        <4>2. /\ s = "plug"
              /\ host.market = IF TouchesMarket(run.plan) THEN None ELSE run.plan.want
              /\ host.plugin = IF TouchesPlugin(run.plan) THEN None ELSE run.plan.want
          BY <1>1, <2>1, <2>7, <3>3 DEF CalmDistribution, NextCommand, At
        <4>3. host'.plugin = host.plugin
          BY <2>4, <4>1, PartsAre
        <4>4. host'.market = run.plan.want
          BY <1>6, <2>5, <4>1, <4>2
        <4> QED
          BY <2>2, <4>2, <4>3, <4>4 DEF CalmDistribution, At, Swapping
      <3>4. CASE run.pc = "plug"
        <4>1. /\ Command(run).part = "plugin" /\ Command(run).to = host.market
              /\ Command(run).due <=> TouchesPlugin(run.plan)
          BY <3>4, CommandIs DEF At
        <4>2. /\ s = "snapshot" /\ host.market = run.plan.want
              /\ host.plugin = IF TouchesPlugin(run.plan) THEN None ELSE run.plan.want
          BY <1>1, <2>1, <2>7, <3>4 DEF CalmDistribution, NextCommand, At
        <4>3. host'.market = run.plan.want
          BY <2>4, <4>1, <4>2, PartsAre
        <4>4. host'.plugin = run.plan.want
          BY <1>6, <2>5, <4>1, <4>2
        <4>5. DistributionExact(run.plan.want)'
          BY <2>2, <4>3, <4>4 DEF DistributionExact, DesiredBundle
        <4> QED
          BY <2>2, <4>2, <4>5 DEF CalmDistribution, At, Swapping
      <3> QED
        BY <1>1, <3>1, <3>2, <3>3, <3>4 DEF Commands
    <2>8. s \in {"unmarket", "market", "plug", "snapshot"}
      BY <2>1 DEF NextCommand
    <2>9. CalmHost'
      BY <2>2, <2>8 DEF CalmHost, At
    <2>10. CalmThere => (run.plan.spec = None /\ run.op # "sync" => host'.bind = run.plan.owner)
      BY <2>6 DEF CalmThere, CalmSources
    <2>11. run.pc \notin Swapping \union {"clone"}
           /\ s \notin RollbackSteps \union Ended \union {"clone"} \union Swapping
      BY <1>1, <2>8 DEF Swapping, Commands, RollbackSteps, Ended
    <2> QED
      BY <1>1, <2>1, <2>6, <2>7, <2>9, <2>10, <2>11, CalmStep DEF CalmThere
  <1> QED
    BY <1>5, <1>6, DistributeStep

LEMMA CalmSnapshot ==
  ASSUME TypeOK, QueueFits, PlanFits, CalmFits, SnapshotSkills
  PROVE  CalmFits'
  <1>1. /\ run.pc = "snapshot" /\ host' = host /\ Aside /\ Quiet /\ Running /\ Moves("bootstrap")
    BY SnapshotSkillsStep DEF Running, Ended
  <1>2. run'.pc = "bootstrap" /\ run'.op = run.op /\ run'.plan = run.plan
    BY <1>1 DEF Moves, Kept
  <1>3. CalmThere => CalmDistribution'
    BY <1>1, <1>2 DEF CalmThere, CalmDistribution, At, Swapping, DistributionExact, DesiredBundle
  <1>4. CalmHost'
    BY <1>2 DEF CalmHost, At
  <1>5. CalmThere => (run.plan.spec = None /\ run.op # "sync" => host'.bind = run.plan.owner)
    BY <1>1 DEF CalmThere, CalmSources
  <1> QED
    BY <1>1, <1>3, <1>4, <1>5, CalmStep DEF Swapping, RollbackSteps, Ended


LEMMA CalmInstallSkill ==
  ASSUME TypeOK, QueueFits, PlanFits, CalmFits, InstallSkill
  PROVE  CalmFits'
  <1>1. run.pc \in Skill /\ run.op # "sync" /\ Aside /\ Quiet /\ Running
    BY InstallSkillStep, PartsAre DEF Running, Ended
  <1>2. run.pc \in {"bootstrap", "scout"} /\ run.pc \notin Swapping \union {"clone"}
    BY <1>1, PartsAre DEF Swapping
  <1>3. ASSUME Calm' PROVE CalmThere
    BY <1>1, <1>3, CalmFrom
  <1>4. ASSUME CalmThere PROVE host.owner = run.plan.owner /\ host.sidecar = run.plan.want
    BY <1>1, <1>2, <1>4, CalmOwner DEF CalmThere
  <1>5. CASE At("bootstrap") /\ ~Inspected(run.plan)
    <2>1. ASSUME CalmThere PROVE Inspected(run.plan)
      <3>1. \A n \in ToSet(Named(run.plan)) : host[n] = Want(run.plan, n)
        BY <1>2, <2>1 DEF CalmThere, CalmSources, At
      <3>2. run.plan.spec = None => host.bind = run.plan.owner
        BY <1>1, <2>1 DEF CalmThere, CalmSources
      <3> QED
        BY <1>4, <2>1, <3>1, <3>2 DEF Inspected, PublicCore, Ambiguous
    <2> QED
      BY <1>3, <1>5, <2>1, CalmTroubled
  <1>6. CASE /\ host' = [host EXCEPT ![run.pc] = host.sidecar]
             /\ Moves(IF At("bootstrap") THEN "scout" ELSE "setup")
    <2>1. PICK s : Moves(s) /\ s = (IF At("bootstrap") THEN "scout" ELSE "setup")
      BY <1>6
    <2>2. run'.pc = s /\ run'.op = run.op /\ run'.plan = run.plan
      BY <2>1 DEF Moves, Kept
    <2>3. host'[run.pc] = host.sidecar /\ \A q \in Part : q # run.pc => host'[q] = host[q]
      BY <1>1, <1>6, Kinds, HostTypes, PartsAre
    <2>4. /\ host'.sidecar = host.sidecar /\ host'.owner = host.owner /\ host'.bind = host.bind
          /\ host'.market = host.market /\ host'.plugin = host.plugin
      BY <1>2, <2>3, PartsAre
    <2>5. CalmThere => CalmDistribution'
      BY <1>2, <2>1, <2>2, <2>4 DEF CalmThere, CalmDistribution, At, Swapping,
            DistributionExact, DesiredBundle
    <2>6. CalmThere => CalmHost'
      <3>1. CASE run.pc = "bootstrap"
        BY <1>4, <2>1, <2>2, <2>3, <3>1 DEF CalmHost, At
      <3>2. CASE run.pc = "scout"
        <4>1. host'.bootstrap = host.bootstrap /\ host'.scout = host.sidecar
          BY <2>3, <3>2, PartsAre
        <4> QED
          BY <1>4, <2>1, <2>2, <3>2, <4>1 DEF CalmThere, CalmHost, At
      <3> QED
        BY <1>2, <3>1, <3>2
    <2>7. CalmThere => (run.plan.spec = None /\ run.op # "sync" => host'.bind = run.plan.owner)
      BY <2>4 DEF CalmThere, CalmSources
    <2>8. s \notin RollbackSteps \union Ended \union {"clone"} \union Swapping
      BY <2>1 DEF RollbackSteps, Ended, Swapping
    <2> QED
      BY <1>1, <1>2, <2>1, <2>4, <2>5, <2>6, <2>7, <2>8, CalmStep
  <1> QED
    BY <1>5, <1>6, InstallSkillStep

LEMMA CalmSetup ==
  ASSUME TypeOK, QueueFits, PlanFits, CalmFits, Setup
  PROVE  CalmFits'
  <1>1. /\ run.pc = "setup" /\ run.op # "sync" /\ Aside /\ Quiet /\ Running
        /\ host' = SetupDone
    BY SetupStep DEF Running, Ended
  <1>2. ASSUME Calm' PROVE CalmThere
    BY <1>1, <1>2, CalmFrom
  <1>3. ASSUME CalmThere PROVE host.owner = run.plan.owner /\ host.sidecar = run.plan.want
    BY <1>1, <1>3, CalmOwner DEF CalmThere, Swapping
  <1>4. CASE host.sidecar # run.plan.want
    BY <1>2, <1>3, <1>4, CalmTroubled
  <1>5. CASE Moves(IF run.op = "reconcile" THEN "verify" ELSE "receipt")
    <2>1. PICK s : Moves(s) /\ s = (IF run.op = "reconcile" THEN "verify" ELSE "receipt")
      BY <1>5
    <2>2. run'.pc = s /\ run'.op = run.op /\ run'.plan = run.plan
      BY <2>1 DEF Moves, Kept
    <2>3. /\ host'.core = host.sidecar
          /\ host'.bind = IF run.plan.owner = None THEN host.bind ELSE host.owner
          /\ \A p \in Part : p \notin {"core", "bind"} => host'[p] = host[p]
      BY <1>1, SetupDoneIs
    <2>4. /\ host'.sidecar = host.sidecar /\ host'.owner = host.owner
          /\ host'.market = host.market /\ host'.plugin = host.plugin
          /\ host'.bootstrap = host.bootstrap /\ host'.scout = host.scout
      BY <2>3, PartsAre
    <2>5. CalmThere => CalmDistribution'
      BY <1>1, <2>1, <2>2, <2>4 DEF CalmThere, CalmDistribution, At, Swapping,
            DistributionExact, DesiredBundle
    <2>6. CalmThere => CalmHost'
      BY <1>1, <1>3, <2>2, <2>3, <2>4 DEF CalmThere, CalmHost, At
    <2>7. CalmThere => (run.plan.spec = None /\ run.op # "sync" => host'.bind = run.plan.owner)
      BY <1>3, <2>3 DEF CalmThere, CalmSources
    <2>8. s \notin RollbackSteps \union Ended \union {"clone"} \union Swapping
      BY <2>1 DEF RollbackSteps, Ended, Swapping
    <2> QED
      BY <1>1, <2>1, <2>4, <2>5, <2>6, <2>7, <2>8, CalmStep DEF Swapping
  <1> QED
    BY <1>4, <1>5, SetupStep

LEMMA CalmVerify ==
  ASSUME TypeOK, QueueFits, PlanFits, CalmFits, Verify
  PROVE  CalmFits'
  <1>1. /\ run.pc = "verify" /\ run.op = "reconcile" /\ Aside /\ Quiet /\ Running
        /\ host' = host /\ run.plan \in Plans
    BY VerifyStep, Kinds DEF Running, Ended
  <1>2. ASSUME Calm' PROVE CalmThere
    BY <1>1, <1>2, CalmFrom
  <1>3. ASSUME CalmThere
        PROVE  DistributionExact(run.plan.want) /\ HostExact(run.plan.want, run.plan.owner)
    <2>1. host.owner = run.plan.owner /\ host.sidecar = run.plan.want
      BY <1>1, <1>3, CalmOwner DEF CalmThere, Swapping
    <2>2. DistributionExact(run.plan.want)
      BY <1>1, <1>3 DEF CalmThere, CalmDistribution
    <2>3. /\ host.bootstrap = run.plan.want /\ host.scout = run.plan.want
          /\ host.core = run.plan.want
          /\ run.plan.owner # None => host.bind = run.plan.owner
      BY <1>1, <1>3 DEF CalmThere, CalmHost, At
    <2>4. run.plan.owner = None => host.bind = None
      <3>1. run.plan.owner = None => run.plan.spec = None
        BY <1>1 DEF PlanFits
      <3> QED
        BY <1>1, <1>3, <3>1 DEF CalmThere, CalmSources
    <2>5. run.plan.want \in Release
      BY <1>1 DEF Plans
    <2>6. DoctorOk
      BY <2>1, <2>3, <2>4, <2>5 DEF DoctorOk
    <2>7. PublicCore <=> run.plan.owner = None
      BY <2>3, <2>4 DEF PublicCore
    <2>8. SkillsExact(run.plan.want)
      BY <2>3, PartsAre DEF SkillsExact, DesiredBundle
    <2>9. DesiredBundle(run.plan.want).core = run.plan.want
      BY DEF DesiredBundle
    <2>10. HostExact(run.plan.want, run.plan.owner)
      BY <2>1, <2>3, <2>6, <2>7, <2>8, <2>9 DEF HostExact
    <2> QED
      BY <2>2, <2>10
  <1>4. CASE ~(DistributionExact(run.plan.want) /\ HostExact(run.plan.want, run.plan.owner))
    BY <1>2, <1>3, <1>4, CalmTroubled
  <1>5. CASE Moves("receipt")
    <2>1. run'.pc = "receipt" /\ run'.op = run.op /\ run'.plan = run.plan
      BY <1>5 DEF Moves, Kept
    <2>2. CalmDistribution' /\ CalmHost'
      BY <2>1 DEF CalmDistribution, CalmHost, At, Swapping
    <2>3. CalmThere => (run.plan.spec = None /\ run.op # "sync" => host'.bind = run.plan.owner)
      BY <1>1 DEF CalmThere, CalmSources
    <2> QED
      BY <1>1, <1>5, <2>2, <2>3, CalmStep DEF Swapping, RollbackSteps, Ended
  <1> QED
    BY <1>4, <1>5, VerifyStep

LEMMA CalmWriteReceipt ==
  ASSUME TypeOK, QueueFits, PlanFits, CalmFits, WriteReceipt
  PROVE  CalmFits'
  <1>1. /\ run.pc = "receipt" /\ Aside /\ Quiet /\ Running /\ Moves("cleanup")
        /\ host' = host
    BY WriteReceiptStep DEF Running, Ended
  <1>2. run'.pc = "cleanup"
    BY <1>1 DEF Moves
  <1>3. CalmDistribution' /\ CalmHost'
    BY <1>2 DEF CalmDistribution, CalmHost, At, Swapping
  <1>4. CalmThere => (run.plan.spec = None /\ run.op # "sync" => host'.bind = run.plan.owner)
    BY <1>1 DEF CalmThere, CalmSources
  <1> QED
    BY <1>1, <1>3, <1>4, CalmStep DEF Swapping, RollbackSteps, Ended

LEMMA CalmStarts ==
  ASSUME Starts
  PROVE  CalmFits'
  <1>1. /\ run'.pc = "clone" /\ host' = host /\ run'.plan.market = host.market
        /\ run'.plan.plugin = host.plugin
        /\ \A n \in Source : run'.plan.sources[n] = host[n]
        /\ run'.plan.spec = None /\ run'.op # "sync" => run'.plan.owner = host.bind
    BY DEF Starts
  <1>2. CalmSources'
    BY <1>1 DEF CalmSources, At
  <1>3. CalmDistribution' /\ CalmHost'
    BY <1>1 DEF CalmDistribution, CalmHost, At, Swapping
  <1> QED
    BY <1>1, <1>2, <1>3, CalmGoes DEF RollbackSteps, Ended

LEMMA CalmKept ==
  ASSUME TypeOK, QueueFits, PlanFits, CalmFits, [Next]_vars
  PROVE  CalmFits'
  <1>1. CASE UNCHANGED <<run, host>>
    BY <1>1 DEF CalmFits, Calm, Running, CalmSources, CalmDistribution, CalmHost, At, Contains,
          Want, TouchesMarket, TouchesPlugin, DistributionExact
  <1>2. CASE Cleanup
    BY <1>2, CleanupStep, CalmEnds DEF Succeeds
  <1>3. CASE Compensate
    BY <1>3, CompensateStep, CalmRolling, StepSets DEF Compensation, RollbackSteps
  <1>4. CASE UndoSkill
    BY <1>4, UndoSkillStep, CalmRolling
  <1>5. CASE UndoSources
    <2>1. run.pc \in RollbackSteps /\ Quiet
      BY <1>5, UndoSourcesStep DEF Leaves, Quiet, RollbackSteps
    <2> QED
      BY <2>1, CalmRolling
  <1>6. CASE StepFails \/ UndoFails
    BY <1>6, StepFailsStep, UndoFailsStep, CalmTroubled DEF Calm
  <1>7. CASE CleanupFails
    BY <1>7, CleanupFailsStep, CalmTroubled, CalmEnds DEF Calm, Succeeds
  <1>8. CASE Crash
    BY <1>8, CrashStep, CalmEnds DEF Leaves
  <1>9. CASE Outside
    <2>1. run.pc # "done" => ~Calm'
      BY <1>9, OutsideStep DEF Calm
    <2>2. run'.pc = run.pc
      BY <1>9, OutsideStep
    <2> QED
      BY <2>1, <2>2, CalmTroubled, CalmEnds
  <1>10. CASE \E want \in Release, spec \in Commits : Inspect(want, spec)
    BY <1>1, <1>10, InspectStep
  <1>11. CASE UNCHANGED vars
    BY <1>1, <1>11 DEF vars
  <1>12. Plain => CalmFits'
    BY <1>2, <1>3, <1>4, <1>5, CalmClone, CalmMoveAside, CalmPlace, CalmRecheck, CalmDistribute,
       CalmSnapshot, CalmInstallSkill, CalmSetup, CalmVerify DEF Plain
  <1>13. Troubled => CalmFits'
    BY <1>6, <1>7, <1>8, <1>9 DEF Troubled
  <1> QED
    BY <1>10, <1>11, <1>12, <1>13, NextCases, SyncStep, ApplyStep, CalmStarts, CalmWriteReceipt

\* A run that meets no failure of its own and no change by others is never rolled back,
\* whatever a crash or a failed run before it left on the host.
THEOREM RetriesSucceed == Spec => []RetrySucceeds
  <1>1. Init => TypeOK /\ QueueFits /\ PlanFits /\ CalmFits
    <2>1. Init => run.pc = "done" /\ run.op = "sync"
      BY DEF Init
    <2> QED
      BY <2>1, InitTyped, StepSets DEF PlanFits, CalmFits, Running, Ended, RollbackSteps
  <1>2. TypeOK /\ QueueFits /\ PlanFits /\ CalmFits /\ [Next]_vars
          => (TypeOK /\ QueueFits /\ PlanFits /\ CalmFits)'
    BY TypeKept, QueueKept, PlanKept, CalmKept
  <1>3. CalmFits /\ TypeOK => RetrySucceeds
    BY DEF CalmFits, Calm, RetrySucceeds
  <1> QED
    BY <1>1, <1>2, <1>3, PTL DEF Spec
=============================================================================
