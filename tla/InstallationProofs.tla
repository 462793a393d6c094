------------------------- MODULE InstallationProofs -------------------------
(***************************************************************************)
(* What setup and core-cutover keep for any versions, documents, events    *)
(* and bounds: hooks that can run, a Skill somewhere, one version after a  *)
(* success or a rollback, approvals that are used once, and setups that    *)
(* repair what an earlier command left.                                    *)
(*                                                                         *)
(* A lemma per kind of step says what it makes of the command (Moves); the *)
(* invariants (HooksFit, SkillFits, SetupStore, CutoverStore, ApprovalsFit,*)
(* WholeFits, RepairFits) are then shown one after the other, each on top  *)
(* of those before it.                                                     *)
(***************************************************************************)
EXTENDS Installation, TLAPS

-----------------------------------------------------------------------------
(* The order of the steps.                                                 *)

LEMMA SetupOrder ==
  ASSUME NEW s, s = Order["setup"]
  PROVE  /\ Len(s) = 13
         /\ s[1] = "store" /\ s[2] = "artifact" /\ s[3] = "selftest" /\ s[4] = "target"
         /\ s[5] = "hooks" /\ s[6] = "snapshot" /\ s[7] = "prepare" /\ s[8] = "stash"
         /\ s[9] = "place" /\ s[10] = "drop" /\ s[11] = "bind" /\ s[12] = "doctor"
         /\ s[13] = "discard"
  BY DEF Order

LEMMA CutoverOrder ==
  ASSUME NEW s, s = Order["cutover"]
  PROVE  /\ Len(s) = 15
         /\ s[1] = "backup" /\ s[2] = "migrate" /\ s[3] = "artifact" /\ s[4] = "snapshot"
         /\ s[5] = "prepare" /\ s[6] = "stash" /\ s[7] = "place" /\ s[8] = "drop"
         /\ s[9] = "bind" /\ s[10] = "selftest" /\ s[11] = "replace" /\ s[12] = "hooks"
         /\ s[13] = "doctor" /\ s[14] = "discard" /\ s[15] = "unlock"
  BY DEF Order

LEMMA SetupUndoOrder ==
  ASSUME NEW s, s = UndoOrder["setup"]
  PROVE  /\ Len(s) = 6
         /\ s[1] = "undoHooks" /\ s[2] = "undoTarget" /\ s[3] = "undoSkill"
         /\ s[4] = "undoSwap" /\ s[5] = "undoRegistry" /\ s[6] = "undoStore"
  BY DEF UndoOrder

LEMMA CutoverUndoOrder ==
  ASSUME NEW s, s = UndoOrder["cutover"]
  PROVE  /\ Len(s) = 5
         /\ s[1] = "undoReplace" /\ s[2] = "undoHooks" /\ s[3] = "undoSkill"
         /\ s[4] = "undoSwap" /\ s[5] = "undoTemp"
  BY DEF UndoOrder

LEMMA Places ==
  ASSUME NEW j \in 1..15
  PROVE  j = 1 \/ j = 2 \/ j = 3 \/ j = 4 \/ j = 5 \/ j = 6 \/ j = 7 \/ j = 8 \/ j = 9
         \/ j = 10 \/ j = 11 \/ j = 12 \/ j = 13 \/ j = 14 \/ j = 15
  OBVIOUS

\* Where a step occurs once in a sequence, it is followed by its neighbour.
LEMMA FollowingIs ==
  ASSUME NEW s, NEW end, NEW k \in 1..Len(s), \A j \in 1..Len(s) : s[j] = s[k] => j = k
  PROVE  Following(s, s[k], end) = IF k = Len(s) THEN end ELSE s[k + 1]
  BY DEF Following

SetupSteps    == {"store", "artifact", "selftest", "target", "hooks", "snapshot", "prepare",
                  "stash", "place", "drop", "bind", "doctor", "discard"}
CutoverSteps  == {"backup", "migrate", "artifact", "snapshot", "prepare", "stash", "place",
                  "drop", "bind", "selftest", "replace", "hooks", "doctor", "discard", "unlock"}
SetupUndos    == {"undoHooks", "undoTarget", "undoSkill", "undoSwap", "undoRegistry", "undoStore"}
CutoverUndos  == {"undoReplace", "undoHooks", "undoSkill", "undoSwap", "undoTemp"}

LEMMA StepSets ==
  /\ Steps(Order["setup"]) = SetupSteps /\ Steps(Order["cutover"]) = CutoverSteps
  /\ Steps(UndoOrder["setup"]) = SetupUndos /\ Steps(UndoOrder["cutover"]) = CutoverUndos
  <1>1. Steps(Order["setup"]) = SetupSteps
    <2> PICK s : s = Order["setup"]
      OBVIOUS
    <2>1. Steps(s) = {s[i] : i \in 1..13}
      BY SetupOrder DEF Steps
    <2>2. \A j \in 1..13 : j \in 1..15
      OBVIOUS
    <2>3. \A j \in 1..13 : s[j] \in SetupSteps
      BY <2>2, Places, SetupOrder DEF SetupSteps
    <2> QED
      BY <2>1, <2>3, SetupOrder DEF SetupSteps
  <1>2. Steps(Order["cutover"]) = CutoverSteps
    <2> PICK s : s = Order["cutover"]
      OBVIOUS
    <2>1. Steps(s) = {s[i] : i \in 1..15}
      BY CutoverOrder DEF Steps
    <2>2. \A j \in 1..15 : s[j] \in CutoverSteps
      BY Places, CutoverOrder DEF CutoverSteps
    <2> QED
      BY <2>1, <2>2, CutoverOrder DEF CutoverSteps
  <1>3. Steps(UndoOrder["setup"]) = SetupUndos
    <2> PICK s : s = UndoOrder["setup"]
      OBVIOUS
    <2>1. Steps(s) = {s[i] : i \in 1..6}
      BY SetupUndoOrder DEF Steps
    <2>2. \A j \in 1..6 : j \in 1..15
      OBVIOUS
    <2>3. \A j \in 1..6 : s[j] \in SetupUndos
      BY <2>2, Places, SetupUndoOrder DEF SetupUndos
    <2> QED
      BY <2>1, <2>3, SetupUndoOrder DEF SetupUndos
  <1>4. Steps(UndoOrder["cutover"]) = CutoverUndos
    <2> PICK s : s = UndoOrder["cutover"]
      OBVIOUS
    <2>1. Steps(s) = {s[i] : i \in 1..5}
      BY CutoverUndoOrder DEF Steps
    <2>2. \A j \in 1..5 : j \in 1..15
      OBVIOUS
    <2>3. \A j \in 1..5 : s[j] \in CutoverUndos
      BY <2>2, Places, CutoverUndoOrder DEF CutoverUndos
    <2> QED
      BY <2>1, <2>3, CutoverUndoOrder DEF CutoverUndos
  <1> QED
    BY <1>1, <1>2, <1>3, <1>4

LEMMA SetupFollows ==
  ASSUME NEW s, s = Order["setup"]
  PROVE  /\ Following(s, "store", "done") = "artifact"
         /\ Following(s, "artifact", "done") = "selftest"
         /\ Following(s, "selftest", "done") = "target"
         /\ Following(s, "target", "done") = "hooks"
         /\ Following(s, "hooks", "done") = "snapshot"
         /\ Following(s, "snapshot", "done") = "prepare"
         /\ Following(s, "prepare", "done") = "stash"
         /\ Following(s, "stash", "done") = "place"
         /\ Following(s, "place", "done") = "drop"
         /\ Following(s, "drop", "done") = "bind"
         /\ Following(s, "bind", "done") = "doctor"
         /\ Following(s, "doctor", "done") = "discard"
         /\ Following(s, "discard", "done") = "done"
  <1>1. Len(s) = 13
    BY SetupOrder
  <1>2. ASSUME NEW i \in 1..13, NEW j \in 1..13, s[i] = s[j] PROVE i = j
    <2>1. i \in 1..15 /\ j \in 1..15
      OBVIOUS
    <2> QED
      BY <1>2, <2>1, Places, SetupOrder
  <1>3. ASSUME NEW k \in 1..13
        PROVE  Following(s, s[k], "done") = IF k = 13 THEN "done" ELSE s[k + 1]
    <2>1. k \in 1..Len(s) /\ \A j \in 1..Len(s) : s[j] = s[k] => j = k
      BY <1>1, <1>2
    <2>2. Following(s, s[k], "done") = IF k = Len(s) THEN "done" ELSE s[k + 1]
      BY <2>1, FollowingIs
    <2> QED
      BY <1>1, <2>2
  <1>4. 1 \in 1..13 /\ 2 \in 1..13 /\ 3 \in 1..13 /\ 4 \in 1..13 /\ 5 \in 1..13
        /\ 6 \in 1..13 /\ 7 \in 1..13 /\ 8 \in 1..13 /\ 9 \in 1..13 /\ 10 \in 1..13
        /\ 11 \in 1..13 /\ 12 \in 1..13 /\ 13 \in 1..13
    OBVIOUS
  <1>5. 1 + 1 = 2 /\ 2 + 1 = 3 /\ 3 + 1 = 4 /\ 4 + 1 = 5 /\ 5 + 1 = 6 /\ 6 + 1 = 7
        /\ 7 + 1 = 8 /\ 8 + 1 = 9 /\ 9 + 1 = 10 /\ 10 + 1 = 11 /\ 11 + 1 = 12
        /\ 12 + 1 = 13 /\ 1 # 13 /\ 2 # 13 /\ 3 # 13 /\ 4 # 13 /\ 5 # 13 /\ 6 # 13
        /\ 7 # 13 /\ 8 # 13 /\ 9 # 13 /\ 10 # 13 /\ 11 # 13 /\ 12 # 13
    OBVIOUS
  <1> QED
    BY <1>3, <1>4, <1>5, SetupOrder

LEMMA CutoverFollows ==
  ASSUME NEW s, s = Order["cutover"]
  PROVE  /\ Following(s, "backup", "done") = "migrate"
         /\ Following(s, "migrate", "done") = "artifact"
         /\ Following(s, "artifact", "done") = "snapshot"
         /\ Following(s, "snapshot", "done") = "prepare"
         /\ Following(s, "prepare", "done") = "stash"
         /\ Following(s, "stash", "done") = "place"
         /\ Following(s, "place", "done") = "drop"
         /\ Following(s, "drop", "done") = "bind"
         /\ Following(s, "bind", "done") = "selftest"
         /\ Following(s, "selftest", "done") = "replace"
         /\ Following(s, "replace", "done") = "hooks"
         /\ Following(s, "hooks", "done") = "doctor"
         /\ Following(s, "doctor", "done") = "discard"
         /\ Following(s, "discard", "done") = "unlock"
         /\ Following(s, "unlock", "done") = "done"
  <1>1. Len(s) = 15
    BY CutoverOrder
  <1>2. ASSUME NEW i \in 1..15, NEW j \in 1..15, s[i] = s[j] PROVE i = j
    <2>1. i \in 1..15 /\ j \in 1..15
      OBVIOUS
    <2> QED
      BY <1>2, <2>1, Places, CutoverOrder
  <1>3. ASSUME NEW k \in 1..15
        PROVE  Following(s, s[k], "done") = IF k = 15 THEN "done" ELSE s[k + 1]
    <2>1. k \in 1..Len(s) /\ \A j \in 1..Len(s) : s[j] = s[k] => j = k
      BY <1>1, <1>2
    <2>2. Following(s, s[k], "done") = IF k = Len(s) THEN "done" ELSE s[k + 1]
      BY <2>1, FollowingIs
    <2> QED
      BY <1>1, <2>2
  <1>4. 1 \in 1..15 /\ 2 \in 1..15 /\ 3 \in 1..15 /\ 4 \in 1..15 /\ 5 \in 1..15
        /\ 6 \in 1..15 /\ 7 \in 1..15 /\ 8 \in 1..15 /\ 9 \in 1..15 /\ 10 \in 1..15
        /\ 11 \in 1..15 /\ 12 \in 1..15 /\ 13 \in 1..15 /\ 14 \in 1..15 /\ 15 \in 1..15
    OBVIOUS
  <1>5. 1 + 1 = 2 /\ 2 + 1 = 3 /\ 3 + 1 = 4 /\ 4 + 1 = 5 /\ 5 + 1 = 6 /\ 6 + 1 = 7
        /\ 7 + 1 = 8 /\ 8 + 1 = 9 /\ 9 + 1 = 10 /\ 10 + 1 = 11 /\ 11 + 1 = 12
        /\ 12 + 1 = 13 /\ 13 + 1 = 14 /\ 14 + 1 = 15 /\ 1 # 15 /\ 2 # 15 /\ 3 # 15
        /\ 4 # 15 /\ 5 # 15 /\ 6 # 15 /\ 7 # 15 /\ 8 # 15 /\ 9 # 15 /\ 10 # 15
        /\ 11 # 15 /\ 12 # 15 /\ 13 # 15 /\ 14 # 15
    OBVIOUS
  <1> QED
    BY <1>3, <1>4, <1>5, CutoverOrder

LEMMA SetupUndoFollows ==
  ASSUME NEW s, s = UndoOrder["setup"]
  PROVE  /\ Following(s, "undoHooks", "undone") = "undoTarget"
         /\ Following(s, "undoTarget", "undone") = "undoSkill"
         /\ Following(s, "undoSkill", "undone") = "undoSwap"
         /\ Following(s, "undoSwap", "undone") = "undoRegistry"
         /\ Following(s, "undoRegistry", "undone") = "undoStore"
         /\ Following(s, "undoStore", "undone") = "undone"
  <1>1. Len(s) = 6
    BY SetupUndoOrder
  <1>2. ASSUME NEW i \in 1..6, NEW j \in 1..6, s[i] = s[j] PROVE i = j
    <2>1. i \in 1..15 /\ j \in 1..15
      OBVIOUS
    <2> QED
      BY <1>2, <2>1, Places, SetupUndoOrder
  <1>3. ASSUME NEW k \in 1..6
        PROVE  Following(s, s[k], "undone") = IF k = 6 THEN "undone" ELSE s[k + 1]
    <2>1. k \in 1..Len(s) /\ \A j \in 1..Len(s) : s[j] = s[k] => j = k
      BY <1>1, <1>2
    <2>2. Following(s, s[k], "undone") = IF k = Len(s) THEN "undone" ELSE s[k + 1]
      BY <2>1, FollowingIs
    <2> QED
      BY <1>1, <2>2
  <1>4. 1 \in 1..6 /\ 2 \in 1..6 /\ 3 \in 1..6 /\ 4 \in 1..6 /\ 5 \in 1..6 /\ 6 \in 1..6
    OBVIOUS
  <1>5. 1 + 1 = 2 /\ 2 + 1 = 3 /\ 3 + 1 = 4 /\ 4 + 1 = 5 /\ 5 + 1 = 6 /\ 1 # 6 /\ 2 # 6
        /\ 3 # 6 /\ 4 # 6 /\ 5 # 6
    OBVIOUS
  <1> QED
    BY <1>3, <1>4, <1>5, SetupUndoOrder

LEMMA CutoverUndoFollows ==
  ASSUME NEW s, s = UndoOrder["cutover"]
  PROVE  /\ Following(s, "undoReplace", "undone") = "undoHooks"
         /\ Following(s, "undoHooks", "undone") = "undoSkill"
         /\ Following(s, "undoSkill", "undone") = "undoSwap"
         /\ Following(s, "undoSwap", "undone") = "undoTemp"
         /\ Following(s, "undoTemp", "undone") = "undone"
  <1>1. Len(s) = 5
    BY CutoverUndoOrder
  <1>2. ASSUME NEW i \in 1..5, NEW j \in 1..5, s[i] = s[j] PROVE i = j
    <2>1. i \in 1..15 /\ j \in 1..15
      OBVIOUS
    <2> QED
      BY <1>2, <2>1, Places, CutoverUndoOrder
  <1>3. ASSUME NEW k \in 1..5
        PROVE  Following(s, s[k], "undone") = IF k = 5 THEN "undone" ELSE s[k + 1]
    <2>1. k \in 1..Len(s) /\ \A j \in 1..Len(s) : s[j] = s[k] => j = k
      BY <1>1, <1>2
    <2>2. Following(s, s[k], "undone") = IF k = Len(s) THEN "undone" ELSE s[k + 1]
      BY <2>1, FollowingIs
    <2> QED
      BY <1>1, <2>2
  <1>4. 1 \in 1..5 /\ 2 \in 1..5 /\ 3 \in 1..5 /\ 4 \in 1..5 /\ 5 \in 1..5
    OBVIOUS
  <1>5. 1 + 1 = 2 /\ 2 + 1 = 3 /\ 3 + 1 = 4 /\ 4 + 1 = 5 /\ 1 # 5 /\ 2 # 5 /\ 3 # 5
        /\ 4 # 5
    OBVIOUS
  <1> QED
    BY <1>3, <1>4, <1>5, CutoverUndoOrder

\* What comes after each step of a command and of its rollback.
LEMMA SetupNext ==
  ASSUME cmd.op = "setup"
  PROVE  /\ (At("store") => Next1(cmd) = "artifact")
         /\ (At("artifact") => Next1(cmd) = "selftest")
         /\ (At("selftest") => Next1(cmd) = "target")
         /\ (At("target") => Next1(cmd) = "hooks")
         /\ (At("hooks") => Next1(cmd) = "snapshot")
         /\ (At("snapshot") => Next1(cmd) = "prepare")
         /\ (At("prepare") => Next1(cmd) = "stash")
         /\ (At("stash") => Next1(cmd) = "place")
         /\ (At("place") => Next1(cmd) = "drop")
         /\ (At("drop") => Next1(cmd) = "bind")
         /\ (At("bind") => Next1(cmd) = "doctor")
         /\ (At("doctor") => Next1(cmd) = "discard")
         /\ (At("discard") => Next1(cmd) = "done")
         /\ (At("undoHooks") => Next1(cmd) = "undoTarget")
         /\ (At("undoTarget") => Next1(cmd) = "undoSkill")
         /\ (At("undoSkill") => Next1(cmd) = "undoSwap")
         /\ (At("undoSwap") => Next1(cmd) = "undoRegistry")
         /\ (At("undoRegistry") => Next1(cmd) = "undoStore")
         /\ (At("undoStore") => Next1(cmd) = "undone")
         /\ Following(Order[cmd.op], "drop", "done") = "bind"
         /\ UndoOrder[cmd.op][1] = "undoHooks"
  <1>1. Order[cmd.op] = Order["setup"] /\ UndoOrder[cmd.op] = UndoOrder["setup"]
    OBVIOUS
  <1> QED
    BY <1>1, StepSets, SetupFollows, SetupUndoFollows, SetupUndoOrder DEF Next1, At, SetupSteps, SetupUndos

LEMMA CutoverNext ==
  ASSUME cmd.op = "cutover"
  PROVE  /\ (At("backup") => Next1(cmd) = "migrate")
         /\ (At("migrate") => Next1(cmd) = "artifact")
         /\ (At("artifact") => Next1(cmd) = "snapshot")
         /\ (At("snapshot") => Next1(cmd) = "prepare")
         /\ (At("prepare") => Next1(cmd) = "stash")
         /\ (At("stash") => Next1(cmd) = "place")
         /\ (At("place") => Next1(cmd) = "drop")
         /\ (At("drop") => Next1(cmd) = "bind")
         /\ (At("bind") => Next1(cmd) = "selftest")
         /\ (At("selftest") => Next1(cmd) = "replace")
         /\ (At("replace") => Next1(cmd) = "hooks")
         /\ (At("hooks") => Next1(cmd) = "doctor")
         /\ (At("doctor") => Next1(cmd) = "discard")
         /\ (At("discard") => Next1(cmd) = "unlock")
         /\ (At("unlock") => Next1(cmd) = "done")
         /\ (At("undoReplace") => Next1(cmd) = "undoHooks")
         /\ (At("undoHooks") => Next1(cmd) = "undoSkill")
         /\ (At("undoSkill") => Next1(cmd) = "undoSwap")
         /\ (At("undoSwap") => Next1(cmd) = "undoTemp")
         /\ (At("undoTemp") => Next1(cmd) = "undone")
         /\ Following(Order[cmd.op], "drop", "done") = "bind"
         /\ UndoOrder[cmd.op][1] = "undoReplace"
  <1>1. Order[cmd.op] = Order["cutover"] /\ UndoOrder[cmd.op] = UndoOrder["cutover"]
    OBVIOUS
  <1> QED
    BY <1>1, StepSets, CutoverFollows, CutoverUndoFollows, CutoverUndoOrder DEF Next1, At, CutoverSteps, CutoverUndos

-----------------------------------------------------------------------------
(* What the steps make of the command.                                     *)

AllPcs == SetupSteps \union CutoverSteps \union SetupUndos \union CutoverUndos \union Ended
Commands == {"setup", "cutover"}

LEMMA PcSets ==
  /\ Pcs("setup") = SetupSteps \union SetupUndos \union Ended
  /\ Pcs("cutover") = CutoverSteps \union CutoverUndos \union Ended
  /\ Undos("setup") = SetupUndos /\ Undos("cutover") = CutoverUndos
  /\ Pcs("setup") \union Pcs("cutover") = AllPcs
  <1>1. Undos("setup") = SetupUndos /\ Undos("cutover") = CutoverUndos
    BY StepSets DEF Undos
  <1>2. /\ Pcs("setup") = SetupSteps \union SetupUndos \union Ended
        /\ Pcs("cutover") = CutoverSteps \union CutoverUndos \union Ended
    BY <1>1, StepSets DEF Pcs
  <1> QED
    BY <1>1, <1>2 DEF AllPcs

\* Where it is tells what kind of command it is.
LEMMA Kinds ==
  ASSUME TypeOK
  PROVE  /\ cmd.op \in Commands /\ cmd \in Cmds
         /\ cmd.pc \in {"store", "target", "undoTarget", "undoRegistry", "undoStore"} =>
              cmd.op = "setup"
         /\ cmd.pc \in {"backup", "migrate", "replace", "unlock", "undoReplace", "undoTemp"} =>
              cmd.op = "cutover"
         /\ cmd.op = "setup" => cmd.pc \in SetupSteps \union SetupUndos \union Ended
         /\ cmd.op = "cutover" => cmd.pc \in CutoverSteps \union CutoverUndos \union Ended
  <1>1. cmd.op \in Commands /\ cmd \in Cmds /\ cmd.pc \in Pcs(cmd.op)
    BY DEF TypeOK, Cmds, Commands
  <1>2. CASE cmd.op = "setup"
    BY <1>1, <1>2, PcSets DEF SetupSteps, SetupUndos, Ended
  <1>3. CASE cmd.op = "cutover"
    BY <1>1, <1>3, PcSets DEF CutoverSteps, CutoverUndos, Ended
  <1> QED
    BY <1>1, <1>2, <1>3 DEF Commands

Kept == /\ cmd'.op = cmd.op /\ cmd'.ver = cmd.ver /\ cmd'.global = cmd.global
        /\ cmd'.doc = cmd.doc /\ cmd'.approval = cmd.approval /\ cmd'.whole = cmd.whole
Moves(s) == cmd' \in Cmds /\ cmd'.pc = s /\ Kept
Remembered == cmd'.start = cmd.start /\ cmd'.temp = cmd.temp
Done == cmd'.wrote = cmd.wrote /\ cmd'.snapped = cmd.snapped /\ cmd'.made = cmd.made
Quiet == cmd'.fault = cmd.fault /\ cmd'.disturbed = cmd.disturbed
Same == Remembered /\ Done /\ Quiet

LEMMA CmdTypes ==
  ASSUME TypeOK
  PROVE  /\ cmd \in Cmds /\ store \in Stores /\ hooks \in Hooks /\ skill \in Skills
         /\ target \in Doc \union {None} /\ source \in Doc
         /\ Running => cmd.ver \in Version /\ cmd.start \in Starts
  BY DEF TypeOK

LEMMA PcMoves ==
  ASSUME TypeOK, NEW s \in AllPcs, cmd' = [cmd EXCEPT !.pc = s]
  PROVE  Moves(s) /\ Same
  BY PcSets, CmdTypes DEF Cmds, Moves, Kept, Same, Remembered, Done, Quiet

LEMMA MadeMoves ==
  ASSUME TypeOK, NEW s \in AllPcs, cmd' = [cmd EXCEPT !.pc = s, !.made = TRUE]
  PROVE  Moves(s) /\ Remembered /\ Quiet /\ cmd'.wrote = cmd.wrote
         /\ cmd'.snapped = cmd.snapped /\ cmd'.made
  BY PcSets, CmdTypes DEF Cmds, Moves, Kept, Remembered, Quiet

LEMMA TempMoves ==
  ASSUME TypeOK, NEW s \in AllPcs, NEW t \in Stores \union {None},
         cmd' = [cmd EXCEPT !.pc = s, !.temp = t]
  PROVE  Moves(s) /\ Done /\ Quiet /\ cmd'.start = cmd.start /\ cmd'.temp = t
  BY PcSets, CmdTypes DEF Cmds, Moves, Kept, Done, Quiet

LEMMA SnappedMoves ==
  ASSUME TypeOK, NEW s \in AllPcs, cmd' = [cmd EXCEPT !.pc = s, !.snapped = FALSE]
  PROVE  Moves(s) /\ Remembered /\ Quiet /\ cmd'.wrote = cmd.wrote /\ cmd'.made = cmd.made
         /\ ~cmd'.snapped
  BY PcSets, CmdTypes DEF Cmds, Moves, Kept, Remembered, Quiet

LEMMA ReplaceMoves ==
  ASSUME TypeOK, NEW s \in AllPcs, cmd' = [cmd EXCEPT !.pc = s, !.made = TRUE, !.temp = None]
  PROVE  Moves(s) /\ Quiet /\ cmd'.start = cmd.start /\ cmd'.wrote = cmd.wrote
         /\ cmd'.snapped = cmd.snapped /\ cmd'.made
  BY PcSets, CmdTypes DEF Cmds, Moves, Kept, Quiet

LEMMA FaultMoves ==
  ASSUME TypeOK, NEW s \in AllPcs, cmd' = [cmd EXCEPT !.pc = s, !.fault = TRUE]
  PROVE  Moves(s) /\ Remembered /\ Done /\ cmd'.fault /\ cmd'.disturbed = cmd.disturbed
  BY PcSets, CmdTypes DEF Cmds, Moves, Kept, Remembered, Done

LEMMA BrokenMoves ==
  ASSUME TypeOK, NEW s \in AllPcs, cmd' = [cmd EXCEPT !.pc = s, !.fault = TRUE, !.temp = None]
  PROVE  Moves(s) /\ cmd'.fault /\ cmd'.disturbed = cmd.disturbed
  BY PcSets, CmdTypes DEF Cmds, Moves, Kept

LEMMA DisturbedMoves ==
  ASSUME TypeOK, cmd' = [cmd EXCEPT !.disturbed = TRUE]
  PROVE  Moves(cmd.pc) /\ Remembered /\ Done /\ cmd'.fault = cmd.fault /\ cmd'.disturbed
  BY PcSets, CmdTypes DEF Cmds, Moves, Kept, Remembered, Done

\* A command reads once more what it may put back.
LEMMA StartMoves ==
  ASSUME TypeOK, NEW s \in AllPcs, NEW c, NEW w \in BOOLEAN, NEW x \in BOOLEAN, c \in Starts,
         cmd' = [cmd EXCEPT !.pc = s, !.start = c, !.wrote = w, !.snapped = x]
  PROVE  Moves(s) /\ Quiet /\ cmd'.start = c /\ cmd'.wrote = w /\ cmd'.snapped = x
         /\ cmd'.made = cmd.made /\ cmd'.temp = cmd.temp
  BY PcSets, CmdTypes DEF Cmds, Moves, Kept, Quiet

-----------------------------------------------------------------------------
(* The steps of a command.                                                 *)

\* The step after x: a setup goes to s, a cutover to t.
LEMMA Goes ==
  ASSUME TypeOK, NEW s \in AllPcs, NEW t \in AllPcs, Advance,
         cmd.op = "setup" => Next1(cmd) = s, cmd.op = "cutover" => Next1(cmd) = t
  PROVE  Moves(IF cmd.op = "setup" THEN s ELSE t) /\ Same
  <1>1. CASE cmd.op = "setup"
    BY <1>1, PcMoves DEF Advance
  <1>2. CASE cmd.op # "setup"
    BY <1>2, PcMoves, Kinds DEF Advance, Commands
  <1> QED
    BY <1>1, <1>2

LEMMA InstallArtifactStep ==
  ASSUME TypeOK, InstallArtifact
  PROVE  /\ cmd.pc = "artifact" /\ Moves(IF cmd.op = "setup" THEN "selftest" ELSE "snapshot") /\ Same
  <1>1. "selftest" \in AllPcs /\ "snapshot" \in AllPcs
    BY DEF AllPcs, SetupSteps, CutoverSteps, SetupUndos, CutoverUndos, Ended
  <1>2. cmd.pc = "artifact" /\ Advance
    BY DEF InstallArtifact, At
  <1>3. Moves(IF cmd.op = "setup" THEN "selftest" ELSE "snapshot") /\ Same
    <2>1. cmd.op = "setup" => Next1(cmd) = "selftest"
      BY <1>2, SetupNext DEF At
    <2>2. cmd.op = "cutover" => Next1(cmd) = "snapshot"
      BY <1>2, CutoverNext DEF At
    <2> QED
      BY <1>1, <1>2, <2>1, <2>2, Goes
  <1> QED
    BY <1>2, <1>3, Kinds

LEMMA SelfTestStep ==
  ASSUME TypeOK, SelfTest
  PROVE  /\ cmd.pc = "selftest" /\ Moves(IF cmd.op = "setup" THEN "target" ELSE "replace") /\ Same
  <1>1. "target" \in AllPcs /\ "replace" \in AllPcs
    BY DEF AllPcs, SetupSteps, CutoverSteps, SetupUndos, CutoverUndos, Ended
  <1>2. cmd.pc = "selftest" /\ Advance
    BY DEF SelfTest, At
  <1>3. Moves(IF cmd.op = "setup" THEN "target" ELSE "replace") /\ Same
    <2>1. cmd.op = "setup" => Next1(cmd) = "target"
      BY <1>2, SetupNext DEF At
    <2>2. cmd.op = "cutover" => Next1(cmd) = "replace"
      BY <1>2, CutoverNext DEF At
    <2> QED
      BY <1>1, <1>2, <2>1, <2>2, Goes
  <1> QED
    BY <1>2, <1>3, Kinds

LEMMA WriteHooksStep ==
  ASSUME TypeOK, WriteHooks
  PROVE  /\ cmd.pc = "hooks" /\ Moves(IF cmd.op = "setup" THEN "snapshot" ELSE "doctor") /\ Same
  <1>1. "snapshot" \in AllPcs /\ "doctor" \in AllPcs
    BY DEF AllPcs, SetupSteps, CutoverSteps, SetupUndos, CutoverUndos, Ended
  <1>2. cmd.pc = "hooks" /\ Advance
    BY DEF WriteHooks, At
  <1>3. Moves(IF cmd.op = "setup" THEN "snapshot" ELSE "doctor") /\ Same
    <2>1. cmd.op = "setup" => Next1(cmd) = "snapshot"
      BY <1>2, SetupNext DEF At
    <2>2. cmd.op = "cutover" => Next1(cmd) = "doctor"
      BY <1>2, CutoverNext DEF At
    <2> QED
      BY <1>1, <1>2, <2>1, <2>2, Goes
  <1> QED
    BY <1>2, <1>3, Kinds

LEMMA StashStep ==
  ASSUME TypeOK, Stash
  PROVE  /\ cmd.pc = "stash" /\ Moves("place") /\ Same
  <1>1. cmd.pc = "stash" /\ Advance /\ "place" \in AllPcs
    BY DEF Stash, At, AllPcs, SetupSteps, CutoverSteps, SetupUndos, CutoverUndos, Ended
  <1>2. Next1(cmd) = "place"
    BY <1>1, SetupNext, CutoverNext, Kinds DEF At, Commands
  <1> QED
    BY <1>1, <1>2, PcMoves DEF Advance

LEMMA PlaceStep ==
  ASSUME TypeOK, Place
  PROVE  /\ cmd.pc = "place" /\ Moves("drop") /\ Same
  <1>1. cmd.pc = "place" /\ Advance /\ "drop" \in AllPcs
    BY DEF Place, At, AllPcs, SetupSteps, CutoverSteps, SetupUndos, CutoverUndos, Ended
  <1>2. Next1(cmd) = "drop"
    BY <1>1, SetupNext, CutoverNext, Kinds DEF At, Commands
  <1> QED
    BY <1>1, <1>2, PcMoves DEF Advance

LEMMA DropStep ==
  ASSUME TypeOK, Drop
  PROVE  /\ cmd.pc = "drop" /\ Moves("bind") /\ Same
  <1>1. cmd.pc = "drop" /\ Advance /\ "bind" \in AllPcs
    BY DEF Drop, At, AllPcs, SetupSteps, CutoverSteps, SetupUndos, CutoverUndos, Ended
  <1>2. Next1(cmd) = "bind"
    BY <1>1, SetupNext, CutoverNext, Kinds DEF At, Commands
  <1> QED
    BY <1>1, <1>2, PcMoves DEF Advance

LEMMA UnlockStep ==
  ASSUME TypeOK, Unlock
  PROVE  /\ cmd.pc = "unlock" /\ cmd.op = "cutover" /\ Moves("done") /\ Same
  <1>1. cmd.pc = "unlock" /\ Advance /\ "done" \in AllPcs
    BY DEF Unlock, At, AllPcs, SetupSteps, CutoverSteps, SetupUndos, CutoverUndos, Ended
  <1>2. cmd.op = "cutover" /\ Next1(cmd) = "done"
    BY <1>1, CutoverNext, Kinds DEF At, Commands
  <1> QED
    BY <1>1, <1>2, PcMoves DEF Advance

LEMMA UndoReplaceStep ==
  ASSUME TypeOK, UndoReplace
  PROVE  /\ cmd.pc = "undoReplace" /\ cmd.op = "cutover" /\ Moves("undoHooks") /\ Same
  <1>1. cmd.pc = "undoReplace" /\ Advance /\ "undoHooks" \in AllPcs
    BY DEF UndoReplace, At, AllPcs, SetupSteps, CutoverSteps, SetupUndos, CutoverUndos, Ended
  <1>2. cmd.op = "cutover" /\ Next1(cmd) = "undoHooks"
    BY <1>1, CutoverNext, Kinds DEF At, Commands
  <1> QED
    BY <1>1, <1>2, PcMoves DEF Advance

LEMMA UndoHooksStep ==
  ASSUME TypeOK, UndoHooks
  PROVE  /\ cmd.pc = "undoHooks" /\ Moves(IF cmd.op = "setup" THEN "undoTarget" ELSE "undoSkill") /\ Same
  <1>1. "undoTarget" \in AllPcs /\ "undoSkill" \in AllPcs
    BY DEF AllPcs, SetupSteps, CutoverSteps, SetupUndos, CutoverUndos, Ended
  <1>2. cmd.pc = "undoHooks" /\ Advance
    BY DEF UndoHooks, At
  <1>3. Moves(IF cmd.op = "setup" THEN "undoTarget" ELSE "undoSkill") /\ Same
    <2>1. cmd.op = "setup" => Next1(cmd) = "undoTarget"
      BY <1>2, SetupNext DEF At
    <2>2. cmd.op = "cutover" => Next1(cmd) = "undoSkill"
      BY <1>2, CutoverNext DEF At
    <2> QED
      BY <1>1, <1>2, <2>1, <2>2, Goes
  <1> QED
    BY <1>2, <1>3, Kinds

LEMMA UndoTargetStep ==
  ASSUME TypeOK, UndoTarget
  PROVE  /\ cmd.pc = "undoTarget" /\ cmd.op = "setup" /\ Moves("undoSkill") /\ Same
  <1>1. cmd.pc = "undoTarget" /\ Advance /\ "undoSkill" \in AllPcs
    BY DEF UndoTarget, At, AllPcs, SetupSteps, CutoverSteps, SetupUndos, CutoverUndos, Ended
  <1>2. cmd.op = "setup" /\ Next1(cmd) = "undoSkill"
    BY <1>1, SetupNext, Kinds DEF At, Commands
  <1> QED
    BY <1>1, <1>2, PcMoves DEF Advance

LEMMA UndoSkillStep ==
  ASSUME TypeOK, UndoSkill
  PROVE  /\ cmd.pc = "undoSkill" /\ Moves("undoSwap") /\ Same
  <1>1. cmd.pc = "undoSkill" /\ Advance /\ "undoSwap" \in AllPcs
    BY DEF UndoSkill, At, AllPcs, SetupSteps, CutoverSteps, SetupUndos, CutoverUndos, Ended
  <1>2. Next1(cmd) = "undoSwap"
    BY <1>1, SetupNext, CutoverNext, Kinds DEF At, Commands
  <1> QED
    BY <1>1, <1>2, PcMoves DEF Advance

LEMMA UndoRegistryStep ==
  ASSUME TypeOK, UndoRegistry
  PROVE  /\ cmd.pc = "undoRegistry" /\ cmd.op = "setup" /\ Moves("undoStore") /\ Same
  <1>1. cmd.pc = "undoRegistry" /\ Advance /\ "undoStore" \in AllPcs
    BY DEF UndoRegistry, At, AllPcs, SetupSteps, CutoverSteps, SetupUndos, CutoverUndos, Ended
  <1>2. cmd.op = "setup" /\ Next1(cmd) = "undoStore"
    BY <1>1, SetupNext, Kinds DEF At, Commands
  <1> QED
    BY <1>1, <1>2, PcMoves DEF Advance

LEMMA UndoStoreStep ==
  ASSUME TypeOK, UndoStore
  PROVE  /\ cmd.pc = "undoStore" /\ cmd.op = "setup" /\ Moves("undone") /\ Same
  <1>1. cmd.pc = "undoStore" /\ Advance /\ "undone" \in AllPcs
    BY DEF UndoStore, At, AllPcs, SetupSteps, CutoverSteps, SetupUndos, CutoverUndos, Ended
  <1>2. cmd.op = "setup" /\ Next1(cmd) = "undone"
    BY <1>1, SetupNext, Kinds DEF At, Commands
  <1> QED
    BY <1>1, <1>2, PcMoves DEF Advance

\* A step that does more to the command than advance it.
LEMMA CreateStoreStep ==
  ASSUME TypeOK, CreateStore
  PROVE  /\ cmd.pc = "store" /\ cmd.op = "setup" /\ Moves("artifact") /\ Remembered /\ Quiet
         /\ cmd'.wrote = cmd.wrote /\ cmd'.snapped = cmd.snapped
         /\ IF cmd.start.store.kind = "absent" THEN store' = Empty /\ cmd'.made
            ELSE store' = store /\ cmd'.made = cmd.made
  <1>1. cmd.pc = "store" /\ cmd.op = "setup" /\ Next1(cmd) = "artifact" /\ "artifact" \in AllPcs
    BY SetupNext, Kinds DEF CreateStore, At, AllPcs, SetupSteps
  <1>2. CASE /\ cmd.start.store.kind = "absent" /\ store' = Empty
             /\ cmd' = [cmd EXCEPT !.pc = Next1(cmd), !.made = TRUE]
    BY <1>1, <1>2, MadeMoves
  <1>3. CASE cmd.start.store.kind # "absent" /\ store' = store /\ Advance
    BY <1>1, <1>3, PcMoves DEF Advance, Same, Done
  <1> QED
    BY <1>1, <1>2, <1>3 DEF CreateStore

LEMMA BackupStep ==
  ASSUME TypeOK, Backup
  PROVE  /\ cmd.pc = "backup" /\ cmd.op = "cutover" /\ Moves("migrate") /\ Done /\ Quiet
         /\ cmd'.temp = cmd.temp /\ cmd'.start \in Starts
         /\ cmd'.start.store = store /\ cmd'.start.hooks = hooks
         /\ cmd'.start.target = cmd.start.target /\ cmd'.start.skill = cmd.start.skill
  <1>1. cmd.pc = "backup" /\ cmd.op = "cutover" /\ Next1(cmd) = "migrate" /\ "migrate" \in AllPcs
    BY CutoverNext, Kinds DEF Backup, At, AllPcs, CutoverSteps
  <1>2. cmd.start \in Starts /\ store \in Stores /\ hooks \in Hooks
    BY <1>1 DEF TypeOK, Running, Ended
  <1> PICK st : st = cmd.start
    OBVIOUS
  <1> PICK new : new = [st EXCEPT !.store = store, !.hooks = hooks]
    OBVIOUS
  <1>3. new \in Starts /\ new.store = store /\ new.hooks = hooks /\ new.target = st.target
        /\ new.skill = st.skill
    BY <1>2 DEF Starts
  <1>4. cmd' = [cmd EXCEPT !.pc = "migrate", !.start = new]
    <2>1. cmd \in Cmds
      BY DEF TypeOK
    <2>2. cmd' = [cmd EXCEPT !.pc = "migrate", !.start.store = store, !.start.hooks = hooks]
      BY <1>1 DEF Backup
    <2> QED
      BY <2>1, <2>2 DEF Cmds
  <1>5. Moves("migrate") /\ Done /\ Quiet /\ cmd'.temp = cmd.temp /\ cmd'.start = new
    BY <1>1, <1>3, <1>4, PcSets, CmdTypes DEF Cmds, Moves, Kept, Done, Quiet
  <1> QED
    BY <1>1, <1>3, <1>5

LEMMA MigratedTypes ==
  ASSUME NEW s \in Stores, NEW e \in Event
  PROVE  /\ Migrated(s, e) \in Stores /\ Migrated(s, e).kind = "core"
         /\ Migrated(s, e).events = EventsKept(s) /\ Migrated(s, e).live = SessionsKept(s)
         /\ Migrated(s, e).used = ConsumptionsKept(s) \union {e}
  <1>1. /\ EventsKept(s) \in SUBSET Event /\ SessionsKept(s) \in SUBSET Event
        /\ ConsumptionsKept(s) \in SUBSET Event /\ s.bind \in Doc \union {None}
    BY DEF Stores, EventsKept, SessionsKept, ConsumptionsKept
  <1>2. Empty \in Stores /\ Empty.kind = "core"
    <2>1. 0 \in 0..OldEvents
      BY BoundsAssumption
    <2> QED
      BY <2>1 DEF Empty, Absent, Stores
  <1> PICK a : a = Empty
    OBVIOUS
  <1> PICK b : b = [a EXCEPT !.events = EventsKept(s), !.live = SessionsKept(s),
                             !.used = ConsumptionsKept(s)]
    OBVIOUS
  <1>3. /\ b \in Stores /\ b.kind = "core" /\ b.events = EventsKept(s)
        /\ b.live = SessionsKept(s) /\ b.used = ConsumptionsKept(s)
    BY <1>1, <1>2 DEF Stores
  <1> PICK c : c = [b EXCEPT !.bind = s.bind]
    OBVIOUS
  <1>4. /\ c \in Stores /\ c.kind = "core" /\ c.events = b.events /\ c.live = b.live
        /\ c.used = b.used
    BY <1>1, <1>3 DEF Stores
  <1> PICK d : d = [c EXCEPT !.used = @ \union {e}]
    OBVIOUS
  <1>5. /\ d \in Stores /\ d.kind = "core" /\ d.events = c.events /\ d.live = c.live
        /\ d.used = c.used \union {e}
    BY <1>4 DEF Stores
  <1>6. Migrated(s, e) = d
    BY DEF Migrated, CutoverConsumed, BindingKept
  <1> QED
    BY <1>3, <1>4, <1>5, <1>6

LEMMA MigrateStep ==
  ASSUME TypeOK, Migrate
  PROVE  /\ cmd.pc = "migrate" /\ cmd.op = "cutover" /\ Moves("artifact") /\ Done /\ Quiet
         /\ cmd'.start = cmd.start /\ cmd'.temp = Migrated(store, cmd.approval)
  <1>1. cmd.pc = "migrate" /\ cmd.op = "cutover" /\ Next1(cmd) = "artifact" /\ "artifact" \in AllPcs
    BY CutoverNext, Kinds DEF Migrate, At, AllPcs, CutoverSteps
  <1>2. store \in Stores /\ cmd.approval \in Event
    BY <1>1 DEF TypeOK, Running, Ended
  <1>3. Migrated(store, cmd.approval) \in Stores
    BY <1>2, MigratedTypes
  <1> QED
    BY <1>1, <1>3, TempMoves DEF Migrate

LEMMA BoundTypes ==
  ASSUME NEW s \in Stores, NEW v \in Version \union {None}, NEW d \in Doc \union {None}
  PROVE  /\ [s EXCEPT !.row = v] \in Stores /\ [s EXCEPT !.bind = d] \in Stores
         /\ [s EXCEPT !.row = v].kind = s.kind /\ [s EXCEPT !.row = v].bind = s.bind
         /\ [s EXCEPT !.row = v].events = s.events /\ [s EXCEPT !.row = v].live = s.live
         /\ [s EXCEPT !.row = v].used = s.used /\ [s EXCEPT !.row = v].doubt = s.doubt
         /\ [s EXCEPT !.row = v].row = v
         /\ [s EXCEPT !.bind = d].kind = s.kind /\ [s EXCEPT !.bind = d].row = s.row
         /\ [s EXCEPT !.bind = d].events = s.events /\ [s EXCEPT !.bind = d].live = s.live
         /\ [s EXCEPT !.bind = d].used = s.used /\ [s EXCEPT !.bind = d].doubt = s.doubt
         /\ [s EXCEPT !.bind = d].bind = d
  BY DEF Stores

LEMMA StoreBound ==
  ASSUME TypeOK, cmd.ver \in Version, NEW s \in Stores
  PROVE  /\ RuntimeBound(s) \in Stores /\ RuntimeBound(s).row = cmd.ver
         /\ RuntimeBound(s).kind = s.kind /\ RuntimeBound(s).bind = s.bind
         /\ RuntimeBound(s).events = s.events /\ RuntimeBound(s).live = s.live
         /\ RuntimeBound(s).used = s.used /\ RuntimeBound(s).doubt = s.doubt
         /\ GlobalBound(RuntimeBound(s)) \in Stores /\ GlobalBound(RuntimeBound(s)).row = cmd.ver
         /\ GlobalBound(RuntimeBound(s)).kind = s.kind
         /\ GlobalBound(RuntimeBound(s)).events = s.events
         /\ GlobalBound(RuntimeBound(s)).live = s.live
         /\ GlobalBound(RuntimeBound(s)).used = s.used
         /\ GlobalBound(RuntimeBound(s)).doubt = s.doubt
         /\ GlobalBound(RuntimeBound(s)).bind = IF cmd.global THEN cmd.doc ELSE s.bind
  <1>1. /\ RuntimeBound(s) \in Stores /\ RuntimeBound(s).row = cmd.ver
        /\ RuntimeBound(s).kind = s.kind /\ RuntimeBound(s).bind = s.bind
        /\ RuntimeBound(s).events = s.events /\ RuntimeBound(s).live = s.live
        /\ RuntimeBound(s).used = s.used /\ RuntimeBound(s).doubt = s.doubt
    BY DEF RuntimeBound, Stores
  <1> PICK r : r = RuntimeBound(s)
    OBVIOUS
  <1>2. cmd.doc \in Doc \union {None} /\ cmd.global \in BOOLEAN
    BY DEF TypeOK, Cmds
  <1>3. /\ GlobalBound(r) \in Stores /\ GlobalBound(r).row = r.row
        /\ GlobalBound(r).kind = r.kind /\ GlobalBound(r).events = r.events
        /\ GlobalBound(r).live = r.live /\ GlobalBound(r).used = r.used
        /\ GlobalBound(r).doubt = r.doubt
        /\ GlobalBound(r).bind = IF cmd.global THEN cmd.doc ELSE r.bind
    BY <1>1, <1>2 DEF GlobalBound, Stores
  <1> QED
    BY <1>1, <1>3

LEMMA BindStep ==
  ASSUME TypeOK, Bind
  PROVE  /\ cmd.pc = "bind" /\ Running /\ Done /\ Quiet /\ cmd'.start = cmd.start
         /\ cmd.op = "setup" => /\ Moves("doctor") /\ cmd'.temp = cmd.temp
                                /\ store' = GlobalBound(RuntimeBound(store))
         /\ cmd.op = "cutover" => /\ Moves("selftest") /\ cmd.temp \in Stores
                                  /\ cmd'.temp = RuntimeBound(cmd.temp) /\ store' = store
  <1>1. cmd.pc = "bind" /\ Running /\ "doctor" \in AllPcs /\ "selftest" \in AllPcs
        /\ cmd.ver \in Version
    BY DEF Bind, At, AllPcs, CutoverSteps, Running, Ended, TypeOK
  <1>2. CASE cmd.op = "setup"
    <2>1. Next1(cmd) = "doctor"
      BY <1>1, <1>2, SetupNext DEF At
    <2> QED
      BY <1>1, <1>2, <2>1, PcMoves DEF Bind, Advance, Same, Remembered
  <1>3. CASE cmd.op = "cutover"
    <2>1. Next1(cmd) = "selftest"
      BY <1>1, <1>3, CutoverNext DEF At
    <2>2. cmd.temp \in Stores
      BY <1>1, <1>3 DEF TypeOK, Migrating
    <2>3. RuntimeBound(cmd.temp) \in Stores
      BY <1>1, <2>2, StoreBound
    <2>4. cmd' = [cmd EXCEPT !.pc = "selftest", !.temp = RuntimeBound(cmd.temp)]
      BY <1>3, <2>1 DEF Bind
    <2> QED
      BY <1>1, <1>3, <2>2, <2>3, <2>4, TempMoves DEF Bind
  <1> QED
    BY <1>1, <1>2, <1>3, Kinds DEF Commands

LEMMA ReplaceStoreStep ==
  ASSUME TypeOK, ReplaceStore
  PROVE  /\ cmd.pc = "replace" /\ cmd.op = "cutover" /\ Moves("hooks") /\ Quiet
         /\ cmd'.start = cmd.start /\ cmd'.wrote = cmd.wrote /\ cmd'.snapped = cmd.snapped
         /\ cmd'.made /\ store' = cmd.temp /\ cmd.temp \in Stores
  <1>1. cmd.pc = "replace" /\ cmd.op = "cutover" /\ Next1(cmd) = "hooks" /\ "hooks" \in AllPcs
    BY CutoverNext, Kinds DEF ReplaceStore, At, AllPcs, CutoverSteps
  <1>2. cmd.temp \in Stores
    BY <1>1 DEF TypeOK, Migrating
  <1> QED
    BY <1>1, <1>2, ReplaceMoves DEF ReplaceStore

LEMMA WriteTargetStep ==
  ASSUME TypeOK, WriteTarget
  PROVE  /\ cmd.pc = "target" /\ cmd.op = "setup" /\ Moves("hooks") /\ Quiet
         /\ cmd'.temp = cmd.temp /\ cmd'.made = cmd.made /\ cmd'.snapped = cmd.snapped
         /\ cmd'.start \in Starts /\ cmd'.start.store = cmd.start.store
         /\ cmd'.start.hooks = cmd.start.hooks /\ cmd'.start.skill = cmd.start.skill
         /\ target' = IF cmd.global /\ cmd.start.target # cmd.doc THEN source ELSE target
  <1>1. cmd.pc = "target" /\ cmd.op = "setup" /\ Next1(cmd) = "hooks" /\ "hooks" \in AllPcs
    BY SetupNext, Kinds DEF WriteTarget, At, AllPcs, SetupSteps
  <1>2. cmd.start \in Starts /\ target \in Doc \union {None} /\ cmd \in Cmds
    BY <1>1 DEF TypeOK, Running, Ended
  <1>3. CASE cmd.global /\ cmd.start.target # cmd.doc
    <2> PICK st : st = cmd.start
      OBVIOUS
    <2> PICK new : new = [st EXCEPT !.target = target]
      OBVIOUS
    <2>1. new \in Starts /\ new.store = st.store /\ new.hooks = st.hooks /\ new.skill = st.skill
      BY <1>2 DEF Starts
    <2>2. cmd' = [cmd EXCEPT !.pc = "hooks", !.wrote = TRUE, !.start.target = target]
      BY <1>1, <1>3 DEF WriteTarget
    <2>3. cmd' = [cmd EXCEPT !.pc = "hooks", !.start = new, !.wrote = TRUE,
                             !.snapped = cmd.snapped]
      BY <1>2, <2>2 DEF Cmds
    <2>4. cmd.snapped \in BOOLEAN
      BY <1>2 DEF Cmds
    <2>5. /\ Moves("hooks") /\ Quiet /\ cmd'.start = new /\ cmd'.snapped = cmd.snapped
          /\ cmd'.made = cmd.made /\ cmd'.temp = cmd.temp
      BY <1>1, <2>1, <2>3, <2>4, StartMoves
    <2>6. target' = source
      BY <1>3 DEF WriteTarget
    <2> QED
      BY <1>1, <1>3, <2>1, <2>5, <2>6
  <1>4. CASE ~(cmd.global /\ cmd.start.target # cmd.doc)
    BY <1>1, <1>2, <1>4, PcMoves DEF WriteTarget, Advance, Same, Remembered, Done
  <1> QED
    BY <1>3, <1>4

LEMMA SnapshotStep ==
  ASSUME TypeOK, Snapshot
  PROVE  /\ cmd.pc = "snapshot" /\ Moves("prepare") /\ Quiet
         /\ cmd'.temp = cmd.temp /\ cmd'.made = cmd.made /\ cmd'.snapped
         /\ cmd'.start \in Starts /\ cmd'.start.store = cmd.start.store
         /\ cmd'.start.hooks = cmd.start.hooks /\ cmd'.start.target = cmd.start.target
         /\ cmd'.start.skill = skill.dir
  <1>1. cmd.pc = "snapshot" /\ Next1(cmd) = "prepare" /\ "prepare" \in AllPcs
    BY SetupNext, CutoverNext, Kinds DEF Snapshot, At, AllPcs, SetupSteps, Commands
  <1>2. cmd.start \in Starts /\ skill.dir \in Version \union {None} /\ cmd \in Cmds
    BY <1>1 DEF TypeOK, Running, Ended, Skills
  <1> PICK st : st = cmd.start
    OBVIOUS
  <1> PICK new : new = [st EXCEPT !.skill = skill.dir]
    OBVIOUS
  <1>3. new \in Starts /\ new.store = st.store /\ new.hooks = st.hooks /\ new.target = st.target
        /\ new.skill = skill.dir
    BY <1>2 DEF Starts
  <1>4. cmd' = [cmd EXCEPT !.pc = "prepare", !.snapped = TRUE, !.start.skill = skill.dir]
    BY <1>1 DEF Snapshot
  <1>5. cmd' = [cmd EXCEPT !.pc = "prepare", !.start = new, !.wrote = cmd.wrote,
                           !.snapped = TRUE]
    BY <1>2, <1>4 DEF Cmds
  <1>6. cmd.wrote \in BOOLEAN
    BY <1>2 DEF Cmds
  <1> QED
    BY <1>1, <1>3, <1>5, <1>6, StartMoves

LEMMA PrepareStep ==
  ASSUME TypeOK, Prepare
  PROVE  /\ cmd.pc = "prepare" /\ Same
         /\ IF SkillCurrent THEN skill' = skill /\ Moves("bind")
            ELSE skill' = Leftover(skill) /\ Moves("stash")
  <1>1. cmd.pc = "prepare" /\ Next1(cmd) = "stash" /\ "stash" \in AllPcs /\ "bind" \in AllPcs
        /\ Following(Order[cmd.op], "drop", "done") = "bind"
    BY SetupNext, CutoverNext, Kinds DEF Prepare, At, AllPcs, SetupSteps, Commands
  <1> QED
    BY <1>1, PcMoves DEF Prepare, Advance

\* Where the rollback begins.
Rollback == IF cmd.op = "setup" THEN "undoHooks" ELSE "undoReplace"

LEMMA RollbackIs ==
  ASSUME TypeOK
  PROVE  UndoOrder[cmd.op][1] = Rollback /\ Rollback \in AllPcs
  BY SetupNext, CutoverNext, Kinds DEF Rollback, AllPcs, SetupUndos, CutoverUndos, Commands

LEMMA DoctorStep ==
  ASSUME TypeOK, Doctor
  PROVE  /\ cmd.pc = "doctor" /\ Same
         /\ Moves(IF DoctorOk THEN "discard" ELSE Rollback)
  <1>1. cmd.pc = "doctor" /\ Next1(cmd) = "discard" /\ "discard" \in AllPcs
    BY SetupNext, CutoverNext, Kinds DEF Doctor, At, AllPcs, SetupSteps, Commands
  <1> QED
    BY <1>1, RollbackIs, PcMoves DEF Doctor, Advance, Undone

LEMMA DiscardStep ==
  ASSUME TypeOK, Discard
  PROVE  /\ cmd.pc = "discard" /\ Moves(IF cmd.op = "setup" THEN "done" ELSE "unlock")
         /\ Remembered /\ Quiet /\ cmd'.wrote = cmd.wrote /\ cmd'.made = cmd.made
         /\ ~cmd'.snapped
  <1>1. cmd.pc = "discard" /\ "done" \in AllPcs /\ "unlock" \in AllPcs
        /\ Next1(cmd) = IF cmd.op = "setup" THEN "done" ELSE "unlock"
    BY SetupNext, CutoverNext, Kinds DEF Discard, At, AllPcs, CutoverSteps, Ended, Commands
  <1> QED
    BY <1>1, SnappedMoves DEF Discard

LEMMA UndoSwapStep ==
  ASSUME TypeOK, UndoSwap
  PROVE  /\ cmd.pc = "undoSwap" /\ Moves(IF cmd.op = "setup" THEN "undoRegistry" ELSE "undoTemp")
         /\ Remembered /\ Quiet /\ cmd'.wrote = cmd.wrote /\ cmd'.made = cmd.made
         /\ ~cmd'.snapped
  <1>1. cmd.pc = "undoSwap" /\ "undoRegistry" \in AllPcs /\ "undoTemp" \in AllPcs
        /\ Next1(cmd) = IF cmd.op = "setup" THEN "undoRegistry" ELSE "undoTemp"
    BY SetupNext, CutoverNext, Kinds DEF UndoSwap, At, AllPcs, SetupUndos, CutoverUndos, Commands
  <1> QED
    BY <1>1, SnappedMoves DEF UndoSwap

LEMMA UndoTempStep ==
  ASSUME TypeOK, UndoTemp
  PROVE  /\ cmd.pc = "undoTemp" /\ cmd.op = "cutover" /\ Moves("undone") /\ Done /\ Quiet
         /\ cmd'.start = cmd.start
  <1>1. cmd.pc = "undoTemp" /\ cmd.op = "cutover" /\ "undone" \in AllPcs
    BY Kinds DEF UndoTemp, At, AllPcs, Ended
  <1> QED
    BY <1>1, TempMoves DEF UndoTemp

LEMMA FailStep ==
  ASSUME TypeOK, Fail
  PROVE  /\ cmd.pc \in Steps(Order[cmd.op]) \ {"discard", "unlock"}
         /\ Moves(IF cmd.pc = "backup" THEN "undoTemp" ELSE Rollback)
         /\ Remembered /\ Done /\ cmd'.fault /\ cmd'.disturbed = cmd.disturbed
  <1>1. "undoTemp" \in AllPcs
    BY DEF AllPcs, CutoverUndos
  <1>2. CASE cmd.pc = "backup"
    <2>1. cmd' = [cmd EXCEPT !.pc = "undoTemp", !.fault = TRUE]
      BY <1>2, CmdTypes DEF Fail, At, Cmds
    <2> QED
      BY <1>1, <1>2, <2>1, FaultMoves DEF Fail
  <1>3. CASE cmd.pc # "backup"
    <2>1. cmd' = [cmd EXCEPT !.pc = Rollback, !.fault = TRUE]
      BY <1>3, RollbackIs, CmdTypes DEF Fail, At, Cmds, Undone
    <2> QED
      BY <1>3, <2>1, RollbackIs, FaultMoves DEF Fail
  <1> QED
    BY <1>2, <1>3

LEMMA UndoFailsStep ==
  ASSUME TypeOK, UndoFails
  PROVE  cmd.pc \in Undos(cmd.op) /\ Moves("broken") /\ cmd'.fault
  <1>1. "broken" \in AllPcs
    BY DEF AllPcs, Ended
  <1> QED
    BY <1>1, BrokenMoves DEF UndoFails, Undos

LEMMA CrashStep ==
  ASSUME TypeOK, Crash
  PROVE  Running /\ Moves("crashed")
  <1>1. "crashed" \in AllPcs
    BY DEF AllPcs, Ended
  <1> QED
    BY <1>1, TempMoves DEF Crash

LEMMA OutsideStep ==
  ASSUME TypeOK, Outside
  PROVE  Moves(cmd.pc) /\ Remembered /\ Done /\ cmd'.fault = cmd.fault /\ cmd'.disturbed
  BY DisturbedMoves DEF Outside

LEMMA BeginStep ==
  ASSUME TypeOK, NEW op \in Commands, NEW v \in Version, NEW g \in BOOLEAN,
         NEW a \in Event \union {None}, Begin(op, v, g, a)
  PROVE  /\ ~Running /\ cmd' \in Cmds /\ cmd'.op = op /\ cmd'.ver = v
         /\ cmd'.pc = IF op = "setup" THEN "store" ELSE "backup"
         /\ cmd'.start \in Starts /\ cmd'.start.store = store /\ cmd'.start.hooks = hooks
         /\ cmd'.start.target = target /\ cmd'.start.skill = skill.dir
         /\ cmd'.global = g /\ cmd'.doc = (IF g THEN source ELSE None) /\ ~cmd'.wrote
         /\ ~cmd'.snapped /\ ~cmd'.made /\ cmd'.approval = a /\ ~cmd'.disturbed
         /\ ~cmd'.fault /\ (cmd'.whole <=> clean) /\ clean' = FALSE
         /\ count' \in Counts /\ count'.event = count.event
  <1>1. /\ ~Running /\ count.command < MaxCommands /\ clean' = FALSE
        /\ count' = [count EXCEPT !.command = @ + 1]
    BY DEF Begin
  <1>2. Order["setup"][1] = "store" /\ Order["cutover"][1] = "backup"
    BY SetupOrder, CutoverOrder
  <1> PICK st : st = Observed
    OBVIOUS
  <1>3. /\ st \in Starts /\ st.store = store /\ st.hooks = hooks /\ st.target = target
        /\ st.skill = skill.dir
    BY DEF Observed, TypeOK, Starts, Skills
  <1> PICK pc : pc = Order[op][1]
    OBVIOUS
  <1>4. pc = (IF op = "setup" THEN "store" ELSE "backup") /\ pc \in Pcs("setup") \union Pcs("cutover")
    BY <1>2, PcSets DEF Commands, AllPcs, SetupSteps, CutoverSteps
  <1>5. cmd' = [op |-> op, ver |-> v, pc |-> pc, start |-> st, global |-> g,
                doc |-> IF g THEN source ELSE None, wrote |-> FALSE, snapped |-> FALSE,
                made |-> FALSE, temp |-> None, approval |-> a, fault |-> FALSE,
                disturbed |-> FALSE, whole |-> clean]
    BY DEF Begin
  <1>6. source \in Doc /\ clean \in BOOLEAN
    BY DEF TypeOK
  <1>7. cmd' \in Cmds
    BY <1>3, <1>4, <1>5, <1>6 DEF Cmds, Commands
  <1>8. count' \in Counts /\ count'.event = count.event
    <2>1. count \in Counts /\ MaxCommands \in Nat
      BY BoundsAssumption DEF TypeOK
    <2>2. count.command \in 0..MaxCommands
      BY <2>1 DEF Counts
    <2>3. count.command + 1 \in 0..MaxCommands
      BY <1>1, <2>1, <2>2
    <2> QED
      BY <1>1, <2>1, <2>3 DEF Counts
  <1> QED
    BY <1>1, <1>3, <1>4, <1>5, <1>7, <1>8

-----------------------------------------------------------------------------
(* Types.                                                                  *)

CmdType ==
  /\ cmd \in Cmds /\ cmd.pc \in Pcs(cmd.op)
  /\ Running => cmd.ver \in Version /\ cmd.start \in Starts
  /\ Running /\ cmd.op = "cutover" => cmd.approval \in Event
  /\ cmd.op = "cutover" /\ cmd.pc \in Migrating => cmd.temp \in Stores
HostType ==
  /\ store \in Stores /\ artifacts \subseteq Version /\ hooks \in Hooks
  /\ source \in Doc /\ target \in Doc \union {None} /\ skill \in Skills
  /\ strays \subseteq Version /\ lockFile \in BOOLEAN /\ hook \in BOOLEAN
  /\ spent \subseteq Event /\ clean \in BOOLEAN /\ count \in Counts
  /\ hook => count.event < MaxEvent

LEMMA TypeParts == TypeOK <=> CmdType /\ HostType
  BY DEF TypeOK, CmdType, HostType

LEMMA CmdMoves ==
  ASSUME TypeOK, NEW s, Moves(s), Running, s \in Pcs(cmd.op), cmd'.start \in Starts,
         cmd.op = "cutover" /\ s \in Migrating => cmd'.temp \in Stores
  PROVE  CmdType'
  BY DEF TypeOK, CmdType, Moves, Kept, Running

LEMMA CmdStays ==
  ASSUME TypeOK, Moves(cmd.pc), cmd'.start = cmd.start, cmd'.temp = cmd.temp
  PROVE  CmdType'
  BY DEF TypeOK, CmdType, Moves, Kept, Running

\* A running command that takes up no migrated copy, or keeps the one it has.
LEMMA CmdGoes ==
  ASSUME TypeOK, NEW s, Moves(s), Running, s \in Pcs(cmd.op), cmd'.start = cmd.start,
         cmd.op = "cutover" /\ s \in Migrating =>
           cmd'.temp = cmd.temp /\ cmd.pc \in Migrating
  PROVE  CmdType'
  <1>1. cmd.start \in Starts /\ (cmd.op = "cutover" /\ s \in Migrating => cmd'.temp \in Stores)
    BY DEF TypeOK
  <1> QED
    BY <1>1, CmdMoves

LEMMA EndedType ==
  ASSUME TypeOK, NEW s \in Ended, Moves(s)
  PROVE  CmdType'
  <1>1. s \in Pcs(cmd.op) /\ s \notin Migrating
    BY DEF Pcs, Ended, Migrating
  <1> QED
    BY <1>1 DEF CmdType, Moves, Kept, Running

LEMMA CmdStep ==
  ASSUME TypeOK, Next
  PROVE  CmdType'

  <1>1. CASE InstallArtifact
    <2>1. Running /\ Moves((IF cmd.op = "setup" THEN "selftest" ELSE "snapshot")) /\ cmd'.start
      = cmd.start
      BY <1>1, InstallArtifactStep DEF Running, Ended, Same, Remembered
    <2>2. (IF cmd.op = "setup" THEN "selftest" ELSE "snapshot") \in Pcs(cmd.op)
      BY <1>1, InstallArtifactStep, Kinds, PcSets DEF Commands, SetupSteps, CutoverSteps,
        SetupUndos, CutoverUndos, Ended
    <2>3. cmd.op = "cutover" /\ (IF cmd.op = "setup" THEN "selftest" ELSE "snapshot") \in
      Migrating => cmd'.temp = cmd.temp /\ cmd.pc \in Migrating
      BY <1>1, InstallArtifactStep DEF Migrating, Same, Remembered
    <2> QED
      BY <2>1, <2>2, <2>3, CmdGoes
  <1>2. CASE SelfTest
    <2>1. Running /\ Moves((IF cmd.op = "setup" THEN "target" ELSE "replace")) /\ cmd'.start =
      cmd.start
      BY <1>2, SelfTestStep DEF Running, Ended, Same, Remembered
    <2>2. (IF cmd.op = "setup" THEN "target" ELSE "replace") \in Pcs(cmd.op)
      BY <1>2, SelfTestStep, Kinds, PcSets DEF Commands, SetupSteps, CutoverSteps, SetupUndos,
        CutoverUndos, Ended
    <2>3. cmd.op = "cutover" /\ (IF cmd.op = "setup" THEN "target" ELSE "replace") \in
      Migrating => cmd'.temp = cmd.temp /\ cmd.pc \in Migrating
      BY <1>2, SelfTestStep DEF Migrating, Same, Remembered
    <2> QED
      BY <2>1, <2>2, <2>3, CmdGoes
  <1>3. CASE WriteHooks
    <2>1. Running /\ Moves((IF cmd.op = "setup" THEN "snapshot" ELSE "doctor")) /\ cmd'.start =
      cmd.start
      BY <1>3, WriteHooksStep DEF Running, Ended, Same, Remembered
    <2>2. (IF cmd.op = "setup" THEN "snapshot" ELSE "doctor") \in Pcs(cmd.op)
      BY <1>3, WriteHooksStep, Kinds, PcSets DEF Commands, SetupSteps, CutoverSteps,
        SetupUndos, CutoverUndos, Ended
    <2>3. cmd.op = "cutover" /\ (IF cmd.op = "setup" THEN "snapshot" ELSE "doctor") \in
      Migrating => cmd'.temp = cmd.temp /\ cmd.pc \in Migrating
      BY <1>3, WriteHooksStep DEF Migrating, Same, Remembered
    <2> QED
      BY <2>1, <2>2, <2>3, CmdGoes
  <1>4. CASE Stash
    <2>1. Running /\ Moves("place") /\ cmd'.start = cmd.start
      BY <1>4, StashStep DEF Running, Ended, Same, Remembered
    <2>2. "place" \in Pcs(cmd.op)
      BY <1>4, StashStep, Kinds, PcSets DEF Commands, SetupSteps, CutoverSteps, SetupUndos,
        CutoverUndos, Ended
    <2>3. cmd.op = "cutover" /\ "place" \in Migrating => cmd'.temp = cmd.temp /\ cmd.pc \in
      Migrating
      BY <1>4, StashStep DEF Migrating, Same, Remembered
    <2> QED
      BY <2>1, <2>2, <2>3, CmdGoes
  <1>5. CASE Place
    <2>1. Running /\ Moves("drop") /\ cmd'.start = cmd.start
      BY <1>5, PlaceStep DEF Running, Ended, Same, Remembered
    <2>2. "drop" \in Pcs(cmd.op)
      BY <1>5, PlaceStep, Kinds, PcSets DEF Commands, SetupSteps, CutoverSteps, SetupUndos,
        CutoverUndos, Ended
    <2>3. cmd.op = "cutover" /\ "drop" \in Migrating => cmd'.temp = cmd.temp /\ cmd.pc \in
      Migrating
      BY <1>5, PlaceStep DEF Migrating, Same, Remembered
    <2> QED
      BY <2>1, <2>2, <2>3, CmdGoes
  <1>6. CASE Drop
    <2>1. Running /\ Moves("bind") /\ cmd'.start = cmd.start
      BY <1>6, DropStep DEF Running, Ended, Same, Remembered
    <2>2. "bind" \in Pcs(cmd.op)
      BY <1>6, DropStep, Kinds, PcSets DEF Commands, SetupSteps, CutoverSteps, SetupUndos,
        CutoverUndos, Ended
    <2>3. cmd.op = "cutover" /\ "bind" \in Migrating => cmd'.temp = cmd.temp /\ cmd.pc \in
      Migrating
      BY <1>6, DropStep DEF Migrating, Same, Remembered
    <2> QED
      BY <2>1, <2>2, <2>3, CmdGoes
  <1>7. CASE Unlock
    <2>1. Running /\ Moves("done") /\ cmd'.start = cmd.start
      BY <1>7, UnlockStep DEF Running, Ended, Same, Remembered
    <2>2. "done" \in Pcs(cmd.op)
      BY <1>7, UnlockStep, Kinds, PcSets DEF Commands, SetupSteps, CutoverSteps, SetupUndos,
        CutoverUndos, Ended
    <2>3. cmd.op = "cutover" /\ "done" \in Migrating => cmd'.temp = cmd.temp /\ cmd.pc \in
      Migrating
      BY <1>7, UnlockStep DEF Migrating, Same, Remembered
    <2> QED
      BY <2>1, <2>2, <2>3, CmdGoes
  <1>8. CASE UndoReplace
    <2>1. Running /\ Moves("undoHooks") /\ cmd'.start = cmd.start
      BY <1>8, UndoReplaceStep DEF Running, Ended, Same, Remembered
    <2>2. "undoHooks" \in Pcs(cmd.op)
      BY <1>8, UndoReplaceStep, Kinds, PcSets DEF Commands, SetupSteps, CutoverSteps,
        SetupUndos, CutoverUndos, Ended
    <2>3. cmd.op = "cutover" /\ "undoHooks" \in Migrating => cmd'.temp = cmd.temp /\ cmd.pc \in
      Migrating
      BY <1>8, UndoReplaceStep DEF Migrating, Same, Remembered
    <2> QED
      BY <2>1, <2>2, <2>3, CmdGoes
  <1>9. CASE UndoHooks
    <2>1. Running /\ Moves((IF cmd.op = "setup" THEN "undoTarget" ELSE "undoSkill")) /\
      cmd'.start = cmd.start
      BY <1>9, UndoHooksStep DEF Running, Ended, Same, Remembered
    <2>2. (IF cmd.op = "setup" THEN "undoTarget" ELSE "undoSkill") \in Pcs(cmd.op)
      BY <1>9, UndoHooksStep, Kinds, PcSets DEF Commands, SetupSteps, CutoverSteps, SetupUndos,
        CutoverUndos, Ended
    <2>3. cmd.op = "cutover" /\ (IF cmd.op = "setup" THEN "undoTarget" ELSE "undoSkill") \in
      Migrating => cmd'.temp = cmd.temp /\ cmd.pc \in Migrating
      BY <1>9, UndoHooksStep DEF Migrating, Same, Remembered
    <2> QED
      BY <2>1, <2>2, <2>3, CmdGoes
  <1>10. CASE UndoTarget
    <2>1. Running /\ Moves("undoSkill") /\ cmd'.start = cmd.start
      BY <1>10, UndoTargetStep DEF Running, Ended, Same, Remembered
    <2>2. "undoSkill" \in Pcs(cmd.op)
      BY <1>10, UndoTargetStep, Kinds, PcSets DEF Commands, SetupSteps, CutoverSteps,
        SetupUndos, CutoverUndos, Ended
    <2>3. cmd.op = "cutover" /\ "undoSkill" \in Migrating => cmd'.temp = cmd.temp /\ cmd.pc \in
      Migrating
      BY <1>10, UndoTargetStep DEF Migrating, Same, Remembered
    <2> QED
      BY <2>1, <2>2, <2>3, CmdGoes
  <1>11. CASE UndoSkill
    <2>1. Running /\ Moves("undoSwap") /\ cmd'.start = cmd.start
      BY <1>11, UndoSkillStep DEF Running, Ended, Same, Remembered
    <2>2. "undoSwap" \in Pcs(cmd.op)
      BY <1>11, UndoSkillStep, Kinds, PcSets DEF Commands, SetupSteps, CutoverSteps,
        SetupUndos, CutoverUndos, Ended
    <2>3. cmd.op = "cutover" /\ "undoSwap" \in Migrating => cmd'.temp = cmd.temp /\ cmd.pc \in
      Migrating
      BY <1>11, UndoSkillStep DEF Migrating, Same, Remembered
    <2> QED
      BY <2>1, <2>2, <2>3, CmdGoes
  <1>12. CASE UndoRegistry
    <2>1. Running /\ Moves("undoStore") /\ cmd'.start = cmd.start
      BY <1>12, UndoRegistryStep DEF Running, Ended, Same, Remembered
    <2>2. "undoStore" \in Pcs(cmd.op)
      BY <1>12, UndoRegistryStep, Kinds, PcSets DEF Commands, SetupSteps, CutoverSteps,
        SetupUndos, CutoverUndos, Ended
    <2>3. cmd.op = "cutover" /\ "undoStore" \in Migrating => cmd'.temp = cmd.temp /\ cmd.pc \in
      Migrating
      BY <1>12, UndoRegistryStep DEF Migrating, Same, Remembered
    <2> QED
      BY <2>1, <2>2, <2>3, CmdGoes
  <1>13. CASE UndoStore
    <2>1. Running /\ Moves("undone") /\ cmd'.start = cmd.start
      BY <1>13, UndoStoreStep DEF Running, Ended, Same, Remembered
    <2>2. "undone" \in Pcs(cmd.op)
      BY <1>13, UndoStoreStep, Kinds, PcSets DEF Commands, SetupSteps, CutoverSteps,
        SetupUndos, CutoverUndos, Ended
    <2>3. cmd.op = "cutover" /\ "undone" \in Migrating => cmd'.temp = cmd.temp /\ cmd.pc \in
      Migrating
      BY <1>13, UndoStoreStep DEF Migrating, Same, Remembered
    <2> QED
      BY <2>1, <2>2, <2>3, CmdGoes
  <1>14. CASE CreateStore
    <2>1. Running /\ Moves("artifact") /\ cmd'.start = cmd.start
      BY <1>14, CreateStoreStep DEF Running, Ended, Same, Remembered
    <2>2. "artifact" \in Pcs(cmd.op)
      BY <1>14, CreateStoreStep, Kinds, PcSets DEF Commands, SetupSteps, CutoverSteps,
        SetupUndos, CutoverUndos, Ended
    <2>3. cmd.op = "cutover" /\ "artifact" \in Migrating => cmd'.temp = cmd.temp /\ cmd.pc \in
      Migrating
      BY <1>14, CreateStoreStep DEF Migrating, Same, Remembered
    <2> QED
      BY <2>1, <2>2, <2>3, CmdGoes
  <1>15. CASE Discard
    <2>1. Running /\ Moves((IF cmd.op = "setup" THEN "done" ELSE "unlock")) /\ cmd'.start =
      cmd.start
      BY <1>15, DiscardStep DEF Running, Ended, Same, Remembered
    <2>2. (IF cmd.op = "setup" THEN "done" ELSE "unlock") \in Pcs(cmd.op)
      BY <1>15, DiscardStep, Kinds, PcSets DEF Commands, SetupSteps, CutoverSteps, SetupUndos,
        CutoverUndos, Ended
    <2>3. cmd.op = "cutover" /\ (IF cmd.op = "setup" THEN "done" ELSE "unlock") \in Migrating
      => cmd'.temp = cmd.temp /\ cmd.pc \in Migrating
      BY <1>15, DiscardStep DEF Migrating, Same, Remembered
    <2> QED
      BY <2>1, <2>2, <2>3, CmdGoes
  <1>16. CASE UndoSwap
    <2>1. Running /\ Moves((IF cmd.op = "setup" THEN "undoRegistry" ELSE "undoTemp")) /\
      cmd'.start = cmd.start
      BY <1>16, UndoSwapStep DEF Running, Ended, Same, Remembered
    <2>2. (IF cmd.op = "setup" THEN "undoRegistry" ELSE "undoTemp") \in Pcs(cmd.op)
      BY <1>16, UndoSwapStep, Kinds, PcSets DEF Commands, SetupSteps, CutoverSteps, SetupUndos,
        CutoverUndos, Ended
    <2>3. cmd.op = "cutover" /\ (IF cmd.op = "setup" THEN "undoRegistry" ELSE "undoTemp") \in
      Migrating => cmd'.temp = cmd.temp /\ cmd.pc \in Migrating
      BY <1>16, UndoSwapStep DEF Migrating, Same, Remembered
    <2> QED
      BY <2>1, <2>2, <2>3, CmdGoes
  <1>17. CASE UndoTemp
    <2>1. Running /\ Moves("undone") /\ cmd'.start = cmd.start
      BY <1>17, UndoTempStep DEF Running, Ended, Same, Remembered
    <2>2. "undone" \in Pcs(cmd.op)
      BY <1>17, UndoTempStep, Kinds, PcSets DEF Commands, SetupSteps, CutoverSteps, SetupUndos,
        CutoverUndos, Ended
    <2>3. cmd.op = "cutover" /\ "undone" \in Migrating => cmd'.temp = cmd.temp /\ cmd.pc \in
      Migrating
      BY <1>17, UndoTempStep DEF Migrating, Same, Remembered
    <2> QED
      BY <2>1, <2>2, <2>3, CmdGoes
  <1>18. CASE ReplaceStore
    <2>1. Running /\ Moves("hooks") /\ cmd'.start = cmd.start
      BY <1>18, ReplaceStoreStep DEF Running, Ended, Same, Remembered
    <2>2. "hooks" \in Pcs(cmd.op)
      BY <1>18, ReplaceStoreStep, Kinds, PcSets DEF Commands, SetupSteps, CutoverSteps,
        SetupUndos, CutoverUndos, Ended
    <2>3. cmd.op = "cutover" /\ "hooks" \in Migrating => cmd'.temp = cmd.temp /\ cmd.pc \in
      Migrating
      BY <1>18, ReplaceStoreStep DEF Migrating, Same, Remembered
    <2> QED
      BY <2>1, <2>2, <2>3, CmdGoes
  <1>19. CASE Backup
    <2>1. Running /\ Moves("migrate") /\ cmd'.start \in Starts /\ cmd.op = "cutover"
      BY <1>19, BackupStep DEF Running, Ended
    <2>2. "migrate" \in Pcs(cmd.op) /\ "migrate" \notin Migrating
      BY <2>1, PcSets DEF CutoverSteps, Migrating
    <2> QED
      BY <2>1, <2>2, CmdMoves
  <1>20. CASE Migrate
    <2>1. Running /\ Moves("artifact") /\ cmd'.start \in Starts /\ cmd.op = "cutover"
          /\ cmd'.temp \in Stores
      BY <1>20, MigrateStep, MigratedTypes DEF Running, Ended, TypeOK
    <2>2. "artifact" \in Pcs(cmd.op)
      BY <2>1, PcSets DEF CutoverSteps
    <2> QED
      BY <2>1, <2>2, CmdMoves
  <1>21. CASE Bind
    <2>1. Running /\ cmd'.start \in Starts /\ cmd.ver \in Version
      BY <1>21, BindStep DEF TypeOK
    <2>2. CASE cmd.op = "setup"
      BY <1>21, <2>1, <2>2, BindStep, PcSets, CmdMoves DEF SetupSteps
    <2>3. CASE cmd.op = "cutover"
      <3>1. Moves("selftest") /\ cmd'.temp \in Stores
        BY <1>21, <2>1, <2>3, BindStep, StoreBound
      <3> QED
        BY <2>1, <2>3, <3>1, PcSets, CmdMoves DEF CutoverSteps
    <2> QED
      BY <2>2, <2>3, Kinds DEF Commands
  <1>22. CASE WriteTarget
    <2>1. Running /\ Moves("hooks") /\ cmd'.start \in Starts /\ cmd.op = "setup"
      BY <1>22, WriteTargetStep DEF Running, Ended
    <2>2. "hooks" \in Pcs(cmd.op)
      BY <2>1, PcSets DEF SetupSteps
    <2> QED
      BY <2>1, <2>2, CmdMoves
  <1>23. CASE Snapshot
    <2>1. Running /\ Moves("prepare") /\ cmd'.start \in Starts /\ cmd'.temp = cmd.temp
      BY <1>23, SnapshotStep DEF Running, Ended
    <2>2. "prepare" \in Pcs(cmd.op)
      BY Kinds, PcSets DEF SetupSteps, CutoverSteps, Commands
    <2>3. cmd.op = "cutover" => cmd.temp \in Stores
      BY <1>23, SnapshotStep DEF TypeOK, Migrating
    <2> QED
      BY <2>1, <2>2, <2>3, CmdMoves
  <1>24. CASE Prepare
    <2>1. Running /\ cmd'.start = cmd.start /\ cmd'.temp = cmd.temp /\ cmd.pc \in Migrating
          /\ (Moves("bind") \/ Moves("stash"))
      BY <1>24, PrepareStep DEF Running, Ended, Same, Remembered, Migrating
    <2>2. "bind" \in Pcs(cmd.op) /\ "stash" \in Pcs(cmd.op)
      BY Kinds, PcSets DEF SetupSteps, CutoverSteps, Commands
    <2> QED
      BY <2>1, <2>2, CmdGoes
  <1>25. CASE Doctor
    <2>1. Running /\ cmd'.start = cmd.start
          /\ (Moves("discard") \/ Moves(Rollback))
      BY <1>25, DoctorStep DEF Running, Ended, Same, Remembered
    <2>2. "discard" \in Pcs(cmd.op) /\ Rollback \in Pcs(cmd.op)
          /\ "discard" \notin Migrating /\ Rollback \notin Migrating
      BY Kinds, PcSets DEF SetupSteps, CutoverSteps, SetupUndos, CutoverUndos, Commands,
        Rollback, Migrating
    <2> QED
      BY <2>1, <2>2, CmdGoes
  <1>26. CASE Fail
    <2>1. Running /\ cmd'.start = cmd.start
          /\ Moves(IF cmd.pc = "backup" THEN "undoTemp" ELSE Rollback)
      BY <1>26, FailStep, Kinds, StepSets DEF Running, Ended, Remembered, Commands,
        SetupSteps, CutoverSteps
    <2>2. (IF cmd.pc = "backup" THEN "undoTemp" ELSE Rollback) \in Pcs(cmd.op)
          /\ (IF cmd.pc = "backup" THEN "undoTemp" ELSE Rollback) \notin Migrating
      BY Kinds, PcSets DEF SetupUndos, CutoverUndos, Commands, Rollback, Migrating
    <2> QED
      BY <2>1, <2>2, CmdGoes
  <1>27. CASE UndoFails
    <2>1. Moves("broken")
      BY <1>27, UndoFailsStep
    <2> QED
      BY <2>1, EndedType DEF Ended
  <1>28. CASE Crash
    <2>1. Moves("crashed")
      BY <1>28, CrashStep
    <2> QED
      BY <2>1, EndedType DEF Ended
  <1>29. CASE HookCheck \/ HookCapture
    <2>1. cmd' = cmd
      BY <1>29 DEF HookCheck, HookCapture
    <2> QED
      BY <2>1 DEF TypeOK, CmdType, Running
  <1>30. CASE Rule \/ EditHooks \/ Pull
    <2>1. Outside
      BY <1>30 DEF Rule, EditHooks, Pull
    <2> QED
      BY <2>1, OutsideStep, CmdStays DEF Remembered
  <1>31. CASE \E v \in Version : Setup(v)
    <2> PICK v \in Version : Setup(v)
      BY <1>31
    <2> PICK g \in BOOLEAN : Begin("setup", v, g, None)
      BY DEF Setup
    <2>1. cmd' \in Cmds /\ cmd'.op = "setup" /\ cmd'.pc = "store" /\ cmd'.start \in Starts
          /\ cmd'.ver = v
      BY BeginStep DEF Commands
    <2> QED
      BY <2>1, PcSets DEF CmdType, Running, SetupSteps
  <1>32. CASE \E v \in Version : Cutover(v)
    <2> PICK v \in Version : Cutover(v)
      BY <1>32
    <2> PICK e \in store.events : LegacyUsable(store, e) /\ Begin("cutover", v, FALSE, e)
      BY DEF Cutover
    <2>1. e \in Event
      BY DEF TypeOK, Stores
    <2>2. cmd' \in Cmds /\ cmd'.op = "cutover" /\ cmd'.pc = "backup" /\ cmd'.start \in Starts
          /\ cmd'.ver = v /\ cmd'.approval = e
      BY <2>1, BeginStep DEF Commands
    <2> QED
      BY <2>1, <2>2, PcSets DEF CmdType, Running, CutoverSteps, Migrating
  <1> QED
    BY <1>1, <1>2, <1>3, <1>4, <1>5, <1>6, <1>7, <1>8, <1>9, <1>10, <1>11, <1>12, <1>13, <1>14,
      <1>15, <1>16, <1>17, <1>18, <1>19, <1>20, <1>21, <1>22, <1>23, <1>24, <1>25, <1>26,
        <1>27, <1>28, <1>29, <1>30, <1>31, <1>32 DEF Next, Work

LEMMA CountTypes ==
  ASSUME TypeOK
  PROVE  /\ count.fault < MaxFaults => /\ [count EXCEPT !.fault = @ + 1] \in Counts
                                       /\ [count EXCEPT !.fault = @ + 1].event = count.event
         /\ count.crash < MaxCrashes => /\ [count EXCEPT !.crash = @ + 1] \in Counts
                                        /\ [count EXCEPT !.crash = @ + 1].event = count.event
         /\ count.outside < MaxOutside => /\ [count EXCEPT !.outside = @ + 1] \in Counts
                                          /\ [count EXCEPT !.outside = @ + 1].event = count.event
                                          /\ count.outside + 1 \in 0..MaxOutside
         /\ count.event < MaxEvent => /\ [count EXCEPT !.event = @ + 1] \in Counts
                                      /\ [count EXCEPT !.event = @ + 1].event = count.event + 1
                                      /\ count.event + 1 \in Event
  <1>1. /\ count \in Counts /\ MaxFaults \in Nat /\ MaxCrashes \in Nat /\ MaxOutside \in Nat
        /\ MaxEvent \in Nat
    BY BoundsAssumption DEF TypeOK
  <1>2. /\ count.fault \in 0..MaxFaults /\ count.crash \in 0..MaxCrashes
        /\ count.outside \in 0..MaxOutside /\ count.event \in 0..MaxEvent
    BY <1>1 DEF Counts
  <1>3. /\ count.fault < MaxFaults => count.fault + 1 \in 0..MaxFaults
        /\ count.crash < MaxCrashes => count.crash + 1 \in 0..MaxCrashes
        /\ count.outside < MaxOutside => count.outside + 1 \in 0..MaxOutside
        /\ count.event < MaxEvent => count.event + 1 \in 0..MaxEvent /\ count.event + 1 \in 1..MaxEvent
    BY <1>1, <1>2
  <1> QED
    BY <1>1, <1>3 DEF Counts, Event

LEMMA EmptyTypes ==
  /\ Absent \in Stores /\ Absent.kind = "absent" /\ Absent.events = {} /\ Absent.row = None
  /\ Empty \in Stores /\ Empty.kind = "core" /\ Empty.events = {} /\ Empty.bind = None
  /\ Empty.row = None /\ Empty.used = {} /\ Empty.live = {} /\ Absent.live = {}
  <1>1. 0 \in 0..OldEvents
    BY BoundsAssumption
  <1> QED
    BY <1>1 DEF Absent, Empty, Stores

\* A setup's rollback puts the registry rows it found back into a Store it found.
LEMMA RegistryStep ==
  ASSUME TypeOK, UndoRegistry
  PROVE  /\ store' \in Stores /\ store'.kind = store.kind /\ cmd.start.store \in Stores
         /\ store'.events = store.events /\ store'.live = store.live
         /\ store'.used = store.used /\ store'.doubt = store.doubt
         /\ IF cmd.start.store.kind = "core" THEN store'.row = cmd.start.store.row
            ELSE store' = store
  <1> PICK s, n, o : s = store /\ n = store' /\ o = cmd.start.store
    OBVIOUS
  <1>1. s \in Stores /\ o \in Stores
    BY UndoRegistryStep DEF TypeOK, Running, Ended, Starts
  <1>2. n = IF o.kind = "core" THEN [s EXCEPT !.row = o.row, !.bind = o.bind] ELSE s
    BY DEF UndoRegistry
  <1>3. CASE o.kind = "core"
    <2>1. n \in Stores /\ n.kind = s.kind /\ n.row = o.row
          /\ n.events = s.events /\ n.live = s.live /\ n.used = s.used /\ n.doubt = s.doubt
      BY <1>1, <1>2, <1>3 DEF Stores
    <2> QED
      BY <1>1, <1>3, <2>1
  <1> QED
    BY <1>1, <1>2, <1>3

LEMMA StoreStep ==
  ASSUME TypeOK, Next
  PROVE  store' \in Stores
  <1>0. store \in Stores /\ cmd \in Cmds /\ (Running => cmd.start.store \in Stores)
    BY DEF TypeOK, Starts
  <1>1. CASE CreateStore
    BY <1>0, <1>1, EmptyTypes DEF CreateStore
  <1>2. CASE Bind
    BY <1>0, <1>2, BindStep, StoreBound, Kinds DEF Commands, TypeOK
  <1>3. CASE ReplaceStore
    BY <1>3, ReplaceStoreStep
  <1>4. CASE UndoReplace
    BY <1>0, <1>4, UndoReplaceStep DEF UndoReplace, Running, Ended
  <1>5. CASE UndoRegistry
    BY <1>5, RegistryStep
  <1>6. CASE UndoStore
    BY <1>0, <1>6, EmptyTypes DEF UndoStore
  <1>7. CASE HookCapture
    <2>1. CASE CoreSchema(store)
      <3> PICK gone \in {{}} \union {{e} : e \in store.live} :
             store' = [store EXCEPT !.events = @ \union {count.event + 1},
                                    !.live = (@ \ gone) \union {count.event + 1}]
        BY <1>7, <2>1 DEF HookCapture
      <3>1. gone \in SUBSET Event
        BY <1>0 DEF Stores
      <3>2. count.event + 1 \in Event
        BY <1>7, CountTypes DEF TypeOK, HookCapture
      <3> QED
        BY <1>0, <3>1, <3>2 DEF Stores
    <2> QED
      BY <1>0, <1>7, <2>1 DEF HookCapture
  <1>8. CASE Rule
    <2> PICK e \in Event, d \in Doc \union {None} :
           \/ store' = [store EXCEPT !.used = @ \union {e}]
           \/ store' = [store EXCEPT !.used = @ \union {e}, !.bind = d]
      BY <1>8 DEF Rule
    <2> PICK s, n : s = store /\ n = store'
      OBVIOUS
    <2>1. CASE n = [s EXCEPT !.used = @ \union {e}]
      BY <1>0, <2>1 DEF Stores
    <2>2. CASE n = [s EXCEPT !.used = @ \union {e}, !.bind = d]
      <3>1. s \in Stores
        BY <1>0
      <3>0. d \in Doc \union {None} /\ e \in Event
        OBVIOUS
      <3>2. s.used \union {e} \in SUBSET Event
        BY <3>0, <3>1 DEF Stores
      <3>3. n \in Stores
        BY <3>0, <3>1, <3>2, <2>2 DEF Stores
      <3> QED
        BY <3>3
    <2> QED
      BY <2>1, <2>2
  <1>9. CASE UNCHANGED store
    BY <1>0, <1>9
  <1> QED
    BY <1>1, <1>2, <1>3, <1>4, <1>5, <1>6, <1>7, <1>8, <1>9
    DEF Next, Work, Backup, Migrate, InstallArtifact, SelfTest, WriteTarget, WriteHooks,
      Snapshot, Prepare, Stash, Place, Drop, Doctor, Discard, Unlock, UndoHooks, UndoTarget,
      UndoSkill, UndoSwap, UndoTemp, Setup, Cutover, Fail, UndoFails, Crash, HookCheck,
      EditHooks, Pull

LEMMA SkillStep ==
  ASSUME TypeOK, Next
  PROVE  skill' \in Skills
  <1>0. skill \in Skills /\ (Running => cmd.ver \in Version /\ cmd.start.skill \in Version \union {None})
    BY DEF TypeOK, Starts
  <1>1. CASE Prepare
    BY <1>0, <1>1 DEF Prepare, Leftover, Skills
  <1>2. CASE Stash
    BY <1>0, <1>2 DEF Stash, Skills
  <1>3. CASE Place
    BY <1>0, <1>3 DEF Place, At, Running, Ended, Skills
  <1>4. CASE Drop
    BY <1>0, <1>4 DEF Drop, Skills
  <1>5. CASE UndoSkill
    BY <1>0, <1>5 DEF UndoSkill, Skills
  <1>6. CASE UndoSwap
    BY <1>0, <1>6 DEF UndoSwap, At, Running, Ended, Skills
  <1>7. CASE Fail
    BY <1>0, <1>7 DEF Fail, SkillUndone, Skills
  <1>8. CASE UNCHANGED skill
    BY <1>0, <1>8
  <1> QED
    BY <1>1, <1>2, <1>3, <1>4, <1>5, <1>6, <1>7, <1>8
    DEF Next, Work, CreateStore, Backup, Migrate, Bind, ReplaceStore, InstallArtifact, SelfTest,
      WriteTarget, WriteHooks, Snapshot, Doctor, Discard, Unlock, UndoReplace, UndoHooks,
      UndoTarget, UndoRegistry, UndoStore, UndoTemp, Setup, Cutover, UndoFails, Crash, HookCheck,
      HookCapture, Rule, EditHooks, Pull

LEMMA HooksStep ==
  ASSUME TypeOK, Next
  PROVE  hooks' \in Hooks
  <1>0. hooks \in Hooks /\ (Running => cmd.start.hooks \in Hooks /\ cmd.ver \in Version)
    BY DEF TypeOK, Starts
  <1>1. CASE WriteHooks
    BY <1>0, <1>1 DEF WriteHooks, At, Running, Ended, Desired, Hooks
  <1>2. CASE UndoHooks
    BY <1>0, <1>2 DEF UndoHooks, At, Running, Ended
  <1>3. CASE EditHooks
    <2>1. count.outside + 1 \in 0..MaxOutside
      BY <1>3, CountTypes DEF EditHooks, Outside
    <2> QED
      BY <1>0, <1>3, <2>1 DEF EditHooks, Hooks
  <1>4. CASE UNCHANGED hooks
    BY <1>0, <1>4
  <1> QED
    BY <1>1, <1>2, <1>3, <1>4
    DEF Next, Work, CreateStore, Backup, Migrate, Bind, ReplaceStore, InstallArtifact, SelfTest,
      WriteTarget, Snapshot, Prepare, Stash, Place, Drop, Doctor, Discard, Unlock, UndoReplace,
      UndoTarget, UndoSkill, UndoSwap, UndoRegistry, UndoStore, UndoTemp, Setup, Cutover, Fail,
      UndoFails, Crash, HookCheck, HookCapture, Rule, Pull

\* The documents, the artifacts and the rest.
LEMMA DocStep ==
  ASSUME TypeOK, Next
  PROVE  source' \in Doc /\ target' \in Doc \union {None} /\ artifacts' \subseteq Version
  <1>0. /\ source \in Doc /\ target \in Doc \union {None} /\ artifacts \subseteq Version
        /\ (Running => cmd.start.target \in Doc \union {None} /\ cmd.ver \in Version)
    BY DEF TypeOK, Starts
  <1>1. CASE WriteTarget
    BY <1>0, <1>1 DEF WriteTarget
  <1>2. CASE UndoTarget
    BY <1>0, <1>2 DEF UndoTarget, At, Running, Ended
  <1>3. CASE Rule
    BY <1>0, <1>3 DEF Rule
  <1>4. CASE Pull
    BY <1>0, <1>4 DEF Pull
  <1>5. CASE InstallArtifact
    BY <1>0, <1>5 DEF InstallArtifact, At, Running, Ended
  <1>6. CASE UNCHANGED <<source, target, artifacts>>
    BY <1>0, <1>6
  <1> QED
    BY <1>1, <1>2, <1>3, <1>4, <1>5, <1>6
    DEF Next, Work, CreateStore, Backup, Migrate, Bind, ReplaceStore, SelfTest, WriteHooks,
      Snapshot, Prepare, Stash, Place, Drop, Doctor, Discard, Unlock, UndoReplace, UndoHooks,
      UndoSkill, UndoSwap, UndoRegistry, UndoStore, UndoTemp, Setup, Cutover, Fail, UndoFails,
      Crash, HookCheck, HookCapture, EditHooks

LEMMA FlagStep ==
  ASSUME TypeOK, Next
  PROVE  lockFile' \in BOOLEAN /\ clean' \in BOOLEAN /\ spent' \subseteq Event /\ strays' \subseteq Version
  <1>0. /\ lockFile \in BOOLEAN /\ clean \in BOOLEAN /\ spent \subseteq Event
        /\ strays \subseteq Version /\ cmd.whole \in BOOLEAN
        /\ (Running => cmd.start.skill \in Version \union {None})
    BY DEF TypeOK, Starts, Cmds
  <1>1. CASE \E v \in Version : Setup(v) \/ Cutover(v)
    BY <1>0, <1>1 DEF Setup, Cutover, Begin
  <1>2. CASE Discard \/ UndoStore \/ UndoTemp
    BY <1>0, <1>2 DEF Discard, UndoStore, UndoTemp
  <1>3. CASE Unlock
    <2>1. cmd.approval \in Event
      BY <1>3, UnlockStep DEF TypeOK, Running, Ended
    <2> QED
      BY <1>0, <1>3, <2>1 DEF Unlock
  <1>4. CASE UndoFails
    <2>1. Running
      BY <1>4, UndoFailsStep, Kinds, PcSets DEF Commands, SetupUndos, CutoverUndos, Running, Ended
    <2> QED
      BY <1>0, <1>4, <2>1 DEF UndoFails, Orphaned
  <1>5. CASE Crash
    BY <1>0, <1>5 DEF Crash, Orphaned
  <1>6. CASE Rule
    BY <1>0, <1>6 DEF Rule
  <1>7. CASE UNCHANGED <<lockFile, clean, spent, strays>>
    BY <1>0, <1>7
  <1> QED
    BY <1>1, <1>2, <1>3, <1>4, <1>5, <1>6, <1>7
    DEF Next, Work, CreateStore, Backup, Migrate, Bind, ReplaceStore, InstallArtifact, SelfTest,
      WriteTarget, WriteHooks, Snapshot, Prepare, Stash, Place, Drop, Doctor, UndoReplace,
      UndoHooks, UndoTarget, UndoSkill, UndoSwap, UndoRegistry, Fail, HookCheck, HookCapture,
      EditHooks, Pull

\* Only a captured prompt is a new event, and its hook had found room for it.
LEMMA CountStep ==
  ASSUME TypeOK, Next
  PROVE  /\ count' \in Counts /\ hook' \in BOOLEAN /\ (hook' => count'.event < MaxEvent)
         /\ count'.event = IF HookCapture /\ CoreSchema(store) THEN count.event + 1
                           ELSE count.event
  <1>0. count \in Counts /\ hook \in BOOLEAN /\ (hook => count.event < MaxEvent)
    BY DEF TypeOK
  <1>1. CASE \E v \in Version : Setup(v)
    <2> PICK v \in Version : Setup(v)
      BY <1>1
    <2> PICK g \in BOOLEAN : Begin("setup", v, g, None)
      BY DEF Setup
    <2>1. count' \in Counts /\ count'.event = count.event
      BY BeginStep DEF Commands
    <2>2. hook' = hook /\ store' = store
      BY <1>1 DEF Setup
    <2> QED
      BY <1>0, <2>1, <2>2 DEF HookCapture
  <1>2. CASE \E v \in Version : Cutover(v)
    <2> PICK v \in Version : Cutover(v)
      BY <1>2
    <2> PICK e \in store.events : Begin("cutover", v, FALSE, e)
      BY DEF Cutover
    <2>1. e \in Event
      BY DEF TypeOK, Stores
    <2>2. count' \in Counts /\ count'.event = count.event
      BY <2>1, BeginStep DEF Commands
    <2>3. hook' = hook /\ store.kind = "legacy"
      BY DEF Cutover
    <2> QED
      BY <1>0, <2>2, <2>3 DEF CoreSchema
  <1>3. CASE HookCapture /\ CoreSchema(store)
    <2>1. hook' = FALSE /\ count' = [count EXCEPT !.event = @ + 1] /\ count.event < MaxEvent
      BY <1>0, <1>3 DEF HookCapture
    <2> QED
      BY <1>3, <2>1, CountTypes
  <1>4. CASE HookCheck
    <2>1. hook' = TRUE /\ count' = count /\ count.event < MaxEvent
      BY <1>4 DEF HookCheck
    <2>2. ~HookCapture
      BY <1>4 DEF HookCheck, HookCapture
    <2> QED
      BY <1>0, <2>1, <2>2
  <1>5. CASE Fail \/ UndoFails
    <2>1. count' \in Counts /\ count'.event = count.event /\ hook' = hook
      BY <1>5, CountTypes DEF Fail, UndoFails
    <2> QED
      BY <1>0, <2>1 DEF HookCapture
  <1>6. CASE Crash
    <2>1. count' \in Counts /\ count'.event = count.event /\ hook' = hook
      BY <1>6, CountTypes DEF Crash
    <2> QED
      BY <1>0, <2>1 DEF HookCapture
  <1>7. CASE Rule \/ EditHooks \/ Pull
    <2>1. Outside /\ hook' = hook
      BY <1>7 DEF Rule, EditHooks, Pull
    <2>2. count' \in Counts /\ count'.event = count.event
      BY <2>1, CountTypes DEF Outside
    <2> QED
      BY <1>0, <2>1, <2>2 DEF HookCapture
  <1>8. CASE HookCapture /\ ~CoreSchema(store)
    BY <1>0, <1>8 DEF HookCapture
  <1>9. CASE Work
    <2>1. hook' = hook /\ count' = count
      BY <1>9 DEF Work, CreateStore, Backup, Migrate, Bind, ReplaceStore, InstallArtifact,
        SelfTest, WriteTarget, WriteHooks, Snapshot, Prepare, Stash, Place, Drop, Doctor, Discard,
        Unlock, UndoReplace, UndoHooks, UndoTarget, UndoSkill, UndoSwap, UndoRegistry, UndoStore,
        UndoTemp
    <2>2. HookCapture => hook /\ ~hook'
      BY DEF HookCapture
    <2> QED
      BY <1>0, <2>1, <2>2
  <1> QED
    BY <1>1, <1>2, <1>3, <1>4, <1>5, <1>6, <1>7, <1>8, <1>9 DEF Next

LEMMA TypeStep ==
  ASSUME TypeOK, [Next]_vars
  PROVE  TypeOK'
  <1>1. CASE Next
    <2>1. CmdType' /\ HostType'
      BY <1>1, CmdStep, StoreStep, SkillStep, HooksStep, DocStep, FlagStep, CountStep
      DEF HostType
    <2> QED
      BY <2>1 DEF CmdType, HostType, TypeOK, Running
  <1>2. CASE UNCHANGED vars
    BY <1>2 DEF vars, TypeOK, Running
  <1> QED
    BY <1>1, <1>2

\* The three hosts a command may find first.
InitEmpty == store = Absent /\ hooks = [side |-> None, user |-> 0]
             /\ skill = [dir |-> None, prev |-> None]
InitCore ==
  \E v \in artifacts : \E bound \in BOOLEAN :
     /\ store = [Empty EXCEPT !.row = v, !.bind = IF bound THEN source ELSE None]
     /\ bound => target = source
     /\ hooks = [side |-> v, user |-> 0] /\ skill = [dir |-> v, prev |-> None]
InitLegacy ==
  \E live, used, lost \in SUBSET (1..OldEvents) : \E doubt, horizon \in 0..OldEvents :
     /\ \A e \in lost : e <= doubt
     /\ store = [Absent EXCEPT !.kind = "legacy", !.events = 1..OldEvents,
                   !.live = live, !.used = used, !.doubt = doubt, !.horizon = horizon]
     /\ spent = used \union lost
     /\ hooks = [side |-> "legacy", user |-> 0]
     /\ skill \in [dir : Version \union {None}, prev : {None}]

LEMMA InitCases ==
  ASSUME Init
  PROVE  /\ InitEmpty \/ InitCore \/ InitLegacy
         /\ cmd.pc = "done" /\ cmd.op = "setup"
         /\ hooks.side \in artifacts \union {None, "legacy"}
  <1>1. InitEmpty \/ InitCore \/ InitLegacy
    BY DEF Init, InitEmpty, InitCore, InitLegacy
  <1>2. cmd.pc = "done" /\ cmd.op = "setup"
    BY DEF Init
  <1>3. hooks.side \in artifacts \union {None, "legacy"}
    <2>1. InitEmpty => hooks.side = None
      BY DEF InitEmpty
    <2>2. InitCore => hooks.side \in artifacts
      BY DEF InitCore
    <2>3. InitLegacy => hooks.side = "legacy"
      BY DEF InitLegacy
    <2> QED
      BY <1>1, <2>1, <2>2, <2>3
  <1> QED
    BY <1>1, <1>2, <1>3

LEMMA InitTypes ==
  ASSUME Init
  PROVE  TypeOK
  <1>1. /\ MaxEvent \in Nat /\ OldEvents \in Nat /\ MaxCommands \in Nat /\ MaxCrashes \in Nat
        /\ MaxFaults \in Nat /\ MaxOutside \in Nat /\ OldEvents <= MaxEvent
    BY BoundsAssumption
  <1>2. 0 \in 0..MaxCommands /\ 0 \in 0..MaxCrashes /\ 0 \in 0..MaxFaults /\ 0 \in 0..MaxOutside
        /\ OldEvents \in 0..MaxEvent /\ 1..OldEvents \subseteq Event
    BY <1>1 DEF Event
  <1>3. count \in Counts /\ hook = FALSE
    BY <1>2 DEF Init, Counts
  <1>4. cmd.op = "setup" /\ cmd.pc = "done" /\ cmd \in Cmds
    <2>1. "done" \in Pcs("setup")
      BY PcSets DEF Ended
    <2> QED
      BY <2>1 DEF Init, Cmds
  <1>5. cmd.pc \in Pcs(cmd.op) /\ ~Running /\ cmd.op # "cutover"
    BY <1>4, PcSets DEF Ended, Running
  <1>6. /\ artifacts \subseteq Version /\ source \in Doc /\ target \in Doc \union {None}
        /\ strays = {} /\ lockFile = FALSE /\ clean = TRUE
    BY DEF Init
  <1>7. store \in Stores /\ hooks \in Hooks /\ skill \in Skills /\ spent \subseteq Event
    <2>1. CASE InitEmpty
      <3>1. spent = {}
        BY <2>1 DEF Init, InitEmpty, Absent
      <3> QED
        BY <1>2, <2>1, <3>1, EmptyTypes DEF InitEmpty, Hooks, Skills
    <2>2. CASE InitCore
      <3> PICK v \in artifacts, b \in BOOLEAN :
                 /\ store = [Empty EXCEPT !.row = v, !.bind = IF b THEN source ELSE None]
                 /\ hooks = [side |-> v, user |-> 0] /\ skill = [dir |-> v, prev |-> None]
        BY <2>2 DEF InitCore
      <3>1. v \in Version /\ (IF b THEN source ELSE None) \in Doc \union {None}
        BY <1>6
      <3>2. store \in Stores /\ store.kind = "core"
        BY <3>1, EmptyTypes DEF Stores
      <3>3. spent = {}
        BY <3>2 DEF Init
      <3> QED
        BY <1>2, <3>1, <3>2, <3>3 DEF Hooks, Skills
    <2>3. CASE InitLegacy
      <3> PICK live \in SUBSET (1..OldEvents), used \in SUBSET (1..OldEvents),
               lost \in SUBSET (1..OldEvents), doubt \in 0..OldEvents, horizon \in 0..OldEvents :
                 /\ store = [Absent EXCEPT !.kind = "legacy", !.events = 1..OldEvents,
                               !.live = live, !.used = used, !.doubt = doubt, !.horizon = horizon]
                 /\ spent = used \union lost
                 /\ hooks = [side |-> "legacy", user |-> 0]
                 /\ skill \in [dir : Version \union {None}, prev : {None}]
        BY <2>3 DEF InitLegacy
      <3>1. live \subseteq Event /\ used \subseteq Event /\ lost \subseteq Event
            /\ doubt \in 0..OldEvents /\ horizon \in 0..OldEvents
        BY <1>2
      <3>2. store \in Stores
        BY <1>2, <3>1, EmptyTypes DEF Stores
      <3> QED
        BY <1>2, <3>1, <3>2 DEF Hooks, Skills
    <2> QED
      BY <2>1, <2>2, <2>3, InitCases
  <1> QED
    BY <1>3, <1>4, <1>5, <1>6, <1>7 DEF TypeOK

\* Store, registry, hooks, Skill and command stay what the commands know how to read, and a
\* running command stays at a step of its own kind (codex_integration.py, core_cutover.py).
THEOREM TypeCorrect == Spec => []TypeOK
  <1>1. Init => TypeOK
    BY InitTypes
  <1>2. TypeOK /\ [Next]_vars => TypeOK'
    BY TypeStep
  <1> QED
    BY <1>1, <1>2, PTL DEF Spec

-----------------------------------------------------------------------------
(* Hooks that can run.                                                     *)

LEMMA HooksFitKept ==
  ASSUME TypeOK, HooksFit, Running' => Running, Kept, artifacts \subseteq artifacts',
         hooks'.side = hooks.side \/ hooks'.side \in artifacts' \union {None, "legacy"},
         Running' => cmd'.start.hooks.side = cmd.start.hooks.side,
         cmd'.pc \in PastArtifact => cmd.ver \in artifacts'
  PROVE  HooksFit'
  BY BoundsAssumption DEF HooksFit, HooksRunnable, Running, Kept

LEMMA HooksFitStep ==
  ASSUME TypeOK, HooksFit, [Next]_vars
  PROVE  HooksFit'
  <1>1. ASSUME NEW v \in Version, Setup(v) PROVE HooksFit'
    <2> PICK g \in BOOLEAN : Begin("setup", v, g, None)
      BY <1>1 DEF Setup
    <2>1. cmd'.pc = "store" /\ cmd'.start.hooks = hooks
      BY BeginStep DEF Commands
    <2>2. hooks' = hooks /\ artifacts' = artifacts
      BY <1>1 DEF Setup
    <2> QED
      BY <2>1, <2>2 DEF HooksFit, HooksRunnable, PastArtifact
  <1>2. ASSUME NEW v \in Version, Cutover(v) PROVE HooksFit'
    <2> PICK e \in store.events : Begin("cutover", v, FALSE, e)
      BY <1>2 DEF Cutover
    <2>1. e \in Event
      BY DEF TypeOK, Stores
    <2>2. cmd'.pc = "backup" /\ cmd'.start.hooks = hooks
      BY <2>1, BeginStep DEF Commands
    <2>3. hooks' = hooks /\ artifacts' = artifacts
      BY <1>2 DEF Cutover
    <2> QED
      BY <2>2, <2>3 DEF HooksFit, HooksRunnable, PastArtifact
  <1>3. CASE InstallArtifact
    <2>1. artifacts' = artifacts \union {cmd.ver} /\ hooks' = hooks
      BY <1>3 DEF InstallArtifact
    <2> QED
      BY <1>3, <2>1, InstallArtifactStep, HooksFitKept DEF Moves, Same, Remembered, Running, Ended
  <1>4. CASE WriteHooks
    <2>1. artifacts' = artifacts /\ (hooks' = hooks \/ hooks'.side = cmd.ver)
      BY <1>4, WriteHooksStep DEF WriteHooks, Desired, TypeOK, Running, Ended, Starts, Hooks
    <2>2. cmd.pc = "hooks" /\ cmd.ver \in artifacts
      BY <1>4, WriteHooksStep DEF HooksFit, PastArtifact
    <2> QED
      BY <1>4, <2>1, <2>2, WriteHooksStep, HooksFitKept DEF Moves, Same, Remembered, Running, Ended
  <1>5. CASE UndoHooks
    <2>1. artifacts' = artifacts /\ hooks' = cmd.start.hooks
      BY <1>5 DEF UndoHooks
    <2>2. hooks'.side \in artifacts \union {None, "legacy"}
      BY <1>5, <2>1, UndoHooksStep DEF HooksFit, TypeOK, Starts, Hooks, Running, Ended
    <2> QED
      BY <1>5, <2>1, <2>2, UndoHooksStep, HooksFitKept
      DEF Moves, Same, Remembered, Running, Ended, PastArtifact
  <1>6. CASE Backup
    <2>1. artifacts' = artifacts /\ hooks' = hooks
      BY <1>6 DEF Backup
    <2> QED
      BY <1>6, <2>1, BackupStep DEF HooksFit, HooksRunnable, Moves, Kept, PastArtifact
  <1>7. CASE CreateStore \/ Migrate \/ Bind \/ ReplaceStore \/ SelfTest
    <2>1. artifacts' = artifacts /\ hooks' = hooks
      BY <1>7 DEF CreateStore, Migrate, Bind, ReplaceStore, SelfTest
    <2>2. Kept /\ cmd'.start = cmd.start /\ Running
          /\ (cmd'.pc \in PastArtifact => cmd.pc \in PastArtifact)
      BY <1>7, CreateStoreStep, MigrateStep, BindStep, ReplaceStoreStep, SelfTestStep, Kinds
      DEF Moves, Same, Remembered, Running, Ended, PastArtifact, Commands
    <2> QED
      BY <2>1, <2>2, HooksFitKept DEF HooksFit
  <1>8. CASE WriteTarget \/ Snapshot \/ Prepare \/ Stash \/ Place \/ Drop
    <2>1. artifacts' = artifacts /\ hooks' = hooks
      BY <1>8 DEF WriteTarget, Snapshot, Prepare, Stash, Place, Drop
    <2>2. Kept /\ cmd'.start.hooks = cmd.start.hooks /\ Running /\ cmd.pc \in PastArtifact
      BY <1>8, WriteTargetStep, SnapshotStep, PrepareStep, StashStep, PlaceStep, DropStep
      DEF Moves, Same, Remembered, Running, Ended, PastArtifact
    <2> QED
      BY <2>1, <2>2, HooksFitKept DEF HooksFit
  <1>9. CASE Doctor \/ Discard \/ Unlock
    <2>1. artifacts' = artifacts /\ hooks' = hooks
      BY <1>9 DEF Doctor, Discard, Unlock
    <2>2. Kept /\ cmd'.start.hooks = cmd.start.hooks /\ Running /\ cmd.pc \in PastArtifact
      BY <1>9, DoctorStep, DiscardStep, UnlockStep
      DEF Moves, Same, Remembered, Running, Ended, PastArtifact
    <2> QED
      BY <2>1, <2>2, HooksFitKept DEF HooksFit
  <1>10. CASE UndoReplace \/ UndoTarget \/ UndoSkill \/ UndoSwap \/ UndoRegistry \/ UndoStore
              \/ UndoTemp
    <2>1. artifacts' = artifacts /\ hooks' = hooks
      BY <1>10 DEF UndoReplace, UndoTarget, UndoSkill, UndoSwap, UndoRegistry, UndoStore, UndoTemp
    <2>2. Kept /\ cmd'.start.hooks = cmd.start.hooks /\ Running /\ cmd'.pc \notin PastArtifact
      BY <1>10, UndoReplaceStep, UndoTargetStep, UndoSkillStep, UndoSwapStep, UndoRegistryStep,
        UndoStoreStep, UndoTempStep
      DEF Moves, Same, Remembered, Running, Ended, PastArtifact
    <2> QED
      BY <2>1, <2>2, HooksFitKept DEF HooksFit
  <1>11. CASE Fail
    <2>1. artifacts' = artifacts /\ hooks' = hooks
      BY <1>11 DEF Fail
    <2>2. Kept /\ cmd'.start.hooks = cmd.start.hooks /\ cmd'.pc \notin PastArtifact
      BY <1>11, FailStep DEF Moves, Remembered, PastArtifact, Rollback
    <2>3. Running
      BY <1>11, FailStep, StepSets, Kinds
      DEF Running, Ended, Commands, SetupSteps, CutoverSteps
    <2> QED
      BY <2>1, <2>2, <2>3, HooksFitKept DEF HooksFit
  <1>12. CASE UndoFails \/ Crash
    <2>1. artifacts' = artifacts /\ hooks' = hooks
      BY <1>12 DEF UndoFails, Crash
    <2>2. Kept /\ ~Running' /\ cmd'.pc \notin PastArtifact
      BY <1>12, UndoFailsStep, CrashStep DEF Moves, Running, Ended, PastArtifact
    <2> QED
      BY <2>1, <2>2, HooksFitKept DEF HooksFit
  <1>13. CASE HookCheck \/ HookCapture
    <2>1. artifacts' = artifacts /\ hooks' = hooks /\ cmd' = cmd
      BY <1>13 DEF HookCheck, HookCapture
    <2> QED
      BY <2>1 DEF HooksFit, HooksRunnable, Running
  <1>14. CASE Rule \/ EditHooks \/ Pull
    <2>1. Outside /\ artifacts' = artifacts /\ hooks'.side = hooks.side
      BY <1>14 DEF Rule, EditHooks, Pull, TypeOK, Hooks
    <2> QED
      BY <2>1, OutsideStep, HooksFitKept DEF Moves, Remembered, Running, HooksFit
  <1>15. CASE UNCHANGED vars
    BY <1>15 DEF vars, HooksFit, HooksRunnable, Running
  <1> QED
    BY <1>1, <1>2, <1>3, <1>4, <1>5, <1>6, <1>7, <1>8, <1>9, <1>10, <1>11, <1>12, <1>13, <1>14,
      <1>15 DEF Next, Work

LEMMA HooksFitAlways == Spec => []HooksFit
  <1>1. Init => HooksFit
    BY InitCases, BoundsAssumption DEF HooksFit, HooksRunnable, Running, Ended, PastArtifact
  <1>2. TypeOK /\ HooksFit /\ [Next]_vars => HooksFit'
    BY HooksFitStep
  <1> QED
    BY <1>1, <1>2, TypeCorrect, PTL DEF Spec

\* hooks.json "only points to" an immutable artifact that is there, whatever fails or crashes,
\* for any versions and any number of commands, crashes and edits: install_artifact is done
\* before the hooks are written, and a rollback puts back hooks whose artifact never left.
THEOREM HooksStayRunnable == Spec => []HooksRunnable
  <1>1. HooksFit => HooksRunnable
    BY DEF HooksFit
  <1> QED
    BY <1>1, HooksFitAlways, PTL

-----------------------------------------------------------------------------
(* A Skill somewhere.                                                      *)

Exchange == {"prepare", "stash", "place", "drop"}

LEMMA SkillFitsKept ==
  ASSUME TypeOK, SkillFits, skill' = skill, cmd'.snapped = cmd.snapped,
         cmd'.start.skill = cmd.start.skill, cmd'.pc \notin Exchange,
         cmd'.pc = "unlock" \/ Running' => Running /\ cmd.pc # "unlock"
  PROVE  SkillFits'
  BY DEF SkillFits, At, Running, Exchange

LEMMA SkillFitsStep ==
  ASSUME TypeOK, SkillFits, [Next]_vars
  PROVE  SkillFits'
  <1>0. skill \in Skills /\ (Running => cmd.ver \in Version) /\ None \notin Version
    BY BoundsAssumption DEF TypeOK
  <1>1. ASSUME NEW v \in Version, Setup(v) PROVE SkillFits'
    <2> PICK g \in BOOLEAN : Begin("setup", v, g, None)
      BY <1>1 DEF Setup
    <2>1. cmd'.pc = "store" /\ cmd'.start.skill = skill.dir
      BY BeginStep DEF Commands
    <2> QED
      BY <1>1, <2>1 DEF Setup, SkillFits, At
  <1>2. ASSUME NEW v \in Version, Cutover(v) PROVE SkillFits'
    <2> PICK e \in store.events : Begin("cutover", v, FALSE, e)
      BY <1>2 DEF Cutover
    <2>1. e \in Event
      BY DEF TypeOK, Stores
    <2>2. cmd'.pc = "backup" /\ cmd'.start.skill = skill.dir
      BY <2>1, BeginStep DEF Commands
    <2> QED
      BY <1>2, <2>2 DEF Cutover, SkillFits, At
  <1>3. CASE Snapshot
    BY <1>3, SnapshotStep DEF Snapshot, Moves, SkillFits, At
  <1>4. CASE Prepare
    <2>1. cmd.pc = "prepare" /\ cmd.snapped /\ skill.dir = cmd.start.skill
          /\ cmd'.start = cmd.start /\ cmd'.snapped = cmd.snapped
      BY <1>4, PrepareStep DEF SkillFits, At, Same, Remembered, Done
    <2>2. CASE cmd'.pc = "bind"
      BY <2>1, <2>2 DEF SkillFits, At
    <2>3. CASE cmd'.pc = "stash" /\ skill' = Leftover(skill)
      <3>1. skill'.prev = None /\ (skill'.dir = None => skill.dir = None)
        BY <1>0, <2>3 DEF Leftover, Skills
      <3> QED
        BY <2>1, <2>3, <3>1 DEF SkillFits, At
    <2> QED
      BY <1>4, <2>2, <2>3, PrepareStep DEF Moves
  <1>5. CASE Stash
    <2>1. /\ cmd.pc = "stash" /\ cmd.snapped /\ skill.prev = None
          /\ (skill.dir = None => cmd.start.skill = None)
          /\ cmd'.start = cmd.start /\ cmd'.snapped = cmd.snapped /\ cmd'.pc = "place"
      BY <1>5, StashStep DEF SkillFits, At, Same, Remembered, Done, Moves
    <2>2. skill'.dir = None /\ (skill'.prev = None => cmd.start.skill = None)
      BY <1>5, <2>1 DEF Stash
    <2> QED
      BY <2>1, <2>2 DEF SkillFits, At
  <1>6. CASE Place
    <2>1. /\ cmd.pc = "place" /\ cmd.snapped /\ (skill.prev = None => cmd.start.skill = None)
          /\ cmd'.start = cmd.start /\ cmd'.snapped = cmd.snapped /\ cmd'.pc = "drop"
          /\ cmd'.ver = cmd.ver
      BY <1>6, PlaceStep DEF SkillFits, At, Same, Remembered, Done, Moves, Kept
    <2>2. skill'.dir = cmd.ver /\ skill'.prev = skill.prev
      BY <1>0, <1>6 DEF Place, Skills
    <2> QED
      BY <2>1, <2>2 DEF SkillFits, At
  <1>7. CASE Drop
    BY <1>7, DropStep DEF SkillFits, At, Same, Done, Moves
  <1>8. CASE Fail
    <2>1. cmd'.start = cmd.start /\ cmd'.snapped = cmd.snapped
          /\ cmd'.pc \notin Exchange \union {"unlock"} /\ cmd.pc # "unlock"
      BY <1>8, FailStep DEF Remembered, Done, Moves, Rollback, Exchange
    <2>2. ~cmd.snapped => skill' = skill /\ Running
      BY <1>8, FailStep, StepSets, Kinds DEF Fail, SkillFits, Running, Ended, Commands,
        SetupSteps, CutoverSteps
    <2> QED
      BY <2>1, <2>2 DEF SkillFits, At, Exchange
  <1>9. CASE UndoSkill
    <2>1. cmd'.start = cmd.start /\ cmd'.snapped = cmd.snapped /\ cmd'.pc = "undoSwap"
          /\ cmd.pc = "undoSkill"
      BY <1>9, UndoSkillStep DEF Same, Remembered, Done, Moves
    <2>2. ~cmd.snapped => skill' = skill
      BY <1>9 DEF UndoSkill
    <2> QED
      BY <2>1, <2>2 DEF SkillFits, At, Running, Ended
  <1>10. CASE UndoSwap
    <2>1. cmd'.start = cmd.start /\ ~cmd'.snapped /\ cmd.pc = "undoSwap"
          /\ cmd'.pc \notin Exchange
      BY <1>10, UndoSwapStep DEF Remembered, Moves, Exchange
    <2>2. skill'.dir = cmd.start.skill
      BY <1>0, <1>10, <2>1 DEF UndoSwap, SkillFits, At, Running, Ended, Skills
    <2> QED
      BY <2>1, <2>2 DEF SkillFits, At, Exchange
  <1>11. CASE Discard
    BY <1>11, DiscardStep DEF Moves, SkillFits, At, Running, Ended
  <1>12. CASE CreateStore \/ Backup \/ Migrate \/ Bind \/ ReplaceStore \/ InstallArtifact
              \/ SelfTest
    <2>1. skill' = skill
      BY <1>12 DEF CreateStore, Backup, Migrate, Bind, ReplaceStore, InstallArtifact, SelfTest
    <2>2. cmd'.snapped = cmd.snapped /\ cmd'.start.skill = cmd.start.skill
          /\ cmd'.pc \notin Exchange \union {"unlock"} /\ cmd.pc # "unlock" /\ Running
      BY <1>12, CreateStoreStep, BackupStep, MigrateStep, BindStep, ReplaceStoreStep,
        InstallArtifactStep, SelfTestStep, Kinds
      DEF Moves, Same, Remembered, Done, Running, Ended, Exchange, Commands
    <2> QED
      BY <2>1, <2>2, SkillFitsKept
  <1>13. CASE WriteTarget \/ WriteHooks \/ Doctor \/ Unlock
    <2>1. skill' = skill
      BY <1>13 DEF WriteTarget, WriteHooks, Doctor, Unlock
    <2>2. cmd'.snapped = cmd.snapped /\ cmd'.start.skill = cmd.start.skill
          /\ cmd'.pc \notin Exchange \union {"unlock"} /\ (Running' => cmd.pc # "unlock" /\ Running)
      BY <1>13, WriteTargetStep, WriteHooksStep, DoctorStep, UnlockStep
      DEF Moves, Same, Remembered, Done, Running, Ended, Exchange, Rollback
    <2> QED
      BY <2>1, <2>2, SkillFitsKept
  <1>14. CASE UndoReplace \/ UndoHooks \/ UndoTarget \/ UndoRegistry \/ UndoStore \/ UndoTemp
    <2>1. skill' = skill
      BY <1>14 DEF UndoReplace, UndoHooks, UndoTarget, UndoRegistry, UndoStore, UndoTemp
    <2>2. cmd'.snapped = cmd.snapped /\ cmd'.start.skill = cmd.start.skill
          /\ cmd'.pc \notin Exchange \union {"unlock"} /\ cmd.pc # "unlock" /\ Running
      BY <1>14, UndoReplaceStep, UndoHooksStep, UndoTargetStep, UndoRegistryStep,
        UndoStoreStep, UndoTempStep
      DEF Moves, Same, Remembered, Done, Running, Ended, Exchange
    <2> QED
      BY <2>1, <2>2, SkillFitsKept
  <1>15. CASE UndoFails \/ Crash
    BY <1>15, UndoFailsStep, CrashStep DEF Moves, SkillFits, At, Running, Ended
  <1>16. CASE HookCheck \/ HookCapture
    BY <1>16 DEF HookCheck, HookCapture, SkillFits, At, Running
  <1>17. CASE Rule \/ EditHooks \/ Pull
    <2>1. Outside /\ skill' = skill
      BY <1>17 DEF Rule, EditHooks, Pull
    <2>2. cmd'.pc = cmd.pc /\ cmd'.start = cmd.start /\ cmd'.snapped = cmd.snapped
          /\ cmd'.ver = cmd.ver
      BY <2>1, OutsideStep DEF Moves, Kept, Remembered, Done
    <2> QED
      BY <2>1, <2>2 DEF SkillFits, At, Running
  <1>18. CASE UNCHANGED vars
    BY <1>18 DEF vars, SkillFits, At, Running
  <1> QED
    BY <1>1, <1>2, <1>3, <1>4, <1>5, <1>6, <1>7, <1>8, <1>9, <1>10, <1>11, <1>12, <1>13, <1>14,
      <1>15, <1>16, <1>17, <1>18 DEF Next, Work

\* What a step may take the last copy of.
LastCopyGoes ==
  SkillHere # {} => \/ SkillHere' # {}
                    \/ cmd.start.skill = None /\ skill.prev = None
                    \/ At("undoSkill") /\ cmd.snapped

LEMMA SkillKeptStep ==
  ASSUME TypeOK, SkillFits, [Next]_vars
  PROVE  LastCopyGoes
  <1>0. skill \in Skills /\ (Running => cmd.ver \in Version) /\ None \notin Version
    BY BoundsAssumption DEF TypeOK
  <1>1. SkillHere # {} <=> skill.dir # None \/ skill.prev # None
    BY DEF SkillHere
  <1>2. SkillHere' # {} <=> skill'.dir # None \/ skill'.prev # None
    BY DEF SkillHere
  <1>3. CASE Prepare
    <2>1. skill' = skill \/ skill' = Leftover(skill)
      BY <1>3, PrepareStep
    <2> QED
      BY <1>0, <1>1, <1>2, <2>1 DEF LastCopyGoes, Leftover, Skills
  <1>4. CASE Stash
    BY <1>1, <1>2, <1>4 DEF Stash, LastCopyGoes
  <1>5. CASE Place
    BY <1>0, <1>1, <1>2, <1>5, PlaceStep DEF Place, Running, Ended, Skills, LastCopyGoes
  <1>6. CASE Drop
    BY <1>0, <1>1, <1>2, <1>6, DropStep DEF Drop, Running, Ended, Skills, LastCopyGoes,
      SkillFits, At
  <1>7. CASE Fail
    <2>1. CASE cmd.pc = "drop"
      BY <1>0, <1>1, <1>2, <1>7, <2>1 DEF Fail, SkillUndone, Skills, LastCopyGoes, SkillFits, At
    <2>2. CASE cmd.pc # "drop"
      BY <1>0, <1>1, <1>2, <1>7, <2>2 DEF Fail, SkillUndone, Skills, LastCopyGoes
    <2> QED
      BY <2>1, <2>2
  <1>8. CASE UndoSkill
    BY <1>1, <1>2, <1>8 DEF UndoSkill, LastCopyGoes
  <1>9. CASE UndoSwap
    BY <1>0, <1>1, <1>2, <1>9 DEF UndoSwap, Skills, LastCopyGoes
  <1>10. CASE skill' = skill
    BY <1>1, <1>2, <1>10 DEF LastCopyGoes
  <1> QED
    BY <1>3, <1>4, <1>5, <1>6, <1>7, <1>8, <1>9, <1>10
    DEF Next, Work, CreateStore, Backup, Migrate, Bind, ReplaceStore, InstallArtifact, SelfTest,
      WriteTarget, WriteHooks, Snapshot, Doctor, Discard, Unlock, UndoReplace, UndoHooks,
      UndoTarget, UndoRegistry, UndoStore, UndoTemp, Setup, Cutover, UndoFails, Crash, HookCheck,
      HookCapture, Rule, EditHooks, Pull, vars

LEMMA SkillFitsAlways == Spec => []SkillFits
  <1>1. Init => SkillFits
    BY InitCases DEF SkillFits, At, Running, Ended
  <1>2. TypeOK /\ SkillFits /\ [Next]_vars => SkillFits'
    BY SkillFitsStep
  <1> QED
    BY <1>1, <1>2, TypeCorrect, PTL DEF Spec

\* A host that has a Skill keeps one in place or set aside, at every step, fault and crash of
\* any number of commands, however they interleave with what goes on outside: install_skill
\* drops the copy set aside only where the new one is in place (skill.py).
THEOREM SkillIsKept == Spec => SkillKept
  <1>1. TypeOK /\ SkillFits /\ [Next]_vars => [LastCopyGoes]_vars
    BY SkillKeptStep
  <1> QED
    BY <1>1, TypeCorrect, SkillFitsAlways, PTL DEF Spec, SkillKept, LastCopyGoes

-----------------------------------------------------------------------------
(* What goes on meanwhile.                                                 *)

LEMMA MeanwhileCmd ==
  ASSUME TypeOK, HookCheck \/ HookCapture \/ Rule \/ EditHooks \/ Pull
  PROVE  /\ cmd'.pc = cmd.pc /\ Kept /\ Remembered /\ Done /\ (cmd'.fault <=> cmd.fault)
         /\ (cmd.disturbed => cmd'.disturbed)
  <1>1. CASE HookCheck \/ HookCapture
    BY <1>1 DEF HookCheck, HookCapture, Kept, Remembered, Done
  <1>2. CASE Rule \/ EditHooks \/ Pull
    BY <1>2, OutsideStep DEF Rule, EditHooks, Pull, Moves, Kept, Remembered, Done
  <1> QED
    BY <1>1, <1>2

\* A prompt hook adds its event to a Core Store that is there, and nothing else.
LEMMA CaptureStep ==
  ASSUME TypeOK, HookCapture, CoreSchema(store)
  PROVE  /\ count.event + 1 \in Event /\ count'.event = count.event + 1
         /\ store'.kind = store.kind /\ store'.row = store.row /\ store'.bind = store.bind
         /\ store'.events = store.events \union {count.event + 1}
         /\ store'.live \subseteq store.live \union {count.event + 1}
         /\ store'.used = store.used /\ store'.doubt = store.doubt
  <1> PICK gone \in {{}} \union {{e} : e \in store.live} :
         store' = [store EXCEPT !.events = @ \union {count.event + 1},
                                !.live = (@ \ gone) \union {count.event + 1}]
    BY DEF HookCapture
  <1>1. store \in Stores
    BY DEF TypeOK
  <1>2. gone \in SUBSET Event
    BY <1>1 DEF Stores
  <1>3. count.event + 1 \in Event /\ count'.event = count.event + 1
    BY CountTypes DEF TypeOK, HookCapture
  <1> PICK s, n, e : s = store /\ n = store' /\ e = count.event + 1
    OBVIOUS
  <1>4. n = [s EXCEPT !.events = @ \union {e}, !.live = (@ \ gone) \union {e}]
    OBVIOUS
  <1>5. s \in Stores /\ gone \in SUBSET Event /\ e \in Event
    BY <1>1, <1>2, <1>3
  <1>6. n.kind = s.kind /\ n.row = s.row /\ n.bind = s.bind
        /\ n.events = s.events \union {e} /\ n.live = (s.live \ gone) \union {e}
        /\ n.used = s.used /\ n.doubt = s.doubt
    BY <1>4, <1>5 DEF Stores
  <1> QED
    BY <1>3, <1>6

\* A rule command uses one approval of a Core Store, and may bind another document.
LEMMA RuleStep ==
  ASSUME TypeOK, Rule
  PROVE  \E e \in Event :
           /\ Usable(e) /\ spent' = spent \union {e} /\ store.kind = "core"
           /\ store'.kind = store.kind /\ store'.row = store.row
           /\ store'.events = store.events /\ store'.live = store.live
           /\ store'.used = store.used \union {e} /\ store'.doubt = store.doubt
           /\ \/ store'.bind = store.bind /\ source' = source /\ target' = target
              \/ store.bind # None /\ target = store.bind /\ source = store.bind
  <1> PICK e \in Event, d \in Doc \union {None} :
         /\ Usable(e) /\ spent' = spent \union {e}
         /\ \/ /\ d = None
               /\ store' = [store EXCEPT !.used = @ \union {e}] /\ UNCHANGED <<source, target>>
            \/ /\ d \in Doc /\ store.bind # None /\ target = store.bind /\ source = store.bind
               /\ store' = [store EXCEPT !.used = @ \union {e}, !.bind = d]
               /\ source' = d /\ target' = d
    BY DEF Rule
  <1>0. e \in Event /\ d \in Doc \union {None} /\ store \in Stores /\ store.kind = "core"
    BY DEF TypeOK, Usable, CoreSchema
  <1> PICK s, n : s = store /\ n = store'
    OBVIOUS
  <1>1. CASE n = [s EXCEPT !.used = @ \union {e}] /\ UNCHANGED <<source, target>>
    <2>1. /\ n.kind = s.kind /\ n.row = s.row /\ n.bind = s.bind /\ n.events = s.events
          /\ n.live = s.live /\ n.used = s.used \union {e} /\ n.doubt = s.doubt
      BY <1>0, <1>1 DEF Stores
    <2> QED
      BY <1>0, <1>1, <2>1
  <1>2. CASE /\ n = [s EXCEPT !.used = @ \union {e}, !.bind = d]
             /\ store.bind # None /\ target = store.bind /\ source = store.bind
    <2>1. /\ n.kind = s.kind /\ n.row = s.row /\ n.events = s.events
          /\ n.live = s.live /\ n.used = s.used \union {e} /\ n.doubt = s.doubt
      BY <1>0, <1>2 DEF Stores
    <2> QED
      BY <1>0, <1>2, <2>1
  <1> QED
    BY <1>1, <1>2

LEMMA MeanwhileStep ==
  ASSUME TypeOK, HookCheck \/ HookCapture \/ Rule \/ EditHooks \/ Pull
  PROVE  /\ store'.kind = store.kind /\ store'.row = store.row
         /\ store.used \subseteq store'.used
         /\ (store.kind # "core" => store' = store)
         /\ hooks'.side = hooks.side /\ skill' = skill /\ clean' = clean
         /\ (store'.bind = store.bind \/ (Rule /\ store.bind # None))
  <1>1. CASE HookCapture
    <2>1. CASE CoreSchema(store)
      BY <1>1, <2>1, CaptureStep DEF HookCapture, CoreSchema
    <2>2. CASE ~CoreSchema(store)
      BY <1>1, <2>2 DEF HookCapture
    <2> QED
      BY <2>1, <2>2
  <1>2. CASE Rule
    <2>1. hooks' = hooks /\ skill' = skill /\ clean' = clean
      BY <1>2 DEF Rule
    <2> QED
      BY <1>2, <2>1, RuleStep
  <1>3. CASE HookCheck \/ EditHooks \/ Pull
    BY <1>3 DEF HookCheck, EditHooks, Pull, TypeOK, Hooks
  <1> QED
    BY <1>1, <1>2, <1>3

\* No step of a command changes which command it is.
LEMMA WorkKept ==
  ASSUME TypeOK, Work
  PROVE  Kept
  <1>1. CASE CreateStore \/ Backup \/ Migrate \/ Bind \/ ReplaceStore \/ InstallArtifact \/ SelfTest
    BY <1>1, CreateStoreStep, BackupStep, MigrateStep, BindStep, ReplaceStoreStep,
      InstallArtifactStep, SelfTestStep, Kinds DEF Moves, Commands
  <1>2. CASE WriteTarget \/ WriteHooks \/ Snapshot \/ Prepare \/ Stash \/ Place \/ Drop
    BY <1>2, WriteTargetStep, WriteHooksStep, SnapshotStep, PrepareStep, StashStep, PlaceStep,
      DropStep DEF Moves
  <1>3. CASE Doctor \/ Discard \/ Unlock \/ UndoReplace \/ UndoHooks \/ UndoTarget
    BY <1>3, DoctorStep, DiscardStep, UnlockStep, UndoReplaceStep, UndoHooksStep, UndoTargetStep
    DEF Moves
  <1>4. CASE UndoSkill \/ UndoSwap \/ UndoRegistry \/ UndoStore \/ UndoTemp
    BY <1>4, UndoSkillStep, UndoSwapStep, UndoRegistryStep, UndoStoreStep, UndoTempStep DEF Moves
  <1> QED
    BY <1>1, <1>2, <1>3, <1>4 DEF Work

-----------------------------------------------------------------------------
(* The Store a command works on.                                           *)

LEMMA SetupStoreKept ==
  ASSUME TypeOK, SetupStore, store' = store, Kept, Running' /\ cmd.op = "setup" => Running,
         cmd'.start.store = cmd.start.store, cmd'.made = cmd.made,
         cmd'.pc \notin {"store", "undoStore"},
         cmd'.pc \in SetupSteps => cmd.pc \in SetupSteps \ {"store"}
  PROVE  SetupStore'
  BY StepSets DEF SetupStore, At, Running, Kept

LEMMA SetupStoreStep ==
  ASSUME TypeOK, SetupStore, [Next]_vars
  PROVE  SetupStore'
  <1>0. store \in Stores /\ (Running => cmd.start.store \in Stores /\ cmd.ver \in Version)
    BY DEF TypeOK, Starts
  <1>1. ASSUME NEW v \in Version, Setup(v) PROVE SetupStore'
    <2> PICK g \in BOOLEAN : Begin("setup", v, g, None)
      BY <1>1 DEF Setup
    <2>1. cmd'.pc = "store" /\ cmd'.start.store = store /\ ~cmd'.made
      BY BeginStep DEF Commands
    <2>2. store' = store /\ store.kind \in {"absent", "core"}
      BY <1>1 DEF Setup, Openable, CoreSchema
    <2> QED
      BY <2>1, <2>2 DEF SetupStore, At
  <1>2. ASSUME NEW v \in Version, Cutover(v) PROVE SetupStore'
    <2> PICK e \in store.events : Begin("cutover", v, FALSE, e)
      BY <1>2 DEF Cutover
    <2>1. cmd'.op = "cutover"
      BY DEF Begin
    <2> QED
      BY <2>1 DEF SetupStore
  <1>3. CASE CreateStore
    <2>1. /\ cmd.pc = "store" /\ cmd.op = "setup" /\ Running /\ cmd'.pc = "artifact"
          /\ cmd'.start = cmd.start
          /\ IF cmd.start.store.kind = "absent" THEN store' = Empty /\ cmd'.made
             ELSE store' = store /\ cmd'.made = cmd.made
      BY <1>3, CreateStoreStep DEF Moves, Remembered, Running, Ended
    <2>2. cmd.start.store.kind \in {"absent", "core"} /\ ~cmd.made
          /\ (cmd.start.store.kind = "core" => store.kind = "core")
      BY <1>0, <2>1 DEF SetupStore, Stores, At
    <2> QED
      BY <2>1, <2>2, EmptyTypes DEF SetupStore, At
  <1>4. CASE Bind
    <2>1. CASE cmd.op = "setup"
      <3>1. cmd.pc = "bind" /\ cmd'.pc = "doctor" /\ cmd'.start = cmd.start /\ cmd'.made = cmd.made
            /\ Running /\ store' = GlobalBound(RuntimeBound(store))
        BY <1>4, <2>1, BindStep DEF Moves, Done
      <3>2. store'.kind = store.kind
        BY <1>0, <3>1, StoreBound
      <3> QED
        BY <2>1, <3>1, <3>2, StepSets DEF SetupStore, At, SetupSteps
    <2>2. CASE cmd.op = "cutover"
      BY <1>4, <2>2, BindStep DEF Moves, Kept, SetupStore
    <2> QED
      BY <2>1, <2>2, Kinds DEF Commands
  <1>5. CASE UndoRegistry
    <2>1. cmd.pc = "undoRegistry" /\ cmd'.pc = "undoStore" /\ cmd'.start = cmd.start
          /\ cmd'.made = cmd.made /\ Running /\ cmd.op = "setup"
      BY <1>5, UndoRegistryStep DEF Moves, Same, Remembered, Done, Running, Ended
    <2>2. store'.kind = store.kind
          /\ (cmd.start.store.kind = "core" => store'.row = cmd.start.store.row)
      BY <1>5, RegistryStep
    <2> QED
      BY <2>1, <2>2, StepSets DEF SetupStore, At, SetupSteps
  <1>6. CASE UndoStore
    BY <1>6, UndoStoreStep DEF Moves, SetupStore, Running, Ended
  <1>7. CASE ReplaceStore \/ UndoReplace
    BY <1>7, ReplaceStoreStep, UndoReplaceStep DEF Moves, Kept, SetupStore
  <1>8. CASE Backup \/ Migrate \/ InstallArtifact \/ SelfTest \/ WriteTarget \/ WriteHooks
    <2>1. store' = store
      BY <1>8 DEF Backup, Migrate, InstallArtifact, SelfTest, WriteTarget, WriteHooks
    <2>2. CASE cmd.op = "setup"
      <3>1. /\ Running /\ Kept /\ cmd'.start.store = cmd.start.store /\ cmd'.made = cmd.made
            /\ cmd'.pc \notin {"store", "undoStore"} /\ cmd.pc \in SetupSteps \ {"store"}
        BY <1>8, <2>2, BackupStep, MigrateStep, InstallArtifactStep, SelfTestStep,
          WriteTargetStep, WriteHooksStep
        DEF Moves, Same, Remembered, Done, Running, Ended, SetupSteps
      <3> QED
        BY <2>1, <2>2, <3>1, SetupStoreKept
    <2>3. CASE cmd.op # "setup"
      BY <1>8, <2>3, BackupStep, MigrateStep, InstallArtifactStep, SelfTestStep,
          WriteTargetStep, WriteHooksStep DEF Moves, Kept, SetupStore
    <2> QED
      BY <2>2, <2>3
  <1>9. CASE Snapshot \/ Prepare \/ Stash \/ Place \/ Drop
    <2>1. store' = store
      BY <1>9 DEF Snapshot, Prepare, Stash, Place, Drop
    <2>2. /\ Running /\ Kept /\ cmd'.start.store = cmd.start.store /\ cmd'.made = cmd.made
          /\ cmd'.pc \notin {"store", "undoStore"} /\ cmd.pc \in SetupSteps \ {"store"}
      BY <1>9, SnapshotStep, PrepareStep, StashStep, PlaceStep, DropStep
      DEF Moves, Same, Remembered, Done, Running, Ended, SetupSteps
    <2> QED
      BY <2>1, <2>2, SetupStoreKept
  <1>10. CASE Doctor \/ Discard \/ Unlock
    <2>1. store' = store
      BY <1>10 DEF Doctor, Discard, Unlock
    <2>2. /\ Running /\ Kept /\ cmd'.start.store = cmd.start.store /\ cmd'.made = cmd.made
          /\ cmd'.pc \notin {"store", "undoStore"}
          /\ (cmd'.pc \in SetupSteps => cmd.pc \in SetupSteps \ {"store"})
      BY <1>10, DoctorStep, DiscardStep, UnlockStep
      DEF Moves, Same, Remembered, Done, Running, Ended, SetupSteps, Rollback
    <2> QED
      BY <2>1, <2>2, SetupStoreKept
  <1>11. CASE UndoHooks \/ UndoTarget \/ UndoSkill \/ UndoSwap \/ UndoTemp
    <2>1. store' = store
      BY <1>11 DEF UndoHooks, UndoTarget, UndoSkill, UndoSwap, UndoTemp
    <2>2. /\ Running /\ Kept /\ cmd'.start.store = cmd.start.store /\ cmd'.made = cmd.made
          /\ cmd'.pc \notin {"store", "undoStore"} /\ cmd'.pc \notin SetupSteps
      BY <1>11, UndoHooksStep, UndoTargetStep, UndoSkillStep, UndoSwapStep, UndoTempStep
      DEF Moves, Same, Remembered, Done, Running, Ended, SetupSteps
    <2> QED
      BY <2>1, <2>2, SetupStoreKept
  <1>12. CASE Fail
    <2>1. store' = store
      BY <1>12 DEF Fail
    <2>2. /\ Kept /\ cmd'.start.store = cmd.start.store /\ cmd'.made = cmd.made
          /\ cmd'.pc \notin {"store", "undoStore"} /\ cmd'.pc \notin SetupSteps
      BY <1>12, FailStep DEF Moves, Remembered, Done, SetupSteps, Rollback
    <2>3. Running
      BY <1>12, FailStep, StepSets, Kinds DEF Running, Ended, Commands, SetupSteps, CutoverSteps
    <2> QED
      BY <2>1, <2>2, <2>3, SetupStoreKept
  <1>13. CASE UndoFails \/ Crash
    BY <1>13, UndoFailsStep, CrashStep DEF Moves, SetupStore, Running, Ended
  <1>14. CASE HookCheck \/ HookCapture \/ Rule \/ EditHooks \/ Pull
    <2>1. store'.kind = store.kind /\ store'.row = store.row
      BY <1>14, MeanwhileStep
    <2>2. cmd'.pc = cmd.pc /\ cmd'.op = cmd.op /\ cmd'.start = cmd.start /\ cmd'.made = cmd.made
      BY <1>14, MeanwhileCmd DEF Kept, Remembered, Done
    <2> QED
      BY <2>1, <2>2 DEF SetupStore, At, Running
  <1>15. CASE UNCHANGED vars
    BY <1>15 DEF vars, SetupStore, At, Running
  <1> QED
    BY <1>1, <1>2, <1>3, <1>4, <1>5, <1>6, <1>7, <1>8, <1>9, <1>10, <1>11, <1>12, <1>13, <1>14,
      <1>15 DEF Next, Work

BeforeReplace == {"backup", "migrate"} \union Migrating

LEMMA CutoverStoreKept ==
  ASSUME TypeOK, CutoverStore, store' = store, Kept, Running' => Running,
         cmd'.start.store = cmd.start.store, cmd'.made = cmd.made, cmd.pc # "undoReplace",
         cmd'.pc \in Replaced <=> cmd.pc \in Replaced,
         cmd'.pc \in BeforeReplace => cmd.pc \in BeforeReplace,
         cmd'.pc \in Migrating => cmd.pc \in Migrating /\ cmd'.temp = cmd.temp
  PROVE  CutoverStore'
  BY DEF CutoverStore, At, Running, Kept, BeforeReplace

LEMMA CutoverStoreStep ==
  ASSUME TypeOK, CutoverStore, [Next]_vars
  PROVE  CutoverStore'
  <1>0. store \in Stores /\ (Running => cmd.start.store \in Stores /\ cmd.ver \in Version)
        /\ (Running /\ cmd.op = "cutover" => cmd.approval \in Event)
    BY DEF TypeOK, Starts
  <1>1. ASSUME NEW v \in Version, Setup(v) PROVE CutoverStore'
    <2> PICK g \in BOOLEAN : Begin("setup", v, g, None)
      BY <1>1 DEF Setup
    <2>1. cmd'.op = "setup"
      BY DEF Begin
    <2> QED
      BY <2>1 DEF CutoverStore
  <1>2. ASSUME NEW v \in Version, Cutover(v) PROVE CutoverStore'
    <2> PICK e \in store.events : Begin("cutover", v, FALSE, e)
      BY <1>2 DEF Cutover
    <2>1. e \in Event
      BY DEF TypeOK, Stores
    <2>2. cmd'.pc = "backup" /\ cmd'.start.store = store /\ ~cmd'.made
      BY <2>1, BeginStep DEF Commands
    <2>3. store' = store /\ store.kind = "legacy"
      BY <1>2 DEF Cutover
    <2> QED
      BY <2>2, <2>3 DEF CutoverStore, Replaced, Migrating
  <1>3. CASE Backup
    <2>1. /\ cmd.pc = "backup" /\ cmd.op = "cutover" /\ Running /\ cmd'.pc = "migrate"
          /\ cmd'.start.store = store /\ cmd'.made = cmd.made /\ store' = store
      BY <1>3, BackupStep DEF Backup, Moves, Done, Running, Ended
    <2> QED
      BY <2>1 DEF CutoverStore, At, Replaced, Migrating
  <1>4. CASE Migrate
    <2>1. /\ cmd.pc = "migrate" /\ cmd.op = "cutover" /\ Running /\ cmd'.pc = "artifact"
          /\ cmd'.start = cmd.start /\ cmd'.made = cmd.made /\ store' = store
          /\ cmd'.approval = cmd.approval /\ cmd'.temp = Migrated(store, cmd.approval)
      BY <1>4, MigrateStep DEF Migrate, Moves, Kept, Done, Running, Ended
    <2>2. cmd'.temp.kind = "core" /\ cmd.approval \in cmd'.temp.used
      BY <1>0, <2>1, MigratedTypes
    <2> QED
      BY <2>1, <2>2 DEF CutoverStore, At, Replaced, Migrating
  <1>5. CASE Bind
    <2>1. CASE cmd.op = "cutover"
      <3>1. /\ cmd.pc = "bind" /\ cmd'.pc = "selftest" /\ cmd'.start = cmd.start /\ Running
            /\ cmd'.made = cmd.made /\ store' = store /\ cmd'.approval = cmd.approval
            /\ cmd.temp \in Stores /\ cmd'.temp = RuntimeBound(cmd.temp)
        BY <1>5, <2>1, BindStep DEF Moves, Kept, Done
      <3>2. cmd'.temp.kind = cmd.temp.kind /\ cmd'.temp.used = cmd.temp.used
        BY <1>0, <3>1, StoreBound
      <3> QED
        BY <2>1, <3>1, <3>2 DEF CutoverStore, At, Replaced, Migrating
    <2>2. CASE cmd.op = "setup"
      BY <1>5, <2>2, BindStep DEF Moves, Kept, CutoverStore
    <2> QED
      BY <2>1, <2>2, Kinds DEF Commands
  <1>6. CASE ReplaceStore
    <2>1. /\ cmd.pc = "replace" /\ cmd.op = "cutover" /\ Running /\ cmd'.pc = "hooks"
          /\ cmd'.start = cmd.start /\ cmd'.made /\ cmd'.approval = cmd.approval
          /\ store' = cmd.temp
      BY <1>6, ReplaceStoreStep DEF Moves, Kept, Running, Ended
    <2> QED
      BY <2>1 DEF CutoverStore, At, Replaced, Migrating
  <1>7. CASE UndoReplace
    <2>1. /\ cmd.pc = "undoReplace" /\ cmd.op = "cutover" /\ Running /\ cmd'.pc = "undoHooks"
          /\ cmd'.start = cmd.start
          /\ store' = IF cmd.made THEN cmd.start.store ELSE store
      BY <1>7, UndoReplaceStep DEF UndoReplace, Moves, Same, Remembered, Running, Ended
    <2> QED
      BY <2>1 DEF CutoverStore, At, Replaced, Migrating
  <1>8. CASE CreateStore \/ WriteTarget \/ UndoTarget \/ UndoRegistry \/ UndoStore
    BY <1>8, CreateStoreStep, WriteTargetStep, UndoTargetStep, UndoRegistryStep, UndoStoreStep
    DEF Moves, Kept, CutoverStore
  <1>9. CASE InstallArtifact \/ SelfTest \/ Snapshot
    <2>1. store' = store
      BY <1>9 DEF InstallArtifact, SelfTest, Snapshot
    <2>2. CASE cmd.op = "cutover"
      <3>1. /\ Running /\ Kept /\ cmd'.start.store = cmd.start.store /\ cmd'.made = cmd.made
            /\ cmd.pc # "undoReplace" /\ cmd'.temp = cmd.temp
            /\ cmd'.pc \notin Replaced /\ cmd.pc \notin Replaced /\ cmd.pc \in Migrating
        BY <1>9, <2>2, InstallArtifactStep, SelfTestStep, SnapshotStep
        DEF Moves, Same, Remembered, Done, Running, Ended, Replaced, Migrating
      <3> QED
        BY <2>1, <3>1, CutoverStoreKept DEF BeforeReplace
    <2>3. CASE cmd.op # "cutover"
      BY <1>9, <2>3, InstallArtifactStep, SelfTestStep, SnapshotStep DEF Moves, Kept, CutoverStore
    <2> QED
      BY <2>2, <2>3
  <1>10. CASE Prepare \/ Stash \/ Place \/ Drop
    <2>1. store' = store
      BY <1>10 DEF Prepare, Stash, Place, Drop
    <2>2. /\ Running /\ Kept /\ cmd'.start.store = cmd.start.store /\ cmd'.made = cmd.made
          /\ cmd.pc # "undoReplace" /\ cmd'.temp = cmd.temp
          /\ cmd'.pc \notin Replaced /\ cmd.pc \notin Replaced /\ cmd.pc \in Migrating
      BY <1>10, PrepareStep, StashStep, PlaceStep, DropStep
      DEF Moves, Same, Remembered, Done, Running, Ended, Replaced, Migrating
    <2> QED
      BY <2>1, <2>2, CutoverStoreKept DEF BeforeReplace
  <1>11. CASE WriteHooks
    <2>1. store' = store
      BY <1>11 DEF WriteHooks
    <2>2. CASE cmd.op = "cutover"
      <3>1. /\ Running /\ Kept /\ cmd'.start.store = cmd.start.store /\ cmd'.made = cmd.made
            /\ cmd.pc # "undoReplace" /\ cmd'.pc \in Replaced /\ cmd.pc \in Replaced
            /\ cmd'.pc \notin BeforeReplace
        BY <1>11, <2>2, WriteHooksStep
        DEF Moves, Same, Remembered, Done, Running, Ended, Replaced, Migrating, BeforeReplace
      <3> QED
        BY <2>1, <3>1, CutoverStoreKept DEF BeforeReplace
    <2>3. CASE cmd.op # "cutover"
      BY <1>11, <2>3, WriteHooksStep DEF Moves, Kept, CutoverStore
    <2> QED
      BY <2>2, <2>3
  <1>12. CASE Doctor
    <2>1. /\ store' = store /\ Running /\ cmd.pc = "doctor" /\ cmd'.start = cmd.start
          /\ cmd'.made = cmd.made /\ cmd'.op = cmd.op /\ cmd'.approval = cmd.approval
          /\ cmd'.pc \in {"discard", Rollback}
      BY <1>12, DoctorStep DEF Doctor, Moves, Kept, Same, Remembered, Done, Running, Ended
    <2> QED
      BY <2>1 DEF CutoverStore, At, Replaced, Migrating, Rollback
  <1>13. CASE Discard
    <2>1. /\ store' = store /\ Running /\ cmd.pc = "discard" /\ cmd'.start = cmd.start
          /\ cmd'.made = cmd.made /\ cmd'.op = cmd.op /\ cmd'.approval = cmd.approval
          /\ (cmd.op = "cutover" => cmd'.pc = "unlock")
      BY <1>13, DiscardStep DEF Discard, Moves, Kept, Remembered, Running, Ended
    <2> QED
      BY <2>1 DEF CutoverStore, At, Replaced, Migrating
  <1>14. CASE Unlock \/ UndoTemp
    BY <1>14, UnlockStep, UndoTempStep DEF Moves, CutoverStore, Running, Ended
  <1>15. CASE UndoHooks \/ UndoSkill \/ UndoSwap
    <2>1. store' = store
      BY <1>15 DEF UndoHooks, UndoSkill, UndoSwap
    <2>2. /\ Running /\ Kept /\ cmd'.start.store = cmd.start.store /\ cmd'.made = cmd.made
          /\ cmd.pc # "undoReplace" /\ cmd'.pc \notin Replaced /\ cmd.pc \notin Replaced
          /\ cmd'.pc \notin BeforeReplace
      BY <1>15, UndoHooksStep, UndoSkillStep, UndoSwapStep
      DEF Moves, Same, Remembered, Done, Running, Ended, Replaced, Migrating, BeforeReplace
    <2> QED
      BY <2>1, <2>2, CutoverStoreKept DEF BeforeReplace
  <1>16. CASE Fail
    <2>1. /\ store' = store /\ cmd'.start = cmd.start /\ cmd'.made = cmd.made /\ cmd'.op = cmd.op
          /\ cmd'.pc = IF cmd.pc = "backup" THEN "undoTemp" ELSE Rollback
      BY <1>16, FailStep DEF Fail, Moves, Kept, Remembered, Done
    <2>2. Running /\ cmd.pc # "undoReplace"
      BY <1>16, FailStep, StepSets, Kinds DEF Running, Ended, Commands, SetupSteps, CutoverSteps
    <2> QED
      BY <2>1, <2>2 DEF CutoverStore, At, Replaced, Migrating, Rollback
  <1>17. CASE UndoFails \/ Crash
    BY <1>17, UndoFailsStep, CrashStep DEF Moves, CutoverStore, Running, Ended
  <1>18. CASE HookCheck \/ HookCapture \/ Rule \/ EditHooks \/ Pull
    <2>1. store'.kind = store.kind /\ store.used \subseteq store'.used
      BY <1>18, MeanwhileStep
    <2>2. /\ cmd'.pc = cmd.pc /\ cmd'.op = cmd.op /\ cmd'.start = cmd.start
          /\ cmd'.made = cmd.made /\ cmd'.approval = cmd.approval /\ cmd'.temp = cmd.temp
      BY <1>18, MeanwhileCmd DEF Kept, Remembered, Done
    <2> QED
      BY <2>1, <2>2 DEF CutoverStore, At, Running
  <1>19. CASE UNCHANGED vars
    BY <1>19 DEF vars, CutoverStore, At, Running
  <1> QED
    BY <1>1, <1>2, <1>3, <1>4, <1>5, <1>6, <1>7, <1>8, <1>9, <1>10, <1>11, <1>12, <1>13, <1>14,
      <1>15, <1>16, <1>17, <1>18, <1>19 DEF Next, Work

LEMMA StoresAlways == Spec => [](SetupStore /\ CutoverStore)
  <1>1. Init => SetupStore /\ CutoverStore
    BY InitCases DEF SetupStore, CutoverStore, Running, Ended
  <1>2. TypeOK /\ SetupStore /\ CutoverStore /\ [Next]_vars => (SetupStore /\ CutoverStore)'
    BY SetupStoreStep, CutoverStoreStep
  <1> QED
    BY <1>1, <1>2, TypeCorrect, PTL DEF Spec

-----------------------------------------------------------------------------
(* Approvals are one-time.                                                 *)

Recalls(s, gone, last) ==
  /\ \A e \in s.events : e <= last
  /\ s.kind = "core" => \A e \in s.events \intersect s.live : e \notin s.used => e \notin gone
  /\ s.kind = "legacy" => \A e \in gone : e \in s.used \/ e <= s.doubt

LEMMA RemembersIs ==
  /\ \A s : Remembers(s) <=> Recalls(s, spent, count.event)
  /\ Remembers(store)' <=> Recalls(store', spent', count'.event)
  /\ Remembers(cmd.start.store)' <=> Recalls(cmd'.start.store, spent', count'.event)
  /\ Remembers(cmd.temp)' <=> Recalls(cmd'.temp, spent', count'.event)
  BY DEF Remembers, Recalls

\* A Store remembers as much as one with the same events, prompts and consumptions.
LEMMA RecallsSame ==
  ASSUME NEW s, NEW n, NEW gone, NEW last, Recalls(s, gone, last),
         n.kind = s.kind, n.events = s.events, n.live = s.live, n.used = s.used, n.doubt = s.doubt
  PROVE  Recalls(n, gone, last)
  BY DEF Recalls

LEMMA RecallsLater ==
  ASSUME NEW s \in Stores, NEW gone, NEW last \in Nat, Recalls(s, gone, last)
  PROVE  Recalls(s, gone, last + 1)
  <1>1. \A e \in s.events : e \in Nat /\ e <= last
    BY DEF Recalls, Stores, Event
  <1>2. \A e \in s.events : e <= last + 1
    BY <1>1
  <1> QED
    BY <1>2 DEF Recalls

\* _migrate_database drops every prompt whose approval a lost consumption may have used.
LEMMA MigratedRecalls ==
  ASSUME NEW s \in Stores, s.kind = "legacy", NEW a \in Event, NEW gone \in SUBSET Event,
         NEW last \in Nat, Recalls(s, gone, last)
  PROVE  Recalls(Migrated(s, a), gone, last)
  <1> PICK m : m = Migrated(s, a)
    OBVIOUS
  <1>1. /\ m.kind = "core" /\ m.events = EventsKept(s) /\ m.live = SessionsKept(s)
        /\ m.used = ConsumptionsKept(s) \union {a}
    BY MigratedTypes
  <1>2. \A e \in m.events : e <= last
    BY <1>1 DEF EventsKept, Recalls
  <1>3. ASSUME NEW e \in m.events \intersect m.live, e \notin m.used, e \in gone PROVE FALSE
    <2>1. e \in s.events /\ e > s.doubt /\ e \notin s.used
      BY <1>1, <1>3 DEF EventsKept, SessionsKept, ConsumptionsKept
    <2>2. e <= s.doubt
      BY <1>3, <2>1 DEF Recalls
    <2>3. e \in Nat /\ s.doubt \in Nat
      BY <2>1 DEF Stores, Event
    <2> QED
      BY <2>1, <2>2, <2>3
  <1> QED
    BY <1>1, <1>2, <1>3 DEF Recalls

LEMMA ApprovalsParts ==
  /\ ApprovalsFit <=>
       /\ \A e \in spent : e <= count.event
       /\ Recalls(store, spent, count.event)
       /\ Running /\ cmd.op = "cutover" =>
            cmd.approval <= count.event /\ Recalls(cmd.start.store, spent, count.event)
       /\ Running /\ cmd.op = "cutover" /\ cmd.pc \in Migrating =>
            Recalls(cmd.temp, spent, count.event)
  /\ ApprovalsFit' <=>
       /\ \A e \in spent' : e <= count'.event
       /\ Recalls(store', spent', count'.event)
       /\ Running' /\ cmd'.op = "cutover" =>
            cmd'.approval <= count'.event /\ Recalls(cmd'.start.store, spent', count'.event)
       /\ Running' /\ cmd'.op = "cutover" /\ cmd'.pc \in Migrating =>
            Recalls(cmd'.temp, spent', count'.event)
  BY RemembersIs DEF ApprovalsFit

LEMMA ApprovalsKept ==
  ASSUME ApprovalsFit, spent' = spent, count'.event = count.event, Kept, Running' => Running,
         Recalls(store', spent, count.event), cmd'.start.store = cmd.start.store,
         cmd'.op = "cutover" /\ cmd'.pc \in Migrating =>
           cmd.pc \in Migrating /\ cmd'.temp = cmd.temp
  PROVE  ApprovalsFit'
  BY ApprovalsParts DEF Kept

LEMMA ApprovalsFitStep ==
  ASSUME TypeOK, CutoverStore, ApprovalsFit, RulesMeanwhile = FALSE, [Next]_vars
  PROVE  ApprovalsFit'
  <1>0. /\ store \in Stores /\ (Running => cmd.start.store \in Stores /\ cmd.ver \in Version)
        /\ (Running /\ cmd.op = "cutover" => cmd.approval \in Event)
        /\ count.event \in Nat /\ spent \in SUBSET Event
    BY BoundsAssumption DEF TypeOK, Starts, Counts
  <1>1. /\ \A e \in spent : e <= count.event
        /\ Recalls(store, spent, count.event)
        /\ Running /\ cmd.op = "cutover" =>
             cmd.approval <= count.event /\ Recalls(cmd.start.store, spent, count.event)
        /\ Running /\ cmd.op = "cutover" /\ cmd.pc \in Migrating =>
             Recalls(cmd.temp, spent, count.event)
    BY ApprovalsParts
  <1>2. ASSUME NEW v \in Version, Setup(v) PROVE ApprovalsFit'
    <2> PICK g \in BOOLEAN : Begin("setup", v, g, None)
      BY <1>2 DEF Setup
    <2>1. cmd'.op = "setup" /\ count'.event = count.event
      BY BeginStep DEF Commands
    <2>2. store' = store /\ spent' = spent
      BY <1>2 DEF Setup
    <2> QED
      BY <1>1, <2>1, <2>2, ApprovalsParts
  <1>3. ASSUME NEW v \in Version, Cutover(v) PROVE ApprovalsFit'
    <2> PICK e \in store.events : Begin("cutover", v, FALSE, e)
      BY <1>3 DEF Cutover
    <2>1. e \in Event
      BY <1>0 DEF Stores
    <2>2. /\ cmd'.pc = "backup" /\ cmd'.start.store = store /\ cmd'.approval = e
          /\ count'.event = count.event
      BY <2>1, BeginStep DEF Commands
    <2>3. store' = store /\ spent' = spent /\ e <= count.event
      BY <1>1, <1>3 DEF Cutover, Recalls
    <2> QED
      BY <1>1, <2>2, <2>3, ApprovalsParts DEF Migrating
  <1>4. CASE CreateStore
    <2>1. Recalls(Empty, spent, count.event)
      BY EmptyTypes DEF Recalls
    <2>2. /\ Kept /\ Running /\ cmd'.start.store = cmd.start.store /\ cmd'.op = "setup"
          /\ spent' = spent /\ count' = count /\ store' \in {Empty, store}
      BY <1>4, CreateStoreStep DEF CreateStore, Moves, Kept, Remembered, Running, Ended
    <2> QED
      BY <1>1, <2>1, <2>2, ApprovalsKept
  <1>5. CASE Backup
    <2>1. /\ Kept /\ Running /\ cmd'.start.store = store /\ cmd'.pc = "migrate"
          /\ spent' = spent /\ count' = count /\ store' = store
      BY <1>5, BackupStep DEF Backup, Moves, Running, Ended
    <2> QED
      BY <1>1, <2>1, ApprovalsParts DEF Kept, Migrating
  <1>6. CASE Migrate
    <2>1. /\ Kept /\ Running /\ cmd'.start = cmd.start /\ cmd.pc = "migrate" /\ cmd.op = "cutover"
          /\ spent' = spent /\ count' = count /\ store' = store
          /\ cmd'.temp = Migrated(store, cmd.approval)
      BY <1>6, MigrateStep DEF Migrate, Moves, Running, Ended
    <2>2. store.kind = "legacy"
      BY <2>1 DEF CutoverStore, At, Replaced
    <2>3. Recalls(Migrated(store, cmd.approval), spent, count.event)
      BY <1>0, <1>1, <2>1, <2>2, MigratedRecalls
    <2> QED
      BY <1>1, <2>1, <2>3, ApprovalsParts DEF Kept
  <1>7. CASE Bind
    <2>1. Kept /\ Running /\ cmd'.start = cmd.start /\ spent' = spent /\ count' = count
      BY <1>7, BindStep, Kinds DEF Bind, Moves, Commands
    <2>2. CASE cmd.op = "setup"
      <3>1. Recalls(GlobalBound(RuntimeBound(store)), spent, count.event)
        BY <1>0, <1>1, <2>1, StoreBound, RecallsSame
      <3>2. store' = GlobalBound(RuntimeBound(store))
        BY <1>7, <2>2, BindStep
      <3> QED
        BY <2>1, <2>2, <3>1, <3>2, ApprovalsKept DEF Kept
    <2>3. CASE cmd.op = "cutover"
      <3>1. cmd.pc = "bind" /\ store' = store /\ cmd.temp \in Stores
            /\ cmd'.temp = RuntimeBound(cmd.temp)
        BY <1>7, <2>3, BindStep
      <3>2. Recalls(cmd.temp, spent, count.event)
        BY <1>1, <2>1, <2>3, <3>1 DEF Migrating
      <3>3. Recalls(RuntimeBound(cmd.temp), spent, count.event)
        BY <1>0, <2>1, <3>1, <3>2, StoreBound, RecallsSame
      <3> QED
        BY <1>1, <2>1, <3>1, <3>3, ApprovalsParts DEF Kept
    <2> QED
      BY <2>2, <2>3, Kinds DEF Commands
  <1>8. CASE ReplaceStore
    <2>1. /\ Kept /\ Running /\ cmd'.start = cmd.start /\ cmd.pc = "replace" /\ cmd.op = "cutover"
          /\ cmd'.pc = "hooks" /\ spent' = spent /\ count' = count /\ store' = cmd.temp
      BY <1>8, ReplaceStoreStep DEF ReplaceStore, Moves, Running, Ended
    <2> QED
      BY <1>1, <2>1, ApprovalsParts DEF Kept, Migrating
  <1>9. CASE UndoReplace
    <2>1. /\ Kept /\ Running /\ cmd'.start = cmd.start /\ cmd.op = "cutover"
          /\ cmd'.pc = "undoHooks" /\ spent' = spent /\ count' = count
          /\ store' \in {store, cmd.start.store}
      BY <1>9, UndoReplaceStep DEF UndoReplace, Moves, Same, Remembered, Running, Ended
    <2> QED
      BY <1>1, <2>1, ApprovalsKept DEF Migrating
  <1>10. CASE UndoRegistry
    <2>1. /\ Kept /\ Running /\ cmd'.start = cmd.start /\ cmd.op = "setup"
          /\ spent' = spent /\ count' = count
      BY <1>10, UndoRegistryStep DEF UndoRegistry, Moves, Same, Remembered, Running, Ended
    <2>2. Recalls(store', spent, count.event)
      BY <1>1, <1>10, RegistryStep DEF Recalls
    <2> QED
      BY <2>1, <2>2, ApprovalsKept DEF Kept
  <1>11. CASE UndoStore
    <2>1. /\ Kept /\ Running /\ cmd'.start = cmd.start /\ cmd.op = "setup"
          /\ spent' = spent /\ count' = count /\ store' \in {store, Absent}
      BY <1>11, UndoStoreStep DEF UndoStore, Moves, Same, Remembered, Running, Ended
    <2>2. Recalls(Absent, spent, count.event)
      BY EmptyTypes DEF Recalls
    <2> QED
      BY <1>1, <2>1, <2>2, ApprovalsKept DEF Kept
  <1>12. CASE Unlock
    <2>1. /\ cmd.pc = "unlock" /\ cmd.op = "cutover" /\ Running /\ ~Running'
          /\ spent' = spent \union {cmd.approval} /\ count' = count /\ store' = store
      BY <1>12, UnlockStep DEF Unlock, Moves, Running, Ended
    <2>2. store.kind = "core" /\ cmd.approval \in store.used
      BY <2>1 DEF CutoverStore, Replaced
    <2>3. Recalls(store', spent', count'.event)
      BY <1>1, <2>1, <2>2 DEF Recalls
    <2> QED
      BY <1>1, <2>1, <2>3, ApprovalsParts
  <1>13. CASE InstallArtifact \/ SelfTest \/ WriteTarget \/ WriteHooks \/ Snapshot
    <2>1. store' = store /\ spent' = spent /\ count' = count
      BY <1>13 DEF InstallArtifact, SelfTest, WriteTarget, WriteHooks, Snapshot
    <2>2. Kept /\ Running /\ cmd'.start.store = cmd.start.store
          /\ (cmd'.op = "cutover" /\ cmd'.pc \in Migrating =>
                cmd.pc \in Migrating /\ cmd'.temp = cmd.temp)
      BY <1>13, InstallArtifactStep, SelfTestStep, WriteTargetStep, WriteHooksStep, SnapshotStep
      DEF Moves, Kept, Same, Remembered, Running, Ended, Migrating
    <2> QED
      BY <1>1, <2>1, <2>2, ApprovalsKept
  <1>14. CASE Prepare \/ Stash \/ Place \/ Drop \/ Doctor \/ Discard
    <2>1. store' = store /\ spent' = spent /\ count' = count
      BY <1>14 DEF Prepare, Stash, Place, Drop, Doctor, Discard
    <2>2. Kept /\ Running /\ cmd'.start.store = cmd.start.store
          /\ (cmd'.pc \in Migrating => cmd.pc \in Migrating /\ cmd'.temp = cmd.temp)
      BY <1>14, PrepareStep, StashStep, PlaceStep, DropStep, DoctorStep, DiscardStep
      DEF Moves, Same, Remembered, Running, Ended, Migrating, Rollback
    <2> QED
      BY <1>1, <2>1, <2>2, ApprovalsKept
  <1>15. CASE UndoHooks \/ UndoTarget \/ UndoSkill \/ UndoSwap \/ UndoTemp
    <2>1. store' = store /\ spent' = spent /\ count' = count
      BY <1>15 DEF UndoHooks, UndoTarget, UndoSkill, UndoSwap, UndoTemp
    <2>2. Kept /\ Running /\ cmd'.start.store = cmd.start.store /\ cmd'.pc \notin Migrating
      BY <1>15, UndoHooksStep, UndoTargetStep, UndoSkillStep, UndoSwapStep, UndoTempStep
      DEF Moves, Same, Remembered, Running, Ended, Migrating
    <2> QED
      BY <1>1, <2>1, <2>2, ApprovalsKept
  <1>16. CASE Fail
    <2>1. store' = store /\ spent' = spent /\ count'.event = count.event
      BY <1>16, CountTypes DEF Fail
    <2>2. Kept /\ cmd'.start.store = cmd.start.store /\ cmd'.pc \notin Migrating
      BY <1>16, FailStep DEF Moves, Remembered, Migrating, Rollback
    <2>3. Running
      BY <1>16, FailStep, StepSets, Kinds DEF Running, Ended, Commands, SetupSteps, CutoverSteps
    <2> QED
      BY <1>1, <2>1, <2>2, <2>3, ApprovalsKept
  <1>17. CASE UndoFails \/ Crash
    <2>1. store' = store /\ spent' = spent /\ count'.event = count.event
      BY <1>17, CountTypes DEF UndoFails, Crash
    <2>2. ~Running'
      BY <1>17, UndoFailsStep, CrashStep DEF Moves, Running, Ended
    <2> QED
      BY <1>1, <2>1, <2>2, ApprovalsParts
  <1>18. CASE HookCapture
    <2>1. cmd' = cmd /\ spent' = spent
      BY <1>18 DEF HookCapture
    <2>2. CASE CoreSchema(store)
      <3>1. /\ count'.event = count.event + 1 /\ store.kind = "core" /\ store'.kind = "core"
            /\ store'.events = store.events \union {count.event + 1}
            /\ store'.live \subseteq store.live \union {count.event + 1}
            /\ store'.used = store.used
        BY <1>18, <2>2, CaptureStep DEF CoreSchema
      <3>2. ASSUME NEW e \in spent PROVE e <= count.event + 1 /\ e # count.event + 1
        <4>1. e \in Nat /\ e <= count.event /\ count.event \in Nat
          BY <1>0, <1>1 DEF Event
        <4> QED
          BY <4>1
      <3>3. \A e \in store.events : e <= count.event + 1
        BY <1>0, <1>1, RecallsLater DEF Recalls
      <3>4. Recalls(store', spent, count.event + 1)
        BY <1>0, <1>1, <3>1, <3>2, <3>3 DEF Recalls
      <3>5. CASE Running /\ cmd.op = "cutover"
        <4>1. cmd.approval <= count.event + 1
          <5>1. cmd.approval \in Nat
            BY <1>0, <3>5 DEF Event
          <5>2. cmd.approval <= count.event /\ count.event \in Nat
            BY <1>0, <1>1, <3>5
          <5> QED
            BY <5>1, <5>2
        <4>2. Recalls(cmd.start.store, spent, count.event + 1)
          BY <1>0, <1>1, <3>5, RecallsLater
        <4>3. cmd.pc \in Migrating => Recalls(cmd.temp, spent, count.event + 1)
          BY <1>0, <1>1, <3>5, RecallsLater DEF TypeOK
        <4> QED
          BY <2>1, <3>1, <3>2, <3>4, <4>1, <4>2, <4>3, ApprovalsParts
      <3>6. CASE ~(Running /\ cmd.op = "cutover")
        BY <2>1, <3>1, <3>2, <3>4, <3>6, ApprovalsParts DEF Running
      <3> QED
        BY <3>5, <3>6
    <2>3. CASE ~CoreSchema(store)
      <3>1. store' = store /\ count' = count
        BY <1>18, <2>3 DEF HookCapture
      <3> QED
        BY <1>1, <2>1, <3>1, ApprovalsParts DEF Running
    <2> QED
      BY <2>2, <2>3
  <1>19. CASE Rule
    <2>1. ~Running /\ ~Running' /\ count'.event = count.event
      BY <1>19, CountTypes, MeanwhileCmd DEF Rule, Outside, Running
    <2> PICK e \in Event :
           /\ Usable(e) /\ spent' = spent \union {e} /\ store.kind = "core"
           /\ store'.kind = store.kind /\ store'.events = store.events
           /\ store'.live = store.live /\ store'.used = store.used \union {e}
      BY <1>19, RuleStep
    <2>2. e <= count.event
      BY <1>1 DEF Usable, Recalls
    <2>3. Recalls(store', spent', count'.event)
      BY <1>1, <2>1 DEF Recalls
    <2> QED
      BY <1>1, <2>1, <2>2, <2>3, ApprovalsParts
  <1>20. CASE HookCheck \/ EditHooks \/ Pull
    <2>1. store' = store /\ spent' = spent /\ count'.event = count.event
      BY <1>20, CountTypes DEF HookCheck, EditHooks, Pull, Outside
    <2>2. Kept /\ cmd'.pc = cmd.pc /\ cmd'.start = cmd.start /\ cmd'.temp = cmd.temp
      BY <1>20, MeanwhileCmd DEF Remembered
    <2> QED
      BY <1>1, <2>1, <2>2, ApprovalsKept DEF Running
  <1>21. CASE UNCHANGED vars
    BY <1>1, <1>21, ApprovalsParts DEF vars, Running
  <1> QED
    BY <1>2, <1>3, <1>4, <1>5, <1>6, <1>7, <1>8, <1>9, <1>10, <1>11, <1>12, <1>13, <1>14,
      <1>15, <1>16, <1>17, <1>18, <1>19, <1>20, <1>21 DEF Next, Work

LEMMA ApprovalsInit ==
  ASSUME Init
  PROVE  ApprovalsFit
  <1>1. ~Running /\ count.event = OldEvents /\ OldEvents \in Nat
    BY InitCases, BoundsAssumption DEF Running, Ended, Init
  <1>2. (\A e \in spent : e <= OldEvents) /\ Recalls(store, spent, OldEvents)
    <2>1. CASE InitEmpty
      BY <2>1, EmptyTypes DEF Init, InitEmpty, Recalls
    <2>2. CASE InitCore
      <3> PICK v \in artifacts, b \in BOOLEAN :
             store = [Empty EXCEPT !.row = v, !.bind = IF b THEN source ELSE None]
        BY <2>2 DEF InitCore
      <3>1. store.kind = "core" /\ store.events = {}
        BY EmptyTypes DEF Stores
      <3>2. spent = {}
        BY <3>1 DEF Init
      <3> QED
        BY <3>1, <3>2 DEF Recalls
    <2>3. CASE InitLegacy
      <3> PICK live \in SUBSET (1..OldEvents), used \in SUBSET (1..OldEvents),
               lost \in SUBSET (1..OldEvents), doubt \in 0..OldEvents, horizon \in 0..OldEvents :
                 /\ \A e \in lost : e <= doubt
                 /\ store = [Absent EXCEPT !.kind = "legacy", !.events = 1..OldEvents,
                               !.live = live, !.used = used, !.doubt = doubt, !.horizon = horizon]
                 /\ spent = used \union lost
        BY <2>3 DEF InitLegacy
      <3>1. store.kind = "legacy" /\ store.events = 1..OldEvents /\ store.used = used
            /\ store.doubt = doubt
        BY EmptyTypes DEF Stores
      <3>2. \A e \in 1..OldEvents : e <= OldEvents
        BY <1>1
      <3>3. \A e \in spent : e \in 1..OldEvents
        OBVIOUS
      <3> QED
        BY <3>1, <3>2, <3>3 DEF Recalls
    <2> QED
      BY <2>1, <2>2, <2>3, InitCases
  <1> QED
    BY <1>1, <1>2, ApprovalsParts

\* "Approvals are one-time": no Store, migrated or restored, accepts an event whose approval
\* was used before, for any prompts, lost consumptions, crashes and rollbacks, where no rule
\* command runs while the Store is cut over (core_cutover.py; a rollback would forget its use).
THEOREM ApprovalsAreUsedOnce ==
  ASSUME RulesMeanwhile = FALSE
  PROVE  Spec => []ApprovalsOnce
  <1>1. Init => ApprovalsFit
    BY ApprovalsInit
  <1>2. TypeOK /\ CutoverStore /\ ApprovalsFit /\ [Next]_vars => ApprovalsFit'
    BY ApprovalsFitStep
  <1>3. ApprovalsFit => ApprovalsOnce
    BY DEF ApprovalsFit, Remembers, ApprovalsOnce, Usable, CoreSchema
  <1> QED
    BY <1>1, <1>2, <1>3, TypeCorrect, StoresAlways, PTL DEF Spec

-----------------------------------------------------------------------------
(* One version after a success or a rollback.                              *)

HooksBack == {"backup", "undoTarget", "undoSkill", "undoSwap", "undoRegistry", "undoStore",
              "undoTemp"}
Early == {"store", "artifact", "selftest", "target", "hooks", "snapshot"}

\* A step of a running command that keeps what it found, and is not yet verified.
LEMMA WholeKept ==
  ASSUME WholeFits, Running, clean' = clean, cmd'.op = cmd.op, cmd'.whole = cmd.whole,
         cmd'.start.store = cmd.start.store, cmd'.start.hooks.side = cmd.start.hooks.side,
         cmd'.start.skill = cmd.start.skill, cmd'.pc \notin {"discard", "unlock"},
         cmd'.pc \in HooksBack => hooks'.side = cmd.start.hooks.side,
         cmd'.pc \in {"undoRegistry", "undoStore"} => ~cmd'.snapped,
         cmd.op = "setup" /\ cmd'.pc \in Early => ~cmd'.snapped
  PROVE  WholeFits'
  BY DEF WholeFits, HooksBack, Early

\* The last step of a command: nothing runs, and the host is whole if it says so.
LEMMA WholeEnds ==
  ASSUME cmd'.pc \in Ended, clean' => Whole(store', hooks'.side, skill'.dir)
  PROVE  WholeFits'
  BY DEF WholeFits, Running, Ended

LEMMA WholeFitsStep ==
  ASSUME TypeOK, SkillFits, SetupStore, CutoverStore, WholeFits, [Next]_vars
  PROVE  WholeFits'
  <1>0. /\ store \in Stores /\ hooks \in Hooks /\ skill \in Skills
        /\ (Running => cmd.start \in Starts /\ cmd.ver \in Version)
        /\ cmd.whole \in BOOLEAN /\ clean \in BOOLEAN
    BY DEF TypeOK, Cmds
  <1>1. Running => ~clean
    BY DEF WholeFits
  <1>2. ASSUME NEW v \in Version, Setup(v) PROVE WholeFits'
    <2> PICK g \in BOOLEAN : Begin("setup", v, g, None)
      BY <1>2 DEF Setup
    <2>1. /\ cmd'.pc = "store" /\ cmd'.start.store = store /\ cmd'.start.hooks = hooks
          /\ cmd'.start.skill = skill.dir /\ ~cmd'.snapped /\ (cmd'.whole <=> clean)
          /\ clean' = FALSE
      BY BeginStep DEF Commands
    <2> QED
      BY <2>1 DEF WholeFits
  <1>3. ASSUME NEW v \in Version, Cutover(v) PROVE WholeFits'
    <2> PICK e \in store.events : Begin("cutover", v, FALSE, e)
      BY <1>3 DEF Cutover
    <2>1. e \in Event
      BY <1>0 DEF Stores
    <2>2. /\ cmd'.pc = "backup" /\ cmd'.start.store = store /\ cmd'.start.hooks = hooks
          /\ cmd'.start.skill = skill.dir /\ (cmd'.whole <=> clean) /\ clean' = FALSE
          /\ cmd'.op = "cutover"
      BY <2>1, BeginStep DEF Commands
    <2>3. hooks' = hooks
      BY <1>3 DEF Cutover
    <2> QED
      BY <2>2, <2>3 DEF WholeFits
  <1>4. CASE Backup
    <2>1. /\ cmd.pc = "backup" /\ cmd.op = "cutover" /\ Running /\ cmd'.pc = "migrate"
          /\ cmd'.op = cmd.op /\ cmd'.whole = cmd.whole /\ clean' = clean
          /\ cmd'.start.store = store /\ cmd'.start.hooks = hooks
          /\ cmd'.start.skill = cmd.start.skill
      BY <1>4, BackupStep DEF Backup, Moves, Kept, Running, Ended
    <2>2. store.kind = "legacy" /\ cmd.start.store.kind = "legacy"
      BY <2>1 DEF CutoverStore, At, Replaced
    <2>3. cmd.whole => hooks.side = "legacy"
      BY <2>1, <2>2 DEF WholeFits, Whole
    <2> QED
      BY <1>1, <2>1, <2>2, <2>3 DEF WholeFits, Whole
  <1>5. CASE CreateStore \/ Migrate \/ Bind \/ ReplaceStore
    <2>1. clean' = clean /\ Running /\ cmd'.op = cmd.op /\ cmd'.whole = cmd.whole
          /\ cmd'.start = cmd.start /\ cmd'.pc \notin HooksBack \union {"discard", "unlock"}
          /\ cmd'.snapped = cmd.snapped
          /\ (cmd.op = "setup" /\ cmd'.pc \in Early => cmd.pc \in Early)
      BY <1>5, CreateStoreStep, MigrateStep, BindStep, ReplaceStoreStep, Kinds
      DEF CreateStore, Migrate, Bind, ReplaceStore, Moves, Kept, Remembered, Done, Running, Ended,
        HooksBack, Early, Commands
    <2> QED
      BY <2>1, WholeKept DEF WholeFits, HooksBack, Early
  <1>6. CASE InstallArtifact \/ SelfTest \/ WriteTarget \/ WriteHooks
    <2>1. clean' = clean /\ Running /\ cmd'.op = cmd.op /\ cmd'.whole = cmd.whole
          /\ cmd'.start.store = cmd.start.store /\ cmd'.start.hooks = cmd.start.hooks
          /\ cmd'.start.skill = cmd.start.skill /\ cmd'.snapped = cmd.snapped
          /\ cmd'.pc \notin HooksBack \union {"discard", "unlock"} /\ cmd.pc \in Early
      BY <1>6, InstallArtifactStep, SelfTestStep, WriteTargetStep, WriteHooksStep
      DEF InstallArtifact, SelfTest, WriteTarget, WriteHooks, Moves, Kept, Same, Remembered, Done,
        Running, Ended, HooksBack, Early
    <2> QED
      BY <2>1, WholeKept DEF WholeFits, HooksBack, Early
  <1>7. CASE Snapshot
    <2>1. /\ clean' = clean /\ Running /\ cmd.pc = "snapshot" /\ cmd'.pc = "prepare"
          /\ cmd'.op = cmd.op /\ cmd'.whole = cmd.whole
          /\ cmd'.start.store = cmd.start.store /\ cmd'.start.hooks = cmd.start.hooks
          /\ cmd'.start.skill = skill.dir
      BY <1>7, SnapshotStep DEF Snapshot, Moves, Kept, Running, Ended
    <2>2. CASE cmd.op = "setup"
      <3>1. skill.dir = cmd.start.skill
        BY <2>1, <2>2 DEF WholeFits, SkillFits, At
      <3> QED
        BY <2>1, <3>1, WholeKept DEF HooksBack, Early
    <2>3. CASE cmd.op = "cutover"
      <3>1. cmd.start.store.kind = "legacy"
        BY <2>1, <2>3 DEF CutoverStore
      <3> QED
        BY <1>1, <2>1, <2>3, <3>1 DEF WholeFits, Whole
    <2> QED
      BY <2>2, <2>3, Kinds DEF Commands
  <1>8. CASE Prepare \/ Stash \/ Place \/ Drop
    <2>1. clean' = clean /\ Running /\ cmd'.op = cmd.op /\ cmd'.whole = cmd.whole
          /\ cmd'.start = cmd.start
          /\ cmd'.pc \notin HooksBack \union Early
               \union {"discard", "unlock", "undoRegistry", "undoStore"}
      BY <1>8, PrepareStep, StashStep, PlaceStep, DropStep
      DEF Prepare, Stash, Place, Drop, Moves, Kept, Same, Remembered, Running, Ended,
        HooksBack, Early
    <2> QED
      BY <2>1, WholeKept
  <1>9. CASE Doctor
    <2>1. clean' = clean /\ Running /\ cmd'.op = cmd.op /\ cmd'.whole = cmd.whole
          /\ cmd'.start = cmd.start /\ store' = store /\ hooks' = hooks /\ skill' = skill
          /\ cmd'.pc = IF DoctorOk THEN "discard" ELSE Rollback
      BY <1>9, DoctorStep DEF Doctor, Moves, Kept, Same, Remembered, Running, Ended
    <2>2. CASE DoctorOk
      <3>1. store.kind = "core" /\ Whole(store, hooks.side, skill.dir)
        BY <2>2 DEF DoctorOk, CoreSchema, Whole
      <3> QED
        BY <1>1, <2>1, <2>2, <3>1 DEF WholeFits
    <2>3. CASE ~DoctorOk
      BY <2>1, <2>3, WholeKept DEF Rollback, HooksBack, Early
    <2> QED
      BY <2>2, <2>3
  <1>10. CASE Discard
    <2>1. Running /\ cmd.pc = "discard" /\ cmd'.op = cmd.op /\ cmd'.whole = cmd.whole
          /\ cmd'.start = cmd.start /\ store' = store /\ hooks' = hooks /\ skill' = skill
          /\ cmd'.pc = (IF cmd.op = "setup" THEN "done" ELSE "unlock")
          /\ (clean' <=> cmd.op = "setup")
      BY <1>10, DiscardStep DEF Discard, Moves, Kept, Remembered, Running, Ended
    <2>2. store.kind = "core" /\ Whole(store, hooks.side, skill.dir)
      BY <2>1 DEF WholeFits
    <2>3. CASE cmd.op = "setup"
      BY <2>1, <2>2, <2>3, WholeEnds DEF Ended
    <2>4. CASE cmd.op # "setup"
      BY <2>1, <2>2, <2>4 DEF WholeFits
    <2> QED
      BY <2>3, <2>4
  <1>11. CASE Unlock
    <2>1. cmd.pc = "unlock" /\ store' = store /\ hooks' = hooks /\ skill' = skill
          /\ cmd'.pc = "done"
      BY <1>11, UnlockStep DEF Unlock, Moves
    <2>2. Whole(store, hooks.side, skill.dir)
      BY <2>1 DEF WholeFits
    <2> QED
      BY <2>1, <2>2, WholeEnds DEF Ended
  <1>12. CASE UndoReplace \/ UndoHooks \/ UndoTarget \/ UndoSkill \/ UndoRegistry
    <2>1. clean' = clean /\ Running /\ cmd'.op = cmd.op /\ cmd'.whole = cmd.whole
          /\ cmd'.start = cmd.start /\ cmd'.pc \notin Early \union {"discard", "unlock"}
          /\ cmd'.snapped = cmd.snapped
          /\ (cmd'.pc \in {"undoRegistry", "undoStore"} => cmd.pc = "undoRegistry")
          /\ (cmd'.pc \in HooksBack => cmd.pc \in HooksBack \/ cmd.pc = "undoHooks")
      BY <1>12, UndoReplaceStep, UndoHooksStep, UndoTargetStep, UndoSkillStep, UndoRegistryStep
      DEF UndoReplace, UndoHooks, UndoTarget, UndoSkill, UndoRegistry, Moves, Kept, Same,
        Remembered, Done, Running, Ended, HooksBack, Early
    <2>2. cmd.pc \in HooksBack => hooks' = hooks
      BY <1>12, UndoHooksStep DEF UndoReplace, UndoTarget, UndoSkill, UndoRegistry, HooksBack
    <2>3. cmd.pc = "undoHooks" => hooks' = cmd.start.hooks
      BY <1>12, UndoReplaceStep, UndoTargetStep, UndoSkillStep, UndoRegistryStep DEF UndoHooks
    <2>4. cmd'.pc \in HooksBack => hooks'.side = cmd.start.hooks.side
      BY <2>1, <2>2, <2>3 DEF WholeFits, HooksBack
    <2>5. cmd'.pc \in {"undoRegistry", "undoStore"} => ~cmd'.snapped
      BY <2>1 DEF WholeFits
    <2> QED
      BY <2>1, <2>4, <2>5, WholeKept
  <1>13. CASE UndoSwap
    <2>1. clean' = clean /\ Running /\ cmd'.op = cmd.op /\ cmd'.whole = cmd.whole
          /\ cmd'.start = cmd.start /\ cmd'.pc \notin Early \union {"discard", "unlock"}
          /\ ~cmd'.snapped /\ cmd.pc = "undoSwap" /\ hooks' = hooks
      BY <1>13, UndoSwapStep DEF UndoSwap, Moves, Kept, Remembered, Running, Ended, Early
    <2> QED
      BY <2>1, WholeKept DEF WholeFits
  <1>14. CASE UndoStore
    <2>1. /\ cmd.pc = "undoStore" /\ cmd.op = "setup" /\ Running /\ cmd'.pc = "undone"
          /\ store' = (IF cmd.made THEN Absent ELSE store) /\ (clean' <=> cmd.whole)
          /\ hooks' = hooks /\ skill' = skill
      BY <1>14, UndoStoreStep DEF UndoStore, Moves, Running, Ended
    <2>2. hooks.side = cmd.start.hooks.side /\ skill.dir = cmd.start.skill
      BY <2>1 DEF WholeFits, SkillFits, At
    <2>3. cmd.whole => Whole(cmd.start.store, hooks.side, skill.dir)
      BY <2>1, <2>2 DEF WholeFits
    <2>4. cmd.start.store.kind \in {"absent", "core", "legacy"}
      BY <1>0, <2>1 DEF Starts, Stores
    <2>5. CASE cmd.start.store.kind = "core"
      <3>1. store'.kind = "core" /\ store'.row = cmd.start.store.row
        BY <2>1, <2>5 DEF SetupStore, At
      <3> QED
        BY <2>1, <2>3, <2>5, <3>1, WholeEnds DEF Whole, Ended
    <2>6. CASE cmd.start.store.kind = "absent"
      <3>1. store'.kind = "absent"
        BY <2>1, <2>6, EmptyTypes DEF SetupStore
      <3> QED
        BY <2>1, <2>3, <2>6, <3>1, WholeEnds DEF Whole, Ended
    <2> QED
      BY <2>1, <2>4, <2>5, <2>6 DEF SetupStore
  <1>15. CASE UndoTemp
    <2>1. /\ cmd.pc = "undoTemp" /\ cmd.op = "cutover" /\ Running /\ cmd'.pc = "undone"
          /\ store' = store /\ (clean' <=> cmd.whole) /\ hooks' = hooks /\ skill' = skill
      BY <1>15, UndoTempStep DEF UndoTemp, Moves, Running, Ended
    <2>2. hooks.side = cmd.start.hooks.side
      BY <2>1 DEF WholeFits
    <2>3. store.kind = "legacy" /\ cmd.start.store.kind = "legacy"
      BY <2>1 DEF CutoverStore, At, Replaced
    <2>4. cmd.whole => hooks.side = "legacy"
      BY <2>1, <2>2, <2>3 DEF WholeFits, Whole
    <2> QED
      BY <2>1, <2>3, <2>4, WholeEnds DEF Whole, Ended
  <1>16. CASE Fail
    <2>1. clean' = clean /\ cmd'.op = cmd.op /\ cmd'.whole = cmd.whole
          /\ cmd'.start = cmd.start /\ hooks' = hooks
          /\ cmd'.pc = IF cmd.pc = "backup" THEN "undoTemp" ELSE Rollback
      BY <1>16, FailStep DEF Fail, Moves, Kept, Remembered
    <2>2. Running
      BY <1>16, FailStep, StepSets, Kinds DEF Running, Ended, Commands, SetupSteps, CutoverSteps
    <2>3. cmd'.pc \notin Early \union {"discard", "unlock", "undoRegistry", "undoStore"}
      BY <2>1 DEF Rollback, Early
    <2>4. cmd'.pc \in HooksBack => hooks'.side = cmd.start.hooks.side
      BY <2>1 DEF WholeFits, Rollback, HooksBack
    <2> QED
      BY <2>1, <2>2, <2>3, <2>4, WholeKept
  <1>17. CASE UndoFails \/ Crash
    <2>1. cmd'.pc \in Ended /\ clean' = clean
      BY <1>17, UndoFailsStep, CrashStep DEF UndoFails, Crash, Moves, Ended
    <2>2. Running
      BY <1>17, UndoFailsStep, CrashStep, PcSets, Kinds
      DEF Running, Ended, Commands, SetupUndos, CutoverUndos
    <2> QED
      BY <1>1, <2>1, <2>2, WholeEnds
  <1>18. CASE HookCheck \/ HookCapture \/ Rule \/ EditHooks \/ Pull
    <2>1. /\ store'.kind = store.kind /\ store'.row = store.row /\ hooks'.side = hooks.side
          /\ skill' = skill /\ clean' = clean
      BY <1>18, MeanwhileStep
    <2>2. /\ cmd'.pc = cmd.pc /\ cmd'.op = cmd.op /\ cmd'.start = cmd.start
          /\ cmd'.snapped = cmd.snapped /\ cmd'.whole = cmd.whole
      BY <1>18, MeanwhileCmd DEF Kept, Remembered, Done
    <2>3. Whole(store, hooks.side, skill.dir) => Whole(store', hooks'.side, skill'.dir)
      BY <2>1 DEF Whole
    <2> QED
      BY <2>1, <2>2, <2>3 DEF WholeFits, Running
  <1>19. CASE UNCHANGED vars
    BY <1>19 DEF vars, WholeFits, Running
  <1> QED
    BY <1>2, <1>3, <1>4, <1>5, <1>6, <1>7, <1>8, <1>9, <1>10, <1>11, <1>12, <1>13, <1>14,
      <1>15, <1>16, <1>17, <1>18, <1>19 DEF Next, Work

LEMMA WholeInit ==
  ASSUME Init
  PROVE  WholeFits
  <1>1. cmd.pc = "done" /\ ~Running
    BY InitCases DEF Running, Ended
  <1>2. Whole(store, hooks.side, skill.dir)
    <2>1. CASE InitEmpty
      BY <2>1, EmptyTypes DEF InitEmpty, Whole
    <2>2. CASE InitCore
      <3> PICK v \in artifacts, b \in BOOLEAN :
             /\ store = [Empty EXCEPT !.row = v, !.bind = IF b THEN source ELSE None]
             /\ hooks = [side |-> v, user |-> 0] /\ skill = [dir |-> v, prev |-> None]
        BY <2>2 DEF InitCore
      <3>1. v \in Version /\ v # None
        BY BoundsAssumption DEF Init
      <3>2. store.kind = "core" /\ store.row = v
        BY EmptyTypes DEF Stores
      <3> QED
        BY <3>1, <3>2 DEF Whole
    <2>3. CASE InitLegacy
      <3> PICK live \in SUBSET (1..OldEvents), used \in SUBSET (1..OldEvents),
               doubt \in 0..OldEvents, horizon \in 0..OldEvents :
                 /\ store = [Absent EXCEPT !.kind = "legacy", !.events = 1..OldEvents,
                               !.live = live, !.used = used, !.doubt = doubt, !.horizon = horizon]
                 /\ hooks = [side |-> "legacy", user |-> 0]
        BY <2>3 DEF InitLegacy
      <3>1. store.kind = "legacy"
        BY EmptyTypes DEF Stores
      <3> QED
        BY <3>1 DEF Whole
    <2> QED
      BY <2>1, <2>2, <2>3, InitCases
  <1> QED
    BY <1>1, <1>2 DEF WholeFits

LEMMA WholeAlways == Spec => []WholeFits
  <1>1. Init => WholeFits
    BY WholeInit
  <1>2. TypeOK /\ SkillFits /\ (SetupStore /\ CutoverStore) /\ WholeFits /\ [Next]_vars => WholeFits'
    BY WholeFitsStep
  <1> QED
    BY <1>1, <1>2, TypeCorrect, SkillFitsAlways, StoresAlways, PTL DEF Spec

\* A setup or a cutover that succeeded, or that undid itself on a host that was whole, leaves
\* one version in the registry, the hooks and the Skill, or the legacy or empty host it found:
\* wherever it failed, and whatever prompts, rules and edits came meanwhile.
THEOREM InstallationStaysWhole == Spec => []WholeInstallation
  <1>1. WholeFits => WholeInstallation
    BY DEF WholeFits, Whole, WholeInstallation
  <1> QED
    BY <1>1, WholeAlways, PTL

-----------------------------------------------------------------------------
(* A setup repairs what an earlier command left.                           *)

UntilTarget == {"store", "artifact", "selftest", "target"}
Fitted(pc) ==
  /\ IF cmd'.global THEN cmd'.doc = source' /\ cmd'.doc \in Doc ELSE store'.bind = None
  /\ IF pc \in UntilTarget THEN target' = cmd'.start.target
                           ELSE cmd'.global => target' = cmd'.doc
  /\ IF pc \in UntilTarget \union {"hooks"} THEN hooks'.side = cmd'.start.hooks.side
                                            ELSE hooks'.side = cmd'.ver
  /\ pc \in {"bind", "doctor", "discard"} => skill'.dir = cmd'.ver
  /\ pc \in {"doctor", "discard"} =>
       store'.row = cmd'.ver /\ (cmd'.global => store'.bind = cmd'.doc)

\* A step of a setup towards its version, and one of its rollback.
LEMMA RepairGoes ==
  ASSUME NEW pc \in SetupSteps, cmd'.pc = pc, ~cmd'.disturbed => Fitted(pc)
  PROVE  RepairFits'
  <1>1. pc \notin Undos("setup") \union {"undone", "broken"}
    BY PcSets DEF SetupSteps, SetupUndos
  <1> QED
    BY <1>1 DEF RepairFits, Fitted, UntilTarget

LEMMA RepairUndoes ==
  ASSUME cmd'.pc \notin SetupSteps, cmd'.fault \/ cmd'.disturbed
  PROVE  RepairFits'
  BY StepSets DEF RepairFits

LEMMA RepairOther ==
  ASSUME cmd'.op # "setup" \/ cmd'.pc \in {"done", "crashed"}
  PROVE  RepairFits'
  BY StepSets, PcSets DEF RepairFits, SetupSteps, SetupUndos

LEMMA RepairNow ==
  ASSUME RepairFits, cmd.op = "setup"
  PROVE  /\ cmd.pc \in SetupUndos \union {"undone", "broken"} => cmd.fault \/ cmd.disturbed
         /\ cmd.pc \in SetupSteps /\ ~cmd.disturbed =>
            /\ IF cmd.global THEN cmd.doc = source /\ cmd.doc \in Doc ELSE store.bind = None
            /\ IF cmd.pc \in UntilTarget THEN target = cmd.start.target
               ELSE cmd.global => target = cmd.doc
            /\ IF cmd.pc \in UntilTarget \union {"hooks"} THEN hooks.side = cmd.start.hooks.side
               ELSE hooks.side = cmd.ver
            /\ cmd.pc \in {"bind", "doctor", "discard"} => skill.dir = cmd.ver
            /\ cmd.pc \in {"doctor", "discard"} =>
                 store.row = cmd.ver /\ (cmd.global => store.bind = cmd.doc)
  BY StepSets, PcSets DEF RepairFits, UntilTarget

LEMMA RepairFitsStep ==
  ASSUME TypeOK, HooksFit, SkillFits, SetupStore, RepairFits, [Next]_vars
  PROVE  RepairFits'
  <1>0. /\ store \in Stores /\ hooks \in Hooks /\ skill \in Skills /\ source \in Doc
        /\ (Running => cmd.start \in Starts /\ cmd.ver \in Version) /\ None \notin Version
        /\ cmd \in Cmds
    BY BoundsAssumption DEF TypeOK
  <1>1. ASSUME NEW v \in Version, Setup(v) PROVE RepairFits'
    <2> PICK g \in BOOLEAN : (store.bind # None => g) /\ Begin("setup", v, g, None)
      BY <1>1 DEF Setup
    <2>1. /\ cmd'.pc = "store" /\ cmd'.start.hooks = hooks /\ cmd'.start.target = target
          /\ cmd'.global = g /\ cmd'.doc = (IF g THEN source ELSE None)
      BY BeginStep DEF Commands
    <2>2. store' = store /\ hooks' = hooks /\ target' = target /\ source' = source
      BY <1>1 DEF Setup
    <2>3. Fitted("store")
      BY <1>0, <2>1, <2>2 DEF Fitted, UntilTarget
    <2> QED
      BY <2>1, <2>3, RepairGoes DEF SetupSteps
  <1>2. ASSUME NEW v \in Version, Cutover(v) PROVE RepairFits'
    <2> PICK e \in store.events : Begin("cutover", v, FALSE, e)
      BY <1>2 DEF Cutover
    <2>1. cmd'.op = "cutover"
      BY DEF Begin
    <2> QED
      BY <2>1, RepairOther
  <1>3. CASE Backup \/ Migrate \/ ReplaceStore \/ Unlock \/ UndoReplace \/ UndoTemp
    BY <1>3, BackupStep, MigrateStep, ReplaceStoreStep, UnlockStep, UndoReplaceStep, UndoTempStep,
      RepairOther DEF Moves, Kept
  <1>4. CASE cmd.op = "cutover" /\ Work
    <2>1. cmd'.op = cmd.op
      BY <1>4, WorkKept DEF Kept
    <2> QED
      BY <1>4, <2>1, RepairOther
  <1>5. CASE CreateStore
    <2>1. /\ cmd.pc = "store" /\ cmd.op = "setup" /\ cmd'.pc = "artifact" /\ Kept
          /\ cmd'.start = cmd.start /\ cmd'.disturbed = cmd.disturbed
          /\ hooks' = hooks /\ target' = target /\ source' = source /\ store' \in {Empty, store}
      BY <1>5, CreateStoreStep DEF CreateStore, Moves, Remembered, Quiet
    <2>2. ~cmd.disturbed => Fitted("artifact")
      BY <2>1, RepairNow, EmptyTypes DEF Fitted, UntilTarget, SetupSteps, Kept
    <2> QED
      BY <2>1, <2>2, RepairGoes DEF SetupSteps
  <1>6. CASE cmd.op = "setup" /\ (InstallArtifact \/ SelfTest)
    <2>1. /\ cmd.pc \in {"artifact", "selftest"} /\ cmd'.pc \in {"selftest", "target"} /\ Kept
          /\ cmd'.start = cmd.start /\ cmd'.disturbed = cmd.disturbed
          /\ hooks' = hooks /\ target' = target /\ source' = source /\ store' = store
      BY <1>6, InstallArtifactStep, SelfTestStep
      DEF InstallArtifact, SelfTest, Moves, Same, Remembered, Quiet
    <2>2. ~cmd.disturbed => Fitted(cmd'.pc)
      BY <1>6, <2>1, RepairNow DEF Fitted, UntilTarget, SetupSteps, Kept
    <2> QED
      BY <2>1, <2>2, RepairGoes DEF SetupSteps
  <1>7. CASE WriteTarget
    <2>1. /\ cmd.pc = "target" /\ cmd.op = "setup" /\ cmd'.pc = "hooks" /\ Kept
          /\ cmd'.start.hooks = cmd.start.hooks /\ cmd'.disturbed = cmd.disturbed
          /\ hooks' = hooks /\ source' = source /\ store' = store
          /\ target' = IF cmd.global /\ cmd.start.target # cmd.doc THEN source ELSE target
      BY <1>7, WriteTargetStep DEF WriteTarget, Moves, Quiet
    <2>2. ~cmd.disturbed => Fitted("hooks")
      BY <2>1, RepairNow DEF Fitted, UntilTarget, SetupSteps, Kept
    <2> QED
      BY <2>1, <2>2, RepairGoes DEF SetupSteps
  <1>8. CASE cmd.op = "setup" /\ WriteHooks
    <2>1. /\ cmd.pc = "hooks" /\ cmd'.pc = "snapshot" /\ Kept
          /\ cmd'.disturbed = cmd.disturbed
          /\ target' = target /\ source' = source /\ store' = store
          /\ hooks' = IF cmd.start.hooks.side = cmd.ver THEN hooks ELSE Desired(cmd)
      BY <1>8, WriteHooksStep DEF WriteHooks, HooksCurrent, Moves, Same, Quiet
    <2>2. Desired(cmd).side = cmd.ver
      BY <1>0, <2>1 DEF Desired, Running, Ended, Starts, Hooks
    <2>3. ~cmd.disturbed => Fitted("snapshot")
      BY <1>8, <2>1, <2>2, RepairNow DEF Fitted, UntilTarget, SetupSteps, Kept
    <2> QED
      BY <2>1, <2>3, RepairGoes DEF SetupSteps
  <1>9. CASE cmd.op = "setup" /\ (Snapshot \/ Prepare \/ Stash \/ Place \/ Drop)
    <2>1. /\ cmd.pc \in {"snapshot", "prepare", "stash", "place", "drop"}
          /\ cmd'.pc \in {"prepare", "stash", "place", "drop", "bind"} /\ Kept
          /\ cmd'.disturbed = cmd.disturbed
          /\ hooks' = hooks /\ target' = target /\ source' = source /\ store' = store
      BY <1>9, SnapshotStep, PrepareStep, StashStep, PlaceStep, DropStep
      DEF Snapshot, Prepare, Stash, Place, Drop, Moves, Same, Quiet
    <2>2. cmd'.pc = "bind" => skill'.dir = cmd.ver
      BY <1>0, <1>9, SnapshotStep, PrepareStep, StashStep, PlaceStep, DropStep
      DEF Drop, Moves, SkillCurrent, SkillFits, At, Skills
    <2>3. ~cmd.disturbed => Fitted(cmd'.pc)
      BY <1>9, <2>1, <2>2, RepairNow DEF Fitted, UntilTarget, SetupSteps, Kept
    <2> QED
      BY <2>1, <2>3, RepairGoes DEF SetupSteps
  <1>10. CASE cmd.op = "setup" /\ Bind
    <2>1. /\ cmd.pc = "bind" /\ cmd'.pc = "doctor" /\ Kept /\ cmd'.disturbed = cmd.disturbed
          /\ hooks' = hooks /\ target' = target /\ source' = source /\ skill' = skill
          /\ store' = GlobalBound(RuntimeBound(store)) /\ Running
      BY <1>10, BindStep DEF Bind, Moves, Quiet
    <2>2. store'.row = cmd.ver /\ store'.bind = IF cmd.global THEN cmd.doc ELSE store.bind
      BY <1>0, <2>1, StoreBound
    <2>3. ~cmd.disturbed => Fitted("doctor")
      BY <1>10, <2>1, <2>2, RepairNow DEF Fitted, UntilTarget, SetupSteps, Kept
    <2> QED
      BY <2>1, <2>3, RepairGoes DEF SetupSteps
  <1>11. CASE cmd.op = "setup" /\ Doctor
    <2>1. /\ cmd.pc = "doctor" /\ Kept /\ cmd'.disturbed = cmd.disturbed /\ cmd'.start = cmd.start
          /\ hooks' = hooks /\ target' = target /\ source' = source /\ skill' = skill
          /\ store' = store /\ Running
          /\ cmd'.pc = IF DoctorOk THEN "discard" ELSE "undoHooks"
      BY <1>11, DoctorStep DEF Doctor, Moves, Same, Remembered, Quiet, Rollback, Running, Ended
    <2>2. ~cmd.disturbed => Fitted("discard")
      BY <1>11, <2>1, RepairNow DEF Fitted, UntilTarget, SetupSteps, Kept
    <2>3. ~cmd.disturbed => DoctorOk
      <3>1. store.kind = "core"
        BY <1>11, <2>1, StepSets DEF SetupStore, SetupSteps
      <3>2. cmd.ver \in artifacts /\ cmd.ver # None
        BY <1>0, <2>1 DEF HooksFit, PastArtifact
      <3>3. cmd.doc \in Doc \union {None} /\ cmd.global \in BOOLEAN
        BY <1>0 DEF Cmds
      <3> QED
        BY <1>11, <2>1, <3>1, <3>2, <3>3, RepairNow
        DEF DoctorOk, CoreSchema, UntilTarget, SetupSteps
    <2>4. CASE DoctorOk
      BY <2>1, <2>2, <2>4, RepairGoes DEF SetupSteps
    <2>5. CASE ~DoctorOk
      BY <2>1, <2>3, <2>5, RepairUndoes DEF SetupSteps
    <2> QED
      BY <2>4, <2>5
  <1>12. CASE cmd.op = "setup" /\ Discard
    BY <1>12, DiscardStep, RepairOther DEF Moves
  <1>13. CASE cmd.op = "setup" /\ (UndoHooks \/ UndoTarget \/ UndoSkill \/ UndoSwap
                                   \/ UndoRegistry \/ UndoStore)
    <2>1. cmd.pc \in SetupUndos /\ cmd'.pc \notin SetupSteps /\ Quiet
      BY <1>13, UndoHooksStep, UndoTargetStep, UndoSkillStep, UndoSwapStep, UndoRegistryStep,
        UndoStoreStep DEF Moves, Same, SetupUndos, SetupSteps
    <2> QED
      BY <1>13, <2>1, RepairNow, RepairUndoes DEF Quiet
  <1>14. CASE Fail
    <2>1. cmd'.fault /\ cmd'.pc \notin SetupSteps
      BY <1>14, FailStep DEF Moves, Rollback, SetupSteps
    <2> QED
      BY <2>1, RepairUndoes
  <1>15. CASE UndoFails
    BY <1>15, UndoFailsStep, RepairUndoes DEF Moves, SetupSteps
  <1>16. CASE Crash
    BY <1>16, CrashStep, RepairOther DEF Moves
  <1>17. CASE HookCheck \/ HookCapture
    <2>1. cmd' = cmd /\ hooks' = hooks /\ target' = target /\ source' = source /\ skill' = skill
      BY <1>17 DEF HookCheck, HookCapture
    <2>2. store'.row = store.row /\ store'.bind = store.bind
      BY <1>17, MeanwhileStep DEF HookCheck, HookCapture, Rule, Outside
    <2> QED
      BY <2>1, <2>2 DEF RepairFits
  <1>18. CASE Rule \/ EditHooks \/ Pull
    <2>1. cmd'.disturbed
      BY <1>18, OutsideStep DEF Rule, EditHooks, Pull
    <2> QED
      BY <2>1 DEF RepairFits
  <1>19. CASE UNCHANGED vars
    BY <1>19 DEF vars, RepairFits
  <1>20. cmd.op = "setup" \/ cmd.op = "cutover"
    BY Kinds DEF Commands
  <1>21. CASE cmd.op = "setup" /\ Work
    BY <1>3, <1>5, <1>6, <1>7, <1>8, <1>9, <1>10, <1>11, <1>12, <1>13, <1>21 DEF Work
  <1> QED
    BY <1>1, <1>2, <1>4, <1>14, <1>15, <1>16, <1>17, <1>18, <1>19, <1>20, <1>21 DEF Next

\* A setup fails only for a cause of its own time, on any host earlier commands, faults and
\* crashes can leave: what apply_setup does brings hooks, Skill, document and registry to its
\* version, so that doctor() finds nothing to object to.
THEOREM SetupsRepair == Spec => []SetupRepairs
  <1>1. Init => RepairFits
    BY InitCases, StepSets, PcSets DEF RepairFits, SetupSteps, SetupUndos
  <1>2. TypeOK /\ HooksFit /\ SkillFits /\ (SetupStore /\ CutoverStore) /\ RepairFits /\ [Next]_vars
          => RepairFits'
    BY RepairFitsStep
  <1>3. RepairFits => SetupRepairs
    BY DEF RepairFits, SetupRepairs
  <1> QED
    BY <1>1, <1>2, <1>3, TypeCorrect, HooksFitAlways, SkillFitsAlways, StoresAlways, PTL DEF Spec
=============================================================================
