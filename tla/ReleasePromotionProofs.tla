----------------------- MODULE ReleasePromotionProofs -----------------------
(***************************************************************************)
(* PromotionInvariant is inductive for any builds, commits, operators and  *)
(* workstations: GitHub only ever holds the workflow's builds of the tag,  *)
(* and what it has locked stays.  From it follow what a resolution, a      *)
(* publication and a receipt promise.                                      *)
(***************************************************************************)
EXTENDS ReleasePromotion, TLAPS

Inv == PromotionInvariant

USE BuildAssumption, DirectoryAssumption
USE DEF Inv, PromotionInvariant

\* Every asset of a build is a content GitHub may hold.
LEMMA BuiltIsAssets == ASSUME NEW b \in Build PROVE Built(b) \in Assets
  BY DEF Built, Assets, Contents

\* Assets that their own checksums name are one whole build.
LEMMA SummedIsBuilt ==
  ASSUME NEW a \in Assets, Summed(a, Piece)
  PROVE  a["SHA256SUMS"] \in Build /\ a = Built(a["SHA256SUMS"])
  BY DEF Summed, Assets, Built

\* What the resolver accepts is one whole build of the tagged commit.
LEMMA ResolvedIsBuilt ==
  ASSUME NEW a \in Assets, ManifestsHold(a), PortableHolds(a)
  PROVE  \E b \in Build : CommitOf[b] = Tag /\ a = Built(b)
  <1> DEFINE b == a["SHA256SUMS"]
  <1>1. /\ b \in Build /\ a["release-manifest.json"] = b
        /\ a["source-manifest.json"] = CommitOf[b] /\ a["portable"] = b
    BY DEF ManifestsHold, PortableHolds, Summed, Content
  <1>2. CommitOf[b] = Tag
    BY <1>1 DEF ManifestsHold
  <1>3. \A n \in Piece : a[n] = Content(b, n)
    BY <1>1 DEF Piece, Content
  <1>4. a = Built(b)
    BY <1>3 DEF Assets, Built
  <1> QED
    BY <1>1, <1>2, <1>4

LEMMA FirstBuildIsTagged == FirstBuild \in Build /\ CommitOf[FirstBuild] = Tag
  BY DEF FirstBuild

LEMMA NoCallFits == NoCall \in Calls /\ CallFits(NoCall)
  BY FirstBuildIsTagged DEF NoCall, Calls, CallFits

LEMMA NoResolutionFits == NoResolution \in Resolutions /\ ResolutionFits(NoResolution)
  BY FirstBuildIsTagged, BuiltIsAssets DEF NoResolution, Resolutions, ResolutionFits

LEMMA InitialInv == Init => Inv
  <1> SUFFICES ASSUME Init PROVE Inv
    OBVIOUS
  <1>1. TypeOK
    BY FirstBuildIsTagged, BuiltIsAssets, NoCallFits, NoResolutionFits
    DEF Init, TypeOK, States, Published
  <1>2. OnlyTagged
    BY FirstBuildIsTagged DEF Init, OnlyTagged, Origins, Built
  <1>3. OutputFits
    BY DEF Init, OutputFits
  <1>4. \A o \in Operator : CallFits(op[o])
    BY NoCallFits DEF Init
  <1>5. \A r \in Resolver : ResolutionFits(resolving[r])
    BY NoResolutionFits DEF Init
  <1> QED
    BY <1>1, <1>2, <1>3, <1>4, <1>5

\* A call that forgets or learns that its draft has changed is otherwise itself.
LEMMA RacedOnly ==
  ASSUME NEW c \in Calls, NEW x \in BOOLEAN, NEW d, d = [c EXCEPT !.raced = x]
  PROVE  /\ d \in Calls /\ d.raced = x
         /\ d.pc = c.pc /\ d.cmd = c.cmd /\ d.commit = c.commit /\ d.hash = c.hash
         /\ d.read = c.read
  <1>1. CASE x = TRUE
    BY <1>1 DEF Calls
  <1>2. CASE x = FALSE
    BY <1>2 DEF Calls
  <1> QED
    BY <1>1, <1>2

\* A call that reads a directory is otherwise itself.
LEMMA ReadOnly ==
  ASSUME NEW c \in Calls, NEW a \in {Built(b) : b \in Build}
  PROVE  [c EXCEPT !.read = a] \in Calls
  BY DEF Calls

-----------------------------------------------------------------------------
(* Steps that move one call of publish_release.py and leave GitHub alone.  *)

LEMMA CallKeeps ==
  ASSUME Inv, NEW o \in Operator, NEW c \in Calls, CallFits(c),
         op' = [op EXCEPT ![o] = c], Quiet,
         authorised' \in Plans \union {NoPlan}, receipts' \subseteq Plans
  PROVE  Inv'
  <1>1. TypeOK'
    BY DEF Quiet, world, TypeOK
  <1>2. OnlyTagged' /\ OutputFits'
    BY DEF Quiet, OnlyTagged, OutputFits
  <1>3. ASSUME NEW p \in Operator PROVE CallFits(op[p])'
    <2>1. op'[p] = c \/ op'[p] = op[p]
      BY DEF TypeOK
    <2> QED
      BY <2>1 DEF Quiet, CallFits, PlanOf
  <1>4. ASSUME NEW r \in Resolver PROVE ResolutionFits(resolving[r])'
    BY DEF Quiet, ResolutionFits
  <1> QED
    BY <1>1, <1>2, <1>3, <1>4

\* A call that ends, or goes on as c.
LEMMA ThenKeeps ==
  ASSUME Inv, NEW o \in Operator, NEW found, NEW c,
         found => c \in Calls /\ CallFits(c),
         Then(o, found, c), Quiet,
         authorised' \in Plans \union {NoPlan}, receipts' \subseteq Plans
  PROVE  Inv'
  BY NoCallFits, CallKeeps DEF Then

LEMMA BeginKeeps ==
  ASSUME Inv, NEW o \in Operator, NEW cmd \in {"inspect", "apply"}, NEW c \in Commit,
         Begin(o, cmd, c)
  PROVE  Inv'
  <1> DEFINE d == [NoCall EXCEPT !.pc = "files", !.cmd = cmd, !.commit = c,
                     !.hash = IF cmd = "apply" THEN authorised ELSE NoPlan]
  <1>1. d \in Calls /\ CallFits(d)
    BY NoCallFits DEF Begin, NoCall, Calls, CallFits, TypeOK
  <1> QED
    BY <1>1, ThenKeeps DEF Begin, ReadsOnly, TypeOK

LEMMA ReadFilesKeeps ==
  ASSUME Inv, NEW o \in Operator, ReadFiles(o)
  PROVE  Inv'
  <1> DEFINE d == [To(o, "source") EXCEPT !.read = local[o]]
  <1>1. ASSUME ReleaseFiles(local[o]) PROVE d \in Calls
    <2>1. local[o] \in Assets /\ Summed(local[o], Piece)
      BY <1>1 DEF ReleaseFiles, TypeOK
    <2>2. local[o] \in {Built(b) : b \in Build}
      BY <2>1, SummedIsBuilt
    <2>3. To(o, "source") \in Calls
      BY DEF To, Calls, TypeOK
    <2> QED
      BY <2>2, <2>3, ReadOnly
  <1>2. CallFits(d)
    BY DEF ReadFiles, To, Calls, CallFits, TypeOK
  <1> QED
    BY <1>1, <1>2, ThenKeeps DEF ReadFiles, ReadsOnly, TypeOK

LEMMA ReadSourceKeeps ==
  ASSUME Inv, NEW o \in Operator, ReadSource(o)
  PROVE  Inv'
  <1>1. To(o, "git") \in Calls /\ CallFits(To(o, "git"))
    BY DEF ReadSource, To, Calls, CallFits, TypeOK
  <1> QED
    BY <1>1, ThenKeeps DEF ReadSource, ReadsOnly, TypeOK

LEMMA GitIdentityKeeps ==
  ASSUME Inv, NEW o \in Operator, GitIdentity(o)
  PROVE  Inv'
  <1> DEFINE to == [git |-> "remote", remote |-> "copy", copy |-> "policy"][op[o].pc]
  <1>1. to \in {"remote", "copy", "policy"}
    BY DEF GitIdentity
  <1>2. Tag = op[o].commit => To(o, to) \in Calls /\ CallFits(To(o, to))
    BY <1>1 DEF GitIdentity, To, Calls, CallFits, TypeOK
  <1> QED
    BY <1>2, ThenKeeps DEF GitIdentity, ReadsOnly, TypeOK

LEMMA PolicyKeeps ==
  ASSUME Inv, NEW o \in Operator, Policy(o)
  PROVE  Inv'
  <1>1. To(o, "draft") \in Calls /\ CallFits(To(o, "draft"))
    BY DEF Policy, To, Calls, CallFits, TypeOK
  <1> QED
    BY <1>1, ThenKeeps DEF Policy, ReadsOnly, TypeOK

LEMMA PlanIsPlan == ASSUME NEW c \in Calls PROVE PlanOf(c) \in Plans
  BY DEF PlanOf, Plans, Calls

LEMMA ReadDraftKeeps ==
  ASSUME Inv, NEW o \in Operator, ReadDraft(o)
  PROVE  Inv'
  <1> DEFINE found == /\ Plannable(op[o]) /\ op[o].cmd = "apply"
                      /\ op[o].hash = PlanOf(op[o])
  <1>1. To(o, "publish") \in Calls
    BY DEF To, Calls, TypeOK
  <1>2. found => CallFits(To(o, "publish"))
    BY DEF ReadDraft, Plannable, ValidRemote, PlanOf, To, Calls, CallFits, TypeOK
  <1>3. authorised' \in Plans \union {NoPlan} /\ receipts' \subseteq Plans
    BY PlanIsPlan DEF ReadDraft, TypeOK
  <1> QED
    BY <1>1, <1>2, <1>3, ThenKeeps DEF ReadDraft

LEMMA ReadbackKeeps ==
  ASSUME Inv, NEW o \in Operator, Readback(o)
  PROVE  Inv'
  <1> DEFINE again == [op[o] EXCEPT !.tries = Counted(@)]
  <1>1. To(o, "verify") \in Calls /\ CallFits(To(o, "verify"))
    BY DEF Readback, PlanOf, To, Calls, CallFits, TypeOK
  <1>2. Another(op[o].tries) => again \in Calls
    BY DEF Another, Counted, Calls, TypeOK
  <1>3. CallFits(again)
    BY DEF Readback, PlanOf, Calls, CallFits, TypeOK
  <1> QED
    BY <1>1, <1>2, <1>3, ThenKeeps DEF Readback, ReadsOnly, TypeOK

LEMMA VerifyKeeps ==
  ASSUME Inv, NEW o \in Operator, Verify(o)
  PROVE  Inv'
  <1>1. To(o, "receipt") \in Calls
    BY DEF To, Calls, TypeOK
  <1>2. Settled => CallFits(To(o, "receipt"))
    BY DEF Verify, Settled, PlanOf, To, Calls, CallFits, TypeOK
  <1> QED
    BY <1>1, <1>2, ThenKeeps DEF Verify, ReadsOnly, TypeOK

LEMMA ReceiptKeeps ==
  ASSUME Inv, NEW o \in Operator, Receipt(o)
  PROVE  Inv'
  <1>1. authorised' \in Plans \union {NoPlan} /\ receipts' \subseteq Plans
    BY PlanIsPlan DEF Receipt, TypeOK
  <1> QED
    BY <1>1, NoCallFits, ThenKeeps DEF Receipt

LEMMA FailsKeeps ==
  ASSUME Inv, NEW o \in Operator, Fails(o)
  PROVE  Inv'
  BY NoCallFits, ThenKeeps DEF Fails, ReadsOnly, TypeOK

-----------------------------------------------------------------------------
(* GitHub's steps and the publication.                                     *)

LEMMA RunKeeps ==
  ASSUME Inv, NEW b \in Build, Run(b)
  PROVE  Inv'
  <1>1. TypeOK'
    BY DEF Run, world, TypeOK
  <1>2. OnlyTagged' /\ OutputFits'
    BY DEF Run, OnlyTagged, OutputFits
  <1>3. ASSUME NEW o \in Operator PROVE CallFits(op[o])'
    BY DEF Run, CallFits, PlanOf
  <1>4. ASSUME NEW r \in Resolver PROVE ResolutionFits(resolving[r])'
    BY DEF Run, ResolutionFits
  <1> QED
    BY <1>1, <1>2, <1>3, <1>4

\* Nothing is taken from or put into a locked release, and every call that is
\* about to publish is told of the change.
LEMMA UploadKeeps ==
  ASSUME Inv, NEW n \in Piece, Upload(n)
  PROVE  Inv'
  <1>1. workflow.build \in Build /\ CommitOf[workflow.build] = Tag
    BY DEF Upload, OnlyTagged
  <1>2. PICK x \in Origins(n) \union {None} : release' = [release EXCEPT !.assets[n] = x]
    BY <1>1 DEF Upload, Origins
  <1>3. x \in Contents \union {None}
    BY DEF Origins, Contents
  <1>4. workflow' \in [build : Build \union {NoBuild}, todo : SUBSET Piece]
        /\ workflow'.build = workflow.build
    BY DEF Upload, TypeOK
  <1>5. TypeOK'
    <2>1. release' \in [state : States, stable : BOOLEAN, assets : Assets]
      BY <1>2, <1>3 DEF Assets, TypeOK
    <2>2. ASSUME NEW o \in Operator
          PROVE  [op[o] EXCEPT !.raced = op[o].pc = "publish"] \in Calls
      BY RacedOnly DEF TypeOK
    <2>3. op' \in [Operator -> Calls]
      BY <2>2 DEF Upload
    <2> QED
      BY <1>4, <2>1, <2>3 DEF Upload, world, TypeOK
  <1>6. OnlyTagged'
    BY <1>1, <1>2, <1>4 DEF OnlyTagged, Origins, Assets, TypeOK
  <1>7. release.state # "immutable" /\ release'.state = release.state
    BY <1>2 DEF Upload, TypeOK
  <1>8. OutputFits'
    BY <1>7 DEF Upload, OutputFits
  <1>9. ASSUME NEW o \in Operator PROVE CallFits(op[o])'
    <2>1. op'[o] = [op[o] EXCEPT !.raced = (op[o].pc = "publish")]
      BY DEF Upload
    <2>2. op[o] \in Calls /\ (op[o].pc = "publish") \in BOOLEAN
      BY DEF TypeOK
    <2>3. /\ op'[o].raced = (op[o].pc = "publish")
          /\ op'[o].pc = op[o].pc /\ op'[o].cmd = op[o].cmd /\ op'[o].commit = op[o].commit
          /\ op'[o].hash = op[o].hash /\ op'[o].read = op[o].read
      BY <2>1, <2>2, RacedOnly
    <2> QED
      BY <1>7, <2>3 DEF CallFits, PlanOf
  <1>10. ASSUME NEW r \in Resolver PROVE ResolutionFits(resolving[r])'
    BY <1>7 DEF Upload, ResolutionFits
  <1> QED
    BY <1>5, <1>6, <1>8, <1>9, <1>10

LEMMA EndRunKeeps ==
  ASSUME Inv, EndRun
  PROVE  Inv'
  <1>1. TypeOK'
    BY DEF EndRun, world, TypeOK
  <1>2. OnlyTagged' /\ OutputFits'
    BY DEF EndRun, OnlyTagged, OutputFits
  <1>3. ASSUME NEW o \in Operator PROVE CallFits(op[o])'
    BY DEF EndRun, CallFits, PlanOf
  <1>4. ASSUME NEW r \in Resolver PROVE ResolutionFits(resolving[r])'
    BY DEF EndRun, ResolutionFits
  <1> QED
    BY <1>1, <1>2, <1>3, <1>4

\* A step that changes the release's state, or whether it is stable, and not
\* its assets, and unlocks nothing.
LEMMA StateKeeps ==
  ASSUME Inv, NEW s \in States, NEW x \in BOOLEAN,
         release' = [release EXCEPT !.state = s, !.stable = x],
         release.state = "immutable" => s = "immutable",
         source' \in {"released", "changed"}, policy' \in BOOLEAN, changes' \in 0..MaxChanges,
         op' \in [Operator -> Calls],
         \A o \in Operator : CallFits(op'[o]),
         UNCHANGED <<workflow, runs, local, authorised, receipts, resolving, output>>
  PROVE  Inv'
  <1>1. release' \in [state : States, stable : BOOLEAN, assets : Assets]
        /\ release'.assets = release.assets /\ release'.state = s
    BY DEF TypeOK
  <1>2. TypeOK'
    BY <1>1 DEF TypeOK
  <1>3. OnlyTagged' /\ OutputFits'
    BY <1>1 DEF OnlyTagged, OutputFits
  <1>4. ASSUME NEW o \in Operator PROVE CallFits(op[o])'
    BY <1>1 DEF CallFits, PlanOf
  <1>5. ASSUME NEW r \in Resolver PROVE ResolutionFits(resolving[r])'
    BY <1>1 DEF ResolutionFits
  <1> QED
    BY <1>2, <1>3, <1>4, <1>5

LEMMA LockKeeps == ASSUME Inv, Lock PROVE Inv'
  <1>1. release' = [release EXCEPT !.state = "immutable", !.stable = release.stable]
    BY DEF Lock, TypeOK
  <1>2. release.stable \in BOOLEAN /\ "immutable" \in States
    BY DEF TypeOK, States, Published
  <1> QED
    BY <1>1, <1>2, StateKeeps DEF Lock, world, TypeOK

LEMMA ChangeKeeps == ASSUME Inv, Change PROVE Inv'
  <1>1. PICK x \in BOOLEAN : release' = [release EXCEPT !.state = release.state, !.stable = x]
    BY DEF Change, TypeOK
  <1>2. release.state \in States /\ changes' \in 0..MaxChanges
    BY DEF Change, TypeOK
  <1>3. source' \in {"released", "changed"} /\ policy' \in BOOLEAN
    BY DEF Change, TypeOK
  <1> QED
    BY <1>1, <1>2, <1>3, StateKeeps DEF Change, TypeOK

LEMMA PublishKeeps ==
  ASSUME Inv, NEW o \in Operator, Publish(o)
  PROVE  Inv'
  <1> DEFINE d == [To(o, "readback") EXCEPT !.raced = FALSE]
  <1>1. d \in Calls /\ CallFits(d)
    <2>1. /\ To(o, "readback") \in Calls /\ To(o, "readback").pc = "readback"
          /\ To(o, "readback").cmd = op[o].cmd /\ To(o, "readback").commit = op[o].commit
          /\ To(o, "readback").hash = op[o].hash /\ To(o, "readback").read = op[o].read
      BY DEF To, Calls, TypeOK
    <2>2. /\ d \in Calls /\ d.pc = "readback" /\ d.cmd = op[o].cmd
          /\ d.commit = op[o].commit /\ d.hash = op[o].hash /\ d.read = op[o].read
      <3> DEFINE t == To(o, "readback")
      <3>1. t \in Calls /\ FALSE \in BOOLEAN /\ d = [t EXCEPT !.raced = FALSE]
        BY <2>1
      <3> HIDE DEF t, d
      <3>2. /\ d \in Calls /\ d.pc = t.pc /\ d.cmd = t.cmd
            /\ d.commit = t.commit /\ d.hash = t.hash /\ d.read = t.read
        BY <3>1, RacedOnly, Zenon
      <3> QED
        BY <2>1, <3>2 DEF t
    <2>3. op[o].pc = "publish"
      BY DEF Publish
    <2> QED
      BY <2>2, <2>3 DEF PlanOf, CallFits
  <1>2. op' = [op EXCEPT ![o] = d] \/ op' = [op EXCEPT ![o] = NoCall]
    BY DEF Publish, Then
  <1> HIDE DEF d
  <1>3. op' \in [Operator -> Calls] /\ \A p \in Operator : CallFits(op'[p])
    BY <1>1, <1>2, NoCallFits DEF TypeOK
  <1>4. PICK s \in States :
          /\ release' = [release EXCEPT !.state = s, !.stable = release.stable]
          /\ release.state = "immutable" => s = "immutable"
    BY DEF Publish, States, Published, TypeOK
  <1>5. release.stable \in BOOLEAN
    BY DEF TypeOK
  <1>6. /\ source' \in {"released", "changed"} /\ policy' \in BOOLEAN
        /\ changes' \in 0..MaxChanges
        /\ UNCHANGED <<workflow, runs, local, authorised, receipts, resolving, output>>
    BY DEF Publish, world, TypeOK
  <1>7. \A p \in Operator : CallFits(op'[p])
    BY <1>3
  <1> HIDE DEF Inv
  <1> QED
    BY <1>3, <1>4, <1>5, <1>6, <1>7, StateKeeps, Zenon

LEMMA FillKeeps ==
  ASSUME Inv, NEW o \in Operator, Fill(o)
  PROVE  Inv'
  <1>1. TypeOK'
    BY DEF Fill, world, TypeOK
  <1>2. OnlyTagged' /\ OutputFits'
    BY DEF Fill, OnlyTagged, OutputFits
  <1>3. ASSUME NEW p \in Operator PROVE CallFits(op[p])'
    BY DEF Fill, CallFits, PlanOf
  <1>4. ASSUME NEW r \in Resolver PROVE ResolutionFits(resolving[r])'
    BY DEF Fill, ResolutionFits
  <1> QED
    BY <1>1, <1>2, <1>3, <1>4

-----------------------------------------------------------------------------
(* Steps of resolve_release.py.                                            *)

LEMMA ResolverKeeps ==
  ASSUME Inv, NEW r \in Resolver, NEW c \in Resolutions, ResolutionFits(c),
         resolving' = [resolving EXCEPT ![r] = c],
         UNCHANGED <<world, release, workflow, runs, local, op, authorised, receipts>>,
         output' \in Assets \union {None}, OutputFits'
  PROVE  Inv'
  <1>1. TypeOK'
    BY DEF world, TypeOK
  <1>2. OnlyTagged'
    BY DEF OnlyTagged
  <1>3. ASSUME NEW o \in Operator PROVE CallFits(op[o])'
    BY DEF CallFits, PlanOf
  <1>4. ASSUME NEW q \in Resolver PROVE ResolutionFits(resolving[q])'
    <2>1. resolving'[q] = c \/ resolving'[q] = resolving[q]
      BY DEF TypeOK
    <2> QED
      BY <2>1 DEF ResolutionFits
  <1> QED
    BY <1>1, <1>2, <1>3, <1>4

LEMMA ResolutionKeeps ==
  ASSUME Inv, NEW r \in Resolver, Resolution(r)
  PROVE  Inv'
  <1>1. CASE Resolve(r)
    <2> DEFINE c == [pc |-> "manifests", digests |-> release.assets]
    <2>1. c \in Resolutions /\ ResolutionFits(c)
      BY <1>1 DEF Resolve, Resolvable, Resolutions, ResolutionFits, TypeOK
    <2>2. output' \in Assets \union {None} /\ OutputFits'
      BY <1>1 DEF Resolve, OutputFits, TypeOK
    <2> QED
      BY <1>1, <2>1, <2>2, ResolverKeeps DEF Resolve
  <1>2. CASE Manifests(r)
    <2> DEFINE c == [resolving[r] EXCEPT !.pc = "portable"]
    <2>1. c \in Resolutions /\ ResolutionFits(c)
      BY <1>2 DEF Manifests, Advance, Resolutions, ResolutionFits, TypeOK
    <2>2. output' \in Assets \union {None} /\ OutputFits'
      BY <1>2 DEF Manifests, Advance, OutputFits, TypeOK
    <2> QED
      BY <1>2, <2>1, <2>2, ResolverKeeps DEF Manifests, Advance
  <1>3. CASE Portable(r)
    <2> DEFINE c == [resolving[r] EXCEPT !.pc = "staged"]
    <2>1. c \in Resolutions /\ ResolutionFits(c)
      BY <1>3 DEF Portable, Advance, Resolutions, ResolutionFits, TypeOK
    <2>2. output' \in Assets \union {None} /\ OutputFits'
      BY <1>3 DEF Portable, Advance, OutputFits, TypeOK
    <2> QED
      BY <1>3, <2>1, <2>2, ResolverKeeps DEF Portable, Advance
  <1>4. CASE PlaceOutput(r)
    <2>1. output' \in Assets \union {None} /\ OutputFits'
      BY <1>4 DEF PlaceOutput, OutputFits, ResolutionFits, Resolutions, TypeOK
    <2> QED
      BY <1>4, <2>1, NoResolutionFits, ResolverKeeps DEF PlaceOutput
  <1>5. CASE Unresolved(r)
    <2>1. output' \in Assets \union {None} /\ OutputFits'
      BY <1>5 DEF Unresolved, OutputFits, TypeOK
    <2> QED
      BY <1>5, <2>1, NoResolutionFits, ResolverKeeps DEF Unresolved
  <1> QED
    BY <1>1, <1>2, <1>3, <1>4, <1>5 DEF Resolution

-----------------------------------------------------------------------------
(* The theorems.                                                           *)

LEMMA NextKeeps == Inv /\ [Next]_vars => Inv'
  <1> SUFFICES ASSUME Inv, [Next]_vars PROVE Inv'
    OBVIOUS
  <1>1. CASE GitHub
    BY <1>1, RunKeeps, UploadKeeps, EndRunKeeps, LockKeeps DEF GitHub
  <1>2. CASE Change
    BY <1>2, ChangeKeeps
  <1>3. ASSUME NEW o \in Operator, Step(o) PROVE Inv'
    BY <1>3, ReadFilesKeeps, ReadSourceKeeps, GitIdentityKeeps, PolicyKeeps,
       ReadDraftKeeps, PublishKeeps, ReadbackKeeps, VerifyKeeps, ReceiptKeeps DEF Step
  <1>4. CASE UNCHANGED vars
    BY <1>4 DEF vars, world, TypeOK, OnlyTagged, OutputFits, CallFits, PlanOf, ResolutionFits
  <1> QED
    BY <1>1, <1>2, <1>3, <1>4, FailsKeeps, FillKeeps, BeginKeeps, ResolutionKeeps DEF Next

THEOREM Inductive == Spec => []Inv
  BY InitialInv, NextKeeps, PTL DEF Spec

\* Types: whatever runs beside what, one release, each call with the plan of one
\* whole build and no more readbacks than are allowed.
THEOREM PromotionTypeCorrect == Spec => []TypeOK
  <1>1. Inv => TypeOK
    OBVIOUS
  <1> QED
    BY <1>1, Inductive, PTL

\* resolve_release.py gives a workstation nothing but a whole build of the tag's
\* commit, and what GitHub locked: its own checks suffice, also against a release
\* published in the middle of a second run of the tag workflow.
THEOREM ResolutionWhole == Spec => []ResolvedWhole
  <1>1. Inv => ResolvedWhole
    BY ResolvedIsBuilt DEF OutputFits, ResolvedWhole, TypeOK
  <1> QED
    BY <1>1, Inductive, PTL

\* Only a publication takes a release out of its draft, and it takes the assets
\* as they are.
LEMMA DraftEndsAsItIs ==
  ASSUME Inv, Next, release.state = "draft", release'.state # "draft"
  PROVE  release'.assets = release.assets
  <1> release \in [state : States, stable : BOOLEAN, assets : Assets]
    BY DEF TypeOK
  <1>1. ASSUME NEW o \in Operator, Publish(o) PROVE release'.assets = release.assets
    BY <1>1 DEF Publish
  <1>2. ~GitHub
    BY DEF GitHub, Run, Upload, EndRun, Lock
  <1>3. ~Change
    BY DEF Change
  <1>4. ASSUME NEW o \in Operator, Step(o) PROVE Publish(o)
    BY <1>4 DEF Step, ReadFiles, ReadSource, GitIdentity, Policy, ReadDraft, Readback,
                Verify, Receipt, ReadsOnly, Quiet
  <1>5. ASSUME NEW o \in Operator
        PROVE  /\ ~Fails(o) /\ ~Fill(o)
               /\ \A cmd \in {"inspect", "apply"}, c \in Commit : ~Begin(o, cmd, c)
    BY DEF Fails, Fill, Begin, ReadsOnly, Quiet
  <1>6. ASSUME NEW r \in Resolver PROVE ~Resolution(r)
    BY DEF Resolution, Resolve, Manifests, Portable, Advance, PlaceOutput, Unresolved
  <1> QED
    BY <1>1, <1>2, <1>3, <1>4, <1>5, <1>6 DEF Next

\* publish_release.py publishes the plan the user approved and no other, as long
\* as nobody touches the draft between its last reading and the command.
THEOREM PublicationAsPlanned == Spec => PublishesThePlan
  <1> DEFINE P(o) == op[o].pc = "publish" /\ release.state = "draft" /\ release'.state # "draft"
                       /\ op'[o].pc # "publish" /\ ~op[o].raced
                     => op[o].hash # NoPlan /\ release'.assets = op[o].hash.assets
                          /\ op[o].hash.commit = Tag
  <1>1. ASSUME Inv, [Next]_vars, NEW o \in Operator PROVE P(o)
    <2> SUFFICES ASSUME op[o].pc = "publish", release.state = "draft",
                        release'.state # "draft", ~op[o].raced
                 PROVE  /\ op[o].hash # NoPlan /\ release'.assets = op[o].hash.assets
                        /\ op[o].hash.commit = Tag
      OBVIOUS
    <2>1. release'.assets = release.assets
      BY <1>1, DraftEndsAsItIs DEF vars
    <2>2. /\ op[o].hash = PlanOf(op[o]) /\ op[o].hash # NoPlan
          /\ op[o].commit = Tag /\ release.assets = op[o].read
      BY <1>1 DEF CallFits
    <2> QED
      BY <2>1, <2>2 DEF PlanOf
  <1>2. Inv /\ [Next]_vars => [\A o \in Operator : P(o)]_vars
    BY <1>1
  <1> QED
    BY <1>2, Inductive, PTL DEF Spec, PublishesThePlan

\* A receipt is written by the call that ends with it.
LEMMA ReceiptOfTheCall ==
  ASSUME Inv, Next, NEW o \in Operator, receipts' # receipts,
         op[o].pc = "receipt", op'[o].pc = "idle"
  PROVE  Receipt(o)
  <1> op \in [Operator -> Calls]
    BY DEF TypeOK
  <1>1. ASSUME NEW p \in Operator, Receipt(p) PROVE p = o
    BY <1>1 DEF Receipt, Then
  <1>2. ~GitHub /\ ~Change
    BY DEF GitHub, Run, Upload, EndRun, Lock, Change
  <1>3. ASSUME NEW p \in Operator, Step(p) PROVE Receipt(p)
    BY <1>3 DEF Step, ReadFiles, ReadSource, GitIdentity, Policy, ReadDraft, Publish, Readback,
                Verify, ReadsOnly
  <1>4. ASSUME NEW p \in Operator
        PROVE  /\ ~Fails(p) /\ ~Fill(p)
               /\ \A cmd \in {"inspect", "apply"}, c \in Commit : ~Begin(p, cmd, c)
    BY DEF Fails, Fill, Begin, ReadsOnly
  <1>5. ASSUME NEW r \in Resolver PROVE ~Resolution(r)
    BY DEF Resolution, Resolve, Manifests, Portable, Advance, PlaceOutput, Unresolved
  <1> QED
    BY <1>1, <1>2, <1>3, <1>4, <1>5 DEF Next

\* A receipt is true: when it is written the approved plan, the locked release and
\* the operator's files, read after the last network call, are one build of the tag.
THEOREM ReceiptSound == Spec => ReceiptTrue
  <1> DEFINE Q(o) == /\ release.state = "immutable"
                     /\ release.assets = op[o].hash.assets /\ local[o] = op[o].hash.assets
                     /\ \E b \in Build : CommitOf[b] = Tag /\ local[o] = Built(b)
             P(o) == receipts' # receipts /\ op[o].pc = "receipt" /\ op'[o].pc = "idle" => Q(o)
  <1>1. ASSUME Inv, [Next]_vars, NEW o \in Operator PROVE P(o)
    <2> SUFFICES ASSUME receipts' # receipts, op[o].pc = "receipt", op'[o].pc = "idle"
                 PROVE  Q(o)
      OBVIOUS
    <2>1. Receipt(o)
      BY <1>1, ReceiptOfTheCall DEF vars
    <2>2. Current(o) /\ release.assets = op[o].read
      BY <2>1 DEF Receipt
    <2>3. op[o].hash = PlanOf(op[o]) /\ release.state = "immutable"
      BY <1>1 DEF CallFits
    <2>4. local[o] = op[o].read /\ op[o].hash.assets = op[o].read
      BY <2>2, <2>3 DEF Current, PlanOf
    <2> DEFINE b == local[o]["SHA256SUMS"]
    <2>5. b \in Build /\ local[o] = Built(b)
      BY <1>1, <2>2, SummedIsBuilt DEF Current, ReleaseFiles, TypeOK
    <2>6. CommitOf[b] = Tag
      BY <1>1, <2>2, <2>4, <2>5 DEF OnlyTagged, Origins, Piece, Content
    <2> QED
      BY <2>2, <2>3, <2>4, <2>5, <2>6
  <1>2. Inv /\ [Next]_vars => [\A o \in Operator : P(o)]_vars
    BY <1>1
  <1> QED
    BY <1>2, Inductive, PTL DEF Spec, ReceiptTrue
=============================================================================
