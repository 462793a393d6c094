-------------------------- MODULE ReleasePromotion --------------------------
(***************************************************************************)
(* How a release gets from a draft to a workstation: the tag workflow      *)
(* fills a draft asset by asset, an operator's publish_release.py inspects *)
(* it, shows a plan and publishes the plan that was approved, GitHub locks *)
(* what was published, and resolve_release.py takes it to a workstation.   *)
(*                                                                         *)
(* The three programs run on different machines and share nothing but the  *)
(* release.  Every read of it is one request, and what it answered may no  *)
(* longer be so at the next: the workflow may be run again for the same    *)
(* tag, main may move, the repository's settings may change.               *)
(*                                                                         *)
(* A build stands for the bytes of its archives.  Its source manifest      *)
(* holds nothing but the commit, so two builds of a commit share it.  A    *)
(* digest is the content it was taken of.                                  *)
(***************************************************************************)
EXTENDS Naturals, FiniteSets

CONSTANTS
  Operator, Resolver,
  Build, Commit, CommitOf,  \* what may be built, and of which commit
  Tag,                      \* the commit the write-once tag names
  Directories,              \* what an operator's asset directory may hold
  Attempts,                 \* readbacks after a publication (10 in the code)
  MaxRuns,                  \* bound on further runs of the tag workflow
  MaxChanges,               \* bound on changes to the source and the settings
  None, NoBuild, NoPlan

ASSUME BuildAssumption ==
  /\ CommitOf \in [Build -> Commit] /\ Tag \in Commit
  /\ \E b \in Build : CommitOf[b] = Tag
  /\ None \notin Build \union Commit
  /\ Attempts \in Nat \ {0} /\ MaxRuns \in Nat /\ MaxChanges \in Nat

VARIABLES
  source,      \* whether checkout, changelog and remote main are the tagged commit's:
               \* "released", or "changed" (edited, moved on, still unreleased)
  policy,      \* whether the repository makes its releases immutable
  release,     \* the release of the tag on GitHub
  workflow,    \* the run of the tag workflow: its build and the assets it has left
  runs,
  local,       \* each operator's asset directory
  op,          \* each operator's call of publish_release.py (raced, a history: the
               \* draft it read and is about to publish has changed since)
  authorised,  \* the plan the user was shown and approved
  receipts,    \* the plans a receipt says are published
  resolving,   \* each call of resolve_release.py
  output,      \* the directory it places its resolution in
  changes

vars == <<source, policy, release, workflow, runs, local, op, authorised,
          receipts, resolving, output, changes>>
world == <<source, policy, changes>>

-----------------------------------------------------------------------------
(* Assets.                                                                 *)

Piece == {"SHA256SUMS", "source-manifest.json", "release-manifest.json", "portable"}
Content(b, n) == IF n = "source-manifest.json" THEN CommitOf[b] ELSE b
Contents == {Content(b, n) : b \in Build, n \in Piece}
Assets   == [Piece -> Contents \union {None}]
Built(b) == [n \in Piece |-> Content(b, n)]

ASSUME DirectoryAssumption == Directories \subseteq Assets

\* The checksums name exactly these bytes, for each of the pieces.
Summed(a, pieces) ==
  /\ a["SHA256SUMS"] \in Build
  /\ \A n \in pieces : a[n] = Content(a["SHA256SUMS"], n)

\* The release manifest lists these artifacts.
Listed(a, pieces) ==
  /\ a["release-manifest.json"] \in Build
  /\ \A n \in pieces : a[n] = Content(a["release-manifest.json"], n)

\* _release_files: every file is in the checksums and every artifact in the
\* manifest, with its digest.
ReleaseFiles(a) ==
  /\ Summed(a, Piece)
  /\ Listed(a, Piece \ {"SHA256SUMS", "release-manifest.json"})

SourceCommit(a) == CommitOf[a["release-manifest.json"]]
Plans == [commit : Commit, assets : {Built(b) : b \in Build}]

-----------------------------------------------------------------------------
(* The tag workflow and GitHub (release-artifacts.yml).                    *)

Published == {"open", "locking", "immutable"}  \* without the lock, awaiting it, locked
States    == {"draft"} \union Published
FirstBuild == CHOOSE b \in Build : CommitOf[b] = Tag

NoCall == [pc |-> "idle", cmd |-> "inspect", commit |-> Tag, hash |-> NoPlan,
           read |-> Built(FirstBuild), tries |-> 0, raced |-> FALSE]
NoResolution == [pc |-> "idle", digests |-> Built(FirstBuild)]

Init ==
  /\ source = "released" /\ policy = TRUE
  /\ release = [state |-> "draft", stable |-> TRUE, assets |-> Built(FirstBuild)]
  /\ workflow = [build |-> NoBuild, todo |-> {}] /\ runs = 0
  /\ local \in [Operator -> {Built(FirstBuild)}]
  /\ op = [o \in Operator |-> NoCall]
  /\ authorised = NoPlan /\ receipts = {}
  /\ resolving = [r \in Resolver |-> NoResolution]
  /\ output = None
  /\ changes = 0

\* Create or resume: only a draft is filled.
Run(b) ==
  /\ workflow.build = NoBuild /\ runs < MaxRuns /\ CommitOf[b] = Tag
  /\ release.state = "draft"
  /\ workflow' = [build |-> b, todo |-> Piece]
  /\ runs' = runs + 1
  /\ UNCHANGED <<world, release, local, op, authorised, receipts, resolving, output>>

\* gh release upload --clobber: the asset is deleted, then uploaded, which
\* GitHub refuses on an immutable release.
Upload(n) ==
  /\ n \in workflow.todo /\ release.state # "immutable"
  /\ \/ /\ release.assets[n] # None
        /\ release' = [release EXCEPT !.assets[n] = None]
        /\ workflow' = workflow
     \/ /\ release.assets[n] = None
        /\ release' = [release EXCEPT !.assets[n] = Content(workflow.build, n)]
        /\ workflow' = [workflow EXCEPT !.todo = @ \ {n}]
  /\ op' = [o \in Operator |-> [op[o] EXCEPT !.raced = op[o].pc = "publish"]]
  /\ UNCHANGED <<world, runs, local, authorised, receipts, resolving, output>>

\* Done, refused or cancelled.
EndRun ==
  /\ workflow.build # NoBuild
  /\ workflow' = [build |-> NoBuild, todo |-> {}]
  /\ UNCHANGED <<world, release, runs, local, op, authorised, receipts, resolving,
                 output>>

\* A release published while the policy was on is locked, and attested, some
\* time after it was published.
Lock ==
  /\ release.state = "locking"
  /\ release' = [release EXCEPT !.state = "immutable"]
  /\ UNCHANGED <<world, workflow, runs, local, op, authorised, receipts, resolving,
                 output>>

-----------------------------------------------------------------------------
(* publish_release.py.  A step that does not find what it requires ends    *)
(* the call; so does a command that fails or times out (Fails).            *)

Idle(o)     == op[o] = NoCall
PlanOf(c)   == [commit |-> c.commit, assets |-> c.read]
Quiet       == UNCHANGED <<world, release, workflow, runs, local, resolving, output>>
ReadsOnly   == Quiet /\ UNCHANGED <<authorised, receipts>>

\* The call c goes on as d if it finds what it requires, or is blocked.
Then(o, found, d) == op' = [op EXCEPT ![o] = IF found THEN d ELSE NoCall]
To(o, pc)         == [op[o] EXCEPT !.pc = pc]

Begin(o, cmd, c) ==
  /\ Idle(o)
  /\ cmd = "apply" => authorised # NoPlan
  /\ Then(o, TRUE, [NoCall EXCEPT !.pc = "files", !.cmd = cmd, !.commit = c,
                      !.hash = IF cmd = "apply" THEN authorised ELSE NoPlan])
  /\ ReadsOnly

ReadFiles(o) ==
  /\ op[o].pc = "files"
  /\ Then(o, ReleaseFiles(local[o]), [To(o, "source") EXCEPT !.read = local[o]])
  /\ ReadsOnly

\* The manifest is read a second time for the commit it was built of.
ReadSource(o) ==
  /\ op[o].pc = "source"
  /\ Then(o, local[o]["release-manifest.json"] \in Build /\ SourceCommit(local[o]) = op[o].commit,
          To(o, "git"))
  /\ ReadsOnly

\* The checkout, then origin's main and tag, then the changelog's section.
GitIdentity(o) ==
  /\ op[o].pc \in {"git", "remote", "copy"}
  /\ Then(o, source = "released" /\ Tag = op[o].commit,
          To(o, [git |-> "remote", remote |-> "copy", copy |-> "policy"][op[o].pc]))
  /\ ReadsOnly

Policy(o) == op[o].pc = "policy" /\ Then(o, policy, To(o, "draft")) /\ ReadsOnly

\* (mutant) The names alone are compared.
ValidRemote_Names(remote, assets) ==
  \A n \in Piece : remote[n] = None <=> assets[n] = None

\* _validate_remote_assets: the same names, sizes and digests, all uploaded.
ValidRemote(remote, assets) == remote = assets

\* inspect_plan: the draft is the plan's.
Plannable(c) == release.state = "draft" /\ release.stable /\ ValidRemote(release.assets, c.read)

\* inspect shows the plan; apply compares it with the one the user approved.
ReadDraft(o) ==
  /\ op[o].pc = "draft"
  /\ Then(o, Plannable(op[o]) /\ op[o].cmd = "apply" /\ op[o].hash = PlanOf(op[o]),
          To(o, "publish"))
  /\ authorised' = IF op[o].cmd = "inspect" /\ Plannable(op[o]) THEN PlanOf(op[o]) ELSE authorised
  /\ Quiet /\ UNCHANGED receipts

\* gh release edit --draft=false may time out after it took effect.  On a
\* published release it changes nothing.
Publish(o) ==
  /\ op[o].pc = "publish"
  /\ release' = IF release.state # "draft" THEN release
                ELSE [release EXCEPT !.state = IF policy THEN "locking" ELSE "open"]
  /\ \E answered \in BOOLEAN :
       Then(o, answered, [To(o, "readback") EXCEPT !.raced = FALSE])
  /\ UNCHANGED <<world, workflow, runs, local, authorised, receipts, resolving, output>>

Settled == release.state = "immutable"

Another(tries) == tries + 1 < Attempts

\* (mutant) The loop waits without counting.
Counted_Never(tries) == tries

Counted(tries) == tries + 1

Readback(o) ==
  /\ op[o].pc = "readback"
  /\ IF Settled THEN Then(o, ValidRemote(release.assets, op[o].read), To(o, "verify"))
     ELSE Then(o, Another(op[o].tries), [op[o] EXCEPT !.tries = Counted(@)])
  /\ ReadsOnly

\* gh release verify: GitHub attests what it locked.
Verify(o) == op[o].pc = "verify" /\ Then(o, Settled, To(o, "receipt")) /\ ReadsOnly

\* (mutant) The digests taken before the network call are used.
Current_Before(o) == ReleaseFiles(op[o].read)

\* The files are read again after the network call and must be the plan's.
Current(o) == ReleaseFiles(local[o]) /\ local[o] = op[o].read

Receipt(o) ==
  /\ op[o].pc = "receipt"
  /\ receipts' = IF Current(o) /\ release.assets = op[o].read
                 THEN receipts \union {PlanOf(op[o])} ELSE receipts
  /\ Then(o, FALSE, NoCall)
  /\ Quiet /\ UNCHANGED authorised

Fails(o) == ~Idle(o) /\ Then(o, FALSE, NoCall) /\ ReadsOnly

-----------------------------------------------------------------------------
(* resolve_release.py.  A call that fails leaves nothing behind.           *)

Resolvable == release.state = "immutable" /\ release.stable

\* The release's description: its state, its tag's commit, its assets' digests.
Resolve(r) ==
  /\ resolving[r].pc = "idle" /\ output = None /\ Resolvable
  /\ \A n \in Piece \ {"portable"} : release.assets[n] # None
  /\ resolving' = [resolving EXCEPT ![r] = [pc |-> "manifests", digests |-> release.assets]]
  /\ UNCHANGED <<world, release, workflow, runs, local, op, authorised, receipts, output>>

\* A download is accepted with the digest of the description.
Downloaded(r, n) == release.assets[n] = resolving[r].digests[n]

\* The checksums name both manifests, both name the tag's commit, and the
\* release manifest lists what the checksums do.
ManifestsHold(a) ==
  /\ Summed(a, {"source-manifest.json", "release-manifest.json"})
  /\ a["source-manifest.json"] = Tag /\ SourceCommit(a) = Tag
  /\ \A n \in {"portable", "source-manifest.json"} :
       Content(a["release-manifest.json"], n) = Content(a["SHA256SUMS"], n)

\* (mutant) The archive's digest at GitHub is enough.
PortableHolds_Trusted(a) == a["portable"] \in Build

PortableHolds(a) == Summed(a, {"portable"})

Advance(r, from, cond, to) ==
  /\ resolving[r].pc = from /\ cond
  /\ resolving' = [resolving EXCEPT ![r].pc = to]
  /\ UNCHANGED <<world, release, workflow, runs, local, op, authorised, receipts, output>>

Manifests(r) ==
  Advance(r, "manifests", /\ \A n \in Piece \ {"portable"} : Downloaded(r, n)
                          /\ ManifestsHold(resolving[r].digests), "portable")
Portable(r) ==
  Advance(r, "portable", Downloaded(r, "portable") /\ PortableHolds(resolving[r].digests),
          "staged")

\* One rename: it fails where another call has placed its resolution.
PlaceOutput(r) ==
  /\ resolving[r].pc = "staged" /\ output = None
  /\ output' = resolving[r].digests
  /\ resolving' = [resolving EXCEPT ![r] = NoResolution]
  /\ UNCHANGED <<world, release, workflow, runs, local, op, authorised, receipts>>

Unresolved(r) ==
  /\ resolving[r].pc # "idle"
  /\ resolving' = [resolving EXCEPT ![r] = NoResolution]
  /\ UNCHANGED <<world, release, workflow, runs, local, op, authorised, receipts, output>>

-----------------------------------------------------------------------------
(* What changes around them.                                               *)

\* The operator downloads the draft, or builds one himself.
Fill(o) ==
  /\ \E d \in Directories : local' = [local EXCEPT ![o] = d]
  /\ UNCHANGED <<world, release, workflow, runs, op, authorised, receipts, resolving,
                 output>>

\* A checkout edited or moved, a commit pushed to main, a setting changed.
Change ==
  /\ changes < MaxChanges /\ changes' = changes + 1
  /\ \/ source' \in {"released", "changed"} \ {source} /\ UNCHANGED <<policy, release>>
     \/ policy' = ~policy /\ UNCHANGED <<source, release>>
     \/ release' = [release EXCEPT !.stable = ~@] /\ UNCHANGED <<source, policy>>
  /\ UNCHANGED <<workflow, runs, local, op, authorised, receipts, resolving, output>>

GitHub == (\E b \in Build : Run(b)) \/ (\E n \in Piece : Upload(n)) \/ EndRun \/ Lock

Step(o) ==
  \/ ReadFiles(o) \/ ReadSource(o) \/ GitIdentity(o) \/ Policy(o) \/ ReadDraft(o)
  \/ Publish(o) \/ Readback(o) \/ Verify(o) \/ Receipt(o)

Resolution(r) == Resolve(r) \/ Manifests(r) \/ Portable(r) \/ PlaceOutput(r) \/ Unresolved(r)

Next ==
  \/ GitHub \/ Change
  \/ \E o \in Operator : Step(o) \/ Fails(o) \/ Fill(o)
       \/ \E cmd \in {"inspect", "apply"}, c \in Commit : Begin(o, cmd, c)
  \/ \E r \in Resolver : Resolution(r)

Spec == Init /\ [][Next]_vars

\* A call that is not blocked goes on: each of its commands has a time-out.
Fairness == \A o \in Operator : WF_vars(Step(o))
FairSpec == Spec /\ Fairness

-----------------------------------------------------------------------------
(* Properties.                                                             *)

Calls == [pc : {"idle", "files", "source", "git", "remote", "copy", "policy", "draft",
                "publish", "readback", "verify", "receipt"},
          cmd : {"inspect", "apply"}, commit : Commit, hash : Plans \union {NoPlan},
          read : {Built(b) : b \in Build}, tries : 0..(Attempts - 1), raced : BOOLEAN]
Resolutions == [pc : {"idle", "manifests", "portable", "staged"}, digests : Assets]

\* Types, with the bound on readbacks and a plan only ever of one build.
TypeOK ==
  /\ source \in {"released", "changed"} /\ policy \in BOOLEAN
  /\ release \in [state : States, stable : BOOLEAN, assets : Assets]
  /\ workflow \in [build : Build \union {NoBuild}, todo : SUBSET Piece]
  /\ runs \in 0..MaxRuns /\ changes \in 0..MaxChanges
  /\ local \in [Operator -> Assets]
  /\ op \in [Operator -> Calls]
  /\ authorised \in Plans \union {NoPlan} /\ receipts \subseteq Plans
  /\ resolving \in [Resolver -> Resolutions]
  /\ output \in Assets \union {None}

\* What a workstation takes is one build of the tag's commit and what GitHub
\* locked, although a publication may catch the workflow between two assets
\* and lock a mixture for ever.
ResolvedWhole ==
  output # None =>
    /\ release.state = "immutable" /\ output = release.assets
    /\ \E b \in Build : CommitOf[b] = Tag /\ output = Built(b)

\* A draft nobody touched between the call's reading of it and the command is
\* published as the plan the user approved, whichever directories, drafts and
\* plans there were meanwhile.
PublishesThePlan ==
  [][\A o \in Operator :
       op[o].pc = "publish" /\ release.state = "draft" /\ release'.state # "draft"
         /\ op'[o].pc # "publish" /\ ~op[o].raced
       => op[o].hash # NoPlan /\ release'.assets = op[o].hash.assets
            /\ op[o].hash.commit = Tag]_vars

\* When a receipt is written the approved plan, what GitHub locked and the
\* operator's own files are the same whole build of the tag's commit.
ReceiptTrue ==
  [][\A o \in Operator : receipts' # receipts /\ op[o].pc = "receipt" /\ op'[o].pc = "idle"
       => /\ release.state = "immutable"
          /\ release.assets = op[o].hash.assets /\ local[o] = op[o].hash.assets
          /\ \E b \in Build : CommitOf[b] = Tag /\ local[o] = Built(b)]_vars

\* inspect and apply end, also when GitHub never locks what was published.
CallsEnd == \A o \in Operator : ~Idle(o) ~> Idle(o)

-----------------------------------------------------------------------------
(* The invariant the proofs rest on.                                       *)

Origins(n) == {Content(b, n) : b \in {x \in Build : CommitOf[x] = Tag}}

\* GitHub holds nothing but the workflow's own builds of the tagged commit.
OnlyTagged ==
  /\ \A n \in Piece : release.assets[n] \in Origins(n) \union {None}
  /\ workflow.todo # {} => workflow.build \in Build /\ CommitOf[workflow.build] = Tag

\* What a call knows of its plan, of the draft and of GitHub's lock.
CallFits(c) ==
  /\ c.pc # "idle" /\ c.cmd = "apply" => c.hash # NoPlan
  /\ c.pc \in {"remote", "copy", "policy", "draft", "publish", "readback", "verify", "receipt"}
       => c.commit = Tag
  /\ c.pc \in {"publish", "readback", "verify", "receipt"} =>
       c.cmd = "apply" /\ c.hash = PlanOf(c)
  /\ c.pc = "publish" /\ ~c.raced => release.assets = c.read
  /\ c.pc = "receipt" => release.state = "immutable"

\* What a resolution has checked is still there: GitHub locked it.
ResolutionFits(r) ==
  /\ r.pc # "idle" => release.state = "immutable" /\ r.digests = release.assets
  /\ r.pc \in {"portable", "staged"} => ManifestsHold(r.digests)
  /\ r.pc = "staged" => PortableHolds(r.digests)

OutputFits ==
  output # None => /\ release.state = "immutable" /\ output = release.assets
                   /\ ManifestsHold(output) /\ PortableHolds(output)

\* The files, calls and resolutions fit the one release they all speak of.
PromotionInvariant ==
  /\ TypeOK /\ OnlyTagged /\ OutputFits
  /\ \A o \in Operator : CallFits(op[o])
  /\ \A r \in Resolver : ResolutionFits(resolving[r])
=============================================================================
