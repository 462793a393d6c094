------------------------- MODULE RuntimeLedgerProofs -------------------------
(***************************************************************************)
(* LedgerInvariant is inductive for any processes, sessions, prompts and   *)
(* proposals and any retention windows with SessionTTL <= EventTTL.  From  *)
(* it follow what the ledger promises of a pending proposal and of events. *)
(*                                                                         *)
(* Steps that only move one process share QuietKeeps; each of the others   *)
(* has a lemma of its own.                                                 *)
(***************************************************************************)
EXTENDS RuntimeLedger, TLAPS

Inv == TypeOK /\ LedgerInvariant

USE NullAssumption, CallAssumption
USE DEF Inv, LedgerInvariant, ids, tables, world, Goto, Leave, Steps, Answering

LEMMA InitialInv == Init => Inv
  <1> SUFFICES ASSUME Init PROVE Inv
    OBVIOUS
  <1>1. TypeOK
    BY BytesAssumption DEF Init, TypeOK
  <1>2. CurrentPromptKept /\ StampsPast /\ RowsRefer /\ FailedCommitUndone
    BY DEF Init, CurrentPromptKept, StampsPast, RowsRefer, FailedCommitUndone
  <1>3. CallsFit
    BY DEF Init, CallsFit, ProposalFits, ApprovalFits, FileFits
  <1> QED
    BY <1>1, <1>2, <1>3

\* A step that moves one process, which holds no lock, and changes no table
\* and no file.
LEMMA QuietKeeps ==
  ASSUME Inv, NEW p \in Proc, NEW l \in Steps, NEW c \in Calls \union {NoCall},
         Goto(p, l, c), pc[p] # "commit", UNCHANGED <<clock, tables, ids, world>>,
         l = "capture" => c.at <= clock,
         ProposalFits(l, c), ApprovalFits(l, c), FileFits(p, l, c)
  PROVE  Inv'
  <1>1. TypeOK'
    BY DEF TypeOK
  <1>2. CurrentPromptKept' /\ RowsRefer' /\ FailedCommitUndone'
    BY DEF CurrentPromptKept, RowsRefer, IsRead, FailedCommitUndone
  <1>3. /\ pc'[p] = l /\ call'[p] = c
        /\ \A r \in Proc \ {p} : pc'[r] = pc[r] /\ call'[r] = call[r]
    BY DEF TypeOK
  <1>4. StampsPast'
    BY <1>3 DEF StampsPast
  <1>5. CallsFit'
    <2> SUFFICES ASSUME NEW r \in Proc
                 PROVE  /\ ProposalFits(pc[r], call[r])'
                        /\ ApprovalFits(pc[r], call[r])'
                        /\ FileFits(r, pc[r], call[r])'
      BY DEF CallsFit
    <2>1. ProposalFits(pc[r], call[r])'
      BY <1>3 DEF CallsFit, ProposalFits
    <2>2. ApprovalFits(pc[r], call[r])'
      BY <1>3 DEF CallsFit, ApprovalFits, TokenFits, IsRead
    <2>3. FileFits(r, pc[r], call[r])'
      BY <1>3 DEF CallsFit, FileFits, AsProposed
    <2> QED
      BY <2>1, <2>2, <2>3
  <1> QED
    BY <1>1, <1>2, <1>4, <1>5

\* A call that returns or raises before it holds a lock.
LEMMA LeavingKeeps ==
  ASSUME Inv, NEW p \in Proc, Leave(p), pc[p] # "commit",
         UNCHANGED <<clock, tables, ids, world>>
  PROVE  Inv'
  <1>1. ProposalFits("idle", NoCall) /\ ApprovalFits("idle", NoCall)
    BY DEF ProposalFits, ApprovalFits
  <1>2. FileFits(p, "idle", NoCall)
    BY DEF CallsFit, FileFits
  <1> QED
    BY <1>1, <1>2, QuietKeeps

-----------------------------------------------------------------------------
(* The steps that only read.                                               *)

LEMMA SubmitKeeps ==
  ASSUME Inv, NEW p \in Proc, NEW s \in Session, NEW sc \in Scope, Submit(p, s, sc)
  PROVE  Inv'
  <1> DEFINE c == [op |-> "capture", session |-> s, scope |-> sc, at |-> clock]
  <1>1. c \in Capturing
    BY DEF Capturing, TypeOK
  <1>2. ProposalFits("capture", c) /\ ApprovalFits("capture", c)
    BY <1>1 DEF ProposalFits, ApprovalFits
  <1>3. FileFits(p, "capture", c)
    BY DEF CallsFit, FileFits, Submit
  <1>4. c.at <= clock
    BY DEF TypeOK
  <1> HIDE DEF c
  <1> QED
    BY <1>1, <1>2, <1>3, <1>4, QuietKeeps DEF Submit, Calls, c

LEMMA ProposeKeeps ==
  ASSUME Inv, NEW p \in Proc, NEW e \in captured, NEW sc \in Scope, NEW ed \in Edits,
         NEW r \in BOOLEAN, NEW t \in Targets[sc], Propose(p, e, sc, t, ed, r)
  PROVE  Inv'
  <1> DEFINE c == [op |-> "create", ev |-> e, scope |-> sc, target |-> t,
                   edit |-> ed, replace |-> r, before |-> docs[t],
                   session |-> NoRow, at |-> 0]
  <1>1. e \in Event /\ t \in Target /\ docs[t] \in Bytes
    BY DEF TypeOK, Target
  <1>2. c \in Proposing
    BY <1>1 DEF Proposing
  <1>3. ProposalFits("resolve", c) /\ ApprovalFits("resolve", c)
    BY <1>2 DEF ProposalFits, ApprovalFits
  <1>4. FileFits(p, "resolve", c)
    BY DEF CallsFit, FileFits, Propose
  <1> HIDE DEF c
  <1> QED
    BY <1>2, <1>3, <1>4, QuietKeeps DEF Propose, Calls, c

LEMMA ResolveSourceKeeps ==
  ASSUME Inv, NEW p \in Proc, ResolveSource(p)
  PROVE  Inv'
  <1>1. CASE ~Usable(call[p].ev, call[p].scope)
    BY <1>1, LeavingKeeps DEF ResolveSource
  <1>2. CASE Usable(call[p].ev, call[p].scope)
    <2> DEFINE c == [call[p] EXCEPT !.session = prompt_events[call[p].ev].session,
                                    !.at = clock]
    <2>1. call[p] \in Proposing
      BY DEF ResolveSource, CallsFit, ProposalFits
    <2>2. /\ prompt_events[call[p].ev] \in EventRow
          /\ prompt_events[call[p].ev].scope = call[p].scope
          /\ call[p].ev \in captured
      BY <1>2, <2>1 DEF Usable, Current, TypeOK, RowsRefer, Proposing
    <2>3. c \in Proposing /\ c.session \in Session
      BY <2>1, <2>2 DEF Proposing, EventRow, TypeOK
    <2>4. ProposalFits("insert", c) /\ ApprovalFits("insert", c)
      BY <2>1, <2>2, <2>3 DEF ProposalFits, ApprovalFits, Proposing
    <2>5. FileFits(p, "insert", c)
      BY DEF CallsFit, FileFits, ResolveSource
    <2>6. Goto(p, "insert", c) /\ UNCHANGED <<clock, tables, ids, world>>
      BY <1>2 DEF ResolveSource
    <2> HIDE DEF c
    <2> QED
      BY <2>3, <2>4, <2>5, <2>6, QuietKeeps DEF ResolveSource, Calls
  <1> QED
    BY <1>1, <1>2

\* What an approval finds in the ledger.
LEMMA UsableFacts ==
  ASSUME Inv, NEW e \in Event, NEW sc \in Scope, Usable(e, sc)
  PROVE  /\ prompt_events[e] \in EventRow
         /\ prompt_events[e].session \in Session
         /\ prompt_events[e].scope = sc
         /\ e \in captured
  BY DEF Usable, Current, TypeOK, RowsRefer, EventRow

\* The token a call has just read fits it.
LEMMA TokenReadFits ==
  ASSUME Inv, NEW c, NEW row, c.ev \in Event, c.scope \in Scope,
         Usable(c.ev, c.scope), Pending(c.ev, c.scope),
         row = proposal_tokens[prompt_events[c.ev].session], c.token = row
  PROVE  row \in TokenRow /\ TokenFits(c)
  <1>1. prompt_events[c.ev].session \in Session
    BY UsableFacts
  <1>2. row \in TokenRow /\ row.scope = c.scope
    BY <1>1 DEF Pending, TypeOK
  <1>3. row.id \in minted
    BY <1>1, <1>2 DEF RowsRefer
  <1>4. ASSUME NEW s \in Session, IsRead(c, s)
        PROVE  s = prompt_events[c.ev].session
    BY <1>1, <1>2, <1>4 DEF IsRead, RowsRefer
  <1> QED
    BY <1>1, <1>2, <1>3, <1>4 DEF TokenFits

LEMMA ConfirmKeeps ==
  ASSUME Inv, NEW p \in Proc, NEW e \in captured, NEW sc \in Scope, NEW ed \in Edits,
         NEW t \in Targets[sc], Confirm(p, e, sc, t, ed)
  PROVE  Inv'
  <1> DEFINE row == proposal_tokens[prompt_events[e].session]
             c == Approving("confirm", e, sc, t, ed, row)
  <1>1. e \in Event /\ t \in Target
    BY DEF TypeOK, Target
  <1>2. c.ev = e /\ c.scope = sc /\ c.token = row
    BY DEF Approving
  <1>3. row \in TokenRow /\ TokenFits(c)
    <2> HIDE DEF c, row
    <2> QED
      BY <1>1, <1>2, TokenReadFits DEF Confirm, row
  <1>4. c \in Approvals
    BY <1>1, <1>3 DEF Approvals, Approving, Uses
  <1>5. ProposalFits("validate", c) /\ ApprovalFits("validate", c)
    BY <1>1, <1>3, <1>4 DEF ProposalFits, ApprovalFits, Approving
  <1>6. FileFits(p, "validate", c)
    BY DEF CallsFit, FileFits, Confirm
  <1>7. Goto(p, "validate", c) /\ pc[p] = "idle" /\ UNCHANGED <<clock, tables, ids, world>>
    BY DEF Confirm
  <1> HIDE DEF c
  <1> QED
    BY <1>4, <1>5, <1>6, <1>7, QuietKeeps DEF Calls

LEMMA DeployKeeps ==
  ASSUME Inv, NEW p \in Proc, NEW e \in captured, NEW sc \in Scope, NEW ed \in Edits,
         NEW t \in Targets[sc], Deploy(p, e, sc, t, ed)
  PROVE  Inv'
  <1> DEFINE c == Approving("deploy", e, sc, t, ed, NoRow)
  <1>1. e \in Event /\ t \in Target
    BY DEF TypeOK, Target
  <1>2. c \in Approvals
    BY <1>1 DEF Approvals, Approving, Uses
  <1>3. ProposalFits("plan", c) /\ ApprovalFits("plan", c)
    BY <1>1, <1>2 DEF ProposalFits, ApprovalFits, Approving
  <1>4. FileFits(p, "plan", c)
    BY DEF CallsFit, FileFits, Deploy
  <1>5. Goto(p, "plan", c) /\ pc[p] = "idle" /\ UNCHANGED <<clock, tables, ids, world>>
    BY DEF Deploy
  <1> HIDE DEF c
  <1> QED
    BY <1>2, <1>3, <1>4, <1>5, QuietKeeps DEF Calls

LEMMA DiscardKeeps ==
  ASSUME Inv, NEW p \in Proc, NEW e \in captured, NEW sc \in Scope, Discard(p, e, sc)
  PROVE  Inv'
  <1> DEFINE c == Approving("discard", e, sc, NoRow, NoRow, NoRow)
  <1>1. e \in Event
    BY DEF TypeOK
  <1>2. c \in Approvals
    BY <1>1 DEF Approvals, Approving, Uses
  <1>3. ProposalFits("find", c) /\ ApprovalFits("find", c)
    BY <1>1, <1>2 DEF ProposalFits, ApprovalFits, Approving
  <1>4. FileFits(p, "find", c)
    BY DEF CallsFit, FileFits, Discard
  <1>5. Goto(p, "find", c) /\ pc[p] = "idle" /\ UNCHANGED <<clock, tables, ids, world>>
    BY DEF Discard
  <1> HIDE DEF c
  <1> QED
    BY <1>2, <1>3, <1>4, <1>5, QuietKeeps DEF Calls

LEMMA FindPendingKeeps ==
  ASSUME Inv, NEW p \in Proc, FindPending(p)
  PROVE  Inv'
  <1> DEFINE row == proposal_tokens[prompt_events[call[p].ev].session]
             c == [call[p] EXCEPT !.token = row]
  <1>1. CASE ~(Usable(call[p].ev, call[p].scope) /\ Pending(call[p].ev, call[p].scope))
    BY <1>1, LeavingKeeps DEF FindPending
  <1>2. CASE Usable(call[p].ev, call[p].scope) /\ Pending(call[p].ev, call[p].scope)
    <2>1. call[p] \in Approvals /\ call[p].op = "discard" /\ call[p].ev \in captured
      BY DEF FindPending, CallsFit, ApprovalFits
    <2>2. /\ call[p].ev \in Event /\ call[p].scope \in Scope
          /\ c.ev = call[p].ev /\ c.scope = call[p].scope /\ c.token = row /\ c.op = "discard"
      BY <2>1 DEF Approvals
    <2>3. row \in TokenRow /\ TokenFits(c)
      <3> HIDE DEF c, row
      <3> QED
        BY <1>2, <2>2, TokenReadFits DEF row
    <2>4. c \in Approvals
      BY <2>1, <2>3 DEF Approvals
    <2>5. c \in Calls /\ Goto(p, "commit", c) /\ pc[p] = "find"
          /\ UNCHANGED <<clock, tables, ids, world>>
      BY <1>2, <2>1, <2>4 DEF FindPending, Calls
    <2>6. ProposalFits("commit", c)
      BY DEF ProposalFits
    <2>7. ApprovalFits("commit", c)
      <3> HIDE DEF c, row
      <3> QED
        BY <2>1, <2>2, <2>3, <2>4 DEF ApprovalFits
    <2>8. FileFits(p, "commit", c)
      <3> HIDE DEF c, row
      <3> QED
        BY <2>2, <2>5 DEF CallsFit, FileFits
    <2> HIDE DEF c, row
    <2> QED
      BY <2>5, <2>6, <2>7, <2>8, QuietKeeps
  <1> QED
    BY <1>1, <1>2

LEMMA ValidateKeeps ==
  ASSUME Inv, NEW p \in Proc, Validate(p)
  PROVE  Inv'
  <1>1. CASE Leave(p)
    BY <1>1, LeavingKeeps DEF Validate
  <1>2. CASE Goto(p, "plan", call[p])
    <2>1. call[p] \in Approvals /\ call[p].op = "confirm" /\ TokenFits(call[p])
      BY DEF Validate, CallsFit, ApprovalFits
    <2>2. ProposalFits("plan", call[p]) /\ ApprovalFits("plan", call[p])
      BY <2>1 DEF Validate, CallsFit, ProposalFits, ApprovalFits
    <2>3. FileFits(p, "plan", call[p])
      BY DEF Validate, CallsFit, FileFits
    <2> QED
      BY <1>2, <2>1, <2>2, <2>3, QuietKeeps DEF Validate, Calls
  <1> QED
    BY <1>1, <1>2 DEF Validate

LEMMA PlanRevisionKeeps ==
  ASSUME Inv, NEW p \in Proc, PlanRevision(p)
  PROVE  Inv'
  <1> DEFINE c == [call[p] EXCEPT !.before = docs[call[p].target]]
  <1>1. CASE Leave(p)
    BY <1>1, LeavingKeeps DEF PlanRevision
  <1>2. CASE /\ docs[call[p].target] \in DOMAIN call[p].edit
             /\ call[p].op = "confirm" => AsProposed(call[p], docs[call[p].target])
             /\ Goto(p, "write", c)
    <2>1. /\ call[p] \in Approvals /\ call[p].op # "discard"
          /\ call[p].ev \in captured
          /\ call[p].target \in Target /\ call[p].edit \in Edits
          /\ call[p].op = "confirm" => TokenFits(call[p])
      BY DEF PlanRevision, CallsFit, ApprovalFits, Approvals, Uses
    <2>2. /\ c.op = call[p].op /\ c.ev = call[p].ev /\ c.target = call[p].target
          /\ c.edit = call[p].edit /\ c.scope = call[p].scope
          /\ c.token = call[p].token /\ c.before = docs[call[p].target]
      BY <2>1 DEF Approvals
    <2>3. c \in Approvals
      BY <2>1 DEF Approvals, TypeOK
    <2>4. ProposalFits("write", c)
      BY DEF ProposalFits
    <2>5. ApprovalFits("write", c)
      <3>1. c.op = "confirm" => TokenFits(c)
        BY <2>1, <2>2 DEF TokenFits, IsRead
      <3> HIDE DEF c
      <3> QED
        BY <2>1, <2>2, <2>3, <3>1 DEF ApprovalFits, Approvals, Uses
    <2>6. FileFits(p, "write", c)
      <3> HIDE DEF c
      <3> QED
        BY <1>2, <2>1, <2>2 DEF CallsFit, FileFits, AsProposed, PlanRevision
    <2>7. c \in Calls
      BY <2>3 DEF Calls
    <2> HIDE DEF c
    <2> QED
      BY <1>2, <2>4, <2>5, <2>6, <2>7, QuietKeeps DEF PlanRevision
  <1> QED
    BY <1>1, <1>2 DEF PlanRevision

\* The calls that are refused before they have locked or written anything.
LEMMA RefusalsKeep ==
  ASSUME Inv, NEW p \in Proc, RejectCapture(p) \/ RefuseToken(p) \/ GiveUp(p)
  PROVE  Inv'
  BY LeavingKeeps DEF RejectCapture, RefuseToken, GiveUp

-----------------------------------------------------------------------------
(* A capture, with or without a prune.                                     *)

\* Rows a capture may touch, and what it does to them.  A session kept by the
\* prune keeps its prompt, since that one is as old and its window no shorter;
\* a token keeps its source, since it is pinned.
CaptureEffect(c, e) ==
  /\ prompt_events' \in [Event -> EventRow \union {NoRow}]
  /\ runtime_sessions' \in [Session -> SessionRow \union {NoRow}]
  /\ proposal_tokens' \in [Session -> TokenRow \union {NoRow}]
  /\ approval_consumptions' \in [Event -> Uses \union {NoRow}]
  /\ last_pruned' \in Nat
  /\ prompt_events'[e] = [session |-> c.session, scope |-> c.scope, at |-> c.at]
  /\ runtime_sessions'[c.session] = [scope |-> c.scope, last |-> e, at |-> c.at]
  /\ \A x \in Event \ {e} : \/ prompt_events'[x] = prompt_events[x]
                            \/ prompt_events'[x] = NoRow /\ ~InWindow(prompt_events[x], c.at)
  /\ \A s \in Session : proposal_tokens[s] = NoRow => proposal_tokens'[s] = NoRow
  /\ \A s \in Session : proposal_tokens[s] # NoRow =>
       \/ /\ proposal_tokens'[s] = proposal_tokens[s]
          /\ prompt_events'[proposal_tokens[s].source] # NoRow
       \/ proposal_tokens'[s] = NoRow /\ proposal_tokens[s].expires <= c.at
  /\ \A s \in Session \ {c.session} : runtime_sessions'[s] # NoRow =>
       /\ runtime_sessions'[s] = runtime_sessions[s]
       /\ prompt_events'[runtime_sessions[s].last] = prompt_events[runtime_sessions[s].last]
  /\ \A x \in Event : approval_consumptions'[x] # NoRow =>
       /\ approval_consumptions'[x] = approval_consumptions[x]
       /\ prompt_events'[x] # NoRow

LEMMA CaptureFacts ==
  ASSUME Inv, NEW p \in Proc, NEW e \in Event, CapturePrompt(p, e)
  PROVE  call[p] \in Capturing /\ CaptureEffect(call[p], e)
  <1> DEFINE c == call[p]
             events == [prompt_events EXCEPT ![e] =
                          [session |-> c.session, scope |-> c.scope, at |-> c.at]]
             sessions == [runtime_sessions EXCEPT ![c.session] =
                            [scope |-> c.scope, last |-> e, at |-> c.at]]
  <1>1. /\ c \in Capturing /\ c.session \in Session /\ c.scope \in Scope /\ c.at \in Nat
        /\ e \notin captured /\ prompt_events[e] = NoRow
    BY DEF CapturePrompt, CallsFit, ProposalFits, Capturing, RowsRefer
  <1>2. /\ events \in [Event -> EventRow \union {NoRow}]
        /\ events[e] = [session |-> c.session, scope |-> c.scope, at |-> c.at]
        /\ events[e] \in EventRow
        /\ \A x \in Event \ {e} : events[x] = prompt_events[x]
    BY <1>1 DEF TypeOK, EventRow
  <1>3. /\ sessions \in [Session -> SessionRow \union {NoRow}]
        /\ sessions[c.session] = [scope |-> c.scope, last |-> e, at |-> c.at]
        /\ sessions[c.session] \in SessionRow
        /\ \A s \in Session \ {c.session} : sessions[s] = runtime_sessions[s]
    BY <1>1 DEF TypeOK, SessionRow
  <1>4. \A s \in Session \ {c.session} : runtime_sessions[s] # NoRow =>
          /\ runtime_sessions[s] \in SessionRow
          /\ runtime_sessions[s].last \in Event \ {e}
          /\ prompt_events[runtime_sessions[s].last] # NoRow
          /\ prompt_events[runtime_sessions[s].last].at = runtime_sessions[s].at
    <2> SUFFICES ASSUME NEW s \in Session, runtime_sessions[s] # NoRow
                 PROVE  LET row == runtime_sessions[s] IN
                        /\ row \in SessionRow
                        /\ row.last \in Event \ {e}
                        /\ prompt_events[row.last] # NoRow
                        /\ prompt_events[row.last].at = row.at
      OBVIOUS
    <2>1. /\ runtime_sessions[s] \in SessionRow
          /\ runtime_sessions[s].scope \in Scope /\ runtime_sessions[s].at \in Nat
      BY DEF TypeOK, SessionRow
    <2>2. /\ runtime_sessions[s].last \in Event
          /\ prompt_events[runtime_sessions[s].last] =
               [session |-> s, scope |-> runtime_sessions[s].scope,
                at |-> runtime_sessions[s].at]
      BY DEF CurrentPromptKept
    <2>3. prompt_events[runtime_sessions[s].last] \in EventRow
      BY <2>1, <2>2 DEF EventRow
    <2> QED
      BY <1>1, <2>1, <2>2, <2>3
  <1>5. \A s \in Session : proposal_tokens[s] # NoRow =>
          /\ proposal_tokens[s] \in TokenRow
          /\ proposal_tokens[s].source \in Event \ {e}
          /\ prompt_events[proposal_tokens[s].source] # NoRow
    <2> SUFFICES ASSUME NEW s \in Session, proposal_tokens[s] # NoRow
                 PROVE  /\ proposal_tokens[s] \in TokenRow
                        /\ proposal_tokens[s].source \in Event \ {e}
                        /\ prompt_events[proposal_tokens[s].source] # NoRow
      OBVIOUS
    <2>1. proposal_tokens[s] \in TokenRow /\ proposal_tokens[s].source \in Event
      BY DEF TypeOK, TokenRow
    <2>2. prompt_events[proposal_tokens[s].source] # NoRow
      BY DEF RowsRefer
    <2> QED
      BY <1>1, <2>1, <2>2
  <1>6. approval_consumptions[e] = NoRow
    BY <1>1 DEF RowsRefer
  <1>7. CASE KeepAll(events, sessions)
    <2>1. \A x \in Event : approval_consumptions[x] # NoRow => events[x] # NoRow
      BY <1>1, <1>2, <1>6 DEF RowsRefer
    <2> HIDE DEF c, events, sessions
    <2> QED
      BY <1>1, <1>2, <1>3, <1>4, <1>5, <1>6, <1>7, <2>1
      DEF KeepAll, CaptureEffect, TypeOK, c
  <1>8. CASE Prune(events, sessions, c.at)
    <2> HIDE DEF events, sessions
    <2> DEFINE tokens == [s \in Session |-> IF /\ proposal_tokens[s] # NoRow
                                               /\ proposal_tokens[s].expires > c.at
                                            THEN proposal_tokens[s] ELSE NoRow]
               kept == {x \in Event : /\ events[x] # NoRow
                                      /\ InWindow(events[x], c.at) \/ Pinned(tokens, x)}
    <2>1. e \in kept
      BY <1>1, <1>2, RetentionAssumption DEF InWindow
    <2>2. \A s \in Session : tokens[s] # NoRow =>
            tokens[s] = proposal_tokens[s] /\ tokens[s].source \in kept
      BY <1>2, <1>5 DEF Pinned
    <2>3. \A s \in Session : proposal_tokens[s] # NoRow /\ tokens[s] = NoRow =>
            proposal_tokens[s].expires <= c.at
      BY <1>1, <1>5 DEF TokenRow
    <2>4. \A s \in Session \ {c.session} :
            runtime_sessions[s] # NoRow /\ SessionLives(runtime_sessions[s], c.at) =>
              runtime_sessions[s].last \in kept
      <3> SUFFICES ASSUME NEW s \in Session \ {c.session}, runtime_sessions[s] # NoRow,
                          SessionLives(runtime_sessions[s], c.at)
                   PROVE  runtime_sessions[s].last \in kept
        OBVIOUS
      <3>1. runtime_sessions[s].at \in Nat /\ runtime_sessions[s].last \in Event \ {e}
        BY <1>4 DEF SessionRow
      <3>2. /\ events[runtime_sessions[s].last] # NoRow
            /\ events[runtime_sessions[s].last].at = runtime_sessions[s].at
        BY <1>2, <1>4, <3>1
      <3>3. InWindow(events[runtime_sessions[s].last], c.at)
        BY <1>1, <3>1, <3>2, RetentionAssumption DEF InWindow, SessionLives
      <3> QED
        BY <3>1, <3>2, <3>3
    <2>5. SessionLives(sessions[c.session], c.at)
      BY <1>1, <1>3, RetentionAssumption DEF SessionLives
    <2>6. /\ proposal_tokens' = [s \in Session |-> IF /\ tokens[s] # NoRow
                                                      /\ tokens[s].source \in kept
                                                   THEN tokens[s] ELSE NoRow]
          /\ runtime_sessions' = [s \in Session |->
               IF sessions[s] = NoRow \/ ~SessionLives(sessions[s], c.at) THEN NoRow
               ELSE IF sessions[s].last \in kept THEN sessions[s]
               ELSE [sessions[s] EXCEPT !.last = NoRow]]
          /\ prompt_events' = [x \in Event |-> IF x \in kept THEN events[x] ELSE NoRow]
          /\ approval_consumptions' =
               [x \in Event |-> IF x \in kept THEN approval_consumptions[x] ELSE NoRow]
          /\ last_pruned' = c.at
      BY <1>8 DEF Prune
    <2>7. \A x \in Event \ {e} : x \notin kept => prompt_events[x] = NoRow
                                               \/ ~InWindow(prompt_events[x], c.at)
      BY <1>2
    <2>8. \A x \in kept : events[x] # NoRow
      OBVIOUS
    <2>9. \A s \in Session \ {c.session} : runtime_sessions'[s] # NoRow =>
            runtime_sessions'[s] = runtime_sessions[s] /\ runtime_sessions[s].last \in kept
      BY <1>3, <2>4, <2>6
    <2>10. runtime_sessions'[c.session] = sessions[c.session]
      BY <1>1, <1>3, <2>1, <2>5, <2>6
    <2>11. runtime_sessions' \in [Session -> SessionRow \union {NoRow}]
      <3>1. \A s \in Session : runtime_sessions'[s] \in SessionRow \union {NoRow}
        BY <1>3, <1>4, <2>9, <2>10
      <3> QED
        BY <2>6, <3>1
    <2>12. proposal_tokens' = tokens
      BY <2>2, <2>6
    <2>13. tokens \in [Session -> TokenRow \union {NoRow}]
      BY DEF TypeOK
    <2>14. /\ prompt_events' \in [Event -> EventRow \union {NoRow}]
           /\ approval_consumptions' \in [Event -> Uses \union {NoRow}]
      BY <1>2, <2>6 DEF TypeOK
    <2>15. \A x \in Event : x \in kept => prompt_events'[x] = events[x]
      BY <2>6
    <2>16. \A x \in Event : approval_consumptions'[x] # NoRow =>
             approval_consumptions'[x] = approval_consumptions[x] /\ prompt_events'[x] # NoRow
      BY <2>6, <2>8
    <2>17. \A s \in Session : proposal_tokens[s] = NoRow => tokens[s] = NoRow
      OBVIOUS
    <2>18. \A x \in Event \ {e} : \/ prompt_events'[x] = prompt_events[x]
                                 \/ /\ prompt_events'[x] = NoRow
                                    /\ ~InWindow(prompt_events[x], c.at)
      BY <1>2, <2>6, <2>7
    <2>19. \A s \in Session : proposal_tokens[s] # NoRow =>
             \/ /\ tokens[s] = proposal_tokens[s]
                /\ prompt_events'[proposal_tokens[s].source] # NoRow
             \/ tokens[s] = NoRow /\ proposal_tokens[s].expires <= c.at
      BY <1>5, <2>2, <2>3, <2>8, <2>15
    <2>20. \A s \in Session \ {c.session} : runtime_sessions'[s] # NoRow =>
             prompt_events'[runtime_sessions[s].last] = prompt_events[runtime_sessions[s].last]
      BY <1>2, <1>4, <2>9, <2>15
    <2>21. prompt_events'[e] = events[e] /\ last_pruned' \in Nat
      BY <1>1, <2>1, <2>6, <2>15
    <2> HIDE DEF tokens, kept
    <2> QED
      BY <1>1, <1>2, <1>3, <2>9, <2>10, <2>11, <2>12, <2>13, <2>14, <2>16, <2>17, <2>18,
         <2>19, <2>20, <2>21
      DEF CaptureEffect, c
  <1> QED
    BY <1>1, <1>7, <1>8 DEF CapturePrompt, SeenAt

LEMMA CapturePromptKeeps ==
  ASSUME Inv, NEW p \in Proc, NEW e \in Event, CapturePrompt(p, e)
  PROVE  Inv'
  <1> DEFINE c == call[p]
  <1>1. /\ c \in Capturing /\ c.session \in Session /\ c.scope \in Scope /\ c.at \in Nat
        /\ CaptureEffect(c, e)
    BY CaptureFacts DEF Capturing
  <1>2. /\ e \notin captured /\ captured' = captured \union {e}
        /\ UNCHANGED <<clock, minted, docs, settled, lock>>
        /\ pc'[p] = "idle"
        /\ \A r \in Proc \ {p} : pc'[r] = pc[r] /\ call'[r] = call[r]
        /\ pc[p] = "capture" /\ c.at <= clock
    BY DEF CapturePrompt, TypeOK, StampsPast
  <1> HIDE DEF c
  <1>3. TypeOK'
    BY <1>1, <1>2 DEF TypeOK, CapturePrompt, CaptureEffect
  <1>4. CurrentPromptKept'
    <2> SUFFICES ASSUME NEW s \in Session, runtime_sessions'[s] # NoRow
                 PROVE  LET row == runtime_sessions'[s] IN
                        /\ row.last \in Event
                        /\ prompt_events'[row.last] =
                             [session |-> s, scope |-> row.scope, at |-> row.at]
      BY DEF CurrentPromptKept
    <2>1. CASE s = c.session
      BY <1>1, <2>1 DEF CaptureEffect
    <2>2. CASE s # c.session
      BY <1>1, <2>2 DEF CaptureEffect, CurrentPromptKept
    <2> QED
      BY <2>1, <2>2
  <1>5. StampsPast'
    BY <1>1, <1>2 DEF StampsPast, CaptureEffect
  <1>6. RowsRefer'
    <2>1. \A x \in Event : prompt_events'[x] # NoRow => x \in captured'
      BY <1>1, <1>2 DEF RowsRefer, CaptureEffect
    <2>2. \A x \in Event : approval_consumptions'[x] # NoRow => prompt_events'[x] # NoRow
      BY <1>1 DEF CaptureEffect
    <2>3. ASSUME NEW s \in Session, proposal_tokens'[s] # NoRow
          PROVE  LET source == prompt_events'[proposal_tokens'[s].source] IN
                 /\ source # NoRow
                 /\ source.session = s
                 /\ source.scope = proposal_tokens'[s].scope
                 /\ proposal_tokens'[s].id \in minted'
      <3>1. /\ proposal_tokens[s] \in TokenRow /\ proposal_tokens'[s] = proposal_tokens[s]
            /\ prompt_events'[proposal_tokens[s].source] # NoRow
        BY <1>1, <2>3 DEF CaptureEffect, TypeOK
      <3>2. /\ proposal_tokens[s].source \in captured
            /\ proposal_tokens[s].source \in Event \ {e}
        BY <1>2, <3>1 DEF RowsRefer, TokenRow
      <3>3. prompt_events'[proposal_tokens[s].source] = prompt_events[proposal_tokens[s].source]
        BY <1>1, <3>1, <3>2 DEF CaptureEffect
      <3>4. LET source == prompt_events[proposal_tokens[s].source] IN
            /\ source # NoRow
            /\ source.session = s
            /\ source.scope = proposal_tokens[s].scope
            /\ proposal_tokens[s].id \in minted
        BY <3>1 DEF RowsRefer
      <3> QED
        BY <1>2, <3>1, <3>3, <3>4
    <2>4. ASSUME NEW s \in Session, proposal_tokens'[s] # NoRow, NEW r \in Session,
                 proposal_tokens'[r] # NoRow, proposal_tokens'[r].id = proposal_tokens'[s].id
          PROVE  r = s
      <3>1. /\ proposal_tokens[s] # NoRow /\ proposal_tokens'[s] = proposal_tokens[s]
            /\ proposal_tokens[r] # NoRow /\ proposal_tokens'[r] = proposal_tokens[r]
        BY <1>1, <2>4 DEF CaptureEffect
      <3> QED
        BY <2>4, <3>1 DEF RowsRefer, IsRead
    <2> QED
      BY <2>1, <2>2, <2>3, <2>4 DEF RowsRefer, IsRead
  <1>7. CallsFit'
    <2> SUFFICES ASSUME NEW r \in Proc
                 PROVE  /\ ProposalFits(pc[r], call[r])'
                        /\ ApprovalFits(pc[r], call[r])'
                        /\ FileFits(r, pc[r], call[r])'
      BY DEF CallsFit
    <2>1. FileFits(r, pc[r], call[r])'
      BY <1>2 DEF CallsFit, FileFits, AsProposed
    <2>2. CASE r = p
      BY <1>2, <2>1, <2>2 DEF ProposalFits, ApprovalFits
    <2>3. CASE r # p
      <3>1. pc'[r] = pc[r] /\ call'[r] = call[r]
        BY <1>2, <2>3
      <3>2. ProposalFits(pc[r], call[r])'
        <4>1. pc[r] = "insert" => /\ call[r].ev \in captured /\ call[r].ev \in Event \ {e}
          BY <1>2 DEF CallsFit, ProposalFits, Proposing
        <4> QED
          BY <1>1, <1>2, <3>1, <4>1 DEF CallsFit, ProposalFits, CaptureEffect
      <3>3. ApprovalFits(pc[r], call[r])'
        <4>1. ASSUME TokenFits(call[r]), call[r].ev \in captured, call[r].ev \in Event
              PROVE  TokenFits(call[r])'
          <5>1. prompt_events'[call[r].ev] \in {prompt_events[call[r].ev], NoRow}
            BY <1>1, <1>2, <4>1 DEF CaptureEffect
          <5>2. \A s \in Session : proposal_tokens'[s] # NoRow =>
                  proposal_tokens[s] # NoRow /\ proposal_tokens'[s] = proposal_tokens[s]
            BY <1>1 DEF CaptureEffect
          <5> QED
            BY <1>2, <3>1, <4>1, <5>1, <5>2 DEF TokenFits, IsRead
        <4>2. pc[r] \in Answering => call[r].ev \in captured /\ call[r].ev \in Event
          BY DEF CallsFit, ApprovalFits, Approvals
        <4> QED
          BY <1>2, <3>1, <4>1, <4>2 DEF CallsFit, ApprovalFits
      <3> QED
        BY <2>1, <3>2, <3>3
    <2> QED
      BY <2>2, <2>3
  <1>8. FailedCommitUndone'
    BY <1>2 DEF FailedCommitUndone
  <1> QED
    BY <1>3, <1>4, <1>5, <1>6, <1>7, <1>8

-----------------------------------------------------------------------------
(* The transactions that insert and use a token, and the files.            *)

LEMMA InsertTokenKeeps ==
  ASSUME Inv, NEW p \in Proc, NEW id \in Token, InsertToken(p, id)
  PROVE  Inv'
  <1> DEFINE c == call[p]
             row == [id |-> id, source |-> c.ev, scope |-> c.scope, target |-> c.target,
                     edit |-> c.edit, before |-> c.before, expires |-> c.at + ProposalTTL]
  <1>1. /\ c \in Proposing /\ c.session \in Session /\ c.ev \in captured
        /\ prompt_events[c.ev] # NoRow /\ prompt_events[c.ev].session = c.session
        /\ prompt_events[c.ev].scope = c.scope
    BY DEF InsertToken, Insertable, CallsFit, ProposalFits
  <1>2. row \in TokenRow
    BY <1>1, RetentionAssumption DEF Proposing, TokenRow
  <1>3. /\ id \notin minted /\ minted' = minted \union {id}
        /\ UNCHANGED <<clock, prompt_events, runtime_sessions, approval_consumptions,
                       last_pruned, captured, docs, settled, lock>>
        /\ proposal_tokens' = [proposal_tokens EXCEPT ![c.session] = row]
        /\ pc'[p] = "idle"
        /\ \A r \in Proc \ {p} : pc'[r] = pc[r] /\ call'[r] = call[r]
        /\ row.id = id /\ row.source = c.ev /\ row.scope = c.scope
    BY DEF InsertToken, TypeOK
  <1>4. TypeOK'
    BY <1>1, <1>2, <1>3 DEF InsertToken, TypeOK
  <1> HIDE DEF c, row
  <1>5. /\ proposal_tokens'[c.session] = row
        /\ \A s \in Session \ {c.session} : proposal_tokens'[s] = proposal_tokens[s]
    BY <1>1, <1>3 DEF TypeOK
  <1>6. CurrentPromptKept' /\ FailedCommitUndone'
    BY <1>3 DEF CurrentPromptKept, FailedCommitUndone
  <1>7. StampsPast'
    BY <1>3 DEF StampsPast
  <1>8. RowsRefer'
    <2>1. ASSUME NEW s \in Session, proposal_tokens'[s] # NoRow
          PROVE  LET source == prompt_events'[proposal_tokens'[s].source] IN
                 /\ source # NoRow
                 /\ source.session = s
                 /\ source.scope = proposal_tokens'[s].scope
                 /\ proposal_tokens'[s].id \in minted'
      <3>1. CASE s = c.session
        BY <1>1, <1>3, <1>5, <3>1
      <3>2. CASE s # c.session
        <4>1. proposal_tokens'[s] = proposal_tokens[s] /\ proposal_tokens[s] # NoRow
          BY <1>5, <2>1, <3>2
        <4>2. LET source == prompt_events[proposal_tokens[s].source] IN
              /\ source # NoRow
              /\ source.session = s
              /\ source.scope = proposal_tokens[s].scope
              /\ proposal_tokens[s].id \in minted
          BY <4>1 DEF RowsRefer
        <4> QED
          BY <1>3, <4>1, <4>2
      <3> QED
        BY <3>1, <3>2
    <2>2. ASSUME NEW s \in Session, proposal_tokens'[s] # NoRow, NEW r \in Session,
                 proposal_tokens'[r] # NoRow, proposal_tokens'[r].id = proposal_tokens'[s].id
          PROVE  r = s
      <3>1. \A x \in Session : proposal_tokens[x] # NoRow => proposal_tokens[x].id # id
        BY <1>3 DEF RowsRefer
      <3>2. ASSUME NEW x \in Session, NEW y \in Session,
                   proposal_tokens[x] # NoRow, proposal_tokens[y] # NoRow,
                   proposal_tokens[y].id = proposal_tokens[x].id
            PROVE  y = x
        <4>1. IsRead([token |-> proposal_tokens[x]], y)
          BY <3>2 DEF IsRead
        <4> QED
          BY <3>2, <4>1 DEF RowsRefer
      <3> QED
        BY <1>3, <1>5, <2>2, <3>1, <3>2
    <2> QED
      BY <1>3, <2>1, <2>2 DEF RowsRefer, IsRead
  <1>9. CallsFit'
    <2> SUFFICES ASSUME NEW r \in Proc
                 PROVE  /\ ProposalFits(pc[r], call[r])'
                        /\ ApprovalFits(pc[r], call[r])'
                        /\ FileFits(r, pc[r], call[r])'
      BY DEF CallsFit
    <2>1. CASE r = p
      BY <1>3, <2>1 DEF ProposalFits, ApprovalFits, CallsFit, FileFits, InsertToken
    <2>2. CASE r # p
      <3>1. pc'[r] = pc[r] /\ call'[r] = call[r]
        BY <1>3, <2>2
      <3>2. ProposalFits(pc[r], call[r])' /\ FileFits(r, pc[r], call[r])'
        BY <1>3, <3>1 DEF CallsFit, ProposalFits, FileFits, AsProposed
      <3>3. TokenFits(call[r]) => TokenFits(call[r])'
        BY <1>3, <1>5, <3>1 DEF TokenFits, IsRead
      <3>4. ApprovalFits(pc[r], call[r])'
        BY <1>3, <3>1, <3>3 DEF CallsFit, ApprovalFits
      <3> QED
        BY <3>2, <3>4
    <2> QED
      BY <2>1, <2>2
  <1> QED
    BY <1>4, <1>6, <1>7, <1>8, <1>9

LEMMA WriteTargetKeeps ==
  ASSUME Inv, NEW p \in Proc, WriteTarget(p)
  PROVE  Inv'
  <1> DEFINE c == call[p]
  <1>1. /\ c \in Approvals /\ c.op # "discard" /\ c.target \in Target /\ c.edit \in Edits
        /\ c.ev \in captured
        /\ c.before \in DOMAIN c.edit
        /\ c.op = "confirm" => AsProposed(c, c.before)
        /\ c.op # "deploy" => TokenFits(c)
    BY DEF WriteTarget, CallsFit, ApprovalFits, FileFits
  <1>2. /\ pc[p] = "write" /\ lock[c.target] = NoProc /\ docs[c.target] = c.before
        /\ UNCHANGED <<clock, tables, ids, settled>>
        /\ lock'[c.target] = p /\ docs'[c.target] = c.edit[c.before]
        /\ \A t \in Target \ {c.target} : lock'[t] = lock[t] /\ docs'[t] = docs[t]
        /\ pc'[p] = "commit" /\ call'[p] = c
        /\ \A r \in Proc \ {p} : pc'[r] = pc[r] /\ call'[r] = call[r]
    BY <1>1 DEF WriteTarget, TypeOK
  <1>3. TypeOK'
    BY <1>1, EditsAssumption DEF WriteTarget, TypeOK
  <1> HIDE DEF c
  <1>4. CurrentPromptKept' /\ RowsRefer'
    BY <1>2 DEF CurrentPromptKept, RowsRefer, IsRead
  <1>5. StampsPast'
    BY <1>2 DEF StampsPast
  <1>6. settled[c.target] = c.before
    BY <1>1, <1>2 DEF FailedCommitUndone
  <1>7. FailedCommitUndone'
    BY <1>2 DEF FailedCommitUndone
  <1>8. CallsFit'
    <2> SUFFICES ASSUME NEW r \in Proc
                 PROVE  /\ ProposalFits(pc[r], call[r])'
                        /\ ApprovalFits(pc[r], call[r])'
                        /\ FileFits(r, pc[r], call[r])'
      BY DEF CallsFit
    <2>1. CASE r = p
      <3>1. ProposalFits(pc[r], call[r])'
        BY <1>2, <2>1 DEF ProposalFits
      <3>2. c.op # "deploy" => TokenFits(c)'
        BY <1>1, <1>2 DEF TokenFits, IsRead, c
      <3>3. ApprovalFits(pc[r], call[r])'
        BY <1>1, <1>2, <2>1, <3>2 DEF ApprovalFits, TokenFits, IsRead
      <3>4. FileFits(r, pc[r], call[r])'
        <4>1. \A t \in Target : lock[t] # p
          BY <1>2 DEF CallsFit, FileFits
        <4> QED
          BY <1>1, <1>2, <1>6, <2>1, <4>1 DEF FileFits, AsProposed
      <3> QED
        BY <3>1, <3>3, <3>4
    <2>2. CASE r # p
      <3>1. pc'[r] = pc[r] /\ call'[r] = call[r]
        BY <1>2, <2>2
      <3>2. ProposalFits(pc[r], call[r])' /\ ApprovalFits(pc[r], call[r])'
        BY <1>2, <3>1 DEF CallsFit, ProposalFits, ApprovalFits, TokenFits, IsRead
      <3>3. FileFits(r, pc[r], call[r])'
        <4>1. /\ FileFits(r, pc[r], call[r])
              /\ pc[r] = "commit" /\ call[r].op # "discard" => call[r].target \in Target
          BY DEF CallsFit, ApprovalFits
        <4> QED
          BY <1>1, <1>2, <2>2, <3>1, <4>1 DEF FileFits, AsProposed
      <3> QED
        BY <3>2, <3>3
    <2> QED
      BY <2>1, <2>2
  <1> QED
    BY <1>3, <1>4, <1>5, <1>7, <1>8

\* Two callers never stand before the commit of one file.
LEMMA CommitsApart ==
  ASSUME Inv, NEW p \in Proc, NEW r \in Proc, r # p,
         pc[p] = "commit", call[p].op # "discard", pc[r] = "commit", call[r].op # "discard"
  PROVE  call[r].target # call[p].target
  BY DEF CallsFit, FileFits

\* The end of a call that has reached its commit: its locks are gone, and a
\* file it held is left as what is settled.
LEMMA CallsFitAfterCommit ==
  ASSUME Inv, NEW p \in Proc, pc[p] = "commit", Leave(p), lock' = Unlocked(p),
         UNCHANGED <<clock, prompt_events, ids>>,
         \A s \in Session : proposal_tokens'[s] \in {proposal_tokens[s], NoRow},
         \A t \in Target : \/ docs'[t] = docs[t] /\ settled'[t] = settled[t]
                           \/ call[p].op # "discard" /\ call[p].target = t
  PROVE  CallsFit'
  <1> SUFFICES ASSUME NEW r \in Proc
               PROVE  /\ ProposalFits(pc[r], call[r])'
                      /\ ApprovalFits(pc[r], call[r])'
                      /\ FileFits(r, pc[r], call[r])'
    BY DEF CallsFit
  <1>1. CASE r = p
    <2>1. pc'[r] = "idle" /\ \A t \in Target : lock'[t] # r
      BY <1>1 DEF TypeOK, Unlocked
    <2> QED
      BY <2>1 DEF ProposalFits, ApprovalFits, FileFits
  <1>2. CASE r # p
    <2>1. /\ pc'[r] = pc[r] /\ call'[r] = call[r]
          /\ \A t \in Target : lock[t] = r <=> lock'[t] = r
      BY <1>2 DEF TypeOK, Unlocked
    <2>2. ProposalFits(pc[r], call[r])'
      BY <2>1 DEF CallsFit, ProposalFits
    <2>3. TokenFits(call[r]) => TokenFits(call[r])'
      BY <2>1 DEF TokenFits, IsRead
    <2>4. ApprovalFits(pc[r], call[r])'
      BY <2>1, <2>3 DEF CallsFit, ApprovalFits
    <2>5. /\ FileFits(r, pc[r], call[r])
          /\ pc[r] = "commit" /\ call[r].op # "discard" =>
               /\ call[r].target \in Target
               /\ docs'[call[r].target] = docs[call[r].target]
               /\ settled'[call[r].target] = settled[call[r].target]
      BY <1>2, CommitsApart DEF CallsFit, ApprovalFits
    <2>6. FileFits(r, pc[r], call[r])'
      BY <2>1, <2>5 DEF FileFits, AsProposed
    <2> QED
      BY <2>2, <2>4, <2>6
  <1> QED
    BY <1>1, <1>2

\* What a call holds when it commits.
LEMMA CommitFacts ==
  ASSUME Inv, NEW p \in Proc, pc[p] = "commit"
  PROVE  /\ call[p] \in Approvals /\ call[p].ev \in Event /\ call[p].scope \in Scope
         /\ call[p].op # "deploy" => TokenFits(call[p])
         /\ call[p].op # "discard" =>
              /\ call[p].target \in Target /\ call[p].edit \in Edits
              /\ call[p].before \in DOMAIN call[p].edit
              /\ call[p].before \in Bytes
              /\ lock[call[p].target] = p
              /\ settled[call[p].target] = call[p].before
              /\ docs[call[p].target] = call[p].edit[call[p].before]
         /\ call[p].op = "confirm" => AsProposed(call[p], call[p].before)
         /\ \A t \in Target : lock[t] = p => call[p].op # "discard" /\ call[p].target = t
  BY EditsAssumption DEF CallsFit, ApprovalFits, FileFits, Approvals

LEMMA CommitApprovalKeeps ==
  ASSUME Inv, NEW p \in Proc, CommitApproval(p)
  PROVE  Inv'
  <1> DEFINE c == call[p]
  <1>1. /\ c.ev \in Event /\ c.op \in Uses
        /\ c.op # "discard" => c.target \in Target
        /\ \A t \in Target : lock[t] = p => c.op # "discard" /\ c.target = t
        /\ pc[p] = "commit"
    BY CommitFacts DEF CommitApproval, Approvals
  <1>2. /\ UNCHANGED <<clock, prompt_events, runtime_sessions, last_pruned, ids, docs>>
        /\ approval_consumptions' = [approval_consumptions EXCEPT ![c.ev] = c.op]
        /\ settled' = IF c.op = "discard" THEN settled
                      ELSE [settled EXCEPT ![c.target] = docs[c.target]]
        /\ \A s \in Session : proposal_tokens'[s] \in {proposal_tokens[s], NoRow}
        /\ lock' = Unlocked(p) /\ Leave(p)
        /\ prompt_events[c.ev] # NoRow
    BY DEF CommitApproval, DeleteProposal, MayConsume, Usable, Current
  <1>3. TypeOK'
    <2>1. settled' \in [Target -> Bytes]
      BY <1>1, <1>2 DEF TypeOK
    <2>2. lock' \in [Target -> Proc \union {NoProc}]
      BY <1>2 DEF TypeOK, Unlocked
    <2>3. proposal_tokens' \in [Session -> TokenRow \union {NoRow}]
      BY DEF TypeOK, CommitApproval, DeleteProposal
    <2>4. approval_consumptions' \in [Event -> Uses \union {NoRow}]
      BY <1>1, <1>2 DEF TypeOK
    <2>5. pc' \in [Proc -> Steps] /\ call' \in [Proc -> Calls \union {NoCall}]
      BY <1>2 DEF TypeOK
    <2> QED
      BY <1>2, <2>1, <2>2, <2>3, <2>4, <2>5 DEF TypeOK
  <1>4. pc'[p] = "idle" /\ \A r \in Proc \ {p} : pc'[r] = pc[r] /\ call'[r] = call[r]
    BY <1>2 DEF TypeOK
  <1>5. CurrentPromptKept'
    BY <1>2 DEF CurrentPromptKept
  <1>6. StampsPast'
    BY <1>2, <1>4 DEF StampsPast
  <1>7. RowsRefer'
    <2>1. \A x \in Event : approval_consumptions'[x] # NoRow => prompt_events'[x] # NoRow
      BY <1>1, <1>2 DEF RowsRefer, TypeOK
    <2>2. \A s \in Session : proposal_tokens'[s] # NoRow =>
            proposal_tokens[s] # NoRow /\ proposal_tokens'[s] = proposal_tokens[s]
      BY <1>2
    <2> HIDE DEF c
    <2> QED
      BY <1>2, <2>1, <2>2 DEF RowsRefer, IsRead
  <1>8. FailedCommitUndone'
    <2> SUFFICES ASSUME NEW t \in Target, lock'[t] = NoProc
                 PROVE  docs'[t] = settled'[t]
      BY DEF FailedCommitUndone
    <2>1. lock[t] = NoProc \/ lock[t] = p
      BY <1>2 DEF Unlocked
    <2> QED
      BY <1>1, <1>2, <2>1 DEF FailedCommitUndone, TypeOK
  <1>9. CallsFit'
    <2>1. \A t \in Target : \/ docs'[t] = docs[t] /\ settled'[t] = settled[t]
                            \/ c.op # "discard" /\ c.target = t
      BY <1>1, <1>2 DEF TypeOK
    <2> QED
      BY <1>1, <1>2, <2>1, CallsFitAfterCommit
  <1> QED
    BY <1>3, <1>5, <1>6, <1>7, <1>8, <1>9

LEMMA FailCommitKeeps ==
  ASSUME Inv, NEW p \in Proc, FailCommit(p)
  PROVE  Inv'
  <1> DEFINE c == call[p]
  <1>1. /\ c.op # "discard" => c.target \in Target /\ c.before \in Bytes
                               /\ settled[c.target] = c.before
        /\ \A t \in Target : lock[t] = p => c.op # "discard" /\ c.target = t
        /\ pc[p] = "commit"
    BY CommitFacts DEF FailCommit
  <1>2. /\ UNCHANGED <<clock, tables, ids, settled>>
        /\ docs' = IF c.op = "discard" THEN docs ELSE [docs EXCEPT ![c.target] = c.before]
        /\ lock' = Unlocked(p) /\ Leave(p)
    BY DEF FailCommit, PutBack
  <1>3. TypeOK'
    <2>1. docs' \in [Target -> Bytes]
      BY <1>1, <1>2 DEF TypeOK
    <2>2. lock' \in [Target -> Proc \union {NoProc}]
      BY <1>2 DEF TypeOK, Unlocked
    <2>3. pc' \in [Proc -> Steps] /\ call' \in [Proc -> Calls \union {NoCall}]
      BY <1>2 DEF TypeOK
    <2> QED
      BY <1>2, <2>1, <2>2, <2>3 DEF TypeOK
  <1>4. pc'[p] = "idle" /\ \A r \in Proc \ {p} : pc'[r] = pc[r] /\ call'[r] = call[r]
    BY <1>2 DEF TypeOK
  <1>5. CurrentPromptKept' /\ RowsRefer'
    BY <1>2 DEF CurrentPromptKept, RowsRefer, IsRead
  <1>6. StampsPast'
    BY <1>2, <1>4 DEF StampsPast
  <1>7. FailedCommitUndone'
    <2> SUFFICES ASSUME NEW t \in Target, lock'[t] = NoProc
                 PROVE  docs'[t] = settled'[t]
      BY DEF FailedCommitUndone
    <2>1. lock[t] = NoProc \/ lock[t] = p
      BY <1>2 DEF Unlocked
    <2> QED
      BY <1>1, <1>2, <2>1 DEF FailedCommitUndone, TypeOK
  <1>8. CallsFit'
    <2>1. \A t \in Target : \/ docs'[t] = docs[t] /\ settled'[t] = settled[t]
                            \/ c.op # "discard" /\ c.target = t
      BY <1>1, <1>2 DEF TypeOK
    <2> QED
      BY <1>1, <1>2, <2>1, CallsFitAfterCommit
  <1> QED
    BY <1>3, <1>5, <1>6, <1>7, <1>8

LEMMA TickKeeps == Inv /\ Tick => Inv'
  <1> SUFFICES ASSUME Inv, Tick PROVE Inv'
    OBVIOUS
  <1>1. clock' \in Nat /\ clock <= clock' /\ UNCHANGED <<tables, ids, world, pc, call>>
    BY DEF Tick, TypeOK
  <1>2. TypeOK'
    BY <1>1 DEF TypeOK
  <1>3. CurrentPromptKept' /\ RowsRefer' /\ FailedCommitUndone'
    BY <1>1 DEF CurrentPromptKept, RowsRefer, IsRead, FailedCommitUndone
  <1>4. StampsPast'
    <2>1. \A e \in Event : prompt_events[e] # NoRow => prompt_events[e].at \in Nat
      BY DEF TypeOK, EventRow
    <2>2. \A p \in Proc : pc[p] = "capture" => call[p].at \in Nat
      BY DEF CallsFit, ProposalFits, Capturing
    <2>3. \A n \in Nat : n <= clock => n <= clock'
      BY <1>1 DEF TypeOK
    <2> QED
      BY <1>1, <2>1, <2>2, <2>3 DEF StampsPast
  <1>5. CallsFit'
    BY <1>1 DEF CallsFit, ProposalFits, ApprovalFits, TokenFits, IsRead, FileFits, AsProposed
  <1> QED
    BY <1>2, <1>3, <1>4, <1>5

LEMMA StutterKeeps == Inv /\ UNCHANGED vars => Inv'
  BY DEF vars, TypeOK, CurrentPromptKept, StampsPast, RowsRefer, IsRead, CallsFit,
         ProposalFits, ApprovalFits, TokenFits, FileFits, AsProposed, FailedCommitUndone

LEMMA StepKeeps == Inv /\ [Next]_vars => Inv'
  <1> SUFFICES ASSUME Inv, Next PROVE Inv'
    BY StutterKeeps
  <1>1. CASE Tick
    BY <1>1, TickKeeps
  <1>2. ASSUME NEW p \in Proc, Hook(p) PROVE Inv'
    BY <1>2, SubmitKeeps, RefusalsKeep, CapturePromptKeeps DEF Hook
  <1>3. ASSUME NEW p \in Proc, CreateProposal(p) PROVE Inv'
    BY <1>3, ProposeKeeps, ResolveSourceKeeps, RefusalsKeep, InsertTokenKeeps
       DEF CreateProposal
  <1>4. ASSUME NEW p \in Proc, Mutate(p) PROVE Inv'
    <2>1. CASE \E e \in captured, sc \in Scope : Discard(p, e, sc)
      BY <2>1, DiscardKeeps
    <2>2. CASE \E e \in captured, sc \in Scope : \E ed \in Edits, t \in Targets[sc] :
                 Confirm(p, e, sc, t, ed) \/ Deploy(p, e, sc, t, ed)
      BY <2>2, ConfirmKeeps, DeployKeeps
    <2>3. CASE FindPending(p) \/ Validate(p) \/ PlanRevision(p)
      BY <2>3, FindPendingKeeps, ValidateKeeps, PlanRevisionKeeps
    <2>4. CASE WriteTarget(p) \/ GiveUp(p) \/ CommitApproval(p) \/ FailCommit(p)
      BY <2>4, WriteTargetKeeps, RefusalsKeep, CommitApprovalKeeps, FailCommitKeeps
    <2> QED
      BY <1>4, <2>1, <2>2, <2>3, <2>4 DEF Mutate
  <1> QED
    BY <1>1, <1>2, <1>3, <1>4 DEF Next

LEMMA Inductive == Spec => []Inv
  <1> USE DEF Spec
  <1> QED
    BY InitialInv, StepKeeps, PTL

-----------------------------------------------------------------------------
(* What follows for every value of the constants.                          *)

\* Rows, calls and files are of their types: no process acts on a value it
\* has not read (RuntimeLedger, RuleService).
THEOREM LedgerTypeCorrect == Spec => []TypeOK
  BY Inductive, PTL

\* The ledger's invariant: what each process knows, between two of its
\* reads, of the rows and files that others change meanwhile.
THEOREM LedgerHolds == Spec => []LedgerInvariant
  BY Inductive, PTL

\* No prune takes the prompt a session is at, however late the capture that
\* prunes, as long as sessions are kept no longer than prompts
\* (RuntimeLedger._prune).
THEOREM CurrentPromptSurvives == Spec => []CurrentPromptKept
  BY Inductive, PTL

\* A text whose commit failed is out of the file before the file is unlocked
\* (FileTransaction.apply).
THEOREM FailedTextUndone == Spec => []FailedCommitUndone
  BY Inductive, PTL

\* The steps that change a table, the clock or what is committed.
LEMMA StepKinds ==
  ASSUME Next
  PROVE  \/ Tick
         \/ \E p \in Proc, e \in Event : CapturePrompt(p, e)
         \/ \E p \in Proc, id \in Token : InsertToken(p, id)
         \/ \E p \in Proc : CommitApproval(p)
         \/ UNCHANGED <<clock, tables, ids, settled>>
  <1>1. ASSUME NEW p \in Proc, Hook(p)
        PROVE  (\E e \in Event : CapturePrompt(p, e)) \/ UNCHANGED <<clock, tables, ids, settled>>
    BY <1>1 DEF Hook, Submit, RejectCapture
  <1>2. ASSUME NEW p \in Proc, CreateProposal(p)
        PROVE  (\E id \in Token : InsertToken(p, id)) \/ UNCHANGED <<clock, tables, ids, settled>>
    BY <1>2 DEF CreateProposal, Propose, ResolveSource, RefuseToken
  <1>3. ASSUME NEW p \in Proc, Mutate(p)
        PROVE  CommitApproval(p) \/ UNCHANGED <<clock, tables, ids, settled>>
    BY <1>3 DEF Mutate, Discard, Confirm, Deploy, FindPending, Validate, PlanRevision,
                WriteTarget, GiveUp, FailCommit
  <1> QED
    BY <1>1, <1>2, <1>3 DEF Next

\* A pending proposal goes only by expiring, by a replacement asked for in
\* its session, or with an approval given in its session and scope
\* (RuntimeLedger._prune, create_proposal and delete_proposal).
THEOREM ProposalsStay == Spec => TokensLeave
  <1> USE DEF TokenGone
  <1>1. ASSUME Inv, Next, NEW s \in Session, TokenGone(s)
        PROVE  TokenLeaves(s)
    <2>1. ASSUME NEW p \in Proc, NEW e \in Event, CapturePrompt(p, e)
          PROVE  TokenLeaves(s)
      <3>1. proposal_tokens[s].expires <= call[p].at
        BY <1>1, <2>1, CaptureFacts DEF CaptureEffect
      <3>2. call[p].at \in Nat /\ call[p].at <= clock
        BY <1>1, <2>1, CaptureFacts DEF Capturing, CapturePrompt, StampsPast
      <3>3. proposal_tokens[s].expires \in Nat /\ clock \in Nat
        BY <1>1 DEF TypeOK, TokenRow
      <3> QED
        BY <3>1, <3>2, <3>3 DEF TokenLeaves
    <2>2. ASSUME NEW p \in Proc, NEW id \in Token, InsertToken(p, id)
          PROVE  TokenLeaves(s)
      <3>1. call[p].session = s /\ call[p].replace /\ pc[p] = "insert"
        BY <1>1, <2>2 DEF InsertToken, Insertable, TypeOK
      <3>2. proposal_tokens'[s] # NoRow
        <4>1. proposal_tokens'[s] =
                [id |-> id, source |-> call[p].ev, scope |-> call[p].scope,
                 target |-> call[p].target, edit |-> call[p].edit,
                 before |-> call[p].before, expires |-> call[p].at + ProposalTTL]
          BY <1>1, <2>2, <3>1 DEF InsertToken, TypeOK
        <4>2. call[p] \in Proposing /\ call[p].ev \in captured
          BY <1>1, <3>1 DEF CallsFit, ProposalFits
        <4> QED
          BY <4>1, <4>2, RetentionAssumption DEF Proposing, TokenRow
      <3> QED
        BY <3>1, <3>2 DEF TokenLeaves
    <2>3. ASSUME NEW p \in Proc, CommitApproval(p)
          PROVE  TokenLeaves(s)
      <3> DEFINE c == call[p]
      <3>1. c.op # "deploy" /\ IsRead(c, s)
        BY <1>1, <2>3 DEF CommitApproval, DeleteProposal, TypeOK
      <3>2. c \in Approvals /\ c.ev \in Event /\ TokenFits(c)
        BY <1>1, <2>3, <3>1, CommitFacts DEF CommitApproval
      <3>3. c.op \in {"confirm", "discard"}
        BY <3>1, <3>2 DEF Approvals, Uses
      <3>4. /\ approval_consumptions[c.ev] = NoRow
            /\ approval_consumptions'[c.ev] = c.op
            /\ prompt_events[c.ev] # NoRow /\ prompt_events[c.ev].scope = c.scope
        BY <1>1, <2>3, <3>2 DEF CommitApproval, MayConsume, Unused, Usable, Current, TypeOK
      <3>5. prompt_events[c.ev].session = s /\ proposal_tokens[s].scope = c.scope
        BY <3>1, <3>2, <3>4 DEF TokenFits
      <3> QED
        BY <3>2, <3>3, <3>4, <3>5 DEF TokenLeaves
    <2> QED
      BY <1>1, <2>1, <2>2, <2>3, StepKinds DEF Tick
  <1>2. Inv /\ [Next]_vars =>
          [\A s \in Session : TokenGone(s) => TokenLeaves(s)]_vars
    BY <1>1
  <1> QED
    BY <1>2, Inductive, PTL DEF Spec, TokensLeave

\* A confirmation commits the text the proposal announced, over the text it
\* was proposed for, and takes the proposal with it (confirm_proposal,
\* _assert_pending_revision and delete_proposal).
THEOREM ConfirmationAsShown == Spec => ConfirmedAsShown
  <1> USE DEF Confirms, AsShown
  <1>1. ASSUME Inv, Next, NEW e \in Event, Confirms(e)
        PROVE  AsShown(e)
    <2>0. "confirm" # NoRow
      BY DEF Uses
    <2>1. PICK p \in Proc : CommitApproval(p)
      <3>1. ASSUME NEW p \in Proc, NEW x \in Event, CapturePrompt(p, x) PROVE FALSE
        BY <1>1, <2>0, <3>1, CaptureFacts DEF CaptureEffect
      <3> QED
        BY <1>1, <2>0, <3>1, StepKinds DEF Tick, InsertToken
    <2> DEFINE c == call[p]
    <2>2. e = c.ev /\ c.op = "confirm"
      BY <1>1, <2>0, <2>1 DEF CommitApproval, TypeOK
    <2>3. /\ TokenFits(c) /\ AsProposed(c, c.before)
          /\ settled[c.target] = c.before /\ docs[c.target] = c.edit[c.before]
      BY <1>1, <2>1, <2>2, CommitFacts DEF CommitApproval
    <2>4. PICK s \in Session : IsRead(c, s)
      BY <2>1, <2>2 DEF CommitApproval, Deletable
    <2>5. prompt_events[e] # NoRow
      BY <2>1, <2>2 DEF CommitApproval, MayConsume, Usable, Current
    <2>6. proposal_tokens[s] = c.token /\ prompt_events[e].session = s /\ c.token # NoRow
      BY <2>2, <2>3, <2>4, <2>5 DEF TokenFits
    <2>7. proposal_tokens'[s] = NoRow
      BY <2>1, <2>2, <2>4 DEF CommitApproval, DeleteProposal
    <2>8. settled' = [settled EXCEPT ![c.target] = docs[c.target]]
      BY <2>1, <2>2 DEF CommitApproval
    <2> QED
      BY <2>3, <2>6, <2>7, <2>8 DEF AsProposed
  <1>2. Inv /\ [Next]_vars =>
          [\A e \in Event : Confirms(e) => AsShown(e)]_vars
    BY <1>1
  <1> QED
    BY <1>2, Inductive, PTL DEF Spec, ConfirmedAsShown

\* Events only grow stale and then vanish, and none vanishes while it may be
\* approved with: what FileTransaction assumes of them (RuntimeLedger._prune
\* and resolve_approval_event).
THEOREM EventsAge == Spec => EventsOnlyAge
  <1> USE DEF OnlyAges
  <1>1. ASSUME Inv, Next, NEW e \in Event
        PROVE  OnlyAges(e)
    <2>1. CASE UNCHANGED <<clock, prompt_events, runtime_sessions, captured>>
      BY <2>1 DEF EventAge, Current
    <2>2. CASE Tick
      <3>1. prompt_events[e] # NoRow => prompt_events[e].at \in Nat
        BY <1>1 DEF TypeOK, EventRow
      <3>2. Current(e)' => Current(e)
        BY <1>1, <2>2, <3>1, RetentionAssumption DEF Tick, Current, TypeOK
      <3> QED
        BY <2>2, <3>2 DEF EventAge, Tick
    <2>3. ASSUME NEW p \in Proc, NEW x \in Event, CapturePrompt(p, x)
          PROVE  OnlyAges(e)
      <3>1. /\ call[p].at \in Nat /\ call[p].at <= clock /\ call[p].session \in Session
            /\ call[p].scope \in Scope /\ CaptureEffect(call[p], x)
        BY <1>1, <2>3, CaptureFacts DEF Capturing, CapturePrompt, StampsPast
      <3>2. x \notin captured /\ captured' = captured \union {x} /\ clock' = clock
        BY <2>3 DEF CapturePrompt
      <3>3. CASE e = x
        <4>1. prompt_events'[x] # NoRow
          BY <3>1 DEF CaptureEffect, EventRow
        <4> QED
          BY <3>2, <3>3, <4>1 DEF EventAge
      <3>4. CASE e \notin captured /\ e # x
        BY <3>2, <3>4 DEF EventAge
      <3>5. CASE e \in captured
        <4>1. /\ e # x
              /\ \/ prompt_events'[e] = prompt_events[e]
                 \/ prompt_events'[e] = NoRow /\ ~InWindow(prompt_events[e], call[p].at)
          BY <3>1, <3>2, <3>5 DEF CaptureEffect
        <4>2. Current(e) => prompt_events'[e] # NoRow
          <5>1. Current(e) => /\ prompt_events[e] # NoRow /\ prompt_events[e].at \in Nat
                              /\ prompt_events[e].at + EventTTL >= clock
            BY <1>1 DEF Current, TypeOK, EventRow
          <5> QED
            BY <1>1, <3>1, <4>1, <5>1, RetentionAssumption DEF InWindow, TypeOK
        <4>3. Current(e)' => Current(e)
          <5> SUFFICES ASSUME Current(e)' PROVE Current(e)
            OBVIOUS
          <5>1. /\ prompt_events'[e] # NoRow /\ prompt_events'[e] = prompt_events[e]
                /\ runtime_sessions'[prompt_events[e].session] # NoRow
                /\ runtime_sessions'[prompt_events[e].session].last = e
                /\ prompt_events[e].at + EventTTL >= clock
            BY <3>2, <4>1 DEF Current
          <5>2. prompt_events[e].session \in Session
            BY <1>1, <5>1 DEF TypeOK, EventRow
          <5>3. prompt_events[e].session # call[p].session
            BY <3>1, <4>1, <5>1 DEF CaptureEffect
          <5>4. runtime_sessions'[prompt_events[e].session] =
                  runtime_sessions[prompt_events[e].session]
            BY <3>1, <5>1, <5>2, <5>3 DEF CaptureEffect
          <5> QED
            BY <5>1, <5>4 DEF Current
        <4> QED
          BY <3>2, <3>5, <4>1, <4>2, <4>3 DEF EventAge
      <3> QED
        BY <3>3, <3>4, <3>5
    <2>4. ASSUME NEW p \in Proc, CommitApproval(p)
          PROVE  OnlyAges(e)
      BY <2>1, <2>4 DEF CommitApproval
    <2>5. ASSUME NEW p \in Proc, NEW id \in Token, InsertToken(p, id)
          PROVE  OnlyAges(e)
      BY <2>1, <2>5 DEF InsertToken
    <2> QED
      BY <1>1, <2>1, <2>2, <2>3, <2>4, <2>5, StepKinds
  <1>2. Inv /\ [Next]_vars =>
          [\A e \in Event : OnlyAges(e)]_vars
    BY <1>1
  <1> QED
    BY <1>2, Inductive, PTL DEF Spec, EventsOnlyAge
=============================================================================
