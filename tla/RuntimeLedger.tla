---------------------------- MODULE RuntimeLedger ----------------------------
(***************************************************************************)
(* The evidence an approval rests on: prompts captured by the hook         *)
(* (runtime_hook.py, RuntimeLedger.capture_prompt), the proposals shown to *)
(* the user, and their confirmation or dismissal (rule_service.py,         *)
(* authorization.py).  Hooks and commands are processes of their own that  *)
(* read the Store, go on without a lock, and come back with a transaction; *)
(* time passes in between, and every capture may prune the tables.         *)
(*                                                                         *)
(* Reads in a row are one step where the commit makes them again: an event *)
(* that is usable then was usable at each of them (EventsOnlyAge).         *)
(*                                                                         *)
(* A table is a function from keys to rows, NoRow where there is none.     *)
(* Files change here as FileTransaction shows they do: written under their *)
(* lock, then committed with the approval or put back.                     *)
(***************************************************************************)
EXTENDS Naturals

CONSTANTS
  Proc,          \* processes: hooks and commands
  Session,       \* sessions of the host application
  Scope,         \* projects
  Targets,       \* the instruction files a command in a project may change
  Bytes,         \* document contents
  InitialBytes,  \* contents the files may start with
  Edits,         \* what proposals do: functions from accepted to resulting contents
  Event, Token,  \* ids ever generated, the bound on prompts and proposals
  MaxClock,      \* the bound on time
  EventTTL, SessionTTL, ProposalTTL, PruneInterval,
  NoRow, NoProc, NoCall

ASSUME RetentionAssumption ==
  /\ {EventTTL, SessionTTL, ProposalTTL, PruneInterval, MaxClock} \subseteq Nat
  /\ SessionTTL <= EventTTL
ASSUME BytesAssumption == InitialBytes \subseteq Bytes
ASSUME EditsAssumption ==
  \A ed \in Edits : DOMAIN ed \subseteq Bytes /\ \A b \in DOMAIN ed : ed[b] \in Bytes

Target == UNION {Targets[sc] : sc \in Scope}

EventRow   == [session: Session, scope: Scope, at: Nat]
SessionRow == [scope: Scope, last: Event \union {NoRow}, at: Nat]
TokenRow   == [id: Token, source: Event, scope: Scope, target: Target,
               edit: Edits, before: Bytes, expires: Nat]
Uses       == {"deploy", "confirm", "discard"}

ASSUME NullAssumption ==
  /\ NoRow \notin EventRow \union SessionRow \union TokenRow \union Uses \union Event
  /\ NoProc \notin Proc

\* What a process holds between two steps: its arguments and what it has read.
Capturing  == [op: {"capture"}, session: Session, scope: Scope, at: Nat]
Proposing  == [op: {"create"}, ev: Event, scope: Scope, target: Target, edit: Edits,
               replace: BOOLEAN, before: Bytes, session: Session \union {NoRow}, at: Nat]
Approvals  == [op: Uses, ev: Event, scope: Scope, target: Target \union {NoRow},
               edit: Edits \union {NoRow}, token: TokenRow \union {NoRow},
               before: Bytes \union {NoRow}]
Calls      == Capturing \union Proposing \union Approvals

ASSUME CallAssumption == NoCall \notin Calls

VARIABLES
  clock,
  prompt_events, runtime_sessions, proposal_tokens, approval_consumptions,
  last_pruned,
  captured, minted, \* ids ever given to events and to tokens (history)
  docs,             \* what each instruction file holds
  settled,          \* what the last committed revision left there (history)
  lock,             \* the holder of each file's lock
  pc, call

ids    == <<captured, minted>>
tables == <<prompt_events, runtime_sessions, proposal_tokens, approval_consumptions,
            last_pruned>>
world  == <<docs, settled, lock>>
vars   == <<clock, tables, ids, world, pc, call>>

Steps == {"idle", "capture", "resolve", "insert", "validate", "find", "plan", "write",
          "commit"}

Init ==
  /\ clock = 0
  /\ prompt_events = [e \in Event |-> NoRow]
  /\ runtime_sessions = [s \in Session |-> NoRow]
  /\ proposal_tokens = [s \in Session |-> NoRow]
  /\ approval_consumptions = [e \in Event |-> NoRow]
  /\ last_pruned = 0
  /\ captured = {}
  /\ minted = {}
  /\ docs \in [Target -> InitialBytes]
  /\ settled = docs
  /\ lock = [t \in Target |-> NoProc]
  /\ pc = [p \in Proc |-> "idle"]
  /\ call = [p \in Proc |-> NoCall]

-----------------------------------------------------------------------------
(* Steps shared by the handlers.                                           *)

Goto(p, l, c) ==
  /\ pc' = [pc EXCEPT ![p] = l]
  /\ call' = [call EXCEPT ![p] = c]

Leave(p) == Goto(p, "idle", NoCall)

Unlocked(p) == [t \in Target |-> IF lock[t] = p THEN NoProc ELSE lock[t]]

\* The current prompt of its session, within the retention window; or of any age.
Current_AnyAge(e) ==
  /\ prompt_events[e] # NoRow
  /\ LET row == prompt_events[e] IN
       /\ runtime_sessions[row.session] # NoRow
       /\ runtime_sessions[row.session].last = e
Current(e) ==
  /\ prompt_events[e] # NoRow
  /\ LET row == prompt_events[e] IN
       /\ runtime_sessions[row.session] # NoRow
       /\ runtime_sessions[row.session].last = e
       /\ row.at + EventTTL >= clock

\* resolve_approval_event
Usable(e, sc) == Current(e) /\ prompt_events[e].scope = sc

Unused(e) == approval_consumptions[e] = NoRow

-----------------------------------------------------------------------------
(* The hook: a prompt is stamped, then recorded in one transaction.        *)

Submit(p, s, sc) ==
  /\ pc[p] = "idle"
  /\ runtime_sessions[s] # NoRow => runtime_sessions[s].scope = sc
  /\ Goto(p, "capture", [op |-> "capture", session |-> s, scope |-> sc, at |-> clock])
  /\ UNCHANGED <<clock, tables, ids, world>>

\* The transaction finds the session in another scope.
RejectCapture(p) ==
  /\ pc[p] = "capture"
  /\ runtime_sessions[call[p].session] # NoRow
  /\ runtime_sessions[call[p].session].scope # call[p].scope
  /\ Leave(p)
  /\ UNCHANGED <<clock, tables, ids, world>>

PruneDue(now) == last_pruned + PruneInterval <= now

\* Which rows a prune leaves: an event for as long as it may be approved with,
\* and for as long as a token needs it; or only for the former.
InWindow(row, now) == row.at + EventTTL >= now

Pinned_Never(tokens, e) == FALSE
Pinned(tokens, e)       == \E s \in Session : tokens[s] # NoRow /\ tokens[s].source = e

\* A session not seen for its window is deleted.
SessionLives(row, now) == row.at + SessionTTL >= now

\* _prune over the events and sessions of the transaction, with the cascades
\* of the foreign keys.
Prune(events, sessions, now) ==
  LET tokens == [s \in Session |-> IF /\ proposal_tokens[s] # NoRow
                                      /\ proposal_tokens[s].expires > now
                                   THEN proposal_tokens[s] ELSE NoRow]
      kept == {e \in Event : /\ events[e] # NoRow
                             /\ InWindow(events[e], now) \/ Pinned(tokens, e)}
  IN /\ proposal_tokens' = [s \in Session |-> IF /\ tokens[s] # NoRow
                                                 /\ tokens[s].source \in kept
                                              THEN tokens[s] ELSE NoRow]
     /\ runtime_sessions' = [s \in Session |->
          IF sessions[s] = NoRow \/ ~SessionLives(sessions[s], now) THEN NoRow
          ELSE IF sessions[s].last \in kept THEN sessions[s]
          ELSE [sessions[s] EXCEPT !.last = NoRow]]
     /\ prompt_events' = [e \in Event |-> IF e \in kept THEN events[e] ELSE NoRow]
     /\ approval_consumptions' =
          [e \in Event |-> IF e \in kept THEN approval_consumptions[e] ELSE NoRow]
     /\ last_pruned' = now

KeepAll(events, sessions) ==
  /\ prompt_events' = events
  /\ runtime_sessions' = sessions
  /\ UNCHANGED <<proposal_tokens, approval_consumptions, last_pruned>>

\* When a session was last seen: with the prompt recorded last, even if one
\* stamped later came first; or at the latest stamp.
SeenAt_Latest(row, at) == IF row # NoRow /\ row.at > at THEN row.at ELSE at
SeenAt(row, at)        == at

CapturePrompt(p, e) ==
  LET c == call[p]
      events == [prompt_events EXCEPT ![e] =
                   [session |-> c.session, scope |-> c.scope, at |-> c.at]]
      sessions == [runtime_sessions EXCEPT ![c.session] =
                     [scope |-> c.scope, last |-> e,
                      at |-> SeenAt(runtime_sessions[c.session], c.at)]]
  IN /\ pc[p] = "capture"
     /\ e \notin captured
     /\ runtime_sessions[c.session] # NoRow =>
          runtime_sessions[c.session].scope = c.scope
     /\ captured' = captured \union {e}
     /\ IF PruneDue(c.at) THEN Prune(events, sessions, c.at)
                          ELSE KeepAll(events, sessions)
     /\ Leave(p)
     /\ UNCHANGED <<clock, minted, world>>

-----------------------------------------------------------------------------
(* create_proposal and its --replace form.                                 *)

\* The revision is computed on the file as it is, without its lock; a rule
\* that is already there is not proposed.
Propose(p, e, sc, t, ed, r) ==
  /\ pc[p] = "idle"
  /\ docs[t] \in DOMAIN ed
  /\ ed[docs[t]] # docs[t]
  /\ Goto(p, "resolve", [op |-> "create", ev |-> e, scope |-> sc, target |-> t,
                         edit |-> ed, replace |-> r, before |-> docs[t],
                         session |-> NoRow, at |-> 0])
  /\ UNCHANGED <<clock, tables, ids, world>>

ResolveSource(p) ==
  LET c == call[p] IN
  /\ pc[p] = "resolve"
  /\ IF Usable(c.ev, c.scope)
     THEN Goto(p, "insert", [c EXCEPT !.session = prompt_events[c.ev].session,
                                      !.at = clock])
     ELSE Leave(p)
  /\ UNCHANGED <<clock, tables, ids, world>>

\* The insert finds no other token of the session, and its source event.
Insertable(c) ==
  /\ proposal_tokens[c.session] = NoRow \/ c.replace
  /\ prompt_events[c.ev] # NoRow

RefuseToken(p) ==
  /\ pc[p] = "insert"
  /\ ~Insertable(call[p])
  /\ Leave(p)
  /\ UNCHANGED <<clock, tables, ids, world>>

InsertToken(p, id) ==
  LET c == call[p] IN
  /\ pc[p] = "insert"
  /\ Insertable(c)
  /\ id \notin minted
  /\ minted' = minted \union {id}
  /\ proposal_tokens' = [proposal_tokens EXCEPT ![c.session] =
       [id |-> id, source |-> c.ev, scope |-> c.scope, target |-> c.target,
        edit |-> c.edit, before |-> c.before, expires |-> c.at + ProposalTTL]]
  /\ Leave(p)
  /\ UNCHANGED <<clock, prompt_events, runtime_sessions, approval_consumptions,
                 last_pruned, captured, world>>

-----------------------------------------------------------------------------
(* deploy, confirm_proposal and discard_proposal.                          *)

\* pending_for_approval: the session's token, if it is of this scope and not
\* expired.
Pending(e, sc) ==
  LET row == proposal_tokens[prompt_events[e].session]
  IN row # NoRow /\ row.scope = sc /\ row.expires > clock

\* A call that holds the row of its token.
Approving(op, e, sc, t, ed, row) ==
  [op |-> op, ev |-> e, scope |-> sc, target |-> t, edit |-> ed, token |-> row,
   before |-> NoRow]

\* confirm finds its token first and then validates, ...
Confirm(p, e, sc, t, ed) ==
  /\ pc[p] = "idle"
  /\ Usable(e, sc)
  /\ Pending(e, sc)
  /\ Goto(p, "validate", Approving("confirm", e, sc, t, ed,
                                   proposal_tokens[prompt_events[e].session]))
  /\ UNCHANGED <<clock, tables, ids, world>>

Validate(p) ==
  LET c == call[p] IN
  /\ pc[p] = "validate"
  /\ IF Usable(c.ev, c.scope) /\ Unused(c.ev) THEN Goto(p, "plan", c) ELSE Leave(p)
  /\ UNCHANGED <<clock, tables, ids, world>>

\* ... deploy only validates, ...
Deploy(p, e, sc, t, ed) ==
  /\ pc[p] = "idle"
  /\ Usable(e, sc)
  /\ Unused(e)
  /\ Goto(p, "plan", Approving("deploy", e, sc, t, ed, NoRow))
  /\ UNCHANGED <<clock, tables, ids, world>>

\* ... and discard validates before it looks for the token.
Discard(p, e, sc) ==
  /\ pc[p] = "idle"
  /\ Usable(e, sc)
  /\ Unused(e)
  /\ Goto(p, "find", Approving("discard", e, sc, NoRow, NoRow, NoRow))
  /\ UNCHANGED <<clock, tables, ids, world>>

FindPending(p) ==
  LET c == call[p] IN
  /\ pc[p] = "find"
  /\ IF Usable(c.ev, c.scope) /\ Pending(c.ev, c.scope)
     THEN Goto(p, "commit",
               [c EXCEPT !.token = proposal_tokens[prompt_events[c.ev].session]])
     ELSE Leave(p)
  /\ UNCHANGED <<clock, tables, ids, world>>

\* _assert_pending_revision: the request and the file are those of the token.
AsProposed(c, b) == /\ c.token.edit = c.edit
                    /\ c.token.target = c.target
                    /\ c.token.before = b

PlanRevision(p) ==
  LET c == call[p] IN
  /\ pc[p] = "plan"
  /\ IF /\ docs[c.target] \in DOMAIN c.edit
        /\ c.op = "confirm" => AsProposed(c, docs[c.target])
     THEN Goto(p, "write", [c EXCEPT !.before = docs[c.target]])
     ELSE Leave(p)
  /\ UNCHANGED <<clock, tables, ids, world>>

WriteTarget(p) ==
  LET c == call[p] IN
  /\ pc[p] = "write"
  /\ lock[c.target] = NoProc
  /\ docs[c.target] = c.before
  /\ lock' = [lock EXCEPT ![c.target] = p]
  /\ docs' = [docs EXCEPT ![c.target] = c.edit[c.before]]
  /\ Goto(p, "commit", c)
  /\ UNCHANGED <<clock, tables, ids, settled>>

\* The lock times out, or the file is not what was planned for.
GiveUp(p) ==
  /\ pc[p] = "write"
  /\ \/ lock[call[p].target] # NoProc
     \/ docs[call[p].target] # call[p].before
  /\ Leave(p)
  /\ UNCHANGED <<clock, tables, ids, world>>

\* delete_proposal removes the token that was read, by its id, and fails if
\* it is gone; or does not look whether it was.
IsRead(c, s) == proposal_tokens[s] # NoRow /\ proposal_tokens[s].id = c.token.id

Deletable_Unchecked(c) == TRUE
Deletable(c)           == c.op # "deploy" => \E s \in Session : IsRead(c, s)

DeleteProposal(c) ==
  proposal_tokens' = [s \in Session |-> IF c.op # "deploy" /\ IsRead(c, s) THEN NoRow
                                        ELSE proposal_tokens[s]]

\* consume
MayConsume(c) ==
  /\ Unused(c.ev)
  /\ Usable(c.ev, c.scope)
  /\ runtime_sessions[prompt_events[c.ev].session].scope = c.scope

CommitApproval(p) ==
  LET c == call[p] IN
  /\ pc[p] = "commit"
  /\ Deletable(c)
  /\ MayConsume(c)
  /\ DeleteProposal(c)
  /\ approval_consumptions' = [approval_consumptions EXCEPT ![c.ev] = c.op]
  /\ settled' = IF c.op = "discard" THEN settled
                ELSE [settled EXCEPT ![c.target] = docs[c.target]]
  /\ lock' = Unlocked(p)
  /\ Leave(p)
  /\ UNCHANGED <<clock, prompt_events, runtime_sessions, last_pruned, ids, docs>>

\* The rollback of a file written in vain; or none.
PutBack_Not(c) == docs
PutBack(c)     == [docs EXCEPT ![c.target] = c.before]

FailCommit(p) ==
  LET c == call[p] IN
  /\ pc[p] = "commit"
  /\ ~Deletable(c) \/ ~MayConsume(c)
  /\ docs' = IF c.op = "discard" THEN docs ELSE PutBack(c)
  /\ lock' = Unlocked(p)
  /\ Leave(p)
  /\ UNCHANGED <<clock, tables, ids, settled>>

-----------------------------------------------------------------------------
Tick ==
  /\ clock < MaxClock
  /\ clock' = clock + 1
  /\ UNCHANGED <<tables, ids, world, pc, call>>

Hook(p) ==
  \/ \E s \in Session, sc \in Scope : Submit(p, s, sc)
  \/ RejectCapture(p)
  \/ \E e \in Event : CapturePrompt(p, e)

CreateProposal(p) ==
  \/ \E e \in captured, sc \in Scope, ed \in Edits, r \in BOOLEAN :
       \E t \in Targets[sc] : Propose(p, e, sc, t, ed, r)
  \/ ResolveSource(p)
  \/ RefuseToken(p)
  \/ \E id \in Token : InsertToken(p, id)

Mutate(p) ==
  \/ \E e \in captured, sc \in Scope :
       \/ Discard(p, e, sc)
       \/ \E ed \in Edits, t \in Targets[sc] : \/ Confirm(p, e, sc, t, ed)
                                              \/ Deploy(p, e, sc, t, ed)
  \/ FindPending(p)
  \/ Validate(p)
  \/ PlanRevision(p)
  \/ WriteTarget(p)
  \/ GiveUp(p)
  \/ CommitApproval(p)
  \/ FailCommit(p)

Next == Tick \/ \E p \in Proc : Hook(p) \/ CreateProposal(p) \/ Mutate(p)

Spec == Init /\ [][Next]_vars

-----------------------------------------------------------------------------
(* What the ledger is checked for.                                         *)

\* Every variable, row and call is of its type.
TypeOK ==
  /\ clock \in Nat /\ last_pruned \in Nat
  /\ prompt_events \in [Event -> EventRow \union {NoRow}]
  /\ runtime_sessions \in [Session -> SessionRow \union {NoRow}]
  /\ proposal_tokens \in [Session -> TokenRow \union {NoRow}]
  /\ approval_consumptions \in [Event -> Uses \union {NoRow}]
  /\ captured \subseteq Event /\ minted \subseteq Token
  /\ docs \in [Target -> Bytes] /\ settled \in [Target -> Bytes]
  /\ lock \in [Target -> Proc \union {NoProc}]
  /\ pc \in [Proc -> Steps]
  /\ call \in [Proc -> Calls \union {NoCall}]

\* A session never loses its current prompt to a prune, however late the
\* capture that prunes: the two rows carry the same scope and time
\* (capture_prompt and the order of deletions in _prune).
CurrentPromptKept ==
  \A s \in Session : runtime_sessions[s] # NoRow =>
    LET row == runtime_sessions[s] IN
    /\ row.last \in Event
    /\ prompt_events[row.last] = [session |-> s, scope |-> row.scope, at |-> row.at]

\* A pending proposal goes only when it has expired, when another one is put
\* in its place on request, or with the approval that confirms or discards
\* it, given in its own session and scope (_prune, create_proposal,
\* delete_proposal).
TokenLeaves(s) ==
  LET row == proposal_tokens[s] IN
  \/ row.expires <= clock
  \/ /\ proposal_tokens'[s] # NoRow
     /\ \E p \in Proc : pc[p] = "insert" /\ call[p].replace /\ call[p].session = s
  \/ \E e \in Event : /\ approval_consumptions[e] = NoRow
                      /\ approval_consumptions'[e] \in {"confirm", "discard"}
                      /\ prompt_events[e].session = s
                      /\ prompt_events[e].scope = row.scope
TokenGone(s) == proposal_tokens[s] # NoRow /\ proposal_tokens'[s] # proposal_tokens[s]
TokensLeave  == [][\A s \in Session : TokenGone(s) => TokenLeaves(s)]_vars

\* A confirmation takes the committed text of the target from the one its
\* session's proposal was made for to the one it announced, whatever was
\* replaced, deployed or rolled back since it was read (confirm_proposal,
\* _assert_pending_revision, delete_proposal).
Confirms(e) ==
  approval_consumptions[e] = NoRow /\ approval_consumptions'[e] = "confirm"
AsShown(e) ==
  LET row == proposal_tokens[prompt_events[e].session] IN
  /\ row # NoRow
  /\ settled[row.target] = row.before
  /\ settled' = [settled EXCEPT ![row.target] = row.edit[row.before]]
  /\ proposal_tokens'[prompt_events[e].session] = NoRow
ConfirmedAsShown == [][\A e \in Event : Confirms(e) => AsShown(e)]_vars

\* A file nobody has locked holds what the last commit left in it: a text
\* whose commit failed is gone before its lock is (the rollback of apply).
FailedCommitUndone ==
  \A t \in Target : lock[t] = NoProc => docs[t] = settled[t]

\* The parts of the inductive invariant.

\* Nothing is stamped with a time to come.
StampsPast ==
  /\ \A e \in Event : prompt_events[e] # NoRow => prompt_events[e].at <= clock
  /\ \A p \in Proc : pc[p] = "capture" => call[p].at <= clock

\* The foreign keys: a token's source is an event of its session and scope,
\* a use is of an event that is there; and ids are given out once.
RowsRefer ==
  /\ \A e \in Event : prompt_events[e] # NoRow => e \in captured
  /\ \A e \in Event : approval_consumptions[e] # NoRow => prompt_events[e] # NoRow
  /\ \A s \in Session : proposal_tokens[s] # NoRow =>
       LET source == prompt_events[proposal_tokens[s].source] IN
       /\ source # NoRow
       /\ source.session = s
       /\ source.scope = proposal_tokens[s].scope
       /\ proposal_tokens[s].id \in minted
       /\ \A r \in Session : IsRead([token |-> proposal_tokens[s]], r) => r = s

\* What a call about to insert its token knows of the source.
ProposalFits(l, c) ==
  /\ l = "capture" => c \in Capturing
  /\ l \in {"resolve", "insert"} => c \in Proposing
  /\ l = "insert" =>
       /\ c.session \in Session
       /\ c.ev \in captured
       /\ prompt_events[c.ev] # NoRow =>
            prompt_events[c.ev].session = c.session /\ prompt_events[c.ev].scope = c.scope

\* What a call that confirms or discards knows of its token: if one of that
\* id is still there, it is the one read, and it is the session's.
TokenFits(c) ==
  /\ c.token # NoRow
  /\ c.token.id \in minted
  /\ c.token.scope = c.scope
  /\ \A s \in Session : IsRead(c, s) =>
       /\ proposal_tokens[s] = c.token
       /\ prompt_events[c.ev] # NoRow => prompt_events[c.ev].session = s

Answering == {"validate", "find", "plan", "write", "commit"}

ApprovalFits(l, c) ==
  /\ l \in Answering => c \in Approvals /\ c.ev \in captured
  /\ l = "validate" => c.op = "confirm"
  /\ l = "find" => c.op = "discard"
  /\ l \in {"plan", "write"} => c.op # "discard"
  /\ l \in Answering /\ c.op # "discard" => c.target \in Target /\ c.edit \in Edits
  /\ l \in Answering \ {"find"} /\ c.op # "deploy" => TokenFits(c)

\* What it knows of the file: nothing was committed to it since it was read
\* under the lock, and a confirmation plans what its token says.
FileFits(p, l, c) ==
  /\ l \in {"write", "commit"} /\ c.op # "discard" =>
       /\ c.before \in DOMAIN c.edit
       /\ c.op = "confirm" => AsProposed(c, c.before)
  /\ l = "commit" /\ c.op # "discard" =>
       /\ lock[c.target] = p
       /\ settled[c.target] = c.before
       /\ docs[c.target] = c.edit[c.before]
  /\ \A t \in Target : lock[t] = p => l = "commit" /\ c.op # "discard" /\ c.target = t

CallsFit ==
  \A p \in Proc : /\ ProposalFits(pc[p], call[p])
                  /\ ApprovalFits(pc[p], call[p])
                  /\ FileFits(p, pc[p], call[p])

LedgerInvariant ==
  /\ CurrentPromptKept
  /\ StampsPast
  /\ RowsRefer
  /\ CallsFit
  /\ FailedCommitUndone

\* What FileTransaction knows of an event.
EventAge(e) ==
  IF e \notin captured THEN 0
  ELSE IF prompt_events[e] = NoRow THEN 3
  ELSE IF Current(e) THEN 1 ELSE 2

\* Events grow stale and then vanish, never the other way, and none vanishes
\* while it may still be approved with: the three states of an event in
\* FileTransaction, and its steps Supersede and Prune, are all there is to
\* the tables (_prune, resolve_approval_event).
OnlyAges(e) == /\ EventAge(e)' >= EventAge(e)
               /\ EventAge(e)' = 3 => EventAge(e) >= 2
EventsOnlyAge == [][\A e \in Event : OnlyAges(e)]_vars
=============================================================================
