---------------------------- MODULE RuleDocument ----------------------------
(***************************************************************************)
(* One AGENTS.md and the block of confirmed rules inside it                *)
(* (instructions.py, proposal.py, rule_preview.py): how the bytes are      *)
(* read, how a deployment, a bundle or a revocation plans the bytes that   *)
(* replace them, and what binds a plan to the review that asked for it.    *)
(*                                                                         *)
(* The bytes are a sequence of tokens: a newline, a bare carriage return,  *)
(* a line of the user's text, a marker, the heading, or a rule, which      *)
(* stands for its four lines and for its id, the hash of its text.  A rule *)
(* may quote a marker; a line of the user's holds none, nor a part of one. *)
(* The user edits the file by hand between any two steps.  Writing the     *)
(* plan is FileTransaction's subject.                                      *)
(***************************************************************************)
EXTENDS Naturals, FiniteSets, Sequences, SequencesExt

CONSTANTS
  Rule,        \* rules a proposal may hold
  IdOf,        \* the rank of a rule's id among all ids
  SizeOf,      \* bytes of a rule, rendered with LF
  Quoting,     \* rules whose text holds a marker
  MaxRule,     \* MAX_RENDERED_RULE_BYTES
  MaxBlock,    \* MAX_MANAGED_BLOCK_BYTES
  Line,        \* lines of the user's own text
  Card,        \* review cards of a bundle
  LF, CRLF, CR, Start, End, Heading,
  MaxEdits,    \* bound on edits by hand
  MaxWrites,   \* bound on changes by the program
  Refused, None

ASSUME RuleAssumption ==
  /\ IdOf \in [Rule -> Nat] /\ SizeOf \in [Rule -> Nat]
  /\ \A r, s \in Rule : IdOf[r] = IdOf[s] => r = s
  /\ Quoting \subseteq Rule /\ IsFiniteSet(Card)

\* What _parse_document tells apart by its bytes.
ASSUME TokenAssumption ==
  /\ LF # CRLF /\ CR \notin {LF, CRLF} /\ Start # End
  /\ {LF, CRLF, CR} \intersect {Start, End, Heading} = {}
  /\ Heading \notin {Start, End}
  /\ {LF, CRLF, CR, Start, End, Heading} \intersect (Line \union Rule) = {}

ASSUME BoundAssumption == {MaxRule, MaxBlock, MaxEdits, MaxWrites} \subseteq Nat

VARIABLES
  doc,       \* the file's bytes
  shadowed,  \* a non-empty AGENTS.override.md lies beside it
  review,    \* the revision the user was shown and may confirm
  edits,     \* edits by hand so far
  writes     \* changes by the program so far

vars == <<doc, shadowed, review, edits, writes>>

-----------------------------------------------------------------------------
(* Reading a document.                                                     *)

\* What is left of a sequence when the elements in S are dropped.
Without(s, S) ==
  LET kept[i \in 0..Len(s)] ==
        IF i = 0 THEN <<>>
        ELSE IF s[i] \in S THEN kept[i - 1] ELSE Append(kept[i - 1], s[i])
  IN  kept[Len(s)]

\* CR LF in the bytes is always the one token CRLF, where two pieces meet as well.
Whole(d) == \A i \in 1..(Len(d) - 1) : ~(d[i] = CR /\ d[i + 1] = LF)
Joined(a, b) ==
  IF a # <<>> /\ b # <<>> /\ Last(a) = CR /\ Head(b) = LF
    THEN Front(a) \o <<CRLF>> \o Tail(b) ELSE a \o b

NewlineOf(d)   == IF CRLF \in Range(d) THEN CRLF ELSE LF
Places(d, t)   == {i \in DOMAIN d : d[i] = t}
Quoted(d)      == {i \in DOMAIN d : d[i] \in Quoting}
Plain(d)       == Places(d, Start) \union Places(d, End) \union Quoted(d) = {}
MarkerStart(d) == CHOOSE i \in Places(d, Start) : TRUE
MarkerEnd(d)   == CHOOSE i \in Places(d, End) : TRUE

\* (mutant) the newline after the end marker is left outside the block.
RegionEnd_Marker(d) == MarkerEnd(d)
RegionEnd(d) ==
  LET e == MarkerEnd(d)
  IN  IF e < Len(d) /\ d[e + 1] \in {LF, CRLF} THEN e + 1 ELSE e

RegionStart(d) ==
  LET s == MarkerStart(d)
  IN  IF s > 2 /\ SubSeq(d, s - 2, s - 1) = <<NewlineOf(d), NewlineOf(d)>>
        THEN s - 2 ELSE s

Inside(d) == SubSeq(d, MarkerStart(d) + 1, MarkerEnd(d) - 1)
Body(d)   == Without(Inside(d), {LF, CRLF, CR})

\* Nothing shares a line with the heading or a rule, but that a carriage return after a
\* rule is stripped; returns alone are a blank line.
Separate(text) ==
  \A i \in 1..(Len(text) - 1) :
    {text[i], text[i + 1]} \intersect {LF, CRLF} = {} =>
      text[i + 1] = CR /\ text[i] \in Rule \union {CR}

\* What _parse_document accepts: no marker, or two of its own around a heading and rules.
Valid(d) ==
  \/ Plain(d)
  \/ /\ Cardinality(Places(d, Start)) = 1 /\ Cardinality(Places(d, End)) = 1
     /\ Quoted(d) = {} /\ MarkerStart(d) < MarkerEnd(d) /\ Separate(Inside(d))
     /\ LET body == Body(d)
        IN  /\ body # <<>> /\ Head(body) = Heading
            /\ \A t \in Range(Tail(body)) : t \in Rule /\ SizeOf[t] <= MaxRule
            /\ IsInjective(Tail(body))

RulesOf(d) == IF Plain(d) THEN <<>> ELSE Tail(Body(d))
Outside(d) ==
  IF Plain(d) THEN d
  ELSE Joined(SubSeq(d, 1, RegionStart(d) - 1), SubSeq(d, RegionEnd(d) + 1, Len(d)))

-----------------------------------------------------------------------------
(* Writing one.                                                            *)

ManagedBlock(rules, nl) ==
  IF rules = <<>> THEN <<>>
  ELSE <<Start, nl, Heading>>
         \o FlattenSeq([i \in DOMAIN rules |-> <<nl, nl, rules[i]>>])
         \o <<nl, End, nl>>

\* A rule's own newlines are one byte longer each as CRLF; counted as one in all.
Width(t, nl) ==
  CASE t = CRLF    -> 2
    [] t \in Rule  -> SizeOf[t] + (IF nl = CRLF THEN 1 ELSE 0)
    [] OTHER       -> 1
Bytes(rules, nl) ==
  FoldLeft(LAMBDA n, t : n + Width(t, nl), 0, ManagedBlock(rules, nl))

\* (mutant) the whole block is not measured.
Fits_RulesOnly(rules, nl) == \A r \in Range(rules) : SizeOf[r] <= MaxRule
Fits(rules, nl) ==
  /\ \A r \in Range(rules) : SizeOf[r] <= MaxRule
  /\ Bytes(rules, nl) <= MaxBlock

\* (mutant) the block is written at the end of the document, wherever it was.
Replaced_AtEnd(d, rules) ==
  Outside(d) \o ManagedBlock(rules, NewlineOf(d))
\* (mutant) the blank line before the block outlives the last rule.
Replaced_KeepsBlank(d, rules) ==
  LET nl    == NewlineOf(d)
      block == ManagedBlock(rules, nl)
      below == SubSeq(d, RegionEnd(d) + 1, Len(d))
  IN  CASE Plain(d) /\ rules = <<>> -> d
        [] Plain(d) /\ rules # <<>> ->
             Joined(d, IF d = <<>> THEN <<>> ELSE <<nl, nl>>) \o block
        [] OTHER -> Joined(SubSeq(d, 1, MarkerStart(d) - 1), block \o below)
\* Only where a block goes, or begins, can two pieces of the user's text meet.
Replaced(d, rules) ==
  LET nl    == NewlineOf(d)
      block == ManagedBlock(rules, nl)
      below == SubSeq(d, RegionEnd(d) + 1, Len(d))
  IN  CASE Plain(d) /\ rules = <<>> -> d
        [] Plain(d) /\ rules # <<>> ->
             Joined(d, IF d = <<>> THEN <<>> ELSE <<nl, nl>>) \o block
        [] ~Plain(d) /\ rules = <<>> -> Joined(SubSeq(d, 1, RegionStart(d) - 1), below)
        [] ~Plain(d) /\ rules # <<>> -> SubSeq(d, 1, MarkerStart(d) - 1) \o block \o below

Verified(d, rules) ==
  LET after == Replaced(d, rules)
  IN  Valid(after) /\ RulesOf(after) = rules /\ Outside(after) = Outside(d)

PlanReplace(d, rules) ==
  IF Fits(rules, NewlineOf(d)) /\ Verified(d, rules) THEN Replaced(d, rules) ELSE Refused

-----------------------------------------------------------------------------
(* One rule: deployed, put in the place of others, or revoked.             *)

MinOf(S) == CHOOSE i \in S : \A j \in S : i <= j
PlacesOf(rules, ids) == {i \in DOMAIN rules : rules[i] \in ids}

Deployable(rules, r, supersedes) ==
  supersedes # {} =>
    supersedes \subseteq Range(rules) /\ (r \in Range(rules) => r \in supersedes)

Deployed(rules, r, supersedes) ==
  IF supersedes = {}
    THEN IF r \in Range(rules) THEN rules ELSE Append(rules, r)
    ELSE InsertAt(Without(rules, supersedes),
                  MinOf(PlacesOf(rules, supersedes)), r)

PlanDeploy(d, r, supersedes) ==
  IF Valid(d) /\ Deployable(RulesOf(d), r, supersedes)
    THEN PlanReplace(d, Deployed(RulesOf(d), r, supersedes)) ELSE Refused

PlanRevoke(d, r) ==
  IF Valid(d) /\ r \in Range(RulesOf(d))
    THEN PlanReplace(d, Without(RulesOf(d), {r})) ELSE Refused

-----------------------------------------------------------------------------
(* A bundle: several rules in one plan.                                    *)

Superseded(items) == UNION {i.supersedes : i \in items}

\* (mutant) two items may supersede the same rule.
Combinable_Overlap(rules, items) ==
  /\ \A i, j \in items : i # j => i.rule # j.rule
  /\ \A i \in items :
       /\ i.supersedes \subseteq Range(rules)
       /\ i.supersedes # {i.rule}
  /\ \A i \in items : i.rule \notin Range(rules) \ Superseded(items)
Combinable(rules, items) ==
  /\ \A i, j \in items :
       i # j => i.rule # j.rule /\ i.supersedes \intersect j.supersedes = {}
  /\ \A i \in items :
       /\ i.supersedes \subseteq Range(rules)
       /\ i.supersedes = {} => i.rule \notin Range(rules)
       /\ i.supersedes # {i.rule}
  /\ \A i \in items : i.rule \notin Range(rules) \ Superseded(items)

\* Where an item's rule goes: the place of the first rule it supersedes, or the end.
PositionOf(rules, i) ==
  IF i.supersedes = {} THEN Len(rules) + 1 ELSE MinOf(PlacesOf(rules, i.supersedes))

Positioned(rules, items) ==
  {[at |-> p, rule |-> rules[p]] : p \in {q \in DOMAIN rules : rules[q] \notin Superseded(items)}}
    \union {[at |-> PositionOf(rules, i), rule |-> i.rule] : i \in items}

Combined(rules, items) ==
  LET placed      == Positioned(rules, items)
      Before(p, q) == p.at < q.at \/ (p.at = q.at /\ IdOf[p.rule] < IdOf[q.rule])
      Rank(p)     == Cardinality({q \in placed : Before(q, p)}) + 1
  IN  [k \in 1..Cardinality(placed) |-> (CHOOSE p \in placed : Rank(p) = k).rule]

PlanBundle(d, items) ==
  LET rules == RulesOf(d)
      after == Combined(rules, items)
  IN  IF Combinable(rules, items) /\ Valid(d) /\ after # rules
        THEN PlanReplace(d, after) ELSE Refused

-----------------------------------------------------------------------------
(* A review, and what binds its confirmation to it.                        *)

\* review_selection_token: a hash of everything the user selected with a card.
\* (mutant) the superseded rules are not hashed.
Token_NoSupersedes(i, before) == [card |-> i.card, rule |-> i.rule, before |-> before]
Token(i, before) ==
  [card |-> i.card, rule |-> i.rule, supersedes |-> i.supersedes, before |-> before]

\* What a pending proposal, or a reviewed bundle, is good for: the rule or the items, the
\* bytes they were planned on, and the plan that was shown.
RuleRevision(r, supersedes, after) ==
  [kind |-> "rule", rule |-> r, supersedes |-> supersedes, before |-> doc, after |-> after]
BundleRevision(items, after) ==
  [kind |-> "bundle", items |-> items, before |-> doc, after |-> after,
   tokens |-> {Token(i, doc) : i \in items}]

\* Every choice of a rule and of deployed rules to supersede, for some of the cards: to
\* supersede anything else is refused as stale.
Bundles(rules) ==
  UNION {{{[card |-> k, rule |-> f[k].rule, supersedes |-> f[k].supersedes] : k \in K} :
            f \in [K -> [rule : Rule, supersedes : SUBSET Range(rules)]]} :
         K \in SUBSET Card \ {{}}}

\* A reviewed bundle, or that bundle with one item's superseded rules altered.
Submitted(items) ==
  {items} \union {(items \ {i}) \union {[i EXCEPT !.supersedes = s]} :
                    i \in items, s \in SUBSET Rule}

Projection(plan) == IF shadowed THEN Refused ELSE plan

Write(after) ==
  /\ after # Refused
  /\ writes < MaxWrites /\ writes' = writes + 1
  /\ doc' = after
  /\ UNCHANGED <<shadowed, edits>>

Init ==
  /\ doc \in {<<>>} \union {<<l, nl>> : l \in Line, nl \in {LF, CRLF, CR}}
  /\ shadowed = FALSE /\ review = None /\ edits = 0 /\ writes = 0

\* The user confirms a rule in the prompt itself: planned on the bytes of the moment.
DeployNow(r, supersedes) ==
  /\ ~shadowed /\ review = None
  /\ PlanDeploy(doc, r, supersedes) # doc
  /\ Write(PlanDeploy(doc, r, supersedes))
  /\ UNCHANGED review

Revoke(r) ==
  /\ ~shadowed /\ review = None
  /\ Write(PlanRevoke(doc, r))
  /\ UNCHANGED review

\* rule preview, with the pending proposal the same text and bytes make.
PreviewRule(r, supersedes) ==
  /\ review = None /\ writes < MaxWrites /\ Valid(doc)
  /\ PlanDeploy(doc, r, supersedes) # Refused
  /\ review' = RuleRevision(r, supersedes, Projection(PlanDeploy(doc, r, supersedes)))
  /\ UNCHANGED <<doc, shadowed, edits, writes>>

\* A plan the bytes themselves refuse is refused again: only the others are kept.
PreviewBundle(b) ==
  /\ review = None /\ writes < MaxWrites
  /\ LET plan == PlanBundle(doc, b)
     IN  plan # Refused /\ review' = BundleRevision(b, Projection(plan))
  /\ UNCHANGED <<doc, shadowed, edits, writes>>

\* The call repeats the proposal's rule ids; the pending token holds their hashes.
ConfirmRule(r, supersedes) ==
  /\ review # None /\ review.kind = "rule"
  /\ ~shadowed
  /\ review = RuleRevision(r, supersedes, review.after)
  /\ Write(PlanDeploy(doc, r, supersedes))
  /\ review' = None

ConfirmBundle(b) ==
  /\ review # None /\ review.kind = "bundle"
  /\ ~shadowed
  /\ review.before = doc
  /\ {Token(i, doc) : i \in b} = review.tokens
  /\ Write(PlanBundle(doc, b))
  /\ review' = None

Dismiss ==
  /\ review # None
  /\ review' = None
  /\ UNCHANGED <<doc, shadowed, edits, writes>>

-----------------------------------------------------------------------------
(* The user, with an editor.                                               *)

Edit(after) ==
  /\ edits < MaxEdits /\ edits' = edits + 1
  /\ after # doc /\ Whole(after) /\ doc' = after
  /\ UNCHANGED <<shadowed, review, writes>>

AddAbove(l)  == Edit(<<l, NewlineOf(doc)>> \o doc)
AddBelow(l)  == \/ Edit(Append(doc, l))
                \/ Edit(doc \o <<l, NewlineOf(doc)>>)
Convert(nl)  ==
  Edit([i \in DOMAIN doc |-> IF doc[i] \in {LF, CRLF, CR} THEN nl ELSE doc[i]])
CutLast      ==
  /\ doc # <<>>
  /\ \/ Edit(Front(doc))
     \/ Last(doc) = CRLF /\ Edit(Append(Front(doc), CR))
EditBlock(r) ==
  /\ Valid(doc) /\ ~Plain(doc)
  /\ \/ Edit(Without(doc, {r}))
     \/ \E t \in {r, CR} : Edit(InsertAt(doc, MarkerEnd(doc), t))
     \/ Edit(doc \o ManagedBlock(<<r>>, NewlineOf(doc)))
Shadow       ==
  /\ edits < MaxEdits /\ edits' = edits + 1
  /\ shadowed' = ~shadowed
  /\ UNCHANGED <<doc, review, writes>>

Program ==
  \/ \E r \in Rule : Revoke(r)
  \/ /\ review = None /\ writes < MaxWrites /\ Valid(doc)
     /\ \/ \E r \in Rule, s \in SUBSET Range(RulesOf(doc)) : DeployNow(r, s) \/ PreviewRule(r, s)
        \/ \E b \in Bundles(RulesOf(doc)) : PreviewBundle(b)
  \/ \E r \in Rule, s \in SUBSET Rule : ConfirmRule(r, s)
  \/ review # None /\ review.kind = "bundle" /\ \E b \in Submitted(review.items) : ConfirmBundle(b)
  \/ Dismiss

Editor ==
  \/ \E l \in Line : AddAbove(l) \/ AddBelow(l)
  \/ \E nl \in {LF, CRLF} : Convert(nl)
  \/ \E r \in Rule : EditBlock(r)
  \/ CutLast \/ Shadow

Next == Program \/ Editor
Spec == Init /\ [][Next]_vars

-----------------------------------------------------------------------------
(* Properties.                                                             *)

Token0 == {LF, CRLF, CR, Start, End, Heading} \union Line \union Rule

\* Every reviewed plan is a document or a refusal, and a plan that is ready holds
\* valid rules within the budget.
TypeOK ==
  /\ doc \in Seq(Token0) /\ Whole(doc)
  /\ shadowed \in BOOLEAN
  /\ edits \in 0..MaxEdits /\ writes \in 0..MaxWrites
  /\ review # None =>
       /\ review.before \in Seq(Token0)
       /\ review.after # Refused =>
            /\ Valid(review.after)
            /\ Bytes(RulesOf(review.after), NewlineOf(review.before)) <= MaxBlock

\* What plan_replace cannot read back: a rule that quotes a marker, which is then there
\* twice, and the first block of a text without CRLF that ends in a carriage return, which
\* with the blank line's LF becomes one.
Misread(d, rules) ==
  \/ Range(rules) \intersect Quoting # {}
  \/ Plain(d) /\ rules # <<>> /\ d # <<>> /\ Last(d) = CR /\ NewlineOf(d) = LF

\* The checks plan_replace makes of its own result refuse exactly the plans it would
\* misread: any other plan within the budgets, and every removal, reads back as the
\* planned rules and the same outside bytes, whatever the newlines and text around them.
PlansRoundTrip ==
  Valid(doc) /\ review = None =>
    /\ \A r \in Rule, s \in SUBSET Rule :
         LET rules == Deployed(RulesOf(doc), r, s)
         IN  Deployable(RulesOf(doc), r, s) /\ Fits(rules, NewlineOf(doc)) =>
               (Verified(doc, rules) <=> ~Misread(doc, rules))
    /\ \A r \in Range(RulesOf(doc)) :
         Verified(doc, Without(RulesOf(doc), {r}))

\* Revoking a rule that was just added gives back the bytes of before, the ones
\* outside the block and the absence of a block included.
RevokeUndoesDeploy ==
  Plain(doc) /\ review = None =>
    \A r \in Rule :
      PlanDeploy(doc, r, {}) # Refused =>
        PlanRevoke(PlanDeploy(doc, r, {}), r) = doc

\* The items of a bundle, in the order of their rules' ids.
ById(items) ==
  CHOOSE f \in [1..Cardinality(items) -> items] :
    \A m, n \in DOMAIN f : m < n => IdOf[f[m].rule] < IdOf[f[n].rule]

\* The rules one deployment after another would leave, in that order.
InTurn(rules, items) ==
  LET after[n \in 0..Cardinality(items)] ==
        IF n = 0 THEN rules
        ELSE Deployed(after[n - 1], ById(items)[n].rule, ById(items)[n].supersedes)
  IN  after[Cardinality(items)]

\* A bundle of new rules leaves the document its items would leave one at a time; one
\* that reuses deployed rules still drops exactly the superseded and adds exactly its own.
BundleIsSequence ==
  review # None /\ review.kind = "bundle" /\ review.after # Refused =>
    LET before == RulesOf(review.before)
        after  == RulesOf(review.after)
        new    == {i.rule : i \in review.items}
    IN  /\ Range(after) = (Range(before) \ Superseded(review.items)) \union new
        /\ \A i, j \in review.items : i # j => i.supersedes \intersect j.supersedes = {}
        /\ new \intersect Range(before) = {} => after = InTurn(before, review.items)

\* No step of the program changes a byte outside the block or moves the block among
\* them, or touches a document it cannot read or one an override shadows.
OutsideKept ==
  [][doc' # doc /\ edits' = edits =>
       /\ Valid(doc) /\ ~shadowed
       /\ Valid(doc') /\ Outside(doc') = Outside(doc)
       /\ ~Plain(doc') =>
            RegionStart(doc') = IF Plain(doc) THEN Len(doc) + 1 ELSE RegionStart(doc)]_vars

\* What a confirmation writes is what the review showed, on the bytes it showed it for.
ConfirmsWhatWasShown ==
  [][doc' # doc /\ review # None /\ edits' = edits =>
       /\ doc = review.before
       /\ review.after # Refused => doc' = review.after]_vars
=============================================================================
