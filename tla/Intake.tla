------------------------------- MODULE Intake -------------------------------
(***************************************************************************)
(* What bakers say and what it makes true: domain/intake.py (statements),  *)
(* interpretation.py and grounding.py (what a statement concludes),        *)
(* semantic_intake.py (a model's reading, fetched with no lock held),      *)
(* physical.py (the facts, the ledger, corrections) and the first half of  *)
(* analysis.py, up to the plan CaseWorkflow starts from.  Cases share the  *)
(* lines of deliveries; an execution holds its own case's lock, reads the  *)
(* lines, and locks them only when it writes.                              *)
(***************************************************************************)
EXTENDS Integers, Sequences, FiniteSets, FiniteSetsExt

CONSTANTS Cases,
          Lines,       \* lines of supplier commitments
          DeliveryOf,  \* the commitment of each line
          ResourceOf,  \* what each line is of
          Quantity,    \* how much, or Unknown (NULL)
          Reported,    \* the resource each case's report names as not received
          Readable,    \* the cases whose report the lexicon reads
          OfSupplier,  \* the deliveries of the supplier each report names, if it names one
          DueToday,    \* the deliveries due today, if the report says "today"
          OpeningCount, \* the resources the inventory ledger has an entry of from the start
          Corrections, \* what a correction may say of each resource
          Ceiling,     \* CLARIFICATION_CEILING
          MaxAttempts, \* retry.MAX_ATTEMPTS
          MaxCorrections, \* bound: corrections accepted
          MaxWithdrawals, \* bound: withdrawals accepted
          MaxClaimed,     \* bound: steps of a case claimed when it is withdrawn
          Unknown,     \* a quantity nobody counted
          Nobody       \* no commitment, no binding, no reading, no execution

Deliveries == {DeliveryOf[l] : l \in Lines}
Resources  == {ResourceOf[l] : l \in Lines}
Says       == {"MISSING", "ARRIVED", "SILENT"}

ASSUME IntakeAssumption ==
    /\ IsFiniteSet(Cases)
    /\ Quantity \in [Lines -> Nat \cup {Unknown}]
    /\ Reported \in [Cases -> Resources]
    /\ Readable \subseteq Cases
    /\ OfSupplier \in [Cases -> SUBSET Deliveries]
    /\ DueToday \in [Cases -> SUBSET Deliveries]
    /\ OpeningCount \subseteq Resources
    /\ Corrections \subseteq [Resources -> Says]
    /\ Ceiling \in Nat \ {0}
    /\ MaxAttempts \in Nat \ {0}
    /\ Unknown \notin Int
    /\ Nobody \notin Deliveries

VARIABLES case,      \* cases.state; NONE before the report
          attention, \* cases.needs_owner_attention
          bound,     \* cases.exception_id: the delivery and the lines not received
          asked,     \* exception_clarifications, in order
          steps,     \* unsettled case_steps
          running,   \* the execution that holds the case's lock, and what it read
          reading,   \* case_steps.result of the semantic step: the question it was read for
          attempts,  \* claims of that step that are over
          line,      \* commitment_lines.received_state
          posted,    \* what the facts of each case have posted for each line
          counted,   \* the resources the inventory ledger has an entry of (on_hand)
          corrected, \* corrections accepted so far
          withdrawn  \* withdrawals accepted so far

words    == <<asked, reading, attempts>>
physical == <<line, posted, counted>>
bounds   == <<corrected, withdrawn>>
vars == <<case, attention, bound, steps, running, words, physical, bounds>>

CaseStates == {"NONE", "RECEIVED", "INTERPRETING", "CLARIFYING", "NEEDS_HUMAN_INTERPRETATION",
               "ANALYZED", "PLANNED", "CANCELLED"}
TerminalCases    == {"CANCELLED"}   \* RESOLVED comes after the plan
AnalysableStates == {"INTERPRETING", "ANALYZED", "PLANNED"}
LineStates       == {"EXPECTED", "RECEIVED", "NOT_RECEIVED"}
StepKinds == {"BEGIN_INTERPRETATION", "RESOLVE_OBSERVATION", "INTERPRET_SEMANTICALLY",
              "ANALYZE_IMPACT", "PLAN_RECOVERY"}

\* case_reports: why somebody spoke, which of that kind it was, and what a correction says.
Silence == [r \in Resources |-> "SILENT"]
Report        == [kind |-> "REPORT", n |-> 0, says |-> Silence]
Answer(n)     == [kind |-> "CLARIFICATION_ANSWER", n |-> n, says |-> Silence]
Correction(n, says) == [kind |-> "CORRECTION", n |-> n, says |-> says]

\* A step's key is its kind and the statement it is about.
Step(k, s) == [kind |-> k, of |-> s]

\* ClarificationOption: what choosing it would settle.
Option(code, d, scope) == [code |-> code, delivery |-> d, scope |-> scope]
Yes        == Option("CONDITION_PRESENT", Nobody, {})
No         == Option("CONDITION_ABSENT", Nobody, {})
Unclear    == Option("UNCLEAR", Nobody, {})     \* matches none of those offered
Unanswered == Option("UNANSWERED", Nobody, {})

Question(slot, options) == [slot |-> slot, options |-> options, answer |-> Unanswered]

Plus(p, q) == IF Unknown \in {p, q} THEN Unknown ELSE p + q

TypeOK ==
    /\ case \in [Cases -> CaseStates]
    /\ attention \in [Cases -> BOOLEAN]
    /\ \A c \in Cases :
          /\ bound[c] # Nobody => /\ bound[c].delivery \in Deliveries
                                  /\ bound[c].scope \subseteq Lines
          /\ Len(asked[c]) <= Ceiling
          /\ \A i \in DOMAIN asked[c] :
                /\ asked[c][i].slot \in {"COMMITMENT", "SCOPE", "CONDITION"}
                /\ asked[c][i].answer \in asked[c][i].options \cup {Unclear, Unanswered}
          /\ \A s \in steps[c] : s.kind \in StepKinds
          /\ running[c] # Nobody => running[c].step \in steps[c]
    /\ attempts \in [Cases -> 0..MaxAttempts]
    /\ line \in [Lines -> LineStates]
    /\ posted \in [Cases -> [Lines -> Int \cup {Unknown}]]
    /\ counted \subseteq Resources

Init ==
    /\ case = [c \in Cases |-> "NONE"]
    /\ attention = [c \in Cases |-> FALSE]
    /\ bound = [c \in Cases |-> Nobody]
    /\ asked = [c \in Cases |-> <<>>]
    /\ steps = [c \in Cases |-> {}]
    /\ running = [c \in Cases |-> Nobody]
    /\ reading = [c \in Cases |-> Nobody]
    /\ attempts = [c \in Cases |-> 0]
    /\ line = [l \in Lines |-> "EXPECTED"]
    /\ posted = [c \in Cases |-> [l \in Lines |-> 0]]
    /\ counted = OpeningCount
    /\ corrected = 0
    /\ withdrawn = 0

-----------------------------------------------------------------------------
(* What a statement concludes: interpretation.py.  `view' is the lines as  *)
(* the execution read them.                                                *)

Ask(slot, options)  == [kind |-> "ASK", question |-> Question(slot, options)]
Record(d, scope)    == [kind |-> "RECORD", delivery |-> d, scope |-> scope]
Escalation          == [kind |-> "ESCALATE"]
Unread              == [kind |-> "UNREAD"]  \* a stop that a second reading may get past

OpenLines(view, d) == {l \in Lines : DeliveryOf[l] = d /\ view[l] = "EXPECTED"}
Named(c, ls)       == {l \in ls : ResourceOf[l] = Reported[c]}

\* A supplier or a day that fits no candidate narrows nothing.
Narrowed(ds, meant) == IF ds \cap meant = {} THEN ds ELSE ds \cap meant

\* _commitment_candidates.
Candidates(c, view, pin) ==
    LET owed == {d \in Deliveries : Named(c, OpenLines(view, d)) # {}}
    IN  IF pin = Nobody THEN Narrowed(Narrowed(owed, OfSupplier[c]), DueToday[c])
        ELSE owed \cap {pin}

ScopeQuestion(c, view, d) ==
    Ask("SCOPE", {Option("WHOLE_DELIVERY", d, OpenLines(view, d)),
                  Option("JUST", d, Named(c, OpenLines(view, d)))})

\* [mutant] whatever else the delivery held is not asked about.
DeliverySettledByName(c, view, d, scope) ==
    IF scope # {} /\ scope \subseteq OpenLines(view, d)
    THEN Record(d, scope)
    ELSE Record(d, Named(c, OpenLines(view, d)))

\* The scope an answer chose, if its lines are all still open; else the report's words alone.
DeliverySettled(c, view, d, scope) ==
    IF scope # {} /\ scope \subseteq OpenLines(view, d)
    THEN Record(d, scope)
    ELSE IF Named(c, OpenLines(view, d)) = OpenLines(view, d)
    THEN Record(d, OpenLines(view, d))
    ELSE ScopeQuestion(c, view, d)

\* _resolve_supply.
ResolveSupply(c, view, pin, scope) ==
    LET ds == Candidates(c, view, pin)
    IN  IF ds = {} THEN Escalation
        ELSE IF Cardinality(ds) > 1
        THEN Ask("COMMITMENT", {Option("DELIVERY", d, {}) : d \in ds})
        ELSE DeliverySettled(c, view, CHOOSE d \in ds : TRUE, scope)

ConditionQuestion == Ask("CONDITION", {Yes, No})

Last(c) == asked[c][Len(asked[c])]

AnswerConcludes(c, view) ==
    IF Last(c).slot # "CONDITION"
    THEN ResolveSupply(c, view, Last(c).answer.delivery, Last(c).answer.scope)
    ELSE IF Last(c).answer = Yes THEN ResolveSupply(c, view, Nobody, {})
    ELSE IF Last(c).answer = No THEN Escalation
    ELSE ConditionQuestion

\* [mutant] the ceiling itself still asks.
OneMoreQuestion(c, o) == IF o.kind = "ASK" /\ Len(asked[c]) > Ceiling THEN Escalation ELSE o

\* A question the case may no longer ask becomes a case a person binds.
WithinCeiling(c, o) == IF o.kind = "ASK" /\ Len(asked[c]) >= Ceiling THEN Escalation ELSE o

Interpretation(c, view, s) ==
    IF s.kind = "CLARIFICATION_ANSWER" THEN WithinCeiling(c, AnswerConcludes(c, view))
    ELSE IF c \in Readable THEN WithinCeiling(c, ResolveSupply(c, view, Nobody, {}))
    ELSE Unread

\* resolve_semantic_observation, of a reading that grounded: a question at most.
ReadingConcludes(c, view) ==
    IF WithinCeiling(c, ResolveSupply(c, view, Nobody, {})) = Escalation
    THEN Escalation
    ELSE ConditionQuestion

-----------------------------------------------------------------------------
(* What a conclusion writes: physical.py.  Each settles the execution's    *)
(* step and gives the case's lock back.                                    *)

Settles(c, s, successors) ==
    /\ steps' = [steps EXCEPT ![c] = (@ \ {s}) \cup successors]
    /\ running' = [running EXCEPT ![c] = Nobody]

MovesTo(c, state) == case' = [case EXCEPT ![c] = state]

AskQuestion(c, s, question) ==
    /\ asked' = [asked EXCEPT ![c] = Append(@, question)]
    /\ MovesTo(c, "CLARIFYING")
    /\ Settles(c, s, {})
    /\ UNCHANGED <<attention, bound, physical>>

Escalate(c, s) ==
    /\ MovesTo(c, "NEEDS_HUMAN_INTERPRETATION")
    /\ attention' = [attention EXCEPT ![c] = TRUE]
    /\ Settles(c, s, {})
    /\ UNCHANGED <<bound, asked, physical>>

\* _record: every line of the delivery that is still open settles, here and now.
RecordFacts(c, s, d, scope) ==
    LET settled == OpenLines(line, d)
        arrived == settled \ scope
    IN  /\ line' = [l \in Lines |-> IF l \notin settled THEN line[l]
                                    ELSE IF l \in scope THEN "NOT_RECEIVED" ELSE "RECEIVED"]
        /\ posted' = [posted EXCEPT ![c] =
                        [l \in Lines |-> IF l \in arrived THEN Plus(@[l], Quantity[l]) ELSE @[l]]]
        /\ counted' = counted \cup {ResourceOf[l] : l \in arrived}
        /\ bound' = [bound EXCEPT ![c] =
                        IF @ = Nobody THEN [delivery |-> d, scope |-> scope] ELSE @]
        /\ Settles(c, s, {Step("ANALYZE_IMPACT", s.of)})
        /\ UNCHANGED <<case, attention, asked>>

SettleOutcome(c, s, o) ==
    \/ o.kind = "ASK" /\ AskQuestion(c, s, o.question)
    \/ o.kind = "RECORD" /\ RecordFacts(c, s, o.delivery, o.scope)
    \/ o.kind \in {"ESCALATE", "UNREAD"} /\ Escalate(c, s)

\* _interpret_correction: the lines it restates, none if it cannot be read.
Restated(c, says) ==
    LET own   == {l \in Lines : DeliveryOf[l] = bound[c].delivery}
        named == {r \in Resources : says[r] # "SILENT"}
    IN  IF named \subseteq {ResourceOf[l] : l \in own}
        THEN {l \in own : ResourceOf[l] \in named}
        ELSE {}

TrueState(says, l) == IF says[ResourceOf[l]] = "MISSING" THEN "NOT_RECEIVED" ELSE "RECEIVED"

\* [mutant] the postings of this case's own exception.
PostedByCase(c, l) == posted[c][l]

\* _posted_for_line: every fact about the line, whichever case attested it.
PostedForLine(c, l) == FoldSet(LAMBDA d, sum : Plus(sum, posted[d][l]), 0, Cases)

\* None (post nothing) is a movement of nothing.
CompensatingDelta(sum, state, quantity) ==
    IF state = "RECEIVED"
    THEN IF quantity = Unknown THEN 0
         ELSE quantity - (IF sum = Unknown THEN 0 ELSE sum)
    ELSE IF sum = Unknown THEN 0 ELSE -sum

\* _correct and _compensate.
Correct(c, s) ==
    LET says    == s.of.says
        changed == {l \in Restated(c, says) : line[l] # TrueState(says, l)}
        delta(l) == CompensatingDelta(PostedForLine(c, l), TrueState(says, l), Quantity[l])
    IN  /\ line' = [l \in Lines |-> IF l \in changed THEN TrueState(says, l) ELSE line[l]]
        /\ posted' = [posted EXCEPT ![c] =
                        [l \in Lines |-> IF l \in changed THEN Plus(@[l], delta(l)) ELSE @[l]]]
        /\ counted' = counted \cup {ResourceOf[l] : l \in {k \in changed : delta(k) # 0}}
        /\ Settles(c, s, {Step("ANALYZE_IMPACT", s.of)})
        /\ UNCHANGED <<case, attention, bound, asked>>

-----------------------------------------------------------------------------
(* What people say: intake.py and withdrawal.py.  Each takes the case's    *)
(* lock for one transaction.                                               *)

Unlocked(c) == running[c] = Nobody
Enqueue(c, s) == steps' = [steps EXCEPT ![c] = @ \cup {Step("BEGIN_INTERPRETATION", s)}]

OpenPhysicalException(c) ==
    /\ case[c] = "NONE"
    /\ MovesTo(c, "RECEIVED")
    /\ Enqueue(c, Report)
    /\ UNCHANGED <<attention, bound, running, words, physical, bounds>>

AnswerClarification(c) ==
    /\ Unlocked(c)
    /\ case[c] = "CLARIFYING"
    /\ Last(c).answer = Unanswered
    /\ \E a \in Last(c).options \cup {Unclear} :
          asked' = [asked EXCEPT ![c][Len(asked[c])].answer = a]
    /\ Enqueue(c, Answer(Len(asked[c])))
    /\ UNCHANGED <<case, attention, bound, running, reading, attempts, physical, bounds>>

CorrectPhysicalFact(c) ==
    /\ Unlocked(c)
    /\ bound[c] # Nobody
    /\ corrected < MaxCorrections
    /\ corrected' = corrected + 1
    /\ \E says \in Corrections : Enqueue(c, Correction(corrected + 1, says))
    /\ UNCHANGED <<case, attention, bound, running, words, physical, withdrawn>>

\* Nothing consequential yet; steps already claimed are not stood down.  A case that is
\* executing may reconcile instead: CaseWorkflow.
Withdraw(c) ==
    /\ Unlocked(c)
    /\ case[c] \notin TerminalCases \cup {"NONE"}
    /\ withdrawn < MaxWithdrawals
    /\ withdrawn' = withdrawn + 1
    /\ MovesTo(c, "CANCELLED")
    /\ \E claimed \in SUBSET steps[c] :
          /\ Cardinality(claimed) <= MaxClaimed
          /\ steps' = [steps EXCEPT ![c] = claimed]
    /\ UNCHANGED <<attention, bound, running, words, physical, corrected>>

-----------------------------------------------------------------------------
(* What a worker executes.                                                 *)

\* interpretation.begin: from any state that is not terminal.
BeginInterpretation(c, s) ==
    /\ Unlocked(c)
    /\ s.kind = "BEGIN_INTERPRETATION"
    /\ IF case[c] \in TerminalCases
       THEN Settles(c, s, {}) /\ UNCHANGED case
       ELSE Settles(c, s, {Step("RESOLVE_OBSERVATION", s.of)}) /\ MovesTo(c, "INTERPRETING")
    /\ UNCHANGED <<attention, bound, words, physical, bounds>>

\* hydrate: the lines and the ledger are read, and not locked.
Hydrate(c, s) ==
    /\ Unlocked(c)
    /\ s.kind \in {"RESOLVE_OBSERVATION", "INTERPRET_SEMANTICALLY"}
    /\ running' = [running EXCEPT ![c] = [step |-> s, view |-> line, counted |-> counted]]
    /\ UNCHANGED <<case, attention, bound, steps, words, physical, bounds>>

ResolveObservation(c) ==
    /\ ~Unlocked(c)
    /\ LET s == running[c].step
           o == Interpretation(c, running[c].view, s.of)
       IN  /\ s.kind = "RESOLVE_OBSERVATION"
           /\ IF s.of.kind = "CORRECTION"
              THEN IF Restated(c, s.of.says) = {} THEN Escalate(c, s) ELSE Correct(c, s)
              ELSE IF o = Unread /\ bound[c] = Nobody
              THEN /\ Settles(c, s, {Step("INTERPRET_SEMANTICALLY", s.of)})
                   /\ UNCHANGED <<case, attention, bound, asked, physical>>
              ELSE SettleOutcome(c, s, o)
    /\ UNCHANGED <<reading, attempts, bounds>>

\* request_fingerprint: what is on offer, and how many questions the case has asked.  _offerable:
\* a resource is on offer if a delivery still owes it or the ledger has counted it.
Fingerprint(c, view, known) ==
    LET open == {l \in Lines : view[l] = "EXPECTED"}
    IN  [lines |-> open, resources |-> {ResourceOf[l] : l \in open} \cup known,
         asked |-> Len(asked[c])]

Rejected == [lines |-> {}, resources |-> {}, asked |-> -1]

\* semantic_intake.prepare, by the claim's holder before it executes and beside everything else:
\* a model answers, its answer is refused, or there is none.  Only an answer is kept.
PrepareReading(c, s) ==
    /\ s.kind = "INTERPRET_SEMANTICALLY"
    /\ running[c] # Nobody => running[c].step # s
    /\ case[c] = "INTERPRETING"
    /\ reading[c] \in {Nobody, Rejected}
    /\ \E r \in {Fingerprint(c, line, counted), Rejected, Nobody} :
          reading' = [reading EXCEPT ![c] = r]
    /\ UNCHANGED <<case, attention, bound, asked, attempts, steps, running, physical,
                   bounds>>

LastAttempt(c) == attempts[c] + 1 >= MaxAttempts

\* The worker dies, or its lease runs out, before its transaction commits: the step is claimed
\* again, with whatever reading is stored on it.
LoseClaim(c, s) ==
    /\ s.kind \in {"RESOLVE_OBSERVATION", "INTERPRET_SEMANTICALLY"}
    /\ running[c] # Nobody => running[c].step = s
    /\ running' = [running EXCEPT ![c] = Nobody]
    /\ attempts' = IF s.kind = "INTERPRET_SEMANTICALLY" /\ ~LastAttempt(c)
                   THEN [attempts EXCEPT ![c] = @ + 1]
                   ELSE attempts
    /\ UNCHANGED <<case, attention, bound, asked, steps, reading, physical, bounds>>

\* The retry's result replaces the stored reading.
RetrySemantic(c) ==
    /\ ~LastAttempt(c)
    /\ attempts' = [attempts EXCEPT ![c] = @ + 1]
    /\ reading' = [reading EXCEPT ![c] = Nobody]
    /\ running' = [running EXCEPT ![c] = Nobody]
    /\ UNCHANGED <<case, attention, bound, asked, steps, physical>>

\* The ladder's end for a reading that is stale once more: the step fails, and says so.
GiveUpOnReading(c, s) ==
    /\ LastAttempt(c)
    /\ attention' = [attention EXCEPT ![c] = TRUE]
    /\ Settles(c, s, {})
    /\ UNCHANGED <<case, bound, words, physical>>

ReadingIsCurrent(c) ==
    reading[c] = Fingerprint(c, running[c].view, running[c].counted)

ConsumeReading(c, s, view) ==
    \/ /\ reading[c] = Nobody
       /\ \/ RetrySemantic(c)
          \/ LastAttempt(c) /\ Escalate(c, s) /\ UNCHANGED <<reading, attempts>>
    \/ /\ reading[c] = Rejected
       /\ Escalate(c, s)
       /\ UNCHANGED <<reading, attempts>>
    \/ /\ reading[c] \notin {Nobody, Rejected}
       /\ ~ReadingIsCurrent(c)
       /\ RetrySemantic(c) \/ GiveUpOnReading(c, s)
    \/ /\ reading[c] \notin {Nobody, Rejected}
       /\ ReadingIsCurrent(c)
       /\ \E o \in {Escalation, ReadingConcludes(c, view)} : SettleOutcome(c, s, o)
       /\ UNCHANGED <<reading, attempts>>

ConsumeSemantic(c) ==
    /\ ~Unlocked(c)
    /\ LET s == running[c].step
       IN  /\ s.kind = "INTERPRET_SEMANTICALLY"
           /\ IF case[c] # "INTERPRETING"
              THEN Settles(c, s, {}) /\ UNCHANGED <<case, attention, bound, words, physical>>
              ELSE ConsumeReading(c, s, running[c].view)
    /\ UNCHANGED bounds

\* [mutant] the first pass is not among the states an analysis means something in.
AnalysedAgainOnly(c) == case[c] \in {"ANALYZED", "PLANNED"}

Analysable(c) == case[c] \in AnalysableStates

Analyze(c, s) ==
    /\ Unlocked(c)
    /\ s.kind = "ANALYZE_IMPACT"
    /\ IF Analysable(c)
       THEN /\ MovesTo(c, "ANALYZED")
            /\ Settles(c, s, {Step("PLAN_RECOVERY", s.of)})
       ELSE Settles(c, s, {}) /\ UNCHANGED case
    /\ UNCHANGED <<attention, bound, words, physical, bounds>>

\* A plan is written of the world that was analysed; the promises and stock behind it, which
\* are not here, may have moved, and then nothing is written.
Plan(c, s) ==
    /\ Unlocked(c)
    /\ s.kind = "PLAN_RECOVERY"
    /\ \/ case[c] = "ANALYZED" /\ MovesTo(c, "PLANNED")
       \/ UNCHANGED case
    /\ Settles(c, s, {})
    /\ UNCHANGED <<attention, bound, words, physical, bounds>>

-----------------------------------------------------------------------------
Executing(c) ==
    \/ \E s \in steps[c] :
          BeginInterpretation(c, s) \/ Hydrate(c, s) \/ Analyze(c, s) \/ Plan(c, s)
    \/ ResolveObservation(c)
    \/ ConsumeSemantic(c)

Next ==
    \E c \in Cases :
          \/ OpenPhysicalException(c)
          \/ AnswerClarification(c)
          \/ CorrectPhysicalFact(c)
          \/ Withdraw(c)
          \/ \E s \in steps[c] : PrepareReading(c, s) \/ LoseClaim(c, s)
          \/ Executing(c)

Spec == Init /\ [][Next]_vars

-----------------------------------------------------------------------------
\* "On-hand tells the corrected truth" (_compensating_delta): what the ledger was moved by on
\* account of a line is its quantity when it is received and nothing when it is not, however
\* many cases reported and corrected one delivery, in whatever order.
OnHandTellsTheTruth ==
    \A l \in Lines :
        Quantity[l] # Unknown =>
            FoldSet(LAMBDA c, sum : Plus(sum, posted[c][l]), 0, Cases)
              = (IF line[l] = "RECEIVED" THEN Quantity[l] ELSE 0)

\* "Guessing either way would settle a line nobody attested" (_scope_question), and a model
\* never attests: a line settles on a report only as somebody said.  What the report names
\* may be missing because the words say so, or because a baker said yes to the condition; what
\* it does not name settles as an answer chose.
SettledAsAttested ==
    [][\A c \in Cases : bound[c] = Nobody /\ bound'[c] # Nobody =>
          /\ c \in Readable \/ \E i \in DOMAIN asked[c] : asked[c][i].answer = Yes
          /\ \A l \in Lines :
                line'[l] # line[l] /\ ResourceOf[l] # Reported[c] =>
                    \E i \in DOMAIN asked[c] :
                        /\ asked[c][i].slot = "SCOPE"
                        /\ asked[c][i].answer.scope = bound'[c].scope]_vars

\* A statement is never left with nobody.  While a case is being interpreted some step of it is
\* still to execute, or its owner's attention has been called; and while it waits for a baker,
\* its latest question is open, or the answer has a step that will read it: whatever was
\* retried, refused, stale, corrected, settled by another case or claimed and lost meanwhile.
SomebodyHasIt ==
    \A c \in Cases :
        /\ case[c] \in {"RECEIVED", "INTERPRETING"} => steps[c] # {} \/ attention[c]
        /\ case[c] = "CLARIFYING" =>
              /\ asked[c] # <<>>
              /\ \/ Last(c).answer = Unanswered
                 \/ Step("BEGIN_INTERPRETATION", Answer(Len(asked[c]))) \in steps[c]
=============================================================================
