---------------------------- MODULE Intake_proofs ----------------------------
(* Theorems of Intake, for any finite set of cases, any lines and deliveries *)
(* and any bounds.                                                           *)
EXTENDS Intake, FiniteSetTheorems, WellFoundedInduction, TLAPS

-----------------------------------------------------------------------------
(* What the ledger was moved by on account of a line is a sum over the       *)
(* cases.  FoldSet takes them in an order of its own; a sum is one that does *)
(* not depend on it.                                                         *)

Amounts == Int \cup {Unknown}

\* g gives every part of S its sum of p: taking any element away takes its amount away.
Adds(g, p, S) ==
    /\ g \in [SUBSET S -> Amounts]
    /\ g[{}] = 0
    /\ \A s \in SUBSET S : \A x \in s : g[s] = Plus(g[s \ {x}], p[x])

LEMMA PlusAmounts == \A x, y \in Amounts : Plus(x, y) \in Amounts
  BY IntakeAssumption DEF Amounts, Plus

LEMMA PlusSwaps == \A x, y, z \in Amounts : Plus(Plus(x, y), z) = Plus(Plus(x, z), y)
  BY IntakeAssumption DEF Amounts, Plus

LEMMA PlusGroups == \A x, y, z \in Amounts : Plus(Plus(x, y), z) = Plus(x, Plus(y, z))
  BY IntakeAssumption DEF Amounts, Plus

LEMMA SmallestSubset ==
  ASSUME NEW S, IsFiniteSet(S), NEW T, T \subseteq SUBSET S, T # {}
  PROVE  \E s \in T : \A u \in T : u \subseteq s => u = s
  <1>1. IsWellFoundedOn(StrictSubsetOrdering(S), SUBSET S)
    BY FS_StrictSubsetOrderingWellFounded, FS_FiniteSubsetsOfFinite
  <1>2. PICK s \in T : \A u \in T : <<u, s>> \notin StrictSubsetOrdering(S)
    BY <1>1, WFMin
  <1> QED BY <1>2 DEF StrictSubsetOrdering

\* Every finite set of cases has a sum, of one element more than a smaller set that has.
LEMMA SumsExist ==
  ASSUME NEW S, IsFiniteSet(S), NEW p \in [S -> Amounts]
  PROVE  \E g : Adds(g, p, S)
  <1> DEFINE Without == {s \in SUBSET S : ~ \E g : Adds(g, p, s)}
  <1>1. SUFFICES ASSUME Without # {} PROVE FALSE
    <2>1. S \in SUBSET S
      OBVIOUS
    <2> QED BY <2>1, Zenon
  <1>2. PICK s \in Without : \A u \in Without : u \subseteq s => u = s
    <2>1. Without \subseteq SUBSET S
      OBVIOUS
    <2> HIDE DEF Without
    <2> QED BY <1>1, <2>1, SmallestSubset
  <1>3. s # {}
    <2> DEFINE none == [x \in {{}} |-> 0]
    <2>1. Adds(none, p, {})
      BY DEF Adds, Amounts
    <2> QED BY <2>1, <1>2
  <1>4. PICK a \in s : TRUE
    BY <1>3
  <1>5. PICK g : Adds(g, p, s \ {a})
    BY <1>2, <1>4
  <1> DEFINE h == [u \in SUBSET s |-> IF a \in u THEN Plus(g[u \ {a}], p[a]) ELSE g[u]]
  <1>6. p[a] \in Amounts /\ s \in SUBSET S
    BY <1>4
  <1>7. /\ \A u \in SUBSET s : a \notin u => h[u] = g[u] /\ g[u] \in Amounts
        /\ \A u \in SUBSET s : a \in u => /\ h[u] = Plus(g[u \ {a}], p[a])
                                          /\ g[u \ {a}] \in Amounts
    <2>1. \A u \in SUBSET s : a \notin u => u \in SUBSET (s \ {a})
      OBVIOUS
    <2>2. \A u \in SUBSET s : u \ {a} \in SUBSET (s \ {a})
      OBVIOUS
    <2> QED BY <1>5, <2>1, <2>2 DEF Adds
  <1>8. h \in [SUBSET s -> Amounts]
    BY <1>6, <1>7, PlusAmounts
  <1>9. h[{}] = 0
    BY <1>5 DEF Adds
  <1> HIDE DEF h
  <1>10. ASSUME NEW u \in SUBSET s, NEW x \in u
         PROVE  h[u] = Plus(h[u \ {x}], p[x])
    <2>1. CASE a \notin u
      <3>1. u \in SUBSET (s \ {a})
        BY <2>1
      <3>2. g[u] = Plus(g[u \ {x}], p[x])
        BY <1>5, <3>1 DEF Adds
      <3> QED BY <1>7, <2>1, <3>2
    <2>2. CASE x = a
      BY <1>7, <2>2
    <2>3. CASE a \in u /\ x # a
      <3>1. /\ u \ {a} \in SUBSET (s \ {a}) /\ x \in u \ {a}
            /\ (u \ {a}) \ {x} = (u \ {x}) \ {a}
        BY <2>3
      <3>2. g[u \ {a}] = Plus(g[(u \ {x}) \ {a}], p[x])
        BY <1>5, <3>1 DEF Adds
      <3>3. /\ h[u] = Plus(g[u \ {a}], p[a])
            /\ h[u \ {x}] = Plus(g[(u \ {x}) \ {a}], p[a])
            /\ g[(u \ {x}) \ {a}] \in Amounts
        BY <1>7, <2>3
      <3>4. p[x] \in Amounts
        BY <1>6
      <3>5. Plus(Plus(g[(u \ {x}) \ {a}], p[x]), p[a])
              = Plus(Plus(g[(u \ {x}) \ {a}], p[a]), p[x])
        BY <1>6, <3>3, <3>4, PlusSwaps
      <3> QED BY <3>2, <3>3, <3>5
    <2> QED BY <2>1, <2>2, <2>3
  <1>11. Adds(h, p, s)
    BY <1>8, <1>9, <1>10 DEF Adds
  <1> QED BY <1>2, <1>11

\* Adding to one element adds to every set that has it.
LEMMA SumGrows ==
  ASSUME NEW S, NEW p \in [S -> Amounts], NEW g, Adds(g, p, S),
         NEW a \in S, NEW more \in Amounts
  PROVE  \E h : /\ Adds(h, [p EXCEPT ![a] = Plus(@, more)], S)
                /\ h[S] = Plus(g[S], more)
  <1> DEFINE h == [u \in SUBSET S |-> IF a \in u THEN Plus(g[u], more) ELSE g[u]]
             q == [p EXCEPT ![a] = Plus(@, more)]
  <1>1. /\ \A u \in SUBSET S : g[u] \in Amounts
        /\ h \in [SUBSET S -> Amounts] /\ h[{}] = 0 /\ h[S] = Plus(g[S], more)
    BY PlusAmounts DEF Adds
  <1>0. \A u \in SUBSET S : h[u] = IF a \in u THEN Plus(g[u], more) ELSE g[u]
    OBVIOUS
  <1>q. q[a] = Plus(p[a], more) /\ \A x \in S \ {a} : q[x] = p[x]
    OBVIOUS
  <1> HIDE DEF h, q
  <1>2. ASSUME NEW u \in SUBSET S, NEW x \in u
        PROVE  h[u] = Plus(h[u \ {x}], q[x])
    <2>1. g[u] = Plus(g[u \ {x}], p[x]) /\ g[u \ {x}] \in Amounts /\ p[x] \in Amounts
      BY <1>1 DEF Adds
    <2>2. CASE x = a
      <3>1. h[u] = Plus(g[u], more) /\ h[u \ {x}] = g[u \ {x}] /\ q[x] = Plus(p[x], more)
        BY <1>0, <1>q, <2>2
      <3>2. Plus(Plus(g[u \ {x}], p[x]), more) = Plus(g[u \ {x}], Plus(p[x], more))
        BY <2>1, PlusGroups
      <3> QED BY <2>1, <3>1, <3>2
    <2>3. CASE x # a /\ a \in u
      <3>1. h[u] = Plus(g[u], more) /\ h[u \ {x}] = Plus(g[u \ {x}], more) /\ q[x] = p[x]
        BY <1>0, <1>q, <2>3
      <3>2. Plus(Plus(g[u \ {x}], p[x]), more) = Plus(Plus(g[u \ {x}], more), p[x])
        BY <2>1, PlusSwaps
      <3> QED BY <2>1, <3>1, <3>2
    <2>4. CASE x # a /\ a \notin u
      BY <1>0, <1>q, <2>1, <2>4
    <2> QED BY <2>2, <2>3, <2>4
  <1>3. Adds(h, q, S)
    BY <1>1, <1>2 DEF Adds
  <1> QED BY <1>1, <1>3 DEF q

-----------------------------------------------------------------------------
(* Words: how the case, its questions, its steps and its execution hang      *)
(* together, case by case.                                                   *)

Codes   == {"DELIVERY", "WHOLE_DELIVERY", "JUST", "CONDITION_PRESENT", "CONDITION_ABSENT",
            "UNCLEAR", "UNANSWERED"}
Options == [code : Codes, delivery : Deliveries \cup {Nobody}, scope : SUBSET Lines]
Slots   == {"COMMITMENT", "SCOPE", "CONDITION"}
Reasons == {"REPORT", "CLARIFICATION_ANSWER", "CORRECTION"}
Statements == [kind : Reasons, n : Nat, says : [Resources -> Says]]

Questions == [slot : Slots, options : SUBSET Options, answer : Options]

\* Only a question about a delivery's scope offers lines.
Askable(q) ==
    /\ q.answer \in q.options \cup {Unclear, Unanswered}
    /\ q.slot # "SCOPE" => \A o \in q.options : o.scope = {}

WordsTyped ==
    /\ case \in [Cases -> CaseStates]
    /\ attention \in [Cases -> BOOLEAN]
    /\ bound \in [Cases -> [delivery : Deliveries, scope : SUBSET Lines] \cup {Nobody}]
    /\ asked \in [Cases -> Seq(Questions)]
    /\ steps \in [Cases -> SUBSET [kind : StepKinds, of : Statements]]
    /\ DOMAIN running = Cases
    /\ attempts \in [Cases -> 0..MaxAttempts]
    /\ corrected \in Nat

LedgerTyped ==
    /\ line \in [Lines -> LineStates]
    /\ posted \in [Cases -> [Lines -> Amounts]]
    /\ counted \subseteq Resources

Early == {"BEGIN_INTERPRETATION", "RESOLVE_OBSERVATION", "INTERPRET_SEMANTICALLY"}

\* Until its report is interpreted, a case has nothing else: no other step, no question, no
\* delivery.  That is why a reading never asks beyond the ceiling.
ReportIsAlone(c) ==
    \A s \in steps[c] : s.kind \in Early /\ s.of.kind = "REPORT" =>
        steps[c] = {s} /\ asked[c] = <<>> /\ bound[c] = Nobody

ModelsReadReports(c) ==
    \A s \in steps[c] : s.kind = "INTERPRET_SEMANTICALLY" => s.of.kind = "REPORT"

AnswersHaveQuestions(c) ==
    /\ case[c] = "CLARIFYING" => asked[c] # <<>>
    /\ \A s \in steps[c] : s.of.kind = "CLARIFICATION_ANSWER" => asked[c] # <<>>

NotBegun(c) ==
    /\ case[c] = "NONE" => /\ steps[c] = {} /\ asked[c] = <<>>
                           /\ bound[c] = Nobody /\ running[c] = Nobody
    /\ case[c] = "RECEIVED" => /\ steps[c] = {Step("BEGIN_INTERPRETATION", Report)}
                               /\ running[c] = Nobody

\* An execution has a step of its own, and what it read open may have settled since, but
\* nothing it read settled has opened.
ExecutesWhatItRead(c) ==
    running[c] # Nobody =>
        /\ running[c].step \in steps[c]
        /\ running[c].step.kind \in {"RESOLVE_OBSERVATION", "INTERPRET_SEMANTICALLY"}
        /\ \A l \in Lines : line[l] = "EXPECTED" => running[c].view[l] = "EXPECTED"

AskedWithinCeiling(c) == Len(asked[c]) <= Ceiling

AnsweredAsOffered(c) == \A i \in DOMAIN asked[c] : Askable(asked[c][i])

\* A case asks which delivery, and what of it, only of words the lexicon read or a yes.
SaidSo(c) ==
    \A i \in DOMAIN asked[c] : asked[c][i].slot # "CONDITION" =>
        c \in Readable \/ \E j \in DOMAIN asked[c] : asked[c][j].answer = Yes

\* A plan alone does not carry a statement on.
StillInterpreted(c) ==
    case[c] = "INTERPRETING" =>
        attention[c] \/ \E s \in steps[c] : s.kind # "PLAN_RECOVERY"

\* A case that waits for a baker has asked, and an answer given has its step.
WaitsForSomebody(c) ==
    case[c] = "CLARIFYING" =>
        /\ asked[c] # <<>>
        /\ \/ Last(c).answer = Unanswered
           \/ Step("BEGIN_INTERPRETATION", Answer(Len(asked[c]))) \in steps[c]

Told(c) ==
    /\ ReportIsAlone(c) /\ ModelsReadReports(c) /\ AnswersHaveQuestions(c) /\ NotBegun(c)
    /\ ExecutesWhatItRead(c) /\ AskedWithinCeiling(c) /\ AnsweredAsOffered(c)
    /\ SaidSo(c) /\ StillInterpreted(c) /\ WaitsForSomebody(c)

CountedInFull ==
    \A l \in Lines : Quantity[l] # Unknown => \A c \in Cases : posted[c][l] \in Int

-----------------------------------------------------------------------------
(* What a statement may conclude: nobody can tell, a question, or facts that *)
(* somebody attested.                                                        *)

\* The words themselves named the resource, or a baker said that it is so.
Spoken(c) == c \in Readable \/ \E j \in DOMAIN asked[c] : asked[c][j].answer = Yes

\* Every open line of the delivery is of what the report names.
OnlyTheNamed(c, view, d) == Named(c, OpenLines(view, d)) = OpenLines(view, d)

ChosenScope(c, lines) ==
    \E i \in DOMAIN asked[c] : asked[c][i].slot = "SCOPE" /\ asked[c][i].answer.scope = lines

AsksOnly(o, slots) ==
    \E q \in Questions : /\ o = [kind |-> "ASK", question |-> q]
                         /\ Askable(q) /\ q.answer = Unanswered /\ q.slot \in slots

RecordsOnly(o, lines, d) == o = Record(d, lines) /\ d \in Deliveries /\ lines \subseteq Lines

LEMMA OptionsOffered ==
  /\ {Yes, No, Unclear, Unanswered} \subseteq Options
  /\ \A d \in Deliveries, scope \in SUBSET Lines :
        /\ Option("DELIVERY", d, {}) \in Options
        /\ Option("WHOLE_DELIVERY", d, scope) \in Options
        /\ Option("JUST", d, scope) \in Options
  BY DEF Yes, No, Unclear, Unanswered, Option, Options, Codes

LEMMA SupplyConcludes ==
  ASSUME NEW c, NEW view, NEW pin, NEW scope \in SUBSET Lines,
         NEW o, o = ResolveSupply(c, view, pin, scope)
  PROVE  \/ o = Escalation
         \/ AsksOnly(o, {"COMMITMENT", "SCOPE"})
         \/ \E d \in Deliveries, lines \in SUBSET Lines :
               o = Record(d, lines)
               /\ \/ lines = scope /\ scope # {}
                  \/ OnlyTheNamed(c, view, d)
  <1> DEFINE ds == Candidates(c, view, pin)
             d == CHOOSE d \in ds : TRUE
  <1>0. ds \subseteq Deliveries
    BY DEF Candidates, Narrowed
  <1>1. CASE ds = {}
    BY <1>1 DEF ResolveSupply
  <1>2. CASE ds # {} /\ Cardinality(ds) > 1
    <2> DEFINE q == Question("COMMITMENT", {Option("DELIVERY", e, {}) : e \in ds})
    <2>1. o = [kind |-> "ASK", question |-> q]
      BY <1>2 DEF ResolveSupply, Ask
    <2>2. {Option("DELIVERY", e, {}) : e \in ds} \subseteq Options
      BY <1>0, OptionsOffered
    <2>3. q \in Questions
      BY <2>2, OptionsOffered DEF Question, Questions, Slots
    <2>4. Askable(q) /\ q.answer = Unanswered /\ q.slot = "COMMITMENT"
      BY DEF Askable, Question, Option
    <2> QED BY <2>1, <2>3, <2>4 DEF AsksOnly
  <1>3. CASE ds # {} /\ ~(Cardinality(ds) > 1)
    <2>1. d \in Deliveries
      BY <1>0, <1>3
    <2>2. o = DeliverySettled(c, view, d, scope)
      BY <1>3 DEF ResolveSupply
    <2>3. OpenLines(view, d) \in SUBSET Lines /\ Named(c, OpenLines(view, d)) \in SUBSET Lines
      BY DEF OpenLines, Named
    <2> HIDE DEF d
    <2>4. CASE scope # {} /\ scope \subseteq OpenLines(view, d)
      BY <2>1, <2>2, <2>4 DEF DeliverySettled
    <2>5. CASE /\ ~(scope # {} /\ scope \subseteq OpenLines(view, d))
               /\ Named(c, OpenLines(view, d)) = OpenLines(view, d)
      BY <2>1, <2>2, <2>3, <2>5 DEF DeliverySettled, OnlyTheNamed
    <2>6. CASE /\ ~(scope # {} /\ scope \subseteq OpenLines(view, d))
               /\ Named(c, OpenLines(view, d)) # OpenLines(view, d)
      <3> DEFINE options == {Option("WHOLE_DELIVERY", d, OpenLines(view, d)),
                             Option("JUST", d, Named(c, OpenLines(view, d)))}
                 q == Question("SCOPE", options)
      <3>1. o = [kind |-> "ASK", question |-> q]
        BY <2>2, <2>6 DEF DeliverySettled, ScopeQuestion, Ask
      <3>2. q \in Questions
        BY <2>1, <2>3, OptionsOffered DEF Question, Questions, Slots
      <3>3. Askable(q) /\ q.answer = Unanswered /\ q.slot = "SCOPE"
        BY DEF Askable, Question
      <3> QED BY <3>1, <3>2, <3>3 DEF AsksOnly
    <2> QED BY <2>4, <2>5, <2>6
  <1> QED BY <1>1, <1>2, <1>3

LEMMA ConditionAsks == AsksOnly(ConditionQuestion, {"CONDITION"})
  <1> DEFINE q == Question("CONDITION", {Yes, No})
  <1>1. q \in Questions
    BY OptionsOffered DEF Question, Questions, Slots
  <1>2. Askable(q) /\ q.answer = Unanswered /\ q.slot = "CONDITION"
    BY DEF Askable, Question, Yes, No, Option
  <1> QED BY <1>1, <1>2 DEF AsksOnly, ConditionQuestion, Ask

\* A conclusion of what was said, from what the execution read.
Concluded(c, view, o) ==
    \/ o = Escalation
    \/ AsksOnly(o, {"CONDITION"})
    \/ AsksOnly(o, {"COMMITMENT", "SCOPE"}) /\ Spoken(c)
    \/ \E d \in Deliveries, lines \in SUBSET Lines :
          /\ o = Record(d, lines)
          /\ Spoken(c)
          /\ ChosenScope(c, lines) \/ OnlyTheNamed(c, view, d)

LEMMA AnswersConclude ==
  ASSUME WordsTyped, NEW c \in Cases, SaidSo(c), AnsweredAsOffered(c),
         asked[c] # <<>>, NEW view, NEW o, o = AnswerConcludes(c, view)
  PROVE  Concluded(c, view, o)
  <1> DEFINE n == Len(asked[c])
  <1>1. /\ n \in DOMAIN asked[c] /\ asked[c][n] \in Questions /\ Askable(asked[c][n])
        /\ Last(c) = asked[c][n]
    <2>1. asked[c] \in Seq(Questions)
      BY DEF WordsTyped
    <2>2. n \in DOMAIN asked[c]
      BY <2>1
    <2> QED BY <2>1, <2>2 DEF AnsweredAsOffered, Last
  <1> HIDE DEF n
  <1>2. Last(c).answer.scope \in SUBSET Lines
    BY <1>1 DEF Questions, Options
  <1>3. CASE Last(c).slot # "CONDITION"
    <2>1. Spoken(c)
      BY <1>1, <1>3 DEF SaidSo, Spoken
    <2>2. o = ResolveSupply(c, view, Last(c).answer.delivery, Last(c).answer.scope)
      BY <1>3 DEF AnswerConcludes
    <2>3. Last(c).slot # "SCOPE" => Last(c).answer.scope = {}
      BY <1>1 DEF Askable, Unclear, Unanswered, Option
    <2>4. Last(c).answer.scope # {} => ChosenScope(c, Last(c).answer.scope)
      BY <1>1, <2>3 DEF ChosenScope
    <2> QED BY <1>2, <2>1, <2>2, <2>4, SupplyConcludes DEF Concluded
  <1>4. CASE Last(c).slot = "CONDITION" /\ Last(c).answer = Yes
    <2>1. Spoken(c)
      BY <1>1, <1>4 DEF Spoken
    <2>2. o = ResolveSupply(c, view, Nobody, {})
      BY <1>4 DEF AnswerConcludes
    <2>3. {} \in SUBSET Lines
      OBVIOUS
    <2> QED BY <2>1, <2>2, <2>3, SupplyConcludes DEF Concluded
  <1>5. CASE Last(c).slot = "CONDITION" /\ Last(c).answer # Yes
    <2>1. o = Escalation \/ o = ConditionQuestion
      BY <1>5 DEF AnswerConcludes
    <2> QED BY <2>1, ConditionAsks DEF Concluded
  <1> QED BY <1>3, <1>4, <1>5

\* A report or an answer concludes within the ceiling, or is not read.
LEMMA StatementsConclude ==
  ASSUME WordsTyped, NEW c \in Cases, SaidSo(c), AnsweredAsOffered(c), NEW view, NEW s,
         s.kind \in {"REPORT", "CLARIFICATION_ANSWER"},
         s.kind = "CLARIFICATION_ANSWER" => asked[c] # <<>>,
         NEW o, o = Interpretation(c, view, s)
  PROVE  \/ o = Unread /\ s.kind = "REPORT"
         \/ Concluded(c, view, o) /\ (o.kind = "ASK" => Len(asked[c]) < Ceiling)
  <1> DEFINE Within(p) == /\ Concluded(c, view, WithinCeiling(c, p))
                          /\ WithinCeiling(c, p).kind = "ASK" => Len(asked[c]) < Ceiling
  <1>1. ASSUME NEW p, Concluded(c, view, p) PROVE Within(p)
    <2>1. Len(asked[c]) \in Nat /\ Ceiling \in Nat
      BY IntakeAssumption DEF WordsTyped
    <2>2. CASE p.kind = "ASK" /\ Len(asked[c]) >= Ceiling
      BY <2>2 DEF WithinCeiling, Concluded, Escalation
    <2>3. CASE ~(p.kind = "ASK" /\ Len(asked[c]) >= Ceiling)
      BY <1>1, <2>1, <2>3 DEF WithinCeiling
    <2> QED BY <2>2, <2>3
  <1>2. CASE s.kind = "CLARIFICATION_ANSWER"
    <2>1. Concluded(c, view, AnswerConcludes(c, view))
      BY <1>2, AnswersConclude
    <2> QED BY <1>1, <1>2, <2>1 DEF Interpretation
  <1>3. CASE s.kind = "REPORT" /\ c \in Readable
    <2>1. Concluded(c, view, ResolveSupply(c, view, Nobody, {}))
      <3>1. {} \in SUBSET Lines
        OBVIOUS
      <3> QED BY <1>3, <3>1, SupplyConcludes DEF Concluded, Spoken
    <2> QED BY <1>1, <1>3, <2>1 DEF Interpretation
  <1>4. CASE s.kind = "REPORT" /\ c \notin Readable
    BY <1>4 DEF Interpretation
  <1> QED BY <1>2, <1>3, <1>4
-----------------------------------------------------------------------------
(* What an action of a case does to the case.                                *)

Others(c) ==
    \A d \in Cases \ {c} :
        /\ case'[d] = case[d] /\ attention'[d] = attention[d] /\ bound'[d] = bound[d]
        /\ asked'[d] = asked[d] /\ steps'[d] = steps[d] /\ running'[d] = running[d]

\* No line opens.
LinesStaySettled == \A l \in Lines : line'[l] = "EXPECTED" => line[l] = "EXPECTED"

Keeps(c) ==
    /\ attention'[c] = attention[c] /\ bound'[c] = bound[c]
    /\ running'[c] = running[c]

IsReported(c) ==
    /\ case[c] = "NONE" /\ case'[c] = "RECEIVED"
    /\ steps'[c] = steps[c] \cup {Step("BEGIN_INTERPRETATION", Report)}
    /\ asked'[c] = asked[c]
    /\ Keeps(c)

IsAnswered(c) ==
    /\ case[c] = "CLARIFYING" /\ case'[c] = case[c]
    /\ running[c] = Nobody
    /\ Last(c).answer = Unanswered
    /\ \E a \in Last(c).options \cup {Unclear} :
          asked'[c] = [asked[c] EXCEPT ![Len(asked[c])] = [@ EXCEPT !.answer = a]]
    /\ steps'[c] = steps[c] \cup {Step("BEGIN_INTERPRETATION", Answer(Len(asked[c])))}
    /\ Keeps(c)

IsCorrected(c) ==
    /\ bound[c] # Nobody
    /\ running[c] = Nobody
    /\ case'[c] = case[c] /\ asked'[c] = asked[c]
    /\ \E n \in Nat, says \in Corrections :
          steps'[c] = steps[c] \cup {Step("BEGIN_INTERPRETATION", Correction(n, says))}
    /\ Keeps(c)

IsWithdrawn(c) ==
    /\ case'[c] = "CANCELLED" /\ asked'[c] = asked[c]
    /\ running[c] = Nobody
    /\ steps'[c] \subseteq steps[c]
    /\ Keeps(c)

\* The lines are read, a reading is fetched, or an execution is given up to be retried.
IsReading(c) ==
    /\ case'[c] = case[c] /\ asked'[c] = asked[c] /\ steps'[c] = steps[c]
    /\ attention'[c] = attention[c] /\ bound'[c] = bound[c]
    /\ \/ running'[c] \in {running[c], Nobody}
       \/ \E s \in steps[c] :
             /\ s.kind \in {"RESOLVE_OBSERVATION", "INTERPRET_SEMANTICALLY"}
             /\ running'[c] = [step |-> s, view |-> line, counted |-> counted]

\* A step gives way to the next one of its statement.
HandsOn(c, s, k) ==
    /\ steps'[c] = (steps[c] \ {s}) \cup {Step(k, s.of)}
    /\ running'[c] = Nobody
    /\ asked'[c] = asked[c] /\ attention'[c] = attention[c]
    /\ \/ s.kind = "BEGIN_INTERPRETATION" /\ k = "RESOLVE_OBSERVATION"
          /\ case'[c] = "INTERPRETING" /\ bound'[c] = bound[c]
       \/ s.kind = "RESOLVE_OBSERVATION" /\ k = "INTERPRET_SEMANTICALLY"
          /\ s.of.kind = "REPORT" /\ case'[c] = case[c] /\ bound'[c] = bound[c]
       \/ s.kind = "RESOLVE_OBSERVATION" /\ k = "ANALYZE_IMPACT" /\ case'[c] = case[c]
       \/ s.kind = "ANALYZE_IMPACT" /\ k = "PLAN_RECOVERY"
          /\ case'[c] = "ANALYZED" /\ bound'[c] = bound[c]

\* A question ends a step: with the ceiling not reached, and which delivery only of what is so.
MayAsk(c, q) ==
    /\ q \in Questions /\ Askable(q) /\ q.answer = Unanswered
    /\ Len(asked[c]) < Ceiling
    /\ q.slot # "CONDITION" => Spoken(c)

Ends(c, s) ==
    /\ steps'[c] = steps[c] \ {s}
    /\ running'[c] = Nobody
    /\ bound'[c] = bound[c]
    /\ attention[c] => attention'[c]
    /\ \/ /\ case'[c] = "CLARIFYING"
          /\ \E q : MayAsk(c, q) /\ asked'[c] = Append(asked[c], q)
       \/ case'[c] \in {"NEEDS_HUMAN_INTERPRETATION", "PLANNED"} /\ asked'[c] = asked[c]
       \/ /\ case'[c] = case[c] /\ asked'[c] = asked[c]
          /\ s.kind = "BEGIN_INTERPRETATION" => case[c] = "CANCELLED"
          /\ case[c] = "INTERPRETING" => attention'[c] \/ s.kind = "PLAN_RECOVERY"

Does(c) ==
    \/ IsReported(c) \/ IsAnswered(c) \/ IsCorrected(c) \/ IsWithdrawn(c) \/ IsReading(c)
    \/ \E s \in steps[c] : Ends(c, s) \/ \E k \in StepKinds : HandsOn(c, s, k)

\* Everything a step of the case c leaves as it should.
Proper(c) == WordsTyped' /\ Others(c) /\ LinesStaySettled /\ Does(c)

LEMMA CommandsAct ==
  ASSUME WordsTyped, LedgerTyped, NEW c \in Cases, Told(c),
         OpenPhysicalException(c) \/ AnswerClarification(c) \/ CorrectPhysicalFact(c) \/ Withdraw(c)
  PROVE  Proper(c)
  <1> USE DEF words, physical, bounds
  <1>1. CASE OpenPhysicalException(c)
    <2>1. Report \in Statements
      BY DEF Report, Silence, Statements, Reasons, Says
    <2>2. WordsTyped'
      BY <1>1, <2>1
      DEF OpenPhysicalException, MovesTo, Enqueue, WordsTyped, CaseStates, Step, StepKinds
    <2>3. Others(c) /\ LinesStaySettled
      BY <1>1 DEF OpenPhysicalException, MovesTo, Enqueue, WordsTyped, Others, LinesStaySettled
    <2>4. IsReported(c)
      BY <1>1 DEF OpenPhysicalException, MovesTo, Enqueue, WordsTyped, IsReported, Keeps
    <2> QED BY <2>2, <2>3, <2>4 DEF Proper, Does
  <1>2. CASE AnswerClarification(c)
    <2> DEFINE n == Len(asked[c])
    <2>1. asked[c] # <<>>
      BY <1>2 DEF AnswerClarification, Told, AnswersHaveQuestions
    <2>2. asked[c] \in Seq(Questions) /\ n \in DOMAIN asked[c] /\ n \in Nat
      BY <2>1 DEF WordsTyped
    <2>3. asked[c][n] \in Questions /\ Askable(asked[c][n]) /\ Last(c) = asked[c][n]
      BY <2>2 DEF Told, AnsweredAsOffered, Last
    <2>4. PICK a \in Last(c).options \cup {Unclear} :
             asked' = [asked EXCEPT ![c][n].answer = a]
      BY <1>2 DEF AnswerClarification
    <2>5. a \in Options
      BY <2>3, OptionsOffered DEF Questions
    <2>6. asked'[c] = [asked[c] EXCEPT ![n] = [@ EXCEPT !.answer = a]]
      BY <2>4 DEF WordsTyped
    <2>7. [asked[c][n] EXCEPT !.answer = a] \in Questions
      BY <2>3, <2>5 DEF Questions
    <2>8. asked'[c] \in Seq(Questions)
      BY <2>2, <2>6, <2>7
    <2>9. asked' \in [Cases -> Seq(Questions)]
      BY <2>4, <2>8 DEF WordsTyped
    <2>10. Answer(n) \in Statements
      BY <2>2 DEF Answer, Silence, Statements, Reasons, Says
    <2>11. WordsTyped'
      BY <1>2, <2>9, <2>10 DEF AnswerClarification, Enqueue, WordsTyped, Step, StepKinds
    <2>12. Others(c) /\ LinesStaySettled
      BY <1>2, <2>4 DEF AnswerClarification, Enqueue, WordsTyped, Others, LinesStaySettled
    <2>13. IsAnswered(c)
      BY <1>2, <2>4, <2>6
      DEF AnswerClarification, Enqueue, Unlocked, WordsTyped, IsAnswered, Keeps
    <2> QED BY <2>11, <2>12, <2>13 DEF Proper, Does
  <1>3. CASE CorrectPhysicalFact(c)
    <2>1. PICK says \in Corrections : Enqueue(c, Correction(corrected + 1, says))
      BY <1>3 DEF CorrectPhysicalFact
    <2>2. Correction(corrected + 1, says) \in Statements /\ corrected + 1 \in Nat
      BY IntakeAssumption DEF Correction, Statements, Reasons, WordsTyped
    <2>3. WordsTyped'
      BY <1>3, <2>1, <2>2 DEF CorrectPhysicalFact, Enqueue, WordsTyped, Step, StepKinds
    <2>4. Others(c) /\ LinesStaySettled
      BY <1>3, <2>1 DEF CorrectPhysicalFact, Enqueue, WordsTyped, Others, LinesStaySettled
    <2>5. steps'[c] = steps[c] \cup {Step("BEGIN_INTERPRETATION", Correction(corrected + 1, says))}
      BY <2>1 DEF Enqueue, WordsTyped
    <2>6. IsCorrected(c)
      BY <1>3, <2>2, <2>5 DEF CorrectPhysicalFact, Unlocked, IsCorrected, Keeps
    <2> QED BY <2>3, <2>4, <2>6 DEF Proper, Does
  <1>4. CASE Withdraw(c)
    <2>1. PICK claimed \in SUBSET steps[c] : steps' = [steps EXCEPT ![c] = claimed]
      BY <1>4 DEF Withdraw
    <2>2. WordsTyped'
      BY <1>4, <2>1 DEF Withdraw, MovesTo, WordsTyped, CaseStates
    <2>3. Others(c) /\ LinesStaySettled
      BY <1>4, <2>1 DEF Withdraw, MovesTo, WordsTyped, Others, LinesStaySettled
    <2>4. IsWithdrawn(c)
      BY <1>4, <2>1 DEF Withdraw, MovesTo, Unlocked, WordsTyped, IsWithdrawn, Keeps
    <2> QED BY <2>2, <2>3, <2>4 DEF Proper, Does
  <1> QED BY <1>1, <1>2, <1>3, <1>4

LEMMA StepsAct ==
  ASSUME WordsTyped, LedgerTyped, NEW c \in Cases, Told(c), NEW s \in steps[c],
         \/ BeginInterpretation(c, s) \/ Hydrate(c, s) \/ PrepareReading(c, s)
         \/ LoseClaim(c, s) \/ Analyze(c, s) \/ Plan(c, s)
  PROVE  Proper(c)
  <1> USE DEF words, physical, bounds
  <1>s. s \in [kind : StepKinds, of : Statements]
    BY DEF WordsTyped
  <1>k. \A k \in StepKinds : Step(k, s.of) \in [kind : StepKinds, of : Statements]
    BY <1>s DEF Step
  <1>1. CASE BeginInterpretation(c, s)
    <2>1. CASE case[c] \in TerminalCases
      <3>1. Settles(c, s, {}) /\ UNCHANGED case
        BY <1>1, <2>1 DEF BeginInterpretation
      <3>2. WordsTyped'
        BY <1>1, <3>1 DEF BeginInterpretation, Settles, WordsTyped
      <3>3. Others(c) /\ LinesStaySettled
        BY <1>1, <3>1 DEF BeginInterpretation, Settles, WordsTyped, Others, LinesStaySettled
      <3>4. Ends(c, s)
        BY <1>1, <2>1, <3>1 DEF BeginInterpretation, Settles, WordsTyped, Ends, TerminalCases
      <3> QED BY <3>2, <3>3, <3>4 DEF Proper, Does
    <2>2. CASE case[c] \notin TerminalCases
      <3> DEFINE k == "RESOLVE_OBSERVATION"
      <3>1. Settles(c, s, {Step(k, s.of)}) /\ MovesTo(c, "INTERPRETING") /\ k \in StepKinds
        BY <1>1, <2>2 DEF BeginInterpretation, StepKinds
      <3>2. WordsTyped'
        BY <1>1, <1>k, <3>1
        DEF BeginInterpretation, Settles, MovesTo, WordsTyped, CaseStates
      <3>3. Others(c) /\ LinesStaySettled
        BY <1>1, <3>1
        DEF BeginInterpretation, Settles, MovesTo, WordsTyped, Others, LinesStaySettled
      <3>4. HandsOn(c, s, k)
        BY <1>1, <3>1 DEF BeginInterpretation, Settles, MovesTo, WordsTyped, HandsOn
      <3> QED BY <3>1, <3>2, <3>3, <3>4 DEF Proper, Does
    <2> QED BY <2>1, <2>2
  <1>2. CASE Hydrate(c, s)
    <2>1. WordsTyped'
      BY <1>2 DEF Hydrate, WordsTyped
    <2>2. Others(c) /\ LinesStaySettled
      BY <1>2 DEF Hydrate, WordsTyped, Others, LinesStaySettled
    <2>3. IsReading(c)
      BY <1>2 DEF Hydrate, WordsTyped, IsReading
    <2> QED BY <2>1, <2>2, <2>3 DEF Proper, Does
  <1>3. CASE PrepareReading(c, s)
    <2>1. WordsTyped' /\ Others(c) /\ LinesStaySettled
      BY <1>3 DEF PrepareReading, WordsTyped, Others, LinesStaySettled
    <2>2. IsReading(c)
      BY <1>3 DEF PrepareReading, IsReading
    <2> QED BY <2>1, <2>2 DEF Proper, Does
  <1>4. CASE Analyze(c, s)
    <2>1. CASE Analysable(c)
      <3> DEFINE k == "PLAN_RECOVERY"
      <3>1. Settles(c, s, {Step(k, s.of)}) /\ MovesTo(c, "ANALYZED") /\ k \in StepKinds
        BY <1>4, <2>1 DEF Analyze, StepKinds
      <3>2. WordsTyped'
        BY <1>4, <1>k, <3>1 DEF Analyze, Settles, MovesTo, WordsTyped, CaseStates
      <3>3. Others(c) /\ LinesStaySettled
        BY <1>4, <3>1 DEF Analyze, Settles, MovesTo, WordsTyped, Others, LinesStaySettled
      <3>4. HandsOn(c, s, k)
        BY <1>4, <3>1 DEF Analyze, Settles, MovesTo, WordsTyped, HandsOn
      <3> QED BY <3>1, <3>2, <3>3, <3>4 DEF Proper, Does
    <2>2. CASE ~Analysable(c)
      <3>1. Settles(c, s, {}) /\ UNCHANGED case
        BY <1>4, <2>2 DEF Analyze
      <3>2. WordsTyped'
        BY <1>4, <3>1 DEF Analyze, Settles, WordsTyped
      <3>3. Others(c) /\ LinesStaySettled
        BY <1>4, <3>1 DEF Analyze, Settles, WordsTyped, Others, LinesStaySettled
      <3>4. Ends(c, s)
        BY <1>4, <2>2, <3>1
        DEF Analyze, Settles, WordsTyped, Ends, Analysable, AnalysableStates
      <3> QED BY <3>2, <3>3, <3>4 DEF Proper, Does
    <2> QED BY <2>1, <2>2
  <1>5. CASE Plan(c, s)
    <2>1. /\ Settles(c, s, {}) /\ s.kind = "PLAN_RECOVERY"
          /\ (case[c] = "ANALYZED" /\ MovesTo(c, "PLANNED")) \/ UNCHANGED case
          /\ UNCHANGED <<attention, bound, asked, attempts, corrected, line>>
      BY <1>5 DEF Plan
    <2>2. WordsTyped'
      BY <2>1 DEF Settles, MovesTo, WordsTyped, CaseStates
    <2>3. Others(c) /\ LinesStaySettled
      BY <2>1 DEF Settles, MovesTo, WordsTyped, Others, LinesStaySettled
    <2>4. Ends(c, s)
      BY <2>1 DEF Settles, MovesTo, WordsTyped, Ends
    <2> QED BY <2>2, <2>3, <2>4 DEF Proper, Does
  <1>6. CASE LoseClaim(c, s)
    <2>1. WordsTyped' /\ Others(c) /\ LinesStaySettled
      BY <1>6, IntakeAssumption
      DEF LoseClaim, LastAttempt, WordsTyped, Others, LinesStaySettled
    <2>2. IsReading(c)
      BY <1>6 DEF LoseClaim, WordsTyped, IsReading
    <2> QED BY <2>1, <2>2 DEF Proper, Does
  <1> QED BY <1>1, <1>2, <1>3, <1>4, <1>5, <1>6

\* What a conclusion writes, of a step that is resolved or of a reading that is consumed.
LEMMA OutcomesAct ==
  ASSUME WordsTyped, LedgerTyped, NEW c \in Cases, NEW s \in steps[c], s = running[c].step,
         s.kind \in {"RESOLVE_OBSERVATION", "INTERPRET_SEMANTICALLY"},
         NEW o, NEW view,
         Concluded(c, view, o) \/ o = Unread,
         o.kind = "ASK" => Len(asked[c]) < Ceiling,
         o.kind = "RECORD" => s.kind = "RESOLVE_OBSERVATION",
         SettleOutcome(c, s, o), UNCHANGED <<attempts, corrected>>
  PROVE  Proper(c)
  <1> USE DEF physical
  <1>s. s \in [kind : StepKinds, of : Statements]
    BY DEF WordsTyped
  <1>1. CASE o.kind = "ASK"
    <2>1. PICK q \in Questions : /\ o = [kind |-> "ASK", question |-> q] /\ Askable(q)
                                 /\ q.answer = Unanswered
                                 /\ q.slot # "CONDITION" => Spoken(c)
      BY <1>1 DEF Concluded, AsksOnly, Escalation, Record, Unread
    <2>2. AskQuestion(c, s, q)
      BY <1>1, <2>1 DEF SettleOutcome
    <2>3. Append(asked[c], q) \in Seq(Questions)
      BY DEF WordsTyped
    <2>4. WordsTyped'
      BY <2>2, <2>3 DEF AskQuestion, MovesTo, Settles, WordsTyped, CaseStates
    <2>5. Others(c) /\ LinesStaySettled
      BY <2>2 DEF AskQuestion, MovesTo, Settles, WordsTyped, Others, LinesStaySettled
    <2>6. MayAsk(c, q)
      BY <1>1, <2>1 DEF MayAsk
    <2>7. Ends(c, s)
      BY <2>2, <2>6 DEF AskQuestion, MovesTo, Settles, WordsTyped, Ends
    <2> QED BY <2>4, <2>5, <2>7 DEF Proper, Does
  <1>2. CASE o.kind = "RECORD"
    <2>1. PICK d \in Deliveries, lines \in SUBSET Lines : o = Record(d, lines)
      BY <1>2 DEF Concluded, AsksOnly, Escalation, Unread
    <2>2. RecordFacts(c, s, d, lines)
      BY <1>2, <2>1 DEF SettleOutcome, Record
    <2>3. Step("ANALYZE_IMPACT", s.of) \in [kind : StepKinds, of : Statements]
          /\ "ANALYZE_IMPACT" \in StepKinds
      BY <1>s DEF Step, StepKinds
    <2>4. bound' \in [Cases -> [delivery : Deliveries, scope : SUBSET Lines] \cup {Nobody}]
      BY <2>2 DEF RecordFacts, WordsTyped
    <2>5. WordsTyped'
      BY <2>2, <2>3, <2>4 DEF RecordFacts, Settles, WordsTyped
    <2>6. Others(c)
      BY <2>2 DEF RecordFacts, Settles, WordsTyped, Others
    <2>7. LinesStaySettled
      BY <2>2 DEF RecordFacts, LinesStaySettled, OpenLines
    <2>8. HandsOn(c, s, "ANALYZE_IMPACT")
      BY <1>2, <2>2 DEF RecordFacts, Settles, WordsTyped, HandsOn
    <2> QED BY <2>3, <2>5, <2>6, <2>7, <2>8 DEF Proper, Does
  <1>3. CASE Escalate(c, s)
    <2>1. UNCHANGED <<attempts, corrected>> /\ Escalate(c, s)
      BY <1>3
    <2>2. WordsTyped'
      BY <2>1 DEF Escalate, MovesTo, Settles, WordsTyped, CaseStates
    <2>3. Others(c) /\ LinesStaySettled
      BY <2>1 DEF Escalate, MovesTo, Settles, WordsTyped, Others, LinesStaySettled
    <2>4. Ends(c, s)
      BY <2>1 DEF Escalate, MovesTo, Settles, WordsTyped, Ends
    <2> QED BY <2>2, <2>3, <2>4 DEF Proper, Does
  <1> QED BY <1>1, <1>2, <1>3 DEF SettleOutcome

LEMMA CorrectionsAct ==
  ASSUME WordsTyped, LedgerTyped, NEW c \in Cases, NEW s \in steps[c], s = running[c].step,
         s.kind = "RESOLVE_OBSERVATION", Correct(c, s), UNCHANGED <<attempts, corrected>>
  PROVE  Proper(c)
  <1>s. s \in [kind : StepKinds, of : Statements]
    BY DEF WordsTyped
  <1>1. Step("ANALYZE_IMPACT", s.of) \in [kind : StepKinds, of : Statements]
        /\ "ANALYZE_IMPACT" \in StepKinds
    BY <1>s DEF Step, StepKinds
  <1>2. /\ Settles(c, s, {Step("ANALYZE_IMPACT", s.of)})
        /\ UNCHANGED <<case, attention, bound, asked>>
        /\ \A l \in Lines : line'[l] # line[l] => line'[l] = TrueState(s.of.says, l)
    BY DEF Correct
  <1>3. WordsTyped'
    BY <1>1, <1>2 DEF Settles, WordsTyped
  <1>4. Others(c)
    BY <1>2 DEF Settles, WordsTyped, Others
  <1>5. LinesStaySettled
    BY <1>2 DEF TrueState, LinesStaySettled
  <1>6. HandsOn(c, s, "ANALYZE_IMPACT")
    BY <1>2 DEF Settles, WordsTyped, HandsOn
  <1> QED BY <1>1, <1>3, <1>4, <1>5, <1>6 DEF Proper, Does

LEMMA ResolutionsAct ==
  ASSUME WordsTyped, LedgerTyped, NEW c \in Cases, Told(c), ResolveObservation(c)
  PROVE  Proper(c)
  <1> DEFINE s == running[c].step
             view == running[c].view
             o == Interpretation(c, view, s.of)
  <1>1. /\ s \in steps[c] /\ s.kind = "RESOLVE_OBSERVATION"
        /\ UNCHANGED <<attempts, corrected>>
    BY DEF ResolveObservation, Unlocked, Told, ExecutesWhatItRead, bounds
  <1>2. s \in [kind : StepKinds, of : Statements]
    BY <1>1 DEF WordsTyped
  <1>3. CASE s.of.kind = "CORRECTION"
    <2>1. CASE Restated(c, s.of.says) = {}
      <3>1. Escalate(c, s)
        BY <1>3, <2>1 DEF ResolveObservation
      <3>2. SettleOutcome(c, s, Escalation) /\ Concluded(c, view, Escalation)
            /\ Escalation.kind = "ESCALATE"
        BY <3>1 DEF SettleOutcome, Escalation, Concluded
      <3> HIDE DEF s, view, o
      <3> QED BY <1>1, <3>2, OutcomesAct DEF s
    <2>2. CASE Restated(c, s.of.says) # {}
      <3>1. Correct(c, s)
        BY <1>3, <2>2 DEF ResolveObservation
      <3> HIDE DEF s
      <3> QED BY <1>1, <3>1, CorrectionsAct DEF s
    <2> QED BY <2>1, <2>2
  <1>4. CASE s.of.kind # "CORRECTION"
    <2>1. s.of.kind \in {"REPORT", "CLARIFICATION_ANSWER"}
      BY <1>2, <1>4 DEF Statements, Reasons
    <2>2. \/ o = Unread /\ s.of.kind = "REPORT"
          \/ Concluded(c, view, o) /\ (o.kind = "ASK" => Len(asked[c]) < Ceiling)
      <3>1. s.of.kind = "CLARIFICATION_ANSWER" => asked[c] # <<>>
        BY <1>1 DEF Told, AnswersHaveQuestions
      <3>2. SaidSo(c) /\ AnsweredAsOffered(c)
        BY DEF Told
      <3> HIDE DEF s, view
      <3> QED BY <2>1, <3>1, <3>2, StatementsConclude
    <2>3. CASE o = Unread /\ bound[c] = Nobody
      <3>0. ~Concluded(c, view, Unread)
        BY DEF Concluded, AsksOnly, Escalation, Record, Unread
      <3>1. s.of.kind = "REPORT"
        <4> HIDE DEF s, view, o
        <4> QED BY <2>2, <2>3, <3>0
      <3>2. /\ Settles(c, s, {Step("INTERPRET_SEMANTICALLY", s.of)})
            /\ UNCHANGED <<case, attention, bound, asked, line>>
        BY <1>4, <2>3 DEF ResolveObservation, physical
      <3>3. Step("INTERPRET_SEMANTICALLY", s.of) \in [kind : StepKinds, of : Statements]
            /\ "INTERPRET_SEMANTICALLY" \in StepKinds
        BY <1>2 DEF Step, StepKinds
      <3> HIDE DEF s, view, o
      <3>4. WordsTyped'
        BY <1>1, <3>2, <3>3 DEF Settles, WordsTyped
      <3>5. Others(c) /\ LinesStaySettled
        BY <3>2 DEF Settles, WordsTyped, Others, LinesStaySettled
      <3>6. HandsOn(c, s, "INTERPRET_SEMANTICALLY")
        BY <1>1, <3>1, <3>2 DEF Settles, WordsTyped, HandsOn
      <3> QED BY <1>1, <3>3, <3>4, <3>5, <3>6 DEF Proper, Does
    <2>4. CASE ~(o = Unread /\ bound[c] = Nobody)
      <3>1. SettleOutcome(c, s, o)
        BY <1>4, <2>4 DEF ResolveObservation
      <3>2. Unread.kind = "UNREAD"
        BY DEF Unread
      <3> HIDE DEF s, view, o
      <3> QED BY <1>1, <2>2, <3>1, <3>2, OutcomesAct DEF s
    <2> QED BY <2>3, <2>4
  <1> QED BY <1>3, <1>4

LEMMA ReadingsAct ==
  ASSUME WordsTyped, LedgerTyped, NEW c \in Cases, Told(c), ConsumeSemantic(c)
  PROVE  Proper(c)
  <1> DEFINE s == running[c].step
             view == running[c].view
  <1>1. s \in steps[c] /\ s.kind = "INTERPRET_SEMANTICALLY" /\ corrected' = corrected
    BY DEF ConsumeSemantic, Unlocked, Told, ExecutesWhatItRead, bounds
  <1>2. asked[c] = <<>> /\ bound[c] = Nobody
    BY <1>1 DEF Told, ModelsReadReports, ReportIsAlone, Early
  <1>3. Len(asked[c]) < Ceiling
    BY <1>2, IntakeAssumption
  <1>4. CASE case[c] # "INTERPRETING"
    <2>1. /\ Settles(c, s, {}) /\ UNCHANGED <<case, attention, bound, asked, attempts, line>>
      BY <1>4 DEF ConsumeSemantic, words, physical
    <2> HIDE DEF s, view
    <2>2. WordsTyped'
      BY <1>1, <2>1 DEF Settles, WordsTyped
    <2>3. Others(c) /\ LinesStaySettled
      BY <2>1 DEF Settles, WordsTyped, Others, LinesStaySettled
    <2>4. Ends(c, s)
      BY <1>1, <1>4, <2>1 DEF Settles, WordsTyped, Ends
    <2> QED BY <1>1, <2>2, <2>3, <2>4 DEF Proper, Does
  <1>5. CASE case[c] = "INTERPRETING"
    <2>0. ConsumeReading(c, s, view)
      BY <1>5 DEF ConsumeSemantic
    <2> HIDE DEF s, view
    <2>1. CASE RetrySemantic(c)
      <3>1. attempts' \in [Cases -> 0..MaxAttempts]
        BY <2>1, IntakeAssumption DEF RetrySemantic, LastAttempt, WordsTyped
      <3>2. WordsTyped'
        BY <1>1, <2>1, <3>1 DEF RetrySemantic, WordsTyped
      <3>3. Others(c) /\ LinesStaySettled
        BY <2>1 DEF RetrySemantic, WordsTyped, Others, LinesStaySettled, physical
      <3>4. IsReading(c)
        BY <2>1 DEF RetrySemantic, WordsTyped, IsReading
      <3> QED BY <3>2, <3>3, <3>4 DEF Proper, Does
    <2>2. CASE GiveUpOnReading(c, s)
      <3>1. WordsTyped'
        BY <1>1, <2>2 DEF GiveUpOnReading, Settles, WordsTyped, words
      <3>2. Others(c) /\ LinesStaySettled
        BY <2>2 DEF GiveUpOnReading, Settles, WordsTyped, Others, LinesStaySettled, words, physical
      <3>3. Ends(c, s)
        BY <1>1, <2>2 DEF GiveUpOnReading, Settles, WordsTyped, Ends, words
      <3> QED BY <1>1, <3>1, <3>2, <3>3 DEF Proper, Does
    <2>3. ASSUME NEW o \in {Escalation, ConditionQuestion},
                 SettleOutcome(c, s, o), UNCHANGED attempts
          PROVE  Proper(c)
      <3>1. Concluded(c, view, o)
        BY ConditionAsks DEF Concluded
      <3>2. o.kind # "RECORD"
        BY DEF Escalation, ConditionQuestion, Ask
      <3> QED BY <1>1, <1>3, <2>3, <3>1, <3>2, OutcomesAct DEF s
    <2>4. CASE Escalate(c, s) /\ UNCHANGED attempts
      <3>1. SettleOutcome(c, s, Escalation)
        BY <2>4 DEF SettleOutcome, Escalation
      <3> QED BY <2>3, <2>4, <3>1
    <2>5. ReadingConcludes(c, view) \in {Escalation, ConditionQuestion}
      BY DEF ReadingConcludes
    <2>6. CASE \E o \in {Escalation, ReadingConcludes(c, view)} :
                  SettleOutcome(c, s, o) /\ UNCHANGED attempts
      BY <2>3, <2>5, <2>6
    <2> QED BY <2>0, <2>1, <2>2, <2>4, <2>6 DEF ConsumeReading
  <1> QED BY <1>4, <1>5

LEMMA CasesAct ==
  ASSUME WordsTyped, LedgerTyped, \A c \in Cases : Told(c), Next
  PROVE  \E c \in Cases : Proper(c)
  <1>1. PICK c \in Cases :
          \/ OpenPhysicalException(c) \/ AnswerClarification(c) \/ CorrectPhysicalFact(c)
          \/ Withdraw(c)
          \/ \E s \in steps[c] : PrepareReading(c, s) \/ LoseClaim(c, s)
          \/ Executing(c)
    BY DEF Next
  <1> QED BY <1>1, CommandsAct, StepsAct, ResolutionsAct, ReadingsAct DEF Executing

-----------------------------------------------------------------------------
(* What each action leaves of what has been told.                            *)

LEMMA ToldOfOthers ==
  ASSUME NEW c \in Cases, Proper(c), NEW d \in Cases, d # c, Told(d)
  PROVE  Told(d)'
  <1>1. /\ case'[d] = case[d] /\ attention'[d] = attention[d] /\ bound'[d] = bound[d]
        /\ asked'[d] = asked[d] /\ steps'[d] = steps[d] /\ running'[d] = running[d]
        /\ LinesStaySettled
    BY DEF Proper, Others
  <1>2. ReportIsAlone(d)' /\ ModelsReadReports(d)' /\ AnswersHaveQuestions(d)' /\ NotBegun(d)'
    BY <1>1 DEF Told, ReportIsAlone, ModelsReadReports, AnswersHaveQuestions, NotBegun
  <1>3. ExecutesWhatItRead(d)'
    BY <1>1 DEF Told, ExecutesWhatItRead, LinesStaySettled
  <1>4. AskedWithinCeiling(d)' /\ AnsweredAsOffered(d)' /\ SaidSo(d)' /\ StillInterpreted(d)'
    BY <1>1 DEF Told, AskedWithinCeiling, AnsweredAsOffered, SaidSo, StillInterpreted
  <1>5. WaitsForSomebody(d)'
    BY <1>1 DEF Told, WaitsForSomebody, Last
  <1> QED BY <1>2, <1>3, <1>4, <1>5 DEF Told

\* The steps of a case after an action are steps it had, or new: a command's, or the next
\* one of a statement whose step is settled.
LEMMA ReportIsAloneStep ==
  ASSUME WordsTyped, NEW c \in Cases, Told(c), Does(c)
  PROVE  ReportIsAlone(c)'
  <1> DEFINE First(s) == s.kind \in Early /\ s.of.kind = "REPORT"
  <1>0. ReportIsAlone(c) /\ NotBegun(c) /\ AnswersHaveQuestions(c)
    BY DEF Told
  <1>1. CASE IsReported(c)
    <2>1. steps'[c] = {Step("BEGIN_INTERPRETATION", Report)} /\ asked'[c] = <<>>
          /\ bound'[c] = Nobody
      BY <1>0, <1>1 DEF IsReported, Keeps, NotBegun
    <2> QED BY <2>1 DEF ReportIsAlone
  <1>2. CASE IsAnswered(c)
    <2>1. \A s \in steps[c] : ~First(s)
      BY <1>0, <1>2 DEF IsAnswered, ReportIsAlone, AnswersHaveQuestions
    <2>2. ~First(Step("BEGIN_INTERPRETATION", Answer(Len(asked[c]))))
      BY DEF Step, Answer
    <2> QED BY <1>2, <2>1, <2>2 DEF IsAnswered, ReportIsAlone
  <1>3. CASE IsCorrected(c)
    <2>1. \A s \in steps[c] : ~First(s)
      BY <1>0, <1>3 DEF IsCorrected, ReportIsAlone
    <2>2. \A n \in Nat, says \in Corrections :
             ~First(Step("BEGIN_INTERPRETATION", Correction(n, says)))
      BY DEF Step, Correction
    <2> QED BY <1>3, <2>1, <2>2 DEF IsCorrected, ReportIsAlone
  <1>4. CASE IsWithdrawn(c)
    BY <1>0, <1>4 DEF IsWithdrawn, Keeps, ReportIsAlone
  <1>5. CASE IsReading(c)
    BY <1>0, <1>5 DEF IsReading, ReportIsAlone
  <1>6. ASSUME NEW s \in steps[c], Ends(c, s)
        PROVE  ReportIsAlone(c)'
    <2>1. CASE First(s)
      <3>1. steps'[c] = {}
        BY <1>0, <1>6, <2>1 DEF Ends, ReportIsAlone
      <3> QED BY <3>1 DEF ReportIsAlone
    <2>2. CASE ~First(s)
      <3>1. \A e \in steps[c] : ~First(e)
        BY <1>0, <2>2 DEF ReportIsAlone
      <3> QED BY <1>6, <3>1 DEF Ends, ReportIsAlone
    <2> QED BY <2>1, <2>2
  <1>7. ASSUME NEW s \in steps[c], NEW k \in StepKinds, HandsOn(c, s, k)
        PROVE  ReportIsAlone(c)'
    <2>1. Step(k, s.of).kind = k /\ Step(k, s.of).of = s.of
      BY DEF Step
    <2>2. CASE First(s)
      <3>1. steps'[c] = {Step(k, s.of)} /\ asked'[c] = <<>> /\ bound[c] = Nobody
        BY <1>0, <1>7, <2>2 DEF HandsOn, ReportIsAlone
      <3>2. k \in Early => bound'[c] = bound[c]
        BY <1>7 DEF HandsOn, Early
      <3> QED BY <2>1, <3>1, <3>2 DEF ReportIsAlone
    <2>3. CASE ~First(s)
      <3>1. \A e \in steps[c] : ~First(e)
        BY <1>0, <2>3 DEF ReportIsAlone
      <3>2. ~First(Step(k, s.of))
        BY <1>7, <2>1, <2>3 DEF HandsOn, Early
      <3> QED BY <1>7, <3>1, <3>2 DEF HandsOn, ReportIsAlone
    <2> QED BY <2>2, <2>3
  <1> QED BY <1>1, <1>2, <1>3, <1>4, <1>5, <1>6, <1>7 DEF Does

LEMMA ModelsReadReportsStep ==
  ASSUME WordsTyped, NEW c \in Cases, Told(c), Does(c)
  PROVE  ModelsReadReports(c)'
  <1>0. ModelsReadReports(c)
    BY DEF Told
  <1>1. CASE IsReported(c) \/ IsAnswered(c) \/ IsCorrected(c)
    BY <1>0, <1>1 DEF IsReported, IsAnswered, IsCorrected, Step, ModelsReadReports
  <1>2. CASE IsWithdrawn(c) \/ IsReading(c) \/ \E s \in steps[c] : Ends(c, s)
    BY <1>0, <1>2 DEF IsWithdrawn, IsReading, Ends, ModelsReadReports
  <1>3. ASSUME NEW s \in steps[c], NEW k \in StepKinds, HandsOn(c, s, k)
        PROVE  ModelsReadReports(c)'
    <2>1. Step(k, s.of).kind = k /\ Step(k, s.of).of = s.of
      BY DEF Step
    <2>2. k = "INTERPRET_SEMANTICALLY" => s.of.kind = "REPORT"
      BY <1>3 DEF HandsOn
    <2> QED BY <1>0, <1>3, <2>1, <2>2 DEF HandsOn, ModelsReadReports
  <1> QED BY <1>1, <1>2, <1>3 DEF Does

LEMMA AnswersHaveQuestionsStep ==
  ASSUME WordsTyped, NEW c \in Cases, Told(c), Does(c)
  PROVE  AnswersHaveQuestions(c)'
  <1>0. AnswersHaveQuestions(c) /\ asked[c] \in Seq(Questions)
    BY DEF Told, WordsTyped
  <1>1. CASE IsReported(c)
    BY <1>0, <1>1 DEF IsReported, Step, Report, AnswersHaveQuestions
  <1>2. CASE IsAnswered(c)
    <2>1. asked[c] # <<>>
      BY <1>0, <1>2 DEF IsAnswered, AnswersHaveQuestions
    <2>2. asked'[c] # <<>>
      BY <1>0, <1>2, <2>1 DEF IsAnswered
    <2> QED BY <2>2 DEF AnswersHaveQuestions
  <1>3. CASE IsCorrected(c)
    BY <1>0, <1>3 DEF IsCorrected, Step, Correction, AnswersHaveQuestions
  <1>4. CASE IsWithdrawn(c) \/ IsReading(c)
    BY <1>0, <1>4 DEF IsWithdrawn, IsReading, AnswersHaveQuestions
  <1>5. ASSUME NEW s \in steps[c], Ends(c, s) PROVE AnswersHaveQuestions(c)'
    <2>1. CASE asked'[c] = asked[c]
      BY <1>0, <1>5, <2>1 DEF Ends, AnswersHaveQuestions
    <2>2. CASE \E q : MayAsk(c, q) /\ asked'[c] = Append(asked[c], q)
      <3>1. asked'[c] # <<>>
        BY <1>0, <2>2 DEF MayAsk
      <3> QED BY <3>1 DEF AnswersHaveQuestions
    <2> QED BY <1>5, <2>1, <2>2 DEF Ends
  <1>6. ASSUME NEW s \in steps[c], NEW k \in StepKinds, HandsOn(c, s, k)
        PROVE  AnswersHaveQuestions(c)'
    <2>1. Step(k, s.of).of = s.of
      BY DEF Step
    <2> QED BY <1>0, <1>6, <2>1 DEF HandsOn, AnswersHaveQuestions
  <1> QED BY <1>1, <1>2, <1>3, <1>4, <1>5, <1>6 DEF Does

LEMMA NotBegunStep ==
  ASSUME WordsTyped, NEW c \in Cases, Told(c), Does(c)
  PROVE  NotBegun(c)'
  <1>0. NotBegun(c) /\ ExecutesWhatItRead(c)
    BY DEF Told
  <1>1. CASE IsReported(c)
    BY <1>0, <1>1 DEF IsReported, Keeps, NotBegun
  <1>2. CASE IsAnswered(c) \/ IsWithdrawn(c)
    BY <1>2 DEF IsAnswered, IsWithdrawn, NotBegun
  <1>3. CASE IsCorrected(c)
    <2>1. case[c] = "RECEIVED" => bound[c] = Nobody
      BY <1>0 DEF Told, NotBegun, ReportIsAlone, Early, Step, Report
    <2> QED BY <1>0, <1>3, <2>1 DEF IsCorrected, NotBegun
  <1>4. CASE IsReading(c)
    <2>1. case[c] = "RECEIVED" => \A s \in steps[c] : s.kind = "BEGIN_INTERPRETATION"
      BY <1>0 DEF NotBegun, Step
    <2> QED BY <1>0, <1>4, <2>1 DEF IsReading, NotBegun
  <1>5. ASSUME NEW s \in steps[c], Ends(c, s) \/ \E k \in StepKinds : HandsOn(c, s, k)
        PROVE  NotBegun(c)'
    <2>1. case[c] # "NONE" /\ (case[c] = "RECEIVED" => s.kind = "BEGIN_INTERPRETATION")
      BY <1>0 DEF NotBegun, Step
    <2>2. case'[c] \notin {"NONE", "RECEIVED"}
      BY <1>5, <2>1 DEF Ends, HandsOn
    <2> QED BY <2>2 DEF NotBegun
  <1> QED BY <1>1, <1>2, <1>3, <1>4, <1>5 DEF Does

LEMMA ExecutesWhatItReadStep ==
  ASSUME WordsTyped, NEW c \in Cases, Told(c), Does(c), LinesStaySettled
  PROVE  ExecutesWhatItRead(c)'
  <1>0. ExecutesWhatItRead(c) /\ NotBegun(c)
    BY DEF Told
  <1>1. CASE running'[c] = Nobody
    BY <1>1 DEF ExecutesWhatItRead
  <1>2. CASE IsReported(c) \/ IsAnswered(c) \/ IsCorrected(c) \/ IsWithdrawn(c)
    <2>1. running'[c] = Nobody
      BY <1>0, <1>2 DEF IsReported, IsAnswered, IsCorrected, IsWithdrawn, Keeps, NotBegun
    <2> QED BY <1>1, <2>1
  <1>3. CASE IsReading(c)
    <2>1. CASE running'[c] = running[c]
      BY <1>0, <1>3, <2>1 DEF IsReading, ExecutesWhatItRead, LinesStaySettled
    <2>2. CASE \E s \in steps[c] :
                  /\ s.kind \in {"RESOLVE_OBSERVATION", "INTERPRET_SEMANTICALLY"}
                  /\ running'[c] = [step |-> s, view |-> line, counted |-> counted]
      BY <1>3, <2>2 DEF IsReading, ExecutesWhatItRead, LinesStaySettled
    <2> QED BY <1>1, <1>3, <2>1, <2>2 DEF IsReading
  <1>4. CASE \E s \in steps[c] : Ends(c, s) \/ \E k \in StepKinds : HandsOn(c, s, k)
    <2>1. running'[c] = Nobody
      BY <1>4 DEF Ends, HandsOn
    <2> QED BY <1>1, <2>1
  <1> QED BY <1>2, <1>3, <1>4 DEF Does

\* What becomes of the questions: they stay, the last is answered, or one is added.
LEMMA QuestionsMove ==
  ASSUME WordsTyped, NEW c \in Cases, Told(c), Does(c)
  PROVE  \/ asked'[c] = asked[c]
         \/ /\ asked[c] # <<>> /\ Last(c).answer = Unanswered
            /\ \E a \in Last(c).options \cup {Unclear} :
                  asked'[c] = [asked[c] EXCEPT ![Len(asked[c])] = [@ EXCEPT !.answer = a]]
         \/ \E q : MayAsk(c, q) /\ asked'[c] = Append(asked[c], q)
  <1>1. CASE IsAnswered(c)
    BY <1>1 DEF IsAnswered, Told, AnswersHaveQuestions
  <1>2. CASE IsReported(c) \/ IsCorrected(c) \/ IsWithdrawn(c) \/ IsReading(c)
    BY <1>2 DEF IsReported, IsCorrected, IsWithdrawn, IsReading
  <1>3. CASE \E s \in steps[c] : Ends(c, s) \/ \E k \in StepKinds : HandsOn(c, s, k)
    BY <1>3 DEF Ends, HandsOn
  <1> QED BY <1>1, <1>2, <1>3 DEF Does

LEMMA QuestionsStep ==
  ASSUME WordsTyped, NEW c \in Cases, Told(c), Does(c)
  PROVE  AskedWithinCeiling(c)' /\ AnsweredAsOffered(c)' /\ SaidSo(c)'
  <1>0. /\ AskedWithinCeiling(c) /\ AnsweredAsOffered(c) /\ SaidSo(c)
        /\ asked[c] \in Seq(Questions)
    BY DEF Told, WordsTyped
  <1>1. CASE asked'[c] = asked[c]
    BY <1>0, <1>1 DEF AskedWithinCeiling, AnsweredAsOffered, SaidSo
  <1>2. ASSUME asked[c] # <<>>, Last(c).answer = Unanswered,
               NEW a \in Last(c).options \cup {Unclear},
               asked'[c] = [asked[c] EXCEPT ![Len(asked[c])] = [@ EXCEPT !.answer = a]]
        PROVE  AskedWithinCeiling(c)' /\ AnsweredAsOffered(c)' /\ SaidSo(c)'
    <2> DEFINE n == Len(asked[c])
    <2>1. n \in DOMAIN asked[c] /\ DOMAIN asked[c] = 1 .. n
      BY <1>0, <1>2
    <2>2. Last(c) = asked[c][n] /\ asked[c][n] \in Questions /\ Askable(asked[c][n])
      BY <1>0, <2>1 DEF Last, AnsweredAsOffered
    <2>3. /\ DOMAIN asked'[c] = DOMAIN asked[c] /\ Len(asked'[c]) = n
          /\ asked'[c][n] = [asked[c][n] EXCEPT !.answer = a]
          /\ \A i \in DOMAIN asked[c] : i # n => asked'[c][i] = asked[c][i]
      BY <1>0, <1>2, <2>1
    <2>4. /\ asked'[c][n].slot = asked[c][n].slot /\ asked'[c][n].answer = a
          /\ asked'[c][n].options = asked[c][n].options
      BY <2>2, <2>3 DEF Questions
    <2> HIDE DEF n
    <2>5. AskedWithinCeiling(c)'
      BY <1>0, <2>3 DEF AskedWithinCeiling, n
    <2>6. AnsweredAsOffered(c)'
      <3>1. Askable(asked'[c][n])
        BY <1>2, <2>2, <2>4 DEF Askable
      <3> QED BY <1>0, <2>3, <3>1 DEF AnsweredAsOffered
    <2>7. SaidSo(c)'
      <3>1. Yes # Unanswered
        BY DEF Yes, Unanswered, Option
      <3>2. ASSUME NEW j \in DOMAIN asked[c], asked[c][j].answer = Yes
            PROVE  asked'[c][j].answer = Yes
        BY <1>2, <2>2, <2>3, <3>1, <3>2
      <3> QED BY <1>0, <2>3, <2>4, <3>2 DEF SaidSo
    <2> QED BY <2>5, <2>6, <2>7
  <1>3. ASSUME NEW q, MayAsk(c, q), asked'[c] = Append(asked[c], q)
        PROVE  AskedWithinCeiling(c)' /\ AnsweredAsOffered(c)' /\ SaidSo(c)'
    <2> DEFINE n == Len(asked[c])
    <2>1. /\ DOMAIN asked[c] = 1 .. n /\ DOMAIN asked'[c] = 1 .. n + 1 /\ n \in Nat
          /\ Len(asked'[c]) = n + 1 /\ asked'[c][n + 1] = q
          /\ \A i \in DOMAIN asked[c] : asked'[c][i] = asked[c][i]
      BY <1>0, <1>3
    <2>2. \A i \in DOMAIN asked'[c] : i \in DOMAIN asked[c] \/ i = n + 1
      BY <2>1
    <2>3. \A i \in DOMAIN asked[c] : i \in DOMAIN asked'[c]
      BY <2>1
    <2>4. AskedWithinCeiling(c)'
      BY <1>3, <2>1, IntakeAssumption DEF AskedWithinCeiling, MayAsk
    <2> HIDE DEF n
    <2>5. AnsweredAsOffered(c)'
      BY <1>0, <1>3, <2>1, <2>2 DEF AnsweredAsOffered, MayAsk
    <2>6. SaidSo(c)'
      BY <1>0, <1>3, <2>1, <2>2, <2>3 DEF SaidSo, MayAsk, Spoken
    <2> QED BY <2>4, <2>5, <2>6
  <1> QED BY <1>1, <1>2, <1>3, QuestionsMove

LEMMA StillInterpretedStep ==
  ASSUME WordsTyped, NEW c \in Cases, Told(c), Does(c)
  PROVE  StillInterpreted(c)'
  <1>0. StillInterpreted(c)
    BY DEF Told
  <1>1. CASE IsReported(c) \/ IsAnswered(c) \/ IsWithdrawn(c)
    BY <1>1 DEF IsReported, IsAnswered, IsWithdrawn, StillInterpreted
  <1>2. CASE IsCorrected(c) \/ IsReading(c)
    BY <1>0, <1>2 DEF IsCorrected, IsReading, Keeps, StillInterpreted
  <1>3. ASSUME NEW s \in steps[c], Ends(c, s) PROVE StillInterpreted(c)'
    <2>1. CASE s.kind # "PLAN_RECOVERY"
      BY <1>3, <2>1 DEF Ends, StillInterpreted
    <2>2. CASE s.kind = "PLAN_RECOVERY"
      <3>1. \A e \in steps[c] : e.kind # "PLAN_RECOVERY" => e \in steps'[c]
        BY <1>3, <2>2 DEF Ends
      <3>2. case'[c] = "INTERPRETING" => case[c] = "INTERPRETING"
        BY <1>3 DEF Ends
      <3> QED BY <1>0, <1>3, <3>1, <3>2 DEF Ends, StillInterpreted
    <2> QED BY <2>1, <2>2
  <1>4. ASSUME NEW s \in steps[c], NEW k \in StepKinds, HandsOn(c, s, k)
        PROVE  StillInterpreted(c)'
    <2>1. Step(k, s.of).kind = k /\ Step(k, s.of) \in steps'[c]
      BY <1>4 DEF HandsOn, Step
    <2>2. k = "PLAN_RECOVERY" => case'[c] = "ANALYZED"
      BY <1>4 DEF HandsOn
    <2> QED BY <2>1, <2>2 DEF StillInterpreted
  <1> QED BY <1>1, <1>2, <1>3, <1>4 DEF Does

\* Only a question makes a case wait, and only its answer's step, begun, or a withdrawal ends
\* the waiting that the answer left.
LEMMA WaitsForSomebodyStep ==
  ASSUME WordsTyped, NEW c \in Cases, Told(c), Does(c)
  PROVE  WaitsForSomebody(c)'
  <1> DEFINE begin == Step("BEGIN_INTERPRETATION", Answer(Len(asked[c])))
  <1>0. WaitsForSomebody(c) /\ asked[c] \in Seq(Questions)
    BY DEF Told, WordsTyped
  <1>1. ASSUME case[c] = "CLARIFYING", asked'[c] = asked[c], begin \in steps[c] => begin \in steps'[c]
        PROVE  WaitsForSomebody(c)'
    BY <1>0, <1>1 DEF WaitsForSomebody, Last
  <1>2. CASE IsReported(c) \/ IsWithdrawn(c)
    BY <1>2 DEF IsReported, IsWithdrawn, WaitsForSomebody
  <1>3. CASE IsAnswered(c)
    <2>1. asked[c] # <<>> /\ Len(asked'[c]) = Len(asked[c]) /\ asked'[c] # <<>>
      BY <1>0, <1>3 DEF IsAnswered, WaitsForSomebody
    <2>2. begin \in steps'[c]
      BY <1>3 DEF IsAnswered
    <2> QED BY <2>1, <2>2 DEF WaitsForSomebody, Answer
  <1>4. CASE IsCorrected(c) \/ IsReading(c)
    BY <1>1, <1>4 DEF IsCorrected, IsReading, WaitsForSomebody
  <1>5. ASSUME NEW s \in steps[c], Ends(c, s) PROVE WaitsForSomebody(c)'
    <2>1. ASSUME NEW q, MayAsk(c, q), asked'[c] = Append(asked[c], q)
          PROVE  WaitsForSomebody(c)'
      <3>1. asked'[c] # <<>> /\ Last(c)' = q
        BY <1>0, <2>1 DEF Last
      <3> QED BY <2>1, <3>1 DEF MayAsk, WaitsForSomebody
    <2>2. CASE case'[c] \in {"NEEDS_HUMAN_INTERPRETATION", "PLANNED"}
      BY <2>2 DEF WaitsForSomebody
    <2>3. CASE /\ case'[c] = case[c] /\ asked'[c] = asked[c]
               /\ s.kind = "BEGIN_INTERPRETATION" => case[c] = "CANCELLED"
      <3>1. case[c] = "CLARIFYING" => s # begin
        BY <2>3 DEF Step
      <3> QED BY <1>1, <1>5, <2>3, <3>1 DEF Ends, WaitsForSomebody
    <2> QED BY <1>5, <2>1, <2>2, <2>3 DEF Ends
  <1>6. ASSUME NEW s \in steps[c], NEW k \in StepKinds, HandsOn(c, s, k)
        PROVE  WaitsForSomebody(c)'
    <2>1. CASE case'[c] \in {"INTERPRETING", "ANALYZED"}
      BY <2>1 DEF WaitsForSomebody
    <2>2. CASE case'[c] = case[c] /\ s.kind = "RESOLVE_OBSERVATION"
      <3>1. s # begin
        BY <2>2 DEF Step
      <3> QED BY <1>1, <1>6, <2>2, <3>1 DEF HandsOn, WaitsForSomebody
    <2> QED BY <1>6, <2>1, <2>2 DEF HandsOn
  <1> QED BY <1>2, <1>3, <1>4, <1>5, <1>6 DEF Does

LEMMA ToldStep ==
  ASSUME WordsTyped, LedgerTyped, \A c \in Cases : Told(c), [Next]_vars
  PROVE  WordsTyped' /\ \A c \in Cases : Told(c)'
  <1>1. CASE UNCHANGED vars
    BY <1>1
    DEF vars, words, physical, bounds, WordsTyped, Told, ReportIsAlone, ModelsReadReports,
        AnswersHaveQuestions, NotBegun, ExecutesWhatItRead, AskedWithinCeiling,
        AnsweredAsOffered, SaidSo, StillInterpreted, WaitsForSomebody, Last
  <1>2. CASE Next
    <2>1. PICK c \in Cases : Proper(c)
      BY <1>2, CasesAct
    <2>2. Does(c) /\ LinesStaySettled /\ WordsTyped'
      BY <2>1 DEF Proper
    <2>3. Told(c)'
      BY <2>2, ReportIsAloneStep, ModelsReadReportsStep, AnswersHaveQuestionsStep, NotBegunStep,
         ExecutesWhatItReadStep, QuestionsStep, StillInterpretedStep, WaitsForSomebodyStep
      DEF Told
    <2>4. \A d \in Cases : Told(d)'
      BY <2>1, <2>3, ToldOfOthers
    <2> QED BY <2>2, <2>4
  <1> QED BY <1>1, <1>2

-----------------------------------------------------------------------------
(* The ledger.  Column is what was posted for a line, case by case; Posted   *)
(* is what it comes to.                                                      *)

Column(l) == [c \in Cases |-> posted[c][l]]

Posted(l) == FoldSet(LAMBDA d, sum : Plus(sum, posted[d][l]), 0, Cases)

SumsUp == \A l \in Lines : \A g : Adds(g, Column(l), Cases) => Posted(l) = g[Cases]

\* Whatever order the fold takes the cases in, it ends at the sum.
LEMMA PostedIsSum == LedgerTyped => SumsUp
  <1> SUFFICES ASSUME LedgerTyped, NEW l \in Lines, NEW g, Adds(g, Column(l), Cases)
               PROVE  Posted(l) = g[Cases]
    BY DEF SumsUp
  <1> DEFINE F(f) == [s \in SUBSET Cases |->
                        IF s = {} THEN 0
                        ELSE Plus(f[s \ {CHOOSE x \in s : TRUE}],
                                  posted[CHOOSE x \in s : TRUE][l])]
             iter == CHOOSE f : f = F(f)
  <1>1. g = F(g)
    <2>1. ASSUME NEW s \in SUBSET Cases, s # {}
          PROVE  g[s] = Plus(g[s \ {CHOOSE x \in s : TRUE}], posted[CHOOSE x \in s : TRUE][l])
      <3>1. (CHOOSE x \in s : TRUE) \in s
        BY <2>1
      <3> QED BY <3>1 DEF Adds, Column
    <2> QED BY <2>1 DEF Adds
  <1>2. iter = F(iter)
    BY <1>1
  <1> DEFINE Apart == {s \in SUBSET Cases : iter[s] # g[s]}
  <1> HIDE DEF iter
  <1>3. Apart = {}
    <2>1. SUFFICES ASSUME Apart # {} PROVE FALSE
      OBVIOUS
    <2>2. PICK s \in Apart : \A u \in Apart : u \subseteq s => u = s
      <3>1. Apart \subseteq SUBSET Cases
        OBVIOUS
      <3> HIDE DEF Apart
      <3> QED BY <2>1, <3>1, SmallestSubset, IntakeAssumption
    <2>3. s # {}
      BY <1>1, <1>2, <2>2
    <2>4. PICK x : x = (CHOOSE y \in s : TRUE) /\ x \in s
      BY <2>3
    <2>5. iter[s \ {x}] = g[s \ {x}]
      BY <2>2, <2>4
    <2> QED BY <1>1, <1>2, <2>2, <2>3, <2>4, <2>5
  <1>4. iter[Cases] = g[Cases]
    BY <1>3
  <1> QED BY <1>4 DEF Posted, FoldSet, MapThenFoldSet, iter

LEMMA PostedNames ==
  /\ \A c : \A l \in Lines : PostedForLine(c, l) = Posted(l)
  /\ OnHandTellsTheTruth <=>
        \A l \in Lines : Quantity[l] # Unknown =>
            Posted(l) = (IF line[l] = "RECEIVED" THEN Quantity[l] ELSE 0)
  BY DEF PostedForLine, OnHandTellsTheTruth, Posted, FoldSet, MapThenFoldSet

LEMMA ColumnSums ==
  ASSUME LedgerTyped, NEW l \in Lines
  PROVE  /\ Column(l) \in [Cases -> Amounts]
         /\ Posted(l) \in Amounts
         /\ \E g : Adds(g, Column(l), Cases) /\ Posted(l) = g[Cases]
  <1>1. Column(l) \in [Cases -> Amounts]
    BY DEF LedgerTyped, Column
  <1>2. PICK g : Adds(g, Column(l), Cases)
    BY <1>1, SumsExist, IntakeAssumption
  <1>3. Posted(l) = g[Cases]
    BY <1>2, PostedIsSum DEF SumsUp
  <1>4. g[Cases] \in Amounts
    BY <1>2 DEF Adds
  <1> QED BY <1>1, <1>2, <1>3, <1>4

\* One case's posting moves the total by as much; no posting leaves it.
LEMMA PostedMoves ==
  ASSUME LedgerTyped, LedgerTyped', NEW l \in Lines
  PROVE  /\ \A c \in Cases, more \in Amounts :
              (\A d \in Cases : posted'[d][l] = IF d = c THEN Plus(posted[d][l], more)
                                                ELSE posted[d][l])
              => Posted(l)' = Plus(Posted(l), more)
         /\ (\A d \in Cases : posted'[d][l] = posted[d][l]) => Posted(l)' = Posted(l)
  <1>1. PICK g : Adds(g, Column(l), Cases) /\ Posted(l) = g[Cases]
    BY ColumnSums
  <1>2. \A h : Adds(h, Column(l)', Cases) => Posted(l)' = h[Cases]
    <2>1. SumsUp'
      BY PostedIsSum, PTL
    <2> QED BY <2>1 DEF SumsUp
  <1>3. ASSUME NEW c \in Cases, NEW more \in Amounts,
               \A d \in Cases : posted'[d][l] = IF d = c THEN Plus(posted[d][l], more)
                                                ELSE posted[d][l]
        PROVE  Posted(l)' = Plus(Posted(l), more)
    <2>1. Column(l)' = [Column(l) EXCEPT ![c] = Plus(@, more)]
      BY <1>3 DEF Column
    <2>2. PICK h : /\ Adds(h, [Column(l) EXCEPT ![c] = Plus(@, more)], Cases)
                   /\ h[Cases] = Plus(g[Cases], more)
      BY <1>1, SumGrows, ColumnSums
    <2> QED BY <1>1, <1>2, <2>1, <2>2
  <1>4. ASSUME \A d \in Cases : posted'[d][l] = posted[d][l]
        PROVE  Posted(l)' = Posted(l)
    <2>1. Column(l)' = Column(l)
      BY <1>4 DEF Column
    <2> QED BY <1>1, <1>2, <2>1
  <1> QED BY <1>3, <1>4

LEMMA WhoMovesTheLedger ==
  ASSUME [Next]_vars
  PROVE  \/ UNCHANGED physical
         \/ \E c \in Cases : \E s, d, scope : RecordFacts(c, s, d, scope)
         \/ \E c \in Cases : \E s : Correct(c, s)
  <1>1. CASE UNCHANGED vars
    BY <1>1 DEF vars
  <1>2. ASSUME NEW c \in Cases,
               \/ OpenPhysicalException(c) \/ AnswerClarification(c) \/ CorrectPhysicalFact(c)
               \/ Withdraw(c)
               \/ \E s \in steps[c] : \/ PrepareReading(c, s) \/ LoseClaim(c, s)
                                      \/ BeginInterpretation(c, s)
                                      \/ Hydrate(c, s) \/ Analyze(c, s) \/ Plan(c, s)
        PROVE  UNCHANGED physical
    BY <1>2
    DEF OpenPhysicalException, AnswerClarification, CorrectPhysicalFact, Withdraw, PrepareReading,
        LoseClaim, BeginInterpretation, Hydrate, Analyze, Plan
  <1>3. ASSUME NEW c \in Cases, NEW s, NEW o, SettleOutcome(c, s, o)
        PROVE  UNCHANGED physical \/ \E d, scope : RecordFacts(c, s, d, scope)
    BY <1>3 DEF SettleOutcome, AskQuestion, Escalate
  <1>4. ASSUME NEW c \in Cases, ResolveObservation(c)
        PROVE  \/ UNCHANGED physical
               \/ \E s, d, scope : RecordFacts(c, s, d, scope)
               \/ \E s : Correct(c, s)
    BY <1>3, <1>4 DEF ResolveObservation, Escalate
  <1>5. ASSUME NEW c \in Cases, ConsumeSemantic(c)
        PROVE  UNCHANGED physical \/ \E s, d, scope : RecordFacts(c, s, d, scope)
    <2>1. CASE case[c] # "INTERPRETING"
      BY <1>5, <2>1 DEF ConsumeSemantic
    <2>2. CASE case[c] = "INTERPRETING"
      <3>1. ConsumeReading(c, running[c].step, running[c].view)
        BY <1>5, <2>2 DEF ConsumeSemantic
      <3> QED BY <1>3, <3>1 DEF ConsumeReading, RetrySemantic, GiveUpOnReading, Escalate
    <2> QED BY <2>1, <2>2
  <1> QED BY <1>1, <1>2, <1>4, <1>5 DEF Next, Executing

\* The truth about one line, and that its total hides no Unknown.
Truth(l) ==
    Quantity[l] # Unknown =>
        /\ \A c \in Cases : posted[c][l] \in Int
        /\ Posted(l) = IF line[l] = "RECEIVED" THEN Quantity[l] ELSE 0

LEMMA TruthNames == (\A l \in Lines : Truth(l)) <=> CountedInFull /\ OnHandTellsTheTruth
  BY PostedNames DEF Truth, CountedInFull

\* What a posting must be to leave a line's total right: what its new state lacks.
LEMMA TruthMoves ==
  ASSUME LedgerTyped, LedgerTyped', NEW l \in Lines, Truth(l),
         NEW c \in Cases, NEW more \in Amounts,
         \A d \in Cases : posted'[d][l] = IF d = c THEN Plus(posted[d][l], more)
                                          ELSE posted[d][l],
         Quantity[l] # Unknown =>
            /\ more \in Int
            /\ more = (IF line'[l] = "RECEIVED" THEN Quantity[l] ELSE 0)
                      - (IF line[l] = "RECEIVED" THEN Quantity[l] ELSE 0)
  PROVE  Truth(l)'
  <1> SUFFICES ASSUME Quantity[l] # Unknown
               PROVE  /\ \A d \in Cases : posted'[d][l] \in Int
                      /\ Posted(l)' = IF line'[l] = "RECEIVED" THEN Quantity[l] ELSE 0
    BY DEF Truth
  <1>1. /\ Quantity[l] \in Nat /\ Unknown \notin Int
        /\ \A d \in Cases : posted[d][l] \in Int
        /\ Posted(l) = IF line[l] = "RECEIVED" THEN Quantity[l] ELSE 0
    BY IntakeAssumption DEF Truth
  <1>2. \A x, y \in Int : Plus(x, y) = x + y
    BY <1>1 DEF Plus
  <1>3. Posted(l)' = Plus(Posted(l), more)
    BY PostedMoves
  <1>4. \A d \in Cases : posted'[d][l] \in Int
    <2>1. more \in Int
      OBVIOUS
    <2>2. Plus(posted[c][l], more) \in Int
      <3>1. posted[c][l] \in Int
        BY <1>1
      <3>2. Plus(posted[c][l], more) = posted[c][l] + more
        BY <1>2, <2>1, <3>1
      <3> QED BY <2>1, <3>1, <3>2
    <2> QED BY <1>1, <2>2
  <1>5. Posted(l)' = Posted(l) + more
    BY <1>1, <1>2, <1>3
  <1> QED BY <1>1, <1>4, <1>5

LEMMA TruthStays ==
  ASSUME LedgerTyped, LedgerTyped', NEW l \in Lines, Truth(l),
         \A d \in Cases : posted'[d][l] = posted[d][l],
         Quantity[l] # Unknown => (line'[l] = "RECEIVED" <=> line[l] = "RECEIVED")
  PROVE  Truth(l)'
  BY PostedMoves DEF Truth

LEMMA RecordingTellsTheTruth ==
  ASSUME LedgerTyped, NEW c \in Cases, NEW s, NEW d, NEW scope, RecordFacts(c, s, d, scope),
         \A l \in Lines : Truth(l)
  PROVE  LedgerTyped' /\ \A l \in Lines : Truth(l)'
  <1> DEFINE settled == OpenLines(line, d)
             arrived == settled \ scope
  <1>1. /\ line' = [l \in Lines |-> IF l \notin settled THEN line[l]
                                    ELSE IF l \in scope THEN "NOT_RECEIVED" ELSE "RECEIVED"]
        /\ posted' = [posted EXCEPT ![c] =
                        [l \in Lines |-> IF l \in arrived THEN Plus(@[l], Quantity[l]) ELSE @[l]]]
        /\ \A l \in settled : line[l] = "EXPECTED"
    BY DEF RecordFacts, OpenLines
  <1>0. counted' \subseteq counted \cup Resources
    BY DEF RecordFacts, OpenLines, Resources
  <1> HIDE DEF settled
  <1>2. \A l \in Lines : Quantity[l] \in Amounts
    BY IntakeAssumption DEF Amounts
  <1>3. LedgerTyped'
    BY <1>0, <1>1, <1>2, PlusAmounts DEF LedgerTyped, LineStates
  <1>4. ASSUME NEW l \in Lines PROVE Truth(l)'
    <2>1. CASE l \in arrived
      <3>1. \A e \in Cases : posted'[e][l] = IF e = c THEN Plus(posted[e][l], Quantity[l])
                                             ELSE posted[e][l]
        BY <1>1, <2>1 DEF LedgerTyped
      <3>2. line[l] = "EXPECTED" /\ line'[l] = "RECEIVED"
        BY <1>1, <2>1
      <3>3. Quantity[l] # Unknown => Quantity[l] \in Int /\ Quantity[l] = Quantity[l] - 0
        BY IntakeAssumption
      <3> QED BY <1>2, <1>3, <3>1, <3>2, <3>3, TruthMoves
    <2>2. CASE l \notin arrived
      <3>1. \A e \in Cases : posted'[e][l] = posted[e][l]
        BY <1>1, <2>2 DEF LedgerTyped
      <3>2. line'[l] = "RECEIVED" <=> line[l] = "RECEIVED"
        BY <1>1, <2>2
      <3> QED BY <1>3, <3>1, <3>2, TruthStays
    <2> QED BY <2>1, <2>2
  <1> QED BY <1>3, <1>4

LEMMA CorrectingTellsTheTruth ==
  ASSUME LedgerTyped, NEW c \in Cases, NEW s, Correct(c, s), \A l \in Lines : Truth(l)
  PROVE  LedgerTyped' /\ \A l \in Lines : Truth(l)'
  <1> DEFINE says == s.of.says
             changed == {l \in Restated(c, says) : line[l] # TrueState(says, l)}
             delta(l) == CompensatingDelta(PostedForLine(c, l), TrueState(says, l), Quantity[l])
  <1>1. /\ line' = [l \in Lines |-> IF l \in changed THEN TrueState(says, l) ELSE line[l]]
        /\ posted' = [posted EXCEPT ![c] =
                        [l \in Lines |-> IF l \in changed THEN Plus(@[l], delta(l)) ELSE @[l]]]
        /\ \A l \in changed : line[l] # TrueState(says, l)
    BY DEF Correct
  <1>2. \A l \in Lines : TrueState(says, l) \in {"RECEIVED", "NOT_RECEIVED"}
    BY DEF TrueState
  <1>3. ASSUME NEW l \in Lines
        PROVE  /\ delta(l) \in Amounts
               /\ Quantity[l] # Unknown =>
                     /\ delta(l) \in Int
                     /\ delta(l) = (IF TrueState(says, l) = "RECEIVED" THEN Quantity[l] ELSE 0)
                                   - Posted(l)
    <2>1. PostedForLine(c, l) = Posted(l) /\ Posted(l) \in Amounts
      BY PostedNames, ColumnSums
    <2>2. Quantity[l] \in Nat \cup {Unknown} /\ Unknown \notin Int
      BY IntakeAssumption
    <2>3. Quantity[l] # Unknown => Posted(l) \in Int
      BY <2>2 DEF Truth
    <2> QED BY <1>2, <2>1, <2>2, <2>3 DEF CompensatingDelta, Amounts
  <1>0. counted' \subseteq counted \cup Resources
    BY DEF Correct, Restated, Resources
  <1> HIDE DEF changed, delta
  <1>4. LedgerTyped'
    BY <1>0, <1>1, <1>2, <1>3, PlusAmounts DEF LedgerTyped, LineStates
  <1>5. ASSUME NEW l \in Lines PROVE Truth(l)'
    <2>1. CASE l \in changed
      <3>1. \A e \in Cases : posted'[e][l] = IF e = c THEN Plus(posted[e][l], delta(l))
                                             ELSE posted[e][l]
        BY <1>1, <2>1 DEF LedgerTyped
      <3>2. line'[l] = TrueState(says, l)
        BY <1>1, <2>1
      <3>3. Quantity[l] # Unknown =>
               Posted(l) = IF line[l] = "RECEIVED" THEN Quantity[l] ELSE 0
        BY DEF Truth
      <3> QED BY <1>3, <1>4, <3>1, <3>2, <3>3, TruthMoves
    <2>2. CASE l \notin changed
      <3>1. (\A e \in Cases : posted'[e][l] = posted[e][l]) /\ line'[l] = line[l]
        BY <1>1, <2>2 DEF LedgerTyped
      <3> QED BY <1>4, <3>1, TruthStays
    <2> QED BY <2>1, <2>2
  <1> QED BY <1>4, <1>5

LEMMA LedgerStep ==
  ASSUME LedgerTyped, CountedInFull, OnHandTellsTheTruth, [Next]_vars
  PROVE  LedgerTyped' /\ CountedInFull' /\ OnHandTellsTheTruth'
  <1>1. \A l \in Lines : Truth(l)
    BY TruthNames
  <1>2. LedgerTyped' /\ \A l \in Lines : Truth(l)'
    <2>1. CASE UNCHANGED physical
      <3>1. LedgerTyped'
        BY <2>1 DEF physical, LedgerTyped
      <3> QED BY <1>1, <2>1, <3>1, TruthStays DEF physical
    <2> QED BY <1>1, <2>1, WhoMovesTheLedger, RecordingTellsTheTruth, CorrectingTellsTheTruth
  <1>3. (\A l \in Lines : Truth(l))' <=> CountedInFull' /\ OnHandTellsTheTruth'
    BY TruthNames, PTL
  <1> QED BY <1>2, <1>3

-----------------------------------------------------------------------------
\* The inductive invariant.  Each part leans on others: a reading may ask because its report
\* is alone, and the report is alone because nothing answers or corrects before it.
IInv ==
    /\ WordsTyped /\ LedgerTyped
    /\ \A c \in Cases : Told(c)
    /\ CountedInFull /\ OnHandTellsTheTruth

LEMMA IInvInit == Init => IInv
  <1> SUFFICES ASSUME Init PROVE IInv
    OBVIOUS
  <1>1. WordsTyped
    BY IntakeAssumption DEF Init, WordsTyped, CaseStates
  <1>2. LedgerTyped
    BY IntakeAssumption DEF Init, LedgerTyped, LineStates, Amounts
  <1>3. ASSUME NEW c \in Cases PROVE Told(c)
    <2>1. /\ case[c] = "NONE" /\ steps[c] = {} /\ asked[c] = <<>> /\ bound[c] = Nobody
          /\ running[c] = Nobody
      BY DEF Init
    <2> QED BY <2>1, IntakeAssumption
        DEF Told, ReportIsAlone, ModelsReadReports, AnswersHaveQuestions, NotBegun,
            ExecutesWhatItRead, AskedWithinCeiling, AnsweredAsOffered, SaidSo, StillInterpreted,
            WaitsForSomebody
  <1>4. ASSUME NEW l \in Lines PROVE Truth(l)
    <2>1. /\ line[l] = "EXPECTED" /\ \A c \in Cases : posted[c][l] = 0
      BY DEF Init
    <2>2. Posted(l) = 0
      <3> DEFINE none == [s \in SUBSET Cases |-> 0]
      <3>1. none \in [SUBSET Cases -> Amounts]
        BY DEF Amounts
      <3>2. \A s \in SUBSET Cases : \A x \in s : none[s] = Plus(none[s \ {x}], Column(l)[x])
        BY <2>1, IntakeAssumption DEF Plus, Column
      <3>3. Adds(none, Column(l), Cases)
        BY <3>1, <3>2 DEF Adds
      <3> QED BY <1>2, <3>3, PostedIsSum DEF SumsUp
    <2> QED BY <2>1, <2>2 DEF Truth
  <1> QED BY <1>1, <1>2, <1>3, <1>4, TruthNames DEF IInv

LEMMA Invariant == Spec => []IInv
  <1>1. IInv /\ [Next]_vars => IInv'
    BY ToldStep, LedgerStep DEF IInv
  <1> QED BY <1>1, IInvInit, PTL DEF Spec

\* Every variable keeps its type: no case asks beyond the ceiling, an execution has a step of
\* its own case, an answer is one that was offered (physical.py, interpretation.py).
THEOREM IntakeTyped == Spec => []TypeOK
  <1>1. IInv => TypeOK
    <2> SUFFICES ASSUME IInv PROVE TypeOK
      OBVIOUS
    <2>1. WordsTyped /\ LedgerTyped /\ \A c \in Cases : Told(c)
      BY DEF IInv
    <2>2. ASSUME NEW c \in Cases
          PROVE  /\ bound[c] # Nobody => /\ bound[c].delivery \in Deliveries
                                         /\ bound[c].scope \subseteq Lines
                 /\ Len(asked[c]) <= Ceiling
                 /\ \A i \in DOMAIN asked[c] :
                       /\ asked[c][i].slot \in {"COMMITMENT", "SCOPE", "CONDITION"}
                       /\ asked[c][i].answer \in asked[c][i].options \cup {Unclear, Unanswered}
                 /\ \A s \in steps[c] : s.kind \in StepKinds
                 /\ running[c] # Nobody => running[c].step \in steps[c]
      <3>1. bound[c] # Nobody => bound[c] \in [delivery : Deliveries, scope : SUBSET Lines]
        BY <2>1 DEF WordsTyped
      <3>2. Len(asked[c]) <= Ceiling
        BY <2>1 DEF Told, AskedWithinCeiling
      <3>3. asked[c] \in Seq(Questions) /\ AnsweredAsOffered(c)
        BY <2>1 DEF WordsTyped, Told
      <3>4. \A i \in DOMAIN asked[c] :
               /\ asked[c][i].slot \in {"COMMITMENT", "SCOPE", "CONDITION"}
               /\ asked[c][i].answer \in asked[c][i].options \cup {Unclear, Unanswered}
        <4> SUFFICES ASSUME NEW i \in DOMAIN asked[c]
                     PROVE  /\ asked[c][i].slot \in Slots
                            /\ asked[c][i].answer
                                 \in asked[c][i].options \cup {Unclear, Unanswered}
          BY DEF Slots
        <4>1. asked[c][i] \in Questions
          BY <3>3
        <4> QED BY <3>3, <4>1 DEF AnsweredAsOffered, Askable, Questions
      <3>5. \A s \in steps[c] : s.kind \in StepKinds
        BY <2>1 DEF WordsTyped
      <3>6. running[c] # Nobody => running[c].step \in steps[c]
        BY <2>1 DEF Told, ExecutesWhatItRead
      <3> QED BY <3>1, <3>2, <3>4, <3>5, <3>6
    <2> QED BY <2>1, <2>2 DEF TypeOK, WordsTyped, LedgerTyped, Amounts
  <1> QED BY <1>1, Invariant, PTL

\* However many cases report, settle and correct one delivery, in whatever order and from
\* whatever reading of its lines, the stock was moved by what is so (physical._post,
\* _posted_for_line, _compensating_delta).
THEOREM LedgerTellsTheTruth == Spec => []OnHandTellsTheTruth
  <1>1. IInv => OnHandTellsTheTruth
    BY DEF IInv
  <1> QED BY <1>1, Invariant, PTL

\* Whatever is retried, refused, stale, corrected, asked or claimed and lost, a statement being
\* interpreted has a step left or an owner who was called, and a case that waits has a question
\* open or an answer with a step that will read it (semantic_intake.py, physical.py, intake.py).
THEOREM NoStatementIsLost == Spec => []SomebodyHasIt
  <1>1. IInv => SomebodyHasIt
    <2> SUFFICES ASSUME IInv, NEW c \in Cases
                 PROVE  /\ case[c] \in {"RECEIVED", "INTERPRETING"} => steps[c] # {} \/ attention[c]
                        /\ WaitsForSomebody(c)
      BY DEF SomebodyHasIt, WaitsForSomebody
    <2>1. NotBegun(c) /\ StillInterpreted(c) /\ WaitsForSomebody(c)
      BY DEF IInv, Told
    <2> QED BY <2>1 DEF NotBegun, StillInterpreted
  <1> QED BY <1>1, Invariant, PTL

-----------------------------------------------------------------------------
\* A case is bound to a delivery by what a statement of its own concluded, and by nothing else.
LEMMA OnlyRecordingBinds ==
  ASSUME IInv, Next, NEW c \in Cases, bound'[c] # bound[c]
  PROVE  /\ running[c] # Nobody
         /\ \E d \in Deliveries, lines \in SUBSET Lines :
               /\ RecordFacts(c, running[c].step, d, lines)
               /\ Spoken(c)
               /\ ChosenScope(c, lines) \/ OnlyTheNamed(c, running[c].view, d)
  <1>t. WordsTyped /\ \A e \in Cases : Told(e)
    BY DEF IInv
  <1>1. PICK e \in Cases :
          \/ OpenPhysicalException(e) \/ AnswerClarification(e) \/ CorrectPhysicalFact(e)
          \/ Withdraw(e)
          \/ \E s \in steps[e] : PrepareReading(e, s) \/ LoseClaim(e, s)
          \/ Executing(e)
    BY DEF Next
  <1> DEFINE s == running[e].step
             view == running[e].view
             o == Interpretation(e, view, s.of)
  <1>2. ResolveObservation(e)
    <2>1. ~ConsumeSemantic(e)
      <3> SUFFICES ASSUME ConsumeSemantic(e) PROVE FALSE
        OBVIOUS
      <3>1. ConsumeReading(e, s, view)
        BY DEF ConsumeSemantic
      <3>2. \A p \in {Escalation, ReadingConcludes(e, view)} : p.kind # "RECORD"
        BY DEF ReadingConcludes, Escalation, ConditionQuestion, Ask
      <3> HIDE DEF s, view
      <3> QED BY <3>1, <3>2
          DEF ConsumeReading, RetrySemantic, GiveUpOnReading, SettleOutcome, AskQuestion, Escalate
    <2>2. ~(OpenPhysicalException(e) \/ AnswerClarification(e) \/ CorrectPhysicalFact(e)
            \/ Withdraw(e))
      BY DEF OpenPhysicalException, AnswerClarification, CorrectPhysicalFact, Withdraw
    <2>3. ASSUME NEW x \in steps[e]
          PROVE  ~(\/ PrepareReading(e, x) \/ LoseClaim(e, x) \/ BeginInterpretation(e, x)
                   \/ Hydrate(e, x)
                   \/ Analyze(e, x) \/ Plan(e, x))
      BY DEF PrepareReading, LoseClaim, BeginInterpretation, Hydrate, Analyze, Plan
    <2> QED BY <1>1, <2>1, <2>2, <2>3 DEF Executing
  <1>3. /\ running[e] # Nobody /\ s \in steps[e] /\ s.of.kind \in Reasons
    BY <1>2, <1>t DEF ResolveObservation, Unlocked, Told, ExecutesWhatItRead, WordsTyped, Statements
  <1>4. s.of.kind # "CORRECTION" /\ SettleOutcome(e, s, o)
    BY <1>2 DEF ResolveObservation, Escalate, Correct
  <1>5. o.kind = "RECORD" /\ RecordFacts(e, s, o.delivery, o.scope)
    <2> HIDE DEF s, o
    <2> QED BY <1>4 DEF SettleOutcome, AskQuestion, Escalate
  <1>6. e = c
    <2> HIDE DEF s, o
    <2> QED BY <1>5, <1>t DEF RecordFacts, WordsTyped
  <1>7. Concluded(e, view, o)
    <2>1. s.of.kind \in {"REPORT", "CLARIFICATION_ANSWER"}
      BY <1>3, <1>4 DEF Reasons
    <2>2. s.of.kind = "CLARIFICATION_ANSWER" => asked[e] # <<>>
      BY <1>3, <1>t DEF Told, AnswersHaveQuestions
    <2>3. SaidSo(e) /\ AnsweredAsOffered(e)
      BY <1>t DEF Told
    <2>4. o # Unread
      BY <1>5 DEF Unread
    <2> HIDE DEF s, view
    <2> QED BY <1>t, <2>1, <2>2, <2>3, <2>4, StatementsConclude
  <1>8. PICK d \in Deliveries, lines \in SUBSET Lines :
          /\ o = Record(d, lines)
          /\ Spoken(e)
          /\ ChosenScope(e, lines) \/ OnlyTheNamed(e, view, d)
    <2> HIDE DEF s, view, o
    <2> QED BY <1>5, <1>7 DEF Concluded, AsksOnly, Escalation
  <1>9. RecordFacts(e, s, d, lines)
    <2> HIDE DEF s, view, o
    <2> QED BY <1>5, <1>8 DEF Record
  <1> QED BY <1>3, <1>6, <1>8, <1>9

\* A model reads, but a line settles as somebody said, whatever was settled between the
\* reading of the lines and the writing of the facts (interpretation._scope_question,
\* physical._record, semantic_intake.consume).
THEOREM LinesSettleAsAttested == Spec => SettledAsAttested
  <1> DEFINE Attested(c) ==
               bound[c] = Nobody /\ bound'[c] # Nobody =>
                  /\ c \in Readable \/ \E i \in DOMAIN asked[c] : asked[c][i].answer = Yes
                  /\ \A l \in Lines :
                        line'[l] # line[l] /\ ResourceOf[l] # Reported[c] =>
                            \E i \in DOMAIN asked[c] :
                                /\ asked[c][i].slot = "SCOPE"
                                /\ asked[c][i].answer.scope = bound'[c].scope
  <1>1. ASSUME IInv, Next, NEW c \in Cases PROVE Attested(c)
    <2> SUFFICES ASSUME bound[c] = Nobody, bound'[c] # Nobody
                 PROVE  /\ c \in Readable \/ \E i \in DOMAIN asked[c] : asked[c][i].answer = Yes
                        /\ \A l \in Lines :
                              line'[l] # line[l] /\ ResourceOf[l] # Reported[c] =>
                                  ChosenScope(c, bound'[c].scope)
      BY DEF ChosenScope
    <2>1. /\ running[c] # Nobody
          /\ \E d \in Deliveries, lines \in SUBSET Lines :
                /\ RecordFacts(c, running[c].step, d, lines)
                /\ Spoken(c)
                /\ ChosenScope(c, lines) \/ OnlyTheNamed(c, running[c].view, d)
      BY <1>1, OnlyRecordingBinds
    <2>2. PICK d \in Deliveries, lines \in SUBSET Lines :
            /\ RecordFacts(c, running[c].step, d, lines)
            /\ Spoken(c)
            /\ ChosenScope(c, lines) \/ OnlyTheNamed(c, running[c].view, d)
      BY <2>1
    <2>3. bound'[c] = [delivery |-> d, scope |-> lines]
      BY <1>1, <2>2 DEF RecordFacts, IInv, WordsTyped
    <2>4. ASSUME NEW l \in Lines, line'[l] # line[l], ResourceOf[l] # Reported[c]
          PROVE  ChosenScope(c, lines)
      <3>1. line[l] = "EXPECTED" /\ DeliveryOf[l] = d
        BY <2>2, <2>4 DEF RecordFacts, OpenLines
      <3>2. l \in OpenLines(running[c].view, d)
        BY <1>1, <2>1, <3>1 DEF IInv, Told, ExecutesWhatItRead, OpenLines
      <3>3. ~OnlyTheNamed(c, running[c].view, d)
        BY <2>4, <3>2 DEF OnlyTheNamed, Named
      <3> QED BY <2>2, <3>3
    <2> QED BY <2>2, <2>3, <2>4 DEF Spoken
  <1>2. ASSUME UNCHANGED vars, NEW c \in Cases PROVE Attested(c)
    BY <1>2 DEF vars
  <1>3. IInv /\ [Next]_vars => [\A c \in Cases : Attested(c)]_vars
    BY <1>1, <1>2
  <1> QED BY <1>3, Invariant, PTL DEF Spec, SettledAsAttested
=============================================================================
