------------------------ MODULE GraphRecovery_proofs ------------------------
(***************************************************************************)
(* GraphRecovery's theorems.  What the engine computes for one snapshot is *)
(* PromiseGraph_proofs'; here it is shown that every snapshot a run comes  *)
(* to is one of those, and that a case's plan is what the engine said of   *)
(* the snapshot the plan was written in.                                   *)
(***************************************************************************)
EXTENDS GraphRecovery, PromiseGraph_proofs

CaseStates == {"NONE", "INTERPRETING", "ANALYZED", "PLANNED", "EXECUTING", "REVALIDATING"}
Unanalyzed == {"NONE", "INTERPRETING"}

StepRecords == [kind : StepKinds, order : Orders]

Seen == {None} \cup {Fingerprint(g, o, scope) :
                        g \in Snapshots, o \in Orders, scope \in SUBSET Ingredients}

Live == [state : TrackStates, class : Classes, rule : Rules,
         option : Ingredients \cup {None}, scope : SUBSET Ingredients, seen : Seen,
         answer : {"NONE", "YES", "CHECKED"}]

\* A step is of a track that waits for it.  A pending track has one only while its plan is
\* executed, and a customer's yes none until it is looked at.
Fits(state, s, t) ==
    \/ s.kind = "REQUEST_APPROVAL" /\ t.state = "PENDING" /\ state = "EXECUTING"
    \/ s.kind = "REVALIDATE_RECOVERY" /\ t.state = "WAITING_FOR_CUSTOMER" /\ t.answer = "CHECKED"
    \/ s.kind = "REPLAN_TRACK" /\ t.state = "STALE"
    \/ /\ s.kind = "APPLY_RECOVERY" /\ t.option # None
       /\ \/ t.state = "PENDING" /\ state = "EXECUTING"
          \/ t.state = "WAITING_FOR_CUSTOMER" /\ t.answer = "CHECKED"

HasItsOption(t) == t.state = "PENDING" /\ t.class \in Recoverable => t.option # None

\* A case in this state, with these steps due and these tracks.
CaseInv(state, due, tr) ==
    IF state \in Unanalyzed THEN due = {} /\ tr = [o \in Orders |-> NoTrack]
    ELSE /\ due \subseteq StepRecords
         /\ tr \in [Orders -> Live]
         /\ \A s, u \in due : s.order = u.order => s = u
         /\ \A s \in due : Fits(state, s, tr[s.order])
         /\ \A o \in Orders : tr[o].state \in {"WAITING_FOR_CUSTOMER", "APPLYING"} =>
                                tr[o].option # None
         /\ state # "ANALYZED" => \A o \in Orders : HasItsOption(tr[o])

GraphInv ==
    /\ graph \in Snapshots
    /\ \A o \in Orders : graph.quantity[o] \in Quantities \cup {1}

CasesInv ==
    /\ case \in [Cases -> CaseStates]
    /\ entry \in [Cases -> SUBSET Ingredients]
    /\ steps \in [Cases -> SUBSET StepRecords]
    /\ track \in [Cases -> [Orders -> Live \cup {NoTrack}]]
    /\ \A c \in Cases : CaseInv(case[c], steps[c], track[c])

IInv == GraphInv /\ CasesInv

-----------------------------------------------------------------------------
(* The snapshots a run comes to.                                           *)

LEMMA InitInv == Init => IInv
  <1> SUFFICES ASSUME Init PROVE IInv
    OBVIOUS
  <1>1. /\ InitialHand \in [Ingredients -> Int \cup {Unknown}]
        /\ InitialPin \in [Orders -> Ingredients]
    BY RecoveryAssumption
  <1>2. GraphInv
    BY <1>1 DEF Init, GraphInv, Snapshots
  <1>3. CasesInv
    <2>1. /\ case \in [Cases -> CaseStates]
          /\ entry \in [Cases -> SUBSET Ingredients]
          /\ steps \in [Cases -> SUBSET StepRecords]
          /\ track \in [Cases -> [Orders -> Live \cup {NoTrack}]]
      BY DEF Init, CaseStates
    <2>2. \A c \in Cases : CaseInv(case[c], steps[c], track[c])
      BY DEF Init, CaseInv, Unanalyzed
    <2> QED BY <2>1, <2>2 DEF CasesInv
  <1> QED BY <1>2, <1>3 DEF Init, IInv, Unanalyzed

\* A quantity nobody knows stays unknown, and any other stays a number.
LEMMA PlusKeeps ==
  \A q, p \in Int \cup {Unknown} : Plus(q, p) \in Int \cup {Unknown}
  BY GraphAssumption DEF Plus

LEMMA GraphKept == IInv /\ [Next]_vars => GraphInv'
  <1> SUFFICES ASSUME GraphInv, CasesInv, [Next]_vars PROVE GraphInv'
    BY DEF IInv
  <1>0. CASE UNCHANGED graph
    BY <1>0 DEF GraphInv
  <1>1. ASSUME NEW c \in Cases, NEW r \in Ingredients, NEW lost \in Losses \cup {Unknown},
               ReportStock(c, r, lost)
        PROVE  GraphInv'
    <2> DEFINE left == IF lost # Unknown THEN Plus(graph.hand[r], -lost)
                       ELSE IF graph.hand[r] = Unknown THEN Unknown ELSE 0
    <2>1. graph.hand[r] \in Int \cup {Unknown}
      BY DEF GraphInv, Snapshots
    <2>2. left \in Int \cup {Unknown}
      <3>1. CASE lost # Unknown
        <4>1. lost \in Nat
          BY <3>1, RecoveryAssumption
        <4>2. -lost \in Int \cup {Unknown}
          BY <4>1
        <4> QED BY <2>1, <3>1, <4>2, PlusKeeps
      <3>2. CASE lost = Unknown
        BY <3>2
      <3> QED BY <3>1, <3>2
    <2>3. graph' = [graph EXCEPT !.hand[r] = left, !.posted[r] = @ + 1]
      BY <1>1 DEF ReportStock
    <2> HIDE DEF left
    <2>4. /\ graph'.hand = [graph.hand EXCEPT ![r] = left]
          /\ graph'.posted = [graph.posted EXCEPT ![r] = @ + 1]
          /\ graph' = [graph EXCEPT !.hand = graph'.hand, !.posted = graph'.posted]
      BY <2>3 DEF GraphInv, Snapshots
    <2>5. graph'.hand \in [Ingredients -> Int \cup {Unknown}]
      BY <2>2, <2>4 DEF GraphInv, Snapshots
    <2>6. graph'.posted \in [Ingredients -> Nat]
      BY <2>4 DEF GraphInv, Snapshots
    <2> QED BY <2>4, <2>5, <2>6 DEF GraphInv, Snapshots
  <1>2. ASSUME NEW c \in Cases, NEW scope \in SUBSET Lines, NEW got \in Losses \cup {Unknown},
               ReportDelivery(c, scope, got)
        PROVE  GraphInv'
    <2> DEFINE commitment == {l \in Lines : \E k \in scope : Commitment[l] = Commitment[k]}
               open    == {l \in commitment : graph.line[l] = "EXPECTED"}
               short   == got # Unknown /\ Cardinality(scope) = 1
               came    == [l \in open |-> IF l \notin scope THEN Quantity[l] ELSE got]
               posts   == IF short THEN open ELSE open \ scope
               posted(r) == {l \in posts : Brings[l] = r}
               sum(r)  == IF \E l \in posted(r) : came[l] = Unknown THEN Unknown
                          ELSE Total(came, posted(r))
               line == [l \in Lines |-> IF l \notin open THEN graph.line[l]
                                        ELSE IF l \notin scope THEN "RECEIVED"
                                        ELSE IF short THEN "SHORT" ELSE "NOT_RECEIVED"]
               hand == [r \in Ingredients |-> IF posted(r) = {} THEN graph.hand[r]
                                              ELSE Plus(graph.hand[r], sum(r))]
               book == [r \in Ingredients |-> graph.posted[r] + Cardinality(posted(r))]
    <2>1. graph' = [graph EXCEPT !.line = line, !.hand = hand, !.posted = book]
      BY <1>2 DEF ReportDelivery
    <2>2. \A l \in open : came[l] \in Int \cup {Unknown}
      <3>1. got \in Int \cup {Unknown} /\ \A l \in Lines : Quantity[l] \in Int \cup {Unknown}
        BY RecoveryAssumption, GraphAssumption
      <3>2. open \subseteq Lines
        OBVIOUS
      <3> HIDE DEF open
      <3> QED BY <3>1, <3>2
    <2>3. \A r : posted(r) \in SUBSET open /\ IsFiniteSet(posted(r))
      <3>1. IsFiniteSet(open) /\ posts \in SUBSET open
        BY GraphAssumption, FS_Subset
      <3> HIDE DEF open, posts
      <3> QED BY <3>1, FS_Subset
    <2>4. \A r : sum(r) \in Int \cup {Unknown}
      <3> SUFFICES ASSUME NEW r PROVE sum(r) \in Int \cup {Unknown}
        OBVIOUS
      <3>1. CASE \A l \in posted(r) : came[l] # Unknown
        <4>1. \A l \in posted(r) : came[l] \in Int
          <5> HIDE DEF came, open, posted
          <5> QED BY <3>1, <2>2, <2>3
        <4>2. Total(came, posted(r)) \in Int
          <5> HIDE DEF came, posted
          <5> QED BY <4>1, <2>3, TotalOf
        <4> HIDE DEF came, posted
        <4> QED BY <4>2
      <3> QED BY <3>1
    <2>5. \A r : Cardinality(posted(r)) \in Nat
      BY <2>3, FS_CardinalityType
    <2>6. line \in [Lines -> {"EXPECTED", "RECEIVED", "SHORT", "NOT_RECEIVED"}]
      BY DEF GraphInv, Snapshots
    <2> HIDE DEF posted, sum, line
    <2>7. hand \in [Ingredients -> Int \cup {Unknown}]
      <3> SUFFICES ASSUME NEW r \in Ingredients
                   PROVE  (IF posted(r) = {} THEN graph.hand[r] ELSE Plus(graph.hand[r], sum(r)))
                            \in Int \cup {Unknown}
        OBVIOUS
      <3>1. graph.hand[r] \in Int \cup {Unknown}
        BY DEF GraphInv, Snapshots
      <3> QED BY <2>4, <3>1, PlusKeeps
    <2>8. book \in [Ingredients -> Nat]
      BY <2>5 DEF GraphInv, Snapshots
    <2> HIDE DEF hand, book
    <2>9. graph' \in Snapshots /\ graph'.quantity = graph.quantity
      BY <2>1, <2>6, <2>7, <2>8 DEF GraphInv, Snapshots
    <2> QED BY <2>9 DEF GraphInv
  <1>3. ASSUME NEW o \in Orders, NEW q \in Quantities, ChangeOrder(o, q)
        PROVE  GraphInv'
    <2>1. /\ graph' = [graph EXCEPT !.quantity = graph'.quantity, !.version = graph'.version]
          /\ graph'.quantity = [graph.quantity EXCEPT ![o] = q]
          /\ graph'.version = [graph.version EXCEPT ![o] = @ + 1]
      BY <1>3 DEF ChangeOrder, GraphInv, Snapshots
    <2>2. /\ graph'.quantity \in [Orders -> Nat]
          /\ \A p \in Orders : graph'.quantity[p] \in Quantities \cup {1}
      BY <2>1, RecoveryAssumption DEF GraphInv, Snapshots
    <2>3. graph'.version \in [Orders -> Nat]
      BY <2>1 DEF GraphInv, Snapshots
    <2> QED BY <2>1, <2>2, <2>3 DEF GraphInv, Snapshots
  <1>4. ASSUME NEW c \in Cases, NEW o \in Orders, Mirrored(c, o)
        PROVE  GraphInv'
    <2>1. track[c][o].option \in Ingredients
      <3>1. track[c][o].state = "APPLYING" /\ CaseInv(case[c], steps[c], track[c])
        BY <1>4 DEF Mirrored, CasesInv
      <3>2. case[c] \notin Unanalyzed
        BY <3>1 DEF CaseInv, NoTrack, Track
      <3> QED BY <3>1, <3>2 DEF CaseInv, Live
    <2>2. /\ graph' = [graph EXCEPT !.pin = graph'.pin, !.version = graph'.version]
          /\ graph'.pin = [graph.pin EXCEPT ![o] = track[c][o].option]
          /\ graph'.version = [graph.version EXCEPT ![o] = @ + 1]
      BY <1>4 DEF Mirrored, GraphInv, Snapshots
    <2>3. graph'.pin \in [Orders -> Ingredients] /\ graph'.version \in [Orders -> Nat]
      BY <2>1, <2>2 DEF GraphInv, Snapshots
    <2> QED BY <2>2, <2>3 DEF GraphInv, Snapshots
  <1>5. \/ UNCHANGED graph
        \/ \E c \in Cases, r \in Ingredients, lost \in Losses \cup {Unknown} :
              ReportStock(c, r, lost)
        \/ \E c \in Cases, scope \in SUBSET Lines, got \in Losses \cup {Unknown} :
              ReportDelivery(c, scope, got)
        \/ \E o \in Orders, q \in Quantities : ChangeOrder(o, q)
        \/ \E c \in Cases, o \in Orders : Mirrored(c, o)
    <2>1. ASSUME NEW c \in Cases, Analyze(c) \/ PlanRecovery(c) \/ Confirm(c)
          PROVE  UNCHANGED graph
      BY <2>1 DEF Analyze, PlanRecovery, Confirm
    <2>2. ASSUME NEW c \in Cases, NEW o \in Orders,
                 \/ RequestApproval(c, o) \/ CustomerAgrees(c, o) \/ CustomerDoesNot(c, o)
                 \/ Revalidate(c, o) \/ Replan(c, o) \/ ApplyRecovery(c, o)
                 \/ FinalizeRecovery(c, o) \/ AbandonRecovery(c, o)
          PROVE  UNCHANGED graph
      BY <2>2 DEF RequestApproval, CustomerAgrees, CustomerDoesNot, Revalidate, Replan,
                  ApplyRecovery, FinalizeRecovery, AbandonRecovery
    <2> QED BY <2>1, <2>2 DEF Next, vars
  <1> QED BY <1>0, <1>1, <1>2, <1>3, <1>4, <1>5
-----------------------------------------------------------------------------
(* The cases.                                                              *)

\* One case moves, the others stay.
LEMMA CaseMoves ==
  ASSUME CasesInv, NEW c \in Cases, NEW state \in CaseStates, NEW due, NEW tr,
         CaseInv(state, due, tr),
         case' = [case EXCEPT ![c] = state],
         steps' = [steps EXCEPT ![c] = due],
         track' = [track EXCEPT ![c] = tr],
         entry' \in [Cases -> SUBSET Ingredients]
  PROVE  CasesInv'
  <1>1. due \in SUBSET StepRecords /\ tr \in [Orders -> Live \cup {NoTrack}]
    BY DEF CaseInv
  <1>2. /\ case' \in [Cases -> CaseStates]
        /\ steps' \in [Cases -> SUBSET StepRecords]
        /\ track' \in [Cases -> [Orders -> Live \cup {NoTrack}]]
    BY <1>1 DEF CasesInv
  <1>3. ASSUME NEW d \in Cases
        PROVE  CaseInv(case'[d], steps'[d], track'[d])
    <2>1. CASE d = c
      <3>1. case'[d] = state /\ steps'[d] = due /\ track'[d] = tr
        BY <2>1 DEF CasesInv
      <3> QED BY <3>1
    <2>2. CASE d # c
      <3>1. case'[d] = case[d] /\ steps'[d] = steps[d] /\ track'[d] = track[d]
        BY <2>2 DEF CasesInv
      <3> QED BY <3>1 DEF CasesInv
    <2> QED BY <2>1, <2>2
  <1> QED BY <1>2, <1>3 DEF CasesInv

\* Whatever an execution commits is settled into a case that is one of these again.
LEMMA SettleKeeps ==
  ASSUME CasesInv, NEW c \in Cases, case[c] \notin Unanalyzed, NEW tr, NEW left,
         CaseInv(case[c], left, tr), Settle(c, tr, left), UNCHANGED entry
  PROVE  CasesInv'
  <1>1. /\ left \subseteq StepRecords
        /\ tr \in [Orders -> Live]
        /\ \A s, u \in left : s.order = u.order => s = u
        /\ \A s \in left : Fits(case[c], s, tr[s.order])
        /\ \A o \in Orders : tr[o].state \in {"WAITING_FOR_CUSTOMER", "APPLYING"} =>
                               tr[o].option # None
        /\ case[c] # "ANALYZED" => \A o \in Orders : HasItsOption(tr[o])
    BY DEF CaseInv
  <1>2. entry' \in [Cases -> SUBSET Ingredients] /\ case[c] \in CaseStates
    BY DEF CasesInv
  <1>3. CASE StartsChecking(c, tr, left)
    <2> DEFINE yes == Answered(tr)
               due == left \cup {Step("REVALIDATE_RECOVERY", o) : o \in yes}
               checked == [o \in Orders |-> IF o \in yes THEN [tr[o] EXCEPT !.answer = "CHECKED"]
                                            ELSE tr[o]]
    <2>1. /\ case' = [case EXCEPT ![c] = "REVALIDATING"]
          /\ steps' = [steps EXCEPT ![c] = due]
          /\ track' = [track EXCEPT ![c] = checked]
      BY <1>3 DEF Settle
    <2>2. yes \subseteq Orders
          /\ \A o \in yes : tr[o].state = "WAITING_FOR_CUSTOMER" /\ tr[o].answer = "YES"
      BY DEF Answered
    <2>3. ASSUME NEW o \in Orders
          PROVE  /\ checked[o] \in Live
                 /\ checked[o].state = tr[o].state /\ checked[o].class = tr[o].class
                 /\ checked[o].option = tr[o].option
                 /\ o \in yes => checked[o].answer = "CHECKED"
                 /\ o \notin yes => checked[o] = tr[o]
      <3>1. tr[o] \in Live
        BY <1>1
      <3> HIDE DEF yes
      <3>2. CASE o \in yes
        <4>1. checked[o] = [tr[o] EXCEPT !.answer = "CHECKED"]
          BY <3>2
        <4> HIDE DEF checked
        <4> QED BY <3>1, <3>2, <4>1 DEF Live
      <3>3. CASE o \notin yes
        BY <3>1, <3>3
      <3> QED BY <3>2, <3>3
    <2>4. \A s \in left : s.order \in Orders /\ s.order \notin yes
      <3> SUFFICES ASSUME NEW s \in left PROVE s.order \in Orders /\ s.order \notin yes
        OBVIOUS
      <3>1. s.order \in Orders /\ Fits(case[c], s, tr[s.order])
        BY <1>1 DEF StepRecords
      <3> QED BY <2>2, <3>1 DEF Fits
    <2>5. \A s \in left : Fits("REVALIDATING", s, tr[s.order])
      <3>1. case[c] = "REVALIDATING" \/ left = {}
        BY <1>3 DEF StartsChecking
      <3> QED BY <1>1, <3>1
    <2> HIDE DEF yes
    <2>6. \A s \in due : \/ s \in left
                         \/ /\ s.kind = "REVALIDATE_RECOVERY" /\ s.order \in yes
                            /\ s = Step("REVALIDATE_RECOVERY", s.order)
      BY DEF Step
    <2>7. due \subseteq StepRecords
      BY <1>1, <2>2 DEF StepRecords, StepKinds, Step
    <2>8. checked \in [Orders -> Live]
      BY <2>3
    <2> HIDE DEF due, checked
    <2>9. \A s, u \in due : s.order = u.order => s = u
      BY <1>1, <2>4, <2>6
    <2>10. \A s \in due : Fits("REVALIDATING", s, checked[s.order])
      <3> SUFFICES ASSUME NEW s \in due PROVE Fits("REVALIDATING", s, checked[s.order])
        OBVIOUS
      <3>1. CASE s \in left
        BY <2>3, <2>4, <2>5, <3>1
      <3>2. CASE s.kind = "REVALIDATE_RECOVERY" /\ s.order \in yes
        BY <2>2, <2>3, <3>2 DEF Fits
      <3> QED BY <2>6, <3>1, <3>2
    <2>11. \A o \in Orders : HasItsOption(checked[o])
      <3>1. case[c] # "ANALYZED"
        BY <1>3 DEF StartsChecking
      <3> QED BY <1>1, <2>3, <3>1 DEF HasItsOption
    <2>12. CaseInv("REVALIDATING", due, checked)
      BY <1>1, <2>3, <2>7, <2>8, <2>9, <2>10, <2>11 DEF CaseInv, Unanalyzed
    <2> QED BY <1>2, <2>1, <2>12, CaseMoves DEF CaseStates
  <1>4. CASE ~StartsChecking(c, tr, left)
    <2> DEFINE state == RoundExit(c, tr, left)
    <2>1. /\ case' = [case EXCEPT ![c] = state]
          /\ steps' = [steps EXCEPT ![c] = left]
          /\ track' = [track EXCEPT ![c] = tr]
      BY <1>4 DEF Settle
    <2>2. \/ state = case[c]
          \/ case[c] = "REVALIDATING" /\ state \in {"PLANNED", "EXECUTING"}
      BY DEF RoundExit
    <2> HIDE DEF state
    <2>3. \A s \in left : Fits(state, s, tr[s.order])
      BY <1>1, <2>2 DEF Fits
    <2>4. CaseInv(state, left, tr)
      BY <1>1, <2>2, <2>3 DEF CaseInv, Unanalyzed
    <2>5. state \in CaseStates
      BY <1>2, <2>2 DEF CaseStates
    <2> QED BY <1>2, <2>1, <2>4, <2>5, CaseMoves
  <1> QED BY <1>3, <1>4

\* What an analysed case's tracks are.
LEMMA Analysed ==
  ASSUME CasesInv, NEW c \in Cases, NEW o \in Orders,
         track[c][o].state # "NONE" \/ steps[c] # {}
  PROVE  /\ case[c] \notin Unanalyzed
         /\ track[c] \in [Orders -> Live]
  <1>1. CaseInv(case[c], steps[c], track[c])
    BY DEF CasesInv
  <1>2. case[c] \notin Unanalyzed
    BY <1>1 DEF CaseInv, NoTrack, Track
  <1> QED BY <1>1, <1>2 DEF CaseInv

\* A step is done: its track becomes t, and at most one step of the same promise follows.
LEMMA StepDone ==
  ASSUME CasesInv, NEW c \in Cases, NEW s \in steps[c], NEW t \in Live,
         NEW next \in SUBSET StepRecords,
         \A u \in next : u.order = s.order /\ Fits(case[c], u, t),
         \A u, v \in next : u = v,
         t.state \in {"WAITING_FOR_CUSTOMER", "APPLYING"} => t.option # None,
         HasItsOption(t)
  PROVE  /\ case[c] \notin Unanalyzed
         /\ CaseInv(case[c], (steps[c] \ {s}) \cup next, [track[c] EXCEPT ![s.order] = t])
  <1>1. CaseInv(case[c], steps[c], track[c])
    BY DEF CasesInv
  <1>2. case[c] \notin Unanalyzed
    BY <1>1 DEF CaseInv
  <1>3. /\ steps[c] \subseteq StepRecords
        /\ track[c] \in [Orders -> Live]
        /\ \A u, v \in steps[c] : u.order = v.order => u = v
        /\ \A u \in steps[c] : Fits(case[c], u, track[c][u.order])
        /\ \A o \in Orders : track[c][o].state \in {"WAITING_FOR_CUSTOMER", "APPLYING"} =>
                               track[c][o].option # None
        /\ case[c] # "ANALYZED" => \A o \in Orders : HasItsOption(track[c][o])
    BY <1>1, <1>2 DEF CaseInv
  <1> DEFINE due == (steps[c] \ {s}) \cup next
             tr == [track[c] EXCEPT ![s.order] = t]
  <1>4. s.order \in Orders
    BY <1>3 DEF StepRecords
  <1>5. \A o \in Orders : tr[o] = IF o = s.order THEN t ELSE track[c][o]
    BY <1>3, <1>4
  <1>6. tr \in [Orders -> Live]
    BY <1>3, <1>4
  <1> HIDE DEF tr
  <1>7. due \subseteq StepRecords /\ \A u, v \in due : u.order = v.order => u = v
    BY <1>3
  <1>8. \A u \in due : Fits(case[c], u, tr[u.order])
    <2> SUFFICES ASSUME NEW u \in due PROVE Fits(case[c], u, tr[u.order])
      OBVIOUS
    <2>1. CASE u \in next
      BY <1>4, <1>5, <2>1
    <2>2. CASE u \in steps[c] \ {s}
      <3>1. u.order # s.order /\ u.order \in Orders
        BY <1>3, <2>2 DEF StepRecords
      <3> QED BY <1>3, <1>5, <2>2, <3>1
    <2> QED BY <2>1, <2>2
  <1>9. \A o \in Orders : tr[o].state \in {"WAITING_FOR_CUSTOMER", "APPLYING"} =>
                            tr[o].option # None
    BY <1>3, <1>5
  <1>10. case[c] # "ANALYZED" => \A o \in Orders : HasItsOption(tr[o])
    BY <1>3, <1>5
  <1> HIDE DEF due
  <1>11. CaseInv(case[c], due, tr)
    BY <1>2, <1>6, <1>7, <1>8, <1>9, <1>10 DEF CaseInv
  <1> QED BY <1>2, <1>11 DEF due, tr

\* A track moves that no step is due of.
LEMMA TrackMoves ==
  ASSUME CasesInv, NEW c \in Cases, case[c] \notin Unanalyzed, NEW o \in Orders, NEW t \in Live,
         \A u \in steps[c] : u.order # o,
         t.state \in {"WAITING_FOR_CUSTOMER", "APPLYING"} => t.option # None,
         HasItsOption(t)
  PROVE  CaseInv(case[c], steps[c], [track[c] EXCEPT ![o] = t])
  <1>1. CaseInv(case[c], steps[c], track[c])
    BY DEF CasesInv
  <1>3. /\ steps[c] \subseteq StepRecords
        /\ track[c] \in [Orders -> Live]
        /\ \A u, v \in steps[c] : u.order = v.order => u = v
        /\ \A u \in steps[c] : Fits(case[c], u, track[c][u.order])
        /\ \A p \in Orders : track[c][p].state \in {"WAITING_FOR_CUSTOMER", "APPLYING"} =>
                               track[c][p].option # None
        /\ case[c] # "ANALYZED" => \A p \in Orders : HasItsOption(track[c][p])
    BY <1>1 DEF CaseInv
  <1> DEFINE tr == [track[c] EXCEPT ![o] = t]
  <1>5. \A p \in Orders : tr[p] = IF p = o THEN t ELSE track[c][p]
    BY <1>3
  <1>6. tr \in [Orders -> Live]
    BY <1>3
  <1> HIDE DEF tr
  <1>7. \A u \in steps[c] : Fits(case[c], u, tr[u.order])
    BY <1>3, <1>5 DEF StepRecords
  <1>8. \A p \in Orders : tr[p].state \in {"WAITING_FOR_CUSTOMER", "APPLYING"} =>
                            tr[p].option # None
    BY <1>3, <1>5
  <1>9. case[c] # "ANALYZED" => \A p \in Orders : HasItsOption(tr[p])
    BY <1>3, <1>5
  <1>10. CaseInv(case[c], steps[c], tr)
    BY <1>3, <1>6, <1>7, <1>8, <1>9 DEF CaseInv
  <1> QED BY <1>10 DEF tr

LEMMA FingerprintIsSeen ==
  ASSUME GraphInv, NEW o \in Orders, NEW scope \in SUBSET Ingredients
  PROVE  Fingerprint(graph, o, scope) \in Seen
  BY DEF GraphInv, Seen

\* What the analysis records of a promise, and what the plan writes of one it will recover.
LEMMA TracksAreLive ==
  ASSUME GraphInv, CasesInv, NEW c \in Cases, NEW o \in Orders
  PROVE  LET v == Analysis(graph, entry[c])[o]
         IN  /\ v \in Verdicts
             /\ v.class \in Recoverable <=> v.option # None
             /\ \A linked \in BOOLEAN : /\ Record(v, linked) \in Live
                                        /\ Record(v, linked).state \in
                                             {"UNAFFECTED", "LINKED", "PENDING"}
             /\ Record(v, FALSE).state = "PENDING" => v.class # "UNAFFECTED"
             /\ Planned(c, o, v) \in Live
             /\ Planned(c, o, v).state = "PENDING" /\ HasItsOption(Planned(c, o, v))
  <1> DEFINE v == Analysis(graph, entry[c])[o]
  <1>1. v \in Verdicts /\ (v.class \in Recoverable <=> v.option # None)
    BY AnalysisOffers DEF GraphInv
  <1>2. Scope(entry[c], v) \in SUBSET Ingredients
    BY <1>1 DEF Scope, CasesInv, Verdicts
  <1>3. Fingerprint(graph, o, Scope(entry[c], v)) \in Seen
    BY <1>2, FingerprintIsSeen
  <1> HIDE DEF v
  <1>4. v.class \in Classes /\ v.rule \in Rules /\ v.option \in Ingredients \cup {None}
    BY <1>1 DEF Verdicts, VerdictClasses, Classes
  <1>5. \A linked \in BOOLEAN : /\ Record(v, linked) \in Live
                                /\ Record(v, linked).state \in {"UNAFFECTED", "LINKED", "PENDING"}
    BY <1>4 DEF Record, Track, Live, TrackStates, Seen
  <1>6. Record(v, FALSE).state = "PENDING" => v.class # "UNAFFECTED"
    BY DEF Record, Track
  <1>7. Planned(c, o, v) = Track("PENDING", v, v.option, Scope(entry[c], v),
                                 Fingerprint(graph, o, Scope(entry[c], v)))
    BY DEF Planned
  <1>8. Planned(c, o, v) \in Live
    BY <1>2, <1>3, <1>4, <1>7 DEF Track, Live, TrackStates
  <1>9. Planned(c, o, v).state = "PENDING" /\ HasItsOption(Planned(c, o, v))
    BY <1>1, <1>7 DEF Track, HasItsOption
  <1> QED BY <1>1, <1>5, <1>6, <1>8, <1>9 DEF v

\* A track that is only moved to another state.
LEMMA WithMoves ==
  ASSUME CasesInv, NEW c \in Cases, track[c] \in [Orders -> Live], NEW o \in Orders,
         NEW state \in TrackStates
  PROVE  LET t == [track[c][o] EXCEPT !.state = state]
         IN  /\ t \in Live /\ t.state = state /\ t.option = track[c][o].option
             /\ With(c, o, state) = [track[c] EXCEPT ![o] = t]
  BY DEF With, Live

\* A step carried out, and its track moved to another state, without another to follow.
LEMMA StepEnds ==
  ASSUME CasesInv, NEW c \in Cases, NEW o \in Orders, NEW s \in steps[c], s.order = o,
         NEW state \in TrackStates \ {"PENDING"},
         state \in {"WAITING_FOR_CUSTOMER", "APPLYING"} => track[c][o].option # None
  PROVE  /\ case[c] \notin Unanalyzed
         /\ CaseInv(case[c], steps[c] \ {s}, With(c, o, state))
  <1>1. track[c] \in [Orders -> Live]
    BY Analysed
  <1> DEFINE t == [track[c][o] EXCEPT !.state = state]
  <1>2. /\ t \in Live /\ t.state = state /\ t.option = track[c][o].option
        /\ With(c, o, state) = [track[c] EXCEPT ![o] = t]
    BY <1>1, WithMoves
  <1> HIDE DEF t
  <1>3. HasItsOption(t)
    BY <1>2 DEF HasItsOption
  <1>4. (steps[c] \ {s}) \cup {} = steps[c] \ {s}
    OBVIOUS
  <1>5. {} \in SUBSET StepRecords
    OBVIOUS
  <1>6. /\ \A u \in {} : u.order = s.order /\ Fits(case[c], u, t)
        /\ \A u, v \in {} : u = v
    OBVIOUS
  <1>7. /\ case[c] \notin Unanalyzed
        /\ CaseInv(case[c], (steps[c] \ {s}) \cup {}, [track[c] EXCEPT ![s.order] = t])
    BY <1>2, <1>3, <1>5, <1>6, StepDone
  <1> QED BY <1>2, <1>4, <1>7

LEMMA StepIs ==
  \A kind, o : Step(kind, o).kind = kind /\ Step(kind, o).order = o
  BY DEF Step

LEMMA RequestKeeps ==
  ASSUME CasesInv, NEW c \in Cases, NEW o \in Orders, RequestApproval(c, o)
  PROVE  CasesInv'
  <1> DEFINE s == Step("REQUEST_APPROVAL", o)
             state == IF track[c][o].option # None /\ StillAsPlanned(c, o)
                      THEN "WAITING_FOR_CUSTOMER" ELSE "ESCALATED"
  <1>1. s \in steps[c] /\ Settle(c, With(c, o, state), steps[c] \ {s}) /\ UNCHANGED entry
    BY DEF RequestApproval
  <1>2. s.order = o
    BY StepIs
  <1>3. /\ state \in TrackStates \ {"PENDING"}
        /\ state \in {"WAITING_FOR_CUSTOMER", "APPLYING"} => track[c][o].option # None
    BY DEF TrackStates
  <1> HIDE DEF s, state
  <1>4. case[c] \notin Unanalyzed /\ CaseInv(case[c], steps[c] \ {s}, With(c, o, state))
    BY <1>1, <1>2, <1>3, StepEnds
  <1> QED BY <1>1, <1>4, SettleKeeps

LEMMA ApplyKeeps ==
  ASSUME CasesInv, NEW c \in Cases, NEW o \in Orders, ApplyRecovery(c, o)
  PROVE  CasesInv'
  <1> DEFINE s == Step("APPLY_RECOVERY", o)
             state == IF StillAsPlanned(c, o) THEN "APPLYING" ELSE "ESCALATED"
  <1>1. s \in steps[c] /\ Settle(c, With(c, o, state), steps[c] \ {s}) /\ UNCHANGED entry
    BY DEF ApplyRecovery
  <1>2. s.order = o /\ s.kind = "APPLY_RECOVERY"
    BY StepIs
  <1>3. state \in TrackStates \ {"PENDING"}
    BY DEF TrackStates
  <1> HIDE DEF s, state
  <1>4. Fits(case[c], s, track[c][o])
    BY <1>1, <1>2 DEF CasesInv, CaseInv
  <1>5. track[c][o].option # None
    BY <1>2, <1>4 DEF Fits
  <1>6. case[c] \notin Unanalyzed /\ CaseInv(case[c], steps[c] \ {s}, With(c, o, state))
    BY <1>1, <1>2, <1>3, <1>5, StepEnds
  <1> QED BY <1>1, <1>6, SettleKeeps

\* A check that passes is followed by the change, one that fails by another look.
LEMMA RevalidateKeeps ==
  ASSUME CasesInv, NEW c \in Cases, NEW o \in Orders, Revalidate(c, o)
  PROVE  CasesInv'
  <1> DEFINE s == Step("REVALIDATE_RECOVERY", o)
             apply == Step("APPLY_RECOVERY", o)
             replan == Step("REPLAN_TRACK", o)
  <1>1. s \in steps[c] /\ s.order = o /\ s.kind = "REVALIDATE_RECOVERY" /\ UNCHANGED entry
    BY StepIs DEF Revalidate
  <1>2. /\ apply.order = o /\ apply.kind = "APPLY_RECOVERY" /\ {apply} \in SUBSET StepRecords
        /\ replan.order = o /\ replan.kind = "REPLAN_TRACK" /\ {replan} \in SUBSET StepRecords
    BY DEF Step, StepRecords, StepKinds
  <1>3. track[c] \in [Orders -> Live] /\ case[c] \notin Unanalyzed
    BY <1>1, Analysed
  <1>4. /\ track[c][o].state = "WAITING_FOR_CUSTOMER" /\ track[c][o].answer = "CHECKED"
        /\ track[c][o].option # None
    <2>1. Fits(case[c], s, track[c][o])
      BY <1>1, <1>3 DEF CasesInv, CaseInv
    <2>2. track[c][o].state = "WAITING_FOR_CUSTOMER" /\ track[c][o].answer = "CHECKED"
      BY <1>1, <2>1 DEF Fits
    <2> QED BY <1>3, <2>2 DEF CasesInv, CaseInv
  <1>5. CASE ChecksPass(c, o)
    <2>1. Settle(c, track[c], (steps[c] \ {s}) \cup {apply})
      BY <1>5 DEF Revalidate
    <2> HIDE DEF s, apply
    <2> DEFINE t == track[c][o]
    <2>2. /\ t \in Live /\ [track[c] EXCEPT ![s.order] = t] = track[c]
          /\ HasItsOption(t)
      BY <1>1, <1>3, <1>4 DEF HasItsOption
    <2>3. Fits(case[c], apply, t)
      BY <1>2, <1>4 DEF Fits
    <2>4. CaseInv(case[c], (steps[c] \ {s}) \cup {apply}, [track[c] EXCEPT ![s.order] = t])
      <3> HIDE DEF t
      <3>1. \A u \in {apply} : u.order = s.order /\ Fits(case[c], u, t)
        BY <1>1, <1>2, <2>3
      <3>2. t.state \in {"WAITING_FOR_CUSTOMER", "APPLYING"} => t.option # None
        BY <1>4 DEF t
      <3>3. \A u, w \in {apply} : u = w
        OBVIOUS
      <3>4. t \in Live /\ HasItsOption(t)
        BY <2>2
      <3> QED BY <1>1, <1>2, <3>1, <3>2, <3>3, <3>4, StepDone
    <2> QED BY <1>1, <1>3, <2>1, <2>2, <2>4, SettleKeeps
  <1>6. CASE ~ChecksPass(c, o)
    <2>1. Settle(c, With(c, o, "STALE"), (steps[c] \ {s}) \cup {replan})
      BY <1>6 DEF Revalidate
    <2> HIDE DEF s, replan
    <2> DEFINE t == [track[c][o] EXCEPT !.state = "STALE"]
    <2>s. "STALE" \in TrackStates
      BY DEF TrackStates
    <2>2. t \in Live /\ t.state = "STALE" /\ With(c, o, "STALE") = [track[c] EXCEPT ![o] = t]
      BY <1>3, <2>s, WithMoves
    <2> HIDE DEF t
    <2>3. Fits(case[c], replan, t) /\ HasItsOption(t)
      BY <1>2, <2>2 DEF Fits, HasItsOption
    <2>4. CaseInv(case[c], (steps[c] \ {s}) \cup {replan}, [track[c] EXCEPT ![s.order] = t])
      <3>1. \A u \in {replan} : u.order = s.order /\ Fits(case[c], u, t)
        BY <1>1, <1>2, <2>3
      <3> QED BY <1>1, <1>2, <2>2, <2>3, <3>1, StepDone
    <2> QED BY <1>1, <1>3, <2>1, <2>2, <2>4, SettleKeeps
  <1> QED BY <1>5, <1>6

\* A promise that is planned anew has no step due: what it chose last can no longer be applied.
LEMMA ReplanKeeps ==
  ASSUME GraphInv, CasesInv, NEW c \in Cases, NEW o \in Orders, Replan(c, o)
  PROVE  CasesInv'
  <1> DEFINE s == Step("REPLAN_TRACK", o)
             v == Analysis(graph, entry[c])[o]
             t == IF v.class = "UNAFFECTED" THEN Record(v, FALSE) ELSE Planned(c, o, v)
  <1>1. /\ s \in steps[c] /\ s.order = o /\ UNCHANGED entry
        /\ Settle(c, [track[c] EXCEPT ![o] = t], steps[c] \ {s})
    BY StepIs DEF Replan
  <1>2. t \in Live /\ t.state \notin {"WAITING_FOR_CUSTOMER", "APPLYING"} /\ HasItsOption(t)
    <2>1. CASE v.class = "UNAFFECTED"
      <3>1. t = Record(v, FALSE)
        BY <2>1
      <3>2. Record(v, FALSE).state \in {"UNAFFECTED", "LINKED"} /\ Record(v, FALSE) \in Live
        BY <2>1, TracksAreLive
      <3> HIDE DEF t
      <3> QED BY <3>1, <3>2 DEF HasItsOption
    <2>2. CASE v.class # "UNAFFECTED"
      <3>1. t = Planned(c, o, v)
        BY <2>2
      <3> HIDE DEF t
      <3> QED BY <3>1, TracksAreLive
    <2> QED BY <2>1, <2>2
  <1> HIDE DEF s, t
  <1>3. (steps[c] \ {s}) \cup {} = steps[c] \ {s} /\ {} \in SUBSET StepRecords
    OBVIOUS
  <1>4. /\ case[c] \notin Unanalyzed
        /\ CaseInv(case[c], (steps[c] \ {s}) \cup {}, [track[c] EXCEPT ![s.order] = t])
    <2>1. /\ \A u \in {} : u.order = s.order /\ Fits(case[c], u, t)
          /\ \A u, w \in {} : u = w
      OBVIOUS
    <2> QED BY <1>1, <1>2, <1>3, <2>1, StepDone
  <1> QED BY <1>1, <1>3, <1>4, SettleKeeps

\* A track no step can be due of.
LEMMA NothingDue ==
  ASSUME CasesInv, NEW c \in Cases, case[c] \notin Unanalyzed, NEW o \in Orders,
         \/ track[c][o].state = "WAITING_FOR_CUSTOMER" /\ track[c][o].answer # "CHECKED"
         \/ track[c][o].state \in {"APPLYING", "UNAFFECTED", "LINKED"}
         \/ track[c][o].state = "PENDING" /\ case[c] # "EXECUTING"
  PROVE  \A u \in steps[c] : u.order # o
  <1> SUFFICES ASSUME NEW u \in steps[c], u.order = o PROVE FALSE
    OBVIOUS
  <1>1. Fits(case[c], u, track[c][o])
    BY DEF CasesInv, CaseInv
  <1> QED BY <1>1 DEF Fits

\* What the customer or the order system says of a promise nothing is due of.
LEMMA AnswerKeeps ==
  ASSUME CasesInv, NEW c \in Cases, NEW o \in Orders,
         \/ CustomerAgrees(c, o) \/ CustomerDoesNot(c, o)
         \/ FinalizeRecovery(c, o) \/ AbandonRecovery(c, o)
  PROVE  CasesInv'
  <1>1. \/ track[c][o].state = "WAITING_FOR_CUSTOMER" /\ track[c][o].answer = "NONE"
        \/ track[c][o].state = "APPLYING"
    BY DEF CustomerAgrees, CustomerDoesNot, FinalizeRecovery, AbandonRecovery
  <1>2. UNCHANGED entry
    BY DEF CustomerAgrees, CustomerDoesNot, FinalizeRecovery, AbandonRecovery
  <1>3. track[c] \in [Orders -> Live] /\ case[c] \notin Unanalyzed
    BY <1>1, Analysed
  <1>4. \A u \in steps[c] : u.order # o
    BY <1>1, <1>3, NothingDue
  <1>5. CASE CustomerAgrees(c, o)
    <2> DEFINE t == [track[c][o] EXCEPT !.answer = "YES"]
    <2>1. Settle(c, [track[c] EXCEPT ![o] = t], steps[c])
      BY <1>5 DEF CustomerAgrees
    <2>2. t \in Live /\ t.state = track[c][o].state /\ t.option = track[c][o].option
      BY <1>3 DEF Live
    <2>3. track[c][o].state = "WAITING_FOR_CUSTOMER"
      BY <1>5 DEF CustomerAgrees
    <2>4. t.option # None /\ HasItsOption(t)
      BY <1>3, <2>2, <2>3 DEF HasItsOption, CasesInv, CaseInv
    <2> HIDE DEF t
    <2>5. CaseInv(case[c], steps[c], [track[c] EXCEPT ![o] = t])
      BY <1>3, <1>4, <2>2, <2>4, TrackMoves
    <2> QED BY <1>2, <1>3, <2>1, <2>5, SettleKeeps
  <1>6. CASE \/ CustomerDoesNot(c, o) \/ FinalizeRecovery(c, o) \/ AbandonRecovery(c, o)
    <2>1. PICK state \in {"ESCALATED", "RECOVERED"} : Settle(c, With(c, o, state), steps[c])
      BY <1>6 DEF CustomerDoesNot, FinalizeRecovery, AbandonRecovery
    <2> DEFINE t == [track[c][o] EXCEPT !.state = state]
    <2>s. state \in TrackStates
      BY DEF TrackStates
    <2>2. t \in Live /\ t.state = state /\ With(c, o, state) = [track[c] EXCEPT ![o] = t]
      BY <1>3, <2>s, WithMoves
    <2> HIDE DEF t
    <2>3. HasItsOption(t)
      BY <2>2 DEF HasItsOption
    <2>4. CaseInv(case[c], steps[c], [track[c] EXCEPT ![o] = t])
      BY <1>3, <1>4, <2>2, <2>3, TrackMoves
    <2> QED BY <1>2, <1>3, <2>1, <2>2, <2>4, SettleKeeps
  <1> QED BY <1>5, <1>6

LEMMA ReportKeeps ==
  ASSUME CasesInv, NEW c \in Cases, NEW ingredients \in SUBSET Ingredients,
         Reported(c, ingredients)
  PROVE  CasesInv'
  <1>1. CaseInv(case[c], steps[c], track[c]) /\ case[c] = "NONE"
    BY DEF CasesInv, Reported
  <1>2. CaseInv("INTERPRETING", steps[c], track[c])
    BY <1>1 DEF CaseInv, Unanalyzed
  <1>3. /\ case' = [case EXCEPT ![c] = "INTERPRETING"]
        /\ steps' = [steps EXCEPT ![c] = steps[c]]
        /\ track' = [track EXCEPT ![c] = track[c]]
        /\ entry' \in [Cases -> SUBSET Ingredients]
    BY DEF Reported, CasesInv
  <1>4. "INTERPRETING" \in CaseStates
    BY DEF CaseStates
  <1> QED BY <1>2, <1>3, <1>4, CaseMoves

LEMMA AnalyzeKeeps ==
  ASSUME GraphInv, CasesInv, NEW c \in Cases, Analyze(c)
  PROVE  CasesInv'
  <1> DEFINE v(o) == Analysis(graph, entry[c])[o]
             tr == [o \in Orders |-> Record(v(o), LiveElsewhere(c, o))]
  <1>1. CaseInv(case[c], steps[c], track[c]) /\ case[c] = "INTERPRETING"
    BY DEF CasesInv, Analyze
  <1>2. steps[c] = {}
    BY <1>1 DEF CaseInv, Unanalyzed
  <1>3. \A o \in Orders : LiveElsewhere(c, o) \in BOOLEAN
    BY DEF LiveElsewhere
  <1>4. \A o \in Orders : tr[o] \in Live /\ tr[o].state \in {"UNAFFECTED", "LINKED", "PENDING"}
    BY <1>3, TracksAreLive
  <1>5. tr \in [Orders -> Live]
    BY <1>4
  <1>6. /\ case' = [case EXCEPT ![c] = "ANALYZED"]
        /\ steps' = [steps EXCEPT ![c] = {}]
        /\ track' = [track EXCEPT ![c] = tr]
        /\ entry' \in [Cases -> SUBSET Ingredients]
    BY <1>2 DEF Analyze, CasesInv
  <1> HIDE DEF tr
  <1>7. CaseInv("ANALYZED", {}, tr)
    BY <1>4, <1>5 DEF CaseInv, Unanalyzed
  <1>8. "ANALYZED" \in CaseStates
    BY DEF CaseStates
  <1> QED BY <1>6, <1>7, <1>8, CaseMoves

\* What the plan writes: of every pending track what was chosen just now, and the class it had,
\* which is the class it has.
LEMMA PlanWrites ==
  ASSUME GraphInv, CasesInv, NEW c \in Cases, PlanRecovery(c), NEW o \in Orders
  PROVE  LET v == Analysis(graph, entry[c])[o]
             t == track'[c][o]
         IN  /\ t \in Live
             /\ t.state = track[c][o].state
             /\ t.state # "PENDING" => t = track[c][o]
             /\ t.state = "PENDING" => t.option = v.option /\ HasItsOption(t)
  <1> DEFINE v == Analysis(graph, entry[c])[o]
             t == track'[c][o]
             old == track[c][o]
  <1>1. /\ case[c] = "ANALYZED" /\ v.class = old.class
        /\ t = IF old.state # "PENDING" THEN old
               ELSE [Planned(c, o, v) EXCEPT !.class = old.class, !.rule = old.rule]
    BY DEF PlanRecovery, Drift, CasesInv
  <1>2. old \in Live
    BY <1>1 DEF CasesInv, CaseInv, Unanalyzed
  <1>3. CASE old.state # "PENDING"
    BY <1>1, <1>2, <1>3
  <1>4. CASE old.state = "PENDING"
    <2>1. /\ Planned(c, o, v) \in Live /\ Planned(c, o, v).state = "PENDING"
          /\ Planned(c, o, v).option = v.option
          /\ v.class \in Recoverable <=> v.option # None
      BY TracksAreLive DEF Planned, Track
    <2> HIDE DEF v, old
    <2>2. /\ t \in Live /\ t.state = "PENDING" /\ t.class = old.class /\ t.option = v.option
      BY <1>1, <1>2, <1>4, <2>1 DEF Live
    <2>3. HasItsOption(t)
      BY <1>1, <2>1, <2>2 DEF HasItsOption
    <2> QED BY <1>4, <2>2, <2>3 DEF v, old
  <1> QED BY <1>3, <1>4

LEMMA PlanKeeps ==
  ASSUME GraphInv, CasesInv, NEW c \in Cases, PlanRecovery(c)
  PROVE  CasesInv'
  <1> DEFINE tr == track'[c]
  <1>1. CaseInv(case[c], steps[c], track[c]) /\ case[c] = "ANALYZED"
    BY DEF CasesInv, PlanRecovery
  <1>2. /\ steps[c] \subseteq StepRecords
        /\ \A s, u \in steps[c] : s.order = u.order => s = u
        /\ \A s \in steps[c] : Fits("ANALYZED", s, track[c][s.order])
        /\ \A o \in Orders : track[c][o].state \in {"WAITING_FOR_CUSTOMER", "APPLYING"} =>
                               track[c][o].option # None
    BY <1>1 DEF CaseInv, Unanalyzed
  <1>3. /\ case' = [case EXCEPT ![c] = "PLANNED"]
        /\ steps' = [steps EXCEPT ![c] = steps[c]]
        /\ track' = [track EXCEPT ![c] = tr]
        /\ tr = [o \in Orders |-> tr[o]]
        /\ entry' \in [Cases -> SUBSET Ingredients]
    BY DEF PlanRecovery, CasesInv
  <1>4. \A o \in Orders : /\ tr[o] \in Live
                          /\ tr[o].state = track[c][o].state
                          /\ tr[o].state # "PENDING" => tr[o] = track[c][o]
                          /\ HasItsOption(tr[o])
    BY PlanWrites DEF HasItsOption
  <1> HIDE DEF tr
  <1>5. tr \in [Orders -> Live]
    BY <1>3, <1>4
  <1>6. \A s \in steps[c] : Fits("PLANNED", s, tr[s.order])
    <2> SUFFICES ASSUME NEW s \in steps[c] PROVE Fits("PLANNED", s, tr[s.order])
      OBVIOUS
    <2>1. s.order \in Orders /\ Fits("ANALYZED", s, track[c][s.order])
      BY <1>2 DEF StepRecords
    <2>2. track[c][s.order].state # "PENDING"
      BY <2>1 DEF Fits
    <2> QED BY <1>4, <2>1, <2>2 DEF Fits
  <1>7. CaseInv("PLANNED", steps[c], tr)
    BY <1>2, <1>4, <1>5, <1>6 DEF CaseInv, Unanalyzed
  <1>8. "PLANNED" \in CaseStates
    BY DEF CaseStates
  <1> QED BY <1>3, <1>7, <1>8, CaseMoves

\* The confirmation gives every pending track one step, or sends it to the owner.
LEMMA ConfirmKeeps ==
  ASSUME CasesInv, NEW c \in Cases, Confirm(c)
  PROVE  CasesInv'
  <1> DEFINE pending == {o \in Orders : track[c][o].state = "PENDING"}
             auto == {o \in pending : /\ track[c][o].class = "AUTO_RECOVERABLE"
                                      /\ track[c][o].option # None}
             approval == {o \in pending : track[c][o].class = "APPROVAL_REQUIRED"}
             over == pending \ (auto \cup approval)
             due == (steps[c] \cup {Step("APPLY_RECOVERY", o) : o \in auto})
                    \cup {Step("REQUEST_APPROVAL", o) : o \in approval}
             tr == [o \in Orders |-> IF o \in over THEN [track[c][o] EXCEPT !.state = "ESCALATED"]
                                     ELSE track[c][o]]
  <1>1. CaseInv(case[c], steps[c], track[c]) /\ case[c] = "PLANNED"
    BY DEF CasesInv, Confirm
  <1>2. /\ steps[c] \subseteq StepRecords
        /\ track[c] \in [Orders -> Live]
        /\ \A s, u \in steps[c] : s.order = u.order => s = u
        /\ \A s \in steps[c] : Fits("PLANNED", s, track[c][s.order])
        /\ \A o \in Orders : track[c][o].state \in {"WAITING_FOR_CUSTOMER", "APPLYING"} =>
                               track[c][o].option # None
        /\ \A o \in Orders : HasItsOption(track[c][o])
    BY <1>1 DEF CaseInv, Unanalyzed
  <1>3. /\ case' = [case EXCEPT ![c] = "EXECUTING"]
        /\ steps' = [steps EXCEPT ![c] = due]
        /\ track' = [track EXCEPT ![c] = tr]
        /\ entry' \in [Cases -> SUBSET Ingredients]
    BY DEF Confirm, CasesInv
  <1>4. /\ auto \subseteq pending /\ approval \subseteq pending /\ pending \subseteq Orders
        /\ auto \cap approval = {} /\ over \subseteq pending
        /\ over \cap auto = {} /\ over \cap approval = {}
        /\ \A o \in auto : track[c][o].option # None
        /\ \A o \in Orders : o \in pending <=> track[c][o].state = "PENDING"
    OBVIOUS
  <1>5. \A s \in steps[c] : s.order \in Orders /\ s.order \notin pending
    BY <1>2, <1>4 DEF Fits, StepRecords
  <1> HIDE DEF pending, auto, approval, over
  <1>6. \A o \in Orders : /\ tr[o] \in Live
                          /\ o \in over => tr[o].state = "ESCALATED"
                          /\ o \notin over => tr[o] = track[c][o]
    BY <1>2 DEF Live, TrackStates
  <1>7. tr \in [Orders -> Live]
    BY <1>6
  <1>8. \A s \in due : \/ s \in steps[c]
                       \/ s.order \in auto /\ s = Step("APPLY_RECOVERY", s.order)
                       \/ s.order \in approval /\ s = Step("REQUEST_APPROVAL", s.order)
    BY DEF Step
  <1>9. due \subseteq StepRecords
    BY <1>2, <1>4 DEF StepRecords, StepKinds, Step
  <1> HIDE DEF due, tr
  <1>10. \A s, u \in due : s.order = u.order => s = u
    BY <1>2, <1>4, <1>5, <1>8
  <1>11. \A s \in due : Fits("EXECUTING", s, tr[s.order])
    <2> SUFFICES ASSUME NEW s \in due PROVE Fits("EXECUTING", s, tr[s.order])
      OBVIOUS
    <2>1. CASE s \in steps[c]
      <3>1. s.order \in Orders /\ tr[s.order] = track[c][s.order]
        BY <1>4, <1>5, <1>6, <2>1
      <3> QED BY <1>2, <2>1, <3>1 DEF Fits
    <2>2. CASE s.order \in auto /\ s = Step("APPLY_RECOVERY", s.order)
      <3>1. /\ s.order \in Orders /\ tr[s.order] = track[c][s.order] /\ s.kind = "APPLY_RECOVERY"
            /\ track[c][s.order].state = "PENDING" /\ track[c][s.order].option # None
        BY <1>4, <1>6, <2>2, StepIs
      <3> QED BY <3>1 DEF Fits
    <2>3. CASE s.order \in approval /\ s = Step("REQUEST_APPROVAL", s.order)
      <3>1. /\ s.order \in Orders /\ tr[s.order] = track[c][s.order] /\ s.kind = "REQUEST_APPROVAL"
            /\ track[c][s.order].state = "PENDING"
        BY <1>4, <1>6, <2>3, StepIs
      <3> QED BY <3>1 DEF Fits
    <2> QED BY <1>8, <2>1, <2>2, <2>3
  <1>12. \A o \in Orders : /\ tr[o].state \in {"WAITING_FOR_CUSTOMER", "APPLYING"} =>
                                tr[o].option # None
                           /\ HasItsOption(tr[o])
    BY <1>2, <1>6 DEF HasItsOption
  <1>13. CaseInv("EXECUTING", due, tr)
    BY <1>7, <1>9, <1>10, <1>11, <1>12 DEF CaseInv, Unanalyzed
  <1>14. "EXECUTING" \in CaseStates
    BY DEF CaseStates
  <1> QED BY <1>3, <1>13, <1>14, CaseMoves

LEMMA CasesKept == IInv /\ [Next]_vars => CasesInv'
  <1> SUFFICES ASSUME GraphInv, CasesInv, [Next]_vars PROVE CasesInv'
    BY DEF IInv
  <1>1. CASE UNCHANGED <<case, entry, track, steps>>
    BY <1>1 DEF CasesInv
  <1>2. ASSUME NEW c \in Cases, NEW r \in Ingredients, NEW lost \in Losses \cup {Unknown},
               ReportStock(c, r, lost)
        PROVE  CasesInv'
    <2>1. Reported(c, {r}) /\ {r} \in SUBSET Ingredients
      BY <1>2 DEF ReportStock
    <2> QED BY <2>1, ReportKeeps
  <1>3. ASSUME NEW c \in Cases, NEW scope \in SUBSET Lines, NEW got \in Losses \cup {Unknown},
               ReportDelivery(c, scope, got)
        PROVE  CasesInv'
    <2>1. Reported(c, {Brings[l] : l \in scope})
      BY <1>3 DEF ReportDelivery
    <2>2. {Brings[l] : l \in scope} \in SUBSET Ingredients
      BY GraphAssumption
    <2> QED BY <2>1, <2>2, ReportKeeps
  <1>4. ASSUME NEW c \in Cases, Analyze(c) \/ PlanRecovery(c) \/ Confirm(c)
        PROVE  CasesInv'
    BY <1>4, AnalyzeKeeps, PlanKeeps, ConfirmKeeps
  <1>5. ASSUME NEW c \in Cases, NEW o \in Orders,
               \/ RequestApproval(c, o) \/ CustomerAgrees(c, o) \/ CustomerDoesNot(c, o)
               \/ Revalidate(c, o) \/ Replan(c, o) \/ ApplyRecovery(c, o)
               \/ FinalizeRecovery(c, o) \/ AbandonRecovery(c, o)
        PROVE  CasesInv'
    BY <1>5, RequestKeeps, AnswerKeeps, RevalidateKeeps, ReplanKeeps, ApplyKeeps
  <1>6. ASSUME NEW c \in Cases, NEW o \in Orders, Mirrored(c, o)
        PROVE  UNCHANGED <<case, entry, track, steps>>
    BY <1>6 DEF Mirrored
  <1>7. ASSUME NEW o \in Orders, NEW q \in Quantities, ChangeOrder(o, q)
        PROVE  UNCHANGED <<case, entry, track, steps>>
    BY <1>7 DEF ChangeOrder
  <1>8. CASE UNCHANGED vars
    BY <1>1, <1>8 DEF vars
  <1>9. CASE Next
    BY <1>1, <1>2, <1>3, <1>4, <1>5, <1>6, <1>7, <1>9 DEF Next
  <1> QED BY <1>8, <1>9

-----------------------------------------------------------------------------
(* The theorems.                                                           *)

\* The inductive invariant: the graph is a snapshot the engine's theorems are about, and every
\* step that is due finds its track as it expects it.
THEOREM Inductive == Spec => []IInv
  <1>1. IInv /\ [Next]_vars => IInv'
    BY GraphKept, CasesKept DEF IInv
  <1> QED BY InitInv, <1>1, PTL DEF Spec

\* The graph, the tracks and the steps stay what the code's schema says they are.
THEOREM TypeCorrect == Spec => []TypeOK
  <1>1. IInv => TypeOK
    <2> SUFFICES ASSUME GraphInv, CasesInv PROVE TypeOK
      BY DEF IInv
    <2>1. /\ graph.hand \in [Ingredients -> Int \cup {Unknown}]
          /\ graph.posted \in [Ingredients -> Nat]
          /\ graph.line \in [Lines -> {"EXPECTED", "RECEIVED", "SHORT", "NOT_RECEIVED"}]
          /\ graph.pin \in [Orders -> Ingredients]
          /\ graph.quantity \in [Orders -> Quantities \cup {1}]
      BY DEF GraphInv, Snapshots
    <2>2. /\ case \in [Cases -> {"NONE", "INTERPRETING", "ANALYZED", "PLANNED", "EXECUTING",
                                 "REVALIDATING"}]
          /\ \A c \in Cases : steps[c] \subseteq [kind : StepKinds, order : Orders]
      BY DEF CasesInv, CaseStates, StepRecords
    <2>3. ASSUME NEW c \in Cases, NEW o \in Orders
          PROVE  track[c][o] = NoTrack \/ track[c][o] \in Live
      BY DEF CasesInv
    <2>4. \A t \in Live : /\ t.state \in TrackStates
                          /\ t.class \in Classes
                          /\ t.option \in Ingredients \cup {None}
                          /\ t.scope \subseteq Ingredients
                          /\ t.answer \in {"NONE", "YES", "CHECKED"}
      BY DEF Live
    <2>5. \A c \in Cases, o \in Orders :
            LET t == track[c][o]
            IN  \/ t = NoTrack
                \/ /\ t.state \in TrackStates
                   /\ t.class \in Classes
                   /\ t.option \in Ingredients \cup {None}
                   /\ t.scope \subseteq Ingredients
                   /\ t.answer \in {"NONE", "YES", "CHECKED"}
      BY <2>3, <2>4
    <2> QED BY <2>1, <2>2, <2>5 DEF TypeOK
  <1> QED BY Inductive, <1>1, PTL

\* Planning never writes a recoverable track without the option that recovers it, so the
\* branch recovery._partition keeps for one is never taken.
THEOREM NoneToPartition == Spec => []RecoverableHasItsOption
  <1>1. IInv => RecoverableHasItsOption
    <2> SUFFICES ASSUME CasesInv, NEW c \in Cases, NEW o \in Orders,
                        case[c] \notin {"NONE", "INTERPRETING", "ANALYZED"},
                        track[c][o].state = "PENDING",
                        track[c][o].class \in {"AUTO_RECOVERABLE", "APPROVAL_REQUIRED"}
                 PROVE  track[c][o].option # None
      BY DEF IInv, RecoverableHasItsOption
    <2>1. HasItsOption(track[c][o])
      BY DEF CasesInv, CaseInv, Unanalyzed
    <2> QED BY <2>1 DEF HasItsOption, Recoverable
  <1> QED BY Inductive, <1>1, PTL

LEMMA MaxOfTwo ==
  \A a, b \in Int : Max({a, b}) = IF a <= b THEN b ELSE a
  <1> SUFFICES ASSUME NEW a \in Int, NEW b \in Int
               PROVE  Max({a, b}) = IF a <= b THEN b ELSE a
    OBVIOUS
  <1> DEFINE m == IF a <= b THEN b ELSE a
  <1>1. m \in {a, b} /\ \A y \in {a, b} : m >= y
    OBVIOUS
  <1>2. \A x \in {a, b} : (\A y \in {a, b} : x >= y) => x = m
    OBVIOUS
  <1> QED BY <1>1, <1>2 DEF Max

\* What a way uses by a slot is there by then.
LEMMA PossibleIsWithin ==
  ASSUME NEW g \in Snapshots, NEW r, NEW claims, Scheduled(claims), Known(g, r, claims),
         g.hand[r] \in Int, NEW way \in [claims -> Nat]
  PROVE  Possible(g, r, claims, way) <=>
           \A c \in claims : /\ way[c] <= c.need
                             /\ Within(Used(way, claims, Start[c.order]),
                                       Supply(g, r, Start[c.order]))
  <1>1. Supplied(g, r)
    BY SupplyGrows DEF Known
  <1>2. ASSUME NEW c \in claims
        PROVE  /\ Supply(g, r, Start[c.order]) \in Int
               /\ Used(way, claims, Start[c.order]) \in Int
    <2>1. c.order \in Orders /\ Start[c.order] \in Nat
      BY GraphAssumption DEF Scheduled, Claims
    <2> DEFINE T == {d \in claims : Start[d.order] <= Start[c.order]}
    <2>2. IsFiniteSet(T) /\ T \in SUBSET T /\ \A d \in T : way[d] \in Int
      BY FS_Subset DEF Scheduled
    <2>3. Total(way, T) \in Int
      <3> HIDE DEF T
      <3> QED BY <2>2, TotalOf
    <2> QED BY <1>1, <2>1, <2>3 DEF Supplied, Used
  <1>3. ASSUME NEW c \in claims
        PROVE  Used(way, claims, Start[c.order]) <= Max({0, Supply(g, r, Start[c.order])}) <=>
               Within(Used(way, claims, Start[c.order]), Supply(g, r, Start[c.order]))
    <2> DEFINE used == Used(way, claims, Start[c.order])
               there == Supply(g, r, Start[c.order])
    <2>1. used \in Int /\ there \in Int
      BY <1>2
    <2> HIDE DEF used, there
    <2>2. Max({0, there}) = IF 0 <= there THEN there ELSE 0
      BY <2>1, MaxOfTwo
    <2>3. used <= Max({0, there}) <=> Within(used, there)
      BY <2>1, <2>2 DEF Within
    <2> QED BY <2>3 DEF used, there
  <1>4. Possible(g, r, claims, way) <=>
          \A c \in claims : /\ way[c] <= c.need
                            /\ Used(way, claims, Start[c.order])
                                 <= Max({0, Supply(g, r, Start[c.order])})
    BY DEF Possible, Used, Supply
  <1> QED BY <1>3, <1>4

\* In every snapshot the engine serves each ingredient by the schedule: nothing twice, nothing
\* from a delivery that comes later, and nothing to a task that an earlier one lacks.
THEOREM ServedByTheSchedule == Spec => []AllocatedByTheSchedule
  <1>1. GraphInv => AllocatedByTheSchedule
    <2> SUFFICES ASSUME GraphInv, NEW r \in Ingredients
                 PROVE  LET claims == Reservations(graph, r)
                                      \cup {Claim(o, graph.quantity[o], "candidate") :
                                              o \in {p \in Orders : graph.pin[p] # r}}
                            ways   == [claims -> 0..Max({1} \cup Quantities)]
                        IN  Known(graph, r, claims) =>
                              LET take == Allocate(graph, r, claims)
                              IN  /\ Possible(graph, r, claims, take)
                                  /\ \A way \in ways :
                                       \/ way = take
                                       \/ ~Possible(graph, r, claims, way)
                                       \/ \E c \in claims :
                                            /\ way[c] < take[c]
                                            /\ \A d \in claims : Before(d, c) => way[d] = take[d]
      BY DEF AllocatedByTheSchedule
    <2> DEFINE claims == Reservations(graph, r)
                         \cup {Claim(o, graph.quantity[o], "candidate") :
                                 o \in {p \in Orders : graph.pin[p] # r}}
               ways   == [claims -> 0..Max({1} \cup Quantities)]
               take == Allocate(graph, r, claims)
    <2>1. claims \in SUBSET Claimed(graph) /\ graph \in Snapshots
      BY ReservationsAreClaimed DEF GraphInv, Claimed, ClaimsOf
    <2>2. ways \subseteq [claims -> Nat]
      <3>1. 0..Max({1} \cup Quantities) \subseteq Nat
        OBVIOUS
      <3> HIDE DEF claims
      <3> QED BY <3>1
    <2> HIDE DEF claims, ways
    <2>3. ASSUME Known(graph, r, claims)
          PROVE  /\ Possible(graph, r, claims, take)
                 /\ \A way \in ways :
                      \/ way = take
                      \/ ~Possible(graph, r, claims, way)
                      \/ \E c \in claims :
                           /\ way[c] < take[c]
                           /\ \A d \in claims : Before(d, c) => way[d] = take[d]
      <3>1. Scheduled(claims) /\ Distinct(claims)
        BY <2>1, <2>3, ClaimedAreClaims DEF Known
      <3>2. graph.hand[r] \in Int
        BY <2>1, <2>3 DEF Known, Snapshots
      <3>3. /\ take \in [claims -> Nat]
            /\ \A c \in claims : take[c] <= c.need
        <4>1. Supplied(graph, r)
          BY <2>3, <3>2, SupplyGrows DEF Known
        <4>2. /\ take \in [claims -> Nat]
              /\ \A c \in claims :
                   /\ Left(graph, r, claims, c) \in Int
                   /\ take[c] = IF Left(graph, r, claims, c) > 0
                                THEN Min({c.need, Left(graph, r, claims, c)}) ELSE 0
          BY <3>1, <4>1, AllocateTakes
        <4> HIDE DEF take
        <4>3. ASSUME NEW c \in claims PROVE take[c] <= c.need
          <5> DEFINE left == Left(graph, r, claims, c)
          <5>1. c.need \in Nat /\ left \in Int /\ take[c] = IF left > 0 THEN Min({c.need, left}) ELSE 0
            BY <3>1, <4>2 DEF Scheduled, Claims
          <5> HIDE DEF left
          <5>2. Min({c.need, left}) = IF c.need <= left THEN c.need ELSE left
            BY <5>1, MinOfTwo
          <5> QED BY <5>1, <5>2
        <4> QED BY <4>2, <4>3
      <3>4. \A c \in claims : Within(Used(take, claims, Start[c.order]),
                                     Supply(graph, r, Start[c.order]))
        <4>1. \A c \in claims : Start[c.order] \in Nat
          BY <3>1, GraphAssumption DEF Scheduled, Claims
        <4> QED BY <2>3, <3>1, <3>2, <4>1, NothingIsServedTwice
      <3>5. Possible(graph, r, claims, take)
        BY <2>1, <2>3, <3>1, <3>2, <3>3, <3>4, PossibleIsWithin
      <3>6. ASSUME NEW way \in ways, way # take, Possible(graph, r, claims, way)
            PROVE  \E c \in claims :
                     /\ way[c] < take[c]
                     /\ \A d \in claims : Before(d, c) => way[d] = take[d]
        <4>1. way \in [claims -> Nat]
          BY <2>2, <3>6
        <4>2. \A c \in claims : /\ way[c] <= c.need
                                /\ Within(Used(way, claims, Start[c.order]),
                                          Supply(graph, r, Start[c.order]))
          BY <2>1, <2>3, <3>1, <3>2, <3>6, <4>1, PossibleIsWithin
        <4>3. \E c \in claims : /\ way[c] < take[c]
                                /\ \A d \in Ahead(claims, c) : way[d] = take[d]
          BY <2>3, <3>1, <3>2, <3>6, <4>1, <4>2, TheFirstAreServedFirst
        <4> QED BY <4>3 DEF Ahead
      <3> QED BY <3>5, <3>6
    <2> QED BY <2>3 DEF claims, ways
  <1>2. IInv => AllocatedByTheSchedule
    BY <1>1 DEF IInv
  <1> QED BY Inductive, <1>2, PTL

\* A case is planned by its plan, and by nothing it is settled after.
LEMMA OnlyThePlanPlans ==
  ASSUME CasesInv, Next, NEW c \in Cases, case[c] = "ANALYZED", case'[c] = "PLANNED"
  PROVE  PlanRecovery(c)
  <1>1. ASSUME NEW d \in Cases, NEW tr, NEW left, Settle(d, tr, left)
        PROVE  FALSE
    <2>1. \/ StartsChecking(d, tr, left) /\ case' = [case EXCEPT ![d] = "REVALIDATING"]
          \/ case' = [case EXCEPT ![d] = RoundExit(d, tr, left)]
      BY <1>1 DEF Settle
    <2>2. CASE case' = [case EXCEPT ![d] = "REVALIDATING"]
      BY <2>2 DEF CasesInv
    <2>3. CASE case' = [case EXCEPT ![d] = RoundExit(d, tr, left)]
      BY <2>3 DEF CasesInv, RoundExit
    <2> QED BY <2>1, <2>2, <2>3
  <1>2. ASSUME NEW d \in Cases, NEW o \in Orders,
               \/ RequestApproval(d, o) \/ CustomerAgrees(d, o) \/ CustomerDoesNot(d, o)
               \/ Revalidate(d, o) \/ Replan(d, o) \/ ApplyRecovery(d, o)
               \/ FinalizeRecovery(d, o) \/ AbandonRecovery(d, o)
        PROVE  FALSE
    <2>1. \E tr, left : Settle(d, tr, left)
      BY <1>2 DEF RequestApproval, CustomerAgrees, CustomerDoesNot, Revalidate, Replan,
                  ApplyRecovery, FinalizeRecovery, AbandonRecovery
    <2> QED BY <1>1, <2>1
  <1>3. ASSUME NEW d \in Cases, NEW o \in Orders, Mirrored(d, o) PROVE FALSE
    BY <1>3 DEF Mirrored
  <1>4. ASSUME NEW o \in Orders, NEW q \in Quantities, ChangeOrder(o, q) PROVE FALSE
    BY <1>4 DEF ChangeOrder
  <1>5. ASSUME NEW d \in Cases, NEW ingredients, Reported(d, ingredients) PROVE FALSE
    BY <1>5 DEF Reported, CasesInv
  <1>6. ASSUME NEW d \in Cases, Analyze(d) \/ Confirm(d) PROVE FALSE
    BY <1>6 DEF Analyze, Confirm, CasesInv
  <1>7. ASSUME NEW d \in Cases, PlanRecovery(d) PROVE d = c
    BY <1>7 DEF PlanRecovery, CasesInv
  <1>8. \E d \in Cases : PlanRecovery(d)
    BY <1>2, <1>3, <1>4, <1>5, <1>6 DEF Next, ReportStock, ReportDelivery
  <1> QED BY <1>7, <1>8

\* Whatever a plan offers its promises, all of it can be had at once.
THEOREM PlansFit == Spec => PlanFits
  <1> DEFINE chosen(c) == {o \in Orders : /\ track'[c][o].state = "PENDING"
                                          /\ track'[c][o].option # None}
             after(c) == [graph EXCEPT !.pin = [o \in Orders |->
                            IF o \in chosen(c) THEN track'[c][o].option ELSE @[o]]]
             Fit(c) == case[c] = "ANALYZED" /\ case'[c] = "PLANNED" =>
                         \A o \in chosen(c) :
                           LET s == after(c).pin[o]
                           IN  Served(after(c), s, Reservations(after(c), s),
                                      Reservation(after(c), o))
  <1>1. ASSUME IInv, Next, NEW c \in Cases
        PROVE  Fit(c)
    <2> SUFFICES ASSUME case[c] = "ANALYZED", case'[c] = "PLANNED", NEW o \in chosen(c)
                 PROVE  LET s == after(c).pin[o]
                        IN  Served(after(c), s, Reservations(after(c), s),
                                   Reservation(after(c), o))
      OBVIOUS
    <2>1. GraphInv /\ CasesInv /\ graph \in Snapshots
      BY <1>1 DEF IInv, GraphInv
    <2>2. PlanRecovery(c)
      BY <1>1, <2>1, OnlyThePlanPlans
    <2>3. \A p \in chosen(c) : track'[c][p].option = Analysis(graph, entry[c])[p].option
      BY <2>1, <2>2, PlanWrites
    <2>4. chosen(c) \in SUBSET Orders /\ \A p \in chosen(c) : track'[c][p].option # None
      OBVIOUS
    <2> HIDE DEF chosen
    <2>5. after(c) = Applied(graph, entry[c], chosen(c))
      <3>1. [p \in Orders |-> IF p \in chosen(c) THEN track'[c][p].option ELSE graph.pin[p]]
            = [p \in Orders |-> IF p \in chosen(c) THEN Analysis(graph, entry[c])[p].option
                                ELSE graph.pin[p]]
        BY <2>3
      <3> QED BY <3>1 DEF Applied
    <2> HIDE DEF after
    <2> QED BY <2>1, <2>3, <2>4, <2>5, OptionsCanBeHadTogether
  <1>2. IInv /\ [Next]_vars => [\A c \in Cases : Fit(c)]_vars
    BY <1>1
  <1> QED BY Inductive, <1>2, PTL DEF Spec, PlanFits
=============================================================================
