--------------------------- MODULE GraphRecovery ----------------------------
(***************************************************************************)
(* The promise graph at work: cases that share ingredients and promises,   *)
(* from the facts a report leaves (availability.apply_exception_facts) by  *)
(* way of the analysis, the plan and its confirmation to an amended order  *)
(* and the mirror's account of it.  CaseWorkflow has every way a case may  *)
(* go and leaves the world to choose; here the world is computed and the   *)
(* case's life after its plan is three states: EXECUTING stands for        *)
(* WAITING and RECONCILING too.                                            *)
(***************************************************************************)
EXTENDS PromiseGraph

CONSTANTS Cases,
          InitialHand,  \* what the ledger says before anybody reports
          InitialPin,   \* the version each order was taken with
          Quantities,   \* what an order may be of
          Losses,       \* what may be found unusable, or left of a delivery
          MaxChanges    \* bound: changes the operator makes to orders

ASSUME RecoveryAssumption ==
    /\ InitialHand \in [Ingredients -> Nat \cup {Unknown}]
    /\ InitialPin \in [Orders -> Ingredients]
    /\ Quantities \subseteq Nat \ {0}
    /\ Losses \subseteq Nat
    /\ MaxChanges \in Nat

VARIABLES graph,   \* the graph a fresh snapshot would load
          case,    \* cases.state
          entry,   \* the ingredients of the case's bound exception
          track,   \* tracks, and the customer's answer to the request they carry
          steps,   \* unsettled case_steps
          changes  \* changes the operator has made

vars == <<graph, case, entry, track, steps, changes>>

TrackStates == {"PENDING", "UNAFFECTED", "WAITING_FOR_CUSTOMER", "APPLYING", "RECOVERED",
                "ESCALATED", "STALE", "LINKED"}
Terminal == {"UNAFFECTED", "RECOVERED", "ESCALATED", "LINKED"}
Classes  == {"UNAFFECTED", "AUTO_RECOVERABLE", "APPROVAL_REQUIRED", "BLOCKED"}

Step(kind, o) == [kind |-> kind, order |-> o]
StepKinds == {"REQUEST_APPROVAL", "REVALIDATE_RECOVERY", "REPLAN_TRACK", "APPLY_RECOVERY"}
Round     == {"REVALIDATE_RECOVERY", "REPLAN_TRACK"}

\* [mutant] the rule is written where the class belongs.
TrackSwapped(state, v, option, scope, seen) ==
    [state |-> state, class |-> v.rule, rule |-> v.class, option |-> option,
     scope |-> scope, seen |-> seen, answer |-> "NONE"]

\* A track: what the analysis said of it, what the plan chose, the scope it watches and its
\* fingerprint then, and the answer: NONE, YES or a yes that was CHECKED.
Track(state, v, option, scope, seen) ==
    [state |-> state, class |-> v.class, rule |-> v.rule, option |-> option,
     scope |-> scope, seen |-> seen, answer |-> "NONE"]
NoTrack == Track("NONE", Verdict("NONE", "NONE", None), None, {}, None)

Init ==
    /\ graph = [hand     |-> InitialHand,
                posted   |-> [r \in Ingredients |-> 0],
                line     |-> [l \in Lines |-> "EXPECTED"],
                pin      |-> InitialPin,
                quantity |-> [o \in Orders |-> 1],
                version  |-> [o \in Orders |-> 1]]
    /\ case = [c \in Cases |-> "NONE"]
    /\ entry = [c \in Cases |-> {}]
    /\ track = [c \in Cases |-> [o \in Orders |-> NoTrack]]
    /\ steps = [c \in Cases |-> {}]
    /\ changes = 0

-----------------------------------------------------------------------------
(* Facts: availability.apply_exception_facts, as physical.py records them. *)

Plus(q, p) == IF q = Unknown \/ p = Unknown THEN Unknown ELSE q + p

Reported(c, ingredients) ==
    /\ case[c] = "NONE"
    /\ case' = [case EXCEPT ![c] = "INTERPRETING"]
    /\ entry' = [entry EXCEPT ![c] = ingredients]
    /\ UNCHANGED <<track, steps, changes>>

\* Some of what is there cannot be used, or nobody said how much: then all of it.
ReportStock(c, r, lost) ==
    /\ Reported(c, {r})
    /\ graph' = [graph EXCEPT
                   !.hand[r] = IF lost # Unknown THEN Plus(@, -lost)
                               ELSE IF @ = Unknown THEN Unknown ELSE 0,
                   !.posted[r] = @ + 1]

\* Lines of a delivery did not come; its other open lines, the worker attests, did.  A part
\* that came is posted when a single line is named, and a line settles once.
ReportDelivery(c, scope, got) ==
    LET commitment == {l \in Lines : \E k \in scope : Commitment[l] = Commitment[k]}
        open    == {l \in commitment : graph.line[l] = "EXPECTED"}
        short   == got # Unknown /\ Cardinality(scope) = 1
        came    == [l \in open |-> IF l \notin scope THEN Quantity[l] ELSE got]
        posts   == IF short THEN open ELSE open \ scope
        posted(r) == {l \in posts : Brings[l] = r}
        sum(r)  == IF \E l \in posted(r) : came[l] = Unknown THEN Unknown
                   ELSE Total(came, posted(r))
    IN  /\ scope # {}
        /\ \A l, k \in scope : Commitment[l] = Commitment[k]
        /\ Reported(c, {Brings[l] : l \in scope})
        /\ graph' = [graph EXCEPT
                       !.line = [l \in Lines |->
                                   IF l \notin open THEN @[l]
                                   ELSE IF l \notin scope THEN "RECEIVED"
                                   ELSE IF short THEN "SHORT" ELSE "NOT_RECEIVED"],
                       !.hand = [r \in Ingredients |->
                                   IF posted(r) = {} THEN @[r] ELSE Plus(@[r], sum(r))],
                       !.posted = [r \in Ingredients |-> @[r] + Cardinality(posted(r))]]

\* The order system's operator changes an order, and the mirror follows.
ChangeOrder(o, q) ==
    /\ changes < MaxChanges
    /\ q # graph.quantity[o]
    /\ graph' = [graph EXCEPT !.quantity[o] = q, !.version[o] = @ + 1]
    /\ changes' = changes + 1
    /\ UNCHANGED <<case, entry, track, steps>>

-----------------------------------------------------------------------------
(* The analysis and the plan: analysis._analyze and _plan.                 *)

\* _live_tracks_elsewhere, under the locks of the promises it looks at.
LiveElsewhere(c, o) ==
    \E d \in Cases \ {c} : track[d][o].state \notin Terminal \cup {"NONE"}

\* _record_for
Record(v, linked) ==
    Track(IF v.class = "UNAFFECTED" THEN "UNAFFECTED" ELSE IF linked THEN "LINKED"
          ELSE "PENDING", v, None, {}, None)

Analyze(c) ==
    /\ case[c] = "INTERPRETING"
    /\ LET verdict == Analysis(graph, entry[c])
       IN  track' = [track EXCEPT ![c] = [o \in Orders |->
                                            Record(verdict[o], LiveElsewhere(c, o))]]
    /\ case' = [case EXCEPT ![c] = "ANALYZED"]
    /\ UNCHANGED <<graph, entry, steps, changes>>

\* _plan_for: the option the engine chose just now, and what it was chosen against.
Planned(c, o, v) ==
    LET scope == Scope(entry[c], v)
    IN  Track("PENDING", v, v.option, scope, Fingerprint(graph, o, scope))

\* [mutant] the plan is written whatever has changed.
DriftUnnoticed(c, verdict) == FALSE

\* _drift: the world is no longer the one that was analysed.  Every order has its track from the
\* analysis on, so one newly affected is one whose class moved.
Drift(c, verdict) ==
    \E o \in Orders :
        \/ track[c][o].class # verdict[o].class
        \/ track[c][o].rule # verdict[o].rule

\* _write_plan leaves the analysis' words on the track and adds its own.  A plan that is
\* superseded writes nothing: the step is over, and the case stays ANALYZED.
PlanRecovery(c) ==
    /\ case[c] = "ANALYZED"
    /\ LET verdict == Analysis(graph, entry[c])
       IN  /\ ~Drift(c, verdict)
           /\ track' = [track EXCEPT ![c] = [o \in Orders |->
                IF @[o].state # "PENDING" THEN @[o]
                ELSE [Planned(c, o, verdict[o]) EXCEPT !.class = track[c][o].class,
                                                       !.rule = track[c][o].rule]]]
    /\ case' = [case EXCEPT ![c] = "PLANNED"]
    /\ UNCHANGED <<graph, entry, steps, changes>>

-----------------------------------------------------------------------------
(* What one execution commits, and where it leaves the case.               *)

Answered(tr) == {o \in Orders : tr[o].state = "WAITING_FOR_CUSTOMER" /\ tr[o].answer = "YES"}
Someone(tr, states) == \E o \in Orders : tr[o].state \in states

\* settled_case_state: an unchecked yes is looked at once nothing is running, or with the
\* round that is under way.
StartsChecking(c, tr, left) ==
    /\ Answered(tr) # {}
    /\ \/ case[c] = "REVALIDATING"
       \/ case[c] = "EXECUTING" /\ left = {} /\ ~Someone(tr, {"PENDING", "APPLYING"})

\* revalidation_round_exit: the last check or re-plan of a round takes the case on.
RoundExit(c, tr, left) ==
    IF case[c] # "REVALIDATING" \/ \E s \in left : s.kind \in Round THEN case[c]
    ELSE IF Someone(tr, {"PENDING"}) THEN "PLANNED" ELSE "EXECUTING"

Settle(c, tr, left) ==
    IF StartsChecking(c, tr, left)
    THEN /\ case' = [case EXCEPT ![c] = "REVALIDATING"]
         /\ steps' = [steps EXCEPT ![c] =
                        left \cup {Step("REVALIDATE_RECOVERY", o) : o \in Answered(tr)}]
         /\ track' = [track EXCEPT ![c] = [o \in Orders |->
                        IF o \in Answered(tr) THEN [tr[o] EXCEPT !.answer = "CHECKED"]
                        ELSE tr[o]]]
    ELSE /\ case' = [case EXCEPT ![c] = RoundExit(c, tr, left)]
         /\ steps' = [steps EXCEPT ![c] = left]
         /\ track' = [track EXCEPT ![c] = tr]

With(c, o, state) == [track[c] EXCEPT ![o].state = state]

-----------------------------------------------------------------------------
(* From the worker's yes to an amended order.                              *)

\* recovery._confirm over _partition.
Confirm(c) ==
    LET pending == {o \in Orders : track[c][o].state = "PENDING"}
        auto == {o \in pending : /\ track[c][o].class = "AUTO_RECOVERABLE"
                                 /\ track[c][o].option # None}
        approval == {o \in pending : track[c][o].class = "APPROVAL_REQUIRED"}
    IN  /\ case[c] = "PLANNED"
        /\ case' = [case EXCEPT ![c] = "EXECUTING"]
        /\ track' = [track EXCEPT ![c] = [o \in Orders |->
                       IF o \in pending \ (auto \cup approval)
                       THEN [@[o] EXCEPT !.state = "ESCALATED"] ELSE @[o]]]
        /\ steps' = [steps EXCEPT ![c] = @ \cup {Step("APPLY_RECOVERY", o) : o \in auto}
                                           \cup {Step("REQUEST_APPROVAL", o) : o \in approval}]
        /\ UNCHANGED <<graph, entry, changes>>

\* recovery.current_fingerprint against the one planning took.
StillAsPlanned(c, o) ==
    track[c][o].seen = Fingerprint(graph, o, track[c][o].scope)

\* approvals._request and _mark_sent: the customer is asked of a world that still stands,
\* or the promise goes to the owner (recovery.mark_stale).
RequestApproval(c, o) ==
    LET s == Step("REQUEST_APPROVAL", o)
    IN  /\ s \in steps[c]
        /\ Settle(c, With(c, o, IF track[c][o].option # None /\ StillAsPlanned(c, o)
                                THEN "WAITING_FOR_CUSTOMER" ELSE "ESCALATED"),
                  steps[c] \ {s})
        /\ UNCHANGED <<graph, entry, changes>>

CustomerAgrees(c, o) ==
    /\ track[c][o].state = "WAITING_FOR_CUSTOMER"
    /\ track[c][o].answer = "NONE"
    /\ Settle(c, [track[c] EXCEPT ![o].answer = "YES"], steps[c])
    /\ UNCHANGED <<graph, entry, changes>>

\* Or declines, or lets the deadline pass.
CustomerDoesNot(c, o) ==
    /\ track[c][o].state = "WAITING_FOR_CUSTOMER"
    /\ track[c][o].answer = "NONE"
    /\ Settle(c, With(c, o, "ESCALATED"), steps[c])
    /\ UNCHANGED <<graph, entry, changes>>

\* _recovered_claims: the chosen options of every track that recovered, of any case.
RecoveredClaims(c, o, s) ==
    {Claim(t[2], track[t[1]][t[2]].seen.quantity, "recovered") :
        t \in {u \in (Cases \X Orders) \ {<<c, o>>} :
                 /\ track[u[1]][u[2]].state = "RECOVERED"
                 /\ track[u[1]][u[2]].option = s}}

\* Checks two, three and five; the others are CaseWorkflow's.
ChecksPass(c, o) ==
    /\ graph.version[o] = track[c][o].seen.version
    /\ graph.pin[o] = track[c][o].seen.pin
    /\ StillAvailable(graph, o, track[c][o].option,
                      RecoveredClaims(c, o, track[c][o].option))

Revalidate(c, o) ==
    LET s == Step("REVALIDATE_RECOVERY", o)
    IN  /\ s \in steps[c]
        /\ IF ChecksPass(c, o)
           THEN Settle(c, track[c], (steps[c] \ {s}) \cup {Step("APPLY_RECOVERY", o)})
           ELSE Settle(c, With(c, o, "STALE"),
                       (steps[c] \ {s}) \cup {Step("REPLAN_TRACK", o)})
        /\ UNCHANGED <<graph, entry, changes>>

\* analysis._replan: the whole graph is read again, and this promise's answer written.
Replan(c, o) ==
    LET s == Step("REPLAN_TRACK", o)
        v == Analysis(graph, entry[c])[o]
        replanned == IF v.class = "UNAFFECTED" THEN Record(v, FALSE) ELSE Planned(c, o, v)
    IN  /\ s \in steps[c]
        /\ Settle(c, [track[c] EXCEPT ![o] = replanned], steps[c] \ {s})
        /\ UNCHANGED <<graph, entry, changes>>

\* recovery._apply: the plan describes the world, or the owner gets the promise.
ApplyRecovery(c, o) ==
    LET s == Step("APPLY_RECOVERY", o)
    IN  /\ s \in steps[c]
        /\ Settle(c, With(c, o, IF StillAsPlanned(c, o) THEN "APPLYING" ELSE "ESCALATED"),
                  steps[c] \ {s})
        /\ UNCHANGED <<graph, entry, changes>>

\* The order system amends the version the plan saw and the mirror shows it:
\* order_mirror._apply_line re-pins the line and writes its reservations anew.
Mirrored(c, o) ==
    /\ track[c][o].state = "APPLYING"
    /\ graph.version[o] = track[c][o].seen.version
    /\ graph' = [graph EXCEPT !.pin[o] = track[c][o].option, !.version[o] = @ + 1]
    /\ UNCHANGED <<case, entry, track, steps, changes>>

\* recovery._finalize, which mirror_reconciliation lets pass once the mirror has it.
FinalizeRecovery(c, o) ==
    /\ track[c][o].state = "APPLYING"
    /\ graph.version[o] > track[c][o].seen.version
    /\ graph.pin[o] = track[c][o].option
    /\ Settle(c, With(c, o, "RECOVERED"), steps[c])
    /\ UNCHANGED <<graph, entry, changes>>

\* recovery._abandon: the order system would not.
AbandonRecovery(c, o) ==
    /\ track[c][o].state = "APPLYING"
    /\ graph.pin[o] # track[c][o].option
    /\ Settle(c, With(c, o, "ESCALATED"), steps[c])
    /\ UNCHANGED <<graph, entry, changes>>

Next ==
    \/ \E c \in Cases, r \in Ingredients, lost \in Losses \cup {Unknown} :
          ReportStock(c, r, lost)
    \/ \E c \in Cases, scope \in SUBSET Lines, got \in Losses \cup {Unknown} :
          ReportDelivery(c, scope, got)
    \/ \E o \in Orders, q \in Quantities : ChangeOrder(o, q)
    \/ \E c \in Cases : Analyze(c) \/ PlanRecovery(c) \/ Confirm(c)
    \/ \E c \in Cases, o \in Orders :
          \/ RequestApproval(c, o) \/ CustomerAgrees(c, o) \/ CustomerDoesNot(c, o)
          \/ Revalidate(c, o) \/ Replan(c, o)
          \/ ApplyRecovery(c, o) \/ Mirrored(c, o)
          \/ FinalizeRecovery(c, o) \/ AbandonRecovery(c, o)

Spec == Init /\ [][Next]_vars

-----------------------------------------------------------------------------
(* Properties.                                                             *)

TypeOK ==
    /\ graph.hand \in [Ingredients -> Int \cup {Unknown}]
    /\ graph.posted \in [Ingredients -> Nat]
    /\ graph.line \in [Lines -> {"EXPECTED", "RECEIVED", "SHORT", "NOT_RECEIVED"}]
    /\ graph.pin \in [Orders -> Ingredients]
    /\ graph.quantity \in [Orders -> Quantities \cup {1}]
    /\ case \in [Cases -> {"NONE", "INTERPRETING", "ANALYZED", "PLANNED", "EXECUTING",
                           "REVALIDATING"}]
    /\ \A c \in Cases : steps[c] \subseteq [kind : StepKinds, order : Orders]
    /\ \A c \in Cases, o \in Orders :
         LET t == track[c][o]
         IN  \/ t = NoTrack
             \/ /\ t.state \in TrackStates
                /\ t.class \in Classes
                /\ t.option \in Ingredients \cup {None}
                /\ t.scope \subseteq Ingredients
                /\ t.answer \in {"NONE", "YES", "CHECKED"}

\* availability.allocate against a definition that looks at the slots and not at the turn
\* of each claim.  A way to serve the claims is possible when no slot has used more than was
\* there and delivered by then; of those the engine's serves the first claim most, then the
\* next.  So no delivery serves a task that starts before it comes, and no task has what an
\* earlier one lacks.
Possible(g, r, claims, way) ==
    \A c \in claims :
        LET slot == Start[c.order]
            used == Total(way, {d \in claims : Start[d.order] <= slot})
            there == g.hand[r] + Total(Quantity, {l \in OpenLines(g, r) : Due[l] <= slot})
        IN  way[c] <= c.need /\ used <= Max({0, there})

AllocatedByTheSchedule ==
    \A r \in Ingredients :
        LET claims == Reservations(graph, r)
                      \cup {Claim(o, graph.quantity[o], "candidate") :
                              o \in {p \in Orders : graph.pin[p] # r}}
            ways   == [claims -> 0..Max({1} \cup Quantities)]
        IN  Known(graph, r, claims) =>
              LET take == Allocate(graph, r, claims)
              IN  /\ Possible(graph, r, claims, take)
                  /\ \A way \in ways :
                       \/ way = take
                       \/ ~Possible(graph, r, claims, way)
                       \/ \E c \in claims :
                            /\ way[c] < take[c]
                            /\ \A d \in claims : Before(d, c) => way[d] = take[d]

\* What a plan offers can be had together: were every option it chose applied, each of its
\* promises would be served in full, none of them out of what another was counted on.
\* analysis._plan on classification.analyze, which looks at one promise at a time.
PlanFits ==
    [][\A c \in Cases :
         case[c] = "ANALYZED" /\ case'[c] = "PLANNED" =>
           LET chosen == {o \in Orders : /\ track'[c][o].state = "PENDING"
                                         /\ track'[c][o].option # None}
               after  == [graph EXCEPT !.pin = [o \in Orders |->
                            IF o \in chosen THEN track'[c][o].option ELSE @[o]]]
           IN  \A o \in chosen :
                 LET s == after.pin[o]
                 IN  Served(after, s, Reservations(after, s), Reservation(after, o))]_vars

\* A promise the plan calls recoverable, of itself or with a yes, has the option that
\* recovers it, until the confirmation acts on it: recovery._partition sends an automatic
\* track without one to the owner, and says planning never writes one.
RecoverableHasItsOption ==
    \A c \in Cases, o \in Orders :
        /\ case[c] \notin {"NONE", "INTERPRETING", "ANALYZED"}
        /\ track[c][o].state = "PENDING"
        /\ track[c][o].class \in {"AUTO_RECOVERABLE", "APPROVAL_REQUIRED"}
        => track[c][o].option # None

-----------------------------------------------------------------------------
(* The code does not keep this one.                                        *)

\* A yes to an order nobody has touched is refused for want of units only when they are
\* wanting: what a recovered order took is counted once (revalidation._recovered_claims).
RefusedOnlyForWantOfUnits ==
    [][\A c \in Cases, o \in Orders :
         LET t == track[c][o]
             elsewhere == {k \in RecoveredClaims(c, o, t.option) : graph.pin[k.order] # t.option}
         IN  /\ t.state = "WAITING_FOR_CUSTOMER" /\ track'[c][o].state = "STALE"
             /\ graph.version[o] = t.seen.version
             => ~StillAvailable(graph, o, t.option, elsewhere)]_vars
=============================================================================
