---------------------------- MODULE CaseWorkflow ----------------------------
(***************************************************************************)
(* One case from its presented plan to its resolution or its withdrawal:   *)
(* domain/cases.py, recovery.py, approvals.py, customer_intent.py,         *)
(* revalidation.py, withdrawal.py and the re-plan of analysis.py.  A       *)
(* handler runs whole, under the case's lock, and its step is settled with *)
(* everything it wrote: StepLedger shows the engine gives it that, in      *)
(* whatever order the worker reaches the steps.  Messages, amendments,     *)
(* deadlines, customers and the state of the world move between any two.   *)
(***************************************************************************)
EXTENDS Naturals, FiniteSets

CONSTANTS Tracks,       \* the affected promises of the case
          FirstVerdict, \* tracks.classification in the first plan
          Words,        \* the replies each asked customer may send
          MaxAsks,      \* bound: approval requests per track
          MaxReplies,   \* bound: replies that reach the case
          Reaskable,    \* bound: the tracks a re-plan may ask about again
          MaxWithdrawals, \* bound: withdrawals the case accepts
          MaxClaimed,   \* bound: steps of the case claimed when one is made
          NoTrack,      \* the track of a case-level step
          NoWord,       \* the reply of a step that reads none
          Stay          \* settled_case_state's None

CaseStates == {"PLANNED", "EXECUTING", "WAITING", "REVALIDATING", "RECONCILING",
               "RESOLVED", "CANCELLED"}
LiveCaseStates == CaseStates \ {"CANCELLED"}   \* a reply is still worth reading
Verdicts   == {"AUTO", "APPROVAL", "BLOCKED"}
Asks       == 1..MaxAsks

ASSUME WorkflowAssumption ==
    /\ IsFiniteSet(Tracks)
    /\ FirstVerdict \in [Tracks -> Verdicts]
    /\ Words \subseteq {"YES", "NO", "OTHER", "OTHER_AGAIN", "STRANGER"}
    /\ MaxAsks \in Nat \ {0}
    /\ MaxReplies \in Nat
    /\ Reaskable \subseteq Tracks
    /\ MaxWithdrawals \in Nat
    /\ MaxClaimed \in Nat
    /\ NoTrack \notin Tracks
    /\ NoWord \notin Words
    /\ Stay \notin CaseStates

VARIABLES case,       \* cases.state
          attention,  \* cases.needs_owner_attention
          plans,      \* plans presented so far; the id of the current deadline
          planTimer,  \* an unfired PLAN_AUTO_ESCALATION timer exists
          track,      \* tracks.state
          verdict,    \* tracks.classification
          carried,    \* tracks.approval_request_id, by ordinal; 0: none
          request,    \* approval_requests.state per track and ask
          decision,   \* approval_decisions per track and ask
          proceeded,  \* the asks whose revalidation settled with PROCEED
          open,       \* unsettled case_steps
          done,       \* settled case_steps
          failed,     \* those of them that ran out of attempts
          message,    \* the outbox row of each ask's message
          amendment,  \* the outbox row of each track's amendment
          armed,      \* asks with an unfired APPROVAL_DEADLINE timer
          overdue     \* asks whose deadline has passed

plan    == <<plans, planTimer>>
consent == <<carried, request, decision, proceeded>>
ledger  == <<open, done, failed>>
outbox  == <<message, amendment>>
clock   == <<armed, overdue>>
vars    == <<case, attention, plan, track, verdict, consent, ledger, outbox, clock>>

TerminalCases == {"RESOLVED", "CANCELLED"}
Runnable      == {"PENDING", "APPLYING"}
Terminal      == {"UNAFFECTED", "RECOVERED", "ESCALATED", "WITHDRAWN"}
TrackStates   == Runnable \cup Terminal \cup {"WAITING_FOR_CUSTOMER", "STALE"}
OpenApproval  == {"SENT", "CONFIRMATION_PENDING"}
RequestStates == OpenApproval \cup {"NONE", "ANSWERED", "EXPIRED", "SUPERSEDED"}
RecoveryWork  == {"APPLY_RECOVERY", "FINALIZE_RECOVERY", "ABANDON_RECOVERY"}
Round         == {"REVALIDATE_RECOVERY", "REPLAN_TRACK"}
CaseLevel     == {"RECONCILE_CASE", "ESCALATE_PLAN", "WITHDRAW_EXCEPTION"}
PerAsk        == Round \cup {"REQUEST_APPROVAL", "MARK_APPROVAL_SENT", "ABANDON_APPROVAL",
                             "EXPIRE_APPROVAL"}
PerReply      == {"RECEIVE_CUSTOMER_REPLY", "INTERPRET_CUSTOMER_REPLY"}

\* A row of case_steps is its step_key: what it does, to which track, for which ask.
StepKeys == [kind : RecoveryWork \cup CaseLevel \cup PerAsk \cup PerReply,
             track : Tracks \cup {NoTrack}, ask : Nat, word : Words \cup {NoWord}]

AskStep(k, t, n)  == [kind |-> k, track |-> t, ask |-> n, word |-> NoWord]
TrackStep(k, t)   == AskStep(k, t, 0)
CaseStep(k, n)    == AskStep(k, NoTrack, n)
WordStep(k, t, n, w) == [kind |-> k, track |-> t, ask |-> n, word |-> w]

TypeOK ==
    /\ case \in CaseStates
    /\ attention \in BOOLEAN
    /\ plans \in Nat
    /\ planTimer \in BOOLEAN
    /\ track \in [Tracks -> TrackStates]
    /\ verdict \in [Tracks -> Verdicts]
    /\ carried \in [Tracks -> {0} \cup Asks]
    /\ request \in [Tracks -> [Asks -> RequestStates]]
    /\ decision \in [Tracks -> [Asks -> {"NONE", "APPROVE", "DECLINE"}]]
    /\ proceeded \subseteq Tracks \X Asks
    /\ open \subseteq StepKeys
    /\ done \subseteq StepKeys
    /\ failed \subseteq done
    /\ message \in [Tracks -> [Asks -> {"NONE", "QUEUED", "SENT", "DELIVERED",
                                        "FAILED", "UNCERTAIN"}]]
    /\ amendment \in [Tracks -> {"NONE", "QUEUED", "DELIVERED", "FAILED"}]
    /\ armed \subseteq Tracks \X Asks
    /\ overdue \subseteq Tracks \X Asks

\* analysis._plan has just presented the first plan and armed its deadline.
Init ==
    /\ case = "PLANNED"
    /\ attention = FALSE
    /\ plans = 1
    /\ planTimer = TRUE
    /\ track = [t \in Tracks |-> "PENDING"]
    /\ verdict = FirstVerdict
    /\ carried = [t \in Tracks |-> 0]
    /\ request = [t \in Tracks |-> [n \in Asks |-> "NONE"]]
    /\ decision = [t \in Tracks |-> [n \in Asks |-> "NONE"]]
    /\ proceeded = {}
    /\ open = {}
    /\ done = {}
    /\ failed = {}
    /\ message = [t \in Tracks |-> [n \in Asks |-> "NONE"]]
    /\ amendment = [t \in Tracks |-> "NONE"]
    /\ armed = {}
    /\ overdue = {}

-----------------------------------------------------------------------------
(* Where a case stands: domain/cases.py.  What a transition has written to *)
(* tracks and requests is passed in; the ledger is read before the commit. *)

Pending == {t \in Tracks : track[t] = "PENDING"}

HasOpenApproval(req) == \E t \in Tracks : \E n \in Asks : req[t][n] \in OpenApproval

\* has_unchecked_approval: an answer nothing has revalidated yet.
HasUncheckedApproval(tr, req) ==
    \E t \in Tracks :
        /\ tr[t] = "WAITING_FOR_CUSTOMER"
        /\ carried[t] # 0
        /\ req[t][carried[t]] = "ANSWERED"
        /\ AskStep("REVALIDATE_RECOVERY", t, carried[t]) \notin open \cup done

HasWaitingTrack(tr) == \E t \in Tracks : tr[t] = "WAITING_FOR_CUSTOMER"

RecoveryInFlight(tr, except) ==
    \/ \E t \in Tracks : tr[t] = "APPLYING"
    \/ \E s \in open \ except : s.kind \in RecoveryWork

\* [mutant] the ledger is drained, whatever became of the promises.
LedgerIsDrained(tr, except) == open \ except = {}

\* Nothing unfinished but the step that asks, when it says which it is.
Resolvable(tr, except) ==
    /\ \A t \in Tracks : tr[t] \in Terminal
    /\ open \ except = {}

\* [mutant] a track that waits is taken for a customer who can still answer.
SettledExecutingOnTracks(tr, req) ==
    IF \E t \in Tracks : tr[t] \in Runnable THEN Stay
    ELSE IF ~HasWaitingTrack(tr) THEN "RECONCILING"
    ELSE IF HasUncheckedApproval(tr, req) THEN "REVALIDATING" ELSE "WAITING"

SettledExecuting(tr, req) ==
    IF \E t \in Tracks : tr[t] \in Runnable THEN Stay
    ELSE IF ~HasWaitingTrack(tr) THEN "RECONCILING"
    ELSE IF ~HasUncheckedApproval(tr, req) /\ HasOpenApproval(req) THEN "WAITING"
    ELSE "REVALIDATING"

\* [mutant] only a yes ends the wait.
SettledWaitingOnYes(tr, req) ==
    IF HasUncheckedApproval(tr, req) THEN "REVALIDATING" ELSE Stay

SettledWaiting(tr, req) ==
    IF ~HasUncheckedApproval(tr, req) /\ HasOpenApproval(req) THEN Stay ELSE "REVALIDATING"

SettledRevalidating(tr, req) ==
    IF HasUncheckedApproval(tr, req) THEN "REVALIDATING" ELSE Stay

SettledReconciling(tr, req, except) ==
    IF RecoveryInFlight(tr, except) THEN Stay
    ELSE IF HasUncheckedApproval(tr, req) THEN "REVALIDATING"
    ELSE IF HasWaitingTrack(tr) /\ HasOpenApproval(req) THEN "WAITING"
    ELSE IF Resolvable(tr, except) THEN "RESOLVED" ELSE Stay

SettledCaseState(tr, req, except) ==
    IF case = "EXECUTING" THEN SettledExecuting(tr, req)
    ELSE IF case = "WAITING" THEN SettledWaiting(tr, req)
    ELSE IF case = "REVALIDATING" THEN SettledRevalidating(tr, req)
    ELSE IF case = "RECONCILING" THEN SettledReconciling(tr, req, except)
    ELSE Stay

\* [mutant] the round waits for the step that is asking.
RoundExitCountingSelf(s, leavesAPlan) ==
    IF \E r \in open : r.kind \in Round THEN Stay
    ELSE IF leavesAPlan \/ Pending # {} THEN "PLANNED" ELSE "RECONCILING"

\* revalidation_round_exit: the round's last step takes the case on.
RoundExit(s, leavesAPlan) ==
    IF \E r \in open \ {s} : r.kind \in Round THEN Stay
    ELSE IF leavesAPlan \/ Pending # {} THEN "PLANNED" ELSE "RECONCILING"

\* reconcile_step: one reconciliation per entry, numbered by those that settled.
ReconcileStep ==
    CaseStep("RECONCILE_CASE", Cardinality({s \in done : s.kind = "RECONCILE_CASE"}))

\* revalidation.work_for_case: one checklist per carried request that has closed.
WorkForCase ==
    {AskStep("REVALIDATE_RECOVERY", t, carried'[t]) :
        t \in {u \in Tracks : carried'[u] # 0 /\ request'[u][carried'[u]] \notin OpenApproval}}

CaseSuccessors(to) ==
    IF to = "RECONCILING" THEN {ReconcileStep}
    ELSE IF to = "REVALIDATING" THEN WorkForCase ELSE {}

-----------------------------------------------------------------------------
(* What one execution commits: steps.StepOutcome.                          *)

\* Proposed steps whose key exists, settled or not, are declined by the index.
Enqueue(new) == open' = open \cup (new \ done) /\ UNCHANGED <<done, failed>>

\* The step settles and its successors are enqueued.
Settle(s, new) ==
    /\ open' = (open \ {s}) \cup (new \ (done \cup {s}))
    /\ done' = done \cup {s}
    /\ UNCHANGED failed

\* [mutant] a plan presented again has no deadline.
MoveCaseWithoutTimer(s, to, new) ==
    /\ case' = IF to = Stay THEN case ELSE to
    /\ Settle(s, new \cup CaseSuccessors(to))
    /\ UNCHANGED plan

\* The case's own move, with the work and the deadline that go with it.
MoveCase(s, to, new) ==
    /\ case' = IF to = Stay THEN case ELSE to
    /\ Settle(s, new \cup CaseSuccessors(to))
    /\ IF to = "PLANNED" THEN plans' = plans + 1 /\ planTimer' = TRUE
                         ELSE UNCHANGED plan

\* The transition asks where the case stands now that it has finished.
AskWhereTheCaseStands(s, except) ==
    MoveCase(s, SettledCaseState(track', request', except), {})

\* The handler found nothing of its to do.
Skip(s) ==
    /\ Settle(s, {})
    /\ UNCHANGED <<case, attention, plan, track, verdict, consent, outbox, clock>>

\* steps._schedule_retry at the bound: the step fails and the owner is told, no more.
GiveUp(s) ==
    /\ open' = open \ {s}
    /\ done' = done \cup {s}
    /\ failed' = failed \cup {s}
    /\ attention' = TRUE
    /\ UNCHANGED <<case, plan, track, verdict, consent, outbox, clock>>

SetTrack(t, to) == track' = [track EXCEPT ![t] = to]

\* A track leaves for the owner, by a step that may name itself to the case.
Escalate(s, except) ==
    /\ SetTrack(s.track, "ESCALATED")
    /\ attention' = TRUE
    /\ AskWhereTheCaseStands(s, except)

-----------------------------------------------------------------------------
(* The plan: recovery._confirm and _escalate_plan.                         *)

NextAsk(t) == Cardinality({n \in Asks : request[t][n] # "NONE"}) + 1

\* A worker's yes: automatic changes start, customers are asked, the rest is handed over.
Confirm ==
    LET auto     == {t \in Pending : verdict[t] = "AUTO"}
        approval == {t \in Pending : verdict[t] = "APPROVAL"}
        escalate == Pending \ (auto \cup approval)
    IN  /\ case = "PLANNED"
        /\ case' = "EXECUTING"
        /\ attention' = (attention \/ escalate # {})
        /\ track' = [t \in Tracks |-> IF t \in escalate THEN "ESCALATED" ELSE track[t]]
        /\ planTimer' = FALSE
        /\ Enqueue({TrackStep("APPLY_RECOVERY", t) : t \in auto}
                   \cup {AskStep("REQUEST_APPROVAL", t, NextAsk(t)) : t \in approval}
                   \cup (IF auto \cup approval = {} THEN {ReconcileStep} ELSE {}))
        /\ UNCHANGED <<plans, verdict, consent, outbox, clock>>

\* Nobody confirmed in time: every promise of the plan goes to the owner.
EscalatePlan(s) ==
    /\ s.kind = "ESCALATE_PLAN"
    /\ IF case # "PLANNED" \/ Pending = {} THEN Skip(s)
       ELSE /\ track' = [t \in Tracks |-> IF t \in Pending THEN "ESCALATED" ELSE track[t]]
            /\ attention' = TRUE
            /\ MoveCase(s, "RECONCILING", {})
            /\ UNCHANGED <<verdict, consent, outbox, clock>>

-----------------------------------------------------------------------------
(* Standing the case down: withdrawal._withdraw.                           *)

Withdrawals == Cardinality({s \in done : s.kind = "WITHDRAW_EXCEPTION"})

\* _applied_effects: delivered, or in the hands of a dispatcher that was seen to hold it.
Applied(seen) ==
    LET reached == {"SENT", "DELIVERED"} \cup (IF seen THEN {"QUEUED"} ELSE {})
    IN  \E t \in Tracks : \/ amendment[t] \in reached
                         \/ \E n \in Asks : message[t][n] \in reached

\* _open_requests: a decided one is left exactly alone.
Undecided(t, n) == request[t][n] \in OpenApproval

\* The claims there may be: StepLedger lets each process hold one step of a case.
ClaimedSteps == {claimed \in SUBSET open : Cardinality(claimed) <= MaxClaimed}

\* An effect no dispatcher has begun to claim refuses the whole transaction (_refuse_unsent
\* writes a column the table lacks), so each queued one is in a dispatcher's hands: its
\* claim was read, or came after _applied_effects looked and before _unsent_effects did.
\* A promise the owner was given may have kitchen work on hold (_held_tasks).
Consequential(consequential) ==
    IF consequential THEN Applied(TRUE) \/ \E t \in Tracks : track[t] = "ESCALATED"
                     ELSE ~Applied(FALSE)

\* A worker takes the exception back; claimed are the steps a process holds meanwhile.
Withdraw(consequential, claimed) ==
    /\ case \notin TerminalCases
    /\ Withdrawals < MaxWithdrawals
    /\ Consequential(consequential)
    /\ LET step == CaseStep("WITHDRAW_EXCEPTION", Withdrawals)
           closing == CaseStep("RECONCILE_CASE",
                          Cardinality({s \in done \cup (open \ claimed) :
                                           s.kind = "RECONCILE_CASE"}))
       IN  /\ case' = IF consequential THEN "RECONCILING" ELSE "CANCELLED"
           /\ attention' = (attention \/ consequential)
           /\ track' = [t \in Tracks |->
                          IF track[t] \in Terminal THEN track[t]
                          ELSE IF consequential THEN "ESCALATED" ELSE "WITHDRAWN"]
           /\ request' = [t \in Tracks |-> [n \in Asks |->
                            IF Undecided(t, n) THEN "SUPERSEDED" ELSE request[t][n]]]
           /\ carried' = [t \in Tracks |->
                            IF carried[t] # 0 /\ Undecided(t, carried[t]) THEN 0
                            ELSE carried[t]]
           /\ done' = done \cup (open \ claimed) \cup {step}
           /\ open' = claimed \cup (IF consequential THEN {closing} ELSE {})
    /\ planTimer' = FALSE
    /\ UNCHANGED <<plans, verdict, decision, proceeded, failed, outbox, clock>>

-----------------------------------------------------------------------------
(* Asking: approvals._request, _mark_sent, _abandon and _expire.           *)

RequestApproval(s) ==
    LET t == s.track
        n == s.ask
    IN  /\ s.kind = "REQUEST_APPROVAL"
        /\ IF case # "EXECUTING" \/ track[t] # "PENDING" \/ carried[t] # 0
              \/ verdict[t] # "APPROVAL"
           THEN Skip(s)
           ELSE \/ \* stale, past its window, or without an option: nobody is asked
                   /\ UNCHANGED <<verdict, consent, outbox, clock>>
                   /\ Escalate(s, {})
                \/ /\ request' = [request EXCEPT ![t][n] = "SENT"]
                   /\ carried' = [carried EXCEPT ![t] = n]
                   /\ message' = [message EXCEPT ![t][n] = "QUEUED"]
                   /\ Settle(s, {})
                   /\ UNCHANGED <<case, attention, plan, track, verdict, decision,
                                  proceeded, amendment, clock>>

\* _close_request: no answer can come any more; a decided request keeps its state.
CloseRequest(s, t, n) ==
    /\ request' = IF decision[t][n] = "NONE" THEN [request EXCEPT ![t][n] = "EXPIRED"]
                                             ELSE request
    /\ UNCHANGED <<carried, decision, proceeded, verdict, outbox, clock>>
    /\ Escalate(s, {})

\* The provider has the message: the track waits, and its deadline is armed.
MarkApprovalSent(s) ==
    LET t == s.track
        n == s.ask
    IN  /\ s.kind = "MARK_APPROVAL_SENT"
        /\ IF case # "EXECUTING" \/ track[t] # "PENDING" \/ carried[t] # n
              \/ request[t][n] \notin OpenApproval
           THEN Skip(s)
           ELSE IF <<t, n>> \in overdue THEN CloseRequest(s, t, n)
           ELSE /\ SetTrack(t, "WAITING_FOR_CUSTOMER")
                /\ armed' = armed \cup {<<t, n>>}
                /\ UNCHANGED <<attention, verdict, consent, outbox, overdue>>
                /\ AskWhereTheCaseStands(s, {s})

AbandonApproval(s) ==
    /\ s.kind = "ABANDON_APPROVAL"
    /\ IF track[s.track] # "PENDING" \/ carried[s.track] # s.ask THEN Skip(s)
       ELSE CloseRequest(s, s.track, s.ask)

\* [mutant] the deadline acts on whatever it finds.
ExpireWhatever(s) == s.kind = "EXPIRE_APPROVAL" /\ CloseRequest(s, s.track, s.ask)

ExpireApproval(s) ==
    /\ s.kind = "EXPIRE_APPROVAL"
    /\ IF request[s.track][s.ask] \notin OpenApproval THEN Skip(s)
       ELSE CloseRequest(s, s.track, s.ask)

-----------------------------------------------------------------------------
(* Reading replies: approvals._reply and customer_intent.execute.          *)

\* A reply that decides nothing is stored, and may ask for interpretation.
RecordReply(s, fromStranger, new) ==
    /\ Settle(s, new)
    /\ attention' = (attention \/ fromStranger)
    /\ UNCHANGED <<case, plan, track, verdict, consent, outbox, clock>>

\* [mutant] whatever is not a refusal is taken for assent.
ReadAsAssent(word) == IF word = "NO" THEN "DECLINE" ELSE "APPROVE"

\* consent.read_literal: the two words, and nothing else, decide.
Reading(word) ==
    IF word = "YES" THEN "APPROVE" ELSE IF word = "NO" THEN "DECLINE" ELSE "NONE"

\* _record_decision: a literal answer; only a yes leaves the track waiting.
RecordDecision(s, t, n) ==
    /\ decision' = [decision EXCEPT ![t][n] = Reading(s.word)]
    /\ request' = [request EXCEPT ![t][n] = "ANSWERED"]
    /\ IF Reading(s.word) = "APPROVE" THEN UNCHANGED <<track, attention>>
                                      ELSE SetTrack(t, "ESCALATED") /\ attention' = TRUE
    /\ UNCHANGED <<carried, proceeded, verdict, outbox, clock>>
    /\ AskWhereTheCaseStands(s, {s})

\* [mutant] the track is handed over and its request left open.
EscalateLeavingOpen(s, t, n) ==
    /\ UNCHANGED <<consent, verdict, outbox, clock>>
    /\ Escalate(s, {s})

\* _escalate_unconfirmed: a second reply that is not one of the two words.
EscalateUnconfirmed(s, t, n) ==
    /\ request' = [request EXCEPT ![t][n] = "EXPIRED"]
    /\ UNCHANGED <<carried, decision, proceeded, verdict, outbox, clock>>
    /\ Escalate(s, {s})

ReceiveReply(s) ==
    LET t == s.track
        n == s.ask
    IN  /\ s.kind = "RECEIVE_CUSTOMER_REPLY"
        /\ IF case \notin LiveCaseStates THEN Skip(s)
           ELSE IF s.word = "STRANGER" THEN RecordReply(s, TRUE, {})
           ELSE IF request[t][n] \notin OpenApproval \/ <<t, n>> \in overdue
                THEN RecordReply(s, FALSE, {})
           ELSE IF Reading(s.word) # "NONE" THEN RecordDecision(s, t, n)
           ELSE IF request[t][n] = "CONFIRMATION_PENDING" THEN EscalateUnconfirmed(s, t, n)
           ELSE RecordReply(s, FALSE, {WordStep("INTERPRET_CUSTOMER_REPLY", t, n, s.word)})

\* However the words were read, the customer is asked once for the literal ones.
InterpretReply(s) ==
    /\ s.kind = "INTERPRET_CUSTOMER_REPLY"
    /\ IF \/ case \notin LiveCaseStates
          \/ request[s.track][s.ask] # "SENT"
          \/ <<s.track, s.ask>> \in overdue
       THEN Skip(s)
       ELSE /\ request' = [request EXCEPT ![s.track][s.ask] = "CONFIRMATION_PENDING"]
            /\ UNCHANGED <<attention, track, carried, decision, proceeded, verdict, outbox,
                           clock>>
            /\ AskWhereTheCaseStands(s, {s})

-----------------------------------------------------------------------------
(* The revalidation round: revalidation._revalidate and analysis._replan.  *)

\* The ten checks passed: the change is authorised and the round may end.
Proceed(s) ==
    /\ proceeded' = proceeded \cup {<<s.track, s.ask>>}
    /\ UNCHANGED <<attention, track, carried, request, decision, verdict, outbox, clock>>
    /\ MoveCase(s, RoundExit(s, FALSE), {TrackStep("APPLY_RECOVERY", s.track)})

\* The world moved under the yes: the track is planned again, in the same round.
GoStale(s) ==
    /\ SetTrack(s.track, "STALE")
    /\ Settle(s, {AskStep("REPLAN_TRACK", s.track, s.ask)})
    /\ UNCHANGED <<case, attention, plan, verdict, consent, outbox, clock>>

\* [mutant] the track takes the word its request would have.
RevalidationExpiredAsRequest(s) ==
    /\ SetTrack(s.track, "EXPIRED")
    /\ attention' = TRUE
    /\ UNCHANGED <<verdict, consent, outbox, clock>>
    /\ MoveCase(s, RoundExit(s, FALSE), {})

\* [mutant] the owner gets the promise and no word of it.
RevalidationExpiredUnseen(s) ==
    /\ SetTrack(s.track, "ESCALATED")
    /\ UNCHANGED <<attention, verdict, consent, outbox, clock>>
    /\ MoveCase(s, RoundExit(s, FALSE), {})

RevalidationExpired(s) ==
    /\ SetTrack(s.track, "ESCALATED")
    /\ attention' = TRUE
    /\ UNCHANGED <<verdict, consent, outbox, clock>>
    /\ MoveCase(s, RoundExit(s, FALSE), {})

NoAuthorityToConsume(s) ==
    /\ UNCHANGED <<attention, track, verdict, consent, outbox, clock>>
    /\ MoveCase(s, RoundExit(s, FALSE), {})

Revalidate(s) ==
    LET t == s.track
        n == s.ask
    IN  /\ s.kind = "REVALIDATE_RECOVERY"
        /\ IF case # "REVALIDATING" \/ carried[t] # n THEN Skip(s)
           ELSE IF decision[t][n] # "APPROVE" THEN NoAuthorityToConsume(s)
           ELSE IF track[t] # "WAITING_FOR_CUSTOMER" THEN Skip(s)
           ELSE \/ GoStale(s)
                \/ <<t, n>> \in overdue /\ RevalidationExpired(s)
                \/ <<t, n>> \notin overdue /\ (Proceed(s) \/ GiveUp(s))

\* The verdicts a re-plan may reach; another ask only within the bounds.
Replanned(t) ==
    {v \in Verdicts : v = "APPROVAL" => t \in Reaskable /\ NextAsk(t) \in Asks}

\* [mutant] the track the step names is planned again, whatever became of it.
ReplanWhateverHappened(s) ==
    /\ s.kind = "REPLAN_TRACK"
    /\ \E v \in Replanned(s.track) :
         /\ track' = [track EXCEPT ![s.track] = "PENDING"]
         /\ verdict' = [verdict EXCEPT ![s.track] = v]
         /\ UNCHANGED <<attention, consent, outbox, clock>>
         /\ MoveCase(s, RoundExit(s, TRUE), {})

Replan(s) ==
    LET t == s.track
        n == s.ask
    IN  /\ s.kind = "REPLAN_TRACK"
        /\ IF case # "REVALIDATING" \/ track[t] # "STALE" \/ carried[t] # n THEN Skip(s)
           ELSE \E affected \in BOOLEAN, v \in Replanned(t) :
                /\ track' = [track EXCEPT ![t] = IF affected THEN "PENDING" ELSE "UNAFFECTED"]
                /\ verdict' = [verdict EXCEPT ![t] = IF affected THEN v ELSE @]
                /\ request' = [request EXCEPT ![t][n] = "SUPERSEDED"]
                /\ carried' = [carried EXCEPT ![t] = 0]
                /\ UNCHANGED <<attention, decision, proceeded, outbox, clock>>
                /\ MoveCase(s, RoundExit(s, affected), {})

-----------------------------------------------------------------------------
(* Making the change: recovery._apply, _finalize, _abandon; _reconcile.    *)

Applicable == {"EXECUTING", "REVALIDATING", "RECONCILING", "PLANNED"}

\* authorization_for: the rules alone, or this track's own checked yes.
Authorised(t) ==
    \/ track[t] = "PENDING" /\ verdict[t] = "AUTO"
    \/ /\ track[t] = "WAITING_FOR_CUSTOMER"
       /\ verdict[t] = "APPROVAL"
       /\ carried[t] # 0
       /\ request[t][carried[t]] = "ANSWERED"
       /\ decision[t][carried[t]] = "APPROVE"
       /\ <<t, carried[t]>> \in proceeded

ApplyRecovery(s) ==
    /\ s.kind = "APPLY_RECOVERY"
    /\ IF case \notin Applicable \/ ~Authorised(s.track) THEN Skip(s)
       ELSE \/ \* the fingerprint moved, or the kitchen has started
               /\ UNCHANGED <<verdict, consent, outbox, clock>>
               /\ Escalate(s, {s})
            \/ /\ SetTrack(s.track, "APPLYING")
               /\ amendment' = [amendment EXCEPT ![s.track] = "QUEUED"]
               /\ Settle(s, {})
               /\ UNCHANGED <<case, attention, plan, verdict, consent, message, clock>>

\* The order system's own account arrives, or is given up on.
FinalizeRecovery(s) ==
    /\ s.kind = "FINALIZE_RECOVERY"
    /\ IF case \notin Applicable \/ track[s.track] # "APPLYING" THEN Skip(s)
       ELSE /\ UNCHANGED <<verdict, consent, outbox, clock>>
            /\ \/ /\ SetTrack(s.track, "RECOVERED")
                  /\ UNCHANGED attention
                  /\ AskWhereTheCaseStands(s, {s})
               \/ Escalate(s, {s})

AbandonRecovery(s) ==
    /\ s.kind = "ABANDON_RECOVERY"
    /\ IF track[s.track] # "APPLYING" THEN Skip(s)
       ELSE /\ UNCHANGED <<verdict, consent, outbox, clock>>
            /\ Escalate(s, {s})

ReconcileCase(s) ==
    /\ s.kind = "RECONCILE_CASE"
    /\ IF case # "RECONCILING" \/ SettledCaseState(track, request, {s}) = Stay THEN Skip(s)
       ELSE /\ attention' = (attention \/ \E t \in Tracks : track[t] = "ESCALATED")
            /\ UNCHANGED <<track, verdict, consent, outbox, clock>>
            /\ AskWhereTheCaseStands(s, {s})

\* The engine executes one of the case's steps, whichever it reaches.
Execute(s) ==
    /\ s \in open
    /\ \/ EscalatePlan(s)
       \/ RequestApproval(s)
       \/ MarkApprovalSent(s)
       \/ AbandonApproval(s)
       \/ ExpireApproval(s)
       \/ ReceiveReply(s)
       \/ InterpretReply(s)
       \/ Revalidate(s)
       \/ Replan(s)
       \/ ApplyRecovery(s)
       \/ FinalizeRecovery(s)
       \/ AbandonRecovery(s)
       \/ ReconcileCase(s)

-----------------------------------------------------------------------------
(* The outbox, the clock and the customers.                                *)

promises == <<case, track, verdict, consent>>
workflow == <<promises, attention>>

MessageIs(t, n, state) == message' = [message EXCEPT ![t][n] = state]

\* approvals.refuse_if_window_closed: the message is still worth sending.
WindowOpen(t, n) == request[t][n] \in OpenApproval /\ <<t, n>> \notin overdue

\* The provider takes the message, and the worker has yet to write that down.
SendMessage(t, n) ==
    /\ message[t][n] = "QUEUED"
    /\ WindowOpen(t, n)
    /\ MessageIs(t, n, "SENT")
    /\ UNCHANGED <<workflow, plan, ledger, amendment, clock>>

\* outbox._record_delivered enqueues the stored continuation.
RecordSent(t, n) ==
    /\ message[t][n] = "SENT"
    /\ MessageIs(t, n, "DELIVERED")
    /\ Enqueue({AskStep("MARK_APPROVAL_SENT", t, n)})
    /\ UNCHANGED <<workflow, plan, amendment, clock>>

\* outbox._record_terminal: refused, given up on, or no longer worth sending.
FailMessage(t, n) ==
    /\ \/ message[t][n] = "QUEUED" /\ MessageIs(t, n, "FAILED")
       \/ message[t][n] = "SENT" /\ MessageIs(t, n, "UNCERTAIN")
    /\ attention' = TRUE
    /\ Enqueue({AskStep("ABANDON_APPROVAL", t, n)})
    /\ UNCHANGED <<promises, plan, amendment, clock>>

SettleAmendment(t) ==
    /\ amendment[t] = "QUEUED"
    /\ \/ /\ amendment' = [amendment EXCEPT ![t] = "DELIVERED"]
          /\ Enqueue({TrackStep("FINALIZE_RECOVERY", t)})
          /\ UNCHANGED attention
       \/ /\ amendment' = [amendment EXCEPT ![t] = "FAILED"]
          /\ Enqueue({TrackStep("ABANDON_RECOVERY", t)})
          /\ attention' = TRUE
    /\ UNCHANGED <<promises, plan, message, clock>>

DeadlinePasses(t, n) ==
    /\ request[t][n] # "NONE"
    /\ <<t, n>> \notin overdue
    /\ overdue' = overdue \cup {<<t, n>>}
    /\ UNCHANGED <<workflow, plan, ledger, outbox, armed>>

\* timers.fire_due_timer, for a request and for a plan.
FireApprovalDeadline(t, n) ==
    /\ <<t, n>> \in armed \cap overdue
    /\ armed' = armed \ {<<t, n>>}
    /\ Enqueue({AskStep("EXPIRE_APPROVAL", t, n)})
    /\ UNCHANGED <<workflow, plan, outbox, overdue>>

FirePlanDeadline ==
    /\ planTimer
    /\ planTimer' = FALSE
    /\ Enqueue({CaseStep("ESCALATE_PLAN", plans)})
    /\ UNCHANGED <<workflow, plans, outbox, clock>>

\* A customer who was reached answers, once per word at most.
CustomerReplies(t, n, w) ==
    LET reply == WordStep("RECEIVE_CUSTOMER_REPLY", t, n, w)
    IN  /\ message[t][n] \in {"SENT", "DELIVERED", "UNCERTAIN"}
        /\ reply \notin open \cup done
        /\ Cardinality({s \in open \cup done : s.kind = reply.kind}) < MaxReplies
        /\ Enqueue({reply})
        /\ UNCHANGED <<workflow, plan, outbox, clock>>

Next ==
    \/ Confirm
    \/ FirePlanDeadline
    \/ \E consequential \in BOOLEAN, claimed \in ClaimedSteps :
         Withdraw(consequential, claimed)
    \/ \E s \in open : Execute(s)
    \/ \E t \in Tracks : SettleAmendment(t)
    \/ \E t \in Tracks, n \in Asks :
         \/ SendMessage(t, n)
         \/ RecordSent(t, n)
         \/ FailMessage(t, n)
         \/ DeadlinePasses(t, n)
         \/ FireApprovalDeadline(t, n)
         \/ \E w \in Words : CustomerReplies(t, n, w)

Spec == Init /\ [][Next]_vars

\* StepLedger settles every step, the dispatcher settles every effect, and time passes;
\* nobody need ever confirm a plan or answer a message.
Fairness ==
    /\ WF_vars(\E s \in open : Execute(s))
    /\ WF_vars(\E t \in Tracks : SettleAmendment(t))
    /\ WF_vars(\E t \in Tracks, n \in Asks : SendMessage(t, n) \/ RecordSent(t, n)
                                             \/ FailMessage(t, n))
    /\ WF_vars(\E t \in Tracks, n \in Asks : DeadlinePasses(t, n))
    /\ WF_vars(FirePlanDeadline \/ \E t \in Tracks, n \in Asks : FireApprovalDeadline(t, n))

FairSpec == Spec /\ Fairness

-----------------------------------------------------------------------------
(* Safety.                                                                 *)

\* No order is amended on anything but the rules alone or the carried request's own
\* literal yes, revalidated (recovery.authorization_for): not on words a model read,
\* not on an earlier ask's answer, however late the reply, the re-plan or the step.
AmendedWithConsent ==
    \A t \in Tracks :
        track[t] \in {"APPLYING", "RECOVERED"} =>
            \/ verdict[t] = "AUTO"
            \/ /\ <<t, carried[t]>> \in proceeded
               /\ WordStep("RECEIVE_CUSTOMER_REPLY", t, carried[t], "YES") \in done

\* An answerable request is the one its unfinished track carries, so an answer, an
\* expiry or a dead letter never reaches a promise that has moved on
\* (approvals._record_decision and _close_request write the track unasked).
OpenRequestIsCarried ==
    \A t \in Tracks, n \in Asks :
        request[t][n] \in OpenApproval =>
            carried[t] = n /\ track[t] \in {"PENDING", "WAITING_FOR_CUSTOMER"}

\* A case that waits has a customer who can still answer and a deadline, armed or
\* fired, that ends the wait without one (cases.settled_case_state, ADR-0025).
WaitingOnSomebody ==
    case = "WAITING" =>
        \E t \in Tracks, n \in Asks :
            /\ request[t][n] \in OpenApproval
            /\ <<t, n>> \in armed \/ AskStep("EXPIRE_APPROVAL", t, n) \in open

\* A resolved case has settled every promise, has no amendment on its way but of a promise
\* a withdrawal gave to its owner, and owes only steps that late messages, amendments and
\* deadlines brought (cases.resolvable).
ResolvedIsFinished ==
    case = "RESOLVED" =>
        /\ \A t \in Tracks :
             /\ track[t] \in Terminal
             /\ amendment[t] = "QUEUED" => Withdrawals > 0 /\ track[t] = "ESCALATED"
        /\ \A s \in open : \/ s.kind \in {"RECEIVE_CUSTOMER_REPLY", "EXPIRE_APPROVAL",
                                           "MARK_APPROVAL_SENT", "ABANDON_APPROVAL",
                                           "ESCALATE_PLAN"}
                           \/ /\ Withdrawals > 0
                              /\ s.kind \in {"FINALIZE_RECOVERY", "ABANDON_RECOVERY"}

\* Whichever of the dozen ways a promise reaches the owner, or a message or an amendment
\* fails, needs_owner_attention says so, and nothing takes it back.
OwnerIsTold ==
    (\E t \in Tracks :
        \/ track[t] = "ESCALATED"
        \/ amendment[t] = "FAILED"
        \/ \E n \in Asks : message[t][n] \in {"FAILED", "UNCERTAIN"}) => attention

\* A settled promise stays settled and a finished case finished, whatever arrives late:
\* no reply, deadline, delivery report or sibling's round moves them again.
SettledStays ==
    [][/\ \A t \in Tracks : track[t] \in Terminal => track'[t] = track[t]
       /\ case \in TerminalCases => case' = case]_vars

\* "It stops future work" (withdrawal.py:3), of a case that has its plan: nothing a withdrawal
\* left behind - a step already claimed, a reply, a delivery report, a deadline - plans, asks
\* or changes again.  (Before the plan a claimed RESOLVE_OBSERVATION may: Intake.)
WithdrawnStaysStopped ==
    Withdrawals > 0 =>
        /\ case \in TerminalCases \cup {"RECONCILING"}
        /\ ~planTimer
        /\ \A t \in Tracks :
             /\ track[t] \in Terminal
             /\ \A n \in Asks : request[t][n] \notin OpenApproval

(* Liveness, under FairSpec.                                               *)

\* No wait is without limit: a plan nobody confirms, a customer nobody hears from and a
\* round of checks all end, whatever the worker, the provider and the customer do.
PlannedEnds == case = "PLANNED" ~> case # "PLANNED"

\* The same of a case waiting on its customers (timers.fire_due_timer).
WaitingEnds == case = "WAITING" ~> case # "WAITING"

\* The same of a revalidation round (cases.revalidation_round_exit, ADR-0023), unless a
\* check of it was given up on: that leaves the case with its owner, and in the round.
RoundEnds == case = "REVALIDATING" ~> case # "REVALIDATING" \/ failed # {}

\* recovery.py:651, a case must not "sit in EXECUTING for ever with an empty ledger".
ExecutingEnds == case = "EXECUTING" ~> case # "EXECUTING"

\* approvals.py:457, an answer read in any live state is "recorded exactly as it would be
\* in WAITING, and the case's own rule decides when it is checked": a yes is checked, or
\* its promise is settled some other way.
EveryYesIsChecked ==
    \A t \in Tracks, n \in Asks :
        decision[t][n] = "APPROVE" ~>
            track[t] \in Terminal \/ AskStep("REVALIDATE_RECOVERY", t, n) \in done
=============================================================================
