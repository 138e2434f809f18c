------------------------------ MODULE OrderSync ------------------------------
(***************************************************************************)
(* An order that somebody else owns, the mirror PromisePatch keeps of it   *)
(* and the amendments it sends back: the order system (order_simulator's   *)
(* store.py, webhooks.py), domain/order_mirror.py and, of recovery.py, what *)
(* waits for the mirror.  Events are posted by one sender, may be lost,    *)
(* repeated and overtaken, are stored on arrival and applied by workers    *)
(* that hold no claim on them; an amendment may be applied and its answer  *)
(* lost.  One line per order.  What an outbox row goes through is Outbox.  *)
(***************************************************************************)
EXTENDS Naturals, Sequences

CONSTANTS Orders,
          Workers,
          Items,       \* the order system's catalogue
          Mapped,      \* the items order_line_mappings translates
          Opening,     \* what every order carries at version 1
          Amendments,  \* idempotency keys: a track's option on an order's version
          MaxChanges,  \* bound: changes the order system makes
          MaxAttempts, \* retry.MAX_ATTEMPTS
          MaxFaults,   \* bound: posts, answers and processes lost
          Nothing      \* no amendment, no snapshot

ASSUME OrderSyncAssumption ==
    /\ Mapped \subseteq Items
    /\ Opening \in Mapped
    /\ MaxChanges \in Nat
    /\ MaxAttempts \in Nat \ {0}
    /\ MaxFaults \in Nat
    /\ Nothing \notin Amendments

VARIABLES
    \* the order system
    book,     \* its orders and their lines: the version, and the line's item
    commands, \* idempotent_commands: the version a key was applied at; 0 if it has no such key
    events,   \* order_events, by seq: the order, its new version and item, the command
    delivery, \* webhook_deliveries.state, by seq
    later,    \* events whose next_attempt_at is still ahead
    sending,  \* the event the sender has claimed, and what it heard; 0 for none
    \* between them
    posts,    \* webhooks on the wire
    calls,    \* amendments on the wire, by attempt
    \* PromisePatch
    inbox,    \* inbox_events in order of arrival
    record,   \* inbox_events.state, by seq
    mirror,   \* the mirrored order: external_version, and the line's item
    worker,   \* where each worker is with which record
    verdicts, \* the order_mirror audit rows of a record: "APPLIED", "STALE", "REJECTED"
    plan,     \* what an amendment asks for, and of which version
    effect,   \* its outbox row: state, attempts, and the version in its result
    track,    \* the track it belongs to, and how often finalize found the mirror behind
    faults    \* what was lost so far

ledger  == <<book, commands, events>>
system  == <<ledger, delivery, later, sending>>
network == <<posts, calls>>
mirrors == <<inbox, record, mirror, worker, verdicts>>
saga    == <<plan, effect, track>>
vars    == <<system, network, mirrors, saga, faults>>

Seqs == 1..MaxChanges
Views == [version : 1 .. MaxChanges + 1, item : Items]
Stages == {"IDLE", "TAKEN", "GAP", "FETCHED", "REJECTING", "STOPPED"}

TypeOK ==
    /\ book \in [Orders -> Views]
    /\ commands \in [Amendments -> 0 .. MaxChanges + 1]
    /\ events \in Seq([order : Orders, version : 2 .. MaxChanges + 1, item : Items,
                       command : Amendments \cup {Nothing}])
    /\ Len(events) <= MaxChanges
    /\ delivery \in [Seqs -> {"NONE", "PENDING", "IN_FLIGHT", "DELIVERED"}]
    /\ later \subseteq Seqs
    /\ sending \in [event : 0..MaxChanges, heard : {"NOTHING", "ACCEPTED", "FAILURE"}]
    /\ posts \subseteq Seqs
    /\ calls \subseteq Amendments \X (1..MaxAttempts)
    /\ inbox \in Seq(Seqs)
    /\ record \in [Seqs -> {"NONE", "RECEIVED", "PROCESSED", "IGNORED", "FAILED"}]
    /\ mirror \in [Orders -> Views]
    /\ worker \in [Workers -> [stage : Stages, event : 0..MaxChanges,
                               fetched : Views \cup {Nothing}]]
    /\ verdicts \in [Seqs -> SUBSET {"APPLIED", "STALE", "REJECTED"}]
    /\ plan \in [Amendments -> [order : Orders, from : Items, to : Items,
                                version : 1 .. MaxChanges + 1] \cup {Nothing}]
    /\ effect \in [Amendments -> [state : {"ABSENT", "PENDING", "IN_FLIGHT", "DELIVERED", "REFUSED", "FAILED"},
                                  attempts : 0..MaxAttempts, version : 0 .. MaxChanges + 1]]
    /\ track \in [Amendments -> [state : {"PLANNED", "APPLYING", "RECOVERED", "ESCALATED"},
                                 waits : 0..MaxAttempts]]
    /\ faults \in 0..MaxFaults

Idle == [stage |-> "IDLE", event |-> 0, fetched |-> Nothing]
NotSending == [event |-> 0, heard |-> "NOTHING"]

Init ==
    /\ book = [o \in Orders |-> [version |-> 1, item |-> Opening]]
    /\ commands = [k \in Amendments |-> 0]
    /\ events = <<>>
    /\ delivery = [n \in Seqs |-> "NONE"]
    /\ later = {}
    /\ sending = NotSending
    /\ posts = {}
    /\ calls = {}
    /\ inbox = <<>>
    /\ record = [n \in Seqs |-> "NONE"]
    /\ mirror = [o \in Orders |-> [version |-> 1, item |-> Opening]]
    /\ worker = [w \in Workers |-> Idle]
    /\ verdicts = [n \in Seqs |-> {}]
    /\ plan = [k \in Amendments |-> Nothing]
    /\ effect = [k \in Amendments |-> [state |-> "ABSENT", attempts |-> 0, version |-> 0]]
    /\ track = [k \in Amendments |-> [state |-> "PLANNED", waits |-> 0]]
    /\ faults = 0

Fault == faults < MaxFaults /\ faults' = faults + 1

-----------------------------------------------------------------------------
(* The order system's book: _apply, amend, operator_change.                *)

\* What an order has been, version by version, by the events it recorded of itself.
Carried(o, v) ==
    IF v = 1
      THEN Opening
      ELSE events[CHOOSE n \in DOMAIN events : events[n].order = o /\ events[n].version = v].item

History(o) == [v \in 1 .. book[o].version |-> Carried(o, v)]

\* _snapshot: what the rows of the order say.
Current(o) == book[o]

\* _apply, past its refusals: the line moves, the version moves, the event is recorded and
\* its delivery queued, in one transaction.
Change(o, i, k) ==
    /\ Len(events) < MaxChanges
    /\ book' = [book EXCEPT ![o] = [version |-> @.version + 1, item |-> i]]
    /\ events' = Append(events, [order |-> o, version |-> Current(o).version + 1,
                                 item |-> i, command |-> k])
    /\ delivery' = [delivery EXCEPT ![Len(events) + 1] = "PENDING"]

\* An operator re-points a line or changes its quantity: no expected version.
OperatorChange(o, i) ==
    /\ Change(o, i, Nothing)
    /\ UNCHANGED <<commands, later, sending, network, mirrors, saga, faults>>

-----------------------------------------------------------------------------
(* The sender: deliver_one, one call at a time; it never gives up.         *)

Due(n) == delivery[n] \in {"PENDING", "IN_FLIGHT"} /\ n \notin later

\* claim_delivery: the oldest due, for a lease; committed before anything is posted.
ClaimDelivery ==
    /\ sending = NotSending
    /\ \E n \in Seqs :
         /\ Due(n)
         /\ \A m \in 1 .. n - 1 : ~Due(m)
         /\ delivery' = [delivery EXCEPT ![n] = "IN_FLIGHT"]
         /\ later' = later \cup {n}
         /\ sending' = [event |-> n, heard |-> "NOTHING"]
         /\ posts' = posts \cup {n}
    /\ UNCHANGED <<ledger, calls, mirrors, saga, faults>>

\* An answer outside ACCEPTED_STATUSES, or a timeout: the post may still be on its way.
PostFails ==
    /\ sending.event # 0
    /\ sending.heard = "NOTHING"
    /\ Fault
    /\ sending' = [sending EXCEPT !.heard = "FAILURE"]
    /\ \E gone \in SUBSET {sending.event} : posts' = posts \ gone
    /\ UNCHANGED <<ledger, delivery, later, calls, mirrors, saga>>

RecordDelivered ==
    /\ sending.heard = "ACCEPTED"
    /\ delivery' = [delivery EXCEPT ![sending.event] = "DELIVERED"]
    /\ later' = later \ {sending.event}
    /\ sending' = NotSending
    /\ UNCHANGED <<ledger, network, mirrors, saga, faults>>

\* Back to the queue, with a time on it.
RecordDeliveryFailure ==
    /\ sending.heard = "FAILURE"
    /\ delivery' = [delivery EXCEPT ![sending.event] = "PENDING"]
    /\ later' = later \cup {sending.event}
    /\ sending' = NotSending
    /\ UNCHANGED <<ledger, network, mirrors, saga, faults>>

\* A back-off ends, or a lease nobody is behind any more.
DeliveryFallsDue(n) ==
    /\ n \in later
    /\ n # sending.event
    /\ later' = later \ {n}
    /\ UNCHANGED <<ledger, delivery, sending, network, mirrors, saga, faults>>

\* simulator.webhook.loop_error: the claim stays on the row.
SenderForgets ==
    /\ sending # NotSending
    /\ Fault
    /\ sending' = NotSending
    /\ UNCHANGED <<ledger, delivery, later, network, mirrors, saga>>

\* initialize: what was in flight is due again.
SystemRestarts ==
    /\ sending # NotSending
    /\ Fault
    /\ sending' = NotSending
    /\ delivery' = [n \in Seqs |-> IF delivery[n] = "IN_FLIGHT" THEN "PENDING" ELSE delivery[n]]
    /\ later' = {n \in later : delivery[n] # "IN_FLIGHT"}
    /\ UNCHANGED <<ledger, network, mirrors, saga>>

\* inbox.ingest: stored once per event id, whenever and however often it arrives.
Ingest(n) ==
    /\ n \in posts
    /\ posts' = posts \ {n}
    /\ IF record[n] = "NONE"
         THEN /\ inbox' = Append(inbox, n)
              /\ record' = [record EXCEPT ![n] = "RECEIVED"]
         ELSE UNCHANGED <<inbox, record>>
    /\ sending' = IF sending = [event |-> n, heard |-> "NOTHING"]
                    THEN [sending EXCEPT !.heard = "ACCEPTED"] ELSE sending
    /\ UNCHANGED <<ledger, delivery, later, calls, mirror, worker, verdicts, saga, faults>>

-----------------------------------------------------------------------------
(* The mirror: process_one, in up to three transactions and a fetch.       *)

Unsettled(n) == record[n] = "RECEIVED"

\* A transaction of another worker's that has the record's row locked just now.
Locked(w, n) ==
    \E x \in Workers \ {w} :
        worker[x].event = n /\ worker[x].stage \in {"TAKEN", "FETCHED", "REJECTING"}

\* _next_record: the oldest unsettled record; SKIP LOCKED passes over what is locked, and
\* the lock does not outlive the read.
TakeRecord(w) ==
    /\ worker[w].stage = "IDLE"
    /\ \E p \in DOMAIN inbox :
         /\ Unsettled(inbox[p])
         /\ \A q \in 1 .. p - 1 : Unsettled(inbox[q]) => Locked(w, inbox[q])
         /\ worker' = [worker EXCEPT ![w] = [stage |-> "TAKEN", event |-> inbox[p], fetched |-> Nothing]]
    /\ UNCHANGED <<system, network, inbox, record, mirror, verdicts, saga, faults>>

\* [mutant] what does not follow the mirror's version is of no use to it.
GapIsStale(e, at) == IF e.version = at + 1 THEN "APPLY" ELSE "STALE"

\* decide; a DUPLICATE is as old as the mirror, and treated as STALE is.
Decide(e, at) ==
    IF e.version <= at THEN "STALE"
    ELSE IF e.version = at + 1 THEN "APPLY"
    ELSE "GAP"

\* [mutant] a failure is recorded in the transaction that found it, and goes with it.
SettleUnlessFailed(n, state) ==
    record' = [record EXCEPT ![n] = IF Unsettled(n) /\ state # "FAILED" THEN state ELSE @]

\* _settle: out of RECEIVED, if nobody else was first.
Settle(n, state) == record' = [record EXCEPT ![n] = IF Unsettled(n) THEN state ELSE @]

Audit(n, verdict) == verdicts' = [verdicts EXCEPT ![n] = @ \cup {verdict}]

\* [mutant] the mirror is put at the version of the event it was repaired for.
ShowAtEvent(n, view) ==
    mirror' = [mirror EXCEPT ![events[n].order] = [view EXCEPT !.version = events[n].version]]

\* _write_snapshot, of an order whose items are all mapped.
Show(n, view) == mirror' = [mirror EXCEPT ![events[n].order] = view]

Goes(w, stage) == worker' = [worker EXCEPT ![w].stage = stage]

Finishes(w) == worker' = [worker EXCEPT ![w] = Idle]

\* _apply_record, one transaction under the order's lock.
ApplyRecord(w) ==
    LET n == worker[w].event
        e == events[n]
        disposition == Decide(e, mirror[e.order].version)
    IN  /\ worker[w].stage = "TAKEN"
        /\ \/ /\ disposition = "GAP"
              /\ Goes(w, "GAP")
              /\ UNCHANGED <<record, mirror, verdicts>>
           \/ /\ disposition # "GAP"
              /\ ~Unsettled(n)
              /\ Finishes(w)
              /\ UNCHANGED <<record, mirror, verdicts>>
           \/ /\ disposition = "APPLY"
              /\ Unsettled(n)
              /\ e.item \in Mapped
              /\ Settle(n, "PROCESSED")
              /\ Show(n, [version |-> e.version, item |-> e.item])
              /\ Audit(n, "APPLIED")
              /\ Finishes(w)
           \/ /\ disposition = "APPLY"
              /\ Unsettled(n)
              /\ e.item \notin Mapped
              /\ Goes(w, "REJECTING")
              /\ UNCHANGED <<record, mirror, verdicts>>
           \/ /\ disposition = "STALE"
              /\ Unsettled(n)
              /\ Settle(n, "IGNORED")
              /\ Audit(n, "STALE")
              /\ Finishes(w)
              /\ UNCHANGED mirror
        /\ UNCHANGED <<system, network, inbox, saga, faults>>

\* _repair_gap's read of the whole order, with no transaction open.
FetchOrder(w) ==
    /\ worker[w].stage = "GAP"
    /\ worker' = [worker EXCEPT
                     ![w] = [@ EXCEPT !.stage = "FETCHED",
                                      !.fetched = Current(events[worker[w].event].order)]]
    /\ UNCHANGED <<system, network, inbox, record, mirror, verdicts, saga, faults>>

\* OrderSystemUnavailableError: nothing catches it, and the worker's process ends.
FetchFails(w) ==
    /\ worker[w].stage = "GAP"
    /\ Fault
    /\ worker' = [worker EXCEPT ![w] = [Idle EXCEPT !.stage = "STOPPED"]]
    /\ UNCHANGED <<system, network, inbox, record, mirror, verdicts, saga>>

\* [mutant] what was read is applied, however old it is by now.
NeverBehind(view, at) == FALSE

Behind(view, at) == view.version < at

\* _repair_gap's second transaction.
ApplySnapshot(w) ==
    LET n == worker[w].event
        view == worker[w].fetched
        at == mirror[events[n].order].version
    IN  /\ worker[w].stage = "FETCHED"
        /\ \/ /\ Behind(view, at)
              /\ Goes(w, "REJECTING")
              /\ UNCHANGED <<record, mirror, verdicts>>
           \/ /\ ~Behind(view, at)
              /\ ~Unsettled(n)
              /\ Finishes(w)
              /\ UNCHANGED <<record, mirror, verdicts>>
           \/ /\ ~Behind(view, at)
              /\ Unsettled(n)
              /\ view.version # at
              /\ view.item \notin Mapped
              /\ Goes(w, "REJECTING")
              /\ UNCHANGED <<record, mirror, verdicts>>
           \/ /\ ~Behind(view, at)
              /\ Unsettled(n)
              /\ view.version # at
              /\ view.item \in Mapped
              /\ Settle(n, "PROCESSED")
              /\ Show(n, view)
              /\ Audit(n, "APPLIED")
              /\ Finishes(w)
           \/ /\ view.version = at
              /\ Unsettled(n)
              /\ Settle(n, "PROCESSED")
              /\ Finishes(w)
              /\ UNCHANGED <<mirror, verdicts>>
        /\ UNCHANGED <<system, network, inbox, saga, faults>>

\* _reject, in a transaction of its own: the audit row is written whether or not the
\* record was there to settle.
Reject(w) ==
    /\ worker[w].stage = "REJECTING"
    /\ Settle(worker[w].event, "FAILED")
    /\ Audit(worker[w].event, "REJECTED")
    /\ Finishes(w)
    /\ UNCHANGED <<system, network, inbox, mirror, saga, faults>>

WorkerDies(w) ==
    /\ worker[w].event # 0
    /\ Fault
    /\ worker' = [worker EXCEPT ![w] = [Idle EXCEPT !.stage = "STOPPED"]]
    /\ UNCHANGED <<system, network, inbox, record, mirror, verdicts, saga>>

WorkerRestarts(w) ==
    /\ worker[w].stage = "STOPPED"
    /\ Finishes(w)
    /\ UNCHANGED <<system, network, inbox, record, mirror, verdicts, saga, faults>>

-----------------------------------------------------------------------------
(* Amending: what _apply enqueues, what amend answers, what _finalize      *)
(* waits for.                                                              *)

\* recovery._apply: the order as the mirror shows it, once the fingerprint still holds.
ApplyRecovery(k, o) ==
    /\ track[k].state = "PLANNED"
    /\ \E to \in Mapped \ {mirror[o].item} :
         plan' = [plan EXCEPT ![k] = [order |-> o, from |-> mirror[o].item, to |-> to,
                                      version |-> mirror[o].version]]
    /\ track' = [track EXCEPT ![k].state = "APPLYING"]
    /\ effect' = [effect EXCEPT ![k].state = "PENDING"]
    /\ UNCHANGED <<system, network, mirrors, faults>>

SendAmendment(k) ==
    /\ effect[k].state = "PENDING"
    /\ effect' = [effect EXCEPT ![k].state = "IN_FLIGHT", ![k].attempts = @ + 1]
    /\ calls' = calls \cup {<<k, effect[k].attempts + 1>>}
    /\ UNCHANGED <<system, posts, mirrors, plan, track, faults>>

\* [mutant] only the line's content has to be what was planned against.
AcceptableContent(p) == Current(p.order).item = p.from

\* _apply's refusals, for a request whose order, line and item exist.
Acceptable(p) == Current(p.order).version = p.version /\ Current(p.order).item = p.from

\* OrderSystemClient.amend: a result, or a deterministic refusal.
Answer(k, a, version) ==
    effect' = [effect EXCEPT ![k].state = IF version = 0 THEN "REFUSED" ELSE "DELIVERED",
                             ![k].version = version]

\* The answer reaches the attempt that waits for it, or is lost.
Answered(k, a, version) ==
    \/ /\ effect[k].state = "IN_FLIGHT"
       /\ effect[k].attempts = a
       /\ Answer(k, a, version)
    \/ UNCHANGED effect

\* [mutant] a key is not looked up before the request is judged.
NeverSeen(k) == TRUE

Unseen(k) == commands[k] = 0

\* store.amend: an unseen key is judged and applied, a seen one is told again what it did.
Amend(k, a) ==
    LET p == plan[k]
    IN  /\ <<k, a>> \in calls
        /\ calls' = calls \ {<<k, a>>}
        /\ \/ /\ Unseen(k)
              /\ Acceptable(p)
              /\ Change(p.order, p.to, k)
              /\ commands' = [commands EXCEPT ![k] = p.version + 1]
              /\ Answered(k, a, p.version + 1)
           \/ /\ Unseen(k)
              /\ ~Acceptable(p)
              /\ Answered(k, a, 0)
              /\ UNCHANGED <<ledger, delivery>>
           \/ /\ ~Unseen(k)
              /\ Answered(k, a, commands[k])
              /\ UNCHANGED <<ledger, delivery>>
        /\ UNCHANGED <<later, sending, posts, mirrors, plan, track, faults>>

\* [mutant] one try more than the policy allows.
TriesLeftAfterLast(k) == effect[k].attempts <= MaxAttempts

TriesLeft(k) == effect[k].attempts < MaxAttempts

\* Uncertain: no answer, or a server's error. The same key again, up to the bound.
AmendmentUnanswered(k) ==
    /\ effect[k].state = "IN_FLIGHT"
    /\ effect' = [effect EXCEPT ![k].state =
                      IF TriesLeft(k) THEN "PENDING" ELSE "FAILED"]
    /\ UNCHANGED <<system, network, mirrors, plan, track, faults>>

\* A 200 whose result cannot be read is terminal, whatever tries are left.
AmendmentUnreadable(k) ==
    /\ effect[k].state = "IN_FLIGHT"
    /\ ~Unseen(k)
    /\ <<k, effect[k].attempts>> \notin calls
    /\ effect' = [effect EXCEPT ![k].state = "FAILED"]
    /\ UNCHANGED <<system, network, mirrors, plan, track, faults>>

\* mirror_reconciliation: the order's own version reached, and the line as the plan chose.
Reconciled(k) ==
    \/ effect[k].version = 0
    \/ /\ mirror[plan[k].order].version >= effect[k].version
       /\ mirror[plan[k].order].item = plan[k].to

\* _finalize on a delivered effect, with _await_mirror's bound.
Finalize(k) ==
    /\ track[k].state = "APPLYING"
    /\ effect[k].state = "DELIVERED"
    /\ \/ Reconciled(k) /\ track' = [track EXCEPT ![k].state = "RECOVERED"]
       \/ /\ ~Reconciled(k)
          /\ track[k].waits + 1 < MaxAttempts
          /\ track' = [track EXCEPT ![k].waits = @ + 1]
       \/ /\ ~Reconciled(k)
          /\ track[k].waits + 1 >= MaxAttempts
          /\ track' = [track EXCEPT ![k].state = "ESCALATED"]
    /\ UNCHANGED <<system, network, mirrors, plan, effect, faults>>

\* _abandon, on an effect that failed.
Abandon(k) ==
    /\ track[k].state = "APPLYING"
    /\ effect[k].state \in {"REFUSED", "FAILED"}
    /\ track' = [track EXCEPT ![k].state = "ESCALATED"]
    /\ UNCHANGED <<system, network, mirrors, plan, effect, faults>>

-----------------------------------------------------------------------------
Sending ==
    \/ ClaimDelivery
    \/ PostFails
    \/ RecordDelivered
    \/ RecordDeliveryFailure
    \/ SenderForgets
    \/ SystemRestarts
    \/ \E n \in Seqs : DeliveryFallsDue(n) \/ Ingest(n)

Mirroring(w) ==
    \/ TakeRecord(w)
    \/ ApplyRecord(w)
    \/ FetchOrder(w)
    \/ FetchFails(w)
    \/ ApplySnapshot(w)
    \/ Reject(w)
    \/ WorkerDies(w)
    \/ WorkerRestarts(w)

Recovering(k) ==
    \/ \E o \in Orders : ApplyRecovery(k, o)
    \/ SendAmendment(k)
    \/ \E a \in 1..MaxAttempts : Amend(k, a)
    \/ AmendmentUnanswered(k)
    \/ AmendmentUnreadable(k)
    \/ Finalize(k)
    \/ Abandon(k)

Next ==
    \/ \E o \in Orders, i \in Items : OperatorChange(o, i)
    \/ Sending
    \/ \E w \in Workers : Mirroring(w)
    \/ \E k \in Amendments : Recovering(k)

Spec == Init /\ [][Next]_vars

\* The sender's loop and the workers' cycle go round, processes are restarted, clocks move
\* and, faults being finitely many, a post or a fetch in the end succeeds. Nobody has to
\* change an order or recover a track, and an amendment may stay on the wire for ever.
Fairness ==
    /\ WF_vars(ClaimDelivery \/ RecordDelivered \/ RecordDeliveryFailure)
    /\ WF_vars(\E n \in Seqs : DeliveryFallsDue(n))
    /\ WF_vars(\E n \in Seqs : Ingest(n))
    /\ \A w \in Workers :
         WF_vars(\/ TakeRecord(w)
                 \/ ApplyRecord(w)
                 \/ FetchOrder(w)
                 \/ ApplySnapshot(w)
                 \/ Reject(w)
                 \/ WorkerRestarts(w))

FairSpec == Spec /\ Fairness

-----------------------------------------------------------------------------
(* Safety.                                                                 *)

\* An amendment lands on the very version PromisePatch had seen when it decided on it, and
\* only once: an old amendment never overwrites newer truth, even if the line has been
\* changed and changed back (store._apply, store._replay, order_system.build_request).
AmendedAsSeen ==
    \A n, m \in DOMAIN events :
        LET k == events[n].command
        IN  k # Nothing =>
              /\ events[n].version = plan[k].version + 1
              /\ History(plan[k].order)[plan[k].version] = plan[k].from
              /\ m # n => events[m].command # k

\* What the order system is recorded as having refused it has not done and will not do,
\* whatever earlier attempt of it is still on the wire (order_system.DETERMINISTIC_REFUSALS,
\* store.amend): the owner who is told of a refusal finds the order untouched.
RefusedIsNeverMade == \A k \in Amendments : effect[k].state = "REFUSED" => commands[k] = 0

\* A record settled as applied or as old is one the mirror shows or has passed, whoever
\* settled it and however it came to be there: nothing is acknowledged and then lost with
\* the transaction or the worker (order_mirror._apply_record, _repair_gap).
SettledIsShown ==
    \A n \in DOMAIN events :
        record[n] \in {"PROCESSED", "IGNORED"} =>
            mirror[events[n].order].version >= events[n].version

-----------------------------------------------------------------------------
(* Refinement.                                                             *)

Register == INSTANCE FollowedOrder
    WITH Readable <- Mapped,
         written <- [o \in Orders |-> History(o)],
         shown <- mirror

\* The mirror of an order shows a version the order really had, whole, never moves back
\* and arrives at the latest, whatever is lost, repeated, overtaken or dies on the way
\* (order_mirror.decide, _repair_gap, webhooks.deliver_one).
MirrorFollows == Register!Spec

(* Liveness, under FairSpec.                                               *)

\* Every event the order system records is in the end settled by the mirror.
EveryEventSettles ==
    \A n \in Seqs :
        delivery[n] = "PENDING" ~> record[n] \in {"PROCESSED", "IGNORED", "FAILED"}
=============================================================================
