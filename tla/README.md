# A TLA+ model of PromisePatch

PromisePatch watches over a bakery's promises. When a delivery fails it works out which
orders the failure breaks, applies the recoveries its rules allow, asks customers about the
rest, checks every answer against the world again before acting on it, and hands whatever is
left to the owner. The whole of that is a persisted state machine: rows of `cases`, `tracks`,
`approval_requests`, `case_steps`, `timers`, `inbox_events` and `outbox_messages`, moved by
worker processes that may die at any moment.

These modules model that machine, `apps/backend/src/promisepatch` (below: *backend*), the engine
that decides what it does (`packages/promise-graph`), the order system it amends
(`apps/order-simulator`) and the live feed over it. Paths are relative to the repository.

## 1. Inventory

| component | code | state | operations |
|---|---|---|---|
| step ledger | backend `domain/steps.py`, `retry.py`, `model.py`, `crash.py` | `case_steps`: state, attempts, lease owner and expiry, next attempt | enqueue, claim, fence, commit, retry, give up |
| worker loop | `worker.py` | in memory: the claim in hand, deferred preparations by case | a cycle of sweeps: timers, inbox, mirror, outbox, one step |
| case rules | `domain/cases.py` | `cases.state`, `version`, `needs_owner_attention` | where the case stands, when a round ends, what it may resolve over |
| plan and recovery | `domain/recovery.py` | `tracks.state`, `classification`; task holds | confirm, escalate the plan, apply, finalize, abandon |
| approvals | `domain/approvals.py`, `consent.py`, `customer_intent.py`, `messaging.py` | `approval_requests`, `approval_decisions`, `inbound_replies` | request, mark sent, abandon, expire, read a reply |
| revalidation | `domain/revalidation.py` | recorded checks | ten checks, proceed, go stale, expire, reconcile |
| analysis | `domain/analysis.py` | tracks, options, watched entities | analyze, plan, re-plan |
| promise graph | `packages/promise-graph` | none: pure functions of a snapshot | allocate, propagate, classify, fingerprint, revalidate |
| timers | `domain/timers.py` | `timers` | arm, cancel, fire |
| outbox | `domain/outbox.py`, `adapters.py`, `integrations/` | `outbox_messages` with their own leases and attempts | claim, gate, deliver, record |
| inbox | `domain/inbox.py`, `handlers.py` | `inbox_events` | ingest, turn into a step |
| withdrawal | `domain/withdrawal.py` | the above, in one transaction | stand a case down |
| order mirror | `domain/order_mirror.py` | `orders`, `order_lines` and the version they mirror | apply, repair a gap, reject |
| order simulator | `apps/order-simulator` | its own orders, events, idempotent commands, webhook queue | operator change, amend, deliver |
| intake | `domain/intake.py`, `interpretation.py`, `physical.py`, `observation.py`, `grounding.py`, `semantic_intake.py`, `semantic/` | reports, facts, clarifications | report, clarify, correct, interpret |
| human approval of a plan | `domain/plan_approval.py`, `plan_identity.py` | `plan_approvals` | record, consume once |
| event spine and live feed | `db/events.py`, `db/listen.py`, `api/stream.py`, `apps/frontend/src/api/stream.ts` | `domain_events`; in memory: a flag and a cursor per stream, the client's last id | append, notify, read, replay, resync, reconnect |
| API, MCP, orchestrator | `api/`, `mcp/`, `orchestrator/` | sessions | commands and reads |
| everything else | `db/`, `fixtures/`, `provisioning.py`, `cli.py`, `apps/frontend`, `showcase`, `deploy`, `evals` | - | access, tooling, interface |

**How they interact.** Nothing calls a handler directly. A command, a fired deadline, a stored
reply and a settled effect each insert a *step*; a worker claims it, locks its case and runs its
handler, and the handler's outcome - the case's and the tracks' changes, further steps, effects
for the outbox, timers - is committed with the step's settlement, or not at all. The outbox
sends effects with no transaction open, and what the provider answered inserts the effect's
continuation as one more step. The order system answers twice, to the call and by webhook; a
change counts as made once the mirror has it from there. Cases meet in three places: the lines
of deliveries they report, the stock their plans count on, and the orders they amend. Steps are identified by a `step_key` unique within their case,
which is what makes a second enqueuing of the same work do nothing.

**What is hard.** Two workers and one claim; death between any two commits; a withdrawal
beside steps that somebody has already claimed; a customer's answer that overtakes the report that the
question was sent, or trails its deadline; a sibling promise that answers, expires, goes stale
or is planned again while another is being amended; deadlines of plans that are no longer the
plan; and a case that moves only when some step asks where it stands, so that a question nobody
asks leaves it where it is. `PROJECT.json` lists each under "hazards", at its line.

**What makes each component correct.**

- *Step ledger*: a claim the row has moved past never executes; every step commits at most once
  and is settled in the end; one process never works on two steps of a case.
- *Case rules*: no state is waited in without end; RESOLVED and WAITING mean what they say.
- *Recovery and approvals*: no order is amended without the rules' authority or the customer's
  own literal, checked yes; what is settled stays settled; the owner is always told.
- *Revalidation*: a round ends; an answer is checked at most once and in the end.
- *Outbox*: an effect is attempted under one key, its continuation is enqueued once.
- *Mirror*: it only moves forward, through versions the order had, and every event settles.
- *Amendment*: it is made at most once, on the version that was seen; what was refused was not made.
- *Withdrawal*: nothing a planned case left behind plans, asks or changes after it.
- *Intake*: the ledger is moved by what arrived; a line settles as somebody attested; no statement
  is left with nobody.
- *Promise graph*: the earliest are served first out of what is there by then; what a plan offers
  can be had together; what it calls recoverable it can recover.
- *Live feed*: a client learns of a growing beginning of the log, and of every event in the end.

## 2. Modules

    OnceLedger          what the ledger promises: planned steps, each settled once
      ^ implements
    StepLedger          workers, claims, leases, executions, deaths, withdrawals
      ^ EXTENDS
    StepLedger_proofs   its theorems
    MCStepLedger        its instances for TLC

    CaseWorkflow        one case, its promises, requests, steps, messages, deadlines, withdrawal
      ^ EXTENDS
    CaseWorkflow_proofs its theorems
    MCCaseWorkflow      its instances for TLC

    Outbox              effects, dispatchers, claims, the two dispatch gates, late answers
      ^ EXTENDS
    Outbox_proofs       its theorems
    MCOutbox            its instances for TLC

    FollowedOrder       a version that moves forward through what the order has been
      ^ implements
    OrderSync           the order system, its webhooks, the mirror, and amendments between them
      ^ EXTENDS
    OrderSync_proofs    its theorems
    MCOrderSync         its instances for TLC

    Intake              statements, questions, readings, facts, the ledger, corrections
      ^ EXTENDS
    Intake_proofs       its theorems
    MCIntake            its instances for TLC

    PromiseGraph        the engine: allocation, propagation, classification, fingerprint
      ^ EXTENDS
    PromiseGraph_proofs its theorems, of any snapshot
    GraphRecovery       cases that share stock, deliveries and promises, over that engine
      ^ EXTENDS
    GraphRecovery_proofs  its theorems, from the engine's
    MCGraphRecovery     its instances for TLC

    FollowedLog         clients that learn of a growing beginning of a log
      ^ implements
    EventStream         the event spine, the listener, the streams and their clients
      ^ EXTENDS
    EventStream_proofs  its theorems
    MCEventStream       its instances for TLC

Each is one concern of the code at its own grain. What one takes as a free choice another
computes: `CaseWorkflow` chooses the verdict `GraphRecovery` computes and the settlement of an
effect `Outbox` explains, and starts where `Intake` ends. The modules are not composed into one
specification, which no bound would make checkable.

### StepLedger

`state`, `attempts`, `owner`, `expired` and `delayed` are a row of `case_steps` (the two
instants are reduced to whether they have passed); `token` is the claim a worker holds in
memory; `rowLock` and `caseLock` are the row locks of an execution transaction. An execution is four steps - `Fence` takes the row's lock and re-proves the claim,
`LockCase` takes the case's, then `HandlerSettles`, `ScheduleRetry` or `GiveUp` commits - because
other transactions interleave at exactly those places. What a handler decides is left open: any
disposition, any subset of the step's possible successors. `ClaimStep` may take any eligible
row: the code's oldest-first order is not something two workers that skip locked rows keep.
`WorkerDies` and `LoseClaim` are the boundaries `crash.py` names and the exceptions
`_prepare_then_execute` swallows. A withdrawal is one action: it waits for the case's lock, and
its update touches only rows nobody has claimed, which is why it never meets an execution's locks.

### CaseWorkflow

One case, from the plan presented (`Init` is what `analysis._plan` leaves) to RESOLVED. A handler
is one atomic action, guard for guard: `StepLedger` is the reason it may be. A `case_steps` row
is its step key, a record `[kind, track, ask, word]`, in `open` or `done`; `failed` are those
that gave up. `carried[t]`, `request[t][n]` and `decision[t][n]` are the request a track carries
and the state and decision of its n-th request (`approval_request_id` is an ordinal: a re-plan's
confirmation opens the next one, as `request_id_for` and `ask_scope` do). Each transition ends
by asking `SettledCaseState` with what it has just written and the step it is itself executing
excepted, exactly where the code passes `except_step_key`; the ledger it reads is the one before
its own commit.

| action | code |
|---|---|
| `Confirm`, `EscalatePlan` | `recovery._confirm`, `_escalate_plan` |
| `RequestApproval`, `MarkApprovalSent`, `AbandonApproval`, `ExpireApproval` | `approvals._request`, `_mark_sent`, `_abandon`, `_expire` |
| `ReceiveReply`, `InterpretReply` | `approvals._reply`, `customer_intent._request_confirmation` |
| `Revalidate`, `Replan` | `revalidation._revalidate`, `analysis._replan` |
| `ApplyRecovery`, `FinalizeRecovery`, `AbandonRecovery`, `ReconcileCase` | `recovery._apply`, `_finalize`, `_abandon`, `revalidation._reconcile` |
| `Withdraw` | `withdrawal._withdraw` and the closing step it enqueues |
| `SendMessage`, `RecordSent`, `FailMessage`, `SettleAmendment` | `outbox.dispatch_one`, `_record_delivered`, `_record_terminal`, `_continue` |
| `FireApprovalDeadline`, `FirePlanDeadline` | `timers.fire_due_timer` |
| `DeadlinePasses`, `CustomerReplies` | the clock and the customer |

What the world looks like - stock, the kitchen's progress, the mirror's account of an amendment -
is a free choice of outcome at the point where the code looks. A reply is one of five words:
the two literal ones, two others (a second one is what escalates) and one from a channel that is
not the request's.

Left out of it: task holds, message texts, confirmation prompts and supersede notices (they
write no state the properties read), the retries of a check whose snapshot moved (a stutter,
with `GiveUp` for the last), and the two revalidation outcomes that need a broken sender chain.
A deadline has passed or has not: the code's comparisons, strict here and not there, differ at that
instant only. `Withdraw` chooses between the path that cancels and the one that reconciles by what
was applied, escalates what is open, supersedes its requests, cancels the plan's deadline and stands
down the steps nobody has claimed: which were claimed is a free choice of at most `MaxClaimed`.

### Outbox

A dispatcher is three transactions with a provider's call between the last two, and each is an
action: `ClaimEffect` commits the claim and its attempt, `AskWhetherToSend` is
`_still_worth_sending` with the gates of `approvals` and `recovery`, `Deliver` is the call and
whatever the adapter makes of its answer, and `RecordDelivered`, `RecordRetry`, `RecordTerminal`
or `Fenced` is `record_delivery`, fenced by `_settle`. `state`, `attempts`, `owner`, `expired`,
`delayed` and `error` are the row; `effect`, `token` and `stage` are the claim in a dispatcher's
memory. `sent` is not the program's: it is which attempts reached the provider, which nobody here
can know and which the row's words must be true of. `error` keeps of `last_error` whether it
says the effect was not sent, may have been sent, or what a provider answered. `DispatcherDies` is
death at or between the boundaries of `crash.py`; the container restarts the process
(`docker-compose.yml`, `restart: unless-stopped`). A retry, the next attempt and a lease taken over
are all the same claim, which is why the attempt is the fencing token.

What a provider does with a call - once per key, or once per call - is `OrderSync`. Not here is a
withdrawal's refusal of effects not yet sent: `_refuse_unsent` names a column the table does not
have, and cannot run.

### OrderSync

`book` is the rows of the order system's orders, `commands` the results it keeps of idempotent
commands and `events` is `order_events`: its `ledger`, which one transaction writes together.
`delivery`, `later` and `sending` are the webhook queue and its one sender; `posts` and `calls` are
what is on the wire. On the other side `inbox` and `record` are `inbox_events`, `mirror` the
mirrored order, `worker` where a worker is with the record it took - it holds no claim, so two may
hold one - and `verdicts` the audit rows the record ended with.

| action | code |
|---|---|
| `OperatorChange`, `Amend` | `store.py`: the operator's change, `_apply`, `_replay` |
| `Sending`: `ClaimDelivery`, `PostFails`, `RecordDelivered`, `RecordDeliveryFailure`, `SenderForgets`, `DeliveryFallsDue`, `SystemRestarts`; `Ingest` | `webhooks.py` over `store.py`; `domain/inbox.py` |
| `Mirroring`: `TakeRecord`, `ApplyRecord`, `FetchOrder`, `ApplySnapshot`, `Reject`, `WorkerRestarts` | `order_mirror.py`: `_apply_record`, `_repair_gap`, `_reject` |
| `Recovering`: `ApplyRecovery`, `SendAmendment`, `AmendmentUnanswered`, `AmendmentUnreadable`, `Finalize`, `Abandon` | `integrations/order_system.py`, `recovery._apply`, `_finalize`, `mirror_reconciliation` |

Between `FetchOrder` and `ApplySnapshot` no transaction is open and no lock held, which is where the
mirror and the order both move. An item nobody mapped aborts the transaction, and the rejection is
another. `FollowedOrder` is the promise: a version that only moves forward, at each version shows
what the order was, and arrives at the latest. Its `written` is `History`, what an order carried at
each version by the events of it, its `shown` is `mirror`; its `Safety` is that promise without the
arrival.

### Intake

`case`, `attention` and `bound` are the case's row; `asked` its clarifications; `steps` its
unsettled steps; `running` the execution that holds the case's lock together with the lines and
the resources counted as `Hydrate` read them, which is before anything locks them; `reading` what a
model answered and for which question; `line` and `posted` the deliveries' lines and what each
case's facts moved the ledger by, and `counted` the resources the ledger has an entry of, which are
on offer to a reading even when no delivery owes them. A statement is what it says of each resource;
a report may name a supplier (`OfSupplier`) and say "today" (`DueToday`), and both narrow its
candidates. "Today" is the same day throughout. Actions are the three commands
(`OpenPhysicalException`, `AnswerClarification`, `CorrectPhysicalFact`), `Withdraw`, the
preparation of a reading with no lock held by the step's claimant before it executes
(`PrepareReading`), a claim that is lost and counted (`LoseClaim`), and an execution's parts:
`Hydrate`, then one of `BeginInterpretation`, `ResolveObservation`, `ConsumeSemantic`,
`RetrySemantic`, `GiveUpOnReading`, `Analyze`, `Plan`. Each ends in one of the outcomes
`AskQuestion`, `Escalate` and `RecordFacts` write. Reports are of deliveries; reports of stock and
of equipment, which touch no shared line, and the words themselves are left out.

### PromiseGraph and GraphRecovery

`PromiseGraph` has no state: its operators are the engine's functions of a snapshot, for orders of
one line whose recipe needs one ingredient. `Allocate` is the greedy loop of
`availability.allocate` as a recursive function over the claims; `Analysis` is the one over
promises in priority order, in which each sees what the earlier ones `Committed`; `Fingerprint` has
what the code's has and, like it, no other order's reservations.

`GraphRecovery` puts it to work: `graph` is what a fresh snapshot would load, moved by reports
(`ReportStock`, `ReportDelivery`: `apply_exception_facts`), by the mirror (`ChangeOrder`,
`Mirrored`: `order_mirror._apply_line` re-pins and re-reserves) and by nothing else; `Analyze`,
`PlanRecovery` and `Replan` are `analysis._analyze`, `_plan` and `_replan`; `Confirm`,
`RequestApproval`, `Revalidate`, `ApplyRecovery`, `FinalizeRecovery` and `AbandonRecovery` are what
`CaseWorkflow` has in full, with the case's states after its plan folded into three, so that what
is left to see is what two cases do to each other through the stock.

### EventStream

`drawn` is the sequence's last number and `numbers` what a transaction in progress has drawn:
`AppendEvent` takes the order lock first, which is held to the commit. `listener` and `notice` are
the process's one LISTEN session and a notification on its way; `stage`, `position` and `flag` are a
stream of `api/stream.py`, line by line where another transaction may commit between two (arming
the flag, reading, yielding, waiting); `lastId` and `informed` are the client's. Faults are
rollbacks, connections that die with or without anybody noticing, dropped feeds and restarts. A
resync frame tells its client of everything up to its id, since the client reads its views anew.
`FollowedLog` maps `log` to `committed` and `told` to `informed`.

## 3. Runs

| run | shows | size |
|---|---|---|
| `ledger` | safety of the ledger, that it implements `OnceLedger`, and that every enqueued step settles | 2 workers, 1 case, 2 steps, `MaxAttempts` 2, `MaxLosses` 2; about 23 000 states |
| `case_alone` | consent, requests, what a withdrawal leaves, and the end of every wait, for one promise | 5 words, 2 asks, 2 replies, a withdrawal; about 200 000 states |
| `case_siblings` | what siblings do to each other | 2 promises, YES and NO, 2 asks for one of them, 2 replies, a withdrawal; about 2.2 million states |
| `outbox` | what the rows say was sent and continued, and that every effect settles | 2 dispatchers, a question and an amendment, `MaxAttempts` 2, `MaxLosses` 2; about 300 000 states |
| `order_mirror` | what is settled is shown, the mirror implements `FollowedOrder`, every event settles | 3 changes, one to an item nobody mapped, 2 workers, 1 fault; about 290 000 states |
| `order_amend` | amendments beside the shop's own changes | 1 amendment, 2 attempts, 3 changes, 1 fault; about 2.2 million states |
| `event_stream` | no lost wake-up, the feed implements `FollowedLog`, every event is heard | 2 writers, 4 events, 1 client, `MaxReplay` 1, 3 faults; about 113 000 states |
| `graph` | allocation against its definition, plans that fit, recoverable means recoverable | 2 cases (symmetric), 3 orders, 3 ingredients, a delivery of 2 lines, 1 change; about 120 000 states |
| `intake` | the ledger tells the truth, lines settle as attested, no statement is lost | 2 cases, 4 lines of 3 deliveries, 2 corrections, a withdrawal; about 4.9 million states |
| `case_all_blocked`, `case_early_yes`, `graph_counted_twice` | one disagreement each, section 5 | small |

**Bounds.** `MaxLosses` counts claims lost to a death, an error or a lease
outlived by its worker: two are enough for a claim to be lost, taken over, and lost again at the
attempt that exhausts the policy. One case is enough for the locks, since nothing relates two.
`MaxAsks` 2 gives a track a superseded request, a second one and the late messages of the first;
`MaxReplies` 2 lets a first answer be followed by a contradicting or duplicate one; `Reaskable`
restricts the second ask to one of the two siblings, which are alike; in `case_alone` a withdrawal may find up to `MaxClaimed` 2 steps claimed.
In `outbox`, two losses let a slow dispatcher be overtaken and its
successor die; two attempts give a first one, which may say what was not sent, and a second one,
which may not and exhausts the policy. A question and an amendment are the two gated kinds: any
other effect is an amendment that never becomes late. In `order_mirror`, three changes make a gap
two wide, an event that arrives behind its successor, and a read that is old by the time it is
applied; a fault is a lost post or answer or a death, and one is enough to make a gap or a second
delivery. In `event_stream` a `MaxReplay` of 1 makes two unread events a resync, and four events put
one on either side of it. In `intake`, one case is owed by three deliveries of which the supplier it names
leaves two, none of them due on the day it says, so that it must ask; the other is owed by one of
those, by a supplier it does not name: the narrowing that fits and both that do not, and
settlements that overlap in part; two corrections let a second one compensate for the first, of either
case; a ceiling of 2 is reached by asking. In `graph`, order 1 starts before the delivery and two
start when it is due, so that each way to run short happens, and a substitute's own shortage sends
a recovered order on to the third ingredient. Runs may end (a case resolves, stops where section 5
says, or the bounds are used up), so deadlock is not checked; that what must happen happens is
checked as liveness, and in `intake` as an invariant, `SomebodyHasIt`: while a case is being
interpreted it has a step to execute, or its owner has been called; while it waits for a baker its
latest question is open, or the answer has a step that will read it. (A case whose owner was called
once keeps the flag, so the first half says less of it afterwards.)

**Fairness.** `StepLedger`: a running worker keeps cycling (`run_forever`), so claims, fences and
commits are weakly fair; two executions may alternate on a case's lock, which the database grants
in order, so `LockCase` is strongly fair; leases and retry times are instants of the database's
clock, which passes. Nothing makes a worker die, a wake-up arrive or a withdrawal begin.
`CaseWorkflow`: some open step is executed, some effect settled, some deadline passed and some
due timer fired, as the worker's cycle does each in turn; nobody need ever confirm a plan or
answer a message, and the waits still end. `Outbox`: running dispatchers keep claiming, asking,
calling and recording, calls end because every HTTP client has a timeout, leases and backoffs are
instants of the clock, and a stopped container restarts; nothing need become late or die.
`OrderSync`: the sender and each worker keep cycling, a webhook that is on the wire arrives or is
counted as a fault, and a stopped process restarts; the shop need change nothing. `EventStream`: a
transaction in progress commits or rolls back, a stream's loop goes on (its wait has a timeout), a
client reads what it is sent and reconnects; nothing at all is asked of the listener, and events are
still heard. `Intake` and `GraphRecovery` state no liveness and no fairness.

## 4. Proofs

`StepLedger_proofs.tla`, for any sets of workers, steps and cases, any assignment of steps to
cases and any bounds, from the two named assumptions of `StepLedger` on its constants.

- `TypeCorrect`: the type invariant.
- `Fencing`: `SupersededClaimNeverExecutes`. It is inductive with the types: a row under an execution's
  lock is touched by no claim (`SKIP LOCKED`), and by no withdrawal because it is in flight; its
  lease may run out, but the row is not then claimable.
- `ClaimsSettleThemselves`: `ClaimedStepSettlesItself`, action by action (`OnlyExecutionsLeave`).
- `UniqueTokens`: `TokensAreUnique`. By itself it is not inductive: that a worker's token never
  exceeds the row's attempts (`ClaimsAreTheOnlyTokens`) is what makes the next token new.
- `OneStepPerProcess`: `OneStepOfACasePerProcess`, from the loop's own idleness when it claims and
  the exclusion of the cases its deferred tasks hold.
- `CommitsOnce`: `CommittedOnce`, from `Fencing`: only a row still IN_FLIGHT commits.
- `Refinement`: `Spec => Once!Spec`. Each action is a settlement, a planning, a standing down, or
  leaves the abstract state alone (`EveryStepIsALedgerStep`).

`Outbox_proofs.tla`, likewise for any sets of dispatchers and effects and any bounds, from
`OutboxAssumption`.

- `OutboxTyped`: the types, inductive only with `ClaimsAreOfEffects`: what is recorded is recorded
  of the effect of a claim.
- `OneCall`: `OneCallPerClaim`, from `Counted`: the calls made of an effect and the claims held on it
  are among the attempts the row counts, no two dispatchers hold the same attempt of one effect, and
  a claim that has not answered has not called.
- `NothingUnsentWasSent`: `UnsentMeansUnsent`. By itself it is not inductive: what makes it so is that a
  refusal says UNSENT only under attempt 1, when by `Counted` no other claim exists and no call was
  made, and that the row is settled from then on (`UnsentStaysUnsent`).
- `SettledOnceAndForAll` and `ContinuedAsSettled`: only a row in flight settles (`SettleMovesItsOwnRow`).

`UniqueTokens`, `CommitsOnce` and `SettledOnceAndForAll` are proved and no longer run: the
refinement run and `ContinuedOnce` already break where they would.

`EventStream_proofs.tla`, for any writers, clients, replay bound and faults.

- `StreamTyped`: the types, inductive with the `Spine`: one transaction at a time holds numbers
  (`OneHolder`: the order lock is held to the commit), they lie past every committed one
  (`DrawnBehind`), and every set of them has a last, which is what `latest_seq` reads. A sequence
  alone would not do: without the lock a number below a committed one may still be drawn.
- `FeedImplementsTheLog`: `Spec => FeedFollowsTheLog`, the refinement of `FollowedLog`. What makes a
  receipt a step of the log is `Feed(c)`: what a client was told is what is committed up to its
  cursor, what lies between there and the stream's position is on the wire without a gap.
- `NoWakeUpIsLost`: `SleeperHasReadEverything`, from `LevelOnceRead`: from its read on, a stream that
  is unsignalled under a serving listener with nothing on its way has nothing after its position;
  the flag is armed before the read, which is where the order of the loop's lines counts.

`OrderSync_proofs.tla`, for any orders, workers, items, amendments and bounds.

- `OrderSyncTyped`: the types, inductive with where things point: whoever is somewhere with an event
  is so with a recorded one, a call is of an amendment that was planned.
- `SettledStaysShown`: `SettledIsShown`. Inductive with `Mirrored`: what the mirror shows and what a
  worker has fetched is a version the order has had, and a fetch is no older than the event that
  asked for it - two workers with one record make neither untrue.
- `MirrorNeverMisleads`: `Spec => Register!Safety`, the safety half of the refinement `MirrorFollows`
  checks, from `Booked`: an order's versions and its events are one to one, so a history only grows.
- `AmendmentsLandAsSeen` and `RefusalsAreFinal`: `AmendedAsSeen` and `RefusedIsNeverMade`, from
  `Amended`: an amendment was planned on a version that was, an event that carries a key is the one
  its command recorded, on the version after the one planned on, and a refusal is of a version that
  is overtaken, which it stays.

`CaseWorkflow_proofs.tla`, for any finite set of promises, any first plan and words and any number of
asks, replies, re-plans and withdrawals. One inductive invariant, `IInv`, for all: each property needs
the others' ground.

- `CaseWorkflowTyped`: with what each row is about (`About`) and that the ledger is finite, so that the
  next ask and the next withdrawal can be counted.
- `NoAmendmentWithoutConsent`: `AmendedWithConsent`. `Consented` adds that asks are made in turn, that
  an open request is carried and undecided, and that an approval is of a reply that was a literal yes.
- `AnswersFindTheirPromise`: `OpenRequestIsCarried`, of `Answerable` (what an open request's promise is
  doing) and `Placed` (what a promise still to be recovered leaves its case doing).
- `NobodyWaitsInVain`: `WaitingOnSomebody`, from `Placed` and `Timed`: an expiry was asked for, once
  executed its request is closed, and an open ask that is waited for has its deadline armed or fired.
- `ResolutionIsFinal`, `OwnerAlwaysKnows`, `WithdrawalIsFinal`: `ResolvedIsFinished`, `OwnerIsTold`,
  `WithdrawnStaysStopped`. The first and the last need `Amending`: an amendment on its way is of a promise that
  is APPLYING or of a case that was withdrawn. The resolution needs of the moment before it what
  `SettledCaseState` and the executed step say together (`CaseGoes`, `Comes`).
- `NothingSettledMoves`: `SettledStays`, action by action.

The proofs do not visit each action once per conjunct: `PromisesMove` says what any step does to one
promise, `LedgerMoves` what it does to the ledger and `CaseMoves` to the case, and each conjunct is
proved of those. `Stay \notin CaseStates` and the finiteness of `Tracks` are the assumptions this needed.

`Intake_proofs.tla`, for any finite set of cases, any lines, deliveries, quantities and bounds.

- `IntakeTyped`: with the types of what was asked and read (`WordsTyped`) and `Told`, what is known of a
  case by the step it is in: until its report is read it has no other step and has asked nothing
  (`ReportIsAlone`), which is why a question never goes past the ceiling.
- `LedgerTellsTheTruth`: `OnHandTellsTheTruth`. What the cases posted of a line is a sum over them in an
  order nobody chose; that such a sum does not depend on it is proved (`SumsExist`, `PostedIsSum`) by
  the smallest subset that is a counterexample, and then one case's posting moves it by what that case
  moved (`PostedMoves`). A report posts what nobody has, since the line was locked and is EXPECTED; a
  correction posts what is missing, since the rest has been posted by whoever.
- `NoStatementIsLost`: `SomebodyHasIt`, from `StillInterpreted`, a plan alone does not carry a statement,
  and `WaitsForSomebody`, an answer takes its question's place only together with the step that reads it.
- `LinesSettleAsAttested`: `SettledAsAttested`, an action property, from what a statement may conclude
  (`Concluded`) of the lines as they were read, and that since then none has opened (`ExecutesWhatItRead`).

`PromiseGraph_proofs.tla`, for any snapshot, orders, claims, substitutes and deliveries, from
`GraphAssumption`.

- `NothingIsServedTwice`, `TheFirstAreServedFirst`: what `Allocate` hands out. That a sum does not depend
  on the order its elements are taken in is proved as in `Intake_proofs` (`TotalIsSum`); that the greedy
  loop is a function at all, by recursion along a finite order (`DefinedAlong`, by the first place where it
  fails), and then what holds of the claims ahead of one holds of it (`Beginnings`).
- `OptionsCanBeHadTogether`: `Analysis` looks at one promise at a time. The claims ahead of a promise once
  the options are applied are found, each with its need and its start, among those it was looked at with
  (`FoundIn`), and whoever has fewer ahead finds no less (`FewerAheadTakeLess`): the reservations that go
  away only help, and of the chosen only those that outrank it start before it.

`GraphRecovery_proofs.tla`, for any cases, reports and bounds, from that and `RecoveryAssumption`.

- `Inductive`: the graph is one of `Snapshots`, and every step that is due finds its track as it expects it
  (`Fits`): at most one step of a promise, an application only of a track with an option, none of a yes
  before it is looked at. Without it a mirror could pin an order to nothing, and `TypeCorrect` is not
  inductive. `SettleKeeps` is what every execution has in common, `StepDone` what one step leaves.
- `ServedByTheSchedule`: `AllocatedByTheSchedule`, from the two theorems about `Allocate`.
- `NoneToPartition`: `RecoverableHasItsOption`: `Drift` compares the class, and a fresh verdict has an option
  just when its class is recoverable (`AnalysisOffers`).
- `PlansFit`: the action property `PlanFits`: only `PlanRecovery` takes a case from ANALYZED to PLANNED
  (`OnlyThePlanPlans`), and what it writes is the analysis of that very snapshot (`PlanWrites`).

**Left to TLC.** Liveness (`EveryStepSettles`, `PlannedEnds`, `WaitingEnds`, `RoundEnds`,
`EveryEffectSettles`, `EveryEventSettles`, `EveryEventIsHeard`, and the arrival `MirrorFollows` adds to
the safety proved) is out of the prover's reach. Every other property of a passing run is a theorem.

## 5. Where the code and its own words disagree

Three are runs that TLC ends with a counterexample; `PROJECT.json` quotes the line.

1. `case_all_blocked` - a confirmed plan with nothing to apply and nobody to ask leaves its case
   in EXECUTING: its one step acts only in RECONCILING.
2. `case_early_yes` - a yes read before the delivery report is never checked, and no deadline runs.
3. `graph_counted_twice` - check five adds the claims of recovered tracks to reservations the mirror
   has already rewritten for them, and refuses a customer's yes for want of units that are there.
   The re-plan, which does not add them, asks the same customer again.

The models reach others, which no run singles out.

- *Ledger and outbox.* A step taken over from dead or raising workers is claimed without bound:
  `MAX_ATTEMPTS` binds only a handler that asks to retry. A dispatcher that refuses an effect after
  losing its lease stops its worker (`outbox.py:481`): the fence is expected around the record of an
  answer and not around that of a refusal.
- *Case.* A case waits on one customer with another's approved change unsettled, and that change is
  then skipped, against ADR-0025. A reconciliation that runs beside one unsettled incidental step is
  not repeated, and the case stays in RECONCILING (`revalidation.py:1126` and `1137`). The deadline
  step of a confirmed plan escalates the plan that replaced it (`recovery.py:1803`). `RoundEnds`
  excepts a check that was given up on (`failed`): that case stays in REVALIDATING with its owner
  told. Re-analysis after a correction while EXECUTING takes the case back to INTERPRETING
  (`interpretation.py:448`) and sets its tracks anew.
- *Withdrawal.* It reads what was applied before what is unsent (`withdrawal.py:318`): an amendment
  claimed in between is in neither list, and the case is CANCELLED while its order is amended.
  Standing down unsent effects names a column that does not exist (`withdrawal.py:633`). A step
  claimed before the withdrawal may take the case out of CANCELLED: `RESOLVE_OBSERVATION` has no
  guard on its state (`physical.py:203`, against `withdrawal.py:107`). `WithdrawnStaysStopped` is
  therefore of `CaseWorkflow`, which starts at the plan.
- *Intake and analysis.* A plan superseded by what another case settled is not followed by a fresh
  analysis (`analysis.py:1072`), and the case stays in ANALYZED: `RecoverableHasItsOption` is the
  safe half, that no plan is written of a world that is gone. A correction of a line whose
  quantity nobody counted posts nothing (`physical.py:1322`). Two reports hydrated before either
  locks record scopes that differ from what they settle (`physical.py:844`).
- *Mirror.* Two workers on one record may each leave a verdict of it, the slower one a rejection
  (`_reject`) of what the other has applied.
- *Graph.* A fingerprint has no other order's reservations, so two cases may recover onto the same
  units (in part disclosed in ADR-0024); check five ignores siblings that are APPLYING and not yet
  mirrored; any posting to a watched ingredient between a plan and its checked yes hands the promise
  to the owner when it is applied; a candidate that starts earlier displaces later reservations of
  promises nobody looks at; LINKED is terminal and is not looked at again when the other case's
  track fails.

## 6. Plan

In this order.

1. Plan approval: an approval of one plan's identity consumed by one confirmation.
2. The equipment half of the promise graph, recipes of several ingredients, and the kitchen's holds.

## 7. Not modelled

Text: verbalisation, explanations, message wording, and of interpretation everything but what it
concludes. Reports of stock and of equipment in `Intake` (`GraphRecovery` has those of stock).
Human approval of a plan, which is next in the plan. Of the promise graph: equipment, tasks the
kitchen has begun, overdue deliveries (there is no clock), orders of several lines and recipes of
several ingredients. Task holds, here and in withdrawal. Read models, sessions, the MCP server and
the orchestrator, which write only through the commands above. HTTP clients beyond their outcome,
signatures. A worker with no order system's client, which rejects every gap
(`order_mirror.py:383`, `worker.py:430`). The outcome UNAUTHORIZED of a check
(`revalidation.py:857`): the reply was checked against the channel when it arrived, so only a record
corrupted since reaches it. PostgreSQL itself: row locks, `SKIP LOCKED`, unique keys and atomic commit are assumed.
Semantic providers, beyond an answer that comes, is refused or never comes. Fixtures, provisioning,
evaluation scripts and deployment, which run with the system stopped.
