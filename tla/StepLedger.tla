----------------------------- MODULE StepLedger -----------------------------
(***************************************************************************)
(* The durable step ledger: domain/steps.py and domain/retry.py, driven by *)
(* the loop of worker.py.  Workers claim rows of case_steps under a lease, *)
(* re-prove the claim under the row's lock, take the case's lock, run the  *)
(* step's handler and commit its outcome or nothing.  What a handler       *)
(* decides is left open: any disposition, any of the step's successors.    *)
(* Deadlines, inbound messages and a withdrawal write rows of the same     *)
(* case from outside.  A worker may die, or a preparation beside its loop  *)
(* may raise, between any two steps.                                       *)
(***************************************************************************)
EXTENDS Naturals, FiniteSets

CONSTANTS Workers,        \* worker identities
          Steps,          \* every row case_steps may ever hold, by step_key
          Cases,
          CaseOf,         \* case_steps.case_id
          SemanticSteps,  \* steps of a SEMANTIC_KINDS kind
          Successors,     \* the steps a handler's outcome may enqueue
          InitialSteps,   \* enqueued when the case is opened
          WakeUps,        \* steps a fired deadline or an inbound message enqueues
          ClosingSteps,   \* steps a withdrawal of the case enqueues
          MaxAttempts,    \* retry.MAX_ATTEMPTS
          DeferredLimit,  \* worker.DEFERRED_SEMANTIC_LIMIT
          MaxLosses,      \* bound: claims lost to deaths, to errors or to slowness
          NoWorker,       \* no lease_owner, or an unlocked row
          Unlocked        \* an unlocked case row

ASSUME LedgerAssumption ==
    /\ CaseOf \in [Steps -> Cases]
    /\ Successors \in [Steps -> SUBSET Steps]
    /\ ClosingSteps \in [Cases -> SUBSET Steps]
    /\ SemanticSteps \subseteq Steps
    /\ InitialSteps \subseteq Steps
    /\ WakeUps \subseteq Steps
    /\ MaxAttempts \in Nat \ {0}
    /\ DeferredLimit \in Nat
    /\ MaxLosses \in Nat
    /\ NoWorker \notin Workers
    /\ Unlocked \notin Steps

ASSUME SameCaseAssumption ==
    /\ \A s \in Steps : \A t \in Successors[s] : CaseOf[t] = CaseOf[s]
    /\ \A c \in Cases : \A t \in ClosingSteps[c] : CaseOf[t] = c

VARIABLES state,      \* case_steps.state; "ABSENT" before the row exists
          attempts,   \* case_steps.attempts, the fencing token
          owner,      \* case_steps.lease_owner
          expired,    \* steps whose lease_expires_at has passed
          delayed,    \* steps whose next_attempt_at is still ahead
          token,      \* the attempt of the claim a worker holds in memory; 0: none
          rowLock,    \* the worker whose transaction holds the step's row lock
          caseLock,   \* the step whose execution holds the case's row lock
          version,    \* cases.version
          attention,  \* cases whose needs_owner_attention is set
          events,     \* step events appended per step by committed transitions
          withdrawn,  \* cases with a withdrawal on record; bounded by one each
          losses      \* claims lost or outlived so far; bounded by MaxLosses

row    == <<state, attempts, owner, expired, delayed>>
locks  == <<rowLock, caseLock>>
record == <<version, attention, events, withdrawn>>
vars   == <<row, token, locks, record, losses>>

Claimable    == {"PENDING", "RETRYING"}
Unsettled    == Claimable \cup {"IN_FLIGHT"}
Settled      == {"DONE", "SKIPPED", "FAILED"}
Dispositions == Settled

TypeOK ==
    /\ state \in [Steps -> {"ABSENT"} \cup Unsettled \cup Settled]
    /\ attempts \in [Steps -> Nat]
    /\ owner \in [Steps -> Workers \cup {NoWorker}]
    /\ expired \subseteq Steps
    /\ delayed \subseteq Steps
    /\ token \in [Workers -> [Steps -> Nat]]
    /\ rowLock \in [Steps -> Workers \cup {NoWorker}]
    /\ caseLock \in [Cases -> Steps \cup {Unlocked}]
    /\ version \in [Cases -> Nat]
    /\ attention \subseteq Cases
    /\ events \in [Steps -> Nat]
    /\ withdrawn \subseteq Cases
    /\ losses \in 0..MaxLosses

Init ==
    /\ state = [s \in Steps |-> IF s \in InitialSteps THEN "PENDING" ELSE "ABSENT"]
    /\ attempts = [s \in Steps |-> 0]
    /\ owner = [s \in Steps |-> NoWorker]
    /\ expired = {}
    /\ delayed = {}
    /\ token = [w \in Workers |-> [s \in Steps |-> 0]]
    /\ rowLock = [s \in Steps |-> NoWorker]
    /\ caseLock = [c \in Cases |-> Unlocked]
    /\ version = [c \in Cases |-> 0]
    /\ attention = {}
    /\ events = [s \in Steps |-> 0]
    /\ withdrawn = {}
    /\ losses = 0

-----------------------------------------------------------------------------
(* Claiming: steps.claim_step, called by Worker._execute_one_step.         *)

\* [mutant] the sweep never looks at rows whose lease has run out.
EligibleWhenDue(s) == state[s] \in Claimable /\ s \notin delayed

\* Due work, or an in-flight row whose lease has run out.
Eligible(s) ==
    \/ state[s] \in Claimable /\ s \notin delayed
    \/ state[s] = "IN_FLIGHT" /\ s \in expired

\* Semantic steps run beside the loop; anything else is the loop's one step.
Deferred(w) == {s \in SemanticSteps : token[w][s] > 0}
InCycle(w)  == {s \in Steps \ SemanticSteps : token[w][s] > 0}

\* [mutant] the loop forgets which cases its deferred preparations hold.
ExcludedByKindOnly(w, s) ==
    s \in SemanticSteps /\ Cardinality(Deferred(w)) >= DeferredLimit

\* exclude_cases and exclude_kinds: what this process will not take now.
Excluded(w, s) ==
    \/ \E d \in Deferred(w) : CaseOf[d] = CaseOf[s]
    \/ s \in SemanticSteps /\ Cardinality(Deferred(w)) >= DeferredLimit

NextAttempt(s) == attempts[s] + 1

ClaimStep(w, s) ==
    /\ InCycle(w) = {}
    /\ Eligible(s)
    /\ ~Excluded(w, s)
    /\ rowLock[s] = NoWorker                   \* FOR UPDATE SKIP LOCKED
    /\ state' = [state EXCEPT ![s] = "IN_FLIGHT"]
    /\ attempts' = [attempts EXCEPT ![s] = NextAttempt(s)]
    /\ owner' = [owner EXCEPT ![s] = w]
    /\ expired' = expired \ {s}
    /\ delayed' = delayed \ {s}
    /\ token' = [token EXCEPT ![w][s] = NextAttempt(s)]
    /\ UNCHANGED <<locks, record, losses>>

-----------------------------------------------------------------------------
(* Executing one claim: steps.execute_step.                                *)

\* [mutant] the fence asks only whether the row is still in flight.
RowIsInFlight(w, s) == state[s] = "IN_FLIGHT"

\* The predicate _fence tests under the row lock and _settle repeats.
ClaimDescribesRow(w, s) ==
    /\ state[s] = "IN_FLIGHT"
    /\ owner[s] = w
    /\ attempts[s] = token[w][s]

\* The row is locked and still says what the claim says.
Fence(w, s) ==
    /\ token[w][s] > 0
    /\ rowLock[s] = NoWorker
    /\ ClaimDescribesRow(w, s)
    /\ rowLock' = [rowLock EXCEPT ![s] = w]
    /\ UNCHANGED <<row, token, caseLock, record, losses>>

\* LeaseLostError: reclaimed or already settled, so nothing is written.
Fenced(w, s) ==
    /\ token[w][s] > 0
    /\ rowLock[s] = NoWorker
    /\ ~ClaimDescribesRow(w, s)
    /\ token' = [token EXCEPT ![w][s] = 0]
    /\ UNCHANGED <<row, locks, record, losses>>

LockCase(w, s) ==
    /\ rowLock[s] = w
    /\ caseLock[CaseOf[s]] = Unlocked
    /\ caseLock' = [caseLock EXCEPT ![CaseOf[s]] = s]
    /\ UNCHANGED <<row, token, rowLock, record, losses>>

Executing(w, s) == rowLock[s] = w /\ caseLock[CaseOf[s]] = s

\* COMMIT or ROLLBACK of an execution, after which the worker forgets its claim.
EndTransaction(w, s) ==
    /\ rowLock' = [rowLock EXCEPT ![s] = NoWorker]
    /\ caseLock' = [caseLock EXCEPT ![CaseOf[s]] = Unlocked]
    /\ token' = [token EXCEPT ![w][s] = 0]

\* [mutant] the insert revives a row that exists: ON CONFLICT DO UPDATE.
WithRevived(old, new) == [t \in Steps |-> IF t \in new THEN "PENDING" ELSE old[t]]

\* enqueue_step: ON CONFLICT (case_id, step_key) DO NOTHING.
WithEnqueued(old, new) ==
    [t \in Steps |-> IF t \in new /\ old[t] = "ABSENT" THEN "PENDING" ELSE old[t]]

\* _commit_transition: case, successors, the settled step and its event at once.
CommitTransition(w, s, disposition, successors) ==
    /\ Executing(w, s)
    /\ ClaimDescribesRow(w, s)
    /\ state' = [WithEnqueued(state, successors) EXCEPT ![s] = disposition]
    /\ owner' = [owner EXCEPT ![s] = NoWorker]
    /\ expired' = expired \ {s}
    /\ version' = [version EXCEPT ![CaseOf[s]] = @ + 1]
    /\ attention' = IF disposition = "FAILED"
                    THEN attention \cup {CaseOf[s]} ELSE attention
    /\ events' = [events EXCEPT ![s] = @ + 1]
    /\ EndTransaction(w, s)
    /\ UNCHANGED <<attempts, delayed, withdrawn, losses>>

\* retry.is_exhausted: this attempt was the last the policy permits.
Exhausted(attempt) == attempt >= MaxAttempts

\* The handler ran to an outcome that settles the step.
HandlerSettles(w, s) ==
    \E disposition \in Dispositions, successors \in SUBSET Successors[s] :
        CommitTransition(w, s, disposition, successors)

\* The handler said RETRYING below the bound: a later time, and nothing else.
ScheduleRetry(w, s) ==
    /\ Executing(w, s)
    /\ ClaimDescribesRow(w, s)
    /\ ~Exhausted(token[w][s])
    /\ state' = [state EXCEPT ![s] = "RETRYING"]
    /\ owner' = [owner EXCEPT ![s] = NoWorker]
    /\ expired' = expired \ {s}
    /\ delayed' = delayed \cup {s}
    /\ EndTransaction(w, s)
    /\ UNCHANGED <<attempts, record, losses>>

\* The handler said RETRYING at the bound: the terminal, audited path.
GiveUp(w, s) ==
    /\ Exhausted(token[w][s])
    /\ CommitTransition(w, s, "FAILED", {})

-----------------------------------------------------------------------------
(* The database clock, the outside world, and everything that goes wrong.  *)

\* Somebody still means to execute the claim the row describes.
ClaimIsAlive(s) == \E w \in Workers : token[w][s] > 0 /\ ClaimDescribesRow(w, s)

\* A dead claim's lease always runs out; a slow worker outlives its own, boundedly.
LeaseRunsOut(s) ==
    /\ state[s] = "IN_FLIGHT"
    /\ s \notin expired
    /\ \/ ~ClaimIsAlive(s) /\ UNCHANGED losses
       \/ losses < MaxLosses /\ losses' = losses + 1
    /\ expired' = expired \cup {s}
    /\ UNCHANGED <<state, attempts, owner, delayed, token, locks, record>>

RetryFallsDue(s) ==
    /\ s \in delayed
    /\ delayed' = delayed \ {s}
    /\ UNCHANGED <<state, attempts, owner, expired, token, locks, record, losses>>

\* timers.fire_due_timer, inbox.process_one: the insert's foreign key waits for the case.
EnqueueWakeUp(s) ==
    /\ s \in WakeUps
    /\ state[s] = "ABSENT"
    /\ caseLock[CaseOf[s]] = Unlocked
    /\ state' = [state EXCEPT ![s] = "PENDING"]
    /\ UNCHANGED <<attempts, owner, expired, delayed, token, locks, record, losses>>

\* [mutant] steps are given the state the case's tracks get.
StoodDownAsTracks(c) == [s \in Steps |-> IF CaseOf[s] = c /\ state[s] \in Claimable
                                         THEN "WITHDRAWN" ELSE state[s]]

\* [mutant] every row not settled is stood down, a claimed one too.
StoodDownClaimedToo(c) == [s \in Steps |-> IF CaseOf[s] = c /\ state[s] \in Unsettled
                                           THEN "SKIPPED" ELSE state[s]]

\* _stand_down_steps: the rows nobody has claimed are SKIPPED.
StoodDown(c) == [s \in Steps |-> IF CaseOf[s] = c /\ state[s] \in Claimable
                                 THEN "SKIPPED" ELSE state[s]]

\* withdrawal._withdraw, under the case's lock; reconciling work may be left to do.
Withdraw(c) ==
    /\ c \notin withdrawn
    /\ caseLock[c] = Unlocked
    /\ \E closing \in {{}, ClosingSteps[c]} :
         state' = WithEnqueued(StoodDown(c), closing)
    /\ version' = [version EXCEPT ![c] = @ + 1]
    /\ attention' \in {attention, attention \cup {c}}
    /\ withdrawn' = withdrawn \cup {c}
    /\ UNCHANGED <<attempts, owner, expired, delayed, token, locks, events, losses>>

\* The database rolls back what the worker was executing; the claims are gone.
Forget(w, lost) ==
    /\ rowLock' = [s \in Steps |-> IF s \in lost /\ rowLock[s] = w
                                   THEN NoWorker ELSE rowLock[s]]
    /\ caseLock' = [c \in Cases |-> IF \E s \in lost : caseLock[c] = s /\ rowLock[s] = w
                                    THEN Unlocked ELSE caseLock[c]]
    /\ token' = [token EXCEPT ![w] = [s \in Steps |-> IF s \in lost THEN 0 ELSE @[s]]]

\* A deferred preparation raised, or a database error ended the cycle: the claim is
\* forgotten and its process carries on.
LoseClaim(w, s) ==
    /\ token[w][s] > 0
    /\ losses < MaxLosses
    /\ losses' = losses + 1
    /\ Forget(w, {s})
    /\ UNCHANGED <<row, record>>

\* The process dies, at any of crash.py's boundaries, and starts again.
WorkerDies(w) ==
    /\ \E s \in Steps : token[w][s] > 0
    /\ losses < MaxLosses
    /\ losses' = losses + 1
    /\ Forget(w, Steps)
    /\ UNCHANGED <<row, record>>

-----------------------------------------------------------------------------
Next ==
    \/ \E w \in Workers, s \in Steps :
         \/ ClaimStep(w, s)
         \/ Fence(w, s)
         \/ Fenced(w, s)
         \/ LockCase(w, s)
         \/ HandlerSettles(w, s)
         \/ ScheduleRetry(w, s)
         \/ GiveUp(w, s)
         \/ LoseClaim(w, s)
    \/ \E s \in Steps :
         \/ LeaseRunsOut(s)
         \/ RetryFallsDue(s)
         \/ EnqueueWakeUp(s)
    \/ \E c \in Cases : Withdraw(c)
    \/ \E w \in Workers : WorkerDies(w)

Spec == Init /\ [][Next]_vars

\* A running worker keeps cycling and the database's clock keeps moving; nothing
\* makes a worker die, a deadline fire or a withdrawal arrive.
Fairness ==
    /\ \A w \in Workers, s \in Steps :
         /\ WF_vars(Fence(w, s))
         /\ WF_vars(Fenced(w, s))
         /\ SF_vars(LockCase(w, s))
         /\ WF_vars(HandlerSettles(w, s) \/ ScheduleRetry(w, s) \/ GiveUp(w, s))
    /\ \A w \in Workers : WF_vars(\E s \in Steps : ClaimStep(w, s))
    /\ \A s \in Steps : WF_vars(LeaseRunsOut(s)) /\ WF_vars(RetryFallsDue(s))

FairSpec == Spec /\ Fairness

-----------------------------------------------------------------------------
(* Safety.                                                                 *)

\* The promise of the fencing token (steps.StepClaim, steps._fence): a claim the
\* row has moved past - reclaimed by another worker, or settled from outside while
\* its worker was slow - is never the one inside an execution transaction.
SupersededClaimNeverExecutes ==
    \A w \in Workers, s \in Steps :
        rowLock[s] = w =>
            state[s] = "IN_FLIGHT" /\ owner[s] = w /\ attempts[s] = token[w][s]

\* Two claims to one step never carry the same token, so the fence can always tell
\* a reclaimed step's two workers apart (steps.claim_step increments attempts).
TokensAreUnique ==
    \A v, w \in Workers, s \in Steps :
        token[v][s] > 0 /\ token[v][s] = token[w][s] => v = w

\* A step's transition commits at most once, an unsettled step has committed none,
\* and a step settled without one was stood down by a withdrawal.
CommittedOnce ==
    \A s \in Steps :
        /\ events[s] <= 1
        /\ events[s] = 1 => state[s] \in Settled
        /\ state[s] \in Settled /\ events[s] = 0 => CaseOf[s] \in withdrawn

\* One process never works on two steps of one case, however its loop and its
\* deferred preparations interleave (worker.Worker._deferred, claim_step's exclusions).
OneStepOfACasePerProcess ==
    \A w \in Workers, s, t \in Steps :
        token[w][s] > 0 /\ token[w][t] > 0 /\ CaseOf[s] = CaseOf[t] => s = t

\* A claimed step settles itself (withdrawal.UNSETTLED_STEP_STATES): neither a
\* withdrawal, nor a deadline, nor another claim's fence takes a row out of IN_FLIGHT
\* from outside an execution that holds both its lock and its case's.
ClaimedStepSettlesItself ==
    [][\A s \in Steps :
         state[s] = "IN_FLIGHT" /\ state'[s] # "IN_FLIGHT" =>
             rowLock[s] # NoWorker /\ caseLock[CaseOf[s]] = s]_vars

(* Liveness, under FairSpec.                                               *)

\* Whatever dies on the way, an enqueued step is settled in the end.
EveryStepSettles ==
    \A s \in Steps : state[s] \in Unsettled ~> state[s] \in Settled

-----------------------------------------------------------------------------
(* The ledger implements OnceLedger: claims, fences, retries, expiries and *)
(* deaths are stutters.                                                    *)

Status == [s \in Steps |-> IF state[s] = "ABSENT" THEN "absent"
                          ELSE IF state[s] \in Unsettled THEN "open" ELSE "settled"]

Once == INSTANCE OnceLedger WITH status <- Status, edition <- version

\* Every step is settled once, together with what it plans and with its case's next
\* version: the abstract ledger's specification, which reads as steps.py's promise
\* that a transition is persisted whole or not at all.
LedgerIsOnce == Once!Spec
=============================================================================
