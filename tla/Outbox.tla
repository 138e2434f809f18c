------------------------------- MODULE Outbox -------------------------------
(***************************************************************************)
(* The effects a transition decided on, on their way out: domain/outbox.py *)
(* with the two gates of recovery.py and approvals.py.  A dispatcher       *)
(* commits its claim, asks whether the effect is still worth sending,      *)
(* calls the provider with no transaction open and records the answer in   *)
(* another, fenced by the claim.  Anything may happen between any two of   *)
(* those: the clock moves, the lease runs out and somebody else claims the *)
(* row, the provider acts and its answer is lost, the dispatcher dies.     *)
(***************************************************************************)
EXTENDS Naturals

CONSTANTS Dispatchers, \* worker identities
          Effects,     \* outbox_messages, by idempotency key
          Amendments,  \* those of kind ORDER_AMEND
          Questions,   \* messages that carry a request_id
          Continuing,  \* effects whose payload names continuations
          MaxAttempts, \* retry.MAX_ATTEMPTS
          MaxLosses,   \* bound: claims lost to a death or outlived by a slow dispatcher
          Nobody,      \* no lease_owner
          NoEffect     \* a dispatcher that holds no claim

ASSUME OutboxAssumption ==
    /\ Amendments \subseteq Effects
    /\ Questions \subseteq Effects
    /\ Amendments \cap Questions = {}
    /\ Continuing \subseteq Effects
    /\ MaxAttempts \in Nat \ {0}
    /\ MaxLosses \in Nat
    /\ Nobody \notin Dispatchers
    /\ NoEffect \notin Effects

VARIABLES state,     \* outbox_messages.state; "ABSENT" before the row exists
          attempts,  \* outbox_messages.attempts, the fencing token
          owner,     \* outbox_messages.lease_owner
          expired,   \* effects whose lease_expires_at has passed
          delayed,   \* effects whose next_attempt_at is still ahead
          error,     \* what last_error says of the sending
          continued, \* the continuation steps enqueued, by effect and answer
          told,      \* effects whose failure set its case's needs_owner_attention
          effect,    \* the effect of the claim a dispatcher holds
          token,     \* and its attempt
          stage,     \* how far the dispatcher is with it
          late,      \* effects whose window closed or whose production started
          sent,      \* the attempts under which the provider was called, per effect
          losses     \* claims lost or outlived so far

row     == <<state, attempts, owner, expired, delayed, error>>
claim   == <<effect, token, stage>>
outcome == <<continued, told>>
world   == <<late, sent>>
vars    == <<row, claim, outcome, world, losses>>

Settled == {"DELIVERED", "FAILED"}
Answers == {"DELIVERED", "RETRYABLE", "TERMINAL", "REFUSED"}

TypeOK ==
    /\ state \in [Effects -> {"ABSENT", "PENDING", "IN_FLIGHT"} \cup Settled]
    /\ attempts \in [Effects -> Nat]
    /\ owner \in [Effects -> Dispatchers \cup {Nobody}]
    /\ expired \subseteq Effects
    /\ delayed \subseteq Effects
    /\ error \in [Effects -> {"NONE", "PROVIDER", "UNSENT", "MAYBE_SENT"}]
    /\ continued \subseteq Effects \X Settled
    /\ told \subseteq Effects
    /\ effect \in [Dispatchers -> Effects \cup {NoEffect}]
    /\ token \in [Dispatchers -> Nat]
    /\ stage \in [Dispatchers -> {"IDLE", "CLAIMED", "SENDING", "STOPPED"} \cup Answers]
    /\ late \subseteq Effects
    /\ sent \in [Effects -> SUBSET Nat]
    /\ losses \in 0..MaxLosses

Init ==
    /\ state = [e \in Effects |-> "ABSENT"]
    /\ attempts = [e \in Effects |-> 0]
    /\ owner = [e \in Effects |-> Nobody]
    /\ expired = {}
    /\ delayed = {}
    /\ error = [e \in Effects |-> "NONE"]
    /\ continued = {}
    /\ told = {}
    /\ effect = [d \in Dispatchers |-> NoEffect]
    /\ token = [d \in Dispatchers |-> 0]
    /\ stage = [d \in Dispatchers |-> "IDLE"]
    /\ late = {}
    /\ sent = [e \in Effects |-> {}]
    /\ losses = 0

-----------------------------------------------------------------------------
(* Enqueuing and claiming: enqueue_effect, claim_effect.                   *)

\* In the transaction that decided on it; its key is unique.
EnqueueEffect(e) ==
    /\ state[e] = "ABSENT"
    /\ state' = [state EXCEPT ![e] = "PENDING"]
    /\ UNCHANGED <<attempts, owner, expired, delayed, error, claim, outcome, world, losses>>

\* [mutant] the sweep looks at what is due and at no lease.
ClaimableWhenDue(e) == state[e] = "PENDING" /\ e \notin delayed

Claimable(e) ==
    \/ state[e] = "PENDING" /\ e \notin delayed
    \/ state[e] = "IN_FLIGHT" /\ e \in expired

\* [mutant] a lease taken over is the same attempt carried on.
AttemptUnlessTakeover(e) ==
    IF state[e] = "IN_FLIGHT" THEN attempts[e] ELSE attempts[e] + 1

NextAttempt(e) == attempts[e] + 1

\* The claim commits before anything is sent.
ClaimEffect(d, e) ==
    /\ stage[d] = "IDLE"
    /\ Claimable(e)
    /\ state' = [state EXCEPT ![e] = "IN_FLIGHT"]
    /\ attempts' = [attempts EXCEPT ![e] = NextAttempt(e)]
    /\ owner' = [owner EXCEPT ![e] = d]
    /\ expired' = expired \ {e}
    /\ delayed' = delayed \ {e}
    /\ effect' = [effect EXCEPT ![d] = e]
    /\ token' = [token EXCEPT ![d] = NextAttempt(e)]
    /\ stage' = [stage EXCEPT ![d] = "CLAIMED"]
    /\ UNCHANGED <<error, outcome, world, losses>>

-----------------------------------------------------------------------------
(* Sending: _still_worth_sending, then the adapter's deliver.              *)

\* refuse_if_window_closed on every claim, refuse_if_production_started on the first.
WorthSending(e, attempt) ==
    \/ e \notin late
    \/ e \notin Questions \cup Amendments
    \/ e \in Amendments /\ attempt # 1

AskWhetherToSend(d) ==
    /\ stage[d] = "CLAIMED"
    /\ stage' = [stage EXCEPT ![d] = IF WorthSending(effect[d], token[d]) THEN "SENDING"
                                                                          ELSE "REFUSED"]
    /\ UNCHANGED <<row, effect, token, outcome, world, losses>>

\* The call leaves, and the adapter says accepted, uncertain (no answer, or a server's
\* error) or refused. OrderSync says what an order system does behind the answer.
Deliver(d) ==
    /\ stage[d] = "SENDING"
    /\ sent' = [sent EXCEPT ![effect[d]] = @ \cup {token[d]}]
    /\ \E answer \in {"DELIVERED", "RETRYABLE", "TERMINAL"} :
          stage' = [stage EXCEPT ![d] = answer]
    /\ UNCHANGED <<row, effect, token, outcome, late, losses>>

-----------------------------------------------------------------------------
(* Recording: record_delivery, each settlement fenced by _settle.          *)

ClaimDescribesRow(d) ==
    /\ state[effect[d]] = "IN_FLIGHT"
    /\ owner[effect[d]] = d
    /\ attempts[effect[d]] = token[d]

Exhausted(attempt) == attempt >= MaxAttempts

\* The dispatcher is done with its claim, one way or the other.
EndClaim(d, next) ==
    /\ stage' = [stage EXCEPT ![d] = next]
    /\ effect' = [effect EXCEPT ![d] = NoEffect]
    /\ token' = [token EXCEPT ![d] = 0]

Settle(d, to) ==
    /\ ClaimDescribesRow(d)
    /\ state' = [state EXCEPT ![effect[d]] = to]
    /\ owner' = [owner EXCEPT ![effect[d]] = Nobody]
    /\ expired' = expired \ {effect[d]}
    /\ EndClaim(d, "IDLE")
    /\ UNCHANGED <<attempts, world, losses>>

\* [mutant] the continuation that is enqueued is always the one for a success.
ContinueDelivered(e, on) == continued' = continued \cup {<<e, "DELIVERED">>}

\* _continue: the step the payload names for this answer, if it names one.
Continue(e, on) ==
    continued' = IF e \in Continuing THEN continued \cup {<<e, on>>} ELSE continued

RecordDelivered(d) ==
    /\ stage[d] = "DELIVERED"
    /\ Settle(d, "DELIVERED")
    /\ error' = [error EXCEPT ![effect[d]] = "NONE"]
    /\ Continue(effect[d], "DELIVERED")
    /\ UNCHANGED <<delayed, told>>

\* Back to PENDING, under the same key.
RecordRetry(d) ==
    /\ stage[d] = "RETRYABLE"
    /\ ~Exhausted(token[d])
    /\ Settle(d, "PENDING")
    /\ error' = [error EXCEPT ![effect[d]] = "PROVIDER"]
    /\ delayed' = delayed \cup {effect[d]}
    /\ UNCHANGED outcome

\* [mutant] a refusal leaves a provider's status on the row.
RefusalAsStatus(attempt) == "TERMINAL"

\* [mutant] a message that was not sent by this attempt was not sent.
RefusalAsUnsent(attempt) == "UNSENT"

\* Only the first claim of an effect knows that no call was made.
Refusal(attempt) == IF attempt = 1 THEN "UNSENT" ELSE "MAYBE_SENT"

\* Refused unsent, refused by the provider, or out of attempts: the owner is told.
RecordTerminal(d) ==
    /\ \/ stage[d] \in {"REFUSED", "TERMINAL"}
       \/ stage[d] = "RETRYABLE" /\ Exhausted(token[d])
    /\ Settle(d, "FAILED")
    /\ error' = [error EXCEPT ![effect[d]] =
                    IF stage[d] = "REFUSED" THEN Refusal(token[d]) ELSE "PROVIDER"]
    /\ Continue(effect[d], "FAILED")
    /\ told' = told \cup {effect[d]}
    /\ UNCHANGED delayed

\* EffectLeaseLostError: nothing is written. dispatch_one expects it of an answer; of a
\* refusal it does not, and the error ends the worker's process.
Fenced(d) ==
    /\ stage[d] \in Answers
    /\ ~ClaimDescribesRow(d)
    /\ EndClaim(d, IF stage[d] = "REFUSED" THEN "STOPPED" ELSE "IDLE")
    /\ UNCHANGED <<row, outcome, world, losses>>

-----------------------------------------------------------------------------
(* The clocks, and everything that goes wrong.                             *)

\* A deadline or a production start passes, or the question is decided.
BecomesLate(e) ==
    /\ e \in (Questions \cup Amendments) \ late
    /\ state[e] # "ABSENT"
    /\ late' = late \cup {e}
    /\ UNCHANGED <<row, claim, outcome, sent, losses>>

\* Somebody still means to settle the claim the row describes.
ClaimIsAlive(e) == \E d \in Dispatchers : effect[d] = e /\ ClaimDescribesRow(d)

\* A dead claim's lease always runs out; a slow dispatcher outlives its own, boundedly.
LeaseRunsOut(e) ==
    /\ state[e] = "IN_FLIGHT"
    /\ e \notin expired
    /\ \/ ~ClaimIsAlive(e) /\ UNCHANGED losses
       \/ losses < MaxLosses /\ losses' = losses + 1
    /\ expired' = expired \cup {e}
    /\ UNCHANGED <<state, attempts, owner, delayed, error, claim, outcome, world>>

RetryFallsDue(e) ==
    /\ e \in delayed
    /\ delayed' = delayed \ {e}
    /\ UNCHANGED <<state, attempts, owner, expired, error, claim, outcome, world, losses>>

\* AFTER_OUTBOX_CLAIM, AFTER_EXTERNAL_SUCCESS, or a database error in between.
DispatcherDies(d) ==
    /\ effect[d] # NoEffect
    /\ losses < MaxLosses
    /\ losses' = losses + 1
    /\ EndClaim(d, "STOPPED")
    /\ UNCHANGED <<row, outcome, world>>

\* The container restarts the process.
Restart(d) ==
    /\ stage[d] = "STOPPED"
    /\ stage' = [stage EXCEPT ![d] = "IDLE"]
    /\ UNCHANGED <<row, effect, token, outcome, world, losses>>

Next ==
    \/ \E d \in Dispatchers, e \in Effects : ClaimEffect(d, e)
    \/ \E d \in Dispatchers :
         \/ AskWhetherToSend(d)
         \/ Deliver(d)
         \/ RecordDelivered(d)
         \/ RecordRetry(d)
         \/ RecordTerminal(d)
         \/ Fenced(d)
         \/ DispatcherDies(d)
         \/ Restart(d)
    \/ \E e \in Effects :
         \/ EnqueueEffect(e)
         \/ BecomesLate(e)
         \/ LeaseRunsOut(e)
         \/ RetryFallsDue(e)

Spec == Init /\ [][Next]_vars

\* A running worker keeps cycling, its container restarts it, the database's clock
\* moves and every call is answered or times out; nothing is ever decided, late or dead
\* of necessity.
Fairness ==
    /\ \A d \in Dispatchers :
         /\ WF_vars(\E e \in Effects : ClaimEffect(d, e))
         /\ WF_vars(AskWhetherToSend(d) \/ Deliver(d))
         /\ WF_vars(RecordDelivered(d) \/ RecordRetry(d) \/ RecordTerminal(d) \/ Fenced(d))
         /\ WF_vars(Restart(d))
    /\ \A e \in Effects : WF_vars(LeaseRunsOut(e)) /\ WF_vars(RetryFallsDue(e))

FairSpec == Spec /\ Fairness

-----------------------------------------------------------------------------
(* Safety.                                                                 *)

\* An effect recorded as refused before it was sent was never sent, not even by a
\* dispatcher slow enough to be still holding an older claim: recovery.refused_unsent
\* turns it into PLAN_STALE, a promise to the owner that the order was not touched.
UnsentMeansUnsent == \A e \in Effects : error[e] = "UNSENT" => sent[e] = {}

\* A settled effect enqueued the continuation of its own answer and never the other's,
\* and a failure of it is on the owner's desk (outbox._continue, _record_terminal).
ContinuedOnce ==
    \A e \in Effects :
        /\ \A on \in Settled :
             <<e, on>> \in continued <=> e \in Continuing /\ state[e] = on
        /\ e \in told <=> state[e] = "FAILED"

\* Each claim calls the provider once at most, so the row's attempts bound the copies a
\* provider without idempotency keys makes (integrations/telegram.py).
OneCallPerClaim ==
    [][\A d \in Dispatchers :
         stage[d] = "SENDING" /\ stage'[d] \in Answers =>
             token[d] \in (1..attempts[effect[d]]) \ sent[effect[d]]]_vars

\* A settled effect is settled for good: neither a late answer, nor a lease, nor another
\* sweep's claim changes what the row says became of it (outbox.claim_effect, _settle).
SettledForGood ==
    [][\A e \in Effects :
         state[e] \in Settled =>
             /\ state'[e] = state[e]
             /\ attempts'[e] = attempts[e]
             /\ error'[e] = error[e]]_vars

(* Liveness, under FairSpec.                                               *)

\* Whatever dies on the way, an enqueued effect is delivered or failed in the end.
EveryEffectSettles ==
    \A e \in Effects : state[e] = "PENDING" ~> state[e] \in Settled
=============================================================================
