--------------------------- MODULE Outbox_proofs ---------------------------
(***************************************************************************)
(* Theorems about the outbox, for any number of dispatchers, effects,      *)
(* attempts and losses.                                                    *)
(***************************************************************************)
EXTENDS Outbox, TLAPS

Held == {"CLAIMED", "SENDING"} \cup Answers

\* A dispatcher that is somewhere with a claim has the claim of an effect.
ClaimsAreOfEffects == \A d \in Dispatchers : stage[d] \in Held => effect[d] \in Effects

-----------------------------------------------------------------------------
(* Type correctness, which is inductive only with ClaimsAreOfEffects: what *)
(* is recorded is recorded of the effect of a claim.                       *)

Typed == TypeOK /\ ClaimsAreOfEffects

LEMMA TypedInit == Init => Typed
  BY OutboxAssumption DEF Init, Typed, TypeOK, ClaimsAreOfEffects, Held, Settled, Answers

LEMMA TypedStep == Typed /\ [Next]_vars => Typed'
  <1> SUFFICES ASSUME TypeOK, ClaimsAreOfEffects, [Next]_vars
               PROVE  TypeOK' /\ ClaimsAreOfEffects'
    BY DEF Typed
  <1> USE OutboxAssumption
      DEF TypeOK, ClaimsAreOfEffects, Held, row, claim, outcome, world, Settled, Answers
  <1> DEFINE Goal == TypeOK' /\ ClaimsAreOfEffects'
  <1>1. ASSUME NEW d \in Dispatchers, NEW e \in Effects, ClaimEffect(d, e) PROVE Goal
    BY <1>1 DEF ClaimEffect, NextAttempt
  <1>2. ASSUME NEW d \in Dispatchers, AskWhetherToSend(d) PROVE Goal
    BY <1>2 DEF AskWhetherToSend
  <1>3. ASSUME NEW d \in Dispatchers, Deliver(d) PROVE Goal
    <2>1. effect[d] \in Effects /\ token[d] \in Nat
      BY <1>3 DEF Deliver
    <2>2. sent' \in [Effects -> SUBSET Nat]
      BY <1>3, <2>1 DEF Deliver
    <2> QED BY <1>3, <2>1, <2>2 DEF Deliver
  <1>4. ASSUME NEW d \in Dispatchers, NEW next \in {"IDLE", "STOPPED"}, EndClaim(d, next)
        PROVE  /\ effect' \in [Dispatchers -> Effects \cup {NoEffect}]
               /\ token' \in [Dispatchers -> Nat]
               /\ stage' \in [Dispatchers -> {"IDLE", "STOPPED"} \cup Held]
               /\ ClaimsAreOfEffects'
    BY <1>4 DEF EndClaim
  <1>5. ASSUME NEW d \in Dispatchers, NEW to \in {"PENDING"} \cup Settled,
               stage[d] \in Answers, Settle(d, to)
        PROVE  /\ effect[d] \in Effects
               /\ state' \in [Effects -> {"ABSENT", "PENDING", "IN_FLIGHT"} \cup Settled]
               /\ owner' \in [Effects -> Dispatchers \cup {Nobody}]
               /\ expired' \subseteq Effects
               /\ EndClaim(d, "IDLE")
               /\ UNCHANGED <<attempts, world, losses>>
    BY <1>5 DEF Settle
  <1>6. ASSUME NEW d \in Dispatchers, RecordDelivered(d) PROVE Goal
    BY <1>4, <1>5, <1>6 DEF RecordDelivered, Continue
  <1>7. ASSUME NEW d \in Dispatchers, RecordRetry(d) PROVE Goal
    BY <1>4, <1>5, <1>7 DEF RecordRetry
  <1>8. ASSUME NEW d \in Dispatchers, RecordTerminal(d) PROVE Goal
    BY <1>4, <1>5, <1>8 DEF RecordTerminal, Continue, Refusal
  <1>9. ASSUME NEW d \in Dispatchers, Fenced(d) PROVE Goal
    BY <1>4, <1>9 DEF Fenced
  <1>10. ASSUME NEW d \in Dispatchers, DispatcherDies(d) PROVE Goal
    BY <1>4, <1>10 DEF DispatcherDies
  <1>11. ASSUME NEW d \in Dispatchers, Restart(d) PROVE Goal
    BY <1>11 DEF Restart
  <1>12. ASSUME NEW e \in Effects, EnqueueEffect(e) PROVE Goal
    BY <1>12 DEF EnqueueEffect
  <1>13. ASSUME NEW e \in Effects, BecomesLate(e) PROVE Goal
    BY <1>13 DEF BecomesLate
  <1>14. ASSUME NEW e \in Effects, LeaseRunsOut(e) PROVE Goal
    BY <1>14 DEF LeaseRunsOut
  <1>15. ASSUME NEW e \in Effects, RetryFallsDue(e) PROVE Goal
    BY <1>15 DEF RetryFallsDue
  <1>16. CASE UNCHANGED vars
    BY <1>16 DEF vars
  <1> QED
    BY <1>1, <1>2, <1>3, <1>6, <1>7, <1>8, <1>9, <1>10, <1>11, <1>12, <1>13, <1>14,
       <1>15, <1>16 DEF Next

LEMMA AlwaysTyped == Spec => []Typed
  BY TypedInit, TypedStep, PTL DEF Spec

\* Every variable keeps its type, whatever order dispatchers, clocks and deaths run in
\* (outbox.py, the whole of it).
THEOREM OutboxTyped == Spec => []TypeOK
  <1>1. Typed => TypeOK
    BY DEF Typed
  <1> QED BY AlwaysTyped, <1>1, PTL

-----------------------------------------------------------------------------
(* Attempts.  A claim's attempt is new when it is taken, and it is called  *)
(* with at most once, by the one dispatcher that holds it.                 *)

AttemptsAreCounted ==
    /\ \A d \in Dispatchers :
         effect[d] \in Effects => token[d] \in 1..attempts[effect[d]]
    /\ \A e \in Effects : sent[e] \subseteq 1..attempts[e]

ClaimsAreDistinct ==
    \A c, d \in Dispatchers :
        effect[c] \in Effects /\ effect[d] = effect[c] /\ token[d] = token[c] => c = d

UnsentClaimIsUnsent ==
    \A d \in Dispatchers :
        stage[d] \in {"CLAIMED", "SENDING", "REFUSED"} => token[d] \notin sent[effect[d]]

Counted == AttemptsAreCounted /\ ClaimsAreDistinct /\ UnsentClaimIsUnsent

LEMMA CountedInit == Init => Counted
  BY OutboxAssumption
  DEF Init, Counted, AttemptsAreCounted, ClaimsAreDistinct, UnsentClaimIsUnsent

\* Actions that take no claim, make no call and drop claims at most.
LEMMA CountedQuiet ==
  ASSUME Typed, Counted, UNCHANGED <<attempts, sent>>,
         \A d \in Dispatchers :
            \/ effect'[d] = NoEffect /\ stage'[d] \in {"IDLE", "STOPPED"}
            \/ /\ effect'[d] = effect[d] /\ token'[d] = token[d]
               /\ stage'[d] \in {"CLAIMED", "SENDING", "REFUSED"} =>
                    stage[d] \in {"CLAIMED", "SENDING", "REFUSED"}
  PROVE  Counted'
  BY OutboxAssumption
  DEF Typed, TypeOK, Counted, AttemptsAreCounted, ClaimsAreDistinct, UnsentClaimIsUnsent

LEMMA CountedStep == Typed /\ Counted /\ [Next]_vars => Counted'
  <1> SUFFICES ASSUME Typed, Counted, [Next]_vars PROVE Counted'
    OBVIOUS
  <1> USE OutboxAssumption DEF row, claim, outcome, world
  <1>t. TypeOK /\ ClaimsAreOfEffects
    BY DEF Typed
  <1>c. AttemptsAreCounted /\ ClaimsAreDistinct /\ UnsentClaimIsUnsent
    BY DEF Counted
  <1>1. ASSUME NEW d \in Dispatchers, NEW e \in Effects, ClaimEffect(d, e) PROVE Counted'
    <2>1. AttemptsAreCounted'
      BY <1>1, <1>t, <1>c DEF ClaimEffect, NextAttempt, TypeOK, AttemptsAreCounted
    <2>2. ClaimsAreDistinct'
      BY <1>1, <1>t, <1>c
      DEF ClaimEffect, NextAttempt, TypeOK, AttemptsAreCounted, ClaimsAreDistinct
    <2>3. UnsentClaimIsUnsent'
      BY <1>1, <1>t, <1>c
      DEF ClaimEffect, NextAttempt, TypeOK, AttemptsAreCounted, UnsentClaimIsUnsent
    <2> QED BY <2>1, <2>2, <2>3 DEF Counted
  <1>2. ASSUME NEW d \in Dispatchers, AskWhetherToSend(d) PROVE Counted'
    BY <1>2, <1>t, CountedQuiet DEF AskWhetherToSend, TypeOK
  <1>3. ASSUME NEW d \in Dispatchers, Deliver(d) PROVE Counted'
    <2>0. /\ effect[d] \in Effects
          /\ token[d] \in 1..attempts[effect[d]]
          /\ UNCHANGED <<attempts, effect, token>>
          /\ sent' = [sent EXCEPT ![effect[d]] = @ \cup {token[d]}]
          /\ stage'[d] \in {"DELIVERED", "RETRYABLE", "TERMINAL"}
          /\ \A c \in Dispatchers : c # d => stage'[c] = stage[c]
      BY <1>3, <1>t, <1>c
      DEF Deliver, TypeOK, ClaimsAreOfEffects, Held, AttemptsAreCounted
    <2>1. AttemptsAreCounted'
      BY <2>0, <1>t, <1>c DEF TypeOK, AttemptsAreCounted
    <2>2. ClaimsAreDistinct'
      BY <2>0, <1>c DEF ClaimsAreDistinct
    <2>3. UnsentClaimIsUnsent'
      <3> SUFFICES ASSUME NEW c \in Dispatchers,
                          stage'[c] \in {"CLAIMED", "SENDING", "REFUSED"}
                   PROVE  token[c] \notin sent'[effect[c]]
        BY <2>0 DEF UnsentClaimIsUnsent
      <3>1. c # d /\ stage[c] \in {"CLAIMED", "SENDING", "REFUSED"}
        BY <2>0
      <3>2. effect[c] \in Effects /\ token[c] \notin sent[effect[c]]
        BY <3>1, <1>t, <1>c DEF ClaimsAreOfEffects, Held, Answers, UnsentClaimIsUnsent
      <3>3. effect[c] = effect[d] => token[c] # token[d]
        BY <3>1, <3>2, <1>c DEF ClaimsAreDistinct
      <3> QED BY <2>0, <3>2, <3>3, <1>t DEF TypeOK
    <2> QED BY <2>1, <2>2, <2>3 DEF Counted
  <1>4. ASSUME NEW d \in Dispatchers, NEW next \in {"IDLE", "STOPPED"}, EndClaim(d, next),
               UNCHANGED <<attempts, sent>>
        PROVE  Counted'
    BY <1>4, <1>t, CountedQuiet DEF EndClaim, TypeOK
  <1>5. ASSUME NEW d \in Dispatchers, NEW to, Settle(d, to) PROVE Counted'
    BY <1>4, <1>5 DEF Settle
  <1>6. ASSUME NEW d \in Dispatchers,
               RecordDelivered(d) \/ RecordRetry(d) \/ RecordTerminal(d)
        PROVE  Counted'
    BY <1>5, <1>6 DEF RecordDelivered, RecordRetry, RecordTerminal
  <1>7. ASSUME NEW d \in Dispatchers, Fenced(d) \/ DispatcherDies(d) PROVE Counted'
    BY <1>4, <1>7 DEF Fenced, DispatcherDies
  <1>8. ASSUME NEW d \in Dispatchers, Restart(d) PROVE Counted'
    BY <1>8, <1>t, CountedQuiet DEF Restart, TypeOK
  <1>9. ASSUME NEW e \in Effects,
               EnqueueEffect(e) \/ BecomesLate(e) \/ LeaseRunsOut(e) \/ RetryFallsDue(e)
        PROVE  Counted'
    BY <1>9, CountedQuiet DEF EnqueueEffect, BecomesLate, LeaseRunsOut, RetryFallsDue
  <1>10. CASE UNCHANGED vars
    BY <1>10, CountedQuiet DEF vars
  <1> QED
    BY <1>1, <1>2, <1>3, <1>6, <1>7, <1>8, <1>9, <1>10 DEF Next

LEMMA AlwaysCounted == Spec => [](Typed /\ Counted)
  BY AlwaysTyped, CountedInit, CountedStep, PTL DEF Spec

LEMMA OneCallStep ==
  Typed /\ Counted =>
    \A d \in Dispatchers :
      stage[d] = "SENDING" => token[d] \in (1..attempts[effect[d]]) \ sent[effect[d]]
  BY DEF Typed, ClaimsAreOfEffects, Held, Counted, AttemptsAreCounted, UnsentClaimIsUnsent

\* No claim calls the provider twice, and no call is made under an attempt the row does
\* not count (outbox.dispatch_one, between its claim and its recording).
THEOREM OneCall == Spec => OneCallPerClaim
  <1>1. Typed /\ Counted /\ [Next]_vars =>
          [\A d \in Dispatchers :
             stage[d] = "SENDING" /\ stage'[d] \in Answers =>
               token[d] \in (1..attempts[effect[d]]) \ sent[effect[d]]]_vars
    BY OneCallStep
  <1> QED BY AlwaysCounted, <1>1, PTL DEF Spec, OneCallPerClaim

-----------------------------------------------------------------------------
(* What is recorded as unsent.  A refusal may say UNSENT only under the    *)
(* first attempt, when no older claim can still be making a call, and the  *)
(* row is then settled, so no later one can either.                        *)

UnsentStaysUnsent ==
    \A e \in Effects :
        error[e] = "UNSENT" =>
            /\ state[e] = "FAILED"
            /\ sent[e] = {}
            /\ \A d \in Dispatchers : effect[d] # e

LEMMA UnsentStep ==
  Typed /\ Counted /\ UnsentStaysUnsent /\ [Next]_vars => UnsentStaysUnsent'
  <1> SUFFICES ASSUME Typed, Counted, UnsentStaysUnsent, [Next]_vars PROVE UnsentStaysUnsent'
    OBVIOUS
  <1>t. TypeOK /\ ClaimsAreOfEffects
    BY DEF Typed
  <1>c. AttemptsAreCounted /\ ClaimsAreDistinct /\ UnsentClaimIsUnsent
    BY DEF Counted
  <1> USE OutboxAssumption DEF row, claim, outcome, world, TypeOK, UnsentStaysUnsent
  <1>1. ASSUME NEW d \in Dispatchers, NEW e \in Effects, ClaimEffect(d, e)
        PROVE  UnsentStaysUnsent'
    BY <1>1, <1>t DEF ClaimEffect, Claimable
  <1>2. ASSUME NEW d \in Dispatchers, AskWhetherToSend(d) \/ Restart(d)
        PROVE  UnsentStaysUnsent'
    BY <1>2 DEF AskWhetherToSend, Restart
  <1>3. ASSUME NEW d \in Dispatchers, Deliver(d) PROVE UnsentStaysUnsent'
    <2>1. effect[d] \in Effects /\ error[effect[d]] # "UNSENT"
      BY <1>3, <1>t DEF Deliver, ClaimsAreOfEffects, Held
    <2> QED BY <1>3, <1>t, <2>1 DEF Deliver
  <1>4. ASSUME NEW d \in Dispatchers, NEW to, stage[d] \in Answers, Settle(d, to)
        PROVE  /\ effect[d] \in Effects
               /\ attempts[effect[d]] = token[d]
               /\ error[effect[d]] # "UNSENT"
               /\ effect' = [effect EXCEPT ![d] = NoEffect]
               /\ state' = [state EXCEPT ![effect[d]] = to]
               /\ sent' = sent
    BY <1>4, <1>t DEF Settle, EndClaim, ClaimDescribesRow, ClaimsAreOfEffects, Held
  <1>5. ASSUME NEW d \in Dispatchers, RecordDelivered(d) PROVE UnsentStaysUnsent'
    BY <1>4, <1>5, <1>t DEF RecordDelivered, Answers
  <1>6. ASSUME NEW d \in Dispatchers, RecordRetry(d) PROVE UnsentStaysUnsent'
    BY <1>4, <1>6, <1>t DEF RecordRetry, Answers
  <1>7. ASSUME NEW d \in Dispatchers, RecordTerminal(d) PROVE UnsentStaysUnsent'
    <2>1. /\ effect[d] \in Effects
          /\ attempts[effect[d]] = token[d]
          /\ effect' = [effect EXCEPT ![d] = NoEffect]
          /\ state' = [state EXCEPT ![effect[d]] = "FAILED"]
          /\ sent' = sent
          /\ error[effect[d]] # "UNSENT"
      BY <1>4, <1>7 DEF RecordTerminal, Answers
    <2>2. \A e \in Effects : e # effect[d] => error'[e] = error[e]
      BY <1>7, <1>t, <2>1 DEF RecordTerminal
    <2>3. ASSUME error'[effect[d]] = "UNSENT"
          PROVE  /\ sent[effect[d]] = {}
                 /\ \A c \in Dispatchers : effect[c] = effect[d] => c = d
      <3>1. stage[d] = "REFUSED" /\ token[d] = 1
        BY <1>7, <1>t, <2>1, <2>3 DEF RecordTerminal, Refusal
      <3>2. sent[effect[d]] \subseteq 1..1 /\ 1 \notin sent[effect[d]]
        BY <1>c, <2>1, <3>1 DEF AttemptsAreCounted, UnsentClaimIsUnsent
      <3>3. \A c \in Dispatchers : effect[c] = effect[d] => token[c] \in 1..1
        BY <1>c, <2>1, <3>1 DEF AttemptsAreCounted
      <3> QED BY <1>c, <2>1, <3>1, <3>2, <3>3 DEF ClaimsAreDistinct
    <2> QED BY <1>t, <2>1, <2>2, <2>3
  <1>8. ASSUME NEW d \in Dispatchers, Fenced(d) \/ DispatcherDies(d)
        PROVE  UnsentStaysUnsent'
    BY <1>8, <1>t DEF Fenced, DispatcherDies, EndClaim
  <1>9. ASSUME NEW e \in Effects,
               EnqueueEffect(e) \/ BecomesLate(e) \/ LeaseRunsOut(e) \/ RetryFallsDue(e)
        PROVE  UnsentStaysUnsent'
    BY <1>9, <1>t DEF EnqueueEffect, BecomesLate, LeaseRunsOut, RetryFallsDue
  <1>10. CASE UNCHANGED vars
    BY <1>10 DEF vars
  <1> QED
    BY <1>1, <1>2, <1>3, <1>5, <1>6, <1>7, <1>8, <1>9, <1>10 DEF Next

\* An effect recorded as refused before it was sent was never sent, by any dispatcher
\* and however slow (approvals.refuse_if_window_closed,
\* recovery.refuse_if_production_started, recovery.refused_unsent).
THEOREM NothingUnsentWasSent == Spec => []UnsentMeansUnsent
  <1>1. Init => UnsentStaysUnsent
    BY DEF Init, UnsentStaysUnsent
  <1>2. UnsentStaysUnsent => UnsentMeansUnsent
    BY DEF UnsentStaysUnsent, UnsentMeansUnsent
  <1> QED BY AlwaysCounted, <1>1, <1>2, UnsentStep, PTL DEF Spec

-----------------------------------------------------------------------------
(* Settlement.  A row that is settled is claimable no longer, and the      *)
(* fence turns away every claim that was taken before.                     *)

\* What a settlement does to the rows: only the one in flight under the claim moves.
LEMMA SettleMovesItsOwnRow ==
  ASSUME Typed, NEW d \in Dispatchers, NEW to, stage[d] \in Answers, Settle(d, to)
  PROVE  /\ effect[d] \in Effects
         /\ state[effect[d]] = "IN_FLIGHT"
         /\ state' = [state EXCEPT ![effect[d]] = to]
         /\ attempts' = attempts
  BY DEF Typed, ClaimsAreOfEffects, Held, Settle, ClaimDescribesRow

SettledRowStays(e) ==
    state[e] \in Settled =>
        state'[e] = state[e] /\ attempts'[e] = attempts[e] /\ error'[e] = error[e]

LEMMA SettledStep ==
  ASSUME Typed, [Next]_vars, NEW e \in Effects
  PROVE  SettledRowStays(e)
  <1>t. TypeOK
    BY DEF Typed
  <1> USE DEF SettledRowStays, row, claim, outcome, world, TypeOK, Settled
  <1>1. ASSUME NEW d \in Dispatchers, NEW f \in Effects, ClaimEffect(d, f)
        PROVE  SettledRowStays(e)
    BY <1>1, <1>t DEF ClaimEffect, Claimable
  <1>2. ASSUME NEW d \in Dispatchers,
               AskWhetherToSend(d) \/ Deliver(d) \/ Fenced(d) \/ DispatcherDies(d) \/ Restart(d)
        PROVE  SettledRowStays(e)
    BY <1>2 DEF AskWhetherToSend, Deliver, Fenced, DispatcherDies, Restart
  <1>3. ASSUME NEW d \in Dispatchers, RecordDelivered(d) PROVE SettledRowStays(e)
    BY <1>3, <1>t, SettleMovesItsOwnRow DEF RecordDelivered, Answers
  <1>4. ASSUME NEW d \in Dispatchers, RecordRetry(d) PROVE SettledRowStays(e)
    BY <1>4, <1>t, SettleMovesItsOwnRow DEF RecordRetry, Answers
  <1>5. ASSUME NEW d \in Dispatchers, RecordTerminal(d) PROVE SettledRowStays(e)
    BY <1>5, <1>t, SettleMovesItsOwnRow DEF RecordTerminal, Answers
  <1>6. ASSUME NEW f \in Effects,
               EnqueueEffect(f) \/ BecomesLate(f) \/ LeaseRunsOut(f) \/ RetryFallsDue(f)
        PROVE  SettledRowStays(e)
    BY <1>6, <1>t DEF EnqueueEffect, BecomesLate, LeaseRunsOut, RetryFallsDue
  <1>7. CASE UNCHANGED vars
    BY <1>7 DEF vars
  <1> QED BY <1>1, <1>2, <1>3, <1>4, <1>5, <1>6, <1>7 DEF Next

\* What the row says became of an effect is never said differently later, whoever
\* answers late (outbox._settle, claim_effect).
THEOREM SettledOnceAndForAll == Spec => SettledForGood
  <1>1. Typed /\ [Next]_vars =>
          [\A e \in Effects :
             state[e] \in Settled =>
               /\ state'[e] = state[e]
               /\ attempts'[e] = attempts[e]
               /\ error'[e] = error[e]]_vars
    BY SettledStep DEF SettledRowStays
  <1> QED BY AlwaysTyped, <1>1, PTL DEF Spec, SettledForGood

LEMMA ContinuedStep == Typed /\ ContinuedOnce /\ [Next]_vars => ContinuedOnce'
  <1> SUFFICES ASSUME Typed, ContinuedOnce, [Next]_vars PROVE ContinuedOnce'
    OBVIOUS
  <1>t. TypeOK
    BY DEF Typed
  <1> USE DEF row, claim, outcome, world, TypeOK, Settled, ContinuedOnce
  <1>1. ASSUME NEW d \in Dispatchers, NEW e \in Effects, ClaimEffect(d, e)
        PROVE  ContinuedOnce'
    BY <1>1, <1>t DEF ClaimEffect, Claimable
  <1>2. ASSUME NEW d \in Dispatchers,
               AskWhetherToSend(d) \/ Deliver(d) \/ Fenced(d) \/ DispatcherDies(d) \/ Restart(d)
        PROVE  ContinuedOnce'
    BY <1>2 DEF AskWhetherToSend, Deliver, Fenced, DispatcherDies, Restart
  <1>3. ASSUME NEW d \in Dispatchers, RecordDelivered(d) PROVE ContinuedOnce'
    <2>1. stage[d] \in Answers /\ Settle(d, "DELIVERED")
      BY <1>3 DEF RecordDelivered, Answers
    <2>2. Continue(effect[d], "DELIVERED") /\ told' = told
      BY <1>3 DEF RecordDelivered
    <2>3. /\ effect[d] \in Effects
          /\ state[effect[d]] = "IN_FLIGHT"
          /\ state' = [state EXCEPT ![effect[d]] = "DELIVERED"]
      BY <2>1, SettleMovesItsOwnRow
    <2> QED BY <1>t, <2>2, <2>3 DEF Continue
  <1>4. ASSUME NEW d \in Dispatchers, RecordRetry(d) PROVE ContinuedOnce'
    <2>1. stage[d] \in Answers /\ Settle(d, "PENDING")
      BY <1>4 DEF RecordRetry, Answers
    <2>2. UNCHANGED <<continued, told>>
      BY <1>4 DEF RecordRetry
    <2>3. /\ effect[d] \in Effects
          /\ state[effect[d]] = "IN_FLIGHT"
          /\ state' = [state EXCEPT ![effect[d]] = "PENDING"]
      BY <2>1, SettleMovesItsOwnRow
    <2> QED BY <1>t, <2>2, <2>3
  <1>5. ASSUME NEW d \in Dispatchers, RecordTerminal(d) PROVE ContinuedOnce'
    <2>1. stage[d] \in Answers /\ Settle(d, "FAILED")
      BY <1>5 DEF RecordTerminal, Answers
    <2>2. Continue(effect[d], "FAILED") /\ told' = told \cup {effect[d]}
      BY <1>5 DEF RecordTerminal
    <2>3. /\ effect[d] \in Effects
          /\ state[effect[d]] = "IN_FLIGHT"
          /\ state' = [state EXCEPT ![effect[d]] = "FAILED"]
      BY <2>1, SettleMovesItsOwnRow
    <2> QED BY <1>t, <2>2, <2>3 DEF Continue
  <1>6. ASSUME NEW e \in Effects,
               EnqueueEffect(e) \/ BecomesLate(e) \/ LeaseRunsOut(e) \/ RetryFallsDue(e)
        PROVE  ContinuedOnce'
    BY <1>6, <1>t DEF EnqueueEffect, BecomesLate, LeaseRunsOut, RetryFallsDue
  <1>7. CASE UNCHANGED vars
    BY <1>7 DEF vars
  <1> QED BY <1>1, <1>2, <1>3, <1>4, <1>5, <1>6, <1>7 DEF Next

\* The continuation of a settled effect is the one of its own answer, enqueued with the
\* settlement and never the other, and its failure is on the owner's desk
\* (outbox._continue, _record_terminal).
THEOREM ContinuedAsSettled == Spec => []ContinuedOnce
  <1>1. Init => ContinuedOnce
    BY DEF Init, ContinuedOnce, Settled
  <1> QED BY AlwaysTyped, <1>1, ContinuedStep, PTL DEF Spec
=============================================================================
