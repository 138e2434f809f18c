-------------------------- MODULE StepLedger_proofs --------------------------
(***************************************************************************)
(* Theorems about the step ledger, for any number of workers, steps,       *)
(* cases, attempts and losses.                                             *)
(***************************************************************************)
EXTENDS StepLedger, TLAPS

-----------------------------------------------------------------------------
(* Type correctness.                                                       *)

LEMMA TypeInit == Init => TypeOK
  BY LedgerAssumption DEF Init, TypeOK, Unsettled, Claimable, Settled

LEMMA TypeStep == TypeOK /\ [Next]_vars => TypeOK'
  <1> SUFFICES ASSUME TypeOK, [Next]_vars PROVE TypeOK'
    OBVIOUS
  <1> USE LedgerAssumption DEF TypeOK, row, locks, record
  <1>1. ASSUME NEW w \in Workers, NEW s \in Steps, ClaimStep(w, s) PROVE TypeOK'
    BY <1>1 DEF ClaimStep, NextAttempt, Unsettled
  <1>2. ASSUME NEW w \in Workers, NEW s \in Steps, Fence(w, s) PROVE TypeOK'
    BY <1>2 DEF Fence
  <1>3. ASSUME NEW w \in Workers, NEW s \in Steps, Fenced(w, s) PROVE TypeOK'
    BY <1>3 DEF Fenced
  <1>4. ASSUME NEW w \in Workers, NEW s \in Steps, LockCase(w, s) PROVE TypeOK'
    BY <1>4 DEF LockCase
  <1>5. ASSUME NEW w \in Workers, NEW s \in Steps, NEW d \in Settled,
               NEW new \in SUBSET Steps, CommitTransition(w, s, d, new)
        PROVE  TypeOK'
    <2>1. state' \in [Steps -> {"ABSENT"} \cup Unsettled \cup Settled]
      BY <1>5 DEF CommitTransition, WithEnqueued, Unsettled, Claimable
    <2>2. /\ rowLock' \in [Steps -> Workers \cup {NoWorker}]
          /\ token' \in [Workers -> [Steps -> Nat]]
          /\ caseLock' \in [Cases -> Steps \cup {Unlocked}]
      BY <1>5 DEF CommitTransition, EndTransaction
    <2>3. /\ owner' \in [Steps -> Workers \cup {NoWorker}]
          /\ version' \in [Cases -> Nat]
          /\ events' \in [Steps -> Nat]
          /\ attention' \subseteq Cases
          /\ expired' \subseteq Steps
      BY <1>5 DEF CommitTransition
    <2> QED BY <1>5, <2>1, <2>2, <2>3 DEF CommitTransition
  <1>6. ASSUME NEW w \in Workers, NEW s \in Steps, HandlerSettles(w, s) PROVE TypeOK'
    BY <1>5, <1>6 DEF HandlerSettles, Dispositions
  <1>7. ASSUME NEW w \in Workers, NEW s \in Steps, ScheduleRetry(w, s) PROVE TypeOK'
    BY <1>7 DEF ScheduleRetry, EndTransaction, Unsettled, Claimable
  <1>8. ASSUME NEW w \in Workers, NEW s \in Steps, GiveUp(w, s) PROVE TypeOK'
    <2>1. CommitTransition(w, s, "FAILED", {})
      BY <1>8 DEF GiveUp
    <2> QED BY <1>5, <2>1 DEF Settled
  <1>9. ASSUME NEW w \in Workers, NEW lost \in SUBSET Steps, Forget(w, lost)
        PROVE  /\ rowLock' \in [Steps -> Workers \cup {NoWorker}]
               /\ token' \in [Workers -> [Steps -> Nat]]
               /\ caseLock' \in [Cases -> Steps \cup {Unlocked}]
    BY <1>9 DEF Forget
  <1>10. ASSUME NEW w \in Workers, NEW s \in Steps, LoseClaim(w, s) PROVE TypeOK'
    <2>1. Forget(w, {s})
      BY <1>10 DEF LoseClaim
    <2>2. {s} \in SUBSET Steps
      OBVIOUS
    <2>3. losses' \in 0..MaxLosses
      BY <1>10 DEF LoseClaim
    <2> QED BY <1>9, <1>10, <2>1, <2>2, <2>3 DEF LoseClaim
  <1>11. ASSUME NEW s \in Steps, LeaseRunsOut(s) PROVE TypeOK'
    BY <1>11 DEF LeaseRunsOut
  <1>12. ASSUME NEW s \in Steps, RetryFallsDue(s) PROVE TypeOK'
    BY <1>12 DEF RetryFallsDue
  <1>13. ASSUME NEW s \in Steps, EnqueueWakeUp(s) PROVE TypeOK'
    BY <1>13 DEF EnqueueWakeUp, Unsettled, Claimable
  <1>14. ASSUME NEW c \in Cases, Withdraw(c) PROVE TypeOK'
    <2>1. state' \in [Steps -> {"ABSENT"} \cup Unsettled \cup Settled]
      BY <1>14 DEF Withdraw, WithEnqueued, StoodDown, Unsettled, Claimable, Settled
    <2> QED BY <1>14, <2>1 DEF Withdraw
  <1>15. ASSUME NEW w \in Workers, WorkerDies(w) PROVE TypeOK'
    <2>1. Forget(w, Steps)
      BY <1>15 DEF WorkerDies
    <2>2. Steps \in SUBSET Steps
      OBVIOUS
    <2>3. losses' \in 0..MaxLosses
      BY <1>15 DEF WorkerDies
    <2> QED BY <1>9, <1>15, <2>1, <2>2, <2>3 DEF WorkerDies
  <1>16. CASE UNCHANGED vars
    BY <1>16 DEF vars
  <1> QED
    BY <1>1, <1>2, <1>3, <1>4, <1>6, <1>7, <1>8, <1>10, <1>11, <1>12, <1>13, <1>14,
       <1>15, <1>16 DEF Next

\* Every variable keeps its type, whatever order workers, clocks, deaths and
\* withdrawals run in (steps.py, the whole ledger).
THEOREM TypeCorrect == Spec => []TypeOK
  <1>1. TypeOK /\ [Next]_vars => TypeOK'
    BY TypeStep
  <1> QED BY TypeInit, <1>1, PTL DEF Spec

-----------------------------------------------------------------------------
(* Fencing.  A lock on a row is only ever taken by a claim that describes  *)
(* the row, and nothing that could change the row gets past the lock.      *)

FenceInv == TypeOK /\ SupersededClaimNeverExecutes

LEMMA FenceStep == FenceInv /\ [Next]_vars => SupersededClaimNeverExecutes'
  <1> SUFFICES ASSUME TypeOK, SupersededClaimNeverExecutes, [Next]_vars,
                      NEW v \in Workers, NEW t \in Steps, rowLock'[t] = v
               PROVE  state'[t] = "IN_FLIGHT" /\ owner'[t] = v /\ attempts'[t] = token'[v][t]
    BY DEF FenceInv, SupersededClaimNeverExecutes
  <1> DEFINE Described == state[t] = "IN_FLIGHT" /\ owner[t] = v /\ attempts[t] = token[v][t]
             Kept == Described' 
  <1>0. rowLock[t] = v => Described
    BY DEF SupersededClaimNeverExecutes
  <1>a. NoWorker # v
    BY LedgerAssumption
  <1> USE DEF row, locks, record, TypeOK
  <1>1. ASSUME NEW w \in Workers, NEW s \in Steps, ClaimStep(w, s) PROVE Kept
    BY <1>0, <1>1, <1>a DEF ClaimStep
  <1>2. ASSUME NEW w \in Workers, NEW s \in Steps, Fence(w, s) PROVE Kept
    BY <1>0, <1>2 DEF Fence, ClaimDescribesRow
  <1>3. ASSUME NEW w \in Workers, NEW s \in Steps, Fenced(w, s) PROVE Kept
    BY <1>0, <1>3, <1>a DEF Fenced
  <1>4. ASSUME NEW w \in Workers, NEW s \in Steps, LockCase(w, s) PROVE Kept
    BY <1>0, <1>4 DEF LockCase
  <1>5. ASSUME NEW w \in Workers, NEW s \in Steps, NEW d \in Settled,
               NEW new \in SUBSET Steps, CommitTransition(w, s, d, new)
        PROVE  Kept
    <2>1. rowLock[t] = v /\ t # s
      BY <1>5, <1>a DEF CommitTransition, EndTransaction
    <2>2. state'[t] = state[t] /\ owner'[t] = owner[t] /\ attempts'[t] = attempts[t]
      BY <1>0, <1>5, <2>1 DEF CommitTransition, WithEnqueued
    <2>3. token'[v][t] = token[v][t]
      BY <1>5, <2>1 DEF CommitTransition, EndTransaction
    <2> QED BY <1>0, <2>1, <2>2, <2>3
  <1>6. ASSUME NEW w \in Workers, NEW s \in Steps, HandlerSettles(w, s) PROVE Kept
    BY <1>5, <1>6, LedgerAssumption DEF HandlerSettles, Dispositions
  <1>7. ASSUME NEW w \in Workers, NEW s \in Steps, ScheduleRetry(w, s) PROVE Kept
    BY <1>0, <1>7, <1>a DEF ScheduleRetry, EndTransaction
  <1>8. ASSUME NEW w \in Workers, NEW s \in Steps, GiveUp(w, s) PROVE Kept
    <2>1. CommitTransition(w, s, "FAILED", {})
      BY <1>8 DEF GiveUp
    <2> QED BY <1>5, <2>1 DEF Settled
  <1>9. ASSUME NEW w \in Workers, NEW lost \in SUBSET Steps, Forget(w, lost),
               UNCHANGED <<state, owner, attempts>>
        PROVE  Kept
    BY <1>0, <1>9, <1>a DEF Forget
  <1>10. ASSUME NEW w \in Workers, NEW s \in Steps, LoseClaim(w, s) PROVE Kept
    <2>1. Forget(w, {s}) /\ UNCHANGED <<state, owner, attempts>>
      BY <1>10 DEF LoseClaim
    <2> QED BY <1>9, <2>1
  <1>11. ASSUME NEW s \in Steps, LeaseRunsOut(s) \/ RetryFallsDue(s) PROVE Kept
    BY <1>0, <1>11 DEF LeaseRunsOut, RetryFallsDue
  <1>12. ASSUME NEW s \in Steps, EnqueueWakeUp(s) PROVE Kept
    BY <1>0, <1>12 DEF EnqueueWakeUp
  <1>13. ASSUME NEW c \in Cases, Withdraw(c) PROVE Kept
    <2>1. rowLock[t] = v
      BY <1>13 DEF Withdraw
    <2>2. state'[t] = state[t]
      BY <1>0, <1>13, <2>1 DEF Withdraw, WithEnqueued, StoodDown, Claimable
    <2> QED BY <1>0, <1>13, <2>1, <2>2 DEF Withdraw
  <1>14. ASSUME NEW w \in Workers, WorkerDies(w) PROVE Kept
    <2>1. Forget(w, Steps) /\ UNCHANGED <<state, owner, attempts>>
      BY <1>14 DEF WorkerDies
    <2> QED BY <1>9, <2>1
  <1>15. CASE UNCHANGED vars
    BY <1>0, <1>15 DEF vars
  <1> QED
    BY <1>1, <1>2, <1>3, <1>4, <1>6, <1>7, <1>8, <1>10, <1>11, <1>12, <1>13, <1>14,
       <1>15 DEF Next

\* A claim its row has moved past never executes: reclaiming, a withdrawal and the
\* fence can be interleaved any way (steps._fence, steps._settle).
THEOREM Fencing == Spec => []SupersededClaimNeverExecutes
  <1>1. Init => FenceInv
    BY TypeInit, LedgerAssumption DEF Init, FenceInv, SupersededClaimNeverExecutes
  <1>2. FenceInv /\ [Next]_vars => FenceInv'
    BY TypeStep, FenceStep DEF FenceInv
  <1>3. FenceInv => SupersededClaimNeverExecutes
    BY DEF FenceInv
  <1> QED BY <1>1, <1>2, <1>3, PTL DEF Spec

-----------------------------------------------------------------------------
(* Tokens.  A claim's token never exceeds its row's attempts, so the next  *)
(* claim's token is new.                                                   *)

TokensBounded == \A w \in Workers, s \in Steps : token[w][s] <= attempts[s]

TokenInv == TypeOK /\ TokensBounded /\ TokensAreUnique

\* A step that is not a claim keeps attempts and only ever zeroes tokens.
OnlyForgets ==
    /\ UNCHANGED attempts
    /\ \A w \in Workers, s \in Steps : token'[w][s] \in {0, token[w][s]}

LEMMA ClaimsAreTheOnlyTokens ==
    ASSUME TypeOK, [Next]_vars
    PROVE  OnlyForgets \/ \E w \in Workers, s \in Steps : ClaimStep(w, s)
  <1> USE DEF row, locks, record, TypeOK, OnlyForgets
  <1>1. ASSUME NEW w \in Workers, NEW s \in Steps,
               Fence(w, s) \/ Fenced(w, s) \/ LockCase(w, s)
        PROVE  OnlyForgets
    BY <1>1 DEF Fence, Fenced, LockCase
  <1>2. ASSUME NEW w \in Workers, NEW s \in Steps, EndTransaction(w, s), UNCHANGED attempts
        PROVE  OnlyForgets
    BY <1>2 DEF EndTransaction
  <1>3. ASSUME NEW w \in Workers, NEW s \in Steps,
               HandlerSettles(w, s) \/ ScheduleRetry(w, s) \/ GiveUp(w, s)
        PROVE  OnlyForgets
    <2>1. EndTransaction(w, s) /\ UNCHANGED attempts
      BY <1>3 DEF HandlerSettles, ScheduleRetry, GiveUp, CommitTransition
    <2> QED BY <1>2, <2>1
  <1>4. ASSUME NEW w \in Workers, NEW lost \in SUBSET Steps, Forget(w, lost),
               UNCHANGED attempts
        PROVE  OnlyForgets
    BY <1>4 DEF Forget
  <1>5. ASSUME NEW w \in Workers, NEW s \in Steps, LoseClaim(w, s) PROVE OnlyForgets
    <2>1. Forget(w, {s}) /\ UNCHANGED attempts
      BY <1>5 DEF LoseClaim
    <2> QED BY <1>4, <2>1
  <1>6. ASSUME NEW w \in Workers, WorkerDies(w) PROVE OnlyForgets
    <2>1. Forget(w, Steps) /\ UNCHANGED attempts
      BY <1>6 DEF WorkerDies
    <2> QED BY <1>4, <2>1
  <1>7. ASSUME NEW s \in Steps, LeaseRunsOut(s) \/ RetryFallsDue(s) \/ EnqueueWakeUp(s)
        PROVE  OnlyForgets
    BY <1>7 DEF LeaseRunsOut, RetryFallsDue, EnqueueWakeUp
  <1>8. ASSUME NEW c \in Cases, Withdraw(c) PROVE OnlyForgets
    BY <1>8 DEF Withdraw
  <1>9. CASE UNCHANGED vars
    BY <1>9 DEF vars
  <1> QED
    BY <1>1, <1>3, <1>5, <1>6, <1>7, <1>8, <1>9 DEF Next

\* No two claims to a step share a token (steps.claim_step).
THEOREM UniqueTokens == Spec => []TokensAreUnique
  <1>1. Init => TokenInv
    BY TypeInit DEF Init, TokenInv, TokensBounded, TokensAreUnique
  <1>2. TokenInv /\ [Next]_vars => TokenInv'
    <2> SUFFICES ASSUME TokenInv, [Next]_vars PROVE TokensBounded' /\ TokensAreUnique'
      BY TypeStep DEF TokenInv
    <2> USE DEF TokenInv, TokensBounded, TokensAreUnique, TypeOK
    <2>1. ASSUME OnlyForgets PROVE TokensBounded' /\ TokensAreUnique'
      <3>1. \A w \in Workers, s \in Steps :
              /\ token'[w][s] = 0 \/ token'[w][s] = token[w][s]
              /\ token[w][s] \in Nat /\ attempts[s] \in Nat /\ attempts'[s] = attempts[s]
        BY <2>1 DEF OnlyForgets
      <3>2. TokensBounded'
        BY <3>1
      <3>3. TokensAreUnique'
        BY <3>1
      <3> QED BY <3>2, <3>3
    <2>2. ASSUME NEW w \in Workers, NEW s \in Steps, ClaimStep(w, s)
          PROVE  TokensBounded' /\ TokensAreUnique'
      <3>1. /\ token' = [token EXCEPT ![w][s] = attempts[s] + 1]
            /\ attempts' = [attempts EXCEPT ![s] = attempts[s] + 1]
        BY <2>2 DEF ClaimStep, NextAttempt
      <3> QED BY <3>1
    <2> QED BY <2>1, <2>2, ClaimsAreTheOnlyTokens
  <1>3. TokenInv => TokensAreUnique
    BY DEF TokenInv
  <1> QED BY <1>1, <1>2, <1>3, PTL DEF Spec

\* A process holds claims to at most one step of a case, whatever its loop and its
\* deferred preparations do (worker._execute_one_step, worker._defer).
THEOREM OneStepPerProcess == Spec => []OneStepOfACasePerProcess
  <1>1. Init => OneStepOfACasePerProcess
    BY DEF Init, OneStepOfACasePerProcess
  <1>2. TypeOK /\ OneStepOfACasePerProcess /\ [Next]_vars => OneStepOfACasePerProcess'
    <2> SUFFICES ASSUME TypeOK, OneStepOfACasePerProcess, [Next]_vars
                 PROVE  OneStepOfACasePerProcess'
      OBVIOUS
    <2> USE DEF OneStepOfACasePerProcess, TypeOK
    <2>1. CASE OnlyForgets
      <3> SUFFICES ASSUME NEW w \in Workers, NEW s \in Steps, NEW t \in Steps,
                          token'[w][s] > 0, token'[w][t] > 0, CaseOf[s] = CaseOf[t]
                   PROVE  s = t
        OBVIOUS
      <3>1. token'[w][s] = token[w][s] /\ token'[w][t] = token[w][t]
        BY <2>1 DEF OnlyForgets
      <3> QED BY <3>1
    <2>2. ASSUME NEW w \in Workers, NEW s \in Steps, ClaimStep(w, s)
          PROVE  OneStepOfACasePerProcess'
      <3>1. token' = [token EXCEPT ![w][s] = attempts[s] + 1]
        BY <2>2 DEF ClaimStep, NextAttempt
      <3>2. \A t \in Steps : token[w][t] > 0 => CaseOf[t] # CaseOf[s]
        BY <2>2 DEF ClaimStep, InCycle, Excluded, Deferred
      <3> QED BY <3>1, <3>2
    <2> QED BY <2>1, <2>2, ClaimsAreTheOnlyTokens
  <1>3. Spec => []TypeOK
    BY TypeCorrect
  <1> QED BY <1>1, <1>2, <1>3, PTL DEF Spec

-----------------------------------------------------------------------------
(* Claimed work.  Whatever settles or reschedules a row in flight runs in  *)
(* an execution of that row.                                               *)

LeavesByExecution(t) ==
    state[t] = "IN_FLIGHT" /\ state'[t] # "IN_FLIGHT" =>
        rowLock[t] # NoWorker /\ caseLock[CaseOf[t]] = t

LEMMA OnlyExecutionsLeave ==
    ASSUME TypeOK, [Next]_vars, NEW t \in Steps
    PROVE  LeavesByExecution(t)
  <1> USE DEF row, locks, record, TypeOK, LeavesByExecution
  <1>1. ASSUME NEW w \in Workers, NEW s \in Steps, ClaimStep(w, s)
        PROVE  LeavesByExecution(t)
    BY <1>1 DEF ClaimStep
  <1>2. ASSUME NEW w \in Workers, NEW s \in Steps,
               Fence(w, s) \/ Fenced(w, s) \/ LockCase(w, s) \/ LoseClaim(w, s)
        PROVE  LeavesByExecution(t)
    BY <1>2 DEF Fence, Fenced, LockCase, LoseClaim
  <1>3. ASSUME NEW w \in Workers, NEW s \in Steps, Executing(w, s)
        PROVE  rowLock[s] # NoWorker /\ caseLock[CaseOf[s]] = s
    BY <1>3, LedgerAssumption DEF Executing
  <1>4. ASSUME NEW w \in Workers, NEW s \in Steps, NEW d \in Settled,
               NEW new \in SUBSET Steps, CommitTransition(w, s, d, new)
        PROVE  LeavesByExecution(t)
    <2>1. CASE t = s
      BY <1>3, <1>4, <2>1 DEF CommitTransition
    <2>2. CASE t # s
      BY <1>4, <2>2 DEF CommitTransition, WithEnqueued
    <2> QED BY <2>1, <2>2
  <1>5. ASSUME NEW w \in Workers, NEW s \in Steps, HandlerSettles(w, s)
        PROVE  LeavesByExecution(t)
    BY <1>4, <1>5, LedgerAssumption DEF HandlerSettles, Dispositions
  <1>6. ASSUME NEW w \in Workers, NEW s \in Steps, ScheduleRetry(w, s)
        PROVE  LeavesByExecution(t)
    BY <1>3, <1>6 DEF ScheduleRetry
  <1>7. ASSUME NEW w \in Workers, NEW s \in Steps, GiveUp(w, s)
        PROVE  LeavesByExecution(t)
    <2>1. CommitTransition(w, s, "FAILED", {})
      BY <1>7 DEF GiveUp
    <2> QED BY <1>4, <2>1 DEF Settled
  <1>8. ASSUME NEW s \in Steps, LeaseRunsOut(s) \/ RetryFallsDue(s) \/ EnqueueWakeUp(s)
        PROVE  LeavesByExecution(t)
    BY <1>8 DEF LeaseRunsOut, RetryFallsDue, EnqueueWakeUp
  <1>9. ASSUME NEW c \in Cases, Withdraw(c) PROVE LeavesByExecution(t)
    BY <1>9 DEF Withdraw, WithEnqueued, StoodDown, Claimable
  <1>10. ASSUME NEW w \in Workers, WorkerDies(w) PROVE LeavesByExecution(t)
    BY <1>10 DEF WorkerDies
  <1>11. CASE UNCHANGED vars
    BY <1>11 DEF vars
  <1> QED
    BY <1>1, <1>2, <1>5, <1>6, <1>7, <1>8, <1>9, <1>10, <1>11 DEF Next

\* A claimed step leaves IN_FLIGHT only by an execution that holds the step and its
\* case: a withdrawal stands down what nobody has claimed and no more
\* (withdrawal._stand_down_steps, steps._settle).
THEOREM ClaimsSettleThemselves == Spec => ClaimedStepSettlesItself
  <1>1. TypeOK /\ [Next]_vars =>
          [\A s \in Steps :
             state[s] = "IN_FLIGHT" /\ state'[s] # "IN_FLIGHT" =>
                 rowLock[s] # NoWorker /\ caseLock[CaseOf[s]] = s]_vars
    BY OnlyExecutionsLeave DEF LeavesByExecution
  <1>2. Spec => []TypeOK
    BY TypeCorrect
  <1> QED BY <1>1, <1>2, PTL DEF Spec, ClaimedStepSettlesItself

-----------------------------------------------------------------------------
(* Settling.  Only four kinds of step change what the ledger says is done: *)
(* a commit, a retry or claim of an open row, an insert, a withdrawal.     *)

Commit(s, d, new) ==
    /\ state[s] = "IN_FLIGHT"
    /\ state' = [WithEnqueued(state, new) EXCEPT ![s] = d]
    /\ events' = [events EXCEPT ![s] = @ + 1]
    /\ version' = [version EXCEPT ![CaseOf[s]] = @ + 1]
    /\ UNCHANGED withdrawn

Reschedule(s, value) ==
    /\ state[s] \in Unsettled
    /\ state' = [state EXCEPT ![s] = value]
    /\ UNCHANGED <<events, version, withdrawn>>

Insert(s) ==
    /\ state[s] = "ABSENT"
    /\ state' = [state EXCEPT ![s] = "PENDING"]
    /\ UNCHANGED <<events, version, withdrawn>>

StandDown(c, closing) ==
    /\ state' = WithEnqueued(StoodDown(c), closing)
    /\ version' = [version EXCEPT ![c] = @ + 1]
    /\ withdrawn' = withdrawn \cup {c}
    /\ UNCHANGED events

LedgerStep ==
    \/ \E s \in Steps : \E d \in Settled, new \in SUBSET Successors[s] : Commit(s, d, new)
    \/ \E s \in Steps : \E value \in Unsettled : Reschedule(s, value)
    \/ \E s \in Steps : Insert(s)
    \/ \E c \in Cases : \E closing \in SUBSET Once!StepsOf(c) : StandDown(c, closing)
    \/ UNCHANGED <<state, events, version, withdrawn>>

LEMMA EveryStepIsALedgerStep ==
    ASSUME TypeOK, [Next]_vars
    PROVE  LedgerStep
  <1> USE DEF row, locks, record
  <1>1. ASSUME NEW w \in Workers, NEW s \in Steps, ClaimStep(w, s) PROVE LedgerStep
    <2>1. Reschedule(s, "IN_FLIGHT")
      BY <1>1 DEF ClaimStep, Eligible, Unsettled, Reschedule
    <2> QED BY <2>1 DEF LedgerStep, Unsettled
  <1>2. ASSUME NEW w \in Workers, NEW s \in Steps,
               Fence(w, s) \/ Fenced(w, s) \/ LockCase(w, s) \/ LoseClaim(w, s)
        PROVE  LedgerStep
    BY <1>2 DEF Fence, Fenced, LockCase, LoseClaim, LedgerStep
  <1>3. ASSUME NEW w \in Workers, NEW s \in Steps, NEW d \in Settled,
               NEW new \in SUBSET Successors[s], CommitTransition(w, s, d, new)
        PROVE  LedgerStep
    <2>1. Commit(s, d, new)
      BY <1>3 DEF CommitTransition, ClaimDescribesRow, Commit
    <2> QED BY <2>1 DEF LedgerStep
  <1>4. ASSUME NEW w \in Workers, NEW s \in Steps, HandlerSettles(w, s) PROVE LedgerStep
    BY <1>3, <1>4 DEF HandlerSettles, Dispositions
  <1>5. ASSUME NEW w \in Workers, NEW s \in Steps, ScheduleRetry(w, s) PROVE LedgerStep
    <2>1. Reschedule(s, "RETRYING")
      BY <1>5 DEF ScheduleRetry, ClaimDescribesRow, Unsettled, Reschedule
    <2> QED BY <2>1 DEF LedgerStep, Unsettled, Claimable
  <1>6. ASSUME NEW w \in Workers, NEW s \in Steps, GiveUp(w, s) PROVE LedgerStep
    <2>1. CommitTransition(w, s, "FAILED", {})
      BY <1>6 DEF GiveUp
    <2>2. {} \in SUBSET Successors[s] /\ "FAILED" \in Settled
      BY DEF Settled
    <2> QED BY <1>3, <2>1, <2>2
  <1>7. ASSUME NEW s \in Steps, LeaseRunsOut(s) \/ RetryFallsDue(s) PROVE LedgerStep
    BY <1>7 DEF LeaseRunsOut, RetryFallsDue, LedgerStep
  <1>8. ASSUME NEW s \in Steps, EnqueueWakeUp(s) PROVE LedgerStep
    BY <1>8 DEF EnqueueWakeUp, Insert, LedgerStep
  <1>9. ASSUME NEW c \in Cases, Withdraw(c) PROVE LedgerStep
    <2>1. PICK closing \in {{}, ClosingSteps[c]} :
            state' = WithEnqueued(StoodDown(c), closing)
      BY <1>9 DEF Withdraw
    <2>2. closing \in SUBSET Once!StepsOf(c)
      BY LedgerAssumption, SameCaseAssumption DEF Once!StepsOf
    <2>3. StandDown(c, closing)
      BY <1>9, <2>1 DEF Withdraw, StandDown
    <2> QED BY <2>2, <2>3 DEF LedgerStep
  <1>10. ASSUME NEW w \in Workers, WorkerDies(w) PROVE LedgerStep
    BY <1>10 DEF WorkerDies, LedgerStep
  <1>11. CASE UNCHANGED vars
    BY <1>11 DEF vars, LedgerStep
  <1> QED
    BY <1>1, <1>2, <1>4, <1>5, <1>6, <1>7, <1>8, <1>9, <1>10, <1>11 DEF Next

\* A step commits at most one transition, and only a withdrawal settles one without
\* (steps._commit_transition, withdrawal._stand_down_steps).
THEOREM CommitsOnce == Spec => []CommittedOnce
  <1>1. Init => CommittedOnce
    BY DEF Init, CommittedOnce, Settled
  <1>2. TypeOK /\ CommittedOnce /\ [Next]_vars => CommittedOnce'
    <2> SUFFICES ASSUME TypeOK, CommittedOnce, LedgerStep, NEW t \in Steps
                 PROVE  /\ events'[t] <= 1
                        /\ events'[t] = 1 => state'[t] \in Settled
                        /\ state'[t] \in Settled /\ events'[t] = 0 => CaseOf[t] \in withdrawn'
      BY EveryStepIsALedgerStep DEF CommittedOnce
    <2>0. /\ events[t] \in Nat /\ events[t] <= 1
          /\ events[t] = 1 => state[t] \in Settled
          /\ state[t] \in Settled /\ events[t] = 0 => CaseOf[t] \in withdrawn
      BY DEF CommittedOnce, TypeOK
    <2> USE DEF Settled, Unsettled, Claimable
    <2>1. ASSUME NEW s \in Steps, NEW d \in Settled, NEW new \in SUBSET Successors[s],
                 Commit(s, d, new)
          PROVE  /\ events'[t] <= 1
                 /\ events'[t] = 1 => state'[t] \in Settled
                 /\ state'[t] \in Settled /\ events'[t] = 0 => CaseOf[t] \in withdrawn'
      <3>1. CASE t = s
        <4>1. state'[t] = d /\ events'[t] = events[t] + 1
          BY <2>1, <3>1 DEF Commit, WithEnqueued, TypeOK
        <4>2. events[t] = 0
          BY <2>0, <2>1, <3>1 DEF Commit
        <4> QED BY <4>1, <4>2
      <3>2. CASE t # s
        <4>1. /\ state'[t] = state[t] \/ (state[t] = "ABSENT" /\ state'[t] = "PENDING")
              /\ events'[t] = events[t] /\ withdrawn' = withdrawn
          BY <2>1, <3>2 DEF Commit, WithEnqueued, TypeOK
        <4> QED BY <2>0, <4>1
      <3> QED BY <3>1, <3>2
    <2>2. ASSUME NEW s \in Steps, NEW value \in Unsettled, Reschedule(s, value)
          PROVE  /\ events'[t] <= 1
                 /\ events'[t] = 1 => state'[t] \in Settled
                 /\ state'[t] \in Settled /\ events'[t] = 0 => CaseOf[t] \in withdrawn'
      BY <2>0, <2>2 DEF Reschedule, TypeOK
    <2>3. ASSUME NEW s \in Steps, Insert(s)
          PROVE  /\ events'[t] <= 1
                 /\ events'[t] = 1 => state'[t] \in Settled
                 /\ state'[t] \in Settled /\ events'[t] = 0 => CaseOf[t] \in withdrawn'
      BY <2>0, <2>3 DEF Insert, TypeOK
    <2>4. ASSUME NEW c \in Cases, NEW closing \in SUBSET Once!StepsOf(c), StandDown(c, closing)
          PROVE  /\ events'[t] <= 1
                 /\ events'[t] = 1 => state'[t] \in Settled
                 /\ state'[t] \in Settled /\ events'[t] = 0 => CaseOf[t] \in withdrawn'
      BY <2>0, <2>4 DEF StandDown, WithEnqueued, StoodDown, TypeOK
    <2>5. CASE UNCHANGED <<state, events, version, withdrawn>>
      BY <2>0, <2>5
    <2> QED BY <2>1, <2>2, <2>3, <2>4, <2>5 DEF LedgerStep
  <1>3. Spec => []TypeOK
    BY TypeCorrect
  <1> QED BY <1>1, <1>2, <1>3, PTL DEF Spec

-----------------------------------------------------------------------------
(* Refinement.                                                             *)

\* The ledger with its workers, leases, retries and withdrawals implements the
\* abstract ledger in which a planned step simply settles once.
THEOREM Refinement == Spec => LedgerIsOnce
  <1>1. Init => Once!Init
    BY LedgerAssumption
    DEF Init, Once!Init, Status, Unsettled, Claimable
  <1>2. TypeOK /\ [Next]_vars => [Once!Next]_(Once!vars)
    <2> SUFFICES ASSUME TypeOK, LedgerStep PROVE [Once!Next]_(Once!vars)
      BY EveryStepIsALedgerStep
    <2> USE DEF Settled, Unsettled, Claimable
    <2>1. ASSUME NEW s \in Steps, NEW d \in Settled, NEW new \in SUBSET Successors[s],
                 Commit(s, d, new)
          PROVE  Once!Settle(s, new)
      BY <2>1 DEF Commit, WithEnqueued, TypeOK, Status, Once!Settle
    <2>2. ASSUME NEW s \in Steps, NEW value \in Unsettled, Reschedule(s, value)
          PROVE  UNCHANGED Once!vars
      BY <2>2 DEF Reschedule, TypeOK, Status, Once!vars
    <2>3. ASSUME NEW s \in Steps, Insert(s) PROVE Once!Plan(s)
      BY <2>3 DEF Insert, TypeOK, Status, Once!Plan
    <2>4. ASSUME NEW c \in Cases, NEW closing \in SUBSET Once!StepsOf(c),
                 StandDown(c, closing)
          PROVE  \E stopped \in SUBSET Once!StepsOf(c) : Once!StandDown(c, stopped, closing)
      <3> DEFINE stopped == {t \in Once!StepsOf(c) : state[t] \in Claimable}
      <3>1. closing \subseteq Steps /\ stopped \subseteq Steps
        BY DEF Once!StepsOf
      <3>2. Once!StandDown(c, stopped, closing)
        BY <2>4, <3>1
        DEF StandDown, WithEnqueued, StoodDown, TypeOK, Status, Once!StepsOf, Once!StandDown
      <3> QED BY <3>2
    <2>5. CASE UNCHANGED <<state, events, version, withdrawn>>
      BY <2>5 DEF Status, Once!vars
    <2> QED BY <2>1, <2>2, <2>3, <2>4, <2>5 DEF LedgerStep, Once!Next
  <1>3. Spec => []TypeOK
    BY TypeCorrect
  <1> QED BY <1>1, <1>2, <1>3, PTL DEF Spec, LedgerIsOnce, Once!Spec
=============================================================================
