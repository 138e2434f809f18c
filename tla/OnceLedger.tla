----------------------------- MODULE OnceLedger -----------------------------
(***************************************************************************)
(* What the step ledger promises the rest of the backend, with workers,    *)
(* leases, attempts, retries and locks all gone: a planned step is settled *)
(* once, by one transaction, which also plans whatever follows from it and *)
(* moves its case to its next version.  StepLedger.tla implements this.    *)
(***************************************************************************)
EXTENDS Naturals

CONSTANTS Steps,        \* every row case_steps may ever hold
          Cases,
          CaseOf,       \* the case each step belongs to
          Successors,   \* the steps a settled step may plan
          InitialSteps  \* the steps planned when the case is opened

VARIABLES status,       \* "absent", "open" or "settled", per step
          edition       \* the version of each case

vars == <<status, edition>>

Init ==
    /\ status = [s \in Steps |-> IF s \in InitialSteps THEN "open" ELSE "absent"]
    /\ edition = [c \in Cases |-> 0]

\* A deadline, an inbound message or a command plans a step.
Plan(s) ==
    /\ status[s] = "absent"
    /\ status' = [status EXCEPT ![s] = "open"]
    /\ UNCHANGED edition

\* One open step settles; those of `planned' not yet planned become open.
Settle(s, planned) ==
    /\ status[s] = "open"
    /\ status' = [t \in Steps |->
                    IF t = s THEN "settled"
                    ELSE IF t \in planned /\ status[t] = "absent" THEN "open"
                    ELSE status[t]]
    /\ edition' = [edition EXCEPT ![CaseOf[s]] = @ + 1]

StepsOf(c) == {t \in Steps : CaseOf[t] = c}

\* A withdrawal settles the open steps of one case that nobody has begun, `stopped',
\* and plans `closing'.
StandDown(c, stopped, closing) ==
    /\ \A t \in stopped : status[t] = "open"
    /\ status' = [t \in Steps |->
                    IF t \in stopped THEN "settled"
                    ELSE IF t \in closing /\ status[t] = "absent" THEN "open"
                    ELSE status[t]]
    /\ edition' = [edition EXCEPT ![c] = @ + 1]

Next ==
    \/ \E s \in Steps : Plan(s)
    \/ \E s \in Steps : \E planned \in SUBSET Successors[s] : Settle(s, planned)
    \/ \E c \in Cases : \E stopped, closing \in SUBSET StepsOf(c) :
                          StandDown(c, stopped, closing)

Spec == Init /\ [][Next]_vars
=============================================================================
