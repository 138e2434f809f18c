---------------------------- MODULE MCStepLedger ----------------------------
(* StepLedger on two workers and one case: a sentence for the model, which  *)
(* a message may bring up again, and the step that it leads to and that a   *)
(* withdrawal closes with.                                                  *)
EXTENDS StepLedger, TLC

CONSTANTS w1, w2, sentence, close, c1

MCWorkers == {w1, w2}
MCSteps == {sentence, close}
MCCases == {c1}
MCCaseOf == [s \in MCSteps |-> c1]
MCSemantic == {sentence}
MCSuccessors == [s \in MCSteps |-> IF s = sentence THEN {close} ELSE {}]
MCInitial == {sentence}
MCWakeUps == {sentence, close}
MCClosing == [c \in MCCases |-> {close}]
=============================================================================
