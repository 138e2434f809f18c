------------------------------ MODULE MCOutbox ------------------------------
(* Outbox on two dispatchers and one case's two gated effects: a question   *)
(* and the amendment that its answer led to.                                *)
EXTENDS Outbox, TLC

CONSTANTS d1, d2, question, amendment

MCDispatchers == {d1, d2}
MCEffects == {question, amendment}
MCQuestions == {question}
MCAmendments == {amendment}
=============================================================================
