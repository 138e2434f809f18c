--------------------------- MODULE MCCaseWorkflow ---------------------------
(* CaseWorkflow on one promise, or on two whose first plan asks both or     *)
(* blocks both.                                                             *)
EXTENDS CaseWorkflow

CONSTANTS a, b

Two == {a, b}
One == {b}
BothAsked == [t \in Two |-> "APPROVAL"]
JustAsked == [t \in One |-> "APPROVAL"]
JustBlocked == [t \in Two |-> "BLOCKED"]
=============================================================================
