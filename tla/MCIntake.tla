------------------------------- MODULE MCIntake -------------------------------
(* Intake with two cases about one delivery of two lines, and two more          *)
(* deliveries of the resource the first case names.  It names the supplier of   *)
(* two of the three, and says "today", when the third is due; the second case   *)
(* names a supplier that owes nothing it reports.                               *)
EXTENDS Intake

CONSTANTS a, b

TwoCases == {a, b}

FourLines   == {"rasp1", "straw1", "rasp2", "rasp3"}
Delivered   == [rasp1 |-> 1, straw1 |-> 1, rasp2 |-> 2, rasp3 |-> 3]
Holding     == [rasp1 |-> "rasp", straw1 |-> "straw", rasp2 |-> "rasp", rasp3 |-> "rasp"]
Counted     == [rasp1 |-> 2, straw1 |-> Unknown, rasp2 |-> 2, rasp3 |-> 2]
Heard       == [c \in TwoCases |-> IF c = a THEN "rasp" ELSE "straw"]
Supplier    == [c \in TwoCases |-> IF c = a THEN {1, 2} ELSE {2}]
Today       == [c \in TwoCases |-> IF c = a THEN {3} ELSE {1}]
ReadAtOnce  == {a}
NoneAtHand  == {}
Spoken      == {[rasp |-> "ARRIVED", straw |-> "SILENT"],
                [rasp |-> "MISSING", straw |-> "ARRIVED"]}
=============================================================================
