-------------------------- MODULE MCGraphRecovery --------------------------
(* GraphRecovery on a small bakery: raspberries, or strawberries instead of *)
(* them, and butter nothing stands in for.  A delivery brings raspberries   *)
(* and strawberries before the last order starts.                           *)
EXTENDS GraphRecovery, TLC

CONSTANTS a, b, raspberry, strawberry, butter, l1, l2

MCSymmetry == Permutations({a, b})
MCIngredients == {raspberry, strawberry, butter}
MCSubstitute == raspberry :> strawberry @@ strawberry :> butter @@ butter :> None
MCStart == 1 :> 1 @@ 2 :> 2 @@ 3 :> 2
MCConstraints == 1 :> {"PREAPPROVED_ALTERNATIVE"} @@ 2 :> {"ASK_BEFORE_VISIBLE_CHANGE"}
                 @@ 3 :> {"ASK_BEFORE_VISIBLE_CHANGE"}
MCLines == {l1, l2}
MCCommitment == [l \in MCLines |-> "delivery"]
MCDue == [l \in MCLines |-> 2]
MCBrings == l1 :> raspberry @@ l2 :> strawberry
MCQuantity == [l \in MCLines |-> 1]
MCHand == raspberry :> 2 @@ strawberry :> 1 @@ butter :> 1
ScarceHand == raspberry :> 1 @@ strawberry :> 2 @@ butter :> 1
MCPin == [o \in Orders |-> raspberry]
=============================================================================
