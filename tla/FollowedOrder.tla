---------------------------- MODULE FollowedOrder ----------------------------
(***************************************************************************)
(* What a mirror promises: somebody else writes the order, one version at  *)
(* a time; the mirror shows a version that was written, whole, and moves   *)
(* to a later one or not at all, and to the latest in the end if it can    *)
(* read that one.                                                          *)
(***************************************************************************)
EXTENDS Naturals, Sequences

CONSTANTS Orders, Items,
          Readable, \* the items the mirror can show
          Opening   \* what every order carries at version 1

VARIABLES written, \* the content of each order's versions so far
          shown    \* the version the mirror is at, and what it shows there

Init ==
    /\ written = [o \in Orders |-> <<Opening>>]
    /\ shown = [o \in Orders |-> [version |-> 1, item |-> Opening]]

Write(o) ==
    /\ \E i \in Items : written' = [written EXCEPT ![o] = Append(@, i)]
    /\ UNCHANGED shown

MoveTo(o, v) ==
    /\ written[o][v] \in Readable
    /\ shown' = [shown EXCEPT ![o] = [version |-> v, item |-> written[o][v]]]
    /\ UNCHANGED written

Follow(o) == \E v \in shown[o].version + 1 .. Len(written[o]) : MoveTo(o, v)

CatchUp(o) == shown[o].version < Len(written[o]) /\ MoveTo(o, Len(written[o]))

Next == \E o \in Orders : Write(o) \/ Follow(o)

Safety == Init /\ [][Next]_<<written, shown>>

Spec ==
    /\ Safety
    /\ \A o \in Orders : WF_<<written, shown>>(CatchUp(o))
=============================================================================
