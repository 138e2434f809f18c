----------------------------- MODULE FollowedLog -----------------------------
(***************************************************************************)
(* What the event spine promises whoever follows it: entries are added     *)
(* behind every entry that is there, and a follower has been told of a     *)
(* beginning of the log, whole, which only grows.                          *)
(***************************************************************************)
EXTENDS Naturals

CONSTANTS Followers

VARIABLES log, \* the numbers of the entries
          told \* the entries each follower knows of

Init ==
    /\ log = {}
    /\ told = [f \in Followers |-> {}]

Add ==
    /\ log' \subseteq Nat
    /\ log \subseteq log'
    /\ \A new \in log' \ log, old \in log : new > old
    /\ UNCHANGED told

Tell(f) ==
    \E n \in log :
        /\ told[f] \subseteq 0..n
        /\ told' = [told EXCEPT ![f] = {e \in log : e <= n}]
        /\ UNCHANGED log

Next == Add \/ \E f \in Followers : Tell(f)

Spec == Init /\ [][Next]_<<log, told>>
=============================================================================
