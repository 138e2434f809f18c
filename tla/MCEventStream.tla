---------------------------- MODULE MCEventStream ----------------------------
(* EventStream with two writers and one client.                             *)
EXTENDS EventStream

CONSTANTS v, w, a

TwoWriters == {v, w}
OneClient  == {a}
=============================================================================
