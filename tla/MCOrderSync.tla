----------------------------- MODULE MCOrderSync -----------------------------
(* OrderSync on one order: for its mirror, two workers and an item that is  *)
(* not mapped; for an amendment of it, two mapped items and one worker.     *)
EXTENDS OrderSync, TLC

CONSTANTS order, w1, w2, cake, tart, novelty, amendment

MCOrders == {order}
MCWorkers == {w1, w2}
MCMapped == {cake, tart}
MCItems == {cake, tart, novelty}
MirrorItems == {cake, novelty}
=============================================================================
