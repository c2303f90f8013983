------------------------------ MODULE MCSyncQueue ------------------------------
(* Instances of SyncQueue for TLC: a work queue and a pool's queue.          *)
EXTENDS SyncQueue

CONSTANTS t1, t2, t3, d1, d2, d3
================================================================================
