---------------------------- MODULE MCMemoryTest ----------------------------
(* MemoryTest for TLC: two worker threads. *)
EXTENDS MemoryTest
CONSTANTS w1, w2
TwoWorkers == {w1, w2}
=============================================================================
