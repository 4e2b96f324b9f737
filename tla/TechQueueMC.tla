----------------------------- MODULE TechQueueMC -----------------------------
(* Small instances of TechQueue for TLC: one task, one worker that may be given  *)
(* it twice and still be sending about the first run, two calls at a time.       *)
EXTENDS TechQueue

CONSTANTS w1, t1, c1, c2
=============================================================================
