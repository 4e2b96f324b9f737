--------------------------- MODULE MessageLedgerMC ---------------------------
(* Small instances of MessageLedger for TLC.                               *)
EXTENDS MessageLedger, TLC

CONSTANTS k1, t1, c1, c2, c3

\* RETRY_SCHEDULE_MIN grows; so does this one.
Delays == <<1, 2>>

Symmetry == Permutations(Calls)

==============================================================================
