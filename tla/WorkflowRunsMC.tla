--------------------------- MODULE WorkflowRunsMC ---------------------------
(* Small instances of WorkflowRuns for TLC.                                *)
EXTENDS WorkflowRuns, TLC

CONSTANTS g1, u1, p1, p2

Symmetry == Permutations(Workers)

==============================================================================
