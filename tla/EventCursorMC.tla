---------------------------- MODULE EventCursorMC ----------------------------
(* EventCursor for TLC: rules that answer one kind, silent or in a loop.        *)
EXTENDS EventCursor, TLC

CONSTANTS a, b, k1, k2

\* Rule a answers the kind its own action emits; b, silent, answers another.
OwnKinds == [r \in Rules |-> IF r = a THEN k1 ELSE k2]
LoopOnA  == [r \in Rules |-> IF r = a THEN k1 ELSE NoKind]

Symmetry == Permutations(Workers \ Admins)
==============================================================================
