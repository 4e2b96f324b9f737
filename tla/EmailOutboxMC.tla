---------------------------- MODULE EmailOutboxMC ----------------------------
EXTENDS EmailOutbox, TLC

CONSTANTS e1, e2, p1, p2

Symmetry == Permutations({e1, e2})
=============================================================================
