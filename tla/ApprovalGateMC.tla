--------------------------- MODULE ApprovalGateMC ---------------------------
(* Small instances of ApprovalGate for TLC.                                *)
EXTENDS ApprovalGate, TLC

CONSTANTS alice, bob, w1, w2, w3

\* A double click: one requester, one piece of work behind withApprovalExecution.
OneKey  == {[by |-> alice, work |-> w1]}
OnePath == [k \in OneKey |-> "DEFERRED"]

\* alice's work settles in each of the three ways; bob is the only approver, so
\* his own work can only be let through (w1, exempt) or blocked (w2).
SeveralKeys  == [by : {alice}, work : {w1, w2, w3}] \cup [by : {bob}, work : {w1, w2}]
SeveralPaths ==
  [k \in SeveralKeys |-> CASE k.work = w1 -> "DEFERRED"
                           [] k.work = w2 -> "IN_TRANSACTION"
                           [] k.work = w3 -> "IMMEDIATE"]
ExemptKeys   == {[by |-> bob, work |-> w1]}

Symmetry == Permutations(Requests) \cup Permutations(Calls)

==============================================================================
