---------------------------- MODULE OneTimePermit ----------------------------
(***************************************************************************)
(* What the two-person approval gate promises about one approval, without  *)
(* rows, clocks or callers: lib/approvals/service.ts lists it in its head  *)
(* comment ("consumed exactly once", "expired is expired", "consumed but   *)
(* not carried out leaves the approval whole").                            *)
(*                                                                         *)
(* permit[r] is the life of one approval.  trace[r] is what the business   *)
(* data shows of it: "clean" (nothing written), "written" (the work is     *)
(* there), "doubtful" (the work may be there, but its holder failed or was *)
(* given up for dead).                                                     *)
(***************************************************************************)

CONSTANT Requests

VARIABLES permit, trace

vars == <<permit, trace>>

PermitState == {"absent", "asked", "open", "held", "spent", "closed"}
TraceState  == {"clean", "written", "doubtful"}

TypeOK ==
  /\ permit \in [Requests -> PermitState]
  /\ trace \in [Requests -> TraceState]

Init ==
  /\ permit = [r \in Requests |-> "absent"]
  /\ trace  = [r \in Requests |-> "clean"]

\* The permits of S lapse; r, when it is one of Requests, moves to s.
Becomes(S, r, s) ==
  permit' = [x \in Requests |-> IF x = r THEN s
                                ELSE IF x \in S THEN "closed" ELSE permit[x]]

Open == {r \in Requests : permit[r] = "open"}

Lapse(S) ==
  /\ S \subseteq Open
  /\ permit' = [x \in Requests |-> IF x \in S THEN "closed" ELSE permit[x]]
  /\ UNCHANGED trace

Ask(S, r) ==
  /\ S \subseteq Open
  /\ permit[r] = "absent"
  /\ Becomes(S, r, "asked")
  /\ UNCHANGED trace

Decide(r, s) ==
  /\ permit[r] = "asked"
  /\ s \in {"open", "closed"}
  /\ Becomes({}, r, s)
  /\ UNCHANGED trace

\* Take the permit before the work, or spend it on the spot.
Take(r, s) ==
  /\ permit[r] = "open"
  /\ s \in {"held", "spent"}
  /\ Becomes({}, r, s)
  /\ UNCHANGED trace

\* The work is written under a permit that is taken, and never twice.
Use(r) ==
  /\ permit[r] \in {"held", "spent"}
  /\ trace[r] # "written"
  /\ trace' = [trace EXCEPT ![r] = "written"]
  /\ UNCHANGED permit

\* The work is written, and its holder fails all the same.
Botch(r) ==
  /\ permit[r] \in {"held", "spent"}
  /\ trace[r] # "written"
  /\ trace' = [trace EXCEPT ![r] = "doubtful"]
  /\ UNCHANGED permit

\* The work and the spending of its permit as one indivisible step.
UseAndSpend(S, r) ==
  /\ S \subseteq Open
  /\ permit[r] = "open"
  /\ trace[r] # "written"
  /\ Becomes(S, r, "spent")
  /\ trace' = [trace EXCEPT ![r] = "written"]

Spend(r) ==
  /\ permit[r] = "held"
  /\ trace[r] = "written"
  /\ Becomes({}, r, "spent")
  /\ UNCHANGED trace

\* Work that did not happen gives its permit back.
GiveBack(r) ==
  /\ permit[r] = "held"
  /\ trace[r] # "written"
  /\ Becomes({}, r, "open")
  /\ UNCHANGED trace

\* Holders given up for dead lose their permits; what they wrote is in doubt.
Reclaim(S) ==
  /\ \A r \in S : permit[r] = "held"
  /\ permit' = [x \in Requests |-> IF x \in S THEN "open" ELSE permit[x]]
  /\ trace' = [x \in Requests |->
                 IF x \in S /\ trace[x] = "written" THEN "doubtful" ELSE trace[x]]

Next ==
  \/ \E S \in SUBSET Requests : Lapse(S) \/ Reclaim(S)
  \/ \E r \in Requests :
       \/ \E s \in PermitState : Decide(r, s) \/ Take(r, s)
       \/ Use(r) \/ Botch(r) \/ Spend(r) \/ GiveBack(r)
       \/ \E S \in SUBSET Requests : Ask(S, r) \/ UseAndSpend(S, r)

Spec == Init /\ [][Next]_vars

==============================================================================
