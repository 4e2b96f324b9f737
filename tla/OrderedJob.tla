----------------------------- MODULE OrderedJob -----------------------------
(***************************************************************************)
(* What the ledger of runs promises of a run, without leases, passes or     *)
(* rules (lib/workflow/engine.ts:15-48): nothing is done before it was      *)
(* consented to and nothing at all if it was turned down; its actions are   *)
(* carried out in their order, again only if the record of the last one is  *)
(* missing; attempts are counted one by one; an end is an end, and a        *)
(* consent is used for a job that is done.  Those who carry a job out may   *)
(* have lost it without knowing: they can repeat an action, or still carry  *)
(* one out after the end, but they record nothing any more.                 *)
(***************************************************************************)
EXTENDS Naturals

CONSTANTS
  Jobs,
  Steps        \* actions of a job

VARIABLES
  state,       \* job -> where it is
  attempt,     \* job -> how often it was claimed
  done,        \* job -> leading actions on record
  effect,      \* job -> actions carried out
  consent      \* job -> "none" (not asked for), "asked", "given", "refused", "used"

vars == <<state, attempt, done, effect, consent>>

Init ==
  /\ state = [j \in Jobs |-> "absent"]
  /\ attempt = [j \in Jobs |-> 0]
  /\ done = [j \in Jobs |-> 0]
  /\ effect = [j \in Jobs |-> {}]
  /\ consent = [j \in Jobs |-> "none"]

Becomes(j, s) == state' = [state EXCEPT ![j] = s]
Claimed(j) == attempt' = [attempt EXCEPT ![j] = @ + 1]

Propose(j) ==
  /\ state[j] = "absent"
  /\ Becomes(j, "waiting")
  /\ consent' = [consent EXCEPT ![j] = "asked"]
  /\ UNCHANGED <<attempt, done, effect>>

\* A job that needs no consent.
Start(j) ==
  /\ state[j] = "absent"
  /\ Becomes(j, "open")
  /\ Claimed(j)
  /\ UNCHANGED <<done, effect, consent>>

Decide(j, c) ==
  /\ consent[j] = "asked"
  /\ consent' = [consent EXCEPT ![j] = c]
  /\ UNCHANGED <<state, attempt, done, effect>>

\* For the first time, or from a holder that is taken for dead.
Claim(j) ==
  /\ \/ state[j] = "waiting" /\ consent[j] = "given"
     \/ state[j] = "open"
  /\ Becomes(j, "open")
  /\ Claimed(j)
  /\ UNCHANGED <<done, effect, consent>>

\* By the holder, or by one that has lost the job.
CarryOut(j, a) ==
  /\ state[j] \in {"open", "done", "broken"}
  /\ a <= done[j] + 1
  /\ effect' = [effect EXCEPT ![j] = @ \cup {a}]
  /\ UNCHANGED <<state, attempt, done, consent>>

\* By the holder.
Record(j) ==
  /\ state[j] = "open"
  /\ done[j] + 1 \in effect[j]
  /\ done' = [done EXCEPT ![j] = @ + 1]
  /\ UNCHANGED <<state, attempt, effect, consent>>

Finish(j) ==
  /\ state[j] = "open"
  /\ done[j] = Steps
  /\ Becomes(j, "done")
  /\ UNCHANGED <<attempt, done, effect, consent>>

\* An action failed, the attempts are used up, or the rule has changed.
Break(j) ==
  /\ state[j] = "open"
  /\ Becomes(j, "broken")
  /\ UNCHANGED <<attempt, done, effect, consent>>

\* Refused, out of date, or the rule has changed.
TurnDown(j) ==
  /\ state[j] = "waiting"
  /\ consent[j] \in {"given", "refused"}
  /\ Becomes(j, "void")
  /\ UNCHANGED <<attempt, done, effect, consent>>

Use(j) ==
  /\ state[j] = "done"
  /\ consent[j] = "given"
  /\ consent' = [consent EXCEPT ![j] = "used"]
  /\ UNCHANGED <<state, attempt, done, effect>>

Next ==
  \E j \in Jobs :
    \/ Propose(j) \/ Start(j)
    \/ \E c \in {"given", "refused"} : Decide(j, c)
    \/ Claim(j) \/ Record(j) \/ Finish(j) \/ Break(j) \/ TurnDown(j) \/ Use(j)
    \/ \E a \in 1..Steps : CarryOut(j, a)

Spec == Init /\ [][Next]_vars
=============================================================================
