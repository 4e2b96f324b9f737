---------------------------- MODULE WorkflowRuns ----------------------------
(***************************************************************************)
(* The rule engine's ledger workflow_runs: how passes of runWorkflows that *)
(* overlap, stall or die create, claim, execute, recover and settle runs.  *)
(*   src/lib/workflow/engine.ts      processRule, claimRun, executeRun,    *)
(*                                   sweepWaiting, recoverStaleRuns        *)
(*   src/lib/workflow/actions.ts     executeActions                        *)
(*   src/lib/approvals/service.ts    settleMachineApproval, expireMachine- *)
(*                                   Approval                              *)
(*                                                                         *)
(* A worker is one pass.  It handles rows one by one; a row that was read  *)
(* long before it is handled is a pass that waits between two steps.       *)
(* Time is relative: a lease and the validity of an approval are counted   *)
(* down, so that no clock has to be bounded.  Which events give rise to a  *)
(* run is EventCursor's subject.                                           *)
(***************************************************************************)
EXTENDS Integers, FiniteSets

CONSTANTS
  Runs, Workers,
  Gated,          \* runs whose rule has an approval gate
  Steps,          \* actions of the rule
  MaxAttempts,    \* WORKFLOW_MAX_ATTEMPTS
  Lease,          \* WORKFLOW_LEASE_MINUTES, in ticks
  ValidFor,       \* APPROVAL_VALID_HOURS, in ticks
  MaxRuns,        \* bound on the runs that are opened
  MaxCrashes,     \* bound on the passes that die
  NoRun

ASSUME RunsAssumption == Gated \subseteq Runs /\ NoRun \notin Runs

ASSUME LimitsAssumption ==
  /\ Steps \in Nat \ {0} /\ MaxAttempts \in Nat \ {0}
  /\ Lease \in Nat \ {0} /\ ValidFor \in Nat \ {0} /\ MaxRuns \in Nat /\ MaxCrashes \in Nat

Final     == {"DONE", "FAILED", "SKIPPED", "REJECTED"}
RunStatus == {"NONE", "WAITING_APPROVAL", "PENDING"} \cup Final
Approval  == {"NONE", "PENDING", "APPROVED", "REJECTED", "EXECUTED", "EXPIRED"}
\* "run", "wait" (the rule is paused or on dry run), "stop" (it has been edited or
\* archived), or "hold": edited and, as it stands now, paused or on dry run.
Verdict   == {"run", "wait", "stop", "hold"}
Step      == {"idle", "pass", "expire", "reject", "judge", "skip", "claim", "act",
              "mark", "close", "settle", "judgeStale", "stop"}

VARIABLES
  \* table workflow_runs
  status, attempt,
  lease,      \* ticks until lease_until
  done,       \* leading steps recorded DONE
  \* table approval_requests, the request of a gated run
  approval,
  left,       \* ticks the approval stays valid
  error,      \* execution_error is set
  verdict,    \* what ruleVerdict says of the run
  \* the passes
  pc, at,
  fresh,      \* runs whose approval was not out of date at the pass's `now`
  held,       \* the attempt it claimed, or read
  todo,       \* the action it is at, or the first not DONE when it read the run
  ok,         \* no action failed
  effect,     \* history: actions whose business effect is there
  crashes

runVars    == <<status, attempt, lease, done>>
gateVars   == <<approval, left, error>>
workerVars == <<pc, at, fresh, held, todo, ok>>
vars       == <<runVars, gateVars, verdict, workerVars, effect, crashes>>

------------------------------------------------------------------------------
Init ==
  /\ status = [r \in Runs |-> "NONE"]
  /\ attempt = [r \in Runs |-> 0]
  /\ lease = [r \in Runs |-> 0]
  /\ done = [r \in Runs |-> 0]
  /\ approval = [r \in Runs |-> "NONE"]
  /\ left = [r \in Runs |-> 0]
  /\ error = [r \in Runs |-> FALSE]
  /\ verdict = [r \in Runs |-> "run"]
  /\ pc = [w \in Workers |-> "idle"]
  /\ at = [w \in Workers |-> NoRun]
  /\ fresh = [w \in Workers |-> {}]
  /\ held = [w \in Workers |-> 0]
  /\ todo = [w \in Workers |-> 0]
  /\ ok = [w \in Workers |-> TRUE]
  /\ effect = [r \in Runs |-> {}]
  /\ crashes = 0

Goto(w, s) ==
  /\ pc' = [pc EXCEPT ![w] = s]
  /\ UNCHANGED <<at, fresh, held, todo, ok>>

\* The worker takes up row r with what it has read of it.
TakeUp(w, r, s, h, t, b) ==
  /\ pc' = [pc EXCEPT ![w] = s]
  /\ at' = [at EXCEPT ![w] = r]
  /\ held' = [held EXCEPT ![w] = h]
  /\ todo' = [todo EXCEPT ![w] = t]
  /\ ok' = [ok EXCEPT ![w] = b]
  /\ UNCHANGED fresh

\* On to the next row.
NextRow(w) == TakeUp(w, NoRun, "pass", 0, 0, TRUE)

LeaseExpired(r) == status[r] = "PENDING" /\ lease[r] = 0

\* Mutant: the fence forgets which attempt it is for.
HeldByAnyAttempt(w) == status[at[w]] = "PENDING"

\* heldBy: the fence of every write of an execution.
HeldBy(w) == status[at[w]] = "PENDING" /\ attempt[at[w]] = held[w]

\* After a run has ended, its approval is settled; a run without one needs nothing.
SettleNext(w, r, b) ==
  IF r \in Gated THEN TakeUp(w, r, "settle", 0, 0, b) ELSE NextRow(w)

\* Where an execution goes on: the next action, or the end of the run.
ActOrClose(t) == IF t <= Steps THEN "act" ELSE "close"

------------------------------------------------------------------------------
(* A pass, and what people do meanwhile                                    *)

BeginPass(w) ==
  /\ pc[w] = "idle"
  /\ pc' = [pc EXCEPT ![w] = "pass"]
  /\ fresh' = [fresh EXCEPT ![w] = {r \in Runs : approval[r] = "APPROVED" => left[r] > 0}]
  /\ UNCHANGED <<runVars, gateVars, verdict, at, held, todo, ok, effect, crashes>>

Leave(w) ==
  /\ pc' = [pc EXCEPT ![w] = "idle"]
  /\ at' = [at EXCEPT ![w] = NoRun]
  /\ fresh' = [fresh EXCEPT ![w] = {}]
  /\ held' = [held EXCEPT ![w] = 0]
  /\ todo' = [todo EXCEPT ![w] = 0]
  /\ ok' = [ok EXCEPT ![w] = TRUE]

EndPass(w) ==
  /\ pc[w] = "pass"
  /\ Leave(w)
  /\ UNCHANGED <<runVars, gateVars, verdict, effect, crashes>>

Crash(w) ==
  /\ pc[w] # "idle" /\ crashes < MaxCrashes
  /\ crashes' = crashes + 1
  /\ Leave(w)
  /\ UNCHANGED <<runVars, gateVars, verdict, effect>>

\* The bound MaxRuns leaves room for one more run.
Room == Cardinality({r \in Runs : status[r] # "NONE"}) < MaxRuns

\* processRule, rule with a gate: the run and its request in one transaction.
\* The rule may have changed since the pass read it.
OpenGatedRun(w, r) ==
  /\ pc[w] = "pass" /\ r \in Gated /\ status[r] = "NONE" /\ Room
  /\ status' = [status EXCEPT ![r] = "WAITING_APPROVAL"]
  /\ approval' = [approval EXCEPT ![r] = "PENDING"]
  /\ \E v \in Verdict : verdict' = [verdict EXCEPT ![r] = v]
  /\ UNCHANGED <<attempt, lease, done, left, error, workerVars, effect, crashes>>

\* processRule, no gate: the run is born claimed and is executed at once.
OpenRun(w, r) ==
  /\ pc[w] = "pass" /\ r \notin Gated /\ status[r] = "NONE" /\ Room
  /\ status' = [status EXCEPT ![r] = "PENDING"]
  /\ attempt' = [attempt EXCEPT ![r] = 1]
  /\ lease' = [lease EXCEPT ![r] = Lease]
  /\ \E v \in Verdict : verdict' = [verdict EXCEPT ![r] = v]
  /\ TakeUp(w, r, "act", 1, 1, TRUE)
  /\ UNCHANGED <<done, gateVars, effect, crashes>>

\* decideApprovalCore on the request of the machine.
DecideApproval(r, s) ==
  /\ approval[r] = "PENDING"
  /\ approval' = [approval EXCEPT ![r] = s]
  /\ left' = [left EXCEPT ![r] = ValidFor]
  /\ UNCHANGED <<runVars, error, verdict, workerVars, effect, crashes>>

\* The rule is paused, resumed, put on dry run, edited or archived.  An edited rule
\* has another version than the run, and never gets that one back.
ChangeRule(r, v) ==
  /\ status[r] \in {"WAITING_APPROVAL", "PENDING"}
  /\ v # verdict[r]
  /\ verdict[r] \in {"stop", "hold"} => v \in {"stop", "hold"}
  /\ verdict' = [verdict EXCEPT ![r] = v]
  /\ UNCHANGED <<runVars, gateVars, workerVars, effect, crashes>>

------------------------------------------------------------------------------
(* sweepWaiting                                                            *)

\* Mutant: a decided request is taken for an approved one.
NotExpired(r) == approval[r] # "EXPIRED"

\* Only this request lets its run go on.
Agreed(r) == approval[r] = "APPROVED"

LookWaiting(w, r) ==
  /\ pc[w] = "pass" /\ status[r] = "WAITING_APPROVAL"
  /\ approval[r] \in {"APPROVED", "REJECTED", "EXPIRED"}
  /\ TakeUp(w, r, IF ~Agreed(r) THEN "reject"
                  ELSE IF r \in fresh[w] THEN "judge" ELSE "expire", 0, 0, TRUE)
  /\ UNCHANGED <<runVars, gateVars, verdict, effect, crashes>>

ExpireMachineApproval(w) ==
  /\ pc[w] = "expire"
  /\ approval' = [approval EXCEPT ![at[w]] = IF @ = "APPROVED" THEN "EXPIRED" ELSE @]
  /\ Goto(w, "reject")
  /\ UNCHANGED <<runVars, left, error, verdict, effect, crashes>>

\* finishRun(WAITING_APPROVAL -> REJECTED).
RejectRun(w) ==
  /\ pc[w] = "reject"
  /\ status' = [status EXCEPT ![at[w]] = IF @ = "WAITING_APPROVAL" THEN "REJECTED" ELSE @]
  /\ NextRow(w)
  /\ UNCHANGED <<attempt, lease, done, gateVars, verdict, effect, crashes>>

\* ruleVerdict: go on, leave the row for a later pass, or stop the run.
Judge(w, from, stop) ==
  /\ pc[w] = from
  /\ CASE verdict[at[w]] = "run" -> Goto(w, "claim")
       [] verdict[at[w]] \in {"wait", "hold"} -> NextRow(w)
       [] verdict[at[w]] = "stop" -> Goto(w, stop)
  /\ UNCHANGED <<runVars, gateVars, verdict, effect, crashes>>

\* finishRun(WAITING_APPROVAL -> SKIPPED), then settle with the error if it won.
SkipRun(w) ==
  /\ pc[w] = "skip"
  /\ IF status[at[w]] = "WAITING_APPROVAL"
     THEN /\ status' = [status EXCEPT ![at[w]] = "SKIPPED"]
          /\ SettleNext(w, at[w], FALSE)
     ELSE UNCHANGED status /\ NextRow(w)
  /\ UNCHANGED <<attempt, lease, done, gateVars, verdict, effect, crashes>>

Claimable(r) ==
  /\ attempt[r] < MaxAttempts
  /\ status[r] = "WAITING_APPROVAL" \/ LeaseExpired(r)

ClaimRun(w) ==
  LET r == at[w] IN
  /\ pc[w] = "claim"
  /\ IF Claimable(r)
     THEN /\ status' = [status EXCEPT ![r] = "PENDING"]
          /\ attempt' = [attempt EXCEPT ![r] = @ + 1]
          /\ lease' = [lease EXCEPT ![r] = Lease]
          /\ TakeUp(w, r, ActOrClose(done[r] + 1), attempt[r] + 1, done[r] + 1, TRUE)
     ELSE UNCHANGED <<status, attempt, lease>> /\ NextRow(w)
  /\ UNCHANGED <<done, gateVars, verdict, effect, crashes>>

------------------------------------------------------------------------------
(* executeRun                                                              *)

\* runOne.  An action that answers FAILED or throws may have had its effect.
RunAction(w, b) ==
  /\ pc[w] = "act"
  /\ \/ effect' = [effect EXCEPT ![at[w]] = @ \cup {todo[w]}]
     \/ ~b /\ UNCHANGED effect
  /\ ok' = [ok EXCEPT ![w] = b]
  /\ pc' = [pc EXCEPT ![w] = "mark"]
  /\ UNCHANGED <<runVars, gateVars, verdict, at, fresh, held, todo, crashes>>

\* Mutant: a failed action is recorded as done.
WhateverItAnswered(w) == todo[w]

\* The leading steps recorded DONE once the action has answered.
DoneNow(w) == IF ok[w] THEN todo[w] ELSE done[at[w]]

\* onStep: record the step and extend the lease, or learn that the run is lost.
RecordStep(w) ==
  LET r == at[w] IN
  /\ pc[w] = "mark"
  /\ IF HeldBy(w)
     THEN /\ lease' = [lease EXCEPT ![r] = Lease]
          /\ done' = [done EXCEPT ![r] = DoneNow(w)]
          /\ IF ok[w] THEN TakeUp(w, r, ActOrClose(todo[w] + 1), held[w], todo[w] + 1, TRUE)
                      ELSE Goto(w, "close")
     ELSE UNCHANGED <<lease, done>> /\ NextRow(w)
  /\ UNCHANGED <<status, attempt, gateVars, verdict, effect, crashes>>

CloseRun(w) ==
  LET r == at[w] IN
  /\ pc[w] = "close"
  /\ IF HeldBy(w)
     THEN /\ status' = [status EXCEPT ![r] = IF ok[w] THEN "DONE" ELSE "FAILED"]
          /\ lease' = [lease EXCEPT ![r] = 0]
          /\ SettleNext(w, r, ok[w])
     ELSE UNCHANGED <<status, lease>> /\ NextRow(w)
  /\ UNCHANGED <<attempt, done, gateVars, verdict, effect, crashes>>

\* settleMachineApproval: EXECUTED and its event, or the error, if still APPROVED.
SettleMachineApproval(w) ==
  LET r == at[w] IN
  /\ pc[w] = "settle"
  /\ IF approval[r] = "APPROVED"
     THEN /\ approval' = [approval EXCEPT ![r] = IF ok[w] THEN "EXECUTED" ELSE @]
          /\ error' = [error EXCEPT ![r] = ~ok[w]]
     ELSE UNCHANGED <<approval, error>>
  /\ NextRow(w)
  /\ UNCHANGED <<runVars, left, verdict, effect, crashes>>

------------------------------------------------------------------------------
(* recoverStaleRuns                                                        *)

\* Mutant: off by one, the run that may not be claimed again is not failed either.
PastLimit(r) == attempt[r] > MaxAttempts

Exhausted(r) == attempt[r] >= MaxAttempts

\* 1. Claimed MaxAttempts times and stuck again.
FailOverLimit(w, r) ==
  /\ pc[w] = "pass" /\ LeaseExpired(r) /\ Exhausted(r)
  /\ status' = [status EXCEPT ![r] = "FAILED"]
  /\ SettleNext(w, r, FALSE)
  /\ UNCHANGED <<attempt, lease, done, gateVars, verdict, effect, crashes>>

\* 2. Any other stuck run.  All actions are retry-safe, so nothing blocks it here.
LookStale(w, r) ==
  /\ pc[w] = "pass" /\ LeaseExpired(r)
  /\ TakeUp(w, r, "judgeStale", attempt[r], done[r] + 1, TRUE)
  /\ UNCHANGED <<runVars, gateVars, verdict, effect, crashes>>

\* Mutant: without asking again whether the run is still stuck.
SameAttempt(w) == attempt[at[w]] = held[w]

Unclaimed(w) == attempt[at[w]] = held[w] /\ LeaseExpired(at[w])

\* The rule has changed: end the run, unless somebody has claimed it meanwhile.
StopStaleRun(w) ==
  LET r == at[w] IN
  /\ pc[w] = "stop"
  /\ IF Unclaimed(w)
     THEN /\ status' = [status EXCEPT ![r] = IF todo[w] > 1 THEN "FAILED" ELSE "SKIPPED"]
          /\ SettleNext(w, r, FALSE)
     ELSE UNCHANGED status /\ NextRow(w)
  /\ UNCHANGED <<attempt, lease, done, gateVars, verdict, effect, crashes>>

\* Mutant: only failures are looked for.
EndedBadly == {"FAILED", "SKIPPED"}

\* The ends that settle an approval.
Settling == {"DONE", "FAILED", "SKIPPED"}

\* Mutant: whatever the run ended as, its approval was used.
Ended(r) == status[r] \in Final

Succeeded(r) == status[r] = "DONE"

\* 3. Ended, and its approval is neither used nor marked.
LookUnsettled(w, r) ==
  /\ pc[w] = "pass" /\ status[r] \in Settling
  /\ approval[r] = "APPROVED" /\ ~error[r]
  /\ TakeUp(w, r, "settle", 0, 0, Succeeded(r))
  /\ UNCHANGED <<runVars, gateVars, verdict, effect, crashes>>

------------------------------------------------------------------------------
Tick ==
  /\ \E r \in Runs : lease[r] > 0 \/ left[r] > 0
  /\ lease' = [r \in Runs |-> IF lease[r] > 0 THEN lease[r] - 1 ELSE 0]
  /\ left' = [r \in Runs |-> IF left[r] > 0 THEN left[r] - 1 ELSE 0]
  /\ UNCHANGED <<status, attempt, done, approval, error, verdict, workerVars, effect,
                 crashes>>

\* What a pass does once it has taken up a row.
RowStep(w) ==
  \/ ExpireMachineApproval(w) \/ RejectRun(w)
  \/ Judge(w, "judge", "skip") \/ Judge(w, "judgeStale", "stop")
  \/ SkipRun(w) \/ ClaimRun(w)
  \/ \E b \in BOOLEAN : RunAction(w, b)
  \/ RecordStep(w) \/ CloseRun(w) \/ SettleMachineApproval(w) \/ StopStaleRun(w)

\* What recoverStaleRuns looks for, in every pass that is not cut short.
Recover(w, r) == FailOverLimit(w, r) \/ LookStale(w, r) \/ LookUnsettled(w, r)

Next ==
  \/ \E w \in Workers :
       \/ BeginPass(w) \/ EndPass(w) \/ Crash(w) \/ RowStep(w)
       \/ \E r \in Runs : \/ OpenGatedRun(w, r) \/ OpenRun(w, r)
                          \/ LookWaiting(w, r) \/ Recover(w, r)
  \/ \E r \in Runs :
       \/ \E s \in {"APPROVED", "REJECTED"} : DecideApproval(r, s)
       \/ \E v \in Verdict : ChangeRule(r, v)
  \/ Tick

Spec == Init /\ [][Next]_vars

------------------------------------------------------------------------------
(* Properties                                                              *)

TypeOK ==
  /\ status \in [Runs -> RunStatus]
  /\ attempt \in [Runs -> 0..MaxAttempts]
  /\ lease \in [Runs -> 0..Lease]
  /\ done \in [Runs -> 0..Steps]
  /\ approval \in [Runs -> Approval]
  /\ left \in [Runs -> 0..ValidFor]
  /\ error \in [Runs -> BOOLEAN]
  /\ verdict \in [Runs -> Verdict]
  /\ pc \in [Workers -> Step]
  /\ at \in [Workers -> Runs \cup {NoRun}]
  /\ fresh \in [Workers -> SUBSET Runs]
  /\ held \in [Workers -> 0..MaxAttempts]
  /\ todo \in [Workers -> 0..(Steps + 1)]
  /\ ok \in [Workers -> BOOLEAN]
  /\ effect \in [Runs -> SUBSET (1..Steps)]
  /\ crashes \in 0..MaxCrashes

Executing(w) == pc[w] \in {"act", "mark", "close"}

(* Of the passes that execute a run at the same time - a stalled one comes   *)
(* back after its lease - at most one can still write to the ledger          *)
(* (engine.ts:40-45, the fence heldBy).                                      *)
OneHolder ==
  \A v, w \in Workers :
    (Executing(v) /\ Executing(w) /\ at[v] = at[w] /\ HeldBy(v) /\ HeldBy(w)) => v = w

(* The recorded steps, and DONE, never claim an action whose effect is not   *)
(* there, whoever recorded them and however often the run was reclaimed      *)
(* (actions.ts:19-24).                                                       *)
LedgerIsTrue ==
  /\ TypeOK
  /\ \A r \in Runs :
       /\ 1..done[r] \subseteq effect[r]
       /\ status[r] = "DONE" => effect[r] = 1..Steps

(* An approval is used exactly for a run that is DONE, and carries an error  *)
(* only for a run that ended otherwise (service.ts:404-406).                 *)
SettledAsItEnded ==
  \A r \in Runs :
    /\ approval[r] = "EXECUTED" => status[r] = "DONE"
    /\ error[r] => status[r] \in {"FAILED", "SKIPPED"}

(* A run the approver refused has no effect, now or later (engine.ts:20-21). *)
RefusedDoesNothing ==
  \A r \in Runs :
    approval[r] \in {"PENDING", "REJECTED"} =>
      /\ effect[r] = {}
      /\ status[r] \in {"WAITING_APPROVAL", "REJECTED"}

(* A run that has ended stays as it ended, its recorded steps and attempts   *)
(* with it: the fence of every late write (engine.ts:295-300, 324-331).      *)
EndIsFinal ==
  [][\A r \in Runs :
       status[r] \in Final =>
         /\ status'[r] = status[r] /\ done'[r] = done[r] /\ attempt'[r] = attempt[r]]_vars

\* A run as OrderedJob sees it: why it was broken off does not matter, nor that an
\* approval has lapsed; a run may be FAILED or SKIPPED before its first claim or after.
JobState(s, n) ==
  CASE s = "NONE" -> "absent"
    [] s = "WAITING_APPROVAL" -> "waiting"
    [] s = "PENDING" -> "open"
    [] s = "DONE" -> "done"
    [] OTHER -> IF n > 0 THEN "broken" ELSE "void"

Consent(a) ==
  CASE a = "NONE" -> "none"
    [] a = "PENDING" -> "asked"
    [] a = "REJECTED" -> "refused"
    [] a = "EXECUTED" -> "used"
    [] OTHER -> "given"

jobState == [r \in Runs |-> JobState(status[r], attempt[r])]
consent == [r \in Runs |-> Consent(approval[r])]

Job == INSTANCE OrderedJob WITH Jobs <- Runs, state <- jobState, consent <- consent

(* Whoever holds a run, has lost it or repairs it: nothing is done without   *)
(* the approver or for a run that was turned down, no action before those in *)
(* front of it are on record, and each record, attempt, end and use of the   *)
(* approval is one that the ledger allows for (engine.ts:20-48).             *)
ImplementsJob == Job!Spec

(* A run that nobody executes any more does not stay PENDING, however its    *)
(* passes died, unless its rule is paused or on dry run (engine.ts:33-48).   *)
PendingResolves ==
  \A r \in Runs :
    status[r] = "PENDING" ~> (status[r] \in Final \/ verdict[r] \in {"wait", "hold"})

(* The approval of a run that is DONE does not stay open for ever, even if   *)
(* the pass dies between the two (engine.ts:406, 474-486).                   *)
DoneIsSettled ==
  \A r \in Gated :
    status[r] = "DONE" ~> approval[r] \in {"EXECUTED", "EXPIRED"}

------------------------------------------------------------------------------
\* Passes keep coming, a pass goes on, and in the end one of them does each of the
\* three parts of recoverStaleRuns for every run that needs it.
Fairness ==
  /\ WF_vars(Tick)
  /\ \A w \in Workers :
       /\ WF_vars(BeginPass(w)) /\ WF_vars(RowStep(w))
       /\ \A r \in Runs : SF_vars(FailOverLimit(w, r)) /\ SF_vars(LookStale(w, r))
                         /\ SF_vars(LookUnsettled(w, r))

FairSpec == Spec /\ Fairness

==============================================================================
