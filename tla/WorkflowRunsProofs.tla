-------------------------- MODULE WorkflowRunsProofs --------------------------
(***************************************************************************)
(* What WorkflowRuns guarantees for any number of runs and passes, any     *)
(* number of actions, any lease, validity and limit of attempts.           *)
(*                                                                         *)
(* The argument: an execution is known by its run and the attempt it       *)
(* claimed, and no two passes have both in common, because a claim takes   *)
(* the next attempt.  As long as the row says PENDING and still that       *)
(* attempt, nobody else writes to it: the recorded steps are the actions   *)
(* before the one the holder is at, and each of them has had its effect.   *)
(* A pass past the approver's decision holds a run whose request is        *)
(* neither open nor refused, and one that settles knows how the run ended. *)
(***************************************************************************)
EXTENDS WorkflowRuns, TLAPS

\* What a row says of the effects of its run and of its approval.
RunInv(r) ==
  /\ 1..done[r] \subseteq effect[r]
  /\ status[r] = "DONE" => done[r] = Steps
  /\ status[r] = "NONE" => effect[r] = {} /\ done[r] = 0 /\ approval[r] = "NONE"
  /\ r \notin Gated => approval[r] = "NONE"
  /\ approval[r] = "EXECUTED" => status[r] = "DONE"
  /\ error[r] => status[r] \in {"FAILED", "SKIPPED"}
  /\ approval[r] \in {"PENDING", "REJECTED"} =>
       effect[r] = {} /\ status[r] \in {"WAITING_APPROVAL", "REJECTED"}

\* What a pass knows of the row it has taken up.
PassInv(w) ==
  LET r == at[w] IN
  /\ pc[w] \notin {"idle", "pass"} => r \in Runs /\ status[r] # "NONE"
  /\ pc[w] \notin {"idle", "pass", "reject"} => approval[r] \notin {"PENDING", "REJECTED"}
  /\ Executing(w) => held[w] <= attempt[r]
  /\ pc[w] \in {"act", "mark"} => todo[w] \in 1..Steps
  /\ pc[w] = "mark" /\ ok[w] => todo[w] \in effect[r]
  /\ pc[w] \in {"act", "mark"} /\ HeldBy(w) => todo[w] = done[r] + 1
  /\ pc[w] = "close" /\ ok[w] /\ HeldBy(w) => done[r] = Steps
  /\ pc[w] = "settle" => IF ok[w] THEN status[r] = "DONE" ELSE status[r] \in {"FAILED", "SKIPPED"}

\* No two executions have the run and the attempt in common.
OneExecution ==
  \A v, w \in Workers :
    Executing(v) /\ Executing(w) /\ at[v] = at[w] /\ held[v] = held[w] => v = w

\* The inductive invariant.
IInv ==
  /\ TypeOK
  /\ \A r \in Runs : RunInv(r)
  /\ \A w \in Workers : PassInv(w)
  /\ OneExecution

\* What TypeOK says of the passes.
PassesTyped ==
  /\ pc \in [Workers -> Step]
  /\ at \in [Workers -> Runs \cup {NoRun}]
  /\ fresh \in [Workers -> SUBSET Runs]
  /\ held \in [Workers -> 0..MaxAttempts]
  /\ todo \in [Workers -> 0..(Steps + 1)]
  /\ ok \in [Workers -> BOOLEAN]

USE DEF Final, RunStatus, Approval, Verdict, Step

\* The empty table and idle passes satisfy the inductive invariant.
LEMMA InitInductive == Init => IInv
  BY RunsAssumption, LimitsAssumption
     DEF Init, IInv, TypeOK, RunInv, PassInv, OneExecution, Executing, HeldBy

\* The ways of a pass to go on keep the types of what it remembers.
LEMMA GotoTyped ==
  ASSUME TypeOK, NEW w \in Workers, NEW s \in Step, Goto(w, s)
  PROVE  PassesTyped'
  BY DEF TypeOK, PassesTyped, Goto

\* A pass that takes up a row has its types afterwards.
LEMMA TakeUpTyped ==
  ASSUME TypeOK, NEW w \in Workers, NEW r \in Runs \cup {NoRun}, NEW s \in Step,
         NEW h \in 0..MaxAttempts, NEW t \in 0..(Steps + 1), NEW b \in BOOLEAN,
         TakeUp(w, r, s, h, t, b)
  PROVE  PassesTyped'
  BY DEF TypeOK, PassesTyped, TakeUp

\* So has one that ends,
LEMMA LeaveTyped ==
  ASSUME TypeOK, NEW w \in Workers, Leave(w)
  PROVE  PassesTyped'
<1>1. 0 \in 0..MaxAttempts /\ 0 \in 0..(Steps + 1)
  BY LimitsAssumption
<1> QED
  BY <1>1 DEF TypeOK, PassesTyped, Leave

\* one that goes on to the next row,
LEMMA NextRowTyped ==
  ASSUME TypeOK, NEW w \in Workers, TakeUp(w, NoRun, "pass", 0, 0, TRUE)
  PROVE  PassesTyped'
<1>1. 0 \in 0..MaxAttempts /\ 0 \in 0..(Steps + 1)
  BY LimitsAssumption
<1> QED
  BY <1>1, TakeUpTyped

\* and one that goes on to settle.
LEMMA SettleTyped ==
  ASSUME TypeOK, NEW w \in Workers, NEW r \in Runs, NEW b \in BOOLEAN,
         TakeUp(w, r, "settle", 0, 0, b)
  PROVE  PassesTyped'
<1>1. 0 \in 0..MaxAttempts /\ 0 \in 0..(Steps + 1)
  BY LimitsAssumption
<1> QED
  BY <1>1, TakeUpTyped

\* No statement of a pass, no decision, no change of the rule and no tick breaks it.
LEMMA StepInductive == IInv /\ [Next]_vars => IInv'
<1> SUFFICES ASSUME IInv, [Next]_vars
             PROVE  IInv'
  OBVIOUS
<1>a. TypeOK
  BY DEF IInv
<1>b. \A q \in Runs : RunInv(q)
  BY DEF IInv
<1>c. \A v \in Workers : PassInv(v)
  BY DEF IInv
<1>d. OneExecution
  BY DEF IInv
<1>1. ASSUME NEW w \in Workers, BeginPass(w)
      PROVE  IInv'
  <2>0. /\ pc[w] = "idle"
        /\ pc' = [pc EXCEPT ![w] = "pass"]
        /\ fresh' = [fresh EXCEPT ![w] = {r \in Runs : approval[r] = "APPROVED" => left[r] > 0}]
        /\ UNCHANGED <<status, attempt, lease, done, approval, left, error, verdict, at, held, todo, ok, effect, crashes>>
    BY <1>1 DEF BeginPass, runVars, gateVars
  <2>1. PassesTyped'
    BY <1>a, <2>0, LimitsAssumption DEF TypeOK, PassesTyped
  <2>2. TypeOK'
    BY <1>a, <2>0, <2>1, LimitsAssumption DEF TypeOK, PassesTyped
  <2>3. \A q \in Runs : RunInv(q)'
    BY <1>a, <1>b, <1>c, <2>0 DEF TypeOK, RunInv, PassInv, Executing, HeldBy
  <2>4. \A v \in Workers : PassInv(v)'
    BY <1>a, <1>b, <1>c, <1>d, <2>0, <2>1
       DEF TypeOK, PassesTyped, RunInv, PassInv, OneExecution, Executing, HeldBy
  <2>5. OneExecution'
    BY <1>a, <1>c, <1>d, <2>0 DEF TypeOK, PassInv, OneExecution, Executing
  <2> QED
    BY <2>1, <2>2, <2>3, <2>4, <2>5 DEF IInv
<1>2. ASSUME NEW w \in Workers, EndPass(w)
      PROVE  IInv'
  <2>0. /\ pc[w] = "pass"
        /\ Leave(w)
        /\ UNCHANGED <<status, attempt, lease, done, approval, left, error, verdict, effect, crashes>>
    BY <1>2 DEF EndPass, runVars, gateVars
  <2>1. PassesTyped'
    BY <1>a, <2>0, LeaveTyped DEF TypeOK, PassesTyped, Leave
  <2>2. TypeOK'
    BY <1>a, <2>0, <2>1, LimitsAssumption DEF TypeOK, PassesTyped
  <2>3. \A q \in Runs : RunInv(q)'
    BY <1>a, <1>b, <1>c, <2>0 DEF TypeOK, RunInv, PassInv, Executing, HeldBy
  <2>4. \A v \in Workers : PassInv(v)'
    BY <1>a, <1>b, <1>c, <1>d, <2>0, <2>1
       DEF TypeOK, PassesTyped, RunInv, PassInv, OneExecution, Executing, HeldBy, Leave
  <2>5. OneExecution'
    BY <1>a, <1>c, <1>d, <2>0 DEF TypeOK, PassInv, OneExecution, Executing, Leave
  <2> QED
    BY <2>1, <2>2, <2>3, <2>4, <2>5 DEF IInv
<1>3. ASSUME NEW w \in Workers, Crash(w)
      PROVE  IInv'
  <2>0. /\ pc[w] # "idle"
        /\ crashes < MaxCrashes
        /\ Leave(w)
        /\ crashes' = crashes + 1
        /\ UNCHANGED <<status, attempt, lease, done, approval, left, error, verdict, effect>>
    BY <1>3 DEF Crash, runVars, gateVars
  <2>1. PassesTyped'
    BY <1>a, <2>0, LeaveTyped DEF TypeOK, PassesTyped, Leave
  <2>2. TypeOK'
    BY <1>a, <2>0, <2>1, LimitsAssumption DEF TypeOK, PassesTyped
  <2>3. \A q \in Runs : RunInv(q)'
    BY <1>a, <1>b, <1>c, <2>0 DEF TypeOK, RunInv, PassInv, Executing, HeldBy
  <2>4. \A v \in Workers : PassInv(v)'
    BY <1>a, <1>b, <1>c, <1>d, <2>0, <2>1
       DEF TypeOK, PassesTyped, RunInv, PassInv, OneExecution, Executing, HeldBy, Leave
  <2>5. OneExecution'
    BY <1>a, <1>c, <1>d, <2>0 DEF TypeOK, PassInv, OneExecution, Executing, Leave
  <2> QED
    BY <2>1, <2>2, <2>3, <2>4, <2>5 DEF IInv
<1>4. ASSUME NEW w \in Workers, NEW r \in Runs, OpenGatedRun(w, r)
      PROVE  IInv'
  <2>0. /\ r \in Gated
        /\ status[r] = "NONE"
        /\ status' = [status EXCEPT ![r] = "WAITING_APPROVAL"]
        /\ approval' = [approval EXCEPT ![r] = "PENDING"]
        /\ verdict' \in [Runs -> Verdict]
        /\ UNCHANGED <<attempt, lease, done, left, error, pc, at, fresh, held, todo, ok, effect, crashes>>
    BY <1>4, <1>a DEF OpenGatedRun, workerVars, TypeOK
  <2>1. PassesTyped'
    BY <1>a, <2>0, LimitsAssumption DEF TypeOK, PassesTyped
  <2>2. TypeOK'
    BY <1>a, <2>0, <2>1, LimitsAssumption DEF TypeOK, PassesTyped
  <2>3. \A q \in Runs : RunInv(q)'
    BY <1>a, <1>b, <1>c, <2>0 DEF TypeOK, RunInv, PassInv, Executing, HeldBy
  <2>4. \A v \in Workers : PassInv(v)'
    BY <1>a, <1>b, <1>c, <1>d, <2>0, <2>1
       DEF TypeOK, PassesTyped, RunInv, PassInv, OneExecution, Executing, HeldBy
  <2>5. OneExecution'
    BY <1>a, <1>c, <1>d, <2>0 DEF TypeOK, PassInv, OneExecution, Executing
  <2> QED
    BY <2>1, <2>2, <2>3, <2>4, <2>5 DEF IInv
<1>5. ASSUME NEW w \in Workers, NEW r \in Runs, OpenRun(w, r)
      PROVE  IInv'
  <2>k. /\ 1 \in 0..MaxAttempts /\ 1 \in 0..(Steps + 1) /\ 1 \in 1..Steps
        /\ \A v \in Workers : Executing(v) => at[v] # r
    BY <1>c, <1>5, LimitsAssumption DEF PassInv, Executing, OpenRun
  <2>0. /\ r \notin Gated
        /\ status[r] = "NONE"
        /\ TakeUp(w, r, "act", 1, 1, TRUE)
        /\ status' = [status EXCEPT ![r] = "PENDING"]
        /\ attempt' = [attempt EXCEPT ![r] = 1]
        /\ lease' = [lease EXCEPT ![r] = Lease]
        /\ verdict' \in [Runs -> Verdict]
        /\ UNCHANGED <<done, approval, left, error, effect, crashes>>
    BY <1>5, <2>k, <1>a, ZenonT(40) DEF OpenRun, gateVars, TypeOK
  <2>1. PassesTyped'
    BY <1>a, <2>0, TakeUpTyped, <2>k DEF TypeOK, PassesTyped, TakeUp
  <2>2. TypeOK'
    BY <1>a, <2>0, <2>1, LimitsAssumption, <2>k DEF TypeOK, PassesTyped
  <2>3. \A q \in Runs : RunInv(q)'
    BY <1>a, <1>b, <1>c, <2>0, <2>k DEF TypeOK, RunInv, PassInv, Executing, HeldBy
  <2>4. \A v \in Workers : PassInv(v)'
    BY <1>a, <1>b, <1>c, <1>d, <2>0, <2>1, <2>k
       DEF TypeOK, PassesTyped, RunInv, PassInv, OneExecution, Executing, HeldBy, TakeUp
  <2>5. OneExecution'
    BY <1>a, <1>c, <1>d, <2>0, <2>k DEF TypeOK, PassInv, OneExecution, Executing, TakeUp
  <2> QED
    BY <2>1, <2>2, <2>3, <2>4, <2>5 DEF IInv
<1>6. ASSUME NEW r \in Runs, NEW s \in {"APPROVED", "REJECTED"}, DecideApproval(r, s)
      PROVE  IInv'
  <2>0. /\ approval[r] = "PENDING"
        /\ approval' = [approval EXCEPT ![r] = s]
        /\ left' = [left EXCEPT ![r] = ValidFor]
        /\ UNCHANGED <<status, attempt, lease, done, error, verdict, pc, at, fresh, held, todo, ok, effect, crashes>>
    BY <1>6 DEF DecideApproval, runVars, workerVars
  <2>1. PassesTyped'
    BY <1>a, <2>0, LimitsAssumption DEF TypeOK, PassesTyped
  <2>2. TypeOK'
    BY <1>a, <2>0, <2>1, LimitsAssumption DEF TypeOK, PassesTyped
  <2>3. \A q \in Runs : RunInv(q)'
    BY <1>a, <1>b, <1>c, <2>0 DEF TypeOK, RunInv, PassInv, Executing, HeldBy
  <2>4. \A v \in Workers : PassInv(v)'
    BY <1>a, <1>b, <1>c, <1>d, <2>0, <2>1
       DEF TypeOK, PassesTyped, RunInv, PassInv, OneExecution, Executing, HeldBy
  <2>5. OneExecution'
    BY <1>a, <1>c, <1>d, <2>0 DEF TypeOK, PassInv, OneExecution, Executing
  <2> QED
    BY <2>1, <2>2, <2>3, <2>4, <2>5 DEF IInv
<1>7. ASSUME NEW r \in Runs, NEW x \in Verdict, ChangeRule(r, x)
      PROVE  IInv'
  <2>0. /\ verdict' = [verdict EXCEPT ![r] = x]
        /\ UNCHANGED <<status, attempt, lease, done, approval, left, error, pc, at, fresh, held, todo, ok, effect, crashes>>
    BY <1>7 DEF ChangeRule, runVars, gateVars, workerVars
  <2>1. PassesTyped'
    BY <1>a, <2>0, LimitsAssumption DEF TypeOK, PassesTyped
  <2>2. TypeOK'
    BY <1>a, <2>0, <2>1, LimitsAssumption DEF TypeOK, PassesTyped
  <2>3. \A q \in Runs : RunInv(q)'
    BY <1>a, <1>b, <1>c, <2>0 DEF TypeOK, RunInv, PassInv, Executing, HeldBy
  <2>4. \A v \in Workers : PassInv(v)'
    BY <1>a, <1>b, <1>c, <1>d, <2>0, <2>1
       DEF TypeOK, PassesTyped, RunInv, PassInv, OneExecution, Executing, HeldBy
  <2>5. OneExecution'
    BY <1>a, <1>c, <1>d, <2>0 DEF TypeOK, PassInv, OneExecution, Executing
  <2> QED
    BY <2>1, <2>2, <2>3, <2>4, <2>5 DEF IInv
<1>8. ASSUME NEW w \in Workers, NEW r \in Runs, LookWaiting(w, r)
      PROVE  IInv'
  <2>k. 0 \in 0..MaxAttempts /\ 0 \in 0..(Steps + 1)
    BY LimitsAssumption
  <2>1. CASE ~Agreed(r)
    <3>0. /\ pc[w] = "pass"
          /\ status[r] = "WAITING_APPROVAL"
          /\ TakeUp(w, r, "reject", 0, 0, TRUE)
          /\ UNCHANGED <<status, attempt, lease, done, approval, left, error, verdict, effect, crashes>>
      BY <1>8, <2>1, <2>k DEF LookWaiting, Agreed, runVars, gateVars
    <3>1. PassesTyped'
      BY <1>a, <3>0, TakeUpTyped, <2>1, <2>k DEF TypeOK, PassesTyped, TakeUp
    <3>2. TypeOK'
      BY <1>a, <3>0, <3>1, LimitsAssumption, <2>1, <2>k DEF TypeOK, PassesTyped
    <3>3. \A q \in Runs : RunInv(q)'
      BY <1>a, <1>b, <1>c, <3>0, <2>1, <2>k DEF TypeOK, RunInv, PassInv, Executing, HeldBy
    <3>4. \A v \in Workers : PassInv(v)'
      BY <1>a, <1>b, <1>c, <1>d, <3>0, <3>1, <2>1, <2>k
         DEF TypeOK, PassesTyped, RunInv, PassInv, OneExecution, Executing, HeldBy, TakeUp
    <3>5. OneExecution'
      BY <1>a, <1>c, <1>d, <3>0, <2>1, <2>k DEF TypeOK, PassInv, OneExecution, Executing, TakeUp
    <3> QED
      BY <3>1, <3>2, <3>3, <3>4, <3>5 DEF IInv
  <2>2. CASE Agreed(r) /\ r \in fresh[w]
    <3>0. /\ pc[w] = "pass"
          /\ status[r] = "WAITING_APPROVAL"
          /\ approval[r] = "APPROVED"
          /\ TakeUp(w, r, "judge", 0, 0, TRUE)
          /\ UNCHANGED <<status, attempt, lease, done, approval, left, error, verdict, effect, crashes>>
      BY <1>8, <2>2, <2>k DEF LookWaiting, Agreed, runVars, gateVars
    <3>1. PassesTyped'
      BY <1>a, <3>0, TakeUpTyped, <2>2, <2>k DEF TypeOK, PassesTyped, TakeUp
    <3>2. TypeOK'
      BY <1>a, <3>0, <3>1, LimitsAssumption, <2>2, <2>k DEF TypeOK, PassesTyped
    <3>3. \A q \in Runs : RunInv(q)'
      BY <1>a, <1>b, <1>c, <3>0, <2>2, <2>k DEF TypeOK, RunInv, PassInv, Executing, HeldBy
    <3>4. \A v \in Workers : PassInv(v)'
      BY <1>a, <1>b, <1>c, <1>d, <3>0, <3>1, <2>2, <2>k
         DEF TypeOK, PassesTyped, RunInv, PassInv, OneExecution, Executing, HeldBy, TakeUp
    <3>5. OneExecution'
      BY <1>a, <1>c, <1>d, <3>0, <2>2, <2>k DEF TypeOK, PassInv, OneExecution, Executing, TakeUp
    <3> QED
      BY <3>1, <3>2, <3>3, <3>4, <3>5 DEF IInv
  <2>3. CASE Agreed(r) /\ r \notin fresh[w]
    <3>0. /\ pc[w] = "pass"
          /\ status[r] = "WAITING_APPROVAL"
          /\ approval[r] = "APPROVED"
          /\ TakeUp(w, r, "expire", 0, 0, TRUE)
          /\ UNCHANGED <<status, attempt, lease, done, approval, left, error, verdict, effect, crashes>>
      BY <1>8, <2>3, <2>k DEF LookWaiting, Agreed, runVars, gateVars
    <3>1. PassesTyped'
      BY <1>a, <3>0, TakeUpTyped, <2>3, <2>k DEF TypeOK, PassesTyped, TakeUp
    <3>2. TypeOK'
      BY <1>a, <3>0, <3>1, LimitsAssumption, <2>3, <2>k DEF TypeOK, PassesTyped
    <3>3. \A q \in Runs : RunInv(q)'
      BY <1>a, <1>b, <1>c, <3>0, <2>3, <2>k DEF TypeOK, RunInv, PassInv, Executing, HeldBy
    <3>4. \A v \in Workers : PassInv(v)'
      BY <1>a, <1>b, <1>c, <1>d, <3>0, <3>1, <2>3, <2>k
         DEF TypeOK, PassesTyped, RunInv, PassInv, OneExecution, Executing, HeldBy, TakeUp
    <3>5. OneExecution'
      BY <1>a, <1>c, <1>d, <3>0, <2>3, <2>k DEF TypeOK, PassInv, OneExecution, Executing, TakeUp
    <3> QED
      BY <3>1, <3>2, <3>3, <3>4, <3>5 DEF IInv
  <2> QED
    BY <2>1, <2>2, <2>3
<1>9. ASSUME NEW w \in Workers, ExpireMachineApproval(w)
      PROVE  IInv'
  <2>k. at[w] \in Runs
    BY <1>c, <1>9 DEF PassInv, ExpireMachineApproval
  <2>0. /\ pc[w] = "expire"
        /\ Goto(w, "reject")
        /\ approval' = [approval EXCEPT ![at[w]] = IF @ = "APPROVED" THEN "EXPIRED" ELSE @]
        /\ UNCHANGED <<status, attempt, lease, done, left, error, verdict, effect, crashes>>
    BY <1>9, <2>k DEF ExpireMachineApproval, runVars
  <2>1. PassesTyped'
    BY <1>a, <2>0, GotoTyped, <2>k DEF TypeOK, PassesTyped, Goto
  <2>2. TypeOK'
    BY <1>a, <2>0, <2>1, LimitsAssumption, <2>k DEF TypeOK, PassesTyped
  <2>3. \A q \in Runs : RunInv(q)'
    BY <1>a, <1>b, <1>c, <2>0, <2>k DEF TypeOK, RunInv, PassInv, Executing, HeldBy
  <2>4. \A v \in Workers : PassInv(v)'
    BY <1>a, <1>b, <1>c, <1>d, <2>0, <2>1, <2>k
       DEF TypeOK, PassesTyped, RunInv, PassInv, OneExecution, Executing, HeldBy, Goto
  <2>5. OneExecution'
    BY <1>a, <1>c, <1>d, <2>0, <2>k DEF TypeOK, PassInv, OneExecution, Executing, Goto
  <2> QED
    BY <2>1, <2>2, <2>3, <2>4, <2>5 DEF IInv
<1>10. ASSUME NEW w \in Workers, RejectRun(w)
       PROVE  IInv'
  <2>k. at[w] \in Runs
    BY <1>c, <1>10 DEF PassInv, RejectRun
  <2>0. /\ pc[w] = "reject"
        /\ TakeUp(w, NoRun, "pass", 0, 0, TRUE)
        /\ status' = [status EXCEPT ![at[w]] = IF @ = "WAITING_APPROVAL" THEN "REJECTED" ELSE @]
        /\ UNCHANGED <<attempt, lease, done, approval, left, error, verdict, effect, crashes>>
    BY <1>10, <2>k DEF RejectRun, NextRow, gateVars
  <2>1. PassesTyped'
    BY <1>a, <2>0, NextRowTyped, <2>k DEF TypeOK, PassesTyped, TakeUp
  <2>2. TypeOK'
    BY <1>a, <2>0, <2>1, LimitsAssumption, <2>k DEF TypeOK, PassesTyped
  <2>3. \A q \in Runs : RunInv(q)'
    BY <1>a, <1>b, <1>c, <2>0, <2>k DEF TypeOK, RunInv, PassInv, Executing, HeldBy
  <2>4. \A v \in Workers : PassInv(v)'
    BY <1>a, <1>b, <1>c, <1>d, <2>0, <2>1, <2>k
       DEF TypeOK, PassesTyped, RunInv, PassInv, OneExecution, Executing, HeldBy, TakeUp
  <2>5. OneExecution'
    BY <1>a, <1>c, <1>d, <2>0, <2>k DEF TypeOK, PassInv, OneExecution, Executing, TakeUp
  <2> QED
    BY <2>1, <2>2, <2>3, <2>4, <2>5 DEF IInv
<1>11. ASSUME NEW w \in Workers, Judge(w, "judge", "skip")
       PROVE  IInv'
  <2>k. at[w] \in Runs /\ verdict[at[w]] \in Verdict
    BY <1>a, <1>c, <1>11 DEF TypeOK, PassInv, Judge
  <2>1. CASE verdict[at[w]] = "run"
    <3>0. /\ pc[w] = "judge"
          /\ Goto(w, "claim")
          /\ UNCHANGED <<status, attempt, lease, done, approval, left, error, verdict, effect, crashes>>
      BY <1>11, <2>1, <2>k DEF Judge, NextRow, runVars, gateVars
    <3>1. PassesTyped'
      BY <1>a, <3>0, GotoTyped, <2>1, <2>k DEF TypeOK, PassesTyped, Goto
    <3>2. TypeOK'
      BY <1>a, <3>0, <3>1, LimitsAssumption, <2>1, <2>k DEF TypeOK, PassesTyped
    <3>3. \A q \in Runs : RunInv(q)'
      BY <1>a, <1>b, <1>c, <3>0, <2>1, <2>k DEF TypeOK, RunInv, PassInv, Executing, HeldBy
    <3>4. \A v \in Workers : PassInv(v)'
      BY <1>a, <1>b, <1>c, <1>d, <3>0, <3>1, <2>1, <2>k
         DEF TypeOK, PassesTyped, RunInv, PassInv, OneExecution, Executing, HeldBy, Goto
    <3>5. OneExecution'
      BY <1>a, <1>c, <1>d, <3>0, <2>1, <2>k DEF TypeOK, PassInv, OneExecution, Executing, Goto
    <3> QED
      BY <3>1, <3>2, <3>3, <3>4, <3>5 DEF IInv
  <2>2. CASE verdict[at[w]] \in {"wait", "hold"}
    <3>0. /\ pc[w] = "judge"
          /\ TakeUp(w, NoRun, "pass", 0, 0, TRUE)
          /\ UNCHANGED <<status, attempt, lease, done, approval, left, error, verdict, effect, crashes>>
      BY <1>11, <2>2, <2>k DEF Judge, NextRow, runVars, gateVars
    <3>1. PassesTyped'
      BY <1>a, <3>0, NextRowTyped, <2>2, <2>k DEF TypeOK, PassesTyped, TakeUp
    <3>2. TypeOK'
      BY <1>a, <3>0, <3>1, LimitsAssumption, <2>2, <2>k DEF TypeOK, PassesTyped
    <3>3. \A q \in Runs : RunInv(q)'
      BY <1>a, <1>b, <1>c, <3>0, <2>2, <2>k DEF TypeOK, RunInv, PassInv, Executing, HeldBy
    <3>4. \A v \in Workers : PassInv(v)'
      BY <1>a, <1>b, <1>c, <1>d, <3>0, <3>1, <2>2, <2>k
         DEF TypeOK, PassesTyped, RunInv, PassInv, OneExecution, Executing, HeldBy, TakeUp
    <3>5. OneExecution'
      BY <1>a, <1>c, <1>d, <3>0, <2>2, <2>k DEF TypeOK, PassInv, OneExecution, Executing, TakeUp
    <3> QED
      BY <3>1, <3>2, <3>3, <3>4, <3>5 DEF IInv
  <2>3. CASE verdict[at[w]] = "stop"
    <3>0. /\ pc[w] = "judge"
          /\ Goto(w, "skip")
          /\ UNCHANGED <<status, attempt, lease, done, approval, left, error, verdict, effect, crashes>>
      BY <1>11, <2>3, <2>k DEF Judge, NextRow, runVars, gateVars
    <3>1. PassesTyped'
      BY <1>a, <3>0, GotoTyped, <2>3, <2>k DEF TypeOK, PassesTyped, Goto
    <3>2. TypeOK'
      BY <1>a, <3>0, <3>1, LimitsAssumption, <2>3, <2>k DEF TypeOK, PassesTyped
    <3>3. \A q \in Runs : RunInv(q)'
      BY <1>a, <1>b, <1>c, <3>0, <2>3, <2>k DEF TypeOK, RunInv, PassInv, Executing, HeldBy
    <3>4. \A v \in Workers : PassInv(v)'
      BY <1>a, <1>b, <1>c, <1>d, <3>0, <3>1, <2>3, <2>k
         DEF TypeOK, PassesTyped, RunInv, PassInv, OneExecution, Executing, HeldBy, Goto
    <3>5. OneExecution'
      BY <1>a, <1>c, <1>d, <3>0, <2>3, <2>k DEF TypeOK, PassInv, OneExecution, Executing, Goto
    <3> QED
      BY <3>1, <3>2, <3>3, <3>4, <3>5 DEF IInv
  <2> QED
    BY <2>1, <2>2, <2>3, <2>k
<1>12. ASSUME NEW w \in Workers, Judge(w, "judgeStale", "stop")
       PROVE  IInv'
  <2>k. at[w] \in Runs /\ verdict[at[w]] \in Verdict
    BY <1>a, <1>c, <1>12 DEF TypeOK, PassInv, Judge
  <2>1. CASE verdict[at[w]] = "run"
    <3>0. /\ pc[w] = "judgeStale"
          /\ Goto(w, "claim")
          /\ UNCHANGED <<status, attempt, lease, done, approval, left, error, verdict, effect, crashes>>
      BY <1>12, <2>1, <2>k DEF Judge, NextRow, runVars, gateVars
    <3>1. PassesTyped'
      BY <1>a, <3>0, GotoTyped, <2>1, <2>k DEF TypeOK, PassesTyped, Goto
    <3>2. TypeOK'
      BY <1>a, <3>0, <3>1, LimitsAssumption, <2>1, <2>k DEF TypeOK, PassesTyped
    <3>3. \A q \in Runs : RunInv(q)'
      BY <1>a, <1>b, <1>c, <3>0, <2>1, <2>k DEF TypeOK, RunInv, PassInv, Executing, HeldBy
    <3>4. \A v \in Workers : PassInv(v)'
      BY <1>a, <1>b, <1>c, <1>d, <3>0, <3>1, <2>1, <2>k
         DEF TypeOK, PassesTyped, RunInv, PassInv, OneExecution, Executing, HeldBy, Goto
    <3>5. OneExecution'
      BY <1>a, <1>c, <1>d, <3>0, <2>1, <2>k DEF TypeOK, PassInv, OneExecution, Executing, Goto
    <3> QED
      BY <3>1, <3>2, <3>3, <3>4, <3>5 DEF IInv
  <2>2. CASE verdict[at[w]] \in {"wait", "hold"}
    <3>0. /\ pc[w] = "judgeStale"
          /\ TakeUp(w, NoRun, "pass", 0, 0, TRUE)
          /\ UNCHANGED <<status, attempt, lease, done, approval, left, error, verdict, effect, crashes>>
      BY <1>12, <2>2, <2>k DEF Judge, NextRow, runVars, gateVars
    <3>1. PassesTyped'
      BY <1>a, <3>0, NextRowTyped, <2>2, <2>k DEF TypeOK, PassesTyped, TakeUp
    <3>2. TypeOK'
      BY <1>a, <3>0, <3>1, LimitsAssumption, <2>2, <2>k DEF TypeOK, PassesTyped
    <3>3. \A q \in Runs : RunInv(q)'
      BY <1>a, <1>b, <1>c, <3>0, <2>2, <2>k DEF TypeOK, RunInv, PassInv, Executing, HeldBy
    <3>4. \A v \in Workers : PassInv(v)'
      BY <1>a, <1>b, <1>c, <1>d, <3>0, <3>1, <2>2, <2>k
         DEF TypeOK, PassesTyped, RunInv, PassInv, OneExecution, Executing, HeldBy, TakeUp
    <3>5. OneExecution'
      BY <1>a, <1>c, <1>d, <3>0, <2>2, <2>k DEF TypeOK, PassInv, OneExecution, Executing, TakeUp
    <3> QED
      BY <3>1, <3>2, <3>3, <3>4, <3>5 DEF IInv
  <2>3. CASE verdict[at[w]] = "stop"
    <3>0. /\ pc[w] = "judgeStale"
          /\ Goto(w, "stop")
          /\ UNCHANGED <<status, attempt, lease, done, approval, left, error, verdict, effect, crashes>>
      BY <1>12, <2>3, <2>k DEF Judge, NextRow, runVars, gateVars
    <3>1. PassesTyped'
      BY <1>a, <3>0, GotoTyped, <2>3, <2>k DEF TypeOK, PassesTyped, Goto
    <3>2. TypeOK'
      BY <1>a, <3>0, <3>1, LimitsAssumption, <2>3, <2>k DEF TypeOK, PassesTyped
    <3>3. \A q \in Runs : RunInv(q)'
      BY <1>a, <1>b, <1>c, <3>0, <2>3, <2>k DEF TypeOK, RunInv, PassInv, Executing, HeldBy
    <3>4. \A v \in Workers : PassInv(v)'
      BY <1>a, <1>b, <1>c, <1>d, <3>0, <3>1, <2>3, <2>k
         DEF TypeOK, PassesTyped, RunInv, PassInv, OneExecution, Executing, HeldBy, Goto
    <3>5. OneExecution'
      BY <1>a, <1>c, <1>d, <3>0, <2>3, <2>k DEF TypeOK, PassInv, OneExecution, Executing, Goto
    <3> QED
      BY <3>1, <3>2, <3>3, <3>4, <3>5 DEF IInv
  <2> QED
    BY <2>1, <2>2, <2>3, <2>k
<1>13. ASSUME NEW w \in Workers, SkipRun(w)
       PROVE  IInv'
  <2>k. at[w] \in Runs
    BY <1>c, <1>13 DEF PassInv, SkipRun
  <2>1. CASE status[at[w]] = "WAITING_APPROVAL" /\ at[w] \in Gated
    <3>0. /\ pc[w] = "skip"
          /\ TakeUp(w, at[w], "settle", 0, 0, FALSE)
          /\ status' = [status EXCEPT ![at[w]] = "SKIPPED"]
          /\ UNCHANGED <<attempt, lease, done, approval, left, error, verdict, effect, crashes>>
      BY <1>13, <2>1, <2>k DEF SkipRun, SettleNext, NextRow, gateVars
    <3>1. PassesTyped'
      BY <1>a, <3>0, SettleTyped, <2>1, <2>k DEF TypeOK, PassesTyped, TakeUp
    <3>2. TypeOK'
      BY <1>a, <3>0, <3>1, LimitsAssumption, <2>1, <2>k DEF TypeOK, PassesTyped
    <3>3. \A q \in Runs : RunInv(q)'
      BY <1>a, <1>b, <1>c, <3>0, <2>1, <2>k DEF TypeOK, RunInv, PassInv, Executing, HeldBy
    <3>4. \A v \in Workers : PassInv(v)'
      BY <1>a, <1>b, <1>c, <1>d, <3>0, <3>1, <2>1, <2>k
         DEF TypeOK, PassesTyped, RunInv, PassInv, OneExecution, Executing, HeldBy, TakeUp
    <3>5. OneExecution'
      BY <1>a, <1>c, <1>d, <3>0, <2>1, <2>k DEF TypeOK, PassInv, OneExecution, Executing, TakeUp
    <3> QED
      BY <3>1, <3>2, <3>3, <3>4, <3>5 DEF IInv
  <2>2. CASE status[at[w]] = "WAITING_APPROVAL" /\ at[w] \notin Gated
    <3>0. /\ pc[w] = "skip"
          /\ TakeUp(w, NoRun, "pass", 0, 0, TRUE)
          /\ status' = [status EXCEPT ![at[w]] = "SKIPPED"]
          /\ UNCHANGED <<attempt, lease, done, approval, left, error, verdict, effect, crashes>>
      BY <1>13, <2>2, <2>k DEF SkipRun, SettleNext, NextRow, gateVars
    <3>1. PassesTyped'
      BY <1>a, <3>0, NextRowTyped, <2>2, <2>k DEF TypeOK, PassesTyped, TakeUp
    <3>2. TypeOK'
      BY <1>a, <3>0, <3>1, LimitsAssumption, <2>2, <2>k DEF TypeOK, PassesTyped
    <3>3. \A q \in Runs : RunInv(q)'
      BY <1>a, <1>b, <1>c, <3>0, <2>2, <2>k DEF TypeOK, RunInv, PassInv, Executing, HeldBy
    <3>4. \A v \in Workers : PassInv(v)'
      BY <1>a, <1>b, <1>c, <1>d, <3>0, <3>1, <2>2, <2>k
         DEF TypeOK, PassesTyped, RunInv, PassInv, OneExecution, Executing, HeldBy, TakeUp
    <3>5. OneExecution'
      BY <1>a, <1>c, <1>d, <3>0, <2>2, <2>k DEF TypeOK, PassInv, OneExecution, Executing, TakeUp
    <3> QED
      BY <3>1, <3>2, <3>3, <3>4, <3>5 DEF IInv
  <2>3. CASE ~(status[at[w]] = "WAITING_APPROVAL")
    <3>0. /\ pc[w] = "skip"
          /\ TakeUp(w, NoRun, "pass", 0, 0, TRUE)
          /\ UNCHANGED <<status, attempt, lease, done, approval, left, error, verdict, effect, crashes>>
      BY <1>13, <2>3, <2>k DEF SkipRun, SettleNext, NextRow, gateVars
    <3>1. PassesTyped'
      BY <1>a, <3>0, NextRowTyped, <2>3, <2>k DEF TypeOK, PassesTyped, TakeUp
    <3>2. TypeOK'
      BY <1>a, <3>0, <3>1, LimitsAssumption, <2>3, <2>k DEF TypeOK, PassesTyped
    <3>3. \A q \in Runs : RunInv(q)'
      BY <1>a, <1>b, <1>c, <3>0, <2>3, <2>k DEF TypeOK, RunInv, PassInv, Executing, HeldBy
    <3>4. \A v \in Workers : PassInv(v)'
      BY <1>a, <1>b, <1>c, <1>d, <3>0, <3>1, <2>3, <2>k
         DEF TypeOK, PassesTyped, RunInv, PassInv, OneExecution, Executing, HeldBy, TakeUp
    <3>5. OneExecution'
      BY <1>a, <1>c, <1>d, <3>0, <2>3, <2>k DEF TypeOK, PassInv, OneExecution, Executing, TakeUp
    <3> QED
      BY <3>1, <3>2, <3>3, <3>4, <3>5 DEF IInv
  <2> QED
    BY <2>1, <2>2, <2>3
<1>14. ASSUME NEW w \in Workers, ClaimRun(w)
       PROVE  IInv'
  <2>k. at[w] \in Runs /\ done[at[w]] \in 0..Steps /\ attempt[at[w]] \in 0..MaxAttempts
        /\ status[at[w]] \in RunStatus
    BY <1>a, <1>c, <1>14 DEF TypeOK, PassInv, ClaimRun
  <2>1. CASE Claimable(at[w]) /\ done[at[w]] + 1 <= Steps
    <3>a. ActOrClose(done[at[w]] + 1) = "act"
      BY <2>1 DEF ActOrClose
    <3>b. /\ attempt[at[w]] + 1 \in 0..MaxAttempts /\ done[at[w]] + 1 \in 0..(Steps + 1)
      /\ status[at[w]] \in {"WAITING_APPROVAL", "PENDING"}
      BY <2>1, <2>k, LimitsAssumption DEF Claimable, LeaseExpired
    <3>0. /\ pc[w] = "claim"
          /\ TakeUp(w, at[w], "act", attempt[at[w]] + 1, done[at[w]] + 1, TRUE)
          /\ status' = [status EXCEPT ![at[w]] = "PENDING"]
          /\ attempt' = [attempt EXCEPT ![at[w]] = @ + 1]
          /\ lease' = [lease EXCEPT ![at[w]] = Lease]
          /\ UNCHANGED <<done, approval, left, error, verdict, effect, crashes>>
      BY <1>14, <2>1, <2>k, <3>a, <3>b DEF ClaimRun, NextRow, gateVars
    <3>1. PassesTyped'
      BY <1>a, <3>0, <3>a, <3>b, TakeUpTyped, <2>1, <2>k, <3>a, <3>b
         DEF TypeOK, PassesTyped, TakeUp
    <3>2. TypeOK'
      BY <1>a, <3>0, <3>1, LimitsAssumption, <2>1, <2>k, <3>a, <3>b DEF TypeOK, PassesTyped
    <3>3. \A q \in Runs : RunInv(q)'
      <4>1. ASSUME NEW q \in Runs, q # at[w]
           PROVE  RunInv(q)'
        BY <1>a, <1>b, <3>0, <2>k, <3>b, <4>1 DEF TypeOK, RunInv
      <4>2. ASSUME NEW q \in Runs, q = at[w]
           PROVE  RunInv(q)'
        BY <1>a, <1>b, <1>c, <3>0, <2>k, <3>b, <4>2, LimitsAssumption, SMTT(30) DEF TypeOK, RunInv, PassInv
      <4> QED
        BY <4>1, <4>2
    <3>4. \A v \in Workers : PassInv(v)'
      BY <1>a, <1>b, <1>c, <1>d, <3>0, <3>1, <2>1, <2>k, <3>a, <3>b
         DEF TypeOK, PassesTyped, RunInv, PassInv, OneExecution, Executing, HeldBy, TakeUp
    <3>5. OneExecution'
      BY <1>a, <1>c, <1>d, <3>0, <2>1, <2>k, <3>a, <3>b
         DEF TypeOK, PassInv, OneExecution, Executing, TakeUp
    <3> QED
      BY <3>1, <3>2, <3>3, <3>4, <3>5 DEF IInv
  <2>2. CASE Claimable(at[w]) /\ ~(done[at[w]] + 1 <= Steps)
    <3>a. ActOrClose(done[at[w]] + 1) = "close"
      BY <2>2 DEF ActOrClose
    <3>b. /\ attempt[at[w]] + 1 \in 0..MaxAttempts /\ done[at[w]] + 1 \in 0..(Steps + 1)
      /\ status[at[w]] \in {"WAITING_APPROVAL", "PENDING"}
      /\ done[at[w]] = Steps
      BY <2>2, <2>k, LimitsAssumption DEF Claimable, LeaseExpired
    <3>0. /\ pc[w] = "claim"
          /\ TakeUp(w, at[w], "close", attempt[at[w]] + 1, done[at[w]] + 1, TRUE)
          /\ status' = [status EXCEPT ![at[w]] = "PENDING"]
          /\ attempt' = [attempt EXCEPT ![at[w]] = @ + 1]
          /\ lease' = [lease EXCEPT ![at[w]] = Lease]
          /\ UNCHANGED <<done, approval, left, error, verdict, effect, crashes>>
      BY <1>14, <2>2, <2>k, <3>a, <3>b DEF ClaimRun, NextRow, gateVars
    <3>1. PassesTyped'
      BY <1>a, <3>0, <3>a, <3>b, TakeUpTyped, <2>2, <2>k, <3>a, <3>b
         DEF TypeOK, PassesTyped, TakeUp
    <3>2. TypeOK'
      BY <1>a, <3>0, <3>1, LimitsAssumption, <2>2, <2>k, <3>a, <3>b DEF TypeOK, PassesTyped
    <3>3. \A q \in Runs : RunInv(q)'
      <4>1. ASSUME NEW q \in Runs, q # at[w]
           PROVE  RunInv(q)'
        BY <1>a, <1>b, <3>0, <2>k, <3>b, <4>1 DEF TypeOK, RunInv
      <4>2. ASSUME NEW q \in Runs, q = at[w]
           PROVE  RunInv(q)'
        BY <1>a, <1>b, <1>c, <3>0, <2>k, <3>b, <4>2, LimitsAssumption, SMTT(30) DEF TypeOK, RunInv, PassInv
      <4> QED
        BY <4>1, <4>2
    <3>4. \A v \in Workers : PassInv(v)'
      BY <1>a, <1>b, <1>c, <1>d, <3>0, <3>1, <2>2, <2>k, <3>a, <3>b
         DEF TypeOK, PassesTyped, RunInv, PassInv, OneExecution, Executing, HeldBy, TakeUp
    <3>5. OneExecution'
      BY <1>a, <1>c, <1>d, <3>0, <2>2, <2>k, <3>a, <3>b
         DEF TypeOK, PassInv, OneExecution, Executing, TakeUp
    <3> QED
      BY <3>1, <3>2, <3>3, <3>4, <3>5 DEF IInv
  <2>3. CASE ~Claimable(at[w])
    <3>0. /\ pc[w] = "claim"
          /\ TakeUp(w, NoRun, "pass", 0, 0, TRUE)
          /\ UNCHANGED <<status, attempt, lease, done, approval, left, error, verdict, effect, crashes>>
      BY <1>14, <2>3, <2>k DEF ClaimRun, NextRow, gateVars
    <3>1. PassesTyped'
      BY <1>a, <3>0, NextRowTyped, <2>3, <2>k DEF TypeOK, PassesTyped, TakeUp
    <3>2. TypeOK'
      BY <1>a, <3>0, <3>1, LimitsAssumption, <2>3, <2>k DEF TypeOK, PassesTyped
    <3>3. \A q \in Runs : RunInv(q)'
      BY <1>a, <1>b, <1>c, <3>0, <2>3, <2>k DEF TypeOK, RunInv, PassInv, Executing, HeldBy
    <3>4. \A v \in Workers : PassInv(v)'
      BY <1>a, <1>b, <1>c, <1>d, <3>0, <3>1, <2>3, <2>k
         DEF TypeOK, PassesTyped, RunInv, PassInv, OneExecution, Executing, HeldBy, TakeUp
    <3>5. OneExecution'
      BY <1>a, <1>c, <1>d, <3>0, <2>3, <2>k DEF TypeOK, PassInv, OneExecution, Executing, TakeUp
    <3> QED
      BY <3>1, <3>2, <3>3, <3>4, <3>5 DEF IInv
  <2> QED
    BY <2>1, <2>2, <2>3
<1>15. ASSUME NEW w \in Workers, NEW b \in BOOLEAN, RunAction(w, b)
       PROVE  IInv'
  <2>k. at[w] \in Runs /\ todo[w] \in 1..Steps
    BY <1>c, <1>15 DEF PassInv, RunAction
  <2>1. CASE effect' = [effect EXCEPT ![at[w]] = @ \cup {todo[w]}]
    <3>0. /\ pc[w] = "act"
          /\ ok' = [ok EXCEPT ![w] = b]
          /\ pc' = [pc EXCEPT ![w] = "mark"]
          /\ effect' = [effect EXCEPT ![at[w]] = @ \cup {todo[w]}]
          /\ UNCHANGED <<status, attempt, lease, done, approval, left, error, verdict, at, fresh, held, todo, crashes>>
      BY <1>15, <2>1, <2>k DEF RunAction, runVars, gateVars
    <3>1. PassesTyped'
      BY <1>a, <3>0, LimitsAssumption, <2>1, <2>k DEF TypeOK, PassesTyped
    <3>2. TypeOK'
      BY <1>a, <3>0, <3>1, LimitsAssumption, <2>1, <2>k DEF TypeOK, PassesTyped
    <3>3. \A q \in Runs : RunInv(q)'
      <4>1. ASSUME NEW q \in Runs, q # at[w]
           PROVE  RunInv(q)'
        BY <1>a, <1>b, <3>0, <2>k, <4>1 DEF TypeOK, RunInv
      <4>2. ASSUME NEW q \in Runs, q = at[w]
           PROVE  RunInv(q)'
        BY <1>a, <1>b, <1>c, <3>0, <2>k, <4>2, LimitsAssumption, SMTT(30) DEF TypeOK, RunInv, PassInv
      <4> QED
        BY <4>1, <4>2
    <3>4. \A v \in Workers : PassInv(v)'
      BY <1>a, <1>b, <1>c, <1>d, <3>0, <3>1, <2>1, <2>k
         DEF TypeOK, PassesTyped, RunInv, PassInv, OneExecution, Executing, HeldBy
    <3>5. OneExecution'
      BY <1>a, <1>c, <1>d, <3>0, <2>1, <2>k DEF TypeOK, PassInv, OneExecution, Executing
    <3> QED
      BY <3>1, <3>2, <3>3, <3>4, <3>5 DEF IInv
  <2>2. CASE ~b /\ UNCHANGED effect
    <3>0. /\ pc[w] = "act"
          /\ ~b
          /\ ok' = [ok EXCEPT ![w] = b]
          /\ pc' = [pc EXCEPT ![w] = "mark"]
          /\ UNCHANGED <<status, attempt, lease, done, approval, left, error, verdict, at, fresh, held, todo, effect, crashes>>
      BY <1>15, <2>2, <2>k DEF RunAction, runVars, gateVars
    <3>1. PassesTyped'
      BY <1>a, <3>0, LimitsAssumption, <2>2, <2>k DEF TypeOK, PassesTyped
    <3>2. TypeOK'
      BY <1>a, <3>0, <3>1, LimitsAssumption, <2>2, <2>k DEF TypeOK, PassesTyped
    <3>3. \A q \in Runs : RunInv(q)'
      BY <1>a, <1>b, <1>c, <3>0, <2>2, <2>k DEF TypeOK, RunInv, PassInv, Executing, HeldBy
    <3>4. \A v \in Workers : PassInv(v)'
      BY <1>a, <1>b, <1>c, <1>d, <3>0, <3>1, <2>2, <2>k
         DEF TypeOK, PassesTyped, RunInv, PassInv, OneExecution, Executing, HeldBy
    <3>5. OneExecution'
      BY <1>a, <1>c, <1>d, <3>0, <2>2, <2>k DEF TypeOK, PassInv, OneExecution, Executing
    <3> QED
      BY <3>1, <3>2, <3>3, <3>4, <3>5 DEF IInv
  <2> QED
    BY <2>1, <2>2, <1>15 DEF RunAction, runVars, gateVars
<1>16. ASSUME NEW w \in Workers, RecordStep(w)
       PROVE  IInv'
  <2>k. at[w] \in Runs /\ todo[w] \in 1..Steps /\ held[w] \in 0..MaxAttempts
    BY <1>a, <1>c, <1>16 DEF TypeOK, PassInv, RecordStep
  <2>1. CASE HeldBy(w) /\ ok[w] /\ todo[w] + 1 <= Steps
    <3>a. ActOrClose(todo[w] + 1) = "act"
      BY <2>1 DEF ActOrClose
    <3>b. /\ todo[w] \in effect[at[w]] /\ todo[w] = done[at[w]] + 1
      /\ todo[w] + 1 \in 0..(Steps + 1) /\ status[at[w]] = "PENDING"
      BY <1>c, <1>16, <2>1, <2>k, LimitsAssumption DEF PassInv, HeldBy, RecordStep
    <3>c. 1..todo[w] \subseteq effect[at[w]]
      <4>1. 1..done[at[w]] \subseteq effect[at[w]] /\ done[at[w]] \in Nat
        BY <1>a, <1>b, <2>k DEF TypeOK, RunInv
      <4>2. 1..todo[w] = (1..done[at[w]]) \cup {todo[w]}
        BY <3>b, <4>1
      <4> QED
        BY <3>b, <4>1, <4>2
    <3>0. /\ pc[w] = "mark"
          /\ TakeUp(w, at[w], "act", held[w], todo[w] + 1, TRUE)
          /\ lease' = [lease EXCEPT ![at[w]] = Lease]
          /\ done' = [done EXCEPT ![at[w]] = todo[w]]
          /\ UNCHANGED <<status, attempt, approval, left, error, verdict, effect, crashes>>
      BY <1>16, <2>1, <2>k, <3>a, <3>b, <3>c DEF RecordStep, DoneNow, NextRow, gateVars
    <3>1. PassesTyped'
      BY <1>a, <3>0, <3>b, TakeUpTyped, <2>1, <2>k, <3>a, <3>b, <3>c
         DEF TypeOK, PassesTyped, TakeUp
    <3>2. TypeOK'
      BY <1>a, <3>0, <3>1, LimitsAssumption, <2>1, <2>k, <3>a, <3>b, <3>c
         DEF TypeOK, PassesTyped
    <3>3. \A q \in Runs : RunInv(q)'
      <4>1. ASSUME NEW q \in Runs, q # at[w]
           PROVE  RunInv(q)'
        BY <1>a, <1>b, <3>0, <2>k, <3>b, <3>c, <4>1 DEF TypeOK, RunInv
      <4>2. ASSUME NEW q \in Runs, q = at[w]
           PROVE  RunInv(q)'
        BY <1>a, <1>b, <1>c, <3>0, <2>k, <3>b, <3>c, <4>2, LimitsAssumption DEF TypeOK, RunInv, PassInv
      <4> QED
        BY <4>1, <4>2
    <3>4. \A v \in Workers : PassInv(v)'
      BY <1>a, <1>b, <1>c, <1>d, <3>0, <3>1, <2>1, <2>k, <3>a, <3>b, <3>c
         DEF TypeOK, PassesTyped, RunInv, PassInv, OneExecution, Executing, HeldBy, TakeUp
    <3>5. OneExecution'
      BY <1>a, <1>c, <1>d, <3>0, <2>1, <2>k, <3>a, <3>b, <3>c
         DEF TypeOK, PassInv, OneExecution, Executing, TakeUp
    <3> QED
      BY <3>1, <3>2, <3>3, <3>4, <3>5 DEF IInv
  <2>2. CASE HeldBy(w) /\ ok[w] /\ ~(todo[w] + 1 <= Steps)
    <3>a. ActOrClose(todo[w] + 1) = "close"
      BY <2>2 DEF ActOrClose
    <3>b. /\ todo[w] \in effect[at[w]] /\ todo[w] = done[at[w]] + 1
      /\ todo[w] + 1 \in 0..(Steps + 1) /\ status[at[w]] = "PENDING"
      /\ todo[w] = Steps
      BY <1>c, <1>16, <2>2, <2>k, LimitsAssumption DEF PassInv, HeldBy, RecordStep
    <3>c. 1..todo[w] \subseteq effect[at[w]]
      <4>1. 1..done[at[w]] \subseteq effect[at[w]] /\ done[at[w]] \in Nat
        BY <1>a, <1>b, <2>k DEF TypeOK, RunInv
      <4>2. 1..todo[w] = (1..done[at[w]]) \cup {todo[w]}
        BY <3>b, <4>1
      <4> QED
        BY <3>b, <4>1, <4>2
    <3>0. /\ pc[w] = "mark"
          /\ TakeUp(w, at[w], "close", held[w], todo[w] + 1, TRUE)
          /\ lease' = [lease EXCEPT ![at[w]] = Lease]
          /\ done' = [done EXCEPT ![at[w]] = todo[w]]
          /\ UNCHANGED <<status, attempt, approval, left, error, verdict, effect, crashes>>
      BY <1>16, <2>2, <2>k, <3>a, <3>b, <3>c DEF RecordStep, DoneNow, NextRow, gateVars
    <3>1. PassesTyped'
      BY <1>a, <3>0, <3>b, TakeUpTyped, <2>2, <2>k, <3>a, <3>b, <3>c
         DEF TypeOK, PassesTyped, TakeUp
    <3>2. TypeOK'
      BY <1>a, <3>0, <3>1, LimitsAssumption, <2>2, <2>k, <3>a, <3>b, <3>c
         DEF TypeOK, PassesTyped
    <3>3. \A q \in Runs : RunInv(q)'
      <4>1. ASSUME NEW q \in Runs, q # at[w]
           PROVE  RunInv(q)'
        BY <1>a, <1>b, <3>0, <2>k, <3>b, <3>c, <4>1 DEF TypeOK, RunInv
      <4>2. ASSUME NEW q \in Runs, q = at[w]
           PROVE  RunInv(q)'
        BY <1>a, <1>b, <1>c, <3>0, <2>k, <3>b, <3>c, <4>2, LimitsAssumption DEF TypeOK, RunInv, PassInv
      <4> QED
        BY <4>1, <4>2
    <3>4. \A v \in Workers : PassInv(v)'
      BY <1>a, <1>b, <1>c, <1>d, <3>0, <3>1, <2>2, <2>k, <3>a, <3>b, <3>c
         DEF TypeOK, PassesTyped, RunInv, PassInv, OneExecution, Executing, HeldBy, TakeUp
    <3>5. OneExecution'
      BY <1>a, <1>c, <1>d, <3>0, <2>2, <2>k, <3>a, <3>b, <3>c
         DEF TypeOK, PassInv, OneExecution, Executing, TakeUp
    <3> QED
      BY <3>1, <3>2, <3>3, <3>4, <3>5 DEF IInv
  <2>3. CASE HeldBy(w) /\ ~ok[w]
    <3>0. /\ pc[w] = "mark"
          /\ Goto(w, "close")
          /\ lease' = [lease EXCEPT ![at[w]] = Lease]
          /\ done' = [done EXCEPT ![at[w]] = done[at[w]]]
          /\ UNCHANGED <<status, attempt, approval, left, error, verdict, effect, crashes>>
      BY <1>16, <2>3, <2>k DEF RecordStep, DoneNow, NextRow, gateVars
    <3>1. PassesTyped'
      BY <1>a, <3>0, LimitsAssumption, <2>3, <2>k DEF TypeOK, PassesTyped, Goto
    <3>2. TypeOK'
      BY <1>a, <3>0, <3>1, LimitsAssumption, <2>3, <2>k DEF TypeOK, PassesTyped
    <3>3. \A q \in Runs : RunInv(q)'
      BY <1>a, <1>b, <1>c, <3>0, <2>3, <2>k DEF TypeOK, RunInv, PassInv, Executing, HeldBy
    <3>4. \A v \in Workers : PassInv(v)'
      BY <1>a, <1>b, <1>c, <1>d, <3>0, <3>1, <2>3, <2>k
         DEF TypeOK, PassesTyped, RunInv, PassInv, OneExecution, Executing, HeldBy, Goto
    <3>5. OneExecution'
      BY <1>a, <1>c, <1>d, <3>0, <2>3, <2>k DEF TypeOK, PassInv, OneExecution, Executing, Goto
    <3> QED
      BY <3>1, <3>2, <3>3, <3>4, <3>5 DEF IInv
  <2>4. CASE ~HeldBy(w)
    <3>0. /\ pc[w] = "mark"
          /\ TakeUp(w, NoRun, "pass", 0, 0, TRUE)
          /\ UNCHANGED <<status, attempt, lease, done, approval, left, error, verdict, effect, crashes>>
      BY <1>16, <2>4, <2>k DEF RecordStep, DoneNow, NextRow, gateVars
    <3>1. PassesTyped'
      BY <1>a, <3>0, LimitsAssumption, <2>4, <2>k DEF TypeOK, PassesTyped, TakeUp
    <3>2. TypeOK'
      BY <1>a, <3>0, <3>1, LimitsAssumption, <2>4, <2>k DEF TypeOK, PassesTyped
    <3>3. \A q \in Runs : RunInv(q)'
      BY <1>a, <1>b, <1>c, <3>0, <2>4, <2>k DEF TypeOK, RunInv, PassInv, Executing, HeldBy
    <3>4. \A v \in Workers : PassInv(v)'
      BY <1>a, <1>b, <1>c, <1>d, <3>0, <3>1, <2>4, <2>k
         DEF TypeOK, PassesTyped, RunInv, PassInv, OneExecution, Executing, HeldBy, TakeUp
    <3>5. OneExecution'
      BY <1>a, <1>c, <1>d, <3>0, <2>4, <2>k DEF TypeOK, PassInv, OneExecution, Executing, TakeUp
    <3> QED
      BY <3>1, <3>2, <3>3, <3>4, <3>5 DEF IInv
  <2> QED
    BY <2>1, <2>2, <2>3, <2>4
<1>17. ASSUME NEW w \in Workers, CloseRun(w)
       PROVE  IInv'
  <2>k. at[w] \in Runs /\ ok[w] \in BOOLEAN
    BY <1>a, <1>c, <1>17 DEF TypeOK, PassInv, CloseRun
  <2>1. CASE HeldBy(w) /\ at[w] \in Gated
    <3>0. /\ pc[w] = "close"
          /\ TakeUp(w, at[w], "settle", 0, 0, ok[w])
          /\ status' = [status EXCEPT ![at[w]] = IF ok[w] THEN "DONE" ELSE "FAILED"]
          /\ lease' = [lease EXCEPT ![at[w]] = 0]
          /\ UNCHANGED <<attempt, done, approval, left, error, verdict, effect, crashes>>
      BY <1>17, <2>1, <2>k DEF CloseRun, SettleNext, NextRow, gateVars
    <3>1. PassesTyped'
      BY <1>a, <3>0, SettleTyped, <2>1, <2>k DEF TypeOK, PassesTyped, TakeUp
    <3>2. TypeOK'
      BY <1>a, <3>0, <3>1, LimitsAssumption, <2>1, <2>k DEF TypeOK, PassesTyped
    <3>3. \A q \in Runs : RunInv(q)'
      BY <1>a, <1>b, <1>c, <3>0, <2>1, <2>k DEF TypeOK, RunInv, PassInv, Executing, HeldBy
    <3>4. \A v \in Workers : PassInv(v)'
      BY <1>a, <1>b, <1>c, <1>d, <3>0, <3>1, <2>1, <2>k
         DEF TypeOK, PassesTyped, RunInv, PassInv, OneExecution, Executing, HeldBy, TakeUp
    <3>5. OneExecution'
      BY <1>a, <1>c, <1>d, <3>0, <2>1, <2>k DEF TypeOK, PassInv, OneExecution, Executing, TakeUp
    <3> QED
      BY <3>1, <3>2, <3>3, <3>4, <3>5 DEF IInv
  <2>2. CASE HeldBy(w) /\ at[w] \notin Gated
    <3>0. /\ pc[w] = "close"
          /\ TakeUp(w, NoRun, "pass", 0, 0, TRUE)
          /\ status' = [status EXCEPT ![at[w]] = IF ok[w] THEN "DONE" ELSE "FAILED"]
          /\ lease' = [lease EXCEPT ![at[w]] = 0]
          /\ UNCHANGED <<attempt, done, approval, left, error, verdict, effect, crashes>>
      BY <1>17, <2>2, <2>k DEF CloseRun, SettleNext, NextRow, gateVars
    <3>1. PassesTyped'
      BY <1>a, <3>0, NextRowTyped, <2>2, <2>k DEF TypeOK, PassesTyped, TakeUp
    <3>2. TypeOK'
      BY <1>a, <3>0, <3>1, LimitsAssumption, <2>2, <2>k DEF TypeOK, PassesTyped
    <3>3. \A q \in Runs : RunInv(q)'
      BY <1>a, <1>b, <1>c, <3>0, <2>2, <2>k DEF TypeOK, RunInv, PassInv, Executing, HeldBy
    <3>4. \A v \in Workers : PassInv(v)'
      BY <1>a, <1>b, <1>c, <1>d, <3>0, <3>1, <2>2, <2>k
         DEF TypeOK, PassesTyped, RunInv, PassInv, OneExecution, Executing, HeldBy, TakeUp
    <3>5. OneExecution'
      BY <1>a, <1>c, <1>d, <3>0, <2>2, <2>k DEF TypeOK, PassInv, OneExecution, Executing, TakeUp
    <3> QED
      BY <3>1, <3>2, <3>3, <3>4, <3>5 DEF IInv
  <2>3. CASE ~HeldBy(w)
    <3>0. /\ pc[w] = "close"
          /\ TakeUp(w, NoRun, "pass", 0, 0, TRUE)
          /\ UNCHANGED <<status, attempt, lease, done, approval, left, error, verdict, effect, crashes>>
      BY <1>17, <2>3, <2>k DEF CloseRun, SettleNext, NextRow, gateVars
    <3>1. PassesTyped'
      BY <1>a, <3>0, NextRowTyped, <2>3, <2>k DEF TypeOK, PassesTyped, TakeUp
    <3>2. TypeOK'
      BY <1>a, <3>0, <3>1, LimitsAssumption, <2>3, <2>k DEF TypeOK, PassesTyped
    <3>3. \A q \in Runs : RunInv(q)'
      BY <1>a, <1>b, <1>c, <3>0, <2>3, <2>k DEF TypeOK, RunInv, PassInv, Executing, HeldBy
    <3>4. \A v \in Workers : PassInv(v)'
      BY <1>a, <1>b, <1>c, <1>d, <3>0, <3>1, <2>3, <2>k
         DEF TypeOK, PassesTyped, RunInv, PassInv, OneExecution, Executing, HeldBy, TakeUp
    <3>5. OneExecution'
      BY <1>a, <1>c, <1>d, <3>0, <2>3, <2>k DEF TypeOK, PassInv, OneExecution, Executing, TakeUp
    <3> QED
      BY <3>1, <3>2, <3>3, <3>4, <3>5 DEF IInv
  <2> QED
    BY <2>1, <2>2, <2>3
<1>18. ASSUME NEW w \in Workers, SettleMachineApproval(w)
       PROVE  IInv'
  <2>k. at[w] \in Runs /\ ok[w] \in BOOLEAN
    BY <1>a, <1>c, <1>18 DEF TypeOK, PassInv, SettleMachineApproval
  <2>1. CASE approval[at[w]] = "APPROVED"
    <3>0. /\ pc[w] = "settle"
          /\ TakeUp(w, NoRun, "pass", 0, 0, TRUE)
          /\ approval' = [approval EXCEPT ![at[w]] = IF ok[w] THEN "EXECUTED" ELSE @]
          /\ error' = [error EXCEPT ![at[w]] = ~ok[w]]
          /\ UNCHANGED <<status, attempt, lease, done, left, verdict, effect, crashes>>
      BY <1>18, <2>1, <2>k DEF SettleMachineApproval, NextRow, runVars
    <3>1. PassesTyped'
      BY <1>a, <3>0, NextRowTyped, <2>1, <2>k DEF TypeOK, PassesTyped, TakeUp
    <3>2. TypeOK'
      BY <1>a, <3>0, <3>1, LimitsAssumption, <2>1, <2>k DEF TypeOK, PassesTyped
    <3>3. \A q \in Runs : RunInv(q)'
      BY <1>a, <1>b, <1>c, <3>0, <2>1, <2>k DEF TypeOK, RunInv, PassInv, Executing, HeldBy
    <3>4. \A v \in Workers : PassInv(v)'
      BY <1>a, <1>b, <1>c, <1>d, <3>0, <3>1, <2>1, <2>k
         DEF TypeOK, PassesTyped, RunInv, PassInv, OneExecution, Executing, HeldBy, TakeUp
    <3>5. OneExecution'
      BY <1>a, <1>c, <1>d, <3>0, <2>1, <2>k DEF TypeOK, PassInv, OneExecution, Executing, TakeUp
    <3> QED
      BY <3>1, <3>2, <3>3, <3>4, <3>5 DEF IInv
  <2>2. CASE approval[at[w]] # "APPROVED"
    <3>0. /\ pc[w] = "settle"
          /\ TakeUp(w, NoRun, "pass", 0, 0, TRUE)
          /\ UNCHANGED <<status, attempt, lease, done, approval, left, error, verdict, effect, crashes>>
      BY <1>18, <2>2, <2>k DEF SettleMachineApproval, NextRow, runVars
    <3>1. PassesTyped'
      BY <1>a, <3>0, NextRowTyped, <2>2, <2>k DEF TypeOK, PassesTyped, TakeUp
    <3>2. TypeOK'
      BY <1>a, <3>0, <3>1, LimitsAssumption, <2>2, <2>k DEF TypeOK, PassesTyped
    <3>3. \A q \in Runs : RunInv(q)'
      BY <1>a, <1>b, <1>c, <3>0, <2>2, <2>k DEF TypeOK, RunInv, PassInv, Executing, HeldBy
    <3>4. \A v \in Workers : PassInv(v)'
      BY <1>a, <1>b, <1>c, <1>d, <3>0, <3>1, <2>2, <2>k
         DEF TypeOK, PassesTyped, RunInv, PassInv, OneExecution, Executing, HeldBy, TakeUp
    <3>5. OneExecution'
      BY <1>a, <1>c, <1>d, <3>0, <2>2, <2>k DEF TypeOK, PassInv, OneExecution, Executing, TakeUp
    <3> QED
      BY <3>1, <3>2, <3>3, <3>4, <3>5 DEF IInv
  <2> QED
    BY <2>1, <2>2
<1>19. ASSUME NEW w \in Workers, NEW r \in Runs, FailOverLimit(w, r)
       PROVE  IInv'
  <2>1. CASE r \in Gated
    <3>0. /\ pc[w] = "pass"
          /\ status[r] = "PENDING"
          /\ TakeUp(w, r, "settle", 0, 0, FALSE)
          /\ status' = [status EXCEPT ![r] = "FAILED"]
          /\ UNCHANGED <<attempt, lease, done, approval, left, error, verdict, effect, crashes>>
      BY <1>19, <2>1 DEF FailOverLimit, LeaseExpired, SettleNext, NextRow, gateVars
    <3>1. PassesTyped'
      BY <1>a, <3>0, SettleTyped, <2>1 DEF TypeOK, PassesTyped, TakeUp
    <3>2. TypeOK'
      BY <1>a, <3>0, <3>1, LimitsAssumption, <2>1 DEF TypeOK, PassesTyped
    <3>3. \A q \in Runs : RunInv(q)'
      BY <1>a, <1>b, <1>c, <3>0, <2>1 DEF TypeOK, RunInv, PassInv, Executing, HeldBy
    <3>4. \A v \in Workers : PassInv(v)'
      BY <1>a, <1>b, <1>c, <1>d, <3>0, <3>1, <2>1
         DEF TypeOK, PassesTyped, RunInv, PassInv, OneExecution, Executing, HeldBy, TakeUp
    <3>5. OneExecution'
      BY <1>a, <1>c, <1>d, <3>0, <2>1 DEF TypeOK, PassInv, OneExecution, Executing, TakeUp
    <3> QED
      BY <3>1, <3>2, <3>3, <3>4, <3>5 DEF IInv
  <2>2. CASE r \notin Gated
    <3>0. /\ pc[w] = "pass"
          /\ status[r] = "PENDING"
          /\ TakeUp(w, NoRun, "pass", 0, 0, TRUE)
          /\ status' = [status EXCEPT ![r] = "FAILED"]
          /\ UNCHANGED <<attempt, lease, done, approval, left, error, verdict, effect, crashes>>
      BY <1>19, <2>2 DEF FailOverLimit, LeaseExpired, SettleNext, NextRow, gateVars
    <3>1. PassesTyped'
      BY <1>a, <3>0, NextRowTyped, <2>2 DEF TypeOK, PassesTyped, TakeUp
    <3>2. TypeOK'
      BY <1>a, <3>0, <3>1, LimitsAssumption, <2>2 DEF TypeOK, PassesTyped
    <3>3. \A q \in Runs : RunInv(q)'
      BY <1>a, <1>b, <1>c, <3>0, <2>2 DEF TypeOK, RunInv, PassInv, Executing, HeldBy
    <3>4. \A v \in Workers : PassInv(v)'
      BY <1>a, <1>b, <1>c, <1>d, <3>0, <3>1, <2>2
         DEF TypeOK, PassesTyped, RunInv, PassInv, OneExecution, Executing, HeldBy, TakeUp
    <3>5. OneExecution'
      BY <1>a, <1>c, <1>d, <3>0, <2>2 DEF TypeOK, PassInv, OneExecution, Executing, TakeUp
    <3> QED
      BY <3>1, <3>2, <3>3, <3>4, <3>5 DEF IInv
  <2> QED
    BY <2>1, <2>2
<1>20. ASSUME NEW w \in Workers, NEW r \in Runs, LookStale(w, r)
       PROVE  IInv'
  <2>k. attempt[r] \in 0..MaxAttempts /\ done[r] + 1 \in 0..(Steps + 1)
    BY <1>a, LimitsAssumption DEF TypeOK
  <2>0. /\ pc[w] = "pass"
        /\ status[r] = "PENDING"
        /\ TakeUp(w, r, "judgeStale", attempt[r], done[r] + 1, TRUE)
        /\ UNCHANGED <<status, attempt, lease, done, approval, left, error, verdict, effect, crashes>>
    BY <1>20, <2>k DEF LookStale, LeaseExpired, runVars, gateVars
  <2>1. PassesTyped'
    BY <1>a, <2>0, TakeUpTyped, <2>k DEF TypeOK, PassesTyped, TakeUp
  <2>2. TypeOK'
    BY <1>a, <2>0, <2>1, LimitsAssumption, <2>k DEF TypeOK, PassesTyped
  <2>3. \A q \in Runs : RunInv(q)'
    BY <1>a, <1>b, <1>c, <2>0, <2>k DEF TypeOK, RunInv, PassInv, Executing, HeldBy
  <2>4. \A v \in Workers : PassInv(v)'
    BY <1>a, <1>b, <1>c, <1>d, <2>0, <2>1, <2>k
       DEF TypeOK, PassesTyped, RunInv, PassInv, OneExecution, Executing, HeldBy, TakeUp
  <2>5. OneExecution'
    BY <1>a, <1>c, <1>d, <2>0, <2>k DEF TypeOK, PassInv, OneExecution, Executing, TakeUp
  <2> QED
    BY <2>1, <2>2, <2>3, <2>4, <2>5 DEF IInv
<1>21. ASSUME NEW w \in Workers, StopStaleRun(w)
       PROVE  IInv'
  <2>k. at[w] \in Runs
    BY <1>c, <1>21 DEF PassInv, StopStaleRun
  <2>1. CASE Unclaimed(w) /\ at[w] \in Gated
    <3>0. /\ pc[w] = "stop"
          /\ status[at[w]] = "PENDING"
          /\ TakeUp(w, at[w], "settle", 0, 0, FALSE)
          /\ status' = [status EXCEPT ![at[w]] = IF todo[w] > 1 THEN "FAILED" ELSE "SKIPPED"]
          /\ UNCHANGED <<attempt, lease, done, approval, left, error, verdict, effect, crashes>>
      BY <1>21, <2>1, <2>k
         DEF StopStaleRun, Unclaimed, LeaseExpired, SettleNext, NextRow, gateVars
    <3>1. PassesTyped'
      BY <1>a, <3>0, SettleTyped, <2>1, <2>k DEF TypeOK, PassesTyped, TakeUp
    <3>2. TypeOK'
      BY <1>a, <3>0, <3>1, LimitsAssumption, <2>1, <2>k DEF TypeOK, PassesTyped
    <3>3. \A q \in Runs : RunInv(q)'
      BY <1>a, <1>b, <1>c, <3>0, <2>1, <2>k DEF TypeOK, RunInv, PassInv, Executing, HeldBy
    <3>4. \A v \in Workers : PassInv(v)'
      BY <1>a, <1>b, <1>c, <1>d, <3>0, <3>1, <2>1, <2>k
         DEF TypeOK, PassesTyped, RunInv, PassInv, OneExecution, Executing, HeldBy, TakeUp
    <3>5. OneExecution'
      BY <1>a, <1>c, <1>d, <3>0, <2>1, <2>k DEF TypeOK, PassInv, OneExecution, Executing, TakeUp
    <3> QED
      BY <3>1, <3>2, <3>3, <3>4, <3>5 DEF IInv
  <2>2. CASE Unclaimed(w) /\ at[w] \notin Gated
    <3>0. /\ pc[w] = "stop"
          /\ status[at[w]] = "PENDING"
          /\ TakeUp(w, NoRun, "pass", 0, 0, TRUE)
          /\ status' = [status EXCEPT ![at[w]] = IF todo[w] > 1 THEN "FAILED" ELSE "SKIPPED"]
          /\ UNCHANGED <<attempt, lease, done, approval, left, error, verdict, effect, crashes>>
      BY <1>21, <2>2, <2>k
         DEF StopStaleRun, Unclaimed, LeaseExpired, SettleNext, NextRow, gateVars
    <3>1. PassesTyped'
      BY <1>a, <3>0, NextRowTyped, <2>2, <2>k DEF TypeOK, PassesTyped, TakeUp
    <3>2. TypeOK'
      BY <1>a, <3>0, <3>1, LimitsAssumption, <2>2, <2>k DEF TypeOK, PassesTyped
    <3>3. \A q \in Runs : RunInv(q)'
      BY <1>a, <1>b, <1>c, <3>0, <2>2, <2>k DEF TypeOK, RunInv, PassInv, Executing, HeldBy
    <3>4. \A v \in Workers : PassInv(v)'
      BY <1>a, <1>b, <1>c, <1>d, <3>0, <3>1, <2>2, <2>k
         DEF TypeOK, PassesTyped, RunInv, PassInv, OneExecution, Executing, HeldBy, TakeUp
    <3>5. OneExecution'
      BY <1>a, <1>c, <1>d, <3>0, <2>2, <2>k DEF TypeOK, PassInv, OneExecution, Executing, TakeUp
    <3> QED
      BY <3>1, <3>2, <3>3, <3>4, <3>5 DEF IInv
  <2>3. CASE ~Unclaimed(w)
    <3>0. /\ pc[w] = "stop"
          /\ TakeUp(w, NoRun, "pass", 0, 0, TRUE)
          /\ UNCHANGED <<status, attempt, lease, done, approval, left, error, verdict, effect, crashes>>
      BY <1>21, <2>3, <2>k
         DEF StopStaleRun, Unclaimed, LeaseExpired, SettleNext, NextRow, gateVars
    <3>1. PassesTyped'
      BY <1>a, <3>0, NextRowTyped, <2>3, <2>k DEF TypeOK, PassesTyped, TakeUp
    <3>2. TypeOK'
      BY <1>a, <3>0, <3>1, LimitsAssumption, <2>3, <2>k DEF TypeOK, PassesTyped
    <3>3. \A q \in Runs : RunInv(q)'
      BY <1>a, <1>b, <1>c, <3>0, <2>3, <2>k DEF TypeOK, RunInv, PassInv, Executing, HeldBy
    <3>4. \A v \in Workers : PassInv(v)'
      BY <1>a, <1>b, <1>c, <1>d, <3>0, <3>1, <2>3, <2>k
         DEF TypeOK, PassesTyped, RunInv, PassInv, OneExecution, Executing, HeldBy, TakeUp
    <3>5. OneExecution'
      BY <1>a, <1>c, <1>d, <3>0, <2>3, <2>k DEF TypeOK, PassInv, OneExecution, Executing, TakeUp
    <3> QED
      BY <3>1, <3>2, <3>3, <3>4, <3>5 DEF IInv
  <2> QED
    BY <2>1, <2>2, <2>3
<1>22. ASSUME NEW w \in Workers, NEW r \in Runs, LookUnsettled(w, r)
       PROVE  IInv'
  <2>1. CASE status[r] = "DONE"
    <3>0. /\ pc[w] = "pass"
          /\ approval[r] = "APPROVED"
          /\ TakeUp(w, r, "settle", 0, 0, TRUE)
          /\ UNCHANGED <<status, attempt, lease, done, approval, left, error, verdict, effect, crashes>>
      BY <1>22, <2>1 DEF LookUnsettled, Succeeded, Settling, runVars, gateVars
    <3>1. PassesTyped'
      BY <1>a, <3>0, SettleTyped, <2>1 DEF TypeOK, PassesTyped, TakeUp
    <3>2. TypeOK'
      BY <1>a, <3>0, <3>1, LimitsAssumption, <2>1 DEF TypeOK, PassesTyped
    <3>3. \A q \in Runs : RunInv(q)'
      BY <1>a, <1>b, <1>c, <3>0, <2>1 DEF TypeOK, RunInv, PassInv, Executing, HeldBy
    <3>4. \A v \in Workers : PassInv(v)'
      BY <1>a, <1>b, <1>c, <1>d, <3>0, <3>1, <2>1
         DEF TypeOK, PassesTyped, RunInv, PassInv, OneExecution, Executing, HeldBy, TakeUp
    <3>5. OneExecution'
      BY <1>a, <1>c, <1>d, <3>0, <2>1 DEF TypeOK, PassInv, OneExecution, Executing, TakeUp
    <3> QED
      BY <3>1, <3>2, <3>3, <3>4, <3>5 DEF IInv
  <2>2. CASE status[r] # "DONE"
    <3>0. /\ pc[w] = "pass"
          /\ approval[r] = "APPROVED"
          /\ status[r] \in {"FAILED", "SKIPPED"}
          /\ TakeUp(w, r, "settle", 0, 0, FALSE)
          /\ UNCHANGED <<status, attempt, lease, done, approval, left, error, verdict, effect, crashes>>
      BY <1>22, <2>2 DEF LookUnsettled, Succeeded, Settling, runVars, gateVars
    <3>1. PassesTyped'
      BY <1>a, <3>0, SettleTyped, <2>2 DEF TypeOK, PassesTyped, TakeUp
    <3>2. TypeOK'
      BY <1>a, <3>0, <3>1, LimitsAssumption, <2>2 DEF TypeOK, PassesTyped
    <3>3. \A q \in Runs : RunInv(q)'
      BY <1>a, <1>b, <1>c, <3>0, <2>2 DEF TypeOK, RunInv, PassInv, Executing, HeldBy
    <3>4. \A v \in Workers : PassInv(v)'
      BY <1>a, <1>b, <1>c, <1>d, <3>0, <3>1, <2>2
         DEF TypeOK, PassesTyped, RunInv, PassInv, OneExecution, Executing, HeldBy, TakeUp
    <3>5. OneExecution'
      BY <1>a, <1>c, <1>d, <3>0, <2>2 DEF TypeOK, PassInv, OneExecution, Executing, TakeUp
    <3> QED
      BY <3>1, <3>2, <3>3, <3>4, <3>5 DEF IInv
  <2> QED
    BY <2>1, <2>2
<1>23. ASSUME Tick
       PROVE  IInv'
  <2>0. UNCHANGED <<status, attempt, done, approval, error, verdict, pc, at, fresh, held, todo,
                    ok, effect, crashes>>
    BY <1>23 DEF Tick, workerVars
  <2>1. lease' \in [Runs -> 0..Lease] /\ left' \in [Runs -> 0..ValidFor]
    BY <1>a, <1>23, LimitsAssumption DEF Tick, TypeOK
  <2>2. TypeOK'
    BY <1>a, <2>0, <2>1 DEF TypeOK
  <2>3. \A q \in Runs : RunInv(q)'
    BY <1>b, <2>0 DEF RunInv
  <2>4. (\A v \in Workers : PassInv(v)') /\ OneExecution'
    BY <1>c, <1>d, <2>0 DEF PassInv, OneExecution, Executing, HeldBy
  <2> QED
    BY <2>2, <2>3, <2>4 DEF IInv
<1>24. CASE UNCHANGED vars
  BY <1>24 DEF IInv, TypeOK, RunInv, PassInv, OneExecution, Executing, HeldBy, vars, runVars,
     gateVars, workerVars
<1> QED
  BY <1>1, <1>2, <1>3, <1>4, <1>5, <1>6, <1>7, <1>8, <1>9, <1>10, <1>11, <1>12, <1>13, <1>14,
     <1>15, <1>16, <1>17, <1>18, <1>19, <1>20, <1>21, <1>22, <1>23, <1>24
     DEF Next, RowStep, Recover

(* The inductive invariant holds in every reachable state.                  *)
THEOREM Invariant == Spec => []IInv
  BY InitInductive, StepInductive, PTL DEF Spec

(* At most one of the passes that execute a run can still write to the      *)
(* ledger (engine.ts:40-45).                                                *)
THEOREM FenceHolds == Spec => []OneHolder
<1>1. IInv => OneHolder
  BY DEF IInv, OneExecution, OneHolder, HeldBy
<1> QED
  BY <1>1, Invariant, PTL

(* The recorded steps and DONE never claim an action without its effect     *)
(* (actions.ts:19-24).                                                      *)
THEOREM RecordedIsDone == Spec => []LedgerIsTrue
<1>1. IInv => LedgerIsTrue
  BY LimitsAssumption DEF IInv, RunInv, LedgerIsTrue, TypeOK
<1> QED
  BY <1>1, Invariant, PTL

(* An approval is used exactly for a run that is DONE (service.ts:404-406). *)
THEOREM SettledTruly == Spec => []SettledAsItEnded
<1>1. IInv => SettledAsItEnded
  BY DEF IInv, RunInv, SettledAsItEnded
<1> QED
  BY <1>1, Invariant, PTL

(* A run the approver refused has no effect (engine.ts:20-21).              *)
THEOREM RefusedForGood == Spec => []RefusedDoesNothing
<1>1. IInv => RefusedDoesNothing
  BY DEF IInv, RunInv, RefusedDoesNothing
<1> QED
  BY <1>1, Invariant, PTL

\* Every write to a row asks for a status the row of an ended run has not.
LEMMA FinalStep ==
  ASSUME IInv, [Next]_vars, NEW q \in Runs, status[q] \in Final
  PROVE  status'[q] = status[q] /\ done'[q] = done[q] /\ attempt'[q] = attempt[q]
<1> DEFINE Stays == status'[q] = status[q] /\ done'[q] = done[q] /\ attempt'[q] = attempt[q]
<1>a. TypeOK /\ \A w \in Workers : PassInv(w)
  BY DEF IInv
<1>1. ASSUME NEW w \in Workers, NEW r \in Runs,
             OpenGatedRun(w, r) \/ OpenRun(w, r) \/ FailOverLimit(w, r)
      PROVE  Stays
  BY <1>a, <1>1, ZenonT(40) DEF TypeOK, OpenGatedRun, OpenRun, FailOverLimit, LeaseExpired
<1>2. ASSUME NEW w \in Workers, RejectRun(w) \/ SkipRun(w) \/ StopStaleRun(w)
      PROVE  Stays
  BY <1>a, <1>2 DEF TypeOK, RejectRun, SkipRun, StopStaleRun, Unclaimed, LeaseExpired
<1>3. ASSUME NEW w \in Workers, ClaimRun(w)
      PROVE  Stays
  BY <1>a, <1>3, ZenonT(40) DEF TypeOK, ClaimRun, Claimable, LeaseExpired
<1>4. ASSUME NEW w \in Workers, RecordStep(w) \/ CloseRun(w)
      PROVE  Stays
  <2>1. CASE RecordStep(w)
    BY <1>a, <2>1 DEF TypeOK, RecordStep, HeldBy
  <2>2. CASE CloseRun(w)
    BY <1>a, <2>2 DEF TypeOK, CloseRun, HeldBy
  <2> QED
    BY <1>4, <2>1, <2>2
<1>5. CASE UNCHANGED <<status, done, attempt>>
  BY <1>5
<1> QED
  BY <1>1, <1>2, <1>3, <1>4, <1>5, ZenonT(40)
     DEF Next, RowStep, Recover, BeginPass, EndPass, Crash, DecideApproval, ChangeRule, LookWaiting,
         ExpireMachineApproval, Judge, RunAction, SettleMachineApproval, LookStale, LookUnsettled,
         Tick, vars, runVars

(* A run that has ended stays as it ended (engine.ts:295-300, 324-331).     *)
THEOREM EndStays == Spec => EndIsFinal
<1>1. IInv /\ [Next]_vars =>
        [\A r \in Runs :
           status[r] \in Final =>
             /\ status'[r] = status[r] /\ done'[r] = done[r] /\ attempt'[r] = attempt[r]]_vars
  BY FinalStep
<1> QED
  BY <1>1, Invariant, PTL DEF Spec, EndIsFinal

------------------------------------------------------------------------------
(* The ledger implements OrderedJob.                                        *)

\* What the refinement needs of a row besides: no action is ahead of the record by
\* more than one, and only a run that was claimed has attempts.
RunOrder(r) ==
  /\ effect[r] \subseteq 1..(done[r] + 1)
  /\ status[r] \in {"NONE", "WAITING_APPROVAL", "REJECTED"} => attempt[r] = 0
  /\ status[r] \in {"PENDING", "DONE"} => attempt[r] > 0
  /\ status[r] = "WAITING_APPROVAL" => approval[r] # "NONE"

\* What it needs of a pass, also of one that has lost its run.
PassOrder(w) ==
  /\ Executing(w) => attempt[at[w]] > 0
  /\ pc[w] \in {"act", "mark"} => todo[w] <= done[at[w]] + 1
  /\ pc[w] \notin {"idle", "pass"} => approval[at[w]] # "PENDING"

OrderInv ==
  /\ \A r \in Runs : RunOrder(r)
  /\ \A w \in Workers : PassOrder(w)

\* An empty table is in order.
LEMMA OrderInit == Init => OrderInv
  BY RunsAssumption DEF Init, OrderInv, RunOrder, PassOrder, Executing

\* What a row holds stays or grows, and a request is asked for when its run is opened.
Grows(q) ==
  /\ done[q] <= done'[q] /\ attempt[q] <= attempt'[q]
  /\ approval'[q] = "PENDING" => approval[q] = "PENDING" \/ status[q] = "NONE"

\* A step that leaves a row what it was.
Stands == UNCHANGED <<status, attempt, done, effect>>

\* If no row is written to but for its approval, the rows stay in order.
LEMMA RowsStand ==
  ASSUME IInv, OrderInv, Stands,
         \/ UNCHANGED approval
         \/ \E r \in Runs, s \in {"APPROVED", "REJECTED", "EXPIRED", "EXECUTED"} :
               approval' = [approval EXCEPT ![r] = s]
  PROVE  \A q \in Runs : RunOrder(q)' /\ Grows(q)
<1>1. TypeOK /\ \A q \in Runs : RunOrder(q)
  BY DEF IInv, OrderInv
<1> QED
  BY <1>1 DEF TypeOK, RunOrder, Grows, Stands

\* A run that ends.
LEMMA RowEnds ==
  ASSUME IInv, OrderInv, NEW r \in Runs, NEW s \in Final, UNCHANGED <<attempt, done, effect, approval>>,
         status' = [status EXCEPT ![r] = s],
         s = "REJECTED" => status[r] = "WAITING_APPROVAL", s = "DONE" => status[r] = "PENDING"
  PROVE  \A q \in Runs : RunOrder(q)' /\ Grows(q)
<1>1. TypeOK /\ \A q \in Runs : RunOrder(q)
  BY DEF IInv, OrderInv
<1> QED
  BY <1>1 DEF TypeOK, RunOrder, Grows

\* Every step keeps the rows in order, and takes nothing from them.
LEMMA StepRows ==
  ASSUME IInv, OrderInv, [Next]_vars
  PROVE  \A q \in Runs : RunOrder(q)' /\ Grows(q)
<1> DEFINE Kept == \A q \in Runs : RunOrder(q)' /\ Grows(q)
<1>1. /\ TypeOK
      /\ \A r \in Runs : RunInv(r) /\ RunOrder(r)
      /\ \A w \in Workers : PassInv(w) /\ PassOrder(w)
  BY DEF IInv, OrderInv
<1>2. CASE Stands /\ UNCHANGED approval
  BY <1>2, RowsStand
<1>3. ASSUME NEW w \in Workers, ExpireMachineApproval(w) \/ SettleMachineApproval(w)
      PROVE  Kept
  <2>1. Stands /\ at[w] \in Runs
    BY <1>1, <1>3 DEF ExpireMachineApproval, SettleMachineApproval, Stands, runVars, PassInv
  <2>2. \/ UNCHANGED approval
        \/ approval' = [approval EXCEPT ![at[w]] = "EXPIRED"]
        \/ approval' = [approval EXCEPT ![at[w]] = "EXECUTED"]
    BY <1>1, <1>3 DEF ExpireMachineApproval, SettleMachineApproval, TypeOK
  <2> QED
    BY <2>1, <2>2, RowsStand
<1>4. ASSUME NEW r \in Runs, NEW s \in {"APPROVED", "REJECTED"}, DecideApproval(r, s)
      PROVE  Kept
  <2>1. Stands /\ approval' = [approval EXCEPT ![r] = s]
    BY <1>4 DEF DecideApproval, Stands, runVars
  <2> QED
    BY <2>1, RowsStand
<1>5. ASSUME NEW w \in Workers, RejectRun(w) \/ SkipRun(w) \/ StopStaleRun(w) \/ CloseRun(w)
      PROVE  Kept
  <2>1. at[w] \in Runs /\ UNCHANGED <<attempt, done, effect, approval>>
    BY <1>1, <1>5 DEF RejectRun, SkipRun, StopStaleRun, CloseRun, PassInv, gateVars
  <2>2. CASE status' = status
    BY <2>1, <2>2, RowsStand DEF Stands
  <2>3. CASE status' # status
    <3>1. PICK s \in Final : /\ status' = [status EXCEPT ![at[w]] = s]
                             /\ s = "REJECTED" => status[at[w]] = "WAITING_APPROVAL"
                             /\ s = "DONE" => status[at[w]] = "PENDING"
      BY <1>1, <1>5, <2>1, <2>3
         DEF RejectRun, SkipRun, StopStaleRun, CloseRun, HeldBy, TypeOK
    <3> QED
      BY <2>1, <3>1, RowEnds
  <2> QED
    BY <2>2, <2>3
<1>6. ASSUME NEW w \in Workers, NEW r \in Runs, FailOverLimit(w, r)
      PROVE  Kept
  <2>1. UNCHANGED <<attempt, done, effect, approval>> /\ status' = [status EXCEPT ![r] = "FAILED"]
    BY <1>6 DEF FailOverLimit, gateVars
  <2> QED
    BY <2>1, RowEnds
<1>7. ASSUME NEW w \in Workers, NEW r \in Runs, OpenGatedRun(w, r) \/ OpenRun(w, r)
      PROVE  Kept
  <2>1. /\ status[r] = "NONE" /\ UNCHANGED <<done, effect>>
        /\ \/ /\ status' = [status EXCEPT ![r] = "WAITING_APPROVAL"] /\ UNCHANGED attempt
              /\ approval' = [approval EXCEPT ![r] = "PENDING"]
           \/ /\ status' = [status EXCEPT ![r] = "PENDING"] /\ attempt' = [attempt EXCEPT ![r] = 1]
              /\ UNCHANGED approval
    BY <1>7 DEF OpenGatedRun, OpenRun, gateVars
  <2> QED
    BY <1>1, <2>1 DEF TypeOK, RunOrder, Grows
<1>8. ASSUME NEW w \in Workers, ClaimRun(w)
      PROVE  Kept
  <2>1. at[w] \in Runs /\ UNCHANGED <<done, effect, approval>>
    BY <1>1, <1>8 DEF ClaimRun, PassInv, gateVars
  <2>2. CASE Claimable(at[w])
    <3>1. /\ status' = [status EXCEPT ![at[w]] = "PENDING"]
          /\ attempt' = [attempt EXCEPT ![at[w]] = @ + 1]
      BY <1>8, <2>2 DEF ClaimRun
    <3> QED
      BY <1>1, <2>1, <3>1 DEF TypeOK, RunOrder, Grows
  <2>3. CASE ~Claimable(at[w])
    <3>1. UNCHANGED <<status, attempt>>
      BY <1>8, <2>3 DEF ClaimRun
    <3> QED
      BY <2>1, <3>1, RowsStand DEF Stands
  <2> QED
    BY <2>2, <2>3
<1>9. ASSUME NEW w \in Workers, NEW b \in BOOLEAN, RunAction(w, b)
      PROVE  Kept
  <2>1. /\ at[w] \in Runs /\ todo[w] \in 1..(done[at[w]] + 1)
        /\ UNCHANGED <<status, attempt, done, approval>>
        /\ effect' = [effect EXCEPT ![at[w]] = @ \cup {todo[w]}] \/ UNCHANGED effect
    BY <1>1, <1>9 DEF RunAction, PassInv, PassOrder, TypeOK, runVars, gateVars
  <2>2. ASSUME NEW q \in Runs
        PROVE  effect'[q] \subseteq 1..(done[q] + 1)
    <3>1. effect[q] \subseteq 1..(done[q] + 1)
      BY <1>1 DEF RunOrder
    <3>2. effect \in [Runs -> SUBSET (1..Steps)]
      BY <1>1 DEF TypeOK
    <3>3. effect'[q] \subseteq effect[q] \cup (IF q = at[w] THEN {todo[w]} ELSE {})
      BY <2>1, <3>2
    <3> QED
      BY <2>1, <3>1, <3>3
  <2>3. \A q \in Runs : done[q] \in Nat /\ attempt[q] \in Nat
    BY <1>1 DEF TypeOK
  <2> QED
    BY <1>1, <2>1, <2>2, <2>3 DEF RunOrder, Grows
<1>10. ASSUME NEW w \in Workers, RecordStep(w)
       PROVE  Kept
  <2>1. at[w] \in Runs /\ UNCHANGED <<status, attempt, effect, approval>>
    BY <1>1, <1>10 DEF RecordStep, PassInv, gateVars
  <2>2. UNCHANGED done \/ done' = [done EXCEPT ![at[w]] = @ + 1]
    <3>1. done' = [done EXCEPT ![at[w]] = DoneNow(w)] \/ UNCHANGED done
      BY <1>10 DEF RecordStep
    <3>2. HeldBy(w) => DoneNow(w) \in {done[at[w]], done[at[w]] + 1}
      BY <1>1, <1>10 DEF RecordStep, PassInv, DoneNow
    <3>3. ~HeldBy(w) => UNCHANGED done
      BY <1>10 DEF RecordStep
    <3> QED
      BY <1>1, <3>1, <3>2, <3>3 DEF TypeOK
  <2>3. ASSUME NEW q \in Runs
        PROVE  /\ done[q] \in Nat /\ done'[q] \in Nat /\ done[q] <= done'[q]
               /\ attempt[q] \in Nat /\ effect[q] \subseteq 1..(done'[q] + 1)
    <3>1. done[q] \in Nat /\ attempt[q] \in Nat /\ done'[q] \in {done[q], done[q] + 1}
      BY <1>1, <2>2 DEF TypeOK
    <3> QED
      BY <1>1, <3>1 DEF RunOrder
  <2> QED
    BY <1>1, <2>1, <2>3 DEF RunOrder, Grows
<1>11. CASE UNCHANGED vars
  BY <1>2, <1>11 DEF vars, Stands, runVars, gateVars
<1>12. CASE Tick
  BY <1>2, <1>12 DEF Tick, Stands
<1>13. ASSUME NEW r \in Runs, NEW v \in Verdict, ChangeRule(r, v)
       PROVE  Kept
  BY <1>2, <1>13 DEF ChangeRule, Stands, runVars, gateVars
<1>14. ASSUME NEW w \in Workers, BeginPass(w) \/ EndPass(w) \/ Crash(w)
                \/ Judge(w, "judge", "skip") \/ Judge(w, "judgeStale", "stop")
       PROVE  Kept
  BY <1>2, <1>14 DEF BeginPass, EndPass, Crash, Judge, Stands, runVars, gateVars
<1>15. ASSUME NEW w \in Workers, NEW r \in Runs,
              LookWaiting(w, r) \/ LookStale(w, r) \/ LookUnsettled(w, r)
       PROVE  Kept
  BY <1>2, <1>15 DEF LookWaiting, LookStale, LookUnsettled, Stands, runVars, gateVars
<1> QED
  BY <1>3, <1>4, <1>5, <1>6, <1>7, <1>8, <1>9, <1>10, <1>11, <1>12, <1>13, <1>14, <1>15
     DEF Next, RowStep, Recover

\* A pass that stays where it is stays in order.
LEMMA PassStays ==
  ASSUME IInv, OrderInv, NEW v \in Workers, \A q \in Runs : Grows(q), TypeOK',
         pc'[v] = pc[v], at'[v] = at[v], todo'[v] = todo[v]
  PROVE  PassOrder(v)'
<1>1. /\ TypeOK /\ PassInv(v) /\ PassOrder(v)
      /\ pc[v] \notin {"idle", "pass"} => Grows(at[v])
  BY DEF IInv, OrderInv, PassInv
<1>2. CASE pc[v] \in {"idle", "pass"}
  BY <1>2 DEF PassOrder, Executing
<1>3. CASE pc[v] \notin {"idle", "pass"}
  <2>1. /\ at[v] \in Runs /\ status[at[v]] # "NONE"
        /\ done[at[v]] \in Nat /\ done'[at[v]] \in Nat /\ todo[v] \in Nat
        /\ attempt[at[v]] \in Nat /\ attempt'[at[v]] \in Nat
    BY <1>1, <1>3 DEF TypeOK, PassInv
  <2> QED
    BY <1>1, <1>3, <2>1 DEF PassOrder, Executing, Grows
<1> QED
  BY <1>2, <1>3

\* A pass that goes on with its row, or takes up another one, is in order if the row is.
LEMMA PassMoves ==
  ASSUME NEW v \in Workers, pc'[v] \notin {"idle", "pass"} => approval'[at'[v]] # "PENDING",
         pc'[v] \in {"act", "mark", "close"} => attempt'[at'[v]] > 0,
         pc'[v] \in {"act", "mark"} => todo'[v] <= done'[at'[v]] + 1
  PROVE  PassOrder(v)'
BY DEF PassOrder, Executing

\* A pass that goes on leaves the others alone.
Others(w) ==
  \A v \in Workers \ {w} : pc'[v] = pc[v] /\ at'[v] = at[v] /\ todo'[v] = todo[v]

\* The ways to go on, as the pass itself sees them.
LEMMA WaysOn ==
  ASSUME IInv, NEW w \in Workers
  PROVE  /\ Leave(w) => Others(w) /\ pc'[w] = "idle"
         /\ NextRow(w) => Others(w) /\ pc'[w] = "pass"
         /\ \A s : Goto(w, s) => Others(w) /\ pc'[w] = s /\ at'[w] = at[w] /\ todo'[w] = todo[w]
         /\ \A r, s, h, t, b : TakeUp(w, r, s, h, t, b) =>
               Others(w) /\ pc'[w] = s /\ at'[w] = r /\ todo'[w] = t
<1>1. PassesTyped
  BY DEF IInv, TypeOK, PassesTyped
<1> QED
  BY <1>1 DEF PassesTyped, Leave, NextRow, Goto, TakeUp, Others

\* Every step keeps the passes in order.
LEMMA StepPasses ==
  ASSUME IInv, OrderInv, [Next]_vars
  PROVE  \A v \in Workers : PassOrder(v)'
<1> DEFINE Kept == \A v \in Workers : PassOrder(v)'
<1>1. /\ TypeOK
      /\ \A r \in Runs : RunInv(r) /\ RunOrder(r)
      /\ \A w \in Workers : PassInv(w) /\ PassOrder(w)
  BY DEF IInv, OrderInv
<1>2. TypeOK' /\ \A q \in Runs : Grows(q)
  BY StepInductive, StepRows DEF IInv
<1>3. ASSUME NEW w \in Workers, Others(w), PassOrder(w)'
      PROVE  Kept
  BY <1>2, <1>3, PassStays DEF Others
<1>4. CASE UNCHANGED <<pc, at, todo>>
  BY <1>2, <1>4, PassStays
<1>5. ASSUME NEW w \in Workers, BeginPass(w) \/ EndPass(w) \/ Crash(w)
      PROVE  Kept
  <2>1. Others(w) /\ pc'[w] \in {"idle", "pass"}
    BY <1>1, <1>5, WaysOn DEF BeginPass, EndPass, Crash, Others, TypeOK
  <2> QED
    BY <1>3, <2>1, PassMoves
<1>6. ASSUME NEW w \in Workers, NEW s \in {"reject", "claim", "skip", "stop", "close"},
             Goto(w, s), pc[w] \notin {"idle", "pass"}, s = "close" => Executing(w)
      PROVE  Kept
  <2>1. Others(w) /\ pc'[w] = s /\ at'[w] = at[w] /\ at[w] \in Runs
    BY <1>1, <1>6, WaysOn DEF PassInv
  <2>2. approval'[at[w]] # "PENDING"
    BY <1>1, <1>2, <1>6, <2>1 DEF PassOrder, PassInv, Grows
  <2>3. s = "close" => attempt'[at[w]] > 0
    <3>1. attempt[at[w]] \in Nat /\ attempt'[at[w]] \in Nat /\ attempt[at[w]] <= attempt'[at[w]]
      BY <1>1, <1>2, <2>1 DEF TypeOK, Grows
    <3> QED
      BY <1>1, <1>6, <3>1 DEF PassOrder
  <2>4. PassOrder(w)'
    BY <2>1, <2>2, <2>3, PassMoves
  <2> QED
    BY <1>3, <2>1, <2>4
<1>7. ASSUME NEW w \in Workers, NextRow(w)
      PROVE  Kept
  BY <1>3, <1>7, WaysOn, PassMoves
<1>8. ASSUME NEW w \in Workers, NEW r \in Runs, NEW h, NEW t, NEW b,
             NEW s \in {"reject", "judge", "expire", "settle", "judgeStale"},
             TakeUp(w, r, s, h, t, b), approval[r] # "PENDING", status[r] # "NONE"
      PROVE  Kept
  <2>1. Others(w) /\ pc'[w] = s /\ at'[w] = r
    BY <1>8, WaysOn
  <2>2. approval'[r] # "PENDING"
    BY <1>2, <1>8 DEF Grows
  <2>3. PassOrder(w)'
    BY <2>1, <2>2, PassMoves
  <2> QED
    BY <1>3, <2>1, <2>3
<1>9. ASSUME NEW w \in Workers, NEW r \in Runs, NEW b, SettleNext(w, r, b),
             approval[r] # "PENDING", status[r] # "NONE"
      PROVE  Kept
  BY <1>7, <1>8, <1>9 DEF SettleNext
<1>10. ASSUME NEW w \in Workers, NEW r \in Runs, OpenRun(w, r)
       PROVE  Kept
  <2>1. attempt'[r] = 1 /\ approval'[r] = "NONE"
    BY <1>1, <1>10 DEF OpenRun, gateVars, RunInv, TypeOK
  <2>2. Others(w) /\ pc'[w] = "act" /\ at'[w] = r /\ todo'[w] = 1
    BY <1>1, <1>10 DEF OpenRun, TakeUp, Others, TypeOK
  <2>3. 1 <= done'[r] + 1
    BY <1>2 DEF TypeOK
  <2>4. PassOrder(w)'
    BY <2>1, <2>2, <2>3, PassMoves
  <2> QED
    BY <1>3, <2>2, <2>4
<1>11. ASSUME NEW w \in Workers, NEW r \in Runs,
              LookWaiting(w, r) \/ LookStale(w, r) \/ LookUnsettled(w, r)
       PROVE  Kept
  <2>1. \E s \in {"reject", "judge", "expire", "settle", "judgeStale"} : \E h, t, b :
          TakeUp(w, r, s, h, t, b)
    <3>1. CASE LookWaiting(w, r)
      BY <3>1 DEF LookWaiting
    <3>2. CASE LookStale(w, r) \/ LookUnsettled(w, r)
      BY <3>2 DEF LookStale, LookUnsettled
    <3> QED
      BY <1>11, <3>1, <3>2
  <2>2. approval[r] # "PENDING" /\ status[r] # "NONE"
    BY <1>1, <1>11 DEF LookWaiting, LookStale, LookUnsettled, LeaseExpired, Settling, RunInv
  <2> QED
    BY <1>8, <2>1, <2>2
<1>12. ASSUME NEW w \in Workers, NEW r \in Runs, FailOverLimit(w, r)
       PROVE  Kept
  <2>1. SettleNext(w, r, FALSE) /\ approval[r] # "PENDING" /\ status[r] # "NONE"
    BY <1>1, <1>12 DEF FailOverLimit, LeaseExpired, RunInv
  <2> QED
    BY <1>9, <2>1
<1>13. ASSUME NEW w \in Workers, ExpireMachineApproval(w)
                \/ Judge(w, "judge", "skip") \/ Judge(w, "judgeStale", "stop")
       PROVE  Kept
  <2>1. /\ pc[w] \notin {"idle", "pass"}
        /\ NextRow(w) \/ \E s \in {"reject", "claim", "skip", "stop"} : Goto(w, s)
    <3>1. CASE ExpireMachineApproval(w)
      BY <3>1 DEF ExpireMachineApproval
    <3>2. ASSUME NEW from \in {"judge", "judgeStale"}, NEW to \in {"skip", "stop"}, Judge(w, from, to)
          PROVE  /\ pc[w] \notin {"idle", "pass"}
                 /\ NextRow(w) \/ \E s \in {"reject", "claim", "skip", "stop"} : Goto(w, s)
      <4>1. at[w] \in Runs
        BY <1>1, <3>2 DEF Judge, PassInv
      <4> QED
        BY <1>1, <3>2, <4>1 DEF Judge, TypeOK
    <3> QED
      BY <1>13, <3>1, <3>2
  <2> QED
    BY <1>6, <1>7, <2>1
<1>14. ASSUME NEW w \in Workers,
              RejectRun(w) \/ SkipRun(w) \/ StopStaleRun(w) \/ CloseRun(w) \/ SettleMachineApproval(w)
       PROVE  Kept
  <2>1. at[w] \in Runs /\ approval[at[w]] # "PENDING" /\ status[at[w]] # "NONE"
    BY <1>1, <1>14
       DEF RejectRun, SkipRun, StopStaleRun, CloseRun, SettleMachineApproval, PassInv, PassOrder
  <2>2. NextRow(w) \/ \E b : SettleNext(w, at[w], b)
    BY <1>14 DEF RejectRun, SkipRun, StopStaleRun, CloseRun, SettleMachineApproval
  <2> QED
    BY <1>7, <1>9, <2>1, <2>2
<1>15. ASSUME NEW w \in Workers, ClaimRun(w)
       PROVE  Kept
  <2>1. CASE Claimable(at[w])
    <3>1. /\ TakeUp(w, at[w], ActOrClose(done[at[w]] + 1), attempt[at[w]] + 1, done[at[w]] + 1, TRUE)
          /\ attempt' = [attempt EXCEPT ![at[w]] = @ + 1]
          /\ UNCHANGED <<done, approval>>
      BY <1>15, <2>1 DEF ClaimRun, gateVars
    <3>2. at[w] \in Runs /\ approval[at[w]] # "PENDING"
      BY <1>1, <1>15 DEF ClaimRun, PassInv, PassOrder
    <3>3. attempt'[at[w]] > 0
      BY <1>1, <3>1, <3>2 DEF TypeOK
    <3>4. /\ Others(w) /\ pc'[w] \in {"act", "close"} /\ at'[w] = at[w]
          /\ todo'[w] = done[at[w]] + 1
      BY <1>1, <3>1 DEF TakeUp, Others, TypeOK, ActOrClose
    <3>5. todo'[w] <= done'[at'[w]] + 1
      BY <1>1, <3>1, <3>2, <3>4 DEF TypeOK
    <3>6. PassOrder(w)'
      BY <3>1, <3>2, <3>3, <3>4, <3>5, PassMoves
    <3> QED
      BY <1>3, <3>4, <3>6
  <2>2. CASE ~Claimable(at[w])
    BY <1>7, <1>15, <2>2 DEF ClaimRun
  <2> QED
    BY <2>1, <2>2
<1>16. ASSUME NEW w \in Workers, NEW b \in BOOLEAN, RunAction(w, b)
       PROVE  Kept
  <2>1. /\ Others(w) /\ pc[w] = "act" /\ pc'[w] = "mark" /\ at'[w] = at[w] /\ todo'[w] = todo[w]
        /\ UNCHANGED <<attempt, done, approval>>
    BY <1>1, <1>16 DEF RunAction, Others, TypeOK, runVars, gateVars
  <2>2. PassOrder(w)'
    BY <1>1, <2>1 DEF PassOrder, Executing
  <2> QED
    BY <1>3, <2>1, <2>2
<1>17. ASSUME NEW w \in Workers, RecordStep(w)
       PROVE  Kept
  <2>1. /\ pc[w] = "mark" /\ at[w] \in Runs /\ attempt[at[w]] > 0 /\ approval[at[w]] # "PENDING"
        /\ UNCHANGED <<attempt, approval>>
    BY <1>1, <1>17 DEF RecordStep, PassInv, PassOrder, Executing, gateVars
  <2>2. CASE HeldBy(w) /\ ok[w]
    <3>1. /\ TakeUp(w, at[w], ActOrClose(todo[w] + 1), held[w], todo[w] + 1, TRUE)
          /\ done' = [done EXCEPT ![at[w]] = todo[w]]
      BY <1>17, <2>2 DEF RecordStep, DoneNow
    <3>2. /\ Others(w) /\ pc'[w] \in {"act", "close"} /\ at'[w] = at[w]
          /\ todo'[w] = todo[w] + 1
      BY <1>1, <3>1 DEF TakeUp, Others, TypeOK, ActOrClose
    <3>3. todo'[w] <= done'[at'[w]] + 1
      BY <1>1, <2>1, <3>1, <3>2 DEF TypeOK
    <3>4. PassOrder(w)'
      BY <2>1, <3>2, <3>3, PassMoves
    <3> QED
      BY <1>3, <3>2, <3>4
  <2>3. CASE HeldBy(w) /\ ~ok[w]
    BY <1>6, <1>17, <2>1, <2>3 DEF RecordStep, Executing
  <2>4. CASE ~HeldBy(w)
    BY <1>7, <1>17, <2>4 DEF RecordStep
  <2> QED
    BY <2>2, <2>3, <2>4
<1>18. CASE UNCHANGED vars \/ Tick
  BY <1>4, <1>18 DEF vars, workerVars, Tick
<1>19. ASSUME NEW r \in Runs, (\E w \in Workers : OpenGatedRun(w, r))
                \/ (\E s \in {"APPROVED", "REJECTED"} : DecideApproval(r, s))
                \/ (\E v \in Verdict : ChangeRule(r, v))
       PROVE  Kept
  BY <1>4, <1>19 DEF OpenGatedRun, DecideApproval, ChangeRule, workerVars
<1> QED
  BY <1>5, <1>10, <1>11, <1>12, <1>13, <1>14, <1>15, <1>16, <1>17, <1>18, <1>19
     DEF Next, RowStep, Recover

\* The rows and the passes stay in order.
LEMMA OrderStep == IInv /\ OrderInv /\ [Next]_vars => OrderInv'
  BY StepRows, StepPasses DEF OrderInv

\* An empty table is a set of jobs that nobody has proposed.
LEMMA JobInit == Init => Job!Init
<1> SUFFICES ASSUME Init
             PROVE  Job!Init
  OBVIOUS
<1>1. jobState = [r \in Runs |-> "absent"] /\ consent = [r \in Runs |-> "none"]
  BY DEF Init, jobState, JobState, consent, Consent
<1> QED
  BY <1>1 DEF Init, Job!Init

\* The states of a job, and what is consented to.
LEMMA JobValues ==
  /\ \A n \in Nat : /\ JobState("NONE", n) = "absent"
                   /\ JobState("WAITING_APPROVAL", n) = "waiting"
                   /\ JobState("PENDING", n) = "open"
                   /\ JobState("DONE", n) = "done"
  /\ \A s \in {"FAILED", "SKIPPED", "REJECTED"} :
       JobState(s, 0) = "void" /\ \A n \in Nat \ {0} : JobState(s, n) = "broken"
  /\ Consent("NONE") = "none" /\ Consent("PENDING") = "asked" /\ Consent("REJECTED") = "refused"
  /\ Consent("EXECUTED") = "used" /\ Consent("APPROVED") = "given" /\ Consent("EXPIRED") = "given"
BY DEF JobState, Consent

\* Rows that are not written to are jobs that stay where they are.
LEMMA JobStays ==
  /\ UNCHANGED <<status, attempt>> => UNCHANGED jobState
  /\ UNCHANGED approval => UNCHANGED consent
BY DEF jobState, consent

\* A row that is written to is a job that moves.
LEMMA JobBecomes ==
  ASSUME NEW r \in Runs, NEW s, NEW n, TypeOK,
         status' = [status EXCEPT ![r] = s], attempt' = [attempt EXCEPT ![r] = n]
  PROVE  jobState' = [jobState EXCEPT ![r] = JobState(s, n)]
<1>1. \A q \in Runs : status'[q] = IF q = r THEN s ELSE status[q]
  BY DEF TypeOK
<1>2. \A q \in Runs : attempt'[q] = IF q = r THEN n ELSE attempt[q]
  BY DEF TypeOK
<1>3. ASSUME NEW q \in Runs
      PROVE  JobState(status'[q], attempt'[q])
               = IF q = r THEN JobState(s, n) ELSE JobState(status[q], attempt[q])
  BY <1>1, <1>2
<1> QED
  BY <1>3 DEF jobState

\* A request that is written to is a consent that changes.
LEMMA ConsentBecomes ==
  ASSUME NEW r \in Runs, NEW a, TypeOK, approval' = [approval EXCEPT ![r] = a]
  PROVE  consent' = [consent EXCEPT ![r] = Consent(a)]
<1>1. \A q \in Runs : approval'[q] = IF q = r THEN a ELSE approval[q]
  BY DEF TypeOK
<1>2. ASSUME NEW q \in Runs
      PROVE  Consent(approval'[q]) = IF q = r THEN Consent(a) ELSE Consent(approval[q])
  BY <1>1
<1> QED
  BY <1>2 DEF consent

\* What the job of a row is.
LEMMA JobNow ==
  ASSUME NEW r \in Runs
  PROVE  jobState[r] = JobState(status[r], attempt[r]) /\ consent[r] = Consent(approval[r])
BY DEF jobState, consent

\* An end of a row is an end of its job.
LEMMA JobEnds ==
  ASSUME NEW r \in Runs, NEW s \in Final, IInv, OrderInv,
         status' = [status EXCEPT ![r] = s], UNCHANGED <<attempt, done, effect, approval>>,
         s = "REJECTED" => status[r] = "WAITING_APPROVAL",
         s = "DONE" => status[r] = "PENDING" /\ done[r] = Steps,
         status[r] = "PENDING" \/ (status[r] = "WAITING_APPROVAL" /\ approval[r] # "PENDING")
  PROVE  Job!Next
<1>1. TypeOK /\ RunInv(r) /\ RunOrder(r) /\ attempt[r] \in Nat
  BY DEF IInv, OrderInv, TypeOK
<1>2. UNCHANGED consent
  BY JobStays
<1>3. attempt' = [attempt EXCEPT ![r] = attempt[r]]
  BY <1>1 DEF TypeOK
<1>4. jobState' = [jobState EXCEPT ![r] = JobState(s, attempt[r])]
  BY <1>1, <1>3, JobBecomes
<1>5. CASE status[r] = "PENDING"
  <2>1. jobState[r] = "open" /\ attempt[r] \in Nat \ {0}
    BY <1>1, <1>5, JobNow, JobValues DEF RunOrder
  <2>2. CASE s = "DONE"
    <3>1. JobState(s, attempt[r]) = "done"
      BY <1>1, <2>2, JobValues
    <3> QED
      BY <1>2, <1>4, <2>1, <2>2, <3>1 DEF Job!Next, Job!Finish, Job!Becomes
  <2>3. CASE s # "DONE"
    <3>1. JobState(s, attempt[r]) = "broken"
      BY <2>1, <2>3, JobValues
    <3> QED
      BY <1>2, <1>4, <2>1, <3>1 DEF Job!Next, Job!Break, Job!Becomes
  <2> QED
    BY <2>2, <2>3
<1>6. CASE status[r] = "WAITING_APPROVAL"
  <2>1. jobState[r] = "waiting" /\ attempt[r] = 0 /\ s \in {"FAILED", "SKIPPED", "REJECTED"}
    BY <1>1, <1>6, JobNow, JobValues DEF RunOrder
  <2>2. JobState(s, attempt[r]) = "void"
    BY <2>1, JobValues
  <2>3. approval[r] \in {"APPROVED", "REJECTED", "EXPIRED"}
    BY <1>1, <1>6 DEF RunInv, RunOrder, TypeOK
  <2>4. consent[r] \in {"given", "refused"}
    BY <2>3, JobNow, JobValues
  <2> QED
    BY <1>2, <1>4, <2>1, <2>2, <2>4 DEF Job!Next, Job!TurnDown, Job!Becomes
<1> QED
  BY <1>5, <1>6

\* Each action of the ledger is one of a job, or none.
LEMMA JobStep ==
  ASSUME IInv, OrderInv, [Next]_vars
  PROVE  [Job!Next]_(Job!vars)
<1>1. /\ TypeOK
      /\ \A r \in Runs : RunInv(r) /\ RunOrder(r)
      /\ \A w \in Workers : PassInv(w) /\ PassOrder(w)
  BY DEF IInv, OrderInv
<1>0. TypeOK
  BY <1>1
<1>2. CASE Stands /\ UNCHANGED approval
  BY <1>2, JobStays DEF Stands, Job!vars
<1>3. ASSUME NEW w \in Workers, ExpireMachineApproval(w)
      PROVE  [Job!Next]_(Job!vars)
  <2>1. Stands /\ at[w] \in Runs
    BY <1>1, <1>3 DEF ExpireMachineApproval, Stands, runVars, PassInv
  <2>2. CASE approval[at[w]] = "APPROVED"
    <3>1. approval' = [approval EXCEPT ![at[w]] = "EXPIRED"]
      BY <1>3, <2>2 DEF ExpireMachineApproval
    <3>2. consent' = [consent EXCEPT ![at[w]] = Consent("EXPIRED")]
      BY <1>0, <2>1, <3>1, ConsentBecomes
    <3>3. UNCHANGED consent
      <4>1. consent[at[w]] = Consent("EXPIRED")
        BY <2>1, <2>2, JobNow, JobValues
      <4> QED
        BY <3>2, <4>1 DEF consent
    <3> QED
      BY <2>1, <3>3, JobStays DEF Stands, Job!vars
  <2>3. CASE approval[at[w]] # "APPROVED"
    <3>1. UNCHANGED approval
      BY <1>1, <1>3, <2>3 DEF ExpireMachineApproval, TypeOK
    <3> QED
      BY <1>2, <2>1, <3>1
  <2> QED
    BY <2>2, <2>3
<1>4. ASSUME NEW w \in Workers, SettleMachineApproval(w)
      PROVE  [Job!Next]_(Job!vars)
  <2>1. Stands /\ at[w] \in Runs /\ pc[w] = "settle"
    BY <1>1, <1>4 DEF SettleMachineApproval, Stands, runVars, PassInv
  <2>2. CASE approval[at[w]] = "APPROVED" /\ ok[w]
    <3>1. approval' = [approval EXCEPT ![at[w]] = "EXECUTED"]
      BY <1>4, <2>2 DEF SettleMachineApproval
    <3>2. consent' = [consent EXCEPT ![at[w]] = "used"]
      <4>1. consent' = [consent EXCEPT ![at[w]] = Consent("EXECUTED")]
        BY <1>0, <2>1, <3>1, ConsentBecomes
      <4> QED
        BY <4>1, JobValues
    <3>3. status[at[w]] = "DONE" /\ attempt[at[w]] \in Nat
      BY <1>1, <2>1, <2>2 DEF PassInv, TypeOK
    <3>4. jobState[at[w]] = "done" /\ consent[at[w]] = "given"
      BY <2>1, <2>2, <3>3, JobNow, JobValues
    <3> QED
      BY <2>1, <3>2, <3>4, JobStays DEF Stands, Job!Next, Job!Use
  <2>3. CASE ~(approval[at[w]] = "APPROVED" /\ ok[w])
    <3>1. UNCHANGED approval
      BY <1>1, <1>4, <2>3 DEF SettleMachineApproval, TypeOK
    <3> QED
      BY <1>2, <2>1, <3>1
  <2> QED
    BY <2>2, <2>3
<1>5. ASSUME NEW r \in Runs, NEW s \in {"APPROVED", "REJECTED"}, DecideApproval(r, s)
      PROVE  Job!Next
  <2>1. Stands /\ approval' = [approval EXCEPT ![r] = s] /\ approval[r] = "PENDING"
    BY <1>5 DEF DecideApproval, Stands, runVars
  <2>2. consent' = [consent EXCEPT ![r] = Consent(s)]
    BY <1>0, <2>1, ConsentBecomes
  <2>3. Consent(s) \in {"given", "refused"} /\ consent[r] = "asked"
    BY <2>1, JobNow, JobValues
  <2> QED
    BY <2>1, <2>2, <2>3, JobStays DEF Stands, Job!Next, Job!Decide
<1>6. ASSUME NEW w \in Workers, RejectRun(w) \/ SkipRun(w) \/ StopStaleRun(w) \/ CloseRun(w)
      PROVE  [Job!Next]_(Job!vars)
  <2>1. at[w] \in Runs /\ UNCHANGED <<attempt, done, effect, approval>>
    BY <1>1, <1>6 DEF RejectRun, SkipRun, StopStaleRun, CloseRun, PassInv, gateVars
  <2>2. CASE status' = status
    BY <1>2, <2>1, <2>2 DEF Stands
  <2>3. CASE status' # status
    <3>1. approval[at[w]] # "PENDING"
      BY <1>1, <1>6 DEF RejectRun, SkipRun, StopStaleRun, CloseRun, PassOrder
    <3>2. PICK s \in Final : /\ status' = [status EXCEPT ![at[w]] = s]
                             /\ s = "REJECTED" => status[at[w]] = "WAITING_APPROVAL"
                             /\ s = "DONE" => status[at[w]] = "PENDING" /\ done[at[w]] = Steps
                             /\ status[at[w]] \in {"PENDING", "WAITING_APPROVAL"}
      <4>1. CASE RejectRun(w) \/ SkipRun(w)
        BY <1>1, <2>1, <2>3, <4>1 DEF RejectRun, SkipRun, TypeOK
      <4>2. CASE StopStaleRun(w)
        BY <2>1, <2>3, <4>2 DEF StopStaleRun, Unclaimed, LeaseExpired
      <4>3. CASE CloseRun(w)
        BY <1>1, <2>1, <2>3, <4>3 DEF CloseRun, HeldBy, PassInv
      <4> QED
        BY <1>6, <4>1, <4>2, <4>3
    <3> QED
      BY <2>1, <3>1, <3>2, JobEnds
  <2> QED
    BY <2>2, <2>3
<1>7. ASSUME NEW w \in Workers, NEW r \in Runs, FailOverLimit(w, r)
      PROVE  [Job!Next]_(Job!vars)
  <2>1. /\ status[r] = "PENDING" /\ status' = [status EXCEPT ![r] = "FAILED"]
        /\ UNCHANGED <<attempt, done, effect, approval>>
    BY <1>7 DEF FailOverLimit, LeaseExpired, gateVars
  <2>2. PICK s \in Final : /\ status' = [status EXCEPT ![r] = s]
                           /\ s = "REJECTED" => status[r] = "WAITING_APPROVAL"
                           /\ s = "DONE" => status[r] = "PENDING" /\ done[r] = Steps
    <3>1. "FAILED" \in Final
      OBVIOUS
    <3> QED
      BY <2>1, <3>1
  <2>3. approval[r] # "PENDING"
    BY <1>1, <2>1 DEF RunInv
  <2> QED
    BY <2>1, <2>2, <2>3, JobEnds
<1>8. ASSUME NEW w \in Workers, NEW r \in Runs, OpenGatedRun(w, r)
      PROVE  Job!Next
  <2>1. /\ status[r] = "NONE" /\ status' = [status EXCEPT ![r] = "WAITING_APPROVAL"]
        /\ approval' = [approval EXCEPT ![r] = "PENDING"]
        /\ UNCHANGED <<done, effect>>
    BY <1>8 DEF OpenGatedRun
  <2>2. attempt' = [attempt EXCEPT ![r] = attempt[r]] /\ attempt[r] \in Nat
    BY <1>0, <1>8 DEF OpenGatedRun, TypeOK
  <2>3. jobState' = [jobState EXCEPT ![r] = JobState("WAITING_APPROVAL", attempt[r])]
    BY <1>0, <2>1, <2>2, JobBecomes
  <2>4. consent' = [consent EXCEPT ![r] = Consent("PENDING")]
    BY <1>0, <2>1, ConsentBecomes
  <2>5. /\ jobState[r] = "absent" /\ JobState("WAITING_APPROVAL", attempt[r]) = "waiting"
        /\ Consent("PENDING") = "asked"
    BY <2>1, <2>2, JobNow, JobValues
  <2>6. UNCHANGED attempt
    BY <1>8 DEF OpenGatedRun
  <2> QED
    BY <2>1, <2>3, <2>4, <2>5, <2>6 DEF Job!Next, Job!Propose, Job!Becomes
<1>9. ASSUME NEW w \in Workers, NEW r \in Runs, OpenRun(w, r)
      PROVE  Job!Next
  <2>1. /\ status[r] = "NONE" /\ status' = [status EXCEPT ![r] = "PENDING"]
        /\ attempt' = [attempt EXCEPT ![r] = 1] /\ attempt[r] = 0
        /\ UNCHANGED <<done, effect, approval>>
    BY <1>1, <1>9 DEF OpenRun, RunOrder, gateVars
  <2>2. jobState' = [jobState EXCEPT ![r] = JobState("PENDING", 1)]
    BY <1>0, <2>1, JobBecomes
  <2>3. jobState[r] = "absent" /\ JobState("PENDING", 1) = "open"
    BY <2>1, JobNow, JobValues
  <2>4. attempt' = [attempt EXCEPT ![r] = @ + 1] /\ UNCHANGED consent
    BY <2>1, JobStays
  <2> QED
    BY <2>1, <2>2, <2>3, <2>4 DEF Job!Next, Job!Start, Job!Becomes, Job!Claimed
<1>10. ASSUME NEW w \in Workers, ClaimRun(w)
       PROVE  [Job!Next]_(Job!vars)
  <2>1. at[w] \in Runs /\ UNCHANGED <<done, effect, approval>>
    BY <1>1, <1>10 DEF ClaimRun, PassInv, gateVars
  <2>2. CASE Claimable(at[w])
    <3>1. /\ status[at[w]] \in {"WAITING_APPROVAL", "PENDING"}
          /\ status' = [status EXCEPT ![at[w]] = "PENDING"]
          /\ attempt' = [attempt EXCEPT ![at[w]] = @ + 1]
      BY <1>10, <2>2 DEF ClaimRun, Claimable, LeaseExpired
    <3>2. attempt[at[w]] \in Nat /\ attempt[at[w]] + 1 \in Nat
      BY <1>1, <2>1 DEF TypeOK
    <3>3. jobState' = [jobState EXCEPT ![at[w]] = JobState("PENDING", attempt[at[w]] + 1)]
      BY <1>0, <2>1, <3>1, JobBecomes
    <3>4. jobState' = [jobState EXCEPT ![at[w]] = "open"]
      BY <3>2, <3>3, JobValues
    <3>5. CASE status[at[w]] = "PENDING"
      <4>1. jobState[at[w]] = "open"
        BY <2>1, <3>2, <3>5, JobNow, JobValues
      <4> QED
        BY <2>1, <3>1, <3>4, <4>1, JobStays DEF Job!Next, Job!Claim, Job!Becomes, Job!Claimed
    <3>6. CASE status[at[w]] = "WAITING_APPROVAL"
      <4>1. approval[at[w]] \in {"APPROVED", "EXPIRED"}
        BY <1>1, <1>10, <2>1, <3>6 DEF ClaimRun, PassInv, RunInv, RunOrder, TypeOK
      <4>2. jobState[at[w]] = "waiting" /\ consent[at[w]] = "given"
        BY <2>1, <3>2, <3>6, <4>1, JobNow, JobValues
      <4> QED
        BY <2>1, <3>1, <3>4, <4>2, JobStays DEF Job!Next, Job!Claim, Job!Becomes, Job!Claimed
    <3> QED
      BY <3>1, <3>5, <3>6
  <2>3. CASE ~Claimable(at[w])
    BY <1>2, <1>10, <2>1, <2>3 DEF ClaimRun, Stands
  <2> QED
    BY <2>2, <2>3
<1>11. ASSUME NEW w \in Workers, NEW b \in BOOLEAN, RunAction(w, b)
       PROVE  [Job!Next]_(Job!vars)
  <2>1. /\ at[w] \in Runs /\ todo[w] \in 1..Steps /\ todo[w] <= done[at[w]] + 1
        /\ attempt[at[w]] \in Nat \ {0} /\ status[at[w]] \in RunStatus
        /\ UNCHANGED <<status, attempt, done, approval>>
    BY <1>1, <1>11 DEF RunAction, PassInv, PassOrder, Executing, TypeOK, runVars, gateVars
  <2>2. CASE effect' = [effect EXCEPT ![at[w]] = @ \cup {todo[w]}]
    <3>1. status[at[w]] \in {"PENDING", "DONE", "FAILED", "SKIPPED"}
      BY <1>1, <2>1 DEF RunOrder
    <3>2. jobState[at[w]] \in {"open", "done", "broken"}
      BY <2>1, <3>1, JobNow, JobValues
    <3> QED
      BY <2>1, <2>2, <3>2, JobStays DEF Job!Next, Job!CarryOut
  <2>3. CASE UNCHANGED effect
    BY <1>2, <2>1, <2>3 DEF Stands
  <2> QED
    BY <1>11, <2>2, <2>3 DEF RunAction
<1>12. ASSUME NEW w \in Workers, RecordStep(w)
       PROVE  [Job!Next]_(Job!vars)
  <2>1. at[w] \in Runs /\ UNCHANGED <<status, attempt, effect, approval>>
    BY <1>1, <1>12 DEF RecordStep, PassInv, gateVars
  <2>2. CASE HeldBy(w) /\ ok[w]
    <3>1. /\ done' = [done EXCEPT ![at[w]] = @ + 1]
          /\ status[at[w]] = "PENDING" /\ done[at[w]] + 1 \in effect[at[w]]
      BY <1>1, <1>12, <2>2 DEF RecordStep, DoneNow, HeldBy, PassInv
    <3>2. jobState[at[w]] = "open"
      BY <1>1, <2>1, <3>1, JobNow, JobValues DEF TypeOK
    <3> QED
      BY <2>1, <3>1, <3>2, JobStays DEF Job!Next, Job!Record
  <2>3. CASE ~(HeldBy(w) /\ ok[w])
    <3>1. UNCHANGED done
      BY <1>1, <1>12, <2>3 DEF RecordStep, DoneNow, TypeOK
    <3> QED
      BY <1>2, <2>1, <3>1 DEF Stands
  <2> QED
    BY <2>2, <2>3
<1>13. CASE UNCHANGED vars \/ Tick
  BY <1>2, <1>13 DEF vars, Tick, Stands, runVars, gateVars
<1>14. ASSUME NEW r \in Runs, NEW v \in Verdict, ChangeRule(r, v)
       PROVE  [Job!Next]_(Job!vars)
  BY <1>2, <1>14 DEF ChangeRule, Stands, runVars, gateVars
<1>15. ASSUME NEW w \in Workers, BeginPass(w) \/ EndPass(w) \/ Crash(w)
                \/ Judge(w, "judge", "skip") \/ Judge(w, "judgeStale", "stop")
       PROVE  [Job!Next]_(Job!vars)
  BY <1>2, <1>15 DEF BeginPass, EndPass, Crash, Judge, Stands, runVars, gateVars
<1>16. ASSUME NEW w \in Workers, NEW r \in Runs,
              LookWaiting(w, r) \/ LookStale(w, r) \/ LookUnsettled(w, r)
       PROVE  [Job!Next]_(Job!vars)
  BY <1>2, <1>16 DEF LookWaiting, LookStale, LookUnsettled, Stands, runVars, gateVars
<1> QED
  BY <1>3, <1>4, <1>5, <1>6, <1>7, <1>8, <1>9, <1>10, <1>11, <1>12, <1>13, <1>14, <1>15, <1>16
     DEF Next, RowStep, Recover

(* Whoever holds a run, has lost it or repairs it, the ledger is one of jobs  *)
(* that are consented to before they begin, carried out in order and ended    *)
(* once (engine.ts:20-48).                                                   *)
THEOREM RunsAreJobs == Spec => ImplementsJob
<1>1. Spec => Job!Spec
  BY OrderInit, OrderStep, JobInit, JobStep, InitInductive, StepInductive, PTL DEF Spec, Job!Spec
<1> QED
  BY <1>1 DEF ImplementsJob

==============================================================================
