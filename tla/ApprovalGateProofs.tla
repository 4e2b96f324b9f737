-------------------------- MODULE ApprovalGateProofs --------------------------
(***************************************************************************)
(* What ApprovalGate guarantees for any number of requests, calls, users   *)
(* and works, and for any lengths of the three time limits that satisfy    *)
(* TimeAssumption.                                                         *)
(*                                                                         *)
(* The argument: a consumed approval that is not settled belongs to one    *)
(* call (Holding), which entered the gate at executed_at and so is over    *)
(* before the sweep may touch the row; a row handed back by a release      *)
(* carries no work, one handed back by the sweep carries the warning.      *)
(***************************************************************************)
EXTENDS ApprovalGate, TLAPS

USE DEF Time, NoTime, Status, Settlement, Step

\* The empty table and idle calls satisfy the inductive invariant.
LEMMA InitInductive == Init => IInv
  BY UsersAssumption, TimeAssumption
     DEF Init, IInv, TypeOK, RowInv, CallInv, Agreed, Holding, ExclusiveRun, Runs

\* No statement of a call, no decision, no sweep and no tick breaks it.
LEMMA StepInductive == IInv /\ [Next]_vars => IInv'
<1> SUFFICES ASSUME IInv, [Next]_vars
             PROVE  IInv'
  OBVIOUS
<1> USE UsersAssumption, TimeAssumption DEF IInv
<1>1. ASSUME NEW b \in BOOLEAN, SetEnforceGroup(b)
      PROVE  IInv'
  <2> USE <1>1 DEF SetEnforceGroup, rowVars, callVars
  <2>1. TypeOK'
    BY DEF TypeOK, CallInv
  <2>2. \A q \in Requests : RowInv(q)'
    BY DEF TypeOK, RowInv, CallInv, Agreed, Holding, Path
  <2>3. \A d \in Calls : CallInv(d)'
    BY DEF TypeOK, RowInv, CallInv, Holding, Agreed, ExclusiveRun, Runs, Path
  <2>4. ExclusiveRun'
    BY DEF TypeOK, RowInv, CallInv, Holding, ExclusiveRun, Runs
  <2> QED
    BY <2>1, <2>2, <2>3, <2>4
<1>2. ASSUME NEW c \in Calls, NEW k \in Keys, GuardSkip(c, k)
      PROVE  IInv'
  <2> USE <1>2 DEF GuardSkip, rowVars, callVars
  <2>1. TypeOK'
    BY DEF TypeOK, CallInv
  <2>2. \A q \in Requests : RowInv(q)'
    BY DEF TypeOK, RowInv, CallInv, Agreed, Holding, Path
  <2>3. \A d \in Calls : CallInv(d)'
    BY DEF TypeOK, RowInv, CallInv, Holding, Agreed, ExclusiveRun, Runs, Path
  <2>4. ExclusiveRun'
    BY DEF TypeOK, RowInv, CallInv, Holding, ExclusiveRun, Runs
  <2> QED
    BY <2>1, <2>2, <2>3, <2>4
<1>3. ASSUME NEW c \in Calls, NEW k \in Keys, GuardEnter(c, k)
      PROVE  IInv'
  <2> USE <1>3 DEF GuardEnter, rowVars, callVars
  <2>1. TypeOK'
    BY DEF TypeOK, CallInv
  <2>2. \A q \in Requests : RowInv(q)'
    BY DEF TypeOK, RowInv, CallInv, Agreed, Holding, Path
  <2>3. \A d \in Calls : CallInv(d)'
    BY DEF TypeOK, RowInv, CallInv, Holding, Agreed, ExclusiveRun, Runs, Path
  <2>4. ExclusiveRun'
    BY DEF TypeOK, RowInv, CallInv, Holding, ExclusiveRun, Runs
  <2> QED
    BY <2>1, <2>2, <2>3, <2>4
<1>4. ASSUME NEW c \in Calls, ExpireStaleApprovals(c)
      PROVE  IInv'
  <2> USE <1>4 DEF ExpireStaleApprovals, Lapse, Stale, Goto, rowVars, callVars
  <2>1. TypeOK'
    BY DEF TypeOK, CallInv
  <2>2. \A q \in Requests : RowInv(q)'
    BY DEF TypeOK, RowInv, CallInv, Agreed, Holding, Path
  <2>3. \A d \in Calls : CallInv(d)'
    BY DEF TypeOK, RowInv, CallInv, Holding, Agreed, ExclusiveRun, Runs, Path
  <2>4. ExclusiveRun'
    BY DEF TypeOK, RowInv, CallInv, Holding, ExclusiveRun, Runs
  <2> QED
    BY <2>1, <2>2, <2>3, <2>4
<1>5. ASSUME NEW c \in Calls, SelectCandidates(c)
      PROVE  IInv'
  <2> USE <1>5 DEF SelectCandidates, Usable, rowVars, callVars
  <2>1. TypeOK'
    BY DEF TypeOK, CallInv
  <2>2. \A q \in Requests : RowInv(q)'
    BY DEF TypeOK, RowInv, CallInv, Agreed, Holding, Path
  <2>3. \A d \in Calls : CallInv(d)'
    BY DEF TypeOK, RowInv, CallInv, Holding, Agreed, ExclusiveRun, Runs, Path
  <2>4. ExclusiveRun'
    BY DEF TypeOK, RowInv, CallInv, Holding, ExclusiveRun, Runs
  <2> QED
    BY <2>1, <2>2, <2>3, <2>4
<1>6. ASSUME NEW c \in Calls, AuditReservation(c)
      PROVE  IInv'
  <2> USE <1>6 DEF AuditReservation, Goto, rowVars, callVars
  <2>1. TypeOK'
    BY DEF TypeOK, CallInv
  <2>2. \A q \in Requests : RowInv(q)'
    BY DEF TypeOK, RowInv, CallInv, Agreed, Holding, Path
  <2>3. \A d \in Calls : CallInv(d)'
    BY DEF TypeOK, RowInv, CallInv, Holding, Agreed, ExclusiveRun, Runs, Path
  <2>4. ExclusiveRun'
    BY DEF TypeOK, RowInv, CallInv, Holding, ExclusiveRun, Runs
  <2> QED
    BY <2>1, <2>2, <2>3, <2>4
<1>7. ASSUME NEW c \in Calls, AlreadyAsked(c)
      PROVE  IInv'
  <2> USE <1>7 DEF AlreadyAsked, Lapse, StaleInTx, Stale, Finish, rowVars, callVars
  <2>1. TypeOK'
    BY DEF TypeOK, CallInv
  <2>2. \A q \in Requests : RowInv(q)'
    BY DEF TypeOK, RowInv, CallInv, Agreed, Holding, Path
  <2>3. \A d \in Calls : CallInv(d)'
    BY DEF TypeOK, RowInv, CallInv, Holding, Agreed, ExclusiveRun, Runs, Path
  <2>4. ExclusiveRun'
    BY DEF TypeOK, RowInv, CallInv, Holding, ExclusiveRun, Runs
  <2> QED
    BY <2>1, <2>2, <2>3, <2>4
<1>8. ASSUME NEW c \in Calls, BodyWrites(c)
      PROVE  IInv'
  <2> USE <1>8 DEF BodyWrites, EndBody, Written, Goto, Finish, rowVars, callVars
  <2>1. TypeOK'
    <3>1. CASE Path(c) = "DEFERRED" /\ rid[c] # NoReq
      <4>1. rid[c] \in Requests
        BY <3>1 DEF TypeOK
      <4>2. trace' \in [Requests -> {"clean", "written", "doubtful"}]
        BY <4>1 DEF TypeOK
      <4>3. pc' \in [Calls -> Step]
        BY <3>1 DEF TypeOK
      <4>4. UNCHANGED <<intent, start, cand, rid, warned>>
        BY <3>1
      <4> QED
        BY <4>2, <4>3, <4>4 DEF TypeOK
    <3>2. CASE ~(Path(c) = "DEFERRED" /\ rid[c] # NoReq)
      <4>1. trace' \in [Requests -> {"clean", "written", "doubtful"}]
        BY DEF TypeOK
      <4>2. Finish(c)
        BY <3>2
      <4>3. /\ pc' \in [Calls -> Step] /\ intent' \in [Calls -> Keys \cup {NoKey}]
            /\ start' \in [Calls -> Nat] /\ cand' \in [Calls -> SUBSET Requests]
        BY <4>2 DEF TypeOK
      <4>4. rid' \in [Calls -> Requests \cup {NoReq}] /\ warned' \in [Calls -> SUBSET Requests]
        BY <4>2 DEF TypeOK
      <4> QED
        BY <4>1, <4>3, <4>4 DEF TypeOK
    <3> QED
      BY <3>1, <3>2
  <2>2. \A q \in Requests : RowInv(q)'
    BY DEF TypeOK, RowInv, CallInv, Agreed, Holding, Path
  <2>3. \A d \in Calls : CallInv(d)'
    BY DEF TypeOK, RowInv, CallInv, Holding, Agreed, ExclusiveRun, Runs, Path
  <2>4. ExclusiveRun'
    BY DEF TypeOK, RowInv, CallInv, Holding, ExclusiveRun, Runs
  <2> QED
    BY <2>1, <2>2, <2>3, <2>4
<1>9. ASSUME NEW c \in Calls, BodyFails(c)
      PROVE  IInv'
  <2> USE <1>9 DEF BodyFails, EndBody, Goto, Finish, rowVars, callVars
  <2>1. TypeOK'
    <3>1. CASE Path(c) = "DEFERRED" /\ rid[c] # NoReq
      <4>1. rid[c] \in Requests
        BY <3>1 DEF TypeOK
      <4>2. UNCHANGED trace
        BY <4>1 DEF TypeOK
      <4>3. pc' \in [Calls -> Step]
        BY <3>1 DEF TypeOK
      <4>4. UNCHANGED <<intent, start, cand, rid, warned>>
        BY <3>1
      <4> QED
        BY <4>2, <4>3, <4>4 DEF TypeOK
    <3>2. CASE ~(Path(c) = "DEFERRED" /\ rid[c] # NoReq)
      <4>1. UNCHANGED trace
        BY DEF TypeOK
      <4>2. Finish(c)
        BY <3>2
      <4>3. /\ pc' \in [Calls -> Step] /\ intent' \in [Calls -> Keys \cup {NoKey}]
            /\ start' \in [Calls -> Nat] /\ cand' \in [Calls -> SUBSET Requests]
        BY <4>2 DEF TypeOK
      <4>4. rid' \in [Calls -> Requests \cup {NoReq}] /\ warned' \in [Calls -> SUBSET Requests]
        BY <4>2 DEF TypeOK
      <4> QED
        BY <4>1, <4>3, <4>4 DEF TypeOK
    <3> QED
      BY <3>1, <3>2
  <2>2. \A q \in Requests : RowInv(q)'
    BY DEF TypeOK, RowInv, CallInv, Agreed, Holding, Path
  <2>3. \A d \in Calls : CallInv(d)'
    BY DEF TypeOK, RowInv, CallInv, Holding, Agreed, ExclusiveRun, Runs, Path
  <2>4. ExclusiveRun'
    BY DEF TypeOK, RowInv, CallInv, Holding, ExclusiveRun, Runs
  <2> QED
    BY <2>1, <2>2, <2>3, <2>4
<1>10. ASSUME NEW c \in Calls, ConfirmApprovalExecution(c)
      PROVE  IInv'
  <2> USE <1>10 DEF ConfirmApprovalExecution, Finish, rowVars, callVars
  <2>1. TypeOK'
    <3>1. rid[c] \in Requests
      BY DEF TypeOK, CallInv
    <3>2. executionError' \in [Requests -> BOOLEAN]
      BY <3>1 DEF TypeOK
    <3>3. event' \in [Requests -> Settlement]
      BY <3>1 DEF TypeOK
    <3> QED
      BY <3>2, <3>3 DEF TypeOK
  <2>2. \A q \in Requests : RowInv(q)'
    BY DEF TypeOK, RowInv, CallInv, Agreed, Holding, Path
  <2>3. \A d \in Calls : CallInv(d)'
    BY DEF TypeOK, RowInv, CallInv, Holding, Agreed, ExclusiveRun, Runs, Path
  <2>4. ExclusiveRun'
    BY DEF TypeOK, RowInv, CallInv, Holding, ExclusiveRun, Runs
  <2> QED
    BY <2>1, <2>2, <2>3, <2>4
<1>11. ASSUME NEW c \in Calls, ReleaseApprovalExecution(c)
      PROVE  IInv'
  <2> USE <1>11 DEF ReleaseApprovalExecution, Finish, rowVars, callVars
  <2>1. TypeOK'
    <3>1. rid[c] \in Requests
      BY DEF TypeOK, CallInv
    <3>2. \/ /\ status' = [status EXCEPT ![rid[c]] = "APPROVED"]
             /\ executedAt' = [executedAt EXCEPT ![rid[c]] = NoTime]
          \/ UNCHANGED <<status, executedAt>>
      OBVIOUS
    <3>3. status' \in [Requests -> Status] /\ executedAt' \in [Requests -> Time]
      <4> HIDE <1>11
      <4> QED
        BY <3>1, <3>2, ZenonT(40) DEF TypeOK
    <3>4. executionError' \in [Requests -> BOOLEAN]
      BY <3>1 DEF TypeOK
    <3> QED
      BY <3>3, <3>4 DEF TypeOK
  <2>2. \A q \in Requests : RowInv(q)'
    BY DEF TypeOK, RowInv, CallInv, Agreed, Holding, Path
  <2>3. \A d \in Calls : CallInv(d)'
    <3> SUFFICES ASSUME NEW d \in Calls
                 PROVE  CallInv(d)'
      OBVIOUS
    <3>1. CASE d = c
      BY <3>1 DEF TypeOK, CallInv
    <3>2. CASE d # c
      <4>1. rid[c] \in Requests /\ Runs(c, rid[c])
        BY DEF TypeOK, CallInv, Runs
      <4>2. rid[d] # NoReq /\ pc[d] # "record" => Runs(d, rid[d])
        BY DEF TypeOK, CallInv, Runs
      <4>3. rid[d] # NoReq /\ pc[d] # "record" => rid[d] # rid[c]
        BY <3>2, <4>1, <4>2 DEF ExclusiveRun
      <4>4. UNCHANGED <<pc[d], intent[d], start[d], cand[d], rid[d], warned[d]>>
        BY <3>2 DEF TypeOK
      <4>5. CallInv(d)
        OBVIOUS
      <4>6. rid[d] # NoReq /\ pc[d] # "record" => Holding(d)'
        BY <4>1, <4>3, <4>4, <4>5 DEF TypeOK, CallInv, Holding, Path
      <4>7. \A r \in cand[d] : status'[r] \in {"APPROVED", "EXECUTED", "EXPIRED"}
        <5>1. \A r \in Requests : status'[r] \in {status[r], "APPROVED"}
          BY <4>1 DEF TypeOK
        <5> HIDE <1>11
        <5> QED
          BY <4>4, <4>5, <5>1 DEF TypeOK, CallInv
      <4>8. UNCHANGED <<key, decidedAt, now>>
        OBVIOUS
      <4> HIDE <1>11
      <4> QED
        BY <4>4, <4>5, <4>6, <4>7, <4>8 DEF CallInv, Path
    <3> QED
      BY <3>1, <3>2
  <2>4. ExclusiveRun'
    BY DEF TypeOK, RowInv, CallInv, Holding, ExclusiveRun, Runs
  <2> QED
    BY <2>1, <2>2, <2>3, <2>4
<1>12. ASSUME NEW c \in Calls, RecordApprovalExecutionError(c)
      PROVE  IInv'
  <2> USE <1>12 DEF RecordApprovalExecutionError, Finish, rowVars, callVars
  <2>1. TypeOK'
    BY DEF TypeOK, CallInv
  <2>2. \A q \in Requests : RowInv(q)'
    BY DEF TypeOK, RowInv, CallInv, Agreed, Holding, Path
  <2>3. \A d \in Calls : CallInv(d)'
    BY DEF TypeOK, RowInv, CallInv, Holding, Agreed, ExclusiveRun, Runs, Path
  <2>4. ExclusiveRun'
    BY DEF TypeOK, RowInv, CallInv, Holding, ExclusiveRun, Runs
  <2> QED
    BY <2>1, <2>2, <2>3, <2>4
<1>13. ASSUME NEW c \in Calls, Crash(c)
      PROVE  IInv'
  <2> USE <1>13 DEF Crash, Finish, rowVars, callVars
  <2>1. TypeOK'
    BY DEF TypeOK, CallInv
  <2>2. \A q \in Requests : RowInv(q)'
    BY DEF TypeOK, RowInv, CallInv, Agreed, Holding, Path
  <2>3. \A d \in Calls : CallInv(d)'
    BY DEF TypeOK, RowInv, CallInv, Holding, Agreed, ExclusiveRun, Runs, Path
  <2>4. ExclusiveRun'
    BY DEF TypeOK, RowInv, CallInv, Holding, ExclusiveRun, Runs
  <2> QED
    BY <2>1, <2>2, <2>3, <2>4
<1>14. ASSUME NEW c \in Calls, NEW r \in Requests, MissCandidate(c, r)
      PROVE  IInv'
  <2> USE <1>14 DEF MissCandidate, StillApproved, rowVars, callVars
  <2>1. TypeOK'
    BY DEF TypeOK, CallInv
  <2>2. \A q \in Requests : RowInv(q)'
    BY DEF TypeOK, RowInv, CallInv, Agreed, Holding, Path
  <2>3. \A d \in Calls : CallInv(d)'
    BY DEF TypeOK, RowInv, CallInv, Holding, Agreed, ExclusiveRun, Runs, Path
  <2>4. ExclusiveRun'
    BY DEF TypeOK, RowInv, CallInv, Holding, ExclusiveRun, Runs
  <2> QED
    BY <2>1, <2>2, <2>3, <2>4
<1>15. ASSUME NEW c \in Calls, NEW r \in Requests, Reserve(c, r)
      PROVE  IInv'
  <2> USE <1>15 DEF Reserve, Consume, StillApproved, Oldest, rowVars, callVars
  <2>1. TypeOK'
    BY DEF TypeOK, CallInv
  <2>2. \A q \in Requests : RowInv(q)'
    BY DEF TypeOK, RowInv, CallInv, Agreed, Holding, Path
  <2>3. \A d \in Calls : CallInv(d)'
    BY DEF TypeOK, RowInv, CallInv, Holding, Agreed, ExclusiveRun, Runs, Path
  <2>4. ExclusiveRun'
    BY DEF TypeOK, RowInv, CallInv, Holding, ExclusiveRun, Runs
  <2> QED
    BY <2>1, <2>2, <2>3, <2>4
<1>16. ASSUME NEW c \in Calls, NEW r \in Requests, ConsumeAtOnce(c, r)
      PROVE  IInv'
  <2> USE <1>16 DEF ConsumeAtOnce, Consume, StillApproved, Oldest, rowVars, callVars
  <2>1. TypeOK'
    BY DEF TypeOK, CallInv
  <2>2. \A q \in Requests : RowInv(q)'
    BY DEF TypeOK, RowInv, CallInv, Agreed, Holding, Path
  <2>3. \A d \in Calls : CallInv(d)'
    BY DEF TypeOK, RowInv, CallInv, Holding, Agreed, ExclusiveRun, Runs, Path
  <2>4. ExclusiveRun'
    BY DEF TypeOK, RowInv, CallInv, Holding, ExclusiveRun, Runs
  <2> QED
    BY <2>1, <2>2, <2>3, <2>4
<1>17. ASSUME NEW c \in Calls, NEW r \in Requests, AskForApproval(c, r)
      PROVE  IInv'
  <2> USE <1>17 DEF AskForApproval, Lapse, StaleInTx, Stale, Finish, rowVars, callVars
  <2>1. TypeOK'
    BY DEF TypeOK, CallInv
  <2>2. \A q \in Requests : RowInv(q)'
    BY DEF TypeOK, RowInv, CallInv, Agreed, Holding, Path
  <2>3. \A d \in Calls : CallInv(d)'
    BY DEF TypeOK, RowInv, CallInv, Holding, Agreed, ExclusiveRun, Runs, Path
  <2>4. ExclusiveRun'
    BY DEF TypeOK, RowInv, CallInv, Holding, ExclusiveRun, Runs
  <2> QED
    BY <2>1, <2>2, <2>3, <2>4
<1>18. ASSUME NEW c \in Calls, NEW r \in Requests, CommitInTransaction(c, r)
      PROVE  IInv'
  <2> USE <1>18 DEF CommitInTransaction, StillApproved, Lapse, StaleInTx, Stale, Finish, Oldest, rowVars, callVars
  <2>1. TypeOK'
    BY DEF TypeOK, CallInv
  <2>2. \A q \in Requests : RowInv(q)'
    BY DEF TypeOK, RowInv, CallInv, Agreed, Holding, Path
  <2>3. \A d \in Calls : CallInv(d)'
    BY DEF TypeOK, RowInv, CallInv, Holding, Agreed, ExclusiveRun, Runs, Path
  <2>4. ExclusiveRun'
    BY DEF TypeOK, RowInv, CallInv, Holding, ExclusiveRun, Runs
  <2> QED
    BY <2>1, <2>2, <2>3, <2>4
<1>19. ASSUME NEW c \in Calls, NEW r \in Requests, AbortTransaction(c, r)
      PROVE  IInv'
  <2> USE <1>19 DEF AbortTransaction, StillApproved, Oldest, rowVars, callVars
  <2>1. TypeOK'
    BY DEF TypeOK, CallInv
  <2>2. \A q \in Requests : RowInv(q)'
    BY DEF TypeOK, RowInv, CallInv, Agreed, Holding, Path
  <2>3. \A d \in Calls : CallInv(d)'
    BY DEF TypeOK, RowInv, CallInv, Holding, Agreed, ExclusiveRun, Runs, Path
  <2>4. ExclusiveRun'
    BY DEF TypeOK, RowInv, CallInv, Holding, ExclusiveRun, Runs
  <2> QED
    BY <2>1, <2>2, <2>3, <2>4
<1>20. ASSUME NEW u \in Users, NEW r \in Requests, NEW s \in {"APPROVED", "REJECTED"}, DecideApproval(u, r,
             s)
      PROVE  IInv'
  <2> USE <1>20 DEF DecideApproval, MayDecide, rowVars, callVars
  <2>1. TypeOK'
    BY DEF TypeOK, CallInv
  <2>2. \A q \in Requests : RowInv(q)'
    <3> SUFFICES ASSUME NEW q \in Requests
                 PROVE  RowInv(q)'
      OBVIOUS
    <3>1. CASE q = r
      BY <3>1 DEF TypeOK, RowInv, Agreed
    <3>2. CASE q # r
      BY <3>2 DEF TypeOK, RowInv, Agreed
    <3> QED
      BY <3>1, <3>2
  <2>3. \A d \in Calls : CallInv(d)'
    BY DEF TypeOK, RowInv, CallInv, Holding, Agreed, ExclusiveRun, Runs, Path
  <2>4. ExclusiveRun'
    BY DEF TypeOK, RowInv, CallInv, Holding, ExclusiveRun, Runs
  <2> QED
    BY <2>1, <2>2, <2>3, <2>4
<1>21. CASE ReleaseStuckReservations
  <2> USE <1>21 DEF ReleaseStuckReservations, Warned, Stuck, Overdue, rowVars, callVars
  <2>1. TypeOK'
    BY DEF TypeOK, CallInv
  <2>2. \A q \in Requests : RowInv(q)'
    BY DEF TypeOK, RowInv, CallInv, Agreed, Holding, Path
  <2>3. \A d \in Calls : CallInv(d)'
    BY DEF TypeOK, RowInv, CallInv, Holding, Agreed, ExclusiveRun, Runs, Path
  <2>4. ExclusiveRun'
    BY DEF TypeOK, RowInv, CallInv, Holding, ExclusiveRun, Runs
  <2> QED
    BY <2>1, <2>2, <2>3, <2>4
<1>22. CASE Tick
  <2> USE <1>22 DEF Tick, rowVars, callVars
  <2>1. TypeOK'
    BY DEF TypeOK, CallInv
  <2>2. \A q \in Requests : RowInv(q)'
    BY DEF TypeOK, RowInv, CallInv, Agreed, Holding, Path
  <2>3. \A d \in Calls : CallInv(d)'
    BY DEF TypeOK, RowInv, CallInv, Holding, Agreed, ExclusiveRun, Runs, Path
  <2>4. ExclusiveRun'
    BY DEF TypeOK, RowInv, CallInv, Holding, ExclusiveRun, Runs
  <2> QED
    BY <2>1, <2>2, <2>3, <2>4
<1>23. CASE UNCHANGED vars
  <2> USE <1>23 DEF vars, rowVars, callVars
  <2>1. TypeOK'
    BY DEF TypeOK, CallInv
  <2>2. \A q \in Requests : RowInv(q)'
    BY DEF TypeOK, RowInv, CallInv, Agreed, Holding, Path
  <2>3. \A d \in Calls : CallInv(d)'
    BY DEF TypeOK, RowInv, CallInv, Holding, Agreed, ExclusiveRun, Runs, Path
  <2>4. ExclusiveRun'
    BY DEF TypeOK, RowInv, CallInv, Holding, ExclusiveRun, Runs
  <2> QED
    BY <2>1, <2>2, <2>3, <2>4
<1>24. ASSUME NEW c \in Calls, BodyFailsHalfway(c)
       PROVE  IInv'
  <2> USE <1>24 DEF BodyFailsHalfway, EndBody, Goto, Finish, rowVars, callVars
  <2>1. TypeOK'
    <3>1. CASE Path(c) = "DEFERRED"
      <4>1. rid[c] \in Requests
        BY <3>1 DEF TypeOK
      <4>2. trace' \in [Requests -> {"clean", "written", "doubtful"}]
        BY <4>1 DEF TypeOK
      <4>3. pc' \in [Calls -> Step]
        BY <3>1 DEF TypeOK
      <4>4. UNCHANGED <<intent, start, cand, rid, warned>>
        BY <3>1
      <4> QED
        BY <4>2, <4>3, <4>4 DEF TypeOK
    <3>2. CASE ~(Path(c) = "DEFERRED")
      <4>1. trace' \in [Requests -> {"clean", "written", "doubtful"}]
        BY DEF TypeOK
      <4>2. Finish(c)
        BY <3>2
      <4>3. /\ pc' \in [Calls -> Step] /\ intent' \in [Calls -> Keys \cup {NoKey}]
            /\ start' \in [Calls -> Nat] /\ cand' \in [Calls -> SUBSET Requests]
        BY <4>2 DEF TypeOK
      <4>4. rid' \in [Calls -> Requests \cup {NoReq}] /\ warned' \in [Calls -> SUBSET Requests]
        BY <4>2 DEF TypeOK
      <4> QED
        BY <4>1, <4>3, <4>4 DEF TypeOK
    <3> QED
      BY <3>1, <3>2
  <2>2. \A q \in Requests : RowInv(q)'
    BY DEF TypeOK, RowInv, CallInv, Agreed, Holding, Path
  <2>3. \A d \in Calls : CallInv(d)'
    BY DEF TypeOK, RowInv, CallInv, Holding, Agreed, ExclusiveRun, Runs, Path
  <2>4. ExclusiveRun'
    BY DEF TypeOK, RowInv, CallInv, Holding, ExclusiveRun, Runs
  <2> QED
    BY <2>1, <2>2, <2>3, <2>4
<1> HIDE DEF IInv
<1> QED
  BY <1>1, <1>2, <1>3, <1>4, <1>5, <1>6, <1>7, <1>8, <1>9, <1>10, <1>11, <1>12,
     <1>13, <1>14, <1>15, <1>16, <1>17, <1>18, <1>19, <1>20, <1>21, <1>22, <1>23, <1>24
     DEF Next, CallStep

(* The inductive invariant holds in every reachable state.                  *)
THEOREM Invariant == Spec => []IInv
  BY InitInductive, StepInductive, PTL DEF Spec

(* Every variable keeps its type along every behaviour of the gate.         *)
THEOREM TypeCorrect == Spec => []TypeOK
<1>1. IInv => TypeOK
  BY DEF IInv
<1> QED
  BY <1>1, Invariant, PTL

(* One approval never runs two calls at once (service.ts:37-39).            *)
THEOREM OneRunPerApproval == Spec => []ExclusiveRun
<1>1. IInv => ExclusiveRun
  BY DEF IInv
<1> QED
  BY <1>1, Invariant, PTL

(* Work written under an approval is not written again under it unless the  *)
(* call failed after its write or was given up for dead (service.ts:37-39).                    *)
THEOREM WrittenOnce == Spec => []WriteOnce
<1>1. IInv => WriteOnce
  BY UsersAssumption DEF IInv, WriteOnce, AboutToWrite, TypeOK, RowInv, CallInv, Holding
<1> QED
  BY <1>1, Invariant, PTL

(* A usable approval whose work may already be there says so                *)
(* (reservation-sweep.ts:40-44, service.ts:335).                            *)
THEOREM RedoWarned == Spec => []RedoIsFlagged
<1>1. IInv => RedoIsFlagged
  BY DEF IInv, RedoIsFlagged, RowInv
<1> QED
  BY <1>1, Invariant, PTL

(* What runs past the gate is what the requester asked for and somebody     *)
(* else allowed, less than ValidFor ago (service.ts:40-44).                 *)
THEOREM TwoPeople == Spec => []SecondPerson
<1>1. IInv => SecondPerson
  BY UsersAssumption DEF IInv, SecondPerson, Runs, TypeOK, RowInv, CallInv, Holding, Agreed
<1> QED
  BY <1>1, Invariant, PTL

(* The event ledger never claims work that is not there (service.ts:57-60). *)
THEOREM EventsAreTrue == Spec => []TruthfulEvent
<1>1. IInv => TruthfulEvent
  BY DEF IInv, TruthfulEvent, RowInv
<1> QED
  BY <1>1, Invariant, PTL

-----------------------------------------------------------------------------
(* The gate implements the one-time permit, for any number of requests and *)
(* calls: every step of ApprovalGate is a step of OneTimePermit under      *)
(* permitBar, or leaves the permit alone.                                  *)

\* With an empty table every permit is absent.
LEMMA InitPermit == Init => Permit!Init
  BY DEF Init, Permit!Init, permitBar, PermitOf

\* Steps that touch neither the state of a row, nor its event, nor the data.
LEMMA Stutter ==
  UNCHANGED <<status, event, trace>> => UNCHANGED Permit!vars
  BY DEF Permit!vars, permitBar, PermitOf

\* Approvals that lapse are open before and closed after.
LEMMA LapseIsLapse ==
  ASSUME NEW S, S \subseteq {r \in Requests : status[r] = "APPROVED"},
         status' = Lapse(S), UNCHANGED <<event, trace>>
  PROVE  Permit!Lapse(S)
<1>1. S \subseteq Permit!Open
  BY DEF Permit!Open, permitBar, PermitOf
<1>2. permitBar' = [x \in Requests |-> IF x \in S THEN "closed" ELSE permitBar[x]]
  BY DEF permitBar, PermitOf, Lapse
<1> QED
  BY <1>1, <1>2 DEF Permit!Lapse

\* Each action of the gate, and the step of the permit it stands for.
LEMMA StepPermit == IInv /\ [Next]_vars => [Permit!Next]_(Permit!vars)
<1> SUFFICES ASSUME IInv, [Next]_vars
             PROVE  Permit!Next \/ UNCHANGED Permit!vars
  OBVIOUS
<1> USE UsersAssumption
<1>0. TypeOK /\ (\A r \in Requests : RowInv(r)) /\ (\A c \in Calls : CallInv(c))
  BY DEF IInv
<1>1. ASSUME NEW b \in BOOLEAN, SetEnforceGroup(b)
      PROVE  UNCHANGED Permit!vars
  BY <1>1, Stutter DEF SetEnforceGroup, rowVars
<1>2. ASSUME NEW c \in Calls, NEW k \in Keys, GuardSkip(c, k) \/ GuardEnter(c, k)
      PROVE  UNCHANGED Permit!vars
  BY <1>2, Stutter DEF GuardSkip, GuardEnter, rowVars
<1>3. ASSUME NEW c \in Calls, ExpireStaleApprovals(c)
      PROVE  Permit!Next
  <2>1. Permit!Lapse(Stale(intent[c], start[c]))
    BY <1>3, LapseIsLapse DEF ExpireStaleApprovals, Stale
  <2> QED
    BY <2>1 DEF Permit!Next, Stale
<1>4. ASSUME NEW c \in Calls, AlreadyAsked(c)
      PROVE  Permit!Next
  <2>1. Permit!Lapse(StaleInTx(c))
    BY <1>4, LapseIsLapse DEF AlreadyAsked, StaleInTx, Stale
  <2> QED
    BY <2>1 DEF Permit!Next, StaleInTx, Stale
<1>5. ASSUME NEW c \in Calls,
             SelectCandidates(c) \/ AuditReservation(c) \/ BodyFails(c)
               \/ RecordApprovalExecutionError(c) \/ Crash(c)
      PROVE  UNCHANGED Permit!vars
  BY <1>5, Stutter DEF SelectCandidates, AuditReservation, BodyFails, EndBody,
       RecordApprovalExecutionError, Crash, rowVars
<1>6. ASSUME NEW c \in Calls, NEW r \in Requests, MissCandidate(c, r) \/ AbortTransaction(c, r)
      PROVE  UNCHANGED Permit!vars
  BY <1>6, Stutter DEF MissCandidate, StillApproved, AbortTransaction, rowVars
<1>7. ASSUME NEW c \in Calls, NEW r \in Requests, Reserve(c, r)
      PROVE  Permit!Next
  <2>1. event[r] = "NONE" /\ status[r] = "APPROVED"
    BY <1>0, <1>7 DEF Reserve, Consume, StillApproved, RowInv
  <2>2. permitBar' = [x \in Requests |-> IF x = r THEN "held" ELSE permitBar[x]]
    BY <1>0, <1>7, <2>1 DEF Reserve, Consume, StillApproved, permitBar, PermitOf, TypeOK
  <2>3. Permit!Take(r, "held")
    BY <1>7, <2>1, <2>2 DEF Reserve, Consume, StillApproved, Permit!Take, Permit!Becomes, permitBar, PermitOf
  <2> QED
    BY <2>3 DEF Permit!Next, Permit!PermitState
<1>8. ASSUME NEW c \in Calls, NEW r \in Requests, ConsumeAtOnce(c, r)
      PROVE  Permit!Next
  <2>1. status[r] = "APPROVED"
    BY <1>8 DEF ConsumeAtOnce, Consume, StillApproved
  <2>2. permitBar' = [x \in Requests |-> IF x = r THEN "spent" ELSE permitBar[x]]
    BY <1>0, <1>8, <2>1 DEF ConsumeAtOnce, Consume, StillApproved, permitBar, PermitOf, TypeOK
  <2>3. Permit!Take(r, "spent")
    BY <1>8, <2>1, <2>2 DEF ConsumeAtOnce, Consume, StillApproved, Permit!Take, Permit!Becomes, permitBar, PermitOf
  <2> QED
    BY <2>3 DEF Permit!Next, Permit!PermitState
<1>9. ASSUME NEW c \in Calls, NEW r \in Requests, AskForApproval(c, r)
      PROVE  Permit!Next
  <2>1. StaleInTx(c) \subseteq Permit!Open
    BY DEF StaleInTx, Stale, Permit!Open, permitBar, PermitOf
  <2>2. status[r] = "NONE" /\ r \notin StaleInTx(c)
    BY <1>9 DEF AskForApproval, StaleInTx, Stale
  <2>3. permitBar' = [x \in Requests |-> IF x = r THEN "asked"
                         ELSE IF x \in StaleInTx(c) THEN "closed" ELSE permitBar[x]]
    <3>1. status' = [x \in Requests |-> IF x = r THEN "PENDING"
                         ELSE IF x \in StaleInTx(c) THEN "EXPIRED" ELSE status[x]]
      BY <1>9 DEF AskForApproval, Lapse
    <3>2. UNCHANGED event
      BY <1>9 DEF AskForApproval
    <3> QED
      BY <3>1, <3>2 DEF permitBar, PermitOf
  <2>4. Permit!Ask(StaleInTx(c), r)
    BY <1>9, <2>1, <2>2, <2>3 DEF AskForApproval, Permit!Ask, Permit!Becomes, permitBar, PermitOf
  <2>5. StaleInTx(c) \in SUBSET Requests
    BY DEF StaleInTx, Stale
  <2> QED
    BY <2>4, <2>5 DEF Permit!Next
<1>10. ASSUME NEW u \in Users, NEW r \in Requests, NEW s \in {"APPROVED", "REJECTED"},
              DecideApproval(u, r, s)
       PROVE  Permit!Next
  <2>1. status[r] = "PENDING" /\ status' = [status EXCEPT ![r] = s] /\ UNCHANGED <<event, trace>>
    BY <1>10 DEF DecideApproval, MayDecide
  <2>2. PICK p \in {"open", "closed"} : p = IF s = "APPROVED" THEN "open" ELSE "closed"
    OBVIOUS
  <2>3. permitBar' = [x \in Requests |-> IF x = r THEN p ELSE permitBar[x]]
    BY <1>0, <2>1, <2>2 DEF permitBar, PermitOf, TypeOK
  <2>4. Permit!Decide(r, p)
    BY <2>1, <2>2, <2>3 DEF Permit!Decide, Permit!Becomes, permitBar, PermitOf
  <2> QED
    BY <2>4 DEF Permit!Next, Permit!PermitState
<1>11. ASSUME NEW c \in Calls, BodyWrites(c) \/ BodyFailsHalfway(c)
       PROVE  Permit!Next \/ UNCHANGED Permit!vars
  <2>1. UNCHANGED <<status, event>> /\ pc[c] = "body"
    BY <1>11 DEF BodyWrites, EndBody, Written, BodyFailsHalfway, rowVars
  <2>2. CASE rid[c] = NoReq
    BY <1>11, <2>1, <2>2, Stutter DEF BodyWrites, EndBody, Written, BodyFailsHalfway
  <2>3. CASE rid[c] # NoReq
    <3>1. rid[c] \in Requests /\ Holding(c)
      BY <1>0, <2>1, <2>3 DEF TypeOK, CallInv
    <3>2. permitBar[rid[c]] \in {"held", "spent"} /\ trace[rid[c]] # "written"
      BY <2>1, <3>1 DEF Holding, permitBar, PermitOf
    <3>3. UNCHANGED permitBar
      BY <2>1 DEF permitBar, PermitOf
    <3>4. Permit!Use(rid[c]) \/ Permit!Botch(rid[c])
      BY <1>11, <2>3, <3>2, <3>3 DEF BodyWrites, EndBody, Written, BodyFailsHalfway, Permit!Use, Permit!Botch
    <3> QED
      BY <3>1, <3>4 DEF Permit!Next
  <2> QED
    BY <2>2, <2>3
<1>12. ASSUME NEW c \in Calls, ConfirmApprovalExecution(c)
       PROVE  Permit!Next
  <2>1. rid[c] \in Requests /\ Holding(c) /\ pc[c] = "confirm"
    BY <1>0, <1>12 DEF ConfirmApprovalExecution, TypeOK, CallInv
  <2>2. status[rid[c]] = "EXECUTED" /\ event[rid[c]] = "NONE" /\ trace[rid[c]] = "written"
    BY <2>1 DEF Holding
  <2>3. event' = [event EXCEPT ![rid[c]] = "DEFERRED"] /\ UNCHANGED <<status, trace>>
    BY <1>12, <2>2 DEF ConfirmApprovalExecution
  <2>4. permitBar' = [x \in Requests |-> IF x = rid[c] THEN "spent" ELSE permitBar[x]]
    BY <1>0, <2>1, <2>2, <2>3 DEF permitBar, PermitOf, TypeOK
  <2>5. Permit!Spend(rid[c])
    BY <2>1, <2>2, <2>3, <2>4 DEF Permit!Spend, Permit!Becomes, permitBar, PermitOf
  <2> QED
    BY <2>1, <2>5 DEF Permit!Next
<1>13. ASSUME NEW c \in Calls, ReleaseApprovalExecution(c)
       PROVE  Permit!Next
  <2>1. rid[c] \in Requests /\ Holding(c) /\ pc[c] = "release"
    BY <1>0, <1>13 DEF ReleaseApprovalExecution, TypeOK, CallInv
  <2>2. status[rid[c]] = "EXECUTED" /\ event[rid[c]] = "NONE" /\ trace[rid[c]] # "written"
    BY <2>1 DEF Holding
  <2>3. status' = [status EXCEPT ![rid[c]] = "APPROVED"] /\ UNCHANGED <<event, trace>>
    BY <1>13, <2>2 DEF ReleaseApprovalExecution
  <2>4. permitBar' = [x \in Requests |-> IF x = rid[c] THEN "open" ELSE permitBar[x]]
    BY <1>0, <2>1, <2>2, <2>3 DEF permitBar, PermitOf, TypeOK
  <2>5. Permit!GiveBack(rid[c])
    BY <2>1, <2>2, <2>3, <2>4 DEF Permit!GiveBack, Permit!Becomes, permitBar, PermitOf
  <2> QED
    BY <2>1, <2>5 DEF Permit!Next
<1>14. ASSUME NEW c \in Calls, NEW r \in Requests, CommitInTransaction(c, r)
       PROVE  Permit!Next
  <2>1. StaleInTx(c) \subseteq Permit!Open /\ StaleInTx(c) \in SUBSET Requests
    BY DEF StaleInTx, Stale, Permit!Open, permitBar, PermitOf
  <2>2. status[r] = "APPROVED" /\ trace[r] # "written"
    BY <1>0, <1>14 DEF CommitInTransaction, StillApproved, RowInv
  <2>3. permitBar' = [x \in Requests |-> IF x = r THEN "spent"
                         ELSE IF x \in StaleInTx(c) THEN "closed" ELSE permitBar[x]]
    <3>1. status' = [x \in Requests |-> IF x = r THEN "EXECUTED"
                         ELSE IF x \in StaleInTx(c) THEN "EXPIRED" ELSE status[x]]
      BY <1>14 DEF CommitInTransaction, StillApproved, Lapse
    <3>2. event' = [event EXCEPT ![r] = "IN_TRANSACTION"]
      BY <1>14 DEF CommitInTransaction, StillApproved
    <3> QED
      BY <1>0, <3>1, <3>2 DEF permitBar, PermitOf, TypeOK
  <2>4. Permit!UseAndSpend(StaleInTx(c), r)
    BY <1>14, <2>1, <2>2, <2>3
       DEF CommitInTransaction, StillApproved, Permit!UseAndSpend, Permit!Becomes, permitBar, PermitOf
  <2> QED
    BY <2>1, <2>4 DEF Permit!Next
<1>15. CASE ReleaseStuckReservations
  <2>1. \A r \in Stuck : permitBar[r] = "held"
    BY DEF Stuck, Overdue, permitBar, PermitOf
  <2>2. status' = [r \in Requests |-> IF r \in Stuck THEN "APPROVED" ELSE status[r]]
        /\ UNCHANGED event
    BY <1>15 DEF ReleaseStuckReservations, Warned
  <2>3. permitBar' = [x \in Requests |-> IF x \in Stuck THEN "open" ELSE permitBar[x]]
    BY <2>2 DEF permitBar, PermitOf
  <2>4. Permit!Reclaim(Stuck)
    BY <1>15, <2>1, <2>3 DEF ReleaseStuckReservations, Warned, Permit!Reclaim
  <2>5. Stuck \in SUBSET Requests
    BY DEF Stuck, Overdue
  <2> QED
    BY <2>4, <2>5 DEF Permit!Next
<1>16. CASE Tick \/ UNCHANGED vars
  BY <1>16, Stutter DEF Tick, vars, rowVars
<1> QED
  BY <1>1, <1>2, <1>3, <1>4, <1>5, <1>6, <1>7, <1>8, <1>9, <1>10, <1>11, <1>12,
     <1>13, <1>14, <1>15, <1>16 DEF Next, CallStep

(* Every behaviour of the gate is a behaviour of the one-time permit: work  *)
(* is written only under a permit that is taken, and once per permit unless *)
(* a holder failed or was given up for dead (service.ts:37-60).             *)
THEOREM GateImplementsPermit == Spec => ImplementsPermit
  BY InitPermit, StepPermit, Invariant, PTL DEF Spec, ImplementsPermit, Permit!Spec

\* A settled approval stays EXECUTED and its event stays what it is.
LEMMA SettledStays ==
  ASSUME IInv, [Next]_vars, NEW r \in Requests, event[r] # "NONE"
  PROVE  status'[r] = "EXECUTED" /\ event'[r] = event[r]
<1>0. TypeOK /\ (\A q \in Requests : RowInv(q)) /\ (\A c \in Calls : CallInv(c))
  BY DEF IInv
<1>1. status[r] = "EXECUTED"
  BY <1>0 DEF RowInv
<1>2. ASSUME NEW c \in Calls,
             ExpireStaleApprovals(c) \/ AlreadyAsked(c)
      PROVE  status'[r] = "EXECUTED" /\ event'[r] = event[r]
  BY <1>1, <1>2 DEF ExpireStaleApprovals, AlreadyAsked, Lapse, Stale, StaleInTx
<1>3. ASSUME NEW c \in Calls, NEW q \in Requests,
             Reserve(c, q) \/ ConsumeAtOnce(c, q) \/ AskForApproval(c, q)
               \/ CommitInTransaction(c, q)
      PROVE  status'[r] = "EXECUTED" /\ event'[r] = event[r]
  <2>1. r # q
    BY <1>1, <1>3 DEF Reserve, ConsumeAtOnce, Consume, StillApproved, AskForApproval, CommitInTransaction
  <2> QED
    BY <1>0, <1>1, <1>3, <2>1 DEF TypeOK, Reserve, ConsumeAtOnce, Consume, StillApproved, AskForApproval,
         CommitInTransaction, Lapse, Stale, StaleInTx
<1>4. ASSUME NEW c \in Calls, ConfirmApprovalExecution(c) \/ ReleaseApprovalExecution(c)
      PROVE  status'[r] = "EXECUTED" /\ event'[r] = event[r]
  <2>1. rid[c] \in Requests
    BY <1>0, <1>4 DEF ConfirmApprovalExecution, ReleaseApprovalExecution, TypeOK, CallInv
  <2> QED
    BY <1>0, <1>1, <1>4, <2>1 DEF TypeOK, ConfirmApprovalExecution, ReleaseApprovalExecution
<1>5. ASSUME NEW u \in Users, NEW q \in Requests, NEW s \in {"APPROVED", "REJECTED"},
             DecideApproval(u, q, s)
      PROVE  status'[r] = "EXECUTED" /\ event'[r] = event[r]
  BY <1>0, <1>1, <1>5 DEF TypeOK, DecideApproval, MayDecide
<1>6. CASE ReleaseStuckReservations
  BY <1>1, <1>6 DEF ReleaseStuckReservations, Warned, Stuck, Overdue
<1>7. CASE UNCHANGED <<status, event>>
  BY <1>1, <1>7
<1> QED
  BY <1>2, <1>3, <1>4, <1>5, <1>6, <1>7
     DEF Next, CallStep, SetEnforceGroup, GuardSkip, GuardEnter, SelectCandidates,
         AuditReservation, BodyWrites, EndBody, Written, BodyFails, BodyFailsHalfway,
         RecordApprovalExecutionError, Crash, MissCandidate, StillApproved, AbortTransaction, Tick,
         vars, rowVars

(* No late release and no sweep revives a settled approval, in any step of  *)
(* any behaviour (service.ts:335, reservation-sweep.ts:19).                 *)
THEOREM SettledForGood == Spec => SettledIsFinal
<1>1. IInv /\ [Next]_vars =>
        [\A r \in Requests :
           event[r] # "NONE" => status'[r] = "EXECUTED" /\ event'[r] = event[r]]_vars
  BY SettledStays
<1> QED
  BY <1>1, Invariant, PTL DEF Spec, SettledIsFinal

==============================================================================
