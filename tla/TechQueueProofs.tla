---------------------------- MODULE TechQueueProofs ----------------------------
(***************************************************************************)
(* What TechQueue guarantees for any number of tasks, workers and calls    *)
(* served at the same time, any lease and any limit of attempts.           *)
(*                                                                         *)
(* The argument: a generation is never given out twice, for the claim and  *)
(* the reaper both take the next one. A run that is closed while its       *)
(* generation is the current one has left the task without a holder, so    *)
(* whoever still holds a lease under it has an open run. Every claim that  *)
(* has not yet inserted its run is paid for by an attempt. And a call that *)
(* moves a task has read it as workable since it began, so that it was put *)
(* aside by a decision the call has not seen.                              *)
(***************************************************************************)
EXTENDS TechQueue, SequenceTheorems, FiniteSetTheorems, TLAPS

TaskStatuses == {"TRIAGED", "SPEC_READY", "BUILDING", "REVIEW", "BLOCKED", "FAILED",
                 "NEEDS_OWNER", "CANCELLED"}
RunStatuses  == {"RUNNING", "SUCCEEDED", "FAILED", "BLOCKED"}

Row  == [t : Tasks, status : TaskStatuses, attempts : Nat, gen : Nat]
Run  == [t : Tasks, worker : Workers, gen : Nat, status : RunStatuses]
CallRecord ==
  [pc : {"start", "move", "write", "reap", "take", "reread", "insert", "renew", "settle"},
   op : {"person", "reap", "claim", "beat", "start", "complete", "fail"},
   w : Workers \cup {Nobody}, at : Nat, rows : SUBSET Row, t : Tasks \cup {Nobody},
   run : Nat, gen : Nat, attempts : Nat, outcome : Outcomes \cup {Nobody},
   moves : Seq(TaskStatuses), seen : [Tasks -> Nat]]

\* What a call that is under way carries.
Carries(r) ==
  /\ r \in CallRecord /\ r.pc # "start" /\ r.at <= now
  /\ \A t \in Tasks : r.seen[t] <= decisions[t]
  /\ r.pc \notin {"reap", "take"} => r.t \in Tasks
  /\ r.pc \in {"reap", "take", "reread", "insert"} => Reaps(r)
  /\ r.pc \in {"take", "reread", "insert"} => r.w \in Workers
  /\ r.op = "claim" => r.w \in Workers
  /\ r.pc \in {"move", "write"} => r.moves # <<>>
  /\ r.pc = "insert" => r.gen <= gen[r.t]
  /\ r.pc = "settle" => /\ r.op = "complete" /\ r.outcome \in Outcomes
                        /\ r.run \in 1..Len(runs) /\ r.w \in Workers
                        /\ runs[r.run].t = r.t /\ runs[r.run].gen = r.gen

\* Who moves a task put aside has begun before that.
Obeys(r) ==
  /\ \A row \in r.rows :
       row.status \in Workable /\ Aside(row.t) => r.seen[row.t] < decisions[row.t]
  /\ r.pc \in {"move", "write"} /\ r.op # "person" /\ Aside(r.t) => r.seen[r.t] < decisions[r.t]

CallsInv ==
  /\ call = [c \in Calls |-> call[c]]
  /\ \A c \in Calls : call[c] = Idle \/ (Carries(call[c]) /\ Obeys(call[c]))

\* What the log of runs says of the leases.
RunsInv ==
  \A i \in 1..Len(runs) :
    LET t == runs[i].t
    IN  /\ runs[i].gen <= gen[t]
        /\ runs[i].status # "RUNNING" /\ runs[i].gen = gen[t] => holder[t] = Nobody

\* The runs of a task, and the claims that are about to add one.
RunsOf(t)  == {i \in DOMAIN runs : runs[i].t = t}
Pending(t) == {c \in Calls : call[c].pc \in {"reread", "insert"} /\ call[c].t = t}

AttemptsInv ==
  \A t \in Tasks :
    /\ IsFiniteSet(Pending(t))
    /\ decisions[t] = 0 => Cardinality(RunsOf(t)) + Cardinality(Pending(t)) <= attempts[t]

Tables ==
  /\ now \in 0..MaxTime /\ crashes \in 0..MaxCrashes
  /\ status \in [Tasks -> TaskStatuses]
  /\ attempts \in [Tasks -> 0..MaxAttempts]
  /\ gen \in [Tasks -> Nat] /\ expires \in [Tasks -> Nat] /\ decisions \in [Tasks -> Nat]
  /\ holder \in [Tasks -> Workers \cup {Nobody}]
  /\ mover \in [Tasks -> {"HUMAN", "SYSTEM"}]
  /\ accepted \in [Tasks -> Seq(Nat)]
  /\ runs \in Seq(Run)

\* The inductive invariant.
IInv == Tables /\ CallsInv /\ RunsInv /\ AttemptsInv

------------------------------------------------------------------------------
\* The statuses of the table of transitions are those listed above.
LEMMA StatusesAre == Statuses = TaskStatuses
  BY DEF Statuses, Transitions, TaskStatuses

\* TypeOK is part of the invariant.
LEMMA TypesHold == IInv => TypeOK
<1> SUFFICES ASSUME IInv
             PROVE  TypeOK
  OBVIOUS
<1>1. ASSUME NEW c \in Calls
      PROVE  CallTypeOK(call[c])
  <2>1. CASE call[c] = Idle
    BY <2>1 DEF CallTypeOK
  <2>2. CASE Carries(call[c])
    <3>1. Len(runs) \in Nat /\ DOMAIN runs = 1..Len(runs) /\ now \in Nat
      BY LenProperties, QueueAssumption DEF IInv, Tables
    <3> QED
      BY <2>2, <3>1, StatusesAre DEF CallTypeOK, Carries, CallRecord
  <2> QED
    BY <2>1, <2>2 DEF IInv, CallsInv
<1>2. /\ now \in 0..MaxTime /\ crashes \in 0..MaxCrashes
      /\ status \in [Tasks -> Statuses]
      /\ attempts \in [Tasks -> 0..MaxAttempts]
      /\ gen \in [Tasks -> Nat] /\ expires \in [Tasks -> Nat] /\ decisions \in [Tasks -> Nat]
      /\ holder \in [Tasks -> Workers \cup {Nobody}]
      /\ mover \in [Tasks -> {"HUMAN", "SYSTEM"}]
      /\ accepted \in [Tasks -> Seq(Nat)]
  BY StatusesAre DEF IInv, Tables
<1>3. runs \in Seq([t : Tasks, worker : Workers, gen : Nat,
                    status : {"RUNNING", "SUCCEEDED", "FAILED", "BLOCKED"}])
  BY DEF IInv, Tables, Run, RunStatuses
<1> QED
  BY <1>1, <1>2, <1>3 DEF TypeOK

\* The log of runs is a sequence of runs.
LEMMA RunsTyped ==
  ASSUME IInv
  PROVE  /\ runs \in Seq(Run) /\ Len(runs) \in Nat /\ DOMAIN runs = 1..Len(runs)
         /\ \A i \in 1..Len(runs) : runs[i] \in Run
  BY LenProperties DEF IInv, Tables

\* Closing runs changes nothing but the status of those that are open.
LEMMA ClosedRuns ==
  ASSUME IInv, NEW ids, NEW s \in RunStatuses
  PROVE  /\ Closed(ids, s) \in Seq(Run) /\ Len(Closed(ids, s)) = Len(runs)
         /\ \A i \in 1..Len(runs) :
              /\ Closed(ids, s)[i].t = runs[i].t /\ Closed(ids, s)[i].gen = runs[i].gen
              /\ Closed(ids, s)[i].status = IF i \in ids /\ runs[i].status = "RUNNING"
                                            THEN s ELSE runs[i].status
<1> DEFINE e(i) == IF i \in ids /\ runs[i].status = "RUNNING"
                   THEN [runs[i] EXCEPT !.status = s] ELSE runs[i]
<1>1. ASSUME NEW i \in 1..Len(runs)
      PROVE  /\ e(i) \in Run /\ e(i).t = runs[i].t /\ e(i).gen = runs[i].gen
             /\ e(i).status = IF i \in ids /\ runs[i].status = "RUNNING" THEN s ELSE runs[i].status
  <2>1. runs[i] \in Run
    BY RunsTyped
  <2>2. CASE i \in ids /\ runs[i].status = "RUNNING"
    BY <2>1, <2>2 DEF Run
  <2>3. CASE ~(i \in ids /\ runs[i].status = "RUNNING")
    <3>1. e(i) = runs[i]
      BY <2>3
    <3> HIDE DEF e
    <3> QED
      BY <2>1, <2>3, <3>1
  <2> QED
    BY <2>2, <2>3
<1>2. Closed(ids, s) = [i \in 1..Len(runs) |-> e(i)]
  BY RunsTyped DEF Closed
<1> HIDE DEF e
<1>3. Len(runs) \in Nat
  BY RunsTyped
<1>4. Closed(ids, s) \in Seq(Run) /\ Len(Closed(ids, s)) = Len(runs)
  BY <1>1, <1>2, <1>3
<1> QED
  BY <1>1, <1>2, <1>4

\* What a call with status changes left, or none, carries on with.
LEMMA ThenIs ==
  ASSUME NEW r \in CallRecord, NEW moves \in Seq(TaskStatuses)
  PROVE  LET k == Then(r, moves)
         IN  \/ k = Idle
             \/ /\ k \in CallRecord /\ k.op = r.op /\ k.w = r.w /\ k.at = r.at /\ k.rows = r.rows
                /\ k.gen = r.gen /\ k.run = r.run /\ k.outcome = r.outcome /\ k.seen = r.seen
                /\ \/ k.pc = "move" /\ k.moves # <<>> /\ k.t = r.t /\ moves # <<>>
                   \/ k.pc = "reap" /\ Reaps(r)
<1>1. CASE moves # <<>>
  <2>1. Then(r, moves) = [r EXCEPT !.pc = "move", !.moves = moves]
    BY <1>1 DEF Then
  <2> QED
    BY <1>1, <2>1 DEF CallRecord
<1>2. CASE moves = <<>> /\ Reaps(r)
  <2>1. Then(r, moves) = [r EXCEPT !.pc = "reap", !.t = Nobody, !.moves = <<>>]
    BY <1>2 DEF Then
  <2>2. <<>> \in Seq(TaskStatuses)
    OBVIOUS
  <2> QED
    BY <1>2, <2>1, <2>2 DEF CallRecord
<1>3. CASE moves = <<>> /\ ~Reaps(r)
  BY <1>3 DEF Then
<1> QED
  BY <1>1, <1>2, <1>3

------------------------------------------------------------------------------
(* What no step takes back. *)

Forward ==
  /\ now <= now' /\ Len(runs) <= Len(runs') /\ Len(runs') \in Nat
  /\ \A i \in 1..Len(runs) : runs'[i].t = runs[i].t /\ runs'[i].gen = runs[i].gen
  /\ \A t \in Tasks : /\ gen[t] <= gen'[t] /\ decisions[t] <= decisions'[t]
                      /\ Aside(t)' => Aside(t) \/ decisions[t] < decisions'[t]

\* A call that is not touched stays sound.
LEMMA CarriesOn ==
  ASSUME IInv, Tables', Forward, NEW r, Carries(r), Obeys(r)
  PROVE  Carries(r)' /\ Obeys(r)'
<1>1. r \in CallRecord /\ (r.pc \notin {"reap", "take"} => r.t \in Tasks)
  BY DEF Carries
<1>2. /\ now \in Nat /\ now' \in Nat /\ Len(runs) \in Nat
      /\ gen \in [Tasks -> Nat] /\ gen' \in [Tasks -> Nat]
      /\ decisions \in [Tasks -> Nat] /\ decisions' \in [Tasks -> Nat]
  BY RunsTyped, QueueAssumption DEF IInv, Tables
<1>3. r.at <= now' /\ \A t \in Tasks : r.seen[t] <= decisions'[t]
  BY <1>1, <1>2 DEF Carries, Forward, CallRecord
<1>4. r.pc = "insert" => r.gen <= gen'[r.t]
  BY <1>1, <1>2 DEF Carries, Forward, CallRecord
<1>5. r.pc = "settle" => /\ r.run \in 1..Len(runs')
                         /\ runs'[r.run].t = r.t /\ runs'[r.run].gen = r.gen
  BY <1>1, <1>2 DEF Carries, Forward
<1>6. Carries(r)'
  BY <1>3, <1>4, <1>5 DEF Carries
<1>7. ASSUME NEW t \in Tasks, Aside(t) => r.seen[t] < decisions[t], Aside(t)'
      PROVE  r.seen[t] < decisions'[t]
  <2>1. /\ r.seen[t] \in Nat /\ decisions[t] \in Nat /\ decisions'[t] \in Nat
        /\ r.seen[t] <= decisions[t] /\ decisions[t] <= decisions'[t]
    BY <1>1, <1>2 DEF CallRecord, Carries, Forward
  <2>2. CASE Aside(t)
    BY <1>7, <2>1, <2>2
  <2>3. CASE decisions[t] < decisions'[t]
    BY <2>1, <2>3
  <2> QED
    BY <1>7, <2>2, <2>3 DEF Forward
<1>8. ASSUME NEW row \in r.rows, row.status \in Workable, Aside(row.t)'
      PROVE  r.seen[row.t] < decisions'[row.t]
  <2>1. row.t \in Tasks /\ (Aside(row.t) => r.seen[row.t] < decisions[row.t])
    BY <1>1, <1>8 DEF CallRecord, Row, Obeys
  <2> QED
    BY <1>7, <1>8, <2>1
<1>9. r.pc \in {"move", "write"} /\ r.op # "person" /\ Aside(r.t)' => r.seen[r.t] < decisions'[r.t]
  BY <1>1, <1>7 DEF Obeys
<1> QED
  BY <1>6, <1>8, <1>9 DEF Obeys

\* A step of one call: the others carry on.
LEMMA CallsKeep ==
  ASSUME IInv, Tables', Forward, NEW c \in Calls, NEW k, Goto(c, k),
         k = Idle \/ (Carries(k)' /\ Obeys(k)')
  PROVE  CallsInv'
<1>1. /\ call' = [d \in Calls |-> call'[d]] /\ call'[c] = k
      /\ \A d \in Calls : d # c => call'[d] = call[d]
  BY DEF IInv, CallsInv, Goto
<1>2. ASSUME NEW d \in Calls, d # c
      PROVE  call'[d] = Idle \/ (Carries(call[d])' /\ Obeys(call[d])')
  <2>1. PICK r : r = call[d]
    OBVIOUS
  <2>2. r = Idle \/ (Carries(r) /\ Obeys(r))
    BY <2>1 DEF IInv, CallsInv
  <2>3. r = Idle \/ (Carries(r)' /\ Obeys(r)')
    BY <2>2, CarriesOn
  <2>4. call'[d] = r
    BY <1>1, <1>2, <2>1
  <2> QED
    BY <2>3, <2>4 DEF Carries, Obeys
<1>3. call'[c] = Idle \/ (Carries(call[c])' /\ Obeys(call[c])')
  BY <1>1 DEF Carries, Obeys
<1> QED
  BY <1>1, <1>2, <1>3 DEF CallsInv

\* The columns stay as they are.
Still == UNCHANGED <<now, status, attempts, gen, holder, expires, mover, decisions, accepted, runs>>

\* A step that leaves tasks and runs alone is one forward.
LEMMA StillForward ==
  ASSUME IInv, Still, crashes' \in 0..MaxCrashes
  PROVE  Tables' /\ Forward /\ RunsInv'
<1>1. Tables'
  BY DEF IInv, Still, Tables
<1>2. Forward
  BY RunsTyped, QueueAssumption DEF IInv, Still, Tables, Forward, Aside
<1>3. RunsInv'
  BY DEF IInv, Still, RunsInv
<1> QED
  BY <1>1, <1>2, <1>3

\* The account of the attempts allows a claim to end without a run.
LEMMA AttemptsKept ==
  ASSUME IInv, Tables', \A t \in Tasks : Pending(t)' \subseteq Pending(t),
         \A t \in Tasks : RunsOf(t)' = RunsOf(t),
         \A t \in Tasks : decisions'[t] = 0 => decisions[t] = 0 /\ attempts'[t] = attempts[t]
  PROVE  AttemptsInv'
<1>1. ASSUME NEW t \in Tasks
      PROVE  /\ IsFiniteSet(Pending(t)') /\ Cardinality(Pending(t)') \in Nat
             /\ Cardinality(Pending(t)) \in Nat
             /\ Cardinality(Pending(t)') <= Cardinality(Pending(t))
  BY <1>1, FS_Subset, FS_CardinalityType DEF IInv, AttemptsInv
<1>2. ASSUME NEW t \in Tasks
      PROVE  Cardinality(RunsOf(t)) \in Nat
  <2>1. RunsOf(t) \subseteq 1..Len(runs) /\ Len(runs) \in Nat
    BY RunsTyped DEF RunsOf
  <2>2. IsFiniteSet(1..Len(runs))
    BY <2>1, FS_Interval
  <2>3. IsFiniteSet(RunsOf(t))
    BY <2>1, <2>2, FS_Subset
  <2> QED
    BY <2>3, FS_CardinalityType
<1>3. ASSUME NEW t \in Tasks, decisions'[t] = 0
      PROVE  Cardinality(RunsOf(t)') + Cardinality(Pending(t)') <= attempts'[t]
  <2>1. /\ Cardinality(RunsOf(t)) + Cardinality(Pending(t)) <= attempts[t]
        /\ attempts'[t] = attempts[t] /\ attempts[t] \in Nat /\ RunsOf(t)' = RunsOf(t)
    BY <1>3, QueueAssumption DEF IInv, AttemptsInv, Tables
  <2> QED
    BY <1>1, <1>2, <2>1
<1> QED
  BY <1>1, <1>3 DEF AttemptsInv

\* A call that only reads goes on, or gives up.
LEMMA ReadingKeeps ==
  ASSUME IInv, NEW c \in Calls, NEW k, Goto(c, k), Still, crashes' \in 0..MaxCrashes,
         k = Idle \/ (Carries(k) /\ Obeys(k)),
         k.pc \in {"reread", "insert"} => call[c].pc \in {"reread", "insert"} /\ call[c].t = k.t
  PROVE  IInv'
<1>1. Tables' /\ Forward /\ RunsInv'
  BY StillForward
<1>2. k = Idle \/ (Carries(k)' /\ Obeys(k)')
  BY <1>1, CarriesOn
<1>3. CallsInv'
  BY <1>1, <1>2, CallsKeep
<1>4. \A t \in Tasks : Pending(t)' \subseteq Pending(t) /\ RunsOf(t)' = RunsOf(t)
  BY DEF IInv, CallsInv, Goto, Still, Pending, RunsOf
<1>5. AttemptsInv'
  BY <1>1, <1>4, AttemptsKept DEF Still
<1> QED
  BY <1>1, <1>3, <1>5 DEF IInv

\* A call that is idle asks for nothing.
LEMMA EndingKeeps ==
  ASSUME IInv, NEW c \in Calls, Goto(c, Idle), Still, crashes' \in 0..MaxCrashes
  PROVE  IInv'
<1>1. Idle.pc = "idle"
  BY DEF Idle
<1> QED
  BY <1>1, ReadingKeeps

\* A call as it starts.
LEMMA FreshIs ==
  ASSUME IInv, NEW op \in {"person", "reap", "claim", "beat", "start", "complete"},
         NEW w \in Workers \cup {Nobody}
  PROVE  LET k == Fresh(op, w)
         IN  /\ k \in CallRecord /\ k.pc = "start" /\ k.op = op /\ k.w = w /\ k.at = 0
             /\ k.rows = {} /\ k.seen = decisions
<1>1. <<>> \in Seq(TaskStatuses) /\ decisions \in [Tasks -> Nat]
  BY DEF IInv, Tables
<1> QED
  BY <1>1 DEF Fresh, CallRecord

------------------------------------------------------------------------------
(* What calls carry on with. *)

\* A call that is not idle carries what it should.
LEMMA Busy ==
  ASSUME IInv, NEW c \in Calls, NEW pc, pc # "idle", At(c, pc)
  PROVE  Carries(call[c]) /\ Obeys(call[c]) /\ call[c].pc = pc /\ call[c] \in CallRecord
  BY DEF IInv, CallsInv, At, Idle, Carries

\* It moves the task only if it has not been told otherwise.
MayMove(r) == r.t \in Tasks /\ (r.op # "person" /\ Aside(r.t) => r.seen[r.t] < decisions[r.t])

\* A call that has moves left to make carries what it needs for them.
LEMMA ThenKeeps ==
  ASSUME IInv, NEW r, Carries(r), NEW moves \in Seq(TaskStatuses), moves # <<>> => MayMove(r),
         \A row \in r.rows : row.status \in Workable /\ Aside(row.t) => r.seen[row.t] < decisions[row.t]
  PROVE  LET k == Then(r, moves)
         IN  /\ k = Idle \/ (Carries(k) /\ Obeys(k))
             /\ k.pc \notin {"reread", "insert"}
<1> DEFINE k == Then(r, moves)
<1>1. CASE k = Idle
  BY <1>1 DEF Idle
<1>2. CASE k # Idle
  <2>1. /\ k \in CallRecord /\ k.op = r.op /\ k.w = r.w /\ k.at = r.at /\ k.rows = r.rows
        /\ k.gen = r.gen /\ k.run = r.run /\ k.outcome = r.outcome /\ k.seen = r.seen
        /\ \/ k.pc = "move" /\ k.moves # <<>> /\ k.t = r.t /\ moves # <<>>
           \/ k.pc = "reap" /\ Reaps(r)
    BY <1>2, ThenIs DEF Carries
  <2> HIDE DEF k
  <2>2. Carries(k)
    BY <2>1 DEF Carries, MayMove, Reaps
  <2>3. Obeys(k)
    BY <2>1 DEF Obeys, MayMove
  <2> QED
    BY <2>1, <2>2, <2>3 DEF k
<1> QED
  BY <1>1, <1>2

\* What is left of a list of moves after the first.
LEMMA TailOf ==
  ASSUME NEW s \in Seq(TaskStatuses), s # <<>>
  PROVE  Tail(s) \in Seq(TaskStatuses) /\ s[1] \in TaskStatuses
  OBVIOUS

\* Of a call that moves its task.
LEMMA MovingKeeps ==
  ASSUME IInv, NEW r, Carries(r), Obeys(r), r.pc \in {"move", "write"},
         NEW moves \in Seq(TaskStatuses)
  PROVE  LET k == Then(r, moves)
         IN  /\ k = Idle \/ (Carries(k) /\ Obeys(k))
             /\ k.pc \notin {"reread", "insert"}
<1>1. MayMove(r)
  BY DEF Carries, Obeys, MayMove
<1>2. \A row \in r.rows : row.status \in Workable /\ Aside(row.t) => r.seen[row.t] < decisions[row.t]
  BY DEF Obeys
<1> QED
  BY <1>1, <1>2, ThenKeeps

\* A call goes on to write only a move it may make from the status it has read.
LEMMA ReadStatusKeeps ==
  ASSUME IInv, NEW c \in Calls, ReadStatus(c)
  PROVE  IInv'
<1> PICK r : r = call[c]
  OBVIOUS
<1>1. Carries(r) /\ Obeys(r) /\ r.pc = "move" /\ r \in CallRecord
  BY Busy DEF ReadStatus
<1>2. Still /\ crashes' \in 0..MaxCrashes
  BY DEF ReadStatus, columns, Still, IInv, Tables
<1>3. r.moves \in Seq(TaskStatuses) /\ Tail(r.moves) \in Seq(TaskStatuses)
  BY <1>1, TailOf DEF Carries, CallRecord
<1>4. <<"FAILED">> \in Seq(TaskStatuses)
  BY DEF TaskStatuses
<1> DEFINE w == [r EXCEPT !.pc = "write"]
           g == [r EXCEPT !.op = "fail"]
<1>5. \/ Goto(c, Then(r, Tail(r.moves))) \/ Goto(c, w)
      \/ r.op = "complete" /\ Goto(c, Then(g, <<"FAILED">>))
      \/ Goto(c, Idle)
  BY DEF ReadStatus, AfterRefusal
<1>6. Carries(w) /\ Obeys(w) /\ w.pc = "write"
  <2>1. /\ w \in CallRecord /\ w.pc = "write" /\ w.op = r.op /\ w.w = r.w /\ w.at = r.at
        /\ w.rows = r.rows /\ w.t = r.t /\ w.moves = r.moves /\ w.seen = r.seen
    BY <1>1 DEF CallRecord
  <2> HIDE DEF w
  <2> QED
    BY <1>1, <2>1 DEF Carries, Obeys, Reaps
<1>9. ASSUME r.op = "complete"
      PROVE  Carries(g) /\ Obeys(g) /\ g.pc = "move"
  <2>1. /\ g \in CallRecord /\ g.pc = "move" /\ g.op = "fail" /\ g.w = r.w /\ g.at = r.at
        /\ g.rows = r.rows /\ g.t = r.t /\ g.moves = r.moves /\ g.seen = r.seen
    BY <1>1 DEF CallRecord
  <2> HIDE DEF g
  <2> QED
    BY <1>1, <1>9, <2>1 DEF Carries, Obeys, Reaps
<1> HIDE DEF w, g
<1>7. ASSUME NEW k, Goto(c, k), k = Idle \/ (Carries(k) /\ Obeys(k)), k.pc \notin {"reread", "insert"}
      PROVE  IInv'
  BY <1>2, <1>7, ReadingKeeps
<1>8. CASE Goto(c, Idle)
  BY <1>2, <1>8, EndingKeeps
<1> QED
  BY <1>1, <1>3, <1>4, <1>5, <1>6, <1>7, <1>8, <1>9, MovingKeeps

\* A person's call carries the one move that was decided.
LEMMA DecideKeeps ==
  ASSUME IInv, NEW c \in Calls, NEW t \in Tasks, NEW to \in PersonTo, Decide(c, t, to)
  PROVE  IInv'
<1> DEFINE f == Fresh("person", Nobody)
           g == [f EXCEPT !.t = t]
           k == [Then(g, <<to>>) EXCEPT !.pc = "move"]
<1>1. Goto(c, k) /\ Still /\ crashes' \in 0..MaxCrashes
  BY DEF Decide, columns, Still, IInv, Tables
<1>2. /\ f \in CallRecord /\ f.op = "person" /\ f.w = Nobody /\ f.at = 0
      /\ f.rows = {} /\ f.seen = decisions
  BY FreshIs
<1> HIDE DEF f
<1>3. /\ g \in CallRecord /\ g.op = "person" /\ g.w = Nobody /\ g.at = 0
      /\ g.rows = {} /\ g.seen = decisions /\ g.t = t
  BY <1>2 DEF CallRecord
<1> HIDE DEF g
<1>4. <<to>> \in Seq(TaskStatuses) /\ <<to>> # <<>>
  BY QueueAssumption, StatusesAre
<1>5. Then(g, <<to>>) = [g EXCEPT !.pc = "move", !.moves = <<to>>]
  BY <1>4 DEF Then
<1>6. /\ k \in CallRecord /\ k.pc = "move" /\ k.op = "person" /\ k.at = 0 /\ k.rows = {}
      /\ k.seen = decisions /\ k.t = t /\ k.moves = <<to>>
  BY <1>3, <1>4, <1>5 DEF CallRecord
<1> HIDE DEF k
<1>7. Carries(k) /\ Obeys(k)
  <2>1. now \in Nat /\ decisions \in [Tasks -> Nat]
    BY QueueAssumption DEF IInv, Tables
  <2> QED
    BY <1>4, <1>6, <2>1 DEF Carries, Obeys, Reaps
<1> QED
  BY <1>1, <1>6, <1>7, ReadingKeeps

\* Selecting the expired rows changes none of them.
LEMMA SelectExpiredKeeps ==
  ASSUME IInv, NEW c \in Calls, NEW op \in {"reap", "claim"}, NEW w \in Workers \cup {Nobody},
         op = "claim" => w \in Workers, SelectExpired(c, op, w)
  PROVE  IInv'
<1> DEFINE f == Fresh(op, w)
           k == [f EXCEPT !.pc = "reap", !.at = now, !.rows = Snapshot]
<1>1. Goto(c, k) /\ Still /\ crashes' \in 0..MaxCrashes
  BY DEF SelectExpired, columns, Still, IInv, Tables
<1>2. f \in CallRecord /\ f.op = op /\ f.w = w /\ f.seen = decisions
  BY FreshIs
<1>3. Snapshot \subseteq Row
  BY QueueAssumption DEF Snapshot, Row, IInv, Tables
<1>4. \A row \in Snapshot : row.status = status[row.t]
  BY DEF Snapshot
<1>5. now \in Nat /\ decisions \in [Tasks -> Nat]
  BY QueueAssumption DEF IInv, Tables
<1> HIDE DEF f
<1>6. /\ k \in CallRecord /\ k.pc = "reap" /\ k.op = op /\ k.w = w /\ k.at = now
      /\ k.rows = Snapshot /\ k.seen = decisions
  BY <1>2, <1>3, <1>5 DEF CallRecord
<1> HIDE DEF k
<1>7. Carries(k)
  BY <1>5, <1>6 DEF Carries, Reaps
<1>8. Obeys(k)
  BY <1>4, <1>6 DEF Obeys, Aside, Workable
<1> QED
  BY <1>1, <1>6, <1>7, <1>8, ReadingKeeps

\* A row renewed since it was selected is passed over.
LEMMA SkipRenewedKeeps ==
  ASSUME IInv, NEW c \in Calls, SkipRenewed(c)
  PROVE  IInv'
<1> PICK r : r = call[c]
  OBVIOUS
<1>1. Carries(r) /\ Obeys(r) /\ r.pc = "reap" /\ r \in CallRecord
  BY Busy DEF SkipRenewed
<1>2. Still /\ crashes' \in 0..MaxCrashes
  BY DEF SkipRenewed, columns, Still, IInv, Tables
<1>3. PICK row \in r.rows : Goto(c, [r EXCEPT !.rows = @ \ {row}])
  BY DEF SkipRenewed
<1> DEFINE k == [r EXCEPT !.rows = @ \ {row}]
<1>4. /\ k \in CallRecord /\ k.pc = "reap" /\ k.op = r.op /\ k.w = r.w /\ k.at = r.at
      /\ k.rows \subseteq r.rows /\ k.seen = r.seen
  BY <1>1 DEF CallRecord
<1>5. Goto(c, k)
  BY <1>3
<1> HIDE DEF k
<1>6. Carries(k) /\ Obeys(k)
  BY <1>1, <1>4 DEF Carries, Obeys, Reaps
<1> QED
  BY <1>2, <1>4, <1>5, <1>6, ReadingKeeps

\* A reaper with no rows left is over, or goes on to claim.
LEMMA EndReapKeeps ==
  ASSUME IInv, NEW c \in Calls, EndReap(c)
  PROVE  IInv'
<1> PICK r : r = call[c]
  OBVIOUS
<1>1. Carries(r) /\ Obeys(r) /\ r.pc = "reap" /\ r \in CallRecord
  BY Busy DEF EndReap
<1>2. Still /\ crashes' \in 0..MaxCrashes
  BY DEF EndReap, columns, Still, IInv, Tables
<1> DEFINE k == [r EXCEPT !.pc = "take"]
<1>3. Goto(c, Idle) \/ (r.op = "claim" /\ Goto(c, k))
  BY DEF EndReap
<1>4. /\ k \in CallRecord /\ k.pc = "take" /\ k.op = r.op /\ k.w = r.w /\ k.at = r.at
      /\ k.rows = r.rows /\ k.seen = r.seen
  BY <1>1 DEF CallRecord
<1> HIDE DEF k
<1>5. r.op = "claim" => Carries(k) /\ Obeys(k)
  BY <1>1, <1>4 DEF Carries, Obeys, Reaps
<1>6. CASE Goto(c, Idle)
  BY <1>2, <1>6, EndingKeeps
<1> QED
  BY <1>2, <1>3, <1>4, <1>5, <1>6, ReadingKeeps

\* A claim reads its task again; what it has paid for it still owes a run.
LEMMA RereadKeeps ==
  ASSUME IInv, NEW c \in Calls, Reread(c)
  PROVE  IInv'
<1> PICK r : r = call[c]
  OBVIOUS
<1>1. Carries(r) /\ Obeys(r) /\ r.pc = "reread" /\ r \in CallRecord /\ r.t \in Tasks
  BY Busy DEF Reread, Carries
<1>2. Still /\ crashes' \in 0..MaxCrashes
  BY DEF Reread, columns, Still, IInv, Tables
<1> DEFINE k == [r EXCEPT !.pc = "insert", !.gen = gen[r.t]]
<1>3. Goto(c, k)
  BY DEF Reread
<1>4. gen[r.t] \in Nat
  BY <1>1 DEF IInv, Tables
<1>5. /\ k \in CallRecord /\ k.pc = "insert" /\ k.op = r.op /\ k.w = r.w /\ k.at = r.at
      /\ k.rows = r.rows /\ k.seen = r.seen /\ k.t = r.t /\ k.gen = gen[r.t]
  BY <1>1, <1>4 DEF CallRecord
<1> HIDE DEF k
<1>6. Carries(k) /\ Obeys(k)
  BY <1>1, <1>4, <1>5 DEF Carries, Obeys, Reaps
<1> QED
  BY <1>1, <1>2, <1>3, <1>5, <1>6, ReadingKeeps

\* A request about a run of the log.
LEMMA OfRunIs ==
  ASSUME IInv, NEW i \in 1..Len(runs), NEW op \in {"beat", "start", "complete"}
  PROVE  LET k == OfRun(op, i)
         IN  /\ k \in CallRecord /\ k.op = op /\ k.w = runs[i].worker /\ k.at = 0
             /\ k.rows = {} /\ k.seen = decisions /\ k.t = runs[i].t /\ k.gen = runs[i].gen
<1>1. runs[i].worker \in Workers /\ runs[i].t \in Tasks /\ runs[i].gen \in Nat
  BY RunsTyped DEF Run
<1> DEFINE f == Fresh(op, runs[i].worker)
<1>2. /\ f \in CallRecord /\ f.op = op /\ f.w = runs[i].worker /\ f.at = 0
      /\ f.rows = {} /\ f.seen = decisions
  BY <1>1, FreshIs
<1>3. OfRun(op, i) = [f EXCEPT !.t = runs[i].t, !.gen = runs[i].gen]
  BY DEF OfRun
<1> HIDE DEF f
<1> QED
  BY <1>1, <1>2, <1>3 DEF CallRecord

\* A heartbeat is on its way with the generation of its run.
LEMMA HeartbeatKeeps ==
  ASSUME IInv, NEW c \in Calls, NEW i \in DOMAIN runs, Heartbeat(c, i)
  PROVE  IInv'
<1>0. i \in 1..Len(runs)
  BY RunsTyped
<1> DEFINE f == OfRun("beat", i)
           k == [f EXCEPT !.pc = "renew", !.at = now]
<1>1. Goto(c, k) /\ Still /\ crashes' \in 0..MaxCrashes
  BY DEF Heartbeat, Pass, columns, Still, IInv, Tables
<1>2. f \in CallRecord /\ f.op = "beat" /\ f.rows = {} /\ f.seen = decisions /\ f.t \in Tasks
  BY <1>0, OfRunIs, RunsTyped DEF Run
<1>3. now \in Nat /\ decisions \in [Tasks -> Nat]
  BY QueueAssumption DEF IInv, Tables
<1> HIDE DEF f
<1>4. /\ k \in CallRecord /\ k.pc = "renew" /\ k.op = "beat" /\ k.at = now
      /\ k.rows = {} /\ k.seen = decisions /\ k.t \in Tasks
  BY <1>2, <1>3 DEF CallRecord
<1> HIDE DEF k
<1>5. Carries(k) /\ Obeys(k)
  BY <1>3, <1>4 DEF Carries, Obeys, Reaps
<1> QED
  BY <1>1, <1>4, <1>5, ReadingKeeps

\* So is a start.
LEMMA StartRunKeeps ==
  ASSUME IInv, NEW c \in Calls, NEW i \in DOMAIN runs, StartRun(c, i)
  PROVE  IInv'
<1>0. i \in 1..Len(runs)
  BY RunsTyped
<1> DEFINE f == OfRun("start", i)
           k == Then(f, <<"BUILDING">>)
<1>1. Goto(c, k) /\ Still /\ crashes' \in 0..MaxCrashes /\ status[runs[i].t] = "SPEC_READY"
  BY DEF StartRun, Pass, columns, Still, IInv, Tables
<1>2. /\ f \in CallRecord /\ f.op = "start" /\ f.at = 0 /\ f.rows = {} /\ f.seen = decisions
      /\ f.t \in Tasks /\ f.t = runs[i].t
  BY <1>0, OfRunIs, RunsTyped DEF Run
<1> HIDE DEF f
<1>3. <<"BUILDING">> \in Seq(TaskStatuses) /\ <<"BUILDING">> # <<>>
  BY DEF TaskStatuses
<1>4. k = [f EXCEPT !.pc = "move", !.moves = <<"BUILDING">>]
  BY <1>3 DEF Then
<1>5. /\ k \in CallRecord /\ k.pc = "move" /\ k.op = "start" /\ k.at = 0 /\ k.moves = <<"BUILDING">>
      /\ k.rows = {} /\ k.seen = decisions /\ k.t \in Tasks /\ k.t = runs[i].t
  BY <1>2, <1>3, <1>4 DEF CallRecord
<1> HIDE DEF k
<1>6. Carries(k)
  <2>1. now \in Nat /\ decisions \in [Tasks -> Nat]
    BY QueueAssumption DEF IInv, Tables
  <2> QED
    BY <1>3, <1>5, <2>1 DEF Carries, Reaps
<1>7. Obeys(k)
  BY <1>1, <1>5 DEF Obeys, Aside
<1> QED
  BY <1>1, <1>5, <1>6, <1>7, ReadingKeeps

\* So is a result.
LEMMA CompleteKeeps ==
  ASSUME IInv, NEW c \in Calls, NEW i \in DOMAIN runs, NEW o \in Outcomes, Complete(c, i, o)
  PROVE  IInv'
<1>0. i \in 1..Len(runs)
  BY RunsTyped
<1> DEFINE f == OfRun("complete", i)
           k == [f EXCEPT !.pc = "settle", !.run = i, !.outcome = o, !.attempts = attempts[runs[i].t]]
<1>1. Goto(c, k) /\ Still /\ crashes' \in 0..MaxCrashes
  BY DEF Complete, Pass, columns, Still, IInv, Tables
<1>2. /\ f \in CallRecord /\ f.op = "complete" /\ f.at = 0 /\ f.rows = {} /\ f.seen = decisions
      /\ f.t = runs[i].t /\ f.gen = runs[i].gen /\ f.w = runs[i].worker
      /\ runs[i].t \in Tasks /\ runs[i].worker \in Workers
  BY <1>0, OfRunIs, RunsTyped DEF Run
<1>3. now \in Nat /\ decisions \in [Tasks -> Nat] /\ attempts[runs[i].t] \in Nat /\ i \in Nat
  BY <1>0, <1>2, QueueAssumption, RunsTyped DEF IInv, Tables
<1> HIDE DEF f
<1>4. /\ k \in CallRecord /\ k.pc = "settle" /\ k.op = "complete" /\ k.at = 0 /\ k.rows = {}
      /\ k.seen = decisions /\ k.t = runs[i].t /\ k.gen = runs[i].gen /\ k.w = runs[i].worker
      /\ k.run = i /\ k.outcome = o
  BY <1>2, <1>3 DEF CallRecord
<1> HIDE DEF k
<1>5. Carries(k) /\ Obeys(k)
  BY <1>0, <1>2, <1>3, <1>4 DEF Carries, Obeys, Reaps
<1> QED
  BY <1>1, <1>4, <1>5, ReadingKeeps

\* QueueEmpty, RefuseStale, Crash.
LEMMA GivingUpKeeps ==
  ASSUME IInv, NEW c \in Calls, QueueEmpty(c) \/ RefuseStale(c) \/ Crash(c)
  PROVE  IInv'
<1>1. Goto(c, Idle) /\ Still
  BY DEF QueueEmpty, RefuseStale, Crash, columns, Still
<1>2. crashes' \in 0..MaxCrashes
  BY QueueAssumption DEF QueueEmpty, RefuseStale, Crash, IInv, Tables
<1> QED
  BY <1>1, <1>2, EndingKeeps

------------------------------------------------------------------------------
(* The calls that write. *)

\* Who moves a task put aside has begun before that.
LEMMA WriteStatusKeeps ==
  ASSUME IInv, NEW c \in Calls, WriteStatus(c)
  PROVE  IInv'
<1> PICK r : r = call[c]
  OBVIOUS
<1>1. Carries(r) /\ Obeys(r) /\ r.pc = "write" /\ r \in CallRecord /\ r.t \in Tasks
  BY Busy DEF WriteStatus, Carries
<1> PICK k : k = Then(r, Tail(r.moves))
  OBVIOUS
<1>2. r.moves \in Seq(TaskStatuses) /\ Tail(r.moves) \in Seq(TaskStatuses) /\ r.moves[1] \in TaskStatuses
  BY <1>1, TailOf DEF Carries, CallRecord
<1>3. (k = Idle \/ (Carries(k) /\ Obeys(k))) /\ k.pc \notin {"reread", "insert"}
  BY <1>1, <1>2, MovingKeeps
<1>4. /\ status' = [status EXCEPT ![r.t] = r.moves[1]] /\ mover' = [mover EXCEPT ![r.t] = Kind(r)]
      /\ decisions' = IF Kind(r) = "HUMAN" THEN [decisions EXCEPT ![r.t] = @ + 1] ELSE decisions
      /\ attempts' = IF Kind(r) = "HUMAN" /\ r.moves[1] = "SPEC_READY"
                     THEN [attempts EXCEPT ![r.t] = 0] ELSE attempts
      /\ Goto(c, k)
      /\ UNCHANGED <<now, gen, holder, expires, accepted, runs, crashes>>
  BY DEF WriteStatus
<1>5. Kind(r) \in {"HUMAN", "SYSTEM"}
  BY DEF Kind
<1>6. Tables
  BY DEF IInv
<1>7. Tables'
  <2>1. status' \in [Tasks -> TaskStatuses]
    BY <1>1, <1>2, <1>4, <1>6 DEF Tables
  <2>2. mover' \in [Tasks -> {"HUMAN", "SYSTEM"}]
    BY <1>1, <1>4, <1>5, <1>6 DEF Tables
  <2>3. decisions' \in [Tasks -> Nat]
    <3>1. decisions \in [Tasks -> Nat] /\ decisions[r.t] + 1 \in Nat
      BY <1>1, <1>6 DEF Tables
    <3>2. CASE Kind(r) = "HUMAN"
      <4>1. decisions' = [decisions EXCEPT ![r.t] = decisions[r.t] + 1]
        BY <1>4, <3>2
      <4> QED
        BY <3>1, <4>1
    <3>3. CASE Kind(r) # "HUMAN"
      BY <1>4, <3>1, <3>3
    <3> QED
      BY <3>2, <3>3
  <2>4. attempts' \in [Tasks -> 0..MaxAttempts]
    BY <1>1, <1>4, <1>6, QueueAssumption DEF Tables
  <2> QED
    BY <1>4, <1>6, <2>1, <2>2, <2>3, <2>4 DEF Tables
<1>8. \A t \in Tasks : /\ decisions[t] <= decisions'[t]
                       /\ Aside(t)' => Aside(t) \/ decisions[t] < decisions'[t]
                       /\ decisions'[t] = 0 => decisions[t] = 0 /\ attempts'[t] = attempts[t]
  <2> TAKE t \in Tasks
  <2>1. decisions[t] \in Nat
    BY <1>6 DEF Tables
  <2>2. CASE t # r.t
    <3>1. status'[t] = status[t] /\ mover'[t] = mover[t] /\ decisions'[t] = decisions[t] /\ attempts'[t] = attempts[t]
      BY <1>4, <1>6, <2>2 DEF Tables
    <3> QED
      BY <2>1, <3>1 DEF Aside
  <2>3. CASE t = r.t /\ Kind(r) = "HUMAN"
    <3>1. decisions'[t] = decisions[t] + 1
      BY <1>4, <1>6, <2>3 DEF Tables
    <3> QED
      BY <2>1, <3>1
  <2>4. CASE t = r.t /\ Kind(r) # "HUMAN"
    <3>1. mover'[t] = "SYSTEM" /\ decisions'[t] = decisions[t] /\ attempts'[t] = attempts[t]
      BY <1>4, <1>5, <1>6, <2>4 DEF Tables
    <3> QED
      BY <2>1, <3>1 DEF Aside
  <2> QED
    BY <2>2, <2>3, <2>4
<1>9. Forward
  <2>1. now \in Nat /\ gen \in [Tasks -> Nat]
    BY <1>6, QueueAssumption DEF Tables
  <2> QED
    BY <1>4, <1>8, <2>1, RunsTyped DEF Forward
<1>10. CallsInv'
  <2>1. k = Idle \/ (Carries(k)' /\ Obeys(k)')
    BY <1>3, <1>7, <1>9, CarriesOn
  <2> QED
    BY <1>4, <1>7, <1>9, <2>1, CallsKeep
<1>11. RunsInv'
  BY <1>4 DEF IInv, RunsInv
<1>12. AttemptsInv'
  <2>1. \A t \in Tasks : RunsOf(t)' = RunsOf(t)
    BY <1>4 DEF RunsOf
  <2>2. \A t \in Tasks : Pending(t)' \subseteq Pending(t)
    BY <1>3, <1>4 DEF IInv, CallsInv, Goto, Pending
  <2> QED
    BY <1>7, <1>8, <2>1, <2>2, AttemptsKept
<1> QED
  BY <1>7, <1>10, <1>11, <1>12 DEF IInv

\* The reaper takes the next generation and closes the runs of the last one.
LEMMA ReleaseExpiredKeeps ==
  ASSUME IInv, NEW c \in Calls, ReleaseExpired(c)
  PROVE  IInv'
<1> PICK r : r = call[c]
  OBVIOUS
<1>1. Carries(r) /\ Obeys(r) /\ r.pc = "reap" /\ r \in CallRecord
  BY Busy DEF ReleaseExpired
<1> PICK row \in r.rows :
      /\ StillReapable(row, r.at)
      /\ holder' = [holder EXCEPT ![row.t] = Nobody]
      /\ gen' = [gen EXCEPT ![row.t] = @ + 1]
      /\ runs' = Closed({i \in DOMAIN runs : runs[i].t = row.t /\ runs[i].gen = row.gen}, "FAILED")
      /\ Goto(c, Then([r EXCEPT !.t = row.t, !.rows = @ \ {row}], ReapMoves(row)))
  BY DEF ReleaseExpired
<1> PICK ids : ids = {i \in DOMAIN runs : runs[i].t = row.t /\ runs[i].gen = row.gen}
  OBVIOUS
<1>2. row \in Row /\ row.t \in Tasks /\ row.gen = gen[row.t]
  BY <1>1 DEF CallRecord, Row, StillReapable
<1> DEFINE q == [r EXCEPT !.t = row.t, !.rows = @ \ {row}]
<1>3. /\ q \in CallRecord /\ q.pc = "reap" /\ q.op = r.op /\ q.w = r.w /\ q.at = r.at
      /\ q.rows \subseteq r.rows /\ q.seen = r.seen /\ q.t = row.t
  BY <1>1, <1>2 DEF CallRecord
<1> PICK k : k = Then(q, ReapMoves(row))
  OBVIOUS
<1>4. Goto(c, k) /\ UNCHANGED <<now, status, attempts, expires, mover, decisions, accepted, crashes>>
  BY DEF ReleaseExpired
<1> HIDE DEF q
<1>5. (k = Idle \/ (Carries(k) /\ Obeys(k))) /\ k.pc \notin {"reread", "insert"}
  <2>1. Carries(q)
    BY <1>1, <1>3 DEF Carries, Reaps
  <2>2. ReapMoves(row) \in Seq(TaskStatuses) /\ (ReapMoves(row) # <<>> => row.status \in Workable)
    <3>1. /\ <<>> \in Seq(TaskStatuses) /\ <<"SPEC_READY">> \in Seq(TaskStatuses)
          /\ <<"FAILED">> \in Seq(TaskStatuses) /\ <<"BUILDING", "FAILED">> \in Seq(TaskStatuses)
      BY DEF TaskStatuses
    <3>2. CASE row.status \notin Workable
      <4>1. ReapMoves(row) = <<>>
        BY <3>2 DEF ReapMoves
      <4> QED
        BY <3>1, <4>1
    <3>3. CASE row.status \in Workable
      <4>1. ReapMoves(row) \in {<<>>, <<"SPEC_READY">>, <<"FAILED">>, <<"BUILDING", "FAILED">>}
        BY <3>3 DEF ReapMoves
      <4> QED
        BY <3>1, <3>3, <4>1
    <3> QED
      BY <3>2, <3>3
  <2>3. \A x \in r.rows : x.status \in Workable /\ Aside(x.t) => r.seen[x.t] < decisions[x.t]
    BY <1>1 DEF Obeys
  <2>4. ReapMoves(row) # <<>> => MayMove(q)
    BY <1>2, <1>3, <2>2, <2>3 DEF MayMove
  <2>5. \A x \in q.rows : x.status \in Workable /\ Aside(x.t) => q.seen[x.t] < decisions[x.t]
    BY <1>3, <2>3
  <2> QED
    BY <2>1, <2>2, <2>4, <2>5, ThenKeeps
<1>6. Tables
  BY DEF IInv
<1>7. /\ runs' = Closed(ids, "FAILED") /\ runs' \in Seq(Run) /\ Len(runs') = Len(runs)
      /\ \A i \in 1..Len(runs) :
           /\ runs'[i].t = runs[i].t /\ runs'[i].gen = runs[i].gen
           /\ runs'[i].status = IF i \in ids /\ runs[i].status = "RUNNING" THEN "FAILED" ELSE runs[i].status
  BY ClosedRuns DEF RunStatuses
<1>8. Tables'
  BY <1>2, <1>4, <1>6, <1>7, SMTT(30) DEF Tables
<1>9. \A t \in Tasks : /\ gen[t] \in Nat /\ gen'[t] = IF t = row.t THEN gen[t] + 1 ELSE gen[t]
                       /\ t # row.t => holder'[t] = holder[t]
  BY <1>2, <1>6 DEF Tables
<1>10. Forward
  <2>1. now \in Nat /\ decisions \in [Tasks -> Nat]
    BY <1>6, QueueAssumption DEF Tables
  <2>2. /\ now <= now' /\ \A t \in Tasks : decisions[t] <= decisions'[t] /\ (Aside(t)' => Aside(t))
    BY <1>4, <2>1 DEF Aside
  <2>3. /\ Len(runs) <= Len(runs') /\ Len(runs') \in Nat
        /\ \A i \in 1..Len(runs) : runs'[i].t = runs[i].t /\ runs'[i].gen = runs[i].gen
    BY <1>7, RunsTyped
  <2>4. \A t \in Tasks : gen[t] <= gen'[t]
    BY <1>9
  <2> QED
    BY <2>2, <2>3, <2>4 DEF Forward
<1>11. CallsInv'
  <2>1. k = Idle \/ (Carries(k)' /\ Obeys(k)')
    BY <1>5, <1>8, <1>10, CarriesOn
  <2> QED
    BY <1>4, <1>8, <1>10, <2>1, CallsKeep
<1>12. RunsInv'
  <2>1. ASSUME NEW i \in 1..Len(runs)
        PROVE  /\ runs'[i].gen <= gen'[runs'[i].t]
               /\ runs'[i].status # "RUNNING" /\ runs'[i].gen = gen'[runs'[i].t] => holder'[runs'[i].t] = Nobody
    <3>1. /\ runs[i].t \in Tasks /\ runs[i].gen \in Nat /\ runs[i].gen <= gen[runs[i].t]
          /\ runs[i].status # "RUNNING" /\ runs[i].gen = gen[runs[i].t] => holder[runs[i].t] = Nobody
      BY RunsTyped DEF IInv, RunsInv, Run
    <3>2. /\ runs'[i].t = runs[i].t /\ runs'[i].gen = runs[i].gen
          /\ i \notin ids => runs'[i].status = runs[i].status
      BY <1>7
    <3>3. CASE runs[i].t = row.t
      <4>1. gen[runs[i].t] \in Nat /\ gen'[runs[i].t] = gen[runs[i].t] + 1
        BY <1>9, <3>1, <3>3
      <4>2. runs[i].gen <= gen'[runs[i].t] /\ runs[i].gen # gen'[runs[i].t]
        BY <3>1, <4>1
      <4> QED
        BY <3>2, <4>2
    <3>4. CASE runs[i].t # row.t
      <4>1. i \notin ids
        BY <3>4
      <4>2. gen'[runs[i].t] = gen[runs[i].t] /\ holder'[runs[i].t] = holder[runs[i].t]
        BY <1>9, <3>1, <3>4
      <4> QED
        BY <3>1, <3>2, <4>1, <4>2
    <3> QED
      BY <3>3, <3>4
  <2> QED
    BY <1>7, <2>1 DEF RunsInv
<1>13. AttemptsInv'
  <2>1. \A t \in Tasks : RunsOf(t)' = RunsOf(t)
    <3>1. DOMAIN runs' = 1..Len(runs) /\ DOMAIN runs = 1..Len(runs)
      BY <1>7, LenProperties, RunsTyped
    <3> QED
      BY <1>7, <3>1 DEF RunsOf
  <2>2. \A t \in Tasks : Pending(t)' \subseteq Pending(t)
    BY <1>4, <1>5 DEF IInv, CallsInv, Goto, Pending
  <2> QED
    BY <1>4, <1>8, <2>1, <2>2, AttemptsKept
<1> QED
  BY <1>8, <1>11, <1>12, <1>13 DEF IInv

\* The runs of a task can be counted.
LEMMA RunsCount ==
  ASSUME IInv, NEW t \in Tasks
  PROVE  IsFiniteSet(RunsOf(t)) /\ Cardinality(RunsOf(t)) \in Nat /\ RunsOf(t) \subseteq 1..Len(runs)
<1>1. RunsOf(t) \subseteq 1..Len(runs) /\ Len(runs) \in Nat
  BY RunsTyped DEF RunsOf
<1>2. IsFiniteSet(1..Len(runs))
  BY <1>1, FS_Interval
<1>3. IsFiniteSet(RunsOf(t))
  BY <1>1, <1>2, FS_Subset
<1> QED
  BY <1>1, <1>3, FS_CardinalityType

\* The claims that owe a run can be counted.
LEMMA PendingCount ==
  ASSUME IInv, NEW t \in Tasks
  PROVE  IsFiniteSet(Pending(t)) /\ Cardinality(Pending(t)) \in Nat
  BY FS_CardinalityType DEF IInv, AttemptsInv

\* A claim takes the next generation, and pays for it with an attempt.
LEMMA TakeKeeps ==
  ASSUME IInv, NEW c \in Calls, Take(c)
  PROVE  IInv'
<1> PICK r : r = call[c]
  OBVIOUS
<1>1. Carries(r) /\ Obeys(r) /\ r.pc = "take" /\ r \in CallRecord /\ r.w \in Workers
  BY Busy DEF Take, Carries
<1> PICK t \in Tasks :
      /\ Claimable(t, r.at)
      /\ holder' = [holder EXCEPT ![t] = r.w] /\ expires' = [expires EXCEPT ![t] = r.at + Lease]
      /\ gen' = [gen EXCEPT ![t] = @ + 1] /\ attempts' = [attempts EXCEPT ![t] = @ + 1]
      /\ Goto(c, [r EXCEPT !.pc = "reread", !.t = t])
  BY DEF Take
<1> PICK k : k = [r EXCEPT !.pc = "reread", !.t = t]
  OBVIOUS
<1>2. /\ k \in CallRecord /\ k.pc = "reread" /\ k.op = r.op /\ k.w = r.w /\ k.at = r.at
      /\ k.rows = r.rows /\ k.seen = r.seen /\ k.t = t
  BY <1>1 DEF CallRecord
<1>3. Goto(c, k) /\ UNCHANGED <<now, status, mover, decisions, accepted, runs, crashes>>
  BY DEF Take
<1>4. Carries(k) /\ Obeys(k)
  BY <1>1, <1>2 DEF Carries, Obeys, Reaps
<1>5. Tables
  BY DEF IInv
<1>6. \A q \in Tasks : /\ gen[q] \in Nat /\ gen'[q] = IF q = t THEN gen[q] + 1 ELSE gen[q]
                       /\ attempts[q] \in Nat
                       /\ attempts'[q] = IF q = t THEN attempts[q] + 1 ELSE attempts[q]
                       /\ q # t => holder'[q] = holder[q]
  BY <1>5, QueueAssumption, SMTT(30) DEF Tables
<1>7. Tables'
  <2>1. attempts[t] < MaxAttempts /\ r.at + Lease \in Nat
    BY <1>1, QueueAssumption DEF Claimable, CallRecord
  <2> QED
    <3>1. attempts' \in [Tasks -> 0..MaxAttempts]
      BY <1>5, <2>1, QueueAssumption, SMTT(30) DEF Tables
    <3>2. gen' \in [Tasks -> Nat] /\ expires' \in [Tasks -> Nat]
      BY <1>5, <2>1 DEF Tables
    <3>3. holder' \in [Tasks -> Workers \cup {Nobody}]
      BY <1>1, <1>5 DEF Tables
    <3> QED
      BY <1>3, <1>5, <3>1, <3>2, <3>3 DEF Tables
<1>8. Forward
  <2>1. now \in Nat /\ decisions \in [Tasks -> Nat]
    BY <1>5, QueueAssumption DEF Tables
  <2> QED
    BY <1>3, <1>6, <2>1, RunsTyped DEF Forward, Aside
<1>9. CallsInv'
  <2>1. Carries(k)' /\ Obeys(k)'
    BY <1>4, <1>7, <1>8, CarriesOn
  <2> QED
    BY <1>3, <1>7, <1>8, <2>1, CallsKeep
<1>10. RunsInv'
  <2>1. ASSUME NEW i \in 1..Len(runs)
        PROVE  /\ runs[i].gen <= gen'[runs[i].t]
               /\ runs[i].status # "RUNNING" /\ runs[i].gen = gen'[runs[i].t] => holder'[runs[i].t] = Nobody
    <3>1. /\ runs[i].t \in Tasks /\ runs[i].gen \in Nat /\ runs[i].gen <= gen[runs[i].t]
          /\ runs[i].status # "RUNNING" /\ runs[i].gen = gen[runs[i].t] => holder[runs[i].t] = Nobody
      BY RunsTyped DEF IInv, RunsInv, Run
    <3> QED
      BY <1>6, <3>1
  <2> QED
    BY <1>3, <2>1 DEF RunsInv
<1>11. AttemptsInv'
  <2>1. ASSUME NEW q \in Tasks
        PROVE  /\ IsFiniteSet(Pending(q)')
               /\ decisions'[q] = 0 => Cardinality(RunsOf(q)') + Cardinality(Pending(q)') <= attempts'[q]
    <3>1. RunsOf(q)' = RunsOf(q) /\ decisions'[q] = decisions[q]
      BY <1>3 DEF RunsOf
    <3>2. decisions[q] = 0 => Cardinality(RunsOf(q)) + Cardinality(Pending(q)) <= attempts[q]
      BY DEF IInv, AttemptsInv
    <3>3. CASE q = t
      <4>1. Pending(q)' = Pending(q) \cup {c} /\ c \notin Pending(q)
        BY <1>1, <1>2, <1>3, <3>3 DEF IInv, CallsInv, Goto, Pending
      <4>2. IsFiniteSet(Pending(q)') /\ Cardinality(Pending(q)') = Cardinality(Pending(q)) + 1
        BY <4>1, PendingCount, FS_AddElement
      <4> QED
        BY <1>6, <3>1, <3>2, <3>3, <4>2, PendingCount, RunsCount
    <3>4. CASE q # t
      <4>1. Pending(q)' = Pending(q)
        BY <1>1, <1>2, <1>3, <3>4 DEF IInv, CallsInv, Goto, Pending
      <4> QED
        BY <1>6, <3>1, <3>2, <3>4, <4>1, PendingCount
    <3> QED
      BY <3>3, <3>4
  <2> QED
    BY <2>1 DEF AttemptsInv
<1> QED
  BY <1>7, <1>9, <1>10, <1>11 DEF IInv

\* The claim ends with the run it inserts, or gives the lease back.
LEMMA PendingWithout ==
  ASSUME IInv, NEW c \in Calls, At(c, "insert"), Goto(c, Idle)
  PROVE  /\ call[c].t \in Tasks
         /\ \A t \in Tasks : Pending(t)' = Pending(t) \ {c}
         /\ \A t \in Tasks :
              IF t = call[c].t
              THEN IsFiniteSet(Pending(t)') /\ Cardinality(Pending(t)') = Cardinality(Pending(t)) - 1
              ELSE Pending(t)' = Pending(t)
<1>1. call[c].t \in Tasks /\ call[c].pc = "insert"
  BY Busy DEF Carries
<1>2. \A d \in Calls : call'[d] = IF d = c THEN Idle ELSE call[d]
  BY DEF IInv, CallsInv, Goto
<1>3. Idle.pc = "idle"
  BY DEF Idle
<1>4. \A t \in Tasks : Pending(t)' = Pending(t) \ {c}
  BY <1>2, <1>3 DEF Pending
<1>5. ASSUME NEW t \in Tasks, t = call[c].t
      PROVE  IsFiniteSet(Pending(t)') /\ Cardinality(Pending(t)') = Cardinality(Pending(t)) - 1
  <2>1. c \in Pending(t)
    BY <1>1, <1>5 DEF Pending
  <2>2. IsFiniteSet(Pending(t))
    BY PendingCount
  <2>3. IsFiniteSet(Pending(t) \ {c}) /\ Cardinality(Pending(t) \ {c}) = Cardinality(Pending(t)) - 1
    BY <2>1, <2>2, FS_RemoveElement
  <2> QED
    BY <1>4, <2>3
<1>6. ASSUME NEW t \in Tasks, t # call[c].t
      PROVE  Pending(t)' = Pending(t)
  BY <1>4, <1>6 DEF Pending
<1> QED
  BY <1>1, <1>4, <1>5, <1>6

\* The run a claim inserts is the one it has paid for.
LEMMA InsertRunKeeps ==
  ASSUME IInv, NEW c \in Calls, InsertRun(c)
  PROVE  IInv'
<1> PICK r : r = call[c]
  OBVIOUS
<1>1. Carries(r) /\ r.pc = "insert" /\ r \in CallRecord /\ r.t \in Tasks /\ r.w \in Workers
      /\ r.gen \in Nat /\ r.gen <= gen[r.t]
  BY Busy DEF InsertRun, Carries, CallRecord
<1> PICK e : e = [t |-> r.t, worker |-> r.w, gen |-> r.gen, status |-> "RUNNING"]
  OBVIOUS
<1>2. e \in Run /\ e.t = r.t /\ e.gen = r.gen /\ e.status = "RUNNING"
  BY <1>1 DEF Run, RunStatuses
<1>3. runs' = Append(runs, e) /\ Goto(c, Idle)
      /\ UNCHANGED <<now, status, attempts, gen, holder, expires, mover, decisions, accepted, crashes>>
  BY DEF InsertRun, columns
<1>4. /\ runs' \in Seq(Run) /\ Len(runs') = Len(runs) + 1 /\ runs'[Len(runs) + 1] = e
      /\ \A i \in 1..Len(runs) : runs'[i] = runs[i]
      /\ Len(runs) \in Nat
  BY <1>2, <1>3, RunsTyped, AppendProperties
<1>5. Tables'
  BY <1>3, <1>4 DEF IInv, Tables
<1>6. Forward
  <2>1. now \in Nat /\ gen \in [Tasks -> Nat] /\ decisions \in [Tasks -> Nat]
    BY QueueAssumption DEF IInv, Tables
  <2> QED
    BY <1>3, <1>4, <2>1 DEF Forward, Aside
<1>7. CallsInv'
  BY <1>3, <1>5, <1>6, CallsKeep
<1>8. RunsInv'
  <2>1. ASSUME NEW i \in 1..Len(runs')
        PROVE  /\ runs'[i].gen <= gen[runs'[i].t]
               /\ runs'[i].status # "RUNNING" /\ runs'[i].gen = gen[runs'[i].t]
                    => holder[runs'[i].t] = Nobody
    <3>1. CASE i \in 1..Len(runs)
      BY <1>4, <3>1 DEF IInv, RunsInv
    <3>2. CASE i = Len(runs) + 1
      BY <1>1, <1>2, <1>4, <3>2
    <3> QED
      BY <1>4, <3>1, <3>2
  <2> QED
    BY <1>3, <2>1 DEF RunsInv
<1>9. AttemptsInv'
  <2>1. ASSUME NEW t \in Tasks
        PROVE  /\ IsFiniteSet(Pending(t)')
               /\ decisions'[t] = 0 => Cardinality(RunsOf(t)') + Cardinality(Pending(t)') <= attempts'[t]
    <3>1. decisions[t] = 0 => Cardinality(RunsOf(t)) + Cardinality(Pending(t)) <= attempts[t]
      BY DEF IInv, AttemptsInv
    <3>2. DOMAIN runs = 1..Len(runs) /\ DOMAIN runs' = 1..Len(runs) \cup {Len(runs) + 1}
      BY <1>4, RunsTyped, LenProperties
    <3>3. /\ IsFiniteSet(RunsOf(t)) /\ Cardinality(RunsOf(t)) \in Nat /\ RunsOf(t) \subseteq 1..Len(runs)
          /\ IsFiniteSet(Pending(t)) /\ Cardinality(Pending(t)) \in Nat
      BY RunsCount, PendingCount
    <3>4. attempts[t] \in Nat
      BY QueueAssumption DEF IInv, Tables
    <3>5. CASE t = r.t
      <4>1. RunsOf(t)' = RunsOf(t) \cup {Len(runs) + 1}
        BY <1>2, <1>4, <3>2, <3>5 DEF RunsOf
      <4>2. Len(runs) + 1 \notin RunsOf(t)
        BY <1>4, <3>3
      <4>3. Cardinality(RunsOf(t)') = Cardinality(RunsOf(t)) + 1
        BY <3>3, <4>1, <4>2, FS_AddElement
      <4>4. IsFiniteSet(Pending(t)') /\ Cardinality(Pending(t)') = Cardinality(Pending(t)) - 1
        BY <1>1, <1>3, <3>5, PendingWithout DEF At
      <4> QED
        BY <1>3, <3>1, <3>3, <3>4, <4>3, <4>4
    <3>6. CASE t # r.t
      <4>1. RunsOf(t)' = RunsOf(t)
        BY <1>2, <1>4, <3>2, <3>6 DEF RunsOf
      <4>2. Pending(t)' = Pending(t)
        BY <1>1, <1>3, <3>6, PendingWithout DEF At
      <4> QED
        BY <1>3, <3>1, <3>3, <4>1, <4>2
    <3> QED
      BY <3>5, <3>6
  <2> QED
    BY <2>1 DEF AttemptsInv
<1> QED
  BY <1>5, <1>7, <1>8, <1>9 DEF IInv

\* An attempt given back is that of a claim that inserts no run.
LEMMA GiveBackKeeps ==
  ASSUME IInv, NEW c \in Calls, GiveBack(c)
  PROVE  IInv'
<1> PICK r : r = call[c]
  OBVIOUS
<1>1. r.pc = "insert" /\ r.t \in Tasks
  BY Busy DEF GiveBack, Carries
<1>2. Goto(c, Idle) /\ UNCHANGED <<now, status, gen, expires, mover, decisions, accepted, runs, crashes>>
  BY DEF GiveBack
<1>3. \/ UNCHANGED <<holder, attempts>>
      \/ /\ holder' = [holder EXCEPT ![r.t] = Nobody]
         /\ attempts' = [attempts EXCEPT ![r.t] = IF @ = 0 THEN 0 ELSE @ - 1]
  BY DEF GiveBack
<1>4. Tables /\ attempts[r.t] \in 0..MaxAttempts /\ attempts[r.t] \in Nat
  BY <1>1, QueueAssumption DEF IInv, Tables
<1>5. \A t \in Tasks : /\ t # r.t => attempts'[t] = attempts[t]
                       /\ attempts'[t] \in Nat
                       /\ attempts[t] \in Nat
                       /\ attempts[t] - 1 <= attempts'[t]
                       /\ holder'[t] = holder[t] \/ holder'[t] = Nobody
  <2>1. /\ holder \in [Tasks -> Workers \cup {Nobody}] /\ attempts \in [Tasks -> 0..MaxAttempts]
        /\ \A t \in Tasks : attempts[t] \in Nat
    BY <1>4, QueueAssumption DEF Tables
  <2>2. CASE UNCHANGED <<holder, attempts>>
    BY <2>1, <2>2
  <2>3. CASE /\ holder' = [holder EXCEPT ![r.t] = Nobody]
             /\ attempts' = [attempts EXCEPT ![r.t] = IF @ = 0 THEN 0 ELSE @ - 1]
    <3>1. attempts'[r.t] = IF attempts[r.t] = 0 THEN 0 ELSE attempts[r.t] - 1
      BY <1>1, <2>1, <2>3
    <3>2. attempts'[r.t] \in Nat /\ attempts[r.t] - 1 <= attempts'[r.t]
      BY <1>4, <3>1
    <3>3. \A t \in Tasks : t # r.t => attempts'[t] = attempts[t]
      BY <2>1, <2>3
    <3>4. \A t \in Tasks : holder'[t] = holder[t] \/ holder'[t] = Nobody
      BY <2>1, <2>3
    <3> QED
      BY <2>1, <3>2, <3>3, <3>4
  <2> QED
    BY <1>3, <2>2, <2>3
<1>6. Tables'
  <2>1. attempts' \in [Tasks -> 0..MaxAttempts]
    <3>1. CASE UNCHANGED attempts
      BY <1>4, <3>1 DEF Tables
    <3>2. CASE attempts' = [attempts EXCEPT ![r.t] = IF @ = 0 THEN 0 ELSE @ - 1]
      <4>1. (IF attempts[r.t] = 0 THEN 0 ELSE attempts[r.t] - 1) \in 0..MaxAttempts
        BY <1>4, QueueAssumption
      <4> QED
        BY <1>4, <3>2, <4>1 DEF Tables
    <3> QED
      BY <1>3, <3>1, <3>2
  <2>2. holder' \in [Tasks -> Workers \cup {Nobody}]
    BY <1>1, <1>3, <1>4 DEF Tables
  <2> QED
    BY <1>2, <1>4, <2>1, <2>2 DEF Tables
<1>7. Forward
  <2>1. now \in Nat /\ gen \in [Tasks -> Nat] /\ decisions \in [Tasks -> Nat]
    BY <1>4, QueueAssumption DEF Tables
  <2> QED
    BY <1>2, <2>1, RunsTyped DEF Forward, Aside
<1>8. CallsInv'
  BY <1>2, <1>6, <1>7, CallsKeep
<1>9. RunsInv'
  <2>1. \A i \in 1..Len(runs) : runs[i].t \in Tasks
    BY RunsTyped DEF Run
  <2> QED
    BY <1>2, <1>5, <2>1 DEF IInv, RunsInv
<1>10. AttemptsInv'
  <2>1. ASSUME NEW t \in Tasks
        PROVE  /\ IsFiniteSet(Pending(t)')
               /\ decisions'[t] = 0 => Cardinality(RunsOf(t)') + Cardinality(Pending(t)') <= attempts'[t]
    <3>1. decisions[t] = 0 => Cardinality(RunsOf(t)) + Cardinality(Pending(t)) <= attempts[t]
      BY DEF IInv, AttemptsInv
    <3>2. RunsOf(t)' = RunsOf(t) /\ decisions'[t] = decisions[t]
      BY <1>2 DEF RunsOf
    <3>3. /\ Cardinality(RunsOf(t)) \in Nat
          /\ IsFiniteSet(Pending(t)) /\ Cardinality(Pending(t)) \in Nat
      BY RunsCount, PendingCount
    <3>4. CASE t = r.t
      <4>1. IsFiniteSet(Pending(t)') /\ Cardinality(Pending(t)') = Cardinality(Pending(t)) - 1
        BY <1>1, <1>2, <3>4, PendingWithout DEF At
      <4> QED
        BY <1>5, <3>1, <3>2, <3>3, <4>1
    <3>5. CASE t # r.t
      <4>1. Pending(t)' = Pending(t) /\ attempts'[t] = attempts[t]
        BY <1>1, <1>2, <1>5, <3>5, PendingWithout DEF At
      <4> QED
        BY <3>1, <3>2, <3>3, <4>1
    <3> QED
      BY <3>4, <3>5
  <2> QED
    BY <2>1 DEF AttemptsInv
<1> QED
  BY <1>6, <1>8, <1>9, <1>10 DEF IInv

\* A heartbeat or a start renews the lease of the holder, and no other.
LEMMA RenewKeeps ==
  ASSUME IInv, NEW c \in Calls, Renew(c)
  PROVE  IInv'
<1> PICK r : r = call[c]
  OBVIOUS
<1>1. r.t \in Tasks /\ r.at \in Nat
  BY Busy DEF Renew, Carries, CallRecord
<1>2. /\ Goto(c, Idle)
      /\ UNCHANGED <<now, status, attempts, gen, holder, mover, decisions, accepted, runs, crashes>>
      /\ expires' = [expires EXCEPT ![r.t] = r.at + Lease] \/ expires' = expires
  BY DEF Renew
<1>3. Tables'
  <2>1. expires \in [Tasks -> Nat] /\ r.at + Lease \in Nat
    BY <1>1, QueueAssumption, SMTT(30) DEF IInv, Tables
  <2>2. expires' \in [Tasks -> Nat]
    BY <1>1, <1>2, <2>1
  <2> QED
    BY <1>2, <2>2 DEF IInv, Tables
<1>4. Forward
  <2>1. now \in Nat /\ gen \in [Tasks -> Nat] /\ decisions \in [Tasks -> Nat]
    BY QueueAssumption DEF IInv, Tables
  <2> QED
    BY <1>2, <2>1, RunsTyped DEF Forward, Aside
<1>5. CallsInv'
  BY <1>2, <1>3, <1>4, CallsKeep
<1>6. RunsInv'
  BY <1>2 DEF IInv, RunsInv
<1>7. AttemptsInv'
  <2>1. \A t \in Tasks : RunsOf(t)' = RunsOf(t)
    BY <1>2 DEF RunsOf
  <2>2. Idle.pc = "idle"
    BY DEF Idle
  <2>3. \A t \in Tasks : Pending(t)' \subseteq Pending(t)
    BY <1>2, <2>2 DEF IInv, CallsInv, Goto, Pending
  <2> QED
    BY <1>2, <1>3, <2>1, <2>3, AttemptsKept
<1> QED
  BY <1>3, <1>5, <1>6, <1>7 DEF IInv

\* A result is taken under the current generation, so its run was still open.
LEMMA SettleKeeps ==
  ASSUME IInv, NEW c \in Calls, Settle(c)
  PROVE  /\ IInv'
         /\ call[c].run \in 1..Len(runs) /\ runs[call[c].run].status = "RUNNING"
         /\ runs'[call[c].run].status = RunEnd(call[c].outcome)
<1> PICK r : r = call[c]
  OBVIOUS
<1>1. /\ Carries(r) /\ Obeys(r) /\ r.pc = "settle" /\ r \in CallRecord /\ r.t \in Tasks
      /\ r.op = "complete" /\ r.outcome \in Outcomes /\ r.run \in 1..Len(runs) /\ r.w \in Workers
      /\ runs[r.run].t = r.t /\ runs[r.run].gen = r.gen
  BY Busy DEF Settle, Carries
<1> PICK to : to = TaskTo(r.outcome, r.attempts)
  OBVIOUS
<1> DEFINE q == [r EXCEPT !.gen = 0, !.run = 0, !.attempts = 0]
<1> PICK k : k = Then(q, ResultMoves(status[r.t], to))
  OBVIOUS
<1>2. /\ HoldsLease(r)
      /\ holder' = [holder EXCEPT ![r.t] = Nobody]
      /\ accepted' = [accepted EXCEPT ![r.t] = Append(@, gen[r.t])]
      /\ runs' = Closed({r.run}, RunEnd(r.outcome))
      /\ Goto(c, k)
      /\ UNCHANGED <<now, status, attempts, gen, expires, mover, decisions, crashes>>
  BY DEF Settle
<1>3. /\ q \in CallRecord /\ q.pc = "settle" /\ q.op = r.op /\ q.w = r.w /\ q.at = r.at
      /\ q.rows = r.rows /\ q.seen = r.seen /\ q.t = r.t
  BY <1>1 DEF CallRecord
<1> HIDE DEF q
<1>4. to \in TaskStatuses /\ RunEnd(r.outcome) \in RunStatuses
  BY <1>1, QueueAssumption DEF TaskTo, TaskStatuses, RunEnd, RunStatuses
<1>5. Tables
  BY DEF IInv
<1>6. (k = Idle \/ (Carries(k) /\ Obeys(k))) /\ k.pc \notin {"reread", "insert"}
  <2>1. status[r.t] \in TaskStatuses
    BY <1>1, <1>5 DEF Tables
  <2>2. <<>> \in Seq(TaskStatuses) /\ <<to>> \in Seq(TaskStatuses) /\ <<"BUILDING", to>> \in Seq(TaskStatuses)
    BY <1>4 DEF TaskStatuses
  <2>3. /\ ResultMoves(status[r.t], to) \in Seq(TaskStatuses)
        /\ ResultMoves(status[r.t], to) # <<>> => status[r.t] \in Workable
    <3>1. CASE status[r.t] \in Workable
      <4>1. ResultMoves(status[r.t], to) \in {<<>>, <<to>>, <<"BUILDING", to>>}
        BY <3>1 DEF ResultMoves
      <4> QED
        BY <2>2, <3>1, <4>1
    <3>2. CASE status[r.t] \notin Workable
      <4>1. ResultMoves(status[r.t], to) = <<>>
        BY <3>2 DEF ResultMoves
      <4> QED
        BY <2>2, <4>1
    <3> QED
      BY <3>1, <3>2
  <2>4. ResultMoves(status[r.t], to) # <<>> => MayMove(q)
    BY <1>1, <1>3, <2>3 DEF MayMove, Aside, Workable
  <2>5. CASE k = Idle
    BY <2>5 DEF Idle
  <2>6. CASE k # Idle
    <3>1. /\ k \in CallRecord /\ k.op = "complete" /\ k.at = r.at /\ k.rows = r.rows /\ k.seen = r.seen
          /\ k.pc = "move" /\ k.moves # <<>> /\ k.t = r.t /\ ResultMoves(status[r.t], to) # <<>>
      BY <1>1, <1>3, <2>3, <2>6, ThenIs DEF Reaps
    <3>2. Carries(k)
      BY <1>1, <3>1 DEF Carries, Reaps
    <3>3. Obeys(k)
      BY <1>1, <1>3, <2>4, <3>1 DEF Obeys, MayMove
    <3> QED
      BY <3>1, <3>2, <3>3
  <2> QED
    BY <2>5, <2>6
<1>7. runs[r.run].status = "RUNNING"
  <2>1. holder[r.t] # Nobody /\ runs[r.run].gen = gen[runs[r.run].t]
    BY <1>1, <1>2, NobodyIsNoWorker DEF HoldsLease
  <2> QED
    BY <1>1, <2>1 DEF IInv, RunsInv
<1>8. /\ runs' \in Seq(Run) /\ Len(runs') = Len(runs)
      /\ \A i \in 1..Len(runs) :
           /\ runs'[i].t = runs[i].t /\ runs'[i].gen = runs[i].gen
           /\ runs'[i].status = IF i = r.run /\ runs[i].status = "RUNNING"
                                THEN RunEnd(r.outcome) ELSE runs[i].status
  <2>1. PICK ids : ids = {r.run}
    OBVIOUS
  <2>2. runs' = Closed(ids, RunEnd(r.outcome)) /\ \A i : i \in ids <=> i = r.run
    BY <1>2, <2>1
  <2> QED
    BY <1>4, <2>2, ClosedRuns
<1>9. Tables'
  <2>1. holder' \in [Tasks -> Workers \cup {Nobody}]
    BY <1>1, <1>2, <1>5 DEF Tables
  <2>2. accepted' \in [Tasks -> Seq(Nat)]
    <3>1. accepted \in [Tasks -> Seq(Nat)] /\ accepted[r.t] \in Seq(Nat) /\ gen[r.t] \in Nat
      BY <1>1, <1>5 DEF Tables
    <3>2. Append(accepted[r.t], gen[r.t]) \in Seq(Nat)
      BY <3>1
    <3> QED
      BY <1>2, <3>1, <3>2
  <2> QED
    BY <1>2, <1>5, <1>8, <2>1, <2>2 DEF Tables
<1>10. Forward
  <2>1. now \in Nat /\ gen \in [Tasks -> Nat] /\ decisions \in [Tasks -> Nat]
    BY <1>5, QueueAssumption DEF Tables
  <2>2. now <= now'
    BY <1>2, <2>1
  <2>3. Len(runs) <= Len(runs') /\ Len(runs') \in Nat
    <3>1. Len(runs) \in Nat /\ Len(runs') = Len(runs)
      BY <1>8, RunsTyped
    <3> QED
      BY <3>1
  <2>4. \A t \in Tasks : /\ gen[t] <= gen'[t] /\ decisions[t] <= decisions'[t]
                         /\ Aside(t)' => Aside(t) \/ decisions[t] < decisions'[t]
    BY <1>2, <2>1 DEF Aside
  <2> QED
    BY <1>8, <2>2, <2>3, <2>4 DEF Forward
<1>11. CallsInv'
  <2>1. k = Idle \/ (Carries(k)' /\ Obeys(k)')
    BY <1>6, <1>9, <1>10, CarriesOn
  <2> QED
    BY <1>2, <1>9, <1>10, <2>1, CallsKeep
<1>12. RunsInv'
  <2>1. ASSUME NEW i \in 1..Len(runs)
        PROVE  /\ runs'[i].gen <= gen[runs'[i].t]
               /\ runs'[i].status # "RUNNING" /\ runs'[i].gen = gen[runs'[i].t]
                    => holder'[runs'[i].t] = Nobody
    <3>1. /\ runs[i].t \in Tasks /\ runs[i].gen <= gen[runs[i].t]
          /\ runs[i].status # "RUNNING" /\ runs[i].gen = gen[runs[i].t] => holder[runs[i].t] = Nobody
      BY RunsTyped DEF IInv, RunsInv, Run
    <3>2. \A t \in Tasks : holder'[t] = IF t = r.t THEN Nobody ELSE holder[t]
      BY <1>2, <1>5 DEF Tables
    <3> QED
      BY <1>1, <1>8, <3>1, <3>2
  <2> QED
    BY <1>2, <1>8, <2>1 DEF RunsInv
<1>13. AttemptsInv'
  <2>1. \A t \in Tasks : RunsOf(t)' = RunsOf(t)
    <3>1. DOMAIN runs' = 1..Len(runs) /\ DOMAIN runs = 1..Len(runs)
      BY <1>8, LenProperties, RunsTyped
    <3> QED
      BY <1>8, <3>1 DEF RunsOf
  <2>2. \A t \in Tasks : Pending(t)' \subseteq Pending(t)
    BY <1>2, <1>6 DEF IInv, CallsInv, Goto, Pending
  <2> QED
    BY <1>2, <1>9, <2>1, <2>2, AttemptsKept
<1>14. runs'[r.run].status = RunEnd(r.outcome)
  BY <1>1, <1>7, <1>8
<1> QED
  BY <1>1, <1>7, <1>9, <1>11, <1>12, <1>13, <1>14 DEF IInv

\* Time passes over everything.
LEMMA TickKeeps ==
  ASSUME IInv, Tick
  PROVE  IInv'
<1>1. /\ now' = now + 1 /\ now < MaxTime /\ now \in Nat
      /\ UNCHANGED <<status, attempts, gen, holder, expires, mover, decisions, accepted,
                     runs, call, crashes>>
  BY QueueAssumption DEF Tick, columns, IInv, Tables
<1>2. Tables'
  BY <1>1, QueueAssumption DEF IInv, Tables
<1>3. Forward
  <2>1. gen \in [Tasks -> Nat] /\ decisions \in [Tasks -> Nat]
    BY DEF IInv, Tables
  <2> QED
    BY <1>1, <2>1, RunsTyped DEF Forward, Aside
<1>4. CallsInv'
  <2>1. ASSUME NEW c \in Calls
        PROVE  call'[c] = Idle \/ (Carries(call[c])' /\ Obeys(call[c])')
    <3>1. PICK r : r = call[c]
      OBVIOUS
    <3>2. r = Idle \/ (Carries(r)' /\ Obeys(r)')
      BY <1>2, <1>3, <3>1, CarriesOn DEF IInv, CallsInv
    <3>3. call'[c] = r
      BY <1>1, <3>1
    <3> QED
      BY <3>2, <3>3 DEF Carries, Obeys
  <2> QED
    BY <1>1, <2>1 DEF IInv, CallsInv
<1>5. RunsInv'
  BY <1>1 DEF IInv, RunsInv
<1>6. AttemptsInv'
  <2>1. \A t \in Tasks : RunsOf(t)' = RunsOf(t) /\ Pending(t)' = Pending(t)
    BY <1>1 DEF RunsOf, Pending
  <2> QED
    BY <1>1, <1>2, <2>1, AttemptsKept
<1> QED
  BY <1>2, <1>4, <1>5, <1>6 DEF IInv

\* The invariant speaks of the variables only.
LEMMA StutterKeeps ==
  ASSUME IInv, UNCHANGED vars
  PROVE  IInv'
<1>1. UNCHANGED <<now, status, attempts, gen, holder, expires, mover, decisions, accepted,
                  runs, call, crashes>>
  BY DEF vars, columns
<1>2. Tables' /\ Forward /\ RunsInv'
  BY <1>1, StillForward DEF Still, IInv, Tables
<1>3. CallsInv'
  BY <1>1 DEF IInv, CallsInv, Carries, Obeys, Aside
<1>4. AttemptsInv'
  <2>1. \A t \in Tasks : RunsOf(t)' = RunsOf(t) /\ Pending(t)' = Pending(t)
    BY <1>1 DEF RunsOf, Pending
  <2> QED
    BY <1>1, <1>2, <2>1, AttemptsKept
<1> QED
  BY <1>2, <1>3, <1>4 DEF IInv

------------------------------------------------------------------------------
(* The invariant. *)

\* It holds before anything has happened.
LEMMA InitInductive == Init => IInv
<1> SUFFICES ASSUME Init
             PROVE  IInv
  OBVIOUS
<1>1. Tables
  <2>1. <<>> \in Seq(Run) /\ <<>> \in Seq(Nat)
    OBVIOUS
  <2>2. "SPEC_READY" \in TaskStatuses /\ 0 \in 0..MaxAttempts /\ 0 \in 0..MaxTime /\ 0 \in 0..MaxCrashes
    BY QueueAssumption DEF TaskStatuses
  <2> QED
    BY <2>1, <2>2 DEF Init, Tables
<1>2. CallsInv
  BY DEF Init, CallsInv
<1>3. RunsInv
  BY DEF Init, RunsInv
<1>4. AttemptsInv
  <2>1. ASSUME NEW t \in Tasks
        PROVE  Pending(t) = {} /\ RunsOf(t) = {}
    BY DEF Init, Pending, RunsOf, Idle
  <2>2. \A t \in Tasks : attempts[t] = 0
    BY DEF Init
  <2> QED
    BY <2>1, <2>2, FS_EmptySet DEF AttemptsInv
<1> QED
  BY <1>1, <1>2, <1>3, <1>4 DEF IInv

\* No request, no reaper, no person and no crash breaks it.
LEMMA StepInductive == IInv /\ [Next]_vars => IInv'
<1> SUFFICES ASSUME IInv, [Next]_vars
             PROVE  IInv'
  OBVIOUS
<1>1. ASSUME NEW c \in Calls, Step(c)
      PROVE  IInv'
  BY <1>1, ReadStatusKeeps, WriteStatusKeeps, ReleaseExpiredKeeps, SkipRenewedKeeps, EndReapKeeps,
     TakeKeeps, GivingUpKeeps, RereadKeeps, InsertRunKeeps, GiveBackKeeps, RenewKeeps, SettleKeeps
     DEF Step
<1>2. ASSUME NEW c \in Calls, Request(c)
      PROVE  IInv'
  <2>1. CASE SelectExpired(c, "reap", Nobody)
    BY <2>1, SelectExpiredKeeps
  <2>2. ASSUME NEW w \in Workers, SelectExpired(c, "claim", w)
        PROVE  IInv'
    BY <2>2, SelectExpiredKeeps
  <2>3. ASSUME NEW i \in DOMAIN runs,
               Heartbeat(c, i) \/ StartRun(c, i) \/ \E o \in Outcomes : Complete(c, i, o)
        PROVE  IInv'
    BY <2>3, HeartbeatKeeps, StartRunKeeps, CompleteKeeps
  <2>4. ASSUME NEW t \in Tasks, NEW to \in PersonTo, Decide(c, t, to)
        PROVE  IInv'
    BY <2>4, DecideKeeps
  <2> QED
    BY <1>2, <2>1, <2>2, <2>3, <2>4 DEF Request
<1> QED
  BY <1>1, <1>2, GivingUpKeeps, TickKeeps, StutterKeeps DEF Next

\* IInv holds in every reachable state.
THEOREM Invariant == Spec => []IInv
  BY InitInductive, StepInductive, PTL DEF Spec

(* There is no endless retry: until a person reopens it, a task costs at most    *)
(* MaxAttempts runs, crashes, refunds and lost leases included                   *)
(* (worker-service.ts:134-141).                                                  *)
THEOREM RetriesEnd == Spec => []NoEndlessRetry
<1>1. IInv => NoEndlessRetry
  <2> SUFFICES ASSUME IInv
               PROVE  NoEndlessRetry
    OBVIOUS
  <2>1. ASSUME NEW t \in Tasks, decisions[t] = 0
        PROVE  Cardinality(RunsOf(t)) <= MaxAttempts
    <3>1. Cardinality(RunsOf(t)) + Cardinality(Pending(t)) <= attempts[t]
      BY <2>1 DEF IInv, AttemptsInv
    <3>2. attempts[t] \in Nat /\ attempts[t] <= MaxAttempts
      BY QueueAssumption DEF IInv, Tables
    <3> QED
      BY <3>1, <3>2, RunsCount, PendingCount, QueueAssumption
  <2> QED
    BY <2>1, TypesHold DEF NoEndlessRetry, RunsOf
<1> QED
  BY <1>1, Invariant, PTL

\* Only its own steps change a call that is under way.
LEMMA OthersStand ==
  ASSUME IInv, NEW c \in Calls, NEW d \in Calls, c # d, NEW k, Goto(d, k)
  PROVE  call'[c] = call[c]
  BY DEF IInv, CallsInv, Goto

\* A call at pc that changes does so by the step of that pc, or dies.
LEMMA WhoSettles ==
  ASSUME IInv, Next, NEW c \in Calls, At(c, "settle"), call'[c] # call[c], accepted' # accepted
  PROVE  Settle(c)
<1>1. PICK d \in Calls : Step(d) \/ Crash(d) \/ Request(d)
  BY DEF Next, Tick, columns
<1>2. Settle(d)
  BY <1>1 DEF Step, Crash, Request, ReadStatus, WriteStatus, ReleaseExpired, SkipRenewed, EndReap,
              Take, QueueEmpty, Reread, InsertRun, GiveBack, Renew, RefuseStale, SelectExpired,
              Heartbeat, StartRun, Complete, Pass, Decide, columns
<1>3. PICK k : Goto(d, k)
  BY <1>2 DEF Settle
<1> QED
  BY <1>2, <1>3, OthersStand

(* A result moves the task only if it is also recorded as the ending of its run, *)
(* so that no run reads "lost its worker" whose success was taken                *)
(* (worker-service.ts:174, :551).                                                *)
THEOREM ResultsAreRecorded == Spec => AcceptedIsRecorded
<1> DEFINE A == \A c \in Calls :
                  At(c, "settle") /\ call'[c] # call[c] /\ accepted' # accepted =>
                    /\ runs[call[c].run].status = "RUNNING"
                    /\ runs'[call[c].run].status = RunEnd(call[c].outcome)
<1>1. ASSUME IInv, [Next]_vars
      PROVE  [A]_vars
  <2>1. CASE UNCHANGED vars
    BY <2>1
  <2>2. CASE Next
    BY <1>1, <2>2, WhoSettles, SettleKeeps
  <2> QED
    BY <1>1, <2>1, <2>2
<1>2. Spec => [][A]_vars
  BY <1>1, Invariant, PTL DEF Spec
<1> QED
  BY <1>2 DEF AcceptedIsRecorded

(* A call that begins after a person put the task aside does not move it, be it a *)
(* claim, the reaper, a start or a report (worker-service.ts:563-567).            *)
THEOREM PeopleAreObeyed == Spec => LaterCallsObeyPeople
<1> DEFINE A == \A t \in Tasks, c \in Calls :
                  Aside(t) /\ Moves(c, t) /\ call[c].op # "person" => call[c].seen[t] < decisions[t]
<1>1. ASSUME IInv
      PROVE  A
  <2>1. ASSUME NEW t \in Tasks, NEW c \in Calls, Aside(t), Moves(c, t), call[c].op # "person"
        PROVE  call[c].seen[t] < decisions[t]
    <3>1. Obeys(call[c]) /\ call[c].pc = "write" /\ call[c].t = t
      BY <1>1, <2>1, Busy DEF Moves, At
    <3> QED
      BY <2>1, <3>1 DEF Obeys
  <2> QED
    BY <2>1
<1>2. Spec => [][A]_vars
  BY <1>1, Invariant, PTL DEF Spec
<1> QED
  BY <1>2 DEF LaterCallsObeyPeople

------------------------------------------------------------------------------
(* The queue implements FencedWork. *)

\* An empty queue is an empty fence.
LEMMA FenceInit == Init => Fence!Init
  BY DEF Init, Fence!Init

\* Each action of the queue is a grant, a revocation, an acceptance, or none of them.
LEMMA FenceStep == IInv /\ [Next]_vars => [Fence!Next]_(Fence!vars)
<1> SUFFICES ASSUME IInv, [Next]_vars
             PROVE  [Fence!Next]_(Fence!vars)
  OBVIOUS
<1>1. CASE UNCHANGED <<holder, gen, accepted>>
  BY <1>1 DEF Fence!vars
<1>2. ASSUME NEW c \in Calls, Take(c)
      PROVE  Fence!Next
  <2>1. call[c].w \in Workers
    BY <1>2, Busy DEF Take, Carries
  <2>2. PICK t \in Tasks : /\ holder' = [holder EXCEPT ![t] = call[c].w]
                           /\ gen' = [gen EXCEPT ![t] = @ + 1]
    BY <1>2 DEF Take
  <2>3. accepted' = accepted
    BY <1>2 DEF Take
  <2> QED
    BY <2>1, <2>2, <2>3 DEF Fence!Next, Fence!Grant
<1>3. ASSUME NEW c \in Calls, ReleaseExpired(c)
      PROVE  Fence!Next
  <2>1. PICK row \in call[c].rows : /\ holder' = [holder EXCEPT ![row.t] = Nobody]
                                    /\ gen' = [gen EXCEPT ![row.t] = @ + 1]
    BY <1>3 DEF ReleaseExpired
  <2>2. row.t \in Tasks
    BY <1>3, Busy DEF ReleaseExpired, CallRecord, Row
  <2>3. accepted' = accepted
    BY <1>3 DEF ReleaseExpired
  <2> QED
    BY <2>1, <2>2, <2>3 DEF Fence!Next, Fence!Revoke
<1>4. ASSUME NEW c \in Calls, GiveBack(c), holder' # holder
      PROVE  Fence!Next
  <2>1. call[c].t \in Tasks
    BY <1>4, Busy DEF GiveBack, Carries
  <2>2. holder' = [holder EXCEPT ![call[c].t] = Nobody] /\ gen' = gen /\ accepted' = accepted
    BY <1>4 DEF GiveBack
  <2> QED
    BY <2>1, <2>2 DEF Fence!Next, Fence!Revoke
<1>5. ASSUME NEW c \in Calls, Settle(c)
      PROVE  Fence!Next
  <2>1. call[c].t \in Tasks /\ call[c].w \in Workers
    BY <1>5, Busy DEF Settle, Carries
  <2>2. /\ holder[call[c].t] # Nobody
        /\ holder' = [holder EXCEPT ![call[c].t] = Nobody] /\ gen' = gen
        /\ accepted' = [accepted EXCEPT ![call[c].t] = Append(@, gen[call[c].t])]
    BY <1>5, <2>1, NobodyIsNoWorker DEF Settle, HoldsLease
  <2> QED
    BY <2>1, <2>2 DEF Fence!Next, Fence!Accept
<1>6. ASSUME NEW c \in Calls, GiveBack(c), holder' = holder
      PROVE  UNCHANGED <<holder, gen, accepted>>
  BY <1>6 DEF GiveBack
<1>7. CASE UNCHANGED vars
  BY <1>1, <1>7 DEF vars, columns
<1>8. CASE Tick
  BY <1>1, <1>8 DEF Tick, columns
<1>9. ASSUME NEW c \in Calls, Step(c) \/ Crash(c) \/ Request(c)
      PROVE  [Fence!Next]_(Fence!vars)
  <2>1. \/ Take(c) \/ ReleaseExpired(c) \/ GiveBack(c) \/ Settle(c)
        \/ UNCHANGED <<holder, gen, accepted>>
    BY <1>9 DEF Step, Crash, Request, ReadStatus, WriteStatus, SkipRenewed, EndReap, QueueEmpty,
                Reread, InsertRun, Renew, RefuseStale, SelectExpired, Heartbeat, StartRun, Complete,
                Pass, Decide, columns
  <2> QED
    BY <1>1, <1>2, <1>3, <1>4, <1>5, <1>6, <2>1
<1> QED
  BY <1>7, <1>8, <1>9 DEF Next

(* However late, twice and crosswise workers report, and whatever the reaper does *)
(* meanwhile, a token is granted to one worker and its result is accepted at most *)
(* once, in order (worker-service.ts, releases "WHERE generation AND worker").    *)
THEOREM QueueIsFenced == Spec => ImplementsFence
<1>1. Spec => Fence!Spec
  BY FenceInit, FenceStep, Invariant, PTL DEF Spec, Fence!Spec
<1> QED
  BY <1>1 DEF ImplementsFence
==============================================================================
