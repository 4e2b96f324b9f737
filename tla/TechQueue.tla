------------------------------ MODULE TechQueue ------------------------------
(* The queue of technical tasks (lib/tech/worker-service.ts): remote workers    *)
(* claim a task under a lease, renew it by heartbeats and report how their run  *)
(* ended; a reaper takes back the tasks of workers that fell silent; people     *)
(* move tasks at any time (lib/tech/service.ts).                                *)
(*                                                                              *)
(* Every request is a call made of the database statements between which other  *)
(* calls can run, and may die at each of them. A worker may send any request    *)
(* about any run it was ever given, late and twice: the fence is what protects  *)
(* the task. Delays between attempts only postpone a claim and are left out, as *)
(* are priorities, capabilities, logs and the worker's on/off switch.           *)
EXTENDS Naturals, Sequences, FiniteSets

CONSTANTS
  Tasks, Workers, Nobody,
  Calls,         \* slots for the calls that are being served at the same time
  MaxAttempts,   \* effectiveMaxAttempts
  MaxConcurrency,\* runs one worker may have open
  Lease,         \* TECH_LEASE.ttlSeconds, in ticks of the clock
  Outcomes,      \* the endings workers report, of TECH_RUN_OUTCOMES
  Metered,       \* the workers that pay per use and may find a budget spent
  PersonTo,      \* the statuses people move a task to
  MaxTime, MaxDecisions, MaxCrashes, MaxGen   \* bounds on the instance

ASSUME NobodyIsNoWorker == Nobody \notin Workers
VARIABLES
  now,
  status, attempts, gen, holder, expires,  \* the columns of tech_tasks
  mover,       \* who made the last change of status (tech_task_events)
  decisions,   \* how many of those changes people made
  accepted,    \* the generations whose result was accepted, in order
  runs,        \* tech_agent_runs
  call,        \* slot -> the request it serves
  crashes

columns == <<status, attempts, gen, holder, expires, mover, decisions, accepted>>
vars == <<now, columns, runs, call, crashes>>

-----------------------------------------------------------------------------
(* The lifecycle of a task, up to the review of its branch.                  *)

Transitions ==
  [TRIAGED     |-> {"SPEC_READY", "BUILDING", "BLOCKED", "NEEDS_OWNER", "CANCELLED"},
   SPEC_READY  |-> {"BUILDING", "TRIAGED", "BLOCKED", "NEEDS_OWNER", "CANCELLED"},
   BUILDING    |-> {"REVIEW", "SPEC_READY", "BLOCKED", "FAILED", "NEEDS_OWNER", "CANCELLED"},
   REVIEW      |-> {"BUILDING", "BLOCKED", "FAILED", "NEEDS_OWNER", "CANCELLED"},
   BLOCKED     |-> {"TRIAGED", "SPEC_READY", "BUILDING", "REVIEW", "FAILED", "NEEDS_OWNER",
                    "CANCELLED"},
   FAILED      |-> {"TRIAGED", "BUILDING", "NEEDS_OWNER", "CANCELLED"},
   NEEDS_OWNER |-> {"TRIAGED", "SPEC_READY", "BUILDING", "REVIEW", "BLOCKED", "FAILED",
                    "CANCELLED"},
   CANCELLED   |-> {}]

Statuses == DOMAIN Transitions
Workable == {"SPEC_READY", "BUILDING"}

ASSUME QueueAssumption ==
  /\ MaxAttempts \in Nat /\ Lease \in Nat /\ MaxTime \in Nat /\ MaxCrashes \in Nat
  /\ Outcomes \subseteq {"SUCCEEDED", "FAILED", "BLOCKED", "NEEDS_OWNER"}
  /\ PersonTo \subseteq Statuses

\* What setTechTaskStatus lets an actor of a kind do.
Allowed(kind, from, to) ==
  /\ to \in Transitions[from]
  /\ from = "BUILDING" /\ to = "SPEC_READY" => kind = "SYSTEM"
  /\ from = "NEEDS_OWNER" \/ to = "CANCELLED" => kind = "HUMAN"

-----------------------------------------------------------------------------
(* Calls.                                                                    *)

Idle == [pc |-> "idle"]

\* A call as it starts: what it reads on its way is filled in later.
Fresh(op, w) ==
  [pc |-> "start", op |-> op, w |-> w, at |-> 0, rows |-> {}, t |-> Nobody,
   run |-> 0, gen |-> 0, attempts |-> 0, outcome |-> Nobody, moves |-> <<>>,
   seen |-> decisions]

At(c, pc) == call[c].pc = pc
Goto(c, r) == call' = [call EXCEPT ![c] = r]
Reaps(r) == r.op \in {"reap", "claim"}
Kind(r) == IF r.op = "person" THEN "HUMAN" ELSE "SYSTEM"

\* What a call does once the status changes `moves` are all it has left for its task.
Then(r, moves) ==
  CASE moves # <<>>               -> [r EXCEPT !.pc = "move", !.moves = moves]
    [] moves = <<>> /\ Reaps(r)   -> [r EXCEPT !.pc = "reap", !.t = Nobody, !.moves = <<>>]
    [] moves = <<>> /\ ~Reaps(r)  -> Idle

Expired(t, at) == holder[t] # Nobody /\ expires[t] <= at

Closed(ids, s) ==
  [i \in DOMAIN runs |->
     IF i \in ids /\ runs[i].status = "RUNNING" THEN [runs[i] EXCEPT !.status = s]
                                                ELSE runs[i]]

-----------------------------------------------------------------------------
(* setTechTaskStatus: the task is read, and written in a second statement    *)
(* whatever became of it in between.                                         *)

\* A refused change: the reaper goes on to its next; a completion that cannot
\* be applied tries FAILED instead, once; everyone else gives up.
AfterRefusal(r) ==
  CASE Reaps(r) -> Then(r, Tail(r.moves))
    [] r.op = "complete" /\ Len(r.moves) = 1 -> Then([r EXCEPT !.op = "fail"], <<"FAILED">>)
    [] OTHER -> Idle

ReadStatus(c) ==
  /\ At(c, "move")
  /\ LET r == call[c]
         from == status[r.t]
         to == r.moves[1]
     IN Goto(c, IF from = to THEN Then(r, Tail(r.moves))
                ELSE IF Allowed(Kind(r), from, to) THEN [r EXCEPT !.pc = "write"]
                ELSE AfterRefusal(r))
  /\ UNCHANGED <<now, columns, runs, crashes>>

WriteStatus(c) ==
  /\ At(c, "write")
  /\ LET r == call[c]
         to == r.moves[1]
     IN /\ status' = [status EXCEPT ![r.t] = to]
        /\ mover' = [mover EXCEPT ![r.t] = Kind(r)]
        /\ decisions' = IF Kind(r) = "HUMAN" THEN [decisions EXCEPT ![r.t] = @ + 1] ELSE decisions
        /\ attempts' = IF Kind(r) = "HUMAN" /\ to = "SPEC_READY"
                       THEN [attempts EXCEPT ![r.t] = 0] ELSE attempts
        /\ Goto(c, Then(r, Tail(r.moves)))
  /\ UNCHANGED <<now, gen, holder, expires, accepted, runs, crashes>>

\* A person changes the status of a task.
Decide(c, t, to) ==
  /\ call[c] = Idle
  /\ decisions[t] < MaxDecisions
  /\ Goto(c, [Then([Fresh("person", Nobody) EXCEPT !.t = t], <<to>>) EXCEPT !.pc = "move"])
  /\ UNCHANGED <<now, columns, runs, crashes>>

-----------------------------------------------------------------------------
(* The reaper, on its own schedule and at the head of every claim.           *)

\* Mutant: a task whose run has not started is not looked for.
OfBuilding ==
  {[t |-> t, status |-> status[t], attempts |-> attempts[t], gen |-> gen[t]] :
     t \in {u \in Tasks : Expired(u, now) /\ status[u] = "BUILDING"}}

\* The expired tasks, with what the loop will use of them.
Snapshot ==
  {[t |-> t, status |-> status[t], attempts |-> attempts[t], gen |-> gen[t]] :
     t \in {u \in Tasks : Expired(u, now)}}

SelectExpired(c, op, w) ==
  /\ call[c] = Idle
  /\ Goto(c, [Fresh(op, w) EXCEPT !.pc = "reap", !.at = now, !.rows = Snapshot])
  /\ UNCHANGED <<now, columns, runs, crashes>>

\* Where the loop sends a task, by what was read of it.
ReapMoves(row) ==
  IF row.status \notin Workable THEN <<>>
  ELSE IF row.attempts < MaxAttempts
       THEN IF row.status = "BUILDING" THEN <<"SPEC_READY">> ELSE <<>>
       ELSE IF row.status = "BUILDING" THEN <<"FAILED">> ELSE <<"BUILDING", "FAILED">>

\* The lease is still the one that was read, and still expired.
StillReapable(row, at) == gen[row.t] = row.gen /\ Expired(row.t, at)

\* One transaction: the lease is released, its generation spent, its run closed.
ReleaseExpired(c) ==
  /\ At(c, "reap")
  /\ \E row \in call[c].rows :
       /\ StillReapable(row, call[c].at)
       /\ holder' = [holder EXCEPT ![row.t] = Nobody]
       /\ gen' = [gen EXCEPT ![row.t] = @ + 1]
       /\ runs' = Closed({i \in DOMAIN runs : runs[i].t = row.t /\ runs[i].gen = row.gen}, "FAILED")
       /\ Goto(c, Then([call[c] EXCEPT !.t = row.t, !.rows = @ \ {row}], ReapMoves(row)))
  /\ UNCHANGED <<now, status, attempts, expires, mover, decisions, accepted, crashes>>

SkipRenewed(c) ==
  /\ At(c, "reap")
  /\ \E row \in call[c].rows :
       /\ ~StillReapable(row, call[c].at)
       /\ Goto(c, [call[c] EXCEPT !.rows = @ \ {row}])
  /\ UNCHANGED <<now, columns, runs, crashes>>

\* A claim goes on if its worker has room for another run.
HasRoom(w) == Cardinality({i \in DOMAIN runs : runs[i].worker = w /\ runs[i].status = "RUNNING"})
                < MaxConcurrency

EndReap(c) ==
  /\ At(c, "reap") /\ call[c].rows = {}
  /\ Goto(c, IF call[c].op = "claim" /\ HasRoom(call[c].w) THEN [call[c] EXCEPT !.pc = "take"]
                                                           ELSE Idle)
  /\ UNCHANGED <<now, columns, runs, crashes>>

-----------------------------------------------------------------------------
(* claimNextTechTask: one UPDATE takes the lease; the task is read again; the *)
(* run is inserted under the generation found there.                          *)

\* Mutant: one attempt too many.
OnceMore(t, at) ==
  /\ status[t] = "SPEC_READY" /\ (holder[t] = Nobody \/ Expired(t, at))
  /\ attempts[t] <= MaxAttempts /\ gen[t] < MaxGen

Claimable(t, at) ==
  /\ status[t] = "SPEC_READY"
  /\ holder[t] = Nobody \/ Expired(t, at)
  /\ attempts[t] < MaxAttempts
  /\ gen[t] < MaxGen

Take(c) ==
  /\ At(c, "take")
  /\ \E t \in Tasks :
       /\ Claimable(t, call[c].at)
       /\ holder' = [holder EXCEPT ![t] = call[c].w]
       /\ expires' = [expires EXCEPT ![t] = call[c].at + Lease]
       /\ gen' = [gen EXCEPT ![t] = @ + 1]
       /\ attempts' = [attempts EXCEPT ![t] = @ + 1]
       /\ Goto(c, [call[c] EXCEPT !.pc = "reread", !.t = t])
  /\ UNCHANGED <<now, status, mover, decisions, accepted, runs, crashes>>

QueueEmpty(c) ==
  /\ At(c, "take")
  /\ \A t \in Tasks : ~Claimable(t, call[c].at)
  /\ Goto(c, Idle)
  /\ UNCHANGED <<now, columns, runs, crashes>>

Reread(c) ==
  /\ At(c, "reread")
  /\ Goto(c, [call[c] EXCEPT !.pc = "insert", !.gen = gen[call[c].t]])
  /\ UNCHANGED <<now, columns, runs, crashes>>

InsertRun(c) ==
  /\ At(c, "insert")
  /\ LET r == call[c] IN
       runs' = Append(runs, [t |-> r.t, worker |-> r.w, gen |-> r.gen, status |-> "RUNNING"])
  /\ Goto(c, Idle)
  /\ UNCHANGED <<now, columns, crashes>>

\* The mission's budget is spent: the lease is given back, the attempt refunded.
GiveBack(c) ==
  /\ At(c, "insert") /\ call[c].w \in Metered
  /\ LET r == call[c] IN
       IF gen[r.t] = r.gen
       THEN /\ holder' = [holder EXCEPT ![r.t] = Nobody]
            /\ attempts' = [attempts EXCEPT ![r.t] = IF @ = 0 THEN 0 ELSE @ - 1]
       ELSE UNCHANGED <<holder, attempts>>
  /\ Goto(c, Idle)
  /\ UNCHANGED <<now, status, gen, expires, mover, decisions, accepted, runs, crashes>>

-----------------------------------------------------------------------------
(* What a worker sends about one of its runs. Each request is fenced first.   *)

Fenced(i) == runs[i].status = "RUNNING" /\ gen[runs[i].t] = runs[i].gen

\* The request of run i passes the fence.
Pass(c, i) ==
  /\ call[c] = Idle
  /\ Fenced(i)
  /\ UNCHANGED <<now, columns, runs, crashes>>

OfRun(op, i) ==
  [Fresh(op, runs[i].worker) EXCEPT !.t = runs[i].t, !.gen = runs[i].gen]

Heartbeat(c, i) ==
  /\ Pass(c, i)
  /\ status[runs[i].t] \in Workable
  /\ Goto(c, [OfRun("beat", i) EXCEPT !.pc = "renew", !.at = now])

\* Mutants: only the generation, or only the worker, is compared.
SameGeneration(r) == gen[r.t] = r.gen
SameWorker(r) == holder[r.t] = r.w

\* The lease is still the one this run was given.
HoldsLease(r) == gen[r.t] = r.gen /\ holder[r.t] = r.w

Renew(c) ==
  /\ At(c, "renew")
  /\ expires' = IF HoldsLease(call[c])
                THEN [expires EXCEPT ![call[c].t] = call[c].at + Lease] ELSE expires
  /\ Goto(c, Idle)
  /\ UNCHANGED <<now, status, attempts, gen, holder, mover, decisions, accepted, runs, crashes>>

StartRun(c, i) ==
  /\ Pass(c, i)
  /\ status[runs[i].t] = "SPEC_READY"
  /\ Goto(c, Then(OfRun("start", i), <<"BUILDING">>))

\* decideCompletion.
RunEnd(o) == IF o = "NEEDS_OWNER" THEN "BLOCKED" ELSE o
TaskTo(o, n) ==
  CASE o = "SUCCEEDED" -> "REVIEW"
    [] o = "FAILED"    -> IF n < MaxAttempts THEN "SPEC_READY" ELSE "FAILED"
    [] OTHER           -> o

Complete(c, i, o) ==
  /\ Pass(c, i)
  /\ Goto(c, [OfRun("complete", i) EXCEPT !.pc = "settle", !.run = i, !.outcome = o,
                                          !.attempts = attempts[runs[i].t]])

\* Mutant: the result is applied whatever became of the task.
WhateverHappened(from, to) == IF from = "SPEC_READY" THEN <<"BUILDING", to>> ELSE <<to>>

\* The status changes a result asks for, from the status read with the release.
ResultMoves(from, to) ==
  IF from \notin Workable \/ from = to THEN <<>>
  ELSE IF from = "SPEC_READY" THEN <<"BUILDING", to>> ELSE <<to>>

\* One transaction: the lease is released and the run closed, or nothing is done.
\* What is left of the call only moves the task.
Settle(c) ==
  /\ At(c, "settle")
  /\ LET r == call[c] IN
       /\ HoldsLease(r)
       /\ holder' = [holder EXCEPT ![r.t] = Nobody]
       /\ accepted' = [accepted EXCEPT ![r.t] = Append(@, gen[r.t])]
       /\ runs' = Closed({r.run}, RunEnd(r.outcome))
       /\ Goto(c, Then([r EXCEPT !.gen = 0, !.run = 0, !.attempts = 0],
                       ResultMoves(status[r.t], TaskTo(r.outcome, r.attempts))))
  /\ UNCHANGED <<now, status, attempts, gen, expires, mover, decisions, crashes>>

RefuseStale(c) ==
  /\ At(c, "settle")
  /\ ~HoldsLease(call[c])
  /\ Goto(c, Idle)
  /\ UNCHANGED <<now, columns, runs, crashes>>

-----------------------------------------------------------------------------
(* The system.                                                               *)

\* A call in the middle of what it writes. One that dies before its first write or
\* after its last leaves what a call leaves that was never made, or had ended.
HalfDone(r) ==
  \/ r.pc \in {"reread", "insert"}
  \/ r.pc \in {"move", "write"} /\ (Reaps(r) \/ r.op \in {"complete", "fail"})

\* The process that serves a call is killed.
Crash(c) ==
  /\ crashes < MaxCrashes
  /\ HalfDone(call[c])
  /\ crashes' = crashes + 1
  /\ Goto(c, Idle)
  /\ UNCHANGED <<now, columns, runs>>

Tick ==
  /\ now < MaxTime
  /\ now' = now + 1
  /\ UNCHANGED <<columns, runs, call, crashes>>

Init ==
  /\ now = 0 /\ crashes = 0 /\ runs = <<>>
  /\ status = [t \in Tasks |-> "SPEC_READY"]
  /\ mover = [t \in Tasks |-> "HUMAN"]
  /\ holder = [t \in Tasks |-> Nobody]
  /\ accepted = [t \in Tasks |-> <<>>]
  /\ attempts = [t \in Tasks |-> 0]
  /\ gen = [t \in Tasks |-> 0]
  /\ expires = [t \in Tasks |-> 0]
  /\ decisions = [t \in Tasks |-> 0]
  /\ call = [c \in Calls |-> Idle]

\* A call that is under way takes its next step.
Step(c) ==
  \/ ReadStatus(c) \/ WriteStatus(c)
  \/ ReleaseExpired(c) \/ SkipRenewed(c) \/ EndReap(c)
  \/ Take(c) \/ QueueEmpty(c) \/ Reread(c) \/ InsertRun(c) \/ GiveBack(c)
  \/ Renew(c) \/ Settle(c) \/ RefuseStale(c)

Request(c) ==
  \/ SelectExpired(c, "reap", Nobody)
  \/ \E w \in Workers : SelectExpired(c, "claim", w)
  \/ \E i \in DOMAIN runs :
       \/ Heartbeat(c, i) \/ StartRun(c, i)
       \/ \E o \in Outcomes : Complete(c, i, o)
  \/ \E t \in Tasks, to \in PersonTo : Decide(c, t, to)

Next ==
  \/ \E c \in Calls : Step(c) \/ Crash(c) \/ Request(c)
  \/ Tick

Spec == Init /\ [][Next]_vars

\* What has begun goes on, and the scheduler runs the reaper again and again: it
\* waits for no other call, only for one of the slots to be free.
FairSpec ==
  /\ Spec
  /\ \A c \in Calls : WF_vars(Step(c))
  /\ SF_vars(\E c \in Calls : SelectExpired(c, "reap", Nobody))

-----------------------------------------------------------------------------
(* Properties.                                                               *)

CallTypeOK(r) ==
  r # Idle =>
    /\ r.pc \in {"move", "write", "reap", "take", "reread", "insert", "renew", "settle"}
    /\ r.op \in {"person", "reap", "claim", "beat", "start", "complete", "fail"}
    /\ r.at \in 0..now /\ r.gen \in Nat /\ r.moves \in Seq(Statuses)
    /\ r.pc \notin {"reap", "take"} => r.t \in Tasks
    /\ r.pc = "settle" => r.run \in DOMAIN runs

TypeOK ==
  /\ now \in 0..MaxTime /\ crashes \in 0..MaxCrashes
  /\ status \in [Tasks -> Statuses]
  /\ attempts \in [Tasks -> 0..MaxAttempts]
  /\ gen \in [Tasks -> Nat] /\ expires \in [Tasks -> Nat] /\ decisions \in [Tasks -> Nat]
  /\ holder \in [Tasks -> Workers \cup {Nobody}]
  /\ mover \in [Tasks -> {"HUMAN", "SYSTEM"}]
  /\ accepted \in [Tasks -> Seq(Nat)]
  /\ runs \in Seq([t : Tasks, worker : Workers, gen : Nat,
                   status : {"RUNNING", "SUCCEEDED", "FAILED", "BLOCKED"}])
  /\ \A c \in Calls : CallTypeOK(call[c])

(* However late, twice and crosswise workers report, and whatever the reaper    *)
(* does meanwhile, the queue is a queue with fencing tokens: a token is granted *)
(* to one worker and its result is accepted at most once, in order              *)
(* (worker-service.ts, releases "WHERE generation AND worker").                 *)
Fence == INSTANCE FencedWork WITH token <- gen, results <- accepted
ImplementsFence == Fence!Spec

(* The board and the log of runs tell the same story: a result moves the task only *)
(* if it is also recorded as the ending of its run, so that no run reads "lost its  *)
(* worker" whose success was taken (the transactions at worker-service.ts:174 and   *)
(* :551; the two updates of each have different conditions).                        *)
AcceptedIsRecorded ==
  [][\A c \in Calls :
       At(c, "settle") /\ call'[c] # call[c] /\ accepted' # accepted =>
         /\ runs[call[c].run].status = "RUNNING"
         /\ runs'[call[c].run].status = RunEnd(call[c].outcome)]_vars

(* There is no endless retry: until a person reopens it, a task costs at most    *)
(* MaxAttempts runs, crashes, refunds and lost leases included                   *)
(* (worker-service.ts:134-141, the claim and its refund).                        *)
NoEndlessRetry ==
  /\ TypeOK
  /\ \A t \in Tasks :
       decisions[t] = 0 => Cardinality({i \in DOMAIN runs : runs[i].t = t}) <= MaxAttempts

\* A person has put the task aside, and nothing moved it since.
Aside(t) == mover[t] = "HUMAN" /\ status[t] \in {"BLOCKED", "NEEDS_OWNER", "CANCELLED"}

\* Call c changes the status of task t in this step.
Moves(c, t) == At(c, "write") /\ call[c].t = t /\ call'[c] # call[c] /\ crashes' = crashes

(* A call that begins after a person put the task aside does not move it, be it *)
(* a claim, the reaper, a start or a report: only a call that had begun before   *)
(* the decision can (the status is read anew at worker-service.ts:563-567).      *)
LaterCallsObeyPeople ==
  [][\A t \in Tasks, c \in Calls :
       Aside(t) /\ Moves(c, t) /\ call[c].op # "person" => call[c].seen[t] < decisions[t]]_vars

(* A lease that ran out is released or renewed in the end, even if servers die    *)
(* while they serve the claim, the reaping or the report (runTechWatchdog).       *)
ExpiredIsReleased ==
  \A t \in Tasks : Expired(t, now) ~> ~Expired(t, now)

=============================================================================
