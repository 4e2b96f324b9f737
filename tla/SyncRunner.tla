----------------------------- MODULE SyncRunner -----------------------------
(* The shell every background job runs in (lib/sync/runner.ts), for one job of  *)
(* one organization: the lock in the memory of the process, the watchdog that   *)
(* frees it after thirty minutes, and the rows of sync_runs. The module has no   *)
(* Next of its own: a job composes these actions with the steps of its body,    *)
(* which are taken while its run is at "work".                                   *)
(*                                                                              *)
(* Time is what has become late: an execution that has used up its thirty        *)
(* minutes, a row that is thirty minutes old. Counters, progress, log lines and *)
(* the notice to browsers are left out.                                          *)
EXTENDS Naturals, Sequences

CONSTANTS
  Slots,     \* slots for executions of the job at the same time
  None,
  MaxRuns    \* bounds the instance: rows of sync_runs

ASSUME NoneIsNoSlot == None \notin Slots

VARIABLES
  lock,      \* runningJobs: the execution that holds the job, or None
  rows,      \* sync_runs: status, and whether it started thirty minutes ago
  exec       \* slot -> [pc, row, late]: late once its watchdog has fired

runner == <<lock, rows, exec>>

Unused == [pc |-> "idle", row |-> 0, late |-> FALSE]
AtWork(e) == exec[e].pc = "work"

RunnerInit ==
  /\ lock = None
  /\ rows = << >>
  /\ exec = [e \in Slots |-> Unused]

RunnerTypeOK ==
  /\ lock \in Slots \cup {None}
  /\ rows \in Seq([status : {"RUNNING", "SUCCESS", "FAILED"}, old : BOOLEAN])
  /\ exec \in [Slots -> [pc : {"idle", "prepare", "insert", "work"},
                         row : 0..Len(rows), late : BOOLEAN]]

\* The check and the hold, with no await between: a call that finds the lock held
\* is skipped.
Start(e) ==
  /\ exec[e] = Unused
  /\ lock = None
  /\ Len(rows) < MaxRuns
  /\ lock' = e
  /\ exec' = [exec EXCEPT ![e].pc = "prepare"]
  /\ UNCHANGED rows

\* The condition under which somebody else than its execution closes a row.
\* Mutant: any old row, whatever it says.
AnyRow(i) == TRUE
StillRunning(i) == rows[i].status = "RUNNING"

\* A start closes the rows, of whatever job, that say RUNNING although they are old.
CloseOrphans(e) ==
  /\ exec[e].pc = "prepare"
  /\ rows' = [i \in DOMAIN rows |-> IF rows[i].old /\ StillRunning(i)
                                    THEN [rows[i] EXCEPT !.status = "FAILED"] ELSE rows[i]]
  /\ exec' = [exec EXCEPT ![e].pc = "insert"]
  /\ UNCHANGED lock

Insert(e) ==
  /\ exec[e].pc = "insert"
  /\ Len(rows) < MaxRuns
  /\ rows' = Append(rows, [status |-> "RUNNING", old |-> FALSE])
  /\ exec' = [exec EXCEPT ![e].pc = "work", ![e].row = Len(rows) + 1]
  /\ UNCHANGED lock

\* releaseJob: by the identity of the hold.
\* Mutant: by the name of the job, whoever holds it.
FreedByName(e) == None
Freed(e) == IF lock = e THEN None ELSE lock

\* The database is not there: the lock is freed, the error thrown.
NotInserted(e) ==
  /\ exec[e].pc \in {"prepare", "insert"}
  /\ lock' = Freed(e)
  /\ exec' = [exec EXCEPT ![e] = Unused]
  /\ UNCHANGED rows

\* The watchdog: thirty minutes after the hold, if it is still this execution's. Its
\* UPDATE of the row lands or is lost; landing after the end it would change nothing.
Watchdog(e, lands) ==
  /\ exec[e].pc # "idle"
  /\ lock = e
  /\ lock' = Freed(e)
  /\ exec' = [exec EXCEPT ![e].late = TRUE]
  /\ LET i == exec[e].row
     IN rows' = IF lands /\ i # 0 /\ StillRunning(i)
                THEN [rows EXCEPT ![i].status = "FAILED"] ELSE rows

\* Thirty minutes after the insert, so after the watchdog: the row is old.
GrowOld(i) ==
  /\ rows[i] = [status |-> "RUNNING", old |-> FALSE]
  /\ \A e \in Slots : exec[e].row = i => exec[e].late
  /\ rows' = [rows EXCEPT ![i].old = TRUE]
  /\ UNCHANGED <<lock, exec>>

\* The end of the body: its outcome is written without a condition, or FAILED if that
\* could not be, or nothing if neither can; then the lock is freed, whatever happened.
Finish(e, outcome, written) ==
  /\ AtWork(e)
  /\ rows' = IF written THEN [rows EXCEPT ![exec[e].row].status = outcome] ELSE rows
  /\ lock' = Freed(e)
  /\ exec' = [exec EXCEPT ![e] = Unused]

\* The process is restarted: what is in memory is gone.
Restart ==
  /\ lock' = None
  /\ exec' = [e \in Slots |-> Unused]
  /\ UNCHANGED rows

\* What the shell does by itself.
RunnerStep ==
  \/ \E e \in Slots : \/ Start(e)
                      \/ CloseOrphans(e)
                      \/ NotInserted(e)
                      \/ \E lands \in BOOLEAN : Watchdog(e, lands)
  \/ \E i \in DOMAIN rows : GrowOld(i)

-----------------------------------------------------------------------------

\* Two executions at work at the same time are two of which one is late at least:
\* a run overlaps only with runs that have used up their thirty minutes. The
\* comment of releaseJob tells how a release by name would let a third one in.
OnlyLateOverlap ==
  \A e, f \in Slots :
    e # f /\ exec[e].pc # "idle" /\ exec[f].pc # "idle" => exec[e].late \/ exec[f].late

\* A row whose execution has ended with an outcome never tells anything else: what a
\* late run has written stands against the sweep of every later start.
OutcomeStands ==
  [][\A i \in DOMAIN rows :
       rows[i].status # "RUNNING" /\ (\A e \in Slots : exec[e].row # i)
         => rows'[i].status = rows[i].status]_runner
=============================================================================
