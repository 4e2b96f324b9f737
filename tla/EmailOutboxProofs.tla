--------------------------- MODULE EmailOutboxProofs ---------------------------
(***************************************************************************)
(* What the runner of a job and the outbox that it empties guarantee for    *)
(* any number of executions, mails and people.                              *)
(*                                                                         *)
(* The argument: an execution that is not late holds the lock. A mail that  *)
(* is SENDING belongs to the one tick that claimed it, if that tick is      *)
(* still there, and nobody else changes it; so the sends under the last     *)
(* approval are no more than the doubts whenever the mail can be claimed    *)
(* again. What a tick has read of a mail it judges fit carries a hash that   *)
(* a person approved. And a tick that began when the lead was silent never   *)
(* judges a mail fit, for a lead that is silent stays so.                    *)
(***************************************************************************)
EXTENDS EmailOutbox, SequenceTheorems, FiniteSetTheorems, TLAPS

Texts   == 1..MaxTexts
SyncRow == [status : {"RUNNING", "SUCCESS", "FAILED"}, old : BOOLEAN]
ExecRecord == [pc : {"idle", "prepare", "insert", "work"}, row : Nat, late : BOOLEAN]
MailRow == [status : {"DRAFT", "APPROVED", "QUEUED", "SENDING", "SENT", "FAILED", "CANCELLED", "BLOCKED"},
            text : Texts, hash : Texts \cup {None}, used : BOOLEAN, attempts : 0..MaxAttempts]
SentRecord == [text : Texts, approval : Nat]
TickRecord == [pc : {"judge", "block", "claim", "send", "ok", "transient", "permanent"},
               stops : SUBSET Stops, began : {"open", "stopped", "silent"},
               left : Seq(Mails \X MailRow)]

\* The runner: who is not late holds the lock, who is at work has a row.
Executes(e) ==
  /\ exec[e].pc = "idle" => exec[e] = Unused
  /\ exec[e].pc = "work" => exec[e].row \in 1..Len(rows)
  /\ exec[e].pc # "work" => exec[e].row = 0
  /\ exec[e].pc # "idle" /\ ~exec[e].late => lock = e

RunnerInv ==
  /\ lock \in Slots \cup {None}
  /\ rows \in Seq(SyncRow)
  /\ exec \in [Slots -> ExecRecord]
  /\ \A e \in Slots : Executes(e)

\* What a person approved, as far as it can be read from a row.
Known(m, row) ==
  row.hash # None => \E n \in 1..Len(approved[m]) : approved[m][n] = row.hash

\* A row of the outbox.
MailSound(m, row) ==
  /\ row \in MailRow
  /\ row.status \in {"DRAFT", "APPROVED"} => row.attempts = 0
  /\ row.status = "QUEUED" => row.attempts < MaxAttempts
  /\ row.status = "SENT" => row.used
  /\ Known(m, row)

MailsInv ==
  /\ mail = [m \in Mails |-> mail[m]]
  /\ \A m \in Mails : MailSound(m, mail[m])

\* What people and settings hold.
Tables ==
  /\ settings \subseteq Stops
  /\ lead \in {"open", "stopped", "silent"}
  /\ request = [p \in People |-> request[p]]
  /\ \A p \in People :
       \/ request[p] = NoRequest
       \/ request[p] \in [op : {"approve"}, mail : Mails, text : Texts]
       \/ request[p] \in [op : {"settings"}, next : SUBSET Stops]
  /\ approved \in [Mails -> Seq(Texts)]
  /\ sent \in [Mails -> Seq(SentRecord)]
  /\ doubts \in [Mails -> Nat]

\* A tick that has a mail in hand.
Fit == {"claim", "send", "ok", "transient", "permanent"}
Looking(t) ==
  /\ t \in TickRecord /\ t.left # <<>>
  /\ \A i \in 1..Len(t.left) : Known(t.left[i][1], t.left[i][2])
  /\ t.began = "silent" => lead = "silent"
  /\ t.pc = "claim" => t.began # "silent"
  /\ t.pc \in Fit => t.left[1][2].hash = t.left[1][2].text

\* A tick that has no mail in hand: it is over, or has read the settings only.
Over == {NoTick, [pc |-> "end"], [pc |-> "failed"]} \cup [pc : {"due"}, stops : SUBSET Stops]
TicksInv ==
  /\ tick = [e \in Slots |-> tick[e]]
  /\ \A e \in Slots : tick[e] \in Over \/ Looking(tick[e])

WorkInv == \A e \in Slots : tick[e] # NoTick => AtWork(e)

\* The tick that claimed a mail, until it has written what came of it.
Owns(t, m) == t.pc \in {"send", "ok", "transient", "permanent"} /\ t.left[1][1] = m

OwnersInv ==
  \A e \in Slots, m \in Mails :
    Owns(tick[e], m) => /\ mail[m].status = "SENDING"
                        /\ \A f \in Slots : Owns(tick[f], m) => f = e

\* The sends of a mail under its n-th approval.
Sends(m, n) == {i \in DOMAIN sent[m] : sent[m][i].approval = n}
Last(m)     == Len(approved[m])

\* It may go out once more under its last approval.
MayGoOut(m) ==
  \/ mail[m].status \notin {"SENDING", "SENT"}
  \/ \E e \in Slots : Owns(tick[e], m) /\ tick[e].pc # "ok"

SendsInv ==
  \A m \in Mails :
    /\ \A i \in 1..Len(sent[m]) :
         /\ sent[m][i].approval <= Last(m)
         /\ \E n \in 1..Last(m) : approved[m][n] = sent[m][i].text
    /\ \A n \in 0..Last(m) : Cardinality(Sends(m, n)) <= 1 + doubts[m]
    /\ MayGoOut(m) => Cardinality(Sends(m, Last(m))) <= doubts[m]

\* The inductive invariant.
IInv == RunnerInv /\ MailsInv /\ Tables /\ TicksInv /\ WorkInv /\ OwnersInv /\ SendsInv

------------------------------------------------------------------------------
(* The runner. *)

\* What is needed of the rows and the executions at a step.
LEMMA RunnerTyped ==
  ASSUME RunnerInv
  PROVE  /\ Len(rows) \in Nat /\ DOMAIN rows = 1..Len(rows)
         /\ \A i \in 1..Len(rows) : rows[i] \in SyncRow
         /\ \A e \in Slots : exec[e] \in ExecRecord
  BY LenProperties DEF RunnerInv

\* Rewriting the rows in place.
LEMMA RowsRewritten ==
  ASSUME RunnerInv, NEW f, f = [i \in DOMAIN rows |-> f[i]], \A i \in 1..Len(rows) : f[i] \in SyncRow
  PROVE  f \in Seq(SyncRow) /\ Len(f) = Len(rows)
<1>1. DOMAIN rows = 1..Len(rows) /\ Len(rows) \in Nat
  BY RunnerTyped
<1>2. f = [i \in 1..Len(rows) |-> f[i]]
  BY <1>1
<1> QED
  BY <1>1, <1>2

\* A step of one execution.
LEMMA ExecKept ==
  ASSUME RunnerInv, NEW e \in Slots, NEW r \in ExecRecord, exec' = [exec EXCEPT ![e] = r],
         lock' \in Slots \cup {None}, rows' \in Seq(SyncRow), Len(rows) <= Len(rows'),
         r.pc = "idle" => r = Unused,
         r.pc = "work" => r.row \in 1..Len(rows'),
         r.pc # "work" => r.row = 0,
         r.pc # "idle" /\ ~r.late => lock' = e,
         \A f \in Slots : f # e => (lock = f => lock' = f)
  PROVE  RunnerInv'
<1>1. exec'[e] = r /\ \A f \in Slots : f # e => exec'[f] = exec[f]
  BY DEF RunnerInv
<1>2. exec' \in [Slots -> ExecRecord]
  BY DEF RunnerInv
<1>3. Len(rows) \in Nat /\ Len(rows') \in Nat
  BY LenProperties DEF RunnerInv
<1>4. Executes(e)'
  BY <1>1 DEF Executes
<1>5. ASSUME NEW f \in Slots, f # e
      PROVE  Executes(f)'
  <2>1. Executes(f) /\ exec'[f] = exec[f]
    BY <1>1, <1>5 DEF RunnerInv
  <2>2. exec[f].row \in 1..Len(rows) => exec[f].row \in 1..Len(rows')
    BY <1>3
  <2> QED
    BY <1>5, <2>1, <2>2 DEF Executes
<1> QED
  BY <1>2, <1>4, <1>5 DEF RunnerInv

\* An execution starts only when nobody holds the lock, and takes it.
LEMMA StartKeeps ==
  ASSUME RunnerInv, NEW e \in Slots, Start(e)
  PROVE  RunnerInv'
<1> PICK r : r = [exec[e] EXCEPT !.pc = "prepare"]
  OBVIOUS
<1>1. exec[e] = Unused /\ lock = None /\ lock' = e /\ rows' = rows
  BY DEF Start
<1>2. exec[e] \in ExecRecord /\ exec[e].row = 0
  BY <1>1, RunnerTyped DEF Unused
<1>3. r \in ExecRecord /\ r.pc = "prepare" /\ r.row = 0
  BY <1>2 DEF ExecRecord
<1>4. exec' = [exec EXCEPT ![e] = r]
  BY DEF Start
<1>5. rows' \in Seq(SyncRow) /\ Len(rows) <= Len(rows')
  BY <1>1, RunnerTyped DEF RunnerInv
<1>6. lock' \in Slots \cup {None} /\ \A f \in Slots : f # e => (lock = f => lock' = f)
  BY <1>1, NoneIsNoSlot
<1> QED
  BY <1>1, <1>3, <1>4, <1>5, <1>6, ExecKept

\* The sweep of orphans writes rows and no execution.
LEMMA CloseOrphansKeeps ==
  ASSUME RunnerInv, NEW e \in Slots, CloseOrphans(e)
  PROVE  RunnerInv'
<1> PICK r : r = [exec[e] EXCEPT !.pc = "insert"]
  OBVIOUS
<1>1. exec[e] \in ExecRecord /\ exec[e].pc = "prepare" /\ Executes(e)
  BY RunnerTyped DEF CloseOrphans, RunnerInv
<1>2. r \in ExecRecord /\ r.pc = "insert" /\ r.row = 0 /\ (r.late <=> exec[e].late)
  BY <1>1 DEF ExecRecord, Executes
<1>3. lock' = lock /\ exec' = [exec EXCEPT ![e] = r]
  BY DEF CloseOrphans
<1>4. rows' \in Seq(SyncRow) /\ Len(rows') = Len(rows)
  <2>1. ASSUME NEW i \in 1..Len(rows)
        PROVE  rows'[i] \in SyncRow
    <3>1. rows[i] \in SyncRow
      BY RunnerTyped
    <3>2. rows'[i] = rows[i] \/ rows'[i] = [rows[i] EXCEPT !.status = "FAILED"]
      BY RunnerTyped DEF CloseOrphans
    <3> QED
      BY <3>1, <3>2 DEF SyncRow
  <2>2. rows' = [i \in DOMAIN rows |-> rows'[i]]
    BY DEF CloseOrphans
  <2> QED
    BY <2>1, <2>2, RowsRewritten
<1> QED
  BY <1>1, <1>2, <1>3, <1>4, RunnerTyped, ExecKept DEF RunnerInv, Executes

\* The row an execution inserts is its own.
LEMMA InsertKeeps ==
  ASSUME RunnerInv, NEW e \in Slots, Insert(e)
  PROVE  RunnerInv'
<1> PICK r : r = [exec[e] EXCEPT !.pc = "work", !.row = Len(rows) + 1]
  OBVIOUS
<1>1. exec[e] \in ExecRecord /\ exec[e].pc = "insert" /\ Executes(e) /\ Len(rows) \in Nat
  BY RunnerTyped DEF Insert, RunnerInv
<1>2. r \in ExecRecord /\ r.pc = "work" /\ r.row = Len(rows) + 1 /\ (r.late <=> exec[e].late)
  <2>1. Len(rows) + 1 \in Nat
    BY <1>1
  <2> QED
    BY <1>1, <2>1 DEF ExecRecord
<1>3. lock' = lock /\ exec' = [exec EXCEPT ![e] = r]
  BY DEF Insert
<1>4. rows' \in Seq(SyncRow) /\ Len(rows') = Len(rows) + 1
  <2> PICK x : x = [status |-> "RUNNING", old |-> FALSE]
    OBVIOUS
  <2>1. x \in SyncRow /\ rows' = Append(rows, x)
    BY DEF SyncRow, Insert
  <2> QED
    BY <2>1, AppendProperties DEF RunnerInv
<1> QED
  BY <1>1, <1>2, <1>3, <1>4, ExecKept DEF RunnerInv, Executes

\* NotInserted, Finish: the execution is over.
LEMMA LeavingKeeps ==
  ASSUME RunnerInv, NEW e \in Slots, lock' = Freed(e), exec' = [exec EXCEPT ![e] = Unused],
         rows' \in Seq(SyncRow), Len(rows) <= Len(rows')
  PROVE  RunnerInv'
<1>1. Unused \in ExecRecord /\ Unused.pc = "idle" /\ Unused.row = 0
  BY DEF Unused, ExecRecord
<1>2. lock' \in Slots \cup {None} /\ \A f \in Slots : f # e => (lock = f => lock' = f)
  BY DEF Freed, RunnerInv
<1> QED
  BY <1>1, <1>2, ExecKept

\* An execution whose insert fails is over and lets go of the lock if it is its.
LEMMA NotInsertedKeeps ==
  ASSUME RunnerInv, NEW e \in Slots, NotInserted(e)
  PROVE  RunnerInv'
<1>1. lock' = Freed(e) /\ exec' = [exec EXCEPT ![e] = Unused] /\ rows' = rows
  BY DEF NotInserted
<1>2. rows' \in Seq(SyncRow) /\ Len(rows) <= Len(rows')
  BY <1>1, RunnerTyped DEF RunnerInv
<1> QED
  BY <1>1, <1>2, LeavingKeeps

\* One row gets another status.
LEMMA RowClosed ==
  ASSUME RunnerInv, NEW i \in 1..Len(rows), NEW s \in {"RUNNING", "SUCCESS", "FAILED"},
         NEW f, f = [rows EXCEPT ![i].status = s]
  PROVE  /\ f \in Seq(SyncRow) /\ Len(f) = Len(rows)
         /\ \A j \in 1..Len(rows) : j # i => f[j] = rows[j]
<1>1. rows[i] \in SyncRow
  BY RunnerTyped
<1>2. [rows[i] EXCEPT !.status = s] \in SyncRow
  BY <1>1 DEF SyncRow
<1> QED
  BY <1>2 DEF RunnerInv

\* An execution that ends lets go only of a lock that is still its own.
LEMMA FinishKeeps ==
  ASSUME RunnerInv, NEW e \in Slots, NEW o \in {"SUCCESS", "FAILED"}, NEW w \in BOOLEAN, Finish(e, o, w)
  PROVE  RunnerInv'
<1>1. lock' = Freed(e) /\ exec' = [exec EXCEPT ![e] = Unused]
  BY DEF Finish
<1>2. exec[e].row \in 1..Len(rows)
  BY DEF Finish, AtWork, RunnerInv, Executes
<1>3. rows' = rows \/ rows' = [rows EXCEPT ![exec[e].row].status = o]
  BY DEF Finish
<1>4. rows' \in Seq(SyncRow) /\ Len(rows) <= Len(rows')
  BY <1>2, <1>3, RowClosed, RunnerTyped DEF RunnerInv
<1> QED
  BY <1>1, <1>4, LeavingKeeps

\* The watchdog makes an execution late, and late ones need not hold the lock.
LEMMA WatchdogKeeps ==
  ASSUME RunnerInv, NEW e \in Slots, NEW lands \in BOOLEAN, Watchdog(e, lands)
  PROVE  RunnerInv'
<1> PICK r : r = [exec[e] EXCEPT !.late = TRUE]
  OBVIOUS
<1>1. exec[e] \in ExecRecord /\ exec[e].pc # "idle" /\ Executes(e) /\ lock' = Freed(e)
  BY RunnerTyped DEF Watchdog, RunnerInv
<1>2. r \in ExecRecord /\ r.pc = exec[e].pc /\ r.row = exec[e].row /\ r.late
  BY <1>1 DEF ExecRecord
<1>3. exec' = [exec EXCEPT ![e] = r]
  BY DEF Watchdog
<1>4. rows' = rows \/ (exec[e].row # 0 /\ rows' = [rows EXCEPT ![exec[e].row].status = "FAILED"])
  BY DEF Watchdog
<1>5. rows' \in Seq(SyncRow) /\ Len(rows') = Len(rows)
  BY <1>1, <1>4, RowClosed, RunnerTyped, SMTT(30) DEF RunnerInv, Executes
<1>6. lock' \in Slots \cup {None} /\ \A f \in Slots : f # e => (lock = f => lock' = f)
  BY <1>1 DEF Freed, RunnerInv
<1>7. Len(rows) <= Len(rows') /\ (r.pc = "work" => r.row \in 1..Len(rows')) /\ (r.pc # "work" => r.row = 0)
  BY <1>1, <1>2, <1>5, RunnerTyped DEF Executes
<1> QED
  BY <1>1, <1>2, <1>3, <1>5, <1>6, <1>7, ExecKept

\* A row that grows old keeps its status.
LEMMA GrowOldKeeps ==
  ASSUME RunnerInv, NEW i \in DOMAIN rows, GrowOld(i)
  PROVE  RunnerInv'
<1>1. i \in 1..Len(rows) /\ rows[i] \in SyncRow /\ Len(rows) \in Nat
  BY RunnerTyped
<1>2. [rows[i] EXCEPT !.old = TRUE] \in SyncRow
  BY <1>1 DEF SyncRow
<1>3. rows' \in Seq(SyncRow) /\ Len(rows') = Len(rows)
  BY <1>1, <1>2 DEF GrowOld, RunnerInv
<1>4. lock' = lock /\ exec' = exec
  BY DEF GrowOld
<1> QED
  BY <1>1, <1>3, <1>4 DEF RunnerInv, Executes

\* A restart ends every execution and empties the lock.
LEMMA RestartKeeps ==
  ASSUME RunnerInv, Restart
  PROVE  RunnerInv'
<1>1. lock' = None /\ rows' = rows /\ exec' = [e \in Slots |-> Unused]
  BY DEF Restart
<1>2. Unused \in ExecRecord /\ Unused.pc = "idle" /\ Unused.row = 0
  BY DEF Unused, ExecRecord
<1> QED
  BY <1>1, <1>2 DEF RunnerInv, Executes

\* The runner starts with no execution and no lock.
LEMMA RunnerStarts == RunnerInit => RunnerInv
<1>1. Unused \in ExecRecord /\ Unused.pc = "idle" /\ Unused.row = 0 /\ <<>> \in Seq(SyncRow)
  BY DEF Unused, ExecRecord
<1> QED
  BY <1>1 DEF RunnerInit, RunnerInv, Executes

\* Whatever the shell does by itself.
RunnerMoves == RunnerStep \/ \E e \in Slots : Insert(e)

\* No step of the runner alone breaks its invariant.
LEMMA RunnerKeeps ==
  ASSUME RunnerInv, RunnerMoves
  PROVE  RunnerInv'
  BY StartKeeps, CloseOrphansKeeps, NotInsertedKeeps, WatchdogKeeps, GrowOldKeeps, InsertKeeps
     DEF RunnerMoves, RunnerStep

\* Who is at work stays so while the runner serves others.
LEMMA AtWorkStays ==
  ASSUME RunnerInv, RunnerMoves, NEW e \in Slots, AtWork(e)
  PROVE  AtWork(e)'
<1>1. exec \in [Slots -> ExecRecord] /\ exec[e] \in ExecRecord /\ exec[e].pc = "work"
  BY RunnerTyped DEF AtWork, RunnerInv
<1>2. ASSUME NEW f \in Slots, NEW r, exec' = [exec EXCEPT ![f] = r], f # e \/ r.pc = "work"
      PROVE  exec'[e].pc = "work"
  BY <1>1, <1>2
<1>3. ASSUME NEW f \in Slots, Start(f)
      PROVE  exec'[e].pc = "work"
  BY <1>1, <1>2, <1>3 DEF Start, Unused
<1>4. ASSUME NEW f \in Slots, CloseOrphans(f) \/ NotInserted(f)
      PROVE  exec'[e].pc = "work"
  BY <1>1, <1>2, <1>4 DEF CloseOrphans, NotInserted
<1>5. ASSUME NEW f \in Slots, Insert(f)
      PROVE  exec'[e].pc = "work"
  BY <1>1, <1>5 DEF Insert
<1>6. ASSUME NEW f \in Slots, NEW lands \in BOOLEAN, Watchdog(f, lands)
      PROVE  exec'[e].pc = "work"
  <2>1. exec' = [exec EXCEPT ![f].late = TRUE]
    BY <1>6 DEF Watchdog
  <2> QED
    BY <1>1, <2>1 DEF ExecRecord
<1>7. ASSUME NEW i \in DOMAIN rows, GrowOld(i)
      PROVE  exec'[e].pc = "work"
  BY <1>1, <1>7 DEF GrowOld
<1> QED
  BY <1>3, <1>4, <1>5, <1>6, <1>7 DEF RunnerMoves, RunnerStep, AtWork

------------------------------------------------------------------------------
(* What is not touched stays sound. *)

\* Approvals are only added, and a lead that is silent stays so.
Grows ==
  /\ lead = "silent" => lead' = "silent"
  /\ \A m \in Mails :
       /\ Len(approved[m]) \in Nat /\ Len(approved'[m]) \in Nat
       /\ Len(approved[m]) <= Len(approved'[m])
       /\ \A n \in 1..Len(approved[m]) : approved'[m][n] = approved[m][n]

\* Where nobody approves, what is approved only grows.
LEMMA NothingApproved ==
  ASSUME Tables, UNCHANGED approved, lead = "silent" => lead' = "silent"
  PROVE  Grows
<1>1. \A m \in Mails : approved[m] \in Seq(Texts)
  BY DEF Tables
<1> QED
  BY <1>1, LenProperties DEF Grows

\* What a person approved stays approved.
LEMMA KnownOn ==
  ASSUME Grows, NEW m \in Mails, NEW row, Known(m, row)
  PROVE  Known(m, row)'
<1>1. CASE row.hash = None
  BY <1>1 DEF Known
<1>2. CASE row.hash # None
  <2>1. PICK n \in 1..Len(approved[m]) : approved[m][n] = row.hash
    BY <1>2 DEF Known
  <2>2. n \in 1..Len(approved'[m]) /\ approved'[m][n] = row.hash
    BY <2>1 DEF Grows
  <2> QED
    BY <2>2 DEF Known
<1> QED
  BY <1>1, <1>2

\* The mail a tick has in hand.
LEMMA HandTyped ==
  ASSUME NEW t, Looking(t)
  PROVE  /\ t \in TickRecord /\ t.left \in Seq(Mails \X MailRow) /\ Len(t.left) \in Nat \ {0}
         /\ \A i \in 1..Len(t.left) : t.left[i][1] \in Mails /\ t.left[i][2] \in MailRow
         /\ Head(t.left) = t.left[1]
         /\ Tail(t.left) \in Seq(Mails \X MailRow) /\ Len(Tail(t.left)) = Len(t.left) - 1
         /\ \A i \in 1..Len(Tail(t.left)) : Tail(t.left)[i] = t.left[i + 1]
<1>1. t \in TickRecord /\ t.left \in Seq(Mails \X MailRow) /\ t.left # <<>>
  BY DEF Looking, TickRecord
<1>2. Len(t.left) \in Nat \ {0}
  BY <1>1, EmptySeq, LenProperties
<1>3. \A i \in 1..Len(t.left) : t.left[i] \in Mails \X MailRow
  BY <1>1
<1> QED
  BY <1>1, <1>2, <1>3, HeadTailProperties

\* A tick that has a mail in hand stays sound while others approve.
LEMMA LookingOn ==
  ASSUME Grows, NEW t, Looking(t)
  PROVE  Looking(t)'
<1>1. ASSUME NEW i \in 1..Len(t.left)
      PROVE  Known(t.left[i][1], t.left[i][2])'
  <2>1. t.left[i][1] \in Mails /\ Known(t.left[i][1], t.left[i][2])
    BY HandTyped DEF Looking
  <2> QED
    BY <2>1, KnownOn
<1>2. t.began = "silent" => lead' = "silent"
  BY DEF Looking, Grows
<1> QED
  BY <1>1, <1>2 DEF Looking

\* One tick changes, or none.
LEMMA TicksKept ==
  ASSUME TicksInv, Grows, NEW e \in Slots, NEW t, Step(e, t), t \in Over \/ Looking(t)'
  PROVE  TicksInv' /\ tick'[e] = t /\ \A f \in Slots : f # e => tick'[f] = tick[f]
<1>1. /\ tick' = [f \in Slots |-> tick'[f]] /\ tick'[e] = t
      /\ \A f \in Slots : f # e => tick'[f] = tick[f]
  BY DEF TicksInv, Step
<1>2. ASSUME NEW f \in Slots, f # e
      PROVE  tick'[f] \in Over \/ Looking(tick[f])'
  <2>1. PICK u : u = tick[f]
    OBVIOUS
  <2>2. u \in Over \/ Looking(u)'
    BY <2>1, LookingOn DEF TicksInv
  <2>3. tick'[f] = u
    BY <1>1, <1>2, <2>1
  <2> QED
    BY <2>2, <2>3 DEF Looking, Over, NoTick
<1>3. tick'[e] \in Over \/ Looking(tick[e])'
  BY <1>1 DEF Looking, Over, NoTick
<1> QED
  BY <1>1, <1>2, <1>3 DEF TicksInv

\* So do all ticks, where none moves.
LEMMA TicksOn ==
  ASSUME TicksInv, Grows, UNCHANGED tick
  PROVE  TicksInv'
<1>1. ASSUME NEW f \in Slots
      PROVE  tick'[f] \in Over \/ Looking(tick[f])'
  <2>1. PICK u : u = tick[f]
    OBVIOUS
  <2>2. u \in Over \/ Looking(u)'
    BY <2>1, LookingOn DEF TicksInv
  <2> QED
    BY <2>1, <2>2 DEF Looking, Over, NoTick
<1> QED
  BY <1>1 DEF TicksInv

\* One mail changes, or none.
LEMMA MailKept ==
  ASSUME MailsInv, Grows, NEW m \in Mails, NEW row, Put(m, row), MailSound(m, row)'
  PROVE  MailsInv' /\ mail'[m] = row /\ \A q \in Mails : q # m => mail'[q] = mail[q]
<1>1. /\ mail' = [q \in Mails |-> mail'[q]] /\ mail'[m] = row
      /\ \A q \in Mails : q # m => mail'[q] = mail[q]
  BY DEF MailsInv, Put
<1>2. ASSUME NEW q \in Mails, q # m
      PROVE  MailSound(q, mail[q])'
  <2>1. PICK u : u = mail[q]
    OBVIOUS
  <2>2. MailSound(q, u)'
    BY <2>1, KnownOn DEF MailsInv, MailSound
  <2>3. mail'[q] = u
    BY <1>1, <1>2, <2>1
  <2> QED
    BY <2>2, <2>3 DEF MailSound, Known
<1>3. MailSound(m, mail[m])'
  BY <1>1 DEF MailSound, Known
<1> QED
  BY <1>1, <1>2, <1>3 DEF MailsInv

\* And all mails, where none changes.
LEMMA MailsOn ==
  ASSUME MailsInv, Grows, UNCHANGED mail
  PROVE  MailsInv'
<1>1. ASSUME NEW q \in Mails
      PROVE  MailSound(q, mail[q])'
  <2>1. PICK u : u = mail[q]
    OBVIOUS
  <2>2. MailSound(q, u)'
    BY <2>1, KnownOn DEF MailsInv, MailSound
  <2> QED
    BY <2>1, <2>2 DEF MailSound, Known
<1> QED
  BY <1>1 DEF MailsInv

\* Nobody claims.
LEMMA OwnersKept ==
  ASSUME OwnersInv,
         \A e \in Slots, m \in Mails : Owns(tick'[e], m) =>
                                         Owns(tick[e], m) /\ mail'[m].status = "SENDING"
  PROVE  OwnersInv'
  BY DEF OwnersInv, Owns

\* Nothing goes out, is doubted or approved.
LEMMA SendsKept ==
  ASSUME SendsInv, UNCHANGED <<approved, sent, doubts>>,
         \A m \in Mails : MayGoOut(m)' => MayGoOut(m)
  PROVE  SendsInv'
<1>1. ASSUME NEW m \in Mails
      PROVE  Last(m)' = Last(m) /\ \A n : Sends(m, n)' = Sends(m, n)
  BY DEF Last, Sends
<1> QED
  BY <1>1 DEF SendsInv

------------------------------------------------------------------------------
(* The runner's steps, and the death of the process. *)

\* A step of the runner alone leaves the outbox as it is.
LEMMA RunnerStepKeeps ==
  ASSUME IInv, RunnerMoves, UNCHANGED <<outbox, histories>>
  PROVE  IInv'
<1>1. UNCHANGED <<mail, settings, lead, tick, request, approved, sent, doubts>>
  BY DEF outbox, histories
<1>2. RunnerInv'
  BY RunnerKeeps DEF IInv
<1>3. Grows
  BY <1>1, NothingApproved DEF IInv
<1>4. MailsInv' /\ TicksInv' /\ Tables'
  BY <1>1, <1>3, MailsOn, TicksOn DEF IInv, Tables
<1>5. WorkInv'
  BY <1>1, AtWorkStays DEF IInv, WorkInv
<1>6. OwnersInv' /\ SendsInv'
  BY <1>1, OwnersKept, SendsKept DEF IInv, MayGoOut, Owns, OwnersInv
<1> QED
  BY <1>2, <1>4, <1>5, <1>6 DEF IInv

\* A restart takes the ticks with it; the mails they had claimed stay SENDING.
LEMMA CrashKeeps ==
  ASSUME IInv, Crash
  PROVE  IInv'
<1>1. /\ Restart /\ tick' = [e \in Slots |-> NoTick] /\ request' = [p \in People |-> NoRequest]
      /\ UNCHANGED <<mail, settings, lead, approved, sent, doubts>>
  BY DEF Crash, histories
<1>2. RunnerInv'
  BY <1>1, RestartKeeps DEF IInv
<1>3. Grows
  BY <1>1, NothingApproved DEF IInv
<1>4. MailsInv'
  BY <1>1, <1>3, MailsOn DEF IInv
<1>5. TicksInv' /\ WorkInv'
  BY <1>1 DEF TicksInv, Over, WorkInv
<1>6. Tables'
  BY <1>1 DEF IInv, Tables
<1>7. \A e \in Slots, m \in Mails : ~Owns(tick'[e], m)
  BY <1>1 DEF Owns, NoTick
<1>8. OwnersInv'
  BY <1>7 DEF OwnersInv
<1>9. \A m \in Mails : MayGoOut(m)' => MayGoOut(m)
  BY <1>1, <1>7 DEF MayGoOut
<1>10. SendsInv'
  BY <1>1, <1>9, SendsKept DEF IInv
<1> QED
  BY <1>2, <1>4, <1>5, <1>6, <1>8, <1>10 DEF IInv

------------------------------------------------------------------------------
(* What people do. *)

\* Something is done about a mail that is not being sent.
LEMMA RowKeeps ==
  ASSUME IInv, NEW m \in Mails, NEW row, Put(m, row), MailSound(m, row),
         mail[m].status \notin {"SENDING", "SENT"}, Tables',
         UNCHANGED <<runner, tick, lead, approved, sent, doubts>>
  PROVE  IInv'
<1>1. Grows
  BY NothingApproved DEF IInv
<1>2. MailSound(m, row)'
  BY <1>1, KnownOn DEF MailSound
<1>3. MailsInv' /\ mail'[m] = row /\ \A q \in Mails : q # m => mail'[q] = mail[q]
  BY <1>1, <1>2, MailKept DEF IInv
<1>4. TicksInv'
  BY <1>1, TicksOn DEF IInv
<1>5. RunnerInv' /\ WorkInv'
  BY DEF IInv, runner, RunnerInv, Executes, WorkInv, AtWork
<1>6. \A e \in Slots, q \in Mails : Owns(tick'[e], q) => Owns(tick[e], q) /\ mail'[q].status = "SENDING"
  BY <1>3 DEF IInv, OwnersInv
<1>7. OwnersInv'
  BY <1>6, OwnersKept DEF IInv
<1>8. \A q \in Mails : MayGoOut(q)' => MayGoOut(q)
  BY <1>3 DEF MayGoOut, Owns
<1>9. SendsInv'
  BY <1>8, SendsKept DEF IInv
<1> QED
  BY <1>3, <1>4, <1>5, <1>7, <1>9 DEF IInv

\* Nothing is done about the mails.
LEMMA NoRowKeeps ==
  ASSUME IInv, Tables', UNCHANGED <<runner, mail, tick, approved, sent, doubts>>,
         lead = "silent" => lead' = "silent"
  PROVE  IInv'
<1>1. Grows
  BY NothingApproved DEF IInv
<1>2. MailsInv' /\ TicksInv'
  BY <1>1, MailsOn, TicksOn DEF IInv
<1>3. RunnerInv' /\ WorkInv'
  BY DEF IInv, runner, RunnerInv, Executes, WorkInv, AtWork
<1>4. OwnersInv' /\ SendsInv'
  BY OwnersKept, SendsKept DEF IInv, MayGoOut, Owns, OwnersInv
<1> QED
  BY <1>2, <1>3, <1>4 DEF IInv

\* Every row of the outbox is sound.
LEMMA MailIs ==
  ASSUME IInv, NEW m \in Mails
  PROVE  mail[m] \in MailRow /\ MailSound(m, mail[m])
  BY DEF IInv, MailsInv, MailSound

\* An edit makes the mail a draft that has to be approved again.
LEMMA EditKeeps ==
  ASSUME IInv, NEW m \in Mails, Edit(m)
  PROVE  IInv'
<1> PICK r : r = mail[m]
  OBVIOUS
<1> DEFINE k == [r EXCEPT !.status = "DRAFT", !.text = @ + 1, !.hash = None]
<1>1. r \in MailRow /\ MailSound(m, r) /\ r.status \in {"DRAFT", "APPROVED"} /\ r.text < MaxTexts
  BY MailIs DEF Edit
<1>2. r.text + 1 \in Texts
  BY <1>1, OutboxAssumption DEF MailRow, Texts
<1>3. k \in MailRow /\ k.status = "DRAFT" /\ k.hash = None /\ k.attempts = r.attempts
  BY <1>1, <1>2 DEF MailRow
<1>4. Put(m, k) /\ UNCHANGED <<runner, settings, lead, tick, request, approved, sent, doubts>>
  BY DEF Edit, ByPerson
<1> HIDE DEF k
<1>5. MailSound(m, k)
  BY <1>1, <1>3 DEF MailSound, Known
<1>6. Tables'
  BY <1>4 DEF IInv, Tables
<1> QED
  BY <1>1, <1>4, <1>5, <1>6, RowKeeps

\* A mail is queued with the hash it was approved with.
LEMMA QueueKeeps ==
  ASSUME IInv, NEW m \in Mails, Queue(m)
  PROVE  IInv'
<1> PICK r : r = mail[m]
  OBVIOUS
<1> DEFINE k == [r EXCEPT !.status = "QUEUED"]
<1>1. r \in MailRow /\ MailSound(m, r) /\ r.status = "APPROVED"
  BY MailIs DEF Queue
<1>2. k \in MailRow /\ k.status = "QUEUED" /\ k.hash = r.hash /\ k.attempts = r.attempts
  BY <1>1 DEF MailRow
<1>3. Put(m, k) /\ UNCHANGED <<runner, settings, lead, tick, request, approved, sent, doubts>>
  BY DEF Queue, ByPerson
<1> HIDE DEF k
<1>4. MailSound(m, k)
  BY <1>1, <1>2, OutboxAssumption DEF MailSound, Known
<1>5. Tables'
  BY <1>3 DEF IInv, Tables
<1> QED
  BY <1>1, <1>3, <1>4, <1>5, RowKeeps

\* The rows that are cancelled stay sound.
LEMMA CancelledIs ==
  ASSUME NEW m \in Mails, NEW r, MailSound(m, r)
  PROVE  LET k == [r EXCEPT !.status = "CANCELLED"]
         IN  MailSound(m, k) /\ k.status = "CANCELLED"
<1> DEFINE k == [r EXCEPT !.status = "CANCELLED"]
<1>1. r \in MailRow
  BY DEF MailSound
<1>2. k \in MailRow /\ k.status = "CANCELLED" /\ k.hash = r.hash
  BY <1>1 DEF MailRow
<1> HIDE DEF k
<1>3. MailSound(m, k)
  BY <1>2 DEF MailSound, Known
<1> QED
  BY <1>2, <1>3 DEF k

\* A mail is cancelled only before it is SENDING.
LEMMA CancelKeeps ==
  ASSUME IInv, NEW m \in Mails, Cancel(m)
  PROVE  IInv'
<1> PICK r : r = mail[m]
  OBVIOUS
<1> PICK k : k = [r EXCEPT !.status = "CANCELLED"]
  OBVIOUS
<1>1. MailSound(m, k)
  BY MailIs, CancelledIs
<1>2. Put(m, k) /\ UNCHANGED <<runner, settings, lead, tick, request, approved, sent, doubts>>
  BY DEF Cancel, ByPerson
<1>3. mail[m].status \notin {"SENDING", "SENT"}
  BY DEF Cancel, Cancellable
<1>4. Tables'
  BY <1>2 DEF IInv, Tables
<1> QED
  BY <1>1, <1>2, <1>3, <1>4, RowKeeps

\* A mail reopened is a draft, with no attempts.
LEMMA ReopenKeeps ==
  ASSUME IInv, NEW m \in Mails, Reopen(m)
  PROVE  IInv'
<1> PICK r : r = mail[m]
  OBVIOUS
<1> DEFINE k == [r EXCEPT !.status = "DRAFT", !.hash = None, !.used = FALSE, !.attempts = 0]
<1>1. r \in MailRow /\ r.status \in {"BLOCKED", "FAILED"}
  BY MailIs DEF Reopen
<1>2. k \in MailRow /\ k.status = "DRAFT" /\ k.hash = None /\ k.attempts = 0
  <2>1. 0 \in 0..MaxAttempts
    BY OutboxAssumption
  <2>2. k.status = "DRAFT" /\ k.hash = None /\ k.attempts = 0
    BY <1>1 DEF MailRow
  <2>3. k \in MailRow
    BY <1>1, <2>1 DEF MailRow
  <2> QED
    BY <2>2, <2>3
<1>3. Put(m, k) /\ UNCHANGED <<runner, settings, lead, tick, request, approved, sent, doubts>>
  BY DEF Reopen, ByPerson
<1> HIDE DEF k
<1>4. MailSound(m, k)
  BY <1>2 DEF MailSound, Known
<1>5. Tables'
  BY <1>3 DEF IInv, Tables
<1> QED
  BY <1>1, <1>3, <1>4, <1>5, RowKeeps

\* A request is taken up, or answered.
LEMMA RequestKept ==
  ASSUME Tables, NEW p \in People, NEW q, request' = [request EXCEPT ![p] = q],
         \/ q = NoRequest
         \/ q \in [op : {"approve"}, mail : Mails, text : Texts]
         \/ q \in [op : {"settings"}, next : SUBSET Stops]
  PROVE  /\ request' = [x \in People |-> request'[x]]
         /\ \A x \in People :
              \/ request'[x] = NoRequest
              \/ request'[x] \in [op : {"approve"}, mail : Mails, text : Texts]
              \/ request'[x] \in [op : {"settings"}, next : SUBSET Stops]
<1>1. /\ request' = [x \in People |-> request'[x]] /\ request'[p] = q
      /\ \A x \in People : x # p => request'[x] = request[x]
  BY DEF Tables
<1> QED
  BY <1>1 DEF Tables

\* A person who is about to approve has read the text and written nothing.
LEMMA BeginApproveKeeps ==
  ASSUME IInv, NEW p \in People, NEW m \in Mails, BeginApprove(p, m)
  PROVE  IInv'
<1> PICK q : q = [op |-> "approve", mail |-> m, text |-> mail[m].text]
  OBVIOUS
<1>1. q \in [op : {"approve"}, mail : Mails, text : Texts]
  BY MailIs DEF MailRow
<1>2. /\ request' = [request EXCEPT ![p] = q]
      /\ UNCHANGED <<runner, mail, settings, lead, tick, approved, sent, doubts>>
  BY DEF BeginApprove, ByPerson
<1>3. Tables'
  BY <1>1, <1>2, RequestKept DEF IInv, Tables
<1> QED
  BY <1>2, <1>3, NoRowKeeps

\* A person who is about to change the settings has only read them.
LEMMA ReadSettingsKeeps ==
  ASSUME IInv, NEW p \in People, NEW set \in SUBSET Stops, NEW clear, ReadSettings(p, set, clear)
  PROVE  IInv'
<1> PICK q : q = [op |-> "settings", next |-> (settings \cup set) \ clear]
  OBVIOUS
<1>1. q \in [op : {"settings"}, next : SUBSET Stops]
  BY DEF IInv, Tables
<1>2. /\ request' = [request EXCEPT ![p] = q]
      /\ UNCHANGED <<runner, mail, settings, lead, tick, approved, sent, doubts>>
  BY DEF ReadSettings, histories
<1>3. Tables'
  BY <1>1, <1>2, RequestKept DEF IInv, Tables
<1> QED
  BY <1>2, <1>3, NoRowKeeps

\* Settings that are written whole are still settings.
LEMMA WriteSettingsKeeps ==
  ASSUME IInv, NEW p \in People, WriteSettings(p)
  PROVE  IInv'
<1>1. settings' \subseteq Stops
  <2>1. request[p].op = "settings" /\ settings' = request[p].next
    BY DEF WriteSettings
  <2>2. request[p] \in [op : {"settings"}, next : SUBSET Stops]
    BY <2>1 DEF IInv, Tables, NoRequest
  <2> QED
    BY <2>1, <2>2
<1>2. /\ request' = [request EXCEPT ![p] = NoRequest]
      /\ UNCHANGED <<runner, mail, lead, tick, approved, sent, doubts>>
  BY DEF WriteSettings
<1>3. Tables'
  BY <1>1, <1>2, RequestKept DEF IInv, Tables
<1> QED
  BY <1>2, <1>3, NoRowKeeps

\* A lead that stops is not silent yet.
LEMMA LeadStopsKeeps ==
  ASSUME IInv, LeadStops
  PROVE  IInv'
<1>1. /\ lead = "open" /\ lead' = "stopped"
      /\ UNCHANGED <<runner, mail, settings, tick, request, approved, sent, doubts>>
  BY DEF LeadStops, histories
<1>2. Tables'
  BY <1>1 DEF IInv, Tables
<1> QED
  BY <1>1, <1>2, NoRowKeeps

\* The mails of a lead that stopped are cancelled, and it is silent from then on.
LEMMA StopPendingKeeps ==
  ASSUME IInv, StopPending
  PROVE  IInv'
<1>1. /\ lead' = "silent"
      /\ mail' = [m \in Mails |-> IF mail[m].status \in Cancellable
                                  THEN [mail[m] EXCEPT !.status = "CANCELLED"] ELSE mail[m]]
      /\ UNCHANGED <<runner, settings, tick, request, approved, sent, doubts>>
  BY DEF StopPending, histories
<1>2. Grows
  BY <1>1, NothingApproved DEF IInv
<1>3. ASSUME NEW m \in Mails
      PROVE  /\ MailSound(m, mail[m])'
             /\ mail[m].status \in {"SENDING", "SENT"} => mail'[m] = mail[m]
             /\ mail'[m].status \in {"SENDING", "SENT"} => mail'[m] = mail[m]
  <2> PICK r : r = mail[m]
    OBVIOUS
  <2> PICK k : k = [r EXCEPT !.status = "CANCELLED"]
    OBVIOUS
  <2>1. MailSound(m, r) /\ MailSound(m, k) /\ k.status = "CANCELLED"
    BY MailIs, CancelledIs
  <2>2. MailSound(m, r)' /\ MailSound(m, k)'
    BY <1>2, <2>1, KnownOn DEF MailSound
  <2>3. mail'[m] = IF r.status \in Cancellable THEN k ELSE r
    BY <1>1
  <2>4. mail'[m] = k \/ mail'[m] = r
    BY <2>3
  <2>5. MailSound(m, mail[m])'
    BY <2>2, <2>4 DEF MailSound, Known
  <2> QED
    BY <2>1, <2>3, <2>5 DEF Cancellable
<1>4. MailsInv'
  BY <1>1, <1>3 DEF MailsInv
<1>5. TicksInv'
  BY <1>1, <1>2, TicksOn DEF IInv
<1>6. RunnerInv' /\ WorkInv' /\ Tables'
  BY <1>1 DEF IInv, runner, RunnerInv, Executes, WorkInv, AtWork, Tables
<1>7. OwnersInv'
  <2>1. \A e \in Slots, m \in Mails : Owns(tick'[e], m) => Owns(tick[e], m) /\ mail'[m].status = "SENDING"
    BY <1>1, <1>3 DEF IInv, OwnersInv
  <2> QED
    BY <2>1, OwnersKept DEF IInv
<1>8. SendsInv'
  <2>1. \A m \in Mails : MayGoOut(m)' => MayGoOut(m)
    BY <1>1, <1>3 DEF MayGoOut, Owns
  <2> QED
    BY <1>1, <2>1, SendsKept DEF IInv
<1> QED
  BY <1>4, <1>5, <1>6, <1>7, <1>8 DEF IInv

\* The approval is written, if the mail is still a draft.
LEMMA ApproveKeeps ==
  ASSUME IInv, NEW p \in People, NEW queue \in BOOLEAN, Approve(p, queue)
  PROVE  IInv'
<1> PICK q : q = request[p]
  OBVIOUS
<1>1. q.op = "approve" /\ q \in [op : {"approve"}, mail : Mails, text : Texts]
  BY DEF Approve, IInv, Tables, NoRequest
<1> PICK m \in Mails : m = q.mail
  BY <1>1
<1>2. /\ request' = [request EXCEPT ![p] = NoRequest]
      /\ UNCHANGED <<runner, settings, lead, tick, sent, doubts>>
  BY DEF Approve, ByPerson
<1>3. CASE mail[m].status # "DRAFT"
  <2>1. UNCHANGED <<mail, approved>>
    BY <1>3 DEF Approve
  <2>2. Tables'
    BY <1>2, <2>1, RequestKept DEF IInv, Tables
  <2> QED
    BY <1>2, <2>1, <2>2, NoRowKeeps
<1>4. CASE mail[m].status = "DRAFT"
  <2> PICK r : r = mail[m]
    OBVIOUS
  <2> DEFINE k == [r EXCEPT !.status = IF queue THEN "QUEUED" ELSE "APPROVED",
                            !.hash = q.text, !.used = FALSE]
  <2>1. r \in MailRow /\ r.attempts = 0
    BY <1>4, MailIs DEF MailSound
  <2>2. k.status \in {"QUEUED", "APPROVED"} /\ k.hash = q.text /\ k.attempts = 0
    BY <2>1 DEF MailRow
  <2>3. k \in MailRow
    <3>1. (IF queue THEN "QUEUED" ELSE "APPROVED") \in {"QUEUED", "APPROVED"}
      OBVIOUS
    <3> QED
      BY <1>1, <2>1, <3>1 DEF MailRow
  <2>4. Put(m, k) /\ approved' = [approved EXCEPT ![m] = Append(@, q.text)]
    BY <1>4 DEF Approve
  <2> HIDE DEF k
  <2>5. approved \in [Mails -> Seq(Texts)] /\ approved[m] \in Seq(Texts) /\ q.text \in Texts
    BY <1>1 DEF IInv, Tables
  <2> PICK a : a = Append(approved[m], q.text)
    OBVIOUS
  <2>6. /\ a \in Seq(Texts) /\ Len(a) = Len(approved[m]) + 1 /\ a[Len(approved[m]) + 1] = q.text
        /\ \A n \in 1..Len(approved[m]) : a[n] = approved[m][n]
        /\ Len(approved[m]) \in Nat
    BY <2>5, AppendProperties, LenProperties
  <2>7. /\ approved' \in [Mails -> Seq(Texts)] /\ approved'[m] = a
        /\ \A x \in Mails : x # m => approved'[x] = approved[x]
    BY <2>4, <2>5, <2>6
  <2>8. Grows
    <3>1. \A x \in Mails : Len(approved[x]) \in Nat
      BY <2>5, LenProperties
    <3>2. ASSUME NEW x \in Mails
          PROVE  /\ Len(approved'[x]) \in Nat /\ Len(approved[x]) <= Len(approved'[x])
                 /\ \A n \in 1..Len(approved[x]) : approved'[x][n] = approved[x][n]
      <4>1. CASE x = m
        <5>1. Len(a) \in Nat /\ Len(approved[m]) <= Len(a)
          BY <2>6
        <5>2. approved'[x] = a /\ approved[x] = approved[m]
          BY <2>7, <4>1
        <5> QED
          BY <2>6, <5>1, <5>2
      <4>2. CASE x # m
        BY <2>7, <3>1, <4>2
      <4> QED
        BY <4>1, <4>2
    <3> QED
      BY <1>2, <3>1, <3>2 DEF Grows
  <2>9. MailSound(m, k)'
    <3>1. Len(approved[m]) + 1 \in 1..Len(approved'[m])
      BY <2>6, <2>7
    <3>2. Known(m, k)'
      BY <2>2, <2>6, <2>7, <3>1 DEF Known
    <3> QED
      BY <2>2, <2>3, <3>2, OutboxAssumption DEF MailSound
  <2>10. MailsInv' /\ mail'[m] = k /\ \A x \in Mails : x # m => mail'[x] = mail[x]
    BY <2>4, <2>8, <2>9, MailKept DEF IInv
  <2>11. Tables'
    BY <1>2, <2>7, RequestKept DEF IInv, Tables
  <2>12. TicksInv'
    BY <1>2, <2>8, TicksOn DEF IInv
  <2>13. RunnerInv' /\ WorkInv'
    BY <1>2 DEF IInv, runner, RunnerInv, Executes, WorkInv, AtWork
  <2>14. OwnersInv'
    <3>1. \A e \in Slots, x \in Mails : Owns(tick'[e], x) => Owns(tick[e], x) /\ mail'[x].status = "SENDING"
      BY <1>2, <1>4, <2>10 DEF IInv, OwnersInv
    <3> QED
      BY <3>1, OwnersKept DEF IInv
  <2>15. SendsInv'
    <3>1. ASSUME NEW x \in Mails, x # m
          PROVE  /\ Last(x)' = Last(x) /\ (MayGoOut(x)' => MayGoOut(x))
                 /\ approved'[x] = approved[x] /\ \A n : Sends(x, n)' = Sends(x, n)
      BY <1>2, <2>7, <2>10, <3>1 DEF Last, MayGoOut, Owns, Sends
    <3>2. Last(m) \in Nat /\ Last(m)' = Last(m) + 1 /\ \A n : Sends(m, n)' = Sends(m, n)
      BY <1>2, <2>6, <2>7 DEF Last, Sends
    <3>3. ASSUME NEW i \in 1..Len(sent[m])
          PROVE  /\ sent[m][i].approval <= Last(m)' /\ sent[m][i].approval # Last(m) + 1
                 /\ \E n \in 1..Last(m)' : approved'[m][n] = sent[m][i].text
      <4>1. sent[m][i].approval <= Last(m) /\ sent[m][i].approval \in Nat
        <5>1. sent[m] \in Seq(SentRecord) /\ sent[m][i].approval <= Last(m)
          BY DEF IInv, SendsInv, Tables
        <5>2. sent[m][i] \in SentRecord
          BY <5>1
        <5> QED
          BY <5>1, <5>2 DEF SentRecord
      <4>2. PICK n \in 1..Last(m) : approved[m][n] = sent[m][i].text
        BY DEF IInv, SendsInv
      <4>3. n \in 1..Last(m)' /\ approved'[m][n] = approved[m][n]
        <5>1. n \in 1..Len(approved[m])
          BY <4>2 DEF Last
        <5>2. approved'[m][n] = approved[m][n]
          BY <2>6, <2>7, <5>1
        <5>3. n \in 1..(Last(m) + 1)
          BY <3>2, <4>2
        <5> QED
          BY <3>2, <5>2, <5>3
      <4>4. sent[m][i].approval <= Last(m)' /\ sent[m][i].approval # Last(m) + 1
        BY <3>2, <4>1
      <4> QED
        BY <4>2, <4>3, <4>4
    <3>4. Sends(m, Last(m) + 1) = {}
      <4>1. DOMAIN sent[m] = 1..Len(sent[m])
        BY LenProperties DEF IInv, Tables
      <4> QED
        BY <3>3, <4>1 DEF Sends
    <3>5. Cardinality(Sends(m, Last(m) + 1)) = 0 /\ doubts[m] \in Nat
      BY <3>4, FS_EmptySet DEF IInv, Tables
    <3>6. \A n \in 0..Last(m) : Cardinality(Sends(m, n)) <= 1 + doubts[m]
      BY DEF IInv, SendsInv
    <3>7. \A n \in 0..(Last(m) + 1) : n \in 0..Last(m) \/ n = Last(m) + 1
      BY <3>2
    <3>8. \A n \in 0..Last(m)' : Cardinality(Sends(m, n)') <= 1 + doubts[m]
      BY <3>2, <3>5, <3>6, <3>7
    <3>9. Cardinality(Sends(m, Last(m))') <= doubts[m]
      BY <3>2, <3>5
    <3>10. sent' = sent /\ doubts' = doubts
      BY <1>2
    <3>11. ASSUME NEW x \in Mails
           PROVE  /\ \A i \in 1..Len(sent'[x]) :
                       /\ sent'[x][i].approval <= Last(x)'
                       /\ \E n \in 1..Last(x)' : approved'[x][n] = sent'[x][i].text
                  /\ \A n \in 0..Last(x)' : Cardinality(Sends(x, n)') <= 1 + doubts'[x]
                  /\ MayGoOut(x)' => Cardinality(Sends(x, Last(x))') <= doubts'[x]
      <4>1. CASE x = m
        BY <3>3, <3>8, <3>9, <3>10, <4>1
      <4>2. CASE x # m
        BY <3>1, <3>10, <4>2 DEF IInv, SendsInv
      <4> QED
        BY <4>1, <4>2
    <3> QED
      BY <3>11 DEF SendsInv
  <2> QED
    BY <2>10, <2>11, <2>12, <2>13, <2>14, <2>15 DEF IInv
<1> QED
  BY <1>3, <1>4

------------------------------------------------------------------------------
(* The tick. *)

Stages == {"judge", "block", "claim", "send", "ok", "transient", "permanent"}

\* What a tick has in hand.
LEMMA InHand ==
  ASSUME IInv, NEW e \in Slots, NEW pc \in Stages, tick[e].pc = pc
  PROVE  /\ Looking(tick[e]) /\ tick[e].pc = pc /\ AtWork(e)
         /\ Current(e) = tick[e].left[1][1] /\ Snapshot(e) = tick[e].left[1][2]
         /\ Current(e) \in Mails /\ Snapshot(e) \in MailRow /\ Known(Current(e), Snapshot(e))
<1>1. Looking(tick[e]) /\ tick[e] # NoTick
  BY DEF IInv, TicksInv, Over, NoTick, Stages
<1>2. AtWork(e)
  BY <1>1 DEF IInv, WorkInv
<1> PICK t : t = tick[e]
  OBVIOUS
<1>3. /\ Head(t.left) = t.left[1] /\ 1 \in 1..Len(t.left)
      /\ t.left[1][1] \in Mails /\ t.left[1][2] \in MailRow
  BY <1>1, HandTyped
<1>4. Current(e) = t.left[1][1] /\ Snapshot(e) = t.left[1][2]
  BY <1>3 DEF Current, Snapshot
<1>5. Known(t.left[1][1], t.left[1][2])
  BY <1>1, <1>3 DEF Looking
<1> QED
  BY <1>1, <1>2, <1>3, <1>4, <1>5

\* With the same mail in hand a tick goes on.
LEMMA OnwardIs ==
  ASSUME NEW t, Looking(t), NEW pc \in Stages, pc = "claim" => t.began # "silent",
         pc \in Fit => t.left[1][2].hash = t.left[1][2].text
  PROVE  LET k == [t EXCEPT !.pc = pc]
         IN  Looking(k) /\ k.pc = pc /\ k.left = t.left /\ k.began = t.began
<1> DEFINE k == [t EXCEPT !.pc = pc]
<1>1. t \in TickRecord
  BY DEF Looking
<1>2. k \in TickRecord /\ k.pc = pc /\ k.left = t.left /\ k.began = t.began
  BY <1>1 DEF TickRecord, Stages
<1> HIDE DEF k
<1>3. Looking(k)
  BY <1>2 DEF Looking
<1> QED
  BY <1>2, <1>3 DEF k

\* The next mail, or the end.
LEMMA NextIs ==
  ASSUME NEW e \in Slots, NEW t, t = tick[e], Looking(t), NEW left, left \in {Tail(t.left), <<>>},
         NextMail(e, left)
  PROVE  \E k : Step(e, k) /\ (k \in Over \/ Looking(k)) /\ \A m : ~Owns(k, m)
<1>1. CASE left = <<>>
  <2>1. Step(e, [pc |-> "end"])
    BY <1>1 DEF NextMail
  <2> QED
    BY <2>1 DEF Over, Owns
<1>2. CASE left # <<>>
  <2> DEFINE k == [t EXCEPT !.pc = "judge", !.left = left]
  <2>1. Step(e, k)
    BY <1>2 DEF NextMail
  <2>2. /\ t \in TickRecord /\ left \in Seq(Mails \X MailRow) /\ left = Tail(t.left)
        /\ Len(left) = Len(t.left) - 1 /\ Len(t.left) \in Nat
        /\ \A i \in 1..Len(left) : left[i] = t.left[i + 1]
    BY <1>2, HandTyped
  <2>3. k \in TickRecord /\ k.pc = "judge" /\ k.left = left /\ k.began = t.began
    BY <2>2 DEF TickRecord
  <2> HIDE DEF k
  <2>4. ASSUME NEW i \in 1..Len(left)
        PROVE  Known(left[i][1], left[i][2])
    <3>1. i + 1 \in 1..Len(t.left) /\ left[i] = t.left[i + 1]
      BY <2>2
    <3> QED
      BY <3>1 DEF Looking
  <2>5. Looking(k)
    BY <1>2, <2>3, <2>4 DEF Looking, Fit
  <2>6. \A m : ~Owns(k, m)
    BY <2>3 DEF Owns
  <2> QED
    BY <2>1, <2>5, <2>6
<1> QED
  BY <1>1, <1>2

\* What a step of a tick leaves alone.
LEMMA TickFrame ==
  ASSUME IInv, ByTick, NEW e \in Slots, AtWork(e), NEW k, Step(e, k), k \in Over \/ Looking(k),
         sent' \in [Mails -> Seq(SentRecord)], doubts' \in [Mails -> Nat]
  PROVE  /\ Grows /\ RunnerInv' /\ Tables' /\ TicksInv' /\ WorkInv'
         /\ tick'[e] = k /\ \A f \in Slots : f # e => tick'[f] = tick[f]
<1>1. Grows
  BY NothingApproved DEF IInv, ByTick
<1>2. k \in Over \/ Looking(k)'
  BY <1>1, LookingOn
<1>3. TicksInv' /\ tick'[e] = k /\ \A f \in Slots : f # e => tick'[f] = tick[f]
  BY <1>1, <1>2, TicksKept DEF IInv
<1>4. RunnerInv' /\ WorkInv'
  BY <1>3 DEF IInv, ByTick, runner, RunnerInv, Executes, WorkInv, AtWork
<1>5. Tables'
  BY DEF IInv, ByTick, Tables
<1> QED
  BY <1>1, <1>3, <1>4, <1>5

\* A tick that reads, or gives up.
LEMMA TickReads ==
  ASSUME IInv, ByTick, NEW e \in Slots, AtWork(e), UNCHANGED <<mail, sent, doubts>>,
         \E k : Step(e, k) /\ (k \in Over \/ Looking(k)) /\ \A m : ~Owns(k, m)
  PROVE  IInv'
<1> PICK k : Step(e, k) /\ (k \in Over \/ Looking(k)) /\ \A m : ~Owns(k, m)
  OBVIOUS
<1>1. sent' \in [Mails -> Seq(SentRecord)] /\ doubts' \in [Mails -> Nat]
  BY DEF IInv, Tables
<1>2. /\ Grows /\ RunnerInv' /\ Tables' /\ TicksInv' /\ WorkInv'
      /\ tick'[e] = k /\ \A f \in Slots : f # e => tick'[f] = tick[f]
  BY <1>1, TickFrame
<1>3. MailsInv'
  BY <1>2, MailsOn DEF IInv
<1>4. \A f \in Slots, m \in Mails : Owns(tick'[f], m) => f # e /\ Owns(tick[f], m)
  BY <1>2
<1>5. OwnersInv'
  BY <1>4, OwnersKept DEF IInv, OwnersInv
<1>6. SendsInv'
  <2>1. \A m \in Mails : MayGoOut(m)' => MayGoOut(m)
    BY <1>2, <1>4 DEF MayGoOut
  <2> QED
    BY <2>1, SendsKept DEF IInv, ByTick
<1> QED
  BY <1>2, <1>3, <1>5, <1>6 DEF IInv

\* A tick that writes the row of the mail in its hand and lets go of it.
LEMMA TickLetsGo ==
  ASSUME IInv, ByTick, NEW e \in Slots, AtWork(e), UNCHANGED <<sent, doubts>>,
         \E k : Step(e, k) /\ (k \in Over \/ Looking(k)) /\ \A m : ~Owns(k, m),
         NEW m \in Mails, NEW row, Put(m, row), MailSound(m, row),
         \A f \in Slots : f # e => ~Owns(tick[f], m),
         row.status \notin {"SENDING", "SENT"} => MayGoOut(m)
  PROVE  IInv'
<1> PICK k : Step(e, k) /\ (k \in Over \/ Looking(k)) /\ \A x : ~Owns(k, x)
  OBVIOUS
<1>1. sent' \in [Mails -> Seq(SentRecord)] /\ doubts' \in [Mails -> Nat]
  BY DEF IInv, Tables
<1>2. /\ Grows /\ RunnerInv' /\ Tables' /\ TicksInv' /\ WorkInv'
      /\ tick'[e] = k /\ \A f \in Slots : f # e => tick'[f] = tick[f]
  BY <1>1, TickFrame
<1>3. MailSound(m, row)'
  BY <1>2, KnownOn DEF MailSound
<1>4. MailsInv' /\ mail'[m] = row /\ \A q \in Mails : q # m => mail'[q] = mail[q]
  BY <1>2, <1>3, MailKept DEF IInv
<1>5. \A f \in Slots, q \in Mails : Owns(tick'[f], q) => f # e /\ q # m /\ Owns(tick[f], q)
  BY <1>2
<1>6. OwnersInv'
  BY <1>4, <1>5, OwnersKept DEF IInv, OwnersInv
<1>7. SendsInv'
  <2>1. \A q \in Mails : MayGoOut(q)' => MayGoOut(q)
    BY <1>2, <1>4, <1>5 DEF MayGoOut
  <2> QED
    BY <2>1, SendsKept DEF IInv, ByTick
<1> QED
  BY <1>2, <1>4, <1>6, <1>7 DEF IInv

\* A function on 1..n is a sequence of length n.
LEMMA SequenceIs ==
  ASSUME NEW S, NEW n \in Nat, NEW f, f = [i \in 1..n |-> f[i]], \A i \in 1..n : f[i] \in S
  PROVE  f \in Seq(S) /\ Len(f) = n
  OBVIOUS

\* A tick that has read the settings has no mail in hand.
LEMMA ReadStopsKeeps ==
  ASSUME IInv, NEW e \in Slots, ReadStops(e)
  PROVE  IInv'
<1> PICK k : k = IF "OFF" \in settings THEN [pc |-> "end"] ELSE [pc |-> "due", stops |-> settings]
  OBVIOUS
<1>1. AtWork(e) /\ ByTick /\ UNCHANGED <<mail, sent, doubts>> /\ Step(e, k)
  BY DEF ReadStops
<1>2. k \in Over /\ \A m : ~Owns(k, m)
  <2>1. settings \in SUBSET Stops
    BY DEF IInv, Tables
  <2> QED
    BY <2>1 DEF Over, Owns
<1> QED
  BY <1>1, <1>2, TickReads

\* A tick begins with mails as they are in the table.
LEMMA ReadDueKeeps ==
  ASSUME IInv, NEW e \in Slots, ReadDue(e)
  PROVE  IInv'
<1>1. tick[e] \in [pc : {"due"}, stops : SUBSET Stops] /\ tick[e] # NoTick
  BY DEF ReadDue, In, IInv, TicksInv, Over, NoTick, Looking, TickRecord
<1> PICK stops : stops = tick[e].stops /\ stops \in SUBSET Stops
  BY <1>1
<1>0. AtWork(e) /\ ByTick /\ UNCHANGED <<mail, sent, doubts>>
  BY <1>1 DEF ReadDue, IInv, WorkInv
<1>2. CASE Step(e, [pc |-> "end"])
  <2>1. [pc |-> "end"] \in Over /\ \A m : ~Owns([pc |-> "end"], m)
    BY DEF Over, Owns
  <2> QED
    BY <1>0, <1>2, <2>1, TickReads
<1>3. ASSUME NEW due \in SUBSET {m \in Mails : mail[m].status = "QUEUED"}, due # {},
             NEW order \in [1..Cardinality(due) -> due],
             Step(e, [pc |-> "judge", stops |-> stops, began |-> lead,
                      left |-> [i \in DOMAIN order |-> <<order[i], mail[order[i]]>>]])
      PROVE  IInv'
  <2> PICK left : left = [i \in DOMAIN order |-> <<order[i], mail[order[i]]>>]
    OBVIOUS
  <2> PICK k : k = [pc |-> "judge", stops |-> stops, began |-> lead, left |-> left]
    OBVIOUS
  <2>1. IsFiniteSet(due) /\ Cardinality(due) \in Nat /\ Cardinality(due) # 0
    <3>1. due \subseteq Mails
      OBVIOUS
    <3>2. IsFiniteSet(due)
      BY <3>1, OutboxAssumption, FS_Subset
    <3> QED
      BY <1>3, <3>2, FS_CardinalityType, FS_EmptySet
  <2>2. ASSUME NEW i \in 1..Cardinality(due)
        PROVE  /\ order[i] \in Mails /\ left[i][1] = order[i] /\ left[i][2] = mail[order[i]]
               /\ left[i] \in Mails \X MailRow /\ Known(left[i][1], left[i][2])
    <3>1. order[i] \in Mails /\ left[i] = <<order[i], mail[order[i]]>>
      OBVIOUS
    <3>2. mail[order[i]] \in MailRow /\ Known(order[i], mail[order[i]])
      BY <3>1, MailIs DEF MailSound
    <3> QED
      BY <3>1, <3>2
  <2>3. left \in Seq(Mails \X MailRow) /\ Len(left) = Cardinality(due) /\ left # <<>>
    <3>1. left = [i \in 1..Cardinality(due) |-> left[i]]
      OBVIOUS
    <3> PICK n : n = Cardinality(due)
      OBVIOUS
    <3>2. left \in Seq(Mails \X MailRow) /\ Len(left) = Cardinality(due)
      <4>1. n \in Nat /\ left = [i \in 1..n |-> left[i]] /\ \A i \in 1..n : left[i] \in Mails \X MailRow
        BY <2>1, <2>2, <3>1
      <4>2. left \in Seq(Mails \X MailRow) /\ Len(left) = n
        BY <4>1, SequenceIs
      <4> QED
        BY <4>2
    <3> QED
      BY <2>1, <3>2, EmptySeq, LenProperties
  <2>4. k \in TickRecord /\ k.pc = "judge" /\ k.left = left /\ k.began = lead
    BY <2>3 DEF TickRecord, IInv, Tables
  <2>5. Looking(k)
    BY <2>2, <2>3, <2>4 DEF Looking, Fit
  <2>6. Step(e, k) /\ \A m : ~Owns(k, m)
    BY <1>3, <2>4 DEF Owns
  <2> QED
    BY <1>0, <2>5, <2>6, TickReads
<1> QED
  BY <1>2, <1>3 DEF ReadDue

\* A tick finds fit only a mail whose hash is that of its text, and only for a lead that is open.
LEMMA JudgeKeeps ==
  ASSUME IInv, NEW e \in Slots, Judge(e)
  PROVE  IInv'
<1> PICK t : t = tick[e]
  OBVIOUS
<1>1. /\ Looking(t) /\ t.pc = "judge" /\ AtWork(e) /\ Snapshot(e) = t.left[1][2]
      /\ ByTick /\ UNCHANGED <<mail, sent, doubts>>
  BY InHand DEF Judge, In, Stages
<1>2. CASE Step(e, [t EXCEPT !.pc = "block"])
  <2> PICK k : k = [t EXCEPT !.pc = "block"]
    OBVIOUS
  <2>1. "block" \in Stages /\ "block" \notin Fit
    BY DEF Stages, Fit
  <2>2. Looking(k) /\ k.pc = "block"
    BY <1>1, <2>1, OnwardIs
  <2>3. \A m : ~Owns(k, m)
    BY <2>2 DEF Owns
  <2> QED
    BY <1>1, <1>2, <2>2, <2>3, TickReads
<1>3. CASE NextMail(e, Rest(e))
  BY <1>1, <1>3, NextIs, TickReads DEF Rest
<1>4. CASE ApprovalHolds(Snapshot(e)) /\ LeadIsOpen /\ Step(e, [t EXCEPT !.pc = "claim"])
  <2> PICK k : k = [t EXCEPT !.pc = "claim"]
    OBVIOUS
  <2>1. t.began # "silent" /\ t.left[1][2].hash = t.left[1][2].text
    BY <1>1, <1>4 DEF Looking, LeadIsOpen, ApprovalHolds
  <2>2. Looking(k) /\ k.pc = "claim"
    <3>1. "claim" \in Stages
      BY DEF Stages
    <3> QED
      BY <1>1, <2>1, <3>1, OnwardIs
  <2>3. \A m : ~Owns(k, m)
    BY <2>2 DEF Owns
  <2> QED
    BY <1>1, <1>4, <2>2, <2>3, TickReads
<1> QED
  BY <1>2, <1>3, <1>4 DEF Judge

\* A mail that is blocked is not SENDING.
LEMMA BlockKeeps ==
  ASSUME IInv, NEW e \in Slots, Block(e)
  PROVE  IInv'
<1> PICK m : m = Current(e)
  OBVIOUS
<1>1. /\ Looking(tick[e]) /\ AtWork(e) /\ m \in Mails
      /\ ByTick /\ UNCHANGED <<sent, doubts>> /\ NextMail(e, Tail(tick[e].left))
  BY InHand DEF Block, In, Stages, Rest
<1>2. \E k : Step(e, k) /\ (k \in Over \/ Looking(k)) /\ \A x : ~Owns(k, x)
  BY <1>1, NextIs
<1>3. CASE mail[m].status # "QUEUED"
  BY <1>1, <1>2, <1>3, TickReads DEF Block
<1>4. CASE mail[m].status = "QUEUED"
  <2> PICK r : r = mail[m]
    OBVIOUS
  <2> PICK k : k = [r EXCEPT !.status = "BLOCKED", !.used = TRUE]
    OBVIOUS
  <2>1. r \in MailRow /\ MailSound(m, r)
    BY <1>1, MailIs
  <2>2. k \in MailRow /\ k.status = "BLOCKED" /\ k.hash = r.hash
    BY <2>1 DEF MailRow
  <2>3. MailSound(m, k)
    BY <2>1, <2>2 DEF MailSound, Known
  <2>4. Put(m, k)
    BY <1>4 DEF Block
  <2>5. \A f \in Slots : ~Owns(tick[f], m)
    BY <1>1, <1>4 DEF IInv, OwnersInv
  <2>6. MayGoOut(m)
    BY <1>4 DEF MayGoOut
  <2> QED
    BY <1>1, <1>2, <2>3, <2>4, <2>5, <2>6, TickLetsGo
<1> QED
  BY <1>3, <1>4

\* A tick that gives up leaves the mails it has in hand.
LEMMA AbortKeeps ==
  ASSUME IInv, NEW e \in Slots, Abort(e)
  PROVE  IInv'
<1> PICK k : k = [pc |-> "failed"]
  OBVIOUS
<1>1. AtWork(e) /\ ByTick /\ UNCHANGED <<mail, sent, doubts>> /\ Step(e, k)
  <2>1. tick[e] # NoTick
    BY DEF Abort, NoTick
  <2> QED
    BY <2>1 DEF Abort, IInv, WorkInv
<1>2. k \in Over /\ \A m : ~Owns(k, m)
  BY DEF Over, Owns
<1> QED
  BY <1>1, <1>2, TickReads

\* A tick that ends lets its execution end.
LEMMA TickEndsKeeps ==
  ASSUME IInv, NEW e \in Slots, TickEnds(e)
  PROVE  IInv'
<1>1. PICK w \in BOOLEAN, o \in {"SUCCESS", "FAILED"} : Finish(e, o, w)
  BY DEF TickEnds, Outcomes
<1>2. Step(e, NoTick) /\ UNCHANGED <<mail, settings, lead, request, approved, sent, doubts>>
  BY DEF TickEnds, histories
<1>3. RunnerInv'
  BY <1>1, FinishKeeps DEF IInv
<1>4. Grows
  BY <1>2, NothingApproved DEF IInv
<1>5. TicksInv' /\ tick'[e] = NoTick /\ \A f \in Slots : f # e => tick'[f] = tick[f]
  BY <1>2, <1>4, TicksKept DEF IInv, Over
<1>6. MailsInv' /\ Tables'
  BY <1>2, <1>4, MailsOn DEF IInv, Tables
<1>7. WorkInv'
  <2>1. \A f \in Slots : f # e => exec'[f] = exec[f]
    BY <1>1 DEF Finish, IInv, RunnerInv
  <2> QED
    BY <1>5, <2>1 DEF IInv, WorkInv, AtWork
<1>8. \A f \in Slots, m \in Mails : Owns(tick'[f], m) => f # e /\ Owns(tick[f], m)
  BY <1>5 DEF Owns, NoTick
<1>9. OwnersInv'
  BY <1>2, <1>8, OwnersKept DEF IInv, OwnersInv
<1>10. SendsInv'
  <2>1. \A m \in Mails : MayGoOut(m)' => MayGoOut(m)
    BY <1>2, <1>5, <1>8 DEF MayGoOut
  <2> QED
    BY <1>2, <2>1, SendsKept DEF IInv
<1> QED
  BY <1>3, <1>5, <1>6, <1>7, <1>9, <1>10 DEF IInv

\* Only who is still queued is claimed, and by one tick.
LEMMA ClaimKeeps ==
  ASSUME IInv, NEW e \in Slots, Claim(e)
  PROVE  IInv'
<1> PICK t : t = tick[e]
  OBVIOUS
<1> PICK m : m = Current(e)
  OBVIOUS
<1>1. /\ Looking(t) /\ t.pc = "claim" /\ AtWork(e) /\ m \in Mails /\ m = t.left[1][1]
      /\ ByTick /\ UNCHANGED <<sent, doubts>>
  BY InHand DEF Claim, In, Stages
<1>2. CASE ~Claimable(m)
  <2>1. NextMail(e, Tail(t.left)) /\ UNCHANGED mail
    BY <1>2 DEF Claim, Rest
  <2> QED
    BY <1>1, <2>1, NextIs, TickReads
<1>3. CASE Claimable(m)
  <2> PICK r : r = mail[m]
    OBVIOUS
  <2> PICK row : row = [r EXCEPT !.status = "SENDING", !.attempts = @ + 1]
    OBVIOUS
  <2> PICK k : k = [t EXCEPT !.pc = "send"]
    OBVIOUS
  <2>1. Put(m, row) /\ Step(e, k)
    BY <1>3 DEF Claim
  <2>2. r \in MailRow /\ MailSound(m, r) /\ r.status = "QUEUED" /\ r.attempts < MaxAttempts
    BY <1>1, <1>3, MailIs DEF Claimable, MailSound
  <2>3. r.attempts + 1 \in 0..MaxAttempts
    BY <2>2, OutboxAssumption DEF MailRow
  <2>4. row \in MailRow /\ row.status = "SENDING" /\ row.hash = r.hash
    BY <2>2, <2>3 DEF MailRow
  <2>5. MailSound(m, row)
    BY <2>2, <2>4 DEF MailSound, Known
  <2>6. Looking(k) /\ k.pc = "send" /\ k.left = t.left
    <3>1. "send" \in Stages /\ t.left[1][2].hash = t.left[1][2].text
      BY <1>1 DEF Looking, Stages, Fit
    <3> QED
      BY <1>1, <3>1, OnwardIs
  <2>7. sent' \in [Mails -> Seq(SentRecord)] /\ doubts' \in [Mails -> Nat]
    BY <1>1 DEF IInv, Tables
  <2>8. /\ Grows /\ RunnerInv' /\ Tables' /\ TicksInv' /\ WorkInv'
        /\ tick'[e] = k /\ \A f \in Slots : f # e => tick'[f] = tick[f]
    BY <1>1, <2>1, <2>6, <2>7, TickFrame
  <2>9. MailSound(m, row)'
    <3>1. Known(m, row)'
      BY <1>1, <2>5, <2>8, KnownOn DEF MailSound
    <3> QED
      BY <2>5, <3>1 DEF MailSound
  <2>10. MailsInv' /\ mail'[m] = row /\ \A q \in Mails : q # m => mail'[q] = mail[q]
    BY <1>1, <2>1, <2>8, <2>9, MailKept, ZenonT(40) DEF IInv
  <2>11. \A q \in Mails : Owns(k, q) => q = m
    BY <1>1, <2>6 DEF Owns
  <2>12. \A f \in Slots : ~Owns(tick[f], m)
    BY <1>1, <2>2 DEF IInv, OwnersInv
  <2>13. \A f \in Slots, q \in Mails :
           Owns(tick'[f], q) => \/ f = e /\ q = m
                                \/ f # e /\ q # m /\ Owns(tick[f], q)
    BY <2>8, <2>11, <2>12
  <2>14. OwnersInv'
    BY <2>4, <2>10, <2>13 DEF IInv, OwnersInv
  <2>15. SendsInv'
    <3>1. MayGoOut(m)
      BY <2>2 DEF MayGoOut
    <3>2. \A q \in Mails : MayGoOut(q)' => MayGoOut(q)
      BY <2>8, <2>10, <2>13, <3>1 DEF MayGoOut
    <3> QED
      BY <1>1, <3>2, SendsKept DEF IInv, ByTick
  <2> QED
    BY <2>8, <2>10, <2>14, <2>15 DEF IInv
<1> QED
  BY <1>2, <1>3

\* The mail a tick has claimed is its own.
LEMMA OwnHand ==
  ASSUME IInv, NEW e \in Slots, NEW pc \in {"send", "ok", "transient", "permanent"}, tick[e].pc = pc
  PROVE  /\ Owns(tick[e], Current(e)) /\ mail[Current(e)].status = "SENDING"
         /\ \A f \in Slots : f # e => ~Owns(tick[f], Current(e))
         /\ \A q \in Mails : q # Current(e) => ~Owns(tick[e], q)
<1>1. Current(e) \in Mails /\ Current(e) = tick[e].left[1][1]
  BY InHand DEF Stages
<1>2. Owns(tick[e], Current(e)) /\ \A q \in Mails : q # Current(e) => ~Owns(tick[e], q)
  BY <1>1 DEF Owns
<1> QED
  BY <1>1, <1>2 DEF IInv, OwnersInv

\* A mail put back after an error has had no more sends under its approval than doubts.
LEMMA WriteErrorKeeps ==
  ASSUME IInv, NEW e \in Slots, NEW stopBatch \in BOOLEAN, WriteError(e, stopBatch)
  PROVE  IInv'
<1> PICK m : m = Current(e)
  OBVIOUS
<1> PICK r : r = mail[m]
  OBVIOUS
<1>1. /\ Looking(tick[e]) /\ AtWork(e) /\ m \in Mails /\ ByTick /\ UNCHANGED <<sent, doubts>>
      /\ tick[e].pc \in {"transient", "permanent"}
  BY InHand DEF WriteError, Stages
<1>2. /\ Owns(tick[e], m) /\ r.status = "SENDING" /\ \A f \in Slots : f # e => ~Owns(tick[f], m)
  BY <1>1, OwnHand
<1>3. \E k : Step(e, k) /\ (k \in Over \/ Looking(k)) /\ \A x : ~Owns(k, x)
  <2>1. NextMail(e, Tail(tick[e].left)) \/ NextMail(e, <<>>)
    BY DEF WriteError, Rest
  <2> QED
    BY <1>1, <2>1, NextIs
<1>4. MayGoOut(m)
  BY <1>1, <1>2 DEF MayGoOut
<1>5. r \in MailRow /\ MailSound(m, r)
  BY <1>1, MailIs
<1>6. CASE r.attempts < MaxAttempts /\ Put(m, [r EXCEPT !.status = "QUEUED"])
  <2> PICK k : k = [r EXCEPT !.status = "QUEUED"]
    OBVIOUS
  <2>1. k \in MailRow /\ k.status = "QUEUED" /\ k.hash = r.hash /\ k.attempts = r.attempts
    BY <1>5 DEF MailRow
  <2>2. MailSound(m, k)
    BY <1>5, <1>6, <2>1 DEF MailSound, Known
  <2>3. Put(m, k)
    BY <1>6
  <2> QED
    BY <1>1, <1>2, <1>3, <1>4, <2>2, <2>3, TickLetsGo
<1>7. CASE Put(m, [r EXCEPT !.status = "FAILED", !.used = TRUE])
  <2> PICK k : k = [r EXCEPT !.status = "FAILED", !.used = TRUE]
    OBVIOUS
  <2>1. k \in MailRow /\ k.status = "FAILED" /\ k.hash = r.hash
    BY <1>5 DEF MailRow
  <2>2. MailSound(m, k)
    BY <1>5, <2>1 DEF MailSound, Known
  <2>3. Put(m, k)
    BY <1>7
  <2> QED
    BY <1>1, <1>2, <1>3, <1>4, <2>2, <2>3, TickLetsGo
<1> QED
  BY <1>2, <1>6, <1>7 DEF WriteError

\* What the answer was, or that it could not be written: the mail stays in hand.
LEMMA StaysOwned ==
  ASSUME IInv, NEW e \in Slots, NEW m \in Mails, Owns(tick[e], m), UNCHANGED mail,
         NEW k, tick'[e] = k, \A f \in Slots : f # e => tick'[f] = tick[f], k.left = tick[e].left
  PROVE  OwnersInv'
<1>1. \A f \in Slots, q \in Mails : Owns(tick'[f], q) => Owns(tick[f], q)
  BY DEF Owns
<1> QED
  BY <1>1, OwnersKept DEF IInv, OwnersInv

\* The sends of a mail can be counted.
LEMMA SendsCount ==
  ASSUME IInv, NEW m \in Mails, NEW n
  PROVE  /\ IsFiniteSet(Sends(m, n)) /\ Cardinality(Sends(m, n)) \in Nat
         /\ Sends(m, n) \subseteq 1..Len(sent[m]) /\ Len(sent[m]) \in Nat
         /\ DOMAIN sent[m] = 1..Len(sent[m])
<1>1. Len(sent[m]) \in Nat /\ DOMAIN sent[m] = 1..Len(sent[m])
  BY LenProperties DEF IInv, Tables
<1>2. Sends(m, n) \subseteq 1..Len(sent[m])
  BY <1>1 DEF Sends
<1>3. IsFiniteSet(1..Len(sent[m]))
  BY <1>1, FS_Interval
<1>4. IsFiniteSet(Sends(m, n))
  BY <1>2, <1>3, FS_Subset
<1> QED
  BY <1>1, <1>2, <1>4, FS_CardinalityType

\* A mail recorded as SENT is not claimed again; if the write fails, its send is a doubt.
LEMMA WriteSentKeeps ==
  ASSUME IInv, NEW e \in Slots, NEW written \in BOOLEAN, WriteSent(e, written)
  PROVE  IInv'
<1> PICK m : m = Current(e)
  OBVIOUS
<1> PICK t : t = tick[e]
  OBVIOUS
<1>1. /\ Looking(t) /\ AtWork(e) /\ m \in Mails /\ ByTick /\ UNCHANGED sent /\ t.pc = "ok"
  BY InHand DEF WriteSent, In, Stages
<1>2. /\ Owns(t, m) /\ mail[m].status = "SENDING" /\ \A f \in Slots : f # e => ~Owns(tick[f], m)
      /\ \A q \in Mails : q # m => ~Owns(t, q)
  BY <1>1, OwnHand
<1>3. CASE written
  <2> PICK r : r = mail[m]
    OBVIOUS
  <2> PICK k : k = [r EXCEPT !.status = "SENT", !.used = TRUE]
    OBVIOUS
  <2>1. r \in MailRow /\ MailSound(m, r)
    BY <1>1, MailIs
  <2>2. k \in MailRow /\ k.status = "SENT" /\ k.hash = r.hash /\ k.used
    BY <2>1 DEF MailRow
  <2>3. MailSound(m, k)
    BY <2>1, <2>2 DEF MailSound, Known
  <2>4. Put(m, k) /\ NextMail(e, Tail(t.left)) /\ UNCHANGED doubts
    BY <1>2, <1>3 DEF WriteSent, Delivered, Rest
  <2>5. \E x : Step(e, x) /\ (x \in Over \/ Looking(x)) /\ \A y : ~Owns(x, y)
    BY <1>1, <2>4, NextIs
  <2> QED
    BY <1>1, <1>2, <2>2, <2>3, <2>4, <2>5, TickLetsGo
<1>4. CASE ~written
  <2> PICK k : k = [t EXCEPT !.pc = "transient"]
    OBVIOUS
  <2>1. Step(e, k) /\ UNCHANGED mail /\ doubts' = [doubts EXCEPT ![m] = @ + 1]
    BY <1>4 DEF WriteSent
  <2>2. Looking(k) /\ k.pc = "transient" /\ k.left = t.left
    <3>1. "transient" \in Stages /\ t.left[1][2].hash = t.left[1][2].text
      BY <1>1 DEF Looking, Stages, Fit
    <3> QED
      BY <1>1, <3>1, OnwardIs
  <2>3. doubts \in [Mails -> Nat] /\ doubts[m] \in Nat
    BY <1>1 DEF IInv, Tables
  <2>4. doubts' \in [Mails -> Nat] /\ doubts'[m] = doubts[m] + 1 /\ \A q \in Mails : q # m => doubts'[q] = doubts[q]
    BY <1>1, <2>1, <2>3
  <2>5. sent' \in [Mails -> Seq(SentRecord)]
    BY <1>1 DEF IInv, Tables
  <2>6. /\ Grows /\ RunnerInv' /\ Tables' /\ TicksInv' /\ WorkInv'
        /\ tick'[e] = k /\ \A f \in Slots : f # e => tick'[f] = tick[f]
    BY <1>1, <2>1, <2>2, <2>4, <2>5, TickFrame
  <2>7. MailsInv' /\ OwnersInv'
    BY <1>1, <1>2, <2>1, <2>2, <2>6, MailsOn, StaysOwned DEF IInv
  <2>8. SendsInv'
    <3>1. sent' = sent /\ approved' = approved
      BY <1>1 DEF ByTick
    <3>2. ASSUME NEW q \in Mails
          PROVE  Last(q)' = Last(q) /\ Last(q) \in Nat /\ \A n : Sends(q, n)' = Sends(q, n)
      BY <3>1, LenProperties DEF Last, Sends, IInv, Tables
    <3>3. ASSUME NEW q \in Mails, q # m
          PROVE  MayGoOut(q)' => MayGoOut(q)
      <4>1. ~Owns(k, q)
        BY <1>1, <1>2, <2>2, <3>3 DEF Owns
      <4>2. \A f \in Slots : Owns(tick'[f], q) => f # e /\ tick'[f] = tick[f]
        BY <2>6, <4>1
      <4> QED
        BY <2>1, <4>2 DEF MayGoOut
    <3>4. \A n \in 0..Last(m) : Cardinality(Sends(m, n)) <= 1 + doubts[m] /\ Cardinality(Sends(m, n)) \in Nat
      BY <1>1, SendsCount DEF IInv, SendsInv
    <3>5. \A n \in 0..Last(m) : Cardinality(Sends(m, n)) <= doubts'[m] /\ Cardinality(Sends(m, n)) <= 1 + doubts'[m]
      BY <2>3, <2>4, <3>4
    <3>6. Last(m) \in 0..Last(m)
      BY <1>1, <3>2
    <3>7. ASSUME NEW q \in Mails
          PROVE  /\ \A n \in 0..Last(q) : Cardinality(Sends(q, n)) <= 1 + doubts'[q]
                 /\ MayGoOut(q)' => Cardinality(Sends(q, Last(q))) <= doubts'[q]
      <4>1. CASE q = m
        BY <3>5, <3>6, <4>1
      <4>2. CASE q # m
        BY <2>4, <3>3, <4>2 DEF IInv, SendsInv
      <4> QED
        BY <4>1, <4>2
    <3> QED
      BY <3>1, <3>2, <3>7 DEF IInv, SendsInv
  <2> QED
    BY <2>6, <2>7, <2>8 DEF IInv
<1> QED
  BY <1>3, <1>4

\* A mail goes out, or not.
LEMMA SendKeeps ==
  ASSUME IInv, NEW e \in Slots, NEW out \in BOOLEAN, NEW answer \in {"ok", "transient", "permanent"},
         Send(e, out, answer)
  PROVE  IInv'
<1> PICK m : m = Current(e)
  OBVIOUS
<1> PICK t : t = tick[e]
  OBVIOUS
<1> PICK x : x = [text |-> Snapshot(e).text, approval |-> Len(approved[m])]
  OBVIOUS
<1> PICK k : k = [t EXCEPT !.pc = answer]
  OBVIOUS
<1>1. /\ Looking(t) /\ AtWork(e) /\ m \in Mails /\ t.pc = "send"
      /\ Snapshot(e) = t.left[1][2] /\ Snapshot(e) \in MailRow /\ Known(m, Snapshot(e))
  BY InHand DEF Send, In, Stages
<1>2. /\ Owns(t, m) /\ mail[m].status = "SENDING" /\ \A f \in Slots : f # e => ~Owns(tick[f], m)
      /\ \A q \in Mails : q # m => ~Owns(t, q)
  BY <1>1, OwnHand
<1>3. /\ ByTick /\ UNCHANGED mail /\ Step(e, k) /\ (answer = "ok" => out) /\ (answer = "permanent" => ~out)
      /\ IF out THEN sent' = [sent EXCEPT ![m] = Append(@, x)] ELSE UNCHANGED sent
      /\ doubts' = IF out /\ answer = "transient" THEN [doubts EXCEPT ![m] = @ + 1] ELSE doubts
  BY DEF Send, Out
<1>4. Looking(k) /\ k.pc = answer /\ k.left = t.left
  <2>1. answer \in Stages /\ t.left[1][2].hash = t.left[1][2].text /\ answer # "claim"
    BY <1>1 DEF Looking, Stages, Fit
  <2> QED
    BY <1>1, <2>1, OnwardIs
<1>5. /\ sent \in [Mails -> Seq(SentRecord)] /\ sent[m] \in Seq(SentRecord) /\ Len(sent[m]) \in Nat
      /\ doubts \in [Mails -> Nat] /\ doubts[m] \in Nat /\ Last(m) \in Nat
  BY <1>1, LenProperties DEF IInv, Tables, Last
<1>6. x \in SentRecord /\ x.approval = Last(m) /\ \E n \in 1..Last(m) : approved[m][n] = x.text
  <2>1. Snapshot(e).hash = Snapshot(e).text /\ Snapshot(e).text \in Texts
    BY <1>1 DEF Looking, Fit, MailRow
  <2>2. Snapshot(e).hash # None
    BY <2>1, OutboxAssumption DEF Texts
  <2>3. x.text = Snapshot(e).text /\ x.approval = Last(m)
    BY DEF Last
  <2>4. \E n \in 1..Last(m) : approved[m][n] = x.text
    BY <1>1, <2>1, <2>2, <2>3 DEF Known, Last
  <2> QED
    BY <1>5, <2>1, <2>3, <2>4 DEF SentRecord, Last
<1>7. /\ doubts' \in [Mails -> Nat] /\ \A q \in Mails : q # m => doubts'[q] = doubts[q]
      /\ doubts'[m] = IF out /\ answer = "transient" THEN doubts[m] + 1 ELSE doubts[m]
  <2>1. CASE out /\ answer = "transient"
    <3>1. doubts' = [doubts EXCEPT ![m] = doubts[m] + 1] /\ doubts[m] + 1 \in Nat
      BY <1>3, <1>5, <2>1
    <3> QED
      BY <1>1, <1>5, <2>1, <3>1
  <2>2. CASE ~(out /\ answer = "transient")
    BY <1>3, <1>5, <2>2
  <2> QED
    BY <2>1, <2>2
<1> PICK a : a = Append(sent[m], x)
  OBVIOUS
<1>8. /\ a \in Seq(SentRecord) /\ Len(a) = Len(sent[m]) + 1 /\ a[Len(sent[m]) + 1] = x
      /\ \A i \in 1..Len(sent[m]) : a[i] = sent[m][i]
      /\ DOMAIN a = 1..(Len(sent[m]) + 1)
  BY <1>5, <1>6, AppendProperties, LenProperties
<1>9. /\ sent' \in [Mails -> Seq(SentRecord)] /\ \A q \in Mails : q # m => sent'[q] = sent[q]
      /\ sent'[m] = IF out THEN a ELSE sent[m]
  <2>1. CASE out
    <3>1. sent' = [sent EXCEPT ![m] = a]
      BY <1>3, <2>1
    <3> QED
      BY <1>1, <1>5, <1>8, <2>1, <3>1
  <2>2. CASE ~out
    BY <1>3, <1>5, <2>2
  <2> QED
    BY <2>1, <2>2
<1>10. /\ Grows /\ RunnerInv' /\ Tables' /\ TicksInv' /\ WorkInv'
       /\ tick'[e] = k /\ \A f \in Slots : f # e => tick'[f] = tick[f]
  BY <1>1, <1>3, <1>4, <1>7, <1>9, TickFrame
<1>11. MailsInv' /\ OwnersInv'
  BY <1>1, <1>2, <1>3, <1>4, <1>10, MailsOn, StaysOwned DEF IInv
<1>12. SendsInv'
  <2>1. approved' = approved /\ \A q : Last(q)' = Last(q)
    BY <1>3 DEF ByTick, Last
  <2>2. ASSUME NEW q \in Mails, q # m
        PROVE  (MayGoOut(q)' => MayGoOut(q)) /\ \A n : Sends(q, n)' = Sends(q, n)
    <3>1. ~Owns(k, q)
      BY <1>1, <1>2, <1>4, <2>2 DEF Owns
    <3>2. \A f \in Slots : Owns(tick'[f], q) => f # e /\ tick'[f] = tick[f]
      BY <1>10, <3>1
    <3>3. MayGoOut(q)' => MayGoOut(q)
      BY <1>3, <3>2 DEF MayGoOut
    <3>4. sent'[q] = sent[q]
      BY <1>9, <2>2
    <3> QED
      BY <3>3, <3>4 DEF Sends
  <2>3. ASSUME NEW i \in 1..Len(sent'[m])
        PROVE  /\ sent'[m][i].approval <= Last(m)
               /\ \E n \in 1..Last(m) : approved[m][n] = sent'[m][i].text
    <3>1. CASE i \in 1..Len(sent[m])
      <4>1. sent'[m][i] = sent[m][i]
        BY <1>8, <1>9, <3>1
      <4>2. /\ sent[m][i].approval <= Last(m)
            /\ \E n \in 1..Last(m) : approved[m][n] = sent[m][i].text
        BY <1>1, <3>1 DEF IInv, SendsInv
      <4> QED
        BY <4>1, <4>2
    <3>2. CASE i \notin 1..Len(sent[m])
      <4>1. out /\ sent'[m][i] = x
        BY <1>5, <1>8, <1>9, <3>2
      <4> QED
        BY <1>5, <1>6, <4>1
    <3> QED
      BY <3>1, <3>2
  <2>4. MayGoOut(m) /\ Last(m) \in 0..Last(m)
    BY <1>1, <1>2, <1>5 DEF MayGoOut
  <2>5. /\ Cardinality(Sends(m, Last(m))) <= doubts[m]
        /\ \A n \in 0..Last(m) : Cardinality(Sends(m, n)) <= 1 + doubts[m]
    BY <1>1, <2>4 DEF IInv, SendsInv
  <2>6. ASSUME NEW n \in 0..Last(m)
        PROVE  Cardinality(Sends(m, n)') = Cardinality(Sends(m, n)) + IF out /\ n = Last(m) THEN 1 ELSE 0
    <3>1. /\ IsFiniteSet(Sends(m, n)) /\ Cardinality(Sends(m, n)) \in Nat
          /\ Sends(m, n) \subseteq 1..Len(sent[m]) /\ DOMAIN sent[m] = 1..Len(sent[m])
      BY <1>1, SendsCount
    <3>2. CASE ~out
      <4>1. Sends(m, n)' = Sends(m, n)
        BY <1>9, <3>2 DEF Sends
      <4> QED
        BY <3>1, <3>2, <4>1
    <3> PICK l, B : l = Len(sent[m]) + 1 /\ B = 1..Len(sent[m])
      OBVIOUS
    <3>3. 1..l = B \cup {l} /\ l \notin B /\ Sends(m, n) = {i \in B : sent[m][i].approval = n}
      <4>1. 1..l = B \cup {l} /\ l \notin B
        BY <1>5
      <4>2. Sends(m, n) = {i \in B : sent[m][i].approval = n}
        BY <3>1 DEF Sends
      <4> QED
        BY <4>1, <4>2
    <3>4. out => /\ Sends(m, n)' = {i \in B \cup {l} : sent'[m][i].approval = n}
                 /\ sent'[m][l].approval = Last(m)
                 /\ \A i \in B : sent'[m][i].approval = sent[m][i].approval
      BY <1>6, <1>8, <1>9, <3>3 DEF Sends
    <3>5. CASE out /\ n # Last(m)
      <4>1. Sends(m, n)' = Sends(m, n)
        BY <3>3, <3>4, <3>5
      <4> QED
        BY <3>1, <3>5, <4>1
    <3>6. CASE out /\ n = Last(m)
      <4>1. Sends(m, n)' = Sends(m, n) \cup {l} /\ l \notin Sends(m, n)
        BY <3>3, <3>4, <3>6
      <4>2. Cardinality(Sends(m, n)') = Cardinality(Sends(m, n)) + 1
        BY <3>1, <4>1, FS_AddElement, ZenonT(40)
      <4> QED
        BY <3>6, <4>2
    <3> QED
      BY <3>2, <3>5, <3>6
  <2>7. \A n \in 0..Last(m) : Cardinality(Sends(m, n)) \in Nat
    BY <1>1, SendsCount
  <2>8. \A n \in 0..Last(m) : Cardinality(Sends(m, n)') <= 1 + doubts'[m]
    BY <1>5, <1>7, <2>5, <2>6, <2>7
  <2>9. answer # "ok" => Cardinality(Sends(m, Last(m))') <= doubts'[m]
    <3>1. out /\ answer # "ok" => answer = "transient"
      BY <1>3
    <3>2. PICK n \in 0..Last(m) : n = Last(m)
      BY <2>4
    <3>3. answer # "ok" => Cardinality(Sends(m, n)') <= doubts'[m]
      BY <1>5, <1>7, <2>5, <2>6, <2>7, <3>1, <3>2
    <3>4. Sends(m, Last(m))' = Sends(m, n)'
      BY <2>1, <3>2
    <3> QED
      BY <3>3, <3>4
  <2>10. MayGoOut(m)' => answer # "ok"
    BY <1>2, <1>3, <1>4, <1>10 DEF MayGoOut
  <2>11. ASSUME NEW q \in Mails
         PROVE  /\ \A i \in 1..Len(sent'[q]) :
                     /\ sent'[q][i].approval <= Last(q)'
                     /\ \E n \in 1..Last(q)' : approved'[q][n] = sent'[q][i].text
                /\ \A n \in 0..Last(q)' : Cardinality(Sends(q, n)') <= 1 + doubts'[q]
                /\ MayGoOut(q)' => Cardinality(Sends(q, Last(q))') <= doubts'[q]
    <3>1. CASE q = m
      BY <2>1, <2>3, <2>8, <2>9, <2>10, <3>1
    <3>2. CASE q # m
      BY <1>7, <1>9, <2>1, <2>2, <3>2, ZenonT(40) DEF IInv, SendsInv
    <3> QED
      BY <3>1, <3>2
  <2> QED
    BY <2>11 DEF SendsInv
<1> QED
  BY <1>10, <1>11, <1>12 DEF IInv

------------------------------------------------------------------------------
(* The invariant. *)

\* It holds before anything has happened.
LEMMA InitInductive == Init => IInv
<1> SUFFICES ASSUME Init
             PROVE  IInv
  OBVIOUS
<1>1. RunnerInv
  BY RunnerStarts DEF Init
<1>2. MailsInv
  <2> PICK r : r = [status |-> "DRAFT", text |-> 1, hash |-> None, used |-> FALSE, attempts |-> 0]
    OBVIOUS
  <2>1. 1 \in Texts /\ 0 \in 0..MaxAttempts
    BY OutboxAssumption DEF Texts
  <2>2. r \in MailRow /\ r.status = "DRAFT" /\ r.hash = None /\ r.attempts = 0
    BY <2>1 DEF MailRow
  <2>3. \A m \in Mails : MailSound(m, r)
    BY <2>2 DEF MailSound, Known
  <2>4. mail = [m \in Mails |-> r]
    BY DEF Init
  <2> QED
    BY <2>3, <2>4 DEF MailsInv
<1>3. Tables
  <2>1. <<>> \in Seq(Texts) /\ <<>> \in Seq(SentRecord)
    OBVIOUS
  <2> QED
    BY <2>1 DEF Init, Tables
<1>4. TicksInv /\ WorkInv /\ OwnersInv
  BY DEF Init, TicksInv, Over, WorkInv, OwnersInv, Owns, NoTick
<1>5. SendsInv
  <2>1. ASSUME NEW m \in Mails
        PROVE  Last(m) = 0 /\ doubts[m] = 0 /\ sent[m] = <<>> /\ \A n : Sends(m, n) = {}
    BY DEF Init, Last, Sends
  <2>2. \A m \in Mails, n \in Nat : Cardinality(Sends(m, n)) = 0
    BY <2>1, FS_EmptySet
  <2> QED
    BY <2>1, <2>2 DEF SendsInv
<1> QED
  BY <1>1, <1>2, <1>3, <1>4, <1>5 DEF IInv

\* It speaks of the variables only.
LEMMA StutterKeeps ==
  ASSUME IInv, UNCHANGED vars
  PROVE  IInv'
<1>1. UNCHANGED <<runner, mail, settings, lead, tick, request, approved, sent, doubts>>
  BY DEF vars, outbox, histories
<1>2. Tables'
  BY <1>1 DEF IInv, Tables
<1> QED
  BY <1>1, <1>2, NoRowKeeps

\* No step of a tick breaks it.
LEMMA TickStepKeeps ==
  ASSUME IInv, NEW e \in Slots, TickStep(e)
  PROVE  IInv'
  BY ReadStopsKeeps, ReadDueKeeps, JudgeKeeps, BlockKeeps, ClaimKeeps, SendKeeps, WriteSentKeeps, WriteErrorKeeps,
     AbortKeeps DEF TickStep

\* No step of people, lead, runner or tick breaks it.
LEMMA StepInductive == IInv /\ [Next]_vars => IInv'
<1> SUFFICES ASSUME IInv, [Next]_vars
             PROVE  IInv'
  OBVIOUS
<1>1. CASE (RunnerStep \/ \E e \in Slots : Insert(e)) /\ UNCHANGED <<outbox, histories>>
  BY <1>1, RunnerStepKeeps DEF RunnerMoves
<1>2. ASSUME NEW e \in Slots, TickStep(e) \/ TickEnds(e)
      PROVE  IInv'
  BY <1>2, TickStepKeeps, TickEndsKeeps
<1>3. ASSUME NEW m \in Mails, Queue(m) \/ Cancel(m) \/ Reopen(m) \/ Edit(m)
      PROVE  IInv'
  BY <1>3, QueueKeeps, CancelKeeps, ReopenKeeps, EditKeeps
<1>4. ASSUME NEW p \in People,
             \/ \E m \in Mails : BeginApprove(p, m)
             \/ \E queue \in BOOLEAN : Approve(p, queue)
             \/ \E s \in Stops : ReadSettings(p, {s}, {}) \/ ReadSettings(p, {}, {s})
             \/ ReadSettings(p, {}, {})
             \/ WriteSettings(p)
      PROVE  IInv'
  <2>1. {} \in SUBSET Stops /\ \A s \in Stops : {s} \in SUBSET Stops
    OBVIOUS
  <2> QED
    BY <1>4, <2>1, BeginApproveKeeps, ApproveKeeps, ReadSettingsKeeps, WriteSettingsKeeps
<1> QED
  BY <1>1, <1>2, <1>3, <1>4, CrashKeeps, LeadStopsKeeps, StopPendingKeeps, StutterKeeps DEF Next

\* IInv holds in every reachable state.
THEOREM Invariant == Spec => []IInv
  BY InitInductive, StepInductive, PTL DEF Spec

------------------------------------------------------------------------------
(* Two executions at work at the same time are two of which one is late at least *)
(* (releaseJob, runner.ts).                                                      *)
THEOREM OverlapIsLate == Spec => []OnlyLateOverlap
<1>1. IInv => OnlyLateOverlap
  BY DEF IInv, RunnerInv, Executes, OnlyLateOverlap
<1> QED
  BY <1>1, Invariant, PTL

\* TypeOK is part of the invariant.
LEMMA TypesHold == IInv => TypeOK
<1> SUFFICES ASSUME IInv
             PROVE  TypeOK
  OBVIOUS
<1>1. RunnerTypeOK
  <2>1. Len(rows) \in Nat
    BY RunnerTyped DEF IInv
  <2>2. ASSUME NEW e \in Slots
        PROVE  exec[e] \in [pc : {"idle", "prepare", "insert", "work"}, row : 0..Len(rows), late : BOOLEAN]
    <3>1. exec[e] \in ExecRecord /\ exec[e].row \in 0..Len(rows)
      BY <2>1 DEF IInv, RunnerInv, Executes
    <3> QED
      BY <3>1 DEF ExecRecord
  <2> QED
    BY <2>2 DEF IInv, RunnerInv, RunnerTypeOK, SyncRow
<1>2. Statuses = {"DRAFT", "APPROVED", "QUEUED", "SENDING", "SENT", "FAILED", "CANCELLED", "BLOCKED"}
  BY DEF Statuses, Cancellable
<1>3. mail \in [Mails -> [status : Statuses, text : 1..MaxTexts, hash : (1..MaxTexts) \cup {None},
                          used : BOOLEAN, attempts : 0..MaxAttempts]]
  <2>1. \A m \in Mails : mail[m] \in MailRow
    BY MailIs
  <2> QED
    BY <1>2, <2>1 DEF IInv, MailsInv, MailRow, Texts
<1>4. \A m \in Mails : mail[m].status = "SENT" => mail[m].used
  BY MailIs DEF MailSound
<1> QED
  BY <1>1, <1>3, <1>4 DEF IInv, Tables, WorkInv, TypeOK

(* However runs overlap and whenever the process dies, an approval sends its mail *)
(* once, but for the times an error was seen after the mail had gone out          *)
(* (email-outbox.ts, the claim QUEUED -> SENDING).                                *)
THEOREM SentOnce == Spec => []OneSendPerApproval
<1>1. IInv => OneSendPerApproval
  <2> SUFFICES ASSUME IInv
               PROVE  OneSendPerApproval
    OBVIOUS
  <2>1. ASSUME NEW m \in Mails, NEW n \in 1..Len(approved[m])
        PROVE  Cardinality({i \in DOMAIN sent[m] : sent[m][i].approval = n}) <= 1 + doubts[m]
    <3>1. n \in 0..Last(m)
      BY DEF Last
    <3>2. Cardinality(Sends(m, n)) <= 1 + doubts[m]
      BY <3>1 DEF IInv, SendsInv
    <3> QED
      BY <3>2 DEF Sends
  <2> QED
    BY <2>1, TypesHold DEF OneSendPerApproval
<1> QED
  BY <1>1, Invariant, PTL

(* Nothing goes out that no person has approved word for word, even if the text   *)
(* is edited while somebody is approving it (approveEmailCore, email-outbox.ts).  *)
THEOREM ApprovedWordForWord == Spec => []OnlyApprovedText
<1>1. IInv => OnlyApprovedText
  <2> SUFFICES ASSUME IInv, NEW m \in Mails, NEW i \in DOMAIN sent[m]
               PROVE  \E n \in DOMAIN approved[m] : approved[m][n] = sent[m][i].text
    BY DEF OnlyApprovedText
  <2>1. i \in 1..Len(sent[m])
    BY SendsCount
  <2>2. DOMAIN approved[m] = 1..Len(approved[m])
    BY LenProperties DEF IInv, Tables
  <2> QED
    BY <2>1, <2>2 DEF IInv, SendsInv, Last
<1> QED
  BY <1>1, Invariant, PTL

(* No run that begins after a lead's mails were stopped hands one of them to the  *)
(* provider (stopPendingEmails, email-outbox.ts).                                 *)
THEOREM SilenceIsKept == Spec => SilenceHolds
<1> DEFINE A == \A e \in Slots : ~(In(e, "claim") /\ tick'[e].pc = "send" /\ tick[e].began = "silent")
<1>1. IInv => A
  <2> SUFFICES ASSUME IInv, NEW e \in Slots, tick[e].pc = "claim"
               PROVE  tick[e].began # "silent"
    BY DEF In
  <2>1. Looking(tick[e])
    BY InHand DEF Stages
  <2> QED
    BY <2>1 DEF Looking
<1>2. Spec => [][A]_tick
  BY <1>1, Invariant, PTL DEF Spec
<1> QED
  BY <1>2 DEF SilenceHolds

\* Who closes or rewrites a row that has ended is its own execution.
LEMMA RowStands ==
  ASSUME IInv, [Next]_vars, NEW i \in DOMAIN rows, rows[i].status # "RUNNING",
         \A e \in Slots : exec[e].row # i
  PROVE  rows'[i].status = rows[i].status
<1>1. i \in 1..Len(rows) /\ rows[i] \in SyncRow /\ RunnerInv
  BY RunnerTyped DEF IInv
<1>2. CASE rows' = rows
  BY <1>2
<1>3. ASSUME NEW e \in Slots, CloseOrphans(e)
      PROVE  rows'[i].status = rows[i].status
  BY <1>1, <1>3 DEF CloseOrphans, StillRunning
<1>4. ASSUME NEW e \in Slots, Insert(e)
      PROVE  rows'[i].status = rows[i].status
  <2>1. rows'[i] = rows[i]
    BY <1>1, <1>4, AppendProperties DEF Insert, RunnerInv
  <2> QED
    BY <2>1
<1>5. ASSUME NEW e \in Slots, NEW o \in {"SUCCESS", "FAILED"}, exec[e].row \in 1..Len(rows),
             rows' = [rows EXCEPT ![exec[e].row].status = o]
      PROVE  rows'[i].status = rows[i].status
  <2>1. rows'[i] = rows[i]
    BY <1>1, <1>5, RowClosed
  <2> QED
    BY <2>1
<1>6. ASSUME NEW e \in Slots, NEW lands \in BOOLEAN, Watchdog(e, lands)
      PROVE  rows'[i].status = rows[i].status
  <2>1. exec[e].row # 0 => exec[e].row \in 1..Len(rows)
    BY <1>1 DEF RunnerInv, Executes
  <2>2. rows' = rows \/ (exec[e].row # 0 /\ rows' = [rows EXCEPT ![exec[e].row].status = "FAILED"])
    BY <1>6 DEF Watchdog
  <2> QED
    BY <1>2, <1>5, <2>1, <2>2
<1>7. ASSUME NEW e \in Slots, TickEnds(e)
      PROVE  rows'[i].status = rows[i].status
  <2>1. PICK w \in BOOLEAN, o \in {"SUCCESS", "FAILED"} : Finish(e, o, w)
    BY <1>7 DEF TickEnds, Outcomes
  <2>2. exec[e].row \in 1..Len(rows)
    BY <1>1, <2>1 DEF Finish, AtWork, RunnerInv, Executes
  <2>3. rows' = rows \/ rows' = [rows EXCEPT ![exec[e].row].status = o]
    BY <2>1 DEF Finish
  <2> QED
    BY <1>2, <1>5, <2>2, <2>3
<1>8. ASSUME NEW j \in DOMAIN rows, GrowOld(j)
      PROVE  rows'[i].status = rows[i].status
  <2>1. j # i
    BY <1>8 DEF GrowOld
  <2> QED
    BY <1>1, <1>8, <2>1 DEF GrowOld, RunnerInv
<1>9. ASSUME NEW e \in Slots, Start(e) \/ NotInserted(e)
      PROVE  rows' = rows
  BY <1>9 DEF Start, NotInserted
<1>10. CASE RunnerStep \/ \E e \in Slots : Insert(e)
  BY <1>2, <1>3, <1>4, <1>6, <1>8, <1>9, <1>10 DEF RunnerStep
<1>11. ASSUME NEW e \in Slots, TickStep(e)
       PROVE  rows' = rows
  BY <1>11 DEF TickStep, ReadStops, ReadDue, Judge, Block, Claim, Send, WriteSent, WriteError, Abort, ByTick, runner
<1>12. CASE Crash
  BY <1>2, <1>12 DEF Crash, Restart
<1>13. ASSUME NEW m \in Mails, Queue(m) \/ Cancel(m) \/ Reopen(m) \/ Edit(m)
       PROVE  rows' = rows
  BY <1>13 DEF Queue, Cancel, Reopen, Edit, ByPerson, runner
<1>14. ASSUME NEW p \in People,
              \/ \E m \in Mails : BeginApprove(p, m)
              \/ \E queue \in BOOLEAN : Approve(p, queue)
              \/ \E s \in Stops : ReadSettings(p, {s}, {}) \/ ReadSettings(p, {}, {s})
              \/ ReadSettings(p, {}, {})
              \/ WriteSettings(p)
       PROVE  rows' = rows
  BY <1>14 DEF BeginApprove, Approve, ReadSettings, WriteSettings, ByPerson, runner
<1>15. CASE LeadStops \/ StopPending
  BY <1>2, <1>15 DEF LeadStops, StopPending, runner
<1>16. CASE UNCHANGED vars
  BY <1>2, <1>16 DEF vars, runner
<1> QED
  BY <1>2, <1>7, <1>10, <1>11, <1>12, <1>13, <1>14, <1>15, <1>16 DEF Next

(* A row whose execution has ended with an outcome never tells anything else: what *)
(* a late run has written stands against the sweep of every later start            *)
(* (runner.ts, the sweep of orphaned rows).                                        *)
THEOREM EndsStand == Spec => OutcomeStands
<1> DEFINE A == \A i \in DOMAIN rows :
                  rows[i].status # "RUNNING" /\ (\A e \in Slots : exec[e].row # i)
                    => rows'[i].status = rows[i].status
<1>1. IInv /\ [Next]_vars => A
  BY RowStands
<1>2. Spec => [][A]_runner
  BY <1>1, Invariant, PTL DEF Spec
<1> QED
  BY <1>2 DEF OutcomeStands
==============================================================================
