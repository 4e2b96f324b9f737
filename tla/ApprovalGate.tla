---------------------------- MODULE ApprovalGate ----------------------------
(***************************************************************************)
(* The two-person approval gate for human requesters: the rows of          *)
(* approval_requests, the calls that pass the gate, and the job that hands *)
(* back abandoned reservations.                                            *)
(*   src/lib/approvals/service.ts            gate, decision, settlement    *)
(*   src/lib/approvals/execution.ts          withApprovalExecution         *)
(*   src/lib/approvals/reservation-sweep.ts  releaseStuckApproval...       *)
(*   src/lib/inventory/receipt-create.ts     the IN_TRANSACTION caller     *)
(*                                                                         *)
(* One approval group is modelled, and a key stands for what the gate      *)
(* matches on: the requester and the fingerprint of the work.  Every step  *)
(* below is one SQL statement or one transaction; between two steps of a   *)
(* call anything else may happen, and the process may die.                 *)
(***************************************************************************)
EXTENDS Integers, FiniteSets

CONSTANTS
  Requests,           \* row ids of approval_requests (bounds the rows inserted)
  Calls,              \* server actions that can be under way at the same time
  Users, Works,
  Keys,               \* the (requester, work) pairs that are tried
  PathOf,             \* how the call site of a key settles a consumption
  Exempt,             \* keys under the money threshold, or the owner's own payroll
  Deciders,           \* users with approvals:decide
  Approvers,          \* active ADMIN / MANAGER users (coNguoiDuyetKhac counts these)
  ValidFor,           \* APPROVAL_VALID_HOURS, in ticks
  ReservationTimeout, \* APPROVAL_RESERVATION_TIMEOUT_MINUTES, in ticks
  ActionMax,          \* longest a guarded call lives before its process is gone
  MaxTime,            \* horizon of the clock
  NoReq, NoUser, NoKey

ASSUME UsersAssumption ==
  /\ Keys \subseteq [by : Users, work : Works]
  /\ Exempt \subseteq Keys
  /\ PathOf \in [Keys -> {"IN_TRANSACTION", "DEFERRED", "IMMEDIATE"}]
  /\ Deciders \subseteq Users /\ Approvers \subseteq Users
  /\ NoReq \notin Requests /\ NoUser \notin Users /\ NoKey \notin Keys

\* reservation-sweep.ts:30-37: no guarded call outlives the reservation.
ASSUME TimeAssumption ==
  /\ ValidFor \in Nat /\ ReservationTimeout \in Nat
  /\ ActionMax \in Nat /\ MaxTime \in Nat
  /\ ActionMax < ReservationTimeout

NoTime == -1
Time   == Nat \cup {NoTime}

Status     == {"NONE", "PENDING", "APPROVED", "REJECTED", "EXECUTED", "EXPIRED"}
Settlement == {"NONE", "IN_TRANSACTION", "DEFERRED", "IMMEDIATE"}
Step       == {"idle", "expire", "select", "flip", "audit", "body", "confirm",
               "release", "record"}

VARIABLES
  \* table approval_requests
  status, key, decidedBy, decidedAt, executedAt,
  executionError,     \* TRUE: the column holds a sentence
  \* other tables
  event,              \* domain_events approval.executed: settlement it carries
  audited,            \* requests with an approval.execute:* row saying DEFERRED
  enforced,           \* settings approval.enforce.v2 for the group
  \* the calls
  pc, intent,
  start,              \* the `now` a call captured when it entered the gate
  cand,               \* candidates read and not yet tried
  rid,                \* the request it consumed
  warned,             \* candidates whose executionError it read with them
  now,
  trace               \* history: what the business tables show of each request

rowVars  == <<status, key, decidedBy, decidedAt, executedAt, executionError>>
callVars == <<pc, intent, start, cand, rid, warned>>
vars     == <<rowVars, event, audited, enforced, callVars, now, trace>>

------------------------------------------------------------------------------
Init ==
  /\ status = [r \in Requests |-> "NONE"]
  /\ key = [r \in Requests |-> NoKey]
  /\ decidedBy = [r \in Requests |-> NoUser]
  /\ decidedAt = [r \in Requests |-> NoTime]
  /\ executedAt = [r \in Requests |-> NoTime]
  /\ executionError = [r \in Requests |-> FALSE]
  /\ event = [r \in Requests |-> "NONE"]
  /\ audited = {}
  /\ enforced = TRUE
  /\ pc = [c \in Calls |-> "idle"]
  /\ intent = [c \in Calls |-> NoKey]
  /\ start = [c \in Calls |-> 0]
  /\ cand = [c \in Calls |-> {}]
  /\ rid = [c \in Calls |-> NoReq]
  /\ warned = [c \in Calls |-> {}]
  /\ now = 0
  /\ trace = [r \in Requests |-> "clean"]

\* The call is over; nothing of it is kept.
Finish(c) ==
  /\ pc' = [pc EXCEPT ![c] = "idle"]
  /\ intent' = [intent EXCEPT ![c] = NoKey]
  /\ start' = [start EXCEPT ![c] = 0]
  /\ cand' = [cand EXCEPT ![c] = {}]
  /\ rid' = [rid EXCEPT ![c] = NoReq]
  /\ warned' = [warned EXCEPT ![c] = {}]

Goto(c, s) ==
  /\ pc' = [pc EXCEPT ![c] = s]
  /\ UNCHANGED <<intent, start, cand, rid, warned>>

Path(c) == PathOf[intent[c]]

Usable(r, k, t) ==
  /\ status[r] = "APPROVED"
  /\ key[r] = k
  /\ executedAt[r] = NoTime
  /\ decidedAt[r] > t - ValidFor

\* Approvals of the requester, in this group, that lapsed before t.
Stale(k, t) ==
  {r \in Requests : /\ status[r] = "APPROVED"
                    /\ key[r].by = k.by
                    /\ executedAt[r] = NoTime
                    /\ decidedAt[r] <= t - ValidFor}

\* What the call's own open transaction has expired and not yet committed.
StaleInTx(c) ==
  IF Path(c) = "IN_TRANSACTION" THEN Stale(intent[c], start[c]) ELSE {}

\* Mutant: the expiry writes a word that is not a status.
LapseMisspelt(S) == [r \in Requests |-> IF r \in S THEN "LAPSED" ELSE status[r]]

Lapse(S) == [r \in Requests |-> IF r \in S THEN "EXPIRED" ELSE status[r]]

\* The first candidate in the order of decided_at.
Oldest(c) == {r \in cand[c] : \A q \in cand[c] : decidedAt[r] <= decidedAt[q]}

OtherApprover(u) == Approvers \ {u} # {}

------------------------------------------------------------------------------
(* The gate                                                                *)

\* setEnforceGroupCore: the ADMIN switch of the group.
SetEnforceGroup(b) ==
  /\ enforced' = b
  /\ UNCHANGED <<rowVars, event, audited, callVars, now, trace>>

\* Not enforced, under the threshold, or the owner's own payroll: carry on.
GuardSkip(c, k) ==
  /\ pc[c] = "idle"
  /\ ~enforced \/ k \in Exempt
  /\ pc' = [pc EXCEPT ![c] = "body"]
  /\ intent' = [intent EXCEPT ![c] = k]
  /\ start' = [start EXCEPT ![c] = now]
  /\ UNCHANGED <<rowVars, event, audited, enforced, cand, rid, warned, now, trace>>

\* Inside an open transaction the expiry stays invisible until the commit.
GuardEnter(c, k) ==
  /\ pc[c] = "idle"
  /\ enforced /\ k \notin Exempt
  /\ pc' = [pc EXCEPT ![c] = IF PathOf[k] = "IN_TRANSACTION" THEN "select" ELSE "expire"]
  /\ intent' = [intent EXCEPT ![c] = k]
  /\ start' = [start EXCEPT ![c] = now]
  /\ UNCHANGED <<rowVars, event, audited, enforced, cand, rid, warned, now, trace>>

ExpireStaleApprovals(c) ==
  /\ pc[c] = "expire"
  /\ status' = Lapse(Stale(intent[c], start[c]))
  /\ Goto(c, "select")
  /\ UNCHANGED <<key, decidedBy, decidedAt, executedAt, executionError,
                 event, audited, enforced, now, trace>>

SelectCandidates(c) ==
  /\ pc[c] = "select"
  /\ cand' = [cand EXCEPT ![c] = {r \in Requests : Usable(r, intent[c], start[c])}]
  /\ warned' = [warned EXCEPT ![c] = {r \in cand'[c] : executionError[r]}]
  /\ pc' = [pc EXCEPT ![c] = "flip"]
  /\ UNCHANGED <<rowVars, event, audited, enforced, intent, start, rid, now, trace>>

\* Mutant: the flip trusts the SELECT.
AsSelected(r) == TRUE

\* The flip asks again: UPDATE ... WHERE id = ? AND status = 'APPROVED'.
StillApproved(r) == status[r] = "APPROVED"

\* It hit nothing: try the next candidate.
MissCandidate(c, r) ==
  /\ pc[c] = "flip" /\ r \in Oldest(c)
  /\ ~StillApproved(r)
  /\ cand' = [cand EXCEPT ![c] = @ \ {r}]
  /\ UNCHANGED <<rowVars, event, audited, enforced, pc, intent, start, rid,
                 warned, now, trace>>

\* The flip itself, by a call that is not inside a transaction of its caller.
Consume(c, r) ==
  /\ pc[c] = "flip" /\ r \in Oldest(c)
  /\ StillApproved(r)
  /\ status' = [status EXCEPT ![r] = "EXECUTED"]
  /\ executedAt' = [executedAt EXCEPT ![r] = start[c]]
  /\ executionError' = [executionError EXCEPT ![r] = FALSE]
  /\ rid' = [rid EXCEPT ![c] = r]
  /\ warned' = [warned EXCEPT ![c] = @ \cap {r}]
  /\ cand' = [cand EXCEPT ![c] = {}]
  /\ UNCHANGED <<key, decidedBy, decidedAt, audited, enforced, intent, start,
                 now, trace>>

\* Mutant: the event is recorded at the gate, before the outcome is known.
ReserveAndEmit(c, r) ==
  /\ Consume(c, r)
  /\ Path(c) = "DEFERRED"
  /\ pc' = [pc EXCEPT ![c] = "audit"]
  /\ event' = [event EXCEPT ![r] = "DEFERRED"]

\* DEFERRED: the flip only reserves; the event waits for the outcome.
Reserve(c, r) ==
  /\ Consume(c, r)
  /\ Path(c) = "DEFERRED"
  /\ pc' = [pc EXCEPT ![c] = "audit"]
  /\ UNCHANGED event

\* IMMEDIATE: nobody will settle, so flip and event are one transaction.
ConsumeAtOnce(c, r) ==
  /\ Consume(c, r)
  /\ Path(c) = "IMMEDIATE"
  /\ pc' = [pc EXCEPT ![c] = "body"]
  /\ event' = [event EXCEPT ![r] = "IMMEDIATE"]

\* The gate's log row.  audit() swallows its own failures.
AuditReservation(c) ==
  /\ pc[c] = "audit"
  /\ audited' \in {audited \cup {rid[c]}, audited}
  /\ Goto(c, "body")
  /\ UNCHANGED <<rowVars, event, enforced, now, trace>>

\* Nothing to consume: ask, unless the same request already waits or nobody could say yes.
AskForApproval(c, r) ==
  /\ pc[c] = "flip" /\ cand[c] = {}
  /\ OtherApprover(intent[c].by)
  /\ ~\E q \in Requests : status[q] = "PENDING" /\ key[q] = intent[c]
  /\ status[r] = "NONE"
  /\ status' = [Lapse(StaleInTx(c)) EXCEPT ![r] = "PENDING"]
  /\ key' = [key EXCEPT ![r] = intent[c]]
  /\ Finish(c)
  /\ UNCHANGED <<decidedBy, decidedAt, executedAt, executionError, event, audited,
                 enforced, now, trace>>

AlreadyAsked(c) ==
  /\ pc[c] = "flip" /\ cand[c] = {}
  /\ \/ ~OtherApprover(intent[c].by)
     \/ \E q \in Requests : status[q] = "PENDING" /\ key[q] = intent[c]
  /\ status' = Lapse(StaleInTx(c))
  /\ Finish(c)
  /\ UNCHANGED <<key, decidedBy, decidedAt, executedAt, executionError, event,
                 audited, enforced, now, trace>>

\* Mutant: nobody compares the decider with the requester.
AnyDecider(u, r) == u \in Deciders

MayDecide(u, r) == u \in Deciders /\ key[r].by # u

\* decideApprovalCore: the second person says yes or no.
DecideApproval(u, r, s) ==
  /\ status[r] = "PENDING"
  /\ MayDecide(u, r)
  /\ status' = [status EXCEPT ![r] = s]
  /\ decidedBy' = [decidedBy EXCEPT ![r] = u]
  /\ decidedAt' = [decidedAt EXCEPT ![r] = now]
  /\ UNCHANGED <<key, executedAt, executionError, event, audited, enforced, callVars,
                 now, trace>>

------------------------------------------------------------------------------
(* The work behind the gate, and its settlement                            *)

\* A reservation goes on to step s of its settlement; any other call is over.
EndBody(c, s) ==
  /\ pc[c] = "body"
  /\ IF Path(c) = "DEFERRED" /\ rid[c] # NoReq THEN Goto(c, s) ELSE Finish(c)
  /\ UNCHANGED <<rowVars, event, audited, enforced, now>>

Written(c) == IF rid[c] = NoReq THEN trace ELSE [trace EXCEPT ![rid[c]] = "written"]

\* Mutant: an answer without { ok } is settled as a failure after the write.
BodyWritesThenReleases(c) == EndBody(c, "release") /\ trace' = Written(c)

\* The business write of a call that passed the gate before its body.
BodyWrites(c) == EndBody(c, "confirm") /\ trace' = Written(c)

\* Mutant: { error } is taken for an outcome like any other, and confirmed.
BodyFailsButConfirms(c) == EndBody(c, "confirm") /\ UNCHANGED trace

\* The body answers { error } or throws, and has written nothing.
BodyFails(c) == EndBody(c, "release") /\ UNCHANGED trace

\* The body throws, or answers { error }, after its write has committed.
BodyFailsHalfway(c) ==
  /\ rid[c] # NoReq
  /\ EndBody(c, "release")
  /\ trace' = [trace EXCEPT ![rid[c]] = "doubtful"]

\* The row is EXECUTED still: clear the error and record the event with it.
ConfirmApprovalExecution(c) ==
  /\ pc[c] = "confirm"
  /\ IF status[rid[c]] = "EXECUTED"
     THEN /\ executionError' = [executionError EXCEPT ![rid[c]] = FALSE]
          /\ event' = [event EXCEPT ![rid[c]] = IF @ = "NONE" THEN "DEFERRED" ELSE @]
     ELSE UNCHANGED <<executionError, event>>
  /\ Finish(c)
  /\ UNCHANGED <<status, key, decidedBy, decidedAt, executedAt, audited, enforced,
                 now, trace>>

ReleaseApprovalExecution(c) ==
  /\ pc[c] = "release"
  /\ IF status[rid[c]] = "EXECUTED" /\ event[rid[c]] = "NONE"
     THEN /\ status' = [status EXCEPT ![rid[c]] = "APPROVED"]
          /\ executedAt' = [executedAt EXCEPT ![rid[c]] = NoTime]
          /\ executionError' = [executionError EXCEPT ![rid[c]] = TRUE]
     ELSE UNCHANGED <<status, executedAt, executionError>>
  /\ Finish(c)
  /\ UNCHANGED <<key, decidedBy, decidedAt, event, audited, enforced, now, trace>>

\* IN_TRANSACTION: flip, event and business rows commit together.
CommitInTransaction(c, r) ==
  /\ pc[c] = "flip" /\ Path(c) = "IN_TRANSACTION" /\ r \in Oldest(c)
  /\ StillApproved(r)
  /\ status' = [Lapse(StaleInTx(c)) EXCEPT ![r] = "EXECUTED"]
  /\ executedAt' = [executedAt EXCEPT ![r] = start[c]]
  /\ executionError' = [executionError EXCEPT ![r] = FALSE]
  /\ event' = [event EXCEPT ![r] = "IN_TRANSACTION"]
  /\ trace' = [trace EXCEPT ![r] = "written"]
  /\ Finish(c)
  /\ UNCHANGED <<key, decidedBy, decidedAt, audited, enforced, now>>

\* The transaction falls after the flip, and takes the flip with it.
AbortTransaction(c, r) ==
  /\ pc[c] = "flip" /\ Path(c) = "IN_TRANSACTION" /\ r \in Oldest(c)
  /\ StillApproved(r)
  /\ pc' = [pc EXCEPT ![c] = "record"]
  /\ rid' = [rid EXCEPT ![c] = r]
  /\ cand' = [cand EXCEPT ![c] = {}]
  /\ warned' = [warned EXCEPT ![c] = {}]
  /\ UNCHANGED <<rowVars, event, audited, enforced, intent, start, now, trace>>

RecordApprovalExecutionError(c) ==
  /\ pc[c] = "record"
  /\ executionError' = IF status[rid[c]] = "APPROVED"
                       THEN [executionError EXCEPT ![rid[c]] = TRUE]
                       ELSE executionError
  /\ Finish(c)
  /\ UNCHANGED <<status, key, decidedBy, decidedAt, executedAt, event, audited,
                 enforced, now, trace>>

\* The process dies, or the settlement itself fails and is only logged.
Crash(c) ==
  /\ pc[c] # "idle"
  /\ Finish(c)
  /\ UNCHANGED <<rowVars, event, audited, enforced, now, trace>>

------------------------------------------------------------------------------
(* The sweep and the clock                                                 *)

\* Reserved by a DEFERRED call, and long ago.  The sweep that forgets
\* NOT EXISTS (... approval.executed ...) is also a mutant of Stuck.
Overdue ==
  {r \in Requests : /\ status[r] = "EXECUTED"
                    /\ executedAt[r] # NoTime
                    /\ executedAt[r] <= now - ReservationTimeout
                    /\ r \in audited}

\* Mutant: only approvals that have not lapsed meanwhile are handed back.
StuckAndValid == {r \in Overdue : event[r] = "NONE" /\ decidedAt[r] > now - ValidFor}

Stuck == {r \in Overdue : event[r] = "NONE"}

\* Mutant: the sweep leaves execution_error as it is.
NotWarned == executionError

Warned == [r \in Requests |-> r \in Stuck \/ executionError[r]]

\* One UPDATE of the alerts job hands every stuck reservation back.
ReleaseStuckReservations ==
  /\ Stuck # {}
  /\ status' = [r \in Requests |-> IF r \in Stuck THEN "APPROVED" ELSE status[r]]
  /\ executedAt' = [r \in Requests |-> IF r \in Stuck THEN NoTime ELSE executedAt[r]]
  /\ executionError' = Warned
  /\ trace' = [r \in Requests |->
                 IF r \in Stuck /\ trace[r] = "written" THEN "doubtful" ELSE trace[r]]
  /\ UNCHANGED <<key, decidedBy, decidedAt, event, audited, enforced, callVars, now>>

\* A call that is under way is over, one way or another, within ActionMax.
Tick ==
  /\ now < MaxTime
  /\ \A c \in Calls : pc[c] # "idle" => now < start[c] + ActionMax
  /\ now' = now + 1
  /\ UNCHANGED <<rowVars, event, audited, enforced, callVars, trace>>

CallStep(c) ==
  \/ ExpireStaleApprovals(c) \/ SelectCandidates(c) \/ AuditReservation(c)
  \/ AlreadyAsked(c) \/ BodyWrites(c) \/ BodyFails(c) \/ BodyFailsHalfway(c)
  \/ ConfirmApprovalExecution(c) \/ ReleaseApprovalExecution(c)
  \/ RecordApprovalExecutionError(c) \/ Crash(c)
  \/ \E r \in Requests :
       \/ MissCandidate(c, r) \/ Reserve(c, r) \/ ConsumeAtOnce(c, r)
       \/ AskForApproval(c, r) \/ CommitInTransaction(c, r) \/ AbortTransaction(c, r)

Next ==
  \/ \E b \in BOOLEAN : SetEnforceGroup(b)
  \/ \E c \in Calls : \/ CallStep(c)
                      \/ \E k \in Keys : GuardSkip(c, k) \/ GuardEnter(c, k)
  \/ \E u \in Users, r \in Requests, s \in {"APPROVED", "REJECTED"} :
       DecideApproval(u, r, s)
  \/ ReleaseStuckReservations
  \/ Tick

Spec == Init /\ [][Next]_vars

------------------------------------------------------------------------------
(* Properties                                                              *)

TypeOK ==
  /\ status \in [Requests -> Status]
  /\ key \in [Requests -> Keys \cup {NoKey}]
  /\ decidedBy \in [Requests -> Users \cup {NoUser}]
  /\ decidedAt \in [Requests -> Time]
  /\ executedAt \in [Requests -> Time]
  /\ executionError \in [Requests -> BOOLEAN]
  /\ event \in [Requests -> Settlement]
  /\ audited \subseteq Requests
  /\ enforced \in BOOLEAN
  /\ pc \in [Calls -> Step]
  /\ intent \in [Calls -> Keys \cup {NoKey}]
  /\ start \in [Calls -> Nat]
  /\ cand \in [Calls -> SUBSET Requests]
  /\ rid \in [Calls -> Requests \cup {NoReq}]
  /\ warned \in [Calls -> SUBSET Requests]
  /\ now \in Nat
  /\ trace \in [Requests -> {"clean", "written", "doubtful"}]

\* The call holds a consumed approval and has not settled it.
Runs(c, r) == pc[c] \in {"audit", "body", "confirm", "release"} /\ rid[c] = r

\* The call is past the gate and its work is still to be written.
AboutToWrite(c, r) == pc[c] \in {"audit", "body"} /\ rid[c] = r

(* One approval never runs two calls at once: neither a double click, nor   *)
(* the sweep handing back a reservation whose call is still at work         *)
(* (service.ts:37-39, reservation-sweep.ts:33-35).                          *)
ExclusiveRun ==
  \A c, d \in Calls, r \in Requests : Runs(c, r) /\ Runs(d, r) => c = d

(* Work carried out under an approval is never carried out again under it,  *)
(* unless the call failed after its write or the sweep gave it up for dead: *)
(* the row stays EXECUTED and no call is on its way to write                *)
(* (service.ts:37-39).                                                      *)
WriteOnce ==
  \A r \in Requests :
    trace[r] = "written" =>
      /\ status[r] = "EXECUTED"
      /\ \A c \in Calls : ~AboutToWrite(c, r)

(* An approval that may already have been carried out, and is usable again,  *)
(* says so in execution_error (reservation-sweep.ts:40-44, service.ts:335).  *)
RedoIsFlagged ==
  \A r \in Requests :
    trace[r] = "doubtful" /\ status[r] = "APPROVED" => executionError[r]

(* A call that passed an enforced gate runs the very work its requester      *)
(* asked for, approved by somebody else less than ValidFor before the call   *)
(* came (service.ts:40-44, the CHECK approval_khac_nguoi).                   *)
SecondPerson ==
  \A c \in Calls, r \in Requests :
    Runs(c, r) =>
      /\ key[r] = intent[c]
      /\ decidedBy[r] \in Deciders \ {intent[c].by}
      /\ start[c] < decidedAt[r] + ValidFor

(* domain_events is append-only, so a DEFERRED or IN_TRANSACTION             *)
(* "approval.executed" never speaks of work that is not there, or that       *)
(* failed, or was done by a holder given up for dead (service.ts:57-60).     *)
TruthfulEvent ==
  \A r \in Requests :
    event[r] \in {"DEFERRED", "IN_TRANSACTION"} => trace[r] = "written"

(* A settled approval is never revived: not by a late release, not by the    *)
(* sweep, however old it is (service.ts:335, reservation-sweep.ts:19).       *)
SettledIsFinal ==
  [][\A r \in Requests :
       event[r] # "NONE" => status'[r] = "EXECUTED" /\ event'[r] = event[r]]_vars

(* A reservation whose log row was written does not stay stuck: its call     *)
(* settles it or the sweep hands it back (reservation-sweep.ts:9-13).  Only  *)
(* reservations old enough to be swept before the horizon are asked about.   *)
ReservationResolves ==
  \A r \in Requests :
    (/\ status[r] = "EXECUTED" /\ event[r] = "NONE" /\ r \in audited
     /\ executedAt[r] + ReservationTimeout <= MaxTime)
      ~> (status[r] # "EXECUTED" \/ event[r] # "NONE")

------------------------------------------------------------------------------
(* The inductive invariant behind ExclusiveRun, WriteOnce, RedoIsFlagged,   *)
(* SecondPerson and TruthfulEvent: what each row and each call knows.       *)

\* What two people agreed on, as the row records it.
Agreed(r, k) ==
  /\ key[r] = k
  /\ decidedBy[r] \in Deciders \ {k.by}
  /\ decidedAt[r] \in Nat

RowInv(r) ==
  /\ status[r] # "NONE" => key[r] \in Keys
  /\ status[r] \in {"APPROVED", "EXECUTED", "EXPIRED"} => Agreed(r, key[r])
  /\ status[r] = "EXECUTED" <=> executedAt[r] # NoTime
  /\ event[r] # "NONE" => status[r] = "EXECUTED"
  /\ event[r] \in {"DEFERRED", "IN_TRANSACTION"} => trace[r] = "written"
  /\ trace[r] = "written" => status[r] = "EXECUTED"
  /\ trace[r] = "doubtful" => status[r] \in {"APPROVED", "EXECUTED", "EXPIRED"}
  /\ trace[r] = "doubtful" /\ status[r] = "APPROVED" => executionError[r]

\* A consumed approval that call c has not settled is c's, and still unwritten
\* unless c has just written the work.
Holding(c) ==
  LET r == rid[c] IN
  /\ status[r] = "EXECUTED" /\ executedAt[r] = start[c]
  /\ key[r] = intent[c] /\ start[c] < decidedAt[r] + ValidFor
  /\ event[r] = "NONE" \/ (Path(c) = "IMMEDIATE" /\ pc[c] = "body")
  /\ pc[c] = "confirm" <=> trace[r] = "written"

CallInv(c) ==
  /\ pc[c] = "idle" <=> intent[c] = NoKey
  /\ pc[c] # "idle" => start[c] <= now /\ now <= start[c] + ActionMax
  /\ pc[c] \in {"idle", "expire", "select", "flip"} => rid[c] = NoReq
  /\ pc[c] \in {"audit", "confirm", "release", "record"} => rid[c] # NoReq
  /\ pc[c] \in {"confirm", "release"} => Path(c) = "DEFERRED"
  /\ pc[c] # "flip" => cand[c] = {}
  /\ \A r \in cand[c] :
       /\ status[r] \in {"APPROVED", "EXECUTED", "EXPIRED"}
       /\ key[r] = intent[c] /\ start[c] < decidedAt[r] + ValidFor
  /\ rid[c] # NoReq /\ pc[c] # "record" => Holding(c)

IInv ==
  /\ TypeOK
  /\ \A r \in Requests : RowInv(r)
  /\ \A c \in Calls : CallInv(c)
  /\ ExclusiveRun

\* The alerts job keeps running, time passes, and a call proceeds or dies.
Fairness ==
  /\ WF_vars(Tick)
  /\ WF_vars(ReleaseStuckReservations)
  /\ \A c \in Calls : WF_vars(CallStep(c))

FairSpec == Spec /\ Fairness

\* The approval as the abstract permit: what the gate keeps of its promise.
PermitOf(r) ==
  CASE status[r] = "NONE" -> "absent"
    [] status[r] = "PENDING" -> "asked"
    [] status[r] = "APPROVED" -> "open"
    [] status[r] = "EXECUTED" /\ event[r] = "NONE" -> "held"
    [] status[r] = "EXECUTED" /\ event[r] # "NONE" -> "spent"
    [] OTHER -> "closed"

permitBar == [r \in Requests |-> PermitOf(r)]

Permit == INSTANCE OneTimePermit WITH permit <- permitBar, trace <- trace

(* Every step of the gate, of a call, of the sweep and of a crash is a step  *)
(* of the one-time permit.                                                   *)
ImplementsPermit == Permit!Spec

==============================================================================
