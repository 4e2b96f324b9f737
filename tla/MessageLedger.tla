--------------------------- MODULE MessageLedger ---------------------------
(***************************************************************************)
(* The outbox messaging_deliveries: one row per deduplication key, written *)
(* before the chat provider is called, and the job that retries what never *)
(* left the machine.                                                       *)
(*   src/lib/messaging/service.ts    deliverMessage, retryFailedDeliveries *)
(*   src/lib/messaging/providers.ts  what send() answers                   *)
(*                                                                         *)
(* A call is one deliverMessage: of the business (a rule's action, which a *)
(* recovered run repeats under the same key; a person who presses again)   *)
(* or of the retry job.  Every step is one SQL statement or the request to *)
(* the provider; the process may die between any two.  Time is relative.   *)
(***************************************************************************)
EXTENDS Integers, FiniteSets

CONSTANTS
  Keys, Calls,
  Tests,          \* keys of test messages, which are never retried
  Retries,        \* length of RETRY_SCHEDULE_MIN
  DelayOf,        \* RETRY_SCHEDULE_MIN, in ticks
  Window,         \* RETRY_WINDOW_MS, in ticks
  MaxAge,         \* ages are counted up to here
  MaxAttempts,    \* bound on the attempts of one message
  NoKey

ASSUME LedgerAssumption ==
  /\ Tests \subseteq Keys /\ NoKey \notin Keys
  /\ Retries \in Nat /\ DelayOf \in [1..Retries -> Nat \ {0}]
  /\ Window \in Nat /\ MaxAge \in Nat /\ Window < MaxAge
  /\ MaxAttempts \in Nat \ {0}

NoRetry == -1

Status == {"NONE", "PENDING", "SENT", "FAILED", "UNKNOWN"}
Step   == {"idle", "take", "deliver", "read", "reclaim", "doubt", "send",
           "sent", "refused", "unreachable"}

VARIABLES
  \* table messaging_deliveries
  status, attempts,
  age,        \* ticks since created_at
  retryIn,    \* ticks until next_retry_at, 0 when it is due
  \* the calls
  pc, key,
  seen,       \* the retry job: the attempts of the row whose retry it read
  retrying,   \* the call is the retry job's
  \* history
  copies,     \* how often the message reached the chat
  doubts      \* answers { ok: false } to a request that may have reached it

rowVars  == <<status, attempts, age, retryIn>>
callVars == <<pc, key, seen, retrying>>
vars     == <<rowVars, callVars, copies, doubts>>

------------------------------------------------------------------------------
Init ==
  /\ status = [k \in Keys |-> "NONE"]
  /\ attempts = [k \in Keys |-> 0]
  /\ age = [k \in Keys |-> 0]
  /\ retryIn = [k \in Keys |-> NoRetry]
  /\ pc = [c \in Calls |-> "idle"]
  /\ key = [c \in Calls |-> NoKey]
  /\ seen = [c \in Calls |-> 0]
  /\ retrying = [c \in Calls |-> FALSE]
  /\ copies = [k \in Keys |-> 0]
  /\ doubts = [k \in Keys |-> 0]

Goto(c, s) == pc' = [pc EXCEPT ![c] = s] /\ UNCHANGED <<key, seen, retrying>>

Enter(c, k, s, n, job) ==
  /\ pc' = [pc EXCEPT ![c] = s]
  /\ key' = [key EXCEPT ![c] = k]
  /\ seen' = [seen EXCEPT ![c] = n]
  /\ retrying' = [retrying EXCEPT ![c] = job]

Finish(c) == Enter(c, NoKey, "idle", 0, FALSE)

------------------------------------------------------------------------------
(* retryFailedDeliveries                                                   *)

\* The SELECT of due rows.
SelectDue(c, k) ==
  /\ pc[c] = "idle"
  /\ status[k] = "FAILED" /\ k \notin Tests /\ retryIn[k] = 0
  /\ Enter(c, k, "take", attempts[k], TRUE)
  /\ UNCHANGED <<rowVars, copies, doubts>>

\* UPDATE ... SET next_retry_at = NULL WHERE next_retry_at = <the one it read>: a
\* message is only scheduled by an attempt, so the attempts tell the schedules apart.
TakeRetry(c) ==
  LET k == key[c] IN
  /\ pc[c] = "take"
  /\ IF status[k] = "FAILED" /\ retryIn[k] # NoRetry /\ attempts[k] = seen[c]
     THEN retryIn' = [retryIn EXCEPT ![k] = NoRetry] /\ Goto(c, "deliver")
     ELSE UNCHANGED retryIn /\ Finish(c)
  /\ UNCHANGED <<status, attempts, age, copies, doubts>>

------------------------------------------------------------------------------
(* deliverMessage                                                          *)

Deliver(c, k) ==
  /\ pc[c] = "idle"
  /\ Enter(c, k, "deliver", 0, FALSE)
  /\ UNCHANGED <<rowVars, copies, doubts>>

\* INSERT ... ON CONFLICT DO NOTHING, before anything is sent.
InsertRow(c) ==
  LET k == key[c] IN
  /\ pc[c] = "deliver"
  /\ IF status[k] = "NONE"
     THEN /\ status' = [status EXCEPT ![k] = "PENDING"]
          /\ attempts' = [attempts EXCEPT ![k] = 1]
          /\ Goto(c, "send")
     ELSE UNCHANGED <<status, attempts>> /\ Goto(c, "read")
  /\ UNCHANGED <<age, retryIn, copies, doubts>>

\* The row is there already: what it says decides.
ReadRow(c) ==
  LET k == key[c] IN
  /\ pc[c] = "read"
  /\ CASE status[k] = "SENT" -> Finish(c)
       [] status[k] = "FAILED" -> Goto(c, "reclaim")
       [] OTHER -> Goto(c, "doubt")
  /\ UNCHANGED <<rowVars, copies, doubts>>

\* Mutant: the row is marked whatever became of it since it was read.
MarkUnknownUnchecked(c) ==
  /\ pc[c] = "doubt"
  /\ status' = [status EXCEPT ![key[c]] = "UNKNOWN"]
  /\ Finish(c)
  /\ UNCHANGED <<attempts, age, retryIn, copies, doubts>>

\* Somebody is sending it, or died doing so: not sent again.
MarkUnknown(c) ==
  /\ pc[c] = "doubt"
  /\ status' = [status EXCEPT ![key[c]] = IF @ = "PENDING" THEN "UNKNOWN" ELSE @]
  /\ Finish(c)
  /\ UNCHANGED <<attempts, age, retryIn, copies, doubts>>

\* Mutant: the row is taken as it was read.
ReclaimUnchecked(c) ==
  LET k == key[c] IN
  /\ pc[c] = "reclaim"
  /\ status' = [status EXCEPT ![k] = "PENDING"]
  /\ attempts' = [attempts EXCEPT ![k] = @ + 1]
  /\ retryIn' = [retryIn EXCEPT ![k] = NoRetry]
  /\ Goto(c, "send")
  /\ UNCHANGED <<age, copies, doubts>>

\* UPDATE ... SET status = 'PENDING' WHERE status = 'FAILED': one caller wins.
Reclaim(c) ==
  LET k == key[c] IN
  /\ pc[c] = "reclaim"
  /\ status[k] = "FAILED" => attempts[k] < MaxAttempts
  /\ IF status[k] = "FAILED"
     THEN /\ status' = [status EXCEPT ![k] = "PENDING"]
          /\ attempts' = [attempts EXCEPT ![k] = @ + 1]
          /\ retryIn' = [retryIn EXCEPT ![k] = NoRetry]
          /\ Goto(c, "send")
     ELSE UNCHANGED <<status, attempts, retryIn>> /\ Finish(c)
  /\ UNCHANGED <<age, copies, doubts>>

\* provider.send.  The request arrives and is confirmed; it is refused, or the
\* connector is off; it never leaves the machine; or it is cut short after it left
\* (a timeout, a later part of a long text refused), and may have arrived.
SendAccepted(c) ==
  /\ pc[c] = "send"
  /\ copies' = [copies EXCEPT ![key[c]] = @ + 1]
  /\ Goto(c, "sent")
  /\ UNCHANGED <<rowVars, doubts>>

SendRefused(c) ==
  /\ pc[c] = "send"
  /\ Goto(c, "refused")
  /\ UNCHANGED <<rowVars, copies, doubts>>

SendUnreachable(c) ==
  /\ pc[c] = "send"
  /\ Goto(c, "unreachable")
  /\ UNCHANGED <<rowVars, copies, doubts>>

\* Mutant: every network failure counts as one before the request left.
SendCutShortRetried(c, n) ==
  /\ pc[c] = "send"
  /\ copies' = [copies EXCEPT ![key[c]] = @ + n]
  /\ Goto(c, "unreachable")
  /\ UNCHANGED <<rowVars, doubts>>

SendCutShort(c, n) ==
  /\ pc[c] = "send"
  /\ copies' = [copies EXCEPT ![key[c]] = @ + n]
  /\ doubts' = [doubts EXCEPT ![key[c]] = @ + 1]
  /\ Goto(c, "refused")
  /\ UNCHANGED rowVars

\* The outcome is written whatever the row says by now.
RecordSent(c) ==
  /\ pc[c] = "sent"
  /\ status' = [status EXCEPT ![key[c]] = "SENT"]
  /\ Finish(c)
  /\ UNCHANGED <<attempts, age, retryIn, copies, doubts>>

RecordFailed(c) ==
  /\ pc[c] = "refused"
  /\ status' = [status EXCEPT ![key[c]] = "FAILED"]
  /\ retryIn' = [retryIn EXCEPT ![key[c]] = NoRetry]
  /\ Finish(c)
  /\ UNCHANGED <<attempts, age, copies, doubts>>

\* nextRetryAt: the delay after this attempt, unless the schedule or the window is over.
NextRetry(k) ==
  IF attempts[k] \in 1..Retries /\ k \notin Tests
  THEN IF age[k] + DelayOf[attempts[k]] <= Window THEN DelayOf[attempts[k]] ELSE NoRetry
  ELSE NoRetry

RecordUnreachable(c) ==
  /\ pc[c] = "unreachable"
  /\ status' = [status EXCEPT ![key[c]] = "FAILED"]
  /\ retryIn' = [retryIn EXCEPT ![key[c]] = NextRetry(key[c])]
  /\ Finish(c)
  /\ UNCHANGED <<attempts, age, copies, doubts>>

Crash(c) ==
  /\ pc[c] # "idle"
  /\ Finish(c)
  /\ UNCHANGED <<rowVars, copies, doubts>>

Tick ==
  /\ \E k \in Keys : status[k] # "NONE" /\ age[k] < MaxAge
  /\ age' = [k \in Keys |-> IF status[k] # "NONE" /\ age[k] < MaxAge
                            THEN age[k] + 1 ELSE age[k]]
  /\ retryIn' = [k \in Keys |-> IF retryIn[k] > 0 THEN retryIn[k] - 1 ELSE retryIn[k]]
  /\ UNCHANGED <<status, attempts, callVars, copies, doubts>>

CallStep(c) ==
  \/ TakeRetry(c) \/ InsertRow(c) \/ ReadRow(c) \/ MarkUnknown(c) \/ Reclaim(c)
  \/ SendAccepted(c) \/ SendRefused(c) \/ SendUnreachable(c)
  \/ \E n \in {0, 1} : SendCutShort(c, n)
  \/ RecordSent(c) \/ RecordFailed(c) \/ RecordUnreachable(c)

Next ==
  \/ \E c \in Calls : \/ CallStep(c) \/ Crash(c)
                      \/ \E k \in Keys : SelectDue(c, k) \/ Deliver(c, k)
  \/ Tick

Spec == Init /\ [][Next]_vars

------------------------------------------------------------------------------
(* Properties                                                              *)

TypeOK ==
  /\ status \in [Keys -> Status]
  /\ attempts \in [Keys -> 0..MaxAttempts]
  /\ age \in [Keys -> 0..MaxAge]
  /\ retryIn \in [Keys -> Nat \cup {NoRetry}]
  /\ pc \in [Calls -> Step]
  /\ key \in [Calls -> Keys \cup {NoKey}]
  /\ seen \in [Calls -> Nat]
  /\ retrying \in [Calls -> BOOLEAN]
  /\ copies \in [Keys -> Nat]
  /\ doubts \in [Keys -> Nat]

\* The call has claimed the row and not recorded an outcome.
Sends(c, k) == pc[c] \in {"send", "sent", "refused", "unreachable"} /\ key[c] = k

(* A message is never in the hands of two senders: not of two calls with the *)
(* same key, not of the retry job and a call, not of two overlapping jobs    *)
(* (service.ts:7-13, 134).                                                   *)
OneSender ==
  /\ TypeOK
  /\ \A c, d \in Calls, k \in Keys : Sends(c, k) /\ Sends(d, k) => c = d

(* A message reaches the chat twice only after an answer that left it in     *)
(* doubt: a retry after a crash, a lost race or a clear refusal adds none    *)
(* (service.ts:9-13).                                                        *)
CopiesAreDoubted ==
  \A k \in Keys : copies[k] <= 1 + doubts[k]

(* The ledger says SENT only of a message that is in the chat, and once it   *)
(* says so the message stays SENT and no copy is added: a call that read the *)
(* row before comes too late (service.ts:9).                                 *)
SentIsFinal ==
  [][\A k \in Keys :
       status[k] = "SENT" =>
         status'[k] = "SENT" /\ copies[k] >= 1 /\ copies'[k] = copies[k]]_vars

==============================================================================
