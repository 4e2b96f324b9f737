-------------------------- MODULE MessageLedgerProofs --------------------------
(***************************************************************************)
(* What MessageLedger guarantees for any number of messages and calls, any *)
(* retry schedule and any window.                                          *)
(*                                                                         *)
(* The argument: a call that has claimed a row and not recorded an outcome *)
(* is the only one, and its row says PENDING or UNKNOWN, so that neither   *)
(* the INSERT nor the reclaim of another call takes it.  The row of a      *)
(* message that is about to be sent, or that failed, has no more copies in *)
(* the chat than answers that left it in doubt; the next confirmed request *)
(* adds the one copy the ledger vouches for.                               *)
(***************************************************************************)
EXTENDS MessageLedger, TLAPS

\* What a call knows of the message it works on.
CallInv(c) ==
  LET k == key[c] IN
  /\ pc[c] # "idle" => k \in Keys
  /\ pc[c] \in {"send", "sent", "refused", "unreachable"} => status[k] \in {"PENDING", "UNKNOWN"}
  /\ pc[c] \in {"send", "refused", "unreachable"} => copies[k] <= doubts[k]
  /\ pc[c] = "sent" => copies[k] >= 1

\* What a row says of the copies in the chat.
RowInv(k) ==
  /\ copies[k] <= 1 + doubts[k]
  /\ status[k] \in {"NONE", "FAILED"} => copies[k] <= doubts[k]
  /\ status[k] = "SENT" => copies[k] >= 1

\* The inductive invariant.
IInv ==
  /\ OneSender
  /\ \A c \in Calls : CallInv(c)
  /\ \A k \in Keys : RowInv(k)

\* Call c goes to step s with message k, and no other call moves.
Moved(c, s, k) ==
  /\ pc' \in [Calls -> Step] /\ key' \in [Calls -> Keys \cup {NoKey}]
  /\ seen' \in [Calls -> Nat] /\ retrying' \in [Calls -> BOOLEAN]
  /\ pc' = [pc EXCEPT ![c] = s] /\ key' = [key EXCEPT ![c] = k]

USE DEF Status, Step, NoRetry

\* What the three ways of a call to go on leave it with.
LEMMA EnterMoves ==
  ASSUME TypeOK, NEW c \in Calls, NEW k \in Keys \cup {NoKey}, NEW s \in Step,
         NEW n \in Nat, NEW job \in BOOLEAN, Enter(c, k, s, n, job)
  PROVE  Moved(c, s, k)
  BY DEF TypeOK, Enter, Moved

\* A call goes on with the message it has.
LEMMA GotoMoves ==
  ASSUME TypeOK, NEW c \in Calls, NEW s \in Step, Goto(c, s)
  PROVE  Moved(c, s, key[c])
  BY DEF TypeOK, Goto, Moved

\* A call that is over has none.
LEMMA FinishMoves ==
  ASSUME TypeOK, NEW c \in Calls, Finish(c)
  PROVE  Moved(c, "idle", NoKey)
  BY EnterMoves DEF Finish

\* The empty table and idle calls satisfy the inductive invariant.
LEMMA InitInductive == Init => IInv
  BY LedgerAssumption DEF Init, IInv, OneSender, TypeOK, CallInv, RowInv, Sends

\* The delay until the next try is a number of ticks, or none.
LEMMA NextRetryType ==
  ASSUME TypeOK, NEW k \in Keys
  PROVE  NextRetry(k) \in Nat \cup {NoRetry}
  BY LedgerAssumption DEF TypeOK, NextRetry

\* No statement of a call, no answer of the provider, no crash and no tick breaks it.
LEMMA StepInductive == IInv /\ [Next]_vars => IInv'
<1> SUFFICES ASSUME IInv, [Next]_vars
             PROVE  IInv'
  OBVIOUS
<1>a. TypeOK
  BY DEF IInv, OneSender
<1>b. \A d, e \in Calls, q \in Keys : Sends(d, q) /\ Sends(e, q) => d = e
  BY DEF IInv, OneSender
<1>c. \A d \in Calls : CallInv(d)
  BY DEF IInv
<1>d. \A q \in Keys : RowInv(q)
  BY DEF IInv
<1>1. ASSUME NEW c \in Calls, NEW k \in Keys, SelectDue(c, k)
      PROVE  IInv'
  <2>k. attempts[k] \in Nat
    BY <1>a DEF TypeOK
  <2>0. /\ pc[c] = "idle"
        /\ UNCHANGED <<status, attempts, age, retryIn, copies, doubts>>
    BY <1>1 DEF SelectDue, rowVars
  <2>1. Moved(c, "take", k)
    BY <1>a, <1>1, <2>k, EnterMoves DEF SelectDue
  <2>2. TypeOK'
    BY <1>a, <2>0, <2>1, LedgerAssumption DEF TypeOK, Moved
  <2>3. \A d, e \in Calls, q \in Keys : Sends(d, q)' /\ Sends(e, q)' => d = e
    BY <1>a, <1>b, <2>0, <2>1 DEF TypeOK, CallInv, Sends, Moved
  <2>4. \A d \in Calls : CallInv(d)'
    BY <1>a, <1>b, <1>c, <1>d, <2>0, <2>1, LedgerAssumption DEF TypeOK, CallInv, RowInv, Sends, Moved
  <2>5. \A q \in Keys : RowInv(q)'
    BY <1>a, <1>c, <1>d, <2>0 DEF TypeOK, CallInv, RowInv
  <2> QED
    BY <2>2, <2>3, <2>4, <2>5 DEF IInv, OneSender
<1>2. ASSUME NEW c \in Calls, TakeRetry(c)
      PROVE  IInv'
  <2>k. key[c] \in Keys
    BY <1>c, <1>2 DEF CallInv, TakeRetry
  <2>1. CASE /\ status[key[c]] = "FAILED" /\ retryIn[key[c]] # NoRetry
              /\ attempts[key[c]] = seen[c]
    <3>0. /\ pc[c] = "take"
          /\ retryIn' = [retryIn EXCEPT ![key[c]] = NoRetry]
          /\ UNCHANGED <<status, attempts, age, copies, doubts>>
      BY <1>2, <2>1 DEF TakeRetry
    <3>1. Moved(c, "deliver", key[c])
      BY <1>a, <1>2, <2>1, GotoMoves DEF TakeRetry
    <3>2. TypeOK'
      BY <1>a, <3>0, <3>1, <2>k, LedgerAssumption DEF TypeOK, Moved
    <3>3. \A d, e \in Calls, q \in Keys : Sends(d, q)' /\ Sends(e, q)' => d = e
      BY <1>a, <1>b, <1>c, <2>1, <3>0, <3>1, <2>k DEF TypeOK, CallInv, Sends, Moved
    <3>4. \A d \in Calls : CallInv(d)'
      BY <1>a, <1>b, <1>c, <1>d, <2>1, <3>0, <3>1, <2>k, LedgerAssumption DEF TypeOK, CallInv, RowInv, Sends, Moved
    <3>5. \A q \in Keys : RowInv(q)'
      BY <1>a, <1>c, <1>d, <2>1, <3>0, <2>k DEF TypeOK, CallInv, RowInv
    <3> QED
      BY <3>2, <3>3, <3>4, <3>5 DEF IInv, OneSender
  <2>2. CASE ~(/\ status[key[c]] = "FAILED" /\ retryIn[key[c]] # NoRetry
                /\ attempts[key[c]] = seen[c])
    <3>0. /\ pc[c] = "take"
          /\ UNCHANGED <<status, attempts, age, retryIn, copies, doubts>>
      BY <1>2, <2>2 DEF TakeRetry
    <3>1. Moved(c, "idle", NoKey)
      BY <1>a, <1>2, <2>2, FinishMoves DEF TakeRetry
    <3>2. TypeOK'
      BY <1>a, <3>0, <3>1, <2>k, LedgerAssumption DEF TypeOK, Moved
    <3>3. \A d, e \in Calls, q \in Keys : Sends(d, q)' /\ Sends(e, q)' => d = e
      BY <1>a, <1>b, <1>c, <2>2, <3>0, <3>1, <2>k DEF TypeOK, CallInv, Sends, Moved
    <3>4. \A d \in Calls : CallInv(d)'
      BY <1>a, <1>b, <1>c, <1>d, <2>2, <3>0, <3>1, <2>k, LedgerAssumption DEF TypeOK, CallInv, RowInv, Sends, Moved
    <3>5. \A q \in Keys : RowInv(q)'
      BY <1>a, <1>c, <1>d, <2>2, <3>0, <2>k DEF TypeOK, CallInv, RowInv
    <3> QED
      BY <3>2, <3>3, <3>4, <3>5 DEF IInv, OneSender
  <2> QED
    BY <2>1, <2>2
<1>3. ASSUME NEW c \in Calls, NEW k \in Keys, Deliver(c, k)
      PROVE  IInv'
  <2>0. /\ pc[c] = "idle"
        /\ UNCHANGED <<status, attempts, age, retryIn, copies, doubts>>
    BY <1>3 DEF Deliver, rowVars
  <2>1. Moved(c, "deliver", k)
    BY <1>a, <1>3, EnterMoves DEF Deliver
  <2>2. TypeOK'
    BY <1>a, <2>0, <2>1, LedgerAssumption DEF TypeOK, Moved
  <2>3. \A d, e \in Calls, q \in Keys : Sends(d, q)' /\ Sends(e, q)' => d = e
    BY <1>a, <1>b, <2>0, <2>1 DEF TypeOK, CallInv, Sends, Moved
  <2>4. \A d \in Calls : CallInv(d)'
    BY <1>a, <1>b, <1>c, <1>d, <2>0, <2>1, LedgerAssumption DEF TypeOK, CallInv, RowInv, Sends, Moved
  <2>5. \A q \in Keys : RowInv(q)'
    BY <1>a, <1>c, <1>d, <2>0 DEF TypeOK, CallInv, RowInv
  <2> QED
    BY <2>2, <2>3, <2>4, <2>5 DEF IInv, OneSender
<1>4. ASSUME NEW c \in Calls, InsertRow(c)
      PROVE  IInv'
  <2>k. key[c] \in Keys
    BY <1>c, <1>4 DEF CallInv, InsertRow
  <2>1. CASE status[key[c]] = "NONE"
    <3>0. /\ pc[c] = "deliver"
          /\ status' = [status EXCEPT ![key[c]] = "PENDING"]
          /\ attempts' = [attempts EXCEPT ![key[c]] = 1]
          /\ UNCHANGED <<age, retryIn, copies, doubts>>
      BY <1>4, <2>1 DEF InsertRow
    <3>1. Moved(c, "send", key[c])
      BY <1>a, <1>4, <2>1, GotoMoves DEF InsertRow
    <3>2. TypeOK'
      BY <1>a, <3>0, <3>1, <2>k, LedgerAssumption DEF TypeOK, Moved
    <3>3. \A d, e \in Calls, q \in Keys : Sends(d, q)' /\ Sends(e, q)' => d = e
      BY <1>a, <1>b, <1>c, <2>1, <3>0, <3>1, <2>k DEF TypeOK, CallInv, Sends, Moved
    <3>4. \A d \in Calls : CallInv(d)'
      BY <1>a, <1>b, <1>c, <1>d, <2>1, <3>0, <3>1, <2>k, LedgerAssumption DEF TypeOK, CallInv, RowInv, Sends, Moved
    <3>5. \A q \in Keys : RowInv(q)'
      BY <1>a, <1>c, <1>d, <2>1, <3>0, <2>k DEF TypeOK, CallInv, RowInv
    <3> QED
      BY <3>2, <3>3, <3>4, <3>5 DEF IInv, OneSender
  <2>2. CASE status[key[c]] # "NONE"
    <3>0. /\ pc[c] = "deliver"
          /\ UNCHANGED <<status, attempts, age, retryIn, copies, doubts>>
      BY <1>4, <2>2 DEF InsertRow
    <3>1. Moved(c, "read", key[c])
      BY <1>a, <1>4, <2>2, GotoMoves DEF InsertRow
    <3>2. TypeOK'
      BY <1>a, <3>0, <3>1, <2>k, LedgerAssumption DEF TypeOK, Moved
    <3>3. \A d, e \in Calls, q \in Keys : Sends(d, q)' /\ Sends(e, q)' => d = e
      BY <1>a, <1>b, <1>c, <2>2, <3>0, <3>1, <2>k DEF TypeOK, CallInv, Sends, Moved
    <3>4. \A d \in Calls : CallInv(d)'
      BY <1>a, <1>b, <1>c, <1>d, <2>2, <3>0, <3>1, <2>k, LedgerAssumption DEF TypeOK, CallInv, RowInv, Sends, Moved
    <3>5. \A q \in Keys : RowInv(q)'
      BY <1>a, <1>c, <1>d, <2>2, <3>0, <2>k DEF TypeOK, CallInv, RowInv
    <3> QED
      BY <3>2, <3>3, <3>4, <3>5 DEF IInv, OneSender
  <2> QED
    BY <2>1, <2>2
<1>5. ASSUME NEW c \in Calls, ReadRow(c)
      PROVE  IInv'
  <2>k. key[c] \in Keys
    BY <1>c, <1>5 DEF CallInv, ReadRow
  <2>1. CASE status[key[c]] = "SENT"
    <3>0. /\ pc[c] = "read"
          /\ UNCHANGED <<status, attempts, age, retryIn, copies, doubts>>
      BY <1>5, <2>1 DEF ReadRow, rowVars
    <3>1. Moved(c, "idle", NoKey)
      BY <1>a, <1>5, <2>1, FinishMoves DEF ReadRow
    <3>2. TypeOK'
      BY <1>a, <3>0, <3>1, <2>k, LedgerAssumption DEF TypeOK, Moved
    <3>3. \A d, e \in Calls, q \in Keys : Sends(d, q)' /\ Sends(e, q)' => d = e
      BY <1>a, <1>b, <1>c, <2>1, <3>0, <3>1, <2>k DEF TypeOK, CallInv, Sends, Moved
    <3>4. \A d \in Calls : CallInv(d)'
      BY <1>a, <1>b, <1>c, <1>d, <2>1, <3>0, <3>1, <2>k, LedgerAssumption DEF TypeOK, CallInv, RowInv, Sends, Moved
    <3>5. \A q \in Keys : RowInv(q)'
      BY <1>a, <1>c, <1>d, <2>1, <3>0, <2>k DEF TypeOK, CallInv, RowInv
    <3> QED
      BY <3>2, <3>3, <3>4, <3>5 DEF IInv, OneSender
  <2>2. CASE status[key[c]] = "FAILED"
    <3>0. /\ pc[c] = "read"
          /\ UNCHANGED <<status, attempts, age, retryIn, copies, doubts>>
      BY <1>5, <2>2 DEF ReadRow, rowVars
    <3>1. Moved(c, "reclaim", key[c])
      BY <1>a, <1>5, <2>2, GotoMoves DEF ReadRow
    <3>2. TypeOK'
      BY <1>a, <3>0, <3>1, <2>k, LedgerAssumption DEF TypeOK, Moved
    <3>3. \A d, e \in Calls, q \in Keys : Sends(d, q)' /\ Sends(e, q)' => d = e
      BY <1>a, <1>b, <1>c, <2>2, <3>0, <3>1, <2>k DEF TypeOK, CallInv, Sends, Moved
    <3>4. \A d \in Calls : CallInv(d)'
      BY <1>a, <1>b, <1>c, <1>d, <2>2, <3>0, <3>1, <2>k, LedgerAssumption DEF TypeOK, CallInv, RowInv, Sends, Moved
    <3>5. \A q \in Keys : RowInv(q)'
      BY <1>a, <1>c, <1>d, <2>2, <3>0, <2>k DEF TypeOK, CallInv, RowInv
    <3> QED
      BY <3>2, <3>3, <3>4, <3>5 DEF IInv, OneSender
  <2>3. CASE status[key[c]] \notin {"SENT", "FAILED"}
    <3>0. /\ pc[c] = "read"
          /\ UNCHANGED <<status, attempts, age, retryIn, copies, doubts>>
      BY <1>5, <2>3 DEF ReadRow, rowVars
    <3>1. Moved(c, "doubt", key[c])
      BY <1>a, <1>5, <2>3, GotoMoves DEF ReadRow
    <3>2. TypeOK'
      BY <1>a, <3>0, <3>1, <2>k, LedgerAssumption DEF TypeOK, Moved
    <3>3. \A d, e \in Calls, q \in Keys : Sends(d, q)' /\ Sends(e, q)' => d = e
      BY <1>a, <1>b, <1>c, <2>3, <3>0, <3>1, <2>k DEF TypeOK, CallInv, Sends, Moved
    <3>4. \A d \in Calls : CallInv(d)'
      BY <1>a, <1>b, <1>c, <1>d, <2>3, <3>0, <3>1, <2>k, LedgerAssumption DEF TypeOK, CallInv, RowInv, Sends, Moved
    <3>5. \A q \in Keys : RowInv(q)'
      BY <1>a, <1>c, <1>d, <2>3, <3>0, <2>k DEF TypeOK, CallInv, RowInv
    <3> QED
      BY <3>2, <3>3, <3>4, <3>5 DEF IInv, OneSender
  <2> QED
    BY <2>1, <2>2, <2>3
<1>6. ASSUME NEW c \in Calls, MarkUnknown(c)
      PROVE  IInv'
  <2>k. key[c] \in Keys
    BY <1>c, <1>6 DEF CallInv, MarkUnknown
  <2>0. /\ pc[c] = "doubt"
        /\ status' = [status EXCEPT ![key[c]] = IF @ = "PENDING" THEN "UNKNOWN" ELSE @]
        /\ UNCHANGED <<attempts, age, retryIn, copies, doubts>>
    BY <1>6 DEF MarkUnknown
  <2>1. Moved(c, "idle", NoKey)
    BY <1>a, <1>6, FinishMoves DEF MarkUnknown
  <2>2. TypeOK'
    BY <1>a, <2>0, <2>1, <2>k, LedgerAssumption DEF TypeOK, Moved
  <2>3. \A d, e \in Calls, q \in Keys : Sends(d, q)' /\ Sends(e, q)' => d = e
    BY <1>a, <1>b, <2>0, <2>1, <2>k DEF TypeOK, CallInv, Sends, Moved
  <2>4. \A d \in Calls : CallInv(d)'
    BY <1>a, <1>b, <1>c, <1>d, <2>0, <2>1, <2>k, LedgerAssumption DEF TypeOK, CallInv, RowInv, Sends, Moved
  <2>5. \A q \in Keys : RowInv(q)'
    BY <1>a, <1>c, <1>d, <2>0, <2>k DEF TypeOK, CallInv, RowInv
  <2> QED
    BY <2>2, <2>3, <2>4, <2>5 DEF IInv, OneSender
<1>7. ASSUME NEW c \in Calls, Reclaim(c)
      PROVE  IInv'
  <2>k. key[c] \in Keys
    BY <1>c, <1>7 DEF CallInv, Reclaim
  <2>1. CASE status[key[c]] = "FAILED"
    <3>0. /\ pc[c] = "reclaim" /\ attempts[key[c]] < MaxAttempts
          /\ status' = [status EXCEPT ![key[c]] = "PENDING"]
          /\ attempts' = [attempts EXCEPT ![key[c]] = @ + 1]
          /\ retryIn' = [retryIn EXCEPT ![key[c]] = NoRetry]
          /\ UNCHANGED <<age, copies, doubts>>
      BY <1>7, <2>1 DEF Reclaim
    <3>1. Moved(c, "send", key[c])
      BY <1>a, <1>7, <2>1, GotoMoves DEF Reclaim
    <3>2. TypeOK'
      BY <1>a, <3>0, <3>1, <2>k, LedgerAssumption, SMTT(30) DEF TypeOK, Moved
    <3>3. \A d, e \in Calls, q \in Keys : Sends(d, q)' /\ Sends(e, q)' => d = e
      BY <1>a, <1>b, <1>c, <2>1, <3>0, <3>1, <2>k DEF TypeOK, CallInv, Sends, Moved
    <3>4. \A d \in Calls : CallInv(d)'
      BY <1>a, <1>b, <1>c, <1>d, <2>1, <3>0, <3>1, <2>k, LedgerAssumption DEF TypeOK, CallInv, RowInv, Sends, Moved
    <3>5. \A q \in Keys : RowInv(q)'
      BY <1>a, <1>c, <1>d, <2>1, <3>0, <2>k DEF TypeOK, CallInv, RowInv
    <3> QED
      BY <3>2, <3>3, <3>4, <3>5 DEF IInv, OneSender
  <2>2. CASE status[key[c]] # "FAILED"
    <3>0. /\ pc[c] = "reclaim"
          /\ UNCHANGED <<status, attempts, age, retryIn, copies, doubts>>
      BY <1>7, <2>2 DEF Reclaim
    <3>1. Moved(c, "idle", NoKey)
      BY <1>a, <1>7, <2>2, FinishMoves DEF Reclaim
    <3>2. TypeOK'
      BY <1>a, <3>0, <3>1, <2>k, LedgerAssumption DEF TypeOK, Moved
    <3>3. \A d, e \in Calls, q \in Keys : Sends(d, q)' /\ Sends(e, q)' => d = e
      BY <1>a, <1>b, <1>c, <2>2, <3>0, <3>1, <2>k DEF TypeOK, CallInv, Sends, Moved
    <3>4. \A d \in Calls : CallInv(d)'
      BY <1>a, <1>b, <1>c, <1>d, <2>2, <3>0, <3>1, <2>k, LedgerAssumption DEF TypeOK, CallInv, RowInv, Sends, Moved
    <3>5. \A q \in Keys : RowInv(q)'
      BY <1>a, <1>c, <1>d, <2>2, <3>0, <2>k DEF TypeOK, CallInv, RowInv
    <3> QED
      BY <3>2, <3>3, <3>4, <3>5 DEF IInv, OneSender
  <2> QED
    BY <2>1, <2>2
<1>8. ASSUME NEW c \in Calls, SendAccepted(c)
      PROVE  IInv'
  <2>k. key[c] \in Keys
    BY <1>c, <1>8 DEF CallInv, SendAccepted
  <2>0. /\ pc[c] = "send"
        /\ copies' = [copies EXCEPT ![key[c]] = @ + 1]
        /\ UNCHANGED <<status, attempts, age, retryIn, doubts>>
    BY <1>8 DEF SendAccepted, rowVars
  <2>1. Moved(c, "sent", key[c])
    BY <1>a, <1>8, GotoMoves DEF SendAccepted
  <2>2. TypeOK'
    BY <1>a, <2>0, <2>1, <2>k, LedgerAssumption DEF TypeOK, Moved
  <2>3. \A d, e \in Calls, q \in Keys : Sends(d, q)' /\ Sends(e, q)' => d = e
    BY <1>a, <1>b, <2>0, <2>1, <2>k DEF TypeOK, CallInv, Sends, Moved
  <2>4. \A d \in Calls : CallInv(d)'
    BY <1>a, <1>b, <1>c, <1>d, <2>0, <2>1, <2>k, LedgerAssumption, SMTT(30) DEF TypeOK, CallInv, RowInv, Sends, Moved
  <2>5. \A q \in Keys : RowInv(q)'
    BY <1>a, <1>c, <1>d, <2>0, <2>k DEF TypeOK, CallInv, RowInv
  <2> QED
    BY <2>2, <2>3, <2>4, <2>5 DEF IInv, OneSender
<1>9. ASSUME NEW c \in Calls, SendRefused(c)
      PROVE  IInv'
  <2>k. key[c] \in Keys
    BY <1>c, <1>9 DEF CallInv, SendRefused
  <2>0. /\ pc[c] = "send"
        /\ UNCHANGED <<status, attempts, age, retryIn, copies, doubts>>
    BY <1>9 DEF SendRefused, rowVars
  <2>1. Moved(c, "refused", key[c])
    BY <1>a, <1>9, GotoMoves DEF SendRefused
  <2>2. TypeOK'
    BY <1>a, <2>0, <2>1, <2>k, LedgerAssumption DEF TypeOK, Moved
  <2>3. \A d, e \in Calls, q \in Keys : Sends(d, q)' /\ Sends(e, q)' => d = e
    BY <1>a, <1>b, <2>0, <2>1, <2>k DEF TypeOK, CallInv, Sends, Moved
  <2>4. \A d \in Calls : CallInv(d)'
    BY <1>a, <1>b, <1>c, <1>d, <2>0, <2>1, <2>k, LedgerAssumption DEF TypeOK, CallInv, RowInv, Sends, Moved
  <2>5. \A q \in Keys : RowInv(q)'
    BY <1>a, <1>c, <1>d, <2>0, <2>k DEF TypeOK, CallInv, RowInv
  <2> QED
    BY <2>2, <2>3, <2>4, <2>5 DEF IInv, OneSender
<1>10. ASSUME NEW c \in Calls, SendUnreachable(c)
      PROVE  IInv'
  <2>k. key[c] \in Keys
    BY <1>c, <1>10 DEF CallInv, SendUnreachable
  <2>0. /\ pc[c] = "send"
        /\ UNCHANGED <<status, attempts, age, retryIn, copies, doubts>>
    BY <1>10 DEF SendUnreachable, rowVars
  <2>1. Moved(c, "unreachable", key[c])
    BY <1>a, <1>10, GotoMoves DEF SendUnreachable
  <2>2. TypeOK'
    BY <1>a, <2>0, <2>1, <2>k, LedgerAssumption DEF TypeOK, Moved
  <2>3. \A d, e \in Calls, q \in Keys : Sends(d, q)' /\ Sends(e, q)' => d = e
    BY <1>a, <1>b, <2>0, <2>1, <2>k DEF TypeOK, CallInv, Sends, Moved
  <2>4. \A d \in Calls : CallInv(d)'
    BY <1>a, <1>b, <1>c, <1>d, <2>0, <2>1, <2>k, LedgerAssumption DEF TypeOK, CallInv, RowInv, Sends, Moved
  <2>5. \A q \in Keys : RowInv(q)'
    BY <1>a, <1>c, <1>d, <2>0, <2>k DEF TypeOK, CallInv, RowInv
  <2> QED
    BY <2>2, <2>3, <2>4, <2>5 DEF IInv, OneSender
<1>11. ASSUME NEW c \in Calls, NEW n \in {0, 1}, SendCutShort(c, n)
      PROVE  IInv'
  <2>k. key[c] \in Keys
    BY <1>c, <1>11 DEF CallInv, SendCutShort
  <2>m. n \in Nat /\ n <= 1
    OBVIOUS
  <2>0. /\ pc[c] = "send"
        /\ copies' = [copies EXCEPT ![key[c]] = @ + n]
        /\ doubts' = [doubts EXCEPT ![key[c]] = @ + 1]
        /\ UNCHANGED <<status, attempts, age, retryIn>>
    BY <1>11 DEF SendCutShort, rowVars
  <2>1. Moved(c, "refused", key[c])
    BY <1>a, <1>11, GotoMoves DEF SendCutShort
  <2>2. TypeOK'
    BY <1>a, <2>0, <2>1, <2>k, LedgerAssumption, SMTT(30) DEF TypeOK, Moved
  <2>3. \A d, e \in Calls, q \in Keys : Sends(d, q)' /\ Sends(e, q)' => d = e
    BY <1>a, <1>b, <2>0, <2>1, <2>k DEF TypeOK, CallInv, Sends, Moved
  <2>4. \A d \in Calls : CallInv(d)'
    <3>1. CallInv(c)'
      BY <1>a, <1>c, <2>0, <2>1, <2>k, <2>m DEF TypeOK, CallInv, Moved
    <3>2. ASSUME NEW d \in Calls, d # c
          PROVE  CallInv(d)'
      <4>1. CASE key[d] = key[c]
        BY <1>a, <1>b, <1>c, <2>0, <2>1, <2>k, <3>2, <4>1 DEF TypeOK, CallInv, Sends, Moved
      <4>2. CASE key[d] # key[c]
        BY <1>a, <1>c, <2>0, <2>1, <2>k, <3>2, <4>2 DEF TypeOK, CallInv, Moved
      <4> QED
        BY <4>1, <4>2
    <3> QED
      BY <3>1, <3>2
  <2>5. \A q \in Keys : RowInv(q)'
    BY <1>a, <1>c, <1>d, <2>0, <2>k DEF TypeOK, CallInv, RowInv
  <2> QED
    BY <2>2, <2>3, <2>4, <2>5 DEF IInv, OneSender
<1>12. ASSUME NEW c \in Calls, RecordSent(c)
      PROVE  IInv'
  <2>k. key[c] \in Keys
    BY <1>c, <1>12 DEF CallInv, RecordSent
  <2>0. /\ pc[c] = "sent"
        /\ status' = [status EXCEPT ![key[c]] = "SENT"]
        /\ UNCHANGED <<attempts, age, retryIn, copies, doubts>>
    BY <1>12 DEF RecordSent
  <2>1. Moved(c, "idle", NoKey)
    BY <1>a, <1>12, FinishMoves DEF RecordSent
  <2>2. TypeOK'
    BY <1>a, <2>0, <2>1, <2>k, LedgerAssumption DEF TypeOK, Moved
  <2>3. \A d, e \in Calls, q \in Keys : Sends(d, q)' /\ Sends(e, q)' => d = e
    BY <1>a, <1>b, <2>0, <2>1, <2>k DEF TypeOK, CallInv, Sends, Moved
  <2>4. \A d \in Calls : CallInv(d)'
    BY <1>a, <1>b, <1>c, <1>d, <2>0, <2>1, <2>k, LedgerAssumption DEF TypeOK, CallInv, RowInv, Sends, Moved
  <2>5. \A q \in Keys : RowInv(q)'
    BY <1>a, <1>c, <1>d, <2>0, <2>k DEF TypeOK, CallInv, RowInv
  <2> QED
    BY <2>2, <2>3, <2>4, <2>5 DEF IInv, OneSender
<1>13. ASSUME NEW c \in Calls, RecordFailed(c)
      PROVE  IInv'
  <2>k. key[c] \in Keys
    BY <1>c, <1>13 DEF CallInv, RecordFailed
  <2>0. /\ pc[c] = "refused"
        /\ status' = [status EXCEPT ![key[c]] = "FAILED"]
        /\ retryIn' = [retryIn EXCEPT ![key[c]] = NoRetry]
        /\ UNCHANGED <<attempts, age, copies, doubts>>
    BY <1>13 DEF RecordFailed
  <2>1. Moved(c, "idle", NoKey)
    BY <1>a, <1>13, FinishMoves DEF RecordFailed
  <2>2. TypeOK'
    BY <1>a, <2>0, <2>1, <2>k, LedgerAssumption DEF TypeOK, Moved
  <2>3. \A d, e \in Calls, q \in Keys : Sends(d, q)' /\ Sends(e, q)' => d = e
    BY <1>a, <1>b, <2>0, <2>1, <2>k DEF TypeOK, CallInv, Sends, Moved
  <2>4. \A d \in Calls : CallInv(d)'
    BY <1>a, <1>b, <1>c, <1>d, <2>0, <2>1, <2>k, LedgerAssumption DEF TypeOK, CallInv, RowInv, Sends, Moved
  <2>5. \A q \in Keys : RowInv(q)'
    BY <1>a, <1>c, <1>d, <2>0, <2>k DEF TypeOK, CallInv, RowInv
  <2> QED
    BY <2>2, <2>3, <2>4, <2>5 DEF IInv, OneSender
<1>14. ASSUME NEW c \in Calls, RecordUnreachable(c)
      PROVE  IInv'
  <2>k. key[c] \in Keys
    BY <1>c, <1>14 DEF CallInv, RecordUnreachable
  <2>0. /\ pc[c] = "unreachable"
        /\ status' = [status EXCEPT ![key[c]] = "FAILED"]
        /\ retryIn' = [retryIn EXCEPT ![key[c]] = NextRetry(key[c])]
        /\ UNCHANGED <<attempts, age, copies, doubts>>
    BY <1>14 DEF RecordUnreachable
  <2>1. Moved(c, "idle", NoKey)
    BY <1>a, <1>14, FinishMoves DEF RecordUnreachable
  <2>2. TypeOK'
    BY <1>a, <2>0, <2>1, <2>k, NextRetryType, LedgerAssumption DEF TypeOK, Moved
  <2>3. \A d, e \in Calls, q \in Keys : Sends(d, q)' /\ Sends(e, q)' => d = e
    BY <1>a, <1>b, <2>0, <2>1, <2>k DEF TypeOK, CallInv, Sends, Moved
  <2>4. \A d \in Calls : CallInv(d)'
    BY <1>a, <1>b, <1>c, <1>d, <2>0, <2>1, <2>k, LedgerAssumption DEF TypeOK, CallInv, RowInv, Sends, Moved
  <2>5. \A q \in Keys : RowInv(q)'
    BY <1>a, <1>c, <1>d, <2>0, <2>k DEF TypeOK, CallInv, RowInv
  <2> QED
    BY <2>2, <2>3, <2>4, <2>5 DEF IInv, OneSender
<1>15. ASSUME NEW c \in Calls, Crash(c)
      PROVE  IInv'
  <2>k. key[c] \in Keys
    BY <1>c, <1>15 DEF CallInv, Crash
  <2>0. /\ pc[c] # "idle"
        /\ UNCHANGED <<status, attempts, age, retryIn, copies, doubts>>
    BY <1>15 DEF Crash, rowVars
  <2>1. Moved(c, "idle", NoKey)
    BY <1>a, <1>15, FinishMoves DEF Crash
  <2>2. TypeOK'
    BY <1>a, <2>0, <2>1, <2>k, LedgerAssumption DEF TypeOK, Moved
  <2>3. \A d, e \in Calls, q \in Keys : Sends(d, q)' /\ Sends(e, q)' => d = e
    BY <1>a, <1>b, <2>0, <2>1, <2>k DEF TypeOK, CallInv, Sends, Moved
  <2>4. \A d \in Calls : CallInv(d)'
    BY <1>a, <1>b, <1>c, <1>d, <2>0, <2>1, <2>k, LedgerAssumption DEF TypeOK, CallInv, RowInv, Sends, Moved
  <2>5. \A q \in Keys : RowInv(q)'
    BY <1>a, <1>c, <1>d, <2>0, <2>k DEF TypeOK, CallInv, RowInv
  <2> QED
    BY <2>2, <2>3, <2>4, <2>5 DEF IInv, OneSender
<1>16. ASSUME Tick
       PROVE  IInv'
  <2>0. UNCHANGED <<status, attempts, pc, key, seen, retrying, copies, doubts>>
    BY <1>16 DEF Tick, callVars
  <2>1. age' \in [Keys -> 0..MaxAge]
    BY <1>a, <1>16, LedgerAssumption DEF Tick, TypeOK
  <2>2. retryIn' \in [Keys -> Nat \cup {NoRetry}]
    BY <1>a, <1>16 DEF Tick, TypeOK
  <2>3. TypeOK'
    BY <1>a, <2>0, <2>1, <2>2 DEF TypeOK
  <2>4. \A d, e \in Calls, q \in Keys : Sends(d, q)' /\ Sends(e, q)' => d = e
    BY <1>b, <2>0 DEF Sends
  <2>5. (\A d \in Calls : CallInv(d)') /\ (\A q \in Keys : RowInv(q)')
    BY <1>c, <1>d, <2>0 DEF CallInv, RowInv
  <2> QED
    BY <2>3, <2>4, <2>5 DEF IInv, OneSender
<1>17. CASE UNCHANGED vars
  BY <1>17 DEF IInv, OneSender, TypeOK, Sends, CallInv, RowInv, vars, rowVars, callVars
<1> QED
  BY <1>1, <1>2, <1>3, <1>4, <1>5, <1>6, <1>7, <1>8, <1>9, <1>10, <1>11, <1>12, <1>13, <1>14, <1>15, <1>16, <1>17 DEF Next, CallStep

(* The inductive invariant holds in every reachable state.                  *)
THEOREM Invariant == Spec => []IInv
  BY InitInductive, StepInductive, PTL DEF Spec

(* A message is never in the hands of two senders (service.ts:7-13, 134).   *)
THEOREM NeverTwoSenders == Spec => []OneSender
<1>1. IInv => OneSender
  BY DEF IInv
<1> QED
  BY <1>1, Invariant, PTL

(* A message reaches the chat twice only after an answer that left it in    *)
(* doubt (service.ts:9-13).                                                 *)
THEOREM SecondCopyWasDoubted == Spec => []CopiesAreDoubted
<1>1. IInv => CopiesAreDoubted
  BY DEF IInv, RowInv, CopiesAreDoubted
<1> QED
  BY <1>1, Invariant, PTL

\* A sender's row is not SENT, so no outcome is written over one that is.
LEMMA SentStep ==
  ASSUME IInv, [Next]_vars, NEW q \in Keys, status[q] = "SENT"
  PROVE  status'[q] = "SENT" /\ copies[q] >= 1 /\ copies'[q] = copies[q]
<1>0. /\ TypeOK /\ copies[q] >= 1
      /\ \A c \in Calls : CallInv(c)
  BY DEF IInv, OneSender, RowInv
<1>1. ASSUME NEW c \in Calls,
             SendAccepted(c) \/ (\E n \in {0, 1} : SendCutShort(c, n))
               \/ RecordSent(c) \/ RecordFailed(c) \/ RecordUnreachable(c)
      PROVE  status'[q] = "SENT" /\ copies'[q] = copies[q]
  <2>1. key[c] # q
    BY <1>0, <1>1 DEF CallInv, SendAccepted, SendCutShort, RecordSent, RecordFailed, RecordUnreachable
  <2> QED
    BY <1>0, <1>1, <2>1
       DEF TypeOK, SendAccepted, SendCutShort, RecordSent, RecordFailed, RecordUnreachable, rowVars
<1>2. ASSUME NEW c \in Calls,
             TakeRetry(c) \/ InsertRow(c) \/ ReadRow(c) \/ MarkUnknown(c) \/ Reclaim(c)
               \/ SendRefused(c) \/ SendUnreachable(c) \/ Crash(c)
      PROVE  status'[q] = "SENT" /\ copies'[q] = copies[q]
  BY <1>0, <1>2
     DEF TypeOK, TakeRetry, InsertRow, ReadRow, MarkUnknown, Reclaim, SendRefused, SendUnreachable,
         Crash, rowVars
<1>3. ASSUME NEW c \in Calls, NEW k \in Keys, SelectDue(c, k) \/ Deliver(c, k)
      PROVE  status'[q] = "SENT" /\ copies'[q] = copies[q]
  BY <1>3 DEF SelectDue, Deliver, rowVars
<1>4. CASE Tick \/ UNCHANGED vars
  BY <1>0, <1>4 DEF Tick, vars, rowVars
<1> QED
  BY <1>0, <1>1, <1>2, <1>3, <1>4 DEF Next, CallStep

(* What the ledger calls SENT is in the chat, stays SENT and is not sent    *)
(* again (service.ts:9).                                                    *)
THEOREM SentStays == Spec => SentIsFinal
<1>1. IInv /\ [Next]_vars =>
        [\A k \in Keys :
           status[k] = "SENT" =>
             status'[k] = "SENT" /\ copies[k] >= 1 /\ copies'[k] = copies[k]]_vars
  BY SentStep
<1> QED
  BY <1>1, Invariant, PTL DEF Spec, SentIsFinal

==============================================================================
