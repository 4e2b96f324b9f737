------------------------------ MODULE AiBalance ------------------------------
(* The prepaid balance that pays for customers the sales AI answers beyond what  *)
(* the plan includes, for one organization and one month: the gate before an     *)
(* answer (lib/pricing/ai-gate.ts), the meter after it (ai-customer.ts), the      *)
(* charge (lib/billing/ai-usage-charge.ts) and the ledger with what operators     *)
(* write into it (ai-balance.ts). Nothing is locked between them: conversations   *)
(* and operators are served at the same time, and each may die between its steps. *)
(*                                                                              *)
(* The balance is the sum of the ledger; a line is written once per key. The      *)
(* balance is enabled throughout and the plan stays the same. Top-ups come from   *)
(* BillingPayments; here they are forms like those of operators.                 *)
EXTENDS Integers, FiniteSets, FiniteSetsExt

CONSTANTS
  Customers,
  Turns,       \* slots for conversations answered at the same time
  Operators,   \* slots for refunds asked for at the same time
  Forms,       \* [key, kind, amount]: what operators submit, perhaps twice
  Included,    \* customers the plan includes
  Price,       \* of every other customer
  MaxErrors    \* bounds the instance: how often the gate cannot read

FormKinds == {"TOPUP", "PROMO_CREDIT", "ADJUST_CASH", "ADJUST_PROMO", "REFUND"}

\* What a form is tested for before it is written; amounts are whole dong.
ASSUME FormsAreForms ==
  \A f \in Forms :
    /\ f.kind \in FormKinds
    /\ f.amount \in Int \ {0}
    /\ f.kind \in {"TOPUP", "PROMO_CREDIT", "REFUND"} => f.amount > 0

\* The price is one that the plan may carry; somebody is served, by somebody.
ASSUME PlanAssumption == Included \in Nat /\ Price \in Nat /\ MaxErrors \in Nat
ASSUME SlotsAssumption ==
  /\ IsFiniteSet(Turns) /\ Turns # {}
  /\ IsFiniteSet(Operators) /\ Operators # {}

VARIABLES
  ledger,     \* platform_ai_ledger_entries: [key, type, cls, amount], told apart by copy
  counted,    \* customers with a usage event of the month
  turn,       \* slot -> the answer it is at
  refund,     \* slot -> the refund it has checked
  errors      \* history: how often the gate let a customer through unread

vars == <<ledger, counted, turn, refund, errors>>

None == [pc |-> "none"]
Go(t, r) == turn' = [turn EXCEPT ![t] = r]
In(t, pc) == turn[t].pc = pc

Sum(entries) == MapThenSumSet(LAMBDA e : e.amount, entries)
Balance(cls) == Sum({e \in ledger : e.cls = cls})
Total == Sum(ledger)

LinesOf(key) == {e \in ledger : e.key = key}

\* postAiLedgerEntry: the insert on the unique key decides.
Posted(key) == LinesOf(key) # {}

Line(key, type, cls, amount) ==
  [key |-> key, type |-> type, cls |-> cls, amount |-> amount,
   copy |-> Cardinality(LinesOf(key))]

Post(key, type, cls, amount) ==
  ledger' = IF Posted(key) THEN ledger ELSE ledger \cup {Line(key, type, cls, amount)}

-----------------------------------------------------------------------------
(* A conversation.                                                           *)

\* aiBalanceGateStrict. Mutant: the balance is not asked.
EverybodyServed(c) == TRUE
Served(c) == c \in counted \/ Cardinality(counted) < Included \/ Total > 0

\* The gate lets the conversation through, or cannot read and lets it through.
\* What it refuses changes nothing.
Gate(t, c) ==
  /\ turn[t] = None
  /\ Served(c)
  /\ Go(t, [pc |-> "answer", customer |-> c])
  /\ UNCHANGED <<ledger, counted, refund, errors>>

GateUnread(t, c) ==
  /\ turn[t] = None
  /\ errors < MaxErrors
  /\ errors' = errors + 1
  /\ Go(t, [pc |-> "answer", customer |-> c])
  /\ UNCHANGED <<ledger, counted, refund>>

\* recordAiCustomer, once the answer is sent: only a new customer goes on.
Record(t) ==
  /\ In(t, "answer")
  /\ LET c == turn[t].customer
     IN /\ Go(t, IF c \in counted THEN None ELSE [pc |-> "count", customer |-> c])
        /\ counted' = counted \cup {c}
  /\ UNCHANGED <<ledger, refund, errors>>

\* What of the month's count is free.
\* Mutant: one customer less.
OneLess(count) == count < Included
WithinIncluded(count) == count <= Included

\* noteAiCustomerReply reads the count of the month, after the record.
Count(t) ==
  /\ In(t, "count")
  /\ Go(t, IF WithinIncluded(Cardinality(counted)) THEN None
           ELSE [pc |-> "charge", customer |-> turn[t].customer])
  /\ UNCHANGED <<ledger, counted, refund, errors>>

\* The class of money a charge is taken from.
fundsClass == IF Balance("PROMO") >= Price THEN "PROMO" ELSE "CASH"

\* chargeAiCustomerUsage: its transaction reads the balance and then writes.
ReadBalance(t) ==
  /\ In(t, "charge")
  /\ Go(t, [pc |-> "post", customer |-> turn[t].customer, cls |-> fundsClass])
  /\ UNCHANGED <<ledger, counted, refund, errors>>

Charge(t) ==
  /\ In(t, "post")
  /\ Post(<<"charge", turn[t].customer>>, "AI_USAGE", turn[t].cls, -Price)
  /\ Go(t, None)
  /\ UNCHANGED <<counted, refund, errors>>

\* The answer is not sent, or an error is swallowed: nothing makes up for it.
GiveUp(t) ==
  /\ turn[t] # None
  /\ Go(t, None)
  /\ UNCHANGED <<ledger, counted, refund, errors>>

-----------------------------------------------------------------------------
(* Operators.                                                                *)

TypeOf(kind) == IF kind \in {"ADJUST_CASH", "ADJUST_PROMO"} THEN "ADJUSTMENT" ELSE kind
ClassOf(kind) == IF kind \in {"PROMO_CREDIT", "ADJUST_PROMO"} THEN "PROMO" ELSE "CASH"

\* adjustAiBalance for all but a refund. A form sent twice is written once; one that
\* seemed to fail keeps its key, whatever is changed in it before it is sent again.
Adjust(f) ==
  /\ f.kind # "REFUND"
  /\ Post(<<"op", f.key>>, TypeOf(f.kind), ClassOf(f.kind), f.amount)
  /\ UNCHANGED <<counted, turn, refund, errors>>

\* What a refund is measured by. Mutant: gifts as well.
WholeBalance == Total
Refundable == Balance("CASH")

\* A refund reads the balance in its transaction, which locks nothing.
CheckRefund(o, f) ==
  /\ refund[o] = None
  /\ f.kind = "REFUND"
  /\ Refundable >= f.amount
  /\ refund' = [refund EXCEPT ![o] = [pc |-> "post", form |-> f]]
  /\ UNCHANGED <<ledger, counted, turn, errors>>

Refund(o) ==
  /\ refund[o] # None
  /\ Post(<<"op", refund[o].form.key>>, "REFUND", "CASH", -refund[o].form.amount)
  /\ refund' = [refund EXCEPT ![o] = None]
  /\ UNCHANGED <<counted, turn, errors>>

RefundDies(o) ==
  /\ refund[o] # None
  /\ refund' = [refund EXCEPT ![o] = None]
  /\ UNCHANGED <<ledger, counted, turn, errors>>

\* reverseAiUsageCharge gives a charge back once, in the class it was taken from.
Reverse(charge) ==
  /\ charge.key[1] = "charge"
  /\ Post(<<"reverse", charge.key[2]>>, "ADJUSTMENT", charge.cls, -charge.amount)
  /\ UNCHANGED <<counted, turn, refund, errors>>

-----------------------------------------------------------------------------

Init ==
  /\ ledger = {}
  /\ counted = {}
  /\ turn = [t \in Turns |-> None]
  /\ refund = [o \in Operators |-> None]
  /\ errors = 0

Next ==
  \/ \E t \in Turns : \/ \E c \in Customers : Gate(t, c) \/ GateUnread(t, c)
                      \/ Record(t)
                      \/ Count(t)
                      \/ ReadBalance(t)
                      \/ Charge(t)
                      \/ GiveUp(t)
  \/ \E f \in Forms : Adjust(f) \/ \E o \in Operators : CheckRefund(o, f)
  \/ \E o \in Operators : Refund(o) \/ RefundDies(o)
  \/ \E charge \in ledger : Reverse(charge)

Spec == Init /\ [][Next]_vars

-----------------------------------------------------------------------------

Charges == {e \in ledger : e.key[1] = "charge"}
Reversals == {e \in ledger : e.key[1] = "reverse"}
Refunds == {e \in ledger : e.type = "REFUND"}
Withdrawn(classes) == -Sum({e \in ledger : e.key[1] = "op" /\ e.amount < 0 /\ e.cls \in classes})

\* Every variable has its type, nothing is written twice, whoever else is writing it,
\* only counted customers are charged, and only what was charged is given back.
TypeOK ==
  /\ \A e \in ledger : LinesOf(e.key) = {e}
  /\ \A e \in ledger : e.cls \in {"CASH", "PROMO"} /\ e.amount \in Int
  /\ counted \subseteq Customers
  /\ errors \in 0..MaxErrors
  /\ {e.key[2] : e \in Reversals} \subseteq {e.key[2] : e \in Charges}
  /\ {e.key[2] : e \in Charges} \subseteq counted

\* Apart from what operators take out, the AI runs up a debt of at most one price
\* per conversation that is answered at the same time, and per gate that could not
\* read (AI_BALANCE_V1.md, L4): the gate asks before the answer, the charge comes
\* after it.
DebtIsBounded ==
  /\ TypeOK
  /\ Total + Withdrawn({"CASH", "PROMO"}) >= -Price * (Cardinality(Turns) + errors)

\* Nobody is charged while the plan includes all who are counted. When it does not,
\* of those it includes at most as many are charged as conversations race with the
\* one that crosses the line: the count is read after the records of all of them
\* (AI_BALANCE_V1.md, section 6).
OverchargeIsBounded ==
  IF Cardinality(counted) <= Included THEN Charges = {}
  ELSE Cardinality(Charges) <= Cardinality(counted) - Included + Cardinality(Turns) - 1

\* The money of gifts is not paid out: refunds exceed the cash that came in only by
\* those that were checked at the same time as another one.
RefundsAreOfCash ==
  LET cashIn == Sum({e \in ledger : e.key[1] = "op" /\ e.cls = "CASH" /\ e.amount > 0})
  IN -Sum(Refunds) <= cashIn
       + (Cardinality(Operators) - 1) * Max({0} \cup {-e.amount : e \in Refunds})
=============================================================================
