--------------------------- MODULE BillingPayments ---------------------------
(* Money that reaches the platform's bank account and what it pays for           *)
(* (lib/billing/service.ts, lib/billing/ai-balance.ts), for one customer: the    *)
(* invoices of its subscription and its top-ups of the AI balance. A bank row    *)
(* carries the codes the customer wrote into the transfer; it is matched by the  *)
(* webhook and by sweeps, or by an operator when its source is not trusted.      *)
(*                                                                               *)
(* Every request reads first and writes in one transaction later, so each is two *)
(* steps or three, with anything in between; it may die at each. Amounts matter  *)
(* only by whether they are enough; the day is fixed (what is paid through is    *)
(* counted from it), and so are plans and prices.                                *)
EXTENDS Naturals, Sequences, FiniteSets

CONSTANTS
  Rows,          \* rows of the bank ledger, by bank reference
  TopUps,        \* how many top-ups the customer has asked for
  None,
  Calls,         \* slots for requests served at the same time
  Terms,         \* the numbers of months a renewal may be for
  Misspelt,      \* rows whose reference a person may also type in another spelling
  Transfers,     \* what rows carry: codes of invoices and of top-ups (0 is one
                 \* nobody was given), enough or not, and how far they are trusted
  MaxInvoices    \* bounds the instance

Intents == 1..TopUps

PaymentOutcomes == {"MATCHED", "UNDERPAID", "INVOICE_NOT_OPEN", "NO_INVOICE",
                    "TOPUP_CREDITED", "TOPUP_CREDITED_REVIEW", "TOPUP_HELD"}

\* resolved_note of a line: nothing yet, that less was accepted, any other reason.
Notes == {"", "SHORT", "REASON"}

ASSUME TransfersNameTopUps ==
  \A x \in Transfers : /\ x.codes \subseteq Nat /\ x.tops \subseteq 0..TopUps
                        /\ x.enough \in BOOLEAN
                        /\ x.trust \in {"TRUSTED", "UNCONFIRMED", "OTHER_ACCOUNT"}

ASSUME TermsAssumption == Terms \subseteq Nat /\ TopUps \in Nat /\ Misspelt \subseteq Rows

\* NULL is no row, no transfer, no line and no source.
ASSUME NoneAssumption ==
  None \notin Rows /\ None \notin Transfers /\ None \notin {"BANK", "MANUAL"}
  /\ None \notin [outcome : PaymentOutcomes, doc : Nat, note : Notes]

VARIABLES
  bank,        \* row -> what it carries once it has arrived, or None
  payments,    \* row -> its line in platform_billing_payments, or None
  invoices,    \* platform_invoices, in the order they were opened, each with the
               \* reference and the source of what paid it
  paidThrough, units,   \* the subscription: months paid for, add-on units
  intents,     \* platform_payment_intents: the row that paid it, or None
  topups,      \* TOPUP lines of the balance's ledger: <<row, intent>>
  call         \* slot -> the request it serves

subscription == <<invoices, paidThrough, units>>
balance == <<intents, topups>>
vars == <<bank, payments, subscription, balance, call>>

\* References of bank rows as a person may type them, in the ledger's spelling or
\* in another, and none.
References == Rows \cup {<<r>> : r \in Misspelt} \cup {None}
normalizeBankRef(ref) == IF ref \in Rows \cup {None} THEN ref ELSE ref[1]

Idle == [op |-> "idle"]
Goto(c, r) == call' = [call EXCEPT ![c] = r]
At(c, op) == call[c].op = op

-----------------------------------------------------------------------------
(* Invoices.                                                                 *)

\* The invoices of the set ids that are open: the unique index of the table
\* leaves at most one.
OpenOf(ids) == {i \in ids \cap DOMAIN invoices : invoices[i].status = "OPEN"}

\* A quote: a renewal goes on where the paid months end; an add-on is for the
\* rest of them and is sold only while there are some.
Quote(c, kind, months) ==
  /\ call[c] = Idle
  /\ Len(invoices) < MaxInvoices
  /\ kind = "ADDON" => paidThrough > 0 /\ months = 0
  /\ Goto(c, [op |-> "quoted", kind |-> kind, months |-> months, end |-> paidThrough + months])
  /\ UNCHANGED <<bank, payments, subscription, balance>>

\* openInvoice reads the open invoice, and keeps it if it is for the same thing.
FindOpen(c) ==
  /\ At(c, "quoted")
  /\ LET r == call[c]
         same == {i \in OpenOf(DOMAIN invoices) :
                    /\ invoices[i].kind = r.kind
                    /\ invoices[i].months = r.months /\ invoices[i].end = r.end}
     IN Goto(c, IF same # {} THEN Idle
                ELSE [op |-> "open", kind |-> r.kind, months |-> r.months, end |-> r.end,
                      old |-> OpenOf(DOMAIN invoices)])
  /\ UNCHANGED <<bank, payments, subscription, balance>>

\* The transaction: the old one void if still open, the new one inserted; the
\* unique index rolls it back if yet another one is open by now.
OpenInvoice(c) ==
  /\ At(c, "open")
  /\ LET r == call[c]
         replaced == OpenOf(r.old)
         voided == [i \in DOMAIN invoices |->
                      IF i \in replaced THEN [invoices[i] EXCEPT !.status = "VOID"] ELSE invoices[i]]
     IN invoices' = IF OpenOf(DOMAIN invoices) \subseteq r.old
                    THEN Append(voided, [kind |-> r.kind, months |-> r.months, end |-> r.end,
                                         status |-> "OPEN", ref |-> None, source |-> None])
                    ELSE invoices
  /\ Goto(c, Idle)
  /\ UNCHANGED <<bank, payments, paidThrough, units, balance>>

\* An operator's voidInvoice: one conditional update decides.
VoidInvoice(i) ==
  /\ invoices[i].status = "OPEN"
  /\ invoices' = [invoices EXCEPT ![i].status = "VOID"]
  /\ UNCHANGED <<bank, payments, paidThrough, units, balance, call>>

\* The claim of applyInvoicePaid: the row of an open invoice.
\* Mutant: no condition on the status.
AlwaysPayable(i) == TRUE
Payable(i) == invoices[i].status = "OPEN"

\* What applyInvoicePaid writes once it has claimed invoice i.
Pay(i, ref, source) ==
  LET inv == invoices[i]
  IN /\ invoices' = [invoices EXCEPT ![i].status = "PAID", ![i].ref = ref, ![i].source = source]
     /\ paidThrough' = IF inv.kind = "RENEWAL" THEN inv.end ELSE paidThrough
     /\ units' = IF inv.kind = "ADDON" THEN units + 1 ELSE units

-----------------------------------------------------------------------------
(* The bank ledger, and the line each of its rows gets once.                  *)

\* A row arrives, with codes of invoices that exist.
Arrive(r, transfer) ==
  /\ bank[r] = None
  /\ transfer.codes \subseteq 0..Len(invoices)
  /\ bank' = [bank EXCEPT ![r] = transfer]
  /\ UNCHANGED <<payments, subscription, balance, call>>

Arrived(r) == bank[r] # None

\* The insert that every path to a payment begins with: on conflict, nothing.
\* Mutant: only what was recorded as a payment is in the way.
NotYetPaying(r) == payments[r] # None => payments[r].outcome = "INVOICE_NOT_OPEN"
Unrecorded(r) == payments[r] = None

Record(r, outcome, doc, note) ==
  payments' = [payments EXCEPT ![r] = [outcome |-> outcome, doc |-> doc, note |-> note]]

\* The invoice a set of codes stands for: the open one, else any of them.
Candidates(codes) ==
  IF OpenOf(codes) # {} THEN OpenOf(codes)
  ELSE IF codes \subseteq {0} THEN {0} ELSE codes \ {0}

judgePayment(r, i) ==
  CASE i = 0 -> "NO_INVOICE"
    [] i # 0 /\ invoices[i].status # "OPEN" -> "INVOICE_NOT_OPEN"
    [] i # 0 /\ invoices[i].status = "OPEN" /\ ~bank[r].enough -> "UNDERPAID"
    [] i # 0 /\ invoices[i].status = "OPEN" /\ bank[r].enough -> "MATCHED"

Ask(c, op, ref, doc, outcome) ==
  /\ Goto(c, [op |-> op, row |-> ref, doc |-> doc, outcome |-> outcome])
  /\ UNCHANGED <<bank, payments, subscription, balance>>

\* Who may pay without an operator.
Trusted(r) == bank[r].trust = "TRUSTED"

\* reconcileBillingPayments reads a row nobody recorded and judges it.
Judge(c, r) ==
  /\ call[c] = Idle
  /\ Arrived(r) /\ Unrecorded(r) /\ Trusted(r)
  /\ bank[r].codes # {}
  /\ \E i \in Candidates(bank[r].codes) : Ask(c, "match", r, i, judgePayment(r, i))

Match(c) ==
  /\ At(c, "match")
  /\ LET k == call[c] IN
       IF ~Unrecorded(k.row)
       THEN UNCHANGED <<payments, subscription>>
       ELSE IF k.outcome = "MATCHED" /\ Payable(k.doc)
       THEN Pay(k.doc, k.row, "BANK") /\ Record(k.row, "MATCHED", k.doc, "")
       ELSE /\ Record(k.row, IF k.outcome = "MATCHED" THEN "INVOICE_NOT_OPEN" ELSE k.outcome,
                      k.doc, "")
            /\ UNCHANGED subscription
  /\ Goto(c, Idle)
  /\ UNCHANGED <<bank, balance>>

-----------------------------------------------------------------------------
(* Operators.                                                                *)

\* pendingBankRow: a row an operator may decide on.
Pending(r) ==
  /\ Arrived(r) /\ Unrecorded(r)
  /\ bank[r].codes # {} /\ bank[r].trust # "TRUSTED"

\* confirmBankPayment: the row pays an invoice it names, if need be with less.
ConfirmRow(c, r, i) ==
  /\ call[c] = Idle
  /\ Pending(r)
  /\ i \in bank[r].codes \ {0}
  /\ judgePayment(r, i) # "INVOICE_NOT_OPEN"
  /\ Ask(c, "confirm", r, i, judgePayment(r, i))

\* dismissBankPayment: the row is not for the subscription.
Dismissable(outcome) == outcome \notin {"MATCHED", "UNDERPAID"}

DismissRow(c, r) ==
  /\ call[c] = Idle
  /\ Pending(r)
  /\ \E i \in Candidates(bank[r].codes) :
       /\ Dismissable(judgePayment(r, i))
       /\ Ask(c, "dismiss", r, i, judgePayment(r, i))

\* markInvoicePaidManually, with the reference the operator typed, or none: it is
\* compared with those of other invoices, as typed and in the ledger's spelling.
\* A row of the ledger must be unused and carry no code, and is then recorded;
\* what is not in the ledger is kept as it was typed.
MarkPaid(c, i, ref) ==
  /\ call[c] = Idle
  /\ invoices[i].status = "OPEN"
  /\ LET row == normalizeBankRef(ref) IN
       /\ ref # None => \A j \in DOMAIN invoices \ {i} : invoices[j].ref \notin {ref, row}
       /\ IF row # None /\ Arrived(row)
          THEN /\ Unrecorded(row)
               /\ bank[row].codes = {} /\ bank[row].tops = {}
               /\ Ask(c, "confirm", row, i, IF bank[row].enough THEN "MATCHED" ELSE "UNDERPAID")
          ELSE Ask(c, "mark", ref, i, None)

\* The transaction of an operator's payment by a bank row: it is rolled back if
\* the invoice is not open any more.
Confirm(c) ==
  /\ At(c, "confirm")
  /\ LET k == call[c] IN
       IF Unrecorded(k.row) /\ Payable(k.doc)
       THEN /\ Pay(k.doc, k.row, "MANUAL")
            /\ Record(k.row, k.outcome, k.doc, IF k.outcome = "UNDERPAID" THEN "SHORT" ELSE "")
       ELSE UNCHANGED <<payments, subscription>>
  /\ Goto(c, Idle)
  /\ UNCHANGED <<bank, balance>>

\* resolveBillingPayment: a recorded row that did not match is marked as dealt with,
\* unless it was before, which the update asks again.
\* Mutant: a line may be marked although it has its note.
AnyLine(r) == TRUE
Unresolved(r) == payments[r].note = ""

ResolveRow(c, r) ==
  /\ call[c] = Idle
  /\ payments[r] # None
  /\ payments[r].outcome # "MATCHED"
  /\ Unresolved(r)
  /\ Ask(c, "resolve", r, payments[r].doc, None)

Dismiss(c) ==
  /\ At(c, "dismiss")
  /\ LET k == call[c] IN
       IF Unrecorded(k.row) THEN Record(k.row, k.outcome, k.doc, "REASON") ELSE UNCHANGED payments
  /\ Goto(c, Idle)
  /\ UNCHANGED <<bank, subscription, balance>>

Resolve(c) ==
  /\ At(c, "resolve")
  /\ LET r == call[c].row IN
       payments' = IF Unresolved(r) THEN [payments EXCEPT ![r].note = "REASON"] ELSE payments
  /\ Goto(c, Idle)
  /\ UNCHANGED <<bank, subscription, balance>>

Mark(c) ==
  /\ At(c, "mark")
  /\ LET k == call[c] IN
       IF Payable(k.doc) THEN Pay(k.doc, k.row, "MANUAL") ELSE UNCHANGED subscription
  /\ Goto(c, Idle)
  /\ UNCHANGED <<bank, payments, balance>>

-----------------------------------------------------------------------------
(* Top-ups of the AI balance.                                                *)

\* The claim of a top-up. Mutant: no condition on its status.
AnyIntent(t) == TRUE
Unclaimed(t) == intents[t] = None

TopUpCandidates(tops) ==
  LET known == tops \ {0}
      waiting == {t \in known : Unclaimed(t)}
  IN IF waiting # {} THEN waiting ELSE IF known # {} THEN known ELSE {0}

\* topupOutcome, and the hold on money that came to another account.
topupOutcome(r, t) ==
  CASE t = 0 -> "NO_INVOICE"
    [] t # 0 /\ (bank[r].trust = "OTHER_ACCOUNT" \/ ~Unclaimed(t)) -> "TOPUP_HELD"
    [] t # 0 /\ bank[r].trust = "TRUSTED" /\ Unclaimed(t) ->
         IF bank[r].enough THEN "TOPUP_CREDITED" ELSE "TOPUP_CREDITED_REVIEW"

\* creditTopupFromBankRow, called for a row without a code of an invoice.
JudgeTopUp(c, r) ==
  /\ call[c] = Idle
  /\ Arrived(r) /\ Unrecorded(r)
  /\ bank[r].trust # "UNCONFIRMED"
  /\ bank[r].codes = {} /\ bank[r].tops # {}
  /\ \E t \in TopUpCandidates(bank[r].tops) : Ask(c, "topup", r, t, topupOutcome(r, t))

\* The credit claims the top-up: of two rows for one, the second is held.
Credit(c) ==
  /\ At(c, "topup")
  /\ LET k == call[c]
         credits == k.outcome \in {"TOPUP_CREDITED", "TOPUP_CREDITED_REVIEW"}
     IN IF ~Unrecorded(k.row) THEN UNCHANGED <<payments, balance>>
        ELSE IF credits /\ Unclaimed(k.doc)
        THEN /\ intents' = [intents EXCEPT ![k.doc] = k.row]
             /\ topups' = topups \cup {<<k.row, k.doc>>}
             /\ Record(k.row, k.outcome, k.doc, "")
        ELSE /\ Record(k.row, IF credits THEN "TOPUP_HELD" ELSE k.outcome, k.doc, "")
             /\ UNCHANGED balance
  /\ Goto(c, Idle)
  /\ UNCHANGED <<bank, subscription>>

-----------------------------------------------------------------------------
\* The process dies, or the database refuses, before the transaction.
Die(c) ==
  /\ call[c] # Idle
  /\ Goto(c, Idle)
  /\ UNCHANGED <<bank, payments, subscription, balance>>

Init ==
  /\ bank = [r \in Rows |-> None]
  /\ payments = [r \in Rows |-> None]
  /\ invoices = <<>> /\ paidThrough = 0 /\ units = 0
  /\ intents = [t \in Intents |-> None] /\ topups = {}
  /\ call = [c \in Calls |-> Idle]

\* A reconciliation takes up a row.
Sweep(c) == \E r \in Rows : Judge(c, r) \/ JudgeTopUp(c, r)
Commit(c) ==
  \/ FindOpen(c) \/ OpenInvoice(c)
  \/ Match(c) \/ Credit(c) \/ Confirm(c) \/ Dismiss(c) \/ Resolve(c) \/ Mark(c)

Operate(c) ==
  \/ \E r \in Rows : DismissRow(c, r) \/ ResolveRow(c, r)
  \/ \E i \in DOMAIN invoices :
       \/ \E r \in Rows : ConfirmRow(c, r, i)
       \/ \E ref \in References : MarkPaid(c, i, ref)

Next ==
  \/ \E c \in Calls :
       \/ \E kind \in {"RENEWAL", "ADDON"}, months \in Terms \cup {0} :
            (kind = "RENEWAL" => months \in Terms) /\ Quote(c, kind, months)
       \/ Sweep(c) \/ Operate(c) \/ Commit(c) \/ Die(c)
  \/ \E i \in DOMAIN invoices : VoidInvoice(i)
  \/ \E r \in Rows, transfer \in Transfers : Arrive(r, transfer)

Spec == Init /\ [][Next]_vars

-----------------------------------------------------------------------------
(* Properties.                                                               *)

TypeOK ==
  /\ \A r \in Rows :
       /\ payments[r] # None =>
            /\ bank[r] # None /\ payments[r].outcome \in PaymentOutcomes
            /\ payments[r].doc \in 0..Len(invoices) \cup Intents
       /\ bank[r] \in Transfers \cup {None}
  /\ invoices \in Seq([kind : {"RENEWAL", "ADDON"}, months : Nat, end : Nat,
                       status : {"OPEN", "PAID", "VOID"},
                       ref : References, source : {"BANK", "MANUAL", None}])
  /\ paidThrough \in Nat /\ units \in Nat
  /\ intents \in [Intents -> Rows \cup {None}]
  /\ topups \subseteq Rows \X Intents

\* Row r is recorded as the payment of an invoice: as enough, or as accepted for
\* less. Short money that was only marked as dealt with pays nothing.
Pays(r) ==
  payments[r] # None /\ \/ payments[r].outcome = "MATCHED"
                        \/ payments[r].outcome = "UNDERPAID" /\ payments[r].note = "SHORT"

(* What is recorded of a bank row is what became of it, although it was judged   *)
(* before the transaction: a row recorded as a payment paid that very invoice    *)
(* (service.ts:605-618), every invoice the bank paid has such a row, and a top-up *)
(* is credited in the ledger, marked paid and recorded together or not at all    *)
(* (ai-balance.ts:270-300).                                                      *)
RecordsAreTrue ==
  /\ TypeOK
  /\ \A r \in Rows :
       Pays(r) => /\ invoices[payments[r].doc].status = "PAID"
                  /\ invoices[payments[r].doc].ref = r
  /\ \A i \in DOMAIN invoices :
       invoices[i].source = "BANK" => Pays(invoices[i].ref) /\ payments[invoices[i].ref].doc = i
  /\ \A r \in Rows, t \in Intents :
       LET credited == /\ payments[r] # None
                       /\ payments[r].outcome \in {"TOPUP_CREDITED", "TOPUP_CREDITED_REVIEW"}
                       /\ payments[r].doc = t
       IN (<<r, t>> \in topups <=> credited) /\ (credited <=> intents[t] = r)

(* The quota bought is the quota paid for: each paid add-on invoice counts once, *)
(* whichever of the webhook, the sweep and the operators gets to it              *)
(* (applyInvoicePaid, service.ts:461-492).                                       *)
UnitsArePaidFor ==
  units = Cardinality({i \in DOMAIN invoices : invoices[i].kind = "ADDON" /\ invoices[i].status = "PAID"})

(* An invoice that was paid or void stays so; a recorded row keeps its outcome    *)
(* and its document, one that matched gets no note, and a note once written is    *)
(* not written over (service.ts:1128-1135), whichever requests are still under    *)
(* way with what they read before.                                                *)
LineStands(before, after) ==
  /\ after # None /\ after.outcome = before.outcome /\ after.doc = before.doc
  /\ before.outcome = "MATCHED" \/ before.note # "" => after.note = before.note

SettledIsFinal ==
  [][/\ \A i \in DOMAIN invoices : invoices[i].status # "OPEN" => invoices'[i] = invoices[i]
     /\ \A r \in Rows : payments[r] # None => LineStands(payments[r], payments'[r])]_vars

(* What service.ts:940 says: one sum of money pays one invoice, and none of it    *)
(* pays for two products (service.ts:953).                                        *)
MoneyPaysOnce ==
  \A r \in Rows :
    Cardinality({i \in DOMAIN invoices : normalizeBankRef(invoices[i].ref) = r})
      + Cardinality({t \in Intents : <<r, t>> \in topups}) <= 1
=============================================================================
