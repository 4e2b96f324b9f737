------------------------- MODULE BillingPaymentsProofs -------------------------
(***************************************************************************)
(* What BillingPayments guarantees for any number of bank rows, top-ups,   *)
(* invoices and requests served at the same time.                          *)
(*                                                                         *)
(* The argument: a request carries a row, an invoice or a top-up and the   *)
(* outcome it was judged to have, and what it read may be out of date when *)
(* its transaction begins. What the transaction does is therefore decided  *)
(* by two tests of its own, that the row has no line yet and that the      *)
(* invoice is open (the top-up unclaimed), and the lines, the invoices and *)
(* the ledger are written together. A line is inserted once, and an        *)
(* operator may only add a note to one that has none, which makes no line  *)
(* a payment and takes none away; so the invoice a payment names is the    *)
(* one it paid, for ever.                                                  *)
(***************************************************************************)
EXTENDS BillingPayments, SequenceTheorems, FiniteSetTheorems, TLAPS

Invoice == [kind : {"RENEWAL", "ADDON"}, months : Nat, end : Nat,
            status : {"OPEN", "PAID", "VOID"},
            ref : References, source : {"BANK", "MANUAL", None}]
Line    == [outcome : PaymentOutcomes, doc : Nat, note : Notes]

\* The tables and the requests have the shapes TypeOK leaves open.
Shapes ==
  /\ bank \in [Rows -> Transfers \cup {None}]
  /\ payments \in [Rows -> Line \cup {None}]
  /\ call = [c \in Calls |-> call[c]]
  /\ \A r \in Rows : bank[r] # None => bank[r].codes \subseteq 0..Len(invoices)

\* What the lines say of the invoices.
LinesInv ==
  /\ \A r \in Rows :
       Pays(r) => /\ payments[r].doc \in 1..Len(invoices)
                  /\ invoices[payments[r].doc].status = "PAID"
                  /\ invoices[payments[r].doc].ref = r
  /\ \A i \in 1..Len(invoices) :
       invoices[i].source = "BANK" => /\ invoices[i].ref \in Rows
                                      /\ Pays(invoices[i].ref) /\ payments[invoices[i].ref].doc = i

\* Row r is recorded as the payment of top-up t.
Credited(r, t) ==
  /\ payments[r] # None
  /\ payments[r].outcome \in {"TOPUP_CREDITED", "TOPUP_CREDITED_REVIEW"}
  /\ payments[r].doc = t

\* What they say of the top-ups.
TopUpsInv ==
  \A r \in Rows, t \in Intents :
    (<<r, t>> \in topups <=> Credited(r, t)) /\ (Credited(r, t) <=> intents[t] = r)

\* What a request carries makes sense, whether or not it is still so.
CarriesSense(k) ==
  /\ k.op \in {"quoted", "open"} =>
       k.kind \in {"RENEWAL", "ADDON"} /\ k.months \in Nat /\ k.end \in Nat
  /\ k.op \in {"match", "confirm", "dismiss", "topup"} => k.row \in Rows /\ bank[k.row] # None
  /\ k.op = "match" => /\ k.doc \in 0..Len(invoices)
                       /\ k.outcome \in {"MATCHED", "UNDERPAID", "INVOICE_NOT_OPEN", "NO_INVOICE"}
                       /\ k.outcome = "MATCHED" => k.doc # 0
  /\ k.op = "confirm" => k.doc \in 1..Len(invoices) /\ k.outcome \in {"MATCHED", "UNDERPAID"}
  /\ k.op = "dismiss" => k.doc \in 0..Len(invoices) /\ k.outcome \in {"INVOICE_NOT_OPEN", "NO_INVOICE"}
  /\ k.op = "resolve" => /\ k.row \in Rows /\ payments[k.row] # None
                         /\ payments[k.row].outcome # "MATCHED"
  /\ k.op = "mark" => k.doc \in 1..Len(invoices) /\ k.row \in References
  /\ k.op = "topup" =>
       /\ k.doc \in 0..TopUps
       /\ k.outcome \in {"NO_INVOICE", "TOPUP_HELD", "TOPUP_CREDITED", "TOPUP_CREDITED_REVIEW"}
       /\ k.outcome \in {"TOPUP_CREDITED", "TOPUP_CREDITED_REVIEW"} => k.doc # 0

\* The inductive invariant.
IInv ==
  /\ TypeOK /\ Shapes /\ LinesInv /\ TopUpsInv /\ UnitsArePaidFor
  /\ \A c \in Calls : CarriesSense(call[c])

USE DEF Intents

\* The types without what TypeOK says of the lines.
Typed ==
  /\ invoices \in Seq(Invoice) /\ paidThrough \in Nat /\ units \in Nat
  /\ intents \in [Intents -> Rows \cup {None}] /\ topups \subseteq Rows \X Intents

\* What the ledger calls a row can be typed, and so can nothing.
LEMMA RowsAreReferences == Rows \subseteq References /\ None \in References
  BY DEF References

\* An empty note, a shortage and a reason are notes.
LEMMA NotesAre == "" \in Notes /\ "SHORT" \in Notes /\ "REASON" \in Notes
  BY DEF Notes

\* Every table of a state that satisfies the invariant has its type.
LEMMA TypesAre ==
  ASSUME IInv
  PROVE  /\ Typed /\ Len(invoices) \in Nat /\ DOMAIN invoices = 1..Len(invoices)
         /\ \A i \in 1..Len(invoices) : invoices[i] \in Invoice
<1>1. Typed
  BY DEF IInv, TypeOK, Typed, Invoice
<1> QED
  BY <1>1, LenProperties DEF Typed

\* The lines name documents that exist.
DocsExist ==
  \A r \in Rows : payments[r] # None => /\ bank[r] # None
                                        /\ payments[r].doc \in 0..Len(invoices) \cup Intents

\* TypeOK is what the variables hold and that every line names a document that exists.
LEMMA TypeOKIs == Shapes => (TypeOK <=> Typed /\ DocsExist)
  BY DEF Shapes, TypeOK, Typed, DocsExist, Invoice, Line

------------------------------------------------------------------------------
(* The invoices. *)

\* Invoices are added at the end and may be opened, paid or void; those that are not
\* open stay as they are.
Kept(before, after) ==
  /\ Len(after) \in Nat /\ Len(before) <= Len(after)
  /\ \A i \in 1..Len(before) : before[i].status # "OPEN" => after[i] = before[i]

\* What it means to pay invoice i.
LEMMA PayEffect ==
  ASSUME IInv, NEW i \in 1..Len(invoices), NEW ref \in References,
         NEW source \in {"BANK", "MANUAL"}, Pay(i, ref, source)
  PROVE  /\ invoices' \in Seq(Invoice) /\ Len(invoices') = Len(invoices)
         /\ \A j \in 1..Len(invoices) : j # i => invoices'[j] = invoices[j]
         /\ invoices'[i].kind = invoices[i].kind /\ invoices'[i].status = "PAID"
         /\ invoices'[i].ref = ref /\ invoices'[i].source = source
         /\ paidThrough' \in Nat
         /\ units' = IF invoices[i].kind = "ADDON" THEN units + 1 ELSE units
<1> DEFINE e == [invoices[i] EXCEPT !.status = "PAID", !.ref = ref, !.source = source]
<1>1. invoices \in Seq(Invoice) /\ invoices[i] \in Invoice /\ paidThrough \in Nat
  BY TypesAre DEF Typed
<1>2. e \in Invoice /\ e.kind = invoices[i].kind /\ e.status = "PAID" /\ e.ref = ref /\ e.source = source
  BY <1>1 DEF Invoice
<1>3. invoices' = [invoices EXCEPT ![i] = e]
  BY DEF Pay
<1> HIDE DEF e
<1>4. /\ invoices' \in Seq(Invoice) /\ Len(invoices') = Len(invoices)
      /\ \A j \in 1..Len(invoices) : invoices'[j] = IF j = i THEN e ELSE invoices[j]
  BY <1>1, <1>2, <1>3, ExceptSeq
<1>5. paidThrough' \in Nat /\ units' = IF invoices[i].kind = "ADDON" THEN units + 1 ELSE units
  BY <1>1 DEF Pay, Invoice
<1> QED
  BY <1>2, <1>4, <1>5

\* The add-ons that are paid.
Sold == {i \in DOMAIN invoices : invoices[i].kind = "ADDON" /\ invoices[i].status = "PAID"}

\* The paid add-on invoices can be counted, and their number is the quota.
LEMMA SoldIsFinite ==
  ASSUME IInv
  PROVE  IsFiniteSet(Sold) /\ Cardinality(Sold) \in Nat /\ units = Cardinality(Sold)
<1>1. Sold \subseteq 1..Len(invoices) /\ Len(invoices) \in Nat
  BY TypesAre DEF Sold
<1>2. IsFiniteSet(1..Len(invoices))
  BY <1>1, FS_Interval
<1>3. IsFiniteSet(Sold)
  BY <1>1, <1>2, FS_Subset
<1> QED
  BY <1>3, FS_CardinalityType DEF IInv, UnitsArePaidFor, Sold

\* An open invoice that is paid counts once.
LEMMA PayCounts ==
  ASSUME IInv, NEW i \in 1..Len(invoices), NEW ref \in References,
         NEW source \in {"BANK", "MANUAL"}, Payable(i), Pay(i, ref, source)
  PROVE  UnitsArePaidFor' /\ units' \in Nat
<1>1. i \notin Sold /\ Sold \subseteq 1..Len(invoices)
  BY TypesAre DEF Sold, Payable
<1>2. DOMAIN invoices' = 1..Len(invoices) /\ DOMAIN invoices = 1..Len(invoices)
  BY PayEffect, LenProperties, TypesAre
<1>3. CASE invoices[i].kind = "ADDON"
  <2>1. Sold' = Sold \cup {i} /\ units' = units + 1
    BY <1>2, <1>3, PayEffect DEF Sold
  <2>2. Cardinality(Sold') = Cardinality(Sold) + 1
    BY <1>1, <2>1, SoldIsFinite, FS_AddElement
  <2> QED
    BY <2>1, <2>2, SoldIsFinite DEF UnitsArePaidFor, Sold
<1>4. CASE invoices[i].kind # "ADDON"
  <2>1. Sold' = Sold /\ units' = units
    BY <1>1, <1>2, <1>4, PayEffect DEF Sold
  <2> QED
    BY <2>1, SoldIsFinite DEF UnitsArePaidFor, Sold
<1> QED
  BY <1>3, <1>4

\* Invoices that open, or go void, are nobody's money.
Unpaid(before, after) ==
  /\ Len(before) <= Len(after)
  /\ \A i \in 1..Len(after) :
       IF i \in 1..Len(before)
       THEN /\ after[i].kind = before[i].kind /\ after[i].ref = before[i].ref
            /\ after[i].source = before[i].source
            /\ after[i] = before[i] \/ (before[i].status = "OPEN" /\ after[i].status = "VOID")
       ELSE after[i].status = "OPEN" /\ after[i].source = None

\* An invoice that is opened or voided changes nothing of what was sold.
LEMMA UnpaidCounts ==
  ASSUME IInv, invoices' \in Seq(Invoice), Unpaid(invoices, invoices'), units' = units
  PROVE  UnitsArePaidFor'
<1>1. /\ DOMAIN invoices = 1..Len(invoices) /\ DOMAIN invoices' = 1..Len(invoices')
      /\ Len(invoices) \in Nat /\ Len(invoices') \in Nat
  BY TypesAre, LenProperties
<1>2. Sold' = Sold
  BY <1>1 DEF Sold, Unpaid
<1> QED
  BY <1>2, SoldIsFinite DEF UnitsArePaidFor, Sold

------------------------------------------------------------------------------
(* The requests. *)

\* Rows do not go away, and lines keep their outcome.
Remain ==
  \A r \in Rows :
    /\ bank[r] # None => bank'[r] # None
    /\ payments[r] # None => payments'[r] # None /\ payments'[r].outcome = payments[r].outcome

\* What a request carries stays sensible while invoices are added and rows arrive.
LEMMA SenseStays ==
  ASSUME NEW k, CarriesSense(k), Len(invoices) \in Nat, Len(invoices') \in Nat,
         Len(invoices) <= Len(invoices'), Remain
  PROVE  CarriesSense(k)'
  BY DEF CarriesSense, Remain

\* A request that reads, gives up or dies changes what it carries and nothing else.
LEMMA RequestKeeps ==
  ASSUME IInv, NEW c \in Calls, NEW k, CarriesSense(k), Goto(c, k),
         UNCHANGED <<bank, payments, subscription, balance>>
  PROVE  IInv'
<1>1. /\ bank' = bank /\ payments' = payments /\ invoices' = invoices /\ paidThrough' = paidThrough
      /\ units' = units /\ intents' = intents /\ topups' = topups
      /\ call' = [call EXCEPT ![c] = k]
  BY DEF subscription, balance, Goto
<1>2. TypeOK' /\ LinesInv' /\ TopUpsInv' /\ UnitsArePaidFor'
  BY <1>1 DEF IInv, TypeOK, LinesInv, Pays, TopUpsInv, Credited, UnitsArePaidFor
<1>3. Shapes'
  BY <1>1 DEF IInv, Shapes
<1>4. \A d \in Calls : CarriesSense(call[d])'
  BY <1>1 DEF IInv, Shapes, CarriesSense
<1> QED
  BY <1>2, <1>3, <1>4 DEF IInv

\* A transaction ends the request, and those of the others stay.
LEMMA OthersKeep ==
  ASSUME IInv, Len(invoices') \in Nat, Len(invoices) <= Len(invoices'),
         Remain, UNCHANGED call \/ \E c \in Calls : Goto(c, Idle)
  PROVE  /\ call' = [c \in Calls |-> call'[c]]
         /\ \A d \in Calls : CarriesSense(call[d])'
<1>1. \A d \in Calls : call'[d] = call[d] \/ call'[d] = Idle
  BY DEF IInv, Shapes, Goto
<1>2. call' = [c \in Calls |-> call'[c]]
  BY DEF IInv, Shapes, Goto
<1>3. ASSUME NEW d \in Calls
      PROVE  CarriesSense(call[d])'
  <2>1. Len(invoices) \in Nat /\ CarriesSense(call[d])
    BY TypesAre DEF IInv
  <2>2. CarriesSense(Idle)
    BY DEF CarriesSense, Idle
  <2>3. CASE call'[d] = call[d]
    BY <2>1, <2>3, SenseStays DEF CarriesSense
  <2>4. CASE call'[d] = Idle
    BY <2>4 DEF CarriesSense, Idle
  <2> QED
    BY <1>1, <2>3, <2>4
<1> QED
  BY <1>2, <1>3

------------------------------------------------------------------------------
(* The lines. *)

\* A row without a line gets one, and nobody else's changes.
LEMMA RecordEffect ==
  ASSUME IInv, NEW r \in Rows, bank[r] # None, NEW o \in PaymentOutcomes,
         NEW d \in 0..Len(invoices) \cup Intents, NEW n \in Notes, Record(r, o, d, n),
         bank' = bank, Len(invoices') = Len(invoices)
  PROVE  /\ payments' \in [Rows -> Line \cup {None}] /\ payments'[r] # None
         /\ payments'[r].outcome = o /\ payments'[r].doc = d /\ payments'[r].note = n
         /\ \A q \in Rows : q # r => payments'[q] = payments[q]
         /\ DocsExist' /\ (Unrecorded(r) => Remain)
<1> DEFINE line == [outcome |-> o, doc |-> d, note |-> n]
<1>1. d \in Nat
  BY TypesAre, TermsAssumption
<1>2. line \in Line /\ line # None /\ line.outcome = o /\ line.doc = d /\ line.note = n
  BY <1>1, NoneAssumption DEF Line
<1>3. payments' = [payments EXCEPT ![r] = line] /\ payments \in [Rows -> Line \cup {None}]
  BY DEF Record, IInv, Shapes
<1> HIDE DEF line
<1>4. /\ payments' \in [Rows -> Line \cup {None}] /\ payments'[r] = line
      /\ \A q \in Rows : q # r => payments'[q] = payments[q]
  BY <1>2, <1>3
<1>5. DocsExist
  BY TypeOKIs DEF IInv
<1>6. DocsExist'
  BY <1>2, <1>4, <1>5 DEF DocsExist
<1>7. Unrecorded(r) => Remain
  BY <1>2, <1>4 DEF Remain, Unrecorded
<1> QED
  BY <1>2, <1>4, <1>6, <1>7

\* A line that is no payment of an invoice says nothing of them.
LEMMA NoteKeepsLines ==
  ASSUME IInv, NEW r \in Rows, Unrecorded(r), invoices' = invoices,
         \A q \in Rows : q # r => payments'[q] = payments[q],
         ~Pays(r)'
  PROVE  LinesInv'
<1>1. LinesInv /\ ~Pays(r)
  BY DEF IInv, Unrecorded, Pays
<1>2. \A q \in Rows : Pays(q)' = Pays(q) /\ (Pays(q) => payments'[q] = payments[q])
  BY <1>1 DEF Pays
<1> QED
  BY <1>1, <1>2 DEF LinesInv

\* The transaction that pays an invoice with a row and records it says what it did.
LEMMA PaymentKeepsLines ==
  ASSUME IInv, NEW r \in Rows, NEW i \in 1..Len(invoices), Unrecorded(r), Payable(i),
         \A q \in Rows : q # r => payments'[q] = payments[q],
         Pays(r)', payments'[r].doc = i,
         Len(invoices') = Len(invoices),
         \A j \in 1..Len(invoices) : j # i => invoices'[j] = invoices[j],
         invoices'[i].status = "PAID", invoices'[i].ref = r
  PROVE  LinesInv'
<1>1. LinesInv /\ ~Pays(r)
  BY DEF IInv, Unrecorded, Pays
<1>2. \A q \in Rows : q # r => Pays(q)' = Pays(q) /\ payments'[q] = payments[q]
  BY DEF Pays
<1>3. \A q \in Rows : Pays(q) => payments[q].doc # i
  BY <1>1 DEF LinesInv, Payable
<1>4. ASSUME NEW q \in Rows, Pays(q)'
      PROVE  /\ payments'[q].doc \in 1..Len(invoices')
             /\ invoices'[payments'[q].doc].status = "PAID"
             /\ invoices'[payments'[q].doc].ref = q
  <2>1. CASE q = r
    BY <2>1
  <2>2. CASE q # r
    BY <1>1, <1>2, <1>3, <1>4, <2>2 DEF LinesInv
  <2> QED
    BY <2>1, <2>2
<1>5. ASSUME NEW j \in 1..Len(invoices'), invoices'[j].source = "BANK"
      PROVE  \E q \in Rows : q = invoices'[j].ref /\ Pays(q)' /\ payments'[q].doc = j
  <2>1. CASE j = i
    BY <2>1
  <2>2. CASE j # i
    <3>1. invoices'[j] = invoices[j] /\ j \in 1..Len(invoices)
      BY <2>2
    <3>2. invoices[j].ref \in Rows /\ Pays(invoices[j].ref) /\ payments[invoices[j].ref].doc = j
      BY <1>1, <1>5, <3>1 DEF LinesInv
    <3>3. invoices[j].ref # r
      BY <1>1, <3>2
    <3> QED
      BY <1>2, <3>1, <3>2, <3>3 DEF Pays
  <2> QED
    BY <2>1, <2>2
<1>6. /\ \A q \in Rows :
           Pays(q)' => /\ payments'[q].doc \in 1..Len(invoices')
                       /\ invoices'[payments'[q].doc].status = "PAID"
                       /\ invoices'[payments'[q].doc].ref = q
      /\ \A j \in 1..Len(invoices') :
           invoices'[j].source = "BANK" =>
             \E q \in Rows : q = invoices'[j].ref /\ Pays(q)' /\ payments'[q].doc = j
  BY <1>4, <1>5
<1> QED
  BY <1>6 DEF LinesInv, Pays

\* Invoices that open, are paid by hand without a row, or go void leave the lines true.
LEMMA InvoicesKeepLines ==
  ASSUME IInv, payments' = payments, Len(invoices') \in Nat, Len(invoices) <= Len(invoices'),
         \A j \in 1..Len(invoices) :
           invoices[j].status # "OPEN" => invoices'[j] = invoices[j],
         \A j \in 1..Len(invoices') :
           invoices'[j].source = "BANK" =>
             /\ j \in 1..Len(invoices) /\ invoices'[j].ref = invoices[j].ref
             /\ invoices[j].source = "BANK"
  PROVE  LinesInv'
<1>1. LinesInv /\ Len(invoices) \in Nat
  BY TypesAre DEF IInv
<1>2. \A q \in Rows : Pays(q)' = Pays(q) /\ payments'[q] = payments[q]
  BY DEF Pays
<1>3. ASSUME NEW q \in Rows, Pays(q)
      PROVE  /\ payments[q].doc \in 1..Len(invoices')
             /\ invoices'[payments[q].doc] = invoices[payments[q].doc]
  BY <1>1, <1>3 DEF LinesInv
<1> QED
  BY <1>1, <1>2, <1>3 DEF LinesInv

\* A line that is no credit leaves the top-ups as they are.
LEMMA NoteKeepsTopUps ==
  ASSUME IInv, NEW r \in Rows, Unrecorded(r), UNCHANGED balance,
         \A q \in Rows : q # r => payments'[q] = payments[q],
         payments'[r].outcome \notin {"TOPUP_CREDITED", "TOPUP_CREDITED_REVIEW"}
  PROVE  TopUpsInv'
<1>1. TopUpsInv /\ intents' = intents /\ topups' = topups
  BY DEF IInv, balance
<1>2. \A t \in Intents : ~Credited(r, t) /\ ~Credited(r, t)'
  BY DEF Unrecorded, Credited
<1>3. \A q \in Rows, t \in Intents : Credited(q, t)' <=> Credited(q, t)
  BY <1>2 DEF Credited
<1> QED
  BY <1>1, <1>3 DEF TopUpsInv

------------------------------------------------------------------------------
(* The steps. *)

\* What a transaction owes the invariant, the requests of the others included.
LEMMA TransactionKeeps ==
  ASSUME IInv, Typed', payments' \in [Rows -> Line \cup {None}], DocsExist', bank' = bank,
         Remain,
         LinesInv', TopUpsInv', UnitsArePaidFor', Len(invoices) <= Len(invoices'),
         UNCHANGED call \/ \E c \in Calls : Goto(c, Idle)
  PROVE  IInv'
<1>1. Len(invoices) \in Nat /\ Len(invoices') \in Nat
  BY TypesAre, LenProperties DEF Typed
<1>2. call' = [c \in Calls |-> call'[c]] /\ \A d \in Calls : CarriesSense(call[d])'
  BY <1>1, OthersKeep
<1>3. \A r \in Rows : bank'[r] # None => bank'[r].codes \subseteq 0..Len(invoices')
  BY <1>1 DEF IInv, Shapes
<1>4. Shapes'
  BY <1>2, <1>3 DEF IInv, Shapes
<1>5. TypeOK'
  BY <1>4, TypeOKIs, PTL
<1> QED
  BY <1>2, <1>4, <1>5 DEF IInv

\* A transaction that pays an invoice with a row and writes its line.
LEMMA PayAndRecord ==
  ASSUME IInv, NEW c \in Calls, NEW r \in Rows, bank[r] # None, NEW i \in 1..Len(invoices),
         NEW source \in {"BANK", "MANUAL"}, NEW o \in {"MATCHED", "UNDERPAID"}, NEW n \in Notes,
         o = "UNDERPAID" => n = "SHORT",
         Unrecorded(r), Payable(i), Pay(i, r, source), Record(r, o, i, n),
         bank' = bank, UNCHANGED balance, Goto(c, Idle)
  PROVE  IInv'
<1>1. Len(invoices') = Len(invoices) /\ r \in References
  BY PayEffect, RowsAreReferences
<1>2. o \in PaymentOutcomes /\ i \in 0..Len(invoices) \cup Intents
  BY TypesAre DEF PaymentOutcomes
<1>3. /\ payments' \in [Rows -> Line \cup {None}] /\ payments'[r] # None /\ DocsExist'
      /\ Remain /\ payments'[r].outcome = o /\ payments'[r].doc = i /\ payments'[r].note = n
      /\ \A q \in Rows : q # r => payments'[q] = payments[q]
  BY <1>1, <1>2, RecordEffect
<1>4. Pays(r)'
  BY <1>3 DEF Pays
<1>5. LinesInv'
  BY <1>1, <1>3, <1>4, PayEffect, PaymentKeepsLines
<1>6. TopUpsInv'
  BY <1>3, NoteKeepsTopUps
<1>7. UnitsArePaidFor' /\ units' \in Nat
  BY <1>1, PayCounts
<1>8. Typed'
  BY <1>1, <1>7, PayEffect, TypesAre DEF Typed, balance
<1> QED
  BY <1>1, <1>3, <1>5, <1>6, <1>7, <1>8, TypesAre, TransactionKeeps

\* A transaction that only writes a line which is no payment.
LEMMA RecordOnly ==
  ASSUME IInv, NEW c \in Calls, NEW r \in Rows, bank[r] # None,
         NEW o \in {"UNDERPAID", "INVOICE_NOT_OPEN", "NO_INVOICE", "TOPUP_HELD"},
         NEW d \in 0..Len(invoices) \cup Intents, NEW n \in Notes, n # "SHORT",
         Unrecorded(r), Record(r, o, d, n), UNCHANGED <<bank, subscription, balance>>, Goto(c, Idle)
  PROVE  IInv'
<1>1. /\ invoices' = invoices /\ paidThrough' = paidThrough /\ units' = units /\ bank' = bank
      /\ intents' = intents /\ topups' = topups
  BY DEF subscription, balance
<1>2. o \in PaymentOutcomes
  BY DEF PaymentOutcomes
<1>3. /\ payments' \in [Rows -> Line \cup {None}] /\ DocsExist'
      /\ Remain /\ payments'[r].outcome = o /\ payments'[r].note = n
      /\ \A q \in Rows : q # r => payments'[q] = payments[q]
  BY <1>1, <1>2, RecordEffect
<1>4. ~Pays(r)'
  BY <1>3 DEF Pays
<1>5. LinesInv'
  BY <1>1, <1>3, <1>4, NoteKeepsLines
<1>6. TopUpsInv'
  BY <1>3, NoteKeepsTopUps
<1>7. UnitsArePaidFor' /\ Typed'
  BY <1>1, TypesAre DEF IInv, UnitsArePaidFor, Typed
<1> QED
  BY <1>1, <1>3, <1>5, <1>6, <1>7, TypesAre, TransactionKeeps

\* A transaction that has lost to another changes nothing.
LEMMA NothingDone ==
  ASSUME IInv, NEW c \in Calls, Goto(c, Idle), UNCHANGED <<bank, payments, subscription, balance>>
  PROVE  IInv'
<1>1. CarriesSense(Idle)
  BY DEF CarriesSense, Idle
<1> QED
  BY <1>1, RequestKeeps

\* A transaction on the invoices that involves no row.
LEMMA InvoicesOnly ==
  ASSUME IInv, invoices' \in Seq(Invoice), Unpaid(invoices, invoices'),
         UNCHANGED <<bank, payments, paidThrough, units, balance>>,
         UNCHANGED call \/ \E c \in Calls : Goto(c, Idle)
  PROVE  IInv'
<1>1. /\ bank' = bank /\ payments' = payments /\ paidThrough' = paidThrough /\ units' = units
      /\ intents' = intents /\ topups' = topups
  BY DEF balance
<1>2. Len(invoices') \in Nat /\ Len(invoices) \in Nat /\ Len(invoices) <= Len(invoices')
  BY TypesAre, LenProperties DEF Unpaid
<1>3. UnitsArePaidFor'
  BY <1>1, UnpaidCounts
<1>4. LinesInv'
  <2>1. \A j \in 1..Len(invoices) : invoices[j].status # "OPEN" => invoices'[j] = invoices[j]
    BY <1>2 DEF Unpaid
  <2>2. \A j \in 1..Len(invoices') :
          invoices'[j].source = "BANK" =>
            /\ j \in 1..Len(invoices) /\ invoices'[j].ref = invoices[j].ref
            /\ invoices[j].source = "BANK"
    BY <1>2, NoneAssumption DEF Unpaid
  <2> QED
    BY <1>1, <1>2, <2>1, <2>2, InvoicesKeepLines
<1>5. TopUpsInv'
  <2>1. \A r \in Rows, t \in Intents : Credited(r, t)' <=> Credited(r, t)
    BY <1>1 DEF Credited
  <2>2. TopUpsInv
    BY DEF IInv
  <2> QED
    BY <1>1, <2>1, <2>2 DEF TopUpsInv
<1>6. Typed'
  BY <1>1, TypesAre DEF Typed
<1>7. payments' \in [Rows -> Line \cup {None}]
  BY <1>1 DEF IInv, Shapes
<1>8. DocsExist'
  <2>1. DocsExist
    BY TypeOKIs DEF IInv
  <2> QED
    BY <1>1, <1>2, <2>1 DEF DocsExist
<1>9. Remain
  BY <1>1 DEF Remain
<1> QED
  BY <1>1, <1>2, <1>3, <1>4, <1>5, <1>6, <1>7, <1>8, <1>9, TransactionKeeps

\* The invoice a row's codes stand for exists, or is none.
LEMMA CandidatesExist ==
  ASSUME IInv, NEW r \in Rows, bank[r] # None, NEW i \in Candidates(bank[r].codes)
  PROVE  i \in 0..Len(invoices)
<1>1. bank[r].codes \subseteq 0..Len(invoices) /\ OpenOf(bank[r].codes) \subseteq bank[r].codes
  BY DEF IInv, Shapes, OpenOf
<1> QED
  BY <1>1, TypesAre DEF Candidates

\* What a row can be judged to be.
LEMMA JudgedOutcomes ==
  ASSUME IInv, NEW r \in Rows, bank[r] # None, NEW i \in 0..Len(invoices)
  PROVE  /\ judgePayment(r, i) \in {"MATCHED", "UNDERPAID", "INVOICE_NOT_OPEN", "NO_INVOICE"}
         /\ judgePayment(r, i) \in {"MATCHED", "UNDERPAID"} => i # 0
         /\ i # 0 => judgePayment(r, i) # "NO_INVOICE"
<1>1. bank[r].enough \in BOOLEAN
  BY TransfersNameTopUps DEF IInv, Shapes
<1>2. CASE i = 0
  BY <1>2 DEF judgePayment
<1>3. CASE i # 0 /\ invoices[i].status # "OPEN"
  BY <1>3 DEF judgePayment
<1>4. CASE i # 0 /\ invoices[i].status = "OPEN" /\ ~bank[r].enough
  BY <1>4 DEF judgePayment
<1>5. CASE i # 0 /\ invoices[i].status = "OPEN" /\ bank[r].enough
  BY <1>5 DEF judgePayment
<1> QED
  BY <1>1, <1>2, <1>3, <1>4, <1>5

\* A request that reads a row and asks for a transaction on it.
LEMMA AskKeeps ==
  ASSUME IInv, NEW c \in Calls, NEW op, NEW r, NEW d, NEW o, Ask(c, op, r, d, o),
         CarriesSense([op |-> op, row |-> r, doc |-> d, outcome |-> o])
  PROVE  IInv'
  BY RequestKeeps DEF Ask

\* A sweep that has judged a row has only read.
LEMMA JudgeKeeps ==
  ASSUME IInv, NEW c \in Calls, NEW r \in Rows, Judge(c, r)
  PROVE  IInv'
<1>1. PICK i \in Candidates(bank[r].codes) : Ask(c, "match", r, i, judgePayment(r, i))
  BY DEF Judge
<1>2. bank[r] # None
  BY DEF Judge, Arrived
<1>3. i \in 0..Len(invoices)
  BY <1>2, CandidatesExist
<1> DEFINE o == judgePayment(r, i)
<1>4. o \in {"MATCHED", "UNDERPAID", "INVOICE_NOT_OPEN", "NO_INVOICE"} /\ (o = "MATCHED" => i # 0)
  BY <1>2, <1>3, JudgedOutcomes
<1> HIDE DEF o
<1>5. CarriesSense([op |-> "match", row |-> r, doc |-> i, outcome |-> o])
  BY <1>2, <1>3, <1>4 DEF CarriesSense
<1> QED
  BY <1>1, <1>5, AskKeeps DEF o

\* An operator who picks a row to dismiss has only read.
LEMMA DismissRowKeeps ==
  ASSUME IInv, NEW c \in Calls, NEW r \in Rows, DismissRow(c, r)
  PROVE  IInv'
<1>1. PICK i \in Candidates(bank[r].codes) :
        Dismissable(judgePayment(r, i)) /\ Ask(c, "dismiss", r, i, judgePayment(r, i))
  BY DEF DismissRow
<1>2. bank[r] # None
  BY DEF DismissRow, Pending, Arrived
<1>3. i \in 0..Len(invoices)
  BY <1>2, CandidatesExist
<1> DEFINE o == judgePayment(r, i)
<1>4. o \in {"INVOICE_NOT_OPEN", "NO_INVOICE"}
  BY <1>1, <1>2, <1>3, JudgedOutcomes DEF Dismissable
<1> HIDE DEF o
<1>5. CarriesSense([op |-> "dismiss", row |-> r, doc |-> i, outcome |-> o])
  BY <1>2, <1>3, <1>4 DEF CarriesSense
<1> QED
  BY <1>1, <1>5, AskKeeps DEF o

\* An operator who picks a line to resolve has only read.
LEMMA ResolveRowKeeps ==
  ASSUME IInv, NEW c \in Calls, NEW r \in Rows, ResolveRow(c, r)
  PROVE  IInv'
<1>1. /\ Ask(c, "resolve", r, payments[r].doc, None)
      /\ payments[r] # None /\ payments[r].outcome # "MATCHED"
  BY DEF ResolveRow
<1>2. CarriesSense([op |-> "resolve", row |-> r, doc |-> payments[r].doc, outcome |-> None])
  BY <1>1 DEF CarriesSense
<1> QED
  BY <1>1, <1>2, AskKeeps

\* An operator who picks a row and an invoice for it has only read.
LEMMA ConfirmRowKeeps ==
  ASSUME IInv, NEW c \in Calls, NEW r \in Rows, NEW i \in DOMAIN invoices, ConfirmRow(c, r, i)
  PROVE  IInv'
<1>1. bank[r] # None /\ judgePayment(r, i) # "INVOICE_NOT_OPEN" /\ i # 0
  BY DEF ConfirmRow, Pending, Arrived
<1>2. i \in 1..Len(invoices) /\ i \in 0..Len(invoices)
  BY TypesAre
<1> DEFINE o == judgePayment(r, i)
<1>3. Ask(c, "confirm", r, i, o)
  BY DEF ConfirmRow
<1>4. o \in {"MATCHED", "UNDERPAID"}
  BY <1>1, <1>2, JudgedOutcomes
<1> HIDE DEF o
<1>5. CarriesSense([op |-> "confirm", row |-> r, doc |-> i, outcome |-> o])
  BY <1>1, <1>2, <1>4 DEF CarriesSense
<1> QED
  BY <1>3, <1>5, AskKeeps

\* An operator who picks an invoice to mark has only read.
LEMMA MarkPaidKeeps ==
  ASSUME IInv, NEW c \in Calls, NEW i \in DOMAIN invoices, NEW ref \in References,
         MarkPaid(c, i, ref)
  PROVE  IInv'
<1>1. i \in 1..Len(invoices)
  BY TypesAre
<1> DEFINE row == normalizeBankRef(ref)
<1>2. row \in Rows \cup {None}
  <2>1. CASE ref \in Rows \cup {None}
    BY <2>1 DEF normalizeBankRef
  <2>2. CASE ref \notin Rows \cup {None}
    <3>1. PICK q \in Misspelt : ref = <<q>>
      BY <2>2 DEF References
    <3>2. normalizeBankRef(ref) = q
      BY <2>2, <3>1 DEF normalizeBankRef
    <3> QED
      BY <3>2, TermsAssumption
  <2> QED
    BY <2>1, <2>2
<1>3. CASE row # None /\ Arrived(row)
  <2> DEFINE o == IF bank[row].enough THEN "MATCHED" ELSE "UNDERPAID"
  <2>1. Ask(c, "confirm", row, i, o) /\ bank[row] # None
    BY <1>3 DEF MarkPaid, Arrived
  <2>2. o \in {"MATCHED", "UNDERPAID"} /\ row \in Rows
    BY <1>2, <1>3
  <2> HIDE DEF o, row
  <2>3. CarriesSense([op |-> "confirm", row |-> row, doc |-> i, outcome |-> o])
    BY <1>1, <2>1, <2>2 DEF CarriesSense
  <2> QED
    BY <2>1, <2>3, AskKeeps
<1>4. CASE ~(row # None /\ Arrived(row))
  <2>1. Ask(c, "mark", ref, i, None)
    BY <1>4 DEF MarkPaid
  <2>2. CarriesSense([op |-> "mark", row |-> ref, doc |-> i, outcome |-> None])
    BY <1>1 DEF CarriesSense
  <2> QED
    BY <2>1, <2>2, AskKeeps
<1> QED
  BY <1>3, <1>4

\* What a row can be judged to be as a top-up.
LEMMA JudgeTopUpKeeps ==
  ASSUME IInv, NEW c \in Calls, NEW r \in Rows, JudgeTopUp(c, r)
  PROVE  IInv'
<1>1. PICK t \in TopUpCandidates(bank[r].tops) : Ask(c, "topup", r, t, topupOutcome(r, t))
  BY DEF JudgeTopUp
<1>2. bank[r] # None /\ bank[r].trust # "UNCONFIRMED"
  BY DEF JudgeTopUp, Arrived
<1>3. /\ bank[r].tops \subseteq 0..TopUps /\ bank[r].enough \in BOOLEAN
      /\ bank[r].trust \in {"TRUSTED", "OTHER_ACCOUNT"}
  BY <1>2, TransfersNameTopUps DEF IInv, Shapes
<1>4. t \in 0..TopUps
  BY <1>3, TermsAssumption DEF TopUpCandidates
<1> DEFINE o == topupOutcome(r, t)
<1>5. /\ o \in {"NO_INVOICE", "TOPUP_HELD", "TOPUP_CREDITED", "TOPUP_CREDITED_REVIEW"}
      /\ o \in {"TOPUP_CREDITED", "TOPUP_CREDITED_REVIEW"} => t # 0
  <2>1. CASE t = 0
    BY <2>1 DEF topupOutcome
  <2>2. CASE t # 0 /\ (bank[r].trust = "OTHER_ACCOUNT" \/ ~Unclaimed(t))
    BY <2>2 DEF topupOutcome
  <2>3. CASE t # 0 /\ bank[r].trust = "TRUSTED" /\ Unclaimed(t)
    BY <2>3 DEF topupOutcome
  <2> QED
    BY <1>3, <2>1, <2>2, <2>3
<1> HIDE DEF o
<1>6. CarriesSense([op |-> "topup", row |-> r, doc |-> t, outcome |-> o])
  BY <1>2, <1>4, <1>5 DEF CarriesSense
<1> QED
  BY <1>1, <1>6, AskKeeps DEF o

\* The row of a sweep gets its line, and its invoice is paid, together or not at all.
LEMMA MatchKeeps ==
  ASSUME IInv, NEW c \in Calls, Match(c)
  PROVE  IInv'
<1> DEFINE k == call[c]
<1>1. /\ k.row \in Rows /\ bank[k.row] # None /\ k.doc \in 0..Len(invoices)
      /\ k.outcome \in {"MATCHED", "UNDERPAID", "INVOICE_NOT_OPEN", "NO_INVOICE"}
      /\ k.outcome = "MATCHED" => k.doc # 0
  BY DEF IInv, CarriesSense, Match, At
<1>2. Goto(c, Idle) /\ bank' = bank /\ UNCHANGED balance
  BY DEF Match
<1>3. CASE ~Unrecorded(k.row)
  BY <1>2, <1>3, NothingDone DEF Match
<1>4. CASE Unrecorded(k.row) /\ k.outcome = "MATCHED" /\ Payable(k.doc)
  <2>1. Pay(k.doc, k.row, "BANK") /\ Record(k.row, "MATCHED", k.doc, "")
    BY <1>4 DEF Match
  <2>2. k.doc \in 1..Len(invoices)
    BY <1>1, <1>4
  <2> QED
    BY <1>1, <1>2, <1>4, <2>1, <2>2, NotesAre, PayAndRecord
<1>5. CASE Unrecorded(k.row) /\ ~(k.outcome = "MATCHED" /\ Payable(k.doc))
  <2> DEFINE o == IF k.outcome = "MATCHED" THEN "INVOICE_NOT_OPEN" ELSE k.outcome
  <2>1. Record(k.row, o, k.doc, "") /\ UNCHANGED subscription
    BY <1>5 DEF Match
  <2>2. o \in {"UNDERPAID", "INVOICE_NOT_OPEN", "NO_INVOICE", "TOPUP_HELD"}
    BY <1>1
  <2> HIDE DEF o
  <2> QED
    BY <1>1, <1>2, <1>5, <2>1, <2>2, NotesAre, RecordOnly
<1> QED
  BY <1>3, <1>4, <1>5

\* A payment an operator confirms pays the invoice its line names.
LEMMA ConfirmKeeps ==
  ASSUME IInv, NEW c \in Calls, Confirm(c)
  PROVE  IInv'
<1> DEFINE k == call[c]
<1>1. /\ k.row \in Rows /\ bank[k.row] # None /\ k.doc \in 1..Len(invoices)
      /\ k.outcome \in {"MATCHED", "UNDERPAID"}
  BY DEF IInv, CarriesSense, Confirm, At
<1>2. Goto(c, Idle) /\ bank' = bank /\ UNCHANGED balance
  BY DEF Confirm
<1>3. CASE Unrecorded(k.row) /\ Payable(k.doc)
  <2> DEFINE n == IF k.outcome = "UNDERPAID" THEN "SHORT" ELSE ""
  <2>1. Pay(k.doc, k.row, "MANUAL") /\ Record(k.row, k.outcome, k.doc, n)
    BY <1>3 DEF Confirm
  <2>2. n \in Notes /\ (k.outcome = "UNDERPAID" => n = "SHORT")
    BY DEF Notes
  <2> HIDE DEF n
  <2> QED
    BY <1>1, <1>2, <1>3, <2>1, <2>2, PayAndRecord
<1>4. CASE ~(Unrecorded(k.row) /\ Payable(k.doc))
  BY <1>2, <1>4, NothingDone DEF Confirm
<1> QED
  BY <1>3, <1>4

\* A row that is dismissed gets a line that pays nothing.
LEMMA DismissKeeps ==
  ASSUME IInv, NEW c \in Calls, Dismiss(c)
  PROVE  IInv'
<1> DEFINE k == call[c]
<1>1. /\ k.row \in Rows /\ bank[k.row] # None /\ k.doc \in 0..Len(invoices)
      /\ k.outcome \in {"INVOICE_NOT_OPEN", "NO_INVOICE"}
  BY DEF IInv, CarriesSense, Dismiss, At
<1>2. Goto(c, Idle) /\ UNCHANGED <<bank, subscription, balance>>
  BY DEF Dismiss
<1>3. CASE Unrecorded(k.row)
  <2>1. Record(k.row, k.outcome, k.doc, "REASON")
    BY <1>3 DEF Dismiss
  <2> QED
    BY <1>1, <1>2, <1>3, <2>1, NotesAre, RecordOnly
<1>4. CASE ~Unrecorded(k.row)
  BY <1>2, <1>4, NothingDone DEF Dismiss
<1> QED
  BY <1>3, <1>4

\* What a note changes of a line: neither what became of its row nor the document.
LEMMA ResolveEffect ==
  ASSUME IInv, NEW c \in Calls, Resolve(c), Unresolved(call[c].row)
  PROVE  /\ call[c].row \in Rows /\ payments[call[c].row].note = ""
         /\ payments' \in [Rows -> Line \cup {None}]
         /\ \A q \in Rows : /\ payments'[q] # None <=> payments[q] # None
                            /\ payments[q] # None => /\ payments'[q].outcome = payments[q].outcome
                                                     /\ payments'[q].doc = payments[q].doc
                            /\ q # call[c].row => payments'[q] = payments[q]
         /\ payments'[call[c].row].note = "REASON"
<1> DEFINE r == call[c].row
           line == [payments[r] EXCEPT !.note = "REASON"]
<1>1. r \in Rows /\ payments[r] # None /\ payments \in [Rows -> Line \cup {None}]
  BY DEF IInv, Shapes, CarriesSense, Resolve, At
<1>2. payments' = [payments EXCEPT ![r] = line] /\ payments[r].note = ""
  BY DEF Resolve, Unresolved
<1>3. payments[r] \in Line
  BY <1>1
<1> HIDE DEF r
<1>4. /\ line \in Line /\ line # None /\ line.note = "REASON"
      /\ line.outcome = payments[r].outcome /\ line.doc = payments[r].doc
  BY <1>3, NoneAssumption DEF Line, Notes
<1> HIDE DEF line
<1>5. payments' \in [Rows -> Line \cup {None}] /\ payments'[r] = line
      /\ \A q \in Rows : q # r => payments'[q] = payments[q]
  BY <1>1, <1>2, <1>4
<1> QED
  BY <1>1, <1>2, <1>4, <1>5 DEF r

\* A line that gets its note pays no more and no less than before: one that is a
\* payment of less has its note, and one that matched is not asked for.
LEMMA ResolveKeeps ==
  ASSUME IInv, NEW c \in Calls, Resolve(c)
  PROVE  IInv'
<1> DEFINE r == call[c].row
<1>1. /\ Goto(c, Idle) /\ bank' = bank /\ UNCHANGED <<subscription, balance>>
      /\ invoices' = invoices /\ paidThrough' = paidThrough /\ units' = units
      /\ intents' = intents /\ topups' = topups
  BY DEF Resolve, subscription, balance
<1>2. CASE ~Unresolved(r)
  BY <1>1, <1>2, NothingDone DEF Resolve
<1>3. CASE Unresolved(r)
  <2>1. /\ payments[r].note = "" /\ payments'[r].note = "REASON"
        /\ payments' \in [Rows -> Line \cup {None}]
        /\ \A q \in Rows : /\ payments'[q] # None <=> payments[q] # None
                           /\ payments[q] # None => /\ payments'[q].outcome = payments[q].outcome
                                                    /\ payments'[q].doc = payments[q].doc
                           /\ q # r => payments'[q] = payments[q]
    BY <1>3, ResolveEffect
  <2>2. \A q \in Rows : (Pays(q)' <=> Pays(q)) /\ (Pays(q) => payments'[q].doc = payments[q].doc)
    BY <2>1 DEF Pays
  <2>3. LinesInv'
    BY <1>1, <2>2 DEF IInv, LinesInv
  <2>4. TopUpsInv'
    <3>1. \A q \in Rows, t \in Intents : Credited(q, t)' <=> Credited(q, t)
      BY <2>1 DEF Credited
    <3>2. TopUpsInv
      BY DEF IInv
    <3> QED
      BY <1>1, <3>1, <3>2 DEF TopUpsInv
  <2>5. UnitsArePaidFor' /\ Typed'
    BY <1>1, TypesAre DEF IInv, UnitsArePaidFor, Typed
  <2>6. DocsExist'
    <3>1. DocsExist
      BY TypeOKIs DEF IInv
    <3> QED
      BY <1>1, <2>1, <3>1 DEF DocsExist
  <2>7. Remain
    BY <1>1, <2>1 DEF Remain
  <2>8. Len(invoices) <= Len(invoices')
    BY <1>1, TypesAre
  <2> HIDE DEF r
  <2> QED
    BY <1>1, <2>1, <2>3, <2>4, <2>5, <2>6, <2>7, <2>8, TransactionKeeps
<1> QED
  BY <1>2, <1>3

\* An invoice marked paid by hand was open, so that no line named it as paid.
LEMMA MarkKeeps ==
  ASSUME IInv, NEW c \in Calls, Mark(c)
  PROVE  IInv'
<1> DEFINE i == call[c].doc
           ref == call[c].row
<1>1. i \in 1..Len(invoices) /\ ref \in References
  BY DEF IInv, CarriesSense, Mark, At
<1>2. /\ Goto(c, Idle) /\ bank' = bank /\ payments' = payments /\ UNCHANGED balance
      /\ intents' = intents /\ topups' = topups
  BY DEF Mark, balance
<1>3. CASE Payable(i)
  <2>1. Pay(i, ref, "MANUAL")
    BY <1>3 DEF Mark
  <2> HIDE DEF i, ref
  <2>2. Len(invoices') = Len(invoices) /\ Len(invoices) \in Nat
    BY <1>1, <2>1, PayEffect, TypesAre
  <2>3. UnitsArePaidFor' /\ units' \in Nat
    BY <1>1, <1>3, <2>1, PayCounts
  <2>4. LinesInv'
    <3>1. \A j \in 1..Len(invoices) : invoices[j].status # "OPEN" => invoices'[j] = invoices[j]
      BY <1>1, <1>3, <2>1, PayEffect DEF Payable
    <3>2. \A j \in 1..Len(invoices') :
            invoices'[j].source = "BANK" =>
              /\ j \in 1..Len(invoices) /\ invoices'[j].ref = invoices[j].ref
              /\ invoices[j].source = "BANK"
      BY <1>1, <2>1, <2>2, PayEffect
    <3> QED
      BY <1>2, <2>2, <3>1, <3>2, InvoicesKeepLines
  <2>5. TopUpsInv'
    <3>1. \A r \in Rows, t \in Intents : Credited(r, t)' <=> Credited(r, t)
      BY <1>2 DEF Credited
    <3>2. TopUpsInv
      BY DEF IInv
    <3> QED
      BY <1>2, <3>1, <3>2 DEF TopUpsInv
  <2>6. Typed'
    BY <1>1, <1>2, <2>1, <2>3, PayEffect, TypesAre DEF Typed
  <2>7. payments' \in [Rows -> Line \cup {None}] /\ DocsExist'
    <3>1. DocsExist /\ payments \in [Rows -> Line \cup {None}]
      BY TypeOKIs DEF IInv, Shapes
    <3> QED
      BY <1>2, <2>2, <3>1 DEF DocsExist
  <2>8. Remain
    BY <1>2 DEF Remain
  <2> QED
    BY <1>2, <2>2, <2>3, <2>4, <2>5, <2>6, <2>7, <2>8, TransactionKeeps
<1>4. CASE ~Payable(i)
  BY <1>2, <1>4, NothingDone DEF Mark
<1> QED
  BY <1>3, <1>4

\* The credit of a top-up nobody has paid, by a row nobody has recorded.
LEMMA CreditOnce ==
  ASSUME IInv, NEW c \in Calls, NEW r \in Rows, bank[r] # None, NEW t \in Intents,
         NEW o \in {"TOPUP_CREDITED", "TOPUP_CREDITED_REVIEW"}, NEW n \in Notes,
         Unrecorded(r), Unclaimed(t),
         intents' = [intents EXCEPT ![t] = r], topups' = topups \cup {<<r, t>>},
         Record(r, o, t, n), Goto(c, Idle), UNCHANGED <<bank, subscription>>
  PROVE  IInv'
<1>1. invoices' = invoices /\ units' = units /\ paidThrough' = paidThrough /\ bank' = bank
  BY DEF subscription
<1>2. o \in PaymentOutcomes /\ t \in 0..Len(invoices) \cup Intents
  BY DEF PaymentOutcomes
<1>3. /\ payments' \in [Rows -> Line \cup {None}] /\ DocsExist' /\ payments'[r] # None
      /\ Remain /\ payments'[r].outcome = o /\ payments'[r].doc = t
      /\ \A q \in Rows : q # r => payments'[q] = payments[q]
  BY <1>1, <1>2, RecordEffect
<1>4. LinesInv'
  <2>1. ~Pays(r)'
    BY <1>3 DEF Pays
  <2> QED
    BY <1>1, <1>3, <2>1, NoteKeepsLines
<1>5. TopUpsInv'
  <2>1. TopUpsInv /\ intents \in [Intents -> Rows \cup {None}]
    BY TypesAre DEF IInv, Typed
  <2>2. \A x \in Intents : Credited(r, x)' <=> x = t
    BY <1>3 DEF Credited
  <2>3. \A x \in Intents : ~Credited(r, x)
    BY DEF Credited, Unrecorded
  <2>4. \A q \in Rows, x \in Intents : q # r => (Credited(q, x)' <=> Credited(q, x))
    BY <1>3 DEF Credited
  <2>5. \A q \in Rows : ~Credited(q, t)
    BY <2>1, NoneAssumption, ZenonT(40) DEF TopUpsInv, Unclaimed
  <2>6. \A x \in Intents : intents'[x] = IF x = t THEN r ELSE intents[x]
    BY <2>1
  <2>7. ASSUME NEW q \in Rows, NEW x \in Intents
        PROVE  (<<q, x>> \in topups' <=> Credited(q, x)') /\ (Credited(q, x)' <=> intents'[x] = q)
    <3>1. <<q, x>> \in topups' <=> <<q, x>> \in topups \/ (q = r /\ x = t)
      <4>1. <<q, x>> \in {<<r, t>>} <=> q = r /\ x = t
        OBVIOUS
      <4> QED
        BY <4>1
    <3>2. (<<q, x>> \in topups <=> Credited(q, x)) /\ (Credited(q, x) <=> intents[x] = q)
      BY <2>1 DEF TopUpsInv
    <3>3. CASE q = r
      BY <2>2, <2>3, <2>6, <3>1, <3>2, <3>3
    <3>4. CASE q # r
      BY <2>4, <2>5, <2>6, <3>1, <3>2, <3>4
    <3> QED
      BY <3>3, <3>4
  <2> QED
    BY <2>7 DEF TopUpsInv
<1>6. UnitsArePaidFor'
  BY <1>1 DEF IInv, UnitsArePaidFor
<1>7. Typed'
  BY <1>1, TypesAre DEF Typed
<1> QED
  BY <1>1, <1>3, <1>4, <1>5, <1>6, <1>7, TypesAre, TransactionKeeps

\* A top-up is claimed, entered in the ledger and recorded in one transaction.
LEMMA CreditKeeps ==
  ASSUME IInv, NEW c \in Calls, Credit(c)
  PROVE  IInv'
<1> DEFINE r == call[c].row
           t == call[c].doc
           o == call[c].outcome
           credits == o \in {"TOPUP_CREDITED", "TOPUP_CREDITED_REVIEW"}
<1>1. /\ r \in Rows /\ bank[r] # None /\ t \in 0..TopUps
      /\ o \in {"NO_INVOICE", "TOPUP_HELD", "TOPUP_CREDITED", "TOPUP_CREDITED_REVIEW"}
      /\ credits => t # 0
  BY DEF IInv, CarriesSense, Credit, At
<1>2. /\ Goto(c, Idle) /\ UNCHANGED <<bank, subscription>>
      /\ invoices' = invoices /\ units' = units /\ paidThrough' = paidThrough /\ bank' = bank
  BY DEF Credit, subscription
<1>3. t \in 0..Len(invoices) \cup Intents
  BY <1>1, TypesAre, TermsAssumption
<1>4. CASE ~Unrecorded(r)
  BY <1>2, <1>4, NothingDone DEF Credit
<1>5. CASE Unrecorded(r) /\ credits /\ Unclaimed(t)
  <2>1. /\ intents' = [intents EXCEPT ![t] = r] /\ topups' = topups \cup {<<r, t>>}
        /\ Record(r, o, t, "")
    BY <1>5 DEF Credit
  <2>2. t \in Intents
    BY <1>1, <1>5, TermsAssumption
  <2> HIDE DEF r, t, o
  <2> QED
    BY <1>1, <1>2, <1>5, <2>1, <2>2, NotesAre, CreditOnce
<1>6. CASE Unrecorded(r) /\ ~(credits /\ Unclaimed(t))
  <2> DEFINE p == IF credits THEN "TOPUP_HELD" ELSE o
  <2>1. Record(r, p, t, "") /\ UNCHANGED balance
    BY <1>6 DEF Credit
  <2>2. p \in {"UNDERPAID", "INVOICE_NOT_OPEN", "NO_INVOICE", "TOPUP_HELD"} /\ p # "UNDERPAID"
    BY <1>1
  <2> HIDE DEF p, r, t, o
  <2> QED
    BY <1>1, <1>2, <1>3, <1>6, <2>1, <2>2, NotesAre, RecordOnly
<1> QED
  BY <1>4, <1>5, <1>6

\* A new invoice is open and nobody has paid it.
LEMMA OpenInvoiceKeeps ==
  ASSUME IInv, NEW c \in Calls, OpenInvoice(c)
  PROVE  IInv'
<1> DEFINE r == call[c]
           replaced == OpenOf(r.old)
           e(i) == IF i \in replaced THEN [invoices[i] EXCEPT !.status = "VOID"] ELSE invoices[i]
           voided == [i \in DOMAIN invoices |-> e(i)]
           new == [kind |-> r.kind, months |-> r.months, end |-> r.end,
                   status |-> "OPEN", ref |-> None, source |-> None]
<1>1. r.kind \in {"RENEWAL", "ADDON"} /\ r.months \in Nat /\ r.end \in Nat
  BY DEF IInv, CarriesSense, OpenInvoice, At
<1>2. UNCHANGED <<bank, payments, paidThrough, units, balance>> /\ Goto(c, Idle)
  BY DEF OpenInvoice
<1>3. new \in Invoice /\ new.status = "OPEN" /\ new.source = None
  BY <1>1, RowsAreReferences DEF Invoice
<1>4. /\ DOMAIN invoices = 1..Len(invoices) /\ Len(invoices) \in Nat
      /\ \A i \in 1..Len(invoices) : invoices[i] \in Invoice
  BY TypesAre
<1>5. \A i \in 1..Len(invoices) :
        /\ e(i) \in Invoice /\ e(i).kind = invoices[i].kind /\ e(i).ref = invoices[i].ref
        /\ e(i).source = invoices[i].source
        /\ e(i) = invoices[i] \/ (invoices[i].status = "OPEN" /\ e(i).status = "VOID")
  <2> TAKE i \in 1..Len(invoices)
  <2>1. invoices[i] \in Invoice
    BY <1>4
  <2>2. CASE i \in replaced
    <3>1. invoices[i].status = "OPEN"
      BY <2>2 DEF OpenOf
    <3>2. e(i) = [invoices[i] EXCEPT !.status = "VOID"]
      BY <2>2
    <3> HIDE DEF e
    <3> QED
      BY <2>1, <3>1, <3>2 DEF Invoice
  <2>3. CASE i \notin replaced
    <3>1. e(i) = invoices[i]
      BY <2>3
    <3> HIDE DEF e
    <3> QED
      BY <2>1, <3>1
  <2> QED
    BY <2>2, <2>3
<1> HIDE DEF e, new
<1>6. /\ voided \in Seq(Invoice) /\ Len(voided) = Len(invoices)
      /\ \A i \in 1..Len(invoices) : voided[i] = e(i)
  BY <1>4, <1>5
<1>7. invoices' = Append(voided, new) \/ invoices' = invoices
  BY DEF OpenInvoice, e, new
<1> HIDE DEF voided
<1>8. CASE invoices' = Append(voided, new)
  <2>1. /\ invoices' \in Seq(Invoice) /\ Len(invoices') = Len(invoices) + 1
        /\ \A i \in 1..Len(invoices) : invoices'[i] = e(i)
        /\ invoices'[Len(invoices) + 1] = new
    BY <1>3, <1>6, <1>8, AppendProperties
  <2>2. Unpaid(invoices, invoices')
    BY <1>3, <1>4, <1>5, <2>1 DEF Unpaid
  <2> QED
    BY <1>2, <2>1, <2>2, InvoicesOnly
<1>9. CASE invoices' = invoices
  <2>1. UNCHANGED <<bank, payments, subscription, balance>>
    BY <1>2, <1>9 DEF subscription
  <2> QED
    BY <1>2, <2>1, NothingDone
<1> QED
  BY <1>7, <1>8, <1>9

\* An invoice is voided only while it is open, so that no line names it as paid.
LEMMA VoidInvoiceKeeps ==
  ASSUME IInv, NEW i \in DOMAIN invoices, VoidInvoice(i)
  PROVE  IInv'
<1> DEFINE e == [invoices[i] EXCEPT !.status = "VOID"]
<1>1. i \in 1..Len(invoices) /\ invoices[i] \in Invoice /\ invoices \in Seq(Invoice)
  BY TypesAre DEF Typed
<1>2. /\ e \in Invoice /\ e.kind = invoices[i].kind /\ e.ref = invoices[i].ref
      /\ e.source = invoices[i].source /\ e.status = "VOID"
  BY <1>1 DEF Invoice
<1>3. invoices' = [invoices EXCEPT ![i] = e] /\ invoices[i].status = "OPEN"
  BY DEF VoidInvoice
<1> HIDE DEF e
<1>4. /\ invoices' \in Seq(Invoice) /\ Len(invoices') = Len(invoices)
      /\ \A j \in 1..Len(invoices) : invoices'[j] = IF j = i THEN e ELSE invoices[j]
  BY <1>1, <1>2, <1>3, ExceptSeq
<1>5. Unpaid(invoices, invoices')
  <2>1. \A j \in 1..Len(invoices) :
          /\ invoices'[j].kind = invoices[j].kind /\ invoices'[j].ref = invoices[j].ref
          /\ invoices'[j].source = invoices[j].source
          /\ invoices'[j] = invoices[j] \/ (invoices[j].status = "OPEN" /\ invoices'[j].status = "VOID")
    <3> TAKE j \in 1..Len(invoices)
    <3>1. CASE j = i
      <4>1. invoices'[j] = e
        BY <1>4, <3>1
      <4> QED
        BY <1>2, <1>3, <3>1, <4>1
    <3>2. CASE j # i
      <4>1. invoices'[j] = invoices[j]
        BY <1>4, <3>2
      <4> QED
        BY <4>1
    <3> QED
      BY <3>1, <3>2
  <2> QED
    BY <1>4, <2>1, TypesAre DEF Unpaid
<1>6. UNCHANGED <<bank, payments, paidThrough, units, balance>> /\ UNCHANGED call
  BY DEF VoidInvoice
<1> QED
  BY <1>4, <1>5, <1>6, InvoicesOnly

\* A row that arrives has no line yet.
LEMMA ArriveKeeps ==
  ASSUME IInv, NEW r \in Rows, NEW transfer \in Transfers, Arrive(r, transfer)
  PROVE  IInv'
<1>1. /\ bank[r] = None /\ transfer.codes \subseteq 0..Len(invoices)
      /\ bank' = [bank EXCEPT ![r] = transfer] /\ bank \in [Rows -> Transfers \cup {None}]
  BY DEF Arrive, IInv, Shapes
<1>2. /\ payments' = payments /\ invoices' = invoices /\ paidThrough' = paidThrough /\ units' = units
      /\ intents' = intents /\ topups' = topups /\ call' = call
  BY DEF Arrive, subscription, balance
<1>3. /\ bank' \in [Rows -> Transfers \cup {None}]
      /\ \A q \in Rows : bank[q] # None => bank'[q] # None
      /\ \A q \in Rows : bank'[q] # None => bank'[q].codes \subseteq 0..Len(invoices)
  BY <1>1 DEF IInv, Shapes
<1>4. LinesInv' /\ TopUpsInv' /\ UnitsArePaidFor'
  BY <1>2 DEF IInv, LinesInv, Pays, TopUpsInv, Credited, UnitsArePaidFor
<1>5. Len(invoices) \in Nat /\ Len(invoices) <= Len(invoices') /\ Len(invoices') \in Nat
  BY <1>2, TypesAre
<1>6. call' = [c \in Calls |-> call'[c]] /\ \A d \in Calls : CarriesSense(call[d])'
  <2>1. UNCHANGED call \/ \E c \in Calls : Goto(c, Idle)
    BY <1>2
  <2>2. Remain
    BY <1>2, <1>3 DEF Remain
  <2> QED
    BY <1>5, <2>1, <2>2, OthersKeep
<1>7. Shapes'
  BY <1>2, <1>3, <1>6 DEF IInv, Shapes
<1>8. Typed' /\ DocsExist'
  <2>1. DocsExist /\ Typed
    BY TypeOKIs, TypesAre DEF IInv
  <2> QED
    BY <1>2, <1>3, <2>1 DEF Typed, DocsExist
<1>9. TypeOK'
  BY <1>7, <1>8, TypeOKIs, PTL
<1> QED
  BY <1>4, <1>6, <1>7, <1>9 DEF IInv

\* A quote is only read.
LEMMA QuoteKeeps ==
  ASSUME IInv, NEW c \in Calls, NEW kind \in {"RENEWAL", "ADDON"}, NEW months \in Terms \cup {0},
         Quote(c, kind, months)
  PROVE  IInv'
<1>1. months \in Nat /\ paidThrough + months \in Nat
  BY TypesAre, TermsAssumption DEF Typed
<1>2. CarriesSense([op |-> "quoted", kind |-> kind, months |-> months, end |-> paidThrough + months])
  BY <1>1 DEF CarriesSense
<1> QED
  BY <1>2, RequestKeeps DEF Quote

\* A request that finds an open invoice ends and leaves it alone.
LEMMA FindOpenKeeps ==
  ASSUME IInv, NEW c \in Calls, FindOpen(c)
  PROVE  IInv'
<1> DEFINE r == call[c]
           k == [op |-> "open", kind |-> r.kind, months |-> r.months, end |-> r.end,
                 old |-> OpenOf(DOMAIN invoices)]
<1>1. Goto(c, Idle) \/ Goto(c, k)
  BY DEF FindOpen
<1>2. UNCHANGED <<bank, payments, subscription, balance>>
  BY DEF FindOpen
<1>3. r.kind \in {"RENEWAL", "ADDON"} /\ r.months \in Nat /\ r.end \in Nat
  BY DEF IInv, CarriesSense, FindOpen, At
<1>4. CarriesSense(k)
  BY <1>3 DEF CarriesSense
<1> HIDE DEF k
<1> QED
  BY <1>1, <1>2, <1>4, RequestKeeps, NothingDone

\* No request, no transaction, no arrival and no death breaks it.
LEMMA StepInductive == IInv /\ [Next]_vars => IInv'
<1> SUFFICES ASSUME IInv, [Next]_vars
             PROVE  IInv'
  OBVIOUS
<1>1. ASSUME NEW c \in Calls,
             \E kind \in {"RENEWAL", "ADDON"}, months \in Terms \cup {0} :
               (kind = "RENEWAL" => months \in Terms) /\ Quote(c, kind, months)
      PROVE  IInv'
  BY <1>1, QuoteKeeps
<1>2. ASSUME NEW c \in Calls, Sweep(c)
      PROVE  IInv'
  BY <1>2, JudgeKeeps, JudgeTopUpKeeps DEF Sweep
<1>3. ASSUME NEW c \in Calls, Operate(c)
      PROVE  IInv'
  BY <1>3, DismissRowKeeps, ResolveRowKeeps, ConfirmRowKeeps, MarkPaidKeeps DEF Operate
<1>4. ASSUME NEW c \in Calls, Commit(c)
      PROVE  IInv'
  BY <1>4, FindOpenKeeps, OpenInvoiceKeeps, MatchKeeps, CreditKeeps, ConfirmKeeps, DismissKeeps,
     ResolveKeeps, MarkKeeps
     DEF Commit
<1>5. ASSUME NEW c \in Calls, Die(c)
      PROVE  IInv'
  BY <1>5, NothingDone DEF Die
<1>6. ASSUME NEW i \in DOMAIN invoices, VoidInvoice(i)
      PROVE  IInv'
  BY <1>6, VoidInvoiceKeeps
<1>7. ASSUME NEW r \in Rows, NEW transfer \in Transfers, Arrive(r, transfer)
      PROVE  IInv'
  BY <1>7, ArriveKeeps
<1>8. CASE UNCHANGED vars
  <2>1. /\ bank' = bank /\ payments' = payments /\ invoices' = invoices /\ paidThrough' = paidThrough
        /\ units' = units /\ intents' = intents /\ topups' = topups /\ call' = call
    BY <1>8 DEF vars, subscription, balance
  <2>2. TypeOK' /\ Shapes'
    BY <2>1 DEF IInv, TypeOK, Shapes
  <2>3. LinesInv' /\ TopUpsInv' /\ UnitsArePaidFor'
    BY <2>1 DEF IInv, LinesInv, Pays, TopUpsInv, Credited, UnitsArePaidFor
  <2>4. \A c \in Calls : CarriesSense(call[c])'
    BY <2>1 DEF IInv, CarriesSense
  <2> QED
    BY <2>2, <2>3, <2>4 DEF IInv
<1> QED
  BY <1>1, <1>2, <1>3, <1>4, <1>5, <1>6, <1>7, <1>8 DEF Next

\* Nothing has arrived and nothing was asked.
LEMMA InitInductive == Init => IInv
<1> SUFFICES ASSUME Init
             PROVE  IInv
  OBVIOUS
<1>1. /\ bank = [r \in Rows |-> None] /\ payments = [r \in Rows |-> None]
      /\ invoices = <<>> /\ paidThrough = 0 /\ units = 0
      /\ intents = [t \in Intents |-> None] /\ topups = {}
      /\ call = [c \in Calls |-> Idle]
  BY DEF Init
<1>2. Len(invoices) = 0 /\ DOMAIN invoices = {} /\ invoices \in Seq(Invoice) /\ 1..Len(invoices) = {}
  BY <1>1
<1>3. Shapes /\ Typed /\ DocsExist
  BY <1>1, <1>2 DEF Shapes, Typed, DocsExist
<1>4. LinesInv
  BY <1>1, <1>2 DEF LinesInv, Pays
<1>5. TopUpsInv
  BY <1>1, NoneAssumption DEF TopUpsInv, Credited
<1>6. UnitsArePaidFor
  <2>1. {i \in DOMAIN invoices : invoices[i].kind = "ADDON" /\ invoices[i].status = "PAID"} = {}
    BY <1>2
  <2> QED
    BY <1>1, <2>1, FS_EmptySet DEF UnitsArePaidFor
<1>7. \A c \in Calls : CarriesSense(call[c])
  BY <1>1 DEF CarriesSense, Idle
<1> QED
  BY <1>3, <1>4, <1>5, <1>6, <1>7, TypeOKIs DEF IInv

\* The inductive invariant holds in every reachable state.
THEOREM Invariant == Spec => []IInv
  BY InitInductive, StepInductive, PTL DEF Spec

------------------------------------------------------------------------------
(* What became of a bank row is what its line says, although it was judged  *)
(* before the transaction that wrote it (service.ts:605-618,                *)
(* ai-balance.ts:270-300).                                                  *)
THEOREM LinesAreTrue == Spec => []RecordsAreTrue
<1>1. IInv => RecordsAreTrue
  <2> SUFFICES ASSUME IInv
               PROVE  RecordsAreTrue
    OBVIOUS
  <2>1. TypeOK /\ DOMAIN invoices = 1..Len(invoices)
    BY TypesAre DEF IInv
  <2>2. /\ \A r \in Rows :
             Pays(r) => /\ invoices[payments[r].doc].status = "PAID"
                        /\ invoices[payments[r].doc].ref = r
        /\ \A i \in DOMAIN invoices :
             invoices[i].source = "BANK" => Pays(invoices[i].ref) /\ payments[invoices[i].ref].doc = i
    BY <2>1 DEF IInv, LinesInv
  <2>3. \A r \in Rows, t \in Intents :
          LET credited == /\ payments[r] # None
                          /\ payments[r].outcome \in {"TOPUP_CREDITED", "TOPUP_CREDITED_REVIEW"}
                          /\ payments[r].doc = t
          IN (<<r, t>> \in topups <=> credited) /\ (credited <=> intents[t] = r)
    BY DEF IInv, TopUpsInv, Credited
  <2> QED
    BY <2>1, <2>2, <2>3 DEF RecordsAreTrue
<1> QED
  BY <1>1, Invariant, PTL

(* Each paid add-on counts once, whoever gets to it (service.ts:461-492).   *)
THEOREM QuotaIsPaidFor == Spec => []UnitsArePaidFor
<1>1. IInv => UnitsArePaidFor
  BY DEF IInv
<1> QED
  BY <1>1, Invariant, PTL

------------------------------------------------------------------------------
\* What SettledIsFinal says of one step.
Spares ==
  /\ \A i \in DOMAIN invoices : invoices[i].status # "OPEN" => invoices'[i] = invoices[i]
  /\ \A r \in Rows : payments[r] # None => LineStands(payments[r], payments'[r])

\* Paying an invoice spares those that are settled (applyInvoicePaid pays an open one).
LEMMA PaySpares ==
  ASSUME IInv, NEW i \in 1..Len(invoices), NEW ref \in References,
         NEW source \in {"BANK", "MANUAL"}, Payable(i), Pay(i, ref, source)
  PROVE  \A j \in DOMAIN invoices : invoices[j].status # "OPEN" => invoices'[j] = invoices[j]
  BY PayEffect, TypesAre DEF Payable

\* A new line spares those that are there.
LEMMA RecordSpares ==
  ASSUME IInv, NEW r \in Rows, NEW o, NEW d, NEW n, Unrecorded(r), Record(r, o, d, n)
  PROVE  \A q \in Rows : payments[q] # None => LineStands(payments[q], payments'[q])
  BY DEF IInv, Shapes, Unrecorded, Record, LineStands

\* So does leaving them alone.
LEMMA NothingSpares ==
  ASSUME payments' = payments
  PROVE  \A q \in Rows : payments[q] # None => LineStands(payments[q], payments'[q])
  BY DEF LineStands

\* What a transaction of a sweep or an operator writes spares what is settled.
LEMMA CommitSpares ==
  ASSUME IInv, NEW c \in Calls, Commit(c)
  PROVE  Spares
<1> DEFINE k == call[c]
<1>1. CASE FindOpen(c)
  BY <1>1, NothingSpares DEF FindOpen, subscription, Spares
<1>2. CASE OpenInvoice(c)
  <2> DEFINE r == call[c]
             replaced == OpenOf(r.old)
             e(i) == IF i \in replaced THEN [invoices[i] EXCEPT !.status = "VOID"] ELSE invoices[i]
             voided == [i \in DOMAIN invoices |-> e(i)]
             new == [kind |-> r.kind, months |-> r.months, end |-> r.end,
                     status |-> "OPEN", ref |-> None, source |-> None]
  <2>1. payments' = payments /\ (invoices' = Append(voided, new) \/ invoices' = invoices)
    BY <1>2 DEF OpenInvoice
  <2>2. /\ DOMAIN invoices = 1..Len(invoices) /\ Len(invoices) \in Nat
        /\ \A i \in 1..Len(invoices) : invoices[i].status # "OPEN" => e(i) = invoices[i]
    BY TypesAre DEF OpenOf
  <2> HIDE DEF e, new
  <2>3. voided \in Seq({e(i) : i \in 1..Len(invoices)}) /\ Len(voided) = Len(invoices)
        /\ \A i \in 1..Len(invoices) : voided[i] = e(i)
    BY <2>2
  <2> HIDE DEF voided
  <2>4. \A i \in 1..Len(invoices) : Append(voided, new)[i] = e(i)
    BY <2>2, <2>3
  <2> QED
    BY <2>1, <2>2, <2>4, NothingSpares DEF Spares
<1>3. CASE Match(c)
  <2>1. /\ k.row \in Rows /\ k.doc \in 0..Len(invoices) /\ (k.outcome = "MATCHED" => k.doc # 0)
    BY <1>3 DEF IInv, CarriesSense, Match, At
  <2>2. CASE UNCHANGED <<payments, subscription>>
    BY <2>2, NothingSpares DEF subscription, Spares
  <2>3. ASSUME Unrecorded(k.row), k.outcome = "MATCHED", Payable(k.doc), Pay(k.doc, k.row, "BANK"),
               Record(k.row, "MATCHED", k.doc, "")
        PROVE  Spares
    <3>1. k.doc \in 1..Len(invoices)
      <4>1. k.doc # 0 /\ k.doc \in 0..Len(invoices)
        BY <2>1, <2>3
      <4>2. Len(invoices) \in Nat
        BY TypesAre
      <4> QED
        BY <4>1, <4>2
    <3>2. \A j \in DOMAIN invoices : invoices[j].status # "OPEN" => invoices'[j] = invoices[j]
      BY <2>1, <2>3, <3>1, RowsAreReferences, PaySpares
    <3> QED
      BY <2>1, <2>3, <3>2, RecordSpares DEF Spares
  <2>4. ASSUME NEW o, Unrecorded(k.row), Record(k.row, o, k.doc, ""), UNCHANGED subscription
        PROVE  Spares
    BY <2>1, <2>4, RecordSpares DEF Spares, subscription
  <2> QED
    BY <1>3, <2>2, <2>3, <2>4 DEF Match
<1>4. CASE Credit(c)
  <2>1. k.row \in Rows /\ invoices' = invoices
    BY <1>4 DEF IInv, CarriesSense, Credit, At, subscription
  <2>2. ASSUME NEW o, Unrecorded(k.row), Record(k.row, o, k.doc, "")
        PROVE  Spares
    BY <2>1, <2>2, RecordSpares DEF Spares
  <2>3. CASE payments' = payments
    BY <2>1, <2>3, NothingSpares DEF Spares
  <2> QED
    BY <1>4, <2>2, <2>3 DEF Credit
<1>5. CASE Confirm(c)
  <2>1. k.row \in Rows /\ k.doc \in 1..Len(invoices)
    BY <1>5 DEF IInv, CarriesSense, Confirm, At
  <2>2. CASE UNCHANGED <<payments, subscription>>
    BY <2>2, NothingSpares DEF subscription, Spares
  <2>3. ASSUME NEW n, Unrecorded(k.row), Payable(k.doc), Pay(k.doc, k.row, "MANUAL"),
               Record(k.row, k.outcome, k.doc, n)
        PROVE  Spares
    BY <2>1, <2>3, RowsAreReferences, PaySpares, RecordSpares DEF Spares
  <2> QED
    BY <1>5, <2>2, <2>3 DEF Confirm
<1>6. CASE Dismiss(c)
  <2>1. k.row \in Rows /\ invoices' = invoices
    BY <1>6 DEF IInv, CarriesSense, Dismiss, At, subscription
  <2>2. ASSUME Unrecorded(k.row), Record(k.row, k.outcome, k.doc, "REASON")
        PROVE  Spares
    BY <2>1, <2>2, RecordSpares DEF Spares
  <2>3. CASE payments' = payments
    BY <2>1, <2>3, NothingSpares DEF Spares
  <2> QED
    BY <1>6, <2>2, <2>3 DEF Dismiss
<1>7. CASE Resolve(c)
  <2>1. invoices' = invoices
    BY <1>7 DEF Resolve, subscription
  <2>2. CASE Unresolved(k.row)
    <3>1. /\ k.row \in Rows /\ payments[k.row].note = ""
          /\ \A q \in Rows : /\ payments'[q] # None <=> payments[q] # None
                             /\ payments[q] # None => /\ payments'[q].outcome = payments[q].outcome
                                                      /\ payments'[q].doc = payments[q].doc
                             /\ q # k.row => payments'[q] = payments[q]
      BY <1>7, <2>2, ResolveEffect
    <3>2. payments[k.row].outcome # "MATCHED"
      BY <1>7 DEF IInv, CarriesSense, Resolve, At
    <3> QED
      BY <2>1, <3>1, <3>2 DEF Spares, LineStands
  <2>3. CASE ~Unresolved(k.row)
    BY <1>7, <2>1, <2>3, NothingSpares DEF Resolve, Spares
  <2> QED
    BY <2>2, <2>3
<1>8. CASE Mark(c)
  <2>1. k.row \in References /\ k.doc \in 1..Len(invoices) /\ payments' = payments
    BY <1>8 DEF IInv, CarriesSense, Mark, At
  <2>2. CASE UNCHANGED subscription
    BY <2>1, <2>2, NothingSpares DEF subscription, Spares
  <2>3. ASSUME Payable(k.doc), Pay(k.doc, k.row, "MANUAL")
        PROVE  Spares
    BY <2>1, <2>3, PaySpares, NothingSpares DEF Spares
  <2> QED
    BY <1>8, <2>2, <2>3 DEF Mark
<1> QED
  BY <1>1, <1>2, <1>3, <1>4, <1>5, <1>6, <1>7, <1>8 DEF Commit

\* So does every step.
LEMMA StepSpares == IInv /\ [Next]_vars => Spares
<1> SUFFICES ASSUME IInv, [Next]_vars
             PROVE  Spares
  OBVIOUS
<1>1. CASE payments' = payments /\ invoices' = invoices
  BY <1>1, NothingSpares DEF Spares
<1>2. ASSUME NEW i \in DOMAIN invoices, VoidInvoice(i)
      PROVE  Spares
  <2>1. payments' = payments /\ invoices[i].status = "OPEN"
    BY <1>2 DEF VoidInvoice
  <2>2. \A j \in DOMAIN invoices : j # i => invoices'[j] = invoices[j]
    BY <1>2 DEF VoidInvoice
  <2> QED
    BY <2>1, <2>2, NothingSpares DEF Spares
<1>3. ASSUME NEW c \in Calls, Commit(c)
      PROVE  Spares
  BY <1>3, CommitSpares
<1>4. ASSUME NEW c \in Calls, Sweep(c) \/ Operate(c) \/ Die(c)
      PROVE  payments' = payments /\ invoices' = invoices
  <2>1. CASE Sweep(c)
    BY <2>1 DEF Sweep, Judge, JudgeTopUp, Ask, subscription
  <2>2. CASE Operate(c)
    BY <2>2 DEF Operate, DismissRow, ResolveRow, ConfirmRow, MarkPaid, Ask, subscription
  <2>3. CASE Die(c)
    BY <2>3 DEF Die, subscription
  <2> QED
    BY <1>4, <2>1, <2>2, <2>3
<1>5. ASSUME NEW c \in Calls, NEW kind, NEW months, Quote(c, kind, months)
      PROVE  payments' = payments /\ invoices' = invoices
  BY <1>5 DEF Quote, subscription
<1>6. ASSUME NEW r, NEW transfer, Arrive(r, transfer)
      PROVE  payments' = payments /\ invoices' = invoices
  BY <1>6 DEF Arrive, subscription
<1>7. CASE UNCHANGED vars
  BY <1>1, <1>7 DEF vars, subscription
<1> QED
  BY <1>1, <1>2, <1>3, <1>4, <1>5, <1>6, <1>7 DEF Next

(* A paid or void invoice stays so; a line keeps its outcome and document,  *)
(* and its note once it has one, whichever requests are still under way     *)
(* (service.ts:461-492, 605-618, 1128-1135).                                *)
THEOREM SettledStays == Spec => SettledIsFinal
<1>1. IInv /\ [Next]_vars =>
        [/\ \A i \in DOMAIN invoices : invoices[i].status # "OPEN" => invoices'[i] = invoices[i]
         /\ \A r \in Rows : payments[r] # None => LineStands(payments[r], payments'[r])]_vars
  BY StepSpares DEF Spares
<1> QED
  BY <1>1, Invariant, PTL DEF Spec, SettledIsFinal
==============================================================================
