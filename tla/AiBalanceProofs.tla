--------------------------- MODULE AiBalanceProofs ---------------------------
(***************************************************************************)
(* What AiBalance guarantees for any customers, forms, price and plan, and  *)
(* for any number of conversations and operators at the same time.          *)
(*                                                                         *)
(* The argument: nobody is charged while the plan includes all that are    *)
(* counted, and each turn that may yet be charged has a price laid by for   *)
(* it; the cash is what came in, less refunds and less a price for each     *)
(* charge of cash that was not given back, so that what an operator checks  *)
(* bounds what is paid out except for the refunds of the others.            *)
(***************************************************************************)
EXTENDS AiBalance, FiniteSetTheorems, WellFoundedInduction, TLAPS

-----------------------------------------------------------------------------
(* Sums. A sum is a fold, whose recursive function is shown to be one that  *)
(* adds every element by taking the least set for which it were otherwise.  *)

Amounts(S) == \A x \in S : x.amount \in Int

\* F adds up the amounts of each subset of S, whatever element is taken out of it.
Additive(F, S) ==
  /\ Amounts(S)
  /\ F \in [SUBSET S -> Int]
  /\ F[{}] = 0
  /\ \A s \in SUBSET S : \A x \in s : F[s] = x.amount + F[s \ {x}]

\* Of a family of sets, not empty, of parts of a finite set there is a least one.
LEMMA LeastSet ==
  ASSUME NEW S, IsFiniteSet(S), NEW B, B \subseteq SUBSET S, B # {}
  PROVE  \E s \in B : \A r \in B : ~(r \subseteq s /\ r # s)
<1>1. IsWellFoundedOn(StrictSubsetOrdering(S), SUBSET S)
  BY FS_StrictSubsetOrderingWellFounded, FS_FiniteSubsetsOfFinite
<1>2. PICK s \in B : \A r \in B : ~(<<r, s>> \in StrictSubsetOrdering(S))
  <2> HIDE DEF StrictSubsetOrdering
  <2> QED
    BY <1>1, WFMin
<1>3. ASSUME NEW r \in B, r \subseteq s, r # s
      PROVE  <<r, s>> \in StrictSubsetOrdering(S)
  BY <1>3 DEF StrictSubsetOrdering
<1>4. \A r \in B : ~(r \subseteq s /\ r # s)
  BY <1>2, <1>3
<1> QED
  BY <1>4

\* One more element.
LEMMA AdditiveExtends ==
  ASSUME NEW S, NEW F, Additive(F, S), NEW e, e \notin S, e.amount \in Int
  PROVE  \E G : Additive(G, S \cup {e})
<1> DEFINE G == [s \in SUBSET (S \cup {e}) |->
                   IF e \in s THEN e.amount + F[s \ {e}] ELSE F[s]]
<1>1. G \in [SUBSET (S \cup {e}) -> Int]
  <2>1. ASSUME NEW s \in SUBSET (S \cup {e})
        PROVE  s \ {e} \in SUBSET S /\ (e \notin s => s \in SUBSET S)
    OBVIOUS
  <2> QED
    BY <2>1 DEF Additive
<1>2. G[{}] = 0
  BY DEF Additive
<1>3. ASSUME NEW s \in SUBSET (S \cup {e}), NEW x \in s
      PROVE  G[s] = x.amount + G[s \ {x}]
  <2>1. s \ {x} \in SUBSET (S \cup {e}) /\ s \ {e} \in SUBSET S
    OBVIOUS
  <2>2. CASE x = e
    <3>1. G[s \ {x}] = F[s \ {x}] /\ G[s] = e.amount + F[s \ {e}]
      BY <2>1, <2>2
    <3> QED
      BY <2>2, <3>1
  <2>3. CASE x # e /\ e \in s
    <3>1. x \in s \ {e} /\ (s \ {e}) \ {x} = (s \ {x}) \ {e}
      BY <2>3
    <3>2. F[s \ {e}] = x.amount + F[(s \ {x}) \ {e}]
      BY <2>1, <3>1 DEF Additive
    <3>3. G[s] = e.amount + F[s \ {e}] /\ G[s \ {x}] = e.amount + F[(s \ {x}) \ {e}]
      BY <2>1, <2>3
    <3>4. x.amount \in Int /\ F[(s \ {x}) \ {e}] \in Int
      <4>1. x \in S /\ (s \ {x}) \ {e} \in SUBSET S
        BY <2>3
      <4> QED
        BY <4>1 DEF Additive, Amounts
    <3> HIDE DEF G
    <3> QED
      BY <3>2, <3>3, <3>4
  <2>4. CASE e \notin s
    <3>1. s \in SUBSET S /\ s \ {x} \in SUBSET S
      BY <2>4
    <3>2. G[s] = F[s] /\ G[s \ {x}] = F[s \ {x}]
      BY <2>1, <2>4
    <3> QED
      BY <3>1, <3>2 DEF Additive
  <2> QED
    BY <2>2, <2>3, <2>4
<1>4. Amounts(S \cup {e})
  BY DEF Additive, Amounts
<1>5. Additive(G, S \cup {e})
  BY <1>1, <1>2, <1>3, <1>4 DEF Additive
<1> QED
  BY <1>5

\* A finite set of lines can be added up.
LEMMA AdditiveExists ==
  ASSUME NEW S, IsFiniteSet(S), Amounts(S)
  PROVE  \E F : Additive(F, S)
<1> DEFINE B == {s \in SUBSET S : ~ \E F : Additive(F, s)}
<1>1. SUFFICES ASSUME B # {}
               PROVE  FALSE
  BY <1>1
<1>2. PICK s \in B : \A r \in B : ~(r \subseteq s /\ r # s)
  <2>1. B \subseteq SUBSET S
    OBVIOUS
  <2> HIDE DEF B
  <2> QED
    BY <1>1, <2>1, LeastSet
<1>3. CASE s = {}
  <2>1. Additive([r \in SUBSET {} |-> 0], {})
    BY DEF Additive, Amounts
  <2> QED
    BY <1>3, <2>1
<1>4. CASE s # {}
  <2>1. PICK e \in s : TRUE
    BY <1>4
  <2>2. s \ {e} \notin B
    BY <1>2, <2>1
  <2>3. PICK F : Additive(F, s \ {e})
    BY <2>2
  <2>4. (s \ {e}) \cup {e} = s
    BY <2>1
  <2>5. \E G : Additive(G, (s \ {e}) \cup {e})
    BY <2>1, <2>3, AdditiveExtends DEF Amounts
  <2> QED
    BY <2>4, <2>5
<1> QED
  BY <1>3, <1>4

\* The element a fold begins with, and the recursive function of the sum over S.
First(s) == CHOOSE x \in s : TRUE
Step(F, S) == [s \in SUBSET S |-> IF s = {} THEN 0 ELSE First(s).amount + F[s \ {First(s)}]]

\* The sum is what every additive function says.
LEMMA SumIsAdditive ==
  ASSUME NEW S, IsFiniteSet(S), NEW F, Additive(F, S), NEW T, T \subseteq S
  PROVE  Sum(T) = F[T]
<1> DEFINE it == CHOOSE G : G = Step(G, T)
           H == [s \in SUBSET T |-> F[s]]
<1>1. Sum(T) = it[T]
  BY DEF Sum, MapThenSumSet, MapThenFoldSet, Step, First
<1>2. it = Step(it, T)
  <2>1. ASSUME NEW s \in SUBSET T, s # {}
        PROVE  F[s] = First(s).amount + F[s \ {First(s)}] /\ s \ {First(s)} \in SUBSET T
    BY <2>1 DEF Additive, First
  <2>2. F[{}] = 0
    BY DEF Additive
  <2>3. H = Step(H, T)
    BY <2>1, <2>2 DEF Step
  <2> HIDE DEF H
  <2> QED
    BY <2>3
<1> DEFINE B == {s \in SUBSET T : it[s] # F[s]}
<1>3. B = {}
  <2> HIDE DEF it
  <2>1. SUFFICES ASSUME B # {}
                 PROVE  FALSE
    OBVIOUS
  <2>2. PICK s \in B : \A r \in B : ~(r \subseteq s /\ r # s)
    <3>1. B \subseteq SUBSET T /\ IsFiniteSet(T)
      BY FS_Subset
    <3> HIDE DEF B
    <3> QED
      BY <2>1, <3>1, LeastSet
  <2>3. CASE s = {}
    BY <1>2, <2>2, <2>3 DEF Step, Additive
  <2>4. CASE s # {}
    <3>1. First(s) \in s /\ s \ {First(s)} \in SUBSET T
      BY <2>4 DEF First
    <3>2. it[s \ {First(s)}] = F[s \ {First(s)}]
      BY <2>2, <3>1
    <3>3. it[s] = First(s).amount + it[s \ {First(s)}]
      BY <1>2, <2>4 DEF Step
    <3>4. F[s] = First(s).amount + F[s \ {First(s)}]
      BY <3>1 DEF Additive
    <3> QED
      BY <2>2, <3>2, <3>3, <3>4
  <2> QED
    BY <2>3, <2>4
<1> QED
  BY <1>1, <1>3

\* Nothing adds up to nothing, and the sum of amounts is an amount.
LEMMA SumEmpty == Sum({}) = 0
<1>1. Additive([r \in SUBSET {} |-> 0], {})
  BY DEF Additive, Amounts
<1> QED
  BY <1>1, FS_EmptySet, SumIsAdditive

LEMMA SumType ==
  ASSUME NEW S, IsFiniteSet(S), Amounts(S)
  PROVE  Sum(S) \in Int
<1>1. PICK F : Additive(F, S)
  BY AdditiveExists
<1>2. Sum(S) = F[S]
  BY <1>1, SumIsAdditive
<1>3. F[S] \in Int
  BY <1>1 DEF Additive
<1> QED
  BY <1>2, <1>3

\* One more element adds its amount.
LEMMA SumAdd ==
  ASSUME NEW S, IsFiniteSet(S), Amounts(S), NEW e, e \notin S, e.amount \in Int
  PROVE  Sum(S \cup {e}) = Sum(S) + e.amount
<1>1. IsFiniteSet(S \cup {e}) /\ Amounts(S \cup {e})
  BY FS_AddElement DEF Amounts
<1>2. PICK F : Additive(F, S \cup {e})
  BY <1>1, AdditiveExists
<1>3. Sum(S \cup {e}) = F[S \cup {e}] /\ Sum(S) = F[S]
  BY <1>1, <1>2, SumIsAdditive
<1>4. (S \cup {e}) \ {e} = S
  OBVIOUS
<1>5. F[S \cup {e}] = e.amount + F[S] /\ F[S] \in Int
  BY <1>2, <1>4 DEF Additive
<1> QED
  BY <1>3, <1>5

\* Amounts of at most m add up to at most m for each.
LEMMA SumAtMost ==
  ASSUME NEW S, IsFiniteSet(S), NEW m \in Nat, \A x \in S : x.amount \in Int /\ x.amount <= m
  PROVE  Sum(S) <= Cardinality(S) * m
<1> DEFINE B == {s \in SUBSET S : ~(Sum(s) <= Cardinality(s) * m)}
<1>1. SUFFICES ASSUME B # {}
               PROVE  FALSE
  BY <1>1
<1>2. PICK s \in B : \A r \in B : ~(r \subseteq s /\ r # s)
  <2>1. B \subseteq SUBSET S
    OBVIOUS
  <2> HIDE DEF B
  <2> QED
    BY <1>1, <2>1, LeastSet
<1>3. CASE s = {}
  BY <1>2, <1>3, SumEmpty, FS_EmptySet
<1>4. CASE s # {}
  <2>1. PICK e \in s : TRUE
    BY <1>4
  <2> DEFINE r == s \ {e}
  <2>2. IsFiniteSet(s) /\ IsFiniteSet(r) /\ Cardinality(r) \in Nat
        /\ Cardinality(s) = Cardinality(r) + 1
    BY <2>1, FS_Subset, FS_RemoveElement, FS_CardinalityType
  <2>3. Sum(r) <= Cardinality(r) * m
    BY <1>2, <2>1
  <2>4. Sum(s) = Sum(r) + e.amount /\ Sum(r) \in Int
    <3>1. r \cup {e} = s /\ Amounts(r) /\ e \notin r /\ e.amount \in Int
      BY <2>1 DEF Amounts
    <3> HIDE DEF r
    <3> QED
      BY <2>2, <3>1, SumAdd, SumType
  <2>5. (Cardinality(r) + 1) * m = Cardinality(r) * m + m /\ Cardinality(r) * m \in Nat
    BY <2>2
  <2>6. e.amount \in Int /\ e.amount <= m
    BY <2>1
  <2>7. Sum(s) <= Cardinality(s) * m
    <3> HIDE DEF r
    <3> QED
      BY <2>2, <2>3, <2>4, <2>5, <2>6
  <2> QED
    BY <1>2, <2>7
<1> QED
  BY <1>3, <1>4

-----------------------------------------------------------------------------
(* The inductive invariant.                                                 *)

Keys == ({"charge", "reverse"} \X Customers) \cup ({"op"} \X {f.key : f \in Forms})
EntryTypes == {"TOPUP", "PROMO_CREDIT", "ADJUSTMENT", "REFUND", "AI_USAGE"}
Classes == {"CASH", "PROMO"}
Lines == [key : Keys, type : EntryTypes, cls : Classes, amount : Int, copy : {0}]

Answers == [pc : {"answer", "count", "charge"}, customer : Customers]
             \cup [pc : {"post"}, customer : Customers, cls : Classes]
Checked == [pc : {"post"}, form : {f \in Forms : f.kind = "REFUND"}]

Types ==
  /\ ledger \subseteq Lines /\ IsFiniteSet(ledger)
  /\ counted \subseteq Customers /\ IsFiniteSet(counted)
  /\ turn \in [Turns -> Answers \cup {None}]
  /\ refund \in [Operators -> Checked \cup {None}]
  /\ errors \in 0..MaxErrors

\* One line per key; what its amount may be; whom it may be about.
LineInv(e) ==
  /\ \A f \in ledger : f.key = e.key => f = e
  /\ e.key[1] = "charge" => e.amount = -Price /\ e.type # "REFUND" /\ e.key[2] \in counted
  /\ e.key[1] = "reverse" =>
        /\ e.amount = Price
        /\ e.type # "REFUND"
        /\ \E c \in Charges : c.key[2] = e.key[2]
  /\ e.type = "REFUND" => e.cls = "CASH" /\ e.amount < 0

\* A conversation that is metered is about a customer who is counted.
Metered(t) == In(t, "count") \/ In(t, "charge") \/ In(t, "post")
Metering == {t \in Turns : Metered(t)}
TurnInv(t) ==
  /\ Metered(t) => turn[t].customer \in counted
  /\ In(t, "charge") \/ In(t, "post") => Cardinality(counted) > Included

\* Nobody is charged for what the plan includes; beyond that, whoever is or may be
\* charged is a customer too many, or raced with the one that crossed the line.
MeterInv ==
  /\ Charges # {} => Cardinality(counted) > Included
  /\ Cardinality(counted) > Included =>
       Cardinality(Charges) + Cardinality(Metering)
         <= Cardinality(counted) - Included + Cardinality(Turns) - 1

\* What has come in, less what the AI has used, with one price laid by for each turn
\* that may yet be charged.
Kept == Total + Withdrawn(Classes)
Live == {t \in Turns : Metered(t) \/ (In(t, "answer") /\ turn[t].customer \notin counted)}
DebtInv ==
  /\ Total <= Kept
  /\ Charges = {} => Kept >= 0
  /\ Kept - Price * Cardinality(Live) >= -Price * (Cardinality(Turns) + errors)

\* Cash is what came in, less what was refunded, less the charges not given back,
\* less corrections.
CashLines == {e \in ledger : e.cls = "CASH"}
CashIn == {e \in ledger : e.key[1] = "op" /\ e.cls = "CASH" /\ e.amount > 0}
CashUsage == {e \in ledger : e.key[1] \in {"charge", "reverse"} /\ e.cls = "CASH"}
Unreversed == {e \in Charges : e.cls = "CASH" /\ \A r \in Reversals : r.key[2] # e.key[2]}
CashInv ==
  /\ Sum(CashLines) <= Sum(CashIn) + Sum(Refunds) + Sum(CashUsage)
  /\ Sum(CashUsage) <= -Price * Cardinality(Unreversed)

\* Whichever of the refunds that are under way are paid out after all: together with those
\* that have been, they exceed what came in by at most the largest for each operator but one.
Pending == {o \in Operators : refund[o] # None}
AskedOf(r, Q) == {[slot |-> o, amount |-> r[o].form.amount] : o \in Q}
Asked(Q) == AskedOf(refund, Q)
Covers(m, Q) == (\A e \in Refunds : -e.amount <= m) /\ (\A a \in Asked(Q) : a.amount <= m)
RefundInv ==
  \A Q \in SUBSET Pending : \A m \in Nat :
    Covers(m, Q) =>
      Sum(Asked(Q)) - Sum(Refunds) <= Sum(CashIn) + (Cardinality(Operators) - 1) * m

IInv ==
  /\ Types
  /\ \A e \in ledger : LineInv(e)
  /\ \A t \in Turns : TurnInv(t)
  /\ MeterInv
  /\ DebtInv
  /\ CashInv
  /\ RefundInv

-----------------------------------------------------------------------------
(* What a step does to the ledger.                                          *)

Added(l) == (\A e \in ledger : e.key # l.key) /\ ledger' = ledger \cup {l}
Entry(key, type, cls, amount) ==
  [key |-> key, type |-> type, cls |-> cls, amount |-> amount, copy |-> 0]

\* A line is added, or its key is taken and nothing is written.
LEMMA PostCases ==
  ASSUME NEW key, NEW type, NEW cls, NEW amount, Post(key, type, cls, amount)
  PROVE  UNCHANGED ledger \/ Added(Entry(key, type, cls, amount))
<1>1. CASE Posted(key)
  BY <1>1 DEF Post
<1>2. CASE ~Posted(key)
  <2>1. LinesOf(key) = {}
    BY <1>2 DEF Posted
  <2>2. Line(key, type, cls, amount) = Entry(key, type, cls, amount)
    BY <2>1, FS_EmptySet DEF Line, Entry
  <2>3. \A e \in ledger : e.key # Entry(key, type, cls, amount).key
    BY <2>1 DEF LinesOf, Entry
  <2> QED
    BY <1>2, <2>2, <2>3 DEF Post, Added
<1> QED
  BY <1>1, <1>2

\* The lines there are, by who writes them.
LEMMA EntryTypeOK ==
  /\ \A c \in Customers, cls \in Classes :
       /\ Entry(<<"charge", c>>, "AI_USAGE", cls, -Price) \in Lines
       /\ Entry(<<"reverse", c>>, "ADJUSTMENT", cls, Price) \in Lines
  /\ \A f \in Forms :
       /\ f.kind # "REFUND" =>
            Entry(<<"op", f.key>>, TypeOf(f.kind), ClassOf(f.kind), f.amount) \in Lines
       /\ f.kind = "REFUND" => Entry(<<"op", f.key>>, "REFUND", "CASH", -f.amount) \in Lines
<1>1. Price \in Int /\ -Price \in Int
  BY PlanAssumption
<1>2. ASSUME NEW c \in Customers
      PROVE  <<"charge", c>> \in Keys /\ <<"reverse", c>> \in Keys
  BY DEF Keys
<1>3. ASSUME NEW f \in Forms
      PROVE  <<"op", f.key>> \in Keys
  BY DEF Keys
<1>4. ASSUME NEW f \in Forms
      PROVE  /\ f.amount \in Int /\ -f.amount \in Int
             /\ TypeOf(f.kind) \in EntryTypes /\ ClassOf(f.kind) \in Classes
  BY FormsAreForms DEF FormKinds, TypeOf, ClassOf, EntryTypes, Classes
<1> QED
  BY <1>1, <1>2, <1>3, <1>4 DEF Entry, Lines, EntryTypes, Classes

\* The customer of a line and who it is written for.
LEMMA KeyShape ==
  ASSUME NEW e \in Lines
  PROVE  /\ e.key = <<e.key[1], e.key[2]>>
         /\ e.key[1] \in {"charge", "reverse", "op"}
         /\ e.key[1] # "op" => e.key[2] \in Customers
         /\ e.amount \in Int /\ e.cls \in Classes
  BY DEF Lines, Keys

\* Sums over part of the ledger.
LEMMA SumOfPart ==
  ASSUME NEW S, S \subseteq Lines, IsFiniteSet(S), NEW A, A \subseteq S
  PROVE  /\ Sum(A) \in Int
         /\ \A l \in Lines : l \notin S => Sum(A \cup {l}) = Sum(A) + l.amount
<1>1. IsFiniteSet(A) /\ Amounts(A)
  BY FS_Subset DEF Amounts, Lines
<1>2. Sum(A) \in Int
  BY <1>1, SumType
<1>3. ASSUME NEW l \in Lines, l \notin S
      PROVE  Sum(A \cup {l}) = Sum(A) + l.amount
  <2>1. l \notin A /\ l.amount \in Int
    BY <1>3 DEF Lines
  <2> QED
    BY <1>1, <2>1, SumAdd
<1> QED
  BY <1>2, <1>3

Withdrawals == {e \in ledger : e.key[1] = "op" /\ e.amount < 0 /\ e.cls \in Classes}

\* Every sum of the invariant is a number.
LEMMA SumTypes ==
  ASSUME Types
  PROVE  /\ Total \in Int /\ Kept \in Int /\ Kept = Total - Sum(Withdrawals)
         /\ Sum(CashLines) \in Int /\ Sum(CashIn) \in Int
         /\ Sum(Refunds) \in Int /\ Sum(CashUsage) \in Int
<1>1. ledger \subseteq Lines /\ IsFiniteSet(ledger)
  BY DEF Types
<1>2. CashLines \subseteq ledger /\ CashIn \subseteq ledger /\ Refunds \subseteq ledger
      /\ CashUsage \subseteq ledger /\ Withdrawals \subseteq ledger
  BY DEF CashLines, CashIn, Refunds, CashUsage, Withdrawals
<1>3. Sum(CashLines) \in Int /\ Sum(CashIn) \in Int /\ Sum(Refunds) \in Int
      /\ Sum(CashUsage) \in Int /\ Sum(Withdrawals) \in Int /\ Sum(ledger) \in Int
  BY <1>1, <1>2, SumOfPart
<1>4. Withdrawn(Classes) = -Sum(Withdrawals)
  BY DEF Withdrawn, Withdrawals
<1> QED
  BY <1>3, <1>4 DEF Kept, Total

If(b, n) == IF b THEN n ELSE 0

\* What a new line adds to each of them.
LEMMA SumsGrow ==
  ASSUME Types, NEW l \in Lines, Added(l)
  PROVE  /\ Total' = Total + l.amount
         /\ Kept' = Kept + If(~(l.key[1] = "op" /\ l.amount < 0), l.amount)
         /\ Sum(CashLines)' = Sum(CashLines) + If(l.cls = "CASH", l.amount)
         /\ Sum(CashIn)' = Sum(CashIn) + If(l.key[1] = "op" /\ l.cls = "CASH" /\ l.amount > 0, l.amount)
         /\ Sum(Refunds)' = Sum(Refunds) + If(l.type = "REFUND", l.amount)
         /\ Sum(CashUsage)' = Sum(CashUsage)
              + If(l.key[1] \in {"charge", "reverse"} /\ l.cls = "CASH", l.amount)
<1>1. ledger \subseteq Lines /\ IsFiniteSet(ledger) /\ l \notin ledger /\ ledger' = ledger \cup {l}
      /\ l.amount \in Int /\ l.cls \in Classes
  BY DEF Types, Added, Lines
<1>2. ASSUME NEW A, A \subseteq ledger
      PROVE  Sum(A) \in Int /\ Sum(A \cup {l}) = Sum(A) + l.amount
  BY <1>1, <1>2, SumOfPart
<1>3. Total' = Total + l.amount
  BY <1>1, <1>2 DEF Total
<1>4. Sum(CashLines)' = Sum(CashLines) + If(l.cls = "CASH", l.amount)
  <2>1. CashLines' = IF l.cls = "CASH" THEN CashLines \cup {l} ELSE CashLines
    BY <1>1 DEF CashLines
  <2>2. CashLines \subseteq ledger
    BY DEF CashLines
  <2>3. Sum(CashLines \cup {l}) = Sum(CashLines) + l.amount /\ Sum(CashLines) \in Int
    BY <1>2, <2>2
  <2> QED
    BY <2>1, <2>3 DEF If
<1>5. Sum(CashIn)' = Sum(CashIn) + If(l.key[1] = "op" /\ l.cls = "CASH" /\ l.amount > 0, l.amount)
  <2>1. CashIn' = IF l.key[1] = "op" /\ l.cls = "CASH" /\ l.amount > 0 THEN CashIn \cup {l} ELSE CashIn
    BY <1>1 DEF CashIn
  <2>2. CashIn \subseteq ledger
    BY DEF CashIn
  <2>3. Sum(CashIn \cup {l}) = Sum(CashIn) + l.amount /\ Sum(CashIn) \in Int
    BY <1>2, <2>2
  <2> QED
    BY <2>1, <2>3 DEF If
<1>6. Sum(Refunds)' = Sum(Refunds) + If(l.type = "REFUND", l.amount)
  <2>1. Refunds' = IF l.type = "REFUND" THEN Refunds \cup {l} ELSE Refunds
    BY <1>1 DEF Refunds
  <2>2. Refunds \subseteq ledger
    BY DEF Refunds
  <2>3. Sum(Refunds \cup {l}) = Sum(Refunds) + l.amount /\ Sum(Refunds) \in Int
    BY <1>2, <2>2
  <2> QED
    BY <2>1, <2>3 DEF If
<1>7. Sum(CashUsage)' = Sum(CashUsage)
        + If(l.key[1] \in {"charge", "reverse"} /\ l.cls = "CASH", l.amount)
  <2>1. CashUsage' = IF l.key[1] \in {"charge", "reverse"} /\ l.cls = "CASH"
                       THEN CashUsage \cup {l} ELSE CashUsage
    BY <1>1 DEF CashUsage
  <2>2. CashUsage \subseteq ledger
    BY DEF CashUsage
  <2>3. Sum(CashUsage \cup {l}) = Sum(CashUsage) + l.amount /\ Sum(CashUsage) \in Int
    BY <1>2, <2>2
  <2> QED
    BY <2>1, <2>3 DEF If
<1>8. Kept' = Kept + If(~(l.key[1] = "op" /\ l.amount < 0), l.amount)
  <2>1. Withdrawals' = IF l.key[1] = "op" /\ l.amount < 0 THEN Withdrawals \cup {l} ELSE Withdrawals
    BY <1>1 DEF Withdrawals
  <2>2. Withdrawals \subseteq ledger
    BY DEF Withdrawals
  <2>3. Sum(Withdrawals)' = Sum(Withdrawals) + If(l.key[1] = "op" /\ l.amount < 0, l.amount)
        /\ Sum(Withdrawals) \in Int
    BY <1>2, <2>1, <2>2 DEF If
  <2>4. Kept = Total - Sum(Withdrawals) /\ Total \in Int
    BY SumTypes
  <2>5. Kept' = Total' - Sum(Withdrawals)'
    <3>1. Withdrawn(Classes)' = -Sum(Withdrawals)'
      BY DEF Withdrawn, Withdrawals
    <3>2. Sum(Withdrawals)' \in Int /\ Total' \in Int
      BY <1>1, <1>3, <2>3, <2>4 DEF If
    <3> QED
      BY <3>1, <3>2 DEF Kept
  <2> QED
    BY <1>1, <1>3, <2>3, <2>4, <2>5 DEF If
<1> QED
  BY <1>3, <1>4, <1>5, <1>6, <1>7, <1>8

-----------------------------------------------------------------------------
(* The invariant holds of the empty ledger.                                 *)

LEMMA InitInductive == Init => IInv
<1> SUFFICES ASSUME Init
             PROVE  IInv
  OBVIOUS
<1>1. ledger = {} /\ counted = {} /\ Cardinality(counted) = 0 /\ IsFiniteSet({})
  BY FS_EmptySet DEF Init
<1>2. Types
  BY <1>1, PlanAssumption DEF Init, Types
<1>3. Charges = {} /\ Refunds = {} /\ CashLines = {} /\ CashIn = {} /\ CashUsage = {}
      /\ Unreversed = {} /\ Withdrawals = {}
  BY <1>1 DEF Charges, Refunds, CashLines, CashIn, CashUsage, Unreversed, Withdrawals
<1>4. Metering = {} /\ Live = {} /\ Pending = {}
  BY DEF Init, Metering, Live, Metered, Pending, In, None
<1>5. Total = 0 /\ Kept = 0
  BY <1>1, <1>2, <1>3, SumEmpty, SumTypes DEF Total
<1>6. Cardinality(Turns) \in Nat /\ Cardinality(Operators) \in Nat /\ Cardinality(Operators) # 0
  BY SlotsAssumption, FS_CardinalityType, FS_EmptySet
<1>7. \A t \in Turns : TurnInv(t)
  BY DEF Init, TurnInv, Metered, In, None
<1>8. MeterInv
  BY <1>1, <1>3, PlanAssumption DEF MeterInv
<1>9. DebtInv
  <2>1. Cardinality(Live) = 0 /\ errors = 0 /\ Price * Cardinality(Turns) \in Nat
    BY <1>4, <1>6, FS_EmptySet, PlanAssumption DEF Init
  <2>2. Kept - Price * Cardinality(Live) = 0 /\ -Price * (Cardinality(Turns) + errors) <= 0
    BY <1>5, <1>6, <2>1, PlanAssumption
  <2> QED
    BY <1>5, <2>2 DEF DebtInv
<1>10. CashInv
  <2>1. Cardinality(Unreversed) = 0 /\ -Price * 0 = 0
    BY <1>3, FS_EmptySet, PlanAssumption
  <2> QED
    BY <1>3, <2>1, SumEmpty DEF CashInv
<1>11. RefundInv
  <2>1. ASSUME NEW Q \in SUBSET Pending, NEW m \in Nat
        PROVE  Sum(Asked(Q)) - Sum(Refunds) <= Sum(CashIn) + (Cardinality(Operators) - 1) * m
    <3>1. Asked(Q) = {}
      BY <1>4 DEF Asked, AskedOf
    <3>2. (Cardinality(Operators) - 1) * m \in Nat
      BY <1>6
    <3> QED
      BY <1>3, <3>1, <3>2, SumEmpty
  <2> QED
    BY <2>1 DEF RefundInv
<1> QED
  BY <1>1, <1>2, <1>7, <1>8, <1>9, <1>10, <1>11 DEF IInv

-----------------------------------------------------------------------------
(* Types and lines.                                                         *)

\* A line that is added keeps the ledger a finite set of lines.
LEMMA AddedTypes ==
  ASSUME Types, NEW l \in Lines, UNCHANGED ledger \/ Added(l)
  PROVE  (ledger \subseteq Lines)' /\ IsFiniteSet(ledger)'
  BY FS_AddElement DEF Types, Added

\* What each of the four writers adds.
LEMMA WritersAdd ==
  ASSUME IInv
  PROVE  /\ \A t \in Turns : Charge(t) =>
              \E cls \in Classes :
                /\ turn[t].customer \in Customers
                /\ UNCHANGED ledger \/ Added(Entry(<<"charge", turn[t].customer>>, "AI_USAGE", cls, -Price))
         /\ \A f \in Forms : Adjust(f) =>
              UNCHANGED ledger \/ Added(Entry(<<"op", f.key>>, TypeOf(f.kind), ClassOf(f.kind), f.amount))
         /\ \A o \in Operators : Refund(o) =>
              /\ refund[o].form \in Forms /\ refund[o].form.kind = "REFUND"
              /\ UNCHANGED ledger
                  \/ Added(Entry(<<"op", refund[o].form.key>>, "REFUND", "CASH", -refund[o].form.amount))
         /\ \A e \in ledger : Reverse(e) =>
              /\ e \in Charges /\ e.key[2] \in Customers
              /\ UNCHANGED ledger \/ Added(Entry(<<"reverse", e.key[2]>>, "ADJUSTMENT", e.cls, Price))
<1>1. ASSUME NEW t \in Turns, Charge(t)
      PROVE  \E cls \in Classes :
               /\ turn[t].customer \in Customers
               /\ UNCHANGED ledger \/ Added(Entry(<<"charge", turn[t].customer>>, "AI_USAGE", cls, -Price))
  <2>1. turn[t].customer \in Customers /\ turn[t].cls \in Classes
    BY <1>1 DEF IInv, Types, Charge, In, Answers, None
  <2> QED
    BY <1>1, <2>1, PostCases DEF Charge
<1>2. ASSUME NEW f \in Forms, Adjust(f)
      PROVE  UNCHANGED ledger \/ Added(Entry(<<"op", f.key>>, TypeOf(f.kind), ClassOf(f.kind), f.amount))
  BY <1>2, PostCases DEF Adjust
<1>3. ASSUME NEW o \in Operators, Refund(o)
      PROVE  /\ refund[o].form \in Forms /\ refund[o].form.kind = "REFUND"
             /\ UNCHANGED ledger
                 \/ Added(Entry(<<"op", refund[o].form.key>>, "REFUND", "CASH", -refund[o].form.amount))
  <2>1. refund[o] \in Checked
    BY <1>3 DEF IInv, Types, Refund
  <2> QED
    BY <1>3, <2>1, PostCases DEF Refund, Checked
<1>4. ASSUME NEW e \in ledger, Reverse(e)
      PROVE  /\ e \in Charges /\ e.key[2] \in Customers
             /\ UNCHANGED ledger \/ Added(Entry(<<"reverse", e.key[2]>>, "ADJUSTMENT", e.cls, Price))
  <2>1. e \in Charges /\ e \in Lines /\ e.key[1] # "op"
    BY <1>4 DEF Reverse, Charges, IInv, Types
  <2>2. e.key[2] \in Customers
    BY <2>1, KeyShape
  <2>3. -e.amount = Price
    BY <2>1, PlanAssumption DEF IInv, LineInv, Charges
  <2> QED
    BY <1>4, <2>1, <2>2, <2>3, PostCases DEF Reverse
<1> QED
  BY <1>1, <1>2, <1>3, <1>4

\* Every step keeps the types.
LEMMA StepTypes == IInv /\ [Next]_vars => Types'
<1> SUFFICES ASSUME IInv, [Next]_vars
             PROVE  Types'
  OBVIOUS
<1>0. Types
  BY DEF IInv
<1>1. ASSUME NEW t \in Turns, NEW c \in Customers, Gate(t, c) \/ GateUnread(t, c)
      PROVE  Types'
  <2>1. errors' \in 0..MaxErrors /\ UNCHANGED <<ledger, counted, refund>>
    BY <1>0, <1>1, PlanAssumption DEF Gate, GateUnread, Types
  <2>2. turn' \in [Turns -> Answers \cup {None}]
    BY <1>0, <1>1 DEF Gate, GateUnread, Go, Types, Answers
  <2> QED
    BY <1>0, <2>1, <2>2 DEF Types
<1>2. ASSUME NEW t \in Turns, Record(t)
      PROVE  Types'
  <2>1. turn[t].customer \in Customers
    BY <1>0, <1>2 DEF Record, In, Types, Answers, None
  <2>2. turn' \in [Turns -> Answers \cup {None}]
    BY <1>0, <1>2, <2>1 DEF Record, Go, Types, Answers
  <2>3. (counted \subseteq Customers)' /\ IsFiniteSet(counted)' /\ UNCHANGED <<ledger, refund, errors>>
    BY <1>0, <1>2, <2>1, FS_AddElement DEF Record, Types
  <2> QED
    BY <1>0, <2>2, <2>3 DEF Types
<1>3. ASSUME NEW t \in Turns, Count(t) \/ ReadBalance(t) \/ GiveUp(t)
      PROVE  Types'
  <2>1. Count(t) \/ ReadBalance(t) => turn[t].customer \in Customers
    BY <1>0 DEF Count, ReadBalance, In, Types, Answers, None
  <2>2. fundsClass \in Classes
    BY DEF fundsClass, Classes
  <2>3. turn' \in [Turns -> Answers \cup {None}] /\ UNCHANGED <<ledger, counted, refund, errors>>
    BY <1>0, <1>3, <2>1, <2>2 DEF Count, ReadBalance, GiveUp, Go, Types, Answers
  <2> QED
    BY <1>0, <2>3 DEF Types
<1>4. ASSUME NEW t \in Turns, Charge(t)
      PROVE  Types'
  <2>1. (ledger \subseteq Lines)' /\ IsFiniteSet(ledger)'
    BY <1>0, <1>4, WritersAdd, EntryTypeOK, AddedTypes
  <2>2. turn' \in [Turns -> Answers \cup {None}] /\ UNCHANGED <<counted, refund, errors>>
    BY <1>0, <1>4 DEF Charge, Go, Types
  <2> QED
    BY <1>0, <2>1, <2>2 DEF Types
<1>5. ASSUME NEW f \in Forms, Adjust(f)
      PROVE  Types'
  <2>1. (ledger \subseteq Lines)' /\ IsFiniteSet(ledger)'
    <3>1. f.kind # "REFUND"
      BY <1>5 DEF Adjust
    <3> QED
      BY <1>0, <1>5, <3>1, WritersAdd, EntryTypeOK, AddedTypes
  <2> QED
    BY <1>0, <1>5, <2>1 DEF Adjust, Types
<1>6. ASSUME NEW f \in Forms, NEW o \in Operators, CheckRefund(o, f)
      PROVE  Types'
  BY <1>0, <1>6 DEF CheckRefund, Types, Checked
<1>7. ASSUME NEW o \in Operators, Refund(o) \/ RefundDies(o)
      PROVE  Types'
  <2>1. (ledger \subseteq Lines)' /\ IsFiniteSet(ledger)'
    <3>1. CASE RefundDies(o)
      BY <1>0, <3>1 DEF RefundDies, Types
    <3>2. CASE Refund(o)
      BY <1>0, <3>2, WritersAdd, EntryTypeOK, AddedTypes
    <3> QED
      BY <1>7, <3>1, <3>2
  <2> QED
    BY <1>0, <1>7, <2>1 DEF Refund, RefundDies, Types
<1>8. ASSUME NEW e \in ledger, Reverse(e)
      PROVE  Types'
  <2>1. e.cls \in Classes
    BY <1>0 DEF Types, Lines
  <2>2. (ledger \subseteq Lines)' /\ IsFiniteSet(ledger)'
    BY <1>0, <1>8, <2>1, WritersAdd, EntryTypeOK, AddedTypes
  <2> QED
    BY <1>0, <1>8, <2>2 DEF Reverse, Types
<1>9. CASE UNCHANGED vars
  BY <1>0, <1>9 DEF vars, Types
<1> QED
  BY <1>1, <1>2, <1>3, <1>4, <1>5, <1>6, <1>7, <1>8, <1>9 DEF Next

\* A line stays what it is while the ledger and the count grow.
LEMMA LinesKept ==
  ASSUME IInv, counted \subseteq counted', UNCHANGED ledger
  PROVE  \A e \in ledger' : LineInv(e)'
  BY DEF IInv, LineInv, Charges

\* A new line has a key of its own, and the others stay what they are.
LEMMA LinesAdded ==
  ASSUME IInv, counted \subseteq counted', NEW l, Added(l),
         l.key[1] = "charge" => l.amount = -Price /\ l.type # "REFUND" /\ l.key[2] \in counted,
         l.key[1] = "reverse" => /\ l.amount = Price /\ l.type # "REFUND"
                                 /\ \E c \in Charges : c.key[2] = l.key[2],
         l.type = "REFUND" => l.cls = "CASH" /\ l.amount < 0
  PROVE  \A e \in ledger' : LineInv(e)'
<1>1. ledger' = ledger \cup {l} /\ (\A e \in ledger : e.key # l.key)
  BY DEF Added
<1>2. Charges \subseteq Charges'
  BY <1>1 DEF Charges
<1>3. ASSUME NEW e \in ledger
      PROVE  LineInv(e)'
  <2>1. LineInv(e)
    BY DEF IInv
  <2>2. \A f \in ledger' : f.key = e.key => f = e
    BY <1>1, <2>1 DEF LineInv
  <2> QED
    BY <1>2, <2>1, <2>2 DEF LineInv
<1>4. LineInv(l)'
  <2>1. \A f \in ledger' : f.key = l.key => f = l
    BY <1>1
  <2> QED
    BY <1>2, <2>1 DEF LineInv
<1> QED
  BY <1>1, <1>3, <1>4

\* Every step keeps what holds of the lines.
LEMMA StepLines == IInv /\ [Next]_vars => (\A e \in ledger : LineInv(e))'
<1> SUFFICES ASSUME IInv, [Next]_vars
             PROVE  \A e \in ledger' : LineInv(e)'
  OBVIOUS
<1>1. ASSUME NEW t \in Turns, NEW c \in Customers, Gate(t, c) \/ GateUnread(t, c)
      PROVE  \A e \in ledger' : LineInv(e)'
  BY <1>1, LinesKept DEF Gate, GateUnread
<1>2. ASSUME NEW t \in Turns, Charge(t)
      PROVE  \A e \in ledger' : LineInv(e)'
  <2>1. PICK cls \in Classes :
          UNCHANGED ledger \/ Added(Entry(<<"charge", turn[t].customer>>, "AI_USAGE", cls, -Price))
    BY <1>2, WritersAdd
  <2>2. turn[t].customer \in counted /\ UNCHANGED counted
    BY <1>2 DEF IInv, TurnInv, Metered, Charge
  <2>3. CASE UNCHANGED ledger
    BY <2>2, <2>3, LinesKept
  <2>4. CASE Added(Entry(<<"charge", turn[t].customer>>, "AI_USAGE", cls, -Price))
    <3> DEFINE l == Entry(<<"charge", turn[t].customer>>, "AI_USAGE", cls, -Price)
    <3>1. l.key[1] = "charge" /\ l.key[2] = turn[t].customer /\ l.amount = -Price /\ l.type = "AI_USAGE"
      BY DEF Entry
    <3> HIDE DEF l
    <3> QED
      BY <2>2, <2>4, <3>1, LinesAdded DEF l
  <2> QED
    BY <2>1, <2>3, <2>4
<1>3. ASSUME NEW f \in Forms, Adjust(f)
      PROVE  \A e \in ledger' : LineInv(e)'
  <2> DEFINE l == Entry(<<"op", f.key>>, TypeOf(f.kind), ClassOf(f.kind), f.amount)
  <2>1. l.key[1] = "op" /\ l.type # "REFUND"
    BY <1>3 DEF Entry, Adjust, TypeOf
  <2>2. UNCHANGED counted /\ (UNCHANGED ledger \/ Added(l))
    BY <1>3, WritersAdd DEF Adjust
  <2> HIDE DEF l
  <2> QED
    BY <2>1, <2>2, LinesKept, LinesAdded
<1>4. ASSUME NEW o \in Operators, Refund(o)
      PROVE  \A e \in ledger' : LineInv(e)'
  <2> DEFINE l == Entry(<<"op", refund[o].form.key>>, "REFUND", "CASH", -refund[o].form.amount)
  <2>1. refund[o].form.amount \in Int /\ refund[o].form.amount > 0
    BY <1>4, WritersAdd, FormsAreForms
  <2>2. l.key[1] = "op" /\ l.cls = "CASH" /\ l.amount < 0
    BY <2>1 DEF Entry
  <2>3. UNCHANGED counted /\ (UNCHANGED ledger \/ Added(l))
    BY <1>4, WritersAdd DEF Refund
  <2> HIDE DEF l
  <2> QED
    BY <2>2, <2>3, LinesKept, LinesAdded
<1>5. ASSUME NEW e \in ledger, Reverse(e)
      PROVE  \A x \in ledger' : LineInv(x)'
  <2> DEFINE l == Entry(<<"reverse", e.key[2]>>, "ADJUSTMENT", e.cls, Price)
  <2>1. l.key[1] = "reverse" /\ l.key[2] = e.key[2] /\ l.amount = Price /\ l.type = "ADJUSTMENT"
    BY DEF Entry
  <2>2. e \in Charges /\ UNCHANGED counted /\ (UNCHANGED ledger \/ Added(l))
    BY <1>5, WritersAdd DEF Reverse
  <2> HIDE DEF l
  <2> QED
    BY <2>1, <2>2, LinesKept, LinesAdded
<1>6. ASSUME NEW f \in Forms, NEW o \in Operators, CheckRefund(o, f)
      PROVE  \A e \in ledger' : LineInv(e)'
  BY <1>6, LinesKept DEF CheckRefund
<1>7. ASSUME NEW o \in Operators, RefundDies(o)
      PROVE  \A e \in ledger' : LineInv(e)'
  BY <1>7, LinesKept DEF RefundDies
<1>8. CASE UNCHANGED vars
  BY <1>8, LinesKept DEF vars
<1>9. ASSUME NEW t \in Turns, Record(t) \/ Count(t) \/ ReadBalance(t) \/ GiveUp(t)
      PROVE  \A e \in ledger' : LineInv(e)'
  BY <1>9, LinesKept DEF Record, Count, ReadBalance, GiveUp
<1> QED
  BY <1>1, <1>2, <1>3, <1>4, <1>5, <1>6, <1>7, <1>8, <1>9 DEF Next

-----------------------------------------------------------------------------
(* Conversations.                                                           *)

\* How a step leaves the other turns alone.
LEMMA OtherTurns ==
  ASSUME Types, NEW t \in Turns, NEW r, Go(t, r)
  PROVE  /\ turn'[t] = r
         /\ \A u \in Turns : u # t => turn'[u] = turn[u]
  BY DEF Types, Go

\* The count never falls.
LEMMA CountGrows ==
  ASSUME Types, [Next]_vars
  PROVE  /\ counted \subseteq counted'
         /\ Cardinality(counted) \in Nat
         /\ Cardinality(counted)' \in Nat /\ Cardinality(counted)' >= Cardinality(counted)
<1>1. counted \subseteq counted' /\ IsFiniteSet(counted) /\ IsFiniteSet(counted')
  <2>1. \E c : counted' = counted \cup {c} \/ counted' = counted
    BY DEF Next, Gate, GateUnread, Record, Count, ReadBalance, Charge, GiveUp, Adjust, CheckRefund,
           Refund, RefundDies, Reverse, vars
  <2> QED
    BY <2>1, FS_AddElement DEF Types
<1> QED
  BY <1>1, FS_Subset, FS_CardinalityType

\* Every step keeps what holds of the turns.
LEMMA StepTurns == IInv /\ [Next]_vars => (\A t \in Turns : TurnInv(t))'
<1> SUFFICES ASSUME IInv, [Next]_vars
             PROVE  \A u \in Turns : TurnInv(u)'
  OBVIOUS
<1>0. Types /\ (\A u \in Turns : TurnInv(u)) /\ Included \in Nat
  BY PlanAssumption DEF IInv
<1>1. counted \subseteq counted' /\ Cardinality(counted) \in Nat
      /\ Cardinality(counted)' \in Nat /\ Cardinality(counted)' >= Cardinality(counted)
  BY <1>0, CountGrows
<1>2. ASSUME NEW u \in Turns, turn'[u] = turn[u]
      PROVE  TurnInv(u)'
  <2>1. TurnInv(u)
    BY <1>0
  <2> QED
    BY <1>0, <1>1, <1>2, <2>1 DEF TurnInv, Metered, In
<1>3. ASSUME NEW t \in Turns, NEW r, Go(t, r), r.pc \in {"none", "answer"}
      PROVE  \A u \in Turns : TurnInv(u)'
  <2>1. TurnInv(t)'
    BY <1>0, <1>3, OtherTurns DEF TurnInv, Metered, In
  <2> QED
    BY <1>0, <1>2, <1>3, <2>1, OtherTurns
<1>4. ASSUME NEW t \in Turns, NEW c \in Customers, Gate(t, c) \/ GateUnread(t, c)
      PROVE  \A u \in Turns : TurnInv(u)'
  BY <1>3, <1>4 DEF Gate, GateUnread
<1>5. ASSUME NEW t \in Turns, Record(t)
      PROVE  \A u \in Turns : TurnInv(u)'
  <2>1. CASE turn[t].customer \in counted
    BY <1>3, <1>5, <2>1 DEF Record, None
  <2>2. CASE turn[t].customer \notin counted
    <3>1. turn'[t] = [pc |-> "count", customer |-> turn[t].customer] /\ turn[t].customer \in counted'
      BY <1>0, <1>5, <2>2, OtherTurns DEF Record
    <3>2. TurnInv(t)'
      BY <3>1 DEF TurnInv, Metered, In
    <3> QED
      BY <1>0, <1>2, <1>5, <2>2, <3>2, OtherTurns DEF Record
  <2> QED
    BY <2>1, <2>2
<1>6. ASSUME NEW t \in Turns, Count(t)
      PROVE  \A u \in Turns : TurnInv(u)'
  <2>1. CASE WithinIncluded(Cardinality(counted))
    BY <1>3, <1>6, <2>1 DEF Count, None
  <2>2. CASE ~WithinIncluded(Cardinality(counted))
    <3>1. turn'[t] = [pc |-> "charge", customer |-> turn[t].customer] /\ UNCHANGED counted
          /\ turn[t].customer \in counted /\ Cardinality(counted) > Included
      BY <1>0, <1>1, <1>6, <2>2, OtherTurns DEF Count, WithinIncluded, TurnInv, Metered
    <3>2. TurnInv(t)'
      BY <3>1 DEF TurnInv, Metered, In
    <3> QED
      BY <1>0, <1>2, <1>6, <2>2, <3>2, OtherTurns DEF Count
  <2> QED
    BY <2>1, <2>2
<1>7. ASSUME NEW t \in Turns, ReadBalance(t)
      PROVE  \A u \in Turns : TurnInv(u)'
  <2>1. turn'[t] = [pc |-> "post", customer |-> turn[t].customer, cls |-> fundsClass] /\ UNCHANGED counted
        /\ turn[t].customer \in counted /\ Cardinality(counted) > Included
    BY <1>0, <1>7, OtherTurns DEF ReadBalance, TurnInv, Metered
  <2>2. TurnInv(t)'
    BY <2>1 DEF TurnInv, Metered, In
  <2> QED
    BY <1>0, <1>2, <1>7, <2>2, OtherTurns DEF ReadBalance
<1>8. ASSUME NEW t \in Turns, Charge(t) \/ GiveUp(t)
      PROVE  \A u \in Turns : TurnInv(u)'
  BY <1>3, <1>8 DEF Charge, GiveUp, None
<1>9. CASE UNCHANGED turn
  BY <1>2, <1>9
<1> QED
  BY <1>4, <1>5, <1>6, <1>7, <1>8, <1>9 DEF Next, Adjust, CheckRefund, Refund, RefundDies, Reverse, vars

\* The sets that are counted are finite.
LEMMA Finite ==
  ASSUME Types
  PROVE  /\ IsFiniteSet(Charges) /\ Cardinality(Charges) \in Nat
         /\ IsFiniteSet(Unreversed) /\ Cardinality(Unreversed) \in Nat
         /\ IsFiniteSet(Metering) /\ Cardinality(Metering) \in Nat
         /\ IsFiniteSet(Live) /\ Cardinality(Live) \in Nat
         /\ Cardinality(counted) \in Nat
         /\ Cardinality(Turns) \in Nat /\ Cardinality(Turns) >= 1
         /\ Cardinality(Metering) <= Cardinality(Turns)
         /\ Cardinality(Live) <= Cardinality(Turns)
<1>1. Charges \subseteq ledger /\ Unreversed \subseteq ledger /\ Metering \subseteq Turns /\ Live \subseteq Turns
  BY DEF Charges, Unreversed, Metering, Live
<1>2. IsFiniteSet(ledger) /\ IsFiniteSet(counted) /\ IsFiniteSet(Turns) /\ Turns # {}
  BY SlotsAssumption DEF Types
<1>3. Cardinality(Turns) \in Nat /\ Cardinality(Turns) # 0
  BY <1>2, FS_CardinalityType, FS_EmptySet
<1>4. IsFiniteSet(Charges) /\ IsFiniteSet(Unreversed) /\ IsFiniteSet(Metering) /\ IsFiniteSet(Live)
      /\ Cardinality(Metering) <= Cardinality(Turns) /\ Cardinality(Live) <= Cardinality(Turns)
  BY <1>1, <1>2, FS_Subset
<1> QED
  BY <1>2, <1>3, <1>4, FS_CardinalityType

\* A set with an element more, or less.
LEMMA OneMore ==
  ASSUME NEW S, IsFiniteSet(S), NEW x
  PROVE  /\ x \notin S => Cardinality(S \cup {x}) = Cardinality(S) + 1
         /\ x \in S => Cardinality(S \ {x}) = Cardinality(S) - 1
  BY FS_AddElement, FS_RemoveElement

\* If no more are metered, no more charged and no more counted, nothing can break.
LEMMA MeterKept ==
  ASSUME IInv, Metering' \subseteq Metering, UNCHANGED <<Charges, counted>>
  PROVE  MeterInv'
<1>1. Types /\ MeterInv /\ Included \in Nat
  BY PlanAssumption DEF IInv
<1>2. Cardinality(Metering)' <= Cardinality(Metering) /\ Cardinality(Metering)' \in Nat
  BY <1>1, Finite, FS_Subset, FS_CardinalityType
<1> QED
  BY <1>1, <1>2, Finite DEF MeterInv

\* No new line about a charge leaves the charges as they are.
LEMMA ChargesSame ==
  ASSUME NEW l, UNCHANGED ledger \/ Added(l), l.key[1] # "charge"
  PROVE  UNCHANGED Charges
  BY DEF Added, Charges

\* Lines of operators are neither charges nor reversals.
LEMMA OperatorLines ==
  ASSUME IInv,
         (\E f \in Forms : Adjust(f)) \/ (\E o \in Operators : Refund(o) \/ RefundDies(o))
           \/ (\E f \in Forms, o \in Operators : CheckRefund(o, f))
  PROVE  UNCHANGED <<Charges, Reversals, Unreversed, CashUsage>>
<1>1. UNCHANGED ledger \/ \E l : Added(l) /\ l.key[1] = "op"
  <2>1. ASSUME NEW f \in Forms, Adjust(f)
        PROVE  UNCHANGED ledger \/ \E l : Added(l) /\ l.key[1] = "op"
    <3> DEFINE l == Entry(<<"op", f.key>>, TypeOf(f.kind), ClassOf(f.kind), f.amount)
    <3>1. l.key[1] = "op"
      BY DEF Entry
    <3>2. UNCHANGED ledger \/ Added(l)
      BY <2>1, WritersAdd
    <3> HIDE DEF l
    <3> QED
      BY <3>1, <3>2
  <2>2. ASSUME NEW o \in Operators, Refund(o)
        PROVE  UNCHANGED ledger \/ \E l : Added(l) /\ l.key[1] = "op"
    <3> DEFINE l == Entry(<<"op", refund[o].form.key>>, "REFUND", "CASH", -refund[o].form.amount)
    <3>1. l.key[1] = "op"
      BY DEF Entry
    <3>2. UNCHANGED ledger \/ Added(l)
      BY <2>2, WritersAdd
    <3> HIDE DEF l
    <3> QED
      BY <3>1, <3>2
  <2> QED
    BY <2>1, <2>2 DEF CheckRefund, RefundDies
<1> QED
  BY <1>1 DEF Added, Charges, Reversals, Unreversed, CashUsage

\* Every step keeps the count of those who are charged too much.
LEMMA StepMeter == IInv /\ [Next]_vars => MeterInv'
<1> SUFFICES ASSUME IInv, [Next]_vars
             PROVE  MeterInv'
  OBVIOUS
<1>0. Types /\ MeterInv /\ (\A u \in Turns : TurnInv(u)) /\ Included \in Nat
  BY PlanAssumption DEF IInv
<1>1. ASSUME NEW t \in Turns, NEW r, Go(t, r), r.pc \in {"none", "answer"} \/ Metered(t)
      PROVE  Metering' \subseteq Metering
  BY <1>0, <1>1, OtherTurns DEF Metering, Metered, In
<1>2. ASSUME NEW t \in Turns, NEW c \in Customers, Gate(t, c) \/ GateUnread(t, c)
      PROVE  MeterInv'
  BY <1>1, <1>2, MeterKept DEF Gate, GateUnread, Charges
<1>3. ASSUME NEW t \in Turns, Count(t) \/ ReadBalance(t) \/ GiveUp(t)
      PROVE  MeterInv'
  BY <1>1, <1>3, MeterKept DEF Count, ReadBalance, GiveUp, Metered, None, Charges
<1>4. ASSUME NEW t \in Turns, Record(t)
      PROVE  MeterInv'
  <2>1. CASE turn[t].customer \in counted
    <3>1. Metering' \subseteq Metering
      BY <1>1, <1>4, <2>1 DEF Record, None
    <3>2. UNCHANGED <<Charges, counted>>
      BY <1>4, <2>1 DEF Record, Charges
    <3> QED
      BY <3>1, <3>2, MeterKept
  <2>2. CASE turn[t].customer \notin counted
    <3>1. turn'[t] = [pc |-> "count", customer |-> turn[t].customer]
          /\ (\A u \in Turns : u # t => turn'[u] = turn[u])
      BY <1>0, <1>4, <2>2, OtherTurns DEF Record
    <3>2. Metering' = Metering \cup {t} /\ t \notin Metering
      BY <1>4, <3>1 DEF Metering, Metered, In, Record
    <3>3. Cardinality(Metering)' = Cardinality(Metering) + 1
      BY <1>0, <3>2, Finite, OneMore
    <3>4. Cardinality(counted)' = Cardinality(counted) + 1
      BY <1>0, <1>4, <2>2, OneMore DEF Record, Types
    <3>5. Cardinality(Metering)' <= Cardinality(Turns)
      <4>1. Metering' \subseteq Turns /\ IsFiniteSet(Turns)
        BY SlotsAssumption DEF Metering
      <4> QED
        BY <4>1, FS_Subset
    <3>6. UNCHANGED Charges
      BY <1>4 DEF Record, Charges
    <3>7. CASE Cardinality(counted) > Included
      BY <1>0, <3>3, <3>4, <3>6, <3>7, Finite DEF MeterInv
    <3>8. CASE ~(Cardinality(counted) > Included)
      <4>1. Charges = {} /\ Cardinality(Charges) = 0
        BY <1>0, <3>8, FS_EmptySet DEF MeterInv
      <4> QED
        BY <1>0, <3>3, <3>4, <3>5, <3>6, <3>8, <4>1, Finite DEF MeterInv
    <3> QED
      BY <3>7, <3>8
  <2> QED
    BY <2>1, <2>2
<1>5. ASSUME NEW t \in Turns, Charge(t)
      PROVE  MeterInv'
  <2>1. UNCHANGED counted /\ turn'[t] = None /\ (\A u \in Turns : u # t => turn'[u] = turn[u])
    BY <1>0, <1>5, OtherTurns DEF Charge
  <2>2. t \in Metering /\ Metering' = Metering \ {t}
    BY <1>5, <2>1 DEF Metering, Metered, In, Charge, None
  <2>3. Cardinality(Metering)' = Cardinality(Metering) - 1
    BY <1>0, <2>2, Finite, OneMore
  <2>4. Cardinality(counted) > Included
    BY <1>0, <1>5 DEF TurnInv, Charge
  <2>5. Cardinality(Charges)' \in Nat /\ Cardinality(Charges)' <= Cardinality(Charges) + 1
    <3>1. Charges' = Charges \/ \E l : l \notin Charges /\ Charges' = Charges \cup {l}
      <4>1. UNCHANGED ledger \/ \E l : l \notin ledger /\ ledger' = ledger \cup {l}
        BY <1>5, WritersAdd DEF Added
      <4> QED
        BY <4>1 DEF Charges
    <3> QED
      BY <1>0, <3>1, Finite, OneMore
  <2> QED
    BY <1>0, <2>1, <2>3, <2>4, <2>5, Finite DEF MeterInv
<1>6. CASE (\E f \in Forms : Adjust(f)) \/ (\E o \in Operators : Refund(o) \/ RefundDies(o))
             \/ (\E f \in Forms, o \in Operators : CheckRefund(o, f))
  <2>1. UNCHANGED <<counted, turn>>
    BY <1>6 DEF Adjust, Refund, RefundDies, CheckRefund
  <2>2. Metering' \subseteq Metering
    BY <2>1 DEF Metering, Metered, In
  <2> QED
    BY <1>6, <2>1, <2>2, OperatorLines, MeterKept
<1>7. ASSUME NEW e \in ledger, Reverse(e)
      PROVE  MeterInv'
  <2>1. UNCHANGED Charges
    <3> DEFINE l == Entry(<<"reverse", e.key[2]>>, "ADJUSTMENT", e.cls, Price)
    <3>1. l.key[1] # "charge" /\ (UNCHANGED ledger \/ Added(l))
      BY <1>7, WritersAdd DEF Entry
    <3> HIDE DEF l
    <3> QED
      BY <3>1, ChargesSame
  <2>2. UNCHANGED counted /\ Metering' \subseteq Metering
    BY <1>7 DEF Reverse, Metering, Metered, In
  <2> QED
    BY <2>1, <2>2, MeterKept
<1>8. CASE UNCHANGED vars
  <2>1. Metering' \subseteq Metering /\ UNCHANGED <<Charges, counted>>
    BY <1>8 DEF vars, Metering, Metered, In, Charges
  <2> QED
    BY <2>1, MeterKept
<1> QED
  BY <1>2, <1>3, <1>4, <1>5, <1>6, <1>7, <1>8 DEF Next

-----------------------------------------------------------------------------
(* The debt.                                                                *)

\* Prices of more are no less; one more costs one price more.
LEMMA Prices ==
  ASSUME NEW m \in Nat, NEW n \in Nat
  PROVE  /\ Price * m \in Nat
         /\ m <= n => Price * m <= Price * n
         /\ Price * (m + n) = Price * m + Price * n
         /\ Price * (m + 1) = Price * m + Price
<1>1. Price \in Nat
  BY PlanAssumption
<1>2. Price * m \in Nat
  BY <1>1
<1>3. ASSUME m <= n
      PROVE  Price * m <= Price * n
  <2>1. PICK d \in Nat : n = m + d
    <3>1. n - m \in Nat /\ n = m + (n - m)
      BY <1>3
    <3> QED
      BY <3>1
  <2>2. Price * n = Price * m + Price * d /\ Price * d \in Nat
    BY <1>1, <2>1
  <2> QED
    BY <1>2, <2>2
<1> QED
  BY <1>1, <1>2, <1>3

\* If nothing is written, no more may be charged, and no error is forgotten.
LEMMA DebtKept ==
  ASSUME IInv, UNCHANGED ledger, errors' \in Nat, errors' >= errors,
         Cardinality(Live)' \in Nat, Cardinality(Live)' <= Cardinality(Live) + (errors' - errors)
  PROVE  DebtInv'
<1>1. Types /\ DebtInv /\ errors \in Nat
  BY PlanAssumption DEF IInv, Types
<1>2. UNCHANGED <<Total, Kept, Charges>>
  BY DEF Total, Kept, Withdrawn, Charges
<1>3. PICK d \in Nat : errors' = errors + d
  <2>1. errors \in Nat /\ errors' \in Nat /\ errors' >= errors
    BY <1>1
  <2>2. \A a, b \in Nat : b >= a => b - a \in Nat /\ b = a + (b - a)
    OBVIOUS
  <2> QED
    BY <2>1, <2>2
<1> DEFINE c == Cardinality(Live)
           n == Cardinality(Turns)
<1>4. c \in Nat /\ n \in Nat /\ Kept \in Int
  BY <1>1, Finite, SumTypes
<1>5. Price * c' <= Price * (c + d) /\ Price * (c + d) = Price * c + Price * d
      /\ Price * c \in Nat /\ Price * d \in Nat /\ Price * c' \in Nat
  <2>1. c + d \in Nat /\ c' \in Nat /\ c' <= c + d
    BY <1>1, <1>3, <1>4
  <2> HIDE DEF c
  <2> QED
    BY <1>4, <2>1, Prices
<1>6. Price * (n + errors') = Price * (n + errors) + Price * d /\ Price * (n + errors) \in Nat
  <2>1. n + errors \in Nat /\ n + errors' = (n + errors) + d
    BY <1>1, <1>3, <1>4
  <2> HIDE DEF n
  <2> QED
    BY <1>4, <2>1, Prices
<1>7. Kept - Price * c >= -(Price * (n + errors))
  BY <1>1 DEF DebtInv
<1>8. Kept - Price * c' >= -(Price * (n + errors'))
  <2> HIDE DEF c, n
  <2> QED
    BY <1>1, <1>3, <1>4, <1>5, <1>6, <1>7
<1> QED
  BY <1>1, <1>2, <1>8 DEF DebtInv

\* A line that is no charge takes nothing from what has come in.
LEMMA DebtAdded ==
  ASSUME IInv, UNCHANGED <<turn, counted, errors>>,
         NEW l \in Lines, l.key[1] # "charge", l.key[1] = "reverse" => l.amount >= 0,
         UNCHANGED ledger \/ Added(l)
  PROVE  DebtInv'
<1>1. Types /\ DebtInv /\ errors \in Nat
  BY PlanAssumption DEF IInv, Types
<1>2. UNCHANGED Live
  BY DEF Live, Metered, In
<1>3. CASE UNCHANGED ledger
  BY <1>1, <1>2, <1>3, Finite, DebtKept
<1>4. CASE Added(l)
  <2>1. l.amount \in Int /\ l.key[1] \in {"reverse", "op"}
    BY KeyShape
  <2>2. UNCHANGED Charges
    BY <1>4, ChargesSame
  <2>3. /\ Total \in Int /\ Kept \in Int
        /\ Total' = Total + l.amount
        /\ Kept' = Kept + If(~(l.key[1] = "op" /\ l.amount < 0), l.amount)
    BY <1>1, <1>4, SumsGrow, SumTypes
  <2>4. Kept' >= Kept /\ Kept' - Total' >= Kept - Total /\ Kept' \in Int /\ Total' \in Int
    BY <2>1, <2>3 DEF If
  <2> DEFINE a == Price * Cardinality(Live)
             b == Price * (Cardinality(Turns) + errors)
  <2>5. a \in Nat /\ b \in Nat /\ a' = a /\ b' = b
    BY <1>1, <1>2, Finite, PlanAssumption
  <2>6. Kept - a >= -b /\ Total <= Kept /\ (Charges = {} => Kept >= 0)
    BY <1>1 DEF DebtInv
  <2>7. Kept' - a >= -b /\ Total' <= Kept' /\ (Charges = {} => Kept' >= 0)
    <3> HIDE DEF a, b
    <3> QED
      BY <2>3, <2>4, <2>5, <2>6
  <2> QED
    BY <2>2, <2>5, <2>7 DEF DebtInv
<1> QED
  BY <1>3, <1>4

\* A conversation is let through: its price is covered by the money that was seen, or by
\* what the plan includes, or by the error.
LEMMA DebtOfGate ==
  ASSUME IInv, NEW t \in Turns, NEW c \in Customers, Gate(t, c) \/ GateUnread(t, c)
  PROVE  DebtInv'
<1>0. Types /\ DebtInv /\ MeterInv /\ errors \in Nat /\ Included \in Nat
  BY PlanAssumption DEF IInv, Types
<1>1. /\ turn'[t] = [pc |-> "answer", customer |-> c]
      /\ \A u \in Turns : u # t => turn'[u] = turn[u]
      /\ turn[t] = None
      /\ UNCHANGED <<ledger, counted, refund>>
  BY <1>0, OtherTurns DEF Gate, GateUnread
<1>2. Live' \subseteq Live \cup {t} /\ t \notin Live /\ (c \in counted => Live' \subseteq Live)
      /\ Live' \subseteq Turns
  BY <1>1 DEF Live, Metered, In, None
<1>3. Cardinality(Live)' \in Nat /\ Cardinality(Live)' <= Cardinality(Live) + 1
      /\ (c \in counted => Cardinality(Live)' <= Cardinality(Live))
      /\ Cardinality(Live)' <= Cardinality(Turns)
  <2>1. IsFiniteSet(Live) /\ IsFiniteSet(Live \cup {t}) /\ Cardinality(Live \cup {t}) = Cardinality(Live) + 1
    BY <1>0, <1>2, Finite, OneMore, FS_AddElement
  <2>2. IsFiniteSet(Turns)
    BY SlotsAssumption
  <2> QED
    BY <1>2, <2>1, <2>2, FS_Subset, FS_CardinalityType
<1>4. CASE GateUnread(t, c)
  <2>1. errors' = errors + 1
    BY <1>4 DEF GateUnread
  <2> QED
    BY <1>0, <1>1, <1>3, <2>1, DebtKept
<1>5. CASE Gate(t, c) /\ c \in counted
  <2>1. errors' = errors
    BY <1>5 DEF Gate
  <2> QED
    BY <1>0, <1>1, <1>3, <1>5, <2>1, Finite, DebtKept
<1>6. CASE Gate(t, c) /\ c \notin counted
  <2>1. UNCHANGED <<Total, Kept, Charges, errors>> /\ Kept \in Int /\ Total \in Int
    BY <1>0, <1>1, <1>6, SumTypes DEF Gate, Total, Kept, Withdrawn, Charges
  <2>2. Kept >= 0
    <3>1. CASE Total > 0
      BY <1>0, <2>1, <3>1 DEF DebtInv
    <3>2. CASE Cardinality(counted) < Included
      BY <1>0, <3>2, Finite DEF DebtInv, MeterInv
    <3> QED
      BY <1>6, <3>1, <3>2 DEF Gate, Served
  <2> DEFINE n == Cardinality(Turns)
             m == Cardinality(Live)'
  <2>3. n \in Nat /\ m \in Nat /\ m <= n + errors /\ n + errors \in Nat
    BY <1>0, <1>3, Finite
  <2>4. Price * m <= Price * (n + errors) /\ Price * m \in Nat /\ Price * (n + errors) \in Nat
    <3> HIDE DEF m, n
    <3> QED
      BY <2>3, Prices
  <2>5. Kept - Price * m >= -(Price * (n + errors))
    <3> HIDE DEF m, n
    <3> QED
      BY <2>1, <2>2, <2>4
  <2> QED
    BY <1>0, <2>1, <2>5 DEF DebtInv
<1> QED
  BY <1>4, <1>5, <1>6

\* A charge takes the price that was laid by for it.
LEMMA DebtOfCharge ==
  ASSUME IInv, NEW t \in Turns, Charge(t)
  PROVE  DebtInv'
<1>0. Types /\ DebtInv /\ errors \in Nat /\ Price \in Nat
  BY PlanAssumption DEF IInv, Types
<1>1. turn'[t] = None /\ (\A u \in Turns : u # t => turn'[u] = turn[u])
      /\ UNCHANGED <<counted, errors>>
  BY <1>0, OtherTurns DEF Charge
<1>2. t \in Live /\ Live' = Live \ {t}
  BY <1>1 DEF Live, Metered, In, Charge, None
<1>3. Cardinality(Live)' = Cardinality(Live) - 1 /\ Cardinality(Live) \in Nat /\ Cardinality(Live)' \in Nat
  <2>1. IsFiniteSet(Live')
    BY <1>0, <1>2, Finite, FS_RemoveElement
  <2> QED
    BY <1>0, <1>2, <2>1, Finite, OneMore, FS_CardinalityType
<1>4. PICK cls \in Classes :
        /\ turn[t].customer \in Customers
        /\ UNCHANGED ledger \/ Added(Entry(<<"charge", turn[t].customer>>, "AI_USAGE", cls, -Price))
  BY WritersAdd
<1>5. CASE UNCHANGED ledger
  BY <1>0, <1>1, <1>3, <1>5, DebtKept
<1> DEFINE l == Entry(<<"charge", turn[t].customer>>, "AI_USAGE", cls, -Price)
<1>6. CASE Added(l)
  <2>1. l \in Lines /\ l.key[1] = "charge" /\ l.amount = -Price
    BY <1>4, EntryTypeOK DEF Entry
  <2> HIDE DEF l
  <2>2. l \in Charges'
    BY <1>6, <2>1 DEF Added, Charges
  <2>3. Total' = Total - Price /\ Kept' = Kept - Price /\ Kept \in Int /\ Total \in Int
    BY <1>0, <1>6, <2>1, SumsGrow, SumTypes DEF If
  <2> DEFINE m == Cardinality(Live)'
             b == Price * (Cardinality(Turns) + errors)
  <2>4. Price * (m + 1) = Price * m + Price /\ Price * m \in Nat
    <3>1. m \in Nat
      BY <1>3
    <3> HIDE DEF m
    <3> QED
      BY <3>1, Prices
  <2>5. Kept - Price * (m + 1) >= -b /\ b \in Nat /\ b' = b /\ Total <= Kept
    <3>1. Cardinality(Live) = m + 1
      BY <1>3
    <3>2. b \in Nat
      BY <1>0, Finite
    <3> QED
      BY <1>0, <1>1, <3>1, <3>2 DEF DebtInv
  <2>6. Kept' - Price * m >= -b /\ Total' <= Kept'
    <3> HIDE DEF m, b
    <3> QED
      BY <1>0, <2>3, <2>4, <2>5
  <2> QED
    BY <2>2, <2>5, <2>6 DEF DebtInv
<1> QED
  BY <1>4, <1>5, <1>6

\* Every step keeps the debt in its bounds.
LEMMA StepDebt == IInv /\ [Next]_vars => DebtInv'
<1> SUFFICES ASSUME IInv, [Next]_vars
             PROVE  DebtInv'
  OBVIOUS
<1>0. Types /\ (\A u \in Turns : TurnInv(u)) /\ errors \in Nat /\ IsFiniteSet(Live)
      /\ Cardinality(Live) \in Nat
  BY PlanAssumption, Finite DEF IInv, Types
<1>1. ASSUME Live' \subseteq Live, UNCHANGED <<ledger, errors>>
      PROVE  DebtInv'
  <2>1. Cardinality(Live)' \in Nat /\ Cardinality(Live)' <= Cardinality(Live)
    BY <1>0, <1>1, FS_Subset, FS_CardinalityType
  <2> QED
    BY <1>0, <1>1, <2>1, DebtKept
<1>2. ASSUME NEW t \in Turns, Record(t)
      PROVE  DebtInv'
  <2>1. turn'[t] = IF turn[t].customer \in counted THEN None
                   ELSE [pc |-> "count", customer |-> turn[t].customer]
    BY <1>0, <1>2, OtherTurns DEF Record
  <2>2. counted \subseteq counted' /\ (\A u \in Turns : u # t => turn'[u] = turn[u])
    BY <1>0, <1>2, OtherTurns DEF Record
  <2>3. Live' \subseteq Live
    BY <1>2, <2>1, <2>2 DEF Record, Live, Metered, In, None
  <2> QED
    BY <1>1, <1>2, <2>3 DEF Record
<1>3. ASSUME NEW t \in Turns, Count(t) \/ ReadBalance(t) \/ GiveUp(t)
      PROVE  DebtInv'
  <2>1. /\ turn'[t].pc \in {"none", "charge", "post"} /\ (turn'[t].pc # "none" => Metered(t))
        /\ \A u \in Turns : u # t => turn'[u] = turn[u]
        /\ UNCHANGED counted
    BY <1>0, <1>3, OtherTurns DEF Count, ReadBalance, GiveUp, Metered, None
  <2>2. Live' \subseteq Live
    BY <2>1 DEF Live, Metered, In
  <2> QED
    BY <1>1, <1>3, <2>2 DEF Count, ReadBalance, GiveUp
<1>4. ASSUME NEW f \in Forms, Adjust(f)
      PROVE  DebtInv'
  <2> DEFINE l == Entry(<<"op", f.key>>, TypeOf(f.kind), ClassOf(f.kind), f.amount)
  <2>1. l \in Lines /\ l.key[1] = "op"
    BY <1>4, EntryTypeOK DEF Entry, Adjust
  <2>2. UNCHANGED <<turn, counted, errors>> /\ (UNCHANGED ledger \/ Added(l))
    BY <1>4, WritersAdd DEF Adjust
  <2> HIDE DEF l
  <2> QED
    BY <2>1, <2>2, DebtAdded
<1>5. ASSUME NEW o \in Operators, Refund(o)
      PROVE  DebtInv'
  <2> DEFINE l == Entry(<<"op", refund[o].form.key>>, "REFUND", "CASH", -refund[o].form.amount)
  <2>1. l \in Lines /\ l.key[1] = "op"
    BY <1>5, WritersAdd, EntryTypeOK DEF Entry
  <2>2. UNCHANGED <<turn, counted, errors>> /\ (UNCHANGED ledger \/ Added(l))
    BY <1>5, WritersAdd DEF Refund
  <2> HIDE DEF l
  <2> QED
    BY <2>1, <2>2, DebtAdded
<1>6. ASSUME NEW e \in ledger, Reverse(e)
      PROVE  DebtInv'
  <2> DEFINE l == Entry(<<"reverse", e.key[2]>>, "ADJUSTMENT", e.cls, Price)
  <2>1. l \in Lines /\ l.key[1] = "reverse" /\ l.amount >= 0
    <3>1. e.cls \in Classes
      BY <1>0 DEF Types, Lines
    <3>2. l \in Lines
      BY <1>6, <3>1, WritersAdd, EntryTypeOK
    <3> QED
      BY <3>2, PlanAssumption DEF Entry
  <2>2. UNCHANGED <<turn, counted, errors>> /\ (UNCHANGED ledger \/ Added(l))
    BY <1>6, WritersAdd DEF Reverse
  <2> HIDE DEF l
  <2> QED
    BY <2>1, <2>2, DebtAdded
<1>7. CASE UNCHANGED <<ledger, turn, counted, errors>>
  BY <1>1, <1>7 DEF Live, Metered, In
<1> QED
  BY <1>2, <1>3, <1>4, <1>5, <1>6, <1>7, DebtOfGate, DebtOfCharge
     DEF Next, CheckRefund, RefundDies, vars

-----------------------------------------------------------------------------
(* The cash.                                                                *)

\* Cash that was taken for charges is given back by their reversals alone.
LEMMA CashOfUsage ==
  ASSUME IInv
  PROVE  Sum(CashUsage) <= 0
<1>1. Types /\ Sum(CashUsage) \in Int /\ Cardinality(Unreversed) \in Nat
  BY Finite, SumTypes DEF IInv
<1>2. Price * Cardinality(Unreversed) \in Nat
  BY <1>1, Prices
<1> QED
  BY <1>1, <1>2 DEF IInv, CashInv

\* If neither charges nor reversals change, what is left is a line of an operator, which
\* counts as cash that came in, or as a refund, or takes cash away.
LEMMA CashAdded ==
  ASSUME IInv, NEW l \in Lines, l.key[1] = "op", UNCHANGED ledger \/ Added(l),
         l.type = "REFUND" => l.cls = "CASH" /\ l.amount < 0
  PROVE  CashInv'
<1>1. Types /\ CashInv /\ l.amount \in Int
  BY KeyShape DEF IInv
<1>2. CASE UNCHANGED ledger
  BY <1>1, <1>2 DEF CashInv, CashLines, CashIn, Refunds, CashUsage, Unreversed, Charges, Reversals
<1>3. CASE Added(l)
  <2>1. UNCHANGED Unreversed
    BY <1>3 DEF Added, Unreversed, Charges, Reversals
  <2>2. /\ Sum(CashLines)' = Sum(CashLines) + If(l.cls = "CASH", l.amount)
        /\ Sum(CashIn)' = Sum(CashIn) + If(l.cls = "CASH" /\ l.amount > 0, l.amount)
        /\ Sum(Refunds)' = Sum(Refunds) + If(l.type = "REFUND", l.amount)
        /\ Sum(CashUsage)' = Sum(CashUsage) + 0
    BY <1>1, <1>3, SumsGrow DEF If
  <2>3. /\ Sum(CashLines) \in Int /\ Sum(CashIn) \in Int
        /\ Sum(Refunds) \in Int /\ Sum(CashUsage) \in Int
    BY <1>1, SumTypes
  <2>4. Sum(CashLines) <= Sum(CashIn) + Sum(Refunds) + Sum(CashUsage)
    BY <1>1 DEF CashInv
  <2>5. Sum(CashLines)' <= Sum(CashIn)' + Sum(Refunds)' + Sum(CashUsage)' /\ Sum(CashUsage)' = Sum(CashUsage)
    BY <1>1, <2>2, <2>3, <2>4 DEF If
  <2> QED
    BY <1>1, <2>1, <2>5 DEF CashInv
<1> QED
  BY <1>2, <1>3

\* A charge or a reversal moves the cash by what it moves the usage; there is a price for
\* each charge of cash that is not given back.
LEMMA CashUsed ==
  ASSUME IInv, NEW l \in Lines, Added(l), l.key[1] \in {"charge", "reverse"}, l.type # "REFUND",
         Sum(CashUsage)' <= -(Price * Cardinality(Unreversed)')
  PROVE  CashInv'
<1>1. Types /\ CashInv /\ l.amount \in Int
  BY KeyShape DEF IInv
<1>2. /\ Sum(CashLines)' = Sum(CashLines) + If(l.cls = "CASH", l.amount)
      /\ Sum(CashIn)' = Sum(CashIn) + 0
      /\ Sum(Refunds)' = Sum(Refunds) + 0
      /\ Sum(CashUsage)' = Sum(CashUsage) + If(l.cls = "CASH", l.amount)
  BY <1>1, SumsGrow DEF If
<1>3. /\ Sum(CashLines) \in Int /\ Sum(CashIn) \in Int
      /\ Sum(Refunds) \in Int /\ Sum(CashUsage) \in Int
  BY <1>1, SumTypes
<1>4. Sum(CashLines) <= Sum(CashIn) + Sum(Refunds) + Sum(CashUsage)
  BY <1>1 DEF CashInv
<1>5. Sum(CashLines)' <= Sum(CashIn)' + Sum(Refunds)' + Sum(CashUsage)'
  BY <1>1, <1>2, <1>3, <1>4 DEF If
<1> QED
  BY <1>5 DEF CashInv

\* Every step keeps the account of the cash.
LEMMA StepCash == IInv /\ [Next]_vars => CashInv'
<1> SUFFICES ASSUME IInv, [Next]_vars
             PROVE  CashInv'
  OBVIOUS
<1>0. Types /\ CashInv /\ (\A e \in ledger : LineInv(e)) /\ Price \in Nat
  BY PlanAssumption DEF IInv
<1>1. CASE UNCHANGED ledger
  BY <1>0, <1>1 DEF CashInv, CashLines, CashIn, Refunds, CashUsage, Unreversed, Charges, Reversals
<1>2. Sum(CashUsage) \in Int /\ Cardinality(Unreversed) \in Nat /\ IsFiniteSet(Unreversed)
      /\ Sum(CashUsage) <= -(Price * Cardinality(Unreversed))
  BY <1>0, Finite, SumTypes DEF CashInv
<1>3. ASSUME NEW t \in Turns, Charge(t), ~UNCHANGED ledger
      PROVE  CashInv'
  <2>1. PICK cls \in Classes :
          /\ turn[t].customer \in Customers
          /\ Added(Entry(<<"charge", turn[t].customer>>, "AI_USAGE", cls, -Price))
    BY <1>3, WritersAdd
  <2> DEFINE l == Entry(<<"charge", turn[t].customer>>, "AI_USAGE", cls, -Price)
  <2>2. l \in Lines /\ l.key = <<"charge", turn[t].customer>> /\ l.key[1] = "charge"
        /\ l.amount = -Price /\ l.type = "AI_USAGE"
    BY <2>1, EntryTypeOK DEF Entry
  <2>3. Added(l)
    BY <2>1
  <2> HIDE DEF l
  <2>4. Sum(CashUsage)' = Sum(CashUsage) + If(l.cls = "CASH", -Price)
    BY <1>0, <2>2, <2>3, SumsGrow DEF If
  <2>5. \A r \in Reversals' : r.key[2] # l.key[2]
    <3>1. ASSUME NEW r \in Reversals, r.key[2] = l.key[2]
          PROVE  FALSE
      <4>1. PICK c \in Charges : c.key[2] = r.key[2]
        BY <1>0 DEF LineInv, Reversals
      <4>2. c \in ledger /\ c \in Lines /\ c.key[1] = "charge"
        BY <1>0 DEF Charges, Types
      <4>3. c.key = <<"charge", turn[t].customer>>
        BY <2>2, <3>1, <4>1, <4>2, KeyShape
      <4> QED
        BY <2>2, <2>3, <4>2, <4>3 DEF Added
    <3>2. Reversals' = Reversals
      BY <2>2, <2>3 DEF Added, Reversals
    <3> QED
      BY <3>1, <3>2
  <2>6. Unreversed' = IF l.cls = "CASH" THEN Unreversed \cup {l} ELSE Unreversed
    <3>1. Charges' = Charges \cup {l} /\ Reversals' = Reversals
      BY <2>2, <2>3 DEF Added, Charges, Reversals
    <3> QED
      BY <2>5, <3>1 DEF Unreversed
  <2>7. l \notin Unreversed
    BY <2>3 DEF Added, Unreversed, Charges
  <2>8. Cardinality(Unreversed)' = Cardinality(Unreversed) + If(l.cls = "CASH", 1)
    BY <1>2, <2>6, <2>7, OneMore DEF If
  <2> DEFINE n == Cardinality(Unreversed)
  <2>9. Price * (n + 1) = Price * n + Price /\ Price * n \in Nat
    <3>1. n \in Nat
      BY <1>2
    <3> HIDE DEF n
    <3> QED
      BY <3>1, Prices
  <2>10. Sum(CashUsage)' <= -(Price * Cardinality(Unreversed)')
    <3>1. CASE l.cls = "CASH"
      <4>1. Cardinality(Unreversed)' = n + 1 /\ Sum(CashUsage)' = Sum(CashUsage) - Price
        BY <1>0, <1>2, <2>4, <2>8, <3>1 DEF If
      <4> QED
        BY <1>0, <1>2, <2>9, <4>1
    <3>2. CASE l.cls # "CASH"
      BY <1>2, <2>4, <2>8, <3>2 DEF If
    <3> QED
      BY <3>1, <3>2
  <2> QED
    BY <2>2, <2>3, <2>10, CashUsed
<1>4. ASSUME NEW f \in Forms, Adjust(f)
      PROVE  CashInv'
  <2> DEFINE l == Entry(<<"op", f.key>>, TypeOf(f.kind), ClassOf(f.kind), f.amount)
  <2>1. l \in Lines /\ l.key[1] = "op" /\ l.type # "REFUND"
    BY <1>4, EntryTypeOK DEF Entry, Adjust, TypeOf
  <2>2. UNCHANGED ledger \/ Added(l)
    BY <1>4, WritersAdd
  <2> HIDE DEF l
  <2> QED
    BY <2>1, <2>2, CashAdded
<1>5. ASSUME NEW o \in Operators, Refund(o)
      PROVE  CashInv'
  <2> DEFINE l == Entry(<<"op", refund[o].form.key>>, "REFUND", "CASH", -refund[o].form.amount)
  <2>1. refund[o].form \in Forms /\ refund[o].form.amount \in Int /\ refund[o].form.amount > 0
    BY <1>5, WritersAdd, FormsAreForms
  <2>2. l \in Lines
    BY <1>5, WritersAdd, EntryTypeOK
  <2>3. l.key[1] = "op" /\ l.cls = "CASH" /\ l.amount < 0
    BY <2>1 DEF Entry
  <2>4. UNCHANGED ledger \/ Added(l)
    BY <1>5, WritersAdd
  <2> HIDE DEF l
  <2> QED
    BY <2>2, <2>3, <2>4, CashAdded
<1>6. ASSUME NEW e \in ledger, Reverse(e), ~UNCHANGED ledger
      PROVE  CashInv'
  <2> DEFINE l == Entry(<<"reverse", e.key[2]>>, "ADJUSTMENT", e.cls, Price)
  <2>1. e \in Charges /\ e \in Lines /\ e.cls \in Classes /\ e.key[2] \in Customers /\ Added(l)
    BY <1>0, <1>6, WritersAdd DEF Types, Lines
  <2>2. l \in Lines /\ l.key = <<"reverse", e.key[2]>> /\ l.key[1] = "reverse" /\ l.key[2] = e.key[2]
        /\ l.amount = Price /\ l.type = "ADJUSTMENT" /\ l.cls = e.cls
    BY <2>1, EntryTypeOK DEF Entry
  <2> HIDE DEF l
  <2>3. Sum(CashUsage)' = Sum(CashUsage) + If(e.cls = "CASH", Price)
    BY <1>0, <2>1, <2>2, SumsGrow DEF If
  <2>4. \A r \in Reversals : r.key[2] # e.key[2]
    <3>1. ASSUME NEW r \in Reversals, r.key[2] = e.key[2]
          PROVE  FALSE
      <4>1. r \in ledger /\ r \in Lines /\ r.key[1] = "reverse"
        BY <1>0 DEF Reversals, Types
      <4>2. r.key = l.key
        BY <2>2, <3>1, <4>1, KeyShape
      <4> QED
        BY <2>1, <4>1, <4>2 DEF Added
    <3> QED
      BY <3>1
  <2>5. Charges' = Charges /\ Reversals' = Reversals \cup {l}
    BY <2>1, <2>2 DEF Added, Charges, Reversals
  <2>6. Unreversed' = Unreversed \ {e}
    <3>1. ASSUME NEW c \in Charges, c.key[2] = e.key[2]
          PROVE  c = e
      <4>1. c \in ledger /\ c \in Lines /\ c.key[1] = "charge" /\ e.key[1] = "charge"
        BY <1>0, <2>1 DEF Charges, Types
      <4>2. c.key = e.key
        BY <2>1, <3>1, <4>1, KeyShape
      <4> QED
        BY <1>0, <4>1, <4>2 DEF LineInv
    <3>2. \A c \in Charges : (\A r \in Reversals' : r.key[2] # c.key[2])
                               <=> (\A r \in Reversals : r.key[2] # c.key[2]) /\ c # e
      BY <2>2, <2>5, <3>1
    <3> QED
      BY <2>5, <3>2 DEF Unreversed
  <2>7. e \in Unreversed <=> e.cls = "CASH"
    BY <2>1, <2>4 DEF Unreversed
  <2> DEFINE n == Cardinality(Unreversed)'
  <2>8. CASE e.cls = "CASH"
    <3>1. n = Cardinality(Unreversed) - 1 /\ n \in Nat /\ Sum(CashUsage)' = Sum(CashUsage) + Price
      <4>1. IsFiniteSet(Unreversed')
        BY <1>2, <2>6, FS_RemoveElement
      <4> QED
        BY <1>2, <2>3, <2>6, <2>7, <2>8, <4>1, OneMore, FS_CardinalityType DEF If
    <3>2. Price * (n + 1) = Price * n + Price /\ Price * n \in Nat /\ Cardinality(Unreversed) = n + 1
      <4>1. n \in Nat /\ Cardinality(Unreversed) = n + 1
        BY <1>2, <3>1
      <4> HIDE DEF n
      <4> QED
        BY <4>1, Prices
    <3>3. Sum(CashUsage)' <= -(Price * n)
      BY <1>0, <1>2, <3>1, <3>2
    <3> QED
      BY <2>1, <2>2, <3>3, CashUsed
  <2>9. CASE e.cls # "CASH"
    <3>1. Unreversed' = Unreversed /\ Sum(CashUsage)' = Sum(CashUsage)
      BY <1>2, <2>3, <2>6, <2>7, <2>9 DEF If
    <3> QED
      BY <1>2, <2>1, <2>2, <3>1, CashUsed
  <2> QED
    BY <2>8, <2>9
<1> QED
  BY <1>1, <1>3, <1>4, <1>5, <1>6
     DEF Next, Gate, GateUnread, Record, Count, ReadBalance, GiveUp, CheckRefund, RefundDies, vars

-----------------------------------------------------------------------------
(* Refunds.                                                                 *)

\* What is asked for: an amount for each slot, and no more of them than slots; one more slot
\* asks for its amount.
LEMMA AskedSums ==
  ASSUME NEW r, NEW Q, IsFiniteSet(Q), \A o \in Q : r[o].form.amount \in Int
  PROVE  /\ IsFiniteSet(AskedOf(r, Q)) /\ Amounts(AskedOf(r, Q)) /\ Sum(AskedOf(r, Q)) \in Int
         /\ Cardinality(AskedOf(r, Q)) <= Cardinality(Q)
         /\ \A o : o \notin Q /\ r[o].form.amount \in Int =>
              Sum(AskedOf(r, Q \cup {o})) = Sum(AskedOf(r, Q)) + r[o].form.amount
<1> DEFINE f == [o \in Q |-> [slot |-> o, amount |-> r[o].form.amount]]
<1>1. f \in Surjection(Q, AskedOf(r, Q))
  BY DEF Surjection, AskedOf
<1>2. IsFiniteSet(AskedOf(r, Q)) /\ Cardinality(AskedOf(r, Q)) <= Cardinality(Q)
  <2> HIDE DEF f
  <2> QED
    BY <1>1, FS_Surjection
<1>3. Amounts(AskedOf(r, Q))
  BY DEF AskedOf, Amounts
<1>4. ASSUME NEW o, o \notin Q, r[o].form.amount \in Int
      PROVE  Sum(AskedOf(r, Q \cup {o})) = Sum(AskedOf(r, Q)) + r[o].form.amount
  <2> DEFINE a == [slot |-> o, amount |-> r[o].form.amount]
  <2>1. AskedOf(r, Q \cup {o}) = AskedOf(r, Q) \cup {a} /\ a \notin AskedOf(r, Q)
        /\ a.amount = r[o].form.amount
    BY <1>4 DEF AskedOf
  <2> HIDE DEF a
  <2> QED
    BY <1>2, <1>3, <1>4, <2>1, SumAdd
<1> QED
  BY <1>2, <1>3, <1>4, SumType

\* Slots that are pending ask for amounts.
LEMMA PendingAsk ==
  ASSUME Types
  PROVE  IsFiniteSet(Pending) /\ \A o \in Pending : refund[o].form.amount \in Int
<1>1. ASSUME NEW o \in Pending
      PROVE  refund[o].form.amount \in Int
  <2>1. refund[o] \in Checked
    BY DEF Pending, Types
  <2> QED
    BY <2>1, FormsAreForms DEF Checked
<1>2. IsFiniteSet(Pending)
  BY SlotsAssumption, FS_Subset DEF Pending
<1> QED
  BY <1>1, <1>2

\* What a set of them asks for.
LEMMA AskedType ==
  ASSUME Types, NEW Q \in SUBSET Pending
  PROVE  /\ IsFiniteSet(Asked(Q)) /\ Amounts(Asked(Q)) /\ Sum(Asked(Q)) \in Int
         /\ IsFiniteSet(Q) /\ Cardinality(Asked(Q)) <= Cardinality(Q)
<1>1. IsFiniteSet(Q) /\ (\A o \in Q : refund[o].form.amount \in Int)
  BY PendingAsk, FS_Subset
<1> QED
  BY <1>1, AskedSums DEF Asked

\* One more pending slot.
LEMMA AskedAdd ==
  ASSUME Types, NEW Q \in SUBSET Pending, NEW o \in Pending, o \notin Q
  PROVE  Sum(Asked(Q \cup {o})) = Sum(Asked(Q)) + refund[o].form.amount
<1>1. IsFiniteSet(Q) /\ (\A q \in Q : refund[q].form.amount \in Int) /\ refund[o].form.amount \in Int
  BY PendingAsk, FS_Subset
<1> QED
  BY <1>1, AskedSums DEF Asked

\* If no refund is written or asked for, and no cash is taken back that came in.
LEMMA RefundKept ==
  ASSUME IInv, UNCHANGED Refunds, Sum(CashIn)' \in Int, Sum(CashIn)' >= Sum(CashIn),
         Pending' \subseteq Pending, \A o \in Pending' : refund'[o] = refund[o]
  PROVE  RefundInv'
<1>1. ASSUME NEW Q \in SUBSET Pending', NEW m \in Nat, Covers(m, Q)'
      PROVE  Sum(Asked(Q))' - Sum(Refunds)' <= Sum(CashIn)' + (Cardinality(Operators) - 1) * m
  <2>1. Types /\ RefundInv /\ Q \in SUBSET Pending
    BY DEF IInv
  <2>2. Asked(Q)' = Asked(Q)
    BY DEF Asked, AskedOf
  <2>3. Covers(m, Q)
    BY <1>1, <2>2 DEF Covers
  <2>4. Sum(Asked(Q)) - Sum(Refunds) <= Sum(CashIn) + (Cardinality(Operators) - 1) * m
    BY <2>1, <2>3 DEF RefundInv
  <2>5. Sum(Asked(Q)) \in Int /\ Sum(Refunds) \in Int /\ Sum(CashIn) \in Int
        /\ (Cardinality(Operators) - 1) * m \in Int
    <3>1. Cardinality(Operators) \in Nat
      BY SlotsAssumption, FS_CardinalityType
    <3>2. (Cardinality(Operators) - 1) * m \in Int
      BY <3>1
    <3> QED
      BY <2>1, <3>2, AskedType, SumTypes
  <2> DEFINE k == (Cardinality(Operators) - 1) * m
  <2> HIDE DEF k
  <2>6. Sum(Asked(Q)) - Sum(Refunds) <= Sum(CashIn)' + k
    BY <2>4, <2>5 DEF k
  <2> QED
    BY <2>2, <2>6 DEF k
<1> QED
  BY <1>1 DEF RefundInv

\* A refund that is asked for is no larger than the cash; those asked for before it are
\* other operators'.
LEMMA RefundChecked ==
  ASSUME IInv, NEW o \in Operators, NEW f \in Forms, CheckRefund(o, f)
  PROVE  RefundInv'
<1>0. Types /\ RefundInv /\ CashInv /\ UNCHANGED ledger
  BY DEF IInv, CheckRefund
<1>1. UNCHANGED <<Refunds, CashIn>> /\ Sum(Refunds) \in Int /\ Sum(CashIn) \in Int
  BY <1>0, SumTypes DEF Refunds, CashIn
<1>2. o \notin Pending /\ Pending' = Pending \cup {o} /\ refund'[o].form = f
      /\ \A q \in Operators : q # o => refund'[q] = refund[q]
  BY <1>0 DEF CheckRefund, Pending, Types, None
<1>3. f.amount \in Int /\ f.amount <= Sum(CashIn) + Sum(Refunds)
  <2>1. f.amount <= Sum(CashLines) /\ f.amount \in Int
    BY FormsAreForms DEF CheckRefund, Refundable, Balance, CashLines
  <2>2. Sum(CashUsage) <= 0
    BY CashOfUsage
  <2>3. Sum(CashLines) <= Sum(CashIn) + Sum(Refunds) + Sum(CashUsage)
    BY <1>0 DEF CashInv
  <2> QED
    BY <1>0, <2>1, <2>2, <2>3, SumTypes
<1> DEFINE n == Cardinality(Operators)
<1>4. n \in Nat /\ IsFiniteSet(Operators)
  BY SlotsAssumption, FS_CardinalityType
<1>5. ASSUME NEW Q \in SUBSET Pending', NEW m \in Nat, Covers(m, Q)'
      PROVE  Sum(Asked(Q))' - Sum(Refunds)' <= Sum(CashIn)' + (n - 1) * m
  <2>1. CASE o \notin Q
    <3>1. Q \in SUBSET Pending /\ Asked(Q)' = Asked(Q)
      BY <1>2, <2>1 DEF Asked, AskedOf, Pending
    <3>2. Covers(m, Q)
      BY <1>1, <1>5, <3>1 DEF Covers
    <3> QED
      BY <1>0, <1>1, <3>1, <3>2 DEF RefundInv
  <2>2. CASE o \in Q
    <3> DEFINE R == Q \ {o}
    <3>1. R \in SUBSET Pending /\ R \cup {o} = Q /\ o \notin R /\ Asked(R)' = Asked(R)
      BY <1>2, <2>2 DEF Asked, AskedOf, Pending
    <3>2. Sum(Asked(Q))' = Sum(Asked(R)) + f.amount
      <4>1. IsFiniteSet(R) /\ (\A q \in R : refund'[q].form.amount \in Int)
        <5>1. \A q \in R : refund'[q] = refund[q]
          BY <1>2, <3>1 DEF Pending
        <5> HIDE DEF R
        <5> QED
          BY <1>0, <3>1, <5>1, PendingAsk, FS_Subset
      <4>2. Sum(AskedOf(refund', R \cup {o})) = Sum(AskedOf(refund', R)) + refund'[o].form.amount
        <5>1. refund'[o].form.amount \in Int /\ o \notin R
          BY <1>2, <1>3
        <5> HIDE DEF R
        <5> QED
          BY <4>1, <5>1, AskedSums
      <4>3. Asked(Q)' = AskedOf(refund', R \cup {o}) /\ Asked(R)' = AskedOf(refund', R)
        BY <3>1 DEF Asked
      <4> QED
        BY <1>2, <3>1, <4>2, <4>3
    <3>3. \A a \in Asked(R) : a.amount \in Int /\ a.amount <= m
      <4>1. Asked(R)' \subseteq Asked(Q)'
        BY DEF Asked, AskedOf
      <4>2. \A a \in Asked(R) : a.amount <= m
        BY <1>5, <3>1, <4>1 DEF Covers
      <4>3. Amounts(Asked(R))
        BY <1>0, <3>1, AskedType
      <4> QED
        BY <4>2, <4>3 DEF Amounts
    <3>4. IsFiniteSet(Asked(R)) /\ Sum(Asked(R)) \in Int /\ Cardinality(Asked(R)) \in Nat
          /\ Cardinality(Asked(R)) <= n - 1
      <4>1. R \subseteq Operators \ {o} /\ IsFiniteSet(Operators \ {o}) /\ Cardinality(Operators \ {o}) = n - 1
        BY <1>4, <3>1, OneMore, FS_RemoveElement DEF Pending
      <4>2. Cardinality(R) <= n - 1 /\ Cardinality(R) \in Nat /\ n - 1 \in Int
        BY <1>4, <4>1, FS_Subset, FS_CardinalityType
      <4>3. IsFiniteSet(Asked(R)) /\ Sum(Asked(R)) \in Int /\ Cardinality(Asked(R)) <= Cardinality(R)
        BY <1>0, <3>1, AskedType
      <4>4. Cardinality(Asked(R)) \in Nat
        BY <4>3, FS_CardinalityType
      <4> HIDE DEF R, n
      <4> QED
        BY <4>2, <4>3, <4>4
    <3>5. Sum(Asked(R)) <= Cardinality(Asked(R)) * m
      <4> HIDE DEF R
      <4> QED
        BY <3>3, <3>4, SumAtMost
    <3>6. Cardinality(Asked(R)) * m <= (n - 1) * m /\ Cardinality(Asked(R)) * m \in Nat
          /\ (n - 1) * m \in Nat
      <4>1. \A a, b \in Nat : a <= b => a * m <= b * m /\ a * m \in Nat /\ b * m \in Nat
        <5>1. ASSUME NEW a \in Nat, NEW b \in Nat, a <= b
              PROVE  a * m <= b * m /\ a * m \in Nat /\ b * m \in Nat
          <6>1. b - a \in Nat /\ b = a + (b - a)
            BY <5>1
          <6>2. PICK d \in Nat : b = a + d
            BY <6>1
          <6>3. b * m = a * m + d * m /\ d * m \in Nat /\ a * m \in Nat
            BY <6>2
          <6> QED
            BY <6>3
        <5> QED
          BY <5>1
      <4>2. n - 1 \in Nat
        BY <1>4, <3>4
      <4> HIDE DEF n, R
      <4> QED
        BY <3>4, <4>1, <4>2
    <3> HIDE DEF n, R
    <3> QED
      BY <1>1, <1>3, <3>2, <3>4, <3>5, <3>6
  <2> QED
    BY <2>1, <2>2
<1> QED
  BY <1>5 DEF RefundInv

\* A refund that is written was asked for.
LEMMA RefundWritten ==
  ASSUME IInv, NEW o \in Operators, Refund(o)
  PROVE  RefundInv'
<1>0. Types /\ RefundInv
  BY DEF IInv
<1>1. o \in Pending /\ Pending' = Pending \ {o} /\ o \notin Pending'
      /\ \A q \in Operators : q # o => refund'[q] = refund[q]
  BY <1>0 DEF Refund, Pending, Types
<1> DEFINE a == refund[o].form.amount
           l == Entry(<<"op", refund[o].form.key>>, "REFUND", "CASH", -a)
<1>2. a \in Int /\ (UNCHANGED ledger \/ Added(l)) /\ l \in Lines
      /\ l.type = "REFUND" /\ l.amount = -a /\ l.key[1] = "op" /\ l.cls = "CASH" /\ a > 0
  BY WritersAdd, EntryTypeOK, FormsAreForms DEF Entry
<1> HIDE DEF a, l
<1>3. CASE UNCHANGED ledger
  <2>1. UNCHANGED <<Refunds, CashIn>> /\ Sum(CashIn) \in Int
    BY <1>0, <1>3, SumTypes DEF Refunds, CashIn
  <2>2. \A q \in Pending' : refund'[q] = refund[q]
    BY <1>1 DEF Pending
  <2> QED
    BY <1>1, <2>1, <2>2, RefundKept
<1>4. CASE Added(l)
  <2>1. /\ Sum(Refunds) \in Int /\ Sum(CashIn) \in Int
        /\ Sum(Refunds)' = Sum(Refunds) - a
        /\ Sum(CashIn)' = Sum(CashIn)
    <3>1. Sum(Refunds)' = Sum(Refunds) + -a /\ Sum(CashIn)' = Sum(CashIn) + 0
      BY <1>0, <1>2, <1>4, SumsGrow DEF If
    <3> QED
      BY <1>0, <1>2, <3>1, SumTypes
  <2>2. Refunds' = Refunds \cup {l}
    BY <1>2, <1>4 DEF Added, Refunds
  <2>3. ASSUME NEW Q \in SUBSET Pending', NEW m \in Nat, Covers(m, Q)'
        PROVE  Sum(Asked(Q))' - Sum(Refunds)' <= Sum(CashIn)' + (Cardinality(Operators) - 1) * m
    <3>1. Q \in SUBSET Pending /\ o \notin Q /\ Q \cup {o} \in SUBSET Pending /\ Asked(Q)' = Asked(Q)
      BY <1>1 DEF Asked, AskedOf, Pending
    <3>2. Covers(m, Q \cup {o})
      <4>1. a <= m
        BY <1>2, <2>2, <2>3 DEF Covers
      <4>2. \A e \in Refunds : -e.amount <= m
        BY <2>2, <2>3 DEF Covers
      <4>3. \A x \in Asked(Q) : x.amount <= m
        BY <2>3, <3>1 DEF Covers
      <4>4. \A x \in Asked(Q \cup {o}) : x \in Asked(Q) \/ x.amount = a
        BY DEF Asked, AskedOf, a
      <4> QED
        BY <4>1, <4>2, <4>3, <4>4 DEF Covers
    <3>3. Sum(Asked(Q \cup {o})) - Sum(Refunds) <= Sum(CashIn) + (Cardinality(Operators) - 1) * m
      BY <1>0, <3>1, <3>2 DEF RefundInv
    <3>4. Sum(Asked(Q \cup {o})) = Sum(Asked(Q)) + a /\ Sum(Asked(Q)) \in Int
      BY <1>0, <1>1, <3>1, AskedAdd, AskedType DEF a
    <3>5. Sum(Asked(Q)) - (Sum(Refunds) - a) = Sum(Asked(Q \cup {o})) - Sum(Refunds)
      BY <1>2, <2>1, <3>4
    <3> QED
      BY <2>1, <3>1, <3>3, <3>5
  <2> QED
    BY <2>3 DEF RefundInv
<1> QED
  BY <1>2, <1>3, <1>4

\* Every step keeps the account of the refunds.
LEMMA StepRefund == IInv /\ [Next]_vars => RefundInv'
<1> SUFFICES ASSUME IInv, [Next]_vars
             PROVE  RefundInv'
  OBVIOUS
<1>0. Types /\ Sum(CashIn) \in Int
  BY SumTypes DEF IInv
<1>1. ASSUME NEW l \in Lines, l.type # "REFUND", UNCHANGED ledger \/ Added(l), UNCHANGED refund
      PROVE  RefundInv'
  <2>1. l.amount \in Int
    BY KeyShape
  <2>2. UNCHANGED Refunds
    BY <1>1 DEF Added, Refunds
  <2>3. Sum(CashIn)' \in Int /\ Sum(CashIn)' >= Sum(CashIn)
    <3>1. CASE UNCHANGED ledger
      BY <1>0, <3>1 DEF CashIn
    <3>2. CASE Added(l)
      <4>1. Sum(CashIn)' = Sum(CashIn)
              + If(l.key[1] = "op" /\ l.cls = "CASH" /\ l.amount > 0, l.amount)
        BY <1>0, <3>2, SumsGrow
      <4> QED
        BY <1>0, <2>1, <4>1 DEF If
    <3> QED
      BY <1>1, <3>1, <3>2
  <2>4. Pending' = Pending /\ UNCHANGED refund
    BY <1>1 DEF Pending
  <2> QED
    BY <2>2, <2>3, <2>4, RefundKept
<1>2. ASSUME NEW t \in Turns, Charge(t)
      PROVE  RefundInv'
  <2>1. PICK cls \in Classes :
          /\ turn[t].customer \in Customers
          /\ UNCHANGED ledger \/ Added(Entry(<<"charge", turn[t].customer>>, "AI_USAGE", cls, -Price))
    BY <1>2, WritersAdd
  <2> DEFINE l == Entry(<<"charge", turn[t].customer>>, "AI_USAGE", cls, -Price)
  <2>2. l \in Lines /\ l.type # "REFUND"
    BY <2>1, EntryTypeOK DEF Entry
  <2> HIDE DEF l
  <2> QED
    BY <1>1, <1>2, <2>1, <2>2 DEF Charge, l
<1>3. ASSUME NEW f \in Forms, Adjust(f)
      PROVE  RefundInv'
  <2> DEFINE l == Entry(<<"op", f.key>>, TypeOf(f.kind), ClassOf(f.kind), f.amount)
  <2>1. l \in Lines /\ l.type # "REFUND"
    BY <1>3, EntryTypeOK DEF Entry, Adjust, TypeOf
  <2>2. UNCHANGED refund /\ (UNCHANGED ledger \/ Added(l))
    BY <1>3, WritersAdd DEF Adjust
  <2> HIDE DEF l
  <2> QED
    BY <1>1, <2>1, <2>2
<1>4. ASSUME NEW e \in ledger, Reverse(e)
      PROVE  RefundInv'
  <2> DEFINE l == Entry(<<"reverse", e.key[2]>>, "ADJUSTMENT", e.cls, Price)
  <2>1. e.cls \in Classes /\ e.key[2] \in Customers
    BY <1>0, <1>4, WritersAdd DEF Types, Lines
  <2>2. l \in Lines /\ l.type # "REFUND"
    BY <2>1, EntryTypeOK DEF Entry
  <2>3. UNCHANGED refund /\ (UNCHANGED ledger \/ Added(l))
    BY <1>4, WritersAdd DEF Reverse
  <2> HIDE DEF l
  <2> QED
    BY <1>1, <2>2, <2>3
<1>5. ASSUME NEW o \in Operators, NEW f \in Forms, CheckRefund(o, f)
      PROVE  RefundInv'
  BY <1>5, RefundChecked
<1>6. ASSUME NEW o \in Operators, RefundDies(o)
      PROVE  RefundInv'
  <2>1. Pending' \subseteq Pending /\ (\A q \in Pending' : refund'[q] = refund[q])
    BY <1>0, <1>6 DEF RefundDies, Pending, Types
  <2>2. UNCHANGED <<Refunds, CashIn>>
    BY <1>6 DEF RefundDies, Refunds, CashIn
  <2> QED
    BY <1>0, <2>1, <2>2, RefundKept
<1>7. CASE UNCHANGED <<ledger, refund>>
  <2>1. UNCHANGED <<Refunds, CashIn, Pending>>
    BY <1>7 DEF Refunds, CashIn, Pending
  <2> QED
    BY <1>0, <1>7, <2>1, RefundKept
<1> QED
  BY <1>2, <1>3, <1>4, <1>5, <1>6, <1>7, RefundWritten
     DEF Next, Gate, GateUnread, Record, Count, ReadBalance, GiveUp, vars

-----------------------------------------------------------------------------
(* The theorems.                                                            *)

\* No conversation and no operator breaks the inductive invariant.
LEMMA StepInductive == IInv /\ [Next]_vars => IInv'
  BY StepTypes, StepLines, StepTurns, StepMeter, StepDebt, StepCash, StepRefund DEF IInv

\* The inductive invariant holds throughout.
THEOREM Invariant == Spec => []IInv
  BY InitInductive, StepInductive, PTL DEF Spec

(* However conversations and operators race, nothing is written twice and   *)
(* the AI runs up a debt of at most one price for each conversation that is *)
(* answered at the same time and each gate that could not read              *)
(* (ai-gate.ts:129-151, ai-usage-charge.ts:46-72).                          *)
THEOREM BoundedDebt == Spec => []DebtIsBounded
<1>1. IInv => DebtIsBounded
  <2> SUFFICES ASSUME IInv
               PROVE  DebtIsBounded
    OBVIOUS
  <2>0. Types /\ DebtInv /\ (\A e \in ledger : LineInv(e)) /\ errors \in Nat
    BY PlanAssumption DEF IInv, Types
  <2>1. TypeOK
    <3>1. ASSUME NEW e \in ledger
          PROVE  LinesOf(e.key) = {e}
      BY <2>0 DEF LinesOf, LineInv
    <3>2. \A e \in ledger : e.cls \in {"CASH", "PROMO"} /\ e.amount \in Int
      BY <2>0 DEF Types, Lines, Classes
    <3>3. {e.key[2] : e \in Charges} \subseteq counted
      BY <2>0 DEF LineInv, Charges
    <3>4. {e.key[2] : e \in Reversals} \subseteq {e.key[2] : e \in Charges}
      BY <2>0 DEF LineInv, Reversals
    <3> QED
      BY <2>0, <3>1, <3>2, <3>3, <3>4 DEF TypeOK, Types
  <2>2. Kept >= -(Price * (Cardinality(Turns) + errors))
    <3> DEFINE a == Price * Cardinality(Live)
               b == Price * (Cardinality(Turns) + errors)
    <3>1. a \in Nat /\ b \in Nat /\ Kept \in Int
      BY <2>0, Finite, SumTypes, PlanAssumption
    <3>2. Kept - a >= -b
      BY <2>0 DEF DebtInv
    <3> HIDE DEF a, b
    <3>3. Kept >= -b
      BY <3>1, <3>2
    <3> QED
      BY <3>3 DEF b
  <2> QED
    BY <2>1, <2>2 DEF DebtIsBounded, Kept, Classes
<1> QED
  BY <1>1, Invariant, PTL

(* Nobody is charged while the plan includes all who are counted; beyond    *)
(* that, of those it includes at most as many are charged as conversations  *)
(* race with the one that crosses the line (ai-customer.ts:125-132,         *)
(* ai-usage-charge.ts:51).                                                  *)
THEOREM BoundedOvercharge == Spec => []OverchargeIsBounded
<1>1. IInv => OverchargeIsBounded
  <2> SUFFICES ASSUME IInv
               PROVE  OverchargeIsBounded
    OBVIOUS
  <2>1. /\ MeterInv /\ Included \in Nat /\ Cardinality(counted) \in Nat
        /\ Cardinality(Charges) \in Nat /\ Cardinality(Metering) \in Nat /\ Cardinality(Turns) \in Nat
    BY Finite, PlanAssumption DEF IInv
  <2>2. CASE Cardinality(counted) <= Included
    BY <2>1, <2>2 DEF MeterInv, OverchargeIsBounded
  <2>3. CASE Cardinality(counted) > Included
    BY <2>1, <2>3 DEF MeterInv, OverchargeIsBounded
  <2> QED
    BY <2>1, <2>2, <2>3
<1> QED
  BY <1>1, Invariant, PTL

\* Of finitely many numbers one is the largest.
LEMMA Largest ==
  ASSUME NEW S, IsFiniteSet(S)
  PROVE  S # {} /\ S \subseteq Int => Max(S) \in S /\ \A y \in S : y <= Max(S)
<1> DEFINE B == {s \in SUBSET S : s # {} /\ ~ \E x \in s : \A y \in s : x >= y}
<1>1. ASSUME S \subseteq Int
      PROVE  B = {}
  <2>1. SUFFICES ASSUME B # {}
                 PROVE  FALSE
    OBVIOUS
  <2>2. PICK s \in B : \A r \in B : ~(r \subseteq s /\ r # s)
    <3>1. B \subseteq SUBSET S /\ IsFiniteSet(S)
      OBVIOUS
    <3> HIDE DEF B
    <3> QED
      BY <2>1, <3>1, LeastSet
  <2>3. PICK e \in s : TRUE
    BY <2>2
  <2>4. s \ {e} \notin B /\ s \ {e} \subseteq S /\ e \in Int /\ s \subseteq Int
    BY <1>1, <2>2, <2>3
  <2>5. CASE s \ {e} = {}
    <3>1. \A y \in s : e >= y
      BY <2>4, <2>5
    <3> QED
      BY <2>2, <2>3, <3>1
  <2>6. CASE s \ {e} # {}
    <3>1. PICK x \in s \ {e} : \A y \in s \ {e} : x >= y
      BY <2>4, <2>6
    <3>2. PICK z \in {x, e} : z >= x /\ z >= e
      BY <2>4, <3>1
    <3>3. z \in s /\ \A y \in s : z >= y
      BY <2>3, <2>4, <3>1, <3>2
    <3> QED
      BY <2>2, <3>3
  <2> QED
    BY <2>5, <2>6
<1> SUFFICES ASSUME S # {}, S \subseteq Int
             PROVE  Max(S) \in S /\ \A y \in S : y <= Max(S)
  OBVIOUS
<1>2. \E x \in S : \A y \in S : x >= y
  BY <1>1
<1>3. Max(S) \in S /\ \A y \in S : Max(S) >= y
  BY <1>2 DEF Max
<1> QED
  BY <1>3

(* The money of gifts is not paid out: refunds exceed the cash that came in *)
(* by no more than one largest refund for each operator but one, who checked *)
(* the same balance (ai-balance.ts:397-409).                                *)
THEOREM RefundsOfCash == Spec => []RefundsAreOfCash
<1>1. IInv => RefundsAreOfCash
  <2> SUFFICES ASSUME IInv
               PROVE  RefundsAreOfCash
    OBVIOUS
  <2>1. Types /\ RefundInv /\ Sum(Refunds) \in Int /\ Sum(CashIn) \in Int
    BY SumTypes DEF IInv
  <2> DEFINE A == {-e.amount : e \in Refunds}
             m == Max({0} \cup A)
  <2>2. m \in Nat /\ \A e \in Refunds : -e.amount <= m
    <3> DEFINE f == [e \in Refunds |-> -e.amount]
    <3>1. f \in Surjection(Refunds, A)
      BY DEF Surjection
    <3>2. IsFiniteSet(Refunds) /\ Refunds \subseteq Lines
      BY <2>1, FS_Subset DEF Types, Refunds
    <3>3. IsFiniteSet(A)
      <4> HIDE DEF f, A
      <4> QED
        BY <3>1, <3>2, FS_Surjection
    <3>4. IsFiniteSet({0} \cup A)
      <4>1. A \cup {0} = {0} \cup A
        OBVIOUS
      <4> HIDE DEF A
      <4> QED
        BY <3>3, <4>1, FS_AddElement
    <3>5. A \subseteq Int
      <4>1. \A e \in Refunds : e.amount \in Int
        BY <3>2 DEF Lines
      <4> QED
        BY <4>1
    <3>6. m \in {0} \cup A /\ \A y \in {0} \cup A : y <= m
      <4>1. {0} \cup A # {} /\ {0} \cup A \subseteq Int
        BY <3>5
      <4> HIDE DEF A
      <4> QED
        BY <3>4, <4>1, Largest
    <3>7. m \in Int /\ 0 <= m
      <4> HIDE DEF m
      <4> QED
        BY <3>5, <3>6
    <3>8. \A e \in Refunds : -e.amount \in {0} \cup A
      OBVIOUS
    <3> HIDE DEF m, A
    <3>9. m \in Nat
      BY <3>7
    <3> QED
      BY <3>6, <3>8, <3>9
  <2>3. Asked({}) = {} /\ Covers(m, {})
    <3> HIDE DEF m
    <3> QED
      BY <2>2 DEF Asked, AskedOf, Covers
  <2>4. Sum(Asked({})) - Sum(Refunds) <= Sum(CashIn) + (Cardinality(Operators) - 1) * m
    <3> HIDE DEF m
    <3> QED
      BY <2>1, <2>2, <2>3 DEF RefundInv
  <2>5. -Sum(Refunds) <= Sum(CashIn) + (Cardinality(Operators) - 1) * m
    <3> DEFINE k == (Cardinality(Operators) - 1) * m
    <3>1. 0 - Sum(Refunds) <= Sum(CashIn) + k
      BY <2>3, <2>4, SumEmpty
    <3>2. 0 - Sum(Refunds) = -Sum(Refunds)
      BY <2>1
    <3> HIDE DEF k
    <3> QED
      BY <3>1, <3>2 DEF k
  <2> QED
    BY <2>5 DEF RefundsAreOfCash, CashIn
<1> QED
  BY <1>1, Invariant, PTL
==============================================================================
