------------------------- MODULE BillingPaymentsMC -------------------------
(* Small instances of BillingPayments for TLC.                               *)
EXTENDS BillingPayments, TLC

CONSTANTS r1, r2, c1, c2

Transfer(codes, tops, enough, trust) ==
  [codes |-> codes, tops |-> tops, enough |-> enough, trust |-> trust]

\* For the first invoice in full or not, by the bank or by hand; for either; for a
\* top-up, in full or not; for a code of nobody; without any.
MCTransfers ==
  {Transfer({1}, {}, TRUE, "TRUSTED"), Transfer({1}, {}, FALSE, "TRUSTED"),
   Transfer({1}, {}, FALSE, "UNCONFIRMED"), Transfer({1, 2}, {}, TRUE, "OTHER_ACCOUNT"),
   Transfer({2}, {}, TRUE, "TRUSTED"), Transfer({0}, {}, TRUE, "TRUSTED"),
   Transfer({}, {1}, TRUE, "TRUSTED"), Transfer({}, {0, 1}, FALSE, "TRUSTED"),
   Transfer({}, {}, TRUE, "UNCONFIRMED")}

\* Rows and slots are interchangeable.
Symmetry == Permutations(Rows) \cup Permutations(Calls)
=============================================================================
