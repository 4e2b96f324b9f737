----------------------------- MODULE AiBalanceMC -----------------------------
EXTENDS AiBalance, TLC

CONSTANTS c1, c2, c3, c4, t1, t2, o1, o2

Form(key, kind, amount) == [key |-> key, kind |-> kind, amount |-> amount]

\* A top-up and a gift that do not come out even with a price of 2, and two refunds,
\* one of which is changed into a correction before it is sent again under its key.
MCForms == { Form("topup", "TOPUP", 3), Form("gift", "PROMO_CREDIT", 3),
             Form("refund", "REFUND", 2), Form("again", "REFUND", 2),
             Form("again", "ADJUST_CASH", -1) }

Symmetry == Permutations({c1, c2, c3, c4}) \cup Permutations({t1, t2}) \cup Permutations({o1, o2})
=============================================================================
