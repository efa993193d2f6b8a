----------------------------- MODULE MCCommerce -----------------------------
EXTENDS Commerce, TLC

CONSTANTS o1, o2, p1, p2, r1, r2

\* Both orders want the second product: the one with two lines runs out of stock
\* half way when the other one was first.
TwoLines == (o1 :> <<p1, p2>>) @@ (o2 :> <<p2>>)

\* Requests that overlap get two intents or a call that fails, not both.
OneTrouble == overlap => Len(intents) <= 1 \/ failures = 0

TwoRequests == {r1, r2}
RequestSymmetry == Permutations(TwoRequests)
=============================================================================
