----------------------------- MODULE MCCheckout -----------------------------
(* Instances of Checkout for TLC. *)
EXTENDS Checkout, TLC

CONSTANTS t1, t2, t3, t4, t5, t6, t7, p1, p2, p9, b1, b9, k1, k2

Order(b, k, l) == [buyer |-> b, key |-> k, lines |-> l]
Of(p, q) == [product |-> p, quantity |-> q]

\* t2 takes the products of t1 in the other order and repeats one; t3 retries
\* t1, and t4 reuses its key; t5 takes a product and then has an unknown one;
\* t6 has an unknown buyer; t7 shares only the buyer with t4, and their sum is
\* more than the balance.
MCCall ==
  [t \in Calls |->
     CASE t = t1 -> Order(b1, k1, <<Of(p1, 1), Of(p2, 1)>>)
       [] t = t2 -> Order(b1, k2, <<Of(p2, 1), Of(p1, 1), Of(p2, 1)>>)
       [] t = t3 -> Order(b1, k1, <<Of(p1, 1), Of(p2, 1)>>)
       [] t = t4 -> Order(b1, k1, <<Of(p1, 3)>>)
       [] t = t5 -> Order(b1, NoKey, <<Of(p2, 1), Of(p9, 1)>>)
       [] t = t7 -> Order(b1, k2, <<Of(p2, 2)>>)
       [] OTHER  -> Order(b9, NoKey, <<Of(p1, 1)>>)]

\* t1 and t3 send the same, so they may be exchanged.
Symmetric == Permutations({t1, t3})

MCPrice == [p \in Products |-> IF p = p1 THEN 2 ELSE 3]
MCStock == [p \in Products |-> IF p = p1 THEN 3 ELSE 2]
MCBalance == [b \in Buyers |-> 11]

=============================================================================
