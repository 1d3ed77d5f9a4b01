----------------------------- MODULE MCPriceStore -----------------------------
(* A small instance of PriceStore for TLC. *)
EXTENDS PriceStore, TLC

CONSTANTS p1, p2, k1, o1, o2

\* One point; a price said again with news; and two prices for the one key.
Quote(o, n) == [key |-> k1, odds |-> o, news |-> n]
AFewBatches ==
    {<<Quote(o, FALSE)>> : o \in Odds}
    \union {<<Quote(o, FALSE), Quote(o, TRUE)>> : o \in Odds}
    \union {<<Quote(o1, FALSE), Quote(o2, FALSE)>>, <<Quote(o2, FALSE), Quote(o1, FALSE)>>}

Symmetry == Permutations({p1, p2}) \union Permutations({o1, o2})
=============================================================================
