-------------------------------- MODULE Totals --------------------------------
(***************************************************************************)
(* sum() over a list: of the stakes of a ledger's lines, of what the       *)
(* frames of a run have still to write.  It is a recursive function on the *)
(* lengths of the prefixes and no fold, so that it can be proved about.    *)
(***************************************************************************)
EXTENDS Integers, Sequences

Subtotals(v) ==
    LET sum[n \in 0..Len(v)] == IF n = 0 THEN 0 ELSE sum[n - 1] + v[n] IN sum
Total(v) == Subtotals(v)[Len(v)]
===============================================================================
