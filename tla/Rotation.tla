------------------------------- MODULE Rotation -------------------------------
(***************************************************************************)
(* How a fetcher with more to ask for than one cycle allows chooses: a     *)
(* window over the list that moves with the wall clock, one window per     *)
(* epoch, so that processes that remember nothing go on where the last     *)
(* one stopped (operations/ingestion/fetchers.py, _take_rotating).         *)
(***************************************************************************)
EXTENDS Integers, Sequences

OffsetByOne(n, cap, epoch) == epoch % n   \* mutant
Offset(n, cap, epoch) == (epoch * cap) % n

\* items[offset : offset + cap], and from the start of the list when that is short.
Rotating(items, cap, epoch) ==
    IF Len(items) <= cap THEN items
    ELSE [i \in 1..cap |->
            items[((Offset(Len(items), cap, epoch) + i - 1) % Len(items)) + 1]]
=============================================================================
