------------------------------ MODULE PriceSeries ------------------------------
(***************************************************************************)
(* What the warehouse promises of a price that is watched: a series of     *)
(* levels, each seen later than the one before it and different from it.   *)
(* A level is added at the end when the price moves; retention takes the   *)
(* beginning away; and of a price whose capture was disturbed it promises  *)
(* nothing from then on.                                                   *)
(***************************************************************************)
EXTENDS Naturals

CONSTANTS Key, Odds

VARIABLE levels   \* levels[k]: the levels of k

\* A level and the instant it was first seen at.
Level == [at : Nat, odds : Odds]
Newest(series) == {l \in series : \A m \in series : m.at <= l.at}

Moved(old, new) ==
    \E l \in new :
        /\ l \in Level
        /\ \A m \in old : m.at < l.at
        /\ \A m \in Newest(old) : m.odds # l.odds
        /\ new = old \union {l}

Thinned(old, new) ==
    /\ new \subseteq old
    /\ \A m \in old \ new, l \in new : m.at < l.at

SeriesInit == levels = [k \in Key |-> {}]

SeriesNext ==
    /\ DOMAIN levels' = Key
    /\ \A k \in Key :
        \/ levels'[k] = levels[k]
        \/ Moved(levels[k], levels'[k])
        \/ Thinned(levels[k], levels'[k])

Promise == SeriesInit /\ [][SeriesNext]_levels
=============================================================================
