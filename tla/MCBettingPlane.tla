---------------------------- MODULE MCBettingPlane ----------------------------
(* Small instances of BettingPlane for TLC. *)
EXTENDS BettingPlane, TLC

CONSTANTS p1, p2

Symmetry == Permutations(Proc)

\* Room for a bet and a half a day: the second is trimmed.
MCPolicy ==
    [book_modes |-> [b \in Books |-> IF b = "sportsbet" THEN "auto" ELSE "ask"],
     books |-> {}, min_ev |-> 30, stake_sizing |-> "flat", base_stake |-> 2,
     kelly_fraction |-> 25, bankroll |-> 0, max_stake |-> 2, daily_cap |-> 3,
     max_open_exposure |-> 4, max_bets_per_day |-> 2, max_price_drift |-> 20,
     allow_unverified_auto |-> FALSE]

\* Each book in a mode of its own.
MixedPolicy ==
    [MCPolicy EXCEPT !.book_modes = [sportsbet |-> "auto", unibet |-> "ask",
                                     entain |-> "paper", tab |-> "never"]]
\* Kelly at full fraction: a bet of 1 or of 2, so that each limit can be the one that binds.
KellyPolicy ==
    [MCPolicy EXCEPT !.stake_sizing = "kelly", !.kelly_fraction = 100, !.bankroll = 20]

AutoOffer == [book |-> "sportsbet", odds |-> 200, edge |-> 50]
AskOffer == [book |-> "unibet", odds |-> 200, edge |-> 50]
EntainOffer == [book |-> "entain", odds |-> 200, edge |-> 50]
ThinOffer == [book |-> "sportsbet", odds |-> 200, edge |-> 10]

AllOffers == {AutoOffer, AskOffer, EntainOffer, ThinOffer}
AskOffers == {AskOffer}
AutoOffers == {AutoOffer}
SmallAndLarge == {AutoOffer, [AutoOffer EXCEPT !.edge = 100]}

HeldAndShort == {200, 198, 150}
Held == {200}
HeldAndBetter == {200, 210}
=============================================================================
