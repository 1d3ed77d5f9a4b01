------------------------------ MODULE BetPolicy ------------------------------
(***************************************************************************)
(* The single gate of the betting plane: betting/policy.py decides, from   *)
(* numbers only, what may be done with one candidate bet, and              *)
(* betting/drift.py decides whether a re-quoted price still supports it.   *)
(*                                                                         *)
(* Units.  Money is in cents, odds in hundredths (250 is decimal 2.50),    *)
(* the edge and the drift tolerance in thousandths, kelly_fraction in      *)
(* hundredths.  The code computes in floats; the one quotient below is     *)
(* floored to the cent.                                                    *)
(***************************************************************************)
EXTENDS Integers

Books == {"sportsbet", "tab", "entain", "unibet"}
VerifiedBooks == {"sportsbet", "tab"}
Modes == {"paper", "ask", "auto", "never"}
Verdicts == {"place", "ask", "paper", "skip"}

\* A policy that BettingPolicy.__post_init__ accepts.  book_modes is the total
\* map that mode_for reads; books = {} means every known book is eligible.
PolicyOK(policy) ==
    /\ policy.book_modes \in [Books -> Modes]
    /\ policy.books \subseteq Books
    /\ policy.stake_sizing \in {"flat", "kelly"}
    /\ policy.kelly_fraction \in 1..100
    /\ policy.min_ev \in Int /\ policy.bankroll \in Int
    /\ policy.base_stake \in Nat /\ policy.max_stake \in Nat
    /\ policy.daily_cap \in Nat /\ policy.max_open_exposure \in Nat
    /\ policy.max_bets_per_day \in Int
    /\ policy.max_price_drift \in Int
    /\ policy.allow_unverified_auto \in BOOLEAN

EligibleBooks(policy) == IF policy.books = {} THEN Books ELSE policy.books

Least(a, b) == IF a <= b THEN a ELSE b

\* Stake of one bet before the budget trims it; never above max_stake.
Size(policy, edge, odds) ==
    LET b == odds - 100
        raw == IF policy.stake_sizing = "flat" THEN policy.base_stake
               ELSE IF b <= 0 \/ policy.bankroll <= 0 THEN 0
               ELSE (policy.bankroll * edge * policy.kelly_fraction) \div (1000 * b)
        capped == Least(raw, policy.max_stake)
    IN  IF capped < 0 THEN 0 ELSE capped

\* Everything decide() wants before it looks at the budget.
Wanted(policy, bet) ==
    /\ bet.book \in EligibleBooks(policy)
    /\ policy.book_modes[bet.book] # "never"
    /\ bet.edge >= policy.min_ev
    /\ bet.odds > 100
    /\ Size(policy, bet.edge, bet.odds) > 0

\* Mutants of Trimmed and DriftOK.
TrimmedToDay(policy, bet, spent) ==
    Least(Size(policy, bet.edge, bet.odds), policy.daily_cap - spent.staked)
DriftOKForTheBook(policy, quoted, current) ==
    /\ quoted > 100 /\ current > 100
    /\ (current - quoted) * 1000 <= policy.max_price_drift * quoted \/ current <= quoted

\* The three limits, against what the ledger says is already spent.
HasRoom(policy, spent) ==
    /\ spent.bets < policy.max_bets_per_day
    /\ spent.staked < policy.daily_cap
    /\ spent.exposure < policy.max_open_exposure

\* The size, trimmed to what is left of the day and of the exposure.
Trimmed(policy, bet, spent) ==
    Least(Size(policy, bet.edge, bet.odds),
          Least(policy.daily_cap - spent.staked,
                policy.max_open_exposure - spent.exposure))

\* What the book's mode makes of a bet inside every limit.
VerdictOf(policy, book, quiet) ==
    LET mode == policy.book_modes[book]
        held == \/ book \notin VerifiedBooks /\ ~policy.allow_unverified_auto
                \/ quiet
    IN  IF mode \in {"paper", "ask"} THEN mode ELSE IF held THEN "ask" ELSE "place"

Decide(policy, bet, spent, quiet) ==
    IF Wanted(policy, bet) /\ HasRoom(policy, spent)
    THEN [verdict |-> VerdictOf(policy, bet.book, quiet),
          stake |-> Trimmed(policy, bet, spent)]
    ELSE [verdict |-> "skip", stake |-> 0]

\* runner._as_placing_policy: the copy under which an approved bet is placed.
PlacingPolicy(policy, book) ==
    [policy EXCEPT !.book_modes = [policy.book_modes EXCEPT ![book] = "auto"],
                   !.books = IF policy.books = {} THEN {} ELSE policy.books \union {book},
                   !.allow_unverified_auto = TRUE]

\* The drift gate: only a move against the bettor, beyond tolerance, fails it.
DriftOK(policy, quoted, current) ==
    /\ quoted > 100 /\ current > 100
    /\ (quoted - current) * 1000 <= policy.max_price_drift * quoted \/ current >= quoted
=============================================================================
