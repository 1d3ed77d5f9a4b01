------------------------------ MODULE BetPromise ------------------------------
(***************************************************************************)
(* What the betting plane promises its owner, with no processes, files or  *)
(* calls in sight: money moves at most once for a bet, never for a         *)
(* proposal the owner has not approved, and what is booked for a day stays *)
(* within the daily cap.                                                   *)
(***************************************************************************)
EXTENDS Integers

CONSTANTS Bet, Proposal, Day, DailyCap

VARIABLES
    life,    \* life[i]: what the owner is told of proposal i
    on,      \* on[i]: how often bet i has been put on
    booked,  \* bets booked as placed
    spent    \* spent[d]: what is booked for day d

promiseVars == <<life, on, booked, spent>>

PromiseInit ==
    /\ life = [i \in Proposal |-> "absent"]
    /\ on = [i \in Bet |-> 0]
    /\ booked = {}
    /\ spent = [d \in Day |-> 0]

PutOn(i) ==
    /\ on[i] = 0
    /\ i \in Proposal => life[i] = "approved"
    /\ on' = [on EXCEPT ![i] = 1]
    /\ UNCHANGED <<life, booked, spent>>

Book(i, d, stake) ==
    /\ i \notin booked
    /\ spent[d] + stake <= DailyCap
    /\ booked' = booked \union {i}
    /\ spent' = [spent EXCEPT ![d] = @ + stake]
    /\ UNCHANGED <<life, on>>

\* What one step may make of a proposal.  The owner can decline it at any time.
MayBecome(i, from, to) ==
    \/ from = to
    \/ from = "absent" /\ to = "pending"
    \/ from = "pending" /\ to \in {"approved", "expired"}
    \/ from = "approved" /\ to = "expired"
    \/ from = "approved" /\ to = "placed" /\ i \in booked
    \/ from = "approved" /\ to = "failed" /\ i \notin booked
    \/ from # "absent" /\ to = "rejected"

Tell ==
    /\ \A i \in Proposal : MayBecome(i, life[i], life'[i])
    /\ DOMAIN life' = Proposal
    /\ UNCHANGED <<on, booked, spent>>

PromiseNext ==
    \/ \E i \in Bet : PutOn(i)
    \/ \E i \in Bet, d \in Day, stake \in 1..DailyCap : Book(i, d, stake)
    \/ Tell

Promise == PromiseInit /\ [][PromiseNext]_promiseVars
=============================================================================
