------------------------------ MODULE BetLedger ------------------------------
(***************************************************************************)
(* The betting ledger, betting/ledger.py, as its readers see it.           *)
(*                                                                         *)
(* The file is an append-only list of rows and every reader is a sum over  *)
(* them.  A ledger here is the value of those sums, moved by each appended *)
(* row; BetLedgerFile keeps the rows too and checks that the two agree.    *)
(***************************************************************************)
EXTENDS Integers, FiniteSets

CONSTANTS
    TicksPerDay,   \* clock readings to one UTC day
    MaxScans,      \* bound: scans started
    MaxTime        \* bound: last clock reading

ASSUME LedgerAssumption == MaxScans \in Nat /\ MaxTime \in Nat /\ TicksPerDay \in Nat \ {0}

Intents == 1..MaxScans                      \* a scan's Intent.intent_id
Proposals == (MaxScans + 1)..(2 * MaxScans) \* a BetProposal.id
Id == Intents \union Proposals
Day == 0..(MaxTime \div TicksPerDay)        \* UTC days

Status == {"paper", "asked", "placed", "rejected", "skipped"}

Row == [id : Id, day : Day, status : Status, stake : Nat]

Ledgers ==
    [staked   : [Day -> Nat],             \* what staked_on(day) returns
     bets     : [Day -> Nat],             \* what bets_on(day) returns
     open     : Int,                      \* what open_exposure() returns
     placed   : [Id -> Nat],              \* stake of the intent's "placed" rows
     rejected : SUBSET Id,                \* intents with a "rejected" row
     latest   : [Id -> Status \union {"none"}]]   \* status of latest(intent_id)

EmptyLedger ==
    [staked |-> [d \in Day |-> 0], bets |-> [d \in Day |-> 0],
     open |-> 0, placed |-> [i \in Id |-> 0], rejected |-> {},
     latest |-> [i \in Id |-> "none"]]

\* Mutants of the definitions below.
OpenedInOrder(ledger, row) ==
    IF row.status = "rejected" THEN -ledger.placed[row.id]
    ELSE IF row.status = "placed" THEN row.stake ELSE 0

\* Only a "placed" row spends budget.
Spending(row) == IF row.status = "placed" THEN row.stake ELSE 0

\* A "rejected" row takes every bet of its intent, placed before or after it, out
\* of the open exposure.
Opened(ledger, row) ==
    IF row.id \in ledger.rejected THEN 0
    ELSE IF row.status = "rejected" THEN -ledger.placed[row.id]
    ELSE Spending(row)

AppendRow(ledger, row) ==
    [staked   |-> [ledger.staked EXCEPT ![row.day] = @ + Spending(row)],
     bets     |-> [ledger.bets EXCEPT ![row.day] = IF row.status = "placed" THEN @ + 1 ELSE @],
     open     |-> ledger.open + Opened(ledger, row),
     placed   |-> [ledger.placed EXCEPT ![row.id] = @ + Spending(row)],
     rejected |-> IF row.status = "rejected" THEN ledger.rejected \union {row.id}
                  ELSE ledger.rejected,
     latest   |-> [ledger.latest EXCEPT ![row.id] = row.status]]

\* What run_intent reads off the ledger before it decides.
Spent(ledger, day) ==
    [staked |-> ledger.staked[day], bets |-> ledger.bets[day], exposure |-> ledger.open]
=============================================================================
