----------------------------- MODULE BettingPlane -----------------------------
(***************************************************************************)
(* The betting plane: the `agents bet` commands over the two files they    *)
(* share, the ledger and the store of proposals, and over the account at   *)
(* the bookmaker that only the book can read.                              *)
(*                                                                         *)
(* Every command is an operating-system process of its own, nothing locks  *)
(* the files, and the store is loaded once and later saved whole.  A step  *)
(* here is what a command does between two points where another process    *)
(* can get in: a load, a save, a row appended, one call to the book.       *)
(***************************************************************************)
EXTENDS BetPolicy, BetLedger

CONSTANTS
    Proc,          \* slots in which commands run, one command at a time each
    Policy,        \* the BettingPolicy every command loads
    Offers,        \* best candidates a comparison can yield: [book, odds, edge]
    Given,         \* commands the owner gives besides `bet scan`
    Quotes,        \* prices a book may quote when asked again
    BookAnswers,   \* kinds of answer the placement call can end with
    QuietTicks,    \* clock readings inside quiet_hours
    TTL,           \* DEFAULT_TTL_MINUTES, in ticks
    MaxCrashes     \* bound: commands killed half way

ProposalOf(i) == i + MaxScans     \* the proposal on_ask makes of scan i's intent
DayOf(t) == t \div TicksPerDay
AllAnswers == {"accept", "refuse", "odd", "lost"}

ASSUME PolicyAssumption == PolicyOK(Policy)
ASSUME OfferAssumption ==
    /\ Offers \subseteq [book : Books, odds : Nat, edge : Int]
    /\ Quotes \subseteq Nat
    /\ BookAnswers \subseteq AllAnswers
    /\ Given \subseteq {"approve", "reject", "pending", "place"}
ASSUME BoundAssumption ==
    /\ IsFiniteSet(Proc) /\ Proc # {}
    /\ MaxCrashes \in Nat /\ TTL \in Nat /\ QuietTicks \subseteq Nat

VARIABLES
    clock,     \* wall-clock time
    scans,     \* scans started so far: the source of fresh ids
    terms,     \* terms[i]: the immutable part of an intent or a proposal
    ledger,    \* the ledger file
    store,     \* the proposals file: the state of each proposal in it
    mem,       \* mem[p]: the Store object of p's command
    run,       \* run[p]: the command in slot p
    account,   \* what is really on at the books
    crashes

vars == <<clock, scans, terms, ledger, store, mem, run, account, crashes>>

(***************************************************************************)
(* State                                                                   *)
(***************************************************************************)

States == {"absent", "pending", "approved", "rejected", "expired", "placed", "failed"}
Copies == [Proposals -> States]
EmptyStore == [i \in Proposals |-> "absent"]

\* stake is the one written into the payload when the intent was built.
Terms == [book : Books \union {"none"}, odds : Nat, edge : Int, stake : Nat, expires : Nat]
NoTerms == [book |-> "none", odds |-> 0, edge |-> 0, stake |-> 0, expires |-> 0]

Commands == {"none", "scan", "approve", "reject", "pending", "place"}
MoneySteps == {"reprice", "validate", "send", "answered"}
Steps == {"idle", "loaded", "session", "decide", "ask", "outcome"} \union MoneySteps

Runs == [cmd : Commands, step : Steps, id : Id \union {0}, batch : SUBSET Proposals,
         stake : Nat, day : Day, price : Nat, answer : AllAnswers \union {"none"},
         placed : BOOLEAN]
Idle == [cmd |-> "none", step |-> "idle", id |-> 0, batch |-> {}, stake |-> 0,
         day |-> 0, price |-> 0, answer |-> "none", placed |-> FALSE]

\* Every variable keeps its type: the files hold only states and sums the code can
\* write, and a command only works on an intent that has been made.
TypeOK ==
    /\ clock \in 0..MaxTime /\ scans \in 0..MaxScans /\ crashes \in 0..MaxCrashes
    /\ terms \in [Id -> Terms]
    /\ ledger \in Ledgers
    /\ store \in Copies /\ mem \in [Proc -> Copies]
    /\ run \in [Proc -> Runs]
    /\ account \in [landings : [Id -> Nat], staked : [Day -> Nat]]

Init ==
    /\ clock = 0 /\ scans = 0 /\ crashes = 0
    /\ terms = [i \in Id |-> NoTerms]
    /\ ledger = EmptyLedger
    /\ store = EmptyStore
    /\ mem = [p \in Proc |-> EmptyStore]
    /\ run = [p \in Proc |-> Idle]
    /\ account = [landings |-> [i \in Id |-> 0], staked |-> [d \in Day |-> 0]]

(***************************************************************************)
(* Steps every command is made of                                          *)
(***************************************************************************)

At(p, cmd, step) == run[p].cmd = cmd /\ run[p].step = step

Exit(p) ==
    /\ run' = [run EXCEPT ![p] = Idle]
    /\ mem' = [mem EXCEPT ![p] = EmptyStore]

\* Store.save: the whole in-memory list replaces the file.
SaveAndExit(p, copy) == store' = copy /\ Exit(p)

\* A read of the store at `clock` marks what is in state s and overdue.
Overdue(i) == clock >= terms[i].expires
ExpireIn(copy, s) ==
    [i \in Proposals |-> IF copy[i] = s /\ Overdue(i) THEN "expired" ELSE copy[i]]

\* The `record` closure of run_intent, then its caller: a scan is over, a
\* placement run goes on to record_outcome.
Conclude(p, status, day, stake) ==
    /\ ledger' = AppendRow(ledger, [id |-> run[p].id, day |-> day,
                                    status |-> status, stake |-> stake])
    /\ IF run[p].cmd = "scan"
       THEN Exit(p)
       ELSE /\ run' = [run EXCEPT ![p].step = "outcome", ![p].placed = (status = "placed")]
            /\ UNCHANGED mem
    /\ UNCHANGED <<clock, scans, terms, store, account, crashes>>

RejectRow(p) == Conclude(p, "rejected", run[p].day, run[p].stake)

GoTo(p, step) ==
    /\ run' = [run EXCEPT ![p].step = step]
    /\ UNCHANGED <<clock, scans, terms, ledger, store, mem, account, crashes>>

(***************************************************************************)
(* bet scan                                                                *)
(***************************************************************************)

\* Books whose payload can be built from a quote; the scan of any other best
\* candidate ends with a note and changes nothing.
FromQuote == {"sportsbet", "entain", "unibet"}

BeginScan(p, offer) ==
    /\ run[p].step = "idle"
    /\ scans < MaxScans
    /\ offer.book \in FromQuote \intersect EligibleBooks(Policy)
    /\ scans' = scans + 1
    /\ mem' = [mem EXCEPT ![p] = store]
    /\ terms' = [terms EXCEPT ![scans + 1] =
           [book |-> offer.book, odds |-> offer.odds, edge |-> offer.edge,
            stake |-> Size(Policy, offer.edge, offer.odds), expires |-> 0]]
    /\ run' = [run EXCEPT ![p] = [Idle EXCEPT !.cmd = "scan", !.step = "decide",
                                              !.id = scans + 1]]
    /\ UNCHANGED <<clock, ledger, store, account, crashes>>

\* on_ask: the proposal carries the scan's payload, and the whole store the
\* scan loaded goes back to disk with the proposal at its end.
AddProposal(p) ==
    LET i == ProposalOf(run[p].id)
    IN  /\ At(p, "scan", "ask")
        /\ terms' = [terms EXCEPT ![i] = [terms[run[p].id] EXCEPT !.expires = clock + TTL]]
        /\ SaveAndExit(p, [mem[p] EXCEPT ![i] = "pending"])
        /\ UNCHANGED <<clock, scans, ledger, account, crashes>>

(***************************************************************************)
(* bet approve, bet reject, bet pending                                    *)
(***************************************************************************)

Load(p, cmd) ==
    /\ run[p].step = "idle"
    /\ mem' = [mem EXCEPT ![p] = store]
    /\ run' = [run EXCEPT ![p] = [Idle EXCEPT !.cmd = cmd, !.step = "loaded"]]
    /\ UNCHANGED <<clock, scans, terms, ledger, store, account, crashes>>

Approve(p, i) ==
    /\ At(p, "approve", "loaded")
    /\ mem[p][i] = "pending"
    /\ SaveAndExit(p, [mem[p] EXCEPT ![i] = IF Overdue(i) THEN "expired" ELSE "approved"])
    /\ UNCHANGED <<clock, scans, terms, ledger, account, crashes>>

\* "no single proposal matches", or "proposal is already ...".
NothingToApprove(p) ==
    /\ At(p, "approve", "loaded") \/ At(p, "reject", "loaded")
    /\ Exit(p)
    /\ UNCHANGED <<clock, scans, terms, ledger, store, account, crashes>>

\* reject() asks nothing about the state the proposal is in.
Reject(p, i) ==
    /\ At(p, "reject", "loaded")
    /\ mem[p][i] # "absent"
    /\ SaveAndExit(p, [mem[p] EXCEPT ![i] = "rejected"])
    /\ UNCHANGED <<clock, scans, terms, ledger, account, crashes>>

ListPending(p) ==
    /\ At(p, "pending", "loaded")
    /\ SaveAndExit(p, ExpireIn(mem[p], "pending"))
    /\ UNCHANGED <<clock, scans, terms, ledger, account, crashes>>

(***************************************************************************)
(* bet place                                                               *)
(***************************************************************************)

\* Store.approved(): in memory, what is overdue becomes expired; the rest is live.
LiveInOrFailed(copy) == {i \in Proposals : copy[i] \in {"approved", "failed"}}  \* mutant
LiveIn(copy) == {i \in Proposals : copy[i] = "approved"}
First(batch) == CHOOSE i \in batch : \A j \in batch : i <= j

\* The command looks for live approvals before it opens its MCP session.
OpenSession(p) ==
    LET copy == ExpireIn(mem[p], "approved")
    IN  /\ At(p, "place", "loaded")
        /\ IF LiveIn(copy) = {}
           THEN Exit(p)
           ELSE /\ run' = [run EXCEPT ![p].step = "session"]
                /\ mem' = [mem EXCEPT ![p] = copy]
        /\ UNCHANGED <<clock, scans, terms, ledger, store, account, crashes>>

\* place_approved takes its list once, and then works through it.
TakeBatch(p) ==
    LET copy == ExpireIn(mem[p], "approved")
        batch == LiveIn(copy)
    IN  /\ At(p, "place", "session")
        /\ IF batch = {}
           THEN Exit(p)
           ELSE /\ run' = [run EXCEPT ![p].step = "decide", ![p].batch = batch,
                                      ![p].id = First(batch)]
                /\ mem' = [mem EXCEPT ![p] = copy]
        /\ UNCHANGED <<clock, scans, terms, ledger, store, account, crashes>>

\* store.record_outcome, which saves the copy loaded when the command started.
RecordOutcome(p) ==
    LET copy == [mem[p] EXCEPT ![run[p].id] = IF run[p].placed THEN "placed" ELSE "failed"]
        rest == run[p].batch \ {run[p].id}
    IN  /\ At(p, "place", "outcome")
        /\ store' = copy
        /\ IF rest = {}
           THEN Exit(p)
           ELSE /\ run' = [run EXCEPT ![p] = [Idle EXCEPT !.cmd = "place", !.step = "decide",
                                                          !.batch = rest, !.id = First(rest)]]
                /\ mem' = [mem EXCEPT ![p] = copy]
        /\ UNCHANGED <<clock, scans, terms, ledger, account, crashes>>

(***************************************************************************)
(* execute.run_intent                                                      *)
(***************************************************************************)

BetOf(p) == terms[run[p].id]

\* The decision p takes now, under the policy its caller hands to run_intent.
Decision(p) ==
    LET spent == Spent(ledger, DayOf(clock))
    IN  IF run[p].cmd = "place"
        THEN Decide(PlacingPolicy(Policy, BetOf(p).book), BetOf(p), spent, FALSE)
        ELSE Decide(Policy, BetOf(p), spent, clock \in QuietTicks)

\* SKIP and PAPER: a row and nothing else.
Stop(p) ==
    /\ run[p].step = "decide"
    /\ \/ Decision(p).verdict = "skip" /\ Conclude(p, "skipped", DayOf(clock), 0)
       \/ Decision(p).verdict = "paper" /\ Conclude(p, "paper", DayOf(clock), Decision(p).stake)

\* ASK: the row first, the proposal after it.
Ask(p) ==
    /\ run[p].step = "decide"
    /\ Decision(p).verdict = "ask"
    /\ ledger' = AppendRow(ledger, [id |-> run[p].id, day |-> DayOf(clock),
                                    status |-> "asked", stake |-> Decision(p).stake])
    /\ run' = [run EXCEPT ![p].step = "ask"]
    /\ UNCHANGED <<clock, scans, terms, store, mem, account, crashes>>

\* PLACE: the day and the stake are fixed here, the row comes after the calls.
Clear(p) ==
    /\ run[p].step = "decide"
    /\ Decision(p).verdict = "place"
    /\ run' = [run EXCEPT ![p].step = "reprice", ![p].stake = Decision(p).stake,
                          ![p].day = DayOf(clock)]
    /\ UNCHANGED <<clock, scans, terms, ledger, store, mem, account, crashes>>

\* Books whose tools a scan's MCP session carries: live.scope_for gives it both groups
\* of each book in ask or auto, and MCPManager takes no groups at all to mean the
\* whole catalogue.
ScanScope ==
    LET scope == {b \in EligibleBooks(Policy) : Policy.book_modes[b] \in {"ask", "auto"}}
    IN  IF scope = {} THEN Books ELSE scope

\* bet_place asks for {book}.write and {book}.sport, and of the four re-price tools
\* only Unibet's lives in the latter.
RepriceScope(p) == IF run[p].cmd = "place" THEN {"unibet"} ELSE ScanScope

\* The call fails, is not in the session, or cannot be read.
RepriceFails(p) == run[p].step = "reprice" /\ RejectRow(p)

Reprice(p, quote) ==
    /\ run[p].step = "reprice"
    /\ BetOf(p).book \in RepriceScope(p)
    /\ IF DriftOK(Policy, BetOf(p).odds, quote)
       THEN /\ run' = [run EXCEPT
                          ![p].step = IF BetOf(p).book = "unibet" THEN "validate" ELSE "send",
                          ![p].price = quote]
            /\ UNCHANGED <<clock, scans, terms, ledger, store, mem, account, crashes>>
       ELSE RejectRow(p)

\* Kambi's go/no-go.
ValidateAgain(p) ==   \* mutant
    /\ run[p].step = "validate"
    /\ GoTo(p, "send") \/ GoTo(p, "reprice")
Validate(p) ==
    /\ run[p].step = "validate"
    /\ GoTo(p, "send") \/ RejectRow(p)

\* The one placement call, with the payload the intent was built with.  "odd" is
\* a body with neither a receipt nor a rejection, "lost" is an exception.
Send(p, answer, on) ==
    /\ run[p].step = "send"
    /\ answer = "accept" => on
    /\ answer = "refuse" => ~on
    /\ account' = IF on
                  THEN [landings |-> [account.landings EXCEPT ![run[p].id] = @ + 1],
                        staked |-> [account.staked EXCEPT ![DayOf(clock)] = @ + BetOf(p).stake]]
                  ELSE account
    /\ run' = [run EXCEPT ![p].step = "answered", ![p].answer = answer,
                          ![p].price = 0]
    /\ UNCHANGED <<clock, scans, terms, ledger, store, mem, crashes>>

\* _verdict_of: only Kambi's success is told by the absence of a refusal.
AcceptedUnlessRefused(book, answer) == answer # "refuse"   \* mutant
Accepted(book, answer) == answer = "accept" \/ (answer = "odd" /\ book = "unibet")

ReadAnswerRetrying(p) ==   \* mutant
    /\ run[p].step = "answered"
    /\ IF Accepted(BetOf(p).book, run[p].answer)
       THEN Conclude(p, "placed", run[p].day, run[p].stake)
       ELSE IF run[p].answer = "lost" THEN GoTo(p, "send") ELSE RejectRow(p)
ReadAnswer(p) ==
    /\ run[p].step = "answered"
    /\ IF Accepted(BetOf(p).book, run[p].answer)
       THEN Conclude(p, "placed", run[p].day, run[p].stake)
       ELSE RejectRow(p)

(***************************************************************************)
(* The environment                                                         *)
(***************************************************************************)

Tick ==
    /\ clock < MaxTime
    /\ clock' = clock + 1
    /\ UNCHANGED <<scans, terms, ledger, store, mem, run, account, crashes>>

\* The process dies: what it had in memory is gone, the files stay.
Crash(p) ==
    /\ run[p].step # "idle"
    /\ crashes < MaxCrashes
    /\ crashes' = crashes + 1
    /\ Exit(p)
    /\ UNCHANGED <<clock, scans, terms, ledger, store, account>>

Begin(p) ==
    \/ \E offer \in Offers : BeginScan(p, offer)
    \/ \E cmd \in Given : Load(p, cmd)

\* What a started command does by itself.
Step(p) ==
    \/ AddProposal(p)
    \/ \E i \in Proposals : Approve(p, i) \/ Reject(p, i)
    \/ NothingToApprove(p) \/ ListPending(p)
    \/ OpenSession(p) \/ TakeBatch(p) \/ RecordOutcome(p)
    \/ Stop(p) \/ Ask(p) \/ Clear(p)
    \/ RepriceFails(p) \/ \E quote \in Quotes : Reprice(p, quote)
    \/ Validate(p)
    \/ \E answer \in BookAnswers, on \in BOOLEAN : Send(p, answer, on)
    \/ ReadAnswer(p)

Next == Tick \/ \E p \in Proc : Begin(p) \/ Step(p) \/ Crash(p)

Spec == Init /\ [][Next]_vars

\* A started command is scheduled and its calls end (every MCP call has a
\* timeout); nobody is obliged to start one.
FairSpec == Spec /\ \A p \in Proc : WF_vars(Step(p))

(***************************************************************************)
(* Safety                                                                  *)
(***************************************************************************)

Others == Cardinality(Proc) - 1

\* A budget read before the calls and spent after them is overshot by at most one
\* bet for each other command: alone, a command keeps to max_bets_per_day.
BetsOvershootBounded ==
    \A d \in Day : ledger.bets[d] > 0 => ledger.bets[d] <= Policy.max_bets_per_day + Others

\* In the same way daily_cap is overshot by at most max_stake for each other
\* command, because decide() trims the stake to what is left of the day.
StakeOvershootBounded ==
    \A d \in Day : ledger.staked[d] <= Policy.daily_cap + Others * Policy.max_stake

\* And max_open_exposure, which runs over every day.
ExposureOvershootBounded ==
    ledger.open <= Policy.max_open_exposure + Others * Policy.max_stake

\* Of all three limits together.
OvershootBounded ==
    TypeOK /\ BetsOvershootBounded /\ StakeOvershootBounded /\ ExposureOvershootBounded

\* An unattended bet goes on at most once whatever crashes, times out or runs
\* beside it: run_intent calls the placement tool once and no later command
\* can come back to a scan's intent.
AutoPlacedOnce == \A i \in Intents : account.landings[i] <= 1

\* The ledger never counts a bet that is not on.  Unibet is the exception
\* _verdict_of makes: its success is inferred from the absence of a refusal.
PlacedRowsAreOn ==
    \A i \in Id : ledger.placed[i] > 0 /\ terms[i].book # "unibet" => account.landings[i] > 0

\* When commands do not overlap, the two files agree on the fate of a proposal even
\* if a command dies between the row and the save.
FateAgreesWithLedger ==
    \A i \in Proposals :
        /\ store[i] = "placed" => ledger.latest[i] = "placed"
        /\ store[i] = "failed" => ledger.latest[i] \in {"rejected", "skipped"}

\* A proposal or an intent is bet on at most once.
PlacedOnce == \A i \in Id : account.landings[i] <= 1

(***************************************************************************)
(* Action properties                                                       *)
(***************************************************************************)

Sends(p) == run[p].step = "send" /\ run'[p].step = "answered"

\* No bet is sent that has not been decided with room in the budget and then
\* re-priced, at no worse a price or inside the tolerance, approved by a human or not.
SendIsCleared ==
    [][\A p \in Proc : Sends(p) =>
          /\ \/ run[p].price >= BetOf(p).odds
             \/ (BetOf(p).odds - run[p].price) * 1000 <= Policy.max_price_drift * BetOf(p).odds
          /\ run[p].stake \in 1..Policy.max_stake]_vars

(***************************************************************************)
(* Refinement                                                              *)
(***************************************************************************)

\* Commands that do not overlap and do not die keep the promise of BetPromise.
Abstract == INSTANCE BetPromise WITH
    Bet <- Id, Proposal <- Proposals, DailyCap <- Policy.daily_cap,
    life <- store, on <- account.landings,
    booked <- {i \in Id : ledger.placed[i] > 0}, spent <- ledger.staked
KeepsPromise == Abstract!Promise

(***************************************************************************)
(* Liveness                                                                *)
(***************************************************************************)

\* Every command ends: a batch is worked off and no step is waited on for ever.
CommandsEnd == \A p \in Proc : run[p].step # "idle" ~> run[p].step = "idle"
=============================================================================
