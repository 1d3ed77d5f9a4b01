-------------------------- MODULE BettingPlaneProofs --------------------------
(***************************************************************************)
(* Theorems about BettingPlane for every policy, every set of offers and   *)
(* any number of commands at once: its types, what one step may do to the  *)
(* budget, and how far overlapping commands can push the ledger past each  *)
(* of the three limits of the policy.  Then what becomes of a bet: it goes *)
(* on once, a row that says so is true, and no price is sent that was not  *)
(* re-checked.  For commands that do not overlap: the store and the ledger *)
(* agree, and the plane implements BetPromise.  Last, that the ledger      *)
(* value all this is about is what the readers of the file return.         *)
(***************************************************************************)
EXTENDS BettingPlane, BetLedgerFile, FiniteSetTheorems, WellFoundedInduction, TLAPS

(***************************************************************************)
(* The gate                                                                *)
(***************************************************************************)

\* The part of PolicyOK the limits need; PlacingPolicy keeps it for any book.
LimitsOK(policy) ==
    /\ policy.kelly_fraction \in Int /\ policy.bankroll \in Int
    /\ policy.base_stake \in Nat /\ policy.max_stake \in Nat
    /\ policy.daily_cap \in Nat /\ policy.max_open_exposure \in Nat
    /\ policy.max_bets_per_day \in Int

\* policy.size() never exceeds max_stake, and is never negative.
LEMMA SizeBounded ==
    ASSUME NEW policy, LimitsOK(policy), NEW edge \in Int, NEW odds \in Nat
    PROVE  Size(policy, edge, odds) \in 0..policy.max_stake
<1> DEFINE b == odds - 100
           kelly == (policy.bankroll * edge * policy.kelly_fraction) \div (1000 * b)
<1>1. policy.base_stake \in Int /\ policy.max_stake \in Nat
  BY DEF LimitsOK
<1>2. ~(b <= 0) => kelly \in Int
  <2> SUFFICES ASSUME ~(b <= 0) PROVE kelly \in Int
    OBVIOUS
  <2>1. policy.bankroll \in Int /\ policy.kelly_fraction \in Int
    BY DEF LimitsOK
  <2>2. policy.bankroll * edge * policy.kelly_fraction \in Int
    BY <2>1
  <2>3. 1000 * b \in Int /\ 1000 * b > 0
    OBVIOUS
  <2> QED BY <2>2, <2>3
<1> QED BY <1>1, <1>2 DEF Size, Least

\* What decide() lets through is a positive stake inside every limit.
LEMMA DecisionWithinLimits ==
    ASSUME NEW policy, LimitsOK(policy),
           NEW bet \in Terms,
           NEW spent \in [staked : Nat, bets : Nat, exposure : Int],
           NEW quiet
    PROVE  LET d == Decide(policy, bet, spent, quiet)
           IN  /\ d.verdict \in Verdicts
               /\ d.stake \in 0..policy.max_stake
               /\ d.verdict # "skip" =>
                    /\ d.stake > 0
                    /\ spent.bets < policy.max_bets_per_day
                    /\ spent.staked + d.stake <= policy.daily_cap
                    /\ spent.exposure + d.stake <= policy.max_open_exposure
<1> DEFINE size == Size(policy, bet.edge, bet.odds)
<1>1. size \in 0..policy.max_stake
  BY SizeBounded DEF Terms
<1>2. /\ policy.daily_cap \in Nat /\ policy.max_open_exposure \in Nat
      /\ policy.max_stake \in Nat /\ policy.max_bets_per_day \in Int
  BY DEF LimitsOK
<1>3. VerdictOf(policy, bet.book, quiet) \in Verdicts \ {"skip"}
  BY DEF VerdictOf, Verdicts
<1>4. CASE Wanted(policy, bet) /\ HasRoom(policy, spent)
  <2> HIDE DEF size
  <2>1. size > 0
    BY <1>4, <1>1 DEF Wanted, size
  <2>2. /\ spent.bets < policy.max_bets_per_day
        /\ policy.daily_cap - spent.staked > 0
        /\ policy.max_open_exposure - spent.exposure > 0
    BY <1>4, <1>2 DEF HasRoom
  <2>3. Trimmed(policy, bet, spent) =
          Least(size, Least(policy.daily_cap - spent.staked,
                            policy.max_open_exposure - spent.exposure))
    BY DEF Trimmed, size
  <2>4. Decide(policy, bet, spent, quiet) =
          [verdict |-> VerdictOf(policy, bet.book, quiet),
           stake |-> Trimmed(policy, bet, spent)]
    BY <1>4 DEF Decide
  <2> QED BY <1>1, <1>2, <1>3, <2>1, <2>2, <2>3, <2>4 DEF Least
<1>5. CASE ~(Wanted(policy, bet) /\ HasRoom(policy, spent))
  BY <1>5, <1>2 DEF Decide, Verdicts
<1> QED BY <1>4, <1>5

\* The copy an approved bet is placed under keeps every limit of the policy.
LEMMA PlacingKeepsLimits ==
    ASSUME NEW book
    PROVE  LET placing == PlacingPolicy(Policy, book)
           IN  /\ LimitsOK(Policy) /\ LimitsOK(placing)
               /\ placing.max_stake = Policy.max_stake
               /\ placing.daily_cap = Policy.daily_cap
               /\ placing.max_open_exposure = Policy.max_open_exposure
               /\ placing.max_bets_per_day = Policy.max_bets_per_day

  BY PolicyAssumption DEF PolicyOK, LimitsOK, PlacingPolicy

(***************************************************************************)
(* The data                                                                *)
(***************************************************************************)

LEMMA BoundsTyped ==
    /\ MaxScans \in Nat /\ MaxTime \in Nat /\ MaxCrashes \in Nat /\ TTL \in Nat
    /\ TicksPerDay \in Nat \ {0}
    /\ Intents \subseteq Nat \ {0} /\ Proposals \subseteq Nat \ {0}
    /\ Intents \intersect Proposals = {}
    /\ IsFiniteSet(Proc) /\ Proc # {}
  BY BoundAssumption, LedgerAssumption DEF Intents, Proposals

LEMMA DayOfTyped ==
    ASSUME NEW t \in 0..MaxTime
    PROVE  DayOf(t) \in Day
<1>1. MaxTime \in Nat /\ TicksPerDay \in Nat \ {0}
  BY BoundsTyped
<1> QED BY <1>1 DEF DayOf, Day

LEMMA FirstTyped ==
    ASSUME NEW batch \in SUBSET Proposals, batch # {}
    PROVE  First(batch) \in batch
<1>1. batch \in SUBSET Nat
  BY BoundsTyped
<1> DEFINE Precedes == {pair \in Nat \X Nat : pair[1] < pair[2]}
<1>2. IsWellFoundedOn(Precedes, Nat)
  BY NatLessThanWellFounded, Zenon DEF OpToRel
<1>3. PICK x \in batch : \A y \in batch : ~(<<y, x>> \in Precedes)
  <2> HIDE DEF Precedes
  <2> QED BY <1>1, <1>2, WFMin
<1>4. \A y \in batch : x <= y
  <2> SUFFICES ASSUME NEW y \in batch, ~(x <= y) PROVE FALSE
    OBVIOUS
  <2>1. x \in Nat /\ y \in Nat
    BY <1>1
  <2>2. <<y, x>> \in Nat \X Nat /\ <<y, x>>[1] < <<y, x>>[2]
    BY <2>1
  <2>3. <<y, x>> \in Precedes
    BY <2>2, Zenon
  <2> QED BY <1>3, <2>3
<1> QED BY <1>4 DEF First

LEMMA ExpireInTyped ==
    ASSUME NEW copy \in Copies, NEW s
    PROVE  ExpireIn(copy, s) \in Copies
  BY DEF ExpireIn, Copies, States

\* A row moves the sums the way Ledger's readers would.
LEMMA AppendRowTyped ==
    ASSUME NEW l \in Ledgers, NEW row \in Row
    PROVE  LET m == AppendRow(l, row)
           IN  /\ m \in Ledgers
               /\ row.status # "placed" =>
                    m.staked = l.staked /\ m.bets = l.bets /\ m.open <= l.open
               /\ row.status = "placed" =>
                    /\ m.staked = [l.staked EXCEPT ![row.day] = l.staked[row.day] + row.stake]
                    /\ m.bets = [l.bets EXCEPT ![row.day] = l.bets[row.day] + 1]
                    /\ m.open <= l.open + row.stake
<1> DEFINE spends == Spending(row)
           counted == IF row.status = "placed" THEN l.bets[row.day] + 1 ELSE l.bets[row.day]
           opens == Opened(l, row)
           m == AppendRow(l, row)
<1>1. /\ l.staked \in [Day -> Nat] /\ l.bets \in [Day -> Nat] /\ l.open \in Int
      /\ l.placed \in [Id -> Nat] /\ l.rejected \in SUBSET Id
      /\ l.latest \in [Id -> Status \union {"none"}]
  BY DEF Ledgers
<1>2. row.id \in Id /\ row.day \in Day /\ row.status \in Status /\ row.stake \in Nat
  BY DEF Row
<1>3. spends \in Nat /\ opens \in Int /\ opens <= spends
  <2>1. l.placed[row.id] \in Nat
    BY <1>1, <1>2
  <2> QED BY <2>1, <1>2 DEF Spending, Opened
<1>4. m = [staked   |-> [l.staked EXCEPT ![row.day] = l.staked[row.day] + spends],
           bets     |-> [l.bets EXCEPT ![row.day] = counted],
           open     |-> l.open + opens,
           placed   |-> [l.placed EXCEPT ![row.id] = l.placed[row.id] + spends],
           rejected |-> IF row.status = "rejected" THEN l.rejected \union {row.id}
                        ELSE l.rejected,
           latest   |-> [l.latest EXCEPT ![row.id] = row.status]]
  BY DEF AppendRow
<1> HIDE DEF spends, counted, opens, m
<1>5. /\ m.staked \in [Day -> Nat] /\ m.bets \in [Day -> Nat] /\ m.open \in Int
      /\ m.placed \in [Id -> Nat] /\ m.rejected \in SUBSET Id
      /\ m.latest \in [Id -> Status \union {"none"}]
  <2>1. l.staked[row.day] + spends \in Nat /\ counted \in Nat
    BY <1>1, <1>2, <1>3 DEF counted
  <2>2. l.placed[row.id] + spends \in Nat /\ l.open + opens \in Int
    BY <1>1, <1>2, <1>3
  <2> QED BY <1>1, <1>2, <1>4, <2>1, <2>2
<1>6. m \in Ledgers
  BY <1>4, <1>5 DEF Ledgers
<1>7. ASSUME row.status # "placed"
      PROVE  m.staked = l.staked /\ m.bets = l.bets /\ m.open <= l.open
  <2>1. spends = 0 /\ counted = l.bets[row.day]
    BY <1>7 DEF spends, counted, Spending
  <2>2. l.staked[row.day] + 0 = l.staked[row.day]
    BY <1>1, <1>2
  <2> QED BY <1>1, <1>3, <1>4, <2>1, <2>2
<1>8. ASSUME row.status = "placed"
      PROVE  /\ m.staked = [l.staked EXCEPT ![row.day] = l.staked[row.day] + row.stake]
             /\ m.bets = [l.bets EXCEPT ![row.day] = l.bets[row.day] + 1]
             /\ m.open <= l.open + row.stake
  <2>1. spends = row.stake /\ counted = l.bets[row.day] + 1
    BY <1>8 DEF spends, counted, Spending
  <2> QED BY <1>1, <1>2, <1>3, <1>4, <2>1
<1> QED BY <1>6, <1>7, <1>8 DEF m

(***************************************************************************)
(* Type correctness                                                        *)
(***************************************************************************)

Working == {"decide", "ask", "outcome"} \union MoneySteps

\* What a command knows at each of its steps.
ShapeOf(r) ==
    /\ r.cmd = "scan" => r.id \in Intents
    /\ r.cmd = "place" /\ r.step \in Working => r.id \in r.batch
    /\ r.step \in Working => r.cmd \in {"scan", "place"}
    /\ r.step \in MoneySteps => r.stake \in 1..Policy.max_stake

Shaped == \A p \in Proc : ShapeOf(run[p])

\* TypeOK is not inductive: a step reads terms[run[p].id], and that id is one
\* only because of the command and the step p is at.
TypeInv == TypeOK /\ Shaped

\* p alone moves, to a record that is still typed and shaped.
Moves(p) ==
    /\ run' = [run EXCEPT ![p] = run'[p]]
    /\ run'[p] \in Runs /\ ShapeOf(run'[p])

LEMMA MovesTyped ==
    ASSUME TypeInv, NEW p \in Proc, Moves(p)
    PROVE  /\ run' \in [Proc -> Runs] /\ Shaped'
           /\ \A q \in Proc \ {p} : run'[q] = run[q]
  BY DEF TypeInv, TypeOK, Shaped, Moves

LEMMA IdleTyped ==
    /\ Idle \in Runs /\ ShapeOf(Idle) /\ EmptyStore \in Copies
    /\ Idle.step \notin Working
<1>1. 0 \in Day
  BY DayOfTyped, BoundsTyped DEF Day, DayOf
<1> QED BY <1>1 DEF Idle, Runs, ShapeOf, Commands, Steps, Working, MoneySteps, EmptyStore,
                     Copies, States

LEMMA ExitTyped ==
    ASSUME TypeInv, NEW p \in Proc, Exit(p)
    PROVE  Moves(p) /\ run'[p] = Idle /\ mem' \in [Proc -> Copies]
<1>1. run \in [Proc -> Runs] /\ mem \in [Proc -> Copies]
  BY DEF TypeInv, TypeOK
<1>2. run'[p] = Idle /\ run' = [run EXCEPT ![p] = Idle]
  BY <1>1 DEF Exit
<1> QED BY <1>1, <1>2, IdleTyped DEF Exit, Moves

LEMMA WorkingTyped ==
    ASSUME TypeInv, NEW p \in Proc, run[p].step \in Working
    PROVE  /\ run[p] \in Runs /\ ShapeOf(run[p])
           /\ run[p].id \in Id /\ BetOf(p) \in Terms
<1>1. run[p] \in Runs /\ ShapeOf(run[p]) /\ terms \in [Id -> Terms]
  BY DEF TypeInv, TypeOK, Shaped
<1>2. run[p].id \in Id
  BY <1>1 DEF Runs, ShapeOf, Id
<1> QED BY <1>1, <1>2 DEF BetOf

LEMMA SpentTyped ==
    ASSUME TypeInv
    PROVE  /\ DayOf(clock) \in Day
           /\ Spent(ledger, DayOf(clock)) \in [staked : Nat, bets : Nat, exposure : Int]
<1>1. DayOf(clock) \in Day /\ ledger \in Ledgers
  BY DayOfTyped DEF TypeInv, TypeOK
<1> QED BY <1>1 DEF Spent, Ledgers

\* Whatever policy a command decides under, what it clears is inside the limits.
LEMMA DecisionTyped ==
    ASSUME TypeInv, NEW p \in Proc, run[p].step = "decide"
    PROVE  /\ Decision(p).verdict \in Verdicts
           /\ Decision(p).stake \in 0..Policy.max_stake
           /\ Decision(p).verdict # "skip" =>
                /\ Decision(p).stake > 0
                /\ ledger.bets[DayOf(clock)] < Policy.max_bets_per_day
                /\ ledger.staked[DayOf(clock)] + Decision(p).stake <= Policy.daily_cap
                /\ ledger.open + Decision(p).stake <= Policy.max_open_exposure
<1> DEFINE spent == Spent(ledger, DayOf(clock))
           placing == PlacingPolicy(Policy, BetOf(p).book)
<1>1. BetOf(p) \in Terms
  BY WorkingTyped DEF Working
<1>2. spent \in [staked : Nat, bets : Nat, exposure : Int]
  BY SpentTyped
<1>3. /\ spent.bets = ledger.bets[DayOf(clock)]
      /\ spent.staked = ledger.staked[DayOf(clock)]
      /\ spent.exposure = ledger.open
  BY DEF Spent
<1>4. /\ LimitsOK(Policy) /\ LimitsOK(placing)
      /\ placing.max_stake = Policy.max_stake
      /\ placing.daily_cap = Policy.daily_cap
      /\ placing.max_open_exposure = Policy.max_open_exposure
      /\ placing.max_bets_per_day = Policy.max_bets_per_day
  BY PlacingKeepsLimits
<1>5. \/ Decision(p) = Decide(placing, BetOf(p), spent, FALSE)
      \/ Decision(p) = Decide(Policy, BetOf(p), spent, clock \in QuietTicks)
  BY DEF Decision
<1> HIDE DEF spent, placing
<1>6. ASSUME NEW policy, NEW quiet, LimitsOK(policy),
             policy.max_stake = Policy.max_stake,
             policy.daily_cap = Policy.daily_cap,
             policy.max_open_exposure = Policy.max_open_exposure,
             policy.max_bets_per_day = Policy.max_bets_per_day
      PROVE  LET d == Decide(policy, BetOf(p), spent, quiet)
             IN  /\ d.verdict \in Verdicts
                 /\ d.stake \in 0..Policy.max_stake
                 /\ d.verdict # "skip" =>
                      /\ d.stake > 0
                      /\ spent.bets < Policy.max_bets_per_day
                      /\ spent.staked + d.stake <= Policy.daily_cap
                      /\ spent.exposure + d.stake <= Policy.max_open_exposure
  <2> DEFINE bet == BetOf(p)
  <2>1. bet \in Terms
    BY <1>1
  <2> HIDE DEF bet
  <2>2. LET d == Decide(policy, bet, spent, quiet)
        IN  /\ d.verdict \in Verdicts
            /\ d.stake \in 0..policy.max_stake
            /\ d.verdict # "skip" =>
                 /\ d.stake > 0
                 /\ spent.bets < policy.max_bets_per_day
                 /\ spent.staked + d.stake <= policy.daily_cap
                 /\ spent.exposure + d.stake <= policy.max_open_exposure
    BY <1>2, <1>6, <2>1, DecisionWithinLimits
  <2> DEFINE d == Decide(policy, bet, spent, quiet)
  <2> HIDE DEF d
  <2> QED BY <1>6, <2>2 DEF bet, d
<1> DEFINE decision == Decision(p)
<1>7. /\ decision.verdict \in Verdicts
      /\ decision.stake \in 0..Policy.max_stake
      /\ decision.verdict # "skip" =>
           /\ decision.stake > 0
           /\ spent.bets < Policy.max_bets_per_day
           /\ spent.staked + decision.stake <= Policy.daily_cap
           /\ spent.exposure + decision.stake <= Policy.max_open_exposure
  <2>1. CASE Decision(p) = Decide(placing, BetOf(p), spent, FALSE)
    BY <1>4, <1>6, <2>1
  <2>2. CASE Decision(p) = Decide(Policy, BetOf(p), spent, clock \in QuietTicks)
    BY <1>4, <1>6, <2>2
  <2> QED BY <1>5, <2>1, <2>2
<1> HIDE DEF decision
<1>8. /\ decision.verdict # "skip" =>
           /\ decision.stake > 0
           /\ ledger.bets[DayOf(clock)] < Policy.max_bets_per_day
           /\ ledger.staked[DayOf(clock)] + decision.stake <= Policy.daily_cap
           /\ ledger.open + decision.stake <= Policy.max_open_exposure
  BY <1>3, <1>7
<1> QED BY <1>7, <1>8 DEF decision

(***************************************************************************)
(* What one step does to a command and to the ledger's sums                *)
(***************************************************************************)

SameSpent ==
    ledger'.staked = ledger.staked /\ ledger'.bets = ledger.bets /\ ledger'.open <= ledger.open

\* p is in the money steps after the step only if it was, with the same bet.
NoNewMoney(p) ==
    run'[p].step \in MoneySteps =>
        /\ run[p].step \in MoneySteps
        /\ run'[p].stake = run[p].stake /\ run'[p].day = run[p].day

\* p leaves the money steps with a "placed" row.
Spends(p) ==
    /\ run[p].step \in MoneySteps /\ run'[p].step \notin MoneySteps
    /\ LET day == run[p].day  stake == run[p].stake
       IN  /\ ledger'.staked = [ledger.staked EXCEPT ![day] = ledger.staked[day] + stake]
           /\ ledger'.bets = [ledger.bets EXCEPT ![day] = ledger.bets[day] + 1]
           /\ ledger'.open <= ledger.open + stake

\* p enters the money steps with what the limits leave.
Clears(p) ==
    /\ run[p].step \notin MoneySteps /\ ledger' = ledger
    /\ LET day == run'[p].day  stake == run'[p].stake
       IN  /\ ledger.bets[day] < Policy.max_bets_per_day
           /\ ledger.staked[day] + stake <= Policy.daily_cap
           /\ ledger.open + stake <= Policy.max_open_exposure

Effect(p) == (NoNewMoney(p) /\ SameSpent) \/ Spends(p) \/ Clears(p)

\* TypeInv and the effect, from what an action says of each variable.
LEMMA StepLifts ==
    ASSUME TypeInv, NEW p \in Proc, Moves(p), Effect(p),
           clock' = clock, scans' \in 0..MaxScans, terms' \in [Id -> Terms],
           ledger' \in Ledgers, store' \in Copies, mem' \in [Proc -> Copies],
           account' \in [landings : [Id -> Nat], staked : [Day -> Nat]],
           crashes' \in 0..MaxCrashes
    PROVE  TypeInv' /\ Moves(p) /\ Effect(p)
<1>1. run' \in [Proc -> Runs] /\ Shaped'
  BY MovesTyped
<1> QED BY <1>1 DEF TypeInv, TypeOK

\* The closure that writes the row of an intent and hands its fate back.
LEMMA ConcludeLifts ==
    ASSUME TypeInv, NEW p \in Proc, run[p].step \in Working,
           NEW status \in Status, NEW day \in Day, NEW stake \in Nat,
           Conclude(p, status, day, stake),
           status = "placed" => /\ run[p].step \in MoneySteps
                                /\ day = run[p].day /\ stake = run[p].stake
    PROVE  TypeInv' /\ Moves(p) /\ Effect(p)
<1> DEFINE row == [id |-> run[p].id, day |-> day, status |-> status, stake |-> stake]
<1>1. run[p] \in Runs /\ ShapeOf(run[p]) /\ run[p].id \in Id
  BY WorkingTyped
<1>2. /\ clock \in 0..MaxTime /\ scans \in 0..MaxScans /\ crashes \in 0..MaxCrashes
      /\ terms \in [Id -> Terms] /\ ledger \in Ledgers /\ store \in Copies
      /\ mem \in [Proc -> Copies] /\ run \in [Proc -> Runs]
      /\ account \in [landings : [Id -> Nat], staked : [Day -> Nat]]
  BY DEF TypeInv, TypeOK
<1>3. row \in Row /\ row.status = status /\ row.day = day /\ row.stake = stake
  BY <1>1 DEF Row
<1>4. ledger' = AppendRow(ledger, row)
  BY DEF Conclude
<1> HIDE DEF row
<1>5. ledger' \in Ledgers
  BY <1>2, <1>3, <1>4, AppendRowTyped
<1>6. status # "placed" => SameSpent
  BY <1>2, <1>3, <1>4, AppendRowTyped DEF SameSpent
<1>7. status = "placed" =>
        /\ ledger'.staked = [ledger.staked EXCEPT ![day] = ledger.staked[day] + stake]
        /\ ledger'.bets = [ledger.bets EXCEPT ![day] = ledger.bets[day] + 1]
        /\ ledger'.open <= ledger.open + stake
  BY <1>2, <1>3, <1>4, AppendRowTyped
<1>8. Moves(p) /\ mem' \in [Proc -> Copies] /\ run'[p].step \notin MoneySteps
  <2>1. CASE run[p].cmd = "scan"
    <3>1. Exit(p)
      BY <2>1 DEF Conclude
    <3> QED BY <3>1, ExitTyped, IdleTyped DEF Working
  <2>2. CASE run[p].cmd # "scan"
    <3>1. /\ run' = [run EXCEPT ![p].step = "outcome", ![p].placed = (status = "placed")]
          /\ mem' = mem
      BY <2>2 DEF Conclude
    <3>2. run'[p] = [run[p] EXCEPT !.step = "outcome", !.placed = (status = "placed")]
      BY <3>1, <1>2
    <3>3. run'[p] \in Runs
      BY <3>2, <1>1 DEF Runs, Steps
    <3>4. /\ run'[p].step = "outcome" /\ run'[p].cmd = run[p].cmd
          /\ run'[p].id = run[p].id /\ run'[p].batch = run[p].batch
      BY <3>2, <1>1 DEF Runs
    <3>5. ShapeOf(run'[p])
      BY <3>4, <1>1 DEF ShapeOf, Working, MoneySteps
    <3> QED BY <1>2, <3>1, <3>2, <3>3, <3>4, <3>5 DEF Moves, MoneySteps
  <2> QED BY <2>1, <2>2
<1>9. Effect(p)
  <2>1. CASE status # "placed"
    BY <2>1, <1>6, <1>8 DEF Effect, NoNewMoney
  <2>2. CASE status = "placed"
    BY <2>2, <1>7, <1>8 DEF Effect, Spends
  <2> QED BY <2>1, <2>2
<1>10. /\ clock' = clock /\ scans' = scans /\ terms' = terms /\ store' = store
       /\ account' = account /\ crashes' = crashes
  BY DEF Conclude
<1> QED BY <1>2, <1>5, <1>8, <1>9, <1>10, StepLifts

\* The commands' own steps, outside run_intent.
LEMMA CommandLifts ==
    ASSUME TypeInv, NEW p \in Proc,
           \/ Begin(p) \/ AddProposal(p)
           \/ \E i \in Proposals : Approve(p, i) \/ Reject(p, i)
           \/ NothingToApprove(p) \/ ListPending(p)
           \/ OpenSession(p) \/ TakeBatch(p) \/ RecordOutcome(p)
           \/ Crash(p)
    PROVE  TypeInv' /\ Moves(p) /\ Effect(p)
<1>1. /\ clock \in 0..MaxTime /\ scans \in 0..MaxScans /\ crashes \in 0..MaxCrashes
      /\ terms \in [Id -> Terms] /\ ledger \in Ledgers /\ store \in Copies
      /\ mem \in [Proc -> Copies] /\ run \in [Proc -> Runs]
      /\ account \in [landings : [Id -> Nat], staked : [Day -> Nat]]
  BY DEF TypeInv, TypeOK
<1>2. run[p] \in Runs /\ ShapeOf(run[p])
  BY <1>1 DEF TypeInv, Shaped
<1>3. ledger.open \in Int
  BY <1>1 DEF Ledgers
<1>4. \* A step that leaves the ledger alone and p outside the money steps.
      ASSUME ledger' = ledger, run'[p].step \notin MoneySteps
      PROVE  Effect(p) /\ ledger' \in Ledgers
  BY <1>1, <1>3, <1>4 DEF Effect, NoNewMoney, SameSpent
<1>5. ASSUME Exit(p), ledger' = ledger
      PROVE  /\ Moves(p) /\ mem' \in [Proc -> Copies]
             /\ Effect(p) /\ ledger' \in Ledgers
  BY <1>4, <1>5, ExitTyped, IdleTyped DEF Working
<1>6. CASE Begin(p)
  <2>1. ASSUME NEW offer \in Offers, BeginScan(p, offer)
        PROVE  TypeInv' /\ Moves(p) /\ Effect(p)
    <3>1. offer.book \in Books /\ offer.odds \in Nat /\ offer.edge \in Int
      BY OfferAssumption
    <3>2. scans + 1 \in 1..MaxScans /\ scans + 1 \in Intents
      BY <1>1, <2>1, BoundsTyped DEF BeginScan, Intents
    <3>3. Size(Policy, offer.edge, offer.odds) \in Nat
      <4>1. LimitsOK(Policy) /\ Policy.max_stake \in Nat
        BY PlacingKeepsLimits DEF LimitsOK
      <4> QED BY <3>1, <4>1, SizeBounded
    <3>4. terms' \in [Id -> Terms]
      BY <1>1, <2>1, <3>1, <3>2, <3>3 DEF BeginScan, Terms
    <3>5. run'[p] = [Idle EXCEPT !.cmd = "scan", !.step = "decide", !.id = scans + 1]
      BY <1>1, <2>1 DEF BeginScan
    <3>6. run'[p] \in Runs
      BY <3>2, <3>5, IdleTyped DEF Runs, Commands, Steps, Id
    <3>7. /\ run'[p].cmd = "scan" /\ run'[p].step = "decide"
          /\ run'[p].id = scans + 1
      BY <3>5 DEF Idle
    <3>8. ShapeOf(run'[p]) /\ run'[p].step \notin MoneySteps
      BY <3>2, <3>7 DEF ShapeOf, MoneySteps
    <3>9. Moves(p)
      BY <1>1, <2>1, <3>5, <3>6, <3>8 DEF BeginScan, Moves
    <3>10. /\ clock' = clock /\ ledger' = ledger /\ store' = store /\ account' = account
           /\ crashes' = crashes /\ scans' \in 0..MaxScans /\ mem' \in [Proc -> Copies]
      BY <1>1, <2>1, <3>2 DEF BeginScan
    <3> QED BY <1>1, <1>4, <3>4, <3>8, <3>9, <3>10, StepLifts
  <2>2. ASSUME NEW cmd \in Given, Load(p, cmd)
        PROVE  TypeInv' /\ Moves(p) /\ Effect(p)
    <3>1. cmd \in {"approve", "reject", "pending", "place"}
      BY OfferAssumption
    <3>2. run'[p] = [Idle EXCEPT !.cmd = cmd, !.step = "loaded"]
      BY <1>1, <2>2 DEF Load
    <3>3. run'[p] \in Runs
      BY <3>1, <3>2, IdleTyped DEF Runs, Commands, Steps
    <3>4. run'[p].cmd = cmd /\ run'[p].step = "loaded"
      BY <3>2 DEF Idle
    <3>5. ShapeOf(run'[p]) /\ run'[p].step \notin MoneySteps
      BY <3>1, <3>4 DEF ShapeOf, Working, MoneySteps
    <3>6. Moves(p)
      BY <1>1, <2>2, <3>2, <3>3, <3>5 DEF Load, Moves
    <3>7. /\ clock' = clock /\ scans' = scans /\ terms' = terms /\ ledger' = ledger
          /\ store' = store /\ account' = account /\ crashes' = crashes
          /\ mem' \in [Proc -> Copies]
      BY <1>1, <2>2 DEF Load
    <3> QED BY <1>1, <1>4, <3>5, <3>6, <3>7, StepLifts
  <2> QED BY <1>6, <2>1, <2>2 DEF Begin
<1>7. CASE AddProposal(p)
  <2>1. terms[run[p].id] \in Terms
    BY <1>7, WorkingTyped DEF AddProposal, At, Working, BetOf
  <2>2. clock + TTL \in Nat
    BY <1>1, BoundsTyped
  <2>3. [terms[run[p].id] EXCEPT !.expires = clock + TTL] \in Terms
    BY <2>1, <2>2 DEF Terms
  <2>4. terms' \in [Id -> Terms]
    BY <1>1, <1>7, <2>3 DEF AddProposal
  <2>5. store' \in Copies
    BY <1>1, <1>7 DEF AddProposal, SaveAndExit, Copies, States
  <2>6. Exit(p) /\ UNCHANGED <<clock, scans, ledger, account, crashes>>
    BY <1>7 DEF AddProposal, SaveAndExit
  <2> QED BY <1>1, <1>5, <2>4, <2>5, <2>6, StepLifts
<1>8. ASSUME NEW i \in Proposals, Approve(p, i) \/ Reject(p, i)
      PROVE  TypeInv' /\ Moves(p) /\ Effect(p)
  <2>1. store' \in Copies
    BY <1>1, <1>8 DEF Approve, Reject, SaveAndExit, Copies, States
  <2>2. Exit(p) /\ UNCHANGED <<clock, scans, terms, ledger, account, crashes>>
    BY <1>8 DEF Approve, Reject, SaveAndExit
  <2> QED BY <1>1, <1>5, <2>1, <2>2, StepLifts
<1>9. CASE NothingToApprove(p)
  <2>1. Exit(p) /\ UNCHANGED <<clock, scans, terms, ledger, store, account, crashes>>
    BY <1>9 DEF NothingToApprove
  <2> QED BY <1>1, <1>5, <2>1, StepLifts
<1>10. CASE ListPending(p)
  <2>1. store' \in Copies
    BY <1>1, <1>10, ExpireInTyped DEF ListPending, SaveAndExit
  <2>2. Exit(p) /\ UNCHANGED <<clock, scans, terms, ledger, account, crashes>>
    BY <1>10 DEF ListPending, SaveAndExit
  <2> QED BY <1>1, <1>5, <2>1, <2>2, StepLifts
<1>11. CASE OpenSession(p)
  <2>1. UNCHANGED <<clock, scans, terms, ledger, store, account, crashes>>
    BY <1>11 DEF OpenSession
  <2>2. CASE Exit(p)
    BY <1>1, <1>5, <2>1, <2>2, StepLifts
  <2>3. CASE ~Exit(p)
    <3>1. /\ run' = [run EXCEPT ![p].step = "session"]
          /\ mem' = [mem EXCEPT ![p] = ExpireIn(mem[p], "approved")]
      BY <1>11, <2>3 DEF OpenSession
    <3>2. mem' \in [Proc -> Copies]
      BY <1>1, <3>1, ExpireInTyped
    <3>3. run'[p] = [run[p] EXCEPT !.step = "session"]
      BY <1>1, <3>1
    <3>4. run'[p] \in Runs /\ run'[p].step = "session" /\ run'[p].cmd = "place"
      BY <1>2, <1>11, <3>3 DEF Runs, Steps, OpenSession, At
    <3>5. ShapeOf(run'[p]) /\ run'[p].step \notin MoneySteps
      BY <3>4 DEF ShapeOf, Working, MoneySteps
    <3>6. Moves(p)
      BY <1>1, <3>1, <3>3, <3>4, <3>5 DEF Moves
    <3> QED BY <1>1, <1>4, <2>1, <3>2, <3>5, <3>6, StepLifts
  <2> QED BY <2>2, <2>3
<1>12. CASE TakeBatch(p)
  <2> DEFINE copy == ExpireIn(mem[p], "approved")
             batch == LiveIn(copy)
  <2>1. UNCHANGED <<clock, scans, terms, ledger, store, account, crashes>>
    BY <1>12 DEF TakeBatch
  <2>2. CASE Exit(p)
    BY <1>1, <1>5, <2>1, <2>2, StepLifts
  <2>3. CASE ~Exit(p)
    <3>1. /\ run' = [run EXCEPT ![p].step = "decide", ![p].batch = batch,
                                ![p].id = First(batch)]
          /\ mem' = [mem EXCEPT ![p] = copy] /\ batch # {}
      BY <1>12, <2>3 DEF TakeBatch
    <3>2. mem' \in [Proc -> Copies]
      BY <1>1, <3>1, ExpireInTyped
    <3>3. batch \in SUBSET Proposals /\ First(batch) \in batch
      BY <3>1, FirstTyped DEF LiveIn
    <3>4. run'[p] = [run[p] EXCEPT !.step = "decide", !.batch = batch, !.id = First(batch)]
      BY <1>1, <3>1
    <3> HIDE DEF batch
    <3>5. /\ run'[p] \in Runs /\ run'[p].step = "decide" /\ run'[p].cmd = "place"
          /\ run'[p].id = First(batch) /\ run'[p].batch = batch
      BY <1>2, <1>12, <3>3, <3>4 DEF Runs, Steps, TakeBatch, At, Id
    <3>6. ShapeOf(run'[p]) /\ run'[p].step \notin MoneySteps
      BY <3>3, <3>5 DEF ShapeOf, MoneySteps
    <3>7. Moves(p)
      BY <1>1, <3>1, <3>4, <3>5, <3>6 DEF Moves
    <3> QED BY <1>1, <1>4, <2>1, <3>2, <3>6, <3>7, StepLifts
  <2> QED BY <2>2, <2>3
<1>13. CASE RecordOutcome(p)
  <2> DEFINE fate == IF run[p].placed THEN "placed" ELSE "failed"
             copy == [mem[p] EXCEPT ![run[p].id] = fate]
             rest == run[p].batch \ {run[p].id}
  <2>1. UNCHANGED <<clock, scans, terms, ledger, account, crashes>> /\ store' = copy
    BY <1>13 DEF RecordOutcome
  <2>2. copy \in Copies
    BY <1>1 DEF Copies, States
  <2>3. CASE Exit(p)
    BY <1>1, <1>5, <2>1, <2>2, <2>3, StepLifts
  <2>4. CASE ~Exit(p)
    <3> HIDE DEF copy
    <3>1. /\ run' = [run EXCEPT ![p] = [Idle EXCEPT !.cmd = "place", !.step = "decide",
                                                    !.batch = rest, !.id = First(rest)]]
          /\ mem' = [mem EXCEPT ![p] = copy] /\ rest # {}
      BY <1>13, <2>4 DEF RecordOutcome, copy
    <3>2. mem' \in [Proc -> Copies]
      BY <1>1, <2>2, <3>1
    <3>3. rest \in SUBSET Proposals /\ First(rest) \in rest
      BY <1>2, <3>1, FirstTyped DEF Runs
    <3> HIDE DEF rest
    <3>4. run'[p] = [Idle EXCEPT !.cmd = "place", !.step = "decide",
                                 !.batch = rest, !.id = First(rest)]
      BY <1>1, <3>1
    <3>5. /\ run'[p] \in Runs /\ run'[p].step = "decide" /\ run'[p].cmd = "place"
          /\ run'[p].id = First(rest) /\ run'[p].batch = rest
      BY <3>3, <3>4, IdleTyped DEF Runs, Steps, Commands, Id, Idle
    <3>6. ShapeOf(run'[p]) /\ run'[p].step \notin MoneySteps
      BY <3>3, <3>5 DEF ShapeOf, MoneySteps
    <3>7. Moves(p)
      BY <1>1, <3>1, <3>4, <3>5, <3>6 DEF Moves
    <3> QED BY <1>1, <1>4, <2>1, <2>2, <3>2, <3>6, <3>7, StepLifts
  <2> QED BY <2>3, <2>4
<1>14. CASE Crash(p)
  <2>1. Exit(p) /\ UNCHANGED <<clock, scans, terms, ledger, store, account>>
    BY <1>14 DEF Crash
  <2>2. crashes' \in 0..MaxCrashes
    BY <1>1, <1>14, BoundsTyped DEF Crash
  <2> QED BY <1>1, <1>5, <2>1, <2>2, StepLifts
<1> QED BY <1>6, <1>7, <1>8, <1>9, <1>10, <1>11, <1>12, <1>13, <1>14

\* A money step that stays one, with the bet it was decided for.
LEMMA MoneyLifts ==
    ASSUME TypeInv, NEW p \in Proc, run[p].step \in MoneySteps,
           run' = [run EXCEPT ![p] = run'[p]],
           run'[p] \in Runs, run'[p].step \in MoneySteps,
           run'[p].cmd = run[p].cmd, run'[p].id = run[p].id, run'[p].batch = run[p].batch,
           run'[p].stake = run[p].stake, run'[p].day = run[p].day,
           account' \in [landings : [Id -> Nat], staked : [Day -> Nat]],
           UNCHANGED <<clock, scans, terms, ledger, store, mem, crashes>>
    PROVE  TypeInv' /\ Moves(p) /\ Effect(p)
<1>1. /\ scans \in 0..MaxScans /\ crashes \in 0..MaxCrashes
      /\ terms \in [Id -> Terms] /\ ledger \in Ledgers /\ store \in Copies
      /\ mem \in [Proc -> Copies]
  BY DEF TypeInv, TypeOK
<1>2. ShapeOf(run[p])
  BY WorkingTyped DEF Working
<1>3. Moves(p)
  BY <1>2 DEF Moves, ShapeOf, Working
<1>4. ledger.open \in Int
  BY <1>1 DEF Ledgers
<1>5. Effect(p)
  BY <1>4 DEF Effect, NoNewMoney, SameSpent
<1> QED BY <1>1, <1>3, <1>5, StepLifts

\* run_intent, from the decision to the row that ends it.
LEMMA RunIntentLifts ==
    ASSUME TypeInv, NEW p \in Proc,
           \/ Stop(p) \/ Ask(p) \/ Clear(p)
           \/ RepriceFails(p) \/ \E quote \in Quotes : Reprice(p, quote)
           \/ Validate(p)
           \/ \E answer \in BookAnswers, on \in BOOLEAN : Send(p, answer, on)
           \/ ReadAnswer(p)
    PROVE  TypeInv' /\ Moves(p) /\ Effect(p)
<1>1. /\ clock \in 0..MaxTime /\ scans \in 0..MaxScans /\ crashes \in 0..MaxCrashes
      /\ terms \in [Id -> Terms] /\ ledger \in Ledgers /\ store \in Copies
      /\ mem \in [Proc -> Copies] /\ run \in [Proc -> Runs]
      /\ account \in [landings : [Id -> Nat], staked : [Day -> Nat]]
  BY DEF TypeInv, TypeOK
<1>2. run[p] \in Runs /\ ShapeOf(run[p])
  BY <1>1 DEF TypeInv, Shaped
<1>3. ledger.open \in Int /\ DayOf(clock) \in Day /\ Policy.max_stake \in Nat
  BY <1>1, SpentTyped, PlacingKeepsLimits DEF Ledgers, LimitsOK
<1>4. {"paper", "skipped", "asked", "placed", "rejected"} \subseteq Status
  BY DEF Status
<1>5. run[p].stake \in Nat /\ run[p].day \in Day /\ run[p].price \in Nat
      /\ run[p].answer \in AllAnswers \union {"none"}
  BY <1>2 DEF Runs
<1>6. ASSUME run[p].step \in MoneySteps, RejectRow(p)
      PROVE  TypeInv' /\ Moves(p) /\ Effect(p)
  BY <1>4, <1>5, <1>6, ConcludeLifts DEF RejectRow, Working
<1>7. CASE Stop(p)
  <2>1. run[p].step = "decide" /\ run[p].step \in Working
    BY <1>7 DEF Stop, Working
  <2>2. Decision(p).stake \in Nat
    BY <1>3, <2>1, DecisionTyped
  <2>3. CASE Conclude(p, "skipped", DayOf(clock), 0)
    BY <1>3, <1>4, <2>1, <2>3, ConcludeLifts
  <2>4. CASE Conclude(p, "paper", DayOf(clock), Decision(p).stake)
    BY <1>3, <1>4, <2>1, <2>2, <2>4, ConcludeLifts
  <2> QED BY <1>7, <2>3, <2>4 DEF Stop
<1>8. CASE Ask(p)
  <2> DEFINE row == [id |-> run[p].id, day |-> DayOf(clock),
                     status |-> "asked", stake |-> Decision(p).stake]
  <2>1. run[p].step = "decide" /\ run[p].step \in Working
    BY <1>8 DEF Ask, Working
  <2>2. Decision(p).stake \in Nat /\ run[p].id \in Id
    BY <1>3, <2>1, DecisionTyped, WorkingTyped
  <2>3. row \in Row /\ row.status # "placed"
    BY <1>3, <1>4, <2>2 DEF Row
  <2>4. ledger' = AppendRow(ledger, row)
    BY <1>8 DEF Ask
  <2> HIDE DEF row
  <2>5. ledger' \in Ledgers /\ SameSpent
    BY <1>1, <2>3, <2>4, AppendRowTyped DEF SameSpent
  <2>6. run'[p] = [run[p] EXCEPT !.step = "ask"]
    BY <1>1, <1>8 DEF Ask
  <2>7. /\ run'[p] \in Runs /\ run'[p].step = "ask" /\ run'[p].cmd = run[p].cmd
        /\ run'[p].id = run[p].id /\ run'[p].batch = run[p].batch
    BY <1>2, <2>6 DEF Runs, Steps
  <2>8. ShapeOf(run'[p]) /\ run'[p].step \notin MoneySteps
    BY <1>2, <2>1, <2>7 DEF ShapeOf, Working, MoneySteps
  <2>9. Moves(p) /\ Effect(p)
    BY <1>1, <1>8, <2>5, <2>6, <2>7, <2>8 DEF Ask, Moves, Effect, NoNewMoney
  <2>10. UNCHANGED <<clock, scans, terms, store, mem, account, crashes>>
    BY <1>8 DEF Ask
  <2> QED BY <1>1, <2>5, <2>9, <2>10, StepLifts
<1>9. CASE Clear(p)
  <2>1. run[p].step = "decide" /\ run[p].step \in Working
    BY <1>9 DEF Clear, Working
  <2>2. /\ Decision(p).stake \in 1..Policy.max_stake
        /\ ledger.bets[DayOf(clock)] < Policy.max_bets_per_day
        /\ ledger.staked[DayOf(clock)] + Decision(p).stake <= Policy.daily_cap
        /\ ledger.open + Decision(p).stake <= Policy.max_open_exposure
    BY <1>3, <1>9, <2>1, DecisionTyped DEF Clear
  <2>3. run'[p] = [run[p] EXCEPT !.step = "reprice", !.stake = Decision(p).stake,
                                 !.day = DayOf(clock)]
    BY <1>1, <1>9 DEF Clear
  <2>4. Decision(p).stake \in Nat
    BY <1>3, <2>2
  <2>5. /\ run'[p] \in Runs /\ run'[p].step = "reprice" /\ run'[p].cmd = run[p].cmd
        /\ run'[p].id = run[p].id /\ run'[p].batch = run[p].batch
        /\ run'[p].stake = Decision(p).stake /\ run'[p].day = DayOf(clock)
    BY <1>2, <1>3, <2>3, <2>4 DEF Runs, Steps, MoneySteps
  <2>6. ShapeOf(run'[p])
    BY <1>2, <2>1, <2>2, <2>5 DEF ShapeOf, Working
  <2>7. Moves(p)
    BY <1>1, <1>9, <2>3, <2>5, <2>6 DEF Clear, Moves
  <2>8. UNCHANGED <<clock, scans, terms, ledger, store, mem, account, crashes>>
    BY <1>9 DEF Clear
  <2>9. Clears(p)
    BY <2>1, <2>2, <2>5, <2>8 DEF Clears, MoneySteps
  <2> QED BY <1>1, <2>7, <2>8, <2>9, StepLifts DEF Effect
<1>10. CASE RepriceFails(p)
  BY <1>6, <1>10 DEF RepriceFails, MoneySteps
<1>11. ASSUME NEW quote \in Quotes, Reprice(p, quote)
       PROVE  TypeInv' /\ Moves(p) /\ Effect(p)
  <2>1. run[p].step \in MoneySteps /\ quote \in Nat
    BY <1>11, OfferAssumption DEF Reprice, MoneySteps
  <2>2. CASE DriftOK(Policy, BetOf(p).odds, quote)
    <3> DEFINE step == IF BetOf(p).book = "unibet" THEN "validate" ELSE "send"
    <3>1. /\ run' = [run EXCEPT ![p].step = step, ![p].price = quote]
          /\ UNCHANGED <<clock, scans, terms, ledger, store, mem, account, crashes>>
      BY <1>11, <2>2 DEF Reprice
    <3>2. step \in MoneySteps
      BY DEF MoneySteps
    <3> HIDE DEF step
    <3>3. run'[p] = [run[p] EXCEPT !.step = step, !.price = quote]
      BY <1>1, <3>1
    <3>4. run'[p] \in Runs /\ run'[p].step = step
      BY <1>2, <2>1, <3>2, <3>3 DEF Runs, Steps
    <3>5. /\ run'[p].cmd = run[p].cmd /\ run'[p].id = run[p].id
          /\ run'[p].batch = run[p].batch
          /\ run'[p].stake = run[p].stake /\ run'[p].day = run[p].day
      BY <1>2, <3>3 DEF Runs
    <3>6. run' = [run EXCEPT ![p] = run'[p]]
      BY <1>1, <3>1, <3>3
    <3> QED BY <1>1, <2>1, <3>1, <3>2, <3>4, <3>5, <3>6, MoneyLifts
  <2>3. CASE ~DriftOK(Policy, BetOf(p).odds, quote)
    BY <1>6, <1>11, <2>1, <2>3 DEF Reprice
  <2> QED BY <2>2, <2>3
<1>12. CASE Validate(p)
  <2>1. run[p].step \in MoneySteps /\ (GoTo(p, "send") \/ RejectRow(p))
    BY <1>12 DEF Validate, MoneySteps
  <2>2. CASE GoTo(p, "send")
    <3>1. /\ run' = [run EXCEPT ![p].step = "send"]
          /\ UNCHANGED <<clock, scans, terms, ledger, store, mem, account, crashes>>
      BY <2>2 DEF GoTo
    <3>2. run'[p] = [run[p] EXCEPT !.step = "send"]
      BY <1>1, <3>1
    <3>3. /\ run'[p] \in Runs /\ run'[p].step \in MoneySteps
          /\ run'[p].cmd = run[p].cmd /\ run'[p].id = run[p].id
          /\ run'[p].batch = run[p].batch
          /\ run'[p].stake = run[p].stake /\ run'[p].day = run[p].day
      BY <1>2, <3>2 DEF Runs, Steps, MoneySteps
    <3>4. run' = [run EXCEPT ![p] = run'[p]]
      BY <1>1, <3>1, <3>2
    <3> QED BY <1>1, <2>1, <3>1, <3>3, <3>4, MoneyLifts
  <2> QED BY <1>6, <2>1, <2>2
<1>13. ASSUME NEW answer \in BookAnswers, NEW on \in BOOLEAN, Send(p, answer, on)
       PROVE  TypeInv' /\ Moves(p) /\ Effect(p)
  <2>1. run[p].step \in MoneySteps /\ run[p].step \in Working
    BY <1>13 DEF Send, MoneySteps, Working
  <2>2. run[p].id \in Id /\ BetOf(p).stake \in Nat
    BY <2>1, WorkingTyped DEF Terms
  <2>3. account' \in [landings : [Id -> Nat], staked : [Day -> Nat]]
    <3>1. account.landings \in [Id -> Nat] /\ account.staked \in [Day -> Nat]
      BY <1>1
    <3>2. /\ account.landings[run[p].id] + 1 \in Nat
          /\ account.staked[DayOf(clock)] + BetOf(p).stake \in Nat
      BY <1>3, <2>2, <3>1
    <3> QED BY <1>1, <1>13, <3>1, <3>2 DEF Send
  <2> DEFINE price == 0
  <2>4. /\ run' = [run EXCEPT ![p].step = "answered", ![p].answer = answer, ![p].price = price]
        /\ UNCHANGED <<clock, scans, terms, ledger, store, mem, crashes>>
    BY <1>13 DEF Send
  <2>5. run'[p] = [run[p] EXCEPT !.step = "answered", !.answer = answer, !.price = price]
    BY <1>1, <2>4
  <2>6. /\ answer \in AllAnswers \union {"none"} /\ price \in Nat
        /\ "answered" \in MoneySteps
    BY OfferAssumption DEF MoneySteps
  <2> HIDE DEF price
  <2>7. run'[p] \in Runs /\ run'[p].step \in MoneySteps
    BY <1>2, <2>5, <2>6 DEF Runs, Steps
  <2>8. /\ run'[p].cmd = run[p].cmd /\ run'[p].id = run[p].id
        /\ run'[p].batch = run[p].batch
        /\ run'[p].stake = run[p].stake /\ run'[p].day = run[p].day
    BY <1>2, <2>5 DEF Runs
  <2>9. run' = [run EXCEPT ![p] = run'[p]]
    BY <1>1, <2>4, <2>5
  <2> QED BY <2>1, <2>3, <2>4, <2>7, <2>8, <2>9, MoneyLifts
<1>14. CASE ReadAnswer(p)
  <2>1. run[p].step \in MoneySteps /\ run[p].step \in Working
    BY <1>14 DEF ReadAnswer, MoneySteps, Working
  <2>2. CASE Conclude(p, "placed", run[p].day, run[p].stake)
    BY <1>4, <1>5, <2>1, <2>2, ConcludeLifts
  <2> QED BY <1>6, <1>14, <2>1, <2>2 DEF ReadAnswer
<1> QED BY <1>7, <1>8, <1>9, <1>10, <1>11, <1>12, <1>13, <1>14

(***************************************************************************)
(* The theorem                                                             *)
(***************************************************************************)

\* Every step is a tick of the clock, or one command's move with its effect.
LEMMA NextLifts ==
    ASSUME TypeInv, Next
    PROVE  /\ TypeInv'
           /\ \/ UNCHANGED <<ledger, run>>
              \/ \E p \in Proc : Moves(p) /\ Effect(p)
<1>1. CASE Tick
  <2>1. clock' \in 0..MaxTime
    BY <1>1, BoundsTyped DEF Tick, TypeInv, TypeOK
  <2> QED BY <1>1, <2>1 DEF Tick, TypeInv, TypeOK, Shaped
<1>2. ASSUME NEW p \in Proc, Begin(p) \/ Step(p) \/ Crash(p)
      PROVE  TypeInv' /\ Moves(p) /\ Effect(p)
  <2>1. CASE Begin(p) \/ Crash(p)
    BY <2>1, CommandLifts
  <2>2. CASE Step(p)
    BY <2>2, CommandLifts, RunIntentLifts DEF Step
  <2> QED BY <1>2, <2>1, <2>2
<1> QED BY <1>1, <1>2 DEF Next

LEMMA InitTyped == Init => TypeInv
<1> SUFFICES ASSUME Init PROVE TypeInv
  OBVIOUS
<1>1. clock \in 0..MaxTime /\ scans \in 0..MaxScans /\ crashes \in 0..MaxCrashes
  BY BoundsTyped DEF Init
<1>2. terms \in [Id -> Terms]
  BY DEF Init, NoTerms, Terms
<1>3. ledger \in Ledgers
  BY DEF Init, EmptyLedger, Ledgers
<1>4. store \in Copies /\ mem \in [Proc -> Copies]
  BY IdleTyped DEF Init
<1>5. run \in [Proc -> Runs] /\ Shaped
  BY IdleTyped DEF Init, Shaped
<1>6. account \in [landings : [Id -> Nat], staked : [Day -> Nat]]
  BY DEF Init
<1> QED BY <1>1, <1>2, <1>3, <1>4, <1>5, <1>6 DEF TypeInv, TypeOK

LEMMA TypeInvCorrect == Spec => []TypeInv
<1>1. TypeInv /\ [Next]_vars => TypeInv'
  <2> SUFFICES ASSUME TypeInv, [Next]_vars PROVE TypeInv'
    OBVIOUS
  <2>1. CASE Next
    BY <2>1, NextLifts
  <2>2. CASE UNCHANGED vars
    BY <2>2 DEF vars, TypeInv, TypeOK, Shaped
  <2> QED BY <2>1, <2>2
<1> QED BY <1>1, InitTyped, PTL DEF Spec

\* Every variable keeps its type: in particular no command ever works on an
\* intent that has no terms, records a day or a stake it has not decided, or
\* leaves the store with a state BetProposal does not have.
THEOREM TypeCorrect == Spec => []TypeOK
  BY TypeInvCorrect, PTL DEF TypeInv

(***************************************************************************)
(* The limits of the policy, for any number of commands, any policy and    *)
(* any interleaving of their loads, calls, rows, saves and crashes.        *)
(*                                                                         *)
(* A command that has been cleared and has not yet written its row is in   *)
(* flight: its bet is in nobody's sum.  The invariants count it.           *)
(***************************************************************************)

InFlight == {p \in Proc : run[p].step \in MoneySteps}
InFlightOn(day) == {p \in InFlight : run[p].day = day}

LEMMA FlightFinite ==
    ASSUME NEW F \in SUBSET Proc
    PROVE  /\ IsFiniteSet(F) /\ Cardinality(F) \in 0..Cardinality(Proc)
           /\ (Cardinality(F) = 0 <=> F = {})
           /\ Cardinality(Proc) \in Nat \ {0}
           /\ \A p \in F : Cardinality(F \ {p}) = Cardinality(F) - 1
           /\ \A G \in SUBSET F : Cardinality(G) <= Cardinality(F)
<1>1. IsFiniteSet(Proc) /\ Proc # {}
  BY BoundsTyped
<1>2. IsFiniteSet(F) /\ Cardinality(F) <= Cardinality(Proc)
  BY <1>1, FS_Subset
<1>3. Cardinality(F) \in Nat /\ Cardinality(Proc) \in Nat
  BY <1>1, <1>2, FS_CardinalityType
<1>4. Cardinality(F) = 0 <=> F = {}
  BY <1>2, FS_EmptySet
<1>5. Cardinality(Proc) # 0
  BY <1>1, FS_EmptySet
<1>6. \A p \in F : Cardinality(F \ {p}) = Cardinality(F) - 1
  BY <1>2, FS_RemoveElement
<1>7. \A G \in SUBSET F : Cardinality(G) <= Cardinality(F)
  BY <1>2, FS_Subset
<1> QED BY <1>2, <1>3, <1>4, <1>5, <1>6, <1>7

LEMMA FlightMoves ==
    ASSUME TypeInv, NEW p \in Proc, Moves(p)
    PROVE  /\ run[p] \in Runs /\ run'[p] \in Runs
           /\ \A q \in Proc \ {p} : run'[q] = run[q]
           /\ InFlight \in SUBSET Proc /\ InFlight' \in SUBSET Proc
           /\ NoNewMoney(p) =>
                /\ InFlight' \subseteq InFlight
                /\ \A q \in InFlight' : run'[q].stake = run[q].stake /\ run'[q].day = run[q].day
           /\ Spends(p) => p \in InFlight /\ InFlight' = InFlight \ {p}
           /\ Clears(p) => p \notin InFlight /\ InFlight' \subseteq InFlight \union {p}
<1>1. run \in [Proc -> Runs] /\ run' \in [Proc -> Runs]
      /\ \A q \in Proc \ {p} : run'[q] = run[q]
  BY MovesTyped DEF TypeInv, TypeOK
<1> QED BY <1>1 DEF InFlight, NoNewMoney, Spends, Clears

(***************************************************************************)
(* max_bets_per_day                                                        *)
(***************************************************************************)

\* The day's bets, those in flight included.
Owing(d) == ledger.bets[d] + Cardinality(InFlightOn(d))

\* The limit may be negative: then no bet is ever cleared.
BetsInv == \A d \in Day : Owing(d) = 0 \/ Owing(d) <= Policy.max_bets_per_day + Others

LEMMA OwingTyped ==
    ASSUME TypeInv, NEW d \in Day
    PROVE  /\ ledger.bets[d] \in Nat /\ InFlightOn(d) \in SUBSET Proc
           /\ Cardinality(InFlightOn(d)) \in 0..Cardinality(Proc)
           /\ Owing(d) \in Nat /\ Others \in Nat /\ Others = Cardinality(Proc) - 1
           /\ Policy.max_bets_per_day \in Int
<1>1. ledger.bets[d] \in Nat /\ Policy.max_bets_per_day \in Int
  BY PlacingKeepsLimits DEF TypeInv, TypeOK, Ledgers, LimitsOK
<1>2. InFlightOn(d) \in SUBSET Proc
  BY DEF InFlightOn, InFlight
<1>3. /\ Cardinality(InFlightOn(d)) \in 0..Cardinality(Proc)
      /\ Cardinality(Proc) \in Nat \ {0}
  BY <1>2, FlightFinite
<1> QED BY <1>1, <1>2, <1>3 DEF Owing, Others

LEMMA OwingMoves ==
    ASSUME TypeInv, TypeInv', NEW p \in Proc, Moves(p), Effect(p), NEW d \in Day
    PROVE  /\ Owing(d)' \in Nat
           /\ Owing(d)' <= Owing(d) \/ Owing(d)' <= Policy.max_bets_per_day + Others
<1> DEFINE bets == ledger.bets[d]
           newBets == ledger'.bets[d]
           flight == Cardinality(InFlightOn(d))
           newFlight == Cardinality(InFlightOn(d)')
<1>1. /\ bets \in Nat /\ newBets \in Nat /\ flight \in Nat
      /\ newFlight \in 0..Cardinality(Proc) /\ Cardinality(Proc) \in Nat
      /\ Others = Cardinality(Proc) - 1 /\ Policy.max_bets_per_day \in Int
  <2>1. newBets \in Nat /\ newFlight \in 0..Cardinality(Proc)
    <3>1. InFlightOn(d)' \in SUBSET Proc
      BY DEF InFlightOn, InFlight
    <3>2. newFlight \in 0..Cardinality(Proc)
      BY <3>1, FlightFinite
    <3> QED BY <3>2 DEF TypeInv, TypeOK, Ledgers
  <2> QED BY <2>1, OwingTyped, FlightFinite
<1>2. Owing(d) = bets + flight /\ Owing(d)' = newBets + newFlight
  BY DEF Owing
<1>3. InFlightOn(d) \in SUBSET Proc
  BY OwingTyped
<1>4. CASE NoNewMoney(p) /\ SameSpent
  <2>1. InFlightOn(d)' \subseteq InFlightOn(d) /\ newBets = bets
    BY <1>4, FlightMoves DEF InFlightOn, SameSpent
  <2>2. newFlight <= flight
    BY <1>3, <2>1, FlightFinite
  <2> HIDE DEF bets, newBets, flight, newFlight
  <2> QED BY <1>1, <1>2, <2>1, <2>2
<1>5. CASE Spends(p)
  <2>1. ledger.bets \in [Day -> Nat]
    BY DEF TypeInv, TypeOK, Ledgers
  <2>2. CASE run[p].day = d
    <3>1. newBets = bets + 1
      BY <1>5, <2>1, <2>2 DEF Spends
    <3>2. InFlightOn(d)' = InFlightOn(d) \ {p} /\ p \in InFlightOn(d)
      BY <1>5, <2>2, FlightMoves DEF InFlightOn
    <3>3. newFlight = flight - 1
      BY <1>3, <3>2, FlightFinite
    <3> HIDE DEF bets, newBets, flight, newFlight
    <3> QED BY <1>1, <1>2, <3>1, <3>3
  <2>3. CASE run[p].day # d
    <3>1. newBets = bets
      BY <1>5, <2>1, <2>3 DEF Spends
    <3>2. InFlightOn(d)' = InFlightOn(d)
      BY <1>5, <2>3, FlightMoves DEF InFlightOn
    <3> QED BY <1>1, <1>2, <3>1, <3>2
  <2> QED BY <2>2, <2>3
<1>6. CASE Clears(p)
  <2>1. newBets = bets
    BY <1>6 DEF Clears
  <2>2. CASE run'[p].day = d
    <3>1. bets < Policy.max_bets_per_day
      BY <1>6, <2>2 DEF Clears
    <3> HIDE DEF bets, newBets, flight, newFlight
    <3> QED BY <1>1, <1>2, <2>1, <3>1
  <2>3. CASE run'[p].day # d
    <3>1. InFlightOn(d)' \subseteq InFlightOn(d)
      BY <1>6, <2>3, FlightMoves DEF InFlightOn
    <3>2. newFlight <= flight
      BY <1>3, <3>1, FlightFinite
    <3> HIDE DEF bets, newBets, flight, newFlight
    <3> QED BY <1>1, <1>2, <2>1, <3>2
  <2> QED BY <2>2, <2>3
<1> QED BY <1>4, <1>5, <1>6 DEF Effect

\* max_bets_per_day is overshot by at most one bet for each other command that
\* can run: the check in decide() and the row come apart, never the limit itself.
THEOREM BetsBounded == Spec => []BetsOvershootBounded
<1>1. Init => BetsInv
  <2> SUFFICES ASSUME Init, NEW d \in Day PROVE Owing(d) = 0
    BY DEF BetsInv
  <2>1. InFlightOn(d) = {} /\ ledger.bets[d] = 0
    BY IdleTyped DEF Init, InFlightOn, InFlight, EmptyLedger, Working
  <2> QED BY <2>1, FlightFinite DEF Owing
<1>2. TypeInv /\ TypeInv' /\ BetsInv /\ [Next]_vars => BetsInv'
  <2> SUFFICES ASSUME TypeInv, TypeInv', BetsInv, [Next]_vars, NEW d \in Day
               PROVE  (Owing(d) = 0 \/ Owing(d) <= Policy.max_bets_per_day + Others)'
    BY DEF BetsInv
  <2>1. /\ Owing(d)' \in Nat
        /\ Owing(d)' <= Owing(d) \/ Owing(d)' <= Policy.max_bets_per_day + Others
    <3>1. CASE UNCHANGED <<ledger, run>>
      BY <3>1, OwingTyped DEF Owing, InFlightOn, InFlight
    <3>2. CASE Next
      BY <3>1, <3>2, NextLifts, OwingMoves
    <3> QED BY <3>1, <3>2 DEF vars
  <2>2. Owing(d) \in Nat /\ Others \in Nat /\ Policy.max_bets_per_day \in Int
    BY OwingTyped
  <2>3. Others' = Others
    BY DEF Others
  <2> QED BY <2>1, <2>2, <2>3 DEF BetsInv
<1>3. TypeInv /\ BetsInv => BetsOvershootBounded
  <2> SUFFICES ASSUME TypeInv, BetsInv, NEW d \in Day, ledger.bets[d] > 0
               PROVE  ledger.bets[d] <= Policy.max_bets_per_day + Others
    BY DEF BetsOvershootBounded
  <2>1. /\ ledger.bets[d] \in Nat /\ Cardinality(InFlightOn(d)) \in Nat
        /\ Others \in Nat /\ Policy.max_bets_per_day \in Int
        /\ Cardinality(Proc) \in Nat
    BY OwingTyped, FlightFinite
  <2> QED BY <2>1 DEF BetsInv, Owing
<1> QED BY <1>1, <1>2, <1>3, TypeInvCorrect, PTL DEF Spec

(***************************************************************************)
(* daily_cap and max_open_exposure                                         *)
(***************************************************************************)

\* No matter in which order the bets of `flight` are booked, the total stays
\* within Others stakes of the cap: when the last of them was cleared the sum had
\* room for it, and at most the others were still to come.
Reach(total, flight, stake, cap) ==
    LET most == cap + Others * Policy.max_stake
    IN  \/ flight = {} /\ total <= most
        \/ \E p \in flight :
             total + stake[p] + (Cardinality(flight) - 1) * Policy.max_stake <= most

\* Products with max_stake, once and for all.
LEMMA StakesAdd ==
    ASSUME NEW k \in Nat, NEW n \in Nat, k <= n
    PROVE  /\ Policy.max_stake \in Nat
           /\ k * Policy.max_stake \in Nat /\ n * Policy.max_stake \in Nat
           /\ k * Policy.max_stake <= n * Policy.max_stake
           /\ (k + 1) * Policy.max_stake = k * Policy.max_stake + Policy.max_stake
<1>1. Policy.max_stake \in Nat
  BY PlacingKeepsLimits DEF LimitsOK
<1> DEFINE M == Policy.max_stake
<1>2. (n - k) * M \in Nat
  <2>1. n - k \in Nat /\ M \in Nat
    BY <1>1
  <2> HIDE DEF M
  <2> QED BY <2>1
<1>3. k * M \in Nat /\ n * M \in Nat /\ (k + 1) * M = k * M + M
      /\ n * M = k * M + (n - k) * M
  <2> M \in Nat
    BY <1>1
  <2> HIDE DEF M
  <2> QED OBVIOUS
<1> QED BY <1>1, <1>2, <1>3

LEMMA ReachBound ==
    ASSUME NEW F \in SUBSET Proc, NEW total \in Int, NEW stake, NEW cap \in Nat,
           \A p \in F : stake[p] \in Nat,
           Reach(total, F, stake, cap)
    PROVE  total <= cap + Others * Policy.max_stake
<1>1. CASE F = {}
  BY <1>1 DEF Reach
<1>2. CASE F # {}
  <2> DEFINE k == Cardinality(F) - 1
             most == cap + Others * Policy.max_stake
  <2>1. k \in Nat /\ Others \in Nat
    BY <1>2, FlightFinite DEF Others
  <2>2. k * Policy.max_stake \in Nat /\ most \in Nat
    <3> HIDE DEF k
    <3> QED BY <2>1, StakesAdd
  <2>3. PICK p \in F : total + stake[p] + k * Policy.max_stake <= most
    BY <1>2 DEF Reach
  <2> HIDE DEF k, most
  <2>4. total <= most
    BY <2>2, <2>3
  <2> QED BY <2>4 DEF most
<1> QED BY <1>1, <1>2

\* A bet cleared inside the cap.
LEMMA ReachClears ==
    ASSUME NEW G \in SUBSET Proc, NEW p \in G, NEW total \in Int, NEW stake,
           NEW cap \in Nat, stake[p] \in Nat, total + stake[p] <= cap
    PROVE  Reach(total, G, stake, cap)
<1> DEFINE k == Cardinality(G) - 1
<1>1. k \in Nat /\ Others \in Nat /\ k <= Others
  BY FlightFinite DEF Others
<1>2. /\ k * Policy.max_stake \in Nat /\ Others * Policy.max_stake \in Nat
      /\ k * Policy.max_stake <= Others * Policy.max_stake
  <2> HIDE DEF k
  <2> QED BY <1>1, StakesAdd
<1>3. total + stake[p] + k * Policy.max_stake <= cap + Others * Policy.max_stake
  <2> HIDE DEF k
  <2> QED BY <1>2
<1> QED BY <1>3 DEF Reach

\* Enough room for a largest stake from each command in flight.
LEMMA ReachWithRoom ==
    ASSUME NEW G \in SUBSET Proc, NEW total \in Int, NEW stake, NEW cap \in Nat,
           \A p \in G : stake[p] \in 0..Policy.max_stake,
           total + Cardinality(G) * Policy.max_stake <= cap + Others * Policy.max_stake
    PROVE  Reach(total, G, stake, cap)
<1> DEFINE most == cap + Others * Policy.max_stake
<1>1. Cardinality(G) \in Nat /\ Others \in Nat
  BY FlightFinite DEF Others
<1>2. /\ Policy.max_stake \in Nat /\ Cardinality(G) * Policy.max_stake \in Nat
      /\ most \in Nat
  <2>1. Cardinality(G) <= Cardinality(G) /\ Others <= Others
    BY <1>1
  <2>2. /\ Policy.max_stake \in Nat /\ Cardinality(G) * Policy.max_stake \in Nat
        /\ Others * Policy.max_stake \in Nat
    BY <1>1, <2>1, StakesAdd
  <2> QED BY <2>2
<1>3. CASE G = {}
  <2>1. total <= most
    <3> HIDE DEF most
    <3> QED BY <1>2 DEF most
  <2> QED BY <1>3, <2>1 DEF Reach
<1>4. CASE G # {}
  <2> DEFINE k == Cardinality(G) - 1
  <2>1. PICK p \in G : TRUE
    BY <1>4
  <2>2. k \in Nat /\ k + 1 = Cardinality(G)
    BY <1>1, <1>4, FlightFinite
  <2>3. /\ k * Policy.max_stake \in Nat
        /\ Cardinality(G) * Policy.max_stake = k * Policy.max_stake + Policy.max_stake
    <3> HIDE DEF k
    <3> QED BY <2>2, StakesAdd
  <2>4. total + stake[p] + k * Policy.max_stake <= most
    <3>1. stake[p] \in 0..Policy.max_stake
      BY <2>1
    <3> HIDE DEF k
    <3> QED BY <1>2, <2>3, <3>1
  <2> QED BY <2>4 DEF Reach
<1> QED BY <1>3, <1>4

\* From one flight to the next: some commands leave it unbooked, or one booked.
Flows(F, total, stake, G, new, newStake) ==
    /\ F \in SUBSET Proc /\ G \in SUBSET F /\ total \in Int /\ new \in Int
    /\ \A p \in F : stake[p] \in 0..Policy.max_stake
    /\ \A p \in G : newStake[p] = stake[p]
    /\ \/ new <= total
       \/ \E p \in F : G = F \ {p} /\ new <= total + stake[p]

LEMMA ReachFlows ==
    ASSUME NEW F, NEW total, NEW stake, NEW G, NEW new, NEW newStake, NEW cap \in Nat,
           Flows(F, total, stake, G, new, newStake), Reach(total, F, stake, cap)
    PROVE  Reach(new, G, newStake, cap)
<1> DEFINE M == Policy.max_stake
           most == cap + Others * M
           f == Cardinality(F)
           g == Cardinality(G)
<1>1. F \in SUBSET Proc /\ G \in SUBSET F /\ G \in SUBSET Proc /\ total \in Int /\ new \in Int
  BY DEF Flows
<1>2. /\ \A p \in F : stake[p] \in 0..M
      /\ \A p \in G : newStake[p] = stake[p]
  BY DEF Flows
<1>3. new <= total \/ \E p \in F : G = F \ {p} /\ new <= total + stake[p]
  BY DEF Flows
<1>4. f \in Nat /\ g \in Nat /\ g <= f /\ Others \in Nat
  BY <1>1, FlightFinite DEF Others
<1>5. M \in Nat /\ f * M \in Nat /\ g * M \in Nat /\ g * M <= f * M /\ most \in Nat
  <2> HIDE DEF f, g
  <2>1. M \in Nat /\ f * M \in Nat /\ g * M \in Nat /\ g * M <= f * M
    BY <1>4, StakesAdd
  <2>2. Others * M \in Nat
    <3>1. Others <= Others
      BY <1>4
    <3> QED BY <1>4, <3>1, StakesAdd
  <2> QED BY <2>1, <2>2
<1>6. \A p \in G : newStake[p] \in 0..M
  BY <1>1, <1>2
<1>7. CASE F = {}
  <2>1. G = {} /\ new <= total /\ total <= most
    BY <1>1, <1>3, <1>7 DEF Reach
  <2>2. new <= most
    <3> HIDE DEF most
    <3> QED BY <1>1, <1>5, <2>1
  <2> QED BY <2>1, <2>2 DEF Reach
<1>8. CASE F # {}
  <2>1. PICK w \in F : total + stake[w] + (f - 1) * M <= most
    BY <1>8 DEF Reach
  <2>2. f - 1 \in Nat /\ f * M = (f - 1) * M + M /\ (f - 1) * M \in Nat
    <3>1. f - 1 \in Nat /\ (f - 1) + 1 = f
      BY <1>1, <1>4, <1>8, FlightFinite
    <3> HIDE DEF f
    <3> QED BY <3>1, StakesAdd
  <2>3. ASSUME NEW p \in F, G = F \ {p} PROVE g = f - 1
    BY <1>1, <2>3, FlightFinite
  <2>4. stake[w] \in 0..M
    BY <1>2
  <2>5. CASE w \notin G
    <3>1. g <= f - 1
      <4>1. G \in SUBSET (F \ {w}) /\ Cardinality(F \ {w}) = f - 1
        BY <1>1, <2>5, FlightFinite
      <4>2. F \ {w} \in SUBSET Proc
        BY <1>1
      <4> QED BY <4>1, <4>2, FlightFinite
    <3>2. g * M <= (f - 1) * M
      <4> HIDE DEF f, g
      <4> QED BY <1>4, <2>2, <3>1, StakesAdd
    <3>3. new <= total + stake[w]
      <4>1. CASE new <= total
        BY <1>1, <1>5, <2>4, <4>1
      <4>2. CASE \E p \in F : G = F \ {p} /\ new <= total + stake[p]
        <5>1. PICK p \in F : G = F \ {p} /\ new <= total + stake[p]
          BY <4>2
        <5>2. p = w
          BY <2>5, <5>1
        <5> QED BY <5>1, <5>2
      <4> QED BY <1>3, <4>1, <4>2
    <3>4. new + g * M <= most
      <4> HIDE DEF f, g, M, most
      <4> QED BY <1>1, <1>5, <2>1, <2>2, <2>4, <3>2, <3>3
    <3> QED BY <1>1, <1>6, <3>4, ReachWithRoom
  <2>6. CASE w \in G
    <3>1. newStake[w] = stake[w] /\ g - 1 \in Nat
      <4>1. G # {}
        BY <2>6
      <4>2. g # 0
        BY <1>1, <4>1, FlightFinite
      <4> QED BY <1>2, <1>4, <2>6, <4>2
    <3>2. g * M = (g - 1) * M + M /\ (g - 1) * M \in Nat
      <4>1. (g - 1) + 1 = g
        BY <1>4
      <4> HIDE DEF g
      <4> QED BY <3>1, <4>1, StakesAdd
    <3>3. new + newStake[w] + (g - 1) * M <= most
      <4>1. CASE new <= total
        <5> HIDE DEF f, g, M, most
        <5> QED BY <1>1, <1>5, <2>1, <2>2, <2>4, <3>1, <3>2, <4>1
      <4>2. CASE \E p \in F : G = F \ {p} /\ new <= total + stake[p]
        <5>1. PICK p \in F : G = F \ {p} /\ new <= total + stake[p]
          BY <4>2
        <5>2. g = f - 1 /\ stake[p] \in 0..M
          BY <1>2, <2>3, <5>1
        <5>3. (f - 1) * M = (g - 1) * M + M
          BY <3>2, <5>2
        <5> HIDE DEF f, g, M, most
        <5> QED BY <1>1, <1>5, <2>1, <2>2, <2>4, <3>1, <3>2, <5>1, <5>2, <5>3
      <4> QED BY <1>3, <4>1, <4>2
    <3> QED BY <2>6, <3>3 DEF Reach
  <2> QED BY <2>5, <2>6
<1> QED BY <1>7, <1>8

FlightStakes == [p \in Proc |-> run[p].stake]

StakeInv ==
    \A d \in Day : Reach(ledger.staked[d], InFlightOn(d), FlightStakes, Policy.daily_cap)
ExposureInv ==
    Reach(ledger.open, InFlight, FlightStakes, Policy.max_open_exposure)

LEMMA FlightTyped ==
    ASSUME TypeInv
    PROVE  /\ \A p \in InFlight : FlightStakes[p] \in 0..Policy.max_stake
           /\ \A d \in Day : ledger.staked[d] \in Nat /\ InFlightOn(d) \in SUBSET InFlight
           /\ InFlight \in SUBSET Proc /\ ledger.open \in Int
           /\ Policy.daily_cap \in Nat /\ Policy.max_open_exposure \in Nat
<1>1. Policy.daily_cap \in Nat /\ Policy.max_open_exposure \in Nat /\ Policy.max_stake \in Nat
  BY PlacingKeepsLimits DEF LimitsOK
<1>2. ASSUME NEW p \in InFlight PROVE FlightStakes[p] \in 0..Policy.max_stake
  <2>1. p \in Proc /\ FlightStakes[p] = run[p].stake
    BY DEF InFlight, FlightStakes
  <2>2. run[p].stake \in 1..Policy.max_stake
    BY <2>1 DEF InFlight, TypeInv, Shaped, ShapeOf
  <2> QED BY <1>1, <2>1, <2>2
<1>3. ledger.staked \in [Day -> Nat] /\ ledger.open \in Int
  BY DEF TypeInv, TypeOK, Ledgers
<1> QED BY <1>1, <1>2, <1>3 DEF InFlight, InFlightOn

\* The stakes in flight are those of the step before, but for a bet just cleared.
LEMMA FlightStakesMove ==
    ASSUME TypeInv, NEW p \in Proc, Moves(p)
    PROVE  /\ NoNewMoney(p) => \A q \in InFlight' : FlightStakes'[q] = FlightStakes[q]
           /\ \A q \in Proc \ {p} : FlightStakes'[q] = FlightStakes[q]
           /\ FlightStakes[p] = run[p].stake /\ FlightStakes'[p] = run'[p].stake
<1>1. \A q \in Proc : FlightStakes[q] = run[q].stake /\ FlightStakes'[q] = run'[q].stake
  BY DEF FlightStakes
<1> QED BY <1>1, FlightMoves

LEMMA StakeStep ==
    ASSUME TypeInv, TypeInv', StakeInv, NEW p \in Proc, Moves(p), Effect(p)
    PROVE  StakeInv'
<1> SUFFICES ASSUME NEW d \in Day
             PROVE  Reach(ledger.staked[d], InFlightOn(d), FlightStakes, Policy.daily_cap)'
  BY DEF StakeInv
<1> DEFINE total == ledger.staked[d]
           new == ledger'.staked[d]
           F == InFlightOn(d)
           G == InFlightOn(d)'
<1>1. /\ total \in Nat /\ F \in SUBSET Proc /\ Policy.daily_cap \in Nat
      /\ \A q \in F : FlightStakes[q] \in 0..Policy.max_stake
      /\ ledger.staked \in [Day -> Nat]
  BY FlightTyped DEF TypeInv, TypeOK, Ledgers
<1>2. new \in Nat /\ G \in SUBSET Proc
  BY DEF TypeInv, TypeOK, Ledgers, InFlightOn, InFlight
<1>3. Reach(total, F, FlightStakes, Policy.daily_cap)
  BY DEF StakeInv
<1>4. Reach(ledger.staked[d], InFlightOn(d), FlightStakes, Policy.daily_cap)'
        <=> Reach(new, G, FlightStakes', Policy.daily_cap)
  BY DEF Reach, Others
<1>5. ASSUME G \subseteq F, \A q \in G : FlightStakes'[q] = FlightStakes[q],
             \/ new <= total
             \/ \E q \in F : G = F \ {q} /\ new <= total + FlightStakes[q]
      PROVE  Reach(new, G, FlightStakes', Policy.daily_cap)
  <2> HIDE DEF F, G, total, new
  <2>1. total \in Int /\ new \in Int /\ G \in SUBSET F
    BY <1>1, <1>2, <1>5
  <2>2. Flows(F, total, FlightStakes, G, new, FlightStakes')
    BY <1>1, <1>5, <2>1 DEF Flows
  <2> QED BY <1>1, <1>3, <2>2, ReachFlows
<1>6. CASE NoNewMoney(p) /\ SameSpent
  <2>1. G \subseteq F /\ \A q \in G : FlightStakes'[q] = FlightStakes[q]
    BY <1>6, FlightMoves, FlightStakesMove DEF InFlightOn
  <2>2. new <= total
    BY <1>1, <1>6 DEF SameSpent
  <2> QED BY <1>4, <1>5, <2>1, <2>2
<1>7. CASE Spends(p)
  <2>1. InFlight' = InFlight \ {p} /\ p \in InFlight
    BY <1>7, FlightMoves
  <2>2. G \subseteq F /\ \A q \in G : FlightStakes'[q] = FlightStakes[q]
    BY <2>1, FlightMoves, FlightStakesMove DEF InFlightOn, InFlight
  <2>3. CASE run[p].day = d
    <3>1. p \in F /\ G = F \ {p}
      BY <2>1, <2>3, FlightMoves DEF InFlightOn
    <3>2. new = total + run[p].stake
      BY <1>1, <1>7, <2>3 DEF Spends
    <3>3. new <= total + FlightStakes[p]
      BY <1>2, <3>2, FlightStakesMove
    <3> QED BY <1>4, <1>5, <2>2, <3>1, <3>3
  <2>4. CASE run[p].day # d
    <3>1. new = total
      BY <1>1, <1>7, <2>4 DEF Spends
    <3> QED BY <1>1, <1>4, <1>5, <2>2, <3>1
  <2> QED BY <2>3, <2>4
<1>8. CASE Clears(p)
  <2>1. new = total
    BY <1>8 DEF Clears
  <2>2. CASE p \in G
    <3>1. run'[p].day = d /\ FlightStakes'[p] = run'[p].stake
      BY <2>2, FlightStakesMove DEF InFlightOn
    <3>2. new + FlightStakes'[p] <= Policy.daily_cap
      BY <1>8, <2>1, <3>1 DEF Clears
    <3>3. FlightStakes'[p] \in Nat
      BY <3>1, FlightMoves DEF Runs
    <3>4. G \in SUBSET Proc /\ new \in Int /\ Policy.daily_cap \in Nat /\ p \in G
      BY <1>1, <1>2, <2>2
    <3> HIDE DEF F, G, total, new
    <3>5. Reach(new, G, FlightStakes', Policy.daily_cap)
      BY <3>2, <3>3, <3>4, ReachClears
    <3> QED BY <1>4, <3>5
  <2>3. CASE p \notin G
    <3>1. G \subseteq F /\ \A q \in G : FlightStakes'[q] = FlightStakes[q]
      BY <1>8, <2>3, FlightMoves, FlightStakesMove DEF InFlightOn, InFlight
    <3> QED BY <1>1, <1>4, <1>5, <2>1, <3>1
  <2> QED BY <2>2, <2>3
<1> QED BY <1>6, <1>7, <1>8 DEF Effect

LEMMA ExposureStep ==
    ASSUME TypeInv, TypeInv', ExposureInv, NEW p \in Proc, Moves(p), Effect(p)
    PROVE  ExposureInv'
<1> DEFINE cap == Policy.max_open_exposure
<1>1. /\ ledger.open \in Int /\ InFlight \in SUBSET Proc /\ cap \in Nat
      /\ \A q \in InFlight : FlightStakes[q] \in 0..Policy.max_stake
  BY FlightTyped
<1>2. ledger'.open \in Int /\ InFlight' \in SUBSET Proc
  BY DEF TypeInv, TypeOK, Ledgers, InFlight
<1>3. Reach(ledger.open, InFlight, FlightStakes, cap)
  BY DEF ExposureInv
<1>4. ExposureInv' <=> Reach(ledger'.open, InFlight', FlightStakes', cap)
  BY DEF ExposureInv, Reach, Others
<1> HIDE DEF cap
<1>5. ASSUME InFlight' \subseteq InFlight,
             \A q \in InFlight' : FlightStakes'[q] = FlightStakes[q],
             \/ ledger'.open <= ledger.open
             \/ \E q \in InFlight :
                  InFlight' = InFlight \ {q} /\ ledger'.open <= ledger.open + FlightStakes[q]
      PROVE  Reach(ledger'.open, InFlight', FlightStakes', cap)
  <2> DEFINE F == InFlight
             G == InFlight'
             total == ledger.open
             new == ledger'.open
  <2>1. Flows(F, total, FlightStakes, G, new, FlightStakes')
    BY <1>1, <1>2, <1>5 DEF Flows
  <2>2. Reach(total, F, FlightStakes, cap) /\ cap \in Nat
    BY <1>1, <1>3
  <2> HIDE DEF F, G, total, new
  <2>3. Reach(new, G, FlightStakes', cap)
    BY <2>1, <2>2, ReachFlows
  <2> QED BY <2>3 DEF new, G
<1>6. CASE NoNewMoney(p) /\ SameSpent
  <2>1. /\ InFlight' \subseteq InFlight
        /\ \A q \in InFlight' : FlightStakes'[q] = FlightStakes[q]
    BY <1>6, FlightMoves, FlightStakesMove
  <2> QED BY <1>4, <1>5, <1>6, <2>1 DEF SameSpent
<1>7. CASE Spends(p)
  <2>1. InFlight' = InFlight \ {p} /\ p \in InFlight
    BY <1>7, FlightMoves
  <2>2. \A q \in InFlight' : FlightStakes'[q] = FlightStakes[q]
    BY <1>1, <2>1, FlightStakesMove
  <2>3. ledger'.open <= ledger.open + FlightStakes[p]
    BY <1>7, FlightStakesMove DEF Spends
  <2> QED BY <1>4, <1>5, <2>1, <2>2, <2>3
<1>8. CASE Clears(p)
  <2>1. ledger'.open = ledger.open
    BY <1>8 DEF Clears
  <2>2. CASE p \in InFlight'
    <3>1. FlightStakes'[p] \in Nat
      BY FlightMoves, FlightStakesMove DEF Runs
    <3>2. ledger'.open + FlightStakes'[p] <= cap
      BY <1>8, <2>1, FlightStakesMove DEF Clears, cap
    <3>3. InFlight' \in SUBSET Proc /\ ledger'.open \in Int /\ cap \in Nat
      BY <1>1, <1>2
    <3>4. Reach(ledger'.open, InFlight', FlightStakes', cap)
      BY <2>2, <3>1, <3>2, <3>3, ReachClears
    <3> QED BY <1>4, <3>4
  <2>3. CASE p \notin InFlight'
    <3>1. /\ InFlight' \subseteq InFlight
          /\ \A q \in InFlight' : FlightStakes'[q] = FlightStakes[q]
      BY <1>1, <1>2, <1>8, <2>3, FlightMoves, FlightStakesMove
    <3>2. ledger'.open <= ledger.open
      BY <1>1, <2>1
    <3> QED BY <1>4, <1>5, <3>1, <3>2
  <2> QED BY <2>2, <2>3
<1> QED BY <1>6, <1>7, <1>8 DEF Effect

LEMMA MoneyInit == Init => StakeInv /\ ExposureInv
<1> SUFFICES ASSUME Init PROVE StakeInv /\ ExposureInv
  OBVIOUS
<1>1. InFlight = {} /\ \A d \in Day : InFlightOn(d) = {}
  BY IdleTyped DEF Init, InFlight, InFlightOn, Working
<1>2. ledger.open = 0 /\ \A d \in Day : ledger.staked[d] = 0
  BY DEF Init, EmptyLedger
<1>3. Others * Policy.max_stake \in Nat
  <2>1. {} \in SUBSET Proc
    OBVIOUS
  <2>2. Others \in Nat /\ Others <= Others
    BY <2>1, FlightFinite DEF Others
  <2> QED BY <2>2, StakesAdd
<1>4. Policy.daily_cap \in Nat /\ Policy.max_open_exposure \in Nat
  BY PlacingKeepsLimits DEF LimitsOK
<1>5. /\ 0 <= Policy.daily_cap + Others * Policy.max_stake
      /\ 0 <= Policy.max_open_exposure + Others * Policy.max_stake
  BY <1>3, <1>4
<1> QED BY <1>1, <1>2, <1>5 DEF StakeInv, ExposureInv, Reach

LEMMA MoneyInvCorrect == Spec => [](StakeInv /\ ExposureInv)
<1>1. TypeInv /\ TypeInv' /\ StakeInv /\ ExposureInv /\ [Next]_vars
        => (StakeInv /\ ExposureInv)'
  <2> SUFFICES ASSUME TypeInv, TypeInv', StakeInv, ExposureInv, [Next]_vars
               PROVE  (StakeInv /\ ExposureInv)'
    OBVIOUS
  <2>1. CASE UNCHANGED <<ledger, run>>
    BY <2>1 DEF StakeInv, ExposureInv, Reach, Others, InFlightOn, InFlight, FlightStakes
  <2>2. CASE Next
    BY <2>1, <2>2, NextLifts, StakeStep, ExposureStep
  <2> QED BY <2>1, <2>2 DEF vars
<1> QED BY <1>1, MoneyInit, TypeInvCorrect, PTL DEF Spec

\* What the ledger books on one day exceeds daily_cap by at most max_stake for
\* each other command: decide() trims a stake to the rest of the day it has read,
\* and whoever books meanwhile books at most max_stake.
THEOREM StakeBounded == Spec => []StakeOvershootBounded
<1>1. TypeInv /\ StakeInv => StakeOvershootBounded
  <2> SUFFICES ASSUME TypeInv, StakeInv, NEW d \in Day
               PROVE  ledger.staked[d] <= Policy.daily_cap + Others * Policy.max_stake
    BY DEF StakeOvershootBounded
  <2>1. /\ InFlightOn(d) \in SUBSET Proc /\ ledger.staked[d] \in Int
        /\ Policy.daily_cap \in Nat
        /\ \A p \in InFlightOn(d) : FlightStakes[p] \in Nat
    BY FlightTyped
  <2>2. Reach(ledger.staked[d], InFlightOn(d), FlightStakes, Policy.daily_cap)
    BY DEF StakeInv
  <2> QED BY <2>1, <2>2, ReachBound
<1> QED BY <1>1, TypeInvCorrect, MoneyInvCorrect, PTL

\* The same of max_open_exposure, over every day and whatever is rejected later.
THEOREM ExposureBounded == Spec => []ExposureOvershootBounded
<1>1. TypeInv /\ ExposureInv => ExposureOvershootBounded
  <2> SUFFICES ASSUME TypeInv, ExposureInv
               PROVE  ledger.open <= Policy.max_open_exposure + Others * Policy.max_stake
    BY DEF ExposureOvershootBounded
  <2>1. /\ InFlight \in SUBSET Proc /\ ledger.open \in Int
        /\ Policy.max_open_exposure \in Nat
        /\ \A p \in InFlight : FlightStakes[p] \in Nat
    BY FlightTyped
  <2>2. Reach(ledger.open, InFlight, FlightStakes, Policy.max_open_exposure)
    BY DEF ExposureInv
  <2> QED BY <2>1, <2>2, ReachBound
<1> QED BY <1>1, TypeInvCorrect, MoneyInvCorrect, PTL

\* Overlapping commands overshoot no limit by more than what each other command may
\* add once.
THEOREM BudgetsHold == Spec => []OvershootBounded
<1>1. /\ TypeOK /\ BetsOvershootBounded /\ StakeOvershootBounded /\ ExposureOvershootBounded
      => OvershootBounded
  BY DEF OvershootBounded
<1> QED BY <1>1, TypeCorrect, BetsBounded, StakeBounded, ExposureBounded, PTL

(***************************************************************************)
(* Who knows a proposal                                                    *)
(***************************************************************************)

\* The proposal of a scan that has not begun, or has not saved it yet.
Unborn(i) ==
    \/ i - MaxScans > scans
    \/ \E p \in Proc : run[p].cmd = "scan" /\ run[p].id = i - MaxScans

\* A scan has its intent to itself, and a batch is empty before it is taken.
Distinct ==
    /\ \A p \in Proc : run[p].cmd = "scan" => run[p].id \in 1..scans
    /\ \A p, q \in Proc : run[p].cmd = "scan" /\ run[q].cmd = "scan" /\ run[p].id = run[q].id => p = q
    /\ \A p \in Proc : run[p].step \in {"loaded", "session"} => run[p].batch = {}
    /\ \A p \in Proc : run[p].step = "outcome" => run[p].cmd = "place"
    /\ \A p \in Proc : run[p].cmd = "scan" => run[p].batch = {}

\* Nobody holds a proposal that is not born, and there is nothing on it.
NobodyKnows(i) ==
    /\ store[i] = "absent"
    /\ \A q \in Proc : mem[q][i] = "absent" /\ i \notin run[q].batch
    /\ ledger.placed[i] = 0 /\ account.landings[i] = 0
UnbornUnknown == \A i \in Proposals : Unborn(i) => NobodyKnows(i)

\* Whatever is known of a bet, its book is.
Named(i) == terms[i].book # "none"
KnownNamed ==
    /\ \A i \in Intents : i <= scans => Named(i)
    /\ \A i \in Proposals : store[i] # "absent" => Named(i)
    /\ \A i \in Proposals, q \in Proc : mem[q][i] # "absent" \/ i \in run[q].batch => Named(i)

(***************************************************************************)
(* Bets and rows                                                           *)
(***************************************************************************)

\* A scan's bet is not on before it is sent, and a receipt is of a bet that is on.
Landed ==
    /\ \A i \in Intents : i > scans => account.landings[i] = 0 /\ ledger.placed[i] = 0
    /\ \A p \in Proc : run[p].cmd = "scan" =>
          /\ run[p].step # "answered" => account.landings[run[p].id] = 0
          /\ ledger.placed[run[p].id] = 0
    /\ \A p \in Proc : run[p].step = "answered" /\ run[p].answer = "accept"
          => account.landings[run[p].id] > 0

\* What is about to be sent has passed the drift gate.
Repriced ==
    \A p \in Proc : run[p].step \in {"validate", "send"}
        => DriftOK(Policy, BetOf(p).odds, run[p].price)

PlaneInv ==
    /\ TypeInv /\ Distinct /\ KnownNamed /\ UnbornUnknown /\ Landed /\ Repriced
    /\ AutoPlacedOnce /\ PlacedRowsAreOn

(***************************************************************************)
(* Commands that do not overlap                                            *)
(***************************************************************************)

Alone == \A p, q \in Proc : p = q

\* A command's copy is the file, but for what has expired since.
Remembers(p) ==
    \A i \in Proposals : \/ mem[p][i] = store[i]
                         \/ mem[p][i] = "expired" /\ store[i] \in {"pending", "approved"}
InHand(p) ==
    /\ run[p].step # "idle" => Remembers(p)
    /\ \A i \in run[p].batch : mem[p][i] = "approved"
    /\ run[p].step = "outcome" =>
          IF run[p].placed THEN ledger.latest[run[p].id] = "placed"
                           ELSE ledger.latest[run[p].id] \in {"rejected", "skipped"}
FateInv == Alone => FateAgreesWithLedger /\ \A p \in Proc : InHand(p)

\* Commands that do not die either: a proposal still open has no bet, but for the one
\* in hand, and what is cleared still fits the day.
Open(i) == store[i] \in {"absent", "pending", "approved"}
Whole(p) ==
    /\ \A i \in Proposals : Open(i) =>
          /\ ~(run[p].id = i /\ run[p].step \in {"answered", "outcome"}) => account.landings[i] = 0
          /\ ~(run[p].id = i /\ run[p].step = "outcome") => ledger.placed[i] = 0
    /\ run[p].step = "outcome" => (run[p].placed <=> ledger.placed[run[p].id] > 0)
    /\ run[p].step \in MoneySteps
          => ledger.staked[run[p].day] + run[p].stake <= Policy.daily_cap
Tidy == Alone /\ MaxCrashes = 0
PromiseInv == Tidy => \A p \in Proc : Whole(p)

(***************************************************************************)
(* The kinds of step a command takes                                       *)
(***************************************************************************)

Frame(p) == \A q \in Proc \ {p} : run'[q] = run[q] /\ mem'[q] = mem[q]

\* The command ends with nothing written: it finds nothing to do, or it is killed.
Leaves(p) ==
    /\ run[p].step \in {"loaded", "session"} \/ MaxCrashes # 0
    /\ run'[p] = Idle /\ mem'[p] = EmptyStore
    /\ UNCHANGED <<scans, terms, ledger, store, account>>
Loads(p) ==
    /\ run[p].step = "idle" /\ mem'[p] = store
    /\ run'[p].cmd # "scan" /\ run'[p].step = "loaded" /\ run'[p].batch = {}
    /\ UNCHANGED <<scans, terms, ledger, store, account>>
StartsScan(p) ==
    /\ run[p].step = "idle" /\ mem'[p] = store
    /\ run'[p] = [Idle EXCEPT !.cmd = "scan", !.step = "decide", !.id = scans + 1]
    /\ scans < MaxScans /\ scans' = scans + 1
    /\ \E t \in Terms : t.book # "none" /\ terms' = [terms EXCEPT ![scans + 1] = t]
    /\ UNCHANGED <<ledger, store, account>>

\* An owner's command ends with a save, in which a proposal has moved on or expired.
MovesOn(from, to) ==
    \/ from = to
    \/ from = "pending" /\ to \in {"approved", "expired"}
    \/ from # "absent" /\ to = "rejected"
Saves(p) ==
    /\ run[p].step = "loaded" /\ run'[p] = Idle /\ mem'[p] = EmptyStore
    /\ \A i \in Proposals : MovesOn(mem[p][i], store'[i])
    /\ UNCHANGED <<scans, terms, ledger, account>>
Adds(p) ==
    LET i == ProposalOf(run[p].id)
    IN  /\ At(p, "scan", "ask") /\ run'[p] = Idle /\ mem'[p] = EmptyStore
        /\ store' = [mem[p] EXCEPT ![i] = "pending"]
        /\ \E t \in Nat : terms' = [terms EXCEPT ![i] = [terms[run[p].id] EXCEPT !.expires = t]]
        /\ UNCHANGED <<scans, ledger, account>>

\* The live approvals are looked up, before the session opens and again after it.
Prepares(p) ==
    /\ run[p].step \in {"loaded", "session"} /\ run[p].cmd = "place" /\ run'[p].cmd = "place"
    /\ mem'[p] = ExpireIn(mem[p], "approved")
    /\ \/ run'[p].step = "session" /\ run'[p].batch = run[p].batch
       \/ run'[p].step = "decide" /\ run'[p].batch = LiveIn(mem'[p])
    /\ UNCHANGED <<scans, terms, ledger, store, account>>
Settles(p) ==
    LET copy == [mem[p] EXCEPT ![run[p].id] = IF run[p].placed THEN "placed" ELSE "failed"]
    IN  /\ At(p, "place", "outcome") /\ store' = copy
        /\ \/ run'[p] = Idle /\ mem'[p] = EmptyStore
           \/ /\ run'[p].cmd = "place" /\ run'[p].step = "decide"
              /\ run'[p].batch = run[p].batch \ {run[p].id} /\ mem'[p] = copy
        /\ UNCHANGED <<scans, terms, ledger, account>>

\* Between the decision and the call, only the command itself moves.
Works(p) ==
    /\ run[p].step \in {"decide", "reprice", "validate"} /\ mem'[p] = mem[p]
    /\ run'[p].step \in {"reprice", "validate", "send"}
    /\ run'[p].cmd = run[p].cmd /\ run'[p].id = run[p].id /\ run'[p].batch = run[p].batch
    /\ run'[p].step \in {"validate", "send"} =>
          \/ run[p].step = "validate" /\ run'[p].price = run[p].price
          \/ DriftOK(Policy, BetOf(p).odds, run'[p].price)
    /\ \/ /\ run[p].step \in MoneySteps
          /\ run'[p].stake = run[p].stake /\ run'[p].day = run[p].day
       \/ /\ run[p].step = "decide"
          /\ ledger.staked[run'[p].day] + run'[p].stake <= Policy.daily_cap
    /\ UNCHANGED <<scans, terms, ledger, store, account>>
Sent(p) ==
    /\ run[p].step = "send" /\ mem'[p] = mem[p]
    /\ run'[p] = [run[p] EXCEPT !.step = "answered", !.answer = run'[p].answer, !.price = 0]
    /\ \/ run'[p].answer # "accept" /\ account' = account
       \/ account'.landings = [account.landings EXCEPT ![run[p].id] = @ + 1]
    /\ UNCHANGED <<scans, terms, ledger, store>>

\* A row is written: "placed" for what the book took, the rest as run_intent decides.
Writes(p, status) ==
    /\ run[p].step \in {"decide", "reprice", "validate", "answered"}
    /\ \E day \in Day, stake \in Nat :
          /\ ledger' = AppendRow(ledger, [id |-> run[p].id, day |-> day,
                                          status |-> status, stake |-> stake])
          /\ status = "placed" =>
                /\ run[p].step = "answered" /\ Accepted(BetOf(p).book, run[p].answer)
                /\ day = run[p].day /\ stake = run[p].stake
    /\ IF status = "asked"
       THEN run' = [run EXCEPT ![p].step = "ask"] /\ mem' = mem
       ELSE IF run[p].cmd = "scan"
       THEN run'[p] = Idle /\ mem'[p] = EmptyStore
       ELSE /\ run' = [run EXCEPT ![p].step = "outcome", ![p].placed = (status = "placed")]
            /\ mem' = mem
    /\ status \in {"asked", "paper"} => run[p].cmd = "scan"
    /\ status = "asked" => run[p].step = "decide"
    /\ UNCHANGED <<scans, terms, store, account>>

Kind(p) ==
    \/ Leaves(p) \/ Loads(p) \/ StartsScan(p) \/ Saves(p) \/ Adds(p)
    \/ Prepares(p) \/ Settles(p) \/ Works(p) \/ Sent(p)
    \/ \E status \in Status : Writes(p, status)

\* A command at work knows the book of its bet.
LEMMA BookKnown ==
    ASSUME TypeInv, Distinct, KnownNamed, NEW p \in Proc, run[p].step \in Working
    PROVE  BetOf(p) \in Terms /\ BetOf(p).book \in Books
<1>1. run[p] \in Runs /\ ShapeOf(run[p]) /\ BetOf(p) \in Terms
  BY WorkingTyped
<1>2. scans \in 0..MaxScans
  BY DEF TypeInv, TypeOK
<1>3. Named(run[p].id)
  <2>1. CASE run[p].cmd = "scan"
    BY <1>1, <1>2, <2>1, BoundsTyped DEF ShapeOf, Distinct, KnownNamed, Intents
  <2>2. CASE run[p].cmd = "place"
    BY <1>1, <2>2 DEF ShapeOf, KnownNamed, Runs
  <2> QED BY <1>1, <2>1, <2>2 DEF ShapeOf
<1> QED BY <1>1, <1>3 DEF Named, BetOf, Terms

\* Under the copy an approved bet is placed with, the verdict is place or skip.
LEMMA PlacingVerdict ==
    ASSUME NEW p \in Proc, run[p].cmd = "place", BetOf(p).book \in Books
    PROVE  Decision(p).verdict \in {"skip", "place"}
<1> DEFINE placing == PlacingPolicy(Policy, BetOf(p).book)
<1>1. placing.allow_unverified_auto = TRUE
  BY PolicyAssumption DEF PolicyOK, PlacingPolicy
<1>2. placing.book_modes[BetOf(p).book] = "auto"
  BY PolicyAssumption DEF PolicyOK, PlacingPolicy
<1>3. VerdictOf(placing, BetOf(p).book, FALSE) = "place"
  BY <1>1, <1>2 DEF VerdictOf
<1> QED BY <1>3 DEF Decision, Decide

\* Frame, from how every action writes the two variables a command owns.
LEMMA FrameHolds ==
    ASSUME TypeInv, NEW p \in Proc, Moves(p),
           mem' = [mem EXCEPT ![p] = mem'[p]]
    PROVE  Frame(p)
  BY DEF TypeInv, TypeOK, Moves, Frame

LEMMA ExitKind ==
    ASSUME TypeInv, NEW p \in Proc, Exit(p)
    PROVE  run'[p] = Idle /\ mem'[p] = EmptyStore /\ Frame(p)
<1>1. run \in [Proc -> Runs] /\ mem \in [Proc -> Copies]
  BY DEF TypeInv, TypeOK
<1> QED BY <1>1 DEF Exit, Frame

LEMMA ConcludeKind ==
    ASSUME TypeInv, Distinct, KnownNamed, NEW p \in Proc,
           run[p].step \in {"decide", "reprice", "validate", "answered"},
           NEW status \in Status, NEW day \in Day, NEW stake \in Nat,
           Conclude(p, status, day, stake),
           status # "asked", status = "paper" => run[p].cmd = "scan",
           status = "placed" =>
                /\ run[p].step = "answered" /\ Accepted(BetOf(p).book, run[p].answer)
                /\ day = run[p].day /\ stake = run[p].stake
    PROVE  Writes(p, status) /\ Frame(p)
<1>1. run \in [Proc -> Runs] /\ mem \in [Proc -> Copies]
  BY DEF TypeInv, TypeOK
<1>2. CASE run[p].cmd = "scan"
  BY <1>2, ExitKind DEF Conclude, Writes
<1>3. CASE run[p].cmd # "scan"
  <2>1. /\ run' = [run EXCEPT ![p].step = "outcome", ![p].placed = (status = "placed")]
        /\ mem' = mem
    BY <1>3 DEF Conclude
  <2>2. Frame(p)
    BY <1>1, <2>1 DEF Frame
  <2> QED BY <1>3, <2>1, <2>2 DEF Conclude, Writes
<1> QED BY <1>2, <1>3

LEMMA RejectKind ==
    ASSUME TypeInv, Distinct, KnownNamed, NEW p \in Proc,
           run[p].step \in {"reprice", "validate", "answered"}, RejectRow(p)
    PROVE  Kind(p) /\ Frame(p)
<1>1. run[p].day \in Day /\ run[p].stake \in Nat
  BY DEF TypeInv, TypeOK, Runs
<1> QED BY <1>1, ConcludeKind DEF RejectRow, Kind, Status

LEMMA CommandKinds ==
    ASSUME TypeInv, NEW p \in Proc,
           \/ Begin(p) \/ AddProposal(p)
           \/ \E i \in Proposals : Approve(p, i) \/ Reject(p, i)
           \/ NothingToApprove(p) \/ ListPending(p)
           \/ OpenSession(p) \/ TakeBatch(p) \/ RecordOutcome(p)
           \/ Crash(p)
    PROVE  Kind(p) /\ Frame(p)
<1>1. run \in [Proc -> Runs] /\ mem \in [Proc -> Copies] /\ store \in Copies /\ clock \in Nat
      /\ terms \in [Id -> Terms] /\ scans \in 0..MaxScans
  BY BoundsTyped DEF TypeInv, TypeOK
<1>2. ASSUME NEW offer \in Offers, BeginScan(p, offer)
      PROVE  Kind(p) /\ Frame(p)
  <2> DEFINE t == [book |-> offer.book, odds |-> offer.odds, edge |-> offer.edge,
                   stake |-> Size(Policy, offer.edge, offer.odds), expires |-> 0]
  <2>1. t \in Terms /\ t.book # "none"
    <3>1. offer.book \in Books /\ offer.odds \in Nat /\ offer.edge \in Int
      BY OfferAssumption
    <3>2. Size(Policy, offer.edge, offer.odds) \in Nat
      <4>1. LimitsOK(Policy) /\ Policy.max_stake \in Nat
        BY PlacingKeepsLimits DEF LimitsOK
      <4> QED BY <3>1, <4>1, SizeBounded
    <3> QED BY <3>1, <3>2 DEF Terms, Books
  <2>2. terms' = [terms EXCEPT ![scans + 1] = t]
    BY <1>2 DEF BeginScan
  <2>3. run'[p] = [Idle EXCEPT !.cmd = "scan", !.step = "decide", !.id = scans + 1]
        /\ mem'[p] = store /\ Frame(p)
    BY <1>1, <1>2 DEF BeginScan, Frame
  <2> QED BY <1>2, <2>1, <2>2, <2>3 DEF BeginScan, Kind, StartsScan
<1>3. ASSUME NEW cmd \in Given, Load(p, cmd)
      PROVE  Kind(p) /\ Frame(p)
  <2>1. cmd # "scan"
    BY OfferAssumption
  <2>2. run'[p] = [Idle EXCEPT !.cmd = cmd, !.step = "loaded"] /\ mem'[p] = store /\ Frame(p)
    BY <1>1, <1>3 DEF Load, Frame
  <2>3. run'[p].cmd = cmd /\ run'[p].step = "loaded" /\ run'[p].batch = {}
    BY <2>2 DEF Idle
  <2> QED BY <1>3, <2>1, <2>2, <2>3 DEF Load, Kind, Loads
<1>4. CASE AddProposal(p)
  <2>1. clock + TTL \in Nat
    BY <1>1, BoundsTyped
  <2>2. run'[p] = Idle /\ mem'[p] = EmptyStore /\ Frame(p)
    BY <1>4, ExitKind DEF AddProposal, SaveAndExit
  <2> QED BY <1>4, <2>1, <2>2 DEF AddProposal, SaveAndExit, Kind, Adds
<1>5. ASSUME NEW copy, Exit(p), store' = copy, run[p].step = "loaded",
             UNCHANGED <<scans, terms, ledger, account>>,
             \A i \in Proposals : MovesOn(mem[p][i], copy[i])
      PROVE  Kind(p) /\ Frame(p)
  BY <1>5, ExitKind DEF Kind, Saves
<1>6. mem[p] \in [Proposals -> States]
  BY <1>1 DEF Copies
<1>7. ASSUME NEW i \in Proposals, Approve(p, i)
      PROVE  Kind(p) /\ Frame(p)
  <2> DEFINE copy == [mem[p] EXCEPT ![i] = IF Overdue(i) THEN "expired" ELSE "approved"]
  <2>1. \A j \in Proposals : MovesOn(mem[p][j], copy[j])
    BY <1>6, <1>7 DEF Approve, MovesOn
  <2> QED BY <1>5, <1>7, <2>1 DEF Approve, SaveAndExit, At
<1>8. ASSUME NEW i \in Proposals, Reject(p, i)
      PROVE  Kind(p) /\ Frame(p)
  <2> DEFINE copy == [mem[p] EXCEPT ![i] = "rejected"]
  <2>1. \A j \in Proposals : MovesOn(mem[p][j], copy[j])
    BY <1>6, <1>8 DEF Reject, MovesOn
  <2> QED BY <1>5, <1>8, <2>1 DEF Reject, SaveAndExit, At
<1>9. CASE ListPending(p)
  <2>1. \A j \in Proposals : MovesOn(mem[p][j], ExpireIn(mem[p], "pending")[j])
    BY DEF ExpireIn, MovesOn
  <2> QED BY <1>5, <1>9, <2>1 DEF ListPending, SaveAndExit, At
<1>10. ASSUME Exit(p), run[p].step \in {"loaded", "session"} \/ MaxCrashes # 0,
              UNCHANGED <<scans, terms, ledger, store, account>>
       PROVE  Kind(p) /\ Frame(p)
  BY <1>10, ExitKind DEF Kind, Leaves
<1>11. CASE NothingToApprove(p)
  BY <1>10, <1>11 DEF NothingToApprove, At
<1>15. CASE Crash(p)
  <2>1. MaxCrashes # 0
    BY <1>15, BoundsTyped DEF Crash, TypeInv, TypeOK
  <2> QED BY <1>10, <1>15, <2>1 DEF Crash
<1> DEFINE copy == ExpireIn(mem[p], "approved")
<1>12. CASE OpenSession(p)
  <2>1. CASE LiveIn(copy) = {}
    BY <1>10, <1>12, <2>1 DEF OpenSession, At
  <2>2. CASE LiveIn(copy) # {}
    <3>1. run' = [run EXCEPT ![p].step = "session"] /\ mem' = [mem EXCEPT ![p] = copy]
      BY <1>12, <2>2 DEF OpenSession
    <3>2. mem'[p] = copy /\ Frame(p) /\ run'[p] = [run[p] EXCEPT !.step = "session"]
      BY <1>1, <3>1 DEF Frame
    <3>3. run'[p].cmd = run[p].cmd /\ run'[p].step = "session" /\ run'[p].batch = run[p].batch
      BY <1>1, <3>2 DEF Runs
    <3> QED BY <1>12, <3>2, <3>3 DEF OpenSession, At, Kind, Prepares
  <2> QED BY <2>1, <2>2
<1>13. CASE TakeBatch(p)
  <2>1. CASE LiveIn(copy) = {}
    BY <1>10, <1>13, <2>1 DEF TakeBatch, At
  <2>2. CASE LiveIn(copy) # {}
    <3>1. run' = [run EXCEPT ![p].step = "decide", ![p].batch = LiveIn(copy),
                             ![p].id = First(LiveIn(copy))]
          /\ mem' = [mem EXCEPT ![p] = copy]
      BY <1>13, <2>2 DEF TakeBatch
    <3>2. mem'[p] = copy /\ Frame(p)
          /\ run'[p] = [run[p] EXCEPT !.step = "decide", !.batch = LiveIn(copy),
                                      !.id = First(LiveIn(copy))]
      BY <1>1, <3>1 DEF Frame
    <3>3. run'[p].cmd = run[p].cmd /\ run'[p].step = "decide" /\ run'[p].batch = LiveIn(copy)
      BY <1>1, <3>2 DEF Runs
    <3> QED BY <1>13, <3>2, <3>3 DEF TakeBatch, At, Kind, Prepares
  <2> QED BY <2>1, <2>2
<1>14. CASE RecordOutcome(p)
  <2> DEFINE saved == [mem[p] EXCEPT ![run[p].id] = IF run[p].placed THEN "placed" ELSE "failed"]
             rest == run[p].batch \ {run[p].id}
  <2>1. CASE rest = {}
    BY <1>14, <2>1, ExitKind DEF RecordOutcome, Kind, Settles
  <2>2. CASE rest # {}
    <3>1. run' = [run EXCEPT ![p] = [Idle EXCEPT !.cmd = "place", !.step = "decide",
                                                 !.batch = rest, !.id = First(rest)]]
          /\ mem' = [mem EXCEPT ![p] = saved]
      BY <1>14, <2>2 DEF RecordOutcome
    <3>2. mem'[p] = saved /\ Frame(p)
          /\ run'[p] = [Idle EXCEPT !.cmd = "place", !.step = "decide",
                                    !.batch = rest, !.id = First(rest)]
      BY <1>1, <3>1 DEF Frame
    <3>3. run'[p].cmd = "place" /\ run'[p].step = "decide" /\ run'[p].batch = rest
      BY <3>2 DEF Idle
    <3> QED BY <1>14, <3>2, <3>3 DEF RecordOutcome, Kind, Settles
  <2> QED BY <2>1, <2>2
<1> QED BY <1>2, <1>3, <1>4, <1>7, <1>8, <1>9, <1>11, <1>12, <1>13, <1>14, <1>15 DEF Begin

LEMMA RunIntentKinds ==
    ASSUME TypeInv, Distinct, KnownNamed, NEW p \in Proc,
           \/ Stop(p) \/ Ask(p) \/ Clear(p)
           \/ RepriceFails(p) \/ \E quote \in Quotes : Reprice(p, quote)
           \/ Validate(p)
           \/ \E answer \in BookAnswers, on \in BOOLEAN : Send(p, answer, on)
           \/ ReadAnswer(p)
    PROVE  Kind(p) /\ Frame(p)
<1>1. run \in [Proc -> Runs] /\ mem \in [Proc -> Copies]
      /\ account.landings \in [Id -> Nat]
  BY DEF TypeInv, TypeOK
<1>2. run[p] \in Runs /\ ShapeOf(run[p]) /\ DayOf(clock) \in Day
  BY <1>1, SpentTyped DEF TypeInv, Shaped
<1>3. ASSUME run[p].step = "decide"
      PROVE  /\ Decision(p).stake \in Nat /\ run[p].cmd \in {"scan", "place"}
             /\ Decision(p).verdict \in {"paper", "ask"} => run[p].cmd = "scan"
             /\ ledger.staked[DayOf(clock)] + Decision(p).stake <= Policy.daily_cap
                  \/ Decision(p).verdict = "skip"
  <2>1. run[p].cmd \in {"scan", "place"} /\ BetOf(p).book \in Books
    BY <1>2, <1>3, BookKnown DEF ShapeOf, Working
  <2>2. Decision(p).stake \in 0..Policy.max_stake /\ Policy.max_stake \in Nat
    BY <1>3, DecisionTyped, PlacingKeepsLimits DEF LimitsOK
  <2>3. run[p].cmd = "place" => Decision(p).verdict \in {"skip", "place"}
    BY <2>1, PlacingVerdict
  <2>4. ledger.staked[DayOf(clock)] + Decision(p).stake <= Policy.daily_cap
          \/ Decision(p).verdict = "skip"
    BY <1>3, DecisionTyped
  <2> QED BY <2>1, <2>2, <2>3, <2>4
<1>4. CASE Stop(p)
  <2>1. run[p].step = "decide" /\ Decision(p).stake \in Nat
    BY <1>3, <1>4 DEF Stop
  <2>2. CASE Conclude(p, "skipped", DayOf(clock), 0)
    BY <1>2, <2>1, <2>2, ConcludeKind DEF Kind, Status
  <2>3. CASE Decision(p).verdict = "paper"
             /\ Conclude(p, "paper", DayOf(clock), Decision(p).stake)
    BY <1>2, <1>3, <2>1, <2>3, ConcludeKind DEF Kind, Status
  <2> QED BY <1>4, <2>2, <2>3 DEF Stop
<1>5. CASE Ask(p)
  <2>1. /\ run[p].step = "decide" /\ Decision(p).stake \in Nat /\ run[p].cmd = "scan"
        /\ ledger' = AppendRow(ledger, [id |-> run[p].id, day |-> DayOf(clock),
                                        status |-> "asked", stake |-> Decision(p).stake])
        /\ run' = [run EXCEPT ![p].step = "ask"]
        /\ UNCHANGED <<scans, terms, store, mem, account>>
    BY <1>3, <1>5 DEF Ask
  <2>2. Frame(p)
    BY <1>1, <2>1 DEF Frame
  <2>3. Writes(p, "asked")
    BY <1>2, <2>1 DEF Writes
  <2> QED BY <2>2, <2>3 DEF Kind, Status
<1>6. CASE Clear(p)
  <2>1. /\ run[p].step = "decide"
        /\ ledger.staked[DayOf(clock)] + Decision(p).stake <= Policy.daily_cap
        /\ UNCHANGED <<scans, terms, ledger, store, mem, account>>
    BY <1>3, <1>6 DEF Clear
  <2>2. run'[p] = [run[p] EXCEPT !.step = "reprice", !.stake = Decision(p).stake,
                                 !.day = DayOf(clock)]
    BY <1>1, <1>6 DEF Clear
  <2>3. /\ run'[p].step = "reprice" /\ run'[p].cmd = run[p].cmd
        /\ run'[p].id = run[p].id /\ run'[p].batch = run[p].batch
        /\ run'[p].stake = Decision(p).stake /\ run'[p].day = DayOf(clock)
    BY <1>2, <2>2 DEF Runs
  <2>4. Frame(p)
    BY <1>1, <1>6 DEF Clear, Frame
  <2> QED BY <2>1, <2>3, <2>4 DEF Kind, Works
<1>7. CASE RepriceFails(p)
  BY <1>7, RejectKind DEF RepriceFails
<1>8. ASSUME NEW quote \in Quotes, Reprice(p, quote)
      PROVE  Kind(p) /\ Frame(p)
  <2>1. CASE DriftOK(Policy, BetOf(p).odds, quote)
    <3> DEFINE step == IF BetOf(p).book = "unibet" THEN "validate" ELSE "send"
    <3>1. /\ run[p].step = "reprice"
          /\ run' = [run EXCEPT ![p].step = step, ![p].price = quote]
          /\ UNCHANGED <<scans, terms, ledger, store, mem, account>>
      BY <1>8, <2>1 DEF Reprice
    <3>2. step \in {"validate", "send"}
      OBVIOUS
    <3> HIDE DEF step
    <3>3. run'[p] = [run[p] EXCEPT !.step = step, !.price = quote] /\ Frame(p)
      BY <1>1, <3>1 DEF Frame
    <3>4. /\ run'[p].step = step /\ run'[p].cmd = run[p].cmd /\ run'[p].price = quote
          /\ run'[p].id = run[p].id /\ run'[p].batch = run[p].batch
          /\ run'[p].stake = run[p].stake /\ run'[p].day = run[p].day
      BY <1>2, <3>3 DEF Runs
    <3> QED BY <2>1, <3>1, <3>2, <3>3, <3>4 DEF Kind, Works, MoneySteps
  <2>2. CASE ~DriftOK(Policy, BetOf(p).odds, quote)
    BY <1>8, <2>2, RejectKind DEF Reprice
  <2> QED BY <2>1, <2>2
<1>9. CASE Validate(p)
  <2>1. CASE GoTo(p, "send")
    <3>1. /\ run[p].step = "validate" /\ run' = [run EXCEPT ![p].step = "send"]
          /\ UNCHANGED <<scans, terms, ledger, store, mem, account>>
      BY <1>9, <2>1 DEF Validate, GoTo
    <3>2. run'[p] = [run[p] EXCEPT !.step = "send"] /\ Frame(p)
      BY <1>1, <3>1 DEF Frame
    <3>3. /\ run'[p].step = "send" /\ run'[p].cmd = run[p].cmd
          /\ run'[p].price = run[p].price
          /\ run'[p].id = run[p].id /\ run'[p].batch = run[p].batch
          /\ run'[p].stake = run[p].stake /\ run'[p].day = run[p].day
      BY <1>2, <3>2 DEF Runs
    <3> QED BY <3>1, <3>2, <3>3 DEF Kind, Works, MoneySteps
  <2>2. CASE RejectRow(p)
    BY <1>9, <2>2, RejectKind DEF Validate
  <2> QED BY <1>9, <2>1, <2>2 DEF Validate
<1>10. ASSUME NEW answer \in BookAnswers, NEW on \in BOOLEAN, Send(p, answer, on)
       PROVE  Kind(p) /\ Frame(p)
  <2>1. /\ run[p].step = "send"
        /\ run' = [run EXCEPT ![p].step = "answered", ![p].answer = answer, ![p].price = 0]
        /\ UNCHANGED <<scans, terms, ledger, store, mem>>
    BY <1>10 DEF Send
  <2>2. run'[p] = [run[p] EXCEPT !.step = "answered", !.answer = answer, !.price = 0]
        /\ Frame(p)
    BY <1>1, <2>1 DEF Frame
  <2>3. run'[p].answer = answer
    BY <1>2, <2>2 DEF Runs
  <2>4. \/ answer # "accept" /\ account' = account
        \/ account'.landings = [account.landings EXCEPT ![run[p].id] = @ + 1]
    BY <1>10 DEF Send
  <2>5. Sent(p)
    BY <2>1, <2>2, <2>3, <2>4 DEF Sent
  <2> QED BY <2>2, <2>5 DEF Kind
<1>11. CASE ReadAnswer(p)
  <2>1. run[p].step = "answered" /\ run[p].day \in Day /\ run[p].stake \in Nat
    BY <1>2, <1>11 DEF ReadAnswer, Runs
  <2>2. CASE Accepted(BetOf(p).book, run[p].answer)
             /\ Conclude(p, "placed", run[p].day, run[p].stake)
    BY <2>1, <2>2, ConcludeKind DEF Kind, Status
  <2>3. CASE RejectRow(p)
    BY <2>1, <2>3, RejectKind
  <2> QED BY <1>11, <2>2, <2>3 DEF ReadAnswer
<1> QED BY <1>4, <1>5, <1>6, <1>7, <1>8, <1>9, <1>10, <1>11

\* Every step is a tick of the clock or one command's step of some kind.
LEMMA NextKinds ==
    ASSUME TypeInv, Distinct, KnownNamed, Next
    PROVE  \/ UNCHANGED <<scans, terms, ledger, store, mem, run, account>>
           \/ \E p \in Proc : Kind(p) /\ Frame(p)
  BY CommandKinds, RunIntentKinds DEF Next, Step, Tick

(***************************************************************************)
(* A bet is put on once                                                    *)
(***************************************************************************)

\* The row a command writes is of its own bet.
LEMMA WritesEffect ==
    ASSUME TypeInv, NEW p \in Proc, NEW status \in Status, Writes(p, status)
    PROVE  LET id == run[p].id
           IN  /\ id \in Id /\ run[p].step \in Working
               /\ \A i \in Id \ {id} : ledger'.placed[i] = ledger.placed[i]
                                       /\ ledger'.latest[i] = ledger.latest[i]
               /\ ledger'.latest[id] = status
               /\ status # "placed" => /\ ledger'.placed[id] = ledger.placed[id]
                                       /\ ledger'.staked = ledger.staked
               /\ status = "placed" =>
                    /\ ledger'.placed[id] = ledger.placed[id] + run[p].stake
                    /\ ledger'.staked = [ledger.staked EXCEPT ![run[p].day] = @ + run[p].stake]
                    /\ run[p].stake \in Nat \ {0} /\ run[p].day \in Day
<1>1. run[p].step \in Working /\ run[p] \in Runs /\ ShapeOf(run[p]) /\ run[p].id \in Id
  <2>1. run[p].step \in Working
    BY DEF Writes, Working, MoneySteps
  <2> QED BY <2>1, WorkingTyped
<1>2. ledger \in Ledgers
  BY DEF TypeInv, TypeOK
<1>3. PICK day \in Day, stake \in Nat :
        /\ ledger' = AppendRow(ledger, [id |-> run[p].id, day |-> day,
                                        status |-> status, stake |-> stake])
        /\ status = "placed" => /\ run[p].step = "answered"
                                /\ day = run[p].day /\ stake = run[p].stake
  BY DEF Writes
<1> DEFINE row == [id |-> run[p].id, day |-> day, status |-> status, stake |-> stake]
<1>4. /\ row.id = run[p].id /\ row.day = day /\ row.status = status /\ row.stake = stake
      /\ row \in Row
  BY <1>1 DEF Row
<1> HIDE DEF row
<1>5. /\ ledger'.placed = [ledger.placed EXCEPT ![run[p].id] = @ + Spending(row)]
      /\ ledger'.latest = [ledger.latest EXCEPT ![run[p].id] = status]
      /\ ledger'.staked = [ledger.staked EXCEPT ![day] = @ + Spending(row)]
  BY <1>3, <1>4 DEF AppendRow, row
<1>6. /\ ledger.placed \in [Id -> Nat] /\ ledger.staked \in [Day -> Nat]
      /\ ledger.latest \in [Id -> Status \union {"none"}]
  BY <1>2 DEF Ledgers
<1>7. CASE status = "placed"
  <2>1. Spending(row) = run[p].stake /\ day = run[p].day
    BY <1>3, <1>4, <1>7 DEF Spending
  <2>2. run[p].stake \in Nat \ {0}
    <3>1. run[p].stake \in 1..Policy.max_stake /\ Policy.max_stake \in Nat
      BY <1>1, <1>3, <1>7, PlacingKeepsLimits DEF ShapeOf, MoneySteps, LimitsOK
    <3> QED BY <3>1
  <2> QED BY <1>1, <1>5, <1>6, <1>7, <2>1, <2>2
<1>8. CASE status # "placed"
  <2>1. Spending(row) = 0
    BY <1>4, <1>8 DEF Spending
  <2>2. ledger'.staked = ledger.staked
    BY <1>5, <1>6, <2>1
  <2> QED BY <1>1, <1>5, <1>6, <1>8, <2>1, <2>2
<1> QED BY <1>7, <1>8

\* A command at work holds an intent of its own or a proposal of its batch.
LEMMA OwnId ==
    ASSUME TypeInv, Distinct, NEW p \in Proc, run[p].step \in Working
    PROVE  /\ run[p].cmd = "scan" => run[p].id \in Intents /\ run[p].id <= scans
           /\ run[p].cmd = "place" => run[p].id \in Proposals /\ run[p].id \in run[p].batch
           /\ run[p].cmd \in {"scan", "place"}
<1>1. run[p] \in Runs /\ ShapeOf(run[p]) /\ scans \in 0..MaxScans
  BY WorkingTyped DEF TypeInv, TypeOK
<1> QED BY <1>1, BoundsTyped DEF Distinct, ShapeOf, Runs

LEMMA StateTyped ==
    ASSUME TypeInv
    PROVE  /\ run \in [Proc -> Runs] /\ mem \in [Proc -> Copies] /\ store \in Copies
           /\ terms \in [Id -> Terms] /\ scans \in 0..MaxScans /\ scans \in Nat
           /\ account.landings \in [Id -> Nat] /\ ledger.placed \in [Id -> Nat]
           /\ ledger.staked \in [Day -> Nat]
           /\ \A p \in Proc : run[p] \in Runs /\ ShapeOf(run[p])
  BY BoundsTyped DEF TypeInv, TypeOK, Shaped, Ledgers

LEMMA DistinctKept ==
    ASSUME PlaneInv, TypeInv', NEW p \in Proc, Kind(p), Frame(p)
    PROVE  Distinct'
<1>1. TypeInv /\ Distinct
  BY DEF PlaneInv
<1>2. run' \in [Proc -> Runs] /\ ShapeOf(run[p]) /\ ShapeOf(run'[p])
      /\ run \in [Proc -> Runs]
  BY <1>1, StateTyped DEF TypeInv, TypeOK, Shaped
<1>3. scans \in Nat
  BY <1>1, StateTyped
<1>4. /\ \A q \in Proc \ {p} : run'[q] = run[q]
  BY DEF Frame
<1> DEFINE Calm == /\ scans' = scans
                   /\ run'[p].cmd = "scan" => run[p].cmd = "scan" /\ run'[p].id = run[p].id
                   /\ run'[p].step \in {"loaded", "session"} => run'[p].batch = {}
                   /\ run'[p].step = "outcome" => run'[p].cmd = "place"
                   /\ run'[p].cmd = "scan" => run'[p].batch = {}
<1>5. Calm => Distinct'
  BY <1>1, <1>4 DEF Distinct
<1>6. CASE Leaves(p) \/ Saves(p) \/ Adds(p)
  BY <1>5, <1>6 DEF Leaves, Saves, Adds, Idle
<1>7. CASE Loads(p)
  BY <1>5, <1>7 DEF Loads
<1>8. CASE StartsScan(p)
  <2>1. run'[p].id = scans + 1 /\ scans' = scans + 1 /\ run'[p].step = "decide"
        /\ run'[p].batch = {}
    BY <1>8 DEF StartsScan, Idle
  <2> QED BY <1>1, <1>3, <1>4, <2>1 DEF Distinct
<1>9. CASE Prepares(p)
  BY <1>1, <1>5, <1>9 DEF Prepares, Distinct
<1>10. CASE Settles(p)
  BY <1>5, <1>10 DEF Settles, Idle
<1>11. CASE Works(p)
  BY <1>1, <1>5, <1>11 DEF Works, Distinct
<1>12. CASE Sent(p)
  <2>1. run'[p].step = "answered" /\ run'[p].cmd = run[p].cmd /\ run'[p].id = run[p].id
        /\ run'[p].batch = run[p].batch
    <3> DEFINE a == run'[p].answer
    <3>1. run'[p] = [run[p] EXCEPT !.step = "answered", !.answer = a, !.price = 0]
      BY <1>12 DEF Sent
    <3> HIDE DEF a
    <3>2. run[p] \in Runs
      BY <1>2
    <3> QED BY <3>1, <3>2 DEF Runs
  <2> QED BY <1>1, <1>5, <1>12, <2>1 DEF Sent, Distinct
<1>13. ASSUME NEW status \in Status, Writes(p, status)
       PROVE  Distinct'
  <2>1. run[p].cmd \in {"scan", "place"}
    BY <1>1, <1>13, WritesEffect, OwnId
  <2>2. CASE status = "asked"
    <3>1. run'[p] = [run[p] EXCEPT !.step = "ask"]
      BY <1>2, <1>13, <2>2 DEF Writes
    <3>2. run'[p].step = "ask" /\ run'[p].cmd = run[p].cmd /\ run'[p].id = run[p].id
          /\ run'[p].batch = run[p].batch
      BY <1>2, <3>1 DEF Runs
    <3> QED BY <1>1, <1>5, <1>13, <3>2 DEF Writes, Distinct
  <2>3. CASE status # "asked" /\ run[p].cmd = "scan"
    BY <1>5, <1>13, <2>3 DEF Writes, Idle
  <2>4. CASE status # "asked" /\ run[p].cmd # "scan"
    <3>1. run'[p] = [run[p] EXCEPT !.step = "outcome", !.placed = (status = "placed")]
      BY <1>2, <1>13, <2>4 DEF Writes
    <3>2. run'[p].step = "outcome" /\ run'[p].cmd = run[p].cmd
      BY <1>2, <3>1 DEF Runs
    <3> QED BY <1>5, <1>13, <2>1, <2>4, <3>2 DEF Writes
  <2> QED BY <2>2, <2>3, <2>4
<1> QED BY <1>6, <1>7, <1>8, <1>9, <1>10, <1>11, <1>12, <1>13 DEF Kind

LEMMA KnownNamedKept ==
    ASSUME PlaneInv, TypeInv', NEW p \in Proc, Kind(p), Frame(p)
    PROVE  KnownNamed'
<1>1. TypeInv /\ Distinct /\ KnownNamed /\ UnbornUnknown
  BY DEF PlaneInv
<1>2. /\ run' \in [Proc -> Runs] /\ run \in [Proc -> Runs] /\ run[p] \in Runs
      /\ mem \in [Proc -> Copies] /\ mem' \in [Proc -> Copies]
      /\ store \in Copies /\ terms \in [Id -> Terms] /\ scans \in Nat
  BY <1>1, StateTyped DEF TypeInv, TypeOK
<1>3. \A q \in Proc \ {p} : run'[q] = run[q] /\ mem'[q] = mem[q]
  BY DEF Frame
<1>4. Intents \subseteq Id /\ Proposals \subseteq Id /\ Intents \intersect Proposals = {}
  BY BoundsTyped DEF Id
\* Nothing is in the store, in p's copy or in its batch that was not there before.
<1> DEFINE Known(i) == store[i] # "absent" \/ mem[p][i] # "absent" \/ i \in run[p].batch
           Calm == \A i \in Proposals :
                      /\ store'[i] # "absent" => Known(i)
                      /\ mem'[p][i] # "absent" => Known(i)
                      /\ i \in run'[p].batch => Known(i)
<1>5. Calm /\ scans' = scans /\ terms' = terms => KnownNamed'
  BY <1>1, <1>3 DEF KnownNamed, Named
<1>6. \A i \in Proposals : EmptyStore[i] = "absent"
  BY DEF EmptyStore
<1>7. Idle.batch = {}
  BY DEF Idle
<1>8. CASE Leaves(p)
  BY <1>5, <1>6, <1>7, <1>8 DEF Leaves
<1>9. CASE Loads(p)
  BY <1>5, <1>9 DEF Loads
<1>10. CASE StartsScan(p)
  <2>1. PICK t \in Terms : t.book # "none" /\ terms' = [terms EXCEPT ![scans + 1] = t]
    BY <1>10 DEF StartsScan
  <2>2. scans' = scans + 1 /\ scans + 1 \in Intents /\ mem'[p] = store /\ store' = store
        /\ run'[p].batch = {}
    BY <1>2, <1>10, BoundsTyped DEF StartsScan, Idle, Intents
  <2>3. \A i \in Id : Named(i) \/ i = scans + 1 => Named(i)'
    BY <1>2, <2>1 DEF Named
  <2>4. \A i \in Intents : i <= scans' => Named(i)'
    BY <1>1, <1>2, <1>4, <2>2, <2>3, BoundsTyped DEF KnownNamed
  <2> QED BY <1>1, <1>3, <1>4, <2>2, <2>3, <2>4 DEF KnownNamed
<1>11. CASE Saves(p)
  <2>1. \A i \in Proposals : store'[i] # "absent" => mem[p][i] # "absent"
    BY <1>11 DEF Saves, MovesOn
  <2> QED BY <1>5, <1>6, <1>7, <1>11, <2>1 DEF Saves
<1>12. CASE Adds(p)
  <2> DEFINE k == ProposalOf(run[p].id)
  <2>1. PICK t \in Nat : terms' = [terms EXCEPT ![k] = [terms[run[p].id] EXCEPT !.expires = t]]
    BY <1>12 DEF Adds
  <2>2. run[p].step \in Working /\ run[p].cmd = "scan"
    BY <1>12 DEF Adds, At, Working
  <2>3. run[p].id \in Intents /\ run[p].id <= scans
    BY <1>1, <2>2, OwnId
  <2>4. k \in Proposals
    BY <2>3, BoundsTyped DEF ProposalOf, Intents, Proposals
  <2>5. Named(run[p].id) /\ terms[run[p].id] \in Terms
    BY <1>1, <1>2, <1>4, <2>3 DEF KnownNamed
  <2> HIDE DEF k
  <2>6. terms'[k].book # "none"
    <3>1. terms'[k] = [terms[run[p].id] EXCEPT !.expires = t]
      BY <1>2, <1>4, <2>1, <2>4
    <3> QED BY <2>5, <3>1 DEF Named, Terms
  <2>7. \A i \in Id : Named(i) \/ i = k => Named(i)'
    BY <1>2, <2>1, <2>6 DEF Named
  <2>8. \A i \in Proposals : store'[i] # "absent" => mem[p][i] # "absent" \/ i = k
    BY <1>2, <1>12 DEF Adds, Copies, k
  <2>9. scans' = scans /\ run'[p].batch = {} /\ \A i \in Proposals : mem'[p][i] = "absent"
    BY <1>6, <1>7, <1>12 DEF Adds
  <2> QED BY <1>1, <1>3, <1>4, <2>7, <2>8, <2>9 DEF KnownNamed
<1>13. CASE Prepares(p)
  <2>1. \A i \in Proposals : mem'[p][i] # "absent" => mem[p][i] # "absent"
    BY <1>13 DEF Prepares, ExpireIn
  <2>2. \A i \in Proposals : i \in run'[p].batch => i \in run[p].batch \/ mem'[p][i] # "absent"
    BY <1>13 DEF Prepares, LiveIn
  <2> QED BY <1>5, <1>13, <2>1, <2>2 DEF Prepares
<1>14. CASE Settles(p)
  <2>1. run[p].id \in run[p].batch
    BY <1>1, <1>14, OwnId DEF Settles, At, Working
  <2>2. \A i \in Proposals : store'[i] # "absent" => mem[p][i] # "absent" \/ i = run[p].id
    BY <1>2, <1>14 DEF Settles, Copies
  <2>3. \A i \in Proposals : mem'[p][i] # "absent" => store'[i] # "absent"
    BY <1>6, <1>14 DEF Settles
  <2>4. \A i \in Proposals : i \in run'[p].batch => i \in run[p].batch
    BY <1>7, <1>14 DEF Settles
  <2> QED BY <1>5, <1>14, <2>1, <2>2, <2>3, <2>4 DEF Settles
<1>15. CASE Works(p)
  BY <1>5, <1>15 DEF Works
<1>16. CASE Sent(p)
  <2>1. run'[p].batch = run[p].batch
    <3> DEFINE a == run'[p].answer
    <3>1. run'[p] = [run[p] EXCEPT !.step = "answered", !.answer = a, !.price = 0]
      BY <1>16 DEF Sent
    <3> HIDE DEF a
    <3> QED BY <1>2, <3>1 DEF Runs
  <2> QED BY <1>5, <1>16, <2>1 DEF Sent
<1>17. ASSUME NEW status \in Status, Writes(p, status)
       PROVE  KnownNamed'
  <2>1. \A i \in Proposals : i \in run'[p].batch => i \in run[p].batch
    <3>1. run'[p] = Idle \/ run'[p] = [run[p] EXCEPT !.step = "ask"]
          \/ run'[p] = [run[p] EXCEPT !.step = "outcome", !.placed = (status = "placed")]
      BY <1>2, <1>17 DEF Writes
    <3> QED BY <1>2, <1>7, <3>1 DEF Runs
  <2>2. \A i \in Proposals : mem'[p][i] # "absent" => mem[p][i] # "absent"
    BY <1>6, <1>17 DEF Writes
  <2> QED BY <1>5, <1>17, <2>1, <2>2 DEF Writes
<1> QED BY <1>8, <1>9, <1>10, <1>11, <1>12, <1>13, <1>14, <1>15, <1>16, <1>17 DEF Kind

LEMMA SentRun ==
    ASSUME TypeInv, NEW p \in Proc, Sent(p)
    PROVE  /\ run'[p].step = "answered" /\ run'[p].cmd = run[p].cmd
           /\ run'[p].id = run[p].id /\ run'[p].batch = run[p].batch
           /\ run'[p].stake = run[p].stake /\ run'[p].day = run[p].day
<1> DEFINE a == run'[p].answer
<1>1. run'[p] = [run[p] EXCEPT !.step = "answered", !.answer = a, !.price = 0]
  BY DEF Sent
<1> HIDE DEF a
<1>2. run[p] \in Runs
  BY StateTyped
<1> QED BY <1>1, <1>2 DEF Runs

LEMMA WritesRun ==
    ASSUME TypeInv, NEW p \in Proc, NEW status \in Status, Writes(p, status)
    PROVE  /\ \/ run'[p] = Idle
              \/ /\ run'[p].cmd = run[p].cmd /\ run'[p].id = run[p].id
                 /\ run'[p].batch = run[p].batch
                 /\ \/ run'[p].step = "ask" /\ status = "asked"
                    \/ /\ run'[p].step = "outcome" /\ run'[p].placed = (status = "placed")
                       /\ status \notin {"asked", "paper"} /\ run[p].cmd # "scan"
           /\ mem'[p] = EmptyStore \/ mem'[p] = mem[p]
           /\ run'[p] # Idle => mem'[p] = mem[p]
<1>1. run \in [Proc -> Runs] /\ run[p] \in Runs
  BY StateTyped
<1>2. \/ run'[p] = Idle /\ mem'[p] = EmptyStore
      \/ run'[p] = [run[p] EXCEPT !.step = "ask"] /\ status = "asked" /\ mem' = mem
      \/ /\ run'[p] = [run[p] EXCEPT !.step = "outcome", !.placed = (status = "placed")]
         /\ mem' = mem /\ run[p].cmd # "scan" /\ status \notin {"asked", "paper"}
  BY <1>1 DEF Writes
<1> QED BY <1>1, <1>2 DEF Runs

LEMMA UnbornKept ==
    ASSUME PlaneInv, TypeInv', Distinct', NEW p \in Proc, Kind(p), Frame(p)
    PROVE  UnbornUnknown'
<1>1. TypeInv /\ Distinct /\ UnbornUnknown
  BY DEF PlaneInv
<1>2. /\ run' \in [Proc -> Runs] /\ run \in [Proc -> Runs] /\ run[p] \in Runs
      /\ mem \in [Proc -> Copies] /\ mem' \in [Proc -> Copies]
      /\ store \in Copies /\ scans \in Nat
      /\ account.landings \in [Id -> Nat] /\ ledger.placed \in [Id -> Nat]
  BY <1>1, StateTyped DEF TypeInv, TypeOK
<1>3. \A q \in Proc \ {p} : run'[q] = run[q] /\ mem'[q] = mem[q]
  BY DEF Frame
<1>4. Proposals \subseteq Id /\ Intents \intersect Proposals = {} /\ Proposals \subseteq Nat
      /\ MaxScans \in Nat
  BY BoundsTyped DEF Id
<1> SUFFICES ASSUME NEW i \in Proposals, Unborn(i)' PROVE NobodyKnows(i)'
  BY DEF UnbornUnknown
\* A bet at work is not on an unborn proposal.
<1>5. ASSUME run[p].step \in Working, Unborn(i)
      PROVE  run[p].id # i
  BY <1>1, <1>4, <1>5, OwnId DEF UnbornUnknown, NobodyKnows
<1>6. ASSUME scans' = scans, run'[p].cmd = "scan" => run[p].cmd = "scan" /\ run'[p].id = run[p].id
      PROVE  Unborn(i)
  BY <1>3, <1>6 DEF Unborn
<1> DEFINE Calm == /\ store'[i] = "absent" /\ mem'[p][i] = "absent" /\ i \notin run'[p].batch
                   /\ ledger'.placed[i] = ledger.placed[i]
                   /\ account'.landings[i] = account.landings[i]
<1>7. Unborn(i) /\ Calm => NobodyKnows(i)'
  BY <1>1, <1>3 DEF UnbornUnknown, NobodyKnows
<1>8. EmptyStore[i] = "absent" /\ Idle.batch = {} /\ Idle.cmd = "none"
  BY DEF EmptyStore, Idle
<1>9. CASE Leaves(p)
  <2>1. Unborn(i)
    BY <1>6, <1>8, <1>9 DEF Leaves
  <2> QED BY <1>1, <1>7, <1>8, <1>9, <2>1 DEF Leaves, UnbornUnknown, NobodyKnows
<1>10. CASE Loads(p)
  <2>1. Unborn(i)
    BY <1>6, <1>10 DEF Loads
  <2> QED BY <1>1, <1>7, <1>10, <2>1 DEF Loads, UnbornUnknown, NobodyKnows
<1>11. CASE StartsScan(p)
  <2>1. run'[p].id = scans + 1 /\ scans' = scans + 1 /\ run'[p].batch = {}
    BY <1>11 DEF StartsScan, Idle
  <2>2. Unborn(i)
    BY <1>2, <1>3, <1>4, <2>1 DEF Unborn
  <2> QED BY <1>1, <1>7, <1>11, <2>1, <2>2 DEF StartsScan, UnbornUnknown, NobodyKnows
<1>12. CASE Saves(p)
  <2>1. Unborn(i)
    BY <1>6, <1>8, <1>12 DEF Saves
  <2>2. mem[p][i] = "absent" => store'[i] = "absent"
    BY <1>12 DEF Saves, MovesOn
  <2> QED BY <1>1, <1>7, <1>8, <1>12, <2>1, <2>2 DEF Saves, UnbornUnknown, NobodyKnows
<1>13. CASE Adds(p)
  <2>1. run[p].step \in Working /\ run[p].cmd = "scan"
    BY <1>13 DEF Adds, At, Working
  <2>2. Unborn(i)
    BY <1>6, <1>8, <1>13 DEF Adds
  <2>3. run[p].id \in Intents /\ run[p].id <= scans /\ scans' = scans
    BY <1>1, <1>13, <2>1, OwnId DEF Adds
  <2>4. i # ProposalOf(run[p].id)
    <3> SUFFICES ASSUME i = ProposalOf(run[p].id) PROVE FALSE
      OBVIOUS
    <3>1. i - MaxScans = run[p].id
      <4>1. run[p].id \in Nat /\ i = run[p].id + MaxScans
        BY <2>3, BoundsTyped DEF ProposalOf
      <4> QED BY <1>4, <4>1
    <3>2. PICK q \in Proc : run'[q].cmd = "scan" /\ run'[q].id = run[p].id
      BY <1>2, <2>3, <3>1, BoundsTyped DEF Unborn
    <3>3. q # p
      BY <1>8, <1>13, <3>2 DEF Adds
    <3> QED BY <1>1, <1>3, <2>1, <3>2, <3>3 DEF Distinct
  <2>5. store'[i] = mem[p][i]
    BY <1>2, <1>13, <2>4 DEF Adds, Copies
  <2> QED BY <1>1, <1>7, <1>8, <1>13, <2>2, <2>5 DEF Adds, UnbornUnknown, NobodyKnows
<1>14. CASE Prepares(p)
  <2>1. Unborn(i)
    BY <1>6, <1>14 DEF Prepares
  <2>2. mem[p][i] = "absent" => mem'[p][i] = "absent"
    BY <1>14 DEF Prepares, ExpireIn
  <2>3. mem[p][i] = "absent" /\ i \notin run[p].batch => i \notin run'[p].batch
    BY <1>14, <2>2 DEF Prepares, LiveIn
  <2> QED BY <1>1, <1>7, <1>14, <2>1, <2>2, <2>3 DEF Prepares, UnbornUnknown, NobodyKnows
<1>15. CASE Settles(p)
  <2>1. Unborn(i)
    BY <1>6, <1>8, <1>15 DEF Settles
  <2>2. run[p].id # i
    BY <1>5, <1>15, <2>1 DEF Settles, At, Working
  <2>3. store'[i] = mem[p][i]
    BY <1>2, <1>15, <2>2 DEF Settles, Copies
  <2> QED BY <1>1, <1>7, <1>8, <1>15, <2>1, <2>3 DEF Settles, UnbornUnknown, NobodyKnows
<1>16. CASE Works(p)
  <2>1. Unborn(i)
    BY <1>6, <1>16 DEF Works
  <2> QED BY <1>1, <1>7, <1>16, <2>1 DEF Works, UnbornUnknown, NobodyKnows
<1>17. CASE Sent(p)
  <2>1. Unborn(i)
    BY <1>1, <1>6, <1>17, SentRun DEF Sent
  <2>2. run[p].id # i
    BY <1>5, <1>17, <2>1 DEF Sent, Working, MoneySteps
  <2>3. account'.landings[i] = account.landings[i]
    BY <1>2, <1>4, <1>17, <2>2 DEF Sent
  <2>4. run'[p].batch = run[p].batch
    BY <1>1, <1>17, SentRun
  <2> QED BY <1>1, <1>7, <1>17, <2>1, <2>3, <2>4 DEF Sent, UnbornUnknown, NobodyKnows
<1>18. ASSUME NEW status \in Status, Writes(p, status)
       PROVE  NobodyKnows(i)'
  <2>1. Unborn(i)
    BY <1>1, <1>6, <1>8, <1>18, WritesRun DEF Writes
  <2>2. run[p].id # i
    BY <1>1, <1>5, <1>18, <2>1, WritesEffect
  <2>3. ledger'.placed[i] = ledger.placed[i]
    BY <1>1, <1>4, <1>18, <2>2, WritesEffect
  <2>4. /\ run'[p].batch = run[p].batch \/ run'[p].batch = {}
        /\ mem'[p] = EmptyStore \/ mem'[p] = mem[p]
    BY <1>1, <1>8, <1>18, WritesRun
  <2> QED BY <1>1, <1>7, <1>8, <1>18, <2>1, <2>3, <2>4 DEF Writes, UnbornUnknown, NobodyKnows
<1> QED BY <1>9, <1>10, <1>11, <1>12, <1>13, <1>14, <1>15, <1>16, <1>17, <1>18 DEF Kind

LEMMA LandedKept ==
    ASSUME PlaneInv, TypeInv', NEW p \in Proc, Kind(p), Frame(p)
    PROVE  Landed' /\ AutoPlacedOnce'
<1>1. TypeInv /\ Distinct /\ Landed /\ AutoPlacedOnce
  BY DEF PlaneInv
<1>2. /\ run[p] \in Runs /\ scans \in Nat
      /\ account.landings \in [Id -> Nat] /\ ledger.placed \in [Id -> Nat]
      /\ \A q \in Proc : run[q] \in Runs /\ ShapeOf(run[q])
  BY <1>1, StateTyped
<1>3. \A q \in Proc \ {p} : run'[q] = run[q]
  BY DEF Frame
<1>4. Intents \subseteq Id /\ Proposals \subseteq Id /\ Intents \intersect Proposals = {}
      /\ Intents \subseteq Nat
  BY BoundsTyped DEF Id
\* No money moves, and p is no nearer to an answer.
<1>5. ASSUME account' = account, ledger' = ledger, scans' = scans,
             run'[p].step # "answered",
             run'[p].cmd = "scan" => /\ run[p].cmd = "scan" /\ run'[p].id = run[p].id
                                     /\ run[p].step # "answered"
      PROVE  Landed' /\ AutoPlacedOnce'
  BY <1>1, <1>3, <1>5 DEF Landed, AutoPlacedOnce
<1>6. Idle.cmd = "none" /\ Idle.step = "idle"
  BY DEF Idle
<1>7. CASE Leaves(p) \/ Saves(p) \/ Adds(p)
  BY <1>5, <1>6, <1>7 DEF Leaves, Saves, Adds
<1>8. CASE Loads(p)
  BY <1>5, <1>8 DEF Loads
<1>9. CASE StartsScan(p)
  <2>1. /\ run'[p].cmd = "scan" /\ run'[p].id = scans + 1 /\ run'[p].step = "decide"
        /\ scans' = scans + 1 /\ scans + 1 \in Intents /\ account' = account /\ ledger' = ledger
    BY <1>2, <1>9, BoundsTyped DEF StartsScan, Idle, Intents
  <2>2. \A i \in Intents : i > scans' => i > scans
    <3> SUFFICES ASSUME NEW i \in Intents, i > scans' PROVE i > scans
      OBVIOUS
    <3>1. i \in Nat /\ scans' = scans + 1
      BY <1>4, <2>1
    <3> QED BY <1>2, <3>1
  <2>3. scans + 1 > scans
    BY <1>2
  <2> QED BY <1>1, <1>3, <2>1, <2>2, <2>3 DEF Landed, AutoPlacedOnce
<1>10. CASE Prepares(p)
  BY <1>5, <1>10 DEF Prepares
<1>11. CASE Settles(p)
  BY <1>5, <1>6, <1>11 DEF Settles
<1>12. CASE Works(p)
  BY <1>5, <1>12 DEF Works
<1>13. CASE Sent(p)
  <2> DEFINE id == run[p].id
  <2>1. /\ run'[p].step = "answered" /\ run'[p].cmd = run[p].cmd /\ run'[p].id = id
        /\ scans' = scans /\ ledger' = ledger /\ run[p].step = "send"
    BY <1>1, <1>13, SentRun DEF Sent
  <2>2. /\ run[p].cmd = "scan" => id \in Intents /\ id <= scans
        /\ run[p].cmd = "place" => id \in Proposals
        /\ run[p].cmd \in {"scan", "place"} /\ id \in Id
    BY <1>1, <1>4, <2>1, OwnId DEF Working, MoneySteps
  <2>3. /\ \A i \in Id \ {id} : account'.landings[i] = account.landings[i]
        /\ account'.landings[id] \in {account.landings[id], account.landings[id] + 1}
        /\ run'[p].answer = "accept" => account'.landings[id] = account.landings[id] + 1
    BY <1>2, <1>13, <2>2 DEF Sent
  <2>4. \A q \in Proc \ {p} : run[q].cmd = "scan" => run[q].id # id /\ run[q].id \in Id
    <3> SUFFICES ASSUME NEW q \in Proc \ {p}, run[q].cmd = "scan"
                 PROVE  run[q].id # id /\ run[q].id \in Id
      OBVIOUS
    <3>1. run[q].id \in Intents
      BY <1>2 DEF ShapeOf
    <3> QED BY <1>1, <1>4, <2>2, <3>1 DEF Distinct
  <2>5. \A q \in Proc \ {p} : run[q].step = "answered" => run[q].id \in Id
    <3> SUFFICES ASSUME NEW q \in Proc \ {p}, run[q].step = "answered" PROVE run[q].id \in Id
      OBVIOUS
    <3> QED BY <1>1, WorkingTyped DEF Working, MoneySteps
  <2>6. \A i \in Intents : i > scans => i # id
    BY <1>2, <1>4, <2>2
  <2>7. \A q \in Proc \ {p} : run'[q] = run[q] /\ run[q].step = "answered"
            /\ run[q].answer = "accept" => account'.landings[run[q].id] > 0
    <3> SUFFICES ASSUME NEW q \in Proc \ {p}, run[q].step = "answered", run[q].answer = "accept"
                 PROVE  account'.landings[run[q].id] > 0
      OBVIOUS
    <3>1. account.landings[run[q].id] > 0 /\ run[q].id \in Id
      BY <1>1, <2>5 DEF Landed
    <3> QED BY <1>2, <2>3, <3>1
  <2>8. account.landings[id] \in Nat
    BY <1>2, <2>2
  <2>9. Landed'
    <3>1. \A i \in Intents : i > scans' => account'.landings[i] = 0 /\ ledger'.placed[i] = 0
      BY <1>1, <1>4, <2>1, <2>3, <2>6 DEF Landed
    <3>2. \A q \in Proc : run'[q].cmd = "scan" =>
            /\ run'[q].step # "answered" => account'.landings[run'[q].id] = 0
            /\ ledger'.placed[run'[q].id] = 0
      BY <1>1, <1>3, <2>1, <2>3, <2>4 DEF Landed
    <3>3. \A q \in Proc : run'[q].step = "answered" /\ run'[q].answer = "accept"
            => account'.landings[run'[q].id] > 0
      BY <1>3, <2>1, <2>3, <2>7, <2>8
    <3> QED BY <3>1, <3>2, <3>3 DEF Landed
  <2>10. AutoPlacedOnce'
    <3> SUFFICES ASSUME NEW i \in Intents PROVE account'.landings[i] <= 1
      BY DEF AutoPlacedOnce
    <3>1. CASE i # id
      BY <1>1, <1>4, <2>3, <3>1 DEF AutoPlacedOnce
    <3>2. CASE i = id
      <4>1. account.landings[id] = 0
        BY <1>1, <1>4, <2>1, <2>2, <3>2 DEF Landed
      <4> QED BY <2>3, <3>2, <4>1
    <3> QED BY <3>1, <3>2
  <2> QED BY <2>9, <2>10
<1>14. ASSUME NEW status \in Status, Writes(p, status)
       PROVE  Landed' /\ AutoPlacedOnce'
  <2> DEFINE id == run[p].id
  <2>1. /\ id \in Id /\ account' = account /\ scans' = scans /\ run[p].step \in Working
        /\ \A i \in Id \ {id} : ledger'.placed[i] = ledger.placed[i]
        /\ status # "placed" => ledger'.placed[id] = ledger.placed[id]
    BY <1>1, <1>14, WritesEffect DEF Writes
  <2>2. /\ run[p].cmd = "scan" => id \in Intents /\ id <= scans
        /\ run[p].cmd = "place" => id \in Proposals
        /\ run[p].cmd \in {"scan", "place"}
    BY <1>1, <2>1, OwnId
  <2>3. /\ run'[p].step # "answered"
        /\ run'[p].cmd = "scan" => /\ run'[p].id = id /\ status = "asked"
                                   /\ run[p].cmd = "scan" /\ run[p].step = "decide"
    BY <1>1, <1>6, <1>14, WritesRun DEF Writes
  <2>4. \A q \in Proc \ {p} : run[q].cmd = "scan" => run[q].id # id /\ run[q].id \in Id
    <3> SUFFICES ASSUME NEW q \in Proc \ {p}, run[q].cmd = "scan"
                 PROVE  run[q].id # id /\ run[q].id \in Id
      OBVIOUS
    <3>1. run[q].id \in Intents
      BY <1>2 DEF ShapeOf
    <3> QED BY <1>1, <1>4, <2>2, <3>1 DEF Distinct
  <2>5. \A i \in Intents : i > scans => i # id
    BY <1>2, <1>4, <2>2
  <2>6. \A i \in Intents : i > scans' => account'.landings[i] = 0 /\ ledger'.placed[i] = 0
    BY <1>1, <1>4, <2>1, <2>5 DEF Landed
  <2>7. \A q \in Proc : run'[q].cmd = "scan" =>
          /\ run'[q].step # "answered" => account'.landings[run'[q].id] = 0
          /\ ledger'.placed[run'[q].id] = 0
    BY <1>1, <1>3, <2>1, <2>3, <2>4 DEF Landed
  <2>8. \A q \in Proc : run'[q].step = "answered" /\ run'[q].answer = "accept"
          => account'.landings[run'[q].id] > 0
    BY <1>1, <1>3, <2>1, <2>3 DEF Landed
  <2> QED BY <1>1, <2>1, <2>6, <2>7, <2>8 DEF Landed, AutoPlacedOnce
<1> QED BY <1>7, <1>8, <1>9, <1>10, <1>11, <1>12, <1>13, <1>14 DEF Kind

\* No step rewrites the terms of a bet that somebody is working on.
LEMMA TermsKept ==
    ASSUME PlaneInv, TypeInv', NEW p \in Proc, Kind(p), Frame(p)
    PROVE  /\ \A q \in Proc : run[q].step \in Working => terms'[run[q].id] = terms[run[q].id]
           /\ \A i \in Id : ledger.placed[i] > 0 => terms'[i] = terms[i]
<1>1. TypeInv /\ Distinct /\ Landed /\ UnbornUnknown
  BY DEF PlaneInv
<1>2. terms \in [Id -> Terms] /\ scans \in Nat
  BY <1>1, StateTyped
<1>3. Intents \subseteq Id /\ Proposals \subseteq Id /\ Intents \intersect Proposals = {}
      /\ Intents \subseteq Nat
  BY BoundsTyped DEF Id
<1>4. CASE StartsScan(p)
  <2>1. \A i \in Id : i # scans + 1 => terms'[i] = terms[i]
    BY <1>2, <1>4 DEF StartsScan
  <2>2. scans + 1 \in Intents /\ scans + 1 > scans
    BY <1>2, <1>4, BoundsTyped DEF StartsScan, Intents
  <2>3. ledger.placed[scans + 1] = 0
    BY <1>1, <2>2 DEF Landed
  <2>4. \A q \in Proc : run[q].step \in Working => run[q].id \in Id /\ run[q].id # scans + 1
    <3> SUFFICES ASSUME NEW q \in Proc, run[q].step \in Working
                 PROVE  run[q].id \in Id /\ run[q].id # scans + 1
      OBVIOUS
    <3>1. /\ run[q].cmd = "scan" => run[q].id \in Intents /\ run[q].id <= scans
          /\ run[q].cmd = "place" => run[q].id \in Proposals
          /\ run[q].cmd \in {"scan", "place"}
      BY <1>1, OwnId
    <3>2. CASE run[q].cmd = "scan"
      <4>1. run[q].id \in Nat /\ run[q].id \in Id /\ run[q].id <= scans
        BY <1>3, <3>1, <3>2
      <4> QED BY <1>2, <2>2, <4>1
    <3>3. CASE run[q].cmd = "place"
      BY <1>3, <2>2, <3>1, <3>3
    <3> QED BY <3>1, <3>2, <3>3
  <2> QED BY <2>1, <2>3, <2>4
<1>5. CASE Adds(p)
  <2> DEFINE k == ProposalOf(run[p].id)
  <2>1. \A i \in Id : i # k => terms'[i] = terms[i]
    BY <1>2, <1>5 DEF Adds
  <2>2. run[p].id \in Intents /\ run[p].cmd = "scan"
    BY <1>1, <1>5, OwnId DEF Adds, At, Working
  <2>3. k \in Proposals /\ k - MaxScans = run[p].id
    BY <2>2, BoundsTyped DEF ProposalOf, Intents, Proposals
  <2>4. NobodyKnows(k)
    BY <1>1, <2>2, <2>3 DEF UnbornUnknown, Unborn
  <2> HIDE DEF k
  <2>5. \A q \in Proc : run[q].step \in Working => run[q].id \in Id /\ run[q].id # k
    <3> SUFFICES ASSUME NEW q \in Proc, run[q].step \in Working
                 PROVE  run[q].id \in Id /\ run[q].id # k
      OBVIOUS
    <3>1. /\ run[q].cmd = "scan" => run[q].id \in Intents
          /\ run[q].cmd = "place" => run[q].id \in Proposals /\ run[q].id \in run[q].batch
          /\ run[q].cmd \in {"scan", "place"}
      BY <1>1, OwnId
    <3> QED BY <1>3, <2>3, <2>4, <3>1 DEF NobodyKnows
  <2> QED BY <2>1, <2>4, <2>5 DEF NobodyKnows
<1>6. CASE terms' = terms
  BY <1>6
<1> QED BY <1>4, <1>5, <1>6
     DEF Kind, Leaves, Loads, Saves, Prepares, Settles, Works, Sent, Writes

LEMMA RepricedKept ==
    ASSUME PlaneInv, TypeInv', NEW p \in Proc, Kind(p), Frame(p)
    PROVE  Repriced'
<1>1. TypeInv /\ Repriced
  BY DEF PlaneInv
<1>2. \A q \in Proc \ {p} : run'[q] = run[q]
  BY DEF Frame
<1>3. \A q \in Proc : run[q].step \in Working => terms'[run[q].id] = terms[run[q].id]
  BY TermsKept
<1>4. run'[p].step \in {"validate", "send"}
        => Works(p) /\ DriftOK(Policy, terms[run'[p].id].odds, run'[p].price)
           /\ run'[p].id = run[p].id /\ run[p].step \in Working
  <2>1. CASE Works(p)
    BY <1>1, <2>1 DEF Works, Repriced, BetOf, Working, MoneySteps
  <2>2. CASE Sent(p)
    BY <1>1, <2>2, SentRun
  <2>3. ASSUME NEW status \in Status, Writes(p, status)
        PROVE  run'[p].step \notin {"validate", "send"}
    BY <1>1, <2>3, WritesRun DEF Idle
  <2>4. CASE Leaves(p) \/ Saves(p) \/ Adds(p) \/ Settles(p)
    BY <2>4 DEF Leaves, Saves, Adds, Settles, Idle
  <2>5. CASE Loads(p) \/ Prepares(p)
    BY <2>5 DEF Loads, Prepares
  <2>6. CASE StartsScan(p)
    BY <2>6 DEF StartsScan, Idle
  <2> QED BY <2>1, <2>2, <2>3, <2>4, <2>5, <2>6 DEF Kind
<1>5. \A q \in Proc : run'[q].step \in {"validate", "send"}
        => DriftOK(Policy, terms'[run'[q].id].odds, run'[q].price)
  <2> SUFFICES ASSUME NEW q \in Proc, run'[q].step \in {"validate", "send"}
               PROVE  DriftOK(Policy, terms'[run'[q].id].odds, run'[q].price)
    OBVIOUS
  <2>1. CASE q = p
    BY <1>3, <1>4, <2>1
  <2>2. CASE q # p
    <3>1. run'[q] = run[q] /\ run[q].step \in Working
      BY <1>2, <2>2 DEF Working, MoneySteps
    <3>2. DriftOK(Policy, terms[run[q].id].odds, run[q].price)
      BY <1>1, <3>1 DEF Repriced, BetOf
    <3> QED BY <1>3, <3>1, <3>2
  <2> QED BY <2>1, <2>2
<1> QED BY <1>5 DEF Repriced, BetOf

LEMMA PlacedRowsKept ==
    ASSUME PlaneInv, TypeInv', NEW p \in Proc, Kind(p), Frame(p)
    PROVE  PlacedRowsAreOn'
<1>1. TypeInv /\ Distinct /\ Landed /\ PlacedRowsAreOn
  BY DEF PlaneInv
<1>2. account.landings \in [Id -> Nat] /\ ledger.placed \in [Id -> Nat]
  BY <1>1, StateTyped
<1>3. \A i \in Id : ledger.placed[i] > 0 => terms'[i] = terms[i]
  BY TermsKept
<1>4. \A i \in Id : account.landings[i] > 0 => account'.landings[i] > 0
  <2>1. CASE Sent(p)
    <3>1. run[p].id \in Id
      BY <1>1, <2>1, WorkingTyped DEF Sent, Working, MoneySteps
    <3> QED BY <1>2, <2>1, <3>1 DEF Sent
  <2>2. CASE account' = account
    BY <2>2
  <2> QED BY <2>1, <2>2
       DEF Kind, Leaves, Loads, StartsScan, Saves, Adds, Prepares, Settles, Works, Writes
<1>5. CASE ledger' = ledger
  BY <1>1, <1>3, <1>4, <1>5 DEF PlacedRowsAreOn
<1>6. ASSUME NEW status \in Status, Writes(p, status)
      PROVE  PlacedRowsAreOn'
  <2> DEFINE id == run[p].id
  <2>1. /\ id \in Id /\ account' = account /\ terms' = terms
        /\ \A i \in Id \ {id} : ledger'.placed[i] = ledger.placed[i]
        /\ status # "placed" => ledger'.placed[id] = ledger.placed[id]
    BY <1>1, <1>6, WritesEffect DEF Writes
  <2>2. status = "placed" /\ terms[id].book # "unibet" => account.landings[id] > 0
    BY <1>1, <1>6 DEF Writes, Accepted, Landed, BetOf
  <2> QED BY <1>1, <2>1, <2>2 DEF PlacedRowsAreOn
<1> QED BY <1>5, <1>6
     DEF Kind, Leaves, Loads, StartsScan, Saves, Adds, Prepares, Settles, Works, Sent

LEMMA InitPlane == Init => PlaneInv
<1> SUFFICES ASSUME Init PROVE PlaneInv
  OBVIOUS
<1>1. TypeInv
  BY InitTyped
<1>2. /\ \A p \in Proc : run[p] = Idle
      /\ Idle.cmd = "none" /\ Idle.step = "idle" /\ Idle.batch = {}
  BY DEF Init, Idle
<1>3. /\ \A i \in Proposals : store[i] = "absent" /\ \A p \in Proc : mem[p][i] = "absent"
      /\ \A i \in Id : ledger.placed[i] = 0 /\ account.landings[i] = 0
  BY DEF Init, EmptyStore, EmptyLedger
<1>4. scans = 0 /\ Intents \subseteq Id /\ Proposals \subseteq Id
      /\ \A i \in Intents : ~(i <= scans)
  BY BoundsTyped DEF Init, Id, Intents
<1>5. Distinct /\ Repriced
  BY <1>2 DEF Distinct, Repriced
<1>6. KnownNamed /\ UnbornUnknown
  BY <1>2, <1>3, <1>4 DEF KnownNamed, UnbornUnknown, NobodyKnows
<1>7. Landed /\ AutoPlacedOnce /\ PlacedRowsAreOn
  BY <1>2, <1>3, <1>4 DEF Landed, AutoPlacedOnce, PlacedRowsAreOn
<1> QED BY <1>1, <1>5, <1>6, <1>7 DEF PlaneInv

LEMMA PlaneInvKept == PlaneInv /\ [Next]_vars => PlaneInv'
<1> SUFFICES ASSUME PlaneInv, [Next]_vars PROVE PlaneInv'
  OBVIOUS
<1>1. CASE Next
  <2>1. TypeInv /\ Distinct /\ KnownNamed
    BY DEF PlaneInv
  <2>2. TypeInv'
    BY <1>1, <2>1, NextLifts
  <2>3. CASE \E p \in Proc : Kind(p) /\ Frame(p)
    <3>1. PICK p \in Proc : Kind(p) /\ Frame(p)
      BY <2>3
    <3> QED BY <2>2, <3>1, DistinctKept, KnownNamedKept, UnbornKept, LandedKept,
               RepricedKept, PlacedRowsKept DEF PlaneInv
  <2>4. CASE UNCHANGED <<scans, terms, ledger, store, mem, run, account>>
    BY <2>2, <2>4 DEF PlaneInv, Distinct, KnownNamed, Named, UnbornUnknown, Unborn, NobodyKnows,
                      Landed, Repriced, BetOf, AutoPlacedOnce, PlacedRowsAreOn
  <2> QED BY <1>1, <2>1, <2>3, <2>4, NextKinds
<1>2. CASE UNCHANGED vars
  BY <1>2 DEF vars, PlaneInv, TypeInv, TypeOK, Shaped,
              Distinct, KnownNamed, Named, UnbornUnknown, Unborn, NobodyKnows,
              Landed, Repriced, BetOf, AutoPlacedOnce, PlacedRowsAreOn
<1> QED BY <1>1, <1>2

LEMMA PlaneInvCorrect == Spec => []PlaneInv
  BY InitPlane, PlaneInvKept, PTL DEF Spec

\* No scan's bet is put on twice, whatever else runs, crashes or times out: run_intent
\* calls the placement tool once, and nobody comes back to a scan's intent.
THEOREM AutoPlacedOnceCorrect == Spec => []AutoPlacedOnce
  BY PlaneInvCorrect, PTL DEF PlaneInv

\* A "placed" row of the ledger is a bet that is on, unless the book is Unibet.
THEOREM PlacedRowsCorrect == Spec => []PlacedRowsAreOn
  BY PlaneInvCorrect, PTL DEF PlaneInv

\* Nothing is sent without a stake that decide() gave it and a price the drift gate
\* passed, by a scan or by `bet place`.
THEOREM SendsAreCleared == Spec => SendIsCleared
<1>1. PlaneInv => \A p \in Proc : Sends(p) =>
          /\ \/ run[p].price >= BetOf(p).odds
             \/ (BetOf(p).odds - run[p].price) * 1000 <= Policy.max_price_drift * BetOf(p).odds
          /\ run[p].stake \in 1..Policy.max_stake
  <2> SUFFICES ASSUME PlaneInv, NEW p \in Proc, run[p].step = "send"
               PROVE  /\ \/ run[p].price >= BetOf(p).odds
                         \/ (BetOf(p).odds - run[p].price) * 1000
                              <= Policy.max_price_drift * BetOf(p).odds
                      /\ run[p].stake \in 1..Policy.max_stake
    BY DEF Sends
  <2>1. DriftOK(Policy, BetOf(p).odds, run[p].price)
    BY DEF PlaneInv, Repriced
  <2>2. run[p].stake \in 1..Policy.max_stake
    BY StateTyped DEF PlaneInv, ShapeOf, MoneySteps
  <2> QED BY <2>1, <2>2 DEF DriftOK
<1> QED BY <1>1, PlaneInvCorrect, PTL DEF Spec, SendIsCleared

(***************************************************************************)
(* Commands that do not overlap: the two files agree                       *)
(***************************************************************************)

\* Alone, a proposal in p's hands is the one the store calls approved.
LEMMA HeldIsApproved ==
    ASSUME PlaneInv, NEW p \in Proc, InHand(p), run[p].step \in Working, run[p].cmd # "scan"
    PROVE  /\ run[p].cmd = "place" /\ run[p].id \in Proposals /\ run[p].id \in run[p].batch
           /\ store[run[p].id] = "approved" /\ mem[p][run[p].id] = "approved"
<1>1. TypeInv /\ Distinct
  BY DEF PlaneInv
<1>2. run[p].cmd = "place" /\ run[p].id \in Proposals /\ run[p].id \in run[p].batch
  BY <1>1, OwnId
<1> QED BY <1>2 DEF InHand, Remembers, Working, MoneySteps

LEMMA FateKept ==
    ASSUME PlaneInv, FateInv, Alone, NEW p \in Proc, Kind(p)
    PROVE  FateAgreesWithLedger' /\ InHand(p)'
<1>1. TypeInv /\ Distinct /\ UnbornUnknown /\ FateAgreesWithLedger /\ InHand(p)
  BY DEF PlaneInv, FateInv
<1>2. store \in Copies /\ mem[p] \in Copies /\ run[p] \in Runs
      /\ ledger.latest \in [Id -> Status \union {"none"}]
  BY <1>1, StateTyped DEF TypeInv, TypeOK, Ledgers
<1>3. Proposals \subseteq Id /\ Intents \subseteq Id /\ Intents \intersect Proposals = {}
  BY BoundsTyped DEF Id
<1>4. Idle.step = "idle" /\ Idle.batch = {}
  BY DEF Idle
<1>5. CASE Leaves(p)
  BY <1>1, <1>4, <1>5 DEF Leaves, FateAgreesWithLedger, InHand
<1>6. CASE Loads(p)
  BY <1>1, <1>6 DEF Loads, FateAgreesWithLedger, InHand, Remembers
<1>7. CASE StartsScan(p)
  <2>1. run'[p].step = "decide" /\ run'[p].batch = {}
    BY <1>7 DEF StartsScan, Idle
  <2> QED BY <1>1, <1>7, <2>1 DEF StartsScan, FateAgreesWithLedger, InHand, Remembers
<1>8. CASE Saves(p)
  <2>1. \A i \in Proposals : store'[i] \in {"placed", "failed"} => store'[i] = store[i]
    BY <1>1, <1>8 DEF Saves, MovesOn, InHand, Remembers
  <2> QED BY <1>1, <1>4, <1>8, <2>1 DEF Saves, FateAgreesWithLedger, InHand
<1>9. CASE Adds(p)
  <2>1. \A i \in Proposals : store'[i] \in {"placed", "failed"} => store'[i] = mem[p][i]
    BY <1>2, <1>9 DEF Adds, Copies
  <2>2. \A i \in Proposals : store'[i] \in {"placed", "failed"} => store'[i] = store[i]
    BY <1>1, <1>9, <2>1 DEF Adds, At, InHand, Remembers
  <2> QED BY <1>1, <1>4, <1>9, <2>2 DEF Adds, FateAgreesWithLedger, InHand
<1>10. CASE Prepares(p)
  <2>1. Remembers(p)'
    <3>1. Remembers(p)
      BY <1>1, <1>10 DEF Prepares, InHand
    <3> QED BY <1>10, <3>1 DEF Prepares, ExpireIn, Remembers
  <2>2. \A i \in run'[p].batch : mem'[p][i] = "approved"
    <3>1. run[p].batch = {}
      BY <1>1, <1>10 DEF Prepares, Distinct
    <3> QED BY <1>10, <3>1 DEF Prepares, LiveIn
  <2>3. run'[p].step # "outcome" /\ ledger' = ledger /\ store' = store
    BY <1>10 DEF Prepares
  <2> QED BY <1>1, <2>1, <2>2, <2>3 DEF FateAgreesWithLedger, InHand
<1>11. CASE Settles(p)
  <2> DEFINE id == run[p].id
             copy == [mem[p] EXCEPT ![id] = IF run[p].placed THEN "placed" ELSE "failed"]
  <2>1. run[p].step = "outcome" /\ run[p].cmd = "place" /\ store' = copy /\ ledger' = ledger
    BY <1>11 DEF Settles, At
  <2>2. /\ \A i \in Proposals \ {id} : copy[i] = mem[p][i]
        /\ id \in Proposals => copy[id] = IF run[p].placed THEN "placed" ELSE "failed"
    BY <1>2 DEF Copies
  <2>3. FateAgreesWithLedger'
    <3>1. \A i \in Proposals \ {id} : store'[i] \in {"placed", "failed"} => store'[i] = store[i]
      BY <1>1, <2>1, <2>2 DEF InHand, Remembers
    <3> QED BY <1>1, <2>1, <2>2, <3>1 DEF FateAgreesWithLedger, InHand
  <2> HIDE DEF copy
  <2>4. InHand(p)'
    <3>1. CASE run'[p] = Idle
      BY <1>4, <3>1 DEF InHand
    <3>2. CASE /\ run'[p].step = "decide" /\ run'[p].batch = run[p].batch \ {id}
               /\ mem'[p] = copy
      <4>1. run[p].batch \subseteq Proposals
        BY <1>2 DEF Runs
      <4> QED BY <1>1, <2>1, <2>2, <3>2, <4>1 DEF InHand, Remembers
    <3> QED BY <1>11, <3>1, <3>2 DEF Settles, copy
  <2> QED BY <2>3, <2>4
<1>12. CASE Works(p)
  BY <1>1, <1>12 DEF Works, FateAgreesWithLedger, InHand, Remembers
<1>13. CASE Sent(p)
  <2>1. run'[p].step = "answered" /\ run'[p].batch = run[p].batch
    BY <1>1, <1>13, SentRun
  <2> QED BY <1>1, <1>13, <2>1 DEF Sent, FateAgreesWithLedger, InHand, Remembers
<1>14. ASSUME NEW status \in Status, Writes(p, status)
       PROVE  FateAgreesWithLedger' /\ InHand(p)'
  <2> DEFINE id == run[p].id
  <2>1. /\ id \in Id /\ run[p].step \in Working /\ store' = store
        /\ \A i \in Id \ {id} : ledger'.latest[i] = ledger.latest[i]
        /\ ledger'.latest[id] = status
    BY <1>1, <1>14, WritesEffect DEF Writes
  <2>2. id \in Proposals => store[id] = "approved"
    <3>1. run[p].cmd = "scan" => id \in Intents
      BY <1>1, <2>1, OwnId
    <3> QED BY <1>1, <1>3, <2>1, <3>1, HeldIsApproved
  <2>3. FateAgreesWithLedger'
    BY <1>1, <1>3, <2>1, <2>2 DEF FateAgreesWithLedger
  <2>4. CASE run'[p] = Idle
    BY <1>4, <2>3, <2>4 DEF InHand
  <2>5. CASE run'[p] # Idle
    <3>1. /\ run'[p].id = id /\ run'[p].batch = run[p].batch /\ mem'[p] = mem[p]
          /\ \/ run'[p].step = "ask"
             \/ run'[p].placed = (status = "placed") /\ status \notin {"asked", "paper"}
      BY <1>1, <1>14, <2>5, WritesRun
    <3>2. Remembers(p)
      BY <1>1, <2>1 DEF InHand, Working, MoneySteps
    <3>3. run'[p].step = "outcome" => IF run'[p].placed THEN status = "placed"
                                      ELSE status \in {"rejected", "skipped"}
      BY <3>1 DEF Status
    <3> QED BY <1>1, <2>1, <2>3, <3>1, <3>2, <3>3 DEF InHand, Remembers
  <2> QED BY <2>3, <2>4, <2>5
<1> QED BY <1>5, <1>6, <1>7, <1>8, <1>9, <1>10, <1>11, <1>12, <1>13, <1>14 DEF Kind

LEMMA FateInvCorrect == Spec => []FateInv
<1>1. Init => FateInv
  BY DEF Init, Idle, EmptyStore, FateInv, FateAgreesWithLedger, InHand
<1>2. PlaneInv /\ FateInv /\ [Next]_vars => FateInv'
  <2> SUFFICES ASSUME PlaneInv, FateInv, [Next]_vars, Alone
               PROVE  FateAgreesWithLedger' /\ \A p \in Proc : InHand(p)'
    BY DEF FateInv, Alone
  <2>1. TypeInv /\ Distinct /\ KnownNamed
    BY DEF PlaneInv
  <2>2. CASE \E p \in Proc : Kind(p) /\ Frame(p)
    <3>1. PICK p \in Proc : Kind(p)
      BY <2>2
    <3> QED BY <3>1, FateKept DEF Alone
  <2>3. CASE UNCHANGED <<scans, terms, ledger, store, mem, run, account>>
    BY <2>3 DEF FateInv, FateAgreesWithLedger, InHand, Remembers
  <2> QED BY <2>1, <2>2, <2>3, NextKinds DEF vars
<1> QED BY <1>1, <1>2, PlaneInvCorrect, PTL DEF Spec

\* When commands do not overlap, the ledger bears out what the store says has become of
\* a proposal, wherever a command dies: the row is written before the save.
THEOREM FateCorrect == Alone => (Spec => []FateAgreesWithLedger)
<1> SUFFICES ASSUME Alone PROVE Spec => []FateAgreesWithLedger
  OBVIOUS
<1>1. FateInv => FateAgreesWithLedger
  BY DEF FateInv
<1> QED BY <1>1, FateInvCorrect, PTL

(***************************************************************************)
(* Commands that neither overlap nor die: the promise is kept              *)
(***************************************************************************)

LEMMA RememberedOpen ==
    ASSUME NEW p \in Proc, Remembers(p), NEW i \in Proposals,
           mem[p][i] \in {"absent", "pending", "approved"}
    PROVE  store[i] = mem[p][i]
  BY DEF Remembers

LEMMA WholeKept ==
    ASSUME PlaneInv, FateInv, PromiseInv, Tidy, NEW p \in Proc, Kind(p)
    PROVE  Whole(p)'
<1>1. TypeInv /\ Distinct /\ UnbornUnknown /\ InHand(p) /\ Whole(p) /\ MaxCrashes = 0
  BY DEF PlaneInv, FateInv, PromiseInv, Tidy
<1>2. /\ store \in Copies /\ mem[p] \in Copies /\ run[p] \in Runs
      /\ account.landings \in [Id -> Nat] /\ ledger.placed \in [Id -> Nat]
  BY <1>1, StateTyped
<1>3. Proposals \subseteq Id /\ Intents \subseteq Id /\ Intents \intersect Proposals = {}
  BY BoundsTyped DEF Id
<1>4. Idle.step = "idle" /\ "idle" \notin MoneySteps
  BY DEF Idle, MoneySteps
\* No money moves, and what is open now was open before and not in hand.
<1>5. ASSUME run[p].step \notin {"answered", "outcome"},
             run'[p].step \notin MoneySteps \union {"outcome"},
             account' = account, ledger' = ledger,
             \A i \in Proposals : Open(i)' => Open(i)
      PROVE  Whole(p)'
  BY <1>1, <1>5 DEF Whole, MoneySteps
<1>6. CASE Leaves(p)
  BY <1>1, <1>4, <1>5, <1>6 DEF Leaves, Open
<1>7. CASE Loads(p)
  BY <1>5, <1>7 DEF Loads, Open, MoneySteps
<1>8. CASE StartsScan(p)
  <2>1. run'[p].step = "decide" /\ run[p].step = "idle"
    BY <1>8 DEF StartsScan, Idle
  <2> QED BY <1>5, <1>8, <2>1 DEF StartsScan, Open, MoneySteps
<1>9. CASE Saves(p)
  <2>1. \A i \in Proposals : Open(i)' => Open(i)
    BY <1>1, <1>9 DEF Saves, MovesOn, InHand, Remembers, Open
  <2> QED BY <1>4, <1>5, <1>9, <2>1 DEF Saves
<1>10. CASE Adds(p)
  <2> DEFINE k == ProposalOf(run[p].id)
  <2>1. run[p].step = "ask" /\ run[p].cmd = "scan" /\ run[p].step \in Working
    BY <1>10 DEF Adds, At, Working
  <2>2. run[p].id \in Intents
    BY <1>1, <2>1, OwnId
  <2>3. k \in Proposals /\ k - MaxScans = run[p].id
    BY <2>2, BoundsTyped DEF ProposalOf, Intents, Proposals
  <2>4. store[k] = "absent"
    BY <1>1, <2>1, <2>3 DEF UnbornUnknown, Unborn, NobodyKnows
  <2> HIDE DEF k
  <2>5. store' = [mem[p] EXCEPT ![k] = "pending"]
    BY <1>10 DEF Adds, k
  <2>6. \A i \in Proposals : Open(i)' => Open(i)
    BY <1>1, <1>2, <2>1, <2>4, <2>5 DEF Copies, InHand, Remembers, Open
  <2> QED BY <1>4, <1>5, <1>10, <2>1, <2>6 DEF Adds
<1>11. CASE Prepares(p)
  BY <1>5, <1>11 DEF Prepares, Open, MoneySteps
<1>12. CASE Settles(p)
  <2> DEFINE id == run[p].id
             copy == [mem[p] EXCEPT ![id] = IF run[p].placed THEN "placed" ELSE "failed"]
  <2>1. run[p].step = "outcome" /\ store' = copy /\ ledger' = ledger /\ account' = account
    BY <1>12 DEF Settles, At
  <2>2. run'[p].step \in {"idle", "decide"}
    BY <1>4, <1>12 DEF Settles
  <2>3. /\ \A i \in Proposals \ {id} : copy[i] = mem[p][i]
        /\ id \in Proposals => copy[id] \in {"placed", "failed"}
    BY <1>2 DEF Copies
  <2> HIDE DEF copy
  <2>4. \A i \in Proposals : Open(i)' => i # id /\ Open(i)
    BY <1>1, <2>1, <2>3 DEF InHand, Remembers, Open
  <2> QED BY <1>1, <2>1, <2>2, <2>4 DEF Whole, MoneySteps
<1>13. CASE Works(p)
  BY <1>1, <1>13 DEF Works, Whole, Open, MoneySteps
<1>14. CASE Sent(p)
  <2> DEFINE id == run[p].id
  <2>1. /\ run'[p].step = "answered" /\ run'[p].id = id /\ run[p].step = "send"
        /\ run'[p].stake = run[p].stake /\ run'[p].day = run[p].day
        /\ ledger' = ledger /\ store' = store
    BY <1>1, <1>14, SentRun DEF Sent
  <2>2. \A i \in Proposals : i # id => account'.landings[i] = account.landings[i]
    BY <1>2, <1>3, <1>14 DEF Sent
  <2> QED BY <1>1, <2>1, <2>2 DEF Whole, Open, MoneySteps
<1>15. ASSUME NEW status \in Status, Writes(p, status)
       PROVE  Whole(p)'
  <2> DEFINE id == run[p].id
  <2>1. /\ id \in Id /\ run[p].step \in Working /\ store' = store /\ account' = account
        /\ \A i \in Id \ {id} : ledger'.placed[i] = ledger.placed[i]
        /\ status # "placed" => ledger'.placed[id] = ledger.placed[id]
        /\ status = "placed" => /\ ledger'.placed[id] = ledger.placed[id] + run[p].stake
                                /\ run[p].stake \in Nat \ {0}
    BY <1>1, <1>15, WritesEffect DEF Writes
  <2>2. run[p].step \in {"decide", "reprice", "validate", "answered"}
    BY <1>15 DEF Writes
  <2>3. run[p].cmd = "scan" => id \in Intents
    BY <1>1, <2>1, OwnId
  <2>4. CASE run[p].cmd = "scan"
    <3>1. \A i \in Proposals : i # id
      BY <1>3, <2>3, <2>4
    <3>2. run'[p].step \in {"idle", "ask"}
      BY <1>1, <1>4, <1>15, <2>4, WritesRun
    <3> QED BY <1>1, <1>3, <2>1, <3>1, <3>2 DEF Whole, Open, MoneySteps
  <2>5. CASE run[p].cmd # "scan"
    <3>1. /\ run[p].cmd = "place" /\ id \in Proposals /\ store[id] = "approved"
      BY <1>1, <2>1, <2>5, HeldIsApproved
    <3>2. status # "asked"
      BY <1>15, <2>5 DEF Writes
    <3>3. run' = [run EXCEPT ![p].step = "outcome", ![p].placed = (status = "placed")]
      BY <1>15, <2>5, <3>2 DEF Writes
    <3>4. run'[p].step = "outcome" /\ run'[p].id = id /\ run'[p].placed = (status = "placed")
      <4>1. run'[p] = [run[p] EXCEPT !.step = "outcome", !.placed = (status = "placed")]
        BY <1>1, <3>3, StateTyped
      <4> QED BY <1>2, <4>1 DEF Runs
    <3>5. ledger.placed[id] = 0
      BY <1>1, <2>2, <3>1 DEF Whole, Open
    <3>6. run'[p].placed <=> ledger'.placed[id] > 0
      <4>1. status = "placed" => ledger'.placed[id] > 0
        BY <2>1, <3>5
      <4>2. status # "placed" => ~(ledger'.placed[id] > 0)
        BY <2>1, <3>5
      <4>3. run'[p].placed = (status = "placed")
        BY <3>4
      <4> QED BY <4>1, <4>2, <4>3, Zenon
    <3>7. \A i \in Proposals : Open(i)' =>
            /\ i # id => account'.landings[i] = 0 /\ ledger'.placed[i] = 0
      BY <1>1, <1>3, <2>1 DEF Whole, Open
    <3> QED BY <2>1, <3>4, <3>6, <3>7 DEF Whole, MoneySteps
  <2> QED BY <2>4, <2>5
<1> QED BY <1>6, <1>7, <1>8, <1>9, <1>10, <1>11, <1>12, <1>13, <1>14, <1>15 DEF Kind

LEMMA PromiseInvCorrect == Spec => []PromiseInv
<1>1. Init => PromiseInv
  <2>1. Proposals \subseteq Id
    BY BoundsTyped DEF Id
  <2> QED BY <2>1 DEF Init, Idle, EmptyStore, EmptyLedger, PromiseInv, Whole, Open, MoneySteps
<1>2. PlaneInv /\ FateInv /\ PromiseInv /\ [Next]_vars => PromiseInv'
  <2> SUFFICES ASSUME PlaneInv, FateInv, PromiseInv, [Next]_vars, Tidy
               PROVE  \A p \in Proc : Whole(p)'
    BY DEF PromiseInv, Tidy, Alone
  <2>1. TypeInv /\ Distinct /\ KnownNamed
    BY DEF PlaneInv
  <2>2. CASE \E p \in Proc : Kind(p) /\ Frame(p)
    <3>1. PICK p \in Proc : Kind(p)
      BY <2>2
    <3> QED BY <3>1, WholeKept DEF Tidy, Alone
  <2>3. CASE UNCHANGED <<scans, terms, ledger, store, mem, run, account>>
    BY <2>3 DEF PromiseInv, Whole, Open
  <2> QED BY <2>1, <2>2, <2>3, NextKinds DEF vars
<1> QED BY <1>1, <1>2, PlaneInvCorrect, FateInvCorrect, PTL DEF Spec

(***************************************************************************)
(* The promise                                                             *)
(***************************************************************************)

\* A step that leaves the store, the account and the placed rows alone is a stutter.
LEMMA Stutters ==
    ASSUME UNCHANGED <<store, account>>,
           \A i \in Id : ledger'.placed[i] = ledger.placed[i],
           ledger'.staked = ledger.staked
    PROVE  UNCHANGED Abstract!promiseVars
  BY DEF Abstract!promiseVars

\* The owner is told what a proposal has become.
LEMMA Tells ==
    ASSUME store' \in Copies, UNCHANGED <<ledger, account>>,
           \A i \in Proposals : Abstract!MayBecome(i, store[i], store'[i])
    PROVE  Abstract!Tell
<1>1. DOMAIN store' = Proposals
  BY DEF Copies
<1> QED BY <1>1 DEF Abstract!Tell

\* Every kind of step is a step of BetPromise or a stutter.
LEMMA KeepsPromiseStep ==
    ASSUME PlaneInv, FateInv, PromiseInv, TypeInv', Tidy, NEW p \in Proc, Kind(p)
    PROVE  [Abstract!PromiseNext]_(Abstract!promiseVars)
<1>1. TypeInv /\ Distinct /\ UnbornUnknown /\ Landed /\ InHand(p) /\ Whole(p)
  BY DEF PlaneInv, FateInv, PromiseInv, Tidy
<1>2. /\ store \in Copies /\ mem[p] \in Copies /\ run[p] \in Runs /\ store' \in Copies
      /\ account.landings \in [Id -> Nat] /\ ledger.placed \in [Id -> Nat]
      /\ ledger.staked \in [Day -> Nat] /\ Policy.daily_cap \in Nat
  BY <1>1, StateTyped, PlacingKeepsLimits DEF TypeInv, TypeOK, LimitsOK
<1>3. Proposals \subseteq Id /\ Intents \subseteq Id /\ Intents \intersect Proposals = {}
  BY BoundsTyped DEF Id
<1>4. ASSUME ledger' = ledger, account' = account, store' = store
      PROVE  UNCHANGED Abstract!promiseVars
  BY <1>4, Stutters
<1>5. CASE Leaves(p) \/ Loads(p) \/ StartsScan(p) \/ Prepares(p) \/ Works(p)
  BY <1>4, <1>5 DEF Leaves, Loads, StartsScan, Prepares, Works
<1>6. CASE Saves(p)
  <2>1. \A i \in Proposals : Abstract!MayBecome(i, store[i], store'[i])
    BY <1>1, <1>6 DEF Saves, MovesOn, InHand, Remembers, Abstract!MayBecome
  <2> QED BY <1>2, <1>6, <2>1, Tells DEF Saves, Abstract!PromiseNext
<1>7. CASE Adds(p)
  <2> DEFINE k == ProposalOf(run[p].id)
  <2>1. run[p].step = "ask" /\ run[p].cmd = "scan" /\ run[p].step \in Working
    BY <1>7 DEF Adds, At, Working
  <2>2. run[p].id \in Intents
    BY <1>1, <2>1, OwnId
  <2>3. k \in Proposals /\ k - MaxScans = run[p].id
    BY <2>2, BoundsTyped DEF ProposalOf, Intents, Proposals
  <2>4. store[k] = "absent"
    BY <1>1, <2>1, <2>3 DEF UnbornUnknown, Unborn, NobodyKnows
  <2> HIDE DEF k
  <2>5. store' = [mem[p] EXCEPT ![k] = "pending"]
    BY <1>7 DEF Adds, k
  <2>6. \A i \in Proposals : Abstract!MayBecome(i, store[i], store'[i])
    BY <1>1, <1>2, <2>1, <2>4, <2>5 DEF Copies, InHand, Remembers, Abstract!MayBecome
  <2> QED BY <1>2, <1>7, <2>6, Tells DEF Adds, Abstract!PromiseNext
<1>8. CASE Settles(p)
  <2> DEFINE id == run[p].id
             copy == [mem[p] EXCEPT ![id] = IF run[p].placed THEN "placed" ELSE "failed"]
  <2>1. run[p].step = "outcome" /\ run[p].cmd # "scan" /\ run[p].step \in Working
    BY <1>8 DEF Settles, At, Working
  <2>2. store' = copy /\ ledger' = ledger /\ account' = account
    BY <1>8 DEF Settles
  <2>3. id \in Proposals /\ store[id] = "approved"
    BY <1>1, <2>1, HeldIsApproved
  <2>4. /\ \A i \in Proposals \ {id} : copy[i] = mem[p][i]
        /\ copy[id] = IF run[p].placed THEN "placed" ELSE "failed"
    BY <1>2, <2>3 DEF Copies
  <2> HIDE DEF copy
  <2>5. run[p].placed <=> id \in {i \in Id : ledger.placed[i] > 0}
    BY <1>1, <1>3, <2>1, <2>3 DEF Whole
  <2>6. Abstract!MayBecome(id, store[id], store'[id])
    BY <2>2, <2>3, <2>4, <2>5 DEF Abstract!MayBecome
  <2>7. \A i \in Proposals \ {id} : Abstract!MayBecome(i, store[i], store'[i])
    BY <1>1, <2>1, <2>2, <2>4 DEF InHand, Remembers, Abstract!MayBecome
  <2>8. Abstract!Tell
    BY <1>2, <2>2, <2>6, <2>7, Tells
  <2> QED BY <2>8 DEF Abstract!PromiseNext
<1>9. CASE Sent(p)
  <2> DEFINE id == run[p].id
  <2>1. CASE account' = account
    BY <1>4, <1>9, <2>1 DEF Sent
  <2>2. CASE account'.landings = [account.landings EXCEPT ![id] = @ + 1]
    <3>1. run[p].step = "send" /\ run[p].step \in Working /\ ledger' = ledger /\ store' = store
      BY <1>9 DEF Sent, Working, MoneySteps
    <3>2. /\ run[p].cmd = "scan" => id \in Intents
          /\ run[p].cmd # "scan" => id \in Proposals /\ store[id] = "approved"
      BY <1>1, <3>1, OwnId, HeldIsApproved
    <3>3. id \in Id /\ account.landings[id] = 0 /\ (id \in Proposals => store[id] = "approved")
      <4>1. CASE run[p].cmd = "scan"
        BY <1>1, <1>3, <3>1, <3>2, <4>1 DEF Landed
      <4>2. CASE run[p].cmd # "scan"
        BY <1>1, <1>3, <3>1, <3>2, <4>2 DEF Whole, Open
      <4> QED BY <4>1, <4>2
    <3>4. account'.landings = [account.landings EXCEPT ![id] = 1]
      BY <2>2, <3>3
    <3> HIDE DEF id
    <3>5. Abstract!PutOn(id)
      BY <3>1, <3>3, <3>4 DEF Abstract!PutOn
    <3> QED BY <3>3, <3>5 DEF Abstract!PromiseNext
  <2> QED BY <1>9, <2>1, <2>2 DEF Sent
<1>10. ASSUME NEW status \in Status, Writes(p, status)
       PROVE  [Abstract!PromiseNext]_(Abstract!promiseVars)
  <2> DEFINE id == run[p].id
             day == run[p].day
             stake == run[p].stake
  <2>1. /\ id \in Id /\ run[p].step \in Working /\ UNCHANGED <<store, account>>
        /\ \A i \in Id \ {id} : ledger'.placed[i] = ledger.placed[i]
        /\ status # "placed" => /\ ledger'.placed[id] = ledger.placed[id]
                                /\ ledger'.staked = ledger.staked
        /\ status = "placed" =>
              /\ ledger'.placed[id] = ledger.placed[id] + stake
              /\ ledger'.staked = [ledger.staked EXCEPT ![day] = @ + stake]
              /\ stake \in Nat \ {0} /\ day \in Day
    BY <1>1, <1>10, WritesEffect DEF Writes
  <2>2. CASE status # "placed"
    BY <2>1, <2>2, Stutters
  <2>3. CASE status = "placed"
    <3>1. run[p].step = "answered"
      BY <1>10, <2>3 DEF Writes
    <3>2. /\ run[p].cmd = "scan" => id \in Intents
          /\ run[p].cmd # "scan" => id \in Proposals /\ store[id] = "approved"
      BY <1>1, <2>1, OwnId, HeldIsApproved
    <3>3. ledger.placed[id] = 0
      <4>1. CASE run[p].cmd = "scan"
        BY <1>1, <4>1 DEF Landed
      <4>2. CASE run[p].cmd # "scan"
        BY <1>1, <3>1, <3>2, <4>2 DEF Whole, Open
      <4> QED BY <4>1, <4>2
    <3>4. ledger.staked[day] + stake <= Policy.daily_cap
      BY <1>1, <3>1 DEF Whole, MoneySteps
    <3>5. stake \in 1..Policy.daily_cap
      BY <1>2, <2>1, <2>3, <3>4
    <3> HIDE DEF id, day, stake
    <3>6. {i \in Id : ledger'.placed[i] > 0} = {i \in Id : ledger.placed[i] > 0} \union {id}
      BY <2>1, <2>3, <3>3
    <3>7. id \in Id /\ day \in Day
      BY <2>1, <2>3
    <3>8. \E i \in Id, d \in Day, s \in 1..Policy.daily_cap : Abstract!Book(i, d, s)
      BY <2>1, <2>3, <3>3, <3>4, <3>5, <3>6, <3>7 DEF Abstract!Book
    <3> QED BY <3>8 DEF Abstract!PromiseNext
  <2> QED BY <2>2, <2>3
<1> QED BY <1>5, <1>6, <1>7, <1>8, <1>9, <1>10 DEF Kind

\* The refinement: commands that neither overlap nor die put a bet on at most once, put
\* on no proposal the owner has not approved, book within the day's cap, and tell the
\* owner of each proposal what became of it.
THEOREM PromiseKept == Tidy => (Spec => KeepsPromise)
<1> SUFFICES ASSUME Tidy PROVE Spec => KeepsPromise
  OBVIOUS
<1>1. Init => Abstract!PromiseInit
  <2> SUFFICES ASSUME Init PROVE Abstract!PromiseInit
    OBVIOUS
  <2>1. \A i \in Id : ~(ledger.placed[i] > 0)
    BY DEF Init, EmptyLedger
  <2> QED BY <2>1 DEF Init, EmptyStore, EmptyLedger, Abstract!PromiseInit
<1>2. PlaneInv /\ FateInv /\ PromiseInv /\ [Next]_vars
        => [Abstract!PromiseNext]_(Abstract!promiseVars)
  <2> SUFFICES ASSUME PlaneInv, FateInv, PromiseInv, [Next]_vars
               PROVE  [Abstract!PromiseNext]_(Abstract!promiseVars)
    OBVIOUS
  <2>1. TypeInv /\ Distinct /\ KnownNamed
    BY DEF PlaneInv
  <2>2. TypeInv'
    BY PlaneInvKept DEF PlaneInv
  <2>3. CASE \E p \in Proc : Kind(p) /\ Frame(p)
    BY <2>2, <2>3, KeepsPromiseStep
  <2>4. CASE UNCHANGED <<scans, terms, ledger, store, mem, run, account>>
    BY <2>4, Stutters
  <2> QED BY <2>1, <2>3, <2>4, NextKinds DEF vars
<1> QED BY <1>1, <1>2, PlaneInvCorrect, FateInvCorrect, PromiseInvCorrect, PTL
     DEF Spec, KeepsPromise, Abstract!Promise

(***************************************************************************)
(* Sums                                                                    *)
(***************************************************************************)

\* An induction on the lengths of the prefixes: of the lengths at which a fact could fail,
\* look at the least.
LEMMA FirstOfSome ==
    ASSUME NEW S, S \subseteq Nat, S # {}
    PROVE  \E n \in S : \A m \in S : n <= m
<1> DEFINE Precedes == OpToRel(<, Nat)
<1>1. IsWellFoundedOn(Precedes, Nat)
  BY NatLessThanWellFounded, Zenon DEF OpToRel
<1>2. PICK n \in S : \A m \in S : ~(<<m, n>> \in Precedes)
  <2> HIDE DEF Precedes
  <2> QED BY <1>1, WFMin
<1>3. \A m \in S : ~(m < n)
  BY <1>2 DEF OpToRel
<1> QED BY <1>3

LEMMA UpTo ==
    ASSUME NEW L \in Nat, NEW Holds, 0 \in Holds,
           \A n \in 1..L : n - 1 \in Holds => n \in Holds
    PROVE  0..L \subseteq Holds
<1> SUFFICES ASSUME (0..L) \ Holds # {} PROVE FALSE
  OBVIOUS
<1> DEFINE S == (0..L) \ Holds
<1>1. S \subseteq Nat /\ S # {}
  OBVIOUS
<1>2. PICK n \in S : \A m \in S : n <= m
  <2> HIDE DEF S
  <2> QED BY <1>1, FirstOfSome
<1>3. n \in 1..L /\ n - 1 \in 0..L /\ ~(n <= n - 1)
  OBVIOUS
<1>4. n - 1 \in Holds
  BY <1>2, <1>3
<1> QED BY <1>3, <1>4

\* The subtotals are what their recursion says.
LEMMA SubtotalsAre ==
    ASSUME NEW v \in Seq(Int)
    PROVE  /\ Subtotals(v)[0] = 0
           /\ \A n \in 1..Len(v) : Subtotals(v)[n] = Subtotals(v)[n - 1] + v[n]
           /\ \A n \in 0..Len(v) : Subtotals(v)[n] \in Int
<1> DEFINE L == Len(v)
           Next1(g, n) == IF n = 0 THEN 0 ELSE g[n - 1] + v[n]
           Is(g, m) == g = [n \in 0..m |-> Next1(g, n)]
           Holds == {m \in 0..L : \E g : Is(g, m)}
<1>1. L \in Nat
  OBVIOUS
<1>2. 0 \in Holds
  <2> DEFINE h == [n \in 0..0 |-> 0]
  <2>1. h = [n \in 0..0 |-> Next1(h, n)]
    <3>1. \A n \in 0..0 : Next1(h, n) = 0
      OBVIOUS
    <3> QED BY <3>1
  <2>2. Is(h, 0) /\ 0 \in 0..L
    BY <1>1, <2>1
  <2> HIDE DEF Is, h, L
  <2> QED BY <2>2
<1>3. ASSUME NEW n \in 1..L, n - 1 \in Holds PROVE n \in Holds
  <2>1. PICK g : Is(g, n - 1)
    BY <1>3
  <2> DEFINE h == [k \in 0..n |-> IF k = n THEN g[n - 1] + v[n] ELSE g[k]]
  <2>2. ASSUME NEW k \in 0..n PROVE h[k] = Next1(h, k)
    <3>1. CASE k = 0
      <4>1. k \in 0..(n - 1) /\ h[k] = g[k]
        BY <3>1
      <4> QED BY <2>1, <3>1, <4>1
    <3>2. CASE k # 0 /\ k # n
      <4>1. k \in 0..(n - 1) /\ k - 1 \in 0..n /\ k - 1 # n
        BY <3>2
      <4>2. h[k] = g[k] /\ h[k - 1] = g[k - 1]
        BY <3>2, <4>1
      <4>3. g[k] = Next1(g, k)
        BY <2>1, <4>1
      <4> QED BY <3>2, <4>2, <4>3
    <3>3. CASE k = n
      <4>1. n - 1 \in 0..n /\ n - 1 # n /\ n # 0
        BY <3>3
      <4>2. h[n - 1] = g[n - 1] /\ h[n] = g[n - 1] + v[n]
        BY <4>1
      <4> QED BY <3>3, <4>1, <4>2
    <3> QED BY <3>1, <3>2, <3>3
  <2>3. h = [k \in 0..n |-> Next1(h, k)]
    <3> HIDE DEF Next1
    <3>1. [k \in 0..n |-> Next1(h, k)] = [k \in 0..n |-> h[k]]
      BY <2>2
    <3> QED BY <3>1
  <2>4. Is(h, n) /\ n \in 0..L
    BY <1>1, <2>3
  <2> HIDE DEF Is, h, L
  <2> QED BY <2>4
<1>4. L \in Holds
  <2> HIDE DEF Holds, L
  <2>1. 0..L \subseteq Holds
    BY <1>1, <1>2, <1>3, UpTo
  <2>2. L \in 0..L
    BY <1>1
  <2> QED BY <2>1, <2>2
<1>5. Is(Subtotals(v), L)
  BY <1>4, Zenon DEF Subtotals
<1> DEFINE D == Subtotals(v)
<1>6. \A n \in 0..L : D[n] = Next1(D, n)
  BY <1>5
<1> HIDE DEF D
<1>7. D[0] = 0 /\ \A n \in 1..L : D[n] = D[n - 1] + v[n]
  <2> HIDE DEF L
  <2> QED BY <1>1, <1>6
<1>8. 0..L \subseteq {n \in 0..L : D[n] \in Int}
  <2>1. \A n \in 1..L : v[n] \in Int
    OBVIOUS
  <2> HIDE DEF L
  <2> DEFINE Numbers == {n \in 0..L : D[n] \in Int}
  <2>2. ASSUME NEW n \in 1..L, n - 1 \in Numbers PROVE n \in Numbers
    <3>1. D[n - 1] \in Int /\ n \in 0..L /\ v[n] \in Int /\ D[n] = D[n - 1] + v[n]
      BY <1>1, <1>7, <2>1, <2>2
    <3> QED BY <3>1
  <2>3. 0 \in Numbers
    BY <1>1, <1>7
  <2> HIDE DEF Numbers
  <2>4. 0..L \subseteq Numbers
    BY <1>1, <2>2, <2>3, UpTo
  <2> QED BY <2>4 DEF Numbers
<1> QED BY <1>7, <1>8 DEF D

LEMMA TotalTyped == ASSUME NEW v \in Seq(Int) PROVE Total(v) \in Int
  BY SubtotalsAre DEF Total

LEMMA TotalOfNone == Total(<<>>) = 0
<1>1. <<>> \in Seq(Int) /\ Len(<<>>) = 0
  OBVIOUS
<1> QED BY <1>1, SubtotalsAre DEF Total

\* What the difference of two lists adds up to.
LEMMA TotalOfDifference ==
    ASSUME NEW u \in Seq(Int), NEW v \in Seq(Int), NEW w \in Seq(Int),
           Len(v) = Len(u), Len(w) = Len(u), \A n \in 1..Len(u) : u[n] = v[n] - w[n]
    PROVE  Total(u) = Total(v) - Total(w)
<1> DEFINE L == Len(u)
           Holds == {n \in 0..L : Subtotals(u)[n] = Subtotals(v)[n] - Subtotals(w)[n]}
<1>1. L \in Nat /\ \A n \in 1..L : u[n] \in Int /\ v[n] \in Int /\ w[n] \in Int /\ u[n] = v[n] - w[n]
  OBVIOUS
<1>2. ASSUME NEW x \in {u, v, w}
      PROVE  /\ Subtotals(x)[0] = 0
             /\ \A n \in 1..L : Subtotals(x)[n] = Subtotals(x)[n - 1] + x[n]
             /\ \A n \in 0..L : Subtotals(x)[n] \in Int
  <2>1. x \in Seq(Int) /\ Len(x) = L
    OBVIOUS
  <2> QED BY <2>1, SubtotalsAre
<1> HIDE DEF L
<1>3. 0 \in Holds
  <2>1. Subtotals(u)[0] = 0 /\ Subtotals(v)[0] = 0 /\ Subtotals(w)[0] = 0
    BY <1>2
  <2> QED BY <1>1, <2>1
<1>4. ASSUME NEW n \in 1..L, n - 1 \in Holds PROVE n \in Holds
  <2>1. n - 1 \in 0..L /\ n \in 0..L
    BY <1>1
  <2>2. Subtotals(u)[n - 1] = Subtotals(v)[n - 1] - Subtotals(w)[n - 1]
    BY <1>4
  <2>3. \A x \in {u, v, w} : Subtotals(x)[n] = Subtotals(x)[n - 1] + x[n] /\ Subtotals(x)[n - 1] \in Int
    BY <1>2, <2>1
  <2>4. u[n] = v[n] - w[n] /\ v[n] \in Int /\ w[n] \in Int
    BY <1>1
  <2> DEFINE a == Subtotals(v)[n - 1]
             b == Subtotals(w)[n - 1]
             c == v[n]
             d == w[n]
  <2>5. a \in Int /\ b \in Int /\ c \in Int /\ d \in Int
    BY <2>3, <2>4
  <2>6. Subtotals(u)[n] = (a - b) + (c - d) /\ Subtotals(v)[n] = a + c /\ Subtotals(w)[n] = b + d
    <3>1. Subtotals(u)[n] = Subtotals(u)[n - 1] + u[n] /\ Subtotals(v)[n] = a + c /\ Subtotals(w)[n] = b + d
      BY <2>3, Zenon
    <3> QED BY <2>2, <2>4, <3>1, Zenon
  <2> HIDE DEF a, b, c, d
  <2>7. Subtotals(u)[n] = Subtotals(v)[n] - Subtotals(w)[n]
    BY <2>5, <2>6
  <2> QED BY <2>1, <2>7
<1>5. L \in Holds
  <2> HIDE DEF Holds
  <2>1. 0..L \subseteq Holds
    BY <1>1, <1>3, <1>4, UpTo
  <2>2. L \in 0..L
    BY <1>1
  <2> QED BY <2>1, <2>2
<1> QED BY <1>5 DEF Total, L

\* One element more.
LEMMA TotalGrows ==
    ASSUME NEW v \in Seq(Int), NEW x \in Int
    PROVE  Append(v, x) \in Seq(Int) /\ Total(Append(v, x)) = Total(v) + x
<1> DEFINE u == Append(v, x)
           L == Len(v)
           Holds == {n \in 0..L : Subtotals(u)[n] = Subtotals(v)[n]}
<1>1. /\ L \in Nat /\ u \in Seq(Int) /\ Len(u) = L + 1 /\ u[L + 1] = x
      /\ \A n \in 1..L : u[n] = v[n] /\ n \in 1..Len(u)
  OBVIOUS
<1>2. /\ Subtotals(v)[0] = 0 /\ Subtotals(u)[0] = 0
      /\ \A n \in 1..L : Subtotals(v)[n] = Subtotals(v)[n - 1] + v[n]
      /\ \A n \in 1..(L + 1) : Subtotals(u)[n] = Subtotals(u)[n - 1] + u[n]
  BY <1>1, SubtotalsAre
<1> HIDE DEF L, u
<1>3. 0 \in Holds
  BY <1>1, <1>2
<1>4. ASSUME NEW n \in 1..L, n - 1 \in Holds PROVE n \in Holds
  <2>1. n - 1 \in 0..L /\ n \in 0..L /\ n \in 1..(L + 1)
    BY <1>1
  <2> QED BY <1>1, <1>2, <1>4, <2>1
<1>5. L \in Holds
  <2> HIDE DEF Holds
  <2>1. 0..L \subseteq Holds
    BY <1>1, <1>3, <1>4, UpTo
  <2>2. L \in 0..L
    BY <1>1
  <2> QED BY <2>1, <2>2
<1>6. L + 1 \in 1..(L + 1) /\ (L + 1) - 1 = L
  BY <1>1
<1>7. Subtotals(u)[L + 1] = Subtotals(v)[L] + x
  BY <1>1, <1>2, <1>5, <1>6
<1> QED BY <1>1, <1>7 DEF Total, u, L

(***************************************************************************)
(* The ledger file                                                         *)
(***************************************************************************)

\* The stakes of some lines of a file.
Stakes(ls, some) == [n \in DOMAIN ls |-> IF n \in some THEN ls[n].row.stake ELSE 0]

LEMMA LineTyped ==
    ASSUME NEW line \in Lines
    PROVE  /\ line.row \in Rows /\ line.parses \in BOOLEAN
           /\ line.row.id \in Id /\ line.row.day \in Day /\ line.row.status \in Status
           /\ line.row.stake \in Nat
BY RowAssumption DEF Lines, Row

LEMMA StakesTyped ==
    ASSUME NEW ls \in Seq(Lines), NEW some
    PROVE  Stakes(ls, some) \in Seq(Int) /\ Len(Stakes(ls, some)) = Len(ls)
<1>1. \A n \in 1..Len(ls) : ls[n] \in Lines
  OBVIOUS
<1>2. \A n \in 1..Len(ls) : (IF n \in some THEN ls[n].row.stake ELSE 0) \in Int
  BY <1>1, LineTyped
<1>3. Stakes(ls, some) = [n \in 1..Len(ls) |-> IF n \in some THEN ls[n].row.stake ELSE 0]
  BY DEF Stakes
<1> QED BY <1>2, <1>3

\* A line that is not among them adds nothing, one that is adds its stake.
LEMMA StakesGrow ==
    ASSUME NEW ls \in Seq(Lines), NEW line \in Lines, NEW some, some \subseteq 1..Len(ls)
    PROVE  /\ Total(Stakes(Append(ls, line), some)) = Total(Stakes(ls, some))
           /\ Total(Stakes(Append(ls, line), some \union {Len(ls) + 1}))
                = Total(Stakes(ls, some)) + line.row.stake
<1> DEFINE more == Append(ls, line)
           L == Len(ls)
           old == Stakes(ls, some)
<1>1. L \in Nat /\ Len(more) = L + 1 /\ DOMAIN more = 1..(L + 1) /\ more[L + 1] = line
  OBVIOUS
<1>2. \A n \in 1..L : more[n] = ls[n] /\ n # L + 1
  OBVIOUS
<1>3. old \in Seq(Int) /\ Len(old) = L /\ Total(old) \in Int
  BY StakesTyped, TotalTyped
<1>4. line.row.stake \in Int
  BY LineTyped
<1>5. \A n \in 1..L : old[n] = IF n \in some THEN ls[n].row.stake ELSE 0
  BY DEF Stakes
<1>6. L + 1 \notin some
  BY <1>1
<1> HIDE DEF more, L, old
<1>7. ASSUME NEW x \in Int
      PROVE  Append(old, x) = [n \in 1..(L + 1) |-> IF n = L + 1 THEN x ELSE old[n]]
  <2> DEFINE a == Append(old, x)
  <2>1. /\ a \in Seq(Int) /\ Len(a) = L + 1
        /\ \A n \in 1..(L + 1) : a[n] = IF n = L + 1 THEN x ELSE old[n]
    BY <1>1, <1>3
  <2> HIDE DEF a
  <2>2. a = [n \in 1..(L + 1) |-> a[n]]
    BY <2>1
  <2>3. a = [n \in 1..(L + 1) |-> IF n = L + 1 THEN x ELSE old[n]]
    BY <2>1, <2>2, Zenon
  <2> QED BY <2>3 DEF a
<1>8. Stakes(more, some) = Append(old, 0)
  <2>1. Stakes(more, some) = [n \in 1..(L + 1) |-> IF n \in some THEN more[n].row.stake ELSE 0]
    BY <1>1 DEF Stakes
  <2>2. \A n \in 1..(L + 1) : (IF n \in some THEN more[n].row.stake ELSE 0) = (IF n = L + 1 THEN 0 ELSE old[n])
    BY <1>1, <1>2, <1>5, <1>6
  <2> QED BY <1>7, <2>1, <2>2
<1>9. Stakes(more, some \union {L + 1}) = Append(old, line.row.stake)
  <2>1. Stakes(more, some \union {L + 1})
          = [n \in 1..(L + 1) |-> IF n \in some \union {L + 1} THEN more[n].row.stake ELSE 0]
    BY <1>1 DEF Stakes
  <2>2. \A n \in 1..(L + 1) : (IF n \in some \union {L + 1} THEN more[n].row.stake ELSE 0)
                                = (IF n = L + 1 THEN line.row.stake ELSE old[n])
    BY <1>1, <1>2, <1>5, <1>6
  <2>3. Append(old, line.row.stake) = [n \in 1..(L + 1) |-> IF n = L + 1 THEN line.row.stake ELSE old[n]]
    BY <1>4, <1>7
  <2> QED BY <2>1, <2>2, <2>3, Zenon
<1>10. 0 \in Int /\ Total(old) + 0 = Total(old)
  BY <1>3
<1> QED BY <1>3, <1>4, <1>8, <1>9, <1>10, TotalGrows DEF more, L, old

LEMMA StakesDrop ==
    ASSUME NEW ls \in Seq(Lines), NEW some, NEW gone, gone \subseteq some
    PROVE  Total(Stakes(ls, some \ gone)) = Total(Stakes(ls, some)) - Total(Stakes(ls, gone))
<1> DEFINE u == Stakes(ls, some \ gone)
           v == Stakes(ls, some)
           w == Stakes(ls, gone)
<1>1. u \in Seq(Int) /\ v \in Seq(Int) /\ w \in Seq(Int) /\ Len(u) = Len(ls) /\ Len(v) = Len(ls) /\ Len(w) = Len(ls)
  BY StakesTyped
<1>2. ASSUME NEW n \in 1..Len(ls) PROVE u[n] = v[n] - w[n]
  <2>1. ls[n] \in Lines
    OBVIOUS
  <2>2. ls[n].row.stake \in Int
    BY <2>1, LineTyped
  <2>3. /\ u[n] = IF n \in some \ gone THEN ls[n].row.stake ELSE 0
        /\ v[n] = IF n \in some THEN ls[n].row.stake ELSE 0
        /\ w[n] = IF n \in gone THEN ls[n].row.stake ELSE 0
    BY DEF Stakes
  <2> HIDE DEF u, v, w
  <2> QED BY <2>2, <2>3
<1> HIDE DEF u, v, w
<1>3. Total(u) = Total(v) - Total(w)
  BY <1>1, <1>2, TotalOfDifference
<1> QED BY <1>3 DEF u, v, w

\* The line read last among some.
LEMMA LastOfSome ==
    ASSUME NEW L \in Nat, NEW S, S \subseteq 1..L, S # {}
    PROVE  Max(S) \in S /\ \A y \in S : Max(S) >= y
<1> DEFINE T == {L - n : n \in S}
<1>1. T \subseteq Nat /\ T # {}
  <2>1. \A n \in S : L - n \in Nat
    OBVIOUS
  <2>2. PICK n \in S : TRUE
    OBVIOUS
  <2>3. L - n \in T
    OBVIOUS
  <2> QED BY <2>1, <2>3
<1>2. PICK t \in T : \A m \in T : t <= m
  <2> HIDE DEF T
  <2> QED BY <1>1, FirstOfSome
<1>3. PICK x \in S : t = L - x
  BY <1>2
<1>4. \A y \in S : x >= y
  <2> SUFFICES ASSUME NEW y \in S PROVE x >= y
    OBVIOUS
  <2>1. L - y \in T /\ x \in Int /\ y \in Int
    OBVIOUS
  <2> HIDE DEF T
  <2> QED BY <1>2, <1>3, <2>1
<1> QED BY <1>4 DEF Max

\* What the next append may cost beside the lines torn so far: behind an unfinished line that
\* parses, that line and its own.
Owed == IF newline THEN 0 ELSE IF lines[Len(lines)].parses THEN 2 ELSE 1

PlacedFor(i) == {n \in PlacedLines : lines[n].row.id = i}

\* While nothing is torn every line is read, and the ledger value is the readers' sums, those
\* it keeps for itself included: the stakes of each intent and the intents rejected.
Intact ==
    /\ newline
    /\ Readable = DOMAIN lines
    /\ Closed = tally.rejected
    /\ \A i \in Id : Total(StakesOf(PlacedFor(i))) = tally.placed[i]
    /\ \A d \in Day : StakedOn(d) = tally.staked[d] /\ BetsOn(d) = tally.bets[d]
    /\ ExposureRead = tally.open
    /\ \A i \in Id : LatestOf(i) = tally.latest[i]

FileInv ==
    /\ FileTypeOK
    /\ lines = <<>> => newline
    /\ appended + Owed <= Cardinality(Readable) + tears
    /\ tears = 0 => Intact

\* What a write leaves of the file: a line more, or the unfinished one spoilt.
LEMMA WhatIsWritten ==
    ASSUME lines \in Seq(Lines), lines = <<>> => newline, newline \in BOOLEAN,
           NEW row \in Rows, NEW parses \in BOOLEAN
    PROVE  LET W == Written(row, parses)
               L == Len(lines)
           IN  /\ W \in Seq(Lines) /\ W # <<>>
               /\ newline => /\ Len(W) = L + 1
                             /\ W[L + 1] = [row |-> row, parses |-> parses]
                             /\ \A n \in 1..L : W[n] = lines[n]
               /\ ~newline => /\ L >= 1 /\ Len(W) = L
                              /\ W[L].parses = FALSE
                              /\ \A n \in 1..L : n # L => W[n] = lines[n]
<1> DEFINE W == Written(row, parses)
           L == Len(lines)
<1>1. L \in Nat /\ \A n \in 1..L : lines[n] \in Lines
  OBVIOUS
<1>2. CASE newline
  <2> DEFINE line == [row |-> row, parses |-> parses]
  <2>1. line \in Lines
    BY DEF Lines
  <2>2. W = Append(lines, line)
    BY <1>2 DEF Written
  <2> HIDE DEF line, W
  <2>3. W \in Seq(Lines) /\ Len(W) = L + 1 /\ W[L + 1] = line /\ \A n \in 1..L : W[n] = lines[n]
    BY <2>1, <2>2
  <2>4. W # <<>>
    BY <1>1, <2>3
  <2> QED BY <1>2, <2>3, <2>4 DEF line, W
<1>3. CASE ~newline
  <2>1. L >= 1
    BY <1>1, <1>3
  <2> DEFINE spoilt == [lines[L] EXCEPT !.parses = FALSE]
  <2>2. W = [lines EXCEPT ![L] = spoilt]
    BY <1>3 DEF Written
  <2>3. spoilt \in Lines /\ spoilt.parses = FALSE
    <3>1. lines[L] \in Lines
      BY <1>1, <2>1
    <3> QED BY <3>1 DEF Lines
  <2> HIDE DEF spoilt, W
  <2>4. W \in Seq(Lines) /\ Len(W) = L /\ W[L] = spoilt /\ \A n \in 1..L : n # L => W[n] = lines[n]
    <3>0. lines = [n \in 1..L |-> lines[n]]
      OBVIOUS
    <3>1. W = [n \in 1..L |-> IF n = L THEN spoilt ELSE lines[n]]
      BY <2>2, <3>0
    <3> HIDE DEF L
    <3>2. \A n \in 1..L : (IF n = L THEN spoilt ELSE lines[n]) \in Lines
      BY <1>1, <2>3
    <3>3. W \in Seq(Lines) /\ Len(W) = L
      BY <1>1, <3>1, <3>2
    <3> QED BY <1>1, <2>1, <3>1, <3>3
  <2>5. W # <<>>
    BY <2>1, <2>4
  <2> QED BY <1>3, <2>1, <2>3, <2>4, <2>5 DEF W
<1> QED BY <1>2, <1>3

LEMMA FileTypesKept ==
    ASSUME FileTypeOK, lines = <<>> => newline, [FileNext]_fileVars
    PROVE  FileTypeOK' /\ (lines' = <<>> => newline')
<1> USE DEF FileTypeOK
<1>1. ASSUME NEW row \in Rows, NEW parses \in BOOLEAN
      PROVE  /\ Written(row, parses) \in Seq(Lines) /\ Written(row, parses) # <<>>
             /\ Len(lines) < MaxLines => Len(Written(row, parses)) <= MaxLines
  <2> DEFINE W == Written(row, parses)
  <2>1. W \in Seq(Lines) /\ W # <<>> /\ (Len(W) = Len(lines) + 1 \/ Len(W) = Len(lines))
    BY WhatIsWritten
  <2> HIDE DEF W
  <2>2. Len(lines) < MaxLines => Len(W) <= MaxLines
    BY <2>1, RowAssumption
  <2> QED BY <2>1, <2>2 DEF W
<1>2. CASE \E row \in Rows : Record(row)
  <2> PICK row \in Rows : Record(row)
    BY <1>2
  <2>1. row \in Row
    BY RowAssumption
  <2>2. tally' \in Ledgers
    BY <2>1, AppendRowTyped DEF Record
  <2>3. lines' \in Seq(Lines) /\ Len(lines') <= MaxLines /\ lines' # <<>>
    BY <1>1 DEF Record
  <2>4. newline' = TRUE /\ appended' \in Nat /\ tears' \in 0..MaxTears
    BY DEF Record
  <2> QED BY <2>2, <2>3, <2>4
<1>3. CASE \E row \in Rows, parses \in BOOLEAN : Tear(row, parses)
  <2> PICK row \in Rows, parses \in BOOLEAN : Tear(row, parses)
    BY <1>3
  <2>1. tears' \in 0..MaxTears
    BY RowAssumption DEF Tear
  <2> QED BY <1>1, <2>1 DEF Tear
<1>4. CASE UNCHANGED fileVars
  BY <1>4 DEF fileVars
<1> QED BY <1>2, <1>3, <1>4 DEF FileNext

\* A torn line costs no more than one append that completed.
LEMMA TornLinesPaidFor ==
    ASSUME FileTypeOK, lines = <<>> => newline, appended + Owed <= Cardinality(Readable) + tears,
           [FileNext]_fileVars
    PROVE  (appended + Owed <= Cardinality(Readable) + tears)'
<1> DEFINE L == Len(lines)
           R == Readable
<1>1. L \in Nat /\ appended \in Nat /\ tears \in Nat /\ R \subseteq 1..L
  BY RowAssumption DEF FileTypeOK, Readable
<1>2. IsFiniteSet(R) /\ Cardinality(R) \in Nat
  <2>1. IsFiniteSet(1..L)
    BY <1>1, FS_Interval
  <2> HIDE DEF R, L
  <2> QED BY <1>1, <2>1, FS_Subset, FS_CardinalityType
<1>3. ASSUME NEW row \in Rows, NEW parses \in BOOLEAN, lines' = Written(row, parses)
      PROVE  /\ newline => Readable' = IF parses THEN R \union {L + 1} ELSE R
             /\ ~newline => Readable' = R \ {L}
             /\ lines'[Len(lines')].parses = (newline /\ parses)
  <2>1. /\ lines' \in Seq(Lines)
        /\ newline => /\ Len(lines') = L + 1
                      /\ lines'[L + 1] = [row |-> row, parses |-> parses]
                      /\ \A n \in 1..L : lines'[n] = lines[n]
        /\ ~newline => /\ L >= 1 /\ Len(lines') = L
                       /\ lines'[L].parses = FALSE
                       /\ \A n \in 1..L : n # L => lines'[n] = lines[n]
    BY <1>3, WhatIsWritten DEF FileTypeOK
  <2>2. Readable' = {n \in 1..Len(lines') : lines'[n].parses} /\ R = {n \in 1..L : lines[n].parses}
    BY <2>1 DEF Readable, FileTypeOK
  <2> HIDE DEF R, L
  <2>3. CASE newline
    BY <1>1, <2>1, <2>2, <2>3
  <2>4. CASE ~newline
    BY <1>1, <2>1, <2>2, <2>4
  <2> QED BY <2>3, <2>4
<1>4. L + 1 \notin R
  BY <1>1
<1>5. ~newline => L \in 1..L /\ lines[L] \in Lines /\ lines[L].parses \in BOOLEAN
  <2> SUFFICES ASSUME ~newline PROVE L \in 1..L /\ lines[L] \in Lines
    BY DEF Lines
  <2> QED BY <1>1 DEF FileTypeOK
<1>6. /\ Cardinality(R \union {L + 1}) = Cardinality(R) + 1
      /\ ~newline => Cardinality(R \ {L}) = IF lines[L].parses THEN Cardinality(R) - 1 ELSE Cardinality(R)
  <2>1. ~newline => (L \in R <=> lines[L].parses)
    BY <1>5 DEF Readable, FileTypeOK
  <2> HIDE DEF R, L
  <2> QED BY <1>2, <1>4, <2>1, FS_AddElement, FS_RemoveElement
<1>7. Owed = IF newline THEN 0 ELSE IF lines[L].parses THEN 2 ELSE 1
  BY DEF Owed
<1>8. newline \in BOOLEAN
  BY DEF FileTypeOK
<1>9. CASE \E row \in Rows : Record(row)
  <2> PICK row \in Rows : Record(row)
    BY <1>9
  <2>1. lines' = Written(row, TRUE) /\ newline' = TRUE /\ appended' = appended + 1 /\ tears' = tears
    BY DEF Record
  <2>2. Owed' = 0
    BY <2>1 DEF Owed
  <2>3. /\ newline => Readable' = R \union {L + 1}
        /\ ~newline => Readable' = R \ {L}
    BY <1>3, <2>1
  <2> HIDE DEF R, L
  <2>4. appended' + Owed' <= Cardinality(Readable') + tears'
    <3>1. appended + Owed <= Cardinality(R) + tears
      BY DEF R
    <3>2. CASE newline
      <4>1. Owed = 0 /\ Cardinality(Readable') = Cardinality(R) + 1
        BY <1>6, <1>7, <2>3, <3>2
      <4> QED BY <1>1, <1>2, <2>1, <2>2, <3>1, <4>1
    <3>3. CASE ~newline /\ lines[L].parses
      <4>1. Owed = 2 /\ Cardinality(Readable') = Cardinality(R) - 1
        BY <1>6, <1>7, <2>3, <3>3
      <4> QED BY <1>1, <1>2, <2>1, <2>2, <3>1, <4>1
    <3>4. CASE ~newline /\ ~lines[L].parses
      <4>1. Owed = 1 /\ Cardinality(Readable') = Cardinality(R)
        BY <1>6, <1>7, <2>3, <3>4
      <4> QED BY <1>1, <1>2, <2>1, <2>2, <3>1, <4>1
    <3> QED BY <1>8, <3>2, <3>3, <3>4
  <2> QED BY <2>4
<1>10. CASE \E row \in Rows, parses \in BOOLEAN : Tear(row, parses)
  <2> PICK row \in Rows, parses \in BOOLEAN : Tear(row, parses)
    BY <1>10
  <2>1. lines' = Written(row, parses) /\ newline' = FALSE /\ appended' = appended /\ tears' = tears + 1
    BY DEF Tear
  <2>2. Owed' = IF newline /\ parses THEN 2 ELSE 1
    BY <1>3, <2>1 DEF Owed
  <2>3. /\ newline => Readable' = IF parses THEN R \union {L + 1} ELSE R
        /\ ~newline => Readable' = R \ {L}
    BY <1>3, <2>1
  <2> HIDE DEF R, L
  <2>4. appended' + Owed' <= Cardinality(Readable') + tears'
    <3>1. appended + Owed <= Cardinality(R) + tears
      BY DEF R
    <3>2. CASE newline /\ parses
      <4>1. Owed = 0 /\ Owed' = 2 /\ Cardinality(Readable') = Cardinality(R) + 1
        BY <1>6, <1>7, <2>2, <2>3, <3>2
      <4> QED BY <1>1, <1>2, <2>1, <3>1, <4>1
    <3>3. CASE newline /\ ~parses
      <4>1. Owed = 0 /\ Owed' = 1 /\ Cardinality(Readable') = Cardinality(R)
        BY <1>7, <2>2, <2>3, <3>3
      <4> QED BY <1>1, <1>2, <2>1, <3>1, <4>1
    <3>4. CASE ~newline /\ lines[L].parses
      <4>1. Owed = 2 /\ Owed' = 1 /\ Cardinality(Readable') = Cardinality(R) - 1
        BY <1>6, <1>7, <2>2, <2>3, <3>4
      <4> QED BY <1>1, <1>2, <2>1, <3>1, <4>1
    <3>5. CASE ~newline /\ ~lines[L].parses
      <4>1. Owed = 1 /\ Owed' = 1 /\ Cardinality(Readable') = Cardinality(R)
        BY <1>6, <1>7, <2>2, <2>3, <3>5
      <4> QED BY <1>1, <1>2, <2>1, <3>1, <4>1
    <3> QED BY <1>8, <3>2, <3>3, <3>4, <3>5
  <2> QED BY <2>4
<1>11. CASE UNCHANGED fileVars
  BY <1>11 DEF fileVars, Owed, Readable
<1> QED BY <1>9, <1>10, <1>11 DEF FileNext

\* A row appended whole moves the readers' sums and the ledger value alike.
LEMMA RowAddedToBoth ==
    ASSUME FileInv, tears = 0, NEW row \in Rows, Record(row)
    PROVE  Intact'
<1> DEFINE L == Len(lines)
           n0 == L + 1
           placing == row.status = "placed"
           rejecting == row.status = "rejected"
<1>1. lines \in Seq(Lines) /\ tally \in Ledgers /\ L \in Nat /\ DOMAIN lines = 1..L /\ Intact
  BY DEF FileInv, FileTypeOK
<1>2. /\ row.id \in Id /\ row.day \in Day /\ row.status \in Status /\ row.stake \in Nat
      /\ ~(placing /\ rejecting)
  BY RowAssumption DEF Row
<1>3. newline' = TRUE /\ tally' = AppendRow(tally, row) /\ lines' = Append(lines, [row |-> row, parses |-> TRUE])
  BY <1>1 DEF Record, Written, Intact
<1> DEFINE line == [row |-> row, parses |-> TRUE]
<1>4. line \in Lines
  BY DEF Lines
<1>5. /\ DOMAIN lines' = 1..n0 /\ lines'[n0] = line
      /\ \A n \in 1..L : lines'[n] = lines[n] /\ lines'[n].row = lines[n].row
  <2>1. lines' = Append(lines, line)
    BY <1>3
  <2> HIDE DEF line
  <2> QED BY <1>1, <1>4, <2>1
<1>6. /\ tally'.staked = [tally.staked EXCEPT ![row.day] = @ + Spending(row)]
      /\ tally'.bets = [tally.bets EXCEPT ![row.day] = IF placing THEN @ + 1 ELSE @]
      /\ tally'.open = tally.open + Opened(tally, row)
      /\ tally'.placed = [tally.placed EXCEPT ![row.id] = @ + Spending(row)]
      /\ tally'.rejected = IF rejecting THEN tally.rejected \union {row.id} ELSE tally.rejected
      /\ tally'.latest = [tally.latest EXCEPT ![row.id] = row.status]
  BY <1>3 DEF AppendRow
<1>7. /\ tally.staked \in [Day -> Nat] /\ tally.bets \in [Day -> Nat] /\ tally.open \in Int
      /\ tally.placed \in [Id -> Nat] /\ tally.latest \in [Id -> Status \union {"none"}]
  BY <1>1 DEF Ledgers
<1>8. ASSUME NEW some, some \subseteq 1..L
      PROVE  /\ Total(Stakes(lines', some)) = Total(Stakes(lines, some))
             /\ Total(Stakes(lines', some \union {n0})) = Total(Stakes(lines, some)) + row.stake
             /\ Total(Stakes(lines, some)) \in Int
  <2>1. lines' = Append(lines, line) /\ line.row = row
    BY <1>3
  <2> HIDE DEF line
  <2>2. Total(Stakes(lines, some)) \in Int
    BY <1>1, StakesTyped, TotalTyped
  <2> QED BY <1>1, <1>4, <1>8, <2>1, <2>2, StakesGrow
<1>9. /\ Readable = 1..L /\ Readable' = 1..n0
      /\ n0 \notin 1..L /\ 1..n0 = (1..L) \union {n0}
  <2>1. Readable = 1..L
    BY <1>1 DEF Intact
  <2>2. Readable' = {n \in 1..n0 : lines'[n].parses}
    BY <1>5 DEF Readable
  <2>3. \A n \in 1..L : lines[n].parses
    BY <2>1 DEF Readable
  <2>4. 1..n0 = (1..L) \union {n0} /\ n0 \notin 1..L
    BY <1>1
  <2>5. lines'[n0].parses
    BY <1>5
  <2> HIDE DEF n0, L
  <2> QED BY <1>5, <2>1, <2>2, <2>3, <2>4, <2>5
<1> HIDE DEF line, L, n0
<1>10. /\ PlacedLines \subseteq 1..L
       /\ PlacedLines = {n \in 1..L : lines[n].row.status = "placed"}
       /\ PlacedLines' = IF placing THEN PlacedLines \union {n0} ELSE PlacedLines
  <2>1. PlacedLines = {n \in 1..L : lines[n].row.status = "placed"}
    BY <1>9 DEF PlacedLines
  <2>2. PlacedLines' = {n \in (1..L) \union {n0} : lines'[n].row.status = "placed"}
    BY <1>9 DEF PlacedLines
  <2>3. lines'[n0].row = row
    BY <1>5 DEF line
  <2>4. \A n \in 1..L : lines'[n].row = lines[n].row
    BY <1>5
  <2> QED BY <2>1, <2>2, <2>3, <2>4
<1>11. lines'[n0].row = row /\ \A n \in 1..L : lines'[n].row = lines[n].row
  BY <1>5 DEF line
<1>12. \A i : PlacedFor(i)' = IF placing /\ row.id = i THEN PlacedFor(i) \union {n0} ELSE PlacedFor(i)
  BY <1>9, <1>10, <1>11 DEF PlacedFor
<1>13. \A d : PlacedOnDay(d)' = IF placing /\ row.day = d THEN PlacedOnDay(d) \union {n0} ELSE PlacedOnDay(d)
  BY <1>9, <1>10, <1>11 DEF PlacedOnDay
<1>14. Closed' = IF rejecting THEN Closed \union {row.id} ELSE Closed
  <2>1. Closed = {lines[n].row.id : n \in {m \in 1..L : lines[m].row.status = "rejected"}}
    BY <1>9 DEF Closed
  <2>2. Closed' = {lines'[n].row.id : n \in {m \in (1..L) \union {n0} : lines'[m].row.status = "rejected"}}
    BY <1>9 DEF Closed
  <2> QED BY <1>11, <2>1, <2>2
<1>15. \A some : StakesOf(some) = Stakes(lines, some)
  BY DEF StakesOf, Stakes
<1>16. \A some : StakesOf(some)' = Stakes(lines', some)
  BY DEF StakesOf, Stakes
<1>17. Spending(row) = IF placing THEN row.stake ELSE 0
  BY DEF Spending
<1>18. \A i \in Id : Total(StakesOf(PlacedFor(i)))' = tally'.placed[i]
  <2> SUFFICES ASSUME NEW i \in Id PROVE Total(StakesOf(PlacedFor(i)))' = tally'.placed[i]
    OBVIOUS
  <2>1. Total(Stakes(lines, PlacedFor(i))) = tally.placed[i] /\ PlacedFor(i) \subseteq 1..L
    BY <1>1, <1>10, <1>15 DEF Intact, PlacedFor
  <2>2. Total(StakesOf(PlacedFor(i)))' = Total(Stakes(lines', PlacedFor(i)'))
    BY DEF StakesOf, Stakes
  <2>3. tally'.placed[i] = IF placing /\ row.id = i THEN tally.placed[i] + row.stake ELSE tally.placed[i]
    BY <1>2, <1>6, <1>7, <1>17
  <2>4. CASE placing /\ row.id = i
    BY <1>8, <1>12, <2>1, <2>2, <2>3, <2>4
  <2>5. CASE ~(placing /\ row.id = i)
    BY <1>8, <1>12, <2>1, <2>2, <2>3, <2>5
  <2> QED BY <2>4, <2>5
<1>19. ASSUME NEW d \in Day PROVE StakedOn(d)' = tally'.staked[d] /\ BetsOn(d)' = tally'.bets[d]
  <2>1. StakedOn(d) = tally.staked[d] /\ BetsOn(d) = tally.bets[d] /\ PlacedOnDay(d) \subseteq 1..L
    BY <1>1, <1>10 DEF Intact, PlacedOnDay
  <2>2. /\ StakedOn(d) = Total(Stakes(lines, PlacedOnDay(d)))
        /\ StakedOn(d)' = Total(Stakes(lines', PlacedOnDay(d)'))
    BY DEF StakedOn, StakesOf, Stakes
  <2>3. BetsOn(d) = Cardinality(PlacedOnDay(d)) /\ BetsOn(d)' = Cardinality(PlacedOnDay(d)')
    BY DEF BetsOn
  <2>4. IsFiniteSet(PlacedOnDay(d)) /\ n0 \notin PlacedOnDay(d)
    <3>1. IsFiniteSet(1..L)
      BY <1>1, FS_Interval DEF L
    <3> QED BY <1>9, <2>1, <3>1, FS_Subset
  <2>5. Cardinality(PlacedOnDay(d) \union {n0}) = Cardinality(PlacedOnDay(d)) + 1
    BY <2>4, FS_AddElement
  <2>6. /\ tally'.staked[d] = IF placing /\ row.day = d THEN tally.staked[d] + row.stake ELSE tally.staked[d]
        /\ tally'.bets[d] = IF placing /\ row.day = d THEN tally.bets[d] + 1 ELSE tally.bets[d]
    BY <1>2, <1>6, <1>7, <1>17
  <2>7. CASE placing /\ row.day = d
    BY <1>8, <1>13, <2>1, <2>2, <2>3, <2>5, <2>6, <2>7
  <2>8. CASE ~(placing /\ row.day = d)
    BY <1>8, <1>13, <2>1, <2>2, <2>3, <2>6, <2>8
  <2> QED BY <2>7, <2>8
<1>20. ExposureRead' = tally'.open
  <2>1. /\ ExposureRead = Total(Stakes(lines, AtRisk))
        /\ ExposureRead' = Total(Stakes(lines', AtRisk'))
    BY DEF ExposureRead, StakesOf, Stakes
  <2>2. /\ AtRisk = {n \in PlacedLines : lines[n].row.id \notin Closed} /\ AtRisk \subseteq 1..L
        /\ AtRisk' = {n \in PlacedLines' : lines'[n].row.id \notin Closed'}
    BY <1>10 DEF AtRisk
  <2>3. ExposureRead = tally.open /\ Closed = tally.rejected
    BY <1>1 DEF Intact
  <2>4. Opened(tally, row) = IF row.id \in Closed THEN 0
                             ELSE IF rejecting THEN -tally.placed[row.id]
                             ELSE IF placing THEN row.stake ELSE 0
    BY <2>3, <1>17 DEF Opened
  <2>5. CASE row.id \in Closed
    <3>1. AtRisk' = AtRisk
      BY <1>9, <1>10, <1>11, <1>14, <2>2, <2>5
    <3>2. tally'.open = tally.open
      BY <1>6, <1>7, <2>4, <2>5
    <3>3. Total(Stakes(lines', AtRisk')) = Total(Stakes(lines, AtRisk))
      BY <1>8, <2>2, <3>1
    <3> QED BY <2>1, <2>3, <3>2, <3>3
  <2>6. CASE row.id \notin Closed /\ rejecting
    <3>1. AtRisk' = AtRisk \ PlacedFor(row.id) /\ PlacedFor(row.id) \subseteq AtRisk
      BY <1>2, <1>9, <1>10, <1>11, <1>14, <2>2, <2>6 DEF PlacedFor
    <3>2. Total(Stakes(lines, AtRisk \ PlacedFor(row.id)))
            = Total(Stakes(lines, AtRisk)) - Total(Stakes(lines, PlacedFor(row.id)))
      BY <1>1, <3>1, StakesDrop
    <3>3. Total(Stakes(lines, PlacedFor(row.id))) = tally.placed[row.id]
      BY <1>1, <1>2, <1>15 DEF Intact
    <3>4. AtRisk \ PlacedFor(row.id) \subseteq 1..L
      BY <2>2
    <3>5. Total(Stakes(lines', AtRisk')) = Total(Stakes(lines, AtRisk \ PlacedFor(row.id)))
      BY <1>8, <3>1, <3>4
    <3>6. tally.placed[row.id] \in Int
      BY <1>2, <1>7
    <3>7. tally'.open = tally.open + (-tally.placed[row.id])
      BY <1>6, <2>4, <2>6
    <3> QED BY <1>7, <2>1, <2>3, <3>2, <3>3, <3>5, <3>6, <3>7
  <2>7. CASE row.id \notin Closed /\ placing
    <3>1. AtRisk' = AtRisk \union {n0}
      BY <1>2, <1>9, <1>10, <1>11, <1>14, <2>2, <2>7
    <3>2. tally'.open = tally.open + row.stake
      BY <1>2, <1>6, <2>4, <2>7
    <3>3. Total(Stakes(lines', AtRisk')) = Total(Stakes(lines, AtRisk)) + row.stake
      BY <1>8, <2>2, <3>1
    <3> QED BY <2>1, <2>3, <3>2, <3>3
  <2>8. CASE row.id \notin Closed /\ ~placing /\ ~rejecting
    <3>1. AtRisk' = AtRisk
      BY <1>9, <1>10, <1>11, <1>14, <2>2, <2>8
    <3>2. tally'.open = tally.open
      BY <1>6, <1>7, <2>4, <2>8
    <3>3. Total(Stakes(lines', AtRisk')) = Total(Stakes(lines, AtRisk))
      BY <1>8, <2>2, <3>1
    <3> QED BY <2>1, <2>3, <3>2, <3>3
  <2> QED BY <2>5, <2>6, <2>7, <2>8
<1>21. ASSUME NEW i \in Id PROVE LatestOf(i)' = tally'.latest[i]
  <2> DEFINE of == {n \in 1..L : lines[n].row.id = i}
             now == {n \in 1..n0 : lines'[n].row.id = i}
  <2>1. /\ LatestOf(i) = IF of = {} THEN "none" ELSE lines[Max(of)].row.status
        /\ LatestOf(i)' = IF now = {} THEN "none" ELSE lines'[Max(now)].row.status
    BY <1>9 DEF LatestOf
  <2>2. LatestOf(i) = tally.latest[i]
    BY <1>1 DEF Intact
  <2>3. L \in Nat /\ n0 = L + 1 /\ of \subseteq 1..L /\ now \subseteq 1..(L + 1)
    BY <1>1 DEF L, n0
  <2>4. CASE row.id = i
    <3>1. n0 \in now
      BY <1>9, <1>11, <2>4
    <3>2. Max(now) \in now /\ Max(now) >= n0
      <4> HIDE DEF now
      <4>1. now # {} /\ L + 1 \in Nat
        BY <2>3, <3>1
      <4> QED BY <2>3, <3>1, <4>1, LastOfSome
    <3>3. Max(now) = n0
      BY <2>3, <3>2
    <3> HIDE DEF now
    <3> QED BY <1>2, <1>6, <1>7, <1>11, <2>1, <2>4, <3>1, <3>3
  <2>5. CASE row.id # i
    <3>1. now = of
      BY <1>9, <1>11, <2>5
    <3>2. of # {} => Max(of) \in 1..L
      <4> HIDE DEF of
      <4> QED BY <2>3, LastOfSome
    <3>3. tally'.latest[i] = tally.latest[i]
      BY <1>2, <1>6, <1>7, <2>5
    <3> HIDE DEF of, now
    <3> QED BY <1>11, <2>1, <2>2, <3>1, <3>2, <3>3
  <2> QED BY <2>4, <2>5
<1>22. Closed' = tally'.rejected
  BY <1>1, <1>6, <1>14 DEF Intact
<1>23. Readable' = DOMAIN lines' /\ newline'
  BY <1>3, <1>5, <1>9
<1> QED BY <1>18, <1>19, <1>20, <1>21, <1>22, <1>23 DEF Intact

\* FileInv: whatever rows are appended and wherever a write is cut short.
THEOREM FileInvariant == FileSpec => []FileInv
<1>1. FileInit => FileInv
  <2> SUFFICES ASSUME FileInit PROVE FileInv
    OBVIOUS
  <2> USE DEF FileInit
  <2>1. FileTypeOK
    BY RowAssumption DEF FileTypeOK, EmptyLedger, Ledgers
  <2>2. Readable = {} /\ DOMAIN lines = {} /\ PlacedLines = {}
    BY DEF Readable, PlacedLines
  <2>3. \A some : StakesOf(some) = <<>>
    BY <2>2 DEF StakesOf
  <2>4. Closed = {} /\ AtRisk = {} /\ (\A d : PlacedOnDay(d) = {}) /\ \A i : PlacedFor(i) = {}
    BY <2>2 DEF Closed, AtRisk, PlacedOnDay, PlacedFor
  <2>5. Cardinality({}) = 0
    BY FS_EmptySet
  <2>6. \A some : Total(StakesOf(some)) = 0
    BY <2>3, TotalOfNone
  <2>7. \A i \in Id : LatestOf(i) = "none"
    BY <2>2 DEF LatestOf
  <2>8. Intact
    BY <2>2, <2>4, <2>5, <2>6, <2>7 DEF Intact, EmptyLedger, StakedOn, BetsOn, ExposureRead
  <2>9. appended + Owed <= Cardinality(Readable) + tears
    BY <2>2, <2>5 DEF Owed
  <2> QED BY <2>1, <2>8, <2>9 DEF FileInv
<1>2. FileInv /\ [FileNext]_fileVars => FileInv'
  <2> SUFFICES ASSUME FileInv, [FileNext]_fileVars PROVE FileInv'
    OBVIOUS
  <2>1. FileTypeOK' /\ (lines' = <<>> => newline')
    BY FileTypesKept DEF FileInv
  <2>2. (appended + Owed <= Cardinality(Readable) + tears)'
    BY TornLinesPaidFor DEF FileInv
  <2>3. tears' = 0 => Intact'
    <3> SUFFICES ASSUME tears' = 0 PROVE Intact'
      OBVIOUS
    <3>1. CASE \E row \in Rows : Record(row)
      <4>1. tears = 0
        BY <3>1 DEF Record
      <4> QED BY <3>1, <4>1, RowAddedToBoth
    <3>2. CASE \E row \in Rows, parses \in BOOLEAN : Tear(row, parses)
      <4>1. tears \in Nat /\ tears' = tears + 1
        BY <3>2, RowAssumption DEF Tear, FileInv, FileTypeOK
      <4> QED BY <4>1
    <3>3. CASE UNCHANGED fileVars
      <4>1. Intact
        BY <3>3 DEF fileVars, FileInv
      <4>2. lines' = lines /\ newline' = newline /\ tally' = tally
        BY <3>3 DEF fileVars
      <4>3. Readable' = Readable
        BY <4>2 DEF Readable
      <4>4. PlacedLines' = PlacedLines /\ Closed' = Closed
        BY <4>2, <4>3 DEF PlacedLines, Closed
      <4>5. AtRisk' = AtRisk /\ (\A i : PlacedFor(i)' = PlacedFor(i)) /\ (\A d : PlacedOnDay(d)' = PlacedOnDay(d))
        BY <4>2, <4>4 DEF AtRisk, PlacedFor, PlacedOnDay
      <4>6. \A i \in Id : Total(StakesOf(PlacedFor(i)))' = Total(StakesOf(PlacedFor(i)))
        BY <4>2, <4>5 DEF StakesOf
      <4>7. \A d \in Day : StakedOn(d)' = StakedOn(d) /\ BetsOn(d)' = BetsOn(d)
        BY <4>2, <4>5 DEF StakedOn, BetsOn, StakesOf
      <4>8. ExposureRead' = ExposureRead
        BY <4>2, <4>5 DEF ExposureRead, StakesOf
      <4>9. \A i \in Id : LatestOf(i)' = LatestOf(i)
        BY <4>2, <4>3 DEF LatestOf
      <4> QED BY <4>1, <4>2, <4>3, <4>4, <4>6, <4>7, <4>8, <4>9 DEF Intact
    <3> QED BY <3>1, <3>2, <3>3 DEF FileNext
  <2> QED BY <2>1, <2>2, <2>3 DEF FileInv
<1> QED BY <1>1, <1>2, PTL DEF FileSpec

\* TallyMatchesFile: as long as every append completed, what Ledger's readers return from the
\* file is the ledger value the betting plane is modelled with, for any rows; and torn lines
\* hide from the readers at most one completed append each.
THEOREM TallyMatches == FileSpec => []TallyMatchesFile
<1>1. FileInv => TallyMatchesFile
  <2> SUFFICES ASSUME FileInv PROVE TallyMatchesFile
    OBVIOUS
  <2>1. appended \in Nat /\ Owed \in Nat /\ appended + Owed <= Cardinality(Readable) + tears
    BY DEF FileInv, FileTypeOK, Owed
  <2>2. Cardinality(Readable) \in Nat /\ tears \in Nat
    <3>1. lines \in Seq(Lines) /\ tears \in Nat
      BY RowAssumption DEF FileInv, FileTypeOK
    <3>2. Len(lines) \in Nat /\ Readable \in SUBSET (1..Len(lines))
      BY <3>1 DEF Readable
    <3>3. IsFiniteSet(1..Len(lines))
      BY <3>2, FS_Interval
    <3> QED BY <3>1, <3>2, <3>3, FS_Subset, FS_CardinalityType
  <2>3. appended <= Cardinality(Readable) + tears
    BY <2>1, <2>2
  <2> QED BY <2>3 DEF FileInv, Intact, TallyMatchesFile
<1> QED BY <1>1, FileInvariant, PTL
=============================================================================
