# sportsdata-agents: specifications, checks and proofs

Paths are relative to `src/src/sportsdata_agents/` of the repository unless they
start with `src/`.

The package captures bookmaker prices, watches them, runs analysis agents over them, and
can act for its owner in three places: it places bets, it runs its own maintenance jobs,
and it manages fantasy teams.  Most of its 45,000 lines convert formats, query a
database or draw pages, and go wrong in ways a unit test finds.  What a unit test
hardly finds is in the part where several processes share files and tables that little
locks, wait for a bookmaker that may not answer, and die half way.  These modules are
about that part: betting, the jobs, ingestion and its store, the watches, the fantasy
team, what an agent run may spend, and the racing board's loops over one state.

## 1. Inventory

| part | state | operations | talks to | what is hard | what makes it right |
|---|---|---|---|---|---|
| **betting plane** `betting/`, `agents bet` commands | policy file, ledger file (append only), proposals file (rewritten whole) | `bet scan`, `approve`, `reject`, `pending`, `place` | bookmakers through an MCP session; the owner | commands overlap without locks; budget read before three awaited calls and spent after; answers lost; killed commands; expiry | no bet without a decision inside the limits, approval where asked for, one bet per approval, ledger = account |
| **conductor** `operations/scheduler.py`, `tools/ops.py` | lock file per job, `ops_state.json`, children | `run_tick`, `acquire_lock`, `record_outcome`, `triage_allowed` | cron or the supervisor; job commands; the triage agent | ticks overlap; children outlive them; lock files are created, written, read and removed in separate calls; the state file is shared with the custodian | one run of a job at a time, no job wedged, failures counted exactly, triage rate limited |
| **ingestion** `operations/ingestion/` | next-due times, the wall clock as rotation state | `ingest --once --cron`, `run_loop`, 30 fetchers | bookmaker APIs, the price store | feeds fetch and write side by side; each call may fail alone; a process that remembers nothing must go on where the last stopped | each feed at its interval, failures stay local, no sport starves, the whole list comes round |
| **price store** `operations/ingestion/store.py`, `operations/retention.py` | snapshots (one per price level), change points, backups | `record_points`, `run_custodian` and its prunes | the database | two tables written in slices that commit apart, by passes that overlap, die or contradict themselves, with rows pruned under them | both tables tell the same series of levels |
| **watches** `operations/monitoring.py`, `ingestion/inplay.py` | subscriptions with a cursor, alerts, match states | a monitor pass: scan, record, push, digest, advance | the price store, notification channels | a pass dies between record and push; rows committed behind the cursor; edges that grow, vanish and return; rate caps; quiet hours | what is news is told, once |
| **fantasy plane** `fantasy/`, `tools/fantasy.py`, `agents fantasy` commands | proposals file, policy file, watch state; the team at the provider | propose, approve, drain, verify, the watch tick | fantasy providers, the owner, an agent | a drain works from an old copy; a write is accepted but not visible; deadlines; a tick killed under a running agent | what is sent was agreed to, costs what was said, goes once, and is recorded as it went |
| **agents and their budgets** `agents/harness.py`, `agents/runtime.py`, `operations/budget_guard.py`, `models/gateway.py`, `mcp/manager.py`, `observability/recorder.py` | frames of a run, ceiling and poll counts shared with delegates, a tally per process, rows | the tool loop, delegation, check and charge, call | models, MCP tools, the database | check before an awaited call and charge after it; several runs and processes; midnight; a killed process | a team shares one ceiling, a process stays near its cap, providers are spared, rows account for what was charged |
| **racing board** `interfaces/racingboard/` | race states and a price cache in memory, card indices, a training store on disk | discovery, price and fast loops | bookmakers | three loops write one state, each awaiting in between; answers repeated from a cache; failures swallowed | a price wears the stamp of its own quote and is renewed, a race outlasts its jump, results are recorded |
| supervisor `app/supervisor.py` | two asyncio tasks | tick loop, restart with back-off | conductor, web gateway | long ticks hide due slots; back-off never resets | a child that dies comes back |
| resolution `operations/resolution/` | fixture aliases | match and merge | database | scores, not order | one fixture per event |
| MCP access `mcp/` (the rest) | sessions, a catalogue | connect, pool, discover | bookmaker servers | sessions shared by tasks, empty scope | a session serves its scope |
| HTTP gateway `gateway/` | bounded task store, conversations | create, poll, cancel, stream | web clients | eviction, cancellation | a task is found until it is done |
| other boards, chat `interfaces/` | none of their own | views | database, Slack, Discord | - | - |
| quantitative models `quant/` | none | fit, price, back-test | database | floating point | - |
| tools, data layer, configuration, licensing, evaluation, entitlement service | - | adapters, schema, settings | - | - | - |

`PROJECT.json` lists every part with its files and status, and the hazards at their lines.

## 2. Modules

```
BetPolicy   decide(), size(), placing copy, drift gate      BetLedger   sums over the rows
      \______________________________   ____________________/     \
                                     \ /               Totals <- BetLedgerFile  the file, torn writes
                              BettingPlane ---- refines ---> BetPromise
                               /         \
                  MCBettingPlane       BettingPlaneProofs

Conductor <- MCConductor, ConductorProofs

Rotation <- Fetchers <- IngestWorker <- MCFeeds, IngestProofs   what is fetched, and when
PriceStore ---- refines ---> PriceSeries                        what is stored of it
    \ MCPriceStore, PriceStoreProofs
AlertRules <- Monitor <- MCMonitor, MonitorProofs               what is told of it

FantasyPolicy <- FantasyPlane <- MCFantasy, FantasyProofs

RacingBoard <- MCRacingBoard, RacingProofs

Totals <- AgentPlane <- MCAgents, AgentProofs
```

The planes meet only through files and tables, and each module states what it takes from
the others: `Offers` is the scanner's result, the board of `Fetchers` is what a book lists,
the moves of `Monitor` are stamped before they are committed as `PriceStore` does it, an agent woken by the
fantasy watch is the child that `Conductor` calls an orphan.

### BetPolicy (`betting/policy.py`, `betting/drift.py`, `runner.py:195-210`)
Pure operators.  `Decide(policy, bet, spent, quiet)` is `BettingPolicy.decide`: `Wanted`
is everything before the budget, `HasRoom` the three limits, `Trimmed` the stake cut to
what the day and the exposure leave, `VerdictOf` the mode, unverified books and quiet
hours.  `PlacingPolicy` is the copy under which an approved bet is placed, and `DriftOK`
the re-price check.  Money is in cents, odds in hundredths, edge and drift in thousandths;
the code's floats become integers, with the Kelly quotient floored.  `PolicyOK` is what
`__post_init__` accepts.

### BetLedger, BetLedgerFile, Totals (`betting/ledger.py`)
`BetLedger` is the ledger as its readers see it: the value of `staked_on`, `bets_on`,
`open_exposure` and `latest`, moved by each appended row.  `BetLedgerFile` keeps the lines
too, computes the readers' sums from them, and lets an append be cut short anywhere.
`TallyMatchesFile` ties the two, so that `BettingPlane` may use the cheap one; it is proved, so
what is proved of `BettingPlane` is so of the file.  `Totals` is `sum()` as a recursive function
on the lengths of the prefixes, which can be reasoned about where a fold cannot; the agents' rows
are summed with it too.

### BettingPlane (`approvals.py`, `execute.py`, `runner.py`, `live.py`, `adapters.py`, the CLI's `bet` commands)
Each slot of `Proc` runs one command at a time.  A step is what a command does between
two points where another process can get in:

| action | code |
|---|---|
| `BeginScan`, `Load` | the command starts and loads the store |
| `Stop`, `Ask`, `Clear` | `run_intent` up to the verdict; skip, paper and ask write their row |
| `Reprice`, `RepriceFails`, `Validate`, `Send`, `ReadAnswer` | the awaited calls and the row after them |
| `AddProposal` | `on_ask`: the store loaded at the start, with the proposal, replaces the file |
| `Approve`, `Reject`, `NothingToApprove`, `ListPending` | the owner's commands, each ending in a whole-file save |
| `OpenSession`, `TakeBatch`, `RecordOutcome` | `bet place`: live approvals, the batch, the outcome of each |
| `Tick`, `Crash` | the clock; a command killed, its memory gone, the files as they are |

`account` is what is really on at the bookmaker.  Only `Send` changes it, and `Send` may
put a bet on and lose the answer.  `mem[p]` is the command's own `Store`, from which the
lost updates come.

### BetPromise
What the owner is promised, without commands or files: a bet goes on once, a proposal's
bet only after approval, booked money stays within the day's cap, and a proposal moves
through its life in order.  `KeepsPromise` states that `BettingPlane` implements it
(`INSTANCE BetPromise WITH life <- store, on <- account.landings, ...`).  It holds for
commands that neither overlap nor die; what overlap and death cost is stated by the
bounded properties and by the violation runs.

### Conductor (`operations/scheduler.py`, the state file of `tools/ops.py`, the save of `operations/retention.py`)
`Tick` slots run ticks, each with one thread per due job.  A step is one system call on a
lock file or on the state file:

| action | code |
|---|---|
| `Begin`, `End` | `run_tick`: the thread pool opens and closes |
| `Create`, `Inspect`, `Probe`, `Unlink`, `Sign` | `acquire_lock`: `O_EXCL`, read, `kill(pid, 0)`, unlink, write the pid |
| `Spawn`, `StampOpen`, `StampWrite` | `_default_runner`: `Popen`, then the child's pid into the lock file (truncate, then write) |
| `JobSucceeds`, `JobFails`, `HandoffEnds` | the child ends or is killed at its timeout |
| `RecordRead`, `RecordWrite` | `record_outcome` under `ops_state_locked` |
| `TriageRead`, `TriageWrite` | `triage_allowed`, with no lock |
| `Release` | the `finally` of `_run_one_job` |
| `CustodianReads`, `Crash`, `OrphanEnds` | the custodian's early read, a killed tick, a child that outlives it |

Lock files carry an inode, because a write through an open descriptor after the file was
removed is not seen at the path.  A health check or a triage is a child too, and a health
check stamps the lock of `ops_health` if a thread of the same tick holds that lock
(`_ACTIVE_LOCKS` is looked up by job name).  A new process takes a pid, a new file an inode, that
nothing refers to; where the bounded sets have none left the step waits (`FreshPids(cmd) # {}`,
`FreshInodes # {}`), which is a bound of the model and not a guard of the code.

### PriceStore, PriceSeries (`operations/ingestion/store.py`, `operations/retention.py`)

| action | code |
|---|---|
| `Begin` | `record_points` is called: `captured_at` is taken, once for the pass |
| `Load` | both tables are read in one session and everything is decided (`Worked` is a turn of its loop, `Decided` the loop) |
| `Commit` | one row: insert or refresh a snapshot, append a change point; a slice may end after any |
| `Die` | the process dies or a statement raises; what is committed stays |
| `BackUpAndPrune`, `PrunePostgres` | `run_custodian` up to the first prune, on either database |
| `PruneSnapshots`, `SnapshotsDone`, `PrunePrices`, `PricesDone` | the batched deletes, each a `LIMIT` without an order |
| `Wait` | the clock |

Passes overlap: on Postgres those of one cycle run side by side, on SQLite those of two
commands do.  The ghost `harm` says which keys were disturbed (a pass that died, overlapped or
quoted two prices, a prune that took the end of a series), `confirmed` what the last whole pass
saw.  `PriceSeries` is the promise: per key a series of levels that grows at its end, by a later and
*different* level, and is thinned at its beginning; a disturbed key is promised nothing from then on.

### Rotation, Fetchers, IngestWorker (`operations/ingestion/fetchers.py`, `worker.py`)
`Rotating` is `_take_rotating`, the window that moves with the wall clock.  `Fetchers` has one
operator per fetcher over a board (groups of events), the epoch, and the set of calls that
fail; `Raises` says which failed call takes the feed with it.

| action | code |
|---|---|
| `Launch`, `Turn` | the conductor's cron job takes the feeds of its window; `run_loop` takes those that are due |
| `StartFetch`, `EndFetch` | the semaphore; the fetch, with whatever calls failed |
| `StartWrite`, `EndWrite` | the SQLite write gate; `record_points` returns or raises |
| `EndCycle` | `gather` is over and the next due times are set |
| `Kill`, `Tick` | the job's timeout or a dead process; a period passes |

`Interval` is a feed's cadence after the priority tier, the operator's map and the pacing.  The
ghost `sweep` collects what a rotating feed has seen at a steady stride, `lapsed` the windows
the conductor let pass.

### AlertRules, Monitor (`operations/monitoring.py`, `operations/ingestion/inplay.py`)
`AlertRules` holds what depends on the kind of watch: the key of an alert, the ratchets and
cooldowns (`IsNews`) and the window of repeats (`IsRepeat`).

| action | code |
|---|---|
| `Begin`, `EndPass` | `run_watches`; after a rollback the remaining subscriptions are expired and the pass ends (`lost`) |
| `Skip`, `Scan` | a watch that is not due; `_scan_*` from the cursor |
| `Leave`, `Fire` | a candidate that is no news; `_fire` commits the row |
| `Push`, `Mark` | the notification; `pushed` is set |
| `Digest`, `Settle` | the digest of what is pending; its rows are marked |
| `Advance` | the watch's commit: cursor and digest time |
| `Raise`, `Kill` | a watch raises and is rolled back; the pass is killed |
| `Stamp`, `Turn`, `NextRace`, `Capture`, `Tick` | the world: a move stamped now and committed later, an edge, the next race of a name, an in-play capture, the clock |

A watch that has no cursor yet looks back six hours (`Backlog`) and no further.  The ghost `from` keeps
that point: `MovesAreHeard` promises nothing of a move that was older when the watch first looked.

### FantasyPolicy, FantasyPlane (`fantasy/`, `tools/fantasy.py`, the CLI's `fantasy` commands)
`FantasyPolicy` has the decisions, the bill of a transfer, the comparison after a write, and
the cadence of checks, alerts and wake-ups.  A process of `FantasyPlane` is the watch tick, an
owner's `approve`, or an agent run by hand:

| action | code |
|---|---|
| `Approve`, `Reject`, `ListPending` | the owner's commands, each a load and a save |
| `LoadApproved` | `drain_approved` takes its copy (`mem`) and its batch |
| `ReadBefore`, `Send`, `Raised`, `ReadAfter` | `execute`: the squad, the write, its exception, the squad again and the outcome saved from the copy |
| `BeginAgent`, `Propose`, `AgentEnds` | an agent's run and its two tools |
| `BeginTick`, `Check`, `SaveWatch` | the watch: horizon, credential, page, wake-up; what was paged is saved after the page |
| `Pass`, `Turn`, `Kill` | the clock, the session at the provider, a killed command (its agent may live on) |

The provider is external: it refuses what does not fit, and may take a write and lose the
answer, ignore it, or do something else.  `team` is what is really there, `done` the line-ups and
squads there were, `landed` the proposals that took effect.  `FateIsTrue` says that an executed proposal *was*
so at some time: the verification compares the squad with the proposal, so that one which changes nothing is rightly
found executed without a write having landed.

### AgentPlane (`agents/harness.py`, `agents/runtime.py`, `operations/budget_guard.py`, `models/gateway.py`, `mcp/manager.py`, `observability/recorder.py`, `operations/costs.py`)
A run is a stack of frames, the root agent and the delegate it waits for; the runs of a
process share its guard, processes share the committed rows.

| action | code |
|---|---|
| `Begin`, `RecordStart` | a request opens a run; `on_run_start` commits its row or fails to |
| `Halt` | the limits before a turn: ceiling, steps, deadline |
| `Precheck`, `ReadPeriod` | `precheck`: the window rolls over; the rows are read, or the baseline stands in |
| `Answer`, `CallFails` | the primary or the fall-back answers and both budgets are charged; neither does |
| `Act`, `StopActing`, `BatchDone` | the tools of a batch one by one, with denied providers, poll budget, delegation; the limits between them |
| `RecordEnd` | the frame's row gets its cost; a delegate hands over to its caller |
| `Midnight`, `Kill` | the period turns; a process goes with its runs and its tally |

Root and delegates have the same limits here; the deadline may pass at any check.

### RacingBoard (`interfaces/racingboard/poller.py`, `store.py`, `corporate.py`, `spine.py`, `datalog.py`)
Three loops of one event loop; a step is what one of them does between two awaits.

| action | code |
|---|---|
| `BeginDiscovery`, `BookIndexed` | `_discover_once`: every book's `build_index`, a failed call being swallowed by `try_call` |
| `Assemble`, `EndDiscovery` | the spine of races and `upsert_ref`; after the exchange's index, the prune of what was not found |
| `BeginCycle` | `_poll_active` takes the races that are due and waits for all of them |
| `TabAnswers`, `BooksAnswer`, `ExchangeAnswers`, `CorpAnswers`, `Add` | `_poll_race`: TAB or every book, the exchange, `enrich` with its cached prices, the form engine, then `RaceState.add` |
| `BeginFast`, `FastIndexed`, `SportsbetAnswers` | `_refresh_fast`: the session renewed by age, the card rebuilt, the batched call and `apply_book` |
| `Move`, `Advance`, `PutBack`, `Flag`, `SessionAges`, `IndexAges`, `Expire` | the market, the race's course, a start put back, a session refused by Sportsbet, the timers |
| `Restart` | the process; only the training store survives |

A price is the number of moves its market had made when it was read, so that a quote is
current or it is old; one runner stands for a field.  Of the exchange only the awaits are kept.  The
races fit one chunk of the fast loop, one start and one meeting go with a race key.  The
ghosts `repeated` and `overtaken` say which of two things made a stamp newer than its price.

## 3. Runs

| run | instance | properties | what it shows |
|---|---|---|---|
| `MCSerial` | one slot, four books in four modes, quiet hours, two days, all answers, two scans | `KeepsPromise`, `SendIsCleared` | used one command at a time, the plane keeps its promise and sends only what was decided and re-priced |
| `MCScans` | two overlapping slots, four scans, stakes 1 and 2, one crash | `OvershootBounded`, `AutoPlacedOnce`, `PlacedRowsAreOn` | bets, stake and exposure are each overshot by at most one command's worth; no double bet, no phantom bet |
| `MCRestart` | one slot, two crashes anywhere, all commands, fair | `FateAgreesWithLedger`, `CommandsEnd` | the two files agree after any restart; every started command ends |
| `MCLedgerFile` | up to four lines, two intents, two days, one torn append | `TallyMatchesFile` | the sums are right in every order of rows, a tear costs one row at most |
| `MCConductor` | three setups: one tick slot with a job that fails up to three times and ops_health; the same with two failures and a kill, without triage; two slots over a custodian's job with a kill; fair | `CountIsExact`, `OrphanNotDoubled`, `NeverWedged` | concurrent outcomes are all counted, an orphan is not run beside, no lock file, however left, keeps a job out for ever |
| `MCPriceStore` | two passes over one price of two levels, both databases, clock 4, one mishap | `SeriesAgrees`, `HistoryIsWhole`, `StampLagsBehindLittle`, `PrunedRowsAreBackedUp`, `SeriesPromise` | undisturbed, the tables tell one gapless series; disturbed, the next whole write repairs them |
| `MCFeeds` | two feeds over all fetchers (16 pairings), both drivers, both databases, five groups, eight events, clock 6, one fault, fair | `OnSchedule`, `FailuresStayLocal`, `NoSportStarves`, `RotationComesRound`, `CyclesEnd` | cadence, isolation, shares; a rotation comes round exactly when stride and list allow |
| `MCMonitor` | two watches (five pairings of kinds), one story, clock 3, two moves, two turns of the board, one fault | `MovesAreHeard`, `EdgesAreHeard`, `OnlyGrowthIsTold`, `DigestsTellAll`, `NoSecondPush` | what may be missed, told twice or told late is what the properties say and nothing else |
| `MCFantasy` | tick, approve and agent, two proposals, seven setups over three platforms, fair | `SentOnce`, `FateIsTrue`, `OnlyWithConsent`, `NoSurpriseBill`, `WatchWithoutNoise`, `ApprovalsAreSettled` | consent, bill, one write per approval, a true record, paging without noise |
| `MCAgents` | four setups: a team with a delegate and two providers; a dear team; two runs over midnight; two processes, one killed | `TeamSharesItsCeiling`, `ProvidersAreSpared`, `ProcessWithinCap`, `RowsAddUp` | what a team, a process and the rows may and must account for |
| `MCRacingBoard` | nine setups over one race or two, Sportsbet and TAB: moving prices with repeated answers, a flagged session, cards read in vain, a start put back, past the jump, to the results with a failed call or a restart; fair | `StampIsHonest`, `NoQuoteFreezes`, `RacesStayThroughTheJump`, `ResultsAreLabelled` | how a stamp may lie, that a quote is renewed in the end, that a race leaves the board only for the reasons stated, that its outcome is stored |
| `CrashPlacesTwice` | one slot, one crash | `PlacedOnce` violated | section 5 |

The type invariant of a newer module is a conjunct of one of its properties.  Every property
of a passing run is broken by a mutant of the code it is about (`mutants`
in `PROJECT.json`); the mutated forms stand beside the definitions, marked as such.

**Bounds, and why they are enough.**  *Slots, passes, processes*: every conflict in the code is
between two that each read, wait and write; a third adds one more
overshoot, which the theorems cover for any number.  *Scans* (2 or 4): four bets of two
sizes against limits of two bets and one and a half stakes make each limit the binding
one.  *Clocks*: betting has two readings to a day and a time to live of one or two, which puts
expiry, midnight and quiet hours between any two steps; `MCPriceStore` has four instants, longer than the
refresh interval and both windows of retention; `MCFeeds` six periods, enough for the slow feed to run
three times and a rotation to come round; `MCMonitor` three, past the window of repeats
and the two instants a first pass looks back; `MCFantasy` up to
three, across a gameweek; `MCAgents` one midnight; `MCRacingBoard` two
levels of a price, enough for a stamp and a quote to differ in either direction.  *Faults and crashes*: one more than needed to reach each recovery
(conductor failures three, the threshold of triage; without a kill there, since a kill during the
triage leaves what one during the health check leaves).  *Board*: more events than each cap and
groups of every kind a fetcher distinguishes.  *Agents*: a ceiling of four calls, batches that run into
every limit, two polls per provider, three repeats of a cycle of two.  *Pids*: enough for every process alive or
named by a lock; a pid is not used again while something refers to it.  Deadlock is not checked where a
model stops at its bounds (`MCLedgerFile`, `MCPriceStore`, `MCFeeds`, `MCMonitor`, `MCAgents`).

**Fairness.**  `BettingPlane!FairSpec` has weak fairness of each slot's own steps, the
answers included: a running process is scheduled and every MCP call has a timeout.  Nobody
is obliged to start a command, and the clock need not move.  `Conductor!FairSpec` has weak
fairness of each tick's threads, since a job, a health check and a triage are all killed at
their timeout, and of the children that outlive a tick.  The latter is an
assumption: an orphan has nobody to time it out, and a hung one holds its job's lock for
ever.  Strong fairness of "a tick begins with this job due" is cron starting a tick every minute with every job due
again and again; strong, because a slot may be taken at any given minute.
`IngestWorker!FairSpec` has weak fairness of each feed's work and of the end of a cycle, by the same
timeouts.  `FantasyPlane!FairSpec` has weak fairness of each process's steps and strong fairness of the
tick, which the conductor starts every half hour unless one is running.  `RacingBoard!Spec` has weak
fairness of each loop's step and each poll's, by the same timeouts, and of the timers (a session, an index and
a repeated answer grow old); strong fairness of a poll cycle that takes a given race and of a fast cycle that takes the
far races too, since the cycle counters bring either round, but only when the loop is free at that moment.  The other modules make no promise that needs fairness.

## 4. Proofs

For every set of commands, jobs, watches, teams, races and runs, every policy, answer and bound:

| theorem | states |
|---|---|
| `BettingPlaneProofs!TypeCorrect` | `Spec => []TypeOK` |
| `BettingPlaneProofs!BetsBounded`, `StakeBounded`, `ExposureBounded` | each limit is overshot by at most one command's worth for each other command |
| `BettingPlaneProofs!BudgetsHold` | `Spec => []OvershootBounded`, the types and the three limits together |
| `BettingPlaneProofs!AutoPlacedOnceCorrect` | `Spec => []AutoPlacedOnce` |
| `BettingPlaneProofs!PlacedRowsCorrect` | `Spec => []PlacedRowsAreOn` |
| `BettingPlaneProofs!SendsAreCleared` | `Spec => SendIsCleared`, an action property |
| `BettingPlaneProofs!FateCorrect` | `Spec => []FateAgreesWithLedger`, for commands one at a time |
| `BettingPlaneProofs!PromiseKept` | `Spec => KeepsPromise`: `BettingPlane` implements `BetPromise`, for one slot and no crash |
| `BettingPlaneProofs!FileInvariant` | `FileSpec => []FileInv`, of the ledger file |
| `BettingPlaneProofs!TallyMatches` | `FileSpec => []TallyMatchesFile` |
| `ConductorProofs!TypeInvariant` | `Spec => []TypeInv`, the types and what a thread holds at each step |
| `ConductorProofs!CountsAreExact` | `Spec => []CountIsExact` |
| `ConductorProofs!OrphansAreNotDoubled` | `Spec => OrphanNotDoubled`, an action property |
| `MonitorProofs!TypeInvariant` | `Spec => []TypeInv`, the types and what a pass holds at each step |
| `MonitorProofs!MovesHeard` | `Spec => []MovesAreHeard` |
| `MonitorProofs!EdgesHeard` | `Spec => []EdgesAreHeard` |
| `MonitorProofs!GrowthIsTold` | `Spec => []OnlyGrowthIsTold` |
| `MonitorProofs!PushesAreApart` | `Spec => NoSecondPush`, an action property |
| `MonitorProofs!DigestsTell` | `Spec => []DigestsTellAll` |
| `FantasyProofs!TypesCorrect` | `Spec => []TypeOK` |
| `FantasyProofs!ConsentGiven` | `Spec => OnlyWithConsent`, an action property |
| `FantasyProofs!BillKept` | `Spec => NoSurpriseBill`, an action property |
| `FantasyProofs!SentAtMostOnce` | `Spec => []SentOnce` |
| `FantasyProofs!FateTrue` | `Spec => []FateIsTrue` |
| `FantasyProofs!WatchIsQuiet` | `Spec => WatchWithoutNoise`, an action property |
| `AgentProofs!TypeCorrect` | `Spec => []TypeInv`, the types and what a frame knows |
| `AgentProofs!CeilingHolds` | `Spec => []TeamSharesItsCeiling` |
| `AgentProofs!ProvidersSpared` | `Spec => []ProvidersAreSpared` |
| `AgentProofs!ProcessBounded` | `Spec => []ProcessWithinCap` |
| `AgentProofs!RowsComplete` | `Spec => []RowsAddUp` |
| `IngestProofs!TypeCorrect` | `Spec => []TypeOK` |
| `IngestProofs!RunsOnSchedule` | `Spec => OnSchedule`, an action property |
| `IngestProofs!RotationCovers` | `Spec => []RotationComesRound` |
| `PriceStoreProofs!TypeCorrect` | `Spec => []TypeOK` |
| `PriceStoreProofs!PricesAgree` | `Spec => []SeriesAgrees` |
| `PriceStoreProofs!HistoryKept` | `Spec => []HistoryIsWhole` |
| `PriceStoreProofs!StampsLag` | `Spec => []StampLagsBehindLittle` |
| `PriceStoreProofs!PrunesBackedUp` | `Spec => PrunedRowsAreBackedUp`, an action property |
| `PriceStoreProofs!PromiseKept` | `Spec => SeriesPromise`, the refinement of `PriceSeries` |
| `RacingProofs!BoardTyped` | `Spec => []TypeOK` |
| `RacingProofs!StampsAreHonest` | `Spec => []StampIsHonest` |
| `RacingProofs!RacesStay` | `Spec => RacesStayThroughTheJump`, an action property |

*Assumptions* are those the modules name, and no others: a policy that `__post_init__` accepts; finitely many slots,
jobs, players, races, books, price keys and runs; typed offers, answers, intents, setups and batches, no batch empty;
positive windows, periods and intervals; a book that lists nothing twice; a backup that is taken at least as often as the shortest retention window;
no job called `tick` or `triage`, Sportsbet and TAB among the books.  TLC evaluates them on every run.

*Betting, the limits.*  `TypeOK` alone is not inductive: a step reads `terms[run[p].id]`, and the id
is one only because of the step `p` is at.  `TypeInv` adds `Shaped`, what a command knows
at each step.  `NextLifts` then reduces the whole next-state relation to three effects on
money: nothing new, a bet cleared (`Clears`: a positive stake, inside what the limits
leave at that moment), a bet booked (`Spends`).  The limits follow from these alone.  For
bets, `BetsInv` counts ledger rows and bets in flight together: clearing needs the ledger
below its limit, and at most `Cardinality(Proc) - 1` others are in flight.  For stakes
counting is not enough, since a cleared stake was trimmed to what was left *then*.  `Reach`
keeps a witness: some bet in flight whose stake and `max_stake` for each of the others
stay within the bound, so that whatever order they are booked in, the last of them was
cleared with room.  `StakeInv` applies it per day and `ExposureInv` to the open exposure,
which rejected rows can only lower.

*Betting, the fate of a bet.*  A scan has its intent to itself (`Distinct`), and nobody else holds a proposal
before that scan has saved it (`Unborn`, `NobodyKnows`).  So an intent decided `auto` is sent by one command, once, and its
row agrees with the answer that command read.  Commands that do not overlap see more: the copy of the one at
work is the file but for what has expired since (`Remembers`).  From that the proposal's state and the ledger agree
(hypothesis `Alone`: one slot), and, without crashes (`Tidy`), each step is a step of `BetPromise` or a stutter; the refinement is proved by the same kinds of step.

*Betting, the ledger file.*  `TallyMatchesFile` is about sums over the whole file, and an append changes them by one term;
the section "Sums" proves that for `Total`, by looking at the least length of a prefix at which it could fail.
An append to a file without a torn line adds its stake to one day and nothing to the others.  The
exposure is the hard one: a "rejected" row takes out every bet of its intent at once, those before it and those after,
which is why `Intact` carries two more equalities than the property, `Closed = tally.rejected` and the stakes placed
for each intent.  `Owed` is what the next append may
still cost: behind an unfinished line that parses, that line and its own row, since they become one line;
behind one that does not parse, its own row.  With it, what was appended is at most what can be read and one row for each tear.

*Conductor.*  `TypeInv` adds to the types that a thread holds what its step needs (`Sound`) and that a thread at work has a
live tick (`Manned`).  `CountInv` is the mutual exclusion of `ops_state_locked` and what it buys: at most one thread is
between its read and its write, and what it read is what is there, so no failure is lost.  The ghost `foreign`
marks the writers that take no lock.  `OrphanInv` is about a single slot: a process that was started for a job is alive
and named by that job's lock, which its thread waits for or has yet to inspect (`Guards`), and a thread about to stamp
the lock has the file open that is at the path (`Stamps`).  `ops_health` is excepted because a health check, too, stamps its lock.

*Feeds.*  The conductor's job remembers nothing between two runs, so what keeps it on schedule is arithmetic: `OnBoundary`
says that a feed which missed no window was last taken in at the last multiple of its interval the job has
seen, and `Crossing` that the next one it sees is a whole interval later.  The loop remembers: `Remembered` ties `nextDue`
to the run before, or to the start of the cycle that the feed is in.  A window without a job, or a kill, ends either, and is what
`lapsed` records.

*Feeds, the rotation.*  `SweepInv` says what the ghost holds: the windows of so many epochs, at one stride, up to the last
fetch.  Modulo the length of the list, a window's places are those of the last one moved back by a multiple of
stride times window (`RoundsShow`).  What remains is number theory.  `DivisorCombines` is Bézout's identity, from
the least positive number that is made of multiples of both.  If the common divisor fits in the
window, each place is some multiple of it plus a step inside a window, and the multiple is reached in
as many cycles as the divisor goes into the list (`PlacesComeRound`).  If it does not fit, the place next to a window's
end is passed over by all of them, since two places of one remainder differ by a multiple of it (`PlacePassedOver`).

*Price store.*  What `record_points` writes is computed by its loop, as a recursive function over the batch (`Decided`).
What that loop maintains is proved turn by turn, and extended to the whole batch by looking at the least turn at which it
could fail.  `WritesFor` is the result: for a key that the batch quotes at one price, however often, a pass writes either
one insert, or refreshes of the standing row, or nothing as that row is fresh enough, and a change point exactly if the last one says something else.
`SeriesAgrees` is not inductive, since between two slices the tables differ.  `KeyInv` says of each key what is between them: a pass
over it was disturbed and the key is torn, or the pass is alone over it and what it still has to write completes both series at
one price (`SnapsPlanned`, `PricesPlanned`) and repeats no level (`Newsworthy`).  `IdInv` is what makes a refresh
by id safe: ids are a row's own, and a row that another pass is about to insert is named by no refresh.  The prunes take
the beginning of a series or tear the key.  For `PrunesBackedUp` the cutoff of a prune lies before the backup, as no
window is shorter than `BackupEvery`.  `PromiseKept` reads the change points of an undisturbed key as the levels of
`PriceSeries`: by `PricesPlanned` and `Newsworthy` what a pass has left to append is later than every level and
unlike the newest, by `Undisturbed` what a prune takes is earlier than what it leaves, and a key once torn never
counts as undisturbed again.

Proving `StampLagsBehindLittle` showed its earlier form false for `RefreshEvery = 0`, where every capture is written and
a row is exactly as old as its pass; `Kept` now says so.

*Watches.*  `SentInv` ties a push to the table: what is being pushed stands there as a row, and more than
the window after the last push of its key.  A move is followed through a pass: one that is due is told of already, cut off, or
still a candidate of the pass at work (`PassingInv`); when the pass ends and the cursor moves, only told ones are
behind it (`PassedInv`).  `SeenInv` and `SeeingInv` do the same for edges.  `GrowthInv` speaks of the last alert
of a story, as the code does, and the theorem of any two: between them the bands only grow, unless one alert said "gone".
`DigestInv` has two halves.  `ToldOnce` counts how often a row went out against the faults there were.
`Covered` compares cardinalities: a digest that is not full has everything that was pending.

Proving `MovesAreHeard` showed its earlier form false whenever the first look back is shorter than the life of the watch,
and the instance too small to see it.  The ghost `from` and `Backlog = 2` in `MCMonitor` are the result.

*Fantasy.*  `ConsentInv`: what is approved in the file, or in a drain's copy of it, was approved by the owner or is automatic
under the policy, and was in force when the copy was taken.  `BillInv`: the bill that a proposal carries is the fair one for the
transfers there were when it was drawn up, or another went through since.  `SentInv` counts for each proposal the
times it may still be sent (`Chances`): one for each drain whose copy holds it open, or one if no drain runs and the file does;
sent and chances together stay within one, the kills and the overlapping writes.
`TruthInv` says of every copy of the file, not just of the store, that the executed ones were so; a drain saves from its copy.
`FateInv` adds, for writes that do not overlap, that what landed is settled unless a process still has it in hand.
`PageInv` and `WakeInv` are about the watch file and the tick's copy of it: as long as nothing is new, both remember the
owner's last page and the state it told of; and a gameweek whose agent was started is over, or stamped, or its
run is under way, or a kill or a failure is to be charged for it.  Proving it
showed the check was one step too few: the page goes out before the file says so, and a tick killed in between
pages again (`SaveWatch`).  The property now excuses that kill and no other.

*Racing board.*  `HonestInv`: the price cache is as new as the stamp beside it, and so is what a poll
has taken from that cache, unless the fast loop moved the stamp on in between; the code does not notice, the ghost `overtaken` does.
`BoardInv`: a book that is not dark has on its card every race it carries (`Carded`), so that what a discovery is about to drop
is over or has only dark books (`KeptInv`).

*Agents.*  `TypeInv` adds to the types that a run under way has a frame, that no frame was
entered with more spent than is spent now, and that a run which is asking has a known day.
`TeamInv` ties the counters of the code to the ghosts: while a run is active its `spent` is what the team was
charged and its `polls` what each provider was asked, and a run that asks was below the ceiling; one
call then goes over by at most its own price.  `GuardInv` is about a process: days after its window are
untouched; what was charged in the window is at most the tally; and `Owed`, what was charged
and what the calls now checked may still add, stays within the cap and one call for each run, and one more for each
run but one after the period has turned, because a check that began before midnight passes on the new
window's zero.  A check passes only when the tally is below the cap, and from then until its answer its
call is counted in `Owed`.
`RowsInv` is the property with its types.  Its sum runs over the open frames of all runs, and nearly every step of a run moves one term
of it: a charge raises it, with each caller of the charged frame once more; `RecordEnd` moves a frame's cost to the rows and
to its caller; a new run or delegate adds nothing.

*Model-checked only*:
- liveness, which the prover does not reach: `CommandsEnd`, `NeverWedged`, `CyclesEnd`, `ApprovalsAreSettled`,
  `NoQuoteFreezes`, `ResultsAreLabelled`;
- `FailuresStayLocal`, beyond its types, and `NoSportStarves`: what a fetcher returns is computed by filters, concatenations
  and sorts of sequences whose tests are lambdas.  Their theorems would take the test as a parameter, which the provers
  cannot instantiate, so each of the thirty fetchers would need inductions of its own, and the sorts a proof
  that a sorted permutation exists.

## 5. What the code does against what it says

With a run: **a bet is placed twice after a crash** (`execute.py:9` "placed ONCE").  The row is
written, then the proposal's outcome; killed between, the proposal is still approved
(`CrashPlacesTwice`).

Seen while modelling, without a run of their own:

*Betting.*
- The payload is not trimmed (`policy.py:135`): it takes `size()`, the ledger row the trimmed stake, so
  the account can exceed `daily_cap`.
- The remembered price is sent (`drift.py:22`, `execute.py:185`): the fresh quote goes to the ledger,
  the payload was built before.
- A saved proposal is lost when scans overlap, each saving its own list (`approvals.py:252,258`).
- Overlapping scans overshoot `daily_cap` in the ledger (`execute.py:128` read, `:224` written):
  the bounded properties say by how much.
- A lost answer is booked "rejected" (`execute.py:209-218`) although the bet may be on; nothing
  of it is ever spent.
- Two overlapping `bet place` load and place the same approval.
- A later proposal of a batch can expire before its turn and is still sent (`runner.py:166`
  against `approvals.py:14`).
- `bet place` opens a session without the re-price tools of Sportsbet, TAB and Entain
  (CLI `:2705` against `live.py:175`): such an approved bet can only end rejected.
- With every book at `paper` or `never` the session is unrestricted, not empty
  (`live.py:161`, `mcp/manager.py:240`).
- The placed row of an asked bet carries a new intent id (`runner.py:181` against `ledger.py:47`).
- A row appended after a half-written one joins its line and is skipped with it
  (`ledger.py:78,91`); `TallyMatchesFile` bounds the loss.
- Nothing writes a settlement, so a bet stays in the open exposure for ever (`ledger.py:104`).
- `reject()` looks at no state: a placed bet can be shown as rejected (`approvals.py:184`).
- The policy and the fantasy store are rewritten in place (`policy.py:369`, `fantasy/approvals.py:110`).

*Conductor.*
- Overlapping ticks can run a job twice (`scheduler.py:23,405`).  The lock file is empty between
  its creation and the write of the pid, and an empty one is taken for stale.  Two wider windows lead to
  the same: during the health check and the triage the lock names a child already reaped,
  for up to three quarters of an hour, and the final unlink removes whatever file is at the path by then.
- The custodian forgets a triage (`scheduler.py:20-21`, `tools/ops.py:104-106`): it writes
  back, without the lock, a state read before its backup and prune, so cooldowns, failure
  counts and disabled feeds go back.
- A lock file that disappears between `open` and `read_text` raises `FileNotFoundError`, which
  `acquire_lock` does not catch and which fails the tick (`scheduler.py:327`); a health check
  that times out ends the thread before the triage.
- The supervisor waits for its stop signal, not for the gateway's task, so a gateway that died is not
  restarted (`supervisor.py:96-103` against `:62-66`).

*Ingestion and its store.*
- "Prices NEVER touched" (`retention.py:8`, `store.py:12`) is true of SQLite's default only: `prune_prices`
  deletes on Postgres.
- "Every prune is preceded by a backup" (`retention.py:11`) is false on Postgres and when the disk has no
  room; a backup up to a day old will do.  `PrunedRowsAreBackedUp` states what is left.
- A rotation whose stride of windows shares a large divisor with the list never comes round:
  `pointsbet_books` at one run an hour, 18 of 54, sees a third for ever (`fetchers.py:161-163,826-827`).
  `RotationComesRound` states exactly when, and it is proved for all lists, windows and strides.
- An interval of zero in `SPORTSDATA_AGENTS_FEED_INTERVALS` passes `int()` and has the conductor's job divide by it
  (`worker.py:451` against `:504`); the model assumes positive ones.
- A listing that fails changes the length of the list that rotates, and moves the window.
- `captured_at` is taken before the write gate: two passes may commit in the other order.
- One advisory lock is held by a session over several commits, and a pooled connection may be another.

*Watches.*
- The status of an in-play match is read only while its start lies in a window (`worker.py:130-132`,
  `inplay.py:142-184`), and a state older than a few minutes is no state (`monitoring.py:2096-2102`): a long
  match goes dark.
- The ratchet of `racing_value` is keyed by venue and race number without a date or an age limit
  (`monitoring.py:2420-2437` against `:2417-2419`): yesterday's edge silences today's smaller one.
- After `session.rollback()` (`:3271`) the remaining subscriptions are expired, and reading the next raises: one
  watch's failure ends the pass, against the comments at `:3268-3271`.
- The keys of arb, exchange, back-lay and stat alerts carry the band (`:2072`), so a shrinking edge tells again.
- A move committed more than the safety lag after its stamp is passed over by the cursor (`:3210`); the cap
  drops further moves while the cursor advances; rows of quiet hours are never pushed for a watch without a digest;
  a row whose pass died before the push is not pushed later.  `MovesAreHeard` and `EdgesAreHeard` have them as
  exceptions.
- `last_digest_at` advances when the push failed; `Alert.message` (`models.py:486`) is not truncated to its
  column; `candidate_fixtures` caps by oldest start.

*Fantasy.*
- `max_actions_per_gameweek` is never enforced: no tool passes `actions_taken` (`policy.py:97`).
- A rejection, an approval or a new proposal saved while a drain runs is overwritten by the drain's copy, and the rejected
  one executed (`approvals.py` against the CLI's docstring at `:2381`).
- Two drains of one approval write it twice (`execute.py:9-11`).
- An MFL add/drop is always verified FAILED, since its payload has neither key the verifier looks for; an
  ESPN line-up that names only the moved players likewise; a failed `before` read makes a landed transfer FAILED.
- `approve` says "Approval does not execute it" (CLI `:2353`) and goes on to execute; an MFL drain opens the FPL tool groups
  (`runner.py:17-22`).
- A tick killed between its page and the save of the watch file pages again (`watch.py:411` against `:422`).
- A check that could not tell between two that found the session expired pages again within the cooldown;
  `last_alert_at` advances when the push failed.
- A tick killed at its timeout after its agent acted wakes the agent again.  The cost approved is not compared with the cost charged.
  Direct writes leave no record; a batch is checked for expiry once.

*Agents and gateway.*
- Overshoot is not "bounded to roughly one in-flight call per process" (`budget_guard.py:63-64`): rows
  are written when a run ends, so several processes see nothing of each other, N runs of a process overshoot by N calls, and a
  check that straddles midnight passes on the new window's zero, which makes it 2N-1.  `ProcessWithinCap`
  states that bound and it is proved.
- A late read of the old period may overwrite the new baseline; a failed read keeps the old one.
- `period_spend` (`costs.py:116-126`) counts what a delegate spent twice: its row and its caller's.
  `RowsAddUp` states it.  A row counts under the day it was created, not the day of its calls.
- A denied provider is refused by name but not when reached through `call_data_tool`
  (`harness.py:583-590`, `discovery.py:161`).
- The discovery index, "resolved once per run", is cached for the session, and a toggle "for the next run"
  (`runtime.py`) takes effect with the next session.  A warm harness keeps the skills it loaded after compaction
  dropped their text.
- A task cancelled at shutdown stays "running" in the gateway's store.

*Racing board.*
- A stamp can be newer than its price in two ways, the exceptions of `StampIsHonest`: a poll that read the price
  cache before the form engine's await writes that price over a newer one and carries the newer stamp
  (`store.py:24-36`, `corporate.py:757-770`), and an identical query is answered from a 60 s cache and stamped anew
  (`poller.py:379-391`).  The ids are shuffled against the latter, but a query of one to three races has six orders
  at most, so a minute of cycles repeats them.
- "Failing loudly and RECYCLING" (`poller.py:410`): the `except` of `one_chunk` (`:386`) never runs, because `try_call`
  returns nothing instead of raising; a refused session is renewed by its age of 300 s alone.
- A `build_index` that fails empties the card it was to renew, the fast loop's rebuild included; when every book of a
  race is dark at once, discovery prunes the race.  `RacesStayThroughTheJump` has it as an exception.
- `upsert_ref` keeps the first reference, not the "freshest metadata" (`store.py:95`): a race put back by more than the
  tolerance of starts loses every book's handle, and one first found without TAB is never asked for its results.
- Two meetings at one track share a race key (`spine.py:173`): the second is never captured.
- The stamp is one per race while an answer may price some of its runners; a book that fails in `enrich` loses its last
  price; `RESULTED` goes back to `OPEN` when TAB's call fails; `value_pct` is not reset when the edge leaves its
  range; `DataLogger.prune` has no caller.
- `_book_snapshot` still makes the single race-card calls that the fast loop was written to spare.

## 6. Not modelled, and why

- *Numbers*: the scanner, `quant/`, the pacing ladder and how a watch computes an edge are arithmetic over data;
  `Offers`, the intervals and the board of `Monitor` stand for their results.  `measure_arb_outcomes` only adds
  rows to a report.
- *Payloads and responses* of each provider: only the price and stake they carry, the calls they take, and the kind of
  answer.  Normalizers convert one API's format each.
- *Owner's edits* (`bet set`, `bet policy`, `fantasy policy`) while a command runs: policies are constants.
  Short commands that load and save without awaiting are one step.
- *Due windows* of jobs: any non-empty set of jobs may be due.  *PID reuse*, `OSError` while stamping,
  and digits of two overlapping pid writes in one file are left out.  `budget_watch` and the feed
  switches write the state file the way the custodian does.  On a Postgres warehouse the custodian
  does not write it at all; `Conductor` is of SQLite.
- *No budget*: a cap of zero turns the guard off.  Compaction of a context changes no control.
- *HTTP gateway*: one event loop over a bounded dictionary, with hardly an await between reading and writing it.
- *Other boards, chat, HTTP views*: queries and rendering.  *Resolution*: scores and aliases.  *Data layer, configuration,
  licensing, orchestrator, evaluation, observability's exporters, entitlement service*: schema, settings, wiring.
- *Racing board's* exchange leg, HTTP server and retention: prices of one more source, views, deletes by age.  More races than
  one chunk of the fast loop, two meetings with one race key, and single runners are left out.
- *Supervisor*: its loop over ticks is `Conductor` with one slot; its back-off waits for processes alone.

## 7. Plan

1. *Done*: betting plane with its budget theorems; conductor; price store; feeds; watches; fantasy plane;
   agents and their budgets, proved; racing board.
2. *Next modules*: the gateway's tasks and conversations; the racing board with two meetings at one track.
3. *Done, theorems*: the betting plane and the price store whole, their refinements included; the safety
   properties of the conductor, the feeds' schedule, the watches, the fantasy plane, the racing board and the agents.
   Also the ledger file against the tally, the agents' rows against their charges, and the rotation of the feeds.
4. *Next theorems*: what a fetcher returns, with filters and sorts that are recursive functions instead of the
   operators of the sequence modules.
