----------------------------- MODULE IngestWorker -----------------------------
(***************************************************************************)
(* The ingestion worker (operations/ingestion/worker.py): which feeds are  *)
(* due, and one cycle over them.                                           *)
(*                                                                         *)
(* Two drivers run it.  The conductor starts `ingest --once --cron 60`     *)
(* every period: a process without memory takes the feeds whose boundary   *)
(* was crossed in the last period, and the job's lock keeps a second one   *)
(* out while it runs.  The live board keeps run_loop going, which remembers *)
(* when each feed is due next.  In a cycle the feeds fetch side by side,   *)
(* behind a semaphore, and write side by side, behind a lock on SQLite;    *)
(* what a feed fetches is Fetchers'.                                       *)
(***************************************************************************)
EXTENDS Fetchers

CONSTANTS
    Feed,
    BaseInterval,   \* Feed.interval_s, in periods of the conductor
    Priority, PriorityInterval,  \* SPORTSDATA_AGENTS_PRIORITY_FEEDS, _INTERVAL_S
    Overrides,      \* SPORTSDATA_AGENTS_FEED_INTERVALS: a function on some feeds
    PaceScope,      \* PACE_SCOPE_MAX_INTERVAL_S
    Setups,         \* who runs the worker on which database, at which floor of the conductor's
                    \* PACE_LADDER (0: none), and which fetcher each feed has
    Slots,          \* INGEST_CONCURRENCY
    EpochLen,       \* ROTATION_EPOCH_S, in periods
    Board,          \* what the books list
    Outages,        \* sets of calls that may fail together
    MaxNow,         \* bound: the clock
    LongestCycle,   \* bound: periods one cycle may take
    MaxFaults       \* bound: fetches with failed calls, writes that fail, kills, ticks not run

ASSUME WorkerAssumption ==
    /\ IsFiniteSet(Feed)
    /\ BaseInterval \in [Feed -> Nat \ {0}]
    \* int() takes a zero too; then the conductor's job divides by it
    /\ DOMAIN Overrides \subseteq Feed /\ Overrides \in [DOMAIN Overrides -> Nat \ {0}]
    /\ Slots \in Nat \ {0} /\ EpochLen \in Nat \ {0} /\ PriorityInterval \in Nat \ {0}
    /\ MaxNow \in Nat /\ MaxFaults \in Nat
    /\ {} \in Outages
    /\ \A s \in Setups :
        /\ s.driver \in {"cron", "loop"} /\ s.backend \in {"sqlite", "postgres"}
        /\ s.pace \in Nat /\ DOMAIN s.fetcher = Feed

VARIABLES
    now, driver, backend, pace,
    fetcher,
    cycle,      \* whether a cycle runs, and when it began
    stage,      \* stage[f]: how far f is in it
    nextDue,    \* run_loop's next_due
    launched,   \* when the conductor last started the job
    lastRun,    \* lastRun[f]: when the last cycle with f began
    lapsed,     \* lapsed[f]: f's boundary passed with no job started, or its run was killed
    got,        \* got[f]: what f fetched and has not handed to the store
    blame,      \* the feeds that failed by themselves in this cycle
    sweep,      \* sweep[f]: the epochs f was fetched in at one stride, and what it saw in them
    faults

config == <<driver, backend, pace, fetcher>>
schedule == <<cycle, nextDue, launched, lastRun, lapsed>>
vars == <<now, config, schedule, stage, got, blame, sweep, faults>>

(***************************************************************************)
(* Cadence                                                                 *)
(***************************************************************************)

Least(a, b) == IF a < b THEN a ELSE b

\* tuned_feeds: the priority tier, and the operator's map over everything.
Tuned(f) ==
    CASE f \in DOMAIN Overrides -> Overrides[f]
      [] f \in Priority \ DOMAIN Overrides -> Least(BaseInterval[f], PriorityInterval)
      [] OTHER -> BaseInterval[f]

\* paced_feeds, which only the conductor's job asks for: floors the fast tiers, and
\* leaves alone what the operator pinned.
Interval(f) ==
    IF pace # 0 /\ driver = "cron" /\ Tuned(f) <= PaceScope /\ f \notin DOMAIN Overrides
    THEN Least(Tuned(f), pace) ELSE Tuned(f)

\* feeds_due_in_window, with a window of one period.
InWindow(f) == now \div Interval(f) # (now - 1) \div Interval(f)
Due == IF driver = "cron" THEN {f \in Feed : InWindow(f)} ELSE {f \in Feed : nextDue[f] <= now}

(***************************************************************************)
(* A cycle                                                                 *)
(***************************************************************************)

Idle == [on |-> FALSE, began |-> 0]
Off == [f \in Feed |-> "off"]
NoFetch == [fetched |-> FALSE, epoch |-> 0, down |-> {}, ids |-> {}]
Nothing == [f \in Feed |-> NoFetch]
InCycle == {f \in Feed : stage[f] # "off"}
Done(f) == stage[f] \in {"off", "recorded", "failed"}

Begin(due) ==
    /\ cycle' = [on |-> TRUE, began |-> now]
    /\ stage' = [f \in Feed |-> IF f \in due THEN "waiting" ELSE "off"]
    /\ lastRun' = [f \in Feed |-> IF f \in due THEN now ELSE lastRun[f]]
    /\ lapsed' = [f \in Feed |-> lapsed[f] /\ f \notin due]

\* The conductor starts the job: at most once in a period, and not beside another.
Launch ==
    /\ driver = "cron" /\ ~cycle.on /\ launched # now
    /\ launched' = now
    /\ IF Due = {} THEN UNCHANGED <<cycle, stage, lastRun, lapsed>> ELSE Begin(Due)
    /\ UNCHANGED <<now, config, nextDue, got, blame, sweep, faults>>

\* One turn of run_loop that finds something due.
Turn ==
    /\ driver = "loop" /\ ~cycle.on /\ Due # {}
    /\ Begin(Due)
    /\ UNCHANGED <<now, config, nextDue, launched, got, blame, sweep, faults>>

StartFetch(f) ==
    /\ stage[f] = "waiting"
    /\ Cardinality({g \in Feed : stage[g] = "fetching"}) < Slots
    /\ stage' = [stage EXCEPT ![f] = "fetching"]
    /\ UNCHANGED <<now, config, schedule, got, blame, sweep, faults>>

Epoch == now \div EpochLen

\* The list that fetcher k rotates over, and the size of its window.
Rotated(k, b) ==
    CASE k \in {"sportsbet_all", "pointsbet_all", "tab_all"} -> <<b, ListCap>>
      [] k \in {"sportsbet_books", "tab_books", "betr_books", "entain_books", "pointsbet_books"} ->
            <<Covered(b), ListCap>>
      [] k = "pinnacle_books" -> <<EventsOf(b), DetailCap>>
      [] k \in {"tab_racing_futures", "pointsbet_racing_futures"} -> <<EventsOf(b), RaceCap>>
      [] k \in {"sportsbet_racing_futures", "unibet_racing_futures"} -> <<Open(EventsOf(b)), RaceCap>>
      [] k = "kalshi_all" -> <<InLane(b, "main"), ListCap>>
      [] k = "dabble_all" -> <<InLane(b, "side"), ListCap>>
      [] k = "betfair_all" -> <<InLane(b, "main"), ListCap>>
      [] OTHER -> <<<<>>, 1>>

\* Fetchers that rotate over the answers of other calls: a call that fails shortens
\* the list, and moves the window.
Shifting == {"tab_all", "tab_books", "pinnacle_books", "entain_books"}

\* What every fetcher sees of its list, and returns, in every epoch.
Kinds == UNION {{s.fetcher[f] : f \in Feed} : s \in Setups}
Epochs == 0..(MaxNow \div EpochLen)
Ids(list) == {list[i].id : i \in DOMAIN list}
Answer == [k \in Kinds |-> [e \in Epochs |-> [down \in Outages |-> Fetched(k, Board, e, down)]]]
Window == [k \in Kinds |-> [e \in Epochs |->
              Ids(Rotating(Rotated(k, Board)[1], Rotated(k, Board)[2], e))]]
List == [k \in Kinds |-> [ids |-> Ids(Rotated(k, Board)[1]), cap |-> Rotated(k, Board)[2]]]

\* No book lists a group or an event twice.
ASSUME BoardAssumption ==
    \A k \in Kinds :
        LET list == Rotated(k, Board)[1]
        IN  /\ list \in Seq({list[i] : i \in DOMAIN list})
            /\ \A i, j \in DOMAIN list : list[i].id = list[j].id => i = j

NoSweep == [epoch |-> -1, stride |-> 0, runs |-> 0, seen |-> {}]
Swept(f, down) ==
    LET s == sweep[f]
    IN  IF fetcher[f] \in Shifting /\ down # {} THEN NoSweep
        ELSE IF s.epoch = -1
        THEN [epoch |-> Epoch, stride |-> 0, runs |-> 1, seen |-> Window[fetcher[f]][Epoch]]
        ELSE IF s.epoch = Epoch THEN s
        ELSE [epoch |-> Epoch, stride |-> Epoch - s.epoch,
              runs |-> IF Epoch - s.epoch = s.stride THEN s.runs + 1 ELSE 2,
              seen |-> Window[fetcher[f]][Epoch] \union
                       (IF Epoch - s.epoch = s.stride THEN s.seen ELSE Window[fetcher[f]][s.epoch])]

\* The in-play capture has no prices to write: its fetch is its whole pass (Feed.run).
OwnsItsPass(f) == fetcher[f] = "inplay_state"

\* A fetch ends, whichever of its calls failed; only one that raises fails the feed.
EndFetch(f) ==
    /\ stage[f] = "fetching"
    /\ \E down \in Outages :
        /\ faults' = faults + (IF down = {} THEN 0 ELSE 1) /\ faults' <= MaxFaults
        /\ IF Raises(fetcher[f], down)
           THEN /\ stage' = [stage EXCEPT ![f] = "failed"]
                /\ blame' = blame \union {f}
                /\ UNCHANGED <<got, sweep>>
           ELSE IF OwnsItsPass(f)
           THEN /\ stage' = [stage EXCEPT ![f] = "recorded"]
                /\ UNCHANGED <<got, blame, sweep>>
           ELSE /\ stage' = [stage EXCEPT ![f] = "fetched"]
                /\ got' = [got EXCEPT ![f] = [fetched |-> TRUE, epoch |-> Epoch, down |-> down,
                                              ids |-> Answer[fetcher[f]][Epoch][down]]]
                /\ sweep' = [sweep EXCEPT ![f] = Swept(f, down)]
                /\ UNCHANGED blame
    /\ UNCHANGED <<now, config, schedule>>

GateHeldByTheFailed == \E g \in Feed : stage[g] \in {"writing", "failed"}   \* mutant
GateHeld == backend = "sqlite" /\ \E g \in Feed : stage[g] = "writing"
StartWrite(f) ==
    /\ stage[f] = "fetched" /\ ~GateHeld
    /\ stage' = [stage EXCEPT ![f] = "writing"]
    /\ got' = [got EXCEPT ![f] = NoFetch]
    /\ UNCHANGED <<now, config, schedule, blame, sweep, faults>>

\* record_points returns or raises.
EndWrite(f) ==
    /\ stage[f] = "writing"
    /\ \/ stage' = [stage EXCEPT ![f] = "recorded"] /\ UNCHANGED <<blame, faults>>
       \/ /\ faults < MaxFaults /\ faults' = faults + 1
          /\ stage' = [stage EXCEPT ![f] = "failed"]
          /\ blame' = blame \union {f}
    /\ UNCHANGED <<now, config, schedule, got, sweep>>

\* gather has waited for the slowest; the next turn counts from where the cycle began.
DueFromTheEnd(f) == now + Interval(f)   \* mutant
DueNext(f) == cycle.began + Interval(f)
EndCycle ==
    /\ cycle.on /\ \A f \in Feed : Done(f)
    /\ nextDue' = IF driver = "loop"
                  THEN [f \in Feed |-> IF f \in InCycle THEN DueNext(f) ELSE nextDue[f]]
                  ELSE nextDue
    /\ cycle' = Idle /\ stage' = Off /\ blame' = {}
    /\ UNCHANGED <<now, config, launched, lastRun, lapsed, got, sweep, faults>>

\* The conductor kills a job past its timeout, or the board's process dies: what was
\* not written is not written, and a new loop finds everything due.
Kill ==
    /\ cycle.on /\ faults < MaxFaults
    /\ faults' = faults + 1
    /\ lapsed' = [f \in Feed |-> lapsed[f] \/ f \in InCycle \/ driver = "loop"]
    /\ nextDue' = [f \in Feed |-> IF driver = "loop" THEN now ELSE nextDue[f]]
    /\ cycle' = Idle /\ stage' = Off /\ got' = Nothing /\ blame' = {}
    /\ UNCHANGED <<now, config, launched, lastRun, sweep>>

\* A period passes.  If the conductor started nothing in it, because a cycle was on
\* or it did not tick, the feeds of that window have lapsed.
Tick ==
    /\ now < MaxNow /\ (cycle.on => now - cycle.began < LongestCycle)
    /\ now' = now + 1
    /\ IF driver = "cron" /\ launched # now
       THEN /\ faults' = faults + (IF cycle.on THEN 0 ELSE 1) /\ faults' <= MaxFaults
            /\ lapsed' = [f \in Feed |-> lapsed[f] \/ f \in Due]
       ELSE UNCHANGED <<faults, lapsed>>
    /\ UNCHANGED <<config, cycle, nextDue, launched, lastRun, stage, got, blame, sweep>>

(***************************************************************************)
(* Specification                                                           *)
(***************************************************************************)

Init ==
    /\ now = 0
    /\ \E s \in Setups : driver = s.driver /\ backend = s.backend /\ pace = s.pace
                        /\ fetcher = s.fetcher
    /\ cycle = Idle /\ stage = Off
    /\ nextDue = [f \in Feed |-> 0] /\ launched = -1
    /\ lastRun = [f \in Feed |-> -Interval(f)] /\ lapsed = [f \in Feed |-> FALSE]
    /\ got = Nothing /\ blame = {} /\ sweep = [f \in Feed |-> NoSweep]
    /\ faults = 0

Work(f) == StartFetch(f) \/ EndFetch(f) \/ StartWrite(f) \/ EndWrite(f)
Next == Launch \/ Turn \/ (\E f \in Feed : Work(f)) \/ EndCycle \/ Kill \/ Tick
Spec == Init /\ [][Next]_vars

\* Every call of the MCP manager ends, by a timeout if nothing else, and so does every
\* transaction; asyncio runs what can run.
FairSpec == Spec /\ WF_vars(EndCycle) /\ \A f \in Feed : WF_vars(Work(f))

(***************************************************************************)
(* Properties                                                              *)
(***************************************************************************)

Stages == {"off", "waiting", "fetching", "fetched", "writing", "recorded", "failed"}

TypeOK ==
    /\ now \in 0..MaxNow /\ faults \in 0..MaxFaults
    /\ cycle \in [on : BOOLEAN, began : 0..MaxNow]
    /\ stage \in [Feed -> Stages] /\ (InCycle # {} <=> cycle.on)
    /\ lapsed \in [Feed -> BOOLEAN] /\ blame \subseteq Feed
    /\ launched \in -1..MaxNow
    /\ ~cycle.on => got = Nothing /\ blame = {}
    /\ \A f \in Feed : nextDue[f] \in 0..(MaxNow + Interval(f))

\* Each feed runs at its own interval, whichever driver runs it, however long the
\* cycles in between take and whatever fails in them: a cycle takes in exactly the
\* feeds whose interval has passed since they were last taken in, but for those whose
\* window the conductor let pass or whose run was killed.  The proximity floor "only
\* ever SPEEDS a feed up", and not one that is pinned: no feed is taken in before its
\* pinned interval is over.
OnSchedule ==
    [][\A f \in Feed : ~lapsed[f] =>
        /\ ~cycle.on /\ cycle'.on =>
               (stage'[f] = "waiting" <=> now - lastRun[f] >= Interval(f))
        /\ f \in DOMAIN Overrides /\ stage[f] = "off" /\ stage'[f] = "waiting" =>
               now - lastRun[f] >= Overrides[f]]_vars

LostWith(x, down) ==
    \E i \in DOMAIN Board : \E j \in DOMAIN Board[i].events :
        /\ Board[i].events[j].id = x
        /\ down \intersect {x, Board[i].id} # {}

\* "One feed failing logs and counts - it never takes the loop or its siblings down", and
\* "One call failing must not sink the batch": a feed is reported as failed only for a call
\* or a write of its own, and of what a fetch would have returned it loses what was asked
\* for by the calls that failed and nothing else.  What shares a call goes together, a walk
\* ends at a page that fails, and where the list that rotates is made of answers its window
\* moves.
FailuresStayLocal ==
    /\ TypeOK
    /\ \A f \in Feed : stage[f] = "failed" => f \in blame
    /\ \A f \in Feed : got[f].fetched =>
        LET k == fetcher[f] IN
        \/ k \in Shifting
        \/ SecondCall \in got[f].down \/ Highlights \in got[f].down \/ Discovery \in got[f].down
        \/ \A x \in Answer[k][got[f].epoch][{}] \ got[f].ids : LostWith(x, got[f].down)

\* "A global soonest-N window let one sport's fixture pile-up starve every other":
\* the fetchers that share out serve every sport alike, and Dabble's racing leaves
\* ball sports their whole budget.
Alike(f, events) ==
    LET sports == {events[i].sport : i \in DOMAIN events}
        Of(s) == {events[i].id : i \in {j \in DOMAIN events : events[j].sport = s}}
    IN  \A s, t \in sports :
            Cardinality(got[f].ids \intersect Of(s)) + 1 < Cardinality(got[f].ids \intersect Of(t))
                => Of(s) \subseteq got[f].ids
NoSportStarves ==
    \A f \in Feed : got[f].fetched /\ got[f].down = {} =>
        CASE fetcher[f] = "pinnacle_all" -> Alike(f, Open(EventsOf(Board)))
          [] fetcher[f] = "unibet_books" -> Alike(f, EventsOf(Covered(Board)))
          [] fetcher[f] = "entain_books" ->
                Alike(f, Open(EventsOf(Rotating(Covered(Board), ListCap, got[f].epoch))))
          [] fetcher[f] = "dabble_all" ->
                LET sport == Open(EventsOf(Covered(InLane(Board, "main"))))
                    served == {sport[i].id : i \in DOMAIN sport} \intersect got[f].ids
                IN  Cardinality(served) = Least(DetailCap, Len(sport))
          [] OTHER -> TRUE

\* "The whole Board gets covered across cycles": how far that is true.  A feed fetched
\* at a steady stride, in epochs, comes round to everything on its list if and only if
\* the greatest divisor its stride of windows and the list have in common fits in a
\* window; if not it sees the same part for ever.
Divisor(a, n) == CHOOSE d \in 1..n : /\ a % d = 0 /\ n % d = 0
                                     /\ \A e \in 1..n : a % e = 0 /\ n % e = 0 => e <= d
ComesRound(f) ==
    LET list == List[fetcher[f]]
        len  == Cardinality(list.ids)
        d    == Divisor(sweep[f].stride * list.cap, len)
    IN  sweep[f].stride > 0 /\ len > list.cap /\ sweep[f].runs * d >= len =>
            (sweep[f].seen = list.ids <=> d <= list.cap)
RotationComesRound == \A f \in Feed : ComesRound(f)

\* No cycle waits for ever behind the semaphore, the write gate or a feed that failed.
CyclesEnd == cycle.on ~> ~cycle.on
=============================================================================
