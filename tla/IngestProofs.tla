----------------------------- MODULE IngestProofs -----------------------------
(***************************************************************************)
(* Theorems about IngestWorker for any feeds, intervals, overrides and     *)
(* floor, whichever driver runs it: its types, and that every feed runs on *)
(* its own schedule; and, for any lists, windows and strides, when a       *)
(* rotation comes round.                                                   *)
(***************************************************************************)
EXTENDS IngestWorker, FiniteSetTheorems, WellFoundedInduction, TLAPS

(***************************************************************************)
(* The invariants                                                          *)
(***************************************************************************)

\* What is fetched is held by a feed that waits to write it.
Held ==
    /\ driver \in {"cron", "loop"} /\ pace \in Nat /\ launched <= now
    /\ lastRun \in [Feed -> Int] /\ nextDue \in [Feed -> Int]
    /\ got = [f \in Feed |-> got[f]]
    /\ \A f \in Feed : got[f] # NoFetch => stage[f] = "fetched"

\* The conductor's job remembers nothing, yet a feed that missed no window was last taken
\* in at the last boundary of its interval that the job has seen.
SeenUntil == IF launched = now THEN now ELSE now - 1
OnBoundary(f) == lastRun[f] = (SeenUntil \div Interval(f)) * Interval(f)

\* The loop remembers when a feed is due, except for the feeds of the cycle under way.
Remembered(f) ==
    IF stage[f] = "off" THEN nextDue[f] = lastRun[f] + Interval(f) ELSE lastRun[f] = cycle.began

CadenceInv == \A f \in Feed : ~lapsed[f] => IF driver = "cron" THEN OnBoundary(f) ELSE Remembered(f)
IInv == TypeOK /\ Held /\ CadenceInv

(***************************************************************************)
(* Intervals                                                               *)
(***************************************************************************)

LEMMA IntervalTyped ==
    ASSUME Held, NEW f \in Feed
    PROVE  Interval(f) \in Nat /\ Interval(f) > 0
<1>1. Tuned(f) \in Nat /\ Tuned(f) > 0
  BY WorkerAssumption DEF Tuned, Least
<1>2. pace \in Nat
  BY DEF Held
<1> QED BY <1>1, <1>2 DEF Interval, Least

\* paced_feeds leaves alone what the operator pinned, and tuned_feeds gives him the last word.
LEMMA PinnedStays ==
    ASSUME NEW f \in DOMAIN Overrides
    PROVE  Interval(f) = Overrides[f]
<1>1. Tuned(f) = Overrides[f]
  BY DEF Tuned
<1> QED BY <1>1 DEF Interval

LEMMA Quotient ==
    ASSUME NEW t \in Int, NEW n \in Nat, n > 0
    PROVE  /\ t \div n \in Int /\ (t \div n) * n \in Int
           /\ (t \div n) * n <= t /\ t < (t \div n) * n + n
  OBVIOUS

\* A period that crosses a boundary ends on it, a whole interval after the last one
\* (feeds_due_in_window).
LEMMA Crossing ==
    ASSUME NEW t \in Int, NEW n \in Nat, n > 0
    PROVE  /\ t \div n # (t - 1) \div n <=> t - ((t - 1) \div n) * n >= n
           /\ t \div n # (t - 1) \div n => (t \div n) * n = t
<1> DEFINE q == t \div n
           r == (t - 1) \div n
<1>1. q \in Int /\ q * n \in Int /\ q * n <= t /\ t < q * n + n
  BY Quotient
<1>2. r \in Int /\ r * n \in Int /\ r * n <= t - 1 /\ t - 1 < r * n + n
  BY Quotient, t - 1 \in Int
<1> HIDE DEF q, r
<1>3. r <= q
  <2>1. SUFFICES ASSUME q + 1 <= r PROVE FALSE
    BY <1>1, <1>2
  <2>2. (q + 1) * n <= r * n
    BY <1>1, <1>2, <2>1
  <2>3. (q + 1) * n = q * n + n
    BY <1>1
  <2> QED BY <1>1, <1>2, <2>2, <2>3
<1>4. ASSUME q # r PROVE q * n = t /\ t - r * n >= n
  <2>1. r + 1 <= q
    BY <1>1, <1>2, <1>3, <1>4
  <2>2. (r + 1) * n <= q * n
    BY <1>1, <1>2, <2>1
  <2>3. (r + 1) * n = r * n + n
    BY <1>2
  <2> QED BY <1>1, <1>2, <2>2, <2>3
<1>5. ASSUME q = r PROVE t - r * n < n
  BY <1>1, <1>5
<1> QED BY <1>1, <1>2, <1>4, <1>5 DEF q, r

(***************************************************************************)
(* What a step leaves alone                                                *)
(***************************************************************************)

LEMMA SameInterval ==
    ASSUME UNCHANGED config, NEW f PROVE Interval(f)' = Interval(f)
  BY DEF config, Interval, Tuned, Least

\* A feed at work stays in its cycle, and moves no schedule.
LEMMA WorkStays ==
    ASSUME TypeOK, Held, NEW f \in Feed, Work(f)
    PROVE  /\ UNCHANGED <<now, config, schedule>>
           /\ stage' \in [Feed -> Stages] /\ blame' \subseteq Feed /\ faults' \in 0..MaxFaults
           /\ \A g \in Feed : stage'[g] = "off" <=> stage[g] = "off"
           /\ \A g \in Feed : stage'[g] = "waiting" => stage[g] = "waiting"
           /\ got' = [g \in Feed |-> got'[g]]
           /\ \A g \in Feed : got'[g] # NoFetch => stage'[g] = "fetched"
           /\ \E g \in Feed : stage[g] # "off"
<1>1. stage \in [Feed -> Stages] /\ blame \subseteq Feed /\ faults \in 0..MaxFaults /\ MaxFaults \in Nat
  BY WorkerAssumption DEF TypeOK
<1>2. got = [g \in Feed |-> got[g]] /\ \A g \in Feed : got[g] # NoFetch => stage[g] = "fetched"
  BY DEF Held
<1>3. CASE StartFetch(f)
  BY <1>1, <1>2, <1>3 DEF StartFetch, Stages
<1>4. CASE EndFetch(f)
  <2>1. PICK down \in Outages :
            /\ faults' = faults + (IF down = {} THEN 0 ELSE 1) /\ faults' <= MaxFaults
            /\ \/ /\ stage' = [stage EXCEPT ![f] = "failed"]
                  /\ blame' = blame \union {f} /\ got' = got
               \/ /\ stage' = [stage EXCEPT ![f] = "recorded"]
                  /\ blame' = blame /\ got' = got
               \/ /\ stage' = [stage EXCEPT ![f] = "fetched"]
                  /\ got' = [got EXCEPT ![f] = [fetched |-> TRUE, epoch |-> Epoch, down |-> down,
                                                ids |-> Answer[fetcher[f]][Epoch][down]]]
                  /\ blame' = blame
    BY <1>4 DEF EndFetch
  <2>2. stage[f] = "fetching" /\ UNCHANGED <<now, config, schedule>>
    BY <1>4 DEF EndFetch
  <2>3. faults' \in 0..MaxFaults
    <3> DEFINE m == IF down = {} THEN 0 ELSE 1
    <3>1. m \in {0, 1}
      OBVIOUS
    <3>2. faults' = faults + m /\ faults' <= MaxFaults
      BY <2>1
    <3> HIDE DEF m
    <3> QED BY <1>1, <3>1, <3>2
  <2> QED BY <1>1, <1>2, <2>1, <2>2, <2>3 DEF Stages
<1>5. CASE StartWrite(f)
  BY <1>1, <1>2, <1>5 DEF StartWrite, Stages
<1>6. CASE EndWrite(f)
  <2>1. stage[f] = "writing" /\ UNCHANGED <<now, config, schedule, got>>
    BY <1>6 DEF EndWrite
  <2>2. \/ stage' = [stage EXCEPT ![f] = "recorded"] /\ blame' = blame /\ faults' = faults
        \/ /\ faults < MaxFaults /\ faults' = faults + 1
           /\ stage' = [stage EXCEPT ![f] = "failed"] /\ blame' = blame \union {f}
    BY <1>6 DEF EndWrite
  <2> QED BY <1>1, <1>2, <2>1, <2>2 DEF Stages
<1> QED BY <1>3, <1>4, <1>5, <1>6 DEF Work

(***************************************************************************)
(* Types                                                                   *)
(***************************************************************************)

LEMMA WorkTyped ==
    ASSUME TypeOK, Held, NEW f \in Feed, Work(f)
    PROVE  TypeOK' /\ Held'
<1>1. UNCHANGED <<now, driver, pace, cycle, nextDue, launched, lastRun, lapsed>> /\ UNCHANGED config
  BY WorkStays DEF config, schedule
<1>2. stage' \in [Feed -> Stages] /\ blame' \subseteq Feed /\ faults' \in 0..MaxFaults
      /\ got' = [g \in Feed |-> got'[g]] /\ \A g \in Feed : got'[g] # NoFetch => stage'[g] = "fetched"
  BY WorkStays
<1>3. InCycle' # {} /\ InCycle # {}
  BY WorkStays DEF InCycle
<1>4. cycle.on
  BY <1>3 DEF TypeOK
<1>5. TypeOK'
  BY <1>1, <1>2, <1>3, <1>4, SameInterval DEF TypeOK
<1> QED BY <1>1, <1>2, <1>5 DEF Held

\* A cycle takes in what is due, and nothing else changes hands.
LEMMA BeginTyped ==
    ASSUME TypeOK, Held, ~cycle.on, Due # {}, Begin(Due), launched' \in {launched, now},
           UNCHANGED <<now, config, nextDue, got, blame, sweep, faults>>
    PROVE  TypeOK' /\ Held'
<1>1. UNCHANGED <<now, driver, pace, nextDue, got, blame, faults>> /\ UNCHANGED config
  BY DEF config
<1>2. cycle' = [on |-> TRUE, began |-> now] /\ now \in 0..MaxNow /\ now \in Int
  BY WorkerAssumption DEF Begin, TypeOK
<1>3. stage' = [f \in Feed |-> IF f \in Due THEN "waiting" ELSE "off"]
      /\ lastRun' = [f \in Feed |-> IF f \in Due THEN now ELSE lastRun[f]]
      /\ lapsed' = [f \in Feed |-> lapsed[f] /\ f \notin Due]
  BY DEF Begin
<1>4. Due \subseteq Feed
  BY DEF Due
<1>5. InCycle' # {}
  BY <1>3, <1>4 DEF InCycle
<1>6. got = Nothing /\ blame = {} /\ \A f \in Feed : got[f] = NoFetch
  BY DEF TypeOK, Nothing
<1>7. launched' \in -1..MaxNow /\ launched' <= now
  BY <1>2 DEF TypeOK, Held
<1>8. TypeOK'
  BY <1>1, <1>2, <1>3, <1>5, <1>6, <1>7, SameInterval DEF TypeOK, Stages
<1>9. lastRun' \in [Feed -> Int]
  BY <1>2, <1>3 DEF Held
<1> QED BY <1>1, <1>3, <1>6, <1>7, <1>8, <1>9 DEF Held

LEMMA LaunchTyped ==
    ASSUME TypeOK, Held, Launch PROVE TypeOK' /\ Held'
<1>1. CASE Due = {}
  <2>1. UNCHANGED <<now, config, cycle, stage, lastRun, lapsed, nextDue, got, blame, faults>>
        /\ launched' = now
    BY <1>1 DEF Launch
  <2>2. UNCHANGED <<driver, pace>> /\ InCycle' = InCycle
    BY <2>1 DEF config, InCycle
  <2>3. now \in 0..MaxNow /\ launched' \in -1..MaxNow /\ launched' <= now
    BY <2>1, WorkerAssumption DEF TypeOK
  <2>4. TypeOK'
    BY <2>1, <2>2, <2>3, SameInterval DEF TypeOK
  <2> QED BY <2>1, <2>2, <2>3, <2>4 DEF Held
<1>2. CASE Due # {}
  BY <1>2, BeginTyped DEF Launch
<1> QED BY <1>1, <1>2

LEMMA TurnTyped ==
    ASSUME TypeOK, Held, Turn PROVE TypeOK' /\ Held'
  BY BeginTyped DEF Turn

LEMMA EndCycleTyped ==
    ASSUME TypeOK, Held, EndCycle PROVE TypeOK' /\ Held'
<1>1. UNCHANGED <<now, driver, pace, launched, lastRun, lapsed, got, faults>> /\ UNCHANGED config
      /\ cycle' = Idle /\ stage' = Off /\ blame' = {} /\ cycle.on
  BY DEF EndCycle, config
<1>2. \A f \in Feed : nextDue'[f] \in {nextDue[f], DueNext(f)}
  BY DEF EndCycle, Held
<1>3. ASSUME NEW f \in Feed PROVE nextDue'[f] \in 0..(MaxNow + Interval(f))
  <2>1. Interval(f) \in Nat /\ cycle.began \in 0..MaxNow /\ nextDue[f] \in 0..(MaxNow + Interval(f))
    BY IntervalTyped DEF TypeOK
  <2> QED BY <1>2, <2>1, WorkerAssumption DEF DueNext
<1>4. nextDue' \in [Feed -> Int]
  <2>1. \A f \in Feed : DueNext(f) \in Int
    BY IntervalTyped, WorkerAssumption DEF DueNext, TypeOK
  <2> QED BY <2>1 DEF EndCycle, Held
<1>5. InCycle' = {} /\ cycle' \in [on : BOOLEAN, began : 0..MaxNow] /\ ~cycle'.on
  BY <1>1, WorkerAssumption DEF InCycle, Off, Idle
<1>6. got = Nothing /\ \A f \in Feed : got[f] = NoFetch
  <2>1. ASSUME NEW f \in Feed PROVE got[f] = NoFetch
    BY DEF EndCycle, Done, Held
  <2> QED BY <2>1 DEF Held, Nothing
<1>7. stage' \in [Feed -> Stages]
  BY <1>1 DEF Off, Stages
<1>8. TypeOK'
  BY <1>1, <1>3, <1>5, <1>6, <1>7, SameInterval DEF TypeOK
<1> QED BY <1>1, <1>4, <1>6, <1>8 DEF Held

LEMMA KillTyped ==
    ASSUME TypeOK, Held, Kill PROVE TypeOK' /\ Held'
<1>1. UNCHANGED <<now, driver, pace, launched, lastRun>> /\ UNCHANGED config
      /\ cycle' = Idle /\ stage' = Off /\ got' = Nothing /\ blame' = {}
      /\ faults < MaxFaults /\ faults' = faults + 1
      /\ lapsed' = [f \in Feed |-> lapsed[f] \/ f \in InCycle \/ driver = "loop"]
      /\ nextDue' = [f \in Feed |-> IF driver = "loop" THEN now ELSE nextDue[f]]
  BY DEF Kill, config
<1>2. now \in 0..MaxNow /\ faults \in 0..MaxFaults
  BY DEF TypeOK
<1>3. ASSUME NEW f \in Feed PROVE nextDue'[f] \in 0..(MaxNow + Interval(f))
  <2>1. Interval(f) \in Nat /\ nextDue[f] \in 0..(MaxNow + Interval(f))
    BY IntervalTyped DEF TypeOK
  <2> QED BY <1>1, <1>2, <2>1, WorkerAssumption
<1>4. nextDue' \in [Feed -> Int]
  BY <1>1, <1>2, WorkerAssumption DEF Held
<1>5. InCycle' = {} /\ cycle' \in [on : BOOLEAN, began : 0..MaxNow] /\ ~cycle'.on
  BY <1>1, WorkerAssumption DEF InCycle, Off, Idle
<1>6. stage' \in [Feed -> Stages] /\ got' = [f \in Feed |-> got'[f]] /\ \A f \in Feed : got'[f] = NoFetch
  BY <1>1 DEF Off, Stages, Nothing
<1>7. faults' \in 0..MaxFaults
  BY <1>1, <1>2, WorkerAssumption
<1>8. TypeOK'
  BY <1>1, <1>3, <1>5, <1>6, <1>7, SameInterval DEF TypeOK
<1> QED BY <1>1, <1>4, <1>6, <1>8 DEF Held

LEMMA TickTyped ==
    ASSUME TypeOK, Held, Tick PROVE TypeOK' /\ Held'
<1>1. now < MaxNow /\ now' = now + 1 /\ UNCHANGED config
      /\ UNCHANGED <<driver, pace, cycle, nextDue, launched, lastRun, stage, got, blame>>
  BY DEF Tick, config
<1>2. faults' \in 0..MaxFaults
  <2>1. faults \in 0..MaxFaults /\ MaxFaults \in Nat
    BY WorkerAssumption DEF TypeOK
  <2>2. faults' = faults \/ (faults' = faults + 1 /\ faults' <= MaxFaults)
    BY <2>1 DEF Tick
  <2> QED BY <2>1, <2>2
<1>3. lapsed' \in [Feed -> BOOLEAN]
  BY DEF Tick, TypeOK
<1>4. now' \in 0..MaxNow /\ launched <= now'
  BY <1>1, WorkerAssumption DEF TypeOK, Held
<1>5. InCycle' = InCycle
  BY <1>1 DEF InCycle
<1>6. TypeOK'
  BY <1>1, <1>2, <1>3, <1>4, <1>5, SameInterval DEF TypeOK
<1> QED BY <1>1, <1>4, <1>6 DEF Held

LEMMA NextTyped ==
    ASSUME TypeOK, Held, [Next]_vars PROVE TypeOK' /\ Held'
<1>1. CASE UNCHANGED vars
  <2>1. UNCHANGED <<now, driver, pace, cycle, nextDue, launched, lastRun, lapsed, stage, got, blame, faults>>
        /\ UNCHANGED config
    BY <1>1 DEF vars, config, schedule
  <2>2. InCycle' = InCycle
    BY <2>1 DEF InCycle
  <2>3. TypeOK'
    BY <2>1, <2>2, SameInterval DEF TypeOK
  <2> QED BY <2>1, <2>3 DEF Held
<1> QED BY <1>1, LaunchTyped, TurnTyped, WorkTyped, EndCycleTyped, KillTyped, TickTyped DEF Next

LEMMA InitTyped == Init => TypeOK /\ Held
<1> SUFFICES ASSUME Init PROVE TypeOK /\ Held
  OBVIOUS
<1>1. driver \in {"cron", "loop"} /\ pace \in Nat
  BY WorkerAssumption DEF Init
<1>2. \A f \in Feed : Interval(f) \in Nat /\ Interval(f) > 0
  <2>1. \A f \in Feed : Tuned(f) \in Nat /\ Tuned(f) > 0
    BY WorkerAssumption DEF Tuned, Least
  <2> QED BY <1>1, <2>1 DEF Interval, Least
<1>3. now = 0 /\ faults = 0 /\ launched = -1 /\ blame = {} /\ got = Nothing /\ cycle = Idle /\ stage = Off
      /\ lastRun = [f \in Feed |-> -Interval(f)] /\ nextDue = [f \in Feed |-> 0]
      /\ lapsed = [f \in Feed |-> FALSE]
  BY DEF Init
<1>4. InCycle = {} /\ ~cycle.on /\ cycle \in [on : BOOLEAN, began : 0..MaxNow]
  BY <1>3, WorkerAssumption DEF InCycle, Off, Idle
<1>5. stage \in [Feed -> Stages]
  BY <1>3 DEF Off, Stages
<1>6. TypeOK
  BY <1>2, <1>3, <1>4, <1>5, WorkerAssumption DEF TypeOK
<1>7. got = [f \in Feed |-> got[f]] /\ \A f \in Feed : got[f] = NoFetch
  BY <1>3 DEF Nothing
<1> QED BY <1>1, <1>2, <1>3, <1>6, <1>7 DEF Held

\* Every reachable state is well typed: a cycle is on exactly while a feed is in it, and what
\* was fetched or blamed does not outlive it (worker.py, ingest_once).
THEOREM TypeCorrect == Spec => []TypeOK
<1> DEFINE Inv == TypeOK /\ Held
<1>1. Init => Inv
  BY InitTyped
<1>2. Inv /\ [Next]_vars => Inv'
  BY NextTyped
<1> HIDE DEF Inv
<1>3. Inv => TypeOK
  BY DEF Inv
<1> QED BY <1>1, <1>2, <1>3, PTL DEF Spec

(***************************************************************************)
(* The schedule                                                            *)
(***************************************************************************)

\* Who is due is who has gone a whole interval since it was last taken in.
LEMMA DueIsOverdue ==
    ASSUME IInv, ~cycle.on, launched # now \/ driver = "loop", NEW f \in Feed, ~lapsed[f]
    PROVE  f \in Due <=> now - lastRun[f] >= Interval(f)
<1>1. Interval(f) \in Nat /\ Interval(f) > 0 /\ now \in Int /\ lastRun[f] \in Int /\ nextDue[f] \in Int
  BY IntervalTyped, WorkerAssumption DEF IInv, TypeOK, Held
<1>2. CASE driver = "cron"
  <2>1. lastRun[f] = ((now - 1) \div Interval(f)) * Interval(f)
    BY <1>2 DEF IInv, CadenceInv, OnBoundary, SeenUntil
  <2>2. f \in Due <=> now \div Interval(f) # (now - 1) \div Interval(f)
    BY <1>2 DEF Due, InWindow
  <2> QED BY <1>1, <2>1, <2>2, Crossing
<1>3. CASE driver = "loop"
  <2>1. stage[f] = "off"
    BY DEF IInv, TypeOK, InCycle
  <2>2. nextDue[f] = lastRun[f] + Interval(f)
    BY <1>3, <2>1 DEF IInv, CadenceInv, Remembered
  <2>3. f \in Due <=> nextDue[f] <= now
    BY <1>3 DEF Due
  <2> QED BY <1>1, <2>2, <2>3
<1> QED BY <1>2, <1>3 DEF IInv, Held

LEMMA WorkOnTime ==
    ASSUME IInv, NEW f \in Feed, Work(f) PROVE CadenceInv'
<1>1. UNCHANGED <<now, driver, cycle, nextDue, launched, lastRun, lapsed>> /\ UNCHANGED config
      /\ \A g \in Feed : stage'[g] = "off" <=> stage[g] = "off"
  BY WorkStays DEF IInv, config, schedule
<1>2. \A g : Interval(g)' = Interval(g)
  BY <1>1, SameInterval
<1>3. \A g \in Feed : (OnBoundary(g) => OnBoundary(g)') /\ (Remembered(g) => Remembered(g)')
  BY <1>1, <1>2 DEF OnBoundary, SeenUntil, Remembered
<1> QED BY <1>1, <1>3 DEF IInv, CadenceInv

\* The job has now seen the window that ends here: what it crossed it takes in, and for
\* the others the last boundary stays the last.
LEMMA LaunchOnTime ==
    ASSUME IInv, Launch PROVE CadenceInv'
<1>1. driver = "cron" /\ driver' = driver /\ ~cycle.on /\ launched # now /\ launched' = now /\ now' = now
      /\ UNCHANGED config
  BY DEF Launch, config
<1>2. SUFFICES ASSUME NEW f \in Feed, ~lapsed'[f] PROVE OnBoundary(f)'
  BY <1>1 DEF CadenceInv
<1>3. Interval(f)' = Interval(f) /\ Interval(f) \in Nat /\ Interval(f) > 0 /\ now \in Int
  BY <1>1, SameInterval, IntervalTyped, WorkerAssumption DEF IInv, TypeOK
<1>4. SeenUntil' = now
  BY <1>1 DEF SeenUntil
<1>5. f \in Due <=> now \div Interval(f) # (now - 1) \div Interval(f)
  BY <1>1 DEF Due, InWindow
<1>6. CASE f \in Due
  <2>1. lastRun'[f] = now
    BY <1>6 DEF Launch, Begin
  <2>2. (now \div Interval(f)) * Interval(f) = now
    BY <1>3, <1>5, <1>6, Crossing
  <2> QED BY <1>3, <1>4, <2>1, <2>2 DEF OnBoundary
<1>7. CASE f \notin Due
  <2>1. lastRun'[f] = lastRun[f] /\ ~lapsed[f]
    BY <1>2, <1>7 DEF Launch, Begin
  <2>2. lastRun[f] = ((now - 1) \div Interval(f)) * Interval(f)
    BY <1>1, <2>1 DEF IInv, CadenceInv, OnBoundary, SeenUntil
  <2>3. (now - 1) \div Interval(f) = now \div Interval(f)
    BY <1>5, <1>7
  <2> QED BY <1>3, <1>4, <2>1, <2>2, <2>3 DEF OnBoundary
<1> QED BY <1>6, <1>7

LEMMA TurnOnTime ==
    ASSUME IInv, Turn PROVE CadenceInv'
<1>1. driver = "loop" /\ driver' = driver /\ ~cycle.on /\ UNCHANGED <<config, nextDue>>
      /\ cycle' = [on |-> TRUE, began |-> now]
      /\ stage' = [f \in Feed |-> IF f \in Due THEN "waiting" ELSE "off"]
      /\ lastRun' = [f \in Feed |-> IF f \in Due THEN now ELSE lastRun[f]]
      /\ lapsed' = [f \in Feed |-> lapsed[f] /\ f \notin Due]
  BY DEF Turn, Begin, config
<1>2. SUFFICES ASSUME NEW f \in Feed, ~lapsed'[f] PROVE Remembered(f)'
  BY <1>1 DEF CadenceInv
<1>3. CASE f \in Due
  BY <1>1, <1>3 DEF Remembered
<1>4. CASE f \notin Due
  <2>1. stage[f] = "off"
    BY <1>1 DEF IInv, TypeOK, InCycle
  <2>2. nextDue[f] = lastRun[f] + Interval(f)
    BY <1>1, <1>2, <1>4, <2>1 DEF IInv, CadenceInv, Remembered
  <2> QED BY <1>1, <1>4, <2>2, SameInterval DEF Remembered
<1> QED BY <1>3, <1>4

LEMMA EndCycleOnTime ==
    ASSUME IInv, EndCycle PROVE CadenceInv'
<1>1. UNCHANGED <<now, driver, launched, lastRun, lapsed>> /\ UNCHANGED config /\ stage' = Off
  BY DEF EndCycle, config
<1>2. \A f : Interval(f)' = Interval(f)
  BY <1>1, SameInterval
<1>3. CASE driver = "cron"
  BY <1>1, <1>2, <1>3 DEF IInv, CadenceInv, OnBoundary, SeenUntil
<1>4. CASE driver = "loop"
  <2>1. SUFFICES ASSUME NEW f \in Feed, ~lapsed[f] PROVE nextDue'[f] = lastRun[f] + Interval(f)
    BY <1>1, <1>2, <1>4 DEF CadenceInv, Remembered, Off
  <2>2. Remembered(f)
    BY <1>4, <2>1 DEF IInv, CadenceInv
  <2>3. nextDue'[f] = IF stage[f] # "off" THEN DueNext(f) ELSE nextDue[f]
    BY <1>4 DEF EndCycle, InCycle
  <2> QED BY <2>2, <2>3 DEF Remembered, DueNext
<1> QED BY <1>3, <1>4 DEF IInv, Held

LEMMA KillOnTime ==
    ASSUME IInv, Kill PROVE CadenceInv'
<1>1. UNCHANGED <<now, driver, launched, lastRun>> /\ UNCHANGED config
      /\ \A f \in Feed : ~lapsed'[f] => ~lapsed[f] /\ driver # "loop"
  BY DEF Kill, config
<1>2. \A f : Interval(f)' = Interval(f)
  BY <1>1, SameInterval
<1>3. \A f \in Feed : OnBoundary(f) => OnBoundary(f)'
  BY <1>1, <1>2 DEF OnBoundary, SeenUntil
<1> QED BY <1>1, <1>3 DEF IInv, Held, CadenceInv

\* A window nobody looked at lapses for the feeds it was a boundary of.
LEMMA TickOnTime ==
    ASSUME IInv, Tick PROVE CadenceInv'
<1>1. now' = now + 1 /\ UNCHANGED config /\ now \in Int /\ launched <= now /\ launched \in Int
      /\ UNCHANGED <<driver, cycle, nextDue, launched, lastRun, stage>>
  BY WorkerAssumption DEF Tick, config, IInv, TypeOK, Held
<1>2. \A f : Interval(f)' = Interval(f)
  BY <1>1, SameInterval
<1>3. CASE driver = "loop"
  <2>1. lapsed' = lapsed
    BY <1>3 DEF Tick
  <2> QED BY <1>1, <1>2, <1>3, <2>1 DEF IInv, CadenceInv, Remembered
<1>4. CASE driver = "cron"
  <2>1. SUFFICES ASSUME NEW f \in Feed, ~lapsed'[f] PROVE OnBoundary(f)'
    BY <1>1, <1>4 DEF CadenceInv
  <2>2. SeenUntil' = now
    BY <1>1 DEF SeenUntil
  <2>3. ~lapsed[f] /\ (launched # now => f \notin Due)
    BY <1>4, <2>1 DEF Tick, IInv, TypeOK
  <2>4. lastRun[f] = (SeenUntil \div Interval(f)) * Interval(f)
    BY <1>4, <2>3 DEF IInv, CadenceInv, OnBoundary
  <2>5. SeenUntil \div Interval(f) = now \div Interval(f)
    <3>1. CASE launched = now
      BY <3>1 DEF SeenUntil
    <3>2. CASE launched # now
      BY <1>4, <2>3, <3>2 DEF SeenUntil, Due, InWindow
    <3> QED BY <3>1, <3>2
  <2> QED BY <1>1, <1>2, <2>2, <2>4, <2>5 DEF OnBoundary
<1> QED BY <1>3, <1>4 DEF IInv, Held

LEMMA NextOnTime ==
    ASSUME IInv, [Next]_vars PROVE IInv'
<1>1. TypeOK' /\ Held'
  BY NextTyped DEF IInv
<1>2. CASE UNCHANGED vars
  <2>1. UNCHANGED <<now, driver, cycle, nextDue, launched, lastRun, lapsed, stage>> /\ UNCHANGED config
    BY <1>2 DEF vars, config, schedule
  <2> QED BY <1>1, <2>1, SameInterval DEF IInv, CadenceInv, OnBoundary, SeenUntil, Remembered
<1>3. CASE Next
  <2>1. CadenceInv'
    BY <1>3, LaunchOnTime, TurnOnTime, WorkOnTime, EndCycleOnTime, KillOnTime, TickOnTime DEF Next
  <2> QED BY <1>1, <2>1 DEF IInv
<1> QED BY <1>2, <1>3

\* Before the first period the last boundary was an interval ago.
LEMMA InitOnTime == Init => IInv
<1> SUFFICES ASSUME Init PROVE IInv
  OBVIOUS
<1>1. TypeOK /\ Held
  BY InitTyped
<1>2. ASSUME NEW f \in Feed PROVE OnBoundary(f) /\ Remembered(f)
  <2>1. Interval(f) \in Nat /\ Interval(f) > 0
    BY <1>1, IntervalTyped
  <2>2. lastRun[f] = -Interval(f) /\ nextDue[f] = 0 /\ stage[f] = "off" /\ SeenUntil = -1
    BY DEF Init, Off, SeenUntil
  <2>3. (-1) \div Interval(f) = -1
    <3> DEFINE n == Interval(f)
               q == (-1) \div n
    <3> HIDE DEF n
    <3>1. n \in Nat /\ n > 0
      BY <2>1 DEF n
    <3>2. q \in Int /\ q * n \in Int /\ q * n <= -1 /\ -1 < q * n + n
      BY <3>1, Quotient
    <3> HIDE DEF q
    <3>3. q < 0
      <4>1. SUFFICES ASSUME 0 <= q PROVE FALSE
        BY <3>2
      <4>2. 0 * n <= q * n
        BY <3>1, <3>2, <4>1
      <4> QED BY <3>1, <3>2, <4>2
    <3>4. q > -2
      <4>1. SUFFICES ASSUME q <= -2 PROVE FALSE
        BY <3>2
      <4>2. q * n <= (-2) * n
        BY <3>1, <3>2, <4>1
      <4> QED BY <3>1, <3>2, <4>2
    <3> QED BY <3>2, <3>3, <3>4 DEF q, n
  <2> QED BY <2>1, <2>2, <2>3 DEF OnBoundary, Remembered
<1> QED BY <1>1, <1>2 DEF IInv, CadenceInv

\* Only the start of a cycle has feeds wait, and those are the ones that are due.
LEMMA OnlyTheDueWait ==
    ASSUME IInv, [Next]_vars
    PROVE  \/ /\ Due # {} /\ ~cycle.on /\ (launched # now \/ driver = "loop")
              /\ \A f \in Feed : stage'[f] = "waiting" <=> f \in Due
           \/ /\ cycle'.on => cycle.on
              /\ \A f \in Feed : stage'[f] = "waiting" => stage[f] = "waiting"
<1>1. CASE Launch
  BY <1>1 DEF Launch, Begin
<1>2. CASE Turn
  BY <1>2 DEF Turn, Begin
<1>3. ASSUME NEW f \in Feed, Work(f)
      PROVE  cycle' = cycle /\ \A g \in Feed : stage'[g] = "waiting" => stage[g] = "waiting"
  BY <1>3, WorkStays DEF IInv, schedule
<1>4. CASE EndCycle
  BY <1>4 DEF EndCycle, Idle, Off
<1>5. CASE Kill
  BY <1>5 DEF Kill, Idle, Off
<1>6. CASE Tick
  BY <1>6 DEF Tick
<1>7. CASE UNCHANGED vars
  BY <1>7 DEF vars, schedule
<1> QED BY <1>1, <1>2, <1>3, <1>4, <1>5, <1>6, <1>7 DEF Next

\* Each feed is taken in exactly when a whole interval has passed, and a pinned one never
\* before its pinned interval (worker.py, feeds_due_in_window, run_loop and paced_feeds).
THEOREM RunsOnSchedule == Spec => OnSchedule
<1> DEFINE A(f) == ~lapsed[f] =>
        /\ ~cycle.on /\ cycle'.on =>
               (stage'[f] = "waiting" <=> now - lastRun[f] >= Interval(f))
        /\ f \in DOMAIN Overrides /\ stage[f] = "off" /\ stage'[f] = "waiting" =>
               now - lastRun[f] >= Overrides[f]
<1>1. Init => IInv
  BY InitOnTime
<1>2. IInv /\ [Next]_vars => IInv'
  BY NextOnTime
<1>3. IInv /\ [Next]_vars => \A f \in Feed : A(f)
  <2>1. SUFFICES ASSUME IInv, [Next]_vars, NEW f \in Feed, ~lapsed[f] PROVE A(f)
    OBVIOUS
  <2>2. CASE /\ Due # {} /\ ~cycle.on /\ (launched # now \/ driver = "loop")
             /\ \A g \in Feed : stage'[g] = "waiting" <=> g \in Due
    <3>1. stage'[f] = "waiting" <=> now - lastRun[f] >= Interval(f)
      BY <2>1, <2>2, DueIsOverdue
    <3>2. f \in DOMAIN Overrides => Interval(f) = Overrides[f]
      BY PinnedStays
    <3> QED BY <3>1, <3>2
  <2>3. CASE /\ cycle'.on => cycle.on
             /\ \A g \in Feed : stage'[g] = "waiting" => stage[g] = "waiting"
    BY <2>3
  <2> QED BY <2>1, <2>2, <2>3, OnlyTheDueWait
<1> QED BY <1>1, <1>2, <1>3, PTL DEF Spec, OnSchedule

(***************************************************************************)
(* Remainders and divisors                                                 *)
(***************************************************************************)

LEMMA Distributes ==
    ASSUME NEW a \in Int, NEW b \in Int, NEW c \in Int
    PROVE  /\ (a + b) * c = a * c + b * c
           /\ (a - b) * c = a * c - b * c
           /\ (a * b) * c = a * (b * c)
           /\ a * b = b * a /\ a * b \in Int
  OBVIOUS

LEMMA Division ==
    ASSUME NEW t \in Int, NEW n \in Nat, n > 0
    PROVE  /\ t \div n \in Int /\ t % n \in 0..(n - 1)
           /\ t = (t \div n) * n + (t % n)
  OBVIOUS

\* No multiple of n but 0 is smaller than n.
LEMMA NoSmallMultiple ==
    ASSUME NEW q \in Int, NEW n \in Nat, n > 0, q * n < n, -n < q * n
    PROVE  q = 0
<1>1. CASE q >= 1
  <2>1. q = (q - 1) + 1 /\ (q - 1) * n >= 0
    BY <1>1
  <2>2. q * n = (q - 1) * n + n
    BY <2>1
  <2> QED BY <2>1, <2>2
<1>2. CASE q <= -1
  <2>1. q = (q + 1) - 1 /\ (q + 1) * n <= 0
    BY <1>2
  <2>2. q * n = (q + 1) * n - n
    BY <2>1
  <2> QED BY <2>1, <2>2
<1> QED BY <1>1, <1>2

LEMMA Remainder ==
    ASSUME NEW n \in Nat, n > 0, NEW t \in Int, NEW q \in Int, NEW r \in 0..(n - 1), t = q * n + r
    PROVE  t % n = r
<1> DEFINE p == t \div n
           s == t % n
<1>1. p \in Int /\ s \in 0..(n - 1) /\ t = p * n + s
  BY Division
<1> HIDE DEF p, s
<1>2. (p - q) * n = p * n - q * n /\ p * n \in Int /\ q * n \in Int
  BY <1>1, Distributes
<1>3. (p - q) * n = r - s /\ p - q \in Int
  BY <1>1, <1>2
<1>4. p - q = 0
  BY <1>1, <1>3, NoSmallMultiple
<1>5. p = q
  BY <1>1, <1>4
<1>6. s = r
  BY <1>1, <1>5, <1>2
<1> QED BY <1>6 DEF s

LEMMA SameRemainder ==
    ASSUME NEW n \in Nat, n > 0, NEW t \in Int, NEW q \in Int
    PROVE  (t + q * n) % n = t % n
<1> DEFINE p == t \div n
           s == t % n
<1>1. p \in Int /\ s \in 0..(n - 1) /\ t = p * n + s
  BY Division
<1> HIDE DEF p, s
<1>2. (p + q) * n = p * n + q * n /\ p * n \in Int /\ q * n \in Int
  BY <1>1, Distributes
<1>3. t + q * n = (p + q) * n + s /\ p + q \in Int /\ t + q * n \in Int
  BY <1>1, <1>2
<1>4. (t + q * n) % n = s
  BY <1>1, <1>3, Remainder
<1> QED BY <1>4 DEF s

\* (x mod n) + y is x + y, modulo n.
LEMMA RemainderOfSum ==
    ASSUME NEW n \in Nat, n > 0, NEW x \in Int, NEW y \in Int
    PROVE  ((x % n) + y) % n = (x + y) % n
<1> DEFINE p == x \div n
           s == x % n
<1>1. p \in Int /\ s \in 0..(n - 1) /\ x = p * n + s
  BY Division
<1> HIDE DEF p, s
<1>2. p * n \in Int
  BY <1>1, Distributes
<1>3. x + y = (s + y) + p * n
  BY <1>1, <1>2
<1>4. (x + y) % n = (s + y) % n
  <2>1. s + y \in Int
    BY <1>1
  <2>2. ((s + y) + p * n) % n = (s + y) % n
    BY <1>1, <2>1, SameRemainder, Zenon
  <2> QED BY <1>3, <2>2
<1> QED BY <1>4 DEF s

LEMMA Divides ==
    ASSUME NEW d \in Nat, d > 0, NEW a \in Int
    PROVE  a % d = 0 <=> \E q \in Int : a = q * d
<1>1. ASSUME a % d = 0 PROVE \E q \in Int : a = q * d
  <2>1. a \div d \in Int /\ a = (a \div d) * d + 0
    BY <1>1, Division
  <2>2. (a \div d) * d \in Int
    BY <2>1, Distributes
  <2>3. a = (a \div d) * d
    BY <2>1, <2>2
  <2> QED BY <2>1, <2>3
<1>2. ASSUME NEW q \in Int, a = q * d PROVE a % d = 0
  <2>1. a = q * d + 0 /\ 0 \in 0..(d - 1)
    BY <1>2
  <2> QED BY <2>1, Remainder
<1> QED BY <1>1, <1>2

LEMMA FirstOfSome ==
    ASSUME NEW S, S \subseteq Nat, S # {}
    PROVE  \E n \in S : \A m \in S : n <= m
<1> DEFINE Precedes == OpToRel(<, Nat)
<1>1. IsWellFoundedOn(Precedes, Nat)
  BY NatLessThanWellFounded, Zenon DEF OpToRel
<1>2. PICK n \in S : \A m \in S : ~(<<m, n>> \in Precedes)
  <2> HIDE DEF Precedes
  <2> QED BY <1>1, WFMin
<1>3. \A m \in S : ~(m < n)
  BY <1>2 DEF OpToRel
<1> QED BY <1>3

\* The numbers made of multiples of a and n.
Combined(x, a, n) == \E u \in Int, v \in Int : x = u * a + v * n

\* What remains of such a number, divided by another one, is one too.
LEMMA RemainderCombines ==
    ASSUME NEW a \in Int, NEW n \in Int, NEW g \in Nat, g > 0, NEW t \in Int,
           Combined(g, a, n), Combined(t, a, n)
    PROVE  Combined(t % g, a, n)
<1>1. PICK u \in Int, v \in Int : g = u * a + v * n
  BY DEF Combined
<1>2. PICK x \in Int, y \in Int : t = x * a + y * n
  BY DEF Combined
<1> DEFINE q == t \div g
           r == t % g
<1>3. q \in Int /\ r \in 0..(g - 1) /\ t = q * g + r
  BY Division
<1> HIDE DEF q, r
<1>4. q * u \in Int /\ q * v \in Int /\ u * a \in Int /\ v * n \in Int /\ x * a \in Int /\ y * n \in Int
  BY <1>1, <1>2, <1>3, Distributes
<1>5. q * g = (u * a + v * n) * q
  BY <1>1, <1>3, Distributes
<1>6. (u * a + v * n) * q = (u * a) * q + (v * n) * q
  BY <1>3, <1>4, Distributes
<1>7. (u * a) * q = (q * u) * a
  <2>1. (u * a) * q = q * (u * a)
    BY <1>3, <1>4, Distributes
  <2>2. (q * u) * a = q * (u * a)
    BY <1>1, <1>3, Distributes
  <2> QED BY <2>1, <2>2
<1>8. (v * n) * q = (q * v) * n
  <2>1. (v * n) * q = q * (v * n)
    BY <1>3, <1>4, Distributes
  <2>2. (q * v) * n = q * (v * n)
    BY <1>1, <1>3, Distributes
  <2> QED BY <2>1, <2>2
<1>9. (q * u) * a \in Int /\ (q * v) * n \in Int
  BY <1>4, Distributes
<1>10. (x - q * u) * a = x * a - (q * u) * a /\ (y - q * v) * n = y * n - (q * v) * n
  BY <1>2, <1>4, Distributes
<1>11. q * g = (q * u) * a + (q * v) * n
  BY <1>5, <1>6, <1>7, <1>8
<1> DEFINE qg == q * g
           ua == (q * u) * a
           vn == (q * v) * n
           xa == x * a
           yn == y * n
<1>12. r = t - qg /\ t = xa + yn /\ qg = ua + vn /\ qg \in Int
  BY <1>2, <1>3, <1>9, <1>11
<1>13. ua \in Int /\ vn \in Int /\ xa \in Int /\ yn \in Int
  BY <1>4, <1>9
<1>14. (x - q * u) * a = xa - ua /\ (y - q * v) * n = yn - vn
  BY <1>10
<1> HIDE DEF qg, ua, vn, xa, yn
<1>15. r = (xa - ua) + (yn - vn)
  BY <1>12, <1>13
<1>16. r = (x - q * u) * a + (y - q * v) * n
  BY <1>14, <1>15
<1>17. x - q * u \in Int /\ y - q * v \in Int
  BY <1>2, <1>4
<1> QED BY <1>16, <1>17 DEF Combined, r

\* The greatest common divisor of a and n is made of multiples of them.
LEMMA DivisorCombines ==
    ASSUME NEW a \in Nat, NEW n \in Nat, n > 0
    PROVE  /\ Divisor(a, n) \in 1..n /\ a % Divisor(a, n) = 0 /\ n % Divisor(a, n) = 0
           /\ Combined(Divisor(a, n), a, n)
<1> DEFINE Made == {x \in 1..n : Combined(x, a, n)}
<1>1. n \in Made
  <2>1. n = 0 * a + 1 * n /\ 1 \in Int /\ 0 \in Int
    OBVIOUS
  <2>2. Combined(n, a, n)
    BY <2>1, Zenon DEF Combined
  <2> QED BY <2>2
<1>2. Made \subseteq Nat /\ Made # {}
  BY <1>1
<1>3. PICK g \in Made : \A m \in Made : g <= m
  <2> HIDE DEF Made
  <2> QED BY <1>2, FirstOfSome
<1>4. g \in 1..n /\ Combined(g, a, n)
  OBVIOUS
<1>5. ASSUME NEW t \in Int, Combined(t, a, n) PROVE t % g = 0
  <2>1. t % g \in 0..(g - 1)
    BY <1>4, Division
  <2>2. Combined(t % g, a, n)
    BY <1>4, <1>5, RemainderCombines
  <2>3. ASSUME t % g # 0 PROVE FALSE
    <3>1. t % g \in Made /\ ~(g <= t % g)
      BY <1>4, <2>1, <2>2, <2>3
    <3> QED BY <1>3, <3>1
  <2> QED BY <2>3
<1>6. Combined(a, a, n) /\ Combined(n, a, n)
  <2>1. Combined(a, a, n)
    <3>1. a = 1 * a + 0 * n /\ 1 \in Int /\ 0 \in Int
      OBVIOUS
    <3> QED BY <3>1, Zenon DEF Combined
  <2>2. Combined(n, a, n)
    <3>1. n = 0 * a + 1 * n /\ 1 \in Int /\ 0 \in Int
      OBVIOUS
    <3> QED BY <3>1, Zenon DEF Combined
  <2> QED BY <2>1, <2>2
<1>7. a % g = 0 /\ n % g = 0
  BY <1>5, <1>6
<1>8. ASSUME NEW e \in 1..n, a % e = 0, n % e = 0 PROVE e <= g
  <2>1. PICK u \in Int, v \in Int : g = u * a + v * n
    BY <1>4 DEF Combined
  <2> HIDE DEF Made
  <2>11. e \in Nat /\ e > 0 /\ a \in Int /\ n \in Int /\ a % e = 0 /\ n % e = 0
    BY <1>8
  <2>2. PICK x \in Int : a = x * e
    BY <2>11, Divides
  <2>3. PICK y \in Int : n = y * e
    BY <2>11, Divides
  <2>4. u * a = (u * x) * e /\ v * n = (v * y) * e
    <3>1. (u * x) * e = u * (x * e) /\ (v * y) * e = v * (y * e)
      BY <2>1, <2>2, <2>3, Distributes
    <3> QED BY <2>2, <2>3, <3>1
  <2>5. u * x \in Int /\ v * y \in Int
    BY <2>1, <2>2, <2>3, Distributes
  <2>6. (u * x + v * y) * e = (u * x) * e + (v * y) * e
    BY <2>5, Distributes
  <2>7. g = (u * x + v * y) * e
    BY <2>1, <2>4, <2>6
  <2> DEFINE w == u * x + v * y
  <2>8. w \in Int /\ g = w * e
    BY <2>5, <2>7
  <2> HIDE DEF w
  <2>9. ASSUME g < e PROVE FALSE
    <3>1. w = 0
      BY <1>4, <2>8, <2>9, NoSmallMultiple
    <3>2. g = 0
      BY <2>8, <3>1
    <3> QED BY <1>4, <3>2
  <2> QED BY <1>4, <2>9
<1> DEFINE Greatest(d) == /\ a % d = 0 /\ n % d = 0
                         /\ \A e \in 1..n : a % e = 0 /\ n % e = 0 => e <= d
<1>9. Divisor(a, n) = CHOOSE d \in 1..n : Greatest(d)
  BY DEF Divisor
<1>10. Greatest(g)
  BY <1>7, <1>8
<1>11. Divisor(a, n) \in 1..n /\ Greatest(Divisor(a, n))
  <2> HIDE DEF Greatest
  <2> QED BY <1>4, <1>9, <1>10
<1>12. Divisor(a, n) = g
  BY <1>4, <1>7, <1>8, <1>11
<1> QED BY <1>4, <1>7, <1>12

\* The places of a list of n, from 0, that a window of cap names which has been moved by a
\* places j times since, and is now at o.
Place(o, a, j, i, n) == (o - j * a + i - 1) % n
Places(o, a, runs, cap, n) == {Place(o, a, j, i, n) : j \in 0..(runs - 1), i \in 1..cap}

\* Moves that share a divisor with n larger than the window pass over a place for ever.
LEMMA PlacePassedOver ==
    ASSUME NEW o \in Nat, NEW a \in Nat, NEW runs \in Nat, NEW n \in Nat, n > 0,
           NEW cap \in Nat, NEW d \in Nat, cap < d, a % d = 0, n % d = 0
    PROVE  \E p \in 0..(n - 1) : p \notin Places(o, a, runs, cap, n)
<1> DEFINE p == (o + cap) % n
<1>1. p \in 0..(n - 1)
  BY Division
<1>2. SUFFICES ASSUME NEW j \in 0..(runs - 1), NEW i \in 1..cap, p = Place(o, a, j, i, n)
               PROVE  FALSE
  <2> HIDE DEF p
  <2> QED BY <1>1 DEF Places
<1> DEFINE t == o - j * a + i - 1
           q == (o + cap) \div n
           r == t \div n
<1>3. j * a \in Int /\ t \in Int
  BY Distributes
<1>4. q \in Int /\ o + cap = q * n + p
  BY Division, o + cap \in Int
<1>5. r \in Int /\ t = r * n + (t % n)
  <2> HIDE DEF t
  <2> QED BY <1>3, Division
<1>6. t % n = p
  BY <1>2 DEF Place
<1>7. p \in Int
  BY <1>1
<1>8. t = o - j * a + i - 1
  OBVIOUS
<1> HIDE DEF p, q, r, t
<1>19. a \in Int /\ n \in Int /\ d > 0
  OBVIOUS
<1>9. PICK x \in Int : a = x * d
  BY <1>19, Divides
<1>10. PICK y \in Int : n = y * d
  BY <1>19, Divides
<1>11. q * n \in Int /\ r * n \in Int /\ j * a \in Int
  BY <1>3, <1>4, <1>5, Distributes
<1> DEFINE qn == q * n
           rn == r * n
           ja == j * a
<1>12. /\ qn \in Int /\ rn \in Int /\ ja \in Int
       /\ o + cap = qn + p /\ t = rn + p /\ t = o - ja + i - 1
  BY <1>4, <1>5, <1>6, <1>8, <1>11
<1>13. qn - rn + (-ja) = cap - i + 1
  <2> HIDE DEF qn, rn, ja
  <2>1. qn = o + cap - p /\ rn = o - ja + i - 1 - p
    BY <1>3, <1>7, <1>12
  <2> QED BY <2>1, <1>7, <1>12
<1> DEFINE z == (q - r) * y - (j * x)
<1>14. z \in Int
  <2>1. q - r \in Int /\ (q - r) * y \in Int /\ j * x \in Int
    BY <1>4, <1>5, <1>9, <1>10, Distributes
  <2> QED BY <2>1
<1>15. z * d = qn - rn - ja
  <2>1. (q - r) * y \in Int /\ j * x \in Int /\ q - r \in Int
    BY <1>4, <1>5, <1>9, <1>10, Distributes
  <2>2. z * d = ((q - r) * y) * d - (j * x) * d
    BY <2>1, Distributes
  <2>3. ((q - r) * y) * d = (q - r) * n
    BY <2>1, <1>10, Distributes
  <2>4. (q - r) * n = qn - rn
    BY <1>4, <1>5, Distributes
  <2>5. (j * x) * d = ja
    BY <1>9, Distributes
  <2> QED BY <2>2, <2>3, <2>4, <2>5
<1> HIDE DEF qn, rn, ja, z
<1>16. z * d = cap - i + 1
  BY <1>12, <1>13, <1>15
<1>17. z = 0
  BY <1>14, <1>16, NoSmallMultiple
<1>18. z * d = 0
  BY <1>17
<1> QED BY <1>16, <1>18

\* Moves whose common divisor with n fits in the window come round to every place.
LEMMA PlacesComeRound ==
    ASSUME NEW o \in Nat, NEW a \in Nat, NEW runs \in Nat, NEW n \in Nat, n > 0,
           NEW cap \in Nat, NEW d \in Nat, d > 0, d <= cap, a % d = 0, n % d = 0,
           Combined(d, a, n), runs * d >= n,
           NEW p \in 0..(n - 1)
    PROVE  p \in Places(o, a, runs, cap, n)
<1>1. PICK x \in Int : a = x * d
  BY Divides, a \in Int
<1>2. PICK y \in Int : n = y * d
  BY Divides, n \in Int
<1>3. PICK u \in Int, v \in Int : d = u * a + v * n
  BY DEF Combined
<1>4. y > 0 /\ y <= runs
  <2>1. ASSUME y <= 0 PROVE FALSE
    <3>1. y * d <= 0
      BY <1>2, <2>1
    <3> QED BY <1>2, <3>1
  <2>2. ASSUME runs + 1 <= y PROVE FALSE
    <3>1. (y - runs) * d = y * d - runs * d /\ y * d \in Int /\ runs * d \in Int
      BY <1>2, Distributes
    <3>2. (y - runs) * d >= d
      <4>1. (y - runs) * d = (y - runs - 1) * d + d /\ (y - runs - 1) * d >= 0
        BY <1>2, <2>2
      <4> QED BY <4>1
    <3> QED BY <1>2, <3>1, <3>2
  <2> QED BY <1>2, <2>1, <2>2
<1> DEFINE m == (p - o) \div d
           k == (p - o) % d
<1>5. m \in Int /\ k \in 0..(d - 1) /\ p - o = m * d + k
  BY Division, p - o \in Int
<1> HIDE DEF m, k
<1> DEFINE w == -(m * u)
           j == w % y
           b == w \div y
<1>6. w \in Int /\ m * u \in Int
  BY <1>3, <1>5, Distributes
<1>7. w = -(m * u)
  OBVIOUS
<1> HIDE DEF w
<1>8. b \in Int /\ j \in 0..(y - 1) /\ w = b * y + j
  BY <1>2, <1>4, <1>6, Division
<1> HIDE DEF j, b
<1>9. j \in 0..(runs - 1) /\ k + 1 \in 1..cap
  BY <1>2, <1>4, <1>5, <1>8
\* j * a is -(m * d), but for multiples of n.
<1>10. j * a = -((m * u) * a) - (b * y) * a
  <2>1. b * y \in Int /\ j \in Int /\ b * y + j = w /\ a \in Int
    BY <1>2, <1>8, Distributes
  <2>2. (b * y + j) * a = (b * y) * a + j * a /\ (b * y) * a \in Int /\ j * a \in Int
    BY <2>1, Distributes
  <2>3. w * a = -((m * u) * a)
    <3>1. (0 - (m * u)) * a = 0 * a - (m * u) * a
      BY <1>6, Distributes
    <3>2. w = 0 - (m * u) /\ 0 * a = 0 /\ (m * u) * a \in Int
      BY <1>6, <1>7, Distributes
    <3> QED BY <3>1, <3>2
  <2>4. (m * u) * a \in Int
    BY <1>6, Distributes
  <2>5. w * a = (b * y) * a + j * a
    BY <2>1, <2>2
  <2> HIDE DEF w
  <2> DEFINE ja == j * a
             bya == (b * y) * a
             mua == (m * u) * a
  <2>6. ja \in Int /\ bya \in Int /\ mua \in Int /\ -mua = bya + ja
    BY <2>2, <2>3, <2>4, <2>5
  <2>7. ja = -mua - bya
    <3> HIDE DEF ja, bya, mua
    <3> QED BY <2>6
  <2> QED BY <2>7
<1>11. (b * y) * a = (b * x) * n
  <2>1. y * a = (y * x) * d /\ x * n = (x * y) * d /\ y * x = x * y
    BY <1>1, <1>2, Distributes
  <2>2. (b * y) * a = b * (y * a) /\ (b * x) * n = b * (x * n)
    BY <1>1, <1>2, <1>8, Distributes
  <2> QED BY <2>1, <2>2
<1>12. (m * u) * a = m * d - (m * v) * n
  <2>1. u * a \in Int /\ v * n \in Int
    BY <1>3, Distributes
  <2>2. d * m = (u * a) * m + (v * n) * m
    BY <1>3, <1>5, <2>1, Distributes
  <2>3. (u * a) * m = (m * u) * a
    <3>1. (u * a) * m = m * (u * a) /\ (m * u) * a = m * (u * a)
      BY <1>3, <1>5, <2>1, Distributes
    <3> QED BY <3>1
  <2>4. (v * n) * m = (m * v) * n
    <3>1. (v * n) * m = m * (v * n) /\ (m * v) * n = m * (v * n)
      BY <1>3, <1>5, <2>1, Distributes
    <3> QED BY <3>1
  <2>5. d * m = m * d
    BY <1>5, Distributes
  <2>6. m * v \in Int
    BY <1>3, <1>5, Distributes
  <2>7. (m * v) * n \in Int /\ (m * u) * a \in Int
    BY <1>6, <2>6, Distributes
  <2> DEFINE md == m * d
             mua == (m * u) * a
             mvn == (m * v) * n
  <2>8. mua \in Int /\ mvn \in Int /\ md = mua + mvn
    BY <2>2, <2>3, <2>4, <2>5, <2>7
  <2>9. mua = md - mvn
    <3> HIDE DEF md, mua, mvn
    <3> QED BY <2>8
  <2> QED BY <2>9
<1> DEFINE ja == j * a
           md == m * d
           c == b * x - m * v
           cn == c * n
<1>13. ja = -md - cn /\ ja \in Int /\ md \in Int /\ cn \in Int /\ c \in Int
  <2>1. b * x \in Int /\ m * v \in Int /\ m * d \in Int /\ j \in Int
    BY <1>1, <1>3, <1>5, <1>8, <1>2, Distributes
  <2>2. c \in Int
    BY <2>1
  <2>3. cn = (b * x) * n - (m * v) * n /\ cn \in Int
    BY <2>1, <2>2, Distributes
  <2>4. (b * x) * n \in Int /\ (m * v) * n \in Int /\ ja \in Int
    BY <2>1, Distributes
  <2> DEFINE bxn == (b * x) * n
             mvn == (m * v) * n
             mua == (m * u) * a
  <2>5. ja = -mua - bxn /\ mua = md - mvn /\ cn = bxn - mvn
    BY <1>10, <1>11, <1>12, <2>3
  <2>6. bxn \in Int /\ mvn \in Int /\ md \in Int
    BY <2>1, <2>4
  <2>7. ja = -md - cn
    <3> HIDE DEF ja, md, cn, bxn, mvn, mua
    <3> QED BY <2>5, <2>6
  <2> QED BY <2>1, <2>2, <2>3, <2>4, <2>7
<1>14. o - ja + k = p + cn
  <2>1. p - o = md + k
    BY <1>5
  <2> HIDE DEF ja, md, cn
  <2> QED BY <2>1, <1>5, <1>13
<1>15. o - j * a + (k + 1) - 1 = p + c * n
  <2>1. o - j * a + k = p + c * n
    BY <1>14
  <2>2. j * a \in Int
    BY <1>13
  <2> QED BY <2>1, <2>2, <1>5
<1>16. (p + c * n) % n = p % n
  <2> HIDE DEF c
  <2> QED BY <1>13, SameRemainder
<1>17. p % n = p
  <2>1. p = 0 * n + p /\ p \in Int /\ 0 \in Int
    OBVIOUS
  <2> QED BY <2>1, Remainder
<1>18. Place(o, a, j, k + 1, n) = p
  BY <1>15, <1>16, <1>17 DEF Place
<1> QED BY <1>9, <1>18 DEF Places

(***************************************************************************)
(* The rotation                                                            *)
(***************************************************************************)

\* What a rotating feed has seen is its windows at the epochs it was fetched in: so many, at
\* one stride, up to the last.
Rounds(k, e, stride, runs) == UNION {Window[k][e - j * stride] : j \in 0..(runs - 1)}
SweepOf(s, k, e) ==
    \/ s = NoSweep
    \/ /\ s.epoch \in 0..e /\ s.stride \in Nat /\ s.runs \in Nat \ {0}
       /\ (s.runs - 1) * s.stride <= s.epoch
       /\ s.seen = Rounds(k, s.epoch, s.stride, s.runs)
SweepOK(f) == SweepOf(sweep[f], fetcher[f], Epoch)
SweepInv ==
    /\ fetcher \in {s.fetcher : s \in Setups}
    /\ sweep = [f \in Feed |-> sweep[f]]
    /\ \A f \in Feed : SweepOK(f)

LEMMA QuotientGrows ==
    ASSUME NEW x \in Nat, NEW y \in Nat, x <= y, NEW n \in Nat, n > 0
    PROVE  x \div n \in Nat /\ x \div n <= y \div n
<1> DEFINE p == x \div n
           q == y \div n
<1>1. p \in Int /\ p * n \in Int /\ p * n <= x /\ x < p * n + n
  BY Quotient
<1>2. q \in Int /\ q * n \in Int /\ q * n <= y /\ y < q * n + n
  BY Quotient
<1> HIDE DEF p, q
<1>3. ASSUME q + 1 <= p PROVE FALSE
  <2> DEFINE r == p - q
  <2>1. r * n = p * n - q * n
    BY <1>1, <1>2, Distributes
  <2>2. r \in Int /\ r >= 1
    BY <1>1, <1>2, <1>3
  <2> HIDE DEF r
  <2>3. (r - 1) * n >= 0 /\ r * n = (r - 1) * n + n
    BY <2>2
  <2>4. r * n >= n
    BY <2>2, <2>3
  <2> QED BY <1>1, <1>2, <2>1, <2>4
<1>4. ASSUME p <= -1 PROVE FALSE
  <2>1. (p + 1) * n <= 0 /\ (p + 1) * n = p * n + n
    BY <1>1, <1>4
  <2> QED BY <1>1, <2>1
<1>5. p <= q /\ p \in Nat
  BY <1>1, <1>2, <1>3, <1>4
<1> QED BY <1>5 DEF p, q

LEMMA EpochTyped ==
    ASSUME TypeOK PROVE Epoch \in Nat /\ Epoch \in Epochs
<1>1. /\ now \in Nat /\ MaxNow \in Nat /\ now <= MaxNow /\ EpochLen \in Nat /\ EpochLen > 0
  BY WorkerAssumption DEF TypeOK
<1>2. now \div EpochLen \in Nat /\ now \div EpochLen <= MaxNow \div EpochLen
  BY <1>1, QuotientGrows, Zenon
<1>3. MaxNow <= MaxNow
  BY <1>1
<1>4. MaxNow \div EpochLen \in Nat
  BY <1>1, <1>3, QuotientGrows, Zenon
<1> QED BY <1>2, <1>4 DEF Epoch, Epochs

LEMMA EpochGrows ==
    ASSUME TypeOK, TypeOK', now <= now' PROVE Epoch' \in Nat /\ Epoch <= Epoch'
<1>1. now \in Nat /\ now' \in Nat /\ now' <= now' /\ EpochLen \in Nat /\ EpochLen > 0
  BY WorkerAssumption DEF TypeOK
<1>2. now \div EpochLen <= now' \div EpochLen
  BY <1>1, QuotientGrows, Zenon
<1>3. now' \div EpochLen \in Nat
  BY <1>1, QuotientGrows, Zenon
<1> QED BY <1>2, <1>3 DEF Epoch

LEMMA InitSweeps == Init => SweepInv
<1> SUFFICES ASSUME Init PROVE SweepInv
  OBVIOUS
<1>1. fetcher \in {s.fetcher : s \in Setups}
  BY DEF Init
<1>2. sweep = [f \in Feed |-> NoSweep]
  BY DEF Init
<1> QED BY <1>1, <1>2 DEF SweepInv, SweepOK, SweepOf

\* A feed whose sweep stands still has seen what it had.
LEMMA SweepStands ==
    ASSUME TypeOK, TypeOK', now <= now', NEW f \in Feed, SweepOK(f),
           sweep'[f] = sweep[f], fetcher' = fetcher
    PROVE  SweepOK(f)'
<1>1. Epoch \in Nat /\ Epoch' \in Nat /\ Epoch <= Epoch'
  BY EpochTyped, EpochGrows
<1>2. CASE sweep[f] = NoSweep
  BY <1>2 DEF SweepOK, SweepOf, NoSweep
<1>3. CASE sweep[f] # NoSweep
  <2>1. sweep[f].epoch \in 0..Epoch'
    BY <1>1, <1>3 DEF SweepOK, SweepOf
  <2> QED BY <1>3, <2>1 DEF SweepOK, SweepOf
<1> QED BY <1>2, <1>3

LEMMA OneRound ==
    ASSUME NEW k, NEW e \in Int PROVE Rounds(k, e, 0, 1) = Window[k][e]
<1>1. 0..(1 - 1) = {0} /\ e - 0 * 0 = e
  OBVIOUS
<1> QED BY <1>1 DEF Rounds

LEMMA TwoRounds ==
    ASSUME NEW k, NEW e \in Int, NEW d \in Int
    PROVE  Rounds(k, e, d, 2) = Window[k][e] \union Window[k][e - d]
<1>1. 0..(2 - 1) = {0, 1} /\ e - 0 * d = e /\ e - 1 * d = e - d
  OBVIOUS
<1>2. {Window[k][e - j * d] : j \in {0, 1}} = {Window[k][e - 0 * d], Window[k][e - 1 * d]}
  OBVIOUS
<1>3. UNION {Window[k][e], Window[k][e - d]} = Window[k][e] \union Window[k][e - d]
  OBVIOUS
<1> QED BY <1>1, <1>2, <1>3 DEF Rounds

LEMMA OneRoundMore ==
    ASSUME NEW k, NEW e \in Int, NEW d \in Int, NEW r \in Nat
    PROVE  Rounds(k, e + d, d, r + 1) = Window[k][e + d] \union Rounds(k, e, d, r)
<1> DEFINE W(i) == Window[k][i]
<1>1. ASSUME NEW j \in Int PROVE e + d - j * d = e - (j - 1) * d
  <2>1. (j - 1) * d = j * d - 1 * d /\ j * d \in Int
    BY <1>1, Distributes
  <2> QED BY <2>1
<1>2. e + d - 0 * d = e + d
  OBVIOUS
<1> SUFFICES ASSUME NEW x
             PROVE  (\E j \in 0..(r + 1 - 1) : x \in W(e + d - j * d))
                        <=> x \in W(e + d) \/ \E j \in 0..(r - 1) : x \in W(e - j * d)
  BY DEF Rounds
<1> HIDE DEF W
<1>3. ASSUME NEW j \in 0..(r + 1 - 1), x \in W(e + d - j * d)
      PROVE  x \in W(e + d) \/ \E i \in 0..(r - 1) : x \in W(e - i * d)
  <2>1. CASE j = 0
    BY <1>2, <1>3, <2>1
  <2>2. CASE j # 0
    <3>1. j - 1 \in 0..(r - 1) /\ x \in W(e - (j - 1) * d)
      BY <1>1, <1>3, <2>2
    <3> QED BY <3>1
  <2> QED BY <2>1, <2>2
<1>4. ASSUME x \in W(e + d) PROVE \E j \in 0..(r + 1 - 1) : x \in W(e + d - j * d)
  <2>1. 0 \in 0..(r + 1 - 1) /\ x \in W(e + d - 0 * d)
    BY <1>2, <1>4
  <2> QED BY <2>1
<1>5. ASSUME NEW i \in 0..(r - 1), x \in W(e - i * d)
      PROVE  \E j \in 0..(r + 1 - 1) : x \in W(e + d - j * d)
  <2>1. i + 1 \in 0..(r + 1 - 1) /\ i + 1 \in Int /\ i + 1 - 1 = i
    OBVIOUS
  <2>2. e + d - (i + 1) * d = e - (i + 1 - 1) * d
    BY <1>1, <2>1
  <2>3. x \in W(e + d - (i + 1) * d)
    BY <1>5, <2>1, <2>2
  <2> QED BY <2>1, <2>3
<1> QED BY <1>3, <1>4, <1>5

LEMMA NextRound ==
    ASSUME NEW k, NEW b \in Int, NEW d \in Int, NEW r \in Nat, NEW e, e = b + d, NEW q, q = r + 1
    PROVE  Rounds(k, e, d, q) = Window[k][e] \union Rounds(k, b, d, r)
  BY OneRoundMore

\* One more fetch, at the stride of those before it or at another one.
LEMMA SweepLonger ==
    ASSUME NEW k, NEW e \in Nat, NEW s, s # NoSweep, SweepOf(s, k, e), s.epoch # e
    PROVE  SweepOf([epoch |-> e, stride |-> e - s.epoch,
                    runs |-> IF e - s.epoch = s.stride THEN s.runs + 1 ELSE 2,
                    seen |-> Window[k][e] \union
                             (IF e - s.epoch = s.stride THEN s.seen ELSE Window[k][s.epoch])],
                   k, e)
<1>1. /\ s.epoch \in 0..e /\ s.stride \in Nat /\ s.runs \in Nat \ {0}
      /\ (s.runs - 1) * s.stride <= s.epoch
      /\ s.seen = Rounds(k, s.epoch, s.stride, s.runs)
  BY DEF SweepOf
<1> DEFINE b == s.epoch
           d == e - b
           r == s.runs
           st == s.stride
           t == [epoch |-> e, stride |-> d, runs |-> IF d = st THEN r + 1 ELSE 2,
                 seen |-> Window[k][e] \union (IF d = st THEN s.seen ELSE Window[k][b])]
<1>2. d \in Nat /\ d > 0 /\ b + d = e /\ e - d = b /\ b \in Nat
  BY <1>1
<1>3. r \in Nat /\ r > 0 /\ (r - 1) * st <= b /\ s.seen = Rounds(k, b, st, r)
  BY <1>1
<1> SUFFICES SweepOf(t, k, e)
  OBVIOUS
<1>4. t.epoch = e /\ t.stride = d
  OBVIOUS
<1>5. d = st => t.runs = r + 1 /\ t.seen = Window[k][e] \union s.seen
  OBVIOUS
<1>6. d # st => t.runs = 2 /\ t.seen = Window[k][e] \union Window[k][b]
  OBVIOUS
<1> HIDE DEF b, d, r, st, t
<1>7. CASE d = st
  <2>1. Rounds(k, e, d, r + 1) = Window[k][e] \union Rounds(k, b, d, r)
    BY <1>2, <1>3, NextRound
  <2>2. t.seen = Rounds(k, e, d, r + 1)
    BY <1>3, <1>5, <1>7, <2>1
  <2>3. r * d <= e
    <3>1. ((r - 1) + 1) * d = (r - 1) * d + 1 * d
      BY <1>2, <1>3, Distributes, r - 1 \in Int
    <3>2. (r - 1) * d <= b /\ (r - 1) * d \in Int /\ (r - 1) + 1 = r /\ 1 * d = d
      BY <1>2, <1>3, <1>7
    <3>3. r * d = (r - 1) * d + d
      BY <3>1, <3>2
    <3> QED BY <1>2, <3>2, <3>3
  <2>4. t.runs - 1 = r /\ t.runs \in Nat \ {0}
    BY <1>3, <1>5, <1>7
  <2>5. (t.runs - 1) * t.stride <= t.epoch
    BY <1>4, <2>3, <2>4
  <2>6. t.seen = Rounds(k, t.epoch, t.stride, t.runs)
    BY <1>4, <1>5, <1>7, <2>2
  <2> QED BY <1>2, <1>4, <2>4, <2>5, <2>6 DEF SweepOf
<1>8. CASE d # st
  <2>1. t.seen = Rounds(k, e, d, 2)
    <3>1. e \in Int /\ d \in Int /\ e - d = b
      BY <1>2
    <3>2. Rounds(k, e, d, 2) = Window[k][e] \union Window[k][e - d]
      BY <3>1, TwoRounds, Zenon
    <3> QED BY <1>6, <1>8, <3>1, <3>2
  <2>2. (2 - 1) * d <= e
    BY <1>2
  <2>3. t.runs = 2 /\ (t.runs - 1) * t.stride <= t.epoch
    BY <1>4, <1>6, <1>8, <2>2
  <2>4. t.seen = Rounds(k, t.epoch, t.stride, t.runs)
    BY <1>4, <2>1, <2>3
  <2> QED BY <1>2, <1>4, <2>3, <2>4 DEF SweepOf
<1> QED BY <1>7, <1>8

LEMMA SweptOK ==
    ASSUME TypeOK, TypeOK', now' = now, fetcher' = fetcher, NEW f \in Feed, SweepOK(f), NEW down,
           sweep'[f] = Swept(f, down)
    PROVE  SweepOK(f)'
<1> DEFINE s == sweep[f]
           k == fetcher[f]
           t == Swept(f, down)
<1>1. Epoch \in Nat /\ Epoch' = Epoch
  BY EpochTyped DEF Epoch
<1>2. SweepOf(s, k, Epoch)
  BY DEF SweepOK
<1>3. SUFFICES SweepOf(t, k, Epoch)
  BY <1>1 DEF SweepOK
<1>4. CASE t = NoSweep
  BY <1>4 DEF SweepOf
<1>5. CASE t = s
  BY <1>2, <1>5
<1>6. CASE t = [epoch |-> Epoch, stride |-> 0, runs |-> 1, seen |-> Window[k][Epoch]]
  <2>1. Rounds(k, Epoch, 0, 1) = Window[k][Epoch]
    BY <1>1, OneRound
  <2>2. t.epoch = Epoch /\ t.stride = 0 /\ t.runs = 1 /\ t.seen = Rounds(k, Epoch, 0, 1)
    BY <1>6, <2>1
  <2> HIDE DEF t
  <2> QED BY <1>1, <2>2 DEF SweepOf
<1>7. CASE /\ s # NoSweep /\ s.epoch # Epoch
           /\ t = [epoch |-> Epoch, stride |-> Epoch - s.epoch,
                   runs |-> IF Epoch - s.epoch = s.stride THEN s.runs + 1 ELSE 2,
                   seen |-> Window[k][Epoch] \union
                            (IF Epoch - s.epoch = s.stride THEN s.seen ELSE Window[k][s.epoch])]
  <2> HIDE DEF s, t, k
  <2> QED BY <1>1, <1>2, <1>7, SweepLonger
<1>8. s # NoSweep => s.epoch # -1
  BY <1>1, <1>2 DEF SweepOf
<1> QED BY <1>4, <1>5, <1>6, <1>7, <1>8 DEF Swept, NoSweep

LEMMA NextSweeps == ASSUME TypeOK, TypeOK', Held, SweepInv, [Next]_vars PROVE SweepInv'
<1>1. ASSUME sweep' = sweep, fetcher' = fetcher, now <= now' PROVE SweepInv'
  <2>1. \A f \in Feed : SweepOK(f)'
    BY <1>1, SweepStands DEF SweepInv
  <2> QED BY <1>1, <2>1 DEF SweepInv
<1>2. now \in Int /\ now <= now
  BY DEF TypeOK
<1>3. ASSUME NEW f \in Feed, EndFetch(f) PROVE SweepInv'
  <2>1. PICK down \in Outages :
            sweep' = sweep \/ sweep' = [sweep EXCEPT ![f] = Swept(f, down)]
    <3>1. PICK down \in Outages :
              IF Raises(fetcher[f], down) THEN UNCHANGED <<got, sweep>>
              ELSE IF OwnsItsPass(f) THEN UNCHANGED <<got, blame, sweep>>
              ELSE sweep' = [sweep EXCEPT ![f] = Swept(f, down)]
      BY <1>3 DEF EndFetch
    <3> QED BY <3>1
  <2>2. now' = now /\ fetcher' = fetcher
    BY <1>3, WorkStays DEF Work, config
  <2>3. CASE sweep' = [sweep EXCEPT ![f] = Swept(f, down)]
    <3>1. sweep = [g \in Feed |-> sweep[g]]
      BY DEF SweepInv
    <3>2. sweep' = [g \in Feed |-> IF g = f THEN Swept(f, down) ELSE sweep[g]]
      BY <2>3, <3>1
    <3>3. sweep'[f] = Swept(f, down) /\ \A g \in Feed : g # f => sweep'[g] = sweep[g]
      BY <3>2
    <3>4. SweepOK(f)'
      BY <2>2, <3>3, SweptOK DEF SweepInv
    <3>5. \A g \in Feed : g # f => SweepOK(g)'
      BY <1>2, <2>2, <3>3, SweepStands DEF SweepInv
    <3>6. sweep' = [g \in Feed |-> sweep'[g]]
      BY <3>2
    <3> QED BY <2>2, <3>4, <3>5, <3>6 DEF SweepInv
  <2> QED BY <1>1, <1>2, <2>1, <2>2, <2>3
<1>4. CASE Launch
  BY <1>1, <1>2, <1>4 DEF Launch, config
<1>5. CASE Turn
  BY <1>1, <1>2, <1>5 DEF Turn, config
<1>6. ASSUME NEW f \in Feed, StartFetch(f) \/ StartWrite(f) \/ EndWrite(f) PROVE SweepInv'
  BY <1>1, <1>2, <1>6 DEF StartFetch, StartWrite, EndWrite, config
<1>7. CASE EndCycle
  BY <1>1, <1>2, <1>7 DEF EndCycle, config
<1>8. CASE Kill
  BY <1>1, <1>2, <1>8 DEF Kill, config
<1>9. CASE Tick
  <2>1. now' = now + 1 /\ now <= now'
    BY <1>2, <1>9 DEF Tick
  <2> QED BY <1>1, <1>9, <2>1 DEF Tick, config
<1>10. CASE UNCHANGED vars
  BY <1>1, <1>2, <1>10 DEF vars, config
<1> QED BY <1>3, <1>4, <1>5, <1>6, <1>7, <1>8, <1>9, <1>10 DEF Next, Work

\* What kind k rotates over: a list of n, of which a window shows cap, each by its id.
Whole(k) == Rotated(k, Board)[1]
WindowSize(k) == Rotated(k, Board)[2]
Shown(k, places) == {Whole(k)[p + 1].id : p \in places}

LEMMA WindowSizeTyped == ASSUME NEW k PROVE WindowSize(k) \in Nat \ {0}
  BY FetchersAssumption DEF WindowSize, Rotated

LEMMA WholeTyped ==
    ASSUME NEW k \in Kinds
    PROVE  /\ Len(Whole(k)) \in Nat /\ DOMAIN Whole(k) = 1..Len(Whole(k))
           /\ \A i, j \in 1..Len(Whole(k)) : Whole(k)[i].id = Whole(k)[j].id => i = j
           /\ Ids(Whole(k)) = Shown(k, 0..(Len(Whole(k)) - 1))
           /\ Cardinality(Ids(Whole(k))) = Len(Whole(k))
<1> DEFINE list == Whole(k)
           n == Len(list)
<1>1. list \in Seq({list[i] : i \in DOMAIN list}) /\ \A i, j \in DOMAIN list : list[i].id = list[j].id => i = j
  BY BoardAssumption DEF Whole
<1> HIDE DEF list
<1>2. n \in Nat /\ DOMAIN list = 1..n
  BY <1>1
<1> HIDE DEF n
<1> DEFINE idOf == [i \in 1..n |-> list[i].id]
<1>3. idOf \in Surjection(1..n, Ids(list))
  BY <1>2 DEF Surjection, Ids
<1>4. idOf \in Injection(1..n, Ids(list))
  BY <1>1, <1>2, <1>3 DEF Injection, IsInjective, Surjection
<1>5. IsFiniteSet(1..n) /\ Cardinality(1..n) = n
  BY <1>2, FS_Interval
<1>6. Cardinality(Ids(list)) = n
  <2> HIDE DEF idOf
  <2> QED BY <1>3, <1>4, <1>5, FS_Surjection
<1>7. Ids(list) = {list[p + 1].id : p \in 0..(n - 1)}
  <2>1. ASSUME NEW i \in 1..n PROVE \E p \in 0..(n - 1) : list[i].id = list[p + 1].id
    <3>1. i - 1 \in 0..(n - 1) /\ (i - 1) + 1 = i
      BY <1>2
    <3>2. list[i].id = list[(i - 1) + 1].id
      BY <3>1
    <3> QED BY <3>1, <3>2
  <2>2. ASSUME NEW p \in 0..(n - 1) PROVE p + 1 \in 1..n
    BY <1>2
  <2> QED BY <1>2, <2>1, <2>2 DEF Ids
<1>8. \A i, j \in 1..n : list[i].id = list[j].id => i = j
  BY <1>1, <1>2
<1>9. Ids(list) = Shown(k, 0..(n - 1))
  BY <1>7 DEF Shown, list
<1> QED BY <1>2, <1>6, <1>8, <1>9 DEF n, list

LEMMA WindowShows ==
    ASSUME NEW k \in Kinds, NEW e \in Epochs, e \in Nat, Len(Whole(k)) > WindowSize(k)
    PROVE  Window[k][e] =
               {Whole(k)[((e * WindowSize(k) + (i - 1)) % Len(Whole(k))) + 1].id : i \in 1..WindowSize(k)}
<1> DEFINE list == Whole(k)
           n == Len(list)
           cap == WindowSize(k)
           x == e * cap
           at == [i \in 1..cap |-> list[((x + (i - 1)) % n) + 1]]
<1>1. n \in Nat /\ cap \in Nat /\ cap > 0 /\ n > cap /\ n > 0
  BY WholeTyped, WindowSizeTyped
<1>2. x \in Int
  BY <1>1, Distributes
<1>3. Window[k][e] = Ids(Rotating(list, cap, e))
  BY DEF Window, Whole, WindowSize
<1>4. Offset(n, cap, e) = x % n
  BY DEF Offset
<1> HIDE DEF list, n, cap, x
<1>5. Rotating(list, cap, e) = [i \in 1..cap |-> list[((Offset(n, cap, e) + i - 1) % n) + 1]]
  BY <1>1 DEF Rotating, n
<1>6. ASSUME NEW i \in 1..cap PROVE (Offset(n, cap, e) + i - 1) % n = (x + (i - 1)) % n
  <2>1. ((x % n) + (i - 1)) % n = (x + (i - 1)) % n
    BY <1>1, <1>2, RemainderOfSum, i - 1 \in Int
  <2>2. x % n \in Int
    BY <1>1, <1>2, Division
  <2>3. (x % n) + i - 1 = (x % n) + (i - 1)
    BY <2>2
  <2> QED BY <1>4, <2>1, <2>3
<1>7. Rotating(list, cap, e) = at
  BY <1>5, <1>6
<1>8. Ids(at) = {list[((x + (i - 1)) % n) + 1].id : i \in 1..cap}
  BY DEF Ids
<1> QED BY <1>3, <1>7, <1>8 DEF list, n, cap, x

\* The windows at one stride show the places their moves come to.
LEMMA RoundsShow ==
    ASSUME NEW k \in Kinds, NEW e \in Epochs, e \in Nat, NEW st \in Nat, NEW runs \in Nat, runs > 0,
           (runs - 1) * st <= e, Len(Whole(k)) > WindowSize(k)
    PROVE  Rounds(k, e, st, runs) =
               Shown(k, Places(e * WindowSize(k), st * WindowSize(k), runs, WindowSize(k), Len(Whole(k))))
<1> DEFINE list == Whole(k)
           n == Len(list)
           cap == WindowSize(k)
           o == e * cap
           a == st * cap
<1>1. n \in Nat /\ cap \in Nat /\ cap > 0 /\ n > 0
  BY WholeTyped, WindowSizeTyped
<1>2. o \in Int /\ a \in Int
  BY <1>1, Distributes
<1>3. o = e * cap /\ a = st * cap
  OBVIOUS
<1> DEFINE At(i) == (o - i) % n
           W(j) == {list[Place(o, a, j, i, n) + 1].id : i \in 1..cap}
<1>4. ASSUME NEW j \in 0..(runs - 1) PROVE Window[k][e - j * st] = W(j)
  <2> HIDE DEF list, n, cap, o, a
  <2> DEFINE m == j * st
             b == e - m
  <2>1. m \in Int /\ m >= 0 /\ m <= (runs - 1) * st /\ (runs - 1) * st \in Int
    <3>1. (runs - 1 - j) * st >= 0 /\ runs - 1 - j \in Nat /\ j \in Nat
      OBVIOUS
    <3>2. ((runs - 1) - j) * st = (runs - 1) * st - j * st
      BY Distributes, runs - 1 \in Int, j \in Int
    <3>3. j * st \in Int /\ (runs - 1) * st \in Int /\ j * st >= 0
      BY Distributes, runs - 1 \in Int, j \in Int
    <3> QED BY <3>1, <3>2, <3>3
  <2> HIDE DEF m
  <2>2. b \in Nat /\ b <= e
    BY <2>1
  <2>3. b \in Epochs
    <3>1. Epochs = 0..(MaxNow \div EpochLen) /\ MaxNow \div EpochLen \in Int
      BY WorkerAssumption DEF Epochs
    <3> HIDE DEF b
    <3> QED BY <2>2, <3>1
  <2>4. Window[k][b] = {list[((b * cap + (i - 1)) % n) + 1].id : i \in 1..cap}
    <3> HIDE DEF b
    <3> QED BY <2>2, <2>3, WindowShows DEF list, n, cap
  <2>5. b * cap = o - j * a
    <3>1. (e - m) * cap = e * cap - m * cap
      BY <1>1, <2>1, Distributes
    <3>2. m * cap = j * (st * cap)
      BY <1>1, Distributes DEF m
    <3> QED BY <1>3, <3>1, <3>2
  <2>6. ASSUME NEW i \in 1..cap PROVE (b * cap + (i - 1)) % n = Place(o, a, j, i, n)
    <3>1. j * a \in Int
      BY <1>2, Distributes
    <3>2. o - j * a + i - 1 = (o - j * a) + (i - 1)
      BY <1>1, <1>2, <3>1
    <3> QED BY <2>5, <3>2 DEF Place
  <2>7. Window[k][b] = W(j)
    BY <2>4, <2>6
  <2> QED BY <2>7 DEF m
<1> HIDE DEF list, n, cap, o, a
<1>5. Rounds(k, e, st, runs) = UNION {W(j) : j \in 0..(runs - 1)}
  <2> HIDE DEF W
  <2> QED BY <1>4 DEF Rounds
<1>6. UNION {W(j) : j \in 0..(runs - 1)} = {list[p + 1].id : p \in Places(o, a, runs, cap, n)}
  BY DEF Places
<1>7. Rounds(k, e, st, runs) = {list[p + 1].id : p \in Places(o, a, runs, cap, n)}
  BY <1>5, <1>6
<1> QED BY <1>7 DEF Shown, list, n, cap, o, a

\* Two sets of places show the same ids only if they are the same places.
LEMMA ShownApart ==
    ASSUME NEW k \in Kinds, NEW some, some \subseteq 0..(Len(Whole(k)) - 1)
    PROVE  Shown(k, some) = Ids(Whole(k)) <=> some = 0..(Len(Whole(k)) - 1)
<1> DEFINE n == Len(Whole(k))
<1>1. /\ n \in Nat /\ Ids(Whole(k)) = Shown(k, 0..(n - 1))
      /\ \A i, j \in 1..n : Whole(k)[i].id = Whole(k)[j].id => i = j
  BY WholeTyped
<1>2. ASSUME Shown(k, some) = Shown(k, 0..(n - 1)), NEW p \in 0..(n - 1) PROVE p \in some
  <2>1. Whole(k)[p + 1].id \in Shown(k, some)
    BY <1>2 DEF Shown
  <2>2. PICK q \in some : Whole(k)[p + 1].id = Whole(k)[q + 1].id
    BY <2>1 DEF Shown
  <2>3. p + 1 \in 1..n /\ q + 1 \in 1..n /\ p \in Int /\ q \in Int
    BY <1>1
  <2>4. p + 1 = q + 1
    BY <1>1, <2>2, <2>3
  <2> QED BY <2>3, <2>4
<1> QED BY <1>1, <1>2

LEMMA ComesRoundOrNever ==
    ASSUME NEW k \in Kinds, NEW s, SweepOf(s, k, MaxNow \div EpochLen), s # NoSweep,
           Len(Whole(k)) > WindowSize(k),
           NEW d, d = Divisor(s.stride * WindowSize(k), Len(Whole(k))),
           s.runs * d >= Len(Whole(k))
    PROVE  s.seen = Ids(Whole(k)) <=> d <= WindowSize(k)
<1> DEFINE n == Len(Whole(k))
           cap == WindowSize(k)
           e == s.epoch
           a == s.stride * cap
           o == e * cap
           seen == Places(o, a, s.runs, cap, n)
<1>1. n \in Nat /\ cap \in Nat /\ cap > 0 /\ n > 0
  BY WholeTyped, WindowSizeTyped
<1>2. /\ e \in 0..(MaxNow \div EpochLen) /\ s.stride \in Nat /\ s.runs \in Nat /\ s.runs > 0
      /\ (s.runs - 1) * s.stride <= e /\ s.seen = Rounds(k, e, s.stride, s.runs)
  BY DEF SweepOf
<1>3. e \in Nat /\ e \in Epochs
  BY <1>2 DEF Epochs
<1>4. s.seen = Shown(k, seen)
  <2> HIDE DEF e
  <2> QED BY <1>2, <1>3, RoundsShow
<1>5. o \in Nat /\ a \in Nat
  <2>1. \A x, y \in Nat : x * y \in Nat
    OBVIOUS
  <2> HIDE DEF e, cap
  <2> QED BY <1>1, <1>2, <1>3, <2>1
<1> HIDE DEF e, cap, n, a, o
<1>6. seen \subseteq 0..(n - 1)
  <2>1. ASSUME NEW j \in 0..(s.runs - 1), NEW i \in 1..cap PROVE Place(o, a, j, i, n) \in 0..(n - 1)
    <3>1. j * a \in Int
      BY <1>5, Distributes
    <3>2. o - j * a + i - 1 \in Int
      BY <1>1, <1>5, <3>1
    <3> QED BY <1>1, <3>2, Division DEF Place
  <2> QED BY <2>1 DEF Places
<1>7. s.seen = Ids(Whole(k)) <=> seen = 0..(n - 1)
  <2> HIDE DEF seen
  <2> QED BY <1>4, <1>6, ShownApart DEF n
<1>8. d = Divisor(a, n)
  BY DEF a, n, cap
<1>9. d \in 1..n /\ a % d = 0 /\ n % d = 0 /\ Combined(d, a, n)
  BY <1>1, <1>5, <1>8, DivisorCombines
<1>10. s.runs * d >= n
  BY DEF n
<1> DEFINE runs == s.runs
<1>13. d \in Nat /\ d > 0 /\ runs \in Nat /\ runs * d >= n
  BY <1>1, <1>2, <1>9, <1>10
<1> HIDE DEF runs
<1>14. seen = Places(o, a, runs, cap, n)
  BY DEF runs
<1>11. CASE d <= cap
  <2>1. ASSUME NEW p \in 0..(n - 1) PROVE p \in seen
    <3>1. p \in Places(o, a, runs, cap, n)
      BY <1>1, <1>5, <1>9, <1>11, <1>13, PlacesComeRound, Zenon
    <3> QED BY <1>14, <3>1
  <2> QED BY <1>6, <1>7, <1>11, <2>1 DEF cap
<1>12. CASE cap < d
  <2>1. \E p \in 0..(n - 1) : p \notin Places(o, a, runs, cap, n)
    BY <1>1, <1>5, <1>9, <1>12, <1>13, PlacePassedOver, Zenon
  <2>2. ~(d <= cap)
    BY <1>1, <1>9, <1>12
  <2> QED BY <1>7, <1>14, <2>1, <2>2 DEF cap
<1> QED BY <1>1, <1>9, <1>11, <1>12

\* RotationComesRound: a feed fetched at a steady stride sees its whole list in a list's length
\* over the common divisor of cycles, if that divisor fits in the window, and never if it does
\* not; for any list, window, epochs and strides (fetchers.py, _take_rotating).
THEOREM RotationCovers == Spec => []RotationComesRound
<1>1. Init => TypeOK /\ Held /\ SweepInv
  BY InitTyped, InitSweeps
<1> DEFINE Inv == TypeOK /\ Held /\ SweepInv
<1>2. Inv /\ [Next]_vars => Inv'
  BY NextTyped, NextSweeps
<1>3. Inv => RotationComesRound
  <2> SUFFICES ASSUME Inv, NEW f \in Feed PROVE ComesRound(f)
    BY DEF RotationComesRound
  <2> DEFINE k == fetcher[f]
             s == sweep[f]
             d == Divisor(s.stride * WindowSize(k), Len(Whole(k)))
  <2>1. k \in Kinds
    BY DEF SweepInv, Kinds
  <2>2. Epoch \in 0..(MaxNow \div EpochLen) /\ Epoch \in Nat
    BY EpochTyped DEF Epochs
  <2>3. SweepOf(s, k, MaxNow \div EpochLen)
    <3>1. SweepOf(s, k, Epoch)
      BY DEF SweepInv, SweepOK
    <3>2. MaxNow \div EpochLen \in Int
      BY WorkerAssumption
    <3> QED BY <2>2, <3>1, <3>2 DEF SweepOf
  <2>4. List[k].ids = Ids(Whole(k)) /\ List[k].cap = WindowSize(k)
    BY <2>1 DEF List, Whole, WindowSize
  <2>5. Cardinality(List[k].ids) = Len(Whole(k))
    BY <2>1, <2>4, WholeTyped
  <2>6. s.stride > 0 => s # NoSweep
    BY DEF NoSweep
  <2>7. s.stride > 0 /\ Len(Whole(k)) > WindowSize(k) /\ s.runs * d >= Len(Whole(k))
            => (s.seen = Ids(Whole(k)) <=> d <= WindowSize(k))
    <3> HIDE DEF k, s, d
    <3> QED BY <2>1, <2>3, <2>6, ComesRoundOrNever DEF d
  <2> QED BY <2>4, <2>5, <2>7 DEF ComesRound
<1> QED BY <1>1, <1>2, <1>3, PTL DEF Spec
===============================================================================
