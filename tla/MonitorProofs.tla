------------------------------ MODULE MonitorProofs ------------------------------
(***************************************************************************)
(* Theorems about Monitor for every set of watches and stories, every      *)
(* window, lag and cap, and any number of kills, errors and failed pushes: *)
(* its types, and what a watch may miss, repeat or push twice.             *)
(***************************************************************************)
EXTENDS Monitor, FiniteSetTheorems, WellFoundedInduction, TLAPS

(***************************************************************************)
(* The invariants                                                          *)
(***************************************************************************)

MoveTags == {"up", "down"}
Tags == MoveTags \union {"edge", "gone"}
Cands == [story : Name, race : Nat, tag : Tags, band : Int]
Rows == [story : Name, race : Nat, tag : Tags, band : Int, sub : Sub, at : Nat,
         pushed : BOOLEAN, told : Nat]
Moves == [story : Name, race : {0}, tag : MoveTags, at : Nat, by : Nat]
Keys == (Name \X Nat) \X Tags \X Int
AtWork == {"judge", "push", "mark", "settle"}
Passes == [step : {"off", "next"} \union AtWork, at : Int, todo : Seq(Sub),
           cands : SUBSET Cands, key : {<<>>} \union (Sub \X Keys \X Nat), fired : Nat,
           rows : SUBSET Nat, ok : BOOLEAN, open : BOOLEAN, lost : BOOLEAN]

ConfigOK ==
    /\ \A s \in Sub : watch[s].kind \in Kinds /\ watch[s].digest \in Nat
    /\ order \in Seq(Sub)
CountersOK == clock \in 0 .. MaxNow /\ turns \in 0 .. MaxTurns /\ faults \in 0 .. MaxFaults
WorldOK ==
    /\ moves \in Seq(Moves) /\ \A i \in DOMAIN moves : moves[i].at <= clock
    /\ board \in [Name -> [edge : Edges, since : Nat, race : Nat]]
    /\ \A n \in Name : board[n].since <= clock
TableOK == alerts \in Seq(Rows) /\ \A i \in DOMAIN alerts : alerts[i].at <= clock
SubsOK ==
    /\ subs \in [Sub -> [cursor : Int, digestAt : Int]]
    /\ \A s \in Sub : subs[s].cursor \in NoCursor .. clock
GhostsOK ==
    /\ from \in [Sub -> Int] /\ cut \subseteq Sub
    /\ digested \in [Sub -> Nat] /\ \A s \in Sub : digested[s] <= Len(alerts)
PassOK ==
    /\ pass \in Passes /\ pass.at \in Never .. clock
    /\ pass.step # "off" => pass.at >= 0
    /\ pass.step \in AtWork => pass.todo # <<>>
    /\ pass.step \notin AtWork => pass.rows = {}
    /\ pass.rows \subseteq DOMAIN alerts /\ ToSet(pass.todo) \subseteq ToSet(order)
TypeInv ==
    ConfigOK /\ CountersOK /\ WorldOK /\ TableOK /\ SubsOK /\ GhostsOK /\ PassOK

(***************************************************************************)
(* The constants and the helpers                                           *)
(***************************************************************************)

LEMMA BoundsTyped ==
    /\ Lag \in Nat /\ Window \in Nat /\ Cooldown \in Nat /\ Cap \in Nat /\ DigestCap \in Nat
    /\ MinMoves \in Nat /\ MinMoves > 0 /\ Backlog \in Nat /\ MaxDelay \in Nat
    /\ MaxBand \in Nat /\ MaxNow \in Nat /\ MaxTurns \in Nat /\ MaxFaults \in Nat
    /\ Edges \subseteq Int
  BY MonitorAssumption DEF Edges, Absent, GoneEdge, Shut

LEMMA EdgeKinds ==
    /\ Absent \in Edges /\ Absent < 0 /\ 0 \in Edges /\ Shut \in Edges
    /\ \A e \in Edges : e \in Int
  BY BoundsTyped DEF Edges, Absent, GoneEdge, Shut

LEMMA WorkingTyped ==
    ASSUME TypeInv, pass.todo # <<>>
    PROVE  /\ Working \in Sub /\ Working \in ToSet(order)
           /\ Tail(pass.todo) \in Seq(Sub) /\ ToSet(Tail(pass.todo)) \subseteq ToSet(order)
<1>1. pass.todo \in Seq(Sub) /\ ToSet(pass.todo) \subseteq ToSet(order)
  BY DEF TypeInv, PassOK, Passes
<1>2. Working = pass.todo[1] /\ 1 \in DOMAIN pass.todo
  BY <1>1 DEF Working
<1>3. \A i \in DOMAIN Tail(pass.todo) :
         i + 1 \in DOMAIN pass.todo /\ Tail(pass.todo)[i] = pass.todo[i + 1]
  BY <1>1
<1>4. Tail(pass.todo) \in Seq(Sub)
  BY <1>1
<1>5. ToSet(Tail(pass.todo)) \subseteq ToSet(order)
  BY <1>1, <1>3 DEF ToSet
<1>6. pass.todo[1] \in Sub
  BY <1>1, <1>2
<1>7. pass.todo[1] \in ToSet(pass.todo)
  BY <1>2 DEF ToSet
<1> QED BY <1>1, <1>2, <1>4, <1>5, <1>6, <1>7

LEMMA IdleTyped == Idle \in Passes /\ Idle.rows = {} /\ ToSet(Idle.todo) = {} /\ Idle.step = "off"
<1>1. Idle.rows = {} /\ Idle.todo = <<>> /\ Idle.step = "off"
  BY DEF Idle
<1>2. ToSet(<<>>) = {}
  BY DEF ToSet
<1> QED BY <1>1, <1>2 DEF Idle, Passes, Never, AtWork

(***************************************************************************)
(* What the kinds of step change                                           *)
(***************************************************************************)

\* The candidates of a scan.
LEMMA FoundTyped ==
    ASSUME TypeInv, pass.todo # <<>>
    PROVE  Found \subseteq Cands
<1>1. board \in [Name -> [edge : Edges, since : Nat, race : Nat]] /\ moves \in Seq(Moves)
  BY DEF TypeInv, WorldOK
<1>2. \A n \in Name : board[n].edge \in Int /\ board[n].race \in Nat
  BY <1>1, EdgeKinds
<1>3. \A n, after : Committed(n, after) \subseteq DOMAIN moves
  BY DEF Committed
<1>4. LineMoves \subseteq Cands
  <2>1. \A i \in DOMAIN moves : moves[i] \in Moves
    BY <1>1
  <2>2. \A i \in DOMAIN moves : moves[i].story \in Name /\ moves[i].tag \in Tags
    BY <2>1 DEF Moves, Tags
  <2> QED BY <1>3, <2>2 DEF LineMoves, Cand, Cands, AnyBand, Open
<1>5. Steam \subseteq Cands
  <2> DEFINE Series(n) == Committed(n, pass.at - SteamWindow)
             In(n, dir) == Cardinality({i \in Series(n) : moves[i].tag = dir})
             Net(n) == IF In(n, "up") >= In(n, "down") THEN "up" ELSE "down"
             Told(n) == Cand(n, 0, Net(n), Cardinality(Series(n)) \div MinMoves)
  <2>1. Steam \subseteq {Told(n) : n \in Name}
    BY DEF Steam, Open
  <2>2. ASSUME NEW n \in Name PROVE Told(n) \in Cands
    <3>1. DOMAIN moves = 1 .. Len(moves) /\ Len(moves) \in Nat
      BY <1>1
    <3>2. IsFiniteSet(DOMAIN moves)
      BY <3>1, FS_Interval
    <3>3. Cardinality(Series(n)) \in Nat
      <4>1. Series(n) \subseteq DOMAIN moves
        BY <1>3
      <4> QED BY <3>2, <4>1, FS_Subset, FS_CardinalityType
    <3>4. Cardinality(Series(n)) \div MinMoves \in Int
      <4> HIDE DEF Series
      <4> QED BY <3>3, BoundsTyped
    <3>5. Net(n) \in Tags
      BY DEF Tags, MoveTags
    <3> HIDE DEF Series, Net
    <3> QED BY <3>4, <3>5 DEF Cand, Cands
  <2> QED BY <2>1, <2>2
<1>6. WithEdge \subseteq Cands /\ Gone \subseteq Cands
  BY <1>2 DEF WithEdge, Gone, Cand, Cands, Tags
<1> QED BY <1>4, <1>5, <1>6 DEF Found

LEMMA KeyTyped ==
    ASSUME NEW kind, NEW c, c.story \in Name, c.race \in Nat, c.tag \in Tags, c.band \in Int
    PROVE  Key(kind, c) \in Keys
<1>1. Story(kind, c) \in Name \X Nat
  BY DEF Story
<1>2. BandOf(kind, c) \in Int
  BY DEF BandOf, AnyBand
<1> QED BY <1>1, <1>2 DEF Key, Keys

\* The rows of the table stay, but for who was told of them; only _fire adds one.
SameRow(a, b) ==
    /\ a.story = b.story /\ a.race = b.race /\ a.tag = b.tag
    /\ a.band = b.band /\ a.sub = b.sub /\ a.at = b.at
TableKept ==
    /\ Len(alerts) <= Len(alerts')
    /\ \A i \in DOMAIN alerts : i \in DOMAIN alerts' /\ SameRow(alerts[i], alerts'[i])

LEMMA TableMarked ==
    ASSUME TableOK, NEW rows,
           \/ Tell(rows)
           \/ alerts' = SetPushed(rows)
           \/ UNCHANGED alerts
    PROVE  /\ alerts' \in Seq(Rows) /\ DOMAIN alerts' = DOMAIN alerts /\ Len(alerts') = Len(alerts)
           /\ \A i \in DOMAIN alerts : SameRow(alerts[i], alerts'[i])
           /\ TableKept
<1>1. alerts \in Seq(Rows) /\ DOMAIN alerts = 1 .. Len(alerts) /\ Len(alerts) \in Nat
  BY DEF TableOK
<1>2. \A i \in DOMAIN alerts : alerts[i] \in Rows
  BY <1>1
<1>3. DOMAIN alerts' = DOMAIN alerts /\ alerts' = [i \in DOMAIN alerts |-> alerts'[i]]
  BY <1>1 DEF Tell, SetPushed
<1>4. ASSUME NEW i \in DOMAIN alerts
      PROVE  alerts'[i] \in Rows /\ SameRow(alerts[i], alerts'[i])
  <2> DEFINE a == alerts[i]
  <2>1. a \in Rows
    BY <1>2
  <2>2. \/ alerts'[i] = a
        \/ alerts'[i] = [a EXCEPT !.told = @ + 1]
        \/ alerts'[i] = [a EXCEPT !.pushed = TRUE]
    BY DEF Tell, SetPushed
  <2> HIDE DEF a
  <2>3. a.told + 1 \in Nat
    BY <2>1 DEF Rows
  <2>4. [a EXCEPT !.told = @ + 1] \in Rows /\ SameRow(a, [a EXCEPT !.told = @ + 1])
    BY <2>1, <2>3 DEF Rows, SameRow
  <2>5. [a EXCEPT !.pushed = TRUE] \in Rows /\ SameRow(a, [a EXCEPT !.pushed = TRUE])
    BY <2>1 DEF Rows, SameRow
  <2>6. a \in Rows /\ SameRow(a, a)
    BY <2>1 DEF SameRow
  <2>7. alerts'[i] \in Rows /\ SameRow(a, alerts'[i])
    BY <2>2, <2>4, <2>5, <2>6
  <2> QED BY <2>7 DEF a
<1>5. alerts' \in [1 .. Len(alerts) -> Rows]
  BY <1>1, <1>3, <1>4
<1>6. alerts' \in Seq(Rows)
  BY <1>1, <1>5
<1>7. Len(alerts') = Len(alerts)
  BY <1>1, <1>3, <1>6
<1> QED BY <1>1, <1>3, <1>4, <1>6, <1>7 DEF TableKept

LEMMA TableFired ==
    ASSUME TypeInv, NEW c \in pass.cands, Fire(c)
    PROVE  /\ alerts' \in Seq(Rows) /\ Len(alerts') = Len(alerts) + 1
           /\ DOMAIN alerts' = DOMAIN alerts \union {Len(alerts) + 1}
           /\ Len(alerts) + 1 \notin DOMAIN alerts
           /\ \A i \in DOMAIN alerts : alerts'[i] = alerts[i]
           /\ alerts'[Len(alerts) + 1] = Row(c) /\ Row(c) \in Rows /\ TableKept
<1>1. alerts \in Seq(Rows) /\ clock \in Nat /\ pass.cands \subseteq Cands /\ pass.todo # <<>>
  <2>1. pass.step = "judge"
    BY DEF Fire, Judging
  <2>2. pass \in Passes
    BY DEF TypeInv, PassOK
  <2> QED BY <2>1, <2>2, BoundsTyped DEF TypeInv, TableOK, CountersOK, PassOK, Passes, AtWork
<1>2. Working \in Sub /\ c \in Cands
  BY <1>1, WorkingTyped
<1>3. Row(c) \in Rows
  BY <1>1, <1>2 DEF Row, Rows, Cands
<1>4. alerts' = Append(alerts, Row(c))
  BY DEF Fire
<1> HIDE DEF Row
<1>5. alerts' \in Seq(Rows) /\ Len(alerts') = Len(alerts) + 1
      /\ alerts'[Len(alerts) + 1] = Row(c) /\ \A i \in DOMAIN alerts : alerts'[i] = alerts[i]
  BY <1>1, <1>3, <1>4
<1>6. DOMAIN alerts' = DOMAIN alerts \union {Len(alerts) + 1} /\ Len(alerts) + 1 \notin DOMAIN alerts
  BY <1>1, <1>5
<1> QED BY <1>1, <1>3, <1>5, <1>6 DEF TableKept, SameRow

(***************************************************************************)
(* The steps by kind: of the world; of a pass alone; those that write.     *)
(***************************************************************************)

WorldStep ==
    \/ Tick
    \/ \E n \in Name, d \in {"up", "down"}, delay \in 1 .. MaxDelay : Stamp(n, d, delay)
    \/ \E n \in Name : NextRace(n)
    \/ \E n \in Name : \E e \in Edges : Turn(n, e)
    \/ \E f \in Flags : Capture(f)
Between == Begin \/ EndPass \/ Skip \/ Scan
Broken == Raise \/ Kill

LEMMA StepKinds ==
    ASSUME [Next]_vars
    PROVE  \/ UNCHANGED vars
           \/ WorldStep \/ Between \/ Broken
           \/ \E c \in pass.cands : Leave(c) \/ Fire(c)
           \/ \E ok \in BOOLEAN : Push(ok) \/ Digest(ok)
           \/ Mark \/ Advance \/ Settle
  BY DEF Next, PassStep, WorldStep, Between, Broken

LEMMA WorldFrame ==
    ASSUME WorldStep
    PROVE  /\ UNCHANGED <<watch, order, alerts, subs, pass, sent, cut, digested, from, faults>>
           /\ clock' = clock \/ Tick
  BY DEF WorldStep, Tick, Stamp, NextRace, Turn, Capture, config, world, ghosts

LEMMA BetweenFrame ==
    ASSUME Between
    PROVE  UNCHANGED <<clock, watch, order, moves, board, match, turns, alerts, subs, sent, cut,
                       digested, from, faults>>
  BY DEF Between, Begin, EndPass, Skip, Scan, OnlyPass, config, world, ghosts

LEMMA LeaveFrame ==
    ASSUME NEW c, Leave(c)
    PROVE  UNCHANGED <<clock, watch, order, moves, board, match, turns, alerts, subs, sent, cut,
                       digested, from, faults>>
  BY DEF Leave, OnlyPass, config, world, ghosts

LEMMA BrokenFrame ==
    ASSUME Broken
    PROVE  /\ UNCHANGED <<clock, watch, order, moves, board, match, turns, alerts, subs, sent, cut,
                          digested, from>>
           /\ faults < MaxFaults /\ faults' = faults + 1
  BY DEF Broken, Raise, Raises, Kill, config, world, ghosts

LEMMA FireFrame ==
    ASSUME NEW c, Fire(c)
    PROVE  UNCHANGED <<clock, watch, order, moves, board, match, turns, subs, sent, cut,
                       digested, from, faults>>
  BY DEF Fire, config, world, ghosts

LEMMA PushFrame ==
    ASSUME NEW ok, Push(ok)
    PROVE  /\ UNCHANGED <<clock, watch, order, moves, board, match, turns, subs, cut, digested, from>>
           /\ Tell(pass.rows) \/ UNCHANGED alerts
  BY DEF Push, config, world

LEMMA MarkFrame ==
    ASSUME Mark
    PROVE  /\ UNCHANGED <<clock, watch, order, moves, board, match, turns, subs, sent, cut,
                          digested, from, faults>>
           /\ alerts' = SetPushed(pass.rows) \/ UNCHANGED alerts
  BY DEF Mark, config, world, ghosts

LEMMA AdvanceFrame ==
    ASSUME Advance
    PROVE  UNCHANGED <<clock, watch, order, moves, board, match, turns, alerts, sent, digested,
                       faults>>
  BY DEF Advance, config, world

LEMMA DigestFrame ==
    ASSUME NEW ok, Digest(ok)
    PROVE  /\ UNCHANGED <<clock, watch, order, moves, board, match, turns, subs, sent, from>>
           /\ Tell(Latest(Pending(Working))) \/ UNCHANGED alerts
  BY DEF Digest, config, world

LEMMA SettleFrame ==
    ASSUME Settle
    PROVE  /\ UNCHANGED <<clock, watch, order, moves, board, match, turns, sent, cut, digested,
                          faults>>
           /\ alerts' = SetPushed(pass.rows) \/ UNCHANGED alerts
  BY DEF Settle, config, world

LEMMA TableStep ==
    ASSUME TypeInv, [Next]_vars
    PROVE  alerts' \in Seq(Rows) /\ TableKept
<1>1. TableOK
  BY DEF TypeInv
<1>2. CASE UNCHANGED alerts
  BY <1>1, <1>2, TableMarked
<1>3. CASE \E c \in pass.cands : Fire(c)
  BY <1>3, TableFired
<1>4. CASE \E ok \in BOOLEAN : Push(ok) \/ Digest(ok)
  BY <1>1, <1>4, PushFrame, DigestFrame, TableMarked
<1>5. CASE Mark \/ Settle
  BY <1>1, <1>5, MarkFrame, SettleFrame, TableMarked
<1>6. CASE UNCHANGED vars
  <2>1. UNCHANGED alerts
    BY <1>6 DEF vars
  <2> QED BY <1>2, <2>1
<1> QED BY <1>2, <1>3, <1>4, <1>5, <1>6, StepKinds, WorldFrame, BetweenFrame, LeaveFrame,
           BrokenFrame, AdvanceFrame

\* What no step changes, and which way the rest goes.
LEMMA ConfigStep ==
    ASSUME [Next]_vars
    PROVE  UNCHANGED <<watch, order>>
<1>1. CASE UNCHANGED vars
  BY <1>1 DEF vars, config
<1> QED BY <1>1, StepKinds, WorldFrame, BetweenFrame, LeaveFrame, BrokenFrame, FireFrame,
           PushFrame, MarkFrame, AdvanceFrame, DigestFrame, SettleFrame

LEMMA CountersStep ==
    ASSUME TypeInv, [Next]_vars
    PROVE  /\ CountersOK' /\ clock <= clock' /\ faults <= faults'
           /\ \/ faults' = faults
              \/ faults' = faults + 1
<1>1. clock \in 0 .. MaxNow /\ turns \in 0 .. MaxTurns /\ faults \in 0 .. MaxFaults
  BY DEF TypeInv, CountersOK
<1>2. clock' \in 0 .. MaxNow /\ clock <= clock'
  <2>1. CASE Tick
    BY <1>1, <2>1, BoundsTyped DEF Tick
  <2>2. CASE UNCHANGED clock
    BY <1>1, <2>2, BoundsTyped
  <2>3. CASE UNCHANGED vars
    BY <2>2, <2>3 DEF vars
  <2> QED BY <2>1, <2>2, <2>3, StepKinds, WorldFrame, BetweenFrame, LeaveFrame, BrokenFrame,
             FireFrame, PushFrame, MarkFrame, AdvanceFrame, DigestFrame, SettleFrame
<1>3. turns' \in 0 .. MaxTurns
  <2>1. CASE UNCHANGED turns
    BY <1>1, <2>1
  <2>2. CASE WorldStep
    <3>1. turns' = turns \/ (turns < MaxTurns /\ turns' = turns + 1)
      BY <2>2 DEF WorldStep, Tick, Stamp, NextRace, Turn, Capture, Turns, world
    <3> QED BY <1>1, <3>1, BoundsTyped
  <2>3. CASE UNCHANGED vars
    BY <2>1, <2>3 DEF vars, world
  <2> QED BY <2>1, <2>2, <2>3, StepKinds, BetweenFrame, LeaveFrame, BrokenFrame,
             FireFrame, PushFrame, MarkFrame, AdvanceFrame, DigestFrame, SettleFrame
<1>4. faults' \in 0 .. MaxFaults /\ faults <= faults' /\ (faults' = faults \/ faults' = faults + 1)
  <2>1. CASE UNCHANGED faults
    BY <1>1, <2>1
  <2>2. CASE faults < MaxFaults /\ faults' = faults + 1
    BY <1>1, <2>2, BoundsTyped
  <2>3. ASSUME NEW ok \in BOOLEAN, Push(ok) \/ Digest(ok)
        PROVE  UNCHANGED faults \/ (faults < MaxFaults /\ faults' = faults + 1)
    BY <2>3 DEF Push, Digest, MayFail, Counted
  <2>4. CASE UNCHANGED vars
    BY <2>1, <2>4 DEF vars
  <2> QED BY <2>1, <2>2, <2>3, <2>4, StepKinds, WorldFrame, BetweenFrame, LeaveFrame, BrokenFrame,
             FireFrame, MarkFrame, AdvanceFrame, SettleFrame
<1> QED BY <1>2, <1>3, <1>4 DEF CountersOK

LEMMA WorldTyped ==
    ASSUME TypeInv, [Next]_vars
    PROVE  WorldOK'
<1>1. WorldOK /\ clock \in Nat /\ clock' \in Nat /\ clock <= clock'
  BY CountersStep, BoundsTyped DEF TypeInv, CountersOK
<1>2. CASE UNCHANGED <<moves, board>>
  <2>1. \A n \in Name : board[n].since \in Nat
    BY <1>1 DEF WorldOK
  <2>2. \A i \in DOMAIN moves : moves[i].at \in Nat
    <3>1. \A i \in DOMAIN moves : moves[i] \in Moves
      BY <1>1 DEF WorldOK
    <3> QED BY <3>1 DEF Moves
  <2> QED BY <1>1, <1>2, <2>1, <2>2 DEF WorldOK
<1>3. ASSUME NEW n \in Name, NEW d \in MoveTags, NEW delay \in 1 .. MaxDelay, Stamp(n, d, delay)
      PROVE  WorldOK'
  <2> DEFINE m == [story |-> n, race |-> 0, tag |-> d, at |-> clock, by |-> clock + delay]
  <2>1. m \in Moves /\ m.at = clock
    BY <1>1, BoundsTyped DEF Moves
  <2>2. moves' = Append(moves, m) /\ UNCHANGED <<clock, board>>
    BY <1>3 DEF Stamp
  <2> HIDE DEF m
  <2>3. moves \in Seq(Moves) /\ board \in [Name -> [edge : Edges, since : Nat, race : Nat]]
        /\ \A i \in DOMAIN moves : moves[i].at <= clock
        /\ \A k \in Name : board[k].since <= clock
    BY <1>1 DEF WorldOK
  <2>4. moves' \in Seq(Moves)
    BY <2>1, <2>2, <2>3
  <2>5. \A i \in DOMAIN moves' : moves'[i] = m \/ (i \in DOMAIN moves /\ moves'[i] = moves[i])
    BY <2>1, <2>2, <2>3
  <2>6. \A i \in DOMAIN moves' : moves'[i].at <= clock
    BY <1>1, <2>1, <2>3, <2>5
  <2> QED BY <1>1, <2>2, <2>3, <2>4, <2>6 DEF WorldOK
<1>4. ASSUME NEW n \in Name, NEW b, b \in [edge : Edges, since : Nat, race : Nat],
             b.since = clock, board' = [board EXCEPT ![n] = b], UNCHANGED <<clock, moves>>
      PROVE  WorldOK'
  BY <1>1, <1>4 DEF WorldOK
<1>5. ASSUME NEW n \in Name, NextRace(n) PROVE WorldOK'
  <2> DEFINE b == [edge |-> Absent, since |-> clock, race |-> board[n].race + 1]
  <2>1. b \in [edge : Edges, since : Nat, race : Nat] /\ b.since = clock
    BY <1>1, EdgeKinds DEF WorldOK
  <2>2. board' = [board EXCEPT ![n] = b] /\ UNCHANGED <<clock, moves>>
    BY <1>1, <1>5 DEF NextRace, WorldOK
  <2> HIDE DEF b
  <2> QED BY <1>4, <2>1, <2>2
<1>6. ASSUME NEW n \in Name, NEW e \in Edges, Turn(n, e) PROVE WorldOK'
  <2> DEFINE b == [board[n] EXCEPT !.edge = e, !.since = clock]
  <2>1. b \in [edge : Edges, since : Nat, race : Nat] /\ b.since = clock
    BY <1>1 DEF WorldOK
  <2>2. board' = [board EXCEPT ![n] = b] /\ UNCHANGED <<clock, moves>>
    BY <1>1, <1>6 DEF Turn, WorldOK
  <2> HIDE DEF b
  <2> QED BY <1>4, <2>1, <2>2
<1>7. CASE UNCHANGED vars
  BY <1>2, <1>7 DEF vars, world
<1>8. CASE WorldStep
  <2>1. CASE Tick
    BY <1>2, <2>1 DEF Tick, world
  <2>2. CASE \E f \in Flags : Capture(f)
    BY <1>2, <2>2 DEF Capture
  <2> QED BY <1>3, <1>5, <1>6, <1>8, <2>1, <2>2 DEF WorldStep, MoveTags
<1> QED BY <1>2, <1>7, <1>8, StepKinds, BetweenFrame, LeaveFrame, BrokenFrame,
           FireFrame, PushFrame, MarkFrame, AdvanceFrame, DigestFrame, SettleFrame

\* A watch's commit moves the cursor of the watch at work, and of no other.
LEMMA OnwardTyped ==
    ASSUME TypeInv, NEW d \in Int, Onward(d), pass.step \in AtWork, clock' = clock
    PROVE  /\ SubsOK' /\ from' \in [Sub -> Int] /\ Working \in Sub
           /\ subs'[Working].cursor = pass.at
           /\ from'[Working] = (IF Cursor = NoCursor THEN pass.at - Backlog ELSE from[Working])
           /\ \A s \in Sub : s # Working => subs'[s] = subs[s] /\ from'[s] = from[s]
           /\ pass'.step = "next" /\ pass'.at = pass.at /\ pass'.todo = Tail(pass.todo)
           /\ pass'.rows = {} /\ pass' \in Passes
<1>1. pass.todo # <<>> /\ pass.at \in Int /\ pass.at \in 0 .. clock /\ clock \in Nat
      /\ subs \in [Sub -> [cursor : Int, digestAt : Int]] /\ from \in [Sub -> Int]
  <2>1. pass \in Passes /\ clock \in 0 .. MaxNow /\ pass.at \in Never .. clock
    BY DEF TypeInv, PassOK, CountersOK
  <2> QED BY <2>1, BoundsTyped DEF TypeInv, PassOK, Passes, AtWork, Never, SubsOK, GhostsOK
<1>2. Working \in Sub /\ Tail(pass.todo) \in Seq(Sub)
  BY <1>1, WorkingTyped
<1> DEFINE c == [cursor |-> pass.at, digestAt |-> d]
<1>3. c \in [cursor : Int, digestAt : Int] /\ c.cursor = pass.at
  BY <1>1
<1>4. subs' = [subs EXCEPT ![Working] = c]
      /\ from' = (IF Cursor = NoCursor THEN [from EXCEPT ![Working] = Floor] ELSE from)
  BY DEF Onward
<1> HIDE DEF c
<1>5. subs' \in [Sub -> [cursor : Int, digestAt : Int]] /\ subs'[Working] = c
      /\ \A s \in Sub : s # Working => subs'[s] = subs[s]
  BY <1>1, <1>2, <1>3, <1>4
<1>6. \A s \in Sub : subs'[s].cursor \in NoCursor .. clock
  <2>1. c.cursor \in NoCursor .. clock
    BY <1>1, <1>3 DEF NoCursor
  <2> QED BY <1>5, <2>1 DEF TypeInv, SubsOK
<1>7. Cursor = NoCursor => Floor = pass.at - Backlog /\ Floor \in Int
  BY <1>1, BoundsTyped DEF Floor
<1>8. from' \in [Sub -> Int]
      /\ from'[Working] = (IF Cursor = NoCursor THEN pass.at - Backlog ELSE from[Working])
      /\ \A s \in Sub : s # Working => from'[s] = from[s]
  BY <1>1, <1>2, <1>4, <1>7
<1>9. pass' = [Idle EXCEPT !.step = "next", !.at = pass.at, !.todo = Tail(pass.todo)]
  BY DEF Onward
<1>10. /\ pass'.step = "next" /\ pass'.at = pass.at /\ pass'.todo = Tail(pass.todo)
       /\ pass'.rows = Idle.rows /\ pass' \in Passes
  BY <1>1, <1>2, <1>9, IdleTyped DEF Passes
<1> QED BY <1>2, <1>3, <1>5, <1>6, <1>8, <1>10, IdleTyped DEF SubsOK

LEMMA CommitTyped ==
    ASSUME TypeInv, Advance \/ Settle
    PROVE  \E d \in Int : Onward(d) /\ pass.step \in AtWork /\ clock' = clock
<1>1. pass.step \in AtWork /\ clock' = clock
  BY AdvanceFrame, SettleFrame DEF Advance, Settle, Scanned, AtWork
<1>2. pass.todo # <<>> /\ pass.at \in Int /\ subs \in [Sub -> [cursor : Int, digestAt : Int]]
  BY <1>1 DEF TypeInv, PassOK, Passes, SubsOK
<1>3. Working \in Sub
  BY <1>2, WorkingTyped
<1>4. subs[Working].digestAt \in Int
  BY <1>2, <1>3
<1>5. Onward(subs[Working].digestAt) \/ Onward(pass.at)
  BY DEF Advance, Settle
<1> QED BY <1>1, <1>2, <1>4, <1>5

LEMMA SubsTyped ==
    ASSUME TypeInv, [Next]_vars
    PROVE  SubsOK' /\ from' \in [Sub -> Int]
<1>1. SubsOK /\ from \in [Sub -> Int] /\ clock \in Int /\ clock' \in Int /\ clock <= clock'
  BY CountersStep, BoundsTyped DEF TypeInv, CountersOK, GhostsOK
<1>2. CASE UNCHANGED <<subs, from>>
  <2>1. \A s \in Sub : subs[s].cursor \in Int
    BY <1>1 DEF SubsOK
  <2> QED BY <1>1, <1>2, <2>1 DEF SubsOK, NoCursor
<1>3. CASE Advance \/ Settle
  BY <1>3, CommitTyped, OnwardTyped
<1>4. CASE UNCHANGED vars
  BY <1>2, <1>4 DEF vars, ghosts
<1> QED BY <1>2, <1>3, <1>4, StepKinds, WorldFrame, BetweenFrame, LeaveFrame, BrokenFrame,
           FireFrame, PushFrame, MarkFrame, DigestFrame

LEMMA GhostsTyped ==
    ASSUME TypeInv, [Next]_vars
    PROVE  GhostsOK' /\ cut \subseteq cut'
<1>1. /\ cut \subseteq Sub /\ digested \in [Sub -> Nat] /\ \A s \in Sub : digested[s] <= Len(alerts)
      /\ alerts \in Seq(Rows) /\ Len(alerts) \in Nat
  BY DEF TypeInv, GhostsOK, TableOK
<1>2. alerts' \in Seq(Rows) /\ Len(alerts') \in Nat /\ Len(alerts) <= Len(alerts')
  BY TableStep DEF TableKept
<1>3. CASE UNCHANGED cut /\ UNCHANGED digested
  BY <1>1, <1>2, <1>3, SubsTyped DEF GhostsOK
<1>4. ASSUME pass.step = "judge" PROVE Working \in Sub
  <2>1. pass.todo # <<>>
    BY <1>4 DEF TypeInv, PassOK, AtWork
  <2> QED BY <2>1, WorkingTyped
<1>5. CASE Advance
  <2>1. cut' \subseteq Sub /\ cut \subseteq cut' /\ digested' = digested
    BY <1>1, <1>4, <1>5 DEF Advance, Scanned, CutHere
  <2> QED BY <1>1, <1>2, <2>1, SubsTyped DEF GhostsOK
<1>6. ASSUME NEW ok \in BOOLEAN, Digest(ok) PROVE GhostsOK' /\ cut \subseteq cut'
  <2>1. cut' \subseteq Sub /\ cut \subseteq cut' /\ Working \in Sub
    BY <1>1, <1>4, <1>6 DEF Digest, Scanned, CutHere
  <2>2. digested' = (IF ok THEN [digested EXCEPT ![Working] = Len(alerts)] ELSE digested)
    BY <1>6 DEF Digest
  <2>3. digested' \in [Sub -> Nat] /\ \A s \in Sub : digested'[s] <= Len(alerts)
    BY <1>1, <2>1, <2>2
  <2> QED BY <1>1, <1>2, <2>1, <2>3, SubsTyped DEF GhostsOK
<1>7. CASE UNCHANGED vars
  BY <1>3, <1>7 DEF vars, ghosts
<1> QED BY <1>3, <1>5, <1>6, <1>7, StepKinds, WorldFrame, BetweenFrame, LeaveFrame, BrokenFrame,
           FireFrame, PushFrame, MarkFrame, SettleFrame

\* The pass on its way: between two watches, or at work on one.
RestOf(p) ==
    /\ p \in Passes /\ p.step \in {"off", "next"} /\ p.rows = {}
    /\ p.at \in Never .. clock /\ (p.step # "off" => p.at >= 0)
    /\ ToSet(p.todo) \subseteq ToSet(order)
WorkOf(p) ==
    /\ p \in Passes /\ p.step \in AtWork /\ p.at = pass.at /\ p.todo = pass.todo
    /\ p.rows \subseteq DOMAIN alerts'

LEMMA BetweenTyped ==
    ASSUME TypeInv, Between
    PROVE  RestOf(pass') \/ (Scan /\ WorkOf(pass'))
<1>1. pass \in Passes /\ pass.at \in Never .. clock /\ ToSet(pass.todo) \subseteq ToSet(order)
      /\ (pass.step # "off" => pass.at >= 0) /\ order \in Seq(Sub) /\ clock \in Nat
      /\ pass.rows \subseteq DOMAIN alerts
  BY BoundsTyped DEF TypeInv, PassOK, ConfigOK, CountersOK
<1>2. Idle \in Passes /\ Idle.rows = {} /\ ToSet(Idle.todo) = {} /\ Idle.step = "off"
  BY IdleTyped
<1>3. CASE Begin
  <2>1. pass' = [Idle EXCEPT !.step = "next", !.at = clock, !.todo = order, !.open = TRUE]
    BY <1>3 DEF Begin
  <2>2. clock \in Int
    BY <1>1
  <2>3. pass' \in Passes
    BY <1>1, <1>2, <2>1, <2>2 DEF Passes
  <2>4. pass'.step = "next" /\ pass'.at = clock /\ pass'.todo = order /\ pass'.rows = Idle.rows
    BY <1>2, <2>1 DEF Passes
  <2> QED BY <1>1, <1>2, <2>3, <2>4 DEF RestOf, Never
<1>4. CASE EndPass
  <2>1. pass' = [Idle EXCEPT !.at = pass.at]
    BY <1>4 DEF EndPass
  <2>2. pass' \in Passes /\ pass'.step = "off" /\ pass'.at = pass.at /\ pass'.todo = Idle.todo
        /\ pass'.rows = Idle.rows
    BY <1>1, <1>2, <2>1 DEF Passes
  <2> QED BY <1>1, <1>2, <2>2 DEF RestOf, Never
<1>5. CASE Skip
  <2>1. pass' = [pass EXCEPT !.todo = Tail(@)] /\ pass.step = "next" /\ pass.todo # <<>>
    BY <1>5 DEF Skip, AtWatch
  <2>2. Tail(pass.todo) \in Seq(Sub) /\ ToSet(Tail(pass.todo)) \subseteq ToSet(order)
    BY <2>1, WorkingTyped
  <2>3. pass' \in Passes /\ pass'.step = "next" /\ pass'.at = pass.at /\ pass'.todo = Tail(pass.todo)
        /\ pass'.rows = pass.rows
    BY <1>1, <2>1, <2>2 DEF Passes
  <2>4. pass.rows = {}
    BY <2>1 DEF TypeInv, PassOK, AtWork
  <2> QED BY <1>1, <2>1, <2>2, <2>3, <2>4 DEF RestOf
<1>6. CASE Scan
  <2>1. pass' = [pass EXCEPT !.step = "judge", !.cands = Found, !.open = TRUE] /\ pass.todo # <<>>
    BY <1>6 DEF Scan, AtWatch
  <2>2. Found \in SUBSET Cands
    BY <2>1, FoundTyped
  <2>3. pass' \in Passes /\ pass'.step = "judge" /\ pass'.at = pass.at /\ pass'.todo = pass.todo
        /\ pass'.rows = pass.rows
    BY <1>1, <2>1, <2>2 DEF Passes, AtWork
  <2>4. alerts' = alerts
    BY <1>6, BetweenFrame DEF Between
  <2> QED BY <1>1, <1>6, <2>3, <2>4 DEF WorkOf, AtWork
<1> QED BY <1>3, <1>4, <1>5, <1>6 DEF Between

LEMMA ScanToJudge ==
    ASSUME TypeInv, Scan
    PROVE  pass'.step = "judge" /\ pass'.cands = Found /\ pass'.at = pass.at /\ pass'.todo = pass.todo
<1>1. pass \in Passes
  BY DEF TypeInv, PassOK
<1> HIDE DEF Found
<1> QED BY <1>1 DEF Scan, Passes

LEMMA BrokenTyped ==
    ASSUME TypeInv, Broken
    PROVE  RestOf(pass')
<1>1. pass \in Passes /\ pass.at \in Never .. clock /\ (pass.step # "off" => pass.at >= 0)
  BY DEF TypeInv, PassOK
<1>2. Idle \in Passes /\ Idle.rows = {} /\ ToSet(Idle.todo) = {} /\ Idle.step = "off"
  BY IdleTyped
<1>3. CASE Kill
  <2>1. pass' = [Idle EXCEPT !.at = pass.at]
    BY <1>3 DEF Kill
  <2>2. pass' \in Passes /\ pass'.step = "off" /\ pass'.at = pass.at /\ pass'.todo = Idle.todo
        /\ pass'.rows = Idle.rows
    BY <1>1, <1>2, <2>1 DEF Passes
  <2> QED BY <1>1, <1>2, <2>2 DEF RestOf, Never
<1>4. CASE Raise
  <2>1. pass' = [Idle EXCEPT !.step = "next", !.at = pass.at, !.todo = Tail(pass.todo),
                             !.lost = pass.open]
    BY <1>4 DEF Raise, Raises
  <2>2. pass.step # "off" /\ pass.todo # <<>>
    BY <1>4 DEF Raise, Raises, AtWatch, TypeInv, PassOK, AtWork
  <2>3. Tail(pass.todo) \in Seq(Sub) /\ ToSet(Tail(pass.todo)) \subseteq ToSet(order)
    BY <2>2, WorkingTyped
  <2>4. pass.open \in BOOLEAN
    BY <1>1 DEF Passes
  <2>5. pass' \in Passes /\ pass'.step = "next" /\ pass'.at = pass.at
        /\ pass'.todo = Tail(pass.todo) /\ pass'.rows = Idle.rows
    BY <1>1, <1>2, <2>1, <2>3, <2>4 DEF Passes
  <2> QED BY <1>1, <1>2, <2>2, <2>3, <2>5 DEF RestOf
<1> QED BY <1>3, <1>4 DEF Broken

\* How the steps of one watch's work leave the pass.
LEMMA WorkTyped ==
    ASSUME TypeInv
    PROVE  /\ \A c \in pass.cands :
                 /\ Leave(c) => WorkOf(pass') /\ pass'.step = "judge" /\ pass'.cands = pass.cands \ {c}
                                /\ pass'.rows = pass.rows
                 /\ Fire(c) => WorkOf(pass') /\ pass'.step \in {"judge", "push"}
                               /\ pass'.cands = pass.cands \ {c}
           /\ \A ok \in BOOLEAN :
                 /\ Push(ok) => WorkOf(pass') /\ pass'.step = "mark" /\ pass'.cands = pass.cands
                                /\ pass'.rows = pass.rows /\ pass'.ok = ok
                 /\ Digest(ok) => /\ WorkOf(pass') /\ pass'.step = "settle" /\ pass'.cands = {}
                                  /\ pass'.rows = Latest(Pending(Working)) /\ pass'.ok = ok
           /\ Mark => WorkOf(pass') /\ pass'.step = "judge" /\ pass'.cands = pass.cands
                      /\ pass'.rows = {}
<1>1. pass \in Passes /\ pass.rows \subseteq DOMAIN alerts /\ alerts \in Seq(Rows) /\ clock \in Nat
      /\ DOMAIN alerts \subseteq Nat /\ Len(alerts) \in Nat
  BY BoundsTyped DEF TypeInv, PassOK, TableOK, CountersOK
<1>2. ASSUME NEW c \in pass.cands, Leave(c)
      PROVE  WorkOf(pass') /\ pass'.step = "judge" /\ pass'.cands = pass.cands \ {c}
             /\ pass'.rows = pass.rows
  <2>1. pass' = [pass EXCEPT !.cands = @ \ {c}, !.open = TRUE] /\ pass.step = "judge"
    BY <1>2 DEF Leave, Judging
  <2>2. pass' \in Passes /\ pass'.step = "judge" /\ pass'.cands = pass.cands \ {c}
        /\ pass'.rows = pass.rows /\ pass'.at = pass.at /\ pass'.todo = pass.todo
    BY <1>1, <2>1 DEF Passes
  <2> QED BY <1>1, <1>2, <2>2, LeaveFrame DEF WorkOf, AtWork
<1>3. ASSUME NEW c \in pass.cands, Fire(c)
      PROVE  WorkOf(pass') /\ pass'.step \in {"judge", "push"} /\ pass'.cands = pass.cands \ {c}
  <2>1. pass.step = "judge" /\ DOMAIN alerts' = DOMAIN alerts \union {Len(alerts) + 1}
    BY <1>3, TableFired DEF Fire, Judging
  <2>2. pass.fired + 1 \in Nat
    BY <1>1 DEF Passes
  <2>3. CASE Silent(Working)
    <3>1. pass' = [pass EXCEPT !.cands = @ \ {c}, !.fired = @ + 1, !.open = FALSE]
      BY <1>3, <2>3 DEF Fire
    <3>2. pass' \in Passes /\ pass'.step = "judge" /\ pass'.cands = pass.cands \ {c}
          /\ pass'.rows = pass.rows /\ pass'.at = pass.at /\ pass'.todo = pass.todo
      BY <1>1, <2>1, <2>2, <3>1 DEF Passes
    <3> QED BY <1>1, <2>1, <3>2 DEF WorkOf, AtWork
  <2>4. CASE ~Silent(Working)
    <3> DEFINE key == <<Working, Key(Kind, c), clock>>
               rows == {Len(alerts) + 1}
    <3>1. pass' = [pass EXCEPT !.cands = @ \ {c}, !.fired = @ + 1, !.open = FALSE,
                               !.step = "push", !.rows = rows, !.key = key]
      BY <1>3, <2>4 DEF Fire
    <3>2. c \in Cands /\ Working \in Sub
      <4>1. pass.todo # <<>>
        BY <2>1 DEF TypeInv, PassOK, AtWork
      <4> QED BY <1>1, <4>1, WorkingTyped DEF Passes
    <3>3. key \in Sub \X Keys \X Nat /\ rows \in SUBSET Nat
      BY <1>1, <3>2, KeyTyped DEF Cands
    <3> HIDE DEF key, rows
    <3>4. pass' \in Passes /\ pass'.step = "push" /\ pass'.cands = pass.cands \ {c}
          /\ pass'.rows = rows /\ pass'.at = pass.at /\ pass'.todo = pass.todo
      BY <1>1, <2>2, <3>1, <3>3 DEF Passes, AtWork
    <3> QED BY <2>1, <3>4 DEF WorkOf, AtWork, rows
  <2> QED BY <2>3, <2>4
<1>4. ASSUME NEW ok \in BOOLEAN, Push(ok)
      PROVE  WorkOf(pass') /\ pass'.step = "mark" /\ pass'.cands = pass.cands
             /\ pass'.rows = pass.rows /\ pass'.ok = ok
  <2>1. pass' = [pass EXCEPT !.step = "mark", !.ok = ok, !.key = <<>>]
    BY <1>4 DEF Push
  <2>2. pass' \in Passes /\ pass'.step = "mark" /\ pass'.cands = pass.cands
        /\ pass'.rows = pass.rows /\ pass'.at = pass.at /\ pass'.todo = pass.todo
    BY <1>1, <2>1 DEF Passes, AtWork
  <2>3. pass'.ok = ok
    BY <1>1, <2>1 DEF Passes
  <2>4. DOMAIN alerts' = DOMAIN alerts
    BY <1>4, PushFrame, TableMarked DEF TypeInv
  <2> QED BY <1>1, <2>2, <2>3, <2>4 DEF WorkOf, AtWork
<1>5. ASSUME NEW ok \in BOOLEAN, Digest(ok)
      PROVE  WorkOf(pass') /\ pass'.step = "settle" /\ pass'.cands = {}
             /\ pass'.rows = Latest(Pending(Working)) /\ pass'.ok = ok
  <2> DEFINE rows == Latest(Pending(Working))
  <2>1. pass' = [pass EXCEPT !.step = "settle", !.rows = rows, !.ok = ok, !.cands = {}, !.open = TRUE]
    BY <1>5 DEF Digest
  <2>2. rows \subseteq DOMAIN alerts
    BY DEF Latest, Pending
  <2> HIDE DEF rows
  <2>3. pass' \in Passes /\ pass'.step = "settle" /\ pass'.cands = {}
        /\ pass'.rows = rows /\ pass'.at = pass.at /\ pass'.todo = pass.todo
    BY <1>1, <2>1, <2>2 DEF Passes, AtWork
  <2>4. pass'.ok = ok
    BY <1>1, <2>1 DEF Passes
  <2>5. DOMAIN alerts' = DOMAIN alerts
    BY <1>5, DigestFrame, TableMarked DEF TypeInv
  <2> QED BY <2>2, <2>3, <2>4, <2>5 DEF WorkOf, AtWork, rows
<1>6. ASSUME Mark
      PROVE  WorkOf(pass') /\ pass'.step = "judge" /\ pass'.cands = pass.cands /\ pass'.rows = {}
  <2>1. pass' = [pass EXCEPT !.step = "judge", !.rows = {}, !.ok = FALSE, !.open = FALSE]
    BY <1>6 DEF Mark
  <2>2. pass' \in Passes /\ pass'.step = "judge" /\ pass'.cands = pass.cands
        /\ pass'.rows = {} /\ pass'.at = pass.at /\ pass'.todo = pass.todo
    BY <1>1, <2>1 DEF Passes, AtWork
  <2> QED BY <2>2 DEF WorkOf, AtWork
<1> QED BY <1>2, <1>3, <1>4, <1>5, <1>6

LEMMA PassTyped ==
    ASSUME TypeInv, [Next]_vars
    PROVE  PassOK'
<1>1. PassOK /\ clock \in Nat /\ clock' \in Nat /\ clock <= clock' /\ UNCHANGED order
      /\ alerts \in Seq(Rows) /\ alerts' \in Seq(Rows) /\ TableKept
  BY CountersStep, ConfigStep, TableStep, BoundsTyped DEF TypeInv, CountersOK, TableOK
<1>2. DOMAIN alerts \subseteq DOMAIN alerts'
  BY <1>1 DEF TableKept
<1>3. CASE UNCHANGED pass
  BY <1>1, <1>2, <1>3, BoundsTyped DEF PassOK, Passes, Never
<1>4. CASE RestOf(pass')
  BY <1>1, <1>4 DEF RestOf, PassOK, AtWork, Never
<1>5. ASSUME WorkOf(pass'), pass.step # "off", pass.todo # <<>> PROVE PassOK'
  BY <1>1, <1>5 DEF WorkOf, PassOK, Never
<1>6. CASE Scan
  <2>1. WorkOf(pass') \/ RestOf(pass')
    BY <1>6, BetweenTyped DEF Between
  <2>2. pass.step # "off" /\ pass.todo # <<>>
    BY <1>6 DEF Scan, AtWatch
  <2> QED BY <1>4, <1>5, <2>1, <2>2
<1>7. CASE (\E c \in pass.cands : Leave(c) \/ Fire(c)) \/ Mark
           \/ \E ok \in BOOLEAN : Push(ok) \/ Digest(ok)
  <2>1. pass.step \in AtWork
    BY <1>7 DEF Leave, Fire, Judging, Mark, Push, Digest, Scanned, AtWork
  <2>2. pass.step # "off" /\ pass.todo # <<>>
    BY <1>1, <2>1 DEF PassOK, AtWork
  <2>3. WorkOf(pass')
    BY <1>7, WorkTyped
  <2> QED BY <1>5, <2>2, <2>3
<1>8. CASE Advance \/ Settle
  <2>1. pass.step \in AtWork /\ pass'.step = "next" /\ pass'.at = pass.at
        /\ pass'.todo = Tail(pass.todo) /\ pass'.rows = {} /\ pass' \in Passes
    BY <1>8, CommitTyped, OnwardTyped
  <2>2. pass.todo # <<>> /\ pass.at >= 0
    BY <1>1, <2>1 DEF PassOK, AtWork
  <2>3. ToSet(Tail(pass.todo)) \subseteq ToSet(order)
    BY <2>2, WorkingTyped
  <2> QED BY <1>1, <2>1, <2>2, <2>3 DEF PassOK, AtWork, Never
<1>9. CASE UNCHANGED vars
  BY <1>3, <1>9 DEF vars
<1> QED BY <1>3, <1>4, <1>6, <1>7, <1>8, <1>9, StepKinds, WorldFrame, BetweenTyped, BrokenTyped
        DEF Between

LEMMA TypeStep ==
    ASSUME TypeInv, [Next]_vars
    PROVE  TypeInv'
<1>1. ConfigOK'
  BY ConfigStep DEF TypeInv, ConfigOK
<1>2. CountersOK' /\ WorldOK' /\ SubsOK' /\ GhostsOK' /\ PassOK'
  BY CountersStep, WorldTyped, SubsTyped, GhostsTyped, PassTyped
<1>3. TableOK'
  <2>1. alerts \in Seq(Rows) /\ alerts' \in Seq(Rows) /\ clock \in Int /\ clock' \in Int /\ clock <= clock'
    BY TableStep, CountersStep, BoundsTyped DEF TypeInv, TableOK, CountersOK
  <2>2. \A i \in DOMAIN alerts : alerts[i].at \in Int /\ alerts[i].at <= clock
    <3>1. \A i \in DOMAIN alerts : alerts[i] \in Rows
      BY <2>1
    <3> QED BY <3>1 DEF Rows, TypeInv, TableOK
  <2>3. ASSUME NEW c \in pass.cands, Fire(c) PROVE \A i \in DOMAIN alerts' : alerts'[i].at <= clock'
    <3>1. /\ DOMAIN alerts' = DOMAIN alerts \union {Len(alerts) + 1}
          /\ \A i \in DOMAIN alerts : alerts'[i] = alerts[i]
          /\ alerts'[Len(alerts) + 1] = Row(c)
      BY <2>3, TableFired
    <3>2. Row(c).at = clock
      BY DEF Row
    <3> HIDE DEF Row
    <3> QED BY <2>1, <2>2, <3>1, <3>2
  <2>4. ASSUME DOMAIN alerts' = DOMAIN alerts PROVE \A i \in DOMAIN alerts' : alerts'[i].at <= clock'
    BY <2>1, <2>2, <2>4, TableStep DEF TableKept, SameRow
  <2>5. DOMAIN alerts' = DOMAIN alerts \/ \E c \in pass.cands : Fire(c)
    <3>1. CASE UNCHANGED vars
      BY <3>1 DEF vars
    <3> QED BY <3>1, StepKinds, WorldFrame, BetweenFrame, LeaveFrame, BrokenFrame, AdvanceFrame,
               PushFrame, MarkFrame, DigestFrame, SettleFrame, TableMarked DEF TypeInv
  <2> QED BY <2>1, <2>3, <2>4, <2>5 DEF TableOK
<1> QED BY <1>1, <1>2, <1>3 DEF TypeInv

LEMMA TypeInit ==
    ASSUME Init
    PROVE  TypeInv
<1>1. ConfigOK
  <2>1. PICK u \in Setups : watch = u.watch /\ order = u.order
    BY DEF Init
  <2> QED BY <2>1, MonitorAssumption DEF ConfigOK
<1>2. CountersOK
  BY BoundsTyped DEF Init, CountersOK
<1>3. WorldOK
  BY BoundsTyped, EdgeKinds DEF Init, WorldOK
<1>4. TableOK
  BY DEF Init, TableOK
<1>5. SubsOK
  BY DEF Init, SubsOK, NoCursor, Never
<1>6. GhostsOK
  BY DEF Init, GhostsOK, Never
<1>7. PassOK
  <2>1. pass = Idle /\ clock = 0
    BY DEF Init
  <2>2. Idle.at = Never
    BY DEF Idle
  <2> QED BY <2>1, <2>2, IdleTyped DEF PassOK, AtWork, Never
<1> QED BY <1>1, <1>2, <1>3, <1>4, <1>5, <1>6, <1>7 DEF TypeInv

\* The types of the variables, in every reachable state.
THEOREM TypeInvariant == Spec => []TypeInv
<1>1. TypeInv /\ [Next]_vars => TypeInv'
  BY TypeStep
<1> QED BY <1>1, TypeInit, PTL DEF Spec

LEMMA TypesSuffice ==
    ASSUME TypeInv
    PROVE  TypeOK
<1>1. \A n \in Name : board[n].edge \in Edges /\ board[n].since \in 0 .. clock
  BY BoundsTyped DEF TypeInv, WorldOK, CountersOK
<1>2. \A i \in DOMAIN moves : moves[i].at \in 0 .. clock
  <2>1. moves \in Seq(Moves) /\ \A i \in DOMAIN moves : moves[i].at <= clock
    BY DEF TypeInv, WorldOK
  <2>2. \A i \in DOMAIN moves : moves[i] \in Moves
    BY <2>1
  <2>3. \A i \in DOMAIN moves : moves[i].at \in Nat
    BY <2>2 DEF Moves
  <2> QED BY <2>1, <2>3, BoundsTyped DEF TypeInv, CountersOK
<1>3. \A i \in DOMAIN alerts : alerts[i].sub \in Sub /\ alerts[i].at \in 0 .. clock
  <2>1. alerts \in Seq(Rows) /\ \A i \in DOMAIN alerts : alerts[i].at <= clock
    BY DEF TypeInv, TableOK
  <2>2. \A i \in DOMAIN alerts : alerts[i] \in Rows
    BY <2>1
  <2>3. \A i \in DOMAIN alerts : alerts[i].at \in Nat /\ alerts[i].sub \in Sub
    BY <2>2 DEF Rows
  <2> QED BY <2>1, <2>3, BoundsTyped DEF TypeInv, CountersOK
<1> QED BY <1>1, <1>2, <1>3 DEF TypeInv, TypeOK, CountersOK, SubsOK, PassOK

(***************************************************************************)
(* What is pushed was recorded, and recording keeps a window between two.  *)
(***************************************************************************)

Recorded(table, kind, s, key, at) ==
    \E j \in DOMAIN table :
        table[j].sub = s /\ Key(kind, table[j]) = key /\ table[j].at = at
SentInv ==
    /\ \A k \in DOMAIN sent : Recorded(alerts, watch[k[1]].kind, k[1], k[2], sent[k])
    /\ pass.step = "push" =>
         LET key == pass.key  k == <<key[1], key[2]>> IN
         /\ Recorded(alerts, watch[key[1]].kind, key[1], key[2], key[3])
         /\ k \in DOMAIN sent => key[3] - sent[k] > Window

LEMMA SameRowSameKey ==
    ASSUME NEW a, NEW b, SameRow(a, b), NEW kind
    PROVE  Key(kind, a) = Key(kind, b) /\ Story(kind, a) = Story(kind, b)
  BY DEF SameRow, Key, Story, BandOf

LEMMA RecordedStays ==
    ASSUME TypeInv, [Next]_vars, NEW kind, NEW s, NEW key, NEW at,
           Recorded(alerts, kind, s, key, at)
    PROVE  Recorded(alerts', kind, s, key, at)
<1>1. PICK j \in DOMAIN alerts :
        alerts[j].sub = s /\ Key(kind, alerts[j]) = key /\ alerts[j].at = at
  BY DEF Recorded
<1>2. j \in DOMAIN alerts' /\ SameRow(alerts[j], alerts'[j])
  BY TableStep DEF TableKept
<1>3. Key(kind, alerts'[j]) = key
  BY <1>1, <1>2, SameRowSameKey
<1>4. alerts'[j].sub = s /\ alerts'[j].at = at
  BY <1>1, <1>2 DEF SameRow
<1> QED BY <1>2, <1>3, <1>4 DEF Recorded

\* _fire lets nothing pass that stands with the same key inside the window.
LEMMA FiredAfterWindow ==
    ASSUME TypeInv, NEW c \in pass.cands, Fire(c), NEW at, Recorded(alerts, Kind, Working, Key(Kind, c), at)
    PROVE  clock - at > Window
<1>1. PICK j \in DOMAIN alerts : /\ alerts[j].sub = Working /\ alerts[j].at = at
                                 /\ Key(Kind, alerts[j]) = Key(Kind, c)
  BY DEF Recorded
<1>2. ~IsRepeat(alerts, Working, Kind, c, clock)
  BY DEF Fire, IsTold
<1>3. ~(at >= clock - Window)
  BY <1>1, <1>2 DEF IsRepeat
<1>4. at \in Int
  <2>1. alerts[j] \in Rows
    BY <1>1 DEF TypeInv, TableOK
  <2> QED BY <1>1, <2>1 DEF Rows
<1> QED BY <1>3, <1>4, BoundsTyped DEF TypeInv, CountersOK

LEMMA SentStep ==
    ASSUME TypeInv, SentInv, [Next]_vars
    PROVE  /\ SentInv'
           /\ \A k \in DOMAIN sent : sent'[k] # sent[k] => sent'[k] - sent[k] > Window
<1> DEFINE Apart == \A k \in DOMAIN sent : sent'[k] # sent[k] => sent'[k] - sent[k] > Window
<1>1. ASSUME UNCHANGED sent, pass'.step # "push" PROVE SentInv' /\ Apart
  <2>1. \A k \in DOMAIN sent : Recorded(alerts', watch'[k[1]].kind, k[1], k[2], sent[k])
    BY <1>1, RecordedStays, ConfigStep DEF SentInv
  <2> QED BY <1>1, <2>1 DEF SentInv
<1>2. CASE UNCHANGED <<sent, pass>>
  <2>1. \A k \in DOMAIN sent : Recorded(alerts', watch'[k[1]].kind, k[1], k[2], sent[k])
    BY RecordedStays, ConfigStep DEF SentInv
  <2>2. pass.step = "push" => Recorded(alerts', watch'[pass.key[1]].kind, pass.key[1], pass.key[2], pass.key[3])
    BY RecordedStays, ConfigStep DEF SentInv
  <2>3. UNCHANGED pass.key
    BY <1>2
  <2> QED BY <1>2, <2>1, <2>2, <2>3 DEF SentInv
<1>3. ASSUME NEW c \in pass.cands, Fire(c) PROVE SentInv' /\ Apart
  <2>1. CASE Silent(Working)
    <3>1. pass'.step # "push"
      <4>1. pass \in Passes /\ pass.step = "judge"
        BY <1>3 DEF TypeInv, PassOK, Fire, Judging
      <4>2. pass' = [pass EXCEPT !.cands = @ \ {c}, !.fired = @ + 1, !.open = FALSE]
        BY <1>3, <2>1 DEF Fire
      <4> QED BY <4>1, <4>2 DEF Passes
    <3> QED BY <1>1, <1>3, <3>1, FireFrame
  <2>2. CASE ~Silent(Working)
    <3> DEFINE key == <<Working, Key(Kind, c), clock>>
    <3>1. pass'.key = key
      <4>1. pass \in Passes
        BY DEF TypeInv, PassOK
      <4>2. pass' = [pass EXCEPT !.cands = @ \ {c}, !.fired = @ + 1, !.open = FALSE,
                                 !.step = "push", !.rows = {Len(alerts) + 1}, !.key = key]
        BY <1>3, <2>2 DEF Fire
      <4> HIDE DEF key
      <4> QED BY <4>1, <4>2 DEF Passes
    <3>2. key[1] = Working /\ key[2] = Key(Kind, c) /\ key[3] = clock
      OBVIOUS
    <3>3. Recorded(alerts', watch'[key[1]].kind, key[1], key[2], key[3])
      <4> DEFINE j == Len(alerts) + 1
      <4>1. j \in DOMAIN alerts' /\ alerts'[j] = Row(c)
        BY <1>3, TableFired
      <4>2. Row(c).sub = Working /\ Row(c).at = clock /\ Key(Kind, Row(c)) = Key(Kind, c)
        BY DEF Row, Key, Story, BandOf
      <4>3. Kind = watch'[Working].kind
        BY ConfigStep DEF Kind
      <4> HIDE DEF j, key, Row, Kind, Working
      <4> QED BY <3>2, <4>1, <4>2, <4>3 DEF Recorded
    <3>4. <<Working, Key(Kind, c)>> \in DOMAIN sent
             => clock - sent[<<Working, Key(Kind, c)>>] > Window
      <4> DEFINE k == <<Working, Key(Kind, c)>>
      <4>1. k[1] = Working /\ k[2] = Key(Kind, c)
        OBVIOUS
      <4> HIDE DEF k
      <4>2. k \in DOMAIN sent => Recorded(alerts, Kind, Working, Key(Kind, c), sent[k])
        BY <4>1 DEF SentInv, Kind
      <4>3. k \in DOMAIN sent => clock - sent[k] > Window
        BY <1>3, <4>2, FiredAfterWindow
      <4> QED BY <4>3 DEF k
    <3>5. \A k \in DOMAIN sent : Recorded(alerts', watch'[k[1]].kind, k[1], k[2], sent[k])
      BY RecordedStays, ConfigStep DEF SentInv
    <3>6. sent' = sent
      BY <1>3, FireFrame
    <3> HIDE DEF key
    <3> QED BY <3>1, <3>2, <3>3, <3>4, <3>5, <3>6 DEF SentInv
  <2> QED BY <2>1, <2>2
<1>4. ASSUME NEW ok \in BOOLEAN, Push(ok) PROVE SentInv' /\ Apart
  <2>1. pass.step = "push" /\ pass'.step = "mark"
    BY <1>4, WorkTyped DEF Push
  <2>2. CASE ~ok
    BY <1>1, <1>4, <2>1, <2>2 DEF Push
  <2>3. CASE ok
    <3> DEFINE key == <<pass.key[1], pass.key[2]>>
    <3>1. sent' = [k \in DOMAIN sent \union {key} |-> IF k = key THEN pass.key[3] ELSE sent[k]]
      BY <1>4, <2>3 DEF Push
    <3>2. key[1] = pass.key[1] /\ key[2] = pass.key[2]
      OBVIOUS
    <3>3. key \in DOMAIN sent => pass.key[3] - sent[key] > Window
      BY <2>1 DEF SentInv
    <3>4. Recorded(alerts', watch'[key[1]].kind, key[1], key[2], pass.key[3])
      <4>1. Recorded(alerts, watch[pass.key[1]].kind, pass.key[1], pass.key[2], pass.key[3])
        BY <2>1 DEF SentInv
      <4> QED BY <3>2, <4>1, RecordedStays, ConfigStep
    <3>5. \A k \in DOMAIN sent : Recorded(alerts', watch'[k[1]].kind, k[1], k[2], sent[k])
      BY RecordedStays, ConfigStep DEF SentInv
    <3> HIDE DEF key
    <3>6. DOMAIN sent' = DOMAIN sent \union {key}
          /\ \A k \in DOMAIN sent' : sent'[k] = IF k = key THEN pass.key[3] ELSE sent[k]
      BY <3>1
    <3>7. \A k \in DOMAIN sent' : Recorded(alerts', watch'[k[1]].kind, k[1], k[2], sent'[k])
      BY <3>4, <3>5, <3>6
    <3> QED BY <2>1, <3>3, <3>6, <3>7 DEF SentInv
  <2> QED BY <2>2, <2>3
<1>5. CASE UNCHANGED vars
  BY <1>2, <1>5 DEF vars, ghosts
<1>6. CASE Between \/ Broken
  <2>1. pass'.step # "push" /\ UNCHANGED sent
    BY <1>6, BetweenTyped, BrokenTyped, BetweenFrame, BrokenFrame, ScanToJudge DEF RestOf
  <2> QED BY <1>1, <2>1
<1>7. CASE Mark \/ (\E c \in pass.cands : Leave(c)) \/ \E ok \in BOOLEAN : Digest(ok)
  <2>1. pass'.step # "push" /\ UNCHANGED sent
    BY <1>7, WorkTyped, LeaveFrame, MarkFrame, DigestFrame
  <2> QED BY <1>1, <2>1
<1>8. CASE Advance \/ Settle
  <2>1. pass'.step # "push" /\ UNCHANGED sent
    BY <1>8, CommitTyped, OnwardTyped, AdvanceFrame, SettleFrame
  <2> QED BY <1>1, <2>1
<1> QED BY <1>1, <1>2, <1>3, <1>4, <1>5, <1>6, <1>7, <1>8, StepKinds, WorldFrame

\* For any watches and keys, whatever pass is killed, raises or fails to push: the second
\* message of a key goes out more than a window after the first was judged.
THEOREM PushesAreApart == Spec => NoSecondPush
<1>1. Init => SentInv
  BY DEF Init, SentInv, Idle
<1>2. TypeInv /\ SentInv /\ [Next]_vars => TypeInv' /\ SentInv'
  BY TypeStep, SentStep
<1>3. TypeInv /\ SentInv /\ [Next]_vars
        => \A k \in DOMAIN sent : sent'[k] # sent[k] => sent'[k] - sent[k] > Window
  BY SentStep
<1> QED BY <1>1, <1>2, <1>3, TypeInit, PTL DEF Spec, NoSecondPush

(***************************************************************************)
(* A move a watch has passed was told of; one it is passing is in hand.    *)
(***************************************************************************)

Heard(table, s, m) ==
    \E j \in DOMAIN table :
        /\ table[j].sub = s /\ table[j].story = m.story /\ table[j].tag = m.tag
        /\ table[j].at >= m.by - Window
\* A move a pass at `upTo` owes, if the watch has looked from `since` on.
Due(m, b, upTo, since) ==
    m.by - m.at <= Lag /\ m.by <= upTo /\ m.at > since /\ b[m.story].edge # Shut
CandOf(m) == Cand(m.story, 0, m.tag, AnyBand)
LooksFrom == IF Cursor = NoCursor THEN pass.at - Backlog ELSE from[Working]

PassedInv ==
    \A s \in Sub : watch[s].kind = "line_move" =>
        \A i \in DOMAIN moves :
            Due(moves[i], board, subs[s].cursor, from[s]) => s \in cut \/ Heard(alerts, s, moves[i])
PassingInv ==
    pass.step \in AtWork /\ Kind = "line_move" =>
        \A i \in DOMAIN moves :
            Due(moves[i], board, pass.at, LooksFrom) =>
                Working \in cut \/ CandOf(moves[i]) \in pass.cands \/ Heard(alerts, Working, moves[i])
\* Only watches in use have a cursor; a pass settles with nothing in hand.
InUse ==
    /\ \A s \in Sub : subs[s].cursor # NoCursor => s \in ToSet(order)
    /\ pass.step = "settle" => pass.cands = {}
MovesInv == PassedInv /\ PassingInv /\ InUse

LEMMA MovesTyped ==
    ASSUME TypeInv
    PROVE  /\ \A i \in DOMAIN moves : moves[i].at \in Nat /\ moves[i].by \in Nat
                                      /\ moves[i].story \in Name /\ moves[i].tag \in MoveTags
           /\ pass.at \in Int /\ clock \in Nat /\ pass.at <= clock
           /\ \A s \in Sub : subs[s].cursor \in Int /\ subs[s].cursor <= clock /\ from[s] \in Int
           /\ \A i \in DOMAIN alerts : alerts[i].at \in Nat /\ alerts[i].at <= clock
<1>1. \A i \in DOMAIN moves : moves[i] \in Moves
  BY DEF TypeInv, WorldOK
<1>2. \A i \in DOMAIN alerts : alerts[i] \in Rows
  BY DEF TypeInv, TableOK
<1>3. \A i \in DOMAIN alerts : alerts[i].at \in Nat /\ alerts[i].at <= clock
  BY <1>2 DEF Rows, TypeInv, TableOK
<1>4. clock \in Nat /\ pass.at \in Never .. clock
  BY BoundsTyped DEF TypeInv, CountersOK, PassOK
<1>5. \A s \in Sub : subs[s].cursor \in NoCursor .. clock /\ from[s] \in Int
  BY DEF TypeInv, SubsOK, GhostsOK
<1> QED BY <1>1, <1>3, <1>4, <1>5 DEF Moves, Never, NoCursor

LEMMA HeardStays ==
    ASSUME TypeInv, [Next]_vars, NEW s, NEW m, Heard(alerts, s, m)
    PROVE  Heard(alerts', s, m)
<1>1. PICK j \in DOMAIN alerts :
        /\ alerts[j].sub = s /\ alerts[j].story = m.story /\ alerts[j].tag = m.tag
        /\ alerts[j].at >= m.by - Window
  BY DEF Heard
<1>2. j \in DOMAIN alerts' /\ SameRow(alerts[j], alerts'[j])
  BY TableStep DEF TableKept
<1> QED BY <1>1, <1>2 DEF Heard, SameRow

\* A step of the world brings no move that is due, and opens nothing again.
LEMMA WorldKeepsMoves ==
    ASSUME TypeInv, MovesInv, WorldStep, NEW s \in Sub, s \in ToSet(order),
           watch[s].kind = "line_move", NEW upTo \in Int, upTo <= clock, NEW since \in Int,
           NEW i \in DOMAIN moves', Due(moves'[i], board', upTo, since)
    PROVE  i \in DOMAIN moves /\ moves'[i] = moves[i] /\ Due(moves[i], board, upTo, since)
<1>1. KindsUsed \intersect MoveKinds # {}
  BY DEF KindsUsed, MoveKinds
<1>2. CASE UNCHANGED <<moves, board>>
  BY <1>2
<1>3. ASSUME NEW n \in Name, NEW d \in {"up", "down"}, NEW delay \in 1 .. MaxDelay,
             Stamp(n, d, delay)
      PROVE  i \in DOMAIN moves /\ moves'[i] = moves[i] /\ UNCHANGED board
  <2> DEFINE m == [story |-> n, race |-> 0, tag |-> d, at |-> clock, by |-> clock + delay]
  <2>1. moves' = Append(moves, m) /\ moves \in Seq(Moves) /\ UNCHANGED board
    BY <1>3 DEF Stamp, TypeInv, WorldOK
  <2>2. m.by > clock
    BY MovesTyped, BoundsTyped
  <2> HIDE DEF m
  <2>3. moves'[i] = m \/ (i \in DOMAIN moves /\ moves'[i] = moves[i])
    BY <2>1
  <2>4. ~(m.by <= upTo)
    <3>1. m.by \in Int
      BY MovesTyped, BoundsTyped DEF m
    <3> QED BY <2>2, <3>1, MovesTyped
  <2> QED BY <2>1, <2>3, <2>4 DEF Due
<1>4. ASSUME NEW n \in Name, NEW e \in Edges, Turn(n, e)
      PROVE  moves' = moves /\ \A k \in Name : board'[k].edge # Shut => board[k].edge # Shut
  BY <1>4 DEF Turn, TypeInv, WorldOK
<1>5. ~\E n \in Name : NextRace(n)
  BY <1>1 DEF NextRace
<1>6. CASE Tick \/ \E f \in Flags : Capture(f)
  BY <1>2, <1>6 DEF Tick, Capture, world
<1>7. CASE \E n \in Name : \E e \in Edges : Turn(n, e)
  <2>1. moves' = moves /\ \A k \in Name : board'[k].edge # Shut => board[k].edge # Shut
    BY <1>4, <1>7
  <2> QED BY <2>1, MovesTyped DEF Due
<1> QED BY <1>3, <1>5, <1>6, <1>7 DEF WorldStep

\* A scan finds what is due and was not told of yet.
LEMMA ScanFindsMoves ==
    ASSUME TypeInv, MovesInv, Scan, Kind = "line_move",
           NEW i \in DOMAIN moves, Due(moves[i], board, pass.at, LooksFrom)
    PROVE  Working \in cut \/ CandOf(moves[i]) \in Found \/ Heard(alerts, Working, moves[i])
<1> DEFINE m == moves[i]
<1>1. Working \in Sub
  BY WorkingTyped DEF Scan, AtWatch
<1>2. m.at \in Nat /\ m.by \in Nat /\ m.story \in Name /\ pass.at \in Int /\ clock \in Nat
      /\ pass.at <= clock /\ Cursor \in Int /\ m.by <= pass.at /\ m.by - m.at <= Lag
  BY <1>1, MovesTyped DEF Cursor, Due
<1>3. CASE Cursor # NoCursor /\ m.by <= Cursor
  <2>1. Due(m, board, subs[Working].cursor, from[Working])
    BY <1>3 DEF Due, LooksFrom, Cursor
  <2> QED BY <1>1, <2>1 DEF MovesInv, PassedInv, Kind
<1>4. CASE Cursor = NoCursor \/ m.by > Cursor
  <2>1. m.at > Floor
    <3>1. CASE Cursor = NoCursor
      BY <3>1 DEF Due, LooksFrom, Floor
    <3>2. CASE Cursor # NoCursor
      BY <1>2, <1>4, <3>2, BoundsTyped DEF Floor
    <3> QED BY <3>1, <3>2
  <2>2. i \in Committed(m.story, Floor) /\ m.story \in Open
    BY <1>2, <2>1 DEF Committed, Due, Open
  <2>3. CandOf(m) \in LineMoves
    BY <2>2 DEF LineMoves, CandOf
  <2> QED BY <2>3 DEF Found
<1> QED BY <1>2, <1>3, <1>4

\* A candidate is let go when its like stands inside the window; otherwise it is recorded.
LEMMA JudgedMove ==
    ASSUME TypeInv, [Next]_vars, NEW m, m.by \in Nat, m.by <= pass.at, m.tag \in MoveTags,
           Kind = "line_move", CandOf(m) \in pass.cands, Leave(CandOf(m)) \/ Fire(CandOf(m))
    PROVE  Heard(alerts', Working, m)
<1> DEFINE c == CandOf(m)
<1>1. c.story = m.story /\ c.tag = m.tag /\ clock \in Nat /\ pass.at \in Int /\ pass.at <= clock
  BY MovesTyped DEF CandOf, Cand
<1>2. clock - Window >= m.by - Window
  BY <1>1, BoundsTyped
<1>3. CASE Leave(c)
  <2>1. ~IsTold(c)
    BY <1>3 DEF Leave
  <2>2. IsNews(alerts, Working, Kind, c, clock)
    BY <1>1 DEF IsNews, Ratchets, MoveTags
  <2>3. PICK j \in DOMAIN alerts :
          /\ alerts[j].sub = Working /\ Key(Kind, alerts[j]) = Key(Kind, c)
          /\ alerts[j].at >= clock - Window
    BY <2>1, <2>2 DEF IsTold, IsRepeat
  <2>4. alerts[j].story = c.story /\ alerts[j].tag = c.tag
    BY <2>3 DEF Key, Story
  <2>5. alerts[j].at >= m.by - Window
    BY <1>1, <1>2, <2>3, MovesTyped, BoundsTyped
  <2>6. Heard(alerts, Working, m)
    BY <1>1, <2>3, <2>4, <2>5 DEF Heard
  <2> QED BY <2>6, HeardStays
<1>4. CASE Fire(c)
  <2> DEFINE j == Len(alerts) + 1
  <2>1. j \in DOMAIN alerts' /\ alerts'[j] = Row(c)
    BY <1>4, TableFired
  <2>2. Row(c).sub = Working /\ Row(c).story = c.story /\ Row(c).tag = c.tag /\ Row(c).at = clock
    BY DEF Row
  <2> HIDE DEF j, c, Row, Working
  <2>3. clock >= m.by - Window
    BY <1>1, <1>2, BoundsTyped
  <2> QED BY <1>1, <2>1, <2>2, <2>3 DEF Heard
<1> QED BY <1>3, <1>4

LEMMA PassedStep ==
    ASSUME TypeInv, MovesInv, [Next]_vars
    PROVE  PassedInv'
<1>1. cut \subseteq cut' /\ UNCHANGED <<watch, order>>
  BY GhostsTyped, ConfigStep
<1>2. ASSUME NEW s \in Sub, watch[s].kind = "line_move", UNCHANGED <<moves, board>>,
             UNCHANGED subs[s], UNCHANGED from[s], NEW i \in DOMAIN moves,
             Due(moves[i], board, subs[s].cursor, from[s])
      PROVE  s \in cut' \/ Heard(alerts', s, moves[i])
  <2>1. s \in cut \/ Heard(alerts, s, moves[i])
    BY <1>2 DEF MovesInv, PassedInv
  <2> QED BY <1>1, <2>1, HeardStays
<1>3. CASE UNCHANGED <<moves, board, subs, from>>
  BY <1>1, <1>2, <1>3 DEF PassedInv
<1>4. CASE WorldStep
  <2> SUFFICES ASSUME NEW s \in Sub, watch[s].kind = "line_move", NEW i \in DOMAIN moves',
                      Due(moves'[i], board', subs[s].cursor, from[s])
               PROVE  s \in cut' \/ Heard(alerts', s, moves'[i])
    BY <1>1, <1>4, WorldFrame DEF PassedInv
  <2>1. s \in ToSet(order)
    <3>1. moves'[i].by \in Nat
      <4>1. moves' \in Seq(Moves)
        BY WorldTyped DEF WorldOK
      <4>2. moves'[i] \in Moves
        BY <4>1
      <4> QED BY <4>2 DEF Moves
    <3>2. subs[s].cursor # NoCursor
      BY <3>1, MovesTyped DEF Due, NoCursor
    <3> QED BY <3>2 DEF MovesInv, InUse
  <2>2. i \in DOMAIN moves /\ moves'[i] = moves[i] /\ Due(moves[i], board, subs[s].cursor, from[s])
    BY <1>4, <2>1, MovesTyped, WorldKeepsMoves
  <2>3. s \in cut \/ Heard(alerts, s, moves[i])
    BY <2>2 DEF MovesInv, PassedInv
  <2> QED BY <1>1, <2>2, <2>3, HeardStays
<1>5. CASE Advance \/ Settle
  <2>1. PICK d \in Int : Onward(d) /\ pass.step \in AtWork /\ clock' = clock
    BY <1>5, CommitTyped
  <2>2. /\ Working \in Sub /\ subs'[Working].cursor = pass.at /\ from'[Working] = LooksFrom
        /\ \A s \in Sub : s # Working => subs'[s] = subs[s] /\ from'[s] = from[s]
    BY <2>1, OnwardTyped DEF LooksFrom
  <2>3. UNCHANGED <<moves, board>>
    BY <1>5, AdvanceFrame, SettleFrame
  <2>4. pass.cands = {} \/ Working \in cut'
    BY <1>5 DEF Advance, Settle, Scanned, CutHere, MovesInv, InUse
  <2>5. ASSUME Kind = "line_move", NEW i \in DOMAIN moves, Due(moves[i], board, pass.at, LooksFrom)
        PROVE  Working \in cut' \/ Heard(alerts', Working, moves[i])
    <3>1. Working \in cut \/ CandOf(moves[i]) \in pass.cands \/ Heard(alerts, Working, moves[i])
      BY <2>1, <2>5 DEF MovesInv, PassingInv
    <3> QED BY <1>1, <2>4, <3>1, HeardStays
  <2> SUFFICES ASSUME NEW s \in Sub, watch[s].kind = "line_move", NEW i \in DOMAIN moves,
                      Due(moves[i], board, subs'[s].cursor, from'[s])
               PROVE  s \in cut' \/ Heard(alerts', s, moves[i])
    BY <1>1, <2>3 DEF PassedInv
  <2>6. CASE s = Working
    BY <2>2, <2>5, <2>6 DEF Kind
  <2>7. CASE s # Working
    BY <1>2, <2>2, <2>3, <2>7
  <2> QED BY <2>6, <2>7
<1>6. CASE UNCHANGED vars
  BY <1>3, <1>6 DEF vars, world, ghosts
<1> QED BY <1>3, <1>4, <1>5, <1>6, StepKinds, BetweenFrame, LeaveFrame, BrokenFrame, FireFrame,
           PushFrame, MarkFrame, DigestFrame

LEMMA PassingStep ==
    ASSUME TypeInv, MovesInv, [Next]_vars
    PROVE  PassingInv'
<1>1. cut \subseteq cut' /\ UNCHANGED <<watch, order>>
  BY GhostsTyped, ConfigStep
<1>2. CASE pass'.step \notin AtWork
  BY <1>2 DEF PassingInv
<1>3. ASSUME pass'.todo = pass.todo, UNCHANGED <<subs, from>>, pass'.at = pass.at
      PROVE  Working' = Working /\ Kind' = Kind /\ LooksFrom' = LooksFrom
  BY <1>1, <1>3 DEF Working, Kind, LooksFrom, Cursor
<1>4. ASSUME WorkOf(pass'), pass.step \in AtWork, UNCHANGED <<subs, from, moves, board>>,
             \A i \in DOMAIN moves :
                Kind = "line_move" /\ CandOf(moves[i]) \in pass.cands
                  /\ Due(moves[i], board, pass.at, LooksFrom)
                => \/ Working \in cut' \/ CandOf(moves[i]) \in pass'.cands
                   \/ Heard(alerts', Working, moves[i])
      PROVE  PassingInv'
  <2>1. pass'.at = pass.at /\ Working' = Working /\ Kind' = Kind /\ LooksFrom' = LooksFrom
    BY <1>3, <1>4 DEF WorkOf
  <2> SUFFICES ASSUME Kind = "line_move", NEW i \in DOMAIN moves,
                      Due(moves[i], board, pass.at, LooksFrom)
               PROVE  \/ Working \in cut' \/ CandOf(moves[i]) \in pass'.cands
                      \/ Heard(alerts', Working, moves[i])
    BY <1>4, <2>1 DEF PassingInv
  <2>2. Working \in cut \/ CandOf(moves[i]) \in pass.cands \/ Heard(alerts, Working, moves[i])
    BY <1>4 DEF MovesInv, PassingInv
  <2> QED BY <1>1, <1>4, <2>2, HeardStays
<1>5. ASSUME NEW c \in pass.cands, Leave(c) \/ Fire(c) PROVE PassingInv'
  <2>1. WorkOf(pass') /\ pass'.cands = pass.cands \ {c} /\ pass.step \in AtWork
    BY <1>5, WorkTyped DEF Leave, Fire, Judging, AtWork
  <2>2. UNCHANGED <<subs, from, moves, board>>
    BY <1>5, LeaveFrame, FireFrame
  <2>3. ASSUME NEW i \in DOMAIN moves, Kind = "line_move", CandOf(moves[i]) = c,
               Due(moves[i], board, pass.at, LooksFrom)
        PROVE  Heard(alerts', Working, moves[i])
    BY <1>5, <2>3, MovesTyped, JudgedMove DEF Due
  <2> QED BY <1>4, <2>1, <2>2, <2>3
<1>6. CASE Mark \/ \E ok \in BOOLEAN : Push(ok) \/ Digest(ok)
  <2>1. WorkOf(pass') /\ pass.step \in AtWork
    BY <1>6, WorkTyped DEF Mark, Push, Digest, Scanned, AtWork
  <2>2. UNCHANGED <<subs, from, moves, board>>
    BY <1>6, MarkFrame, PushFrame, DigestFrame
  <2>3. pass'.cands = pass.cands \/ pass.cands = {} \/ Working \in cut'
    BY <1>6, WorkTyped DEF Digest, CutHere
  <2> QED BY <1>4, <2>1, <2>2, <2>3
<1>7. CASE Scan
  <2>1. pass'.cands = Found /\ pass'.at = pass.at /\ pass'.todo = pass.todo
    BY <1>7, ScanToJudge
  <2>2. UNCHANGED <<subs, from, moves, board, cut, alerts>>
    BY <1>7, BetweenFrame DEF Between
  <2>3. Working' = Working /\ Kind' = Kind /\ LooksFrom' = LooksFrom
    BY <1>3, <2>1, <2>2
  <2>4. \A i \in DOMAIN moves : Kind = "line_move" /\ Due(moves[i], board, pass.at, LooksFrom) =>
            Working \in cut \/ CandOf(moves[i]) \in Found \/ Heard(alerts, Working, moves[i])
    BY <1>7, ScanFindsMoves
  <2> HIDE DEF Found
  <2> QED BY <2>1, <2>2, <2>3, <2>4 DEF PassingInv
<1>8. CASE WorldStep
  <2>1. UNCHANGED <<pass, subs, from, alerts, cut>>
    BY <1>8, WorldFrame
  <2>2. Working' = Working /\ Kind' = Kind /\ LooksFrom' = LooksFrom
    BY <1>3, <2>1
  <2> SUFFICES ASSUME pass.step \in AtWork, Kind = "line_move", NEW i \in DOMAIN moves',
                      Due(moves'[i], board', pass.at, LooksFrom)
               PROVE  \/ Working \in cut \/ CandOf(moves'[i]) \in pass.cands
                      \/ Heard(alerts, Working, moves'[i])
    BY <2>1, <2>2 DEF PassingInv
  <2>3. Working \in Sub /\ Working \in ToSet(order)
    BY WorkingTyped DEF TypeInv, PassOK
  <2>4. LooksFrom \in Int
    BY <2>3, MovesTyped, BoundsTyped DEF LooksFrom
  <2>5. i \in DOMAIN moves /\ moves'[i] = moves[i] /\ Due(moves[i], board, pass.at, LooksFrom)
    BY <1>8, <2>3, <2>4, MovesTyped, WorldKeepsMoves DEF Kind
  <2> QED BY <2>5 DEF MovesInv, PassingInv
<1>9. CASE UNCHANGED vars
  <2>1. UNCHANGED <<pass, subs, from, alerts, cut, moves, board>>
    BY <1>9 DEF vars, world, ghosts
  <2>2. Working' = Working /\ Kind' = Kind /\ LooksFrom' = LooksFrom
    BY <1>3, <2>1
  <2> QED BY <2>1, <2>2 DEF MovesInv, PassingInv
<1>10. CASE (Between /\ ~Scan) \/ Broken \/ Advance \/ Settle
  <2>1. pass'.step \notin AtWork
    BY <1>10, BetweenTyped, BrokenTyped, CommitTyped, OnwardTyped DEF RestOf, AtWork
  <2> QED BY <1>2, <2>1
<1> QED BY <1>5, <1>6, <1>7, <1>8, <1>9, <1>10, StepKinds

LEMMA InUseStep ==
    ASSUME TypeInv, InUse, [Next]_vars
    PROVE  InUse'
<1>1. UNCHANGED order
  BY ConfigStep
<1>2. CASE UNCHANGED <<subs, pass>>
  BY <1>1, <1>2 DEF InUse
<1>3. CASE UNCHANGED subs /\ (pass'.step # "settle" \/ pass'.cands = {})
  BY <1>1, <1>3 DEF InUse
<1>4. CASE Advance \/ Settle
  <2>1. PICK d \in Int : Onward(d) /\ pass.step \in AtWork /\ clock' = clock
    BY <1>4, CommitTyped
  <2>2. pass'.step = "next" /\ \A s \in Sub : s # Working => subs'[s] = subs[s]
    BY <2>1, OnwardTyped
  <2>3. Working \in ToSet(order)
    BY <2>1, WorkingTyped DEF TypeInv, PassOK
  <2> QED BY <1>1, <2>2, <2>3 DEF InUse
<1>5. CASE Between \/ Broken
  <2>1. pass'.step # "settle" /\ UNCHANGED subs
    BY <1>5, BetweenTyped, ScanToJudge, BrokenTyped, BetweenFrame, BrokenFrame DEF RestOf
  <2> QED BY <1>3, <2>1
<1>6. CASE (\E c \in pass.cands : Leave(c) \/ Fire(c)) \/ Mark \/ \E ok \in BOOLEAN : Push(ok) \/ Digest(ok)
  <2>1. UNCHANGED subs /\ (pass'.step # "settle" \/ pass'.cands = {})
    BY <1>6, WorkTyped, LeaveFrame, FireFrame, MarkFrame, PushFrame, DigestFrame
  <2> QED BY <1>3, <2>1
<1>7. CASE UNCHANGED vars
  BY <1>2, <1>7 DEF vars
<1> QED BY <1>2, <1>4, <1>5, <1>6, <1>7, StepKinds, WorldFrame

\* For any stories, lags and windows, whatever pass is killed or raises: a move committed
\* inside the safety lag is told of once the watch's cursor has reached it, but for the
\* moves the property names.
THEOREM MovesHeard == Spec => []MovesAreHeard
<1>1. Init => MovesInv
  <2>1. ASSUME Init PROVE PassedInv
    <3>1. moves = <<>>
      BY <2>1 DEF Init
    <3> QED BY <3>1 DEF PassedInv
  <2>2. ASSUME Init PROVE PassingInv /\ InUse
    <3>1. pass.step = "off" /\ subs = [s \in Sub |-> [cursor |-> NoCursor, digestAt |-> Never]]
      BY <2>2 DEF Init, Idle
    <3> QED BY <3>1 DEF PassingInv, InUse, AtWork
  <2> QED BY <2>1, <2>2 DEF MovesInv
<1>2. TypeInv /\ MovesInv /\ [Next]_vars => TypeInv' /\ MovesInv'
  BY TypeStep, PassedStep, PassingStep, InUseStep DEF MovesInv
<1>3. MovesInv => MovesAreHeard
  BY DEF MovesInv, PassedInv, MovesAreHeard, Due, Heard
<1> QED BY <1>1, <1>2, <1>3, TypeInit, PTL DEF Spec

(***************************************************************************)
(* The last alert of a story                                               *)
(***************************************************************************)

\* A set of positions in a sequence that is not empty has a last one.
LEMMA LastOfSome ==
    ASSUME NEW n \in Nat, NEW S \in SUBSET (1 .. n), S # {}
    PROVE  \E l \in S : \A i \in S : i <= l
<1> DEFINE Precedes == OpToRel(<, Nat)
           Left == {n - i : i \in S}
<1>1. IsWellFoundedOn(Precedes, Nat)
  BY NatLessThanWellFounded, Zenon DEF OpToRel
<1>2. Left \subseteq Nat /\ Left # {}
  <2>1. \A i \in S : n - i \in Nat
    OBVIOUS
  <2>2. PICK i \in S : TRUE
    OBVIOUS
  <2>3. n - i \in Left
    BY <2>2
  <2> QED BY <2>1, <2>3
<1>3. PICK x \in Left : \A y \in Left : ~(<<y, x>> \in Precedes)
  <2> HIDE DEF Precedes, Left
  <2> QED BY <1>1, <1>2, WFMin
<1>4. \A y \in Left : ~(y < x)
  BY <1>2, <1>3 DEF OpToRel
<1>5. PICK l \in S : x = n - l
  BY <1>3
<1>6. \A i \in S : i <= l
  <2>1. \A i \in S : ~(n - i < n - l)
    BY <1>4, <1>5
  <2> QED BY <2>1
<1> QED BY <1>6

IsTelling(a, s, kind, c) ==
    a.sub = s /\ Story(kind, a) = Story(kind, c) /\ a.tag \in {"edge", "gone"}
IsLast(l, s, kind, c) ==
    /\ IsTelling(alerts[l], s, kind, c)
    /\ \A i \in DOMAIN alerts : IsTelling(alerts[i], s, kind, c) => i <= l

LEMMA LastToldIs ==
    ASSUME TypeInv, NEW s, NEW kind, NEW c
    PROVE  /\ \A a \in LastTold(alerts, s, kind, c) :
                 \E l \in DOMAIN alerts : a = alerts[l] /\ IsLast(l, s, kind, c)
           /\ (\E i \in DOMAIN alerts : IsTelling(alerts[i], s, kind, c))
                 => LastTold(alerts, s, kind, c) # {}
<1> DEFINE I == {i \in 1 .. Len(alerts) : IsTelling(alerts[i], s, kind, c)}
           last == IF I # {} THEN Max(I) ELSE 0
<1>1. alerts \in Seq(Rows) /\ DOMAIN alerts = 1 .. Len(alerts) /\ Len(alerts) \in Nat
  BY DEF TypeInv, TableOK
<1>2. LastTold(alerts, s, kind, c) = {alerts[i] : i \in {last} \ {0}}
  BY DEF LastTold, SelectLastInSeq, IsTelling
<1>3. CASE I = {}
  BY <1>1, <1>2, <1>3
<1>4. CASE I # {}
  <2>1. PICK l \in I : \A i \in I : i <= l
    BY <1>1, <1>4, LastOfSome
  <2>2. Max(I) \in I /\ \A i \in I : Max(I) >= i
    BY <2>1 DEF Max
  <2>3. last = Max(I) /\ last # 0 /\ last \in DOMAIN alerts
    BY <1>1, <1>4, <2>2
  <2>4. IsLast(last, s, kind, c)
    BY <1>1, <2>2, <2>3 DEF IsLast
  <2> HIDE DEF last
  <2> QED BY <1>2, <2>3, <2>4
<1> QED BY <1>3, <1>4

(***************************************************************************)
(* An edge a completed scan saw was told of; one it is judging is in hand. *)
(***************************************************************************)

EdgeKind(kind) == kind \in Kinds \ (MoveKinds \union {"racing_value", "inplay_arb"})
\* What the property asks for, of a scan made at `at`.
HeardEdge(table, b, kind, s, n, at) ==
    LET c == Cand(n, b.race, "edge", b.edge) IN
    \E j \in DOMAIN table :
        /\ table[j].sub = s /\ table[j].story = n /\ table[j].race = b.race
        /\ \/ kind \in Ratchets /\ table[j].tag = "edge" /\ table[j].band >= b.edge
           \/ kind \in Cooled /\ table[j].at > at - Cooldown
           \/ Key(kind, table[j]) = Key(kind, c) /\ table[j].at >= at - Window
Standing(b, at) == b.edge >= 0 /\ b.since < at
EdgeCand(b, n) == Cand(n, b.race, "edge", b.edge)

SeenInv ==
    \A s \in Sub, n \in Name :
        EdgeKind(watch[s].kind) /\ Standing(board[n], subs[s].cursor) =>
            s \in cut \/ HeardEdge(alerts, board[n], watch[s].kind, s, n, subs[s].cursor)
SeeingInv ==
    pass.step \in AtWork /\ EdgeKind(Kind) =>
        \A n \in Name : Standing(board[n], pass.at) =>
            \/ Working \in cut \/ EdgeCand(board[n], n) \in pass.cands
            \/ HeardEdge(alerts, board[n], Kind, Working, n, pass.at)
EdgesInv == SeenInv /\ SeeingInv /\ InUse

LEMMA EdgeStays ==
    ASSUME TypeInv, [Next]_vars, NEW b, NEW kind, NEW s, NEW n, NEW at,
           HeardEdge(alerts, b, kind, s, n, at)
    PROVE  HeardEdge(alerts', b, kind, s, n, at)
<1> DEFINE c == Cand(n, b.race, "edge", b.edge)
<1>1. PICK j \in DOMAIN alerts :
        /\ alerts[j].sub = s /\ alerts[j].story = n /\ alerts[j].race = b.race
        /\ \/ kind \in Ratchets /\ alerts[j].tag = "edge" /\ alerts[j].band >= b.edge
           \/ kind \in Cooled /\ alerts[j].at > at - Cooldown
           \/ Key(kind, alerts[j]) = Key(kind, c) /\ alerts[j].at >= at - Window
  BY DEF HeardEdge
<1>2. j \in DOMAIN alerts' /\ SameRow(alerts[j], alerts'[j])
  BY TableStep DEF TableKept
<1>3. Key(kind, alerts'[j]) = Key(kind, alerts[j])
  BY <1>2, SameRowSameKey
<1> HIDE DEF c
<1>4. /\ alerts'[j].sub = s /\ alerts'[j].story = n /\ alerts'[j].race = b.race
      /\ \/ kind \in Ratchets /\ alerts'[j].tag = "edge" /\ alerts'[j].band >= b.edge
         \/ kind \in Cooled /\ alerts'[j].at > at - Cooldown
         \/ Key(kind, alerts'[j]) = Key(kind, c) /\ alerts'[j].at >= at - Window
  BY <1>1, <1>2, <1>3 DEF SameRow
<1> QED BY <1>2, <1>4 DEF HeardEdge, c

\* A step of the world that touches a story dates it now, so that no scan has seen it.
LEMMA WorldKeepsEdges ==
    ASSUME TypeInv, WorldStep, NEW n \in Name, NEW at \in Int, at <= clock,
           Standing(board'[n], at)
    PROVE  board'[n] = board[n]
<1>1. board \in [Name -> [edge : Edges, since : Nat, race : Nat]] /\ clock \in Nat
  BY BoundsTyped DEF TypeInv, WorldOK, CountersOK
<1>2. ASSUME NEW m \in Name, NextRace(m) PROVE board'[n] = board[n]
  <2>1. board' = [board EXCEPT ![m] = [edge |-> Absent, since |-> clock, race |-> board[m].race + 1]]
    BY <1>1, <1>2 DEF NextRace
  <2>2. n = m => board'[n].since = clock
    BY <1>1, <2>1
  <2> QED BY <1>1, <2>1, <2>2 DEF Standing
<1>3. ASSUME NEW m \in Name, NEW e \in Edges, Turn(m, e) PROVE board'[n] = board[n]
  <2>1. board' = [board EXCEPT ![m] = [board[m] EXCEPT !.edge = e, !.since = clock]]
    BY <1>1, <1>3 DEF Turn
  <2>2. n = m => board'[n].since = clock
    BY <1>1, <2>1
  <2> QED BY <1>1, <2>1, <2>2 DEF Standing
<1>4. CASE UNCHANGED board
  BY <1>4
<1> QED BY <1>2, <1>3, <1>4 DEF WorldStep, Tick, Stamp, Capture, world

LEMMA EdgesTyped ==
    ASSUME TypeInv
    PROVE  /\ \A n \in Name : board[n].edge \in Int /\ board[n].race \in Nat /\ board[n].since \in Nat
           /\ \A i \in DOMAIN alerts : alerts[i].band \in Int /\ alerts[i].at \in Nat
           /\ \A c \in pass.cands : c.story \in Name /\ c.race \in Nat /\ c.tag \in Tags /\ c.band \in Int
<1>1. \A n \in Name : board[n].edge \in Edges /\ board[n].race \in Nat /\ board[n].since \in Nat
  BY DEF TypeInv, WorldOK
<1>2. \A i \in DOMAIN alerts : alerts[i] \in Rows
  BY DEF TypeInv, TableOK
<1>3. \A c \in pass.cands : c \in Cands
  BY DEF TypeInv, PassOK, Passes
<1> QED BY <1>1, <1>2, <1>3, EdgeKinds DEF Rows, Cands

\* A candidate is let go for one of the reasons the property names; otherwise it is recorded.
LEMMA JudgedEdge ==
    ASSUME TypeInv, [Next]_vars, NEW n \in Name, EdgeKind(Kind),
           EdgeCand(board[n], n) \in pass.cands,
           Leave(EdgeCand(board[n], n)) \/ Fire(EdgeCand(board[n], n))
    PROVE  HeardEdge(alerts', board[n], Kind, Working, n, pass.at)
<1> DEFINE b == board[n]
           c == EdgeCand(b, n)
<1>1. /\ c.story = n /\ c.race = b.race /\ c.tag = "edge" /\ c.band = b.edge
      /\ clock \in Nat /\ pass.at \in Int /\ pass.at <= clock
  BY MovesTyped DEF EdgeCand, Cand
<1>2. \A a : Story(Kind, a) = <<a.story, a.race>>
  BY DEF Story, EdgeKind
<1>3. CASE Leave(c)
  <2>1. ~IsTold(c)
    BY <1>3 DEF Leave
  <2>2. CASE ~IsNews(alerts, Working, Kind, c, clock)
    <3>1. Kind \in Ratchets
          /\ \E a \in LastTold(alerts, Working, Kind, c) : a.tag # "gone" /\ ~Grown(Kind, a, c, clock)
      BY <1>1, <2>2 DEF IsNews
    <3>2. PICK l \in DOMAIN alerts : /\ IsLast(l, Working, Kind, c)
                                     /\ alerts[l].tag # "gone" /\ ~Grown(Kind, alerts[l], c, clock)
      BY <3>1, LastToldIs
    <3>3. alerts[l].sub = Working /\ alerts[l].story = n /\ alerts[l].race = b.race
          /\ alerts[l].tag = "edge"
      BY <1>1, <1>2, <3>2 DEF IsLast, IsTelling
    <3>4. alerts[l].band >= b.edge \/ (Kind \in Cooled /\ alerts[l].at > pass.at - Cooldown)
      <4>1. alerts[l].band \in Int /\ alerts[l].at \in Nat /\ b.edge \in Int
        BY EdgesTyped
      <4>2. ~(b.edge > alerts[l].band) \/ (Kind \in Cooled /\ ~(clock - alerts[l].at >= Cooldown))
        BY <1>1, <3>2 DEF Grown
      <4> QED BY <1>1, <4>1, <4>2, BoundsTyped
    <3>5. HeardEdge(alerts, b, Kind, Working, n, pass.at)
      BY <3>1, <3>3, <3>4 DEF HeardEdge
    <3> QED BY <3>5, EdgeStays
  <2>3. CASE IsRepeat(alerts, Working, Kind, c, clock)
    <3>1. PICK j \in DOMAIN alerts :
            /\ alerts[j].sub = Working /\ Key(Kind, alerts[j]) = Key(Kind, c)
            /\ alerts[j].at >= clock - Window
      BY <2>3 DEF IsRepeat
    <3>2. alerts[j].story = n /\ alerts[j].race = b.race
      BY <1>1, <1>2, <3>1 DEF Key
    <3>3. alerts[j].at >= pass.at - Window
      BY <1>1, <3>1, EdgesTyped, BoundsTyped
    <3>4. HeardEdge(alerts, b, Kind, Working, n, pass.at)
      BY <3>1, <3>2, <3>3 DEF HeardEdge, EdgeCand
    <3> QED BY <3>4, EdgeStays
  <2> QED BY <2>1, <2>2, <2>3 DEF IsTold
<1>4. CASE Fire(c)
  <2> DEFINE j == Len(alerts) + 1
  <2>1. j \in DOMAIN alerts' /\ alerts'[j] = Row(c)
    BY <1>4, TableFired
  <2>2. Row(c).sub = Working /\ Row(c).story = n /\ Row(c).race = b.race /\ Row(c).at = clock
        /\ Key(Kind, Row(c)) = Key(Kind, c)
    BY <1>1 DEF Row, Key, Story, BandOf
  <2>3. clock >= pass.at - Window
    BY <1>1, BoundsTyped
  <2> HIDE DEF j, Row, Working, Kind
  <2> QED BY <2>1, <2>2, <2>3 DEF HeardEdge, EdgeCand
<1> QED BY <1>3, <1>4

LEMMA SeenStep ==
    ASSUME TypeInv, EdgesInv, [Next]_vars
    PROVE  SeenInv'
<1>1. cut \subseteq cut' /\ UNCHANGED <<watch, order>>
  BY GhostsTyped, ConfigStep
<1>2. ASSUME NEW s \in Sub, NEW n \in Name, EdgeKind(watch[s].kind),
             UNCHANGED subs[s], UNCHANGED board[n], Standing(board[n], subs[s].cursor)
      PROVE  s \in cut' \/ HeardEdge(alerts', board[n], watch[s].kind, s, n, subs[s].cursor)
  <2>1. s \in cut \/ HeardEdge(alerts, board[n], watch[s].kind, s, n, subs[s].cursor)
    BY <1>2 DEF EdgesInv, SeenInv
  <2> QED BY <1>1, <2>1, EdgeStays
<1>3. CASE UNCHANGED <<board, subs>>
  BY <1>1, <1>2, <1>3 DEF SeenInv
<1>4. CASE WorldStep
  <2>1. UNCHANGED subs
    BY <1>4, WorldFrame
  <2>2. ASSUME NEW s \in Sub, NEW n \in Name, Standing(board'[n], subs[s].cursor)
        PROVE  board'[n] = board[n]
    BY <1>4, <2>2, MovesTyped, WorldKeepsEdges
  <2> QED BY <1>1, <1>2, <2>1, <2>2 DEF SeenInv
<1>5. CASE Advance \/ Settle
  <2>1. PICK d \in Int : Onward(d) /\ pass.step \in AtWork /\ clock' = clock
    BY <1>5, CommitTyped
  <2>2. /\ Working \in Sub /\ subs'[Working].cursor = pass.at
        /\ \A s \in Sub : s # Working => subs'[s] = subs[s]
    BY <2>1, OnwardTyped
  <2>3. UNCHANGED board
    BY <1>5, AdvanceFrame, SettleFrame
  <2>4. pass.cands = {} \/ Working \in cut'
    BY <1>5 DEF Advance, Settle, Scanned, CutHere, EdgesInv, InUse
  <2>5. ASSUME EdgeKind(Kind), NEW n \in Name, Standing(board[n], pass.at)
        PROVE  Working \in cut' \/ HeardEdge(alerts', board[n], Kind, Working, n, pass.at)
    <3>1. \/ Working \in cut \/ EdgeCand(board[n], n) \in pass.cands
          \/ HeardEdge(alerts, board[n], Kind, Working, n, pass.at)
      BY <2>1, <2>5 DEF EdgesInv, SeeingInv
    <3> QED BY <1>1, <2>4, <3>1, EdgeStays
  <2> SUFFICES ASSUME NEW s \in Sub, NEW n \in Name, EdgeKind(watch[s].kind),
                      Standing(board[n], subs'[s].cursor)
               PROVE  s \in cut' \/ HeardEdge(alerts', board[n], watch[s].kind, s, n, subs'[s].cursor)
    BY <1>1, <2>3 DEF SeenInv
  <2>6. CASE s = Working
    BY <2>2, <2>5, <2>6 DEF Kind
  <2>7. CASE s # Working
    BY <1>2, <2>2, <2>3, <2>7
  <2> QED BY <2>6, <2>7
<1>6. CASE UNCHANGED vars
  BY <1>3, <1>6 DEF vars, world
<1> QED BY <1>3, <1>4, <1>5, <1>6, StepKinds, BetweenFrame, LeaveFrame, BrokenFrame, FireFrame,
           PushFrame, MarkFrame, DigestFrame

LEMMA SeeingStep ==
    ASSUME TypeInv, EdgesInv, [Next]_vars
    PROVE  SeeingInv'
<1>1. cut \subseteq cut' /\ UNCHANGED <<watch, order>>
  BY GhostsTyped, ConfigStep
<1>2. CASE pass'.step \notin AtWork
  BY <1>2 DEF SeeingInv
<1>3. ASSUME pass'.todo = pass.todo PROVE Working' = Working /\ Kind' = Kind
  BY <1>1, <1>3 DEF Working, Kind
<1>4. ASSUME WorkOf(pass'), pass.step \in AtWork, UNCHANGED board,
             \A n \in Name :
                EdgeKind(Kind) /\ EdgeCand(board[n], n) \in pass.cands /\ Standing(board[n], pass.at)
                => \/ Working \in cut' \/ EdgeCand(board[n], n) \in pass'.cands
                   \/ HeardEdge(alerts', board[n], Kind, Working, n, pass.at)
      PROVE  SeeingInv'
  <2>1. pass'.at = pass.at /\ Working' = Working /\ Kind' = Kind
    BY <1>3, <1>4 DEF WorkOf
  <2> SUFFICES ASSUME EdgeKind(Kind), NEW n \in Name, Standing(board[n], pass.at)
               PROVE  \/ Working \in cut' \/ EdgeCand(board[n], n) \in pass'.cands
                      \/ HeardEdge(alerts', board[n], Kind, Working, n, pass.at)
    BY <1>4, <2>1 DEF SeeingInv
  <2>2. \/ Working \in cut \/ EdgeCand(board[n], n) \in pass.cands
        \/ HeardEdge(alerts, board[n], Kind, Working, n, pass.at)
    BY <1>4 DEF EdgesInv, SeeingInv
  <2> QED BY <1>1, <1>4, <2>2, EdgeStays
<1>5. ASSUME NEW c \in pass.cands, Leave(c) \/ Fire(c) PROVE SeeingInv'
  <2>1. WorkOf(pass') /\ pass'.cands = pass.cands \ {c} /\ pass.step \in AtWork
    BY <1>5, WorkTyped DEF Leave, Fire, Judging, AtWork
  <2>2. UNCHANGED board
    BY <1>5, LeaveFrame, FireFrame
  <2>3. ASSUME NEW n \in Name, EdgeKind(Kind), EdgeCand(board[n], n) = c
        PROVE  HeardEdge(alerts', board[n], Kind, Working, n, pass.at)
    BY <1>5, <2>3, JudgedEdge
  <2> QED BY <1>4, <2>1, <2>2, <2>3
<1>6. CASE Mark \/ \E ok \in BOOLEAN : Push(ok) \/ Digest(ok)
  <2>1. WorkOf(pass') /\ pass.step \in AtWork
    BY <1>6, WorkTyped DEF Mark, Push, Digest, Scanned, AtWork
  <2>2. UNCHANGED board
    BY <1>6, MarkFrame, PushFrame, DigestFrame
  <2>3. pass'.cands = pass.cands \/ pass.cands = {} \/ Working \in cut'
    BY <1>6, WorkTyped DEF Digest, CutHere
  <2> QED BY <1>4, <2>1, <2>2, <2>3
<1>7. CASE Scan
  <2>1. pass'.cands = Found /\ pass'.at = pass.at /\ pass'.todo = pass.todo
    BY <1>7, ScanToJudge
  <2>2. UNCHANGED <<board, cut, alerts>>
    BY <1>7, BetweenFrame DEF Between
  <2>3. Working' = Working /\ Kind' = Kind
    BY <1>3, <2>1
  <2>4. EdgeKind(Kind) => WithEdge \subseteq Found
    BY DEF EdgeKind, Found, MoveKinds
  <2>5. \A n \in Name : Standing(board[n], pass.at) => EdgeCand(board[n], n) \in WithEdge
    BY DEF Standing, EdgeCand, WithEdge
  <2> HIDE DEF Found, WithEdge
  <2> QED BY <2>1, <2>2, <2>3, <2>4, <2>5 DEF SeeingInv
<1>8. CASE WorldStep
  <2>1. UNCHANGED <<pass, alerts, cut>>
    BY <1>8, WorldFrame
  <2>2. Working' = Working /\ Kind' = Kind
    BY <1>3, <2>1
  <2>3. \A n \in Name : Standing(board'[n], pass.at) => board'[n] = board[n]
    BY <1>8, MovesTyped, WorldKeepsEdges
  <2> QED BY <2>1, <2>2, <2>3 DEF SeeingInv, EdgesInv
<1>9. CASE UNCHANGED vars
  <2>1. UNCHANGED <<pass, alerts, cut, board>>
    BY <1>9 DEF vars, world, ghosts
  <2>2. Working' = Working /\ Kind' = Kind
    BY <1>3, <2>1
  <2> QED BY <2>1, <2>2 DEF EdgesInv, SeeingInv
<1>10. CASE (Between /\ ~Scan) \/ Broken \/ Advance \/ Settle
  <2>1. pass'.step \notin AtWork
    BY <1>10, BetweenTyped, BrokenTyped, CommitTyped, OnwardTyped DEF RestOf, AtWork
  <2> QED BY <1>2, <2>1
<1> QED BY <1>5, <1>6, <1>7, <1>8, <1>9, <1>10, StepKinds

\* For any watches, bands and windows, whatever pass is killed or raises: a standing edge a
\* completed scan saw was told of, or is let be for a reason the property names.
THEOREM EdgesHeard == Spec => []EdgesAreHeard
<1>1. Init => EdgesInv
  <2>1. ASSUME Init PROVE SeenInv
    <3>1. /\ subs = [s \in Sub |-> [cursor |-> NoCursor, digestAt |-> Never]]
          /\ board = [n \in Name |-> [edge |-> 0, since |-> 0, race |-> 0]]
      BY <2>1 DEF Init
    <3>2. \A s \in Sub, n \in Name : ~Standing(board[n], subs[s].cursor)
      BY <3>1 DEF Standing, NoCursor
    <3> QED BY <3>2 DEF SeenInv
  <2>2. ASSUME Init PROVE SeeingInv /\ InUse
    <3>1. pass.step = "off" /\ subs = [s \in Sub |-> [cursor |-> NoCursor, digestAt |-> Never]]
      BY <2>2 DEF Init, Idle
    <3> QED BY <3>1 DEF SeeingInv, InUse, AtWork
  <2> QED BY <2>1, <2>2 DEF EdgesInv
<1>2. TypeInv /\ EdgesInv /\ [Next]_vars => TypeInv' /\ EdgesInv'
  BY TypeStep, SeenStep, SeeingStep, InUseStep DEF EdgesInv
<1>3. TypeInv /\ EdgesInv => EdgesAreHeard
  <2> SUFFICES ASSUME TypeInv, EdgesInv, NEW s \in Sub, NEW n \in Name,
                      watch[s].kind \notin MoveKinds \union {"racing_value", "inplay_arb"},
                      board[n].edge >= 0, board[n].since < subs[s].cursor, s \notin cut
               PROVE  HeardEdge(alerts, board[n], watch[s].kind, s, n, subs[s].cursor)
    BY DEF EdgesAreHeard, HeardEdge
  <2>1. EdgeKind(watch[s].kind) /\ Standing(board[n], subs[s].cursor)
    BY DEF TypeInv, ConfigOK, EdgeKind, Standing
  <2> QED BY <2>1 DEF EdgesInv, SeenInv
<1> QED BY <1>1, <1>2, <1>3, TypeInit, PTL DEF Spec

(***************************************************************************)
(* A watch that compares with its last alert repeats no edge.              *)
(***************************************************************************)

Repeats(table, w, i, j) ==
    /\ i < j /\ table[i].sub = table[j].sub
    /\ w[table[i].sub].kind \in Ratchets
    /\ table[i].tag = "edge" /\ table[j].tag = "edge"
    /\ Story(w[table[i].sub].kind, table[i]) = Story(w[table[i].sub].kind, table[j])
GoneBetween(table, w, i, j) ==
    \E k \in i .. j :
        /\ table[k].sub = table[i].sub /\ table[k].tag = "gone"
        /\ Story(w[table[k].sub].kind, table[k]) = Story(w[table[i].sub].kind, table[i])
GrowthInv ==
    \A i, j \in DOMAIN alerts :
        Repeats(alerts, watch, i, j) => alerts[j].band > alerts[i].band \/ GoneBetween(alerts, watch, i, j)

LEMMA GrowthStep ==
    ASSUME TypeInv, GrowthInv, [Next]_vars
    PROVE  GrowthInv'
<1>1. /\ alerts \in Seq(Rows) /\ DOMAIN alerts = 1 .. Len(alerts) /\ Len(alerts) \in Nat
      /\ UNCHANGED watch /\ TableKept /\ alerts' \in Seq(Rows) /\ DOMAIN alerts' = 1 .. Len(alerts')
  BY ConfigStep, TableStep DEF TypeInv, TableOK
<1>2. \A i \in DOMAIN alerts : /\ i \in DOMAIN alerts' /\ SameRow(alerts[i], alerts'[i])
                               /\ \A kind : Story(kind, alerts'[i]) = Story(kind, alerts[i])
  BY <1>1, SameRowSameKey DEF TableKept
<1>3. ASSUME NEW i \in DOMAIN alerts, NEW j \in DOMAIN alerts, Repeats(alerts', watch', i, j)
      PROVE  alerts'[j].band > alerts'[i].band \/ GoneBetween(alerts', watch', i, j)
  <2>1. Repeats(alerts, watch, i, j)
    BY <1>1, <1>2, <1>3 DEF Repeats, SameRow
  <2>2. CASE alerts[j].band > alerts[i].band
    BY <1>2, <2>2 DEF SameRow
  <2>3. CASE GoneBetween(alerts, watch, i, j)
    <3>1. PICK k \in i .. j :
            /\ alerts[k].sub = alerts[i].sub /\ alerts[k].tag = "gone"
            /\ Story(watch[alerts[k].sub].kind, alerts[k]) = Story(watch[alerts[i].sub].kind, alerts[i])
      BY <2>3 DEF GoneBetween
    <3>2. k \in DOMAIN alerts
      BY <1>1, <3>1
    <3>3. /\ alerts'[k].sub = alerts'[i].sub /\ alerts'[k].tag = "gone"
          /\ Story(watch'[alerts'[k].sub].kind, alerts'[k]) = Story(watch'[alerts'[i].sub].kind, alerts'[i])
      BY <1>1, <1>2, <3>1, <3>2 DEF SameRow
    <3> QED BY <3>3 DEF GoneBetween
  <2> QED BY <2>1, <2>2, <2>3 DEF GrowthInv
<1>4. CASE DOMAIN alerts' = DOMAIN alerts
  BY <1>3, <1>4 DEF GrowthInv
<1>5. ASSUME NEW c \in pass.cands, Fire(c) PROVE GrowthInv'
  <2> DEFINE n == Len(alerts) + 1
  <2>1. /\ DOMAIN alerts' = DOMAIN alerts \union {n} /\ n \notin DOMAIN alerts
        /\ \A i \in DOMAIN alerts : alerts'[i] = alerts[i]
        /\ alerts'[n] = Row(c)
    BY <1>5, TableFired
  <2>2. Row(c).sub = Working /\ Row(c).tag = c.tag /\ Row(c).band = c.band
        /\ \A kind : Story(kind, Row(c)) = Story(kind, c)
    BY DEF Row, Story
  <2>3. IsNews(alerts, Working, Kind, c, clock)
    BY <1>5 DEF Fire, IsTold
  <2>4. ASSUME NEW i \in DOMAIN alerts, Repeats(alerts', watch', i, n)
        PROVE  alerts'[n].band > alerts'[i].band \/ GoneBetween(alerts', watch', i, n)
    <3>1. /\ alerts[i].sub = Working /\ Kind \in Ratchets /\ c.tag = "edge"
          /\ alerts[i].tag = "edge" /\ Story(Kind, alerts[i]) = Story(Kind, c)
      BY <1>1, <2>1, <2>2, <2>4 DEF Repeats, Kind
    <3>2. IsTelling(alerts[i], Working, Kind, c)
      BY <3>1 DEF IsTelling
    <3>3. PICK a \in LastTold(alerts, Working, Kind, c) : TRUE
      BY <3>2, LastToldIs
    <3>4. PICK l \in DOMAIN alerts : a = alerts[l] /\ IsLast(l, Working, Kind, c)
      BY <3>3, LastToldIs
    <3>5. i <= l /\ alerts[l].sub = Working /\ Story(Kind, alerts[l]) = Story(Kind, c)
          /\ (alerts[l].tag = "edge" \/ alerts[l].tag = "gone")
      BY <3>2, <3>4 DEF IsLast, IsTelling
    <3>6. alerts[l].tag = "gone" \/ c.band > alerts[l].band
      BY <2>3, <3>1, <3>3, <3>4 DEF IsNews, Grown
    <3>7. i \in Int /\ l \in Int /\ n \in Int /\ l < n
      BY <1>1
    <3>8. CASE alerts[l].tag = "gone"
      <4>1. l \in i .. n
        BY <3>5, <3>7
      <4>2. /\ alerts'[l].sub = alerts'[i].sub /\ alerts'[l].tag = "gone"
            /\ Story(watch'[alerts'[l].sub].kind, alerts'[l]) = Story(watch'[alerts'[i].sub].kind, alerts'[i])
        BY <1>1, <2>1, <3>1, <3>5, <3>8 DEF Kind
      <4> HIDE DEF n
      <4> QED BY <4>1, <4>2 DEF GoneBetween
    <3>9. CASE alerts[l].tag = "edge" /\ c.band > alerts[l].band
      <4>1. CASE i = l
        BY <2>1, <2>2, <3>9, <4>1
      <4>2. CASE i < l
        <5>1. Repeats(alerts, watch, i, l)
          BY <3>1, <3>5, <3>9, <4>2 DEF Repeats, Kind
        <5>2. CASE alerts[l].band > alerts[i].band
          <6>1. alerts[l].band \in Int /\ alerts[i].band \in Int /\ c.band \in Int
            BY EdgesTyped
          <6>2. c.band > alerts[i].band
            BY <3>9, <5>2, <6>1
          <6> QED BY <2>1, <2>2, <6>2
        <5>3. CASE GoneBetween(alerts, watch, i, l)
          <6>1. PICK k \in i .. l :
                  /\ alerts[k].sub = alerts[i].sub /\ alerts[k].tag = "gone"
                  /\ Story(watch[alerts[k].sub].kind, alerts[k])
                        = Story(watch[alerts[i].sub].kind, alerts[i])
            BY <5>3 DEF GoneBetween
          <6>2. k \in i .. n /\ k \in DOMAIN alerts
            BY <1>1, <3>7, <6>1
          <6>3. /\ alerts'[k].sub = alerts'[i].sub /\ alerts'[k].tag = "gone"
                /\ Story(watch'[alerts'[k].sub].kind, alerts'[k])
                      = Story(watch'[alerts'[i].sub].kind, alerts'[i])
            BY <1>1, <2>1, <6>1, <6>2
          <6> HIDE DEF n
          <6> QED BY <6>2, <6>3 DEF GoneBetween
        <5> QED BY <5>1, <5>2, <5>3 DEF GrowthInv
      <4> QED BY <3>5, <3>7, <4>1, <4>2
    <3> QED BY <3>5, <3>6, <3>8, <3>9
  <2>5. \A i, j \in DOMAIN alerts' : Repeats(alerts', watch', i, j) => i \in DOMAIN alerts
    BY <1>1, <2>1 DEF Repeats
  <2> HIDE DEF n
  <2>6. \A i, j \in DOMAIN alerts' :
          Repeats(alerts', watch', i, j) => alerts'[j].band > alerts'[i].band \/ GoneBetween(alerts', watch', i, j)
    BY <1>3, <2>1, <2>4, <2>5
  <2> QED BY <2>6 DEF GrowthInv
<1>6. DOMAIN alerts' = DOMAIN alerts \/ \E c \in pass.cands : Fire(c)
  <2>1. CASE UNCHANGED vars
    BY <2>1 DEF vars
  <2> QED BY <2>1, StepKinds, WorldFrame, BetweenFrame, LeaveFrame, BrokenFrame, AdvanceFrame,
             PushFrame, MarkFrame, DigestFrame, SettleFrame, TableMarked DEF TypeInv
<1> QED BY <1>4, <1>5, <1>6

\* For any stories, bands and cooldowns: a watch that compares with its last alert tells of
\* a story again only when its edge grew, or was told to be gone in between.
THEOREM GrowthIsTold == Spec => []OnlyGrowthIsTold
<1>1. Init => GrowthInv
  BY DEF Init, GrowthInv
<1>2. TypeInv /\ GrowthInv /\ [Next]_vars => TypeInv' /\ GrowthInv'
  BY TypeStep, GrowthStep
<1>3. TypeInv /\ GrowthInv => OnlyGrowthIsTold
  BY TypesSuffice DEF GrowthInv, OnlyGrowthIsTold, Repeats, GoneBetween
<1> QED BY <1>1, <1>2, <1>3, TypeInit, PTL DEF Spec

(***************************************************************************)
(* What a digest took was told, once for each try that settled.            *)
(***************************************************************************)

InHand(p, i) == p.step = "settle" /\ p.ok /\ i \in p.rows
\* A row of a digest watch: when `f` faults have happened, and the digest in hand holds it.
ToldOnce(a, f, hand) ==
    /\ a.told <= f \/ ((a.pushed \/ hand) /\ a.told <= f + 1)
    /\ a.pushed \/ hand => a.told > 0
Behind(table, d, i) == {j \in (i + 1) .. d : table[j].sub = table[i].sub}
Covered(table, d, i) ==
    i <= d => table[i].told > 0 \/ Cardinality(Behind(table, d, i)) >= DigestCap
DigestRow(i) == watch[alerts[i].sub].digest > 0
DigestInv ==
    /\ \A i \in DOMAIN alerts : DigestRow(i) =>
          /\ ToldOnce(alerts[i], faults, InHand(pass, i))
          /\ Covered(alerts, digested[alerts[i].sub], i)
    /\ pass.step \in {"push", "mark"} => \A i \in pass.rows : ~DigestRow(i)

LEMMA TableRows ==
    ASSUME TypeInv
    PROVE  /\ alerts \in Seq(Rows) /\ DOMAIN alerts = 1 .. Len(alerts) /\ Len(alerts) \in Nat
           /\ \A i \in DOMAIN alerts : alerts[i].told \in Nat /\ alerts[i].sub \in Sub
           /\ \A i \in DOMAIN alerts : alerts[i].pushed \in BOOLEAN
           /\ faults \in Nat /\ \A s \in Sub : digested[s] \in Nat /\ digested[s] <= Len(alerts)
           /\ \A s \in Sub : watch[s].digest \in Nat
<1>1. alerts \in Seq(Rows) /\ \A i \in DOMAIN alerts : alerts[i] \in Rows
  BY DEF TypeInv, TableOK
<1>2. \A i \in DOMAIN alerts : alerts[i].told \in Nat /\ alerts[i].sub \in Sub
  BY <1>1 DEF Rows
<1>3. \A i \in DOMAIN alerts : alerts[i].pushed \in BOOLEAN
  BY <1>1 DEF Rows
<1> QED BY <1>1, <1>2, <1>3, BoundsTyped DEF TypeInv, CountersOK, GhostsOK, ConfigOK

LEMMA BehindFinite ==
    ASSUME NEW table, NEW d \in Int, NEW i \in Int
    PROVE  IsFiniteSet(Behind(table, d, i)) /\ Cardinality(Behind(table, d, i)) \in Nat
<1>1. Behind(table, d, i) \in SUBSET ((i + 1) .. d)
  BY DEF Behind
<1>2. IsFiniteSet((i + 1) .. d)
  BY FS_Interval
<1> QED BY <1>1, <1>2, FS_Subset, FS_CardinalityType

\* Nobody takes back that a row was told of.
LEMMA ToldStays ==
    ASSUME TypeInv, [Next]_vars, NEW i \in DOMAIN alerts
    PROVE  alerts'[i].told >= alerts[i].told
<1>1. alerts[i].told \in Nat /\ alerts[i] \in Rows
  BY TableRows
<1>2. CASE alerts'[i] = alerts[i]
  BY <1>1, <1>2
<1>3. CASE \E rows : Tell(rows) \/ alerts' = SetPushed(rows)
  <2> DEFINE a == alerts[i]
  <2>1. \/ alerts'[i] = a
        \/ alerts'[i] = [a EXCEPT !.told = @ + 1]
        \/ alerts'[i] = [a EXCEPT !.pushed = TRUE]
    BY <1>3 DEF Tell, SetPushed
  <2>2. a \in Rows /\ a.told \in Nat
    BY <1>1
  <2> HIDE DEF a
  <2>3. [a EXCEPT !.told = @ + 1].told = a.told + 1 /\ [a EXCEPT !.pushed = TRUE].told = a.told
    BY <2>2 DEF Rows
  <2>4. alerts'[i].told = a.told \/ alerts'[i].told = a.told + 1
    BY <2>1, <2>3
  <2> QED BY <2>2, <2>4 DEF a
<1>4. CASE \E c \in pass.cands : Fire(c)
  BY <1>2, <1>4, TableFired
<1>5. CASE UNCHANGED alerts
  BY <1>2, <1>5
<1>6. CASE UNCHANGED vars
  BY <1>2, <1>6 DEF vars
<1> QED BY <1>3, <1>4, <1>5, <1>6, StepKinds, WorldFrame, BetweenFrame, LeaveFrame, BrokenFrame,
           AdvanceFrame, PushFrame, MarkFrame, DigestFrame, SettleFrame

LEMMA CoveredStays ==
    ASSUME TypeInv, [Next]_vars, NEW i \in DOMAIN alerts, NEW d \in Nat, d <= Len(alerts),
           Covered(alerts, d, i)
    PROVE  Covered(alerts', d, i)
<1>1. \A j \in DOMAIN alerts : alerts'[j].sub = alerts[j].sub
  BY TableStep DEF TableKept, SameRow
<1>2. (i + 1) .. d \subseteq DOMAIN alerts
  BY TableRows
<1>3. Behind(alerts', d, i) = Behind(alerts, d, i)
  BY <1>1, <1>2 DEF Behind
<1>4. alerts'[i].told >= alerts[i].told /\ alerts[i].told \in Nat /\ alerts'[i].told \in Nat
  <2>1. alerts' \in Seq(Rows) /\ i \in DOMAIN alerts'
    BY TableStep DEF TableKept
  <2>2. alerts'[i] \in Rows
    BY <2>1
  <2> QED BY <2>2, ToldStays, TableRows DEF Rows
<1> QED BY <1>3, <1>4 DEF Covered

\* The digest covers every row there is.
LEMMA DigestCovers ==
    ASSUME TypeInv, DigestInv, NEW i \in DOMAIN alerts, alerts[i].sub = Working, DigestRow(i),
           i \notin Latest(Pending(Working))
    PROVE  Covered(alerts, Len(alerts), i)
<1>1. CASE alerts[i].pushed
  BY <1>1 DEF DigestInv, ToldOnce, Covered
<1>2. CASE ~alerts[i].pushed
  <2> DEFINE Later == {j \in Pending(Working) : j > i}
  <2>1. i \in Pending(Working)
    BY <1>2 DEF Pending
  <2>2. ~(Cardinality(Later) < DigestCap)
    BY <2>1 DEF Latest
  <2>3. Later \subseteq Behind(alerts, Len(alerts), i)
    BY TableRows DEF Pending, Behind
  <2>4. i \in Int /\ Len(alerts) \in Int
    BY TableRows
  <2>5. Cardinality(Later) \in Nat /\ Cardinality(Later) <= Cardinality(Behind(alerts, Len(alerts), i))
        /\ Cardinality(Behind(alerts, Len(alerts), i)) \in Nat
    <3> HIDE DEF Later
    <3> QED BY <2>3, <2>4, BehindFinite, FS_Subset, FS_CardinalityType
  <2> HIDE DEF Later
  <2> QED BY <2>2, <2>5, BoundsTyped DEF Covered
<1> QED BY <1>1, <1>2

\* A row that the step leaves alone, and one that is in nobody's hand any more.
LEMMA RowKept ==
    ASSUME NEW a, a.told \in Nat, NEW f \in Nat, NEW hand \in BOOLEAN, ToldOnce(a, f, hand)
    PROVE  ToldOnce(a, f, FALSE) \/ hand
  BY DEF ToldOnce
LEMMA RowDropped ==
    ASSUME NEW a, a.told \in Nat, NEW f \in Nat, NEW hand \in BOOLEAN, ToldOnce(a, f, hand)
    PROVE  ToldOnce(a, f + 1, FALSE)
  BY DEF ToldOnce

LEMMA DigestStep ==
    ASSUME TypeInv, DigestInv, [Next]_vars
    PROVE  DigestInv'
<1> DEFINE After(i) == /\ ToldOnce(alerts'[i], faults', InHand(pass', i))
                       /\ Covered(alerts', digested'[alerts[i].sub], i)
           RowsSafe == pass'.step \in {"push", "mark"} => \A i \in pass'.rows : ~DigestRow(i)'
<1>1. /\ UNCHANGED watch /\ alerts \in Seq(Rows) /\ DOMAIN alerts \subseteq DOMAIN alerts'
      /\ \A i \in DOMAIN alerts : alerts'[i].sub = alerts[i].sub
  BY ConfigStep, TableStep DEF TypeInv, TableOK, TableKept, SameRow
<1>2. ASSUME DOMAIN alerts' = DOMAIN alerts, RowsSafe,
             \A i \in DOMAIN alerts : DigestRow(i) => After(i)
      PROVE  DigestInv'
  BY <1>1, <1>2 DEF DigestInv, DigestRow
<1>3. ASSUME NEW i \in DOMAIN alerts, DigestRow(i), UNCHANGED digested
      PROVE  Covered(alerts', digested'[alerts[i].sub], i)
  <2>1. digested[alerts[i].sub] \in Nat /\ digested[alerts[i].sub] <= Len(alerts)
    BY TableRows
  <2> QED BY <1>3, <2>1, CoveredStays DEF DigestInv
<1>4. ASSUME NEW i \in DOMAIN alerts, DigestRow(i)
      PROVE  /\ ToldOnce(alerts[i], faults, InHand(pass, i)) /\ alerts[i].told \in Nat
             /\ InHand(pass, i) \in BOOLEAN /\ faults \in Nat
             /\ ~InHand(pass, i) => ToldOnce(alerts[i], faults, FALSE)
             /\ ToldOnce(alerts[i], faults + 1, FALSE)
  <2>1. /\ ToldOnce(alerts[i], faults, InHand(pass, i)) /\ alerts[i].told \in Nat /\ faults \in Nat
    BY <1>4, TableRows DEF DigestInv
  <2>2. InHand(pass, i) \in BOOLEAN
    BY DEF InHand
  <2> HIDE DEF InHand
  <2> QED BY <2>1, <2>2, RowKept, RowDropped
<1>5. ASSUME UNCHANGED <<alerts, digested>>, RowsSafe,
             \A i \in DOMAIN alerts : DigestRow(i) =>
                 \/ faults' = faults /\ InHand(pass', i) = InHand(pass, i)
                 \/ faults' = faults + 1 /\ InHand(pass', i) = FALSE
      PROVE  DigestInv'
  <2>1. ASSUME NEW i \in DOMAIN alerts, DigestRow(i) PROVE After(i)
    <3>1. ToldOnce(alerts[i], faults', InHand(pass', i))
      BY <1>4, <1>5, <2>1
    <3> QED BY <1>3, <1>5, <2>1, <3>1
  <2> QED BY <1>2, <1>5, <2>1
<1>6. ASSUME UNCHANGED <<alerts, digested, faults>>, pass.step # "settle",
             pass'.step \notin {"settle", "push", "mark"}
      PROVE  DigestInv'
  BY <1>5, <1>6 DEF InHand
<1>7. CASE WorldStep \/ UNCHANGED vars
  <2>1. UNCHANGED <<alerts, digested, faults, pass>>
    BY <1>7, WorldFrame DEF vars, ghosts
  <2>2. RowsSafe
    BY <1>1, <2>1 DEF DigestInv, DigestRow
  <2> QED BY <1>5, <2>1, <2>2
<1>8. CASE Between
  <2>1. pass.step \in {"off", "next"} /\ UNCHANGED <<alerts, digested, faults>>
    BY <1>8, BetweenFrame DEF Between, Begin, EndPass, Skip, Scan, AtWatch
  <2>2. pass'.step \notin {"settle", "push", "mark"}
    BY <1>8, BetweenTyped, ScanToJudge DEF RestOf
  <2> QED BY <1>6, <2>1, <2>2
<1>9. CASE Broken
  <2>1. UNCHANGED <<alerts, digested>> /\ faults' = faults + 1
    BY <1>9, BrokenFrame
  <2>2. pass'.step \notin {"settle", "push", "mark"}
    BY <1>9, BrokenTyped DEF RestOf
  <2> QED BY <1>5, <2>1, <2>2 DEF InHand
<1>10. ASSUME NEW c \in pass.cands, Leave(c) PROVE DigestInv'
  <2>1. UNCHANGED <<alerts, digested, faults>> /\ pass.step = "judge" /\ pass'.step = "judge"
    BY <1>10, LeaveFrame, WorkTyped DEF Leave, Judging
  <2> QED BY <1>6, <2>1
<1>11. CASE Advance
  <2>1. UNCHANGED <<alerts, digested, faults>> /\ pass.step = "judge" /\ pass'.step = "next"
    BY <1>11, AdvanceFrame, CommitTyped, OnwardTyped DEF Advance, Scanned
  <2> QED BY <1>6, <2>1
<1>12. ASSUME NEW c \in pass.cands, Fire(c) PROVE DigestInv'
  <2> DEFINE n == Len(alerts) + 1
  <2>1. /\ DOMAIN alerts' = DOMAIN alerts \union {n}
        /\ \A i \in DOMAIN alerts : alerts'[i] = alerts[i]
        /\ alerts'[n] = Row(c) /\ Len(alerts) \in Nat
    BY <1>12, TableFired, TableRows
  <2>2. pass.step = "judge" /\ pass'.step \in {"judge", "push"} /\ UNCHANGED <<digested, faults>>
    BY <1>12, WorkTyped, FireFrame DEF Fire, Judging
  <2>3. ASSUME NEW i \in DOMAIN alerts, DigestRow(i) PROVE After(i)
    <3>1. ~InHand(pass, i) /\ InHand(pass', i) = FALSE
      BY <2>2 DEF InHand
    <3>2. ToldOnce(alerts'[i], faults', InHand(pass', i))
      BY <1>4, <2>1, <2>2, <2>3, <3>1
    <3> QED BY <1>3, <2>2, <2>3, <3>2
  <2>4. ToldOnce(alerts'[n], faults', InHand(pass', n))
    <3>1. Row(c).told = 0 /\ Row(c).pushed = FALSE
      BY DEF Row
    <3>2. InHand(pass', n) = FALSE /\ faults' \in Nat
      BY <2>2, TableRows DEF InHand
    <3> HIDE DEF Row, n
    <3> QED BY <2>1, <3>1, <3>2 DEF ToldOnce
  <2>5. \A s \in Sub : Covered(alerts', digested'[s], n)
    BY <2>2, TableRows DEF Covered
  <2>6. alerts'[n].sub \in Sub
    <3>1. alerts' \in Seq(Rows) /\ n \in DOMAIN alerts'
      BY <2>1, TableStep
    <3>2. alerts'[n] \in Rows
      BY <3>1
    <3> QED BY <3>2 DEF Rows
  <2>7. RowsSafe
    <3>1. CASE Silent(Working)
      <4>1. pass' = [pass EXCEPT !.cands = @ \ {c}, !.fired = @ + 1, !.open = FALSE]
        BY <1>12, <3>1 DEF Fire
      <4>2. pass'.step = "judge"
        BY <2>2, <4>1 DEF TypeInv, PassOK, Passes
      <4> QED BY <4>2
    <3>2. CASE ~Silent(Working)
      <4> DEFINE key == <<Working, Key(Kind, c), clock>>
                 rows == {n}
      <4>1. pass' = [pass EXCEPT !.cands = @ \ {c}, !.fired = @ + 1, !.open = FALSE,
                                 !.step = "push", !.rows = rows, !.key = key]
        BY <1>12, <3>2 DEF Fire
      <4> HIDE DEF key, rows
      <4>2. pass'.rows = rows
        BY <4>1 DEF TypeInv, PassOK, Passes
      <4>3. ~(watch[Working].digest > 0)
        BY <3>2 DEF Silent
      <4>4. Row(c).sub = Working
        BY DEF Row
      <4> HIDE DEF n, Row, Working
      <4> QED BY <1>1, <2>1, <4>2, <4>3, <4>4 DEF rows, DigestRow
    <3> QED BY <3>1, <3>2
  <2> HIDE DEF n
  <2>8. \A i \in DOMAIN alerts' : DigestRow(i)' =>
           /\ ToldOnce(alerts'[i], faults', InHand(pass', i))
           /\ Covered(alerts', digested'[alerts'[i].sub], i)
    BY <1>1, <2>1, <2>3, <2>4, <2>5, <2>6 DEF DigestRow
  <2> QED BY <2>7, <2>8 DEF DigestInv
<1>13. ASSUME NEW ok \in BOOLEAN, Push(ok) PROVE DigestInv'
  <2>1. pass.step = "push" /\ pass'.step = "mark" /\ pass'.rows = pass.rows /\ UNCHANGED digested
    BY <1>13, WorkTyped, PushFrame DEF Push
  <2>2. \A i \in pass.rows : i \in DOMAIN alerts /\ ~DigestRow(i)
    BY <2>1 DEF DigestInv, TypeInv, PassOK
  <2>3. DOMAIN alerts' = DOMAIN alerts
        /\ \A i \in DOMAIN alerts : i \notin pass.rows => alerts'[i] = alerts[i]
    BY <1>13, PushFrame DEF Tell
  <2>4. ASSUME NEW i \in DOMAIN alerts, DigestRow(i) PROVE After(i)
    <3>1. alerts'[i] = alerts[i]
      BY <2>2, <2>3, <2>4
    <3>2. ~InHand(pass, i) /\ InHand(pass', i) = FALSE
      BY <2>1 DEF InHand
    <3>3. faults' = faults \/ faults' = faults + 1
      BY CountersStep
    <3>4. ToldOnce(alerts'[i], faults', InHand(pass', i))
      BY <1>4, <2>4, <3>1, <3>2, <3>3
    <3> QED BY <1>3, <2>1, <2>4, <3>4
  <2>5. RowsSafe
    BY <1>1, <2>1, <2>2 DEF DigestRow
  <2> QED BY <1>2, <2>3, <2>4, <2>5
<1>14. CASE Mark
  <2>1. pass.step = "mark" /\ pass'.step = "judge" /\ UNCHANGED <<digested, faults>>
    BY <1>14, WorkTyped, MarkFrame DEF Mark
  <2>2. \A i \in pass.rows : i \in DOMAIN alerts /\ ~DigestRow(i)
    BY <2>1 DEF DigestInv, TypeInv, PassOK
  <2>3. DOMAIN alerts' = DOMAIN alerts
        /\ \A i \in DOMAIN alerts : i \notin pass.rows => alerts'[i] = alerts[i]
    BY <1>14, MarkFrame DEF SetPushed
  <2>4. ASSUME NEW i \in DOMAIN alerts, DigestRow(i) PROVE After(i)
    <3>1. alerts'[i] = alerts[i]
      BY <2>2, <2>3, <2>4
    <3>2. ~InHand(pass, i) /\ InHand(pass', i) = FALSE
      BY <2>1 DEF InHand
    <3>3. ToldOnce(alerts'[i], faults', InHand(pass', i))
      BY <1>4, <2>1, <2>4, <3>1, <3>2
    <3> QED BY <1>3, <2>1, <2>4, <3>3
  <2> QED BY <1>2, <2>1, <2>3, <2>4
<1>15. ASSUME NEW ok \in BOOLEAN, Digest(ok) PROVE DigestInv'
  <2> DEFINE rows == Latest(Pending(Working))
  <2>1. /\ pass.step = "judge" /\ pass'.step = "settle" /\ pass'.rows = rows /\ pass'.ok = ok
        /\ Working \in Sub
    <3>1. pass.step = "judge"
      BY <1>15 DEF Digest, Scanned
    <3>2. pass.todo # <<>>
      BY <3>1 DEF TypeInv, PassOK, AtWork
    <3> QED BY <1>15, <3>1, <3>2, WorkTyped, WorkingTyped
  <2>2. /\ faults' = (IF ok THEN faults ELSE faults + 1)
        /\ IF ok THEN Tell(rows) ELSE UNCHANGED alerts
        /\ digested' = (IF ok THEN [digested EXCEPT ![Working] = Len(alerts)] ELSE digested)
    BY <1>15 DEF Digest, Counted
  <2>3. \A i \in rows : i \in DOMAIN alerts /\ alerts[i].sub = Working /\ ~alerts[i].pushed
    BY DEF Latest, Pending
  <2>4. CASE ~ok
    BY <1>5, <2>1, <2>2, <2>4 DEF InHand
  <2>5. CASE ok
    <3>1. DOMAIN alerts' = DOMAIN alerts /\ faults' = faults
          /\ \A i \in DOMAIN alerts : i \notin rows => alerts'[i] = alerts[i]
      BY <2>2, <2>5 DEF Tell
    <3>2. digested' = [digested EXCEPT ![Working] = Len(alerts)] /\ digested \in [Sub -> Nat]
      BY <2>2, <2>5 DEF TypeInv, GhostsOK
    <3>3. ASSUME NEW i \in rows
          PROVE  alerts'[i].told = alerts[i].told + 1 /\ alerts'[i].pushed = alerts[i].pushed
      <4> DEFINE a == alerts[i]
      <4>1. alerts'[i] = [a EXCEPT !.told = @ + 1]
        BY <2>2, <2>3, <2>5, <3>3 DEF Tell
      <4>2. a \in Rows
        BY <1>1, <2>3, <3>3
      <4> HIDE DEF a, rows
      <4>3. alerts'[i].told = a.told + 1 /\ alerts'[i].pushed = a.pushed
        BY <4>1, <4>2 DEF Rows
      <4> QED BY <4>3 DEF a
    <3>4. \A i \in DOMAIN alerts : InHand(pass', i) = (i \in rows) /\ ~InHand(pass, i)
      BY <2>1, <2>5 DEF InHand
    <3>5. ASSUME NEW i \in DOMAIN alerts, DigestRow(i)
          PROVE  ToldOnce(alerts'[i], faults', InHand(pass', i))
      <4>1. ToldOnce(alerts[i], faults, FALSE) /\ alerts[i].told \in Nat /\ faults \in Nat
        BY <1>4, <3>4, <3>5
      <4>2. CASE i \notin rows
        <5>1. InHand(pass', i) = FALSE
          BY <2>1, <4>2 DEF InHand
        <5>2. alerts'[i] = alerts[i] /\ faults' = faults
          BY <3>1, <4>2
        <5> HIDE DEF rows
        <5> QED BY <4>1, <5>1, <5>2
      <4>3. CASE i \in rows
        <5>1. alerts[i].told <= faults
          BY <2>3, <4>1, <4>3 DEF ToldOnce
        <5>2. alerts'[i].told > 0 /\ alerts'[i].told <= faults + 1 /\ faults' = faults
          BY <3>1, <3>3, <4>1, <4>3, <5>1
        <5>3. InHand(pass', i)
          BY <3>4, <4>3
        <5> QED BY <5>2, <5>3 DEF ToldOnce
      <4> QED BY <4>2, <4>3
    <3>6. ASSUME NEW i \in DOMAIN alerts, DigestRow(i)
          PROVE  Covered(alerts', digested'[alerts[i].sub], i)
      <4>1. alerts[i].sub \in Sub /\ Len(alerts) \in Nat /\ alerts[i].told \in Nat
        BY TableRows
      <4>2. CASE alerts[i].sub # Working
        <5>1. digested'[alerts[i].sub] = digested[alerts[i].sub]
          BY <3>2, <4>1, <4>2
        <5>2. Covered(alerts, digested[alerts[i].sub], i)
          BY <3>6 DEF DigestInv
        <5>3. digested[alerts[i].sub] \in Nat /\ digested[alerts[i].sub] <= Len(alerts)
          BY <4>1, TableRows
        <5> QED BY <5>1, <5>2, <5>3, CoveredStays
      <4>3. CASE alerts[i].sub = Working
        <5>1. digested'[Working] = Len(alerts)
          BY <2>1, <3>2
        <5>2. CASE i \in rows
          <6>1. alerts'[i].told > 0
            BY <3>3, <4>1, <5>2
          <6> QED BY <6>1 DEF Covered
        <5>3. CASE i \notin rows
          <6>1. Covered(alerts, Len(alerts), i)
            BY <3>6, <4>3, <5>3, DigestCovers
          <6> QED BY <4>1, <4>3, <5>1, <6>1, CoveredStays
        <5> QED BY <5>2, <5>3
      <4> QED BY <4>2, <4>3
    <3>7. RowsSafe
      BY <2>1
    <3> QED BY <1>2, <3>1, <3>5, <3>6, <3>7
  <2> QED BY <2>4, <2>5
<1>16. CASE Settle
  <2>1. /\ pass.step = "settle" /\ pass'.step = "next" /\ UNCHANGED <<digested, faults>>
        /\ alerts' = (IF pass.ok THEN SetPushed(pass.rows) ELSE alerts)
    BY <1>16, CommitTyped, OnwardTyped, SettleFrame DEF Settle
  <2>2. DOMAIN alerts' = DOMAIN alerts
        /\ \A i \in DOMAIN alerts : ~InHand(pass, i) => alerts'[i] = alerts[i]
    BY <2>1 DEF SetPushed, InHand
  <2>3. ASSUME NEW i \in DOMAIN alerts, InHand(pass, i)
        PROVE  alerts'[i].told = alerts[i].told /\ alerts'[i].pushed
    <3> DEFINE a == alerts[i]
    <3>1. alerts'[i] = [a EXCEPT !.pushed = TRUE]
      BY <2>1, <2>3 DEF SetPushed, InHand
    <3>2. a \in Rows
      BY <1>1
    <3> HIDE DEF a
    <3>3. alerts'[i].told = a.told
      BY <3>1, <3>2 DEF Rows
    <3>4. alerts'[i].pushed
      BY <3>1, <3>2 DEF Rows
    <3> QED BY <3>3, <3>4 DEF a
  <2>4. ASSUME NEW i \in DOMAIN alerts, DigestRow(i) PROVE After(i)
    <3>1. InHand(pass', i) = FALSE /\ faults' = faults
      BY <2>1 DEF InHand
    <3>2. CASE ~InHand(pass, i)
      <4>1. ToldOnce(alerts'[i], faults', InHand(pass', i))
        BY <1>4, <2>2, <2>4, <3>1, <3>2
      <4> QED BY <1>3, <2>1, <2>4, <4>1
    <3>3. CASE InHand(pass, i)
      <4>1. alerts[i].told > 0 /\ alerts[i].told <= faults + 1
        <5>1. ToldOnce(alerts[i], faults, InHand(pass, i)) /\ alerts[i].told \in Nat /\ faults \in Nat
          BY <1>4, <2>4
        <5> QED BY <3>3, <5>1 DEF ToldOnce
      <4>2. ToldOnce(alerts'[i], faults', InHand(pass', i))
        BY <2>3, <3>1, <3>3, <4>1 DEF ToldOnce
      <4> QED BY <1>3, <2>1, <2>4, <4>2
    <3> QED BY <3>2, <3>3
  <2> QED BY <1>2, <2>1, <2>2, <2>4
<1> QED BY <1>7, <1>8, <1>9, <1>10, <1>11, <1>12, <1>13, <1>14, <1>15, <1>16, StepKinds

\* For any alerts, caps and faults: a digest that went out left out nothing but what it had
\* no room for, and a row is told of again only after a try that did not settle.
THEOREM DigestsTell == Spec => []DigestsTellAll
<1>1. Init => DigestInv
  BY DEF Init, DigestInv, Idle
<1>2. TypeInv /\ DigestInv /\ [Next]_vars => TypeInv' /\ DigestInv'
  BY TypeStep, DigestStep
<1>3. TypeInv /\ DigestInv => DigestsTellAll
  <2> SUFFICES ASSUME TypeInv, DigestInv, NEW i \in DOMAIN alerts, DigestRow(i)
               PROVE  /\ alerts[i].told <= 1 + faults
                      /\ Covered(alerts, digested[alerts[i].sub], i)
    BY DEF DigestsTellAll, DigestRow, Covered, Behind
  <2>1. ToldOnce(alerts[i], faults, InHand(pass, i)) /\ alerts[i].told \in Nat /\ faults \in Nat
    BY TableRows DEF DigestInv
  <2> QED BY <2>1 DEF DigestInv, ToldOnce
<1> QED BY <1>1, <1>2, <1>3, TypeInit, PTL DEF Spec

================================================================================
