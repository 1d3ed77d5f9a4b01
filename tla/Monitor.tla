-------------------------------- MODULE Monitor --------------------------------
(***************************************************************************)
(* The watches (operations/monitoring.py) and the in-play capture they     *)
(* read (operations/ingestion/inplay.py).                                  *)
(*                                                                         *)
(* A pass goes over the active subscriptions.  Each is scanned from its    *)
(* cursor, what the scan finds is judged, recorded, pushed and marked one  *)
(* by one, and the cursor is moved and committed.  One pass runs at a time:   *)
(* Postgres sees to it with an advisory lock, elsewhere the conductor's    *)
(* job lock does.  A pass may be killed anywhere, a watch may raise, a     *)
(* push may fail.  AlertRules says what is news.                           *)
(***************************************************************************)
EXTENDS AlertRules, FiniteSets, FiniteSetsExt

CONSTANTS
    Sub,        \* the subscriptions
    Name,       \* the stories
    Setups,     \* which are active, in which order, and what they watch
    QuietTicks, \* quiet_hours
    Lag,        \* the cursor's safety lag
    Backlog,    \* how far back a watch without cursor looks
    SteamWindow, MinMoves,
    Cap,        \* max_alerts_per_cycle
    DigestCap,  \* alerts one digest takes
    StateAge,   \* state_age_minutes
    Start, Lead, Longest,   \* the match: its listed start, LEAD_MINUTES, _window
    LongestPass,    \* bound: how long a pass may take
    MaxDelay,   \* bound: from the stamp of a change point to its commit
    MaxBand, MaxMoves, MaxRaces, MaxNow,    \* bounds
    MaxTurns,   \* bound: changes of edges, races and answers
    MaxFaults   \* bound: kills, watches that raise, pushes that fail

NoCursor == -1
Never == -1

ASSUME MonitorAssumption ==
    /\ {Lag, Window, Cooldown, MinMoves, Cap, DigestCap, StateAge, Longest} \subseteq Nat \ {0}
    /\ {Backlog, MaxDelay, MaxBand, MaxMoves, MaxNow, MaxTurns, MaxFaults} \subseteq Nat
    /\ \A u \in Setups : u.order \in Seq(Sub) /\ DOMAIN u.watch = Sub
    /\ \A u \in Setups, s \in Sub : u.watch[s].kind \in Kinds /\ u.watch[s].digest \in Nat

VARIABLES
    clock,
    watch,      \* watch[s]: kind, digest_hours (0: none), quiet hours, every_minutes
    order,
    moves,      \* the change points, in the order they were stamped
    board,      \* board[n]: the edge a scan of n would find, since when, in which race
    match,      \* what the book last answered of the match, and the last row kept of it
    alerts,     \* the alerts table, in order of created_at
    subs,       \* subs[s]: the committed cursor and last_digest_at
    pass,       \* the pass that runs, or Idle
    sent,       \* when a message was last judged and pushed, per watch and key
    cut,        \* watches a pass left at the cap
    digested,   \* how many alerts stood when s's digest was last pushed
    from,       \* how far back s looked before it had a cursor
    turns, faults

config == <<watch, order>>
world == <<moves, board, match, turns>>
ghosts == <<sent, cut, digested, from>>
vars == <<clock, config, world, alerts, subs, pass, ghosts, faults>>

KindsUsed == {watch[s].kind : s \in ToSet(order)}

(***************************************************************************)
(* What is watched.                                                        *)
(***************************************************************************)
Absent == -3    \* nothing to compare
GoneEdge == -2  \* compared, and under the floor or no longer listed
Shut == -1      \* started, or held back by a gate
Edges == {Absent, GoneEdge, Shut} \union 0 .. MaxBand

Tick == /\ clock' = clock + 1 /\ clock < MaxNow
        /\ pass.step # "off" => clock - pass.at < LongestPass
        /\ UNCHANGED <<config, world, alerts, subs, pass, ghosts, faults>>

\* A capture stamps a change point now and commits it at `by`.
Stamp(n, dir, delay) ==
    /\ KindsUsed \intersect MoveKinds # {}
    /\ Len(moves) < MaxMoves /\ board[n].edge # Shut
    /\ moves' = Append(moves, [story |-> n, race |-> 0, tag |-> dir, at |-> clock,
                              by |-> clock + delay])
    /\ UNCHANGED <<clock, config, board, match, turns, alerts, subs, pass, ghosts, faults>>

Turns == turns < MaxTurns /\ turns' = turns + 1

\* What a scan would find of a story changes; a story that is shut stays so.
Turn(n, e) ==
    /\ Turns /\ (KindsUsed \subseteq MoveKinds => e = Shut)
    /\ e # board[n].edge /\ board[n].edge # Shut
    /\ board' = [board EXCEPT ![n].edge = e, ![n].since = clock]
    /\ UNCHANGED <<clock, config, moves, match, alerts, subs, pass, ghosts, faults>>

\* Another day's race under the same venue and number, or the next match.
NextRace(n) ==
    /\ KindsUsed \intersect MoveKinds = {}
    /\ Turns /\ board[n].race < MaxRaces
    /\ board' = [board EXCEPT ![n] = [edge |-> Absent, since |-> clock, race |-> @.race + 1]]
    /\ UNCHANGED <<clock, config, moves, match, alerts, subs, pass, ghosts, faults>>

(***************************************************************************)
(* In-play capture: the book answers a status, or nothing.                 *)
(***************************************************************************)
Statuses == {"pre", "live", "suspended", "ended"}
NoState == [status |-> "none", at |-> Never]

\* _status_from_sportsbet over the three flags.
StatusOf(f) ==
    IF f.settled THEN "ended" ELSE IF f.suspended THEN "suspended"
    ELSE IF f.inPlay THEN "live" ELSE "pre"
Flags == [settled : BOOLEAN, suspended : BOOLEAN, inPlay : BOOLEAN]

Candidate == Start > clock - Longest /\ Start < clock + Lead /\ Start + Longest >= clock

Kept(row, status) ==
    IF row.status = status THEN row ELSE [status |-> status, at |-> clock]

Capture(f) ==
    /\ "inplay_arb" \in KindsUsed /\ Candidate
    /\ match' = [seen |-> [status |-> StatusOf(f), at |-> clock],
                 row |-> Kept(match.row, StatusOf(f))]
    /\ match' # match /\ Turns
    /\ UNCHANGED <<clock, config, moves, board, alerts, subs, pass, ghosts, faults>>

Live(now) == match.row.at > now - StateAge /\ match.row.status = "live"

(***************************************************************************)
(* A pass.                                                                 *)
(***************************************************************************)
Idle == [step |-> "off", at |-> Never, todo |-> <<>>, cands |-> {}, key |-> <<>>,
         fired |-> 0, rows |-> {}, ok |-> FALSE, open |-> FALSE, lost |-> FALSE]

Init ==
    /\ clock = 0
    /\ \E u \in Setups : watch = u.watch /\ order = u.order
    /\ moves = <<>>
    /\ board = [n \in Name |-> [edge |-> 0, since |-> 0, race |-> 0]]
    /\ match = [seen |-> NoState, row |-> NoState]
    /\ alerts = <<>>
    /\ subs = [s \in Sub |-> [cursor |-> NoCursor, digestAt |-> Never]]
    /\ pass = Idle
    /\ sent = <<>> /\ cut = {} /\ digested = [s \in Sub |-> 0] /\ from = [s \in Sub |-> Never]
    /\ turns = 0 /\ faults = 0

Working == Head(pass.todo)
Kind == watch[Working].kind
Cursor == subs[Working].cursor

\* run_watches: the query for the subscriptions opens a transaction.
Begin ==
    /\ pass.step = "off" /\ pass.at < clock
    /\ pass' = [Idle EXCEPT !.step = "next", !.at = clock, !.todo = order, !.open = TRUE]
    /\ UNCHANGED <<clock, config, world, alerts, subs, ghosts, faults>>

OnlyPass == UNCHANGED <<clock, config, world, alerts, subs, ghosts, faults>>

\* After a rollback the subscriptions are expired, and reading the next one raises.
\* measure_arb_outcomes at the end leaves these variables alone.
EndPass ==
    /\ pass.step = "next" /\ (pass.todo = <<>> \/ pass.lost)
    /\ pass' = [Idle EXCEPT !.at = pass.at]
    /\ OnlyPass

AtWatch == pass.step = "next" /\ pass.todo # <<>> /\ ~pass.lost
Resting ==
    watch[Working].every > 1 /\ Cursor # NoCursor /\ pass.at - Cursor < watch[Working].every

Skip ==
    /\ AtWatch /\ Resting
    /\ pass' = [pass EXCEPT !.todo = Tail(@)]
    /\ OnlyPass

Floor == IF Cursor = NoCursor THEN pass.at - Backlog ELSE Cursor - Lag

Committed(n, after) == {i \in DOMAIN moves :
    moves[i].story = n /\ moves[i].by <= clock /\ moves[i].at > after}

Cand(n, r, tag, band) == [story |-> n, race |-> r, tag |-> tag, band |-> band]
Open == {n \in Name : board[n].edge # Shut}

LineMoves == {Cand(moves[i].story, 0, moves[i].tag, AnyBand) :
                 i \in UNION {Committed(n, Floor) : n \in Open}}

\* A walk: enough moves with the net direction and few against it; it is told again
\* each time the streak has grown by min_moves.
Steam ==
    LET Series(n) == Committed(n, pass.at - SteamWindow)
        In(n, dir) == Cardinality({i \in Series(n) : moves[i].tag = dir})
        Net(n) == IF In(n, "up") >= In(n, "down") THEN "up" ELSE "down"
        With(n) == In(n, Net(n))
        Against(n) == Cardinality(Series(n)) - With(n)
        Walks(n) == With(n) >= MinMoves /\ Against(n) <= Max({1, With(n) \div 4})
    IN {Cand(n, 0, Net(n), Cardinality(Series(n)) \div MinMoves) : n \in {n \in Open : Walks(n)}}

WithEdge == {Cand(n, board[n].race, "edge", board[n].edge) : n \in {n \in Name : board[n].edge >= 0}}
Gone == {Cand(n, board[n].race, "gone", 0) : n \in {n \in Name : board[n].edge = GoneEdge}}

Found ==
    CASE Kind = "line_move" -> LineMoves
      [] Kind = "steam" -> Steam
      [] Kind = "inplay_arb" -> IF Live(pass.at) THEN WithEdge ELSE {}
      [] Kind = "value" -> WithEdge \union Gone
      [] OTHER -> WithEdge

Scan ==
    /\ AtWatch /\ ~Resting
    /\ pass' = [pass EXCEPT !.step = "judge", !.cands = Found, !.open = TRUE]
    /\ OnlyPass

\* The best of what was found goes first.
Best(cands) == {c \in cands : \A d \in cands : d.band <= c.band}
IsTold(c) == IsNews(alerts, Working, Kind, c, clock) /\ ~IsRepeat(alerts, Working, Kind, c, clock)

Judging(c) == pass.step = "judge" /\ pass.fired < Cap /\ c \in Best(pass.cands)

Leave(c) ==
    /\ Judging(c) /\ ~IsTold(c)
    /\ pass' = [pass EXCEPT !.cands = @ \ {c}, !.open = TRUE]
    /\ OnlyPass

Quiet(s) == watch[s].quiet /\ clock \in QuietTicks
Silent(s) == watch[s].digest > 0 \/ Quiet(s)
Row(c) == [story |-> c.story, race |-> c.race, tag |-> c.tag, band |-> c.band,
           sub |-> Working, at |-> clock, pushed |-> FALSE, told |-> 0]

\* _fire: the row is committed before anything is pushed.
Fire(c) ==
    /\ Judging(c) /\ IsTold(c)
    /\ alerts' = Append(alerts, Row(c))
    /\ pass' = IF Silent(Working)
               THEN [pass EXCEPT !.cands = @ \ {c}, !.fired = @ + 1, !.open = FALSE]
               ELSE [pass EXCEPT !.cands = @ \ {c}, !.fired = @ + 1, !.open = FALSE,
                                 !.step = "push", !.rows = {Len(alerts) + 1},
                                 !.key = <<Working, Key(Kind, c), clock>>]
    /\ UNCHANGED <<clock, config, world, subs, ghosts, faults>>

Tell(rows) == alerts' = [i \in DOMAIN alerts |->
                            IF i \in rows THEN [alerts[i] EXCEPT !.told = @ + 1] ELSE alerts[i]]
SetPushed(rows) == [i \in DOMAIN alerts |->
                       IF i \in rows THEN [alerts[i] EXCEPT !.pushed = TRUE] ELSE alerts[i]]
MayFail(ok) == ok \/ faults < MaxFaults
Counted(ok) == faults' = IF ok THEN faults ELSE faults + 1

Push(ok) ==
    /\ pass.step = "push" /\ MayFail(ok) /\ Counted(ok)
    /\ IF ok THEN /\ Tell(pass.rows)
                  /\ LET key == <<pass.key[1], pass.key[2]>> IN
                     sent' = [k \in DOMAIN sent \union {key} |->
                                 IF k = key THEN pass.key[3] ELSE sent[k]]
             ELSE UNCHANGED <<alerts, sent>>
    /\ pass' = [pass EXCEPT !.step = "mark", !.ok = ok, !.key = <<>>]
    /\ UNCHANGED <<clock, config, world, subs, cut, digested, from>>

Mark ==
    /\ pass.step = "mark"
    /\ alerts' = IF pass.ok THEN SetPushed(pass.rows) ELSE alerts
    /\ pass' = [pass EXCEPT !.step = "judge", !.rows = {}, !.ok = FALSE, !.open = FALSE]
    /\ UNCHANGED <<clock, config, world, subs, ghosts, faults>>

Scanned == pass.step = "judge" /\ (pass.cands = {} \/ pass.fired >= Cap)
CutHere == cut' = IF pass.cands = {} THEN cut ELSE cut \union {Working}

\* The watch's commit: its cursor, and on to the next.
Onward(digestAt) ==
    /\ subs' = [subs EXCEPT ![Working] = [cursor |-> pass.at, digestAt |-> digestAt]]
    /\ from' = IF Cursor = NoCursor THEN [from EXCEPT ![Working] = Floor] ELSE from
    /\ pass' = [Idle EXCEPT !.step = "next", !.at = pass.at, !.todo = Tail(pass.todo)]

DigestDue ==
    LET every == watch[Working].digest  last == subs[Working].digestAt
    IN every > 0 /\ (last = Never \/ pass.at - last >= every)

Advance ==
    /\ Scanned /\ ~DigestDue
    /\ Onward(subs[Working].digestAt) /\ CutHere
    /\ UNCHANGED <<clock, config, world, alerts, sent, digested, faults>>

\* The digest takes the latest alerts nobody was told of.
Pending(s) == {i \in DOMAIN alerts : alerts[i].sub = s /\ ~alerts[i].pushed}
Latest(is) == {i \in is : Cardinality({j \in is : j > i}) < DigestCap}

Digest(ok) ==
    /\ Scanned /\ DigestDue /\ MayFail(ok) /\ Counted(ok) /\ CutHere
    /\ LET rows == Latest(Pending(Working)) IN
        /\ rows = {} => ok
        /\ IF ok THEN Tell(rows) ELSE UNCHANGED alerts
        /\ pass' = [pass EXCEPT !.step = "settle", !.rows = rows, !.ok = ok, !.cands = {},
                                !.open = TRUE]
        /\ digested' = IF ok THEN [digested EXCEPT ![Working] = Len(alerts)] ELSE digested
    /\ UNCHANGED <<clock, config, world, subs, sent, from>>

SettleAnyway ==  \* mutant
    /\ pass.step = "settle"
    /\ alerts' = SetPushed(pass.rows)
    /\ Onward(pass.at)
    /\ UNCHANGED <<clock, config, world, sent, cut, digested, faults>>
Settle ==
    /\ pass.step = "settle"
    /\ alerts' = IF pass.ok THEN SetPushed(pass.rows) ELSE alerts
    /\ Onward(pass.at)
    /\ UNCHANGED <<clock, config, world, sent, cut, digested, faults>>

\* A watch raises: what it had not committed is rolled back, its cursor stays, and the
\* pass goes on to the next.
Raises ==
    /\ faults < MaxFaults /\ faults' = faults + 1
    /\ pass.step \in {"judge", "mark", "settle"} \/ (AtWatch /\ ~Resting)
    /\ pass' = [Idle EXCEPT !.step = "next", !.at = pass.at, !.todo = Tail(pass.todo),
                            !.lost = pass.open]
RaiseAndAdvance ==  \* mutant
    /\ Raises
    /\ subs' = [subs EXCEPT ![Working].cursor = pass.at]
    /\ UNCHANGED <<clock, config, world, alerts, ghosts>>
Raise ==
    /\ Raises
    /\ UNCHANGED <<clock, config, world, alerts, subs, ghosts>>

Kill ==
    /\ pass.step # "off" /\ faults < MaxFaults /\ faults' = faults + 1
    /\ pass' = [Idle EXCEPT !.at = pass.at]
    /\ UNCHANGED <<clock, config, world, alerts, subs, ghosts>>

PassStep ==
    \/ EndPass \/ Skip \/ Scan \/ Mark \/ Advance \/ Settle
    \/ \E c \in pass.cands : Leave(c) \/ Fire(c)
    \/ \E ok \in BOOLEAN : Push(ok) \/ Digest(ok)

Next ==
    \/ Tick
    \/ \E n \in Name, d \in {"up", "down"}, delay \in 1 .. MaxDelay : Stamp(n, d, delay)
    \/ \E n \in Name : NextRace(n) \/ \E e \in Edges : Turn(n, e)
    \/ \E f \in Flags : Capture(f)
    \/ Begin \/ PassStep \/ Raise \/ Kill

Spec == Init /\ [][Next]_vars

(***************************************************************************)
(* Properties.                                                             *)
(***************************************************************************)
TypeOK ==
    /\ clock \in 0 .. MaxNow /\ turns \in 0 .. MaxTurns /\ faults \in 0 .. MaxFaults
    /\ \A n \in Name : board[n].edge \in Edges /\ board[n].since \in 0 .. clock
    /\ \A i \in DOMAIN moves : moves[i].at \in 0 .. clock
    /\ \A i \in DOMAIN alerts : alerts[i].sub \in Sub /\ alerts[i].at \in 0 .. clock
    /\ \A s \in Sub : subs[s].cursor \in NoCursor .. clock
    /\ pass.rows \subseteq DOMAIN alerts /\ pass.at \in Never .. clock
    /\ pass.step # "off" => ToSet(pass.todo) \subseteq ToSet(order)

\* A price move committed inside the safety lag is told of by the watch once its cursor
\* has reached it, whatever passes were killed or raised, unless an alert of the same move
\* stood within the window, the pass reached its cap, or the move was older than the
\* watch's first pass looked back.
MovesAreHeard ==
    \A s \in Sub : \A i \in DOMAIN moves :
        LET m == moves[i] IN
        (/\ watch[s].kind = "line_move" /\ s \notin cut
         /\ m.by - m.at <= Lag
         /\ subs[s].cursor >= m.by /\ m.at > from[s] /\ board[m.story].edge # Shut)
        => \E j \in DOMAIN alerts :
               /\ alerts[j].sub = s /\ alerts[j].story = m.story /\ alerts[j].tag = m.tag
               /\ alerts[j].at >= m.by - Window

\* A standing edge that a completed scan saw is told of: an alert of its own match has
\* that band or more, or the story is cooling down, or it was told inside the window.
EdgesAreHeard ==
    \A s \in Sub, n \in Name :
        LET b == board[n]  kind == watch[s].kind  c == Cand(n, b.race, "edge", b.edge)
            Of(j) == alerts[j].sub = s /\ alerts[j].story = n /\ alerts[j].race = b.race
        IN (/\ kind \notin MoveKinds \union {"racing_value", "inplay_arb"}
            /\ b.edge >= 0 /\ b.since < subs[s].cursor /\ s \notin cut)
           => \E j \in DOMAIN alerts : Of(j) /\
                \/ kind \in Ratchets /\ alerts[j].tag = "edge" /\ alerts[j].band >= b.edge
                \/ kind \in Cooled /\ alerts[j].at > subs[s].cursor - Cooldown
                \/ /\ Key(kind, alerts[j]) = Key(kind, c)
                   /\ alerts[j].at >= subs[s].cursor - Window

\* Watches that compare with their last alert tell of a story again only when its edge
\* grew, or was told to be gone in between.
OnlyGrowthIsTold ==
    TypeOK /\ \A i, j \in DOMAIN alerts :
        (/\ i < j /\ alerts[i].sub = alerts[j].sub
         /\ watch[alerts[i].sub].kind \in Ratchets
         /\ alerts[i].tag = "edge" /\ alerts[j].tag = "edge"
         /\ Story(watch[alerts[i].sub].kind, alerts[i]) = Story(watch[alerts[i].sub].kind, alerts[j]))
        => \/ alerts[j].band > alerts[i].band
           \/ \E k \in i .. j :
                 /\ alerts[k].sub = alerts[i].sub /\ alerts[k].tag = "gone"
                 /\ Story(watch[alerts[k].sub].kind, alerts[k])
                        = Story(watch[alerts[i].sub].kind, alerts[i])

\* No message goes out twice for one key inside the window, whatever pass is killed
\* between its steps.
NoSecondPush ==
    [][\A k \in DOMAIN sent :
          sent'[k] # sent[k] => sent'[k] - sent[k] > Window]_vars

\* What a digest watch recorded before a digest that went out has been told, unless the
\* digest was full; and it is told again only after a pass that did not settle.
DigestsTellAll ==
    \A i \in DOMAIN alerts :
        LET s == alerts[i].sub IN
        watch[s].digest > 0 =>
            /\ alerts[i].told <= 1 + faults
            /\ i <= digested[s] =>
                \/ alerts[i].told > 0
                \/ Cardinality({j \in (i + 1) .. digested[s] : alerts[j].sub = s}) >= DigestCap
=============================================================================
