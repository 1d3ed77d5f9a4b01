------------------------------ MODULE PriceStore ------------------------------
(***************************************************************************)
(* The price warehouse: operations/ingestion/store.py, written by the      *)
(* passes of the ingestion worker, and operations/retention.py, the        *)
(* custodian that prunes it.                                               *)
(*                                                                         *)
(* A pass is one call of record_points.  It reads the change points, then  *)
(* the standing snapshots, decides for every point what to write, and      *)
(* commits that in slices; a slice may end after any row, so a step writes *)
(* one row.  On Postgres the passes of a cycle run side by side, on SQLite *)
(* a lock keeps those of one process apart but not those of two commands;  *)
(* so here passes overlap.  No two of them begin at the same instant.      *)
(***************************************************************************)
EXTENDS Integers, Sequences, FiniteSets

CONSTANTS
    Pass,           \* slots for passes under way
    Key,            \* (provider, book, event, market, selection)
    Odds,
    RefreshEvery,   \* SPORTSDATA_AGENTS_SNAPSHOT_REFRESH_S
    Windows,        \* the ages retention may keep snapshots for
    KeepPrices,     \* SPORTSDATA_AGENTS_PRICES_RETENTION_DAYS
    BackupEvery,    \* PRUNE_BACKUP_S
    Unknown,        \* no odds, no row
    Batches,        \* what one pass may bring: sequences of points, some repeating a key;
                    \* news: its meta (volume, start time) is not the standing row's
    MaxNow,         \* bound: the clock
    MaxMishaps      \* bound: passes that die, overlap, contradict themselves or lose a
                    \* row to a prune, and prunes that take the end of a series first

ASSUME PriceStoreAssumption ==
    /\ IsFiniteSet(Key) /\ Unknown \notin Odds
    /\ RefreshEvery \in Nat /\ KeepPrices \in Nat /\ BackupEvery \in Nat
    /\ Windows \subseteq Nat /\ \A w \in Windows : BackupEvery <= w
    /\ Batches \subseteq Seq([key : Key, odds : Odds, news : BOOLEAN]) \ {<<>>}
    /\ MaxNow \in Nat /\ MaxMishaps \in Nat

VARIABLES
    now,
    backend,    \* the database the processes were started on
    snaps,      \* the table odds_snapshots
    prices,     \* the table prices: the change points
    pass,       \* pass[p]: the pass in slot p
    custodian,  \* the custodian's run
    backup,     \* last_backup_at, when the newest backup was taken; 0 without one
    harm,       \* harm[k]: whether a pass over k was cut short or disturbed
    confirmed,  \* confirmed[k]: what the last undisturbed pass over k reported
    mishaps

vars == <<now, backend, snaps, prices, pass, custodian, backup, harm, confirmed, mishaps>>
retentionVars == <<custodian, backup>>

(***************************************************************************)
(* The tables                                                              *)
(***************************************************************************)


\* A snapshot is the row of a price level; at is when it was last confirmed.  Its
\* id is the instant and the place in its pass it was inserted at.
Snapshots == [id : (1..MaxNow) \X (Nat \ {0}), key : Key, odds : Odds, at : 1..MaxNow]
ChangePoints == [key : Key, at : 1..MaxNow, odds : Odds, prev : Odds \union {Unknown}]

NewestOf(rows, k) ==
    {r \in rows : r.key = k /\ \A s \in rows : s.key = k => s.at <= r.at}

\* _load_latest_odds and _load_latest_snapshots: of rows with the same stamp the
\* query returns each, and the last one read wins.
LatestOdds ==
    {f \in [Key -> Odds \union {Unknown}] :
        \A k \in Key : LET new == NewestOf(prices, k)
                       IN  IF new = {} THEN f[k] = Unknown ELSE \E r \in new : f[k] = r.odds}
NoRow == [id |-> <<0, 0>>, odds |-> Unknown, at |-> 0]
Standing(r) == [id |-> r.id, odds |-> r.odds, at |-> r.at]
LatestSnapshots ==
    {f \in [Key -> {Standing(r) : r \in snaps} \union {NoRow}] :
        \A k \in Key : LET new == NewestOf(snaps, k)
                       IN  IF new = {} THEN f[k] = NoRow ELSE \E r \in new : f[k] = Standing(r)}

(***************************************************************************)
(* What a pass decides                                                     *)
(***************************************************************************)

Insert(p, at, n) == [kind |-> "insert", row |-> [id |-> <<at, n>>, key |-> p.key,
                     odds |-> p.odds, at |-> at]]
Refresh(p, at, id) == [kind |-> "refresh", row |-> [id |-> id, key |-> p.key,
                       odds |-> p.odds, at |-> at]]
Change(p, at, prev) == [kind |-> "change", row |-> [key |-> p.key, at |-> at,
                        odds |-> p.odds, prev |-> prev]]

\* A row inserted earlier in the same pass has no id yet.
InThisPass == <<0, 1>>

\* The standing row says the same and was confirmed recently: not worth a write.
FreshToTheSecond(p, target, at) ==   \* mutant
    target.odds = p.odds /\ ~p.news /\ at - target.at <= RefreshEvery
FreshEnough(p, target, at) ==
    target.odds = p.odds /\ ~p.news /\ at - target.at < RefreshEvery

\* The row stands for the level, or the last change point does not say so.
SameLevel(w, p) == w.targets[p.key].odds = p.odds
HasMovedFromStanding(w, p) == w.targets[p.key].odds # p.odds   \* mutant
HasMoved(w, p) == w.latest[p.key] # p.odds
HasId(target) == target.id # InThisPass

\* One turn of the loop of record_points over a point that is worth a write.
Worked(w, p, at) ==
    LET target == w.targets[p.key]
        same   == SameLevel(w, p)
        moved  == HasMoved(w, p)
    IN  [targets   |-> IF same THEN w.targets
                       ELSE [w.targets EXCEPT ![p.key] =
                               [id |-> InThisPass, odds |-> p.odds, at |-> at]],
         latest    |-> IF moved THEN [w.latest EXCEPT ![p.key] = p.odds] ELSE w.latest,
         inserts   |-> IF same THEN w.inserts
                       ELSE Append(w.inserts, Insert(p, at, Len(w.inserts) + 1)),
         refreshes |-> IF same /\ HasId(target)
                       THEN Append(w.refreshes, Refresh(p, at, target.id)) ELSE w.refreshes,
         changes   |-> IF moved THEN Append(w.changes, Change(p, at, w.latest[p.key])) ELSE w.changes]

\* The loop of record_points: what it has decided after each point.
Undecided(latest, targets) ==
    [targets |-> targets, latest |-> latest, inserts |-> <<>>, refreshes |-> <<>>, changes |-> <<>>]
Turn(w, p, at) == IF FreshEnough(p, w.targets[p.key], at) THEN w ELSE Worked(w, p, at)
Decided(points, latest, targets, at) ==
    LET after[n \in 0..Len(points)] ==
            IF n = 0 THEN Undecided(latest, targets) ELSE Turn(after[n - 1], points[n], at)
    IN  after

\* The writes of a pass, in the order they are committed.
Writes(points, latest, targets, at) ==
    LET done == Decided(points, latest, targets, at)[Len(points)]
    IN  done.inserts \o done.refreshes \o done.changes

(***************************************************************************)
(* Passes                                                                  *)
(***************************************************************************)

NeverConfirmed == [at |-> 0, odds |-> Unknown]
NoPass == [step |-> "idle", at |-> 0, points |-> <<>>, todo |-> <<>>, hurt |-> {}, wrote |-> {}]
KeysOf(p) == {pass[p].points[i].key : i \in DOMAIN pass[p].points}

\* Passes over key k under way, and those of them that have read the tables.
Under(k) == {p \in Pass : pass[p].step # "idle" /\ k \in KeysOf(p)}
Loaded(k) == {p \in Under(k) : pass[p].step = "write"}

\* One batch that quotes two prices for one key.
Contradicts(points) ==
    {k \in Key : \E i, j \in DOMAIN points :
        points[i].key = k /\ points[j].key = k /\ points[i].odds # points[j].odds}

\* The keys are torn, and no pass now over one of them can mend it.
Tear(keys) == harm' = [k \in Key |-> IF k \in keys THEN "torn" ELSE harm[k]]
Hurt(keys) == [q \in Pass |-> [pass[q] EXCEPT !.hurt = @ \union (keys \intersect KeysOf(q))]]

\* record_points returns.  A key it wrote undisturbed is whole again.
LastPoint(p, k) ==
    LET at == {i \in DOMAIN pass[p].points : pass[p].points[i].key = k}
    IN  pass[p].points[CHOOSE i \in at : \A j \in at : j <= i]
Return(p, wrote) ==
    /\ harm' = [k \in Key |->
         IF harm[k] = "torn" /\ k \in wrote \ pass[p].hurt THEN "mended" ELSE harm[k]]
    /\ confirmed' = [k \in Key |->
         IF k \in KeysOf(p) \ pass[p].hurt
         THEN [at |-> pass[p].at, odds |-> LastPoint(p, k).odds] ELSE confirmed[k]]
    /\ pass' = [pass EXCEPT ![p] = NoPass]

\* record_points is called: captured_at is taken once, for every point.
Begin(p) ==
    /\ pass[p].step = "idle" /\ now < MaxNow
    /\ now' = now + 1
    /\ \E points \in Batches :
        LET shared == {k \in {points[i].key : i \in DOMAIN points} : Under(k) # {}}
            hurt   == shared \union Contradicts(points)
        IN  /\ pass' = [Hurt(shared) EXCEPT ![p] =
                          [NoPass EXCEPT !.step = "begun", !.at = now + 1,
                                         !.points = points, !.hurt = hurt]]
            /\ Tear(hurt)
            /\ mishaps' = mishaps + Cardinality(hurt) /\ mishaps' <= MaxMishaps
    /\ UNCHANGED <<backend, snaps, prices, retentionVars, confirmed>>

\* Both tables are read, in one session, and everything is decided.
Load(p) ==
    /\ pass[p].step = "begun"
    /\ \E latest \in LatestOdds, targets \in LatestSnapshots :
        LET todo == Writes(pass[p].points, latest, targets, pass[p].at)
        IN  IF todo = <<>> THEN Return(p, {})
            ELSE /\ pass' = [pass EXCEPT ![p].step = "write", ![p].todo = todo,
                                         ![p].wrote = {todo[i].row.key : i \in DOMAIN todo}]
                 /\ UNCHANGED <<harm, confirmed>>
    /\ UNCHANGED <<now, backend, snaps, prices, retentionVars, mishaps>>

\* UPDATE by id: nothing happens when the row has been pruned.
RefreshedByAppending(row) == snaps \union {[row EXCEPT !.id = <<row.at, 1>>]}   \* mutant
Refreshed(row) == {IF s.id = row.id THEN [s EXCEPT !.at = row.at] ELSE s : s \in snaps}

\* INSERT ... ON CONFLICT (key, changed_at) DO NOTHING.
AppendedOnce(row) ==   \* mutant
    IF \E q \in prices : q.key = row.key /\ q.odds = row.odds THEN prices ELSE prices \union {row}
Appended(row) ==
    IF \E q \in prices : q.key = row.key /\ q.at = row.at THEN prices ELSE prices \union {row}

Commit(p) ==
    /\ pass[p].step = "write"
    /\ LET write == Head(pass[p].todo)
       IN  /\ snaps' = CASE write.kind = "insert"  -> snaps \union {write.row}
                         [] write.kind = "refresh" -> Refreshed(write.row)
                         [] write.kind = "change"  -> snaps
           /\ prices' = IF write.kind = "change" THEN Appended(write.row) ELSE prices
    /\ IF Len(pass[p].todo) = 1 THEN Return(p, pass[p].wrote)
       ELSE /\ pass' = [pass EXCEPT ![p].todo = Tail(@)]
            /\ UNCHANGED <<harm, confirmed>>
    /\ UNCHANGED <<now, backend, retentionVars, mishaps>>

\* The process dies, or a statement raises: what is not committed is not written.
\* Before its first write nothing would be lost but the pass.
Die(p) ==
    /\ pass[p].step = "write" /\ mishaps < MaxMishaps
    /\ mishaps' = mishaps + 1
    /\ Tear(pass[p].wrote)
    /\ confirmed' = [k \in Key |-> IF k \in KeysOf(p) THEN NeverConfirmed ELSE confirmed[k]]
    /\ pass' = [pass EXCEPT ![p] = NoPass]
    /\ UNCHANGED <<now, backend, snaps, prices, retentionVars>>

(***************************************************************************)
(* The custodian                                                           *)
(***************************************************************************)

NoRun == [step |-> "idle", keep |-> 0, cutoff |-> 0, room |-> FALSE]

BackupDueWeekly == backup = 0 \/ now - backup > 7 * BackupEvery   \* mutant
BackupDue == backup = 0 \/ now - backup > BackupEvery

\* run_custodian on SQLite under pressure: back the warehouse up when the last
\* backup is too old and the disk has room for one, and go on to prune either way.
\* A run that is killed leaves the rest to the next.
BackUpAndPrune ==
    /\ backend = "sqlite" /\ custodian.step = "idle"
    /\ \E keep \in Windows, room \in BOOLEAN :
        /\ custodian' = [step |-> "snapshots", keep |-> keep, cutoff |-> now - keep,
                         room |-> ~BackupDue \/ room]
        /\ backup' = IF BackupDue /\ room THEN now ELSE backup
    /\ UNCHANGED <<now, backend, snaps, prices, pass, harm, confirmed, mishaps>>

\* _run_custodian_postgres prunes without a backup.
PrunePostgres ==
    /\ backend = "postgres" /\ custodian.step = "idle"
    /\ \E keep \in Windows :
        custodian' = [NoRun EXCEPT !.step = "snapshots", !.keep = keep, !.cutoff = now - keep]
    /\ UNCHANGED <<now, backend, snaps, prices, pass, backup, harm, confirmed, mishaps>>

\* A batch of a prune is cut off by a LIMIT and by no order, so it may take the end
\* of a series and leave its beginning; and a pass that has read a row of it goes
\* on with a row that is gone.
DisturbedBy(gone, rows) ==
    {k \in Key : \E r \in gone :
        r.key = k /\ (Loaded(k) # {} \/ \E q \in rows \ gone : q.key = k /\ q.at < r.at)}

PruneSnapshots ==
    /\ custodian.step = "snapshots"
    /\ \E gone \in SUBSET {r \in snaps : r.at < custodian.cutoff} :
        LET keys == DisturbedBy(gone, snaps)
        IN  /\ gone # {}
            /\ snaps' = snaps \ gone
            /\ pass' = Hurt(keys)
            /\ Tear(keys)
            /\ mishaps' = mishaps + Cardinality(keys) /\ mishaps' <= MaxMishaps
    /\ UNCHANGED <<now, backend, prices, retentionVars, confirmed>>

\* The cutoff of prune_prices: it keeps at least as long as the snapshots are kept.
PricesCutoff == now - (IF custodian.keep > KeepPrices THEN custodian.keep ELSE KeepPrices)
SnapshotsDone ==
    /\ custodian.step = "snapshots"
    /\ custodian' = IF backend = "postgres"
                    THEN [custodian EXCEPT !.step = "prices", !.cutoff = PricesCutoff] ELSE NoRun
    /\ UNCHANGED <<now, backend, snaps, prices, pass, backup, harm, confirmed, mishaps>>

PrunePrices ==
    /\ custodian.step = "prices"
    /\ \E gone \in SUBSET {r \in prices : r.at < custodian.cutoff} :
        LET keys == DisturbedBy(gone, prices)
        IN  /\ gone # {}
            /\ prices' = prices \ gone
            /\ pass' = Hurt(keys)
            /\ Tear(keys)
            /\ mishaps' = mishaps + Cardinality(keys) /\ mishaps' <= MaxMishaps
    /\ UNCHANGED <<now, backend, snaps, retentionVars, confirmed>>

PricesDone ==
    /\ custodian.step = "prices"
    /\ custodian' = NoRun
    /\ UNCHANGED <<now, backend, snaps, prices, pass, backup, harm, confirmed, mishaps>>

Wait ==
    /\ now < MaxNow
    /\ now' = now + 1
    /\ UNCHANGED <<backend, snaps, prices, pass, retentionVars, harm, confirmed, mishaps>>

(***************************************************************************)
(* Specification                                                           *)
(***************************************************************************)

Init ==
    /\ now = 0 /\ backend \in {"sqlite", "postgres"}
    /\ snaps = {} /\ prices = {}
    /\ pass = [p \in Pass |-> NoPass]
    /\ custodian = NoRun /\ backup = 0
    /\ harm = [k \in Key |-> "none"]
    /\ confirmed = [k \in Key |-> NeverConfirmed]
    /\ mishaps = 0

Record(p) == Begin(p) \/ Load(p) \/ Commit(p) \/ Die(p)
Custodian ==
    BackUpAndPrune \/ PrunePostgres \/ PruneSnapshots \/ SnapshotsDone \/ PrunePrices
    \/ PricesDone
Next == (\E p \in Pass : Record(p)) \/ Custodian \/ Wait
Spec == Init /\ [][Next]_vars

(***************************************************************************)
(* Properties                                                              *)
(***************************************************************************)

Writing == [kind : {"insert", "refresh"}, row : Snapshots] \union [kind : {"change"}, row : ChangePoints]
Passes == [step : {"idle", "begun", "write"}, at : 0..MaxNow, points : {<<>>} \union Batches,
           todo : Seq(Writing), hurt : SUBSET Key, wrote : SUBSET Key]

\* Every variable keeps its type: in particular no row is stored under the
\* placeholder id of a row inserted in the same pass, whatever a batch repeats.
TypeOK ==
    /\ now \in 0..MaxNow /\ backend \in {"sqlite", "postgres"}
    /\ \A r \in snaps : r \in Snapshots
    /\ \A r \in prices : r \in ChangePoints
    /\ DOMAIN pass = Pass /\ \A p \in Pass : pass[p] \in Passes
    /\ custodian.step \in {"idle", "snapshots", "prices"}
    /\ backup \in 0..MaxNow
    /\ harm \in [Key -> {"none", "torn", "mended"}] /\ mishaps \in 0..MaxMishaps

\* What is undisturbed or mended, and not being written.
Settled(k) == harm[k] # "torn" /\ Under(k) = {}

\* The two tables are written one after the other in slices that commit apart.
\* Still, of a key that is settled the last change point and the standing
\* snapshot quote the same price: after a pass that died half way, after two that
\* overlapped, or after a prune behind one's back, the first undisturbed pass that
\* writes the key at all repairs it (record_points, "every write here is idempotent").
SeriesAgrees ==
    /\ TypeOK
    /\ \A k \in Key : Settled(k) =>
           \A r \in NewestOf(snaps, k), q \in NewestOf(prices, k) : r.odds = q.odds

\* "The raw table holds one row per price LEVEL": as long as no pass over a key was
\* disturbed, two snapshots that follow one another quote different prices, however
\* often the price was seen, refreshed, skipped, or pruned and seen again; and a chart
\* drawn from the change points has no gap and no false start: each starts from the price
\* the one before it moved to, and none moves to where it was.
HistoryIsWhole ==
    \A k \in Key : harm[k] = "none" =>
        /\ \A r, s \in snaps :
            /\ r.key = k /\ s.key = k /\ r.at < s.at
            /\ ~\E q \in snaps : q.key = k /\ r.at < q.at /\ q.at < s.at
            => r.odds # s.odds
        /\ \A r, s \in prices :
            /\ r.key = k /\ s.key = k /\ r.at < s.at
            /\ ~\E q \in prices : q.key = k /\ r.at < q.at /\ q.at < s.at
            => s.prev = r.odds /\ s.odds # s.prev

\* "A stamp up to five minutes behind changes no decision": the standing row of a
\* price is less than RefreshEvery behind the last pass that reported it, or as old where
\* every capture is written (RefreshEvery = 0), and retention has not taken it, unless the
\* shortest window has passed since.
Kept(k) ==
    \A w \in Windows : confirmed[k].at >= now - w /\ confirmed[k].at - RefreshEvery + 1 >= now - w
StampLagsBehindLittle ==
    \A k \in Key : Settled(k) /\ confirmed[k].at > 0 /\ Kept(k) =>
        /\ NewestOf(snaps, k) # {}
        /\ \A r \in NewestOf(snaps, k) :
            /\ r.odds = confirmed[k].odds
            /\ r.at = confirmed[k].at \/ confirmed[k].at - r.at < RefreshEvery

\* "Every prune is preceded by a backup": on SQLite a row that retention deletes is
\* in the newest backup, which was taken after the row was last written, unless the
\* disk had no room for one.  The backup may be a day old; the shortest window is one.
PrunedRowsAreBackedUp ==
    [][\A r \in snaps : custodian.step = "snapshots" /\ backend = "sqlite" /\ custodian.room
          /\ (\A s \in snaps' : s.id # r.id) => r.at <= backup]_vars

\* The change points are the series PriceSeries promises.
LevelsOf(k) ==
    IF harm[k] # "none" THEN {}
    ELSE {[at |-> r.at, odds |-> r.odds] : r \in {q \in prices : q.key = k}}
Series == INSTANCE PriceSeries WITH levels <- [k \in Key |-> LevelsOf(k)]
SeriesPromise == Series!Promise
=============================================================================
