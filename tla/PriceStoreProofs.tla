---------------------------- MODULE PriceStoreProofs ----------------------------
(***************************************************************************)
(* Theorems about PriceStore for any keys, prices, batches, passes that    *)
(* overlap, die or contradict themselves, and prunes behind them: its      *)
(* types, what the two tables say of a price, and that the change points   *)
(* are the series PriceSeries promises.                                    *)
(***************************************************************************)
EXTENDS PriceStore, FiniteSetTheorems, WellFoundedInduction, TLAPS

(***************************************************************************)
(* The least element of a set of numbers, for the inductions below         *)
(***************************************************************************)

LEMMA LeastOfSome ==
    ASSUME NEW S, S \subseteq Nat, S # {}
    PROVE  \E n \in S : \A m \in S : n <= m
<1> DEFINE Precedes == OpToRel(<, Nat)
<1>1. IsWellFoundedOn(Precedes, Nat)
  BY NatLessThanWellFounded, Zenon DEF OpToRel
<1>2. PICK n \in S : \A m \in S : ~(<<m, n>> \in Precedes)
  <2> HIDE DEF Precedes
  <2> QED BY <1>1, WFMin
<1>3. \A m \in S : ~(m < n)
  BY <1>2 DEF OpToRel
<1> QED BY <1>3

(***************************************************************************)
(* The loop of record_points                                               *)
(***************************************************************************)

Point == [key : Key, odds : Odds, news : BOOLEAN]
Ids == (1..MaxNow) \X (Nat \ {0})
Standings == [id : Ids \union {NoRow.id, InThisPass}, odds : Odds \union {Unknown}, at : 0..MaxNow]
Notes == [targets : [Key -> Standings], latest : [Key -> Odds \union {Unknown}],
          inserts : Seq(Writing), refreshes : Seq(Writing), changes : Seq(Writing)]

\* What a row found in a table may be: with an id of its own, or none at all.
Found(targets) == \A k \in Key : /\ targets[k].id # InThisPass
                                 /\ targets[k].odds \in Odds => targets[k].id \in Ids

LEMMA LoopDefined ==
    ASSUME NEW points \in Seq(Point), NEW latest, NEW targets, NEW at
    PROVE  LET D == Decided(points, latest, targets, at)
           IN  /\ D[0] = Undecided(latest, targets)
               /\ \A n \in 1..Len(points) : D[n] = Turn(D[n - 1], points[n], at)
<1> DEFINE L == Len(points)
           Next1(g, n) == IF n = 0 THEN Undecided(latest, targets) ELSE Turn(g[n - 1], points[n], at)
           Is(g, m) == g = [n \in 0..m |-> Next1(g, n)]
           Without == {m \in 0..L : \A g : ~Is(g, m)}
<1>1. L \in Nat
  OBVIOUS
<1>2. \E g : Is(g, 0)
  <2> DEFINE h == [n \in 0..0 |-> Undecided(latest, targets)]
  <2>1. h = [n \in 0..0 |-> Next1(h, n)]
    <3>1. \A n \in 0..0 : Next1(h, n) = Undecided(latest, targets)
      OBVIOUS
    <3> QED BY <3>1
  <2> QED BY <2>1
<1>3. ASSUME NEW m \in 0..L, m # L, \E g : Is(g, m) PROVE \E g : Is(g, m + 1)
  <2>1. PICK g : Is(g, m)
    BY <1>3
  <2> DEFINE h == [n \in 0..(m + 1) |-> IF n = m + 1 THEN Turn(g[m], points[n], at) ELSE g[n]]
  <2>2. ASSUME NEW n \in 0..(m + 1) PROVE h[n] = Next1(h, n)
    <3>1. CASE n = 0
      BY <2>1, <3>1
    <3>2. CASE n # 0 /\ n # m + 1
      <4>1. n \in 0..m /\ n - 1 \in 0..m /\ n - 1 \in 0..(m + 1) /\ n - 1 # m + 1
        BY <3>2
      <4>2. h[n] = g[n] /\ h[n - 1] = g[n - 1]
        BY <3>2, <4>1
      <4>3. g[n] = Next1(g, n)
        BY <2>1, <4>1
      <4> QED BY <4>2, <4>3
    <3>3. CASE n = m + 1
      <4>1. m \in 0..(m + 1) /\ m # m + 1 /\ n - 1 = m /\ n # 0
        BY <3>3
      <4>2. h[m] = g[m] /\ h[n] = Turn(g[m], points[n], at)
        BY <3>3, <4>1
      <4>3. Next1(h, n) = Turn(h[m], points[n], at)
        BY <4>1
      <4> QED BY <4>2, <4>3
    <3> QED BY <3>1, <3>2, <3>3
  <2>3. h = [n \in 0..(m + 1) |-> Next1(h, n)]
    <3> HIDE DEF Next1
    <3>1. [n \in 0..(m + 1) |-> Next1(h, n)] = [n \in 0..(m + 1) |-> h[n]]
      BY <2>2
    <3> QED BY <3>1
  <2> QED BY <2>3
<1>4. \E g : Is(g, L)
  <2> SUFFICES ASSUME \A g : ~Is(g, L) PROVE FALSE
    OBVIOUS
  <2> HIDE DEF Is
  <2>1. L \in Without /\ Without \subseteq Nat
    BY <1>1
  <2> HIDE DEF Without
  <2>2. PICK m \in Without : \A n \in Without : m <= n
    BY <2>1, LeastOfSome
  <2>3. m \in 0..L /\ \A g : ~Is(g, m)
    BY <2>2 DEF Without
  <2>4. m # 0
    BY <2>3, <1>2
  <2>5. m - 1 \in 0..L /\ m - 1 # L /\ ~(m <= m - 1) /\ (m - 1) + 1 = m
    BY <2>3, <2>4, <1>1
  <2>6. \E g : Is(g, m - 1)
    BY <2>2, <2>5 DEF Without
  <2>7. \E g : Is(g, m)
    BY <1>3, <2>5, <2>6
  <2> QED BY <2>3, <2>7
<1>5. Is(Decided(points, latest, targets, at), L)
  BY <1>4, Zenon DEF Decided
<1> HIDE DEF L
<1> QED
  <2> DEFINE D == Decided(points, latest, targets, at)
  <2>1. \A n \in 0..L : D[n] = Next1(D, n)
    BY <1>5
  <2> HIDE DEF D
  <2>2. D[0] = Undecided(latest, targets) /\ \A n \in 1..L : D[n] = Turn(D[n - 1], points[n], at)
    BY <2>1, <1>1
  <2> QED BY <2>2 DEF D, L

\* What the loop has noted is typed; a row it refreshes is a row it found, and the rows it
\* inserts are numbered.
Grown(w, targets, at) ==
    /\ \A k \in Key : \/ w.targets[k] = targets[k]
                      \/ w.targets[k].id = InThisPass /\ w.targets[k].odds \in Odds
    /\ \A j \in DOMAIN w.inserts :
          /\ w.inserts[j].kind = "insert" /\ w.inserts[j].row \in Snapshots
          /\ w.inserts[j].row.id = <<at, j>> /\ w.inserts[j].row.at = at
    /\ \A j \in DOMAIN w.refreshes :
          LET row == w.refreshes[j].row IN
          /\ w.refreshes[j].kind = "refresh" /\ row \in Snapshots /\ row.at = at
          /\ row.id = targets[row.key].id /\ row.odds = targets[row.key].odds
    /\ \A j \in DOMAIN w.changes :
          w.changes[j].kind = "change" /\ w.changes[j].row \in ChangePoints /\ w.changes[j].row.at = at

LEMMA LongerBy ==
    ASSUME NEW T, NEW s \in Seq(T), NEW x \in T
    PROVE  /\ Append(s, x) \in Seq(T) /\ DOMAIN Append(s, x) = DOMAIN s \union {Len(s) + 1}
           /\ Len(s) + 1 \notin DOMAIN s /\ Len(s) + 1 \in Nat \ {0}
           /\ \A j \in DOMAIN s : Append(s, x)[j] = s[j]
           /\ Append(s, x)[Len(s) + 1] = x
  OBVIOUS

\* One turn, field by field.
LEMMA TurnFields ==
    ASSUME NEW w, NEW p, NEW at, ~FreshEnough(p, w.targets[p.key], at)
    PROVE  LET v == Turn(w, p, at)  t == w.targets[p.key]  same == t.odds = p.odds
           IN  /\ v.targets = IF same THEN w.targets
                              ELSE [w.targets EXCEPT ![p.key] = [id |-> InThisPass, odds |-> p.odds, at |-> at]]
               /\ v.latest = IF w.latest[p.key] # p.odds THEN [w.latest EXCEPT ![p.key] = p.odds] ELSE w.latest
               /\ v.inserts = IF same THEN w.inserts
                              ELSE Append(w.inserts, Insert(p, at, Len(w.inserts) + 1))
               /\ v.refreshes = IF same /\ t.id # InThisPass
                                THEN Append(w.refreshes, Refresh(p, at, t.id)) ELSE w.refreshes
               /\ v.changes = IF w.latest[p.key] # p.odds
                              THEN Append(w.changes, Change(p, at, w.latest[p.key])) ELSE w.changes
               /\ v = [targets |-> v.targets, latest |-> v.latest, inserts |-> v.inserts,
                       refreshes |-> v.refreshes, changes |-> v.changes]
<1> DEFINE t == w.targets[p.key]
           same == t.odds = p.odds
           moved == w.latest[p.key] # p.odds
           ta == IF same THEN w.targets
                 ELSE [w.targets EXCEPT ![p.key] = [id |-> InThisPass, odds |-> p.odds, at |-> at]]
           la == IF moved THEN [w.latest EXCEPT ![p.key] = p.odds] ELSE w.latest
           in == IF same THEN w.inserts ELSE Append(w.inserts, Insert(p, at, Len(w.inserts) + 1))
           re == IF same /\ t.id # InThisPass
                 THEN Append(w.refreshes, Refresh(p, at, t.id)) ELSE w.refreshes
           ch == IF moved THEN Append(w.changes, Change(p, at, w.latest[p.key])) ELSE w.changes
<1>1. Turn(w, p, at) = Worked(w, p, at)
  BY DEF Turn
<1>2. Worked(w, p, at) = [targets |-> ta, latest |-> la, inserts |-> in, refreshes |-> re, changes |-> ch]
  BY DEF Worked, SameLevel, HasMoved, HasId
<1> HIDE DEF ta, la, in, re, ch
<1>3. /\ Turn(w, p, at).targets = ta /\ Turn(w, p, at).latest = la /\ Turn(w, p, at).inserts = in
      /\ Turn(w, p, at).refreshes = re /\ Turn(w, p, at).changes = ch
      /\ Turn(w, p, at) = [targets |-> ta, latest |-> la, inserts |-> in, refreshes |-> re, changes |-> ch]
  BY <1>1, <1>2
<1> QED BY <1>3 DEF ta, la, in, re, ch

\* What one turn may write.
LEMMA WritesTyped ==
    ASSUME NEW p \in Point, NEW at \in 1..MaxNow
    PROVE  /\ \A n \in Nat \ {0} :
                /\ Insert(p, at, n) \in Writing /\ Insert(p, at, n).kind = "insert"
                /\ Insert(p, at, n).row \in Snapshots
                /\ Insert(p, at, n).row = [id |-> <<at, n>>, key |-> p.key, odds |-> p.odds, at |-> at]
           /\ \A id \in Ids :
                /\ Refresh(p, at, id) \in Writing /\ Refresh(p, at, id).kind = "refresh"
                /\ Refresh(p, at, id).row \in Snapshots
                /\ Refresh(p, at, id).row = [id |-> id, key |-> p.key, odds |-> p.odds, at |-> at]
           /\ \A prev \in Odds \union {Unknown} :
                /\ Change(p, at, prev) \in Writing /\ Change(p, at, prev).kind = "change"
                /\ Change(p, at, prev).row \in ChangePoints
                /\ Change(p, at, prev).row = [key |-> p.key, at |-> at, odds |-> p.odds, prev |-> prev]
<1>1. p.key \in Key /\ p.odds \in Odds
  BY DEF Point
<1>2. ASSUME NEW n \in Nat \ {0}
      PROVE  /\ Insert(p, at, n) \in Writing /\ Insert(p, at, n).kind = "insert"
             /\ Insert(p, at, n).row \in Snapshots
             /\ Insert(p, at, n).row = [id |-> <<at, n>>, key |-> p.key, odds |-> p.odds, at |-> at]
  BY <1>1 DEF Insert, Snapshots, Writing
<1>3. ASSUME NEW id \in Ids
      PROVE  /\ Refresh(p, at, id) \in Writing /\ Refresh(p, at, id).kind = "refresh"
             /\ Refresh(p, at, id).row \in Snapshots
             /\ Refresh(p, at, id).row = [id |-> id, key |-> p.key, odds |-> p.odds, at |-> at]
  <2>1. [id |-> id, key |-> p.key, odds |-> p.odds, at |-> at] \in Snapshots
    BY <1>1 DEF Snapshots, Ids
  <2> QED BY <2>1 DEF Refresh, Writing
<1>4. ASSUME NEW prev \in Odds \union {Unknown}
      PROVE  /\ Change(p, at, prev) \in Writing /\ Change(p, at, prev).kind = "change"
             /\ Change(p, at, prev).row \in ChangePoints
             /\ Change(p, at, prev).row = [key |-> p.key, at |-> at, odds |-> p.odds, prev |-> prev]
  BY <1>1 DEF Change, ChangePoints, Writing
<1> QED BY <1>2, <1>3, <1>4

\* The numbers, rows and prices a turn writes with.
LEMMA TurnMay ==
    ASSUME NEW targets \in [Key -> Standings], Found(targets), NEW at,
           NEW w \in Notes, Grown(w, targets, at), NEW p \in Point
    PROVE  /\ Len(w.inserts) + 1 \in Nat \ {0} /\ w.latest[p.key] \in Odds \union {Unknown}
           /\ w.targets[p.key].odds = p.odds /\ w.targets[p.key].id # InThisPass =>
                 /\ w.targets[p.key].id \in Ids /\ w.targets[p.key].id = targets[p.key].id
                 /\ targets[p.key].odds = p.odds
<1>1. /\ w.inserts \in Seq(Writing) /\ w.latest \in [Key -> Odds \union {Unknown}]
      /\ p.key \in Key /\ p.odds \in Odds
  BY DEF Notes, Point
<1>2. w.targets[p.key] = targets[p.key] \/ w.targets[p.key].id = InThisPass
  BY <1>1 DEF Grown
<1> QED BY <1>1, <1>2 DEF Found

LEMMA TurnTyped ==
    ASSUME NEW targets \in [Key -> Standings], Found(targets), NEW at \in 1..MaxNow,
           NEW w \in Notes, Grown(w, targets, at), NEW p \in Point
    PROVE  Turn(w, p, at) \in Notes /\ Grown(Turn(w, p, at), targets, at)
<1> DEFINE v == Turn(w, p, at)
           t == w.targets[p.key]
           same == t.odds = p.odds
<1>1. CASE FreshEnough(p, w.targets[p.key], at)
  BY <1>1 DEF Turn
<1>2. CASE ~FreshEnough(p, w.targets[p.key], at)
  <2> DEFINE in == Insert(p, at, Len(w.inserts) + 1)
             re == Refresh(p, at, t.id)
             ch == Change(p, at, w.latest[p.key])
             new == [id |-> InThisPass, odds |-> p.odds, at |-> at]
  <2>0. /\ w.targets \in [Key -> Standings] /\ w.latest \in [Key -> Odds \union {Unknown}]
        /\ w.inserts \in Seq(Writing) /\ w.refreshes \in Seq(Writing) /\ w.changes \in Seq(Writing)
        /\ p.key \in Key /\ p.odds \in Odds /\ at \in 1..MaxNow /\ at \in 0..MaxNow
    BY PriceStoreAssumption DEF Notes, Point
  <2>1. /\ v.targets = IF same THEN w.targets ELSE [w.targets EXCEPT ![p.key] = new]
        /\ v.latest = IF w.latest[p.key] # p.odds THEN [w.latest EXCEPT ![p.key] = p.odds] ELSE w.latest
        /\ v.inserts = IF same THEN w.inserts ELSE Append(w.inserts, in)
        /\ v.refreshes = IF same /\ t.id # InThisPass THEN Append(w.refreshes, re) ELSE w.refreshes
        /\ v.changes = IF w.latest[p.key] # p.odds THEN Append(w.changes, ch) ELSE w.changes
        /\ v = [targets |-> v.targets, latest |-> v.latest, inserts |-> v.inserts,
                refreshes |-> v.refreshes, changes |-> v.changes]
    BY <1>2, TurnFields
  <2>2. /\ in.kind = "insert" /\ in.row \in Snapshots /\ in \in Writing
        /\ in.row.id = <<at, Len(w.inserts) + 1>> /\ in.row.at = at
        /\ same /\ t.id # InThisPass =>
             /\ re.kind = "refresh" /\ re.row \in Snapshots /\ re.row.at = at /\ re \in Writing
             /\ re.row.id = targets[re.row.key].id /\ re.row.odds = targets[re.row.key].odds
        /\ ch.kind = "change" /\ ch.row \in ChangePoints /\ ch.row.at = at /\ ch \in Writing
    <3>1. /\ in \in Writing /\ in.kind = "insert" /\ in.row \in Snapshots
          /\ in.row = [id |-> <<at, Len(w.inserts) + 1>>, key |-> p.key, odds |-> p.odds, at |-> at]
      BY TurnMay, WritesTyped
    <3>2. ASSUME same, t.id # InThisPass
          PROVE  /\ re \in Writing /\ re.kind = "refresh" /\ re.row \in Snapshots
                 /\ re.row = [id |-> t.id, key |-> p.key, odds |-> p.odds, at |-> at]
                 /\ t.id = targets[p.key].id /\ targets[p.key].odds = p.odds
      BY <3>2, TurnMay, WritesTyped
    <3>3. /\ ch \in Writing /\ ch.kind = "change" /\ ch.row \in ChangePoints
          /\ ch.row = [key |-> p.key, at |-> at, odds |-> p.odds, prev |-> w.latest[p.key]]
      BY TurnMay, WritesTyped
    <3> HIDE DEF in, re, ch, t
    <3> QED BY <3>1, <3>2, <3>3
  <2>6. new \in Standings /\ new.id = InThisPass /\ new.odds \in Odds
    BY <2>0 DEF Standings
  <2> HIDE DEF in, re, ch, new, v
  <2>7. v.targets \in [Key -> Standings] /\ v.latest \in [Key -> Odds \union {Unknown}]
    BY <2>0, <2>1, <2>6
  <2>8. v.inserts \in Seq(Writing) /\ \A j \in DOMAIN v.inserts :
          /\ v.inserts[j].kind = "insert" /\ v.inserts[j].row \in Snapshots
          /\ v.inserts[j].row.id = <<at, j>> /\ v.inserts[j].row.at = at
    <3>1. CASE same
      BY <2>0, <2>1, <3>1 DEF Grown
    <3>2. CASE ~same
      <4>1. v.inserts = Append(w.inserts, in)
        BY <2>1, <3>2
      <4>2. /\ v.inserts \in Seq(Writing) /\ DOMAIN v.inserts = DOMAIN w.inserts \union {Len(w.inserts) + 1}
            /\ v.inserts[Len(w.inserts) + 1] = in /\ \A j \in DOMAIN w.inserts : v.inserts[j] = w.inserts[j]
        BY <4>1, <2>0, <2>2, LongerBy
      <4> QED BY <4>2, <2>2 DEF Grown
    <3> QED BY <3>1, <3>2
  <2>9. v.refreshes \in Seq(Writing) /\ \A j \in DOMAIN v.refreshes :
          LET row == v.refreshes[j].row IN
          /\ v.refreshes[j].kind = "refresh" /\ row \in Snapshots /\ row.at = at
          /\ row.id = targets[row.key].id /\ row.odds = targets[row.key].odds
    <3>1. CASE ~(same /\ t.id # InThisPass)
      <4>1. v.refreshes = w.refreshes
        BY <2>1, <3>1
      <4> QED BY <2>0, <4>1 DEF Grown
    <3>2. CASE same /\ t.id # InThisPass
      <4>1. v.refreshes = Append(w.refreshes, re)
        BY <2>1, <3>2
      <4>2. /\ v.refreshes \in Seq(Writing)
            /\ DOMAIN v.refreshes = DOMAIN w.refreshes \union {Len(w.refreshes) + 1}
            /\ v.refreshes[Len(w.refreshes) + 1] = re
            /\ \A j \in DOMAIN w.refreshes : v.refreshes[j] = w.refreshes[j]
        BY <4>1, <2>0, <2>2, <3>2, LongerBy
      <4> QED BY <4>2, <2>2, <3>2 DEF Grown
    <3> QED BY <3>1, <3>2
  <2>10. v.changes \in Seq(Writing) /\ \A j \in DOMAIN v.changes :
          v.changes[j].kind = "change" /\ v.changes[j].row \in ChangePoints /\ v.changes[j].row.at = at
    <3>1. CASE w.latest[p.key] = p.odds
      BY <2>0, <2>1, <3>1 DEF Grown
    <3>2. CASE w.latest[p.key] # p.odds
      <4>1. v.changes = Append(w.changes, ch)
        BY <2>1, <3>2
      <4>2. /\ v.changes \in Seq(Writing) /\ DOMAIN v.changes = DOMAIN w.changes \union {Len(w.changes) + 1}
            /\ v.changes[Len(w.changes) + 1] = ch /\ \A j \in DOMAIN w.changes : v.changes[j] = w.changes[j]
        BY <4>1, <2>0, <2>2, <3>2, LongerBy
      <4> QED BY <4>2, <2>2, <3>2 DEF Grown
    <3> QED BY <3>1, <3>2
  <2>11. ASSUME NEW k \in Key
         PROVE  v.targets[k] = targets[k] \/ (v.targets[k].id = InThisPass /\ v.targets[k].odds \in Odds)
    <3>1. CASE same
      BY <2>1, <3>1 DEF Grown
    <3>2. CASE ~same
      <4>1. v.targets = [w.targets EXCEPT ![p.key] = new]
        BY <2>1, <3>2
      <4>2. \A l \in Key : v.targets[l] = IF l = p.key THEN new ELSE w.targets[l]
        BY <2>0, <4>1
      <4> QED BY <2>6, <4>2 DEF Grown
    <3> QED BY <3>1, <3>2
  <2>12. v \in Notes
    BY <2>1, <2>7, <2>8, <2>9, <2>10 DEF Notes
  <2> QED BY <2>8, <2>9, <2>10, <2>11, <2>12 DEF Grown, v
<1> QED BY <1>1, <1>2

\* What the loop has noted for one key: nothing yet, or what the one price its points quote asks for.
Of(s, k) == {j \in DOMAIN s : s[j].row.key = k}
Untouched(w, k, targets, latest) ==
    /\ w.targets[k] = targets[k] /\ w.latest[k] = latest[k]
    /\ Of(w.inserts, k) = {} /\ Of(w.refreshes, k) = {} /\ Of(w.changes, k) = {}
Planned(w, k, o, targets, latest) ==
    /\ w.latest[k] = o /\ w.targets[k].odds = o
    /\ IF targets[k].odds = o
       THEN w.targets[k] = targets[k] /\ Of(w.inserts, k) = {} /\ Of(w.refreshes, k) # {}
       ELSE /\ w.targets[k].id = InThisPass /\ Of(w.refreshes, k) = {}
            /\ \E j : Of(w.inserts, k) = {j} /\ w.inserts[j].row.odds = o
    /\ IF latest[k] = o THEN Of(w.changes, k) = {}
       ELSE \E j : /\ Of(w.changes, k) = {j}
                   /\ w.changes[j].row.odds = o /\ w.changes[j].row.prev = latest[k]

LEMMA OfLonger ==
    ASSUME NEW s \in Seq(Writing), NEW x \in Writing, NEW k \in Key
    PROVE  /\ x.row.key # k => Of(Append(s, x), k) = Of(s, k)
           /\ x.row.key = k => Of(Append(s, x), k) = Of(s, k) \union {Len(s) + 1}
           /\ \A j \in Of(s, k) : Append(s, x)[j] = s[j]
           /\ Append(s, x)[Len(s) + 1] = x
  BY LongerBy DEF Of

LEMMA TurnPlans ==
    ASSUME NEW targets \in [Key -> Standings], Found(targets), NEW latest, NEW at \in 1..MaxNow,
           NEW w \in Notes, Grown(w, targets, at), NEW p \in Point, NEW k \in Key, NEW o \in Odds, p.key = k => p.odds = o
    PROVE  LET v == Turn(w, p, at) IN
           /\ Planned(w, k, o, targets, latest) => Planned(v, k, o, targets, latest)
           /\ p.key # k /\ Untouched(w, k, targets, latest) => Untouched(v, k, targets, latest)
           /\ p.key = k /\ Untouched(w, k, targets, latest) =>
                \/ Planned(v, k, o, targets, latest)
                \/ /\ Untouched(v, k, targets, latest)
                   /\ targets[k].odds = o /\ at - targets[k].at < RefreshEvery
<1> DEFINE v == Turn(w, p, at)
           t == w.targets[p.key]
           same == t.odds = p.odds
           moved == w.latest[p.key] # p.odds
<1>1. CASE FreshEnough(p, w.targets[p.key], at)
  BY <1>1 DEF Turn, FreshEnough, Untouched
<1>2. CASE ~FreshEnough(p, w.targets[p.key], at)
  <2> DEFINE in == Insert(p, at, Len(w.inserts) + 1)
             re == Refresh(p, at, t.id)
             ch == Change(p, at, w.latest[p.key])
             new == [id |-> InThisPass, odds |-> p.odds, at |-> at]
             again == same /\ t.id # InThisPass
  <2>0. /\ w.targets \in [Key -> Standings] /\ w.latest \in [Key -> Odds \union {Unknown}]
        /\ w.inserts \in Seq(Writing) /\ w.refreshes \in Seq(Writing) /\ w.changes \in Seq(Writing)
        /\ p.key \in Key /\ p.odds \in Odds
    BY DEF Notes, Point
  <2>1. /\ v.targets = IF same THEN w.targets ELSE [w.targets EXCEPT ![p.key] = new]
        /\ v.latest = IF moved THEN [w.latest EXCEPT ![p.key] = p.odds] ELSE w.latest
        /\ v.inserts = IF same THEN w.inserts ELSE Append(w.inserts, in)
        /\ v.refreshes = IF again THEN Append(w.refreshes, re) ELSE w.refreshes
        /\ v.changes = IF moved THEN Append(w.changes, ch) ELSE w.changes
    BY <1>2, TurnFields
  <2>2. /\ in.row.key = p.key /\ in.row.odds = p.odds /\ in \in Writing
        /\ re.row.key = p.key /\ (again => re \in Writing)
        /\ ch.row.key = p.key /\ ch.row.odds = p.odds /\ ch.row.prev = w.latest[p.key] /\ ch \in Writing
    <3>1. /\ in \in Writing
          /\ in.row = [id |-> <<at, Len(w.inserts) + 1>>, key |-> p.key, odds |-> p.odds, at |-> at]
      BY TurnMay, WritesTyped
    <3>2. again => re \in Writing
      BY TurnMay, WritesTyped
    <3>3. ch \in Writing /\ ch.row = [key |-> p.key, at |-> at, odds |-> p.odds, prev |-> w.latest[p.key]]
      BY TurnMay, WritesTyped
    <3>4. re.row.key = p.key
      BY DEF Refresh
    <3> HIDE DEF in, re, ch, again
    <3> QED BY <3>1, <3>2, <3>3, <3>4
  <2>4. new.id = InThisPass /\ new.odds = p.odds
    OBVIOUS
  <2> HIDE DEF in, re, ch, new, v, again
  <2>5. \A x \in Key : /\ v.targets[x] = IF x = p.key /\ ~same THEN new ELSE w.targets[x]
                       /\ v.latest[x] = IF x = p.key THEN p.odds ELSE w.latest[x]
    BY <2>0, <2>1
  <2>6. /\ (same \/ p.key # k) => Of(v.inserts, k) = Of(w.inserts, k)
        /\ ~same /\ p.key = k => /\ Of(v.inserts, k) = Of(w.inserts, k) \union {Len(w.inserts) + 1}
                                 /\ v.inserts[Len(w.inserts) + 1] = in
        /\ \A j \in Of(w.inserts, k) : v.inserts[j] = w.inserts[j]
    <3>1. CASE same
      BY <2>1, <3>1
    <3>2. CASE ~same
      <4>1. v.inserts = Append(w.inserts, in)
        BY <2>1, <3>2
      <4>2. LET a == Append(w.inserts, in) IN
            /\ in.row.key # k => Of(a, k) = Of(w.inserts, k)
            /\ in.row.key = k => Of(a, k) = Of(w.inserts, k) \union {Len(w.inserts) + 1}
            /\ \A j \in Of(w.inserts, k) : a[j] = w.inserts[j]
            /\ a[Len(w.inserts) + 1] = in
        BY <2>0, <2>2, <3>2, OfLonger, Zenon
      <4>3. /\ in.row.key # k => Of(v.inserts, k) = Of(w.inserts, k)
            /\ in.row.key = k => Of(v.inserts, k) = Of(w.inserts, k) \union {Len(w.inserts) + 1}
            /\ \A j \in Of(w.inserts, k) : v.inserts[j] = w.inserts[j]
            /\ v.inserts[Len(w.inserts) + 1] = in
        BY <4>1, <4>2
      <4> QED BY <4>3, <2>2, <3>2
    <3> QED BY <3>1, <3>2
  <2>7. /\ ~(again /\ p.key = k) => Of(v.refreshes, k) = Of(w.refreshes, k)
        /\ again /\ p.key = k => Of(v.refreshes, k) # {}
    <3>1. CASE ~again
      BY <2>1, <3>1
    <3>2. CASE again
      <4>1. v.refreshes = Append(w.refreshes, re)
        BY <2>1, <3>2
      <4>3. /\ re.row.key # k => Of(v.refreshes, k) = Of(w.refreshes, k)
            /\ re.row.key = k => Of(v.refreshes, k) = Of(w.refreshes, k) \union {Len(w.refreshes) + 1}
        BY <2>0, <2>2, <3>2, <4>1, OfLonger
      <4> QED BY <4>3, <2>2, <3>2
    <3> QED BY <3>1, <3>2
  <2>8. /\ ~(moved /\ p.key = k) => Of(v.changes, k) = Of(w.changes, k)
        /\ moved /\ p.key = k => /\ Of(v.changes, k) = Of(w.changes, k) \union {Len(w.changes) + 1}
                                 /\ v.changes[Len(w.changes) + 1] = ch
        /\ \A j \in Of(w.changes, k) : v.changes[j] = w.changes[j]
    <3>1. CASE ~moved
      BY <2>1, <3>1
    <3>2. CASE moved
      <4>1. v.changes = Append(w.changes, ch)
        BY <2>1, <3>2
      <4>2. LET a == Append(w.changes, ch) IN
            /\ ch.row.key # k => Of(a, k) = Of(w.changes, k)
            /\ ch.row.key = k => Of(a, k) = Of(w.changes, k) \union {Len(w.changes) + 1}
            /\ \A j \in Of(w.changes, k) : a[j] = w.changes[j]
            /\ a[Len(w.changes) + 1] = ch
        BY <2>0, <2>2, <3>2, OfLonger, Zenon
      <4>3. /\ ch.row.key # k => Of(v.changes, k) = Of(w.changes, k)
            /\ ch.row.key = k => Of(v.changes, k) = Of(w.changes, k) \union {Len(w.changes) + 1}
            /\ \A j \in Of(w.changes, k) : v.changes[j] = w.changes[j]
            /\ v.changes[Len(w.changes) + 1] = ch
        BY <4>1, <4>2
      <4> QED BY <4>3, <2>2, <3>2
    <3> QED BY <3>1, <3>2
  <2>9. CASE p.key # k
    <3>1. Planned(w, k, o, targets, latest) => Planned(v, k, o, targets, latest)
      <4>1. /\ v.targets[k] = w.targets[k] /\ v.latest[k] = w.latest[k]
            /\ Of(v.inserts, k) = Of(w.inserts, k) /\ Of(v.refreshes, k) = Of(w.refreshes, k)
            /\ Of(v.changes, k) = Of(w.changes, k)
        BY <2>5, <2>6, <2>7, <2>8, <2>9
      <4> QED BY <4>1, <2>6, <2>8 DEF Planned
    <3>2. Untouched(w, k, targets, latest) => Untouched(v, k, targets, latest)
      BY <2>5, <2>6, <2>7, <2>8, <2>9 DEF Untouched
    <3> QED BY <3>1, <3>2, <2>9 DEF v
  <2>10. CASE p.key = k /\ Planned(w, k, o, targets, latest)
    <3>1. same /\ ~moved /\ p.odds = o
      BY <2>10 DEF Planned
    <3>2. /\ v.targets[k] = w.targets[k] /\ v.latest[k] = w.latest[k] /\ w.targets[k] = t
          /\ Of(v.inserts, k) = Of(w.inserts, k) /\ Of(v.changes, k) = Of(w.changes, k)
      BY <2>5, <2>6, <2>8, <2>10, <3>1
    <3>3. targets[k].odds # o => ~again
      BY <2>10, <3>2 DEF Planned, again
    <3>4. Planned(v, k, o, targets, latest)
      BY <2>6, <2>7, <2>8, <2>10, <3>1, <3>2, <3>3 DEF Planned
    <3> QED BY <2>10, <3>1, <3>4, <2>7 DEF v, Planned, Untouched
  <2>11. CASE p.key = k /\ Untouched(w, k, targets, latest)
    <3>1. /\ p.odds = o /\ w.targets[k] = targets[k] /\ w.latest[k] = latest[k]
          /\ targets[k].id # InThisPass
      BY <2>11 DEF Untouched, Found
    <3>2. /\ v.latest[k] = o /\ v.targets[k].odds = o
          /\ same <=> targets[k].odds = o
          /\ moved <=> latest[k] # o
          /\ again <=> targets[k].odds = o
      BY <2>4, <2>5, <2>11, <3>1 DEF again
    <3>3. IF targets[k].odds = o
          THEN v.targets[k] = targets[k] /\ Of(v.inserts, k) = {} /\ Of(v.refreshes, k) # {}
          ELSE /\ v.targets[k].id = InThisPass /\ Of(v.refreshes, k) = {}
               /\ \E j : Of(v.inserts, k) = {j} /\ v.inserts[j].row.odds = o
      BY <2>2, <2>4, <2>5, <2>6, <2>7, <2>11, <3>1, <3>2 DEF Untouched
    <3>4. IF latest[k] = o THEN Of(v.changes, k) = {}
          ELSE \E j : /\ Of(v.changes, k) = {j}
                      /\ v.changes[j].row.odds = o /\ v.changes[j].row.prev = latest[k]
      BY <2>2, <2>8, <2>11, <3>1, <3>2 DEF Untouched
    <3>5. Planned(v, k, o, targets, latest)
      BY <3>2, <3>3, <3>4 DEF Planned
    <3>6. ~Planned(w, k, o, targets, latest) \/ Planned(v, k, o, targets, latest)
      BY <3>5
    <3> QED BY <2>11, <3>5 DEF v
  <2> QED BY <2>9, <2>10, <2>11 DEF v
<1> QED BY <1>1, <1>2

\* The loop keeps its notes in order, and notes for each key what its price asks for.
LEMMA LoopTyped ==
    ASSUME NEW points \in Seq(Point), NEW targets \in [Key -> Standings], Found(targets),
           NEW latest \in [Key -> Odds \union {Unknown}], NEW at \in 1..MaxNow
    PROVE  \A n \in 0..Len(points) : LET w == Decided(points, latest, targets, at)[n]
                                     IN  w \in Notes /\ Grown(w, targets, at)
<1> DEFINE D == Decided(points, latest, targets, at)
           Good(n) == D[n] \in Notes /\ Grown(D[n], targets, at)
           Bad == {n \in 0..Len(points) : ~Good(n)}
<1>1. D[0] = Undecided(latest, targets) /\ \A n \in 1..Len(points) : D[n] = Turn(D[n - 1], points[n], at)
  BY LoopDefined
<1>2. Len(points) \in Nat /\ \A n \in 1..Len(points) : points[n] \in Point
  OBVIOUS
<1> HIDE DEF D
<1>3. Good(0)
  <2>1. /\ D[0].targets = targets /\ D[0].latest = latest /\ D[0].inserts = <<>>
        /\ D[0].refreshes = <<>> /\ D[0].changes = <<>>
        /\ D[0] = [targets |-> targets, latest |-> latest, inserts |-> <<>>, refreshes |-> <<>>, changes |-> <<>>]
    BY <1>1 DEF Undecided
  <2>2. <<>> \in Seq(Writing) /\ DOMAIN <<>> = {}
    OBVIOUS
  <2> QED BY <2>1, <2>2 DEF Notes, Grown
<1>4. ASSUME NEW n \in 1..Len(points), Good(n - 1) PROVE Good(n)
  <2>1. D[n] = Turn(D[n - 1], points[n], at) /\ points[n] \in Point
    BY <1>1, <1>2
  <2> QED BY <1>4, <2>1, TurnTyped
<1>5. Bad = {}
  <2> SUFFICES ASSUME Bad # {} PROVE FALSE
    OBVIOUS
  <2>1. Bad \subseteq Nat
    BY <1>2
  <2>2. PICK n \in Bad : \A m \in Bad : n <= m
    <3> HIDE DEF Bad
    <3> QED BY <2>1, LeastOfSome
  <2> HIDE DEF Good
  <2>3. n \in 1..Len(points) /\ n - 1 \in 0..Len(points) /\ n - 1 \notin Bad
    BY <1>2, <1>3, <2>2
  <2> QED BY <1>4, <2>2, <2>3
<1> QED BY <1>5 DEF D

LEMMA LoopPlans ==
    ASSUME NEW points \in Seq(Point), NEW targets \in [Key -> Standings], Found(targets),
           NEW latest \in [Key -> Odds \union {Unknown}], NEW at \in 1..MaxNow,
           NEW k \in Key, NEW o \in Odds, \A i \in DOMAIN points : points[i].key = k => points[i].odds = o
    PROVE  LET w == Decided(points, latest, targets, at)[Len(points)]
               quoted == \E i \in DOMAIN points : points[i].key = k
           IN  \/ quoted /\ Planned(w, k, o, targets, latest)
               \/ /\ Untouched(w, k, targets, latest)
                  /\ quoted => targets[k].odds = o /\ at - targets[k].at < RefreshEvery
<1> DEFINE D == Decided(points, latest, targets, at)
           Quoted(n) == \E i \in 1..n : points[i].key = k
           Good(n) == \/ Quoted(n) /\ Planned(D[n], k, o, targets, latest)
                      \/ /\ Untouched(D[n], k, targets, latest)
                         /\ Quoted(n) => targets[k].odds = o /\ at - targets[k].at < RefreshEvery
           Bad == {n \in 0..Len(points) : ~Good(n)}
<1>1. D[0] = Undecided(latest, targets) /\ \A n \in 1..Len(points) : D[n] = Turn(D[n - 1], points[n], at)
  BY LoopDefined
<1>2. /\ Len(points) \in Nat /\ DOMAIN points = 1..Len(points)
      /\ \A n \in 1..Len(points) : points[n] \in Point
  OBVIOUS
<1>3. \A n \in 0..Len(points) : D[n] \in Notes /\ Grown(D[n], targets, at)
  BY LoopTyped
<1> HIDE DEF D
<1>4. Good(0)
  <2>1. /\ D[0].targets = targets /\ D[0].latest = latest /\ D[0].inserts = <<>>
        /\ D[0].refreshes = <<>> /\ D[0].changes = <<>>
    BY <1>1 DEF Undecided
  <2>2. Of(<<>>, k) = {}
    BY DEF Of
  <2>3. ~Quoted(0)
    OBVIOUS
  <2> QED BY <2>1, <2>2, <2>3 DEF Untouched
<1>5. ASSUME NEW n \in 1..Len(points), Good(n - 1) PROVE Good(n)
  <2> DEFINE p == points[n]
             w == D[n - 1]
  <2>1. D[n] = Turn(w, p, at) /\ p \in Point /\ w \in Notes /\ Grown(w, targets, at)
    BY <1>1, <1>2, <1>3
  <2>2. p.key = k => p.odds = o
    BY <1>2
  <2>3. Quoted(n) <=> Quoted(n - 1) \/ p.key = k
    <3>1. \A i \in 1..n : i \in 1..(n - 1) \/ i = n
      OBVIOUS
    <3>2. \A i \in 1..(n - 1) : i \in 1..n
      OBVIOUS
    <3>3. n \in 1..n
      OBVIOUS
    <3> QED BY <3>1, <3>2, <3>3
  <2>4. /\ Planned(w, k, o, targets, latest) => Planned(D[n], k, o, targets, latest)
        /\ p.key # k /\ Untouched(w, k, targets, latest) => Untouched(D[n], k, targets, latest)
        /\ p.key = k /\ Untouched(w, k, targets, latest) =>
             \/ Planned(D[n], k, o, targets, latest)
             \/ /\ Untouched(D[n], k, targets, latest)
                /\ targets[k].odds = o /\ at - targets[k].at < RefreshEvery
    <3> HIDE DEF p, w
    <3> QED BY <2>1, <2>2, TurnPlans
  <2> HIDE DEF p, Quoted
  <2> QED BY <1>5, <2>3, <2>4
<1>6. Bad = {}
  <2> SUFFICES ASSUME Bad # {} PROVE FALSE
    OBVIOUS
  <2>1. Bad \subseteq Nat
    BY <1>2
  <2>2. PICK n \in Bad : \A m \in Bad : n <= m
    <3> HIDE DEF Bad
    <3> QED BY <2>1, LeastOfSome
  <2> HIDE DEF Good
  <2>3. n \in 1..Len(points) /\ n - 1 \in 0..Len(points) /\ n - 1 \notin Bad
    BY <1>2, <1>4, <2>2
  <2> QED BY <1>5, <2>2, <2>3
<1>7. Good(Len(points))
  <2> HIDE DEF Good
  <2> QED BY <1>2, <1>6
<1> QED BY <1>2, <1>7 DEF D

LEMMA ThreeParts ==
    ASSUME NEW a \in Seq(Writing), NEW b \in Seq(Writing), NEW c \in Seq(Writing)
    PROVE  /\ a \o b \o c \in Seq(Writing)
           /\ \A i \in DOMAIN (a \o b \o c) :
                \/ i \in DOMAIN a /\ (a \o b \o c)[i] = a[i]
                \/ i - Len(a) \in DOMAIN b /\ (a \o b \o c)[i] = b[i - Len(a)]
                \/ i - Len(a) - Len(b) \in DOMAIN c /\ (a \o b \o c)[i] = c[i - Len(a) - Len(b)]
           /\ \A i \in DOMAIN a : i \in DOMAIN (a \o b \o c) /\ (a \o b \o c)[i] = a[i]
           /\ \A i \in DOMAIN b : i + Len(a) \in DOMAIN (a \o b \o c) /\ (a \o b \o c)[i + Len(a)] = b[i]
           /\ \A i \in DOMAIN c : /\ i + Len(a) + Len(b) \in DOMAIN (a \o b \o c)
                                  /\ (a \o b \o c)[i + Len(a) + Len(b)] = c[i]
<1> DEFINE ab == a \o b
           s == ab \o c
           na == Len(a)  nb == Len(b)  nc == Len(c)
<1>0. ASSUME NEW x \in Seq(Writing), NEW y \in Seq(Writing)
      PROVE  /\ x \o y \in Seq(Writing) /\ Len(x \o y) = Len(x) + Len(y)
             /\ \A i \in 1..(Len(x) + Len(y)) : (x \o y)[i] = IF i <= Len(x) THEN x[i] ELSE y[i - Len(x)]
             /\ Len(x) \in Nat /\ Len(y) \in Nat /\ DOMAIN x = 1..Len(x) /\ DOMAIN y = 1..Len(y)
             /\ DOMAIN (x \o y) = 1..(Len(x) + Len(y))
  OBVIOUS
<1>1. /\ ab \in Seq(Writing) /\ Len(ab) = na + nb /\ na \in Nat /\ nb \in Nat
      /\ DOMAIN a = 1..na /\ DOMAIN b = 1..nb
      /\ \A i \in 1..(na + nb) : ab[i] = IF i <= na THEN a[i] ELSE b[i - na]
  BY <1>0, Zenon
<1>2. /\ s \in Seq(Writing) /\ DOMAIN s = 1..(Len(ab) + nc) /\ nc \in Nat /\ DOMAIN c = 1..nc
      /\ \A i \in 1..(Len(ab) + nc) : s[i] = IF i <= Len(ab) THEN ab[i] ELSE c[i - Len(ab)]
  <2> HIDE DEF ab
  <2> QED BY <1>0, <1>1, Zenon
<1> HIDE DEF ab, s, na, nb, nc
<1>3. DOMAIN s = 1..(na + nb + nc)
  BY <1>1, <1>2
<1>4. ASSUME NEW i \in DOMAIN s
      PROVE  \/ i \in DOMAIN a /\ s[i] = a[i]
             \/ i - na \in DOMAIN b /\ s[i] = b[i - na]
             \/ i - na - nb \in DOMAIN c /\ s[i] = c[i - na - nb]
  <2>1. CASE i <= na
    BY <1>1, <1>2, <1>3, <2>1
  <2>2. CASE ~(i <= na) /\ i <= na + nb
    BY <1>1, <1>2, <1>3, <2>2
  <2>3. CASE ~(i <= na + nb)
    <3>1. i - na - nb = i - Len(ab) /\ i - na - nb \in 1..nc /\ ~(i <= Len(ab)) /\ i \in 1..(Len(ab) + nc)
      BY <1>1, <1>2, <1>3, <2>3
    <3> QED BY <1>2, <3>1
  <2> QED BY <1>1, <1>3, <2>1, <2>2, <2>3
<1>5. \A i \in DOMAIN a : i \in DOMAIN s /\ s[i] = a[i]
  BY <1>1, <1>2, <1>3
<1>6. ASSUME NEW i \in DOMAIN b PROVE i + na \in DOMAIN s /\ s[i + na] = b[i]
  <2>1. i + na \in 1..(na + nb) /\ ~(i + na <= na) /\ (i + na) - na = i /\ i + na \in 1..(na + nb + nc)
    BY <1>1, <1>2
  <2> QED BY <1>1, <1>2, <1>3, <2>1
<1>7. ASSUME NEW i \in DOMAIN c PROVE i + na + nb \in DOMAIN s /\ s[i + na + nb] = c[i]
  <2>1. /\ i + na + nb \in 1..(Len(ab) + nc) /\ ~(i + na + nb <= Len(ab))
        /\ (i + na + nb) - Len(ab) = i /\ i + na + nb \in 1..(na + nb + nc)
    BY <1>1, <1>2
  <2> QED BY <1>2, <1>3, <2>1
<1> QED BY <1>2, <1>4, <1>5, <1>6, <1>7 DEF s, ab, na, nb, nc

\* The writes of a pass: all inserts, then all refreshes, then all changes.
At(todo, kind, k) == {i \in DOMAIN todo : todo[i].kind = kind /\ todo[i].row.key = k}
InOrder(todo, w) ==
    /\ \A i \in DOMAIN todo :
         \/ todo[i].kind = "insert" /\ i \in DOMAIN w.inserts /\ todo[i] = w.inserts[i]
         \/ todo[i].kind = "refresh" /\ \E j \in DOMAIN w.refreshes : todo[i] = w.refreshes[j]
         \/ /\ todo[i].kind = "change" /\ i - Len(w.inserts) - Len(w.refreshes) \in DOMAIN w.changes
            /\ todo[i] = w.changes[i - Len(w.inserts) - Len(w.refreshes)]
    /\ \A i \in DOMAIN w.inserts : i \in DOMAIN todo /\ todo[i] = w.inserts[i]
    /\ \A j \in DOMAIN w.refreshes : \E i \in DOMAIN todo : todo[i] = w.refreshes[j]
    /\ \A j \in DOMAIN w.changes :
         /\ j + Len(w.inserts) + Len(w.refreshes) \in DOMAIN todo
         /\ todo[j + Len(w.inserts) + Len(w.refreshes)] = w.changes[j]
LEMMA WritesInOrder ==
    ASSUME NEW w \in Notes, NEW targets, NEW at, Grown(w, targets, at)
    PROVE  /\ w.inserts \o w.refreshes \o w.changes \in Seq(Writing)
           /\ InOrder(w.inserts \o w.refreshes \o w.changes, w)
<1> DEFINE a == w.inserts  b == w.refreshes  c == w.changes
           s == a \o b \o c
<1>1. a \in Seq(Writing) /\ b \in Seq(Writing) /\ c \in Seq(Writing)
  BY DEF Notes
<1>2. /\ \A i \in DOMAIN a : a[i].kind = "insert"
      /\ \A i \in DOMAIN b : b[i].kind = "refresh"
      /\ \A i \in DOMAIN c : c[i].kind = "change"
  BY DEF Grown
<1> HIDE DEF a, b, c
<1>3. /\ s \in Seq(Writing)
      /\ \A i \in DOMAIN s : \/ i \in DOMAIN a /\ s[i] = a[i]
                             \/ i - Len(a) \in DOMAIN b /\ s[i] = b[i - Len(a)]
                             \/ i - Len(a) - Len(b) \in DOMAIN c /\ s[i] = c[i - Len(a) - Len(b)]
      /\ \A i \in DOMAIN a : i \in DOMAIN s /\ s[i] = a[i]
      /\ \A i \in DOMAIN b : i + Len(a) \in DOMAIN s /\ s[i + Len(a)] = b[i]
      /\ \A i \in DOMAIN c : i + Len(a) + Len(b) \in DOMAIN s /\ s[i + Len(a) + Len(b)] = c[i]
  BY <1>1, ThreeParts, Zenon
<1> HIDE DEF s
<1>4. \A i \in DOMAIN s :
         \/ s[i].kind = "insert" /\ i \in DOMAIN a /\ s[i] = a[i]
         \/ s[i].kind = "refresh" /\ \E j \in DOMAIN b : s[i] = b[j]
         \/ s[i].kind = "change" /\ i - Len(a) - Len(b) \in DOMAIN c /\ s[i] = c[i - Len(a) - Len(b)]
  BY <1>2, <1>3
<1>5. InOrder(s, w)
  BY <1>3, <1>4 DEF InOrder, a, b, c
<1> QED BY <1>3, <1>5 DEF s, a, b, c

\* Of each kind and key there are as many writes as the loop noted.
LEMMA WritesOfKey ==
    ASSUME NEW w \in Notes, NEW targets, NEW at, Grown(w, targets, at),
           NEW todo \in Seq(Writing), InOrder(todo, w), NEW k \in Key
    PROVE  /\ At(todo, "insert", k) = Of(w.inserts, k)
           /\ \A i \in At(todo, "insert", k) : todo[i] = w.inserts[i]
           /\ At(todo, "refresh", k) = {} <=> Of(w.refreshes, k) = {}
           /\ At(todo, "change", k) = {} <=> Of(w.changes, k) = {}
           /\ \A j : Of(w.changes, k) = {j} =>
                \E i : At(todo, "change", k) = {i} /\ todo[i] = w.changes[j]
<1> DEFINE a == w.inserts  b == w.refreshes  c == w.changes
<1>1. a \in Seq(Writing) /\ b \in Seq(Writing) /\ c \in Seq(Writing)
  BY DEF Notes
<1>2. /\ \A i \in DOMAIN a : a[i].kind = "insert"
      /\ \A i \in DOMAIN b : b[i].kind = "refresh"
      /\ \A i \in DOMAIN c : c[i].kind = "change"
  BY DEF Grown
<1>3. /\ \A i \in DOMAIN todo :
         \/ todo[i].kind = "insert" /\ i \in DOMAIN a /\ todo[i] = a[i]
         \/ todo[i].kind = "refresh" /\ \E j \in DOMAIN b : todo[i] = b[j]
         \/ /\ todo[i].kind = "change" /\ i - Len(a) - Len(b) \in DOMAIN c
            /\ todo[i] = c[i - Len(a) - Len(b)]
      /\ \A i \in DOMAIN a : i \in DOMAIN todo /\ todo[i] = a[i]
      /\ \A j \in DOMAIN b : \E i \in DOMAIN todo : todo[i] = b[j]
      /\ \A j \in DOMAIN c : j + Len(a) + Len(b) \in DOMAIN todo /\ todo[j + Len(a) + Len(b)] = c[j]
  BY DEF InOrder
<1> HIDE DEF a, b, c
<1>4. At(todo, "insert", k) = Of(a, k) /\ \A i \in At(todo, "insert", k) : todo[i] = a[i]
  BY <1>2, <1>3 DEF At, Of
<1>5. At(todo, "refresh", k) = {} <=> Of(b, k) = {}
  BY <1>2, <1>3 DEF At, Of
<1>6. At(todo, "change", k) = {} <=> Of(c, k) = {}
  BY <1>2, <1>3 DEF At, Of
<1>7. ASSUME NEW j, Of(c, k) = {j}
      PROVE  \E i : At(todo, "change", k) = {i} /\ todo[i] = c[j]
  <2> DEFINE i == j + Len(a) + Len(b)
  <2>1. j \in DOMAIN c /\ c[j].row.key = k /\ Len(a) \in Nat /\ Len(b) \in Nat /\ j \in Nat
    <3>1. j \in Of(c, k)
      BY <1>7
    <3> QED BY <1>1, <3>1 DEF Of
  <2>2. i \in DOMAIN todo /\ todo[i] = c[j]
    BY <1>3, <2>1
  <2>4. i \in At(todo, "change", k)
    <3> HIDE DEF i
    <3> QED BY <1>2, <2>1, <2>2 DEF At
  <2>3. ASSUME NEW x \in At(todo, "change", k) PROVE x = i
    <3>1. x - Len(a) - Len(b) \in DOMAIN c /\ todo[x] = c[x - Len(a) - Len(b)] /\ x \in DOMAIN todo
      BY <1>2, <1>3 DEF At
    <3>2. x - Len(a) - Len(b) \in Of(c, k)
      BY <3>1 DEF At, Of
    <3>3. x \in Int
      BY <3>1
    <3> QED BY <1>7, <2>1, <3>2, <3>3
  <2> QED BY <2>2, <2>3, <2>4
<1> QED BY <1>4, <1>5, <1>6, <1>7 DEF a, b, c

\* What is common to all the writes of a pass.
Together(todo, points, targets, at) ==
    /\ todo \in Seq(Writing)
    /\ \A i \in DOMAIN todo :
         /\ todo[i].row.at = at /\ todo[i].row.key \in Key
         /\ \E j \in DOMAIN points : points[j].key = todo[i].row.key
         /\ todo[i].kind = "insert" => \E n \in DOMAIN todo : todo[i].row.id = <<at, n>>
         /\ todo[i].kind = "refresh" => /\ todo[i].row.id = targets[todo[i].row.key].id
                                        /\ targets[todo[i].row.key].odds \in Odds
    /\ \A i, j \in DOMAIN todo : i # j /\ todo[i].kind = "insert" /\ todo[j].kind = "insert" =>
         todo[i].row.id # todo[j].row.id
LEMMA WritesTogether ==
    ASSUME NEW points \in Seq(Point), NEW targets \in [Key -> Standings], Found(targets),
           NEW latest \in [Key -> Odds \union {Unknown}], NEW at \in 1..MaxNow,
           NEW todo, todo = Writes(points, latest, targets, at)
    PROVE  Together(todo, points, targets, at)
<1> DEFINE w == Decided(points, latest, targets, at)[Len(points)]
<1>1. w \in Notes /\ Grown(w, targets, at)
  <2>1. Len(points) \in 0..Len(points)
    OBVIOUS
  <2> QED BY <2>1, LoopTyped
<1>2. todo = w.inserts \o w.refreshes \o w.changes
  BY DEF Writes
<1> HIDE DEF w
<1>3. todo \in Seq(Writing) /\ InOrder(todo, w)
  BY <1>1, <1>2, WritesInOrder
<1>4. ASSUME NEW i \in DOMAIN todo
      PROVE  /\ todo[i].row.at = at /\ todo[i].row.key \in Key /\ todo[i].row.odds \in Odds
             /\ todo[i].kind = "insert" => i \in DOMAIN w.inserts /\ todo[i].row.id = <<at, i>>
             /\ todo[i].kind = "refresh" => /\ todo[i].row.id = targets[todo[i].row.key].id
                                            /\ targets[todo[i].row.key].odds = todo[i].row.odds
  <2>1. \/ todo[i].kind = "insert" /\ i \in DOMAIN w.inserts /\ todo[i] = w.inserts[i]
        \/ todo[i].kind = "refresh" /\ \E j \in DOMAIN w.refreshes : todo[i] = w.refreshes[j]
        \/ todo[i].kind = "change" /\ \E j \in DOMAIN w.changes : todo[i] = w.changes[j]
    BY <1>3 DEF InOrder
  <2>2. CASE todo[i].kind = "insert"
    BY <1>1, <2>1, <2>2 DEF Grown, Snapshots
  <2>3. CASE todo[i].kind = "refresh"
    BY <1>1, <2>1, <2>3 DEF Grown, Snapshots
  <2>4. CASE todo[i].kind = "change"
    BY <1>1, <2>1, <2>4 DEF Grown, ChangePoints
  <2> QED BY <2>1, <2>2, <2>3, <2>4
<1>5. ASSUME NEW i \in DOMAIN todo PROVE \E j \in DOMAIN points : points[j].key = todo[i].row.key
  <2> DEFINE k == todo[i].row.key
             o == todo[i].row.odds
  <2>1. k \in Key /\ o \in Odds
    BY <1>4
  <2> SUFFICES ASSUME ~\E j \in DOMAIN points : points[j].key = k PROVE FALSE
    OBVIOUS
  <2> HIDE DEF k, o
  <2>2. Untouched(w, k, targets, latest)
    BY <2>1, LoopPlans DEF w
  <2>3. /\ At(todo, "insert", k) = {} /\ At(todo, "refresh", k) = {} /\ At(todo, "change", k) = {}
    BY <1>1, <1>3, <2>1, <2>2, WritesOfKey DEF Untouched
  <2>4. todo[i].kind \in {"insert", "refresh", "change"}
    BY <1>3 DEF InOrder
  <2> QED BY <2>3, <2>4 DEF At, k
<1> QED
  <2>1. \A i, j \in DOMAIN todo : i # j /\ todo[i].kind = "insert" /\ todo[j].kind = "insert" =>
                todo[i].row.id # todo[j].row.id
    BY <1>4
  <2>2. \A i \in DOMAIN todo : todo[i].kind = "refresh" => targets[todo[i].row.key].odds \in Odds
    BY <1>4
  <2> QED BY <1>3, <1>4, <1>5, <2>1, <2>2 DEF Together

\* What a pass writes for a key its points quote one price of.
WhatFor(todo, latest, targets, at, k, o) ==
    \/ /\ \A i \in DOMAIN todo : todo[i].row.key # k
       /\ targets[k].odds = o /\ at - targets[k].at < RefreshEvery
    \/ /\ IF targets[k].odds = o
          THEN At(todo, "insert", k) = {} /\ At(todo, "refresh", k) # {}
          ELSE /\ At(todo, "refresh", k) = {}
               /\ \E i \in DOMAIN todo : At(todo, "insert", k) = {i} /\ todo[i].row.odds = o
       /\ IF latest[k] = o THEN At(todo, "change", k) = {}
          ELSE \E i \in DOMAIN todo : /\ At(todo, "change", k) = {i}
                                      /\ todo[i].row.odds = o /\ todo[i].row.prev = latest[k]
LEMMA WritesFor ==
    ASSUME NEW points \in Seq(Point), NEW targets \in [Key -> Standings], Found(targets),
           NEW latest \in [Key -> Odds \union {Unknown}], NEW at \in 1..MaxNow,
           NEW todo, todo = Writes(points, latest, targets, at), NEW k \in Key, NEW o \in Odds,
           \A i \in DOMAIN points : points[i].key = k => points[i].odds = o,
           \E i \in DOMAIN points : points[i].key = k
    PROVE  WhatFor(todo, latest, targets, at, k, o)
<1> DEFINE w == Decided(points, latest, targets, at)[Len(points)]
<1>1. w \in Notes /\ Grown(w, targets, at)
  <2>1. Len(points) \in 0..Len(points)
    OBVIOUS
  <2> QED BY <2>1, LoopTyped
<1>2. todo = w.inserts \o w.refreshes \o w.changes
  BY DEF Writes
<1>3. \/ Planned(w, k, o, targets, latest)
      \/ Untouched(w, k, targets, latest) /\ targets[k].odds = o /\ at - targets[k].at < RefreshEvery
  BY LoopPlans
<1> HIDE DEF w
<1>4. todo \in Seq(Writing) /\ InOrder(todo, w)
  BY <1>1, <1>2, WritesInOrder
<1>5. /\ At(todo, "insert", k) = Of(w.inserts, k)
      /\ \A i \in At(todo, "insert", k) : todo[i] = w.inserts[i]
      /\ At(todo, "refresh", k) = {} <=> Of(w.refreshes, k) = {}
      /\ At(todo, "change", k) = {} <=> Of(w.changes, k) = {}
      /\ \A j : Of(w.changes, k) = {j} =>
           \E i : At(todo, "change", k) = {i} /\ todo[i] = w.changes[j]
  BY <1>1, <1>4, WritesOfKey
<1>6. \A kind, i : At(todo, kind, k) = {i} => i \in DOMAIN todo
  BY DEF At
<1>7. CASE Planned(w, k, o, targets, latest)
  <2>1. IF targets[k].odds = o
        THEN At(todo, "insert", k) = {} /\ At(todo, "refresh", k) # {}
        ELSE /\ At(todo, "refresh", k) = {}
             /\ \E i \in DOMAIN todo : At(todo, "insert", k) = {i} /\ todo[i].row.odds = o
    BY <1>5, <1>6, <1>7 DEF Planned
  <2>2. IF latest[k] = o THEN At(todo, "change", k) = {}
        ELSE \E i \in DOMAIN todo : /\ At(todo, "change", k) = {i}
                                    /\ todo[i].row.odds = o /\ todo[i].row.prev = latest[k]
    BY <1>5, <1>6, <1>7 DEF Planned
  <2> QED BY <2>1, <2>2 DEF WhatFor
<1>8. CASE Untouched(w, k, targets, latest) /\ targets[k].odds = o /\ at - targets[k].at < RefreshEvery
  <2>1. At(todo, "insert", k) = {} /\ At(todo, "refresh", k) = {} /\ At(todo, "change", k) = {}
    BY <1>5, <1>8 DEF Untouched
  <2>2. \A i \in DOMAIN todo : todo[i].kind \in {"insert", "refresh", "change"}
    BY <1>4 DEF InOrder
  <2>3. \A i \in DOMAIN todo : todo[i].row.key # k
    BY <2>1, <2>2 DEF At
  <2> QED BY <1>8, <2>3 DEF WhatFor
<1> QED BY <1>3, <1>7, <1>8

(***************************************************************************)
(* The inductive invariant                                                 *)
(***************************************************************************)

SnapsOf(k) == {r \in snaps : r.key = k}
PricesOf(k) == {r \in prices : r.key = k}
Latest(rows) == {r \in rows : \A s \in rows : s.at <= r.at}
Busy == {p \in Pass : pass[p].step # "idle"}
Todo(p) == {pass[p].todo[i] : i \in DOMAIN pass[p].todo}

\* No row is inserted twice, and a key that is not hurt has one change.
Distinct(v, w, hurt) ==
    /\ v.kind = "insert" /\ w.kind = "insert" => v.row.id # w.row.id
    /\ v.kind = "change" /\ w.kind = "change" /\ v.row.key = w.row.key => v.row.key \in hurt

\* What a pass holds at each of its steps, and what the custodian does.
PassShape(p) ==
    LET s == pass[p] IN
    /\ s \in Passes
    /\ s.step = "idle" => s = NoPass
    /\ s.step # "idle" => s.points \in Batches /\ s.at \in 1..now /\ Contradicts(s.points) \subseteq s.hurt
    /\ s.step = "begun" => s.todo = <<>> /\ s.wrote = {}
    /\ s.step = "write" => s.todo # <<>>
    /\ \A i \in DOMAIN s.todo : /\ s.todo[i].row.at = s.at /\ s.todo[i].row.key \in s.wrote
                                /\ s.todo[i].kind = "insert" => s.todo[i].row.id[1] = s.at
    /\ \A i, j \in DOMAIN s.todo : i # j => Distinct(s.todo[i], s.todo[j], s.hurt)
    /\ s.wrote \subseteq KeysOf(p)
TypeInv ==
    /\ now \in 0..MaxNow /\ backend \in {"sqlite", "postgres"}
    /\ snaps \subseteq Snapshots /\ \A r \in snaps : r.at <= now /\ r.id[1] <= now
    /\ prices \subseteq ChangePoints /\ \A r \in prices : r.at <= now
    /\ pass \in [Pass -> Passes] /\ \A p \in Pass : PassShape(p)
    /\ \A p, q \in Busy : pass[p].at = pass[q].at => p = q
    /\ custodian \in [step : {"idle", "snapshots", "prices"}, keep : Nat, cutoff : Int, room : BOOLEAN]
    /\ custodian.step = "snapshots" =>
          custodian.keep \in Windows /\ custodian.cutoff <= now - custodian.keep
    /\ custodian.step = "snapshots" /\ backend = "sqlite" /\ custodian.room => custodian.cutoff <= backup
    /\ backup \in 0..MaxNow
    /\ harm \in [Key -> {"none", "torn", "mended"}] /\ mishaps \in 0..MaxMishaps
    /\ confirmed \in [Key -> [at : 0..MaxNow, odds : Odds \union {Unknown}]]

\* A row has an id of its own, and a refresh names a row of its own key.
IdInv ==
    /\ \A r, s \in snaps : r.id = s.id => r = s
    /\ \A p \in Busy : \A w \in Todo(p) :
          /\ w.kind = "insert" => \A s \in snaps : s.id # w.row.id
          /\ w.kind = "insert" => \A q \in Busy : \A v \in Todo(q) : v.kind = "refresh" => v.row.id # w.row.id
          /\ w.kind = "refresh" => \A s \in snaps : s.id = w.row.id => s.key = w.row.key
          /\ w.kind = "refresh" => w.row.id[1] <= now
    /\ \A p \in Busy : pass[p].step = "begun" =>
          /\ \A s \in snaps : s.id[1] # pass[p].at
          /\ \A q \in Busy : \A v \in Todo(q) : v.kind = "refresh" => v.row.id[1] # pass[p].at

\* The rows of one key.
OneAtATime(rows) == \A r, s \in rows : r.at = s.at => r = s
OneLast(rows) == \A r, s \in Latest(rows) : r = s
Alike(S, Q) == \A r \in Latest(S), q \in Latest(Q) : r.odds = q.odds
Follow(rows, r, s) == r.at < s.at /\ ~\E q \in rows : r.at < q.at /\ q.at < s.at
LevelsDiffer(S) == \A r, s \in S : Follow(S, r, s) => r.odds # s.odds
Chained(Q) == \A r, s \in Q : Follow(Q, r, s) => s.prev = r.odds /\ s.odds # s.prev
Whole(S, Q) == OneAtATime(S) /\ LevelsDiffer(S) /\ Chained(Q)

\* What an undisturbed pass has still to write for a key: the rows S and Q it finds, the
\* inserts I, refreshes R and changes C it has left, its instant and the price it reports.
SnapsPlanned(S, I, R, at, o) ==
    \/ /\ \E w \in I : I = {w} /\ w.row.odds = o
       /\ R = {} /\ \A s \in S : s.at < at
    \/ /\ I = {}
       /\ \E r \in S : /\ r.odds = o /\ r.at <= at /\ \A s \in S : s = r \/ s.at < at
                       /\ \A w \in R : w.row.id = r.id
                       /\ R = {} => r.at = at
PricesPlanned(Q, C, at, o) ==
    \/ (\E w \in C : C = {w} /\ w.row.odds = o) /\ \A q \in Q : q.at < at
    \/ C = {} /\ (\A q \in Latest(Q) : q.odds = o) /\ \A q \in Q : q.at <= at
Newsworthy(S, Q, I, R, C) ==
    /\ \A w \in I : \A r \in Latest(S) : r.odds # w.row.odds
    /\ \A w \in R : \A r \in S : r.id = w.row.id => r \in Latest(S)
    /\ \A w \in C : w.row.prev # w.row.odds /\ \A q \in Latest(Q) : w.row.prev = q.odds

Level(p, k) == LastPoint(p, k).odds
Pending(p, k, kind) == {w \in Todo(p) : w.kind = kind /\ w.row.key = k}
SnapPlan(p, k) ==
    SnapsPlanned(SnapsOf(k), Pending(p, k, "insert"), Pending(p, k, "refresh"), pass[p].at, Level(p, k))
PricePlan(p, k) == PricesPlanned(PricesOf(k), Pending(p, k, "change"), pass[p].at, Level(p, k))
NewsPlan(p, k) ==
    Newsworthy(SnapsOf(k), PricesOf(k), Pending(p, k, "insert"), Pending(p, k, "refresh"),
               Pending(p, k, "change"))

Writers(k) == {p \in Loaded(k) : k \in pass[p].wrote}
Intact(p, k) == p \in Under(k) /\ k \notin pass[p].hurt
Confirms(k) ==
    LET c == confirmed[k] IN
    /\ Latest(SnapsOf(k)) # {}
    /\ \A r \in Latest(SnapsOf(k)) : r.odds = c.odds /\ (r.at = c.at \/ c.at - r.at < RefreshEvery)

KeyInv(k) ==
    /\ \A p \in Under(k) : IF k \in pass[p].hurt THEN harm[k] = "torn" ELSE Under(k) = {p}
    /\ \A p \in Under(k) : Intact(p, k) /\ k \notin pass[p].wrote =>
          /\ \A r \in SnapsOf(k) : r.at < pass[p].at
          /\ \A r \in PricesOf(k) : r.at < pass[p].at
    /\ \A p \in Writers(k) : Intact(p, k) => SnapPlan(p, k) /\ PricePlan(p, k)
    /\ \A p \in Writers(k) : Intact(p, k) /\ harm[k] = "none" => NewsPlan(p, k)
    /\ \A p \in Loaded(k) \ Writers(k) : Intact(p, k) =>
          \E r \in Latest(SnapsOf(k)) : r.odds = Level(p, k) /\ pass[p].at - r.at < RefreshEvery
    /\ harm[k] # "torn" /\ Writers(k) = {} => OneLast(SnapsOf(k)) /\ Alike(SnapsOf(k), PricesOf(k))
    /\ harm[k] # "torn" /\ Loaded(k) = {} /\ confirmed[k].at > 0 /\ Kept(k) => Confirms(k)
    /\ harm[k] = "none" => Whole(SnapsOf(k), PricesOf(k))
    /\ OneAtATime(PricesOf(k))
IInv == TypeInv /\ IdInv /\ \A k \in Key : KeyInv(k)

(***************************************************************************)
(* Rows                                                                    *)
(***************************************************************************)

\* Retention takes the beginning of a series.
LEMMA Thinned ==
    ASSUME NEW S, NEW T \in SUBSET S, \A r \in S : r.at \in Int,
           \A r \in S \ T : \A q \in T : ~(q.at < r.at)
    PROVE  /\ Latest(T) \subseteq Latest(S)
           /\ \A r \in Latest(S) : r \in T => r \in Latest(T)
           /\ OneLast(S) => OneLast(T)
           /\ OneAtATime(S) => OneAtATime(T)
           /\ LevelsDiffer(S) => LevelsDiffer(T)
           /\ Chained(S) => Chained(T)
<1>1. Latest(T) \subseteq Latest(S)
  BY DEF Latest
<1>2. \A r \in Latest(S) : r \in T => r \in Latest(T)
  BY DEF Latest
<1>3. \A r, s \in T : Follow(T, r, s) => Follow(S, r, s)
  BY DEF Follow
<1>4. LevelsDiffer(S) => LevelsDiffer(T)
  BY <1>3 DEF LevelsDiffer
<1>5. Chained(S) => Chained(T)
  BY <1>3 DEF Chained
<1> QED BY <1>1, <1>2, <1>4, <1>5 DEF OneLast, OneAtATime

\* A row is added at the end of a series.
LEMMA Lengthened ==
    ASSUME NEW S, NEW x, x.at \in Int, \A s \in S : s.at \in Int /\ s.at < x.at
    PROVE  /\ Latest(S \union {x}) = {x}
           /\ OneAtATime(S) => OneAtATime(S \union {x})
           /\ LevelsDiffer(S) /\ (\A r \in Latest(S) : r.odds # x.odds) => LevelsDiffer(S \union {x})
           /\ Chained(S) /\ x.prev # x.odds /\ (\A r \in Latest(S) : x.prev = r.odds) =>
                 Chained(S \union {x})
<1> DEFINE T == S \union {x}
<1>1. Latest(T) = {x}
  BY DEF Latest
<1>2. OneAtATime(S) => OneAtATime(T)
  BY DEF OneAtATime
<1>3. ASSUME NEW r \in T, NEW s \in T, Follow(T, r, s)
      PROVE  \/ r \in S /\ s \in S /\ Follow(S, r, s)
             \/ r \in Latest(S) /\ s = x
  <2>1. r # x
    BY <1>3 DEF Follow
  <2>2. CASE s = x
    BY <1>3, <2>1, <2>2 DEF Follow, Latest
  <2>3. CASE s # x
    BY <1>3, <2>1, <2>3 DEF Follow
  <2> QED BY <2>2, <2>3
<1>4. LevelsDiffer(S) /\ (\A r \in Latest(S) : r.odds # x.odds) => LevelsDiffer(T)
  BY <1>3 DEF LevelsDiffer
<1>5. Chained(S) /\ x.prev # x.odds /\ (\A r \in Latest(S) : x.prev = r.odds) => Chained(T)
  BY <1>3 DEF Chained
<1> QED BY <1>1, <1>2, <1>4, <1>5

\* The last row of a series is confirmed.
LEMMA Restamped ==
    ASSUME NEW S \in SUBSET Snapshots, NEW r \in S, NEW t \in 1..MaxNow, r.at <= t,
           \A s \in S : s = r \/ s.at < t
    PROVE  LET x == [r EXCEPT !.at = t]
               T == {IF s = r THEN x ELSE s : s \in S}
           IN  /\ Latest(T) = {x}
               /\ OneAtATime(S) => OneAtATime(T)
               /\ OneAtATime(S) /\ r \in Latest(S) /\ LevelsDiffer(S) => LevelsDiffer(T)
<1> DEFINE x == [r EXCEPT !.at = t]
           T == {IF s = r THEN x ELSE s : s \in S}
<1>1. x.at = t /\ x.odds = r.odds /\ t \in Int /\ \A s \in S : s.at \in Int
  BY PriceStoreAssumption DEF Snapshots
<1> HIDE DEF x
<1>2. x \in T /\ \A y \in T : y = x \/ (y \in S /\ y # r /\ y.at < t)
  OBVIOUS
<1>3. \A y \in S : y # r => y \in T
  OBVIOUS
<1> HIDE DEF T
<1>4. Latest(T) = {x}
  BY <1>1, <1>2 DEF Latest
<1>5. OneAtATime(S) => OneAtATime(T)
  BY <1>1, <1>2 DEF OneAtATime
<1>6. ASSUME OneAtATime(S), r \in Latest(S), LevelsDiffer(S) PROVE LevelsDiffer(T)
  <2> SUFFICES ASSUME NEW u \in T, NEW v \in T, Follow(T, u, v) PROVE u.odds # v.odds
    BY DEF LevelsDiffer
  <2>1. u # x /\ u \in S /\ u # r
    BY <1>1, <1>2 DEF Follow
  <2>2. \A y \in S : y # r => y.at < r.at
    BY <1>1, <1>6 DEF Latest, OneAtATime
  <2>3. CASE v = x
    <3>1. Follow(S, u, r)
      BY <1>1, <1>2, <1>3, <2>1, <2>2, <2>3 DEF Follow
    <3> QED BY <1>1, <1>6, <2>1, <2>3, <3>1 DEF LevelsDiffer
  <2>4. CASE v # x
    <3>1. v \in S /\ v # r
      BY <1>2, <2>4
    <3>2. Follow(S, u, v)
      BY <1>1, <1>2, <1>3, <2>1, <2>2, <3>1 DEF Follow
    <3> QED BY <1>6, <2>1, <3>1, <3>2 DEF LevelsDiffer
  <2> QED BY <2>3, <2>4
<1> QED BY <1>4, <1>5, <1>6 DEF T, x

LEMMA NewestAre == \A k : NewestOf(snaps, k) = Latest(SnapsOf(k)) /\ NewestOf(prices, k) = Latest(PricesOf(k))
  BY DEF NewestOf, Latest, SnapsOf, PricesOf

\* What the invariant says of the tables.
LEMMA Consequences ==
    ASSUME IInv
    PROVE  TypeOK /\ SeriesAgrees /\ HistoryIsWhole /\ StampLagsBehindLittle
<1>1. TypeOK
  BY DEF IInv, TypeInv, TypeOK
<1>2. ASSUME NEW k \in Key PROVE KeyInv(k)
  BY DEF IInv
<1>3. ASSUME NEW k \in Key, Under(k) = {} PROVE Loaded(k) = {} /\ Writers(k) = {}
  BY <1>3 DEF Loaded, Writers
<1>4. SeriesAgrees
  <2> SUFFICES ASSUME NEW k \in Key, Settled(k), NEW r \in NewestOf(snaps, k), NEW q \in NewestOf(prices, k)
               PROVE  r.odds = q.odds
    BY <1>1 DEF SeriesAgrees
  <2>1. Alike(SnapsOf(k), PricesOf(k))
    BY <1>2, <1>3 DEF KeyInv, Settled
  <2> QED BY <2>1, NewestAre DEF Alike
<1>5. HistoryIsWhole
  <2> SUFFICES ASSUME NEW k \in Key, harm[k] = "none"
               PROVE  /\ \A r, s \in snaps : r.key = k /\ s.key = k /\ r.at < s.at
                          /\ ~(\E q \in snaps : q.key = k /\ r.at < q.at /\ q.at < s.at)
                          => r.odds # s.odds
                      /\ \A r, s \in prices : r.key = k /\ s.key = k /\ r.at < s.at
                          /\ ~(\E q \in prices : q.key = k /\ r.at < q.at /\ q.at < s.at)
                          => s.prev = r.odds /\ s.odds # s.prev
    BY DEF HistoryIsWhole
  <2>1. LevelsDiffer(SnapsOf(k)) /\ Chained(PricesOf(k))
    BY <1>2 DEF KeyInv, Whole
  <2>2. \A r, s \in snaps : r.key = k /\ s.key = k /\ r.at < s.at
           /\ ~(\E q \in snaps : q.key = k /\ r.at < q.at /\ q.at < s.at)
           => r \in SnapsOf(k) /\ s \in SnapsOf(k) /\ Follow(SnapsOf(k), r, s)
    BY DEF Follow, SnapsOf
  <2>3. \A r, s \in prices : r.key = k /\ s.key = k /\ r.at < s.at
           /\ ~(\E q \in prices : q.key = k /\ r.at < q.at /\ q.at < s.at)
           => r \in PricesOf(k) /\ s \in PricesOf(k) /\ Follow(PricesOf(k), r, s)
    BY DEF Follow, PricesOf
  <2> QED BY <2>1, <2>2, <2>3 DEF LevelsDiffer, Chained
<1>6. StampLagsBehindLittle
  <2> SUFFICES ASSUME NEW k \in Key, Settled(k), confirmed[k].at > 0, Kept(k)
               PROVE  /\ NewestOf(snaps, k) # {}
                      /\ \A r \in NewestOf(snaps, k) :
                          /\ r.odds = confirmed[k].odds
                          /\ r.at = confirmed[k].at \/ confirmed[k].at - r.at < RefreshEvery
    BY DEF StampLagsBehindLittle
  <2>1. Confirms(k)
    BY <1>2, <1>3 DEF KeyInv, Settled
  <2> QED BY <2>1, NewestAre DEF Confirms
<1> QED BY <1>1, <1>4, <1>5, <1>6

(***************************************************************************)
(* Passes                                                                  *)
(***************************************************************************)

LEMMA BatchTyped ==
    ASSUME NEW points \in Batches
    PROVE  /\ points \in Seq(Point) /\ points # <<>> /\ DOMAIN points = 1..Len(points) /\ Len(points) \in Nat
           /\ \A i \in DOMAIN points : points[i].key \in Key /\ points[i].odds \in Odds
<1>1. points \in Seq(Point) /\ points # <<>>
  BY PriceStoreAssumption DEF Point
<1>2. DOMAIN points = 1..Len(points) /\ Len(points) \in Nat /\ \A i \in DOMAIN points : points[i] \in Point
  BY <1>1
<1> QED BY <1>1, <1>2 DEF Point

LEMMA TailIs ==
    ASSUME NEW s \in Seq(Writing), s # <<>>
    PROVE  /\ Head(s) \in Writing /\ s[1] = Head(s) /\ 1 \in DOMAIN s /\ Tail(s) \in Seq(Writing)
           /\ \A i \in DOMAIN Tail(s) : i + 1 \in DOMAIN s /\ Tail(s)[i] = s[i + 1] /\ i + 1 # 1 /\ i \in Nat
           /\ \A j \in DOMAIN s : j = 1 \/ (j - 1 \in DOMAIN Tail(s) /\ Tail(s)[j - 1] = s[j])
           /\ Len(s) = 1 => \A j \in DOMAIN s : j = 1
           /\ Len(s) # 1 => Tail(s) # <<>>
<1>1. Len(s) \in Nat /\ Len(s) # 0 /\ DOMAIN s = 1..Len(s) /\ \A i \in DOMAIN s : s[i] \in Writing
  OBVIOUS
<1>2. Head(s) = s[1] /\ 1 \in DOMAIN s
  BY <1>1
<1>3. /\ Tail(s) \in Seq(Writing) /\ Len(Tail(s)) = Len(s) - 1
      /\ \A i \in 1..(Len(s) - 1) : Tail(s)[i] = s[i + 1]
  OBVIOUS
<1>4. DOMAIN Tail(s) = 1..(Len(s) - 1)
  BY <1>3
<1>5. \A i \in DOMAIN Tail(s) : i + 1 \in DOMAIN s /\ Tail(s)[i] = s[i + 1] /\ i + 1 # 1 /\ i \in Nat
  BY <1>1, <1>3, <1>4
<1>6. ASSUME NEW j \in DOMAIN s, j # 1 PROVE j - 1 \in DOMAIN Tail(s) /\ Tail(s)[j - 1] = s[j]
  <2>1. j - 1 \in 1..(Len(s) - 1) /\ (j - 1) + 1 = j
    BY <1>1, <1>6
  <2> QED BY <1>3, <1>4, <2>1
<1>7. Len(s) # 1 => Tail(s) # <<>>
  <2>1. Len(<<>>) = 0
    OBVIOUS
  <2>2. Len(s) # 1 => Len(Tail(s)) # 0
    BY <1>1, <1>3
  <2> QED BY <2>1, <2>2, Zenon
<1> QED BY <1>1, <1>2, <1>3, <1>5, <1>6, <1>7

\* The last point of a key is one of its points.
LEMMA LastPointIs ==
    ASSUME NEW p \in Pass, pass[p].points \in Batches, NEW k \in KeysOf(p)
    PROVE  \E i \in DOMAIN pass[p].points : LastPoint(p, k) = pass[p].points[i] /\ pass[p].points[i].key = k
<1> DEFINE points == pass[p].points
           at == {i \in DOMAIN points : points[i].key = k}
           back == {Len(points) - i : i \in at}
<1>1. DOMAIN points = 1..Len(points) /\ Len(points) \in Nat
  BY BatchTyped
<1>2. at # {} /\ at \subseteq 1..Len(points)
  BY <1>1 DEF KeysOf
<1>3. back \subseteq Nat /\ back # {}
  <2> HIDE DEF points, at
  <2>1. PICK i : i \in at
    BY <1>2
  <2>2. Len(points) - i \in back
    BY <2>1
  <2>3. \A x \in at : Len(points) - x \in Nat
    BY <1>1, <1>2
  <2> QED BY <2>2, <2>3
<1>4. PICK n \in back : \A m \in back : n <= m
  <2> HIDE DEF back
  <2> QED BY <1>3, LeastOfSome
<1>5. PICK i \in at : n = Len(points) - i
  BY <1>4
<1>6. \A j \in at : j <= i
  <2> TAKE j \in at
  <2>1. Len(points) - j \in back
    OBVIOUS
  <2>2. Len(points) - i <= Len(points) - j
    BY <1>4, <1>5, <2>1
  <2> HIDE DEF points, at, back
  <2> QED BY <1>1, <1>2, <2>2
<1>7. (CHOOSE x \in at : \A j \in at : j <= x) \in at
  BY <1>5, <1>6
<1> QED BY <1>7 DEF LastPoint

LEMMA PassIs ==
    ASSUME TypeInv, NEW p \in Pass
    PROVE  /\ pass[p] \in Passes /\ PassShape(p)
           /\ pass[p].step \in {"idle", "begun", "write"} /\ pass[p].at \in 0..MaxNow
           /\ pass[p].todo \in Seq(Writing) /\ pass[p].hurt \subseteq Key /\ pass[p].wrote \subseteq Key
           /\ pass[p].step = "idle" => pass[p] = NoPass /\ KeysOf(p) = {}
           /\ pass[p].step # "idle" => /\ pass[p].points \in Batches /\ pass[p].at \in 1..now
                                     /\ Contradicts(pass[p].points) \subseteq pass[p].hurt
           /\ KeysOf(p) \subseteq Key
<1>1. pass[p] \in Passes /\ PassShape(p)
  BY DEF TypeInv
<1>2. /\ pass[p].step = "idle" => pass[p] = NoPass
      /\ pass[p].step # "idle" => /\ pass[p].points \in Batches /\ pass[p].at \in 1..now
                                  /\ Contradicts(pass[p].points) \subseteq pass[p].hurt
  BY <1>1 DEF PassShape
<1>3. CASE pass[p].step = "idle"
  <2>1. KeysOf(p) = {}
    BY <1>2, <1>3 DEF KeysOf, NoPass
  <2> QED BY <1>1, <1>2, <1>3, <2>1 DEF Passes
<1>4. CASE pass[p].step # "idle"
  <2>1. KeysOf(p) \subseteq Key
    BY <1>2, <1>4, BatchTyped DEF KeysOf
  <2> QED BY <1>1, <1>2, <1>4, <2>1 DEF Passes
<1> QED BY <1>3, <1>4

\* A pass that is only hurt keeps the rest.
SamePass(q) ==
    /\ pass'[q].step = pass[q].step /\ pass'[q].at = pass[q].at /\ pass'[q].points = pass[q].points
    /\ pass'[q].todo = pass[q].todo /\ pass'[q].wrote = pass[q].wrote
LEMMA SameKeys ==
    ASSUME NEW q, pass'[q].points = pass[q].points PROVE KeysOf(q)' = KeysOf(q)
  BY DEF KeysOf
LEMMA SameShape ==
    ASSUME TypeInv, now' \in Nat, now <= now', NEW q \in Pass, SamePass(q), pass'[q] \in Passes,
           pass[q].hurt \subseteq pass'[q].hurt, pass[q].step = "idle" => pass'[q] = NoPass
    PROVE  PassShape(q)'
<1>1. PassShape(q) /\ now \in Nat
  BY DEF TypeInv
<1>2. KeysOf(q)' = KeysOf(q)
  BY SameKeys DEF SamePass
<1>3. \A v, w : Distinct(v, w, pass[q].hurt) => Distinct(v, w, pass'[q].hurt)
  BY DEF Distinct
<1> QED BY <1>1, <1>2, <1>3 DEF PassShape, SamePass

\* The passes a disturbance hurts.
LEMMA HurtTyped ==
    ASSUME TypeInv, NEW keys \in SUBSET Key
    PROVE  Hurt(keys) \in [Pass -> Passes]
<1>1. \A x \in Pass : pass[x] \in Passes
  BY PassIs
<1> QED BY <1>1 DEF Hurt, Passes
LEMMA HurtIs ==
    ASSUME TypeInv, NEW keys \in SUBSET Key, NEW q \in Pass
    PROVE  /\ Hurt(keys)[q] \in Passes /\ Hurt(keys)[q].hurt = pass[q].hurt \union (keys \intersect KeysOf(q))
           /\ Hurt(keys)[q].step = pass[q].step /\ Hurt(keys)[q].at = pass[q].at
           /\ Hurt(keys)[q].points = pass[q].points /\ Hurt(keys)[q].todo = pass[q].todo
           /\ Hurt(keys)[q].wrote = pass[q].wrote
           /\ pass[q].step = "idle" => Hurt(keys)[q] = NoPass
<1>1. \A x \in Pass : pass[x] \in Passes
  BY PassIs
<1>2. Hurt(keys)[q] \in Passes
  BY HurtTyped
<1>3. /\ Hurt(keys)[q].hurt = pass[q].hurt \union (keys \intersect KeysOf(q))
      /\ Hurt(keys)[q].step = pass[q].step /\ Hurt(keys)[q].at = pass[q].at
      /\ Hurt(keys)[q].points = pass[q].points /\ Hurt(keys)[q].todo = pass[q].todo
      /\ Hurt(keys)[q].wrote = pass[q].wrote
  BY <1>1 DEF Hurt, Passes
<1>4. pass[q].step = "idle" => Hurt(keys)[q] = NoPass
  <2> SUFFICES ASSUME pass[q].step = "idle" PROVE Hurt(keys)[q] = NoPass
    OBVIOUS
  <2>1. pass[q] = NoPass /\ KeysOf(q) = {}
    BY PassIs
  <2>2. Hurt(keys)[q] = [pass[q] EXCEPT !.hurt = pass[q].hurt \union (keys \intersect KeysOf(q))]
    BY DEF Hurt
  <2>3. NoPass.hurt \union (keys \intersect {}) = NoPass.hurt
    BY DEF NoPass
  <2>4. Hurt(keys)[q] = [NoPass EXCEPT !.hurt = NoPass.hurt]
    BY <2>1, <2>2, <2>3
  <2> QED BY <2>4 DEF NoPass
<1> QED BY <1>2, <1>3, <1>4

LEMMA FewMishaps ==
    ASSUME TypeInv, NEW keys \in SUBSET Key, mishaps' = mishaps + Cardinality(keys), mishaps' <= MaxMishaps
    PROVE  mishaps' \in 0..MaxMishaps
<1>1. Cardinality(keys) \in Nat
  BY PriceStoreAssumption, FS_Subset, FS_CardinalityType
<1> QED BY <1>1, PriceStoreAssumption DEF TypeInv

\* What Load reads.
LEMMA LoadReads ==
    ASSUME TypeInv, NEW targets \in LatestSnapshots, NEW latest \in LatestOdds
    PROVE  /\ targets \in [Key -> Standings] /\ Found(targets) /\ latest \in [Key -> Odds \union {Unknown}]
           /\ \A k \in Key :
                /\ \/ Latest(SnapsOf(k)) = {} /\ targets[k].odds = Unknown
                   \/ \E r \in Latest(SnapsOf(k)) :
                        targets[k].id = r.id /\ targets[k].odds = r.odds /\ targets[k].at = r.at
                /\ \/ Latest(PricesOf(k)) = {} /\ latest[k] = Unknown
                   \/ \E q \in Latest(PricesOf(k)) : latest[k] = q.odds
<1>1. MaxNow \in Nat /\ Unknown \notin Odds /\ \A r \in snaps : r \in Snapshots
  BY PriceStoreAssumption DEF TypeInv
<1>2. ASSUME NEW r \in Snapshots
      PROVE  /\ Standing(r) \in Standings /\ Standing(r).id \in Ids /\ Standing(r).id # InThisPass
             /\ Standing(r).id = r.id /\ Standing(r).odds = r.odds /\ Standing(r).at = r.at
  <2>1. r.id \in Ids /\ r.odds \in Odds /\ r.at \in 1..MaxNow /\ r.at \in 0..MaxNow
    BY <1>1 DEF Snapshots, Ids
  <2>2. r.id # InThisPass
    BY <2>1, <1>1 DEF Ids, InThisPass
  <2> QED BY <2>1, <2>2 DEF Standing, Standings
<1>3. NoRow \in Standings /\ NoRow.id # InThisPass /\ NoRow.odds = Unknown
  BY <1>1 DEF NoRow, Standings, InThisPass
<1>4. /\ targets \in [Key -> {Standing(r) : r \in snaps} \union {NoRow}]
      /\ \A k \in Key : IF NewestOf(snaps, k) = {} THEN targets[k] = NoRow
                        ELSE \E r \in NewestOf(snaps, k) : targets[k] = Standing(r)
  BY DEF LatestSnapshots
<1>5. /\ latest \in [Key -> Odds \union {Unknown}]
      /\ \A k \in Key : IF NewestOf(prices, k) = {} THEN latest[k] = Unknown
                        ELSE \E r \in NewestOf(prices, k) : latest[k] = r.odds
  BY DEF LatestOdds
<1>6. {Standing(r) : r \in snaps} \union {NoRow} \subseteq Standings
  BY <1>1, <1>2, <1>3
<1>7. targets \in [Key -> Standings]
  BY <1>4, <1>6
<1>8. Found(targets)
  <2> SUFFICES ASSUME NEW k \in Key
               PROVE  targets[k].id # InThisPass /\ (targets[k].odds \in Odds => targets[k].id \in Ids)
    BY DEF Found
  <2>1. targets[k] = NoRow \/ \E r \in Snapshots : targets[k] = Standing(r)
    BY <1>1, <1>4
  <2> QED BY <1>1, <1>2, <1>3, <2>1
<1>9. ASSUME NEW k \in Key
      PROVE  /\ \/ Latest(SnapsOf(k)) = {} /\ targets[k].odds = Unknown
                \/ \E r \in Latest(SnapsOf(k)) :
                     targets[k].id = r.id /\ targets[k].odds = r.odds /\ targets[k].at = r.at
             /\ \/ Latest(PricesOf(k)) = {} /\ latest[k] = Unknown
                \/ \E q \in Latest(PricesOf(k)) : latest[k] = q.odds
  <2>1. \A r \in Latest(SnapsOf(k)) : r \in Snapshots
    BY <1>1 DEF Latest, SnapsOf
  <2>2. IF Latest(SnapsOf(k)) = {} THEN targets[k] = NoRow
        ELSE \E r \in Latest(SnapsOf(k)) : targets[k] = Standing(r)
    BY <1>4, NewestAre
  <2>3. IF Latest(PricesOf(k)) = {} THEN latest[k] = Unknown
        ELSE \E r \in Latest(PricesOf(k)) : latest[k] = r.odds
    BY <1>5, NewestAre
  <2> QED BY <1>2, <1>3, <2>1, <2>2, <2>3
<1> QED BY <1>5, <1>7, <1>8, <1>9

(***************************************************************************)
(* Types                                                                   *)
(***************************************************************************)

PassesInv ==
    /\ pass \in [Pass -> Passes] /\ \A p \in Pass : PassShape(p)
    /\ \A p, q \in Busy : pass[p].at = pass[q].at => p = q
LEMMA PassesAre == TypeInv => PassesInv
  BY DEF TypeInv, PassesInv

LEMMA OneMoves ==
    ASSUME TypeInv, NEW p \in Pass, now' \in Nat, now <= now', pass' \in [Pass -> Passes],
           \A q \in Pass : q # p => pass'[q] = pass[q], PassShape(p)',
           pass'[p].step # "idle" => pass'[p].at = pass[p].at /\ pass[p].step # "idle"
    PROVE  PassesInv'
<1>1. ASSUME NEW q \in Pass PROVE PassShape(q)'
  <2>1. CASE q = p
    BY <2>1
  <2>2. CASE q # p
    <3>1. pass'[q] = pass[q] /\ (pass[q].step = "idle" => pass[q] = NoPass)
      BY <2>2, PassIs
    <3> QED BY <3>1, SameShape DEF SamePass
  <2> QED BY <2>1, <2>2
<1>2. \A x, y \in Busy' : pass'[x].at = pass'[y].at => x = y
  <2>1. \A x \in Busy' : x \in Busy /\ pass'[x].at = pass[x].at
    BY DEF Busy
  <2> QED BY <2>1, PassesAre DEF PassesInv
<1> QED BY <1>1, <1>2 DEF PassesInv

LEMMA AllHurt ==
    ASSUME TypeInv, NEW keys \in SUBSET Key, pass' = Hurt(keys), now' = now
    PROVE  PassesInv' /\ \A q \in Pass : SamePass(q) /\ pass'[q].hurt = pass[q].hurt \union (keys \intersect KeysOf(q))
<1>1. now' \in Nat /\ now <= now'
  BY DEF TypeInv
<1>2. ASSUME NEW q \in Pass
      PROVE  /\ SamePass(q) /\ pass'[q] \in Passes
             /\ pass'[q].hurt = pass[q].hurt \union (keys \intersect KeysOf(q))
             /\ pass[q].step = "idle" => pass'[q] = NoPass
  BY HurtIs DEF SamePass
<1>3. ASSUME NEW q \in Pass PROVE PassShape(q)'
  <2>1. pass[q].hurt \subseteq pass'[q].hurt
    BY <1>2
  <2> QED BY <1>1, <1>2, <2>1, SameShape
<1>4. \A x, y \in Busy' : pass'[x].at = pass'[y].at => x = y
  <2>1. \A x \in Busy' : x \in Busy /\ pass'[x].at = pass[x].at
    BY <1>2 DEF Busy, SamePass
  <2> QED BY <2>1, PassesAre DEF PassesInv
<1>5. pass' \in [Pass -> Passes]
  BY HurtTyped
<1> QED BY <1>2, <1>3, <1>4, <1>5 DEF PassesInv

LEMMA IdleShape ==
    ASSUME NEW p \in Pass, pass'[p] = NoPass
    PROVE  PassShape(p)' /\ NoPass \in Passes /\ KeysOf(p)' = {} /\ NoPass.step = "idle"
<1>1. /\ NoPass.step = "idle" /\ NoPass.at = 0 /\ NoPass.points = <<>> /\ NoPass.todo = <<>>
      /\ NoPass.hurt = {} /\ NoPass.wrote = {}
  BY DEF NoPass
<1>2. NoPass \in Passes
  BY PriceStoreAssumption DEF NoPass, Passes
<1>3. KeysOf(p)' = {}
  BY <1>1 DEF KeysOf
<1>4. DOMAIN NoPass.todo = {}
  BY <1>1
<1> QED BY <1>1, <1>2, <1>3, <1>4 DEF PassShape

LEMMA ReturnTyped ==
    ASSUME TypeInv, NEW p \in Pass, pass[p].step # "idle", NEW wrote, Return(p, wrote), now' = now
    PROVE  /\ PassesInv' /\ pass'[p] = NoPass /\ \A q \in Pass : q # p => pass'[q] = pass[q]
           /\ harm' \in [Key -> {"none", "torn", "mended"}]
           /\ confirmed' \in [Key -> [at : 0..MaxNow, odds : Odds \union {Unknown}]]
<1>1. /\ pass \in [Pass -> Passes] /\ now \in Nat /\ now' \in Nat /\ now <= now'
      /\ harm \in [Key -> {"none", "torn", "mended"}]
      /\ confirmed \in [Key -> [at : 0..MaxNow, odds : Odds \union {Unknown}]]
  BY DEF TypeInv
<1>2. /\ harm' = [k \in Key |-> IF harm[k] = "torn" /\ k \in wrote \ pass[p].hurt THEN "mended" ELSE harm[k]]
      /\ confirmed' = [k \in Key |-> IF k \in KeysOf(p) \ pass[p].hurt
                                     THEN [at |-> pass[p].at, odds |-> LastPoint(p, k).odds] ELSE confirmed[k]]
      /\ pass' = [pass EXCEPT ![p] = NoPass]
  BY DEF Return
<1>3. pass'[p] = NoPass /\ (\A q \in Pass : q # p => pass'[q] = pass[q])
  BY <1>1, <1>2
<1>4. PassShape(p)' /\ NoPass \in Passes /\ NoPass.step = "idle"
  BY <1>3, IdleShape
<1>5. pass' \in [Pass -> Passes]
  BY <1>1, <1>2, <1>4
<1>6. PassesInv'
  BY <1>1, <1>3, <1>4, <1>5, OneMoves
<1>7. harm' \in [Key -> {"none", "torn", "mended"}]
  BY <1>1, <1>2
<1>8. ASSUME NEW k \in KeysOf(p)
      PROVE  [at |-> pass[p].at, odds |-> LastPoint(p, k).odds] \in [at : 0..MaxNow, odds : Odds \union {Unknown}]
  <2>1. pass[p].points \in Batches /\ pass[p].at \in 0..MaxNow
    BY PassIs
  <2>2. LastPoint(p, k).odds \in Odds
    BY <2>1, BatchTyped, LastPointIs
  <2> QED BY <2>1, <2>2
<1>9. confirmed' \in [Key -> [at : 0..MaxNow, odds : Odds \union {Unknown}]]
  <2> DEFINE T == [at : 0..MaxNow, odds : Odds \union {Unknown}]
             f(k) == IF k \in KeysOf(p) \ pass[p].hurt
                     THEN [at |-> pass[p].at, odds |-> LastPoint(p, k).odds] ELSE confirmed[k]
  <2>1. ASSUME NEW k \in Key PROVE f(k) \in T
    <3>1. CASE k \in KeysOf(p) \ pass[p].hurt
      BY <1>8, <3>1
    <3>2. CASE k \notin KeysOf(p) \ pass[p].hurt
      BY <1>1, <3>2
    <3> QED BY <3>1, <3>2
  <2>2. confirmed' = [k \in Key |-> f(k)]
    BY <1>2
  <2> HIDE DEF f, T
  <2>3. confirmed' \in [Key -> T]
    BY <2>1, <2>2
  <2> QED BY <2>3 DEF T
<1> QED BY <1>3, <1>6, <1>7, <1>9

\* The rest of TypeInv.
TablesInv ==
    /\ now \in 0..MaxNow /\ backend \in {"sqlite", "postgres"}
    /\ snaps \subseteq Snapshots /\ \A r \in snaps : r.at <= now /\ r.id[1] <= now
    /\ prices \subseteq ChangePoints /\ \A r \in prices : r.at <= now
CareInv ==
    /\ custodian \in [step : {"idle", "snapshots", "prices"}, keep : Nat, cutoff : Int, room : BOOLEAN]
    /\ custodian.step = "snapshots" =>
          custodian.keep \in Windows /\ custodian.cutoff <= now - custodian.keep
    /\ custodian.step = "snapshots" /\ backend = "sqlite" /\ custodian.room => custodian.cutoff <= backup
    /\ backup \in 0..MaxNow
HarmInv ==
    /\ harm \in [Key -> {"none", "torn", "mended"}] /\ mishaps \in 0..MaxMishaps
    /\ confirmed \in [Key -> [at : 0..MaxNow, odds : Odds \union {Unknown}]]

LEMMA TablesLater ==
    ASSUME TypeInv, now' \in 0..MaxNow, now <= now', backend' = backend, snaps' \subseteq snaps, prices' \subseteq prices
    PROVE  TablesInv'
<1>1. now \in Int /\ now' \in Int /\ \A r \in snaps : r.at \in Int /\ r.id[1] \in Int
  BY PriceStoreAssumption DEF TypeInv, Snapshots
<1>2. \A r \in prices : r.at \in Int
  BY PriceStoreAssumption DEF TypeInv, ChangePoints
<1> QED BY <1>1, <1>2 DEF TypeInv, TablesInv
LEMMA CareLater ==
    ASSUME TypeInv, now' \in 0..MaxNow, now <= now', backend' = backend, UNCHANGED retentionVars
    PROVE  CareInv'
<1>1. MaxNow \in Nat /\ Windows \subseteq Nat /\ now \in Int /\ now' \in Int
  BY PriceStoreAssumption DEF TypeInv
<1> QED BY <1>1 DEF TypeInv, CareInv, retentionVars

LEMMA ContradictsTyped == ASSUME NEW points PROVE Contradicts(points) \subseteq Key
  BY DEF Contradicts
LEMMA TearTyped ==
    ASSUME TypeInv, NEW keys, Tear(keys)
    PROVE  harm' \in [Key -> {"none", "torn", "mended"}] /\ \A k \in Key : harm'[k] = IF k \in keys THEN "torn" ELSE harm[k]
  BY DEF TypeInv, Tear

\* record_points is called.
Began(p, points) ==
    LET quoted == {points[i].key : i \in DOMAIN points}
        shared == {k \in quoted : Under(k) # {}}
        hurt   == shared \union Contradicts(points)
    IN  /\ pass[p].step = "idle" /\ now' = now + 1 /\ now' \in 1..MaxNow
        /\ shared \subseteq Key /\ hurt \subseteq Key /\ quoted \subseteq Key
        /\ pass' \in [Pass -> Passes]
        /\ pass'[p].step = "begun" /\ pass'[p].at = now + 1 /\ pass'[p].points = points
        /\ pass'[p].todo = <<>> /\ pass'[p].hurt = hurt /\ pass'[p].wrote = {}
        /\ \A q \in Pass : q # p =>
              /\ SamePass(q) /\ pass[q].hurt \subseteq pass'[q].hurt
              /\ pass[q].step = "idle" => pass'[q] = NoPass
              /\ pass'[q].hurt = pass[q].hurt \union (shared \intersect KeysOf(q))
        /\ Tear(hurt) /\ mishaps' \in 0..MaxMishaps
        /\ UNCHANGED <<backend, snaps, prices, retentionVars, confirmed>>
LEMMA BeginIs ==
    ASSUME TypeInv, NEW p \in Pass, Begin(p)
    PROVE  \E points \in Batches : Began(p, points)
<1>1. PICK points \in Batches :
        LET shared == {k \in {points[i].key : i \in DOMAIN points} : Under(k) # {}}
            hurt == shared \union Contradicts(points)
        IN  /\ pass' = [Hurt(shared) EXCEPT ![p] =
                          [NoPass EXCEPT !.step = "begun", !.at = now + 1,
                                         !.points = points, !.hurt = hurt]]
            /\ Tear(hurt)
            /\ mishaps' = mishaps + Cardinality(hurt) /\ mishaps' <= MaxMishaps
  BY Zenon DEF Begin
<1> DEFINE quoted == {points[i].key : i \in DOMAIN points}
           shared == {k \in quoted : Under(k) # {}}
           hurt == shared \union Contradicts(points)
           new == [NoPass EXCEPT !.step = "begun", !.at = now + 1, !.points = points, !.hurt = hurt]
<1>2. quoted \subseteq Key
  BY BatchTyped
<1>3. shared \subseteq Key /\ hurt \subseteq Key
  BY <1>2, ContradictsTyped
<1>4. pass[p].step = "idle" /\ now' = now + 1 /\ now' \in 1..MaxNow
  BY PriceStoreAssumption DEF Begin, TypeInv
<1>5. UNCHANGED <<backend, snaps, prices, retentionVars, confirmed>>
  BY DEF Begin
<1>6. pass' = [Hurt(shared) EXCEPT ![p] = new] /\ Tear(hurt)
  BY <1>1
<1>7. mishaps' \in 0..MaxMishaps
  BY <1>1, <1>3, FewMishaps
<1> HIDE DEF shared, hurt
<1>8. /\ new.step = "begun" /\ new.at = now + 1 /\ new.points = points /\ new.todo = <<>>
      /\ new.hurt = hurt /\ new.wrote = {} /\ new \in Passes
  <2>1. NoPass.todo \in Seq(Writing) /\ NoPass.wrote \in SUBSET Key /\ now + 1 \in 0..MaxNow
    BY <1>4, PriceStoreAssumption DEF NoPass
  <2> QED BY <1>3, <2>1 DEF NoPass, Passes
<1> HIDE DEF new
<1>9. Hurt(shared) \in [Pass -> Passes]
  BY <1>3, HurtTyped
<1>10. pass' \in [Pass -> Passes] /\ pass'[p] = new /\ \A q \in Pass : q # p => pass'[q] = Hurt(shared)[q]
  BY <1>6, <1>8, <1>9
<1>11. ASSUME NEW q \in Pass, q # p
       PROVE  /\ SamePass(q) /\ pass[q].hurt \subseteq pass'[q].hurt
              /\ pass[q].step = "idle" => pass'[q] = NoPass
              /\ pass'[q].hurt = pass[q].hurt \union (shared \intersect KeysOf(q))
  <2>1. pass'[q] = Hurt(shared)[q]
    BY <1>10, <1>11
  <2>2. /\ SamePass(q) /\ pass'[q].hurt = pass[q].hurt \union (shared \intersect KeysOf(q))
        /\ pass[q].step = "idle" => pass'[q] = NoPass
    BY <1>3, <2>1, HurtIs DEF SamePass
  <2> QED BY <2>2
<1>12. Began(p, points)
  BY <1>2, <1>3, <1>4, <1>5, <1>6, <1>7, <1>8, <1>10, <1>11 DEF Began, shared, hurt
<1> QED BY <1>12

LEMMA BeginTypes ==
    ASSUME TypeInv, NEW p \in Pass, Begin(p)
    PROVE  TypeInv'
<1>1. PICK points \in Batches : Began(p, points)
  BY BeginIs
<1>2. /\ pass[p].step = "idle" /\ now' = now + 1 /\ now' \in 1..MaxNow /\ now' \in Nat /\ now \in Nat
      /\ now' \in 0..MaxNow /\ now <= now'
      /\ pass' \in [Pass -> Passes] /\ mishaps' \in 0..MaxMishaps
      /\ pass'[p].step = "begun" /\ pass'[p].at = now + 1 /\ pass'[p].points = points
      /\ pass'[p].todo = <<>> /\ pass'[p].wrote = {}
      /\ UNCHANGED <<backend, snaps, prices, retentionVars, confirmed>>
  BY <1>1, PriceStoreAssumption DEF Began, TypeInv
<1>3. \A q \in Pass : q # p =>
         /\ SamePass(q) /\ pass[q].hurt \subseteq pass'[q].hurt
         /\ pass[q].step = "idle" => pass'[q] = NoPass
  BY <1>1 DEF Began
<1>4. harm' \in [Key -> {"none", "torn", "mended"}]
  BY <1>1, TearTyped DEF Began
<1>5. ASSUME NEW q \in Pass PROVE PassShape(q)'
  <2>1. CASE q = p
    <3>1. DOMAIN <<>> = {}
      OBVIOUS
    <3>2. pass'[q] \in Passes /\ DOMAIN pass'[q].todo = {} /\ points # <<>>
      BY <1>2, <2>1, <3>1, BatchTyped
    <3>3. Contradicts(points) \subseteq pass'[q].hurt
      BY <1>1, <2>1 DEF Began
    <3> QED BY <1>2, <2>1, <3>2, <3>3 DEF PassShape
  <2>2. CASE q # p
    <3>1. pass'[q] \in Passes
      BY <1>2
    <3> QED BY <1>2, <1>3, <2>2, <3>1, SameShape
  <2> QED BY <2>1, <2>2
<1>6. \A x, y \in Busy' : pass'[x].at = pass'[y].at => x = y
  <2>1. \A x \in Busy : pass[x].at \in 1..now
    BY PassIs DEF Busy
  <2>2. \A x \in Busy' : x = p \/ (x \in Busy /\ pass'[x].at = pass[x].at)
    BY <1>3 DEF Busy, SamePass
  <2>3. \A x \in Busy' : x # p => pass'[x].at # now + 1
    BY <1>2, <2>1, <2>2
  <2> QED BY <1>2, <2>2, <2>3, PassesAre DEF PassesInv
<1>7. PassesInv'
  BY <1>2, <1>5, <1>6 DEF PassesInv
<1>8. TablesInv' /\ CareInv'
  <2>1. backend' = backend /\ snaps' \subseteq snaps /\ prices' \subseteq prices /\ UNCHANGED retentionVars
    BY <1>2
  <2>2. TablesInv'
    BY <1>2, <2>1, TablesLater
  <2>3. CareInv'
    BY <1>2, <2>1, CareLater
  <2> QED BY <2>2, <2>3
<1>9. HarmInv'
  BY <1>2, <1>4 DEF HarmInv, TypeInv
<1> QED BY <1>7, <1>8, <1>9 DEF TypeInv, TablesInv, PassesInv, CareInv, HarmInv

\* Both tables are read: the pass is over, or it has something to write.
Loads(p, todo) ==
    /\ todo # <<>>
    /\ pass' = [pass EXCEPT ![p].step = "write", ![p].todo = todo,
                            ![p].wrote = {todo[i].row.key : i \in DOMAIN todo}]
    /\ UNCHANGED <<harm, confirmed>>
LEMMA LoadIs ==
    ASSUME TypeInv, NEW p \in Pass, Load(p)
    PROVE  \E latest \in LatestOdds, targets \in LatestSnapshots :
              LET todo == Writes(pass[p].points, latest, targets, pass[p].at)
              IN  /\ pass[p].step = "begun" /\ pass[p].points \in Batches
                  /\ pass[p].at \in 1..MaxNow /\ pass[p].points \in Seq(Point)
                  /\ UNCHANGED <<now, backend, snaps, prices, retentionVars, mishaps>>
                  /\ (todo = <<>> /\ Return(p, {})) \/ Loads(p, todo)
<1>1. pass[p].step = "begun" /\ UNCHANGED <<now, backend, snaps, prices, retentionVars, mishaps>>
  BY DEF Load
<1>2. pass[p].points \in Batches /\ pass[p].at \in 1..now /\ now \in 0..MaxNow
  BY <1>1, PassIs DEF TypeInv
<1>3. pass[p].at \in 1..MaxNow /\ pass[p].points \in Seq(Point)
  BY <1>2, BatchTyped, PriceStoreAssumption
<1>4. PICK latest \in LatestOdds, targets \in LatestSnapshots :
        LET todo == Writes(pass[p].points, latest, targets, pass[p].at)
        IN  IF todo = <<>> THEN Return(p, {})
            ELSE /\ pass' = [pass EXCEPT ![p].step = "write", ![p].todo = todo,
                                         ![p].wrote = {todo[i].row.key : i \in DOMAIN todo}]
                 /\ UNCHANGED <<harm, confirmed>>
  BY Zenon DEF Load
<1>5. LET todo == Writes(pass[p].points, latest, targets, pass[p].at)
      IN  (todo = <<>> /\ Return(p, {})) \/ Loads(p, todo)
  BY <1>4 DEF Loads
<1> QED BY <1>1, <1>2, <1>3, <1>5

\* What Loads leaves of the pass.
LEMMA LoadsIs ==
    ASSUME TypeInv, NEW p \in Pass, NEW todo \in Seq(Writing), Loads(p, todo),
           \A i \in DOMAIN todo : todo[i].row.key \in Key
    PROVE  /\ pass' \in [Pass -> Passes] /\ \A q \in Pass : q # p => pass'[q] = pass[q]
           /\ pass'[p].step = "write" /\ pass'[p].at = pass[p].at /\ pass'[p].points = pass[p].points
           /\ pass'[p].todo = todo /\ pass'[p].hurt = pass[p].hurt
           /\ pass'[p].wrote = {todo[i].row.key : i \in DOMAIN todo}
           /\ KeysOf(p)' = KeysOf(p)
<1> DEFINE wrote == {todo[i].row.key : i \in DOMAIN todo}
           new == [pass[p] EXCEPT !.step = "write", !.todo = todo, !.wrote = wrote]
<1>1. pass \in [Pass -> Passes] /\ pass[p] \in Passes /\ wrote \in SUBSET Key
  BY DEF TypeInv
<1>2. pass' = [pass EXCEPT ![p] = new]
  BY DEF Loads
<1> HIDE DEF wrote
<1>3. /\ new \in Passes /\ new.step = "write" /\ new.at = pass[p].at /\ new.points = pass[p].points
      /\ new.todo = todo /\ new.hurt = pass[p].hurt /\ new.wrote = wrote
  BY <1>1 DEF Passes
<1> HIDE DEF new
<1>4. pass' \in [Pass -> Passes] /\ pass'[p] = new /\ \A q \in Pass : q # p => pass'[q] = pass[q]
  BY <1>1, <1>2, <1>3
<1>5. KeysOf(p)' = KeysOf(p)
  BY <1>3, <1>4, SameKeys
<1> QED BY <1>3, <1>4, <1>5 DEF wrote

LEMMA LoadTypes ==
    ASSUME TypeInv, NEW p \in Pass, Load(p)
    PROVE  TypeInv'
<1>1. PICK latest \in LatestOdds, targets \in LatestSnapshots :
         LET todo == Writes(pass[p].points, latest, targets, pass[p].at)
         IN  /\ pass[p].step = "begun" /\ pass[p].points \in Batches
             /\ pass[p].at \in 1..MaxNow /\ pass[p].points \in Seq(Point)
             /\ UNCHANGED <<now, backend, snaps, prices, retentionVars, mishaps>>
             /\ (todo = <<>> /\ Return(p, {})) \/ Loads(p, todo)
  BY LoadIs
<1>0. PICK todo : todo = Writes(pass[p].points, latest, targets, pass[p].at)
  OBVIOUS
<1>2. /\ targets \in [Key -> Standings] /\ Found(targets) /\ latest \in [Key -> Odds \union {Unknown}]
      /\ \A k \in Key : \/ Latest(SnapsOf(k)) = {} /\ targets[k].odds = Unknown
                        \/ \E r \in Latest(SnapsOf(k)) : targets[k].id = r.id
  BY LoadReads
<1>10. Together(todo, pass[p].points, targets, pass[p].at)
  BY <1>0, <1>1, <1>2, WritesTogether
<1>3. /\ todo \in Seq(Writing)
      /\ \A i \in DOMAIN todo :
           /\ todo[i].row.at = pass[p].at /\ todo[i].row.key \in Key
           /\ \E j \in DOMAIN pass[p].points : pass[p].points[j].key = todo[i].row.key
           /\ todo[i].kind = "insert" => \E n \in DOMAIN todo : todo[i].row.id = <<pass[p].at, n>>
      /\ \A i, j \in DOMAIN todo : i # j /\ todo[i].kind = "insert" /\ todo[j].kind = "insert" =>
           todo[i].row.id # todo[j].row.id
  BY <1>10 DEF Together
<1>4. now' = now /\ backend' = backend /\ snaps' = snaps /\ prices' = prices /\ UNCHANGED retentionVars /\ mishaps' = mishaps
  BY <1>1
<1>5. now' \in 0..MaxNow /\ now <= now' /\ now' \in Nat /\ snaps' \subseteq snaps /\ prices' \subseteq prices
  BY <1>4 DEF TypeInv
<1>6. TablesInv'
  BY <1>4, <1>5, TablesLater
<1>7. CareInv'
  BY <1>4, <1>5, CareLater
<1>8. CASE Return(p, {})
  <2>1. /\ PassesInv' /\ harm' \in [Key -> {"none", "torn", "mended"}]
        /\ confirmed' \in [Key -> [at : 0..MaxNow, odds : Odds \union {Unknown}]]
    BY <1>1, <1>4, <1>8, ReturnTyped
  <2>2. HarmInv'
    BY <1>4, <2>1 DEF HarmInv, TypeInv
  <2> QED BY <1>6, <1>7, <2>1, <2>2 DEF TypeInv, TablesInv, PassesInv, CareInv, HarmInv
<1>9. CASE Loads(p, todo)
  <2>1. /\ pass' \in [Pass -> Passes] /\ \A q \in Pass : q # p => pass'[q] = pass[q]
        /\ pass'[p].step = "write" /\ pass'[p].at = pass[p].at /\ pass'[p].points = pass[p].points
        /\ pass'[p].todo = todo /\ pass'[p].hurt = pass[p].hurt
        /\ pass'[p].wrote = {todo[i].row.key : i \in DOMAIN todo}
        /\ KeysOf(p)' = KeysOf(p) /\ todo # <<>> /\ harm' = harm /\ confirmed' = confirmed
    <3>1. todo \in Seq(Writing) /\ \A i \in DOMAIN todo : todo[i].row.key \in Key
      BY <1>3
    <3>2. /\ pass' \in [Pass -> Passes] /\ \A q \in Pass : q # p => pass'[q] = pass[q]
          /\ pass'[p].step = "write" /\ pass'[p].at = pass[p].at /\ pass'[p].points = pass[p].points
          /\ pass'[p].todo = todo /\ pass'[p].hurt = pass[p].hurt
          /\ pass'[p].wrote = {todo[i].row.key : i \in DOMAIN todo}
          /\ KeysOf(p)' = KeysOf(p)
      BY <1>9, <3>1, LoadsIs
    <3>3. todo # <<>> /\ harm' = harm /\ confirmed' = confirmed
      BY <1>9 DEF Loads
    <3> QED BY <3>2, <3>3
  <2>2. pass'[p].wrote \subseteq KeysOf(p)'
    BY <1>3, <2>1 DEF KeysOf
  <2>3. ASSUME NEW i \in DOMAIN todo
        PROVE  /\ todo[i].row.at = pass[p].at /\ todo[i].row.key \in pass'[p].wrote
               /\ todo[i].kind = "insert" => todo[i].row.id[1] = pass[p].at
    BY <1>3, <2>1
  <2>4. ASSUME NEW i \in DOMAIN todo, NEW j \in DOMAIN todo, i # j
        PROVE  Distinct(todo[i], todo[j], pass[p].hurt)
    <3> SUFFICES ASSUME todo[i].kind = "change", todo[j].kind = "change",
                        todo[i].row.key = todo[j].row.key, todo[i].row.key \notin pass[p].hurt
                 PROVE  FALSE
      BY <1>3, <2>4 DEF Distinct
    <3> DEFINE k == todo[i].row.key
    <3>1. k \in Key /\ k \notin Contradicts(pass[p].points)
      BY <1>1, <1>3, PassIs
    <3>2. PICK x \in DOMAIN pass[p].points : pass[p].points[x].key = k
      BY <1>3
    <3>3. PICK o \in Odds : o = pass[p].points[x].odds
      BY <1>1, BatchTyped
    <3>4. \A y \in DOMAIN pass[p].points : pass[p].points[y].key = k => pass[p].points[y].odds = o
      BY <3>1, <3>2, <3>3 DEF Contradicts
    <3>5. i \in At(todo, "change", k) /\ j \in At(todo, "change", k) /\ todo[i].row.key = k
      BY <2>4 DEF At
    <3>6. At(todo, "change", k) = {} \/ \E y \in DOMAIN todo : At(todo, "change", k) = {y}
      <4> HIDE DEF k
      <4>1. \/ \A y \in DOMAIN todo : todo[y].row.key # k
            \/ IF latest[k] = o THEN At(todo, "change", k) = {}
               ELSE \E y \in DOMAIN todo : At(todo, "change", k) = {y}
        <5>1. WhatFor(todo, latest, targets, pass[p].at, k, o)
          BY <1>0, <1>1, <1>2, <3>1, <3>2, <3>4, WritesFor
        <5> QED BY <5>1 DEF WhatFor
      <4> QED BY <3>5, <4>1
    <3> QED BY <2>4, <3>5, <3>6
  <2>5. PassShape(p)'
    <3>1. pass'[p] \in Passes /\ Contradicts(pass[p].points) \subseteq pass[p].hurt /\ pass[p].at \in 1..now
      BY <1>1, <2>1, PassIs
    <3> QED BY <1>1, <1>4, <2>1, <2>2, <2>3, <2>4, <3>1 DEF PassShape
  <2>6. PassesInv'
    BY <1>1, <1>4, <1>5, <2>1, <2>5, OneMoves
  <2>7. HarmInv'
    BY <1>4, <2>1 DEF HarmInv, TypeInv
  <2> QED BY <1>6, <1>7, <2>6, <2>7 DEF TypeInv, TablesInv, PassesInv, CareInv, HarmInv
<1> QED BY <1>0, <1>1, <1>8, <1>9

\* A write is committed, and the pass goes on or is over.
Put(w) ==
    /\ w \in Writing
    /\ \/ w.kind = "insert" /\ w.row \in Snapshots /\ snaps' = snaps \union {w.row} /\ prices' = prices
       \/ w.kind = "refresh" /\ w.row \in Snapshots /\ snaps' = Refreshed(w.row) /\ prices' = prices
       \/ w.kind = "change" /\ w.row \in ChangePoints /\ snaps' = snaps /\ prices' = Appended(w.row)
GoesOn(p, w) ==
    /\ pass' \in [Pass -> Passes] /\ \A q \in Pass : q # p => pass'[q] = pass[q]
    /\ pass'[p].step = "write" /\ pass'[p].at = pass[p].at /\ pass'[p].points = pass[p].points
    /\ pass'[p].hurt = pass[p].hurt /\ pass'[p].wrote = pass[p].wrote /\ KeysOf(p)' = KeysOf(p)
    /\ pass'[p].todo = Tail(pass[p].todo) /\ pass'[p].todo # <<>>
    /\ Todo(p) = Todo(p)' \union {w}
    /\ \A v \in Todo(p)' : Distinct(w, v, pass[p].hurt)
    /\ harm' = harm /\ confirmed' = confirmed
LEMMA CommitIs ==
    ASSUME TypeInv, NEW p \in Pass, Commit(p)
    PROVE  \E w \in Todo(p) :
              /\ w.row.at = pass[p].at /\ w.row.key \in pass[p].wrote
              /\ w.kind = "insert" => w.row.id[1] = pass[p].at
              /\ Put(w)
              /\ GoesOn(p, w) \/ (Return(p, pass[p].wrote) /\ Todo(p) = {w})
              /\ pass[p].step = "write" /\ UNCHANGED <<now, backend, retentionVars, mishaps>>
<1> DEFINE todo == pass[p].todo
           w == Head(todo)
<1>1. pass[p].step = "write" /\ UNCHANGED <<now, backend, retentionVars, mishaps>>
  BY DEF Commit
<1>2. PassShape(p) /\ todo \in Seq(Writing) /\ pass[p] \in Passes /\ pass \in [Pass -> Passes]
  BY PassIs DEF TypeInv
<1>3. todo # <<>>
  BY <1>1, <1>2 DEF PassShape
<1>4. /\ w \in Writing /\ todo[1] = w /\ 1 \in DOMAIN todo /\ Tail(todo) \in Seq(Writing)
      /\ \A i \in DOMAIN Tail(todo) : i + 1 \in DOMAIN todo /\ Tail(todo)[i] = todo[i + 1] /\ i + 1 # 1
      /\ \A j \in DOMAIN todo : j = 1 \/ (j - 1 \in DOMAIN Tail(todo) /\ Tail(todo)[j - 1] = todo[j])
      /\ Len(todo) = 1 => \A j \in DOMAIN todo : j = 1
      /\ Len(todo) # 1 => Tail(todo) # <<>>
  <2> HIDE DEF todo
  <2> QED BY <1>2, <1>3, TailIs
<1>5. w \in Todo(p)
  BY <1>4 DEF Todo
<1>6. /\ w.row.at = pass[p].at /\ w.row.key \in pass[p].wrote
      /\ w.kind = "insert" => w.row.id[1] = pass[p].at
  <2> HIDE DEF w
  <2> QED BY <1>2, <1>4 DEF PassShape
<1>7. Put(w)
  <2>1. /\ snaps' = CASE w.kind = "insert"  -> snaps \union {w.row}
                      [] w.kind = "refresh" -> Refreshed(w.row)
                      [] w.kind = "change"  -> snaps
        /\ prices' = IF w.kind = "change" THEN Appended(w.row) ELSE prices
    BY DEF Commit
  <2> HIDE DEF w
  <2>2. CASE w \in [kind : {"insert", "refresh"}, row : Snapshots]
    <3>1. w.kind \in {"insert", "refresh"} /\ w.row \in Snapshots
      BY <2>2
    <3> QED BY <1>4, <2>1, <3>1 DEF Put
  <2>3. CASE w \in [kind : {"change"}, row : ChangePoints]
    <3>1. w.kind = "change" /\ w.row \in ChangePoints
      BY <2>3
    <3> QED BY <1>4, <2>1, <3>1 DEF Put
  <2> QED BY <1>4, <2>2, <2>3 DEF Writing
<1>8. CASE Len(todo) = 1
  <2>1. Return(p, pass[p].wrote)
    BY <1>8 DEF Commit
  <2>2. Todo(p) = {w}
    BY <1>4, <1>8 DEF Todo
  <2> QED BY <1>1, <1>5, <1>6, <1>7, <2>1, <2>2
<1>9. CASE Len(todo) # 1
  <2>1. pass' = [pass EXCEPT ![p] = [pass[p] EXCEPT !.todo = Tail(todo)]] /\ harm' = harm /\ confirmed' = confirmed
    BY <1>9 DEF Commit
  <2> DEFINE new == [pass[p] EXCEPT !.todo = Tail(todo)]
  <2>2. /\ new \in Passes /\ new.step = pass[p].step /\ new.at = pass[p].at /\ new.points = pass[p].points
        /\ new.hurt = pass[p].hurt /\ new.wrote = pass[p].wrote /\ new.todo = Tail(todo)
    <3> HIDE DEF todo
    <3> QED BY <1>2, <1>4 DEF Passes
  <2> HIDE DEF new
  <2>3. pass' \in [Pass -> Passes] /\ pass'[p] = new /\ \A q \in Pass : q # p => pass'[q] = pass[q]
    BY <1>2, <2>1, <2>2 DEF new
  <2>4. Todo(p)' = {Tail(todo)[i] : i \in DOMAIN Tail(todo)}
    BY <2>2, <2>3 DEF Todo
  <2>5. KeysOf(p)' = KeysOf(p)
    BY <2>2, <2>3, SameKeys
  <2>6. Todo(p) = Todo(p)' \union {w}
    <3>1. Todo(p) = {todo[i] : i \in DOMAIN todo}
      BY DEF Todo
    <3> HIDE DEF todo, w
    <3>2. ASSUME NEW x \in Todo(p) PROVE x \in Todo(p)' \union {w}
      <4>1. PICK j \in DOMAIN todo : x = todo[j]
        BY <3>1
      <4>2. CASE j = 1
        BY <1>4, <4>1, <4>2
      <4>3. CASE j # 1
        BY <1>4, <2>4, <4>1, <4>3
      <4> QED BY <4>2, <4>3
    <3>3. ASSUME NEW x \in Todo(p)' PROVE x \in Todo(p)
      <4>1. PICK i \in DOMAIN Tail(todo) : x = Tail(todo)[i]
        BY <2>4
      <4> QED BY <1>4, <3>1, <4>1
    <3>4. w \in Todo(p)
      BY <1>4, <3>1
    <3> QED BY <3>2, <3>3, <3>4
  <2>7. ASSUME NEW v \in Todo(p)' PROVE Distinct(w, v, pass[p].hurt)
    <3>1. PICK i \in DOMAIN Tail(todo) : Tail(todo)[i] = v
      BY <2>4
    <3>2. i + 1 \in DOMAIN todo /\ todo[i + 1] = v /\ i + 1 # 1 /\ todo[1] = w /\ 1 \in DOMAIN todo
      BY <1>4, <3>1
    <3>3. \A x, y \in DOMAIN todo : x # y => Distinct(todo[x], todo[y], pass[p].hurt)
      BY <1>2 DEF PassShape
    <3> QED BY <3>2, <3>3
  <2>8. GoesOn(p, w)
    BY <1>1, <1>4, <1>9, <2>1, <2>2, <2>3, <2>5, <2>6, <2>7 DEF GoesOn
  <2> QED BY <1>1, <1>5, <1>6, <1>7, <2>8
<1> QED BY <1>8, <1>9

LEMMA PutTypes ==
    ASSUME TypeInv, NEW w, Put(w), w.row.at <= now, w.kind = "insert" => w.row.id[1] <= now,
           now' = now, backend' = backend
    PROVE  TablesInv'
<1>1. /\ snaps \subseteq Snapshots /\ \A r \in snaps : r.at <= now /\ r.id[1] <= now
      /\ prices \subseteq ChangePoints /\ \A r \in prices : r.at <= now
      /\ now \in 0..MaxNow /\ backend \in {"sqlite", "postgres"}
  BY DEF TypeInv
<1>2. CASE w.kind = "insert"
  <2>1. w.row \in Snapshots /\ snaps' = snaps \union {w.row} /\ prices' = prices
    BY <1>2 DEF Put
  <2> QED BY <1>1, <1>2, <2>1 DEF TablesInv
<1>3. CASE w.kind = "refresh"
  <2>1. w.row \in Snapshots /\ snaps' = Refreshed(w.row) /\ prices' = prices
    BY <1>3 DEF Put
  <2>2. \A r \in snaps' : \E s \in snaps : r = s \/ r = [s EXCEPT !.at = w.row.at]
    BY <2>1 DEF Refreshed
  <2>3. w.row.at \in 1..MaxNow
    BY <2>1 DEF Snapshots
  <2>4. ASSUME NEW s \in snaps
        PROVE  /\ [s EXCEPT !.at = w.row.at] \in Snapshots /\ [s EXCEPT !.at = w.row.at].at = w.row.at
               /\ [s EXCEPT !.at = w.row.at].id = s.id
    <3>1. s \in Snapshots
      BY <1>1
    <3> QED BY <2>3, <3>1 DEF Snapshots
  <2>5. \A r \in snaps' : r \in Snapshots /\ r.at <= now /\ r.id[1] <= now
    BY <1>1, <2>2, <2>4
  <2> QED BY <1>1, <2>1, <2>5 DEF TablesInv
<1>4. CASE w.kind = "change"
  <2>1. w.row \in ChangePoints /\ snaps' = snaps /\ prices' \subseteq prices \union {w.row}
    BY <1>4 DEF Put, Appended
  <2> QED BY <1>1, <2>1 DEF TablesInv
<1> QED BY <1>2, <1>3, <1>4 DEF Put

LEMMA CommitTypes ==
    ASSUME TypeInv, NEW p \in Pass, Commit(p)
    PROVE  TypeInv'
<1>1. PICK w \in Todo(p) :
              /\ w.row.at = pass[p].at /\ w.row.key \in pass[p].wrote
              /\ w.kind = "insert" => w.row.id[1] = pass[p].at
              /\ Put(w)
              /\ GoesOn(p, w) \/ (Return(p, pass[p].wrote) /\ Todo(p) = {w})
              /\ pass[p].step = "write" /\ UNCHANGED <<now, backend, retentionVars, mishaps>>
  BY CommitIs
<1>2. /\ now' = now /\ backend' = backend /\ UNCHANGED retentionVars /\ mishaps' = mishaps
      /\ now \in Nat /\ now' \in 0..MaxNow /\ now <= now' /\ now' \in Nat
  BY <1>1 DEF TypeInv
<1>3. pass[p].at \in 1..now
  BY <1>1, PassIs
<1>4. TablesInv'
  BY <1>1, <1>2, <1>3, PutTypes
<1>5. CareInv'
  BY <1>2, CareLater
<1>6. CASE GoesOn(p, w)
  <2>1. PassShape(p)'
    <3>1. PassShape(p) /\ pass[p].todo \in Seq(Writing) /\ pass[p].todo # <<>>
      BY <1>1, PassIs DEF PassShape
    <3>2. \A i \in DOMAIN Tail(pass[p].todo) :
            i + 1 \in DOMAIN pass[p].todo /\ Tail(pass[p].todo)[i] = pass[p].todo[i + 1] /\ i \in Nat
      BY <3>1, TailIs
    <3>3. /\ pass'[p] \in Passes /\ pass'[p].step = "write" /\ pass[p].step = "write"
          /\ pass'[p].at = pass[p].at /\ pass'[p].points = pass[p].points
          /\ pass'[p].hurt = pass[p].hurt /\ pass'[p].wrote = pass[p].wrote /\ KeysOf(p)' = KeysOf(p)
          /\ pass'[p].todo = Tail(pass[p].todo) /\ pass'[p].todo # <<>>
      BY <1>1, <1>6 DEF GoesOn
    <3>4. \A i \in DOMAIN pass'[p].todo :
            /\ pass'[p].todo[i].row.at = pass[p].at /\ pass'[p].todo[i].row.key \in pass[p].wrote
            /\ pass'[p].todo[i].kind = "insert" => pass'[p].todo[i].row.id[1] = pass[p].at
      BY <3>1, <3>2, <3>3 DEF PassShape
    <3>5. ASSUME NEW i \in DOMAIN pass'[p].todo, NEW j \in DOMAIN pass'[p].todo, i # j
          PROVE  Distinct(pass'[p].todo[i], pass'[p].todo[j], pass[p].hurt)
      <4>1. /\ i + 1 \in DOMAIN pass[p].todo /\ j + 1 \in DOMAIN pass[p].todo /\ i + 1 # j + 1
            /\ pass'[p].todo[i] = pass[p].todo[i + 1] /\ pass'[p].todo[j] = pass[p].todo[j + 1]
        BY <3>2, <3>3, <3>5
      <4> QED BY <3>1, <3>5, <4>1 DEF PassShape
    <3> QED BY <1>2, <3>1, <3>3, <3>4, <3>5 DEF PassShape
  <2>2. /\ pass' \in [Pass -> Passes] /\ \A q \in Pass : q # p => pass'[q] = pass[q]
        /\ pass'[p].at = pass[p].at /\ harm' = harm /\ confirmed' = confirmed
    BY <1>6 DEF GoesOn
  <2>3. PassesInv'
    BY <1>1, <1>2, <2>1, <2>2, OneMoves
  <2>4. HarmInv'
    BY <1>2, <2>2 DEF HarmInv, TypeInv
  <2> QED BY <1>4, <1>5, <2>3, <2>4 DEF TypeInv, TablesInv, PassesInv, CareInv, HarmInv
<1>7. CASE Return(p, pass[p].wrote)
  <2>1. /\ PassesInv' /\ harm' \in [Key -> {"none", "torn", "mended"}]
        /\ confirmed' \in [Key -> [at : 0..MaxNow, odds : Odds \union {Unknown}]]
    BY <1>1, <1>2, <1>7, ReturnTyped
  <2>2. HarmInv'
    BY <1>2, <2>1 DEF HarmInv, TypeInv
  <2> QED BY <1>4, <1>5, <2>1, <2>2 DEF TypeInv, TablesInv, PassesInv, CareInv, HarmInv
<1> QED BY <1>1, <1>6, <1>7

LEMMA DieIs ==
    ASSUME TypeInv, NEW p \in Pass, Die(p)
    PROVE  /\ pass[p].step = "write" /\ mishaps' \in 0..MaxMishaps /\ Tear(pass[p].wrote)
           /\ confirmed' = [k \in Key |-> IF k \in KeysOf(p) THEN NeverConfirmed ELSE confirmed[k]]
           /\ pass' \in [Pass -> Passes] /\ pass'[p] = NoPass /\ \A q \in Pass : q # p => pass'[q] = pass[q]
           /\ PassesInv' /\ UNCHANGED <<now, backend, snaps, prices, retentionVars>>
<1>1. /\ pass[p].step = "write" /\ mishaps' = mishaps + 1 /\ mishaps < MaxMishaps /\ Tear(pass[p].wrote)
      /\ confirmed' = [k \in Key |-> IF k \in KeysOf(p) THEN NeverConfirmed ELSE confirmed[k]]
      /\ pass' = [pass EXCEPT ![p] = NoPass]
      /\ UNCHANGED <<now, backend, snaps, prices, retentionVars>>
  BY DEF Die
<1>2. /\ pass \in [Pass -> Passes] /\ now \in Nat /\ now' \in Nat /\ now <= now'
      /\ mishaps' \in 0..MaxMishaps
  BY <1>1, PriceStoreAssumption DEF TypeInv
<1>3. pass'[p] = NoPass /\ (\A q \in Pass : q # p => pass'[q] = pass[q])
  BY <1>1, <1>2
<1>4. PassShape(p)' /\ NoPass \in Passes /\ NoPass.step = "idle"
  BY <1>3, IdleShape
<1>5. pass' \in [Pass -> Passes]
  BY <1>1, <1>2, <1>4
<1>6. PassesInv'
  BY <1>2, <1>3, <1>4, <1>5, OneMoves
<1> QED BY <1>1, <1>2, <1>3, <1>5, <1>6

LEMMA DieTypes ==
    ASSUME TypeInv, NEW p \in Pass, Die(p)
    PROVE  TypeInv'
<1>1. /\ mishaps' \in 0..MaxMishaps /\ Tear(pass[p].wrote)
      /\ confirmed' = [k \in Key |-> IF k \in KeysOf(p) THEN NeverConfirmed ELSE confirmed[k]]
      /\ PassesInv'
      /\ now' = now /\ backend' = backend /\ snaps' \subseteq snaps /\ prices' \subseteq prices /\ UNCHANGED retentionVars
  BY DieIs
<1>2. now' \in 0..MaxNow /\ now <= now'
  BY <1>1 DEF TypeInv
<1>3. NeverConfirmed \in [at : 0..MaxNow, odds : Odds \union {Unknown}]
  BY PriceStoreAssumption DEF NeverConfirmed
<1>4. HarmInv'
  <2>1. harm' \in [Key -> {"none", "torn", "mended"}]
    BY <1>1, TearTyped
  <2>2. confirmed' \in [Key -> [at : 0..MaxNow, odds : Odds \union {Unknown}]]
    BY <1>1, <1>3 DEF TypeInv
  <2> QED BY <1>1, <2>1, <2>2 DEF HarmInv
<1>5. TablesInv'
  BY <1>1, <1>2, TablesLater
<1>6. CareInv'
  BY <1>1, <1>2, CareLater
<1> QED BY <1>1, <1>4, <1>5, <1>6 DEF TypeInv, TablesInv, PassesInv, CareInv, HarmInv

\* A prune takes rows of a table, and hurts the keys it disturbs.
Pruned(keys) ==
    /\ keys \subseteq Key /\ pass' = Hurt(keys) /\ Tear(keys) /\ mishaps' \in 0..MaxMishaps
    /\ UNCHANGED <<now, backend, retentionVars, confirmed>>
LEMMA PruneSnapshotsIs ==
    ASSUME TypeInv, PruneSnapshots
    PROVE  /\ custodian.step = "snapshots"
           /\ \E gone \in SUBSET {r \in snaps : r.at < custodian.cutoff} :
                 snaps' = snaps \ gone /\ prices' = prices /\ Pruned(DisturbedBy(gone, snaps))
<1>1. PICK gone \in SUBSET {r \in snaps : r.at < custodian.cutoff} :
        LET keys == DisturbedBy(gone, snaps)
        IN  /\ gone # {}
            /\ snaps' = snaps \ gone
            /\ pass' = Hurt(keys)
            /\ Tear(keys)
            /\ mishaps' = mishaps + Cardinality(keys) /\ mishaps' <= MaxMishaps
  BY DEF PruneSnapshots
<1>2. DisturbedBy(gone, snaps) \subseteq Key
  BY DEF DisturbedBy
<1>3. mishaps' \in 0..MaxMishaps
  BY <1>1, <1>2, FewMishaps
<1>4. /\ custodian.step = "snapshots" /\ prices' = prices
      /\ UNCHANGED <<now, backend, retentionVars, confirmed>>
  BY DEF PruneSnapshots
<1>5. Pruned(DisturbedBy(gone, snaps))
  BY <1>1, <1>2, <1>3, <1>4 DEF Pruned
<1> QED BY <1>1, <1>4, <1>5
LEMMA PrunePricesIs ==
    ASSUME TypeInv, PrunePrices
    PROVE  \E gone \in SUBSET prices :
                 snaps' = snaps /\ prices' = prices \ gone /\ Pruned(DisturbedBy(gone, prices))
<1>1. PICK gone \in SUBSET {r \in prices : r.at < custodian.cutoff} :
        LET keys == DisturbedBy(gone, prices)
        IN  /\ gone # {}
            /\ prices' = prices \ gone
            /\ pass' = Hurt(keys)
            /\ Tear(keys)
            /\ mishaps' = mishaps + Cardinality(keys) /\ mishaps' <= MaxMishaps
  BY DEF PrunePrices
<1>2. DisturbedBy(gone, prices) \subseteq Key
  BY DEF DisturbedBy
<1>3. mishaps' \in 0..MaxMishaps
  BY <1>1, <1>2, FewMishaps
<1>4. snaps' = snaps /\ UNCHANGED <<now, backend, retentionVars, confirmed>>
  BY DEF PrunePrices
<1>5. Pruned(DisturbedBy(gone, prices))
  BY <1>1, <1>2, <1>3, <1>4 DEF Pruned
<1> QED BY <1>1, <1>4, <1>5

LEMMA PrunedTypes ==
    ASSUME TypeInv, NEW keys, Pruned(keys), snaps' \subseteq snaps, prices' \subseteq prices
    PROVE  TypeInv'
<1>1. /\ keys \subseteq Key /\ pass' = Hurt(keys) /\ Tear(keys) /\ mishaps' \in 0..MaxMishaps
      /\ now' = now /\ backend' = backend /\ UNCHANGED retentionVars /\ confirmed' = confirmed
  BY DEF Pruned
<1>2. now' \in 0..MaxNow /\ now <= now'
  BY <1>1 DEF TypeInv
<1>3. PassesInv'
  BY <1>1, AllHurt
<1>4. HarmInv'
  BY <1>1, TearTyped DEF HarmInv, TypeInv
<1>5. TablesInv'
  BY <1>1, <1>2, TablesLater
<1>6. CareInv'
  BY <1>1, <1>2, CareLater
<1> QED BY <1>3, <1>4, <1>5, <1>6 DEF TypeInv, TablesInv, PassesInv, CareInv, HarmInv

\* What leaves the passes alone.
Elsewhere == UNCHANGED <<backend, snaps, prices, pass, harm, confirmed, mishaps>> /\ now' \in 0..MaxNow /\ now <= now'
LEMMA ElsewhereTypes ==
    ASSUME TypeInv, Elsewhere, CareInv'
    PROVE  TypeInv'
<1>1. /\ backend' = backend /\ snaps' \subseteq snaps /\ prices' \subseteq prices /\ pass' = pass /\ harm' = harm
      /\ confirmed' = confirmed /\ mishaps' = mishaps /\ now' \in 0..MaxNow /\ now <= now' /\ now' \in Nat
  BY DEF Elsewhere
<1>2. ASSUME NEW q \in Pass PROVE PassShape(q)'
  <2>1. pass'[q] = pass[q] /\ pass[q] \in Passes /\ (pass[q].step = "idle" => pass[q] = NoPass)
    BY <1>1, PassIs
  <2> QED BY <1>1, <2>1, SameShape DEF SamePass
<1>3. PassesInv'
  BY <1>1, <1>2, PassesAre DEF PassesInv, Busy
<1>4. HarmInv'
  BY <1>1 DEF HarmInv, TypeInv
<1>5. TablesInv'
  BY <1>1, TablesLater
<1> QED BY <1>3, <1>4, <1>5 DEF TypeInv, TablesInv, PassesInv, CareInv, HarmInv

LEMMA CareTypes ==
    ASSUME TypeInv, BackUpAndPrune \/ PrunePostgres \/ SnapshotsDone \/ PricesDone \/ Wait
    PROVE  Elsewhere /\ CareInv'
<1>1. /\ now \in 0..MaxNow /\ now \in Nat /\ backup \in 0..MaxNow /\ BackupEvery \in Nat /\ KeepPrices \in Nat
      /\ Windows \subseteq Nat /\ MaxNow \in Nat /\ \A w \in Windows : w \in Nat /\ BackupEvery <= w
      /\ custodian \in [step : {"idle", "snapshots", "prices"}, keep : Nat, cutoff : Int, room : BOOLEAN]
  BY PriceStoreAssumption DEF TypeInv
<1>2. /\ NoRun \in [step : {"idle", "snapshots", "prices"}, keep : Nat, cutoff : Int, room : BOOLEAN]
      /\ NoRun.step = "idle" /\ NoRun.room = FALSE
  BY DEF NoRun
<1>3. CASE BackUpAndPrune
  <2>1. /\ backend = "sqlite" /\ UNCHANGED <<now, backend, snaps, prices, pass, harm, confirmed, mishaps>>
    BY <1>3 DEF BackUpAndPrune
  <2>2. PICK keep \in Windows, room \in BOOLEAN :
        /\ custodian' = [step |-> "snapshots", keep |-> keep, cutoff |-> now - keep, room |-> ~BackupDue \/ room]
        /\ backup' = IF BackupDue /\ room THEN now ELSE backup
    BY <1>3 DEF BackUpAndPrune
  <2>3. /\ custodian'.step = "snapshots" /\ custodian'.keep = keep /\ custodian'.cutoff = now - keep
        /\ custodian'.room = (~BackupDue \/ room)
        /\ custodian' \in [step : {"idle", "snapshots", "prices"}, keep : Nat, cutoff : Int, room : BOOLEAN]
    BY <1>1, <2>2
  <2>4. custodian'.room => custodian'.cutoff <= backup'
    <3>1. CASE BackupDue
      BY <1>1, <2>2, <2>3, <3>1
    <3>2. CASE ~BackupDue
      <4>1. now - backup <= BackupEvery /\ BackupEvery <= keep /\ keep \in Nat
        BY <1>1, <3>2 DEF BackupDue
      <4> QED BY <1>1, <2>2, <2>3, <3>2, <4>1
    <3> QED BY <3>1, <3>2
  <2>5. backup' \in 0..MaxNow
    BY <1>1, <2>2
  <2>6. CareInv'
    BY <1>1, <2>1, <2>3, <2>4, <2>5 DEF CareInv
  <2> QED BY <1>1, <2>1, <2>6 DEF Elsewhere
<1>4. CASE PrunePostgres
  <2>1. /\ backend = "postgres" /\ UNCHANGED <<now, backend, snaps, prices, pass, backup, harm, confirmed, mishaps>>
    BY <1>4, Zenon DEF PrunePostgres
  <2>2. PICK keep \in Windows :
        custodian' = [NoRun EXCEPT !.step = "snapshots", !.keep = keep, !.cutoff = now - keep]
    BY <1>4, Zenon DEF PrunePostgres
  <2>3. /\ custodian'.step = "snapshots" /\ custodian'.keep = keep /\ custodian'.cutoff = now - keep
        /\ custodian' \in [step : {"idle", "snapshots", "prices"}, keep : Nat, cutoff : Int, room : BOOLEAN]
    <3>1. now - keep \in Int /\ keep \in Nat
      BY <1>1
    <3> QED BY <1>2, <2>2, <3>1
  <2>4. CareInv'
    BY <1>1, <2>1, <2>3 DEF CareInv
  <2> QED BY <1>1, <2>1, <2>4 DEF Elsewhere
<1>5. CASE SnapshotsDone
  <2>1. UNCHANGED <<now, backend, snaps, prices, pass, backup, harm, confirmed, mishaps>>
    BY <1>5 DEF SnapshotsDone
  <2>2. PricesCutoff \in Int
    BY <1>1 DEF PricesCutoff
  <2>3. custodian' = IF backend = "postgres"
                     THEN [custodian EXCEPT !.step = "prices", !.cutoff = PricesCutoff] ELSE NoRun
    BY <1>5 DEF SnapshotsDone
  <2>4. /\ custodian'.step # "snapshots"
        /\ custodian' \in [step : {"idle", "snapshots", "prices"}, keep : Nat, cutoff : Int, room : BOOLEAN]
    BY <1>1, <1>2, <2>2, <2>3
  <2>5. CareInv'
    BY <1>1, <2>1, <2>4 DEF CareInv
  <2> QED BY <1>1, <2>1, <2>5 DEF Elsewhere
<1>6. CASE PricesDone
  <2>1. UNCHANGED <<now, backend, snaps, prices, pass, backup, harm, confirmed, mishaps>> /\ custodian' = NoRun
    BY <1>6 DEF PricesDone
  <2>2. CareInv'
    BY <1>1, <1>2, <2>1 DEF CareInv
  <2> QED BY <1>1, <2>1, <2>2 DEF Elsewhere
<1>7. CASE Wait
  <2>1. /\ UNCHANGED <<backend, snaps, prices, pass, retentionVars, harm, confirmed, mishaps>>
        /\ now' \in 0..MaxNow /\ now <= now'
    BY <1>1, <1>7 DEF Wait
  <2>2. CareInv'
    BY <2>1, CareLater
  <2> QED BY <2>1, <2>2 DEF Elsewhere
<1> QED BY <1>3, <1>4, <1>5, <1>6, <1>7

LEMMA InitTypes == Init => TypeInv
<1> SUFFICES ASSUME Init PROVE TypeInv
  OBVIOUS
<1>1. /\ now = 0 /\ backend \in {"sqlite", "postgres"} /\ snaps = {} /\ prices = {}
      /\ pass = [p \in Pass |-> NoPass] /\ custodian = NoRun /\ backup = 0
      /\ harm = [k \in Key |-> "none"] /\ confirmed = [k \in Key |-> NeverConfirmed] /\ mishaps = 0
  BY DEF Init
<1>2. MaxNow \in Nat /\ MaxMishaps \in Nat
  BY PriceStoreAssumption
<1>3. /\ NoPass.step = "idle" /\ NoPass.at = 0 /\ NoPass.points = <<>> /\ NoPass.todo = <<>>
      /\ NoPass.hurt = {} /\ NoPass.wrote = {} /\ NoPass \in Passes
  BY <1>2 DEF NoPass, Passes
<1>4. DOMAIN NoPass.todo = {}
  BY <1>3
<1>5. \A p \in Pass : PassShape(p)
  BY <1>1, <1>3, <1>4 DEF PassShape
<1>6. Busy = {}
  BY <1>1, <1>3 DEF Busy
<1>7. NeverConfirmed \in [at : 0..MaxNow, odds : Odds \union {Unknown}]
  BY <1>2 DEF NeverConfirmed
<1>8. /\ custodian \in [step : {"idle", "snapshots", "prices"}, keep : Nat, cutoff : Int, room : BOOLEAN]
      /\ custodian.step = "idle"
  BY <1>1 DEF NoRun
<1> QED BY <1>1, <1>2, <1>3, <1>5, <1>6, <1>7, <1>8 DEF TypeInv

(***************************************************************************)
(* Row ids                                                                 *)
(***************************************************************************)

LEMMA TodoIs ==
    ASSUME TypeInv, NEW p \in Pass, NEW w \in Todo(p)
    PROVE  /\ w \in Writing /\ w.row.at = pass[p].at /\ w.row.key \in pass[p].wrote /\ p \in Busy
           /\ w.kind = "insert" => w.row.id[1] = pass[p].at /\ w.row \in Snapshots
           /\ w.kind = "refresh" => w.row.id[1] \in Int /\ w.row \in Snapshots
           /\ w.kind = "change" => w.row \in ChangePoints
           /\ w.kind \in {"insert", "refresh", "change"} /\ w.row.key \in Key
<1>1. PassShape(p) /\ pass[p].todo \in Seq(Writing) /\ (pass[p].step = "idle" => pass[p] = NoPass)
  BY PassIs
<1>2. PICK i \in DOMAIN pass[p].todo : w = pass[p].todo[i]
  BY DEF Todo
<1>3. w \in Writing
  BY <1>1, <1>2
<1>4. /\ w.row.at = pass[p].at /\ w.row.key \in pass[p].wrote
      /\ w.kind = "insert" => w.row.id[1] = pass[p].at
  BY <1>1, <1>2 DEF PassShape
<1>5. p \in Busy
  <2>1. DOMAIN NoPass.todo = {}
    BY DEF NoPass
  <2> QED BY <1>1, <1>2, <2>1 DEF Busy
<1>6. /\ w.kind \in {"insert", "refresh"} => w.row \in Snapshots
      /\ w.kind = "change" => w.row \in ChangePoints
      /\ w.kind \in {"insert", "refresh", "change"}
  <2>1. CASE w \in [kind : {"insert", "refresh"}, row : Snapshots]
    BY <2>1
  <2>2. CASE w \in [kind : {"change"}, row : ChangePoints]
    BY <2>2
  <2> QED BY <1>3, <2>1, <2>2 DEF Writing
<1>7. w.row.key \in Key
  BY <1>6 DEF Snapshots, ChangePoints
<1>8. w.row \in Snapshots => w.row.id[1] \in Int
  BY PriceStoreAssumption DEF Snapshots
<1> QED BY <1>3, <1>4, <1>5, <1>6, <1>7, <1>8

\* Rows keep their ids, and passes have no more to write.
RowsKept ==
    /\ \A s \in snaps' : \E r \in snaps : r.id = s.id /\ r.key = s.key
    /\ \A r, s \in snaps' : r.id = s.id => r = s
LEMMA IdsKept ==
    ASSUME TypeInv, IdInv, RowsKept, now' \in Int, now <= now',
           \A q \in Busy' : /\ q \in Busy /\ pass'[q].at = pass[q].at /\ Todo(q)' \subseteq Todo(q)
                            /\ pass'[q].step = "begun" => pass[q].step = "begun"
    PROVE  IdInv'
<1>1. Busy \subseteq Pass /\ now \in Int
  BY DEF Busy, TypeInv
<1>2. ASSUME NEW q \in Busy', NEW w \in Todo(q)'
      PROVE  /\ w.kind = "insert" => \A s \in snaps' : s.id # w.row.id
             /\ w.kind = "insert" => \A x \in Busy' : \A v \in Todo(x)' : v.kind = "refresh" => v.row.id # w.row.id
             /\ w.kind = "refresh" => \A s \in snaps' : s.id = w.row.id => s.key = w.row.key
             /\ w.kind = "refresh" => w.row.id[1] <= now'
  <2>1. q \in Busy /\ w \in Todo(q)
    BY <1>2
  <2>2. w.kind = "refresh" => w.row.id[1] \in Int
    BY <1>1, <2>1, TodoIs
  <2> QED BY <1>1, <2>1, <2>2 DEF IdInv, RowsKept
<1>3. ASSUME NEW q \in Busy', pass'[q].step = "begun"
      PROVE  /\ \A s \in snaps' : s.id[1] # pass'[q].at
             /\ \A x \in Busy' : \A v \in Todo(x)' : v.kind = "refresh" => v.row.id[1] # pass'[q].at
  BY <1>3 DEF IdInv, RowsKept
<1> QED BY <1>2, <1>3 DEF IdInv, RowsKept

LEMMA BeginIds ==
    ASSUME TypeInv, IdInv, NEW p \in Pass, Begin(p)
    PROVE  IdInv'
<1>1. PICK points \in Batches : Began(p, points)
  BY BeginIs
<1>2. /\ pass[p].step = "idle" /\ now' = now + 1 /\ now \in Nat /\ snaps' = snaps
      /\ pass'[p].step = "begun" /\ pass'[p].at = now + 1 /\ pass'[p].todo = <<>>
  BY <1>1 DEF Began, TypeInv
<1>3. \A q \in Pass : q # p => SamePass(q)
  BY <1>1 DEF Began
<1>4. Todo(p)' = {}
  <2>1. DOMAIN <<>> = {}
    OBVIOUS
  <2> QED BY <1>2, <2>1 DEF Todo
<1>5. \A q \in Busy' : q = p \/ (q \in Busy /\ q # p /\ Todo(q)' = Todo(q) /\ pass'[q].at = pass[q].at
                                 /\ pass'[q].step = pass[q].step)
  BY <1>2, <1>3 DEF Busy, Todo, SamePass
<1>6. \A q \in Busy : \A v \in Todo(q) : v.kind = "refresh" => v.row.id[1] \in Int /\ v.row.id[1] <= now
  <2>1. \A q \in Busy : \A v \in Todo(q) : v.kind = "refresh" => v.row.id[1] \in Int
    BY TodoIs DEF Busy
  <2> QED BY <2>1 DEF IdInv
<1>7. \A s \in snaps : s.id[1] \in Int /\ s.id[1] <= now
  BY PriceStoreAssumption DEF TypeInv, Snapshots
<1>8. ASSUME NEW q \in Busy', NEW w \in Todo(q)'
      PROVE  /\ w.kind = "insert" => \A s \in snaps' : s.id # w.row.id
             /\ w.kind = "insert" => \A x \in Busy' : \A v \in Todo(x)' : v.kind = "refresh" => v.row.id # w.row.id
             /\ w.kind = "refresh" => \A s \in snaps' : s.id = w.row.id => s.key = w.row.key
             /\ w.kind = "refresh" => w.row.id[1] <= now'
  <2>1. q \in Busy /\ w \in Todo(q)
    BY <1>4, <1>5, <1>8
  <2>2. \A x \in Busy' : \A v \in Todo(x)' : x \in Busy /\ v \in Todo(x)
    BY <1>4, <1>5
  <2>3. w.kind = "refresh" => w.row.id[1] <= now'
    BY <1>2, <1>6, <2>1
  <2> QED BY <1>2, <2>1, <2>2, <2>3 DEF IdInv
<1>9. ASSUME NEW q \in Busy', pass'[q].step = "begun"
      PROVE  /\ \A s \in snaps' : s.id[1] # pass'[q].at
             /\ \A x \in Busy' : \A v \in Todo(x)' : v.kind = "refresh" => v.row.id[1] # pass'[q].at
  <2>1. \A x \in Busy' : \A v \in Todo(x)' : x \in Busy /\ v \in Todo(x)
    BY <1>4, <1>5
  <2>2. CASE q = p
    BY <1>2, <1>6, <1>7, <2>1, <2>2
  <2>3. CASE q # p
    BY <1>2, <1>5, <1>9, <2>1, <2>3 DEF IdInv
  <2> QED BY <2>2, <2>3
<1>10. \A r, s \in snaps' : r.id = s.id => r = s
  BY <1>2 DEF IdInv
<1> QED BY <1>8, <1>9, <1>10 DEF IdInv

LEMMA SameTodo == ASSUME NEW q, pass'[q].todo = pass[q].todo PROVE Todo(q)' = Todo(q)
  BY DEF Todo
LEMMA SameRows == IdInv /\ snaps' \subseteq snaps => RowsKept
  BY DEF IdInv, RowsKept

LEMMA OverIds ==
    ASSUME TypeInv, IdInv, NEW p \in Pass, pass'[p] = NoPass, \A q \in Pass : q # p => pass'[q] = pass[q],
           RowsKept, now' = now
    PROVE  IdInv'
<1>1. now' \in Int /\ now <= now'
  BY DEF TypeInv
<1>2. NoPass.step = "idle"
  BY DEF NoPass
<1>3. \A q \in Busy' : /\ q \in Busy /\ pass'[q].at = pass[q].at /\ Todo(q)' \subseteq Todo(q)
                       /\ pass'[q].step = "begun" => pass[q].step = "begun"
  BY <1>2, SameTodo DEF Busy
<1> QED BY <1>1, <1>3, IdsKept

LEMMA LoadIds ==
    ASSUME TypeInv, IdInv, NEW p \in Pass, Load(p)
    PROVE  IdInv'
<1>1. PICK latest \in LatestOdds, targets \in LatestSnapshots :
         LET todo == Writes(pass[p].points, latest, targets, pass[p].at)
         IN  /\ pass[p].step = "begun" /\ pass[p].points \in Batches
             /\ pass[p].at \in 1..MaxNow /\ pass[p].points \in Seq(Point)
             /\ UNCHANGED <<now, backend, snaps, prices, retentionVars, mishaps>>
             /\ (todo = <<>> /\ Return(p, {})) \/ Loads(p, todo)
  BY LoadIs
<1>2. PICK todo : todo = Writes(pass[p].points, latest, targets, pass[p].at)
  OBVIOUS
<1>3. /\ targets \in [Key -> Standings] /\ Found(targets) /\ latest \in [Key -> Odds \union {Unknown}]
      /\ \A k \in Key : \/ targets[k].odds = Unknown
                        \/ \E r \in Latest(SnapsOf(k)) : targets[k].id = r.id
  BY LoadReads
<1>4. Together(todo, pass[p].points, targets, pass[p].at)
  BY <1>1, <1>2, <1>3, WritesTogether
<1>5. now' = now /\ snaps' = snaps
  BY <1>1
<1>6. CASE Return(p, {})
  <2>1. pass'[p] = NoPass /\ \A q \in Pass : q # p => pass'[q] = pass[q]
    BY <1>1, <1>5, <1>6, ReturnTyped
  <2>2. RowsKept
    BY <1>5, SameRows
  <2> QED BY <1>5, <2>1, <2>2, OverIds
<1>7. CASE Loads(p, todo)
  <2>1. /\ \A q \in Pass : q # p => pass'[q] = pass[q]
        /\ pass'[p].step = "write" /\ pass'[p].at = pass[p].at /\ pass'[p].todo = todo
    <3>1. todo \in Seq(Writing) /\ \A i \in DOMAIN todo : todo[i].row.key \in Key
      BY <1>4 DEF Together
    <3> QED BY <1>7, <3>1, LoadsIs
  <2>2. \A q \in Pass : q # p => Todo(q)' = Todo(q)
    BY <2>1, SameTodo
  <2>3. Todo(p)' = {todo[i] : i \in DOMAIN todo} /\ p \in Busy
    BY <1>1, <2>1 DEF Todo, Busy
  <2>4. \A q \in Busy' : q = p \/ (q \in Busy /\ q # p /\ q \in Pass /\ Todo(q)' = Todo(q) /\ pass'[q].at = pass[q].at
                                   /\ pass'[q].step = pass[q].step)
    BY <2>1, <2>2 DEF Busy
  <2>5. ASSUME NEW w \in Todo(p)', w.kind = "insert"
        PROVE  w.row.id[1] = pass[p].at
    BY <1>4, <2>3, <2>5 DEF Together
  <2>6. ASSUME NEW w \in Todo(p)', w.kind = "refresh"
        PROVE  \E r \in snaps : r.id = w.row.id /\ r.key = w.row.key
    <3>1. /\ w.row.key \in Key /\ w.row.id = targets[w.row.key].id /\ targets[w.row.key].odds # Unknown
      BY <1>4, <2>3, <2>6, PriceStoreAssumption DEF Together
    <3>2. PICK r \in Latest(SnapsOf(w.row.key)) : w.row.id = r.id
      BY <1>3, <3>1
    <3> QED BY <3>2 DEF Latest, SnapsOf
  <2>7. /\ \A s \in snaps : s.id[1] # pass[p].at /\ s.id[1] <= now
        /\ \A q \in Busy : \A v \in Todo(q) : v.kind = "refresh" => v.row.id[1] # pass[p].at
    BY <1>1, <2>3 DEF IdInv, TypeInv
  <2>8. ASSUME NEW q \in Busy', NEW w \in Todo(q)'
        PROVE  /\ w.kind = "insert" => \A s \in snaps' : s.id # w.row.id
               /\ w.kind = "insert" => \A x \in Busy' : \A v \in Todo(x)' : v.kind = "refresh" => v.row.id # w.row.id
               /\ w.kind = "refresh" => \A s \in snaps' : s.id = w.row.id => s.key = w.row.key
               /\ w.kind = "refresh" => w.row.id[1] <= now'
    <3>1. CASE q = p
      <4>1. w.kind = "insert" => \A s \in snaps' : s.id # w.row.id
        BY <1>5, <2>5, <2>7, <2>8, <3>1
      <4>2. ASSUME w.kind = "insert", NEW x \in Busy', NEW v \in Todo(x)', v.kind = "refresh"
            PROVE  v.row.id # w.row.id
        <5>1. CASE x = p
          BY <2>5, <2>6, <2>7, <2>8, <3>1, <4>2, <5>1
        <5>2. CASE x # p
          BY <2>4, <2>5, <2>7, <2>8, <3>1, <4>2, <5>2
        <5> QED BY <5>1, <5>2
      <4>3. ASSUME w.kind = "refresh"
            PROVE  /\ \A s \in snaps' : s.id = w.row.id => s.key = w.row.key
                   /\ w.row.id[1] <= now'
        <5>1. PICK r \in snaps : r.id = w.row.id /\ r.key = w.row.key
          BY <2>6, <2>8, <3>1, <4>3
        <5> QED BY <1>5, <2>7, <5>1 DEF IdInv
      <4> QED BY <4>1, <4>2, <4>3
    <3>2. CASE q # p
      <4>1. q \in Busy /\ w \in Todo(q)
        BY <2>4, <2>8, <3>2
      <4>2. ASSUME w.kind = "insert", NEW x \in Busy', NEW v \in Todo(x)', v.kind = "refresh"
            PROVE  v.row.id # w.row.id
        <5>1. CASE x = p
          <6>1. PICK r \in snaps : r.id = v.row.id
            BY <2>6, <4>2, <5>1
          <6> QED BY <4>1, <4>2, <6>1 DEF IdInv
        <5>2. CASE x # p
          BY <2>4, <4>1, <4>2, <5>2 DEF IdInv
        <5> QED BY <5>1, <5>2
      <4>3. /\ w.kind = "insert" => \A s \in snaps' : s.id # w.row.id
            /\ w.kind = "refresh" => \A s \in snaps' : s.id = w.row.id => s.key = w.row.key
            /\ w.kind = "refresh" => w.row.id[1] <= now'
        BY <1>5, <4>1 DEF IdInv
      <4> QED BY <4>2, <4>3
    <3> QED BY <3>1, <3>2
  <2>9. ASSUME NEW q \in Busy', pass'[q].step = "begun"
        PROVE  /\ \A s \in snaps' : s.id[1] # pass'[q].at
               /\ \A x \in Busy' : \A v \in Todo(x)' : v.kind = "refresh" => v.row.id[1] # pass'[q].at
    <3>1. q # p /\ q \in Busy /\ pass[q].step = "begun" /\ pass'[q].at = pass[q].at
      BY <2>1, <2>4, <2>9
    <3>2. \A s \in snaps : s.id[1] # pass[q].at
      BY <3>1 DEF IdInv
    <3>3. ASSUME NEW x \in Busy', NEW v \in Todo(x)', v.kind = "refresh" PROVE v.row.id[1] # pass[q].at
      <4>1. CASE x = p
        BY <2>6, <3>2, <3>3, <4>1
      <4>2. CASE x # p
        BY <2>4, <3>1, <3>3, <4>2 DEF IdInv
      <4> QED BY <4>1, <4>2
    <3> QED BY <1>5, <3>1, <3>2, <3>3
  <2>10. \A r, s \in snaps' : r.id = s.id => r = s
    BY <1>5 DEF IdInv
  <2> QED BY <2>8, <2>9, <2>10 DEF IdInv
<1> QED BY <1>1, <1>2, <1>6, <1>7

LEMMA PutKeeps ==
    ASSUME TypeInv, IdInv, NEW w, Put(w), w.kind # "insert"
    PROVE  RowsKept
<1>1. CASE w.kind = "change"
  BY <1>1, SameRows DEF Put
<1>2. CASE w.kind = "refresh"
  <2>1. snaps' = {IF s.id = w.row.id THEN [s EXCEPT !.at = w.row.at] ELSE s : s \in snaps}
    BY <1>2 DEF Put, Refreshed
  <2>2. ASSUME NEW s \in snaps PROVE [s EXCEPT !.at = w.row.at].id = s.id /\ [s EXCEPT !.at = w.row.at].key = s.key
    <3>1. s \in Snapshots
      BY DEF TypeInv
    <3> QED BY <3>1 DEF Snapshots
  <2>3. \A r \in snaps' : \E s \in snaps : /\ r.id = s.id /\ r.key = s.key
                                           /\ r = IF s.id = w.row.id THEN [s EXCEPT !.at = w.row.at] ELSE s
    <3> TAKE r \in snaps'
    <3>1. PICK s \in snaps : r = IF s.id = w.row.id THEN [s EXCEPT !.at = w.row.at] ELSE s
      BY <2>1
    <3>2. r.id = s.id /\ r.key = s.key
      BY <2>2, <3>1
    <3> QED BY <3>1, <3>2
  <2> QED BY <2>3 DEF IdInv, RowsKept
<1> QED BY <1>1, <1>2 DEF Put

LEMMA CommitIds ==
    ASSUME TypeInv, IdInv, NEW p \in Pass, Commit(p)
    PROVE  IdInv'
<1>1. PICK w \in Todo(p) :
              /\ w.row.at = pass[p].at /\ w.row.key \in pass[p].wrote
              /\ w.kind = "insert" => w.row.id[1] = pass[p].at
              /\ Put(w)
              /\ GoesOn(p, w) \/ (Return(p, pass[p].wrote) /\ Todo(p) = {w})
              /\ pass[p].step = "write" /\ UNCHANGED <<now, backend, retentionVars, mishaps>>
  BY CommitIs
<1>2. now' = now /\ now' \in Int /\ now <= now' /\ p \in Busy
  BY <1>1 DEF TypeInv, Busy
<1>3. /\ \A q \in Busy' : /\ q \in Busy /\ q \in Pass /\ pass'[q].at = pass[q].at /\ Todo(q)' \subseteq Todo(q)
                          /\ pass'[q].step = pass[q].step
      /\ \A q \in Busy' : \A v \in Todo(q)' : q = p /\ v.kind = "insert" /\ w.kind = "insert" => v.row.id # w.row.id
  <2>1. CASE GoesOn(p, w)
    <3>1. ASSUME NEW q \in Busy'
          PROVE  /\ q \in Busy /\ q \in Pass /\ pass'[q].at = pass[q].at /\ Todo(q)' \subseteq Todo(q)
                 /\ pass'[q].step = pass[q].step
      <4>1. q \in Pass
        BY DEF Busy
      <4>2. CASE q = p
        BY <1>1, <1>2, <2>1, <4>2 DEF GoesOn
      <4>3. CASE q # p
        BY <2>1, <4>1, <4>3, SameTodo DEF GoesOn, Busy
      <4> QED BY <4>2, <4>3
    <3>2. \A v \in Todo(p)' : v.kind = "insert" /\ w.kind = "insert" => v.row.id # w.row.id
      BY <2>1 DEF GoesOn, Distinct
    <3> QED BY <3>1, <3>2
  <2>2. CASE Return(p, pass[p].wrote)
    <3>1. pass'[p] = NoPass /\ (\A q \in Pass : q # p => pass'[q] = pass[q]) /\ NoPass.step = "idle"
      BY <1>1, <1>2, <2>2, ReturnTyped DEF NoPass
    <3> QED BY <3>1, SameTodo DEF Busy
  <2> QED BY <1>1, <2>1, <2>2
<1>4. CASE w.kind # "insert"
  <2>1. RowsKept
    BY <1>1, <1>4, PutKeeps
  <2> QED BY <1>2, <1>3, <2>1, IdsKept
<1>5. CASE w.kind = "insert"
  <2>1. snaps' = snaps \union {w.row} /\ w.row.id[1] = pass[p].at
    BY <1>1, <1>5 DEF Put
  <2>2. /\ \A s \in snaps : s.id # w.row.id
        /\ \A q \in Busy : \A v \in Todo(q) : v.kind = "refresh" => v.row.id # w.row.id
    BY <1>2, <1>5 DEF IdInv
  <2>3. ASSUME NEW q \in Busy', NEW v \in Todo(q)', v.kind = "insert" PROVE v.row.id # w.row.id
    <3>1. CASE q = p
      BY <1>3, <1>5, <2>3, <3>1
    <3>2. CASE q # p
      <4>1. q \in Busy /\ q \in Pass /\ v \in Todo(q)
        BY <1>3, <2>3
      <4>2. v.row.id[1] = pass[q].at
        BY <2>3, <4>1, TodoIs
      <4>3. pass[q].at # pass[p].at
        BY <1>2, <3>2, <4>1, PassesAre DEF PassesInv
      <4> QED BY <2>1, <4>2, <4>3
    <3> QED BY <3>1, <3>2
  <2>4. ASSUME NEW q \in Busy', NEW v \in Todo(q)'
        PROVE  /\ v.kind = "insert" => \A s \in snaps' : s.id # v.row.id
               /\ v.kind = "insert" => \A x \in Busy' : \A u \in Todo(x)' : u.kind = "refresh" => u.row.id # v.row.id
               /\ v.kind = "refresh" => \A s \in snaps' : s.id = v.row.id => s.key = v.row.key
               /\ v.kind = "refresh" => v.row.id[1] <= now'
    <3>1. q \in Busy /\ v \in Todo(q)
      BY <1>3, <2>4
    <3>2. \A x \in Busy' : \A u \in Todo(x)' : x \in Busy /\ u \in Todo(x)
      BY <1>3
    <3> QED BY <1>2, <2>1, <2>2, <2>3, <2>4, <3>1, <3>2 DEF IdInv
  <2>5. ASSUME NEW q \in Busy', pass'[q].step = "begun"
        PROVE  /\ \A s \in snaps' : s.id[1] # pass'[q].at
               /\ \A x \in Busy' : \A v \in Todo(x)' : v.kind = "refresh" => v.row.id[1] # pass'[q].at
    <3>1. q \in Busy /\ pass[q].step = "begun" /\ q # p /\ pass'[q].at = pass[q].at
      BY <1>1, <1>3, <2>5
    <3>2. pass[q].at # pass[p].at
      BY <1>2, <3>1, PassesAre DEF PassesInv
    <3> QED BY <1>3, <2>1, <3>1, <3>2 DEF IdInv
  <2>6. \A r, s \in snaps' : r.id = s.id => r = s
    BY <2>1, <2>2 DEF IdInv
  <2> QED BY <2>4, <2>5, <2>6 DEF IdInv
<1> QED BY <1>4, <1>5

LEMMA DieIds ==
    ASSUME TypeInv, IdInv, NEW p \in Pass, Die(p)
    PROVE  IdInv'
<1>1. /\ pass'[p] = NoPass /\ \A q \in Pass : q # p => pass'[q] = pass[q]
      /\ now' = now /\ snaps' \subseteq snaps
  BY DieIs
<1>2. RowsKept
  BY <1>1, SameRows
<1> QED BY <1>1, <1>2, OverIds

LEMMA PrunedIds ==
    ASSUME TypeInv, IdInv, NEW keys, Pruned(keys), snaps' \subseteq snaps
    PROVE  IdInv'
<1>1. keys \subseteq Key /\ pass' = Hurt(keys) /\ now' = now
  BY DEF Pruned
<1>2. \A q \in Pass : SamePass(q)
  BY <1>1, AllHurt
<1>3. \A q \in Busy' : /\ q \in Busy /\ pass'[q].at = pass[q].at /\ Todo(q)' \subseteq Todo(q)
                       /\ pass'[q].step = "begun" => pass[q].step = "begun"
  BY <1>2, SameTodo DEF Busy, SamePass
<1>4. now' \in Int /\ now <= now'
  BY <1>1 DEF TypeInv
<1>5. RowsKept
  BY SameRows
<1> QED BY <1>3, <1>4, <1>5, IdsKept

LEMMA ElsewhereIds ==
    ASSUME TypeInv, IdInv, Elsewhere
    PROVE  IdInv'
<1>1. pass' = pass /\ snaps' \subseteq snaps /\ now' \in Int /\ now <= now'
  BY PriceStoreAssumption DEF Elsewhere
<1>2. \A q \in Busy' : /\ q \in Busy /\ pass'[q].at = pass[q].at /\ Todo(q)' \subseteq Todo(q)
                       /\ pass'[q].step = "begun" => pass[q].step = "begun"
  BY <1>1, SameTodo DEF Busy
<1>3. RowsKept
  BY <1>1, SameRows
<1> QED BY <1>1, <1>2, <1>3, IdsKept

(***************************************************************************)
(* One key                                                                 *)
(***************************************************************************)

\* The passes over a key have been disturbed: nothing is claimed of it.
LEMMA TornKey ==
    ASSUME NEW k \in Key, harm'[k] = "torn", OneAtATime(PricesOf(k))', \A q \in Under(k)' : k \in pass'[q].hurt
    PROVE  KeyInv(k)'
<1>1. \A q \in Under(k)' : ~Intact(q, k)'
  BY DEF Intact
<1>2. Loaded(k)' \subseteq Under(k)' /\ Writers(k)' \subseteq Under(k)'
  BY DEF Loaded, Writers
<1> QED BY <1>1, <1>2 DEF KeyInv

\* No pass is over the key.
LEMMA RestingKey ==
    ASSUME NEW k \in Key, Under(k)' = {}, OneAtATime(PricesOf(k))',
           harm'[k] # "torn" => OneLast(SnapsOf(k))' /\ Alike(SnapsOf(k), PricesOf(k))',
           harm'[k] # "torn" /\ confirmed'[k].at > 0 /\ Kept(k)' => Confirms(k)',
           harm'[k] = "none" => Whole(SnapsOf(k), PricesOf(k))'
    PROVE  KeyInv(k)'
<1>1. Loaded(k)' = {} /\ Writers(k)' = {}
  BY DEF Loaded, Writers
<1> QED BY <1>1 DEF KeyInv

LEMMA KeptBefore ==
    ASSUME TypeInv, now' \in Nat, now <= now', NEW k \in Key, confirmed'[k] = confirmed[k], Kept(k)'
    PROVE  Kept(k)
<1>1. now \in Nat /\ confirmed[k].at \in Nat /\ RefreshEvery \in Nat /\ \A v \in Windows : v \in Nat
  BY PriceStoreAssumption DEF TypeInv
<1> QED BY <1>1 DEF Kept

\* A pass is, for a key, where it was.
LastOf(points, k) ==
    LET at == {i \in DOMAIN points : points[i].key = k}
    IN  points[CHOOSE i \in at : \A j \in at : j <= i]
LEMMA SameLevelLater ==
    ASSUME NEW p, NEW k, pass'[p].points = pass[p].points
    PROVE  Level(p, k)' = Level(p, k)
<1>1. LastPoint(p, k) = LastOf(pass[p].points, k)
  BY DEF LastPoint, LastOf
<1>2. LastPoint(p, k)' = LastOf(pass'[p].points, k)
  BY DEF LastPoint, LastOf
<1> QED BY <1>1, <1>2 DEF Level
Unmoved(p, k) ==
    /\ pass'[p].step = pass[p].step /\ pass'[p].at = pass[p].at /\ pass'[p].points = pass[p].points
    /\ pass'[p].wrote = pass[p].wrote /\ (k \in pass'[p].hurt <=> k \in pass[p].hurt)
    /\ Pending(p, k, "insert")' = Pending(p, k, "insert")
    /\ Pending(p, k, "refresh")' = Pending(p, k, "refresh")
    /\ Pending(p, k, "change")' = Pending(p, k, "change")

LEMMA KeyUntouched ==
    ASSUME TypeInv, now' \in Nat, now <= now', NEW k \in Key, KeyInv(k), Under(k)' = Under(k),
           SnapsOf(k)' = SnapsOf(k), PricesOf(k)' = PricesOf(k), harm'[k] = harm[k],
           confirmed'[k] = confirmed[k], \A p \in Under(k) : Unmoved(p, k)
    PROVE  KeyInv(k)'
<1>1. \A p \in Under(k) : /\ pass'[p].step = pass[p].step /\ pass'[p].at = pass[p].at
                          /\ pass'[p].wrote = pass[p].wrote
                          /\ (k \in pass'[p].hurt <=> k \in pass[p].hurt)
                          /\ Level(p, k)' = Level(p, k)
  BY SameLevelLater DEF Unmoved
<1>2. \A p \in Under(k) : /\ SnapPlan(p, k) => SnapPlan(p, k)'
                          /\ PricePlan(p, k) => PricePlan(p, k)'
                          /\ NewsPlan(p, k) => NewsPlan(p, k)'
  BY <1>1 DEF SnapPlan, PricePlan, NewsPlan, Unmoved
<1>3. Loaded(k)' = Loaded(k) /\ Writers(k)' = Writers(k)
  BY <1>1 DEF Loaded, Writers
<1>4. Loaded(k) \subseteq Under(k) /\ Writers(k) \subseteq Under(k)
  BY DEF Loaded, Writers
<1>5. Kept(k)' => Kept(k)
  BY KeptBefore
<1>6. Confirms(k) => Confirms(k)'
  BY DEF Confirms
<1>7. \A p \in Under(k) : Intact(p, k)' <=> Intact(p, k)
  BY <1>1 DEF Intact
<1> QED BY <1>1, <1>2, <1>3, <1>4, <1>5, <1>6, <1>7 DEF KeyInv

LEMMA SameUnder == ASSUME NEW k, \A q \in Pass : SamePass(q) PROVE Under(k)' = Under(k)
  BY SameKeys DEF Under, SamePass
LEMMA SamePending ==
    ASSUME NEW q, NEW k, pass'[q].todo = pass[q].todo
    PROVE  /\ Pending(q, k, "insert")' = Pending(q, k, "insert")
           /\ Pending(q, k, "refresh")' = Pending(q, k, "refresh")
           /\ Pending(q, k, "change")' = Pending(q, k, "change")
  BY SameTodo DEF Pending
LEMMA SameTables == ASSUME NEW k, snaps' = snaps, prices' = prices
                    PROVE  SnapsOf(k)' = SnapsOf(k) /\ PricesOf(k)' = PricesOf(k)
  BY DEF SnapsOf, PricesOf

LEMMA ElsewhereKey ==
    ASSUME TypeInv, NEW k \in Key, KeyInv(k), Elsewhere
    PROVE  KeyInv(k)'
<1>1. /\ snaps' = snaps /\ prices' = prices /\ pass' = pass /\ harm' = harm /\ confirmed' = confirmed
      /\ now' \in Nat /\ now <= now'
  BY PriceStoreAssumption DEF Elsewhere
<1>2. Under(k)' = Under(k)
  BY <1>1, SameUnder DEF SamePass
<1>3. \A p \in Under(k) : Unmoved(p, k)
  BY <1>1, SamePending DEF Unmoved
<1> QED BY <1>1, <1>2, <1>3, SameTables, KeyUntouched

\* Who else is over a key that a pass has hurt is hurt too.
LEMMA HurtTogether ==
    ASSUME TypeInv, NEW k \in Key, KeyInv(k), NEW p \in Under(k), k \in pass[p].hurt
    PROVE  harm[k] = "torn" /\ \A q \in Under(k) : k \in pass[q].hurt
<1>1. ASSUME NEW q \in Under(k), k \notin pass[q].hurt PROVE FALSE
  <2>1. Under(k) = {q}
    BY <1>1 DEF KeyInv
  <2> QED BY <1>1, <2>1
<1> QED BY <1>1 DEF KeyInv
LEMMA UnhurtAlone ==
    ASSUME TypeInv, NEW k \in Key, KeyInv(k), NEW p \in Under(k), k \notin pass[p].hurt
    PROVE  Under(k) = {p}
  BY DEF KeyInv
LEMMA PointsMatter ==
    ASSUME TypeInv, NEW p \in Pass, NEW k \in KeysOf(p)
    PROVE  p \in Under(k)
<1>1. pass[p].step # "idle"
  BY PassIs
<1> QED BY <1>1 DEF Under

LEMMA DieKey ==
    ASSUME TypeInv, NEW k \in Key, KeyInv(k), NEW p \in Pass, Die(p)
    PROVE  KeyInv(k)'
<1>1. /\ pass[p].step = "write" /\ Tear(pass[p].wrote)
      /\ confirmed' = [x \in Key |-> IF x \in KeysOf(p) THEN NeverConfirmed ELSE confirmed[x]]
      /\ pass'[p] = NoPass /\ (\A q \in Pass : q # p => pass'[q] = pass[q])
      /\ now' = now /\ snaps' = snaps /\ prices' = prices
  BY DieIs
<1>2. harm'[k] = IF k \in pass[p].wrote THEN "torn" ELSE harm[k]
  BY <1>1, TearTyped
<1>3. NoPass.step = "idle" /\ now \in Nat /\ now' \in Nat /\ now <= now' /\ pass[p].wrote \subseteq KeysOf(p)
  BY <1>1, PassIs DEF NoPass, TypeInv, PassShape
<1>4. Under(k)' = Under(k) \ {p}
  <2>1. \A q \in Pass : q # p => KeysOf(q)' = KeysOf(q)
    BY <1>1, SameKeys
  <2> QED BY <1>1, <1>3, <2>1 DEF Under
<1>5. SnapsOf(k)' = SnapsOf(k) /\ PricesOf(k)' = PricesOf(k)
  BY <1>1, SameTables
<1>6. OneAtATime(PricesOf(k))'
  BY <1>5 DEF KeyInv, OneAtATime
<1>7. Under(k) \subseteq Pass
  BY DEF Under
<1>8. CASE k \notin KeysOf(p)
  <2>1. p \notin Under(k)
    BY <1>8 DEF Under
  <2>2. \A q \in Under(k) : Unmoved(q, k)
    <3>1. \A q \in Under(k) : pass'[q] = pass[q]
      BY <1>1, <1>7, <2>1
    <3> QED BY <3>1, SamePending DEF Unmoved
  <2>3. harm'[k] = harm[k] /\ confirmed'[k] = confirmed[k]
    BY <1>1, <1>2, <1>3, <1>8
  <2>4. Under(k)' = Under(k)
    BY <1>4, <2>1
  <2> QED BY <1>3, <1>5, <2>2, <2>3, <2>4, KeyUntouched
<1>9. CASE k \in KeysOf(p) /\ k \in pass[p].wrote
  <2>1. p \in Under(k)
    BY <1>9, PointsMatter
  <2>2. \A q \in Under(k)' : k \in pass[q].hurt
    <3>1. ASSUME NEW q \in Under(k)', k \notin pass[q].hurt PROVE FALSE
      BY <1>4, <2>1, <3>1, UnhurtAlone
    <3> QED BY <3>1
  <2>3. \A q \in Under(k)' : k \in pass'[q].hurt
    BY <1>1, <1>4, <1>7, <2>2
  <2> QED BY <1>2, <1>6, <1>9, <2>3, TornKey
<1>10. CASE k \in KeysOf(p) /\ k \notin pass[p].wrote /\ k \in pass[p].hurt
  <2>1. harm[k] = "torn" /\ \A q \in Under(k) : k \in pass[q].hurt
    BY <1>10, PointsMatter, HurtTogether
  <2>2. \A q \in Under(k)' : k \in pass'[q].hurt
    BY <1>1, <1>4, <1>7, <2>1
  <2> QED BY <1>2, <1>6, <1>10, <2>1, <2>2, TornKey
<1>11. CASE k \in KeysOf(p) /\ k \notin pass[p].wrote /\ k \notin pass[p].hurt
  <2>1. Under(k) = {p}
    BY <1>11, PointsMatter, UnhurtAlone
  <2>2. Under(k)' = {} /\ Writers(k) = {}
    BY <1>4, <1>11, <2>1 DEF Writers, Loaded
  <2>3. harm'[k] = harm[k] /\ confirmed'[k].at = 0
    BY <1>1, <1>2, <1>11 DEF NeverConfirmed
  <2>4. harm'[k] # "torn" => OneLast(SnapsOf(k))' /\ Alike(SnapsOf(k), PricesOf(k))'
    <3>1. harm'[k] # "torn" => OneLast(SnapsOf(k)) /\ Alike(SnapsOf(k), PricesOf(k))
      BY <2>2, <2>3 DEF KeyInv
    <3> QED BY <1>5, <3>1 DEF OneLast, Alike
  <2>5. harm'[k] = "none" => Whole(SnapsOf(k), PricesOf(k))'
    <3>1. harm'[k] = "none" => Whole(SnapsOf(k), PricesOf(k))
      BY <2>3 DEF KeyInv
    <3> QED BY <1>5, <3>1
  <2> QED BY <1>6, <2>2, <2>3, <2>4, <2>5, RestingKey
<1> QED BY <1>8, <1>9, <1>10, <1>11

LEMMA PrunedKey ==
    ASSUME TypeInv, NEW k \in Key, KeyInv(k), NEW keys, Pruned(keys), snaps' \subseteq snaps, prices' \subseteq prices,
           Kept(k) /\ Confirms(k) => Confirms(k)',
           \/ k \in keys
           \/ SnapsOf(k)' = SnapsOf(k) /\ PricesOf(k)' = PricesOf(k)
           \/ /\ Loaded(k) = {}
              /\ \A r \in SnapsOf(k) \ SnapsOf(k)' : \A s \in SnapsOf(k)' : ~(s.at < r.at)
              /\ \A r \in PricesOf(k) \ PricesOf(k)' : \A s \in PricesOf(k)' : ~(s.at < r.at)
    PROVE  KeyInv(k)'
<1>1. /\ keys \subseteq Key /\ pass' = Hurt(keys) /\ Tear(keys) /\ now' = now /\ confirmed' = confirmed
      /\ now' \in Nat /\ now <= now'
  BY DEF Pruned, TypeInv
<1>2. \A q \in Pass : SamePass(q) /\ pass'[q].hurt = pass[q].hurt \union (keys \intersect KeysOf(q))
  BY <1>1, AllHurt
<1>3. Under(k)' = Under(k) /\ \A q \in Under(k) : q \in Pass /\ k \in KeysOf(q)
  BY <1>2, SameUnder DEF Under
<1>4. harm'[k] = IF k \in keys THEN "torn" ELSE harm[k]
  BY <1>1, TearTyped
<1>5. SnapsOf(k)' \subseteq SnapsOf(k) /\ PricesOf(k)' \subseteq PricesOf(k)
  BY DEF SnapsOf, PricesOf
<1>6. OneAtATime(PricesOf(k))'
  BY <1>5 DEF KeyInv, OneAtATime
<1>7. CASE k \in keys
  <2>1. \A q \in Under(k)' : k \in pass'[q].hurt
    BY <1>2, <1>3, <1>7
  <2> QED BY <1>4, <1>6, <1>7, <2>1, TornKey
<1>8. CASE k \notin keys
  <2>1. harm'[k] = harm[k] /\ confirmed'[k] = confirmed[k]
    BY <1>1, <1>4, <1>8
  <2>2. \A q \in Under(k) : Unmoved(q, k)
    BY <1>2, <1>3, <1>8, SamePending DEF SamePass, Unmoved
  <2>3. CASE SnapsOf(k)' = SnapsOf(k) /\ PricesOf(k)' = PricesOf(k)
    BY <1>1, <1>3, <2>1, <2>2, <2>3, KeyUntouched
  <2>4. CASE /\ Loaded(k) = {}
             /\ \A r \in SnapsOf(k) \ SnapsOf(k)' : \A s \in SnapsOf(k)' : ~(s.at < r.at)
             /\ \A r \in PricesOf(k) \ PricesOf(k)' : \A s \in PricesOf(k)' : ~(s.at < r.at)
    <3>1. (\A r \in SnapsOf(k) : r.at \in Int) /\ \A r \in PricesOf(k) : r.at \in Int
      BY PriceStoreAssumption DEF TypeInv, SnapsOf, PricesOf, Snapshots, ChangePoints
    <3>2. /\ Latest(SnapsOf(k)') \subseteq Latest(SnapsOf(k))
          /\ OneLast(SnapsOf(k)) => OneLast(SnapsOf(k)')
          /\ OneAtATime(SnapsOf(k)) => OneAtATime(SnapsOf(k)')
          /\ LevelsDiffer(SnapsOf(k)) => LevelsDiffer(SnapsOf(k)')
      <4> DEFINE S == SnapsOf(k)
                 T == SnapsOf(k)'
      <4>1. T \in SUBSET S /\ (\A r \in S : r.at \in Int) /\ \A r \in S \ T : \A q \in T : ~(q.at < r.at)
        BY <1>5, <2>4, <3>1
      <4> HIDE DEF S, T
      <4>2. /\ Latest(T) \subseteq Latest(S) /\ (OneLast(S) => OneLast(T))
            /\ OneAtATime(S) => OneAtATime(T)
            /\ LevelsDiffer(S) => LevelsDiffer(T)
        BY <4>1, Thinned
      <4> QED BY <4>2 DEF S, T
    <3>3. /\ Latest(PricesOf(k)') \subseteq Latest(PricesOf(k))
          /\ Chained(PricesOf(k)) => Chained(PricesOf(k)')
      <4> DEFINE S == PricesOf(k)
                 T == PricesOf(k)'
      <4>1. T \in SUBSET S /\ (\A r \in S : r.at \in Int) /\ \A r \in S \ T : \A q \in T : ~(q.at < r.at)
        BY <1>5, <2>4, <3>1
      <4> HIDE DEF S, T
      <4>2. Latest(T) \subseteq Latest(S) /\ (Chained(S) => Chained(T))
        BY <4>1, Thinned
      <4> QED BY <4>2 DEF S, T
    <3>4. Loaded(k)' = {} /\ Writers(k)' = {} /\ Writers(k) = {}
      BY <1>3, <2>2, <2>4 DEF Loaded, Writers, Unmoved
    <3>5. \A p \in Under(k)' : IF k \in pass'[p].hurt THEN harm'[k] = "torn" ELSE Under(k)' = {p}
      BY <1>3, <2>1, <2>2 DEF KeyInv, Unmoved
    <3>6. \A p \in Under(k)' : Intact(p, k)' /\ k \notin pass'[p].wrote =>
              /\ \A r \in SnapsOf(k)' : r.at < pass'[p].at
              /\ \A r \in PricesOf(k)' : r.at < pass'[p].at
      BY <1>3, <1>5, <2>2 DEF KeyInv, Unmoved, Intact
    <3>7. harm'[k] # "torn" => OneLast(SnapsOf(k)') /\ Alike(SnapsOf(k)', PricesOf(k)')
      <4>1. harm'[k] # "torn" => OneLast(SnapsOf(k)) /\ Alike(SnapsOf(k), PricesOf(k))
        BY <2>1, <3>4 DEF KeyInv
      <4> QED BY <3>2, <3>3, <4>1 DEF Alike
    <3>8. harm'[k] = "none" => Whole(SnapsOf(k)', PricesOf(k)')
      <4>1. harm'[k] = "none" => Whole(SnapsOf(k), PricesOf(k))
        BY <2>1 DEF KeyInv
      <4> QED BY <3>2, <3>3, <4>1 DEF Whole
    <3>9. harm'[k] # "torn" /\ confirmed'[k].at > 0 /\ Kept(k)' => Confirms(k)'
      <4>1. Kept(k)' => Kept(k)
        BY <1>1, <2>1, KeptBefore
      <4>2. harm[k] # "torn" /\ confirmed[k].at > 0 /\ Kept(k) => Confirms(k)
        BY <2>4 DEF KeyInv
      <4> QED BY <2>1, <4>1, <4>2
    <3> QED BY <1>6, <3>4, <3>5, <3>6, <3>7, <3>8, <3>9 DEF KeyInv
  <2> QED BY <1>8, <2>3, <2>4
<1> QED BY <1>7, <1>8

\* What a prune does to a key it does not disturb.
LEMMA Undisturbed ==
    ASSUME NEW rows, NEW gone \in SUBSET rows, NEW k \in Key, k \notin DisturbedBy(gone, rows)
    PROVE  LET R == {r \in rows : r.key = k}
               T == {r \in rows \ gone : r.key = k}
           IN  R = T \/ (Loaded(k) = {} /\ \A r \in R \ T : \A q \in T : ~(q.at < r.at))
  BY DEF DisturbedBy

LEMMA PruneSnapshotsKey ==
    ASSUME TypeInv, NEW k \in Key, KeyInv(k), PruneSnapshots
    PROVE  KeyInv(k)'
<1>1. /\ custodian.step = "snapshots"
      /\ \E gone \in SUBSET {r \in snaps : r.at < custodian.cutoff} :
            snaps' = snaps \ gone /\ prices' = prices /\ Pruned(DisturbedBy(gone, snaps))
  BY PruneSnapshotsIs
<1>2. PICK gone \in SUBSET {r \in snaps : r.at < custodian.cutoff} :
            snaps' = snaps \ gone /\ prices' = prices /\ Pruned(DisturbedBy(gone, snaps))
  BY <1>1
<1>3. PricesOf(k)' = PricesOf(k) /\ SnapsOf(k)' = {r \in snaps \ gone : r.key = k} /\ SnapsOf(k) = {r \in snaps : r.key = k}
  BY <1>2 DEF PricesOf, SnapsOf
<1>4. \/ k \in DisturbedBy(gone, snaps)
      \/ SnapsOf(k)' = SnapsOf(k)
      \/ Loaded(k) = {} /\ \A r \in SnapsOf(k) \ SnapsOf(k)' : \A q \in SnapsOf(k)' : ~(q.at < r.at)
  BY <1>3, Undisturbed
<1>5. ASSUME Kept(k), Confirms(k) PROVE Confirms(k)'
  <2>1. custodian.keep \in Windows /\ custodian.cutoff <= now - custodian.keep
    BY <1>1 DEF TypeInv
  <2>2. confirmed' = confirmed
    BY <1>2 DEF Pruned
  <2>3. /\ now \in Int /\ custodian.cutoff \in Int /\ custodian.keep \in Int /\ RefreshEvery \in Int
        /\ confirmed[k].at \in Int /\ \A r \in snaps : r.at \in Int
    BY PriceStoreAssumption DEF TypeInv, Snapshots
  <2>4. /\ confirmed[k].at >= now - custodian.keep
        /\ confirmed[k].at - RefreshEvery + 1 >= now - custodian.keep
    BY <1>5, <2>1 DEF Kept
  <2>5. ASSUME NEW r \in Latest(SnapsOf(k)) PROVE r \in Latest(SnapsOf(k)')
    <3>1. r \in snaps /\ (r.at = confirmed[k].at \/ confirmed[k].at - r.at < RefreshEvery)
      BY <1>5 DEF Confirms, Latest, SnapsOf
    <3>2. ~(r.at < custodian.cutoff)
      BY <2>1, <2>3, <2>4, <3>1
    <3>3. r \in SnapsOf(k)'
      BY <1>3, <3>1, <3>2 DEF Latest
    <3> QED BY <1>3, <3>3 DEF Latest
  <2>6. Latest(SnapsOf(k)) # {}
    BY <1>5 DEF Confirms
  <2>7. PICK m : m \in Latest(SnapsOf(k)) /\ m \in Latest(SnapsOf(k)')
    BY <2>5, <2>6
  <2>8. \A r \in Latest(SnapsOf(k)') : r \in Latest(SnapsOf(k))
    <3> TAKE r \in Latest(SnapsOf(k)')
    <3>1. r \in SnapsOf(k) /\ r.at \in Int /\ m.at \in Int /\ m.at <= r.at
      BY <1>3, <2>3, <2>7 DEF Latest
    <3>2. \A s \in SnapsOf(k) : s.at <= m.at /\ s.at \in Int
      BY <1>3, <2>3, <2>7 DEF Latest
    <3> QED BY <3>1, <3>2 DEF Latest
  <2>9. Latest(SnapsOf(k)') = Latest(SnapsOf(k))
    BY <2>5, <2>8
  <2> QED BY <1>5, <2>2, <2>9 DEF Confirms
<1>6. snaps' \subseteq snaps /\ prices' \subseteq prices
  BY <1>2
<1>7. \A r \in PricesOf(k) \ PricesOf(k)' : \A s \in PricesOf(k)' : ~(s.at < r.at)
  BY <1>3
<1> QED BY <1>2, <1>3, <1>4, <1>5, <1>6, <1>7, PrunedKey

LEMMA PrunePricesKey ==
    ASSUME TypeInv, NEW k \in Key, KeyInv(k), PrunePrices
    PROVE  KeyInv(k)'
<1>1. PICK gone \in SUBSET prices :
            snaps' = snaps /\ prices' = prices \ gone /\ Pruned(DisturbedBy(gone, prices))
  BY PrunePricesIs
<1>2. SnapsOf(k)' = SnapsOf(k) /\ PricesOf(k)' = {r \in prices \ gone : r.key = k} /\ PricesOf(k) = {r \in prices : r.key = k}
  BY <1>1 DEF PricesOf, SnapsOf
<1>3. \/ k \in DisturbedBy(gone, prices)
      \/ PricesOf(k)' = PricesOf(k)
      \/ Loaded(k) = {} /\ \A r \in PricesOf(k) \ PricesOf(k)' : \A q \in PricesOf(k)' : ~(q.at < r.at)
  BY <1>2, Undisturbed
<1>4. Kept(k) /\ Confirms(k) => Confirms(k)'
  <2>1. confirmed' = confirmed
    BY <1>1 DEF Pruned
  <2> QED BY <1>2, <2>1 DEF Confirms
<1>5. snaps' \subseteq snaps /\ prices' \subseteq prices
  BY <1>1
<1>6. \A r \in SnapsOf(k) \ SnapsOf(k)' : \A s \in SnapsOf(k)' : ~(s.at < r.at)
  BY <1>2
<1> QED BY <1>1, <1>2, <1>3, <1>4, <1>5, <1>6, PrunedKey

LEMMA BeginKey ==
    ASSUME TypeInv, NEW k \in Key, KeyInv(k), NEW p \in Pass, Begin(p)
    PROVE  KeyInv(k)'
<1>1. PICK points \in Batches : Began(p, points)
  BY BeginIs
<1> DEFINE quoted == {points[i].key : i \in DOMAIN points}
           shared == {x \in quoted : Under(x) # {}}
           hurt   == shared \union Contradicts(points)
<1>2. /\ pass[p].step = "idle" /\ now' = now + 1 /\ hurt \subseteq Key /\ pass'[p].step = "begun"
      /\ pass'[p].at = now + 1 /\ pass'[p].points = points /\ pass'[p].todo = <<>>
      /\ pass'[p].hurt = hurt /\ pass'[p].wrote = {} /\ Tear(hurt)
      /\ snaps' = snaps /\ prices' = prices /\ confirmed' = confirmed
  BY <1>1 DEF Began
<1>3. \A q \in Pass : q # p => SamePass(q) /\ pass'[q].hurt = pass[q].hurt \union (shared \intersect KeysOf(q))
  BY <1>1 DEF Began
<1>4. now \in Nat /\ now' \in Nat /\ now <= now'
  BY <1>2 DEF TypeInv
<1>5. harm'[k] = IF k \in hurt THEN "torn" ELSE harm[k]
  BY <1>2, TearTyped
<1>6. SnapsOf(k)' = SnapsOf(k) /\ PricesOf(k)' = PricesOf(k) /\ OneAtATime(PricesOf(k))'
  <2>1. SnapsOf(k)' = SnapsOf(k) /\ PricesOf(k)' = PricesOf(k)
    BY <1>2, SameTables
  <2> QED BY <2>1 DEF KeyInv, OneAtATime
<1>7. KeysOf(p)' = quoted /\ KeysOf(p) = {} /\ p \notin Under(k)
  <2>1. KeysOf(p)' = quoted
    BY <1>2 DEF KeysOf
  <2>2. KeysOf(p) = {} /\ p \notin Under(k)
    BY <1>2, PassIs DEF Under
  <2> QED BY <2>1, <2>2
<1>8. Under(k)' = IF k \in quoted THEN Under(k) \union {p} ELSE Under(k)
  <2>1. \A q \in Pass : q # p => KeysOf(q)' = KeysOf(q) /\ pass'[q].step = pass[q].step
    BY <1>3, SameKeys DEF SamePass
  <2> HIDE DEF quoted
  <2> QED BY <1>2, <1>7, <2>1 DEF Under
<1>9. Contradicts(points) \subseteq quoted
  BY DEF Contradicts
<1>10. Under(k) \subseteq Pass /\ \A q \in Under(k) : k \in KeysOf(q)
  BY DEF Under
<1>11. CASE k \in hurt
  <2>1. k \in quoted
    BY <1>9, <1>11
  <2>2. \A q \in Under(k)' : k \in pass'[q].hurt
    <3>1. ASSUME NEW q \in Under(k)', q # p PROVE k \in pass'[q].hurt
      <4>1. q \in Under(k) /\ q \in Pass /\ k \in KeysOf(q)
        BY <1>8, <1>10, <2>1, <3>1
      <4>2. k \in shared
        BY <2>1, <4>1
      <4> QED BY <1>3, <3>1, <4>1, <4>2
    <3> QED BY <1>2, <1>11, <3>1
  <2> QED BY <1>5, <1>6, <1>11, <2>2, TornKey
<1>12. CASE k \notin hurt /\ k \notin quoted
  <2>1. \A q \in Under(k) : Unmoved(q, k)
    <3> TAKE q \in Under(k)
    <3>1. q \in Pass /\ q # p
      BY <1>7, <1>10
    <3>2. SamePass(q) /\ (k \in pass'[q].hurt <=> k \in pass[q].hurt)
      BY <1>3, <1>12, <3>1
    <3> QED BY <3>2, SamePending DEF Unmoved, SamePass
  <2>2. Under(k)' = Under(k) /\ harm'[k] = harm[k] /\ confirmed'[k] = confirmed[k]
    BY <1>2, <1>5, <1>8, <1>12
  <2> QED BY <1>4, <1>6, <2>1, <2>2, KeyUntouched
<1>13. CASE k \notin hurt /\ k \in quoted
  <2>1. Under(k) = {} /\ Under(k)' = {p} /\ harm'[k] = harm[k] /\ confirmed'[k] = confirmed[k]
    <3>1. k \notin shared
      BY <1>13
    <3>2. Under(k) = {}
      BY <1>13, <3>1
    <3> QED BY <1>2, <1>5, <1>8, <1>13, <3>2
  <2>2. Loaded(k) = {} /\ Writers(k) = {} /\ Loaded(k)' = {} /\ Writers(k)' = {}
    BY <1>2, <2>1 DEF Loaded, Writers
  <2>3. \A q \in Under(k)' : IF k \in pass'[q].hurt THEN harm'[k] = "torn" ELSE Under(k)' = {q}
    BY <1>2, <1>13, <2>1
  <2>4. /\ \A r \in SnapsOf(k) : r.at < now + 1
        /\ \A r \in PricesOf(k) : r.at < now + 1
    <3>1. \A r \in snaps : r.at \in Int /\ r.at <= now
      BY PriceStoreAssumption DEF TypeInv, Snapshots
    <3>2. \A r \in prices : r.at \in Int /\ r.at <= now
      BY PriceStoreAssumption DEF TypeInv, ChangePoints
    <3> QED BY <1>4, <3>1, <3>2 DEF SnapsOf, PricesOf
  <2>5. harm'[k] # "torn" => OneLast(SnapsOf(k)') /\ Alike(SnapsOf(k)', PricesOf(k)')
    <3>1. harm[k] # "torn" => OneLast(SnapsOf(k)) /\ Alike(SnapsOf(k), PricesOf(k))
      BY <2>2 DEF KeyInv
    <3> QED BY <1>6, <2>1, <3>1
  <2>6. harm'[k] = "none" => Whole(SnapsOf(k)', PricesOf(k)')
    <3>1. harm[k] = "none" => Whole(SnapsOf(k), PricesOf(k))
      BY DEF KeyInv
    <3> QED BY <1>6, <2>1, <3>1
  <2>7. harm'[k] # "torn" /\ confirmed'[k].at > 0 /\ Kept(k)' => Confirms(k)'
    <3>1. Kept(k)' => Kept(k)
      BY <1>4, <2>1, KeptBefore
    <3>2. harm[k] # "torn" /\ confirmed[k].at > 0 /\ Kept(k) => Confirms(k)
      BY <2>2 DEF KeyInv
    <3>3. Confirms(k) => Confirms(k)'
      BY <1>6, <2>1 DEF Confirms
    <3> QED BY <2>1, <3>1, <3>2, <3>3
  <2>8. \A q \in Under(k)' : Intact(q, k)' /\ k \notin pass'[q].wrote =>
            /\ \A r \in SnapsOf(k)' : r.at < pass'[q].at
            /\ \A r \in PricesOf(k)' : r.at < pass'[q].at
    BY <1>2, <1>6, <2>1, <2>4
  <2> HIDE DEF hurt, quoted
  <2> QED BY <1>6, <2>2, <2>3, <2>5, <2>6, <2>7, <2>8 DEF KeyInv
<1> QED BY <1>11, <1>12, <1>13

\* A pass returns having confirmed a key it did not write.
LEMMA SkippedKey ==
    ASSUME TypeInv, NEW k \in Key, KeyInv(k), NEW p \in Pass, k \in KeysOf(p), k \notin pass[p].hurt,
           Under(k)' = {}, SnapsOf(k)' = SnapsOf(k), PricesOf(k)' = PricesOf(k), harm'[k] = harm[k],
           confirmed'[k] = [at |-> pass[p].at, odds |-> Level(p, k)], k \notin pass[p].wrote,
           \E r \in Latest(SnapsOf(k)) : r.odds = Level(p, k) /\ pass[p].at - r.at < RefreshEvery
    PROVE  KeyInv(k)'
<1>1. Under(k) = {p}
  BY PointsMatter, UnhurtAlone
<1>2. Writers(k) = {}
  BY <1>1 DEF Writers, Loaded
<1>3. harm[k] # "torn" => OneLast(SnapsOf(k)) /\ Alike(SnapsOf(k), PricesOf(k))
  BY <1>2 DEF KeyInv
<1>4. harm'[k] # "torn" => OneLast(SnapsOf(k))' /\ Alike(SnapsOf(k), PricesOf(k))'
  BY <1>3 DEF OneLast, Alike
<1>5. harm'[k] = "none" => Whole(SnapsOf(k), PricesOf(k))'
  <2>1. harm[k] = "none" => Whole(SnapsOf(k), PricesOf(k))
    BY DEF KeyInv
  <2> QED BY <2>1
<1>6. OneAtATime(PricesOf(k))'
  BY DEF KeyInv, OneAtATime
<1>7. harm'[k] # "torn" => Confirms(k)'
  <2> SUFFICES ASSUME harm'[k] # "torn" PROVE Confirms(k)'
    OBVIOUS
  <2>1. PICK r \in Latest(SnapsOf(k)) : r.odds = Level(p, k) /\ pass[p].at - r.at < RefreshEvery
    OBVIOUS
  <2>2. \A s \in Latest(SnapsOf(k)) : s = r
    BY <1>3 DEF OneLast
  <2>3. confirmed'[k].at = pass[p].at /\ confirmed'[k].odds = Level(p, k)
    OBVIOUS
  <2> QED BY <2>1, <2>2, <2>3 DEF Confirms
<1> QED BY <1>4, <1>5, <1>6, <1>7, RestingKey

\* The plan of a pass that has read the tables.
Listed(todo, kind, k) == {todo[i] : i \in At(todo, kind, k)}
Written(todo, latest, targets, k, o) ==
    /\ IF targets[k].odds = o
       THEN At(todo, "insert", k) = {} /\ At(todo, "refresh", k) # {}
       ELSE /\ At(todo, "refresh", k) = {}
            /\ \E i \in DOMAIN todo : At(todo, "insert", k) = {i} /\ todo[i].row.odds = o
    /\ IF latest[k] = o THEN At(todo, "change", k) = {}
       ELSE \E i \in DOMAIN todo : /\ At(todo, "change", k) = {i}
                                   /\ todo[i].row.odds = o /\ todo[i].row.prev = latest[k]
LEMMA ListedIs ==
    ASSUME NEW todo, NEW kind, NEW k
    PROVE  /\ Listed(todo, kind, k) = {} <=> At(todo, kind, k) = {}
           /\ \A i : At(todo, kind, k) = {i} => Listed(todo, kind, k) = {todo[i]}
           /\ \A w \in Listed(todo, kind, k) : \E i \in DOMAIN todo : /\ w = todo[i] /\ i \in At(todo, kind, k)
                                                                      /\ w.kind = kind /\ w.row.key = k
  BY DEF Listed, At

LEMMA SnapsArePlanned ==
    ASSUME TypeInv, IdInv, NEW k \in Key, KeyInv(k), NEW p \in Pass, Under(k) = {p}, pass[p].step = "begun",
           k \notin pass[p].hurt, NEW targets \in LatestSnapshots, NEW latest \in LatestOdds, NEW o \in Odds,
           NEW todo, Together(todo, pass[p].points, targets, pass[p].at), Written(todo, latest, targets, k, o)
    PROVE  /\ SnapsPlanned(SnapsOf(k), Listed(todo, "insert", k), Listed(todo, "refresh", k), pass[p].at, o)
           /\ PricesPlanned(PricesOf(k), Listed(todo, "change", k), pass[p].at, o)
           /\ harm[k] = "none" => Newsworthy(SnapsOf(k), PricesOf(k), Listed(todo, "insert", k),
                                             Listed(todo, "refresh", k), Listed(todo, "change", k))
           /\ \E i \in DOMAIN todo : todo[i].row.key = k
<1> DEFINE S == SnapsOf(k)
           Q == PricesOf(k)
           I == Listed(todo, "insert", k)
           R == Listed(todo, "refresh", k)
           C == Listed(todo, "change", k)
           at == pass[p].at
<1>1. /\ \/ Latest(S) = {} /\ targets[k].odds = Unknown
         \/ \E r \in Latest(S) : targets[k].id = r.id /\ targets[k].odds = r.odds /\ targets[k].at = r.at
      /\ \/ Latest(Q) = {} /\ latest[k] = Unknown
         \/ \E q \in Latest(Q) : latest[k] = q.odds
  BY LoadReads
<1>2. (\A r \in S : r.at < at) /\ \A r \in Q : r.at < at
  <2>1. k \notin pass[p].wrote /\ p \in Under(k)
    BY PassIs DEF PassShape
  <2> QED BY <2>1 DEF KeyInv, Intact
<1>3. OneAtATime(Q) /\ Unknown # o
  BY PriceStoreAssumption DEF KeyInv
<1>4. (\A r \in S : r.at \in Int) /\ (\A r \in Q : r.at \in Int) /\ at \in Int
  BY PassIs, PriceStoreAssumption DEF TypeInv, SnapsOf, PricesOf, Snapshots, ChangePoints
<1>5. \A r, s \in S : r.id = s.id => r = s
  BY DEF IdInv, SnapsOf
<1>6. \A w \in R : w.row.id = targets[k].id
  BY ListedIs DEF Together
<1>7. /\ I = {} <=> At(todo, "insert", k) = {}
      /\ R = {} <=> At(todo, "refresh", k) = {}
      /\ C = {} <=> At(todo, "change", k) = {}
  BY ListedIs
<1>8. /\ \A i : At(todo, "insert", k) = {i} => I = {todo[i]}
      /\ \A i : At(todo, "change", k) = {i} => C = {todo[i]}
  BY ListedIs
<1> HIDE DEF S, Q, I, R, C, at
<1>9. \A x, y \in Latest(Q) : x = y
  BY <1>3, <1>4 DEF Latest, OneAtATime
<1>10. PricesPlanned(Q, C, at, o) /\ \A w \in C : w.row.prev # w.row.odds /\ \A q \in Latest(Q) : w.row.prev = q.odds
  <2>1. CASE latest[k] = o
    <3>1. C = {}
      BY <1>7, <2>1 DEF Written
    <3>2. \A q \in Latest(Q) : q.odds = o
      BY <1>1, <1>3, <1>9, <2>1
    <3>3. \A q \in Q : q.at <= at
      BY <1>2, <1>4
    <3> QED BY <3>1, <3>2, <3>3 DEF PricesPlanned
  <2>2. CASE latest[k] # o
    <3>1. PICK i \in DOMAIN todo : /\ At(todo, "change", k) = {i}
                                   /\ todo[i].row.odds = o /\ todo[i].row.prev = latest[k]
      BY <2>2 DEF Written
    <3>2. C = {todo[i]}
      BY <1>8, <3>1
    <3>3. \A q \in Latest(Q) : latest[k] = q.odds
      BY <1>1, <1>9
    <3> QED BY <1>2, <2>2, <3>1, <3>2, <3>3 DEF PricesPlanned
  <2> QED BY <2>1, <2>2
<1>11. /\ SnapsPlanned(S, I, R, at, o)
       /\ harm[k] = "none" => /\ \A w \in I : \A r \in Latest(S) : r.odds # w.row.odds
                              /\ \A w \in R : \A r \in S : r.id = w.row.id => r \in Latest(S)
  <2>1. CASE targets[k].odds = o
    <3>1. I = {} /\ R # {}
      BY <1>7, <2>1 DEF Written
    <3>2. PICK r \in Latest(S) : targets[k].id = r.id /\ targets[k].odds = r.odds
      BY <1>1, <1>3, <2>1
    <3>3. r \in S /\ r.odds = o /\ r.at <= at /\ \A w \in R : w.row.id = r.id
      BY <1>2, <1>4, <1>6, <2>1, <3>2 DEF Latest
    <3>4. SnapsPlanned(S, I, R, at, o)
      BY <1>2, <3>1, <3>3 DEF SnapsPlanned
    <3>5. \A w \in R : \A s \in S : s.id = w.row.id => s \in Latest(S)
      BY <1>5, <3>2, <3>3
    <3> QED BY <3>1, <3>4, <3>5
  <2>2. CASE targets[k].odds # o
    <3>1. PICK i \in DOMAIN todo : At(todo, "insert", k) = {i} /\ todo[i].row.odds = o
      BY <2>2 DEF Written
    <3>2. R = {} /\ I = {todo[i]}
      BY <1>7, <1>8, <2>2, <3>1 DEF Written
    <3>3. SnapsPlanned(S, I, R, at, o)
      BY <1>2, <3>1, <3>2 DEF SnapsPlanned
    <3>4. ASSUME harm[k] = "none", NEW r \in Latest(S) PROVE r.odds # o
      <4>1. OneAtATime(S)
        BY <3>4 DEF KeyInv, Whole, S
      <4>2. \A x, y \in Latest(S) : x = y
        BY <1>4, <4>1 DEF Latest, OneAtATime
      <4> QED BY <1>1, <2>2, <3>4, <4>2
    <3> QED BY <3>1, <3>2, <3>3, <3>4
  <2> QED BY <2>1, <2>2
<1>12. \E i \in DOMAIN todo : todo[i].row.key = k
  <2>1. At(todo, "insert", k) # {} \/ At(todo, "refresh", k) # {}
    BY DEF Written
  <2> QED BY <2>1 DEF At
<1> QED BY <1>10, <1>11, <1>12 DEF Newsworthy, S, Q, I, R, C, at

\* What an undisturbed pass reports for a key is one price.
LEMMA OnePrice ==
    ASSUME TypeInv, NEW p \in Pass, pass[p].step # "idle", NEW k \in Key, k \in KeysOf(p), k \notin pass[p].hurt
    PROVE  /\ Level(p, k) \in Odds /\ \E i \in DOMAIN pass[p].points : pass[p].points[i].key = k
           /\ \A i \in DOMAIN pass[p].points : pass[p].points[i].key = k => pass[p].points[i].odds = Level(p, k)
<1>1. pass[p].points \in Batches /\ k \notin Contradicts(pass[p].points)
  BY PassIs
<1>2. PICK i \in DOMAIN pass[p].points : LastPoint(p, k) = pass[p].points[i] /\ pass[p].points[i].key = k
  BY <1>1, LastPointIs
<1>3. Level(p, k) = pass[p].points[i].odds
  BY <1>2 DEF Level
<1>4. \A j \in DOMAIN pass[p].points : pass[p].points[j].key = k => pass[p].points[j].odds = pass[p].points[i].odds
  BY <1>1, <1>2 DEF Contradicts
<1> QED BY <1>1, <1>2, <1>3, <1>4, BatchTyped

\* When a pass returns, it is over no key.
LEMMA ReturnUnder ==
    ASSUME NEW p \in Pass, pass'[p] = NoPass, \A q \in Pass : q # p => pass'[q] = pass[q], NEW k
    PROVE  Under(k)' = Under(k) \ {p}
<1>1. \A q \in Pass : q # p => KeysOf(q)' = KeysOf(q)
  BY SameKeys
<1>2. NoPass.step = "idle"
  BY DEF NoPass
<1> QED BY <1>1, <1>2 DEF Under
LEMMA GoesOnUnder ==
    ASSUME NEW p \in Pass, pass'[p].step # "idle", pass[p].step # "idle", KeysOf(p)' = KeysOf(p),
           \A q \in Pass : q # p => pass'[q] = pass[q], NEW k
    PROVE  Under(k)' = Under(k)
<1>1. \A q \in Pass : q # p => KeysOf(q)' = KeysOf(q)
  BY SameKeys
<1> QED BY <1>1 DEF Under

\* A pass moves on: keys it is not over, and keys it is hurt over.
LEMMA OtherKey ==
    ASSUME TypeInv, now' = now, NEW k \in Key, KeyInv(k), NEW p \in Pass, p \notin Under(k), Under(k)' = Under(k),
           \A q \in Pass : q # p => pass'[q] = pass[q], harm'[k] = harm[k], confirmed'[k] = confirmed[k],
           SnapsOf(k)' = SnapsOf(k), PricesOf(k)' = PricesOf(k)
    PROVE  KeyInv(k)'
<1>1. now' \in Nat /\ now <= now'
  BY DEF TypeInv
<1>2. \A q \in Under(k) : pass'[q] = pass[q]
  BY DEF Under
<1>3. \A q \in Under(k) : Unmoved(q, k)
  BY <1>2, SamePending DEF Unmoved
<1> QED BY <1>1, <1>3, KeyUntouched
LEMMA HurtKey ==
    ASSUME TypeInv, NEW k \in Key, KeyInv(k), NEW p \in Pass, k \in KeysOf(p), k \in pass[p].hurt,
           \A q \in Pass : q # p => pass'[q] = pass[q], harm[k] = "torn" => harm'[k] = "torn",
           \/ Under(k)' = Under(k) \ {p}
           \/ Under(k)' = Under(k) /\ pass'[p].hurt = pass[p].hurt,
           OneAtATime(PricesOf(k))'
    PROVE  KeyInv(k)'
<1>1. harm[k] = "torn" /\ \A q \in Under(k) : k \in pass[q].hurt
  BY PointsMatter, HurtTogether
<1>2. Under(k) \subseteq Pass
  BY DEF Under
<1>3. \A q \in Under(k)' : k \in pass'[q].hurt
  BY <1>1, <1>2
<1> QED BY <1>1, <1>3, TornKey

LEMMA ReturnKeeps ==
    ASSUME TypeInv, NEW p \in Pass, NEW wrote, Return(p, wrote), NEW k \in Key
    PROVE  /\ harm'[k] = IF harm[k] = "torn" /\ k \in wrote \ pass[p].hurt THEN "mended" ELSE harm[k]
           /\ confirmed'[k] = IF k \in KeysOf(p) \ pass[p].hurt
                              THEN [at |-> pass[p].at, odds |-> Level(p, k)] ELSE confirmed[k]
  BY DEF Return, Level

LEMMA LoadKey ==
    ASSUME TypeInv, IdInv, NEW k \in Key, KeyInv(k), NEW p \in Pass, Load(p)
    PROVE  KeyInv(k)'
<1>1. PICK latest \in LatestOdds, targets \in LatestSnapshots :
         LET todo == Writes(pass[p].points, latest, targets, pass[p].at)
         IN  /\ pass[p].step = "begun" /\ pass[p].points \in Batches
             /\ pass[p].at \in 1..MaxNow /\ pass[p].points \in Seq(Point)
             /\ UNCHANGED <<now, backend, snaps, prices, retentionVars, mishaps>>
             /\ (todo = <<>> /\ Return(p, {})) \/ Loads(p, todo)
  BY LoadIs
<1>2. PICK todo : todo = Writes(pass[p].points, latest, targets, pass[p].at)
  OBVIOUS
<1>3. /\ targets \in [Key -> Standings] /\ Found(targets) /\ latest \in [Key -> Odds \union {Unknown}]
      /\ \/ Latest(SnapsOf(k)) = {} /\ targets[k].odds = Unknown
         \/ \E r \in Latest(SnapsOf(k)) : targets[k].odds = r.odds /\ targets[k].at = r.at
  BY LoadReads
<1>4. Together(todo, pass[p].points, targets, pass[p].at)
  BY <1>1, <1>2, <1>3, WritesTogether
<1>5. now' = now /\ snaps' = snaps /\ prices' = prices
  BY <1>1
<1>6. SnapsOf(k)' = SnapsOf(k) /\ PricesOf(k)' = PricesOf(k) /\ OneAtATime(PricesOf(k))'
  <2>1. SnapsOf(k)' = SnapsOf(k) /\ PricesOf(k)' = PricesOf(k)
    BY <1>5, SameTables
  <2> QED BY <2>1 DEF KeyInv, OneAtATime
<1>7. pass[p].step # "idle" /\ pass[p].wrote = {}
  BY <1>1, PassIs DEF PassShape
<1>8. ASSUME k \in KeysOf(p), k \notin pass[p].hurt
      PROVE  /\ Under(k) = {p}
             /\ \/ /\ \A i \in DOMAIN todo : todo[i].row.key # k
                   /\ \E r \in Latest(SnapsOf(k)) : r.odds = Level(p, k) /\ pass[p].at - r.at < RefreshEvery
                \/ Written(todo, latest, targets, k, Level(p, k))
  <2>1. /\ Level(p, k) \in Odds /\ \E i \in DOMAIN pass[p].points : pass[p].points[i].key = k
        /\ \A i \in DOMAIN pass[p].points : pass[p].points[i].key = k => pass[p].points[i].odds = Level(p, k)
    BY <1>7, <1>8, OnePrice
  <2>2. WhatFor(todo, latest, targets, pass[p].at, k, Level(p, k))
    <3> DEFINE o == Level(p, k)
    <3>1. /\ o \in Odds /\ \E i \in DOMAIN pass[p].points : pass[p].points[i].key = k
          /\ \A i \in DOMAIN pass[p].points : pass[p].points[i].key = k => pass[p].points[i].odds = o
      BY <2>1
    <3> HIDE DEF o
    <3>2. WhatFor(todo, latest, targets, pass[p].at, k, o)
      BY <1>1, <1>2, <1>3, <3>1, WritesFor
    <3> QED BY <3>2 DEF o
  <2>3. Under(k) = {p}
    BY <1>8, PointsMatter, UnhurtAlone
  <2>4. CASE Written(todo, latest, targets, k, Level(p, k))
    BY <2>3, <2>4
  <2>5. CASE /\ \A i \in DOMAIN todo : todo[i].row.key # k
             /\ targets[k].odds = Level(p, k) /\ pass[p].at - targets[k].at < RefreshEvery
    <3>1. Level(p, k) # Unknown
      BY <2>1, PriceStoreAssumption
    <3> QED BY <1>3, <2>3, <2>5, <3>1
  <2> QED BY <2>2, <2>4, <2>5 DEF WhatFor, Written
<1>9. CASE todo = <<>> /\ Return(p, {})
  <2>1. pass'[p] = NoPass /\ \A q \in Pass : q # p => pass'[q] = pass[q]
    BY <1>5, <1>7, <1>9, ReturnTyped
  <2>2. Under(k)' = Under(k) \ {p}
    BY <2>1, ReturnUnder
  <2>3. /\ harm'[k] = harm[k]
        /\ confirmed'[k] = IF k \in KeysOf(p) \ pass[p].hurt
                           THEN [at |-> pass[p].at, odds |-> Level(p, k)] ELSE confirmed[k]
    BY <1>9, ReturnKeeps
  <2>4. CASE k \notin KeysOf(p)
    <3>1. p \notin Under(k)
      BY <2>4 DEF Under
    <3>2. Under(k)' = Under(k) /\ confirmed'[k] = confirmed[k]
      BY <2>2, <2>3, <2>4, <3>1
    <3> QED BY <1>5, <1>6, <2>1, <2>3, <3>1, <3>2, OtherKey
  <2>5. CASE k \in KeysOf(p) /\ k \in pass[p].hurt
    BY <1>6, <2>1, <2>2, <2>3, <2>5, HurtKey
  <2>6. CASE k \in KeysOf(p) /\ k \notin pass[p].hurt
    <3>1. DOMAIN todo = {}
      BY <1>9
    <3>2. Under(k)' = {} /\ \E r \in Latest(SnapsOf(k)) : r.odds = Level(p, k) /\ pass[p].at - r.at < RefreshEvery
      <4>1. ~Written(todo, latest, targets, k, Level(p, k))
        BY <3>1 DEF Written, At
      <4> QED BY <1>8, <2>2, <2>6, <4>1
    <3> QED BY <1>6, <1>7, <2>3, <2>6, <3>2, SkippedKey
  <2> QED BY <2>4, <2>5, <2>6
<1>10. CASE Loads(p, todo)
  <2>1. /\ \A q \in Pass : q # p => pass'[q] = pass[q]
        /\ pass'[p].step = "write" /\ pass'[p].at = pass[p].at /\ pass'[p].points = pass[p].points
        /\ pass'[p].todo = todo /\ pass'[p].hurt = pass[p].hurt
        /\ pass'[p].wrote = {todo[i].row.key : i \in DOMAIN todo} /\ KeysOf(p)' = KeysOf(p)
    <3>1. todo \in Seq(Writing) /\ \A i \in DOMAIN todo : todo[i].row.key \in Key
      BY <1>4 DEF Together
    <3> QED BY <1>10, <3>1, LoadsIs
  <2>2. harm' = harm /\ confirmed' = confirmed
    BY <1>10 DEF Loads
  <2>3. Under(k)' = Under(k)
    BY <1>7, <2>1, GoesOnUnder
  <2>4. CASE k \notin KeysOf(p)
    <3>1. p \notin Under(k) /\ harm'[k] = harm[k] /\ confirmed'[k] = confirmed[k]
      BY <2>2, <2>4 DEF Under
    <3> QED BY <1>5, <1>6, <2>1, <2>3, <3>1, OtherKey
  <2>5. CASE k \in KeysOf(p) /\ k \in pass[p].hurt
    BY <1>6, <2>1, <2>2, <2>3, <2>5, HurtKey
  <2>6. CASE k \in KeysOf(p) /\ k \notin pass[p].hurt
    <3>1. /\ Under(k) = {p} /\ Under(k)' = {p} /\ Loaded(k) = {} /\ Writers(k) = {} /\ Loaded(k)' = {p}
          /\ Level(p, k)' = Level(p, k) /\ harm'[k] = harm[k]
      <4>1. Under(k) = {p} /\ Under(k)' = {p}
        BY <1>8, <2>3, <2>6
      <4>2. Loaded(k) = {} /\ Writers(k) = {} /\ Loaded(k)' = {p}
        BY <1>1, <2>1, <4>1 DEF Loaded, Writers
      <4>3. Level(p, k)' = Level(p, k)
        BY <2>1, SameLevelLater
      <4> QED BY <2>2, <4>1, <4>2, <4>3
    <3>2. \A q \in Under(k)' : IF k \in pass'[q].hurt THEN harm'[k] = "torn" ELSE Under(k)' = {q}
      BY <2>1, <2>6, <3>1
    <3>3. (\A r \in SnapsOf(k)' : r.at < pass'[p].at) /\ \A r \in PricesOf(k)' : r.at < pass'[p].at
      <4>1. Intact(p, k) /\ k \notin pass[p].wrote
        BY <1>7, <2>6, <3>1 DEF Intact
      <4> QED BY <1>6, <2>1, <3>1, <4>1 DEF KeyInv
    <3>4. harm'[k] = "none" => Whole(SnapsOf(k)', PricesOf(k)')
      <4>1. harm[k] = "none" => Whole(SnapsOf(k), PricesOf(k))
        BY DEF KeyInv
      <4> QED BY <1>6, <3>1, <4>1
    <3>5. CASE /\ \A i \in DOMAIN todo : todo[i].row.key # k
               /\ \E r \in Latest(SnapsOf(k)) : r.odds = Level(p, k) /\ pass[p].at - r.at < RefreshEvery
      <4>1. Writers(k)' = {}
        BY <2>1, <3>1, <3>5 DEF Writers
      <4>2. \E r \in Latest(SnapsOf(k)') : r.odds = Level(p, k)' /\ pass'[p].at - r.at < RefreshEvery
        BY <1>6, <2>1, <3>1, <3>5
      <4>3. harm'[k] # "torn" => OneLast(SnapsOf(k)') /\ Alike(SnapsOf(k)', PricesOf(k)')
        <5>1. harm[k] # "torn" => OneLast(SnapsOf(k)) /\ Alike(SnapsOf(k), PricesOf(k))
          BY <3>1 DEF KeyInv
        <5> QED BY <1>6, <3>1, <5>1
      <4> QED BY <1>6, <3>1, <3>2, <3>3, <3>4, <4>1, <4>2, <4>3 DEF KeyInv
    <3>6. CASE Written(todo, latest, targets, k, Level(p, k))
      <4>1. Level(p, k) \in Odds
        BY <1>7, <2>6, OnePrice
      <4>2. /\ SnapsPlanned(SnapsOf(k), Listed(todo, "insert", k), Listed(todo, "refresh", k), pass[p].at, Level(p, k))
            /\ PricesPlanned(PricesOf(k), Listed(todo, "change", k), pass[p].at, Level(p, k))
            /\ harm[k] = "none" => Newsworthy(SnapsOf(k), PricesOf(k), Listed(todo, "insert", k),
                                              Listed(todo, "refresh", k), Listed(todo, "change", k))
            /\ \E i \in DOMAIN todo : todo[i].row.key = k
        <5> DEFINE o == Level(p, k)
        <5>1. o \in Odds /\ Written(todo, latest, targets, k, o)
          BY <3>6, <4>1
        <5> HIDE DEF o
        <5>2. /\ SnapsPlanned(SnapsOf(k), Listed(todo, "insert", k), Listed(todo, "refresh", k), pass[p].at, o)
              /\ PricesPlanned(PricesOf(k), Listed(todo, "change", k), pass[p].at, o)
              /\ harm[k] = "none" => Newsworthy(SnapsOf(k), PricesOf(k), Listed(todo, "insert", k),
                                                Listed(todo, "refresh", k), Listed(todo, "change", k))
              /\ \E i \in DOMAIN todo : todo[i].row.key = k
          BY <1>1, <1>4, <2>6, <3>1, <5>1, SnapsArePlanned
        <5> QED BY <5>2 DEF o
      <4>3. /\ Pending(p, k, "insert")' = Listed(todo, "insert", k)
            /\ Pending(p, k, "refresh")' = Listed(todo, "refresh", k)
            /\ Pending(p, k, "change")' = Listed(todo, "change", k)
        <5>1. Todo(p)' = {todo[i] : i \in DOMAIN todo}
          BY <2>1 DEF Todo
        <5> QED BY <5>1 DEF Pending, Listed, At
      <4>4. Writers(k)' = {p} /\ k \in pass'[p].wrote
        BY <2>1, <3>1, <4>2 DEF Writers
      <4>5. SnapPlan(p, k)' /\ PricePlan(p, k)' /\ (harm'[k] = "none" => NewsPlan(p, k)')
        BY <1>6, <2>1, <3>1, <4>2, <4>3 DEF SnapPlan, PricePlan, NewsPlan
      <4> QED BY <1>6, <3>1, <3>2, <3>3, <3>4, <4>4, <4>5 DEF KeyInv
    <3> QED BY <1>8, <2>6, <3>5, <3>6
  <2> QED BY <2>4, <2>5, <2>6
<1> QED BY <1>1, <1>2, <1>9, <1>10

\* What a write leaves to be written.
Left(rest, kind, k) == {v \in rest : v.kind = kind /\ v.row.key = k}
LEMMA LeftIs ==
    ASSUME NEW p, NEW w, NEW rest, Todo(p) = rest \union {w}, NEW k, w.row.key = k,
           w.kind \in {"insert", "refresh", "change"}, \A v \in rest : Distinct(w, v, pass[p].hurt),
           k \notin pass[p].hurt
    PROVE  /\ w.kind # "insert" => Left(rest, "insert", k) = Pending(p, k, "insert")
           /\ w.kind # "refresh" => Left(rest, "refresh", k) = Pending(p, k, "refresh")
           /\ w.kind # "change" => Left(rest, "change", k) = Pending(p, k, "change")
           /\ w.kind = "insert" => w \in Pending(p, k, "insert")
                /\ (Pending(p, k, "insert") = {w} => Left(rest, "insert", k) = {})
           /\ w.kind = "refresh" => w \in Pending(p, k, "refresh")
                /\ Left(rest, "refresh", k) \subseteq Pending(p, k, "refresh")
           /\ w.kind = "change" => w \in Pending(p, k, "change")
                /\ (Pending(p, k, "change") = {w} => Left(rest, "change", k) = {})
<1>1. \A kind : Pending(p, k, kind) = {v \in rest \union {w} : v.kind = kind /\ v.row.key = k}
  BY DEF Pending
<1>2. \A kind : w.kind # kind => Left(rest, kind, k) = Pending(p, k, kind)
  BY <1>1 DEF Left
<1>3. \A kind : Left(rest, kind, k) \subseteq Pending(p, k, kind)
  BY <1>1 DEF Left
<1>4. w \in Pending(p, k, w.kind)
  BY <1>1
<1>5. w.kind \in {"insert", "change"} => w \notin rest
  BY DEF Distinct
<1>6. w.kind = "insert" /\ Pending(p, k, "insert") = {w} => Left(rest, "insert", k) = {}
  BY <1>3, <1>5 DEF Left
<1>7. w.kind = "change" /\ Pending(p, k, "change") = {w} => Left(rest, "change", k) = {}
  BY <1>3, <1>5 DEF Left
<1> QED BY <1>2, <1>3, <1>4, <1>6, <1>7

\* A write of another key.
LEMMA PutElsewhere ==
    ASSUME TypeInv, IdInv, NEW p \in Busy, NEW w \in Todo(p), Put(w), NEW k, w.row.key # k
    PROVE  SnapsOf(k)' = SnapsOf(k) /\ PricesOf(k)' = PricesOf(k)
<1>1. CASE w.kind = "insert"
  BY <1>1 DEF Put, SnapsOf, PricesOf
<1>2. CASE w.kind = "refresh"
  <2>1. snaps' = {IF s.id = w.row.id THEN [s EXCEPT !.at = w.row.at] ELSE s : s \in snaps} /\ prices' = prices
    BY <1>2 DEF Put, Refreshed
  <2>2. \A s \in snaps : s.id = w.row.id => s.key # k
    BY <1>2 DEF IdInv
  <2>3. ASSUME NEW s \in snaps PROVE [s EXCEPT !.at = w.row.at].key = s.key
    <3>1. s \in Snapshots
      BY DEF TypeInv
    <3> QED BY <3>1 DEF Snapshots
  <2>4. \A r \in snaps' : r.key = k => r \in snaps
    <3> TAKE r \in snaps'
    <3>1. PICK s \in snaps : r = IF s.id = w.row.id THEN [s EXCEPT !.at = w.row.at] ELSE s
      BY <2>1
    <3>2. CASE s.id = w.row.id
      <4>1. r.key = s.key
        BY <2>3, <3>1, <3>2
      <4> QED BY <2>2, <3>2, <4>1
    <3> QED BY <3>1, <3>2
  <2>5. \A s \in snaps : s.key = k => s \in snaps'
    BY <2>1, <2>2
  <2> QED BY <2>1, <2>4, <2>5 DEF SnapsOf, PricesOf
<1>3. CASE w.kind = "change"
  BY <1>3 DEF Put, Appended, SnapsOf, PricesOf
<1> QED BY <1>1, <1>2, <1>3 DEF Put

\* The end of a plan.
AsPlanned(S, Q, I, R, C, at, o, none) ==
    /\ SnapsPlanned(S, I, R, at, o) /\ PricesPlanned(Q, C, at, o) /\ OneAtATime(Q)
    /\ none => Newsworthy(S, Q, I, R, C) /\ Whole(S, Q)

LEMMA InsertPlanned ==
    ASSUME NEW S, NEW Q, NEW I, NEW R, NEW C, NEW at \in Int, NEW o, NEW none \in BOOLEAN,
           AsPlanned(S, Q, I, R, C, at, o, none), \A s \in S : s.at \in Int,
           NEW w \in I, w.row.at = at
    PROVE  I = {w} /\ AsPlanned(S \union {w.row}, Q, {}, R, C, at, o, none)
<1>1. I = {w} /\ w.row.odds = o /\ R = {} /\ \A s \in S : s.at < at
  BY DEF AsPlanned, SnapsPlanned
<1> DEFINE x == w.row
           T == S \union {x}
<1>2. x.at = at /\ x.odds = o
  BY <1>1
<1> HIDE DEF x
<1>3. /\ OneAtATime(S) => OneAtATime(T)
      /\ LevelsDiffer(S) /\ (\A r \in Latest(S) : r.odds # x.odds) => LevelsDiffer(T)
  BY <1>1, <1>2, Lengthened
<1>4. SnapsPlanned(T, {}, R, at, o)
  BY <1>1, <1>2 DEF SnapsPlanned
<1>5. ASSUME none PROVE Newsworthy(T, Q, {}, R, C) /\ Whole(T, Q)
  <2>1. Newsworthy(S, Q, I, R, C) /\ Whole(S, Q)
    BY <1>5 DEF AsPlanned
  <2>2. \A r \in Latest(S) : r.odds # x.odds
    BY <2>1 DEF Newsworthy, x
  <2>3. Whole(T, Q)
    BY <1>3, <2>1, <2>2 DEF Whole
  <2> QED BY <1>1, <2>1, <2>3 DEF Newsworthy
<1> QED BY <1>1, <1>4, <1>5 DEF AsPlanned, x

LEMMA ChangePlanned ==
    ASSUME NEW S, NEW Q, NEW I, NEW R, NEW C, NEW at \in Int, NEW o, NEW none \in BOOLEAN,
           AsPlanned(S, Q, I, R, C, at, o, none), \A q \in Q : q.at \in Int,
           NEW w \in C, w.row.at = at
    PROVE  C = {w} /\ (\A q \in Q : q.at < at) /\ AsPlanned(S, Q \union {w.row}, I, R, {}, at, o, none)
<1>1. C = {w} /\ w.row.odds = o /\ \A q \in Q : q.at < at
  BY DEF AsPlanned, PricesPlanned
<1> DEFINE x == w.row
           T == Q \union {x}
<1>2. x.at = at /\ x.odds = o
  BY <1>1
<1> HIDE DEF x
<1>3. /\ Latest(T) = {x}
      /\ OneAtATime(Q) => OneAtATime(T)
      /\ Chained(Q) /\ x.prev # x.odds /\ (\A r \in Latest(Q) : x.prev = r.odds) => Chained(T)
  <2>1. x.at \in Int /\ \A q \in Q : q.at \in Int /\ q.at < x.at
    BY <1>1, <1>2
  <2> QED BY <2>1, Lengthened
<1>4. OneAtATime(T)
  BY <1>3 DEF AsPlanned
<1>5. PricesPlanned(T, {}, at, o)
  <2>1. \A q \in T : q.at <= at
    BY <1>1, <1>2
  <2>2. \A q \in Latest(T) : q.odds = o
    BY <1>2, <1>3 DEF AsPlanned
  <2> QED BY <2>1, <2>2 DEF PricesPlanned
<1>6. ASSUME none PROVE Newsworthy(S, T, I, R, {}) /\ Whole(S, T)
  <2>1. Newsworthy(S, Q, I, R, C) /\ Whole(S, Q)
    BY <1>6 DEF AsPlanned
  <2>2. x.prev # x.odds /\ \A r \in Latest(Q) : x.prev = r.odds
    BY <2>1 DEF Newsworthy, x
  <2>3. Whole(S, T)
    BY <1>3, <2>1, <2>2 DEF Whole
  <2> QED BY <2>1, <2>3 DEF Newsworthy
<1>7. SnapsPlanned(S, I, R, at, o)
  BY DEF AsPlanned
<1> QED BY <1>1, <1>4, <1>5, <1>6, <1>7 DEF AsPlanned, x

LEMMA RefreshPlanned ==
    ASSUME NEW S \in SUBSET Snapshots, NEW Q, NEW I, NEW R, NEW C, NEW at \in 1..MaxNow, NEW o, NEW none \in BOOLEAN,
           AsPlanned(S, Q, I, R, C, at, o, none), \A r, s \in S : r.id = s.id => r = s,
           NEW w \in R, NEW B \in SUBSET R
    PROVE  LET T == {IF s.id = w.row.id THEN [s EXCEPT !.at = at] ELSE s : s \in S}
           IN  AsPlanned(T, Q, I, B, C, at, o, none)
<1> DEFINE T == {IF s.id = w.row.id THEN [s EXCEPT !.at = at] ELSE s : s \in S}
<1>1. I = {}
  BY DEF AsPlanned, SnapsPlanned
<1>2. PICK r \in S : /\ r.odds = o /\ r.at <= at /\ \A s \in S : s = r \/ s.at < at
                     /\ \A v \in R : v.row.id = r.id
  BY DEF AsPlanned, SnapsPlanned
<1> DEFINE x == [r EXCEPT !.at = at]
<1>3. T = {IF s = r THEN x ELSE s : s \in S}
  <2>1. \A s \in S : s.id = w.row.id <=> s = r
    BY <1>2
  <2> DEFINE f(s) == IF s.id = w.row.id THEN [s EXCEPT !.at = at] ELSE s
             g(s) == IF s = r THEN x ELSE s
  <2>2. \A s \in S : f(s) = g(s)
    BY <2>1
  <2> HIDE DEF f, g
  <2>3. {f(s) : s \in S} = {g(s) : s \in S}
    BY <2>2
  <2> QED BY <2>3 DEF f, g
<1>4. /\ Latest(T) = {x}
      /\ OneAtATime(S) => OneAtATime(T)
      /\ OneAtATime(S) /\ r \in Latest(S) /\ LevelsDiffer(S) => LevelsDiffer(T)
  <2> DEFINE U == {IF s = r THEN x ELSE s : s \in S}
  <2>1. /\ Latest(U) = {x}
        /\ OneAtATime(S) => OneAtATime(U)
        /\ OneAtATime(S) /\ r \in Latest(S) /\ LevelsDiffer(S) => LevelsDiffer(U)
    BY <1>2, Restamped
  <2>2. T = U
    BY <1>3
  <2> HIDE DEF T, U, x
  <2> QED BY <2>1, <2>2
<1>5. x.at = at /\ x.odds = o /\ x.id = r.id
  <2>1. r \in Snapshots
    OBVIOUS
  <2> QED BY <1>2, <2>1 DEF Snapshots
<1> HIDE DEF T, x
<1>6. x \in T /\ \A y \in T : y = x \/ (y \in S /\ y # r)
  BY <1>2, <1>3
<1>7. \A y \in T : y = x \/ y.at < at
  BY <1>2, <1>6
<1>8. \A y \in T : y.id = r.id => y = x
  BY <1>6
<1>9. SnapsPlanned(T, I, B, at, o)
  <2>1. x \in T /\ x.odds = o /\ x.at <= at /\ (\A v \in B : v.row.id = x.id) /\ x.at = at
    BY <1>2, <1>5, <1>6, PriceStoreAssumption
  <2> QED BY <1>1, <1>7, <2>1 DEF SnapsPlanned
<1>10. ASSUME none PROVE Newsworthy(T, Q, I, B, C) /\ Whole(T, Q)
  <2>1. Newsworthy(S, Q, I, R, C) /\ Whole(S, Q)
    BY <1>10 DEF AsPlanned
  <2>2. r \in Latest(S)
    BY <1>2, <2>1 DEF Newsworthy
  <2>3. Whole(T, Q)
    BY <1>4, <2>1, <2>2 DEF Whole
  <2>4. \A v \in B : \A y \in T : y.id = v.row.id => y \in Latest(T)
    BY <1>2, <1>4, <1>8
  <2> QED BY <1>1, <2>1, <2>3, <2>4 DEF Newsworthy
<1>11. PricesPlanned(Q, C, at, o) /\ OneAtATime(Q)
  BY DEF AsPlanned
<1>12. AsPlanned(T, Q, I, B, C, at, o, none)
  BY <1>9, <1>10, <1>11 DEF AsPlanned
<1> QED BY <1>12 DEF T

LEMMA PutOnPlan ==
    ASSUME TypeInv, IdInv, NEW k \in Key, KeyInv(k), NEW p \in Pass, pass[p].step = "write", k \in KeysOf(p),
           k \notin pass[p].hurt, NEW w \in Todo(p), w.row.key = k, Put(w),
           NEW rest, Todo(p) = rest \union {w}, \A v \in rest : Distinct(w, v, pass[p].hurt)
    PROVE  AsPlanned(SnapsOf(k)', PricesOf(k)', Left(rest, "insert", k), Left(rest, "refresh", k),
                     Left(rest, "change", k), pass[p].at, Level(p, k), harm[k] = "none")
<1> DEFINE S == SnapsOf(k)
           Q == PricesOf(k)
           I == Pending(p, k, "insert")
           R == Pending(p, k, "refresh")
           C == Pending(p, k, "change")
           at == pass[p].at
           o == Level(p, k)
           none == (harm[k] = "none")
<1>1. /\ w \in Writing /\ w.row.at = at /\ k \in pass[p].wrote /\ w.kind \in {"insert", "refresh", "change"}
      /\ p \in Busy
  BY TodoIs
<1>2. p \in Writers(k) /\ Intact(p, k)
  BY <1>1, PointsMatter DEF Writers, Loaded, Intact
<1>3. AsPlanned(S, Q, I, R, C, at, o, none)
  BY <1>2 DEF KeyInv, AsPlanned, SnapPlan, PricePlan, NewsPlan
<1>4. /\ w.kind # "insert" => Left(rest, "insert", k) = I
      /\ w.kind # "refresh" => Left(rest, "refresh", k) = R
      /\ w.kind # "change" => Left(rest, "change", k) = C
      /\ w.kind = "insert" => w \in I /\ (I = {w} => Left(rest, "insert", k) = {})
      /\ w.kind = "refresh" => w \in R /\ Left(rest, "refresh", k) \subseteq R
      /\ w.kind = "change" => w \in C /\ (C = {w} => Left(rest, "change", k) = {})
  BY <1>1, LeftIs
<1>5. /\ S \subseteq Snapshots /\ (\A s \in S : s.at \in Int) /\ (\A q \in Q : q.at \in Int)
      /\ at \in 1..MaxNow /\ at \in Int /\ none \in BOOLEAN /\ \A r, s \in S : r.id = s.id => r = s
  <2>1. \A s \in snaps : s \in Snapshots /\ s.at \in Int
    BY PriceStoreAssumption DEF TypeInv, Snapshots
  <2>2. \A q \in prices : q.at \in Int
    BY PriceStoreAssumption DEF TypeInv, ChangePoints
  <2>3. at \in 1..MaxNow /\ at \in Int
    <3>1. pass[p].at \in 1..now /\ now \in 0..MaxNow /\ MaxNow \in Nat
      BY PassIs, PriceStoreAssumption DEF TypeInv
    <3> QED BY <3>1
  <2>4. \A r, s \in S : r.id = s.id => r = s
    BY DEF IdInv, SnapsOf
  <2> QED BY <2>1, <2>2, <2>3, <2>4 DEF SnapsOf, PricesOf
<1>6. CASE w.kind = "insert"
  <2>1. SnapsOf(k)' = S \union {w.row} /\ PricesOf(k)' = Q
    BY <1>6 DEF Put, SnapsOf, PricesOf
  <2> HIDE DEF S, Q, I, R, C, at, o, none
  <2>2. I = {w} /\ AsPlanned(S \union {w.row}, Q, {}, R, C, at, o, none)
    BY <1>1, <1>3, <1>4, <1>5, <1>6, InsertPlanned
  <2>3. Left(rest, "insert", k) = {} /\ Left(rest, "refresh", k) = R /\ Left(rest, "change", k) = C
    BY <1>4, <1>6, <2>2
  <2>4. AsPlanned(SnapsOf(k)', PricesOf(k)', Left(rest, "insert", k), Left(rest, "refresh", k),
                  Left(rest, "change", k), at, o, none)
    BY <2>1, <2>2, <2>3
  <2> QED BY <2>4 DEF at, o, none
<1>7. CASE w.kind = "refresh"
  <2>1. SnapsOf(k)' = {IF s.id = w.row.id THEN [s EXCEPT !.at = at] ELSE s : s \in S} /\ PricesOf(k)' = Q
    <3>1. snaps' = {IF s.id = w.row.id THEN [s EXCEPT !.at = at] ELSE s : s \in snaps} /\ prices' = prices
      BY <1>1, <1>7 DEF Put, Refreshed
    <3> HIDE DEF at
    <3> DEFINE f(s) == IF s.id = w.row.id THEN [s EXCEPT !.at = at] ELSE s
    <3>2. \A s \in snaps : f(s).key = s.key
      <4> TAKE s \in snaps
      <4>1. s \in Snapshots
        BY DEF TypeInv
      <4>2. [s EXCEPT !.at = at].key = s.key
        BY <4>1 DEF Snapshots
      <4> QED BY <4>2
    <3>3. snaps' = {f(s) : s \in snaps}
      BY <3>1
    <3> HIDE DEF f
    <3>4. {r \in snaps' : r.key = k} = {f(s) : s \in {x \in snaps : x.key = k}}
      BY <3>2, <3>3
    <3>5. SnapsOf(k)' = {r \in snaps' : r.key = k} /\ S = {x \in snaps : x.key = k}
      BY DEF SnapsOf
    <3>6. SnapsOf(k)' = {f(s) : s \in S}
      BY <3>4, <3>5, Zenon
    <3>7. PricesOf(k)' = Q
      BY <3>1 DEF PricesOf
    <3> QED BY <3>6, <3>7 DEF f
  <2> HIDE DEF S, Q, I, R, C, at, o, none
  <2> DEFINE T == {IF s.id = w.row.id THEN [s EXCEPT !.at = at] ELSE s : s \in S}
             B == Left(rest, "refresh", k)
  <2>2. w \in R /\ B \subseteq R /\ S \in SUBSET Snapshots
    BY <1>4, <1>5, <1>7
  <2> HIDE DEF B
  <2>3. AsPlanned(T, Q, I, B, C, at, o, none)
    <3>1. /\ S \in SUBSET Snapshots /\ at \in 1..MaxNow /\ none \in BOOLEAN /\ w \in R /\ B \in SUBSET R
          /\ AsPlanned(S, Q, I, R, C, at, o, none)
      BY <1>3, <1>5, <2>2
    <3>2. \A r, s \in S : r.id = s.id => r = s
      BY <1>5
    <3> QED BY <3>1, <3>2, RefreshPlanned
  <2> HIDE DEF T
  <2>4. SnapsOf(k)' = T /\ PricesOf(k)' = Q /\ Left(rest, "insert", k) = I /\ Left(rest, "change", k) = C
    BY <1>4, <1>7, <2>1 DEF T
  <2>5. AsPlanned(SnapsOf(k)', PricesOf(k)', Left(rest, "insert", k), B, Left(rest, "change", k), at, o, none)
    BY <2>3, <2>4
  <2> QED BY <2>5 DEF at, o, none, B
<1>8. CASE w.kind = "change"
  <2> DEFINE T == Q \union {w.row}
  <2>1. C = {w} /\ (\A q \in Q : q.at < at) /\ AsPlanned(S, T, I, R, {}, at, o, none)
    <3> HIDE DEF S, Q, I, R, C, at, o, none
    <3>1. /\ at \in Int /\ none \in BOOLEAN /\ AsPlanned(S, Q, I, R, C, at, o, none)
          /\ w \in C /\ w.row.at = at
      BY <1>1, <1>3, <1>4, <1>5, <1>8
    <3>2. \A q \in Q : q.at \in Int
      BY <1>5
    <3> QED BY <3>1, <3>2, ChangePlanned DEF T
  <2>2. SnapsOf(k)' = S /\ PricesOf(k)' = T
    <3>1. snaps' = snaps /\ prices' = Appended(w.row)
      BY <1>8 DEF Put
    <3>2. ~\E q \in prices : q.key = w.row.key /\ q.at = w.row.at
      BY <1>1, <1>5, <2>1 DEF PricesOf
    <3>3. prices' = prices \union {w.row}
      BY <3>1, <3>2 DEF Appended
    <3> QED BY <3>1, <3>3 DEF SnapsOf, PricesOf
  <2> HIDE DEF S, Q, I, R, C, at, o, none, T
  <2>3. Left(rest, "insert", k) = I /\ Left(rest, "refresh", k) = R /\ Left(rest, "change", k) = {}
    BY <1>4, <1>8, <2>1
  <2>4. AsPlanned(SnapsOf(k)', PricesOf(k)', Left(rest, "insert", k), Left(rest, "refresh", k),
                  Left(rest, "change", k), at, o, none)
    BY <2>1, <2>2, <2>3
  <2> QED BY <2>4 DEF at, o, none
<1> QED BY <1>1, <1>6, <1>7, <1>8

\* One change point at a time, whoever writes it.
LEMMA PutOneAtATime ==
    ASSUME TypeInv, NEW w, Put(w), NEW k, OneAtATime(PricesOf(k))
    PROVE  OneAtATime(PricesOf(k))'
<1>1. CASE w.kind # "change"
  <2>1. prices' = prices
    BY <1>1 DEF Put
  <2>2. PricesOf(k)' = PricesOf(k)
    BY <2>1 DEF PricesOf
  <2> QED BY <2>2 DEF OneAtATime
<1>2. CASE w.kind = "change"
  <2>1. \/ prices' = prices
        \/ prices' = prices \union {w.row} /\ ~\E q \in prices : q.key = w.row.key /\ q.at = w.row.at
    BY <1>2 DEF Put, Appended
  <2>2. OneAtATime(PricesOf(k)')
    BY <2>1 DEF PricesOf, OneAtATime
  <2> QED BY <2>2 DEF OneAtATime
<1> QED BY <1>1, <1>2

\* A pass returns having written all it planned for a key.
LEMMA WrittenKey ==
    ASSUME TypeInv, NEW k \in Key, KeyInv(k), NEW p \in Pass, k \in KeysOf(p), k \notin pass[p].hurt,
           k \in pass[p].wrote, Under(k)' = {}, Return(p, pass[p].wrote),
           \A s \in snaps' : s.at \in Int, \A q \in prices' : q.at \in Int,
           AsPlanned(SnapsOf(k)', PricesOf(k)', {}, {}, {}, pass[p].at, Level(p, k), harm[k] = "none")
    PROVE  KeyInv(k)'
<1>1. /\ harm'[k] = IF harm[k] = "torn" THEN "mended" ELSE harm[k]
      /\ confirmed'[k] = [at |-> pass[p].at, odds |-> Level(p, k)]
  BY ReturnKeeps
<1>2. PICK r \in SnapsOf(k)' : r.odds = Level(p, k) /\ r.at = pass[p].at /\ \A s \in SnapsOf(k)' : s = r \/ s.at < pass[p].at
  BY DEF AsPlanned, SnapsPlanned
<1>3. \A q \in Latest(PricesOf(k)') : q.odds = Level(p, k)
  BY DEF AsPlanned, PricesPlanned
<1>4. Latest(SnapsOf(k)') = {r}
  <2>1. pass[p].at \in Int /\ \A s \in SnapsOf(k)' : s.at \in Int
    BY PassIs DEF SnapsOf
  <2> QED BY <1>2, <2>1 DEF Latest
<1>5. OneLast(SnapsOf(k)') /\ Alike(SnapsOf(k)', PricesOf(k)')
  BY <1>2, <1>3, <1>4 DEF OneLast, Alike
<1>6. Confirms(k)'
  <2>1. confirmed'[k].at = pass[p].at /\ confirmed'[k].odds = Level(p, k)
    BY <1>1
  <2> QED BY <1>2, <1>4, <2>1 DEF Confirms
<1>7. harm'[k] = "none" => Whole(SnapsOf(k)', PricesOf(k)')
  BY <1>1 DEF AsPlanned
<1>8. OneAtATime(PricesOf(k)')
  BY DEF AsPlanned
<1>9. /\ OneAtATime(PricesOf(k))' /\ OneLast(SnapsOf(k))' /\ Alike(SnapsOf(k), PricesOf(k))'
      /\ harm'[k] = "none" => Whole(SnapsOf(k), PricesOf(k))'
  BY <1>5, <1>7, <1>8
<1> QED BY <1>6, <1>9, RestingKey

LEMMA CommitKey ==
    ASSUME TypeInv, IdInv, NEW k \in Key, KeyInv(k), NEW p \in Pass, Commit(p)
    PROVE  KeyInv(k)'
<1>1. PICK w \in Todo(p) :
              /\ w.row.at = pass[p].at /\ w.row.key \in pass[p].wrote
              /\ w.kind = "insert" => w.row.id[1] = pass[p].at
              /\ Put(w)
              /\ GoesOn(p, w) \/ (Return(p, pass[p].wrote) /\ Todo(p) = {w})
              /\ pass[p].step = "write" /\ UNCHANGED <<now, backend, retentionVars, mishaps>>
  BY CommitIs
<1>2. /\ now' = now /\ pass[p].step # "idle" /\ p \in Busy /\ pass[p].wrote \subseteq KeysOf(p)
      /\ now' \in Nat /\ now <= now'
  BY <1>1, PassIs DEF TypeInv, Busy, PassShape
<1>3. OneAtATime(PricesOf(k))'
  <2>1. OneAtATime(PricesOf(k))
    BY DEF KeyInv
  <2> QED BY <1>1, <2>1, PutOneAtATime
<1>4. w.row.key # k => SnapsOf(k)' = SnapsOf(k) /\ PricesOf(k)' = PricesOf(k)
  BY <1>1, <1>2, PutElsewhere
<1>5. (\A s \in snaps' : s.at \in Int) /\ \A q \in prices' : q.at \in Int
  <2>1. TypeInv'
    BY CommitTypes
  <2>2. snaps' \subseteq Snapshots /\ prices' \subseteq ChangePoints
    BY <2>1 DEF TypeInv
  <2> QED BY <2>2, PriceStoreAssumption DEF Snapshots, ChangePoints
<1>6. ASSUME k \in KeysOf(p), k \notin pass[p].hurt PROVE Under(k) = {p} /\ Loaded(k) = {p} /\ Intact(p, k)
  <2>1. Under(k) = {p} /\ p \in Under(k)
    BY <1>6, PointsMatter, UnhurtAlone
  <2> QED BY <1>1, <1>6, <2>1 DEF Loaded, Intact
<1>7. CASE GoesOn(p, w)
  <2>1. /\ \A q \in Pass : q # p => pass'[q] = pass[q]
        /\ pass'[p].step = "write" /\ pass'[p].at = pass[p].at /\ pass'[p].points = pass[p].points
        /\ pass'[p].hurt = pass[p].hurt /\ pass'[p].wrote = pass[p].wrote /\ KeysOf(p)' = KeysOf(p)
        /\ Todo(p) = Todo(p)' \union {w}
        /\ harm' = harm /\ confirmed' = confirmed
    BY <1>7 DEF GoesOn
  <2>2. Under(k)' = Under(k)
    BY <1>2, <2>1, GoesOnUnder
  <2>3. harm'[k] = harm[k] /\ confirmed'[k] = confirmed[k]
    BY <2>1
  <2>4. CASE k \notin KeysOf(p)
    <3>1. p \notin Under(k) /\ w.row.key # k
      BY <1>1, <1>2, <2>4 DEF Under
    <3> QED BY <1>2, <1>4, <2>1, <2>2, <2>3, <3>1, OtherKey
  <2>5. CASE k \in KeysOf(p) /\ k \in pass[p].hurt
    BY <1>3, <2>1, <2>2, <2>3, <2>5, HurtKey
  <2>6. CASE k \in KeysOf(p) /\ k \notin pass[p].hurt /\ w.row.key # k
    <3>1. /\ Pending(p, k, "insert")' = Pending(p, k, "insert")
          /\ Pending(p, k, "refresh")' = Pending(p, k, "refresh")
          /\ Pending(p, k, "change")' = Pending(p, k, "change")
      <4>1. \A kind : {v \in Todo(p)' : v.kind = kind /\ v.row.key = k} = {v \in Todo(p) : v.kind = kind /\ v.row.key = k}
        BY <2>1, <2>6
      <4> QED BY <4>1 DEF Pending
    <3>2. Unmoved(p, k)
      BY <1>1, <2>1, <3>1 DEF Unmoved
    <3>3. \A q \in Under(k) : Unmoved(q, k)
      BY <1>6, <2>6, <3>2
    <3> QED BY <1>2, <1>4, <2>2, <2>3, <2>6, <3>3, KeyUntouched
  <2>7. CASE k \in KeysOf(p) /\ k \notin pass[p].hurt /\ w.row.key = k
    <3>1. PICK rest : rest = Todo(p)'
      OBVIOUS
    <3>2. Todo(p) = rest \union {w} /\ \A v \in rest : Distinct(w, v, pass[p].hurt)
      BY <1>7, <3>1 DEF GoesOn
    <3>3. AsPlanned(SnapsOf(k)', PricesOf(k)', Left(rest, "insert", k), Left(rest, "refresh", k),
                    Left(rest, "change", k), pass[p].at, Level(p, k), harm[k] = "none")
      BY <1>1, <2>7, <3>2, PutOnPlan
    <3>4. /\ Pending(p, k, "insert")' = Left(rest, "insert", k)
          /\ Pending(p, k, "refresh")' = Left(rest, "refresh", k)
          /\ Pending(p, k, "change")' = Left(rest, "change", k)
      BY <3>1 DEF Pending, Left
    <3>5. Level(p, k)' = Level(p, k)
      BY <2>1, SameLevelLater
    <3>6. Under(k)' = {p} /\ Loaded(k)' = {p} /\ Writers(k)' = {p} /\ k \in pass'[p].wrote
      <4>1. Under(k)' = {p} /\ k \in pass'[p].wrote
        BY <1>1, <1>6, <2>1, <2>2, <2>7
      <4> QED BY <2>1, <4>1 DEF Loaded, Writers
    <3>7. /\ SnapPlan(p, k)' /\ PricePlan(p, k)'
          /\ harm'[k] = "none" => NewsPlan(p, k)' /\ Whole(SnapsOf(k)', PricesOf(k)')
      BY <2>1, <3>3, <3>4, <3>5 DEF AsPlanned, SnapPlan, PricePlan, NewsPlan
    <3>8. \A q \in Under(k)' : IF k \in pass'[q].hurt THEN harm'[k] = "torn" ELSE Under(k)' = {q}
      BY <2>1, <2>7, <3>6
    <3> QED BY <1>3, <3>6, <3>7, <3>8 DEF KeyInv
  <2> QED BY <2>4, <2>5, <2>6, <2>7
<1>8. CASE Return(p, pass[p].wrote) /\ Todo(p) = {w}
  <2>1. pass'[p] = NoPass /\ \A q \in Pass : q # p => pass'[q] = pass[q]
    BY <1>2, <1>8, ReturnTyped
  <2>2. Under(k)' = Under(k) \ {p}
    BY <2>1, ReturnUnder
  <2>3. /\ harm'[k] = IF harm[k] = "torn" /\ k \in pass[p].wrote \ pass[p].hurt THEN "mended" ELSE harm[k]
        /\ confirmed'[k] = IF k \in KeysOf(p) \ pass[p].hurt
                           THEN [at |-> pass[p].at, odds |-> Level(p, k)] ELSE confirmed[k]
    BY <1>8, ReturnKeeps
  <2>4. CASE k \notin KeysOf(p)
    <3>1. p \notin Under(k) /\ w.row.key # k
      BY <1>1, <1>2, <2>4 DEF Under
    <3>2. Under(k)' = Under(k) /\ harm'[k] = harm[k] /\ confirmed'[k] = confirmed[k]
      BY <1>2, <2>2, <2>3, <2>4, <3>1
    <3> QED BY <1>2, <1>4, <2>1, <3>1, <3>2, OtherKey
  <2>5. CASE k \in KeysOf(p) /\ k \in pass[p].hurt
    <3>1. harm'[k] = harm[k]
      BY <2>3, <2>5
    <3> QED BY <1>3, <2>1, <2>2, <2>5, <3>1, HurtKey
  <2>6. CASE k \in KeysOf(p) /\ k \notin pass[p].hurt /\ k \notin pass[p].wrote
    <3>1. w.row.key # k /\ Under(k)' = {} /\ p \in Loaded(k) \ Writers(k) /\ Intact(p, k)
      BY <1>1, <1>6, <2>2, <2>6 DEF Writers
    <3>2. \E r \in Latest(SnapsOf(k)) : r.odds = Level(p, k) /\ pass[p].at - r.at < RefreshEvery
      BY <3>1 DEF KeyInv
    <3>3. harm'[k] = harm[k] /\ confirmed'[k] = [at |-> pass[p].at, odds |-> Level(p, k)]
      BY <2>3, <2>6
    <3> QED BY <1>4, <2>6, <3>1, <3>2, <3>3, SkippedKey
  <2>7. CASE k \in KeysOf(p) /\ k \notin pass[p].hurt /\ k \in pass[p].wrote
    <3>1. Under(k)' = {}
      BY <1>6, <2>2, <2>7
    <3>2. AsPlanned(SnapsOf(k)', PricesOf(k)', {}, {}, {}, pass[p].at, Level(p, k), harm[k] = "none")
      <4>1. CASE w.row.key = k
        <5>1. PICK rest : rest = {}
          OBVIOUS
        <5>2. Todo(p) = rest \union {w} /\ \A v \in rest : Distinct(w, v, pass[p].hurt)
          BY <1>8, <5>1
        <5>3. AsPlanned(SnapsOf(k)', PricesOf(k)', Left(rest, "insert", k), Left(rest, "refresh", k),
                        Left(rest, "change", k), pass[p].at, Level(p, k), harm[k] = "none")
          BY <1>1, <2>7, <4>1, <5>2, PutOnPlan
        <5>4. Left(rest, "insert", k) = {} /\ Left(rest, "refresh", k) = {} /\ Left(rest, "change", k) = {}
          BY <5>1 DEF Left
        <5> QED BY <5>3, <5>4
      <4>2. CASE w.row.key # k
        <5>1. Pending(p, k, "insert") = {} /\ Pending(p, k, "refresh") = {} /\ Pending(p, k, "change") = {}
          BY <1>8, <4>2 DEF Pending
        <5>2. p \in Writers(k) /\ Intact(p, k)
          BY <1>6, <2>7 DEF Writers
        <5>3. /\ SnapPlan(p, k) /\ PricePlan(p, k) /\ OneAtATime(PricesOf(k))
              /\ harm[k] = "none" => NewsPlan(p, k) /\ Whole(SnapsOf(k), PricesOf(k))
          BY <5>2 DEF KeyInv
        <5>4. AsPlanned(SnapsOf(k), PricesOf(k), {}, {}, {}, pass[p].at, Level(p, k), harm[k] = "none")
          BY <5>1, <5>3 DEF AsPlanned, SnapPlan, PricePlan, NewsPlan
        <5> QED BY <1>4, <4>2, <5>4
      <4> QED BY <4>1, <4>2
    <3> QED BY <1>5, <1>8, <2>7, <3>1, <3>2, WrittenKey
  <2> QED BY <2>4, <2>5, <2>6, <2>7
<1> QED BY <1>1, <1>7, <1>8

(***************************************************************************)
(* Theorems                                                                *)
(***************************************************************************)

LEMMA InitInv == Init => IInv
<1> SUFFICES ASSUME Init PROVE IInv
  OBVIOUS
<1>1. /\ now = 0 /\ snaps = {} /\ prices = {} /\ pass = [p \in Pass |-> NoPass]
      /\ confirmed = [k \in Key |-> NeverConfirmed]
  BY DEF Init
<1>2. TypeInv
  BY InitTypes
<1>3. NoPass.step = "idle" /\ NeverConfirmed.at = 0
  BY DEF NoPass, NeverConfirmed
<1>4. Busy = {}
  BY <1>1, <1>3 DEF Busy
<1>5. IdInv
  BY <1>1, <1>4 DEF IdInv
<1>6. ASSUME NEW k \in Key PROVE KeyInv(k)
  <2>1. Under(k) = {} /\ Loaded(k) = {} /\ Writers(k) = {} /\ SnapsOf(k) = {} /\ PricesOf(k) = {}
    BY <1>1, <1>3 DEF Under, Loaded, Writers, SnapsOf, PricesOf
  <2>2. OneLast({}) /\ Alike({}, {}) /\ Whole({}, {}) /\ OneAtATime({})
    BY DEF OneLast, Alike, Whole, OneAtATime, LevelsDiffer, Chained, Latest
  <2>3. ~(confirmed[k].at > 0)
    BY <1>1, <1>3
  <2> QED BY <2>1, <2>2, <2>3 DEF KeyInv
<1> QED BY <1>2, <1>5, <1>6 DEF IInv

LEMMA StepInv == IInv /\ [Next]_vars => IInv'
<1> SUFFICES ASSUME IInv, [Next]_vars PROVE IInv'
  OBVIOUS
<1>1. TypeInv /\ IdInv /\ \A k \in Key : KeyInv(k)
  BY DEF IInv
<1>2. ASSUME NEW p \in Pass, Begin(p) PROVE IInv'
  BY <1>1, <1>2, BeginTypes, BeginIds, BeginKey DEF IInv
<1>3. ASSUME NEW p \in Pass, Load(p) PROVE IInv'
  BY <1>1, <1>3, LoadTypes, LoadIds, LoadKey DEF IInv
<1>4. ASSUME NEW p \in Pass, Commit(p) PROVE IInv'
  BY <1>1, <1>4, CommitTypes, CommitIds, CommitKey DEF IInv
<1>5. ASSUME NEW p \in Pass, Die(p) PROVE IInv'
  BY <1>1, <1>5, DieTypes, DieIds, DieKey DEF IInv
<1>6. CASE PruneSnapshots
  <2>1. PICK gone \in SUBSET {r \in snaps : r.at < custodian.cutoff} :
            snaps' = snaps \ gone /\ prices' = prices /\ Pruned(DisturbedBy(gone, snaps))
    BY <1>1, <1>6, PruneSnapshotsIs
  <2>2. snaps' \subseteq snaps /\ prices' \subseteq prices
    BY <2>1
  <2>3. TypeInv' /\ IdInv'
    BY <1>1, <2>1, <2>2, PrunedTypes, PrunedIds
  <2> QED BY <1>1, <1>6, <2>3, PruneSnapshotsKey DEF IInv
<1>7. CASE PrunePrices
  <2>1. PICK gone \in SUBSET prices :
            snaps' = snaps /\ prices' = prices \ gone /\ Pruned(DisturbedBy(gone, prices))
    BY <1>1, <1>7, PrunePricesIs
  <2>2. snaps' \subseteq snaps /\ prices' \subseteq prices
    BY <2>1
  <2>3. TypeInv' /\ IdInv'
    BY <1>1, <2>1, <2>2, PrunedTypes, PrunedIds
  <2> QED BY <1>1, <1>7, <2>3, PrunePricesKey DEF IInv
<1>8. ASSUME Elsewhere, CareInv' PROVE IInv'
  BY <1>1, <1>8, ElsewhereTypes, ElsewhereIds, ElsewhereKey DEF IInv
<1>9. CASE BackUpAndPrune \/ PrunePostgres \/ SnapshotsDone \/ PricesDone \/ Wait
  BY <1>1, <1>8, <1>9, CareTypes
<1>10. CASE UNCHANGED vars
  <2>1. UNCHANGED <<backend, snaps, prices, pass, harm, confirmed, mishaps>> /\ now' = now /\ UNCHANGED retentionVars
    BY <1>10 DEF vars, retentionVars
  <2>2. Elsewhere
    BY <1>1, <2>1 DEF Elsewhere, TypeInv
  <2>3. CareInv'
    BY <1>1, <2>1 DEF CareInv, TypeInv, retentionVars
  <2> QED BY <1>8, <2>2, <2>3
<1> QED BY <1>2, <1>3, <1>4, <1>5, <1>6, <1>7, <1>9, <1>10 DEF Next, Record, Custodian

\* The invariant holds in every reachable state.
THEOREM PriceStoreInvariant == Spec => []IInv
  BY InitInv, StepInv, PTL DEF Spec

\* Type correctness: whatever the batches, the passes under way and the clock; in particular
\* no row is stored under the placeholder id of a row inserted in the same pass (record_points).
THEOREM TypeCorrect == Spec => []TypeOK
<1>1. IInv => TypeOK
  BY Consequences
<1> QED BY <1>1, PriceStoreInvariant, PTL

\* The two tables agree on the price of every key that is settled: the first undisturbed pass
\* that writes a key repairs what a dead pass, an overlap or a prune left (record_points).
THEOREM PricesAgree == Spec => []SeriesAgrees
<1>1. IInv => SeriesAgrees
  BY Consequences
<1> QED BY <1>1, PriceStoreInvariant, PTL

\* Neither table of an undisturbed key repeats a level, and the change points are a chain
\* without a gap (record_points, prune_snapshots, prune_prices).
THEOREM HistoryKept == Spec => []HistoryIsWhole
<1>1. IInv => HistoryIsWhole
  BY Consequences
<1> QED BY <1>1, PriceStoreInvariant, PTL

\* The standing row of a price is less than RefreshEvery behind the last pass that reported
\* it, and retention has not taken it (record_points, run_custodian).
THEOREM StampsLag == Spec => []StampLagsBehindLittle
<1>1. IInv => StampLagsBehindLittle
  BY Consequences
<1> QED BY <1>1, PriceStoreInvariant, PTL

\* Only a prune removes a row.
LEMMA OnlyPrunesRemove ==
    ASSUME IInv, [Next]_vars, ~PruneSnapshots
    PROVE  \A r \in snaps : \E s \in snaps' : s.id = r.id
<1>1. TypeInv
  BY DEF IInv
<1>2. ASSUME snaps' = snaps PROVE \A r \in snaps : \E s \in snaps' : s.id = r.id
  BY <1>2
<1>3. ASSUME NEW p \in Pass, Begin(p) PROVE snaps' = snaps
  BY <1>3 DEF Begin
<1>4. ASSUME NEW p \in Pass, Load(p) PROVE snaps' = snaps
  BY <1>4 DEF Load
<1>5. ASSUME NEW p \in Pass, Die(p) PROVE snaps' = snaps
  BY <1>5 DEF Die
<1>6. ASSUME NEW p \in Pass, Commit(p) PROVE \A r \in snaps : \E s \in snaps' : s.id = r.id
  <2>1. PICK w \in Todo(p) : Put(w)
    BY <1>1, <1>6, CommitIs
  <2>2. CASE w.kind # "refresh"
    BY <2>1, <2>2 DEF Put
  <2>3. CASE w.kind = "refresh"
    <3>1. snaps' = {IF s.id = w.row.id THEN [s EXCEPT !.at = w.row.at] ELSE s : s \in snaps}
      BY <2>1, <2>3 DEF Put, Refreshed
    <3> SUFFICES ASSUME NEW r \in snaps PROVE \E s \in snaps' : s.id = r.id
      OBVIOUS
    <3> DEFINE x == IF r.id = w.row.id THEN [r EXCEPT !.at = w.row.at] ELSE r
    <3>2. x \in snaps'
      BY <3>1
    <3>3. x.id = r.id
      <4>1. r \in Snapshots
        BY <1>1 DEF TypeInv
      <4> QED BY <4>1 DEF Snapshots
    <3> QED BY <3>2, <3>3
  <2> QED BY <2>2, <2>3
<1>7. ASSUME PrunePrices PROVE snaps' = snaps
  BY <1>7 DEF PrunePrices
<1>8. ASSUME BackUpAndPrune \/ PrunePostgres \/ SnapshotsDone \/ PricesDone \/ Wait PROVE snaps' = snaps
  BY <1>1, <1>8, CareTypes DEF Elsewhere
<1>9. ASSUME UNCHANGED vars PROVE snaps' = snaps
  BY <1>9 DEF vars
<1> QED BY <1>2, <1>3, <1>4, <1>5, <1>6, <1>7, <1>8, <1>9 DEF Next, Record, Custodian

\* Every row that retention deletes on SQLite is in a backup taken since it was last
\* written, unless the disk had no room for one (run_custodian).
THEOREM PrunesBackedUp == Spec => PrunedRowsAreBackedUp
<1> DEFINE BackedUp == \A r \in snaps : custodian.step = "snapshots" /\ backend = "sqlite" /\ custodian.room
                          /\ (\A s \in snaps' : s.id # r.id) => r.at <= backup
<1>1. IInv /\ [Next]_vars => BackedUp
  <2> SUFFICES ASSUME IInv, [Next]_vars, NEW r \in snaps, custodian.step = "snapshots", backend = "sqlite",
                      custodian.room, \A s \in snaps' : s.id # r.id
               PROVE  r.at <= backup
    OBVIOUS
  <2>1. TypeInv
    BY DEF IInv
  <2>2. PruneSnapshots
    BY OnlyPrunesRemove
  <2>3. PICK gone \in SUBSET {x \in snaps : x.at < custodian.cutoff} : snaps' = snaps \ gone
    BY <2>1, <2>2, PruneSnapshotsIs
  <2>4. r.at < custodian.cutoff
    BY <2>3
  <2>5. custodian.cutoff <= backup /\ custodian.cutoff \in Int /\ backup \in Int /\ r.at \in Int
    BY <2>1, PriceStoreAssumption DEF TypeInv, Snapshots
  <2> QED BY <2>4, <2>5
<1>2. IInv /\ [Next]_vars => [BackedUp]_vars
  BY <1>1
<1> QED BY <1>2, PriceStoreInvariant, PTL DEF Spec, PrunedRowsAreBackedUp
(***************************************************************************)
(* The series of change points                                             *)
(***************************************************************************)

\* What a row says of the series.
AsLevel(r) == [at |-> r.at, odds |-> r.odds]
Drawn(rows) == {AsLevel(r) : r \in rows}

LEMMA LevelsDrawn == \A k : LevelsOf(k) = IF harm[k] # "none" THEN {} ELSE Drawn(PricesOf(k))
  BY DEF LevelsOf, Drawn, AsLevel, PricesOf

LEMMA RowsOfKey ==
    ASSUME TypeInv, NEW k
    PROVE  \A r \in PricesOf(k) : r \in ChangePoints /\ r.at \in Nat /\ r.odds \in Odds
<1>1. \A r \in PricesOf(k) : r \in ChangePoints
  BY DEF TypeInv, PricesOf
<1> QED BY <1>1, PriceStoreAssumption DEF ChangePoints

\* What a step does to the series of a key whose change points it leaves alone.
LEMMA SeriesStands ==
    ASSUME NEW k, prices' = prices, harm[k] # "none" => harm'[k] # "none"
    PROVE  LevelsOf(k)' = LevelsOf(k) \/ Series!Thinned(LevelsOf(k), LevelsOf(k)')
<1>1. LevelsOf(k)' = IF harm'[k] # "none" THEN {} ELSE Drawn(PricesOf(k)')
  BY DEF LevelsOf, Drawn, AsLevel, PricesOf
<1>2. PricesOf(k)' = PricesOf(k)
  BY DEF PricesOf
<1>3. CASE harm'[k] # "none"
  BY <1>1, <1>3 DEF Series!Thinned
<1>4. CASE harm'[k] = "none"
  BY <1>1, <1>2, <1>4, LevelsDrawn
<1> QED BY <1>3, <1>4

\* A change point that is written is later than the last one and quotes another price.
LEMMA SeriesGrows ==
    ASSUME TypeInv, IdInv, NEW k \in Key, KeyInv(k), NEW p \in Pass, Commit(p)
    PROVE  \/ LevelsOf(k)' = LevelsOf(k)
           \/ Series!Moved(LevelsOf(k), LevelsOf(k)')
<1>1. PICK w \in Todo(p) :
              /\ w.row.at = pass[p].at /\ w.row.key \in pass[p].wrote /\ Put(w)
              /\ GoesOn(p, w) \/ (Return(p, pass[p].wrote) /\ Todo(p) = {w})
              /\ pass[p].step = "write"
  BY CommitIs
<1>2. p \in Busy /\ pass[p].wrote \subseteq KeysOf(p) /\ w.row.at \in Nat
  <2>1. pass[p].at \in Nat
    BY <1>1, TodoIs, PassIs, PriceStoreAssumption DEF TypeInv, PassShape
  <2> QED BY <1>1, <2>1, PassIs DEF TypeInv, Busy, PassShape
<1>3. harm'[k] = "none" <=> harm[k] = "none"
  <2>1. CASE GoesOn(p, w)
    BY <2>1 DEF GoesOn
  <2>2. CASE Return(p, pass[p].wrote)
    BY <2>2, ReturnKeeps
  <2> QED BY <1>1, <2>1, <2>2
<1>4. LevelsOf(k)' = IF harm'[k] # "none" THEN {} ELSE Drawn(PricesOf(k)')
  BY DEF LevelsOf, Drawn, AsLevel, PricesOf
<1>5. CASE harm[k] # "none" \/ PricesOf(k)' = PricesOf(k)
  BY <1>3, <1>4, <1>5, LevelsDrawn
<1>6. CASE harm[k] = "none" /\ PricesOf(k)' # PricesOf(k)
  <2>1. w.row.key = k
    BY <1>1, <1>2, <1>6, PutElsewhere
  <2>2. w.kind = "change" /\ w.row \in ChangePoints /\ prices' = Appended(w.row)
    BY <1>1, <1>6 DEF Put, PricesOf
  <2>3. PricesOf(k)' = PricesOf(k) \union {w.row}
    BY <1>6, <2>1, <2>2 DEF Appended, PricesOf
  <2>4. p \in Under(k) /\ k \notin pass[p].hurt /\ p \in Writers(k)
    BY <1>1, <1>2, <1>6, <2>1 DEF KeyInv, Under, Loaded, Writers, Busy
  <2>5. PricePlan(p, k) /\ NewsPlan(p, k) /\ w \in Pending(p, k, "change")
    BY <1>1, <1>6, <2>1, <2>2, <2>4 DEF KeyInv, Intact, Pending
  <2>6. \A q \in PricesOf(k) : q.at < w.row.at
    BY <1>1, <2>5 DEF PricePlan, PricesPlanned
  <2>7. \A q \in Latest(PricesOf(k)) : q.odds # w.row.odds
    BY <2>5 DEF NewsPlan, Newsworthy
  <2> DEFINE old == Drawn(PricesOf(k))
             new == Drawn(PricesOf(k)')
             l == AsLevel(w.row)
  <2>8. new = old \union {l}
    BY <2>3 DEF Drawn
  <2>9. l \in Series!Level
    <3>1. w.row.odds \in Odds
      BY <2>2 DEF ChangePoints
    <3> QED BY <1>2, <3>1 DEF Series!Level, AsLevel
  <2>10. \A m \in old : m.at < l.at
    BY <2>6 DEF Drawn, AsLevel
  <2>11. \A m \in Series!Newest(old) : m.odds # l.odds
    <3> TAKE m \in Series!Newest(old)
    <3>1. m \in old /\ \A n \in old : n.at <= m.at
      BY DEF Series!Newest
    <3>2. PICK q \in PricesOf(k) : m = AsLevel(q)
      BY <3>1 DEF Drawn
    <3>3. ASSUME NEW s \in PricesOf(k) PROVE s.at <= q.at
      <4>1. AsLevel(s) \in old /\ AsLevel(s).at = s.at /\ AsLevel(q).at = q.at
        BY DEF Drawn, AsLevel
      <4> QED BY <3>1, <3>2, <4>1
    <3>4. q \in Latest(PricesOf(k))
      BY <3>2, <3>3 DEF Latest
    <3> QED BY <2>7, <3>2, <3>4 DEF AsLevel
  <2>12. LevelsOf(k) = old /\ LevelsOf(k)' = new
    BY <1>3, <1>4, <1>6, LevelsDrawn
  <2> HIDE DEF old, new, l
  <2>13. Series!Moved(old, new)
    BY <2>8, <2>9, <2>10, <2>11 DEF Series!Moved
  <2> QED BY <2>12, <2>13
<1> QED BY <1>5, <1>6

\* Retention takes the beginning of an undisturbed series.
LEMMA SeriesThins ==
    ASSUME TypeInv, NEW k \in Key, KeyInv(k), PrunePrices
    PROVE  LevelsOf(k)' = LevelsOf(k) \/ Series!Thinned(LevelsOf(k), LevelsOf(k)')
<1>1. PICK gone \in SUBSET prices :
            snaps' = snaps /\ prices' = prices \ gone /\ Pruned(DisturbedBy(gone, prices))
  BY PrunePricesIs
<1>2. PricesOf(k)' = {r \in prices \ gone : r.key = k} /\ PricesOf(k) = {r \in prices : r.key = k}
  BY <1>1 DEF PricesOf
<1>3. harm'[k] = IF k \in DisturbedBy(gone, prices) THEN "torn" ELSE harm[k]
  BY <1>1, TearTyped DEF Pruned
<1>4. LevelsOf(k)' = IF harm'[k] # "none" THEN {} ELSE Drawn(PricesOf(k)')
  BY DEF LevelsOf, Drawn, AsLevel, PricesOf
<1>5. CASE harm'[k] # "none"
  BY <1>4, <1>5 DEF Series!Thinned
<1>6. CASE harm'[k] = "none"
  <2>1. k \notin DisturbedBy(gone, prices) /\ harm[k] = "none"
    BY <1>3, <1>6
  <2>2. PricesOf(k)' \subseteq PricesOf(k)
    BY <1>2
  <2>3. \A r \in PricesOf(k) \ PricesOf(k)', q \in PricesOf(k)' : ~(q.at < r.at)
    BY <1>2, <2>1, Undisturbed
  <2>4. \A r \in PricesOf(k) \ PricesOf(k)', q \in PricesOf(k)' : r.at < q.at
    <3> TAKE r \in PricesOf(k) \ PricesOf(k)', q \in PricesOf(k)'
    <3>1. r \in PricesOf(k) /\ q \in PricesOf(k) /\ r # q
      BY <2>2
    <3>2. r.at # q.at
      BY <3>1 DEF KeyInv, OneAtATime
    <3> QED BY <2>3, <3>1, <3>2, RowsOfKey
  <2> DEFINE old == Drawn(PricesOf(k))
             new == Drawn(PricesOf(k)')
  <2>5. new \subseteq old
    BY <2>2 DEF Drawn
  <2>6. \A m \in old \ new, l \in new : m.at < l.at
    <3> TAKE m \in old \ new, l \in new
    <3>1. PICK r \in PricesOf(k) : m = AsLevel(r)
      BY DEF Drawn
    <3>2. PICK q \in PricesOf(k)' : l = AsLevel(q)
      BY DEF Drawn
    <3>3. r \notin PricesOf(k)'
      BY <3>1 DEF Drawn
    <3>4. r.at < q.at
      BY <2>4, <3>1, <3>2, <3>3
    <3> QED BY <3>1, <3>2, <3>4 DEF AsLevel
  <2>7. LevelsOf(k) = old /\ LevelsOf(k)' = new
    BY <1>4, <1>6, <2>1, LevelsDrawn
  <2> QED BY <2>5, <2>6, <2>7 DEF Series!Thinned
<1> QED BY <1>5, <1>6

\* One step, for one key.
LEMMA SeriesStep ==
    ASSUME IInv, [Next]_vars, NEW k \in Key
    PROVE  \/ LevelsOf(k)' = LevelsOf(k)
           \/ Series!Moved(LevelsOf(k), LevelsOf(k)')
           \/ Series!Thinned(LevelsOf(k), LevelsOf(k)')
<1>1. TypeInv /\ IdInv /\ KeyInv(k)
  BY DEF IInv
<1>2. ASSUME NEW p \in Pass, Begin(p) PROVE prices' = prices /\ (harm[k] # "none" => harm'[k] # "none")
  BY <1>1, <1>2, BeginIs, TearTyped DEF Began
<1>3. ASSUME NEW p \in Pass, Load(p) PROVE prices' = prices /\ (harm[k] # "none" => harm'[k] # "none")
  <2>1. prices' = prices /\ (Return(p, {}) \/ harm' = harm)
    BY <1>1, <1>3, LoadIs DEF Loads
  <2> QED BY <1>1, <2>1, ReturnKeeps
<1>4. ASSUME NEW p \in Pass, Die(p) PROVE prices' = prices /\ (harm[k] # "none" => harm'[k] # "none")
  BY <1>1, <1>4, DieIs, TearTyped
<1>5. ASSUME PruneSnapshots PROVE prices' = prices /\ (harm[k] # "none" => harm'[k] # "none")
  BY <1>1, <1>5, PruneSnapshotsIs, TearTyped DEF Pruned
<1>6. ASSUME BackUpAndPrune \/ PrunePostgres \/ SnapshotsDone \/ PricesDone \/ Wait
      PROVE  prices' = prices /\ harm' = harm
  BY <1>1, <1>6, CareTypes DEF Elsewhere
<1>7. ASSUME UNCHANGED vars PROVE prices' = prices /\ harm' = harm
  BY <1>7 DEF vars
<1>8. ASSUME NEW p \in Pass, Commit(p)
      PROVE  LevelsOf(k)' = LevelsOf(k) \/ Series!Moved(LevelsOf(k), LevelsOf(k)')
  BY <1>1, <1>8, SeriesGrows
<1>9. ASSUME PrunePrices
      PROVE  LevelsOf(k)' = LevelsOf(k) \/ Series!Thinned(LevelsOf(k), LevelsOf(k)')
  BY <1>1, <1>9, SeriesThins
<1> QED BY <1>2, <1>3, <1>4, <1>5, <1>6, <1>7, <1>8, <1>9, SeriesStands DEF Next, Record, Custodian

\* The change points of a price are the series PriceSeries promises: a level is added at the
\* end, later than the last and different from it, or retention takes the beginning away
\* (record_points, prune_prices).
THEOREM PromiseKept == Spec => SeriesPromise
<1> DEFINE drawn == [k \in Key |-> LevelsOf(k)]
<1>1. Init => Series!SeriesInit
  <2> SUFFICES ASSUME Init PROVE Series!SeriesInit
    OBVIOUS
  <2>1. \A k \in Key : LevelsOf(k) = {}
    BY DEF Init, LevelsOf
  <2> QED BY <2>1 DEF Series!SeriesInit
<1>2. IInv /\ [Next]_vars => [Series!SeriesNext]_(drawn)
  <2> SUFFICES ASSUME IInv, [Next]_vars PROVE Series!SeriesNext
    OBVIOUS
  <2>1. \A k \in Key : \/ LevelsOf(k)' = LevelsOf(k)
                       \/ Series!Moved(LevelsOf(k), LevelsOf(k)')
                       \/ Series!Thinned(LevelsOf(k), LevelsOf(k)')
    BY SeriesStep
  <2> QED BY <2>1 DEF Series!SeriesNext
<1> QED BY <1>1, <1>2, PriceStoreInvariant, PTL DEF Spec, SeriesPromise, Series!Promise
=============================================================================
