------------------------------ MODULE FantasyProofs ------------------------------
(***************************************************************************)
(* Theorems about FantasyPlane for every policy, every team and any number *)
(* of proposals, commands and faults: its types, the owner's consent, the  *)
(* bill, how often a proposal is sent, what the store says of it, and when *)
(* the watch pages the owner and wakes the manager.                        *)
(***************************************************************************)
EXTENDS FantasyPlane, FiniteSetTheorems, WellFoundedInduction, TLAPS

(***************************************************************************)
(* The invariants                                                          *)
(***************************************************************************)

Busy == {"read", "send", "answer"}

\* What a process holds in each step.
ShapeOf(p, r) ==
    /\ p = "agent" => r.step \notin {"drain", "check", "save"} /\ r.id = Direct
    /\ p = "approve" => r.step \notin {"agent", "check", "save"} /\ (r.step = "off" \/ r.id # Direct)
    /\ r.step = "off" => r = Off
    /\ r.step \in {"agent", "check", "save"} => r.id = Direct
    /\ r.step \in Busy => r.intent \in Intents
    /\ r.event # 0 => r.step \in {"agent"} \union Busy /\ r.id = Direct
    /\ p = "tick" /\ r.step # "off" => r.watch \in Watches

\* A drain's copy of the file of `made` proposals: what is in hand or queued is approved in it.
CopyOf(r, made) ==
    /\ r.mem \in Files /\ r.mem[r.id].state = "approved" /\ r.id \notin r.queue
    /\ \A i \in r.queue : r.mem[i].state = "approved"
    /\ r.intent = r.mem[r.id].intent
    /\ r.bill = [cost |-> r.mem[r.id].cost, count |-> r.mem[r.id].count]
    /\ \A i \in Ids : i > made => r.mem[i] = Unmade

ProcOK(p) ==
    /\ run[p] \in Runs /\ run[p].loaded <= clock /\ ShapeOf(p, run[p])
    /\ p \in Copies => CopyOf(run[p], asked)
DataOK ==
    /\ setup \in Setups /\ clock \in 0 .. MaxNow /\ asked \in 0 .. MaxProposals
    /\ store \in Files /\ \A i \in Ids : i > asked => store[i] = Unmade
    /\ team \in [squad : SUBSET Player, order : Orders, made : Nat, count : Nat]
    /\ Cardinality(team.squad) = Cardinality(Squad0) /\ team.made <= team.count
    /\ cred \in Creds /\ watch \in Watches
    /\ {yes, no, landed, hurt} \subseteq SUBSET Ids /\ sends \in [Ids -> Nat]
    /\ kills \in 0 .. setup.kills /\ faults \in 0 .. setup.faults /\ overlaps \in Nat
TypeInv == DataOK /\ run \in [Proc -> Runs] /\ \A p \in Proc : ProcOK(p)

\* What is approved the owner approved, and what he refused for good stays refused.
Consented(f) ==
    \A i \in Ids : /\ f[i].state = "approved" => i \in yes
                   /\ i \in no => f[i].state = "rejected"
Automatic(i) ==
    /\ ~i.chip
    /\ "ask" # IF i.action = "lineup" THEN Policy.lineup ELSE Policy.transfers
InForce(r) == \A i \in Ids : r.mem[i].state = "approved" => r.loaded < r.mem[i].expires
ConsentOf(q) ==
    /\ q \in Copies => Consented(run[q].mem) /\ InForce(run[q])
    /\ Writing(q) /\ run[q].id = Direct => Automatic(run[q].intent)
ConsentInv == Consented(store) /\ \A q \in Proc : ConsentOf(q)

\* As long as no other transfer goes through, the bill is what the provider will charge.
ChargeOf(t) == IF Platform = "fpl" /\ t.made >= FreeTransfers THEN PerHit ELSE 0
Fair(t, i, cost, count) ==
    /\ count <= t.count
    /\ i.action = "transfer" /\ count = t.count => ChargeOf(t) <= cost
Billed(t, f) == \A i \in Ids : f[i] # Unmade => Fair(t, f[i].intent, f[i].cost, f[i].count)
BillOf(t, r) ==
    r.step \in Busy => /\ Fair(t, r.intent, r.bill.cost, r.bill.count)
                       /\ r.id # Direct => Billed(t, r.mem)
BillInv == Billed(team, store) /\ \A q \in Proc : BillOf(team, run[q])

\* How often a proposal may still be sent before somebody loads the file again: by the
\* drains whose copy holds it open, or if none runs by the one that will load it.
Live(s) == s \in {"pending", "approved"}
Ref(p, i) ==
    IF /\ p \in Copies /\ Live(run[p].mem[i].state)
       /\ ~(run[p].id = i /\ run[p].step = "answer")
    THEN 1 ELSE 0
Chances(i) ==
    IF Copies = {} THEN IF Live(store[i].state) THEN 1 ELSE 0
    ELSE Ref("tick", i) + Ref("approve", i)
SentInv ==
    \A i \in Ids : /\ sends[i] + Chances(i) <= 1 + kills + overlaps
                   /\ i > asked => sends[i] = 0

\* "executed" is the team there once was; a line-up names a squad somebody read.
Truthful(f, d) == \A i \in Ids : f[i].state = "executed" => \E t \in d : Was(f[i].intent, t)
RealSquad(i) == i.action = "lineup" /\ i.players = {} => Squad0 = {}
RealSquads(f) == \A i \in Ids : f[i] # Unmade => RealSquad(f[i].intent)
Told(f, d) == RealSquads(f) /\ Truthful(f, d)
TruthOf(q) == q \in Copies => Told(run[q].mem, done)
TruthInv ==
    Platform # "mfl" =>
      /\ <<team.squad, team.order>> \in done
      /\ Told(store, done)
      /\ \A q \in Proc : TruthOf(q)

\* With one writer at a time: the squad he read is the squad he changes, his write did what
\* he will read back, and no copy holds a proposal open whose write happened.
Settled(s) == s \in {"executed", "rejected"}
Took(r, t) ==
    /\ r.reply = "ok"
    /\ IF r.intent.action = "lineup"
       THEN r.intent.players = t.squad /\ r.intent.order = t.order
       ELSE /\ r.intent.out \in r.before /\ r.intent.in \notin r.before
            /\ Cardinality(r.before) = Cardinality(Squad0)
            /\ t.squad = (r.before \ {r.intent.out}) \union {r.intent.in}
Knows(r, t, l, h) ==
    /\ r.step = "send" /\ r.id \notin h => r.before = t.squad
    /\ r.step = "answer" /\ r.id \in l \ h => Took(r, t)
    /\ \A i \in l \ h : (i = r.id /\ r.step = "answer") \/ Settled(r.mem[i].state)
OneWriter == \A p, q \in Proc : Writing(p) /\ Writing(q) => p = q
SettledUnlessHeld ==
    \A i \in landed \ hurt : (\E q \in Copies : run[q].id = i) \/ Settled(store[i].state)
AloneInv ==
    /\ OneWriter /\ SettledUnlessHeld
    /\ \A q \in Copies : Knows(run[q], team, landed, hurt)
FateInv == Platform # "mfl" /\ overlaps = 0 => AloneInv

\* Nothing is new since the owner's last page, and the watch knows it, in the tick's copy and in
\* the file, once that is saved: it remembers that page and the state it told of.
SaysSo(w) == w.lastAlert = paged.at /\ w.lastSeen = cred
PageInv ==
    /\ paged \in [at : Int, count : Nat, news : BOOLEAN]
    /\ ~paged.news =>
          /\ paged.at # Never /\ cred \notin {"ok", "unknown"}
          /\ run["tick"].step # "save" => SaysSo(watch)
          /\ run["tick"].step # "off" => SaysSo(run["tick"].watch)
\* The agent runs, or writes without a proposal.
OwnRun(r) == r.step = "agent" \/ (r.step \in Busy /\ r.id = Direct)
\* A gameweek is over, or its run ended well, or is under way.
Attended(e) == e < Gameweek(clock) \/ watch.lastRun = e \/ run["tick"].event = e
WakeInv ==
    /\ wakes \in [1 .. Gameweek(MaxNow) -> Nat]
    /\ run["tick"].step # "off" => run["tick"].watch.lastRun = watch.lastRun
    /\ OwnRun(run["tick"]) => run["tick"].event # 0
    /\ run["tick"].event # 0 => /\ watch.lastRun < run["tick"].event
                                /\ run["tick"].event <= Gameweek(clock)
    /\ \A e \in 1 .. Gameweek(MaxNow) :
          wakes[e] <= kills + faults + IF Attended(e) THEN 1 ELSE 0

(***************************************************************************)
(* The constants and the helpers                                           *)
(***************************************************************************)

LEMMA BoundsTyped ==
    /\ IsFiniteSet(Player) /\ Squad0 \subseteq Player /\ Orders \subseteq Nat /\ Orders # {}
    /\ GameweekLength \in Nat /\ GameweekLength > 0 /\ EspnHorizon \in Nat /\ UnknownHorizon \in Nat
    /\ MaxProposals \in Nat /\ MaxNow \in Nat /\ PerHit \in Nat /\ FreeTransfers \in Nat
    /\ Ids \subseteq Nat /\ Direct \notin Ids /\ Direct = 0
  BY PlaneAssumption, FantasyAssumption DEF Ids, Direct

LEMMA SetupTyped ==
    ASSUME setup \in Setups
    PROVE  /\ Policy.max_hit \in Nat /\ setup.intents \subseteq Intents
           /\ setup.kills \in Nat /\ setup.faults \in Nat /\ setup.until \in 0 .. MaxNow
           /\ setup.commands \subseteq Proc \union {"reject"}
<1>1. PolicyOK(setup.policy)
  BY PlaneAssumption
<1>2. Policy.max_hit \in Nat
  BY <1>1 DEF PolicyOK, Policy
<1>3. {setup.acts, setup.kills, setup.faults} \subseteq Nat /\ setup.intents \subseteq Intents
      /\ setup.until \in 0 .. MaxNow /\ setup.commands \subseteq Proc \union {"reject"}
  BY PlaneAssumption
<1> QED BY <1>2, <1>3

\* A set of naturals that is not empty has a smallest element.
LEMMA MinIn ==
    ASSUME NEW S \in SUBSET Nat, S # {}
    PROVE  Min(S) \in S
<1> DEFINE Precedes == {pair \in Nat \X Nat : pair[1] < pair[2]}
<1>1. IsWellFoundedOn(Precedes, Nat)
  BY NatLessThanWellFounded, Zenon DEF OpToRel
<1>2. PICK x \in S : \A y \in S : ~(<<y, x>> \in Precedes)
  <2> HIDE DEF Precedes
  <2> QED BY <1>1, WFMin
<1>3. \A y \in S : x =< y
  <2> SUFFICES ASSUME NEW y \in S, ~(x =< y) PROVE FALSE
    OBVIOUS
  <2>1. <<y, x>> \in Nat \X Nat /\ <<y, x>>[1] < <<y, x>>[2]
    OBVIOUS
  <2>2. <<y, x>> \in Precedes
    BY <2>1, Zenon
  <2> QED BY <1>2, <2>2
<1> QED BY <1>3 DEF Min

LEMMA DeadlineTyped ==
    ASSUME NEW t \in Nat
    PROVE  Gameweek(t) \in Int /\ Deadline(t) \in Int
<1>1. t \div GameweekLength \in Int
  BY BoundsTyped
<1>2. Gameweek(t) \in Int
  BY <1>1 DEF Gameweek
<1>3. Gameweek(t) * GameweekLength \in Int /\ t + EspnHorizon \in Int
  BY <1>2, BoundsTyped
<1> QED BY <1>2, <1>3 DEF Deadline

\* Two versions of a proposal that differ in its state only.
SameTerms(x, y) ==
    x.intent = y.intent /\ x.expires = y.expires /\ x.cost = y.cost /\ x.count = y.count
\* `g` is the file `f` with the proposals of `is` in state `s`.
Marked(f, g, is, s) ==
    \A i \in Ids : /\ g[i] = Unmade <=> f[i] = Unmade
                   /\ i \notin is => g[i] = f[i]
                   /\ i \in is => f[i] # Unmade /\ g[i].state = s /\ SameTerms(f[i], g[i])

LEMMA ProposalTyped ==
    ASSUME NEW f \in Files, NEW i \in Ids
    PROVE  /\ f[i].state = "none" <=> f[i] = Unmade
           /\ f[i] # Unmade => f[i] \in [state : States, intent : Intents, expires : Int,
                                         cost : Nat, count : Nat]
<1>1. f[i] \in {Unmade} \union [state : States, intent : Intents, expires : Int, cost : Nat, count : Nat]
  BY DEF Files
<1>2. Unmade.state = "none"
  BY DEF Unmade
<1>3. f[i] # Unmade => f[i].state \in States
  BY <1>1
<1> QED BY <1>1, <1>2, <1>3 DEF States

LEMMA SetTyped ==
    ASSUME NEW f \in Files, NEW is, NEW s \in States, \A i \in Ids \intersect is : f[i].state # "none"
    PROVE  Set(f, is, s) \in Files /\ Marked(f, Set(f, is, s), is, s)
<1> DEFINE P == [state : States, intent : Intents, expires : Int, cost : Nat, count : Nat]
           g == Set(f, is, s)
<1>1. ASSUME NEW i \in Ids
      PROVE  /\ g[i] \in {Unmade} \union P
             /\ g[i] = Unmade <=> f[i] = Unmade
             /\ i \notin is => g[i] = f[i]
             /\ i \in is => f[i] # Unmade /\ g[i].state = s /\ SameTerms(f[i], g[i])
  <2>1. CASE i \notin is
    <3>1. g[i] = f[i]
      BY <2>1 DEF Set
    <3>2. f[i] \in {Unmade} \union P
      BY DEF Files
    <3> QED BY <2>1, <3>1, <3>2
  <2>2. CASE i \in is
    <3>1. g[i] = [f[i] EXCEPT !.state = s]
      BY <2>2 DEF Set
    <3>2. f[i] # Unmade /\ f[i] \in P
      BY <2>2, ProposalTyped
    <3>3. g[i] \in P /\ g[i].state = s /\ SameTerms(f[i], g[i])
      BY <3>1, <3>2 DEF SameTerms
    <3>4. g[i] # Unmade
      <4>1. s # "none" /\ Unmade.state = "none"
        BY DEF States, Unmade
      <4> QED BY <3>3, <4>1
    <3> QED BY <2>2, <3>2, <3>3, <3>4
  <2> QED BY <2>1, <2>2
<1>2. g = [i \in Ids |-> g[i]]
  BY DEF Set
<1>3. g \in [Ids -> {Unmade} \union P]
  <2> HIDE DEF g, P
  <2> QED BY <1>1, <1>2
<1> QED BY <1>1, <1>3 DEF Files, Marked

\* Reading a list marks what has lapsed; the rest of it is still in force.
LEMMA ExpireTyped ==
    ASSUME NEW f \in Files, NEW s \in {"pending", "approved"}, clock \in Nat
    PROVE  /\ Expire(f, s) \in Files
           /\ Marked(f, Expire(f, s), Lapsed(f, s), "expired")
           /\ \A i \in Ids : Expire(f, s)[i].state = s => clock < Expire(f, s)[i].expires
<1>1. \A i \in Ids \intersect Lapsed(f, s) : f[i].state # "none"
  BY DEF Lapsed, In
<1>2. "expired" \in States
  BY DEF States
<1>3. Expire(f, s) \in Files /\ Marked(f, Expire(f, s), Lapsed(f, s), "expired")
  BY <1>1, <1>2, SetTyped DEF Expire
<1>4. ASSUME NEW i \in Ids, Expire(f, s)[i].state = s
      PROVE  clock < Expire(f, s)[i].expires
  <2>1. i \notin Lapsed(f, s)
    BY <1>3, <1>4 DEF Marked
  <2>2. Expire(f, s)[i] = f[i] /\ f[i].state = s
    BY <1>3, <1>4, <2>1 DEF Marked
  <2>3. ~(clock >= f[i].expires)
    BY <2>1, <2>2 DEF Lapsed, In
  <2>4. f[i].expires \in Int
    <3>1. f[i].state # "none"
      BY <2>2
    <3> QED BY <3>1, ProposalTyped
  <2> QED BY <2>2, <2>3, <2>4
<1> QED BY <1>3, <1>4

LEMMA OffTyped ==
    /\ Off \in Runs /\ Off.step = "off" /\ Off.id = Direct /\ Off.event = 0 /\ Off.loaded = 0
    /\ Off.queue = {} /\ Off.watch = <<>>
  BY DEF Off, Runs, Steps, Direct, NoRead
LEMMA OffShape == ASSUME NEW p PROVE ShapeOf(p, Off)
  BY OffTyped DEF ShapeOf, Busy

\* Where a drain goes next: to a proposal of its queue, or on with the command.
Proceeds(p, r, x) ==
    /\ x \in Runs /\ x.event = 0 /\ x.loaded \in {0, r.loaded}
    /\ \/ /\ r.queue # {} /\ x.step = "read" /\ x.id \in r.queue /\ x.queue = r.queue \ {x.id}
          /\ x.mem = r.mem /\ x.loaded = r.loaded /\ x.intent = r.mem[x.id].intent
          /\ x.bill = [cost |-> r.mem[x.id].cost, count |-> r.mem[x.id].count]
          /\ x.watch = r.watch
       \/ /\ r.queue = {} /\ x.id = Direct
          /\ IF p = "tick" THEN x.step = "check" /\ x.watch = r.watch ELSE x = Off

LEMMA NextItemProceeds ==
    ASSUME NEW p, NEW r \in Runs, r.mem \in Files, r.event = 0,
           \A i \in r.queue : r.mem[i].state = "approved"
    PROVE  Proceeds(p, r, NextItem(p, r))
<1> DEFINE x == NextItem(p, r)
<1>1. CASE r.queue # {}
  <2> DEFINE i == Min(r.queue)
             bill == [cost |-> r.mem[i].cost, count |-> r.mem[i].count]
  <2>1. r.queue \in SUBSET Nat
    BY BoundsTyped DEF Runs
  <2>2. i \in r.queue /\ i \in Ids
    BY <1>1, <2>1, MinIn DEF Runs
  <2>3. x = [r EXCEPT !.step = "read", !.id = i, !.queue = @ \ {i}, !.intent = r.mem[i].intent,
                      !.before = NoRead, !.reply = "", !.bill = bill]
    BY <1>1 DEF NextItem
  <2>4. r.mem[i].intent \in Intents /\ bill \in [cost : Nat, count : Nat]
    <3>1. r.mem[i].state # "none"
      BY <2>2
    <3>2. r.mem[i] \in [state : States, intent : Intents, expires : Int, cost : Nat, count : Nat]
      BY <2>2, <3>1, ProposalTyped
    <3> QED BY <3>2
  <2> HIDE DEF i, bill, x
  <2>5. x \in Runs
    BY <2>2, <2>3, <2>4 DEF Runs, Steps, NoRead
  <2>6. /\ x.step = "read" /\ x.id = i /\ x.queue = r.queue \ {i} /\ x.mem = r.mem
        /\ x.loaded = r.loaded /\ x.intent = r.mem[i].intent /\ x.event = r.event
        /\ x.watch = r.watch /\ x.bill = bill
    BY <2>3 DEF Runs
  <2> QED BY <1>1, <2>2, <2>5, <2>6 DEF Proceeds, x, bill
<1>2. CASE r.queue = {} /\ p = "tick"
  <2>1. x = [Off EXCEPT !.step = "check", !.at = r.at, !.watch = r.watch]
    BY <1>2 DEF NextItem
  <2> HIDE DEF x
  <2>2. x \in Runs
    BY <2>1, OffTyped DEF Runs, Steps
  <2>3. x.step = "check" /\ x.watch = r.watch /\ x.event = 0 /\ x.loaded = 0 /\ x.id = Direct
    BY <2>1 DEF Off
  <2> QED BY <1>2, <2>2, <2>3 DEF Proceeds, x
<1>3. CASE r.queue = {} /\ p # "tick"
  BY <1>3, OffTyped DEF NextItem, Proceeds
<1> QED BY <1>1, <1>2, <1>3

(***************************************************************************)
(* The kinds of step                                                       *)
(***************************************************************************)

Others(p) == \A q \in Proc \ {p} : run'[q] = run[q]
Crossing == overlaps' = IF \E q \in Proc : Writing(q) THEN overlaps + 1 ELSE overlaps

\* The store is edited, or stays as it is; a command may have begun.
Edits ==
    /\ \E is \in SUBSET Ids, s \in {"approved", "expired", "rejected"} :
        /\ Marked(store, store', is, s)
        /\ s # "rejected" => \A i \in is : store[i].state = "pending"
        /\ s = "approved" => is \subseteq yes'
        /\ IF s = "rejected" THEN no' = no \/ (Copies = {} /\ no' = no \union is) ELSE no' = no
    /\ yes \subseteq yes'
    /\ \A q \in Proc : run'[q] = run[q] \/ (run[q].step \notin Busy /\ run'[q].step \notin Busy)
    /\ UNCHANGED <<setup, team, sends, done, landed, hurt, asked, kills, overlaps>>
\* A proposal is made: what it costs is what the provider charges now.
Asks ==
    /\ asked' = asked + 1 /\ asked' \in Ids
    /\ \E x : /\ store' = [store EXCEPT ![asked'] = x]
              /\ x.state = "pending" /\ x # Unmade /\ RealSquad(x.intent)
              /\ Fair(team, x.intent, x.cost, x.count)
    /\ UNCHANGED <<setup, run, team, yes, no, sends, done, landed, hurt, kills, overlaps>>
\* The policy lets the agent write at once.
Begins(p) ==
    /\ run[p].step = "agent" /\ Others(p)
    /\ run'[p].step = "read" /\ run'[p].id = Direct
    /\ run'[p].intent \in Intents /\ Automatic(run'[p].intent)
    /\ Fair(team, run'[p].intent, run'[p].bill.cost, run'[p].bill.count)
    /\ Crossing
    /\ UNCHANGED <<setup, store, team, yes, no, sends, done, landed, hurt, asked, kills>>
\* A drain loads the file.
Loads(p) ==
    /\ run[p].step = "drain" /\ Others(p)
    /\ Marked(store, store', Lapsed(store, "approved"), "expired")
    /\ \A i \in Ids : store'[i].state = "approved" => clock < store'[i].expires
    /\ \E r \in Runs :
        /\ r.queue \subseteq In(store', "approved") /\ r.mem = store' /\ r.loaded = clock
        /\ Proceeds(p, r, run'[p])
        /\ IF r.queue = {} THEN overlaps' = overlaps ELSE Crossing
    /\ UNCHANGED <<setup, clock, team, yes, no, sends, done, landed, hurt, asked, kills>>
Reads(p) ==
    /\ run[p].step = "read" /\ Others(p)
    /\ \E squad \in {team.squad, NoRead} :
        /\ run'[p] = [run[p] EXCEPT !.step = "send", !.before = squad]
        /\ squad = team.squad \/ run[p].id \in hurt' \/ run[p].id = Direct
    /\ hurt' \in {hurt, hurt \union {run[p].id}}
    /\ UNCHANGED <<setup, store, team, yes, no, sends, done, landed, asked, kills, overlaps>>
\* The provider does what was asked, nothing, or something else.
Writes(p) ==
    /\ run[p].step = "send" /\ Others(p)
    /\ \E e \in Effects(run[p].intent) :
        /\ team' = e.team /\ run'[p] = [run[p] EXCEPT !.step = "answer", !.reply = e.reply]
        /\ done' = done \union {<<e.team.squad, e.team.order>>}
        /\ IF e.team = Applied(run[p].intent) /\ Fits(run[p].intent) /\ run[p].id # Direct
           THEN landed' = landed \union {run[p].id} ELSE landed' = landed
        /\ IF e.n > 0 /\ run[p].id # Direct THEN hurt' = hurt \union {run[p].id} ELSE hurt' = hurt
    /\ sends' = IF run[p].id = Direct THEN sends ELSE [sends EXCEPT ![run[p].id] = @ + 1]
    /\ UNCHANGED <<setup, store, yes, no, asked, kills, overlaps>>
\* The outcome of what is in hand is saved: failed, or what was read back agrees.
Verified(p, squad) ==
    IF run[p].intent.action = "lineup"
    THEN VerifyLineup(Platform, run[p].intent, squad, team.order)
    ELSE VerifyTransfer(Platform, run[p].intent, run[p].before, squad)
Records(p) ==
    /\ p \in Copies /\ run[p].step = "answer" /\ Others(p)
    /\ \E s \in {"executed", "failed"}, squad \in {team.squad, NoRead} :
        /\ Marked(run[p].mem, store', {run[p].id}, s)
        /\ IF run[p].reply = "ok" THEN s = "executed" <=> Verified(p, squad) ELSE s = "failed"
        /\ squad = team.squad \/ run[p].id \in hurt'
    /\ \E r \in Runs : /\ r.queue = run[p].queue /\ r.mem = store' /\ r.loaded = run[p].loaded
                       /\ Proceeds(p, r, run'[p])
    /\ hurt' \in {hurt, hurt \union {run[p].id}}
    /\ UNCHANGED <<setup, team, yes, no, sends, done, landed, asked, kills, overlaps>>
\* Nothing is sent or saved; a write without a proposal may be over.
Idles ==
    /\ \A q \in Proc : \/ run'[q] = run[q]
                       \/ q \notin Copies /\ run'[q].step \notin Busy
    /\ team' \in {team, [team EXCEPT !.made = 0]}
    /\ UNCHANGED <<setup, store, yes, no, sends, done, landed, hurt, asked, kills, overlaps>>
\* A process is killed; what it had woken may live on in the agent's slot.
Dies(p) ==
    /\ kills' = kills + 1
    /\ \/ Others(p) /\ run'[p] = Off
       \/ /\ p = "tick" /\ p \notin Copies /\ run["agent"] = Off
          /\ run' = [run EXCEPT !["tick"] = Off, !["agent"] = run["tick"]]
    /\ hurt' = IF p \in Copies THEN hurt \union {run[p].id} ELSE hurt
    /\ UNCHANGED <<setup, store, team, yes, no, sends, done, landed, asked, overlaps>>

Kinds ==
    \/ Edits \/ Asks \/ Idles
    \/ \E p \in Proc : Begins(p) \/ Loads(p) \/ Reads(p) \/ Writes(p) \/ Records(p) \/ Dies(p)

(***************************************************************************)
(* Types                                                                   *)
(***************************************************************************)

LEMMA TypeInvOK == TypeInv => TypeOK
<1> SUFFICES ASSUME TypeInv PROVE TypeOK
  OBVIOUS
<1>1. run \in [Proc -> Runs] /\ \A p \in Proc : run[p].loaded <= clock
  BY DEF TypeInv, ProcOK
<1>2. DataOK
  BY DEF TypeInv
<1> QED BY <1>1, <1>2 DEF DataOK, TypeOK

LEMMA ProcFacts ==
    ASSUME TypeInv, NEW p \in Proc
    PROVE  /\ run[p] \in Runs /\ run[p].loaded <= clock /\ ShapeOf(p, run[p])
           /\ p \in Copies <=> run[p].step \in Busy /\ run[p].id # Direct
           /\ p \in Copies => /\ CopyOf(run[p], asked) /\ run[p].id \in Ids /\ p # "agent"
                              /\ run[p].event = 0
           /\ Writing(p) <=> run[p].step \in Busy
           /\ clock \in Nat
<1>1. ProcOK(p) /\ clock \in Nat
  BY BoundsTyped DEF TypeInv, DataOK
<1>2. p \in Copies <=> run[p].step \in Busy /\ run[p].id # Direct
  BY DEF Copies, Writing, Busy
<1>3. run[p].id \in Ids \union {Direct}
  BY <1>1 DEF ProcOK, Runs
<1> QED BY <1>1, <1>2, <1>3 DEF ProcOK, Writing, Busy, ShapeOf

\* A process that did not move is as it was.
LEMMA StaysOK ==
    ASSUME TypeInv, NEW p \in Proc, run'[p] = run[p], clock' \in Nat, clock' >= clock,
           asked' \in Nat, asked' >= asked
    PROVE  ProcOK(p)'
<1>1. ProcOK(p) /\ asked \in Nat /\ clock \in Nat /\ run[p].loaded \in Nat
  <2>1. ProcOK(p) /\ asked \in Nat /\ clock \in Nat
    BY BoundsTyped DEF TypeInv, DataOK
  <2>2. run[p] \in Runs
    BY <2>1 DEF ProcOK
  <2> QED BY <2>1, <2>2 DEF Runs
<1>2. p \in Copies' => p \in Copies
  BY DEF Copies, Writing
<1>3. p \in Copies => CopyOf(run'[p], asked')
  <2> SUFFICES ASSUME p \in Copies PROVE CopyOf(run'[p], asked')
    OBVIOUS
  <2>1. CopyOf(run[p], asked)
    BY <1>1 DEF ProcOK
  <2>2. \A i \in Ids : i > asked' => i > asked
    BY <1>1, BoundsTyped
  <2> QED BY <2>1, <2>2 DEF CopyOf
<1>4. run'[p].loaded <= clock'
  BY <1>1 DEF ProcOK
<1> QED BY <1>1, <1>2, <1>3, <1>4 DEF ProcOK

\* One process moves: the others are as they were.
LEMMA MovesOK ==
    ASSUME TypeInv, NEW p \in Proc, NEW x \in Runs, run' = [run EXCEPT ![p] = x],
           clock' \in Nat, clock' >= clock, asked' \in Nat, asked' >= asked,
           DataOK', x.loaded <= clock', ShapeOf(p, x),
           x.step \in Busy /\ x.id # Direct => CopyOf(x, asked')
    PROVE  TypeInv' /\ Others(p) /\ run'[p] = x
<1>1. run \in [Proc -> Runs]
  BY DEF TypeInv
<1>2. run' \in [Proc -> Runs] /\ Others(p) /\ run'[p] = x
  BY <1>1 DEF Others
<1>3. \A q \in Proc \ {p} : ProcOK(q)'
  BY <1>2, StaysOK DEF Others
<1>4. ProcOK(p)'
  <2>1. p \in Copies' => x.step \in Busy /\ x.id # Direct
    BY <1>2 DEF Copies, Writing, Busy
  <2> QED BY <1>2, <2>1 DEF ProcOK
<1> QED BY <1>2, <1>3, <1>4 DEF TypeInv
LEMMA NobodyMovesOK ==
    ASSUME TypeInv, run' = run, clock' \in Nat, clock' >= clock, asked' \in Nat, asked' >= asked, DataOK'
    PROVE  TypeInv'
<1>1. \A q \in Proc : ProcOK(q)'
  BY StaysOK
<1>2. run' \in [Proc -> Runs]
  BY DEF TypeInv
<1> QED BY <1>1, <1>2 DEF TypeInv

\* A store that was marked keeps its type.
LEMMA MarkedOK ==
    ASSUME TypeInv, NEW is, NEW s, store' \in Files, Marked(store, store', is, s),
           UNCHANGED <<setup, clock, asked, team, cred, watch, landed, hurt, sends, kills, faults, overlaps>>,
           yes' \in SUBSET Ids, no' \in SUBSET Ids
    PROVE  DataOK'
<1>1. \A i \in Ids : i > asked' => store'[i] = Unmade
  BY DEF TypeInv, DataOK, Marked
<1> QED BY <1>1 DEF TypeInv, DataOK

LEMMA Numbers ==
    ASSUME TypeInv
    PROVE  clock \in Nat /\ asked \in Nat /\ overlaps \in Nat /\ kills \in Nat /\ faults \in Nat
  BY BoundsTyped, SetupTyped DEF TypeInv, DataOK

LEMMA ApproveStep ==
    ASSUME TypeInv, NEW i \in Ids, Approve(i)
    PROVE  TypeInv' /\ Edits
<1> DEFINE x == [Off EXCEPT !.step = "drain", !.id = i]
           s == IF clock >= store[i].expires THEN "expired" ELSE "approved"
<1>1. /\ store' = Set(store, {i}, s) /\ store[i].state = "pending"
      /\ UNCHANGED <<setup, clock, asked, team, cred, watch, landed, hurt, sends, kills, faults, overlaps, no, done>>
      /\ yes' = IF clock >= store[i].expires THEN yes ELSE yes \union {i}
  BY DEF Approve, Saved, config, bounds
<1>2. store \in Files /\ yes \in SUBSET Ids /\ no \in SUBSET Ids
  BY DEF TypeInv, DataOK
<1>3. store' \in Files /\ Marked(store, store', {i}, s)
  <2>1. s \in States
    BY DEF States
  <2>2. \A j \in Ids \intersect {i} : store[j].state # "none"
    BY <1>1
  <2> HIDE DEF s
  <2> QED BY <1>1, <1>2, <2>1, <2>2, SetTyped
<1>4. DataOK'
  BY <1>1, <1>2, <1>3, MarkedOK
<1>5. CASE run' = run
  <2>1. TypeInv'
    BY <1>1, <1>4, <1>5, Numbers, NobodyMovesOK
  <2> QED BY <1>1, <1>3, <1>5, <2>1, Zenon DEF Edits
<1>6. CASE run' # run
  <2>1. /\ run' = [run EXCEPT !["approve"] = x] /\ run["approve"] = Off
        /\ s = "approved" /\ yes' = yes \union {i}
    BY <1>6 DEF Approve, Free
  <2>2. x.step = "drain" /\ x.id = i /\ x.event = 0 /\ x.loaded = 0
    BY DEF Off
  <2>3. x \in Runs
    BY OffTyped DEF Runs, Steps
  <2> HIDE DEF x
  <2>4. ShapeOf("approve", x)
    BY <2>2, BoundsTyped DEF ShapeOf, Busy
  <2>5. TypeInv' /\ Others("approve") /\ run'["approve"] = x
    <3>1. /\ "approve" \in Proc /\ x.loaded <= clock' /\ x.step \notin Busy
          /\ clock' \in Nat /\ clock' >= clock /\ asked' \in Nat /\ asked' >= asked
      BY <1>1, <2>2, Numbers DEF Busy, Proc
    <3> QED BY <1>4, <2>1, <2>3, <2>4, <3>1, MovesOK
  <2>6. \A q \in Proc : run'[q] = run[q] \/ (run[q].step \notin Busy /\ run'[q].step \notin Busy)
    BY <2>1, <2>2, <2>5, OffTyped DEF Others, Busy
  <2>7. Marked(store, store', {i}, "approved") /\ {i} \subseteq yes' /\ {i} \in SUBSET Ids
    BY <1>3, <2>1
  <2> QED BY <1>1, <2>1, <2>5, <2>6, <2>7, Zenon DEF Edits
<1> QED BY <1>5, <1>6

LEMMA RejectStep ==
    ASSUME TypeInv, NEW i \in Ids, Reject(i)
    PROVE  TypeInv' /\ Edits
<1>1. /\ store' = Set(store, {i}, "rejected") /\ store[i].state # "none" /\ run' = run
      /\ UNCHANGED <<setup, clock, asked, team, cred, watch, landed, hurt, sends, kills, faults, overlaps, yes, done>>
      /\ no' = IF Copies = {} THEN no \union {i} ELSE no
  BY DEF Reject, Saved, config, bounds
<1>2. store \in Files /\ yes \in SUBSET Ids /\ no \in SUBSET Ids
  BY DEF TypeInv, DataOK
<1>3. store' \in Files /\ Marked(store, store', {i}, "rejected")
  BY <1>1, <1>2, SetTyped DEF States
<1>4. TypeInv'
  BY <1>1, <1>2, <1>3, MarkedOK, Numbers, NobodyMovesOK
<1> QED BY <1>1, <1>3, <1>4, Zenon DEF Edits

LEMMA ListPendingStep ==
    ASSUME TypeInv, ListPending
    PROVE  TypeInv' /\ Edits
<1>1. /\ store' = Expire(store, "pending") /\ run' = run
      /\ UNCHANGED <<setup, clock, asked, team, cred, watch, landed, hurt, sends, kills, faults, overlaps, yes, no, done>>
  BY DEF ListPending, Saved, config, bounds, ghosts
<1>2. store \in Files /\ yes \in SUBSET Ids /\ no \in SUBSET Ids
  BY DEF TypeInv, DataOK
<1>3. store' \in Files /\ Marked(store, store', Lapsed(store, "pending"), "expired")
  BY <1>1, <1>2, Numbers, ExpireTyped
<1>4. TypeInv'
  BY <1>1, <1>2, <1>3, MarkedOK, Numbers, NobodyMovesOK
<1>5. Lapsed(store, "pending") \in SUBSET Ids /\ \A i \in Lapsed(store, "pending") : store[i].state = "pending"
  BY DEF Lapsed, In
<1> QED BY <1>1, <1>3, <1>4, <1>5, Zenon DEF Edits

LEMMA LoadStep ==
    ASSUME TypeInv, NEW p \in Proc, LoadApproved(p)
    PROVE  TypeInv' /\ Loads(p)
<1> DEFINE file == Expire(store, "approved")
           batch == Batch(p, file)
           r == [run[p] EXCEPT !.mem = file, !.loaded = clock, !.queue = batch]
           x == NextItem(p, r)
<1>1. /\ run[p].step = "drain" /\ store' = file /\ run' = [run EXCEPT ![p] = x]
      /\ UNCHANGED <<setup, clock, asked, team, cred, watch, landed, hurt, sends, kills, faults, yes, no, done>>
      /\ IF batch = {} THEN overlaps' = overlaps ELSE Crossing
  BY DEF LoadApproved, Saved, config, ghosts, Crosses, Crossing
<1>2. /\ store \in Files /\ yes \in SUBSET Ids /\ no \in SUBSET Ids
      /\ \A i \in Ids : i > asked => store[i] = Unmade
  BY DEF TypeInv, DataOK
<1>3. /\ file \in Files /\ Marked(store, file, Lapsed(store, "approved"), "expired")
      /\ \A i \in Ids : file[i].state = "approved" => clock < file[i].expires
  BY <1>2, Numbers, ExpireTyped
<1>4. batch \subseteq In(file, "approved") /\ batch \in SUBSET Ids
  BY DEF Batch, Approved, In
<1>5. run[p] \in Runs /\ ShapeOf(p, run[p]) /\ clock \in Nat
  BY ProcFacts
<1> HIDE DEF file, batch
<1>6. /\ r \in Runs /\ r.mem = file /\ r.loaded = clock /\ r.queue = batch
      /\ r.event = run[p].event /\ r.watch = run[p].watch
  BY <1>3, <1>4, <1>5 DEF Runs
<1>7. run[p].event = 0
  BY <1>1, <1>5 DEF ShapeOf, Busy
<1> HIDE DEF r
<1>8. Proceeds(p, r, x)
  <2>1. \A i \in r.queue : r.mem[i].state = "approved"
    BY <1>4, <1>6 DEF In
  <2> QED BY <1>3, <1>6, <1>7, <2>1, NextItemProceeds
<1> HIDE DEF x
<1>9. overlaps' \in Nat
  BY <1>1, Numbers DEF Crossing
<1>10. DataOK'
  <2>1. \A i \in Ids : i > asked' => store'[i] = Unmade
    BY <1>1, <1>2, <1>3 DEF Marked
  <2> QED BY <1>1, <1>3, <1>9, <2>1 DEF TypeInv, DataOK
<1>11. ShapeOf(p, x) /\ (x.step \in Busy /\ x.id # Direct => CopyOf(x, asked'))
  <2>1. CASE r.queue # {}
    <3>1. /\ x.step = "read" /\ x.id \in batch /\ x.queue = batch \ {x.id} /\ x.mem = file
          /\ x.intent = file[x.id].intent /\ x.event = 0 /\ x.watch = run[p].watch
          /\ x.bill = [cost |-> file[x.id].cost, count |-> file[x.id].count]
      BY <1>6, <1>8, <2>1 DEF Proceeds
    <3>2. x.id \in Ids /\ file[x.id].state = "approved"
      BY <1>4, <3>1 DEF In
    <3>3. x.intent \in Intents
      <4>1. file[x.id] # Unmade
        BY <3>2 DEF Unmade
      <4> QED BY <1>3, <3>1, <3>2, <4>1, ProposalTyped
    <3>4. ShapeOf(p, x)
      BY <1>1, <1>5, <3>1, <3>2, <3>3, BoundsTyped DEF ShapeOf, Busy
    <3>5. CopyOf(x, asked')
      <4>1. \A i \in Ids : i > asked' => x.mem[i] = Unmade
        BY <1>1, <1>2, <1>3, <3>1 DEF Marked
      <4>2. \A i \in x.queue : x.mem[i].state = "approved"
        BY <1>4, <3>1 DEF In
      <4> QED BY <1>3, <3>1, <3>2, <4>1, <4>2 DEF CopyOf
    <3> QED BY <3>4, <3>5
  <2>2. CASE r.queue = {}
    <3>1. x.id = Direct /\ x.event = 0
          /\ IF p = "tick" THEN x.step = "check" /\ x.watch = run[p].watch ELSE x = Off
      BY <1>6, <1>8, <2>2 DEF Proceeds
    <3> QED BY <1>1, <1>5, <3>1, OffShape DEF ShapeOf, Busy
  <2> QED BY <2>1, <2>2
<1>12. x \in Runs /\ x.loaded <= clock'
  BY <1>1, <1>5, <1>6, <1>8 DEF Proceeds
<1>13. TypeInv' /\ Others(p) /\ run'[p] = x
  <2>1. clock' \in Nat /\ clock' >= clock /\ asked' \in Nat /\ asked' >= asked
    BY <1>1, Numbers
  <2> QED BY <1>1, <1>10, <1>11, <1>12, <2>1, MovesOK
<1>14. Loads(p)
  BY <1>1, <1>3, <1>4, <1>6, <1>8, <1>13 DEF Loads
<1> QED BY <1>13, <1>14

LEMMA SameHand ==
    ASSUME NEW p, NEW n, NEW r, NEW x, r.step \in Busy, x.step \in Busy, ShapeOf(p, r),
           x.id = r.id, x.mem = r.mem, x.queue = r.queue, x.intent = r.intent, x.bill = r.bill,
           x.event = r.event, x.watch = r.watch
    PROVE  ShapeOf(p, x) /\ (CopyOf(r, n) => CopyOf(x, n))
<1>1. x.step \notin {"off", "drain", "check", "save", "agent"} /\ r.step # "off"
  BY DEF Busy
<1>2. ShapeOf(p, x)
  BY <1>1 DEF ShapeOf
<1>3. CopyOf(r, n) => CopyOf(x, n)
  BY DEF CopyOf
<1> QED BY <1>2, <1>3

LEMMA HurtTyped ==
    ASSUME TypeInv, NEW i \in Ids \union {Direct}, NEW n, Hurts(i, n)
    PROVE  hurt' \in SUBSET Ids
  BY DEF Hurts, TypeInv, DataOK

LEMMA FaultsTyped ==
    ASSUME TypeInv, NEW n \in {0, 1, 2}, CanFail(n), setup' = setup
    PROVE  faults' \in 0 .. setup'.faults
  BY Numbers, SetupTyped DEF CanFail, TypeInv, DataOK

LEMMA ReadStep ==
    ASSUME TypeInv, NEW p \in Proc, ReadBefore(p)
    PROVE  TypeInv' /\ Reads(p)
<1>1. PICK n \in {0, 1} :
        /\ CanFail(n) /\ Hurts(run[p].id, n)
        /\ run' = [run EXCEPT ![p].step = "send",
                              ![p].before = IF n = 0 THEN team.squad ELSE NoRead]
  BY DEF ReadBefore
<1>2. /\ run[p].step = "read"
      /\ UNCHANGED <<setup, clock, asked, store, team, cred, watch, yes, no, sends, done, landed, kills, overlaps>>
  BY DEF ReadBefore, config
<1> DEFINE squad == IF n = 0 THEN team.squad ELSE NoRead
           x == [run[p] EXCEPT !.step = "send", !.before = squad]
<1>3. run[p] \in Runs /\ run[p].loaded <= clock /\ ShapeOf(p, run[p]) /\ run \in [Proc -> Runs]
  BY ProcFacts DEF TypeInv
<1>4. squad \in SUBSET Player /\ squad \in {team.squad, NoRead}
  BY DEF TypeInv, DataOK, NoRead
<1>5. run' = [run EXCEPT ![p] = x]
  BY <1>1, <1>3
<1> HIDE DEF squad
<1>6. /\ x \in Runs /\ x.step = "send" /\ x.id = run[p].id /\ x.mem = run[p].mem
      /\ x.queue = run[p].queue /\ x.intent = run[p].intent /\ x.bill = run[p].bill
      /\ x.event = run[p].event /\ x.watch = run[p].watch /\ x.loaded = run[p].loaded
  BY <1>3, <1>4 DEF Runs, Steps
<1> HIDE DEF x
<1>7. ShapeOf(p, x) /\ (CopyOf(run[p], asked') => CopyOf(x, asked'))
  <2>1. run[p].step \in Busy /\ x.step \in Busy
    BY <1>2, <1>6 DEF Busy
  <2> QED BY <1>3, <1>6, <2>1, SameHand
<1>8. x.step \in Busy /\ x.id # Direct => CopyOf(x, asked')
  BY <1>2, <1>6, <1>7, ProcFacts DEF Busy
<1>9. run[p].id \in Ids \union {Direct}
  BY <1>3 DEF Runs
<1>10. hurt' \in SUBSET Ids /\ faults' \in 0 .. setup'.faults
  BY <1>1, <1>2, <1>9, HurtTyped, FaultsTyped
<1>11. DataOK'
  BY <1>2, <1>10 DEF TypeInv, DataOK
<1>12. TypeInv' /\ Others(p) /\ run'[p] = x
  <2>1. clock' \in Nat /\ clock' >= clock /\ asked' \in Nat /\ asked' >= asked /\ x.loaded <= clock'
    BY <1>2, <1>3, <1>6, Numbers
  <2> QED BY <1>5, <1>6, <1>7, <1>8, <1>11, <2>1, MovesOK
<1>13. hurt' \in {hurt, hurt \union {run[p].id}}
  BY <1>1 DEF Hurts
<1>14. squad = team.squad \/ run[p].id \in hurt' \/ run[p].id = Direct
  BY <1>1 DEF Hurts, squad
<1>15. Reads(p)
  BY <1>2, <1>4, <1>12, <1>13, <1>14, Zenon DEF Reads, x
<1> QED BY <1>12, <1>15

(***************************************************************************)
(* The provider                                                            *)
(***************************************************************************)

Teams == [squad : SUBSET Player, order : Orders, made : Nat, count : Nat]

LEMMA IntentTyped ==
    ASSUME NEW i \in Intents
    PROVE  /\ i.action = "lineup" => i \in [action : {"lineup"}, order : Orders, players : SUBSET Player, chip : BOOLEAN]
           /\ i.action # "lineup" => i \in [action : {"transfer"}, out : Player, in : Player, chip : BOOLEAN]
  BY DEF Intents

\* A player for a player.
LEMMA MoveTyped ==
    ASSUME TypeInv, NEW i, i.out \in team.squad, i.in \in Player \ team.squad
    PROVE  /\ MoveBy(i) \in Teams /\ Cardinality(MoveBy(i).squad) = Cardinality(Squad0)
           /\ MoveBy(i).made = team.made + 1 /\ MoveBy(i).count = team.count + 1
           /\ MoveBy(i).order = team.order
           /\ MoveBy(i).squad = (team.squad \ {i.out}) \union {i.in}
<1> DEFINE rest == team.squad \ {i.out}
           squad == rest \union {i.in}
<1>1. team \in Teams /\ Cardinality(team.squad) = Cardinality(Squad0)
  BY DEF TypeInv, DataOK, Teams
<1>2. IsFiniteSet(team.squad)
  <2>1. team.squad \in SUBSET Player
    BY <1>1 DEF Teams
  <2> QED BY <2>1, BoundsTyped, FS_Subset
<1>3. IsFiniteSet(rest) /\ Cardinality(rest) = Cardinality(team.squad) - 1
  BY <1>2, FS_RemoveElement
<1>4. i.in \notin rest
  OBVIOUS
<1>5. Cardinality(squad) = Cardinality(rest) + 1
  <2> HIDE DEF rest
  <2> QED BY <1>3, <1>4, FS_AddElement
<1>6. Cardinality(team.squad) \in Nat
  BY <1>2, FS_CardinalityType
<1>7. Cardinality(squad) = Cardinality(Squad0)
  <2> HIDE DEF rest, squad
  <2> QED BY <1>1, <1>3, <1>5, <1>6
<1>8. squad \in SUBSET Player
  BY <1>1 DEF Teams
<1>9. MoveBy(i) = [team EXCEPT !.squad = squad, !.made = @ + 1, !.count = @ + 1]
  BY DEF MoveBy
<1>11. team.made \in Nat /\ team.count \in Nat /\ team.order \in Orders
  BY <1>1 DEF Teams
<1> HIDE DEF squad
<1>12. MoveBy(i) = [squad |-> squad, order |-> team.order, made |-> team.made + 1, count |-> team.count + 1]
  BY <1>1, <1>9 DEF Teams
<1>10. /\ MoveBy(i) \in Teams /\ MoveBy(i).squad = squad /\ MoveBy(i).made = team.made + 1
       /\ MoveBy(i).count = team.count + 1 /\ MoveBy(i).order = team.order
  BY <1>8, <1>11, <1>12 DEF Teams
<1> QED BY <1>7, <1>10 DEF squad

\* What the provider may do: nothing, the move, or a move of another player in.
LEMMA EffectTyped ==
    ASSUME TypeInv, NEW i \in Intents, NEW e \in Effects(i)
    PROVE  /\ e.team \in Teams /\ Cardinality(e.team.squad) = Cardinality(Squad0)
           /\ e.reply \in {"ok", "raised"} /\ e.n \in {0, 1} /\ e.team.made <= e.team.count
           /\ e.n = 0 /\ Fits(i) => e.team = Applied(i) /\ e.reply = "ok"
           /\ \/ e.team.made = team.made /\ e.team.count = team.count
              \/ /\ i.action = "transfer"
                 /\ e.team.made = team.made + 1 /\ e.team.count = team.count + 1
<1>1. /\ team \in Teams /\ Cardinality(team.squad) = Cardinality(Squad0)
      /\ team.made <= team.count /\ team.made \in Nat /\ team.count \in Nat
  BY DEF TypeInv, DataOK, Teams
<1>2. CASE e = [team |-> team, reply |-> "raised", n |-> IF Fits(i) THEN 1 ELSE 0]
  BY <1>1, <1>2
<1>3. CASE e = [team |-> team, reply |-> "ok", n |-> 1]
  BY <1>1, <1>3
<1>4. CASE Fits(i) /\ e \in {[team |-> Applied(i), reply |-> "ok", n |-> 0],
                             [team |-> Applied(i), reply |-> "raised", n |-> 1]}
  <2>1. /\ e.team = Applied(i) /\ e.reply \in {"ok", "raised"} /\ e.n \in {0, 1}
        /\ e.n = 0 => e.reply = "ok"
    BY <1>4
  <2>2. CASE i.action = "lineup"
    <3>1. Applied(i) = [team EXCEPT !.order = i.order] /\ i.order \in Orders
      BY <2>2, IntentTyped DEF Applied
    <3>2. /\ Applied(i) \in Teams /\ Applied(i).squad = team.squad
          /\ Applied(i).made = team.made /\ Applied(i).count = team.count
      BY <1>1, <3>1 DEF Teams
    <3> QED BY <1>1, <2>1, <3>2
  <2>3. CASE i.action # "lineup"
    <3>1. Applied(i) = MoveBy(i) /\ i.action = "transfer"
          /\ i.out \in team.squad /\ i.in \in Player \ team.squad
      BY <1>4, <2>3, IntentTyped DEF Applied, Fits
    <3>2. /\ MoveBy(i) \in Teams /\ Cardinality(MoveBy(i).squad) = Cardinality(Squad0)
          /\ MoveBy(i).made = team.made + 1 /\ MoveBy(i).count = team.count + 1
      BY <3>1, MoveTyped
    <3> QED BY <1>1, <2>1, <3>1, <3>2
  <2> QED BY <2>2, <2>3
<1>5. CASE /\ Fits(i) /\ i.action = "transfer"
           /\ e \in {[team |-> t, reply |-> "ok", n |-> 1] : t \in Stray(i)}
  <2>1. PICK y \in Player \ (team.squad \union {i.in}) :
          e = [team |-> MoveBy([i EXCEPT !.in = y]), reply |-> "ok", n |-> 1]
    BY <1>5 DEF Stray
  <2> DEFINE j == [i EXCEPT !.in = y]
  <2>2. i \in [action : {"transfer"}, out : Player, in : Player, chip : BOOLEAN] /\ i.out \in team.squad
    BY <1>5, IntentTyped DEF Fits
  <2>3. j.out \in team.squad /\ j.in \in Player \ team.squad
    BY <2>2
  <2> HIDE DEF j
  <2>4. /\ MoveBy(j) \in Teams /\ Cardinality(MoveBy(j).squad) = Cardinality(Squad0)
        /\ MoveBy(j).made = team.made + 1 /\ MoveBy(j).count = team.count + 1
    BY <2>3, MoveTyped
  <2>5. e.team = MoveBy(j) /\ e.reply = "ok" /\ e.n = 1
    BY <2>1 DEF j
  <2> QED BY <1>1, <1>5, <2>4, <2>5
<1> QED BY <1>2, <1>3, <1>4, <1>5, Zenon DEF Effects

LEMMA SendStep ==
    ASSUME TypeInv, NEW p \in Proc, Send(p)
    PROVE  TypeInv' /\ Writes(p)
<1>1. PICK e \in Effects(run[p].intent) :
        /\ CanFail(e.n) /\ Hurts(run[p].id, e.n) /\ team' = e.team
        /\ done' = done \union {<<e.team.squad, e.team.order>>}
        /\ landed' = IF e.team = Applied(run[p].intent) /\ Fits(run[p].intent) /\ run[p].id # Direct
                     THEN landed \union {run[p].id} ELSE landed
        /\ run' = [run EXCEPT ![p].step = "answer", ![p].reply = e.reply]
  BY DEF Send
<1>2. /\ run[p].step = "send"
      /\ UNCHANGED <<setup, clock, asked, store, cred, watch, yes, no, kills, overlaps>>
      /\ sends' = IF run[p].id = Direct THEN sends ELSE [sends EXCEPT ![run[p].id] = @ + 1]
  BY DEF Send, config
<1> DEFINE x == [run[p] EXCEPT !.step = "answer", !.reply = e.reply]
<1>3. run[p] \in Runs /\ run[p].loaded <= clock /\ ShapeOf(p, run[p]) /\ run \in [Proc -> Runs]
  BY ProcFacts DEF TypeInv
<1>4. run[p].intent \in Intents /\ run[p].id \in Ids \union {Direct}
  BY <1>2, <1>3 DEF ShapeOf, Busy, Runs
<1>5. /\ e.team \in Teams /\ Cardinality(e.team.squad) = Cardinality(Squad0)
      /\ e.reply \in {"ok", "raised"} /\ e.n \in {0, 1} /\ e.team.made <= e.team.count
  BY <1>4, EffectTyped
<1>6. run' = [run EXCEPT ![p] = x]
  BY <1>1, <1>3
<1>7. /\ x \in Runs /\ x.step = "answer" /\ x.id = run[p].id /\ x.mem = run[p].mem
      /\ x.queue = run[p].queue /\ x.intent = run[p].intent /\ x.bill = run[p].bill
      /\ x.event = run[p].event /\ x.watch = run[p].watch /\ x.loaded = run[p].loaded
  BY <1>3, <1>5 DEF Runs, Steps
<1> HIDE DEF x
<1>8. ShapeOf(p, x) /\ (CopyOf(run[p], asked') => CopyOf(x, asked'))
  <2>1. run[p].step \in Busy /\ x.step \in Busy
    BY <1>2, <1>7 DEF Busy
  <2> QED BY <1>3, <1>7, <2>1, SameHand
<1>9. x.step \in Busy /\ x.id # Direct => CopyOf(x, asked')
  BY <1>2, <1>7, <1>8, ProcFacts DEF Busy
<1>10. hurt' \in SUBSET Ids /\ faults' \in 0 .. setup'.faults
  BY <1>1, <1>2, <1>4, <1>5, HurtTyped, FaultsTyped
<1>11. landed' \in SUBSET Ids /\ sends' \in [Ids -> Nat]
  <2>1. landed \in SUBSET Ids /\ sends \in [Ids -> Nat]
    BY DEF TypeInv, DataOK
  <2> QED BY <1>1, <1>2, <1>4, <2>1
<1>12. DataOK'
  BY <1>1, <1>2, <1>5, <1>10, <1>11 DEF TypeInv, DataOK, Teams
<1>13. TypeInv' /\ Others(p) /\ run'[p] = x
  <2>1. clock' \in Nat /\ clock' >= clock /\ asked' \in Nat /\ asked' >= asked /\ x.loaded <= clock'
    BY <1>2, <1>3, <1>7, Numbers
  <2> QED BY <1>6, <1>7, <1>8, <1>9, <1>12, <2>1, MovesOK
<1>14. IF e.n > 0 /\ run[p].id # Direct THEN hurt' = hurt \union {run[p].id} ELSE hurt' = hurt
  BY <1>1 DEF Hurts
<1>15. Writes(p)
  BY <1>1, <1>2, <1>13, <1>14, Zenon DEF Writes, x
<1> QED BY <1>13, <1>15

(***************************************************************************)
(* The outcome                                                             *)
(***************************************************************************)

LEMMA RecordTyped ==
    ASSUME TypeInv, NEW p \in Proc, NEW ok \in BOOLEAN, p \in Copies, Record(p, ok),
           UNCHANGED <<setup, clock, asked, team, cred, watch, yes, no, sends, landed, kills, overlaps>>,
           hurt' \in SUBSET Ids, faults' \in 0 .. setup'.faults
    PROVE  /\ TypeInv' /\ Others(p)
           /\ Marked(run[p].mem, store', {run[p].id}, IF ok THEN "executed" ELSE "failed")
           /\ \E r \in Runs : /\ r.queue = run[p].queue /\ r.mem = store'
                              /\ r.loaded = run[p].loaded /\ Proceeds(p, r, run'[p])
<1> DEFINE s == IF ok THEN "executed" ELSE "failed"
           file == Set(run[p].mem, {run[p].id}, s)
           r == [run[p] EXCEPT !.mem = file]
           x == NextItem(p, r)
<1>1. /\ run[p] \in Runs /\ run[p].loaded <= clock /\ ShapeOf(p, run[p]) /\ CopyOf(run[p], asked)
      /\ run[p].id \in Ids /\ p # "agent" /\ run[p].event = 0 /\ clock \in Nat
      /\ run[p].step \in Busy /\ run[p].id # Direct
  BY ProcFacts
<1>2. store' = file /\ run' = [run EXCEPT ![p] = x]
  <2>1. run \in [Proc -> Runs]
    BY DEF TypeInv
  <2> QED BY <1>1, <2>1 DEF Record, Saved
<1>3. s \in States
  BY DEF States
<1>4. file \in Files /\ Marked(run[p].mem, file, {run[p].id}, s)
  <2>1. run[p].mem \in Files /\ run[p].mem[run[p].id].state # "none"
    BY <1>1 DEF CopyOf
  <2>2. \A j \in Ids \intersect {run[p].id} : run[p].mem[j].state # "none"
    BY <2>1
  <2> HIDE DEF s
  <2> QED BY <1>3, <2>1, <2>2, SetTyped
<1> HIDE DEF s, file
<1>5. /\ r \in Runs /\ r.mem = file /\ r.loaded = run[p].loaded /\ r.queue = run[p].queue
      /\ r.event = 0 /\ r.watch = run[p].watch
  BY <1>1, <1>4 DEF Runs
<1>6. \A i \in r.queue : r.mem[i].state = "approved"
  <2>1. \A i \in r.queue : i \in Ids /\ i \notin {run[p].id} /\ run[p].mem[i].state = "approved"
    BY <1>1, <1>5 DEF CopyOf, Runs
  <2> QED BY <1>4, <1>5, <2>1 DEF Marked
<1> HIDE DEF r
<1>7. Proceeds(p, r, x)
  BY <1>4, <1>5, <1>6, NextItemProceeds
<1> HIDE DEF x
<1>8. \A i \in Ids : i > asked => file[i] = Unmade
  BY <1>1, <1>4 DEF CopyOf, Marked
<1>9. DataOK'
  BY <1>2, <1>4, <1>8 DEF TypeInv, DataOK
<1>10. p = "tick" => run[p].watch \in Watches
  BY <1>1 DEF ShapeOf, Busy
<1>11. ShapeOf(p, x) /\ (x.step \in Busy /\ x.id # Direct => CopyOf(x, asked'))
  <2>1. CASE r.queue # {}
    <3>1. /\ x.step = "read" /\ x.id \in r.queue /\ x.queue = r.queue \ {x.id} /\ x.mem = file
          /\ x.intent = file[x.id].intent /\ x.event = 0 /\ x.watch = run[p].watch
          /\ x.bill = [cost |-> file[x.id].cost, count |-> file[x.id].count]
      BY <1>5, <1>7, <2>1 DEF Proceeds
    <3>2. x.id \in Ids /\ file[x.id].state = "approved"
      BY <1>5, <1>6, <3>1 DEF Runs
    <3>3. x.intent \in Intents
      <4>1. file[x.id] # Unmade
        BY <3>2 DEF Unmade
      <4> QED BY <1>4, <3>1, <3>2, <4>1, ProposalTyped
    <3>4. ShapeOf(p, x)
      BY <1>1, <1>10, <3>1, <3>2, <3>3, BoundsTyped DEF ShapeOf, Busy
    <3>5. CopyOf(x, asked')
      <4>1. \A i \in x.queue : x.mem[i].state = "approved"
        BY <1>5, <1>6, <3>1
      <4> QED BY <1>4, <1>8, <3>1, <3>2, <4>1 DEF CopyOf
    <3> QED BY <3>4, <3>5
  <2>2. CASE r.queue = {}
    <3>1. x.id = Direct /\ x.event = 0
          /\ IF p = "tick" THEN x.step = "check" /\ x.watch = run[p].watch ELSE x = Off
      BY <1>5, <1>7, <2>2 DEF Proceeds
    <3> QED BY <1>1, <1>10, <3>1, OffShape DEF ShapeOf, Busy
  <2> QED BY <2>1, <2>2
<1>12. x \in Runs /\ x.loaded <= clock'
  BY <1>1, <1>5, <1>7 DEF Proceeds
<1>13. TypeInv' /\ Others(p) /\ run'[p] = x
  <2>1. clock' \in Nat /\ clock' >= clock /\ asked' \in Nat /\ asked' >= asked
    BY Numbers
  <2> QED BY <1>2, <1>9, <1>11, <1>12, <2>1, MovesOK
<1> QED BY <1>2, <1>4, <1>5, <1>7, <1>13 DEF s

\* A process that is no drain stops writing, or goes on without writing.
LEMMA IdleTyped ==
    ASSUME TypeInv, NEW p \in Proc, NEW x \in Runs, run' = [run EXCEPT ![p] = x],
           p \notin Copies, x.step \notin Busy, ShapeOf(p, x), x.loaded <= clock, DataOK',
           UNCHANGED <<setup, clock, team, store, yes, no, sends, done, landed, hurt, asked, kills, overlaps>>
    PROVE  TypeInv' /\ Idles
<1>1. clock' \in Nat /\ clock' >= clock /\ asked' \in Nat /\ asked' >= asked
  BY Numbers
<1>2. TypeInv' /\ Others(p) /\ run'[p] = x
  BY <1>1, MovesOK
<1>3. \A q \in Proc : run'[q] = run[q] \/ (q \notin Copies /\ run'[q].step \notin Busy)
  BY <1>2 DEF Others
<1> QED BY <1>2, <1>3, Zenon DEF Idles

LEMMA DirectTyped ==
    ASSUME TypeInv, NEW p \in Proc, NEW ok, run[p].step = "answer", p \notin Copies, Record(p, ok),
           UNCHANGED <<setup, clock, asked, team, cred, watch, yes, no, sends, done, landed, hurt, kills, overlaps>>,
           faults' \in 0 .. setup'.faults
    PROVE  TypeInv' /\ Idles
<1> DEFINE x == AfterDirect(run[p])
<1>1. /\ run[p] \in Runs /\ run[p].loaded <= clock /\ ShapeOf(p, run[p]) /\ run[p].step \in Busy
      /\ clock \in Nat /\ run[p].id = Direct
  BY ProcFacts DEF Busy
<1>2. run' = [run EXCEPT ![p] = x] /\ store' = store
  <2>1. run \in [Proc -> Runs]
    BY DEF TypeInv
  <2> QED BY <1>1, <2>1 DEF Record
<1>3. x = [Off EXCEPT !.step = "agent", !.at = run[p].at, !.watch = run[p].watch, !.event = run[p].event]
  BY DEF AfterDirect
<1> HIDE DEF x
<1>4. x \in Runs
  BY <1>1, <1>3, OffTyped DEF Runs, Steps
<1>5. x.step = "agent" /\ x.watch = run[p].watch /\ x.event = run[p].event /\ x.id = Direct /\ x.loaded = 0
  BY <1>3 DEF Off
<1>6. ShapeOf(p, x)
  BY <1>1, <1>5 DEF ShapeOf, Busy
<1>7. DataOK'
  BY <1>2 DEF TypeInv, DataOK
<1>8. x.loaded <= clock /\ x.step \notin Busy
  BY <1>1, <1>5 DEF Busy
<1> QED BY <1>2, <1>4, <1>6, <1>7, <1>8, IdleTyped

LEMMA RaisedStep ==
    ASSUME TypeInv, NEW p \in Proc, Raised(p)
    PROVE  TypeInv' /\ Kinds
<1>1. /\ run[p].step = "answer" /\ run[p].reply = "raised" /\ Record(p, FALSE)
      /\ UNCHANGED <<setup, clock, asked, team, cred, watch, yes, no, sends, done, landed, hurt, kills, faults, overlaps>>
  BY DEF Raised, config, ghosts, bounds
<1>2. hurt' \in SUBSET Ids /\ faults' \in 0 .. setup'.faults
  BY <1>1 DEF TypeInv, DataOK
<1>3. CASE p \in Copies
  <2>1. /\ TypeInv' /\ Others(p) /\ Marked(run[p].mem, store', {run[p].id}, "failed")
        /\ \E r \in Runs : /\ r.queue = run[p].queue /\ r.mem = store'
                           /\ r.loaded = run[p].loaded /\ Proceeds(p, r, run'[p])
    BY <1>1, <1>2, <1>3, RecordTyped
  <2>2. \E s \in {"executed", "failed"}, squad \in {team.squad, NoRead} :
          /\ Marked(run[p].mem, store', {run[p].id}, s)
          /\ IF run[p].reply = "ok" THEN s = "executed" <=> Verified(p, squad) ELSE s = "failed"
          /\ squad = team.squad \/ run[p].id \in hurt'
    <3> WITNESS "failed" \in {"executed", "failed"}, team.squad \in {team.squad, NoRead}
    <3> QED BY <1>1, <2>1
  <2>3. Records(p)
    BY <1>1, <1>3, <2>1, <2>2 DEF Records
  <2> QED BY <2>1, <2>3 DEF Kinds
<1>4. CASE p \notin Copies
  BY <1>1, <1>2, <1>4, DirectTyped DEF Kinds
<1> QED BY <1>3, <1>4

LEMMA ReadAfterStep ==
    ASSUME TypeInv, NEW p \in Proc, ReadAfter(p)
    PROVE  TypeInv' /\ Kinds
<1>1. /\ run[p].step = "answer" /\ run[p].reply = "ok"
      /\ UNCHANGED <<setup, clock, asked, team, cred, watch, yes, no, sends, done, landed, kills, overlaps>>
  BY DEF ReadAfter, config
<1>2. PICK n \in {0, 1} :
        /\ CanFail(n) /\ Hurts(run[p].id, n)
        /\ Record(p, Verified(p, IF n = 0 THEN team.squad ELSE NoRead))
  BY DEF ReadAfter, Verified
<1> DEFINE squad == IF n = 0 THEN team.squad ELSE NoRead
           ok == Verified(p, squad)
           s == IF ok THEN "executed" ELSE "failed"
<1>3. run[p] \in Runs /\ run[p].id \in Ids \union {Direct}
      /\ (p \notin Copies => run[p].id = Direct) /\ (p \in Copies => run[p].id # Direct)
  <2>1. run[p] \in Runs /\ (p \notin Copies => run[p].id = Direct) /\ (p \in Copies => run[p].id # Direct)
    BY <1>1, ProcFacts DEF Busy
  <2> QED BY <2>1 DEF Runs
<1>4. hurt' \in SUBSET Ids /\ faults' \in 0 .. setup'.faults
  BY <1>1, <1>2, <1>3, HurtTyped, FaultsTyped
<1>5. ok \in BOOLEAN
  BY DEF Verified, VerifyLineup, VerifyTransfer
<1>6. /\ hurt' \in {hurt, hurt \union {run[p].id}}
      /\ p \notin Copies => hurt' = hurt
      /\ p \in Copies => squad = team.squad \/ run[p].id \in hurt'
  BY <1>2, <1>3 DEF Hurts
<1> HIDE DEF ok
<1>7. CASE p \in Copies
  <2>1. /\ TypeInv' /\ Others(p) /\ Marked(run[p].mem, store', {run[p].id}, s)
        /\ \E r \in Runs : /\ r.queue = run[p].queue /\ r.mem = store'
                           /\ r.loaded = run[p].loaded /\ Proceeds(p, r, run'[p])
    <3>1. Record(p, ok)
      BY <1>2 DEF ok
    <3> QED BY <1>1, <1>4, <1>5, <1>7, <3>1, RecordTyped
  <2>2. s \in {"executed", "failed"} /\ (s = "executed" <=> ok) /\ squad \in {team.squad, NoRead}
    OBVIOUS
  <2>3. s \in {"executed", "failed"} /\ (s = "executed" <=> Verified(p, squad))
    BY <2>2 DEF ok
  <2> HIDE DEF s, squad
  <2>4. \E t \in {"executed", "failed"}, u \in {team.squad, NoRead} :
          /\ Marked(run[p].mem, store', {run[p].id}, t)
          /\ IF run[p].reply = "ok" THEN t = "executed" <=> Verified(p, u) ELSE t = "failed"
          /\ u = team.squad \/ run[p].id \in hurt'
    BY <1>1, <1>6, <1>7, <2>1, <2>2, <2>3
  <2>5. Records(p)
    BY <1>1, <1>6, <1>7, <2>1, <2>4 DEF Records
  <2> QED BY <2>1, <2>5 DEF Kinds
<1>8. CASE p \notin Copies
  <2>1. Record(p, ok)
    BY <1>2 DEF ok
  <2> QED BY <1>1, <1>4, <1>6, <1>8, <2>1, DirectTyped DEF Kinds
<1> QED BY <1>7, <1>8

(***************************************************************************)
(* The agent, the watch and the environment                                *)
(***************************************************************************)

LEMMA FilledTyped ==
    ASSUME TypeInv, NEW i \in Intents
    PROVE  /\ Filled(i) \in Intents /\ Filled(i).action = i.action /\ Filled(i).chip = i.chip
           /\ RealSquad(Filled(i))
<1>1. team.squad \in SUBSET Player /\ Cardinality(team.squad) = Cardinality(Squad0)
  BY DEF TypeInv, DataOK
<1>2. CASE i.action = "lineup"
  <2>1. i \in [action : {"lineup"}, order : Orders, players : SUBSET Player, chip : BOOLEAN]
    BY <1>2, IntentTyped
  <2>2. Filled(i) = [i EXCEPT !.players = team.squad]
    BY <1>2 DEF Filled
  <2>3. /\ Filled(i) \in [action : {"lineup"}, order : Orders, players : SUBSET Player, chip : BOOLEAN]
        /\ Filled(i).players = team.squad /\ Filled(i).action = i.action /\ Filled(i).chip = i.chip
    BY <1>1, <2>1, <2>2
  <2>4. team.squad = {} => Squad0 = {}
    BY <1>1, BoundsTyped, FS_EmptySet, FS_Subset
  <2> QED BY <2>3, <2>4 DEF RealSquad, Intents
<1>3. CASE i.action # "lineup"
  BY <1>3 DEF Filled, RealSquad
<1> QED BY <1>2, <1>3

\* What the policy makes automatic: no chip, nothing it must be asked about, no hit beyond
\* its limit.
LEMMA ActIsAutomatic ==
    ASSUME setup \in Setups, NEW i \in Intents, NEW hit \in Nat, NEW now, NEW deadline,
           Decide(Policy, i, hit, now, deadline) = "act"
    PROVE  Automatic(i) /\ (i.action = "transfer" => hit <= Policy.max_hit)
<1>1. Policy.max_hit \in Nat /\ i.chip \in BOOLEAN
  BY SetupTyped DEF Intents
<1>2. ~i.chip
  BY DEF Decide, ForChip
<1>3. CASE i.action = "lineup"
  <2>1. Gated(Policy, Policy.lineup, now, deadline) = "act"
    BY <1>2, <1>3 DEF Decide, ForLineup
  <2>2. Policy.lineup # "ask"
    BY <2>1 DEF Gated
  <2> QED BY <1>2, <1>3, <2>2 DEF Automatic
<1>4. CASE i.action # "lineup"
  <2>1. ForTransfer(Policy, hit, now, deadline) = "act"
    BY <1>2, <1>4 DEF Decide
  <2>2. Policy.transfers # "ask"
    BY <2>1 DEF ForTransfer
  <2>3. ~(hit > Policy.max_hit)
    BY <2>1 DEF ForTransfer
  <2> QED BY <1>1, <1>2, <1>4, <2>2, <2>3 DEF Automatic
<1> QED BY <1>3, <1>4

LEMMA ProposeStep ==
    ASSUME TypeInv, NEW p \in Proc, NEW raw \in setup.intents, Propose(p, raw)
    PROVE  TypeInv' /\ Kinds
<1> DEFINE intent == Filled(raw)
           cost == IF intent.action = "transfer" THEN Cost(Platform, team.made) ELSE 0
           verdict == Decide(Policy, intent, cost, clock, Deadline(clock))
<1>1. /\ run[p].step = "agent"
      /\ UNCHANGED <<setup, clock, team, cred, watch, yes, no, sends, done, landed, hurt, kills, faults>>
  BY DEF Propose, config
<1>2. setup \in Setups /\ team.made \in Nat /\ team.count \in Nat /\ store \in Files
  BY DEF TypeInv, DataOK
<1>3. raw \in Intents
  BY <1>2, SetupTyped
<1>4. intent \in Intents /\ RealSquad(intent)
  BY <1>3, FilledTyped
<1>5. cost \in Nat /\ (intent.action = "transfer" => cost = Charge)
  <2>1. Cost(Platform, team.made) = Charge
    BY DEF Cost, Charge
  <2>2. Charge \in Nat
    BY BoundsTyped DEF Charge
  <2> QED BY <2>1, <2>2
<1>6. Fair(team, intent, cost, team.count)
  <2>1. Charge = ChargeOf(team)
    BY DEF Charge, ChargeOf
  <2> QED BY <1>2, <1>5, <2>1 DEF Fair
<1>7. CASE /\ verdict = "ask" /\ asked < MaxProposals /\ asked' = asked + 1
           /\ store' = [store EXCEPT ![asked'] = NewProposal(intent, cost)]
           /\ UNCHANGED <<run, overlaps>>
  <2> DEFINE y == NewProposal(intent, cost)
  <2>1. asked' \in Ids /\ asked' \in 0 .. MaxProposals /\ asked' > asked /\ asked \in Nat /\ asked' \in Nat
    BY <1>7, Numbers, BoundsTyped DEF Ids
  <2>2. /\ y = [state |-> "pending", intent |-> intent, expires |-> Deadline(clock), cost |-> cost,
                count |-> team.count]
        /\ Deadline(clock) \in Int
    BY Numbers, DeadlineTyped DEF NewProposal
  <2>3. /\ y \in [state : States, intent : Intents, expires : Int, cost : Nat, count : Nat]
        /\ y.state = "pending" /\ y.intent = intent /\ y.cost = cost /\ y.count = team.count
    <3> HIDE DEF intent, cost, y
    <3> QED BY <1>2, <1>4, <1>5, <2>2 DEF States
  <2>4. y # Unmade
    BY <2>3 DEF Unmade
  <2> HIDE DEF y
  <2>5. store' = [store EXCEPT ![asked'] = y]
    BY <1>7 DEF y
  <2>6. store' \in Files
    BY <1>2, <2>1, <2>3, <2>5 DEF Files
  <2>7. \A i \in Ids : i > asked' => store'[i] = Unmade
    <3> SUFFICES ASSUME NEW i \in Ids, i > asked' PROVE store'[i] = Unmade
      OBVIOUS
    <3>1. i > asked /\ i # asked'
      BY <2>1, BoundsTyped
    <3>2. store'[i] = store[i]
      BY <1>2, <2>5, <3>1 DEF Files
    <3> QED BY <3>1, <3>2 DEF TypeInv, DataOK
  <2>8. DataOK'
    BY <1>1, <1>7, <2>1, <2>6, <2>7 DEF TypeInv, DataOK
  <2>9. TypeInv'
    BY <1>1, <1>7, <2>1, <2>8, Numbers, NobodyMovesOK
  <2>10. /\ y.state = "pending" /\ y # Unmade /\ RealSquad(y.intent)
         /\ Fair(team, y.intent, y.cost, y.count)
    BY <1>4, <1>6, <2>3, <2>4
  <2>11. Asks
    BY <1>1, <1>7, <2>1, <2>5, <2>10, Zenon DEF Asks
  <2> QED BY <2>9, <2>11 DEF Kinds
<1>8. CASE /\ verdict = "act"
           /\ run' = [run EXCEPT ![p].step = "read", ![p].id = Direct, ![p].intent = intent,
                                 ![p].bill = [cost |-> Policy.max_hit, count |-> team.count]]
           /\ Crosses /\ UNCHANGED <<store, asked>>
  <2> DEFINE bill == [cost |-> Policy.max_hit, count |-> team.count]
             x == [run[p] EXCEPT !.step = "read", !.id = Direct, !.intent = intent, !.bill = bill]
  <2>1. run[p] \in Runs /\ run[p].loaded <= clock /\ ShapeOf(p, run[p]) /\ run \in [Proc -> Runs]
    BY ProcFacts DEF TypeInv
  <2>2. run' = [run EXCEPT ![p] = x]
    BY <1>8, <2>1
  <2>3. Policy.max_hit \in Nat /\ bill \in [cost : Nat, count : Nat] /\ bill.cost = Policy.max_hit
        /\ bill.count = team.count
    BY <1>2, SetupTyped
  <2>4. Automatic(intent) /\ (intent.action = "transfer" => cost <= Policy.max_hit)
    <3> HIDE DEF intent, cost
    <3> QED BY <1>2, <1>4, <1>5, <1>8, ActIsAutomatic
  <2>5. Fair(team, intent, bill.cost, bill.count)
    <3>1. Charge = ChargeOf(team)
      BY DEF Charge, ChargeOf
    <3> QED BY <1>2, <1>5, <2>3, <2>4, <3>1 DEF Fair
  <2> HIDE DEF intent, bill
  <2>6. /\ x \in Runs /\ x.step = "read" /\ x.id = Direct /\ x.intent = intent /\ x.bill = bill
        /\ x.event = run[p].event /\ x.watch = run[p].watch /\ x.loaded = run[p].loaded
    BY <1>4, <2>1, <2>3 DEF Runs, Steps
  <2> HIDE DEF x
  <2>7. ShapeOf(p, x)
    BY <1>1, <1>4, <2>1, <2>6 DEF ShapeOf, Busy
  <2>8. overlaps' \in Nat /\ Crossing
    BY <1>8, Numbers DEF Crosses, Crossing
  <2>9. DataOK'
    BY <1>1, <1>8, <2>8 DEF TypeInv, DataOK
  <2>10. TypeInv' /\ Others(p) /\ run'[p] = x
    <3>1. /\ clock' \in Nat /\ clock' >= clock /\ asked' \in Nat /\ asked' >= asked
          /\ x.loaded <= clock' /\ ~(x.step \in Busy /\ x.id # Direct)
      BY <1>1, <1>8, <2>1, <2>6, Numbers
    <3> QED BY <2>2, <2>6, <2>7, <2>9, <3>1, MovesOK
  <2>11. Begins(p)
    BY <1>1, <1>4, <1>8, <2>4, <2>5, <2>6, <2>8, <2>10 DEF Begins
  <2> QED BY <2>10, <2>11 DEF Kinds
<1> QED BY <1>7, <1>8, Zenon DEF Propose, Saved

LEMMA AgentEndsStep ==
    ASSUME TypeInv, NEW p \in Proc, AgentEnds(p)
    PROVE  TypeInv' /\ Idles
<1>1. PICK n \in {0, 1} :
        /\ CanFail(n) /\ run' = [run EXCEPT ![p] = Off]
        /\ watch' = IF p = "tick"
                    THEN [run[p].watch EXCEPT !.lastRun = IF n = 0 THEN run[p].event ELSE @] ELSE watch
  BY DEF AgentEnds
<1>2. /\ run[p].step = "agent"
      /\ UNCHANGED <<setup, clock, store, team, cred, yes, no, sends, done, landed, hurt, asked, kills, overlaps>>
  BY DEF AgentEnds, config, ghosts
<1>3. run[p] \in Runs /\ ShapeOf(p, run[p]) /\ clock \in Nat /\ p \notin Copies
  BY <1>2, ProcFacts DEF Busy
<1>4. watch' \in Watches
  <2>1. CASE p = "tick"
    <3>1. run[p].watch \in Watches /\ run[p].event \in Int
      BY <1>2, <1>3, <2>1 DEF ShapeOf, Runs
    <3> QED BY <1>1, <2>1, <3>1 DEF Watches
  <2>2. CASE p # "tick"
    BY <1>1, <2>2 DEF TypeInv, DataOK
  <2> QED BY <2>1, <2>2
<1>5. faults' \in 0 .. setup'.faults
  BY <1>1, <1>2, FaultsTyped
<1>6. DataOK'
  BY <1>2, <1>4, <1>5 DEF TypeInv, DataOK
<1>7. Off.step \notin Busy /\ Off.loaded <= clock
  BY <1>3, OffTyped DEF Busy
<1> QED BY <1>1, <1>2, <1>3, <1>6, <1>7, OffTyped, OffShape, IdleTyped

LEMMA BeginTickStep ==
    ASSUME TypeInv, BeginTick
    PROVE  TypeInv' /\ Idles
<1> DEFINE x == [Off EXCEPT !.step = "drain", !.at = clock, !.watch = watch]
<1>1. /\ run["tick"] = Off /\ run' = [run EXCEPT !["tick"] = x]
      /\ UNCHANGED <<setup, clock, store, team, cred, watch, yes, no, sends, done, landed, hurt, asked, kills, faults, overlaps>>
  <2>1. run["tick"] = Off
    BY DEF BeginTick, Free
  <2>2. run \in [Proc -> Runs]
    BY DEF TypeInv
  <2> QED BY <2>1, <2>2 DEF BeginTick, config, ghosts, bounds
<1>2. clock \in Nat /\ watch \in Watches
  BY Numbers DEF TypeInv, DataOK
<1>3. x \in Runs
  BY <1>2, OffTyped DEF Runs, Steps
<1>4. x.step = "drain" /\ x.id = Direct /\ x.event = 0 /\ x.watch = watch /\ x.loaded = 0
  BY DEF Off
<1> HIDE DEF x
<1>5. ShapeOf("tick", x) /\ x.step \notin Busy /\ x.loaded <= clock
  BY <1>2, <1>4 DEF ShapeOf, Busy
<1>6. "tick" \in Proc /\ "tick" \notin Copies
  BY <1>1, OffTyped DEF Proc, Copies, Writing
<1>7. DataOK'
  BY <1>1 DEF TypeInv, DataOK
<1> QED BY <1>1, <1>3, <1>5, <1>6, <1>7, IdleTyped

LEMMA BeginAgentStep ==
    ASSUME TypeInv, BeginAgent
    PROVE  TypeInv' /\ Idles
<1> DEFINE x == [Off EXCEPT !.step = "agent"]
<1>1. /\ run["agent"] = Off /\ run' = [run EXCEPT !["agent"] = x]
      /\ UNCHANGED <<setup, clock, store, team, cred, watch, yes, no, sends, done, landed, hurt, asked, kills, faults, overlaps>>
  <2>1. run["agent"] = Off
    BY DEF BeginAgent, Free
  <2>2. run \in [Proc -> Runs]
    BY DEF TypeInv
  <2> QED BY <2>1, <2>2 DEF BeginAgent, config, ghosts, bounds
<1>2. clock \in Nat
  BY Numbers
<1>3. x \in Runs
  BY OffTyped DEF Runs, Steps
<1>4. x.step = "agent" /\ x.id = Direct /\ x.event = 0 /\ x.loaded = 0
  BY DEF Off
<1> HIDE DEF x
<1>5. ShapeOf("agent", x) /\ x.step \notin Busy /\ x.loaded <= clock
  BY <1>2, <1>4 DEF ShapeOf, Busy
<1>6. "agent" \in Proc /\ "agent" \notin Copies
  BY <1>1, OffTyped DEF Proc, Copies, Writing
<1>7. DataOK'
  BY <1>1 DEF TypeInv, DataOK
<1> QED BY <1>1, <1>3, <1>5, <1>6, <1>7, IdleTyped

LEMMA SeenTyped ==
    ASSUME NEW w \in Watches, NEW at \in Nat, NEW state \in Creds, NEW alert
    PROVE  Seen(w, at, state, alert) \in Watches
<1> DEFINE last == IF alert THEN at ELSE w.lastAlert
<1>1. last \in Int
  BY DEF Watches
<1>2. Seen(w, at, state, alert) = [w EXCEPT !.lastChecked = at, !.lastSeen = state, !.lastAlert = last]
  BY DEF Seen
<1> HIDE DEF last
<1>3. [w EXCEPT !.lastChecked = at] \in Watches
  BY DEF Watches
<1>4. [w EXCEPT !.lastChecked = at, !.lastSeen = state] \in Watches
  BY <1>3 DEF Watches
<1> QED BY <1>1, <1>2, <1>4 DEF Watches

LEMMA CheckStep ==
    ASSUME TypeInv, Check
    PROVE  TypeInv' /\ Idles
<1> DEFINE r == run["tick"]
<1>1. /\ r.step = "check"
      /\ UNCHANGED <<setup, clock, store, team, cred, yes, no, sends, done, landed, hurt, asked, kills, overlaps>>
  BY DEF Check, config
<1>2. /\ "tick" \in Proc /\ r \in Runs /\ ShapeOf("tick", r) /\ clock \in Nat /\ "tick" \notin Copies
      /\ r.loaded <= clock
  BY <1>1, ProcFacts DEF Busy, Proc
<1>3. r.watch \in Watches /\ r.at \in Nat /\ cred \in Creds /\ r.id = Direct
  BY <1>1, <1>2 DEF ShapeOf, Runs, TypeInv, DataOK
<1>4. PICK m \in {0, 1, 2}, w \in Watches :
        /\ CanFail(m)
        /\ \/ watch' = w /\ run' = [run EXCEPT !["tick"] = Off]
           \/ /\ run' = [run EXCEPT !["tick"].step = "agent", !["tick"].watch = w,
                                    !["tick"].event = Gameweek(clock)]
              /\ UNCHANGED watch
           \/ run' = [run EXCEPT !["tick"].step = "save", !["tick"].watch = w] /\ UNCHANGED watch
  <2>1. PICK blind \in {0, 1}, dark \in {0, 1} : Checks(r, blind, dark)
    BY DEF Check
  <2> DEFINE hours == IF blind = 1 THEN UnknownHorizon ELSE Deadline(clock) - r.at
             due == DueForCheck(Platform, hours, r.watch.lastChecked, r.at)
             state == IF dark = 1 THEN "unknown" ELSE cred
             alert == due /\ ShouldAlert(state, hours, r.watch.lastAlert, r.watch.lastSeen, r.at)
             v == IF due THEN Seen(r.watch, r.at, state, alert) ELSE r.watch
  <2>2. /\ CanFail(blind + dark)
        /\ \/ watch' = v /\ run' = [run EXCEPT !["tick"] = Off]
           \/ /\ run' = [run EXCEPT !["tick"].step = "agent", !["tick"].watch = v,
                                    !["tick"].event = Gameweek(clock)]
              /\ UNCHANGED watch
           \/ run' = [run EXCEPT !["tick"].step = "save", !["tick"].watch = v] /\ UNCHANGED watch
    BY <2>1, Zenon DEF Checks
  <2>3. state \in Creds
    BY <1>3 DEF Creds
  <2> HIDE DEF due, state, alert
  <2>4. v \in Watches
    BY <1>3, <2>3, SeenTyped
  <2> HIDE DEF v
  <2>5. blind + dark \in {0, 1, 2}
    OBVIOUS
  <2> QED BY <2>2, <2>4, <2>5, Zenon
<1>5. faults' \in 0 .. setup'.faults
  BY <1>1, <1>4, FaultsTyped
<1>6. CASE watch' = w /\ run' = [run EXCEPT !["tick"] = Off]
  <2>1. DataOK'
    BY <1>1, <1>5, <1>6 DEF TypeInv, DataOK
  <2>2. Off.step \notin Busy /\ Off.loaded <= clock
    BY <1>2, OffTyped DEF Busy
  <2> QED BY <1>1, <1>2, <1>6, <2>1, <2>2, OffTyped, OffShape, IdleTyped
<1>7. CASE /\ run' = [run EXCEPT !["tick"].step = "agent", !["tick"].watch = w,
                                 !["tick"].event = Gameweek(clock)]
           /\ UNCHANGED watch
  <2> DEFINE x == [r EXCEPT !.step = "agent", !.watch = w, !.event = Gameweek(clock)]
  <2>1. run' = [run EXCEPT !["tick"] = x]
    <3>1. run \in [Proc -> Runs]
      BY DEF TypeInv
    <3> QED BY <1>2, <1>7, <3>1
  <2>2. Gameweek(clock) \in Int
    BY <1>2, DeadlineTyped
  <2>3. x \in Runs /\ x.step = "agent" /\ x.watch = w /\ x.id = r.id /\ x.loaded = r.loaded
    BY <1>2, <1>4, <2>2 DEF Runs, Steps
  <2> HIDE DEF x
  <2>4. ShapeOf("tick", x) /\ x.step \notin Busy
    BY <1>3, <1>4, <2>3 DEF ShapeOf, Busy
  <2>5. DataOK'
    BY <1>1, <1>5, <1>7 DEF TypeInv, DataOK
  <2> QED BY <1>1, <1>2, <2>1, <2>3, <2>4, <2>5, IdleTyped
<1>8. CASE run' = [run EXCEPT !["tick"].step = "save", !["tick"].watch = w] /\ UNCHANGED watch
  <2> DEFINE x == [r EXCEPT !.step = "save", !.watch = w]
  <2>1. run' = [run EXCEPT !["tick"] = x]
    <3>1. run \in [Proc -> Runs]
      BY DEF TypeInv
    <3> QED BY <1>2, <1>8, <3>1
  <2>2. x \in Runs /\ x.step = "save" /\ x.watch = w /\ x.id = r.id /\ x.loaded = r.loaded /\ x.event = r.event
    BY <1>2, <1>4 DEF Runs, Steps
  <2> HIDE DEF x
  <2>3. ShapeOf("tick", x) /\ x.step \notin Busy
    BY <1>1, <1>2, <1>3, <1>4, <2>2 DEF ShapeOf, Busy
  <2>4. DataOK'
    BY <1>1, <1>5, <1>8 DEF TypeInv, DataOK
  <2> QED BY <1>1, <1>2, <2>1, <2>2, <2>3, <2>4, IdleTyped
<1> QED BY <1>4, <1>6, <1>7, <1>8

LEMMA SaveStep ==
    ASSUME TypeInv, SaveWatch
    PROVE  TypeInv' /\ Idles
<1>1. /\ run["tick"].step = "save" /\ watch' = run["tick"].watch /\ run' = [run EXCEPT !["tick"] = Off]
      /\ UNCHANGED <<setup, clock, store, team, cred, yes, no, sends, done, landed, hurt, asked, kills, faults, overlaps>>
  BY DEF SaveWatch, config, ghosts, bounds
<1>2. /\ "tick" \in Proc /\ ShapeOf("tick", run["tick"]) /\ clock \in Nat /\ "tick" \notin Copies
  BY <1>1, ProcFacts DEF Busy, Proc
<1>3. watch' \in Watches
  BY <1>1, <1>2 DEF ShapeOf
<1>4. DataOK'
  BY <1>1, <1>3 DEF TypeInv, DataOK
<1>5. Off.step \notin Busy /\ Off.loaded <= clock
  BY <1>2, OffTyped DEF Busy
<1> QED BY <1>1, <1>2, <1>4, <1>5, OffTyped, OffShape, IdleTyped

LEMMA PassStep ==
    ASSUME TypeInv, Pass
    PROVE  TypeInv' /\ Idles
<1>1. /\ run' = run /\ clock < setup.until /\ clock' = clock + 1
      /\ team' = IF Gameweek(clock') # Gameweek(clock) THEN [team EXCEPT !.made = 0] ELSE team
      /\ UNCHANGED <<setup, store, cred, watch, yes, no, sends, done, landed, hurt, asked, kills, faults, overlaps>>
  BY DEF Pass, config, ghosts, bounds
<1>2. clock' \in 0 .. MaxNow /\ clock' \in Nat /\ clock' >= clock
  <2>1. setup \in Setups
    BY DEF TypeInv, DataOK
  <2> QED BY <1>1, <2>1, Numbers, SetupTyped, BoundsTyped
<1>3. team' \in {team, [team EXCEPT !.made = 0]}
  BY <1>1
<1>4. /\ team' \in Teams /\ team'.squad = team.squad /\ team'.made <= team'.count
  <2>1. team \in Teams /\ team.made <= team.count /\ team.count \in Nat
    BY DEF TypeInv, DataOK, Teams
  <2> QED BY <1>3, <2>1 DEF Teams
<1>5. DataOK'
  BY <1>1, <1>2, <1>4 DEF TypeInv, DataOK, Teams
<1>6. TypeInv'
  BY <1>1, <1>2, <1>5, Numbers, NobodyMovesOK
<1> QED BY <1>1, <1>3, <1>6, Zenon DEF Idles

LEMMA TurnStep ==
    ASSUME TypeInv, Turn
    PROVE  TypeInv' /\ Idles
<1>1. /\ run' = run /\ CanFail(1) /\ cred' \in {"ok", "expired"}
      /\ UNCHANGED <<setup, clock, store, team, watch, yes, no, sends, done, landed, hurt, asked, kills, overlaps>>
  BY DEF Turn, config
<1>2. faults' \in 0 .. setup'.faults
  BY <1>1, FaultsTyped
<1>3. DataOK'
  BY <1>1, <1>2 DEF TypeInv, DataOK, Creds
<1>4. TypeInv'
  BY <1>1, <1>3, Numbers, NobodyMovesOK
<1> QED BY <1>1, <1>4, Zenon DEF Idles

LEMMA KillStep ==
    ASSUME TypeInv, NEW p \in Proc, Kill(p)
    PROVE  TypeInv' /\ Dies(p)
<1>1. /\ kills < setup.kills /\ kills' = kills + 1
      /\ hurt' = IF p \in Copies THEN hurt \union {run[p].id} ELSE hurt
      /\ UNCHANGED <<setup, clock, store, team, cred, watch, yes, no, sends, done, landed, asked, faults, overlaps>>
  <2>1. Hurts(IF Writing(p) THEN run[p].id ELSE Direct, 1)
    BY DEF Kill
  <2>2. hurt' = IF p \in Copies THEN hurt \union {run[p].id} ELSE hurt
    BY <2>1 DEF Hurts, Copies
  <2> QED BY <2>2 DEF Kill, config
<1>2. /\ run[p] \in Runs /\ run[p].loaded <= clock /\ ShapeOf(p, run[p]) /\ clock \in Nat
      /\ p \in Copies => run[p].id \in Ids /\ run[p].event = 0
      /\ p \in Copies <=> run[p].step \in Busy /\ run[p].id # Direct
  BY ProcFacts
<1>3. DataOK'
  <2>1. hurt' \in SUBSET Ids
    BY <1>1, <1>2 DEF TypeInv, DataOK
  <2>2. kills' \in 0 .. setup'.kills
    <3>1. setup \in Setups
      BY DEF TypeInv, DataOK
    <3> QED BY <1>1, <3>1, Numbers, SetupTyped
  <2> QED BY <1>1, <2>1, <2>2 DEF TypeInv, DataOK
<1>4. clock' \in Nat /\ clock' >= clock /\ asked' \in Nat /\ asked' >= asked
  BY <1>1, Numbers
<1>5. CASE run' = [run EXCEPT ![p] = Off]
  <2>1. Off.loaded <= clock' /\ Off.step \notin Busy
    BY <1>1, <1>2, OffTyped DEF Busy
  <2>2. TypeInv' /\ Others(p) /\ run'[p] = Off
    BY <1>3, <1>4, <1>5, <2>1, OffTyped, OffShape, MovesOK
  <2> QED BY <1>1, <2>2, Zenon DEF Dies
<1>6. CASE /\ p = "tick" /\ run[p].event > 0 /\ run["agent"] = Off
           /\ run' = [run EXCEPT !["tick"] = Off, !["agent"] = run["tick"]]
  <2>1. p \notin Copies /\ run[p].id = Direct /\ run[p].step \in {"agent"} \union Busy
    BY <1>2, <1>6 DEF ShapeOf
  <2>2. /\ run \in [Proc -> Runs] /\ Proc = {"tick", "approve", "agent"}
    BY DEF TypeInv, Proc
  <2>3. run' \in [Proc -> Runs] /\ run'["tick"] = Off /\ run'["agent"] = run["tick"]
        /\ run'["approve"] = run["approve"]
    BY <1>2, <1>6, <2>2, OffTyped
  <2>4. ProcOK("approve")'
    BY <1>4, <2>2, <2>3, StaysOK
  <2>5. ProcOK("tick")'
    <3>1. ~("tick" \in Copies')
      BY <2>3, OffTyped DEF Copies, Writing
    <3>2. Off.loaded <= clock'
      BY <1>1, <1>2, OffTyped
    <3> QED BY <2>3, <3>1, <3>2, OffTyped, OffShape DEF ProcOK
  <2>6. ProcOK("agent")'
    <3>1. ~("agent" \in Copies')
      BY <1>6, <2>1, <2>3 DEF Copies, Writing
    <3>2. ShapeOf("agent", run[p])
      BY <1>2, <2>1 DEF ShapeOf, Busy
    <3> QED BY <1>1, <1>2, <1>6, <2>3, <3>1, <3>2 DEF ProcOK
  <2>7. TypeInv'
    BY <1>3, <2>2, <2>3, <2>4, <2>5, <2>6 DEF TypeInv
  <2> QED BY <1>1, <1>6, <2>1, <2>7, Zenon DEF Dies
<1> QED BY <1>5, <1>6 DEF Kill

LEMMA InitTyped == Init => TypeInv
<1> SUFFICES ASSUME Init PROVE TypeInv
  OBVIOUS
<1>1. Min(Orders) \in Orders
  BY BoundsTyped, MinIn
<1>2. setup \in Setups /\ setup.kills \in Nat /\ setup.faults \in Nat
  BY SetupTyped DEF Init
<1>3. store \in Files /\ \A i \in Ids : store[i] = Unmade
  BY DEF Init, Files
<1>4. /\ team.squad = Squad0 /\ team.made <= team.count
      /\ team \in [squad : SUBSET Player, order : Orders, made : Nat, count : Nat]
  BY <1>1, BoundsTyped DEF Init
<1>5. watch \in Watches
  <2>1. watch = [lastAlert |-> Never, lastSeen |-> "", lastChecked |-> Never, lastRun |-> 0]
    BY DEF Init, NoWatch
  <2> DEFINE nothing == ""
  <2>2. nothing \in Creds /\ Never \in Int
    BY DEF Creds, Never
  <2> HIDE DEF nothing
  <2>3. [lastAlert |-> Never, lastSeen |-> nothing, lastChecked |-> Never, lastRun |-> 0] \in Watches
    BY <2>2 DEF Watches
  <2> QED BY <2>1, <2>3 DEF nothing
<1>6. DataOK
  BY <1>2, <1>3, <1>4, <1>5, BoundsTyped DEF Init, DataOK, Creds
<1>7. run = [p \in Proc |-> Off]
  BY DEF Init
<1>8. ASSUME NEW p \in Proc PROVE ProcOK(p)
  <2>1. run[p] = Off
    BY <1>7
  <2>2. p \notin Copies
    BY <2>1, OffTyped DEF Copies, Writing
  <2>3. Off.loaded <= clock
    BY OffTyped DEF Init
  <2> QED BY <2>1, <2>2, <2>3, OffTyped, OffShape DEF ProcOK
<1>9. run \in [Proc -> Runs]
  BY <1>7, OffTyped
<1> QED BY <1>6, <1>8, <1>9 DEF TypeInv

\* Every step keeps the types, and is of one of the kinds.
LEMMA NextKinds ==
    ASSUME TypeInv, [Next]_vars
    PROVE  TypeInv' /\ Kinds
<1>1. CASE Next
  <2>1. ASSUME NEW p \in Proc, Step(p) PROVE TypeInv' /\ Kinds
    <3>1. CASE LoadApproved(p)
      BY <3>1, LoadStep DEF Kinds
    <3>2. CASE ReadBefore(p)
      BY <3>2, ReadStep DEF Kinds
    <3>3. CASE Send(p)
      BY <3>3, SendStep DEF Kinds
    <3>4. CASE Raised(p)
      BY <3>4, RaisedStep
    <3>5. CASE ReadAfter(p)
      BY <3>5, ReadAfterStep
    <3>6. CASE AgentEnds(p)
      BY <3>6, AgentEndsStep DEF Kinds
    <3>7. CASE Check \/ SaveWatch
      BY <3>7, CheckStep, SaveStep DEF Kinds
    <3> QED BY <2>1, <3>1, <3>2, <3>3, <3>4, <3>5, <3>6, <3>7 DEF Step
  <2>2. ASSUME NEW p \in Proc, Kill(p) PROVE TypeInv' /\ Kinds
    BY <2>2, KillStep DEF Kinds
  <2>3. ASSUME NEW p \in Proc, NEW i \in setup.intents, Propose(p, i) PROVE TypeInv' /\ Kinds
    BY <2>3, ProposeStep
  <2>4. ASSUME NEW i \in Ids, Approve(i) \/ Reject(i) PROVE TypeInv' /\ Kinds
    BY <2>4, ApproveStep, RejectStep DEF Kinds
  <2>5. CASE BeginTick \/ BeginAgent \/ ListPending \/ Pass \/ Turn
    BY <2>5, BeginTickStep, BeginAgentStep, ListPendingStep, PassStep, TurnStep DEF Kinds
  <2> QED BY <1>1, <2>1, <2>2, <2>3, <2>4, <2>5 DEF Next
<1>2. CASE UNCHANGED vars
  <2>1. /\ run' = run
        /\ UNCHANGED <<setup, clock, store, team, cred, watch, yes, no, sends, done, landed, hurt, asked, kills, faults, overlaps>>
    BY <1>2 DEF vars, config, ghosts, bounds
  <2>2. DataOK'
    BY <2>1 DEF TypeInv, DataOK
  <2>3. TypeInv'
    BY <2>1, <2>2, Numbers, NobodyMovesOK
  <2>4. Idles
    BY <2>1, Zenon DEF Idles
  <2> QED BY <2>3, <2>4 DEF Kinds
<1> QED BY <1>1, <1>2

\* Nothing ever leaves its type.
THEOREM TypesCorrect == Spec => []TypeOK
<1>1. TypeInv /\ [Next]_vars => TypeInv'
  BY NextKinds
<1> QED BY <1>1, InitTyped, TypeInvOK, PTL DEF Spec

(***************************************************************************)
(* Consent                                                                 *)
(***************************************************************************)

LEMMA SameCopy ==
    ASSUME NEW q \in Proc, run'[q] = run[q]
    PROVE  (q \in Copies' <=> q \in Copies) /\ (Writing(q)' <=> Writing(q))
  BY DEF Copies, Writing
LEMMA NoCopy ==
    ASSUME NEW q \in Proc, run'[q].step \notin Busy
    PROVE  q \notin Copies' /\ ~Writing(q)'
  BY DEF Copies, Writing, Busy

LEMMA ConsentStays ==
    ASSUME NEW q \in Proc, ConsentOf(q), run'[q] = run[q], setup' = setup, yes \subseteq yes',
           no' = no \/ q \notin Copies
    PROVE  ConsentOf(q)'
<1>1. (q \in Copies' <=> q \in Copies) /\ (Writing(q)' <=> Writing(q))
  BY SameCopy
<1>2. q \in Copies => Consented(run[q].mem)' /\ InForce(run[q])'
  BY DEF ConsentOf, Consented, InForce
<1>3. Writing(q) /\ run[q].id = Direct => Automatic(run[q].intent)'
  BY DEF ConsentOf, Automatic, Policy
<1> QED BY <1>1, <1>2, <1>3 DEF ConsentOf

LEMMA ConsentSilent ==
    ASSUME NEW q \in Proc, run'[q].step \notin Busy
    PROVE  ConsentOf(q)'
  BY NoCopy DEF ConsentOf

\* A file whose marked proposals were nobody's refusal keeps to the owner's word.
LEMMA ConsentMarked ==
    ASSUME NEW f, NEW g, NEW is, NEW s, Consented(f), Marked(f, g, is, s), s # "approved",
           \A i \in Ids \intersect is : f[i].state # "rejected"
    PROVE  Consented(g)
<1> SUFFICES ASSUME NEW i \in Ids
             PROVE  /\ g[i].state = "approved" => i \in yes
                    /\ i \in no => g[i].state = "rejected"
  BY DEF Consented
<1>1. /\ f[i].state = "approved" => i \in yes
      /\ i \in no => f[i].state = "rejected"
  BY DEF Consented
<1>2. CASE i \in is
  BY <1>1, <1>2 DEF Marked
<1>3. CASE i \notin is
  BY <1>1, <1>3 DEF Marked
<1> QED BY <1>2, <1>3

\* A drain goes on with the file it has just saved.
LEMMA ConsentProceeds ==
    ASSUME NEW p \in Proc, NEW r, Proceeds(p, r, run'[p]), r.mem = store', Consented(store)',
           r.queue \subseteq Ids, InForce(r)
    PROVE  ConsentOf(p)'
<1>1. CASE r.queue # {}
  <2>1. /\ run'[p].mem = store' /\ run'[p].loaded = r.loaded /\ run'[p].id # Direct
        /\ r.mem = run'[p].mem
    BY <1>1, BoundsTyped DEF Proceeds
  <2>2. Consented(run[p].mem)' /\ InForce(run[p])'
    BY <2>1 DEF Consented, InForce
  <2> QED BY <2>1, <2>2 DEF ConsentOf
<1>2. CASE r.queue = {}
  <2>1. run'[p].step \notin Busy
    BY <1>2, OffTyped DEF Proceeds, Busy
  <2> QED BY <2>1, ConsentSilent
<1> QED BY <1>1, <1>2

LEMMA ConsentNext ==
    ASSUME TypeInv, Kinds, ConsentInv
    PROVE  ConsentInv'
<1> USE DEF ConsentInv
<1>0. Consented(store) /\ \A q \in Proc : ConsentOf(q)
  OBVIOUS
<1>1. CASE Edits
  <2>1. PICK is \in SUBSET Ids, s \in {"approved", "expired", "rejected"} :
          /\ Marked(store, store', is, s)
          /\ s # "rejected" => \A i \in is : store[i].state = "pending"
          /\ s = "approved" => is \subseteq yes'
          /\ IF s = "rejected" THEN no' = no \/ (Copies = {} /\ no' = no \union is) ELSE no' = no
    BY <1>1 DEF Edits
  <2>2. yes \subseteq yes' /\ setup' = setup
    BY <1>1 DEF Edits
  <2>3. ASSUME NEW i \in Ids
        PROVE  /\ store'[i].state = "approved" => i \in yes'
               /\ i \in no' => store'[i].state = "rejected"
    <3>1. /\ store[i].state = "approved" => i \in yes
          /\ i \in no => store[i].state = "rejected"
      BY <1>0 DEF Consented
    <3>2. CASE i \in is
      BY <2>1, <3>1, <3>2 DEF Marked
    <3>3. CASE i \notin is
      BY <2>1, <2>2, <3>1, <3>3 DEF Marked
    <3> QED BY <3>2, <3>3
  <2>4. ASSUME NEW q \in Proc PROVE ConsentOf(q)'
    <3>1. no' = no \/ q \notin Copies
      BY <2>1
    <3>2. CASE run'[q] = run[q]
      BY <1>0, <2>2, <3>1, <3>2, ConsentStays
    <3>3. CASE run'[q] # run[q]
      BY <1>1, <3>3, ConsentSilent DEF Edits
    <3> QED BY <3>2, <3>3
  <2>5. Consented(store)'
    BY <2>3 DEF Consented
  <2> QED BY <2>4, <2>5
<1>2. CASE Asks
  <2>1. /\ run' = run /\ setup' = setup /\ yes' = yes /\ no' = no
        /\ asked' \in Ids /\ asked' > asked
    BY <1>2, Numbers DEF Asks
  <2>2. \A q \in Proc : ConsentOf(q)'
    BY <1>0, <2>1, ConsentStays
  <2>3. ASSUME NEW i \in Ids
        PROVE  /\ store'[i].state = "approved" => i \in yes'
               /\ i \in no' => store'[i].state = "rejected"
    <3>1. /\ store[i].state = "approved" => i \in yes
          /\ i \in no => store[i].state = "rejected"
      BY <1>0 DEF Consented
    <3>2. store \in Files /\ \A j \in Ids : j > asked => store[j] = Unmade
      BY DEF TypeInv, DataOK
    <3>3. CASE i = asked'
      <4>1. store[i].state = "none"
        BY <2>1, <3>2, <3>3 DEF Unmade
      <4>2. store'[i].state = "pending"
        BY <1>2, <3>2, <3>3 DEF Asks, Files
      <4> QED BY <2>1, <3>1, <4>1, <4>2
    <3>4. CASE i # asked'
      <4>1. store'[i] = store[i]
        BY <1>2, <3>2, <3>4 DEF Asks, Files
      <4> QED BY <2>1, <3>1, <4>1
    <3> QED BY <3>3, <3>4
  <2>4. Consented(store)'
    BY <2>3 DEF Consented
  <2> QED BY <2>2, <2>4
<1>3. CASE Idles
  <2>1. UNCHANGED <<setup, store, yes, no>>
    BY <1>3 DEF Idles
  <2>2. ASSUME NEW q \in Proc PROVE ConsentOf(q)'
    <3>1. CASE run'[q] = run[q]
      BY <1>0, <2>1, <3>1, ConsentStays
    <3>2. CASE run'[q] # run[q]
      BY <1>3, <3>2, ConsentSilent DEF Idles
    <3> QED BY <3>1, <3>2
  <2>3. Consented(store)'
    BY <1>0, <2>1 DEF Consented
  <2> QED BY <2>2, <2>3
<1>4. ASSUME NEW p \in Proc, Begins(p) PROVE ConsentInv'
  <2>1. UNCHANGED <<setup, store, yes, no>>
    BY <1>4 DEF Begins
  <2>2. \A q \in Proc \ {p} : ConsentOf(q)'
    BY <1>0, <1>4, <2>1, ConsentStays DEF Begins, Others
  <2>3. ConsentOf(p)'
    <3>1. p \notin Copies' /\ Automatic(run'[p].intent)
      BY <1>4 DEF Begins, Copies
    <3>2. Automatic(run[p].intent)'
      BY <2>1, <3>1 DEF Automatic, Policy
    <3> QED BY <3>1, <3>2 DEF ConsentOf
  <2>4. Consented(store)'
    BY <1>0, <2>1 DEF Consented
  <2> QED BY <2>2, <2>3, <2>4
<1>5. ASSUME NEW p \in Proc, Loads(p) PROVE ConsentInv'
  <2>1. UNCHANGED <<setup, yes, no>>
    BY <1>5 DEF Loads
  <2>2. \A q \in Proc \ {p} : ConsentOf(q)'
    BY <1>0, <1>5, <2>1, ConsentStays DEF Loads, Others
  <2>3. Consented(store')
    <3>1. \A i \in Ids \intersect Lapsed(store, "approved") : store[i].state # "rejected"
      BY DEF Lapsed, In
    <3> QED BY <1>0, <1>5, <3>1, ConsentMarked DEF Loads
  <2>4. Consented(store)'
    BY <2>1, <2>3 DEF Consented
  <2>5. PICK r \in Runs : r.mem = store' /\ r.loaded = clock /\ Proceeds(p, r, run'[p])
    BY <1>5 DEF Loads
  <2>6. InForce(r) /\ r.queue \subseteq Ids
    BY <1>5, <2>5 DEF Loads, InForce, Runs
  <2>7. ConsentOf(p)'
    BY <2>4, <2>5, <2>6, ConsentProceeds
  <2> QED BY <2>2, <2>4, <2>7
<1>6. ASSUME NEW p \in Proc, Reads(p) \/ Writes(p) PROVE ConsentInv'
  <2>1. UNCHANGED <<setup, store, yes, no>> /\ Others(p) /\ run[p].step \in {"read", "send"}
    BY <1>6 DEF Reads, Writes
  <2>2. \A q \in Proc \ {p} : ConsentOf(q)'
    BY <1>0, <2>1, ConsentStays DEF Others
  <2>3. /\ run'[p].step \in Busy /\ run'[p].id = run[p].id /\ run'[p].mem = run[p].mem
        /\ run'[p].loaded = run[p].loaded /\ run'[p].intent = run[p].intent
    <3>1. run[p] \in Runs
      BY ProcFacts
    <3>2. CASE Reads(p)
      BY <3>1, <3>2 DEF Reads, Runs, Busy
    <3>3. CASE Writes(p)
      BY <3>1, <3>3 DEF Writes, Runs, Busy
    <3> QED BY <1>6, <3>2, <3>3
  <2>4. (p \in Copies' => p \in Copies) /\ (Writing(p)' => Writing(p))
    BY <2>1, <2>3 DEF Copies, Writing
  <2>5. ConsentOf(p)'
    <3>1. p \in Copies => Consented(run[p].mem)' /\ InForce(run[p])'
      BY <1>0, <2>1, <2>3 DEF ConsentOf, Consented, InForce
    <3>2. Writing(p) /\ run[p].id = Direct => Automatic(run[p].intent)'
      BY <1>0, <2>1, <2>3 DEF ConsentOf, Automatic, Policy
    <3> QED BY <2>3, <2>4, <3>1, <3>2 DEF ConsentOf
  <2>6. Consented(store)'
    BY <1>0, <2>1 DEF Consented
  <2> QED BY <2>2, <2>5, <2>6
<1>7. ASSUME NEW p \in Proc, Records(p) PROVE ConsentInv'
  <2>1. UNCHANGED <<setup, yes, no>> /\ p \in Copies
    BY <1>7 DEF Records
  <2>2. \A q \in Proc \ {p} : ConsentOf(q)'
    BY <1>0, <1>7, <2>1, ConsentStays DEF Records, Others
  <2>3. Consented(run[p].mem) /\ InForce(run[p]) /\ run[p].mem[run[p].id].state = "approved"
    BY <1>0, <2>1, ProcFacts DEF ConsentOf, CopyOf
  <2>4. PICK s \in {"executed", "failed"} : Marked(run[p].mem, store', {run[p].id}, s)
    BY <1>7 DEF Records
  <2>5. Consented(store')
    <3>1. s # "approved" /\ \A i \in Ids \intersect {run[p].id} : run[p].mem[i].state # "rejected"
      BY <2>3
    <3> QED BY <2>3, <2>4, <3>1, ConsentMarked
  <2>6. Consented(store)'
    BY <2>1, <2>5 DEF Consented
  <2>7. PICK r \in Runs : /\ r.mem = store' /\ r.loaded = run[p].loaded
                          /\ Proceeds(p, r, run'[p])
    BY <1>7 DEF Records
  <2>8. InForce(r) /\ r.queue \subseteq Ids
    <3>1. ASSUME NEW i \in Ids, r.mem[i].state = "approved" PROVE r.loaded < r.mem[i].expires
      <4>1. /\ i # run[p].id /\ r.mem[i] = run[p].mem[i]
        BY <2>4, <2>7, <3>1 DEF Marked
      <4> QED BY <2>3, <2>7, <3>1, <4>1 DEF InForce
    <3> QED BY <3>1 DEF InForce, Runs
  <2>9. ConsentOf(p)'
    BY <2>6, <2>7, <2>8, ConsentProceeds
  <2> QED BY <2>2, <2>6, <2>9
<1>8. ASSUME NEW p \in Proc, Dies(p) PROVE ConsentInv'
  <2>1. UNCHANGED <<setup, store, yes, no>>
    BY <1>8 DEF Dies
  <2>2. Consented(store)'
    BY <1>0, <2>1 DEF Consented
  <2>3. CASE Others(p) /\ run'[p] = Off
    <3>1. \A q \in Proc \ {p} : ConsentOf(q)'
      BY <1>0, <2>1, <2>3, ConsentStays DEF Others
    <3>2. ConsentOf(p)'
      BY <2>3, OffTyped, ConsentSilent DEF Busy
    <3> QED BY <2>2, <3>1, <3>2
  <2>4. CASE /\ p = "tick" /\ p \notin Copies /\ run["agent"] = Off
             /\ run' = [run EXCEPT !["tick"] = Off, !["agent"] = run["tick"]]
    <3>1. /\ run'["tick"] = Off /\ run'["agent"] = run["tick"] /\ run'["approve"] = run["approve"]
          /\ Proc = {"tick", "approve", "agent"}
      BY <2>4 DEF TypeInv, Proc
    <3>2. ConsentOf("tick")'
      BY <3>1, OffTyped, ConsentSilent DEF Busy
    <3>3. ConsentOf("approve")'
      BY <1>0, <2>1, <3>1, ConsentStays
    <3>4. ConsentOf("agent")'
      <4>1. "agent" \notin Copies' /\ (Writing("agent")' => Writing("tick"))
        BY <2>4, <3>1 DEF Copies, Writing
      <4>2. Writing("tick") /\ run["tick"].id = Direct => Automatic(run["tick"].intent)
        BY <1>0, <3>1 DEF ConsentOf
      <4>3. Automatic(run["tick"].intent) => Automatic(run["agent"].intent)'
        BY <2>1, <3>1 DEF Automatic, Policy
      <4> QED BY <3>1, <4>1, <4>2, <4>3 DEF ConsentOf
    <3> QED BY <2>2, <3>1, <3>2, <3>3, <3>4
  <2> QED BY <1>8, <2>3, <2>4 DEF Dies
<1> QED BY <1>1, <1>2, <1>3, <1>4, <1>5, <1>6, <1>7, <1>8 DEF Kinds

LEMMA InitConsent == Init => ConsentInv
<1> SUFFICES ASSUME Init PROVE ConsentInv
  OBVIOUS
<1>1. \A i \in Ids : store[i].state = "none"
  BY DEF Init, Unmade
<1>2. Consented(store)
  BY <1>1 DEF Init, Consented
<1>3. \A q \in Proc : run[q] = Off
  BY DEF Init
<1>4. \A q \in Proc : q \notin Copies /\ ~Writing(q)
  BY <1>3, OffTyped DEF Copies, Writing
<1> QED BY <1>2, <1>4 DEF ConsentInv, ConsentOf

LEMMA ConsentHolds == TypeInv /\ ConsentInv /\ [Next]_vars => [\A p \in Proc : Sends(p) =>
          LET r == run[p] IN
          IF r.id # Direct
          THEN r.id \in yes \ no /\ r.loaded < r.mem[r.id].expires
          ELSE /\ ~r.intent.chip
               /\ "ask" # IF r.intent.action = "lineup" THEN Policy.lineup ELSE Policy.transfers]_vars
<1> SUFFICES ASSUME TypeInv, ConsentInv, NEW p \in Proc, Sends(p)
             PROVE  LET r == run[p] IN
                    IF r.id # Direct
                    THEN r.id \in yes \ no /\ r.loaded < r.mem[r.id].expires
                    ELSE /\ ~r.intent.chip
                         /\ "ask" # IF r.intent.action = "lineup" THEN Policy.lineup ELSE Policy.transfers
  OBVIOUS
<1>1. run[p].step = "send"
  BY DEF Sends
<1>2. CASE run[p].id # Direct
  <2>1. p \in Copies
    BY <1>1, <1>2 DEF Copies, Writing
  <2>2. run[p].id \in Ids /\ run[p].mem[run[p].id].state = "approved"
    BY <2>1, ProcFacts DEF CopyOf
  <2>3. Consented(run[p].mem) /\ InForce(run[p])
    BY <2>1 DEF ConsentInv, ConsentOf
  <2>4. run[p].id \in yes /\ run[p].id \notin no
    BY <2>2, <2>3 DEF Consented
  <2>5. run[p].loaded < run[p].mem[run[p].id].expires
    BY <2>2, <2>3 DEF InForce
  <2> QED BY <1>2, <2>4, <2>5
<1>3. CASE run[p].id = Direct
  <2>1. Automatic(run[p].intent)
    BY <1>1, <1>3 DEF ConsentInv, ConsentOf, Writing
  <2> QED BY <1>3, <2>1 DEF Automatic
<1> QED BY <1>2, <1>3

\* Nothing is sent but what the owner approved, in force when it was loaded and not refused
\* for good, or what the policy makes automatic; and never a chip unasked.
THEOREM ConsentGiven == Spec => OnlyWithConsent
<1> DEFINE Inv == TypeInv /\ ConsentInv
<1>1. Init => Inv
  BY InitTyped, InitConsent
<1>2. Inv /\ [Next]_vars => Inv'
  BY NextKinds, ConsentNext
<1> HIDE DEF Inv
<1>3. Inv /\ [Next]_vars => [\A p \in Proc : Sends(p) =>
          LET r == run[p] IN
          IF r.id # Direct
          THEN r.id \in yes \ no /\ r.loaded < r.mem[r.id].expires
          ELSE /\ ~r.intent.chip
               /\ "ask" # IF r.intent.action = "lineup" THEN Policy.lineup ELSE Policy.transfers]_vars
  BY ConsentHolds DEF Inv
<1> QED BY <1>1, <1>2, <1>3, PTL DEF Spec, OnlyWithConsent

(***************************************************************************)
(* The bill                                                                *)
(***************************************************************************)

\* A team in which as many transfers have been made, or more.
LEMMA TeamMoves ==
    ASSUME TypeInv, Kinds
    PROVE  /\ team.count \in Nat /\ team'.count \in Nat /\ team.made \in Nat /\ team'.made \in Nat
           /\ \/ team'.count = team.count /\ team'.made <= team.made
              \/ team'.count > team.count
           /\ setup' = setup
<1>1. team \in Teams /\ team.count \in Nat /\ team.made \in Nat
  BY DEF TypeInv, DataOK, Teams
<1>2. ASSUME NEW p \in Proc, Writes(p)
      PROVE  /\ team'.count \in Nat /\ team'.made \in Nat
             /\ \/ team'.count = team.count /\ team'.made = team.made
                \/ team'.count = team.count + 1
  <2>1. PICK e \in Effects(run[p].intent) : team' = e.team
    BY <1>2 DEF Writes
  <2>2. run[p].intent \in Intents
    BY <1>2, ProcFacts DEF Writes, ShapeOf, Busy
  <2>3. /\ e.team \in Teams
        /\ \/ e.team.made = team.made /\ e.team.count = team.count
           \/ e.team.made = team.made + 1 /\ e.team.count = team.count + 1
    BY <2>2, EffectTyped
  <2> QED BY <1>1, <2>1, <2>3 DEF Teams
<1>3. setup' = setup /\ (team' \in {team, [team EXCEPT !.made = 0]} \/ \E p \in Proc : Writes(p))
  <2>1. CASE Edits BY <2>1 DEF Edits
  <2>2. CASE Asks BY <2>2 DEF Asks
  <2>3. CASE Idles BY <2>3 DEF Idles
  <2>4. ASSUME NEW p \in Proc, Begins(p) \/ Loads(p) \/ Reads(p) \/ Records(p) \/ Dies(p)
        PROVE  setup' = setup /\ team' = team
    <3>1. CASE Begins(p) BY <3>1 DEF Begins
    <3>2. CASE Loads(p) BY <3>2 DEF Loads
    <3>3. CASE Reads(p) BY <3>3 DEF Reads
    <3>4. CASE Records(p) BY <3>4 DEF Records
    <3>5. CASE Dies(p) BY <3>5 DEF Dies
    <3> QED BY <2>4, <3>1, <3>2, <3>3, <3>4, <3>5
  <2>5. ASSUME NEW p \in Proc, Writes(p) PROVE setup' = setup
    BY <2>5 DEF Writes
  <2> QED BY <2>1, <2>2, <2>3, <2>4, <2>5 DEF Kinds
<1>4. CASE team' = team
  BY <1>1, <1>3, <1>4
<1>5. CASE team' = [team EXCEPT !.made = 0]
  <2>1. team'.count = team.count /\ team'.made = 0
    BY <1>1, <1>5 DEF Teams
  <2> QED BY <1>1, <1>3, <2>1
<1>6. CASE \E p \in Proc : Writes(p)
  BY <1>1, <1>2, <1>3, <1>6
<1> QED BY <1>3, <1>4, <1>5, <1>6

LEMMA FairStays ==
    ASSUME TypeInv, Kinds, NEW i, NEW cost \in Nat, NEW count \in Nat, Fair(team, i, cost, count)
    PROVE  Fair(team', i, cost, count)
<1>1. /\ team.count \in Nat /\ team'.count \in Nat /\ team.made \in Nat /\ team'.made \in Nat
      /\ \/ team'.count = team.count /\ team'.made <= team.made
         \/ team'.count > team.count
  BY TeamMoves
<1>2. count <= team.count
  BY DEF Fair
<1>3. count <= team'.count
  BY <1>1, <1>2
<1>4. ASSUME i.action = "transfer", count = team'.count PROVE ChargeOf(team') <= cost
  <2>1. team'.count = team.count /\ team'.made <= team.made
    BY <1>1, <1>2, <1>4
  <2>2. ChargeOf(team) <= cost
    BY <1>4, <2>1 DEF Fair
  <2>3. team'.made >= FreeTransfers => team.made >= FreeTransfers
    BY <1>1, <2>1, BoundsTyped
  <2> QED BY <1>1, <2>2, <2>3, BoundsTyped DEF ChargeOf
<1> QED BY <1>3, <1>4 DEF Fair

LEMMA BilledStays ==
    ASSUME TypeInv, Kinds, NEW f \in Files, Billed(team, f)
    PROVE  Billed(team', f)
<1> SUFFICES ASSUME NEW i \in Ids, f[i] # Unmade
             PROVE  Fair(team', f[i].intent, f[i].cost, f[i].count)
  BY DEF Billed
<1>1. f[i].cost \in Nat /\ f[i].count \in Nat
  BY ProposalTyped
<1>2. Fair(team, f[i].intent, f[i].cost, f[i].count)
  BY DEF Billed
<1> QED BY <1>1, <1>2, FairStays

\* Marking a file changes no bill.
LEMMA BilledMarked ==
    ASSUME NEW t, NEW f, NEW g, NEW is, NEW s, Billed(t, f), Marked(f, g, is, s)
    PROVE  Billed(t, g)
<1> SUFFICES ASSUME NEW i \in Ids, g[i] # Unmade
             PROVE  Fair(t, g[i].intent, g[i].cost, g[i].count)
  BY DEF Billed
<1>1. f[i] # Unmade /\ SameTerms(f[i], g[i])
  BY DEF Marked, SameTerms
<1>2. Fair(t, f[i].intent, f[i].cost, f[i].count)
  BY <1>1 DEF Billed
<1> QED BY <1>1, <1>2 DEF SameTerms

\* A process keeps its bill, whatever happens to the team.
LEMMA BillStays ==
    ASSUME TypeInv, Kinds, NEW q \in Proc, BillOf(team, run[q])
    PROVE  BillOf(team', run[q])
<1> SUFFICES ASSUME run[q].step \in Busy
             PROVE  /\ Fair(team', run[q].intent, run[q].bill.cost, run[q].bill.count)
                    /\ run[q].id # Direct => Billed(team', run[q].mem)
  BY DEF BillOf
<1>1. /\ run[q] \in Runs
      /\ run[q].id # Direct => run[q].mem \in Files
  BY ProcFacts DEF CopyOf
<1>2. run[q].bill.cost \in Nat /\ run[q].bill.count \in Nat
  BY <1>1 DEF Runs
<1>3. /\ Fair(team, run[q].intent, run[q].bill.cost, run[q].bill.count)
      /\ run[q].id # Direct => Billed(team, run[q].mem)
  BY DEF BillOf
<1> QED BY <1>1, <1>2, <1>3, FairStays, BilledStays
LEMMA BillSame ==
    ASSUME NEW t, NEW r, NEW x, BillOf(t, r), x.step \in Busy => r.step \in Busy,
           x.id = r.id, x.mem = r.mem, x.intent = r.intent, x.bill = r.bill
    PROVE  BillOf(t, x)
  BY DEF BillOf

\* A drain goes on with the file it has just saved.
LEMMA BillProceeds ==
    ASSUME NEW p, NEW r, NEW x, Proceeds(p, r, x), Billed(team', r.mem), r.queue \subseteq Ids,
           \A i \in r.queue : r.mem[i].state = "approved"
    PROVE  BillOf(team', x)
<1>1. CASE r.queue # {}
  <2>1. /\ x.mem = r.mem /\ x.id \in r.queue /\ x.intent = r.mem[x.id].intent
        /\ x.bill = [cost |-> r.mem[x.id].cost, count |-> r.mem[x.id].count]
    BY <1>1 DEF Proceeds
  <2>2. r.mem[x.id] # Unmade
    BY <2>1 DEF Unmade
  <2>3. Fair(team', x.intent, x.bill.cost, x.bill.count)
    BY <2>1, <2>2 DEF Billed
  <2> QED BY <2>1, <2>3 DEF BillOf
<1>2. CASE r.queue = {}
  <2>1. x.step \notin Busy
    BY <1>2, OffTyped DEF Proceeds, Busy
  <2> QED BY <2>1 DEF BillOf
<1> QED BY <1>1, <1>2

LEMMA BillNext ==
    ASSUME TypeInv, TypeInv', Kinds, BillInv
    PROVE  BillInv'
<1>1. setup' = setup /\ store \in Files
  BY TeamMoves DEF TypeInv, DataOK
<1>2. Billed(team', store) /\ \A q \in Proc : BillOf(team', run[q])
  BY <1>1, BilledStays, BillStays DEF BillInv
<1>3. \A q \in Proc : run'[q].step \notin Busy => BillOf(team', run'[q])
  BY DEF BillOf
<1> SUFFICES Billed(team', store') /\ \A q \in Proc : BillOf(team', run'[q])
  BY <1>1 DEF BillInv, Billed, BillOf, Fair, ChargeOf, Platform, Policy
<1>4. CASE Edits
  <2>1. Billed(team', store')
    BY <1>2, <1>4, BilledMarked DEF Edits
  <2>2. \A q \in Proc : run'[q] = run[q] \/ run'[q].step \notin Busy
    BY <1>4 DEF Edits
  <2> QED BY <1>2, <1>3, <2>1, <2>2
<1>5. CASE Asks
  <2>1. PICK x : /\ store' = [store EXCEPT ![asked'] = x]
                 /\ Fair(team, x.intent, x.cost, x.count)
    BY <1>5 DEF Asks
  <2>2. team' = team /\ run' = run
    BY <1>5 DEF Asks
  <2>3. Billed(team', store')
    <3> SUFFICES ASSUME NEW i \in Ids, store'[i] # Unmade
                 PROVE  Fair(team', store'[i].intent, store'[i].cost, store'[i].count)
      BY DEF Billed
    <3>1. CASE i = asked'
      <4>1. store'[i] = x
        BY <1>1, <2>1, <3>1 DEF Files
      <4> QED BY <2>1, <2>2, <4>1
    <3>2. CASE i # asked'
      <4>1. store'[i] = store[i]
        BY <1>1, <2>1, <3>2 DEF Files
      <4> QED BY <1>2, <4>1 DEF Billed
    <3> QED BY <3>1, <3>2
  <2> QED BY <1>2, <2>2, <2>3
<1>6. CASE Idles
  <2>1. store' = store /\ \A q \in Proc : run'[q] = run[q] \/ run'[q].step \notin Busy
    BY <1>6 DEF Idles
  <2> QED BY <1>2, <1>3, <2>1
<1>7. ASSUME NEW p \in Proc, Begins(p) PROVE Billed(team', store') /\ \A q \in Proc : BillOf(team', run'[q])
  <2>1. team' = team /\ store' = store /\ Others(p)
    BY <1>7 DEF Begins
  <2>2. BillOf(team', run'[p])
    BY <1>7, <2>1 DEF Begins, BillOf
  <2> QED BY <1>2, <2>1, <2>2 DEF Others
<1>8. ASSUME NEW p \in Proc, Loads(p) PROVE Billed(team', store') /\ \A q \in Proc : BillOf(team', run'[q])
  <2>1. Others(p) /\ Billed(team', store')
    BY <1>2, <1>8, BilledMarked DEF Loads
  <2>2. PICK r \in Runs : /\ r.queue \subseteq In(store', "approved") /\ r.mem = store'
                          /\ Proceeds(p, r, run'[p])
    BY <1>8 DEF Loads
  <2>3. r.queue \subseteq Ids /\ \A i \in r.queue : r.mem[i].state = "approved"
    BY <2>2 DEF In
  <2>4. BillOf(team', run'[p])
    BY <2>1, <2>2, <2>3, BillProceeds
  <2> QED BY <1>2, <2>1, <2>4 DEF Others
<1>9. ASSUME NEW p \in Proc, Reads(p) \/ Writes(p) PROVE Billed(team', store') /\ \A q \in Proc : BillOf(team', run'[q])
  <2>1. store' = store /\ Others(p) /\ run[p].step \in Busy
    BY <1>9 DEF Reads, Writes, Busy
  <2>2. /\ run'[p].id = run[p].id /\ run'[p].mem = run[p].mem
        /\ run'[p].intent = run[p].intent /\ run'[p].bill = run[p].bill
    <3>1. run[p] \in Runs
      BY ProcFacts
    <3>2. CASE Reads(p)
      BY <3>1, <3>2 DEF Reads, Runs
    <3>3. CASE Writes(p)
      BY <3>1, <3>3 DEF Writes, Runs
    <3> QED BY <1>9, <3>2, <3>3
  <2>3. BillOf(team', run'[p])
    BY <1>2, <2>1, <2>2, BillSame
  <2> QED BY <1>2, <2>1, <2>3 DEF Others
<1>10. ASSUME NEW p \in Proc, Records(p) PROVE Billed(team', store') /\ \A q \in Proc : BillOf(team', run'[q])
  <2>1. Others(p) /\ p \in Copies
    BY <1>10 DEF Records
  <2>2. CopyOf(run[p], asked) /\ run[p].step \in Busy /\ run[p].id # Direct
    BY <2>1, ProcFacts
  <2>3. Billed(team', run[p].mem)
    BY <1>2, <2>2 DEF BillOf
  <2>4. PICK s \in {"executed", "failed"} : Marked(run[p].mem, store', {run[p].id}, s)
    BY <1>10 DEF Records
  <2>5. Billed(team', store')
    BY <2>3, <2>4, BilledMarked
  <2>6. PICK r \in Runs : /\ r.queue = run[p].queue /\ r.mem = store' /\ Proceeds(p, r, run'[p])
    BY <1>10 DEF Records
  <2>7. r.queue \subseteq Ids /\ \A i \in r.queue : r.mem[i].state = "approved"
    <3>1. r.queue \subseteq Ids
      BY DEF Runs
    <3>2. \A i \in r.queue : i \notin {run[p].id} /\ run[p].mem[i].state = "approved"
      BY <2>2, <2>6 DEF CopyOf
    <3> QED BY <2>4, <2>6, <3>1, <3>2 DEF Marked
  <2>8. BillOf(team', run'[p])
    BY <2>5, <2>6, <2>7, BillProceeds
  <2> QED BY <1>2, <2>1, <2>5, <2>8 DEF Others
<1>11. ASSUME NEW p \in Proc, Dies(p) PROVE Billed(team', store') /\ \A q \in Proc : BillOf(team', run'[q])
  <2>1. store' = store
    BY <1>11 DEF Dies
  <2>2. BillOf(team', Off)
    BY OffTyped DEF BillOf, Busy
  <2>3. CASE Others(p) /\ run'[p] = Off
    BY <1>2, <2>1, <2>2, <2>3 DEF Others
  <2>4. CASE run' = [run EXCEPT !["tick"] = Off, !["agent"] = run["tick"]]
    <3>1. /\ run'["tick"] = Off /\ run'["agent"] = run["tick"] /\ run'["approve"] = run["approve"]
          /\ Proc = {"tick", "approve", "agent"}
      BY <2>4 DEF TypeInv, Proc
    <3> QED BY <1>2, <2>1, <2>2, <3>1
  <2> QED BY <1>11, <2>3, <2>4 DEF Dies
<1> QED BY <1>4, <1>5, <1>6, <1>7, <1>8, <1>9, <1>10, <1>11 DEF Kinds

LEMMA InitBill == Init => BillInv
<1> SUFFICES ASSUME Init PROVE BillInv
  OBVIOUS
<1>1. \A q \in Proc : run[q] = Off
  BY DEF Init
<1>2. \A q \in Proc : BillOf(team, run[q])
  BY <1>1, OffTyped DEF BillOf, Busy
<1>3. \A i \in Ids : store[i] = Unmade
  BY DEF Init
<1> QED BY <1>2, <1>3 DEF BillInv, Billed

LEMMA DiesOff ==
    ASSUME TypeInv, NEW q \in Proc, Dies(q)
    PROVE  run'[q] = Off
<1>1. CASE run' = [run EXCEPT !["tick"] = Off, !["agent"] = run["tick"]] /\ q = "tick"
  <2>1. run \in [Proc -> Runs] /\ "tick" \in Proc
    BY DEF TypeInv, Proc
  <2>2. run'["tick"] = Off
    BY <1>1, <2>1
  <2> QED BY <1>1, <2>2
<1>2. CASE run'[q] = Off
  BY <1>2
<1> QED BY <1>1, <1>2 DEF Dies

LEMMA SendsWrites ==
    ASSUME TypeInv, Kinds, NEW p \in Proc, Sends(p)
    PROVE  Writes(p)
<1>1. run[p].step = "send" /\ run'[p].step = "answer"
  BY DEF Sends
<1>2. run'[p] # run[p] /\ run[p].step \in Busy /\ run'[p].step \in Busy
  BY <1>1 DEF Busy
<1>3. ~Edits /\ ~Asks /\ ~Idles
  BY <1>2 DEF Edits, Asks, Idles
<1>4. ASSUME NEW q \in Proc, Begins(q) \/ Loads(q) \/ Records(q) \/ Reads(q) \/ Dies(q)
      PROVE  FALSE
  <2>1. CASE Others(q)
    <3>1. q = p
      BY <1>2, <2>1 DEF Others
    <3>2. ~Begins(q) /\ ~Loads(q) /\ ~Records(q) /\ ~Reads(q)
      BY <1>1, <3>1 DEF Begins, Loads, Records, Reads
    <3>3. CASE Dies(q)
      BY <1>1, <3>1, <3>3, DiesOff, OffTyped
    <3> QED BY <1>4, <3>2, <3>3
  <2>2. CASE ~Others(q)
    <3>1. /\ Dies(q) /\ run["agent"] = Off
          /\ run' = [run EXCEPT !["tick"] = Off, !["agent"] = run["tick"]]
      BY <1>4, <2>2 DEF Begins, Loads, Records, Reads, Dies
    <3>2. /\ run'["tick"] = Off /\ run'["approve"] = run["approve"] /\ Proc = {"tick", "approve", "agent"}
      BY <3>1 DEF TypeInv, Proc
    <3> QED BY <1>1, <1>2, <3>1, <3>2, OffTyped
  <2> QED BY <2>1, <2>2
<1>5. PICK q \in Proc : Writes(q)
  BY <1>3, <1>4 DEF Kinds
<1>6. q = p
  BY <1>2, <1>5 DEF Writes, Others
<1> QED BY <1>5, <1>6

\* A transfer costs more than what was approved, or than max_hit, only if another one went
\* through after the bill was drawn up.
THEOREM BillKept == Spec => NoSurpriseBill
<1> DEFINE Inv == TypeInv /\ BillInv
           A == \A p \in Proc : (Sends(p) /\ team'.made # team.made /\ team.count = run[p].bill.count)
                    => Charge <= run[p].bill.cost
<1>1. Init => Inv
  BY InitTyped, InitBill
<1>2. Inv /\ [Next]_vars => Inv'
  BY NextKinds, BillNext
<1>3. Inv /\ [Next]_vars => A
  <2> SUFFICES ASSUME Inv, [Next]_vars, NEW p \in Proc, Sends(p), team'.made # team.made,
                      team.count = run[p].bill.count
               PROVE  Charge <= run[p].bill.cost
    OBVIOUS
  <2>1. Writes(p)
    BY NextKinds, SendsWrites
  <2>2. run[p].step \in Busy /\ run[p].intent \in Intents
    BY <2>1, ProcFacts DEF Writes, ShapeOf, Busy
  <2>3. run[p].intent.action = "transfer"
    <3>1. PICK e \in Effects(run[p].intent) : team' = e.team
      BY <2>1 DEF Writes
    <3>2. e.team.made = team.made \/ run[p].intent.action = "transfer"
      BY <2>2, EffectTyped
    <3> QED BY <3>1, <3>2
  <2>4. Fair(team, run[p].intent, run[p].bill.cost, run[p].bill.count)
    BY <2>2 DEF BillInv, BillOf
  <2> QED BY <2>3, <2>4 DEF Fair, ChargeOf, Charge
<1> HIDE DEF Inv
<1> QED BY <1>1, <1>2, <1>3, PTL DEF Spec, NoSurpriseBill


(***************************************************************************)
(* How often a proposal is sent                                            *)
(***************************************************************************)

LEMMA RefTyped ==
    ASSUME NEW p, NEW i
    PROVE  /\ Ref(p, i) \in {0, 1} /\ Ref(p, i)' \in {0, 1}
           /\ p \notin Copies => Ref(p, i) = 0
           /\ p \notin Copies' => Ref(p, i)' = 0
  BY DEF Ref

LEMMA ChancesTyped ==
    ASSUME NEW i
    PROVE  Chances(i) \in {0, 1, 2} /\ Chances(i)' \in {0, 1, 2}
<1>1. Ref("tick", i) \in {0, 1} /\ Ref("tick", i)' \in {0, 1}
  BY RefTyped
<1>2. Ref("approve", i) \in {0, 1} /\ Ref("approve", i)' \in {0, 1}
  BY RefTyped
<1> QED BY <1>1, <1>2 DEF Chances

LEMMA CopiesSlots ==
    ASSUME TypeInv
    PROVE  Copies \subseteq {"tick", "approve"}
  BY ProcFacts DEF Copies, Proc

\* The same drains run, and none of them has more open than it had.
LEMMA NoMoreChances ==
    ASSUME NEW i, Copies' = Copies, \A q \in Copies : Ref(q, i)' <= Ref(q, i),
           Copies = {} /\ Live(store'[i].state) => Live(store[i].state)
    PROVE  Chances(i)' <= Chances(i)
<1>1. CASE Copies = {}
  BY <1>1 DEF Chances
<1>2. CASE Copies # {}
  <2>1. ASSUME NEW q \in {"tick", "approve"}
        PROVE  Ref(q, i) \in {0, 1} /\ Ref(q, i)' \in {0, 1} /\ Ref(q, i)' <= Ref(q, i)
    <3>1. /\ Ref(q, i) \in {0, 1} /\ Ref(q, i)' \in {0, 1}
          /\ q \notin Copies => Ref(q, i) = 0 /\ Ref(q, i)' = 0
      BY RefTyped
    <3> QED BY <3>1
  <2>2. Ref("tick", i) \in {0, 1} /\ Ref("tick", i)' \in {0, 1} /\ Ref("tick", i)' <= Ref("tick", i)
    BY <2>1
  <2>3. /\ Ref("approve", i) \in {0, 1} /\ Ref("approve", i)' \in {0, 1}
        /\ Ref("approve", i)' <= Ref("approve", i)
    BY <2>1
  <2>4. Chances(i) = Ref("tick", i) + Ref("approve", i)
        /\ Chances(i)' = Ref("tick", i)' + Ref("approve", i)'
    BY <1>2 DEF Chances
  <2> QED BY <2>2, <2>3, <2>4
<1> QED BY <1>1, <1>2

\* A drain that did not move has the same open.
LEMMA RefStays ==
    ASSUME NEW q \in Proc, NEW i, run'[q] = run[q]
    PROVE  (q \in Copies' <=> q \in Copies) /\ Ref(q, i)' = Ref(q, i)
<1>1. q \in Copies' <=> q \in Copies
  BY DEF Copies, Writing
<1> QED BY <1>1 DEF Ref

\* No drain begins, ends or moves.
LEMMA QuietChances ==
    ASSUME NEW i, \A q \in Proc : run'[q] = run[q] \/ (q \notin Copies /\ q \notin Copies'),
           Copies = {} /\ Live(store'[i].state) => Live(store[i].state)
    PROVE  Chances(i)' <= Chances(i)
<1>1. ASSUME NEW q \in Proc PROVE q \in Copies' <=> q \in Copies
  BY RefStays
<1>2. Copies' = Copies
  BY <1>1 DEF Copies
<1>3. ASSUME NEW q \in Copies PROVE Ref(q, i)' <= Ref(q, i)
  <2>1. q \in Proc /\ run'[q] = run[q]
    BY <1>3 DEF Copies
  <2>2. Ref(q, i)' = Ref(q, i) /\ Ref(q, i) \in {0, 1}
    BY <2>1, RefStays, RefTyped
  <2> QED BY <2>2
<1> QED BY <1>2, <1>3, NoMoreChances

LEMMA SentQuiet ==
    ASSUME TypeInv, TypeInv', SentInv, NEW i \in Ids, Chances(i)' <= Chances(i),
           sends' = sends, asked' \in Nat, asked' >= asked,
           kills' >= kills, overlaps' >= overlaps
    PROVE  sends'[i] + Chances(i)' <= 1 + kills' + overlaps' /\ (i > asked' => sends'[i] = 0)
<1>1. /\ sends[i] \in Nat /\ {kills, kills', overlaps, overlaps', asked, asked', i} \subseteq Int
  BY BoundsTyped DEF TypeInv, DataOK
<1>2. Chances(i) \in Int /\ Chances(i)' \in Int
  BY ChancesTyped
<1>3. sends[i] + Chances(i) <= 1 + kills + overlaps /\ (i > asked => sends[i] = 0)
  BY DEF SentInv
<1> QED BY <1>1, <1>2, <1>3

LEMMA EditsSent ==
    ASSUME TypeInv, TypeInv', SentInv, Edits \/ Idles, NEW i \in Ids
    PROVE  sends'[i] + Chances(i)' <= 1 + kills' + overlaps' /\ (i > asked' => sends'[i] = 0)
<1>1. CASE Edits
  <2>1. PICK is \in SUBSET Ids, s \in {"approved", "expired", "rejected"} :
            /\ Marked(store, store', is, s)
            /\ s # "rejected" => \A j \in is : store[j].state = "pending"
    BY <1>1 DEF Edits
  <2>2. Live(store'[i].state) => Live(store[i].state)
    <3>1. CASE i \in is
      <4>1. store'[i].state = s
        BY <2>1, <3>1 DEF Marked
      <4> QED BY <2>1, <3>1, <4>1 DEF Live
    <3>2. CASE i \notin is
      BY <2>1, <3>2 DEF Marked
    <3> QED BY <3>1, <3>2
  <2>3. ASSUME NEW q \in Proc PROVE run'[q] = run[q] \/ (q \notin Copies /\ q \notin Copies')
    BY <1>1 DEF Edits, Copies, Writing, Busy
  <2>4. Chances(i)' <= Chances(i)
    BY <2>2, <2>3, QuietChances
  <2>5. UNCHANGED <<sends, asked, kills, overlaps>>
    BY <1>1 DEF Edits
  <2>6. {asked, kills, overlaps} \subseteq Nat
    BY BoundsTyped, SetupTyped DEF TypeInv, DataOK
  <2> QED BY <2>4, <2>5, <2>6, SentQuiet
<1>2. CASE Idles
  <2>1. store' = store
    BY <1>2 DEF Idles
  <2>2. ASSUME NEW q \in Proc PROVE run'[q] = run[q] \/ (q \notin Copies /\ q \notin Copies')
    BY <1>2 DEF Idles, Copies, Writing, Busy
  <2>3. Chances(i)' <= Chances(i)
    BY <2>1, <2>2, QuietChances
  <2>4. UNCHANGED <<sends, asked, kills, overlaps>>
    BY <1>2 DEF Idles
  <2>5. {asked, kills, overlaps} \subseteq Nat
    BY BoundsTyped, SetupTyped DEF TypeInv, DataOK
  <2> QED BY <2>3, <2>4, <2>5, SentQuiet
<1> QED BY <1>1, <1>2

LEMMA Counted ==
    ASSUME TypeInv
    PROVE  {asked, kills, overlaps} \subseteq Nat /\ \A i \in Ids : sends[i] \in Nat
  BY BoundsTyped, SetupTyped DEF TypeInv, DataOK

\* A new proposal has never been sent.
LEMMA AsksSent ==
    ASSUME TypeInv, TypeInv', SentInv, Asks, NEW i \in Ids
    PROVE  sends'[i] + Chances(i)' <= 1 + kills' + overlaps' /\ (i > asked' => sends'[i] = 0)
<1>1. UNCHANGED <<run, sends, kills, overlaps>> /\ asked' = asked + 1 /\ asked' \in Ids
  BY DEF Asks
<1>2. PICK x : store' = [store EXCEPT ![asked'] = x]
  BY DEF Asks
<1>3. {asked, kills, overlaps} \subseteq Nat /\ sends[i] \in Nat
  BY Counted
<1>4. \A q \in Proc : run'[q] = run[q]
  BY <1>1
<1>5. CASE i # asked'
  <2>1. store'[i] = store[i]
    BY <1>2, <1>5 DEF TypeInv, DataOK, Files
  <2>2. Chances(i)' <= Chances(i)
    BY <1>4, <2>1, QuietChances
  <2>3. asked' \in Nat /\ asked' >= asked
    BY <1>1, <1>3
  <2> QED BY <1>1, <1>3, <2>2, <2>3, SentQuiet
<1>6. CASE i = asked'
  <2>1. sends[i] = 0
    BY <1>1, <1>3, <1>6 DEF SentInv
  <2>2. Chances(i)' <= 1
    <3>1. ASSUME NEW q \in Copies PROVE Ref(q, i)' = 0
      <4>1. q \in Proc /\ run'[q] = run[q] /\ run[q].mem[i] = Unmade
        <5>1. q \in Proc
          BY DEF Copies
        <5>2. CopyOf(run[q], asked)
          BY <3>1, <5>1, ProcFacts
        <5>3. i > asked
          BY <1>1, <1>3, <1>6
        <5> QED BY <1>4, <5>1, <5>2, <5>3 DEF CopyOf
      <4>2. ~Live(run'[q].mem[i].state)
        BY <4>1 DEF Live, Unmade
      <4> QED BY <4>2 DEF Ref
    <3>2. \A q \in Proc : q \in Copies' <=> q \in Copies
      BY <1>4, RefStays
    <3>3. Ref("tick", i)' = 0 /\ Ref("approve", i)' = 0
      BY <3>1, <3>2, RefTyped DEF Proc
    <3> QED BY <3>3 DEF Chances
  <2>3. Chances(i)' \in {0, 1, 2}
    BY ChancesTyped
  <2> QED BY <1>1, <1>3, <1>6, <2>1, <2>2, <2>3
<1> QED BY <1>5, <1>6

LEMMA BeginsSent ==
    ASSUME TypeInv, TypeInv', SentInv, NEW p \in Proc, Begins(p), NEW i \in Ids
    PROVE  sends'[i] + Chances(i)' <= 1 + kills' + overlaps' /\ (i > asked' => sends'[i] = 0)
<1>1. UNCHANGED <<store, sends, asked, kills>> /\ Others(p) /\ Crossing
  BY DEF Begins
<1>2. p \notin Copies /\ p \notin Copies'
  BY DEF Begins, Copies, Writing
<1>3. \A q \in Proc : run'[q] = run[q] \/ (q \notin Copies /\ q \notin Copies')
  BY <1>1, <1>2 DEF Others
<1>4. Chances(i)' <= Chances(i)
  BY <1>1, <1>3, QuietChances
<1>5. {asked, kills, overlaps} \subseteq Nat
  BY Counted
<1>6. overlaps' >= overlaps
  BY <1>1, <1>5 DEF Crossing
<1>7. asked' \in Nat /\ asked' >= asked /\ kills' >= kills
  BY <1>1, <1>5
<1> QED BY <1>1, <1>4, <1>6, <1>7, SentQuiet

\* A drain that loads the file takes over the chances, or begins beside another.
LEMMA LoadsSent ==
    ASSUME TypeInv, TypeInv', SentInv, NEW p \in Proc, Loads(p), NEW i \in Ids
    PROVE  sends'[i] + Chances(i)' <= 1 + kills' + overlaps' /\ (i > asked' => sends'[i] = 0)
<1>1. UNCHANGED <<sends, asked, kills>> /\ Others(p) /\ run[p].step = "drain"
  BY DEF Loads
<1>2. p \notin Copies
  BY <1>1 DEF Copies, Writing
<1>3. PICK r \in Runs :
        /\ r.mem = store' /\ Proceeds(p, r, run'[p])
        /\ IF r.queue = {} THEN overlaps' = overlaps ELSE Crossing
  BY DEF Loads
<1>4. Live(store'[i].state) => Live(store[i].state)
  <2>1. Marked(store, store', Lapsed(store, "approved"), "expired")
    BY DEF Loads
  <2> QED BY <2>1 DEF Marked, Live
<1>5. {asked, kills, overlaps} \subseteq Nat /\ sends[i] \in Nat
  BY Counted
<1>6. CASE p \notin Copies'
  <2>1. \A q \in Proc : run'[q] = run[q] \/ (q \notin Copies /\ q \notin Copies')
    BY <1>1, <1>2, <1>6 DEF Others
  <2>2. Chances(i)' <= Chances(i)
    BY <1>4, <2>1, QuietChances
  <2>3. overlaps' >= overlaps
    BY <1>3, <1>5 DEF Crossing
  <2>4. asked' \in Nat /\ asked' >= asked /\ kills' >= kills
    BY <1>1, <1>5
  <2> QED BY <1>1, <2>2, <2>3, <2>4, SentQuiet
<1>7. CASE p \in Copies'
  <2>1. r.queue # {} /\ run'[p].step = "read" /\ run'[p].mem = store'
    BY <1>3, <1>7 DEF Proceeds, Copies, Writing, Off
  <2>2. \A q \in Proc \ {p} : (q \in Copies' <=> q \in Copies) /\ Ref(q, i)' = Ref(q, i)
    BY <1>1, RefStays DEF Others
  <2>3. p \in {"tick", "approve"}
    <3>1. p \in Proc /\ p # "agent"
      BY <1>1, ProcFacts DEF ShapeOf
    <3> QED BY <3>1 DEF Proc
  <2>4. Ref(p, i) = 0 /\ Ref(p, i)' \in {0, 1}
    BY <1>2, RefTyped
  <2>5. CASE Copies = {}
    <3>1. \A q \in Proc \ {p} : Ref(q, i)' = 0
      BY <2>2, <2>5, RefTyped
    <3>2. Ref(p, i)' <= Chances(i)
      BY <1>4, <2>1, <2>4, <2>5 DEF Ref, Chances
    <3>3. Chances(i)' = Ref("tick", i)' + Ref("approve", i)'
      BY <1>7 DEF Chances
    <3>4. Chances(i)' = Ref(p, i)'
      <4>1. CASE p = "tick"
        BY <2>4, <3>1, <3>3, <4>1 DEF Proc
      <4>2. CASE p = "approve"
        BY <2>4, <3>1, <3>3, <4>2 DEF Proc
      <4> QED BY <2>3, <4>1, <4>2
    <3>5. Chances(i)' <= Chances(i)
      BY <3>2, <3>4
    <3>6. overlaps' >= overlaps
      BY <1>3, <1>5 DEF Crossing
    <3>7. asked' \in Nat /\ asked' >= asked /\ kills' >= kills
      BY <1>1, <1>5
    <3> QED BY <1>1, <3>5, <3>6, <3>7, SentQuiet
  <2>6. CASE Copies # {}
    <3>1. overlaps' = overlaps + 1
      BY <1>3, <2>1, <2>6 DEF Crossing, Copies
    <3>2. /\ Chances(i)' = Ref("tick", i)' + Ref("approve", i)'
          /\ Chances(i) = Ref("tick", i) + Ref("approve", i)
      BY <1>7, <2>6 DEF Chances
    <3>3. Chances(i)' <= Chances(i) + 1
      <4>1. /\ Ref("tick", i) \in {0, 1} /\ Ref("approve", i) \in {0, 1}
            /\ Ref("tick", i)' \in {0, 1} /\ Ref("approve", i)' \in {0, 1}
        BY RefTyped
      <4>2. CASE p = "tick"
        BY <2>2, <2>4, <3>2, <4>1, <4>2 DEF Proc
      <4>3. CASE p = "approve"
        BY <2>2, <2>4, <3>2, <4>1, <4>3 DEF Proc
      <4> QED BY <2>3, <4>2, <4>3
    <3>4. Chances(i) \in {0, 1, 2} /\ Chances(i)' \in {0, 1, 2}
      BY ChancesTyped
    <3>5. sends[i] + Chances(i) <= 1 + kills + overlaps /\ (i > asked => sends[i] = 0)
      BY DEF SentInv
    <3>6. sends[i] + Chances(i)' <= 1 + kills + (overlaps + 1)
      BY <1>5, <3>3, <3>4, <3>5
    <3> QED BY <1>1, <3>1, <3>5, <3>6
  <2> QED BY <2>5, <2>6
<1> QED BY <1>6, <1>7

LEMMA ReadsSent ==
    ASSUME TypeInv, TypeInv', SentInv, NEW p \in Proc, Reads(p), NEW i \in Ids
    PROVE  sends'[i] + Chances(i)' <= 1 + kills' + overlaps' /\ (i > asked' => sends'[i] = 0)
<1>1. UNCHANGED <<store, sends, asked, kills, overlaps>> /\ Others(p)
  BY DEF Reads
<1>2. PICK squad : run'[p] = [run[p] EXCEPT !.step = "send", !.before = squad]
  BY DEF Reads
<1>3. run[p] \in Runs /\ run[p].step = "read"
  BY ProcFacts DEF Reads
<1>4. /\ run'[p].step = "send" /\ run'[p].id = run[p].id /\ run'[p].mem = run[p].mem
  BY <1>2, <1>3 DEF Runs
<1>5. p \in Copies' <=> p \in Copies
  BY <1>3, <1>4 DEF Copies, Writing
<1>6. Ref(p, i)' <= Ref(p, i)
  <2>1. Ref(p, i)' = Ref(p, i)
    BY <1>3, <1>4, <1>5 DEF Ref
  <2> QED BY <2>1, RefTyped
<1>7. ASSUME NEW q \in Proc \ {p} PROVE (q \in Copies' <=> q \in Copies) /\ Ref(q, i)' <= Ref(q, i)
  <2>1. (q \in Copies' <=> q \in Copies) /\ Ref(q, i)' = Ref(q, i)
    BY <1>1, RefStays DEF Others
  <2> QED BY <2>1, RefTyped
<1>8. Copies' = Copies
  BY <1>5, <1>7 DEF Copies
<1>9. \A q \in Copies : Ref(q, i)' <= Ref(q, i)
  BY <1>6, <1>7 DEF Copies
<1>10. Chances(i)' <= Chances(i)
  BY <1>1, <1>8, <1>9, NoMoreChances
<1>11. asked' \in Nat /\ asked' >= asked /\ kills' >= kills /\ overlaps' >= overlaps
  BY <1>1, Counted
<1> QED BY <1>1, <1>10, <1>11, SentQuiet

\* What is sent uses up the chance it was held open with.
LEMMA WritesSent ==
    ASSUME TypeInv, TypeInv', SentInv, NEW p \in Proc, Writes(p), NEW i \in Ids
    PROVE  sends'[i] + Chances(i)' <= 1 + kills' + overlaps' /\ (i > asked' => sends'[i] = 0)
<1>1. UNCHANGED <<store, asked, kills, overlaps>> /\ Others(p)
      /\ sends' = IF run[p].id = Direct THEN sends ELSE [sends EXCEPT ![run[p].id] = @ + 1]
  BY DEF Writes
<1>2. PICK reply : run'[p] = [run[p] EXCEPT !.step = "answer", !.reply = reply]
  BY DEF Writes
<1>3. run[p] \in Runs /\ run[p].step = "send" /\ run[p].step \in Busy
  BY ProcFacts DEF Writes, Busy
<1>4. run'[p].step = "answer" /\ run'[p].id = run[p].id /\ run'[p].mem = run[p].mem
  BY <1>2, <1>3 DEF Runs
<1>5. p \in Copies' <=> p \in Copies
  BY <1>3, <1>4 DEF Copies, Writing
<1>6. ASSUME NEW q \in Proc \ {p} PROVE (q \in Copies' <=> q \in Copies) /\ Ref(q, i)' = Ref(q, i)
  BY <1>1, RefStays DEF Others
<1>7. Copies' = Copies
  BY <1>5, <1>6 DEF Copies
<1>8. asked' \in Nat /\ asked' >= asked /\ kills' >= kills /\ overlaps' >= overlaps
  BY <1>1, Counted
<1>9. CASE run[p].id # i
  <2>1. sends'[i] = sends[i]
    BY <1>1, <1>9 DEF TypeInv, DataOK
  <2>2. Ref(p, i)' <= Ref(p, i)
    <3>1. Ref(p, i)' = Ref(p, i)
      BY <1>4, <1>5, <1>9 DEF Ref
    <3> QED BY <3>1, RefTyped
  <2>3. \A q \in Copies : Ref(q, i)' <= Ref(q, i)
    <3>1. \A q \in Proc \ {p} : Ref(q, i)' <= Ref(q, i)
      BY <1>6, RefTyped
    <3> QED BY <2>2, <3>1 DEF Copies
  <2>4. Chances(i)' <= Chances(i)
    BY <1>1, <1>7, <2>3, NoMoreChances
  <2>5. sends[i] + Chances(i) <= 1 + kills + overlaps /\ (i > asked => sends[i] = 0)
    BY DEF SentInv
  <2>6. Chances(i) \in {0, 1, 2} /\ Chances(i)' \in {0, 1, 2}
    BY ChancesTyped
  <2> QED BY <1>1, <2>1, <2>4, <2>5, <2>6, Counted
<1>10. CASE run[p].id = i
  <2>1. i # Direct
    BY BoundsTyped
  <2>2. p \in Copies /\ CopyOf(run[p], asked) /\ p # "agent"
    BY <1>3, <1>10, <2>1, ProcFacts
  <2>3. sends'[i] = sends[i] + 1
    BY <1>1, <1>10, <2>1 DEF TypeInv, DataOK
  <2>4. Ref(p, i) = 1 /\ Ref(p, i)' = 0
    <3>1. Live(run[p].mem[i].state)
      BY <1>10, <2>2 DEF CopyOf, Live
    <3> QED BY <1>3, <1>4, <1>10, <2>2, <3>1 DEF Ref
  <2>5. /\ Chances(i) = Ref("tick", i) + Ref("approve", i)
        /\ Chances(i)' = Ref("tick", i)' + Ref("approve", i)'
    BY <1>7, <2>2 DEF Chances
  <2>6. Chances(i) = Chances(i)' + 1
    <3>1. Ref("tick", i) \in {0, 1} /\ Ref("approve", i) \in {0, 1}
      BY RefTyped
    <3>2. CASE p = "tick"
      BY <1>6, <2>4, <2>5, <3>1, <3>2 DEF Proc
    <3>3. CASE p = "approve"
      BY <1>6, <2>4, <2>5, <3>1, <3>3 DEF Proc
    <3> QED BY <2>2, <3>2, <3>3 DEF Proc
  <2>7. sends[i] + Chances(i) <= 1 + kills + overlaps /\ (i > asked => sends[i] = 0)
    BY DEF SentInv
  <2>8. i <= asked
    <3>1. run[p].mem[i] # Unmade
      BY <1>10, <2>2 DEF CopyOf, Unmade
    <3>2. ~(i > asked)
      BY <2>2, <3>1 DEF CopyOf
    <3> QED BY <3>2, Counted, BoundsTyped
  <2>9. Chances(i)' \in {0, 1, 2} /\ i \in Nat
    BY ChancesTyped, BoundsTyped
  <2>10. sends'[i] + Chances(i)' <= 1 + kills + overlaps
    BY <2>3, <2>6, <2>7, <2>9, Counted
  <2> QED BY <1>1, <2>8, <2>9, <2>10, Counted
<1> QED BY <1>9, <1>10

\* What is recorded is no longer open, in the file or in the copy.
LEMMA RecordsSent ==
    ASSUME TypeInv, TypeInv', SentInv, NEW p \in Proc, Records(p), NEW i \in Ids
    PROVE  sends'[i] + Chances(i)' <= 1 + kills' + overlaps' /\ (i > asked' => sends'[i] = 0)
<1>1. UNCHANGED <<sends, asked, kills, overlaps>> /\ Others(p) /\ p \in Copies /\ run[p].step = "answer"
  BY DEF Records
<1>2. PICK s \in {"executed", "failed"} : Marked(run[p].mem, store', {run[p].id}, s)
  BY DEF Records
<1>3. PICK r \in Runs : r.mem = store' /\ Proceeds(p, r, run'[p])
  BY DEF Records
<1>4. Live(store'[i].state) => i # run[p].id /\ Live(run[p].mem[i].state)
  <2>1. CASE i = run[p].id
    BY <1>2, <2>1 DEF Marked, Live
  <2>2. CASE i # run[p].id
    BY <1>2, <2>2 DEF Marked
  <2> QED BY <2>1, <2>2
<1>5. Live(store'[i].state) => Ref(p, i) = 1
  BY <1>1, <1>4 DEF Ref
<1>6. p \in Copies' => run'[p].mem = store'
  BY <1>3 DEF Proceeds, Copies, Writing, Off
<1>7. Ref(p, i)' <= Ref(p, i)
  <2>1. CASE Ref(p, i)' = 0
    BY <2>1, RefTyped
  <2>2. CASE Ref(p, i)' # 0
    <3>1. p \in Copies' /\ Live(run'[p].mem[i].state)
      BY <2>2 DEF Ref
    <3>2. Ref(p, i) = 1
      BY <1>5, <1>6, <3>1
    <3> QED BY <3>2, RefTyped
  <2> QED BY <2>1, <2>2
<1>8. ASSUME NEW q \in Proc \ {p} PROVE (q \in Copies' <=> q \in Copies) /\ Ref(q, i)' = Ref(q, i)
  BY <1>1, RefStays DEF Others
<1>9. p \in {"tick", "approve"}
  BY <1>1, CopiesSlots
<1>10. /\ Ref("tick", i) \in {0, 1} /\ Ref("approve", i) \in {0, 1}
       /\ Ref("tick", i)' \in {0, 1} /\ Ref("approve", i)' \in {0, 1}
  BY RefTyped
<1>11. /\ Ref("tick", i)' <= Ref("tick", i)
       /\ Ref("approve", i)' <= Ref("approve", i)
  <2>1. CASE p = "tick"
    BY <1>7, <1>8, <1>10, <2>1 DEF Proc
  <2>2. CASE p = "approve"
    BY <1>7, <1>8, <1>10, <2>2 DEF Proc
  <2> QED BY <1>9, <2>1, <2>2
<1>12. Chances(i) = Ref("tick", i) + Ref("approve", i)
  BY <1>1 DEF Chances
<1>13. Chances(i)' <= Chances(i)
  <2>1. CASE Copies' # {}
    <3>1. Chances(i)' = Ref("tick", i)' + Ref("approve", i)'
      BY <2>1 DEF Chances
    <3> QED BY <1>10, <1>11, <1>12, <3>1
  <2>2. CASE Copies' = {} /\ Live(store'[i].state)
    <3>1. Chances(i)' = 1
      BY <2>2 DEF Chances
    <3>2. CASE p = "tick"
      BY <1>5, <1>10, <1>12, <2>2, <3>1, <3>2
    <3>3. CASE p = "approve"
      BY <1>5, <1>10, <1>12, <2>2, <3>1, <3>3
    <3> QED BY <1>9, <3>2, <3>3
  <2>3. CASE Copies' = {} /\ ~Live(store'[i].state)
    <3>1. Chances(i)' = 0
      BY <2>3 DEF Chances
    <3> QED BY <1>10, <1>12, <3>1
  <2> QED BY <2>1, <2>2, <2>3
<1>14. asked' \in Nat /\ asked' >= asked /\ kills' >= kills /\ overlaps' >= overlaps
  BY <1>1, Counted
<1> QED BY <1>1, <1>13, <1>14, SentQuiet

LEMMA DiesCopies ==
    ASSUME TypeInv, NEW p \in Proc, Dies(p), NEW q \in Proc
    PROVE  run'[q] = run[q] \/ q \notin Copies'
<1>1. CASE Others(p) /\ run'[p] = Off
  BY <1>1, OffTyped DEF Others, Copies, Writing
<1>2. CASE /\ p = "tick" /\ p \notin Copies
           /\ run' = [run EXCEPT !["tick"] = Off, !["agent"] = run["tick"]]
  <2>1. /\ run'["tick"] = Off /\ run'["approve"] = run["approve"] /\ run'["agent"] = run["tick"]
        /\ Proc = {"tick", "approve", "agent"}
    BY <1>2 DEF TypeInv, Proc
  <2>2. "tick" \notin Copies' /\ "agent" \notin Copies'
    BY <1>2, <2>1, OffTyped DEF Copies, Writing
  <2> QED BY <2>1, <2>2
<1> QED BY <1>1, <1>2 DEF Dies

\* A drain that is killed leaves the file as the last one saved it.
LEMMA DiesSent ==
    ASSUME TypeInv, TypeInv', SentInv, NEW p \in Proc, Dies(p), NEW i \in Ids
    PROVE  sends'[i] + Chances(i)' <= 1 + kills' + overlaps' /\ (i > asked' => sends'[i] = 0)
<1>1. UNCHANGED <<store, sends, asked, overlaps>> /\ kills' = kills + 1
  BY DEF Dies
<1>2. ASSUME NEW q \in Proc PROVE Ref(q, i)' <= Ref(q, i) /\ (q \in Copies' => q \in Copies)
  <2>1. CASE run'[q] = run[q]
    <3>1. (q \in Copies' <=> q \in Copies) /\ Ref(q, i)' = Ref(q, i)
      BY <2>1, RefStays
    <3> QED BY <3>1, RefTyped
  <2>2. CASE q \notin Copies'
    BY <2>2, RefTyped
  <2>3. run'[q] = run[q] \/ q \notin Copies'
    BY DiesCopies
  <2> QED BY <2>1, <2>2, <2>3
<1>3. /\ Ref("tick", i) \in {0, 1} /\ Ref("approve", i) \in {0, 1}
      /\ Ref("tick", i)' \in {0, 1} /\ Ref("approve", i)' \in {0, 1}
  BY RefTyped
<1>4. Ref("tick", i)' <= Ref("tick", i) /\ Ref("approve", i)' <= Ref("approve", i)
  BY <1>2 DEF Proc
<1>5. Chances(i)' <= Chances(i) + 1
  <2>1. Chances(i) \in {0, 1, 2}
    BY ChancesTyped
  <2>2. CASE Copies' = {}
    <3>1. Chances(i)' \in {0, 1}
      BY <2>2 DEF Chances
    <3> QED BY <2>1, <3>1
  <2>3. CASE Copies' # {}
    <3>1. Copies # {}
      BY <1>2, <2>3 DEF Copies
    <3>2. /\ Chances(i)' = Ref("tick", i)' + Ref("approve", i)'
          /\ Chances(i) = Ref("tick", i) + Ref("approve", i)
      BY <2>3, <3>1 DEF Chances
    <3> QED BY <1>3, <1>4, <3>2
  <2> QED BY <2>2, <2>3
<1>6. sends[i] + Chances(i) <= 1 + kills + overlaps /\ (i > asked => sends[i] = 0)
  BY DEF SentInv
<1>7. Chances(i) \in {0, 1, 2} /\ Chances(i)' \in {0, 1, 2}
  BY ChancesTyped
<1>8. sends[i] + Chances(i)' <= 1 + (kills + 1) + overlaps
  BY <1>5, <1>6, <1>7, Counted
<1> QED BY <1>1, <1>6, <1>8

LEMMA SentNext ==
    ASSUME TypeInv, TypeInv', Kinds, SentInv
    PROVE  SentInv'
<1>1. ASSUME NEW i \in Ids
      PROVE  sends'[i] + Chances(i)' <= 1 + kills' + overlaps' /\ (i > asked' => sends'[i] = 0)
  <2>1. CASE Edits \/ Idles
    BY <2>1, EditsSent
  <2>2. CASE Asks
    BY <2>2, AsksSent
  <2>3. ASSUME NEW p \in Proc, Begins(p) \/ Loads(p) \/ Reads(p) \/ Writes(p) \/ Records(p) \/ Dies(p)
        PROVE  sends'[i] + Chances(i)' <= 1 + kills' + overlaps' /\ (i > asked' => sends'[i] = 0)
    BY <2>3, BeginsSent, LoadsSent, ReadsSent, WritesSent, RecordsSent, DiesSent
  <2> QED BY <2>1, <2>2, <2>3 DEF Kinds
<1> QED BY <1>1 DEF SentInv

LEMMA InitSent == Init => SentInv
<1> SUFFICES ASSUME Init PROVE SentInv
  OBVIOUS
<1>1. Copies = {}
  BY OffTyped DEF Init, Copies, Writing
<1>2. ASSUME NEW i \in Ids PROVE sends[i] = 0 /\ Chances(i) = 0 /\ kills = 0 /\ overlaps = 0
  BY <1>1 DEF Init, Chances, Live, Unmade
<1> QED BY <1>2 DEF SentInv

\* A proposal is sent once, and once more at most for each kill and each overlap.
THEOREM SentAtMostOnce == Spec => []SentOnce
<1> DEFINE Inv == TypeInv /\ SentInv
<1>1. Init => Inv
  BY InitTyped, InitSent
<1>2. Inv /\ [Next]_vars => Inv'
  BY NextKinds, SentNext
<1>3. Inv => SentOnce
  <2> SUFFICES ASSUME Inv, NEW i \in Ids PROVE sends[i] <= 1 + kills + overlaps
    BY DEF SentOnce
  <2>1. sends[i] + Chances(i) <= 1 + kills + overlaps /\ Chances(i) \in {0, 1, 2}
    BY ChancesTyped DEF SentInv
  <2> QED BY <2>1, Counted
<1> HIDE DEF Inv
<1> QED BY <1>1, <1>2, <1>3, PTL DEF Spec

(***************************************************************************)
(* What the store says                                                     *)
(***************************************************************************)

LEMMA ToldStays ==
    ASSUME NEW f, NEW d, NEW e, Told(f, d), d \subseteq e
    PROVE  Told(f, e)
  BY DEF Told, Truthful

LEMMA ToldMarked ==
    ASSUME NEW f, NEW g, NEW is, NEW s, NEW d, Told(f, d), Marked(f, g, is, s),
           s = "executed" => \A i \in Ids \intersect is : \E t \in d : Was(f[i].intent, t)
    PROVE  Told(g, d)
<1>1. ASSUME NEW i \in Ids, g[i] # Unmade PROVE RealSquad(g[i].intent)
  <2>1. f[i] # Unmade /\ g[i].intent = f[i].intent
    BY <1>1 DEF Marked, SameTerms
  <2> QED BY <2>1 DEF Told, RealSquads
<1>2. ASSUME NEW i \in Ids, g[i].state = "executed" PROVE \E t \in d : Was(g[i].intent, t)
  <2>1. CASE i \in is
    <3>1. s = "executed" /\ g[i].intent = f[i].intent
      BY <1>2, <2>1 DEF Marked, SameTerms
    <3> QED BY <2>1, <3>1
  <2>2. CASE i \notin is
    BY <1>2, <2>2 DEF Marked, Told, Truthful
  <2> QED BY <2>1, <2>2
<1> QED BY <1>1, <1>2 DEF Told, RealSquads, Truthful

\* The teams there were are never forgotten, and the one there is is among them.
LEMMA DoneGrows ==
    ASSUME TypeInv, Kinds, <<team.squad, team.order>> \in done
    PROVE  done \subseteq done' /\ <<team'.squad, team'.order>> \in done'
<1>1. team \in Teams
  BY DEF TypeInv, DataOK, Teams
<1>2. ASSUME NEW p \in Proc, Writes(p) PROVE done \subseteq done' /\ <<team'.squad, team'.order>> \in done'
  BY <1>2 DEF Writes
<1>3. CASE done' = done /\ team' = team
  BY <1>3
<1>4. CASE done' = done /\ team' = [team EXCEPT !.made = 0]
  BY <1>1, <1>4 DEF Teams
<1>5. (done' = done /\ team' \in {team, [team EXCEPT !.made = 0]}) \/ \E p \in Proc : Writes(p)
  <2>1. CASE Edits BY <2>1 DEF Edits
  <2>2. CASE Asks BY <2>2 DEF Asks
  <2>3. CASE Idles BY <2>3 DEF Idles
  <2>4. ASSUME NEW p \in Proc, Begins(p) \/ Loads(p) \/ Reads(p) \/ Records(p) \/ Dies(p)
        PROVE  done' = done /\ team' = team
    <3>1. CASE Begins(p) BY <3>1 DEF Begins
    <3>2. CASE Loads(p) BY <3>2 DEF Loads
    <3>3. CASE Reads(p) BY <3>3 DEF Reads
    <3>4. CASE Records(p) BY <3>4 DEF Records
    <3>5. CASE Dies(p) BY <3>5 DEF Dies
    <3> QED BY <2>4, <3>1, <3>2, <3>3, <3>4, <3>5
  <2> QED BY <2>1, <2>2, <2>3, <2>4 DEF Kinds
<1> QED BY <1>2, <1>3, <1>4, <1>5

\* What is read back and agrees is the team there is.
LEMMA VerifiedIsSo ==
    ASSUME TypeInv, Platform # "mfl", NEW p \in Copies, NEW squad \in {team.squad, NoRead},
           Verified(p, squad), RealSquad(run[p].intent)
    PROVE  Was(run[p].intent, <<team.squad, team.order>>)
<1> DEFINE i == run[p].intent
<1>1. i \in Intents
  <2>1. p \in Proc /\ run[p].step \in Busy
    BY ProcFacts DEF Copies
  <2> QED BY <2>1, ProcFacts DEF ShapeOf
<1>2. CASE i.action = "lineup"
  <2>1. squad = i.players /\ team.order = i.order
    BY <1>2 DEF Verified, VerifyLineup
  <2>2. squad = team.squad
    <3>1. CASE squad = {}
      <4>1. Squad0 = {}
        BY <1>2, <2>1, <3>1 DEF RealSquad
      <4>2. team.squad \in SUBSET Player /\ Cardinality(team.squad) = Cardinality(Squad0)
        BY DEF TypeInv, DataOK
      <4>3. IsFiniteSet(team.squad) /\ Cardinality(team.squad) = 0
        BY <4>1, <4>2, BoundsTyped, FS_Subset, FS_EmptySet
      <4> QED BY <3>1, <4>3, FS_EmptySet
    <3>2. CASE squad # {}
      BY <3>2 DEF NoRead
    <3> QED BY <3>1, <3>2
  <2> QED BY <1>2, <2>1, <2>2 DEF Was
<1>3. CASE i.action # "lineup"
  <2>1. i.in \in squad /\ i.out \notin squad
    BY <1>3 DEF Verified, VerifyTransfer, Expected
  <2>2. squad = team.squad
    BY <2>1 DEF NoRead
  <2> QED BY <1>3, <2>1, <2>2 DEF Was
<1> QED BY <1>2, <1>3

LEMMA TruthStays ==
    ASSUME NEW q \in Proc, TruthOf(q), run'[q] = run[q], done \subseteq done'
    PROVE  TruthOf(q)'
<1>1. q \in Copies' <=> q \in Copies
  BY SameCopy
<1>2. q \in Copies => Told(run[q].mem, done')
  BY ToldStays DEF TruthOf
<1> QED BY <1>1, <1>2 DEF TruthOf

LEMMA TruthNext ==
    ASSUME TypeInv, TypeInv', Kinds, TruthInv
    PROVE  TruthInv'
<1>1. setup' = setup
  BY TeamMoves
<1> SUFFICES ASSUME Platform # "mfl"
             PROVE  /\ <<team'.squad, team'.order>> \in done'
                    /\ Told(store', done') /\ \A q \in Proc : TruthOf(q)'
  BY <1>1 DEF TruthInv, Platform, Policy
<1>2. /\ <<team.squad, team.order>> \in done /\ Told(store, done) /\ \A q \in Proc : TruthOf(q)
  BY DEF TruthInv
<1>3. done \subseteq done' /\ <<team'.squad, team'.order>> \in done'
  BY <1>2, DoneGrows
<1>4. \A q \in Proc : run'[q] = run[q] => TruthOf(q)'
  BY <1>2, <1>3, TruthStays
<1>5. \A q \in Proc : q \notin Copies' => TruthOf(q)'
  BY DEF TruthOf
<1>6. Told(store, done')
  BY <1>2, <1>3, ToldStays
<1>7. CASE Edits
  <2>1. PICK is \in SUBSET Ids, s \in {"approved", "expired", "rejected"} : Marked(store, store', is, s)
    BY <1>7 DEF Edits
  <2>2. Told(store', done')
    BY <1>6, <2>1, ToldMarked
  <2>3. ASSUME NEW q \in Proc PROVE run'[q] = run[q] \/ q \notin Copies'
    BY <1>7 DEF Edits, Copies, Writing, Busy
  <2> QED BY <1>3, <1>4, <1>5, <2>2, <2>3
<1>8. CASE Asks
  <2>1. PICK x : store' = [store EXCEPT ![asked'] = x] /\ x.state = "pending" /\ RealSquad(x.intent)
    BY <1>8 DEF Asks
  <2>2. ASSUME NEW i \in Ids PROVE store'[i] = store[i] \/ store'[i] = x
    BY <2>1 DEF TypeInv, DataOK, Files
  <2>3. Told(store', done')
    <3>1. \A i \in Ids : store'[i] # Unmade => RealSquad(store'[i].intent)
      BY <1>6, <2>1, <2>2 DEF Told, RealSquads
    <3>2. \A i \in Ids : store'[i].state = "executed" => \E t \in done' : Was(store'[i].intent, t)
      BY <1>6, <2>1, <2>2 DEF Told, Truthful
    <3> QED BY <3>1, <3>2 DEF Told, RealSquads, Truthful
  <2>4. run' = run
    BY <1>8 DEF Asks
  <2> QED BY <1>3, <1>4, <2>3, <2>4
<1>9. CASE Idles
  <2>1. store' = store
    BY <1>9 DEF Idles
  <2>2. ASSUME NEW q \in Proc PROVE run'[q] = run[q] \/ q \notin Copies'
    BY <1>9 DEF Idles, Copies, Writing, Busy
  <2> QED BY <1>3, <1>4, <1>5, <1>6, <2>1, <2>2
<1>10. ASSUME NEW p \in Proc, Begins(p) PROVE Told(store', done') /\ \A q \in Proc : TruthOf(q)'
  <2>1. store' = store /\ Others(p) /\ p \notin Copies'
    BY <1>10 DEF Begins, Copies
  <2> QED BY <1>4, <1>5, <1>6, <2>1 DEF Others
<1>11. ASSUME NEW p \in Proc, Loads(p) PROVE Told(store', done') /\ \A q \in Proc : TruthOf(q)'
  <2>1. Others(p) /\ Marked(store, store', Lapsed(store, "approved"), "expired")
    BY <1>11 DEF Loads
  <2>2. Told(store', done')
    BY <1>6, <2>1, ToldMarked
  <2>3. PICK r \in Runs : r.mem = store' /\ Proceeds(p, r, run'[p])
    BY <1>11 DEF Loads
  <2>4. p \in Copies' => run'[p].mem = store'
    BY <2>3 DEF Proceeds, Copies, Writing, Off
  <2>5. TruthOf(p)'
    BY <2>2, <2>4 DEF TruthOf
  <2> QED BY <1>4, <2>1, <2>2, <2>5 DEF Others
<1>12. ASSUME NEW p \in Proc, Reads(p) \/ Writes(p) PROVE Told(store', done') /\ \A q \in Proc : TruthOf(q)'
  <2>1. store' = store /\ Others(p) /\ run[p].step \in Busy
    BY <1>12 DEF Reads, Writes, Busy
  <2>2. run'[p].id = run[p].id /\ run'[p].mem = run[p].mem
    <3>1. run[p] \in Runs
      BY ProcFacts
    <3>2. CASE Reads(p)
      BY <3>1, <3>2 DEF Reads, Runs
    <3>3. CASE Writes(p)
      BY <3>1, <3>3 DEF Writes, Runs
    <3> QED BY <1>12, <3>2, <3>3
  <2>3. p \in Copies' => p \in Copies
    BY <2>1, <2>2 DEF Copies, Writing, Busy
  <2>4. p \in Copies => Told(run[p].mem, done')
    BY <1>2, <1>3, ToldStays DEF TruthOf
  <2>5. TruthOf(p)'
    BY <2>2, <2>3, <2>4 DEF TruthOf
  <2> QED BY <1>4, <1>6, <2>1, <2>5 DEF Others
<1>13. ASSUME NEW p \in Proc, Records(p) PROVE Told(store', done') /\ \A q \in Proc : TruthOf(q)'
  <2>1. Others(p) /\ p \in Copies /\ done' = done /\ team' = team
    BY <1>13 DEF Records
  <2>2. CopyOf(run[p], asked) /\ run[p].id \in Ids
    BY <2>1, ProcFacts
  <2>3. Told(run[p].mem, done')
    BY <1>2, <2>1 DEF TruthOf
  <2>4. PICK s \in {"executed", "failed"}, squad \in {team.squad, NoRead} :
            /\ Marked(run[p].mem, store', {run[p].id}, s)
            /\ IF run[p].reply = "ok" THEN s = "executed" <=> Verified(p, squad) ELSE s = "failed"
    BY <1>13 DEF Records
  <2>5. s = "executed" => Was(run[p].mem[run[p].id].intent, <<team.squad, team.order>>)
    <3>1. run[p].mem[run[p].id] # Unmade /\ run[p].intent = run[p].mem[run[p].id].intent
      BY <2>2 DEF CopyOf, Unmade
    <3>2. RealSquad(run[p].intent)
      BY <2>2, <2>3, <3>1 DEF Told, RealSquads
    <3>3. s = "executed" => Verified(p, squad)
      BY <2>4
    <3> QED BY <2>1, <3>1, <3>2, <3>3, VerifiedIsSo
  <2>6. Told(store', done')
    BY <1>2, <2>1, <2>3, <2>4, <2>5, ToldMarked
  <2>7. PICK r \in Runs : r.mem = store' /\ Proceeds(p, r, run'[p])
    BY <1>13 DEF Records
  <2>8. p \in Copies' => run'[p].mem = store'
    BY <2>7 DEF Proceeds, Copies, Writing, Off
  <2>9. TruthOf(p)'
    BY <2>6, <2>8 DEF TruthOf
  <2> QED BY <1>4, <2>1, <2>6, <2>9 DEF Others
<1>14. ASSUME NEW p \in Proc, Dies(p) PROVE Told(store', done') /\ \A q \in Proc : TruthOf(q)'
  <2>1. store' = store
    BY <1>14 DEF Dies
  <2>2. ASSUME NEW q \in Proc PROVE run'[q] = run[q] \/ q \notin Copies'
    BY <1>14, DiesCopies
  <2> QED BY <1>4, <1>5, <1>6, <2>1, <2>2
<1>15. Told(store', done') /\ \A q \in Proc : TruthOf(q)'
  BY <1>7, <1>8, <1>9, <1>10, <1>11, <1>12, <1>13, <1>14 DEF Kinds
<1> QED BY <1>3, <1>15

LEMMA InitTruth == Init => TruthInv
<1> SUFFICES ASSUME Init PROVE TruthInv
  OBVIOUS
<1>1. <<team.squad, team.order>> \in done
  BY DEF Init
<1>2. \A i \in Ids : store[i] = Unmade /\ Unmade.state = "none"
  BY DEF Init, Unmade
<1>3. Told(store, done)
  BY <1>2 DEF Told, RealSquads, Truthful
<1>4. \A q \in Proc : q \notin Copies
  BY OffTyped DEF Init, Copies, Writing
<1> QED BY <1>1, <1>3, <1>4 DEF TruthInv, TruthOf

\* A drain that did not move, and what it knows of the same team.
LEMMA KnowsStays ==
    ASSUME NEW r, NEW t, NEW u, NEW l, NEW h, NEW k, Knows(r, t, l, h), h \subseteq k,
           u.squad = t.squad, u.order = t.order
    PROVE  Knows(r, u, l, k)
<1>1. Took(r, t) => Took(r, u)
  BY DEF Took
<1> QED BY <1>1 DEF Knows

LEMMA WritersStay ==
    ASSUME OneWriter, \A q \in Proc : Writing(q)' => Writing(q)
    PROVE  OneWriter'
  BY DEF OneWriter

\* No drain begins, ends or moves, and nothing that landed is opened again.
LEMMA QuietAlone ==
    ASSUME AloneInv, \A q \in Proc : Writing(q)' => Writing(q),
           \A q \in Proc : run'[q] = run[q] \/ (q \notin Copies /\ q \notin Copies'),
           landed' = landed, hurt \subseteq hurt',
           Copies = {} \/ (team'.squad = team.squad /\ team'.order = team.order),
           \A i \in landed \ hurt : Settled(store[i].state) => Settled(store'[i].state)
    PROVE  AloneInv'
<1>1. \A q \in Proc : q \in Copies' <=> q \in Copies
  BY SameCopy
<1>2. Copies' = Copies
  BY <1>1 DEF Copies
<1>3. \A q \in Copies : run'[q] = run[q]
  BY DEF Copies
<1>4. SettledUnlessHeld'
  <2> SUFFICES ASSUME NEW i \in landed \ hurt', ~Settled(store'[i].state)
               PROVE  \E q \in Copies : run'[q].id = i
    BY <1>2 DEF SettledUnlessHeld
  <2>1. PICK q \in Copies : run[q].id = i
    BY DEF AloneInv, SettledUnlessHeld
  <2> QED BY <1>3, <2>1
<1>5. ASSUME NEW q \in Copies PROVE Knows(run'[q], team', landed', hurt')
  <2>1. Knows(run[q], team, landed, hurt) /\ run'[q] = run[q]
    BY <1>3 DEF AloneInv
  <2> QED BY <1>5, <2>1, KnowsStays
<1>6. OneWriter'
  BY WritersStay DEF AloneInv
<1> QED BY <1>2, <1>4, <1>5, <1>6 DEF AloneInv

\* The one that writes alone.
LEMMA SoloAlone ==
    ASSUME NEW p \in Proc, \A q \in Proc \ {p} : ~Writing(q)',
           p \in Copies' => Knows(run'[p], team', landed', hurt'),
           \A i \in landed' \ hurt' : (p \in Copies' /\ run'[p].id = i) \/ Settled(store'[i].state)
    PROVE  AloneInv'
<1>1. OneWriter'
  BY DEF OneWriter
<1>2. \A q \in Copies' : q = p
  BY DEF Copies
<1>3. SettledUnlessHeld'
  BY DEF SettledUnlessHeld
<1> QED BY <1>1, <1>2, <1>3 DEF AloneInv

\* Whoever writes, the others do not, nor do they after his step.
LEMMA OthersIdle ==
    ASSUME OneWriter, NEW p \in Proc, Writing(p), Others(p)
    PROVE  \A q \in Proc \ {p} : ~Writing(q) /\ ~Writing(q)'
<1>1. \A q \in Proc \ {p} : ~Writing(q)
  BY DEF OneWriter
<1> QED BY <1>1, SameCopy DEF Others

LEMMA EditsAlone ==
    ASSUME TypeInv, AloneInv, Edits
    PROVE  AloneInv'
<1>1. PICK is \in SUBSET Ids, s \in {"approved", "expired", "rejected"} :
            /\ Marked(store, store', is, s)
            /\ s # "rejected" => \A j \in is : store[j].state = "pending"
  BY DEF Edits
<1>2. landed \subseteq Ids
  BY DEF TypeInv, DataOK
<1>3. ASSUME NEW i \in landed \ hurt, Settled(store[i].state) PROVE Settled(store'[i].state)
  <2>1. CASE i \in is
    <3>1. store'[i].state = s /\ s = "rejected"
      BY <1>1, <1>2, <1>3, <2>1 DEF Marked, Settled
    <3> QED BY <3>1 DEF Settled
  <2>2. CASE i \notin is
    BY <1>1, <1>2, <1>3, <2>2 DEF Marked
  <2> QED BY <2>1, <2>2
<1>4. \A q \in Proc : run'[q] = run[q] \/ (run[q].step \notin Busy /\ run'[q].step \notin Busy)
  BY DEF Edits
<1>5. ASSUME NEW q \in Proc
      PROVE  (run'[q] = run[q] \/ (q \notin Copies /\ q \notin Copies')) /\ (Writing(q)' => Writing(q))
  BY <1>4 DEF Copies, Writing, Busy
<1>6. UNCHANGED <<team, landed, hurt>>
  BY DEF Edits
<1> QED BY <1>3, <1>5, <1>6, QuietAlone

LEMMA AsksAlone ==
    ASSUME TypeInv, AloneInv, Asks
    PROVE  AloneInv'
<1>1. UNCHANGED <<run, team, landed, hurt>> /\ asked' = asked + 1 /\ asked' \in Ids
  BY DEF Asks
<1>2. PICK x : store' = [store EXCEPT ![asked'] = x]
  BY DEF Asks
<1>3. ASSUME NEW i \in landed \ hurt, Settled(store[i].state) PROVE Settled(store'[i].state)
  <2>1. asked' > asked
    BY <1>1, Counted
  <2>2. store[asked'] = Unmade /\ ~Settled(Unmade.state)
    BY <1>1, <2>1 DEF TypeInv, DataOK, Settled, Unmade
  <2>3. i # asked' /\ i \in Ids /\ store \in Files
    BY <1>3, <2>2 DEF TypeInv, DataOK
  <2>4. store'[i] = store[i]
    BY <1>2, <2>3 DEF Files
  <2> QED BY <1>3, <2>4
<1>4. \A q \in Proc : run'[q] = run[q] /\ (Writing(q)' => Writing(q))
  BY <1>1 DEF Writing
<1> QED BY <1>1, <1>3, <1>4, QuietAlone

LEMMA IdlesAlone ==
    ASSUME TypeInv, AloneInv, Idles
    PROVE  AloneInv'
<1>1. UNCHANGED <<store, landed, hurt>>
  BY DEF Idles
<1>2. team'.squad = team.squad /\ team'.order = team.order
  BY DEF Idles, TypeInv, DataOK
<1>3. ASSUME NEW q \in Proc
      PROVE  (run'[q] = run[q] \/ (q \notin Copies /\ q \notin Copies')) /\ (Writing(q)' => Writing(q))
  BY DEF Idles, Copies, Writing, Busy
<1> QED BY <1>1, <1>2, <1>3, QuietAlone

\* A write begins only while nobody writes, or the step counts as an overlap.
LEMMA CrossingAlone ==
    ASSUME TypeInv, overlaps = 0, overlaps' = 0, Crossing, NEW p \in Proc, Others(p)
    PROVE  (\A q \in Proc : ~Writing(q)) /\ Copies = {} /\ \A q \in Proc \ {p} : ~Writing(q)'
<1>1. \A q \in Proc : ~Writing(q)
  BY DEF Crossing
<1>2. Copies = {}
  BY <1>1 DEF Copies
<1> QED BY <1>1, <1>2, SameCopy DEF Others

LEMMA BeginsAlone ==
    ASSUME TypeInv, AloneInv, overlaps = 0, overlaps' = 0, NEW p \in Proc, Begins(p)
    PROVE  AloneInv'
<1>1. UNCHANGED <<store, landed, hurt>> /\ Others(p) /\ Crossing /\ run'[p].id = Direct
  BY DEF Begins
<1>2. Copies = {} /\ p \notin Copies' /\ \A q \in Proc \ {p} : ~Writing(q)'
  BY <1>1, CrossingAlone DEF Copies
<1>3. \A i \in landed \ hurt : Settled(store[i].state)
  BY <1>2 DEF AloneInv, SettledUnlessHeld
<1> QED BY <1>1, <1>2, <1>3, SoloAlone

LEMMA LoadsAlone ==
    ASSUME TypeInv, AloneInv, overlaps = 0, overlaps' = 0, NEW p \in Proc, Loads(p)
    PROVE  AloneInv'
<1>1. UNCHANGED <<team, landed, hurt>> /\ Others(p) /\ run[p].step = "drain"
      /\ Marked(store, store', Lapsed(store, "approved"), "expired")
  BY DEF Loads
<1>2. PICK r \in Runs :
        /\ r.mem = store' /\ Proceeds(p, r, run'[p])
        /\ IF r.queue = {} THEN overlaps' = overlaps ELSE Crossing
  BY DEF Loads
<1>3. landed \subseteq Ids
  BY DEF TypeInv, DataOK
<1>4. ASSUME NEW i \in landed \ hurt, Settled(store[i].state) PROVE Settled(store'[i].state)
  <2>1. i \notin Lapsed(store, "approved")
    BY <1>4 DEF Lapsed, In, Settled
  <2> QED BY <1>1, <1>3, <1>4, <2>1 DEF Marked
<1>5. CASE r.queue = {}
  <2>1. p \notin Copies /\ p \notin Copies' /\ ~Writing(p)'
    BY <1>1, <1>2, <1>5, OffTyped DEF Proceeds, Copies, Writing
  <2>2. ASSUME NEW q \in Proc
        PROVE  (run'[q] = run[q] \/ (q \notin Copies /\ q \notin Copies')) /\ (Writing(q)' => Writing(q))
    BY <1>1, <2>1, SameCopy DEF Others
  <2> QED BY <1>1, <1>4, <2>2, QuietAlone
<1>6. CASE r.queue # {}
  <2>1. run'[p].step = "read" /\ run'[p].mem = store'
    BY <1>2, <1>6 DEF Proceeds
  <2>2. Copies = {} /\ \A q \in Proc \ {p} : ~Writing(q)'
    BY <1>1, <1>2, <1>6, CrossingAlone
  <2>3. \A i \in landed \ hurt : Settled(store'[i].state)
    BY <1>4, <2>2 DEF AloneInv, SettledUnlessHeld
  <2>4. Knows(run'[p], team', landed', hurt')
    BY <1>1, <2>1, <2>3 DEF Knows
  <2> QED BY <1>1, <2>2, <2>3, <2>4, SoloAlone
<1> QED BY <1>5, <1>6

LEMMA ReadsAlone ==
    ASSUME TypeInv, AloneInv, NEW p \in Proc, Reads(p)
    PROVE  AloneInv'
<1>1. UNCHANGED <<store, team, landed>> /\ Others(p) /\ hurt \subseteq hurt' /\ run[p].step = "read"
  BY DEF Reads
<1>2. PICK squad \in {team.squad, NoRead} :
        /\ run'[p] = [run[p] EXCEPT !.step = "send", !.before = squad]
        /\ squad = team.squad \/ run[p].id \in hurt' \/ run[p].id = Direct
  BY DEF Reads
<1>3. run[p] \in Runs /\ Writing(p)
  BY <1>1, ProcFacts DEF Writing
<1>4. /\ run'[p].step = "send" /\ run'[p].id = run[p].id /\ run'[p].mem = run[p].mem
      /\ run'[p].before = squad
  BY <1>2, <1>3 DEF Runs
<1>5. p \in Copies' <=> p \in Copies
  BY <1>3, <1>4 DEF Copies, Writing
<1>6. \A q \in Proc \ {p} : ~Writing(q) /\ ~Writing(q)'
  BY <1>1, <1>3, OthersIdle DEF AloneInv
<1>7. ASSUME NEW i \in landed \ hurt'
      PROVE  (p \in Copies /\ run[p].id = i) \/ Settled(store[i].state)
  <2>1. \A q \in Copies : q = p
    BY <1>6 DEF Copies
  <2> QED BY <1>1, <1>7, <2>1 DEF AloneInv, SettledUnlessHeld
<1>8. ASSUME p \in Copies PROVE Knows(run'[p], team', landed', hurt')
  <2>1. Knows(run[p], team, landed, hurt) /\ run[p].id # Direct
    BY <1>8 DEF AloneInv, Copies
  <2>2. \A i \in landed \ hurt' : Settled(run'[p].mem[i].state)
    BY <1>1, <1>4, <2>1 DEF Knows
  <2>3. run[p].id \notin hurt' => squad = team.squad
    BY <1>2, <2>1
  <2> QED BY <1>1, <1>4, <2>2, <2>3 DEF Knows
<1> QED BY <1>1, <1>4, <1>5, <1>6, <1>7, <1>8, SoloAlone

\* What the provider did without a fault is what it will be found to have done.
LEMMA EffectTook ==
    ASSUME TypeInv, NEW r, NEW i \in Intents, NEW e \in Effects(i), e.n = 0, Fits(i),
           r.intent = i, r.reply = e.reply, i.action = "transfer" => r.before = team.squad
    PROVE  Took(r, e.team)
<1>1. e.team = Applied(i) /\ e.reply = "ok"
  BY EffectTyped
<1>2. team \in Teams /\ Cardinality(team.squad) = Cardinality(Squad0)
  BY DEF TypeInv, DataOK, Teams
<1>3. CASE i.action = "lineup"
  <2>1. e.team.squad = team.squad /\ e.team.order = i.order /\ i.players = team.squad
    BY <1>1, <1>2, <1>3 DEF Applied, Fits, Teams
  <2> QED BY <1>1, <1>3, <2>1 DEF Took
<1>4. CASE i.action # "lineup"
  <2>1. i.action = "transfer" /\ i.in \in Player /\ e.team = MoveBy(i)
    BY <1>1, <1>4, IntentTyped DEF Applied
  <2>2. i.out \in team.squad /\ i.in \in Player \ team.squad
    BY <1>4, <2>1 DEF Fits
  <2>3. e.team.squad = (team.squad \ {i.out}) \union {i.in}
    BY <2>1, <2>2, MoveTyped
  <2> QED BY <1>1, <1>2, <1>4, <2>1, <2>2, <2>3 DEF Took
<1> QED BY <1>3, <1>4

LEMMA WritesAlone ==
    ASSUME TypeInv, AloneInv, NEW p \in Proc, Writes(p)
    PROVE  AloneInv'
<1> DEFINE i == run[p].intent
<1>1. store' = store /\ Others(p) /\ run[p].step = "send"
  BY DEF Writes
<1>2. PICK e \in Effects(i) :
        /\ team' = e.team /\ run'[p] = [run[p] EXCEPT !.step = "answer", !.reply = e.reply]
        /\ IF e.team = Applied(i) /\ Fits(i) /\ run[p].id # Direct
           THEN landed' = landed \union {run[p].id} ELSE landed' = landed
        /\ IF e.n > 0 /\ run[p].id # Direct THEN hurt' = hurt \union {run[p].id} ELSE hurt' = hurt
  BY DEF Writes
<1>3. run[p] \in Runs /\ Writing(p) /\ i \in Intents
  BY <1>1, ProcFacts DEF Writing, ShapeOf, Busy
<1>4. /\ run'[p].step = "answer" /\ run'[p].id = run[p].id /\ run'[p].mem = run[p].mem
      /\ run'[p].before = run[p].before /\ run'[p].intent = i /\ run'[p].reply = e.reply
  BY <1>2, <1>3 DEF Runs
<1>5. p \in Copies' <=> p \in Copies
  BY <1>3, <1>4 DEF Copies, Writing
<1>6. \A q \in Proc \ {p} : ~Writing(q) /\ ~Writing(q)'
  BY <1>1, <1>3, OthersIdle DEF AloneInv
<1>7. p \in Copies <=> run[p].id # Direct
  BY <1>3 DEF Copies
<1>8. ASSUME NEW j \in landed' \ hurt', j # run[p].id PROVE j \in landed \ hurt
  BY <1>2, <1>8
<1>9. CASE p \in Copies
  <2>1. CopyOf(run[p], asked) /\ run[p].id \in Ids /\ Knows(run[p], team, landed, hurt)
    BY <1>9, <1>3, ProcFacts DEF AloneInv
  <2>2. run[p].id \notin landed \ hurt
    <3>1. run[p].mem[run[p].id].state = "approved"
      BY <2>1 DEF CopyOf
    <3> QED BY <1>1, <2>1, <3>1 DEF Knows, Settled
  <2>3. ASSUME run[p].id \in landed' \ hurt' PROVE Took(run'[p], team')
    <3>1. run[p].id \notin hurt
      BY <1>2, <2>3
    <3>2. run[p].id \notin landed
      BY <2>2, <3>1
    <3>3. Fits(i)
      BY <1>2, <2>3, <3>2
    <3>4. ~(e.n > 0)
      BY <1>2, <1>7, <1>9, <2>3
    <3>5. e.n = 0
      <4>1. e.n \in {0, 1}
        BY <1>3, EffectTyped
      <4> QED BY <3>4, <4>1
    <3>6. run[p].before = team.squad
      BY <1>1, <2>1, <3>1 DEF Knows
    <3> QED BY <1>2, <1>3, <1>4, <3>3, <3>5, <3>6, EffectTook
  <2>4. ASSUME NEW j \in landed' \ hurt', j # run[p].id PROVE Settled(run'[p].mem[j].state)
    <3>1. j \in landed \ hurt
      BY <1>8, <2>4
    <3> QED BY <1>1, <1>4, <2>1, <2>4, <3>1 DEF Knows
  <2>5. Knows(run'[p], team', landed', hurt')
    BY <1>4, <2>3, <2>4 DEF Knows
  <2>6. ASSUME NEW j \in landed' \ hurt', j # run[p].id PROVE Settled(store'[j].state)
    <3>1. \A q \in Copies : q = p
      BY <1>6 DEF Copies
    <3>2. j \in landed \ hurt
      BY <1>8, <2>6
    <3> QED BY <1>1, <2>6, <3>1, <3>2 DEF AloneInv, SettledUnlessHeld
  <2> QED BY <1>4, <1>5, <1>6, <1>9, <2>5, <2>6, SoloAlone
<1>10. CASE p \notin Copies
  <2>1. Copies = {}
    BY <1>6, <1>10 DEF Copies
  <2>2. landed' = landed /\ hurt' = hurt
    BY <1>2, <1>7, <1>10
  <2>3. \A j \in landed' \ hurt' : Settled(store'[j].state)
    BY <1>1, <2>1, <2>2 DEF AloneInv, SettledUnlessHeld
  <2>4. p \notin Copies'
    BY <1>5, <1>10
  <2> QED BY <1>6, <2>3, <2>4, SoloAlone
<1> QED BY <1>9, <1>10

\* What took is verified when it is read back.
LEMMA TookVerifies ==
    ASSUME TypeInv, Platform # "mfl", NEW p \in Proc, run[p].intent \in Intents, Took(run[p], team)
    PROVE  Verified(p, team.squad)
<1> DEFINE i == run[p].intent
           before == run[p].before
<1>1. CASE i.action = "lineup"
  BY <1>1 DEF Took, Verified, VerifyLineup
<1>2. CASE i.action # "lineup"
  <2>1. /\ i.out \in before /\ i.in \notin before /\ Cardinality(before) = Cardinality(Squad0)
        /\ team.squad = (before \ {i.out}) \union {i.in}
    BY <1>2 DEF Took
  <2>2. Cardinality(team.squad) = Cardinality(before)
    BY <2>1 DEF TypeInv, DataOK
  <2>3. Cardinality(team.squad) \in Nat
    <3>1. IsFiniteSet(team.squad)
      <4>1. team.squad \in SUBSET Player
        BY DEF TypeInv, DataOK
      <4> QED BY <4>1, BoundsTyped, FS_Subset
    <3> QED BY <3>1, FS_CardinalityType
  <2>4. Cardinality(team.squad) - Cardinality(before) = 0
    BY <2>2, <2>3
  <2> DEFINE want == [in |-> {i.in}, out |-> {i.out}]
  <2>5. Expected(Platform, i) = want
    BY DEF Expected
  <2>6. Cardinality({i.in}) = 1 /\ Cardinality({i.out}) = 1
    BY FS_Singleton
  <2>7. /\ want.in \subseteq team.squad /\ want.out \intersect team.squad = {}
        /\ team.squad \ before \subseteq want.in /\ before \ team.squad \subseteq want.out
    BY <2>1
  <2>8. 0 = (IF Platform = "fpl" THEN 0 ELSE Cardinality(want.in) - Cardinality(want.out))
    BY <2>6
  <2>9. VerifyTransfer(Platform, i, before, team.squad)
    <3> HIDE DEF want
    <3> QED BY <2>4, <2>5, <2>7, <2>8 DEF VerifyTransfer
  <2> QED BY <1>2, <2>9 DEF Verified
<1> QED BY <1>1, <1>2

LEMMA RecordsAlone ==
    ASSUME TypeInv, AloneInv, Platform # "mfl", NEW p \in Proc, Records(p)
    PROVE  AloneInv'
<1>1. /\ UNCHANGED <<team, landed>> /\ Others(p) /\ hurt \subseteq hurt' /\ p \in Copies
      /\ run[p].step = "answer"
  BY DEF Records
<1>2. PICK s \in {"executed", "failed"}, squad \in {team.squad, NoRead} :
        /\ Marked(run[p].mem, store', {run[p].id}, s)
        /\ IF run[p].reply = "ok" THEN s = "executed" <=> Verified(p, squad) ELSE s = "failed"
        /\ squad = team.squad \/ run[p].id \in hurt'
  BY DEF Records
<1>3. PICK r \in Runs : r.mem = store' /\ Proceeds(p, r, run'[p])
  BY DEF Records
<1>4. Writing(p) /\ run[p].intent \in Intents /\ run[p].id \in Ids
  BY <1>1, ProcFacts DEF Copies, ShapeOf
<1>5. \A q \in Proc \ {p} : ~Writing(q) /\ ~Writing(q)'
  BY <1>1, <1>4, OthersIdle DEF AloneInv
<1>6. Knows(run[p], team, landed, hurt) /\ landed \subseteq Ids
  BY <1>1 DEF AloneInv, TypeInv, DataOK
<1>7. ASSUME NEW i \in landed \ hurt' PROVE Settled(store'[i].state)
  <2>1. CASE i = run[p].id
    <3>1. Took(run[p], team)
      BY <1>1, <1>6, <1>7, <2>1 DEF Knows
    <3>2. squad = team.squad
      BY <1>2, <1>7, <2>1
    <3>3. s = "executed"
      BY <1>2, <1>4, <3>1, <3>2, TookVerifies DEF Took
    <3> QED BY <1>2, <1>4, <2>1, <3>3 DEF Marked, Settled
  <2>2. CASE i # run[p].id
    <3>1. Settled(run[p].mem[i].state)
      BY <1>1, <1>6, <1>7, <2>2 DEF Knows
    <3> QED BY <1>2, <1>6, <1>7, <2>2, <3>1 DEF Marked
  <2> QED BY <2>1, <2>2
<1>8. p \in Copies' => Knows(run'[p], team', landed', hurt')
  <2> SUFFICES ASSUME p \in Copies' PROVE Knows(run'[p], team', landed', hurt')
    OBVIOUS
  <2>1. run'[p].step = "read" /\ run'[p].mem = store'
    BY <1>3 DEF Proceeds, Copies, Writing, Off
  <2> QED BY <1>1, <1>7, <2>1 DEF Knows
<1> QED BY <1>1, <1>5, <1>7, <1>8, SoloAlone

LEMMA DiesAlone ==
    ASSUME TypeInv, AloneInv, NEW p \in Proc, Dies(p)
    PROVE  AloneInv'
<1>1. UNCHANGED <<store, team, landed>> /\ hurt' = IF p \in Copies THEN hurt \union {run[p].id} ELSE hurt
  BY DEF Dies
<1>2. CASE p \in Copies
  <2>1. Others(p) /\ run'[p] = Off /\ Writing(p)
    BY <1>2 DEF Dies, Copies
  <2>2. \A q \in Proc \ {p} : ~Writing(q) /\ ~Writing(q)'
    BY <2>1, OthersIdle DEF AloneInv
  <2>3. p \notin Copies'
    BY <2>1, OffTyped DEF Copies, Writing
  <2>4. ASSUME NEW i \in landed \ hurt' PROVE Settled(store'[i].state)
    <3>1. i \in landed \ hurt /\ i # run[p].id /\ \A q \in Copies : q = p
      BY <1>1, <1>2, <2>2, <2>4 DEF Copies
    <3> QED BY <1>1, <3>1 DEF AloneInv, SettledUnlessHeld
  <2> QED BY <1>1, <2>2, <2>3, <2>4, SoloAlone
<1>3. CASE p \notin Copies /\ Others(p) /\ run'[p] = Off
  <2>1. p \notin Copies' /\ ~Writing(p)'
    BY <1>3, OffTyped DEF Copies, Writing
  <2>2. ASSUME NEW q \in Proc
        PROVE  (run'[q] = run[q] \/ (q \notin Copies /\ q \notin Copies')) /\ (Writing(q)' => Writing(q))
    BY <1>3, <2>1, SameCopy DEF Others
  <2> QED BY <1>1, <1>3, <2>2, QuietAlone
<1>4. CASE /\ p = "tick" /\ p \notin Copies /\ run["agent"] = Off
           /\ run' = [run EXCEPT !["tick"] = Off, !["agent"] = run["tick"]]
  <2>1. /\ run'["tick"] = Off /\ run'["approve"] = run["approve"] /\ run'["agent"] = run["tick"]
        /\ Proc = {"tick", "approve", "agent"}
    BY <1>4 DEF TypeInv, Proc
  <2>2. /\ ~Writing("tick")' /\ (Writing("agent")' <=> Writing("tick")) /\ ~Writing("agent")
        /\ (Writing("approve")' <=> Writing("approve"))
    BY <1>4, <2>1, OffTyped DEF Writing
  <2>3. "tick" \notin Copies' /\ "agent" \notin Copies' /\ "tick" \notin Copies /\ "agent" \notin Copies
    BY <1>4, <2>1, OffTyped DEF Copies, Writing
  <2>4. OneWriter'
    <3> SUFFICES ASSUME NEW q1 \in Proc, NEW q2 \in Proc, Writing(q1)', Writing(q2)' PROVE q1 = q2
      BY DEF OneWriter
    <3>1. \A x, y \in Proc : Writing(x) /\ Writing(y) => x = y
      BY DEF AloneInv, OneWriter
    <3>2. ~(Writing("agent")' /\ Writing("approve")')
      <4>1. "tick" # "approve" /\ "tick" \in Proc /\ "approve" \in Proc
        BY <2>1
      <4> QED BY <2>2, <3>1, <4>1
    <3>3. q1 \in {"approve", "agent"} /\ q2 \in {"approve", "agent"}
      BY <2>1, <2>2
    <3> QED BY <3>2, <3>3
  <2>5. Copies' = Copies /\ \A q \in Copies : run'[q] = run[q]
    <3>1. "approve" \in Copies' <=> "approve" \in Copies
      BY <2>1, SameCopy
    <3>2. \A q \in Copies : q = "approve"
      BY <2>1, <2>3 DEF Copies
    <3>3. \A q \in Copies' : q = "approve"
      BY <2>1, <2>3 DEF Copies
    <3>4. \A q : q \in Copies' <=> q \in Copies
      BY <3>1, <3>2, <3>3
    <3>5. Copies' = Copies
      BY <3>4
    <3> QED BY <2>1, <3>2, <3>5
  <2>6. hurt' = hurt
    BY <1>1, <1>4
  <2> QED BY <1>1, <2>4, <2>5, <2>6 DEF AloneInv, SettledUnlessHeld
<1> QED BY <1>2, <1>3, <1>4 DEF Dies

LEMMA FateNext ==
    ASSUME TypeInv, TypeInv', Kinds, FateInv
    PROVE  FateInv'
<1>1. setup' = setup
  BY TeamMoves
<1> SUFFICES ASSUME Platform # "mfl", overlaps' = 0 PROVE AloneInv'
  BY <1>1 DEF FateInv, Platform, Policy
<1>2. overlaps = 0
  <2>1. overlaps \in Nat
    BY Counted
  <2>2. overlaps' \in {overlaps, overlaps + 1}
    <3>1. CASE Edits BY <3>1 DEF Edits
    <3>2. CASE Asks BY <3>2 DEF Asks
    <3>3. CASE Idles BY <3>3 DEF Idles
    <3>4. ASSUME NEW p \in Proc, Begins(p) \/ Loads(p) \/ Reads(p) \/ Writes(p) \/ Records(p) \/ Dies(p)
          PROVE  overlaps' \in {overlaps, overlaps + 1}
      <4>1. CASE Begins(p) BY <4>1 DEF Begins, Crossing
      <4>2. CASE Loads(p) BY <4>2 DEF Loads, Crossing
      <4>3. CASE Reads(p) BY <4>3 DEF Reads
      <4>4. CASE Writes(p) BY <4>4 DEF Writes
      <4>5. CASE Records(p) BY <4>5 DEF Records
      <4>6. CASE Dies(p) BY <4>6 DEF Dies
      <4> QED BY <3>4, <4>1, <4>2, <4>3, <4>4, <4>5, <4>6
    <3> QED BY <3>1, <3>2, <3>3, <3>4 DEF Kinds
  <2> QED BY <2>1, <2>2
<1>3. AloneInv
  BY <1>2 DEF FateInv
<1>4. ASSUME NEW p \in Proc, Begins(p) \/ Loads(p) \/ Reads(p) \/ Writes(p) \/ Records(p) \/ Dies(p)
      PROVE  AloneInv'
  BY <1>2, <1>3, <1>4, BeginsAlone, LoadsAlone, ReadsAlone, WritesAlone, RecordsAlone, DiesAlone
<1> QED BY <1>3, <1>4, EditsAlone, AsksAlone, IdlesAlone DEF Kinds

LEMMA InitFate == Init => FateInv
<1> SUFFICES ASSUME Init PROVE AloneInv
  BY DEF FateInv
<1>1. \A q \in Proc : ~Writing(q)
  BY OffTyped DEF Init, Writing
<1>2. Copies = {} /\ landed = {}
  BY <1>1 DEF Init, Copies
<1> QED BY <1>1, <1>2 DEF AloneInv, OneWriter, SettledUnlessHeld

\* "executed" is what the team really was, and with one writer at a time what really happened
\* is "executed" unless a read, an answer or the command was lost.
THEOREM FateTrue == Spec => []FateIsTrue
<1> DEFINE Inv == TypeInv /\ TruthInv /\ FateInv
<1>1. Init => Inv
  BY InitTyped, InitTruth, InitFate
<1>2. Inv /\ [Next]_vars => Inv'
  BY NextKinds, TruthNext, FateNext
<1>3. Inv => FateIsTrue
  <2> SUFFICES ASSUME Inv, Platform # "mfl", NEW i \in Ids
               PROVE  /\ store[i].state = "executed" => \E t \in done : Was(store[i].intent, t)
                      /\ overlaps = 0 /\ i \in landed \ (hurt \union InHand) =>
                             store[i].state \in {"executed", "rejected"}
    BY TypeInvOK DEF FateIsTrue
  <2>1. store[i].state = "executed" => \E t \in done : Was(store[i].intent, t)
    BY DEF TruthInv, Told, Truthful
  <2>2. ASSUME overlaps = 0, i \in landed \ (hurt \union InHand) PROVE Settled(store[i].state)
    <3>1. AloneInv
      BY <2>2 DEF FateInv
    <3>2. ~ \E q \in Copies : run[q].id = i
      BY <2>2 DEF Copies, InHand
    <3> QED BY <2>2, <3>1, <3>2 DEF AloneInv, SettledUnlessHeld
  <2> QED BY <2>1, <2>2 DEF Settled
<1> HIDE DEF Inv
<1> QED BY <1>1, <1>2, <1>3, PTL DEF Spec

(***************************************************************************)
(* The watch without noise                                                 *)
(***************************************************************************)

LEMMA WeeksPass ==
    ASSUME NEW t \in Nat
    PROVE  Gameweek(t) \in Int /\ Gameweek(t) > 0 /\ Gameweek(t) <= Gameweek(t + 1)
<1> DEFINE L == GameweekLength
           q == t \div L
           u == (t + 1) \div L
<1>1. L \in Nat /\ L > 0
  BY BoundsTyped
<1>2. q \in Int /\ u \in Int /\ q >= 0
  BY <1>1
<1>3. q * L <= t /\ t + 1 < (u + 1) * L
  BY <1>1
<1>4. q <= u
  <2>1. SUFFICES ASSUME u + 1 <= q PROVE FALSE
    BY <1>2
  <2> HIDE DEF q, u, L
  <2>2. (u + 1) * L <= q * L
    BY <1>1, <1>2, <2>1
  <2>3. (u + 1) * L \in Int /\ q * L \in Int
    BY <1>1, <1>2
  <2> QED BY <1>3, <2>2, <2>3
<1> HIDE DEF q, u, L
<1>5. Gameweek(t) = q + 1 /\ Gameweek(t + 1) = u + 1
  BY DEF Gameweek, q, u, L
<1> QED BY <1>2, <1>4, <1>5

LEMMA NextItemWatch ==
    ASSUME NEW r \in Runs, r.event = 0
    PROVE  LET x == NextItem("tick", r) IN x.step # "off" /\ x.watch = r.watch /\ x.event = 0 /\ ~OwnRun(x)
<1>1. CASE r.queue # {}
  <2> DEFINE i == Min(r.queue)
             bill == [cost |-> r.mem[i].cost, count |-> r.mem[i].count]
             x == NextItem("tick", r)
  <2>1. x = [r EXCEPT !.step = "read", !.id = i, !.queue = @ \ {i}, !.intent = r.mem[i].intent,
                      !.before = NoRead, !.reply = "", !.bill = bill]
    BY <1>1 DEF NextItem
  <2>2. r.queue \in SUBSET Nat /\ r.queue \subseteq Ids
    BY BoundsTyped DEF Runs
  <2>3. i \in Ids /\ i # Direct
    BY <1>1, <2>2, MinIn, BoundsTyped
  <2> HIDE DEF i, bill, x
  <2>4. x.step = "read" /\ x.id = i /\ x.watch = r.watch /\ x.event = r.event
    BY <2>1 DEF Runs
  <2> QED BY <2>3, <2>4 DEF x, OwnRun
<1>2. CASE r.queue = {}
  <2>1. NextItem("tick", r) = [Off EXCEPT !.step = "check", !.at = r.at, !.watch = r.watch]
    BY <1>2 DEF NextItem
  <2> QED BY <2>1 DEF Off, OwnRun, Busy
<1> QED BY <1>1, <1>2

\* The tick goes on with its copy of the watch, or ends.
Keeps == /\ run'["tick"].step # "off" =>
               run["tick"].step # "off" /\ run'["tick"].watch = run["tick"].watch
         /\ run'["tick"].event = run["tick"].event
         /\ OwnRun(run'["tick"]) => OwnRun(run["tick"])
         /\ run["tick"].step = "save" => run'["tick"].step = "save"

LEMMA PageStays ==
    ASSUME PageInv, UNCHANGED <<cred, watch, paged>>, Keeps
    PROVE  PageInv'
<1>1. SaysSo(watch)' <=> SaysSo(watch)
  BY DEF SaysSo
<1>2. ASSUME run'["tick"].step # "off"
      PROVE  SaysSo(run["tick"].watch)' <=> SaysSo(run["tick"].watch)
  BY <1>2 DEF SaysSo, Keeps
<1> QED BY <1>1, <1>2 DEF PageInv, Keeps

LEMMA WakeStays ==
    ASSUME WakeInv, TypeInv, UNCHANGED <<clock, watch, wakes>>,
           NEW m \in Nat, NEW n \in Nat, kills' = kills + m, faults' = faults + n,
           Keeps \/ (run'["tick"] = Off /\ m + n > 0)
    PROVE  WakeInv'
<1>1. kills \in Nat /\ faults \in Nat /\ clock \in Nat
  BY Numbers
<1>2. run'["tick"].step # "off" => run'["tick"].watch.lastRun = watch'.lastRun
  BY OffTyped DEF Keeps, WakeInv
<1>3. run'["tick"].event \in {run["tick"].event, 0}
  BY OffTyped DEF Keeps
<1>4. run'["tick"].event # 0 =>
         watch'.lastRun < run'["tick"].event /\ run'["tick"].event <= Gameweek(clock')
  BY <1>3 DEF WakeInv
<1>6. OwnRun(run'["tick"]) => run'["tick"].event # 0
  BY OffTyped DEF Keeps, WakeInv, OwnRun, Busy
<1>5. ASSUME NEW e \in 1 .. Gameweek(MaxNow)
      PROVE  wakes'[e] <= kills' + faults' + IF Attended(e)' THEN 1 ELSE 0
  <2>1. wakes[e] \in Nat /\ wakes'[e] = wakes[e]
    BY DEF WakeInv
  <2>2. wakes[e] <= kills + faults + IF Attended(e) THEN 1 ELSE 0
    BY DEF WakeInv
  <2>3. CASE Keeps
    <3>1. watch'.lastRun = watch.lastRun /\ run'["tick"].event = run["tick"].event
          /\ Gameweek(clock') = Gameweek(clock)
      BY <2>3 DEF Keeps
    <3>2. Attended(e) => Attended(e)'
      BY <3>1 DEF Attended
    <3> QED BY <1>1, <2>1, <2>2, <3>2
  <2>4. CASE m + n > 0
    BY <1>1, <2>1, <2>2, <2>4
  <2> QED BY <2>3, <2>4
<1> QED BY <1>2, <1>4, <1>5, <1>6 DEF WakeInv

LEMMA NoiseStays ==
    ASSUME TypeInv, PageInv, WakeInv, UNCHANGED <<clock, cred, watch, paged, wakes, kills>>,
           faults' = faults \/ \E n \in {0, 1, 2} : CanFail(n), Keeps
    PROVE  PageInv' /\ WakeInv'
<1>1. kills \in Nat /\ faults \in Nat
  BY Numbers
<1>2. PICK n \in Nat : faults' = faults + n
  <2>1. faults' = faults \/ \E n \in {0, 1, 2} : faults' = faults + n
    BY DEF CanFail
  <2>2. faults = faults + 0
    BY <1>1
  <2> QED BY <2>1, <2>2
<1>3. kills' = kills + 0
  BY <1>1
<1>4. PageInv'
  BY PageStays
<1>5. WakeInv'
  BY <1>2, <1>3, WakeStays
<1> QED BY <1>4, <1>5

LEMMA LoadNoise ==
    ASSUME TypeInv, NEW p \in Proc, LoadApproved(p)
    PROVE  Keeps
<1> DEFINE file == Expire(store, "approved")
           batch == Batch(p, file)
           r == [run[p] EXCEPT !.mem = file, !.loaded = clock, !.queue = batch]
           x == NextItem(p, r)
<1>1. run[p].step = "drain" /\ run' = [run EXCEPT ![p] = x]
  BY DEF LoadApproved
<1>2. run \in [Proc -> Runs] /\ "tick" \in Proc
  BY DEF TypeInv, Proc
<1>3. CASE p = "tick"
  <2>1. file \in Files
    <3>1. store \in Files
      BY DEF TypeInv, DataOK
    <3> QED BY <3>1, Numbers, ExpireTyped
  <2>2. batch \in SUBSET Ids
    BY DEF Batch, Approved, In
  <2>3. run[p] \in Runs /\ ShapeOf(p, run[p]) /\ clock \in Nat
    BY ProcFacts
  <2> HIDE DEF file, batch
  <2>4. r \in Runs /\ r.event = run[p].event /\ r.watch = run[p].watch
    BY <2>1, <2>2, <2>3 DEF Runs
  <2>5. run[p].event = 0
    BY <1>1, <2>3 DEF ShapeOf, Busy
  <2> HIDE DEF r
  <2>6. x.step # "off" /\ x.watch = r.watch /\ x.event = 0 /\ ~OwnRun(x)
    BY <1>3, <2>4, <2>5, NextItemWatch
  <2> HIDE DEF x
  <2>7. run'["tick"] = x
    BY <1>1, <1>2, <1>3
  <2> QED BY <1>1, <1>3, <2>4, <2>5, <2>6, <2>7 DEF Keeps
<1>4. CASE p # "tick"
  <2> HIDE DEF x
  <2>1. run'["tick"] = run["tick"]
    BY <1>1, <1>2, <1>4
  <2> QED BY <2>1 DEF Keeps
<1> QED BY <1>3, <1>4

LEMMA RecordNoise ==
    ASSUME TypeInv, NEW p \in Proc, NEW ok, run[p].step = "answer", Record(p, ok)
    PROVE  Keeps
<1>1. run \in [Proc -> Runs] /\ "tick" \in Proc
  BY DEF TypeInv, Proc
<1>2. run[p] \in Runs /\ ShapeOf(p, run[p])
  BY ProcFacts
<1>3. CASE p # "tick"
  <2>1. run'["tick"] = run["tick"]
    BY <1>1, <1>3 DEF Record
  <2> QED BY <2>1 DEF Keeps
<1>4. CASE p = "tick" /\ run[p].id = Direct
  <2>1. run'["tick"] = AfterDirect(run[p])
    BY <1>1, <1>4 DEF Record
  <2>2. AfterDirect(run[p]).watch = run[p].watch /\ AfterDirect(run[p]).event = run[p].event
    BY DEF AfterDirect, Off
  <2> QED BY <1>4, <2>1, <2>2 DEF Keeps, OwnRun, Busy
<1>5. CASE p = "tick" /\ run[p].id # Direct
  <2> DEFINE file == Set(run[p].mem, {run[p].id}, IF ok THEN "executed" ELSE "failed")
             r == [run[p] EXCEPT !.mem = file]
  <2>1. p \in Copies /\ CopyOf(run[p], asked) /\ run[p].id \in Ids /\ run[p].event = 0
    BY <1>5, ProcFacts DEF Busy
  <2>2. file \in Files
    <3>1. run[p].mem \in Files /\ run[p].mem[run[p].id].state # "none"
      BY <2>1 DEF CopyOf
    <3>2. \A j \in Ids \intersect {run[p].id} : run[p].mem[j].state # "none"
      BY <3>1
    <3>3. (IF ok THEN "executed" ELSE "failed") \in States
      BY DEF States
    <3> QED BY <3>1, <3>2, <3>3, SetTyped
  <2> HIDE DEF file
  <2>3. r \in Runs /\ r.event = 0 /\ r.watch = run[p].watch
    BY <1>2, <2>1, <2>2 DEF Runs
  <2>4. run'["tick"] = NextItem("tick", r)
    BY <1>1, <1>5 DEF Record, file
  <2> HIDE DEF r
  <2>5. run'["tick"].step # "off" /\ run'["tick"].watch = run[p].watch /\ run'["tick"].event = 0
        /\ ~OwnRun(run'["tick"])
    BY <2>3, <2>4, NextItemWatch
  <2> QED BY <1>5, <2>1, <2>5 DEF Keeps
<1> QED BY <1>3, <1>4, <1>5

\* One field of a process is set, none of the watch's.
LEMMA FieldsNoise ==
    ASSUME TypeInv, NEW p \in Proc, NEW x, run' = [run EXCEPT ![p] = x], run[p].step \notin {"off", "save"},
           x.watch = run[p].watch, x.event = run[p].event, OwnRun(x) => OwnRun(run[p])
    PROVE  Keeps
<1>1. run \in [Proc -> Runs] /\ "tick" \in Proc
  BY DEF TypeInv, Proc
<1> QED BY <1>1 DEF Keeps

LEMMA AgentEndsNoise ==
    ASSUME TypeInv, PageInv, WakeInv, NEW p \in Proc, AgentEnds(p)
    PROVE  PageInv' /\ WakeInv'
<1>1. PICK n \in {0, 1} :
        /\ CanFail(n) /\ (p # "tick" => n = 0) /\ run' = [run EXCEPT ![p] = Off]
        /\ watch' = IF p = "tick"
                    THEN [run[p].watch EXCEPT !.lastRun = IF n = 0 THEN run[p].event ELSE @] ELSE watch
  BY DEF AgentEnds
<1>2. run[p].step = "agent" /\ UNCHANGED <<clock, cred, paged, wakes, kills>>
  BY DEF AgentEnds, ghosts
<1>3. run \in [Proc -> Runs] /\ "tick" \in Proc
  BY DEF TypeInv, Proc
<1>4. CASE p # "tick"
  <2>1. run'["tick"] = run["tick"] /\ watch' = watch
    BY <1>1, <1>3, <1>4
  <2> QED BY <1>1, <1>2, <2>1, NoiseStays DEF Keeps
<1>5. CASE p = "tick"
  <2> DEFINE t == run["tick"]
  <2>1. /\ t.watch \in Watches /\ t.event \in Int /\ watch \in Watches /\ clock \in Nat
        /\ t.step # "off"
    <3>1. t \in Runs /\ ShapeOf("tick", t) /\ clock \in Nat
      BY <1>3, ProcFacts
    <3> QED BY <1>2, <1>5, <3>1 DEF ShapeOf, Runs, TypeInv, DataOK
  <2>2. /\ watch'.lastRun = (IF n = 0 THEN t.event ELSE t.watch.lastRun)
        /\ watch'.lastAlert = t.watch.lastAlert /\ watch'.lastSeen = t.watch.lastSeen
    BY <1>1, <1>5, <2>1 DEF Watches
  <2>3. run'["tick"] = Off
    BY <1>1, <1>3, <1>5
  <2>4. PageInv'
    <3>1. ~paged.news => SaysSo(watch)'
      BY <1>2, <2>1, <2>2 DEF PageInv, SaysSo
    <3> QED BY <1>2, <2>3, <3>1, OffTyped DEF PageInv
  <2>5. kills \in Nat /\ faults \in Nat /\ faults' = faults + n
    BY <1>1, Numbers DEF CanFail
  <2>6. ASSUME NEW e \in 1 .. Gameweek(MaxNow)
        PROVE  wakes'[e] <= kills' + faults' + IF Attended(e)' THEN 1 ELSE 0
    <3>1. wakes[e] \in Nat /\ wakes[e] <= kills + faults + IF Attended(e) THEN 1 ELSE 0
      BY DEF WakeInv
    <3>2. CASE n = 1
      BY <1>2, <2>5, <3>1, <3>2
    <3>3. CASE n = 0
      <4>1. Attended(e) => Attended(e)'
        <5>1. watch'.lastRun = t.event /\ e > 0 /\ e \in Int /\ Gameweek(clock) \in Int
              /\ watch.lastRun \in Int
          BY <2>1, <2>2, <3>3, WeeksPass DEF Watches
        <5>2. CASE watch.lastRun = e
          <6>1. t.event # 0
            BY <1>2, <1>5 DEF WakeInv, OwnRun
          <6>2. e < Gameweek(clock)
            BY <2>1, <5>1, <5>2, <6>1 DEF WakeInv
          <6> QED BY <1>2, <6>2 DEF Attended
        <5>3. CASE e < Gameweek(clock) \/ t.event = e
          BY <1>2, <5>1, <5>3 DEF Attended
        <5> QED BY <5>2, <5>3 DEF Attended
      <4> QED BY <1>2, <2>5, <3>1, <3>3, <4>1
    <3> QED BY <3>2, <3>3
  <2>7. WakeInv'
    BY <1>2, <2>3, <2>6, OffTyped DEF WakeInv, OwnRun, Busy
  <2> QED BY <2>4, <2>7
<1> QED BY <1>4, <1>5

LEMMA BeginTickNoise ==
    ASSUME TypeInv, PageInv, WakeInv, BeginTick
    PROVE  PageInv' /\ WakeInv'
<1> DEFINE x == [Off EXCEPT !.step = "drain", !.at = clock, !.watch = watch]
<1>1. /\ run["tick"] = Off /\ run' = [run EXCEPT !["tick"] = x]
      /\ UNCHANGED <<clock, cred, watch, paged, wakes, kills, faults>>
  <2>1. run["tick"] = Off
    BY DEF BeginTick, Free
  <2>2. run \in [Proc -> Runs]
    BY DEF TypeInv
  <2> QED BY <2>1, <2>2 DEF BeginTick, ghosts, bounds
<1>2. x.step = "drain" /\ x.event = 0 /\ x.watch = watch
  BY DEF Off
<1>3. run'["tick"] = x
  BY <1>1 DEF TypeInv, Proc
<1> HIDE DEF x
<1>4. PageInv'
  <2>1. SaysSo(watch)' <=> SaysSo(watch)
    BY <1>1 DEF SaysSo
  <2>2. SaysSo(run["tick"].watch)' <=> SaysSo(watch)
    BY <1>1, <1>2, <1>3 DEF SaysSo
  <2>3. run'["tick"].step = "drain"
    BY <1>2, <1>3
  <2> QED BY <1>1, <2>1, <2>2, <2>3, OffTyped DEF PageInv, SaysSo
<1>5. ASSUME NEW e PROVE Attended(e) => Attended(e)'
  BY <1>1, <1>2, <1>3, OffTyped DEF Attended
<1>6. ~OwnRun(run'["tick"])
  BY <1>2, <1>3 DEF OwnRun, Busy
<1>7. ASSUME NEW e \in 1 .. Gameweek(MaxNow)
      PROVE  wakes'[e] <= kills' + faults' + IF Attended(e)' THEN 1 ELSE 0
  <2>1. wakes[e] \in Nat /\ wakes[e] <= kills + faults + IF Attended(e) THEN 1 ELSE 0
    BY DEF WakeInv
  <2> QED BY <1>1, <1>5, <2>1, Numbers
<1>8. WakeInv'
  BY <1>1, <1>2, <1>3, <1>6, <1>7 DEF WakeInv
<1> QED BY <1>4, <1>8

LEMMA PassNoise ==
    ASSUME TypeInv, PageInv, WakeInv, Pass
    PROVE  PageInv' /\ WakeInv'
<1>1. clock' = clock + 1 /\ UNCHANGED <<run, cred, watch, paged, wakes, kills, faults>>
  BY DEF Pass, ghosts, bounds
<1>2. Gameweek(clock) \in Int /\ Gameweek(clock') \in Int /\ Gameweek(clock) <= Gameweek(clock')
  <2>1. clock \in Nat /\ clock' \in Nat
    BY <1>1, Numbers
  <2> QED BY <1>1, <2>1, WeeksPass
<1>3. PageInv'
  BY <1>1, PageStays DEF Keeps
<1>4. ASSUME NEW e \in 1 .. Gameweek(MaxNow)
      PROVE  wakes'[e] <= kills' + faults' + IF Attended(e)' THEN 1 ELSE 0
  <2>1. wakes[e] \in Nat /\ wakes[e] <= kills + faults + IF Attended(e) THEN 1 ELSE 0
    BY DEF WakeInv
  <2>2. Attended(e) => Attended(e)'
    BY <1>1, <1>2 DEF Attended
  <2> QED BY <1>1, <2>1, <2>2, Numbers
<1>5. run["tick"].event # 0 => run["tick"].event <= Gameweek(clock')
  <2>1. run["tick"].event \in Int
    BY ProcFacts DEF Proc, Runs
  <2> QED BY <1>2, <2>1 DEF WakeInv
<1> QED BY <1>1, <1>3, <1>4, <1>5 DEF WakeInv

LEMMA TurnNoise ==
    ASSUME TypeInv, PageInv, WakeInv, Turn
    PROVE  PageInv' /\ WakeInv'
<1>1. /\ CanFail(1) /\ paged' = [paged EXCEPT !.news = TRUE]
      /\ UNCHANGED <<run, clock, watch, wakes, kills>>
  BY DEF Turn
<1>2. paged' \in [at : Int, count : Nat, news : BOOLEAN] /\ paged'.news
  BY <1>1 DEF PageInv
<1>3. kills \in Nat /\ faults \in Nat /\ faults' = faults + 1
  BY <1>1, Numbers DEF CanFail
<1>4. WakeInv'
  <2>1. kills' = kills + 0 /\ Keeps
    BY <1>1, <1>3 DEF Keeps
  <2> QED BY <1>1, <1>3, <2>1, WakeStays
<1> QED BY <1>2, <1>4 DEF PageInv

LEMMA KillNoise ==
    ASSUME TypeInv, PageInv, WakeInv, NEW p \in Proc, Kill(p)
    PROVE  PageInv' /\ WakeInv' /\ paged'.count = paged.count
<1>1. /\ kills' = kills + 1 /\ UNCHANGED <<clock, cred, watch, wakes, faults>>
      /\ paged' = [paged EXCEPT !.news = @ \/ run[p].step = "save"]
  BY DEF Kill
<1>2. run \in [Proc -> Runs] /\ Proc = {"tick", "approve", "agent"}
  BY DEF TypeInv, Proc
<1>3. run'["tick"] = Off \/ (p # "tick" /\ run'["tick"] = run["tick"])
  BY <1>2 DEF Kill
<1>4. kills \in Nat /\ faults \in Nat
  BY Numbers
<1>5. WakeInv'
  <2>1. faults' = faults + 0 /\ 1 + 0 > 0
    BY <1>1, <1>4
  <2>2. Keeps \/ run'["tick"] = Off
    BY <1>3 DEF Keeps
  <2> QED BY <1>1, <2>1, <2>2, WakeStays
<1>6. /\ paged' \in [at : Int, count : Nat, news : BOOLEAN]
      /\ paged'.at = paged.at /\ paged'.count = paged.count
      /\ paged'.news <=> (paged.news \/ run[p].step = "save")
  <2>1. paged \in [at : Int, count : Nat, news : BOOLEAN]
    BY DEF PageInv
  <2> DEFINE lost == run[p].step = "save"
  <2>2. paged' = [paged EXCEPT !.news = @ \/ lost] /\ lost \in BOOLEAN
    BY <1>1
  <2> HIDE DEF lost
  <2>3. /\ paged' \in [at : Int, count : Nat, news : BOOLEAN]
        /\ paged'.at = paged.at /\ paged'.count = paged.count
        /\ paged'.news = (paged.news \/ lost)
    BY <2>1, <2>2
  <2> QED BY <2>3 DEF lost
<1>7. PageInv'
  <2>1. SaysSo(watch)' <=> SaysSo(watch)
    BY <1>1, <1>6 DEF SaysSo
  <2>2. SaysSo(run["tick"].watch)' <=> (run'["tick"].watch.lastAlert = paged.at /\ run'["tick"].watch.lastSeen = cred)
    BY <1>1, <1>6 DEF SaysSo
  <2>3. CASE run'["tick"] = run["tick"]
    BY <1>1, <1>6, <2>1, <2>2, <2>3 DEF PageInv, SaysSo
  <2>4. CASE run'["tick"] = Off /\ run["tick"].step # "save"
    BY <1>1, <1>6, <2>1, <2>4, OffTyped DEF PageInv
  <2>5. CASE p = "tick" /\ run["tick"].step = "save"
    BY <1>6, <2>5 DEF PageInv
  <2>6. p # "tick" => run'["tick"] = run["tick"]
    BY <1>2 DEF Kill
  <2> QED BY <1>3, <2>3, <2>4, <2>5, <2>6
<1> QED BY <1>5, <1>6, <1>7

LEMMA SaveNoise ==
    ASSUME TypeInv, PageInv, WakeInv, SaveWatch
    PROVE  PageInv' /\ WakeInv'
<1>1. /\ run["tick"].step = "save" /\ watch' = run["tick"].watch /\ run' = [run EXCEPT !["tick"] = Off]
      /\ UNCHANGED <<clock, cred, paged, wakes, kills, faults>>
  BY DEF SaveWatch, ghosts, bounds
<1>2. run'["tick"] = Off
  BY <1>1 DEF TypeInv, Proc
<1>3. PageInv'
  <2>1. SaysSo(watch)' <=> SaysSo(run["tick"].watch)
    BY <1>1 DEF SaysSo
  <2> QED BY <1>1, <1>2, <2>1, OffTyped DEF PageInv
<1>4. watch'.lastRun = watch.lastRun /\ run["tick"].event = 0
  <2>1. ShapeOf("tick", run["tick"])
    BY ProcFacts DEF Proc
  <2> QED BY <1>1, <2>1 DEF WakeInv, ShapeOf, Busy
<1>5. ASSUME NEW e \in 1 .. Gameweek(MaxNow)
      PROVE  wakes'[e] <= kills' + faults' + IF Attended(e)' THEN 1 ELSE 0
  <2>1. wakes[e] \in Nat /\ wakes[e] <= kills + faults + IF Attended(e) THEN 1 ELSE 0
    BY DEF WakeInv
  <2>2. Attended(e) => Attended(e)'
    BY <1>1, <1>2, <1>4, OffTyped DEF Attended
  <2> QED BY <1>1, <2>1, <2>2, Numbers
<1>6. WakeInv'
  BY <1>1, <1>2, <1>5, OffTyped DEF WakeInv, OwnRun, Busy
<1> QED BY <1>3, <1>6

\* What a check pages of, and what it leaves behind.
Paging ==
    paged'.count # paged.count =>
        \/ paged.news
        \/ paged'.at - paged.at >= Cooldown(Deadline(clock) - paged'.at)
        \/ paged'.at - paged.at >= Cooldown(UnknownHorizon)

LEMMA CheckNoise ==
    ASSUME TypeInv, PageInv, WakeInv, Check
    PROVE  PageInv' /\ WakeInv' /\ Paging
<1> DEFINE r == run["tick"]
<1>1. r.step = "check" /\ UNCHANGED <<clock, cred, kills>>
  BY DEF Check
<1>2. PICK blind \in {0, 1}, dark \in {0, 1} : Checks(r, blind, dark)
  BY DEF Check
<1> DEFINE hours == IF blind = 1 THEN UnknownHorizon ELSE Deadline(clock) - r.at
           due == DueForCheck(Platform, hours, r.watch.lastChecked, r.at)
           state == IF dark = 1 THEN "unknown" ELSE cred
           alert == due /\ ShouldAlert(state, hours, r.watch.lastAlert, r.watch.lastSeen, r.at)
           w == IF due THEN Seen(r.watch, r.at, state, alert) ELSE r.watch
           stops == (due /\ state # "ok") \/ blind = 1
                    \/ ~RunDue(Policy, Gameweek(clock), hours, w.lastRun, r.at)
           x == [r EXCEPT !.step = "agent", !.watch = w, !.event = Gameweek(clock)]
           y == [r EXCEPT !.step = "save", !.watch = w]
<1>3. /\ CanFail(blind + dark) /\ (~due => dark = 0)
      /\ paged' = IF alert THEN [at |-> r.at, count |-> paged.count + 1, news |-> FALSE]
                  ELSE [paged EXCEPT !.news = @ \/ state = "unknown"]
      /\ \/ /\ alert /\ UNCHANGED <<watch, wakes>>
            /\ run' = [run EXCEPT !["tick"].step = "save", !["tick"].watch = w]
         \/ /\ ~alert /\ stops /\ watch' = w /\ run' = [run EXCEPT !["tick"] = Off] /\ UNCHANGED wakes
         \/ /\ ~stops /\ UNCHANGED watch
            /\ run' = [run EXCEPT !["tick"].step = "agent", !["tick"].watch = w,
                                  !["tick"].event = Gameweek(clock)]
            /\ wakes' = [wakes EXCEPT ![Gameweek(clock)] = @ + 1]
  BY <1>2, Zenon DEF Checks
<1>4. /\ "tick" \in Proc /\ run \in [Proc -> Runs] /\ r \in Runs /\ r.watch \in Watches /\ r.at \in Nat
      /\ cred \in Creds /\ watch \in Watches /\ r.event = 0 /\ clock \in Nat
  <2>1. "tick" \in Proc /\ run \in [Proc -> Runs]
    BY DEF TypeInv, Proc
  <2>2. r \in Runs /\ ShapeOf("tick", r) /\ clock \in Nat
    BY <2>1, ProcFacts
  <2> QED BY <1>1, <2>1, <2>2 DEF ShapeOf, Runs, Busy, TypeInv, DataOK
<1>5. /\ w.lastRun = r.watch.lastRun
      /\ due => w.lastSeen = state /\ w.lastAlert = (IF alert THEN r.at ELSE r.watch.lastAlert)
      /\ ~due => w = r.watch
  <2> HIDE DEF hours, due, state, alert
  <2> QED BY <1>4 DEF Seen, Watches
<1>6. alert => /\ due /\ dark = 0 /\ state = cred /\ cred \notin {"ok", "unknown"} /\ stops
               /\ r.watch.lastSeen \notin {"", state} \/ r.watch.lastAlert = Never
                  \/ r.at - r.watch.lastAlert >= Cooldown(hours)
  BY DEF ShouldAlert
<1>7. /\ paged' \in [at : Int, count : Nat, news : BOOLEAN]
      /\ alert => paged'.at = r.at
      /\ ~alert => /\ paged'.at = paged.at /\ paged'.count = paged.count
                   /\ paged'.news <=> (paged.news \/ state = "unknown")
  <2> HIDE DEF alert, state
  <2>1. paged \in [at : Int, count : Nat, news : BOOLEAN]
    BY DEF PageInv
  <2>2. CASE alert
    BY <1>3, <1>4, <2>1, <2>2
  <2>3. CASE ~alert
    BY <1>3, <2>1, <2>3
  <2> QED BY <2>2, <2>3
<1>8. Paging
  <2> SUFFICES ASSUME paged'.count # paged.count, ~paged.news
               PROVE  \/ paged'.at - paged.at >= Cooldown(Deadline(clock) - paged'.at)
                      \/ paged'.at - paged.at >= Cooldown(UnknownHorizon)
    BY DEF Paging
  <2>1. alert /\ paged'.at = r.at
    BY <1>7
  <2>2. r.watch.lastAlert = paged.at /\ r.watch.lastSeen = cred /\ paged.at # Never
    BY <1>1 DEF PageInv, SaysSo
  <2>3. r.at - paged.at >= Cooldown(hours)
    <3> HIDE DEF hours, due, alert, stops, state
    <3> QED BY <1>6, <2>1, <2>2
  <2> HIDE DEF alert
  <2> QED BY <2>1, <2>3
<1>9. ~paged'.news => due \/ w = r.watch
  BY <1>5
<1> HIDE DEF hours
<1>10. CASE ~alert /\ stops /\ watch' = w /\ run' = [run EXCEPT !["tick"] = Off] /\ UNCHANGED wakes
  <2>1. run'["tick"] = Off
    BY <1>4, <1>10
  <2>2. ASSUME ~paged'.news
        PROVE  paged'.at # Never /\ cred' \notin {"ok", "unknown"} /\ SaysSo(watch)'
    <3>1. ~paged.news /\ state # "unknown" /\ paged'.at = paged.at
      BY <1>7, <1>10, <2>2
    <3>2. paged.at # Never /\ cred \notin {"ok", "unknown"} /\ SaysSo(r.watch)
      BY <1>1, <3>1 DEF PageInv
    <3>3. state = cred
      BY <3>1
    <3> HIDE DEF due, alert, state, stops, w
    <3>4. SaysSo(w)
      BY <1>5, <1>10, <3>2, <3>3 DEF SaysSo
    <3> QED BY <1>1, <1>10, <3>1, <3>2, <3>4 DEF SaysSo
  <2>3. PageInv'
    BY <1>7, <2>1, <2>2, OffTyped DEF PageInv
  <2>4. kills \in Nat /\ faults \in Nat /\ faults' \in Nat /\ faults' >= faults
    BY <1>3, Numbers DEF CanFail
  <2>5. watch'.lastRun = watch.lastRun
    BY <1>1, <1>5, <1>10 DEF WakeInv
  <2> HIDE DEF due, alert, state, stops, w
  <2>6. ASSUME NEW e \in 1 .. Gameweek(MaxNow)
        PROVE  wakes'[e] <= kills' + faults' + IF Attended(e)' THEN 1 ELSE 0
    <3>1. wakes[e] \in Nat /\ wakes[e] <= kills + faults + IF Attended(e) THEN 1 ELSE 0
      BY DEF WakeInv
    <3>2. Attended(e) => Attended(e)'
      BY <1>1, <1>4, <2>1, <2>5, OffTyped DEF Attended
    <3> QED BY <1>1, <1>10, <2>4, <3>1, <3>2
  <2>7. WakeInv'
    BY <1>10, <2>1, <2>6, OffTyped DEF WakeInv, OwnRun, Busy
  <2> QED BY <1>8, <2>3, <2>7
<1>11. CASE /\ ~stops /\ UNCHANGED watch
            /\ run' = [run EXCEPT !["tick"].step = "agent", !["tick"].watch = w,
                                  !["tick"].event = Gameweek(clock)]
            /\ wakes' = [wakes EXCEPT ![Gameweek(clock)] = @ + 1]
  <2>1. run' = [run EXCEPT !["tick"] = x]
    <3> HIDE DEF w, stops
    <3> QED BY <1>4, <1>11
  <2>2. Gameweek(clock) \in Int /\ Gameweek(clock) > 0
    BY <1>4, WeeksPass
  <2>3. ~alert /\ (due => state = "ok") /\ w.lastRun < Gameweek(clock)
    <3> HIDE DEF due, state, w
    <3> QED BY <1>6, <1>11 DEF RunDue
  <2>4. run'["tick"] = x /\ x.step = "agent" /\ x.watch = w /\ x.event = Gameweek(clock)
    <3> HIDE DEF w
    <3> QED BY <1>4, <2>1 DEF Runs
  <2> HIDE DEF x
  <2>5. PageInv'
    <3>1. ASSUME ~paged'.news
          PROVE  /\ paged'.at # Never /\ cred' \notin {"ok", "unknown"} /\ SaysSo(watch)'
                 /\ SaysSo(run["tick"].watch)'
      <4>1. ~paged.news /\ state # "unknown" /\ paged'.at = paged.at
        BY <1>7, <2>3, <3>1
      <4>2. paged.at # Never /\ cred \notin {"ok", "unknown"} /\ SaysSo(r.watch) /\ SaysSo(watch)
        BY <1>1, <4>1 DEF PageInv
      <4>3. ~due
        BY <2>3, <4>1, <4>2
      <4>4. w = r.watch
        BY <1>5, <4>3
      <4> HIDE DEF due, alert, state, stops, w
      <4> QED BY <1>1, <1>11, <2>4, <4>1, <4>2, <4>4 DEF SaysSo
    <3> QED BY <1>7, <3>1 DEF PageInv
  <2>6. kills \in Nat /\ faults \in Nat /\ faults' \in Nat /\ faults' >= faults
    BY <1>3, Numbers DEF CanFail
  <2> HIDE DEF due, alert, state, stops, w
  <2>7. w.lastRun = watch.lastRun /\ watch.lastRun \in Int
    <3>1. r.step # "off"
      BY <1>1
    <3>2. r.watch.lastRun = watch.lastRun
      BY <3>1 DEF WakeInv
    <3> QED BY <1>4, <1>5, <3>2 DEF Watches
  <2> DEFINE Weeks == 1 .. Gameweek(MaxNow)
  <2>8. wakes \in [Weeks -> Nat] /\ wakes' \in [Weeks -> Nat]
    <3>1. wakes \in [Weeks -> Nat] /\ wakes' = [wakes EXCEPT ![Gameweek(clock)] = @ + 1]
      BY <1>11 DEF WakeInv
    <3> HIDE DEF Weeks
    <3>2. \A n \in Nat : n + 1 \in Nat
      OBVIOUS
    <3> QED BY <3>1, <3>2
  <2>9. ASSUME NEW e \in 1 .. Gameweek(MaxNow)
        PROVE  wakes'[e] <= kills' + faults' + IF Attended(e)' THEN 1 ELSE 0
    <3>1. wakes[e] \in Nat /\ wakes[e] <= kills + faults + IF Attended(e) THEN 1 ELSE 0
      BY DEF WakeInv
    <3>2. CASE e = Gameweek(clock)
      <4>1. ~Attended(e)
        BY <1>4, <2>2, <2>3, <2>7, <3>2 DEF Attended
      <4>2. Attended(e)'
        BY <2>4, <3>2 DEF Attended
      <4>3. wakes'[e] = wakes[e] + 1
        BY <1>11, <2>8, <3>2
      <4> QED BY <1>1, <2>6, <3>1, <4>1, <4>2, <4>3
    <3>3. CASE e # Gameweek(clock)
      <4>1. Attended(e) => Attended(e)'
        BY <1>1, <1>4, <1>11, <3>3 DEF Attended
      <4>2. wakes'[e] = wakes[e]
        BY <1>11, <2>8, <3>3
      <4> QED BY <1>1, <2>6, <3>1, <4>1, <4>2
    <3> QED BY <3>2, <3>3
  <2>10. WakeInv'
    BY <1>1, <1>11, <2>2, <2>3, <2>4, <2>7, <2>8, <2>9 DEF WakeInv
  <2> QED BY <1>8, <2>5, <2>10
<1>12. CASE /\ alert /\ UNCHANGED <<watch, wakes>>
            /\ run' = [run EXCEPT !["tick"].step = "save", !["tick"].watch = w]
  <2>1. run' = [run EXCEPT !["tick"] = y]
    <3> HIDE DEF w, alert
    <3> QED BY <1>4, <1>12
  <2>2. run'["tick"] = y /\ y.step = "save" /\ y.watch = w /\ y.event = 0
    <3> HIDE DEF w
    <3> QED BY <1>4, <2>1 DEF Runs
  <2> HIDE DEF y
  <2>3. due /\ state = cred /\ cred \notin {"ok", "unknown"}
    BY <1>6, <1>12
  <2> HIDE DEF due, alert, state, stops, w
  <2>4. w.lastAlert = paged'.at /\ w.lastSeen = cred /\ paged'.at # Never
    BY <1>4, <1>5, <1>7, <1>12, <2>3 DEF Never
  <2>5. PageInv'
    <3>1. SaysSo(run["tick"].watch)'
      BY <1>1, <2>2, <2>4 DEF SaysSo
    <3> QED BY <1>1, <1>7, <2>2, <2>3, <2>4, <3>1 DEF PageInv
  <2>6. PICK n \in Nat : faults' = faults + n
    BY <1>3 DEF CanFail
  <2>7. w.lastRun = watch.lastRun /\ kills \in Nat /\ faults \in Nat
    <3>1. r.step # "off"
      BY <1>1
    <3>2. r.watch.lastRun = watch.lastRun
      BY <3>1 DEF WakeInv
    <3> QED BY <1>5, <3>2, Numbers
  <2>8. ASSUME NEW e \in 1 .. Gameweek(MaxNow)
        PROVE  wakes'[e] <= kills' + faults' + IF Attended(e)' THEN 1 ELSE 0
    <3>1. wakes[e] \in Nat /\ wakes[e] <= kills + faults + IF Attended(e) THEN 1 ELSE 0
      BY DEF WakeInv
    <3>2. Attended(e) => Attended(e)'
      BY <1>1, <1>4, <1>12, <2>2 DEF Attended
    <3> QED BY <1>1, <1>12, <2>6, <2>7, <3>1, <3>2
  <2>9. WakeInv'
    BY <1>12, <2>2, <2>7, <2>8 DEF WakeInv, OwnRun, Busy
  <2> QED BY <1>8, <2>5, <2>9
<1> QED BY <1>3, <1>10, <1>11, <1>12

LEMMA NoiseNext ==
    ASSUME TypeInv, PageInv, WakeInv, [Next]_vars
    PROVE  PageInv' /\ WakeInv' /\ Paging
<1> DEFINE Quiet == UNCHANGED <<clock, cred, watch, paged, wakes, kills>>
<1>1. paged' = paged => Paging
  BY DEF Paging
<1>2. ASSUME Quiet, faults' = faults \/ \E n \in {0, 1, 2} : CanFail(n), Keeps
      PROVE  PageInv' /\ WakeInv' /\ Paging
  BY <1>1, <1>2, NoiseStays
<1>3. run \in [Proc -> Runs] /\ Proc = {"tick", "approve", "agent"}
  BY DEF TypeInv, Proc
<1>4. ASSUME UNCHANGED run["tick"] PROVE Keeps
  BY <1>4 DEF Keeps
<1>5. ASSUME NEW p \in Proc, LoadApproved(p) PROVE PageInv' /\ WakeInv' /\ Paging
  <2>1. Quiet /\ faults' = faults
    BY <1>5 DEF LoadApproved, ghosts
  <2> QED BY <1>2, <1>5, <2>1, LoadNoise
<1>6. ASSUME NEW p \in Proc, ReadBefore(p) PROVE PageInv' /\ WakeInv' /\ Paging
  <2>1. PICK n \in {0, 1} :
          /\ CanFail(n)
          /\ run' = [run EXCEPT ![p].step = "send", ![p].before = IF n = 0 THEN team.squad ELSE NoRead]
    BY <1>6 DEF ReadBefore
  <2> DEFINE squad == IF n = 0 THEN team.squad ELSE NoRead
             x == [run[p] EXCEPT !.step = "send", !.before = squad]
  <2>2. run[p].step = "read" /\ Quiet
    BY <1>6 DEF ReadBefore
  <2>3. run[p] \in Runs
    BY <1>3
  <2>4. run' = [run EXCEPT ![p] = x]
    BY <1>3, <2>1
  <2> HIDE DEF squad
  <2>5. x.watch = run[p].watch /\ x.event = run[p].event /\ x.step = "send" /\ x.id = run[p].id
    BY <2>3 DEF Runs
  <2> HIDE DEF x
  <2>6. Keeps
    BY <2>2, <2>4, <2>5, FieldsNoise DEF OwnRun, Busy
  <2> QED BY <1>2, <2>1, <2>2, <2>6
<1>7. ASSUME NEW p \in Proc, Send(p) PROVE PageInv' /\ WakeInv' /\ Paging
  <2>1. PICK e \in Effects(run[p].intent) :
          CanFail(e.n) /\ run' = [run EXCEPT ![p].step = "answer", ![p].reply = e.reply]
    BY <1>7 DEF Send
  <2> DEFINE x == [run[p] EXCEPT !.step = "answer", !.reply = e.reply]
  <2>2. run[p].step = "send" /\ Quiet
    BY <1>7 DEF Send
  <2>3. run[p] \in Runs /\ run[p].intent \in Intents
    BY <1>3, <2>2, ProcFacts DEF ShapeOf, Busy
  <2>4. run' = [run EXCEPT ![p] = x]
    BY <1>3, <2>1
  <2>5. e.n \in {0, 1}
    BY <2>3, EffectTyped
  <2>6. x.watch = run[p].watch /\ x.event = run[p].event /\ x.step = "answer" /\ x.id = run[p].id
    BY <2>3 DEF Runs
  <2> HIDE DEF x
  <2>7. Keeps
    BY <2>2, <2>4, <2>6, FieldsNoise DEF OwnRun, Busy
  <2> QED BY <1>2, <2>1, <2>2, <2>5, <2>7
<1>8. ASSUME NEW p \in Proc, Raised(p) PROVE PageInv' /\ WakeInv' /\ Paging
  <2>1. run[p].step = "answer" /\ Record(p, FALSE) /\ Quiet /\ faults' = faults
    BY <1>8 DEF Raised, ghosts, bounds
  <2> QED BY <1>2, <2>1, RecordNoise
<1>9. ASSUME NEW p \in Proc, ReadAfter(p) PROVE PageInv' /\ WakeInv' /\ Paging
  <2>1. run[p].step = "answer" /\ Quiet
    BY <1>9 DEF ReadAfter
  <2>2. \E n \in {0, 1} : CanFail(n) /\ \E ok : Record(p, ok)
    BY <1>9 DEF ReadAfter
  <2>3. Keeps
    BY <2>1, <2>2, RecordNoise
  <2> QED BY <1>2, <2>1, <2>2, <2>3
<1>10. ASSUME NEW p \in Proc, AgentEnds(p) PROVE PageInv' /\ WakeInv' /\ Paging
  BY <1>1, <1>10, AgentEndsNoise DEF AgentEnds, ghosts
<1>11. ASSUME NEW p \in Proc, Kill(p) PROVE PageInv' /\ WakeInv' /\ Paging
  BY <1>11, KillNoise DEF Paging
<1>12. ASSUME NEW p \in Proc, NEW raw \in setup.intents, Propose(p, raw)
       PROVE  PageInv' /\ WakeInv' /\ Paging
  <2> DEFINE intent == Filled(raw)
             bill == [cost |-> Policy.max_hit, count |-> team.count]
             x == [run[p] EXCEPT !.step = "read", !.id = Direct, !.intent = intent, !.bill = bill]
  <2>1. run[p].step = "agent" /\ Quiet /\ faults' = faults
    BY <1>12 DEF Propose
  <2>2. run' = run \/ run' = [run EXCEPT ![p].step = "read", ![p].id = Direct, ![p].intent = intent,
                                         ![p].bill = bill]
    BY <1>12 DEF Propose
  <2>3. CASE run' = run
    BY <1>2, <1>4, <2>1, <2>3
  <2>4. CASE run' = [run EXCEPT ![p].step = "read", ![p].id = Direct, ![p].intent = intent,
                                ![p].bill = bill]
    <3> HIDE DEF intent, bill
    <3>1. run' = [run EXCEPT ![p] = x] /\ run[p] \in Runs
      BY <1>3, <2>4
    <3>2. x.watch = run[p].watch /\ x.event = run[p].event
      BY <3>1 DEF Runs
    <3> HIDE DEF x
    <3>3. Keeps
      BY <2>1, <3>1, <3>2, FieldsNoise DEF OwnRun
    <3> QED BY <1>2, <2>1, <3>3
  <2> QED BY <2>2, <2>3, <2>4
<1>13. ASSUME NEW i \in Ids, Approve(i) \/ Reject(i) PROVE PageInv' /\ WakeInv' /\ Paging
  <2>1. Quiet /\ faults' = faults
    BY <1>13 DEF Approve, Reject, bounds
  <2>2. run'["tick"] = run["tick"]
    BY <1>3, <1>13 DEF Approve, Reject
  <2> QED BY <1>2, <1>4, <2>1, <2>2
<1>14. CASE BeginAgent \/ ListPending
  <2>1. Quiet /\ faults' = faults
    BY <1>14 DEF BeginAgent, ListPending, ghosts, bounds
  <2>2. run'["tick"] = run["tick"]
    BY <1>3, <1>14 DEF BeginAgent, ListPending
  <2> QED BY <1>2, <1>4, <2>1, <2>2
<1>15. CASE BeginTick
  BY <1>1, <1>15, BeginTickNoise DEF BeginTick, ghosts
<1>16. CASE Pass
  BY <1>1, <1>16, PassNoise DEF Pass, ghosts
<1>17. CASE Turn
  <2>1. paged'.count = paged.count
    BY <1>17 DEF Turn, PageInv
  <2> QED BY <1>17, <2>1, TurnNoise DEF Paging
<1>18. CASE Check
  BY <1>18, CheckNoise
<1>21. CASE SaveWatch
  BY <1>1, <1>21, SaveNoise DEF SaveWatch, ghosts
<1>19. CASE UNCHANGED vars
  <2>1. Quiet /\ faults' = faults /\ run' = run
    BY <1>19 DEF vars, ghosts, bounds
  <2> QED BY <1>2, <1>4, <2>1
<1>20. ASSUME NEW p \in Proc, Step(p) PROVE PageInv' /\ WakeInv' /\ Paging
  BY <1>5, <1>6, <1>7, <1>8, <1>9, <1>10, <1>18, <1>20, <1>21 DEF Step
<1> HIDE DEF Quiet
<1> QED BY <1>11, <1>12, <1>13, <1>14, <1>15, <1>16, <1>17, <1>19, <1>20 DEF Next

LEMMA InitNoise == Init => PageInv /\ WakeInv
<1> SUFFICES ASSUME Init PROVE PageInv /\ WakeInv
  OBVIOUS
<1>1. PageInv
  BY DEF Init, PageInv, Never
<1>2. run["tick"] = Off
  BY DEF Init, Proc
<1>3. wakes \in [1 .. Gameweek(MaxNow) -> Nat] /\ kills = 0 /\ faults = 0
      /\ \A e \in 1 .. Gameweek(MaxNow) : wakes[e] = 0
  BY DEF Init
<1> QED BY <1>1, <1>2, <1>3, OffTyped DEF WakeInv, OwnRun, Busy

\* The owner is not paged again for what he was told of, and the manager not woken again for
\* a gameweek it has dealt with (watch.py, should_alert and run_due).
THEOREM WatchIsQuiet == Spec => WatchWithoutNoise
<1> DEFINE Inv == TypeInv /\ PageInv /\ WakeInv
           A == /\ Paging
                /\ \A e \in DOMAIN wakes' : wakes'[e] <= 1 + kills' + faults'
<1>1. Init => Inv
  BY InitTyped, InitNoise
<1>2. Inv /\ [Next]_vars => Inv'
  BY NextKinds, NoiseNext
<1>3. Inv' => \A e \in DOMAIN wakes' : wakes'[e] <= 1 + kills' + faults'
  <2> SUFFICES ASSUME Inv', NEW e \in DOMAIN wakes' PROVE wakes'[e] <= 1 + kills' + faults'
    OBVIOUS
  <2>1. e \in 1 .. Gameweek(MaxNow) /\ wakes'[e] \in Nat
    BY DEF WakeInv
  <2>2. wakes'[e] <= kills' + faults' + IF Attended(e)' THEN 1 ELSE 0
    BY <2>1 DEF WakeInv
  <2>3. kills' \in Nat /\ faults' \in Nat
    BY BoundsTyped, SetupTyped DEF TypeInv, DataOK
  <2> QED BY <2>1, <2>2, <2>3
<1>4. Inv /\ [Next]_vars => A
  BY <1>2, <1>3, NoiseNext
<1> HIDE DEF Inv
<1> QED BY <1>1, <1>2, <1>4, PTL DEF Spec, WatchWithoutNoise, Paging
================================================================================
