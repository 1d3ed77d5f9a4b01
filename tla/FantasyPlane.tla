------------------------------ MODULE FantasyPlane ------------------------------
(***************************************************************************)
(* Proposals for a fantasy team, the owner's word on them, and the writes  *)
(* (fantasy/approvals.py, execute.py, watch.py, the CLI's fantasy commands *)
(* and the two tools of tools/fantasy.py).                                 *)
(*                                                                         *)
(* A process is a watch tick, an `approve` that goes on to execute, or an  *)
(* agent somebody runs by hand.  The store is a file that is loaded and    *)
(* rewritten whole.  A command that loads and saves without waiting in     *)
(* between is one step here; a drain keeps its copy while it waits for the *)
(* provider, and `mem` is that copy.                                       *)
(***************************************************************************)
EXTENDS FantasyPolicy, FiniteSetsExt

CONSTANTS
    Player, Squad0, Orders,
    Setups,     \* policy, intents, which commands are used, and how much may go wrong
    GameweekLength,
    EspnHorizon,        \* DEFAULT_HORIZON_HOURS
    UnknownHorizon,     \* UNKNOWN_HORIZON_HOURS
    MaxProposals, MaxNow   \* bounds

\* The watch tick, an owner's `approve` and what it goes on to execute, an agent run by hand.
Proc == {"tick", "approve", "agent"}
Ids == 1 .. MaxProposals
Direct == 0     \* a write the policy allows, without a proposal
Unmade == [state |-> "none"]
States == {"pending", "approved", "rejected", "expired", "executed", "failed"}

\* A LineupIntent or a TransferIntent.
Intents ==
    [action : {"lineup"}, order : Orders, players : SUBSET Player, chip : BOOLEAN]
    \union [action : {"transfer"}, out : Player, in : Player, chip : BOOLEAN]

ASSUME PlaneAssumption ==
    /\ IsFiniteSet(Player) /\ Squad0 \subseteq Player /\ Orders \subseteq Nat /\ Orders # {}
    /\ GameweekLength \in Nat \ {0} /\ {EspnHorizon, UnknownHorizon} \subseteq Nat
    /\ {MaxProposals, MaxNow} \subseteq Nat
    /\ \A s \in Setups :
        /\ PolicyOK(s.policy) /\ s.policy.platform \in Platforms
        /\ s.intents \subseteq Intents /\ s.commands \subseteq Proc \union {"reject"}
        /\ s.until \in 0 .. MaxNow /\ {s.acts, s.kills, s.faults} \subseteq Nat
        /\ s.serial \in BOOLEAN /\ s.dark \in BOOLEAN

VARIABLES
    setup, clock,
    store,      \* the proposals file
    team,       \* the provider: squad, order, transfers made this gameweek and in all
    cred,       \* the credential: ok or expired
    watch,      \* the watch file: last_alert_at, last_alerted_credential, last_checked_at, last_run_event
    run,        \* run[p]: the process in slot p
    yes, no,    \* approvals and rejections of the owner, each while it could be honoured
    sends,      \* how often each proposal was sent to the provider
    done,       \* the teams there really were: squad and order
    landed,     \* proposals whose own write really happened
    hurt,       \* proposals with a lost read, a lost answer or a killed drain
    asked,      \* how many proposals were ever made
    paged,      \* the owner's last page, and whether there was news since
    wakes,      \* agent runs the watch started, per gameweek
    kills, faults, overlaps, acts

config == <<setup>>
ghosts == <<yes, no, sends, done, landed, hurt, asked, paged, wakes>>
bounds == <<kills, faults, overlaps, acts>>
vars == <<config, clock, store, team, cred, watch, run, ghosts, bounds>>

Policy == setup.policy
Platform == Policy.platform
Gameweek(t) == t \div GameweekLength + 1
\* _horizon: FPL and MFL have a next deadline, ESPN a rolling one.
Deadline(t) == IF Platform = "espn" THEN t + EspnHorizon ELSE Gameweek(t) * GameweekLength

NoRead == {}
Off == [step |-> "off", mem |-> <<>>, queue |-> {}, id |-> Direct,
        intent |-> <<>>, before |-> NoRead, reply |-> "", loaded |-> 0,
        bill |-> [cost |-> 0, count |-> 0], at |-> 0, event |-> 0, watch |-> <<>>]
NoWatch == [lastAlert |-> Never, lastSeen |-> "", lastChecked |-> Never, lastRun |-> 0]

Init ==
    /\ setup \in Setups /\ clock = 0
    /\ store = [i \in Ids |-> Unmade]
    /\ team = [squad |-> Squad0, order |-> Min(Orders), made |-> 0, count |-> 0]
    /\ cred = "ok" /\ watch = NoWatch
    /\ run = [p \in Proc |-> Off]
    /\ yes = {} /\ no = {} /\ landed = {} /\ hurt = {}
    /\ sends = [i \in Ids |-> 0]
    /\ done = {<<Squad0, Min(Orders)>>}
    /\ asked = 0 /\ paged = [at |-> Never, count |-> 0, news |-> TRUE]
    /\ wakes = [e \in 1 .. Gameweek(MaxNow) |-> 0]
    /\ kills = 0 /\ faults = 0 /\ overlaps = 0 /\ acts = 0

(***************************************************************************)
(* The store.                                                              *)
(***************************************************************************)
In(file, s) == {i \in Ids : file[i].state = s}
Lapsed(file, s) == {i \in In(file, s) : clock >= file[i].expires}
Set(file, is, s) == [i \in Ids |-> IF i \in is THEN [file[i] EXCEPT !.state = s] ELSE file[i]]

\* pending() and approved(): expiry is applied, and saved, when the list is read.
Expire(file, s) == Set(file, Lapsed(file, s), "expired")
Approved(file) == In(file, "approved")

NewProposal(intent, cost) ==
    [state |-> "pending", intent |-> intent, expires |-> Deadline(clock), cost |-> cost,
     count |-> team.count]

Saved(s) == store' = s

(***************************************************************************)
(* The owner's commands.                                                   *)
(***************************************************************************)
Writing(p) == run[p].step \in {"read", "send", "answer"}
Copies == {p \in Proc : Writing(p) /\ run[p].id # Direct}
Free(p) == p \in setup.commands /\ run[p] = Off
           /\ (setup.serial => \A q \in Proc : run[q] = Off)
\* A write begun beside another: their readings of the squad cross.
Crosses == overlaps' = IF \E q \in Proc : Writing(q) THEN overlaps + 1 ELSE overlaps

\* Store.approve, then drain_approved(only=id) in the same command.
ApproveAnything(i) ==  \* mutant
    /\ Free("approve")
    /\ store[i].state # "none"
    /\ Saved(Set(store, {i}, "approved")) /\ yes' = yes \union {i}
    /\ run' = [run EXCEPT !["approve"] = [Off EXCEPT !.step = "drain", !.id = i]]
    /\ UNCHANGED <<config, clock, team, cred, watch, no, sends, done, landed, hurt, asked, paged, wakes, bounds>>
Approve(i) ==
    /\ Free("approve")
    /\ store[i].state = "pending"
    /\ IF clock >= store[i].expires
       THEN Saved(Set(store, {i}, "expired")) /\ UNCHANGED <<yes, run>>
       ELSE /\ Saved(Set(store, {i}, "approved")) /\ yes' = yes \union {i}
            /\ run' = [run EXCEPT !["approve"] = [Off EXCEPT !.step = "drain", !.id = i]]
    /\ UNCHANGED <<config, clock, team, cred, watch, no, sends, done, landed, hurt, asked, paged, wakes, bounds>>

\* Store.reject looks at no state.  `no` keeps the rejections nobody's copy can undo.
Reject(i) ==
    /\ "reject" \in setup.commands
    /\ store[i].state \notin {"none", "rejected"}
    /\ Saved(Set(store, {i}, "rejected"))
    /\ no' = IF Copies = {} THEN no \union {i} ELSE no
    /\ UNCHANGED <<config, clock, team, cred, watch, run, yes, sends, done, landed, hurt, asked, paged, wakes, bounds>>

ListPending ==
    /\ Lapsed(store, "pending") # {}
    /\ Saved(Expire(store, "pending"))
    /\ UNCHANGED <<config, clock, team, cred, watch, run, ghosts, bounds>>

(***************************************************************************)
(* Draining what was approved.                                             *)
(***************************************************************************)
\* On to the oldest of the batch, or to what the command does after it.
NextItem(p, r) ==
    IF r.queue # {}
    THEN LET i == Min(r.queue)
             next == r.mem[i] IN
         [r EXCEPT !.step = "read", !.id = i, !.queue = @ \ {i},
                   !.intent = next.intent, !.before = NoRead, !.reply = "",
                   !.bill = [cost |-> next.cost, count |-> next.count]]
    ELSE IF p = "tick" THEN [Off EXCEPT !.step = "check", !.at = r.at, !.watch = r.watch]
    ELSE Off

AfterDirect(r) ==
    [Off EXCEPT !.step = "agent", !.at = r.at, !.watch = r.watch, !.event = r.event]

\* drain_approved: the command that approved drains its own proposal only.
BatchOfTheOwner(p, file) ==  \* mutant
    IF p = "approve" THEN Approved(file) \intersect {run[p].id} ELSE {}
Batch(p, file) == IF p = "approve" THEN Approved(file) \intersect {run[p].id} ELSE Approved(file)

LoadApproved(p) ==
    LET file == Expire(store, "approved")
        batch == Batch(p, file)
    IN /\ run[p].step = "drain"
       /\ Saved(file)
       /\ run' = [run EXCEPT ![p] = NextItem(p, [@ EXCEPT !.mem = file, !.loaded = clock,
                                                        !.queue = batch])]
       /\ IF batch = {} THEN UNCHANGED overlaps ELSE Crosses
       /\ UNCHANGED <<config, clock, team, cred, watch, ghosts, kills, faults, acts>>

CanFail(n) == faults + n <= setup.faults /\ faults' = faults + n
Hurts(i, n) == hurt' = IF n > 0 /\ i # Direct THEN hurt \union {i} ELSE hurt

\* _read_squad gives the empty list when the read fails.
ReadBefore(p) ==
    /\ run[p].step = "read"
    /\ \E n \in {0, 1} :
        /\ CanFail(n) /\ Hurts(run[p].id, n)
        /\ run' = [run EXCEPT ![p].step = "send",
                              ![p].before = IF n = 0 THEN team.squad ELSE NoRead]
    /\ UNCHANGED <<config, clock, store, team, cred, watch, yes, no, sends, done, landed, asked, paged, wakes,
                   kills, overlaps, acts>>

(* The provider (external): it refuses what does not fit the team, and it may take a
   write and lose the answer, answer and do nothing, or do another move than asked. *)
Fits(i) == IF i.action = "lineup" THEN i.players = team.squad
           ELSE i.out \in team.squad /\ i.in \notin team.squad
MoveBy(i) == [team EXCEPT !.squad = (@ \ {i.out}) \union {i.in}, !.made = @ + 1, !.count = @ + 1]
Charge == IF Platform = "fpl" /\ team.made >= FreeTransfers THEN PerHit ELSE 0
Applied(i) == IF i.action = "lineup" THEN [team EXCEPT !.order = i.order] ELSE MoveBy(i)
Stray(i) == {MoveBy([i EXCEPT !.in = x]) : x \in Player \ (team.squad \union {i.in})}

Effects(i) ==
    {[team |-> team, reply |-> "raised", n |-> IF Fits(i) THEN 1 ELSE 0],
     [team |-> team, reply |-> "ok", n |-> 1]}
    \union (IF Fits(i) THEN {[team |-> Applied(i), reply |-> "ok", n |-> 0],
                             [team |-> Applied(i), reply |-> "raised", n |-> 1]} ELSE {})
    \union (IF Fits(i) /\ i.action = "transfer"
            THEN {[team |-> t, reply |-> "ok", n |-> 1] : t \in Stray(i)} ELSE {})

Send(p) ==
    LET r == run[p] IN
    /\ r.step = "send"
    /\ \E e \in Effects(r.intent) :
        /\ CanFail(e.n) /\ Hurts(r.id, e.n)
        /\ team' = e.team
        /\ done' = done \union {<<e.team.squad, e.team.order>>}
        /\ landed' = IF e.team = Applied(r.intent) /\ Fits(r.intent) /\ r.id # Direct
                     THEN landed \union {r.id} ELSE landed
        /\ run' = [run EXCEPT ![p].step = "answer", ![p].reply = e.reply]
    /\ sends' = IF r.id = Direct THEN sends ELSE [sends EXCEPT ![r.id] = @ + 1]
    /\ UNCHANGED <<config, clock, store, cred, watch, yes, no, asked, paged, wakes, kills, overlaps, acts>>

\* record_outcome saves the copy the batch was loaded into; a direct write has no record.
Record(p, ok) ==
    IF run[p].id = Direct
    THEN run' = [run EXCEPT ![p] = AfterDirect(@)] /\ UNCHANGED store
    ELSE LET file == Set(run[p].mem, {run[p].id}, IF ok THEN "executed" ELSE "failed")
         IN Saved(file) /\ run' = [run EXCEPT ![p] = NextItem(p, [@ EXCEPT !.mem = file])]

\* A write that raised is recorded as failed and not tried again.
RaisedRetrying(p) ==  \* mutant
    /\ run[p].step = "answer" /\ run[p].reply = "raised"
    /\ run' = [run EXCEPT ![p].step = "send"]
    /\ UNCHANGED <<config, clock, store, team, cred, watch, ghosts, bounds>>
Raised(p) ==
    /\ run[p].step = "answer" /\ run[p].reply = "raised"
    /\ Record(p, FALSE)
    /\ UNCHANGED <<config, clock, team, cred, watch, ghosts, bounds>>

\* The squad is read back and compared; escalate() pages before the outcome is recorded.
ReadAfter(p) ==
    LET r == run[p] IN
    /\ r.step = "answer" /\ r.reply = "ok"
    /\ \E n \in {0, 1} :
        LET squad == IF n = 0 THEN team.squad ELSE NoRead
            ok == IF r.intent.action = "lineup"
                  THEN VerifyLineup(Platform, r.intent, squad, team.order)
                  ELSE VerifyTransfer(Platform, r.intent, r.before, squad)
        IN CanFail(n) /\ Hurts(r.id, n) /\ Record(p, ok)
    /\ UNCHANGED <<config, clock, team, cred, watch, yes, no, sends, done, landed, asked, paged, wakes,
                   kills, overlaps, acts>>

(***************************************************************************)
(* The agent and its tools.                                                *)
(***************************************************************************)
BeginAgent ==
    /\ Free("agent") /\ acts < setup.acts
    /\ run' = [run EXCEPT !["agent"].step = "agent"]
    /\ UNCHANGED <<config, clock, store, team, cred, watch, ghosts, bounds>>

\* A line-up names the squad the agent has seen.
Filled(i) == IF i.action = "lineup" THEN [i EXCEPT !.players = team.squad] ELSE i

\* fpl_propose_lineup, fpl_propose_transfer and run_intent: the deadline and the bill are
\* the provider's, the decision the policy's.  What is asked is saved and the owner told.
Propose(p, raw) ==
    LET intent == Filled(raw)
        cost == IF intent.action = "transfer" THEN Cost(Platform, team.made) ELSE 0
        verdict == Decide(Policy, intent, cost, clock, Deadline(clock))
    IN /\ run[p].step = "agent" /\ acts < setup.acts /\ acts' = acts + 1
       /\ \/ /\ verdict = "ask" /\ asked < MaxProposals
             /\ asked' = asked + 1
             /\ Saved([store EXCEPT ![asked'] = NewProposal(intent, cost)])
             /\ UNCHANGED <<run, overlaps>>
          \/ /\ verdict = "act"
             /\ run' = [run EXCEPT ![p].step = "read", ![p].id = Direct, ![p].intent = intent,
                                   ![p].bill = [cost |-> Policy.max_hit, count |-> team.count]]
             /\ Crosses
             /\ UNCHANGED <<store, asked>>
       /\ UNCHANGED <<config, clock, team, cred, watch, yes, no, sends, done, landed, hurt, paged,
                      wakes, kills, faults>>

\* The run ends, well or not; the watch stamps the gameweek only when it ended well.
AgentEnds(p) ==
    LET r == run[p] IN
    /\ r.step = "agent"
    /\ \E n \in {0, 1} :
        /\ CanFail(n) /\ (p # "tick" => n = 0)
        /\ run' = [run EXCEPT ![p] = Off]
        /\ watch' = IF p = "tick"
                    THEN [r.watch EXCEPT !.lastRun = IF n = 0 THEN r.event ELSE @] ELSE watch
    /\ UNCHANGED <<config, clock, store, team, cred, ghosts, kills, overlaps, acts>>

(***************************************************************************)
(* The watch tick.  One runs at a time (the conductor's job lock).         *)
(***************************************************************************)
BeginTick ==
    /\ Free("tick")
    /\ run' = [run EXCEPT !["tick"] = [@ EXCEPT !.step = "drain", !.at = clock, !.watch = watch]]
    /\ UNCHANGED <<config, clock, store, team, cred, watch, ghosts, bounds>>

\* What the watch file says after a check in `state`.
Seen(w, at, state, alert) ==
    [w EXCEPT !.lastChecked = at, !.lastSeen = state, !.lastAlert = IF alert THEN at ELSE @]

\* The horizon may be unknown; the credential is checked all the same.  A check that
\* fails says nothing of the credential.
Checks(r, blind, dark) ==
    LET hours == IF blind = 1 THEN UnknownHorizon ELSE Deadline(clock) - r.at
        due == DueForCheck(Platform, hours, r.watch.lastChecked, r.at)
        state == IF dark = 1 THEN "unknown" ELSE cred
        alert == due /\ ShouldAlert(state, hours, r.watch.lastAlert, r.watch.lastSeen, r.at)
        w == IF due THEN Seen(r.watch, r.at, state, alert) ELSE r.watch
        stops == (due /\ state # "ok") \/ blind = 1
                 \/ ~RunDue(Policy, Gameweek(clock), hours, w.lastRun, r.at)
    IN /\ CanFail(blind + dark) /\ (~due => dark = 0) /\ (blind + dark > 0 => setup.dark)
       /\ paged' = IF alert THEN [at |-> r.at, count |-> paged.count + 1, news |-> FALSE]
                   ELSE [paged EXCEPT !.news = @ \/ state = "unknown"]
       /\ \/ /\ alert /\ UNCHANGED <<watch, wakes>>
             /\ run' = [run EXCEPT !["tick"].step = "save", !["tick"].watch = w]
          \/ /\ ~alert /\ stops /\ watch' = w /\ run' = [run EXCEPT !["tick"] = Off]
             /\ UNCHANGED wakes
          \/ /\ ~stops /\ UNCHANGED watch
             /\ run' = [run EXCEPT !["tick"].step = "agent", !["tick"].watch = w,
                                   !["tick"].event = Gameweek(clock)]
             /\ wakes' = [wakes EXCEPT ![Gameweek(clock)] = @ + 1]
Check ==
    /\ run["tick"].step = "check"
    /\ \E blind, dark \in {0, 1} : Checks(run["tick"], blind, dark)
    /\ UNCHANGED <<config, clock, store, team, cred, yes, no, sends, done, landed, hurt, asked,
                   kills, overlaps, acts>>

\* The page went out, and what it told of is written to the file.
SaveWatch ==
    /\ run["tick"].step = "save"
    /\ watch' = run["tick"].watch /\ run' = [run EXCEPT !["tick"] = Off]
    /\ UNCHANGED <<config, clock, store, team, cred, ghosts, bounds>>

(***************************************************************************)
(* The environment.                                                        *)
(***************************************************************************)
Pass ==
    /\ clock < setup.until /\ clock' = clock + 1
    /\ team' = IF Gameweek(clock') # Gameweek(clock) THEN [team EXCEPT !.made = 0] ELSE team
    /\ UNCHANGED <<config, store, cred, watch, run, ghosts, bounds>>

\* The session expires, or the owner connects again.
Turn ==
    /\ setup.dark /\ CanFail(1)
    /\ cred' = IF cred = "ok" THEN "expired" ELSE "ok"
    /\ paged' = [paged EXCEPT !.news = TRUE]
    /\ UNCHANGED <<config, clock, store, team, watch, run, yes, no, sends, done, landed, hurt, asked,
                   wakes, kills, overlaps, acts>>

\* The job is killed at its timeout, or the command is.  An agent the watch had woken is a
\* child that may live on.  A page that is not in the file is forgotten.
Kill(p) ==
    /\ run[p] # Off /\ kills < setup.kills /\ kills' = kills + 1
    /\ \/ run' = [run EXCEPT ![p] = Off]
       \/ /\ p = "tick" /\ run[p].event > 0 /\ run["agent"] = Off
          /\ run' = [run EXCEPT !["tick"] = Off, !["agent"] = run["tick"]]
    /\ Hurts(IF Writing(p) THEN run[p].id ELSE Direct, 1)
    /\ paged' = [paged EXCEPT !.news = @ \/ run[p].step = "save"]
    /\ UNCHANGED <<config, clock, store, team, cred, watch, yes, no, sends, done, landed, asked, wakes,
                   faults, overlaps, acts>>

Step(p) ==
    \/ LoadApproved(p) \/ ReadBefore(p) \/ Send(p) \/ Raised(p) \/ ReadAfter(p)
    \/ AgentEnds(p) \/ (p = "tick" /\ (Check \/ SaveWatch))

Next ==
    \/ \E p \in Proc : Step(p) \/ Kill(p) \/ \E i \in setup.intents : Propose(p, i)
    \/ \E i \in Ids : Approve(i) \/ Reject(i)
    \/ BeginTick \/ BeginAgent \/ ListPending \/ Pass \/ Turn

Spec == Init /\ [][Next]_vars
FairSpec == Spec /\ SF_vars(BeginTick) /\ \A p \in Proc : WF_vars(Step(p))

(***************************************************************************)
(* Properties.                                                             *)
(***************************************************************************)
Files == [Ids -> {Unmade} \union [state : States, intent : Intents, expires : Int, cost : Nat, count : Nat]]
Steps == {"off", "drain", "read", "send", "answer", "check", "save", "agent"}
Creds == {"", "ok", "expired", "unknown"}
Watches == [lastAlert : Int, lastSeen : Creds, lastChecked : Int, lastRun : Int]
Runs == [step : Steps, mem : Files \union {<<>>}, queue : SUBSET Ids, id : Ids \union {Direct},
         intent : Intents \union {<<>>}, before : SUBSET Player, reply : {"", "ok", "raised"},
         loaded : Nat, bill : [cost : Nat, count : Nat], at : Nat, event : Int,
         watch : Watches \union {<<>>}]

\* Every variable keeps its type: a batch only holds proposals that were made, a squad
\* keeps its size, and no process is ahead of the clock.
TypeOK ==
    /\ setup \in Setups /\ clock \in 0 .. MaxNow /\ asked \in 0 .. MaxProposals
    /\ store \in Files /\ \A i \in Ids : i > asked => store[i] = Unmade
    /\ team \in [squad : SUBSET Player, order : Orders, made : Nat, count : Nat]
    /\ Cardinality(team.squad) = Cardinality(Squad0) /\ team.made <= team.count
    /\ cred \in Creds /\ watch \in Watches
    /\ run \in [Proc -> Runs] /\ \A p \in Proc : run[p].loaded <= clock
    /\ {yes, no, landed, hurt} \subseteq SUBSET Ids /\ sends \in [Ids -> Nat]
    /\ kills \in 0 .. setup.kills /\ faults \in 0 .. setup.faults /\ overlaps \in Nat

Sends(p) == run[p].step = "send" /\ run'[p].step = "answer"

\* Nothing is sent to the provider but what the owner approved while the proposal was in
\* force, in a batch loaded while it still was, and has not refused for good, or what the
\* policy makes automatic; and never a chip of the agent's own accord.
OnlyWithConsent ==
    [][\A p \in Proc : Sends(p) =>
          LET r == run[p] IN
          IF r.id # Direct
          THEN r.id \in yes \ no /\ r.loaded < r.mem[r.id].expires
          ELSE /\ ~r.intent.chip
               /\ "ask" # IF r.intent.action = "lineup" THEN Policy.lineup ELSE Policy.transfers]_vars

\* A transfer costs more than the owner was told, or than max_hit when nobody was asked,
\* only if another one went through after the bill was drawn up.
NoSurpriseBill ==
    [][\A p \in Proc : (Sends(p) /\ team'.made # team.made /\ team.count = run[p].bill.count)
          => Charge <= run[p].bill.cost]_vars

\* A proposal is sent once, and once more at most for each command that was killed and each
\* pair of drains that overlapped.
SentOnce == \A i \in Ids : sends[i] <= 1 + kills + overlaps

\* What the store says of a proposal is what happened to the team: "executed" the team once
\* was, whatever overlapped; and as long as drains do not overlap what a proposal's write did
\* is "executed", unless a read, an answer or the command itself was lost.  Excepted is the
\* platform whose payload cannot be compared.
Was(i, t) == IF i.action = "lineup" THEN t = <<i.players, i.order>> ELSE i.in \in t[1] /\ i.out \notin t[1]
InHand == {run[p].id : p \in {p \in Proc : Writing(p)}}
FateIsTrue ==
    TypeOK /\ (Platform # "mfl" =>
        \A i \in Ids :
            /\ store[i].state = "executed" => \E t \in done : Was(store[i].intent, t)
            /\ overlaps = 0 /\ i \in landed \ (hurt \union InHand) =>
                   store[i].state \in {"executed", "rejected"})

\* The owner is paged again only when something changed or a check failed since the last page,
\* or the tick that sent it was killed before the file said so, or the cooldown of the time left
\* is over; and the manager is woken once per gameweek, and again only after a run that failed
\* or a tick that was killed.
WatchWithoutNoise ==
    [][/\ paged'.count # paged.count =>
             \/ paged.news
             \/ paged'.at - paged.at >= Cooldown(Deadline(clock) - paged'.at)
             \/ paged'.at - paged.at >= Cooldown(UnknownHorizon)
       /\ \A e \in DOMAIN wakes' : wakes'[e] <= 1 + kills' + faults']_vars

\* As long as ticks come, no approval waits for ever.
ApprovalsAreSettled ==
    \A i \in Ids : store[i].state = "approved" ~> store[i].state # "approved"
=============================================================================
