----------------------------- MODULE FantasyPolicy -----------------------------
(***************************************************************************)
(* What may be done to a fantasy team unattended (fantasy/policy.py), what *)
(* a transfer costs (tools/fantasy.py), whether a write landed             *)
(* (fantasy/verify.py) and when the owner is paged (fantasy/watch.py).     *)
(***************************************************************************)
EXTENDS Integers, FiniteSets, Sequences

CONSTANTS
    Platforms,
    HardDeadline,   \* HARD_DEADLINE: platforms whose horizon counts down
    PerHit,         \* points a transfer beyond the free ones costs
    FreeTransfers,  \* transfers.limit
    Ladder,         \* LADDER: <<hours_left at most, re-alert no more often than>>
    QuietBeyond,    \* QUIET_BEYOND_HOURS
    CheckNear,      \* inside this many hours every tick checks the credential
    CheckEvery      \* CHECK_INTERVAL_HOURS

ASSUME FantasyAssumption ==
    /\ HardDeadline \subseteq Platforms
    /\ {PerHit, FreeTransfers, QuietBeyond, CheckNear, CheckEvery} \subseteq Nat
    /\ Ladder # <<>>
    /\ \A i \in DOMAIN Ladder : Ladder[i].within \in Nat /\ Ladder[i].cool \in Nat

Modes == {"auto", "auto_if_free", "ask", "never"}
Verdicts == {"act", "ask", "skip"}
Never == -1

\* A policy __post_init__ accepts: chips are never automatic.
PolicyOK(policy) ==
    /\ {policy.lineup, policy.transfers} \subseteq Modes
    /\ policy.chips \in {"ask", "never"}
    /\ policy.max_hit \in Nat /\ policy.act_within \in Nat

(***************************************************************************)
(* Decisions.  No tool passes actions_taken, so the ceiling on actions     *)
(* never binds and is not modelled.                                        *)
(***************************************************************************)
InQuiet(policy, now) == now \in policy.quiet

Gated(policy, mode, now, deadline) ==
    IF mode = "never" THEN "skip"
    ELSE IF mode = "ask" THEN "ask"
    ELSE IF deadline <= now THEN "skip"
    ELSE IF policy.platform \in HardDeadline /\ deadline - now > policy.act_within THEN "skip"
    ELSE IF InQuiet(policy, now) THEN "ask" ELSE "act"

ForLineup(policy, now, deadline) == Gated(policy, policy.lineup, now, deadline)

ForChip(policy) == IF policy.chips = "never" THEN "skip" ELSE "ask"

ForTransfer(policy, hit, now, deadline) ==
    IF policy.transfers = "never" THEN "skip"
    ELSE IF \/ policy.transfers = "ask"
            \/ policy.transfers = "auto_if_free" /\ hit > 0
            \/ hit > policy.max_hit
         THEN "ask" ELSE Gated(policy, "auto", now, deadline)

\* fpl_propose_lineup judges a lineup that carries a chip as a chip.
Decide(policy, intent, hit, now, deadline) ==
    IF intent.chip THEN ForChip(policy)
    ELSE IF intent.action = "lineup" THEN ForLineup(policy, now, deadline)
    ELSE ForTransfer(policy, hit, now, deadline)

\* _transfer_cost of one more transfer.
CostOfTheNext(platform, made) ==  \* mutant
    IF platform = "fpl" /\ made >= FreeTransfers + 1 THEN PerHit ELSE 0
Cost(platform, made) == IF platform = "fpl" /\ made >= FreeTransfers THEN PerHit ELSE 0

(***************************************************************************)
(* Reading back what was written.  A squad is a set of players; a read     *)
(* that failed gives the empty one.                                        *)
(***************************************************************************)
\* _moves: MFL's add/drop payload has neither `transfers` nor `items`, so its verifier
\* expects no move at all.
Expected(platform, intent) ==
    IF platform = "mfl" THEN [in |-> {}, out |-> {}] ELSE [in |-> {intent.in}, out |-> {intent.out}]

VerifyByArrival(platform, intent, before, after) ==  \* mutant
    Expected(platform, intent).out \intersect after = {}
VerifyTransfer(platform, intent, before, after) ==
    LET want == Expected(platform, intent)
        grown == Cardinality(after) - Cardinality(before)
    IN /\ want.in \subseteq after /\ want.out \intersect after = {}
       /\ after \ before \subseteq want.in
       /\ before \ after \subseteq want.out
       /\ grown = (IF platform = "fpl" THEN 0 ELSE Cardinality(want.in) - Cardinality(want.out))

\* MFL does not report who starts: there only membership is compared.
VerifyLineup(platform, intent, squad, order) ==
    /\ intent.players \subseteq squad
    /\ platform # "mfl" => squad = intent.players /\ order = intent.order

(***************************************************************************)
(* The watch.                                                              *)
(***************************************************************************)
RunDue(policy, event, hours, lastRun, now) ==
    /\ lastRun < event
    /\ 0 < hours /\ hours <= policy.act_within
    /\ ~InQuiet(policy, now)

DueForCheck(platform, hours, lastChecked, now) ==
    \/ platform \in HardDeadline /\ hours <= CheckNear
    \/ lastChecked = Never
    \/ now - lastChecked >= CheckEvery

\* The cooldown of the first rung that reaches as far as `hours`.
Cooldown(hours) ==
    LET rungs == {i \in DOMAIN Ladder : hours <= Ladder[i].within}
    IN IF rungs = {} THEN 1
       ELSE Ladder[CHOOSE i \in rungs : \A j \in rungs : i <= j].cool

ShouldAlertAgain(state, hours, lastAlert, lastSeen, now) ==  \* mutant
    /\ state \notin {"ok", "unknown"} /\ hours <= QuietBeyond
ShouldAlert(state, hours, lastAlert, lastSeen, now) ==
    /\ state \notin {"ok", "unknown"}
    /\ hours <= QuietBeyond
    /\ \/ lastSeen \notin {"", state}
       \/ lastAlert = Never
       \/ now - lastAlert >= Cooldown(hours)
=============================================================================
