------------------------------- MODULE AgentPlane -------------------------------
(***************************************************************************)
(* Agent runs and what they may spend: the loop of agents/harness.py with  *)
(* its limits, delegation to a sub-agent (agents/runtime.py), the calls    *)
(* per provider (mcp/manager.py), the budget of the period that every      *)
(* model call is checked against (operations/budget_guard.py,              *)
(* models/gateway.py), and the rows the budget is summed from              *)
(* (observability/recorder.py, operations/costs.py).                       *)
(*                                                                         *)
(* A run is a stack of frames: the root agent, and the delegate it waits   *)
(* for.  Runs of one process share its guard and interleave where they     *)
(* await; processes share the rows.                                        *)
(***************************************************************************)
EXTENDS Integers, Sequences, FiniteSets, SequencesExt, Totals

CONSTANTS
    Proc, Run, Provider,
    Setups,         \* cap_usd, the dearest call, where runs live, their answers, what may go wrong
    Ceiling,        \* per_run_usd
    MaxSteps, MaxToolCalls,
    PerProvider,    \* max_calls_per_provider
    Repeats, MaxPeriod,             \* NO_PROGRESS_REPEATS, NO_PROGRESS_MAX_PERIOD
    ParseRetries, VerifyRetries,
    MaxDay          \* bound

Day == 0 .. MaxDay
NoDay == -1

Tool == [sig : Nat, kind : {"data", "found", "native", "delegate"}, provider : Provider]
Reply == [calls : Seq(Tool), flaws : SUBSET {"full", "form", "facts"}]

ASSUME AgentAssumption ==
    /\ Ceiling \in Nat \ {0} /\ Repeats \in Nat \ {0} /\ MaxPeriod \in Nat \ {0}
    /\ MaxSteps \in Nat /\ MaxToolCalls \in Nat /\ PerProvider \in Nat
    /\ ParseRetries \in Nat /\ VerifyRetries \in Nat /\ MaxDay \in Nat
    /\ IsFiniteSet(Run)
    /\ \A s \in Setups :
        /\ s.home \in [Run -> Proc] /\ s.until \in Day
        /\ s.cap \in Nat \ {0} /\ s.dear \in Nat \ {0}
        /\ s.answers \in [{"root", "delegate"} -> SUBSET Reply]

VARIABLES
    setup, day,
    run,        \* run[r]: the step it waits at, its frames, its budget and its poll budget
    guard,      \* guard[p]: PeriodBudgetGuard
    committed,  \* committed[d]: cost_usd over the rows created since day d began
    bill,       \* what the team of run r was charged for
    spent,      \* spent[p][d]: charged for calls that process p let through under day d
    calls,      \* calls[r][v]: requests the team of run r really made to provider v
    account,    \* all that was charged; and what a delegate was, once for each caller above it
    mishaps     \* processes killed, rows whose write was lost, and failures left

ghosts == <<bill, spent, calls, account>>
vars == <<setup, day, run, guard, committed, ghosts, mishaps>>

Home(r) == setup.home[r]
Off == [step |-> "off", frames |-> <<>>, spent |-> 0, polls |-> [v \in Provider |-> 0],
        day |-> NoDay, rolled |-> FALSE]
Done == [Off EXCEPT !.step = "done"]
NewGuard == [window |-> NoDay, baseline |-> 0, tally |-> 0]

Init ==
    /\ setup \in Setups /\ day = 0
    /\ run = [r \in Run |-> Off]
    /\ guard = [p \in Proc |-> NewGuard]
    /\ committed = [d \in Day |-> 0]
    /\ bill = [r \in Run |-> 0]
    /\ spent = [p \in Proc |-> [d \in Day |-> 0]]
    /\ calls = [r \in Run |-> [v \in Provider |-> 0]]
    /\ account = [charged |-> 0, delegated |-> 0]
    /\ mishaps = [killed |-> 0, lost |-> 0, faults |-> 0]

(***************************************************************************)
(* Frames.                                                                 *)
(***************************************************************************)
At(r, step) == run[r].step = step
Frame(r) == run[r].frames[Len(run[r].frames)]
WithFrame(r, f) == [run[r].frames EXCEPT ![Len(run[r].frames)] = f]
GoTo(r, step) == run' = [run EXCEPT ![r].step = step]
MayFail(n) ==
    /\ mishaps.faults + n <= setup.faults
    /\ mishaps' = [mishaps EXCEPT !.faults = @ + n]

NewFrame(before) ==
    [steps |-> 0, calls |-> 0, parse |-> 0, verify |-> 0, sigs |-> <<>>, batch |-> <<>>,
     before |-> before, row |-> NoDay]

\* A delegate charges its caller's budget, for the model and for each provider.
SpentOnEntryAfresh(r) == 0      \* mutant
SpentOnEntry(r) == IF run[r].frames = <<>> THEN 0 ELSE run[r].spent
PollsOnEntryAfresh(r) == [v \in Provider |-> 0]     \* mutant
PollsOnEntry(r) == IF run[r].frames = <<>> THEN [v \in Provider |-> 0] ELSE run[r].polls

Enter(r, callers) ==
    run' = [run EXCEPT ![r] = [@ EXCEPT !.step = "open", !.spent = SpentOnEntry(r),
                                       !.polls = PollsOnEntry(r),
                                       !.frames = Append(callers, NewFrame(SpentOnEntry(r)))]]

\* A request opens a run.
Begin(r) ==
    /\ At(r, "off") /\ r \in setup.runs
    /\ Enter(r, <<>>)
    /\ UNCHANGED <<setup, day, guard, committed, ghosts, mishaps>>

\* on_run_start commits the row; when it fails the run goes on without.
RecordStart(r) ==
    /\ At(r, "open")
    /\ \E n \in {0, 1} :
        /\ MayFail(n)
        /\ run' = [run EXCEPT ![r].step = "top",
                              ![r].frames = WithFrame(r, [Frame(r) EXCEPT !.row = IF n = 0 THEN day ELSE NoDay])]
    /\ UNCHANGED <<setup, day, guard, committed, ghosts>>

(***************************************************************************)
(* One turn of the loop.                                                   *)
(***************************************************************************)

\* The limits, before anything is spent.  Whether the deadline has passed is left open.
Halt(r) ==
    /\ At(r, "top")
    /\ GoTo(r, "close")
    /\ UNCHANGED <<setup, day, guard, committed, ghosts, mishaps>>

\* Then precheck, up to the reading of the rows: at the first call in a period the window
\* moves and the tally starts again.
Precheck(r) ==
    LET rolled == guard[Home(r)].window # day IN
    /\ At(r, "top")
    /\ Frame(r).steps < MaxSteps /\ run[r].spent < Ceiling
    /\ run' = [run EXCEPT ![r].step = "read", ![r].day = day, ![r].rolled = rolled,
                          ![r].frames = WithFrame(r, [Frame(r) EXCEPT !.steps = @ + 1])]
    /\ guard' = IF rolled THEN [guard EXCEPT ![Home(r)].window = day, ![Home(r)].tally = 0] ELSE guard
    /\ UNCHANGED <<setup, day, committed, ghosts, mishaps>>

\* The higher of the process's own view and the rows.
PeriodSpentByRows(g, rows) == rows      \* mutant
PeriodSpent(g, rows) == IF g.baseline + g.tally > rows THEN g.baseline + g.tally ELSE rows

\* The rows since the day the check began are read, or the read fails and the baseline of before stands in for them.
ReadPeriod(r) ==
    LET p == Home(r) IN
    /\ At(r, "read")
    /\ \E n \in {0, 1} :
        LET rows == IF n = 0 THEN committed[run[r].day] ELSE guard[p].baseline
            g == IF n = 0 /\ run[r].rolled THEN [guard[p] EXCEPT !.baseline = rows] ELSE guard[p]
        IN /\ MayFail(n)
           /\ guard' = [guard EXCEPT ![p] = g]
           /\ GoTo(r, IF PeriodSpent(g, rows) >= setup.cap THEN "close" ELSE "call")
    /\ UNCHANGED <<setup, day, committed, ghosts>>

\* Where an answer leads: out when the window is full and the agent does not compact, on to
\* the tools it asks for, round again while a flaw in form or facts may still be mended.
AfterAnswer(f, a) ==
    CASE "full" \in a.flaws -> [step |-> "close", frame |-> f]
      [] "full" \notin a.flaws /\ a.calls # <<>> -> [step |-> "act", frame |-> [f EXCEPT !.batch = a.calls]]
      [] OTHER ->
            IF "form" \in a.flaws /\ f.parse < ParseRetries
            THEN [step |-> "top", frame |-> [f EXCEPT !.parse = @ + 1]]
            ELSE IF "facts" \in a.flaws /\ f.verify < VerifyRetries
            THEN [step |-> "top", frame |-> [f EXCEPT !.verify = @ + 1]]
            ELSE [step |-> "close", frame |-> f]

\* The model answers, from the primary or the fallback; both budgets are charged.
Answer(r) ==
    LET p == Home(r)
        role == IF Len(run[r].frames) = 1 THEN "root" ELSE "delegate"
    IN
    /\ At(r, "call")
    /\ \E a \in setup.answers[role], cost \in 0 .. setup.dear :
        LET next == AfterAnswer(Frame(r), a) IN
        /\ run' = [run EXCEPT ![r].step = next.step, ![r].spent = @ + cost,
                              ![r].frames = WithFrame(r, next.frame)]
        /\ guard' = [guard EXCEPT ![p].tally = @ + cost]
        /\ bill' = [bill EXCEPT ![r] = @ + cost]
        /\ spent' = [spent EXCEPT ![p][run[r].day] = @ + cost]
        /\ account' = [charged |-> account.charged + cost,
                       delegated |-> account.delegated + (Len(run[r].frames) - 1) * cost]
    /\ UNCHANGED <<setup, day, committed, calls, mishaps>>

\* Neither model answers: the run crashes, and says so in its row.
CallFails(r) ==
    /\ At(r, "call") /\ MayFail(1)
    /\ GoTo(r, "close")
    /\ UNCHANGED <<setup, day, guard, committed, ghosts>>

(***************************************************************************)
(* Tools.                                                                  *)
(***************************************************************************)

\* is_thrashing: the tail is one cycle of at most MaxPeriod calls, Repeats times over.
IsThrashing(sigs) ==
    \E period \in 1 .. MaxPeriod :
        /\ period * Repeats <= Len(sigs)
        /\ \A i \in Len(sigs) - period * Repeats + 1 .. Len(sigs) - period :
               sigs[i] = sigs[i + period]

\* A tool bound to a denied provider is refused; one reached by call_data_tool is not seen
\* to be.  call_tool charges the poll budget, and a request over it is not made.
Denied(r, tool) == tool.kind = "data" /\ tool.provider \in setup.deny[r]
MayPoll(r, v) == run[r].polls[v] < PerProvider
Request(r, f, tool) ==
    IF ~Denied(r, tool) /\ MayPoll(r, tool.provider)
    THEN /\ run' = [run EXCEPT ![r].frames = WithFrame(r, f), ![r].polls[tool.provider] = @ + 1]
         /\ calls' = [calls EXCEPT ![r][tool.provider] = @ + 1]
    ELSE run' = [run EXCEPT ![r].frames = WithFrame(r, f)] /\ UNCHANGED calls

\* A delegate is a run of its own, within its caller's budgets.
Delegate(r, f) == Enter(r, WithFrame(r, f))

\* The next tool of the batch.  What a tool raises is told to the model.
Act(r) ==
    LET f == Frame(r)
        tool == Head(f.batch)
        counted == [f EXCEPT !.batch = Tail(@), !.calls = @ + 1, !.sigs = Append(@, tool.sig)]
    IN
    /\ At(r, "act") /\ f.batch # <<>>
    /\ f.calls < MaxToolCalls
    /\ ~IsThrashing(counted.sigs)
    /\ CASE tool.kind = "delegate" -> Delegate(r, counted) /\ UNCHANGED calls
         [] tool.kind = "native" -> run' = [run EXCEPT ![r].frames = WithFrame(r, counted)] /\ UNCHANGED calls
         [] OTHER -> Request(r, counted, tool)
    /\ UNCHANGED <<setup, day, guard, committed, bill, spent, account, mishaps>>

\* Too many calls, the deadline, or the same calls over and over.
StopActing(r) ==
    /\ At(r, "act") /\ Frame(r).batch # <<>>
    /\ GoTo(r, "close")
    /\ UNCHANGED <<setup, day, guard, committed, ghosts, mishaps>>

BatchDone(r) ==
    /\ At(r, "act") /\ Frame(r).batch = <<>>
    /\ GoTo(r, "top")
    /\ UNCHANGED <<setup, day, guard, committed, ghosts, mishaps>>

(***************************************************************************)
(* The end of a run, and what happens to the process.                      *)
(***************************************************************************)
CostOfTheTeam(r) == run[r].spent        \* mutant
CostOfFrame(r) == run[r].spent - Frame(r).before

\* The frame's row gets its cost, under the day the row was created.  A delegate hands over
\* to its caller, however it ended.
RecordEnd(r) ==
    LET created == IF Frame(r).row = NoDay THEN day ELSE Frame(r).row
        rest == SubSeq(run[r].frames, 1, Len(run[r].frames) - 1)
    IN
    /\ At(r, "close")
    /\ \E n \in {0, 1} :
        /\ mishaps.faults + n <= setup.faults
        /\ mishaps' = [mishaps EXCEPT !.faults = @ + n, !.lost = @ + n]
        /\ committed' = IF n = 1 THEN committed
                        ELSE [d \in Day |-> committed[d] + IF d <= created THEN CostOfFrame(r) ELSE 0]
    /\ run' = [run EXCEPT ![r] = IF rest = <<>> THEN Done ELSE [@ EXCEPT !.step = "act", !.frames = rest]]
    /\ UNCHANGED <<setup, day, guard, ghosts>>

Midnight ==
    /\ day < setup.until /\ day' = day + 1
    /\ UNCHANGED <<setup, run, guard, committed, ghosts, mishaps>>

\* The process is gone with its runs and its tally.
Kill(p) ==
    /\ mishaps.killed < setup.kills
    /\ \E r \in Run : Home(r) = p /\ run[r].step \notin {"off", "done"}
    /\ mishaps' = [mishaps EXCEPT !.killed = @ + 1]
    /\ run' = [r \in Run |-> IF Home(r) = p /\ ~At(r, "off") THEN Done ELSE run[r]]
    /\ guard' = [guard EXCEPT ![p] = NewGuard]
    /\ spent' = [spent EXCEPT ![p] = [d \in Day |-> 0]]
    /\ UNCHANGED <<setup, day, committed, bill, calls, account>>

Step(r) ==
    \/ RecordStart(r) \/ Halt(r) \/ Precheck(r) \/ ReadPeriod(r) \/ Answer(r) \/ CallFails(r)
    \/ Act(r) \/ StopActing(r) \/ BatchDone(r) \/ RecordEnd(r)

Next ==
    \/ \E r \in Run : Begin(r) \/ Step(r)
    \/ \E p \in Proc : Kill(p)
    \/ Midnight

Spec == Init /\ [][Next]_vars

(***************************************************************************)
(* Properties.                                                             *)
(***************************************************************************)
Steps == {"off", "open", "top", "read", "call", "act", "close", "done"}
Frames ==
    [steps : 0 .. MaxSteps, calls : 0 .. MaxToolCalls, parse : 0 .. ParseRetries,
     verify : 0 .. VerifyRetries, sigs : Seq(Nat), batch : Seq(Tool),
     before : Nat, row : Day \cup {NoDay}]
Runs == [step : Steps, frames : Seq(Frames), spent : Nat, polls : [Provider -> Nat],
         day : Day \cup {NoDay}, rolled : BOOLEAN]
TypeOK ==
    /\ setup \in Setups /\ day \in Day
    /\ run \in [Run -> Runs]
    /\ guard \in [Proc -> [window : Day \cup {NoDay}, baseline : Nat, tally : Nat]]
    /\ committed \in [Day -> Nat]
    /\ bill \in [Run -> Nat] /\ spent \in [Proc -> [Day -> Nat]]
    /\ calls \in [Run -> [Provider -> Nat]]

\* A root agent and everyone it delegates to share one ceiling: whoever makes the calls, the
\* team is charged less than the ceiling and one call on top ("a team run shares one per-run
\* ceiling", agents/runtime.py:73).
TeamSharesItsCeiling == TypeOK /\ \A r \in Run : bill[r] < Ceiling + setup.dear

\* Nor is a provider asked more often than the root may, whoever of the team asks it and
\* however it came to the tool: attached, or found by a search (mcp/manager.py:143-172).
ProvidersAreSpared == \A r \in Run, v \in Provider : calls[r][v] <= PerProvider

\* A process stops itself, whatever the rows say: what its own runs were charged under one
\* period stays below the cap and one call for every run beside each other; the runs whose
\* check had begun when the period turned may each add one more (budget_guard.py:54-81).
ProcessWithinCap ==
    \A p \in Proc, d \in Day :
        LET runs == Cardinality({r \in Run : Home(r) = p})
        IN spent[p][d] > 0 => spent[p][d] < setup.cap + (2 * runs - 1) * setup.dear

\* Nothing charged is missing from the rows: with no process killed and no row lost, what the
\* rows hold and what open runs have still to write add up to all that was charged, and what
\* delegates were charged once more, for a caller's row holds its team's cost (costs.py:126).
OpenCost(r) == Total([i \in DOMAIN run[r].frames |-> run[r].spent - run[r].frames[i].before])
OpenCosts == LET runs == SetToSeq(Run) IN Total([k \in DOMAIN runs |-> OpenCost(runs[k])])
RowsAddUp ==
    mishaps.killed = 0 /\ mishaps.lost = 0 =>
        committed[0] + OpenCosts = account.charged + account.delegated
=============================================================================
