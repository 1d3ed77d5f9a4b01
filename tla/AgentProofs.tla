------------------------------ MODULE AgentProofs ------------------------------
(***************************************************************************)
(* What a team and a process may spend, for any number of runs, processes  *)
(* and providers, any limits, any answers and any faults; and that the     *)
(* rows the budget is summed from add up to all that was charged.          *)
(***************************************************************************)
EXTENDS AgentPlane, FiniteSetTheorems, WellFoundedInduction, TLAPS

(***************************************************************************)
(* Types.  A run that is under way has a frame, and no frame was entered   *)
(* with more spent than is spent now, so that what a row is given is a     *)
(* natural number.                                                         *)
(***************************************************************************)
Active == {"open", "top", "read", "call", "act", "close"}
Asking == {"read", "call"}

Sound(u) ==
    /\ u.frames # <<>> <=> u.step \in Active
    /\ \A i \in 1 .. Len(u.frames) : u.frames[i].before <= u.spent
    /\ u.step \in Asking => u.day \in Day

TypeInv == TypeOK /\ \A r \in Run : Sound(run[r])

LEMMA IdleTyped == Off \in Runs /\ Done \in Runs /\ Sound(Off) /\ Sound(Done)
<1> DEFINE polls == [v \in Provider |-> 0]
<1>1. polls \in [Provider -> Nat]
  OBVIOUS
<1>2. <<>> \in Seq(Frames) /\ Len(<<>>) = 0
  OBVIOUS
<1> HIDE DEF polls
<1>3. Off = [step |-> "off", frames |-> <<>>, spent |-> 0, polls |-> polls,
             day |-> NoDay, rolled |-> FALSE]
  BY DEF Off, polls
<1>4. Off \in Runs /\ Off.frames = <<>> /\ Off.step = "off"
  BY <1>1, <1>2, <1>3 DEF Runs, Steps
<1>5. Done \in Runs /\ Done.frames = <<>> /\ Done.step = "done"
  BY <1>4 DEF Done, Runs, Steps
<1>6. Sound(Off)
  BY <1>2, <1>4 DEF Sound, Active, Asking
<1>7. Sound(Done)
  BY <1>2, <1>5 DEF Sound, Active, Asking
<1> QED BY <1>4, <1>5, <1>6, <1>7

LEMMA RunMoves ==
    ASSUME TypeInv, NEW r \in Run, NEW u \in Runs, Sound(u), run' = [run EXCEPT ![r] = u]
    PROVE  /\ run' \in [Run -> Runs]
           /\ run'[r] = u /\ \A q \in Run \ {r} : run'[q] = run[q]
           /\ \A q \in Run : Sound(run'[q])
<1>1. run \in [Run -> Runs] /\ \A q \in Run : Sound(run[q])
  BY DEF TypeInv, TypeOK
<1>2. run' \in [Run -> Runs] /\ run'[r] = u /\ \A q \in Run \ {r} : run'[q] = run[q]
  BY <1>1
<1> QED BY <1>1, <1>2

\* The frames of a run under way, and one of them replaced.
LEMMA TopFrame ==
    ASSUME TypeInv, NEW r \in Run, run[r].step \in Active
    PROVE  /\ run[r] \in Runs /\ Len(run[r].frames) \in Nat \ {0}
           /\ Frame(r) \in Frames /\ Frame(r).before <= run[r].spent
           /\ run[r].frames \in Seq(Frames) /\ run[r].spent \in Nat
<1>1. run[r] \in Runs /\ Sound(run[r])
  BY DEF TypeInv, TypeOK
<1>2. run[r].frames \in Seq(Frames) /\ run[r].frames # <<>> /\ run[r].spent \in Nat
  BY <1>1 DEF Sound, Runs
<1>3. Len(run[r].frames) \in Nat \ {0}
  BY <1>2
<1>4. Len(run[r].frames) \in 1 .. Len(run[r].frames)
  BY <1>3
<1>5. Frame(r) \in Frames
  BY <1>2, <1>4 DEF Frame
<1>6. Frame(r).before <= run[r].spent
  BY <1>1, <1>4 DEF Frame, Sound
<1> QED BY <1>1, <1>2, <1>3, <1>5, <1>6

LEMMA FrameReplaced ==
    ASSUME TypeInv, NEW r \in Run, run[r].step \in Active,
           NEW f \in Frames, f.before = Frame(r).before
    PROVE  /\ WithFrame(r, f) \in Seq(Frames) /\ WithFrame(r, f) # <<>>
           /\ Len(WithFrame(r, f)) = Len(run[r].frames)
           /\ \A i \in 1 .. Len(WithFrame(r, f)) : WithFrame(r, f)[i].before <= run[r].spent
<1> DEFINE s == run[r].frames
           n == Len(s)
<1>1. /\ s \in Seq(Frames) /\ n \in Nat \ {0} /\ Frame(r).before <= run[r].spent
      /\ Sound(run[r])
  BY TopFrame DEF TypeInv
<1>2. WithFrame(r, f) = [s EXCEPT ![n] = f]
  BY DEF WithFrame
<1>3. WithFrame(r, f) \in Seq(Frames) /\ Len(WithFrame(r, f)) = n
  BY <1>1, <1>2
<1>4. \A i \in 1 .. n : WithFrame(r, f)[i] = IF i = n THEN f ELSE s[i]
  BY <1>1, <1>2
<1>5. \A i \in 1 .. n : WithFrame(r, f)[i].before <= run[r].spent
  <2> TAKE i \in 1 .. n
  <2>1. CASE i = n
    BY <1>1, <1>4, <2>1
  <2>2. CASE i # n
    BY <1>1, <1>4, <2>2 DEF Sound
  <2> QED BY <2>1, <2>2
<1>6. WithFrame(r, f) # <<>>
  BY <1>1, <1>3
<1> QED BY <1>3, <1>5, <1>6

\* What a step does to a run is one assignment; the others keep what they have.
RunsTyped ==
    /\ run' \in [Run -> Runs]
    /\ \A q \in Run : Sound(run'[q])

LEMMA GoToTyped ==
    ASSUME TypeInv, NEW r \in Run, run[r].step \in Active, NEW step \in Active,
           step \in Asking => run[r].day \in Day, GoTo(r, step)
    PROVE  RunsTyped
<1> DEFINE u == [run[r] EXCEPT !.step = step]
<1>1. run[r] \in Runs /\ Sound(run[r])
  BY DEF TypeInv, TypeOK
<1>2. step \in Steps
  BY DEF Active, Steps
<1>3. u \in Runs /\ u.frames = run[r].frames /\ u.spent = run[r].spent /\ u.step = step
      /\ u.day = run[r].day
  BY <1>1, <1>2 DEF Runs
<1>4. Sound(u)
  BY <1>1, <1>3 DEF Sound
<1>5. run' = [run EXCEPT ![r] = u]
  BY DEF GoTo
<1> HIDE DEF u
<1> QED BY <1>3, <1>4, <1>5, RunMoves DEF RunsTyped

LEMMA FramePushed ==
    ASSUME NEW callers \in Seq(Frames), NEW f \in Frames, NEW n \in Nat, f.before <= n,
           \A i \in 1 .. Len(callers) : callers[i].before <= n
    PROVE  /\ Append(callers, f) \in Seq(Frames) /\ Append(callers, f) # <<>>
           /\ \A i \in 1 .. Len(Append(callers, f)) : Append(callers, f)[i].before <= n
<1> DEFINE s == Append(callers, f)
<1>1. s \in Seq(Frames) /\ Len(s) = Len(callers) + 1 /\ Len(callers) \in Nat
  OBVIOUS
<1>2. s # <<>>
  BY <1>1
<1>3. s[Len(callers) + 1] = f /\ \A i \in 1 .. Len(callers) : s[i] = callers[i]
  OBVIOUS
<1>4. \A i \in 1 .. Len(s) : i \in 1 .. Len(callers) \/ i = Len(callers) + 1
  BY <1>1
<1>5. \A i \in 1 .. Len(s) : s[i].before <= n
  BY <1>3, <1>4
<1> QED BY <1>1, <1>2, <1>5

LEMMA EnterTyped ==
    ASSUME TypeInv, AgentAssumption, NEW r \in Run, NEW callers \in Seq(Frames),
           SpentOnEntry(r) \in Nat, PollsOnEntry(r) \in [Provider -> Nat],
           \A i \in 1 .. Len(callers) : callers[i].before <= SpentOnEntry(r),
           Enter(r, callers)
    PROVE  RunsTyped
<1> DEFINE s == Append(callers, NewFrame(SpentOnEntry(r)))
           u == [run[r] EXCEPT !.step = "open", !.spent = SpentOnEntry(r),
                               !.polls = PollsOnEntry(r), !.frames = s]
<1>1. run[r] \in Runs
  BY DEF TypeInv, TypeOK
<1>2. NewFrame(SpentOnEntry(r)) \in Frames /\ NewFrame(SpentOnEntry(r)).before = SpentOnEntry(r)
  BY DEF NewFrame, Frames, AgentAssumption
<1>3. s \in Seq(Frames) /\ s # <<>> /\ \A i \in 1 .. Len(s) : s[i].before <= SpentOnEntry(r)
  <2>1. NewFrame(SpentOnEntry(r)).before <= SpentOnEntry(r)
    BY <1>2
  <2> QED BY <1>2, <2>1, FramePushed
<1>4. run' = [run EXCEPT ![r] = u]
  BY DEF Enter
<1> HIDE DEF s
<1>5. u \in Runs /\ u.frames = s /\ u.spent = SpentOnEntry(r) /\ u.step = "open"
  BY <1>1, <1>3 DEF Runs, Steps
<1>6. Sound(u)
  BY <1>3, <1>5 DEF Sound, Active, Asking
<1> HIDE DEF u
<1> QED BY <1>4, <1>5, <1>6, RunMoves DEF RunsTyped

\* A step that replaces the top frame, and may go elsewhere, spend, or ask a provider.
LEMMA FrameTyped ==
    ASSUME TypeInv, NEW r \in Run, run[r].step \in Active,
           NEW f \in Frames, f.before = Frame(r).before,
           NEW u \in Runs, u.frames = WithFrame(r, f), u.step \in Active,
           run[r].spent <= u.spent, u.step \in Asking => u.day \in Day,
           run' = [run EXCEPT ![r] = u]
    PROVE  RunsTyped
<1>1. /\ u.frames \in Seq(Frames) /\ u.frames # <<>>
      /\ \A i \in 1 .. Len(u.frames) : u.frames[i].before <= run[r].spent
  BY FrameReplaced
<1>2. run[r].spent \in Nat /\ u.spent \in Nat
  BY TopFrame DEF Runs
<1>4. \A i \in 1 .. Len(u.frames) : u.frames[i].before <= u.spent
  <2> TAKE i \in 1 .. Len(u.frames)
  <2>1. u.frames[i] \in Frames
    BY <1>1
  <2>2. u.frames[i].before \in Nat
    BY <2>1 DEF Frames
  <2> QED BY <1>1, <1>2, <2>2
<1>5. Sound(u)
  BY <1>1, <1>4 DEF Sound
<1> QED BY <1>5, RunMoves DEF RunsTyped

LEMMA AnswerTyped ==
    ASSUME AgentAssumption, NEW f \in Frames, NEW a \in Reply
    PROVE  /\ AfterAnswer(f, a).step \in {"top", "act", "close"}
           /\ AfterAnswer(f, a).frame \in Frames
           /\ AfterAnswer(f, a).frame.before = f.before
<1>1. /\ f.parse \in 0 .. ParseRetries /\ f.verify \in 0 .. VerifyRetries
      /\ ParseRetries \in Nat /\ VerifyRetries \in Nat
  BY DEF Frames, AgentAssumption
<1>2. [f EXCEPT !.batch = a.calls] \in Frames
  <2>1. a.calls \in Seq(Tool)
    BY DEF Reply
  <2> QED BY <2>1 DEF Frames
<1>3. f.parse < ParseRetries => [f EXCEPT !.parse = @ + 1] \in Frames
  <2>1. f.parse < ParseRetries => f.parse + 1 \in 0 .. ParseRetries
    BY <1>1
  <2> QED BY <2>1 DEF Frames
<1>4. f.verify < VerifyRetries => [f EXCEPT !.verify = @ + 1] \in Frames
  <2>1. f.verify < VerifyRetries => f.verify + 1 \in 0 .. VerifyRetries
    BY <1>1
  <2> QED BY <2>1 DEF Frames
<1>5. /\ [f EXCEPT !.batch = a.calls].before = f.before
      /\ [f EXCEPT !.parse = @ + 1].before = f.before
      /\ [f EXCEPT !.verify = @ + 1].before = f.before
  BY DEF Frames
<1>6. CASE "full" \in a.flaws
  BY <1>6 DEF AfterAnswer
<1>7. CASE "full" \notin a.flaws /\ a.calls # <<>>
  BY <1>2, <1>5, <1>7 DEF AfterAnswer
<1>8. CASE "full" \notin a.flaws /\ a.calls = <<>>
  BY <1>3, <1>4, <1>5, <1>8 DEF AfterAnswer
<1> QED BY <1>6, <1>7, <1>8

LEMMA BeginTyped ==
    ASSUME TypeInv, AgentAssumption, NEW r \in Run, Begin(r)
    PROVE  RunsTyped
<1>1. run[r].frames = <<>>
  BY DEF TypeInv, Sound, Begin, At, Active
<1>2. SpentOnEntry(r) \in Nat /\ PollsOnEntry(r) \in [Provider -> Nat]
  BY <1>1 DEF SpentOnEntry, PollsOnEntry
<1>3. <<>> \in Seq(Frames) /\ \A i \in 1 .. Len(<<>>) : <<>>[i].before <= SpentOnEntry(r)
  OBVIOUS
<1> QED BY <1>2, <1>3, EnterTyped DEF Begin

LEMMA RecordStartTyped ==
    ASSUME TypeInv, AgentAssumption, NEW r \in Run, RecordStart(r)
    PROVE  RunsTyped
<1>1. run[r].step \in Active
  BY DEF RecordStart, At, Active
<1>2. Frame(r) \in Frames /\ run[r] \in Runs /\ day \in Day
  BY <1>1, TopFrame DEF TypeInv, TypeOK
<1>3. PICK n \in {0, 1} :
        run' = [run EXCEPT ![r].step = "top",
                           ![r].frames = WithFrame(r, [Frame(r) EXCEPT !.row = IF n = 0 THEN day ELSE NoDay])]
  BY DEF RecordStart
<1> DEFINE row == IF n = 0 THEN day ELSE NoDay
           f == [Frame(r) EXCEPT !.row = row]
           u == [run[r] EXCEPT !.step = "top", !.frames = WithFrame(r, f)]
<1>4. row \in Day \cup {NoDay}
  BY <1>2
<1>5. run' = [run EXCEPT ![r] = u]
  BY <1>3
<1> HIDE DEF row
<1>6. f \in Frames /\ f.before = Frame(r).before
  BY <1>2, <1>4 DEF Frames
<1>7. WithFrame(r, f) \in Seq(Frames)
  BY <1>1, <1>6, FrameReplaced
<1> HIDE DEF f
<1>8. u \in Runs /\ u.frames = WithFrame(r, f) /\ u.step = "top" /\ u.spent = run[r].spent
  BY <1>2, <1>7 DEF Runs, Steps
<1>9. u.step \in Active /\ u.step \notin Asking /\ run[r].spent <= u.spent
  BY <1>1, <1>8, TopFrame DEF Active, Asking
<1> HIDE DEF u
<1> QED BY <1>1, <1>5, <1>6, <1>8, <1>9, FrameTyped

LEMMA PrecheckTyped ==
    ASSUME TypeInv, AgentAssumption, NEW r \in Run, Precheck(r)
    PROVE  RunsTyped
<1>1. run[r].step \in Active
  BY DEF Precheck, At, Active
<1>2. Frame(r) \in Frames /\ run[r] \in Runs /\ day \in Day
  BY <1>1, TopFrame DEF TypeInv, TypeOK
<1> DEFINE rolled == guard[Home(r)].window # day
           f == [Frame(r) EXCEPT !.steps = @ + 1]
           u == [run[r] EXCEPT !.step = "read", !.day = day, !.rolled = rolled,
                               !.frames = WithFrame(r, f)]
<1>3. run' = [run EXCEPT ![r] = u]
  BY DEF Precheck
<1>4. rolled \in BOOLEAN
  OBVIOUS
<1> HIDE DEF rolled
<1>5. Frame(r).steps \in 0 .. MaxSteps /\ Frame(r).steps < MaxSteps /\ MaxSteps \in Nat
  BY <1>2 DEF Precheck, AgentAssumption, Frames
<1>6. Frame(r).steps + 1 \in 0 .. MaxSteps
  BY <1>5
<1>7. f \in Frames /\ f.before = Frame(r).before
  BY <1>2, <1>6 DEF Frames
<1>8. WithFrame(r, f) \in Seq(Frames)
  BY <1>1, <1>7, FrameReplaced
<1> HIDE DEF f
<1>9. u \in Runs /\ u.frames = WithFrame(r, f) /\ u.step = "read" /\ u.spent = run[r].spent
      /\ u.day = day
  BY <1>2, <1>4, <1>8 DEF Runs, Steps
<1>10. u.step \in Active /\ run[r].spent <= u.spent
  BY <1>1, <1>9, TopFrame DEF Active
<1> HIDE DEF u
<1> QED BY <1>1, <1>2, <1>3, <1>7, <1>9, <1>10, FrameTyped

LEMMA AnsweredTyped ==
    ASSUME TypeInv, AgentAssumption, NEW r \in Run, Answer(r)
    PROVE  RunsTyped
<1>1. run[r].step \in Active
  BY DEF Answer, At, Active
<1>2. Frame(r) \in Frames /\ run[r] \in Runs /\ setup \in Setups /\ run[r].spent \in Nat
  BY <1>1, TopFrame DEF TypeInv, TypeOK
<1> DEFINE role == IF Len(run[r].frames) = 1 THEN "root" ELSE "delegate"
<1>3. PICK a \in setup.answers[role], cost \in 0 .. setup.dear :
        run' = [run EXCEPT ![r].step = AfterAnswer(Frame(r), a).step, ![r].spent = @ + cost,
                           ![r].frames = WithFrame(r, AfterAnswer(Frame(r), a).frame)]
  BY DEF Answer
<1>4. a \in Reply /\ cost \in Nat
  <2>1. setup.answers \in [{"root", "delegate"} -> SUBSET Reply] /\ setup.dear \in Nat
    BY <1>2 DEF AgentAssumption
  <2> QED BY <2>1
<1> DEFINE f == AfterAnswer(Frame(r), a).frame
           step == AfterAnswer(Frame(r), a).step
           u == [run[r] EXCEPT !.step = step, !.spent = @ + cost, !.frames = WithFrame(r, f)]
<1>5. f \in Frames /\ f.before = Frame(r).before /\ step \in {"top", "act", "close"}
  BY <1>2, <1>4, AnswerTyped
<1>6. run' = [run EXCEPT ![r] = u]
  BY <1>3
<1> HIDE DEF f, step
<1>7. WithFrame(r, f) \in Seq(Frames)
  BY <1>1, <1>5, FrameReplaced
<1>8. u \in Runs /\ u.frames = WithFrame(r, f) /\ u.step = step /\ u.spent = run[r].spent + cost
  <2>1. step \in Steps
    BY <1>5 DEF Steps
  <2>2. run[r].spent + cost \in Nat
    BY <1>2, <1>4
  <2> QED BY <1>2, <1>7, <2>1, <2>2 DEF Runs
<1>9. u.step \in Active /\ u.step \notin Asking /\ run[r].spent <= u.spent
  BY <1>2, <1>4, <1>5, <1>8 DEF Active, Asking
<1> HIDE DEF u
<1> QED BY <1>1, <1>5, <1>6, <1>8, <1>9, FrameTyped

\* The frame once its next tool is counted.
LEMMA ActFrame ==
    ASSUME TypeInv, AgentAssumption, NEW r \in Run, Act(r)
    PROVE  LET tool == Head(Frame(r).batch)
               f == [Frame(r) EXCEPT !.batch = Tail(@), !.calls = @ + 1, !.sigs = Append(@, tool.sig)]
           IN  tool \in Tool /\ f \in Frames /\ f.before = Frame(r).before
<1>1. Frame(r) \in Frames
  BY TopFrame DEF Act, At, Active
<1> DEFINE tool == Head(Frame(r).batch)
<1>2. tool \in Tool /\ Tail(Frame(r).batch) \in Seq(Tool)
  <2>1. Frame(r).batch \in Seq(Tool) /\ Frame(r).batch # <<>>
    BY <1>1 DEF Act, Frames
  <2> QED BY <2>1
<1>3. Frame(r).calls + 1 \in 0 .. MaxToolCalls
  <2>1. Frame(r).calls \in 0 .. MaxToolCalls /\ Frame(r).calls < MaxToolCalls /\ MaxToolCalls \in Nat
    BY <1>1 DEF Act, AgentAssumption, Frames
  <2> QED BY <2>1
<1>4. Append(Frame(r).sigs, tool.sig) \in Seq(Nat)
  BY <1>1, <1>2 DEF Frames, Tool
<1> HIDE DEF tool
<1>5. LET f == [Frame(r) EXCEPT !.batch = Tail(@), !.calls = @ + 1, !.sigs = Append(@, tool.sig)]
      IN  f \in Frames /\ f.before = Frame(r).before
  BY <1>1, <1>2, <1>3, <1>4 DEF Frames
<1> QED BY <1>2, <1>5 DEF tool

LEMMA ActTyped ==
    ASSUME TypeInv, AgentAssumption, NEW r \in Run, Act(r)
    PROVE  RunsTyped
<1>1. run[r].step \in Active /\ run[r].step = "act"
  BY DEF Act, At, Active
<1>2. Frame(r) \in Frames /\ run[r] \in Runs /\ run[r].spent \in Nat
  BY <1>1, TopFrame
<1> DEFINE tool == Head(Frame(r).batch)
           f == [Frame(r) EXCEPT !.batch = Tail(@), !.calls = @ + 1, !.sigs = Append(@, tool.sig)]
<1>3. tool \in Tool
  BY ActFrame, Zenon
<1>4. /\ CASE tool.kind = "delegate" -> Delegate(r, f) /\ UNCHANGED calls
           [] tool.kind = "native" -> run' = [run EXCEPT ![r].frames = WithFrame(r, f)] /\ UNCHANGED calls
           [] OTHER -> Request(r, f, tool)
  BY DEF Act
<1>5. f \in Frames /\ f.before = Frame(r).before
  BY ActFrame, Zenon
<1>6. /\ WithFrame(r, f) \in Seq(Frames) /\ WithFrame(r, f) # <<>>
      /\ \A i \in 1 .. Len(WithFrame(r, f)) : WithFrame(r, f)[i].before <= run[r].spent
  BY <1>1, <1>5, FrameReplaced
<1> HIDE DEF f, tool
<1> DEFINE u == [run[r] EXCEPT !.frames = WithFrame(r, f)]
<1>7. CASE tool.kind = "delegate"
  <2>1. Enter(r, WithFrame(r, f))
    BY <1>4, <1>7 DEF Delegate
  <2>2. run[r].frames # <<>> /\ run[r].polls \in [Provider -> Nat]
    BY <1>1, <1>2 DEF TypeInv, Sound, Runs
  <2>3. SpentOnEntry(r) = run[r].spent /\ PollsOnEntry(r) = run[r].polls
    BY <2>2 DEF SpentOnEntry, PollsOnEntry
  <2> QED BY <1>2, <1>6, <2>1, <2>2, <2>3, EnterTyped
<1>8. CASE run' = [run EXCEPT ![r].frames = WithFrame(r, f)]
  <2>1. run' = [run EXCEPT ![r] = u]
    BY <1>8
  <2>2. u \in Runs /\ u.frames = WithFrame(r, f) /\ u.step = "act" /\ u.spent = run[r].spent
    BY <1>1, <1>2, <1>6 DEF Runs
  <2>3. u.step \in Active /\ u.step \notin Asking /\ run[r].spent <= u.spent
    BY <1>2, <2>2 DEF Active, Asking
  <2> HIDE DEF u
  <2> QED BY <1>1, <1>5, <2>1, <2>2, <2>3, FrameTyped
<1>9. CASE tool.kind \notin {"delegate", "native"}
  <2>1. CASE ~Denied(r, tool) /\ MayPoll(r, tool.provider)
    <3> DEFINE polls == [run[r].polls EXCEPT ![tool.provider] = @ + 1]
               w == [run[r] EXCEPT !.frames = WithFrame(r, f), !.polls = polls]
    <3>1. run' = [run EXCEPT ![r].frames = WithFrame(r, f), ![r].polls[tool.provider] = @ + 1]
      BY <1>4, <1>9, <2>1 DEF Request
    <3>2. run' = [run EXCEPT ![r] = w]
      BY <3>1
    <3>3. polls \in [Provider -> Nat]
      BY <1>2, <1>3 DEF Runs, Tool
    <3> HIDE DEF polls
    <3>4. w \in Runs /\ w.frames = WithFrame(r, f) /\ w.step = "act" /\ w.spent = run[r].spent
      BY <1>1, <1>2, <1>6, <3>3 DEF Runs
    <3>5. w.step \in Active /\ w.step \notin Asking /\ run[r].spent <= w.spent
      BY <1>2, <3>4 DEF Active, Asking
    <3> HIDE DEF w
    <3> QED BY <1>1, <1>5, <3>2, <3>4, <3>5, FrameTyped
  <2>2. CASE ~(~Denied(r, tool) /\ MayPoll(r, tool.provider))
    BY <1>4, <1>8, <1>9, <2>2 DEF Request
  <2> QED BY <2>1, <2>2
<1> QED BY <1>4, <1>7, <1>8, <1>9

LEMMA RecordEndTyped ==
    ASSUME TypeInv, AgentAssumption, NEW r \in Run, RecordEnd(r)
    PROVE  RunsTyped /\ committed' \in [Day -> Nat]
<1>1. run[r].step \in Active
  BY DEF RecordEnd, At, Active
<1>2. /\ run[r] \in Runs /\ Sound(run[r]) /\ run[r].frames \in Seq(Frames)
      /\ Len(run[r].frames) \in Nat \ {0} /\ run[r].spent \in Nat
      /\ Frame(r) \in Frames /\ Frame(r).before <= run[r].spent
      /\ day \in Day /\ committed \in [Day -> Nat]
  BY <1>1, TopFrame DEF TypeInv, TypeOK
<1> DEFINE rest == SubSeq(run[r].frames, 1, Len(run[r].frames) - 1)
           created == IF Frame(r).row = NoDay THEN day ELSE Frame(r).row
           u == IF rest = <<>> THEN Done ELSE [run[r] EXCEPT !.step = "act", !.frames = rest]
<1>3. run' = [run EXCEPT ![r] = u]
  BY DEF RecordEnd
<1>4. rest \in Seq(Frames) /\ Len(rest) = Len(run[r].frames) - 1
      /\ \A i \in 1 .. Len(rest) : rest[i] = run[r].frames[i]
  BY <1>2
<1>5. \A i \in 1 .. Len(rest) : rest[i].before <= run[r].spent
  BY <1>2, <1>4 DEF Sound
<1> HIDE DEF rest
<1>6. RunsTyped
  <2>1. CASE rest = <<>>
    BY <1>3, <2>1, IdleTyped, RunMoves DEF RunsTyped
  <2>2. CASE rest # <<>>
    <3>1. u \in Runs /\ u.frames = rest /\ u.step = "act" /\ u.spent = run[r].spent
      BY <1>2, <1>4, <2>2 DEF Runs, Steps
    <3>2. Sound(u)
      BY <1>5, <2>2, <3>1 DEF Sound, Active, Asking
    <3> HIDE DEF u
    <3> QED BY <1>3, <3>1, <3>2, RunMoves DEF RunsTyped
  <2> QED BY <2>1, <2>2
<1>7. CostOfFrame(r) \in Nat
  <2>1. Frame(r).before \in Nat
    BY <1>2 DEF Frames
  <2> QED BY <1>2, <2>1 DEF CostOfFrame
<1>8. committed' = committed \/ committed' = [d \in Day |-> committed[d] + IF d <= created THEN CostOfFrame(r) ELSE 0]
  BY DEF RecordEnd
<1>9. committed' \in [Day -> Nat]
  BY <1>2, <1>7, <1>8
<1> QED BY <1>6, <1>9

LEMMA SetupTyped ==
    ASSUME TypeInv, AgentAssumption
    PROVE  /\ setup.cap \in Nat \ {0} /\ setup.dear \in Nat \ {0}
           /\ setup.until \in Day
           /\ \A r \in Run : Home(r) \in Proc
BY DEF TypeInv, TypeOK, AgentAssumption, Home

LEMMA ReadPeriodTyped ==
    ASSUME TypeInv, AgentAssumption, NEW r \in Run, ReadPeriod(r)
    PROVE  RunsTyped /\ guard' \in [Proc -> [window : Day \cup {NoDay}, baseline : Nat, tally : Nat]]
<1> DEFINE p == Home(r)
           Guards == [window : Day \cup {NoDay}, baseline : Nat, tally : Nat]
<1>1. run[r].step \in Active /\ run[r].step \in Asking
  BY DEF ReadPeriod, At, Active, Asking
<1>2. /\ p \in Proc /\ guard \in [Proc -> Guards] /\ committed \in [Day -> Nat]
      /\ run[r].day \in Day
  BY <1>1, SetupTyped DEF TypeInv, TypeOK, Sound
<1>3. PICK n \in {0, 1} :
        LET rows == IF n = 0 THEN committed[run[r].day] ELSE guard[p].baseline
            g == IF n = 0 /\ run[r].rolled THEN [guard[p] EXCEPT !.baseline = rows] ELSE guard[p]
        IN /\ guard' = [guard EXCEPT ![p] = g]
           /\ GoTo(r, IF PeriodSpent(g, rows) >= setup.cap THEN "close" ELSE "call")
  BY DEF ReadPeriod
<1> DEFINE rows == IF n = 0 THEN committed[run[r].day] ELSE guard[p].baseline
           g == IF n = 0 /\ run[r].rolled THEN [guard[p] EXCEPT !.baseline = rows] ELSE guard[p]
           step == IF PeriodSpent(g, rows) >= setup.cap THEN "close" ELSE "call"
<1>4. guard' = [guard EXCEPT ![p] = g] /\ GoTo(r, step)
  BY <1>3
<1>5. rows \in Nat
  BY <1>2
<1> HIDE DEF rows
<1>6. g \in Guards
  BY <1>2, <1>5
<1>7. step \in Active
  BY DEF Active
<1> HIDE DEF g, step
<1>8. RunsTyped
  BY <1>1, <1>2, <1>4, <1>7, GoToTyped
<1>9. guard' \in [Proc -> Guards]
  BY <1>2, <1>4, <1>6
<1> QED BY <1>8, <1>9

LEMMA AnswerCharges ==
    ASSUME TypeInv, AgentAssumption, NEW r \in Run, Answer(r)
    PROVE  /\ run[r].step = "call" /\ run[r].day \in Day /\ Home(r) \in Proc
           /\ \E cost \in 0 .. setup.dear :
                /\ guard' = [guard EXCEPT ![Home(r)].tally = @ + cost]
                /\ bill' = [bill EXCEPT ![r] = @ + cost]
                /\ spent' = [spent EXCEPT ![Home(r)][run[r].day] = @ + cost]
                /\ run'[r].spent = run[r].spent + cost
                /\ run'[r].polls = run[r].polls
                /\ run'[r].step \in {"top", "act", "close"}
                /\ \A q \in Run \ {r} : run'[q] = run[q]
<1>1. run[r].step = "call" /\ Sound(run[r]) /\ run[r] \in Runs /\ run \in [Run -> Runs] /\ Home(r) \in Proc
  BY SetupTyped DEF Answer, At, TypeInv, TypeOK
<1>2. run[r].day \in Day /\ run[r].step \in Active
  BY <1>1 DEF Sound, Asking, Active
<1> DEFINE role == IF Len(run[r].frames) = 1 THEN "root" ELSE "delegate"
<1>3. PICK a \in setup.answers[role], cost \in 0 .. setup.dear :
        /\ run' = [run EXCEPT ![r].step = AfterAnswer(Frame(r), a).step, ![r].spent = @ + cost,
                              ![r].frames = WithFrame(r, AfterAnswer(Frame(r), a).frame)]
        /\ guard' = [guard EXCEPT ![Home(r)].tally = @ + cost]
        /\ bill' = [bill EXCEPT ![r] = @ + cost]
        /\ spent' = [spent EXCEPT ![Home(r)][run[r].day] = @ + cost]
  BY DEF Answer
<1>4. a \in Reply /\ Frame(r) \in Frames
  <2>1. setup.answers \in [{"root", "delegate"} -> SUBSET Reply]
    BY DEF AgentAssumption, TypeInv, TypeOK
  <2> QED BY <1>2, <2>1, TopFrame
<1> DEFINE f == AfterAnswer(Frame(r), a).frame
           step == AfterAnswer(Frame(r), a).step
           u == [run[r] EXCEPT !.step = step, !.spent = @ + cost, !.frames = WithFrame(r, f)]
<1>5. step \in {"top", "act", "close"}
  BY <1>4, AnswerTyped
<1>6. run' = [run EXCEPT ![r] = u]
  BY <1>3
<1> HIDE DEF step, f
<1>7. u.step = step /\ u.spent = run[r].spent + cost /\ u.polls = run[r].polls
  BY <1>1 DEF Runs
<1> HIDE DEF u
<1> QED BY <1>1, <1>2, <1>3, <1>5, <1>6, <1>7

LEMMA NextTyped ==
    ASSUME TypeInv, AgentAssumption, Next
    PROVE  TypeInv'
<1> DEFINE Guards == [window : Day \cup {NoDay}, baseline : Nat, tally : Nat]
<1>1. /\ setup \in Setups /\ day \in Day /\ run \in [Run -> Runs] /\ \A r \in Run : Sound(run[r])
      /\ guard \in [Proc -> Guards] /\ committed \in [Day -> Nat] /\ bill \in [Run -> Nat]
      /\ spent \in [Proc -> [Day -> Nat]] /\ calls \in [Run -> [Provider -> Nat]]
  BY DEF TypeInv, TypeOK
<1>2. ASSUME NEW r \in Run, Begin(r) PROVE TypeInv'
  BY <1>1, <1>2, BeginTyped DEF RunsTyped, TypeInv, TypeOK, Begin, ghosts
<1>3. ASSUME NEW r \in Run, RecordStart(r) PROVE TypeInv'
  BY <1>1, <1>3, RecordStartTyped DEF RunsTyped, TypeInv, TypeOK, RecordStart, ghosts
<1>4. ASSUME NEW r \in Run, Halt(r) \/ CallFails(r) \/ StopActing(r) \/ BatchDone(r) PROVE TypeInv'
  <2>1. run[r].step \in Active
    BY <1>4 DEF Halt, CallFails, StopActing, BatchDone, At, Active
  <2>2. PICK step \in {"close", "top"} : GoTo(r, step)
    BY <1>4 DEF Halt, CallFails, StopActing, BatchDone
  <2>3. step \in Active /\ step \notin Asking
    BY DEF Active, Asking
  <2>4. RunsTyped
    BY <2>1, <2>2, <2>3, GoToTyped
  <2>5. UNCHANGED <<setup, day, guard, committed, bill, spent, calls>>
    BY <1>4 DEF Halt, CallFails, StopActing, BatchDone, ghosts
  <2> QED BY <1>1, <2>4, <2>5 DEF RunsTyped, TypeInv, TypeOK
<1>5. ASSUME NEW r \in Run, Precheck(r) PROVE TypeInv'
  <2>1. Home(r) \in Proc
    BY SetupTyped
  <2>2. guard' \in [Proc -> Guards]
    <3>0. guard[Home(r)] \in Guards
      BY <1>1, <2>1
    <3>1. [guard[Home(r)] EXCEPT !.window = day, !.tally = 0] \in Guards
      BY <1>1, <3>0
    <3>2. guard' = guard \/ guard' = [guard EXCEPT ![Home(r)] = [guard[Home(r)] EXCEPT !.window = day, !.tally = 0]]
      BY <1>5 DEF Precheck
    <3> QED BY <1>1, <2>1, <3>1, <3>2
  <2> QED BY <1>1, <1>5, <2>2, PrecheckTyped DEF RunsTyped, TypeInv, TypeOK, Precheck, ghosts
<1>6. ASSUME NEW r \in Run, ReadPeriod(r) PROVE TypeInv'
  BY <1>1, <1>6, ReadPeriodTyped DEF RunsTyped, TypeInv, TypeOK, ReadPeriod, ghosts
<1>7. ASSUME NEW r \in Run, Answer(r) PROVE TypeInv'
  <2>1. PICK cost \in 0 .. setup.dear :
                /\ guard' = [guard EXCEPT ![Home(r)].tally = @ + cost]
                /\ bill' = [bill EXCEPT ![r] = @ + cost]
                /\ spent' = [spent EXCEPT ![Home(r)][run[r].day] = @ + cost]
    BY <1>7, AnswerCharges
  <2>2. run[r].day \in Day /\ Home(r) \in Proc /\ cost \in Nat
    BY <1>7, AnswerCharges, SetupTyped
  <2>3. guard' \in [Proc -> Guards]
    <3>1. guard[Home(r)] \in Guards
      BY <1>1, <2>2
    <3>2. guard[Home(r)].tally + cost \in Nat
      BY <2>2, <3>1
    <3>3. [guard[Home(r)] EXCEPT !.tally = @ + cost] \in Guards
      BY <3>1, <3>2
    <3>4. guard' = [guard EXCEPT ![Home(r)] = [guard[Home(r)] EXCEPT !.tally = @ + cost]]
      BY <2>1
    <3> QED BY <1>1, <2>2, <3>3, <3>4
  <2>4. bill' \in [Run -> Nat] /\ spent' \in [Proc -> [Day -> Nat]]
    BY <1>1, <2>1, <2>2
  <2> QED BY <1>1, <1>7, <2>3, <2>4, AnsweredTyped DEF RunsTyped, TypeInv, TypeOK, Answer
<1>8. ASSUME NEW r \in Run, Act(r) PROVE TypeInv'
  <2>1. calls' \in [Run -> [Provider -> Nat]]
    <3>1. Frame(r).batch \in Seq(Tool) /\ Frame(r).batch # <<>>
      <4>1. Frame(r) \in Frames
        BY <1>8, TopFrame DEF Act, At, Active
      <4> QED BY <1>8, <4>1 DEF Act, Frames
    <3>2. Head(Frame(r).batch).provider \in Provider
      <4>1. Head(Frame(r).batch) \in Tool
        BY <3>1
      <4> QED BY <4>1 DEF Tool
    <3>3. calls' = calls \/ calls' = [calls EXCEPT ![r][Head(Frame(r).batch).provider] = @ + 1]
      BY <1>8 DEF Act, Request
    <3>4. ASSUME NEW v \in Provider, calls' = [calls EXCEPT ![r][v] = @ + 1]
          PROVE  calls' \in [Run -> [Provider -> Nat]]
      <4>1. [calls[r] EXCEPT ![v] = @ + 1] \in [Provider -> Nat]
        BY <1>1
      <4>2. calls' = [calls EXCEPT ![r] = [calls[r] EXCEPT ![v] = @ + 1]]
        BY <3>4
      <4> QED BY <1>1, <4>1, <4>2
    <3> QED BY <1>1, <3>2, <3>3, <3>4
  <2> QED BY <1>1, <1>8, <2>1, ActTyped DEF RunsTyped, TypeInv, TypeOK, Act
<1>9. ASSUME NEW r \in Run, RecordEnd(r) PROVE TypeInv'
  BY <1>1, <1>9, RecordEndTyped DEF RunsTyped, TypeInv, TypeOK, RecordEnd, ghosts
<1>10. ASSUME NEW p \in Proc, Kill(p) PROVE TypeInv'
  <2>1. run' = [r \in Run |-> IF Home(r) = p /\ ~At(r, "off") THEN Done ELSE run[r]]
    BY <1>10 DEF Kill
  <2>2. run' \in [Run -> Runs] /\ \A r \in Run : Sound(run'[r])
    BY <1>1, <2>1, IdleTyped
  <2>3. guard' \in [Proc -> Guards] /\ spent' \in [Proc -> [Day -> Nat]]
    <3>1. NewGuard \in Guards /\ [d \in Day |-> 0] \in [Day -> Nat]
      BY DEF NewGuard
    <3> QED BY <1>1, <1>10, <3>1 DEF Kill
  <2> QED BY <1>1, <1>10, <2>2, <2>3 DEF TypeInv, TypeOK, Kill
<1>11. ASSUME Midnight PROVE TypeInv'
  <2>1. day' \in Day
    BY <1>1, <1>11, SetupTyped DEF Midnight, Day, AgentAssumption
  <2> QED BY <1>1, <1>11, <2>1 DEF TypeInv, TypeOK, Midnight, ghosts
<1> QED BY <1>2, <1>3, <1>4, <1>5, <1>6, <1>7, <1>8, <1>9, <1>10, <1>11 DEF Next, Step

LEMMA InitTyped == ASSUME AgentAssumption, Init PROVE TypeInv
<1>1. 0 \in Day
  BY DEF Day, AgentAssumption
<1>2. run \in [Run -> Runs] /\ \A r \in Run : Sound(run[r])
  BY IdleTyped DEF Init
<1>3. guard \in [Proc -> [window : Day \cup {NoDay}, baseline : Nat, tally : Nat]]
  BY DEF Init, NewGuard
<1> QED BY <1>1, <1>2, <1>3 DEF Init, TypeInv, TypeOK

\* Every reachable state is well typed: no limit of a frame is passed, and no row is ever
\* given a negative cost.
THEOREM TypeCorrect == Spec => []TypeInv
<1> USE AgentAssumption
<1>1. Init => TypeInv
  BY InitTyped
<1>2. TypeInv /\ [Next]_vars => TypeInv'
  <2>1. CASE Next
    BY <2>1, NextTyped
  <2>2. CASE UNCHANGED vars
    BY <2>2 DEF vars, ghosts, TypeInv, TypeOK
  <2> QED BY <2>1, <2>2
<1> QED BY <1>1, <1>2, PTL DEF Spec

(***************************************************************************)
(* What a step does to the run that takes it.                              *)
(***************************************************************************)
Others(r) == \A q \in Run \ {r} : run'[q] = run[q]
Keeps(r) == run'[r].spent = run[r].spent /\ run'[r].polls = run[r].polls

LEMMA RunRecord ==
    ASSUME TypeInv, NEW r \in Run
    PROVE  /\ run \in [Run -> Runs] /\ run[r] \in Runs /\ DOMAIN run = Run
           /\ run[r].spent \in Nat /\ run[r].polls \in [Provider -> Nat]
           /\ bill[r] \in Nat /\ calls[r] \in [Provider -> Nat] /\ calls \in [Run -> [Provider -> Nat]]
<1>1. run \in [Run -> Runs] /\ bill \in [Run -> Nat] /\ calls \in [Run -> [Provider -> Nat]]
  BY DEF TypeInv, TypeOK
<1>2. run[r] \in Runs
  BY <1>1
<1> QED BY <1>1, <1>2 DEF Runs

LEMMA BeginShape ==
    ASSUME TypeInv, NEW r \in Run, Begin(r)
    PROVE  /\ Others(r) /\ run[r].step = "off" /\ run'[r].step = "open"
           /\ run'[r].spent = 0 /\ run'[r].polls = [v \in Provider |-> 0]
<1>1. run[r].step = "off" /\ run[r].frames = <<>>
  BY DEF TypeInv, Sound, Begin, At, Active
<1> DEFINE fs == Append(<<>>, NewFrame(0))
           zero == [v \in Provider |-> 0]
           u == [run[r] EXCEPT !.step = "open", !.spent = 0, !.polls = zero, !.frames = fs]
<1>2. run' = [run EXCEPT ![r] = u]
  BY <1>1 DEF Begin, Enter, SpentOnEntry, PollsOnEntry
<1> HIDE DEF fs, zero
<1>3. u.step = "open" /\ u.spent = 0 /\ u.polls = zero
  BY RunRecord DEF Runs
<1> HIDE DEF u
<1>4. run'[r] = u /\ Others(r)
  BY <1>2, RunRecord DEF Others
<1> QED BY <1>1, <1>3, <1>4 DEF zero

LEMMA GoToShape ==
    ASSUME TypeInv, NEW r \in Run, NEW step, GoTo(r, step)
    PROVE  Others(r) /\ Keeps(r) /\ run'[r].step = step /\ run'[r].day = run[r].day
<1> DEFINE u == [run[r] EXCEPT !.step = step]
<1>1. run' = [run EXCEPT ![r] = u]
  BY DEF GoTo
<1>2. u.step = step /\ u.spent = run[r].spent /\ u.polls = run[r].polls /\ u.day = run[r].day
  BY RunRecord DEF Runs
<1> HIDE DEF u
<1>3. run'[r] = u /\ Others(r)
  BY <1>1, RunRecord DEF Others
<1> QED BY <1>2, <1>3 DEF Keeps

LEMMA RecordStartShape ==
    ASSUME TypeInv, NEW r \in Run, RecordStart(r)
    PROVE  Others(r) /\ Keeps(r) /\ run[r].step = "open" /\ run'[r].step = "top"
<1>1. PICK n \in {0, 1} :
        run' = [run EXCEPT ![r].step = "top",
                           ![r].frames = WithFrame(r, [Frame(r) EXCEPT !.row = IF n = 0 THEN day ELSE NoDay])]
  BY DEF RecordStart
<1> DEFINE fs == WithFrame(r, [Frame(r) EXCEPT !.row = IF n = 0 THEN day ELSE NoDay])
           u == [run[r] EXCEPT !.step = "top", !.frames = fs]
<1>2. run' = [run EXCEPT ![r] = u]
  BY <1>1
<1> HIDE DEF fs
<1>3. u.step = "top" /\ u.spent = run[r].spent /\ u.polls = run[r].polls
  BY RunRecord DEF Runs
<1> HIDE DEF u
<1>4. run'[r] = u /\ Others(r)
  BY <1>2, RunRecord DEF Others
<1> QED BY <1>3, <1>4 DEF Keeps, RecordStart, At

LEMMA PrecheckShape ==
    ASSUME TypeInv, NEW r \in Run, Precheck(r)
    PROVE  /\ Others(r) /\ Keeps(r) /\ run[r].step = "top" /\ run'[r].step = "read"
           /\ run'[r].day = day /\ run[r].spent < Ceiling
<1> DEFINE fs == WithFrame(r, [Frame(r) EXCEPT !.steps = @ + 1])
           rolled == guard[Home(r)].window # day
           u == [run[r] EXCEPT !.step = "read", !.day = day, !.rolled = rolled, !.frames = fs]
<1>1. run' = [run EXCEPT ![r] = u]
  BY DEF Precheck
<1> HIDE DEF fs, rolled
<1>2. u.step = "read" /\ u.day = day /\ u.spent = run[r].spent /\ u.polls = run[r].polls
  BY RunRecord DEF Runs
<1> HIDE DEF u
<1>3. run'[r] = u /\ Others(r)
  BY <1>1, RunRecord DEF Others
<1> QED BY <1>2, <1>3 DEF Keeps, Precheck, At

LEMMA ActShape ==
    ASSUME TypeInv, AgentAssumption, NEW r \in Run, Act(r)
    PROVE  /\ Others(r) /\ run[r].step = "act" /\ run'[r].step \in {"act", "open"}
           /\ run'[r].spent = run[r].spent
           /\ \/ Keeps(r) /\ calls' = calls
              \/ \E v \in Provider :
                    /\ run[r].polls[v] < PerProvider
                    /\ run'[r].polls = [run[r].polls EXCEPT ![v] = @ + 1]
                    /\ calls' = [calls EXCEPT ![r][v] = @ + 1]
<1>1. run[r].step \in Active /\ run[r].step = "act"
  BY DEF Act, At, Active
<1>2. Frame(r) \in Frames /\ run[r].frames # <<>>
  BY <1>1, TopFrame DEF TypeInv, Sound
<1> DEFINE tool == Head(Frame(r).batch)
           f == [Frame(r) EXCEPT !.batch = Tail(@), !.calls = @ + 1, !.sigs = Append(@, tool.sig)]
           fs == WithFrame(r, f)
<1>3. tool.provider \in Provider
  <2>1. Frame(r).batch \in Seq(Tool) /\ Frame(r).batch # <<>>
    BY <1>2 DEF Act, Frames
  <2>2. tool \in Tool
    BY <2>1
  <2> QED BY <2>2 DEF Tool
<1>4. \/ Delegate(r, f) /\ calls' = calls
      \/ run' = [run EXCEPT ![r].frames = fs] /\ calls' = calls
      \/ Request(r, f, tool)
  BY DEF Act
<1> HIDE DEF tool
<1>5. CASE Delegate(r, f) /\ calls' = calls
  <2> DEFINE ds == Append(fs, NewFrame(run[r].spent))
             u == [run[r] EXCEPT !.step = "open", !.spent = run[r].spent,
                                 !.polls = run[r].polls, !.frames = ds]
  <2>1. run' = [run EXCEPT ![r] = u]
    BY <1>2, <1>5 DEF Delegate, Enter, SpentOnEntry, PollsOnEntry
  <2> HIDE DEF ds
  <2>2. u.step = "open" /\ u.spent = run[r].spent /\ u.polls = run[r].polls
    BY RunRecord DEF Runs
  <2> HIDE DEF u
  <2>3. run'[r] = u /\ Others(r)
    BY <2>1, RunRecord DEF Others
  <2> QED BY <1>1, <1>5, <2>2, <2>3 DEF Keeps
<1>6. CASE run' = [run EXCEPT ![r].frames = fs] /\ calls' = calls
  <2> DEFINE u == [run[r] EXCEPT !.frames = fs]
  <2>1. run' = [run EXCEPT ![r] = u]
    BY <1>6
  <2> HIDE DEF fs
  <2>2. u.step = run[r].step /\ u.spent = run[r].spent /\ u.polls = run[r].polls
    BY RunRecord DEF Runs
  <2> HIDE DEF u
  <2>3. run'[r] = u /\ Others(r)
    BY <2>1, RunRecord DEF Others
  <2> QED BY <1>1, <1>6, <2>2, <2>3 DEF Keeps
<1>7. CASE Request(r, f, tool)
  <2>1. CASE ~Denied(r, tool) /\ MayPoll(r, tool.provider)
    <3> DEFINE polls == [run[r].polls EXCEPT ![tool.provider] = @ + 1]
               u == [run[r] EXCEPT !.frames = fs, !.polls = polls]
    <3>1. /\ run' = [run EXCEPT ![r].frames = fs, ![r].polls[tool.provider] = @ + 1]
          /\ calls' = [calls EXCEPT ![r][tool.provider] = @ + 1]
          /\ run[r].polls[tool.provider] < PerProvider
      BY <1>7, <2>1 DEF Request, MayPoll
    <3>2. run' = [run EXCEPT ![r] = u]
      BY <3>1
    <3> HIDE DEF fs, polls
    <3>3. u.step = run[r].step /\ u.spent = run[r].spent /\ u.polls = polls
      BY RunRecord DEF Runs
    <3> HIDE DEF u
    <3>4. run'[r] = u /\ Others(r)
      BY <3>2, RunRecord DEF Others
    <3>5. run'[r].polls = [run[r].polls EXCEPT ![tool.provider] = @ + 1]
      BY <3>3, <3>4 DEF polls
    <3> QED BY <1>1, <1>3, <3>1, <3>3, <3>4, <3>5
  <2>2. CASE ~(~Denied(r, tool) /\ MayPoll(r, tool.provider))
    BY <1>6, <1>7, <2>2 DEF Request
  <2> QED BY <2>1, <2>2
<1> QED BY <1>4, <1>5, <1>6, <1>7

LEMMA RecordEndShape ==
    ASSUME TypeInv, NEW r \in Run, RecordEnd(r)
    PROVE  /\ Others(r) /\ run[r].step = "close"
           /\ run'[r].step = "done" \/ (run'[r].step = "act" /\ Keeps(r))
<1> DEFINE rest == SubSeq(run[r].frames, 1, Len(run[r].frames) - 1)
           w == [run[r] EXCEPT !.step = "act", !.frames = rest]
           u == IF rest = <<>> THEN Done ELSE w
<1>1. run' = [run EXCEPT ![r] = u]
  BY DEF RecordEnd
<1> HIDE DEF rest
<1>2. w.step = "act" /\ w.spent = run[r].spent /\ w.polls = run[r].polls
  BY RunRecord DEF Runs
<1>3. Done.step = "done"
  BY DEF Done, Off
<1> HIDE DEF w
<1>4. u = Done \/ u = w
  OBVIOUS
<1> HIDE DEF u
<1>5. run'[r] = u /\ Others(r)
  BY <1>1, RunRecord DEF Others
<1> QED BY <1>2, <1>3, <1>4, <1>5 DEF Keeps, RecordEnd, At

(***************************************************************************)
(* A team and its budgets: while a run is under way its counters say what  *)
(* was charged and asked, and no call is let through at the ceiling.       *)
(***************************************************************************)
Team(r) ==
    /\ run[r].step \in Active => bill[r] = run[r].spent /\ calls[r] = run[r].polls
    /\ run[r].step = "off" => bill[r] = 0 /\ calls[r] = [v \in Provider |-> 0]
    /\ run[r].step \in Asking => run[r].spent < Ceiling
    /\ bill[r] < Ceiling + setup.dear
    /\ \A v \in Provider : calls[r][v] <= PerProvider

TeamInv == \A r \in Run : Team(r)

LEMMA TeamStays ==
    ASSUME TeamInv, NEW q \in Run, run'[q] = run[q], setup' = setup,
           bill'[q] = bill[q], calls'[q] = calls[q]
    PROVE  Team(q)'
BY DEF TeamInv, Team

\* The steps that neither charge nor ask.
LEMMA TeamKept ==
    ASSUME TypeInv, TeamInv, NEW r \in Run, Others(r), Keeps(r), run[r].step \in Active,
           UNCHANGED <<setup, bill, calls>>, run'[r].step # "off",
           run'[r].step \in Asking => run[r].spent < Ceiling
    PROVE  TeamInv'
<1>1. Team(r)'
  BY DEF TeamInv, Team, Keeps
<1>2. \A q \in Run \ {r} : Team(q)'
  BY TeamStays DEF Others
<1> QED BY <1>1, <1>2 DEF TeamInv

LEMMA NextKeepsTeam ==
    ASSUME TypeInv, AgentAssumption, TeamInv, Next
    PROVE  TeamInv'
<1> USE RunRecord
<1>1. ASSUME NEW r \in Run, Begin(r) PROVE TeamInv'
  <2>1. /\ Others(r) /\ run[r].step = "off" /\ run'[r].step = "open"
        /\ run'[r].spent = 0 /\ run'[r].polls = [v \in Provider |-> 0]
        /\ UNCHANGED <<setup, bill, calls>>
    BY <1>1, BeginShape DEF Begin, ghosts
  <2>2. Team(r)'
    BY <2>1 DEF TeamInv, Team, Active, Asking
  <2>3. \A q \in Run \ {r} : Team(q)'
    BY <2>1, TeamStays DEF Others
  <2> QED BY <2>2, <2>3 DEF TeamInv
<1>2. ASSUME NEW r \in Run, RecordStart(r) PROVE TeamInv'
  <2>1. UNCHANGED <<setup, bill, calls>> /\ run[r].step \in Active
    BY <1>2 DEF RecordStart, ghosts, At, Active
  <2> QED BY <1>2, <2>1, RecordStartShape, TeamKept DEF Asking
<1>3. ASSUME NEW r \in Run, Halt(r) \/ CallFails(r) \/ StopActing(r) \/ BatchDone(r) PROVE TeamInv'
  <2>1. run[r].step \in Active /\ UNCHANGED <<setup, bill, calls>>
    BY <1>3 DEF Halt, CallFails, StopActing, BatchDone, At, Active, ghosts
  <2>2. PICK step \in {"close", "top"} : GoTo(r, step)
    BY <1>3 DEF Halt, CallFails, StopActing, BatchDone
  <2> QED BY <2>1, <2>2, GoToShape, TeamKept DEF Asking
<1>4. ASSUME NEW r \in Run, Precheck(r) PROVE TeamInv'
  <2>1. UNCHANGED <<setup, bill, calls>> /\ run[r].step \in Active
    BY <1>4 DEF Precheck, ghosts, At, Active
  <2> QED BY <1>4, <2>1, PrecheckShape, TeamKept
<1>5. ASSUME NEW r \in Run, ReadPeriod(r) PROVE TeamInv'
  <2>1. UNCHANGED <<setup, bill, calls>> /\ run[r].step \in Active /\ run[r].step \in Asking
    BY <1>5 DEF ReadPeriod, ghosts, At, Active, Asking
  <2>2. PICK step \in {"close", "call"} : GoTo(r, step)
    BY <1>5 DEF ReadPeriod
  <2>3. run[r].spent < Ceiling
    BY <2>1 DEF TeamInv, Team
  <2> QED BY <2>1, <2>2, <2>3, GoToShape, TeamKept
<1>6. ASSUME NEW r \in Run, Answer(r) PROVE TeamInv'
  <2>1. PICK cost \in 0 .. setup.dear :
                /\ bill' = [bill EXCEPT ![r] = @ + cost]
                /\ run'[r].spent = run[r].spent + cost
                /\ run'[r].polls = run[r].polls
                /\ run'[r].step \in {"top", "act", "close"}
                /\ Others(r)
    BY <1>6, AnswerCharges DEF Others
  <2>2. run[r].step = "call" /\ UNCHANGED <<setup, calls>> /\ bill \in [Run -> Nat]
    BY <1>6 DEF Answer, At, TypeInv, TypeOK
  <2>3. setup.dear \in Nat /\ Ceiling \in Nat /\ cost \in Nat /\ cost <= setup.dear
    BY SetupTyped DEF AgentAssumption
  <2>4. bill[r] = run[r].spent /\ calls[r] = run[r].polls /\ run[r].spent < Ceiling
    BY <2>2 DEF TeamInv, Team, Active, Asking
  <2>5. bill'[r] = bill[r] + cost /\ \A q \in Run \ {r} : bill'[q] = bill[q]
    BY <2>1, <2>2
  <2>6. bill'[r] < Ceiling + setup.dear
    BY <2>3, <2>4, <2>5
  <2>7. Team(r)'
    BY <2>1, <2>2, <2>4, <2>5, <2>6 DEF TeamInv, Team, Active, Asking
  <2>8. \A q \in Run \ {r} : Team(q)'
    BY <2>1, <2>2, <2>5, TeamStays DEF Others
  <2> QED BY <2>7, <2>8 DEF TeamInv
<1>7. ASSUME NEW r \in Run, Act(r) PROVE TeamInv'
  <2>1. /\ Others(r) /\ run[r].step = "act" /\ run'[r].step \in {"act", "open"}
        /\ run'[r].spent = run[r].spent /\ UNCHANGED <<setup, bill>>
    BY <1>7, ActShape DEF Act
  <2>2. run[r].step \in Active /\ run'[r].step \in Active /\ run'[r].step \notin Asking /\ run'[r].step # "off"
    BY <2>1 DEF Active, Asking
  <2>3. CASE Keeps(r) /\ calls' = calls
    BY <2>1, <2>2, <2>3, TeamKept
  <2>4. CASE \E v \in Provider :
                /\ run[r].polls[v] < PerProvider
                /\ run'[r].polls = [run[r].polls EXCEPT ![v] = @ + 1]
                /\ calls' = [calls EXCEPT ![r][v] = @ + 1]
    <3>1. PICK v \in Provider :
                /\ run[r].polls[v] < PerProvider
                /\ run'[r].polls = [run[r].polls EXCEPT ![v] = @ + 1]
                /\ calls' = [calls EXCEPT ![r][v] = @ + 1]
      BY <2>4
    <3>2. calls[r] = run[r].polls /\ bill[r] = run[r].spent
      BY <2>2 DEF TeamInv, Team
    <3>3. calls'[r] = [calls[r] EXCEPT ![v] = @ + 1] /\ \A q \in Run \ {r} : calls'[q] = calls[q]
      BY <3>1
    <3>4. calls'[r] = run'[r].polls
      BY <3>1, <3>2, <3>3
    <3>5. calls[r][v] + 1 <= PerProvider
      <4>1. calls[r][v] \in Nat /\ PerProvider \in Nat
        BY DEF AgentAssumption
      <4> QED BY <3>1, <3>2, <4>1
    <3>6. \A w \in Provider : calls'[r][w] <= PerProvider
      BY <3>3, <3>5 DEF TeamInv, Team
    <3>7. Team(r)'
      BY <2>1, <2>2, <3>2, <3>4, <3>6 DEF TeamInv, Team
    <3>8. \A q \in Run \ {r} : Team(q)'
      BY <2>1, <3>3, TeamStays DEF Others
    <3> QED BY <3>7, <3>8 DEF TeamInv
  <2> QED BY <1>7, <2>3, <2>4, ActShape
<1>8. ASSUME NEW r \in Run, RecordEnd(r) PROVE TeamInv'
  <2>1. UNCHANGED <<setup, bill, calls>> /\ run[r].step \in Active
    BY <1>8 DEF RecordEnd, ghosts, At, Active
  <2>2. CASE run'[r].step = "done"
    <3>1. Team(r)'
      BY <2>1, <2>2 DEF TeamInv, Team, Active, Asking
    <3>2. \A q \in Run \ {r} : Team(q)'
      BY <1>8, <2>1, RecordEndShape, TeamStays DEF Others
    <3> QED BY <3>1, <3>2 DEF TeamInv
  <2>3. CASE run'[r].step = "act" /\ Keeps(r)
    BY <1>8, <2>1, <2>3, RecordEndShape, TeamKept DEF Asking
  <2> QED BY <1>8, <2>2, <2>3, RecordEndShape
<1>9. ASSUME NEW p \in Proc, Kill(p) PROVE TeamInv'
  <2>1. UNCHANGED <<setup, bill, calls>>
    BY <1>9 DEF Kill
  <2>2. \A q \in Run : run'[q] = run[q] \/ run'[q].step = "done"
    BY <1>9 DEF Kill, Done, Off
  <2>3. ASSUME NEW q \in Run, run'[q].step = "done" PROVE Team(q)'
    BY <2>1, <2>3 DEF TeamInv, Team, Active, Asking
  <2> QED BY <2>1, <2>2, <2>3, TeamStays DEF TeamInv
<1>10. ASSUME Midnight PROVE TeamInv'
  BY <1>10 DEF Midnight, ghosts, TeamInv, Team
<1> QED BY <1>1, <1>2, <1>3, <1>4, <1>5, <1>6, <1>7, <1>8, <1>9, <1>10 DEF Next, Step

LEMMA TeamInvariant == Spec => [](TypeInv /\ TeamInv)
<1> USE AgentAssumption
<1>1. Init => TypeInv /\ TeamInv
  <2> SUFFICES ASSUME Init PROVE TypeInv /\ TeamInv
    OBVIOUS
  <2>1. TypeInv
    BY InitTyped
  <2>2. setup.dear \in Nat \ {0} /\ Ceiling \in Nat \ {0} /\ PerProvider \in Nat
    BY <2>1, SetupTyped DEF AgentAssumption
  <2>3. \A r \in Run : run[r].step = "off" /\ bill[r] = 0 /\ calls[r] = [v \in Provider |-> 0]
    BY DEF Init, Off
  <2>4. TeamInv
    BY <2>2, <2>3 DEF TeamInv, Team, Active, Asking
  <2> QED BY <2>1, <2>4
<1>2. TypeInv /\ TeamInv /\ [Next]_vars => TypeInv' /\ TeamInv'
  <2>1. CASE Next
    BY <2>1, NextTyped, NextKeepsTeam
  <2>2. CASE UNCHANGED vars
    BY <2>2 DEF vars, ghosts, TypeInv, TypeOK, TeamInv, Team
  <2> QED BY <2>1, <2>2
<1> QED BY <1>1, <1>2, PTL DEF Spec

\* A team, its delegates included, never passes its ceiling by as much as its dearest call.
THEOREM CeilingHolds == Spec => []TeamSharesItsCeiling
<1>1. TypeInv /\ TeamInv => TeamSharesItsCeiling
  BY DEF TypeInv, TeamInv, Team, TeamSharesItsCeiling
<1> QED BY <1>1, TeamInvariant, PTL

\* Nor does it ask a provider more often than its root may.
THEOREM ProvidersSpared == Spec => []ProvidersAreSpared
<1>1. TeamInv => ProvidersAreSpared
  BY DEF TeamInv, Team, ProvidersAreSpared
<1> QED BY <1>1, TeamInvariant, PTL

(***************************************************************************)
(* A process and the period's cap.  A run that is due has passed its check *)
(* and is not charged yet, or will pass it whatever was spent because the  *)
(* period has turned since it began; what is spent and what is due stay    *)
(* within one call for every run while the period is the guard's, and the  *)
(* turn adds one for every run but the one that noticed it.                *)
(***************************************************************************)
Of(p) == {r \in Run : Home(r) = p}
Window(p) == guard[p].window
Due(p, d) ==
    {r \in Of(p) : /\ run[r].day = d
                   /\ run[r].step = "call" \/ (run[r].step = "read" /\ d # Window(p))}

Owed(p, d) == spent[p][d] + Cardinality(Due(p, d)) * setup.dear
OneEach(p) == setup.cap - 1 + Cardinality(Of(p)) * setup.dear
Margin(p, d) == IF d = Window(p) THEN 0 ELSE (Cardinality(Of(p)) - 1) * setup.dear

Untouched(p, d) ==
    spent[p][d] = 0 /\ \A r \in Of(p) : run[r].step \in Asking => run[r].day # d
Period(p, d) ==
    /\ d > Window(p) => Untouched(p, d)
    /\ d = Window(p) => spent[p][d] <= guard[p].tally
    /\ d <= Window(p) => Owed(p, d) <= OneEach(p) + Margin(p, d)
Guarded(p) ==
    /\ Window(p) <= day
    /\ Window(p) # NoDay => Of(p) # {}
    /\ \A d \in Day : Period(p, d)
GuardInv == \A p \in Proc : Guarded(p)

LEMMA Times ==
    ASSUME NEW a \in Nat, NEW b \in Nat, NEW k \in Nat
    PROVE  /\ a * k \in Nat
           /\ (a + 1) * k = a * k + k /\ (a + b) * k = a * k + b * k
           /\ a <= b => a * k <= b * k
           /\ (2 * a - 1) * k = a * k + (a - 1) * k
<1>1. a * k \in Nat /\ (a + 1) * k = a * k + k /\ (a + b) * k = a * k + b * k
  OBVIOUS
<1>2. (2 * a - 1) * k = a * k + (a - 1) * k
  OBVIOUS
<1>3. ASSUME a <= b PROVE a * k <= b * k
  <2>1. PICK c \in Nat : b = a + c
    <3>1. b - a \in Nat /\ b = a + (b - a)
      BY <1>3
    <3> QED BY <3>1
  <2>2. b * k = a * k + c * k /\ c * k \in Nat /\ a * k \in Nat
    BY <2>1
  <2> QED BY <2>2
<1> QED BY <1>1, <1>2, <1>3

LEMMA OneMore ==
    ASSUME NEW a \in Nat, NEW k \in Nat
    PROVE  a * k \in Nat /\ (a + 1) * k = a * k + k
BY Times

LEMMA Doubled ==
    ASSUME NEW a \in Nat, NEW k \in Nat
    PROVE  (2 * a - 1) * k = a * k + (a - 1) * k
BY Times

LEMMA Counting ==
    ASSUME AgentAssumption, NEW p, NEW S \in SUBSET Of(p)
    PROVE  /\ IsFiniteSet(S) /\ Cardinality(S) \in Nat /\ Cardinality(Of(p)) \in Nat
           /\ Cardinality(S) <= Cardinality(Of(p))
           /\ \A T \in SUBSET S : Cardinality(T) <= Cardinality(S)
           /\ \A r \in S : Cardinality(S \ {r}) = Cardinality(S) - 1
           /\ Of(p) # {} => Cardinality(Of(p)) >= 1
<1>1. IsFiniteSet(Run) /\ Of(p) \subseteq Run
  BY DEF AgentAssumption, Of
<1>2. IsFiniteSet(Of(p))
  BY <1>1, FS_Subset
<1>3. IsFiniteSet(S) /\ Cardinality(S) <= Cardinality(Of(p))
  BY <1>2, FS_Subset
<1>4. Cardinality(S) \in Nat /\ Cardinality(Of(p)) \in Nat
  BY <1>2, <1>3, FS_CardinalityType
<1>5. \A T \in SUBSET S : Cardinality(T) <= Cardinality(S)
  BY <1>3, FS_Subset
<1>6. \A r \in S : Cardinality(S \ {r}) = Cardinality(S) - 1
  BY <1>3, FS_RemoveElement
<1>7. Of(p) # {} => Cardinality(Of(p)) >= 1
  BY <1>2, <1>4, FS_EmptySet
<1> QED BY <1>3, <1>4, <1>5, <1>6, <1>7

LEMMA GuardTyped ==
    ASSUME TypeInv, AgentAssumption, NEW p \in Proc
    PROVE  /\ guard \in [Proc -> [window : Day \cup {NoDay}, baseline : Nat, tally : Nat]]
           /\ guard[p] \in [window : Day \cup {NoDay}, baseline : Nat, tally : Nat]
           /\ Window(p) \in Day \cup {NoDay} /\ Window(p) \in Int /\ Day \subseteq Nat /\ NoDay = -1
           /\ guard[p].tally \in Nat /\ guard[p].baseline \in Nat
           /\ spent \in [Proc -> [Day -> Nat]] /\ spent[p] \in [Day -> Nat]
           /\ day \in Day
           /\ setup.cap \in Nat \ {0} /\ setup.dear \in Nat \ {0}
<1>1. /\ guard \in [Proc -> [window : Day \cup {NoDay}, baseline : Nat, tally : Nat]]
      /\ spent \in [Proc -> [Day -> Nat]] /\ day \in Day
  BY DEF TypeInv, TypeOK
<1>2. guard[p] \in [window : Day \cup {NoDay}, baseline : Nat, tally : Nat] /\ spent[p] \in [Day -> Nat]
  BY <1>1
<1>3. Window(p) \in Day \cup {NoDay} /\ guard[p].tally \in Nat /\ guard[p].baseline \in Nat
  BY <1>2 DEF Window
<1>4. Day \subseteq Nat /\ NoDay = -1
  BY DEF Day, NoDay, AgentAssumption
<1>5. Window(p) \in Int
  <2>1. CASE Window(p) \in Day
    BY <2>1, <1>4
  <2>2. CASE Window(p) = NoDay
    BY <2>2, <1>4
  <2> QED BY <1>3, <2>1, <2>2
<1> QED BY <1>1, <1>2, <1>3, <1>4, <1>5, SetupTyped

\* What is due may shrink, and what was charged may not grow past the tally.
LEMMA PeriodStays ==
    ASSUME TypeInv, AgentAssumption, NEW p \in Proc, NEW d \in Day, Period(p, d),
           setup' = setup, Window(p)' = Window(p), spent'[p][d] = spent[p][d],
           guard'[p].tally \in Nat, guard'[p].tally >= guard[p].tally,
           Due(p, d)' \subseteq Due(p, d),
           d > Window(p) /\ Untouched(p, d) => Untouched(p, d)'
    PROVE  Period(p, d)'
<1>1. Of(p)' = Of(p)
  BY DEF Of, Home
<1>2. OneEach(p)' = OneEach(p) /\ Margin(p, d)' = Margin(p, d)
  BY <1>1 DEF OneEach, Margin
<1>3. Due(p, d) \subseteq Of(p)
  BY DEF Due
<1> DEFINE a == Cardinality(Due(p, d))
           b == Cardinality(Due(p, d)')
           N == Cardinality(Of(p))
<1>4. a \in Nat /\ b \in Nat /\ N \in Nat /\ b <= a
  BY <1>3, Counting
<1> HIDE DEF a, b, N
<1>5. spent[p][d] \in Nat /\ setup.dear \in Nat /\ setup.cap \in Nat
  BY GuardTyped
<1>6. b * setup.dear \in Nat /\ a * setup.dear \in Nat /\ b * setup.dear <= a * setup.dear
  BY <1>4, <1>5, Times
<1>7. Owed(p, d)' = spent[p][d] + b * setup.dear /\ Owed(p, d) = spent[p][d] + a * setup.dear
  BY DEF Owed, a, b
<1>8. Owed(p, d)' <= Owed(p, d) /\ Owed(p, d)' \in Int /\ Owed(p, d) \in Int
  BY <1>5, <1>6, <1>7
<1>9. N * setup.dear \in Int /\ (N - 1) * setup.dear \in Int
  BY <1>4, <1>5
<1>10. OneEach(p) + Margin(p, d) \in Int
  BY <1>5, <1>9 DEF OneEach, Margin, N
<1>11. guard[p].tally \in Nat /\ Window(p) \in Int
  BY GuardTyped
<1>12. d > Window(p) => Untouched(p, d)'
  BY DEF Period
<1>13. d = Window(p) => spent'[p][d] <= guard'[p].tally
  BY <1>5, <1>11 DEF Period
<1>14. d <= Window(p) => Owed(p, d)' <= OneEach(p) + Margin(p, d)
  BY <1>8, <1>10 DEF Period
<1> QED BY <1>2, <1>12, <1>13, <1>14 DEF Period

\* The window of a guard is the day of some check that has begun.
LEMMA AskedBefore ==
    ASSUME TypeInv, AgentAssumption, GuardInv, NEW r \in Run, run[r].step \in Asking
    PROVE  /\ Home(r) \in Proc /\ r \in Of(Home(r)) /\ run[r].day \in Day
           /\ run[r].day <= Window(Home(r))
<1>1. Home(r) \in Proc /\ r \in Of(Home(r)) /\ run[r].day \in Day
  BY SetupTyped DEF Of, TypeInv, Sound
<1>2. ~ Untouched(Home(r), run[r].day)
  BY <1>1 DEF Untouched
<1>3. ~ (run[r].day > Window(Home(r)))
  BY <1>1, <1>2 DEF GuardInv, Guarded, Period
<1>4. run[r].day \in Int /\ Window(Home(r)) \in Int
  BY <1>1, GuardTyped
<1> QED BY <1>1, <1>3, <1>4

\* A step that concerns no run of p, and a step after which its run asks nothing.
LEMMA ElsewhereGuarded ==
    ASSUME TypeInv, AgentAssumption, NEW p \in Proc, Guarded(p), setup' = setup,
           day' \in Day, day' >= day, guard'[p] = guard[p], spent'[p] = spent[p],
           \A q \in Of(p) : run'[q] = run[q] \/ run'[q].step \notin Asking
    PROVE  Guarded(p)'
<1>1. Of(p)' = Of(p) /\ Window(p)' = Window(p)
  BY DEF Of, Home, Window
<1>2. Window(p)' <= day'
  <2>1. Window(p) \in Int /\ day \in Int /\ day' \in Int
    BY GuardTyped
  <2> QED BY <1>1, <2>1 DEF Guarded
<1>3. ASSUME NEW d \in Day PROVE Period(p, d)'
  <2>1. Due(p, d)' \subseteq Due(p, d)
    BY <1>1 DEF Due, Asking
  <2>2. Untouched(p, d) => Untouched(p, d)'
    BY <1>1 DEF Untouched
  <2>3. guard'[p].tally \in Nat /\ guard'[p].tally >= guard[p].tally
    BY GuardTyped
  <2> QED BY <1>1, <2>1, <2>2, <2>3, PeriodStays DEF Guarded
<1> QED BY <1>1, <1>2, <1>3 DEF Guarded

LEMMA QuietGuarded ==
    ASSUME TypeInv, AgentAssumption, GuardInv, NEW r \in Run, Others(r), run'[r].step \notin Asking,
           UNCHANGED <<setup, day, guard, spent>>
    PROVE  GuardInv'
<1>1. day \in Day /\ day' = day /\ day' >= day
  BY DEF TypeInv, TypeOK, Day
<1> QED BY <1>1, ElsewhereGuarded DEF GuardInv, Others, Of

\* The answer is charged to the day its check began, and the run is no longer due.
LEMMA AnswerGuarded ==
    ASSUME TypeInv, AgentAssumption, GuardInv, NEW r \in Run, Answer(r)
    PROVE  GuardInv'
<1>0. run[r].step = "call" /\ run[r].step \in Asking /\ UNCHANGED <<setup, day>>
  BY DEF Answer, At, Asking
<1> PICK p \in Proc, e \in Day : p = Home(r) /\ e = run[r].day
  BY <1>0, AskedBefore
<1>1. PICK cost \in 0 .. setup.dear :
        /\ guard' = [guard EXCEPT ![p].tally = @ + cost]
        /\ spent' = [spent EXCEPT ![p][e] = @ + cost]
        /\ run'[r].step \in {"top", "act", "close"}
        /\ \A q \in Run \ {r} : run'[q] = run[q]
  BY AnswerCharges
<1>2. run'[r].step \notin Asking
  BY <1>1 DEF Asking
<1>3. r \in Of(p) /\ e <= Window(p)
  BY <1>0, AskedBefore
<1>4. /\ guard \in [Proc -> [window : Day \cup {NoDay}, baseline : Nat, tally : Nat]]
      /\ spent \in [Proc -> [Day -> Nat]] /\ guard[p].tally \in Nat /\ day \in Day /\ Day \subseteq Nat
      /\ Window(p) \in Int /\ setup.dear \in Nat /\ setup.cap \in Nat
  BY <1>3, GuardTyped
<1>5. cost \in Nat /\ cost <= setup.dear
  BY <1>4
<1>6. /\ guard'[p].window = guard[p].window /\ guard'[p].tally = guard[p].tally + cost
      /\ \A q \in Proc \ {p} : guard'[q] = guard[q] /\ spent'[q] = spent[q]
      /\ spent'[p][e] = spent[p][e] + cost
      /\ \A d \in Day \ {e} : spent'[p][d] = spent[p][d]
  BY <1>1, <1>3, <1>4
<1>7. Of(p)' = Of(p) /\ Window(p)' = Window(p)
  BY <1>0, <1>6 DEF Of, Home, Window
<1>8. ASSUME NEW d \in Day PROVE Due(p, d)' = Due(p, d) \ {r}
  <2>1. Of(p) \subseteq Run
    BY DEF Of
  <2>2. \A q \in Of(p)' : q # r => run'[q] = run[q]
    BY <1>1, <1>7, <2>1
  <2> QED BY <1>2, <1>7, <2>2 DEF Due, Asking
<1>9. ASSUME NEW d \in Day \ {e} PROVE Period(p, d)'
  <2>1. Untouched(p, d) => Untouched(p, d)'
    BY <1>1, <1>2, <1>6, <1>7, <1>9 DEF Untouched, Of
  <2>2. guard'[p].tally \in Nat /\ guard'[p].tally >= guard[p].tally
    BY <1>4, <1>5, <1>6
  <2> QED BY <1>0, <1>6, <1>7, <1>8, <2>1, <2>2, PeriodStays DEF GuardInv, Guarded
<1>10. Period(p, e)'
  <2> DEFINE a == Cardinality(Due(p, e) \ {r})
             N == Cardinality(Of(p))
  <2>1. r \in Due(p, e) /\ Due(p, e) \subseteq Of(p)
    BY <1>0, <1>3 DEF Due
  <2>2. a \in Nat /\ Cardinality(Due(p, e)) = a + 1 /\ N \in Nat
    <3>1. Cardinality(Due(p, e)) \in Nat /\ a = Cardinality(Due(p, e)) - 1 /\ N \in Nat
      BY <2>1, Counting
    <3>2. a \in Nat
      <4>1. Due(p, e) \ {r} \in SUBSET Of(p)
        BY <2>1
      <4> QED BY <4>1, Counting
    <3> QED BY <3>1, <3>2
  <2>3. Owed(p, e)' = spent[p][e] + cost + a * setup.dear
    BY <1>0, <1>6, <1>8 DEF Owed
  <2>4. Owed(p, e) = spent[p][e] + (a + 1) * setup.dear
    BY <2>2 DEF Owed
  <2> HIDE DEF a, N
  <2>5. a * setup.dear \in Nat /\ (a + 1) * setup.dear = a * setup.dear + setup.dear
    BY <1>4, <2>2, OneMore
  <2>6. spent[p][e] \in Nat
    BY <1>3, <1>4
  <2>7. Owed(p, e)' <= Owed(p, e) /\ Owed(p, e)' \in Int /\ Owed(p, e) \in Int
    BY <1>4, <1>5, <2>3, <2>4, <2>5, <2>6
  <2>8. OneEach(p) + Margin(p, e) \in Int
    <3>1. N * setup.dear \in Int /\ (N - 1) * setup.dear \in Int
      BY <1>4, <2>2
    <3> QED BY <1>4, <3>1 DEF OneEach, Margin, N
  <2>9. Owed(p, e) <= OneEach(p) + Margin(p, e) /\ (e = Window(p) => spent[p][e] <= guard[p].tally)
    BY <1>3 DEF GuardInv, Guarded, Period
  <2>10. OneEach(p)' = OneEach(p) /\ Margin(p, e)' = Margin(p, e)
    BY <1>0, <1>7 DEF OneEach, Margin
  <2>11. Owed(p, e)' <= OneEach(p) + Margin(p, e)
    BY <2>7, <2>8, <2>9
  <2>12. e = Window(p) => spent'[p][e] <= guard'[p].tally
    <3>1. /\ spent'[p][e] = spent[p][e] + cost /\ guard'[p].tally = guard[p].tally + cost
          /\ cost \in Nat /\ guard[p].tally \in Nat
      BY <1>4, <1>5, <1>6
    <3> QED BY <2>6, <2>9, <3>1
  <2>13. e \in Int /\ Window(p) \in Int
    BY <1>4
  <2> QED BY <1>3, <1>7, <2>10, <2>11, <2>12, <2>13 DEF Period
<1>11. /\ Guarded(p)'
       /\ \A q \in Proc \ {p} : Guarded(q)'
  <2>1. Guarded(p)'
    BY <1>0, <1>7, <1>9, <1>10 DEF GuardInv, Guarded
  <2>2. ASSUME NEW q \in Proc \ {p} PROVE Guarded(q)'
    <3>1. day' \in Day /\ day' >= day
      BY <1>0, <1>4
    <3>2. \A u \in Of(q) : run'[u] = run[u]
      BY <1>1, <1>3 DEF Of
    <3> QED BY <1>0, <1>6, <3>1, <3>2, ElsewhereGuarded DEF GuardInv
  <2> QED BY <2>1, <2>2
<1> QED BY <1>11 DEF GuardInv

\* What OneEach and Margin are, as numbers.
LEMMA Bounds ==
    ASSUME TypeInv, AgentAssumption, NEW p \in Proc, NEW d \in Day
    PROVE  /\ Cardinality(Of(p)) \in Nat /\ Cardinality(Of(p)) * setup.dear \in Nat
           /\ OneEach(p) \in Nat /\ OneEach(p) = setup.cap - 1 + Cardinality(Of(p)) * setup.dear
           /\ Of(p) # {} => /\ Cardinality(Of(p)) >= 1
                            /\ (Cardinality(Of(p)) - 1) * setup.dear \in Nat
                            /\ Margin(p, d) \in Nat
<1> DEFINE N == Cardinality(Of(p))
<1>1. N \in Nat /\ (Of(p) # {} => N >= 1)
  BY Counting
<1>2. setup.dear \in Nat /\ setup.cap \in Nat \ {0}
  BY GuardTyped
<1> HIDE DEF N
<1>3. N * setup.dear \in Nat
  BY <1>1, <1>2, OneMore
<1>4. Of(p) # {} => N - 1 \in Nat
  BY <1>1
<1>5. Of(p) # {} => (N - 1) * setup.dear \in Nat
  BY <1>2, <1>4, OneMore
<1>6. OneEach(p) = setup.cap - 1 + N * setup.dear
  BY DEF OneEach, N
<1>7. OneEach(p) \in Nat
  BY <1>2, <1>3, <1>6
<1>8. Of(p) # {} => Margin(p, d) \in Nat
  BY <1>5 DEF Margin, N
<1> QED BY <1>1, <1>3, <1>5, <1>6, <1>7, <1>8 DEF N

\* A run let through in its own period finds the tally below the cap, and there are no more
\* runs due than there are runs; one whose period is over was due already.
LEMMA ReadPeriodGuarded ==
    ASSUME TypeInv, AgentAssumption, GuardInv, NEW r \in Run, ReadPeriod(r)
    PROVE  GuardInv'
<1>0. run[r].step = "read" /\ run[r].step \in Asking /\ UNCHANGED <<setup, day, spent>>
  BY DEF ReadPeriod, At, Asking, ghosts
<1> PICK p \in Proc, e \in Day : p = Home(r) /\ e = run[r].day
  BY <1>0, AskedBefore
<1> DEFINE Guards == [window : Day \cup {NoDay}, baseline : Nat, tally : Nat]
<1>1. /\ guard \in [Proc -> Guards] /\ guard[p] \in Guards /\ spent \in [Proc -> [Day -> Nat]]
      /\ guard[p].tally \in Nat /\ day \in Day /\ Day \subseteq Nat
      /\ Window(p) \in Int /\ setup.dear \in Nat /\ setup.cap \in Nat \ {0}
  BY GuardTyped
<1>2. r \in Of(p) /\ e <= Window(p) /\ committed[e] \in Nat
  BY <1>0, AskedBefore DEF TypeInv, TypeOK
<1>3. \E rows \in Nat, g \in Guards :
        /\ g.window = guard[p].window /\ g.tally = guard[p].tally
        /\ guard' = [guard EXCEPT ![p] = g]
        /\ \/ GoTo(r, "close")
           \/ GoTo(r, "call") /\ PeriodSpent(g, rows) < setup.cap
  <2>1. PICK n \in {0, 1} :
          LET rows == IF n = 0 THEN committed[e] ELSE guard[p].baseline
              g == IF n = 0 /\ run[r].rolled THEN [guard[p] EXCEPT !.baseline = rows] ELSE guard[p]
          IN /\ guard' = [guard EXCEPT ![p] = g]
             /\ GoTo(r, IF PeriodSpent(g, rows) >= setup.cap THEN "close" ELSE "call")
    BY DEF ReadPeriod
  <2> DEFINE rows == IF n = 0 THEN committed[e] ELSE guard[p].baseline
             g == IF n = 0 /\ run[r].rolled THEN [guard[p] EXCEPT !.baseline = rows] ELSE guard[p]
  <2>2. rows \in Nat
    BY <1>1, <1>2
  <2>3. /\ guard' = [guard EXCEPT ![p] = g]
        /\ GoTo(r, IF PeriodSpent(g, rows) >= setup.cap THEN "close" ELSE "call")
    BY <2>1
  <2> HIDE DEF rows
  <2>4. g \in Guards /\ g.window = guard[p].window /\ g.tally = guard[p].tally
    BY <1>1, <2>2
  <2> HIDE DEF g
  <2>5. PeriodSpent(g, rows) \in Int
    BY <2>2, <2>4 DEF PeriodSpent
  <2>6. \/ GoTo(r, "close")
        \/ GoTo(r, "call") /\ PeriodSpent(g, rows) < setup.cap
    BY <1>1, <2>3, <2>5
  <2> QED BY <2>2, <2>3, <2>4, <2>6
<1>4. PICK rows \in Nat, g \in Guards :
        /\ g.window = guard[p].window /\ g.tally = guard[p].tally
        /\ guard' = [guard EXCEPT ![p] = g]
        /\ \/ GoTo(r, "close")
           \/ GoTo(r, "call") /\ PeriodSpent(g, rows) < setup.cap
  BY <1>3
<1>5. /\ guard'[p].window = guard[p].window /\ guard'[p].tally = guard[p].tally
      /\ \A q \in Proc \ {p} : guard'[q] = guard[q]
  BY <1>1, <1>4
<1>6. Of(p)' = Of(p) /\ Window(p)' = Window(p) /\ Of(p) \subseteq Run
  BY <1>0, <1>5 DEF Of, Home, Window
<1>7. /\ run'[r].day = e /\ run'[r].step \in {"close", "call"}
      /\ \A q \in Run \ {r} : run'[q] = run[q]
      /\ run'[r].step = "call" => PeriodSpent(g, rows) < setup.cap
  BY <1>4, GoToShape DEF Others
<1>8. ASSUME NEW d \in Day, d # e \/ d # Window(p) \/ run'[r].step # "call"
      PROVE  Period(p, d)'
  <2>1. \A q \in Of(p) : q # r => run'[q] = run[q]
    BY <1>6, <1>7
  <2>2. Due(p, d)' \subseteq Due(p, d)
    BY <1>0, <1>6, <1>7, <1>8, <2>1 DEF Due
  <2>3. d > Window(p) => d # e
    BY <1>1, <1>2
  <2>4. d > Window(p) /\ Untouched(p, d) => Untouched(p, d)'
    BY <1>0, <1>6, <1>7, <2>1, <2>3 DEF Untouched
  <2>5. guard'[p].tally \in Nat /\ guard'[p].tally >= guard[p].tally
    BY <1>1, <1>5
  <2> QED BY <1>0, <1>6, <2>2, <2>4, <2>5, PeriodStays DEF GuardInv, Guarded
<1>9. ASSUME e = Window(p), run'[r].step = "call"
      PROVE  Period(p, e)'
  <2>1. guard[p].tally <= setup.cap - 1
    <3>1. PeriodSpent(g, rows) < setup.cap /\ g.tally \in Nat /\ g.baseline \in Nat /\ rows \in Nat
      BY <1>7, <1>9
    <3>2. g.tally < setup.cap
      BY <1>1, <3>1 DEF PeriodSpent
    <3> QED BY <1>1, <1>4, <3>2
  <2>2. spent[p][e] <= guard[p].tally /\ spent[p][e] \in Nat
    BY <1>1, <1>9 DEF GuardInv, Guarded, Period
  <2> DEFINE b == Cardinality(Due(p, e)')
             N == Cardinality(Of(p))
  <2>3. b \in Nat /\ N \in Nat /\ b <= N
    <3>1. Due(p, e)' \in SUBSET Of(p)
      BY <1>6 DEF Due
    <3> QED BY <3>1, Counting
  <2>4. Owed(p, e)' = spent[p][e] + b * setup.dear
    BY <1>0 DEF Owed
  <2>5. OneEach(p)' = setup.cap - 1 + N * setup.dear /\ Margin(p, e)' = 0
    BY <1>0, <1>6, <1>9 DEF OneEach, Margin
  <2> HIDE DEF b, N
  <2>6. b * setup.dear <= N * setup.dear /\ b * setup.dear \in Nat /\ N * setup.dear \in Nat
    BY <1>1, <2>3, Times
  <2>7. Owed(p, e)' <= OneEach(p)' + Margin(p, e)'
    BY <1>1, <2>1, <2>2, <2>4, <2>5, <2>6
  <2>8. spent'[p][e] <= guard'[p].tally
    BY <1>0, <1>5, <2>2
  <2>9. e \in Int /\ e = Window(p)'
    BY <1>1, <1>6, <1>9
  <2> QED BY <2>7, <2>8, <2>9 DEF Period
<1>10. Guarded(p)'
  <2>1. \A d \in Day : Period(p, d)'
    BY <1>8, <1>9
  <2> QED BY <1>0, <1>6, <2>1 DEF GuardInv, Guarded
<1>11. ASSUME NEW q \in Proc \ {p} PROVE Guarded(q)'
  <2>1. day' \in Day /\ day' >= day
    BY <1>0, <1>1
  <2>2. \A u \in Of(q) : run'[u] = run[u]
    BY <1>7 DEF Of
  <2> QED BY <1>0, <1>5, <2>1, <2>2, ElsewhereGuarded DEF GuardInv
<1> QED BY <1>10, <1>11 DEF GuardInv

\* A check that begins in the guard's period asks for nothing new.  One that finds the period
\* over starts a period nobody was charged under, and leaves the runs still asking under the
\* last one due: all but itself.
LEMMA PrecheckGuarded ==
    ASSUME TypeInv, AgentAssumption, GuardInv, NEW r \in Run, Precheck(r)
    PROVE  GuardInv'
<1>0. UNCHANGED <<setup, day, spent>>
  BY DEF Precheck, ghosts
<1> PICK p \in Proc : p = Home(r)
  BY SetupTyped
<1>1. /\ guard \in [Proc -> [window : Day \cup {NoDay}, baseline : Nat, tally : Nat]]
      /\ guard[p] \in [window : Day \cup {NoDay}, baseline : Nat, tally : Nat]
      /\ spent \in [Proc -> [Day -> Nat]] /\ spent[p] \in [Day -> Nat]
      /\ guard[p].tally \in Nat /\ day \in Day /\ Day \subseteq Nat
      /\ Window(p) \in Int /\ setup.dear \in Nat /\ setup.cap \in Nat \ {0}
  BY GuardTyped
<1>2. /\ run'[r].day = day /\ run[r].step = "top" /\ run'[r].step = "read"
      /\ \A q \in Run \ {r} : run'[q] = run[q]
  BY PrecheckShape DEF Others
<1>3. r \in Of(p) /\ Of(p) \subseteq Run /\ Of(p)' = Of(p)
  BY <1>0 DEF Of, Home
<1>4. \A q \in Of(p) : q # r => run'[q] = run[q]
  BY <1>2, <1>3
<1>5. ASSUME NEW q \in Proc \ {p} PROVE Guarded(q)'
  <2>1. day' \in Day /\ day' >= day
    BY <1>0, <1>1
  <2>2. \A u \in Of(q) : run'[u] = run[u]
    BY <1>2 DEF Of
  <2>3. guard'[q] = guard[q]
    BY <1>1 DEF Precheck
  <2> QED BY <1>0, <2>1, <2>2, <2>3, ElsewhereGuarded DEF GuardInv
<1>6. Guarded(p)'
  <2>1. CASE Window(p) = day
    <3>1. guard' = guard
      BY <2>1 DEF Precheck, Window
    <3>2. Window(p)' = Window(p)
      BY <3>1 DEF Window
    <3>3. ASSUME NEW d \in Day PROVE Period(p, d)'
      <4>1. Due(p, d)' \subseteq Due(p, d)
        BY <1>2, <1>3, <1>4, <2>1, <3>2 DEF Due
      <4>2. d > Window(p) => d # day
        BY <1>1, <2>1
      <4>3. d > Window(p) /\ Untouched(p, d) => Untouched(p, d)'
        BY <1>0, <1>2, <1>3, <1>4, <4>2 DEF Untouched
      <4>4. guard'[p].tally \in Nat /\ guard'[p].tally >= guard[p].tally
        BY <1>1, <3>1
      <4> QED BY <1>0, <3>2, <4>1, <4>3, <4>4, PeriodStays DEF GuardInv, Guarded
    <3> QED BY <1>0, <1>3, <3>2, <3>3 DEF GuardInv, Guarded
  <2>2. CASE Window(p) # day
    <3>1. guard'[p].window = day /\ guard'[p].tally = 0
      BY <1>1, <2>2 DEF Precheck, Window
    <3>2. Window(p)' = day /\ Window(p) < day
      <4>1. Window(p)' = day
        BY <3>1 DEF Window
      <4>2. Window(p) <= day
        BY DEF GuardInv, Guarded
      <4>3. day \in Int /\ Window(p) \in Int
        BY <1>1
      <4> QED BY <2>2, <4>1, <4>2, <4>3
    <3>3. ASSUME NEW d \in Day, d < Window(p) PROVE Period(p, d)'
      <4>1. d # Window(p) /\ d # day /\ d < day /\ ~ (d > day)
        BY <1>1, <3>2, <3>3
      <4>2. Due(p, d)' \subseteq Due(p, d) /\ Due(p, d) \subseteq Of(p)
        BY <1>2, <1>3, <1>4, <3>2, <4>1 DEF Due
      <4> DEFINE a == Cardinality(Due(p, d))
                 b == Cardinality(Due(p, d)')
      <4>3. a \in Nat /\ b \in Nat /\ b <= a
        BY <4>2, Counting
      <4>4. Owed(p, d)' = spent[p][d] + b * setup.dear /\ Owed(p, d) = spent[p][d] + a * setup.dear
        BY <1>0 DEF Owed
      <4> HIDE DEF a, b
      <4>5. b * setup.dear <= a * setup.dear /\ b * setup.dear \in Nat /\ a * setup.dear \in Nat
        BY <1>1, <4>3, Times
      <4>6. OneEach(p)' = OneEach(p) /\ Margin(p, d)' = Margin(p, d)
        BY <1>0, <1>3, <3>2, <4>1 DEF OneEach, Margin
      <4>7. Owed(p, d) <= OneEach(p) + Margin(p, d)
        BY <1>1, <3>3 DEF GuardInv, Guarded, Period
      <4>8. OneEach(p) \in Nat /\ Margin(p, d) \in Nat /\ spent[p][d] \in Nat
        BY <1>1, <1>3, Bounds
      <4>9. Owed(p, d)' <= OneEach(p)' + Margin(p, d)'
        BY <4>4, <4>5, <4>6, <4>7, <4>8
      <4> QED BY <3>2, <4>1, <4>9 DEF Period
    <3>4. ASSUME NEW d \in Day, d = Window(p) PROVE Period(p, d)'
      <4>1. d # day /\ d < day /\ ~ (d > day)
        BY <1>1, <3>2, <3>4
      <4>2. Due(p, d)' \subseteq Of(p) \ {r}
        BY <1>2, <1>3, <1>4, <4>1 DEF Due
      <4> DEFINE a == Cardinality(Due(p, d))
                 b == Cardinality(Due(p, d)')
                 N == Cardinality(Of(p))
      <4>3. a \in Nat /\ b \in Nat /\ N \in Nat /\ N - 1 \in Nat /\ b <= N - 1
        <5>1. Due(p, d) \in SUBSET Of(p) /\ Of(p) \ {r} \in SUBSET Of(p) /\ Of(p) \in SUBSET Of(p)
          BY DEF Due
        <5>2. Cardinality(Of(p) \ {r}) = N - 1 /\ N - 1 \in Nat /\ a \in Nat /\ N \in Nat
          BY <1>3, <5>1, Counting
        <5>3. b \in Nat /\ b <= Cardinality(Of(p) \ {r})
          BY <4>2, <5>1, Counting
        <5> QED BY <5>2, <5>3
      <4>4. Owed(p, d)' = spent[p][d] + b * setup.dear /\ Owed(p, d) = spent[p][d] + a * setup.dear
        BY <1>0 DEF Owed
      <4>5. Margin(p, d)' = (N - 1) * setup.dear /\ Margin(p, d) = 0
        BY <1>0, <1>3, <3>2, <3>4, <4>1 DEF Margin
      <4> HIDE DEF a, b, N
      <4>6. /\ b * setup.dear <= (N - 1) * setup.dear /\ b * setup.dear \in Nat
            /\ (N - 1) * setup.dear \in Nat /\ a * setup.dear \in Nat
        <5> DEFINE M == N - 1
        <5>1. M \in Nat /\ b <= M
          BY <4>3
        <5> HIDE DEF M
        <5>2. b * setup.dear <= M * setup.dear /\ b * setup.dear \in Nat /\ M * setup.dear \in Nat
          BY <1>1, <4>3, <5>1, Times
        <5>3. a * setup.dear \in Nat
          BY <1>1, <4>3, OneMore
        <5> QED BY <5>2, <5>3 DEF M
      <4>7. OneEach(p)' = OneEach(p)
        BY <1>0, <1>3 DEF OneEach
      <4>8. Owed(p, d) <= OneEach(p) + Margin(p, d)
        BY <1>1, <3>4 DEF GuardInv, Guarded, Period
      <4>9. OneEach(p) \in Nat /\ spent[p][d] \in Nat
        BY <1>1, Bounds
      <4>10. Owed(p, d)' <= OneEach(p)' + Margin(p, d)'
        BY <4>4, <4>5, <4>6, <4>7, <4>8, <4>9
      <4> QED BY <3>2, <4>1, <4>10 DEF Period
    <3>5. ASSUME NEW d \in Day, d > Window(p) PROVE Period(p, d)'
      <4>1. Untouched(p, d)
        BY <3>5 DEF GuardInv, Guarded, Period
      <4>2. d # day => Untouched(p, d)'
        BY <1>0, <1>2, <1>3, <1>4, <4>1 DEF Untouched
      <4>3. Due(p, d)' = {}
        BY <1>2, <1>3, <1>4, <3>2, <4>1 DEF Due, Untouched, Asking
      <4>4. Owed(p, d)' = 0
        <5>1. Cardinality(Due(p, d)') = 0
          BY <4>3, FS_EmptySet
        <5>2. spent'[p][d] = 0
          BY <1>0, <4>1 DEF Untouched
        <5> QED BY <1>0, <1>1, <5>1, <5>2 DEF Owed
      <4>5. OneEach(p)' \in Nat /\ Margin(p, d)' \in Nat
        <5>1. OneEach(p) \in Nat /\ (Cardinality(Of(p)) - 1) * setup.dear \in Nat
          BY <1>3, Bounds
        <5> QED BY <1>0, <1>3, <5>1 DEF OneEach, Margin
      <4>6. d > day => d # day
        BY <1>1
      <4>7. spent'[p][d] <= guard'[p].tally
        BY <1>0, <3>1, <4>1 DEF Untouched
      <4>8. Owed(p, d)' <= OneEach(p)' + Margin(p, d)'
        BY <4>4, <4>5
      <4> QED BY <3>2, <4>2, <4>6, <4>7, <4>8 DEF Period
    <3>6. ASSUME NEW d \in Day PROVE Period(p, d)'
      <4>1. d \in Int /\ Window(p) \in Int
        BY <1>1
      <4>2. d < Window(p) \/ d = Window(p) \/ d > Window(p)
        BY <4>1
      <4> QED BY <3>3, <3>4, <3>5, <4>2
    <3>7. Window(p)' <= day'
      BY <1>0, <1>1, <3>2
    <3> QED BY <1>3, <3>6, <3>7 DEF Guarded
  <2> QED BY <2>1, <2>2
<1> QED BY <1>5, <1>6 DEF GuardInv

\* A process that starts again has nothing charged and nobody asking.
LEMMA KillGuarded ==
    ASSUME TypeInv, AgentAssumption, GuardInv, NEW p \in Proc, Kill(p)
    PROVE  GuardInv'
<1>0. UNCHANGED <<setup, day>>
  BY DEF Kill
<1>1. /\ guard \in [Proc -> [window : Day \cup {NoDay}, baseline : Nat, tally : Nat]]
      /\ spent \in [Proc -> [Day -> Nat]] /\ day \in Day /\ Day \subseteq Nat /\ NoDay = -1
  BY GuardTyped
<1>2. /\ guard'[p] = NewGuard /\ spent'[p] = [d \in Day |-> 0]
      /\ \A q \in Proc \ {p} : guard'[q] = guard[q] /\ spent'[q] = spent[q]
  BY <1>1 DEF Kill
<1>3. \A q \in Proc : Of(q)' = Of(q) /\ Of(q) \subseteq Run
  BY <1>0 DEF Of, Home
<1>4. ASSUME NEW q \in Proc \ {p} PROVE Guarded(q)'
  <2>1. day' \in Day /\ day' >= day
    BY <1>0, <1>1
  <2>2. \A u \in Of(q) : run'[u] = run[u]
    BY DEF Kill, Of
  <2> QED BY <1>0, <1>2, <2>1, <2>2, ElsewhereGuarded DEF GuardInv
<1>5. Guarded(p)'
  <2>1. Window(p)' = NoDay
    BY <1>2 DEF Window, NewGuard
  <2>2. \A u \in Of(p) : run'[u].step \notin Asking
    <3>1. \A u \in Of(p) : run'[u] = IF ~At(u, "off") THEN Done ELSE run[u]
      BY DEF Kill, Of
    <3>2. Done.step = "done"
      BY DEF Done, Off
    <3> QED BY <3>1, <3>2 DEF At, Asking
  <2>3. ASSUME NEW d \in Day PROVE Period(p, d)'
    <3>1. Untouched(p, d)'
      BY <1>2, <1>3, <2>2 DEF Untouched
    <3>2. d # NoDay /\ ~ (d <= NoDay)
      BY <1>1
    <3> QED BY <2>1, <3>1, <3>2 DEF Period
  <2>4. Window(p)' <= day'
    BY <1>0, <1>1, <2>1
  <2> QED BY <2>1, <2>3, <2>4 DEF Guarded
<1> QED BY <1>4, <1>5 DEF GuardInv

LEMMA MidnightGuarded ==
    ASSUME TypeInv, AgentAssumption, GuardInv, Midnight
    PROVE  GuardInv'
<1>1. UNCHANGED <<setup, run, guard, spent>> /\ day' = day + 1 /\ day < setup.until
  BY DEF Midnight, ghosts
<1>2. day \in Day /\ setup.until \in Day
  BY SetupTyped DEF TypeInv, TypeOK
<1>3. day' \in Day /\ day' >= day
  BY <1>1, <1>2 DEF Day, AgentAssumption
<1> QED BY <1>1, <1>3, ElsewhereGuarded DEF GuardInv

LEMMA NextKeepsGuard ==
    ASSUME TypeInv, AgentAssumption, GuardInv, Next
    PROVE  GuardInv'
<1>1. ASSUME NEW r \in Run, Begin(r) PROVE GuardInv'
  <2>1. Others(r) /\ run'[r].step \notin Asking
    BY <1>1, BeginShape DEF Asking
  <2> QED BY <1>1, <2>1, QuietGuarded DEF Begin, ghosts
<1>2. ASSUME NEW r \in Run, RecordStart(r) PROVE GuardInv'
  <2>1. Others(r) /\ run'[r].step \notin Asking
    BY <1>2, RecordStartShape DEF Asking
  <2> QED BY <1>2, <2>1, QuietGuarded DEF RecordStart, ghosts
<1>3. ASSUME NEW r \in Run, Halt(r) \/ CallFails(r) \/ StopActing(r) \/ BatchDone(r) PROVE GuardInv'
  <2>1. PICK step \in {"close", "top"} : GoTo(r, step)
    BY <1>3 DEF Halt, CallFails, StopActing, BatchDone
  <2>2. Others(r) /\ run'[r].step \notin Asking
    BY <2>1, GoToShape DEF Asking
  <2>3. UNCHANGED <<setup, day, guard, spent>>
    BY <1>3 DEF Halt, CallFails, StopActing, BatchDone, ghosts
  <2> QED BY <2>2, <2>3, QuietGuarded
<1>4. ASSUME NEW r \in Run, Act(r) PROVE GuardInv'
  <2>1. Others(r) /\ run'[r].step \notin Asking
    BY <1>4, ActShape DEF Asking
  <2> QED BY <1>4, <2>1, QuietGuarded DEF Act
<1>5. ASSUME NEW r \in Run, RecordEnd(r) PROVE GuardInv'
  <2>1. Others(r) /\ run'[r].step \notin Asking
    BY <1>5, RecordEndShape DEF Asking
  <2> QED BY <1>5, <2>1, QuietGuarded DEF RecordEnd, ghosts
<1> QED BY <1>1, <1>2, <1>3, <1>4, <1>5, PrecheckGuarded, ReadPeriodGuarded, AnswerGuarded,
           KillGuarded, MidnightGuarded DEF Next, Step

LEMMA GuardInvariant == Spec => [](TypeInv /\ GuardInv)
<1> USE AgentAssumption
<1>1. Init => TypeInv /\ GuardInv
  <2> SUFFICES ASSUME Init PROVE TypeInv /\ GuardInv
    OBVIOUS
  <2>1. TypeInv
    BY InitTyped
  <2>2. ASSUME NEW p \in Proc PROVE Guarded(p)
    <3>1. Window(p) = NoDay /\ NoDay = -1 /\ Day \subseteq Nat /\ day \in Day
      BY <2>1, GuardTyped DEF Init, NewGuard, Window
    <3>2. \A r \in Run : run[r].step \notin Asking
      BY DEF Init, Off, Asking
    <3>3. ASSUME NEW d \in Day PROVE Period(p, d)
      <4>1. Untouched(p, d)
        BY <3>2 DEF Untouched, Init, Of
      <4>2. d # NoDay /\ ~ (d <= NoDay)
        BY <3>1
      <4> QED BY <3>1, <4>1, <4>2 DEF Period
    <3>4. Window(p) <= day
      <4>1. day \in Nat
        BY <3>1
      <4> QED BY <3>1, <4>1
    <3> QED BY <3>1, <3>3, <3>4 DEF Guarded
  <2> QED BY <2>1, <2>2 DEF GuardInv
<1>2. TypeInv /\ GuardInv /\ [Next]_vars => TypeInv' /\ GuardInv'
  <2>1. CASE Next
    BY <2>1, NextTyped, NextKeepsGuard
  <2>2. CASE UNCHANGED vars
    <3>1. TypeInv'= TypeInv
      BY <2>2 DEF vars, ghosts, TypeInv, TypeOK
    <3>2. GuardInv' = GuardInv
      BY <2>2 DEF vars, ghosts, GuardInv, Guarded, Period, Untouched, Owed, OneEach, Margin, Due, Of, Home, Window
    <3> QED BY <3>1, <3>2
  <2> QED BY <2>1, <2>2
<1> QED BY <1>1, <1>2, PTL DEF Spec

\* What a process's own runs are charged under one period stays below the cap and one call
\* for each of them, with one more for each but one whose check was open when the period
\* turned: whatever other processes do, whatever is lost, and whatever the rows say.
THEOREM ProcessBounded == Spec => []ProcessWithinCap
<1> USE AgentAssumption
<1>1. TypeInv /\ GuardInv => ProcessWithinCap
  <2> SUFFICES ASSUME TypeInv, GuardInv, NEW p \in Proc, NEW d \in Day, spent[p][d] > 0
               PROVE  spent[p][d] < setup.cap + (2 * Cardinality(Of(p)) - 1) * setup.dear
    BY DEF ProcessWithinCap, Of
  <2>1. /\ Window(p) \in Int /\ d \in Nat /\ NoDay = -1 /\ spent[p][d] \in Nat
        /\ setup.dear \in Nat /\ setup.cap \in Nat \ {0}
    BY GuardTyped
  <2>2. d <= Window(p)
    <3>1. ~ Untouched(p, d)
      BY <2>1 DEF Untouched
    <3> QED BY <2>1, <3>1 DEF GuardInv, Guarded, Period
  <2>3. Of(p) # {}
    BY <2>1, <2>2 DEF GuardInv, Guarded
  <2> DEFINE N == Cardinality(Of(p))
             a == Cardinality(Due(p, d))
  <2>4. a \in Nat
    <3>1. Due(p, d) \in SUBSET Of(p)
      BY DEF Due
    <3> QED BY <3>1, Counting
  <2>5. /\ N \in Nat /\ N * setup.dear \in Nat /\ (N - 1) * setup.dear \in Nat
        /\ OneEach(p) = setup.cap - 1 + N * setup.dear
    BY <2>3, Bounds
  <2>6. Owed(p, d) = spent[p][d] + a * setup.dear
    BY DEF Owed
  <2>7. Owed(p, d) <= OneEach(p) + Margin(p, d)
    BY <2>2 DEF GuardInv, Guarded, Period
  <2>8. Margin(p, d) = 0 \/ Margin(p, d) = (N - 1) * setup.dear
    BY DEF Margin
  <2> HIDE DEF a, N
  <2>9. a * setup.dear \in Nat
    BY <2>1, <2>4, OneMore
  <2>10. (2 * N - 1) * setup.dear = N * setup.dear + (N - 1) * setup.dear
    BY <2>1, <2>5, Doubled
  <2> DEFINE x == N * setup.dear
             y == (N - 1) * setup.dear
             z == a * setup.dear
  <2>11. spent[p][d] < setup.cap + (x + y)
    <3>1. x \in Nat /\ y \in Nat /\ z \in Nat
      BY <2>5, <2>9
    <3>2. /\ Owed(p, d) = spent[p][d] + z /\ Owed(p, d) <= setup.cap - 1 + x + Margin(p, d)
          /\ Margin(p, d) = 0 \/ Margin(p, d) = y
      BY <2>5, <2>6, <2>7, <2>8
    <3> HIDE DEF x, y, z
    <3> QED BY <2>1, <3>1, <3>2
  <2> QED BY <2>10, <2>11 DEF N
<1> QED BY <1>1, GuardInvariant, PTL

(***************************************************************************)
(* Sums                                                                    *)
(***************************************************************************)

\* An induction on the lengths of the prefixes: of the lengths at which a fact could fail,
\* look at the least.
LEMMA FirstOfSome ==
    ASSUME NEW S, S \subseteq Nat, S # {}
    PROVE  \E n \in S : \A m \in S : n <= m
<1> DEFINE Precedes == OpToRel(<, Nat)
<1>1. IsWellFoundedOn(Precedes, Nat)
  BY NatLessThanWellFounded, Zenon DEF OpToRel
<1>2. PICK n \in S : \A m \in S : ~(<<m, n>> \in Precedes)
  <2> HIDE DEF Precedes
  <2> QED BY <1>1, WFMin
<1>3. \A m \in S : ~(m < n)
  BY <1>2 DEF OpToRel
<1> QED BY <1>3

LEMMA UpTo ==
    ASSUME NEW L \in Nat, NEW Holds, 0 \in Holds,
           \A n \in 1..L : n - 1 \in Holds => n \in Holds
    PROVE  0..L \subseteq Holds
<1> SUFFICES ASSUME (0..L) \ Holds # {} PROVE FALSE
  OBVIOUS
<1> DEFINE S == (0..L) \ Holds
<1>1. S \subseteq Nat /\ S # {}
  OBVIOUS
<1>2. PICK n \in S : \A m \in S : n <= m
  <2> HIDE DEF S
  <2> QED BY <1>1, FirstOfSome
<1>3. n \in 1..L /\ n - 1 \in 0..L /\ ~(n <= n - 1)
  OBVIOUS
<1>4. n - 1 \in Holds
  BY <1>2, <1>3
<1> QED BY <1>3, <1>4

\* The subtotals are what their recursion says.
LEMMA SubtotalsAre ==
    ASSUME NEW v \in Seq(Int)
    PROVE  /\ Subtotals(v)[0] = 0
           /\ \A n \in 1..Len(v) : Subtotals(v)[n] = Subtotals(v)[n - 1] + v[n]
           /\ \A n \in 0..Len(v) : Subtotals(v)[n] \in Int
<1> DEFINE L == Len(v)
           Next1(g, n) == IF n = 0 THEN 0 ELSE g[n - 1] + v[n]
           Is(g, m) == g = [n \in 0..m |-> Next1(g, n)]
           Holds == {m \in 0..L : \E g : Is(g, m)}
<1>1. L \in Nat
  OBVIOUS
<1>2. 0 \in Holds
  <2> DEFINE h == [n \in 0..0 |-> 0]
  <2>1. h = [n \in 0..0 |-> Next1(h, n)]
    <3>1. \A n \in 0..0 : Next1(h, n) = 0
      OBVIOUS
    <3> QED BY <3>1
  <2>2. Is(h, 0) /\ 0 \in 0..L
    BY <1>1, <2>1
  <2> HIDE DEF Is, h, L
  <2> QED BY <2>2
<1>3. ASSUME NEW n \in 1..L, n - 1 \in Holds PROVE n \in Holds
  <2>1. PICK g : Is(g, n - 1)
    BY <1>3
  <2> DEFINE h == [k \in 0..n |-> IF k = n THEN g[n - 1] + v[n] ELSE g[k]]
  <2>2. ASSUME NEW k \in 0..n PROVE h[k] = Next1(h, k)
    <3>1. CASE k = 0
      <4>1. k \in 0..(n - 1) /\ h[k] = g[k]
        BY <3>1
      <4> QED BY <2>1, <3>1, <4>1
    <3>2. CASE k # 0 /\ k # n
      <4>1. k \in 0..(n - 1) /\ k - 1 \in 0..n /\ k - 1 # n
        BY <3>2
      <4>2. h[k] = g[k] /\ h[k - 1] = g[k - 1]
        BY <3>2, <4>1
      <4>3. g[k] = Next1(g, k)
        BY <2>1, <4>1
      <4> QED BY <3>2, <4>2, <4>3
    <3>3. CASE k = n
      <4>1. n - 1 \in 0..n /\ n - 1 # n /\ n # 0
        BY <3>3
      <4>2. h[n - 1] = g[n - 1] /\ h[n] = g[n - 1] + v[n]
        BY <4>1
      <4> QED BY <3>3, <4>1, <4>2
    <3> QED BY <3>1, <3>2, <3>3
  <2>3. h = [k \in 0..n |-> Next1(h, k)]
    <3> HIDE DEF Next1
    <3>1. [k \in 0..n |-> Next1(h, k)] = [k \in 0..n |-> h[k]]
      BY <2>2
    <3> QED BY <3>1
  <2>4. Is(h, n) /\ n \in 0..L
    BY <1>1, <2>3
  <2> HIDE DEF Is, h, L
  <2> QED BY <2>4
<1>4. L \in Holds
  <2> HIDE DEF Holds, L
  <2>1. 0..L \subseteq Holds
    BY <1>1, <1>2, <1>3, UpTo
  <2>2. L \in 0..L
    BY <1>1
  <2> QED BY <2>1, <2>2
<1>5. Is(Subtotals(v), L)
  BY <1>4, Zenon DEF Subtotals
<1> DEFINE D == Subtotals(v)
<1>6. \A n \in 0..L : D[n] = Next1(D, n)
  BY <1>5
<1> HIDE DEF D
<1>7. D[0] = 0 /\ \A n \in 1..L : D[n] = D[n - 1] + v[n]
  <2> HIDE DEF L
  <2> QED BY <1>1, <1>6
<1>8. 0..L \subseteq {n \in 0..L : D[n] \in Int}
  <2>1. \A n \in 1..L : v[n] \in Int
    OBVIOUS
  <2> HIDE DEF L
  <2> DEFINE Numbers == {n \in 0..L : D[n] \in Int}
  <2>2. ASSUME NEW n \in 1..L, n - 1 \in Numbers PROVE n \in Numbers
    <3>1. D[n - 1] \in Int /\ n \in 0..L /\ v[n] \in Int /\ D[n] = D[n - 1] + v[n]
      BY <1>1, <1>7, <2>1, <2>2
    <3> QED BY <3>1
  <2>3. 0 \in Numbers
    BY <1>1, <1>7
  <2> HIDE DEF Numbers
  <2>4. 0..L \subseteq Numbers
    BY <1>1, <2>2, <2>3, UpTo
  <2> QED BY <2>4 DEF Numbers
<1> QED BY <1>7, <1>8 DEF D

LEMMA TotalTyped == ASSUME NEW v \in Seq(Int) PROVE Total(v) \in Int
  BY SubtotalsAre DEF Total

LEMMA TotalOfNone == Total(<<>>) = 0
<1>1. <<>> \in Seq(Int) /\ Len(<<>>) = 0
  OBVIOUS
<1> QED BY <1>1, SubtotalsAre DEF Total

\* One element more.
LEMMA TotalGrows ==
    ASSUME NEW v \in Seq(Int), NEW x \in Int
    PROVE  Append(v, x) \in Seq(Int) /\ Total(Append(v, x)) = Total(v) + x
<1> DEFINE u == Append(v, x)
           L == Len(v)
           Holds == {n \in 0..L : Subtotals(u)[n] = Subtotals(v)[n]}
<1>1. /\ L \in Nat /\ u \in Seq(Int) /\ Len(u) = L + 1 /\ u[L + 1] = x
      /\ \A n \in 1..L : u[n] = v[n] /\ n \in 1..Len(u)
  OBVIOUS
<1>2. /\ Subtotals(v)[0] = 0 /\ Subtotals(u)[0] = 0
      /\ \A n \in 1..L : Subtotals(v)[n] = Subtotals(v)[n - 1] + v[n]
      /\ \A n \in 1..(L + 1) : Subtotals(u)[n] = Subtotals(u)[n - 1] + u[n]
  BY <1>1, SubtotalsAre
<1> HIDE DEF L, u
<1>3. 0 \in Holds
  BY <1>1, <1>2
<1>4. ASSUME NEW n \in 1..L, n - 1 \in Holds PROVE n \in Holds
  <2>1. n - 1 \in 0..L /\ n \in 0..L /\ n \in 1..(L + 1)
    BY <1>1
  <2> QED BY <1>1, <1>2, <1>4, <2>1
<1>5. L \in Holds
  <2> HIDE DEF Holds
  <2>1. 0..L \subseteq Holds
    BY <1>1, <1>3, <1>4, UpTo
  <2>2. L \in 0..L
    BY <1>1
  <2> QED BY <2>1, <2>2
<1>6. L + 1 \in 1..(L + 1) /\ (L + 1) - 1 = L
  BY <1>1
<1>7. Subtotals(u)[L + 1] = Subtotals(v)[L] + x
  BY <1>1, <1>2, <1>5, <1>6
<1> QED BY <1>1, <1>7 DEF Total, u, L

\* One element changed.
LEMMA TotalChanged ==
    ASSUME NEW v \in Seq(Int), NEW w \in Seq(Int), Len(w) = Len(v), NEW k \in 1..Len(v),
           \A n \in 1..Len(v) : n # k => w[n] = v[n]
    PROVE  Total(w) = Total(v) + (w[k] - v[k])
<1> DEFINE L == Len(v)
           D == w[k] - v[k]
           S == Subtotals(v)
           T == Subtotals(w)
           Holds == {n \in 0..L : T[n] = S[n] + IF n >= k THEN D ELSE 0}
<1>1. L \in Nat /\ k \in 1..L /\ D \in Int /\ w[k] = v[k] + D
      /\ \A n \in 1..L : v[n] \in Int /\ w[n] \in Int /\ (n # k => w[n] = v[n])
  OBVIOUS
<1>2. /\ S[0] = 0 /\ T[0] = 0 /\ \A n \in 0..L : S[n] \in Int /\ T[n] \in Int
      /\ \A n \in 1..L : S[n] = S[n - 1] + v[n] /\ T[n] = T[n - 1] + w[n]
  BY SubtotalsAre
<1> HIDE DEF L, D, S, T
<1>3. 0 \in Holds
  BY <1>1, <1>2
<1>4. ASSUME NEW n \in 1..L, n - 1 \in Holds PROVE n \in Holds
  <2>1. n - 1 \in 0..L /\ n \in 0..L /\ n \in Int /\ k \in Int
    BY <1>1
  <2>2. T[n - 1] = S[n - 1] + IF n - 1 >= k THEN D ELSE 0
    BY <1>4
  <2>3. S[n - 1] \in Int /\ S[n] = S[n - 1] + v[n] /\ T[n] = T[n - 1] + w[n] /\ v[n] \in Int
    BY <1>1, <1>2, <2>1
  <2>4. CASE n = k
    <3>1. T[n - 1] = S[n - 1] /\ w[n] = v[n] + D
      BY <1>1, <2>1, <2>2, <2>3, <2>4
    <3> QED BY <1>1, <2>1, <2>3, <2>4, <3>1
  <2>5. CASE n # k
    <3>1. w[n] = v[n] /\ (n - 1 >= k <=> n >= k)
      BY <1>1, <2>1, <2>5
    <3> QED BY <1>1, <2>1, <2>2, <2>3, <3>1
  <2> QED BY <2>4, <2>5
<1>5. L \in Holds
  <2> HIDE DEF Holds
  <2>1. 0..L \subseteq Holds
    BY <1>1, <1>3, <1>4, UpTo
  <2>2. L \in 0..L
    BY <1>1
  <2> QED BY <2>1, <2>2
<1>6. T[L] = S[L] + D
  BY <1>1, <1>5
<1> QED BY <1>6 DEF Total, L, D, S, T

LEMMA TotalOfZeros ==
    ASSUME NEW v \in Seq(Int), \A n \in 1..Len(v) : v[n] = 0
    PROVE  Total(v) = 0
<1> DEFINE L == Len(v)
           S == Subtotals(v)
           Holds == {n \in 0..L : S[n] = 0}
<1>1. L \in Nat /\ S[0] = 0 /\ \A n \in 1..L : S[n] = S[n - 1] + 0
  <2>1. S[0] = 0 /\ \A n \in 1..L : S[n] = S[n - 1] + v[n]
    BY SubtotalsAre
  <2> HIDE DEF S
  <2> QED BY <2>1
<1> HIDE DEF L, S
<1>2. 0 \in Holds
  BY <1>1
<1>3. ASSUME NEW n \in 1..L, n - 1 \in Holds PROVE n \in Holds
  BY <1>1, <1>3
<1>4. L \in Holds
  <2> HIDE DEF Holds
  <2>1. 0..L \subseteq Holds
    BY <1>1, <1>2, <1>3, UpTo
  <2>2. L \in 0..L
    BY <1>1
  <2> QED BY <2>1, <2>2
<1> QED BY <1>4 DEF Total, L, S

\* Every element raised by as much.
LEMMA TotalRaised ==
    ASSUME NEW v \in Seq(Int), NEW w \in Seq(Int), Len(w) = Len(v), NEW c \in Nat,
           \A n \in 1..Len(v) : w[n] = v[n] + c
    PROVE  Total(w) = Total(v) + Len(v) * c
<1> DEFINE L == Len(v)
           S == Subtotals(v)
           T == Subtotals(w)
           Holds == {n \in 0..L : T[n] = S[n] + n * c}
<1>1. L \in Nat /\ \A n \in 1..L : v[n] \in Int /\ w[n] = v[n] + c
  OBVIOUS
<1>2. /\ S[0] = 0 /\ T[0] = 0 /\ \A n \in 0..L : S[n] \in Int /\ T[n] \in Int
      /\ \A n \in 1..L : S[n] = S[n - 1] + v[n] /\ T[n] = T[n - 1] + w[n]
  BY SubtotalsAre
<1> HIDE DEF L, S, T
<1>3. 0 \in Holds
  <2>1. 0 * c = 0
    OBVIOUS
  <2> QED BY <1>1, <1>2, <2>1
<1>4. ASSUME NEW n \in 1..L, n - 1 \in Holds PROVE n \in Holds
  <2>1. n - 1 \in 0..L /\ n \in 0..L /\ n - 1 \in Nat /\ n \in Nat
    BY <1>1
  <2>2. T[n - 1] = S[n - 1] + (n - 1) * c
    BY <1>4
  <2>3. S[n - 1] \in Int /\ S[n] = S[n - 1] + v[n] /\ T[n] = T[n - 1] + (v[n] + c) /\ v[n] \in Int
    BY <1>1, <1>2, <2>1
  <2>4. ((n - 1) + 1) * c = (n - 1) * c + c /\ (n - 1) * c \in Nat /\ (n - 1) + 1 = n
    BY <2>1, OneMore
  <2> DEFINE m == (n - 1) * c
             raised == n * c
  <2>5. raised = m + c /\ m \in Nat /\ T[n - 1] = S[n - 1] + m
    BY <2>2, <2>4
  <2> HIDE DEF m, raised
  <2>6. T[n] = S[n] + raised
    BY <2>3, <2>5
  <2> QED BY <2>1, <2>6 DEF raised
<1>5. L \in Holds
  <2> HIDE DEF Holds
  <2>1. 0..L \subseteq Holds
    BY <1>1, <1>3, <1>4, UpTo
  <2>2. L \in 0..L
    BY <1>1
  <2> QED BY <2>1, <2>2
<1> QED BY <1>5 DEF Total, L, S, T

(***************************************************************************)
(* The rows                                                                *)
(***************************************************************************)

LEMMA SameElements ==
    ASSUME NEW a \in Seq(Int), NEW b \in Seq(Int), Len(a) = Len(b), \A i \in 1..Len(a) : a[i] = b[i]
    PROVE  a = b
OBVIOUS

\* What the frames of a run have still to write.
Costs(u) == [i \in DOMAIN u.frames |-> u.spent - u.frames[i].before]

LEMMA CostsTyped ==
    ASSUME NEW u \in Runs
    PROVE  /\ Costs(u) \in Seq(Int) /\ Len(Costs(u)) = Len(u.frames) /\ Total(Costs(u)) \in Int
           /\ Len(u.frames) \in Nat /\ DOMAIN u.frames = 1..Len(u.frames)
           /\ \A i \in 1..Len(u.frames) : Costs(u)[i] = u.spent - u.frames[i].before
<1>1. u.frames \in Seq(Frames) /\ u.spent \in Nat
  BY DEF Runs
<1>2. Len(u.frames) \in Nat /\ DOMAIN u.frames = 1..Len(u.frames)
  BY <1>1
<1>3. \A i \in 1..Len(u.frames) : u.spent - u.frames[i].before \in Int
  <2>1. \A i \in 1..Len(u.frames) : u.frames[i] \in Frames
    BY <1>1
  <2>2. \A i \in 1..Len(u.frames) : u.frames[i].before \in Int
    BY <2>1 DEF Frames
  <2> QED BY <1>1, <2>2
<1>4. Costs(u) = [i \in 1..Len(u.frames) |-> u.spent - u.frames[i].before]
  BY <1>2 DEF Costs
<1>5. Costs(u) \in Seq(Int) /\ Len(Costs(u)) = Len(u.frames)
  BY <1>2, <1>3, <1>4
<1> QED BY <1>2, <1>4, <1>5, TotalTyped

\* Idle runs have nothing to write.
LEMMA NothingOpen ==
    ASSUME NEW u, u.frames = <<>>
    PROVE  Total(Costs(u)) = 0
<1>1. Costs(u) = <<>>
  BY DEF Costs
<1> QED BY <1>1, TotalOfNone

\* A frame begun just now has nothing to write.
LEMMA FrameEntered ==
    ASSUME NEW u \in Runs, NEW v \in Runs, NEW fs \in Seq(Frames), NEW f \in Frames,
           u.frames = Append(fs, f), u.spent = v.spent, f.before = v.spent,
           Len(fs) = Len(v.frames), \A i \in 1..Len(fs) : fs[i].before = v.frames[i].before
    PROVE  Total(Costs(u)) = Total(Costs(v))
<1> DEFINE L == Len(fs)
<1>1. L \in Nat /\ Len(u.frames) = L + 1 /\ u.frames[L + 1] = f /\ \A i \in 1..L : u.frames[i] = fs[i]
  OBVIOUS
<1>2. /\ Costs(v) \in Seq(Int) /\ Len(Costs(v)) = L /\ Total(Costs(v)) \in Int
      /\ \A i \in 1..L : Costs(v)[i] = v.spent - v.frames[i].before
      /\ Costs(u) \in Seq(Int) /\ Len(Costs(u)) = L + 1
      /\ \A i \in 1..(L + 1) : Costs(u)[i] = u.spent - u.frames[i].before
  BY <1>1, CostsTyped
<1>3. v.spent \in Nat
  BY DEF Runs
<1> HIDE DEF L
<1>4. \A i \in 1..(L + 1) : Costs(u)[i] = IF i = L + 1 THEN 0 ELSE Costs(v)[i]
  <2> TAKE i \in 1..(L + 1)
  <2>1. CASE i = L + 1
    BY <1>1, <1>2, <1>3, <2>1
  <2>2. CASE i # L + 1
    <3>1. i \in 1..L
      BY <1>1, <2>2
    <3> QED BY <1>1, <1>2, <2>2, <3>1 DEF L
  <2> QED BY <2>1, <2>2
<1> DEFINE cu == Costs(u)
           cv == Costs(v)
<1> HIDE DEF cu, cv
<1>5. cu = Append(cv, 0)
  <2>1. cu \in Seq(Int) /\ Len(cu) = L + 1 /\ cv \in Seq(Int) /\ Len(cv) = L
        /\ \A i \in 1..(L + 1) : cu[i] = IF i = L + 1 THEN 0 ELSE cv[i]
    BY <1>2, <1>4 DEF cu, cv
  <2> DEFINE a == Append(cv, 0)
  <2>2. a \in Seq(Int) /\ Len(a) = L + 1 /\ \A i \in 1..(L + 1) : a[i] = IF i = L + 1 THEN 0 ELSE cv[i]
    BY <1>1, <2>1
  <2> HIDE DEF a
  <2>3. cu = a
    BY <1>1, <2>1, <2>2, SameElements
  <2> QED BY <2>3 DEF a
<1>6. Total(cu) = Total(cv) + 0
  BY <1>2, <1>5, TotalGrows DEF cv
<1> QED BY <1>2, <1>6 DEF cu, cv

\* A frame that ends takes its own cost away.
LEMMA FrameLeft ==
    ASSUME NEW u \in Runs, NEW v \in Runs, NEW n \in Nat, Len(v.frames) = n + 1, Len(u.frames) = n,
           \A i \in 1..n : u.frames[i] = v.frames[i], u.spent = v.spent \/ n = 0
    PROVE  Total(Costs(v)) = Total(Costs(u)) + (v.spent - v.frames[n + 1].before)
<1> DEFINE cu == Costs(u)
           cv == Costs(v)
           x == v.spent - v.frames[n + 1].before
<1>1. /\ cv \in Seq(Int) /\ Len(cv) = n + 1 /\ cu \in Seq(Int) /\ Len(cu) = n
      /\ \A i \in 1..(n + 1) : cv[i] = v.spent - v.frames[i].before
      /\ \A i \in 1..n : cu[i] = u.spent - u.frames[i].before
  BY CostsTyped
<1> HIDE DEF cu, cv
<1>2. n + 1 \in 1..(n + 1) /\ cv[n + 1] = x
  BY <1>1
<1>3. x \in Int
  BY <1>1, <1>2
<1>4. \A i \in 1..n : cu[i] = cv[i]
  <2> TAKE i \in 1..n
  <2>1. i \in 1..(n + 1) /\ n # 0
    OBVIOUS
  <2> QED BY <1>1, <2>1
<1> HIDE DEF x
<1>5. cv = Append(cu, x)
  <2> DEFINE a == Append(cu, x)
  <2>1. a \in Seq(Int) /\ Len(a) = n + 1 /\ \A i \in 1..(n + 1) : a[i] = cv[i]
    BY <1>1, <1>2, <1>3, <1>4
  <2> HIDE DEF a
  <2>2. cv = a
    BY <1>1, <2>1
  <2> QED BY <2>2 DEF a
<1>6. Total(cv) = Total(cu) + x
  BY <1>1, <1>3, <1>5, TotalGrows
<1> QED BY <1>6 DEF cu, cv, x

LEMMA TopReplaced ==
    ASSUME TypeInv, NEW r \in Run, run[r].step \in Active, NEW f, f.before = Frame(r).before
    PROVE  /\ DOMAIN WithFrame(r, f) = DOMAIN run[r].frames
           /\ \A i \in DOMAIN run[r].frames : WithFrame(r, f)[i].before = run[r].frames[i].before
<1>1. run[r].frames \in Seq(Frames) /\ Len(run[r].frames) \in Nat \ {0}
  BY TopFrame
<1> QED BY <1>1 DEF WithFrame, Frame

\* The runs one after the other.
LEMMA RunsListed ==
    ASSUME AgentAssumption
    PROVE  LET runs == SetToSeq(Run)
           IN  /\ Cardinality(Run) \in Nat /\ runs \in [1..Cardinality(Run) -> Run]
               /\ \A r \in Run : \E k \in 1..Cardinality(Run) :
                      runs[k] = r /\ \A n \in 1..Cardinality(Run) : n # k => runs[n] # r
<1> DEFINE N == Cardinality(Run)
           S == [1..N -> Run]
           runs == SetToSeq(Run)
<1>1. IsFiniteSet(Run)
  BY DEF AgentAssumption
<1>2. N \in Nat /\ ExistsBijection(1..N, Run)
  BY <1>1, FS_CardinalityType
<1>3. \E f \in S : IsInjective(f)
  BY <1>2, Zenon DEF ExistsBijection, Bijection, Injection
<1>4. runs \in S /\ IsInjective(runs)
  BY <1>3, Zenon DEF SetToSeq
<1> HIDE DEF runs
<1>5. runs \in Injection(1..N, Run)
  BY <1>4, Zenon DEF Injection
<1>6. Cardinality(1..N) = N
  BY <1>2, FS_Interval
<1>7. runs \in Surjection(1..N, Run)
  <2> HIDE DEF N
  <2> QED BY <1>1, <1>5, <1>6, FS_Injection DEF N
<1>8. \A r \in Run : \E k \in 1..N : runs[k] = r
  BY <1>7, Zenon DEF Surjection
<1>9. \A k, n \in 1..N : runs[k] = runs[n] => k = n
  BY <1>4 DEF IsInjective
<1> HIDE DEF N
<1>10. \A r \in Run : \E k \in 1..N : runs[k] = r /\ \A n \in 1..N : n # k => runs[n] # r
  BY <1>8, <1>9
<1> QED BY <1>2, <1>4, <1>10 DEF runs, N

LEMMA OpenCostsMove ==
    ASSUME TypeInv, TypeInv', AgentAssumption, NEW r \in Run, Others(r)
    PROVE  /\ OpenCosts \in Int /\ Total(Costs(run[r])) \in Int /\ Total(Costs(run'[r])) \in Int
           /\ OpenCosts' = OpenCosts + (Total(Costs(run'[r])) - Total(Costs(run[r])))
<1> DEFINE N == Cardinality(Run)
           runs == SetToSeq(Run)
           v == [k \in 1..N |-> Total(Costs(run[runs[k]]))]
           w == [k \in 1..N |-> Total(Costs(run'[runs[k]]))]
<1>1. N \in Nat /\ runs \in [1..N -> Run]
  BY RunsListed
<1>2. PICK k \in 1..N : runs[k] = r /\ \A n \in 1..N : n # k => runs[n] # r
  BY RunsListed
<1>3. \A q \in Run : Total(Costs(run[q])) \in Int /\ Total(Costs(run'[q])) \in Int
  <2>1. \A q \in Run : run[q] \in Runs /\ run'[q] \in Runs
    BY DEF TypeInv, TypeOK
  <2> QED BY <2>1, CostsTyped
<1>4. OpenCosts = Total(v) /\ OpenCosts' = Total(w)
  <2>1. \A q : OpenCost(q) = Total(Costs(run[q]))
    BY DEF OpenCost, Costs
  <2>2. \A q : OpenCost(q)' = Total(Costs(run'[q]))
    BY DEF OpenCost, Costs
  <2>3. DOMAIN runs = 1..N
    BY <1>1
  <2>4. OpenCosts = Total([n \in 1..N |-> OpenCost(runs[n])])
    BY <2>3 DEF OpenCosts
  <2>5. OpenCosts' = Total([n \in 1..N |-> OpenCost(runs[n])'])
    BY <2>3 DEF OpenCosts
  <2> HIDE DEF N, runs
  <2>6. v = [n \in 1..N |-> OpenCost(runs[n])]
    BY <2>1
  <2>7. w = [n \in 1..N |-> OpenCost(runs[n])']
    BY <2>2
  <2> QED BY <2>4, <2>5, <2>6, <2>7, Zenon
<1> HIDE DEF N, runs
<1>5. v \in Seq(Int) /\ w \in Seq(Int) /\ Len(v) = N /\ Len(w) = N
  <2>1. \A n \in 1..N : runs[n] \in Run
    BY <1>1
  <2>2. \A n \in 1..N : Total(Costs(run[runs[n]])) \in Int /\ Total(Costs(run'[runs[n]])) \in Int
    BY <1>3, <2>1, Zenon
  <2>3. v \in [1..N -> Int] /\ w \in [1..N -> Int]
    BY <2>2
  <2>4. \A f \in [1..N -> Int] : f \in Seq(Int) /\ Len(f) = N
    BY <1>1
  <2> HIDE DEF v, w
  <2> QED BY <2>3, <2>4
<1>6. v[k] = Total(Costs(run[r])) /\ w[k] = Total(Costs(run'[r]))
  BY <1>2
<1>7. \A n \in 1..N : n # k => w[n] = v[n]
  BY <1>1, <1>2 DEF Others
<1> HIDE DEF v, w
<1>8. Total(w) = Total(v) + (w[k] - v[k]) /\ Total(v) \in Int
  <2>1. k \in 1..Len(v) /\ Len(w) = Len(v) /\ \A n \in 1..Len(v) : n # k => w[n] = v[n]
    BY <1>5, <1>7
  <2>2. Total(v) \in Int
    BY <1>5, TotalTyped
  <2> QED BY <1>5, <2>1, <2>2, TotalChanged
<1> QED BY <1>3, <1>4, <1>6, <1>8

Mishaps == [killed : Nat, lost : Nat, faults : Nat]
Accounts == [charged : Nat, delegated : Nat]
RowsInv == mishaps \in Mishaps /\ account \in Accounts /\ RowsAddUp

\* What leaves the frames of a run, or is charged to them, is found in the rows or in the account.
LEMMA RowsMove ==
    ASSUME TypeInv, TypeInv', AgentAssumption, RowsInv, NEW r \in Run, Others(r), NEW c \in Int,
           Total(Costs(run'[r])) = Total(Costs(run[r])) + c,
           account' \in Accounts, mishaps' \in Mishaps,
           mishaps'.killed = mishaps.killed, mishaps.lost <= mishaps'.lost,
           mishaps'.lost = 0 =>
               committed'[0] + c + (account.charged + account.delegated)
                   = committed[0] + (account'.charged + account'.delegated)
    PROVE  RowsInv'
<1> SUFFICES ASSUME mishaps'.killed = 0, mishaps'.lost = 0
             PROVE  committed'[0] + OpenCosts' = account'.charged + account'.delegated
  BY DEF RowsInv, RowsAddUp
<1>1. mishaps.killed = 0 /\ mishaps.lost = 0
  BY DEF RowsInv, Mishaps
<1>2. committed[0] + OpenCosts = account.charged + account.delegated
  BY <1>1 DEF RowsInv, RowsAddUp
<1>3. OpenCosts \in Int /\ OpenCosts' = OpenCosts + c
  <2> DEFINE a == Total(Costs(run'[r]))
             b == Total(Costs(run[r]))
  <2>1. OpenCosts \in Int /\ a \in Int /\ b \in Int /\ OpenCosts' = OpenCosts + (a - b)
    BY OpenCostsMove
  <2>2. a = b + c
    OBVIOUS
  <2> HIDE DEF a, b
  <2> QED BY <2>1, <2>2
<1>4. committed[0] \in Nat /\ committed'[0] \in Nat
  <2>1. 0 \in Day
    BY DEF Day, AgentAssumption
  <2> QED BY <2>1 DEF TypeInv, TypeOK
<1>5. account.charged \in Nat /\ account.delegated \in Nat /\ account'.charged \in Nat /\ account'.delegated \in Nat
  BY DEF RowsInv, Accounts
<1> DEFINE had == account.charged + account.delegated
           has == account'.charged + account'.delegated
<1>6. had \in Nat /\ has \in Nat /\ committed'[0] + c + had = committed[0] + has /\ committed[0] + OpenCosts = had
  BY <1>2, <1>5
<1> HIDE DEF had, has
<1>7. committed'[0] + OpenCosts' = has
  BY <1>3, <1>4, <1>6
<1> QED BY <1>7 DEF has

\* Steps that charge nothing and write nothing.
LEMMA RowsStay ==
    ASSUME TypeInv, TypeInv', AgentAssumption, RowsInv, NEW r \in Run, Others(r),
           Total(Costs(run'[r])) = Total(Costs(run[r])),
           account' = account, committed' = committed,
           mishaps' \in Mishaps, mishaps'.killed = mishaps.killed, mishaps'.lost = mishaps.lost
    PROVE  RowsInv'
<1>1. run[r] \in Runs /\ committed[0] \in Nat
  <2>1. 0 \in Day
    BY DEF Day, AgentAssumption
  <2> QED BY <2>1 DEF TypeInv, TypeOK
<1>2. Total(Costs(run[r])) \in Int
  BY <1>1, CostsTyped
<1>3. Total(Costs(run'[r])) = Total(Costs(run[r])) + 0
  BY <1>2
<1>4. account.charged + account.delegated \in Nat /\ mishaps.lost \in Nat
  BY DEF RowsInv, Accounts, Mishaps
<1>5. committed[0] + 0 + (account.charged + account.delegated)
        = committed[0] + (account.charged + account.delegated)
  BY <1>1, <1>4
<1> QED BY <1>3, <1>4, <1>5, RowsMove DEF RowsInv

LEMMA SameFrames ==
    ASSUME NEW u, NEW v, u.spent = v.spent, DOMAIN u.frames = DOMAIN v.frames,
           \A i \in DOMAIN v.frames : u.frames[i].before = v.frames[i].before
    PROVE  Total(Costs(u)) = Total(Costs(v))
<1>1. Costs(u) = Costs(v)
  BY DEF Costs
<1> QED BY <1>1

\* Whatever may fail.
LEMMA FaultCounted ==
    ASSUME RowsInv, NEW n \in {0, 1}, MayFail(n)
    PROVE  mishaps' \in Mishaps /\ mishaps'.killed = mishaps.killed /\ mishaps'.lost = mishaps.lost
<1>1. mishaps \in Mishaps /\ mishaps' = [mishaps EXCEPT !.faults = @ + n]
  BY DEF RowsInv, MayFail
<1> QED BY <1>1 DEF Mishaps

LEMMA GoToKeepsRows ==
    ASSUME TypeInv, TypeInv', AgentAssumption, RowsInv, NEW r \in Run, NEW step, GoTo(r, step),
           account' = account, committed' = committed,
           mishaps' \in Mishaps, mishaps'.killed = mishaps.killed, mishaps'.lost = mishaps.lost
    PROVE  RowsInv'
<1> DEFINE u == [run[r] EXCEPT !.step = step]
<1>1. run' = [run EXCEPT ![r] = u]
  BY DEF GoTo
<1>2. u.frames = run[r].frames /\ u.spent = run[r].spent
  BY RunRecord DEF Runs
<1> HIDE DEF u
<1>3. run'[r] = u /\ Others(r)
  BY <1>1, RunRecord DEF Others
<1>4. Total(Costs(run'[r])) = Total(Costs(run[r]))
  BY <1>2, <1>3, SameFrames
<1> QED BY <1>3, <1>4, RowsStay

LEMMA BeginKeepsRows ==
    ASSUME TypeInv, TypeInv', AgentAssumption, RowsInv, NEW r \in Run, Begin(r)
    PROVE  RowsInv'
<1>1. run[r].step = "off" /\ run[r].frames = <<>>
  BY DEF TypeInv, Sound, Begin, At, Active
<1> DEFINE fs == Append(<<>>, NewFrame(0))
           zero == [v \in Provider |-> 0]
           u == [run[r] EXCEPT !.step = "open", !.spent = 0, !.polls = zero, !.frames = fs]
<1>2. run' = [run EXCEPT ![r] = u]
  BY <1>1 DEF Begin, Enter, SpentOnEntry, PollsOnEntry
<1> HIDE DEF fs, zero
<1>3. u.spent = 0 /\ u.frames = fs
  BY RunRecord DEF Runs
<1> HIDE DEF u
<1>4. run'[r] = u /\ Others(r)
  BY <1>2, RunRecord DEF Others
<1>5. run'[r] \in Runs
  BY DEF TypeInv, TypeOK
<1>6. NewFrame(0) \in Frames /\ NewFrame(0).before = 0
  BY DEF NewFrame, Frames, AgentAssumption
<1>7. Off \in Runs /\ Off.frames = <<>> /\ Off.spent = 0
  BY IdleTyped DEF Off
<1>8. <<>> \in Seq(Frames) /\ Len(<<>>) = 0
  OBVIOUS
<1>9. Total(Costs(run'[r])) = Total(Costs(Off))
  BY <1>3, <1>4, <1>5, <1>6, <1>7, <1>8, FrameEntered DEF fs
<1>10. Total(Costs(run'[r])) = Total(Costs(run[r]))
  BY <1>1, <1>7, <1>9, NothingOpen
<1>11. account' = account /\ committed' = committed /\ mishaps' = mishaps
  BY DEF Begin, ghosts
<1> QED BY <1>4, <1>10, <1>11, RowsStay DEF RowsInv

LEMMA RecordStartKeepsRows ==
    ASSUME TypeInv, TypeInv', AgentAssumption, RowsInv, NEW r \in Run, RecordStart(r)
    PROVE  RowsInv'
<1>1. run[r].step \in Active
  BY DEF RecordStart, At, Active
<1>2. PICK n \in {0, 1} :
        /\ MayFail(n)
        /\ run' = [run EXCEPT ![r].step = "top",
                           ![r].frames = WithFrame(r, [Frame(r) EXCEPT !.row = IF n = 0 THEN day ELSE NoDay])]
  BY DEF RecordStart
<1> DEFINE f == [Frame(r) EXCEPT !.row = IF n = 0 THEN day ELSE NoDay]
           fs == WithFrame(r, f)
           u == [run[r] EXCEPT !.step = "top", !.frames = fs]
<1>3. run' = [run EXCEPT ![r] = u]
  BY <1>2
<1>4. f.before = Frame(r).before
  BY <1>1, TopFrame DEF Frames
<1> HIDE DEF f
<1>5. /\ DOMAIN fs = DOMAIN run[r].frames
      /\ \A i \in DOMAIN run[r].frames : fs[i].before = run[r].frames[i].before
  BY <1>1, <1>4, TopReplaced
<1> HIDE DEF fs
<1>6. u.spent = run[r].spent /\ u.frames = fs
  BY RunRecord DEF Runs
<1> HIDE DEF u
<1>7. run'[r] = u /\ Others(r)
  BY <1>3, RunRecord DEF Others
<1>8. Total(Costs(run'[r])) = Total(Costs(run[r]))
  BY <1>5, <1>6, <1>7, SameFrames
<1>9. account' = account /\ committed' = committed
  BY DEF RecordStart, ghosts
<1> QED BY <1>2, <1>7, <1>8, <1>9, FaultCounted, RowsStay

LEMMA PrecheckKeepsRows ==
    ASSUME TypeInv, TypeInv', AgentAssumption, RowsInv, NEW r \in Run, Precheck(r)
    PROVE  RowsInv'
<1>1. run[r].step \in Active
  BY DEF Precheck, At, Active
<1> DEFINE f == [Frame(r) EXCEPT !.steps = @ + 1]
           fs == WithFrame(r, f)
           rolled == guard[Home(r)].window # day
           u == [run[r] EXCEPT !.step = "read", !.day = day, !.rolled = rolled, !.frames = fs]
<1>2. run' = [run EXCEPT ![r] = u]
  BY DEF Precheck
<1>3. f.before = Frame(r).before
  BY <1>1, TopFrame DEF Frames
<1> HIDE DEF f, rolled
<1>4. /\ DOMAIN fs = DOMAIN run[r].frames
      /\ \A i \in DOMAIN run[r].frames : fs[i].before = run[r].frames[i].before
  BY <1>1, <1>3, TopReplaced
<1> HIDE DEF fs
<1>5. u.spent = run[r].spent /\ u.frames = fs
  BY RunRecord DEF Runs
<1> HIDE DEF u
<1>6. run'[r] = u /\ Others(r)
  BY <1>2, RunRecord DEF Others
<1>7. Total(Costs(run'[r])) = Total(Costs(run[r]))
  BY <1>4, <1>5, <1>6, SameFrames
<1>8. account' = account /\ committed' = committed /\ mishaps' = mishaps
  BY DEF Precheck, ghosts
<1> QED BY <1>6, <1>7, <1>8, RowsStay DEF RowsInv

LEMMA ActKeepsRows ==
    ASSUME TypeInv, TypeInv', AgentAssumption, RowsInv, NEW r \in Run, Act(r)
    PROVE  RowsInv'
<1>1. run[r].step \in Active /\ run[r].step = "act"
  BY DEF Act, At, Active
<1>2. Frame(r) \in Frames /\ run[r].frames # <<>> /\ run[r] \in Runs /\ run'[r] \in Runs
  BY <1>1, TopFrame DEF TypeInv, TypeOK, Sound
<1> DEFINE tool == Head(Frame(r).batch)
           f == [Frame(r) EXCEPT !.batch = Tail(@), !.calls = @ + 1, !.sigs = Append(@, tool.sig)]
           fs == WithFrame(r, f)
<1>3. \/ Delegate(r, f) \/ run' = [run EXCEPT ![r].frames = fs] \/ Request(r, f, tool)
  BY DEF Act
<1>4. f \in Frames /\ f.before = Frame(r).before
  BY ActFrame, Zenon
<1> HIDE DEF tool, f
<1>5. /\ DOMAIN fs = DOMAIN run[r].frames /\ fs \in Seq(Frames) /\ Len(fs) = Len(run[r].frames)
      /\ \A i \in DOMAIN run[r].frames : fs[i].before = run[r].frames[i].before
  BY <1>1, <1>4, TopReplaced, FrameReplaced
<1> HIDE DEF fs
<1>6. account' = account /\ committed' = committed /\ mishaps' = mishaps
  BY DEF Act
<1>7. CASE Delegate(r, f)
  <2> DEFINE ds == Append(fs, NewFrame(run[r].spent))
             u == [run[r] EXCEPT !.step = "open", !.spent = run[r].spent,
                                 !.polls = run[r].polls, !.frames = ds]
  <2>1. run' = [run EXCEPT ![r] = u]
    BY <1>2, <1>7 DEF Delegate, Enter, SpentOnEntry, PollsOnEntry, fs
  <2> HIDE DEF ds
  <2>2. u.spent = run[r].spent /\ u.frames = ds
    BY RunRecord DEF Runs
  <2> HIDE DEF u
  <2>3. run'[r] = u /\ Others(r)
    BY <2>1, RunRecord DEF Others
  <2>4. run[r].spent \in Nat /\ NewFrame(run[r].spent) \in Frames /\ NewFrame(run[r].spent).before = run[r].spent
    BY <1>2 DEF Runs, NewFrame, Frames, AgentAssumption
  <2>5. \A i \in 1..Len(fs) : fs[i].before = run[r].frames[i].before
    BY <1>2, <1>5, CostsTyped
  <2>6. Total(Costs(run'[r])) = Total(Costs(run[r]))
    BY <1>2, <1>5, <2>2, <2>3, <2>4, <2>5, FrameEntered DEF ds
  <2> QED BY <1>6, <2>3, <2>6, RowsStay DEF RowsInv
<1>8. ASSUME NEW polls, run' = [run EXCEPT ![r] = [run[r] EXCEPT !.frames = fs, !.polls = polls]]
      PROVE  RowsInv'
  <2> DEFINE u == [run[r] EXCEPT !.frames = fs, !.polls = polls]
  <2>1. u.spent = run[r].spent /\ u.frames = fs
    BY RunRecord DEF Runs
  <2>2. run' = [run EXCEPT ![r] = u]
    BY <1>8
  <2> HIDE DEF u
  <2>3. run'[r] = u /\ Others(r)
    BY <2>2, RunRecord DEF Others
  <2>4. Total(Costs(run'[r])) = Total(Costs(run[r]))
    BY <1>5, <2>1, <2>3, SameFrames
  <2> QED BY <1>6, <2>3, <2>4, RowsStay DEF RowsInv
<1>9. CASE run' = [run EXCEPT ![r].frames = fs]
  <2>1. [run[r] EXCEPT !.frames = fs] = [run[r] EXCEPT !.frames = fs, !.polls = run[r].polls]
    BY <1>2 DEF Runs
  <2>2. run' = [run EXCEPT ![r] = [run[r] EXCEPT !.frames = fs]]
    BY <1>9
  <2>3. run' = [run EXCEPT ![r] = [run[r] EXCEPT !.frames = fs, !.polls = run[r].polls]]
    BY <2>1, <2>2, Zenon
  <2> QED BY <1>8, <2>3, Zenon
<1>10. CASE Request(r, f, tool)
  <2>1. CASE ~Denied(r, tool) /\ MayPoll(r, tool.provider)
    <3> DEFINE polls == [run[r].polls EXCEPT ![tool.provider] = @ + 1]
    <3>1. run' = [run EXCEPT ![r].frames = fs, ![r].polls[tool.provider] = @ + 1]
      BY <1>10, <2>1 DEF Request, fs
    <3>2. run' = [run EXCEPT ![r] = [run[r] EXCEPT !.frames = fs, !.polls = polls]]
      BY <3>1
    <3> HIDE DEF polls
    <3> QED BY <1>8, <3>2, Zenon
  <2>2. CASE ~(~Denied(r, tool) /\ MayPoll(r, tool.provider))
    BY <1>9, <1>10, <2>2 DEF Request, fs
  <2> QED BY <2>1, <2>2
<1> QED BY <1>3, <1>7, <1>9, <1>10

LEMMA AnswerKeepsRows ==
    ASSUME TypeInv, TypeInv', AgentAssumption, RowsInv, NEW r \in Run, Answer(r)
    PROVE  RowsInv'
<1>1. run[r].step \in Active
  BY DEF Answer, At, Active
<1>2. Frame(r) \in Frames /\ run[r] \in Runs /\ run'[r] \in Runs /\ Len(run[r].frames) \in Nat \ {0}
  BY <1>1, TopFrame DEF TypeInv, TypeOK
<1> DEFINE role == IF Len(run[r].frames) = 1 THEN "root" ELSE "delegate"
           n == Len(run[r].frames)
<1>3. PICK a \in setup.answers[role], cost \in 0 .. setup.dear :
        /\ run' = [run EXCEPT ![r].step = AfterAnswer(Frame(r), a).step, ![r].spent = @ + cost,
                              ![r].frames = WithFrame(r, AfterAnswer(Frame(r), a).frame)]
        /\ account' = [charged |-> account.charged + cost,
                       delegated |-> account.delegated + (n - 1) * cost]
  BY Zenon DEF Answer
<1>4. a \in Reply /\ cost \in Nat
  <2>1. setup.answers \in [{"root", "delegate"} -> SUBSET Reply] /\ setup.dear \in Nat
    BY DEF AgentAssumption, TypeInv, TypeOK
  <2> QED BY <2>1
<1> DEFINE f == AfterAnswer(Frame(r), a).frame
           fs == WithFrame(r, f)
           step == AfterAnswer(Frame(r), a).step
           u == [run[r] EXCEPT !.step = step, !.spent = @ + cost, !.frames = fs]
<1>5. f.before = Frame(r).before
  BY <1>2, <1>4, AnswerTyped
<1>6. run' = [run EXCEPT ![r] = u]
  BY <1>3
<1> HIDE DEF f, step
<1>7. /\ DOMAIN fs = DOMAIN run[r].frames
      /\ \A i \in DOMAIN run[r].frames : fs[i].before = run[r].frames[i].before
  BY <1>1, <1>5, TopReplaced
<1> HIDE DEF fs
<1>8. u.spent = run[r].spent + cost /\ u.frames = fs
  BY <1>2 DEF Runs
<1> HIDE DEF u
<1>9. run'[r] = u /\ Others(r)
  BY <1>6, RunRecord DEF Others
<1> DEFINE v == Costs(run[r])
           w == Costs(run'[r])
           left == (n - 1) * cost
<1>10. Total(w) = Total(v) + n * cost
  <2>1. /\ v \in Seq(Int) /\ w \in Seq(Int) /\ Len(v) = n /\ Len(w) = n
        /\ \A i \in 1..n : v[i] = run[r].spent - run[r].frames[i].before /\ v[i] \in Int
        /\ \A i \in 1..n : w[i] = (run[r].spent + cost) - run[r].frames[i].before
    <3>1. Len(run'[r].frames) \in Nat /\ DOMAIN run'[r].frames = 1..Len(run'[r].frames) /\ DOMAIN run[r].frames = 1..n
      BY <1>2, CostsTyped
    <3>2. Len(run'[r].frames) = n
      <4>1. 1..Len(run'[r].frames) = 1..n
        BY <1>7, <1>8, <1>9, <3>1, Zenon
      <4>2. ASSUME NEW x \in Nat, NEW y \in Nat, 1..x = 1..y PROVE x = y
        <5>1. x \in Nat \ {0} => x \in 1..y
          BY <4>2
        <5>2. y \in Nat \ {0} => y \in 1..x
          BY <4>2
        <5> QED BY <5>1, <5>2
      <4> HIDE DEF n
      <4> QED BY <1>2, <3>1, <4>1, <4>2 DEF n
    <3>3. /\ v \in Seq(Int) /\ w \in Seq(Int) /\ Len(v) = n /\ Len(w) = n
          /\ \A i \in 1..n : v[i] = run[r].spent - run[r].frames[i].before
          /\ \A i \in 1..n : w[i] = run'[r].spent - run'[r].frames[i].before
      BY <1>2, <3>2, CostsTyped
    <3> HIDE DEF v, w
    <3>4. \A i \in 1..n : w[i] = (run[r].spent + cost) - run[r].frames[i].before
      <4> TAKE i \in 1..n
      <4>1. i \in DOMAIN run[r].frames
        BY <3>1
      <4>2. run'[r].spent = run[r].spent + cost /\ run'[r].frames[i].before = run[r].frames[i].before
        BY <1>7, <1>8, <1>9, <4>1
      <4>3. w[i] = run'[r].spent - run'[r].frames[i].before
        BY <3>3
      <4> QED BY <4>2, <4>3
    <3>5. \A i \in 1..n : v[i] \in Int
      BY <3>3
    <3> QED BY <3>3, <3>4, <3>5
  <2>2. \A i \in 1..n : run[r].frames[i].before \in Int /\ run[r].spent \in Int
    <3>1. run[r].frames \in Seq(Frames) /\ run[r].spent \in Nat
      BY <1>2 DEF Runs
    <3>2. \A i \in 1..n : run[r].frames[i] \in Frames
      BY <3>1
    <3>3. \A i \in 1..n : run[r].frames[i].before \in Int
      BY <3>2 DEF Frames
    <3> QED BY <3>1, <3>3
  <2> HIDE DEF v, w, n
  <2>3. \A i \in 1..n : w[i] = v[i] + cost
    <3> TAKE i \in 1..n
    <3> DEFINE x == run[r].spent
               y == run[r].frames[i].before
    <3>1. x \in Int /\ y \in Int /\ v[i] = x - y /\ w[i] = (x + cost) - y
      BY <2>1, <2>2
    <3> HIDE DEF x, y
    <3> QED BY <1>4, <3>1
  <2>4. Len(w) = Len(v) /\ \A i \in 1..Len(v) : w[i] = v[i] + cost
    BY <2>1, <2>3
  <2>5. Total(w) = Total(v) + Len(v) * cost
    BY <1>4, <2>1, <2>4, TotalRaised
  <2> QED BY <2>1, <2>5, Zenon
<1>11. n * cost = left + cost /\ left \in Nat
  <2>1. n - 1 \in Nat /\ (n - 1) + 1 = n
    BY <1>2
  <2> HIDE DEF n
  <2> QED BY <1>4, <2>1, OneMore
<1> HIDE DEF v, w, left, n
<1>12. account.charged \in Nat /\ account.delegated \in Nat /\ mishaps' = mishaps /\ committed' = committed
       /\ committed[0] \in Nat
  <2>1. 0 \in Day
    BY DEF Day, AgentAssumption
  <2> QED BY <2>1 DEF RowsInv, Accounts, Answer, TypeInv, TypeOK
<1>13. account'.charged = account.charged + cost /\ account'.delegated = account.delegated + left
       /\ account' \in Accounts
  BY <1>3, <1>4, <1>11, <1>12 DEF Accounts, left
<1>14. left + cost \in Int /\ Total(w) = Total(v) + (left + cost)
  BY <1>4, <1>10, <1>11
<1>15. committed'[0] + (left + cost) + (account.charged + account.delegated)
         = committed[0] + (account'.charged + account'.delegated)
  BY <1>4, <1>11, <1>12, <1>13
<1>16. mishaps.lost <= mishaps'.lost /\ mishaps' \in Mishaps /\ mishaps'.killed = mishaps.killed
  BY <1>12 DEF RowsInv, Mishaps
<1> DEFINE c == left + cost
<1>17. c \in Int /\ Total(Costs(run'[r])) = Total(Costs(run[r])) + c
       /\ committed'[0] + c + (account.charged + account.delegated)
            = committed[0] + (account'.charged + account'.delegated)
  BY <1>14, <1>15 DEF v, w
<1> HIDE DEF c
<1> QED BY <1>9, <1>13, <1>16, <1>17, RowsMove

LEMMA RecordEndKeepsRows ==
    ASSUME TypeInv, TypeInv', AgentAssumption, RowsInv, NEW r \in Run, RecordEnd(r)
    PROVE  RowsInv'
<1>1. run[r].step \in Active
  BY DEF RecordEnd, At, Active
<1>2. /\ run[r] \in Runs /\ run'[r] \in Runs /\ run[r].frames \in Seq(Frames)
      /\ Len(run[r].frames) \in Nat \ {0} /\ run[r].spent \in Nat
      /\ Frame(r) \in Frames /\ day \in Day /\ committed \in [Day -> Nat]
  BY <1>1, TopFrame DEF TypeInv, TypeOK
<1> DEFINE m == Len(run[r].frames) - 1
           rest == SubSeq(run[r].frames, 1, m)
           created == IF Frame(r).row = NoDay THEN day ELSE Frame(r).row
           u == IF rest = <<>> THEN Done ELSE [run[r] EXCEPT !.step = "act", !.frames = rest]
<1>3. /\ run' = [run EXCEPT ![r] = u]
      /\ account' = account
  BY DEF RecordEnd, ghosts
<1>4. PICK n \in {0, 1} :
        /\ mishaps' = [mishaps EXCEPT !.faults = @ + n, !.lost = @ + n]
        /\ committed' = IF n = 1 THEN committed
                        ELSE [d \in Day |-> committed[d] + IF d <= created THEN CostOfFrame(r) ELSE 0]
  BY DEF RecordEnd
<1>5. /\ rest \in Seq(Frames) /\ Len(rest) = m /\ m \in Nat /\ Len(run[r].frames) = m + 1
      /\ \A i \in 1..m : rest[i] = run[r].frames[i]
      /\ rest = <<>> <=> m = 0
  <2>1. m \in Nat /\ Len(run[r].frames) = m + 1
    BY <1>2
  <2> HIDE DEF m
  <2>2. rest \in Seq(Frames) /\ Len(rest) = m /\ \A i \in 1..m : rest[i] = run[r].frames[i]
    BY <1>2, <2>1
  <2> HIDE DEF rest
  <2>3. rest = <<>> <=> m = 0
    BY <2>1, <2>2
  <2> QED BY <2>1, <2>2, <2>3
<1>6. Frame(r) = run[r].frames[m + 1]
  BY <1>2 DEF Frame
<1> HIDE DEF rest, m, created
<1>7. run'[r] = u /\ Others(r)
  BY <1>3, RunRecord DEF Others
<1>8. u.frames = rest /\ (u.spent = run[r].spent \/ m = 0)
  <2>1. CASE rest = <<>>
    BY <1>5, <2>1 DEF Done, Off
  <2>2. CASE rest # <<>>
    BY <1>2, <2>2 DEF Runs
  <2> QED BY <2>1, <2>2
<1> HIDE DEF u
<1>9. Total(Costs(run[r])) = Total(Costs(run'[r])) + (run[r].spent - run[r].frames[m + 1].before)
  <2>1. Len(run'[r].frames) = m /\ \A i \in 1..m : run'[r].frames[i] = run[r].frames[i]
    BY <1>5, <1>7, <1>8
  <2>2. run'[r].spent = run[r].spent \/ m = 0
    BY <1>7, <1>8
  <2> QED BY <1>2, <1>5, <2>1, <2>2, FrameLeft
<1> DEFINE x == CostOfFrame(r)
<1>10. x = run[r].spent - run[r].frames[m + 1].before /\ x \in Int
  <2>1. Frame(r).before \in Nat
    BY <1>2 DEF Frames
  <2> QED BY <1>2, <1>6, <2>1 DEF CostOfFrame
<1>11. Total(Costs(run[r])) \in Int /\ Total(Costs(run'[r])) \in Int
  BY <1>2, CostsTyped
<1> HIDE DEF x
<1>12. -x \in Int /\ Total(Costs(run'[r])) = Total(Costs(run[r])) + (-x)
  BY <1>9, <1>10, <1>11
<1>13. mishaps' \in Mishaps /\ mishaps'.killed = mishaps.killed /\ mishaps'.lost = mishaps.lost + n
       /\ mishaps.lost \in Nat
  <2>1. mishaps \in Mishaps /\ n \in Nat
    BY DEF RowsInv
  <2>2. mishaps' = [mishaps EXCEPT !.faults = @ + n, !.lost = @ + n]
    BY <1>4
  <2>3. mishaps = [killed |-> mishaps.killed, lost |-> mishaps.lost, faults |-> mishaps.faults]
        /\ mishaps.killed \in Nat /\ mishaps.lost \in Nat /\ mishaps.faults \in Nat
    BY <2>1 DEF Mishaps
  <2>4. mishaps' = [killed |-> mishaps.killed, lost |-> mishaps.lost + n, faults |-> mishaps.faults + n]
    BY <2>2, <2>3
  <2>5. mishaps.lost + n \in Nat /\ mishaps.faults + n \in Nat
    BY <2>1, <2>3
  <2> QED BY <2>3, <2>4, <2>5 DEF Mishaps
<1>14. mishaps'.lost = 0 => committed'[0] = committed[0] + x
  <2> SUFFICES ASSUME mishaps'.lost = 0 PROVE committed'[0] = committed[0] + x
    OBVIOUS
  <2>1. n = 0
    BY <1>13
  <2>2. 0 \in Day /\ day >= 0
    BY <1>2 DEF Day, AgentAssumption
  <2>3. 0 <= created
    <3>1. Frame(r).row \in Day \cup {NoDay}
      BY <1>2 DEF Frames
    <3> QED BY <2>2, <3>1 DEF created, Day
  <2> QED BY <1>4, <2>1, <2>2, <2>3 DEF x
<1>15. committed[0] \in Nat /\ account.charged + account.delegated \in Nat
  <2>1. 0 \in Day
    BY DEF Day, AgentAssumption
  <2> QED BY <1>2, <2>1 DEF RowsInv, Accounts
<1> DEFINE had == account.charged + account.delegated
<1>16. mishaps'.lost = 0 => committed'[0] + (-x) + had = committed[0] + had
  <2>1. had \in Nat
    BY <1>15
  <2> HIDE DEF had
  <2> QED BY <1>10, <1>14, <1>15, <2>1
<1>17. mishaps.lost <= mishaps'.lost
  BY <1>13
<1> QED BY <1>3, <1>7, <1>12, <1>13, <1>16, <1>17, RowsMove DEF RowsInv

LEMMA NextKeepsRows ==
    ASSUME TypeInv, TypeInv', AgentAssumption, RowsInv, Next
    PROVE  RowsInv'
<1>1. ASSUME NEW r \in Run, Halt(r) \/ StopActing(r) \/ BatchDone(r) PROVE RowsInv'
  <2>1. account' = account /\ committed' = committed /\ mishaps' = mishaps
    BY <1>1 DEF Halt, StopActing, BatchDone, ghosts
  <2>2. PICK step \in {"close", "top"} : GoTo(r, step)
    BY <1>1 DEF Halt, StopActing, BatchDone
  <2> QED BY <2>1, <2>2, GoToKeepsRows DEF RowsInv
<1>2. ASSUME NEW r \in Run, CallFails(r) PROVE RowsInv'
  <2>1. account' = account /\ committed' = committed /\ MayFail(1) /\ GoTo(r, "close")
    BY <1>2 DEF CallFails, ghosts
  <2>2. mishaps' \in Mishaps /\ mishaps'.killed = mishaps.killed /\ mishaps'.lost = mishaps.lost
    BY <2>1, FaultCounted
  <2> QED BY <2>1, <2>2, GoToKeepsRows
<1>3. ASSUME NEW r \in Run, ReadPeriod(r) PROVE RowsInv'
  <2>1. account' = account /\ committed' = committed
    BY <1>3 DEF ReadPeriod, ghosts
  <2>2. PICK step \in {"close", "call"} : GoTo(r, step)
    BY <1>3 DEF ReadPeriod
  <2>3. PICK n \in {0, 1} : MayFail(n)
    BY <1>3 DEF ReadPeriod
  <2>4. mishaps' \in Mishaps /\ mishaps'.killed = mishaps.killed /\ mishaps'.lost = mishaps.lost
    BY <2>3, FaultCounted
  <2> QED BY <2>1, <2>2, <2>4, GoToKeepsRows
<1>4. ASSUME NEW p \in Proc, Kill(p) PROVE RowsInv'
  <2>1. mishaps' = [mishaps EXCEPT !.killed = @ + 1] /\ account' = account
    BY <1>4 DEF Kill
  <2>2. mishaps \in Mishaps
    BY DEF RowsInv
  <2>3. mishaps' \in Mishaps /\ mishaps'.killed = mishaps.killed + 1 /\ mishaps.killed \in Nat
    BY <2>1, <2>2 DEF Mishaps
  <2>4. mishaps'.killed # 0
    BY <2>3
  <2> QED BY <2>1, <2>3, <2>4 DEF RowsInv, RowsAddUp
<1>5. ASSUME Midnight PROVE RowsInv'
  BY <1>5 DEF Midnight, ghosts, RowsInv, RowsAddUp, OpenCosts, OpenCost
<1> QED BY <1>1, <1>2, <1>3, <1>4, <1>5, BeginKeepsRows, RecordStartKeepsRows, PrecheckKeepsRows, ActKeepsRows,
           AnswerKeepsRows, RecordEndKeepsRows DEF Next, Step

\* RowsAddUp: as long as no process is killed and no row lost, the rows and what the open runs
\* have still to write hold every charge, and what a delegate was charged once more for each
\* caller above it.
THEOREM RowsComplete == Spec => []RowsAddUp
<1> USE AgentAssumption
<1>1. Init => RowsInv
  <2> SUFFICES ASSUME Init PROVE RowsInv
    OBVIOUS
  <2>1. mishaps \in Mishaps /\ account \in Accounts /\ account.charged = 0 /\ account.delegated = 0
    BY DEF Init, Mishaps, Accounts
  <2> DEFINE N == Cardinality(Run)
             runs == SetToSeq(Run)
             v == [k \in 1..N |-> OpenCost(runs[k])]
  <2>2. N \in Nat /\ runs \in [1..N -> Run]
    BY RunsListed
  <2>3. ASSUME NEW r \in Run PROVE OpenCost(r) = 0
    <3>1. run[r] = Off /\ Off.frames = <<>>
      BY DEF Init, Off
    <3> QED BY <3>1, NothingOpen DEF OpenCost, Costs
  <2>4. OpenCosts = Total(v)
    BY <2>2 DEF OpenCosts
  <2> HIDE DEF N, runs
  <2>5. v \in [1..N -> Int] /\ \A k \in 1..N : v[k] = 0
    <3>1. \A k \in 1..N : runs[k] \in Run
      BY <2>2
    <3>2. \A k \in 1..N : OpenCost(runs[k]) = 0
      BY <2>3, <3>1
    <3> QED BY <3>2
  <2> HIDE DEF v
  <2>6. v \in Seq(Int) /\ Len(v) = N
    BY <2>2, <2>5
  <2>7. Total(v) = 0
    BY <2>5, <2>6, TotalOfZeros
  <2>8. committed[0] = 0
    BY DEF Init, Day, AgentAssumption
  <2> QED BY <2>1, <2>4, <2>7, <2>8 DEF RowsInv, RowsAddUp
<1>2. TypeInv /\ TypeInv' /\ RowsInv /\ [Next]_vars => RowsInv'
  <2>1. CASE Next
    BY <2>1, NextKeepsRows
  <2>2. CASE UNCHANGED vars
    BY <2>2 DEF vars, ghosts, RowsInv, RowsAddUp, OpenCosts, OpenCost
  <2> QED BY <2>1, <2>2
<1>3. RowsInv => RowsAddUp
  BY DEF RowsInv
<1> QED BY <1>1, <1>2, <1>3, TypeCorrect, PTL DEF Spec
===============================================================================
