------------------------------- MODULE Conductor -------------------------------
(***************************************************************************)
(* The conductor, operations/scheduler.py: ticks that run every due job in *)
(* a thread and a child process of its own, one lock file per job, the     *)
(* failure counts in ops_state.json, and the handoff of a job that keeps   *)
(* failing to a health check and to the triage agent.                      *)
(*                                                                         *)
(* A tick is a process.  Cron starts one every minute whether or not the   *)
(* last one is done; the desktop supervisor awaits each.  A step is one    *)
(* system call on the lock file or on the state file, or what a thread     *)
(* does between two of them.  A pid is not used again while anything still *)
(* refers to it, and all of it happens within one triage cooldown.         *)
(***************************************************************************)
EXTENDS Integers, FiniteSets

CONSTANTS
    Tick,         \* slots for ticks that may overlap
    Job,          \* names of the scheduled jobs
    MaxPids,      \* bound: processes that run one command at a time
    Setups        \* the slots and the jobs in use, the jobs among them whose command
                  \* writes back the whole ops state it read, is_operator(), and bounds:
                  \* consecutive failures of each job, and ticks killed

HealthAfterFailures == 2
TriageAfterFailures == 3
HealthJob == "ops_health"
TriageJob == "incident_triage"
Inodes == 1..(Cardinality(Tick) * Cardinality(Job) + Cardinality(Job) + 1)

ASSUME ConductorAssumption ==
    /\ IsFiniteSet(Tick) /\ IsFiniteSet(Job) /\ Job \subseteq STRING
    /\ Job \intersect {TriageJob, "tick", "none"} = {}
    /\ MaxPids \in Nat
    /\ \A s \in Setups : /\ s.ticks \subseteq Tick /\ s.jobs \subseteq Job /\ s.custodians \subseteq Job
                        /\ s.operator \in BOOLEAN
                        /\ s.maxFailures \in [Job -> Nat] /\ s.maxCrashes \in Nat

VARIABLES
    setup,
    pid,      \* pid[t]: the tick in slot t
    thread,   \* thread[t][j]: the thread that runs job j for it
    lock,     \* lock[j]: the lock file of job j
    process,  \* process[p]: the process with pid p
    state,    \* ops_state.json
    streak,   \* streak[j]: failures of j since it last succeeded
    foreign,  \* something other than record_outcome has written ops_state.json
    crashes

vars == <<setup, pid, thread, lock, process, state, streak, foreign, crashes>>
opsVars == <<state, streak, foreign>>

(***************************************************************************)
(* State                                                                   *)
(***************************************************************************)

\* What of the state file the scheduler reads: job_failures and last_triage_at.
OpsStates == [fails : [Job -> Nat], triaged : [Job -> BOOLEAN]]
NewState == [fails |-> [j \in Job |-> 0], triaged |-> [j \in Job |-> FALSE]]

\* A process id, of which only its identity counts, and whose command can be told.
Commands == Job \union {HealthJob, TriageJob, "tick"}
Pid == [cmd : Commands, n : 1..MaxPids]
Nobody == [cmd |-> "none", n |-> 0]

\* A file has an inode, so that a write through an open descriptor can be told
\* from one to the file now at the path.
NoLock == [inode |-> 0, pid |-> Nobody]
Locks == {NoLock} \union [inode : Inodes, pid : Pid \union {Nobody}]

\* started: the thread that spawned it has gone on to wait for it.  copy: the ops
\* state it has read and will write back, if any.
Processes == [alive : BOOLEAN, started : BOOLEAN, copy : SUBSET OpsStates]
NoProcess == [alive |-> FALSE, started |-> FALSE, copy |-> {}]

Acquiring == {"create", "inspect", "probe", "unlink", "recreate", "sign"}
Holding == {"spawn", "stamp", "stamping", "wait", "record", "recorded", "triage",
            "allow", "release"}
Threads == [step : {"idle"} \union Acquiring \union Holding, task : Commands \union {"none"},
            fd : Inodes \union {0}, seen : Pid \union {Nobody}, child : Pid \union {Nobody},
            ok : BOOLEAN, count : Nat, copy : SUBSET OpsStates]
NoThread == [step |-> "idle", task |-> "none", fd |-> 0, seen |-> Nobody,
             child |-> Nobody, ok |-> FALSE, count |-> 0, copy |-> {}]

Alive(p) == process[p].alive

\* Every variable keeps its type: a path with no file has no pid, whoever writes
\* through a descriptor it opened before the file was removed.
TypeOK ==
    /\ pid \in [Tick -> Pid \union {Nobody}]
    /\ thread \in [Tick -> [Job -> Threads]]
    /\ lock \in [Job -> Locks]
    /\ process \in [Pid -> Processes]
    /\ state \in OpsStates
    /\ streak \in [Job -> Nat]
    /\ foreign \in BOOLEAN
    /\ setup \in Setups /\ crashes \in 0..setup.maxCrashes

Init ==
    /\ setup \in Setups
    /\ pid = [t \in Tick |-> Nobody]
    /\ thread = [t \in Tick |-> [j \in Job |-> NoThread]]
    /\ lock = [j \in Job |-> NoLock]
    /\ process = [p \in Pid |-> NoProcess]
    /\ state = NewState
    /\ streak = [j \in Job |-> 0]
    /\ foreign = FALSE
    /\ crashes = 0

\* Pids and inodes that nothing refers to: there is one, within the bounds, wherever
\* a step takes one.
Free(p) == /\ ~Alive(p)
           /\ \A j \in Job : lock[j].pid # p
           /\ \A t \in Tick, j \in Job : thread[t][j].seen # p
FreshPids(cmd) == {p \in Pid : p.cmd = cmd /\ Free(p)}
FreshPid(cmd) == CHOOSE p \in FreshPids(cmd) : TRUE
Unused(n) == /\ \A j \in Job : lock[j].inode # n
             /\ \A t \in Tick, j \in Job : thread[t][j].fd # n
FreshInodes == {n \in Inodes : Unused(n)}
FreshInode == CHOOSE n \in FreshInodes : TRUE

At(t, j, step) == thread[t][j].step = step
Become(t, j, new) == thread' = [thread EXCEPT ![t][j] = new]
GoTo(t, j, step) == Become(t, j, [thread[t][j] EXCEPT !.step = step])
Leave(t, j) == Become(t, j, NoThread)

(***************************************************************************)
(* A tick                                                                  *)
(***************************************************************************)

\* run_tick: a thread for each due job.
Begin(t, due) ==
    /\ pid[t] = Nobody
    /\ t \in setup.ticks /\ due # {} /\ due \subseteq setup.jobs
    /\ FreshPids("tick") # {}
    /\ pid' = [pid EXCEPT ![t] = FreshPid("tick")]
    /\ process' = [process EXCEPT ![FreshPid("tick")].alive = TRUE]
    /\ thread' = [thread EXCEPT ![t] =
           [j \in Job |-> IF j \in due THEN [NoThread EXCEPT !.step = "create"] ELSE NoThread]]
    /\ UNCHANGED <<setup, lock, opsVars, crashes>>

\* The pool is left when every future has a result.
End(t) ==
    /\ pid[t] # Nobody
    /\ \A j \in Job : At(t, j, "idle")
    /\ pid' = [pid EXCEPT ![t] = Nobody]
    /\ process' = [process EXCEPT ![pid[t]] = NoProcess]
    /\ UNCHANGED <<thread, lock, opsVars, crashes>>

(***************************************************************************)
(* acquire_lock                                                            *)
(***************************************************************************)

\* open(O_CREAT | O_EXCL), the first time or after the unlink.
Create(t, j) ==
    /\ At(t, j, "create") \/ At(t, j, "recreate")
    /\ IF lock[j] = NoLock
       THEN /\ FreshInodes # {}
            /\ lock' = [lock EXCEPT ![j] = [inode |-> FreshInode, pid |-> Nobody]]
            /\ Become(t, j, [NoThread EXCEPT !.step = "sign", !.fd = FreshInode])
       ELSE /\ IF At(t, j, "create") THEN GoTo(t, j, "inspect") ELSE Leave(t, j)
            /\ UNCHANGED lock
    /\ UNCHANGED <<pid, process, opsVars, crashes>>

InspectTrusting(t, j) ==   \* mutant
    /\ At(t, j, "inspect")
    /\ IF lock[j].pid = Nobody THEN Leave(t, j)
       ELSE Become(t, j, [NoThread EXCEPT !.step = "probe", !.seen = lock[j].pid])
    /\ UNCHANGED <<pid, lock, process, opsVars, crashes>>

\* read_text: a file gone by now raises FileNotFoundError, which nothing catches
\* before the tick is over.  An empty file is stale without asking further.
Inspect(t, j) ==
    /\ At(t, j, "inspect")
    /\ IF lock[j] = NoLock THEN Leave(t, j)
       ELSE IF lock[j].pid = Nobody THEN GoTo(t, j, "unlink")
       ELSE Become(t, j, [NoThread EXCEPT !.step = "probe", !.seen = lock[j].pid])
    /\ UNCHANGED <<pid, lock, process, opsVars, crashes>>

\* os.kill(pid, 0)
Probe(t, j) ==
    /\ At(t, j, "probe")
    /\ IF Alive(thread[t][j].seen) THEN Leave(t, j)
       ELSE Become(t, j, [NoThread EXCEPT !.step = "unlink"])
    /\ UNCHANGED <<pid, lock, process, opsVars, crashes>>

Unlink(t, j) ==
    /\ At(t, j, "unlink")
    /\ lock' = [lock EXCEPT ![j] = NoLock]
    /\ GoTo(t, j, "recreate")
    /\ UNCHANGED <<pid, process, opsVars, crashes>>

\* What process p writes through the descriptor fd is in the file at job's path only
\* if that is still the file fd was opened on.
Through(fd, job, p) ==
    IF lock[job].inode = fd THEN [lock EXCEPT ![job].pid = p] ELSE lock

\* The tick's own pid goes into the file it created, and the lock is held.
Sign(t, j) ==
    /\ At(t, j, "sign")
    /\ lock' = Through(thread[t][j].fd, j, pid[t])
    /\ Become(t, j, [NoThread EXCEPT !.step = "spawn", !.task = j])
    /\ UNCHANGED <<pid, process, opsVars, crashes>>

(***************************************************************************)
(* _default_runner, for the job, the health check or the triage agent      *)
(***************************************************************************)

\* _ACTIVE_LOCKS: the locks this tick's threads hold, whoever looks them up.
Active(t) == {j \in Job : thread[t][j].step \in Holding}

Spawn(t, j) ==
    LET task == thread[t][j].task
        child == FreshPid(task)
    IN  /\ At(t, j, "spawn") /\ FreshPids(task) # {}
        /\ process' = [process EXCEPT ![child] =
               [NoProcess EXCEPT !.alive = TRUE, !.started = task \notin Active(t)]]
        /\ Become(t, j, [thread[t][j] EXCEPT
               !.child = child, !.step = IF task \in Active(t) THEN "stamp" ELSE "wait"])
        /\ UNCHANGED <<pid, lock, opsVars, crashes>>

\* write_text opens the file at the path, makes it empty, or makes it.
StampOpen(t, j) ==
    LET task == thread[t][j].task
        file == IF lock[task] = NoLock THEN FreshInode ELSE lock[task].inode
    IN  /\ At(t, j, "stamp") /\ (lock[task] = NoLock => FreshInodes # {})
        /\ lock' = [lock EXCEPT ![task] = [inode |-> file, pid |-> Nobody]]
        /\ Become(t, j, [thread[t][j] EXCEPT !.step = "stamping", !.fd = file])
        /\ UNCHANGED <<pid, process, opsVars, crashes>>

\* Then the child's pid goes in.
StampWith(t, j, written) ==
    /\ At(t, j, "stamping")
    /\ lock' = written
    /\ process' = [process EXCEPT ![thread[t][j].child].started = TRUE]
    /\ Become(t, j, [thread[t][j] EXCEPT !.step = "wait", !.fd = 0])
    /\ UNCHANGED <<pid, opsVars, crashes>>
StampWithTick(t, j) ==     \* mutant
    StampWith(t, j, Through(thread[t][j].fd, thread[t][j].task, pid[t]))

StampWrite(t, j) ==
    StampWith(t, j, Through(thread[t][j].fd, thread[t][j].task, thread[t][j].child))

\* The last act of the custodian's command is to save the state it read at its start.
Save(p) ==
    IF p.cmd \in setup.custodians THEN state' \in process[p].copy /\ foreign' = TRUE
    ELSE UNCHANGED <<state, foreign>>

Waits(t, j, task) == At(t, j, "wait") /\ thread[t][j].task = task
Reap(t, j, new) ==
    /\ process' = [process EXCEPT ![thread[t][j].child] = NoProcess]
    /\ Become(t, j, new)
    /\ UNCHANGED <<pid, lock, streak, crashes>>

\* The job's command exits, or is killed at its timeout, which is a failure.
JobSucceeds(t, j) ==
    /\ Waits(t, j, j)
    /\ Save(thread[t][j].child)
    /\ Reap(t, j, [NoThread EXCEPT !.step = "record", !.task = j, !.ok = TRUE])
JobFails(t, j) ==
    /\ Waits(t, j, j)
    /\ streak[j] < setup.maxFailures[j] /\ state.fails[j] < setup.maxFailures[j]
    /\ UNCHANGED <<state, foreign>>
    /\ Reap(t, j, [NoThread EXCEPT !.step = "record", !.task = j])

AfterHealth(count) == IF count >= TriageAfterFailures THEN "triage" ELSE "release"

\* What the health check and the triage agent return is not looked at, but a timeout
\* of either is an exception that ends the thread.
HandoffEnds(t, j, timeout) ==
    /\ \E task \in {HealthJob, TriageJob} \ {j} :
           /\ Waits(t, j, task)
           /\ Reap(t, j, [NoThread EXCEPT
                  !.task = j,
                  !.step = IF task = TriageJob \/ timeout THEN "release"
                           ELSE AfterHealth(thread[t][j].count)])
    /\ UNCHANGED <<state, foreign>>

(***************************************************************************)
(* record_outcome and triage_allowed                                       *)
(***************************************************************************)

StateLocked == \E t \in Tick, j \in Job : At(t, j, "recorded")

ReadState(t, j, step) ==
    /\ Become(t, j, [thread[t][j] EXCEPT !.step = step, !.copy = {state}])
    /\ UNCHANGED <<pid, lock, process, opsVars, crashes>>

RecordReadUnlocked(t, j) == At(t, j, "record") /\ ReadState(t, j, "recorded")   \* mutant

\* ops_state_locked: the lock is waited for, and the state read under it.
RecordRead(t, j) == At(t, j, "record") /\ ~StateLocked /\ ReadState(t, j, "recorded")

Count(copy, j, ok) == IF ok THEN 0 ELSE copy.fails[j] + 1

\* The outcome is written, and the handoff decided on the count just written.
RecordWrite(t, j) ==
    LET th == thread[t][j]
    IN  /\ At(t, j, "recorded")
        /\ \E copy \in th.copy :
               LET count == Count(copy, j, th.ok)
                   handedOff == ~th.ok /\ setup.operator
               IN  /\ state' = [copy EXCEPT !.fails[j] = count]
                   /\ Become(t, j,
                          IF handedOff /\ count >= HealthAfterFailures /\ j # HealthJob
                          THEN [NoThread EXCEPT !.step = "spawn", !.task = HealthJob,
                                                !.count = count]
                          ELSE [NoThread EXCEPT !.task = j,
                                !.step = IF handedOff THEN AfterHealth(count) ELSE "release"])
        /\ streak' = [streak EXCEPT ![j] = IF th.ok THEN 0 ELSE @ + 1]
        /\ UNCHANGED <<pid, lock, process, foreign, crashes>>

\* triage_allowed reads and writes without the lock.
TriageRead(t, j) ==
    /\ At(t, j, "triage")
    /\ IF state.triaged[j]
       THEN GoTo(t, j, "release") /\ UNCHANGED <<pid, lock, process, opsVars, crashes>>
       ELSE ReadState(t, j, "allow")

TriageWrite(t, j) ==
    /\ At(t, j, "allow")
    /\ \E copy \in thread[t][j].copy : state' = [copy EXCEPT !.triaged[j] = TRUE]
    /\ foreign' = TRUE
    /\ Become(t, j, [NoThread EXCEPT !.step = "spawn", !.task = TriageJob])
    /\ UNCHANGED <<pid, lock, process, streak, crashes>>

\* The lock file is removed by its path, whosever it is by now.
Release(t, j) ==
    /\ At(t, j, "release")
    /\ lock' = [lock EXCEPT ![j] = NoLock]
    /\ Leave(t, j)
    /\ UNCHANGED <<pid, process, opsVars, crashes>>

(***************************************************************************)
(* The environment                                                         *)
(***************************************************************************)

CustodianReads(p) ==
    /\ p.cmd \in setup.custodians /\ Alive(p) /\ process[p].copy = {}
    /\ process' = [process EXCEPT ![p].copy = {state}]
    /\ UNCHANGED <<pid, thread, lock, opsVars, crashes>>

\* A tick is killed.  Its children live on.
Crash(t) ==
    /\ pid[t] # Nobody
    /\ crashes < setup.maxCrashes
    /\ crashes' = crashes + 1
    /\ pid' = [pid EXCEPT ![t] = Nobody]
    /\ process' = [process EXCEPT ![pid[t]] = NoProcess]
    /\ thread' = [thread EXCEPT ![t] = [j \in Job |-> NoThread]]
    /\ UNCHANGED <<setup, lock, opsVars>>

Orphan(p) ==
    /\ p.cmd # "tick" /\ Alive(p)
    /\ \A t \in Tick, j \in Job : thread[t][j].child # p
OrphanEnds(p) ==
    /\ Orphan(p)
    /\ Save(p) \/ UNCHANGED <<state, foreign>>
    /\ process' = [process EXCEPT ![p] = NoProcess]
    /\ UNCHANGED <<pid, thread, lock, streak, crashes>>

ThreadStep(t, j) ==
    \/ Create(t, j) \/ Inspect(t, j) \/ Probe(t, j) \/ Unlink(t, j) \/ Sign(t, j)
    \/ Spawn(t, j) \/ StampOpen(t, j) \/ StampWrite(t, j)
    \/ JobSucceeds(t, j) \/ JobFails(t, j)
    \/ \E timeout \in BOOLEAN : HandoffEnds(t, j, timeout)
    \/ RecordRead(t, j) \/ RecordWrite(t, j)
    \/ TriageRead(t, j) \/ TriageWrite(t, j)
    \/ Release(t, j)

TickStep(t) == (End(t) \/ \E j \in Job : ThreadStep(t, j)) /\ UNCHANGED setup
ProcessStep(p) == (CustodianReads(p) \/ OrphanEnds(p)) /\ UNCHANGED setup

Next ==
    \/ \E t \in Tick : TickStep(t) \/ Crash(t) \/ \E due \in SUBSET Job : Begin(t, due)
    \/ \E p \in Pid : ProcessStep(p)

Spec == Init /\ [][Next]_vars

\* Threads run, every command that is waited for ends by its timeout and every
\* orphan ends by itself; ticks go on being started, and each job is due again and
\* again when one is.
FairSpec ==
    /\ Spec
    /\ \A t \in Tick : WF_vars(TickStep(t))
    /\ \A p \in Pid : WF_vars(ProcessStep(p))
    /\ \A j \in Job : SF_vars(\E t \in Tick, due \in SUBSET Job : j \in due /\ Begin(t, due))

(***************************************************************************)
(* Properties                                                              *)
(***************************************************************************)

Starts(t, j) == At(t, j, "spawn") /\ thread[t][j].task = j /\ thread'[t][j].child # Nobody

\* A tick killed while its job runs leaves an orphan, and the next tick does not
\* start the job beside it: the lock carries the orphan's own pid.  So it is when
\* ticks do not overlap, and for every job but ops_health, whose lock a health
\* check stamps with another pid.
OrphanNotDoubled ==
    [][Cardinality(setup.ticks) = 1 => \A t \in Tick, j \in Job \ {HealthJob} : Starts(t, j) =>
          \A p \in Pid : ~(p.cmd = j /\ process[p].started)]_vars

\* The count the handoff goes by is the number of consecutive failures, as long as
\* nothing but record_outcome has written the state file: jobs that end together do
\* not write each other's outcomes away.
CountIsExact == TypeOK /\ (~foreign => state.fails = streak)

\* No lock file keeps a job from running for ever, empty, stale or stamped as it may be.
NeverWedged == \A j \in Job : j \in setup.jobs => []<>(\E t \in Tick : Waits(t, j, j))
=============================================================================
