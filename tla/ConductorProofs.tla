---------------------------- MODULE ConductorProofs ----------------------------
(***************************************************************************)
(* Theorems about Conductor for any ticks, jobs, failures and kills: its   *)
(* types, that the counts in ops_state.json are exact, and that a job whose *)
(* tick was killed is not started beside its orphan.                       *)
(***************************************************************************)
EXTENDS Conductor, FiniteSetTheorems, TLAPS

(***************************************************************************)
(* The invariants                                                          *)
(***************************************************************************)

TickPids == {p \in Pid : p.cmd = "tick"}
Tasks(j) == {j, HealthJob, TriageJob}

\* A thread has opened the file it is about to write, runs a command of its job's, and
\* waits for a process of that command.
Sound(j, th) ==
    /\ th \in Threads
    /\ th.step \in {"sign", "stamping"} => th.fd # 0
    /\ th.step \in {"spawn", "stamp", "stamping", "wait"} => th.task \in Tasks(j)
    /\ th.step \in {"stamp", "stamping"} => th.task \in Job
    /\ th.step \in {"stamp", "stamping", "wait"} => th.child \in Pid /\ th.child.cmd = th.task
    /\ th.step = "probe" => th.seen \in Pid

ThreadsOK == thread \in [Tick -> [Job -> Threads]] /\ \A t \in Tick, j \in Job : Sound(j, thread[t][j])
FilesOK == lock \in [Job -> Locks] /\ state \in OpsStates /\ streak \in [Job -> Nat] /\ foreign \in BOOLEAN
PidsOK == pid \in [Tick -> TickPids \union {Nobody}] /\ process \in [Pid -> Processes]
SetupOK == setup \in Setups /\ crashes \in 0..setup.maxCrashes
Manned == \A t \in Tick, j \in Job : thread[t][j].step # "idle" => pid[t] # Nobody
TypeInv == ThreadsOK /\ FilesOK /\ PidsOK /\ SetupOK /\ Manned

\* Whoever has read the state file holds its lock, and what it read is what is there.
CountInv ==
    /\ \A t, u \in Tick, j, k \in Job : At(t, j, "recorded") /\ At(u, k, "recorded") => t = u /\ j = k
    /\ ~foreign => /\ state.fails = streak
                   /\ \A t \in Tick, j \in Job : At(t, j, "recorded") => thread[t][j].copy = {state}

\* Where there is one slot: a process of a job that was started is alive and in the job's
\* lock file, and the job's thread waits for it or has yet to look into the file; a thread
\* that is about to write the process's pid has the file open that is there.
Guards(j, th, p) ==
    /\ process[p].alive /\ lock[j].pid = p
    /\ \/ th.step = "wait" /\ th.task = j /\ th.child = p
       \/ th.step \in {"idle", "create", "inspect"}
       \/ th.step = "probe" /\ th.seen = p
Stamps(j, th) ==
    /\ th.step \in {"stamp", "stamping"} /\ th.task = j => process[th.child].alive
    /\ th.step = "stamping" /\ th.task = j => lock[j].inode = th.fd
Guarded(j) ==
    \A t \in Tick : setup.ticks = {t} =>
        /\ Stamps(j, thread[t][j])
        /\ \A p \in Pid : p.cmd = j /\ process[p].started => Guards(j, thread[t][j], p)
Spares == \A t \in Tick \ setup.ticks : pid[t] = Nobody /\ \A j \in Job : thread[t][j] = NoThread
OrphanInv == Spares /\ \A j \in Job \ {HealthJob} : Guarded(j)

(***************************************************************************)
(* Types                                                                   *)
(***************************************************************************)

LEMMA Values ==
    /\ Nobody \notin Pid /\ NoLock \in Locks /\ NoLock.pid = Nobody /\ NoLock.inode = 0 /\ NewState \in OpsStates
    /\ NoProcess \in Processes /\ ~NoProcess.alive /\ ~NoProcess.started /\ NoProcess.copy = {}
    /\ NoThread \in Threads /\ NoThread.step = "idle" /\ NoThread.child = Nobody /\ 0 \notin Inodes
    /\ \A j \in Job : Sound(j, NoThread)
<1>1. Nobody \notin Pid /\ 0 \notin Inodes
  BY DEF Nobody, Pid, Inodes
<1>2. NoLock \in Locks /\ NoLock.pid = Nobody /\ NoLock.inode = 0
  BY DEF NoLock, Locks
<1>3. NewState \in OpsStates
  BY DEF NewState, OpsStates
<1>4. NoProcess \in Processes /\ ~NoProcess.alive /\ ~NoProcess.started /\ NoProcess.copy = {}
  BY DEF NoProcess, Processes
<1>5. NoThread \in Threads /\ NoThread.step = "idle" /\ NoThread.child = Nobody
  BY DEF NoThread, Threads
<1>6. \A j \in Job : Sound(j, NoThread)
  BY <1>5 DEF Sound
<1> QED BY <1>1, <1>2, <1>3, <1>4, <1>5, <1>6

LEMMA Names ==
    /\ \A j \in Job : j \in Commands /\ j # TriageJob /\ j # "tick" /\ j # "none"
    /\ HealthJob \in Commands /\ TriageJob \in Commands /\ "tick" \in Commands
    /\ HealthJob # TriageJob /\ HealthJob # "tick"
  BY ConductorAssumption DEF Commands, HealthJob, TriageJob

LEMMA PidIsFree ==
    ASSUME NEW cmd, FreshPids(cmd) # {}
    PROVE  FreshPid(cmd) \in Pid /\ FreshPid(cmd).cmd = cmd /\ ~Alive(FreshPid(cmd))
  BY DEF FreshPid, FreshPids, Free

LEMMA InodeIsFree ==
    ASSUME FreshInodes # {}
    PROVE  FreshInode \in Inodes
  BY DEF FreshInode, FreshInodes

\* What a step of one thread does to the threads.
LEMMA Becomes ==
    ASSUME ThreadsOK, NEW t \in Tick, NEW j \in Job, NEW new, Sound(j, new), Become(t, j, new)
    PROVE  /\ ThreadsOK' /\ thread'[t][j] = new
           /\ \A u \in Tick, k \in Job : u # t \/ k # j => thread'[u][k] = thread[u][k]
<1>1. thread' = [thread EXCEPT ![t] = [thread[t] EXCEPT ![j] = new]]
  BY DEF Become, ThreadsOK
<1>2. new \in Threads /\ thread[t] \in [Job -> Threads]
  BY DEF Sound, ThreadsOK
<1>3. /\ thread' \in [Tick -> [Job -> Threads]] /\ thread'[t][j] = new
      /\ \A u \in Tick, k \in Job : u # t \/ k # j => thread'[u][k] = thread[u][k]
  BY <1>1, <1>2 DEF ThreadsOK
<1>4. ASSUME NEW u \in Tick, NEW k \in Job PROVE Sound(k, thread'[u][k])
  <2>1. CASE u = t /\ k = j
    BY <1>3, <2>1
  <2>2. CASE u # t \/ k # j
    BY <1>3, <2>2 DEF ThreadsOK
  <2> QED BY <2>1, <2>2
<1> QED BY <1>3, <1>4 DEF ThreadsOK

LEMMA ThreadFacts ==
    ASSUME TypeInv, NEW t \in Tick, NEW j \in Job
    PROVE  /\ thread[t][j] \in Threads /\ Sound(j, thread[t][j])
           /\ lock[j] \in Locks /\ lock[j].pid \in Pid \union {Nobody}
           /\ lock[j] = NoLock => lock[j].pid = Nobody
           /\ pid[t] \in Pid \union {Nobody} /\ (pid[t] # Nobody => pid[t] \in Pid /\ pid[t].cmd = "tick")
           /\ state \in OpsStates /\ streak[j] \in Nat /\ state.fails[j] \in Nat
<1>1. thread[t][j] \in Threads /\ Sound(j, thread[t][j])
  BY DEF TypeInv, ThreadsOK
<1>2. lock[j] \in Locks /\ lock[j].pid \in Pid \union {Nobody} /\ (lock[j] = NoLock => lock[j].pid = Nobody)
  BY Values DEF TypeInv, FilesOK, Locks
<1>3. pid[t] \in Pid \union {Nobody} /\ (pid[t] # Nobody => pid[t] \in Pid /\ pid[t].cmd = "tick")
  BY DEF TypeInv, PidsOK, TickPids
<1>4. state \in OpsStates /\ streak[j] \in Nat /\ state.fails[j] \in Nat
  BY DEF TypeInv, FilesOK, OpsStates
<1> QED BY <1>1, <1>2, <1>3, <1>4

\* The lock files after a write.
LEMMA FileWritten ==
    ASSUME TypeInv, NEW j \in Job, NEW n \in Inodes, NEW p \in Pid \union {Nobody},
           lock' = [lock EXCEPT ![j] = [inode |-> n, pid |-> p]]
    PROVE  /\ lock' \in [Job -> Locks] /\ lock'[j] = [inode |-> n, pid |-> p]
           /\ \A k \in Job \ {j} : lock'[k] = lock[k]
<1>1. [inode |-> n, pid |-> p] \in Locks
  BY DEF Locks
<1> QED BY <1>1 DEF TypeInv, FilesOK

LEMMA FileRemoved ==
    ASSUME TypeInv, NEW j \in Job, lock' = [lock EXCEPT ![j] = NoLock]
    PROVE  lock' \in [Job -> Locks] /\ lock'[j] = NoLock /\ \A k \in Job \ {j} : lock'[k] = lock[k]
  BY Values DEF TypeInv, FilesOK

LEMMA ThroughFacts ==
    ASSUME TypeInv, NEW fd \in Inodes, NEW j \in Job, NEW p \in Pid, lock' = Through(fd, j, p)
    PROVE  /\ lock' \in [Job -> Locks] /\ \A k \in Job \ {j} : lock'[k] = lock[k]
           /\ lock[j].inode = fd => lock'[j].pid = p
           /\ lock[j].inode # fd => lock' = lock
<1>1. lock \in [Job -> Locks] /\ lock[j] \in Locks
  BY DEF TypeInv, FilesOK
<1>2. CASE lock[j].inode = fd
  <2>1. lock[j] # NoLock
    BY <1>2, Values
  <2>2. lock[j] \in [inode : Inodes, pid : Pid \union {Nobody}]
    BY <1>1, <2>1 DEF Locks
  <2>3. lock' = [lock EXCEPT ![j] = [lock[j] EXCEPT !.pid = p]]
    BY <1>1, <1>2 DEF Through
  <2>4. [lock[j] EXCEPT !.pid = p] \in Locks /\ [lock[j] EXCEPT !.pid = p].pid = p
    BY <2>2 DEF Locks
  <2> QED BY <1>1, <1>2, <2>3, <2>4
<1>3. CASE lock[j].inode # fd
  BY <1>1, <1>3 DEF Through
<1> QED BY <1>2, <1>3

LEMMA Ended ==
    ASSUME TypeInv, NEW p \in Pid, process' = [process EXCEPT ![p] = NoProcess]
    PROVE  /\ process' \in [Pid -> Processes] /\ process'[p] = NoProcess
           /\ \A q \in Pid \ {p} : process'[q] = process[q]
  BY Values DEF TypeInv, PidsOK

\* A step of one thread keeps the types, if what it writes has them.
LEMMA Carry ==
    ASSUME TypeInv, NEW t \in Tick, NEW j \in Job, thread[t][j].step # "idle",
           NEW new, Sound(j, new), Become(t, j, new),
           UNCHANGED <<setup, pid, crashes>>, lock' \in [Job -> Locks], process' \in [Pid -> Processes],
           state' \in OpsStates, streak' \in [Job -> Nat], foreign' \in BOOLEAN
    PROVE  TypeInv'
<1>1. ThreadsOK' /\ \A u \in Tick, k \in Job : u # t \/ k # j => thread'[u][k] = thread[u][k]
  BY Becomes DEF TypeInv
<1>2. Manned'
  BY <1>1 DEF TypeInv, Manned
<1> QED BY <1>1, <1>2 DEF TypeInv, FilesOK, PidsOK, SetupOK, TickPids

LEMMA CarryFiles ==
    ASSUME TypeInv, NEW t \in Tick, NEW j \in Job, thread[t][j].step # "idle",
           NEW new, Sound(j, new), Become(t, j, new),
           UNCHANGED <<setup, pid, crashes, opsVars>>, lock' \in [Job -> Locks], process' \in [Pid -> Processes]
    PROVE  TypeInv'
<1>1. state' \in OpsStates /\ streak' \in [Job -> Nat] /\ foreign' \in BOOLEAN
  BY DEF TypeInv, FilesOK, opsVars
<1> QED BY <1>1, Carry

(***************************************************************************)
(* The steps of a thread: where each leaves it and the files               *)
(***************************************************************************)

LEMMA CreateFacts ==
    ASSUME TypeInv, NEW t \in Tick, NEW j \in Job, Create(t, j)
    PROVE  /\ lock' \in [Job -> Locks] /\ \A k \in Job \ {j} : lock'[k] = lock[k]
           /\ lock[j] # NoLock => lock' = lock
           /\ \E new : /\ Sound(j, new) /\ Become(t, j, new) /\ new.step \in {"sign", "inspect", "idle"}
                       /\ lock[j] # NoLock => new.step # "sign"
<1>1. lock \in [Job -> Locks] /\ thread[t][j] \in Threads
  BY ThreadFacts DEF TypeInv, FilesOK
<1>2. CASE lock[j] = NoLock
  <2>1. /\ FreshInode \in Inodes /\ lock' = [lock EXCEPT ![j] = [inode |-> FreshInode, pid |-> Nobody]]
        /\ Become(t, j, [NoThread EXCEPT !.step = "sign", !.fd = FreshInode])
    BY <1>2, InodeIsFree DEF Create
  <2>2. lock' \in [Job -> Locks] /\ \A k \in Job \ {j} : lock'[k] = lock[k]
    BY <2>1, FileWritten
  <2> DEFINE new == [NoThread EXCEPT !.step = "sign", !.fd = FreshInode]
  <2>3. new \in Threads /\ new.step = "sign" /\ new.fd # 0
    BY <2>1, Values DEF Threads, Acquiring
  <2>4. Sound(j, new)
    <3> HIDE DEF new
    <3> QED BY <2>3 DEF Sound
  <2> QED BY <1>2, <2>1, <2>2, <2>3, <2>4
<1>3. CASE lock[j] # NoLock
  <2>1. lock' = lock /\ (GoTo(t, j, "inspect") \/ Leave(t, j))
    BY <1>3 DEF Create
  <2>2. CASE GoTo(t, j, "inspect")
    <3> DEFINE new == [thread[t][j] EXCEPT !.step = "inspect"]
    <3>1. new \in Threads /\ new.step = "inspect"
      BY <1>1 DEF Threads, Acquiring
    <3>2. Sound(j, new)
      <4> HIDE DEF new
      <4> QED BY <3>1 DEF Sound
    <3> QED BY <1>1, <1>3, <2>1, <2>2, <3>1, <3>2 DEF GoTo
  <2>3. CASE Leave(t, j)
    BY <1>1, <1>3, <2>1, <2>3, Values DEF Leave
  <2> QED BY <2>1, <2>2, <2>3
<1> QED BY <1>2, <1>3

LEMMA InspectFacts ==
    ASSUME TypeInv, NEW t \in Tick, NEW j \in Job, Inspect(t, j)
    PROVE  \E new : /\ Sound(j, new) /\ Become(t, j, new) /\ new.step \in {"idle", "unlink", "probe"}
                    /\ new.step = "unlink" => lock[j].pid = Nobody
                    /\ new.step = "probe" => new.seen = lock[j].pid
<1>1. thread[t][j] \in Threads /\ lock[j].pid \in Pid \union {Nobody}
  BY ThreadFacts
<1>2. CASE lock[j] = NoLock
  BY <1>2, Values DEF Inspect, Leave
<1>3. CASE lock[j] # NoLock /\ lock[j].pid = Nobody
  <2> DEFINE new == [thread[t][j] EXCEPT !.step = "unlink"]
  <2>1. new \in Threads /\ new.step = "unlink"
    BY <1>1 DEF Threads, Acquiring
  <2>2. Become(t, j, new)
    BY <1>3 DEF Inspect, GoTo
  <2> HIDE DEF new
  <2>3. Sound(j, new)
    BY <2>1 DEF Sound
  <2> QED BY <1>3, <2>1, <2>2, <2>3
<1>4. CASE lock[j] # NoLock /\ lock[j].pid # Nobody
  <2> DEFINE new == [NoThread EXCEPT !.step = "probe", !.seen = lock[j].pid]
  <2>1. new \in Threads /\ new.step = "probe" /\ new.seen = lock[j].pid /\ lock[j].pid \in Pid
    BY <1>1, <1>4, Values DEF Threads, Acquiring
  <2>2. Become(t, j, new)
    BY <1>4 DEF Inspect
  <2> HIDE DEF new
  <2>3. Sound(j, new)
    BY <2>1 DEF Sound
  <2> QED BY <2>1, <2>2, <2>3
<1> QED BY <1>2, <1>3, <1>4

LEMMA ProbeFacts ==
    ASSUME TypeInv, NEW t \in Tick, NEW j \in Job, Probe(t, j)
    PROVE  \E new : /\ Sound(j, new) /\ Become(t, j, new) /\ new.step \in {"idle", "unlink"}
                    /\ new.step = "unlink" => ~process[thread[t][j].seen].alive
<1>1. CASE Alive(thread[t][j].seen)
  BY <1>1, Values DEF Probe, Leave
<1>2. CASE ~Alive(thread[t][j].seen)
  <2> DEFINE new == [NoThread EXCEPT !.step = "unlink"]
  <2>1. new \in Threads /\ new.step = "unlink"
    BY Values DEF Threads, Acquiring
  <2>2. Become(t, j, new)
    BY <1>2 DEF Probe
  <2> HIDE DEF new
  <2>3. Sound(j, new)
    BY <2>1 DEF Sound
  <2> QED BY <1>2, <2>1, <2>2, <2>3 DEF Alive
<1> QED BY <1>1, <1>2

LEMMA UnlinkFacts ==
    ASSUME TypeInv, NEW t \in Tick, NEW j \in Job, Unlink(t, j)
    PROVE  /\ lock' \in [Job -> Locks] /\ \A k \in Job \ {j} : lock'[k] = lock[k]
           /\ \E new : Sound(j, new) /\ Become(t, j, new) /\ new.step = "recreate"
<1>1. thread[t][j] \in Threads /\ lock' = [lock EXCEPT ![j] = NoLock]
  BY ThreadFacts DEF Unlink
<1> DEFINE new == [thread[t][j] EXCEPT !.step = "recreate"]
<1>2. new \in Threads /\ new.step = "recreate"
  BY <1>1 DEF Threads, Acquiring
<1>3. Become(t, j, new)
  BY DEF Unlink, GoTo
<1> HIDE DEF new
<1>4. Sound(j, new)
  BY <1>2 DEF Sound
<1> QED BY <1>1, <1>2, <1>3, <1>4, FileRemoved

LEMMA SignFacts ==
    ASSUME TypeInv, NEW t \in Tick, NEW j \in Job, Sign(t, j)
    PROVE  /\ lock' \in [Job -> Locks] /\ \A k \in Job \ {j} : lock'[k] = lock[k]
           /\ \E new : Sound(j, new) /\ Become(t, j, new) /\ new.step = "spawn" /\ new.task = j
<1>1. thread[t][j].fd \in Inodes /\ pid[t] \in Pid
  BY ThreadFacts DEF Sign, At, Sound, Threads, TypeInv, Manned
<1>2. lock' = Through(thread[t][j].fd, j, pid[t])
  BY DEF Sign
<1> DEFINE new == [NoThread EXCEPT !.step = "spawn", !.task = j]
<1>3. new \in Threads /\ new.step = "spawn" /\ new.task = j
  BY Values, Names DEF Threads, Holding
<1>4. Become(t, j, new)
  BY DEF Sign
<1> HIDE DEF new
<1>5. Sound(j, new)
  BY <1>3 DEF Sound, Tasks
<1> QED BY <1>1, <1>2, <1>3, <1>4, <1>5, ThroughFacts

LEMMA SpawnFacts ==
    ASSUME TypeInv, NEW t \in Tick, NEW j \in Job, Spawn(t, j)
    PROVE  LET task == thread[t][j].task
           IN  \E child \in Pid : \E new :
                 /\ Sound(j, new) /\ Become(t, j, new) /\ new.step \in {"stamp", "wait"} /\ new.task = task
                 /\ new.child = child /\ child.cmd = task /\ ~process[child].alive
                 /\ process' \in [Pid -> Processes] /\ process'[child].alive
                 /\ process'[child].started => task \notin Active(t)
                 /\ new.step = "wait" => task \notin Active(t)
                 /\ \A p \in Pid \ {child} : process'[p] = process[p]
<1> DEFINE th == thread[t][j]
           task == th.task
           child == FreshPid(task)
           step == IF task \in Active(t) THEN "stamp" ELSE "wait"
           begun == task \notin Active(t)
           new == [th EXCEPT !.child = child, !.step = step]
           born == [NoProcess EXCEPT !.alive = TRUE, !.started = begun]
<1>1. th \in Threads /\ th.step = "spawn" /\ task \in Tasks(j) /\ child \in Pid /\ child.cmd = task /\ ~Alive(child)
  BY ThreadFacts, PidIsFree DEF Spawn, At, Sound
<1>2. process' = [process EXCEPT ![child] = born] /\ Become(t, j, new)
  BY DEF Spawn
<1>3. begun \in BOOLEAN /\ step \in {"stamp", "wait"} /\ (step = "stamp" => task \in Job)
      /\ (step = "wait" => task \notin Active(t)) /\ (begun => task \notin Active(t))
  BY DEF Active
<1> HIDE DEF child, step, begun
<1>4. new \in Threads /\ new.step = step /\ new.task = task /\ new.child = child
  BY <1>1, <1>3 DEF Threads, Holding
<1>5. born \in Processes /\ born.alive /\ born.started = begun
  BY <1>3, Values DEF Processes, NoProcess
<1> HIDE DEF new, born
<1>6. Sound(j, new)
  BY <1>1, <1>3, <1>4 DEF Sound
<1>7. process' \in [Pid -> Processes] /\ process'[child] = born /\ \A p \in Pid \ {child} : process'[p] = process[p]
  BY <1>1, <1>2, <1>5 DEF TypeInv, PidsOK
<1>8. process'[child].alive /\ (process'[child].started => task \notin Active(t))
  BY <1>3, <1>5, <1>7
<1> QED BY <1>1, <1>2, <1>3, <1>4, <1>6, <1>7, <1>8 DEF Alive

LEMMA StampOpenFacts ==
    ASSUME TypeInv, NEW t \in Tick, NEW j \in Job, StampOpen(t, j)
    PROVE  LET task == thread[t][j].task
           IN  /\ task \in Job /\ task \in {j, HealthJob}
               /\ lock' \in [Job -> Locks] /\ \A k \in Job \ {task} : lock'[k] = lock[k]
               /\ \E new : /\ Sound(j, new) /\ Become(t, j, new) /\ new.step = "stamping" /\ new.task = task
                           /\ new.child = thread[t][j].child /\ lock'[task].inode = new.fd
<1> DEFINE th == thread[t][j]
           task == th.task
           file == IF lock[task] = NoLock THEN FreshInode ELSE lock[task].inode
           new == [th EXCEPT !.step = "stamping", !.fd = file]
<1>1. /\ th \in Threads /\ th.step = "stamp" /\ task \in Tasks(j) /\ task \in Job
      /\ th.child \in Pid /\ th.child.cmd = task
  BY ThreadFacts DEF StampOpen, At, Sound
<1>2. task \in {j, HealthJob}
  BY <1>1, Names DEF Tasks
<1>3. file \in Inodes
  <2>1. lock[task] \in Locks
    BY <1>1 DEF TypeInv, FilesOK
  <2> QED BY <2>1, InodeIsFree DEF StampOpen, Locks
<1>4. lock' = [lock EXCEPT ![task] = [inode |-> file, pid |-> Nobody]] /\ Become(t, j, new)
  BY DEF StampOpen
<1> HIDE DEF file
<1>5. new \in Threads /\ new.step = "stamping" /\ new.task = task /\ new.child = th.child /\ new.fd = file
  BY <1>1, <1>3 DEF Threads, Holding
<1> HIDE DEF new
<1>6. Sound(j, new)
  BY <1>1, <1>3, <1>5, Values DEF Sound
<1>7. /\ lock' \in [Job -> Locks] /\ lock'[task] = [inode |-> file, pid |-> Nobody]
      /\ \A k \in Job \ {task} : lock'[k] = lock[k]
  BY <1>1, <1>3, <1>4, FileWritten
<1> QED BY <1>1, <1>2, <1>4, <1>5, <1>6, <1>7

LEMMA StampWriteFacts ==
    ASSUME TypeInv, NEW t \in Tick, NEW j \in Job, StampWrite(t, j)
    PROVE  LET task == thread[t][j].task
               child == thread[t][j].child
           IN  /\ task \in Job /\ task \in {j, HealthJob} /\ child \in Pid /\ child.cmd = task
               /\ lock' \in [Job -> Locks] /\ \A k \in Job \ {task} : lock'[k] = lock[k]
               /\ lock[task].inode = thread[t][j].fd => lock'[task].pid = child
               /\ process' \in [Pid -> Processes] /\ process'[child].alive = process[child].alive
               /\ \A p \in Pid \ {child} : process'[p] = process[p]
               /\ \E new : /\ Sound(j, new) /\ Become(t, j, new) /\ new.step = "wait" /\ new.task = task
                           /\ new.child = child
<1> DEFINE th == thread[t][j]
           task == th.task
           child == th.child
           new == [th EXCEPT !.step = "wait", !.fd = 0]
<1>1. /\ th \in Threads /\ th.step = "stamping" /\ task \in Tasks(j) /\ task \in Job
      /\ child \in Pid /\ child.cmd = task /\ th.fd \in Inodes
  BY ThreadFacts DEF StampWrite, StampWith, At, Sound, Threads
<1>2. task \in {j, HealthJob}
  BY <1>1, Names DEF Tasks
<1>3. /\ lock' = Through(th.fd, task, child) /\ process' = [process EXCEPT ![child].started = TRUE]
      /\ Become(t, j, new)
  BY DEF StampWrite, StampWith
<1>4. /\ lock' \in [Job -> Locks] /\ \A k \in Job \ {task} : lock'[k] = lock[k]
      /\ lock[task].inode = th.fd => lock'[task].pid = child
  BY <1>1, <1>3, ThroughFacts
<1>5. /\ process' \in [Pid -> Processes] /\ process'[child].alive = process[child].alive
      /\ \A p \in Pid \ {child} : process'[p] = process[p]
  <2>1. process \in [Pid -> Processes] /\ process[child] \in Processes
    BY <1>1 DEF TypeInv, PidsOK
  <2> DEFINE begun == [process[child] EXCEPT !.started = TRUE]
  <2>2. begun \in Processes /\ begun.alive = process[child].alive
    BY <2>1 DEF Processes
  <2>3. process' = [process EXCEPT ![child] = begun]
    BY <1>3, <2>1
  <2> HIDE DEF begun
  <2> QED BY <1>1, <2>1, <2>2, <2>3
<1>6. new \in Threads /\ new.step = "wait" /\ new.task = task /\ new.child = child
  BY <1>1 DEF Threads, Holding
<1> HIDE DEF new
<1>7. Sound(j, new)
  BY <1>1, <1>6 DEF Sound
<1> QED BY <1>1, <1>2, <1>3, <1>4, <1>5, <1>6, <1>7

\* A command that a thread waits for ends; it may have saved the state it read.
LEMMA SaveTyped ==
    ASSUME TypeInv, NEW p \in Pid, Save(p) \/ UNCHANGED <<state, foreign>>
    PROVE  /\ state' \in OpsStates /\ foreign' \in BOOLEAN
           /\ ~foreign' => ~foreign /\ state' = state
<1>1. process[p].copy \subseteq OpsStates
  BY DEF TypeInv, PidsOK, Processes
<1> QED BY <1>1 DEF Save, TypeInv, FilesOK

LEMMA WaitEndsFacts ==
    ASSUME TypeInv, NEW t \in Tick, NEW j \in Job,
           JobSucceeds(t, j) \/ JobFails(t, j) \/ \E timeout \in BOOLEAN : HandoffEnds(t, j, timeout)
    PROVE  LET child == thread[t][j].child
           IN  /\ At(t, j, "wait") /\ child \in Pid /\ child.cmd = thread[t][j].task /\ child.cmd \in Tasks(j)
               /\ process' \in [Pid -> Processes] /\ process'[child] = NoProcess
               /\ \A p \in Pid \ {child} : process'[p] = process[p]
               /\ Save(child) \/ UNCHANGED <<state, foreign>>
               /\ \E new : Sound(j, new) /\ Become(t, j, new) /\ new.step \in {"record", "triage", "release"}
<1> DEFINE child == thread[t][j].child
<1>1. /\ At(t, j, "wait") /\ child \in Pid /\ child.cmd = thread[t][j].task /\ child.cmd \in Tasks(j)
      /\ thread[t][j].count \in Nat
  BY ThreadFacts DEF JobSucceeds, JobFails, HandoffEnds, Waits, At, Sound, Threads
<1>2. process' = [process EXCEPT ![child] = NoProcess] /\ (Save(child) \/ UNCHANGED <<state, foreign>>)
  BY DEF JobSucceeds, JobFails, HandoffEnds, Reap
<1>3. \E new : Sound(j, new) /\ Become(t, j, new) /\ new.step \in {"record", "triage", "release"}
  <2>1. ASSUME NEW new \in Threads, new.step \in {"record", "triage", "release"}, Become(t, j, new)
        PROVE  \E n : Sound(j, n) /\ Become(t, j, n) /\ n.step \in {"record", "triage", "release"}
    <3>1. Sound(j, new)
      BY <2>1 DEF Sound
    <3> QED BY <2>1, <3>1
  <2>2. CASE JobSucceeds(t, j)
    <3> DEFINE new == [NoThread EXCEPT !.step = "record", !.task = j, !.ok = TRUE]
    <3>1. new \in Threads /\ new.step = "record" /\ Become(t, j, new)
      BY <2>2, Values, Names DEF Threads, Holding, JobSucceeds, Reap
    <3> HIDE DEF new
    <3> QED BY <2>1, <3>1
  <2>3. CASE JobFails(t, j)
    <3> DEFINE new == [NoThread EXCEPT !.step = "record", !.task = j]
    <3>1. new \in Threads /\ new.step = "record" /\ Become(t, j, new)
      BY <2>3, Values, Names DEF Threads, Holding, JobFails, Reap
    <3> HIDE DEF new
    <3> QED BY <2>1, <3>1
  <2>4. ASSUME NEW timeout \in BOOLEAN, HandoffEnds(t, j, timeout)
        PROVE  \E n : Sound(j, n) /\ Become(t, j, n) /\ n.step \in {"record", "triage", "release"}
    <3>1. PICK task : Become(t, j, [NoThread EXCEPT
                  !.task = j,
                  !.step = IF task = TriageJob \/ timeout THEN "release"
                           ELSE AfterHealth(thread[t][j].count)])
      BY <2>4 DEF HandoffEnds, Reap
    <3> DEFINE step == IF task = TriageJob \/ timeout THEN "release" ELSE AfterHealth(thread[t][j].count)
    <3>2. step \in {"triage", "release"} /\ Become(t, j, [NoThread EXCEPT !.task = j, !.step = step])
      BY <3>1 DEF AfterHealth
    <3> HIDE DEF step
    <3> DEFINE new == [NoThread EXCEPT !.task = j, !.step = step]
    <3>3. new \in Threads /\ new.step = step
      BY <3>2, Values, Names DEF Threads, Holding
    <3> HIDE DEF new
    <3>4. Become(t, j, new)
      BY <3>2 DEF new
    <3> QED BY <2>1, <3>2, <3>3, <3>4
  <2> QED BY <2>2, <2>3, <2>4
<1> QED BY <1>1, <1>2, <1>3, Ended

LEMMA ReadFacts ==
    ASSUME TypeInv, NEW t \in Tick, NEW j \in Job, NEW step \in {"recorded", "allow"}, ReadState(t, j, step)
    PROVE  \E new : Sound(j, new) /\ Become(t, j, new) /\ new.step = step /\ new.copy = {state}
<1> DEFINE new == [thread[t][j] EXCEPT !.step = step, !.copy = {state}]
<1>1. thread[t][j] \in Threads /\ {state} \subseteq OpsStates
  BY ThreadFacts
<1>2. new \in Threads /\ new.step = step /\ new.copy = {state}
  BY <1>1 DEF Threads, Holding
<1>3. Become(t, j, new)
  BY DEF ReadState
<1> HIDE DEF new
<1>4. Sound(j, new)
  BY <1>2 DEF Sound
<1> QED BY <1>2, <1>3, <1>4

LEMMA RecordWriteFacts ==
    ASSUME TypeInv, NEW t \in Tick, NEW j \in Job, RecordWrite(t, j)
    PROVE  /\ \E copy \in thread[t][j].copy :
                /\ copy \in OpsStates
                /\ state' = [copy EXCEPT !.fails[j] = Count(copy, j, thread[t][j].ok)]
                /\ state' \in OpsStates
                /\ state'.fails = [copy.fails EXCEPT ![j] = Count(copy, j, thread[t][j].ok)]
           /\ streak' = [streak EXCEPT ![j] = IF thread[t][j].ok THEN 0 ELSE streak[j] + 1]
           /\ streak' \in [Job -> Nat]
           /\ \E new : /\ Sound(j, new) /\ Become(t, j, new) /\ new.step \in {"spawn", "triage", "release"}
                       /\ new.step = "spawn" => j # HealthJob /\ new.task = HealthJob
<1> DEFINE th == thread[t][j]
<1>1. th \in Threads /\ th.copy \subseteq OpsStates /\ streak \in [Job -> Nat]
  BY ThreadFacts DEF Threads, TypeInv, FilesOK
<1>2. PICK copy \in th.copy :
        LET count == Count(copy, j, th.ok)
            handedOff == ~th.ok /\ setup.operator
        IN  /\ state' = [copy EXCEPT !.fails[j] = count]
            /\ Become(t, j,
                   IF handedOff /\ count >= HealthAfterFailures /\ j # HealthJob
                   THEN [NoThread EXCEPT !.step = "spawn", !.task = HealthJob, !.count = count]
                   ELSE [NoThread EXCEPT !.task = j,
                         !.step = IF handedOff THEN AfterHealth(count) ELSE "release"])
  BY DEF RecordWrite
<1> DEFINE count == Count(copy, j, th.ok)
<1>3. copy \in OpsStates /\ copy.fails \in [Job -> Nat] /\ copy.triaged \in [Job -> BOOLEAN] /\ count \in Nat
  BY <1>1 DEF OpsStates, Count
<1>4. state' = [copy EXCEPT !.fails[j] = count]
  BY <1>2
<1> HIDE DEF count
<1> DEFINE fails == [copy.fails EXCEPT ![j] = count]
<1>5. fails \in [Job -> Nat]
  BY <1>3
<1>6. state' = [copy EXCEPT !.fails = fails]
  BY <1>3, <1>4
<1> HIDE DEF fails
<1>7. state' \in OpsStates /\ state'.fails = fails
  BY <1>3, <1>5, <1>6 DEF OpsStates
<1>8. streak' = [streak EXCEPT ![j] = IF th.ok THEN 0 ELSE streak[j] + 1] /\ streak' \in [Job -> Nat]
  BY <1>1 DEF RecordWrite
<1>9. \E new : /\ Sound(j, new) /\ Become(t, j, new) /\ new.step \in {"spawn", "triage", "release"}
               /\ new.step = "spawn" => j # HealthJob /\ new.task = HealthJob
  <2> DEFINE handedOff == ~th.ok /\ setup.operator
             off == handedOff /\ count >= HealthAfterFailures /\ j # HealthJob
             step == IF handedOff THEN AfterHealth(count) ELSE "release"
             checked == [NoThread EXCEPT !.step = "spawn", !.task = HealthJob, !.count = count]
             done == [NoThread EXCEPT !.task = j, !.step = step]
  <2>1. Become(t, j, IF off THEN checked ELSE done)
    BY <1>2 DEF count
  <2>2. checked \in Threads /\ checked.step = "spawn" /\ checked.task = HealthJob
    BY <1>3, Values, Names DEF Threads, Holding
  <2>3. step \in {"triage", "release"}
    BY DEF AfterHealth
  <2>4. off => j # HealthJob
    OBVIOUS
  <2> HIDE DEF step, off, checked
  <2>5. done \in Threads /\ done.step = step
    BY <2>3, Values, Names DEF Threads, Holding
  <2> HIDE DEF done
  <2>6. Sound(j, checked) /\ Sound(j, done)
    BY <2>2, <2>3, <2>5 DEF Sound, Tasks
  <2>7. CASE off
    BY <2>1, <2>2, <2>4, <2>6, <2>7
  <2>8. CASE ~off
    BY <2>1, <2>3, <2>5, <2>6, <2>8
  <2> QED BY <2>7, <2>8
<1> QED BY <1>3, <1>4, <1>7, <1>8, <1>9 DEF fails, count

LEMMA TriageWriteFacts ==
    ASSUME TypeInv, NEW t \in Tick, NEW j \in Job, TriageWrite(t, j)
    PROVE  /\ state' \in OpsStates /\ foreign'
           /\ \E new : Sound(j, new) /\ Become(t, j, new) /\ new.step = "spawn" /\ new.task = TriageJob
<1>1. PICK copy \in thread[t][j].copy : state' = [copy EXCEPT !.triaged[j] = TRUE]
  BY DEF TriageWrite
<1>2. copy \in OpsStates
  BY ThreadFacts DEF Threads
<1> DEFINE triaged == [copy.triaged EXCEPT ![j] = TRUE]
<1>3. triaged \in [Job -> BOOLEAN]
  BY <1>2 DEF OpsStates
<1>4. state' = [copy EXCEPT !.triaged = triaged]
  BY <1>1, <1>2 DEF OpsStates
<1> HIDE DEF triaged
<1>5. state' \in OpsStates
  BY <1>2, <1>3, <1>4 DEF OpsStates
<1> DEFINE new == [NoThread EXCEPT !.step = "spawn", !.task = TriageJob]
<1>6. new \in Threads /\ new.step = "spawn" /\ new.task = TriageJob
  BY Values, Names DEF Threads, Holding
<1>7. Become(t, j, new) /\ foreign'
  BY DEF TriageWrite
<1> HIDE DEF new
<1>8. Sound(j, new)
  BY <1>6 DEF Sound, Tasks
<1> QED BY <1>5, <1>6, <1>7, <1>8

LEMMA TriageReadFacts ==
    ASSUME TypeInv, NEW t \in Tick, NEW j \in Job, TriageRead(t, j)
    PROVE  /\ UNCHANGED <<pid, lock, process, opsVars, crashes>>
           /\ \E new : Sound(j, new) /\ Become(t, j, new) /\ new.step \in {"release", "allow"}
<1>1. CASE state.triaged[j]
  <2> DEFINE new == [thread[t][j] EXCEPT !.step = "release"]
  <2>1. new \in Threads /\ new.step = "release"
    BY ThreadFacts DEF Threads, Holding
  <2>2. Become(t, j, new) /\ UNCHANGED <<pid, lock, process, opsVars, crashes>>
    BY <1>1 DEF TriageRead, GoTo
  <2> HIDE DEF new
  <2>3. Sound(j, new)
    BY <2>1 DEF Sound
  <2> QED BY <2>1, <2>2, <2>3
<1>2. CASE ~state.triaged[j]
  <2>1. ReadState(t, j, "allow")
    BY <1>2 DEF TriageRead
  <2> QED BY <2>1, ReadFacts DEF ReadState
<1> QED BY <1>1, <1>2

LEMMA ReleaseFacts ==
    ASSUME TypeInv, NEW t \in Tick, NEW j \in Job, Release(t, j)
    PROVE  /\ lock' \in [Job -> Locks] /\ \A k \in Job \ {j} : lock'[k] = lock[k]
           /\ Sound(j, NoThread) /\ Become(t, j, NoThread)
<1>1. lock' = [lock EXCEPT ![j] = NoLock] /\ Become(t, j, NoThread)
  BY DEF Release, Leave
<1> QED BY <1>1, FileRemoved, Values

\* The steps of a thread by what they may write.
LEMMA ThreadTyped ==
    ASSUME TypeInv, NEW t \in Tick, NEW j \in Job, ThreadStep(t, j), setup' = setup
    PROVE  TypeInv'
<1>1. lock \in [Job -> Locks] /\ process \in [Pid -> Processes]
      /\ state \in OpsStates /\ streak \in [Job -> Nat] /\ foreign \in BOOLEAN
  BY DEF TypeInv, FilesOK, PidsOK
<1>2. CASE Create(t, j)
  <2>1. UNCHANGED <<pid, process, opsVars, crashes>> /\ thread[t][j].step # "idle"
    BY <1>2 DEF Create, At
  <2> QED BY <1>1, <1>2, <2>1, CreateFacts, CarryFiles
<1>3. CASE Inspect(t, j)
  <2>1. UNCHANGED <<pid, lock, process, opsVars, crashes>> /\ thread[t][j].step # "idle"
    BY <1>3 DEF Inspect, At
  <2> QED BY <1>1, <1>3, <2>1, InspectFacts, CarryFiles
<1>4. CASE Probe(t, j)
  <2>1. UNCHANGED <<pid, lock, process, opsVars, crashes>> /\ thread[t][j].step # "idle"
    BY <1>4 DEF Probe, At
  <2> QED BY <1>1, <1>4, <2>1, ProbeFacts, CarryFiles
<1>5. CASE Unlink(t, j)
  <2>1. UNCHANGED <<pid, process, opsVars, crashes>> /\ thread[t][j].step # "idle"
    BY <1>5 DEF Unlink, At
  <2> QED BY <1>1, <1>5, <2>1, UnlinkFacts, CarryFiles
<1>6. CASE Sign(t, j)
  <2>1. UNCHANGED <<pid, process, opsVars, crashes>> /\ thread[t][j].step # "idle"
    BY <1>6 DEF Sign, At
  <2> QED BY <1>1, <1>6, <2>1, SignFacts, CarryFiles
<1>7. CASE Spawn(t, j)
  <2>1. UNCHANGED <<pid, lock, opsVars, crashes>> /\ thread[t][j].step # "idle"
    BY <1>7 DEF Spawn, At
  <2> QED BY <1>1, <1>7, <2>1, SpawnFacts, CarryFiles
<1>8. CASE StampOpen(t, j)
  <2>1. UNCHANGED <<pid, process, opsVars, crashes>> /\ thread[t][j].step # "idle"
    BY <1>8 DEF StampOpen, At
  <2> QED BY <1>1, <1>8, <2>1, StampOpenFacts, CarryFiles
<1>9. CASE StampWrite(t, j)
  <2>1. UNCHANGED <<pid, opsVars, crashes>> /\ thread[t][j].step # "idle"
    BY <1>9 DEF StampWrite, StampWith, At
  <2> QED BY <1>1, <1>9, <2>1, StampWriteFacts, CarryFiles
<1>10. CASE JobSucceeds(t, j) \/ JobFails(t, j) \/ \E timeout \in BOOLEAN : HandoffEnds(t, j, timeout)
  <2>1. UNCHANGED <<pid, lock, streak, crashes>>
    BY <1>10 DEF JobSucceeds, JobFails, HandoffEnds, Reap
  <2>2. state' \in OpsStates /\ foreign' \in BOOLEAN
    BY <1>10, WaitEndsFacts, SaveTyped
  <2>3. thread[t][j].step # "idle"
    BY <1>10, WaitEndsFacts DEF At
  <2> QED BY <1>1, <1>10, <2>1, <2>2, <2>3, WaitEndsFacts, Carry
<1>11. CASE RecordRead(t, j)
  <2>1. ReadState(t, j, "recorded") /\ thread[t][j].step # "idle"
    BY <1>11 DEF RecordRead, At
  <2>2. UNCHANGED <<pid, lock, process, opsVars, crashes>>
    BY <2>1 DEF ReadState
  <2> QED BY <1>1, <2>1, <2>2, ReadFacts, CarryFiles
<1>12. CASE RecordWrite(t, j)
  <2>1. UNCHANGED <<pid, lock, process, foreign, crashes>> /\ thread[t][j].step # "idle"
    BY <1>12 DEF RecordWrite, At
  <2> QED BY <1>1, <1>12, <2>1, RecordWriteFacts, Carry
<1>13. CASE TriageRead(t, j)
  <2>1. thread[t][j].step # "idle"
    BY <1>13 DEF TriageRead, At
  <2> QED BY <1>1, <1>13, <2>1, TriageReadFacts, CarryFiles
<1>14. CASE TriageWrite(t, j)
  <2>1. UNCHANGED <<pid, lock, process, streak, crashes>> /\ foreign' = TRUE /\ thread[t][j].step # "idle"
    BY <1>14 DEF TriageWrite, At
  <2> QED BY <1>1, <1>14, <2>1, TriageWriteFacts, Carry
<1>15. CASE Release(t, j)
  <2>1. UNCHANGED <<pid, process, opsVars, crashes>> /\ thread[t][j].step # "idle"
    BY <1>15 DEF Release, At
  <2> QED BY <1>1, <1>15, <2>1, ReleaseFacts, CarryFiles
<1> QED BY <1>2, <1>3, <1>4, <1>5, <1>6, <1>7, <1>8, <1>9, <1>10, <1>11, <1>12, <1>13, <1>14, <1>15 DEF ThreadStep

(***************************************************************************)
(* The ticks and the processes                                             *)
(***************************************************************************)

LEMMA BeginTyped ==
    ASSUME TypeInv, NEW t \in Tick, NEW due \in SUBSET Job, Begin(t, due)
    PROVE  /\ TypeInv' /\ UNCHANGED <<setup, lock, opsVars>> /\ t \in setup.ticks
           /\ \A u \in Tick \ {t} : pid'[u] = pid[u] /\ thread'[u] = thread[u]
           /\ \A j \in Job : thread'[t][j].step \in {"create", "idle"}
           /\ \A p \in Pid : p.cmd # "tick" => process'[p] = process[p]
<1> DEFINE p == FreshPid("tick")
           new == [NoThread EXCEPT !.step = "create"]
           threads == [j \in Job |-> IF j \in due THEN new ELSE NoThread]
<1>1. p \in Pid /\ p.cmd = "tick" /\ UNCHANGED <<setup, lock, opsVars, crashes>> /\ t \in setup.ticks
  BY PidIsFree DEF Begin
<1>2. pid' = [pid EXCEPT ![t] = p] /\ thread' = [thread EXCEPT ![t] = threads]
      /\ process' = [process EXCEPT ![p].alive = TRUE]
  BY DEF Begin
<1>3. new \in Threads /\ new.step = "create"
  BY Values DEF Threads, Acquiring
<1> HIDE DEF p, new
<1>4. \A j \in Job : threads[j] \in {new, NoThread}
  OBVIOUS
<1>5. \A j \in Job : Sound(j, threads[j]) /\ threads[j].step \in {"create", "idle"}
  BY <1>3, <1>4, Values DEF Sound
<1>6. threads \in [Job -> Threads]
  BY <1>3, Values
<1> HIDE DEF threads
<1>7. thread' \in [Tick -> [Job -> Threads]] /\ thread'[t] = threads /\ \A u \in Tick \ {t} : thread'[u] = thread[u]
  BY <1>2, <1>6 DEF TypeInv, ThreadsOK
<1>8. ThreadsOK'
  <2>1. ASSUME NEW u \in Tick, NEW j \in Job PROVE Sound(j, thread'[u][j])
    BY <1>5, <1>7 DEF TypeInv, ThreadsOK
  <2> QED BY <1>7, <2>1 DEF ThreadsOK
<1>9. pid' \in [Tick -> TickPids \union {Nobody}] /\ pid'[t] = p /\ \A u \in Tick \ {t} : pid'[u] = pid[u]
  BY <1>1, <1>2 DEF TypeInv, PidsOK, TickPids
<1>10. process' \in [Pid -> Processes] /\ \A q \in Pid \ {p} : process'[q] = process[q]
  <2>1. process \in [Pid -> Processes] /\ process[p] \in Processes
    BY <1>1 DEF TypeInv, PidsOK
  <2> DEFINE begun == [process[p] EXCEPT !.alive = TRUE]
  <2>2. begun \in Processes
    BY <2>1 DEF Processes
  <2>3. process' = [process EXCEPT ![p] = begun]
    BY <1>2, <2>1
  <2> HIDE DEF begun
  <2> QED BY <2>1, <2>2, <2>3
<1>11. Manned'
  BY <1>1, <1>7, <1>9, Values DEF TypeInv, Manned
<1>12. TypeInv'
  BY <1>1, <1>8, <1>9, <1>10, <1>11 DEF TypeInv, FilesOK, PidsOK, SetupOK, TickPids, opsVars
<1> QED BY <1>1, <1>5, <1>7, <1>9, <1>10, <1>12

\* A tick ends, by itself or killed: its process and its threads are gone.
LEMMA TickGone ==
    ASSUME TypeInv, NEW t \in Tick, pid[t] # Nobody, pid' = [pid EXCEPT ![t] = Nobody],
           process' = [process EXCEPT ![pid[t]] = NoProcess],
           \/ thread' = thread /\ \A j \in Job : thread[t][j].step = "idle"
           \/ thread' = [thread EXCEPT ![t] = [j \in Job |-> NoThread]]
    PROVE  /\ ThreadsOK' /\ PidsOK' /\ Manned'
           /\ pid'[t] = Nobody /\ \A u \in Tick \ {t} : pid'[u] = pid[u] /\ thread'[u] = thread[u]
           /\ \A j \in Job : thread'[t][j].step = "idle"
           /\ thread' = thread \/ \A j \in Job : thread'[t][j] = NoThread
           /\ \A p \in Pid : p.cmd # "tick" => process'[p] = process[p]
<1>1. pid[t] \in Pid /\ pid[t].cmd = "tick"
  BY DEF TypeInv, PidsOK, TickPids
<1>2. process' \in [Pid -> Processes] /\ \A q \in Pid \ {pid[t]} : process'[q] = process[q]
  BY <1>1, Ended
<1>3. pid' \in [Tick -> TickPids \union {Nobody}] /\ pid'[t] = Nobody /\ \A u \in Tick \ {t} : pid'[u] = pid[u]
  BY DEF TypeInv, PidsOK
<1>4. thread \in [Tick -> [Job -> Threads]] /\ [j \in Job |-> NoThread] \in [Job -> Threads]
  BY Values DEF TypeInv, ThreadsOK
<1>5. /\ thread' \in [Tick -> [Job -> Threads]] /\ \A u \in Tick \ {t} : thread'[u] = thread[u]
      /\ \A j \in Job : thread'[t][j].step = "idle"
      /\ thread' = thread \/ \A j \in Job : thread'[t][j] = NoThread
  BY <1>4, Values
<1>6. ThreadsOK'
  <2>1. ASSUME NEW u \in Tick, NEW j \in Job PROVE Sound(j, thread'[u][j])
    BY <1>5, Values DEF TypeInv, ThreadsOK
  <2> QED BY <1>5, <2>1 DEF ThreadsOK
<1>7. Manned'
  BY <1>3, <1>5 DEF TypeInv, Manned
<1> QED BY <1>1, <1>2, <1>3, <1>5, <1>6, <1>7 DEF PidsOK, TickPids

LEMMA EndTyped ==
    ASSUME TypeInv, NEW t \in Tick, End(t), setup' = setup
    PROVE  TypeInv'
<1>1. ThreadsOK' /\ PidsOK' /\ Manned'
  BY TickGone DEF End, At
<1> QED BY <1>1 DEF End, TypeInv, FilesOK, SetupOK, opsVars

LEMMA CrashTyped ==
    ASSUME TypeInv, NEW t \in Tick, Crash(t)
    PROVE  TypeInv'
<1>1. ThreadsOK' /\ PidsOK' /\ Manned'
  BY TickGone DEF Crash
<1>2. crashes' \in 0..setup.maxCrashes
  BY ConductorAssumption DEF Crash, TypeInv, SetupOK
<1> QED BY <1>1, <1>2 DEF Crash, TypeInv, FilesOK, SetupOK, opsVars

LEMMA ReadsFacts ==
    ASSUME TypeInv, NEW p \in Pid, CustodianReads(p)
    PROVE  /\ process' \in [Pid -> Processes] /\ \A q \in Pid \ {p} : process'[q] = process[q]
           /\ process'[p].alive = process[p].alive /\ process'[p].started = process[p].started
<1>1. process \in [Pid -> Processes] /\ process[p] \in Processes /\ {state} \subseteq OpsStates
  BY DEF TypeInv, PidsOK, FilesOK
<1> DEFINE read == [process[p] EXCEPT !.copy = {state}]
<1>2. read \in Processes /\ read.alive = process[p].alive /\ read.started = process[p].started
  BY <1>1 DEF Processes
<1>3. process' = [process EXCEPT ![p] = read]
  BY <1>1 DEF CustodianReads
<1> HIDE DEF read
<1> QED BY <1>1, <1>2, <1>3

LEMMA ProcessTyped ==
    ASSUME TypeInv, NEW p \in Pid, ProcessStep(p)
    PROVE  TypeInv'
<1>1. CASE CustodianReads(p)
  <2>1. process' \in [Pid -> Processes]
    BY <1>1, ReadsFacts
  <2>2. UNCHANGED <<pid, thread, lock, opsVars, crashes, setup>>
    BY <1>1 DEF CustodianReads, ProcessStep
  <2> QED BY <2>1, <2>2 DEF TypeInv, ThreadsOK, FilesOK, PidsOK, SetupOK, Manned, opsVars
<1>2. CASE OrphanEnds(p)
  <2>1. process' \in [Pid -> Processes] /\ state' \in OpsStates /\ foreign' \in BOOLEAN
    BY <1>2, Ended, SaveTyped DEF OrphanEnds
  <2>2. UNCHANGED <<pid, thread, lock, streak, crashes, setup>>
    BY <1>2 DEF OrphanEnds, ProcessStep
  <2> QED BY <2>1, <2>2 DEF TypeInv, ThreadsOK, FilesOK, PidsOK, SetupOK, Manned
<1> QED BY <1>1, <1>2 DEF ProcessStep

LEMMA TypeStep ==
    ASSUME TypeInv, [Next]_vars
    PROVE  TypeInv'
<1>1. CASE UNCHANGED vars
  BY <1>1 DEF vars, TypeInv, ThreadsOK, FilesOK, PidsOK, SetupOK, Manned
<1>2. ASSUME NEW t \in Tick, TickStep(t) \/ Crash(t) \/ \E due \in SUBSET Job : Begin(t, due)
      PROVE  TypeInv'
  BY <1>2, EndTyped, ThreadTyped, CrashTyped, BeginTyped DEF TickStep
<1>3. ASSUME NEW p \in Pid, ProcessStep(p) PROVE TypeInv'
  BY <1>3, ProcessTyped
<1> QED BY <1>1, <1>2, <1>3 DEF Next

LEMMA TypeInit ==
    ASSUME Init
    PROVE  TypeInv
<1>1. ThreadsOK /\ Manned
  BY Values DEF Init, ThreadsOK, Manned
<1>2. FilesOK
  BY Values DEF Init, FilesOK
<1>3. PidsOK
  BY Values DEF Init, PidsOK
<1>4. SetupOK
  BY ConductorAssumption DEF Init, SetupOK
<1> QED BY <1>1, <1>2, <1>3, <1>4 DEF TypeInv

THEOREM TypeInvariant == Spec => []TypeInv
<1> QED BY TypeInit, TypeStep, PTL DEF Spec

(***************************************************************************)
(* The counts                                                              *)
(***************************************************************************)

\* A step of one thread that leaves it with nothing read, and what is in the file alone
\* or to something else than record_outcome.
LEMMA CountStays ==
    ASSUME TypeInv, CountInv, NEW t \in Tick, NEW j \in Job, NEW new, Sound(j, new), Become(t, j, new),
           new.step # "recorded", ~foreign' => ~foreign /\ state' = state, streak' = streak
    PROVE  CountInv'
<1>1. thread'[t][j] = new /\ \A u \in Tick, k \in Job : u # t \/ k # j => thread'[u][k] = thread[u][k]
  BY Becomes DEF TypeInv
<1>2. \A u \in Tick, k \in Job : thread'[u][k].step = "recorded" => thread'[u][k] = thread[u][k]
  BY <1>1
<1> QED BY <1>2 DEF CountInv, At

LEMMA ThreadCounts ==
    ASSUME TypeInv, CountInv, NEW t \in Tick, NEW j \in Job, ThreadStep(t, j)
    PROVE  CountInv'
<1>1. ASSUME NEW new, Sound(j, new), Become(t, j, new), new.step # "recorded", UNCHANGED opsVars
      PROVE  CountInv'
  BY <1>1, CountStays DEF opsVars
<1>2. CASE Create(t, j)
  BY <1>1, <1>2, CreateFacts DEF Create
<1>3. CASE Inspect(t, j)
  BY <1>1, <1>3, InspectFacts DEF Inspect
<1>4. CASE Probe(t, j)
  BY <1>1, <1>4, ProbeFacts DEF Probe
<1>5. CASE Unlink(t, j)
  BY <1>1, <1>5, UnlinkFacts DEF Unlink
<1>6. CASE Sign(t, j)
  BY <1>1, <1>6, SignFacts DEF Sign
<1>7. CASE Spawn(t, j)
  <2>1. UNCHANGED opsVars
    BY <1>7 DEF Spawn
  <2> QED BY <1>1, <1>7, <2>1, SpawnFacts
<1>8. CASE StampOpen(t, j)
  <2>1. UNCHANGED opsVars
    BY <1>8 DEF StampOpen
  <2> QED BY <1>1, <1>8, <2>1, StampOpenFacts
<1>9. CASE StampWrite(t, j)
  <2>1. UNCHANGED opsVars
    BY <1>9 DEF StampWrite, StampWith
  <2> QED BY <1>1, <1>9, <2>1, StampWriteFacts
<1>10. CASE JobSucceeds(t, j) \/ JobFails(t, j) \/ \E timeout \in BOOLEAN : HandoffEnds(t, j, timeout)
  <2>1. streak' = streak
    BY <1>10 DEF JobSucceeds, JobFails, HandoffEnds, Reap
  <2>2. ~foreign' => ~foreign /\ state' = state
    BY <1>10, WaitEndsFacts, SaveTyped
  <2> QED BY <1>10, <2>1, <2>2, WaitEndsFacts, CountStays
<1>11. CASE RecordRead(t, j)
  <2>1. ReadState(t, j, "recorded") /\ UNCHANGED opsVars /\ \A u \in Tick, k \in Job : ~At(u, k, "recorded")
    BY <1>11 DEF RecordRead, ReadState, StateLocked
  <2>2. PICK new : Sound(j, new) /\ Become(t, j, new) /\ new.copy = {state}
    BY <2>1, ReadFacts
  <2>3. thread'[t][j] = new /\ \A u \in Tick, k \in Job : u # t \/ k # j => thread'[u][k] = thread[u][k]
    BY <2>2, Becomes DEF TypeInv
  <2>4. \A u \in Tick, k \in Job : At(u, k, "recorded")' => u = t /\ k = j
    BY <2>1, <2>3 DEF At
  <2> QED BY <2>1, <2>2, <2>3, <2>4 DEF CountInv, opsVars
<1>12. CASE RecordWrite(t, j)
  <2>1. PICK copy \in thread[t][j].copy : state'.fails = [copy.fails EXCEPT ![j] = Count(copy, j, thread[t][j].ok)]
    BY <1>12, RecordWriteFacts
  <2>2. PICK new : Sound(j, new) /\ Become(t, j, new) /\ new.step # "recorded"
    BY <1>12, RecordWriteFacts
  <2>3. thread'[t][j] = new /\ \A u \in Tick, k \in Job : u # t \/ k # j => thread'[u][k] = thread[u][k]
    BY <2>2, Becomes DEF TypeInv
  <2>4. At(t, j, "recorded") /\ foreign' = foreign
    BY <1>12 DEF RecordWrite
  <2>5. \A u \in Tick, k \in Job : ~At(u, k, "recorded")'
    BY <2>2, <2>3, <2>4 DEF CountInv, At
  <2>6. ~foreign => copy = state /\ state.fails = streak
    BY <2>4 DEF CountInv
  <2>7. streak' = [streak EXCEPT ![j] = IF thread[t][j].ok THEN 0 ELSE streak[j] + 1]
    BY <1>12, RecordWriteFacts
  <2>8. ~foreign => state'.fails = streak'
    BY <2>1, <2>6, <2>7 DEF Count
  <2> QED BY <2>4, <2>5, <2>8 DEF CountInv
<1>13. CASE TriageRead(t, j)
  BY <1>1, <1>13, TriageReadFacts
<1>14. CASE TriageWrite(t, j)
  <2>1. streak' = streak
    BY <1>14 DEF TriageWrite
  <2> QED BY <1>14, <2>1, TriageWriteFacts, CountStays
<1>15. CASE Release(t, j)
  <2>1. UNCHANGED opsVars
    BY <1>15 DEF Release
  <2> QED BY <1>1, <1>15, <2>1, ReleaseFacts, Values
<1> QED BY <1>2, <1>3, <1>4, <1>5, <1>6, <1>7, <1>8, <1>9, <1>10, <1>11, <1>12, <1>13, <1>14, <1>15 DEF ThreadStep

LEMMA CountStep ==
    ASSUME TypeInv, CountInv, [Next]_vars
    PROVE  CountInv'
<1>1. ASSUME \A t \in Tick, j \in Job : At(t, j, "recorded")' => thread'[t][j] = thread[t][j],
             ~foreign' => ~foreign /\ state' = state, streak' = streak
      PROVE  CountInv'
  BY <1>1 DEF CountInv, At
<1>2. CASE UNCHANGED vars
  BY <1>1, <1>2 DEF vars
<1>3. ASSUME NEW t \in Tick, TickStep(t) PROVE CountInv'
  <2>1. CASE End(t)
    BY <1>1, <2>1 DEF End, opsVars
  <2>2. ASSUME NEW j \in Job, ThreadStep(t, j) PROVE CountInv'
    BY <2>2, ThreadCounts
  <2> QED BY <1>3, <2>1, <2>2 DEF TickStep
<1>4. ASSUME NEW t \in Tick, Crash(t) PROVE CountInv'
  <2>1. /\ \A u \in Tick \ {t} : thread'[u] = thread[u]
        /\ \A j \in Job : thread'[t][j].step = "idle"
    BY <1>4, TickGone DEF Crash
  <2>2. UNCHANGED opsVars
    BY <1>4 DEF Crash
  <2> QED BY <1>1, <2>1, <2>2 DEF At, opsVars
<1>5. ASSUME NEW t \in Tick, NEW due \in SUBSET Job, Begin(t, due) PROVE CountInv'
  <2>1. /\ \A u \in Tick \ {t} : thread'[u] = thread[u]
        /\ \A j \in Job : thread'[t][j].step \in {"create", "idle"}
        /\ UNCHANGED opsVars
    BY <1>5, BeginTyped
  <2> QED BY <1>1, <2>1 DEF At, opsVars
<1>6. ASSUME NEW p \in Pid, ProcessStep(p) PROVE CountInv'
  <2>1. CASE CustodianReads(p)
    BY <1>1, <2>1 DEF CustodianReads, opsVars
  <2>2. CASE OrphanEnds(p)
    <3>1. UNCHANGED <<thread, streak>> /\ (~foreign' => ~foreign /\ state' = state)
      BY <2>2, SaveTyped DEF OrphanEnds
    <3> QED BY <1>1, <3>1
  <2> QED BY <1>6, <2>1, <2>2 DEF ProcessStep
<1> QED BY <1>2, <1>3, <1>4, <1>5, <1>6 DEF Next

\* For any ticks that overlap, are killed and write at once: as long as only record_outcome
\* has written ops_state.json, the count of a job is its consecutive failures.
THEOREM CountsAreExact == Spec => []CountIsExact
<1>1. Init => CountInv
  BY Values DEF Init, CountInv, At, NewState
<1>2. TypeInv => TypeOK
  BY DEF TypeInv, TypeOK, ThreadsOK, FilesOK, PidsOK, SetupOK, TickPids
<1>3. TypeInv /\ CountInv => CountIsExact
  BY <1>2 DEF CountInv, CountIsExact
<1> QED BY <1>1, <1>3, TypeInvariant, CountStep, PTL DEF Spec

(***************************************************************************)
(* The orphans                                                             *)
(***************************************************************************)

\* None: no process of job j was started.
None(j) == \A p \in Pid : ~(p.cmd = j /\ process[p].started)

LEMMA UsedSlot ==
    ASSUME OrphanInv, NEW t \in Tick, NEW j \in Job, thread[t][j].step # "idle" \/ pid[t] # Nobody
    PROVE  t \in setup.ticks
  BY Values DEF OrphanInv, Spares

LEMMA NoneYet ==
    ASSUME OrphanInv, NEW t \in Tick, NEW j \in Job \ {HealthJob}, setup.ticks = {t},
           \/ thread[t][j].step \notin {"wait", "idle", "create", "inspect", "probe"}
           \/ thread[t][j].step = "wait" /\ thread[t][j].task # j
    PROVE  None(j)
  BY DEF OrphanInv, Guarded, Guards, None

\* A step that leaves a job's thread, lock file and processes alone keeps the job guarded.
LEMMA GuardedStays ==
    ASSUME TypeInv, NEW j \in Job \ {HealthJob}, Guarded(j), setup' = setup,
           \A t \in Tick : setup.ticks = {t} => thread'[t][j] = thread[t][j],
           lock'[j] = lock[j],
           \A p \in Pid : p.cmd = j => process'[p].alive = process[p].alive /\ process'[p].started = process[p].started
    PROVE  Guarded(j)'
<1> SUFFICES ASSUME NEW t \in Tick, setup.ticks = {t}
             PROVE  /\ Stamps(j, thread[t][j])'
                    /\ \A p \in Pid : p.cmd = j /\ process'[p].started => Guards(j, thread[t][j], p)'
  BY DEF Guarded
<1>1. thread'[t][j] = thread[t][j] /\ Stamps(j, thread[t][j])
      /\ \A p \in Pid : p.cmd = j /\ process[p].started => Guards(j, thread[t][j], p)
  BY DEF Guarded
<1>2. Stamps(j, thread[t][j])'
  <2>1. thread[t][j].step \in {"stamp", "stamping"} => thread[t][j].child \in Pid /\ thread[t][j].child.cmd = thread[t][j].task
    BY ThreadFacts DEF Sound
  <2> QED BY <1>1, <2>1 DEF Stamps
<1> QED BY <1>1, <1>2 DEF Guards

\* A step of another job's thread.
LEMMA OtherThread ==
    ASSUME TypeInv, NEW t \in Tick, NEW k \in Job, ThreadStep(t, k), setup' = setup,
           NEW j \in Job \ {HealthJob}, j # k, Guarded(j)
    PROVE  Guarded(j)'
<1>1. ASSUME NEW new, Sound(k, new), Become(t, k, new), lock'[j] = lock[j],
             \A p \in Pid : p.cmd = j => process'[p] = process[p]
      PROVE  Guarded(j)'
  <2>1. \A u \in Tick : thread'[u][j] = thread[u][j]
    BY <1>1, Becomes DEF TypeInv
  <2> QED BY <1>1, <2>1, GuardedStays
<1>2. CASE Create(t, k)
  BY <1>1, <1>2, CreateFacts DEF Create
<1>3. CASE Inspect(t, k)
  BY <1>1, <1>3, InspectFacts DEF Inspect
<1>4. CASE Probe(t, k)
  BY <1>1, <1>4, ProbeFacts DEF Probe
<1>5. CASE Unlink(t, k)
  BY <1>1, <1>5, UnlinkFacts DEF Unlink
<1>6. CASE Sign(t, k)
  BY <1>1, <1>6, SignFacts DEF Sign
<1>7. CASE Spawn(t, k)
  <2>1. PICK child \in Pid : \E new : /\ Sound(k, new) /\ Become(t, k, new)
                                      /\ child.cmd = thread[t][k].task
                                      /\ \A p \in Pid \ {child} : process'[p] = process[p]
    BY <1>7, SpawnFacts
  <2>2. lock' = lock /\ thread[t][k].task \in Tasks(k)
    BY <1>7, ThreadFacts DEF Spawn, At, Sound
  <2>3. child.cmd # j
    BY <2>1, <2>2, Names DEF Tasks
  <2> QED BY <1>1, <2>1, <2>2, <2>3
<1>8. CASE StampOpen(t, k)
  <2>1. process' = process
    BY <1>8 DEF StampOpen
  <2>2. lock'[j] = lock[j]
    BY <1>8, StampOpenFacts
  <2> QED BY <1>1, <1>8, <2>1, <2>2, StampOpenFacts
<1>9. CASE StampWrite(t, k)
  <2>1. thread[t][k].task # j /\ thread[t][k].child.cmd # j
    BY <1>9, StampWriteFacts
  <2>2. lock'[j] = lock[j] /\ \A p \in Pid : p.cmd = j => process'[p] = process[p]
    BY <1>9, <2>1, StampWriteFacts
  <2> QED BY <1>1, <1>9, <2>2, StampWriteFacts
<1>10. CASE JobSucceeds(t, k) \/ JobFails(t, k) \/ \E timeout \in BOOLEAN : HandoffEnds(t, k, timeout)
  <2>1. lock' = lock
    BY <1>10 DEF JobSucceeds, JobFails, HandoffEnds, Reap
  <2>2. thread[t][k].child.cmd # j
    BY <1>10, WaitEndsFacts, Names DEF Tasks
  <2>3. \A p \in Pid : p.cmd = j => process'[p] = process[p]
    BY <1>10, <2>2, WaitEndsFacts
  <2> QED BY <1>1, <1>10, <2>1, <2>3, WaitEndsFacts
<1>11. CASE RecordRead(t, k)
  <2>1. ReadState(t, k, "recorded") /\ UNCHANGED <<lock, process>>
    BY <1>11 DEF RecordRead, ReadState
  <2> QED BY <1>1, <2>1, ReadFacts
<1>12. CASE RecordWrite(t, k)
  <2>1. UNCHANGED <<lock, process>>
    BY <1>12 DEF RecordWrite
  <2> QED BY <1>1, <1>12, <2>1, RecordWriteFacts
<1>13. CASE TriageRead(t, k)
  BY <1>1, <1>13, TriageReadFacts
<1>14. CASE TriageWrite(t, k)
  <2>1. UNCHANGED <<lock, process>>
    BY <1>14 DEF TriageWrite
  <2> QED BY <1>1, <1>14, <2>1, TriageWriteFacts
<1>15. CASE Release(t, k)
  <2>1. process' = process
    BY <1>15 DEF Release
  <2> QED BY <1>1, <1>15, <2>1, ReleaseFacts
<1> QED BY <1>2, <1>3, <1>4, <1>5, <1>6, <1>7, <1>8, <1>9, <1>10, <1>11, <1>12, <1>13, <1>14, <1>15 DEF ThreadStep

\* A step of the job's own thread: what it does to the job's processes.
LEMMA OwnThread ==
    ASSUME TypeInv, OrphanInv, NEW t \in Tick, NEW j \in Job \ {HealthJob}, ThreadStep(t, j), setup.ticks = {t}
    PROVE  /\ Stamps(j, thread[t][j])'
           /\ \A p \in Pid : p.cmd = j /\ process'[p].started => Guards(j, thread[t][j], p)'
<1> DEFINE Safe == /\ Stamps(j, thread[t][j])'
                   /\ \A p \in Pid : p.cmd = j /\ process'[p].started => Guards(j, thread[t][j], p)'
<1>1. ASSUME NEW new, Sound(j, new), Become(t, j, new) PROVE thread'[t][j] = new
  BY <1>1, Becomes DEF TypeInv
<1>2. Stamps(j, thread[t][j]) /\ \A p \in Pid : p.cmd = j /\ process[p].started => Guards(j, thread[t][j], p)
  BY DEF OrphanInv, Guarded
<1>3. ASSUME NEW new, Sound(j, new), Become(t, j, new), new.step \notin {"stamp", "stamping"},
             \A p \in Pid : p.cmd = j => ~process'[p].started
      PROVE  Safe
  BY <1>1, <1>3 DEF Stamps
<1>4. ASSUME NEW new, Sound(j, new), Become(t, j, new), new.step \notin {"stamp", "stamping"},
             process' = process, None(j)
      PROVE  Safe
  BY <1>3, <1>4 DEF None
<1>5. CASE Create(t, j)
  <2>1. PICK new : /\ Sound(j, new) /\ Become(t, j, new) /\ new.step \in {"sign", "inspect", "idle"}
                   /\ lock[j] # NoLock => new.step # "sign"
    BY <1>5, CreateFacts
  <2>2. thread'[t][j] = new /\ process' = process /\ (lock[j] # NoLock => lock' = lock)
    BY <1>1, <1>5, <2>1, CreateFacts DEF Create
  <2>3. ASSUME NEW p \in Pid, p.cmd = j, process[p].started PROVE Guards(j, thread[t][j], p)'
    <3>1. lock[j].pid = p /\ process[p].alive
      BY <1>2, <2>3 DEF Guards
    <3>2. lock[j] # NoLock
      BY <3>1, Values
    <3> QED BY <2>1, <2>2, <3>1, <3>2 DEF Guards
  <2> QED BY <2>1, <2>2, <2>3 DEF Stamps
<1>6. CASE Inspect(t, j)
  <2>1. PICK new : /\ Sound(j, new) /\ Become(t, j, new) /\ new.step \in {"idle", "unlink", "probe"}
                   /\ new.step = "unlink" => lock[j].pid = Nobody
                   /\ new.step = "probe" => new.seen = lock[j].pid
    BY <1>6, InspectFacts
  <2>2. thread'[t][j] = new /\ UNCHANGED <<lock, process>>
    BY <1>1, <1>6, <2>1 DEF Inspect
  <2>3. ASSUME NEW p \in Pid, p.cmd = j, process[p].started PROVE Guards(j, thread[t][j], p)'
    <3>1. lock[j].pid = p /\ process[p].alive
      BY <1>2, <2>3 DEF Guards
    <3> QED BY <2>1, <2>2, <3>1, Values DEF Guards
  <2> QED BY <2>1, <2>2, <2>3 DEF Stamps
<1>7. CASE Probe(t, j)
  <2>1. PICK new : /\ Sound(j, new) /\ Become(t, j, new) /\ new.step \in {"idle", "unlink"}
                   /\ new.step = "unlink" => ~process[thread[t][j].seen].alive
    BY <1>7, ProbeFacts
  <2>2. thread'[t][j] = new /\ UNCHANGED <<lock, process>> /\ At(t, j, "probe")
    BY <1>1, <1>7, <2>1 DEF Probe
  <2>3. ASSUME NEW p \in Pid, p.cmd = j, process[p].started PROVE Guards(j, thread[t][j], p)'
    <3>1. lock[j].pid = p /\ process[p].alive /\ thread[t][j].seen = p
      BY <1>2, <2>2, <2>3 DEF Guards, At
    <3> QED BY <2>1, <2>2, <3>1 DEF Guards
  <2> QED BY <2>1, <2>2, <2>3 DEF Stamps
<1>8. CASE Unlink(t, j) \/ Sign(t, j)
  <2>1. None(j) /\ process' = process
    BY <1>8, NoneYet DEF Unlink, Sign, At
  <2> QED BY <1>4, <1>8, <2>1, UnlinkFacts, SignFacts
<1>9. CASE Spawn(t, j)
  <2> DEFINE task == thread[t][j].task
  <2>1. PICK child \in Pid : \E new :
                 /\ Sound(j, new) /\ Become(t, j, new) /\ new.step \in {"stamp", "wait"} /\ new.task = task
                 /\ new.child = child /\ child.cmd = task
                 /\ process'[child].alive /\ (process'[child].started => task \notin Active(t))
                 /\ \A p \in Pid \ {child} : process'[p] = process[p]
    BY <1>9, SpawnFacts
  <2>2. PICK new :
                 /\ Sound(j, new) /\ Become(t, j, new) /\ new.step \in {"stamp", "wait"} /\ new.task = task
                 /\ new.child = child /\ child.cmd = task
                 /\ process'[child].alive /\ (process'[child].started => task \notin Active(t))
                 /\ \A p \in Pid \ {child} : process'[p] = process[p]
    BY <2>1
  <2>3. None(j) /\ j \in Active(t)
    BY <1>9, NoneYet DEF Spawn, At, Active, Holding
  <2>4. \A p \in Pid : p.cmd = j => ~process'[p].started
    BY <2>2, <2>3 DEF None
  <2> QED BY <1>1, <2>2, <2>4 DEF Stamps
<1>10. CASE StampOpen(t, j)
  <2>1. None(j) /\ process' = process /\ At(t, j, "stamp")
    BY <1>10, NoneYet DEF StampOpen, At
  <2>2. PICK new : /\ Sound(j, new) /\ Become(t, j, new) /\ new.step = "stamping"
                   /\ new.task = thread[t][j].task /\ new.child = thread[t][j].child
                   /\ lock'[thread[t][j].task].inode = new.fd
    BY <1>10, StampOpenFacts
  <2> QED BY <1>1, <1>2, <2>1, <2>2 DEF Stamps, None, At
<1>11. CASE StampWrite(t, j)
  <2> DEFINE task == thread[t][j].task
             child == thread[t][j].child
  <2>1. None(j) /\ At(t, j, "stamping")
    BY <1>11, NoneYet DEF StampWrite, StampWith, At
  <2>2. /\ child \in Pid /\ child.cmd = task
        /\ lock[task].inode = thread[t][j].fd => lock'[task].pid = child
        /\ process'[child].alive = process[child].alive
        /\ \A p \in Pid \ {child} : process'[p] = process[p]
    BY <1>11, StampWriteFacts
  <2>3. PICK new : Sound(j, new) /\ Become(t, j, new) /\ new.step = "wait" /\ new.task = task /\ new.child = child
    BY <1>11, StampWriteFacts
  <2>4. thread'[t][j] = new
    BY <1>1, <2>3
  <2>5. ASSUME NEW p \in Pid, p.cmd = j, process'[p].started PROVE Guards(j, thread[t][j], p)'
    <3>1. p = child /\ task = j
      BY <2>1, <2>2, <2>5 DEF None
    <3>2. process[child].alive /\ lock[j].inode = thread[t][j].fd
      BY <1>2, <2>1, <3>1 DEF Stamps, At
    <3> QED BY <2>2, <2>3, <2>4, <3>1, <3>2 DEF Guards
  <2> QED BY <2>3, <2>4, <2>5 DEF Stamps
<1>12. CASE JobSucceeds(t, j) \/ JobFails(t, j) \/ \E timeout \in BOOLEAN : HandoffEnds(t, j, timeout)
  <2> DEFINE child == thread[t][j].child
  <2>1. /\ At(t, j, "wait") /\ child \in Pid /\ process'[child] = NoProcess
        /\ \A p \in Pid \ {child} : process'[p] = process[p]
    BY <1>12, WaitEndsFacts
  <2>2. ASSUME NEW p \in Pid, p.cmd = j, process[p].started PROVE p = child
    BY <1>2, <2>1, <2>2 DEF Guards, At
  <2>3. \A p \in Pid : p.cmd = j => ~process'[p].started
    BY <2>1, <2>2, Values
  <2> QED BY <1>3, <1>12, <2>3, WaitEndsFacts
<1>13. CASE RecordRead(t, j)
  <2>1. None(j)
    BY <1>13, NoneYet DEF RecordRead, At
  <2>2. ReadState(t, j, "recorded") /\ process' = process
    BY <1>13 DEF RecordRead, ReadState
  <2> QED BY <1>4, <2>1, <2>2, ReadFacts
<1>14. CASE RecordWrite(t, j)
  <2>1. None(j) /\ process' = process
    BY <1>14, NoneYet DEF RecordWrite, At
  <2> QED BY <1>4, <1>14, <2>1, RecordWriteFacts
<1>15. CASE TriageRead(t, j)
  <2>1. None(j) /\ process' = process
    BY <1>15, NoneYet, TriageReadFacts DEF TriageRead, At
  <2> QED BY <1>4, <1>15, <2>1, TriageReadFacts
<1>16. CASE TriageWrite(t, j)
  <2>1. None(j) /\ process' = process
    BY <1>16, NoneYet DEF TriageWrite, At
  <2> QED BY <1>4, <1>16, <2>1, TriageWriteFacts
<1>17. CASE Release(t, j)
  <2>1. None(j) /\ process' = process
    BY <1>17, NoneYet DEF Release, At
  <2> QED BY <1>4, <1>17, <2>1, ReleaseFacts, Values
<1> QED BY <1>5, <1>6, <1>7, <1>8, <1>9, <1>10, <1>11, <1>12, <1>13, <1>14, <1>15, <1>16, <1>17 DEF ThreadStep

LEMMA Busy ==
    ASSUME NEW t \in Tick, NEW j \in Job, ThreadStep(t, j)
    PROVE  thread[t][j].step # "idle" /\ pid' = pid
  BY DEF ThreadStep, Create, Inspect, Probe, Unlink, Sign, Spawn, StampOpen, StampWrite, StampWith,
         JobSucceeds, JobFails, HandoffEnds, Reap, Waits, RecordRead, ReadState, RecordWrite,
         TriageRead, TriageWrite, Release, At

LEMMA OrphanThreads ==
    ASSUME TypeInv, OrphanInv, NEW t \in Tick, NEW k \in Job, ThreadStep(t, k), setup' = setup
    PROVE  OrphanInv'
<1>1. t \in setup.ticks /\ pid' = pid
  BY Busy, UsedSlot
<1>2. PICK new : Sound(k, new) /\ Become(t, k, new)
  <2>1. CASE \/ Create(t, k) \/ Inspect(t, k) \/ Probe(t, k) \/ Unlink(t, k) \/ Sign(t, k)
             \/ StampOpen(t, k) \/ StampWrite(t, k)
    BY <2>1, CreateFacts, InspectFacts, ProbeFacts, UnlinkFacts, SignFacts, StampOpenFacts, StampWriteFacts
  <2>2. CASE Spawn(t, k)
    BY <2>2, SpawnFacts
  <2>3. CASE JobSucceeds(t, k) \/ JobFails(t, k) \/ \E timeout \in BOOLEAN : HandoffEnds(t, k, timeout)
    BY <2>3, WaitEndsFacts
  <2>4. CASE RecordRead(t, k)
    BY <2>4, ReadFacts DEF RecordRead
  <2>5. CASE RecordWrite(t, k) \/ TriageRead(t, k) \/ TriageWrite(t, k)
    BY <2>5, RecordWriteFacts, TriageReadFacts, TriageWriteFacts
  <2>6. CASE Release(t, k)
    BY <2>6, ReleaseFacts
  <2> QED BY <2>1, <2>2, <2>3, <2>4, <2>5, <2>6 DEF ThreadStep
<1>3. Spares'
  <2>1. ASSUME NEW u \in Tick \ setup.ticks, NEW j \in Job PROVE thread'[u][j] = NoThread /\ pid'[u] = Nobody
    <3>1. u # t
      BY <1>1
    <3> QED BY <1>1, <1>2, <3>1, Becomes DEF TypeInv, OrphanInv, Spares
  <2>2. ASSUME NEW u \in Tick \ setup.ticks PROVE pid'[u] = Nobody
    BY <1>1 DEF OrphanInv, Spares
  <2> QED BY <2>1, <2>2 DEF Spares
<1>4. ASSUME NEW j \in Job \ {HealthJob} PROVE Guarded(j)'
  <2>1. CASE j # k
    BY <2>1, OtherThread DEF OrphanInv
  <2>2. CASE j = k
    <3>1. ASSUME NEW u \in Tick, setup.ticks = {u}
          PROVE  /\ Stamps(j, thread[u][j])'
                 /\ \A p \in Pid : p.cmd = j /\ process'[p].started => Guards(j, thread[u][j], p)'
      <4>1. u = t
        BY <1>1, <3>1
      <4> QED BY <2>2, <3>1, <4>1, OwnThread
    <3> QED BY <3>1 DEF Guarded
  <2> QED BY <2>1, <2>2
<1> QED BY <1>3, <1>4 DEF OrphanInv

\* A tick that begins or is gone leaves its threads where they know nothing yet.
LEMMA OrphanTicks ==
    ASSUME TypeInv, OrphanInv, NEW t \in Tick, t \in setup.ticks, UNCHANGED <<setup, lock>>,
           \A u \in Tick \ {t} : pid'[u] = pid[u] /\ thread'[u] = thread[u],
           \A j \in Job : thread'[t][j].step \in {"create", "idle"},
           \A p \in Pid : p.cmd # "tick" => process'[p] = process[p]
    PROVE  OrphanInv'
<1>1. Spares'
  BY DEF OrphanInv, Spares
<1>2. ASSUME NEW j \in Job \ {HealthJob}, NEW u \in Tick, setup.ticks = {u}
      PROVE  /\ Stamps(j, thread[u][j])'
             /\ \A p \in Pid : p.cmd = j /\ process'[p].started => Guards(j, thread[u][j], p)'
  <2>1. u = t
    BY <1>2
  <2>2. \A p \in Pid : p.cmd = j => process'[p] = process[p]
    BY Names
  <2>3. \A p \in Pid : p.cmd = j /\ process[p].started => Guards(j, thread[u][j], p)
    BY <1>2 DEF OrphanInv, Guarded
  <2> QED BY <2>1, <2>2, <2>3 DEF Stamps, Guards
<1> QED BY <1>1, <1>2 DEF OrphanInv, Guarded

LEMMA OrphanStep ==
    ASSUME TypeInv, OrphanInv, [Next]_vars
    PROVE  OrphanInv'
<1>1. CASE UNCHANGED vars
  BY <1>1 DEF vars, OrphanInv, Spares, Guarded, Stamps, Guards
<1>2. ASSUME NEW t \in Tick, TickStep(t) PROVE OrphanInv'
  <2>1. CASE End(t)
    <3>1. /\ t \in setup.ticks /\ UNCHANGED <<setup, lock>>
          /\ \A j \in Job : thread[t][j].step = "idle" /\ thread' = thread
      BY <1>2, <2>1, UsedSlot DEF End, At, TickStep, OrphanInv, Spares
    <3>2. /\ \A u \in Tick \ {t} : pid'[u] = pid[u]
          /\ \A p \in Pid : p.cmd # "tick" => process'[p] = process[p]
          /\ thread' = thread
      BY <2>1, TickGone DEF End, At
    <3> QED BY <3>1, <3>2, OrphanTicks
  <2>2. ASSUME NEW j \in Job, ThreadStep(t, j) PROVE OrphanInv'
    BY <1>2, <2>2, OrphanThreads DEF TickStep
  <2> QED BY <1>2, <2>1, <2>2 DEF TickStep
<1>3. ASSUME NEW t \in Tick, Crash(t) PROVE OrphanInv'
  <2>1. t \in setup.ticks /\ UNCHANGED <<setup, lock>>
    BY <1>3 DEF Crash, OrphanInv, Spares
  <2>2. /\ \A u \in Tick \ {t} : pid'[u] = pid[u] /\ thread'[u] = thread[u]
        /\ \A j \in Job : thread'[t][j].step = "idle"
        /\ \A p \in Pid : p.cmd # "tick" => process'[p] = process[p]
    BY <1>3, TickGone DEF Crash
  <2> QED BY <2>1, <2>2, OrphanTicks
<1>4. ASSUME NEW t \in Tick, NEW due \in SUBSET Job, Begin(t, due) PROVE OrphanInv'
  BY <1>4, BeginTyped, OrphanTicks
<1>5. ASSUME NEW p \in Pid, ProcessStep(p) PROVE OrphanInv'
  <2>1. UNCHANGED <<setup, pid, thread, lock>>
    BY <1>5 DEF ProcessStep, CustodianReads, OrphanEnds
  <2>2. Spares'
    BY <2>1 DEF OrphanInv, Spares
  <2>3. ASSUME NEW j \in Job \ {HealthJob} PROVE Guarded(j)'
    <3>1. CASE CustodianReads(p)
      BY <2>1, <3>1, ReadsFacts, GuardedStays DEF OrphanInv
    <3>2. CASE OrphanEnds(p)
      <4>1. process'[p] = NoProcess /\ \A q \in Pid \ {p} : process'[q] = process[q]
        BY <3>2, Ended DEF OrphanEnds
      <4>2. \A t \in Tick : thread[t][j].child # p
        BY <3>2 DEF OrphanEnds, Orphan
      <4>3. ASSUME NEW t \in Tick, setup.ticks = {t}
            PROVE  /\ Stamps(j, thread[t][j])'
                   /\ \A q \in Pid : q.cmd = j /\ process'[q].started => Guards(j, thread[t][j], q)'
        <5>1. Stamps(j, thread[t][j]) /\ \A q \in Pid : q.cmd = j /\ process[q].started => Guards(j, thread[t][j], q)
          BY <4>3 DEF OrphanInv, Guarded
        <5>2. thread[t][j].step \in {"stamp", "stamping"} => thread[t][j].child \in Pid
          BY ThreadFacts DEF Sound
        <5>3. Stamps(j, thread[t][j])'
          BY <2>1, <4>1, <4>2, <5>1, <5>2 DEF Stamps
        <5>4. ASSUME NEW q \in Pid, q.cmd = j, process'[q].started PROVE Guards(j, thread[t][j], q)'
          <6>1. q # p
            BY <4>1, <5>4, Values
          <6> QED BY <2>1, <4>1, <5>1, <5>4, <6>1 DEF Guards
        <5> QED BY <5>3, <5>4
      <4> QED BY <2>1, <4>3 DEF Guarded
    <3> QED BY <1>5, <3>1, <3>2 DEF ProcessStep
  <2> QED BY <2>2, <2>3 DEF OrphanInv
<1> QED BY <1>1, <1>2, <1>3, <1>4, <1>5 DEF Next

\* For any jobs, failures and kills, and ticks one at a time: no thread starts its job while
\* a process of the job that was started before is alive, with ops_health excepted.
THEOREM OrphansAreNotDoubled == Spec => OrphanNotDoubled
<1>1. Init => OrphanInv
  BY Values DEF Init, OrphanInv, Spares, Guarded, Stamps
<1>2. TypeInv /\ OrphanInv /\ [Next]_vars => OrphanInv'
  BY OrphanStep
<1>3. TypeInv /\ OrphanInv =>
        (Cardinality(setup.ticks) = 1 => \A t \in Tick, j \in Job \ {HealthJob} : Starts(t, j) =>
            \A p \in Pid : ~(p.cmd = j /\ process[p].started))
  <2> SUFFICES ASSUME TypeInv, OrphanInv, Cardinality(setup.ticks) = 1,
                      NEW t \in Tick, NEW j \in Job \ {HealthJob}, Starts(t, j)
               PROVE  None(j)
    BY DEF None
  <2>1. setup.ticks \subseteq Tick /\ IsFiniteSet(setup.ticks)
    BY ConductorAssumption, FS_Subset DEF TypeInv, SetupOK
  <2>2. PICK x : setup.ticks = {x}
    BY <2>1, FS_Singleton
  <2>3. At(t, j, "spawn") /\ thread[t][j].step # "idle"
    BY DEF Starts, At
  <2>4. setup.ticks = {t}
    BY <2>2, <2>3, UsedSlot
  <2> QED BY <2>3, <2>4, NoneYet DEF At
<1> QED BY <1>1, <1>2, <1>3, TypeInvariant, PTL DEF Spec, OrphanNotDoubled
================================================================================
