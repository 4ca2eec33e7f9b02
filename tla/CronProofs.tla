----------------------------- MODULE CronProofs -----------------------------
(***************************************************************************)
(* What the lock of a cron task promises, for any number of processes,     *)
(* reboots, edits and instants: the theorems of CronRun.                   *)
(*                                                                         *)
(* Everything rests on one relation of lock file, processes and boot: the  *)
(* lock of a run that nobody released by hand names that run, in this      *)
(* boot, from its acquisition until its outcome is in the store.           *)
(***************************************************************************)
EXTENDS CronRun, FiniteSetTheorems, SequenceTheorems, WellFoundedInduction, TLAPS

\* The part of the type the lock depends on.
LockTypeOK ==
    /\ lock \in Locks /\ now \in Nat /\ boot \in Nat
    /\ pc \in [Runners -> Steps] /\ at \in [Runners -> Nat]
    /\ unsettled \subseteq Runners

\* A process between taking and giving up the lock has it, in this boot.
SectionHoldsLock ==
    \A r \in Runners \ freed : pc[r] \in InSection =>
        lock.run = r /\ lock.state = "held" /\ lock.boot = boot

\* So does a run whose outcome is unknown, whether its process lives or not.
UnsettledHoldsLock ==
    \A r \in unsettled \ freed :
        lock.run = r /\ lock.state \in {"held", "quarantined"} /\ lock.boot = boot

\* A process that gives up its lock has recorded its run.
RecordedIsSettled == \A r \in Runners : pc[r] = "recorded" => r \notin unsettled

\* Nobody who could still release it runs under a quarantined lock.
QuarantineIsFinal ==
    lock.state = "quarantined" => lock.run \in Runners /\ pc[lock.run] = "done"

QuarantineInv == LockTypeOK /\ QuarantineIsFinal

LockInv == LockTypeOK /\ SectionHoldsLock /\ UnsettledHoldsLock /\ RecordedIsSettled

-----------------------------------------------------------------------------

\* No instant makes a quarantined lock takeable.
LEMMA QuarantinedIsNotTakeable ==
    ASSUME NEW i, lock \in Locks, Takeable(i)
    PROVE  lock.state # "quarantined"
BY DEF Takeable, LockState, Locks

\* Without a timeout a lock of this boot is not takeable either.
LEMMA HeldIsNotTakeable ==
    ASSUME NEW i, lock \in Locks, LockTimeout = 0, Takeable(i)
    PROVE  /\ lock.state # "quarantined"
           /\ ~(lock.state = "held" /\ lock.boot = boot)
BY DEF Takeable, LockState, Locks

\* Every lock the steps below write is one.
LEMMA LocksWritten ==
    ASSUME LockTypeOK, CronAssumption
    PROVE  /\ FreeLock \in Locks /\ TornLock \in Locks
           /\ HeldBy(Operator, now) \in Locks
           /\ \A r \in Runners : /\ HeldBy(r, at[r]) \in Locks
                                 /\ ReleasedBy(r) \in Locks
                                 /\ QuarantinedBy(r) \in Locks
BY DEF LockTypeOK, Locks, FreeLock, TornLock, HeldBy, ReleasedBy, QuarantinedBy

\* Initially the lock is free and no process runs.
LEMMA LockTypeInitially == Init => LockTypeOK
BY DEF Init, LockTypeOK, Locks, FreeLock, Steps, Alive

\* One step keeps the types of lock, clocks and processes.
LEMMA LockTypeStep == LockTypeOK /\ [Next]_vars => LockTypeOK'
<1> SUFFICES ASSUME LockTypeOK, [Next]_vars PROVE LockTypeOK'
    OBVIOUS
<1> USE CronAssumption
<1>0. LockTypeOK
    OBVIOUS
<1>1. ASSUME NEW r \in Runners, Execute(r) PROVE LockTypeOK'
    <2>1. CASE Load(r) \/ PlanRun(r) \/ Skip(r) \/ RunPayload(r) \/ Archive(r) \/ ArchiveFails(r)
                \/ Commit(r) \/ CommitFails(r) \/ \E s \in {"success", "failed"} : FinishPayload(r, s)
        BY <2>1 DEF LockTypeOK, Load, PlanRun, Skip, RunPayload, FinishPayload, Archive,
           ArchiveFails,
                    Commit, CommitFails, End, Goto, Steps, clocks, plans, results, ghosts
    <2>2. CASE Acquire(r) \/ NotAcquired(r) \/ Release(r) \/ Quarantine(r)
        BY <2>2, LocksWritten
           DEF LockTypeOK, Acquire, NotAcquired, Release, Quarantine, End, Goto, Steps,
               clocks, plans, results, ghosts
    <2> QED BY <1>1, <2>1, <2>2 DEF Execute
<1>2. ASSUME NEW r \in Runners, Crash(r) PROVE LockTypeOK'
    BY <1>2 DEF LockTypeOK, Crash, End, Steps, clocks, results, ghosts
<1>3. CASE Operate
    BY <1>3, LocksWritten
       DEF LockTypeOK, Operate, Enable, Disable, Remove, EditLimit, Add, EditTask, OperatorRelease,
           OperatorAcquire, clocks, plans, results, ghosts
<1>4. CASE Reboot
    BY <1>4 DEF LockTypeOK, Reboot, Steps, results
<1>5. CASE Minute
    BY <1>5 DEF LockTypeOK, Minute, plans, results, ghosts
<1>6. CASE UNCHANGED vars
    BY <1>6 DEF LockTypeOK, vars
<1> QED BY <1>1, <1>2, <1>3, <1>4, <1>5, <1>6 DEF Next

-----------------------------------------------------------------------------

\* A free lock, no process and no run: nothing to relate yet.
LEMMA LockInvInitially == Init => LockInv
<1> SUFFICES ASSUME Init PROVE LockInv
    OBVIOUS
<1>1. LockTypeOK
    BY LockTypeInitially
<1>2. \A r \in Runners : pc[r] = "new"
    BY DEF Init
<1>3. unsettled = {}
    BY DEF Init
<1> QED BY <1>1, <1>2, <1>3 DEF LockInv, SectionHoldsLock, UnsettledHoldsLock, RecordedIsSettled,
           InSection

\* A process that takes the lock takes it from nobody.
LEMMA NobodyHoldsATakeableLock ==
    ASSUME NEW i, LockTimeout = 0, LockInv, Takeable(i)
    PROVE  /\ \A r \in Runners \ freed : pc[r] \notin InSection
           /\ unsettled \subseteq freed
<1>1. lock \in Locks
    BY DEF LockInv, LockTypeOK
<1>2. lock.state # "quarantined" /\ ~(lock.state = "held" /\ lock.boot = boot)
    BY <1>1, HeldIsNotTakeable
<1> QED BY <1>2 DEF LockInv, LockTypeOK, SectionHoldsLock, UnsettledHoldsLock

\* A step of one process.
LEMMA LockInvExecute ==
    ASSUME LockTimeout = 0, LockInv, LockTypeOK', NEW r \in Runners, Execute(r)
    PROVE  LockInv'
<1> USE DEF LockInv, SectionHoldsLock, UnsettledHoldsLock, RecordedIsSettled, LockTypeOK, InSection
<1>1. CASE Load(r) \/ PlanRun(r) \/ Skip(r)
    BY <1>1 DEF Load, PlanRun, Skip, End, Goto, Steps, clocks, plans, results, ghosts
<1>2. CASE Acquire(r)
    <2>1. Takeable(at[r])
        BY <1>2 DEF Acquire
    <2>2. (\A s \in Runners \ freed : pc[s] \notin InSection) /\ unsettled \subseteq freed
        BY <2>1, NobodyHoldsATakeableLock
    <2>3. lock'.run = r /\ lock'.state = "held" /\ lock'.boot = boot
        BY <1>2 DEF Acquire, HeldBy
    <2> QED BY <1>2, <2>2, <2>3 DEF Acquire, Goto, Steps, clocks, plans, results
<1>3. CASE NotAcquired(r)
    <2>1. CASE lock' = lock
        BY <1>3, <2>1 DEF NotAcquired, End, Steps, clocks, results, ghosts
    <2>2. CASE Takeable(at[r])
        <3>1. (\A s \in Runners \ freed : pc[s] \notin InSection) /\ unsettled \subseteq freed
            BY <2>2, NobodyHoldsATakeableLock
        <3> QED BY <1>3, <3>1 DEF NotAcquired, End, Steps, clocks, results, ghosts
    <2> QED BY <1>3, <2>1, <2>2 DEF NotAcquired
<1>4. CASE RunPayload(r)
    BY <1>4 DEF RunPayload, Goto, Steps, clocks, plans, results
<1>5. CASE \E s \in {"success", "failed"} : FinishPayload(r, s)
    BY <1>5 DEF FinishPayload, Goto, Steps, clocks, plans, ghosts
<1>6. CASE Archive(r) \/ ArchiveFails(r) \/ CommitFails(r)
    BY <1>6 DEF Archive, ArchiveFails, CommitFails, Goto, Steps, clocks, plans, results, ghosts
<1>7. CASE Commit(r)
    BY <1>7 DEF Commit, Goto, Steps, clocks, plans, results
<1>8. CASE Release(r)
    BY <1>8 DEF Release, ReleasedBy, End, Steps, clocks, results, ghosts
<1>9. CASE Quarantine(r)
    BY <1>9 DEF Quarantine, QuarantinedBy, Locks, End, Steps, clocks, results, ghosts
<1> QED BY <1>1, <1>2, <1>3, <1>4, <1>5, <1>6, <1>7, <1>8, <1>9 DEF Execute

\* A step of the operator: a lock that is released by hand frees its run.
LEMMA LockInvOperate ==
    ASSUME LockTimeout = 0, LockInv, LockTypeOK', Operate
    PROVE  LockInv'
<1> USE DEF LockInv, SectionHoldsLock, UnsettledHoldsLock, RecordedIsSettled, LockTypeOK, InSection
<1>1. CASE Enable \/ Disable \/ Remove \/ \E n \in Limits : EditLimit(n) \/ Add(n)
    BY <1>1 DEF Enable, Disable, Remove, EditLimit, Add, EditTask, clocks, plans, results, ghosts
<1>2. CASE OperatorRelease
    BY <1>2 DEF OperatorRelease, clocks, plans, results
<1>3. CASE OperatorAcquire
    <2>1. Takeable(now)
        BY <1>3 DEF OperatorAcquire
    <2>2. (\A s \in Runners \ freed : pc[s] \notin InSection) /\ unsettled \subseteq freed
        BY <2>1, NobodyHoldsATakeableLock
    <2> QED BY <1>3, <2>2 DEF OperatorAcquire, clocks, plans, results
<1> QED BY <1>1, <1>2, <1>3 DEF Operate

\* One step of anybody.
LEMMA LockInvStep ==
    ASSUME LockTimeout = 0, LockInv, [Next]_vars
    PROVE  LockInv'
<1> USE DEF LockInv, SectionHoldsLock, UnsettledHoldsLock, RecordedIsSettled, InSection
<1>0. LockTypeOK'
    BY LockTypeStep
<1>1. ASSUME NEW r \in Runners, Execute(r) PROVE LockInv'
    BY <1>0, <1>1, LockInvExecute
<1>2. ASSUME NEW r \in Runners, Crash(r) PROVE LockInv'
    BY <1>0, <1>2 DEF Crash, End, LockTypeOK, clocks, results, ghosts
<1>3. CASE Operate
    BY <1>0, <1>3, LockInvOperate
<1>4. CASE Reboot
    BY <1>0, <1>4 DEF Reboot, LockTypeOK, Alive, Steps, results
<1>5. CASE Minute
    BY <1>0, <1>5 DEF Minute, plans, results, ghosts
<1>6. CASE UNCHANGED vars
    BY <1>0, <1>6 DEF vars
<1> QED BY <1>1, <1>2, <1>3, <1>4, <1>5, <1>6 DEF Next

\* In every reachable state the lock names the run it protects (locks.rs,
\* acquire_for_run to release_for_run), whatever crashed, failed or rebooted.
THEOREM LockInvHolds == ASSUME LockTimeout = 0 PROVE Spec => []LockInv
<1>1. Init => LockInv
    BY LockInvInitially
<1>2. LockInv /\ [Next]_vars => LockInv'
    BY LockInvStep
<1> QED BY <1>1, <1>2, PTL DEF Spec

\* Two processes are never between taking and giving up the lock together,
\* unless an operator released the lock of one of them: run.rs may run a
\* payload without looking at the lock again.
THEOREM LockExcludes == ASSUME LockTimeout = 0 PROVE Spec => []OneHolder
<1>1. LockInv => OneHolder
    BY DEF LockInv, SectionHoldsLock, OneHolder
<1> QED BY <1>1, LockInvHolds, PTL

\* A run whose outcome the store does not have keeps its lock, so that the
\* planner of a later process (due.rs, lock_status) skips the task.
THEOREM UnsettledStaysGuarded == ASSUME LockTimeout = 0 PROVE Spec => []UnsettledIsGuarded
<1>1. LockInv => UnsettledIsGuarded
    BY DEF LockInv, UnsettledHoldsLock, UnsettledIsGuarded
<1> QED BY <1>1, LockInvHolds, PTL

\* Both together, for every number of processes that overlap.
THEOREM LockAlwaysGuards == ASSUME LockTimeout = 0 PROVE Spec => []LockGuards
<1>1. OneHolder /\ UnsettledIsGuarded => LockGuards  BY DEF LockGuards
<1> QED BY <1>1, LockExcludes, UnsettledStaysGuarded, PTL

-----------------------------------------------------------------------------

\* A quarantine is written by a process as it ends, and processes do not return.
LEMMA QuarantineStep == QuarantineInv /\ [Next]_vars => QuarantineInv'
<1> SUFFICES ASSUME QuarantineInv, [Next]_vars PROVE QuarantineIsFinal'
    BY LockTypeStep DEF QuarantineInv
<1> USE DEF QuarantineInv, QuarantineIsFinal, LockTypeOK
<1>1. ASSUME NEW r \in Runners, Execute(r) PROVE QuarantineIsFinal'
    <2>1. CASE \/ Load(r) \/ PlanRun(r) \/ Skip(r) \/ RunPayload(r) \/ Archive(r) \/ ArchiveFails(r)
               \/ Commit(r) \/ CommitFails(r) \/ \E s \in {"success", "failed"} : FinishPayload(r, s)
        BY <2>1 DEF Load, PlanRun, Skip, RunPayload, FinishPayload, Archive, ArchiveFails,
                    Commit, CommitFails, End, Goto, Steps, clocks, plans, results, ghosts
    <2>2. CASE Acquire(r) \/ NotAcquired(r)
        BY <2>2 DEF Acquire, NotAcquired, HeldBy, FreeLock, TornLock, End, Goto, Steps
    <2>3. CASE Release(r)
        BY <2>3 DEF Release, ReleasedBy, FreeLock, End, Steps
    <2>4. CASE Quarantine(r)
        BY <2>4 DEF Quarantine, QuarantinedBy, Locks, End, Steps
    <2> QED BY <1>1, <2>1, <2>2, <2>3, <2>4 DEF Execute
<1>2. ASSUME NEW r \in Runners, Crash(r) PROVE QuarantineIsFinal'
    BY <1>2 DEF Crash, End, Steps
<1>3. CASE Operate
    BY <1>3 DEF Operate, Enable, Disable, Remove, EditLimit, Add, EditTask, OperatorRelease,
                OperatorAcquire, HeldBy, FreeLock, TornLock, clocks, plans, results, ghosts
<1>4. CASE Reboot
    BY <1>4 DEF Reboot, Steps, Alive
<1>5. CASE Minute
    BY <1>5 DEF Minute, plans, results, ghosts
<1>6. CASE UNCHANGED vars
    BY <1>6 DEF vars
<1> QED BY <1>1, <1>2, <1>3, <1>4, <1>5, <1>6 DEF Next

\* What a step may do to a quarantined lock.
LEMMA QuarantineSticksStep ==
    ASSUME QuarantineInv, [Next]_vars, lock.state = "quarantined"
    PROVE  lock' = lock \/ (lock' = FreeLock /\ lock.run \in freed')
<1> USE DEF QuarantineInv, QuarantineIsFinal, LockTypeOK
<1>0. \A i : ~Takeable(i)
    BY QuarantinedIsNotTakeable
<1>1. ASSUME NEW r \in Runners, Execute(r) PROVE lock' = lock
    <2>1. pc[r] \in Alive \cup {"new"} => lock.run # r
        BY DEF Alive, Steps
    <2> QED BY <1>0, <1>1, <2>1
            DEF Execute, Load, PlanRun, Skip, Acquire, NotAcquired, RunPayload, FinishPayload, Archive,
                ArchiveFails, Commit, CommitFails, Release, ReleasedBy, Quarantine, QuarantinedBy,
                Alive, Steps, results, ghosts
<1>2. ASSUME NEW r \in Runners, Crash(r) PROVE lock' = lock
    BY <1>2 DEF Crash
<1>3. CASE Operate
    BY <1>0, <1>3 DEF Operate, Enable, Disable, Remove, EditLimit, Add, EditTask, OperatorRelease,
                      OperatorAcquire
<1>4. CASE Reboot \/ Minute \/ UNCHANGED vars
    BY <1>4 DEF Reboot, Minute, vars
<1> QED BY <1>1, <1>2, <1>3, <1>4 DEF Next

\* After a failed commit (run.rs, quarantine_persist_failure) nothing but the
\* release of exactly that run by its operator ends the quarantine; this holds
\* for every lock timeout.
THEOREM QuarantineHolds == Spec => QuarantineSticks
<1>1. Init => QuarantineInv
    BY LockTypeInitially DEF Init, FreeLock, QuarantineInv, QuarantineIsFinal
<1>2. QuarantineInv /\ [Next]_vars => QuarantineInv'
    BY QuarantineStep
<1>3. QuarantineInv /\ [Next]_vars =>
          [lock.state = "quarantined" => lock' = lock \/ (lock' = FreeLock /\ lock.run \in freed')]_vars
    BY QuarantineSticksStep
<1> QED BY <1>1, <1>2, <1>3, PTL DEF Spec, QuarantineSticks

-----------------------------------------------------------------------------
(* What the operator did survives (EditsSurvive).                          *)

\* The store always has a record of these fields.
TaskShape ==
    {"exists", "enabled", "limit", "count", "last", "retry", "history", "born"} \subseteq DOMAIN task

\* A task that is added or gone has those fields too.
LEMMA NewTaskShape ==
    ASSUME NEW n, NEW b
    PROVE  /\ DOMAIN NewTask(n, b) =
                {"exists", "enabled", "limit", "count", "last", "retry", "history", "born"}
           /\ DOMAIN Gone(b) = DOMAIN NewTask(0, b)
BY DEF NewTask, Gone

\* Only a commit changes the task in a step of a process, and it keeps what is
\* not the run's own.
LEMMA ProjectionKeepsEdits ==
    ASSUME TaskShape, NEW r \in Runners
    PROVE  /\ DOMAIN Projected(task, r) = DOMAIN task
           /\ Projected(task, r).exists = task.exists
           /\ Projected(task, r).enabled = (task.enabled /\ ~Disables(r))
           /\ Projected(task, r).limit = task.limit
           /\ Projected(task, r).born = task.born
           /\ Projected(task, r).count = CountAfter(r)
           /\ Projected(task, r).last = occ[r]
           /\ Projected(task, r).history = Kept(Appended(r))
           /\ Projected(task, r).retry = IF LimitHit(r) THEN NoRetry ELSE RetryAfter(r)
BY DEF TaskShape, Projected

\* A process writes the task only as it commits.
LEMMA TaskStep ==
    ASSUME NEW r \in Runners, Execute(r) \/ Crash(r)
    PROVE  task' = task \/ task' = Projected(task, r)
BY DEF Execute, Load, PlanRun, Skip, Acquire, NotAcquired, RunPayload, FinishPayload, Archive,
       ArchiveFails, Commit, CommitFails, Release, Quarantine, Crash

\* No step takes a field away.
LEMMA TaskShapeStep == TaskShape /\ [Next]_vars => TaskShape'
<1> SUFFICES ASSUME TaskShape, [Next]_vars PROVE TaskShape'
    OBVIOUS
<1>1. ASSUME NEW r \in Runners, Execute(r) \/ Crash(r) PROVE TaskShape'
    BY <1>1, TaskStep, ProjectionKeepsEdits DEF TaskShape
<1>2. CASE Operate
    <2>1. CASE Enable \/ Disable \/ \E n \in Limits : EditLimit(n)
        BY <2>1 DEF TaskShape, Enable, Disable, EditLimit, EditTask
    <2>2. CASE Remove \/ \E n \in Limits : Add(n)
        BY <2>2, NewTaskShape DEF TaskShape, Remove, Add, EditTask
    <2>3. CASE OperatorRelease \/ OperatorAcquire
        BY <2>3 DEF TaskShape, OperatorRelease, OperatorAcquire
    <2> QED BY <1>2, <2>1, <2>2, <2>3 DEF Operate
<1>3. CASE Reboot \/ Minute \/ UNCHANGED vars
    BY <1>3 DEF TaskShape, Reboot, Minute, vars
<1> QED BY <1>1, <1>2, <1>3 DEF Next

\* A step that moves a process is not the operator's.
LEMMA EditsSurviveStep ==
    ASSUME TaskShape, [Next]_vars, pc' # pc
    PROVE  /\ task'.enabled => task.enabled
           /\ task'.exists = task.exists
           /\ task'.limit = task.limit /\ task'.born = task.born
<1>1. ASSUME NEW r \in Runners, task' = Projected(task, r)
      PROVE  /\ task'.enabled => task.enabled
             /\ task'.exists = task.exists
             /\ task'.limit = task.limit /\ task'.born = task.born
    BY <1>1, ProjectionKeepsEdits
<1>2. CASE \E r \in Runners : Execute(r) \/ Crash(r)
    BY <1>1, <1>2, TaskStep
<1>3. ~Operate /\ ~Minute /\ ~UNCHANGED vars
    BY DEF Operate, Enable, Disable, Remove, EditLimit, Add, EditTask, OperatorRelease,
           OperatorAcquire, Minute, vars
<1>4. CASE Reboot
    BY <1>4 DEF Reboot
<1> QED BY <1>2, <1>3, <1>4 DEF Next

\* However a run, the operator and other runs interleave, a commit (commit_run_state)
\* keeps every edit made since the run loaded its snapshot: with any number of
\* processes, whether they overlap or not and whatever the lock is.
THEOREM OperatorEditsSurvive == Spec => EditsSurvive
<1>1. Init => TaskShape
    BY NewTaskShape DEF Init, TaskShape
<1>2. TaskShape /\ [Next]_vars =>
        [ pc' # pc => /\ task'.enabled => task.enabled
                      /\ task'.exists = task.exists
                      /\ task'.limit = task.limit /\ task'.born = task.born ]_vars
    BY EditsSurviveStep
<1>3. TaskShape /\ [Next]_vars => TaskShape'
    BY TaskShapeStep
<1> QED BY <1>1, <1>2, <1>3, PTL DEF Spec, EditsSurvive

-----------------------------------------------------------------------------
(* Processes that do not overlap: what the store says of recorded runs.    *)

\* The snapshot is still the store's; the run has an occurrence; an attempt.
Planning   == {"loaded", "planned", "locked", "running", "finished", "archived"}
HasRun     == Planning \ {"loaded"}
HasOutcome == {"finished", "archived"}

\* The part of the type the argument needs.
SerialShape ==
    /\ TaskShape /\ task.exists
    /\ task.last \in Nat /\ task.retry.attempt \in Nat
    /\ now \in Nat
    /\ pc \in [Runners -> Steps]
    /\ occ \in [Runners -> Nat] /\ at \in [Runners -> Nat]
    /\ attempt \in [Runners -> Nat]
    /\ status \in [Runners -> {"none", "success", "failed"}]
    /\ archive \in [Runners -> Nat]
    /\ DOMAIN snap = Runners
    /\ settled \subseteq Runners /\ IsFiniteSet(settled)
    /\ task.history \in Seq(settled)

OneAlive == \A r, s \in Runners : pc[r] \in Alive /\ pc[s] \in Alive => r = s

\* Nobody else writes the run's own fields while it has its snapshot.
SnapCurrent ==
    \A r \in Runners : pc[r] \in Planning =>
        /\ snap[r].last = task.last /\ snap[r].retry = task.retry
        /\ snap[r].history = task.history

\* A recorded run is over, and no later than the last occurrence.
SettledIsPast ==
    \A r \in settled : pc[r] \in {"recorded", "done"} /\ occ[r] <= task.last

\* An open retry is of the last occurrence, which has not succeeded, and
\* counts its attempts.
RetryIsOpen ==
    task.retry.attempt # 0 =>
        /\ PolicyDeclared /\ task.retry.occ = task.last
        /\ \A s \in settled : occ[s] = task.last =>
               status[s] # "success" /\ attempt[s] <= task.retry.attempt

\* A run has a new occurrence, or retries the last one within its policy.
RunIsDue ==
    \A r \in Runners : pc[r] \in HasRun =>
        \/ occ[r] > task.last
        \/ occ[r] = task.last /\ task.retry.attempt \in 1..(MaxAttempts - 1)

AttemptsCount ==
    \A r \in Runners : pc[r] \in HasOutcome =>
        attempt[r] = IF occ[r] = task.last THEN task.retry.attempt + 1 ELSE 1

\* What the commit evicts from the history is in the archive.
EvictedIsArchived ==
    \A r \in Runners : pc[r] = "archived" => \A e \in Evicted(Appended(r)) : archive[e] > 0

\* The recorded runs of an occurrence.
RunsOf(o) == {r \in settled : occ[r] = o}

AttemptsBounded ==
    /\ \A o \in Nat : Cardinality(RunsOf(o)) <= IF PolicyDeclared THEN MaxAttempts ELSE 1
    /\ task.retry.attempt # 0 => Cardinality(RunsOf(task.last)) <= task.retry.attempt

SerialInv ==
    /\ SerialShape /\ OneAlive /\ SnapCurrent /\ SettledIsPast /\ RetryIsOpen /\ RunIsDue
    /\ AttemptsCount /\ EvictedIsArchived /\ AttemptsBounded
    /\ RecordKept /\ OccurrenceOnce

\* While limits are not edited, a run starts below the limit.
BelowLimit ==
    \A r \in Runners :
        /\ pc[r] \in Planning => snap[r].limit = task.limit /\ snap[r].count = task.count
        /\ pc[r] \in HasRun /\ task.limit > 0 => task.count < task.limit

CountIsRuns == task.limit > 0 => task.count = Cardinality(settled) /\ task.count <= task.limit

CountInv == BelowLimit /\ CountIsRuns /\ task.limit \in Nat /\ task.count \in Nat

\* A task with no runs yet.
LEMMA SerialInitially == Init => SerialInv /\ CountInv
<1> SUFFICES ASSUME Init PROVE SerialInv /\ CountInv
    OBVIOUS
<1>1. PICK limit \in Limits : task = NewTask(limit, 0)
    BY DEF Init
<1>2. /\ task.exists /\ task.limit = limit /\ task.count = 0 /\ task.last = 0
      /\ task.history = <<>> /\ task.retry = NoRetry
    BY <1>1 DEF NewTask
<1>3. TaskShape
    BY <1>1, NewTaskShape DEF TaskShape
<1>4. settled = {} /\ IsFiniteSet(settled) /\ Cardinality(settled) = 0
    BY FS_EmptySet DEF Init
<1>5. \A o : RunsOf(o) = {}
    BY <1>4 DEF RunsOf
<1>6. \A r \in Runners : pc[r] = "new"
    BY DEF Init
<1>7. SerialShape
    <2>1. task.retry.attempt \in Nat /\ task.last \in Nat /\ task.history \in Seq(settled)
        BY <1>2, EmptySeq DEF NoRetry
    <2>2. pc \in [Runners -> Steps] /\ status \in [Runners -> {"none", "success", "failed"}]
        BY DEF Init, Steps
    <2> QED BY <1>2, <1>3, <1>4, <2>1, <2>2 DEF Init, SerialShape
<1>8. OneAlive /\ SnapCurrent /\ SettledIsPast /\ RetryIsOpen /\ RunIsDue /\ AttemptsCount
      /\ EvictedIsArchived /\ RecordKept /\ OccurrenceOnce
    BY <1>2, <1>4, <1>6 DEF OneAlive, Alive, SnapCurrent, SettledIsPast, RetryIsOpen, RunIsDue,
       NoRetry,
       AttemptsCount, EvictedIsArchived, RecordKept, OccurrenceOnce, Planning, HasRun, HasOutcome
<1>9. AttemptsBounded
    <2>1. 0 <= IF PolicyDeclared THEN MaxAttempts ELSE 1
        BY CronAssumption
    <2>2. task.retry.attempt = 0
        BY <1>2 DEF NoRetry
    <2>3. \A o : Cardinality(RunsOf(o)) = 0
        BY <1>5, FS_EmptySet
    <2> QED BY <2>1, <2>2, <2>3 DEF AttemptsBounded
<1>10. CountInv
    BY <1>2, <1>4, <1>6, CronAssumption DEF CountInv, BelowLimit, CountIsRuns, Planning, HasRun
<1> QED BY <1>7, <1>8, <1>9, <1>10 DEF SerialInv

\* Most steps neither start, plan nor record a run.
LEMMA QuietStep ==
    ASSUME SerialInv,
           TaskShape', task'.exists, task'.last = task.last, task'.retry = task.retry,
           task'.history = task.history, settled' = settled, archive' = archive,
           attempt' = attempt, status' = status, now' \in Nat,
           pc' \in [Runners -> Steps], occ' \in [Runners -> Nat], at' \in [Runners -> Nat],
           DOMAIN snap' = Runners,
           \A s \in Runners :
               /\ pc'[s] \in Alive => pc[s] \in Alive
               /\ pc'[s] \in Planning => pc[s] \in Planning /\ snap'[s] = snap[s]
               /\ pc'[s] \in HasRun => pc[s] \in HasRun /\ occ'[s] = occ[s]
               /\ pc'[s] \in HasOutcome => pc[s] \in HasOutcome
               /\ pc'[s] = "archived" => pc[s] = "archived"
               /\ pc[s] \in {"recorded", "done"} => pc'[s] \in {"recorded", "done"} /\ occ'[s] = occ[s]
    PROVE  SerialInv'
<1> USE DEF SerialInv
<1>1. SerialShape'
    BY DEF SerialShape
<1>2. OneAlive'
    BY DEF OneAlive
<1>3. SnapCurrent'
    BY DEF SnapCurrent
<1>4. \A s \in settled : s \in Runners /\ pc'[s] \in {"recorded", "done"} /\ occ'[s] = occ[s]
    BY DEF SerialShape, SettledIsPast
<1>5. SettledIsPast' /\ RetryIsOpen' /\ OccurrenceOnce'
    BY <1>4 DEF SettledIsPast, RetryIsOpen, OccurrenceOnce
<1>6. RunIsDue'
    BY DEF RunIsDue
<1>7. AttemptsCount'
    BY DEF AttemptsCount, HasOutcome, HasRun, Planning
<1>8. EvictedIsArchived'
    <2>1. ASSUME NEW s \in Runners, pc'[s] = "archived"
          PROVE  pc[s] = "archived" /\ Evicted(Appended(s))' = Evicted(Appended(s))
        <3>1. pc[s] = "archived" /\ snap'[s] = snap[s]
            BY <2>1 DEF Planning
        <3>2. Appended(s)' = Appended(s)
            BY <3>1 DEF Appended
        <3> QED BY <3>1, <3>2 DEF Evicted, Surplus
    <2> QED BY <2>1 DEF EvictedIsArchived
<1>9. \A o : RunsOf(o)' = RunsOf(o)
    BY <1>4 DEF RunsOf
<1>10. AttemptsBounded'
    BY <1>9 DEF AttemptsBounded
<1>11. RecordKept'
    <2>1. \A s \in settled : archive[s] > 0 \/ \E i \in DOMAIN task.history : task.history[i] = s
        BY DEF RecordKept, SerialShape
    <2> QED BY <2>1 DEF RecordKept
<1> QED BY <1>1, <1>2, <1>3, <1>5, <1>6, <1>7, <1>8, <1>10, <1>11

\* The steps of a process that keep to themselves, and its death.
LEMMA QuietProcess ==
    ASSUME SerialInv, NEW r \in Runners,
           \/ Skip(r) \/ Acquire(r) \/ NotAcquired(r) \/ RunPayload(r)
           \/ CommitFails(r) \/ Release(r) \/ Quarantine(r) \/ Crash(r)
    PROVE  SerialInv'
<1>1. /\ task' = task /\ settled' = settled /\ archive' = archive
      /\ attempt' = attempt /\ status' = status /\ now' = now
    BY DEF Skip, Acquire, NotAcquired, RunPayload, CommitFails, Release, Quarantine, Crash, clocks,
           results, ghosts
<1>2. TaskShape' /\ task'.exists
    BY <1>1 DEF SerialInv, SerialShape, TaskShape
<1>3. /\ pc' \in [Runners -> Steps] /\ occ' \in [Runners -> Nat] /\ at' \in [Runners -> Nat]
      /\ DOMAIN snap' = Runners
    <2>0. SerialShape
        BY DEF SerialInv
    <2>1. pc' \in [Runners -> Steps]
        BY <2>0 DEF SerialShape, Skip, Acquire, NotAcquired, RunPayload, CommitFails, Release,
                    Quarantine, Crash, End, Goto, Steps
    <2>2. occ' = occ \/ occ' = [occ EXCEPT ![r] = 0]
        BY DEF Skip, Acquire, NotAcquired, RunPayload, CommitFails, Release, Quarantine, Crash,
           plans
    <2>3. (at' = at \/ at' = [at EXCEPT ![r] = 0])
              /\ (snap' = snap \/ snap' = [snap EXCEPT ![r] = Gone(0)])
        BY DEF Skip, Acquire, NotAcquired, RunPayload, CommitFails, Release, Quarantine, Crash,
           End, plans
    <2>4. occ' \in [Runners -> Nat]
        BY SMTT(30), <2>0, <2>2 DEF SerialShape
    <2>5. at' \in [Runners -> Nat]
        <3>1. at \in [Runners -> Nat]
            BY <2>0 DEF SerialShape
        <3>2. [at EXCEPT ![r] = 0] \in [Runners -> Nat]
            BY <3>1
        <3> QED BY <2>3, <3>1, <3>2
    <2>6. DOMAIN snap' = Runners
        BY <2>0, <2>3 DEF SerialShape
    <2> QED BY <2>1, <2>4, <2>5, <2>6
<1>4. \A s \in Runners : s # r => pc'[s] = pc[s] /\ occ'[s] = occ[s] /\ snap'[s] = snap[s]
    BY DEF SerialInv, SerialShape, Skip, Acquire, NotAcquired, RunPayload, CommitFails, Release,
       Quarantine,
           Crash, End, Goto, plans
<1>5. /\ pc[r] \in Alive
      /\ \/ pc'[r] = "done"
         \/ pc[r] = "planned" /\ pc'[r] = "locked" /\ occ' = occ /\ snap' = snap
         \/ pc[r] = "locked" /\ pc'[r] = "running" /\ occ' = occ /\ snap' = snap
         \/ pc[r] = "archived" /\ pc'[r] = "unsaved"
      /\ pc[r] = "recorded" => occ' = occ
    BY DEF SerialInv, SerialShape, Skip, Acquire, NotAcquired, RunPayload, CommitFails, Release,
       Quarantine,
           Crash, End, Goto, Alive, Steps, plans
<1>6. \A s \in Runners :
               /\ pc'[s] \in Alive => pc[s] \in Alive
               /\ pc'[s] \in Planning => pc[s] \in Planning /\ snap'[s] = snap[s]
               /\ pc'[s] \in HasRun => pc[s] \in HasRun /\ occ'[s] = occ[s]
               /\ pc'[s] \in HasOutcome => pc[s] \in HasOutcome
               /\ pc'[s] = "archived" => pc[s] = "archived"
               /\ pc[s] \in {"recorded", "done"} => pc'[s] \in {"recorded", "done"} /\ occ'[s] = occ[s]
    <2> SUFFICES ASSUME NEW s \in Runners
                 PROVE  /\ pc'[s] \in Alive => pc[s] \in Alive
                        /\ pc'[s] \in Planning => pc[s] \in Planning /\ snap'[s] = snap[s]
                        /\ pc'[s] \in HasRun => pc[s] \in HasRun /\ occ'[s] = occ[s]
                        /\ pc'[s] \in HasOutcome => pc[s] \in HasOutcome
                        /\ pc'[s] = "archived" => pc[s] = "archived"
                        /\ pc[s] \in {"recorded", "done"} =>
                               pc'[s] \in {"recorded", "done"} /\ occ'[s] = occ[s]
        OBVIOUS
    <2>1. CASE s # r
        BY <1>4, <2>1
    <2>2. CASE s = r
        BY <1>5, <2>2 DEF Planning, HasRun, HasOutcome, Alive, Steps
    <2> QED BY <2>1, <2>2
<1> QED BY <1>1, <1>2, <1>3, <1>6, QuietStep DEF SerialInv, SerialShape

\* What the operator, the machine and the clock do, a removal apart.
LEMMA QuietWorld ==
    ASSUME SerialInv, "remove" \notin Commands, Operate \/ Reboot \/ Minute \/ UNCHANGED vars
    PROVE  SerialInv'
<1>1. /\ settled' = settled /\ archive' = archive /\ attempt' = attempt /\ status' = status
      /\ occ' = occ /\ now' \in Nat
    BY DEF Operate, Enable, Disable, Remove, EditLimit, Add, EditTask, OperatorRelease,
       OperatorAcquire,
           Reboot, Minute, vars, clocks, plans, results, ghosts, SerialInv, SerialShape
<1>2. /\ TaskShape' /\ task'.exists /\ task'.last = task.last /\ task'.retry = task.retry
      /\ task'.history = task.history
    BY DEF Operate, Enable, Disable, Remove, EditLimit, Add, EditTask, OperatorRelease,
       OperatorAcquire,
           Reboot, Minute, vars, SerialInv, SerialShape, TaskShape
<1>3. \/ pc' = pc /\ snap' = snap /\ at' = at
      \/ Reboot
    BY DEF Operate, Enable, Disable, Remove, EditLimit, Add, EditTask, OperatorRelease,
       OperatorAcquire,
           Minute, vars, plans
<1>4. /\ pc' \in [Runners -> Steps] /\ at' \in [Runners -> Nat] /\ DOMAIN snap' = Runners
    <2>1. CASE Reboot
        BY <2>1 DEF Reboot, SerialInv, SerialShape, Steps
    <2> QED BY <1>3, <2>1 DEF SerialInv, SerialShape
<1>5. \A s \in Runners :
        \/ pc'[s] = pc[s] /\ snap'[s] = snap[s]
        \/ /\ pc'[s] \in {"new", "done"}
           /\ pc'[s] = "new" => pc[s] = "new"
           /\ pc[s] = "done" => pc'[s] = "done"
    <2>1. CASE Reboot
        <3> SUFFICES ASSUME NEW s \in Runners
                     PROVE  /\ pc'[s] \in {"new", "done"}
                            /\ pc'[s] = "new" => pc[s] = "new"
                            /\ pc[s] = "done" => pc'[s] = "done"
            OBVIOUS
        <3>1. pc[s] \in Steps /\ pc'[s] = IF pc[s] \in Alive THEN "done" ELSE pc[s]
            BY <2>1 DEF Reboot, SerialInv, SerialShape
        <3> QED BY <3>1 DEF Alive, Steps
    <2>2. CASE pc' = pc /\ snap' = snap
        BY <2>2
    <2> QED BY <1>3, <2>1, <2>2
<1>6. \A s \in Runners :
        /\ pc'[s] \in Alive => pc[s] \in Alive
        /\ pc'[s] \in Planning => pc[s] \in Planning /\ snap'[s] = snap[s]
        /\ pc'[s] \in HasRun => pc[s] \in HasRun /\ occ'[s] = occ[s]
        /\ pc'[s] \in HasOutcome => pc[s] \in HasOutcome
        /\ pc'[s] = "archived" => pc[s] = "archived"
        /\ pc[s] \in {"recorded", "done"} => pc'[s] \in {"recorded", "done"} /\ occ'[s] = occ[s]
    <2> SUFFICES ASSUME NEW s \in Runners
                 PROVE  /\ pc'[s] \in Alive => pc[s] \in Alive
                        /\ pc'[s] \in Planning => pc[s] \in Planning /\ snap'[s] = snap[s]
                        /\ pc'[s] \in HasRun => pc[s] \in HasRun
                        /\ pc'[s] \in HasOutcome => pc[s] \in HasOutcome
                        /\ pc'[s] = "archived" => pc[s] = "archived"
                        /\ pc[s] \in {"recorded", "done"} => pc'[s] \in {"recorded", "done"}
        BY <1>1
    <2> QED BY <1>5 DEF Alive, Planning, HasRun, HasOutcome
<1> QED BY <1>1, <1>2, <1>4, <1>6, QuietStep DEF SerialInv, SerialShape

\* A nonempty set of naturals has a least element; the library states it for a
\* predicate only.
LEMMA LeastNatural ==
    ASSUME NEW B, B \subseteq Nat, B # {}
    PROVE  \E u \in B : \A v \in B : u <= v
<1> DEFINE Less == OpToRel(<, Nat)
<1>1. PICK u \in B : \A v \in B : ~(<<v, u>> \in Less)
    BY NatLessThanWellFounded, WFMin, Zenon
<1>2. \A v \in B : ~(v < u)
    BY <1>1 DEF OpToRel
<1>3. \A v \in B : v \in Nat /\ u \in Nat
    OBVIOUS
<1>4. \A v \in B : u <= v
    BY <1>2, <1>3
<1> QED BY <1>4

\* The operator Max of a bounded set of naturals.
LEMMA MaxIsGreatest ==
    ASSUME NEW n \in Nat, NEW S, S \subseteq 0..n, S # {}
    PROVE  Max(S) \in S /\ \A y \in S : y <= Max(S)
<1> DEFINE Bounds == {u \in 0..n : \A y \in S : y <= u}
<1>1. n \in Bounds /\ Bounds \subseteq Nat
    OBVIOUS
<1>5. PICK u \in Bounds : \A v \in Bounds : u <= v
    <2> HIDE DEF Bounds
    <2> QED BY <1>1, LeastNatural
<1>0. u \in Nat /\ \A y \in S : y <= u
    BY <1>1
<1>6. u \in S
    <2>1. SUFFICES ASSUME u \notin S PROVE FALSE
        OBVIOUS
    <2>0. PICK y \in S : TRUE
        OBVIOUS
    <2>2. y \in Nat /\ y # u /\ y <= u
        BY <2>1, <1>0
    <2>3. u - 1 \in Bounds
        BY <1>0, <2>1, <2>2
    <2> QED BY <1>0, <1>5, <2>3
<1> QED BY <1>0, <1>6 DEF Max

\* The latest due occurrence is after the last one; a retry is of the last one.
LEMMA PlanIsDue ==
    ASSUME NEW t, t.last \in Nat, NEW i \in Nat, Due(t, i)
    PROVE  \/ ScheduledAt(t, i) \in Nat /\ ScheduledAt(t, i) > t.last
           \/ ScheduledAt(t, i) = t.retry.occ /\ t.retry.attempt \in 1..(MaxAttempts - 1)
<1> DEFINE D == DueOccurrences(t, i)
<1>1. CASE D # {}
    <2>1. D \subseteq 0..i /\ \A o \in D : o > t.last
        <3>1. \A o \in D : o \in Nat /\ o <= i /\ t.last < o
            BY CronAssumption DEF DueOccurrences
        <3> HIDE DEF D
        <3> QED BY <3>1
    <2>2. Max(D) \in D
        BY <1>1, <2>1, MaxIsGreatest
    <2>3. ScheduledAt(t, i) = Max(D)
        BY <1>1 DEF ScheduledAt
    <2> QED BY <2>1, <2>2, <2>3
<1>2. CASE D = {}
    BY <1>2 DEF Due, RetryReady, ScheduledAt
<1> QED BY <1>1, <1>2

\* A process loads the store when nobody else can change it.
LEMMA LoadStep == ASSUME SerialInv, ~Overlaps, NEW r \in Runners, Load(r) PROVE SerialInv'
<1> USE DEF SerialInv, Load, Goto
<1>0. /\ pc[r] = "new" /\ pc' = [pc EXCEPT ![r] = "loaded"] /\ snap' = [snap EXCEPT ![r] = task]
      /\ \A s \in Runners : pc[s] \notin Alive
      /\ SerialShape
      /\ UNCHANGED <<task, archive, now, at, occ, attempt, status, settled>>
    BY DEF clocks, results, ghosts
<1> HIDE DEF Load
<1>1. SerialShape'
    <2>1. pc' \in [Runners -> Steps] /\ DOMAIN snap' = Runners
        BY <1>0 DEF SerialShape, Steps
    <2> QED BY <1>0, <2>1 DEF SerialShape, TaskShape
<1>2. OneAlive'
    BY <1>0 DEF OneAlive, SerialShape
<1>3. \A s \in Runners : pc'[s] \in Planning => s = r
    BY <1>0 DEF SerialShape, Planning, Alive, Steps
<1>4. SnapCurrent'
    BY <1>0, <1>3 DEF SnapCurrent, SerialShape
<1>5. SettledIsPast' /\ RetryIsOpen' /\ OccurrenceOnce'
    BY <1>0 DEF SettledIsPast, RetryIsOpen, OccurrenceOnce, SerialShape
<1>6. RunIsDue' /\ AttemptsCount' /\ EvictedIsArchived'
    BY <1>0, <1>3 DEF RunIsDue, AttemptsCount, EvictedIsArchived, SerialShape, Planning, HasRun,
       HasOutcome
<1>7. AttemptsBounded' /\ RecordKept'
    BY <1>0 DEF AttemptsBounded, RunsOf, RecordKept
<1> QED BY <1>1, <1>2, <1>4, <1>5, <1>6, <1>7

\* What is planned is a new occurrence, or an open retry of the last one.
LEMMA PlanStep == ASSUME SerialInv, NEW r \in Runners, PlanRun(r) PROVE SerialInv'
<1> USE DEF SerialInv, PlanRun, Goto
<1>0. /\ pc[r] = "loaded" /\ pc' = [pc EXCEPT ![r] = "planned"]
      /\ at' = [at EXCEPT ![r] = now] /\ occ' = [occ EXCEPT ![r] = ScheduledAt(snap[r], now)]
      /\ Due(snap[r], now)
      /\ SerialShape
      /\ UNCHANGED <<task, archive, now, snap, attempt, status, settled>>
    BY DEF clocks, results, ghosts
<1> HIDE DEF PlanRun
<1>1. snap[r].last = task.last /\ snap[r].retry = task.retry
    BY <1>0 DEF SnapCurrent, Planning
<1>2. /\ ScheduledAt(snap[r], now) \in Nat
      /\ \/ ScheduledAt(snap[r], now) > task.last
         \/ ScheduledAt(snap[r], now) = task.last /\ task.retry.attempt \in 1..(MaxAttempts - 1)
    <2>1. /\ task.last \in Nat /\ now \in Nat
          /\ task.retry.attempt # 0 => task.retry.occ = task.last
        BY <1>0 DEF SerialShape, RetryIsOpen
    <2>2. \/ ScheduledAt(snap[r], now) \in Nat /\ ScheduledAt(snap[r], now) > task.last
          \/ ScheduledAt(snap[r], now) = task.retry.occ /\ task.retry.attempt \in 1..(MaxAttempts - 1)
        BY <1>0, <1>1, <2>1, PlanIsDue
    <2> QED BY <2>1, <2>2
<1>3. SerialShape'
    <2>1. pc' \in [Runners -> Steps] /\ at' \in [Runners -> Nat] /\ occ' \in [Runners -> Nat]
        BY <1>0, <1>2 DEF SerialShape, Steps
    <2> QED BY <1>0, <2>1 DEF SerialShape, TaskShape
<1>4. OneAlive'
    BY <1>0 DEF OneAlive, SerialShape, Alive, Steps
<1>5. \A s \in Runners : s # r => pc'[s] = pc[s] /\ occ'[s] = occ[s]
    BY <1>0 DEF SerialShape
<1>6. pc'[r] = "planned" /\ occ'[r] = ScheduledAt(snap[r], now)
    BY <1>0 DEF SerialShape
<1>7. r \notin settled
    BY <1>0 DEF SettledIsPast
<1>8. SnapCurrent'
    BY <1>0, <1>5, <1>6 DEF SnapCurrent, Planning
<1>9. SettledIsPast' /\ RetryIsOpen' /\ OccurrenceOnce'
    BY SMTT(30), <1>0, <1>5, <1>7 DEF SettledIsPast, RetryIsOpen, OccurrenceOnce, SerialShape
<1>10. RunIsDue'
    BY <1>0, <1>2, <1>5, <1>6 DEF RunIsDue
<1>11. \A s \in Runners : pc'[s] \in HasOutcome => s # r /\ pc[s] \in HasOutcome
    BY <1>5, <1>6 DEF HasOutcome
<1>14. AttemptsCount'
    BY <1>0, <1>5, <1>11 DEF AttemptsCount
<1>15. EvictedIsArchived'
    BY ZenonT(30), <1>0, <1>5, <1>6 DEF EvictedIsArchived, Evicted, Appended, Surplus
<1>12. \A o : RunsOf(o)' = RunsOf(o)
    BY <1>0, <1>5, <1>7 DEF RunsOf, SerialShape
<1>13. AttemptsBounded' /\ RecordKept'
    BY <1>0, <1>12 DEF AttemptsBounded, RecordKept
<1> QED BY <1>3, <1>4, <1>8, <1>9, <1>10, <1>13, <1>14, <1>15

\* The attempt of a run is one past those its snapshot knows of, in the open
\* retry and in the history (history_attempt): one past those the store has.
LEMMA AttemptIsNext ==
    ASSUME SerialInv, NEW r \in Runners, pc[r] = "running"
    PROVE  HistoryAttempt(snap[r], occ[r]) =
               IF occ[r] = task.last THEN task.retry.attempt + 1 ELSE 1
<1> DEFINE t == snap[r]
           N == IF occ[r] = task.last THEN task.retry.attempt ELSE 0
           Tried == {t.retry.attempt : x \in {t.retry.occ} \cap {occ[r]}}
           Past == {attempt[t.history[i]] : i \in {j \in DOMAIN t.history : occ[t.history[j]] = occ[r]}}
           S == {0} \cup Tried \cup Past
<1>1. t.last = task.last /\ t.retry = task.retry /\ t.history = task.history
    BY DEF SerialInv, SnapCurrent, Planning
<1>2. /\ task.last \in Nat /\ task.retry.attempt \in Nat /\ occ[r] \in Nat
      /\ task.retry.attempt # 0 => task.retry.occ = task.last
      /\ occ[r] > task.last \/ (occ[r] = task.last /\ task.retry.attempt # 0)
    <2>1. task.last \in Nat /\ task.retry.attempt \in Nat /\ occ[r] \in Nat
        BY DEF SerialInv, SerialShape
    <2>2. task.retry.attempt # 0 => task.retry.occ = task.last
        BY DEF SerialInv, RetryIsOpen
    <2>3. \/ occ[r] > task.last
          \/ occ[r] = task.last /\ task.retry.attempt \in 1..(MaxAttempts - 1)
        BY DEF SerialInv, RunIsDue, HasRun, Planning
    <2>4. MaxAttempts \in Nat
        BY CronAssumption
    <2> QED BY <2>1, <2>2, <2>3, <2>4
<1>3. \A i \in DOMAIN t.history : t.history[i] \in settled
    BY <1>1 DEF SerialInv, SerialShape
<1>4. \A a \in Past : a \in 0..N
    <2> SUFFICES ASSUME NEW i \in DOMAIN t.history, occ[t.history[i]] = occ[r]
                 PROVE  attempt[t.history[i]] \in 0..N
        OBVIOUS
    <2> DEFINE h == t.history[i]
    <2>1. h \in settled /\ h \in Runners /\ attempt[h] \in Nat /\ occ[h] <= task.last
        BY <1>3 DEF SerialInv, SerialShape, SettledIsPast
    <2> HIDE DEF h
    <2>2. occ[h] = occ[r]
        BY DEF h
    <2>3. occ[r] = task.last /\ task.retry.attempt # 0
        BY <1>2, <2>1, <2>2
    <2>4. attempt[h] <= task.retry.attempt
        BY <2>1, <2>2, <2>3 DEF SerialInv, RetryIsOpen
    <2> QED BY <1>2, <2>1, <2>3, <2>4 DEF h
<1>5. \A a \in Tried : a \in 0..N
    BY <1>1, <1>2
<1>6. N \in S
    BY <1>1, <1>2
<1>7. N \in Nat
    BY <1>2
<1> HIDE DEF Tried, Past, N
<1>8. S \subseteq 0..N /\ S # {}
    BY <1>4, <1>5, <1>7
<1>9. Max(S) = N
    <2> HIDE DEF S
    <2>1. Max(S) \in S /\ \A y \in S : y <= Max(S)
        BY <1>7, <1>8, MaxIsGreatest
    <2>2. Max(S) \in 0..N /\ N <= Max(S)
        BY <1>6, <1>8, <2>1
    <2> QED BY <1>7, <2>2
<1> QED BY <1>2, <1>9 DEF HistoryAttempt, N, Tried, Past

\* The outcome of a payload.
LEMMA FinishStep ==
    ASSUME SerialInv, NEW r \in Runners, NEW s \in {"success", "failed"}, FinishPayload(r, s)
    PROVE  SerialInv'
<1> USE DEF SerialInv
<1> DEFINE a == HistoryAttempt(snap[r], occ[r])
<1>0. /\ pc[r] = "running" /\ pc' = [pc EXCEPT ![r] = "finished"]
      /\ status' = [status EXCEPT ![r] = s] /\ attempt' = [attempt EXCEPT ![r] = a]
      /\ SerialShape
      /\ UNCHANGED <<task, archive, now, snap, at, occ, settled>>
    BY DEF FinishPayload, Goto, clocks, plans, ghosts
<1>1. a = IF occ[r] = task.last THEN task.retry.attempt + 1 ELSE 1
    BY <1>0, AttemptIsNext
<1> HIDE DEF a
<1>2. SerialShape'
    <2>1. a \in Nat
        BY <1>0, <1>1 DEF SerialShape
    <2>2. /\ pc' \in [Runners -> Steps] /\ attempt' \in [Runners -> Nat]
          /\ status' \in [Runners -> {"none", "success", "failed"}]
        BY <1>0, <2>1 DEF SerialShape, Steps
    <2> QED BY <1>0, <2>2 DEF SerialShape, TaskShape
<1>3. OneAlive'
    BY <1>0 DEF OneAlive, SerialShape, Alive, Steps
<1>4. \A q \in Runners : q # r => pc'[q] = pc[q] /\ status'[q] = status[q] /\ attempt'[q] = attempt[q]
    BY <1>0 DEF SerialShape
<1>5. pc'[r] = "finished" /\ attempt'[r] = a
    BY <1>0 DEF SerialShape
<1>6. r \notin settled
    BY <1>0 DEF SettledIsPast
<1>7. SnapCurrent'
    BY <1>0, <1>4, <1>5 DEF SnapCurrent, Planning
<1>8. SettledIsPast' /\ RetryIsOpen' /\ OccurrenceOnce'
    BY SMTT(30), <1>0, <1>4, <1>6 DEF SettledIsPast, RetryIsOpen, OccurrenceOnce, SerialShape
<1>9. \A q \in Runners : pc'[q] \in HasRun => pc[q] \in HasRun
    BY <1>0, <1>4, <1>5 DEF HasRun, Planning
<1>10. RunIsDue'
    BY <1>0, <1>9 DEF RunIsDue
<1>11. AttemptsCount'
    BY <1>0, <1>1, <1>4, <1>5 DEF AttemptsCount
<1>12. EvictedIsArchived'
    <2>1. \A q \in Runners : Evicted(Appended(q))' = Evicted(Appended(q))
        BY <1>0 DEF Evicted, Appended, Surplus
    <2>2. \A q \in Runners : pc'[q] = "archived" => pc[q] = "archived"
        BY <1>4, <1>5
    <2> QED BY <1>0, <2>1, <2>2 DEF EvictedIsArchived
<1>13. AttemptsBounded' /\ RecordKept'
    BY <1>0 DEF AttemptsBounded, RunsOf, RecordKept
<1> QED BY <1>2, <1>3, <1>7, <1>8, <1>10, <1>11, <1>12, <1>13

\* The entries a commit will evict are copied to the archive first.
LEMMA ArchiveStep ==
    ASSUME SerialInv, NEW r \in Runners, Archive(r) \/ ArchiveFails(r)
    PROVE  SerialInv'
<1> USE DEF SerialInv
<1>0. /\ pc[r] = "finished"
      /\ pc' = [pc EXCEPT ![r] = IF Archive(r) THEN "archived" ELSE "unsaved"]
      /\ archive' \in {archive, Archived(Evicted(Appended(r)))}
      /\ Archive(r) => archive' = Archived(Evicted(Appended(r)))
      /\ SerialShape
      /\ UNCHANGED <<task, now, snap, at, occ, attempt, status, settled>>
    BY DEF Archive, ArchiveFails, Goto, clocks, plans, results, ghosts
<1>1. /\ archive' \in [Runners -> Nat]
      /\ \A q \in Runners : archive[q] > 0 => archive'[q] > 0
    <2>1. archive \in [Runners -> Nat]
        BY <1>0 DEF SerialShape
    <2>2. archive' = archive \/ archive' = Archived(Evicted(Appended(r)))
        BY <1>0
    <2> QED BY <2>1, <2>2 DEF Archived
<1>2. Archive(r) => \A e \in Evicted(Appended(r)) : e \in Runners => archive'[e] > 0
    BY <1>0 DEF Archived, SerialShape
<1>3. \A e \in Evicted(Appended(r)) : e \in Runners
    <2>1. snap[r].history \in Seq(settled)
        BY <1>0 DEF SnapCurrent, Planning, SerialShape
    <2>2. Appended(r) \in Seq(Runners)
        BY <1>0, <2>1 DEF Appended, SerialShape
    <2> QED BY <2>2, CronAssumption DEF Evicted, Surplus
<1>4. pc'[r] = (IF Archive(r) THEN "archived" ELSE "unsaved") /\ \A q \in Runners : q # r => pc'[q] = pc[q]
    BY <1>0 DEF SerialShape
<1> HIDE DEF Archive
<1>5. SerialShape'
    <2>1. pc' \in [Runners -> Steps]
        BY <1>0 DEF SerialShape, Steps
    <2> QED BY <1>0, <1>1, <2>1 DEF SerialShape, TaskShape
<1>6. OneAlive'
    BY <1>0, <1>4 DEF OneAlive, SerialShape, Alive, Steps
<1>7. SnapCurrent'
    BY <1>0, <1>4 DEF SnapCurrent, Planning
<1>8. SettledIsPast' /\ RetryIsOpen' /\ OccurrenceOnce'
    BY <1>0, <1>4 DEF SettledIsPast, RetryIsOpen, OccurrenceOnce, SerialShape
<1>9. RunIsDue' /\ AttemptsCount'
    BY <1>0, <1>4 DEF RunIsDue, AttemptsCount, HasRun, HasOutcome, Planning
<1>10. EvictedIsArchived'
    <2>1. \A q \in Runners : Evicted(Appended(q))' = Evicted(Appended(q))
        BY <1>0 DEF Evicted, Appended, Surplus
    <2>2. \A q \in Runners : pc'[q] = "archived" => q = r
        BY <1>0, <1>4 DEF OneAlive, Alive, Steps
    <2> QED BY <1>2, <1>3, <1>4, <2>1, <2>2 DEF EvictedIsArchived
<1>11. AttemptsBounded'
    BY <1>0 DEF AttemptsBounded, RunsOf
<1>12. RecordKept'
    BY <1>0, <1>1 DEF RecordKept, SerialShape
<1> QED BY <1>5, <1>6, <1>7, <1>8, <1>9, <1>10, <1>11, <1>12

\* What is not evicted is kept, in its order.
LEMMA KeptOrEvicted ==
    ASSUME NEW X, NEW h \in Seq(X)
    PROVE  /\ Kept(h) \in Seq(X)
           /\ \A i \in 1..Len(h) : h[i] \in Evicted(h) \/ \E j \in DOMAIN Kept(h) : Kept(h)[j] = h[i]
<1>1. Len(h) \in Nat /\ MaxHistory \in Nat /\ Surplus(h) \in 0..Len(h)
    BY CronAssumption DEF Surplus
<1>2. DOMAIN h = 1..Len(h) /\ \A i \in 1..Len(h) : h[i] \in X
    OBVIOUS
<1>3. /\ Kept(h) \in Seq(X)
      /\ Len(Kept(h)) = Len(h) - Surplus(h)
      /\ \A j \in 1..(Len(h) - Surplus(h)) : Kept(h)[j] = h[Surplus(h) + j]
    <2>1. \A i \in (Surplus(h) + 1)..Len(h) : h[i] \in X
        BY <1>1, <1>2
    <2> QED BY <1>1, <2>1, SubSeqProperties DEF Kept
<1>4. ASSUME NEW i \in 1..Len(h), h[i] \notin Evicted(h)
      PROVE  \E j \in DOMAIN Kept(h) : Kept(h)[j] = h[i]
    <2>1. i > Surplus(h)
        BY <1>1, <1>4 DEF Evicted
    <2>2. i - Surplus(h) \in DOMAIN Kept(h) /\ Kept(h)[i - Surplus(h)] = h[i]
        BY <1>1, <1>3, <2>1
    <2> QED BY <2>2
<1> QED BY <1>3, <1>4

\* The newest entry is never evicted.
LEMMA NewestIsKept ==
    ASSUME NEW X, NEW h \in Seq(X), NEW x \in X
    PROVE  \E j \in DOMAIN Kept(Append(h, x)) : Kept(Append(h, x))[j] = x
<1> DEFINE g == Append(h, x)
<1>1. g \in Seq(X) /\ Len(g) = Len(h) + 1 /\ g[Len(g)] = x /\ Len(h) \in Nat
    BY AppendProperties
<1> HIDE DEF g
<1>2. MaxHistory \in Nat \ {0} /\ Surplus(g) \in 0..(Len(g) - 1)
    BY <1>1, CronAssumption DEF Surplus
<1>3. \A i \in (Surplus(g) + 1)..Len(g) : g[i] \in X
    BY <1>1, <1>2
<1>4. /\ Kept(g) \in Seq(X) /\ Len(Kept(g)) = Len(g) - Surplus(g)
      /\ Kept(g)[Len(g) - Surplus(g)] = g[Len(g)]
    BY <1>1, <1>2, <1>3, SubSeqProperties DEF Kept
<1>5. Len(g) - Surplus(g) \in DOMAIN Kept(g)
    BY <1>1, <1>2, <1>4
<1> QED BY <1>1, <1>4, <1>5 DEF g

\* A recorded run counts for its occurrence.
LEMMA RunsOfAfter ==
    ASSUME NEW r \in Runners, settled' = settled \cup {r}, UNCHANGED occ,
           IsFiniteSet(settled), r \notin settled,
           NEW o
    PROVE  /\ Cardinality(RunsOf(o)) \in Nat
           /\ Cardinality(RunsOf(o)') = IF occ[r] = o THEN Cardinality(RunsOf(o)) + 1
                                        ELSE Cardinality(RunsOf(o))
<1>1. RunsOf(o) \subseteq settled /\ r \notin RunsOf(o)
    BY DEF RunsOf
<1>2. IsFiniteSet(RunsOf(o)) /\ Cardinality(RunsOf(o)) \in Nat
    BY <1>1, FS_Subset, FS_CardinalityType
<1>3. RunsOf(o)' = IF occ[r] = o THEN RunsOf(o) \cup {r} ELSE RunsOf(o)
    BY DEF RunsOf
<1> QED BY <1>1, <1>2, <1>3, FS_AddElement

\* What a commit records.
LEMMA CommitRecords ==
    ASSUME SerialInv, NEW r \in Runners, Commit(r)
    PROVE  /\ pc[r] = "archived" /\ pc' = [pc EXCEPT ![r] = "recorded"] /\ r \notin settled
           /\ task'.exists /\ TaskShape'
           /\ task'.last = occ[r] /\ task'.history = Kept(Append(task.history, r))
           /\ task'.retry = NoRetry \/ /\ PolicyDeclared /\ status[r] # "success"
                                       /\ task'.retry.occ = occ[r] /\ task'.retry.attempt = attempt[r]
           /\ settled' = settled \cup {r}
           /\ UNCHANGED <<archive, now, snap, at, occ, attempt, status>>
<1>1. pc[r] = "archived" /\ TaskShape /\ task.exists /\ task' = Projected(task, r)
    BY DEF Commit, SerialInv, SerialShape
<1>2. r \notin settled
    BY <1>1 DEF SerialInv, SettledIsPast
<1>3. Appended(r) = Append(task.history, r)
    BY <1>1 DEF Appended, SerialInv, SnapCurrent, Planning
<1>4. \/ task'.retry = NoRetry
      \/ /\ PolicyDeclared /\ status[r] # "success"
         /\ task'.retry.occ = occ[r] /\ task'.retry.attempt = attempt[r]
    <2>1. task'.retry = NoRetry \/ task'.retry = RetryAfter(r)
        BY <1>1, ProjectionKeepsEdits
    <2>2. \/ RetryAfter(r) = NoRetry
          \/ /\ PolicyDeclared /\ status[r] # "success"
             /\ RetryAfter(r).occ = occ[r] /\ RetryAfter(r).attempt = attempt[r]
        BY DEF RetryAfter
    <2> QED BY <2>1, <2>2
<1>5. task'.exists /\ TaskShape' /\ task'.last = occ[r] /\ task'.history = Kept(Append(task.history, r))
    BY <1>1, <1>3, ProjectionKeepsEdits DEF TaskShape
<1> QED BY <1>1, <1>2, <1>4, <1>5 DEF Commit, Goto, clocks, plans, results

\* A commit adds one run to those recorded and moves the task past it.
LEMMA CommitStep == ASSUME SerialInv, NEW r \in Runners, Commit(r) PROVE SerialInv'
<1> USE DEF SerialInv
<1>0. /\ pc[r] = "archived" /\ pc' = [pc EXCEPT ![r] = "recorded"] /\ r \notin settled
      /\ task'.exists /\ TaskShape'
      /\ task'.last = occ[r] /\ task'.history = Kept(Append(task.history, r))
      /\ task'.retry = NoRetry \/ /\ PolicyDeclared /\ status[r] # "success"
                                  /\ task'.retry.occ = occ[r] /\ task'.retry.attempt = attempt[r]
      /\ settled' = settled \cup {r}
      /\ UNCHANGED <<archive, now, snap, at, occ, attempt, status>>
    BY CommitRecords
<1>1. /\ SerialShape /\ occ[r] \in Nat /\ attempt[r] \in Nat /\ task.last \in Nat
      /\ task.retry.attempt \in Nat /\ task.history \in Seq(settled) /\ settled \subseteq Runners
    BY DEF SerialShape
<1>2. \/ occ[r] > task.last
      \/ occ[r] = task.last /\ task.retry.attempt \in 1..(MaxAttempts - 1)
    BY <1>0 DEF RunIsDue, HasRun, Planning
<1>3. attempt[r] = IF occ[r] = task.last THEN task.retry.attempt + 1 ELSE 1
    BY <1>0 DEF AttemptsCount, HasOutcome
<1>4. \A q \in Runners : q # r => pc'[q] = pc[q] /\ pc[q] \notin Alive
    BY <1>0 DEF OneAlive, Alive, Steps, SerialShape
<1>5. pc'[r] = "recorded"
    BY <1>0 DEF SerialShape
<1>6. SerialShape'
    <2>1. pc' \in [Runners -> Steps]
        BY <1>0 DEF SerialShape, Steps
    <2>2. Append(task.history, r) \in Seq(settled \cup {r})
        BY <1>1
    <2>3. task'.history \in Seq(settled')
        BY <1>0, <2>2, KeptOrEvicted
    <2>4. IsFiniteSet(settled')
        BY <1>0, FS_AddElement DEF SerialShape
    <2>5. task'.retry.attempt \in Nat
        BY <1>0, <1>1 DEF NoRetry
    <2> QED BY <1>0, <1>1, <2>1, <2>3, <2>4, <2>5 DEF SerialShape
<1>7. OneAlive'
    BY <1>0, <1>4 DEF OneAlive, Alive, Steps
<1>8. \A q \in Runners : pc'[q] \notin Planning
    BY <1>4, <1>5 DEF Planning, Alive, Steps
<1>9. SnapCurrent' /\ RunIsDue' /\ AttemptsCount' /\ EvictedIsArchived'
    BY <1>8 DEF SnapCurrent, RunIsDue, AttemptsCount, EvictedIsArchived, Planning, HasRun,
       HasOutcome
<1>10. SettledIsPast'
    <2>1. \A q \in settled : /\ q \in Runners /\ q # r /\ pc'[q] \in {"recorded", "done"}
                           /\ occ[q] \in Nat /\ occ[q] <= occ[r]
        BY <1>0, <1>1, <1>2, <1>4 DEF SettledIsPast, SerialShape
    <2> QED BY <1>0, <1>1, <1>5, <2>1 DEF SettledIsPast
<1>11. \A q \in settled :
           occ[q] = occ[r] =>
               occ[r] = task.last /\ status[q] # "success" /\ attempt[q] <= task.retry.attempt
    BY <1>1, <1>2 DEF SettledIsPast, RetryIsOpen, SerialShape
<1>12. RetryIsOpen'
    <2>1. SUFFICES ASSUME task'.retry.attempt # 0 PROVE RetryIsOpen'
        BY DEF RetryIsOpen
    <2>2. /\ PolicyDeclared /\ status[r] # "success"
          /\ task'.retry.occ = occ[r] /\ task'.retry.attempt = attempt[r]
        BY <1>0, <2>1 DEF NoRetry
    <2>3. \A q \in settled : attempt[q] \in Nat
        BY <1>1 DEF SerialShape
    <2>4. \A q \in settled : occ[q] = occ[r] => status[q] # "success" /\ attempt[q] <= attempt[r]
        BY <1>1, <1>3, <1>11, <2>3
    <2> QED BY <1>0, <1>1, <2>2, <2>4 DEF RetryIsOpen
<1>13. OccurrenceOnce'
    BY <1>0, <1>11 DEF OccurrenceOnce
<1>14. AttemptsBounded'
    <2>0. IsFiniteSet(settled) /\ MaxAttempts \in Nat \ {0}
        BY CronAssumption DEF SerialShape
    <2>1. \A o : /\ Cardinality(RunsOf(o)) \in Nat
                 /\ Cardinality(RunsOf(o)') = IF occ[r] = o THEN Cardinality(RunsOf(o)) + 1
                                              ELSE Cardinality(RunsOf(o))
        BY <1>0, <2>0, RunsOfAfter
    <2>2. occ[r] > task.last => Cardinality(RunsOf(occ[r])) = 0
        <3>1. occ[r] > task.last => RunsOf(occ[r]) = {}
            BY <1>1 DEF RunsOf, SettledIsPast, SerialShape
        <3> QED BY <3>1, FS_EmptySet
    <2>3. occ[r] = task.last =>
              /\ PolicyDeclared /\ task.retry.attempt <= MaxAttempts - 1
              /\ Cardinality(RunsOf(occ[r])) <= task.retry.attempt
        BY <1>1, <1>2, <2>0 DEF AttemptsBounded, RetryIsOpen
    <2>4. ASSUME NEW o, o = occ[r]
          PROVE  /\ Cardinality(RunsOf(o)') <= attempt[r]
                 /\ Cardinality(RunsOf(o)') <= IF PolicyDeclared THEN MaxAttempts ELSE 1
        <3>1. Cardinality(RunsOf(o)) \in Nat /\ Cardinality(RunsOf(o)') = Cardinality(RunsOf(o)) + 1
            BY <2>1, <2>4
        <3>2. CASE occ[r] > task.last
            BY <1>1, <1>3, <2>0, <2>2, <2>4, <3>1, <3>2
        <3>3. CASE occ[r] = task.last
            BY <1>1, <1>3, <2>0, <2>3, <2>4, <3>1, <3>3
        <3> QED BY <1>2, <3>2, <3>3
    <2>6. task'.retry.attempt # 0 => task'.retry.attempt = attempt[r]
        BY <1>0 DEF NoRetry
    <2>7. \A o \in Nat : Cardinality(RunsOf(o)') <= IF PolicyDeclared THEN MaxAttempts ELSE 1
        BY <2>1, <2>4 DEF AttemptsBounded
    <2>8. \A o : o = occ[r] /\ task'.retry.attempt # 0 => Cardinality(RunsOf(o)') <= task'.retry.attempt
        BY <2>4, <2>6
    <2>9. task'.retry.attempt # 0 => Cardinality(RunsOf(task.last)') <= task'.retry.attempt
        BY <1>0, <2>8
    <2> QED BY <2>7, <2>9 DEF AttemptsBounded
<1>15. RecordKept'
    <2> DEFINE g == Append(task.history, r)
               X == settled \cup {r}
    <2>1. g \in Seq(X) /\ task.history \in Seq(X) /\ r \in X
        BY <1>1
    <2>2. \E j \in DOMAIN task'.history : task'.history[j] = r
        <3> HIDE DEF X
        <3> QED BY <1>0, <2>1, NewestIsKept
    <2>3. ASSUME NEW q \in settled
          PROVE  archive[q] > 0 \/ \E j \in DOMAIN task'.history : task'.history[j] = q
        <3>1. CASE archive[q] > 0
            BY <3>1
        <3>2. CASE \E i \in DOMAIN task.history : task.history[i] = q
            <4>1. PICK i \in DOMAIN task.history : task.history[i] = q
                BY <3>2
            <4>2. i \in 1..Len(g) /\ g[i] = q
                BY <1>1, <4>1
            <4>3. \/ q \in Evicted(g)
                  \/ \E j \in DOMAIN task'.history : task'.history[j] = q
                <5>1. task'.history = Kept(g)
                    BY <1>0
                <5> HIDE DEF g, X
                <5> QED BY <2>1, <4>2, <5>1, KeptOrEvicted
            <4>4. g = Appended(r)
                BY <1>0 DEF Appended, SnapCurrent, Planning
            <4> QED BY <1>0, <4>3, <4>4 DEF EvictedIsArchived
        <3> QED BY <3>1, <3>2 DEF RecordKept, SerialShape
    <2> QED BY <1>0, <2>2, <2>3 DEF RecordKept
<1> QED BY <1>6, <1>7, <1>9, <1>10, <1>12, <1>13, <1>14, <1>15

\* One step of anybody, while processes do not overlap.
LEMMA SerialInvStep ==
    ASSUME ~Overlaps, "remove" \notin Commands, SerialInv, [Next]_vars
    PROVE  SerialInv'
<1>1. ASSUME NEW r \in Runners, Execute(r) PROVE SerialInv'
    BY <1>1, LoadStep, PlanStep, FinishStep, ArchiveStep, CommitStep, QuietProcess DEF Execute
<1>2. ASSUME NEW r \in Runners, Crash(r) PROVE SerialInv'
    BY <1>2, QuietProcess
<1>3. CASE Operate \/ Reboot \/ Minute \/ UNCHANGED vars
    BY <1>3, QuietWorld
<1> QED BY <1>1, <1>2, <1>3 DEF Next

\* In every reachable state the store says of the recorded runs what the snapshot of
\* a process will need: their occurrences, attempts and history entries (run.rs).
THEOREM SerialInvHolds ==
    ASSUME ~Overlaps, "remove" \notin Commands PROVE Spec => []SerialInv
<1>1. Init => SerialInv
    BY SerialInitially
<1>2. SerialInv /\ [Next]_vars => SerialInv'
    BY SerialInvStep
<1> QED BY <1>1, <1>2, PTL DEF Spec

\* The record of a run (append_run_history, archive before commit) is never lost:
\* whatever fails, dies or reboots between its archive and its commit, as long as
\* processes do not overlap and the task is not removed.
THEOREM RecordsStay ==
    ASSUME ~Overlaps, "remove" \notin Commands PROVE Spec => []RecordKept
<1>1. SerialInv => RecordKept
    BY DEF SerialInv
<1> QED BY <1>1, SerialInvHolds, PTL

\* An occurrence that was recorded as a success is not run to success again (due.rs,
\* apply_retry_transition), for every schedule, policy and limit.
THEOREM OccurrencesOnce ==
    ASSUME ~Overlaps, "remove" \notin Commands PROVE Spec => []OccurrenceOnce
<1>1. SerialInv => OccurrenceOnce
    BY DEF SerialInv
<1> QED BY <1>1, SerialInvHolds, PTL

-----------------------------------------------------------------------------

\* While nobody edits a limit, the count a run writes is one more than the runs
\* recorded before it.
LEMMA CountInvStep ==
    ASSUME ~Overlaps, Commands \cap {"remove", "limit"} = {}, SerialInv, CountInv, [Next]_vars
    PROVE  CountInv'
<1> USE DEF CountInv
<1>0. SerialShape
    BY DEF SerialInv
<1>1. ASSUME NEW r \in Runners, Commit(r) PROVE CountInv'
    <2>1. /\ pc[r] = "archived" /\ pc' = [pc EXCEPT ![r] = "recorded"] /\ r \notin settled
          /\ settled' = settled \cup {r}
        BY <1>1, CommitRecords
    <2>2. task' = Projected(task, r) /\ UNCHANGED snap
        BY <1>0, <1>1 DEF Commit, SerialShape, plans
    <2>3. snap[r].limit = task.limit /\ snap[r].count = task.count
        BY <2>1 DEF BelowLimit, Planning
    <2>4. task'.limit = task.limit /\ task'.count = CountAfter(r)
        BY <1>0, <2>2, ProjectionKeepsEdits DEF SerialShape
    <2>5. task.limit > 0 => task.count < task.limit
        BY <2>1 DEF BelowLimit, HasRun, Planning
    <2>6. Cardinality(settled') = Cardinality(settled) + 1 /\ Cardinality(settled) \in Nat
        BY <1>0, <2>1, FS_AddElement, FS_CardinalityType DEF SerialShape
    <2>7. task'.limit \in Nat /\ task'.count \in Nat /\ CountIsRuns'
        BY <2>3, <2>4, <2>5, <2>6 DEF CountAfter, CountIsRuns
    <2>8. \A q \in Runners : pc'[q] \notin Planning
        BY <1>0, <2>1 DEF SerialInv, SerialShape, OneAlive, Planning, Alive, Steps
    <2> QED BY <2>7, <2>8 DEF BelowLimit, HasRun
<1>2. ASSUME NEW r \in Runners, Load(r) PROVE CountInv'
    <2>1. /\ task' = task /\ settled' = settled /\ pc' = [pc EXCEPT ![r] = "loaded"]
          /\ snap' = [snap EXCEPT ![r] = task] /\ \A q \in Runners : pc[q] \notin Alive
        BY <1>2 DEF Load, Goto, ghosts
    <2>2. \A q \in Runners : pc'[q] \in Planning => q = r /\ pc'[q] = "loaded"
        BY <1>0, <2>1 DEF SerialShape, Planning, Alive, Steps
    <2>3. BelowLimit'
        BY <1>0, <2>1, <2>2 DEF BelowLimit, HasRun, SerialShape
    <2> QED BY <2>1, <2>3 DEF CountIsRuns
<1>3. ASSUME NEW r \in Runners, PlanRun(r) PROVE CountInv'
    <2>1. /\ task' = task /\ settled' = settled /\ snap' = snap /\ pc[r] = "loaded"
          /\ pc' = [pc EXCEPT ![r] = "planned"] /\ ~LimitReached(snap[r])
        BY <1>3 DEF PlanRun, Goto, ghosts, Due
    <2>2. snap[r].limit = task.limit /\ snap[r].count = task.count
        BY <2>1 DEF BelowLimit, Planning
    <2>3. task.limit > 0 => task.count < task.limit
        BY <2>1, <2>2 DEF LimitReached
    <2>4. \A q \in Runners : pc'[q] \in Planning => pc[q] \in Planning
        BY <1>0, <2>1 DEF SerialShape, Planning
    <2>5. BelowLimit'
        BY <2>1, <2>3, <2>4 DEF BelowLimit
    <2> QED BY <2>1, <2>5 DEF CountIsRuns
<1>4. ASSUME NEW r \in Runners,
             \/ Skip(r) \/ Acquire(r) \/ NotAcquired(r) \/ RunPayload(r)
             \/ (\E s \in {"success", "failed"} : FinishPayload(r, s)) \/ Archive(r) \/ ArchiveFails(r)
             \/ CommitFails(r) \/ Release(r) \/ Quarantine(r) \/ Crash(r)
      PROVE  CountInv'
    <2>1. task' = task /\ settled' = settled
        BY <1>4 DEF Skip, Acquire, NotAcquired, RunPayload, FinishPayload, Archive, ArchiveFails,
                    CommitFails, Release, Quarantine, Crash, ghosts
    <2>2. \/ pc' = [pc EXCEPT ![r] = "done"] /\ snap' = [snap EXCEPT ![r] = Gone(0)]
          \/ pc[r] \in HasRun /\ snap' = snap /\ \E p \in Steps : pc' = [pc EXCEPT ![r] = p]
        BY <1>4 DEF Skip, Acquire, NotAcquired, RunPayload, FinishPayload, Archive, ArchiveFails,
                    CommitFails, Release, Quarantine, Crash, End, Goto, plans, HasRun, Planning, Steps
    <2>3. \A q \in Runners : /\ pc'[q] \in Planning => pc[q] \in Planning /\ snap'[q] = snap[q]
                             /\ pc'[q] \in HasRun => pc[q] \in HasRun
        BY <1>0, <2>2 DEF SerialShape, HasRun, Planning
    <2>4. BelowLimit'
        BY <2>1, <2>3 DEF BelowLimit
    <2> QED BY <2>1, <2>4 DEF CountIsRuns
<1>5. CASE Operate \/ Reboot \/ Minute \/ UNCHANGED vars
    <2>1. task'.limit = task.limit /\ task'.count = task.count /\ settled' = settled
        BY <1>0, <1>5 DEF Operate, Enable, Disable, Remove, EditLimit, Add, EditTask,
           OperatorRelease,
              OperatorAcquire, Reboot, Minute, vars, ghosts, SerialShape, TaskShape
    <2>2. \/ pc' = pc /\ snap' = snap
          \/ Reboot
        BY <1>5 DEF Operate, Enable, Disable, Remove, EditLimit, Add, EditTask, OperatorRelease,
              OperatorAcquire, Minute, vars, plans
    <2>3. CASE Reboot
        <3>1. \A q \in Runners : pc'[q] \notin Planning
            BY <1>0, <2>3 DEF Reboot, SerialShape, Planning, Alive, Steps
        <3> QED BY <2>1, <3>1 DEF BelowLimit, HasRun, CountIsRuns
    <2>4. CASE pc' = pc /\ snap' = snap
        BY <2>1, <2>4 DEF BelowLimit, CountIsRuns
    <2> QED BY <2>2, <2>3, <2>4
<1> QED BY <1>1, <1>2, <1>3, <1>4, <1>5 DEF Next, Execute

\* A limit is never exceeded and no recorded run goes uncounted (apply_run_limit);
\* no occurrence is recorded more often than its policy allows (history_attempt).
THEOREM CountsAreExact ==
    ASSUME ~Overlaps, Commands \cap {"remove", "limit"} = {} PROVE Spec => []CountExact
<1>1. Init => SerialInv /\ CountInv
    BY SerialInitially
<1>2. SerialInv /\ CountInv /\ [Next]_vars => SerialInv' /\ CountInv'
    BY SerialInvStep, CountInvStep
<1>3. SerialInv /\ CountInv => CountExact
    BY CronAssumption DEF SerialInv, AttemptsBounded, RunsOf, CountInv, CountIsRuns, CountExact
<1> QED BY <1>1, <1>2, <1>3, PTL DEF Spec

=============================================================================
