------------------------------ MODULE CronRun ------------------------------
(***************************************************************************)
(* Scheduled runs of one cron task (src/src/cron/).                        *)
(*                                                                         *)
(* Every `danso cron tick` and `danso cron run` is a process of its own:   *)
(* it loads the task store, plans from that snapshot, and only then takes  *)
(* the task's lock file, runs the payload and projects its outcome onto    *)
(* the store.  The processes share nothing but the store, the lock file    *)
(* and the history archive; guard flocks make each access to one of them   *)
(* atomic and are released before the next.  The operator edits the store  *)
(* and the lock at any moment, processes die, the machine reboots, writes  *)
(* fail.                                                                   *)
(*                                                                         *)
(* Other tasks of a tick are run one after the other and touch their own   *)
(* task and lock only: to this task they are time that passes between the  *)
(* plan and the lock.                                                      *)
(***************************************************************************)
EXTENDS Integers, Sequences, FiniteSets, FiniteSetsExt

CONSTANTS
    Runners,        \* the processes, each with the run id of its own
    Operator,       \* the run id an operator takes the lock with
    NoRun,          \* no run id
    Occurrences,    \* the instants of the schedule, in minutes
    OneShot,        \* schedule kind "once" without keepAfterRun
    PolicyDeclared, \* the task declares a retry policy
    MaxAttempts, BackoffMin, Multiplier, MaxBackoffMin,   \* that policy
    LockTimeout,    \* lockTimeoutSec in minutes, 0 for none
    MaxHistory,     \* maxRunHistory
    Limits,         \* values of maxRuns, 0 for None
    Commands,       \* the commands an operator may issue
    Overlaps,       \* whether a process may start while another is alive
    MaxClock, MaxBoot, MaxBorn   \* bounds of the clock, reboots and re-adds

ASSUME CronAssumption ==
    /\ Operator \notin Runners /\ NoRun \notin Runners \cup {Operator}
    /\ Occurrences \subseteq Nat \ {0}
    /\ {OneShot, PolicyDeclared, Overlaps} \subseteq BOOLEAN
    /\ {MaxAttempts, Multiplier, MaxHistory} \subseteq Nat \ {0}
    /\ {BackoffMin, MaxBackoffMin, LockTimeout, MaxClock, MaxBoot, MaxBorn} \subseteq Nat
    /\ Limits \subseteq Nat /\ Limits # {}
    /\ Commands \subseteq {"enable", "disable", "remove", "add", "limit", "acquire", "release"}

VARIABLES
    task,     \* the task as the store file has it
    lock,     \* locks/<id>.lock
    archive,  \* copies of each run's entry in history/<id>.jsonl
    now,      \* the clock, in minutes
    boot,     \* the boot id
    pc,       \* where each process is
    snap,     \* the task as the process loaded it
    at,       \* the instant of its plan
    occ,      \* scheduledAt of its run
    attempt,  \* the attempt number of its run
    status,   \* how its payload ended
    unsettled, \* runs of this boot that were started and not recorded
    settled,  \* runs whose outcome is in the store, or whose task is gone
    freed,    \* run ids the operator has released
    lease     \* the instant the lock was really taken

vars == <<task, lock, archive, now, boot, pc, snap, at, occ, attempt, status,
          unsettled, settled, freed, lease>>
clocks  == <<now, boot>>
plans   == <<snap, at, occ>>
results == <<attempt, status>>
ghosts  == <<unsettled, settled, freed, lease>>

\* eligible = 0 stands for None, attempt = 0 for retryState = None.
Retries == [occ : Nat, attempt : Nat, eligible : Nat]
NoRetry == [occ |-> 0, attempt |-> 0, eligible |-> 0]

\* born numbers the additions of a task under this id; it is not in the file.
Tasks == [exists : BOOLEAN, enabled : BOOLEAN, limit : Nat, count : Nat, last : Nat,
          retry : Retries, history : Seq(Runners), born : Nat]
NewTask(limit, born) == [exists |-> TRUE, enabled |-> TRUE, limit |-> limit, count |-> 0,
                         last |-> 0, retry |-> NoRetry, history |-> <<>>, born |-> born]
Gone(born) == [NewTask(0, born) EXCEPT !.exists = FALSE, !.enabled = FALSE]

Locks == [state : {"free", "held", "quarantined", "torn"},
          run : Runners \cup {Operator, NoRun}, boot : Nat, acquired : Nat]
FreeLock == [state |-> "free", run |-> NoRun, boot |-> 0, acquired |-> 0]
TornLock == [FreeLock EXCEPT !.state = "torn"]
HeldBy(id, instant) == [state |-> "held", run |-> id, boot |-> boot, acquired |-> instant]

Steps == {"new", "loaded", "planned", "locked", "running", "finished", "archived",
          "recorded", "unsaved", "done"}
Alive == Steps \ {"new", "done"}

\* Between taking the lock and giving it up.
InSection == {"locked", "running", "finished", "archived", "recorded", "unsaved"}

Init ==
    /\ \E limit \in Limits : task = NewTask(limit, 0)
    /\ lock = FreeLock /\ lease = 0
    /\ archive = [r \in Runners |-> 0]
    /\ now = 0 /\ boot = 0
    /\ pc = [r \in Runners |-> "new"]
    /\ snap = [r \in Runners |-> Gone(0)]
    /\ at = [r \in Runners |-> 0]
    /\ occ = [r \in Runners |-> 0]
    /\ attempt = [r \in Runners |-> 0]
    /\ status = [r \in Runners |-> "none"]
    /\ unsettled = {} /\ settled = {} /\ freed = {}

-----------------------------------------------------------------------------
(* The due plan (due.rs), computed from a snapshot of the task.            *)

\* Operators marked as mutants belong to no behaviour: each is a plausible bug
\* in the definition it names, and shows which property would notice it.

\* Mutant of DueOccurrences: an occurrence that has run stays due.
DueOccurrencesAgain(t, instant) == {o \in Occurrences : t.last <= o /\ o <= instant}

\* Occurrences since the last run; only the latest of them is ever run.
DueOccurrences(t, instant) == {o \in Occurrences : t.last < o /\ o <= instant}

RetryReady(t, instant) ==
    /\ t.retry.attempt \in 1..(MaxAttempts - 1)
    /\ t.retry.eligible # 0 /\ t.retry.eligible <= instant

LimitReached(t) == t.limit > 0 /\ t.count >= t.limit

\* A ready retry counts only when no new occurrence is due.
Due(t, instant) ==
    /\ t.exists /\ t.enabled /\ ~LimitReached(t)
    /\ DueOccurrences(t, instant) # {} \/ RetryReady(t, instant)

ScheduledAt(t, instant) ==
    IF DueOccurrences(t, instant) # {} THEN Max(DueOccurrences(t, instant)) ELSE t.retry.occ

\* Mutant of LockState: a quarantined lock goes stale like any other.
LockStateExpiring(l, instant) ==
    IF l.state \in {"held", "quarantined"} /\ l.boot = boot THEN "held"
    ELSE IF l.state = "free" THEN "free" ELSE "stale"

\* lock_status: an unreadable lock, another boot or the opt-in timeout make it
\* stale; a quarantined one never is.
LockState(l, instant) ==
    CASE l.state = "free"        -> "free"
      [] l.state = "torn"        -> "stale"
      [] l.state = "quarantined" -> "persist-failed"
      [] l.state = "held"        ->
             IF l.boot # boot \/ (LockTimeout > 0 /\ instant - l.acquired > LockTimeout)
             THEN "stale" ELSE "held"

Takeable(instant) == LockState(lock, instant) \in {"free", "stale"}

-----------------------------------------------------------------------------
(* One process, in the order of run::execute.                              *)

\* The process ends; what it had only in memory is gone with it.
End(r) ==
    /\ pc' = [pc EXCEPT ![r] = "done"]
    /\ snap' = [snap EXCEPT ![r] = Gone(0)]
    /\ at' = [at EXCEPT ![r] = 0]

Goto(r, step) == pc' = [pc EXCEPT ![r] = step]

\* The command line loads the store once, before anything else.
Load(r) ==
    /\ pc[r] = "new"
    /\ Overlaps \/ \A s \in Runners : pc[s] \notin Alive
    /\ snap' = [snap EXCEPT ![r] = task]
    /\ Goto(r, "loaded")
    /\ UNCHANGED <<task, lock, archive, clocks, at, occ, results, ghosts>>

PlanRun(r) ==
    /\ pc[r] = "loaded" /\ Due(snap[r], now)
    /\ at' = [at EXCEPT ![r] = now]
    /\ occ' = [occ EXCEPT ![r] = ScheduledAt(snap[r], now)]
    /\ Goto(r, "planned")
    /\ UNCHANGED <<task, lock, archive, clocks, snap, results, ghosts>>

\* A tick leaves a task alone that is not due, disabled, at its limit, or
\* whose lock is held; a manual run looks at the lock only when it takes it.
Skip(r) ==
    /\ pc[r] = "loaded"
    /\ ~Due(snap[r], now) \/ ~Takeable(now)
    /\ End(r)
    /\ UNCHANGED <<task, lock, archive, clocks, occ, results, ghosts>>

\* acquire_for_run: a stale lock is moved aside and replaced.
Acquire(r) ==
    /\ pc[r] = "planned" /\ Takeable(at[r])
    /\ lock' = HeldBy(r, at[r]) /\ lease' = now
    /\ Goto(r, "locked")
    /\ UNCHANGED <<task, archive, clocks, plans, results, unsettled, settled, freed>>

\* The lock is held, or it cannot be written; a write that fails after the
\* file was created leaves a lock without content.
NotAcquired(r) ==
    /\ pc[r] = "planned"
    /\ \/ lock' = lock
       \/ Takeable(at[r]) /\ lock' \in {FreeLock, TornLock}
    /\ End(r)
    /\ occ' = [occ EXCEPT ![r] = 0]
    /\ UNCHANGED <<task, archive, clocks, results, ghosts>>

RunPayload(r) ==
    /\ pc[r] = "locked"
    /\ unsettled' = unsettled \cup {r}
    /\ Goto(r, "running")
    /\ UNCHANGED <<task, lock, archive, clocks, plans, results, settled, freed, lease>>

\* history_attempt: one past the highest attempt the snapshot knows of.
HistoryAttempt(t, o) ==
    1 + Max({0} \cup {t.retry.attempt : x \in {t.retry.occ} \cap {o}}
                \cup {attempt[t.history[i]] : i \in {j \in DOMAIN t.history : occ[t.history[j]] = o}})

\* The payload exits, is killed at its timeout or cannot be started; exit
\* codes matter only as success or not.
FinishPayload(r, s) ==
    /\ pc[r] = "running"
    /\ status' = [status EXCEPT ![r] = s]
    /\ attempt' = [attempt EXCEPT ![r] = HistoryAttempt(snap[r], occ[r])]
    /\ Goto(r, "finished")
    /\ UNCHANGED <<task, lock, archive, clocks, plans, ghosts>>

\* append_run_history on the snapshot: the entries kept and those evicted.
Surplus(h)  == IF Len(h) > MaxHistory THEN Len(h) - MaxHistory ELSE 0
Kept(h)     == SubSeq(h, Surplus(h) + 1, Len(h))
\* Mutant of Evicted: entries over the cap are dropped.
EvictedNone(h) == {}
Evicted(h)  == {h[i] : i \in 1..Surplus(h)}
Appended(r) == Append(snap[r].history, r)

Archived(es) == [r \in Runners |-> IF r \in es THEN archive[r] + 1 ELSE archive[r]]

Archive(r) ==
    /\ pc[r] = "finished"
    /\ archive' = Archived(Evicted(Appended(r)))
    /\ Goto(r, "archived")
    /\ UNCHANGED <<task, lock, clocks, plans, results, ghosts>>

\* Before or after its lines were written, the archive cannot be written.
ArchiveFails(r) ==
    /\ pc[r] = "finished" /\ Evicted(Appended(r)) # {}
    /\ archive' \in {archive, Archived(Evicted(Appended(r)))}
    /\ Goto(r, "unsaved")
    /\ UNCHANGED <<task, lock, clocks, plans, results, ghosts>>

RetryDelay(n) ==
    LET delay == BackoffMin * Multiplier^(n - 1)
    IN  IF delay <= MaxBackoffMin THEN delay ELSE MaxBackoffMin

\* apply_retry_transition.
RetryAfter(r) ==
    IF status[r] = "success" \/ ~PolicyDeclared THEN NoRetry
    ELSE [occ |-> occ[r], attempt |-> attempt[r],
          eligible |-> IF attempt[r] >= MaxAttempts THEN 0 ELSE at[r] + RetryDelay(attempt[r])]

\* Mutant of CountAfter: a failed run is not counted.
CountAfterSuccess(r) ==
    IF snap[r].limit = 0 \/ status[r] # "success" THEN snap[r].count ELSE snap[r].count + 1

\* apply_run_limit, with the limit and the count of the snapshot.
CountAfter(r) == IF snap[r].limit = 0 THEN snap[r].count ELSE snap[r].count + 1
LimitHit(r)   == snap[r].limit > 0 /\ CountAfter(r) >= snap[r].limit
Disables(r)   == LimitHit(r) \/ (OneShot /\ status[r] = "success")

\* Mutant of Projected: the whole task of the snapshot is written back.
ProjectedWhole(t, r) ==
    [snap[r] EXCEPT !.history = Kept(Appended(r)),
                    !.retry = IF LimitHit(r) THEN NoRetry ELSE RetryAfter(r),
                    !.last = occ[r], !.count = CountAfter(r), !.enabled = @ /\ ~Disables(r)]

\* commit_run_state: the run's own fields are replaced, enabled only cleared.
Projected(t, r) ==
    [t EXCEPT !.history = Kept(Appended(r)),
              !.retry = IF LimitHit(r) THEN NoRetry ELSE RetryAfter(r),
              !.last = occ[r],
              !.count = CountAfter(r),
              !.enabled = @ /\ ~Disables(r)]

\* A task that was removed meanwhile has nothing to record.
Commit(r) ==
    /\ pc[r] = "archived"
    /\ task' = IF task.exists THEN Projected(task, r) ELSE task
    /\ settled' = settled \cup {r} /\ unsettled' = unsettled \ {r}
    /\ Goto(r, "recorded")
    /\ UNCHANGED <<lock, archive, clocks, plans, results, freed, lease>>

\* The store is unreadable, invalid or cannot be replaced.
CommitFails(r) ==
    /\ pc[r] = "archived"
    /\ Goto(r, "unsaved")
    /\ UNCHANGED <<task, lock, archive, clocks, plans, results, ghosts>>

\* Mutant of ReleasedBy: whatever lock there is is removed.
ReleasedByAnyone(r) == FreeLock

\* release_for_run: only the lock of exactly this run is removed.
ReleasedBy(r) == IF lock.run = r THEN FreeLock ELSE lock

\* A lock file that cannot be removed stays.
Release(r) ==
    /\ pc[r] = "recorded"
    /\ lock' \in {ReleasedBy(r), lock}
    /\ End(r)
    /\ UNCHANGED <<task, archive, clocks, occ, results, ghosts>>

\* quarantine_persist_failure: the run's own lock becomes non-expiring.
QuarantinedBy(r) == IF lock.run = r THEN [lock EXCEPT !.state = "quarantined"] ELSE lock

Quarantine(r) ==
    /\ pc[r] = "unsaved"
    /\ lock' \in {QuarantinedBy(r), lock}
    /\ End(r)
    /\ UNCHANGED <<task, archive, clocks, occ, results, ghosts>>

Execute(r) ==
    \/ Load(r) \/ PlanRun(r) \/ Skip(r) \/ Acquire(r) \/ NotAcquired(r)
    \/ RunPayload(r) \/ \E s \in {"success", "failed"} : FinishPayload(r, s)
    \/ Archive(r) \/ ArchiveFails(r) \/ Commit(r) \/ CommitFails(r)
    \/ Release(r) \/ Quarantine(r)

-----------------------------------------------------------------------------
(* The operator and the machine.                                           *)

\* crud.rs: every mutation re-reads the store under its flock.
EditTask(name, can, t) ==
    /\ name \in Commands /\ can
    /\ task' = t
    /\ UNCHANGED <<lock, archive, clocks, pc, plans, results, ghosts>>

Enable  == EditTask("enable", task.exists /\ ~task.enabled, [task EXCEPT !.enabled = TRUE])
Disable == EditTask("disable", task.exists /\ task.enabled, [task EXCEPT !.enabled = FALSE])
EditLimit(n) == EditTask("limit", task.exists /\ n # 0, [task EXCEPT !.limit = n])
Remove  == EditTask("remove", task.exists, Gone(task.born))
Add(n)  == EditTask("add", ~task.exists /\ task.born < MaxBorn, NewTask(n, task.born + 1))

\* lock --action release --run-id: any lock of exactly this run id.
OperatorRelease ==
    /\ "release" \in Commands /\ task.exists
    /\ lock.state \in {"held", "quarantined"}
    /\ lock' = FreeLock
    /\ freed' = freed \cup {lock.run}
    /\ UNCHANGED <<task, archive, clocks, pc, plans, results, unsettled, settled, lease>>

\* lock --action acquire, with the failures of any other acquisition.
OperatorAcquire ==
    /\ "acquire" \in Commands /\ task.exists /\ Takeable(now)
    /\ \/ lock' = HeldBy(Operator, now) /\ lease' = now
       \/ lock' \in {FreeLock, TornLock} /\ lease' = lease
    /\ UNCHANGED <<task, archive, clocks, pc, plans, results, unsettled, settled, freed>>

\* A process is killed; a lock it holds stays where it is.
Crash(r) ==
    /\ pc[r] \in Alive
    /\ End(r)
    /\ UNCHANGED <<task, lock, archive, clocks, occ, results, ghosts>>

Reboot ==
    /\ boot < MaxBoot
    /\ boot' = boot + 1
    /\ pc' = [r \in Runners |-> IF pc[r] \in Alive THEN "done" ELSE pc[r]]
    /\ snap' = [r \in Runners |-> Gone(0)]
    /\ at' = [r \in Runners |-> 0]
    /\ unsettled' = {}
    /\ UNCHANGED <<task, lock, archive, now, occ, results, settled, freed, lease>>

Minute ==
    /\ now < MaxClock
    /\ now' = now + 1
    /\ UNCHANGED <<task, lock, archive, boot, pc, plans, results, ghosts>>

Operate ==
    \/ Enable \/ Disable \/ Remove \/ OperatorRelease \/ OperatorAcquire
    \/ \E n \in Limits : EditLimit(n) \/ Add(n)

Next == (\E r \in Runners : Execute(r) \/ Crash(r)) \/ Operate \/ Reboot \/ Minute

Spec == Init /\ [][Next]_vars

-----------------------------------------------------------------------------
(* Properties.                                                             *)

\* The type of the state.
CronTypeOK ==
    /\ task \in Tasks /\ lock \in Locks
    /\ archive \in [Runners -> Nat] /\ now \in Nat /\ boot \in Nat
    /\ pc \in [Runners -> Steps] /\ snap \in [Runners -> Tasks]
    /\ at \in [Runners -> Nat] /\ occ \in [Runners -> Nat]
    /\ attempt \in [Runners -> Nat] /\ status \in [Runners -> {"none", "success", "failed"}]
    /\ unsettled \subseteq Runners /\ settled \subseteq Runners
    /\ freed \subseteq Runners \cup {Operator} /\ lease \in Nat

\* The lock excludes: without a lock timeout, two processes are between taking
\* and giving up the lock only if an operator released one of them by its id,
\* whatever stale, torn and mismatched locks there were before.
OneHolder ==
    \A r, s \in Runners \ freed : pc[r] \in InSection /\ pc[s] \in InSection => r = s

\* A run whose outcome is not in the store leaves its lock behind, so that no
\* later process of the same boot repeats what it did, however it ended: only
\* its operator, a reboot or the opt-in timeout ends that.
UnsettledIsGuarded == \A r \in unsettled \ freed : lock.run = r

\* Both at once, whatever the processes do that overlap.
LockGuards == OneHolder /\ UnsettledIsGuarded

\* A quarantined lock yields to nothing but the operator's release of exactly
\* that run: no timeout, reboot, crash or other process removes it.
QuarantineSticks ==
    [][lock.state = "quarantined" => lock' = lock \/ (lock' = FreeLock /\ lock.run \in freed')]_vars

\* Whatever the operator did while a run was in flight survives its commit: no
\* step of a process enables, restores or creates a task or changes its limit.
EditsSurvive ==
    [][ pc' # pc => /\ task'.enabled => task.enabled
                    /\ task'.exists = task.exists
                    /\ task'.limit = task.limit /\ task'.born = task.born ]_vars

\* Processes that do not overlap count every run they record, so a limit is
\* never exceeded by recorded runs, after any crashes, retries and reboots; nor
\* do they record an occurrence more often than its policy allows.
CountExact ==
    /\ task.limit > 0 => task.count = Cardinality(settled) /\ task.count <= task.limit
    /\ \A o \in Occurrences :
           Cardinality({r \in settled : occ[r] = o}) <= IF PolicyDeclared THEN MaxAttempts ELSE 1

\* An occurrence that succeeded and was recorded is not run to success again.
OccurrenceOnce ==
    \A r, s \in settled : occ[r] = occ[s] /\ status[r] = "success" /\ status[s] = "success" => r = s

\* The record of a run stays: in the task's history, or in the archive once
\* newer entries have pushed it out.
RecordKept ==
    task.exists => \A r \in settled : archive[r] > 0 \/ \E i \in DOMAIN task.history : task.history[i] = r

-----------------------------------------------------------------------------
(* A statement of the documentation that the code does not keep; another   *)
(* is OccurrenceOnce for processes that overlap.                           *)

\* locks.rs: only another boot or the timeout the task asks for makes a lock
\* stale; so within a boot none is replaced less than the timeout after it was
\* taken (the clock counts whole minutes, hence not strictly more).
TimeoutHonoured ==
    [][ lock.state = "held" /\ lock.boot = boot /\ lock'.state = "held" /\ lock'.run # lock.run
            => now - lease >= LockTimeout ]_vars

=============================================================================
