----------------------------- MODULE DistillJobs -----------------------------
(***************************************************************************)
(* The queue of memory extractions: src/src/memory/distill/journal.rs and  *)
(* the drain of distill/extract.rs.                                        *)
(*                                                                         *)
(* A finished run, or the operator, leaves one record per session          *)
(* transcript.  Drains list the records, claim one under the flock of its  *)
(* sidecar, ask the provider, commit the answer and remove the record; a   *)
(* failure rewrites it with a count and a time before which it is not to   *)
(* be tried.  A drain takes its time once, when it starts.  `team` says    *)
(* which drains run: one after another, or overlapping.                    *)
(***************************************************************************)
EXTENDS Integers, Sequences, FiniteSets, SequencesExt

CONSTANTS
    Jobs, Workers,
    NoJob, NoWorker,
    Teams,        \* the drains that may run, the jobs they meet and their --max-jobs
    MaxFailCount, \* MAX_FAIL_COUNT
    MaxAge,       \* MAX_AGE_HOURS
    HardDelay,    \* hours an authentication or quota failure cools the scope
    SoftDelay,    \* first delay of the exponential classes
    DelayCap,     \* and the longest
    EnqueueUntil, \* bound of the time at which a job is enqueued
    MaxTroubles,  \* bound of what disturbs the drains: a job enqueued once more, a
                  \* transcript that changes, a commit that fails, a drain that dies
    CrashInRewrite \* whether it may die between the two halves of a rewrite

ASSUME DistillAssumption ==
    /\ NoJob \notin Jobs /\ NoWorker \notin Workers
    /\ IsFiniteSet(Jobs) /\ IsFiniteSet(Workers)
    /\ Teams \subseteq [drains : SUBSET Workers, jobs : SUBSET Jobs, max_jobs : Nat]
    /\ {MaxFailCount, HardDelay, SoftDelay, DelayCap} \subseteq Nat \ {0}
    /\ {MaxAge, EnqueueUntil, MaxTroubles} \subseteq Nat
    /\ CrashInRewrite \in BOOLEAN

\* Long enough for every job to be too old and every cooldown to be over.
MaxClock == EnqueueUntil + MaxAge + HardDelay

VARIABLES
    record,     \* distill-journal/<job>.json
    dead,       \* the jobs with a file in distill-journal/dead
    lock,       \* who holds the flock of <job>.json.lock
    cooldown,   \* distill.cooldown: no claim before this time
    faithful,   \* the jobs whose transcript is as it was enqueued
    committed,  \* the jobs an answer for which reached facts and resume
    wiki,       \* and those with a file in wiki-candidates
    drain,      \* what each drain is doing
    clock,
    owed,       \* what is owed to each job: whether it was done, and its failures
    team, troubles

vars == <<record, dead, lock, cooldown, faithful, committed, wiki, drain, clock, owed,
          team, troubles>>

-----------------------------------------------------------------------------
(* Records and time.                                                       *)

Absent == [is |-> "absent"]
Torn   == [is |-> "torn"]   \* created, not written: no reader can parse it
Record(created, fails, retry) == [is |-> "ready", created |-> created, fails |-> fails, retry |-> retry]

Classes == {"hard", "soft"}  \* auth and quota cool the scope down, the rest do not
IsHard(class) == class = "hard"

\* FailureClass::retry_seconds, in hours.
RetryDelay(class, fails) ==
    IF IsHard(class) THEN HardDelay
    ELSE LET d == SoftDelay * 2 ^ (fails - 1) IN IF d > DelayCap THEN DelayCap ELSE d

\* Mutants of TooOld: the difference the other way round; and of Waiting: the
\* delay is not looked at.
TooOldSwapped(r, now) == r.created - now > MaxAge
WaitingNot(r, now)    == FALSE

TooOld(r, now)   == now - r.created > MaxAge
Exhausted(r)     == r.fails >= MaxFailCount
Retired(r, now)  == TooOld(r, now) \/ Exhausted(r)
Waiting(r, now)  == r.retry > now
Cooling(now)     == cooldown > now

-----------------------------------------------------------------------------
(* Drains.                                                                 *)

Idle == [pc |-> "off", now |-> 0, left |-> 0, queue |-> <<>>, job |-> NoJob,
         seen |-> Absent, class |-> "soft"]

At(w, pc) == drain[w].pc = pc
Alone     == Cardinality(team.drains) = 1
Job(w)    == drain[w].job
Free(j)   == lock[j] = NoWorker
Unlocked(w) == [j \in Jobs |-> IF lock[j] = w THEN NoWorker ELSE lock[j]]

Init ==
    /\ record = [j \in Jobs |-> Absent] /\ dead = {}
    /\ lock = [j \in Jobs |-> NoWorker] /\ cooldown = 0
    /\ faithful = Jobs /\ committed = {} /\ wiki = {}
    /\ drain = [w \in Workers |-> Idle] /\ clock = 0
    /\ owed = [j \in Jobs |-> [is |-> "new", fails |-> 0, retry |-> 0]]
    /\ team \in Teams /\ troubles = 0

journal == <<record, dead, lock, cooldown>>
results == <<committed, wiki>>
world   == <<faithful, clock, team, troubles>>

Trouble == troubles < MaxTroubles /\ troubles' = troubles + 1

\* enqueue: an existing file is AlreadyPending, whatever it holds.  A job that
\* was completed or retired is queued anew.
Enqueue(j) ==
    /\ clock <= EnqueueUntil
    /\ IF owed[j].is = "new" THEN UNCHANGED troubles ELSE Trouble
    /\ j \in team.jobs \cap faithful /\ record[j] = Absent
    /\ record' = [record EXCEPT ![j] = Record(clock, 0, 0)]
    /\ owed' = [owed EXCEPT ![j] = [is |-> "extraction", fails |-> 0, retry |-> 0]]
    /\ UNCHANGED <<dead, lock, cooldown, results, drain, faithful, clock, team>>

\* The session goes on, or its journal is removed.
Change(j) ==
    /\ Trouble /\ j \in team.jobs \cap faithful
    /\ faithful' = faithful \ {j}
    /\ UNCHANGED <<journal, results, drain, clock, owed, team>>

Tick ==
    /\ clock < MaxClock /\ clock' = clock + 1
    /\ UNCHANGED <<journal, results, drain, owed, faithful, team, troubles>>

-----------------------------------------------------------------------------
(* One drain.                                                              *)

\* An external trigger, or the end of an inline run, starts a drain.
Start(w) ==
    /\ w \in team.drains /\ At(w, "off")
    /\ drain' = [drain EXCEPT ![w] = [Idle EXCEPT !.pc = "list", !.now = clock, !.left = team.max_jobs]]
    /\ UNCHANGED <<journal, results, owed, world>>

\* Mutant of DeadLetter: the removal, and no copy.
DeadLetterDropped(js) ==
    /\ dead' = dead
    /\ record' = [j \in Jobs |-> IF j \in js THEN Absent ELSE record[j]]

\* dead_letter: the copy first, then the removal.
DeadLetter(js) ==
    /\ dead' = dead \cup js
    /\ record' = [j \in Jobs |-> IF j \in js THEN Absent ELSE record[j]]

Older(r, s) == record[r].created < record[s].created

\* claim_counted up to its loop over the sorted jobs: nothing during a
\* cooldown; what is too old or has failed too often is retired without its
\* lock; the runnable records are remembered as they were read.
List(w) ==
    LET now  == drain[w].now
        here == {j \in Jobs : record[j].is = "ready"}
        done == {j \in here : Retired(record[j], now)}
        run  == {j \in here \ done : ~Waiting(record[j], now)}
    IN /\ At(w, "list")
       /\ IF Cooling(now)
          THEN /\ drain' = [drain EXCEPT ![w] = Idle]
               /\ UNCHANGED <<record, dead>>
          ELSE /\ DeadLetter(done)
               /\ \E q \in SetToSeqs(run) :
                     /\ \A a, b \in DOMAIN q : Older(q[a], q[b]) => a < b
                     /\ drain' = [drain EXCEPT
                          ![w].pc = "try",
                          ![w].queue = [i \in DOMAIN q |-> [job |-> q[i], rec |-> record[q[i]]]]]
       /\ UNCHANGED <<lock, cooldown, results, owed, world>>

\* One turn of that loop: the lock, then whether the transcript is unchanged.
Try(w) ==
    /\ At(w, "try") /\ drain[w].queue # <<>>
    /\ LET e == Head(drain[w].queue) IN
       /\ Free(e.job)
       /\ IF e.job \in faithful
          THEN /\ lock' = [lock EXCEPT ![e.job] = w]
               /\ drain' = [drain EXCEPT ![w].pc = "extract", ![w].job = e.job,
                                         ![w].seen = e.rec, ![w].queue = <<>>]
               /\ UNCHANGED <<record, dead>>
          ELSE /\ DeadLetter({e.job})
               /\ drain' = [drain EXCEPT ![w].queue = Tail(@)]
               /\ UNCHANGED lock
    /\ UNCHANGED <<cooldown, results, owed, world>>

\* The lock was not free within the timeout.
GiveUp(w) ==
    /\ At(w, "try") /\ drain[w].queue # <<>>
    /\ ~Free(Head(drain[w].queue).job)
    /\ drain' = [drain EXCEPT ![w].queue = Tail(@)]
    /\ UNCHANGED <<journal, results, owed, world>>

NothingRunnable(w) ==
    /\ At(w, "try") /\ drain[w].queue = <<>>
    /\ drain' = [drain EXCEPT ![w] = Idle]
    /\ UNCHANGED <<journal, results, owed, world>>

\* extract_job: the transcript is read and compared once more, and the
\* provider answers, or fails, or its answer is refused twice.
Extract(w) ==
    /\ At(w, "extract")
    /\ \/ /\ Job(w) \in faithful
          /\ drain' = [drain EXCEPT ![w].pc = "commit"]
       \/ \E c \in (IF Job(w) \in faithful THEN Classes ELSE {"soft"}) :
             drain' = [drain EXCEPT ![w].pc = "remove", ![w].class = c]
    /\ UNCHANGED <<journal, results, owed, world>>

\* The record of a failure, from the record that was read with the claim.
Failed(w) ==
    LET n == drain[w].seen.fails + 1
    IN [drain[w].seen EXCEPT !.fails = n, !.retry = drain[w].now + RetryDelay(drain[w].class, n)]

\* record_failure removes the file ...
Withdraw(w) ==
    LET j == Job(w)
        n == owed[j].fails + 1
    IN /\ At(w, "remove")
       /\ record' = [record EXCEPT ![j] = Absent]
       /\ owed' = [owed EXCEPT ![j].fails = n, ![j].retry = drain[w].now + RetryDelay(drain[w].class, n)]
       /\ drain' = [drain EXCEPT ![w].pc = "rewrite"]
       /\ UNCHANGED <<dead, lock, cooldown, results, world>>

NextJob(w) ==
    IF drain[w].left = 1 THEN Idle
    ELSE [Idle EXCEPT !.pc = "list", !.now = drain[w].now, !.left = drain[w].left - 1]

\* ... and creates it again, which fails when the job was enqueued meanwhile:
\* the drain ends with the error and writes no cooldown.
Rewrite(w) ==
    LET j == Job(w)
    IN /\ At(w, "rewrite")
       /\ IF record[j] # Absent
          THEN /\ drain' = [drain EXCEPT ![w] = Idle]
               /\ UNCHANGED <<record, cooldown>>
          ELSE /\ record' = [record EXCEPT ![j] = Failed(w)]
               /\ cooldown' = IF IsHard(drain[w].class) THEN Failed(w).retry ELSE cooldown
               /\ drain' = [drain EXCEPT ![w] = NextJob(w)]
       /\ lock' = Unlocked(w)
       /\ UNCHANGED <<dead, results, owed, world>>

\* commit_extraction: facts and resume in one transaction, which may fail ...
Commit(w) ==
    /\ At(w, "commit")
    /\ \/ /\ committed' = committed \cup {Job(w)}
          /\ drain' = [drain EXCEPT ![w].pc = "wiki"]
          /\ UNCHANGED <<lock, troubles>>
       \/ /\ Trouble
          /\ drain' = [drain EXCEPT ![w] = Idle] /\ lock' = Unlocked(w)
          /\ UNCHANGED committed
    /\ UNCHANGED <<record, dead, cooldown, wiki, owed, faithful, clock, team>>

\* ... then the candidates, whose file is immutable: another answer to the
\* same transcript conflicts with it.  Either error ends the drain and leaves
\* the record as it is.
Queue(w) ==
    /\ At(w, "wiki")
    /\ \/ /\ wiki' = wiki \cup {Job(w)}
          /\ drain' = [drain EXCEPT ![w].pc = "complete"]
          /\ UNCHANGED lock
       \/ /\ Job(w) \in wiki
          /\ drain' = [drain EXCEPT ![w] = Idle] /\ lock' = Unlocked(w)
          /\ UNCHANGED wiki
    /\ UNCHANGED <<record, dead, cooldown, committed, owed, world>>

Complete(w) ==
    /\ At(w, "complete")
    /\ record' = [record EXCEPT ![Job(w)] = Absent]
    /\ lock' = Unlocked(w) /\ drain' = [drain EXCEPT ![w] = NextJob(w)]
    /\ owed' = [owed EXCEPT ![Job(w)].is = "nothing"]
    /\ UNCHANGED <<dead, cooldown, results, world>>

\* The process dies.  Within a rewrite the job has no file, or an empty one.
Crash(w) ==
    /\ Trouble /\ ~At(w, "off") /\ (At(w, "rewrite") => CrashInRewrite)
    /\ \/ UNCHANGED record
       \/ /\ At(w, "rewrite") /\ record[Job(w)] = Absent
          /\ record' = [record EXCEPT ![Job(w)] = Torn]
    /\ drain' = [drain EXCEPT ![w] = Idle] /\ lock' = Unlocked(w)
    /\ UNCHANGED <<dead, cooldown, results, faithful, clock, owed, team>>

Work(w) == \/ List(w) \/ Try(w) \/ NothingRunnable(w) \/ Extract(w) \/ Withdraw(w)
           \/ Rewrite(w) \/ Commit(w) \/ Queue(w) \/ Complete(w)

Next ==
    \/ \E j \in Jobs : Enqueue(j) \/ Change(j)
    \/ Tick
    \/ \E w \in Workers : Start(w) \/ Work(w) \/ GiveUp(w) \/ Crash(w)

Spec == Init /\ [][Next]_vars

\* Time passes, the trigger comes back, and a drain that runs goes on.
FairSpec == Spec /\ WF_vars(Tick) /\ \A w \in Workers : WF_vars(Start(w)) /\ WF_vars(Work(w))

-----------------------------------------------------------------------------
(* Properties.                                                             *)

Claims(w) == At(w, "try") /\ drain'[w].pc = "extract"

\* A job that was enqueued and not completed is in the journal or among the
\* dead letters, or a live drain is rewriting its record, however drains
\* overlap, die and meet new requests for the same transcript.
JobKept ==
    \A j \in Jobs : owed[j].is = "extraction" =>
        \/ record[j].is = "ready" \/ j \in dead
        \/ \E w \in Workers : At(w, "rewrite") /\ Job(w) = j

\* Drains that do not overlap never ask again for a job that was completed or
\* has used up its attempts, nor before the delay of its last failure is over:
\* no failure is forgotten.
ClaimsInTurn ==
    [][\A w \in Workers : Alone /\ Claims(w) =>
          LET o == owed[Job(w)'] IN
          o.is = "extraction" /\ o.fails < MaxFailCount /\ o.retry <= drain[w].now]_vars

\* Every job is committed or becomes a dead letter in the end, though drains
\* share it, fail, die and lose its lock: nothing stays queued for ever.
JobSettles ==
    \A j \in Jobs : record[j].is = "ready" ~>
        record[j] = Absent /\ (j \in dead \/ j \in committed)

\* docs/memory.md on overlapping drains: a second drain skips a claimed job
\* rather than duplicating it.
NoDuplicate == [][\A w \in Workers : Claims(w) => owed[Job(w)'].is = "extraction"]_vars
=============================================================================
