---------------------------- MODULE DistillProofs ----------------------------
(***************************************************************************)
(* Safety of the extraction queue for every number of jobs, drains, times, *)
(* failures and crashes.                                                   *)
(*                                                                         *)
(* That no job is forgotten needs what a drain holds of a record it has    *)
(* read; that drains in turn ask only for what is due needs, besides, that *)
(* nobody else changes the record meanwhile and that the record says of    *)
(* its failures what happened.                                             *)
(***************************************************************************)
EXTENDS DistillJobs, TLAPS, FiniteSetTheorems

-----------------------------------------------------------------------------
(* The inductive invariants.                                               *)

\* Where a drain can be; with a job in hand from "extract" on.
Holding == {"extract", "commit", "wiki", "complete", "remove", "rewrite"}
DrainSteps == {"off", "list", "try"} \cup Holding

Readable == [is : {"ready"}, created : Int, fails : Nat, retry : Int]
Owed == [is : {"new", "extraction", "nothing"}, fails : Nat, retry : Int]
Entries == [job : Jobs, rec : Readable]
Drains == [pc : DrainSteps, now : Nat, left : Int, queue : Seq(Entries),
           job : Jobs \cup {NoJob}, seen : Readable \cup {Absent}, class : Classes]

\* What the queue, the drains and the accounts hold, for any bounds.
DistillShape ==
    /\ record \in [Jobs -> Readable \cup {Absent, Torn}]
    /\ dead \in SUBSET Jobs
    /\ drain \in [Workers -> Drains]
    /\ owed \in [Jobs -> Owed]
    /\ clock \in Nat /\ team \in Teams
    /\ \A w \in Workers : drain[w].pc \in Holding => Job(w) \in Jobs /\ drain[w].seen \in Readable
    /\ ~CrashInRewrite => \A j \in Jobs : record[j] # Torn

\* Nobody is forgotten.
KeptInv == DistillShape /\ JobKept

\* A record says of the failures of its job what is owed to it.
RecordsTrue ==
    \A j \in Jobs : record[j].is = "ready" =>
        /\ owed[j].is = "extraction"
        /\ owed[j].fails = record[j].fails /\ owed[j].retry = record[j].retry

\* What drain w has read of the records is what they hold: of those it lists,
\* each is due and listed once; of the one it claimed; and of the one it is
\* about to write again, unless it was enqueued meanwhile.
ReadingsTrue(w) ==
    /\ drain[w].pc # "off" => w \in team.drains
    /\ drain[w].pc = "try" =>
          /\ \A i \in 1..Len(drain[w].queue) :
                LET e == drain[w].queue[i] IN
                /\ record[e.job] = e.rec /\ ~Exhausted(e.rec) /\ ~Waiting(e.rec, drain[w].now)
          /\ \A i, k \in 1..Len(drain[w].queue) : i # k => drain[w].queue[i].job # drain[w].queue[k].job
    /\ drain[w].pc \in Holding \ {"rewrite"} => record[Job(w)] = drain[w].seen
    /\ drain[w].pc = "rewrite" /\ record[Job(w)] = Absent =>
          /\ owed[Job(w)].is = "extraction"
          /\ owed[Job(w)].fails = Failed(w).fails /\ owed[Job(w)].retry = Failed(w).retry

\* Drains in turn do not act on what is out of date.
UpToDate == RecordsTrue /\ \A w \in Workers : ReadingsTrue(w)
TurnInv == DistillShape /\ (Alone => UpToDate)

-----------------------------------------------------------------------------
(* Types.                                                                  *)

\* What the parts of a typed state are.
LEMMA Parts ==
    ASSUME DistillShape
    PROVE  /\ \A j \in Jobs : record[j] \in Readable \cup {Absent, Torn} /\ owed[j] \in Owed
           /\ \A w \in Workers : drain[w] \in Drains
           /\ \A j \in Jobs : record[j].is = "ready" <=> record[j] \in Readable
           /\ NoJob \notin Jobs /\ Torn # Absent
           /\ HardDelay \in Nat /\ SoftDelay \in Nat /\ DelayCap \in Nat /\ MaxFailCount \in Nat
<1>1. NoJob \notin Jobs /\ HardDelay \in Nat /\ SoftDelay \in Nat /\ DelayCap \in Nat /\ MaxFailCount \in Nat
  BY DistillAssumption
<1>2. \A j \in Jobs : record[j] \in Readable \cup {Absent, Torn} /\ owed[j] \in Owed
  BY DEF DistillShape
<1>3. \A r \in Readable \cup {Absent, Torn} : r.is = "ready" <=> r \in Readable
  BY DEF Readable, Absent, Torn
<1>4. Torn # Absent
  <2>1. Torn.is # Absent.is  BY DEF Torn, Absent
  <2> QED  BY <2>1
<1> QED  BY <1>1, <1>2, <1>3, <1>4 DEF DistillShape

\* A drain that does not run.
LEMMA IdleTyped == Idle \in Drains /\ Idle.pc = "off" /\ Idle.queue = <<>>
BY DEF Idle, Drains, DrainSteps, Holding, Classes

\* The next job of a drain, or its end.
LEMMA NextJobTyped ==
    ASSUME NEW w \in Workers, drain[w] \in Drains
    PROVE  NextJob(w) \in Drains /\ NextJob(w).pc \in {"off", "list"} /\ NextJob(w).queue = <<>>
<1>1. drain[w].now \in Nat /\ drain[w].left \in Int  BY DEF Drains
<1> DEFINE y == [Idle EXCEPT !.pc = "list", !.now = drain[w].now, !.left = drain[w].left - 1]
<1>2. NextJob(w) = IF drain[w].left = 1 THEN Idle ELSE y  BY DEF NextJob
<1>3. drain[w].left - 1 \in Int /\ "list" \in DrainSteps  BY <1>1 DEF DrainSteps
<1>4. y \in Drains  BY <1>1, <1>3, IdleTyped DEF Drains
<1>5. y.pc = "list" /\ y.queue = <<>>  BY DEF Idle
<1> HIDE DEF y
<1> QED  BY <1>2, <1>4, <1>5, IdleTyped

\* One drain changes to x.
LEMMA OneDrain ==
    ASSUME drain \in [Workers -> Drains], NEW w \in Workers, NEW x \in Drains,
           drain' = [drain EXCEPT ![w] = x]
    PROVE  /\ drain' \in [Workers -> Drains] /\ drain'[w] = x
           /\ \A v \in Workers \ {w} : drain'[v] = drain[v]
OBVIOUS

\* A failure's delay is a time, and so is when it is over.
LEMMA FailedTyped ==
    ASSUME DistillShape, NEW w \in Workers, drain[w].seen \in Readable
    PROVE  /\ Failed(w) \in Readable
           /\ Failed(w).fails = drain[w].seen.fails + 1
           /\ Failed(w).retry = drain[w].now + RetryDelay(drain[w].class, drain[w].seen.fails + 1)
           /\ \A n \in Nat \ {0} : drain[w].now + RetryDelay(drain[w].class, n) \in Int
<1>1. drain[w].seen.fails \in Nat /\ drain[w].now \in Nat /\ drain[w].class \in Classes
  BY Parts DEF Drains, Readable
<1>2. ASSUME NEW n \in Nat \ {0}
      PROVE  drain[w].now + RetryDelay(drain[w].class, n) \in Int
  <2>1. 2 ^ (n - 1) \in Int  OBVIOUS
  <2>2. SoftDelay * 2 ^ (n - 1) \in Int  BY <2>1, DistillAssumption
  <2>3. RetryDelay(drain[w].class, n) \in Int
    BY <2>2, DistillAssumption DEF RetryDelay
  <2> QED  BY <1>1, <2>3
<1>3. drain[w].seen.fails + 1 \in Nat \ {0}  BY <1>1
<1>4. drain[w].now + RetryDelay(drain[w].class, drain[w].seen.fails + 1) \in Int
  BY <1>2, <1>3
<1> DEFINE t == drain[w].now + RetryDelay(drain[w].class, drain[w].seen.fails + 1)
<1>5. Failed(w) = [drain[w].seen EXCEPT !.fails = drain[w].seen.fails + 1, !.retry = t]
  BY DEF Failed
<1>6. t \in Int  BY <1>4
<1> HIDE DEF t
<1>7. Failed(w) \in Readable  BY <1>3, <1>5, <1>6 DEF Readable
<1>8. Failed(w).fails = drain[w].seen.fails + 1 /\ Failed(w).retry = t
  BY <1>5 DEF Readable
<1> QED  BY <1>2, <1>7, <1>8 DEF t

-----------------------------------------------------------------------------
(* What a step has to show.                                                *)

\* A step keeps the types, forgets nobody and leaves nothing out of date.
Keeps ==
    /\ DistillShape'
    /\ ~CrashInRewrite /\ JobKept => JobKept'
    /\ Alone /\ UpToDate => UpToDate'

\* A step of drain w to x that keeps to the types.
LEMMA ShapeFrom ==
    ASSUME DistillShape, NEW w \in Workers, NEW x \in Drains, drain' = [drain EXCEPT ![w] = x],
           x.pc \in Holding => x.job \in Jobs /\ x.seen \in Readable,
           record' \in [Jobs -> Readable \cup {Absent, Torn}],
           ~CrashInRewrite => \A j \in Jobs : record'[j] # Torn,
           dead' \in SUBSET Jobs, owed' \in [Jobs -> Owed], clock' = clock, team' = team
    PROVE  DistillShape'
<1>1. drain' \in [Workers -> Drains] /\ drain'[w] = x /\ \A v \in Workers \ {w} : drain'[v] = drain[v]
  BY OneDrain DEF DistillShape
<1>2. \A v \in Workers : drain'[v].pc \in Holding => drain'[v].job \in Jobs /\ drain'[v].seen \in Readable
  BY <1>1 DEF DistillShape, Job
<1> QED  BY <1>1, <1>2 DEF DistillShape, Job

\* A step of drain w to x forgets nobody if each job is accounted for, or its
\* accounts, record and rewriting stay.
LEMMA KeptFrom ==
    ASSUME DistillShape, JobKept, NEW w \in Workers, NEW x \in Drains,
           drain' = [drain EXCEPT ![w] = x], dead \subseteq dead',
           \A j \in Jobs :
              \/ owed'[j].is # "extraction" \/ record'[j].is = "ready" \/ j \in dead'
              \/ x.pc = "rewrite" /\ x.job = j
              \/ /\ owed'[j] = owed[j] /\ record'[j] = record[j]
                 /\ ~(drain[w].pc = "rewrite" /\ drain[w].job = j)
    PROVE  JobKept'
<1>1. drain' \in [Workers -> Drains] /\ drain'[w] = x /\ \A v \in Workers \ {w} : drain'[v] = drain[v]
  BY OneDrain DEF DistillShape
<1> SUFFICES ASSUME NEW j \in Jobs, owed'[j].is = "extraction", ~(record'[j].is = "ready"), j \notin dead'
             PROVE  \E v \in Workers : drain'[v].pc = "rewrite" /\ drain'[v].job = j
  BY DEF JobKept, At, Job
<1>2. CASE x.pc = "rewrite" /\ x.job = j  BY <1>1, <1>2
<1>3. CASE /\ owed'[j] = owed[j] /\ record'[j] = record[j]
           /\ ~(drain[w].pc = "rewrite" /\ drain[w].job = j)
  <2>1. PICK v \in Workers : drain[v].pc = "rewrite" /\ drain[v].job = j
    BY <1>3 DEF JobKept, At, Job
  <2> QED  BY <1>1, <1>3, <2>1
<1> QED  BY <1>2, <1>3

\* Drains in turn: while one of them runs the others rest.
LEMMA OthersRest ==
    ASSUME DistillShape, Alone, UpToDate, NEW w \in Workers, w \in team.drains
    PROVE  \A v \in Workers \ {w} : drain[v].pc = "off"
<1>1. team.drains \in SUBSET Workers  BY DistillAssumption DEF DistillShape
<1>2. IsFiniteSet(team.drains)  BY <1>1, DistillAssumption, FS_Subset
<1>3. PICK u : team.drains = {u}  BY <1>2, FS_Singleton DEF Alone
<1> QED  BY <1>3 DEF UpToDate, ReadingsTrue

\* In turn, a step of drain w has to show what w has read and what is recorded.
LEMMA TurnFrom ==
    ASSUME DistillShape, Alone, UpToDate, NEW w \in Workers, w \in team.drains,
           NEW x \in Drains, drain' = [drain EXCEPT ![w] = x], team' = team,
           RecordsTrue', ReadingsTrue(w)'
    PROVE  UpToDate'
<1>1. /\ drain'[w] = x /\ \A v \in Workers \ {w} : drain'[v] = drain[v]
  BY OneDrain DEF DistillShape
<1>2. \A v \in Workers \ {w} : drain'[v].pc = "off"  BY <1>1, OthersRest
<1>3. ASSUME NEW v \in Workers \ {w}  PROVE ReadingsTrue(v)'
  <2>1. drain'[v].pc = "off"  BY <1>2
  <2> QED  BY <2>1 DEF ReadingsTrue, Holding
<1> QED  BY <1>3 DEF UpToDate

\* A drain that ends, goes on to its next job or looks at nothing has read nothing.
LEMMA NothingRead ==
    ASSUME NEW w \in Workers, drain'[w].pc = "off" \/ (drain'[w].pc = "list" /\ w \in team'.drains)
    PROVE  ReadingsTrue(w)'
BY DEF ReadingsTrue, Holding

-----------------------------------------------------------------------------
(* The steps that change no drain.                                         *)

\* A job is enqueued.
LEMMA EnqueueKeeps ==
    ASSUME DistillShape, NEW j \in Jobs, Enqueue(j)
    PROVE  Keeps
<1> DEFINE r == Record(clock, 0, 0)
           o == [owed[j] EXCEPT !.is = "extraction", !.fails = 0, !.retry = 0]
<1>1. /\ record[j] = Absent /\ record' = [record EXCEPT ![j] = r]
      /\ owed' = [owed EXCEPT ![j] = [is |-> "extraction", fails |-> 0, retry |-> 0]]
      /\ dead' = dead /\ drain' = drain /\ clock' = clock /\ team' = team
  BY DEF Enqueue, world
<1>2. r \in Readable /\ r.is = "ready" /\ r.fails = 0 /\ r.retry = 0
  BY DEF DistillShape, Record, Readable
<1>3. [is |-> "extraction", fails |-> 0, retry |-> 0] \in Owed  BY DEF Owed
<1>4. /\ record'[j] = r /\ \A i \in Jobs \ {j} : record'[i] = record[i]
      /\ owed'[j].is = "extraction" /\ owed'[j].fails = 0 /\ owed'[j].retry = 0
      /\ \A i \in Jobs \ {j} : owed'[i] = owed[i]
      /\ record' \in [Jobs -> Readable \cup {Absent, Torn}] /\ owed' \in [Jobs -> Owed]
  BY <1>1, <1>2, <1>3 DEF DistillShape
<1>5. r # Absent /\ r # Torn  BY <1>2 DEF Absent, Torn
<1> HIDE DEF r
<1>6. DistillShape'
  BY <1>1, <1>4, <1>5 DEF DistillShape, Job
<1>7. JobKept => JobKept'
  <2> SUFFICES ASSUME JobKept, NEW i \in Jobs, owed'[i].is = "extraction"
               PROVE  \/ record'[i].is = "ready" \/ i \in dead'
                      \/ \E w \in Workers : drain'[w].pc = "rewrite" /\ drain'[w].job = i
    BY DEF JobKept, At, Job
  <2>1. CASE i = j  BY <1>2, <1>4, <2>1
  <2>2. CASE i # j  BY <1>1, <1>4, <2>2 DEF JobKept, At, Job
  <2> QED  BY <2>1, <2>2
<1>8. ASSUME UpToDate  PROVE UpToDate'
  <2>1. RecordsTrue'
    BY <1>2, <1>4, <1>8 DEF UpToDate, RecordsTrue
  <2>2. ASSUME NEW w \in Workers  PROVE ReadingsTrue(w)'
    <3>1. ReadingsTrue(w) /\ drain[w] \in Drains  BY <1>8, Parts DEF UpToDate
    <3>2. \A i \in 1..Len(drain[w].queue) : drain[w].queue[i] \in Entries
      BY <3>1 DEF Drains
    <3>3. drain[w].pc = "try" =>
            \A i \in 1..Len(drain[w].queue) : record'[drain[w].queue[i].job] = drain[w].queue[i].rec
      <4> SUFFICES ASSUME drain[w].pc = "try", NEW i \in 1..Len(drain[w].queue)
                   PROVE  record'[drain[w].queue[i].job] = drain[w].queue[i].rec
        OBVIOUS
      <4>1. record[drain[w].queue[i].job] = drain[w].queue[i].rec  BY <3>1 DEF ReadingsTrue
      <4>2. drain[w].queue[i].job \in Jobs /\ drain[w].queue[i].rec \in Readable
        BY <3>2 DEF Entries
      <4>3. drain[w].queue[i].job # j  BY <1>1, <4>1, <4>2 DEF Readable, Absent
      <4> QED  BY <1>4, <4>1, <4>2, <4>3
    <3>4. drain[w].pc \in Holding \ {"rewrite"} => record'[drain[w].job] = drain[w].seen
      <4> SUFFICES ASSUME drain[w].pc \in Holding \ {"rewrite"}
                   PROVE  record'[drain[w].job] = drain[w].seen
        OBVIOUS
      <4>1. drain[w].job \in Jobs /\ drain[w].seen \in Readable  BY DEF DistillShape, Job
      <4>2. record[drain[w].job] = drain[w].seen  BY <3>1 DEF ReadingsTrue, Job
      <4>3. drain[w].job # j  BY <1>1, <4>1, <4>2 DEF Readable, Absent
      <4> QED  BY <1>4, <4>1, <4>2, <4>3
    <3>5. drain[w].pc = "rewrite" /\ record'[drain[w].job] = Absent =>
            record[drain[w].job] = Absent /\ owed'[drain[w].job] = owed[drain[w].job]
      <4>1. drain[w].pc = "rewrite" => drain[w].job \in Jobs  BY DEF DistillShape, Job, Holding
      <4> QED  BY <1>4, <1>5, <4>1
    <3>6. Failed(w)' = Failed(w) /\ drain'[w] = drain[w]  BY <1>1 DEF Failed
    <3> QED  BY <1>1, <3>1, <3>3, <3>4, <3>5, <3>6 DEF ReadingsTrue, Job
  <2> QED  BY <2>1, <2>2 DEF UpToDate
<1> QED  BY <1>6, <1>7, <1>8 DEF Keeps

\* A step that leaves the queue and the drains as they are.
LEMMA QuietKeeps ==
    ASSUME DistillShape, UNCHANGED <<record, dead, drain, owed, team>>, clock' \in Nat
    PROVE  Keeps
<1>1. DistillShape'  BY DEF DistillShape, Job
<1>2. JobKept => JobKept'  BY DEF JobKept, At, Job
<1>3. UpToDate => UpToDate'
  <2>1. RecordsTrue => RecordsTrue'  BY DEF RecordsTrue
  <2>2. \A w \in Workers : Failed(w)' = Failed(w)  BY DEF Failed
  <2>3. \A w \in Workers : ReadingsTrue(w) => ReadingsTrue(w)'  BY <2>2 DEF ReadingsTrue, Job
  <2> QED  BY <2>1, <2>3 DEF UpToDate
<1> QED  BY <1>1, <1>2, <1>3 DEF Keeps

\* A transcript changes, or time passes.
LEMMA WorldKeeps ==
    ASSUME DistillShape, (\E j \in Jobs : Change(j)) \/ Tick
    PROVE  Keeps
<1>1. UNCHANGED <<record, dead, drain, owed, team>>
  BY DEF Change, Tick, journal
<1>2. clock' \in Nat  BY DEF DistillShape, Change, Tick
<1> QED  BY <1>1, <1>2, QuietKeeps

-----------------------------------------------------------------------------
(* The steps that look for a job.                                          *)

\* A step of drain w to x that leaves records and accounts as they are.
LEMMA DrainOnly ==
    ASSUME DistillShape, NEW w \in Workers, NEW x \in Drains, drain' = [drain EXCEPT ![w] = x],
           UNCHANGED <<record, dead, owed, clock, team>>,
           x.pc \in Holding => x.job \in Jobs /\ x.seen \in Readable,
           ~CrashInRewrite /\ JobKept =>
              (drain[w].pc = "rewrite" =>
                 record[drain[w].job].is = "ready" \/ (x.pc = "rewrite" /\ x.job = drain[w].job)),
           w \in team.drains \/ (Alone /\ UpToDate => w \in team.drains),
           Alone /\ UpToDate => ReadingsTrue(w)'
    PROVE  Keeps
<1>1. DistillShape'
  <2>1. record' \in [Jobs -> Readable \cup {Absent, Torn}] /\ dead' \in SUBSET Jobs
        /\ owed' \in [Jobs -> Owed] /\ (~CrashInRewrite => \A j \in Jobs : record'[j] # Torn)
    BY DEF DistillShape
  <2> QED  BY <2>1, ShapeFrom
<1>2. ASSUME ~CrashInRewrite, JobKept  PROVE JobKept'
  <2>1. \A j \in Jobs :
              \/ owed'[j].is # "extraction" \/ record'[j].is = "ready" \/ j \in dead'
              \/ x.pc = "rewrite" /\ x.job = j
              \/ /\ owed'[j] = owed[j] /\ record'[j] = record[j]
                 /\ ~(drain[w].pc = "rewrite" /\ drain[w].job = j)
    BY <1>2
  <2> QED  BY <1>2, <2>1, KeptFrom
<1>3. ASSUME Alone, UpToDate  PROVE UpToDate'
  <2>1. RecordsTrue'  BY <1>3 DEF UpToDate, RecordsTrue
  <2> QED  BY <1>3, <2>1, TurnFrom
<1> QED  BY <1>1, <1>2, <1>3 DEF Keeps

\* In turn, a drain that runs is one of the team.
LEMMA Member ==
    ASSUME UpToDate, NEW w \in Workers, drain[w].pc # "off"
    PROVE  w \in team.drains
BY DEF UpToDate, ReadingsTrue

\* A drain starts.
LEMMA StartKeeps ==
    ASSUME DistillShape, NEW w \in Workers, Start(w)
    PROVE  Keeps
<1> DEFINE x == [Idle EXCEPT !.pc = "list", !.now = clock, !.left = team.max_jobs]
<1>1. /\ w \in team.drains /\ drain[w].pc = "off" /\ drain' = [drain EXCEPT ![w] = x]
      /\ UNCHANGED <<record, dead, owed, clock, team>>
  BY DEF Start, journal, world, At
<1>2. team.max_jobs \in Nat /\ clock \in Nat  BY DistillAssumption DEF DistillShape
<1>3. x \in Drains
  <2>1. "list" \in DrainSteps /\ team.max_jobs \in Int  BY <1>2 DEF DrainSteps
  <2> QED  BY <1>2, <2>1, IdleTyped DEF Drains
<1>4. x.pc = "list"  BY DEF Idle
<1> HIDE DEF x
<1>5. drain'[w].pc = "list"  BY <1>1, <1>3, <1>4, OneDrain DEF DistillShape
<1>6. ReadingsTrue(w)'  BY <1>1, <1>5, NothingRead
<1> QED  BY <1>1, <1>3, <1>4, <1>6, DrainOnly DEF Holding

\* A drain ends, and rewrites nothing.
LEMMA EndKeeps ==
    ASSUME DistillShape, NEW w \in Workers, drain' = [drain EXCEPT ![w] = Idle],
           UNCHANGED <<record, dead, owed, clock, team>>, drain[w].pc # "off",
           ~CrashInRewrite /\ JobKept =>
              (drain[w].pc = "rewrite" => record[drain[w].job].is = "ready")
    PROVE  Keeps
<1>1. drain'[w].pc = "off"  BY IdleTyped, OneDrain DEF DistillShape
<1>2. ReadingsTrue(w)'  BY <1>1, NothingRead
<1> QED  BY <1>2, IdleTyped, Member, DrainOnly DEF Holding

\* What a drain lists is a queue, without a job twice.
LEMMA Listed ==
    ASSUME DistillShape, NEW run \in SUBSET Jobs, \A j \in run : record[j] \in Readable,
           NEW q \in SetToSeqs(run), NEW entries,
           entries = [i \in DOMAIN q |-> [job |-> q[i], rec |-> record[q[i]]]]
    PROVE  /\ entries \in Seq(Entries)
           /\ \A i \in 1..Len(entries) : entries[i].job \in run /\ entries[i].rec = record[entries[i].job]
           /\ \A i, k \in 1..Len(entries) : i # k => entries[i].job # entries[k].job
<1> DEFINE n == Cardinality(run)
<1>1. n \in Nat  BY DistillAssumption, FS_Subset, FS_CardinalityType
<1>2. /\ q \in [1..n -> run] /\ \A i, k \in 1..n : i # k => q[i] # q[k]
  BY DEF SetToSeqs
<1> HIDE DEF n
<1>3. DOMAIN q = 1..n  BY <1>2
<1>4. entries = [i \in 1..n |-> [job |-> q[i], rec |-> record[q[i]]]]  BY <1>3
<1>5. \A i \in 1..n : [job |-> q[i], rec |-> record[q[i]]] \in Entries
  BY <1>2 DEF Entries
<1>6. entries \in [1..n -> Entries]  BY <1>4, <1>5
<1>7. entries \in Seq(Entries) /\ Len(entries) = n  BY <1>1, <1>6
<1>8. \A i \in 1..n : entries[i].job = q[i] /\ entries[i].rec = record[q[i]]  BY <1>4
<1> QED  BY <1>2, <1>7, <1>8

\* The queue is listed, and what is over is retired.
LEMMA ListKeeps ==
    ASSUME DistillShape, NEW w \in Workers, List(w)
    PROVE  Keeps
<1> DEFINE now  == drain[w].now
           here == {j \in Jobs : record[j].is = "ready"}
           done == {j \in here : Retired(record[j], now)}
           run  == {j \in here \ done : ~Waiting(record[j], now)}
<1>1. /\ drain[w].pc = "list" /\ UNCHANGED <<owed, clock, team>>
      /\ \/ drain' = [drain EXCEPT ![w] = Idle] /\ UNCHANGED <<record, dead>>
         \/ /\ DeadLetter(done)
            /\ \E q \in SetToSeqs(run) :
                  drain' = [drain EXCEPT
                      ![w].pc = "try",
                      ![w].queue = [i \in DOMAIN q |-> [job |-> q[i], rec |-> record[q[i]]]]]
  BY DEF List, world, At
<1>2. CASE drain' = [drain EXCEPT ![w] = Idle] /\ UNCHANGED <<record, dead>>
  BY <1>1, <1>2, EndKeeps
<1>3. ASSUME DeadLetter(done), NEW q \in SetToSeqs(run),
             drain' = [drain EXCEPT
                 ![w].pc = "try",
                 ![w].queue = [i \in DOMAIN q |-> [job |-> q[i], rec |-> record[q[i]]]]]
      PROVE  Keeps
  <2> DEFINE es == [i \in DOMAIN q |-> [job |-> q[i], rec |-> record[q[i]]]]
             x == [drain[w] EXCEPT !.pc = "try", !.queue = es]
  <2>1. /\ run \in SUBSET Jobs /\ done \in SUBSET Jobs
        /\ \A j \in run : /\ record[j] \in Readable /\ j \notin done
                          /\ ~Exhausted(record[j]) /\ ~Waiting(record[j], drain[w].now)
    BY Parts DEF Retired
  <2>2. /\ dead' = dead \cup done
        /\ record' = [j \in Jobs |-> IF j \in done THEN Absent ELSE record[j]]
    BY <1>3 DEF DeadLetter
  <2> HIDE DEF run, done
  <2>10. q \in SetToSeqs(run) /\ \A j \in run : record[j] \in Readable  BY <1>3, <2>1
  <2>3. /\ es \in Seq(Entries)
        /\ \A i \in 1..Len(es) : es[i].job \in run /\ es[i].rec = record[es[i].job]
        /\ \A i, k \in 1..Len(es) : i # k => es[i].job # es[k].job
    BY <2>1, <2>10, Listed
  <2>4. drain' = [drain EXCEPT ![w] = x] /\ drain[w] \in Drains
    BY <1>3 DEF DistillShape
  <2> HIDE DEF es
  <2>5. x \in Drains
    <3>1. "try" \in DrainSteps  BY DEF DrainSteps
    <3> QED  BY <2>3, <2>4, <3>1 DEF Drains
  <2>6. x.pc = "try" /\ x.queue = es /\ x.now = drain[w].now  BY <2>4 DEF Drains
  <2> HIDE DEF x
  <2>7. DistillShape'
    <3>1. record' \in [Jobs -> Readable \cup {Absent, Torn}]
          /\ (~CrashInRewrite => \A j \in Jobs : record'[j] # Torn)
      BY <2>2, Parts DEF DistillShape
    <3>2. dead' \in SUBSET Jobs /\ owed' \in [Jobs -> Owed]  BY <1>1, <2>1, <2>2 DEF DistillShape
    <3> QED  BY <1>1, <2>4, <2>5, <2>6, <3>1, <3>2, ShapeFrom DEF Holding
  <2>8. ASSUME JobKept  PROVE JobKept'
    <3>1. \A j \in Jobs :
              \/ owed'[j].is # "extraction" \/ record'[j].is = "ready" \/ j \in dead'
              \/ x.pc = "rewrite" /\ x.job = j
              \/ /\ owed'[j] = owed[j] /\ record'[j] = record[j]
                 /\ ~(drain[w].pc = "rewrite" /\ drain[w].job = j)
      BY <1>1, <2>2
    <3>2. dead \subseteq dead'  BY <2>2
    <3> QED  BY <2>4, <2>5, <2>8, <3>1, <3>2, KeptFrom
  <2>9. ASSUME Alone, UpToDate  PROVE UpToDate'
    <3>1. RecordsTrue'
      <4>1. \A j \in Jobs : record'[j].is = "ready" => record[j].is = "ready" /\ record'[j] = record[j]
        BY <2>2 DEF Absent
      <4> QED  BY <1>1, <2>9, <4>1 DEF UpToDate, RecordsTrue
    <3>2. drain'[w] = x  BY <2>4, <2>5, OneDrain DEF DistillShape
    <3>3. \A i \in 1..Len(es) : /\ record'[es[i].job] = es[i].rec
                                /\ ~Exhausted(es[i].rec) /\ ~Waiting(es[i].rec, drain[w].now)
      <4> TAKE i \in 1..Len(es)
      <4>1. es[i].job \in run /\ es[i].rec = record[es[i].job]  BY <2>3
      <4> QED  BY <2>1, <2>2, <4>1
    <3>4. w \in team.drains /\ team' = team  BY <1>1, <2>9, Member
    <3>5. ReadingsTrue(w)'
      BY <2>3, <2>6, <3>2, <3>3, <3>4 DEF ReadingsTrue, Exhausted, Waiting, Holding
    <3> QED  BY <1>1, <2>4, <2>5, <2>9, <3>1, <3>4, <3>5, TurnFrom
  <2> QED  BY <2>7, <2>8, <2>9 DEF Keeps
<1> QED  BY <1>1, <1>2, <1>3

\* The rest of a queue.
LEMMA RestOf ==
    ASSUME NEW S, NEW q \in Seq(S), q # <<>>
    PROVE  /\ Head(q) \in S /\ Head(q) = q[1] /\ Tail(q) \in Seq(S) /\ 1 \in 1..Len(q)
           /\ Len(Tail(q)) = Len(q) - 1
           /\ \A i \in 1..Len(Tail(q)) : Tail(q)[i] = q[i + 1] /\ i + 1 \in 1..Len(q) /\ i + 1 # 1
OBVIOUS

\* The first of the queue is passed over.
LEMMA PassKeeps ==
    ASSUME DistillShape, NEW w \in Workers, drain[w].pc = "try", drain[w].queue # <<>>,
           drain' = [drain EXCEPT ![w].queue = Tail(@)],
           UNCHANGED <<owed, clock, team>>,
           \/ UNCHANGED <<record, dead>>
           \/ DeadLetter({Head(drain[w].queue).job})
    PROVE  Keeps
<1> DEFINE q == drain[w].queue
           rest == Tail(q)
           x == [drain[w] EXCEPT !.queue = rest]
<1>1. drain[w] \in Drains /\ q \in Seq(Entries) /\ q # <<>>
  BY Parts DEF Drains
<1>2. drain' = [drain EXCEPT ![w] = x]  BY DEF DistillShape
<1> HIDE DEF q
<1>3. /\ Head(q) \in Entries /\ Head(q) = q[1] /\ rest \in Seq(Entries) /\ 1 \in 1..Len(q)
      /\ Len(rest) = Len(q) - 1
      /\ \A i \in 1..Len(rest) : rest[i] = q[i + 1] /\ i + 1 \in 1..Len(q) /\ i + 1 # 1
  BY <1>1, RestOf
<1> HIDE DEF rest
<1>4. x \in Drains /\ x.pc = "try" /\ x.queue = rest /\ x.now = drain[w].now
  BY <1>1, <1>3 DEF Drains
<1> HIDE DEF x
<1>5. Head(q).job \in Jobs  BY <1>3 DEF Entries
<1>6. /\ dead \subseteq dead' /\ dead' \in SUBSET Jobs
      /\ \A j \in Jobs : \/ record'[j] = record[j]
                         \/ record'[j] = Absent /\ j \in dead' /\ j = Head(q).job
      /\ record' \in [Jobs -> Readable \cup {Absent, Torn}]
  BY <1>5, Parts DEF DeadLetter, DistillShape, q
<1>7. DistillShape'
  <2>1. ~CrashInRewrite => \A j \in Jobs : record'[j] # Torn
    BY <1>6, Parts DEF DistillShape
  <2>2. owed' \in [Jobs -> Owed]  BY DEF DistillShape
  <2> QED  BY <1>2, <1>4, <1>6, <2>1, <2>2, ShapeFrom DEF Holding
<1>8. ASSUME JobKept  PROVE JobKept'
  <2>1. \A j \in Jobs :
            \/ owed'[j].is # "extraction" \/ record'[j].is = "ready" \/ j \in dead'
            \/ x.pc = "rewrite" /\ x.job = j
            \/ /\ owed'[j] = owed[j] /\ record'[j] = record[j]
               /\ ~(drain[w].pc = "rewrite" /\ drain[w].job = j)
    BY <1>6
  <2> QED  BY <1>2, <1>4, <1>6, <1>8, <2>1, KeptFrom
<1>9. ASSUME Alone, UpToDate  PROVE UpToDate'
  <2>1. RecordsTrue'
    <3>1. \A j \in Jobs : record'[j].is = "ready" => record'[j] = record[j]
      BY <1>6 DEF Absent
    <3> QED  BY <1>9, <3>1 DEF UpToDate, RecordsTrue
  <2>2. drain'[w] = x  BY <1>2, <1>4, OneDrain DEF DistillShape
  <2>3. /\ \A i \in 1..Len(q) : /\ record[q[i].job] = q[i].rec /\ ~Exhausted(q[i].rec)
                                /\ ~Waiting(q[i].rec, drain[w].now)
        /\ \A i, k \in 1..Len(q) : i # k => q[i].job # q[k].job
    BY <1>9 DEF UpToDate, ReadingsTrue, q
  <2>4. \A i \in 1..Len(rest) :
           /\ record'[rest[i].job] = rest[i].rec /\ ~Exhausted(rest[i].rec)
           /\ ~Waiting(rest[i].rec, drain[w].now)
    <3> TAKE i \in 1..Len(rest)
    <3>1. rest[i] = q[i + 1] /\ i + 1 \in 1..Len(q) /\ i + 1 # 1  BY <1>3
    <3>2. q[i + 1].job # Head(q).job  BY <1>3, <2>3, <3>1
    <3>3. q[i + 1] \in Entries  BY <1>1, <3>1
    <3>4. q[i + 1].job \in Jobs  BY <3>3 DEF Entries
    <3>5. record'[q[i + 1].job] = record[q[i + 1].job]  BY <1>6, <3>2, <3>4
    <3> QED  BY <2>3, <3>1, <3>5
  <2>5. \A i, k \in 1..Len(rest) : i # k => rest[i].job # rest[k].job
    <3> TAKE i, k \in 1..Len(rest)
    <3>1. rest[i] = q[i + 1] /\ i + 1 \in 1..Len(q) /\ rest[k] = q[k + 1] /\ k + 1 \in 1..Len(q)
      BY <1>3
    <3>2. i # k => i + 1 # k + 1  BY <1>1
    <3> QED  BY <2>3, <3>1, <3>2
  <2>6. w \in team.drains /\ team' = team  BY <1>9, Member
  <2>7. ReadingsTrue(w)'
    <3>1. drain'[w].queue = rest /\ drain'[w].pc = "try" /\ drain'[w].now = drain[w].now
      BY <1>4, <2>2
    <3> QED  BY <2>4, <2>5, <2>6, <3>1 DEF ReadingsTrue, Exhausted, Waiting, Holding
  <2> QED  BY <1>2, <1>4, <1>9, <2>1, <2>6, <2>7, TurnFrom
<1> QED  BY <1>7, <1>8, <1>9 DEF Keeps

\* The first of the queue is claimed, if its transcript is still what it was.
LEMMA TryKeeps ==
    ASSUME DistillShape, NEW w \in Workers, Try(w)
    PROVE  Keeps
<1> DEFINE q == drain[w].queue
           e == Head(q)
           x == [drain[w] EXCEPT !.pc = "extract", !.job = e.job, !.seen = e.rec, !.queue = <<>>]
<1>1. /\ drain[w].pc = "try" /\ q # <<>> /\ UNCHANGED <<owed, clock, team>>
      /\ \/ /\ drain' = [drain EXCEPT ![w].pc = "extract", ![w].job = e.job,
                                      ![w].seen = e.rec, ![w].queue = <<>>]
            /\ UNCHANGED <<record, dead>>
         \/ DeadLetter({e.job}) /\ drain' = [drain EXCEPT ![w].queue = Tail(@)]
  BY DEF Try, At, world
<1>2. CASE DeadLetter({e.job}) /\ drain' = [drain EXCEPT ![w].queue = Tail(@)]
  BY <1>1, <1>2, PassKeeps
<1>3. CASE /\ drain' = [drain EXCEPT ![w].pc = "extract", ![w].job = e.job,
                                     ![w].seen = e.rec, ![w].queue = <<>>]
           /\ UNCHANGED <<record, dead>>
  <2>1. drain' = [drain EXCEPT ![w] = x]  BY <1>3 DEF DistillShape
  <2>2. drain[w] \in Drains /\ q \in Seq(Entries)  BY Parts DEF Drains
  <2> HIDE DEF q
  <2>3. e \in Entries /\ e = q[1] /\ 1 \in 1..Len(q)  BY <1>1, <2>2, RestOf
  <2> HIDE DEF e
  <2>4. e.job \in Jobs /\ e.rec \in Readable  BY <2>3 DEF Entries
  <2>5. x \in Drains /\ x.pc = "extract" /\ x.job = e.job /\ x.seen = e.rec
    <3>1. "extract" \in DrainSteps  BY DEF DrainSteps, Holding
    <3>2. <<>> \in Seq(Entries)  OBVIOUS
    <3> QED  BY <2>2, <2>4, <3>1, <3>2 DEF Drains
  <2> HIDE DEF x
  <2>6. Alone /\ UpToDate => ReadingsTrue(w)'
    <3> SUFFICES ASSUME UpToDate PROVE ReadingsTrue(w)'  OBVIOUS
    <3>1. record[e.job] = e.rec  BY <1>1, <2>3 DEF UpToDate, ReadingsTrue, q
    <3>2. drain'[w] = x  BY <2>1, <2>5, OneDrain DEF DistillShape
    <3>3. w \in team'.drains  BY <1>1, Member
    <3> QED  BY <1>3, <2>5, <3>1, <3>2, <3>3 DEF ReadingsTrue, Job
  <2> QED  BY <1>1, <1>3, <2>1, <2>4, <2>5, <2>6, Member, DrainOnly
<1> QED  BY <1>1, <1>2, <1>3

\* A queue is given up, and so is one that holds nothing.
LEMMA WaitKeeps ==
    ASSUME DistillShape, NEW w \in Workers, GiveUp(w) \/ NothingRunnable(w)
    PROVE  Keeps
<1>1. CASE GiveUp(w)
  <2>1. /\ drain[w].pc = "try" /\ drain[w].queue # <<>> /\ drain' = [drain EXCEPT ![w].queue = Tail(@)]
        /\ UNCHANGED <<owed, clock, team, record, dead>>
    BY <1>1 DEF GiveUp, At, world, journal
  <2> QED  BY <2>1, PassKeeps
<1>2. CASE NothingRunnable(w)
  BY <1>2, EndKeeps DEF NothingRunnable, At, world, journal
<1> QED  BY <1>1, <1>2

-----------------------------------------------------------------------------
(* The steps that deal with a job.                                         *)

\* What holds while a drain has a job in hand.
LEMMA InHand ==
    ASSUME DistillShape, NEW w \in Workers, drain[w].pc \in Holding
    PROVE  /\ drain[w] \in Drains /\ drain[w].job \in Jobs /\ drain[w].seen \in Readable
           /\ UpToDate => w \in team.drains
           /\ UpToDate /\ drain[w].pc # "rewrite" => record[drain[w].job] = drain[w].seen
<1>1. drain[w] \in Drains /\ drain[w].job \in Jobs /\ drain[w].seen \in Readable
  BY Parts DEF DistillShape, Job
<1>2. UpToDate => w \in team.drains  BY Member DEF Holding
<1>3. UpToDate /\ drain[w].pc # "rewrite" => record[drain[w].job] = drain[w].seen
  BY DEF UpToDate, ReadingsTrue, Job
<1> QED  BY <1>1, <1>2, <1>3

\* The job in hand goes on to its next step.
LEMMA GoOn ==
    ASSUME DistillShape, NEW w \in Workers, drain[w].pc \in Holding \ {"rewrite"},
           NEW x \in Drains, drain' = [drain EXCEPT ![w] = x],
           x.pc \in Holding \ {"rewrite"}, x.job = drain[w].job, x.seen = drain[w].seen,
           UNCHANGED <<record, dead, owed, clock, team>>
    PROVE  Keeps
<1>1. /\ drain[w] \in Drains /\ drain[w].job \in Jobs /\ drain[w].seen \in Readable
      /\ UpToDate => w \in team.drains /\ record[drain[w].job] = drain[w].seen
  BY InHand
<1>2. drain'[w] = x  BY OneDrain DEF DistillShape
<1>3. Alone /\ UpToDate => ReadingsTrue(w)'
  BY <1>1, <1>2 DEF ReadingsTrue, Job, Holding
<1> QED  BY <1>1, <1>3, DrainOnly DEF Holding

\* The next step of a job in hand, of which nothing else changes.
LEMMA Onwards ==
    ASSUME DistillShape, NEW w \in Workers, drain[w].pc \in Holding \ {"rewrite"},
           NEW pc \in Holding \ {"rewrite"}, drain' = [drain EXCEPT ![w].pc = pc],
           UNCHANGED <<record, dead, owed, clock, team>>
    PROVE  Keeps
<1> DEFINE x == [drain[w] EXCEPT !.pc = pc]
<1>1. drain[w] \in Drains /\ pc \in DrainSteps  BY Parts DEF DrainSteps
<1>2. x \in Drains /\ x.pc = pc /\ x.job = drain[w].job /\ x.seen = drain[w].seen
  BY <1>1 DEF Drains
<1>3. drain' = [drain EXCEPT ![w] = x]  BY DEF DistillShape
<1> HIDE DEF x
<1> QED  BY <1>2, <1>3, GoOn

\* The provider answers or fails.
LEMMA ExtractKeeps ==
    ASSUME DistillShape, NEW w \in Workers, Extract(w)
    PROVE  Keeps
<1>1. /\ drain[w].pc = "extract" /\ UNCHANGED <<record, dead, owed, clock, team>>
      /\ \/ drain' = [drain EXCEPT ![w].pc = "commit"]
         \/ \E c \in Classes : drain' = [drain EXCEPT ![w].pc = "remove", ![w].class = c]
  BY DEF Extract, At, world, journal, Classes
<1>2. drain[w] \in Drains /\ drain[w].class \in Classes  BY Parts DEF Drains
<1>3. CASE drain' = [drain EXCEPT ![w].pc = "commit"]
  BY <1>1, <1>3, Onwards DEF Holding
<1>4. ASSUME NEW c \in Classes, drain' = [drain EXCEPT ![w].pc = "remove", ![w].class = c]
      PROVE  Keeps
  <2> DEFINE x == [drain[w] EXCEPT !.pc = "remove", !.class = c]
  <2>1. drain' = [drain EXCEPT ![w] = x]  BY <1>4 DEF DistillShape
  <2>2. "remove" \in DrainSteps /\ "remove" \in Holding \ {"rewrite"}  BY DEF DrainSteps, Holding
  <2>3. x \in Drains /\ x.pc = "remove" /\ x.job = drain[w].job /\ x.seen = drain[w].seen
    BY <1>2, <1>4, <2>2 DEF Drains
  <2>4. drain[w].pc \in Holding \ {"rewrite"}  BY <1>1 DEF Holding
  <2> HIDE DEF x
  <2> QED  BY <1>1, <2>1, <2>2, <2>3, <2>4, GoOn
<1> QED  BY <1>1, <1>3, <1>4

\* Facts and candidates are committed, or a commit fails.
LEMMA CommitKeeps ==
    ASSUME DistillShape, NEW w \in Workers, Commit(w) \/ Queue(w)
    PROVE  Keeps
<1>1. /\ drain[w].pc \in {"commit", "wiki"} /\ UNCHANGED <<record, dead, owed, clock, team>>
      /\ \/ \E pc \in {"wiki", "complete"} : drain' = [drain EXCEPT ![w].pc = pc]
         \/ drain' = [drain EXCEPT ![w] = Idle]
  BY DEF Commit, Queue, At, world
<1>2. CASE drain' = [drain EXCEPT ![w] = Idle]  BY <1>1, <1>2, EndKeeps
<1>3. ASSUME NEW pc \in {"wiki", "complete"}, drain' = [drain EXCEPT ![w].pc = pc]  PROVE Keeps
  BY <1>1, <1>3, Onwards DEF Holding
<1> QED  BY <1>1, <1>2, <1>3

\* A failure is counted, and the record withdrawn.
LEMMA WithdrawKeeps ==
    ASSUME DistillShape, NEW w \in Workers, Withdraw(w)
    PROVE  Keeps
<1> DEFINE j == drain[w].job
           n == owed[j].fails + 1
           t == drain[w].now + RetryDelay(drain[w].class, n)
           x == [drain[w] EXCEPT !.pc = "rewrite"]
<1>1. /\ drain[w].pc = "remove" /\ record' = [record EXCEPT ![j] = Absent]
      /\ owed' = [owed EXCEPT ![j].fails = n, ![j].retry = t]
      /\ drain' = [drain EXCEPT ![w].pc = "rewrite"]
      /\ UNCHANGED <<dead, clock, team>>
  BY DEF Withdraw, At, Job, world
<1>2. /\ drain[w] \in Drains /\ j \in Jobs /\ drain[w].seen \in Readable
      /\ UpToDate => w \in team.drains /\ record[j] = drain[w].seen
  BY <1>1, InHand DEF Holding
<1>3. owed \in [Jobs -> Owed] /\ owed[j] \in Owed /\ owed[j].fails \in Nat
  BY <1>2, Parts DEF DistillShape, Owed
<1>4. n \in Nat /\ n \in Nat \ {0}  BY <1>3
<1>5. t \in Int  BY <1>2, <1>4, FailedTyped
<1>6. n = owed[j].fails + 1  OBVIOUS
<1>7. t = drain[w].now + RetryDelay(drain[w].class, n)  OBVIOUS
<1> HIDE DEF t, n
<1>8. /\ owed' \in [Jobs -> Owed] /\ \A i \in Jobs \ {j} : owed'[i] = owed[i]
      /\ owed'[j].is = owed[j].is /\ owed'[j].fails = n /\ owed'[j].retry = t
  BY <1>1, <1>2, <1>3, <1>4, <1>5 DEF Owed
<1>9. /\ record'[j] = Absent /\ \A i \in Jobs \ {j} : record'[i] = record[i]
      /\ record' \in [Jobs -> Readable \cup {Absent, Torn}]
  BY <1>1, <1>2 DEF DistillShape
<1>10. drain' = [drain EXCEPT ![w] = x]  BY <1>1 DEF DistillShape
<1>11. /\ x \in Drains /\ x.pc = "rewrite" /\ x.job = j /\ x.seen = drain[w].seen
       /\ x.now = drain[w].now /\ x.class = drain[w].class
  <2>1. "rewrite" \in DrainSteps  BY DEF DrainSteps, Holding
  <2> QED  BY <1>2, <2>1 DEF Drains
<1> HIDE DEF x
<1>12. DistillShape'
  <2>1. ~CrashInRewrite => \A i \in Jobs : record'[i] # Torn
    BY <1>9, Parts DEF DistillShape
  <2>2. dead' \in SUBSET Jobs  BY <1>1 DEF DistillShape
  <2>3. x.job \in Jobs /\ x.seen \in Readable  BY <1>2, <1>11
  <2>4. clock' = clock /\ team' = team  BY <1>1
  <2> QED  BY <1>8, <1>9, <1>10, <1>11, <2>1, <2>2, <2>3, <2>4, ShapeFrom
<1>13. ASSUME JobKept  PROVE JobKept'
  <2>1. \A i \in Jobs :
            \/ owed'[i].is # "extraction" \/ record'[i].is = "ready" \/ i \in dead'
            \/ x.pc = "rewrite" /\ x.job = i
            \/ /\ owed'[i] = owed[i] /\ record'[i] = record[i]
               /\ ~(drain[w].pc = "rewrite" /\ drain[w].job = i)
    BY <1>1, <1>8, <1>9, <1>11
  <2>2. dead \subseteq dead'  BY <1>1
  <2> QED  BY <1>10, <1>11, <1>13, <2>1, <2>2, KeptFrom
<1>14. ASSUME Alone, UpToDate  PROVE UpToDate'
  <2>1. RecordsTrue'
    <3>1. \A i \in Jobs : record'[i].is = "ready" => i # j /\ record'[i] = record[i] /\ owed'[i] = owed[i]
      BY <1>8, <1>9 DEF Absent
    <3> QED  BY <1>14, <3>1 DEF UpToDate, RecordsTrue
  <2>2. drain'[w] = x  BY <1>10, <1>11, OneDrain DEF DistillShape
  <2>3. owed[j].is = "extraction" /\ owed[j].fails = drain[w].seen.fails
    <3>1. record[j].is = "ready" /\ record[j] = drain[w].seen
      BY <1>2, <1>14 DEF Readable
    <3> QED  BY <1>2, <1>14, <3>1 DEF UpToDate, RecordsTrue
  <2>4. Failed(w)' = Failed(w)  BY <1>11, <2>2 DEF Failed
  <2>5. Failed(w).fails = n /\ Failed(w).retry = t
    BY <1>2, <1>6, <1>7, <2>3, FailedTyped
  <2>6. w \in team.drains /\ team' = team  BY <1>1, <1>2, <1>14
  <2>7. ReadingsTrue(w)'
    BY <1>8, <1>11, <2>2, <2>3, <2>4, <2>5, <2>6 DEF ReadingsTrue, Job
  <2> QED  BY <1>10, <1>11, <1>14, <2>1, <2>6, <2>7, TurnFrom
<1> QED  BY <1>12, <1>13, <1>14 DEF Keeps

\* The record of the failure is written, or the job was enqueued meanwhile.
LEMMA RewriteKeeps ==
    ASSUME DistillShape, NEW w \in Workers, Rewrite(w)
    PROVE  Keeps
<1> DEFINE j == drain[w].job
           f == Failed(w)
           x == NextJob(w)
<1>1. /\ drain[w].pc = "rewrite" /\ UNCHANGED <<dead, owed, clock, team>>
      /\ IF record[j] # Absent
         THEN drain' = [drain EXCEPT ![w] = Idle] /\ UNCHANGED record
         ELSE record' = [record EXCEPT ![j] = f] /\ drain' = [drain EXCEPT ![w] = x]
  BY DEF Rewrite, At, Job, world
<1>2. /\ drain[w] \in Drains /\ j \in Jobs /\ drain[w].seen \in Readable
      /\ UpToDate => w \in team.drains
  BY <1>1, InHand DEF Holding
<1>3. CASE record[j] # Absent
  <2>1. ~CrashInRewrite => record[j].is = "ready"
    BY <1>2, <1>3, Parts DEF DistillShape
  <2> QED  BY <1>1, <1>3, <2>1, EndKeeps
<1>4. CASE record[j] = Absent
  <2>1. f \in Readable /\ f.is = "ready"  BY <1>2, FailedTyped DEF Readable
  <2>2. /\ x \in Drains /\ x.pc \in {"off", "list"}  BY <1>2, NextJobTyped
  <2> HIDE DEF f, x
  <2>3. record' = [record EXCEPT ![j] = f] /\ drain' = [drain EXCEPT ![w] = x]  BY <1>1, <1>4
  <2>4. /\ record'[j] = f /\ \A i \in Jobs \ {j} : record'[i] = record[i]
        /\ record' \in [Jobs -> Readable \cup {Absent, Torn}]
    BY <1>2, <2>1, <2>3 DEF DistillShape
  <2>5. DistillShape'
    <3>1. ~CrashInRewrite => \A i \in Jobs : record'[i] # Torn
      BY <2>1, <2>4 DEF DistillShape, Torn
    <3>2. dead' \in SUBSET Jobs /\ owed' \in [Jobs -> Owed]  BY <1>1 DEF DistillShape
    <3>3. x.pc \notin Holding  BY <2>2 DEF Holding
    <3> QED  BY <1>1, <2>2, <2>3, <2>4, <3>1, <3>2, <3>3, ShapeFrom
  <2>6. ASSUME JobKept  PROVE JobKept'
    <3>1. \A i \in Jobs :
              \/ owed'[i].is # "extraction" \/ record'[i].is = "ready" \/ i \in dead'
              \/ x.pc = "rewrite" /\ x.job = i
              \/ /\ owed'[i] = owed[i] /\ record'[i] = record[i]
                 /\ ~(drain[w].pc = "rewrite" /\ drain[w].job = i)
      BY <1>1, <2>1, <2>4
    <3>2. dead \subseteq dead'  BY <1>1
    <3> QED  BY <2>2, <2>3, <2>6, <3>1, <3>2, KeptFrom
  <2>7. ASSUME Alone, UpToDate  PROVE UpToDate'
    <3>1. owed[j].is = "extraction" /\ owed[j].fails = f.fails /\ owed[j].retry = f.retry
      BY <1>1, <1>2, <1>4, <2>7 DEF UpToDate, ReadingsTrue, Job, f
    <3>2. RecordsTrue'
      BY <1>1, <2>1, <2>4, <2>7, <3>1 DEF UpToDate, RecordsTrue
    <3>3. drain'[w] = x  BY <2>2, <2>3, OneDrain DEF DistillShape
    <3>4. w \in team.drains /\ team' = team  BY <1>1, <1>2, <2>7
    <3>5. ReadingsTrue(w)'  BY <2>2, <3>3, <3>4, NothingRead
    <3> QED  BY <2>2, <2>3, <2>7, <3>2, <3>4, <3>5, TurnFrom
  <2> QED  BY <2>5, <2>6, <2>7 DEF Keeps
<1> QED  BY <1>3, <1>4

\* The job is done and its record removed.
LEMMA CompleteKeeps ==
    ASSUME DistillShape, NEW w \in Workers, Complete(w)
    PROVE  Keeps
<1> DEFINE j == drain[w].job
           x == NextJob(w)
<1>1. /\ drain[w].pc = "complete" /\ UNCHANGED <<dead, clock, team>>
      /\ record' = [record EXCEPT ![j] = Absent] /\ drain' = [drain EXCEPT ![w] = x]
      /\ owed' = [owed EXCEPT ![j].is = "nothing"]
  BY DEF Complete, At, Job, world
<1>2. drain[w] \in Drains /\ j \in Jobs /\ (UpToDate => w \in team.drains)
  BY <1>1, InHand DEF Holding
<1>3. x \in Drains /\ x.pc \in {"off", "list"}  BY <1>2, NextJobTyped
<1> HIDE DEF x
<1>4. /\ record'[j] = Absent /\ \A i \in Jobs \ {j} : record'[i] = record[i]
      /\ record' \in [Jobs -> Readable \cup {Absent, Torn}]
  BY <1>1, <1>2 DEF DistillShape
<1>5. /\ owed'[j].is = "nothing" /\ \A i \in Jobs \ {j} : owed'[i] = owed[i]
      /\ owed' \in [Jobs -> Owed]
  BY <1>1, <1>2 DEF DistillShape, Owed
<1>6. DistillShape'
  <2>1. ~CrashInRewrite => \A i \in Jobs : record'[i] # Torn
    BY <1>4, Parts DEF DistillShape
  <2>2. dead' \in SUBSET Jobs  BY <1>1 DEF DistillShape
  <2>3. x.pc \notin Holding  BY <1>3 DEF Holding
  <2> QED  BY <1>1, <1>3, <1>4, <1>5, <2>1, <2>2, <2>3, ShapeFrom
<1>7. ASSUME JobKept  PROVE JobKept'
  <2>1. \A i \in Jobs :
            \/ owed'[i].is # "extraction" \/ record'[i].is = "ready" \/ i \in dead'
            \/ x.pc = "rewrite" /\ x.job = i
            \/ /\ owed'[i] = owed[i] /\ record'[i] = record[i]
               /\ ~(drain[w].pc = "rewrite" /\ drain[w].job = i)
    BY <1>1, <1>4, <1>5
  <2>2. dead \subseteq dead'  BY <1>1
  <2> QED  BY <1>1, <1>3, <1>7, <2>1, <2>2, KeptFrom
<1>8. ASSUME Alone, UpToDate  PROVE UpToDate'
  <2>1. RecordsTrue'
    <3>1. \A i \in Jobs : record'[i].is = "ready" => i # j /\ record'[i] = record[i] /\ owed'[i] = owed[i]
      BY <1>4, <1>5 DEF Absent
    <3> QED  BY <1>8, <3>1 DEF UpToDate, RecordsTrue
  <2>2. drain'[w] = x  BY <1>1, <1>3, OneDrain DEF DistillShape
  <2>3. w \in team.drains /\ team' = team  BY <1>1, <1>2, <1>8
  <2>4. ReadingsTrue(w)'  BY <1>3, <2>2, <2>3, NothingRead
  <2> QED  BY <1>1, <1>3, <1>8, <2>1, <2>3, <2>4, TurnFrom
<1> QED  BY <1>6, <1>7, <1>8 DEF Keeps

\* A drain dies, within a rewrite or elsewhere.
LEMMA CrashKeeps ==
    ASSUME DistillShape, NEW w \in Workers, Crash(w)
    PROVE  Keeps
<1> DEFINE j == drain[w].job
<1>1. /\ drain[w].pc # "off" /\ (drain[w].pc = "rewrite" => CrashInRewrite)
      /\ drain' = [drain EXCEPT ![w] = Idle] /\ UNCHANGED <<dead, owed, clock, team>>
      /\ \/ UNCHANGED record
         \/ /\ drain[w].pc = "rewrite" /\ record[j] = Absent
            /\ record' = [record EXCEPT ![j] = Torn]
  BY DEF Crash, At, Job
<1>2. CASE UNCHANGED record
  BY <1>1, <1>2, EndKeeps
<1>3. CASE /\ drain[w].pc = "rewrite" /\ record[j] = Absent
           /\ record' = [record EXCEPT ![j] = Torn]
  <2>1. drain[w] \in Drains /\ j \in Jobs /\ (UpToDate => w \in team.drains)
    BY <1>3, InHand DEF Holding
  <2>2. CrashInRewrite  BY <1>1, <1>3
  <2>3. /\ record'[j] = Torn /\ \A i \in Jobs \ {j} : record'[i] = record[i]
        /\ record' \in [Jobs -> Readable \cup {Absent, Torn}]
    BY <1>3, <2>1 DEF DistillShape
  <2>4. Idle \in Drains /\ Idle.pc = "off"  BY IdleTyped
  <2>5. DistillShape'
    <3>1. dead' \in SUBSET Jobs /\ owed' \in [Jobs -> Owed]  BY <1>1 DEF DistillShape
    <3>2. Idle.pc \notin Holding  BY <2>4 DEF Holding
    <3> QED  BY <1>1, <2>2, <2>3, <2>4, <3>1, <3>2, ShapeFrom
  <2>6. ASSUME Alone, UpToDate  PROVE UpToDate'
    <3>1. RecordsTrue'
      <4>1. \A i \in Jobs : record'[i].is = "ready" => record'[i] = record[i]
        BY <2>3 DEF Torn
      <4> QED  BY <1>1, <2>6, <4>1 DEF UpToDate, RecordsTrue
    <3>2. drain'[w].pc = "off"  BY <1>1, <2>4, OneDrain DEF DistillShape
    <3>3. w \in team.drains /\ team' = team  BY <1>1, <2>1, <2>6
    <3>4. ReadingsTrue(w)'  BY <3>2, NothingRead
    <3> QED  BY <1>1, <2>4, <2>6, <3>1, <3>3, <3>4, TurnFrom
  <2> QED  BY <2>2, <2>5, <2>6 DEF Keeps
<1> QED  BY <1>1, <1>2, <1>3

-----------------------------------------------------------------------------
(* The theorems.                                                           *)

\* Every step keeps what the invariants say.
LEMMA DistillStep ==
    ASSUME DistillShape, [Next]_vars
    PROVE  Keeps
<1>1. ASSUME NEW j \in Jobs, Enqueue(j)  PROVE Keeps  BY <1>1, EnqueueKeeps
<1>2. ASSUME NEW j \in Jobs, Change(j)  PROVE Keeps  BY <1>2, WorldKeeps
<1>3. CASE Tick  BY <1>3, WorldKeeps
<1>4. ASSUME NEW w \in Workers, Start(w)  PROVE Keeps  BY <1>4, StartKeeps
<1>5. ASSUME NEW w \in Workers, Work(w)  PROVE Keeps
  BY <1>5, ListKeeps, TryKeeps, WaitKeeps, ExtractKeeps, WithdrawKeeps, RewriteKeeps,
     CommitKeeps, CompleteKeeps DEF Work
<1>6. ASSUME NEW w \in Workers, GiveUp(w)  PROVE Keeps  BY <1>6, WaitKeeps
<1>7. ASSUME NEW w \in Workers, Crash(w)  PROVE Keeps  BY <1>7, CrashKeeps
<1>8. CASE UNCHANGED vars
  <2>1. clock' \in Nat /\ UNCHANGED <<record, dead, drain, owed, team>>
    BY <1>8 DEF vars, DistillShape
  <2> QED  BY <2>1, QuietKeeps
<1> QED  BY <1>1, <1>2, <1>3, <1>4, <1>5, <1>6, <1>7, <1>8 DEF Next

\* The empty queue.
LEMMA DistillInit == Init => DistillShape /\ JobKept /\ UpToDate
<1> SUFFICES ASSUME Init PROVE DistillShape /\ JobKept /\ UpToDate  OBVIOUS
<1>1. /\ record = [j \in Jobs |-> Absent] /\ dead = {} /\ drain = [w \in Workers |-> Idle]
      /\ owed = [j \in Jobs |-> [is |-> "new", fails |-> 0, retry |-> 0]]
      /\ clock = 0 /\ team \in Teams
  BY DEF Init
<1>2. Absent.is = "absent" /\ Absent # Torn  BY Z3 DEF Absent, Torn
<1>3. [is |-> "new", fails |-> 0, retry |-> 0] \in Owed  BY DEF Owed
<1>4. \A w \in Workers : drain[w] = Idle /\ drain[w].pc = "off"  BY <1>1, IdleTyped
<1>5. \A w \in Workers : drain[w].pc \notin Holding  BY <1>4 DEF Holding
<1>6. DistillShape
  BY <1>1, <1>2, <1>3, <1>5, IdleTyped DEF DistillShape
<1>7. JobKept  BY <1>1 DEF JobKept
<1>8. UpToDate
  <2>1. RecordsTrue  BY <1>1, <1>2 DEF RecordsTrue
  <2>2. \A w \in Workers : ReadingsTrue(w)  BY <1>4, <1>5 DEF ReadingsTrue, Holding
  <2> QED  BY <2>1, <2>2 DEF UpToDate
<1> QED  BY <1>6, <1>7, <1>8

\* Where no drain dies between the two halves of a rewrite, a job that was
\* enqueued and not completed is in the journal, among the dead letters, or
\* about to be written by a live drain: however many drains overlap, fail, die
\* elsewhere and meet new requests for the same transcript.
THEOREM JobsAreKept == ~CrashInRewrite => (Spec => []JobKept)
<1>1. Init => KeptInv  BY DistillInit DEF KeptInv
<1>2. ~CrashInRewrite /\ KeptInv /\ [Next]_vars => KeptInv'
  BY DistillStep DEF KeptInv, Keeps
<1>3. KeptInv => JobKept  BY DEF KeptInv
<1>4. ASSUME ~CrashInRewrite  PROVE Spec => []JobKept
  <2>1. KeptInv /\ [Next]_vars => KeptInv'  BY <1>2, <1>4
  <2> QED  BY <1>1, <1>3, <2>1, PTL DEF Spec
<1> QED  BY <1>4

\* A drain that claims a job in its turn has read what is due.
LEMMA ClaimIsDue ==
    ASSUME TurnInv, [Next]_vars, NEW w \in Workers, Alone, Claims(w)
    PROVE  LET o == owed[Job(w)'] IN
           o.is = "extraction" /\ o.fails < MaxFailCount /\ o.retry <= drain[w].now
<1>1. drain[w].pc = "try" /\ drain'[w].pc = "extract" /\ UpToDate /\ DistillShape
  BY DEF Claims, At, TurnInv
<1>2. Try(w)
  <2>1. drain \in [Workers -> Drains] /\ drain[w] \in Drains  BY <1>1 DEF DistillShape
  <2>2. ASSUME NEW v \in Workers \ {w}, Start(v) \/ Work(v) \/ GiveUp(v) \/ Crash(v)
        PROVE  drain'[w] = drain[w]
    <3>1. Start(v) => drain'[w] = drain[w]  BY <2>1 DEF Start
    <3>2. List(v) => drain'[w] = drain[w]  BY <2>1 DEF List
    <3>3. Try(v) => drain'[w] = drain[w]  BY <2>1 DEF Try
    <3>4. NothingRunnable(v) => drain'[w] = drain[w]  BY <2>1 DEF NothingRunnable
    <3>5. Extract(v) => drain'[w] = drain[w]  BY <2>1 DEF Extract
    <3>6. Withdraw(v) => drain'[w] = drain[w]  BY <2>1 DEF Withdraw
    <3>7. Rewrite(v) => drain'[w] = drain[w]  BY <2>1 DEF Rewrite
    <3>8. Commit(v) => drain'[w] = drain[w]  BY <2>1 DEF Commit
    <3>9. Queue(v) => drain'[w] = drain[w]  BY <2>1 DEF Queue
    <3>10. Complete(v) => drain'[w] = drain[w]  BY <2>1 DEF Complete
    <3>11. GiveUp(v) => drain'[w] = drain[w]  BY <2>1 DEF GiveUp
    <3>12. Crash(v) => drain'[w] = drain[w]  BY <2>1 DEF Crash
    <3> QED
      BY <2>2, <3>1, <3>2, <3>3, <3>4, <3>5, <3>6, <3>7, <3>8, <3>9, <3>10, <3>11, <3>12 DEF Work
  <2>3. \A j \in Jobs : Enqueue(j) \/ Change(j) => drain' = drain  BY DEF Enqueue, Change
  <2>4. Tick \/ UNCHANGED vars => drain' = drain  BY DEF Tick, vars
  <2>5. ~(Start(w) \/ List(w) \/ Extract(w) \/ Withdraw(w) \/ Rewrite(w) \/ Commit(w) \/ Queue(w)
          \/ Complete(w))
    BY <1>1 DEF At, Start, List, Extract, Withdraw, Rewrite, Commit, Queue, Complete
  <2>6. NothingRunnable(w) \/ Crash(w) => drain'[w].pc = "off"
    BY <2>1, IdleTyped DEF NothingRunnable, Crash
  <2>7. GiveUp(w) => drain'[w].pc = drain[w].pc
    BY <2>1 DEF GiveUp
  <2> QED  BY <1>1, <2>2, <2>3, <2>4, <2>5, <2>6, <2>7 DEF Next, Work
<1> DEFINE q == drain[w].queue
           e == Head(q)
<1>3. drain[w] \in Drains /\ q \in Seq(Entries)  BY <1>1, Parts DEF Drains
<1>4. q # <<>> /\ drain'[w].job = e.job /\ owed' = owed
  <2>1. q # <<>> /\ owed' = owed  BY <1>2 DEF Try, world
  <2>2. \/ drain' = [drain EXCEPT ![w].pc = "extract", ![w].job = e.job,
                                  ![w].seen = e.rec, ![w].queue = <<>>]
        \/ drain' = [drain EXCEPT ![w].queue = Tail(@)]
    BY <1>2 DEF Try
  <2>3. drain \in [Workers -> Drains]  BY <1>1 DEF DistillShape
  <2>4. CASE drain' = [drain EXCEPT ![w].queue = Tail(@)]
    <3>1. drain'[w].pc = drain[w].pc  BY <1>3, <2>3, <2>4 DEF Drains
    <3> QED  BY <1>1, <3>1
  <2>5. CASE drain' = [drain EXCEPT ![w].pc = "extract", ![w].job = e.job,
                                   ![w].seen = e.rec, ![w].queue = <<>>]
    <3> HIDE DEF e, q
    <3>1. drain'[w].job = e.job  BY <1>3, <2>3, <2>5 DEF Drains
    <3> QED  BY <2>1, <3>1
  <2> QED  BY <2>2, <2>4, <2>5
<1> HIDE DEF q
<1>5. e \in Entries /\ e = q[1] /\ 1 \in 1..Len(q)  BY <1>3, <1>4, RestOf
<1>6. /\ record[e.job] = e.rec /\ ~Exhausted(e.rec) /\ ~Waiting(e.rec, drain[w].now)
  BY <1>1, <1>5 DEF UpToDate, ReadingsTrue, q
<1> HIDE DEF e
<1>7. e.job \in Jobs /\ e.rec \in Readable  BY <1>5 DEF Entries
<1>8. /\ owed[e.job].is = "extraction"
      /\ owed[e.job].fails = e.rec.fails /\ owed[e.job].retry = e.rec.retry
  BY <1>1, <1>6, <1>7 DEF UpToDate, RecordsTrue, Readable
<1>9. e.rec.fails \in Nat /\ e.rec.retry \in Int /\ MaxFailCount \in Nat /\ drain[w].now \in Nat
  BY <1>3, <1>7, DistillAssumption DEF Readable, Drains
<1>10. e.rec.fails < MaxFailCount /\ e.rec.retry <= drain[w].now
  BY <1>6, <1>9 DEF Exhausted, Waiting
<1>11. owed[Job(w)'] = owed[e.job]  BY <1>4 DEF Job
<1> QED  BY <1>8, <1>10, <1>11

\* Drains that do not overlap never ask again for a job that was completed or
\* has used up its attempts, nor before the delay of its last failure is over,
\* for any number of jobs and attempts, whatever dies, changes or is enqueued.
THEOREM ClaimsComeInTurn == Spec => ClaimsInTurn
<1>1. Init => TurnInv  BY DistillInit DEF TurnInv
<1>2. TurnInv /\ [Next]_vars => TurnInv'
  <2> SUFFICES ASSUME TurnInv, [Next]_vars PROVE TurnInv'  OBVIOUS
  <2>1. Keeps  BY DistillStep DEF TurnInv
  <2>2. team' = team
    BY DEF Next, vars, Enqueue, Change, Tick, Start, Work, GiveUp, Crash, List, Try, NothingRunnable,
           Extract, Withdraw, Rewrite, Commit, Queue, Complete, world
  <2>3. Alone' <=> Alone  BY <2>2 DEF Alone
  <2> QED  BY <2>1, <2>3 DEF TurnInv, Keeps
<1>3. TurnInv /\ [Next]_vars =>
        [\A w \in Workers : Alone /\ Claims(w) =>
            LET o == owed[Job(w)'] IN
            o.is = "extraction" /\ o.fails < MaxFailCount /\ o.retry <= drain[w].now]_vars
  BY ClaimIsDue
<1> QED  BY <1>1, <1>2, <1>3, PTL DEF Spec, ClaimsInTurn
=============================================================================
