# A TLA+ development of danso

danso is an agent that runs on one host: a loop that talks to a model provider and executes
tools, a long-task ledger that lets a task be paused and resumed, a scheduler for prompts and
scripts, a local memory, a Telegram adapter, a searchable wiki, and the operations around them
(backup, update, restart, supervision). This directory holds TLA+ modules for those parts, TLC
configurations that check them on small instances, and proofs, for instances of any size, of the
properties that matter most of the agent loop, the cron runner, the memory transaction, the Telegram
chat, updates, restarts, supervision, distillation, credentials and the supervisor of a tool.

Paths below are those of the repository: `src/src/runtime.rs` is the file `src/runtime.rs` of
the main crate, `src/crates/...` are its other crates. `PROJECT.json` lists every component with
its status, every hazard with the line where it bites and the properties that would notice it, and
the source lines each definition stands for.

## 1. Inventory

| Component | State | Operations | Interacts with | What is hard |
|---|---|---|---|---|
| Agent loop `src/src/runtime.rs` | request slots, active time, repeat guard, continuations, pause flag | one run: prompt, requests, tools, compaction, checkpoints, end | journal, ledger, provider, executor, signals | a crash between any two appends; deadline, signal and answer racing; budgets over resumes |
| Long-task ledger `src/src/long_task.rs` | phase, counters, pending request, stage | mutators of the live ledger, one replay arm per record | agent loop, journal | two implementations of one state machine that must agree |
| Session journal `src/src/session.rs` | append-only file | open and recover, append, markers, compaction entry | agent loop | torn line, open operation, uncertain effect |
| Compaction `src/src/compaction.rs` | the conversation in hand | elide, ask fragment by fragment, repair, checkpoint | agent loop's slots, journal | sizes that only just fit; a journal read again must give the same conversation |
| Cron `src/src/cron/` | task store, lock file per task, run history, archive | tick, run, add, edit, enable, disable, remove, lock release and acquire | other cron processes, operator, clock, reboot | overlapping processes, stale plans, failed commits, quarantine |
| Cron schedule `schedule.rs`, `time.rs` | none | occurrences of an expression between two instants | cron runner | clock changes, jumps on the wall calendar, the scan limit |
| Payload and notice `exec.rs`, `notify.rs` | a child and its pipes, the spool | run a script, redact, spool a notice | cron runner, bridge | pipes that fill, helpers that outlive the child, paths that look like credentials |
| Memory transaction `src/src/memory/transaction.rs` | two targets, action directories, HEAD, ledger, lock | commit, rollback, recover | distill, facts, hand edits | a dozen writes that a crash may separate, recovery that may itself crash |
| Distill journal and extraction `src/src/memory/distill/` | job files, dead letters, cooldown, claim locks | enqueue, claim, fail, complete, dead letter; input, request, judgement of a reply | journals, memory transaction, provider | records read before their lock is taken, a crash between commit and completion |
| Facts, recall, snapshot, working state `src/src/memory/` | fact files, working state with copies and archive | gate, close, promote; search; assemble a snapshot; write what a run knows | memory transaction, runs | supersession by claims of low authority, time named in words, budgets, runs without a lock |
| Telegram adapter `src/src/telegram/` | chat records, active turn, follow-up queue, poll offset | handle update, commands, start and finish a turn, recover, drain | in-process runner, Bot API, health | retried updates, queue and slot under two locks, restart in a turn |
| In-process runtime `src/crates/danso-runtime/` | sessions, a thread per turn, event stream | bind, send turn, interrupt, pause, stop listening | Telegram, agent loop | the consumer leaves, interrupts and ends cross |
| Update `src/crates/danso-ops/` (install, activate, idle, generation) | binary, snapshot, pending and installed record, health file | apply, judge, rollback | service | a crash between any two files; evidence older than the record |
| Restart handoff `danso-ops/src/handoff.rs` | receipt | schedule, arm, work, finish, acknowledge | systemd timer, service | the receipt is the mutex, read in one step and written in another |
| Supervision `danso-ops/src/` (stop, pidfile, supervise), `src/src/service.rs` | pid file, token lock, stop marker | run, stop, supervise, probe | Telegram, handoff | stale files, rapid crashes, a stop that crosses an end |
| Providers `src/src/provider/` | credential store, body received so far | refresh, attempts and retries, frames, decoding | agent loop, issuer, other processes | a token that may have been rotated, a retry after text was shown, boundaries of chunks |
| Tools `src/src/tools/` | process tree of a call | run, cancel, grace, kill | agent loop | processes that fork while they are killed |
| Backup `src/src/backup.rs` | archive, target | backup, restore | a service that goes on | a tree that changes while it is walked |
| Wiki `src/crates/danso-wiki/` | index cache, pages, access record | build, search, load | a tool that syncs the wiki | files replaced one by one while they are read; a lock that is done without where there is none; a record rewritten by every load |
| Command line, configuration, doctor, output, fetch; scripts | none that is shared | | | data and I/O |

What makes each of them correct:

- **Agent loop, ledger, journal, compaction.** A tool call is executed at most once over all runs
  on a journal; what the program writes it can read again; both copies of the ledger agree; budgets
  are cumulative over any resumes; an effect of unknown outcome freezes the journal; every run
  ends; a compaction forgets neither the user's request nor the latest tools, and leaves a request.
- **Cron.** One run at a time per task; an occurrence that ran and was recorded is not run again; a
  run whose outcome is unknown is not repeated; edits survive runs in flight; records are kept; a
  quarantine is ended by its operator only; every minute a schedule names comes due and no other.
- **Memory.** The two targets of a transaction change together, the latest commit and only it can be
  undone, nobody else's edit is overwritten; no job is lost, and each ends as completed or as a dead
  letter; no fact closes one of higher authority; a search shows what held at the moment asked about.
- **Telegram and runner.** Every accepted prompt is run once or reported; one turn holds the slot;
  the queue moves on when a turn ends, however it ends; a stream of events ends once.
- **Operations.** The image an unproven release replaced is there to go back to; a restart happens
  at most once per request and is reported as it was; the process that serves is the one the pid
  file names; an archive carries the journals its records name.
- **Providers, tools, wiki.** No refresh token is sent that its issuer has rotated away, nor one whose
  last renewal was not completed; an answer does not depend on how the network cut it; whatever danso
  starts ends; a cache that counts as fresh is of one index, and pages read under the lock are of one
  copy of the wiki.

## 2. Modules

| Module | Extends | What it is |
|---|---|---|
| `LongTaskLedger` | | the ledger as a record, its mutators (`can...`, new value) and the replay arms |
| `SessionJournal` | `LongTaskLedger` | what recovery folds from the entries of a file, one operator per appended entry |
| `AgentLoop` | `SessionJournal` | the state machine of `runtime::run` over one journal, and its properties |
| `AtMostOnce` | | what a session promises about tool calls; abstract specification |
| `AgentLoopProofs` | `AgentLoop`, `TLAPS` | the inductive invariant; proofs of types and safety, about budgets and ends of runs; the step refinement of `AtMostOnce` |
| `CronRun` | | processes, store, lock file, archive and operator of one cron task |
| `CronProofs` | `CronRun`, `TLAPS` | proofs about the lock, about edits, and about processes one after another |
| `MemoryTransaction`, `UndoableStore` | | commit, rollback and recovery write by write; what they promise |
| `MemoryProofs` | `MemoryTransaction`, `TLAPS` | proofs about the writes of a plan, edits and what can be undone; the step refinement of `UndoableStore` |
| `ChatTurns`, `PromptQueue` | | one chat of the Telegram service; the bounded queue it promises |
| `ChatProofs` | `ChatTurns`, `TLAPS` | proofs about slot and record; the step refinement of `PromptQueue` |
| `BinaryUpdate`, `TwoGenerations` | | install, judgement and rollback file by file; what they promise |
| `UpdateProofs` | `BinaryUpdate`, `TLAPS` | proofs about the way back and the verdicts; the step refinement of `TwoGenerations` |
| `RestartHandoff`, `ServiceLife` | | a restart through somebody else; the life of service processes |
| `OpsProofs` | both, `SequenceTheorems`, `TLAPS` | proofs about receipts, workers, the pid file and the end of supervision |
| `DistillJobs` | | the queue of extractions and the drains that work on it |
| `DistillProofs` | `DistillJobs`, `TLAPS` | proofs that jobs are kept and claimed in turn |
| `PartsProofs` | `TokenRefresh`, `ToolRun`, `TurnSession`, `StateBackup`, `WikiIndex`, `MemoryScope`, `FiniteSetTheorems`, `SequenceTheorems`, `WellFoundedInduction`, `TLAPS` | proofs about the credential store, the supervisor of a tool, the stream of a turn, backups, the index and pages of a wiki, the facts and the working state |
| `StateBackup`, `FactStore`, `Extraction`, `Recall`, `MemorySnapshot`, `WorkingState`, `ToolRun`, `CronSchedule`, `PayloadRun`, `TokenRefresh`, `ProviderCall`, `AnswerStream`, `Compaction`, `TurnSession`, `WikiIndex`, `WikiFind` | | the eighteen parts, each a state machine of its own (two in `PayloadRun`, two in `WikiIndex`) |
| `MemoryScope` | `FactStore`, `WorkingState` | the files of a memory scope that are written over, side by side |
| `MCLongTask`, `MCCron`, `MCMemory`, `MCUpdate`, `MCOps`, `MCDistill`, `MCParts` | | instances for TLC |

Operators marked `Mutant of X` belong to no behaviour. Each is a plausible slip in the definition
it names (a dropped check, a swapped pair of writes, a missing reset); `PROJECT.json` pairs it
with the property that notices it when it takes the place of `X`.

### 2.1 Agent loop

`pc` is the place in `runtime::run`: `"prompt"` and `"create"` are the first appends,
`"handshake"` the checks before the loop, `"loop"` its head with the pause, wall and slot checks,
`"summary"` to `"compacted"` the compaction, `"request"` and `"await"` the provider call,
`"settle"` the durable reply, `"dispatch"` to `"settleOp"` one tool, `"stage"`, `"stagePause"` and
`"boundary"` the end of a batch of a long task, `"final"`, `"complete"` and `"blocked"` the ends.
`mem` is the run's `Ledger`, `journal` what a reader of the file computes, `torn` says that the
last line is incomplete. Every action that writes appends exactly one entry, so the program may
die after every entry (`Abort`) or within it (`TornAppend`); an append that fails before writing
is an `Abort`, one whose fsync fails is the append followed by `Abort`. `Tick` lets active time
pass, `SignalPause` is SIGUSR1, `CancelWait` is the deadline or a signal that drops the provider
future. `effects` and `dispatched` are history variables for the properties.

Session entries are represented by what recovery folds from them: the sets of proposed, started,
answered and settled calls, the kind of the last entry, whether a reader accepted all of them,
and the ledger. Message text, ids and timestamps are left out; a batch is a set of calls with a
fingerprint; a response costs one of `TokenDeltas`. What a compaction does to the conversation is
in `Compaction`; `AgentLoop` has the requests it spends and the entry it appends.

### 2.2 Cron

Each process loads the store (`Load`), plans from the copy (`PlanRun`), takes the lock
(`Acquire`, `NotAcquired`), runs (`RunPayload`, `FinishPayload`), archives, commits and releases
or quarantines, each a step of its own because the code lets its guard flocks go in between.
`Skip` is a tick with nothing to do. A tick over several tasks is, for one task, a process that
lingers between plan and lock. `max_runs` of a tick is a process that ends early. A torn lock file
is one created and not written. The operator edits the task and the lock by commands the
configuration selects; `MaxClock`, `MaxBoot`, `MaxBorn` bound the clock, the reboots and the
re-additions.

In `CronRun` the schedule is a set of instants. How an expression comes to be that set is
`CronSchedule`: the search for the next minute with its jumps over hours, days and months of the
wall calendar, the landing in UTC where the offset changes, the scan limit, intervals with and
without an anchor, and one-time tasks in local or absolute time. `PayloadRun` is the child with its
pipes, and the notice that is spooled of its run. `notBefore`, `--at`, import, the refusal by a tool
policy, and edits of schedule, policy or timeout of a task in flight are not in `CronRun`.

### 2.3 Memory transaction

`plan` is the sequence of writes the operation has still to do, computed where the code has read
what it depends on; one action per kind of write takes its head. `phase` separates the scan of
the action directories, the completion of the incomplete action, the check of HEAD, and the
operation itself. `Interrupt` ends the process between any two writes, and may leave a temporary
file when the next write goes into an action directory. `Edit` is a hand edit while no process
holds the lock. Contents are compared, never inspected, hence model values.

The images of an action whose pre-images are gone are forgotten (nothing reads them), ids of new
actions are any free ones (they are random), the ledger is a set of events (each is recorded
once per action) whose trimming is not modelled, and the checks of modes, owners, links and hashes
are taken as passed. Transforms replace a target or leave it alone, as every caller's does.

### 2.4 Telegram chat

`sent` is the update at `offset`, `rec` the conversation record on disk, `ledger` the long-task
state in each session's journal, `slot` and `turns` the active turn and the turns of this process,
`loop` the place of the long-poll loop. The loop handles one update at a time and awaits its
messages (`LoopStep`); a turn is launched, run and settled on its own thread (`LaunchStep`,
`ThreadStep`), and its finish task reports it and hands the slot to the head of the queue
(`FinishStep`). The three interleave wherever the code awaits or lets a lock go. A save succeeds,
fails unwritten, or fails after it was written (the health file that follows it); any message may
fail; `Shutdown` drains, `Crash` does not, and after either the service starts and recovers. Texts
are the numbers of their updates; albums, images, voice and the wording of messages are left out.

### 2.5 Update, handoff, supervision

In `BinaryUpdate` each file that is unlinked, written or renamed is a step: `bin`, `prev`,
`record`, `installed`; `cmd` is the place of each invocation of `update apply`, `activate` or
`rollback`, and `lock` is `state/update.lock`. The service publishes its health and serves turns,
`Tick` moves the clock that judges freshness, staleness and deferral, and an updater may fail a
write or die at any step. An image is a binary, its digest and its archive in one; downloads and
signatures are good or bad.

`RestartHandoff` has the receipt, the schedulers, the transient timer, the worker and a reader.
The receipt is read and written in two steps, a timer may fire twice, systemd may hang, fail, or
report a restart that replaced nothing, and a worker may die anywhere. `ServiceLife` has processes
that take the pid file and then the token lock, the supervisor with its window of rapid crashes,
the stop command from its announcement to its kill, and the status probe that holds the lock for a
moment.

### 2.6 Distill jobs

`record`, `dead`, `lock`, `cooldown` are the files; each drain lists the records, takes the next,
tries its lock, reads its copy again or not as the code does, asks, commits, removes, or rewrites
the record after a failure with a count and a delay. `owed` is what a job is owed. One drain takes
its time once, when it starts. What happens between claim and commit is `Extraction`: the input
(latest first, cut, redacted, a binary search for what fits), the request and its one repetition,
the scan for a field named twice and the other checks of the reply. The commit is a step whose
inside is `MemoryTransaction`.

### 2.7 The parts

The parts share no state with what is above, so each is a small machine, and `MCParts` puts them
side by side: a behaviour chooses one part, and the others stay as they began. What the numbers
stand for:

- `StateBackup`: files are names, the tree is copied entry by entry while chats come and journals
  grow; a restore writes file by file and may be cut off.
- `FactStore`: a text is its normalized form; a batch of candidates is one step, as its transaction
  is, and each candidate finds what the one before it left; promotion is two files with a crash between them.
- `Recall`: an index built lane by lane, two rankings of whole numbers, their fusion, and the day a
  query names. Days are those of the calendar. `MemorySnapshot`: documents are lengths, facts have
  costs. `WorkingState`: a text is the number of its rendering; a torn file is a negative one.
- `ToolRun`: runner, supervisor and a tree of processes that fork, end, and may be stuck in the
  kernel. `PayloadRun`: pipes of `PipeSize` units, a poll that looks first at the
  child and then at the time; a notice is composed and spooled by a part of its own.
- `CronSchedule`: a calendar with all its units, each a few of the next smaller.
- `TokenRefresh`: credentials are known by the generation of their refresh token, which the issuer
  replaces in a renewal or leaves as it is. `ProviderCall`: a body of a few characters, two of
  them a line end. `AnswerStream`: the frames of four dialects in any order, and what becomes of
  them. `Compaction`: a message is a number of characters, and a character of a tool's result costs
  two bytes on the wire; sizes are computed exactly, as the code does.
- `TurnSession`: sessions, the thread of a turn, its sink and its consumer; the agent loop is seen
  through the events it emits.
- `WikiIndex`: files replaced one by one beside processes that read them, the index in one part and
  the pages in the other. A load holds the shared lock, goes on without it where there is none to take, or
  gives up waiting; then it takes the time, and the lock of the access file, and rewrites that file without
  the lines it cannot read, those that are too old, and the oldest of too many. A line is the number under
  which it was written. `WikiFind`: chunks with words and vectors, scores as integers.

## 3. What is checked

Ten runs must pass, two show a statement of the documentation violated. Every property of a passing
run has a mutant of the code that breaks it under the run's own configuration.

| Run | Instance | States | What it shows |
|---|---|---|---|
| `LongTask` | 2 calls, 2 fingerprints, 4 requests, 2 tokens, 2 units of wall time, 2 interruptions | 240 000 | `JournalReplays`, `EffectOnce`, `DispatchAccounted`, `CleanExit`, `UncertainIsFrozen`, `BudgetsBind`; the loop implements `AtMostOnce` |
| `RunEnds` | 3 calls, 3 turns, repeat guard, continuation; fair | 314 000 | every run ends |
| `CronLock` | 2 processes, one instant, crash, reboot, torn locks, operator on lock and task | 838 000 | the lock guards what is unrecorded, a quarantine stays, edits survive |
| `CronSerial` | 3 processes one after the other, 2 occurrences, 2 attempts, history of one entry | 614 000 | counts are exact, an occurrence is run once, records are kept |
| `Memory` | 3 actions, 2 contents, one hand edit, leftovers | 675 000 | recovery keeps what is needed and overwrites no edit; it implements `UndoableStore` |
| `Chat` | 3 updates of 8 kinds, queue of 1, 2 sessions, 2 failures, 1 crash; fair | 287 000 | one turn holds the slot, the record is honest, the queue implements `PromptQueue` and drains |
| `Update` | 3 images, 2 updaters, 3 commands, clock to 3 | 1 547 000 | the way back is kept, verdicts rest on evidence, it implements `TwoGenerations` |
| `Ops` | 2 requests; 4 processes | 820 000 | results of restarts are honest, the receipt is a door for one, the process that serves is tracked, every end is explained |
| `Distill` | 2 jobs, 2 drains apart or overlapping, 2 failures; fair | 384 000 | no job is lost, none is claimed out of turn, every job settles |
| `Parts` | eighteen parts, below | 450 000 | one property for each group of parts |
| `MemoryCrash`, `DrainTwice` | the instances of `Memory` and `Distill`, reduced | | section 4 |

The properties of `Parts` are conjunctions of one named property per question, stated in the modules:

| Property | Its parts |
|---|---|
| `BackupSound` | `JournalsCarried`, `Restorable`, `RestoreHonest` |
| `ScopeKept` | `AuthorityKept`, `StoredOnce` (facts); `StateWhole`, `PreviousKept`, `ArchiveKept` (working state) |
| `CallSound` | `ChunkingInvisible`, `NoReplay`; `AnswerWhole`; `SameTalk`, `NothingForgotten`, `EvidenceWhole`, `RoomForWork` (compaction) |
| `StreamsHonest` | `EndsOnce`, `CallsTold`, `VerdictTrue` |
| `NoMisspentToken`, `NoSurvivor` | the credential store; a tool's supervisor |
| `IndexSound` | `FreshIsTrue`; `LoadsWhole`, `AccessesKept` |
| `ReckoningTrue` | `NoMinuteSkipped`, `IntervalsPhased`, `OnceAtItsTime`, `StepsCounted` (schedules); `NoLongStretch`, `NoticesTrue`; `InputNewest`, `RepliesJudged` (extraction); `RecallTrue`; `HotKept` (snapshot); `BestOfPages`, `ShownBest`, `ContextBounded` (wiki search) |
| `ChildrenEnd` (liveness) | `ToolEnds`, `PayloadEnds`, `TurnsEnd` |

`ReckoningTrue` and most of `CallSound` compare what the code computes step by step with a definition
that does without the steps: the next minute of a schedule with the least instant whose wall time matches, the shown
results with all documents that held, the frames of a body with its shortest prefixes, the
conversation after a compaction with the journal read anew.

**Bounds.** In `LongTask` four requests with stages of two let a task reach a stage boundary, a
pause, a resume, a compaction with repair and the end of its budget; token costs of 0, 2 and 3
against a limit of 2 end below, at and above it; two units of time separate "not yet", "at" and
"after" the deadline. Two calls make a batch of which one is settled and one open. `RunEnds` needs
three calls so that two equal batches can follow each other with fresh ids. In cron two
processes are one that holds and one with an old plan, and a third that comes later is in
`CronSerial`; the lock theorems hold for any number. A history of one entry makes every second
record an eviction. In the memory three actions are a head, its parent and one under way, the most
that recovery ever relates; an id is free again only when its action was discarded, so a
behaviour has at most three commits with a manifest, and any number of crashes, recoveries and
rollbacks. One hand edit is enough to leave a target in no image. It is also a limit: a second one
may put back the content that an action under way had found, and then `UndoSound` and
`ImplementsUndoableStore` fail (section 5); `EditsNotOverwritten` does not.

A chat needs three updates for a turn, a queued prompt and a command or a refused prompt beside them;
two failures are one that is retried and one of the retry; a second session is needed for `/new`
and the swap back. Three images are what serves, what was installed and what is offered next; two
updaters race, and the third command is the rollback. Two requests are a receipt and one that takes
it over; four processes are enough for a rapid-crash limit of two and one started by hand. Two jobs
and two drains are the least with a list that is stale. In `Parts`: one chat with two
sessions; four texts of which three supersede each other in some order; seven documents over three
lanes, every subset of them, and fourteen moments at the ends of months, years and leap years; a
calendar of hours of 4 minutes, days of 3 hours, months of 2 days, with every shift of 2 or 4
minutes at any instant of more than a day; three renderings by two runs; every cut of a body of six
characters; three halves of arguments in two blocks; nine journal entries with results that are
elided, or come two at a time, against a limit of 24 bytes, so that a conversation is compacted
twice and in up to three fragments; three loads over three days by two processes, with room for two lines
that are kept for a day, so that a line is lost to its age, to the cap or to an unreadable file, and one
process may write with an earlier time than the one before it; four generations of a refresh token and
three mishaps; transcripts of up to four messages and replies whose fields
repeat at each depth. All symmetry sets are sets of values the code only compares for equality.

**What instances leave out.** `Ops` starts neither two schedulers nor two processes at the same
time (`Overlap`, `Overlapping`): with overlap the receipt and the pid file are no mutexes, which
section 4 lists. A pid is used again by processes of the service only, so a pid file that names a foreign
process does not occur. The age of a stop marker is not counted: it may lapse at any moment
(`stop.rs:86-90`), which only adds behaviours. `CronLock` has no lock timeout, as in the theorems, and `CronSerial` runs its
processes one after another: `OccurrenceOnce`, `CountExact` and `RecordKept` say nothing of runs that
overlap, where the later commit overwrites the history and counts of the earlier. `ClaimsInTurn` is about
drains apart. In `Distill` a drain may die anywhere but between the two halves of a
rewrite (`CrashInRewrite`), where the code removes the record before it creates the new one and the
job is lost. All images of `Update` are signed and start. In `ToolRun` the supervisor can always read its
list of children and reap them: the exits on its own errors (`supervisor.rs:60, 80`) are left out. Loads of
pages that go on without the lock are in `WikiIndex`, and no property speaks of their pages; its clock does
not go back, and the cap of the access file counts lines of one size.

**Deadlock** is checked for the memory only. Elsewhere the system may stop: an uncertain journal is
meant to stop for good, and the other models have a finite number of commands, updates, faults or
instants.

**Fairness.** Each liveness property assumes weak fairness of steps the process takes by itself:
`RunEnds` of the run's own steps (`Proceed`: the executor returns, since tools have a timeout, and a
provider call answers, fails or is cut off); `QueueDrains` of the loop, the thread and the finish
task of every turn, each bounded by a timeout of the code, and it speaks of chats in which no save or
message fails, no prepared turn is cancelled and a turn that settles holds the slot (section 4 says
what happens otherwise); `JobSettles` of time, of the trigger that
starts drains, and of a drain that runs; `ChildrenEnd` of the supervisor, of the two clocks of the
runner, of the poll of a payload and of the thread of a turn, not of the tool or the payload
itself, which may never end. Nothing is assumed of signals, crashes, failures or the operator.

**Refinement.** `ImplementsSession` maps the marks of each call in the journal to its phase in
`AtMostOnce`; crashes are steps that end the run and leave every phase as it is.
`ImplementsUndoableStore` maps the moment HEAD is written to the commit and the moment the
manifest says `undoing` to the rollback. Before the first and after the second the store holds
the pre-image, whatever the two files hold just then: a caller reads only after recovery. A hand
edit is the one other thing that may change the value, and is counted in both. `QueueSpec` maps
record and slot of a chat to `PromptQueue`, a bounded first-in first-out queue whose head is started
when the slot is free; a failed save that was written after all is a step of the queue like any other.
`GenerationSpec` maps binary and pending record to `TwoGenerations`: what is announced is
announced before it is installed, and blocks every other release until it is proven or rolled back.

## 4. Where code and documentation disagree

Two have a run with `expect: violation` and a finding in `PROJECT.json` that quotes the statement.

1. `MemoryCrash` (`PreparedRecovered`): a temporary file that an interrupted write leaves in an
   action directory makes recovery, and with it every later commit and rollback, refuse. The
   failing write itself is enough; no crash is needed.
2. `DrainTwice` (`NoDuplicate`): a job another drain completed after it was listed is claimed and
   extracted again.

The modules name further statements the code does not keep; no run lists them, and each can be given
to TLC as a property of the module's instance.

*Agent loop* (`AgentLoop`): `InterruptedNotResumable` (`docs/v0.md:227-229`: an interrupted request
is not resumable; the code pauses and resumes it); `NoticeBeforeRepeatStop` (`docs/v0.md:128-130`: a
notice precedes the end; a second batch at the threshold has none); `WallStopMeasured`
(`docs/v0.md:229`: a task stopped at its wall limit is recorded with the time of its last record).

*Cron*: the plan is made before the lock is taken, so overlapping processes may run one occurrence
one after the other (`run.rs:245`, `OccurrenceOnce` needs processes apart); `TimeoutHonoured` (the age
of a lock counts from its plan, `locks.rs:151`); an anchored interval announces its future anchor but
is due one interval after it; an unanchored one announces now plus interval, not last plus interval;
the scan limit counts from the oldest occurrence (`schedule.rs:420`); `NotStarved` (a payload with
much output waits for a reader until its timeout, `exec.rs:64`); `TimeoutEndsRun` (a helper that
keeps the pipe open keeps the run waiting); a spool write that fails midway leaves a torn notice.

*Chat* (`ChatTurns`, which quotes each statement): `QueueRuns` (the queue moves on after every turn;
not after one that was stopped before it ran, or that no longer held the slot), `NextPromptPicksUp`
(a prompt after a failed hand-over starts the head of the queue), `DrainStartsNothing` (a turn that
ends during the drain starts the next), `MarkedWhileRunning` (a turn may run without its marker, so
a restart says nothing of it), `PausedTaskKept` (a paused task is replaced by more than `/new`); and
a direct prompt whose first message fails is lost.

*Update, handoff, supervision*: `UnrestartedUndecided` (`docs/release-signing.md:243-246`; a service
that was never restarted can be judged), `OutstandingResolvable` (`install.rs:301`), a rollback cut
off between its renames leaves the image it was to restore nowhere; `RejectedRestartsNothing`
(`handoff.rs:512-515`: a scheduler that timed out reports a rejection while the timer is armed);
`OneWinner` (`pidfile.rs:105-107`: of processes that start at the same time more than one may go
on); `KilledIsNotReplaced` (a supervisor starts another after the stop command's kill).

*Distillation*: a drain that dies while it rewrites a failed job loses the job (`journal.rs`,
`record_failure`); an extraction with an empty resume leaves the resume of an earlier one.

*Memory*: `ClosesOne` (a statement whose batch is retried closes a second fact); promotion may be
recorded without its audit line and undone with it left; closing a fact before its `valid_from`
writes a line no reader accepts; recall cuts to the limit before it looks at validity, removes
duplicates without looking at it, and shows a promoted copy twice; the snapshot drops
constraints for want of room (`docs/memory.md:116-117` says never), admits facts that have not begun,
and identifies facts by ids two lanes may share; working states of overlapping runs may overwrite one
another without a copy; a transcript whose messages were cut is not marked `truncated`, and an
escaped spelling of a field's name is taken for another name.

*Compaction*: the check before any summary request leaves out receipts and fixed wording, so a
small limit may fail only after the summaries were paid for (`docs/compaction.md` promises the
opposite); `userEntryId` is that of the latest entry with the role of the user, which may be a
notice to continue and not the user's request.

*Providers, runner, wiki*: streamed requests ignore a configured budget; a refusal is accepted
buffered and refused streamed; text shown is not compared with the text kept; a pause may be
confirmed to a turn that is over; a final answer repeats text that was streamed; an enqueue that
fails turns a pause into a memory failure; the recency half-life of a search is in days and applied to
seconds; a temporary file named after a killed process blocks the same pid later; the text fallback
of a search reads pages without the lock.

*Backup*: an interrupted restore cannot be taken up again, since the configuration is written
first; depth limits of backup and restore differ.

## 5. What is proved

Every theorem is about arbitrary values of the constants, under the named assumptions the modules
declare (`LimitsAssumption`, `LoopAssumption`, `CronAssumption`, `MemoryAssumption` and so on: that
limits are natural numbers, that names that stand for "none" are no other name). A condition beyond
these is in the statement of the theorem. Each proof has one invariant that is inductive; TLC
checked it on an instance before it was proved.

| Component | Inductive invariant | Theorems, and the property of a run they state |
|---|---|---|
| Agent loop | `TypeInv`, `Inv`, `Accounts`, `ResultsMarked` | `TypeCorrect`, `SlotsNeverUnderflow`, `InvHolds`, `JournalAlwaysReplays` (`JournalReplays`), `AtMostOneEffect` (`EffectOnce`), `MarkedBeforeRun`, `ResumableIsSettled`, `UncertainStaysFrozen` (`UncertainIsFrozen`), `RequestsAreAccounted` (`DispatchAccounted`), `ExitsAreClean` (`CleanExit`), `BudgetsAlwaysBind` (`BudgetsBind`), `LoopImplementsSession` (`ImplementsSession`) |
| Cron | `LockInv`, `QuarantineInv`, `SerialInv`, `CountInv` | `LockExcludes`, `UnsettledStaysGuarded`, `LockAlwaysGuards` (`LockGuards`), `QuarantineHolds` (`QuarantineSticks`), `OperatorEditsSurvive` (`EditsSurvive`), `RecordsStay` (`RecordKept`), `OccurrencesOnce` (`OccurrenceOnce`), `CountsAreExact` (`CountExact`) |
| Memory | `MemInv`, `HeadWhole`, `Refused`, `Changes`, `NewChanges`, `Untouched` | `WritesStaySafe`, `EditsAreNotOverwritten` (`EditsNotOverwritten`), `DiskStaysInOrder`, `UndoStaysSound` and `OneEditIsSurvived` (`UndoSound`), `StoreIsUndoable` and `OneEditIsUndoable` (`ImplementsUndoableStore`) |
| Chat | `ChatInv` | `OneTurnInTheSlot` (`SlotDiscipline`), `RecordCanBeRelied` (`RecordHonest`), `ChatImplementsQueue` (`QueueSpec`) |
| Update | `UpdateInv` | `RollbackTargetStays` (`RollbackTargetKept`), `UpdateImplementsGenerations` (`GenerationSpec`), `VerdictsAndWaitsHold` (`VerdictsAndWaits`) |
| Handoff, supervision | `RestartInv`, `DoorInv`, `TrackedInv`, `EndInv` | `RestartsAreHonest` (`RestartHonest`), `DoorIsHeld` (`DoorHeld`), `ServingIsTracked` (`Tracked`), `EndIsExplained` (`EndExplained`) |
| Distill jobs | `KeptInv`, `TurnInv` | `JobsAreKept` (`JobKept`), `ClaimsComeInTurn` (`ClaimsInTurn`) |
| Credentials, tools, turns, backups, wiki, memory scope | `AuthInv`, `ToolInv`, `TurnInv`, `BackupInv`, `IndexInv` and `PagesInv`, `WorkingInv` and `FactsInv` | `NoTokenIsMisspent` (`NoMisspentToken`), `ToolLeavesNothing` (`NoSurvivor`), `StreamIsHonest` (`StreamsHonest`), `BackupsAreSound` (`BackupSound`), `IndexIsSound` (`IndexSound`), `WorkingIsKept` and `ScopeIsKept` (`ScopeKept`) |

**Agent loop.** `TypeOK` is not inductive: `remaining` is decremented and must be shown to stay a
natural number, so `TypeInv` adds that the steps that spend a slot have one. Whether the next opening
accepts what a run writes depends on where the run is, on which of its calls are open and on the
agreement of its ledger with the durable one; `Inv` says exactly that: the journal is `Sound` (its
marks are in order and a resumable ledger has nothing open), the calls the run handles are those the
journal has open (`CallsFit`), and the ledger of a long run equals the replayed one at every step that
uses it (`TaskFits`). The proof first shows for each kind of entry that appending it keeps a journal
`Sound` under the guard of the in-memory mutator, which is where the two implementations of the ledger
meet, and then goes through the actions by groups. `Accounts` adds where the counters of the run stand
between two settlements. The refinement of `AtMostOnce` needs, beyond `Inv`, that a result is written
only for a call marked as started (`ResultsMarked`).

**Cron.** `LockInv` relates the lock file to the processes: who is between taking and giving up the
lock, or has an unrecorded run, and was not released by hand, is the one the file names, in this boot.
It needs `LockTimeout = 0`; with a timeout a second process is let in by its definition.
`QuarantineHolds` needs no such condition: only a process that is done can be named by a quarantined
lock. Nor does `OperatorEditsSurvive`, which is about the store alone. The three about records
are for processes that run one after another (`~Overlaps`) and an operator who does not remove the
task; `CountsAreExact` also wants that nobody edits the limit of runs. Section 4 says what
happens to overlapping processes.

**Memory.** A write is right because of the writes before it. `Safe(w, E)` says when `w` may be the
next write but for those in `E`, one condition for each kind of write and each state a manifest may
turn to; `PlanSafe` says this of every write still in `plan` with those before it. `Images`, `Heads` and
`LedgerTruthful` say what the disk holds between any two writes, `Owed` what the rest of a plan must
still contain given what the disk holds (a purge of each pre-image of a closed action, an event for a
committed HEAD, a closing manifest for each action under way), `Together` which writes of a plan come
together. The proof has three parts: a write keeps all of this, since it is safe and each later write
loses it from `E`; each plan an operation or a recovery makes is safe, built from lemmas on the parts
of a plan and their concatenation; and an interruption only forgets a plan.

`MemInv` holds whatever is edited by hand and gives `EditsAreNotOverwritten` and `DiskStaysInOrder`
without a condition. `UndoSound` and the refinement do not hold so freely. When a commit is
interrupted between HEAD and the manifest that says `committed`, and somebody then puts a file back as
it was before the commit, recovery takes the action for one whose targets were not all written
(`transaction.rs:572`), restores and aborts it, and HEAD names an aborted action, which every later
operation refuses. `NothingPutBack` is the condition that excludes it: no edit gives a target the
content that the action under way had found there. Under it HEAD's targets stay whole (`HeadWhole`), so
recovery always goes forward with HEAD's action, and a refusal has a visible reason (`Refused`). A
behaviour with at most one edit meets the condition, since the first edit brings contents nobody else
writes (`Untouched`); so `OneEditIsSurvived` and `OneEditIsUndoable` have no condition but the bound,
which is that of the run `Memory`. The refinement also needs that a commit changes something
(`Changes`): otherwise the write of HEAD would be a commit that `UndoableStore` does not have.

**Chat.** `ChatInv` says what the thread of a turn and its finish task may still do given record, slot
and offset (`SlotFits`, `OffsetFits`, `PromptsFit`). Every step is then one of nine moves of the queue
(`Moves`: it rests, the slot is released, the process died, a turn started, was answered, took a
prompt or was aborted, the head was taken, an update was passed over), and each property and the
refinement follow from the moves. **Update.** `UpdateInv` relates the place of the updater that holds
`update.lock` to the four files and to what the others have read, for any number of updaters; the moves
of `TwoGenerations` are the renames of the binary and the record. **Handoff.** `RestartsAreHonest` holds
for any schedulers and timers; `DoorIsHeld` for schedulers that do not read and write the receipt at
the same time (`~Overlap`), and `ServingIsTracked` for processes that do not start at the same time
(`~Overlapping`). `EndIsExplained` has no condition: `EndInv` says that the supervisor's list is the
newest crashes, those within a window of the last one and no other (`ListIsWindow`), so the list is
as long as the limit just when some window holds that many (`GivesUpOnLoop`); and that the child it
has reaped stays what it came to (`ChildIsGone`). **Distillation.** `JobsAreKept` excludes the crash between the halves of a rewrite
(`~CrashInRewrite`), where the code does lose the job; `ClaimsComeInTurn` excludes nothing.
**Credentials and tools.** `AuthInv` says which generation the process in the section has in hand at
each of its steps, that a stored token without a marker is the issuer's current one and is not in doubt
(`Fresh`, `UnmarkedIsFresh`), and that nothing was sent or rotated that was not issued
(`OnlyIssuedSent`). A reply that keeps the token needs no case of its own: the token is in doubt while the
marker is there, and out of it with the receipt that removes the marker. `ToolInv` says that whatever runs under a supervisor
descends from it (`Adopted`) and that no process is its own ancestor (`Founded`, said of every set of
processes instead of by induction), so a supervisor without children leaves nothing behind.
**Turns.** `TurnInv` splits a turn into three: while its loop runs (`InLoop`), the sink's queue is what
the loop has left to call, numbered as the journal numbers it, and the latest event of a call is the
start of the open one or the end of the one before (`LatestCall`); when its run is over (`HasEnded`) no
terminal event was sent yet and the stream agrees with the task (`TaskTold`) as long as somebody
listens; and then its end is told (`IsOver`). One lemma says what each emission of the sink does to it.
**Backups.** `BackupInv` says of a walk that nothing is copied before its component's turn (`InTurn`)
or without a mark (`MarksCount`), which bounds what restore later counts; that the sessions copied
records name are among those the walk of the journals has to see (`SessionsDue`), which needs that a
record never names a session without a journal (`RecordsFollow`); and that a session marked was copied
or warned about (`JournalsTaken`). Of a target it says that whatever holds a file of an archive holds a
configuration (`ConfigFirst`), the first file a restore writes, so a second restore never begins over
the remains of another. The bounds of a scan need only be positive.
**Wiki.** `IndexInv` bounds each file a search has read between the version its key names and the one
that is there (`Between`); the metadata is copied last (`CopyInOrder`), so a cache whose key is the
present one holds present files, whatever the sizes in a key are. `PagesInv` says that no page is
copied while a load holds the shared lock, so that what it has read is of one generation
(`GenerationsMatch`, `ReadsOne`), that one load at a time rewrites the access record, and that the lines it
could and could not read are those that are there (`OneRecords`). That the cap leaves at most `StatsCap`
lines, and takes none that has not as many later ones, are `LatestAreFew` and `LeftOutAreOld`.
**Working state.** `WorkingInv` says what a run has promised at each of its steps (`RunInv`) in terms of
what no other run takes back: a copy stays in its place, what was written over or filed stays so, and
a whole state goes only when another is written over it (`FilesGrow`). Only copies older than the
newest `CheckpointsKept` are ever doomed (`DoomedAreOld`), however stale the list of them is.

**Facts.** A batch is a fold over its candidates. `GateInv` is what holds between two of them: the
lines of the file and those added so far are read once each, and whoever closed a fact had the
authority. One candidate keeps it (`GateKeeps`), so the whole batch does (`GatedKeeps`); the rest of
`FactsInv` is that only lines that were read are ended and that the tail, a closing and an undo leave
a stretch of what was there. The size of the file, the overlap of texts and what is submitted are
arbitrary.

**Induction over data.** Where a proof needs a number that is the least of some kind it takes
`LeastNatural`, the well-ordering of the natural numbers, from the library's theorems on well-founded
relations: the first place of a batch, or of a queue, at which something would be lost. What holds at
every place of a fold is shown in this way. What a fold computes in the end (the scan of a reply, the
search of a schedule, the rankings of a search) needs a definition by cases for every input and is
left to TLC.

**Only model-checked.** Liveness (`RunEnds`, `QueueDrains`, `JobSettles`, `ChildrenEnd`: the prover has
no rules for fairness). And two conjunctions of `Parts`, `CallSound` and `ReckoningTrue`, which compare
a computation with a definition over bounded inputs, most of them with folds.

## 6. Not modelled, and what is left

Not modelled: parsing and rendering of text where no property is about it, wire formats of
requests, images and pixels, the command line, configuration, doctor and output, unit files and the
status text, the container backend of tools and the checks of their arguments, downloads and
cryptography of releases, the patterns of the credential scanner, the evaluation of the memory, and
the scripts. Their state is not shared between steps or processes, and their difficulty is in data
rather than order. Within the modelled components, `PROJECT.json` says of each what was left out.

What would come next, in this order:

1. The recovery of an action that HEAD names as one that goes forward or is refused, in code and
   model; `UndoSound` and `ImplementsUndoableStore` would then hold without a condition on edits.
2. Overlapping processes of cron and of the service: what weaker promise the code does keep of them.
