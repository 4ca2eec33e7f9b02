----------------------------- MODULE AgentLoop -----------------------------
(***************************************************************************)
(* The agent loop (runtime::run, src/src/runtime.rs) over one session      *)
(* journal: a run opens the journal, asks the provider, executes the tools *)
(* the reply requests and records every boundary durably.  Runs follow one *)
(* another on the same journal; the exclusive file lock keeps them apart,  *)
(* so there is at most one process.  Between any two appends the process   *)
(* may die.                                                                *)
(*                                                                         *)
(* An append that fails before it writes is an Abort at that point, one    *)
(* that fails half-way is a TornAppend, and one whose fsync fails after    *)
(* the bytes arrived is the append followed by Abort.  The same Abort      *)
(* stands for SIGKILL, a panic, a sink error and every configuration or    *)
(* size check that ends the run without writing.                           *)
(***************************************************************************)
EXTENDS SessionJournal

CONSTANTS
    NoCall,            \* no tool call is being executed
    TokenDeltas,       \* tokens one response may report
    MaxTurns,          \* max_turns of a short run
    RepeatGuard,       \* repeat_limit of a short run, 0 disables it
    ContinuationLimit, \* continuation_limit of a short run
    PauseAfterStage,   \* pause_after_stage, 0 for None
    Compacts,          \* whether a request can exceed compact_at_bytes
    Invocations        \* the invocations an operator may issue

ASSUME LoopAssumption ==
    /\ NoCall \notin Calls
    /\ TokenDeltas \subseteq Nat
    /\ MaxTurns \in Nat \ {0}
    /\ {RepeatGuard, ContinuationLimit, PauseAfterStage} \subseteq Nat
    /\ Compacts \in BOOLEAN
    /\ Invocations \subseteq {"short", "create", "resume", "follow_up"}

VARIABLES
    journal,        \* the file, as the recovery scan sees it
    torn,           \* the file does not end in a newline
    pc,             \* where the run is; "idle" when there is no process
    mode,           \* "short" or "long" while a run exists
    mem,            \* the run's own Ledger
    ids,            \* tool call ids the run has seen
    remaining,      \* request slots left in this run
    clock,          \* task_elapsed_ms: active time of the task
    reply,          \* the assistant message being settled
    todo,           \* calls of the batch not started yet
    cur,            \* the call being executed
    guard,          \* short-mode repeat guard
    continuations,  \* continuation_count
    pauseRequested, \* the SIGUSR1 flag
    outcome,        \* how the last run ended
    effects,        \* times each call was handed to the executor
    dispatched      \* provider requests sent for the current long task

durable == <<journal, torn>>
batch   == <<todo, cur>>
short   == <<guard, continuations>>
ghost   == <<effects, dispatched>>
vars    == <<journal, torn, pc, mode, mem, ids, remaining, clock, reply, todo, cur,
             guard, continuations, pauseRequested, outcome, effects, dispatched>>

\* Where a run can be, in the order runtime::run goes through them.
Steps == { "prompt", "create", "handshake", "loop", "summary", "awaitSummary",
           "summaryPause", "compacted", "request", "await", "settle", "final",
           "complete", "dispatch", "execute", "result", "settleOp", "blocked",
           "stage", "stagePause", "boundary" }

Outcomes == { "none", "answered", "completed", "paused", "blocked", "repeat_limit",
              "length", "budget", "wall", "provider", "interrupted", "deadline",
              "refused", "aborted" }

ReplyKinds == {"tools", "stop", "length"}
Replies == [kind : ReplyKinds, calls : SUBSET Calls, elapsed : Nat, tokens : Nat]
NoReply == [kind |-> "stop", calls |-> {}, elapsed |-> 0, tokens |-> 0]
Guards  == [fingerprint : Fingerprints \cup {NoFingerprint}, count : Nat,
            noticed : Fingerprints \cup {NoFingerprint}]
NoGuard == [fingerprint |-> NoFingerprint, count |-> 0, noticed |-> NoFingerprint]

LeastOf(a, b) == IF a <= b THEN a ELSE b

Init ==
    /\ journal = EmptyJournal /\ torn = FALSE
    /\ pc = "idle" /\ mode = "none" /\ mem = DefaultLedger
    /\ ids = {} /\ remaining = 0 /\ clock = 0 /\ reply = NoReply
    /\ todo = {} /\ cur = NoCall
    /\ guard = NoGuard /\ continuations = 0
    /\ pauseRequested = FALSE /\ outcome = "none"
    /\ effects = [c \in Calls |-> 0] /\ dispatched = 0

\* The process is gone and with it everything that was only in memory; the
\* guard is kept for the properties and reset by the next start.
Vanish(how) ==
    /\ pc' = "idle" /\ mode' = "none" /\ mem' = DefaultLedger
    /\ ids' = {} /\ remaining' = 0 /\ clock' = 0 /\ reply' = NoReply
    /\ todo' = {} /\ cur' = NoCall
    /\ continuations' = 0 /\ pauseRequested' = FALSE
    /\ outcome' = how

Leave(how) == Vanish(how) /\ UNCHANGED <<guard, torn>>

\* The run ends with a last record; a ledger that refuses it writes nothing.
EndWith(can, j, how) ==
    IF can THEN journal' = j /\ Leave(how) ELSE journal' = journal /\ Leave("refused")

\* An append the run makes and then goes on at step next.
Step(next, j) ==
    /\ journal' = j
    /\ pc' = next
    /\ UNCHANGED <<torn, mode, outcome, pauseRequested, clock>>

-----------------------------------------------------------------------------
(* Starting a run: Session::open, check_recovery and the long-task checks. *)

\* Mutant of Openable: a half-written last line is ignored.
OpenableTorn == pc = "idle" /\ journal.valid /\ Resolved(journal)

Openable == pc = "idle" /\ ~torn /\ journal.valid /\ Resolved(journal)

NoUnfinishedTask == journal.ledger.task => Terminal(journal.ledger)

Start(next, m, l) ==
    /\ pc' = next /\ mode' = m /\ mem' = l /\ clock' = l.elapsed
    /\ ids' = journal.calls
    /\ remaining' = IF m = "short" THEN MaxTurns ELSE 0
    /\ guard' = NoGuard /\ outcome' = "none"
    /\ UNCHANGED <<journal, torn, reply, todo, cur, continuations, pauseRequested, ghost>>

StartShort == "short" \in Invocations /\ Openable /\ NoUnfinishedTask
              /\ Start("prompt", "short", DefaultLedger)

StartTask == "create" \in Invocations /\ Openable /\ NoUnfinishedTask
             /\ Start("prompt", "long", DefaultLedger)

\* ensure_safe_resume: a settled boundary with budget left, and only that.
CanResume == Openable /\ journal.ledger.task /\ ResumeAllowed(journal.ledger)

ResumeTask ==
    CanResume /\ \/ "resume" \in Invocations /\ Start("handshake", "long", journal.ledger)
                 \/ "follow_up" \in Invocations /\ Start("prompt", "long", journal.ledger)

\* The user message; the task record of a new task must directly follow it.
AppendPrompt ==
    /\ pc = "prompt"
    /\ Step(IF mode = "short" THEN "loop" ELSE IF mem.task THEN "handshake" ELSE "create",
            LogUser(journal))
    /\ UNCHANGED <<mem, ids, remaining, reply, batch, short, ghost>>

\* record_long_task(created), then the ledger is re-read from the records.
CreateTask ==
    /\ pc = "create"
    /\ Step("handshake", LogCreated(journal))
    /\ mem' = journal'.ledger
    /\ dispatched' = 0
    /\ UNCHANGED <<ids, remaining, reply, batch, short, effects>>

-----------------------------------------------------------------------------
(* Settled boundaries: a graceful pause is observed here and nowhere else. *)

PauseObserved == mode = "long" /\ pauseRequested /\ mem.state \in {"ready", "paused"}

\* Mutant of PausedJournal: a pause is recorded whatever the ledger says.
PausedJournalTwice == LogPaused(journal, mem)

\* A ledger that is already paused is left at its boundary without a record.
PausedJournal == IF CanPause(mem) THEN LogPaused(journal, mem) ELSE journal

PauseAtBoundary ==
    /\ pc \in {"handshake", "loop", "request", "boundary"}
    /\ pc = "loop" => remaining > 0
    /\ PauseObserved
    /\ journal' = PausedJournal
    /\ Leave("paused")
    /\ UNCHANGED ghost

\* task_budget.saturating_sub(requests): the slots the task has left.
SlotsLeft(l) == IF l.requests >= MaxRequests THEN 0 ELSE MaxRequests - l.requests

EnterLoop ==
    /\ pc = "handshake" /\ ~PauseObserved
    /\ Step("loop", journal)
    /\ remaining' = SlotsLeft(mem)
    /\ UNCHANGED <<mem, ids, reply, batch, short, ghost>>

BudgetSpent == mem.requests >= MaxRequests \/ mem.tokens >= MaxTokens

\* The wall, request and token checks at the head of the while loop, and the
\* pause that follows the loop once the slots are used up.
StopAtBudget ==
    /\ pc = "loop"
    /\ journal' = IF mode = "long" THEN PausedJournal ELSE journal
    /\ \/ remaining = 0 /\ Leave("budget")
       \/ /\ remaining > 0 /\ mode = "long" /\ ~PauseObserved
          /\ \/ clock >= WallMs /\ Leave("wall")
             \/ clock < WallMs /\ BudgetSpent /\ Leave("budget")
    /\ UNCHANGED ghost

MayIterate ==
    /\ pc = "loop" /\ remaining > 0
    /\ mode = "long" => ~PauseObserved /\ clock < WallMs /\ ~BudgetSpent

-----------------------------------------------------------------------------
(* Provider requests.                                                      *)

\* Mutants of Spend: a request takes two slots, or none.
SpendTwo(slots)  == slots - 2
SpendNone(slots) == slots

\* Every request, summary or action, uses up one slot of the run.
Spend(slots) == slots - 1

\* A summary leaves at least one slot for the action it makes room for.
TooFewSlots == remaining <= 1

\* LongTaskProvider::complete_with reserves a long task's request durably
\* before it is sent; a short run keeps no such record.
Reserve(next) ==
    IF mode = "short"
    THEN Step(next, journal) /\ UNCHANGED <<mem, ghost, reply, batch, short, ids>>
    ELSE IF CanBeginRequest(mem, clock)
    THEN /\ Step(next, LogRequestStarted(journal, mem, clock))
         /\ mem' = BeginRequest(mem, clock)
         /\ dispatched' = dispatched + 1
         /\ UNCHANGED <<effects, reply, batch, short, ids>>
    ELSE Leave("refused") /\ UNCHANGED <<journal, ghost>>

SkipCompaction ==
    /\ MayIterate
    /\ Step("request", journal)
    /\ UNCHANGED <<mem, ids, remaining, reply, batch, short, ghost>>

\* The request is above the threshold: summarize first, on a resolved journal.
BeginCompaction ==
    /\ MayIterate /\ Compacts /\ Resolved(journal)
    /\ Step("summary", journal)
    /\ UNCHANGED <<mem, ids, remaining, reply, batch, short, ghost>>

\* summarize: each fragment or repair takes a slot and leaves one for action.
SendSummary ==
    /\ pc = "summary"
    /\ IF TooFewSlots
       THEN Leave("budget") /\ UNCHANGED <<journal, ghost>>
       ELSE /\ Reserve("awaitSummary")
            /\ pc' # "idle" => remaining' = Spend(remaining)

\* A summary has no side effects and is settled as soon as it arrives; then
\* another fragment or repair follows, or the checkpoint is complete.
SummaryArrives(next, t) ==
    /\ pc = "awaitSummary"
    /\ \/ /\ mode = "short"
          /\ Step(next, journal)
          /\ UNCHANGED <<mem, ids, remaining, reply, batch, short>>
       \/ /\ mode = "long" /\ CanEndRequest(mem, clock)
          /\ mem' = SettleRequest(mem, clock, t, "summary")
          /\ Step(IF mem'.tokens >= MaxTokens THEN "summaryPause" ELSE next,
                  LogRequestSettled(journal, mem, clock, t, "summary"))
          /\ UNCHANGED <<ids, remaining, reply, batch, short>>
       \/ /\ mode = "long" /\ ~CanEndRequest(mem, clock)
          /\ journal' = journal /\ Leave("refused")
    /\ UNCHANGED ghost

PauseOverBudgetSummary ==
    /\ pc = "summaryPause"
    /\ EndWith(CanPause(mem), LogPaused(journal, mem), "budget")
    /\ UNCHANGED ghost

RecordCompaction ==
    /\ pc = "compacted"
    /\ Step("request", LogCompaction(journal))
    /\ UNCHANGED <<mem, ids, remaining, reply, batch, short, ghost>>

\* remaining -= 1, the last look at the pause flag, the reservation.
SendRequest ==
    /\ pc = "request" /\ ~PauseObserved
    /\ Reserve("await")
    /\ pc' # "idle" => remaining' = Spend(remaining)

\* A provider error or a malformed reply ends the run; a long task fails.
ProviderFails(t) ==
    /\ pc \in {"await", "awaitSummary"}
    /\ journal' = IF mode = "long" /\ CanEndRequest(mem, clock)
                  THEN LogRequestFailed(journal, mem, clock, t) ELSE journal
    /\ Leave("provider")
    /\ UNCHANGED ghost

\* A deadline uses up the wall budget whatever the run's own clock says.
CancelledAt(how) == IF how = "deadline" THEN WallMs ELSE LeastOf(clock, WallMs)

\* ProviderWait::drop: the future is dropped while only the provider is awaited.
CancelWait(how) ==
    /\ pc \in {"await", "awaitSummary"} /\ mode = "long"
    /\ journal' = IF CanInterrupt(mem, CancelledAt(how))
                  THEN LogInterrupted(journal, mem, CancelledAt(how)) ELSE journal
    /\ Leave(how)
    /\ UNCHANGED ghost

\* Mutant of Fresh: only the calls of the same reply are compared.
FreshInReply(cs) == cs \subseteq Calls

\* The duplicate-call gate: every id is new to the session.
Fresh(cs) == cs \cap ids = {}

\* A reply passes the gate, then the assistant message becomes durable.
ReceiveReply(kind, cs, t) ==
    /\ pc = "await"
    /\ Fresh(cs)
    /\ Step(IF mode = "long" THEN "settle" ELSE IF kind = "tools" THEN "dispatch" ELSE "final",
            LogAssistant(journal, cs))
    /\ ids' = ids \cup cs
    /\ reply' = [kind |-> kind, calls |-> cs, elapsed |-> clock, tokens |-> t]
    /\ todo' = IF mode = "short" THEN cs ELSE {}
    /\ UNCHANGED <<mem, remaining, cur, short, ghost>>

\* A reply that repeats an id, its own or an earlier one, ends the run before
\* anything is written.
RefuseDuplicate ==
    /\ pc = "await" /\ Calls # {}
    /\ Leave("refused")
    /\ UNCHANGED <<journal, ghost>>

\* Tokens over the limit stop the run between the settlement and the tools.
OverBudget(l) == l.tokens > MaxTokens

\* settle_pending_action, then the token check that precedes any side effect
\* and, for a final reply, the stop reason.
SettleReply ==
    /\ pc = "settle"
    /\ LET l == SettleRequest(mem, reply.elapsed, reply.tokens,
                              IF reply.kind = "tools" THEN "tools" ELSE "final")
           j == LogRequestSettled(journal, mem, reply.elapsed, reply.tokens,
                                  IF reply.kind = "tools" THEN "tools" ELSE "final")
       IN  \/ /\ ~CanEndRequest(mem, reply.elapsed)
              /\ journal' = journal /\ Leave("refused")
           \/ /\ CanEndRequest(mem, reply.elapsed)
              /\ OverBudget(l) \/ reply.kind = "length"
              /\ journal' = j /\ Leave(IF OverBudget(l) THEN "budget" ELSE "length")
           \/ /\ CanEndRequest(mem, reply.elapsed)
              /\ ~OverBudget(l) /\ reply.kind # "length"
              /\ Step(IF reply.kind = "tools" THEN "dispatch" ELSE "complete", j)
              /\ mem' = l /\ todo' = reply.calls /\ reply' = NoReply
              /\ UNCHANGED <<ids, remaining, cur, short>>
    /\ UNCHANGED ghost

CompleteTask ==
    /\ pc = "complete"
    /\ EndWith(CanComplete(mem), LogCompleted(journal, mem), "completed")
    /\ UNCHANGED ghost

\* A short run ends with its final answer, or asks to continue a truncated one.
FinishShort ==
    /\ pc = "final"
    /\ IF reply.kind = "length" /\ continuations < ContinuationLimit
       THEN /\ Step("loop", LogUser(journal))
            /\ continuations' = continuations + 1 /\ reply' = NoReply
            /\ UNCHANGED <<mem, ids, remaining, batch, guard>>
       ELSE /\ journal' = journal
            /\ Leave(IF reply.kind = "stop" THEN "answered" ELSE "length")
    /\ UNCHANGED ghost

-----------------------------------------------------------------------------
(* The tool batch: admit, started, execute, result, settled - for each.    *)

StartTool(c, refused) ==
    /\ pc = "dispatch" /\ c \in todo
    /\ Step(IF refused THEN "result" ELSE "execute", LogStarted(journal, c))
    /\ cur' = c /\ todo' = todo \ {c}
    /\ UNCHANGED <<mem, ids, remaining, reply, short, ghost>>

\* ToolExecutor::execute; an error of the tool is a result like any other.
ExecuteTool ==
    /\ pc = "execute"
    /\ effects' = [effects EXCEPT ![cur] = @ + 1]
    /\ Step("result", journal)
    /\ UNCHANGED <<mem, ids, remaining, reply, batch, short, dispatched>>

RecordResult ==
    /\ pc = "result"
    /\ Step("settleOp", LogResult(journal, cur))
    /\ UNCHANGED <<mem, ids, remaining, reply, batch, short, ghost>>

SettleTool ==
    /\ pc = "settleOp"
    /\ Step("dispatch", LogSettled(journal, cur))
    /\ cur' = NoCall
    /\ UNCHANGED <<mem, ids, remaining, reply, todo, short, ghost>>

\* The whole batch has settled: record_tool_batch and what it leads to.
EndTaskBatch(f) ==
    /\ pc = "dispatch" /\ todo = {} /\ mode = "long"
    /\ IF CanRecordToolBatch(mem, clock, f)
       THEN LET l == RecordToolBatch(mem, clock, f)
            IN  /\ Step(IF l.repeat >= RepeatLimit THEN "blocked"
                        ELSE IF l.stageRequests >= StageRequests \/ l.requests >= MaxRequests
                             THEN "stage" ELSE "boundary",
                        LogToolBatch(journal, mem, clock, f))
                /\ mem' = l
                /\ UNCHANGED <<ids, remaining, reply, batch, short>>
       ELSE journal' = journal /\ Leave("refused")
    /\ UNCHANGED ghost

BlockRepeating ==
    /\ pc = "blocked"
    /\ EndWith(CanFailTerminal(mem), LogTaskFailed(journal, mem), "blocked")
    /\ UNCHANGED ghost

RecordStage ==
    /\ pc = "stage"
    /\ IF CanCheckpoint(mem, clock, mem.fingerprint)
       THEN /\ mem' = Checkpoint(mem, clock)
            /\ Step(IF PauseAfterStage # 0 /\ mem'.stage >= PauseAfterStage
                    THEN "stagePause" ELSE "boundary",
                    LogCheckpoint(journal, mem, clock, mem.fingerprint))
            /\ UNCHANGED <<ids, remaining, reply, batch, short>>
       ELSE journal' = journal /\ Leave("refused")
    /\ UNCHANGED ghost

PauseAfter ==
    /\ pc = "stagePause"
    /\ EndWith(CanPause(mem), LogPaused(journal, mem), "paused")
    /\ UNCHANGED ghost

NextIteration ==
    /\ pc = "boundary" /\ ~PauseObserved
    /\ Step("loop", journal)
    /\ UNCHANGED <<mem, ids, remaining, reply, batch, short, ghost>>

\* The identical-batch guard of short runs, kept only in memory.  noticed is
\* the batch the notice was issued for; the code keeps only the notice's text.
EndShortBatch(f) ==
    /\ pc = "dispatch" /\ todo = {} /\ mode = "short"
    /\ LET g == [guard EXCEPT !.fingerprint = f,
                              !.count = IF guard.fingerprint = f THEN @ + 1 ELSE 1]
           hit == RepeatGuard > 0 /\ g.count >= RepeatGuard
       IN  /\ guard' = CASE RepeatGuard = 0 -> guard
                         [] hit /\ g.noticed = NoFingerprint -> [g EXCEPT !.noticed = f]
                         [] OTHER -> g
           /\ IF hit /\ g.noticed # NoFingerprint
              THEN Vanish("repeat_limit") /\ UNCHANGED <<journal, torn>>
              ELSE /\ Step("loop", journal)
                   /\ reply' = NoReply
                   /\ UNCHANGED <<mem, batch, ids, remaining, continuations>>
    /\ UNCHANGED ghost

-----------------------------------------------------------------------------
(* The surroundings of a run.                                              *)

Tick == /\ pc # "idle" /\ mode = "long" /\ clock <= WallMs
        /\ clock' = clock + 1
        /\ UNCHANGED <<journal, torn, pc, mode, mem, ids, remaining, reply, batch, short,
                       pauseRequested, outcome, ghost>>

SignalPause == /\ pc # "idle" /\ mode = "long" /\ ~pauseRequested
               /\ pauseRequested' = TRUE
               /\ UNCHANGED <<journal, torn, pc, mode, mem, ids, remaining, clock, reply,
                              batch, short, outcome, ghost>>

Abort == pc # "idle" /\ Leave("aborted") /\ UNCHANGED <<journal, ghost>>

\* The steps at which a run may be writing an entry.
Appending ==
    \/ pc \in { "prompt", "create", "summaryPause", "compacted", "await", "settle",
               "final", "complete", "dispatch", "result", "settleOp", "blocked",
               "stage", "stagePause" }
    \/ mode = "long" /\ pc \in { "handshake", "loop", "summary", "awaitSummary",
                                "request", "boundary" }

\* The write of an entry stops half-way; the next opening refuses the file.
TornAppend ==
    /\ Appending
    /\ torn' = TRUE
    /\ Vanish("aborted")
    /\ UNCHANGED <<journal, guard, ghost>>

Invoke == StartShort \/ StartTask \/ ResumeTask

\* What the run itself does; the cancellation of a wait is part of it because
\* every run has a deadline.
Proceed ==
    \/ AppendPrompt \/ CreateTask \/ PauseAtBoundary \/ EnterLoop \/ StopAtBudget
    \/ SkipCompaction \/ BeginCompaction \/ SendSummary
    \/ \E next \in {"summary", "compacted"}, t \in TokenDeltas : SummaryArrives(next, t)
    \/ PauseOverBudgetSummary \/ RecordCompaction \/ SendRequest
    \/ \E t \in TokenDeltas : ProviderFails(t)
    \/ \E how \in {"interrupted", "deadline"} : CancelWait(how)
    \/ \E cs \in SUBSET Calls \ {{}}, t \in TokenDeltas : ReceiveReply("tools", cs, t)
    \/ \E kind \in {"stop", "length"}, t \in TokenDeltas : ReceiveReply(kind, {}, t)
    \/ RefuseDuplicate \/ SettleReply \/ CompleteTask \/ FinishShort
    \/ \E c \in Calls, refused \in BOOLEAN : StartTool(c, refused)
    \/ ExecuteTool \/ RecordResult \/ SettleTool
    \/ \E f \in Fingerprints : EndTaskBatch(f) \/ EndShortBatch(f)
    \/ BlockRepeating \/ RecordStage \/ PauseAfter \/ NextIteration

Disturb == Tick \/ SignalPause \/ Abort \/ TornAppend

Next == Invoke \/ Proceed \/ Disturb

Spec == Init /\ [][Next]_vars

\* A run keeps going: the executor and the provider answer or the deadline of
\* the run cancels them.  Nothing obliges anyone to start another run.
FairSpec == Spec /\ WF_vars(Proceed)

-----------------------------------------------------------------------------
(* Properties.                                                             *)

\* The type of the state.
TypeOK ==
    /\ journal \in Journal /\ torn \in BOOLEAN
    /\ pc \in Steps \cup {"idle"} /\ mode \in {"none", "short", "long"}
    /\ mem \in Ledger /\ ids \subseteq Calls /\ remaining \in Nat /\ clock \in Nat
    /\ reply \in Replies
    /\ todo \subseteq Calls /\ cur \in Calls \cup {NoCall}
    /\ guard \in Guards
    /\ continuations \in Nat /\ pauseRequested \in BOOLEAN
    /\ outcome \in Outcomes
    /\ effects \in [Calls -> Nat] /\ dispatched \in Nat

\* Whatever the order of signals, deadlines, failures and crashes, the journal
\* holds only entries the next opening accepts: the in-memory checks of the
\* run are never weaker than the checks of the replay.
JournalReadable == journal.valid

\* The ledger the run decides with is the ledger a restart would compute.
LedgerInSync == mode = "long" /\ mem.task => mem = journal.ledger

\* Both at once: what is written can be replayed, and replays to what the run
\* decides with.
JournalReplays == JournalReadable /\ LedgerInSync

\* No tool call is handed to the executor twice, over all runs on a journal.
EffectOnce == \A c \in Calls : effects[c] <= 1

\* A tool runs only after its started marker is durable, so a crash during the
\* execution leaves a trace that blocks the next opening.
WriteAhead == \A c \in Calls : effects[c] > 0 => c \in journal.started \cup journal.settled

\* A ledger that offers to be resumed never hides an open tool operation or an
\* unanswered call.
CheckpointsAreSettled == journal.ledger.state \in {"ready", "paused"} => Resolved(journal)

\* The unsigned `remaining -= 1` before an action request cannot underflow,
\* however many fragments and repairs the compaction before it has used.
ReserveSlot == pc \in {"summary", "compacted", "request"} => remaining >= 1

\* Every request that was sent is in the durable count or still pending there,
\* also after crashes and interruptions, and the cap bounds them all.  The slots
\* a resumed run has cached count down in step with them: cached and durable
\* count together are the task's cap at every point of the loop.
DispatchAccounted ==
    /\ mode = "long" /\ pc \notin {"idle", "prompt", "create", "handshake"} =>
           remaining + mem.requests + (IF mem.pending = 0 THEN 0 ELSE 1) = MaxRequests
    /\ journal.ledger.task =>
           dispatched = journal.ledger.requests + (IF journal.ledger.pending = 0 THEN 0 ELSE 1)
    /\ dispatched <= MaxRequests

\* A run that ended on its own terms leaves a journal the next run can open,
\* and a paused task is at a settled boundary.  A wall deadline that interrupts
\* a request cannot be used to extend the task.
CleanExit ==
    /\ outcome = "deadline" => ~ResumeAllowed(journal.ledger)
    /\ pc = "idle" /\ outcome \in {"answered", "repeat_limit", "completed", "blocked", "paused", "wall"} =>
           Openable
    /\ pc = "idle" /\ outcome \in {"paused", "wall"} => journal.ledger.state = "paused"

\* An uncertain journal stays exactly as the crash left it: nothing is
\* appended to it, acknowledged or executed again.
Uncertain ==
    \/ torn \/ ~Resolved(journal)
    \/ journal.ledger.state \in {"pending_provider", "pending_tools", "final_pending"}
UncertainIsFrozen ==
    [][pc = "idle" /\ Uncertain => UNCHANGED <<pc, journal, torn, effects, dispatched>>]_vars

\* Budgets are cumulative: whatever is resumed, interrupted or replayed, within
\* one task the recorded use of every budget only grows; and an over-limit
\* response stops the task before its tools have an effect.
BudgetsBind ==
    [][ /\ effects' # effects /\ mode = "long" => journal.ledger.tokens <= MaxTokens
        /\ journal.ledger.task /\ pc # "create" =>
              /\ journal'.ledger.requests    >= journal.ledger.requests
              /\ journal'.ledger.tokens      >= journal.ledger.tokens
              /\ journal'.ledger.elapsed     >= journal.ledger.elapsed
              /\ journal'.ledger.interrupted >= journal.ledger.interrupted ]_vars

\* Every run ends: the slots, the deadline and the bounded repeats leave no way
\* to go on for ever.
RunEnds == (pc # "idle") ~> (pc = "idle")

\* The journal and the executions implement the abstract session: each call
\* goes through its marks in order, and is executed between them at most once.
PhaseOf(c) ==
    CASE c \notin journal.calls                                -> "unseen"
      [] c \in journal.settled                                 -> "closed"
      [] c \in journal.started /\ c \in journal.results        -> "answered"
      [] c \in journal.started /\ c \notin journal.results     -> "open"
      [] OTHER                                                 -> "proposed"

Session == INSTANCE AtMostOnce WITH
    phase   <- [c \in Calls |-> PhaseOf(c)],
    ran     <- effects,
    running <- pc # "idle"

ImplementsSession == Session!ASpec

-----------------------------------------------------------------------------
(* Statements of the documentation that the code does not keep.            *)

\* docs/v0.md: "an interrupted in-flight operation is not resumable".
InterruptedNotResumable == outcome = "interrupted" => ~ResumeAllowed(journal.ledger)

\* docs/v0.md: the notice comes first, "repeating the same batch again ends the
\* invocation".
NoticeBeforeRepeatStop == outcome = "repeat_limit" => guard.noticed = guard.fingerprint

\* docs/v0.md: "Persisted elapsed time measures active execution across
\* resumes": a task stopped because its wall budget is used up records so.
WallStopMeasured == outcome = "wall" => journal.ledger.elapsed >= WallMs

=============================================================================
