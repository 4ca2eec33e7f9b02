--------------------------- MODULE LongTaskLedger ---------------------------
(***************************************************************************)
(* The ledger of the opt-in long-task mode (src/src/long_task.rs).         *)
(*                                                                         *)
(* A long task is described by body-free records in the session journal.   *)
(* The ledger exists twice: the running process mutates it in memory       *)
(* (begin_request, settle_request, ...) and appends a record for each      *)
(* mutation, and every later opening of the journal folds those records    *)
(* with Ledger::apply, whose arms check and update independently.  Both    *)
(* copies are translated here, as operators on a ledger value:             *)
(*   CanX(l, ...)     the ensure! conditions of the in-memory mutator X    *)
(*   X(l, ...)        its assignments                                      *)
(*   AcceptX(l, ...)  the ensure! conditions of the arm of apply           *)
(*   ReplayX(l, ...)  the assignments of that arm                          *)
(* The module has no variables; AgentLoop holds the two copies.            *)
(***************************************************************************)
EXTENDS Integers

CONSTANTS
    WallMs,          \* wall_seconds * 1000, in the model's ticks
    StageRequests,   \* stage_requests: soft target of requests per stage
    MaxRequests,     \* max_requests: hard cumulative cap
    MaxTokens,       \* max_tokens: cap on provider-reported tokens
    RepeatLimit,     \* repeat_limit: consecutive identical batches
    MaxInterrupted,  \* MAX_INTERRUPTED_REQUESTS
    Fingerprints,    \* the values fingerprint_batch can take
    NoFingerprint    \* last_fingerprint = None

\* Limits::validate; every limit is at least 1 and a repeat needs two batches.
ASSUME LimitsAssumption ==
    /\ {WallMs, StageRequests, MaxRequests, MaxTokens, MaxInterrupted} \subseteq Nat \ {0}
    /\ RepeatLimit \in Nat /\ RepeatLimit >= 2
    /\ NoFingerprint \notin Fingerprints

TaskStates == { "not_long_task", "ready", "pending_provider", "pending_tools",
                "final_pending", "paused", "completed", "failed" }

ResponseKinds == {"summary", "tools", "final"}

\* pending = 0 stands for pending_sequence = None: sequences start at 1.
Ledger == [ task          : BOOLEAN,          \* limits.is_some()
            state         : TaskStates,
            stage         : Nat,
            stageRequests : Nat,
            elapsed       : Nat,
            requests      : Nat,
            tokens        : Nat,
            pending       : Nat,
            fingerprint   : Fingerprints \cup {NoFingerprint},
            repeat        : Nat,
            interrupted   : Nat ]

DefaultLedger == [ task |-> FALSE, state |-> "not_long_task", stage |-> 0,
                   stageRequests |-> 0, elapsed |-> 0, requests |-> 0,
                   tokens |-> 0, pending |-> 0, fingerprint |-> NoFingerprint,
                   repeat |-> 0, interrupted |-> 0 ]

-----------------------------------------------------------------------------
(* Conditions shared by both copies.                                       *)

EnsureElapsed(l, elapsed) == elapsed <= WallMs /\ elapsed >= l.elapsed

\* resume_allowed: a settled boundary with every cumulative budget left.
ResumeAllowed(l) ==
    /\ l.task
    /\ l.state \in {"ready", "paused"}
    /\ l.interrupted < MaxInterrupted
    /\ l.elapsed < WallMs
    /\ l.repeat < RepeatLimit
    /\ l.tokens < MaxTokens
    /\ l.requests < MaxRequests

\* A task that ended; only then may the same journal hold another one.
Terminal(l) == l.state \in {"completed", "failed"}

\* The response kind decides what the settled request leaves open.
StateAfter(kind) ==
    CASE kind = "tools"   -> "pending_tools"
      [] kind = "final"   -> "final_pending"
      [] kind = "summary" -> "ready"

\* The repeat count the next settled batch will carry.
NextRepeat(l, f) == IF l.fingerprint = f THEN l.repeat + 1 ELSE 1

-----------------------------------------------------------------------------
(* Ledger::apply, one pair of operators per arm.                           *)

AcceptCreated(l) == l.task => Terminal(l)
ReplayCreated(l) == [DefaultLedger EXCEPT !.task = TRUE, !.state = "ready"]

AcceptRequestStarted(l, sequence, stage, elapsed) ==
    /\ l.task
    /\ l.pending = 0
    /\ l.state \in {"ready", "paused"}
    /\ sequence = l.requests + 1
    /\ stage = l.stage
    /\ EnsureElapsed(l, elapsed)
ReplayRequestStarted(l, sequence, elapsed) ==
    [l EXCEPT !.pending = sequence, !.state = "pending_provider", !.elapsed = elapsed]

\* add_request: every provider request takes a slot, whatever became of it.
AddRequest(l, elapsed, tokens) ==
    [l EXCEPT !.requests = @ + 1, !.stageRequests = @ + 1,
              !.tokens = @ + tokens, !.elapsed = elapsed]

AcceptResponse(l, sequence, stage, elapsed) ==
    /\ l.task
    /\ l.pending # 0 /\ sequence = l.pending
    /\ stage = l.stage
    /\ EnsureElapsed(l, elapsed)
    /\ l.requests < MaxRequests

AcceptRequestSettled(l, sequence, stage, elapsed, kind) ==
    /\ AcceptResponse(l, sequence, stage, elapsed)
    /\ kind \in ResponseKinds
ReplayRequestSettled(l, elapsed, tokens, kind) ==
    [AddRequest(l, elapsed, tokens) EXCEPT !.pending = 0, !.state = StateAfter(kind)]

AcceptProviderInterrupted(l, sequence, stage, elapsed) ==
    /\ AcceptResponse(l, sequence, stage, elapsed)
    /\ l.state = "pending_provider"
    /\ l.interrupted < MaxInterrupted
\* Mutant of ReplayProviderInterrupted: an interrupted request takes no slot.
ReplayInterruptedFree(l, elapsed) ==
    [l EXCEPT !.pending = 0, !.state = "paused", !.elapsed = elapsed, !.interrupted = @ + 1]
ReplayProviderInterrupted(l, elapsed) ==
    [AddRequest(l, elapsed, 0) EXCEPT !.pending = 0, !.state = "paused",
                                      !.interrupted = @ + 1]

AcceptRequestFailed(l, sequence, stage, elapsed) ==
    AcceptResponse(l, sequence, stage, elapsed)
ReplayRequestFailed(l, elapsed, tokens) ==
    [AddRequest(l, elapsed, tokens) EXCEPT !.pending = 0, !.state = "failed"]

AcceptToolBatch(l, stage, stageRequests, elapsed, f, repeat) ==
    /\ l.task
    /\ l.state = "pending_tools"
    /\ stage = l.stage
    /\ stageRequests > 0 /\ stageRequests <= MaxRequests
    /\ EnsureElapsed(l, elapsed)
    /\ repeat = NextRepeat(l, f) /\ repeat <= RepeatLimit
ReplayToolBatch(l, stageRequests, elapsed, f, repeat) ==
    [l EXCEPT !.stageRequests = stageRequests, !.elapsed = elapsed,
              !.fingerprint = f, !.repeat = repeat, !.state = "ready"]

AcceptCheckpoint(l, stage, stageRequests, elapsed, f, repeat) ==
    /\ l.task
    /\ l.state = "ready"
    /\ stage = l.stage + 1
    /\ stageRequests > 0 /\ stageRequests <= MaxRequests
    /\ EnsureElapsed(l, elapsed)
    /\ l.fingerprint = f
    /\ repeat = l.repeat /\ repeat <= RepeatLimit
\* Mutant of ReplayCheckpoint: the cumulative count restarts with the stage.
ReplayCheckpointAnew(l, stage, elapsed, f, repeat) ==
    [l EXCEPT !.stage = stage, !.stageRequests = 0, !.requests = 0, !.elapsed = elapsed,
              !.fingerprint = f, !.repeat = repeat, !.state = "ready"]
ReplayCheckpoint(l, stage, elapsed, f, repeat) ==
    [l EXCEPT !.stage = stage, !.stageRequests = 0, !.elapsed = elapsed,
              !.fingerprint = f, !.repeat = repeat, !.state = "ready"]

\* The arms "paused" and "failed" share their conditions.
AcceptAtBoundary(l, stage, elapsed) ==
    l.task /\ l.state = "ready" /\ stage = l.stage /\ EnsureElapsed(l, elapsed)
ReplayPaused(l, elapsed) == [l EXCEPT !.elapsed = elapsed, !.state = "paused"]
ReplayFailed(l, elapsed) == [l EXCEPT !.elapsed = elapsed, !.state = "failed"]

AcceptCompleted(l, stage, elapsed) ==
    l.task /\ l.state = "final_pending" /\ stage = l.stage /\ EnsureElapsed(l, elapsed)
ReplayCompleted(l, elapsed) == [l EXCEPT !.elapsed = elapsed, !.state = "completed"]

-----------------------------------------------------------------------------
(* The in-memory mutators of the running process.                          *)

CanBeginRequest(l, elapsed) == ResumeAllowed(l) /\ EnsureElapsed(l, elapsed)
BeginRequest(l, elapsed) ==
    [l EXCEPT !.pending = l.requests + 1, !.state = "pending_provider", !.elapsed = elapsed]

\* Mutant of CanEndRequest: a response later than the wall budget still settles.
CanEndRequestLate(l, elapsed) == l.task /\ l.pending # 0 /\ l.requests < MaxRequests

CanEndRequest(l, elapsed) ==
    /\ l.task
    /\ l.pending # 0
    /\ EnsureElapsed(l, elapsed)
    /\ l.requests < MaxRequests

SettleRequest(l, elapsed, tokens, kind) ==
    [l EXCEPT !.pending = 0, !.requests = @ + 1, !.stageRequests = @ + 1,
              !.tokens = @ + tokens, !.elapsed = elapsed, !.state = StateAfter(kind)]

\* interrupt_request applies its own record to a copy first.
CanInterrupt(l, elapsed) == AcceptProviderInterrupted(l, l.pending, l.stage, elapsed)

CanRecordToolBatch(l, elapsed, f) ==
    /\ l.task
    /\ l.state = "pending_tools"
    /\ l.stageRequests > 0 /\ l.stageRequests <= MaxRequests
    /\ EnsureElapsed(l, elapsed)
    /\ NextRepeat(l, f) <= RepeatLimit
RecordToolBatch(l, elapsed, f) ==
    [l EXCEPT !.elapsed = elapsed, !.fingerprint = f,
              !.repeat = NextRepeat(l, f), !.state = "ready"]

CanCheckpoint(l, elapsed, f) ==
    /\ l.task
    /\ l.state = "ready"
    /\ l.stageRequests > 0 /\ l.stageRequests <= MaxRequests
    /\ EnsureElapsed(l, elapsed)
    /\ l.fingerprint = f
    /\ l.repeat <= RepeatLimit
Checkpoint(l, elapsed) ==
    [l EXCEPT !.stage = @ + 1, !.stageRequests = 0, !.elapsed = elapsed, !.state = "ready"]

\* pause, fail_terminal and complete: the run returns right after the record,
\* so nothing reads the state they assign.
CanPause(l)        == l.state = "ready"
CanFailTerminal(l) == l.task /\ l.state = "ready"
CanComplete(l)     == l.state = "final_pending"

=============================================================================
