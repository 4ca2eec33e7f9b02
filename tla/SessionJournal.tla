--------------------------- MODULE SessionJournal ---------------------------
(***************************************************************************)
(* The durable session journal (src/src/session.rs), seen through the      *)
(* recovery scan.                                                          *)
(*                                                                         *)
(* The file is an append-only list of JSONL entries and every opening      *)
(* folds the whole list: Recovery::message and Recovery::operation over    *)
(* the tool calls, Ledger::apply over the long-task records, and           *)
(* validate_bindings over neighbouring entries.  The model keeps the       *)
(* result of that fold instead of the list and advances it with every      *)
(* appended entry; "valid" is whether the fold has accepted every entry so *)
(* far, so a record the scan would refuse leaves the journal unreadable    *)
(* for good, as it does in the code.                                       *)
(***************************************************************************)
EXTENDS LongTaskLedger

CONSTANT Calls   \* tool call ids the provider may use

EntryKinds == { "header", "user", "assistant", "result", "operation",
                "compaction", "created", "request_started", "long_task" }

Journal == [ valid   : BOOLEAN,
             calls   : SUBSET Calls,   \* Recovery.calls
             results : SUBSET Calls,   \* Recovery.results
             started : SUBSET Calls,   \* Recovery.started
             settled : SUBSET Calls,   \* Recovery.settled
             user    : BOOLEAN,        \* latest_user.is_some()
             last    : EntryKinds,     \* the entry a binding must follow
             ledger  : Ledger ]        \* Ledger::from_records

EmptyJournal == [ valid |-> TRUE, calls |-> {}, results |-> {}, started |-> {},
                  settled |-> {}, user |-> FALSE, last |-> "header",
                  ledger |-> DefaultLedger ]

\* Mutant of Resolved: a call without a result does not count.
ResolvedOperations(j) == j.started = {}

\* Recovery::complete: no operation is open and every call has its result.
Resolved(j) == j.started = {} /\ j.calls \subseteq j.results

-----------------------------------------------------------------------------
(* Appending an entry: what the next scan makes of it.                     *)

Entry(j, kind, accepted) == [j EXCEPT !.valid = @ /\ accepted, !.last = kind]

LogUser(j) == [Entry(j, "user", TRUE) EXCEPT !.user = TRUE]

LogAssistant(j, cs) ==
    [Entry(j, "assistant", cs \cap j.calls = {}) EXCEPT !.calls = @ \cup cs]

LogResult(j, c) ==
    [Entry(j, "result", c \in j.calls /\ c \notin j.results)
        EXCEPT !.results = @ \cup {c}]

LogStarted(j, c) ==
    [Entry(j, "operation", /\ c \in j.calls
                           /\ c \notin j.results \cup j.settled \cup j.started)
        EXCEPT !.started = @ \cup {c}]

LogSettled(j, c) ==
    [Entry(j, "operation", /\ c \in j.calls
                           /\ c \in j.results \cap j.started
                           /\ c \notin j.settled)
        EXCEPT !.started = @ \ {c}, !.settled = @ \cup {c}]

\* A checkpoint must never hide an in-flight batch, nor lack a user request.
LogCompaction(j) == Entry(j, "compaction", Resolved(j) /\ j.user)

LogTask(j, kind, accepted, l) == [Entry(j, kind, accepted) EXCEPT !.ledger = l]

-----------------------------------------------------------------------------
(* The long-task records, each with the fields the running ledger m writes. *)

\* validate_bindings: creation directly follows the prompt it belongs to.
LogCreated(j) ==
    LogTask(j, "created", j.last = "user" /\ AcceptCreated(j.ledger),
            ReplayCreated(j.ledger))

LogRequestStarted(j, m, elapsed) ==
    LogTask(j, "request_started",
            AcceptRequestStarted(j.ledger, m.requests + 1, m.stage, elapsed),
            ReplayRequestStarted(j.ledger, m.requests + 1, elapsed))

LogRequestSettled(j, m, elapsed, tokens, kind) ==
    LogTask(j, "long_task",
            AcceptRequestSettled(j.ledger, m.pending, m.stage, elapsed, kind),
            ReplayRequestSettled(j.ledger, elapsed, tokens, kind))

LogRequestFailed(j, m, elapsed, tokens) ==
    LogTask(j, "long_task",
            AcceptRequestFailed(j.ledger, m.pending, m.stage, elapsed),
            ReplayRequestFailed(j.ledger, elapsed, tokens))

\* validate_bindings: an interruption directly follows its reservation.
LogInterrupted(j, m, elapsed) ==
    LogTask(j, "long_task",
            /\ j.last = "request_started"
            /\ AcceptProviderInterrupted(j.ledger, m.pending, m.stage, elapsed),
            ReplayProviderInterrupted(j.ledger, elapsed))

LogToolBatch(j, m, elapsed, f) ==
    LogTask(j, "long_task",
            AcceptToolBatch(j.ledger, m.stage, m.stageRequests, elapsed, f, NextRepeat(m, f)),
            ReplayToolBatch(j.ledger, m.stageRequests, elapsed, f, NextRepeat(m, f)))

LogCheckpoint(j, m, elapsed, f) ==
    LogTask(j, "long_task",
            AcceptCheckpoint(j.ledger, m.stage + 1, m.stageRequests, elapsed, f, m.repeat),
            ReplayCheckpoint(j.ledger, m.stage + 1, elapsed, f, m.repeat))

LogPaused(j, m) ==
    LogTask(j, "long_task", AcceptAtBoundary(j.ledger, m.stage, m.elapsed),
            ReplayPaused(j.ledger, m.elapsed))

LogTaskFailed(j, m) ==
    LogTask(j, "long_task", AcceptAtBoundary(j.ledger, m.stage, m.elapsed),
            ReplayFailed(j.ledger, m.elapsed))

LogCompleted(j, m) ==
    LogTask(j, "long_task", AcceptCompleted(j.ledger, m.stage, m.elapsed),
            ReplayCompleted(j.ledger, m.elapsed))

=============================================================================
