--------------------------- MODULE AgentLoopProofs ---------------------------
(***************************************************************************)
(* Type correctness and safety of the agent loop, for every value of the   *)
(* limits and any set of calls.                                            *)
(*                                                                         *)
(* The type alone is not inductive: that a request step has a slot to      *)
(* count down depends on which steps spend slots, and that a call is       *)
(* current depends on the step; TypeInv adds both.  The safety properties  *)
(* follow from Inv.  Whether a record will be accepted by the next opening *)
(* depends on where the run is, on the agreement of its two ledgers and on *)
(* which calls are still open; each conjunct of Inv states one such        *)
(* dependency, and they only hold together.                                *)
(*                                                                         *)
(* Accounts: every request sent is in the ledger or given up by a crash,   *)
(* the slots left and the requests used stay within the task's budget, and *)
(* a run ends in a state its outcome explains.  It is inductive together   *)
(* with Inv.  ResultsMarked relates results to the marks of their calls,   *)
(* and with it the loop implements AtMostOnce.                             *)
(***************************************************************************)
EXTENDS AgentLoop, TLAPS

LongSteps  == { "create", "handshake", "summaryPause", "settle", "complete", "blocked",
                "stage", "stagePause", "boundary" }
BatchSteps == {"dispatch", "execute", "result", "settleOp"}

\* Which step belongs to which kind of run.
ModeFits ==
    /\ pc = "idle" <=> mode = "none"
    /\ pc \in LongSteps => mode = "long"
    /\ pc = "final" => mode = "short"

\* A request step always has a slot to spend.
SlotsFit ==
    pc \in {"summary", "awaitSummary", "summaryPause", "compacted", "request"} => remaining >= 1

\* While a call is handled there is one.
CurFits == pc \in {"execute", "result", "settleOp"} => cur \in Calls

TypeInv == TypeOK /\ ModeFits /\ SlotsFit /\ CurFits

\* The calls the run has not settled, by the step it is at.
InFlight == CASE pc = "settle"                  -> reply.calls
              [] pc \in {"dispatch", "settleOp"} -> todo
              [] pc \in {"execute", "result"}   -> todo \cup {cur}
              [] OTHER                          -> {}

\* What the run believes of the calls is what the journal says of them.
CallsFit ==
    /\ reply.kind # "tools" => reply.calls = {}
    /\ pc # "idle" =>
        /\ ids = journal.calls
        /\ journal.calls \subseteq journal.results \cup InFlight
        /\ InFlight \subseteq journal.calls
        /\ InFlight \cap (journal.results \cup journal.settled) = {}
        /\ todo \cap journal.started = {}
        /\ journal.started = IF pc \in {"execute", "result", "settleOp"} THEN {cur} ELSE {}
        /\ pc \in {"execute", "result", "settleOp"} => cur \in journal.calls \ todo
        /\ pc = "settleOp" => cur \in journal.results \ journal.settled
        /\ pc = "execute" => effects[cur] = 0

\* The durable ledger in itself.
LedgerFits(j) ==
    /\ ~j.ledger.task <=> j.ledger.state = "not_long_task"
    /\ j.ledger.elapsed <= WallMs
    /\ j.ledger.pending # 0 <=> j.ledger.state = "pending_provider"
    /\ j.ledger.task => j.user

\* A journal the next opening reads: the marks of its calls are in order,
\* nothing is marked that was not asked for, and an open call excludes a
\* settled boundary.
Sound(j) ==
    /\ j.valid
    /\ j.results \cup j.started \cup j.settled \subseteq j.calls
    /\ j.started \cap j.settled = {}
    /\ LedgerFits(j)
    /\ j.ledger.state \in {"ready", "paused"} => Resolved(j)

\* The ledger a run works with and the step it is at.
TaskFits ==
    /\ mode = "long" /\ mem.task => mem = journal.ledger
    /\ mode = "long" /\ pc \notin {"prompt", "create"} => mem.task
    /\ (mode = "short" \/ pc = "create" \/ (pc = "prompt" /\ ~mem.task)) => NoUnfinishedTask
    /\ pc = "create" => journal.last = "user" /\ ~mem.task
    /\ pc \notin {"idle", "prompt"} => journal.user
    /\ mode = "long" /\ pc \in {"await", "awaitSummary"} => journal.last = "request_started"
    /\ mode = "long" /\ pc \in {"await", "awaitSummary", "settle"} =>
           mem.state = "pending_provider"
    /\ mode = "long" /\ pc \in BatchSteps => mem.state = "pending_tools"
    /\ pc = "complete" => mem.state = "final_pending"

\* The inductive invariant: what the run believes, what is durable and what was
\* executed (runtime.rs, run) agree at every step, so that a crash at any of
\* them leaves a journal the next opening judges rightly.
Inv ==
    /\ TypeInv
    /\ Sound(journal)
    /\ EffectOnce /\ WriteAhead
    /\ CallsFit /\ TaskFits

\* The requests a ledger has seen: those it has settled and the one in flight.
UsedRequests(l) == l.requests + (IF l.pending = 0 THEN 0 ELSE 1)

\* The steps at which a long task is at a settled boundary.
SettledSteps == { "prompt", "handshake", "loop", "summary", "summaryPause", "compacted",
                  "request", "blocked", "stage", "stagePause", "boundary" }

\* The accounting of a run: the requests sent, the slots left and the tokens used,
\* and how a run that is going on will be able to end.
Accounts ==
    /\ DispatchAccounted /\ CleanExit
    /\ mode = "long" /\ mem.task /\ pc \in SettledSteps => mem.state \in {"ready", "paused"}
    /\ mode = "long" /\ pc \in BatchSteps => mem.tokens <= MaxTokens
    /\ pc # "idle" => outcome = "none" /\ ~torn

-----------------------------------------------------------------------------

\* The in-memory mutators of the ledger (long_task.rs, begin_request to
\* checkpoint) return ledgers.
LEMMA LedgerOps ==
    ASSUME NEW l \in Ledger, NEW e \in Nat, NEW t \in Nat
    PROVE  /\ DefaultLedger \in Ledger
           /\ ReplayCreated(l) \in Ledger
           /\ BeginRequest(l, e) \in Ledger
           /\ \A k \in ResponseKinds : SettleRequest(l, e, t, k) \in Ledger
           /\ \A f \in Fingerprints : /\ RecordToolBatch(l, e, f) \in Ledger
                                      /\ NextRepeat(l, f) \in Nat
           /\ Checkpoint(l, e) \in Ledger
<1>1. /\ l.requests + 1 \in Nat /\ l.stageRequests + 1 \in Nat /\ l.tokens + t \in Nat
      /\ l.stage + 1 \in Nat
  BY DEF Ledger
<1>2. \A k \in ResponseKinds : StateAfter(k) \in TaskStates
  BY DEF StateAfter, TaskStates, ResponseKinds
<1>3. DefaultLedger \in Ledger  BY DEF Ledger, DefaultLedger, TaskStates
<1>4. ReplayCreated(l) \in Ledger
  BY <1>3 DEF ReplayCreated, Ledger, DefaultLedger, TaskStates
<1>5. BeginRequest(l, e) \in Ledger  BY <1>1 DEF BeginRequest, Ledger, TaskStates
<1>6. \A k \in ResponseKinds : SettleRequest(l, e, t, k) \in Ledger
  BY <1>1, <1>2 DEF SettleRequest, Ledger
<1>7. ASSUME NEW f \in Fingerprints
      PROVE  RecordToolBatch(l, e, f) \in Ledger /\ NextRepeat(l, f) \in Nat
  <2>1. NextRepeat(l, f) \in Nat  BY DEF NextRepeat, Ledger
  <2> QED  BY <2>1 DEF RecordToolBatch, Ledger, TaskStates
<1>8. Checkpoint(l, e) \in Ledger  BY <1>1 DEF Checkpoint, Ledger, TaskStates
<1> QED  BY <1>3, <1>4, <1>5, <1>6, <1>7, <1>8

\* So do the replay arms (long_task.rs, Ledger::apply).
LEMMA ReplayOps ==
    ASSUME NEW l \in Ledger, NEW e \in Nat, NEW t \in Nat, NEW n \in Nat, NEW r \in Nat, NEW f \in Fingerprints \cup {NoFingerprint}
    PROVE  /\ ReplayRequestStarted(l, n, e) \in Ledger
           /\ \A k \in ResponseKinds : ReplayRequestSettled(l, e, t, k) \in Ledger
           /\ ReplayProviderInterrupted(l, e) \in Ledger
           /\ ReplayRequestFailed(l, e, t) \in Ledger
           /\ ReplayToolBatch(l, n, e, f, r) \in Ledger
           /\ ReplayCheckpoint(l, n, e, f, r) \in Ledger
           /\ ReplayPaused(l, e) \in Ledger
           /\ ReplayFailed(l, e) \in Ledger
           /\ ReplayCompleted(l, e) \in Ledger
<1>1. /\ l.requests + 1 \in Nat /\ l.stageRequests + 1 \in Nat /\ l.tokens + t \in Nat
      /\ l.tokens + 0 \in Nat /\ l.interrupted + 1 \in Nat
  BY DEF Ledger
<1>2. \A k \in ResponseKinds : StateAfter(k) \in TaskStates
  BY DEF StateAfter, TaskStates, ResponseKinds
<1>3. ReplayRequestStarted(l, n, e) \in Ledger
  BY DEF ReplayRequestStarted, Ledger, TaskStates
<1>4. \A k \in ResponseKinds : ReplayRequestSettled(l, e, t, k) \in Ledger
  BY <1>1, <1>2 DEF ReplayRequestSettled, AddRequest, Ledger
<1>5. ReplayProviderInterrupted(l, e) \in Ledger
  BY <1>1 DEF ReplayProviderInterrupted, AddRequest, Ledger, TaskStates
<1>6. ReplayRequestFailed(l, e, t) \in Ledger
  BY <1>1 DEF ReplayRequestFailed, AddRequest, Ledger, TaskStates
<1>7. ReplayToolBatch(l, n, e, f, r) \in Ledger  BY DEF ReplayToolBatch, Ledger, TaskStates
<1>8. ReplayCheckpoint(l, n, e, f, r) \in Ledger  BY DEF ReplayCheckpoint, Ledger, TaskStates
<1>9. /\ ReplayPaused(l, e) \in Ledger
      /\ ReplayFailed(l, e) \in Ledger
      /\ ReplayCompleted(l, e) \in Ledger
  BY DEF ReplayPaused, ReplayFailed, ReplayCompleted, Ledger, TaskStates
<1> QED  BY <1>3, <1>4, <1>5, <1>6, <1>7, <1>8, <1>9

\* Appending an entry of any kind leaves a journal.
LEMMA EntryType ==
    ASSUME NEW j \in Journal, NEW kind \in EntryKinds, NEW accepted
    PROVE  Entry(j, kind, accepted) \in Journal
  BY DEF Entry, Journal

\* A ledger record leaves a journal when the ledger it yields is one.
LEMMA LogTaskType ==
    ASSUME NEW j \in Journal, NEW kind \in EntryKinds, NEW accepted, NEW l \in Ledger
    PROVE  LogTask(j, kind, accepted, l) \in Journal
  BY EntryType DEF LogTask, Journal

\* Each entry of a conversation leaves a journal.
LEMMA LogTypes ==
    ASSUME NEW j \in Journal, NEW c \in Calls, NEW cs \in SUBSET Calls
    PROVE  /\ EmptyJournal \in Journal
           /\ LogUser(j) \in Journal /\ LogAssistant(j, cs) \in Journal
           /\ LogResult(j, c) \in Journal
           /\ LogStarted(j, c) \in Journal /\ LogSettled(j, c) \in Journal
           /\ LogCompaction(j) \in Journal
<1>0. DefaultLedger \in Ledger  BY DEF Ledger, DefaultLedger, TaskStates
<1>1. EmptyJournal \in Journal  BY <1>0 DEF EmptyJournal, Journal, EntryKinds
<1>2. LogUser(j) \in Journal  BY DEF LogUser, Entry, Journal, EntryKinds
<1>3. LogAssistant(j, cs) \in Journal  BY DEF LogAssistant, Entry, Journal, EntryKinds
<1>4. LogResult(j, c) \in Journal  BY DEF LogResult, Entry, Journal, EntryKinds
<1>5. LogStarted(j, c) \in Journal  BY DEF LogStarted, Entry, Journal, EntryKinds
<1>6. LogSettled(j, c) \in Journal  BY DEF LogSettled, Entry, Journal, EntryKinds
<1>7. LogCompaction(j) \in Journal  BY DEF LogCompaction, Entry, Journal, EntryKinds
<1> QED  BY <1>1, <1>2, <1>3, <1>4, <1>5, <1>6, <1>7

\* Each record of the ledger leaves a journal.
LEMMA LogTaskTypes ==
    ASSUME NEW j \in Journal, NEW m \in Ledger, NEW e \in Nat, NEW t \in Nat
    PROVE  /\ LogCreated(j) \in Journal
           /\ LogRequestStarted(j, m, e) \in Journal
           /\ \A k \in ResponseKinds : LogRequestSettled(j, m, e, t, k) \in Journal
           /\ LogRequestFailed(j, m, e, t) \in Journal
           /\ LogInterrupted(j, m, e) \in Journal
           /\ \A f \in Fingerprints : LogToolBatch(j, m, e, f) \in Journal
           /\ LogCheckpoint(j, m, e, m.fingerprint) \in Journal
           /\ LogPaused(j, m) \in Journal
           /\ LogTaskFailed(j, m) \in Journal
           /\ LogCompleted(j, m) \in Journal
<1>0. j.ledger \in Ledger  BY DEF Journal
<1>1. /\ m.requests + 1 \in Nat /\ m.stage + 1 \in Nat /\ m.stageRequests \in Nat
      /\ m.elapsed \in Nat /\ m.repeat \in Nat
      /\ m.fingerprint \in Fingerprints \cup {NoFingerprint}
  BY DEF Ledger
<1>2. {"created", "request_started", "long_task"} \subseteq EntryKinds  BY DEF EntryKinds
<1>3. LogCreated(j) \in Journal
  <2>1. ReplayCreated(j.ledger) \in Ledger  BY DEF ReplayCreated, DefaultLedger, Ledger, TaskStates
  <2> QED  BY <1>2, <2>1, LogTaskType DEF LogCreated
<1>4. LogRequestStarted(j, m, e) \in Journal
  BY <1>0, <1>1, <1>2, ReplayOps, LogTaskType DEF LogRequestStarted
<1>5. \A k \in ResponseKinds : LogRequestSettled(j, m, e, t, k) \in Journal
  BY <1>0, <1>1, <1>2, ReplayOps, LogTaskType DEF LogRequestSettled
<1>6. LogRequestFailed(j, m, e, t) \in Journal
  BY <1>0, <1>1, <1>2, ReplayOps, LogTaskType DEF LogRequestFailed
<1>7. LogInterrupted(j, m, e) \in Journal
  BY <1>0, <1>1, <1>2, ReplayOps, LogTaskType DEF LogInterrupted
<1>8. ASSUME NEW f \in Fingerprints  PROVE LogToolBatch(j, m, e, f) \in Journal
  <2>1. NextRepeat(m, f) \in Nat  BY LedgerOps
  <2>2. ReplayToolBatch(j.ledger, m.stageRequests, e, f, NextRepeat(m, f)) \in Ledger
    BY <1>0, <1>1, <2>1, ReplayOps
  <2> QED  BY <1>2, <2>2, LogTaskType DEF LogToolBatch
<1>9. LogCheckpoint(j, m, e, m.fingerprint) \in Journal
  BY <1>0, <1>1, <1>2, ReplayOps, LogTaskType DEF LogCheckpoint
<1>10. LogPaused(j, m) \in Journal /\ LogTaskFailed(j, m) \in Journal /\ LogCompleted(j, m) \in Journal
  BY <1>0, <1>1, <1>2, ReplayOps, LogTaskType DEF LogPaused, LogTaskFailed, LogCompleted
<1> QED  BY <1>3, <1>4, <1>5, <1>6, <1>7, <1>8, <1>9, <1>10

-----------------------------------------------------------------------------

\* A run that is gone leaves only what is durable.
LEMMA VanishType ==
    ASSUME NEW how \in Outcomes, Vanish(how), journal' \in Journal, torn' \in BOOLEAN,
           guard' \in Guards, effects' \in [Calls -> Nat], dispatched' \in Nat
    PROVE  TypeInv'
<1>1. DefaultLedger \in Ledger  BY DEF Ledger, DefaultLedger, TaskStates
<1>2. NoReply \in Replies  BY DEF NoReply, Replies, ReplyKinds
<1> QED  BY <1>1, <1>2 DEF TypeInv, TypeOK, ModeFits, SlotsFit, CurFits, Vanish, Steps, LongSteps

\* A run that returns leaves only what is durable.
LEMMA LeaveType ==
    ASSUME TypeInv, NEW how \in Outcomes, Leave(how), journal' \in Journal, UNCHANGED ghost
    PROVE  TypeInv'
  BY VanishType DEF TypeInv, TypeOK, Leave, ghost

\* What an appended entry leaves to be shown.
LEMMA StepType ==
    ASSUME TypeInv, NEW next \in Steps, NEW j \in Journal, Step(next, j), pc # "idle",
           next \in LongSteps => mode = "long",
           next = "final" => mode = "short",
           mem' \in Ledger, ids' \subseteq Calls, remaining' \in Nat, reply' \in Replies,
           todo' \subseteq Calls, cur' \in Calls \cup {NoCall}, guard' \in Guards,
           continuations' \in Nat, effects' \in [Calls -> Nat], dispatched' \in Nat,
           next \in {"summary", "awaitSummary", "summaryPause", "compacted", "request"}
               => remaining' >= 1,
           next \in {"execute", "result", "settleOp"} => cur' \in Calls
    PROVE  TypeInv'
  BY DEF TypeInv, TypeOK, ModeFits, SlotsFit, CurFits, Step, Steps

\* Before the first run the journal is empty and every variable has its type.
THEOREM TypeInitially == Init => TypeInv
<1> SUFFICES ASSUME Init PROVE TypeInv  OBVIOUS
<1>1. DefaultLedger \in Ledger  BY DEF Ledger, DefaultLedger, TaskStates
<1>2. EmptyJournal \in Journal
  BY <1>1 DEF EmptyJournal, Journal, EntryKinds
<1>3. NoReply \in Replies /\ NoGuard \in Guards
  BY DEF NoReply, Replies, ReplyKinds, NoGuard, Guards
<1> QED
  BY <1>1, <1>2, <1>3 DEF Init, TypeInv, TypeOK, ModeFits, SlotsFit, CurFits, Steps, LongSteps,
     Outcomes

\* Opening a journal (runtime.rs, run) keeps the types.
LEMMA StartTypes == ASSUME TypeInv, Invoke  PROVE TypeInv'
<1>1. NoGuard \in Guards  BY DEF NoGuard, Guards
<1>2. DefaultLedger \in Ledger /\ journal.ledger \in Ledger
  BY DEF Ledger, DefaultLedger, TaskStates, TypeInv, TypeOK, Journal
<1>3. ASSUME NEW next \in {"prompt", "handshake"}, NEW m \in {"short", "long"},
             NEW l \in {DefaultLedger, journal.ledger}, Start(next, m, l),
             next = "handshake" => m = "long"
      PROVE TypeInv'
  <2>1. l \in Ledger /\ l.elapsed \in Nat  BY <1>2 DEF Ledger
  <2>2. journal.calls \subseteq Calls  BY DEF TypeInv, TypeOK, Journal
  <2> QED
    BY <1>1, <2>1, <2>2, <1>3, LoopAssumption
    DEF Start, TypeInv, TypeOK, ModeFits, SlotsFit, CurFits, Steps, LongSteps, Outcomes, ghost
<1> QED  BY <1>3 DEF Invoke, StartShort, StartTask, ResumeTask

\* A request is reserved, or the run ends without one.
LEMMA ReserveType ==
    ASSUME TypeInv, NEW next \in {"await", "awaitSummary"}, Reserve(next), pc # "idle",
           pc' # "idle" => remaining' \in Nat,
           next = "awaitSummary" /\ pc' # "idle" => remaining' >= 1
    PROVE  TypeInv'
<1>1. CASE mode = "short"
  <2>1. Step(next, journal) /\ UNCHANGED <<mem, ghost, reply, batch, short, ids>>
    BY <1>1 DEF Reserve
  <2>2. pc' = next  BY <2>1 DEF Step
  <2> QED
    BY <1>1, <2>1, <2>2, StepType
    DEF TypeInv, TypeOK, ghost, batch, short, Steps, LongSteps
<1>2. CASE mode # "short" /\ CanBeginRequest(mem, clock)
  <2>1. /\ Step(next, LogRequestStarted(journal, mem, clock))
        /\ mem' = BeginRequest(mem, clock) /\ dispatched' = dispatched + 1
        /\ UNCHANGED <<effects, reply, batch, short, ids>>
    BY <1>2 DEF Reserve
  <2>2. pc' = next  BY <2>1 DEF Step
  <2>4. LogRequestStarted(journal, mem, clock) \in Journal
    BY LogTaskTypes, 0 \in Nat DEF TypeInv, TypeOK
  <2>5. BeginRequest(mem, clock) \in Ledger
    BY LedgerOps, 0 \in Nat DEF TypeInv, TypeOK
  <2> QED
    BY <2>1, <2>2, <2>4, <2>5, StepType
    DEF TypeInv, TypeOK, batch, short, Steps, LongSteps
<1>3. CASE mode # "short" /\ ~CanBeginRequest(mem, clock)
  BY <1>3, LeaveType DEF Reserve, TypeInv, TypeOK, Outcomes
<1> QED  BY <1>1, <1>2, <1>3

\* The way to a request, through compaction or not, keeps the types.
LEMMA RequestTypes ==
    ASSUME TypeInv,
           \/ SkipCompaction \/ BeginCompaction \/ SendSummary
           \/ \E next \in {"summary", "compacted"}, t \in TokenDeltas : SummaryArrives(next, t)
           \/ PauseOverBudgetSummary \/ RecordCompaction \/ SendRequest
    PROVE  TypeInv'
<1> USE DEF TypeInv, TypeOK
<1>1. CASE SkipCompaction
  BY <1>1, StepType DEF SkipCompaction, MayIterate, Steps, LongSteps, ghost, batch, short
<1>2. CASE BeginCompaction
  BY <1>2, StepType DEF BeginCompaction, MayIterate, Steps, LongSteps, ghost, batch, short
<1>3. CASE SendSummary
  <2>1. CASE TooFewSlots
    BY <1>3, <2>1, LeaveType DEF SendSummary, Outcomes
  <2>2. CASE ~TooFewSlots
    BY <1>3, <2>2, ReserveType DEF SendSummary, TooFewSlots, Spend
  <2> QED  BY <2>1, <2>2
<1>4. ASSUME NEW next \in {"summary", "compacted"}, NEW t \in TokenDeltas,
             SummaryArrives(next, t)
      PROVE TypeInv'
  <2>1. CASE mode = "short" /\ Step(next, journal)
                            /\ UNCHANGED <<mem, ids, remaining, reply, batch, short>>
    BY <1>4, <2>1, StepType DEF SummaryArrives, SlotsFit, Steps, LongSteps, ghost, batch, short
  <2>2. CASE mode = "long" /\ CanEndRequest(mem, clock)
    <3> DEFINE to == IF mem'.tokens >= MaxTokens THEN "summaryPause" ELSE next
               j == LogRequestSettled(journal, mem, clock, t, "summary")
    <3>0. t \in Nat /\ "summary" \in ResponseKinds  BY LoopAssumption DEF ResponseKinds
    <3>1. /\ mem' = SettleRequest(mem, clock, t, "summary") /\ Step(to, j)
          /\ UNCHANGED <<ids, remaining, reply, batch, short, ghost>>
      BY <1>4, <2>2 DEF SummaryArrives
    <3>2. j \in Journal  BY <3>0, LogTaskTypes
    <3>3. SettleRequest(mem, clock, t, "summary") \in Ledger
      BY <3>0, LedgerOps
    <3>4. pc = "awaitSummary" /\ to \in Steps  BY <1>4 DEF SummaryArrives, Steps
    <3> QED
      BY <2>2, <3>1, <3>2, <3>3, <3>4, StepType DEF SlotsFit, LongSteps, ghost, batch, short
  <2>3. CASE mode = "long" /\ ~CanEndRequest(mem, clock)
    BY <1>4, <2>3, LeaveType DEF SummaryArrives, Outcomes
  <2> QED  BY <1>4, <2>1, <2>2, <2>3 DEF SummaryArrives
<1>5. CASE PauseOverBudgetSummary
  <2>2. LogPaused(journal, mem) \in Journal  BY LogTaskTypes, 0 \in Nat
  <2> QED  BY <1>5, <2>2, LeaveType DEF PauseOverBudgetSummary, EndWith, Outcomes
<1>6. CASE RecordCompaction
  <2>1. LogCompaction(journal) \in Journal
    BY DEF LogCompaction, Entry, Journal, EntryKinds
  <2> QED
    BY <1>6, <2>1, StepType DEF RecordCompaction, SlotsFit, Steps, LongSteps, ghost, batch, short
<1>7. CASE SendRequest
  BY <1>7, ReserveType DEF SendRequest, SlotsFit, Spend
<1> QED  BY <1>1, <1>2, <1>3, <1>4, <1>5, <1>6, <1>7

\* The steps at a settled boundary keep the types.
LEMMA BoundaryTypes ==
    ASSUME TypeInv,
           \/ AppendPrompt \/ CreateTask \/ PauseAtBoundary \/ EnterLoop \/ StopAtBudget
           \/ NextIteration \/ BlockRepeating \/ RecordStage \/ PauseAfter \/ CompleteTask
    PROVE  TypeInv'
<1> USE DEF TypeInv, TypeOK
<1>0. /\ LogPaused(journal, mem) \in Journal /\ LogTaskFailed(journal, mem) \in Journal
      /\ LogCompleted(journal, mem) \in Journal /\ LogCreated(journal) \in Journal
      /\ PausedJournal \in Journal
      /\ LogCheckpoint(journal, mem, clock, mem.fingerprint) \in Journal
  BY LogTaskTypes, 0 \in Nat DEF PausedJournal
<1>1. CASE AppendPrompt
  <2>1. LogUser(journal) \in Journal  BY DEF LogUser, Entry, Journal, EntryKinds
  <2>2. mode \in {"short", "long"}  BY <1>1 DEF AppendPrompt, ModeFits
  <2> QED
    BY <1>1, <2>1, <2>2, StepType DEF AppendPrompt, Steps, LongSteps, ghost, batch, short
<1>2. CASE CreateTask
  <2>1. journal' = LogCreated(journal)  BY <1>2 DEF CreateTask, Step
  <2>2. journal'.ledger \in Ledger  BY <1>0, <2>1 DEF Journal
  <2> QED
    BY <1>0, <1>2, <2>2, StepType
    DEF CreateTask, ModeFits, Steps, LongSteps, ghost, batch, short
<1>3. CASE PauseAtBoundary
  BY <1>0, <1>3, LeaveType DEF PauseAtBoundary, Outcomes
<1>4. CASE EnterLoop
  <2>1. SlotsLeft(mem) \in Nat  BY LimitsAssumption DEF SlotsLeft, Ledger
  <2> QED
    BY <1>4, <2>1, StepType DEF EnterLoop, Steps, LongSteps, ghost, batch, short
<1>5. CASE StopAtBudget
  BY <1>0, <1>5, LeaveType DEF StopAtBudget, Outcomes
<1>6. CASE NextIteration
  BY <1>6, StepType DEF NextIteration, Steps, LongSteps, ghost, batch, short
<1>7. CASE BlockRepeating
  BY <1>0, <1>7, LeaveType DEF BlockRepeating, EndWith, Outcomes
<1>8. CASE RecordStage
  <2>1. Checkpoint(mem, clock) \in Ledger  BY LedgerOps, 0 \in Nat
  <2>2. CASE CanCheckpoint(mem, clock, mem.fingerprint)
    BY <1>0, <1>8, <2>1, <2>2, StepType
    DEF RecordStage, ModeFits, Steps, LongSteps, ghost, batch, short
  <2>3. CASE ~CanCheckpoint(mem, clock, mem.fingerprint)
    BY <1>8, <2>3, LeaveType DEF RecordStage, Outcomes
  <2> QED  BY <2>2, <2>3
<1>9. CASE PauseAfter
  BY <1>0, <1>9, LeaveType DEF PauseAfter, EndWith, Outcomes
<1>10. CASE CompleteTask
  BY <1>0, <1>10, LeaveType DEF CompleteTask, EndWith, Outcomes
<1> QED  BY <1>1, <1>2, <1>3, <1>4, <1>5, <1>6, <1>7, <1>8, <1>9, <1>10

\* What the provider answers, or that it does not, keeps the types.
LEMMA ReplyTypes ==
    ASSUME TypeInv,
           \/ \E t \in TokenDeltas : ProviderFails(t)
           \/ \E how \in {"interrupted", "deadline"} : CancelWait(how)
           \/ \E kind \in ReplyKinds, cs \in SUBSET Calls, t \in TokenDeltas :
                  /\ kind # "tools" => cs = {}
                  /\ ReceiveReply(kind, cs, t)
           \/ RefuseDuplicate \/ SettleReply \/ FinishShort
    PROVE  TypeInv'
<1> USE DEF TypeInv, TypeOK
<1>1. ASSUME NEW t \in TokenDeltas, ProviderFails(t)  PROVE TypeInv'
  <2>1. t \in Nat  BY LoopAssumption
  <2>2. LogRequestFailed(journal, mem, clock, t) \in Journal  BY <2>1, LogTaskTypes
  <2> QED  BY <1>1, <2>2, LeaveType DEF ProviderFails, Outcomes
<1>2. ASSUME NEW how \in {"interrupted", "deadline"}, CancelWait(how)  PROVE TypeInv'
  <2>1. CancelledAt(how) \in Nat  BY LimitsAssumption DEF CancelledAt, LeastOf
  <2>2. LogInterrupted(journal, mem, CancelledAt(how)) \in Journal
    BY <2>1, LogTaskTypes, 0 \in Nat
  <2> QED  BY <1>2, <2>2, LeaveType DEF CancelWait, Outcomes
<1>3. ASSUME NEW kind \in ReplyKinds, NEW cs \in SUBSET Calls, NEW t \in TokenDeltas,
             kind # "tools" => cs = {}, ReceiveReply(kind, cs, t)
      PROVE TypeInv'
  <2>1. LogAssistant(journal, cs) \in Journal
    BY DEF LogAssistant, Entry, Journal, EntryKinds
  <2>2. reply' \in Replies
    BY <1>3, LoopAssumption DEF ReceiveReply, Replies
  <2>3. pc = "await" /\ mode \in {"short", "long"}  BY <1>3 DEF ReceiveReply, ModeFits
  <2> QED
    BY <1>3, <2>1, <2>2, <2>3, StepType
    DEF ReceiveReply, Steps, LongSteps, ghost, short
<1>4. CASE RefuseDuplicate
  BY <1>4, LeaveType DEF RefuseDuplicate, Outcomes
<1>5. CASE SettleReply
  <2> DEFINE kind == IF reply.kind = "tools" THEN "tools" ELSE "final"
             l == SettleRequest(mem, reply.elapsed, reply.tokens, kind)
             j == LogRequestSettled(journal, mem, reply.elapsed, reply.tokens, kind)
  <2>1. reply.elapsed \in Nat /\ reply.tokens \in Nat /\ kind \in ResponseKinds
        /\ reply.calls \subseteq Calls
    BY DEF Replies, ResponseKinds
  <2>2. l \in Ledger  BY <2>1, LedgerOps
  <2>3. j \in Journal  BY <2>1, LogTaskTypes
  <2>4. NoReply \in Replies  BY DEF NoReply, Replies, ReplyKinds
  <2>5. pc = "settle" /\ mode = "long"  BY <1>5 DEF SettleReply, ModeFits, LongSteps
  <2>6. CASE ~CanEndRequest(mem, reply.elapsed)
    BY <1>5, <2>6, LeaveType DEF SettleReply, Outcomes
  <2>7. CASE CanEndRequest(mem, reply.elapsed) /\ (OverBudget(l) \/ reply.kind = "length")
    <3>1. journal' = j /\ Leave(IF OverBudget(l) THEN "budget" ELSE "length") /\ UNCHANGED ghost
      BY <1>5, <2>7 DEF SettleReply
    <3> QED  BY <2>3, <3>1, LeaveType DEF Outcomes
  <2>8. CASE CanEndRequest(mem, reply.elapsed) /\ ~(OverBudget(l) \/ reply.kind = "length")
    <3>1. /\ Step(IF reply.kind = "tools" THEN "dispatch" ELSE "complete", j)
          /\ mem' = l /\ todo' = reply.calls /\ reply' = NoReply
          /\ UNCHANGED <<ids, remaining, cur, short, ghost>>
      BY <1>5, <2>8 DEF SettleReply
    <3> QED
      BY <2>1, <2>2, <2>3, <2>4, <2>5, <3>1, StepType DEF Steps, LongSteps, ghost, short
  <2> QED  BY <2>6, <2>7, <2>8
<1>6. CASE FinishShort
  <2>1. LogUser(journal) \in Journal  BY DEF LogUser, Entry, Journal, EntryKinds
  <2>2. NoReply \in Replies  BY DEF NoReply, Replies, ReplyKinds
  <2> QED
    BY <1>6, <2>1, <2>2, LeaveType, StepType
    DEF FinishShort, Steps, LongSteps, Outcomes, ghost, batch
<1> QED  BY <1>1, <1>2, <1>3, <1>4, <1>5, <1>6

\* The steps of a tool batch keep the types.
LEMMA ToolTypes ==
    ASSUME TypeInv,
           \/ \E c \in Calls, refused \in BOOLEAN : StartTool(c, refused)
           \/ ExecuteTool \/ RecordResult \/ SettleTool
           \/ \E f \in Fingerprints : EndTaskBatch(f) \/ EndShortBatch(f)
    PROVE  TypeInv'
<1> USE DEF TypeInv, TypeOK
<1>1. ASSUME NEW c \in Calls, NEW refused \in BOOLEAN, StartTool(c, refused)  PROVE TypeInv'
  <2>1. LogStarted(journal, c) \in Journal  BY DEF LogStarted, Entry, Journal, EntryKinds
  <2> QED
    BY <1>1, <2>1, StepType DEF StartTool, Steps, LongSteps, ghost, short
<1>2. CASE ExecuteTool
  <2>0. cur \in Calls  BY <1>2 DEF ExecuteTool, CurFits
  <2>1. effects' \in [Calls -> Nat]
    <3>1. effects[cur] + 1 \in Nat  BY <2>0
    <3> QED  BY <1>2, <2>0, <3>1 DEF ExecuteTool
  <2> QED
    BY <1>2, <2>0, <2>1, StepType DEF ExecuteTool, Steps, LongSteps, batch, short
<1>3. CASE RecordResult
  <2>0. cur \in Calls  BY <1>3 DEF RecordResult, CurFits
  <2>1. LogResult(journal, cur) \in Journal
    BY <2>0 DEF LogResult, Entry, Journal, EntryKinds
  <2> QED
    BY <1>3, <2>0, <2>1, StepType DEF RecordResult, Steps, LongSteps, ghost, batch, short
<1>4. CASE SettleTool
  <2>0. cur \in Calls  BY <1>4 DEF SettleTool, CurFits
  <2>1. LogSettled(journal, cur) \in Journal
    BY <2>0 DEF LogSettled, Entry, Journal, EntryKinds
  <2> QED
    BY <1>4, <2>1, StepType DEF SettleTool, Steps, LongSteps, ghost, short
<1>5. ASSUME NEW f \in Fingerprints, EndTaskBatch(f)  PROVE TypeInv'
  <2> DEFINE l == RecordToolBatch(mem, clock, f)
  <2>1. l \in Ledger  BY LedgerOps, 0 \in Nat
  <2>2. LogToolBatch(journal, mem, clock, f) \in Journal  BY LogTaskTypes, 0 \in Nat
  <2>3. CASE CanRecordToolBatch(mem, clock, f)
    <3> DEFINE to == IF l.repeat >= RepeatLimit THEN "blocked"
                     ELSE IF l.stageRequests >= StageRequests \/ l.requests >= MaxRequests
                          THEN "stage" ELSE "boundary"
    <3>1. /\ Step(to, LogToolBatch(journal, mem, clock, f)) /\ mem' = l
          /\ UNCHANGED <<ids, remaining, reply, batch, short, ghost>>
          /\ pc = "dispatch" /\ mode = "long"
      BY <1>5, <2>3 DEF EndTaskBatch
    <3>2. to \in {"blocked", "stage", "boundary"}  OBVIOUS
    <3> QED
      BY <2>1, <2>2, <3>1, <3>2, StepType DEF Steps, ghost, batch, short
  <2>4. CASE ~CanRecordToolBatch(mem, clock, f)
    BY <1>5, <2>4, LeaveType DEF EndTaskBatch, Outcomes
  <2> QED  BY <2>3, <2>4
<1>6. ASSUME NEW f \in Fingerprints, EndShortBatch(f)  PROVE TypeInv'
  <2>1. guard' \in Guards
    <3> DEFINE g == [guard EXCEPT !.fingerprint = f,
                                  !.count = IF guard.fingerprint = f THEN @ + 1 ELSE 1]
    <3>0. (IF guard.fingerprint = f THEN guard.count + 1 ELSE 1) \in Nat  BY DEF Guards
    <3>1. g \in Guards  BY <3>0 DEF Guards
    <3>2. [g EXCEPT !.noticed = f] \in Guards  BY <3>1 DEF Guards
    <3>3. guard' \in {guard, g, [g EXCEPT !.noticed = f]}  BY <1>6 DEF EndShortBatch
    <3> QED  BY <3>1, <3>2, <3>3
  <2>2. NoReply \in Replies  BY DEF NoReply, Replies, ReplyKinds
  <2>3. \/ Vanish("repeat_limit") /\ UNCHANGED <<journal, torn, ghost>>
        \/ /\ Step("loop", journal) /\ reply' = NoReply /\ pc = "dispatch"
           /\ UNCHANGED <<mem, batch, ids, remaining, continuations, ghost>>
    BY <1>6 DEF EndShortBatch
  <2> QED
    BY <2>1, <2>2, <2>3, VanishType, StepType DEF Steps, LongSteps, Outcomes, ghost, batch
<1> QED  BY <1>1, <1>2, <1>3, <1>4, <1>5, <1>6

\* Crashes, torn writes, signals and the clock keep the types.
LEMMA DisturbTypes == ASSUME TypeInv, Disturb  PROVE TypeInv'
<1> USE DEF TypeInv, TypeOK
<1>1. CASE Tick
  BY <1>1 DEF Tick, ModeFits, SlotsFit, CurFits, batch, short, ghost
<1>2. CASE SignalPause
  BY <1>2 DEF SignalPause, ModeFits, SlotsFit, CurFits, batch, short, ghost
<1>3. CASE Abort
  BY <1>3, LeaveType DEF Abort, Outcomes
<1>4. CASE TornAppend
  BY <1>4, VanishType DEF TornAppend, Outcomes, ghost
<1> QED  BY <1>1, <1>2, <1>3, <1>4 DEF Disturb

\* One step of any kind keeps the types.
THEOREM TypePreserved == TypeInv /\ [Next]_vars => TypeInv'
<1> SUFFICES ASSUME TypeInv, [Next]_vars PROVE TypeInv'  OBVIOUS
<1>1. CASE Next
  <2>1. CASE Invoke  BY <2>1, StartTypes
  <2>2. CASE Proceed
    <3>1. {"tools", "stop", "length"} \subseteq ReplyKinds  BY DEF ReplyKinds
    <3> QED
      BY <2>2, <3>1, BoundaryTypes, RequestTypes, ReplyTypes, ToolTypes DEF Proceed
  <2>3. CASE Disturb  BY <2>3, DisturbTypes
  <2> QED  BY <1>1, <2>1, <2>2, <2>3 DEF Next
<1>2. CASE UNCHANGED vars
  BY <1>2 DEF TypeInv, TypeOK, ModeFits, SlotsFit, CurFits, vars
<1> QED  BY <1>1, <1>2

\* Every reachable state has the declared type, for every value of the limits.
THEOREM TypeCorrect == Spec => []TypeOK
<1>1. TypeInv => TypeOK  BY DEF TypeInv
<1> QED  BY <1>1, TypeInitially, TypePreserved, PTL DEF Spec

\* No path through compaction leaves a request step without a slot to spend.
THEOREM SlotsNeverUnderflow == Spec => []ReserveSlot
<1>1. TypeInv => ReserveSlot  BY DEF TypeInv, SlotsFit, ReserveSlot
<1> QED  BY <1>1, TypeInitially, TypePreserved, PTL DEF Spec

-----------------------------------------------------------------------------
(* Entries that keep a journal sound.                                      *)

\* A prompt always, and a compaction at a resolved point, keep a journal sound.
LEMMA PlainEntriesSound ==
    ASSUME NEW j \in Journal, Sound(j)
    PROVE  /\ Sound(LogUser(j))
           /\ Resolved(j) /\ j.user => Sound(LogCompaction(j))
  BY DEF LogUser, LogCompaction, Sound, LedgerFits, Resolved, Entry, Journal

\* Started, result and settled entries keep a journal sound in this order only.
LEMMA CallEntriesSound ==
    ASSUME NEW j \in Journal, Sound(j), NEW c \in Calls
    PROVE  /\ c \in j.calls \ (j.results \cup j.settled \cup j.started)
                  /\ j.ledger.state \notin {"ready", "paused"}
                  => Sound(LogStarted(j, c))
           /\ c \in j.calls \ j.results => Sound(LogResult(j, c))
           /\ c \in (j.results \cap j.started) \ j.settled => Sound(LogSettled(j, c))
<1>1. ASSUME c \in j.calls \ (j.results \cup j.settled \cup j.started),
             j.ledger.state \notin {"ready", "paused"}
      PROVE  Sound(LogStarted(j, c))
  BY <1>1 DEF LogStarted, Sound, LedgerFits, Resolved, Entry, Journal
<1>2. ASSUME c \in j.calls \ j.results  PROVE Sound(LogResult(j, c))
  BY <1>2 DEF LogResult, Sound, LedgerFits, Resolved, Entry, Journal
<1>3. ASSUME c \in (j.results \cap j.started) \ j.settled  PROVE Sound(LogSettled(j, c))
  BY <1>3 DEF LogSettled, Sound, LedgerFits, Resolved, Entry, Journal
<1> QED  BY <1>1, <1>2, <1>3

\* What a ledger record has to fulfil to keep a journal sound.
LEMMA TaskEntrySound ==
    ASSUME NEW j \in Journal, Sound(j), NEW kind \in EntryKinds, NEW l \in Ledger,
           ~l.task <=> l.state = "not_long_task",
           l.elapsed <= WallMs,
           l.pending # 0 <=> l.state = "pending_provider",
           l.task => j.user,
           l.state \in {"ready", "paused"} => Resolved(j),
           NEW accepted, accepted
    PROVE  /\ Sound(LogTask(j, kind, accepted, l))
           /\ LogTask(j, kind, accepted, l).ledger = l
  BY DEF Sound, LedgerFits, Resolved, LogTask, Entry, Journal

\* With the run's ledger in step with the journal, a record the run writes is
\* accepted by the replay and leaves both ledgers equal again.
LEMMA RequestRecordsSound ==
    ASSUME NEW j \in Journal, Sound(j), NEW l, l = j.ledger, NEW e \in Nat, NEW t \in Nat
    PROVE  /\ CanBeginRequest(l, e) =>
                  /\ Sound(LogRequestStarted(j, l, e))
                  /\ LogRequestStarted(j, l, e).ledger = BeginRequest(l, e)
           /\ \A k \in ResponseKinds :
                  CanEndRequest(l, e) /\ (k = "summary" => Resolved(j)) =>
                      /\ Sound(LogRequestSettled(j, l, e, t, k))
                      /\ LogRequestSettled(j, l, e, t, k).ledger = SettleRequest(l, e, t, k)
           /\ CanEndRequest(l, e) => Sound(LogRequestFailed(j, l, e, t))
           /\ CanInterrupt(l, e) /\ j.last = "request_started" /\ Resolved(j) =>
                  Sound(LogInterrupted(j, l, e))
<1>0. /\ l \in Ledger /\ {"created", "request_started", "long_task"} \subseteq EntryKinds
      /\ l.requests + 1 \in Nat /\ l.requests + 1 # 0
  BY DEF Journal, Ledger, EntryKinds
<1>t. l.task => j.user /\ l.state # "not_long_task"  BY DEF Sound, LedgerFits
<1>1. ASSUME CanBeginRequest(l, e)
      PROVE  /\ Sound(LogRequestStarted(j, l, e))
             /\ LogRequestStarted(j, l, e).ledger = BeginRequest(l, e)
  <2> DEFINE n == ReplayRequestStarted(l, l.requests + 1, e)
  <2>1. n \in Ledger  BY <1>0, 0 \in Nat, ReplayOps
  <2>2. AcceptRequestStarted(l, l.requests + 1, l.stage, e)
    BY <1>1 DEF CanBeginRequest, ResumeAllowed, AcceptRequestStarted, Sound, LedgerFits
  <2>3. n.task /\ n.state = "pending_provider" /\ n.elapsed = e /\ n.pending # 0
    BY <1>0, <2>2 DEF ReplayRequestStarted, AcceptRequestStarted, Ledger
  <2>4. e <= WallMs  BY <1>1 DEF CanBeginRequest, EnsureElapsed
  <2>5. n = BeginRequest(l, e)  BY <1>0 DEF ReplayRequestStarted, BeginRequest, Ledger
  <2>6. /\ Sound(LogTask(j, "request_started", AcceptRequestStarted(l, l.requests + 1, l.stage, e), n))
        /\ LogTask(j, "request_started", AcceptRequestStarted(l, l.requests + 1, l.stage, e), n).ledger = n
    <3> HIDE DEF n
    <3> QED BY <1>0, <1>t, <1>1, <2>1, <2>2, <2>3, <2>4, TaskEntrySound DEF CanBeginRequest,
               ResumeAllowed
  <2> QED  BY <2>5, <2>6 DEF LogRequestStarted
<1>2. ASSUME CanEndRequest(l, e), NEW k \in ResponseKinds, k = "summary" => Resolved(j)
      PROVE  /\ Sound(LogRequestSettled(j, l, e, t, k))
             /\ LogRequestSettled(j, l, e, t, k).ledger = SettleRequest(l, e, t, k)
  <2> DEFINE n == ReplayRequestSettled(l, e, t, k)
             a == AcceptRequestSettled(l, l.pending, l.stage, e, k)
  <2>1. n \in Ledger  BY <1>0, 0 \in Nat, ReplayOps
  <2>2. a  BY <1>2 DEF CanEndRequest, AcceptRequestSettled, AcceptResponse
  <2>3. n.task /\ n.state = StateAfter(k) /\ n.elapsed = e /\ n.pending = 0
    BY <1>0, <1>2 DEF ReplayRequestSettled, AddRequest, CanEndRequest, Ledger
  <2>4. StateAfter(k) \in {"ready", "pending_tools", "final_pending"}
        /\ (StateAfter(k) = "ready" => k = "summary")
    BY DEF StateAfter, ResponseKinds
  <2>5. n = SettleRequest(l, e, t, k)
    BY <1>0 DEF ReplayRequestSettled, AddRequest, SettleRequest, Ledger
  <2>6. e <= WallMs /\ j.user  BY <1>2, <1>t DEF CanEndRequest, EnsureElapsed
  <2>7. Sound(LogTask(j, "long_task", a, n)) /\ LogTask(j, "long_task", a, n).ledger = n
    <3> HIDE DEF n, a
    <3>1. /\ ~n.task <=> n.state = "not_long_task"
          /\ n.elapsed <= WallMs
          /\ n.pending # 0 <=> n.state = "pending_provider"
          /\ n.task => j.user
          /\ n.state \in {"ready", "paused"} => Resolved(j)
      BY <1>2, <2>3, <2>4, <2>6
    <3>2. "long_task" \in EntryKinds  BY <1>0
    <3> QED  BY ONLY ZenonT(30), <2>1, <2>2, <3>1, <3>2, j \in Journal, Sound(j), TaskEntrySound
  <2> QED  BY <2>5, <2>7 DEF LogRequestSettled
<1>3. ASSUME CanEndRequest(l, e)  PROVE Sound(LogRequestFailed(j, l, e, t))
  <2> DEFINE n == ReplayRequestFailed(l, e, t)
             a == AcceptRequestFailed(l, l.pending, l.stage, e)
  <2>1. n \in Ledger  BY <1>0, 0 \in Nat, ReplayOps
  <2>2. a  BY <1>3 DEF CanEndRequest, AcceptRequestFailed, AcceptResponse
  <2>3. n.task /\ n.state = "failed" /\ n.elapsed = e /\ n.pending = 0
    BY <1>0, <1>3 DEF ReplayRequestFailed, AddRequest, CanEndRequest, Ledger
  <2>4. e <= WallMs /\ j.user  BY <1>3, <1>t DEF CanEndRequest, EnsureElapsed
  <2>5. Sound(LogTask(j, "long_task", a, n))
    <3> HIDE DEF n, a
    <3> QED  BY <1>0, <2>1, <2>2, <2>3, <2>4, TaskEntrySound
  <2> QED  BY <2>5 DEF LogRequestFailed
<1>4. ASSUME CanInterrupt(l, e), j.last = "request_started", Resolved(j)
      PROVE  Sound(LogInterrupted(j, l, e))
  <2> DEFINE n == ReplayProviderInterrupted(l, e)
             a == /\ j.last = "request_started"
                  /\ AcceptProviderInterrupted(l, l.pending, l.stage, e)
  <2>1. n \in Ledger  BY <1>0, 0 \in Nat, ReplayOps
  <2>2. a  BY <1>4 DEF CanInterrupt
  <2>3. n.task /\ n.state = "paused" /\ n.elapsed = e /\ n.pending = 0
    BY <1>0, <2>2
    DEF ReplayProviderInterrupted, AddRequest, AcceptProviderInterrupted, AcceptResponse, Ledger
  <2>4. e <= WallMs /\ j.user
    BY <2>2, <1>t DEF AcceptProviderInterrupted, AcceptResponse, EnsureElapsed
  <2>5. Sound(LogTask(j, "long_task", a, n))
    <3> HIDE DEF n, a
    <3> QED  BY <1>0, <1>4, <2>1, <2>2, <2>3, <2>4, TaskEntrySound
  <2> QED  BY <2>5 DEF LogInterrupted
<1> QED  BY <1>1, <1>2, <1>3, <1>4

\* The same for the records written between requests: created, tool batch,
\* checkpoint, paused, failed and completed.
LEMMA BoundaryRecordsSound ==
    ASSUME NEW j \in Journal, Sound(j), NEW l, l = j.ledger, NEW e \in Nat
    PROVE  /\ j.last = "user" /\ j.user /\ Resolved(j) /\ (l.task => Terminal(l)) =>
                  Sound(LogCreated(j)) /\ LogCreated(j).ledger.task
           /\ \A f \in Fingerprints :
                  CanRecordToolBatch(l, e, f) /\ Resolved(j) =>
                      /\ Sound(LogToolBatch(j, l, e, f))
                      /\ LogToolBatch(j, l, e, f).ledger = RecordToolBatch(l, e, f)
           /\ CanCheckpoint(l, e, l.fingerprint) =>
                  /\ Sound(LogCheckpoint(j, l, e, l.fingerprint))
                  /\ LogCheckpoint(j, l, e, l.fingerprint).ledger = Checkpoint(l, e)
           /\ CanPause(l) => Sound(LogPaused(j, l))
           /\ CanFailTerminal(l) => Sound(LogTaskFailed(j, l))
           /\ CanComplete(l) => Sound(LogCompleted(j, l))
<1>0. /\ l \in Ledger /\ {"created", "request_started", "long_task"} \subseteq EntryKinds
      /\ l.stageRequests \in Nat /\ l.elapsed \in Nat /\ l.repeat \in Nat
      /\ l.stage + 1 \in Nat /\ l.fingerprint \in Fingerprints \cup {NoFingerprint}
  BY DEF Journal, Ledger, EntryKinds
<1>t. /\ l.task => j.user
      /\ l.task <=> l.state # "not_long_task"
      /\ l.elapsed <= WallMs
      /\ l.pending # 0 <=> l.state = "pending_provider"
      /\ l.state \in {"ready", "paused"} => Resolved(j)
  BY <1>0 DEF Sound, LedgerFits, Ledger
<1>1. ASSUME j.last = "user", j.user, Resolved(j), l.task => Terminal(l)
      PROVE  Sound(LogCreated(j)) /\ LogCreated(j).ledger.task
  <2> DEFINE n == ReplayCreated(l)
             a == j.last = "user" /\ AcceptCreated(l)
  <2>1. n \in Ledger  BY <1>0, 0 \in Nat, LedgerOps
  <2>2. a  BY <1>1 DEF AcceptCreated
  <2>3. n.task /\ n.state = "ready" /\ n.elapsed = 0 /\ n.pending = 0
    BY DEF ReplayCreated, DefaultLedger
  <2>4. 0 <= WallMs  BY LimitsAssumption
  <2>5. Sound(LogTask(j, "created", a, n)) /\ LogTask(j, "created", a, n).ledger = n
    <3> HIDE DEF n, a
    <3> QED  BY ZenonT(30), <1>0, <1>1, <2>1, <2>2, <2>3, <2>4, TaskEntrySound
  <2> QED  BY <2>3, <2>5 DEF LogCreated
<1>2. ASSUME NEW f \in Fingerprints, CanRecordToolBatch(l, e, f), Resolved(j)
      PROVE  /\ Sound(LogToolBatch(j, l, e, f))
             /\ LogToolBatch(j, l, e, f).ledger = RecordToolBatch(l, e, f)
  <2> DEFINE r == NextRepeat(l, f)
             n == ReplayToolBatch(l, l.stageRequests, e, f, r)
             a == AcceptToolBatch(l, l.stage, l.stageRequests, e, f, r)
  <2>0. r \in Nat  BY <1>0, 0 \in Nat, LedgerOps
  <2>1. n \in Ledger  BY <1>0, <2>0, 0 \in Nat, ReplayOps
  <2>2. a  BY <1>2 DEF CanRecordToolBatch, AcceptToolBatch
  <2>3. n.task /\ n.state = "ready" /\ n.elapsed = e /\ n.pending = 0
    BY <1>0, <1>t, <1>2 DEF ReplayToolBatch, CanRecordToolBatch, Ledger
  <2>4. e <= WallMs /\ j.user  BY <1>2, <1>t DEF CanRecordToolBatch, EnsureElapsed
  <2>5. n = RecordToolBatch(l, e, f)
    <3> HIDE DEF r
    <3>1. n = [l EXCEPT !.elapsed = e, !.fingerprint = f, !.repeat = r, !.state = "ready"]
      BY <1>0 DEF ReplayToolBatch, Ledger
    <3> QED  BY <3>1 DEF RecordToolBatch, r
  <2>6. Sound(LogTask(j, "long_task", a, n)) /\ LogTask(j, "long_task", a, n).ledger = n
    <3> HIDE DEF n, a
    <3> QED  BY ZenonT(30), <1>0, <1>2, <2>1, <2>2, <2>3, <2>4, TaskEntrySound
  <2> QED  BY <2>5, <2>6 DEF LogToolBatch
<1>3. ASSUME CanCheckpoint(l, e, l.fingerprint)
      PROVE  /\ Sound(LogCheckpoint(j, l, e, l.fingerprint))
             /\ LogCheckpoint(j, l, e, l.fingerprint).ledger = Checkpoint(l, e)
  <2> DEFINE n == ReplayCheckpoint(l, l.stage + 1, e, l.fingerprint, l.repeat)
             a == AcceptCheckpoint(l, l.stage + 1, l.stageRequests, e, l.fingerprint, l.repeat)
  <2>1. n \in Ledger  BY <1>0, 0 \in Nat, ReplayOps
  <2>2. a  BY <1>3 DEF CanCheckpoint, AcceptCheckpoint
  <2>3. n.task /\ n.state = "ready" /\ n.elapsed = e /\ n.pending = 0
    BY <1>0, <1>t, <1>3 DEF ReplayCheckpoint, CanCheckpoint, Ledger
  <2>4. e <= WallMs /\ j.user /\ Resolved(j)
    BY <1>3, <1>t DEF CanCheckpoint, EnsureElapsed
  <2>5. n = Checkpoint(l, e)  BY <1>0 DEF ReplayCheckpoint, Checkpoint, Ledger
  <2>6. Sound(LogTask(j, "long_task", a, n)) /\ LogTask(j, "long_task", a, n).ledger = n
    <3> HIDE DEF n, a
    <3> QED  BY ZenonT(30), <1>0, <2>1, <2>2, <2>3, <2>4, TaskEntrySound
  <2> QED  BY <2>5, <2>6 DEF LogCheckpoint
<1>4. ASSUME l.state = "ready"
      PROVE  Sound(LogPaused(j, l)) /\ Sound(LogTaskFailed(j, l))
  <2> DEFINE a == AcceptAtBoundary(l, l.stage, l.elapsed)
             p == ReplayPaused(l, l.elapsed)
             q == ReplayFailed(l, l.elapsed)
  <2>1. a  BY <1>0, <1>t, <1>4 DEF AcceptAtBoundary, EnsureElapsed
  <2>2. p \in Ledger /\ q \in Ledger  BY <1>0, 0 \in Nat, ReplayOps
  <2>3. /\ p.task /\ p.state = "paused" /\ p.elapsed = l.elapsed /\ p.pending = 0
        /\ q.task /\ q.state = "failed" /\ q.elapsed = l.elapsed /\ q.pending = 0
    BY <1>0, <1>t, <1>4 DEF ReplayPaused, ReplayFailed, Ledger
  <2>4. j.user /\ Resolved(j)  BY <1>t, <1>4
  <2>5. Sound(LogTask(j, "long_task", a, p)) /\ Sound(LogTask(j, "long_task", a, q))
    <3> HIDE DEF a, p, q
    <3> QED  BY <1>0, <1>t, <2>1, <2>2, <2>3, <2>4, TaskEntrySound
  <2> QED  BY <2>5 DEF LogPaused, LogTaskFailed
<1>5. ASSUME CanComplete(l)  PROVE Sound(LogCompleted(j, l))
  <2> DEFINE a == AcceptCompleted(l, l.stage, l.elapsed)
             n == ReplayCompleted(l, l.elapsed)
  <2>1. a  BY <1>0, <1>t, <1>5 DEF AcceptCompleted, EnsureElapsed, CanComplete
  <2>2. n \in Ledger  BY <1>0, 0 \in Nat, ReplayOps
  <2>3. n.task /\ n.state = "completed" /\ n.elapsed = l.elapsed /\ n.pending = 0
    BY <1>0, <1>t, <1>5 DEF ReplayCompleted, Ledger, CanComplete
  <2>4. j.user  BY <1>t, <1>5 DEF CanComplete
  <2>5. Sound(LogTask(j, "long_task", a, n))
    <3> HIDE DEF a, n
    <3> QED  BY <1>0, <1>t, <2>1, <2>2, <2>3, <2>4, TaskEntrySound
  <2> QED  BY <2>5 DEF LogCompleted
<1> QED  BY <1>1, <1>2, <1>3, <1>4, <1>5 DEF CanPause, CanFailTerminal

-----------------------------------------------------------------------------
(* Steps that leave the calls alone.                                       *)

\* k says the same of every call as j.
SameCalls(j, k) ==
    /\ k.calls = j.calls /\ k.results = j.results
    /\ k.started = j.started /\ k.settled = j.settled

\* No ledger record or prompt says anything about calls.
LEMMA TaskEntriesKeepCalls ==
    ASSUME NEW j \in Journal, NEW m, NEW e, NEW t, NEW f, NEW k
    PROVE  \A next \in { j, LogUser(j), LogCompaction(j), LogCreated(j),
                         LogRequestStarted(j, m, e), LogRequestSettled(j, m, e, t, k),
                         LogRequestFailed(j, m, e, t), LogInterrupted(j, m, e),
                         LogToolBatch(j, m, e, f), LogCheckpoint(j, m, e, f),
                         LogPaused(j, m), LogTaskFailed(j, m), LogCompleted(j, m) } :
               /\ SameCalls(j, next)
               /\ j.user => next.user
<1>1. ASSUME NEW kind, NEW accepted, NEW l
      PROVE  /\ SameCalls(j, Entry(j, kind, accepted)) /\ Entry(j, kind, accepted).user = j.user
             /\ SameCalls(j, LogTask(j, kind, accepted, l))
             /\ LogTask(j, kind, accepted, l).user = j.user
  BY DEF SameCalls, Journal, Entry, LogTask
<1>2. SameCalls(j, j)  BY DEF SameCalls
<1>3. SameCalls(j, LogUser(j)) /\ LogUser(j).user
  BY DEF LogUser, SameCalls, Journal, Entry
<1>4. SameCalls(j, LogCompaction(j)) /\ LogCompaction(j).user = j.user
  BY <1>1 DEF LogCompaction
<1>5. /\ SameCalls(j, LogCreated(j)) /\ LogCreated(j).user = j.user
      /\ SameCalls(j, LogInterrupted(j, m, e)) /\ LogInterrupted(j, m, e).user = j.user
      /\ SameCalls(j, LogRequestStarted(j, m, e)) /\ LogRequestStarted(j, m, e).user = j.user
  BY <1>1 DEF LogCreated, LogInterrupted, LogRequestStarted
<1>6. /\ SameCalls(j, LogRequestSettled(j, m, e, t, k))
      /\ LogRequestSettled(j, m, e, t, k).user = j.user
      /\ SameCalls(j, LogRequestFailed(j, m, e, t))
      /\ LogRequestFailed(j, m, e, t).user = j.user
  BY <1>1 DEF LogRequestSettled, LogRequestFailed
<1>7. /\ SameCalls(j, LogToolBatch(j, m, e, f)) /\ LogToolBatch(j, m, e, f).user = j.user
      /\ SameCalls(j, LogCheckpoint(j, m, e, f)) /\ LogCheckpoint(j, m, e, f).user = j.user
  BY <1>1 DEF LogToolBatch, LogCheckpoint
<1>8. /\ SameCalls(j, LogPaused(j, m)) /\ LogPaused(j, m).user = j.user
      /\ SameCalls(j, LogTaskFailed(j, m)) /\ LogTaskFailed(j, m).user = j.user
      /\ SameCalls(j, LogCompleted(j, m)) /\ LogCompleted(j, m).user = j.user
  BY <1>1 DEF LogPaused, LogTaskFailed, LogCompleted
<1> QED  BY <1>2, <1>3, <1>4, <1>5, <1>6, <1>7, <1>8

\* A run that is gone leaves the invariant when its journal is sound.
LEMMA GoneInv ==
    ASSUME Inv, NEW how, Vanish(how), TypeInv', Sound(journal'), effects' = effects,
           SameCalls(journal, journal')
    PROVE  Inv'
  BY DEF Inv, Vanish, EffectOnce, WriteAhead, CallsFit, TaskFits, SameCalls, BatchSteps, NoReply

\* So does a run that returns.
LEMMA LeaveInv ==
    ASSUME Inv, NEW how, Leave(how), TypeInv', Sound(journal'), UNCHANGED ghost,
           SameCalls(journal, journal')
    PROVE  Inv'
  BY GoneInv DEF Leave, ghost

\* A step between two points without a call in flight.
LEMMA QuietCalls ==
    ASSUME Inv, pc # "idle", pc \notin {"execute", "result", "settleOp"}, InFlight = {},
           pc' \notin BatchSteps \cup {"settle"}, SameCalls(journal, journal'),
           ids' = ids, effects' = effects, reply' \in {reply, NoReply}
    PROVE  CallsFit' /\ EffectOnce' /\ WriteAhead'
<1>1. EffectOnce' /\ WriteAhead'
  BY DEF Inv, EffectOnce, WriteAhead, SameCalls
<1>2. InFlight' = {}  BY DEF InFlight, BatchSteps
<1>3. CallsFit'
  BY <1>2 DEF Inv, CallsFit, SameCalls, BatchSteps, NoReply
<1> QED  BY <1>1, <1>3

\* While no call is in flight the journal has none open.
LEMMA QuietIsResolved ==
    ASSUME Inv, pc # "idle", pc \notin {"execute", "result", "settleOp"}, InFlight = {}
    PROVE  Resolved(journal)
  BY DEF Inv, CallsFit, Resolved

\* The empty journal is sound and there is no run.
LEMMA InvInitially == Init => Inv
<1> SUFFICES ASSUME Init PROVE Inv  OBVIOUS
<1>1. TypeInv  BY TypeInitially
<1>2. Sound(journal)
  BY LimitsAssumption DEF Init, Sound, LedgerFits, EmptyJournal, DefaultLedger
<1>3. EffectOnce /\ WriteAhead  BY DEF Init, EffectOnce, WriteAhead
<1>4. CallsFit /\ TaskFits  BY DEF Init, CallsFit, TaskFits, BatchSteps, LongSteps, NoReply
<1> QED  BY <1>1, <1>2, <1>3, <1>4 DEF Inv

\* A run that starts believes what the journal says.
LEMMA InvokeInv == ASSUME Inv, TypeInv', Invoke  PROVE Inv'
<1>1. PICK next \in {"prompt", "handshake"}, m \in {"short", "long"},
           l \in {DefaultLedger, journal.ledger} :
        /\ Start(next, m, l) /\ Openable
        /\ next = "handshake" => m = "long"
        /\ l = DefaultLedger => NoUnfinishedTask
        /\ m = "short" => l = DefaultLedger
        /\ l # DefaultLedger => l = journal.ledger /\ journal.ledger.task
        /\ next = "handshake" => l = journal.ledger /\ journal.ledger.task
  <2>1. ~DefaultLedger.task  BY DEF DefaultLedger
  <2>2. CASE StartShort
    <3> WITNESS "prompt" \in {"prompt", "handshake"}, "short" \in {"short", "long"},
                DefaultLedger \in {DefaultLedger, journal.ledger}
    <3> QED  BY <2>2 DEF StartShort
  <2>3. CASE StartTask
    <3> WITNESS "prompt" \in {"prompt", "handshake"}, "long" \in {"short", "long"},
                DefaultLedger \in {DefaultLedger, journal.ledger}
    <3> QED  BY <2>3 DEF StartTask
  <2>4. CASE ResumeTask
    <3>1. PICK next \in {"prompt", "handshake"} : Start(next, "long", journal.ledger)
      BY <2>4 DEF ResumeTask
    <3>2. Openable /\ journal.ledger.task  BY <2>4 DEF ResumeTask, CanResume
    <3> WITNESS next \in {"prompt", "handshake"}, "long" \in {"short", "long"},
                journal.ledger \in {DefaultLedger, journal.ledger}
    <3> QED  BY <2>1, <3>1, <3>2
  <2> QED  BY <2>2, <2>3, <2>4 DEF Invoke
<1>2. Sound(journal') /\ EffectOnce' /\ WriteAhead'
  BY <1>1 DEF Inv, Start, EffectOnce, WriteAhead, ghost
<1>3. CallsFit'
  BY <1>1 DEF Start, CallsFit, InFlight, Openable, Resolved, Inv, Sound, TypeInv, TypeOK, ModeFits
<1>4. TaskFits'
  BY <1>1 DEF Start, TaskFits, Inv, Sound, LedgerFits, BatchSteps, NoUnfinishedTask, DefaultLedger
<1> QED  BY <1>2, <1>3, <1>4 DEF Inv

\* What a quiet step still owes: a sound journal and a ledger that fits.
LEMMA QuietInv ==
    ASSUME Inv, TypeInv', pc # "idle", pc \notin {"execute", "result", "settleOp"},
           InFlight = {}, NEW next, NEW j, Step(next, j),
           next \notin BatchSteps \cup {"settle"}, SameCalls(journal, j),
           ids' = ids, effects' = effects, reply' \in {reply, NoReply},
           Sound(j), TaskFits'
    PROVE  Inv'
  BY QuietCalls DEF Inv, Step

\* A request is reserved durably before it is sent, or the run ends.
LEMMA ReserveInv ==
    ASSUME Inv, TypeInv', NEW next \in {"await", "awaitSummary"}, Reserve(next),
           pc \in {"summary", "request"}
    PROVE  Inv'
<1>0. InFlight = {} /\ mode \in {"short", "long"} /\ journal \in Journal /\ clock \in Nat
  BY DEF InFlight, Inv, TypeInv, TypeOK, ModeFits
<1>r. Resolved(journal)  BY <1>0, QuietIsResolved
<1>1. CASE mode = "short"
  <2>1. Step(next, journal) /\ UNCHANGED <<mem, ghost, reply, batch, short, ids>>
    BY <1>1 DEF Reserve
  <2>2. TaskFits'
    BY <1>1, <2>1 DEF Inv, TaskFits, Step, BatchSteps, NoUnfinishedTask
  <2>3. SameCalls(journal, journal)  BY DEF SameCalls
  <2> QED  BY <1>0, <2>1, <2>2, <2>3, QuietInv DEF Inv, ghost, BatchSteps
<1>2. CASE mode = "long" /\ CanBeginRequest(mem, clock)
  <2> DEFINE j == LogRequestStarted(journal, mem, clock)
  <2>1. Step(next, j) /\ mem' = BeginRequest(mem, clock)
        /\ UNCHANGED <<effects, reply, batch, short, ids>>
    BY <1>2 DEF Reserve
  <2>2. mem = journal.ledger /\ mem.task
    BY <1>2 DEF Inv, TaskFits, CanBeginRequest, ResumeAllowed
  <2>3. Sound(j) /\ j.ledger = BeginRequest(mem, clock)
    BY <1>0, <1>2, <2>2, 0 \in Nat, RequestRecordsSound DEF Inv
  <2>4. SameCalls(journal, j) /\ (journal.user => j.user)
    BY <1>0, TaskEntriesKeepCalls
  <2>5. j.last = "request_started"
    BY <1>0 DEF LogRequestStarted, LogTask, Entry, Journal
  <2>6. mem'.task /\ mem'.state = "pending_provider"
    BY <2>1, <2>2 DEF BeginRequest, Journal, Ledger, Inv, TypeInv, TypeOK
  <2>7. TaskFits'
    <3> HIDE DEF j
    <3> QED
      BY <1>2, <2>1, <2>3, <2>4, <2>5, <2>6 DEF Inv, TaskFits, Step, BatchSteps
  <2> QED
    BY <1>0, <2>1, <2>3, <2>4, <2>7, QuietInv DEF Inv, BatchSteps
<1>3. CASE mode = "long" /\ ~CanBeginRequest(mem, clock)
  BY <1>3, LeaveInv DEF Reserve, Inv, SameCalls, ghost
<1> QED  BY <1>0, <1>1, <1>2, <1>3

\* The way to a request keeps the invariant.
LEMMA RequestInv ==
    ASSUME Inv, TypeInv',
           \/ SkipCompaction \/ BeginCompaction \/ SendSummary
           \/ \E next \in {"summary", "compacted"}, t \in TokenDeltas : SummaryArrives(next, t)
           \/ PauseOverBudgetSummary \/ RecordCompaction \/ SendRequest
    PROVE  Inv'
<1>0. journal \in Journal /\ clock \in Nat /\ mode \in {"none", "short", "long"}
      /\ Sound(journal) /\ SameCalls(journal, journal)
  BY DEF Inv, TypeInv, TypeOK, SameCalls
<1>1. CASE SkipCompaction \/ BeginCompaction
  <2>1. PICK next \in {"request", "summary"} :
            Step(next, journal) /\ UNCHANGED <<mem, ids, reply, ghost>> /\ pc = "loop"
    BY <1>1 DEF SkipCompaction, BeginCompaction, MayIterate
  <2>2. InFlight = {}  BY <2>1 DEF InFlight
  <2>3. TaskFits'
    BY <2>1 DEF Inv, TaskFits, Step, BatchSteps, NoUnfinishedTask
  <2> QED  BY <1>0, <2>1, <2>2, <2>3, QuietInv DEF BatchSteps, ghost
<1>2. CASE SendSummary
  <2>1. CASE TooFewSlots
    BY <1>0, <1>2, <2>1, LeaveInv DEF SendSummary
  <2>2. CASE ~TooFewSlots
    BY <1>2, <2>2, ReserveInv DEF SendSummary
  <2> QED  BY <2>1, <2>2
<1>3. ASSUME NEW next \in {"summary", "compacted"}, NEW t \in TokenDeltas,
             SummaryArrives(next, t)
      PROVE Inv'
  <2>0. pc = "awaitSummary" /\ InFlight = {} /\ UNCHANGED ghost
    BY <1>3 DEF SummaryArrives, InFlight
  <2>1. CASE mode = "short" /\ Step(next, journal)
                            /\ UNCHANGED <<mem, ids, remaining, reply, batch, short>>
    <3>1. TaskFits'
      BY <2>0, <2>1 DEF Inv, TaskFits, Step, BatchSteps, NoUnfinishedTask
    <3> QED  BY <1>0, <2>0, <2>1, <3>1, QuietInv DEF BatchSteps, ghost
  <2>2. CASE mode = "long" /\ CanEndRequest(mem, clock)
    <3> DEFINE to == IF mem'.tokens >= MaxTokens THEN "summaryPause" ELSE next
               j == LogRequestSettled(journal, mem, clock, t, "summary")
    <3>0. t \in Nat /\ "summary" \in ResponseKinds  BY LoopAssumption DEF ResponseKinds
    <3>1. /\ mem' = SettleRequest(mem, clock, t, "summary") /\ Step(to, j)
          /\ UNCHANGED <<ids, remaining, reply, batch, short>>
      BY <1>3, <2>2 DEF SummaryArrives
    <3>2. mem = journal.ledger /\ Resolved(journal)
      BY <2>0, <2>2, QuietIsResolved DEF Inv, TaskFits, CanEndRequest
    <3>3. Sound(j) /\ j.ledger = mem'
      BY <1>0, <2>2, <3>0, <3>1, <3>2, RequestRecordsSound
    <3>4. SameCalls(journal, j) /\ (journal.user => j.user)
      BY <1>0, TaskEntriesKeepCalls
    <3>5. mem'.task
      BY <2>2, <3>1, <3>2, <1>0 DEF SettleRequest, CanEndRequest, Journal, Ledger
    <3>6. to \in {"summary", "compacted", "summaryPause"}  OBVIOUS
    <3>7. TaskFits'
      <4> HIDE DEF j, to
      <4> QED
        BY <2>0, <2>2, <3>1, <3>3, <3>4, <3>5, <3>6 DEF Inv, TaskFits, Step, BatchSteps
    <3> QED
      BY <2>0, <3>1, <3>3, <3>4, <3>6, <3>7, QuietInv DEF BatchSteps, ghost
  <2>3. CASE mode = "long" /\ ~CanEndRequest(mem, clock)
    BY <1>0, <1>3, <2>3, LeaveInv DEF SummaryArrives
  <2> QED  BY <1>3, <2>1, <2>2, <2>3 DEF SummaryArrives
<1>4. CASE PauseOverBudgetSummary
  <2>1. mode = "long" /\ mem = journal.ledger
    BY <1>4 DEF PauseOverBudgetSummary, Inv, TypeInv, ModeFits, LongSteps, TaskFits
  <2>2. CanPause(mem) => Sound(LogPaused(journal, mem))
    BY <1>0, <2>1, BoundaryRecordsSound
  <2>3. SameCalls(journal, LogPaused(journal, mem))  BY <1>0, TaskEntriesKeepCalls
  <2> QED
    BY <1>0, <1>4, <2>2, <2>3, LeaveInv DEF PauseOverBudgetSummary, EndWith
<1>5. CASE RecordCompaction
  <2>1. /\ Step("request", LogCompaction(journal)) /\ UNCHANGED <<mem, ids, reply, ghost>>
        /\ pc = "compacted"
    BY <1>5 DEF RecordCompaction
  <2>2. InFlight = {}  BY <2>1 DEF InFlight
  <2>3. Resolved(journal) /\ journal.user
    BY <2>1, <2>2, QuietIsResolved DEF Inv, TaskFits
  <2>4. Sound(LogCompaction(journal))
    BY <1>0, <2>3, PlainEntriesSound
  <2>5. SameCalls(journal, LogCompaction(journal)) /\ LogCompaction(journal).user
        /\ LogCompaction(journal).ledger = journal.ledger
    BY <1>0, <2>3 DEF LogCompaction, Entry, Journal, SameCalls
  <2>6. TaskFits'
    <3>1. journal'.ledger = journal.ledger /\ journal'.user /\ pc' = "request" /\ mode' = mode
      BY <2>1, <2>5 DEF Step
    <3> QED  BY <2>1, <3>1 DEF Inv, TaskFits, BatchSteps, NoUnfinishedTask
  <2> QED  BY <2>1, <2>2, <2>4, <2>5, <2>6, QuietInv DEF BatchSteps, ghost
<1>6. CASE SendRequest
  BY <1>6, ReserveInv DEF SendRequest
<1> QED  BY <1>1, <1>2, <1>3, <1>4, <1>5, <1>6

\* The steps at a settled boundary keep the invariant.
LEMMA BoundaryInv ==
    ASSUME Inv, TypeInv',
           \/ AppendPrompt \/ CreateTask \/ PauseAtBoundary \/ EnterLoop \/ StopAtBudget
           \/ NextIteration \/ BlockRepeating \/ RecordStage \/ PauseAfter \/ CompleteTask
    PROVE  Inv'
<1>0. /\ journal \in Journal /\ clock \in Nat /\ mode \in {"none", "short", "long"}
      /\ mem \in Ledger /\ Sound(journal) /\ SameCalls(journal, journal)
  BY DEF Inv, TypeInv, TypeOK, SameCalls
<1>1. CASE AppendPrompt
  <2> DEFINE to == IF mode = "short" THEN "loop"
                   ELSE IF mem.task THEN "handshake" ELSE "create"
  <2>1. /\ Step(to, LogUser(journal)) /\ UNCHANGED <<mem, ids, reply, ghost>>
        /\ pc = "prompt" /\ mode \in {"short", "long"}
    BY <1>0, <1>1 DEF AppendPrompt, Inv, TypeInv, ModeFits
  <2>2. InFlight = {}  BY <2>1 DEF InFlight
  <2>3. /\ Sound(LogUser(journal)) /\ SameCalls(journal, LogUser(journal))
        /\ LogUser(journal).user /\ LogUser(journal).last = "user"
        /\ LogUser(journal).ledger = journal.ledger
    BY <1>0, PlainEntriesSound DEF LogUser, Entry, Journal, SameCalls
  <2>4. TaskFits'
    <3>1. /\ journal'.ledger = journal.ledger /\ journal'.user /\ journal'.last = "user"
          /\ pc' = to /\ mode' = mode
      BY <2>1, <2>3 DEF Step
    <3> QED  BY <2>1, <3>1 DEF Inv, TaskFits, BatchSteps, NoUnfinishedTask
  <2> QED  BY <2>1, <2>2, <2>3, <2>4, QuietInv DEF BatchSteps, ghost
<1>2. CASE CreateTask
  <2>1. /\ Step("handshake", LogCreated(journal)) /\ mem' = journal'.ledger
        /\ UNCHANGED <<ids, reply, effects>> /\ pc = "create" /\ mode = "long"
    BY <1>2 DEF CreateTask, Inv, TypeInv, ModeFits, LongSteps
  <2>2. InFlight = {}  BY <2>1 DEF InFlight
  <2>3. /\ journal.last = "user" /\ journal.user /\ Resolved(journal)
        /\ journal.ledger.task => Terminal(journal.ledger)
    BY <2>1, <2>2, QuietIsResolved DEF Inv, TaskFits, NoUnfinishedTask
  <2>4. Sound(LogCreated(journal)) /\ LogCreated(journal).ledger.task
    BY <1>0, <2>3, BoundaryRecordsSound
  <2>5. SameCalls(journal, LogCreated(journal)) /\ LogCreated(journal).user
    BY <1>0, <2>3, TaskEntriesKeepCalls
  <2>6. TaskFits'
    BY <2>1, <2>4, <2>5 DEF TaskFits, Step, BatchSteps
  <2> QED  BY <2>1, <2>2, <2>4, <2>5, <2>6, QuietInv DEF BatchSteps
<1>p. ASSUME mode = "long", mem.task
      PROVE  Sound(PausedJournal) /\ SameCalls(journal, PausedJournal)
  <2>1. mem = journal.ledger  BY <1>p DEF Inv, TaskFits
  <2>2. CanPause(mem) => Sound(LogPaused(journal, mem))
    BY <1>0, <2>1, BoundaryRecordsSound
  <2>3. SameCalls(journal, LogPaused(journal, mem))  BY <1>0, TaskEntriesKeepCalls
  <2> QED  BY <1>0, <2>2, <2>3 DEF PausedJournal
<1>3. CASE PauseAtBoundary
  <2>1. mode = "long" /\ mem.task
    BY <1>3 DEF PauseAtBoundary, PauseObserved, Inv, TaskFits
  <2> QED  BY <1>3, <1>p, <2>1, LeaveInv DEF PauseAtBoundary
<1>4. CASE StopAtBudget
  <2>1. mode = "long" => mem.task  BY <1>4 DEF StopAtBudget, Inv, TaskFits
  <2> QED  BY <1>0, <1>4, <1>p, <2>1, LeaveInv DEF StopAtBudget
<1>5. CASE EnterLoop \/ NextIteration
  <2>1. /\ Step("loop", journal) /\ UNCHANGED <<mem, ids, reply, ghost>>
        /\ pc \in {"handshake", "boundary"} /\ mode = "long"
    BY <1>5 DEF EnterLoop, NextIteration, Inv, TypeInv, ModeFits, LongSteps
  <2>2. InFlight = {}  BY <2>1 DEF InFlight
  <2>3. TaskFits'  BY <2>1 DEF Inv, TaskFits, Step, BatchSteps, NoUnfinishedTask
  <2> QED  BY <1>0, <2>1, <2>2, <2>3, QuietInv DEF BatchSteps, ghost
<1>s. ASSUME pc \in {"blocked", "stage", "stagePause", "complete"}
      PROVE  /\ mode = "long" /\ mem.task /\ mem = journal.ledger
             /\ CanPause(mem) => Sound(LogPaused(journal, mem))
             /\ CanFailTerminal(mem) => Sound(LogTaskFailed(journal, mem))
             /\ CanComplete(mem) => Sound(LogCompleted(journal, mem))
  <2>1. mode = "long" /\ mem.task /\ mem = journal.ledger
    BY <1>s DEF Inv, TypeInv, ModeFits, LongSteps, TaskFits
  <2> QED  BY <1>0, <2>1, BoundaryRecordsSound
<1>6. CASE BlockRepeating
  <2>1. SameCalls(journal, LogTaskFailed(journal, mem))  BY <1>0, TaskEntriesKeepCalls
  <2> QED  BY <1>0, <1>6, <1>s, <2>1, LeaveInv DEF BlockRepeating, EndWith
<1>7. CASE PauseAfter
  <2>1. SameCalls(journal, LogPaused(journal, mem))  BY <1>0, TaskEntriesKeepCalls
  <2> QED  BY <1>0, <1>7, <1>s, <2>1, LeaveInv DEF PauseAfter, EndWith
<1>8. CASE CompleteTask
  <2>1. SameCalls(journal, LogCompleted(journal, mem))  BY <1>0, TaskEntriesKeepCalls
  <2> QED  BY <1>0, <1>8, <1>s, <2>1, LeaveInv DEF CompleteTask, EndWith
<1>9. CASE RecordStage
  <2>0. pc = "stage" /\ InFlight = {}  BY <1>9 DEF RecordStage, InFlight
  <2>1. CASE CanCheckpoint(mem, clock, mem.fingerprint)
    <3> DEFINE to == IF PauseAfterStage # 0 /\ mem'.stage >= PauseAfterStage
                     THEN "stagePause" ELSE "boundary"
               j == LogCheckpoint(journal, mem, clock, mem.fingerprint)
    <3>1. /\ mem' = Checkpoint(mem, clock) /\ Step(to, j)
          /\ UNCHANGED <<ids, remaining, reply, batch, short, ghost>>
      BY <1>9, <2>1 DEF RecordStage
    <3>2. Sound(j) /\ j.ledger = mem'
      BY <1>0, <1>s, <2>0, <2>1, <3>1, BoundaryRecordsSound
    <3>3. SameCalls(journal, j) /\ (journal.user => j.user)
      BY <1>0, TaskEntriesKeepCalls
    <3>4. mem'.task  BY <1>0, <1>s, <2>0, <3>1 DEF Checkpoint, Ledger
    <3>5. to \in {"stagePause", "boundary"} /\ mode = "long"  BY <1>s, <2>0
    <3>6. TaskFits'
      <4> HIDE DEF j, to
      <4> QED
        BY <2>0, <3>1, <3>2, <3>3, <3>4, <3>5 DEF Inv, TaskFits, Step, BatchSteps
    <3> QED  BY <2>0, <3>1, <3>2, <3>3, <3>5, <3>6, QuietInv DEF BatchSteps, ghost
  <2>2. CASE ~CanCheckpoint(mem, clock, mem.fingerprint)
    BY <1>0, <1>9, <2>2, LeaveInv DEF RecordStage
  <2> QED  BY <2>1, <2>2
<1> QED  BY <1>1, <1>2, <1>3, <1>4, <1>5, <1>6, <1>7, <1>8, <1>9

\* A crash or torn write leaves a journal that is sound as it is.
LEMMA DisturbInv == ASSUME Inv, TypeInv', Disturb  PROVE Inv'
<1>0. Sound(journal) /\ SameCalls(journal, journal)  BY DEF Inv, SameCalls
<1>1. CASE Tick \/ SignalPause
  <2>1. UNCHANGED <<journal, pc, mode, mem, ids, reply, batch, ghost>>
    BY <1>1 DEF Tick, SignalPause
  <2> QED
    BY <2>1
    DEF Inv, EffectOnce, WriteAhead, CallsFit, InFlight, TaskFits, NoUnfinishedTask, batch, ghost
<1>2. CASE Abort  BY <1>0, <1>2, LeaveInv DEF Abort
<1>3. CASE TornAppend  BY <1>0, <1>3, GoneInv DEF TornAppend, ghost
<1> QED  BY <1>1, <1>2, <1>3 DEF Disturb

-----------------------------------------------------------------------------
(* Replies and tool calls.                                                 *)

\* Whatever the provider does, its answer, its failure and a cancelled wait
\* are recorded in a way the replay accepts.
LEMMA ReplyInv ==
    ASSUME Inv, TypeInv',
           \/ \E t \in TokenDeltas : ProviderFails(t)
           \/ \E how \in {"interrupted", "deadline"} : CancelWait(how)
           \/ \E kind \in ReplyKinds, cs \in SUBSET Calls, t \in TokenDeltas :
                  /\ kind # "tools" => cs = {}
                  /\ ReceiveReply(kind, cs, t)
           \/ RefuseDuplicate \/ SettleReply \/ FinishShort
    PROVE  Inv'
<1>0. /\ journal \in Journal /\ clock \in Nat /\ mode \in {"none", "short", "long"}
      /\ mem \in Ledger /\ Sound(journal) /\ SameCalls(journal, journal)
      /\ reply \in Replies
  BY DEF Inv, TypeInv, TypeOK, SameCalls
<1>w. ASSUME pc \in {"await", "awaitSummary"}
      PROVE  /\ InFlight = {} /\ Resolved(journal) /\ mode \in {"short", "long"}
             /\ mode = "long" => /\ journal.last = "request_started"
                                 /\ mem = journal.ledger /\ mem.state = "pending_provider"
  <2>1. InFlight = {}  BY <1>w DEF InFlight
  <2>2. Resolved(journal)  BY <1>w, <2>1, QuietIsResolved
  <2> QED  BY <1>0, <1>w, <2>1, <2>2 DEF Inv, TaskFits, TypeInv, ModeFits
<1>1. ASSUME NEW t \in TokenDeltas, ProviderFails(t)  PROVE Inv'
  <2> DEFINE j == LogRequestFailed(journal, mem, clock, t)
  <2>1. pc \in {"await", "awaitSummary"} /\ t \in Nat
    BY <1>1, LoopAssumption DEF ProviderFails
  <2>2. SameCalls(journal, j)  BY <1>0, TaskEntriesKeepCalls
  <2>3. mode = "long" /\ CanEndRequest(mem, clock) => Sound(j)
    BY <1>0, <1>w, <2>1, RequestRecordsSound
  <2> QED  BY <1>0, <1>1, <2>2, <2>3, LeaveInv DEF ProviderFails
<1>2. ASSUME NEW how \in {"interrupted", "deadline"}, CancelWait(how)  PROVE Inv'
  <2> DEFINE e == CancelledAt(how)
             j == LogInterrupted(journal, mem, e)
  <2>1. pc \in {"await", "awaitSummary"} /\ mode = "long" /\ e \in Nat
    BY <1>0, <1>2, LimitsAssumption DEF CancelWait, CancelledAt, LeastOf
  <2>2. SameCalls(journal, j)  BY <1>0, TaskEntriesKeepCalls
  <2>3. CanInterrupt(mem, e) => Sound(j)
    <3> HIDE DEF e
    <3> QED  BY <1>0, <1>w, <2>1, 0 \in Nat, RequestRecordsSound
  <2> QED  BY <1>0, <1>2, <2>2, <2>3, LeaveInv DEF CancelWait
<1>3. ASSUME NEW kind \in ReplyKinds, NEW cs \in SUBSET Calls, NEW t \in TokenDeltas,
             kind # "tools" => cs = {}, ReceiveReply(kind, cs, t)
      PROVE Inv'
  <2> DEFINE to == IF mode = "long" THEN "settle"
                   ELSE IF kind = "tools" THEN "dispatch" ELSE "final"
             j == LogAssistant(journal, cs)
  <2>1. /\ pc = "await" /\ cs \cap journal.calls = {}
        /\ Step(to, j) /\ ids' = ids \cup cs
        /\ reply' = [kind |-> kind, calls |-> cs, elapsed |-> clock, tokens |-> t]
        /\ todo' = IF mode = "short" THEN cs ELSE {}
        /\ UNCHANGED <<mem, remaining, cur, short, ghost>>
    BY <1>3 DEF ReceiveReply, Fresh, Inv, CallsFit
  <2>2. /\ Resolved(journal) /\ mode \in {"short", "long"}
        /\ mode = "long" => mem = journal.ledger /\ mem.state = "pending_provider"
    BY <1>w, <2>1
  <2>3. journal.ledger.state \notin {"ready", "paused"}
    BY <2>2 DEF Inv, TaskFits, NoUnfinishedTask, Terminal, Sound, LedgerFits
  <2>4. /\ j.calls = journal.calls \cup cs /\ j.results = journal.results
        /\ j.started = journal.started /\ j.settled = journal.settled
        /\ j.ledger = journal.ledger /\ j.user = journal.user
        /\ j.valid = (journal.valid /\ cs \cap journal.calls = {})
    BY <1>0 DEF LogAssistant, Entry, Journal
  <2>5. Sound(j)  BY <2>1, <2>3, <2>4, <1>0 DEF Sound, LedgerFits
  <2>6. EffectOnce' /\ WriteAhead'
    BY <2>1, <2>4 DEF Inv, EffectOnce, WriteAhead, Step, ghost
  <2>7. InFlight' = cs
    BY <1>3, <2>1, <2>2 DEF InFlight, Step, ReplyKinds
  <2>8. CallsFit'
    BY <1>0, <1>3, <2>1, <2>2, <2>4, <2>7 DEF Inv, CallsFit, Step, Resolved, Sound
  <2>9. TaskFits'
    <3>1. journal'.ledger = journal.ledger /\ journal'.user = journal.user /\ pc' = to
          /\ mode' = mode /\ mem' = mem
      BY <2>1, <2>4 DEF Step
    <3> QED  BY <2>1, <2>2, <3>1 DEF Inv, TaskFits, BatchSteps, NoUnfinishedTask
  <2> QED  BY <2>1, <2>5, <2>6, <2>8, <2>9 DEF Inv, Step
<1>4. CASE RefuseDuplicate
  BY <1>0, <1>4, LeaveInv DEF RefuseDuplicate
<1>5. CASE SettleReply
  <2> DEFINE kind == IF reply.kind = "tools" THEN "tools" ELSE "final"
             l == SettleRequest(mem, reply.elapsed, reply.tokens, kind)
             j == LogRequestSettled(journal, mem, reply.elapsed, reply.tokens, kind)
  <2>1. reply.elapsed \in Nat /\ reply.tokens \in Nat /\ kind \in ResponseKinds
        /\ kind # "summary"
    BY <1>0 DEF Replies, ResponseKinds
  <2>2. /\ pc = "settle" /\ mode = "long" /\ mem = journal.ledger /\ mem.task
        /\ InFlight = reply.calls
    BY <1>5 DEF SettleReply, Inv, TypeInv, ModeFits, LongSteps, TaskFits, InFlight
  <2>3. SameCalls(journal, j) /\ (journal.user => j.user)  BY <1>0, TaskEntriesKeepCalls
  <2>4. CanEndRequest(mem, reply.elapsed) => Sound(j) /\ j.ledger = l
    BY <1>0, <2>1, <2>2, RequestRecordsSound
  <2>5. CASE ~CanEndRequest(mem, reply.elapsed)
    BY <1>0, <1>5, <2>5, LeaveInv DEF SettleReply
  <2>6. CASE CanEndRequest(mem, reply.elapsed) /\ (OverBudget(l) \/ reply.kind = "length")
    <3>1. journal' = j /\ Leave(IF OverBudget(l) THEN "budget" ELSE "length") /\ UNCHANGED ghost
      BY <1>5, <2>6 DEF SettleReply
    <3> QED  BY <2>3, <2>4, <2>6, <3>1, LeaveInv
  <2>7. CASE CanEndRequest(mem, reply.elapsed) /\ ~(OverBudget(l) \/ reply.kind = "length")
    <3> DEFINE to == IF reply.kind = "tools" THEN "dispatch" ELSE "complete"
    <3>1. /\ Step(to, j) /\ mem' = l /\ todo' = reply.calls /\ reply' = NoReply
          /\ UNCHANGED <<ids, remaining, cur, short, ghost>>
      BY <1>5, <2>7 DEF SettleReply
    <3>2. Sound(j) /\ j.ledger = l  BY <2>4, <2>7
    <3>3. EffectOnce' /\ WriteAhead'
      BY <2>3, <3>1 DEF Inv, EffectOnce, WriteAhead, Step, ghost, SameCalls
    <3>4. InFlight' = reply.calls
      BY <3>1 DEF InFlight, Step, Inv, CallsFit
    <3>5. CallsFit'
      BY <2>2, <2>3, <3>1, <3>4 DEF Inv, CallsFit, Step, SameCalls, NoReply
    <3>6. l.task /\ l.state = StateAfter(kind)
      BY <1>0, <2>2 DEF SettleRequest, Ledger
    <3>7. /\ to = "dispatch" => l.state = "pending_tools"
          /\ to = "complete" => l.state = "final_pending"
          /\ to \in {"dispatch", "complete"}
      BY <3>6 DEF StateAfter
    <3>8. TaskFits'
      <4> HIDE DEF to, l, j
      <4> QED
        BY <2>2, <2>3, <3>1, <3>2, <3>6, <3>7 DEF Inv, TaskFits, Step, BatchSteps
    <3> QED  BY <3>1, <3>2, <3>3, <3>5, <3>8 DEF Inv, Step
  <2> QED  BY <2>5, <2>6, <2>7
<1>6. CASE FinishShort
  <2>0. pc = "final" /\ mode = "short" /\ InFlight = {} /\ UNCHANGED ghost
    BY <1>6 DEF FinishShort, Inv, TypeInv, ModeFits, InFlight
  <2>1. CASE reply.kind = "length" /\ continuations < ContinuationLimit
    <3>1. /\ Step("loop", LogUser(journal)) /\ reply' = NoReply
          /\ UNCHANGED <<mem, ids, remaining, batch, guard>>
      BY <1>6, <2>1 DEF FinishShort
    <3>2. /\ Sound(LogUser(journal)) /\ SameCalls(journal, LogUser(journal))
          /\ LogUser(journal).user /\ LogUser(journal).ledger = journal.ledger
      BY <1>0, PlainEntriesSound DEF LogUser, Entry, Journal, SameCalls
    <3>3. TaskFits'
      BY <2>0, <3>1, <3>2 DEF Inv, TaskFits, Step, BatchSteps, NoUnfinishedTask
    <3> QED  BY <2>0, <3>1, <3>2, <3>3, QuietInv DEF BatchSteps, ghost
  <2>2. CASE ~(reply.kind = "length" /\ continuations < ContinuationLimit)
    BY <1>0, <1>6, <2>2, LeaveInv DEF FinishShort
  <2> QED  BY <2>1, <2>2
<1> QED  BY <1>1, <1>2, <1>3, <1>4, <1>5, <1>6

\* Each call of a batch is marked, run, answered and settled in this order.
LEMMA ToolInv ==
    ASSUME Inv, TypeInv',
           \/ \E c \in Calls, refused \in BOOLEAN : StartTool(c, refused)
           \/ ExecuteTool \/ RecordResult \/ SettleTool
           \/ \E f \in Fingerprints : EndTaskBatch(f) \/ EndShortBatch(f)
    PROVE  Inv'
<1>0. /\ journal \in Journal /\ clock \in Nat /\ mode \in {"none", "short", "long"}
      /\ mem \in Ledger /\ Sound(journal) /\ SameCalls(journal, journal)
      /\ effects \in [Calls -> Nat]
  BY DEF Inv, TypeInv, TypeOK, SameCalls
<1>b. ASSUME pc \in BatchSteps
      PROVE  /\ mode \in {"short", "long"}
             /\ journal.ledger.state \notin {"ready", "paused"}
             /\ mode = "long" => mem = journal.ledger /\ mem.task
  BY <1>0, <1>b
  DEF BatchSteps, Inv, TypeInv, ModeFits, TaskFits, NoUnfinishedTask, Terminal, Sound, LedgerFits
\* An entry about one call changes neither the ledger nor the prompt.
<1>t. ASSUME NEW next \in BatchSteps, NEW j, Step(next, j), pc \in BatchSteps,
             j.ledger = journal.ledger, j.user = journal.user, mem' = mem
      PROVE TaskFits'
  BY <1>b, <1>t DEF Inv, TaskFits, Step, BatchSteps, NoUnfinishedTask
<1>1. ASSUME NEW c \in Calls, NEW refused \in BOOLEAN, StartTool(c, refused)  PROVE Inv'
  <2> DEFINE to == IF refused THEN "result" ELSE "execute"
             j == LogStarted(journal, c)
  <2>1. /\ pc = "dispatch" /\ c \in todo /\ Step(to, j) /\ cur' = c /\ todo' = todo \ {c}
        /\ UNCHANGED <<mem, ids, remaining, reply, short, ghost>>
    BY <1>1 DEF StartTool
  <2>2. InFlight = todo /\ InFlight' = todo
    BY <2>1 DEF InFlight, Step
  <2>3. c \in journal.calls \ (journal.results \cup journal.settled \cup journal.started)
    BY <2>1, <2>2 DEF Inv, CallsFit
  <2>4. Sound(j)  BY <1>0, <1>b, <2>1, <2>3, CallEntriesSound DEF BatchSteps
  <2>5. /\ j.calls = journal.calls /\ j.results = journal.results
        /\ j.started = journal.started \cup {c} /\ j.settled = journal.settled
        /\ j.ledger = journal.ledger /\ j.user = journal.user
    BY <1>0 DEF LogStarted, Entry, Journal
  <2>6. effects[c] = 0
    BY <1>0, <2>3 DEF Inv, WriteAhead
  <2>7. EffectOnce' /\ WriteAhead'
    BY <2>1, <2>5 DEF Inv, EffectOnce, WriteAhead, Step, ghost
  <2>8. CallsFit'
    BY <2>1, <2>2, <2>3, <2>5, <2>6 DEF Inv, CallsFit, Step, ghost
  <2>9. TaskFits'
    <3> HIDE DEF j
    <3> QED  BY <1>t, <2>1, <2>5 DEF BatchSteps
  <2> QED  BY <2>1, <2>4, <2>7, <2>8, <2>9 DEF Inv, Step
<1>2. CASE ExecuteTool
  <2>1. /\ pc = "execute" /\ effects' = [effects EXCEPT ![cur] = @ + 1]
        /\ Step("result", journal)
        /\ UNCHANGED <<mem, ids, remaining, reply, todo, cur, short, dispatched>>
    BY <1>2 DEF ExecuteTool, batch
  <2>2. cur \in Calls /\ cur \in journal.started /\ effects[cur] = 0
    BY <2>1 DEF Inv, TypeInv, CurFits, CallsFit
  <2>3. EffectOnce' /\ WriteAhead'
    BY <1>0, <2>1, <2>2 DEF Inv, EffectOnce, WriteAhead, Step
  <2>4. InFlight' = InFlight  BY <2>1 DEF InFlight, Step
  <2>5. CallsFit'  BY <2>1, <2>4 DEF Inv, CallsFit, Step
  <2>6. TaskFits'  BY <1>t, <2>1 DEF BatchSteps
  <2> QED  BY <1>0, <2>1, <2>3, <2>5, <2>6 DEF Inv, Step
<1>3. CASE RecordResult
  <2> DEFINE j == LogResult(journal, cur)
  <2>1. /\ pc = "result" /\ Step("settleOp", j)
        /\ UNCHANGED <<mem, ids, remaining, reply, todo, cur, short, ghost>>
    BY <1>3 DEF RecordResult, batch
  <2>2. InFlight = todo \cup {cur} /\ InFlight' = todo
    BY <2>1 DEF InFlight, Step
  <2>3. cur \in Calls /\ cur \in journal.calls \ journal.results
    BY <2>1, <2>2 DEF Inv, TypeInv, CurFits, CallsFit
  <2>4. Sound(j)  BY <1>0, <2>3, CallEntriesSound
  <2>5. /\ j.calls = journal.calls /\ j.results = journal.results \cup {cur}
        /\ j.started = journal.started /\ j.settled = journal.settled
        /\ j.ledger = journal.ledger /\ j.user = journal.user
    BY <1>0 DEF LogResult, Entry, Journal
  <2>6. EffectOnce' /\ WriteAhead'
    BY <2>1, <2>5 DEF Inv, EffectOnce, WriteAhead, Step, ghost
  <2>7. CallsFit'
    BY <2>1, <2>2, <2>3, <2>5 DEF Inv, CallsFit, Step
  <2>8. TaskFits'
    <3> HIDE DEF j
    <3> QED  BY <1>t, <2>1, <2>5 DEF BatchSteps
  <2> QED  BY <2>1, <2>4, <2>6, <2>7, <2>8 DEF Inv, Step
<1>4. CASE SettleTool
  <2> DEFINE j == LogSettled(journal, cur)
  <2>1. /\ pc = "settleOp" /\ Step("dispatch", j)
        /\ UNCHANGED <<mem, ids, remaining, reply, todo, short, ghost>>
    BY <1>4 DEF SettleTool
  <2>2. InFlight = todo /\ InFlight' = todo
    BY <2>1 DEF InFlight, Step
  <2>3. cur \in Calls /\ cur \in (journal.results \cap journal.started) \ journal.settled
        /\ cur \notin todo
    BY <2>1, <2>2 DEF Inv, TypeInv, CurFits, CallsFit
  <2>4. Sound(j)  BY <1>0, <2>3, CallEntriesSound
  <2>5. /\ j.calls = journal.calls /\ j.results = journal.results
        /\ j.started = journal.started \ {cur} /\ j.settled = journal.settled \cup {cur}
        /\ j.ledger = journal.ledger /\ j.user = journal.user
    BY <1>0 DEF LogSettled, Entry, Journal
  <2>6. EffectOnce' /\ WriteAhead'
    BY <2>1, <2>5 DEF Inv, EffectOnce, WriteAhead, Step, ghost
  <2>7. CallsFit'
    BY <2>1, <2>2, <2>3, <2>5 DEF Inv, CallsFit, Step
  <2>8. TaskFits'
    <3> HIDE DEF j
    <3> QED  BY <1>t, <2>1, <2>5 DEF BatchSteps
  <2> QED  BY <2>1, <2>4, <2>6, <2>7, <2>8 DEF Inv, Step
<1>5. ASSUME NEW f \in Fingerprints, EndTaskBatch(f)  PROVE Inv'
  <2> DEFINE l == RecordToolBatch(mem, clock, f)
             j == LogToolBatch(journal, mem, clock, f)
  <2>1. pc = "dispatch" /\ todo = {} /\ mode = "long" /\ InFlight = {} /\ UNCHANGED ghost
    BY <1>5 DEF EndTaskBatch, InFlight
  <2>2. mem = journal.ledger /\ mem.task /\ Resolved(journal)
    BY <1>b, <2>1, QuietIsResolved DEF BatchSteps
  <2>3. CASE CanRecordToolBatch(mem, clock, f)
    <3> DEFINE to == IF l.repeat >= RepeatLimit THEN "blocked"
                     ELSE IF l.stageRequests >= StageRequests \/ l.requests >= MaxRequests
                          THEN "stage" ELSE "boundary"
    <3>1. /\ Step(to, j) /\ mem' = l /\ UNCHANGED <<ids, remaining, reply, batch, short>>
      BY <1>5, <2>3 DEF EndTaskBatch
    <3>2. Sound(j) /\ j.ledger = l  BY <1>0, <2>2, <2>3, BoundaryRecordsSound
    <3>3. SameCalls(journal, j) /\ (journal.user => j.user)
      BY <1>0, TaskEntriesKeepCalls
    <3>4. l.task  BY <1>0, <2>2 DEF RecordToolBatch, Ledger
    <3>5. to \in {"blocked", "stage", "boundary"}  OBVIOUS
    <3>6. TaskFits'
      <4> HIDE DEF j, l, to
      <4> QED
        BY <2>1, <3>1, <3>2, <3>3, <3>4, <3>5 DEF Inv, TaskFits, Step, BatchSteps
    <3> QED
      <4> HIDE DEF j, l, to
      <4> QED
        BY <2>1, <3>1, <3>2, <3>3, <3>5, <3>6, QuietInv DEF BatchSteps, ghost
  <2>4. CASE ~CanRecordToolBatch(mem, clock, f)
    BY <1>0, <1>5, <2>4, LeaveInv DEF EndTaskBatch
  <2> QED  BY <2>3, <2>4
<1>6. ASSUME NEW f \in Fingerprints, EndShortBatch(f)  PROVE Inv'
  <2>1. pc = "dispatch" /\ todo = {} /\ mode = "short" /\ InFlight = {} /\ UNCHANGED ghost
    BY <1>6 DEF EndShortBatch, InFlight
  <2>2. \/ Vanish("repeat_limit") /\ UNCHANGED <<journal, torn>>
        \/ /\ Step("loop", journal) /\ reply' = NoReply
           /\ UNCHANGED <<mem, batch, ids, remaining, continuations>>
    BY <1>6 DEF EndShortBatch
  <2>3. CASE Vanish("repeat_limit") /\ UNCHANGED <<journal, torn>>
    BY <1>0, <2>1, <2>3, GoneInv DEF ghost
  <2>4. CASE Step("loop", journal) /\ reply' = NoReply
             /\ UNCHANGED <<mem, batch, ids, remaining, continuations>>
    <3>1. TaskFits'
      BY <2>1, <2>4 DEF Inv, TaskFits, Step, BatchSteps, NoUnfinishedTask
    <3> QED  BY <1>0, <2>1, <2>4, <3>1, QuietInv DEF BatchSteps, ghost
  <2> QED  BY <2>2, <2>3, <2>4
<1> QED  BY <1>1, <1>2, <1>3, <1>4, <1>5, <1>6

-----------------------------------------------------------------------------
(* The theorems.                                                           *)

\* The strengthened invariant survives every step of every run.
THEOREM InvPreserved == Inv /\ [Next]_vars => Inv'
<1> SUFFICES ASSUME Inv, [Next]_vars PROVE Inv'  OBVIOUS
<1>0. TypeInv'  BY TypePreserved DEF Inv
<1>1. CASE Invoke  BY <1>0, <1>1, InvokeInv
<1>2. CASE Proceed
  <2>1. {"tools", "stop", "length"} \subseteq ReplyKinds  BY DEF ReplyKinds
  <2> QED
    BY <1>0, <1>2, <2>1, BoundaryInv, RequestInv, ReplyInv, ToolInv DEF Proceed
<1>3. CASE Disturb  BY <1>0, <1>3, DisturbInv
<1>4. CASE UNCHANGED vars
  BY <1>4
  DEF Inv, TypeInv, TypeOK, ModeFits, SlotsFit, CurFits, EffectOnce, WriteAhead, CallsFit,
      InFlight, TaskFits, NoUnfinishedTask, vars
<1> QED  BY <1>1, <1>2, <1>3, <1>4 DEF Next

\* In every reachable state journal, ledgers, calls and the step of the run
\* (runtime.rs, run) fit together as Inv says: what makes the properties below
\* hold after every crash.
THEOREM InvHolds == Spec => []Inv
  BY InvInitially, InvPreserved, PTL DEF Spec

\* Whatever crashes, cancellations and budgets come together, the next opening
\* can read the journal: the checks of the run are never weaker than the replay's.
THEOREM JournalAlwaysReadable == Spec => []JournalReadable
<1>1. Inv => JournalReadable  BY DEF Inv, Sound, JournalReadable
<1> QED  BY <1>1, InvHolds, PTL

\* The ledger in memory and the ledger a restart would compute never part.
THEOREM LedgersAgree == Spec => []LedgerInSync
<1>1. Inv => LedgerInSync  BY DEF Inv, TaskFits, LedgerInSync
<1> QED  BY <1>1, InvHolds, PTL

\* Over all runs, crashes and resumptions no call is executed twice.
THEOREM AtMostOneEffect == Spec => []EffectOnce
<1>1. Inv => EffectOnce  BY DEF Inv
<1> QED  BY <1>1, InvHolds, PTL

\* No call is executed before its started marker is durable.
THEOREM MarkedBeforeRun == Spec => []WriteAhead
<1>1. Inv => WriteAhead  BY DEF Inv
<1> QED  BY <1>1, InvHolds, PTL

\* A ledger that offers to be resumed hides no open tool call.
THEOREM ResumableIsSettled == Spec => []CheckpointsAreSettled
<1>1. Inv => CheckpointsAreSettled  BY DEF Inv, Sound, CheckpointsAreSettled
<1> QED  BY <1>1, InvHolds, PTL

\* What a run writes can be replayed, and replays to the ledger it decides with.
THEOREM JournalAlwaysReplays == Spec => []JournalReplays
<1>1. JournalReadable /\ LedgerInSync => JournalReplays  BY DEF JournalReplays
<1> QED  BY <1>1, JournalAlwaysReadable, LedgersAgree, PTL

\* An uncertain journal is never appended to, acknowledged or executed again.
THEOREM UncertainStaysFrozen == Spec => UncertainIsFrozen
<1>1. Inv /\ [Next]_vars =>
          [pc = "idle" /\ Uncertain => UNCHANGED <<pc, journal, torn, effects, dispatched>>]_vars
  <2> SUFFICES ASSUME Inv, Next, pc = "idle", Uncertain  PROVE FALSE
    BY DEF vars
  <2>1. Invoke
    BY DEF Next, Proceed, Disturb, AppendPrompt, CreateTask, PauseAtBoundary, EnterLoop,
           StopAtBudget, SkipCompaction, BeginCompaction, MayIterate, SendSummary,
           SummaryArrives, PauseOverBudgetSummary, RecordCompaction, SendRequest,
           ProviderFails, CancelWait, ReceiveReply, RefuseDuplicate, SettleReply,
           CompleteTask, FinishShort, StartTool, ExecuteTool, RecordResult, SettleTool,
           EndTaskBatch, EndShortBatch, BlockRepeating, RecordStage, PauseAfter,
           NextIteration, Tick, SignalPause, Abort, TornAppend, Appending
  <2>2. Openable /\ (NoUnfinishedTask \/ ResumeAllowed(journal.ledger))
    BY <2>1 DEF Invoke, StartShort, StartTask, ResumeTask, CanResume
  <2>3. ~torn /\ Resolved(journal)  BY <2>2 DEF Openable
  <2>4. journal.ledger.state \in {"pending_provider", "pending_tools", "final_pending"}
    BY <2>3 DEF Uncertain
  <2>5. journal.ledger.task  BY <2>4 DEF Inv, Sound, LedgerFits
  <2> QED  BY <2>2, <2>4, <2>5 DEF NoUnfinishedTask, Terminal, ResumeAllowed
<1> QED  BY <1>1, InvHolds, PTL DEF Spec, UncertainIsFrozen

-----------------------------------------------------------------------------
(* Accounts: what a ledger record does to the use of the budgets.          *)

\* No budget of n is less used than that of l.
Grows(l, n) ==
    /\ n.requests >= l.requests /\ n.tokens >= l.tokens
    /\ n.elapsed >= l.elapsed /\ n.interrupted >= l.interrupted

\* n accounts for the same requests as l.
SameRequests(l, n) == n.task = l.task /\ UsedRequests(n) = UsedRequests(l) /\ Grows(l, n)

\* Every record but a reservation and a creation keeps the requests accounted for.
LEMMA RecordsKeepRequests ==
    ASSUME NEW j \in Journal, LedgerFits(j), NEW l, l = j.ledger, NEW e \in Nat, NEW t \in Nat
    PROVE  /\ SameRequests(l, l)
           /\ \A k \in ResponseKinds :
                  CanEndRequest(l, e) => SameRequests(l, LogRequestSettled(j, l, e, t, k).ledger)
           /\ CanEndRequest(l, e) => SameRequests(l, LogRequestFailed(j, l, e, t).ledger)
           /\ CanInterrupt(l, e) => SameRequests(l, LogInterrupted(j, l, e).ledger)
           /\ \A f \in Fingerprints :
                  CanRecordToolBatch(l, e, f) => SameRequests(l, LogToolBatch(j, l, e, f).ledger)
           /\ \A f : CanCheckpoint(l, e, f) => SameRequests(l, LogCheckpoint(j, l, e, f).ledger)
           /\ SameRequests(l, LogPaused(j, l).ledger)
           /\ SameRequests(l, LogTaskFailed(j, l).ledger)
           /\ SameRequests(l, LogCompleted(j, l).ledger)
<1>0. /\ l \in Ledger
      /\ l.requests \in Nat /\ l.tokens \in Nat /\ l.elapsed \in Nat /\ l.interrupted \in Nat
      /\ l.pending \in Nat
  BY DEF Journal, Ledger
<1>1. \A kind, accepted, n : LogTask(j, kind, accepted, n).ledger = n
  BY DEF LogTask, Entry, Journal
<1>2. SameRequests(l, l)  BY <1>0 DEF SameRequests, Grows
<1>3. ASSUME NEW k \in ResponseKinds, CanEndRequest(l, e)
      PROVE  SameRequests(l, LogRequestSettled(j, l, e, t, k).ledger)
  <2> DEFINE n == ReplayRequestSettled(l, e, t, k)
  <2>1. /\ n.requests = l.requests + 1 /\ n.tokens = l.tokens + t /\ n.elapsed = e
        /\ n.interrupted = l.interrupted /\ n.pending = 0 /\ n.task = l.task
    BY <1>0 DEF ReplayRequestSettled, AddRequest, Ledger
  <2>2. e >= l.elapsed /\ l.pending # 0  BY <1>3 DEF CanEndRequest, EnsureElapsed
  <2>3. SameRequests(l, n)
    <3> HIDE DEF n
    <3> QED  BY <1>0, <2>1, <2>2 DEF SameRequests, Grows, UsedRequests
  <2> QED  BY <1>1, <2>3 DEF LogRequestSettled
<1>4. ASSUME CanEndRequest(l, e)  PROVE SameRequests(l, LogRequestFailed(j, l, e, t).ledger)
  <2> DEFINE n == ReplayRequestFailed(l, e, t)
  <2>1. /\ n.requests = l.requests + 1 /\ n.tokens = l.tokens + t /\ n.elapsed = e
        /\ n.interrupted = l.interrupted /\ n.pending = 0 /\ n.task = l.task
    BY <1>0 DEF ReplayRequestFailed, AddRequest, Ledger
  <2>2. e >= l.elapsed /\ l.pending # 0  BY <1>4 DEF CanEndRequest, EnsureElapsed
  <2>3. SameRequests(l, n)
    <3> HIDE DEF n
    <3> QED  BY <1>0, <2>1, <2>2 DEF SameRequests, Grows, UsedRequests
  <2> QED  BY <1>1, <2>3 DEF LogRequestFailed
<1>5. ASSUME CanInterrupt(l, e)  PROVE SameRequests(l, LogInterrupted(j, l, e).ledger)
  <2> DEFINE n == ReplayProviderInterrupted(l, e)
  <2>1. /\ n.requests = l.requests + 1 /\ n.tokens = l.tokens + 0 /\ n.elapsed = e
        /\ n.interrupted = l.interrupted + 1 /\ n.pending = 0 /\ n.task = l.task
    BY <1>0 DEF ReplayProviderInterrupted, AddRequest, Ledger
  <2>2. e >= l.elapsed /\ l.pending # 0
    BY <1>5 DEF CanInterrupt, AcceptProviderInterrupted, AcceptResponse, EnsureElapsed
  <2>3. SameRequests(l, n)
    <3> HIDE DEF n
    <3> QED  BY <1>0, <2>1, <2>2 DEF SameRequests, Grows, UsedRequests
  <2> QED  BY <1>1, <2>3 DEF LogInterrupted
<1>6. ASSUME NEW n, n.requests = l.requests, n.tokens = l.tokens, n.elapsed >= l.elapsed,
             n.interrupted = l.interrupted, n.pending = l.pending, n.task = l.task
      PROVE  SameRequests(l, n)
  BY <1>0, <1>6 DEF SameRequests, Grows, UsedRequests
<1>7. ASSUME NEW f \in Fingerprints, CanRecordToolBatch(l, e, f)
      PROVE  SameRequests(l, LogToolBatch(j, l, e, f).ledger)
  <2> DEFINE n == ReplayToolBatch(l, l.stageRequests, e, f, NextRepeat(l, f))
  <2>1. /\ n.requests = l.requests /\ n.tokens = l.tokens /\ n.elapsed = e
        /\ n.interrupted = l.interrupted /\ n.pending = l.pending /\ n.task = l.task
    BY <1>0 DEF ReplayToolBatch, Ledger
  <2>2. e >= l.elapsed  BY <1>7 DEF CanRecordToolBatch, EnsureElapsed
  <2> QED  BY <1>1, <1>6, <2>1, <2>2 DEF LogToolBatch
<1>8. ASSUME NEW f, CanCheckpoint(l, e, f)
      PROVE  SameRequests(l, LogCheckpoint(j, l, e, f).ledger)
  <2> DEFINE n == ReplayCheckpoint(l, l.stage + 1, e, f, l.repeat)
  <2>1. /\ n.requests = l.requests /\ n.tokens = l.tokens /\ n.elapsed = e
        /\ n.interrupted = l.interrupted /\ n.pending = l.pending /\ n.task = l.task
    BY <1>0 DEF ReplayCheckpoint, Ledger
  <2>2. e >= l.elapsed  BY <1>8 DEF CanCheckpoint, EnsureElapsed
  <2> QED  BY <1>1, <1>6, <2>1, <2>2 DEF LogCheckpoint
<1>9. \A n \in {ReplayPaused(l, l.elapsed), ReplayFailed(l, l.elapsed),
                ReplayCompleted(l, l.elapsed)} :
          /\ n.requests = l.requests /\ n.tokens = l.tokens /\ n.elapsed = l.elapsed
          /\ n.interrupted = l.interrupted /\ n.pending = l.pending /\ n.task = l.task
  BY <1>0 DEF ReplayPaused, ReplayFailed, ReplayCompleted, Ledger
<1>10. /\ SameRequests(l, LogPaused(j, l).ledger)
       /\ SameRequests(l, LogTaskFailed(j, l).ledger)
       /\ SameRequests(l, LogCompleted(j, l).ledger)
  BY <1>0, <1>1, <1>6, <1>9 DEF LogPaused, LogTaskFailed, LogCompleted
<1> QED  BY <1>2, <1>3, <1>4, <1>5, <1>7, <1>8, <1>10

\* No other entry is about the ledger.
LEMMA OtherEntriesKeepLedger ==
    ASSUME NEW j \in Journal, NEW c, NEW cs
    PROVE  \A next \in { j, LogUser(j), LogAssistant(j, cs), LogResult(j, c), LogStarted(j, c),
                         LogSettled(j, c), LogCompaction(j) } : next.ledger = j.ledger
  BY DEF LogUser, LogAssistant, LogResult, LogStarted, LogSettled, LogCompaction, Entry, Journal

\* A reservation is the one record that adds a request, on a ledger that has none
\* in flight.
Reserved ==
    /\ mode = "long" /\ CanBeginRequest(mem, clock)
    /\ journal' = LogRequestStarted(journal, mem, clock) /\ mem' = BeginRequest(mem, clock)
    /\ dispatched' = dispatched + 1

\* What a step makes of the ledger in the journal.
LEMMA LedgerMoves ==
    ASSUME Inv, [Next]_vars
    PROVE  \/ SameRequests(journal.ledger, journal'.ledger) /\ dispatched' = dispatched
           \/ CreateTask
           \/ Reserved
<1> DEFINE Same == SameRequests(journal.ledger, journal'.ledger) /\ dispatched' = dispatched
<1>0. /\ journal \in Journal /\ LedgerFits(journal) /\ clock \in Nat /\ 0 \in Nat
      /\ reply \in Replies
      /\ \A t \in TokenDeltas : t \in Nat
  BY LoopAssumption DEF Inv, TypeInv, TypeOK, Sound
<1>1. SameRequests(journal.ledger, journal.ledger)
  BY <1>0, RecordsKeepRequests
<1>2. mode = "long" /\ pc \notin {"prompt", "create"} => mem = journal.ledger
  BY DEF Inv, TaskFits
<1>3. ASSUME journal'.ledger = journal.ledger, dispatched' = dispatched  PROVE Same
  BY <1>1, <1>3
<1>4. ASSUME Invoke
      PROVE  Same
  BY <1>3, <1>4 DEF Invoke, StartShort, StartTask, ResumeTask, Start, ghost
<1>5. ASSUME Disturb \/ UNCHANGED vars
      PROVE  Same
  BY <1>3, <1>5 DEF Disturb, Tick, SignalPause, Abort, TornAppend, ghost, vars
<1>6. ASSUME \/ AppendPrompt \/ EnterLoop \/ SkipCompaction \/ BeginCompaction
           \/ RecordCompaction \/ RefuseDuplicate \/ FinishShort \/ NextIteration
      PROVE  Same
  <2>1. journal' \in {journal, LogUser(journal), LogCompaction(journal)}
        /\ dispatched' = dispatched
    BY <1>6
    DEF AppendPrompt, EnterLoop, SkipCompaction, BeginCompaction, RecordCompaction,
        RefuseDuplicate, FinishShort, NextIteration, Step, ghost
  <2> QED  BY <1>0, <1>3, <2>1, OtherEntriesKeepLedger
<1>7. ASSUME \/ \E c \in Calls, refused \in BOOLEAN : StartTool(c, refused)
             \/ ExecuteTool \/ RecordResult \/ SettleTool
      PROVE  Same
  <2>1. PICK c : journal' \in {journal, LogStarted(journal, c), LogResult(journal, c),
                               LogSettled(journal, c)}
    BY <1>7 DEF StartTool, ExecuteTool, RecordResult, SettleTool, Step
  <2>2. dispatched' = dispatched
    BY <1>7 DEF StartTool, ExecuteTool, RecordResult, SettleTool, ghost
  <2> QED  BY <1>0, <1>3, <2>1, <2>2, OtherEntriesKeepLedger
<1>17. ASSUME NEW f, EndShortBatch(f)  PROVE Same
  BY <1>3, <1>17 DEF EndShortBatch, Step, ghost
<1>18. ASSUME NEW kind, NEW cs, NEW t, ReceiveReply(kind, cs, t)  PROVE Same
  <2>1. journal' = LogAssistant(journal, cs) /\ dispatched' = dispatched
    BY <1>18 DEF ReceiveReply, Step, ghost
  <2> QED  BY <1>0, <1>3, <2>1, OtherEntriesKeepLedger
<1>8. ASSUME PauseAtBoundary \/ StopAtBudget
      PROVE  Same
  <2>1. journal' = journal \/ (mode = "long" /\ journal' = LogPaused(journal, mem))
    BY <1>8 DEF PauseAtBoundary, PauseObserved, StopAtBudget, PausedJournal
  <2>2. pc \notin {"prompt", "create"} /\ dispatched' = dispatched
    BY <1>8 DEF PauseAtBoundary, StopAtBudget, ghost
  <2> QED  BY <1>0, <1>1, <1>2, <2>1, <2>2, RecordsKeepRequests
<1>9. ASSUME NEW next \in {"summary", "compacted"}, NEW t \in TokenDeltas,
             SummaryArrives(next, t)
      PROVE  Same
  <2>1. \/ journal' = journal
        \/ /\ mode = "long" /\ CanEndRequest(mem, clock)
           /\ journal' = LogRequestSettled(journal, mem, clock, t, "summary")
    BY <1>9 DEF SummaryArrives, Step
  <2>2. pc = "awaitSummary" /\ dispatched' = dispatched /\ "summary" \in ResponseKinds
    BY <1>9 DEF SummaryArrives, ghost, ResponseKinds
  <2> QED  BY <1>0, <1>1, <1>2, <2>1, <2>2, RecordsKeepRequests
<1>10. ASSUME \/ PauseOverBudgetSummary \/ PauseAfter \/ BlockRepeating \/ CompleteTask
      PROVE  Same
  <2>1. journal' \in {journal, LogPaused(journal, mem), LogTaskFailed(journal, mem),
                      LogCompleted(journal, mem)}
        /\ dispatched' = dispatched
    BY <1>10 DEF PauseOverBudgetSummary, PauseAfter, BlockRepeating, CompleteTask, EndWith, ghost
  <2>2. mode = "long" /\ pc \notin {"prompt", "create"}
    BY <1>10 DEF PauseOverBudgetSummary, PauseAfter, BlockRepeating, CompleteTask, LongSteps,
                 Inv, TypeInv, ModeFits
  <2> QED  BY <1>0, <1>1, <1>2, <2>1, <2>2, RecordsKeepRequests
<1>11. CASE SendSummary \/ SendRequest
  <2>a. mode \in {"short", "long"}
    BY <1>11 DEF SendSummary, SendRequest, Inv, TypeInv, ModeFits, TypeOK
  <2>1. \/ journal' = journal /\ dispatched' = dispatched
        \/ Reserve("awaitSummary") \/ Reserve("await")
    BY <1>11 DEF SendSummary, SendRequest, ghost
  <2>2. \/ journal' = journal /\ dispatched' = dispatched
        \/ Reserved
    <3>1. ASSUME NEW next, Reserve(next)
          PROVE  (journal' = journal /\ dispatched' = dispatched) \/ Reserved
      <4>1. CASE mode = "short"  BY <3>1, <4>1 DEF Reserve, Step, ghost
      <4>2. CASE mode # "short" /\ CanBeginRequest(mem, clock)
        BY <2>a, <3>1, <4>2 DEF Reserve, Step, Reserved
      <4>3. CASE mode # "short" /\ ~CanBeginRequest(mem, clock)
        BY <3>1, <4>3 DEF Reserve, ghost
      <4> QED  BY <4>1, <4>2, <4>3
    <3> QED  BY <2>1, <3>1
  <2> QED  BY <1>1, <2>2
<1>12. ASSUME NEW t \in TokenDeltas, ProviderFails(t)  PROVE Same
  <2>1. \/ journal' = journal
        \/ /\ mode = "long" /\ CanEndRequest(mem, clock)
           /\ journal' = LogRequestFailed(journal, mem, clock, t)
    BY <1>12 DEF ProviderFails
  <2>2. pc \notin {"prompt", "create"} /\ dispatched' = dispatched
    BY <1>12 DEF ProviderFails, ghost
  <2> QED  BY <1>0, <1>1, <1>2, <2>1, <2>2, RecordsKeepRequests
<1>13. ASSUME NEW how, CancelWait(how)  PROVE Same
  <2>1. CancelledAt(how) \in Nat
    BY <1>0, LimitsAssumption DEF CancelledAt, LeastOf
  <2>2. \/ journal' = journal
        \/ /\ mode = "long" /\ CanInterrupt(mem, CancelledAt(how))
           /\ journal' = LogInterrupted(journal, mem, CancelledAt(how))
    BY <1>13 DEF CancelWait
  <2>3. pc \notin {"prompt", "create"} /\ dispatched' = dispatched
    BY <1>13 DEF CancelWait, ghost
  <2> QED  BY <1>0, <1>1, <1>2, <2>1, <2>2, <2>3, RecordsKeepRequests
<1>14. ASSUME SettleReply
      PROVE  Same
  <2>1. reply.elapsed \in Nat /\ reply.tokens \in Nat /\ {"tools", "final"} \subseteq ResponseKinds
    BY <1>0 DEF Replies, ResponseKinds
  <2>2. \/ journal' = journal
        \/ /\ CanEndRequest(mem, reply.elapsed)
           /\ \E k \in {"tools", "final"} :
                  journal' = LogRequestSettled(journal, mem, reply.elapsed, reply.tokens, k)
    BY <1>14 DEF SettleReply, Step
  <2>3. mode = "long" /\ pc \notin {"prompt", "create"} /\ dispatched' = dispatched
    BY <1>14 DEF SettleReply, LongSteps, Inv, TypeInv, ModeFits, ghost
  <2> QED  BY <1>0, <1>1, <1>2, <2>1, <2>2, <2>3, RecordsKeepRequests
<1>15. ASSUME NEW f \in Fingerprints, EndTaskBatch(f)  PROVE Same
  <2>1. \/ journal' = journal
        \/ /\ CanRecordToolBatch(mem, clock, f)
           /\ journal' = LogToolBatch(journal, mem, clock, f)
    BY <1>15 DEF EndTaskBatch, Step
  <2>2. mode = "long" /\ pc \notin {"prompt", "create"} /\ dispatched' = dispatched
    BY <1>15 DEF EndTaskBatch, ghost
  <2> QED  BY <1>0, <1>1, <1>2, <2>1, <2>2, RecordsKeepRequests
<1>16. ASSUME RecordStage
      PROVE  Same
  <2>1. \/ journal' = journal
        \/ /\ CanCheckpoint(mem, clock, mem.fingerprint)
           /\ journal' = LogCheckpoint(journal, mem, clock, mem.fingerprint)
    BY <1>16 DEF RecordStage, Step
  <2>2. mode = "long" /\ pc \notin {"prompt", "create"} /\ dispatched' = dispatched
    BY <1>16 DEF RecordStage, LongSteps, Inv, TypeInv, ModeFits, ghost
  <2> QED  BY <1>0, <1>1, <1>2, <2>1, <2>2, RecordsKeepRequests
<1>19. ASSUME Proceed  PROVE Same \/ CreateTask \/ Reserved
  <2>1. \/ AppendPrompt \/ EnterLoop \/ SkipCompaction \/ BeginCompaction
        \/ RecordCompaction \/ RefuseDuplicate \/ FinishShort \/ NextIteration
        \/ PauseAtBoundary \/ StopAtBudget \/ PauseOverBudgetSummary \/ PauseAfter
        \/ BlockRepeating \/ CompleteTask \/ SettleReply \/ RecordStage
        \/ ExecuteTool \/ RecordResult \/ SettleTool
        \/ \E c \in Calls, refused \in BOOLEAN : StartTool(c, refused)
        => Same
    BY <1>6, <1>7, <1>8, <1>10, <1>14, <1>16
  <2>2. SendSummary \/ SendRequest => Same \/ Reserved \/ CreateTask
    BY <1>11
  <2>3. ASSUME \/ \E next \in {"summary", "compacted"}, t \in TokenDeltas :
                      SummaryArrives(next, t)
               \/ \E t \in TokenDeltas : ProviderFails(t)
               \/ \E how \in {"interrupted", "deadline"} : CancelWait(how)
               \/ \E cs \in SUBSET Calls \ {{}}, t \in TokenDeltas : ReceiveReply("tools", cs, t)
               \/ \E kind \in {"stop", "length"}, t \in TokenDeltas : ReceiveReply(kind, {}, t)
               \/ \E f \in Fingerprints : EndTaskBatch(f) \/ EndShortBatch(f)
        PROVE  Same
    <3> HIDE DEF Same
    <3> QED  BY <1>9, <1>12, <1>13, <1>15, <1>17, <1>18, <2>3
  <2> HIDE DEF Same
  <2> QED  BY <1>19, <2>1, <2>2, <2>3 DEF Proceed
<1> QED  BY <1>4, <1>5, <1>19 DEF Next

-----------------------------------------------------------------------------
(* Accounts is inductive, given Inv.                                       *)

\* Whoever is past the creation of the task knows it.
LEMMA TaskIsKnown ==
    ASSUME Inv, mode = "long", pc \notin {"prompt", "create"}
    PROVE  mem.task /\ mem = journal.ledger /\ mem \in Ledger
  BY DEF Inv, TaskFits, TypeInv, TypeOK

\* The requests that were sent stay accounted for.
LEMMA DispatchedStays ==
    ASSUME Inv, Accounts, [Next]_vars
    PROVE  /\ journal'.ledger.task => dispatched' = UsedRequests(journal'.ledger)
           /\ dispatched' <= MaxRequests
<1>0. /\ journal \in Journal /\ journal.ledger \in Ledger /\ clock \in Nat
      /\ dispatched <= MaxRequests /\ dispatched \in Nat
      /\ journal.ledger.task => dispatched = UsedRequests(journal.ledger)
  BY DEF Inv, TypeInv, TypeOK, Journal, Accounts, DispatchAccounted, UsedRequests
<1>1. ASSUME SameRequests(journal.ledger, journal'.ledger), dispatched' = dispatched
      PROVE  /\ journal'.ledger.task => dispatched' = UsedRequests(journal'.ledger)
             /\ dispatched' <= MaxRequests
  BY <1>0, <1>1 DEF SameRequests
<1>2. CASE CreateTask
  <2>1. journal'.ledger = ReplayCreated(journal.ledger) /\ dispatched' = 0
    BY <1>0, <1>2 DEF CreateTask, Step, LogCreated, LogTask, Entry, Journal
  <2> QED  BY <2>1, LimitsAssumption DEF ReplayCreated, DefaultLedger, UsedRequests
<1>3. CASE Reserved
  <2>1. mem = journal.ledger /\ mem.task /\ mem.state \in {"ready", "paused"}
        /\ mem.requests < MaxRequests
    BY <1>3 DEF Reserved, CanBeginRequest, ResumeAllowed, Inv, TaskFits
  <2>2. mem.pending = 0
    BY <2>1 DEF Inv, Sound, LedgerFits
  <2>3. journal'.ledger = BeginRequest(mem, clock)
    BY <1>0, <1>3, <2>1, 0 \in Nat, RequestRecordsSound DEF Reserved, Inv
  <2>4. journal'.ledger.requests = mem.requests /\ journal'.ledger.pending = mem.requests + 1
    BY <1>0, <2>1, <2>3 DEF BeginRequest, Ledger
  <2>5. mem.requests \in Nat  BY <1>0, <2>1 DEF Ledger
  <2> QED
    BY <1>0, <1>3, <2>1, <2>2, <2>4, <2>5, LimitsAssumption DEF Reserved, UsedRequests
<1> QED  BY <1>1, <1>2, <1>3, LedgerMoves

\* A run that returns, on terms that its last record justifies.
LEMMA LeaveAccounts ==
    ASSUME Inv, Accounts, [Next]_vars, NEW how, Leave(how), pc # "idle", Sound(journal'),
           how = "deadline" => ~ResumeAllowed(journal'.ledger),
           how \in {"answered", "repeat_limit", "completed", "blocked", "paused", "wall"} =>
               Resolved(journal'),
           how \in {"paused", "wall"} => journal'.ledger.state = "paused"
    PROVE  Accounts'
<1>1. CleanExit'
  BY DEF Accounts, Leave, Vanish, CleanExit, Openable, Sound
<1>2. DispatchAccounted'
  BY DispatchedStays DEF Leave, Vanish, DispatchAccounted, UsedRequests
<1> QED  BY <1>1, <1>2 DEF Accounts, Leave, Vanish

\* A step of the loop that spends no slot.
LEMMA StepAccounts ==
    ASSUME Inv, Inv', Accounts, [Next]_vars, NEW next, NEW j, Step(next, j),
           pc # "idle", next # "idle", remaining' = remaining,
           mode = "long" => /\ pc \notin {"prompt", "create", "handshake"}
                            /\ next \notin {"prompt", "create", "handshake"}
                            /\ SameRequests(journal.ledger, j.ledger)
                            /\ next \in SettledSteps => mem'.state \in {"ready", "paused"}
                            /\ next \in BatchSteps => mem'.tokens <= MaxTokens
    PROVE  Accounts'
<1>0. /\ pc' = next /\ mode' = mode /\ journal' = j /\ outcome' = "none" /\ ~torn'
  BY DEF Step, Accounts
<1>1. CleanExit'  BY <1>0 DEF CleanExit
<1>2. DispatchAccounted'
  <2>1. CASE mode # "long"
    BY <1>0, <2>1, DispatchedStays DEF DispatchAccounted, UsedRequests
  <2>2. CASE mode = "long"
    <3>1. mem = journal.ledger /\ mem' = j.ledger
      BY <1>0, <2>2 DEF Inv, TaskFits
    <3>2. UsedRequests(mem') = UsedRequests(mem)
      BY <2>2, <3>1 DEF SameRequests
    <3>3. /\ mem.requests \in Nat /\ mem'.requests \in Nat
          /\ remaining \in Nat /\ remaining' \in Nat
      BY DEF Inv, TypeInv, TypeOK, Ledger
    <3>4. remaining + UsedRequests(mem) = MaxRequests
      BY <2>2, <3>3 DEF Accounts, DispatchAccounted, UsedRequests
    <3>5. remaining' + mem'.requests + (IF mem'.pending = 0 THEN 0 ELSE 1) = MaxRequests
      BY <3>2, <3>3, <3>4 DEF UsedRequests
    <3> QED
      BY <1>0, <3>5, DispatchedStays DEF DispatchAccounted, UsedRequests
  <2> QED  BY <2>1, <2>2
<1> QED  BY <1>0, <1>1, <1>2 DEF Accounts

\* Before the loop a long task only has to be at a settled boundary.
LEMMA EarlyAccounts ==
    ASSUME Inv, Accounts, [Next]_vars, pc' \in {"prompt", "create", "handshake"},
           outcome' = "none", ~torn',
           mode' = "long" /\ mem'.task /\ pc' # "create" => mem'.state \in {"ready", "paused"}
    PROVE  Accounts'
<1>1. CleanExit'  BY DEF CleanExit
<1>2. DispatchAccounted'  BY DispatchedStays DEF DispatchAccounted, UsedRequests
<1> QED  BY <1>1, <1>2 DEF Accounts, BatchSteps, SettledSteps

\* Starting a run, and its way into the loop.
LEMMA StartingAccounts ==
    ASSUME Inv, Inv', Accounts, [Next]_vars,
           Invoke \/ AppendPrompt \/ CreateTask \/ EnterLoop
    PROVE  Accounts'
<1>1. CASE Invoke
  <2>1. PICK next \in {"prompt", "handshake"}, m \in {"short", "long"},
             l \in {DefaultLedger, journal.ledger} :
          /\ Start(next, m, l) /\ Openable
          /\ l = DefaultLedger \/ ResumeAllowed(l)
    BY <1>1 DEF Invoke, StartShort, StartTask, ResumeTask, CanResume
  <2>2. ~DefaultLedger.task  BY DEF DefaultLedger
  <2> QED  BY <2>1, <2>2, EarlyAccounts DEF Start, Openable, ResumeAllowed
<1>2. CASE AppendPrompt
  <2>0. pc = "prompt" /\ mem' = mem /\ mode' = mode /\ outcome' = "none" /\ ~torn'
        /\ mode \in {"short", "long"} /\ remaining' = remaining
    BY <1>2 DEF AppendPrompt, Step, Accounts, Inv, TypeInv, TypeOK, ModeFits
  <2>1. CASE mode = "long"
    <3>1. pc' \in {"handshake", "create"}
      BY <1>2, <2>1 DEF AppendPrompt, Step
    <3> QED  BY <2>0, <2>1, <3>1, EarlyAccounts DEF Accounts, SettledSteps
  <2>2. CASE mode = "short"
    BY <1>2, <2>0, <2>2, StepAccounts DEF AppendPrompt
  <2> QED  BY <2>0, <2>1, <2>2
<1>3. CASE CreateTask
  <2>1. journal'.ledger = ReplayCreated(journal.ledger)
    BY <1>3 DEF CreateTask, Step, LogCreated, LogTask, Entry, Journal, Inv, TypeInv, TypeOK
  <2>2. mem' = journal'.ledger /\ pc' = "handshake" /\ outcome' = "none" /\ ~torn'
    BY <1>3 DEF CreateTask, Step, Accounts
  <2>3. mem'.state = "ready"
    BY <2>1, <2>2 DEF ReplayCreated, DefaultLedger
  <2> QED  BY <2>2, <2>3, EarlyAccounts
<1>4. CASE EnterLoop
  <2>1. mode = "long" /\ mem.task /\ mem = journal.ledger /\ mem \in Ledger
    BY <1>4, TaskIsKnown DEF EnterLoop, Inv, TypeInv, ModeFits, LongSteps
  <2>2. mem.state \in {"ready", "paused"} /\ mem.pending = 0
    BY <1>4, <2>1 DEF EnterLoop, Accounts, SettledSteps, Inv, Sound, LedgerFits
  <2>3. mem.requests \in Nat /\ mem.requests <= MaxRequests /\ MaxRequests \in Nat
    BY <2>1, <2>2, LimitsAssumption DEF Accounts, DispatchAccounted, Ledger
  <2>4. remaining' = MaxRequests - mem.requests
    BY <1>4, <2>3 DEF EnterLoop, SlotsLeft
  <2>5. /\ pc' = "loop" /\ mem' = mem /\ mode' = mode /\ outcome' = "none" /\ ~torn'
    BY <1>4 DEF EnterLoop, Step, Accounts
  <2>6. DispatchAccounted'
    BY <2>2, <2>3, <2>4, <2>5, DispatchedStays DEF DispatchAccounted, UsedRequests
  <2> QED  BY <2>2, <2>5, <2>6 DEF Accounts, CleanExit, BatchSteps
<1> QED  BY <1>1, <1>2, <1>3, <1>4

\* A reservation takes a slot and puts a request in flight.
LEMMA ReserveAccounts ==
    ASSUME Inv, Inv', Accounts, [Next]_vars, NEW next \in {"await", "awaitSummary"},
           Reserve(next), pc \in {"summary", "request"},
           pc' # "idle" => remaining' = Spend(remaining)
    PROVE  Accounts'
<1>0. mode \in {"short", "long"} /\ outcome = "none" /\ ~torn
  BY DEF Inv, TypeInv, TypeOK, ModeFits, Accounts
<1>1. CASE mode = "short"
  <2>1. pc' = next /\ mode' = "short" /\ outcome' = "none" /\ ~torn'
    BY <1>0, <1>1 DEF Reserve, Step
  <2>2. DispatchAccounted' /\ CleanExit'
    BY <2>1, DispatchedStays DEF DispatchAccounted, CleanExit, UsedRequests
  <2> QED  BY <2>1, <2>2 DEF Accounts
<1>2. CASE mode = "long" /\ CanBeginRequest(mem, clock)
  <2>1. /\ mem.task /\ mem = journal.ledger /\ mem \in Ledger
        /\ mem.state \in {"ready", "paused"}
    BY <1>2, TaskIsKnown DEF CanBeginRequest, ResumeAllowed
  <2>2. mem.pending = 0  BY <2>1 DEF Inv, Sound, LedgerFits
  <2>3. pc' = next /\ mode' = "long" /\ outcome' = "none" /\ ~torn'
        /\ mem' = BeginRequest(mem, clock) /\ remaining' = remaining - 1
    BY <1>0, <1>2 DEF Reserve, Step, Spend
  <2>4. mem'.requests = mem.requests /\ mem'.pending = mem.requests + 1
    BY <2>1, <2>3 DEF BeginRequest, Ledger
  <2>5. mem.requests \in Nat /\ remaining \in Nat /\ remaining >= 1 /\ MaxRequests \in Nat
    BY <2>1, LimitsAssumption DEF Ledger, Inv, TypeInv, TypeOK, SlotsFit
  <2>6. remaining + mem.requests = MaxRequests
    BY <1>2, <2>2, <2>5 DEF Accounts, DispatchAccounted
  <2>7. DispatchAccounted'
    BY <2>3, <2>4, <2>5, <2>6, DispatchedStays DEF DispatchAccounted, UsedRequests
  <2> QED  BY <2>3, <2>7 DEF Accounts, CleanExit, BatchSteps, SettledSteps
<1>3. CASE mode = "long" /\ ~CanBeginRequest(mem, clock)
  BY <1>3, LeaveAccounts DEF Reserve, Inv
<1> QED  BY <1>0, <1>1, <1>2, <1>3

\* A run that returns for a reason that promises nothing of the journal.
LEMMA PlainLeave ==
    ASSUME Inv, Inv', Accounts, [Next]_vars, pc # "idle",
           \E how \in {"budget", "refused", "aborted", "provider", "length", "interrupted"} :
               Leave(how)
    PROVE  Accounts'
  BY LeaveAccounts DEF Inv

\* Compaction and the way to a request.
LEMMA RequestAccounts ==
    ASSUME Inv, Inv', Accounts, [Next]_vars,
           \/ SkipCompaction \/ BeginCompaction \/ SendSummary
           \/ \E next \in {"summary", "compacted"}, t \in TokenDeltas : SummaryArrives(next, t)
           \/ PauseOverBudgetSummary \/ RecordCompaction \/ SendRequest
    PROVE  Accounts'
<1>0. /\ journal \in Journal /\ LedgerFits(journal) /\ clock \in Nat /\ 0 \in Nat
      /\ \A t \in TokenDeltas : t \in Nat
  BY LoopAssumption DEF Inv, TypeInv, TypeOK, Sound
<1>1. CASE SkipCompaction \/ BeginCompaction \/ RecordCompaction
  <2>1. PICK next \in {"request", "summary"}, j \in {journal, LogCompaction(journal)} :
            Step(next, j) /\ UNCHANGED <<mem, remaining>> /\ pc \in {"loop", "compacted"}
    BY <1>1 DEF SkipCompaction, BeginCompaction, RecordCompaction, MayIterate
  <2>2. j.ledger = journal.ledger  BY <1>0, <2>1, OtherEntriesKeepLedger
  <2>3. mode = "long" => mem.state \in {"ready", "paused"}
    BY <2>1, TaskIsKnown DEF Accounts, SettledSteps
  <2>4. SameRequests(journal.ledger, j.ledger)  BY <1>0, <2>2, RecordsKeepRequests
  <2> QED  BY <2>1, <2>3, <2>4, StepAccounts DEF BatchSteps
<1>2. CASE SendSummary
  BY <1>2, ReserveAccounts, PlainLeave DEF SendSummary
<1>3. CASE SendRequest
  BY <1>3, ReserveAccounts DEF SendRequest
<1>4. ASSUME NEW next \in {"summary", "compacted"}, NEW t \in TokenDeltas,
             SummaryArrives(next, t)
      PROVE  Accounts'
  <2>0. pc = "awaitSummary" /\ "summary" \in ResponseKinds
    BY <1>4 DEF SummaryArrives, ResponseKinds
  <2>1. CASE mode = "short"
    <3>1. Step(next, journal) /\ remaining' = remaining
      BY <1>4, <2>1 DEF SummaryArrives
    <3> QED  BY <2>0, <2>1, <3>1, StepAccounts
  <2>2. CASE mode = "long" /\ CanEndRequest(mem, clock)
    <3> DEFINE j == LogRequestSettled(journal, mem, clock, t, "summary")
    <3>1. PICK n \in {"summary", "compacted", "summaryPause"} : Step(n, j)
      BY <1>4, <2>2 DEF SummaryArrives
    <3>2. mem' = SettleRequest(mem, clock, t, "summary") /\ remaining' = remaining
      BY <1>4, <2>2 DEF SummaryArrives
    <3>3. mem = journal.ledger /\ mem \in Ledger
      BY <2>0, <2>2, TaskIsKnown
    <3>4. mem'.state = "ready"
      BY <3>2, <3>3 DEF SettleRequest, StateAfter, Ledger
    <3>5. SameRequests(journal.ledger, j.ledger)
      BY <1>0, <2>0, <2>2, <3>3, RecordsKeepRequests
    <3> HIDE DEF j
    <3> QED  BY <2>0, <3>1, <3>2, <3>4, <3>5, StepAccounts DEF BatchSteps
  <2>3. CASE mode = "long" /\ ~CanEndRequest(mem, clock)
    BY <1>4, <2>0, <2>3, PlainLeave DEF SummaryArrives
  <2> QED  BY <1>4, <2>1, <2>2, <2>3 DEF SummaryArrives
<1>5. CASE PauseOverBudgetSummary
  BY <1>5, PlainLeave DEF PauseOverBudgetSummary, EndWith
<1> QED  BY <1>1, <1>2, <1>3, <1>4, <1>5

\* What a pause makes of the journal of a task at a settled boundary.
LEMMA PausedIsPaused ==
    ASSUME Inv, mode = "long", mem.task, mem.state \in {"ready", "paused"},
           journal' = PausedJournal
    PROVE  journal'.ledger.state = "paused" /\ SameCalls(journal, journal')
<1>1. /\ mem = journal.ledger /\ journal \in Journal /\ mem \in Ledger
      /\ {"long_task"} \subseteq EntryKinds
  BY DEF Inv, TaskFits, TypeInv, TypeOK, EntryKinds
<1>2. CASE mem.state = "ready"
  <2>1. journal' = LogPaused(journal, mem)
    BY <1>2 DEF PausedJournal, CanPause
  <2>2. journal'.ledger = ReplayPaused(mem, mem.elapsed)
    BY <1>1, <2>1 DEF LogPaused, LogTask, Entry, Journal
  <2>3. journal'.ledger.state = "paused"
    BY <1>1, <2>2 DEF ReplayPaused, Ledger
  <2> QED  BY <1>1, <2>1, <2>3, TaskEntriesKeepCalls
<1>3. CASE mem.state = "paused"
  BY <1>1, <1>3 DEF PausedJournal, CanPause, SameCalls
<1> QED  BY <1>2, <1>3

\* The settled boundaries and the ends of a task.
LEMMA BoundaryAccounts ==
    ASSUME Inv, Inv', Accounts, [Next]_vars,
           \/ PauseAtBoundary \/ StopAtBudget \/ NextIteration \/ RecordStage
           \/ PauseAfter \/ BlockRepeating \/ CompleteTask
    PROVE  Accounts'
<1>0. /\ journal \in Journal /\ LedgerFits(journal) /\ clock \in Nat /\ 0 \in Nat
      /\ SameCalls(journal, journal) /\ Sound(journal')
  BY DEF Inv, TypeInv, TypeOK, Sound, SameCalls
<1>r. SameCalls(journal, journal') /\ Resolved(journal) => Resolved(journal')
  BY DEF SameCalls, Resolved
<1>1. CASE PauseAtBoundary
  <2>1. /\ mode = "long" /\ mem.state \in {"ready", "paused"} /\ Leave("paused")
        /\ journal' = PausedJournal /\ pc \in {"handshake", "loop", "request", "boundary"}
    BY <1>1 DEF PauseAtBoundary, PauseObserved
  <2>2. Resolved(journal)  BY <2>1, QuietIsResolved DEF InFlight
  <2>3. journal'.ledger.state = "paused" /\ SameCalls(journal, journal')
    BY <2>1, TaskIsKnown, PausedIsPaused
  <2> QED  BY <1>0, <1>r, <2>1, <2>2, <2>3, LeaveAccounts
<1>2. CASE StopAtBudget
  <2>0. pc = "loop"  BY <1>2 DEF StopAtBudget
  <2>1. CASE Leave("budget")
    BY <2>0, <2>1, PlainLeave
  <2>2. CASE Leave("wall") /\ mode = "long" /\ journal' = PausedJournal
    <3>1. Resolved(journal)  BY <2>0, QuietIsResolved DEF InFlight
    <3>2. mem.task /\ mem.state \in {"ready", "paused"}
      BY <2>0, <2>2, TaskIsKnown DEF Accounts, SettledSteps
    <3>3. journal'.ledger.state = "paused" /\ SameCalls(journal, journal')
      BY <2>2, <3>2, PausedIsPaused
    <3> QED  BY <1>0, <1>r, <2>0, <2>2, <3>1, <3>3, LeaveAccounts
  <2> QED  BY <1>2, <2>1, <2>2 DEF StopAtBudget
<1>3. CASE NextIteration
  <2>1. mode = "long" => mem.state \in {"ready", "paused"}
    BY <1>3, TaskIsKnown DEF NextIteration, Accounts, SettledSteps
  <2>2. SameRequests(journal.ledger, journal.ledger)  BY <1>0, RecordsKeepRequests
  <2> QED  BY <1>3, <2>1, <2>2, StepAccounts DEF NextIteration, BatchSteps
<1>4. CASE RecordStage
  <2>0. pc = "stage" /\ mode = "long"
    BY <1>4 DEF RecordStage, LongSteps, Inv, TypeInv, ModeFits
  <2>m. mem = journal.ledger /\ mem \in Ledger  BY <2>0, TaskIsKnown
  <2>1. CASE CanCheckpoint(mem, clock, mem.fingerprint)
    <3> DEFINE j == LogCheckpoint(journal, mem, clock, mem.fingerprint)
    <3>1. PICK n \in {"stagePause", "boundary"} : Step(n, j)
      BY <1>4, <2>1 DEF RecordStage
    <3>2. mem' = Checkpoint(mem, clock) /\ remaining' = remaining
      BY <1>4, <2>1 DEF RecordStage
    <3>3. mem'.state = "ready"  BY <2>m, <3>2 DEF Checkpoint, Ledger
    <3>4. SameRequests(journal.ledger, j.ledger)
      BY <1>0, <2>1, <2>m, RecordsKeepRequests
    <3> HIDE DEF j
    <3> QED  BY <2>0, <3>1, <3>2, <3>3, <3>4, StepAccounts DEF BatchSteps
  <2>2. CASE ~CanCheckpoint(mem, clock, mem.fingerprint)
    BY <1>4, <2>0, <2>2, PlainLeave DEF RecordStage
  <2> QED  BY <2>1, <2>2
<1>5. CASE PauseAfter \/ BlockRepeating \/ CompleteTask
  <2>0. pc \in {"stagePause", "blocked", "complete"} /\ mode = "long"
    BY <1>5
    DEF PauseAfter, BlockRepeating, CompleteTask, LongSteps, Inv, TypeInv, ModeFits
  <2>1. CASE Leave("refused")  BY <2>0, <2>1, PlainLeave
  <2>2. CASE PauseAfter /\ ~Leave("refused")
    <3>1. CanPause(mem) /\ journal' = LogPaused(journal, mem) /\ Leave("paused")
      BY <2>2 DEF PauseAfter, EndWith
    <3>2. Resolved(journal)  BY <2>0, QuietIsResolved DEF InFlight
    <3>3. journal' = PausedJournal /\ mem.state = "ready"
      BY <3>1 DEF PausedJournal, CanPause
    <3>4. journal'.ledger.state = "paused" /\ SameCalls(journal, journal')
      BY <2>0, <3>3, TaskIsKnown, PausedIsPaused
    <3> QED  BY <1>0, <1>r, <2>0, <3>1, <3>2, <3>4, LeaveAccounts
  <2>3. CASE (BlockRepeating \/ CompleteTask) /\ ~Leave("refused")
    <3>1. PICK how \in {"blocked", "completed"} : Leave(how)
      BY <2>3 DEF BlockRepeating, CompleteTask, EndWith
    <3>2. journal' \in {LogTaskFailed(journal, mem), LogCompleted(journal, mem)}
      BY <2>3 DEF BlockRepeating, CompleteTask, EndWith
    <3>3. Resolved(journal)  BY <2>0, QuietIsResolved DEF InFlight
    <3>4. SameCalls(journal, journal')
      BY <1>0, <3>2, TaskEntriesKeepCalls
    <3> QED  BY <1>0, <1>r, <2>0, <3>1, <3>3, <3>4, LeaveAccounts
  <2> QED  BY <1>5, <2>1, <2>2, <2>3
<1> QED  BY <1>1, <1>2, <1>3, <1>4, <1>5

\* What the provider answers, or that it does not.
LEMMA ReplyAccounts ==
    ASSUME Inv, Inv', Accounts, [Next]_vars,
           \/ \E t \in TokenDeltas : ProviderFails(t)
           \/ \E how \in {"interrupted", "deadline"} : CancelWait(how)
           \/ \E kind \in ReplyKinds, cs \in SUBSET Calls, t \in TokenDeltas :
                  ReceiveReply(kind, cs, t)
           \/ RefuseDuplicate \/ SettleReply \/ FinishShort
    PROVE  Accounts'
<1>0. /\ journal \in Journal /\ LedgerFits(journal) /\ clock \in Nat /\ 0 \in Nat
      /\ SameCalls(journal, journal) /\ Sound(journal') /\ reply \in Replies
  BY DEF Inv, TypeInv, TypeOK, Sound, SameCalls
<1>1. CASE \/ RefuseDuplicate
           \/ \E t \in TokenDeltas : ProviderFails(t)
  BY <1>1, PlainLeave DEF ProviderFails, RefuseDuplicate
<1>2. CASE CancelWait("interrupted")
  BY <1>2, PlainLeave DEF CancelWait
<1>3. CASE CancelWait("deadline")
  <2>0. /\ mode = "long" /\ pc \in {"await", "awaitSummary"} /\ Leave("deadline")
        /\ CancelledAt("deadline") = WallMs
    BY <1>3 DEF CancelWait, CancelledAt
  <2>1. mem = journal.ledger /\ mem \in Ledger /\ mem.state = "pending_provider"
    BY <2>0, TaskIsKnown DEF Inv, TaskFits
  <2>2. WallMs \in Nat  BY LimitsAssumption
  <2>3. ~ResumeAllowed(journal'.ledger)
    <3>1. CASE journal' = journal
      BY <2>1, <3>1 DEF ResumeAllowed
    <3>2. CASE journal' = LogInterrupted(journal, mem, WallMs)
      <4>1. journal'.ledger = ReplayProviderInterrupted(mem, WallMs)
        BY <1>0, <2>1, <3>2 DEF LogInterrupted, LogTask, Entry, Journal
      <4>2. journal'.ledger.elapsed = WallMs
        BY <2>1, <2>2, <4>1 DEF ReplayProviderInterrupted, AddRequest, Ledger
      <4> QED  BY <2>2, <4>2 DEF ResumeAllowed
    <3> QED  BY <1>3, <2>0, <3>1, <3>2 DEF CancelWait
  <2> QED  BY <1>0, <2>0, <2>3, LeaveAccounts
<1>4. ASSUME NEW kind \in ReplyKinds, NEW cs \in SUBSET Calls, NEW t \in TokenDeltas,
             ReceiveReply(kind, cs, t)
      PROVE  Accounts'
  <2>1. PICK next \in {"settle", "dispatch", "final"} :
            /\ Step(next, LogAssistant(journal, cs)) /\ (mode = "long" => next = "settle")
            /\ UNCHANGED <<mem, remaining>> /\ pc = "await"
    BY <1>4 DEF ReceiveReply
  <2>2. SameRequests(journal.ledger, LogAssistant(journal, cs).ledger)
    BY <1>0, RecordsKeepRequests, OtherEntriesKeepLedger
  <2> QED  BY <2>1, <2>2, StepAccounts DEF BatchSteps, SettledSteps
<1>5. CASE SettleReply
  <2>0. pc = "settle" /\ mode = "long"
    BY <1>5 DEF SettleReply, LongSteps, Inv, TypeInv, ModeFits
  <2>m. mem = journal.ledger /\ mem \in Ledger  BY <2>0, TaskIsKnown
  <2> DEFINE k == IF reply.kind = "tools" THEN "tools" ELSE "final"
             j == LogRequestSettled(journal, mem, reply.elapsed, reply.tokens, k)
             l == SettleRequest(mem, reply.elapsed, reply.tokens, k)
  <2>k. k \in ResponseKinds /\ reply.elapsed \in Nat /\ reply.tokens \in Nat
    BY <1>0 DEF ResponseKinds, Replies
  <2>1. CASE \E how \in {"refused", "budget", "length"} : Leave(how)
    BY <2>0, <2>1, PlainLeave
  <2>2. CASE \A how \in {"refused", "budget", "length"} : ~Leave(how)
    <3>1. /\ CanEndRequest(mem, reply.elapsed) /\ ~OverBudget(l)
          /\ mem' = l /\ remaining' = remaining
      BY <1>5, <2>2 DEF SettleReply
    <3>2. PICK n \in {"dispatch", "complete"} : Step(n, j)
      BY <1>5, <2>2 DEF SettleReply
    <3>3. SameRequests(journal.ledger, j.ledger)
      BY <1>0, <2>k, <2>m, <3>1, RecordsKeepRequests
    <3>4. mem'.tokens \in Nat /\ MaxTokens \in Nat /\ ~(mem'.tokens > MaxTokens)
      BY <3>1, LimitsAssumption DEF OverBudget, Inv, TypeInv, TypeOK, Ledger
    <3>5. mem'.tokens <= MaxTokens  BY <3>4
    <3> HIDE DEF j, l
    <3> QED  BY <2>0, <3>1, <3>2, <3>3, <3>5, StepAccounts DEF SettledSteps
  <2> QED  BY <2>1, <2>2
<1>6. CASE FinishShort
  <2>0. pc = "final" /\ mode = "short"
    BY <1>6 DEF FinishShort, Inv, TypeInv, ModeFits
  <2>1. CASE Step("loop", LogUser(journal)) /\ UNCHANGED remaining
    BY <2>0, <2>1, StepAccounts
  <2>2. CASE Leave("length")  BY <2>0, <2>2, PlainLeave
  <2>3. CASE Leave("answered") /\ journal' = journal
    <3>1. Resolved(journal)  BY <2>0, QuietIsResolved DEF InFlight
    <3> QED  BY <1>0, <2>0, <2>3, <3>1, LeaveAccounts
  <2> QED  BY <1>6, <2>1, <2>2, <2>3 DEF FinishShort
<1> QED  BY <1>1, <1>2, <1>3, <1>4, <1>5, <1>6

\* The batch of a reply: its tools, and what its end leads to.
LEMMA ToolAccounts ==
    ASSUME Inv, Inv', Accounts, [Next]_vars,
           \/ \E c \in Calls, refused \in BOOLEAN : StartTool(c, refused)
           \/ ExecuteTool \/ RecordResult \/ SettleTool
           \/ \E f \in Fingerprints : EndTaskBatch(f) \/ EndShortBatch(f)
    PROVE  Accounts'
<1>0. /\ journal \in Journal /\ LedgerFits(journal) /\ clock \in Nat /\ 0 \in Nat
      /\ Sound(journal')
  BY DEF Inv, TypeInv, TypeOK, Sound
<1>1. CASE \/ \E c \in Calls, refused \in BOOLEAN : StartTool(c, refused)
           \/ ExecuteTool \/ RecordResult \/ SettleTool
  <2>a. PICK next \in BatchSteps, c \in Calls \cup {cur} :
            \E j \in {journal, LogStarted(journal, c), LogResult(journal, c),
                     LogSettled(journal, c)} : Step(next, j)
    BY <1>1 DEF StartTool, ExecuteTool, RecordResult, SettleTool, BatchSteps
  <2>1. PICK j \in {journal, LogStarted(journal, c), LogResult(journal, c),
                   LogSettled(journal, c)} : Step(next, j)
    BY <2>a
  <2>2. pc \in BatchSteps /\ UNCHANGED <<mem, remaining>>
    BY <1>1 DEF StartTool, ExecuteTool, RecordResult, SettleTool, BatchSteps
  <2>3. SameRequests(journal.ledger, j.ledger)
    BY <1>0, <2>1, RecordsKeepRequests, OtherEntriesKeepLedger
  <2>4. mode = "long" => mem'.tokens <= MaxTokens
    BY <2>2 DEF Accounts
  <2> QED  BY <2>1, <2>2, <2>3, <2>4, StepAccounts DEF BatchSteps, SettledSteps
<1>2. ASSUME NEW f \in Fingerprints, EndTaskBatch(f)  PROVE Accounts'
  <2>0. pc = "dispatch" /\ mode = "long"  BY <1>2 DEF EndTaskBatch
  <2>m. mem = journal.ledger /\ mem \in Ledger  BY <2>0, TaskIsKnown
  <2>1. CASE CanRecordToolBatch(mem, clock, f)
    <3> DEFINE j == LogToolBatch(journal, mem, clock, f)
    <3>1. PICK n \in {"blocked", "stage", "boundary"} : Step(n, j)
      BY <1>2, <2>1 DEF EndTaskBatch
    <3>2. mem' = RecordToolBatch(mem, clock, f) /\ remaining' = remaining
      BY <1>2, <2>1 DEF EndTaskBatch
    <3>3. mem'.state = "ready"  BY <2>m, <3>2 DEF RecordToolBatch, Ledger
    <3>4. SameRequests(journal.ledger, j.ledger)
      BY <1>0, <2>1, <2>m, RecordsKeepRequests
    <3> HIDE DEF j
    <3> QED  BY <2>0, <3>1, <3>2, <3>3, <3>4, StepAccounts DEF BatchSteps
  <2>2. CASE ~CanRecordToolBatch(mem, clock, f)
    BY <1>2, <2>0, <2>2, PlainLeave DEF EndTaskBatch
  <2> QED  BY <2>1, <2>2
<1>3. ASSUME NEW f \in Fingerprints, EndShortBatch(f)  PROVE Accounts'
  <2>0. pc = "dispatch" /\ mode = "short" /\ todo = {}  BY <1>3 DEF EndShortBatch
  <2>1. CASE Step("loop", journal) /\ remaining' = remaining
    BY <2>0, <2>1, StepAccounts
  <2>2. CASE Vanish("repeat_limit") /\ UNCHANGED <<journal, torn>>
    <3>1. Resolved(journal)  BY <2>0, QuietIsResolved DEF InFlight
    <3>2. CleanExit'
      BY <2>0, <2>2, <3>1, <1>0 DEF Accounts, Vanish, CleanExit, Openable, Sound, Resolved
    <3>3. DispatchAccounted'
      BY <2>2, DispatchedStays DEF Vanish, DispatchAccounted, UsedRequests
    <3> QED  BY <2>2, <3>2, <3>3 DEF Accounts, Vanish
  <2> QED  BY <1>3, <2>1, <2>2 DEF EndShortBatch
<1> QED  BY <1>1, <1>2, <1>3

\* The surroundings of a run, and a stutter.
LEMMA DisturbAccounts ==
    ASSUME Inv, Inv', Accounts, [Next]_vars, Disturb \/ UNCHANGED vars
    PROVE  Accounts'
<1>1. CASE Tick \/ SignalPause \/ UNCHANGED vars
  <2>1. UNCHANGED <<journal, torn, pc, mode, mem, remaining, outcome, dispatched>>
    BY <1>1 DEF Tick, SignalPause, ghost, vars
  <2> QED
    BY <2>1 DEF Accounts, DispatchAccounted, CleanExit, Openable
<1>2. CASE Abort
  BY <1>2, PlainLeave DEF Abort
<1>3. CASE TornAppend
  <2>1. Vanish("aborted")  BY <1>3 DEF TornAppend
  <2>2. DispatchAccounted'
    BY <2>1, DispatchedStays DEF Vanish, DispatchAccounted, UsedRequests
  <2> QED  BY <2>1, <2>2 DEF Accounts, CleanExit, Vanish
<1> QED  BY <1>1, <1>2, <1>3 DEF Disturb

\* Whatever is resumed, interrupted or cancelled, the accounts of a task stay right.
THEOREM AccountsHold == Spec => []Accounts
<1>1. Init => Accounts
  BY LimitsAssumption
  DEF Init, Accounts, DispatchAccounted, CleanExit, EmptyJournal, DefaultLedger, ResumeAllowed
<1>2. Inv /\ Inv' /\ Accounts /\ [Next]_vars => Accounts'
  <2> SUFFICES ASSUME Inv, Inv', Accounts, [Next]_vars  PROVE Accounts'  OBVIOUS
  <2>1. CASE Invoke  BY <2>1, StartingAccounts
  <2>2. CASE Proceed
    <3>1. /\ {"tools", "stop", "length"} \subseteq ReplyKinds
          /\ \A cs \in SUBSET Calls \ {{}} : cs \in SUBSET Calls
          /\ {} \in SUBSET Calls
      BY DEF ReplyKinds
    <3>2. ASSUME \/ \E cs \in SUBSET Calls \ {{}}, t \in TokenDeltas : ReceiveReply("tools", cs, t)
                 \/ \E kind \in {"stop", "length"}, t \in TokenDeltas : ReceiveReply(kind, {}, t)
          PROVE  Accounts'
      BY <3>1, <3>2, ReplyAccounts
    <3> QED
      BY <2>2, <3>2, StartingAccounts, RequestAccounts, BoundaryAccounts, ReplyAccounts, ToolAccounts
      DEF Proceed
  <2>3. CASE Disturb \/ UNCHANGED vars  BY <2>3, DisturbAccounts
  <2> QED  BY <2>1, <2>2, <2>3 DEF Next
<1> QED  BY <1>1, <1>2, InvHolds, PTL DEF Spec

\* DispatchAccounted: no request is sent that the durable count does not show, and
\* the cap bounds them over all resumptions (runtime.rs LongTaskProvider, long_task.rs).
THEOREM RequestsAreAccounted == Spec => []DispatchAccounted
<1>1. Accounts => DispatchAccounted  BY DEF Accounts
<1> QED  BY <1>1, AccountsHold, PTL

\* CleanExit: a run that ended on its own terms can be opened and, when paused,
\* resumed; one that a deadline ended cannot (runtime.rs, run, ProviderWait).
THEOREM ExitsAreClean == Spec => []CleanExit
<1>1. Accounts => CleanExit  BY DEF Accounts
<1> QED  BY <1>1, AccountsHold, PTL

\* BudgetsBind: no record gives back what a task has used, and tools run only for
\* a task within its token budget (runtime.rs, run; long_task.rs, Ledger).
THEOREM BudgetsAlwaysBind == Spec => BudgetsBind
<1> DEFINE Binds ==
        /\ effects' # effects /\ mode = "long" => journal.ledger.tokens <= MaxTokens
        /\ journal.ledger.task /\ pc # "create" =>
              /\ journal'.ledger.requests    >= journal.ledger.requests
              /\ journal'.ledger.tokens      >= journal.ledger.tokens
              /\ journal'.ledger.elapsed     >= journal.ledger.elapsed
              /\ journal'.ledger.interrupted >= journal.ledger.interrupted
<1>1. Inv /\ Accounts /\ [Next]_vars => [Binds]_vars
  <2> SUFFICES ASSUME Inv, Accounts, [Next]_vars, Next  PROVE Binds  BY DEF vars
  <2>1. ASSUME effects' # effects, mode = "long"  PROVE journal.ledger.tokens <= MaxTokens
    <3>1. ExecuteTool
      BY <2>1
      DEF Next, Invoke, StartShort, StartTask, ResumeTask, Start, Proceed, AppendPrompt, CreateTask,
          PauseAtBoundary, EnterLoop, StopAtBudget, SkipCompaction, BeginCompaction, SendSummary,
          SummaryArrives, PauseOverBudgetSummary, RecordCompaction, SendRequest, Reserve,
          ProviderFails, CancelWait, ReceiveReply, RefuseDuplicate, SettleReply, CompleteTask,
          FinishShort, StartTool, RecordResult, SettleTool, EndTaskBatch, EndShortBatch,
          BlockRepeating, RecordStage, PauseAfter, NextIteration, Disturb, Tick, SignalPause,
          Abort, TornAppend, ghost
    <3>2. pc = "execute"  BY <3>1 DEF ExecuteTool
    <3> QED  BY <2>1, <3>2, TaskIsKnown DEF Accounts, BatchSteps
  <2>2. ASSUME journal.ledger.task, pc # "create"  PROVE Grows(journal.ledger, journal'.ledger)
    <3>1. CASE SameRequests(journal.ledger, journal'.ledger)
      BY <3>1 DEF SameRequests
    <3>2. CASE Reserved
      <4>1. mem = journal.ledger /\ mem \in Ledger /\ clock \in Nat /\ journal \in Journal
        BY <3>2
        DEF Reserved, CanBeginRequest, ResumeAllowed, Inv, TaskFits, TypeInv, TypeOK
      <4>2. journal'.ledger = BeginRequest(mem, clock)
        BY <3>2, <4>1, 0 \in Nat, RequestRecordsSound DEF Reserved, Inv
      <4>3. clock >= mem.elapsed
        BY <3>2 DEF Reserved, CanBeginRequest, EnsureElapsed
      <4> QED  BY <4>1, <4>2, <4>3 DEF BeginRequest, Grows, Ledger
    <3>3. CASE CreateTask  BY <2>2, <3>3 DEF CreateTask
    <3> QED  BY <3>1, <3>2, <3>3, LedgerMoves
  <2> QED  BY <2>1, <2>2 DEF Grows
<1>2. Spec => [][Binds]_vars  BY <1>1, InvHolds, AccountsHold, PTL DEF Spec
<1> QED  BY <1>2 DEF BudgetsBind

-----------------------------------------------------------------------------
(* The agent loop implements AtMostOnce.                                   *)

\* A result stands between the marks of its call, and only an answered call is
\* settled.
ResultsMarked ==
    /\ journal.results \subseteq journal.started \cup journal.settled
    /\ journal.settled \subseteq journal.results

\* A step that is about a call.
CallStep ==
    \/ \E kind \in ReplyKinds, cs \in SUBSET Calls, t \in TokenDeltas : ReceiveReply(kind, cs, t)
    \/ \E c \in Calls, refused \in BOOLEAN : StartTool(c, refused)
    \/ ExecuteTool \/ RecordResult \/ SettleTool

\* No other step is.
LEMMA OtherStepsKeepCalls ==
    ASSUME Inv, [Next]_vars, ~CallStep
    PROVE  SameCalls(journal, journal') /\ effects' = effects
<1> DEFINE Same == SameCalls(journal, journal') /\ effects' = effects
<1>0. journal \in Journal /\ SameCalls(journal, journal)
  BY DEF Inv, TypeInv, TypeOK, SameCalls
<1>1. CASE Invoke \/ Disturb \/ UNCHANGED vars
  <2>1. journal' = journal /\ effects' = effects
    BY <1>1 DEF Invoke, StartShort, StartTask, ResumeTask, Start, Disturb, Tick, SignalPause,
                Abort, TornAppend, ghost, vars
  <2> QED  BY <1>0, <2>1
<1>2. ASSUME \/ AppendPrompt \/ CreateTask \/ EnterLoop \/ SkipCompaction \/ BeginCompaction
             \/ RecordCompaction \/ RefuseDuplicate \/ FinishShort \/ NextIteration
             \/ PauseAtBoundary \/ StopAtBudget
      PROVE  Same
  <2>1. journal' \in {journal, LogUser(journal), LogCompaction(journal), LogCreated(journal),
                      LogPaused(journal, mem)}
    BY <1>2
    DEF AppendPrompt, CreateTask, EnterLoop, SkipCompaction, BeginCompaction, RecordCompaction,
        RefuseDuplicate, FinishShort, NextIteration, PauseAtBoundary, StopAtBudget,
        PausedJournal, Step
  <2>2. effects' = effects
    BY <1>2
    DEF AppendPrompt, CreateTask, EnterLoop, SkipCompaction, BeginCompaction, RecordCompaction,
        RefuseDuplicate, FinishShort, NextIteration, PauseAtBoundary, StopAtBudget, ghost
  <2> QED  BY <1>0, <2>1, <2>2, TaskEntriesKeepCalls
<1>3. ASSUME \/ PauseOverBudgetSummary \/ PauseAfter \/ BlockRepeating \/ CompleteTask
             \/ RecordStage \/ SettleReply
      PROVE  Same
  <2>1. PICK k : journal' \in {journal, LogPaused(journal, mem), LogTaskFailed(journal, mem),
                    LogCompleted(journal, mem),
                    LogCheckpoint(journal, mem, clock, mem.fingerprint),
                    LogRequestSettled(journal, mem, reply.elapsed, reply.tokens, k)}
    BY <1>3 DEF PauseOverBudgetSummary, PauseAfter, BlockRepeating, CompleteTask, EndWith,
                RecordStage, SettleReply, Step
  <2>2. effects' = effects
    BY <1>3 DEF PauseOverBudgetSummary, PauseAfter, BlockRepeating, CompleteTask, EndWith,
                RecordStage, SettleReply, ghost
  <2> QED  BY <1>0, <2>1, <2>2, TaskEntriesKeepCalls
<1>4. ASSUME SendSummary \/ SendRequest  PROVE Same
  <2>1. journal' \in {journal, LogRequestStarted(journal, mem, clock)} /\ effects' = effects
    BY <1>4 DEF SendSummary, SendRequest, Reserve, Step, ghost
  <2> QED  BY <1>0, <2>1, TaskEntriesKeepCalls
<1>5. ASSUME NEW next, NEW t, SummaryArrives(next, t)  PROVE Same
  <2>1. /\ journal' \in {journal, LogRequestSettled(journal, mem, clock, t, "summary")}
        /\ effects' = effects
    BY <1>5 DEF SummaryArrives, Step, ghost
  <2> QED  BY <1>0, <2>1, TaskEntriesKeepCalls
<1>6. ASSUME NEW t, ProviderFails(t)  PROVE Same
  <2>1. journal' \in {journal, LogRequestFailed(journal, mem, clock, t)} /\ effects' = effects
    BY <1>6 DEF ProviderFails, ghost
  <2> QED  BY <1>0, <2>1, TaskEntriesKeepCalls
<1>7. ASSUME NEW how, CancelWait(how)  PROVE Same
  <2>1. journal' \in {journal, LogInterrupted(journal, mem, CancelledAt(how))} /\ effects' = effects
    BY <1>7 DEF CancelWait, ghost
  <2> QED  BY <1>0, <2>1, TaskEntriesKeepCalls
<1>8. ASSUME NEW f, EndTaskBatch(f) \/ EndShortBatch(f)  PROVE Same
  <2>1. journal' \in {journal, LogToolBatch(journal, mem, clock, f)} /\ effects' = effects
    BY <1>8 DEF EndTaskBatch, EndShortBatch, Step, ghost
  <2> QED  BY <1>0, <2>1, TaskEntriesKeepCalls
<1>9. ASSUME Proceed  PROVE Same
  <2>1. /\ {"tools", "stop", "length"} \subseteq ReplyKinds
        /\ \A cs \in SUBSET Calls \ {{}} : cs \in SUBSET Calls
        /\ {} \in SUBSET Calls
    BY DEF ReplyKinds
  <2>2. ~ \/ \E cs \in SUBSET Calls \ {{}}, t \in TokenDeltas : ReceiveReply("tools", cs, t)
          \/ \E kind \in {"stop", "length"}, t \in TokenDeltas : ReceiveReply(kind, {}, t)
    BY <2>1 DEF CallStep
  <2>3. ~ \/ \E c \in Calls, refused \in BOOLEAN : StartTool(c, refused)
          \/ ExecuteTool \/ RecordResult \/ SettleTool
    BY DEF CallStep
  <2> HIDE DEF Same
  <2> QED  BY <1>2, <1>3, <1>4, <1>5, <1>6, <1>7, <1>8, <1>9, <2>2, <2>3 DEF Proceed
<1> QED  BY <1>1, <1>9 DEF Next

\* An empty journal has no results.
LEMMA MarkedInitially == Init => ResultsMarked
  BY DEF Init, ResultsMarked, EmptyJournal

\* What each entry about a call changes.
LEMMA CallEntries ==
    ASSUME NEW j \in Journal, NEW c, NEW cs
    PROVE  /\ LogAssistant(j, cs).calls = j.calls \cup cs
           /\ LogAssistant(j, cs).results = j.results
           /\ LogAssistant(j, cs).started = j.started
           /\ LogAssistant(j, cs).settled = j.settled
           /\ LogStarted(j, c).calls = j.calls /\ LogStarted(j, c).results = j.results
           /\ LogStarted(j, c).started = j.started \cup {c} /\ LogStarted(j, c).settled = j.settled
           /\ LogResult(j, c).calls = j.calls /\ LogResult(j, c).results = j.results \cup {c}
           /\ LogResult(j, c).started = j.started /\ LogResult(j, c).settled = j.settled
           /\ LogSettled(j, c).calls = j.calls /\ LogSettled(j, c).results = j.results
           /\ LogSettled(j, c).started = j.started \ {c}
           /\ LogSettled(j, c).settled = j.settled \cup {c}
  BY DEF LogAssistant, LogStarted, LogResult, LogSettled, Entry, Journal

\* ResultsMarked is inductive, given Inv.
LEMMA MarkedStays ==
    ASSUME Inv, ResultsMarked, [Next]_vars
    PROVE  ResultsMarked'
<1>0. journal \in Journal  BY DEF Inv, TypeInv, TypeOK
<1>1. CASE ~CallStep
  BY <1>1, OtherStepsKeepCalls DEF SameCalls, ResultsMarked
<1>2. ASSUME NEW kind, NEW cs, NEW t, ReceiveReply(kind, cs, t)  PROVE ResultsMarked'
  <2>1. journal' = LogAssistant(journal, cs)  BY <1>2 DEF ReceiveReply, Step
  <2>2. /\ journal'.results = journal.results /\ journal'.started = journal.started
        /\ journal'.settled = journal.settled
    BY <1>0, <2>1, CallEntries
  <2> QED  BY <2>2 DEF ResultsMarked
<1>3. ASSUME NEW c \in Calls, NEW refused, StartTool(c, refused)  PROVE ResultsMarked'
  <2>1. journal' = LogStarted(journal, c)  BY <1>3 DEF StartTool, Step
  <2>2. /\ journal'.results = journal.results /\ journal'.started = journal.started \cup {c}
        /\ journal'.settled = journal.settled
    BY <1>0, <2>1, CallEntries
  <2> QED  BY <2>2 DEF ResultsMarked
<1>4. CASE ExecuteTool
  BY <1>4 DEF ExecuteTool, Step, ResultsMarked
<1>5. CASE RecordResult
  <2>1. journal' = LogResult(journal, cur) /\ journal.started = {cur}
    BY <1>5 DEF RecordResult, Step, Inv, CallsFit
  <2>2. /\ journal'.results = journal.results \cup {cur} /\ journal'.started = journal.started
        /\ journal'.settled = journal.settled
    BY <1>0, <2>1, CallEntries
  <2> QED  BY <2>1, <2>2 DEF ResultsMarked
<1>6. CASE SettleTool
  <2>1. journal' = LogSettled(journal, cur) /\ cur \in journal.results
    BY <1>6 DEF SettleTool, Step, Inv, CallsFit
  <2>2. /\ journal'.results = journal.results /\ journal'.started = journal.started \ {cur}
        /\ journal'.settled = journal.settled \cup {cur}
    BY <1>0, <2>1, CallEntries
  <2> QED  BY <2>1, <2>2 DEF ResultsMarked
<1> QED  BY <1>1, <1>2, <1>3, <1>4, <1>5, <1>6 DEF CallStep

\* At a resolved journal every call is closed or was never asked for.
LEMMA ResolvedIsQuiet ==
    ASSUME Sound(journal), ResultsMarked, Resolved(journal)
    PROVE  \A c \in Calls : PhaseOf(c) \in {"unseen", "closed"}
  BY DEF Sound, ResultsMarked, Resolved, PhaseOf

\* Only an invocation ends idleness, and it opens the journal.
LEMMA IdleUntilInvoked ==
    ASSUME Inv, Next, pc = "idle"
    PROVE  Openable
<1>1. Invoke
    BY DEF Next, Proceed, Disturb, AppendPrompt, CreateTask, PauseAtBoundary, EnterLoop,
           StopAtBudget, SkipCompaction, BeginCompaction, MayIterate, SendSummary,
           SummaryArrives, PauseOverBudgetSummary, RecordCompaction, SendRequest,
           ProviderFails, CancelWait, ReceiveReply, RefuseDuplicate, SettleReply,
           CompleteTask, FinishShort, StartTool, ExecuteTool, RecordResult, SettleTool,
           EndTaskBatch, EndShortBatch, BlockRepeating, RecordStage, PauseAfter,
           NextIteration, Tick, SignalPause, Abort, TornAppend, Appending
<1> QED  BY <1>1 DEF Invoke, StartShort, StartTask, ResumeTask, CanResume

\* A step about a call is the abstract step of that name.
LEMMA CallStepsMap ==
    ASSUME Inv, ResultsMarked, [Next]_vars, CallStep
    PROVE  Session!ANext
<1>0. journal \in Journal /\ effects \in [Calls -> Nat] /\ Sound(journal)
  BY DEF Inv, TypeInv, TypeOK
<1>1. ASSUME NEW kind \in ReplyKinds, NEW cs \in SUBSET Calls, NEW t \in TokenDeltas,
             ReceiveReply(kind, cs, t)
      PROVE  Session!Propose(cs)
  <2>1. /\ journal' = LogAssistant(journal, cs) /\ pc = "await" /\ pc' # "idle"
        /\ effects' = effects /\ cs \cap journal.calls = {}
    BY <1>1 DEF ReceiveReply, Step, Fresh, ghost, Inv, CallsFit
  <2>2. \A c \in Calls : PhaseOf(c) \in {"unseen", "closed"}
    BY <2>1, <1>0, QuietIsResolved, ResolvedIsQuiet DEF InFlight
  <2>3. \A c \in cs : PhaseOf(c) = "unseen"
    BY <1>0, <2>1 DEF PhaseOf, Sound
  <2>4. /\ journal'.calls = journal.calls \cup cs /\ journal'.results = journal.results
        /\ journal'.started = journal.started /\ journal'.settled = journal.settled
    BY <1>0, <2>1, CallEntries
  <2>5. \A c \in Calls : PhaseOf(c)' = IF c \in cs THEN "proposed" ELSE PhaseOf(c)
    BY <1>0, <2>1, <2>4 DEF PhaseOf, Sound
  <2> QED  BY <2>1, <2>2, <2>3, <2>5 DEF Session!Propose, Session!Quiet
<1>2. ASSUME NEW c \in Calls, NEW refused \in BOOLEAN, StartTool(c, refused)
      PROVE  Session!Open(c)
  <2>1. /\ journal' = LogStarted(journal, c) /\ pc # "idle" /\ pc' # "idle"
        /\ effects' = effects
        /\ journal.started = {} /\ c \in journal.calls
        /\ c \notin journal.results \cup journal.settled
    BY <1>2 DEF StartTool, Step, ghost, Inv, CallsFit, InFlight
  <2>2. \A d \in Calls : PhaseOf(d) \notin {"open", "answered"}
    BY <2>1 DEF PhaseOf
  <2>3. /\ journal'.calls = journal.calls /\ journal'.results = journal.results
        /\ journal'.started = journal.started \cup {c} /\ journal'.settled = journal.settled
    BY <1>0, <2>1, CallEntries
  <2>4. PhaseOf(c) = "proposed" /\ PhaseOf(c)' = "open"
    BY <2>1, <2>3 DEF PhaseOf
  <2>5. \A d \in Calls \ {c} : PhaseOf(d)' = PhaseOf(d)
    BY <2>3 DEF PhaseOf
  <2> QED  BY <2>1, <2>2, <2>4, <2>5 DEF Session!Open, Session!Advance
<1>3. ASSUME ExecuteTool  PROVE cur \in Calls /\ Session!Run(cur)
  <2>1. /\ journal' = journal /\ pc # "idle" /\ pc' # "idle"
        /\ effects' = [effects EXCEPT ![cur] = @ + 1] /\ effects[cur] = 0
        /\ journal.started = {cur} /\ cur \in journal.calls
        /\ cur \notin journal.results \cup journal.settled
    BY <1>3 DEF ExecuteTool, Step, Inv, CallsFit, InFlight
  <2>2. PhaseOf(cur) = "open"  BY <2>1 DEF PhaseOf
  <2>3. \A d \in Calls : PhaseOf(d)' = PhaseOf(d)  BY <2>1 DEF PhaseOf
  <2>4. cur \in Calls /\ effects' = [effects EXCEPT ![cur] = 1]
    BY <1>0, <2>1 DEF Journal
  <2> QED  BY <2>1, <2>2, <2>3, <2>4 DEF Session!Run
<1>4. ASSUME NEW c \in Calls, c = cur, RecordResult  PROVE Session!Answer(c)
  <2>1. /\ journal' = LogResult(journal, c) /\ pc # "idle" /\ pc' # "idle"
        /\ effects' = effects
        /\ journal.started = {c} /\ c \in journal.calls
        /\ c \notin journal.results \cup journal.settled
    BY <1>4 DEF RecordResult, Step, ghost, Inv, CallsFit, InFlight
  <2>2. /\ journal'.calls = journal.calls /\ journal'.results = journal.results \cup {c}
        /\ journal'.started = journal.started /\ journal'.settled = journal.settled
    BY <1>0, <2>1, CallEntries
  <2>3. PhaseOf(c) = "open" /\ PhaseOf(c)' = "answered"
    BY <2>1, <2>2 DEF PhaseOf
  <2>4. \A d \in Calls \ {c} : PhaseOf(d)' = PhaseOf(d)
    BY <2>1, <2>2 DEF PhaseOf
  <2> QED  BY <2>1, <2>3, <2>4 DEF Session!Answer, Session!Advance
<1>5. ASSUME NEW c \in Calls, c = cur, SettleTool  PROVE Session!Close(c)
  <2>1. /\ journal' = LogSettled(journal, c) /\ pc # "idle" /\ pc' # "idle"
        /\ effects' = effects
        /\ journal.started = {c} /\ c \in journal.calls
        /\ c \in journal.results \ journal.settled
    BY <1>5 DEF SettleTool, Step, ghost, Inv, CallsFit, InFlight
  <2>2. /\ journal'.calls = journal.calls /\ journal'.results = journal.results
        /\ journal'.started = journal.started \ {c}
        /\ journal'.settled = journal.settled \cup {c}
    BY <1>0, <2>1, CallEntries
  <2>3. PhaseOf(c) = "answered" /\ PhaseOf(c)' = "closed"
    BY <2>1, <2>2 DEF PhaseOf
  <2>4. \A d \in Calls \ {c} : PhaseOf(d)' = PhaseOf(d)
    BY <2>1, <2>2 DEF PhaseOf
  <2> QED  BY <2>1, <2>3, <2>4 DEF Session!Close, Session!Advance
<1>6. pc \in {"result", "settleOp"} => cur \in Calls
  BY DEF Inv, TypeInv, CurFits
<1> QED
  BY <1>1, <1>2, <1>3, <1>4, <1>5, <1>6 DEF CallStep, RecordResult, SettleTool, Session!ANext

\* ImplementsSession: over all runs, crashes and resumptions each call of the journal
\* goes through its marks in order, is executed between them at most once, and no
\* run starts while one is open (runtime.rs, run; session.rs, check_recovery).
THEOREM LoopImplementsSession == Spec => ImplementsSession
<1>1. Init => Session!AInit
  <2> SUFFICES ASSUME Init PROVE Session!AInit  OBVIOUS
  <2>1. \A c \in Calls : PhaseOf(c) = "unseen"
    BY DEF Init, EmptyJournal, PhaseOf
  <2> QED  BY <2>1 DEF Init, Session!AInit
<1>2. Inv /\ ResultsMarked /\ [Next]_vars => [Session!ANext]_(Session!avars)
  <2> SUFFICES ASSUME Inv, ResultsMarked, [Next]_vars, ~CallStep
               PROVE  [Session!ANext]_(Session!avars)
    BY CallStepsMap
  <2>1. SameCalls(journal, journal') /\ effects' = effects  BY OtherStepsKeepCalls
  <2>2. \A c \in Calls : PhaseOf(c)' = PhaseOf(c)
    BY <2>1 DEF SameCalls, PhaseOf
  <2>3. CASE (pc # "idle")' = (pc # "idle")
    BY <2>1, <2>2, <2>3 DEF Session!avars
  <2>4. CASE pc # "idle" /\ pc' = "idle"
    BY <2>1, <2>2, <2>4 DEF Session!ANext, Session!End
  <2>5. CASE pc = "idle" /\ pc' # "idle"
    <3>1. Openable  BY <2>5, IdleUntilInvoked DEF vars
    <3>2. \A c \in Calls : PhaseOf(c) \in {"unseen", "closed"}
      BY <3>1, ResolvedIsQuiet DEF Openable, Inv
    <3> QED  BY <2>1, <2>2, <2>5, <3>2 DEF Session!ANext, Session!Begin, Session!Quiet
  <2> QED  BY <2>3, <2>4, <2>5
<1> QED
  BY <1>1, <1>2, InvHolds, MarkedInitially, MarkedStays, PTL DEF Spec, ImplementsSession, Session!ASpec

=============================================================================
