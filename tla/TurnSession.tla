---------------------------- MODULE TurnSession ----------------------------
(* The in-process runner (crates/danso-runtime): sessions bound to journals,  *)
(* a thread per turn, and the stream of events a turn sends to whoever drives *)
(* it.                                                                        *)
(*                                                                            *)
(* The agent loop is seen here only through the events it emits and the       *)
(* places where it waits: for its provider, for a tool, and, after its final  *)
(* answer, for the distillation of what it did (app.rs).  The sink turns the  *)
(* loop's events into those of the stream and keeps a queue of the calls it   *)
(* has been shown.  The embedder may interrupt, ask for a pause, or go away   *)
(* at any moment.                                                             *)
EXTENDS Naturals, Sequences, FiniteSets

CONSTANTS RuntimeSessions, Journals,
          Tools,           \* the tools a model calls
          LongTask,        \* the template's mode
          MaxTurns, MaxRequests, MaxBatch      \* bounds of the instance

ASSUME SessionAssumption ==
    LongTask \in BOOLEAN /\ {MaxTurns, MaxRequests, MaxBatch} \subseteq Nat

VARIABLES
    bound,    \* [RuntimeSessions -> the journal it is bound to, or "none"]
    turn,     \* [RuntimeSessions -> its active or last turn]
    writer,   \* [Journals -> the session whose turn has the journal open, "none", or
              \* "another": a second runner, or another process
    turnsRun  \* turns started
sessionVars == <<bound, turn, writer, turnsRun>>

NoCall == [id |-> 0, tool |-> "none"]
\* A turn: where its thread is, the embedder's two signals, whether the embedder
\* still listens, and the stream; what the loop has left to call; the sink.
FreshTurn ==
    [at |-> "opening", interrupted |-> FALSE, pause |-> FALSE, heard |-> TRUE,
     log |-> <<>>, requests |-> 0, streamed |-> FALSE, calls |-> <<>>, made |-> 0,
     queued |-> <<>>, active |-> NoCall, answered |-> FALSE, spent |-> FALSE, task |-> "none",
     outcome |-> "none"]
NoTurn == [FreshTurn EXCEPT !.at = "none", !.heard = FALSE]

SessionInit ==
    /\ bound = [s \in RuntimeSessions |-> "none"]
    /\ turn = [s \in RuntimeSessions |-> NoTurn]
    /\ writer = [j \in Journals |-> "none"]
    /\ turnsRun = 0

IsFinished(s) == turn[s].at \in {"none", "finished"}
\* Where the loop waits, so that a cancellation or the timeout can end it.
Waits(s) ==
    \/ turn[s].at \in {"asking", "executing"}
    \/ turn[s].at = "finishing" /\ ~LongTask /\ ~turn[s].spent
\* Where the thread is inside app::run.
InRun(s) == turn[s].at \in {"opening", "requesting", "asking", "calling", "executing", "finishing"}

------------------------------------------------------------------------------
(* The sink.  An operator on turns returns the turn after an emission; a turn *)
(* whose outcome is set has left the loop.                                    *)

Event(kind, id) == [kind |-> kind, id |-> id]
Ended(t, outcome) == [t EXCEPT !.at = "ended", !.outcome = outcome]
Left(t) == t.outcome # "none"

\* send: an embedder that is gone fails the emission, and with it the run.
Send(t, event) ==
    IF Left(t) THEN t
    ELSE IF ~t.heard THEN Ended(t, "output") ELSE [t EXCEPT !.log = Append(@, event)]

\* Event::Message of an assistant: its calls are remembered in their order.
SinkMessage(t, calls) == IF Left(t) THEN t ELSE [t EXCEPT !.queued = @ \o calls]

\* Event::ToolStarted: the oldest remembered call has to be this one.
SinkStarted(t, call) ==
    IF Left(t) THEN t
    ELSE IF t.active # NoCall \/ t.queued = <<>> THEN Ended(t, "objection")
    ELSE IF Head(t.queued).tool # call.tool THEN Ended(t, "objection")
    ELSE LET next == [t EXCEPT !.active = Head(t.queued), !.queued = Tail(t.queued)]
         IN Send(next, Event("tool_started", next.active.id))

\* Mutant of SinkSettled: the active call stays.
SinkSettledKept(t) ==
    IF t.active = NoCall THEN Ended(t, "objection")
    ELSE Send(t, Event("tool_completed", t.active.id))
\* Event::ToolSettled.
SinkSettled(t) ==
    IF t.active = NoCall THEN Ended(t, "objection")
    ELSE Send([t EXCEPT !.active = NoCall], Event("tool_completed", t.active.id))

\* Event::Task
SinkTask(t, state) ==
    IF Left(t) THEN t ELSE Send([t EXCEPT !.task = state], Event(state, 0))

\* Event::FinalAnswer: the text, the end of the message, and the text is kept.
SinkFinal(t) ==
    LET sent == Send(Send(t, Event("text_delta", t.requests)), Event("message_completed", 0))
    IN IF Left(sent) THEN sent ELSE [sent EXCEPT !.answered = TRUE]

------------------------------------------------------------------------------
(* The embedder.                                                              *)

\* start_or_resume: a request is refused for a workspace or model that does not
\* fit, for an effort the provider has not, and for a session without a private
\* journal; what is left is a new journal or a stored one.
BindSession(s, j) ==
    /\ bound[s] = "none"
    /\ bound' = [bound EXCEPT ![s] = j]
    /\ UNCHANGED <<turn, writer, turnsRun>>

\* send_turn: one turn at a time, and a thread for it.  A turn is over when its
\* thread is, which is a moment after its last event.
SendTurn(s) ==
    /\ bound[s] # "none" /\ IsFinished(s) /\ turnsRun < MaxTurns
    /\ turn' = [turn EXCEPT ![s] = FreshTurn]
    /\ turnsRun' = turnsRun + 1
    /\ UNCHANGED <<bound, writer>>

\* interrupt: an idle session ignores it, a running one remembers it until its
\* thread looks.
Interrupt(s) ==
    /\ ~IsFinished(s)
    /\ turn' = [turn EXCEPT ![s].interrupted = TRUE]
    /\ UNCHANGED <<bound, writer, turnsRun>>

\* request_pause
RequestPause(s) ==
    /\ LongTask /\ ~IsFinished(s)
    /\ turn' = [turn EXCEPT ![s].pause = TRUE]
    /\ UNCHANGED <<bound, writer, turnsRun>>

\* The receiver is dropped.
StopListening(s) ==
    /\ turn[s].heard /\ turn' = [turn EXCEPT ![s].heard = FALSE]
    /\ UNCHANGED <<bound, writer, turnsRun>>

------------------------------------------------------------------------------
(* The thread: app::run, with the events of the loop at its boundaries.       *)

\* A run that has left the loop gives its journal up.
Becomes(s, t) ==
    /\ turn' = [turn EXCEPT ![s] = t]
    /\ writer' = IF t.at = "ended" THEN [j \in Journals |-> IF writer[j] = s THEN "none" ELSE writer[j]]
                 ELSE writer
    /\ UNCHANGED <<bound, turnsRun>>

\* Session::open: another writer of the journal fails this turn.
OpenJournal(s) ==
    /\ turn[s].at = "opening"
    /\ IF writer[bound[s]] # "none"
       THEN Becomes(s, Ended(turn[s], "session"))
       ELSE /\ turn' = [turn EXCEPT ![s].at = "requesting"]
            /\ writer' = [writer EXCEPT ![bound[s]] = s]
            /\ UNCHANGED <<bound, turnsRun>>

\* A journal has one writer, whoever it is.
AnotherWriter(j) ==
    /\ writer[j] \in {"none", "another"}
    /\ writer' = [writer EXCEPT ![j] = IF @ = "none" THEN "another" ELSE "none"]
    /\ UNCHANGED <<bound, turn, turnsRun>>

\* What is checked before the journal is opened: limits, paths and context.
OpenFails(s) == turn[s].at = "opening" /\ Becomes(s, Ended(turn[s], "configuration"))

\* What is checked with the journal open: a task's records and its limits, whose
\* time may be up, and the provider's settings and key.
TaskRefused(s) ==
    /\ LongTask /\ turn[s].at = "requesting" /\ turn[s].log = <<>>
    /\ \E outcome \in {"session", "configuration", "run_timeout"} : Becomes(s, Ended(turn[s], outcome))
Misconfigured(s) ==
    /\ turn[s].at = "requesting" /\ turn[s].log = <<>> /\ Becomes(s, Ended(turn[s], "configuration"))

\* A run that a budget ended: a task is paused first, and says so.
Spent(t) ==
    LET told == IF LongTask THEN SinkTask(t, "paused") ELSE t
    IN IF Left(told) THEN told ELSE [told EXCEPT !.at = "finishing", !.spent = TRUE]

\* A task that is created or taken up says so first.
Begun(t) == t.at = "requesting" /\ (LongTask => t.log # <<>>)
Handshake(s) ==
    /\ LongTask /\ turn[s].at = "requesting" /\ turn[s].log = <<>>
    /\ Becomes(s, SinkTask(turn[s], "checkpoint"))

\* Before each request: a pause that was asked for happens here.
Request(s) ==
    /\ Begun(turn[s])
    /\ Becomes(s, IF turn[s].pause THEN Spent(turn[s])
                  ELSE [turn[s] EXCEPT !.at = "asking", !.requests = @ + 1])

\* The turns are spent; a task's budget may also be found spent with an answer.
BudgetSpent(s) ==
    /\ Begun(turn[s]) \/ (LongTask /\ turn[s].at = "asking")
    /\ Becomes(s, Spent(turn[s]))
\* A task's time is up: it is paused, and the run is one that timed out.
TaskTimeSpent(s) ==
    /\ LongTask /\ Begun(turn[s])
    /\ LET told == SinkTask(turn[s], "paused")
       IN Becomes(s, IF Left(told) THEN told ELSE Ended(told, "run_timeout"))

\* A delta of the answer, shown as it arrives.
Delta(s) ==
    /\ turn[s].at = "asking" /\ ~turn[s].streamed
    /\ Becomes(s, Send([turn[s] EXCEPT !.streamed = TRUE], Event("text_delta", turn[s].requests)))

\* The calls of an answer under the ids the journal has for them.
Numbered(t, tools) == [i \in DOMAIN tools |-> [id |-> t.made + i, tool |-> tools[i]]]
\* An answer that calls tools: the message, its text, if it has one, unless it was
\* shown as it arrived, then the calls in turn.
ShowAnswer(t, calls, worded) ==
    LET kept == SinkMessage(t, calls)
        text == IF worded /\ ~t.streamed THEN Send(kept, Event("text_delta", t.requests)) ELSE kept
    IN IF worded \/ t.streamed THEN Send(text, Event("message_completed", 0)) ELSE text
AnswerWithCalls(s, tools, worded) ==
    /\ turn[s].at = "asking" /\ turn[s].requests <= MaxRequests
    /\ LET calls == Numbered(turn[s], tools)
           shown == ShowAnswer(turn[s], calls, worded)
       IN Becomes(s, IF Left(shown) THEN shown
                     ELSE [shown EXCEPT !.at = "calling", !.calls = calls,
                               !.streamed = FALSE, !.made = @ + Len(calls)])

\* A call is announced, then handed to its executor.
BeginCall(s) ==
    /\ turn[s].at = "calling" /\ turn[s].calls # <<>>
    /\ LET begun == SinkStarted(turn[s], Head(turn[s].calls))
       IN Becomes(s, IF Left(begun) THEN begun
                     ELSE [begun EXCEPT !.at = "executing", !.calls = Tail(@)])

EndCall(s) ==
    /\ turn[s].at = "executing"
    /\ LET done == SinkSettled(turn[s])
       IN Becomes(s, IF Left(done) THEN done ELSE [done EXCEPT !.at = "calling"])

\* After the last call of a batch a stage of a task may end.
EndBatch(s) ==
    /\ turn[s].at = "calling" /\ turn[s].calls = <<>>
    /\ \E staged \in (IF LongTask THEN BOOLEAN ELSE {FALSE}) :
       LET t == IF staged THEN SinkTask(turn[s], "checkpoint") ELSE turn[s]
       IN Becomes(s, IF Left(t) THEN t ELSE [t EXCEPT !.at = "requesting"])
\* The same batch again and again: a task is blocked, another run is spent.
RepeatedBatch(s) ==
    /\ turn[s].at = "calling" /\ turn[s].calls = <<>>
    /\ LET told == IF LongTask THEN SinkTask(turn[s], "blocked") ELSE turn[s]
       IN Becomes(s, IF Left(told) THEN told
                     ELSE IF LongTask THEN Ended(told, "runtime") ELSE Spent(told))

\* The final answer: a task is complete before it is shown.
FinalAnswer(s) ==
    /\ turn[s].at = "asking"
    /\ LET final == SinkFinal(IF LongTask THEN SinkTask(turn[s], "completed") ELSE turn[s])
       IN Becomes(s, IF Left(final) THEN final ELSE [final EXCEPT !.at = "finishing"])

\* What follows a final answer, and a spent budget: the working state is recorded
\* and a distill job is left, done at once when that is asked for.  A failure
\* here is the run's, whatever it had come to.
Finish(s) ==
    /\ turn[s].at = "finishing"
    /\ Becomes(s, Ended(turn[s], IF turn[s].spent THEN "request_budget" ELSE "ok"))
FinishFails(s) == turn[s].at = "finishing" /\ Becomes(s, Ended(turn[s], "memory"))

\* A failure of the provider ends the run.
ProviderFails(s) == turn[s].at = "asking" /\ Becomes(s, Ended(turn[s], "provider"))

\* The run future is dropped where it waits: the interruption first, if there
\* is one; one that came before the future was polled at all drops it unopened.
Cancelled(s) ==
    /\ Waits(s) \/ turn[s].at = "opening"
    /\ turn[s].interrupted /\ Becomes(s, Ended(turn[s], "cancelled"))
TimedOut(s) ==
    /\ Waits(s) /\ ~turn[s].interrupted /\ Becomes(s, Ended(turn[s], "run_timeout"))

\* A panic anywhere in the run is caught by the thread.
Panic(s) == InRun(s) /\ Becomes(s, Ended(turn[s], "runtime"))

------------------------------------------------------------------------------
(* The end of the thread.                                                     *)

\* failure_event: a spent budget of a task that paused is a pause.
ErrorCode(t) == IF t.outcome = "request_budget" /\ t.task = "paused" THEN "task_paused" ELSE t.outcome

\* run_turn, last: the result and its completion, or one error; nobody may be
\* listening any more.
Told(t) ==
    IF ~t.heard THEN t.log
    ELSE IF t.outcome = "ok"
         THEN Append(Append(t.log, Event("result", 0)), Event("completion", 0))
         ELSE Append(t.log, Event(ErrorCode(t), 0))
TellEnd(s) ==
    /\ turn[s].at = "ended"
    /\ turn' = [turn EXCEPT ![s].at = "told", ![s].log = Told(turn[s])]
    /\ UNCHANGED <<bound, writer, turnsRun>>

ThreadEnds(s) ==
    /\ turn[s].at = "told" /\ turn' = [turn EXCEPT ![s].at = "finished"]
    /\ UNCHANGED <<bound, writer, turnsRun>>

ToolBatches == UNION {[1..n -> Tools] : n \in 1..MaxBatch}
Run(s) ==
    \/ OpenJournal(s) \/ Handshake(s) \/ Request(s) \/ BeginCall(s) \/ EndBatch(s) \/ Finish(s)
    \/ Cancelled(s) \/ TimedOut(s)
    \/ TellEnd(s) \/ ThreadEnds(s)
SessionNext ==
    \/ \E j \in Journals : AnotherWriter(j)
    \/ \E s \in RuntimeSessions :
        \/ \E j \in Journals : BindSession(s, j)
        \/ SendTurn(s) \/ Interrupt(s) \/ RequestPause(s) \/ StopListening(s)
        \/ Run(s) \/ OpenFails(s) \/ Delta(s) \/ EndCall(s) \/ FinalAnswer(s) \/ FinishFails(s)
        \/ \E tools \in ToolBatches, worded \in BOOLEAN : AnswerWithCalls(s, tools, worded)
        \/ ProviderFails(s) \/ BudgetSpent(s) \/ TaskTimeSpent(s) \/ RepeatedBatch(s) \/ Panic(s)
        \/ TaskRefused(s) \/ Misconfigured(s)

\* The thread goes on by itself; providers and tools need not answer, for the
\* turn's own timeout is there.
SessionFairness == \A s \in RuntimeSessions : WF_sessionVars(Run(s))
SessionSpec == SessionInit /\ [][SessionNext]_sessionVars /\ SessionFairness

------------------------------------------------------------------------------
Terminals == {"completion", "cancelled", "run_timeout", "runtime", "memory", "output",
              "provider", "request_budget", "task_paused", "session", "configuration",
              "objection"}
TaskStates == {"checkpoint", "paused", "completed", "blocked"}
\* Where a stream has events of some kinds, and whether the latest of them is of one.
Places(log, kinds) == {i \in DOMAIN log : log[i].kind \in kinds}
LatestIs(log, kinds, kind) ==
    \E i \in Places(log, kinds) : log[i].kind = kind /\ \A j \in Places(log, kinds) : j <= i

\* "Events of one turn, ending with exactly one terminal event" (session.rs): a
\* stream somebody listens to has its terminal event at the end, once the run
\* is over and never before, whatever ended the run.
EndsOnce(t) ==
    LET ends == Places(t.log, Terminals)
    IN /\ ends \subseteq {Len(t.log)}
       /\ ends # {} => t.at \in {"told", "finished"}
       /\ t.at \in {"told", "finished"} /\ t.heard => ends # {}

\* The event that follows another in the stream of calls.
NextOf(event) ==
    IF event.kind = "tool_started" THEN Event("tool_completed", event.id)
    ELSE Event("tool_started", event.id + 1)
\* Calls are told one after the other, each under the id the journal has for it:
\* the sink's queue and the loop's own order agree although nothing but the
\* messages in between connects them, and the sink never objects to the loop.
CallsTold(t) ==
    /\ t.outcome # "objection"
    /\ \A i \in Places(t.log, {"tool_started", "tool_completed"}) :
         LET earlier == {j \in Places(t.log, {"tool_started", "tool_completed"}) : j < i}
         IN IF earlier = {} THEN t.log[i] = Event("tool_started", 1)
            ELSE \A j \in earlier : (\A k \in earlier : k <= j) => t.log[i] = NextOf(t.log[j])

\* A turn that says it is complete has answered and left no call open; one that
\* says its task is paused ends with the task's own last word.
VerdictTrue(t) ==
    \A i \in Places(t.log, Terminals) :
        /\ t.log[i].kind = "completion" => t.answered /\ t.active = NoCall
        /\ t.log[i].kind = "task_paused" => LatestIs(t.log, TaskStates, "paused")
        /\ t.log[i].kind = "request_budget" => ~LatestIs(t.log, TaskStates, "paused")

StreamsHonest == \A s \in RuntimeSessions : EndsOnce(turn[s]) /\ CallsTold(turn[s]) /\ VerdictTrue(turn[s])

\* However a provider or a tool hangs, a turn's thread ends.
TurnsEnd == \A s \in RuntimeSessions : ~IsFinished(s) ~> IsFinished(s)
=============================================================================
