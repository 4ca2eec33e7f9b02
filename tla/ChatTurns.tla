----------------------------- MODULE ChatTurns -----------------------------
(***************************************************************************)
(* One chat of the Telegram service (src/src/telegram/): its long-poll     *)
(* loop, its durable record and the turns it runs.                         *)
(*                                                                         *)
(* The loop handles one update at a time.  A handler changes the chat's    *)
(* record and its active-turn slot under the record lock, in one step, and *)
(* then awaits the messages it sends; a turn runs on a thread of its own,  *)
(* and when it has settled a finish task reports it and hands the slot to  *)
(* the head of the follow-up queue.  The loop and the finish tasks share   *)
(* one thread and interleave where they await; an earlier turn's finish    *)
(* task may still be awaiting when the next turn runs.                     *)
(*                                                                         *)
(* A save either succeeds, fails with the record unwritten ("lost"), or    *)
(* fails after the record was written ("late": save_record also rewrites   *)
(* health.json and returns its error).  Any message may fail.  The process *)
(* may be shut down or die at any moment and is started again; the record, *)
(* the poll offset and the session journals remain.                        *)
(***************************************************************************)
EXTENDS Integers, Sequences, FiniteSets, SequencesExt

CONSTANTS
    Kinds,          \* the kinds of update a user may send
    FollowupCap,    \* followup_cap
    MaxPrevious,    \* MAX_PREVIOUS_SESSIONS
    MaxAttempts,    \* MAX_UPDATE_ATTEMPTS
    TurnIds,        \* identities of the ActiveTurns that are alive at once
    MaxUpdates, MaxSessions, MaxFaults, MaxCrashes   \* bounds of the runs

ASSUME ChatAssumption ==
    /\ Kinds \subseteq {"prompt", "task", "new", "stop", "resume",
                        "swap", "other", "denied"}
    /\ {FollowupCap, MaxPrevious, MaxAttempts, MaxUpdates, MaxSessions} \subseteq Nat \ {0}
    /\ {MaxFaults, MaxCrashes} \subseteq Nat
    /\ TurnIds \subseteq Nat \ {0} /\ TurnIds # {}

VARIABLES
    sent,     \* the kind of update number offset, "none" before it was sent
    offset,   \* poll-offset.json: the next update to ask for
    rec,      \* conversations/<chat>.json
    made,     \* sessions allocated: they are 1..made
    ledger,   \* the long-task state in each session's journal
    slot,     \* ChatState::active, 0 for None
    turns,    \* the turns of this process
    loop,     \* where the loop is
    starts,   \* how often a turn was started with each update's prompt
    faults, crashes   \* failures so far

vars == <<sent, offset, rec, made, ledger, slot, turns, loop, starts, faults, crashes>>

Outcomes == {"ok", "lost", "late"}
Updates == 1..MaxUpdates
Sessions == 1..MaxSessions

NoTurn == [phase |-> "none", prompt |-> 0, session |-> 0, long |-> FALSE,
           cancelled |-> FALSE, outcome |-> "none", requeue |-> FALSE,
           looped |-> FALSE]

Live == {t \in TurnIds : turns[t].phase # "none"}

\* is_running: the thread has not settled (or was never started).
IsRunning(t) == turns[t].phase \in {"prepared", "running"}

Busy == slot # 0 \/ rec.queue # <<>>

\* A journal that holds a long-task outcome, or no long task at all.
TaskTerminal == rec.task # 0 /\ ledger[rec.task] \in {"not_long_task", "completed", "failed"}

(***************************************************************************)
(* The record's own operations.                                            *)
(***************************************************************************)
ClearTurn(r) == [r EXCEPT !.active = FALSE]
ClearTask(r) == [r EXCEPT !.task = 0]
ClearTaskOf(r, s) == IF r.task = s THEN ClearTask(r) ELSE r
MarkTurn(r, s) == [r EXCEPT !.active = TRUE, !.session = s]
Saw(r, u) == [r EXCEPT !.seen = u]

\* /stop drops what waits; the turn that runs ends by itself.
Stopped(r) == [r EXCEPT !.queue = <<>>]

Enqueued(r, u) ==
    IF Len(r.queue) >= FollowupCap THEN r ELSE [r EXCEPT !.queue = Append(@, u)]

Bounded(s) == SubSeq(s, 1, IF Len(s) > MaxPrevious THEN MaxPrevious ELSE Len(s))

\* The entries of q up to i that are not s (Vec::retain).
Without(q, s) ==
    LET kept[i \in 0..Len(q)] ==
            IF i = 0 THEN <<>> ELSE IF q[i] = s THEN kept[i - 1] ELSE Append(kept[i - 1], q[i])
    IN  kept[Len(q)]

RememberCurrent(r) ==
    IF r.session = 0 THEN r
    ELSE [r EXCEPT !.previous = Bounded(<<r.session>> \o Without(r.previous, r.session))]

SwapPrevious(r) ==
    [r EXCEPT !.session = Head(r.previous),
              !.previous = IF r.session = 0 THEN Tail(r.previous)
                           ELSE Bounded(<<r.session>> \o Tail(r.previous))]

Saved(o, r) == IF o = "lost" THEN rec ELSE r
Faulted(os) == faults + Cardinality({i \in DOMAIN os : os[i] # "ok"})
Spend(os) == faults' = Faulted(os) /\ faults' <= MaxFaults

Init ==
    /\ sent = "none" /\ offset = 1 /\ made = 0
    /\ rec = [seen |-> 0, session |-> 0, previous |-> <<>>, task |-> 0,
              active |-> FALSE, queue |-> <<>>]
    /\ ledger = [s \in Sessions |-> "not_long_task"]
    /\ slot = 0 /\ turns = [t \in TurnIds |-> NoTurn]
    /\ loop = [pc |-> "recover", turn |-> 0, tries |-> 0]
    /\ starts = [u \in Updates |-> 0]
    /\ faults = 0 /\ crashes = 0

(***************************************************************************)
(* The loop: one update at a time, three attempts each.                    *)
(***************************************************************************)
Current == offset
At(pc) == loop.pc = pc
\* The service's tasks share one thread: another one runs only where the
\* loop awaits, and it does not between a handler's end and its commit.
Yielded == loop.pc # "commit"

Goto(pc) == [loop EXCEPT !.pc = pc, !.turn = 0]

\* handle_update failed: ask for the update again, or give it up.
\* Mutant of HandlingFailed: the update is passed over at once.
HandlingFailedOnce == [pc |-> "commit", turn |-> 0, tries |-> 0]
HandlingFailed ==
    IF loop.tries + 1 < MaxAttempts
    THEN [pc |-> "poll", turn |-> 0, tries |-> loop.tries + 1]
    ELSE [pc |-> "commit", turn |-> 0, tries |-> 0]

\* getUpdates answers with an update not seen before; after a failure or a
\* restart the server sends the same one again.
Poll(k) ==
    /\ At("poll") /\ sent = "none" /\ Current <= MaxUpdates
    /\ sent' = k
    /\ UNCHANGED <<offset, rec, made, ledger, slot, turns, loop, starts, faults, crashes>>

Handling(k) ==
    /\ At("poll") /\ sent = k

\* Not on the allowlist, or already consumed: nothing happens.
HandleIgnored ==
    /\ At("poll") /\ sent # "none"
    /\ sent = "denied" \/ Current <= rec.seen
    /\ loop' = Goto("commit")
    /\ UNCHANGED <<sent, offset, rec, made, ledger, slot, turns, starts, faults, crashes>>

\* The record is saved, then the reply is sent.
Answer(r, o) ==
    /\ rec' = Saved(o, Saw(r, Current)) /\ Spend(<<o>>)
    /\ loop' = IF o = "ok" THEN Goto("reply") ELSE HandlingFailed

Reply(ok) ==
    /\ At("reply")
    /\ loop' = IF ok THEN Goto("commit") ELSE HandlingFailed
    /\ Spend(IF ok THEN <<>> ELSE <<"lost">>)
    /\ UNCHANGED <<sent, offset, rec, made, ledger, slot, turns, starts, crashes>>

\* prepare_turn: a session if there is none, the slot, the marker.
SessionFor(r) == IF r.session = 0 THEN made + 1 ELSE r.session
\* Mutant of PoppedHead: the head is read and stays.
PoppedHeadKept(r) == MarkTurn(r, SessionFor(r))
PoppedHead(r) == MarkTurn([r EXCEPT !.queue = Tail(@)], SessionFor(r))

FreeTurn == CHOOSE t \in TurnIds : turns[t].phase = "none"
HasFreeTurn == \E t \in TurnIds : turns[t].phase = "none"

Prepared(p, s, long, requeue, looped) ==
    [NoTurn EXCEPT !.phase = "prepared", !.prompt = p, !.session = s, !.long = long,
                   !.requeue = requeue, !.looped = looped]

\* The handler of an update that starts a turn: on a failed save the slot
\* is given back and the update fails.
TakeTurn(r, p, s, long, o) ==
    /\ HasFreeTurn /\ s \in Sessions
    /\ made' = IF s > made THEN s ELSE made
    /\ rec' = Saved(o, Saw(r, Current)) /\ Spend(<<o>>)
    /\ IF o = "ok"
       THEN /\ slot' = FreeTurn
            /\ turns' = [turns EXCEPT ![FreeTurn] = Prepared(p, s, long, FALSE, TRUE)]
            /\ loop' = [loop EXCEPT !.pc = "launch", !.turn = FreeTurn]
       ELSE slot' = 0 /\ loop' = HandlingFailed /\ UNCHANGED turns

HandlePrompt(o) ==
    /\ Handling("prompt") /\ Current > rec.seen
    /\ IF Busy
       THEN Answer(Enqueued(rec, Current), o) /\ UNCHANGED <<made, slot, turns>>
       ELSE IF rec.task # 0
       THEN Answer(rec, o) /\ UNCHANGED <<made, slot, turns>>
       ELSE TakeTurn(MarkTurn(rec, SessionFor(rec)), Current, SessionFor(rec), FALSE, o)
    /\ UNCHANGED <<sent, offset, ledger, starts, crashes>>

HandleTask(o) ==
    /\ Handling("task") /\ Current > rec.seen
    /\ IF Busy \/ rec.task # 0
       THEN Answer(rec, o) /\ UNCHANGED <<made, slot, turns>>
       ELSE TakeTurn([MarkTurn(rec, SessionFor(rec)) EXCEPT !.task = SessionFor(rec)],
                     Current, SessionFor(rec), TRUE, o)
    /\ UNCHANGED <<sent, offset, ledger, starts, crashes>>

HandleTaskResume(o) ==
    /\ Handling("resume") /\ Current > rec.seen
    /\ IF Busy \/ rec.task = 0 \/ ledger[rec.task] # "paused"
       THEN Answer(rec, o) /\ UNCHANGED <<made, slot, turns>>
       ELSE TakeTurn(MarkTurn(rec, rec.task), 0, rec.task, TRUE, o)
    /\ UNCHANGED <<sent, offset, ledger, starts, crashes>>

HandleNew(o) ==
    /\ Handling("new") /\ Current > rec.seen
    /\ IF Busy THEN Answer(rec, o) /\ UNCHANGED made
       ELSE /\ made < MaxSessions /\ made' = made + 1
            /\ Answer(ClearTask([RememberCurrent(rec) EXCEPT !.session = made + 1]), o)
    /\ UNCHANGED <<sent, offset, ledger, slot, turns, starts, crashes>>

\* The slot is given back only when its turn has settled; a running turn
\* gives it back itself.
\* Mutant of StopReleases: whatever the turn in the slot is doing.
StopReleasesAny == slot # 0
StopReleases == slot # 0 /\ ~IsRunning(slot)

HandleStop(o) ==
    /\ Handling("stop") /\ Current > rec.seen
    /\ slot' = IF StopReleases THEN 0 ELSE slot
    /\ turns' = IF slot = 0 THEN turns
                ELSE [turns EXCEPT ![slot].cancelled = @ \/ IsRunning(slot)]
    /\ Answer(Stopped(rec), o)
    /\ UNCHANGED <<sent, offset, made, ledger, starts, crashes>>

HandleResume(o) ==
    /\ Handling("swap") /\ Current > rec.seen
    /\ Answer(IF Busy \/ rec.previous = <<>> THEN rec ELSE SwapPrevious(rec), o)
    /\ UNCHANGED <<sent, offset, made, ledger, slot, turns, starts, crashes>>

\* The commands that change nothing of this and updates without text;
\* /task_pause asks a task to do what it may do anyway.
HandleOther(o) ==
    /\ Handling("other") /\ Current > rec.seen
    /\ Answer(rec, o)
    /\ UNCHANGED <<sent, offset, made, ledger, slot, turns, starts, crashes>>

\* The offset is saved only after the update was handled or given up.
Commit ==
    /\ At("commit")
    /\ offset' = offset + 1 /\ sent' = "none"
    /\ loop' = [pc |-> "poll", turn |-> 0, tries |-> 0]
    /\ UNCHANGED <<rec, made, ledger, slot, turns, starts, faults, crashes>>

\* The offset cannot be saved: the loop ends with the error and drains.
CommitFails ==
    /\ At("commit") /\ Spend(<<"lost">>)
    /\ loop' = Goto("drain")
    /\ turns' = IF slot # 0 /\ IsRunning(slot)
                THEN [turns EXCEPT ![slot].cancelled = TRUE] ELSE turns
    /\ UNCHANGED <<sent, offset, rec, made, ledger, slot, starts, crashes>>

(***************************************************************************)
(* Starting a turn (launch_turn), by the loop or by a finish task.         *)
(***************************************************************************)

\* The launch is over: a loop that waits for it goes on.
Launched(t, ok) ==
    loop' = IF turns[t].looped /\ loop.turn = t /\ At("launch")
            THEN IF ok THEN Goto("commit") ELSE HandlingFailed
            ELSE loop

\* abort_prepared_turn; r is the record as the caller left it, os the
\* outcomes of the saves so far and o that of its own.
Abort(t, r, os, o, ok) ==
    LET aborted == ClearTurn(IF turns[t].long THEN ClearTaskOf(r, turns[t].session) ELSE r)
        requeued == IF turns[t].requeue /\ ~turns[t].cancelled
                    THEN [aborted EXCEPT !.queue = <<turns[t].prompt>> \o @] ELSE aborted
    IN /\ IF slot = t
          THEN slot' = 0 /\ rec' = (IF o = "lost" THEN r ELSE requeued)
          ELSE o = "ok" /\ rec' = r /\ UNCHANGED slot
       /\ turns' = [turns EXCEPT ![t] = NoTurn]
       /\ Spend(Append(os, o))
       /\ Launched(t, ok /\ o = "ok")

SendFails(t, o) ==
    /\ turns[t].phase = "prepared" /\ Yielded
    /\ Abort(t, rec, <<"lost">>, o, FALSE)
    /\ UNCHANGED <<sent, offset, made, ledger, starts, crashes>>

\* The progress message is out, but its id cannot be saved.
RecordFails(t, failed, o) ==
    /\ turns[t].phase = "prepared" /\ Yielded /\ failed # "ok"
    /\ Abort(t, Saved(failed, [rec EXCEPT !.active = TRUE]), <<failed>>, o, FALSE)
    /\ UNCHANGED <<sent, offset, made, ledger, starts, crashes>>

\* /stop came while the message was sent.
StartCancelled(t, o) ==
    /\ turns[t].phase = "prepared" /\ Yielded /\ turns[t].cancelled
    /\ Abort(t, [rec EXCEPT !.active = TRUE], <<>>, o, TRUE)
    /\ UNCHANGED <<sent, offset, made, ledger, starts, crashes>>

\* runner.start_turn refuses the journal or cannot start its thread.
StartFails(t, o) ==
    /\ turns[t].phase = "prepared" /\ Yielded /\ ~turns[t].cancelled
    /\ Abort(t, [rec EXCEPT !.active = TRUE], <<"lost">>, o, FALSE)
    /\ UNCHANGED <<sent, offset, made, ledger, starts, crashes>>

Start(t) ==
    /\ turns[t].phase = "prepared" /\ Yielded /\ ~turns[t].cancelled
    /\ rec' = [rec EXCEPT !.active = TRUE]
    /\ turns' = [turns EXCEPT ![t].phase = "running"]
    /\ starts' = IF turns[t].prompt = 0 THEN starts
                 ELSE [starts EXCEPT ![turns[t].prompt] = @ + 1]
    /\ Launched(t, TRUE)
    /\ UNCHANGED <<sent, offset, made, ledger, slot, faults, crashes>>

(***************************************************************************)
(* A turn's thread and its finish task.                                    *)
(***************************************************************************)

\* A long task writes its start into the journal before anything else.
TaskBegins(t) ==
    /\ turns[t].phase = "running" /\ turns[t].long /\ ledger[turns[t].session] # "running"
    /\ ledger' = [ledger EXCEPT ![turns[t].session] = "running"]
    /\ UNCHANGED <<sent, offset, rec, made, slot, turns, loop, starts, faults, crashes>>

\* on_settled, then the result is sent.  A cancelled turn may still have
\* finished; its long task is otherwise left without an outcome.
Settle(t, out) ==
    LET s == turns[t].session
    IN /\ turns[t].phase = "running"
       /\ out = "paused" => turns[t].long
       /\ turns[t].long /\ out # "err" => ledger[s] = "running"
       /\ turns' = [turns EXCEPT ![t].phase = "settled", ![t].outcome = out]
       /\ ledger' = IF ~turns[t].long \/ ledger[s] # "running" THEN ledger
                    ELSE [ledger EXCEPT ![s] =
                            CASE out = "ok" -> "completed"
                              [] out = "paused" -> "paused"
                              [] turns[t].cancelled -> "running"
                              [] OTHER -> "failed"]
       /\ UNCHANGED <<sent, offset, rec, made, slot, loop, starts, faults, crashes>>

\* finish_turn under the record lock; errors of the save are only logged.
Report(t, o) ==
    LET s == turns[t].session
        good == turns[t].outcome # "err" /\ ~turns[t].cancelled
        next == IF good /\ (turns[t].outcome = "paused" \/ rec.session # s)
                THEN ClearTurn(rec) ELSE ClearTaskOf(ClearTurn(rec), s)
    IN /\ turns[t].phase = "settled" /\ Yielded
       /\ rec' = Saved(o, next) /\ Spend(<<o>>)
       /\ turns' = [turns EXCEPT ![t].phase =
                      IF good /\ turns[t].outcome = "paused" THEN "paused" ELSE "reported"]
       /\ UNCHANGED <<sent, offset, made, ledger, slot, loop, starts, crashes>>

\* After its messages: a paused task only gives the slot back.
ReleasePaused(t) ==
    /\ turns[t].phase = "paused" /\ Yielded
    /\ slot' = IF slot = t THEN 0 ELSE slot
    /\ turns' = [turns EXCEPT ![t] = NoTurn]
    /\ UNCHANGED <<sent, offset, rec, made, ledger, loop, starts, faults, crashes>>

\* advance_after_turn: nothing to do for a turn that lost the slot.
AdvanceStale(t) ==
    /\ turns[t].phase = "reported" /\ Yielded /\ slot # t
    /\ turns' = [turns EXCEPT ![t] = NoTurn]
    /\ UNCHANGED <<sent, offset, rec, made, ledger, slot, loop, starts, faults, crashes>>

AdvanceIdle(t) ==
    /\ turns[t].phase = "reported" /\ Yielded /\ slot = t /\ rec.queue = <<>>
    /\ slot' = 0 /\ turns' = [turns EXCEPT ![t] = NoTurn]
    /\ UNCHANGED <<sent, offset, rec, made, ledger, loop, starts, faults, crashes>>

\* The head of the queue is taken into the slot; u reuses the place of t.
\* If the save fails the head is put back, which is saved again.
AdvanceQueue(t, o, o2) ==
    LET head == Head(rec.queue)
        popped == PoppedHead(rec)
        disk == Saved(o, popped)
    IN /\ turns[t].phase = "reported" /\ Yielded /\ slot = t /\ rec.queue # <<>>
       /\ o = "ok" => o2 = "ok"
       /\ Spend(<<o, o2>>)
       /\ rec' = IF o = "ok" THEN popped
                 ELSE IF o2 = "lost" THEN disk
                 ELSE [ClearTurn(popped) EXCEPT !.queue = rec.queue]
       /\ IF o = "ok"
          THEN /\ turns' = [turns EXCEPT ![t] =
                              Prepared(head, SessionFor(rec), FALSE, TRUE, FALSE)]
               /\ UNCHANGED slot
          ELSE slot' = 0 /\ turns' = [turns EXCEPT ![t] = NoTurn]
       /\ UNCHANGED <<sent, offset, made, ledger, loop, starts, crashes>>

(***************************************************************************)
(* Shutdown, death and restart.                                            *)
(***************************************************************************)

\* The loop ends and interrupts the turn that runs; finish tasks go on
\* until the process exits.
Shutdown ==
    /\ At("poll") /\ crashes < MaxCrashes
    /\ crashes' = crashes + 1
    /\ loop' = Goto("drain")
    /\ turns' = IF slot # 0 /\ IsRunning(slot)
                THEN [turns EXCEPT ![slot].cancelled = TRUE] ELSE turns
    /\ UNCHANGED <<sent, offset, rec, made, ledger, slot, starts, faults>>

Gone ==
    /\ slot' = 0 /\ turns' = [t \in TurnIds |-> NoTurn]
    /\ loop' = [pc |-> "down", turn |-> 0, tries |-> 0]

\* Every turn has settled or the drain budget is spent.
Exit ==
    /\ At("drain") /\ Gone
    /\ UNCHANGED <<sent, offset, rec, made, ledger, starts, faults, crashes>>

Crash ==
    /\ loop.pc \notin {"down", "drain"} /\ crashes < MaxCrashes
    /\ crashes' = crashes + 1 /\ Gone
    /\ UNCHANGED <<sent, offset, rec, made, ledger, starts, faults>>

Restart ==
    /\ At("down") /\ loop' = Goto("recover")
    /\ UNCHANGED <<sent, offset, rec, made, ledger, slot, turns, starts, faults, crashes>>

\* recover_orphans: the interrupted turn is reported (best effort) and its
\* marker cleared, then a queue that is behind no open task is started.  A
\* failed save ends the process.
\* Mutant of QueueWaits: only where no turn was interrupted.
QueueWaitsIdle == rec.queue # <<>> /\ rec.task = 0 /\ ~rec.active
QueueWaits == rec.queue # <<>> /\ (rec.task = 0 \/ TaskTerminal)

Recover(o) ==
    LET next == IF TaskTerminal THEN ClearTask(ClearTurn(rec)) ELSE ClearTurn(rec)
    IN /\ At("recover")
       /\ rec.active \/ TaskTerminal \/ o = "ok"
       /\ rec' = Saved(o, next) /\ Spend(<<o>>)
       /\ loop' = Goto(IF o # "ok" THEN "down" ELSE IF QueueWaits THEN "requeue" ELSE "poll")
       /\ UNCHANGED <<sent, offset, made, ledger, slot, turns, starts, crashes>>

\* start_queued_turn; its errors are only logged.
StartQueued(o, o2) ==
    LET popped == PoppedHead(rec)
    IN /\ At("requeue")
       /\ o = "ok" => o2 = "ok"
       /\ Spend(<<o, o2>>)
       /\ rec' = IF o = "ok" THEN popped
                 ELSE IF o2 = "lost" THEN Saved(o, popped)
                 ELSE [ClearTurn(popped) EXCEPT !.queue = rec.queue]
       /\ IF o = "ok"
          THEN /\ slot' = FreeTurn
               /\ turns' = [turns EXCEPT ![FreeTurn] =
                              Prepared(Head(rec.queue), SessionFor(rec), FALSE, TRUE, TRUE)]
               /\ loop' = [loop EXCEPT !.pc = "relaunch", !.turn = FreeTurn]
          ELSE loop' = Goto("poll") /\ UNCHANGED <<slot, turns>>
       /\ UNCHANGED <<sent, offset, made, ledger, starts, crashes>>

\* The launch of a recovered prompt is over, whatever became of it.
Recovered ==
    /\ At("relaunch") /\ turns[loop.turn].phase # "prepared"
    /\ loop' = Goto("poll")
    /\ UNCHANGED <<sent, offset, rec, made, ledger, slot, turns, starts, faults, crashes>>

LaunchStep(t) ==
    \/ Start(t)
    \/ \E o \in Outcomes :
        \/ SendFails(t, o) \/ StartCancelled(t, o) \/ StartFails(t, o)
        \/ \E failed \in Outcomes : RecordFails(t, failed, o)

ThreadStep(t) == TaskBegins(t) \/ \E out \in {"ok", "err", "paused"} : Settle(t, out)

FinishStep(t) ==
    \/ \E o \in Outcomes : Report(t, o)
    \/ ReleasePaused(t) \/ AdvanceStale(t) \/ AdvanceIdle(t)
    \/ \E o, o2 \in Outcomes : AdvanceQueue(t, o, o2)

Handle ==
    \/ HandleIgnored
    \/ \E o \in Outcomes :
        \/ HandlePrompt(o) \/ HandleTask(o) \/ HandleTaskResume(o) \/ HandleNew(o)
        \/ HandleStop(o) \/ HandleResume(o) \/ HandleOther(o)

LoopStep ==
    \/ Handle \/ Commit \/ CommitFails \/ Exit \/ Restart \/ Recovered
    \/ \E ok \in BOOLEAN : Reply(ok)
    \/ \E o \in Outcomes : Recover(o) \/ \E o2 \in Outcomes : StartQueued(o, o2)

Next ==
    \/ \E k \in Kinds : Poll(k)
    \/ LoopStep \/ Shutdown \/ Crash
    \/ \E t \in TurnIds : LaunchStep(t) \/ ThreadStep(t) \/ FinishStep(t)

\* Every task of the process is scheduled; a turn's own time limit and the
\* bounded requests of the Bot API client end each of their steps.
Fairness ==
    /\ WF_vars(LoopStep)
    /\ \A t \in TurnIds :
        WF_vars(LaunchStep(t)) /\ WF_vars(ThreadStep(t)) /\ WF_vars(FinishStep(t))

Spec == Init /\ [][Next]_vars
FairSpec == Spec /\ Fairness

(***************************************************************************)
(* Properties.                                                             *)
(***************************************************************************)

Turns == [phase : {"none", "prepared", "running", "settled", "paused", "reported"},
          prompt : 0..MaxUpdates, session : 0..MaxSessions, long : BOOLEAN,
          cancelled : BOOLEAN, outcome : {"none", "ok", "err", "paused"},
          requeue : BOOLEAN, looped : BOOLEAN]

TypeOK ==
    /\ sent \in Kinds \cup {"none"} /\ offset \in 1..MaxUpdates + 1 /\ made \in 0..MaxSessions
    /\ rec.seen \in 0..MaxUpdates /\ rec.session \in 0..made /\ rec.task \in 0..made
    /\ rec.previous \in Seq(Sessions) /\ Len(rec.previous) <= MaxPrevious
    /\ rec.active \in BOOLEAN
    /\ rec.queue \in Seq(Updates) /\ Len(rec.queue) <= FollowupCap + 1
    /\ ledger \in [Sessions -> {"not_long_task", "running", "paused", "completed", "failed"}]
    /\ slot \in TurnIds \cup {0} /\ turns \in [TurnIds -> Turns]
    /\ loop.pc \in {"recover", "requeue", "relaunch", "poll", "reply", "launch",
                    "commit", "drain", "down"}
    /\ faults \in 0..MaxFaults /\ crashes \in 0..MaxCrashes

\* The slot holds every turn that may still run, so /stop and a shutdown
\* reach it and two turns never write one journal; and it never holds a
\* turn nobody will finish (release_if_current).
SlotDiscipline ==
    /\ TypeOK
    /\ \A t \in Live : IsRunning(t) => slot = t
    /\ slot # 0 => turns[slot].phase # "none"

\* The offset passes an update only when the record has consumed it or
\* MAX_UPDATE_ATTEMPTS attempts failed, and the record is never ahead of the
\* offset: whatever crashes or failed saves come between the two files,
\* no update is lost and no prompt is started twice.
OffsetHonest ==
    [][/\ rec'.seen <= offset' /\ rec'.seen >= rec.seen
       /\ \A u \in Updates : starts'[u] <= 1
       /\ offset' > offset => sent = "denied" \/ offset <= rec.seen \/ faults >= MaxAttempts]_vars

\* The chat's prompts move as PromptQueue promises.
Queue == INSTANCE PromptQueue WITH
    Prompts <- Updates, waiting <- rec.queue,
    held <- IF slot = 0 THEN 0 ELSE turns[slot].prompt,
    started <- {u \in Updates : starts[u] > 0}
QueueSpec == Queue!Spec

\* Accepted prompts no turn was started with.
Held == IF slot = 0 THEN 0 ELSE turns[slot].prompt
Pending == {u \in Updates : u \in ToSet(rec.queue) \cup {Held} /\ starts[u] = 0}

\* An accepted prompt is given up before its turn starts only when /stop
\* says so, when a message or a save fails, or with the process.
NotForgotten ==
    [][\A u \in Pending :
        \/ starts'[u] > 0 \/ u \in Pending' \/ faults' > faults \/ loop'.pc = "down"
        \/ Handling("stop")
        \/ slot # 0 /\ turns[slot].prompt = u /\ turns[slot].cancelled]_vars

\* While a turn is being started or runs, the record says so, and a restart
\* will report it: only the finish task of an earlier turn takes that back.
MarkerKept ==
    [][slot # 0 /\ slot' = slot /\ rec.active /\ IsRunning(slot) /\ IsRunning(slot)'
        => rec'.active \/ \E t \in TurnIds \ {slot} : turns[t].phase = "settled"]_vars

\* What the record and the offset say can be relied on after any crash.
RecordHonest == OffsetHonest /\ NotForgotten /\ MarkerKept

\* Without failures, when no turn is stopped while its first message is
\* still being sent and no finish task is overtaken by the next turn, a
\* queue that is not behind a long task empties, over any crash or shutdown.
Undisturbed ==
    /\ faults = 0
    /\ \A t \in TurnIds : /\ turns[t].phase = "prepared" => ~turns[t].cancelled
                          /\ turns[t].phase = "settled" => slot = t
QueueDrains == []Undisturbed => (rec.queue # <<>> ~> rec.queue = <<>> \/ rec.task # 0)

\* docs/telegram.md: "Queued follow-ups remain durable and run sequentially
\* after the active turn reaches its terminal boundary."
QueueRuns == [](faults = 0) => (rec.queue # <<>> ~> rec.queue = <<>> \/ rec.task # 0)

\* advance_after_turn: "The queue stays in the record for the next prompt
\* or restart to pick up."
NextPromptPicksUp ==
    [][\A o \in Outcomes : HandlePrompt(o) /\ o = "ok" /\ slot = 0 /\ rec.task = 0
        => slot' # 0]_vars

\* run_until_drained: "Leaving the loop stops admitting new turns".
DrainStartsNothing == [][At("drain") => starts' = starts]_vars

\* docs/telegram.md: a restart "states that the prior turn did not
\* complete", which the marker tells it.
MarkedWhileRunning == \A t \in Live : turns[t].phase = "running" => rec.active

\* docs/telegram.md: /task_resume resumes the paused task; only /new
\* replaces it.
PausedTaskKept ==
    [][rec.task # 0 /\ ledger[rec.task] = "paused" => rec'.task = rec.task \/ Handling("new")]_vars

=============================================================================
