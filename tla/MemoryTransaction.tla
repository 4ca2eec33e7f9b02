-------------------------- MODULE MemoryTransaction --------------------------
(***************************************************************************)
(* The two-file commit of the local memory (src/src/memory/transaction.rs).*)
(*                                                                         *)
(* One process at a time holds the state directory's exclusive lock.  Each *)
(* operation first recovers what an earlier process left behind, then does *)
(* its own work, and is a sequence of writes each of which is atomic and   *)
(* durable: `plan` holds the writes it still has to do, computed from what *)
(* it has read.  Between any two of them the process may die or a write    *)
(* may fail.  Someone may edit a target by hand while the lock is free.    *)
(***************************************************************************)
EXTENDS Integers, Sequences, FiniteSets

CONSTANTS
    Ids,         \* action ids, each drawn at random by one commit
    NoId,        \* no action
    Values,      \* contents a commit may write
    Absent,      \* the file does not exist
    Foreign,     \* contents written by someone else
    MaxEdits,    \* bound of the number of such edits
    Leftovers    \* whether an interrupted write may leave its temporary file

ASSUME MemoryAssumption ==
    /\ NoId \notin Ids /\ Absent \notin Values \cup {Foreign} /\ Foreign \notin Values
    /\ MaxEdits \in Nat /\ Leftovers \in BOOLEAN

TARGETS == <<"memory-facts.jsonl", "resume.md">>
Targets == {TARGETS[i] : i \in DOMAIN TARGETS}
Contents == [Targets -> Values \cup {Absent, Foreign}]
Blank == [t \in Targets |-> Absent]

VARIABLES
    file,     \* the two targets
    action,   \* the action directories, by id
    temp,     \* actions whose directory holds a temporary file
    head,     \* HEAD
    ledger,   \* ledger.jsonl: an action has each event at most once
    phase,    \* where the process that holds the lock is
    new,      \* what its commit's transform returned
    plan,     \* the writes it has still to do in this phase
    outcome,  \* how the latest operation ended
    edits     \* the number of foreign edits so far

vars == <<file, action, temp, head, ledger, phase, new, plan, outcome, edits>>
disk == <<file, action, temp, head, ledger>>

\* "none": no directory; "unprepared": a directory without a manifest.  The
\* parent and the images are in the manifest, saved are the pre-images present.
States == {"none", "unprepared", "prepared", "committed", "undoing",
           "rolled_back", "aborted", "superseded"}
Actions == [state : States, parent : Ids \cup {NoId}, before : Contents, after : Contents,
            saved : SUBSET Targets]
NoAction == [state |-> "none", parent |-> NoId, before |-> Blank, after |-> Blank, saved |-> {}]

Events == {"commit", "abort", "rollback", "supersede"}

\* One write; arg is a target, a side, a manifest state or an event.
Write(do, id, arg) == [do |-> do, id |-> id, arg |-> arg]
EachTarget(do, id) == [i \in DOMAIN TARGETS |-> Write(do, id, TARGETS[i])]

Init ==
    /\ file = Blank
    /\ action = [id \in Ids |-> NoAction]
    /\ temp = {} /\ head = NoId /\ ledger = {}
    /\ phase = "idle" /\ new = Blank /\ plan = <<>>
    /\ outcome = "ok" /\ edits = 0

-----------------------------------------------------------------------------
(* What a process reads.                                                   *)

InState(states) == {id \in Ids : action[id].state \in states}
Live     == {"prepared", "committed", "undoing"}
Closed   == {"aborted", "rolled_back", "superseded"}
Pending  == InState({"prepared", "undoing"})

\* The targets that have a pre-image to restore.
Bodies(id) == {t \in Targets : action[id].before[t] # Absent}

\* read_manifest: no file in the directory that does not belong there, and
\* the pre-images a live action needs are present.
Readable(id) ==
    /\ action[id].state \notin {"none", "unprepared"}
    /\ id \notin temp
    /\ action[id].saved \subseteq Bodies(id)
    /\ action[id].state \in Live => Bodies(id) \subseteq action[id].saved

\* target_matches, for both targets.
Before(id) == file = action[id].before
After(id)  == file = action[id].after
Known(id)  == \A t \in Targets : file[t] \in {action[id].before[t], action[id].after[t]}

-----------------------------------------------------------------------------
(* The writes of each stage, in their order.                               *)

Purge(id)   == EachTarget("purge", id)
Restore(id) == EachTarget("restore", id) \o <<Write("verify", id, "before")>>

Discard(id) == Purge(id) \o <<Write("rmdir", id, "")>>

Forward(id) == <<Write("head", id, ""), Write("manifest", id, "committed"),
                 Write("event", id, "commit")>>

Abort(id) == Restore(id) \o <<Write("event", id, "abort"), Write("manifest", id, "aborted")>>
                 \o Purge(id)

\* The common tail of rollback and finish_undo.
Undo(id) ==
    Restore(id) \o <<Write("head", NoId, ""), Write("event", id, "rollback"),
                     Write("manifest", id, "rolled_back")>> \o Purge(id)

\* Mutant of Supersede: the pre-images go first.
SupersedePurgeFirst(id) ==
    IF id \in InState({"committed"})
    THEN Purge(id) \o <<Write("event", id, "supersede"), Write("manifest", id, "superseded")>>
    ELSE IF id \in InState({"superseded"}) THEN Purge(id) ELSE <<>>

Supersede(id) ==
    IF id \in InState({"committed"})
    THEN <<Write("event", id, "supersede"), Write("manifest", id, "superseded")>> \o Purge(id)
    ELSE IF id \in InState({"superseded"}) THEN Purge(id) ELSE <<>>

\* A target without contents has none to save.
Save(id, t) == IF file[t] # Absent THEN <<Write("preimage", id, t)>> ELSE <<>>

\* A target that stays absent is not written.
Prepare(id) ==
    <<Write("mkdir", id, "")>> \o Save(id, TARGETS[1]) \o Save(id, TARGETS[2])
        \o <<Write("manifest", id, "prepared")>>
        \o EachTarget("apply", id) \o <<Write("verify", id, "after")>>

CommitPlan(id) ==
    Prepare(id) \o Forward(id) \o IF head = NoId THEN <<>> ELSE Supersede(head)

-----------------------------------------------------------------------------
(* One write each.                                                         *)

Doing(kind) == phase # "idle" /\ plan # <<>> /\ Head(plan).do = kind
Continue == plan' = Tail(plan) /\ UNCHANGED <<temp, phase, new, outcome, edits>>
W == Head(plan)

MakeDirectory ==
    /\ Doing("mkdir")
    /\ action' = [action EXCEPT ![W.id] = [state |-> "unprepared", parent |-> head,
                                           before |-> file, after |-> new, saved |-> {}]]
    /\ Continue /\ UNCHANGED <<file, head, ledger>>

SavePreimage ==
    /\ Doing("preimage")
    /\ action' = [action EXCEPT ![W.id].saved = @ \cup {W.arg}]
    /\ Continue /\ UNCHANGED <<file, head, ledger>>

WriteManifest ==
    /\ Doing("manifest")
    /\ action' = [action EXCEPT ![W.id].state = W.arg]
    /\ Continue /\ UNCHANGED <<file, head, ledger>>

WriteTarget ==
    /\ Doing("apply") \/ Doing("restore")
    /\ file' = [file EXCEPT ![W.arg] = IF W.do = "apply" THEN action[W.id].after[W.arg]
                                       ELSE action[W.id].before[W.arg]]
    /\ Continue /\ UNCHANGED <<action, head, ledger>>

\* A mismatch ends the operation like any failing step.
Verify ==
    /\ Doing("verify")
    /\ IF W.arg = "before" THEN Before(W.id) ELSE After(W.id)
    /\ Continue /\ UNCHANGED <<file, action, head, ledger>>

WriteHead ==
    /\ Doing("head")
    /\ head' = W.id
    /\ Continue /\ UNCHANGED <<file, action, ledger>>

RecordEvent ==
    /\ Doing("event")
    /\ ledger' = ledger \cup {<<W.id, W.arg>>}
    /\ Continue /\ UNCHANGED <<file, action, head>>

\* Images and parent of an ended action without pre-images are not read again.
Purged(a, t) == IF a.state \in Closed /\ a.saved \subseteq {t} THEN [NoAction EXCEPT !.state = a.state]
                ELSE [a EXCEPT !.saved = @ \ {t}]

PurgePreimage ==
    /\ Doing("purge")
    /\ action' = [action EXCEPT ![W.id] = Purged(@, W.arg)]
    /\ Continue /\ UNCHANGED <<file, head, ledger>>

RemoveDirectory ==
    /\ Doing("rmdir")
    /\ action' = [action EXCEPT ![W.id] = NoAction]
    /\ Continue /\ UNCHANGED <<file, head, ledger>>

-----------------------------------------------------------------------------
(* One operation, from taking the lock to giving it up.                    *)

Enter(p) == phase' = p /\ UNCHANGED <<disk, outcome, edits>>
At(p) == phase = p /\ plan = <<>>

\* The lock is given up and the caller has its answer.
Ends(how) ==
    /\ phase' = "idle" /\ new' = Blank /\ plan' = <<>> /\ outcome' = how
    /\ UNCHANGED <<disk, edits>>

\* What the process was asked for matters only when it has recovered.
Begin ==
    /\ phase = "idle" /\ phase' = "scan" /\ outcome' = "none"
    /\ UNCHANGED <<disk, new, plan, edits>>

\* recover, first part: one action directory of an ended or never prepared
\* action; ids are random, so their order is any.
Unswept(id) ==
    \/ action[id].state = "unprepared"
    \/ action[id].state \in Closed /\ action[id].saved # {}

Sweep(id) ==
    /\ At("scan") /\ Unswept(id) /\ id \notin temp
    /\ plan' = IF action[id].state = "unprepared" THEN Discard(id) ELSE Purge(id)
    /\ Enter("scan") /\ new' = new

\* A directory that recover does not know what to do with.
Unclear == \E id \in InState(States \ {"none"}) :
              IF action[id].state = "unprepared" THEN id \in temp ELSE ~Readable(id)

Swept == At("scan") /\ ~Unclear /\ \A id \in Ids : ~Unswept(id)

NothingPending == Swept /\ Pending = {} /\ plan' = <<>> /\ Enter("settle") /\ new' = new

\* Mutant of FinishPlan: a commit half of whose targets are written goes on.
FinishPlanForward(id) ==
    IF action[id].state = "prepared" THEN IF ~Before(id) THEN Forward(id) ELSE Abort(id)
    ELSE Undo(id)

\* finish_prepared and finish_undo.
FinishPlan(id) ==
    IF action[id].state = "prepared" THEN IF After(id) THEN Forward(id) ELSE Abort(id)
    ELSE Undo(id)

\* Mutant of Recognised: what the targets hold is not looked at.
RecognisedAny(id) == TRUE

Recognised(id) == Known(id)

FinishPending(id) ==
    /\ Swept /\ Pending = {id} /\ Recognised(id)
    /\ plan' = FinishPlan(id)
    /\ Enter("settle") /\ new' = new

\* The same of HEAD and its parent.
HeadUnclear ==
    /\ head # NoId
    /\ \/ ~Readable(head) \/ action[head].state # "committed"
       \/ action[head].parent # NoId /\ ~Readable(action[head].parent)

\* recover, second part: HEAD must be committed; its commit is recorded and
\* its parent superseded.
Settle ==
    /\ At("settle") /\ ~HeadUnclear
    /\ plan' = IF head = NoId THEN <<>>
               ELSE <<Write("event", head, "commit")>>
                        \o IF action[head].parent = NoId THEN <<>> ELSE Supersede(action[head].parent)
    /\ Enter("operate") /\ new' = new

\* Whatever recovery cannot make sense of ends the operation, with everything
\* left as it is.
Stuck ==
    \/ At("scan") /\ Unclear
    \/ Swept /\ (Cardinality(Pending) > 1 \/ \E id \in Pending : ~Recognised(id))
    \/ At("settle") /\ HeadUnclear

Refuse == Stuck /\ Ends("refused")

\* commit, when the transform returns what it was given.
Unchanged == At("operate") /\ Ends("ok")

\* The transform of every caller replaces the contents of a target or leaves
\* it alone; none removes one.
Transformed == {f \in Contents \ {file} : \A t \in Targets : f[t] \in Values \cup {file[t]}}

Commit(id) ==
    /\ At("operate") /\ action[id].state = "none"
    /\ new' \in Transformed
    /\ plan' = CommitPlan(id)
    /\ Enter("finish")

\* rollback: the head only, and only while nothing else has changed a target.
Rollback(id) ==
    /\ At("operate") /\ head = id /\ After(id)
    /\ plan' = <<Write("manifest", id, "undoing")>> \o Undo(id)
    /\ Enter("finish") /\ new' = new

RollbackAgain(id) ==
    /\ At("operate") /\ head = NoId /\ action[id].state = "rolled_back" /\ Readable(id)
    /\ Ends("ok")

RejectRollback(id) ==
    /\ At("operate")
    /\ \/ head = NoId /\ ~(action[id].state = "rolled_back" /\ Readable(id))
       \/ head \notin {NoId, id}
       \/ head = id /\ ~After(id)
    /\ Ends("rejected")

Finish == At("finish") /\ Ends("ok")

\* The process dies or a write fails: what was planned is forgotten.  A write
\* into an action directory that is cut short leaves its temporary file there.
Interrupt ==
    /\ phase # "idle"
    /\ phase' = "idle" /\ new' = Blank /\ plan' = <<>> /\ outcome' = "interrupted"
    /\ temp' \in {temp} \cup (IF Leftovers /\ (Doing("preimage") \/ Doing("manifest"))
                              THEN {temp \cup {W.id}} ELSE {})
    /\ UNCHANGED <<file, action, head, ledger, edits>>

\* Someone writes a target by hand while no process holds the lock.
Edit(t) ==
    /\ phase = "idle" /\ edits < MaxEdits
    /\ file' = [file EXCEPT ![t] = Foreign]
    /\ edits' = edits + 1
    /\ UNCHANGED <<action, temp, head, ledger, phase, new, plan, outcome>>

Perform ==
    \/ MakeDirectory \/ SavePreimage \/ WriteManifest \/ WriteTarget \/ Verify
    \/ WriteHead \/ RecordEvent \/ PurgePreimage \/ RemoveDirectory

Recover ==
    \/ \E id \in Ids : Sweep(id) \/ FinishPending(id)
    \/ NothingPending \/ Settle \/ Refuse

Operate ==
    \/ \E id \in Ids : Commit(id) \/ Rollback(id) \/ RollbackAgain(id) \/ RejectRollback(id)
    \/ Unchanged \/ Finish

Next ==
    \/ Begin \/ Recover \/ Operate \/ Perform \/ Interrupt
    \/ \E t \in Targets : Edit(t)

Spec == Init /\ [][Next]_vars

-----------------------------------------------------------------------------
(* Properties.                                                             *)

\* The type of the state.
MemoryTypeOK ==
    /\ file \in Contents /\ action \in [Ids -> Actions]
    /\ temp \subseteq Ids /\ head \in Ids \cup {NoId} /\ ledger \subseteq Ids \X Events
    /\ phase \in {"idle", "scan", "settle", "operate", "finish"}
    /\ new \in Contents /\ edits \in 0..MaxEdits
    /\ outcome \in {"none", "ok", "refused", "rejected", "interrupted"}
    /\ \A i \in DOMAIN plan : plan[i].id \in Ids \cup {NoId}

\* Wherever an operation is cut short, every action that recovery or a rollback
\* may have to restore still has all its pre-images, and HEAD never names an
\* action without them.
PreimagesKept ==
    /\ \A id \in InState(Live) : Bodies(id) \subseteq action[id].saved
    /\ head # NoId => action[head].state \in Live \cup {"rolled_back"}

\* The ledger tells what happened to each action: none is recorded as
\* committed and as aborted, and no ending is reached that is not in it.
LedgerTruthful ==
    \A id \in Ids :
        /\ <<id, "commit">> \in ledger => action[id].state \in {"committed", "undoing", "rolled_back", "superseded"}
        /\ action[id].state = "aborted" => <<id, "abort">> \in ledger
        /\ action[id].state = "rolled_back" => {<<id, "commit">>, <<id, "rollback">>} \subseteq ledger
        /\ action[id].state = "superseded" => {<<id, "commit">>, <<id, "supersede">>} \subseteq ledger

\* Two interrupted actions never meet, so recovery always knows which one to
\* finish.
OneIncomplete == Cardinality(Pending) <= 1

\* After an operation that went through, at most one action keeps old contents
\* of the memory on disk.
BodiesBounded ==
    phase = "idle" /\ outcome = "ok" =>
        Cardinality({id \in Ids : action[id].saved # {}}) <= 1

\* Recovery gives up for two reasons only: a temporary file in an action's
\* directory, or targets someone else has changed.
RefusalExplained ==
    outcome = "refused" => temp # {} \/ \E id \in Pending : ~Known(id)

\* All of these, after any number of interruptions.
UndoSound == PreimagesKept /\ LedgerTruthful /\ OneIncomplete /\ BodiesBounded /\ RefusalExplained

\* No write of an operation or of recovery destroys contents that are in
\* neither image of the action it belongs to.
EditsNotOverwritten ==
    [][ edits' = edits /\ file' # file => \E id \in Pending : Known(id) ]_vars

\* What the callers see is a store with a single undo, whatever is interrupted
\* when: a commit happens when HEAD is written, a rollback when its manifest is.
PastHead(id) == head = id /\ action[id].state \in {"prepared", "committed"}
StoreValue ==
    IF \E id \in Pending : Known(id) /\ ~PastHead(id)
    THEN action[CHOOSE id \in Pending : ~PastHead(id)].before ELSE file
StoreUndo == {[from |-> action[id].before, to |-> action[id].after] : id \in {i \in Ids : PastHead(i)}}

Store == INSTANCE UndoableStore WITH value <- StoreValue, undo <- StoreUndo, edits <- edits

ImplementsUndoableStore == Store!Spec

-----------------------------------------------------------------------------
(* A statement of the documentation that the code does not keep.           *)

\* memory.md: a crash during the prepared stage is recovered.  So as long as
\* nobody else touches the files, recovery never refuses a prepared action.
PreparedRecovered == edits = 0 /\ outcome = "refused" => InState({"prepared"}) = {}

=============================================================================
