--------------------------- MODULE RestartHandoff ---------------------------
(* Restarting the service's own unit through somebody else                   *)
(* (crates/danso-ops/src/handoff.rs; src/service.rs restart, restart_worker,  *)
(* acknowledge_restart): a scheduler leaves a receipt and asks systemd for a  *)
(* delayed transient unit; the worker in that unit restarts the service,      *)
(* proves that another process serves and writes the result down; a reader    *)
(* files the result away. The receipt is the only mutex: it is read in one    *)
(* step and written in another.                                               *)
(*                                                                            *)
(* systemd, the unit and its health document are the environment: a call to   *)
(* systemd may fail, hang, or report a restart that replaced nothing.         *)
EXTENDS Naturals, FiniteSets

CONSTANTS
  Requests,      \* request ids, one per call of schedule
  NoReceipt,
  Delay,         \* --on-active, in ticks
  RunTimeout,    \* SCHEDULE_TIMEOUT
  HealthWait,    \* HEALTH_DEADLINE_SECONDS
  TimeToLive,    \* ACTIVE_TTL_SECONDS
  Overlap,       \* whether two schedulers may run at the same time
  MaxClock,      \* bound on the clock
  MaxPids,       \* bound on the processes the unit has had
  MaxFaults      \* bound on failed calls, dead workers, replays

ASSUME HandoffTimes ==
  /\ {Delay, RunTimeout, HealthWait, TimeToLive, MaxClock, MaxPids, MaxFaults}
       \subseteq Nat
  /\ Overlap \in BOOLEAN
  /\ NoReceipt \notin Requests
  /\ NoReceipt \notin
       [id : Requests, state : {"prepared", "armed", "completed", "failed"},
        previous : Nat, created : Nat, new : Nat]

VARIABLES
  receipt,       \* restart-handoff.json
  archived,      \* the requests restart-handoff.last.json has held
  asker,         \* the scheduler of each request
  timer,         \* when the transient unit of a request was armed
  worker,        \* the worker of each request
  reader,        \* the request a reader has seen finished
  unit,          \* the service: its main pid, 0 when it has none
  now,
  used           \* [pids, faults] used up, [restarted] by whom

handoffVars ==
  <<receipt, archived, asker, timer, worker, reader, unit, now, used>>

Pids == 0 .. MaxPids
Ticks == 0 .. MaxClock
NoPid == 0
Unarmed == MaxClock + 1

Receipt(id, state, previous, created) ==
  [id |-> id, state |-> state, previous |-> previous, created |-> created,
   new |-> NoPid]
IsTerminal(state) == state \in {"completed", "failed"}

HandoffTypeOK ==
  /\ receipt \in {NoReceipt} \cup
       [id : Requests, state : {"prepared", "armed", "completed", "failed"},
        previous : Pids, created : Ticks, new : Pids]
  /\ archived \subseteq Requests
  /\ asker \in [Requests ->
       [pc : {"idle", "checked", "running", "done"}, created : Ticks, at : Ticks,
        told : {"nothing", "refused", "scheduled", "rejected"}]]
  /\ timer \in [Requests -> Ticks \cup {Unarmed}]
  /\ worker \in [Requests ->
       [pc : {"none", "start", "taking", "armed", "proving", "finishing",
              "writing", "done"},
        previous : Pids, created : Ticks, deadline : Nat,
        result : {"none", "completed", "failed"}, new : Pids]]
  /\ reader \in Requests \cup {NoReceipt}
  /\ unit \in Pids
  /\ now \in Ticks

NoWorker == [pc |-> "none", previous |-> NoPid, created |-> 0, deadline |-> 0,
             result |-> "none", new |-> NoPid]

HandoffInit ==
  /\ receipt = NoReceipt /\ archived = {} /\ reader = NoReceipt
  /\ asker = [id \in Requests |->
       [pc |-> "idle", created |-> 0, at |-> 0, told |-> "nothing"]]
  /\ timer = [id \in Requests |-> Unarmed]
  /\ worker = [id \in Requests |-> NoWorker]
  /\ unit = 1
  /\ now = 0
  /\ used = [pids |-> 1, faults |-> 0, restarted |-> [id \in Requests |-> 0]]

MayFault == used.faults < MaxFaults
Faulted == used' = [used EXCEPT !.faults = @ + 1]

-----------------------------------------------------------------------------
(* schedule                                                                  *)

Tell(id, told) == asker' = [asker EXCEPT ![id].pc = "done", ![id].told = told]

(* Mutant of Blocks: a request whose worker has begun holds no door.         *)
BlocksPrepared(current) ==
  \/ IsTerminal(current.state)
  \/ current.state = "prepared" /\ now - current.created < TimeToLive
(* A result nobody has read, or a request younger than its time to live.     *)
Blocks(current) ==
  \/ IsTerminal(current.state)
  \/ now - current.created < TimeToLive

MayBegin(id) ==
  /\ asker[id].pc = "idle"
  /\ Overlap \/ \A other \in Requests : asker[other].pc \in {"idle", "done"}

RefuseRequest(id) ==
  /\ MayBegin(id)
  /\ receipt /= NoReceipt /\ Blocks(receipt)
  /\ Tell(id, "refused")
  /\ UNCHANGED <<receipt, archived, timer, worker, reader, unit, now,
                 used>>

CheckReceipt(id) ==
  /\ MayBegin(id)
  /\ receipt /= NoReceipt => ~Blocks(receipt)
  /\ asker' = [asker EXCEPT ![id].pc = "checked", ![id].created = now]
  /\ UNCHANGED <<receipt, archived, timer, worker, reader, unit, now,
                 used>>

(* The receipt goes first; systemd-run is started after it.                  *)
WriteReceipt(id) ==
  /\ asker[id].pc = "checked"
  /\ receipt' = Receipt(id, "prepared", NoPid, asker[id].created)
  /\ asker' = [asker EXCEPT ![id].pc = "running", ![id].at = now]
  /\ UNCHANGED <<archived, timer, worker, reader, unit, now, used>>

WriteReceiptFails(id) ==
  /\ asker[id].pc = "checked" /\ MayFault /\ Faulted
  /\ Tell(id, "refused")
  /\ UNCHANGED <<receipt, archived, timer, worker, reader, unit, now>>

(* systemd arms the timer of the transient unit.                             *)
ArmTimer(id) ==
  /\ asker[id].pc = "running" /\ timer[id] = Unarmed
  /\ timer' = [timer EXCEPT ![id] = now]
  /\ UNCHANGED <<receipt, archived, asker, worker, reader, unit, now,
                 used>>

ReportScheduled(id) ==
  /\ asker[id].pc = "running" /\ timer[id] /= Unarmed
  /\ Tell(id, "scheduled")
  /\ UNCHANGED <<receipt, archived, timer, worker, reader, unit, now,
                 used>>

(* systemd-run is missing, refuses, or stays longer than its budget, when it *)
(* may have armed the timer: the receipt is removed, whosever it is.          *)
ReportRejected(id) ==
  /\ asker[id].pc = "running"
  /\ \/ timer[id] = Unarmed /\ MayFault /\ Faulted
     \/ now >= asker[id].at + RunTimeout /\ UNCHANGED used
  /\ receipt' = NoReceipt
  /\ Tell(id, "rejected")
  /\ UNCHANGED <<archived, timer, worker, reader, unit, now>>

-----------------------------------------------------------------------------
(* run_worker                                                                *)

Step(id, pc) == worker' = [worker EXCEPT ![id].pc = pc]

Fire(id) ==
  /\ timer[id] /= Unarmed /\ worker[id].pc = "none"
  /\ now >= timer[id] + Delay
  /\ Step(id, "start")
  /\ UNCHANGED <<receipt, archived, asker, timer, reader, unit, now,
                 used>>

(* A timer that fires twice, or a worker run again by hand.                  *)
FireAgain(id) ==
  /\ worker[id].pc = "done" /\ MayFault /\ Faulted
  /\ worker' = [worker EXCEPT ![id] = [NoWorker EXCEPT !.pc = "start"]]
  /\ UNCHANGED <<receipt, archived, asker, timer, reader, unit, now>>

(* Mutant of IsMine: the state of the receipt is not looked at.              *)
IsMineAnyState(id) == receipt /= NoReceipt /\ receipt.id = id
(* The request this worker was created for, not yet taken.                   *)
IsMine(id) ==
  /\ receipt /= NoReceipt
  /\ receipt.id = id
  /\ receipt.state = "prepared"

NotMine(id) ==
  /\ worker[id].pc = "start" /\ ~IsMine(id)
  /\ Step(id, "done")
  /\ UNCHANGED <<receipt, archived, asker, timer, reader, unit, now,
                 used>>

(* The main pid before the restart is what the replacement must differ from; *)
(* systemd may not say, or there may be none.                                 *)
TakeRequest(id) ==
  /\ worker[id].pc = "start" /\ IsMine(id)
  /\ \E previous \in {unit, NoPid} :
       /\ IF previous = unit THEN UNCHANGED used ELSE MayFault /\ Faulted
       /\ worker' = [worker EXCEPT ![id].pc = "taking",
                                   ![id].previous = previous,
                                   ![id].created = receipt.created]
  /\ UNCHANGED <<receipt, archived, asker, timer, reader, unit, now>>

ArmRequest(id) ==
  /\ worker[id].pc = "taking"
  /\ receipt' = Receipt(id, "armed", worker[id].previous, worker[id].created)
  /\ Step(id, "armed")
  /\ UNCHANGED <<archived, asker, timer, reader, unit, now, used>>

Conclude(id, result, new) ==
  worker' = [worker EXCEPT ![id].pc = "finishing", ![id].result = result,
                           ![id].new = new]

(* No systemctl, an unusable unit name, a receipt that cannot be written.    *)
GiveUp(id) ==
  /\ worker[id].pc = "taking" /\ MayFault /\ Faulted
  /\ Conclude(id, "failed", NoPid)
  /\ UNCHANGED <<receipt, archived, asker, timer, reader, unit, now>>

(* systemctl restart: a new process, the same one again (a success that      *)
(* replaced nothing), or a failure that leaves the unit down.                 *)
RestartUnit(id) ==
  /\ worker[id].pc = "armed" /\ used.pids < MaxPids
  /\ unit' = used.pids + 1
  /\ used' = [used EXCEPT !.pids = @ + 1, !.restarted[id] = @ + 1]
  /\ worker' = [worker EXCEPT ![id].pc = "proving",
                              ![id].deadline = now + HealthWait]
  /\ UNCHANGED <<receipt, archived, asker, timer, reader, now>>

RestartReplacesNothing(id) ==
  /\ worker[id].pc = "armed" /\ MayFault
  /\ used' = [used EXCEPT !.faults = @ + 1, !.restarted[id] = @ + 1]
  /\ worker' = [worker EXCEPT ![id].pc = "proving",
                              ![id].deadline = now + HealthWait]
  /\ UNCHANGED <<receipt, archived, asker, timer, reader, unit, now>>

RestartFails(id) ==
  /\ worker[id].pc = "armed" /\ MayFault
  /\ used' = [used EXCEPT !.faults = @ + 1, !.restarted[id] = @ + 1]
  /\ unit' = NoPid
  /\ Conclude(id, "failed", NoPid)
  /\ UNCHANGED <<receipt, archived, asker, timer, reader, now>>

(* What the health document may hold: the last word of any process the unit   *)
(* has had, of any time.                                                       *)
Documents == [pid : 1 .. used.pids, at : 0 .. now, available : BOOLEAN]

(* serving_pid: the unit has a main process, another one than before, whose  *)
(* own health document says available and postdates the request, but for one  *)
(* second of slack.                                                            *)
Proven(id, document) ==
  /\ unit /= NoPid /\ unit /= worker[id].previous
  /\ document.available /\ document.at + 1 >= worker[id].created
  /\ document.pid = unit

ProveServing(id) ==
  /\ worker[id].pc = "proving" /\ now < worker[id].deadline
  /\ \E document \in Documents : Proven(id, document)
  /\ Conclude(id, "completed", unit)
  /\ UNCHANGED <<receipt, archived, asker, timer, reader, unit, now,
                 used>>

HealthTimeout(id) ==
  /\ worker[id].pc = "proving" /\ now >= worker[id].deadline
  /\ Conclude(id, "failed", NoPid)
  /\ UNCHANGED <<receipt, archived, asker, timer, reader, unit, now,
                 used>>

(* finish: the result is written only over the worker's own request.         *)
FinishRead(id) ==
  /\ worker[id].pc = "finishing"
  /\ Step(id, IF receipt /= NoReceipt /\ receipt.id = id THEN "writing" ELSE "done")
  /\ UNCHANGED <<receipt, archived, asker, timer, reader, unit, now,
                 used>>

FinishWrite(id) ==
  /\ worker[id].pc = "writing"
  /\ receipt' = [Receipt(id, worker[id].result, worker[id].previous,
                         worker[id].created) EXCEPT !.new = worker[id].new]
  /\ Step(id, "done")
  /\ UNCHANGED <<archived, asker, timer, reader, unit, now, used>>

WorkerDies(id) ==
  /\ worker[id].pc \notin {"none", "done"} /\ MayFault /\ Faulted
  /\ Step(id, "done")
  /\ UNCHANGED <<receipt, archived, asker, timer, reader, unit, now>>

-----------------------------------------------------------------------------
(* restart-status --acknowledge: archive_receipt reads, then renames         *)

SeeResult ==
  /\ reader = NoReceipt /\ receipt /= NoReceipt /\ IsTerminal(receipt.state)
  /\ reader' = receipt.id
  /\ UNCHANGED <<receipt, archived, asker, timer, worker, unit, now,
                 used>>

Archive ==
  /\ reader /= NoReceipt
  /\ receipt' = NoReceipt
  /\ archived' = IF receipt = NoReceipt THEN archived
                 ELSE archived \cup {receipt.id}
  /\ reader' = NoReceipt
  /\ UNCHANGED <<asker, timer, worker, unit, now, used>>

-----------------------------------------------------------------------------
(* The unit by itself: it dies and systemd starts it again.                   *)

UnitReplaced ==
  /\ used.pids < MaxPids
  /\ unit' = used.pids + 1
  /\ used' = [used EXCEPT !.pids = @ + 1]
  /\ UNCHANGED <<receipt, archived, asker, timer, worker, reader, now>>

Pass ==
  /\ now < MaxClock
  /\ now' = now + 1
  /\ UNCHANGED <<receipt, archived, asker, timer, worker, reader, unit,
                 used>>

HandoffNext ==
  \/ \E id \in Requests :
       \/ RefuseRequest(id) \/ CheckReceipt(id) \/ WriteReceipt(id)
       \/ WriteReceiptFails(id) \/ ArmTimer(id) \/ ReportScheduled(id)
       \/ ReportRejected(id)
       \/ Fire(id) \/ FireAgain(id) \/ NotMine(id) \/ TakeRequest(id)
       \/ ArmRequest(id) \/ GiveUp(id) \/ RestartUnit(id)
       \/ RestartReplacesNothing(id) \/ RestartFails(id) \/ ProveServing(id)
       \/ HealthTimeout(id) \/ FinishRead(id) \/ FinishWrite(id) \/ WorkerDies(id)
  \/ SeeResult \/ Archive \/ UnitReplaced \/ Pass

HandoffSpec == HandoffInit /\ [][HandoffNext]_handoffVars

-----------------------------------------------------------------------------
(* Properties                                                                *)

(* One request restarts the unit at most once, whatever fires twice, dies in  *)
(* the middle or is run again.                                                *)
RestartOnce == \A id \in Requests : used.restarted[id] <= 1

(* A result says completed only when the process it names is another one than *)
(* the unit had when the worker began, though systemd may have reported a      *)
(* restart that replaced nothing and the unit may have died in between.        *)
CompletedIsReplaced ==
  (receipt /= NoReceipt /\ receipt.state = "completed")
  => receipt.new /= NoPid /\ receipt.new /= receipt.previous

(* Both: a result that can be believed, of a restart that happens once.       *)
RestartHonest == RestartOnce /\ CompletedIsReplaced

Restarting(id) == worker[id].pc \in {"armed", "proving"}

(* The request has put down a receipt.                                        *)
Wrote(id) == asker[id].pc = "running" \/ asker[id].told \in {"scheduled", "rejected"}

(* A receipt that no longer keeps others out at t: it was withdrawn by a        *)
(* scheduler that gave up, or its time to live is over.                         *)
Lapsed(id, t) ==
  Wrote(id) /\ (asker[id].told = "rejected" \/ t >= asker[id].created + TimeToLive)

(* Two workers restart the unit at the same time only when the second request *)
(* took the first one over after its time to live, or the first one was        *)
(* reported as rejected while its worker already had it, or either happened to *)
(* a third request, whose worker may then write over any receipt.              *)
DoorHeld ==
  \A a, b \in Requests :
    a /= b /\ Restarting(a) /\ Restarting(b)
    => \/ Lapsed(a, asker[b].created) \/ Lapsed(b, asker[a].created)
       \/ \E c \in Requests \ {a, b} : Lapsed(c, now)

(* What a comment of schedule says of a systemd-run that timed out: the       *)
(* timer it may have armed finds no receipt and restarts nothing, so a request *)
(* that was reported as rejected never restarts the unit.                      *)
RejectedRestartsNothing ==
  \A id \in Requests : asker[id].told = "rejected" => used.restarted[id] = 0
=============================================================================
