------------------------------- MODULE ToolRun -------------------------------
(***************************************************************************)
(* One tool call on the host backend: Runner::run of tools/runner.rs and   *)
(* the supervisor process of tools/supervisor.rs it starts.                *)
(*                                                                         *)
(* The supervisor is a subreaper: whatever the tool forks, and abandons,   *)
(* becomes its child in the end.  The runner ends a call by asking the     *)
(* supervisor to stop, and kills it when it does not.  Danso itself may    *)
(* die at any moment; a process may be stuck in the kernel, where SIGKILL  *)
(* does not reach it.                                                      *)
(***************************************************************************)
EXTENDS Integers, FiniteSets

CONSTANTS
    Worker,      \* the tool's own process
    Descendants, \* the processes it may fork
    Supervisor, Init1, \* the supervisor, and process 1, as parents
    MaxStuck     \* bound of the processes that get stuck

Tree == {Worker} \cup Descendants

ASSUME ToolAssumption ==
    /\ Worker \notin Descendants /\ Supervisor \notin Tree /\ Init1 \notin Tree
    /\ Supervisor # Init1 /\ MaxStuck \in Nat

VARIABLES
    proc,     \* of each process of the tree: "none", "alive", "stuck", "zombie", "gone"
    parent,
    sup,      \* the supervisor: "none", "young", "handling", "ready", "watching",
              \* "listing", "killing", "reaping", "ended" or "killed"
    stop,     \* its STOP flag
    listed,   \* the children it has read from /proc
    runner,   \* "idle", "working", "reaping", "returned", or danso is "dead"
    result,   \* what the call returned
    stucks    \* the number of processes that got stuck

toolVars == <<proc, parent, sup, stop, listed, runner, result, stucks>>

Running(p) == proc[p] \in {"alive", "stuck"}
Children(q) == {p \in Tree : proc[p] \in {"alive", "stuck", "zombie"} /\ parent[p] = q}
SupRuns == sup \notin {"none", "ended", "killed"}


ToolInit ==
    /\ proc = [p \in Tree |-> "none"] /\ parent = [p \in Tree |-> Supervisor]
    /\ sup = "none" /\ stop = FALSE /\ listed = {}
    /\ runner = "idle" /\ result = "none" /\ stucks = 0

-----------------------------------------------------------------------------
(* Processes.                                                              *)

\* Those of ps are dead: their children go to the nearest subreaper, which is
\* the supervisor while it runs.
Heir == IF SupRuns THEN Supervisor ELSE Init1
Die(ps) ==
    /\ proc' = [p \in Tree |-> IF p \in ps /\ proc[p] = "alive" THEN "zombie" ELSE proc[p]]
    /\ parent' = [p \in Tree |-> IF parent[p] \in ps /\ proc[parent[p]] = "alive"
                                 THEN Heir ELSE parent[p]]

Exit(p) ==
    /\ proc[p] = "alive" /\ Die({p})
    /\ UNCHANGED <<sup, stop, listed, runner, result, stucks>>

Fork(p) ==
    /\ proc[p] = "alive"
    /\ \E c \in Descendants :
          /\ proc[c] = "none"
          /\ proc' = [proc EXCEPT ![c] = "alive"] /\ parent' = [parent EXCEPT ![c] = p]
    /\ UNCHANGED <<sup, stop, listed, runner, result, stucks>>

Stick(p) ==
    /\ stucks < MaxStuck /\ proc[p] = "alive"
    /\ proc' = [proc EXCEPT ![p] = "stuck"] /\ stucks' = stucks + 1
    /\ UNCHANGED <<parent, sup, stop, listed, runner, result>>

Unstick(p) ==
    /\ proc[p] = "stuck" /\ proc' = [proc EXCEPT ![p] = "alive"]
    /\ UNCHANGED <<parent, sup, stop, listed, runner, result, stucks>>

-----------------------------------------------------------------------------
(* The supervisor.                                                         *)

\* SIGTERM ends a supervisor that has no handler yet, and sets STOP later.
Terminate ==
    /\ sup' = IF sup = "young" THEN "ended" ELSE sup
    /\ stop' = (stop \/ sup \notin {"young", "none"})

InstallHandlers ==
    /\ sup = "young" /\ sup' = "handling"
    /\ UNCHANGED <<proc, parent, stop, listed, runner, result, stucks>>

\* Mutant of ParentGone: the parent is not asked for.
ParentGoneUnseen == FALSE

\* Whether the parent died before its death would be signalled.
ParentGone == runner = "dead"

\* Subreaper and parent-death signal, then that question.
Arm ==
    /\ sup = "handling"
    /\ sup' = IF ParentGone \/ stop THEN "ended" ELSE "ready"
    /\ UNCHANGED <<proc, parent, stop, listed, runner, result, stucks>>

SpawnWorker ==
    /\ sup = "ready" /\ sup' = "watching"
    /\ proc' = [proc EXCEPT ![Worker] = "alive"]
    /\ UNCHANGED <<parent, stop, listed, runner, result, stucks>>

\* The loop ends with STOP, or when the worker has ended: it is reaped.
WorkerEnded ==
    /\ sup = "watching" /\ (stop \/ proc[Worker] = "zombie")
    /\ sup' = "listing"
    /\ proc' = IF ~stop THEN [proc EXCEPT ![Worker] = "gone"] ELSE proc
    /\ UNCHANGED <<parent, stop, listed, runner, result, stucks>>

ListChildren ==
    /\ sup = "listing" /\ sup' = "killing" /\ listed' = Children(Supervisor)
    /\ UNCHANGED <<proc, parent, stop, runner, result, stucks>>

KillListed ==
    /\ sup = "killing" /\ sup' = "reaping" /\ Die(listed)
    /\ listed' = {}
    /\ UNCHANGED <<stop, runner, result, stucks>>

\* Mutant of Exhausted: one round of signals is taken to be enough.
ExhaustedAtOnce == TRUE

\* What waitpid finds: ECHILD once every child was a zombie and is reaped.
Exhausted == \A p \in Children(Supervisor) : proc[p] = "zombie"

Reap ==
    /\ sup = "reaping"
    /\ proc' = [p \in Tree |-> IF p \in Children(Supervisor) /\ proc[p] = "zombie"
                               THEN "gone" ELSE proc[p]]
    /\ sup' = IF Exhausted THEN "ended" ELSE "listing"
    /\ UNCHANGED <<parent, stop, listed, runner, result, stucks>>

\* The supervisor is killed: its children go to process 1.
Orphan ==
    /\ sup' = "killed"
    /\ parent' = [p \in Tree |-> IF parent[p] = Supervisor THEN Init1 ELSE parent[p]]

-----------------------------------------------------------------------------
(* The runner.                                                             *)

Launch ==
    /\ runner = "idle" /\ runner' = "working" /\ sup' = "young"
    /\ UNCHANGED <<proc, parent, stop, listed, result, stucks>>

\* No pidfd can be had for the new child: it is killed at once.
GuardFails ==
    /\ runner = "working" /\ sup = "young" /\ Orphan
    /\ runner' = "returned" /\ result' = "failed"
    /\ UNCHANGED <<proc, stop, listed, stucks>>

\* Both outputs are at their end, which no process that inherited them keeps
\* open, and the supervisor has exited.
OutputsClosed == ~SupRuns /\ \A p \in Tree : ~Running(p)

Completed ==
    /\ runner = "working" /\ sup \in {"ended", "killed"} /\ OutputsClosed
    /\ runner' = "returned" /\ result' = "done"
    /\ UNCHANGED <<proc, parent, sup, stop, listed, stucks>>

\* The time is up, or the output too long: reap_host asks first ...
CutShort ==
    /\ runner = "working" /\ runner' = "reaping" /\ Terminate
    /\ UNCHANGED <<proc, parent, listed, result, stucks>>

Settled ==
    /\ runner = "reaping" /\ ~SupRuns
    /\ runner' = "returned" /\ result' = "failed"
    /\ UNCHANGED <<proc, parent, sup, stop, listed, stucks>>

\* ... and kills after REAP_GRACE, which the supervisor cannot refuse.
GraceOver ==
    /\ runner = "reaping" /\ SupRuns /\ Orphan
    /\ UNCHANGED <<proc, stop, listed, runner, result, stucks>>

\* The run is cancelled: the guard's Drop asks and nobody waits.
Cancel ==
    /\ runner = "working" /\ runner' = "returned" /\ result' = "failed" /\ Terminate
    /\ UNCHANGED <<proc, parent, listed, stucks>>

\* Danso dies.  A supervisor that has armed the parent-death signal is told.
DansoDies ==
    /\ runner \in {"working", "reaping"} /\ runner' = "dead"
    /\ stop' = (stop \/ sup \notin {"young", "handling", "none"})
    /\ UNCHANGED <<proc, parent, sup, listed, result, stucks>>

-----------------------------------------------------------------------------

Supervise == InstallHandlers \/ Arm \/ SpawnWorker \/ WorkerEnded \/ ListChildren \/ KillListed \/ Reap
Await     == Completed \/ CutShort \/ Settled
ToolNext ==
    \/ \E p \in Tree : Exit(p) \/ Fork(p) \/ Stick(p) \/ Unstick(p)
    \/ Supervise \/ Await \/ Launch \/ GuardFails \/ GraceOver \/ Cancel \/ DansoDies

\* The supervisor and the runner's two clocks go on; a tool need not end, and
\* nothing brings back a process that is stuck.
ToolFairness == WF_toolVars(Supervise) /\ WF_toolVars(Await) /\ WF_toolVars(GraceOver)

-----------------------------------------------------------------------------

Stopped(p) == proc[p] \in {"none", "zombie", "gone"}

\* A supervisor that ends by itself leaves nothing behind, though what it kills
\* may fork until it dies and whoever is abandoned comes to it only then.
NoSurvivor == sup = "ended" => \A p \in Tree : Stopped(p)

\* A call that is waited for returns, whatever the tool does: forks that outlive
\* it and hold its outputs, or processes that no signal reaches.  And however a
\* call ends, danso's death at any moment included, the tool's processes end
\* too, unless one is stuck or the supervisor had to be killed.
ToolEnds ==
    /\ runner = "working" ~> runner \in {"returned", "dead"}
    /\ runner \in {"returned", "dead"} ~>
           (\A p \in Tree : Stopped(p)) \/ stucks > 0 \/ sup = "killed"
=============================================================================
