----------------------------- MODULE ServiceLife -----------------------------
(* The life of `danso service run` on one state root (src/service.rs run,     *)
(* stop, supervise; crates/danso-ops/src/pidfile.rs, stop.rs, supervise.rs;    *)
(* telegram/lock.rs; the lock probe of status.rs): processes that take the     *)
(* pid file and then the token lock, a supervisor that starts one after        *)
(* another, a stop command that announces itself, signals, waits and kills,    *)
(* and a status command that holds the token lock for a moment.                *)
EXTENDS Naturals, Sequences, FiniteSets

CONSTANTS
  Procs,          \* processes of the service, in the order they are started
  NoProc,         \* no process
  Probe,          \* the status command as a holder of the token lock
  RapidLimit,     \* RAPID_CRASH_LIMIT
  RapidWindow,    \* RAPID_WINDOW, in ticks
  Grace,          \* --grace-secs
  Overlapping,    \* whether a process may start while another still is starting
  MaxTime,        \* bound on the clock
  MaxByHand,      \* bound on processes started without the supervisor
  MaxStops,       \* bound on stop commands
  MaxProbes,      \* bound on status commands
  MaxDeaths       \* bound on crashes, of a process or of the stop command

ASSUME ServiceBounds ==
  /\ {Grace, MaxTime, MaxByHand, MaxStops, MaxProbes, MaxDeaths} \subseteq Nat
  /\ {RapidLimit, RapidWindow} \subseteq Nat \ {0}
  /\ Overlapping \in BOOLEAN
  /\ NoProc \notin Procs /\ Probe \notin Procs \cup {NoProc}

VARIABLES
  phase,       \* where each process is
  how,         \* how it ended
  pidFile,     \* service.pid: who created it and whether it is written
  tokenLock,   \* the holder of the kernel lock
  supervisor,  \* [pc, child, recent]
  marker,      \* stopping.json: the process being stopped
  stopper,     \* the stop command: [pc, target, deadline]
  time,
  spent,       \* [hand, stops, probes, deaths] used up
  crashes,     \* history: when the supervisor saw its children crash
  announced,   \* history: the processes a stop was ever announced for
  verdicts     \* history: what stop commands reported, [target, outcome]

serviceVars == <<phase, how, pidFile, tokenLock, supervisor, marker, stopper, time,
                 spent, crashes, announced, verdicts>>

NoFile == [by |-> NoProc, whole |-> FALSE]
Acquiring == {"starting", "found", "clearing", "again", "writing"}
Alive(p) == phase[p] \notin {"unborn", "zombie", "gone"}

ServiceInit ==
  /\ phase = [p \in Procs |-> "unborn"]
  /\ how = [p \in Procs |-> "none"]
  /\ pidFile = NoFile
  /\ tokenLock = NoProc
  /\ supervisor = [pc |-> "ready", child |-> NoProc, recent |-> <<>>]
  /\ marker = NoProc
  /\ stopper = [pc |-> "idle", target |-> NoProc, deadline |-> 0]
  /\ time = 0
  /\ spent = [hand |-> 0, stops |-> 0, probes |-> 0, deaths |-> 0]
  /\ crashes = <<>> /\ announced = {} /\ verdicts = {}

To(p, next) == phase' = [phase EXCEPT ![p] = next]
ProcessOnly == UNCHANGED <<supervisor, marker, stopper, time, spent, crashes,
                           announced, verdicts>>
(* The kernel drops the lock of a process that ends.                           *)
Ends(p, way) ==
  /\ phase' = [phase EXCEPT ![p] = "zombie"]
  /\ how' = [how EXCEPT ![p] = way]
  /\ tokenLock' = IF tokenLock = p THEN NoProc ELSE tokenLock

-----------------------------------------------------------------------------
(* service run: PidFile::acquire                                              *)

MayStart == Overlapping \/ \A p \in Procs : phase[p] \notin Acquiring
Unborn(p) == phase[p] = "unborn"

StartByHand(p) ==
  /\ Unborn(p) /\ MayStart /\ spent.hand < MaxByHand
  /\ To(p, "starting")
  /\ spent' = [spent EXCEPT !.hand = @ + 1]
  /\ UNCHANGED <<how, pidFile, tokenLock, supervisor, marker, stopper, time, crashes,
                 announced, verdicts>>

(* O_EXCL creates the file empty; the record is written into it afterwards.   *)
CreatePid(p) ==
  /\ phase[p] \in {"starting", "again"} /\ pidFile = NoFile
  /\ pidFile' = [by |-> p, whole |-> FALSE]
  /\ To(p, "writing")
  /\ ProcessOnly /\ UNCHANGED <<how, tokenLock>>

FindPid(p) ==
  /\ phase[p] = "starting" /\ pidFile /= NoFile
  /\ To(p, "found")
  /\ ProcessOnly /\ UNCHANGED <<how, pidFile, tokenLock>>

(* Into the file this process created, wherever its name now points.          *)
WritePid(p) ==
  /\ phase[p] = "writing"
  /\ pidFile' = IF pidFile.by = p THEN [pidFile EXCEPT !.whole = TRUE] ELSE pidFile
  /\ To(p, "tracked")
  /\ ProcessOnly /\ UNCHANGED <<how, tokenLock>>

(* Mutant of IsLive: a record that can be read is debris when its process has *)
(* not the token lock yet.                                                     *)
IsLiveWithLock(file) == file.whole /\ Alive(file.by) /\ tokenLock = file.by
(* A record that can be read and whose process lives; the empty file of a     *)
(* process still writing cannot be read and counts as debris.                  *)
IsLive(file) == file.whole /\ Alive(file.by)

RefuseSecond(p) ==
  /\ phase[p] = "found" /\ IsLive(pidFile)
  /\ Ends(p, "failed")
  /\ ProcessOnly /\ UNCHANGED pidFile

JudgeDebris(p) ==
  /\ phase[p] = "found" /\ ~IsLive(pidFile)
  /\ To(p, "clearing")
  /\ ProcessOnly /\ UNCHANGED <<how, pidFile, tokenLock>>

(* The name is removed, whatever it names by now.                             *)
ClearPid(p) ==
  /\ phase[p] = "clearing" /\ pidFile /= NoFile
  /\ pidFile' = NoFile
  /\ To(p, "again")
  /\ ProcessOnly /\ UNCHANGED <<how, tokenLock>>

ClearedUnderIt(p) ==
  /\ \/ phase[p] = "clearing" /\ pidFile = NoFile
     \/ phase[p] = "again" /\ pidFile /= NoFile
  /\ Ends(p, "failed")
  /\ ProcessOnly /\ UNCHANGED pidFile

(* TokenLock::acquire; without the lock the process gives its record back.    *)
TakeTokenLock(p) ==
  /\ phase[p] = "tracked" /\ tokenLock = NoProc
  /\ tokenLock' = p
  /\ To(p, "serving")
  /\ ProcessOnly /\ UNCHANGED <<how, pidFile>>

LockTaken(p) ==
  /\ phase[p] = "tracked" /\ tokenLock /= NoProc
  /\ To(p, "leaving") /\ how' = [how EXCEPT ![p] = "failed"]
  /\ ProcessOnly /\ UNCHANGED <<pidFile, tokenLock>>

(* The drain is over: the service is dropped, and the token lock with it.     *)
Drained(p) ==
  /\ phase[p] = "draining"
  /\ tokenLock' = IF tokenLock = p THEN NoProc ELSE tokenLock
  /\ To(p, "leaving") /\ how' = [how EXCEPT ![p] = "ok"]
  /\ ProcessOnly /\ UNCHANGED pidFile

(* PidFile::drop: reads, and removes a record that is still its own.          *)
LeaveRead(p) ==
  /\ phase[p] = "leaving"
  /\ IF pidFile = [by |-> p, whole |-> TRUE]
     THEN To(p, "removing") /\ UNCHANGED <<how, tokenLock>>
     ELSE Ends(p, how[p])
  /\ ProcessOnly /\ UNCHANGED pidFile

LeaveRemove(p) ==
  /\ phase[p] = "removing"
  /\ pidFile' = NoFile
  /\ Ends(p, how[p])
  /\ ProcessOnly

(* A panic, the OOM killer, a power cut of the process alone.                 *)
Dies(p) ==
  /\ Alive(p) /\ spent.deaths < MaxDeaths
  /\ Ends(p, "killed")
  /\ spent' = [spent EXCEPT !.deaths = @ + 1]
  /\ UNCHANGED <<pidFile, supervisor, marker, stopper, time, crashes, announced,
                 verdicts>>

-----------------------------------------------------------------------------
(* service run --supervise                                                    *)

SupervisorOnly == UNCHANGED <<pidFile, tokenLock, marker, stopper, time, spent,
                              announced, verdicts>>

Spawn(p) ==
  /\ supervisor.pc = "ready" /\ Unborn(p) /\ MayStart
  /\ To(p, "starting")
  /\ supervisor' = [supervisor EXCEPT !.pc = "waiting", !.child = p]
  /\ SupervisorOnly /\ UNCHANGED <<how, crashes>>

Reap ==
  /\ supervisor.pc = "waiting" /\ phase[supervisor.child] = "zombie"
  /\ To(supervisor.child, "gone")
  /\ supervisor' = [supervisor EXCEPT !.pc = "reaped"]
  /\ SupervisorOnly /\ UNCHANGED <<how, crashes>>

(* stop_in_progress: a marker that names this process and has not lapsed.      *)
StopInProgress(p) == marker = p
(* is_operator_stop: success, a stop announced, or a signal an operator sends. *)
OperatorStop(p) == how[p] \in {"ok", "terminated"} \/ StopInProgress(p)

SuperviseEnds ==
  /\ supervisor.pc = "reaped" /\ OperatorStop(supervisor.child)
  /\ supervisor' = [supervisor EXCEPT !.pc = "stopped"]
  /\ SupervisorOnly /\ UNCHANGED <<phase, how, crashes>>

(* Mutant of StillRecent: crashes before the last one are forgotten too soon. *)
StillRecentShort(at) == time - at < RapidWindow - 1
(* CrashPolicy::record: strictly younger than the window.                     *)
StillRecent(at) == time - at < RapidWindow
(* The list is in the order of time: what retain drops is its first n.         *)
CrashSeen ==
  /\ supervisor.pc = "reaped" /\ ~OperatorStop(supervisor.child)
  /\ \E n \in 0 .. Len(supervisor.recent) :
       /\ \A i \in DOMAIN supervisor.recent : StillRecent(supervisor.recent[i]) <=> i > n
       /\ LET kept == SubSeq(supervisor.recent, n + 1, Len(supervisor.recent))
              recent == Append(kept, time)
          IN supervisor' = [supervisor EXCEPT
               !.recent = recent,
               !.pc = IF Len(recent) >= RapidLimit THEN "gaveUp" ELSE "ready"]
  /\ crashes' = Append(crashes, time)
  /\ SupervisorOnly /\ UNCHANGED <<phase, how>>

-----------------------------------------------------------------------------
(* service stop                                                               *)

StopperOnly == UNCHANGED <<pidFile, supervisor, time, crashes>>
Report(outcome) ==
  /\ verdicts' = verdicts \cup {[target |-> stopper.target, outcome |-> outcome]}
  /\ stopper' = [pc |-> "idle", target |-> NoProc, deadline |-> 0]
  /\ marker' = NoProc

BeginStop ==
  /\ stopper.pc = "idle" /\ spent.stops < MaxStops
  /\ IsLive(pidFile)
  /\ stopper' = [stopper EXCEPT !.pc = "announcing", !.target = pidFile.by]
  /\ spent' = [spent EXCEPT !.stops = @ + 1]
  /\ StopperOnly
  /\ UNCHANGED <<phase, how, tokenLock, marker, announced, verdicts>>

Announce ==
  /\ stopper.pc = "announcing"
  /\ marker' = stopper.target
  /\ announced' = announced \cup {stopper.target}
  /\ stopper' = [stopper EXCEPT !.pc = "signalling"]
  /\ StopperOnly /\ UNCHANGED <<phase, how, tokenLock, spent, verdicts>>

(* The handler is installed once the process serves; before that, and once it *)
(* is on its way out, SIGTERM ends it (a process that leaves ignores it).      *)
SendTerm ==
  LET p == stopper.target IN
  /\ stopper.pc = "signalling" /\ Alive(p)
  /\ stopper' = [stopper EXCEPT !.pc = "waiting", !.deadline = time + Grace]
  /\ CASE phase[p] = "serving" -> To(p, "draining") /\ UNCHANGED <<how, tokenLock>>
       [] phase[p] \in {"draining", "leaving", "removing"} ->
            UNCHANGED <<phase, how, tokenLock>>
       [] OTHER -> Ends(p, "terminated")
  /\ StopperOnly /\ UNCHANGED <<marker, spent, announced, verdicts>>

StopNotRunning ==
  /\ stopper.pc = "signalling" /\ ~Alive(stopper.target)
  /\ Report("NotRunning")
  /\ StopperOnly /\ UNCHANGED <<phase, how, tokenLock, spent, announced>>

StopDrained ==
  /\ stopper.pc = "waiting" /\ ~Alive(stopper.target)
  /\ Report("Drained")
  /\ StopperOnly /\ UNCHANGED <<phase, how, tokenLock, spent, announced>>

SendKill ==
  /\ stopper.pc = "waiting" /\ Alive(stopper.target) /\ time >= stopper.deadline
  /\ stopper' = [stopper EXCEPT !.pc = "killing"]
  /\ Ends(stopper.target, "killed")
  /\ StopperOnly /\ UNCHANGED <<marker, spent, announced, verdicts>>

StopKilled ==
  /\ stopper.pc = "killing"
  /\ Report("Killed")
  /\ StopperOnly /\ UNCHANGED <<phase, how, tokenLock, spent, announced>>

(* The stop command is killed itself: its marker stays behind.                *)
StopDies ==
  /\ stopper.pc /= "idle" /\ spent.deaths < MaxDeaths
  /\ stopper' = [pc |-> "idle", target |-> NoProc, deadline |-> 0]
  /\ spent' = [spent EXCEPT !.deaths = @ + 1]
  /\ StopperOnly
  /\ UNCHANGED <<phase, how, tokenLock, marker, announced, verdicts>>

(* A marker that is too old for the clock of the day counts for nothing any    *)
(* more, whatever became of its stop.                                          *)
MarkerLapses ==
  /\ marker /= NoProc /\ marker' = NoProc
  /\ UNCHANGED <<phase, how, pidFile, tokenLock, supervisor, stopper, time, spent,
                 crashes, announced, verdicts>>

-----------------------------------------------------------------------------
(* service status: lock_state takes the token lock when it is free            *)

ProbeLock ==
  /\ tokenLock = NoProc /\ spent.probes < MaxProbes /\ ~IsLive(pidFile)
  /\ tokenLock' = Probe
  /\ spent' = [spent EXCEPT !.probes = @ + 1]
  /\ UNCHANGED <<phase, how, pidFile, supervisor, marker, stopper, time, crashes,
                 announced, verdicts>>

ProbeUnlock ==
  /\ tokenLock = Probe
  /\ tokenLock' = NoProc
  /\ UNCHANGED <<phase, how, pidFile, supervisor, marker, stopper, time, spent,
                 crashes, announced, verdicts>>

Tick ==
  /\ time < MaxTime
  /\ time' = time + 1
  /\ UNCHANGED <<phase, how, pidFile, tokenLock, supervisor, marker, stopper, spent,
                 crashes, announced, verdicts>>

ServiceNext ==
  \/ \E p \in Procs :
       \/ StartByHand(p) \/ CreatePid(p) \/ FindPid(p) \/ WritePid(p)
       \/ RefuseSecond(p) \/ JudgeDebris(p) \/ ClearPid(p) \/ ClearedUnderIt(p)
       \/ TakeTokenLock(p) \/ LockTaken(p) \/ Drained(p) \/ LeaveRead(p)
       \/ LeaveRemove(p) \/ Dies(p) \/ Spawn(p)
  \/ Reap \/ SuperviseEnds \/ CrashSeen
  \/ BeginStop \/ Announce \/ SendTerm \/ StopNotRunning \/ StopDrained
  \/ SendKill \/ StopKilled \/ StopDies \/ MarkerLapses
  \/ ProbeLock \/ ProbeUnlock \/ Tick

ServiceSpec == ServiceInit /\ [][ServiceNext]_serviceVars

-----------------------------------------------------------------------------
(* Properties                                                                 *)

(* Whatever crashed before it, was refused beside it, was stopped or probed    *)
(* the lock: as long as starts do not overlap, the process that serves is the  *)
(* one service.pid names, so stop and status can find it.                      *)
Tracked ==
  \A p \in Procs :
    phase[p] \in {"serving", "draining"} => pidFile = [by |-> p, whole |-> TRUE]

InOneWindow(i) ==
  crashes[i + RapidLimit - 1] - crashes[i] < RapidWindow
(* The supervisor gives up after RapidLimit crashes within one window and not  *)
(* before: its pruned list never misses such a run of crashes and never sees   *)
(* one where there was none.                                                   *)
LoopBounded ==
  LET looped == \E i \in 1 .. Len(crashes) - RapidLimit + 1 : InOneWindow(i)
  IN looped <=> supervisor.pc = "gaveUp"

(* Supervision ends quietly only because its child chose to exit, was told to  *)
(* by an operator's signal, or a stop was announced for that very child: the   *)
(* marker an interrupted stop left behind silences no later crash.             *)
StopExplainsEnd ==
  supervisor.pc = "stopped"
  => \/ how[supervisor.child] \in {"ok", "terminated"}
     \/ supervisor.child \in announced

(* Both: why supervision is over is always known.                             *)
EndExplained == LoopBounded /\ StopExplainsEnd

(* What pidfile.rs says of O_EXCL: two processes racing to create the record   *)
(* cannot both win.                                                            *)
OneWinner ==
  \A p, q \in Procs :
    (p /= q /\ phase[p] = "tracked") => phase[q] \notin {"tracked", "serving"}

(* What stop.rs says of a kill: the supervisor does not launch a replacement   *)
(* for a process that a stop has killed.                                       *)
KilledIsNotReplaced ==
  supervisor.pc = "ready"
  => [target |-> supervisor.child, outcome |-> "Killed"] \notin verdicts
=============================================================================
