---------------------------- MODULE BinaryUpdate ----------------------------
(* Self-update: `danso update apply | activate | rollback` over one           *)
(* DANSO_HOME, several invocations at a time, and the resident service whose  *)
(* health document is the evidence of what is serving                         *)
(* (crates/danso-ops/src/install.rs, activate.rs, update.rs, idle.rs,         *)
(* generation.rs; src/update.rs).                                             *)
(*                                                                            *)
(* An image stands for a binary and for its digest, and for the signed        *)
(* archive that holds it. One step of a command ends where a crash would      *)
(* leave something another command can see: each file that is unlinked,       *)
(* written or renamed is a step of its own; what is read and checked under    *)
(* the update lock in between is part of the step that follows it.            *)
EXTENDS Naturals, FiniteSets

CONSTANTS
  Images,        \* binaries, identified by their digest
  Unsigned,      \* those whose release does not verify
  Broken,        \* those that fail `--version`
  NoImage,       \* an absent file or an absent record
  Torn,          \* a file whose write was cut short
  Unknown,       \* a health document that names no usable digest
  Updaters,      \* invocations of `danso update`
  NoUpdater,
  Fresh,         \* HEALTH_FRESH_SECONDS, in ticks
  Stale,         \* STALE_AFTER_SECONDS
  BusyMax,       \* BUSY_MAX_SECONDS
  MaxDefer,      \* MAX_DEFER_SECONDS
  MaxClock,      \* bound on the clock
  MaxCommands,   \* bound on the commands started
  MaxFaults,     \* bound on the writes that fail and the updaters that die
  MaxStarts,     \* bound on the restarts of the service
  MaxTurns       \* bound on the turns it serves

ASSUME ImagesAssumption ==
  /\ Unsigned \subseteq Images /\ Broken \subseteq Images
  /\ {NoImage, Torn, Unknown} \cap Images = {}
  /\ Cardinality({NoImage, Torn, Unknown}) = 3
ASSUME UpdatersAssumption == NoUpdater \notin Updaters
(* What is absent is no instant and no record.                               *)
ASSUME AbsentAssumption ==
  /\ NoImage \notin Nat
  /\ NoImage \notin [target : Images, previous : Images \cup {NoImage},
                     outcome : {"pending", "activated", "failed"}]
  /\ NoImage \notin [target : Images, previous : Images \cup {NoImage}, named : BOOLEAN,
                     outcome : {"pending", "activated", "failed"}, at : Nat]
  /\ NoImage \notin [digest : Images \cup {Unknown}, at : Nat, turn : {NoImage} \cup Nat]
ASSUME TimesAssumption ==
  {Fresh, Stale, BusyMax, MaxDefer, MaxClock, MaxCommands, MaxFaults, MaxStarts,
   MaxTurns} \subseteq Nat

VARIABLES
  bin, prev,     \* bin/danso and bin/danso.prev
  record,        \* pending-activation.json
  installed,     \* installed-generation.json
  lock,          \* who holds state/update.lock
  cmd,           \* where each invocation is
  service,       \* the resident process
  health,        \* health.json
  marker,        \* self-update.deferred-since
  clock,
  spent,         \* commands, faults and starts used up
  ghost          \* what the properties remember

disk == <<bin, prev, record, installed>>
vars == <<disk, lock, cmd, service, health, marker, clock, spent, ghost>>

Idle == [pc |-> "idle", op |-> "none", image |-> NoImage, named |-> FALSE,
         keep |-> NoImage]
NotServing == [image |-> NoImage, digest |-> NoImage, turn |-> NoImage]

Record(target, previous, named, outcome, at) ==
  [target |-> target, previous |-> previous, named |-> named,
   outcome |-> outcome, at |-> at]
Instants == 0 .. MaxClock
Files == Images \cup {NoImage, Torn}

TypeOK ==
  /\ bin \in Images \cup {NoImage} /\ prev \in Files
  /\ record \in {NoImage} \cup
       [target : Images, previous : Images \cup {NoImage}, named : BOOLEAN,
        outcome : {"pending", "activated", "failed"}, at : Instants]
  /\ installed \in {NoImage} \cup [binary : Images, archive : Images \cup {NoImage}]
  /\ lock \in Updaters \cup {NoUpdater}
  /\ cmd \in [Updaters ->
       [pc : {"idle", "lock", "unlink", "copy", "announce", "keep",
              "swap", "record", "conclude"},
        op : {"none", "apply", "rollback", "activate", "retry"},
        image : Images \cup {NoImage, Unknown}, named : BOOLEAN,
        keep : Images \cup {NoImage}]]
  /\ service \in [image : Images \cup {NoImage},
                  digest : Images \cup {NoImage, Unknown},
                  turn : {NoImage} \cup Instants]
  /\ health \in {NoImage} \cup
       [digest : Images \cup {Unknown}, at : Instants,
        turn : {NoImage} \cup Instants]
  /\ marker \in {NoImage} \cup Instants
  /\ clock \in Instants

(* A home that has one image installed and recorded, or none; the service    *)
(* may have been started by hand and has published nothing yet.               *)
Init ==
  /\ bin \in (Images \ Broken) \cup {NoImage}
  /\ prev = NoImage /\ record = NoImage
  /\ installed = IF bin = NoImage THEN NoImage
                 ELSE [binary |-> bin, archive |-> bin]
  /\ lock = NoUpdater
  /\ cmd = [u \in Updaters |-> Idle]
  /\ service \in {NotServing, [NotServing EXCEPT !.image = bin]}
  /\ health = NoImage /\ marker = NoImage
  /\ clock = 0
  /\ spent = [commands |-> 0, faults |-> 0, starts |-> 0, turns |-> 0]
  /\ ghost = [ran |-> {}, restarted |-> FALSE, deferring |-> NoImage]

CanFault == spent.faults < MaxFaults
Fault == spent' = [spent EXCEPT !.faults = @ + 1]

-----------------------------------------------------------------------------
(* Helpers of the commands. What a command is told on its command line is     *)
(* chosen where it is first used, once the lock is held.                      *)

Begin(u, op) ==
  /\ cmd[u] = Idle
  /\ spent.commands < MaxCommands
  /\ spent' = [spent EXCEPT !.commands = @ + 1]
  /\ cmd' = [cmd EXCEPT ![u] = [Idle EXCEPT !.op = op, !.pc = "lock"]]

To(u, pc) == cmd' = [cmd EXCEPT ![u].pc = pc]

(* A command returns: its guards drop, the lock file closes.                 *)
Return(u) ==
  /\ cmd' = [cmd EXCEPT ![u] = Idle]
  /\ lock' = NoUpdater

(* install.rs, probe_version: the version a staged image reports.            *)
Runs(image) == image \in Images \ Broken

(* The record that is written: an activation that is now outstanding. Every  *)
(* timestamp is read after the ones written before it, so the clock moves.    *)
Announced(target, previous, named) ==
  Record(target, previous, named, "pending", clock + 1)

(* idle.rs, busy: fresh evidence of a turn that is not wedged.               *)
Busy ==
  /\ health /= NoImage
  /\ clock - health.at <= Fresh
  /\ health.turn /= NoImage
  /\ health.at - health.turn < BusyMax

(* idle.rs, check: when the wait that is still going on began.               *)
WaitingSince == IF marker = NoImage \/ marker > clock THEN NoImage ELSE marker

(* What the marker says after a deferral.                                    *)
WaitBegan == IF WaitingSince = NoImage THEN clock ELSE WaitingSince

-----------------------------------------------------------------------------
(* apply: src/update.rs apply, then install.rs apply_locked, apply_verified  *)

(* The idle gate runs before the lock. A busy service defers the command and *)
(* the wait is written down; a wait that cannot be written is not begun; a    *)
(* wait that is over, a forced or an idle one is cleared.                     *)
Defer(u) ==
  /\ Busy
  /\ cmd[u] = Idle /\ spent.commands < MaxCommands
  /\ WaitingSince /= NoImage => clock - WaitingSince < MaxDefer
  /\ marker' = WaitBegan
  /\ spent' = [spent EXCEPT !.commands = @ + 1]
  /\ ghost' = [ghost EXCEPT !.deferring = IF @ = NoImage THEN clock ELSE @]
  /\ UNCHANGED <<disk, lock, cmd, service, health, clock>>

Waited == WaitingSince /= NoImage /\ clock - WaitingSince >= MaxDefer

BeginApply(u, force) ==
  /\ force \/ ~Busy \/ Waited
  /\ Begin(u, "apply")
  /\ marker' = NoImage
  /\ ghost' = [ghost EXCEPT !.deferring = NoImage]
  /\ UNCHANGED <<disk, lock, service, health, clock>>

(* The marker cannot be written: the apply goes on untracked.                *)
BeginUntracked(u) ==
  /\ Busy /\ WaitingSince = NoImage
  /\ cmd[u] = Idle /\ spent.commands < MaxCommands /\ CanFault
  /\ spent' = [spent EXCEPT !.commands = @ + 1, !.faults = @ + 1]
  /\ cmd' = [cmd EXCEPT ![u] = [Idle EXCEPT !.op = "apply", !.pc = "lock"]]
  /\ ghost' = [ghost EXCEPT !.deferring = NoImage]
  /\ UNCHANGED <<disk, lock, service, health, marker, clock>>

(* UpdateLock::acquire, with what the command reads and checks before its    *)
(* first write; a holder that stays longer than LOCK_WAIT fails the command.  *)
Acquired(u) == cmd[u].pc = "lock" /\ lock = NoUpdater

Contended(u) ==
  /\ cmd[u].pc = "lock" /\ lock /= NoUpdater
  /\ cmd' = [cmd EXCEPT ![u] = Idle]
  /\ UNCHANGED <<disk, lock, service, health, marker, clock, spent, ghost>>

(* Mutant of Outstanding: only a pending record is protected.                *)
OutstandingPending(image) ==
  /\ record /= NoImage
  /\ record.target /= image
  /\ record.outcome = "pending"
(* A record that is pending or failed for another image still owns           *)
(* bin/danso.prev: nothing may be stacked on it.                              *)
Outstanding(image) ==
  /\ record /= NoImage
  /\ record.target /= image
  /\ record.outcome \in {"pending", "failed"}

Refused(image) ==
  \/ image \in Unsigned
  \/ Outstanding(image)
  \/ ~Runs(image)

(* Refused by the signature, an outstanding activation or the probe: nothing *)
(* has been changed.                                                          *)
RefuseApply(u, image) ==
  /\ Acquired(u) /\ cmd[u].op = "apply"
  /\ Refused(image)
  /\ Return(u)
  /\ UNCHANGED <<disk, service, health, marker, clock, spent, ghost>>

(* The image is already installed: only the generation record is written.    *)
AlreadyInstalled(u, image) ==
  /\ Acquired(u) /\ cmd[u].op = "apply"
  /\ ~Refused(image) /\ bin = image
  /\ lock' = u
  /\ cmd' = [cmd EXCEPT ![u].pc = "record", ![u].image = image]
  /\ UNCHANGED <<disk, service, health, marker, clock, spent, ghost>>

(* The new binary is staged beside the installed one and has been probed.    *)
Stage(u, image, named) ==
  /\ Acquired(u) /\ cmd[u].op = "apply"
  /\ ~Refused(image) /\ bin /= image
  /\ lock' = u
  /\ cmd' = [cmd EXCEPT ![u].pc = IF bin = NoImage THEN "announce" ELSE "unlink",
                        ![u].image = image, ![u].named = named]
  /\ UNCHANGED <<disk, service, health, marker, clock, spent, ghost>>

(* copy_to_new_executable: the old snapshot is unlinked, then written anew.  *)
Unlink(u) ==
  /\ cmd[u].pc = "unlink"
  /\ prev' = NoImage
  /\ To(u, "copy")
  /\ UNCHANGED <<bin, record, installed, lock, service, health, marker, clock,
                 spent, ghost>>

Snapshot(u) ==
  /\ cmd[u].pc = "copy"
  /\ prev' = bin
  /\ To(u, "announce")
  /\ UNCHANGED <<bin, record, installed, lock, service, health, marker, clock,
                 spent, ghost>>

(* The disk is full, or the updater dies inside the write.                   *)
SnapshotTorn(u) ==
  /\ cmd[u].pc = "copy" /\ CanFault /\ Fault
  /\ prev' = Torn
  /\ Return(u)
  /\ UNCHANGED <<bin, record, installed, service, health, marker, clock, ghost>>

(* Mutant of Announcing: the replacement goes on without a record.           *)
AnnouncingLate(u) == UNCHANGED record
(* install.rs, apply_verified and rollback_inner: the record names the image *)
(* to come and the image that was kept.                                       *)
Announcing(u) == record' = Announced(cmd[u].image, bin, cmd[u].named)

(* The record is written, to a temporary name and renamed, before anything   *)
(* is replaced.                                                               *)
Announce(u) ==
  /\ cmd[u].pc = "announce" /\ clock < MaxClock
  /\ Announcing(u)
  /\ clock' = clock + 1
  /\ ghost' = [ghost EXCEPT !.ran = {}, !.restarted = FALSE]
  /\ To(u, IF cmd[u].op = "apply" THEN "swap" ELSE "keep")
  /\ UNCHANGED <<bin, prev, installed, lock, service, health, marker, spent>>

(* A write that fails before the swap: the command returns and the installed *)
(* binary is untouched. (write_pending, write_installed)                      *)
WriteFails(u) ==
  /\ cmd[u].pc \in {"announce", "record", "conclude"} /\ CanFault /\ Fault
  /\ Return(u)
  /\ UNCHANGED <<disk, service, health, marker, clock, ghost>>

(* The staged image is renamed over the installed one. A service that has    *)
(* not read its own image yet can no longer do so.                            *)
Swap(u) ==
  /\ cmd[u].pc = "swap"
  /\ bin' = cmd[u].image
  /\ service' = [service EXCEPT
       !.digest = IF service.image /= NoImage /\ @ = NoImage THEN Unknown ELSE @]
  /\ To(u, "record")
  /\ UNCHANGED <<prev, record, installed, lock, health, marker, clock, spent,
                 ghost>>

(* write_installed; a rollback does not know which archive it restored.      *)
RecordInstalled(u) ==
  /\ cmd[u].pc = "record"
  /\ installed' = [binary |-> cmd[u].image,
                   archive |-> IF cmd[u].op = "apply" THEN cmd[u].image ELSE NoImage]
  /\ Return(u)
  /\ UNCHANGED <<bin, prev, record, service, health, marker, clock, spent, ghost>>

-----------------------------------------------------------------------------
(* rollback: install.rs rollback_inner                                       *)

BeginRollback(u) ==
  /\ Begin(u, "rollback")
  /\ UNCHANGED <<disk, lock, service, health, marker, clock, ghost>>

Restorable == prev \in Images /\ bin \in Images /\ prev /= bin /\ Runs(prev)

RefuseRollback(u) ==
  /\ Acquired(u) /\ cmd[u].op = "rollback"
  /\ ~Restorable
  /\ Return(u)
  /\ UNCHANGED <<disk, service, health, marker, clock, spent, ghost>>

(* Both images are staged; the units of the record that is superseded are    *)
(* inherited unless the caller named some.                                    *)
StageRollback(u, named) ==
  /\ Acquired(u) /\ cmd[u].op = "rollback"
  /\ Restorable
  /\ lock' = u
  /\ cmd' = [cmd EXCEPT ![u].pc = "announce", ![u].image = prev, ![u].keep = bin,
                        ![u].named = named \/ (record /= NoImage /\ record.named)]
  /\ UNCHANGED <<disk, service, health, marker, clock, spent, ghost>>

(* The image rolled out of becomes the snapshot, before the swap.            *)
Keep(u) ==
  /\ cmd[u].pc = "keep"
  /\ prev' = cmd[u].keep
  /\ To(u, "swap")
  /\ UNCHANGED <<bin, record, installed, lock, service, health, marker, clock,
                 spent, ghost>>

-----------------------------------------------------------------------------
(* activate: activate.rs judge                                               *)

BeginActivate(u, op) ==
  /\ Begin(u, op)
  /\ UNCHANGED <<disk, lock, service, health, marker, clock, ghost>>

(* The record needs no judgement: there is none, or it is resolved, and a    *)
(* failed one is judged again only on request.                                *)
Resolved(op) ==
  \/ record = NoImage
  \/ record /= NoImage /\ record.outcome = "activated"
  \/ record /= NoImage /\ record.outcome = "failed" /\ op = "activate"

(* Mutant of Premature: a fresh document is evidence whenever it was written. *)
PrematureNever(at) == FALSE
(* The document predates the activation it would judge.                      *)
Premature(at) == at < record.at

(* activate.rs, serving_for: the digest the record is judged by, NoImage     *)
(* when there is no evidence: the installed file when no unit is named,       *)
(* otherwise a health document that is fresh, is about this activation and    *)
(* names an image.                                                            *)
Evidence ==
  IF record = NoImage \/ ~record.named THEN bin
  ELSE IF \/ health = NoImage
          \/ clock - health.at > Stale
          \/ Premature(health.at)
          \/ health.digest = Unknown
       THEN NoImage
       ELSE health.digest

(* Nothing to judge, or nothing to judge it by: nothing is written.          *)
Undecided(u) ==
  /\ Acquired(u) /\ cmd[u].op \in {"activate", "retry"}
  /\ Resolved(cmd[u].op) \/ Evidence = NoImage
  /\ Return(u)
  /\ UNCHANGED <<disk, service, health, marker, clock, spent, ghost>>

ReadEvidence(u) ==
  /\ Acquired(u) /\ cmd[u].op \in {"activate", "retry"}
  /\ ~Resolved(cmd[u].op) /\ Evidence /= NoImage
  /\ lock' = u
  /\ cmd' = [cmd EXCEPT ![u].pc = "conclude", ![u].image = Evidence]
  /\ UNCHANGED <<disk, service, health, marker, clock, spent, ghost>>

Conclude(u) ==
  /\ cmd[u].pc = "conclude"
  /\ record' = [record EXCEPT !.outcome =
                  IF cmd[u].image = record.target THEN "activated" ELSE "failed"]
  /\ Return(u)
  /\ UNCHANGED <<bin, prev, installed, service, health, marker, clock, spent,
                 ghost>>

-----------------------------------------------------------------------------
(* The updater dies; its lock goes with it. Temporary files it leaves behind *)
(* are unlinked by the next command that would use the name.                  *)
Die(u) ==
  /\ cmd[u].pc \notin {"idle", "lock"} /\ CanFault /\ Fault
  /\ Return(u)
  /\ UNCHANGED <<disk, service, health, marker, clock, ghost>>

-----------------------------------------------------------------------------
(* The resident service: started from the installed file, it reads its own   *)
(* image at its first health write and publishes it with its workload on      *)
(* every one (generation.rs current, telegram/service.rs write_health).       *)

StartService ==
  /\ service = NotServing /\ bin /= NoImage
  /\ spent.starts < MaxStarts
  /\ spent' = [spent EXCEPT !.starts = @ + 1]
  /\ service' = [NotServing EXCEPT !.image = bin]
  /\ ghost' = [ghost EXCEPT !.ran = @ \cup {bin}, !.restarted = TRUE]
  /\ UNCHANGED <<disk, lock, cmd, health, marker, clock>>

StopService ==
  /\ service /= NotServing
  /\ service' = NotServing
  /\ UNCHANGED <<disk, lock, cmd, health, marker, clock, spent, ghost>>

Publish ==
  /\ service /= NotServing
  /\ LET digest == IF service.digest = NoImage THEN service.image
                   ELSE service.digest
     IN /\ service' = [service EXCEPT !.digest = digest]
        /\ health' = [digest |-> digest, at |-> clock, turn |-> service.turn]
  /\ ghost' = [ghost EXCEPT !.ran = @ \cup {service.image}]
  /\ UNCHANGED <<disk, lock, cmd, marker, clock, spent>>

TurnStarts ==
  /\ service /= NotServing /\ service.turn = NoImage
  /\ spent.turns < MaxTurns
  /\ spent' = [spent EXCEPT !.turns = @ + 1]
  /\ service' = [service EXCEPT !.turn = clock]
  /\ UNCHANGED <<disk, lock, cmd, health, marker, clock, ghost>>

TurnEnds ==
  /\ service.turn /= NoImage
  /\ service' = [service EXCEPT !.turn = NoImage]
  /\ UNCHANGED <<disk, lock, cmd, health, marker, clock, spent, ghost>>

Tick ==
  /\ clock < MaxClock
  /\ clock' = clock + 1
  /\ UNCHANGED <<disk, lock, cmd, service, health, marker, spent, ghost>>

-----------------------------------------------------------------------------
Apply(u) ==
  \/ Defer(u)
  \/ \E force \in BOOLEAN : BeginApply(u, force)
  \/ BeginUntracked(u)
  \/ \E image \in Images : RefuseApply(u, image) \/ AlreadyInstalled(u, image)
  \/ \E image \in Images, named \in BOOLEAN : Stage(u, image, named)
  \/ Unlink(u) \/ Snapshot(u) \/ SnapshotTorn(u)

Rollback(u) ==
  \/ BeginRollback(u) \/ RefuseRollback(u) \/ Keep(u)
  \/ \E named \in BOOLEAN : StageRollback(u, named)

Activate(u) ==
  \/ \E op \in {"activate", "retry"} : BeginActivate(u, op)
  \/ Undecided(u) \/ ReadEvidence(u) \/ Conclude(u)

Replace(u) == Announce(u) \/ Swap(u) \/ RecordInstalled(u) \/ WriteFails(u)

Next ==
  \/ \E u \in Updaters :
        \/ Apply(u) \/ Rollback(u) \/ Activate(u) \/ Replace(u)
        \/ Contended(u) \/ Die(u)
  \/ StartService \/ StopService \/ Publish
  \/ TurnStarts \/ TurnEnds \/ Tick

Spec == Init /\ [][Next]_vars

-----------------------------------------------------------------------------
(* Properties                                                                *)

AnnouncedView ==
  IF record = NoImage THEN NoImage
  ELSE [target |-> record.target, previous |-> record.previous,
        outcome |-> record.outcome]
Generations == INSTANCE TwoGenerations WITH announced <- AnnouncedView

(* Updaters that race, fail and die keep the promise of TwoGenerations: the  *)
(* record is written before the binary is replaced, the binary that is        *)
(* installed is the one the outstanding record names, and an activation that  *)
(* is not proven blocks every other release (the invariant of update.rs).     *)
GenerationSpec == Generations!Spec

(* As long as an installed replacement is unproven or has failed, danso.prev  *)
(* is whole and is the very image it replaced: whatever updater ran, failed   *)
(* or died since, the way back is there.                                      *)
RollbackTargetKept ==
  (record /= NoImage /\ record.outcome /= "activated" /\ bin = record.target
     /\ record.previous /= NoImage)
  => prev = record.previous

(* A record that names a unit becomes activated only if the service ran the  *)
(* target after the activation was announced, and failed only if it ran       *)
(* something else after that: no document from before the swap decides.       *)
JudgedByWhatRan ==
  [][(record /= NoImage /\ record'.outcome /= record.outcome
        /\ record.named /\ record'.at = record.at) =>
       IF record'.outcome = "activated" THEN record.target \in ghost.ran
       ELSE \E image \in ghost.ran : image /= record.target]_vars

(* A deferral is one of a wait that is bounded: a service that is busy at     *)
(* every attempt, however the updaters come and go, holds an update back for   *)
(* less than MAX_DEFER_SECONDS since the first attempt it turned away.         *)
DeferralBounded ==
  [][(ghost.deferring /= NoImage /\ ghost'.deferring = ghost.deferring
        /\ spent'.commands > spent.commands /\ cmd' = cmd)
       => clock - ghost.deferring < MaxDefer]_vars

(* Both: neither a verdict nor a wait depends on luck.                        *)
VerdictsAndWaits == JudgedByWhatRan /\ DeferralBounded

(* What a module comment of activate.rs promises of the ordinary sequence     *)
(* apply, activate, restart, activate: the first activate decides nothing,    *)
(* so a generation the service has not been restarted into is not failed.     *)
UnrestartedUndecided ==
  [][(record /= NoImage /\ record.outcome = "pending" /\ record.named
        /\ record'.outcome = "failed") => ghost.restarted]_vars

(* What a comment of install.rs promises of an outstanding record: activate   *)
(* or rollback resolves it, without another copy of the release.              *)
OutstandingResolvable ==
  (lock = NoUpdater /\ record /= NoImage /\ record.outcome /= "activated")
  => bin = record.target \/ Restorable
=============================================================================
