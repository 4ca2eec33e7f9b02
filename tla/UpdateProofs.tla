---------------------------- MODULE UpdateProofs ----------------------------
(* Theorems of BinaryUpdate, for any number of releases and updaters that     *)
(* race, fail and die at any step: the way back is kept, the installation     *)
(* implements TwoGenerations, and neither a verdict nor a wait depends on     *)
(* luck.                                                                      *)
(*                                                                            *)
(* They rest on one invariant: what the updater that holds the lock may rely  *)
(* on at each of its steps, and what everyone may rely on of the record, the  *)
(* snapshot, the health document and the marker.                              *)
EXTENDS BinaryUpdate, TLAPS

Outcomes == {"pending", "activated", "failed"}
Records == [target : Images, previous : Images \cup {NoImage}, named : BOOLEAN,
            outcome : Outcomes, at : Nat]
Healths == [digest : Images \cup {Unknown}, at : Nat, turn : {NoImage} \cup Nat]
Services == [image : Images \cup {NoImage}, digest : Images \cup {NoImage, Unknown},
             turn : {NoImage} \cup Nat]
Holding == {"unlink", "copy", "announce", "keep", "swap", "record", "conclude"}
Cmds == [pc : {"idle", "lock"} \cup Holding,
         op : {"none", "apply", "rollback", "activate", "retry"},
         image : Images \cup {NoImage, Unknown}, named : BOOLEAN,
         keep : Images \cup {NoImage}]

\* The part of the type the argument needs.
UpdateShape ==
  /\ bin \in Images \cup {NoImage} /\ prev \in Files
  /\ record \in {NoImage} \cup Records
  /\ lock \in Updaters \cup {NoUpdater}
  /\ cmd \in [Updaters -> Cmds]
  /\ service \in Services /\ health \in {NoImage} \cup Healths
  /\ marker \in {NoImage} \cup Nat /\ clock \in Nat
  /\ {"ran", "restarted", "deferring"} \subseteq DOMAIN ghost
  /\ spent \in [commands : Nat, faults : Nat, starts : Nat, turns : Nat]

\* Whoever is past the lock has it.
OneUpdater == \A u \in Updaters : cmd[u].pc \in Holding => lock = u

\* The record announces the image in hand, from the one that is installed.
IsAnnounced(u) ==
  /\ cmd[u].image /= bin
  /\ record /= NoImage /\ record.target = cmd[u].image
  /\ record.previous = bin /\ record.outcome = "pending"

\* What the updater that holds the lock may rely on.
InHand(u) ==
  /\ cmd[u].pc \in {"unlink", "copy"} =>
       /\ cmd[u].op = "apply" /\ bin \in Images
       /\ cmd[u].image \in Images /\ cmd[u].image /= bin /\ ~Outstanding(cmd[u].image)
  /\ cmd[u].pc = "announce" =>
       /\ cmd[u].image \in Images /\ cmd[u].image /= bin
       /\ IF cmd[u].op = "apply" THEN ~Outstanding(cmd[u].image) /\ prev = bin
          ELSE prev = cmd[u].image /\ cmd[u].keep = bin
  /\ cmd[u].pc = "keep" => IsAnnounced(u) /\ cmd[u].keep = bin
  /\ cmd[u].pc = "swap" => IsAnnounced(u) /\ prev = bin
  /\ cmd[u].pc = "record" => cmd[u].image \in Images
  /\ cmd[u].pc = "conclude" =>
       /\ record /= NoImage /\ record.outcome /= "activated"
       /\ record.named => cmd[u].image \in ghost.ran

\* A first installation has nothing to keep.
FirstKeepsNothing == bin = NoImage => prev = NoImage

\* While a record is outstanding: once its target is installed the snapshot is the
\* image it replaced; before, the snapshot is no third image.
WayBack ==
  record /= NoImage /\ record.outcome /= "activated" =>
    IF bin = record.target THEN prev = record.previous
    ELSE prev \in {NoImage, Torn, bin, record.target}

\* A document written since the announcement names an image that ran since.
HealthIsOfRun ==
  health /= NoImage /\ record /= NoImage /\ health.at >= record.at /\ health.digest /= Unknown
    => health.digest \in ghost.ran

\* A service names its own image or none.
ServiceNamesItself ==
  /\ service.digest \in {NoImage, Unknown, service.image}
  /\ service.image = NoImage => service = NotServing

\* Nothing is of the future, and the marker says when the wait began.
TimesArePast ==
  /\ record /= NoImage => record.at <= clock
  /\ health /= NoImage => health.at <= clock
  /\ marker /= NoImage => marker <= clock
  /\ marker = ghost.deferring

UpdateInv ==
  /\ UpdateShape /\ OneUpdater /\ \A u \in Updaters : InHand(u)
  /\ FirstKeepsNothing /\ WayBack /\ HealthIsOfRun /\ ServiceNamesItself /\ TimesArePast

-----------------------------------------------------------------------------

\* One image installed and recorded, or none; no updater and no document.
LEMMA UpdateInvInit == Init => UpdateInv
<1> SUFFICES ASSUME Init PROVE UpdateInv
    OBVIOUS
<1> USE UpdatersAssumption, AbsentAssumption DEF Init
<1>1. UpdateShape
    BY DEF UpdateShape, Files, Cmds, Services, Idle, NotServing, Holding
<1>2. OneUpdater /\ \A u \in Updaters : InHand(u)
    BY DEF OneUpdater, InHand, Idle, Holding
<1>3. FirstKeepsNothing /\ WayBack /\ HealthIsOfRun /\ ServiceNamesItself /\ TimesArePast
    BY DEF FirstKeepsNothing, WayBack, HealthIsOfRun, ServiceNamesItself, TimesArePast, NotServing
<1> QED
    BY <1>1, <1>2, <1>3 DEF UpdateInv

\* What an activation is judged by is an image, when it is anything.
LEMMA EvidenceIsImage == UpdateShape => Evidence \in Images \cup {NoImage}
    BY DEF UpdateShape, Evidence, Healths

\* One step of an updater, of the service or of the clock.
LEMMA UpdateInvStep == UpdateInv /\ [Next]_vars => UpdateInv'
<1> SUFFICES ASSUME UpdateInv, [Next]_vars PROVE UpdateInv'
    OBVIOUS
<1> USE UpdatersAssumption, AbsentAssumption DEF disk
<1>0. /\ UpdateShape /\ OneUpdater /\ \A u \in Updaters : InHand(u)
      /\ FirstKeepsNothing /\ WayBack /\ HealthIsOfRun /\ ServiceNamesItself /\ TimesArePast
    BY DEF UpdateInv
<1>1. ASSUME NEW u \in Updaters, Defer(u)
      PROVE  UpdateInv'
    <2>1. UpdateShape'
        BY <1>0, <1>1 DEF UpdateShape, Files, Cmds, Holding, Idle, Defer, Busy, WaitBegan,
           WaitingSince
    <2>2. OneUpdater'
        BY <1>0, <1>1 DEF UpdateShape, OneUpdater, Cmds, Holding, Idle, Defer, Busy, WaitBegan,
           WaitingSince
    <2>3. \A v \in Updaters : InHand(v)'
        BY <1>0, <1>1 DEF UpdateShape, OneUpdater, InHand, IsAnnounced, Outstanding, Cmds, Holding,
           Idle, Defer, Busy, WaitBegan, WaitingSince
    <2>4. FirstKeepsNothing' /\ WayBack'
        BY <1>0, <1>1 DEF UpdateShape, InHand, IsAnnounced, FirstKeepsNothing, WayBack, Defer,
           Busy, WaitBegan, WaitingSince
    <2>5. HealthIsOfRun' /\ ServiceNamesItself' /\ TimesArePast'
        BY <1>0, <1>1 DEF UpdateShape, HealthIsOfRun, ServiceNamesItself, TimesArePast, NotServing,
           Defer, Busy, WaitBegan, WaitingSince
    <2> QED
        BY <2>1, <2>2, <2>3, <2>4, <2>5 DEF UpdateInv
<1>2. ASSUME NEW u \in Updaters, NEW force \in BOOLEAN, BeginApply(u, force)
      PROVE  UpdateInv'
    <2>1. UpdateShape'
        <3>1. spent' \in [commands : Nat, faults : Nat, starts : Nat, turns : Nat]
            BY <1>0, <1>2 DEF UpdateShape, BeginApply, Begin
        <3>2. cmd' \in [Updaters -> Cmds]
            BY <1>0, <1>2 DEF UpdateShape, Cmds, Holding, Idle, BeginApply, Begin
        <3> QED
            BY <3>1, <3>2, <1>0, <1>2, ImagesAssumption DEF UpdateShape, Files, BeginApply, Begin
    <2>2. OneUpdater'
        BY <1>0, <1>2 DEF UpdateShape, OneUpdater, Cmds, Holding, Idle, BeginApply, Begin, Busy,
           Waited, WaitingSince
    <2>3. \A v \in Updaters : InHand(v)'
        BY <1>0, <1>2 DEF UpdateShape, OneUpdater, InHand, IsAnnounced, Outstanding, Cmds, Holding,
           Idle, BeginApply, Begin, Busy, Waited, WaitingSince
    <2>4. FirstKeepsNothing' /\ WayBack'
        BY <1>0, <1>2 DEF UpdateShape, InHand, IsAnnounced, FirstKeepsNothing, WayBack, BeginApply,
           Begin, Busy, Waited, WaitingSince
    <2>5. HealthIsOfRun' /\ ServiceNamesItself' /\ TimesArePast'
        BY <1>0, <1>2 DEF UpdateShape, HealthIsOfRun, ServiceNamesItself, TimesArePast, NotServing,
           BeginApply, Begin, Busy, Waited, WaitingSince
    <2> QED
        BY <2>1, <2>2, <2>3, <2>4, <2>5 DEF UpdateInv
<1>3. ASSUME NEW u \in Updaters, BeginUntracked(u)
      PROVE  UpdateInv'
    <2>1. UpdateShape'
        <3> DEFINE c == spent.commands + 1
                   f == spent.faults + 1
        <3>0. /\ spent \in [commands : Nat, faults : Nat, starts : Nat, turns : Nat]
              /\ c \in Nat /\ f \in Nat
            BY <1>0 DEF UpdateShape
        <3>1. [spent EXCEPT !.commands = c, !.faults = f]
                \in [commands : Nat, faults : Nat, starts : Nat, turns : Nat]
            <4> HIDE DEF c, f
            <4> QED
                BY <3>0
        <3>2. spent' \in [commands : Nat, faults : Nat, starts : Nat, turns : Nat]
            BY <3>1, <1>3 DEF BeginUntracked
        <3>3. cmd' \in [Updaters -> Cmds]
            BY <1>0, <1>3 DEF UpdateShape, Cmds, Holding, Idle, BeginUntracked
        <3> QED
            BY <3>2, <3>3, <1>0, <1>3, ImagesAssumption DEF UpdateShape, Files, BeginUntracked
    <2>2. OneUpdater'
        BY <1>0, <1>3 DEF UpdateShape, OneUpdater, Cmds, Holding, Idle, BeginUntracked, Busy,
           WaitingSince
    <2>3. \A v \in Updaters : InHand(v)'
        BY <1>0, <1>3 DEF UpdateShape, OneUpdater, InHand, IsAnnounced, Outstanding, Cmds, Holding,
           Idle, BeginUntracked, Busy, WaitingSince
    <2>4. FirstKeepsNothing' /\ WayBack'
        BY <1>0, <1>3 DEF UpdateShape, InHand, IsAnnounced, FirstKeepsNothing, WayBack,
           BeginUntracked, Busy, WaitingSince
    <2>5. HealthIsOfRun' /\ ServiceNamesItself' /\ TimesArePast'
        BY <1>0, <1>3 DEF UpdateShape, HealthIsOfRun, ServiceNamesItself, TimesArePast, NotServing,
           BeginUntracked, Busy, WaitingSince
    <2> QED
        BY <2>1, <2>2, <2>3, <2>4, <2>5 DEF UpdateInv
<1>4. ASSUME NEW u \in Updaters, NEW image \in Images, RefuseApply(u, image)
      PROVE  UpdateInv'
    <2>1. UpdateShape'
        BY <1>0, <1>4 DEF UpdateShape, Files, Cmds, Holding, Idle, RefuseApply, Acquired, Return
    <2>2. OneUpdater'
        BY <1>0, <1>4 DEF UpdateShape, OneUpdater, Cmds, Holding, Idle, RefuseApply, Acquired,
           Return
    <2>3. \A v \in Updaters : InHand(v)'
        BY <1>0, <1>4 DEF UpdateShape, OneUpdater, InHand, IsAnnounced, Outstanding, Cmds, Holding,
           Idle, RefuseApply, Acquired, Return
    <2>4. FirstKeepsNothing' /\ WayBack'
        BY <1>0, <1>4 DEF UpdateShape, InHand, IsAnnounced, FirstKeepsNothing, WayBack,
           RefuseApply, Acquired, Return
    <2>5. HealthIsOfRun' /\ ServiceNamesItself' /\ TimesArePast'
        BY <1>0, <1>4 DEF UpdateShape, HealthIsOfRun, ServiceNamesItself, TimesArePast, NotServing,
           RefuseApply, Acquired, Return
    <2> QED
        BY <2>1, <2>2, <2>3, <2>4, <2>5 DEF UpdateInv
<1>5. ASSUME NEW u \in Updaters, NEW image \in Images, AlreadyInstalled(u, image)
      PROVE  UpdateInv'
    <2>1. UpdateShape'
        <3>1. cmd[u] \in Cmds
            BY <1>0 DEF UpdateShape
        <3>2. [cmd[u] EXCEPT !.pc = "record", !.image = image] \in Cmds
            BY <3>1, <1>5, <1>0 DEF UpdateShape, Cmds, Holding
        <3>3. cmd' = [cmd EXCEPT ![u] = [cmd[u] EXCEPT !.pc = "record", !.image = image]]
            BY <1>5 DEF AlreadyInstalled
        <3>4. cmd' \in [Updaters -> Cmds]
            BY <3>2, <3>3, <1>0 DEF UpdateShape
        <3> QED
            BY <3>4, <1>5, <1>0 DEF UpdateShape, AlreadyInstalled
    <2>2. OneUpdater'
        BY <1>0, <1>5 DEF UpdateShape, OneUpdater, Cmds, Holding, Idle, AlreadyInstalled, Acquired
    <2>3. \A v \in Updaters : InHand(v)'
        BY <1>0, <1>5 DEF UpdateShape, OneUpdater, InHand, IsAnnounced, Outstanding, Cmds, Holding,
           Idle, AlreadyInstalled, Acquired
    <2>4. FirstKeepsNothing' /\ WayBack'
        BY <1>0, <1>5 DEF UpdateShape, InHand, IsAnnounced, FirstKeepsNothing, WayBack,
           AlreadyInstalled, Acquired
    <2>5. HealthIsOfRun' /\ ServiceNamesItself' /\ TimesArePast'
        BY <1>0, <1>5 DEF UpdateShape, HealthIsOfRun, ServiceNamesItself, TimesArePast, NotServing,
           AlreadyInstalled, Acquired
    <2> QED
        BY <2>1, <2>2, <2>3, <2>4, <2>5 DEF UpdateInv
<1>6. ASSUME NEW u \in Updaters, NEW image \in Images, NEW named \in BOOLEAN, Stage(u, image, named)
      PROVE  UpdateInv'
    <2>1. UpdateShape'
        <3>1. cmd[u] \in Cmds
            BY <1>0 DEF UpdateShape
        <3>2. [cmd[u] EXCEPT !.pc = IF bin = NoImage THEN "announce" ELSE "unlink",
                           !.image = image, !.named = named] \in Cmds
            BY <3>1, <1>6, <1>0 DEF UpdateShape, Cmds, Holding
        <3>3. cmd' = [cmd EXCEPT ![u] = [cmd[u] EXCEPT !.pc = IF bin = NoImage THEN "announce" ELSE "unlink",
                           !.image = image, !.named = named]]
            BY <1>6 DEF Stage
        <3>4. cmd' \in [Updaters -> Cmds]
            BY <3>2, <3>3, <1>0 DEF UpdateShape
        <3> QED
            BY <3>4, <1>6, <1>0 DEF UpdateShape, Stage
    <2>2. OneUpdater'
        BY <1>0, <1>6 DEF UpdateShape, OneUpdater, Cmds, Holding, Idle, Stage, Acquired, Refused
    <2>3. \A v \in Updaters : InHand(v)'
        <3>1. cmd'[u].pc = (IF bin = NoImage THEN "announce" ELSE "unlink")
              /\ cmd'[u].image = image /\ cmd'[u].op = "apply"
            BY <1>0, <1>6 DEF UpdateShape, Stage, Acquired, Cmds
        <3>2. ~Outstanding(image) /\ bin /= image
            BY <1>6 DEF Stage, Refused
        <3>3. ~Outstanding(cmd[u].image)'
            BY <3>1, <3>2, <1>6 DEF Stage, Outstanding
        <3>4. InHand(u)'
            BY <3>1, <3>2, <3>3, <1>0, <1>6 DEF InHand, Stage, FirstKeepsNothing, UpdateShape
        <3>5. \A v \in Updaters : v /= u => cmd'[v].pc \notin Holding
            BY <1>0, <1>6 DEF OneUpdater, Stage, Acquired, UpdateShape
        <3> QED
            BY <3>4, <3>5 DEF InHand, Holding
    <2>4. FirstKeepsNothing' /\ WayBack'
        BY <1>0, <1>6 DEF UpdateShape, InHand, IsAnnounced, FirstKeepsNothing, WayBack, Stage,
           Acquired, Refused
    <2>5. HealthIsOfRun' /\ ServiceNamesItself' /\ TimesArePast'
        BY <1>0, <1>6 DEF UpdateShape, HealthIsOfRun, ServiceNamesItself, TimesArePast, NotServing,
           Stage, Acquired, Refused
    <2> QED
        BY <2>1, <2>2, <2>3, <2>4, <2>5 DEF UpdateInv
<1>7. ASSUME NEW u \in Updaters, Unlink(u)
      PROVE  UpdateInv'
    <2>1. UpdateShape'
        BY <1>0, <1>7 DEF UpdateShape, Files, Cmds, Holding, Idle, Unlink, To
    <2>2. OneUpdater'
        BY <1>0, <1>7 DEF UpdateShape, OneUpdater, Cmds, Holding, Idle, Unlink, To
    <2>3. \A v \in Updaters : InHand(v)'
        BY <1>0, <1>7 DEF UpdateShape, OneUpdater, InHand, IsAnnounced, Outstanding, Cmds, Holding,
           Idle, Unlink, To
    <2>4. FirstKeepsNothing' /\ WayBack'
        <3>1. bin \in Images /\ cmd[u].image /= bin /\ ~Outstanding(cmd[u].image)
            BY <1>0, <1>7 DEF InHand, Unlink
        <3>2. record /= NoImage /\ record.outcome /= "activated" => record.target = cmd[u].image
            BY <3>1, <1>0 DEF Outstanding, UpdateShape, Records, Outcomes
        <3>3. bin' = bin /\ record' = record /\ prev' \in {NoImage, Torn, bin}
            BY <1>7 DEF Unlink
        <3> QED
            BY <3>1, <3>2, <3>3, ImagesAssumption DEF FirstKeepsNothing, WayBack
    <2>5. HealthIsOfRun' /\ ServiceNamesItself' /\ TimesArePast'
        BY <1>0, <1>7 DEF UpdateShape, HealthIsOfRun, ServiceNamesItself, TimesArePast, NotServing,
           Unlink, To
    <2> QED
        BY <2>1, <2>2, <2>3, <2>4, <2>5 DEF UpdateInv
<1>8. ASSUME NEW u \in Updaters, Snapshot(u)
      PROVE  UpdateInv'
    <2>1. UpdateShape'
        BY <1>0, <1>8 DEF UpdateShape, Files, Cmds, Holding, Idle, Snapshot, To
    <2>2. OneUpdater'
        BY <1>0, <1>8 DEF UpdateShape, OneUpdater, Cmds, Holding, Idle, Snapshot, To
    <2>3. \A v \in Updaters : InHand(v)'
        BY <1>0, <1>8 DEF UpdateShape, OneUpdater, InHand, IsAnnounced, Outstanding, Cmds, Holding,
           Idle, Snapshot, To
    <2>4. FirstKeepsNothing' /\ WayBack'
        <3>1. bin \in Images /\ cmd[u].image /= bin /\ ~Outstanding(cmd[u].image)
            BY <1>0, <1>8 DEF InHand, Snapshot
        <3>2. record /= NoImage /\ record.outcome /= "activated" => record.target = cmd[u].image
            BY <3>1, <1>0 DEF Outstanding, UpdateShape, Records, Outcomes
        <3>3. bin' = bin /\ record' = record /\ prev' \in {NoImage, Torn, bin}
            BY <1>8 DEF Snapshot
        <3> QED
            BY <3>1, <3>2, <3>3, ImagesAssumption DEF FirstKeepsNothing, WayBack
    <2>5. HealthIsOfRun' /\ ServiceNamesItself' /\ TimesArePast'
        BY <1>0, <1>8 DEF UpdateShape, HealthIsOfRun, ServiceNamesItself, TimesArePast, NotServing,
           Snapshot, To
    <2> QED
        BY <2>1, <2>2, <2>3, <2>4, <2>5 DEF UpdateInv
<1>9. ASSUME NEW u \in Updaters, SnapshotTorn(u)
      PROVE  UpdateInv'
    <2>1. UpdateShape'
        <3>1. spent' \in [commands : Nat, faults : Nat, starts : Nat, turns : Nat]
            BY <1>0, <1>9 DEF UpdateShape, SnapshotTorn, Return, Fault
        <3>2. cmd' \in [Updaters -> Cmds]
            BY <1>0, <1>9 DEF UpdateShape, Cmds, Holding, Idle, SnapshotTorn, Return, Fault
        <3> QED
            BY <3>1, <3>2, <1>0, <1>9, ImagesAssumption DEF UpdateShape, Files, SnapshotTorn,
               Return, Fault
    <2>2. OneUpdater'
        BY <1>0, <1>9 DEF UpdateShape, OneUpdater, Cmds, Holding, Idle, SnapshotTorn, Return
    <2>3. \A v \in Updaters : InHand(v)'
        BY <1>0, <1>9 DEF UpdateShape, OneUpdater, InHand, IsAnnounced, Outstanding, Cmds, Holding,
           Idle, SnapshotTorn, Return
    <2>4. FirstKeepsNothing' /\ WayBack'
        <3>1. bin \in Images /\ cmd[u].image /= bin /\ ~Outstanding(cmd[u].image)
            BY <1>0, <1>9 DEF InHand, SnapshotTorn
        <3>2. record /= NoImage /\ record.outcome /= "activated" => record.target = cmd[u].image
            BY <3>1, <1>0 DEF Outstanding, UpdateShape, Records, Outcomes
        <3>3. bin' = bin /\ record' = record /\ prev' \in {NoImage, Torn, bin}
            BY <1>9 DEF SnapshotTorn
        <3> QED
            BY <3>1, <3>2, <3>3, ImagesAssumption DEF FirstKeepsNothing, WayBack
    <2>5. HealthIsOfRun' /\ ServiceNamesItself' /\ TimesArePast'
        BY <1>0, <1>9 DEF UpdateShape, HealthIsOfRun, ServiceNamesItself, TimesArePast, NotServing,
           SnapshotTorn, Return
    <2> QED
        BY <2>1, <2>2, <2>3, <2>4, <2>5 DEF UpdateInv
<1>10. ASSUME NEW u \in Updaters, BeginRollback(u)
      PROVE  UpdateInv'
    <2>1. UpdateShape'
        <3>1. spent' \in [commands : Nat, faults : Nat, starts : Nat, turns : Nat]
            BY <1>0, <1>10 DEF UpdateShape, BeginRollback, Begin
        <3>2. cmd' \in [Updaters -> Cmds]
            BY <1>0, <1>10 DEF UpdateShape, Cmds, Holding, Idle, BeginRollback, Begin
        <3> QED
            BY <3>1, <3>2, <1>0, <1>10, ImagesAssumption DEF UpdateShape, Files, BeginRollback,
               Begin
    <2>2. OneUpdater'
        BY <1>0, <1>10 DEF UpdateShape, OneUpdater, Cmds, Holding, Idle, BeginRollback, Begin
    <2>3. \A v \in Updaters : InHand(v)'
        BY <1>0, <1>10 DEF UpdateShape, OneUpdater, InHand, IsAnnounced, Outstanding, Cmds,
           Holding, Idle, BeginRollback, Begin
    <2>4. FirstKeepsNothing' /\ WayBack'
        BY <1>0, <1>10 DEF UpdateShape, InHand, IsAnnounced, FirstKeepsNothing, WayBack,
           BeginRollback, Begin
    <2>5. HealthIsOfRun' /\ ServiceNamesItself' /\ TimesArePast'
        BY <1>0, <1>10 DEF UpdateShape, HealthIsOfRun, ServiceNamesItself, TimesArePast,
           NotServing, BeginRollback, Begin
    <2> QED
        BY <2>1, <2>2, <2>3, <2>4, <2>5 DEF UpdateInv
<1>11. ASSUME NEW u \in Updaters, RefuseRollback(u)
      PROVE  UpdateInv'
    <2>1. UpdateShape'
        BY <1>0, <1>11 DEF UpdateShape, Files, Cmds, Holding, Idle, RefuseRollback, Acquired, Return
    <2>2. OneUpdater'
        BY <1>0, <1>11 DEF UpdateShape, OneUpdater, Cmds, Holding, Idle, RefuseRollback, Acquired,
           Return
    <2>3. \A v \in Updaters : InHand(v)'
        BY <1>0, <1>11 DEF UpdateShape, OneUpdater, InHand, IsAnnounced, Outstanding, Cmds,
           Holding, Idle, RefuseRollback, Acquired, Return
    <2>4. FirstKeepsNothing' /\ WayBack'
        BY <1>0, <1>11 DEF UpdateShape, InHand, IsAnnounced, FirstKeepsNothing, WayBack,
           RefuseRollback, Acquired, Return
    <2>5. HealthIsOfRun' /\ ServiceNamesItself' /\ TimesArePast'
        BY <1>0, <1>11 DEF UpdateShape, HealthIsOfRun, ServiceNamesItself, TimesArePast,
           NotServing, RefuseRollback, Acquired, Return
    <2> QED
        BY <2>1, <2>2, <2>3, <2>4, <2>5 DEF UpdateInv
<1>12. ASSUME NEW u \in Updaters, Keep(u)
      PROVE  UpdateInv'
    <2>1. UpdateShape'
        BY <1>0, <1>12 DEF UpdateShape, Files, Cmds, Holding, Idle, Keep, To
    <2>2. OneUpdater'
        BY <1>0, <1>12 DEF UpdateShape, OneUpdater, Cmds, Holding, Idle, Keep, To
    <2>3. \A v \in Updaters : InHand(v)'
        BY <1>0, <1>12 DEF UpdateShape, OneUpdater, InHand, IsAnnounced, Outstanding, Cmds,
           Holding, Idle, Keep, To
    <2>4. FirstKeepsNothing' /\ WayBack'
        BY <1>0, <1>12 DEF UpdateShape, InHand, IsAnnounced, FirstKeepsNothing, WayBack, Keep, To
    <2>5. HealthIsOfRun' /\ ServiceNamesItself' /\ TimesArePast'
        BY <1>0, <1>12 DEF UpdateShape, HealthIsOfRun, ServiceNamesItself, TimesArePast,
           NotServing, Keep, To
    <2> QED
        BY <2>1, <2>2, <2>3, <2>4, <2>5 DEF UpdateInv
<1>13. ASSUME NEW u \in Updaters, NEW named \in BOOLEAN, StageRollback(u, named)
      PROVE  UpdateInv'
    <2>1. UpdateShape'
        <3>1. cmd[u] \in Cmds
            BY <1>0 DEF UpdateShape
        <3>2. [cmd[u] EXCEPT !.pc = "announce", !.image = prev, !.keep = bin,
                           !.named = named \/ (record /= NoImage /\ record.named)] \in Cmds
            BY <3>1, <1>13, <1>0 DEF UpdateShape, Cmds, Holding, StageRollback, Restorable
        <3>3. cmd' = [cmd EXCEPT ![u] = [cmd[u] EXCEPT !.pc = "announce", !.image = prev, !.keep = bin,
                           !.named = named \/ (record /= NoImage /\ record.named)]]
            BY <1>13 DEF StageRollback
        <3>4. cmd' \in [Updaters -> Cmds]
            BY <3>2, <3>3, <1>0 DEF UpdateShape
        <3> QED
            BY <3>4, <1>13, <1>0 DEF UpdateShape, StageRollback
    <2>2. OneUpdater'
        BY <1>0, <1>13 DEF UpdateShape, OneUpdater, Cmds, Holding, Idle, StageRollback, Acquired,
           Restorable
    <2>3. \A v \in Updaters : InHand(v)'
        BY <1>0, <1>13 DEF UpdateShape, OneUpdater, InHand, IsAnnounced, Outstanding, Cmds,
           Holding, Idle, StageRollback, Acquired, Restorable
    <2>4. FirstKeepsNothing' /\ WayBack'
        BY <1>0, <1>13 DEF UpdateShape, InHand, IsAnnounced, FirstKeepsNothing, WayBack,
           StageRollback, Acquired, Restorable
    <2>5. HealthIsOfRun' /\ ServiceNamesItself' /\ TimesArePast'
        BY <1>0, <1>13 DEF UpdateShape, HealthIsOfRun, ServiceNamesItself, TimesArePast,
           NotServing, StageRollback, Acquired, Restorable
    <2> QED
        BY <2>1, <2>2, <2>3, <2>4, <2>5 DEF UpdateInv
<1>14. ASSUME NEW u \in Updaters, NEW op \in {"activate", "retry"}, BeginActivate(u, op)
      PROVE  UpdateInv'
    <2>1. UpdateShape'
        <3>1. spent' \in [commands : Nat, faults : Nat, starts : Nat, turns : Nat]
            BY <1>0, <1>14 DEF UpdateShape, BeginActivate, Begin
        <3>2. cmd' \in [Updaters -> Cmds]
            BY <1>0, <1>14 DEF UpdateShape, Cmds, Holding, Idle, BeginActivate, Begin
        <3> QED
            BY <3>1, <3>2, <1>0, <1>14, ImagesAssumption DEF UpdateShape, Files, BeginActivate,
               Begin
    <2>2. OneUpdater'
        BY <1>0, <1>14 DEF UpdateShape, OneUpdater, Cmds, Holding, Idle, BeginActivate, Begin
    <2>3. \A v \in Updaters : InHand(v)'
        BY <1>0, <1>14 DEF UpdateShape, OneUpdater, InHand, IsAnnounced, Outstanding, Cmds,
           Holding, Idle, BeginActivate, Begin
    <2>4. FirstKeepsNothing' /\ WayBack'
        BY <1>0, <1>14 DEF UpdateShape, InHand, IsAnnounced, FirstKeepsNothing, WayBack,
           BeginActivate, Begin
    <2>5. HealthIsOfRun' /\ ServiceNamesItself' /\ TimesArePast'
        BY <1>0, <1>14 DEF UpdateShape, HealthIsOfRun, ServiceNamesItself, TimesArePast,
           NotServing, BeginActivate, Begin
    <2> QED
        BY <2>1, <2>2, <2>3, <2>4, <2>5 DEF UpdateInv
<1>15. ASSUME NEW u \in Updaters, Undecided(u)
      PROVE  UpdateInv'
    <2>1. UpdateShape'
        BY <1>0, <1>15 DEF UpdateShape, Files, Cmds, Holding, Idle, Undecided, Acquired, Return
    <2>2. OneUpdater'
        BY <1>0, <1>15 DEF UpdateShape, OneUpdater, Cmds, Holding, Idle, Undecided, Acquired, Return
    <2>3. \A v \in Updaters : InHand(v)'
        BY <1>0, <1>15 DEF UpdateShape, OneUpdater, InHand, IsAnnounced, Outstanding, Cmds,
           Holding, Idle, Undecided, Acquired, Return
    <2>4. FirstKeepsNothing' /\ WayBack'
        BY <1>0, <1>15 DEF UpdateShape, InHand, IsAnnounced, FirstKeepsNothing, WayBack, Undecided,
           Acquired, Return
    <2>5. HealthIsOfRun' /\ ServiceNamesItself' /\ TimesArePast'
        BY <1>0, <1>15 DEF UpdateShape, HealthIsOfRun, ServiceNamesItself, TimesArePast,
           NotServing, Undecided, Acquired, Return
    <2> QED
        BY <2>1, <2>2, <2>3, <2>4, <2>5 DEF UpdateInv
<1>16. ASSUME NEW u \in Updaters, ReadEvidence(u)
      PROVE  UpdateInv'
    <2>1. UpdateShape'
        <3>0. Evidence \in Images \cup {NoImage, Unknown}
            BY <1>0, EvidenceIsImage
        <3>1. cmd[u] \in Cmds
            BY <1>0 DEF UpdateShape
        <3>2. [cmd[u] EXCEPT !.pc = "conclude", !.image = Evidence] \in Cmds
            BY <3>0, <3>1, <1>16, <1>0 DEF UpdateShape, Cmds, Holding
        <3>3. cmd' = [cmd EXCEPT ![u] = [cmd[u] EXCEPT !.pc = "conclude", !.image = Evidence]]
            BY <1>16 DEF ReadEvidence
        <3>4. cmd' \in [Updaters -> Cmds]
            BY <3>2, <3>3, <1>0 DEF UpdateShape
        <3> QED
            BY <3>4, <1>16, <1>0 DEF UpdateShape, ReadEvidence
    <2>2. OneUpdater'
        BY <1>0, <1>16 DEF UpdateShape, OneUpdater, Cmds, Holding, Idle, ReadEvidence, Acquired
    <2>3. \A v \in Updaters : InHand(v)'
        <3>1. cmd'[u].pc = "conclude" /\ cmd'[u].image = Evidence /\ lock' = u
            BY <1>0, <1>16 DEF UpdateShape, ReadEvidence, Acquired, Cmds
        <3>2. record /= NoImage /\ record.outcome /= "activated"
            BY <1>0, <1>16 DEF ReadEvidence, Acquired, Resolved, UpdateShape, Records, Outcomes
        <3>3. record.named => Evidence \in ghost.ran
            <4> SUFFICES ASSUME record.named PROVE Evidence \in ghost.ran
                OBVIOUS
            <4>1. Evidence = health.digest /\ health /= NoImage /\ health.digest /= Unknown
                  /\ ~(health.at < record.at)
                BY <3>2, <1>16 DEF ReadEvidence, Evidence, Premature
            <4>2. health.at \in Nat /\ record.at \in Nat
                BY <3>2, <4>1, <1>0 DEF UpdateShape, Healths, Records
            <4> QED
                BY <3>2, <4>1, <4>2, <1>0 DEF HealthIsOfRun
        <3>4. InHand(u)'
            BY <3>1, <3>2, <3>3, <1>16 DEF InHand, ReadEvidence
        <3>5. \A v \in Updaters : v /= u => cmd'[v].pc \notin Holding
            BY <1>0, <1>16 DEF OneUpdater, ReadEvidence, Acquired, UpdateShape
        <3> QED
            BY <3>4, <3>5 DEF InHand, Holding
    <2>4. FirstKeepsNothing' /\ WayBack'
        BY <1>0, <1>16 DEF UpdateShape, InHand, IsAnnounced, FirstKeepsNothing, WayBack,
           ReadEvidence, Acquired
    <2>5. HealthIsOfRun' /\ ServiceNamesItself' /\ TimesArePast'
        BY <1>0, <1>16 DEF UpdateShape, HealthIsOfRun, ServiceNamesItself, TimesArePast,
           NotServing, ReadEvidence, Acquired
    <2> QED
        BY <2>1, <2>2, <2>3, <2>4, <2>5 DEF UpdateInv
<1>17. ASSUME NEW u \in Updaters, Conclude(u)
      PROVE  UpdateInv'
    <2>1. UpdateShape'
        <3>1. record \in Records
            BY <1>0, <1>17 DEF UpdateShape, InHand, Conclude
        <3>2. record' \in Records
            BY <3>1, <1>17 DEF Conclude, Records, Outcomes
        <3>3. cmd' \in [Updaters -> Cmds] /\ lock' \in Updaters \cup {NoUpdater}
            BY <1>0, <1>17 DEF UpdateShape, Conclude, Return, Cmds, Holding, Idle
        <3> QED
            BY <3>2, <3>3, <1>0, <1>17 DEF UpdateShape, Conclude
    <2>2. OneUpdater'
        BY <1>0, <1>17 DEF UpdateShape, OneUpdater, Cmds, Holding, Idle, Conclude, Return
    <2>3. \A v \in Updaters : InHand(v)'
        BY <1>0, <1>17 DEF UpdateShape, OneUpdater, InHand, IsAnnounced, Outstanding, Cmds,
           Holding, Idle, Conclude, Return
    <2>4. FirstKeepsNothing' /\ WayBack'
        BY <1>0, <1>17 DEF UpdateShape, InHand, IsAnnounced, FirstKeepsNothing, WayBack, Conclude,
           Return
    <2>5. HealthIsOfRun' /\ ServiceNamesItself' /\ TimesArePast'
        <3>1. record \in Records
            BY <1>0, <1>17 DEF UpdateShape, InHand, Conclude
        <3>2. record'.at = record.at /\ record /= NoImage
            BY <3>1, <1>0, <1>17 DEF InHand, Conclude, Records
        <3> QED
            BY <3>2, <1>0, <1>17 DEF HealthIsOfRun, ServiceNamesItself, TimesArePast, Conclude
    <2> QED
        BY <2>1, <2>2, <2>3, <2>4, <2>5 DEF UpdateInv
<1>18. ASSUME NEW u \in Updaters, Announce(u)
      PROVE  UpdateInv'
    <2>1. UpdateShape'
        <3>1. cmd[u] \in Cmds /\ cmd[u].image \in Images /\ clock' = clock + 1 /\ clock \in Nat
            BY <1>0, <1>18 DEF UpdateShape, InHand, Announce
        <3>2. record' \in Records
            BY <3>1, <1>0, <1>18
               DEF UpdateShape, Announce, Announcing, Announced, Record, Records, Outcomes, Cmds
        <3>3. [cmd[u] EXCEPT !.pc = IF cmd[u].op = "apply" THEN "swap" ELSE "keep"] \in Cmds
            BY <3>1 DEF Cmds, Holding
        <3>4. cmd' \in [Updaters -> Cmds]
            BY <3>3, <1>0, <1>18 DEF UpdateShape, Announce, To
        <3>5. ghost' = [ghost EXCEPT !.ran = {}, !.restarted = FALSE]
            BY <1>18 DEF Announce
        <3> QED
            BY <3>1, <3>2, <3>4, <3>5, <1>0, <1>18 DEF UpdateShape, Announce
    <2>2. OneUpdater'
        BY <1>0, <1>18 DEF UpdateShape, OneUpdater, Cmds, Holding, Idle, Announce, Announcing,
           Announced, Record, To
    <2>3. \A v \in Updaters : InHand(v)'
        BY <1>0, <1>18 DEF UpdateShape, OneUpdater, InHand, IsAnnounced, Outstanding, Cmds,
           Holding, Idle, Announce, Announcing, Announced, Record, To
    <2>4. FirstKeepsNothing' /\ WayBack'
        BY <1>0, <1>18 DEF UpdateShape, InHand, IsAnnounced, FirstKeepsNothing, WayBack, Announce,
           Announcing, Announced, Record, To
    <2>5. HealthIsOfRun' /\ ServiceNamesItself' /\ TimesArePast'
        <3>1. record'.at = clock + 1 /\ clock' = clock + 1 /\ clock \in Nat
            BY <1>0, <1>18 DEF UpdateShape, Announce, Announcing, Announced, Record
        <3>2. health /= NoImage => health.at \in Nat /\ health.at <= clock
            BY <1>0 DEF UpdateShape, Healths, TimesArePast
        <3>3. HealthIsOfRun'
            BY <3>1, <3>2, <1>18 DEF HealthIsOfRun, Announce
        <3>4. marker /= NoImage => marker \in Nat /\ marker <= clock
            BY <1>0 DEF UpdateShape, TimesArePast
        <3>5. TimesArePast'
            BY <3>1, <3>2, <3>4, <1>0, <1>18 DEF TimesArePast, Announce, UpdateShape
        <3> QED
            BY <3>3, <3>5, <1>0, <1>18 DEF ServiceNamesItself, Announce
    <2> QED
        BY <2>1, <2>2, <2>3, <2>4, <2>5 DEF UpdateInv
<1>19. ASSUME NEW u \in Updaters, Swap(u)
      PROVE  UpdateInv'
    <2>1. UpdateShape'
        <3>1. cmd[u] \in Cmds /\ cmd[u].image \in Images
            BY <1>0, <1>19 DEF UpdateShape, InHand, IsAnnounced, Swap, Records
        <3>2. [cmd[u] EXCEPT !.pc = "record"] \in Cmds
            BY <3>1 DEF Cmds, Holding
        <3>3. cmd' \in [Updaters -> Cmds]
            BY <3>2, <1>0, <1>19 DEF UpdateShape, Swap, To
        <3>4. service' \in Services
            BY <1>0, <1>19 DEF UpdateShape, Swap, Services
        <3> QED
            BY <3>1, <3>3, <3>4, <1>0, <1>19 DEF UpdateShape, Swap
    <2>2. OneUpdater'
        BY <1>0, <1>19 DEF UpdateShape, OneUpdater, Cmds, Holding, Idle, Swap, To
    <2>3. \A v \in Updaters : InHand(v)'
        <3>1. cmd[u] \in Cmds /\ cmd[u].image \in Images
            BY <1>0, <1>19 DEF UpdateShape, InHand, IsAnnounced, Swap, Records
        <3>2. cmd'[u].pc = "record" /\ cmd'[u].image = cmd[u].image
            BY <3>1, <1>0, <1>19 DEF UpdateShape, Swap, To, Cmds
        <3>3. InHand(u)'
            BY <3>1, <3>2 DEF InHand
        <3>4. lock = u
            BY <1>0, <1>19 DEF OneUpdater, Swap, Holding
        <3>5. \A v \in Updaters : v /= u => cmd'[v].pc \notin Holding
            BY <3>4, <1>0, <1>19 DEF OneUpdater, Swap, To, UpdateShape
        <3> QED
            BY <3>3, <3>5 DEF InHand, Holding
    <2>4. FirstKeepsNothing' /\ WayBack'
        <3>1. IsAnnounced(u) /\ prev = bin
            BY <1>0, <1>19 DEF InHand, Swap
        <3>2. bin' = record.target /\ prev' = record.previous /\ record' = record
            BY <3>1, <1>19 DEF Swap, IsAnnounced
        <3>3. record.target \in Images
            BY <3>1, <1>0 DEF IsAnnounced, UpdateShape, Records
        <3> QED
            BY <3>2, <3>3, ImagesAssumption DEF FirstKeepsNothing, WayBack
    <2>5. HealthIsOfRun' /\ ServiceNamesItself' /\ TimesArePast'
        BY <1>0, <1>19 DEF UpdateShape, HealthIsOfRun, ServiceNamesItself, TimesArePast,
           NotServing, Swap, To
    <2> QED
        BY <2>1, <2>2, <2>3, <2>4, <2>5 DEF UpdateInv
<1>20. ASSUME NEW u \in Updaters, RecordInstalled(u)
      PROVE  UpdateInv'
    <2>1. UpdateShape'
        BY <1>0, <1>20 DEF UpdateShape, Files, Cmds, Holding, Idle, RecordInstalled, Return
    <2>2. OneUpdater'
        BY <1>0, <1>20 DEF UpdateShape, OneUpdater, Cmds, Holding, Idle, RecordInstalled, Return
    <2>3. \A v \in Updaters : InHand(v)'
        BY <1>0, <1>20 DEF UpdateShape, OneUpdater, InHand, IsAnnounced, Outstanding, Cmds,
           Holding, Idle, RecordInstalled, Return
    <2>4. FirstKeepsNothing' /\ WayBack'
        BY <1>0, <1>20 DEF UpdateShape, InHand, IsAnnounced, FirstKeepsNothing, WayBack,
           RecordInstalled, Return
    <2>5. HealthIsOfRun' /\ ServiceNamesItself' /\ TimesArePast'
        BY <1>0, <1>20 DEF UpdateShape, HealthIsOfRun, ServiceNamesItself, TimesArePast,
           NotServing, RecordInstalled, Return
    <2> QED
        BY <2>1, <2>2, <2>3, <2>4, <2>5 DEF UpdateInv
<1>21. ASSUME NEW u \in Updaters, WriteFails(u)
      PROVE  UpdateInv'
    <2>1. UpdateShape'
        BY <1>0, <1>21 DEF UpdateShape, Files, Cmds, Holding, Idle, WriteFails, Return, Fault
    <2>2. OneUpdater'
        BY <1>0, <1>21 DEF UpdateShape, OneUpdater, Cmds, Holding, Idle, WriteFails, Return, Fault
    <2>3. \A v \in Updaters : InHand(v)'
        BY <1>0, <1>21 DEF UpdateShape, OneUpdater, InHand, IsAnnounced, Outstanding, Cmds,
           Holding, Idle, WriteFails, Return, Fault
    <2>4. FirstKeepsNothing' /\ WayBack'
        BY <1>0, <1>21 DEF UpdateShape, InHand, IsAnnounced, FirstKeepsNothing, WayBack,
           WriteFails, Return, Fault
    <2>5. HealthIsOfRun' /\ ServiceNamesItself' /\ TimesArePast'
        BY <1>0, <1>21 DEF UpdateShape, HealthIsOfRun, ServiceNamesItself, TimesArePast,
           NotServing, WriteFails, Return, Fault
    <2> QED
        BY <2>1, <2>2, <2>3, <2>4, <2>5 DEF UpdateInv
<1>22. ASSUME NEW u \in Updaters, Contended(u)
      PROVE  UpdateInv'
    <2>1. UpdateShape'
        BY <1>0, <1>22 DEF UpdateShape, Files, Cmds, Holding, Idle, Contended
    <2>2. OneUpdater'
        BY <1>0, <1>22 DEF UpdateShape, OneUpdater, Cmds, Holding, Idle, Contended
    <2>3. \A v \in Updaters : InHand(v)'
        BY <1>0, <1>22 DEF UpdateShape, OneUpdater, InHand, IsAnnounced, Outstanding, Cmds,
           Holding, Idle, Contended
    <2>4. FirstKeepsNothing' /\ WayBack'
        BY <1>0, <1>22 DEF UpdateShape, InHand, IsAnnounced, FirstKeepsNothing, WayBack, Contended
    <2>5. HealthIsOfRun' /\ ServiceNamesItself' /\ TimesArePast'
        BY <1>0, <1>22 DEF UpdateShape, HealthIsOfRun, ServiceNamesItself, TimesArePast,
           NotServing, Contended
    <2> QED
        BY <2>1, <2>2, <2>3, <2>4, <2>5 DEF UpdateInv
<1>23. ASSUME NEW u \in Updaters, Die(u)
      PROVE  UpdateInv'
    <2>1. UpdateShape'
        BY <1>0, <1>23 DEF UpdateShape, Files, Cmds, Holding, Idle, Die, Return, Fault
    <2>2. OneUpdater'
        BY <1>0, <1>23 DEF UpdateShape, OneUpdater, Cmds, Holding, Idle, Die, Return, Fault
    <2>3. \A v \in Updaters : InHand(v)'
        BY <1>0, <1>23 DEF UpdateShape, OneUpdater, InHand, IsAnnounced, Outstanding, Cmds,
           Holding, Idle, Die, Return, Fault
    <2>4. FirstKeepsNothing' /\ WayBack'
        BY <1>0, <1>23 DEF UpdateShape, InHand, IsAnnounced, FirstKeepsNothing, WayBack, Die,
           Return, Fault
    <2>5. HealthIsOfRun' /\ ServiceNamesItself' /\ TimesArePast'
        BY <1>0, <1>23 DEF UpdateShape, HealthIsOfRun, ServiceNamesItself, TimesArePast,
           NotServing, Die, Return, Fault
    <2> QED
        BY <2>1, <2>2, <2>3, <2>4, <2>5 DEF UpdateInv
<1>24. CASE StartService
    <2>1. UpdateShape'
        <3>1. service' \in Services
            BY <1>0, <1>24 DEF UpdateShape, StartService, Services, NotServing
        <3> QED
            BY <3>1, <1>0, <1>24 DEF UpdateShape, StartService
    <2>2. OneUpdater'
        BY <1>0, <1>24 DEF UpdateShape, OneUpdater, Cmds, Holding, Idle, StartService
    <2>3. \A v \in Updaters : InHand(v)'
        BY <1>0, <1>24 DEF UpdateShape, OneUpdater, InHand, IsAnnounced, Outstanding, Cmds,
           Holding, Idle, StartService
    <2>4. FirstKeepsNothing' /\ WayBack'
        BY <1>0, <1>24 DEF UpdateShape, InHand, IsAnnounced, FirstKeepsNothing, WayBack,
           StartService
    <2>5. HealthIsOfRun' /\ ServiceNamesItself' /\ TimesArePast'
        BY <1>0, <1>24 DEF UpdateShape, HealthIsOfRun, ServiceNamesItself, TimesArePast,
           NotServing, StartService
    <2> QED
        BY <2>1, <2>2, <2>3, <2>4, <2>5 DEF UpdateInv
<1>25. CASE StopService
    <2>1. UpdateShape'
        <3>1. service' \in Services
            BY <1>0, <1>25 DEF UpdateShape, StopService, Services, NotServing
        <3> QED
            BY <3>1, <1>0, <1>25 DEF UpdateShape, StopService
    <2>2. OneUpdater'
        BY <1>0, <1>25 DEF UpdateShape, OneUpdater, Cmds, Holding, Idle, StopService
    <2>3. \A v \in Updaters : InHand(v)'
        BY <1>0, <1>25 DEF UpdateShape, OneUpdater, InHand, IsAnnounced, Outstanding, Cmds,
           Holding, Idle, StopService
    <2>4. FirstKeepsNothing' /\ WayBack'
        BY <1>0, <1>25 DEF UpdateShape, InHand, IsAnnounced, FirstKeepsNothing, WayBack, StopService
    <2>5. HealthIsOfRun' /\ ServiceNamesItself' /\ TimesArePast'
        BY <1>0, <1>25 DEF UpdateShape, HealthIsOfRun, ServiceNamesItself, TimesArePast,
           NotServing, StopService
    <2> QED
        BY <2>1, <2>2, <2>3, <2>4, <2>5 DEF UpdateInv
<1>26. CASE Publish
    <2>1. UpdateShape'
        <3> DEFINE d == IF service.digest = NoImage THEN service.image ELSE service.digest
        <3>1. service \in Services /\ service.image \in Images
            BY <1>0, <1>26 DEF UpdateShape, Publish, ServiceNamesItself, Services
        <3>2. d \in Images \cup {Unknown}
            BY <3>1 DEF Services
        <3>3. service' \in Services
            BY <3>1, <3>2, <1>26 DEF Publish, Services
        <3>4. health' \in Healths
            BY <3>1, <3>2, <1>0, <1>26 DEF Publish, Services, Healths, UpdateShape
        <3> QED
            BY <3>3, <3>4, <1>0, <1>26 DEF UpdateShape, Publish
    <2>2. OneUpdater'
        BY <1>0, <1>26 DEF UpdateShape, OneUpdater, Cmds, Holding, Idle, Publish
    <2>3. \A v \in Updaters : InHand(v)'
        BY <1>0, <1>26 DEF UpdateShape, OneUpdater, InHand, IsAnnounced, Outstanding, Cmds,
           Holding, Idle, Publish
    <2>4. FirstKeepsNothing' /\ WayBack'
        BY <1>0, <1>26 DEF UpdateShape, InHand, IsAnnounced, FirstKeepsNothing, WayBack, Publish
    <2>5. HealthIsOfRun' /\ ServiceNamesItself' /\ TimesArePast'
        BY <1>0, <1>26 DEF UpdateShape, HealthIsOfRun, ServiceNamesItself, TimesArePast,
           NotServing, Publish
    <2> QED
        BY <2>1, <2>2, <2>3, <2>4, <2>5 DEF UpdateInv
<1>27. CASE TurnStarts
    <2>1. UpdateShape'
        <3>1. service' \in Services
            BY <1>0, <1>27 DEF UpdateShape, TurnStarts, Services, NotServing
        <3> QED
            BY <3>1, <1>0, <1>27 DEF UpdateShape, TurnStarts
    <2>2. OneUpdater'
        BY <1>0, <1>27 DEF UpdateShape, OneUpdater, Cmds, Holding, Idle, TurnStarts
    <2>3. \A v \in Updaters : InHand(v)'
        BY <1>0, <1>27 DEF UpdateShape, OneUpdater, InHand, IsAnnounced, Outstanding, Cmds,
           Holding, Idle, TurnStarts
    <2>4. FirstKeepsNothing' /\ WayBack'
        BY <1>0, <1>27 DEF UpdateShape, InHand, IsAnnounced, FirstKeepsNothing, WayBack, TurnStarts
    <2>5. HealthIsOfRun' /\ ServiceNamesItself' /\ TimesArePast'
        BY <1>0, <1>27 DEF UpdateShape, HealthIsOfRun, ServiceNamesItself, TimesArePast,
           NotServing, TurnStarts
    <2> QED
        BY <2>1, <2>2, <2>3, <2>4, <2>5 DEF UpdateInv
<1>28. CASE TurnEnds
    <2>1. UpdateShape'
        <3>1. service' \in Services
            BY <1>0, <1>28 DEF UpdateShape, TurnEnds, Services, NotServing
        <3> QED
            BY <3>1, <1>0, <1>28 DEF UpdateShape, TurnEnds
    <2>2. OneUpdater'
        BY <1>0, <1>28 DEF UpdateShape, OneUpdater, Cmds, Holding, Idle, TurnEnds
    <2>3. \A v \in Updaters : InHand(v)'
        BY <1>0, <1>28 DEF UpdateShape, OneUpdater, InHand, IsAnnounced, Outstanding, Cmds,
           Holding, Idle, TurnEnds
    <2>4. FirstKeepsNothing' /\ WayBack'
        BY <1>0, <1>28 DEF UpdateShape, InHand, IsAnnounced, FirstKeepsNothing, WayBack, TurnEnds
    <2>5. HealthIsOfRun' /\ ServiceNamesItself' /\ TimesArePast'
        BY <1>0, <1>28 DEF UpdateShape, HealthIsOfRun, ServiceNamesItself, TimesArePast,
           NotServing, TurnEnds
    <2> QED
        BY <2>1, <2>2, <2>3, <2>4, <2>5 DEF UpdateInv
<1>29. CASE Tick
    <2>1. UpdateShape'
        BY <1>0, <1>29 DEF UpdateShape, Files, Cmds, Holding, Idle, Tick
    <2>2. OneUpdater'
        BY <1>0, <1>29 DEF UpdateShape, OneUpdater, Cmds, Holding, Idle, Tick
    <2>3. \A v \in Updaters : InHand(v)'
        BY <1>0, <1>29 DEF UpdateShape, OneUpdater, InHand, IsAnnounced, Outstanding, Cmds,
           Holding, Idle, Tick
    <2>4. FirstKeepsNothing' /\ WayBack'
        BY <1>0, <1>29 DEF UpdateShape, InHand, IsAnnounced, FirstKeepsNothing, WayBack, Tick
    <2>5. HealthIsOfRun' /\ ServiceNamesItself' /\ TimesArePast'
        <3>1. clock' = clock + 1 /\ clock \in Nat
            BY <1>0, <1>29 DEF UpdateShape, Tick
        <3>2. /\ record /= NoImage => record.at \in Nat
              /\ health /= NoImage => health.at \in Nat
              /\ marker /= NoImage => marker \in Nat
            BY <1>0 DEF UpdateShape, Records, Healths
        <3>3. TimesArePast'
            BY <3>1, <3>2, <1>0, <1>29 DEF TimesArePast, Tick
        <3> QED
            BY <3>3, <1>0, <1>29 DEF HealthIsOfRun, ServiceNamesItself, Tick
    <2> QED
        BY <2>1, <2>2, <2>3, <2>4, <2>5 DEF UpdateInv
<1>30. CASE UNCHANGED vars
    <2>1. UpdateShape'
        BY <1>0, <1>30 DEF UpdateShape, Files, Cmds, Holding, Idle, vars
    <2>2. OneUpdater'
        BY <1>0, <1>30 DEF UpdateShape, OneUpdater, Cmds, Holding, Idle, vars
    <2>3. \A v \in Updaters : InHand(v)'
        BY <1>0, <1>30 DEF UpdateShape, OneUpdater, InHand, IsAnnounced, Outstanding, Cmds,
           Holding, Idle, vars
    <2>4. FirstKeepsNothing' /\ WayBack'
        BY <1>0, <1>30 DEF UpdateShape, InHand, IsAnnounced, FirstKeepsNothing, WayBack, vars
    <2>5. HealthIsOfRun' /\ ServiceNamesItself' /\ TimesArePast'
        BY <1>0, <1>30 DEF UpdateShape, HealthIsOfRun, ServiceNamesItself, TimesArePast,
           NotServing, vars
    <2> QED
        BY <2>1, <2>2, <2>3, <2>4, <2>5 DEF UpdateInv
<1> QED
    BY <1>1, <1>2, <1>3, <1>4, <1>5, <1>6, <1>7, <1>8, <1>9, <1>10, <1>11, <1>12, <1>13, <1>14,
       <1>15, <1>16, <1>17, <1>18, <1>19, <1>20, <1>21, <1>22, <1>23, <1>24, <1>25, <1>26, <1>27,
       <1>28, <1>29, <1>30
       DEF Next, Apply, Rollback, Activate, Replace

\* UpdateInv, of every interleaving of updaters, service and clock.
THEOREM UpdateInvHolds == Spec => []UpdateInv
    BY UpdateInvInit, UpdateInvStep, PTL DEF Spec

-----------------------------------------------------------------------------

\* RollbackTargetKept: whatever updater ran, failed or died, an installed
\* replacement that is unproven or has failed can be taken back (install.rs,
\* apply_verified, rollback_inner, copy_to_new_executable).
THEOREM RollbackTargetStays == Spec => []RollbackTargetKept
<1>1. UpdateInv => RollbackTargetKept
    BY DEF UpdateInv, WayBack, RollbackTargetKept
<1> QED
    BY <1>1, UpdateInvHolds, PTL

-----------------------------------------------------------------------------

\* A record that is announced is no absent one, in the abstract state either.
LEMMA ViewOfRecord ==
  ASSUME UpdateShape, record /= NoImage
  PROVE  /\ AnnouncedView /= NoImage
         /\ AnnouncedView.target = record.target
         /\ AnnouncedView.previous = record.previous
         /\ AnnouncedView.outcome = record.outcome
<1>1. record \in Records
    BY DEF UpdateShape
<1>2. AnnouncedView = [target |-> record.target, previous |-> record.previous,
                       outcome |-> record.outcome]
    BY DEF AnnouncedView
<1>3. AnnouncedView \in [target : Images, previous : Images \cup {NoImage},
                         outcome : {"pending", "activated", "failed"}]
    BY <1>1, <1>2 DEF Records, Outcomes
<1> QED
    BY <1>2, <1>3, AbsentAssumption

\* What leaves the installed image and the record alone is a stutter.
LEMMA QuietForGenerations ==
  ASSUME bin' = bin, record' = record
  PROVE  [Generations!Next]_<<bin, AnnouncedView>>
    BY DEF AnnouncedView

\* Writing the record announces a replacement: nothing is outstanding, or it is
\* the same image again, or the image that was kept.
LEMMA AnnounceAnnounces ==
  ASSUME UpdateInv, UpdateShape', NEW u \in Updaters, Announce(u)
  PROVE  Generations!Announce(cmd[u].image)
<1> DEFINE image == cmd[u].image
<1>1. UpdateShape /\ InHand(u) /\ WayBack
    BY DEF UpdateInv
<1>2. image /= bin /\ image \in Images
    BY <1>1 DEF InHand, Announce
<1>3. \/ Generations!Settled
      \/ AnnouncedView /= NoImage /\ image \in {AnnouncedView.target, AnnouncedView.previous}
    <2>1. CASE record = NoImage
        BY <2>1 DEF Generations!Settled, AnnouncedView
    <2>2. CASE record /= NoImage /\ record.outcome = "activated"
        BY <2>2, <1>1, ViewOfRecord DEF Generations!Settled
    <2>3. CASE record /= NoImage /\ record.outcome /= "activated"
        <3>1. record.outcome \in {"pending", "failed"}
            BY <2>3, <1>1 DEF UpdateShape, Records, Outcomes
        <3>2. CASE ~Outstanding(image)
            BY <2>3, <3>1, <3>2, <1>1, ViewOfRecord DEF Outstanding
        <3>3. CASE prev = image
            <4>1. image \notin {NoImage, Torn}
                BY <1>2, ImagesAssumption
            <4>2. image \in {record.target, record.previous}
                BY <2>3, <3>3, <4>1, <1>1, <1>2 DEF WayBack
            <4> QED
                BY <4>2, <2>3, <1>1, ViewOfRecord
        <3> QED
            BY <3>2, <3>3, <1>1 DEF InHand, Announce
    <2> QED
        BY <2>1, <2>2, <2>3
<1>4. record' = Announced(image, bin, cmd[u].named) /\ bin' = bin
    BY DEF Announce, Announcing
<1>5. record' /= NoImage
    <2>1. record' \in Records
        BY <1>1, <1>2, <1>4
           DEF Announced, Record, Records, Outcomes, UpdateShape, Cmds
    <2> QED
        BY <2>1, AbsentAssumption DEF Records, Outcomes
<1>6. AnnouncedView' = [target |-> image, previous |-> bin, outcome |-> "pending"]
    BY <1>4, <1>5 DEF AnnouncedView, Announced, Record
<1> QED
    BY <1>2, <1>3, <1>4, <1>6 DEF Generations!Announce

\* The swap installs the announced image while it is pending.
LEMMA SwapSwitches ==
  ASSUME UpdateInv, NEW u \in Updaters, Swap(u)
  PROVE  Generations!Switch
<1>1. UpdateShape /\ IsAnnounced(u)
    BY DEF UpdateInv, InHand, Swap
<1>2. bin' = record.target /\ record' = record
    BY <1>1 DEF Swap, IsAnnounced
<1>3. AnnouncedView' = AnnouncedView
    BY <1>2 DEF AnnouncedView
<1> QED
    BY <1>1, <1>2, <1>3, ViewOfRecord DEF IsAnnounced, Generations!Switch

\* An activation decides an announcement that is not proven.
LEMMA ConcludeDecides ==
  ASSUME UpdateInv, UpdateShape', NEW u \in Updaters, Conclude(u)
  PROVE  \E outcome \in {"activated", "failed"} : Generations!Decide(outcome)
<1>1. UpdateShape /\ record /= NoImage /\ record.outcome /= "activated"
    BY DEF UpdateInv, InHand, Conclude
<1>2. record \in Records
    BY <1>1 DEF UpdateShape
<1> DEFINE verdict == IF cmd[u].image = record.target THEN "activated" ELSE "failed"
<1>3. record' = [record EXCEPT !.outcome = verdict] /\ bin' = bin
    BY DEF Conclude
<1>4. record' \in Records /\ record' /= NoImage
    BY <1>2, <1>3, AbsentAssumption DEF Records, Outcomes
<1>5. AnnouncedView' = [target |-> record.target, previous |-> record.previous,
                        outcome |-> verdict]
    BY <1>2, <1>3, <1>4 DEF AnnouncedView, Records
<1>6. AnnouncedView = [target |-> record.target, previous |-> record.previous,
                       outcome |-> record.outcome]
    BY <1>1 DEF AnnouncedView
<1>7. AnnouncedView' = [AnnouncedView EXCEPT !.outcome = verdict]
    BY <1>5, <1>6
<1> QED
    BY <1>1, <1>3, <1>7, ViewOfRecord DEF Generations!Decide

\* Updaters that race, fail and die implement TwoGenerations: the record precedes
\* the swap, the installed image is the one the outstanding record names, and what
\* is not proven blocks every other release (install.rs, activate.rs).
THEOREM UpdateImplementsGenerations == Spec => GenerationSpec
<1>1. Init => Generations!Init
    BY DEF Init, Generations!Init, AnnouncedView
<1>2. UpdateInv /\ UpdateInv' /\ [Next]_vars => [Generations!Next]_<<bin, AnnouncedView>>
    <2> SUFFICES ASSUME UpdateInv, UpdateInv', [Next]_vars
                 PROVE  [Generations!Next]_<<bin, AnnouncedView>>
        OBVIOUS
    <2>0. UpdateShape /\ UpdateShape' /\ \A v \in Updaters : InHand(v)
        BY DEF UpdateInv
    <2>1. ASSUME NEW u \in Updaters, Announce(u)
          PROVE  [Generations!Next]_<<bin, AnnouncedView>>
        <3>1. cmd[u].image \in Images
            BY <2>0, <2>1 DEF InHand, Announce
        <3> QED
            BY <2>0, <2>1, <3>1, AnnounceAnnounces DEF Generations!Next
    <2>2. ASSUME NEW u \in Updaters, Swap(u)
          PROVE  [Generations!Next]_<<bin, AnnouncedView>>
        BY <2>2, SwapSwitches DEF Generations!Next
    <2>3. ASSUME NEW u \in Updaters, Conclude(u)
          PROVE  [Generations!Next]_<<bin, AnnouncedView>>
        BY <2>0, <2>3, ConcludeDecides DEF Generations!Next
    <2>4. ASSUME NEW u \in Updaters,
                 \/ Apply(u)
                 \/ Rollback(u)
                 \/ BeginRollback(u) \/ Undecided(u) \/ ReadEvidence(u)
                 \/ \E op \in {"activate", "retry"} : BeginActivate(u, op)
                 \/ RecordInstalled(u) \/ WriteFails(u) \/ Contended(u) \/ Die(u)
          PROVE  [Generations!Next]_<<bin, AnnouncedView>>
        <3>1. bin' = bin /\ record' = record
            <4>1. CASE Apply(u)
                BY <4>1
                   DEF Apply, Defer, BeginApply, BeginUntracked, RefuseApply,
                       AlreadyInstalled, Stage, Unlink, Snapshot, SnapshotTorn, disk
            <4>2. CASE Rollback(u)
                BY <4>2 DEF Rollback, BeginRollback, RefuseRollback, Keep, StageRollback, disk
            <4>3. CASE \/ Undecided(u) \/ ReadEvidence(u)
                       \/ \E op \in {"activate", "retry"} : BeginActivate(u, op)
                BY <4>3 DEF Undecided, ReadEvidence, BeginActivate, disk
            <4>4. CASE RecordInstalled(u) \/ WriteFails(u) \/ Contended(u) \/ Die(u)
                BY <4>4 DEF RecordInstalled, WriteFails, Contended, Die, disk
            <4> QED
                BY <2>4, <4>1, <4>2, <4>3, <4>4 DEF Rollback
        <3> QED
            BY <3>1, QuietForGenerations
    <2>5. CASE \/ StartService \/ StopService \/ Publish
               \/ TurnStarts \/ TurnEnds \/ Tick
        <3>1. bin' = bin /\ record' = record
            BY <2>5 DEF StartService, StopService, Publish, TurnStarts, TurnEnds, Tick, disk
        <3> QED
            BY <3>1, QuietForGenerations
    <2>6. CASE UNCHANGED vars
        <3>1. bin' = bin /\ record' = record
            BY <2>6 DEF vars, disk
        <3> QED
            BY <3>1, QuietForGenerations
    <2> QED
        BY <2>1, <2>2, <2>3, <2>4, <2>5, <2>6 DEF Next, Activate, Replace
<1> QED
    BY <1>1, <1>2, UpdateInvHolds, PTL DEF Spec, GenerationSpec, Generations!Spec

-----------------------------------------------------------------------------

\* A step of JudgedByWhatRan, and one of DeferralBounded.
Judges ==
  (record /= NoImage /\ record'.outcome /= record.outcome
     /\ record.named /\ record'.at = record.at) =>
    IF record'.outcome = "activated" THEN record.target \in ghost.ran
    ELSE \E image \in ghost.ran : image /= record.target
Defers ==
  (ghost.deferring /= NoImage /\ ghost'.deferring = ghost.deferring
     /\ spent'.commands > spent.commands /\ cmd' = cmd)
    => clock - ghost.deferring < MaxDefer

\* A command that begins is somewhere else afterwards.
LEMMA BegunIsElsewhere ==
  ASSUME UpdateShape, NEW u \in Updaters, NEW c, cmd[u] = Idle, c.pc = "lock",
         cmd' = [cmd EXCEPT ![u] = c]
  PROVE  cmd' /= cmd
<1>1. cmd'[u].pc = "lock" /\ cmd[u].pc = "idle"
    BY DEF UpdateShape, Idle
<1> QED
    BY <1>1

\* VerdictsAndWaits: a verdict on a named unit is of an image that ran since the
\* announcement, and a deferral is one of a wait that is still bounded
\* (activate.rs serving_for, judge; idle.rs check, busy).
THEOREM VerdictsAndWaitsHold == Spec => VerdictsAndWaits
<1>1. UpdateInv /\ UpdateInv' /\ [Next]_vars => Judges
    <2> SUFFICES ASSUME UpdateInv, UpdateInv', [Next]_vars PROVE Judges
        OBVIOUS
    <2>0. UpdateShape /\ \A v \in Updaters : InHand(v)
        BY DEF UpdateInv
    <2>1. CASE record' = record
        BY <2>1 DEF Judges
    <2>2. ASSUME NEW u \in Updaters, Conclude(u)
          PROVE  Judges
        <3>1. /\ record \in Records
              /\ record.named => cmd[u].image \in ghost.ran
            BY <2>0, <2>2 DEF InHand, Conclude, UpdateShape
        <3>2. record'.outcome = IF cmd[u].image = record.target THEN "activated"
                                ELSE "failed"
            BY <3>1, <2>2 DEF Conclude, Records
        <3> QED
            BY <3>1, <3>2 DEF Judges
    <2>3. ASSUME NEW u \in Updaters, Announce(u)
          PROVE  Judges
        <3>1. record'.at = clock + 1 /\ clock \in Nat
            BY <2>0, <2>3 DEF UpdateShape, Announce, Announcing, Announced, Record
        <3>2. record /= NoImage => record.at \in Nat /\ record.at <= clock
            BY DEF UpdateInv, UpdateShape, Records, TimesArePast
        <3> QED
            BY <3>1, <3>2 DEF Judges
    <2>4. ASSUME NEW u \in Updaters, Apply(u) \/ Rollback(u)
          PROVE  Judges
        <3>1. record' = record
            BY <2>4
               DEF Apply, Defer, BeginApply, BeginUntracked, RefuseApply,
                   AlreadyInstalled, Stage, Unlink, Snapshot, SnapshotTorn, disk,
                   Rollback, BeginRollback, RefuseRollback, Keep, StageRollback
        <3> QED
            BY <3>1, <2>1
    <2>5. ASSUME NEW u \in Updaters,
                 \/ \E op \in {"activate", "retry"} : BeginActivate(u, op)
                 \/ Undecided(u) \/ ReadEvidence(u) \/ Swap(u) \/ RecordInstalled(u)
                 \/ WriteFails(u) \/ Contended(u) \/ Die(u)
          PROVE  Judges
        <3>1. record' = record
            BY <2>5 DEF BeginActivate, Undecided, ReadEvidence, Swap, RecordInstalled,
                        WriteFails, Contended, Die, disk
        <3> QED
            BY <3>1, <2>1
    <2>6. CASE \/ StartService \/ StopService \/ Publish
               \/ TurnStarts \/ TurnEnds \/ Tick \/ UNCHANGED vars
        <3>1. record' = record
            BY <2>6 DEF StartService, StopService, Publish, TurnStarts, TurnEnds, Tick,
                        disk, vars
        <3> QED
            BY <3>1, <2>1
    <2> QED
        BY <2>2, <2>3, <2>4, <2>5, <2>6 DEF Next, Activate, Replace
<1>2. UpdateInv /\ [Next]_vars => Defers
    <2> SUFFICES ASSUME UpdateInv, [Next]_vars PROVE Defers
        OBVIOUS
    <2>0. UpdateShape /\ marker = ghost.deferring /\ (marker /= NoImage => marker <= clock)
        BY DEF UpdateInv, TimesArePast
    <2>a. /\ spent \in [commands : Nat, faults : Nat, starts : Nat, turns : Nat]
          /\ clock \in Nat /\ marker \in {NoImage} \cup Nat
        BY <2>0 DEF UpdateShape
    <2>1. CASE spent'.commands = spent.commands
        <3>1. spent.commands \in Nat
            BY <2>a
        <3> QED
            BY <2>1, <3>1 DEF Defers
    <2>2. ASSUME NEW u \in Updaters, Defer(u)
          PROVE  Defers
        <3> SUFFICES ASSUME marker /= NoImage
                     PROVE  clock - marker < MaxDefer
            BY <2>0 DEF Defers
        <3>1. marker \in Nat /\ ~(marker > clock)
            BY <2>0, <2>a
        <3>2. WaitingSince = marker
            BY <3>1 DEF WaitingSince
        <3> QED
            BY <3>2, <2>2 DEF Defer
    <2>3. ASSUME NEW u \in Updaters, NEW op, Begin(u, op)
          PROVE  Defers
        <3>1. cmd' /= cmd
            BY <2>0, <2>3, BegunIsElsewhere DEF Begin, Idle
        <3> QED
            BY <3>1 DEF Defers
    <2>4. ASSUME NEW u \in Updaters, BeginUntracked(u)
          PROVE  Defers
        <3>1. cmd' /= cmd
            BY <2>0, <2>4, BegunIsElsewhere DEF BeginUntracked, Idle
        <3> QED
            BY <3>1 DEF Defers
    <2>5. ASSUME NEW u \in Updaters,
                 \/ \E image \in Images : RefuseApply(u, image) \/ AlreadyInstalled(u, image)
                 \/ \E image \in Images, named \in BOOLEAN : Stage(u, image, named)
                 \/ Unlink(u) \/ Snapshot(u) \/ SnapshotTorn(u)
                 \/ RefuseRollback(u) \/ Keep(u)
                 \/ \E named \in BOOLEAN : StageRollback(u, named)
          PROVE  Defers
        <3>1. spent'.commands = spent.commands
            BY <2>5, <2>a
               DEF RefuseApply, AlreadyInstalled, Stage, Unlink, Snapshot, SnapshotTorn, Fault,
                   RefuseRollback, Keep, StageRollback
        <3> QED
            BY <3>1, <2>1
    <2>6. ASSUME NEW u \in Updaters,
                 \/ Undecided(u) \/ ReadEvidence(u) \/ Conclude(u) \/ Replace(u)
                 \/ Contended(u) \/ Die(u)
          PROVE  Defers
        <3>1. spent'.commands = spent.commands
            BY <2>6, <2>a
               DEF Undecided, ReadEvidence, Conclude, Replace, Announce, Swap,
                   RecordInstalled, WriteFails, Contended, Die, Fault
        <3> QED
            BY <3>1, <2>1
    <2>7. CASE \/ StartService \/ StopService \/ Publish
               \/ TurnStarts \/ TurnEnds \/ Tick \/ UNCHANGED vars
        <3>1. spent'.commands = spent.commands
            BY <2>7, <2>a
               DEF StartService, StopService, Publish, TurnStarts, TurnEnds, Tick, vars
        <3> QED
            BY <3>1, <2>1
    <2> QED
        BY <2>2, <2>3, <2>4, <2>5, <2>6, <2>7
           DEF Next, Apply, Rollback, Activate, BeginApply, BeginRollback, BeginActivate
<1>3. Spec => [][Judges]_vars
    BY <1>1, UpdateInvHolds, PTL DEF Spec
<1>4. Spec => [][Defers]_vars
    BY <1>2, UpdateInvHolds, PTL DEF Spec
<1>5. Spec => JudgedByWhatRan
    BY <1>3 DEF JudgedByWhatRan, Judges
<1>6. Spec => DeferralBounded
    BY <1>4 DEF DeferralBounded, Defers
<1> QED
    BY <1>5, <1>6 DEF VerdictsAndWaits
=============================================================================
