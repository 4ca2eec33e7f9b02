----------------------------- MODULE StateBackup -----------------------------
(* `danso backup` and `danso restore` (src/backup.rs) beside a service that   *)
(* goes on serving its chats.                                                 *)
(*                                                                            *)
(* A backup takes no lock.  It copies one component after the other into a    *)
(* private staging directory and publishes it by one rename.  A restore       *)
(* checks the whole archive and the target first, then writes file by file    *)
(* into the target, the configuration first.  The files of the memory and of  *)
(* the two chat trees are names here: the memory's `Notes` do not change,     *)
(* while chats come, change their session and grow their journals as the     *)
(* backup walks.                                                              *)
EXTENDS Naturals, FiniteSets, Sequences

CONSTANTS Chats, Sessions,   \* conversation records and session journals
          Notes,             \* files of the memory trees
          ShapeOf,           \* a note's shape: "plain", "credential" (a name
                             \* that looks like one), "namesake" (the name of
                             \* the token file, elsewhere), "link"
          DepthOf,           \* a note's directory, counted from state/, memories/
          MaxDepth,          \* MAX_SCAN_DEPTH
          MaxEntries,        \* MAX_SCAN_ENTRIES
          MaxBackups, MaxRestores, MaxIncidents    \* bounds of the instance

ASSUME BackupAssumption ==
    /\ MaxDepth \in Nat \ {0} /\ MaxEntries \in Nat \ {0}
    /\ DepthOf \in [Notes -> Nat]
    /\ ShapeOf \in [Notes -> {"plain", "credential", "namesake", "link"}]

CONSTANT NoSession           \* a chat without a record

VARIABLES pointer,   \* [Chats -> Sessions \cup {NoSession}]: conversations/
          journals,  \* the sessions whose journal exists: journals/
          backup,    \* the running `danso backup`
          archives,  \* the published backup-* directories
          restore,   \* the running or last `danso restore`
          target,    \* the files of its target directory
          spent      \* [backups, restores, troubles]: the bounds used up
backupVars == <<pointer, journals, backup, archives, restore, target, spent>>

Trees == <<"config", "memory", "conversations", "journals">>

\* A file of an archive or of a target: its component, its name and what a
\* conversation record points at.
ConfigFile == [in |-> "config", name |-> "config.toml", to |-> NoSession]
NoteFile(n) == [in |-> "memory", name |-> n, to |-> NoSession]
RecordFile(c, s) == [in |-> "conversations", name |-> c, to |-> s]
JournalFile(s) == [in |-> "journals", name |-> s, to |-> NoSession]

\* The directories a restore makes before its first file, and whatever else a
\* target held before.
MadeDirs == [in |-> "dirs", name |-> "dirs", to |-> NoSession]
Unrelated == [in |-> "other", name |-> "other", to |-> NoSession]

\* What a directory listing of one component shows now.
Listing(tree) ==
    CASE tree = "config" -> {ConfigFile}
      [] tree = "memory" -> {NoteFile(n) : n \in Notes}
      [] tree = "conversations" ->
            {RecordFile(c, pointer[c]) : c \in {x \in Chats : pointer[x] # NoSession}}
      [] tree = "journals" -> {JournalFile(s) : s \in journals}

Names(files) == {f.name : f \in files}

NoBackup == [at |-> 0, files |-> {}, seen |-> {}, due |-> {}, warned |-> {}]
NoRestore == [phase |-> "idle", force |-> FALSE, archive |-> {}, left |-> {}]

BackupInit ==
    /\ pointer = [c \in Chats |-> NoSession]
    /\ journals = {}
    /\ backup = NoBackup
    /\ archives = {}
    /\ restore = NoRestore
    /\ target \in {{}, {Unrelated}}
    /\ spent = [backups |-> 0, restores |-> 0, troubles |-> 0]

Used(what) == spent' = [spent EXCEPT ![what] = @ + 1]

------------------------------------------------------------------------------
(* The service.                                                               *)

\* The first prompt of a chat, or /new: the journal is created before the
\* record names its session.
StartSession(s) ==
    /\ s \notin journals
    /\ journals' = journals \cup {s}
    /\ UNCHANGED <<pointer, backup, archives, restore, target, spent>>

\* The conversation record is replaced by one that names the session.
SaveRecord(c, s) ==
    /\ s \in journals /\ \A other \in Chats : pointer[other] # s
    /\ pointer' = [pointer EXCEPT ![c] = s]
    /\ UNCHANGED <<journals, backup, archives, restore, target, spent>>

------------------------------------------------------------------------------
(* danso backup.                                                              *)

\* Mutant of ComponentOrder: the journals first.
ComponentOrderSwapped == <<"config", "memory", "journals", "conversations">>
ComponentOrder == Trees

Walking == backup.at > 0
CurrentTree == ComponentOrder[backup.at]

\* create_at: staging is created and the walk starts with the configuration.
BeginBackup ==
    /\ ~Walking /\ spent.backups < MaxBackups
    /\ backup' = [NoBackup EXCEPT !.at = 1, !.due = {ConfigFile.name}]
    /\ Used("backups")
    /\ UNCHANGED <<pointer, journals, archives, restore, target>>

\* is_excluded_source: a credential-shaped name is skipped without a warning;
\* the token file itself is no note.
Excluded(f) == f.in = "memory" /\ ShapeOf[f.name] = "credential"

Kept(f) == f.in # "memory" \/
           (ShapeOf[f.name] \in {"plain", "namesake", "credential"} /\ DepthOf[f.name] <= MaxDepth)

\* One entry of the open directory: copied as it is now, or left out with a
\* warning.  The limit on the entries of one directory ends the walk of it.
CopyEntry(f) ==
    /\ Walking /\ f \in Listing(CurrentTree) /\ f.name \notin backup.seen
    /\ Cardinality(backup.seen) < MaxEntries
    /\ backup' = [backup EXCEPT
            !.seen = @ \cup {f.name},
            !.files = IF ~Excluded(f) /\ Kept(f) THEN @ \cup {f} ELSE @,
            !.warned = IF ~Excluded(f) /\ ~Kept(f) THEN @ \cup {CurrentTree} ELSE @]
    /\ UNCHANGED <<pointer, journals, archives, restore, target, spent>>

\* The source of one entry cannot be read: a warning, and the entry is left
\* out.  For the configuration it ends the backup (AbortBackup).
SkipEntry(f) ==
    /\ Walking /\ CurrentTree # "config" /\ spent.troubles < MaxIncidents
    /\ f \in Listing(CurrentTree) /\ f.name \notin backup.seen
    /\ Cardinality(backup.seen) < MaxEntries
    /\ backup' = [backup EXCEPT !.seen = @ \cup {f.name}, !.warned = @ \cup {CurrentTree}]
    /\ Used("troubles")
    /\ UNCHANGED <<pointer, journals, archives, restore, target>>

\* Every entry that was there when the directory was opened has been seen (one
\* that appeared later may have been), or the limit was met: on to the next
\* component.
Bounded == Cardinality(backup.seen) >= MaxEntries /\ ~(backup.due \subseteq backup.seen)
NextTree ==
    /\ Walking /\ backup.at < Len(ComponentOrder)
    /\ backup.due \subseteq backup.seen \/ Bounded
    /\ LET next == ComponentOrder[backup.at + 1] IN
       backup' = [backup EXCEPT
            !.at = @ + 1, !.seen = {}, !.due = Names(Listing(next)),
            !.warned = IF Bounded THEN @ \cup {CurrentTree} ELSE @]
    /\ UNCHANGED <<pointer, journals, archives, restore, target, spent>>

\* The manifest is written and the staging directory renamed.
Publish ==
    /\ Walking /\ backup.at = Len(ComponentOrder)
    /\ backup.due \subseteq backup.seen \/ Bounded
    /\ archives' = archives \cup
         {[files |-> backup.files,
           warned |-> IF Bounded THEN backup.warned \cup {CurrentTree} ELSE backup.warned]}
    /\ backup' = NoBackup
    /\ UNCHANGED <<pointer, journals, restore, target, spent>>

\* The destination cannot be written, the configuration cannot be read, or the
\* process dies: what was staged is removed, or stays behind under its .tmp-
\* name, and nothing is published.
AbortBackup ==
    /\ Walking /\ spent.troubles < MaxIncidents
    /\ backup' = NoBackup /\ Used("troubles")
    /\ UNCHANGED <<pointer, journals, archives, restore, target>>

------------------------------------------------------------------------------
(* danso restore.                                                             *)

\* How deep restore's own scan finds the directory of a note: archive, memory/,
\* scope and state/ come before it.
ScanDepth(f) == IF f.in = "memory" THEN DepthOf[f.name] + 3 ELSE 1

\* preflight_backup: every name is checked for credential shape and against the
\* configured token file's name, every directory against the depth bound.
CredentialMaterial(f) == f.in = "memory" /\ ShapeOf[f.name] \in {"credential", "namesake"}
Preflight(a) ==
    /\ ConfigFile \in a.files
    /\ \A f \in a.files : ~CredentialMaterial(f) /\ ScanDepth(f) <= MaxDepth
    /\ \A tree \in {"memory", "conversations", "journals"} :
           Cardinality({f \in a.files : f.in = tree}) <= MaxEntries

\* inspect_target: a target with a configuration is never forced, a target with
\* anything in it must be.
TargetOpen(force) == target = {} \/ (force /\ ConfigFile.name \notin Names(target))

\* The order of the writes: one component after the other, the configuration
\* first.
WriteOrder(f) == CHOOSE i \in DOMAIN Trees : Trees[i] = f.in

BeginRestore(a, force) ==
    /\ restore.phase # "writing" /\ spent.restores < MaxRestores
    /\ Preflight(a) /\ TargetOpen(force)
    /\ restore' = [phase |-> "writing", force |-> force, archive |-> a.files, left |-> a.files]
    /\ target' = target \cup {MadeDirs}
    /\ Used("restores")
    /\ UNCHANGED <<pointer, journals, backup, archives>>

\* write_restore_file: an existing file is replaced only under force.
WriteFile(f) ==
    /\ restore.phase = "writing" /\ f \in restore.left
    /\ \A g \in restore.left : WriteOrder(f) <= WriteOrder(g)
    /\ restore.force \/ f.name \notin Names(target)
    /\ target' = {g \in target : g.in # f.in \/ g.name # f.name} \cup {f}
    /\ restore' = [restore EXCEPT !.left = @ \ {f}]
    /\ UNCHANGED <<pointer, journals, backup, archives, spent>>

\* Every file is written: the report says restored.
Restored ==
    /\ restore.phase = "writing" /\ restore.left = {}
    /\ restore' = [restore EXCEPT !.phase = "restored"]
    /\ UNCHANGED <<pointer, journals, backup, archives, target, spent>>

\* A write fails or the process dies between two files: what is written stays.
AbortRestore ==
    /\ restore.phase = "writing" /\ spent.troubles < MaxIncidents
    /\ restore' = NoRestore /\ Used("troubles")
    /\ UNCHANGED <<pointer, journals, backup, archives, target>>

\* The operator empties the target of a failed restore and starts over.
ClearTarget ==
    /\ restore.phase = "idle" /\ target # {}
    /\ target' = {}
    /\ UNCHANGED <<pointer, journals, backup, archives, restore, spent>>

BackupNext ==
    \/ \E s \in Sessions : StartSession(s) \/ \E c \in Chats : SaveRecord(c, s)
    \/ BeginBackup \/ NextTree \/ Publish \/ AbortBackup
    \/ Walking /\ \E f \in Listing(CurrentTree) : CopyEntry(f) \/ SkipEntry(f)
    \/ \E a \in archives, force \in BOOLEAN : BeginRestore(a, force)
    \/ \E f \in restore.left : WriteFile(f)
    \/ Restored \/ AbortRestore \/ ClearTarget

BackupSpec == BackupInit /\ [][BackupNext]_backupVars

------------------------------------------------------------------------------
\* A published archive of a serving home carries the journal of every session
\* its conversation records name, unless its manifest warns about the journals:
\* a restored chat continues the session it had.  It rests on two orders in two
\* programs: the journal exists before the record, and records are copied first.
JournalsCarried ==
    \A a \in archives : \A f \in a.files :
        f.in = "conversations" /\ "journals" \notin a.warned => JournalFile(f.to) \in a.files

\* What backup publishes, restore accepts: only the name of the token file
\* borne by another file, and directories near the depth bound, which the two
\* commands count from different roots, are archived and then refused.
Refusable(f) ==
    f.in = "memory" /\ (ShapeOf[f.name] = "namesake" \/ DepthOf[f.name] + 3 > MaxDepth)
Restorable == \A a \in archives : (\A f \in a.files : ~Refusable(f)) => Preflight(a)

\* A restore reports success only over a complete copy of one archive, whatever
\* interrupted or earlier restores left in the target: no record, journal or
\* note of another archive is mixed into it, and files that were there before
\* any restore stay only under force.
RestoreHonest ==
    restore.phase = "restored" =>
        /\ target \ {MadeDirs, Unrelated} = restore.archive
        /\ Unrelated \in target => restore.force

\* What a backup takes of a serving home is what a restore gives back: journals
\* with their records, archives that are accepted, and success only over one
\* complete copy (backup.rs).
BackupSound == JournalsCarried /\ Restorable /\ RestoreHonest
==============================================================================
