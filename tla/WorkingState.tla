---------------------------- MODULE WorkingState ----------------------------
(* The working state of a scope (src/memory/working_state.rs): what a run       *)
(* writes at every compaction and at its end, the copies of what a compaction   *)
(* writes over, of which the newest are kept, and the archive of what runs      *)
(* ended with.  Runs of one scope share the files and no lock.                  *)
(*                                                                              *)
(* A text is the number of its rendering; a file that a crash left in the       *)
(* middle of its first write holds minus that number, and 0 is no file.         *)
EXTENDS Integers, Sequences, FiniteSets

CONSTANTS Recorders,       \* runs that may be going on at a time
          CheckpointsKept,
          MaxRenderings,
          MaxRunCrashes

ASSUME WorkingAssumption == CheckpointsKept \in Nat \ {0} /\ MaxRenderings \in Nat

VARIABLES
    working,     \* working-state.md
    checkpoints, \* all copies ever made, in order: [name, of, there], of 0 where cut off
    archive,     \* session-archive: [name, of]
    recorder,    \* of each run: [at, final, text, seen, name, doomed]
    renderings,  \* texts rendered so far
    crashes,     \* runs that were killed
    replaced     \* what was written over: [of, seen, final], seen being what was copied
workingVars == <<working, checkpoints, archive, recorder, renderings, crashes, replaced>>

NoRecorder == [at |-> "idle", final |-> FALSE, text |-> 0, seen |-> 0, name |-> 0, doomed |-> {}]
WorkingInit ==
    /\ working = 0 /\ checkpoints = <<>> /\ archive = {} /\ renderings = 0
    /\ recorder = [r \in Recorders |-> NoRecorder] /\ crashes = 0 /\ replaced = {}

Present == {i \in 1..Len(checkpoints) : checkpoints[i].there}
CopyNames == {checkpoints[i].name : i \in Present}
At(r, step) == recorder[r].at = step
Goto(r, step) == recorder' = [recorder EXCEPT ![r].at = step]
\* A write that fails ends the run with an error (EventSink::emit, on_run_end).
Fail(r) ==
    /\ recorder' = [recorder EXCEPT ![r] = [NoRecorder EXCEPT !.at = "failed"]]
    /\ UNCHANGED <<working, checkpoints, archive, renderings, crashes, replaced>>

\* render: another text every time, of the summary and of the answer where there is one.
Rendered == renderings + 1
\* on_compaction and on_run_end begin write_state; what a compaction is about to
\* write over is read.
WriteState(r, final) ==
    /\ At(r, "idle") /\ renderings < MaxRenderings
    /\ renderings' = Rendered
    /\ recorder' = [recorder EXCEPT ![r] =
         [NoRecorder EXCEPT !.at = IF ~final /\ working # 0 THEN "name" ELSE "list",
                            !.final = final, !.text = Rendered,
                            !.seen = IF final THEN 0 ELSE working]]
    /\ UNCHANGED <<working, checkpoints, archive, crashes, replaced>>

\* unique_name: the first name that is free, of those of one second.
UniqueName(r) ==
    /\ At(r, "name")
    /\ \E n \in 0..Len(checkpoints) :
          /\ n \notin CopyNames /\ \A m \in 0..(n - 1) : m \in CopyNames
          /\ recorder' = [recorder EXCEPT ![r].at = "copy", ![r].name = n]
    /\ UNCHANGED <<working, checkpoints, archive, renderings, crashes, replaced>>

\* write_private creates the copy; another run may have taken the name.
CopyOf(r, text) == Append(checkpoints, [name |-> recorder[r].name, of |-> text, there |-> TRUE])
WriteCopy(r) ==
    /\ At(r, "copy")
    /\ \/ /\ recorder[r].name \in CopyNames /\ Fail(r)
       \/ /\ recorder[r].name \notin CopyNames
          /\ checkpoints' = CopyOf(r, recorder[r].seen) /\ Goto(r, "list")
          /\ UNCHANGED <<working, archive, renderings, crashes, replaced>>

\* Mutant of Doomed: the copy that was just made is not counted.
DoomedOneMore(present) ==
    {i \in present : Cardinality({j \in present : j > i}) >= CheckpointsKept - 1}
\* prune_checkpoints: by age, all but the newest, from the youngest on (a copy may be
\* listed while another run prunes; where it is gone, that is found at its removal).
\* A name has the second it was made in: that a doomed one comes again would take more
\* copies in a second than are kept, and a copy here is its place, not its name.
Doomed(present) == {i \in present : Cardinality({j \in present : j > i}) >= CheckpointsKept}
ListCopies(r) ==
    /\ At(r, "list")
    /\ recorder' = [recorder EXCEPT ![r].at = "prune", ![r].doomed = Doomed(Present)]
    /\ UNCHANGED <<working, checkpoints, archive, renderings, crashes, replaced>>
RemoveCopy(r) ==
    /\ At(r, "prune")
    /\ \E i \in recorder[r].doomed :
       /\ \A j \in recorder[r].doomed : j <= i
       /\ \/ /\ i \notin Present /\ Fail(r)
          \/ /\ i \in Present /\ checkpoints' = [checkpoints EXCEPT ![i].there = FALSE]
             /\ recorder' = [recorder EXCEPT ![r].doomed = @ \ {i}]
             /\ UNCHANGED <<working, archive, renderings, crashes, replaced>>

\* A state that is there is replaced in one step (atomic_write); the first is created.
AfterWrite(r) == IF recorder[r].final THEN "read" ELSE "idle"
ReplaceState(r) ==
    /\ At(r, "prune") /\ recorder[r].doomed = {} /\ working # 0
    /\ replaced' = replaced \cup {[of |-> working, seen |-> recorder[r].seen, final |-> recorder[r].final]}
    /\ working' = recorder[r].text /\ Goto(r, AfterWrite(r))
    /\ UNCHANGED <<checkpoints, archive, renderings, crashes>>
NoneYet(r) ==
    /\ At(r, "prune") /\ recorder[r].doomed = {} /\ working = 0
    /\ Goto(r, "create") /\ UNCHANGED <<working, checkpoints, archive, renderings, crashes, replaced>>
Create(r) ==
    /\ At(r, "create")
    /\ \/ working # 0 /\ Fail(r)
       \/ /\ working = 0 /\ working' = recorder[r].text /\ Goto(r, AfterWrite(r))
          /\ UNCHANGED <<checkpoints, archive, renderings, crashes, replaced>>

\* on_run_end reads the state again, and files it under the hash of what it read.
ReadAgain(r) ==
    /\ At(r, "read")
    /\ recorder' = [recorder EXCEPT ![r].seen = working,
                      ![r].at = IF \E a \in archive : a.name = working THEN "ended" ELSE "file"]
    /\ UNCHANGED <<working, checkpoints, archive, renderings, crashes, replaced>>
File(r) ==
    /\ At(r, "file")
    /\ \/ (\E a \in archive : a.name = recorder[r].seen) /\ Fail(r)
       \/ /\ \A a \in archive : a.name # recorder[r].seen
          /\ archive' = archive \cup {[name |-> recorder[r].seen, of |-> recorder[r].seen]}
          /\ Goto(r, "ended") /\ UNCHANGED <<working, checkpoints, renderings, crashes, replaced>>

\* A run is killed, in the middle of the write of a new file or elsewhere.
Killed(r) ==
    /\ crashes < MaxRunCrashes /\ recorder[r].at \notin {"idle", "ended", "failed"}
    /\ crashes' = crashes + 1
    /\ recorder' = [recorder EXCEPT ![r] = NoRecorder]
    /\ \/ UNCHANGED <<working, checkpoints, archive>>
       \/ /\ At(r, "copy") /\ recorder[r].name \notin CopyNames
          /\ checkpoints' = CopyOf(r, 0) /\ UNCHANGED <<working, archive>>
       \/ /\ At(r, "create") /\ working = 0
          /\ working' = -recorder[r].text /\ UNCHANGED <<checkpoints, archive>>
       \/ /\ At(r, "file") /\ \A a \in archive : a.name # recorder[r].seen
          /\ archive' = archive \cup {[name |-> recorder[r].seen, of |-> -recorder[r].seen]}
          /\ UNCHANGED <<working, checkpoints>>
    /\ UNCHANGED <<renderings, replaced>>
NextRun(r) ==
    /\ recorder[r].at \in {"ended", "failed"}
    /\ recorder' = [recorder EXCEPT ![r] = NoRecorder]
    /\ UNCHANGED <<working, checkpoints, archive, renderings, crashes, replaced>>

WorkingNext ==
    \E r \in Recorders :
       \/ \E final \in BOOLEAN : WriteState(r, final)
       \/ UniqueName(r) \/ WriteCopy(r) \/ ListCopies(r) \/ RemoveCopy(r)
       \/ ReplaceState(r) \/ NoneYet(r) \/ Create(r) \/ ReadAgain(r) \/ File(r)
       \/ Killed(r) \/ NextRun(r)

WorkingSpec == WorkingInit /\ [][WorkingNext]_workingVars

------------------------------------------------------------------------------
\* A state that was whole stays whole, whoever is killed: only the very first may be
\* cut off, and the next run writes over it.
StateWhole == working < 0 => replaced = {} /\ archive = {}

\* What a compaction wrote over is in a copy, the newest of which are all there,
\* whatever other runs prune and whoever is killed (docs/memory.md: "after the
\* previous state is preserved").  Where another run wrote after the copy was made,
\* what it wrote is lost.
PreviousKept ==
    /\ \A i \in 1..Len(checkpoints) : i > Len(checkpoints) - CheckpointsKept => checkpoints[i].there
    /\ \A w \in replaced : ~w.final /\ w.of = w.seen =>
          \E i \in 1..Len(checkpoints) : checkpoints[i].of = w.of

\* A run that ended has what it ended with in the archive, unless another run wrote
\* over it before it was filed, or was killed filing it, which nothing mends.
ArchiveKept ==
    \A r \in Recorders : At(r, "ended") =>
       \/ [name |-> recorder[r].text, of |-> recorder[r].text] \in archive
       \/ [name |-> recorder[r].text, of |-> -recorder[r].text] \in archive /\ crashes > 0
       \/ \E w \in replaced : w.of = recorder[r].text

WorkingSound == StateWhole /\ PreviousKept /\ ArchiveKept
=============================================================================
