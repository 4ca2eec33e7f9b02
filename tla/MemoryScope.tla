----------------------------- MODULE MemoryScope -----------------------------
(* The files of one memory scope that are written over: the facts, which a    *)
(* batch rewrites in a transaction (memory/facts.rs, promote.rs), and the     *)
(* working state, which a compaction replaces beside any transaction          *)
(* (memory/working_state.rs).  Neither writer touches the files of the other, *)
(* so the scope is the two machines side by side.                             *)
EXTENDS FactStore, WorkingState

ScopeSpec == FactSpec /\ WorkingSpec

\* However batches and compactions come again, overlap and are cut short, a fact is
\* ended with authority only and kept once, in its own scope and in the shared one,
\* and what a compaction wrote over is in a copy or in the archive.
ScopeKept == AuthorityKept /\ StoredOnce /\ WorkingSound
==============================================================================
