--------------------------- MODULE UndoableStore ---------------------------
(***************************************************************************)
(* What the memory transaction promises its callers: one value that is     *)
(* replaced as a whole, and at most one commit that can be undone, exactly *)
(* as long as nothing else has replaced the value it wrote.  A crash is    *)
(* not an event of this store: whatever it interrupts either happened or   *)
(* did not.                                                                *)
(***************************************************************************)
EXTENDS Naturals

CONSTANT Contents    \* what the store may hold

VARIABLES
    value,   \* what it holds
    undo,    \* {}, or the one commit that can be undone
    edits    \* the number of times someone else has written it

storeVars == <<value, undo, edits>>

Init == value \in Contents /\ undo = {} /\ edits = 0

Commit ==
    \E new \in Contents \ {value} :
        value' = new /\ undo' = {[from |-> value, to |-> new]} /\ edits' = edits

Rollback ==
    \E commit \in undo :
        value = commit.to /\ value' = commit.from /\ undo' = {} /\ edits' = edits

\* Someone else writes the files; no commit is undone or forgotten by that.
Edit == edits' = edits + 1 /\ value' \in Contents /\ undo' = undo

Next == Commit \/ Rollback \/ Edit

Spec == Init /\ [][Next]_storeVars
=============================================================================
