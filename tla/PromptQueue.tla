---------------------------- MODULE PromptQueue ----------------------------
(***************************************************************************)
(* What a chat promises about the prompts it accepts: they wait in the     *)
(* order of their updates, at most one is in hand at a time, one that has  *)
(* been started never waits again and is never started again, and one that *)
(* could not be started goes back to the head of the queue.                *)
(***************************************************************************)
EXTENDS Naturals, Sequences, SequencesExt

CONSTANT Prompts   \* update ids

VARIABLES waiting,  \* accepted prompts that wait
          held,     \* the prompt in hand, 0 when there is none
          started   \* the prompts a turn was started with

vars == <<waiting, held, started>>

Init == waiting = <<>> /\ held = 0 /\ started = {}

Accept(p) ==
    /\ p \notin started /\ \A q \in ToSet(waiting) \cup {held} : q < p
    /\ waiting' = Append(waiting, p)
    /\ UNCHANGED <<held, started>>

\* A prompt that arrives while nothing waits is taken at once.
Take(p) ==
    /\ waiting = <<>> /\ p \notin started /\ p > held
    /\ held = 0 \/ held \in started
    /\ held' = p
    /\ UNCHANGED <<waiting, started>>

TakeHead ==
    /\ waiting # <<>>
    /\ held = 0 \/ held \in started
    /\ held' = Head(waiting) /\ waiting' = Tail(waiting)
    /\ UNCHANGED started

Start ==
    /\ held # 0 /\ held \notin started
    /\ started' = started \cup {held}
    /\ UNCHANGED <<waiting, held>>

Return ==
    /\ held # 0 /\ held \notin started
    /\ waiting' = <<held>> \o waiting /\ held' = 0
    /\ UNCHANGED started

\* The prompt in hand is done with: its turn ended, was given up or died.
Release == held' = 0 /\ UNCHANGED <<waiting, started>>

\* Neither the save that takes the head nor the one that undoes it came
\* through as reported.
Lose ==
    /\ waiting # <<>> /\ held' = 0
    /\ waiting' = Tail(waiting)
    /\ UNCHANGED started

\* /stop; it may find a finished turn still in hand.
Clear == waiting' = <<>> /\ held' \in {held, 0} /\ UNCHANGED started

Next ==
    \/ \E p \in Prompts : Accept(p) \/ Take(p)
    \/ TakeHead \/ Start \/ Return \/ Release \/ Lose \/ Clear

Spec == Init /\ [][Next]_vars

=============================================================================
