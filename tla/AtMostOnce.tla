----------------------------- MODULE AtMostOnce -----------------------------
(***************************************************************************)
(* What a session promises about tool calls (src/docs/v0.md, "Session and  *)
(* recovery"): a call the provider asks for is executed at most once over  *)
(* all runs on the journal, its execution lies between two durable marks,  *)
(* and a run starts only when no call is left between them.  An execution  *)
(* that a crash cuts short is never repeated and never acknowledged.       *)
(***************************************************************************)
EXTENDS Naturals

CONSTANT Calls

VARIABLES
    phase,    \* what the journal says of each call
    ran,      \* times the call was handed to the executor
    running   \* a run holds the journal

avars == <<phase, ran, running>>

AInit ==
    /\ phase = [c \in Calls |-> "unseen"]
    /\ ran = [c \in Calls |-> 0]
    /\ running = FALSE

Quiet == \A c \in Calls : phase[c] \in {"unseen", "closed"}

\* A run begins with every earlier call either closed or never asked for.
Begin == ~running /\ Quiet /\ running' = TRUE /\ UNCHANGED <<phase, ran>>

\* The provider asks for a batch of new calls, once the last one is closed.
Propose(cs) ==
    /\ running /\ Quiet
    /\ \A c \in cs : phase[c] = "unseen"
    /\ phase' = [c \in Calls |-> IF c \in cs THEN "proposed" ELSE phase[c]]
    /\ UNCHANGED <<ran, running>>

Advance(c, from, to) ==
    /\ running /\ phase[c] = from
    /\ phase' = [phase EXCEPT ![c] = to]
    /\ UNCHANGED <<ran, running>>

\* One call at a time is between its marks.
Open(c) ==
    /\ \A d \in Calls : phase[d] \notin {"open", "answered"}
    /\ Advance(c, "proposed", "open")

Run(c) ==
    /\ running /\ phase[c] = "open" /\ ran[c] = 0
    /\ ran' = [ran EXCEPT ![c] = 1]
    /\ UNCHANGED <<phase, running>>

Answer(c) == Advance(c, "open", "answered")
Close(c)  == Advance(c, "answered", "closed")

\* The run ends or dies, at any moment.
End == running /\ running' = FALSE /\ UNCHANGED <<phase, ran>>

ANext ==
    \/ Begin \/ End
    \/ \E cs \in SUBSET Calls : Propose(cs)
    \/ \E c \in Calls : Open(c) \/ Run(c) \/ Answer(c) \/ Close(c)

ASpec == AInit /\ [][ANext]_avars

=============================================================================
