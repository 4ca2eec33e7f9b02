------------------------------ MODULE Compaction ------------------------------
(* Compaction (src/compaction.rs; the part of runtime.rs that calls it): when  *)
(* a request would exceed its limit, the provider is asked for a checkpoint,   *)
(* fragment after fragment, and the conversation goes on with the latest       *)
(* request of the user, the checkpoint, and receipts of the latest tools.      *)
(* The journal keeps everything, and whoever opens it again computes the same  *)
(* conversation from it.                                                       *)
(*                                                                             *)
(* A message is a number of characters, and a character of a tool's result     *)
(* costs two bytes on the wire.                                                *)
EXTENDS Integers, FiniteSets, SequencesExt

CONSTANTS
    CompactAt,     \* the limit, in bytes
    Instructions,  \* bytes of an action request without messages
    RepairPrompt,  \* bytes of a summary request without its fragment
    Spare,         \* bytes of an action request that stay free
    Wording,       \* characters of a checkpoint apart from summary and receipts
    KeptWhole,     \* results that are not elided
    HeadLength, TailLength,    \* what is left of the others
    Marker,        \* characters in between that tell of what is missing
    Allowance,     \* what eliding has to save at least
    MaxReceipts, ReceiptRoom, ReceiptSize,
    MaxFragments,
    SlotsOfRun,    \* requests a run may make
    ToolResults,   \* sequences of sizes: the results of a batch of calls
    MaxWritten,    \* entries of the journal
    MaxOpenings    \* times the journal is opened again

ASSUME CompactionAssumption ==
    /\ {CompactAt, Spare, Instructions, RepairPrompt, Wording, KeptWhole, HeadLength, TailLength,
        Marker, Allowance, MaxReceipts, ReceiptRoom, ReceiptSize} \subseteq Nat
    /\ Marker <= Allowance /\ SlotsOfRun \in Nat \ {0}

VARIABLES
    journaled, \* the journal: messages and checkpoints
    talk,      \* the conversation the run holds
    compacting, \* "talking", "ready" to ask, "asked", "repair", "done", "failed"
    evidence,  \* what is to be summarized: <<message, character>>
    offset,    \* how much of it was
    summary,   \* the size of the summary so far, 0 for null
    fragment,  \* where the fragment in hand ends
    parts,     \* fragments so far
    repairable,\* the one repair is still to be had
    slots,     \* requests left
    openings,
    told       \* history: what is summarized, what of it was asked for, the longest request
compactionVars ==
    <<journaled, talk, compacting, evidence, offset, summary, fragment, parts,
      repairable, slots, openings, told>>

Smaller(a, b) == IF a < b THEN a ELSE b
MaxSummary == CompactAt \div 8

Message(role, call, size) == [role |-> role, call |-> call, size |-> size, receipts |-> <<>>]

------------------------------------------------------------------------------
(* The conversation that a checkpoint leaves.                                  *)

\* The request a person made: no checkpoint, no notice to continue.
LatestUser(q) ==
    LET asked == {i \in 1..Len(q) : q[i].role = "user"}
    IN q[CHOOSE i \in asked : \A j \in asked : j <= i]

Total(q) == FoldLeft(LAMBDA n, r : n + r.size, 0, q)
Fits(receipts) == Len(receipts) <= MaxReceipts /\ Total(receipts) <= ReceiptRoom
\* The oldest go first.
Trimmed(q) ==
    LET from == CHOOSE i \in 1..(Len(q) + 1) :
                   /\ Fits(SubSeq(q, i, Len(q)))
                   /\ \A j \in 1..(i - 1) : ~Fits(SubSeq(q, j, Len(q)))
    IN SubSeq(q, from, Len(q))
ReceiptOf(m) == [call |-> m.call, size |-> Smaller(m.size, ReceiptSize)]

Receipts(q) ==
    LET Collect(kept, m) ==
            CASE m.role = "checkpoint" -> Trimmed(m.receipts)
              [] m.role = "result" -> Trimmed(Append(kept, ReceiptOf(m)))
              [] OTHER -> kept
    IN FoldLeft(Collect, <<>>, q)

\* checkpoint_messages: what a run goes on with, and what an opening computes.
CheckpointMessages(size, q) ==
    LET receipts == Receipts(q)
        whole == Wording + size + Total(receipts)
    IN <<LatestUser(q), [Message("checkpoint", 0, whole) EXCEPT !.receipts = receipts]>>

\* scan_entries.
Reopened(entries) ==
    FoldLeft(LAMBDA q, e : IF e.role = "compaction" THEN CheckpointMessages(e.size, q)
                                                    ELSE Append(q, e), <<>>, entries)

------------------------------------------------------------------------------
(* What is asked.                                                              *)

Weight(role) == IF role = "result" THEN 2 ELSE 1
WireSize(m) == m.size * Weight(m.role)
RequestBytes(q) == Instructions + FoldLeft(LAMBDA n, m : n + WireSize(m), 0, q)

\* Results that are followed by enough later ones, where it saves something.
Stale(q, i) ==
    /\ q[i].role = "result"
    /\ Cardinality({j \in i..Len(q) : q[j].role = "result"}) > KeptWhole
    /\ q[i].size > HeadLength + TailLength + Allowance
Elided(q, i) ==
    LET whole == [k \in 1..q[i].size |-> <<i, k>>]
    IN IF Stale(q, i)
       THEN SubSeq(whole, 1, HeadLength) \o [k \in 1..Marker |-> <<i, 0>>]
            \o SubSeq(whole, q[i].size - TailLength + 1, q[i].size)
       ELSE whole
EvidenceOf(q) == FlattenSeq([i \in 1..Len(q) |-> Elided(q, i)])

\* A summary request for the evidence up to a place, the longer prompt assumed.
SummaryBytes(end) ==
    RepairPrompt + summary
    + FoldLeft(LAMBDA n, c : n + Weight(talk[c[1]].role), 0, SubSeq(evidence, offset + 1, end))
\* The binary search: the most that fits.
FragmentEnd(from) ==
    LET within == {e \in (from + 1)..Len(evidence) : SummaryBytes(e) <= CompactAt}
    IN IF within = {} THEN from ELSE CHOOSE e \in within : \A f \in within : f <= e

------------------------------------------------------------------------------

CompactionInit ==
    /\ journaled = <<Message("user", 1, 2)>> /\ talk = journaled
    /\ compacting = "talking" /\ evidence = <<>> /\ offset = 0 /\ summary = 0
    /\ fragment = 0 /\ parts = 0 /\ repairable = TRUE /\ slots = SlotsOfRun
    /\ openings = 0 /\ told = [of |-> <<>>, asked |-> <<>>, bytes |-> 0]

Summarizing == <<evidence, offset, summary, fragment, parts, repairable, told>>
CompactionFails ==
    /\ compacting' = "failed"
    /\ UNCHANGED <<journaled, talk, openings, Summarizing>>

OverLimit == RequestBytes(talk) > CompactAt
Say(more) ==
    /\ Len(journaled) + Len(more) <= MaxWritten
    /\ journaled' = journaled \o more /\ talk' = talk \o more
    /\ UNCHANGED <<openings, Summarizing>>

\* An action request and the batch of tools it leads to.
ToolExchange(sizes) ==
    /\ compacting = "talking" /\ ~OverLimit /\ slots > 0
    /\ Say(<<Message("assistant", Len(journaled), 1)>>
           \o [i \in 1..Len(sizes) |-> Message("result", Len(journaled) + i, sizes[i])])
    /\ slots' = slots - 1 /\ UNCHANGED compacting
\* An answer cut off, and the notice to continue it.
AnswerCutOff ==
    /\ compacting = "talking" /\ ~OverLimit /\ slots > 0
    /\ Say(<<Message("assistant", Len(journaled), 1), Message("notice", 0, 1)>>)
    /\ slots' = slots - 1 /\ UNCHANGED compacting
AnswerGiven ==
    /\ compacting = "talking" /\ ~OverLimit /\ slots > 0
    /\ Say(<<Message("assistant", Len(journaled), 1)>>)
    /\ slots' = slots - 1 /\ compacting' = "done"

\* The request and the instructions cannot be summarized away.
Begin ==
    /\ compacting = "talking" /\ OverLimit /\ slots > 0
    /\ IF RequestBytes(<<LatestUser(talk)>>) + 2 * MaxSummary + Spare > CompactAt
       THEN CompactionFails
       ELSE /\ compacting' = "ready" /\ evidence' = EvidenceOf(talk)
            /\ offset' = 0 /\ summary' = 0 /\ fragment' = 0 /\ parts' = 0
            /\ repairable' = TRUE /\ told' = [of |-> talk, asked |-> <<>>, bytes |-> 0]
            /\ UNCHANGED <<journaled, talk, openings>>
    /\ UNCHANGED slots

MayAsk == slots > 1

\* The next fragment is asked for, or the one before once more.
RequestSummary(end) ==
    /\ slots' = slots - 1 /\ compacting' = "asked" /\ fragment' = end
    /\ told' = [told EXCEPT !.bytes = IF SummaryBytes(end) > @ THEN SummaryBytes(end) ELSE @]
    /\ UNCHANGED <<journaled, talk, openings, evidence, offset, summary, repairable>>
AskSummary ==
    /\ compacting = "ready"
    /\ IF MayAsk /\ parts < MaxFragments /\ FragmentEnd(offset) > offset
       THEN RequestSummary(FragmentEnd(offset)) /\ parts' = parts + 1
       ELSE CompactionFails /\ UNCHANGED slots
Repair ==
    /\ compacting = "repair"
    /\ IF MayAsk THEN RequestSummary(fragment) /\ UNCHANGED parts
                 ELSE CompactionFails /\ UNCHANGED slots

\* A summary of an allowed size; the last one is the checkpoint, if it helps.  It
\* is in the journal also when nobody can be told of it, which ends the run.
Summarized(size) ==
    /\ compacting = "asked" /\ size \in 1..MaxSummary
    /\ offset' = fragment /\ summary' = size
    /\ told' = [told EXCEPT !.asked = @ \o SubSeq(evidence, offset + 1, fragment)]
    /\ IF offset' < Len(evidence)
       THEN compacting' = "ready" /\ UNCHANGED <<journaled, talk>>
       ELSE LET left == CheckpointMessages(size, talk) IN
            IF RequestBytes(left) <= CompactAt /\ RequestBytes(left) < RequestBytes(talk)
            THEN /\ journaled' = Append(journaled, Message("compaction", 0, size))
                 /\ talk' = left /\ compacting' \in {"talking", "failed"}
            ELSE compacting' = "failed" /\ UNCHANGED <<journaled, talk>>
    /\ UNCHANGED <<evidence, fragment, parts, repairable, slots, openings>>

\* No checkpoint: not JSON, not its fields, or too long.
Unfit ==
    /\ compacting = "asked"
    /\ compacting' = IF repairable THEN "repair" ELSE "failed"
    /\ repairable' = FALSE
    /\ UNCHANGED <<journaled, talk, evidence, offset, summary, fragment, parts, slots,
                   openings, told>>

\* No answer, one that is not text alone, or a journal that cannot be written.
SummaryRefused == compacting \in {"asked", "talking"} /\ CompactionFails /\ UNCHANGED slots

\* The run ended, or was ended; the journal is opened again, for another request
\* or, a long task, to go on.
OpenAgain(anew) ==
    /\ openings < MaxOpenings /\ openings' = openings + 1
    /\ journaled' = IF anew THEN Append(journaled, Message("user", Len(journaled) + 1, 2))
                            ELSE journaled
    /\ talk' = Reopened(journaled') /\ Len(journaled') <= MaxWritten
    /\ compacting' = "talking" /\ slots' = SlotsOfRun
    /\ UNCHANGED Summarizing

CompactionNext ==
    \/ \E sizes \in ToolResults : ToolExchange(sizes)
    \/ AnswerCutOff \/ AnswerGiven \/ Begin \/ AskSummary \/ Repair \/ Unfit \/ SummaryRefused
    \/ \E size \in 1..MaxSummary : Summarized(size)
    \/ \E anew \in BOOLEAN : OpenAgain(anew)

CompactionSpec == CompactionInit /\ [][CompactionNext]_compactionVars

------------------------------------------------------------------------------
(* Properties.                                                                 *)

Compacted == journaled[Len(journaled)].role = "compaction"

\* A run that goes on after a checkpoint, and one that opens the journal later,
\* hold the same conversation (runtime.rs: "inconsistent compacted context").
SameTalk == talk = Reopened(journaled)

\* However often the conversation was compacted, it begins with the request the
\* user made last, and the receipts are those of the latest tools of the whole
\* session (docs/compaction.md: "retained verbatim").
NothingForgotten ==
    Compacted =>
        /\ \E i \in 1..Len(journaled) :
              /\ journaled[i].role = "user" /\ talk[1] = journaled[i]
              /\ \A j \in (i + 1)..Len(journaled) : journaled[j].role # "user"
        /\ LET results == SelectSeq(journaled, LAMBDA m : m.role = "result")
               kept == Len(talk[2].receipts)
               latest(n) == [i \in 1..n |-> ReceiptOf(results[Len(results) - n + i])]
           IN /\ talk[2].receipts = latest(kept)
              /\ kept < Len(results) => ~Fits(latest(kept + 1))

\* A summary was asked for in fragments of which none was too long; together they
\* are the conversation in its order, and of it only the middle of old results is
\* left out.
EvidenceWhole ==
    /\ told.bytes <= CompactAt
    /\ (offset > 0 /\ offset = Len(evidence)) =>
        \A i \in 1..Len(told.of) :
            LET said == SelectSeq(told.asked, LAMBDA c : c[1] = i)
                whole == [k \in 1..told.of[i].size |-> <<i, k>>]
                later == {j \in (i + 1)..Len(told.of) : told.of[j].role = "result"}
            IN \/ said = whole
               \/ /\ told.of[i].role = "result" /\ Cardinality(later) >= KeptWhole
                  /\ Len(said) < told.of[i].size
                  /\ SubSeq(said, 1, HeadLength) = SubSeq(whole, 1, HeadLength)

\* After a compaction a request for the work itself is left, it fits, and there
\* was at most one repair in the compaction (docs/compaction.md).
RoomForWork ==
    /\ compacting \in {"ready", "asked", "repair"} => slots > 0
    /\ (Compacted /\ compacting = "talking") => slots > 0 /\ ~OverLimit

CompactionSound == SameTalk /\ NothingForgotten /\ EvidenceWhole /\ RoomForWork
=============================================================================
