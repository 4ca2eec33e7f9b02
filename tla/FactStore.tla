------------------------------ MODULE FactStore ------------------------------
(* The facts of one private memory scope and their promotion to the shared    *)
(* one (src/memory/facts.rs, promote.rs; `danso memory add` and `close`; the  *)
(* commit of a distilled extraction).                                         *)
(*                                                                            *)
(* A batch of candidates passes the write gates in their fixed order inside   *)
(* one transaction, so a batch is one step here; what a crash does to the     *)
(* transaction itself is the business of module MemoryTransaction.  A batch   *)
(* may come again at any time: a drained job is retried after a crash, after  *)
(* a failure behind its commit, or by an overlapping drain.                   *)
(* A text stands for its normalized form; which texts report progress or      *)
(* completion, and how far two of them overlap, are parameters.               *)
EXTENDS Naturals, Sequences

CONSTANTS Texts, KindOf, SubjectOf,
          Completes, Progress,   \* texts the two vocabularies match
          Mutable,               \* texts of mutable operational state
          Overlap(_, _),         \* shared words of two texts, in tenths
          Batches,               \* what jobs and operators submit
          NoText,
          MaxFacts, MaxSteps, MaxClock, MaxTroubles

\* What a batch is made of: the claimed rank and, for most, a quote to show for it.
FactCandidates ==
    [text : Texts, rank : Nat, quoted : BOOLEAN, manual : BOOLEAN, because : BOOLEAN, from : Nat]

ASSUME FactAssumption ==
    /\ KindOf \in [Texts -> {"decision", "task-progress", "observation", "context", "constraint", "preference"}]
    /\ DOMAIN SubjectOf = Texts
    /\ Completes \subseteq Texts /\ Progress \subseteq Texts /\ Mutable \subseteq Texts
    /\ NoText \notin Texts
    /\ MaxFacts \in Nat /\ Batches \subseteq Seq(FactCandidates)

VARIABLES facts,     \* the interpreted lines of memory-facts.jsonl
          closings,  \* who closed what so far: [by, rank, quoted, text, was]
          shared,    \* the promoted lines of the shared facts file
          audit,     \* the promotion audit: [text, at, src]
          promoting, \* a promotion between its two writes, or NoText
          clock, steps, troubles
factVars == <<facts, closings, shared, audit, promoting, clock, steps, troubles>>

FactInit ==
    /\ facts = <<>> /\ closings = {} /\ shared = <<>> /\ audit = {}
    /\ promoting = <<>> /\ clock = 0 /\ steps = 0 /\ troubles = 0

------------------------------------------------------------------------------
(* The write gates.                                                           *)

TextsOf(lines) == {lines[i].text : i \in DOMAIN lines}
\* interpret: a line whose validity ends before it begins is kept and no longer
\* read, by anything.  `from` is 0 for a fact without a beginning.
WindowHolds(from, until) == from = 0 \/ from < until
Records(lines) == {i \in DOMAIN lines : lines[i].readable}
IsOpen(record) == record.readable /\ ~record.closed /\ record.review # "superseded"
EndedNow(record) == [record EXCEPT !.closed = TRUE, !.readable = WindowHolds(record.from, clock)]

\* Mutant of RankOf: the claimed rank counts.
RankOfClaimed(c) == c.rank
\* validate_rank: an extraction without a quote from its transcript has rank 1.
RankOf(c) == IF c.manual \/ c.rank <= 1 \/ c.quoted THEN c.rank ELSE 1

\* The open progress facts a completion may close, and the one it does: the
\* one it overlaps most; among equals the latest observed, then the first.
Closable(lines, c) ==
    {i \in DOMAIN lines :
        /\ IsOpen(lines[i]) /\ lines[i].supersedes = NoText
        /\ lines[i].text \in Progress /\ c.text \in Completes
        /\ SubjectOf[lines[i].text] = SubjectOf[c.text]
        /\ lines[i].rank <= RankOf(c)
        /\ Overlap(c.text, lines[i].text) >= 4}
Better(c, r, s) ==
    LET x == Overlap(c.text, r.text)  y == Overlap(c.text, s.text)
    IN x > y \/ (x = y /\ r.observed > s.observed)
ClosedBy(lines, c) ==
    LET able == Closable(lines, c)
        best == {i \in able : \A j \in able : ~Better(c, lines[j], lines[i])}
    IN {i \in best : \A j \in best : i <= j}

\* supersede_record.
Superseded(lines, which) ==
    [i \in DOMAIN lines |-> IF i \in which
        THEN [EndedNow(lines[i]) EXCEPT !.review = "superseded"] ELSE lines[i]]

\* Conflict review: an open fact of the same kind with a large overlap.
Conflicts(lines, c) ==
    /\ KindOf[c.text] \notin {"constraint", "observation"}
    /\ \E i \in DOMAIN lines :
           IsOpen(lines[i]) /\ KindOf[lines[i].text] = KindOf[c.text]
           /\ Overlap(c.text, lines[i].text) >= 6

Review(lines, c, closed) ==
    IF closed = {} /\ Conflicts(lines, c) THEN "needs-human"
    ELSE IF c.manual THEN "manual"
    ELSE IF RankOf(c) # c.rank THEN "needs-human" ELSE "auto-local"

\* The gates before supersession: mutable operational state, and a decision
\* without its reason.
Refused(c) ==
    \/ KindOf[c.text] \in {"observation", "context"} /\ c.text \in Mutable
    \/ KindOf[c.text] = "decision" /\ ~c.because

\* The normalized texts met so far: of the file and of this batch.
Seen(s) == {s.lines[i].text : i \in Records(s.lines)} \cup TextsOf(s.added)

\* One candidate through all gates.  Supersession comes before deduplication:
\* a candidate that is already stored still closes what it closes.
Gate(s, c) ==
    LET closed == ClosedBy(s.lines, c)
        after == Superseded(s.lines, closed)
        record == [text |-> c.text, rank |-> RankOf(c), closed |-> FALSE,
                   review |-> Review(after, c, closed), observed |-> clock,
                   from |-> c.from, readable |-> TRUE,
                   supersedes |-> IF closed = {} THEN NoText
                                  ELSE s.lines[CHOOSE i \in closed : TRUE].text]
    IN IF Refused(c) THEN s
       ELSE [lines |-> after,
             added |-> IF c.text \in Seen(s) THEN s.added ELSE Append(s.added, record),
             closings |-> s.closings \cup
                {[by |-> c.text, rank |-> c.rank, quoted |-> c.quoted \/ c.manual,
                  text |-> s.lines[i].text, was |-> s.lines[i].rank] : i \in closed}]

\* gate_and_render: the whole batch, and the rolling tail of the file.
Gated(batch) ==
    LET after[n \in 0..Len(batch)] ==
          IF n = 0 THEN [lines |-> facts, added |-> <<>>, closings |-> closings]
          ELSE Gate(after[n - 1], batch[n])
    IN after[Len(batch)]
Tail1000(lines) == SubSeq(lines, IF Len(lines) > MaxFacts THEN Len(lines) - MaxFacts + 1 ELSE 1,
                          Len(lines))

Step == steps < MaxSteps /\ steps' = steps + 1

\* `danso memory add`, or the commit of an extraction.
ApplyBatch(batch) ==
    /\ Step
    /\ LET out == Gated(batch) IN
       /\ facts' = IF out.added = <<>> /\ out.lines = facts THEN facts
                   ELSE Tail1000(out.lines \o out.added)
       /\ closings' = out.closings
    /\ UNCHANGED <<shared, audit, promoting, clock, troubles>>

\* `danso memory close`: an open fact with that id ends now.
Close(text) ==
    /\ Step
    /\ \E i \in DOMAIN facts : facts[i].text = text /\ facts[i].readable /\ ~facts[i].closed
    /\ facts' = [i \in DOMAIN facts |->
                   IF facts[i].text = text /\ facts[i].readable THEN EndedNow(facts[i]) ELSE facts[i]]
    /\ UNCHANGED <<closings, shared, audit, promoting, clock, troubles>>

Tick ==
    /\ clock < MaxClock /\ clock' = clock + 1
    /\ UNCHANGED <<facts, closings, shared, audit, promoting, steps, troubles>>

------------------------------------------------------------------------------
(* Promotion: the shared facts first, in a transaction; then the audit file.  *)

Source(text) == facts[CHOOSE i \in DOMAIN facts : facts[i].text = text /\ facts[i].readable]
Audited(text) == {a \in audit : a.text = text}

\* The line a promotion of the source builds: its whole content, and the time
\* of the first promotion as far as the audit remembers it.
Built(text) ==
    [text |-> text, src |-> Source(text),
     at |-> IF Audited(text) = {} THEN clock ELSE (CHOOSE a \in Audited(text) : TRUE).at]

Unpromoted(text) == text \notin TextsOf(shared) /\ Audited(text) = {}

\* The shared lines are appended and committed.
Promote(text) ==
    /\ Step /\ promoting = <<>> /\ (\E i \in Records(facts) : facts[i].text = text)
    /\ \A i \in DOMAIN shared : shared[i].text = text => shared[i] = Built(text)
    /\ Unpromoted(text)
    /\ shared' = Append(shared, Built(text))
    /\ promoting' = <<Built(text)>>
    /\ UNCHANGED <<facts, closings, audit, clock, troubles>>

\* The audit line is written after the commit.
WriteAudit ==
    /\ promoting # <<>>
    /\ audit' = audit \cup {promoting[1]}
    /\ promoting' = <<>>
    /\ UNCHANGED <<facts, closings, shared, clock, steps, troubles>>

\* The process dies between the two.
LoseAudit ==
    /\ promoting # <<>> /\ troubles < MaxTroubles
    /\ promoting' = <<>> /\ troubles' = troubles + 1
    /\ UNCHANGED <<facts, closings, shared, audit, clock, steps>>

\* `danso memory undo` of the promotion's commit: the shared line goes, the
\* audit stays.
UndoPromotion ==
    /\ Step /\ promoting = <<>> /\ shared # <<>>
    /\ shared' = SubSeq(shared, 1, Len(shared) - 1)
    /\ UNCHANGED <<facts, closings, audit, promoting, clock, troubles>>

FactNext ==
    \/ \E b \in Batches : ApplyBatch(b)
    \/ \E t \in Texts : Close(t) \/ Promote(t)
    \/ WriteAudit \/ LoseAudit \/ UndoPromotion \/ Tick

FactSpec == FactInit /\ [][FactNext]_factVars

------------------------------------------------------------------------------
\* No statement closes a fact of higher authority than it can show itself: what
\* was said by the user is only ended by the user, by hand or with a quote that
\* is in the transcript.  An extraction may claim any rank it likes.
AuthorityKept ==
    \A c \in closings : c.was <= (IF c.quoted THEN c.rank ELSE 1)

\* However often batches come again, each text is stored once among the lines
\* that are read, and each private fact has one promoted copy.
StoredOnce ==
    /\ \A i, j \in DOMAIN facts :
          facts[i].readable /\ facts[j].readable /\ facts[i].text = facts[j].text => i = j
    /\ \A i, j \in DOMAIN shared : shared[i].text = shared[j].text => i = j

\* One statement closes one fact.
ClosesOne == \A c, d \in closings : c.by = d.by => c.text = d.text
==============================================================================
