--------------------------- MODULE MemorySnapshot ---------------------------
(* What of the memory a run is given (src/memory/snapshot.rs): the resume      *)
(* pointer, the two memory files, the working state and the facts that are     *)
(* hot, one after the other, each cut to its cap; the facts fill what the rest *)
(* has left of the budget.  The block is injected whole or the run is refused. *)
(*                                                                             *)
(* A document is its length, 0 when it is missing or cannot be read; a lane is *)
(* the scope itself, the shared scope or the tree Danso was migrated from.     *)
EXTENDS Integers, SequencesExt, TLC

CONSTANTS HotFacts,    \* the facts of all lanes, in the order they are read
          Documents,   \* what the lanes hold beside facts: [resume, working, memory, forged]
          Budgeted,    \* the budgets a run may be given
          ResumeCap, MemoryCap, WorkingCap, HotFloor, Slack, BlockCap,
          RankedMost   \* facts a search returns

ASSUME SnapshotAssumption == HotFloor \in Nat \ {0} /\ Budgeted \subseteq Nat

VARIABLES
    block,     \* what is read: the documents, the facts held, the budget; or NoBlock
    stage,     \* "none", "documents", "facts", "search", "fill", "injected", "refused"
    used,      \* length of what is there so far
    eligible,  \* the facts that may be shown, lane after lane
    untried,   \* the facts not tried yet, in order
    hot        \* the facts shown, in order
snapshotVars == <<block, stage, used, eligible, untried, hot>>

NoBlock == [budget |-> 0]
SnapshotInit ==
    block = NoBlock /\ stage = "none" /\ used = 0
    /\ eligible = <<>> /\ untried = <<>> /\ hot = <<>>

CutTo(len, cap) == IF len < cap THEN len ELSE cap
SumCosts(facts) == FoldSet(LAMBDA f, n : f.cost + n, 0, facts)

Assemble(documents, held, budget) ==
    /\ stage = "none"
    /\ block' = [documents |-> documents, held |-> held, budget |-> budget]
    /\ stage' = "documents" /\ UNCHANGED <<used, eligible, untried, hot>>

\* The migrated tree stands in for a pointer or a state that this one lacks; its
\* memory files are added to the others under one cap.
InsteadOf(live, legacy) == IF live > 0 THEN live ELSE legacy
ReadDocuments ==
    /\ stage = "documents"
    /\ LET d == block.documents IN
       used' = CutTo(InsteadOf(d.resume[1], d.resume[2]), ResumeCap)
               + CutTo(FoldLeft(LAMBDA n, len : n + CutTo(len, MemoryCap), 0, d.memory), MemoryCap)
               + CutTo(InsteadOf(d.working[1], d.working[2]), WorkingCap)
    /\ stage' = "facts" /\ UNCHANGED <<block, eligible, untried, hot>>

\* eligible_facts: open facts that were not put aside, a text once.
MayBeHot(f) ==
    /\ f.review \notin {"rejected", "superseded"} /\ f.kind # "observation"
    /\ ~f.closed /\ f.retained
ReadHotFacts ==
    /\ stage = "facts"
    /\ LET open == SelectSeq(HotFacts, LAMBDA f : f \in block.held /\ MayBeHot(f))
           first == SelectSeq([i \in 1..Len(open) |-> i],
                              LAMBDA i : \A j \in 1..(i - 1) : open[j].same # open[i].same)
       IN eligible' = [k \in 1..Len(first) |-> open[first[k]]]
    /\ stage' = "search" /\ UNCHANGED <<block, used, untried, hot>>

\* The constraints, what the search found in its order, and the others; the newest
\* first where nothing else counts.  What is there already is told by the id, and
\* a fact without one has the number of its line.
Newest(q) ==
    LET order == SortSeq([i \in 1..Len(q) |-> <<q[i].observed, i>>],
                         LAMBDA x, y : x[1] > y[1] \/ (x[1] = y[1] /\ x[2] < y[2]))
    IN [k \in 1..Len(q) |-> q[order[k][2]]]
IdsOf(q) == {q[i].id : i \in 1..Len(q)}
FirstWith(id) == eligible[CHOOSE i \in 1..Len(eligible) :
                    eligible[i].id = id /\ \A j \in 1..(i - 1) : eligible[j].id # id]
InOrder(ranked) ==
    LET constraints == Newest(SelectSeq(eligible, LAMBDA f : f.kind = "constraint"))
        found == SelectSeq(ranked, LAMBDA id : id \in IdsOf(eligible) \ IdsOf(constraints))
        matches == [k \in 1..Len(found) |-> FirstWith(found[k])]
        taken == IdsOf(constraints) \cup IdsOf(matches)
    IN constraints \o matches \o Newest(SelectSeq(eligible, LAMBDA f : f.id \notin taken))

\* The search reads the memory again and may fail; what it finds is ranked anyhow.
SearchHot ==
    /\ stage = "search"
    /\ \E found \in SUBSET IdsOf(HotFacts) :
          /\ Cardinality(found) <= RankedMost
          /\ \E ranked \in SetToSeqs(found) : untried' = InOrder(ranked)
    /\ stage' = "fill" /\ UNCHANGED <<block, used, eligible, hot>>

\* What the rest has left of the budget, and never less than a floor.
Alloc == IF block.budget - Slack - used > HotFloor THEN block.budget - Slack - used ELSE HotFloor
Room == Alloc - SumCosts(ToSet(hot))

\* Skip, then fill: what does not fit is left out, and the first is always shown.
TryFact ==
    /\ stage = "fill" /\ untried # <<>>
    /\ hot' = IF hot = <<>> \/ untried[1].cost <= Room THEN Append(hot, untried[1]) ELSE hot
    /\ untried' = Tail(untried) /\ UNCHANGED <<block, stage, used, eligible>>

\* A memory that holds the marks of the block itself is refused, and so is a block
\* that is too long.
Inject ==
    /\ stage = "fill" /\ untried = <<>>
    /\ stage' = IF block.documents.forged \/ used + SumCosts(ToSet(hot)) > BlockCap
                THEN "refused" ELSE "injected"
    /\ UNCHANGED <<block, used, eligible, untried, hot>>

SnapshotNext ==
    \/ /\ stage = "none"
       /\ \E d \in Documents, b \in Budgeted, held \in SUBSET ToSet(HotFacts) : Assemble(d, held, b)
    \/ ReadDocuments \/ ReadHotFacts \/ SearchHot \/ TryFact \/ Inject

SnapshotSpec == SnapshotInit /\ [][SnapshotNext]_snapshotVars

------------------------------------------------------------------------------
\* Nothing that is open and would still fit is left out; a constraint is left out
\* only for constraints, newer ones; no text comes twice.  What is shown fits what
\* was left for it, or is one fact alone.  (A fact is told by its id: of two lanes
\* that number their facts alike, one fact may be missing.)
HotKept ==
    stage \in {"injected", "refused"} =>
      LET shown == ToSet(hot)
          named(f) == \A g \in ToSet(eligible) \ {f} : g.id # f.id
          due == {f \in block.held : MayBeHot(f) /\ \A g \in block.held \ {f} : MayBeHot(g) => g.same # f.same}
      IN /\ \A f \in due \ shown :
              /\ named(f) => SumCosts(shown) + f.cost > Alloc
              /\ f.kind = "constraint" =>
                   f.cost + SumCosts({g \in shown : g.kind = "constraint" /\ g.observed >= f.observed}) > Alloc
         /\ \A f \in shown : MayBeHot(f) /\ \A g \in shown \ {f} : g.same # f.same
         /\ SumCosts(shown) > Alloc => Len(hot) = 1
         /\ eligible # <<>> => hot # <<>>
=============================================================================
