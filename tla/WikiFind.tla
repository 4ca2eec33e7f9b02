------------------------------ MODULE WikiFind ------------------------------
(* Searching the wiki (crates/danso-wiki/src/find.rs and what it calls): the  *)
(* query is widened by aliases, every chunk of the index is scored, the best  *)
(* of each page is ranked, and the ranking is shown, withheld for want of     *)
(* evidence, or cut to a budget for an agent's context.                       *)
(*                                                                            *)
(* Scores are integers, in twentieths of the tenths that vectors and words    *)
(* are counted in.  What two texts have in common is a set of words.          *)
EXTENDS Integers, SequencesExt, TLC

CONSTANTS Chunks,      \* the chunks an index may hold, in the order of paths and lines
          Aliases,     \* the lines of the alias page, the representative first
          PageLines,   \* the lines of the cached pages, in the order of their paths
          Queries,     \* sets of words to search for
          AliasCap,    \* aliases a query may gain
          RrfK,        \* the constant of rank fusion
          Budgets,     \* characters of context a prefetch may use
          Tops         \* results asked for

ASSUME FindAssumption ==
    /\ AliasCap \in Nat /\ RrfK \in Nat \ {0}
    /\ Budgets \subseteq Nat /\ Tops \subseteq Nat

VARIABLES
    ask,       \* the question and the settings it is asked under
    index,     \* the chunks of the index, in order
    looked,   \* chunks looked at
    tierOf,    \* <<page, tier>>, of the pages met so far
    found,     \* the best candidate of each page, in the order of the pages; then ranked
    answer,    \* what find reports
    context    \* what prefetch hands to the agent
findVars == <<ask, index, looked, tierOf, found, answer, context>>

NoAnswer == [at |-> "none", results |-> <<>>, text |-> <<>>]
NoContext == [status |-> "none", items |-> <<>>, used |-> 0, truncated |-> FALSE]
NoQuestion == [query |-> {}, fusion |-> "weighted", backend |-> "hashed", intent |-> FALSE,
               abstention |-> FALSE, exclude |-> {}, top |-> 0, budget |-> <<>>]
FindInit ==
    /\ ask = NoQuestion /\ index = <<>> /\ looked = 0 /\ tierOf = {} /\ found = <<>>
    /\ answer = NoAnswer /\ context = NoContext

Highest(s) == CHOOSE x \in s : \A y \in s : y <= x
Least(a, b) == IF a < b THEN a ELSE b

------------------------------------------------------------------------------
(* The query (alias.rs).                                                      *)

Group(line) == {line[i] : i \in 1..Len(line)}
Equivalents(w) == UNION {Group(line) : line \in {l \in Aliases : w \in Group(l)}} \ {w}
Representatives(w) == {line[1] : line \in {l \in Aliases : w \in Group(l)}}

\* expand: the equivalents of the query's words that it lacks, up to the cap.
Extras(query) == (UNION {Equivalents(w) : w \in query}) \ query
Expanded(query) ==
    query \cup (LET order == SetToSeq(Extras(query))
                IN {order[i] : i \in 1..Least(Len(order), AliasCap)})

\* resolve_exact_terms: a word with one representative stands for it.
ExactTerms(query) == UNION {Representatives(w) : w \in {v \in query : Cardinality(Representatives(v)) = 1}}

------------------------------------------------------------------------------
(* One chunk.                                                                 *)

\* Authority::classify, of a page's path and the lead of its first chunk.
Tier(lead) ==
    IF "forwarding" \in lead THEN "forwarding"
    ELSE IF "historical" \in lead THEN "historical"
    ELSE IF "archive" \in lead THEN "archive"
    ELSE IF "canonical" \in lead THEN "canonical" ELSE "standard"
Percent == [canonical |-> 130, standard |-> 100, archive |-> 78, historical |-> 72, forwarding |-> 55]
Multiplier(tier) == IF ask.intent THEN Percent[tier] ELSE 100

\* lexical_score, bm25_score: capped; the words of the expanded query in the chunk.
Matched(c) == Cardinality(c.words \cap ask.widened)
Lexical(c) == Least(4, 2 * Matched(c))
\* The heading holds the query, or a word its aliases stand for.
Exact(c) == IF ask.query \subseteq c.heading \/ ask.exact \cap c.heading # {} THEN 1 ELSE 0

HashedScore(c) == 15 * c.vector + 20 * Lexical(c) + 20 * Exact(c)
Dense(c) == IF ask.backend = "jina" THEN c.dense ELSE <<>>
Component(c) == IF Dense(c)[1] > 0 THEN Dense(c)[1] ELSE 0
Evidence(c) ==
    IF Dense(c) = <<>> THEN HashedScore(c) ELSE 14 * Component(c) + 6 * Lexical(c) + 20 * Exact(c)

\* What find keeps of a chunk: its own evidence, and that of its page by which it
\* is ranked (the recency of a chunk of no evidence counts for nothing).
PageCandidate(c, tier) ==
    [chunk |-> c, page |-> c.page, tier |-> tier,
     score |-> IF ask.fusion = "rrf" THEN HashedScore(c)
               ELSE (Evidence(c) + c.recency) * Multiplier(tier),
     dense |-> IF ask.fusion = "rrf" THEN Dense(c) ELSE <<>>,
     recency |-> IF ask.fusion = "rrf" THEN c.recency ELSE 0]
Admitted(c) ==
    IF ask.fusion = "rrf" THEN HashedScore(c) > 0 \/ Dense(c) # <<>> ELSE Evidence(c) > 0

------------------------------------------------------------------------------
(* The scan.                                                                  *)

Question(q, corpus) ==
    /\ ask' = q @@ [widened |-> Expanded(q.query), exact |-> ExactTerms(q.query)]
    /\ index' = corpus /\ answer' = [answer EXCEPT !.at = "scanning"]
    /\ UNCHANGED <<looked, tierOf, found, context>>

\* The index cannot be read, or the backend cannot answer.
FindFails ==
    /\ answer.at = "scanning" /\ looked = 0 /\ answer' = [answer EXCEPT !.at = "failed"]
    /\ UNCHANGED <<ask, index, looked, tierOf, found, context>>

MaxDense(a, b) ==
    IF b # <<>> /\ (a = <<>> \/ b[1] > a[1]) THEN b ELSE a
\* Mutant of MergeRrf: a better chunk brings its own signals and no others.
MergeRrfReplaced(old, new) == IF new.score > old.score THEN new ELSE old
\* merge_best_by_path_rrf: the chunk with the best words, with the best vector and
\* the latest change of any chunk of its page.
MergeRrf(old, new) ==
    [(IF new.score > old.score THEN new ELSE old) EXCEPT
        !.dense = MaxDense(old.dense, new.dense),
        !.recency = IF new.recency > old.recency THEN new.recency ELSE old.recency]
Merge(old, new) ==
    IF ask.fusion = "rrf" THEN MergeRrf(old, new)
    ELSE IF new.score > old.score THEN new ELSE old

\* The tier of a page is that of the first of its chunks that is considered.
TierFor(c) ==
    IF \E t \in tierOf : t[1] = c.page THEN (CHOOSE t \in tierOf : t[1] = c.page)[2]
    ELSE Tier(c.lead)
ScanChunk ==
    /\ answer.at = "scanning" /\ looked < Len(index) /\ looked' = looked + 1
    /\ LET c == index[looked + 1] IN
       IF c.page \in ask.exclude THEN UNCHANGED <<tierOf, found>>
       ELSE /\ tierOf' = tierOf \cup {<<c.page, TierFor(c)>>}
            /\ LET new == PageCandidate(c, TierFor(c))
               IN found' =
                    IF ~Admitted(c) THEN found
                    ELSE IF \E i \in 1..Len(found) : found[i].page = c.page
                         THEN [i \in 1..Len(found) |->
                                IF found[i].page = c.page THEN Merge(found[i], new) ELSE found[i]]
                         ELSE Append(found, new)
    /\ UNCHANGED <<ask, index, answer, context>>

------------------------------------------------------------------------------
(* The ranking.                                                               *)

\* A stable sort, the greatest first; `score` is a function on what q holds.
ByDescending(q, score) ==
    LET before(x, y) == x[1] > y[1] \/ (x[1] = y[1] /\ x[2] < y[2])
        sorted == SortSeq([i \in 1..Len(q) |-> <<score[q[i]], i>>], before)
    IN [k \in 1..Len(q) |-> q[sorted[k][2]]]

ScoreOf(q) == [x \in ToSet(q) |-> x.score]

\* fuse_rrf: the sum of what the two ranks are worth, then recency and authority.
Worth(x, ranks) ==
    IF \E i \in 1..Len(ranks) : ranks[i] = x
    THEN 12 \div (RrfK + CHOOSE i \in 1..Len(ranks) : ranks[i] = x) ELSE 0
Fused(q) ==
    LET words == ByDescending(SelectSeq(q, LAMBDA x : x.score > 0), ScoreOf(q))
        vectors == ByDescending(SelectSeq(q, LAMBDA x : x.dense # <<>>),
                                [x \in {y \in ToSet(q) : y.dense # <<>>} |-> x.dense[1]])
    IN [i \in 1..Len(q) |-> [q[i] EXCEPT !.score =
          (Worth(q[i], words) + Worth(q[i], vectors)) * (100 + q[i].recency) * Multiplier(q[i].tier)]]
Ranked(q) ==
    LET fused == IF ask.fusion = "rrf" THEN Fused(q) ELSE q IN ByDescending(fused, ScoreOf(fused))

\* decide: enough of one kind of evidence in the first result's own chunk;
\* only a backend that was calibrated, with abstention on, can abstain.
Weak == {"archive", "historical", "forwarding"}
Convincing(x) ==
    \/ 100 * Matched(x.chunk) >= 35 * Cardinality(ask.widened)
    \/ 40 * x.chunk.vector >= 70
    \/ Exact(x.chunk) > 0
    \/ ask.backend = "jina" /\ Dense(x.chunk) # <<>> /\ x.tier \notin Weak
       /\ 100 * Dense(x.chunk)[1] >= 430
Abstains(shown) ==
    ask.abstention /\ (shown = <<>> \/ ~Convincing(shown[1]))

\* text_matches: the lines that hold some of the query, those that hold more first.
LineRank(l) ==
    IF ask.query \subseteq l.words THEN (IF l.phrase THEN 3 ELSE 2)
    ELSE IF ask.query \cap l.words # {} THEN 1 ELSE 0
TextMatches ==
    ByDescending(SelectSeq(PageLines, LAMBDA l : LineRank(l) > 0 /\ l.page \notin ask.exclude),
                 [l \in ToSet(PageLines) |-> LineRank(l)])

FirstOf(q, n) == SubSeq(q, 1, Least(n, Len(q)))
Report ==
    /\ answer.at = "scanning" /\ looked = Len(index)
    /\ found' = Ranked(found)
    /\ LET shown == FirstOf(found', ask.top)
       IN answer' = IF Abstains(shown) THEN [at |-> "abstained", results |-> <<>>, text |-> <<>>]
                    ELSE [at |-> "reported", results |-> shown, text |-> TextMatches]
    /\ UNCHANGED <<ask, index, looked, tierOf, context>>

------------------------------------------------------------------------------
(* prefetch: what find reports, cut to a budget; it fails open.               *)

Item(page, len) == [page |-> page, len |-> len]
CandidatesOf(reported) ==
    LET semantic == [i \in 1..Len(reported.results) |->
                       Item(reported.results[i].page, reported.results[i].chunk.len)]
        text == [i \in 1..Len(reported.text) |-> Item(reported.text[i].page, reported.text[i].len)]
        both == semantic \o text
        first(i) == \A j \in 1..(i - 1) : both[j].page # both[i].page
        kept == SelectSeq([i \in 1..Len(both) |-> <<i, both[i]>>], LAMBDA p : first(p[1]))
    IN [k \in 1..Len(kept) |-> kept[k][2]]
\* A snippet over what is left is cut, and ends with an ellipsis of its own.
TakeItem(cx, item) ==
    LET left == ask.budget[1] - cx.used
    IN IF Len(cx.items) >= ask.top THEN cx
       ELSE IF left = 0 THEN [cx EXCEPT !.truncated = TRUE]
       ELSE [cx EXCEPT !.items = Append(@, [item EXCEPT !.len = Least(@, left)]),
                       !.used = @ + Least(item.len, left), !.truncated = @ \/ item.len > left]
Prefetch ==
    /\ ask.budget # <<>> /\ context = NoContext
    /\ answer.at \in {"failed", "abstained", "reported"}
    /\ LET cx == FoldLeft(TakeItem, NoContext, CandidatesOf(answer))
       IN context' = [cx EXCEPT !.status =
            IF answer.at = "failed" THEN "unavailable"
            ELSE IF answer.at = "abstained" THEN "low-confidence"
            ELSE IF cx.items # <<>> THEN "ok" ELSE "empty"]
    /\ UNCHANGED <<ask, index, looked, tierOf, found, answer>>

\* A prefetch asks for one to three results of all pages.
Asked ==
    {[query |-> q, fusion |-> f, backend |-> b, intent |-> n, abstention |-> a,
      exclude |-> x, top |-> t, budget |-> u] :
        q \in Queries, f \in {"weighted", "rrf"}, b \in {"hashed", "jina"}, n \in BOOLEAN,
        a \in BOOLEAN, x \in {{}} \cup {{Chunks[i].page} : i \in 1..Len(Chunks)}, t \in Tops,
        u \in {<<>>} \cup {<<n>> : n \in Budgets}}
FindNext ==
    \/ /\ answer.at = "none"
       /\ \E q \in {r \in Asked : r.budget # <<>> => r.exclude = {} /\ r.top \in 1..3},
             held \in SUBSET (1..Len(Chunks)) :
             Question(q, [i \in 1..Cardinality(held) |->
                Chunks[CHOOSE k \in held : Cardinality({j \in held : j < k}) = i - 1]])
    \/ FindFails \/ ScanChunk \/ Report \/ Prefetch

FindSpec == FindInit /\ [][FindNext]_findVars

------------------------------------------------------------------------------
(* What a search is to find, said without the scan: of every page that has    *)
(* evidence, the best of each signal that any of its chunks has.              *)

Considered == {i \in 1..Len(index) : index[i].page \notin ask.exclude}
ChunksOf(p) == {i \in Considered : index[i].page = p}
AdmittedOf(p) == {index[i] : i \in {j \in ChunksOf(p) : Admitted(index[j])}}
PageTier(p) == Tier(index[CHOOSE i \in ChunksOf(p) : \A j \in ChunksOf(p) : i <= j].lead)
PageScore(p) == Highest({PageCandidate(c, PageTier(p)).score : c \in AdmittedOf(p)})
BestDense(p) ==
    LET of == {Dense(c)[1] : c \in {d \in AdmittedOf(p) : Dense(d) # <<>>}}
    IN IF of = {} THEN <<>> ELSE <<Highest(of)>>

\* After the scan there is one candidate of every page with evidence and of no
\* other, with the page's best score, and for the fusion its best vector and its
\* latest change, whichever chunks they are of (report, merge_best_by_path_rrf).
BestOfPages ==
    answer.at = "scanning" /\ looked = Len(index) =>
       /\ IsInjective([i \in 1..Len(found) |-> found[i].page])
       /\ {found[i].page : i \in 1..Len(found)} = {p \in {c.page : c \in Range(index)} : AdmittedOf(p) # {}}
       /\ \A i \in 1..Len(found) :
             /\ found[i].score = PageScore(found[i].page)
             /\ ask.fusion = "rrf" =>
                   /\ found[i].dense = BestDense(found[i].page)
                   /\ found[i].recency = Highest({c.recency : c \in AdmittedOf(found[i].page)})

\* No page is left out for one that ranks lower, and a question asked without
\* fusion is not answered by what is merely recent (find.rs: "boosting zero-evidence
\* chunks would make negative queries return results").
ShownBest ==
    answer.at = "reported" =>
       /\ \A i \in 1..Len(answer.results) : \A j \in (i + 1)..Len(found) :
             answer.results[i].score >= found[j].score
       /\ ask.fusion = "weighted" => \A i \in 1..Len(answer.results) : Evidence(answer.results[i].chunk) > 0

\* What is withheld reaches nobody: not the text matches, not an agent's context.
\* A context names a page once, keeps to its budget, and says when it was cut.
ContextBounded ==
    /\ answer.at \in {"failed", "abstained"} => context.items = <<>>
    /\ context # NoContext =>
          /\ context.used <= ask.budget[1] /\ Len(context.items) <= ask.top
          /\ IsInjective([i \in 1..Len(context.items) |-> context.items[i].page])
          /\ \A i \in 1..Len(context.items) :
                context.items[i].len < CandidatesOf(answer)[i].len => context.truncated

FindTrue == BestOfPages /\ ShownBest /\ ContextBounded
=============================================================================
