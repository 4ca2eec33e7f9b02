------------------------------- MODULE Recall -------------------------------
(* Recall (src/memory/recall.rs): a search over the memory of a scope and of  *)
(* the scopes it may read.  The index is built anew for every search, lane    *)
(* after lane; two lists of matches are fused; and what is shown is what held *)
(* at the moment asked about, which the words of the query may name.          *)
(*                                                                            *)
(* Moments are days, counted from the day of the search.  Scores are whole    *)
(* numbers of twelfths.  What two texts have in common is a set.              *)
EXTENDS Integers, SequencesExt, TLC

CONSTANTS Library,      \* the documents of all lanes, in the order they are read
          Asks,         \* the words and trigrams searched for
          Limits,       \* results asked for
          Moments,      \* days of a search, and what its words say of time
          AsOfs         \* what is asked for explicitly: nothing, a day or something unclear

ASSUME RecallAssumption == Limits \subseteq 1..50

VARIABLES
    wanted,   \* the search, or NoSearch
    lane,     \* the next lane to read, 4 when all were
    indexed,  \* the documents of the index, in order
    recalled  \* <<>>, or what is shown, in order
recallVars == <<wanted, lane, indexed, recalled>>

NoSearch == [words |-> {}, grams |-> {}, limit |-> 0, when |-> <<>>, held |-> {}]
RecallInit == wanted = NoSearch /\ lane = 0 /\ indexed = <<>> /\ recalled = <<>>

------------------------------------------------------------------------------
(* The moment asked about (estimate_as_of).                                   *)

LeapYear(y) == y % 4 = 0 /\ (y % 100 # 0 \/ y % 400 = 0)
DaysInMonth(y, m) ==
    IF m \in {4, 6, 9, 11} THEN 30 ELSE IF m # 2 THEN 31 ELSE IF LeapYear(y) THEN 29 ELSE 28
\* Day 1 is a Monday.
DayNumber(y, m, d) ==
    LET before == y - 1
    IN 365 * before + before \div 4 - before \div 100 + before \div 400 + d
       + FoldLeft(LAMBDA n, k : n + DaysInMonth(y, k), 0, [k \in 1..(m - 1) |-> k])

\* add_months: the same day of the month, or its last.
AddMonths(date, n) ==
    LET total == date.y * 12 + date.m - 1 + n
        y == total \div 12
        m == (total % 12) + 1
    IN DayNumber(y, m, IF date.d < DaysInMonth(y, m) THEN date.d ELSE DaysInMonth(y, m))

Today(now) == DayNumber(now.y, now.m, now.d)

\* absolute_hits: the dates, months and years that are named, in the order of the
\* rules that find them.  Two rules check the ranges, and find nothing otherwise;
\* two take the year of the search.
FormOrder == <<"iso", "ko date", "ko month", "ko day", "day", "month", "year">>
Named(said) ==
    {m \in said.named : m.form \in {"iso", "day"} => m.m \in 1..12 /\ m.d \in 1..31}
DateNamed(now, m) ==
    CASE m.form = "year" -> [y |-> m.y, m |-> 12, d |-> 31]
      [] m.form \in {"month", "ko month"} -> [y |-> m.y, m |-> m.m, d |-> 1]
      [] m.form \in {"day", "ko day"} -> [y |-> now.y, m |-> m.m, d |-> m.d]
      [] OTHER -> [y |-> m.y, m |-> m.m, d |-> m.d]
FirstNamed(hits) ==
    LET order(m) == CHOOSE i \in 1..Len(FormOrder) : FormOrder[i] = m.form
    IN CHOOSE m \in hits : \A o \in hits : order(m) <= order(o)

\* The last day of what is named; two dates are none, and so is one no calendar has.
EndOfNamed(now, hits) ==
    LET date == DateNamed(now, FirstNamed(hits))
    IN IF Cardinality({DateNamed(now, m) : m \in hits}) > 1 THEN <<>>
       ELSE IF date.m \notin 1..12 \/ date.d \notin 1..31 THEN <<>>
       ELSE IF date.d > DaysInMonth(date.y, date.m) THEN <<>>
       ELSE IF FirstNamed(hits).form \in {"month", "ko month"} THEN <<AddMonths(date, 1) - 1>>
       ELSE <<DayNumber(date.y, date.m, date.d)>>

\* resolve_relative: a time before now.
MaxAgo == 3650
EndOfPast(now, said) ==
    CASE said.n > MaxAgo -> <<>>
      [] said.before = "days" -> <<Today(now) - said.n>>
      [] said.before = "weeks" -> <<Today(now) - 7 * said.n>>
      [] said.before = "months" -> <<AddMonths(now, -said.n)>>
      [] said.before = "years" -> <<AddMonths(now, -12 * said.n)>>
      [] said.before = "last week" -> <<Today(now) - ((Today(now) - 1) % 7) - 1>>
      [] said.before = "last month" -> <<DayNumber(now.y, now.m, 1) - 1>>
      [] said.before = "last year" -> <<DayNumber(now.y, 1, 1) - 1>>
      [] OTHER -> <<>>

\* estimate_as_of: a date that is named counts before a time before now.
LastDayOf(now, said) ==
    IF Named(said) = {} THEN EndOfPast(now, said) ELSE EndOfNamed(now, Named(said))

\* What is asked for explicitly counts, even when it cannot be read.
AskedFor(moment, explicit) ==
    CASE explicit.kind = "unclear" -> <<>>
      [] explicit.kind = "day" -> <<explicit.day>>
      [] explicit.kind = "none" -> LET day == LastDayOf(moment.now, moment.said)
            IN IF day = <<>> THEN <<>> ELSE <<day[1] - Today(moment.now)>>

------------------------------------------------------------------------------
(* The index (build_index).                                                   *)

\* retention_keeps: days a fact is recalled for; some kinds never expire.
Lifetime == [volatile |-> 14, session |-> 2, week |-> 45, durable |-> 0]
Guarded == {"decision", "procedure", "constraint"}
Expired(doc) == Lifetime[doc.durability] # 0 /\ doc.dated /\ doc.age > Lifetime[doc.durability]
Retained(doc) == doc.kind \notin Guarded \cup {"unknown"} => ~Expired(doc)

\* structured_docs: a fact that was rejected or superseded is not recalled.
Recallable(doc) == doc.review \notin {"rejected", "superseded"} /\ Retained(doc)

\* dedup_by_normalized_text: the first of those with the same words stays.
WithoutCopies(q) ==
    LET kept == SelectSeq([i \in 1..Len(q) |-> <<i, q[i]>>],
                          LAMBDA p : \A j \in 1..(p[1] - 1) : q[j].same # q[p[1]].same)
    IN [k \in 1..Len(kept) |-> kept[k][2]]

Ask(ask, limit, moment, explicit) ==
    /\ wanted = NoSearch
    /\ wanted' = [words |-> ask.words, grams |-> ask.grams, limit |-> limit,
                  moment |-> moment, explicit |-> explicit]
    /\ UNCHANGED <<lane, indexed, recalled>>
\* Of what the words say of time the moment is kept; the lanes are read as they are.
Estimate(held) ==
    /\ lane = 0 /\ wanted # NoSearch
    /\ wanted' = [words |-> wanted.words, grams |-> wanted.grams, limit |-> wanted.limit,
                  when |-> AskedFor(wanted.moment, wanted.explicit), held |-> held]
    /\ lane' = 1 /\ UNCHANGED <<indexed, recalled>>

\* The documents of a lane, then its facts.
InLane ==
    SelectSeq(Library, LAMBDA doc : doc \in wanted.held /\ doc.lane = lane
                                    /\ (doc.source = "fact" => Recallable(doc)))
ReadLane ==
    /\ lane \in 1..3 /\ indexed' = WithoutCopies(indexed \o InLane)
    /\ lane' = lane + 1 /\ UNCHANGED <<wanted, recalled>>

------------------------------------------------------------------------------
(* The two lists (lexical_lane, fuzzy_lane) and their fusion (rrf_fuse).      *)

\* source_boost, recency_boost and durability_penalty.
Boost(doc) ==
    (CASE doc.source = "memory" -> (IF doc.lane = 3 THEN 24 ELSE 36)
       [] doc.source = "fact" -> (IF doc.lane = 3 THEN 18 ELSE 30)
       [] OTHER -> (IF doc.lane = 3 THEN 3 ELSE 6))
    + (IF doc.dated /\ doc.age < 7 THEN (12 * (7 - doc.age)) \div 7 ELSE 0)
    - (IF doc.durability = "volatile" \/ doc.kind = "task-progress" THEN 36 ELSE 0)

Hits(doc) == Cardinality(doc.words \cap wanted.words)
PhraseHit(doc) == IF wanted.words # {} /\ wanted.words \subseteq doc.words /\ doc.phrase THEN 1 ELSE 0
WordScore(doc) == 48 * Hits(doc) + 36 * PhraseHit(doc) + Boost(doc)
Shared(doc) == Cardinality(doc.grams \cap wanted.grams)
GramScore(doc) == (96 * Shared(doc)) \div Cardinality(wanted.grams) + Boost(doc)
Found(doc) == Hits(doc) > 0 \/ PhraseHit(doc) > 0
Resembles(doc) == wanted.grams # {} /\ 100 * Shared(doc) >= 34 * Cardinality(wanted.grams)

\* A stable sort by the function `score`, cut to six times what is shown.
Sorted(q, score) ==
    LET before(x, y) == x[1] > y[1] \/ (x[1] = y[1] /\ x[2] < y[2])
        order == SortSeq([i \in 1..Len(q) |-> <<score[q[i]], i>>], before)
        cut == IF 6 * wanted.limit > 30 THEN 6 * wanted.limit ELSE 30
    IN [k \in 1..(IF Len(q) < cut THEN Len(q) ELSE cut) |-> q[order[k][2]]]
Lexicals == Sorted(SelectSeq(indexed, Found), [doc \in ToSet(indexed) |-> WordScore(doc)])
Fuzzies ==
    Sorted(SelectSeq(indexed, Resembles),
           [doc \in {d \in ToSet(indexed) : Resembles(d)} |-> GramScore(doc)])

\* What rank n of a list is worth, in units that 61 to 65 divide; one list alone
\* keeps its scores.
RankWorth(q, doc) ==
    IF doc \in ToSet(q) THEN 991186560 \div (60 + CHOOSE i \in 1..Len(q) : q[i] = doc) ELSE 0
Fusion ==
    LET words == Lexicals  grams == Fuzzies
    IN [doc \in ToSet(words) \cup ToSet(grams) |->
          IF grams = <<>> THEN WordScore(doc) ELSE RankWorth(words, doc) + RankWorth(grams, doc)]

\* The fused list is sorted out of a hash map: equal scores come in any order.
FusedOrders ==
    IF Fuzzies = <<>> THEN {Lexicals}
    ELSE LET score == Fusion
         IN {q \in SetToSeqs(DOMAIN score) :
                \A i \in 1..(Len(q) - 1) : score[q[i]] >= score[q[i + 1]]}

------------------------------------------------------------------------------
(* Valid time (search).                                                       *)

HasBegun(doc, day) == doc.from = <<>> \/ doc.from[1] <= day
Over(doc, day) == doc.until # <<>> /\ doc.until[1] <= day
Holds(doc, day) == HasBegun(doc, day) /\ ~Over(doc, day)

\* What did not hold at a given moment is left out; without one, what has not
\* begun is left out and what is over comes last.
Shown(q) ==
    IF wanted.when # <<>> THEN SelectSeq(q, LAMBDA doc : Holds(doc, wanted.when[1]))
    ELSE SelectSeq(q, LAMBDA doc : Holds(doc, 0))
         \o SelectSeq(q, LAMBDA doc : HasBegun(doc, 0) /\ Over(doc, 0))

Show ==
    /\ lane = 4
    /\ \E q \in FusedOrders :
          recalled' = Shown(SubSeq(q, 1, IF Len(q) < wanted.limit THEN Len(q) ELSE wanted.limit))
    /\ lane' = 5 /\ UNCHANGED <<wanted, indexed>>

RecallNext ==
    \/ /\ wanted = NoSearch
       /\ \E ask \in Asks, limit \in Limits, moment \in Moments, explicit \in AsOfs :
             Ask(ask, limit, moment, explicit)
    \/ \E held \in SUBSET ToSet(Library) : Estimate(held)
    \/ ReadLane
    \/ Show

RecallSpec == RecallInit /\ [][RecallNext]_recallVars

------------------------------------------------------------------------------
\* The moment that words name is the end of the period they name: the day after it
\* begins the next month, year or week, and months ago are counted in months
\* whatever their lengths (recall.rs: "every period resolves to its END instant").
MonthOf(day) == CHOOSE p \in (2000..2040) \X (1..12) :
    DayNumber(p[1], p[2], 1) <= day /\ day < DayNumber(p[1], p[2], 1) + DaysInMonth(p[1], p[2])
PeriodOver ==
    lane = 0 /\ wanted # NoSearch =>
        LET now == wanted.moment.now
            said == wanted.moment.said
            day == LastDayOf(now, said)
            hits == Named(said)
        IN day # <<>> =>
             IF hits # {}
             THEN /\ Cardinality({DateNamed(now, m) : m \in hits}) = 1
                  /\ \A m \in hits : m.form \notin {"day", "ko day"} =>
                       /\ MonthOf(day[1])[1] = m.y
                       /\ m.form # "year" => MonthOf(day[1])[2] = m.m
                  /\ (\A m \in hits : m.form \in {"month", "ko month", "year"}) =>
                       MonthOf(day[1]) # MonthOf(day[1] + 1)
             ELSE /\ said.before = "last month" => MonthOf(day[1] + 1) = <<now.y, now.m>>
                                                   /\ MonthOf(day[1]) # <<now.y, now.m>>
                  /\ said.before = "last year" => MonthOf(day[1]) = <<now.y - 1, 12>>
                                                  /\ MonthOf(day[1] + 1) = <<now.y, 1>>
                  /\ said.before = "last week" => day[1] % 7 = 0 /\ Today(now) - day[1] \in 1..7
                  /\ said.before \in {"months", "years"} =>
                       LET p == MonthOf(day[1])
                       IN 12 * now.y + now.m - (IF said.before = "months" THEN 1 ELSE 12) * said.n
                          = 12 * p[1] + p[2]

\* Nothing is shown that may not be recalled or did not hold at the moment asked
\* about; what still holds comes before what is over; and no text comes twice.
ShownHolds ==
    lane = 5 =>
      /\ \A i \in 1..Len(recalled) :
            /\ recalled[i].source = "fact" => Recallable(recalled[i])
            /\ IF wanted.when # <<>> THEN Holds(recalled[i], wanted.when[1])
               ELSE /\ HasBegun(recalled[i], 0)
                    /\ \A j \in (i + 1)..Len(recalled) : Over(recalled[i], 0) => Over(recalled[j], 0)
      /\ \A i, j \in 1..Len(recalled) : recalled[i].same = recalled[j].same => i = j

\* What is held, matches and holds is shown, unless a copy of it was read before it
\* or as many others rank as high: a decision, a procedure or a constraint among
\* them, however old it is and whatever durability it was given.
OutrankedOrShown ==
    lane = 5 =>
      \A i \in 1..Len(Library) :
         LET doc == Library[i]  score == Fusion IN
         /\ doc \in wanted.held /\ (Found(doc) \/ Resembles(doc))
         /\ Holds(doc, IF wanted.when = <<>> THEN 0 ELSE wanted.when[1])
         /\ doc.source = "fact" => doc.review \notin {"rejected", "superseded"}
                                   /\ (doc.kind \in Guarded \/ ~Expired(doc))
         /\ \A j \in 1..(i - 1) : Library[j] \in wanted.held => Library[j].same # doc.same
         => \/ doc \in ToSet(recalled)
            \/ doc \in DOMAIN score
               /\ Cardinality({d \in DOMAIN score \ {doc} : score[d] >= score[doc]}) >= wanted.limit

RecallTrue == PeriodOver /\ ShownHolds /\ OutrankedOrShown
=============================================================================
