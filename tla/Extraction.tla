------------------------------ MODULE Extraction ------------------------------
(* One extraction (src/memory/distill/mod.rs, extract.rs): what of a session   *)
(* the provider is shown, the request and its one repetition, and the checks   *)
(* a reply has to pass before its facts come to the write gates.               *)
(*                                                                             *)
(* A text is its length, one more where a credential in it is replaced.  A     *)
(* reply is an object of objects, whose text is scanned character by character *)
(* for a field that is named twice.                                            *)
EXTENDS Integers, FiniteSets, SequencesExt

CONSTANTS
    Transcripts,   \* the sessions to extract from: sequences of [role, age, size, secret]
    Replies,       \* what the provider may say
    MaxInputMessages, \* messages that are shown
    MaxLength,     \* of a message
    Week,          \* the oldest that are shown; a message without a date has age 0
    InputBudget,
    Envelope, PerMessage,   \* lengths of an input without messages, and of a message without text
    MaxDrafts, MaxQuote, MaxCandidates, MaxEvidence

ASSUME ExtractionAssumption ==
    {MaxInputMessages, MaxLength, Week, InputBudget, Envelope, PerMessage} \subseteq Nat

VARIABLES
    transcript, \* the session
    input,      \* what the provider is shown, or <<>>
    requests,   \* requests made
    extraction, \* "none", "asking", "accepted", "failed"
    judged      \* the latest reply, or <<>>
extractionVars == <<transcript, input, requests, extraction, judged>>

------------------------------------------------------------------------------
(* What the provider is shown.                                                 *)

Spoken(m) == m.role \in {"user", "assistant"} /\ m.size > 0
Recent(m) == m.age <= Week

RedactedLength(m) == m.size + (IF m.secret THEN 1 ELSE 0)
ShownLength(m) ==
    RedactedLength([m EXCEPT !.size = IF @ > MaxLength THEN MaxLength ELSE @])

\* The latest first.
Candidates(talk) ==
    LET spoken == Reverse(SelectSeq(SelectSeq(talk, Spoken), Recent))
    IN SubSeq(spoken, 1, IF Len(spoken) > MaxInputMessages THEN MaxInputMessages ELSE Len(spoken))

InputLength(messages) ==
    Envelope + FoldLeft(LAMBDA n, m : n + PerMessage + ShownLength(m), 0, messages)
\* build_input: the binary search for the most messages that fit.
BuildInput(talk) ==
    LET latest == Candidates(talk)
        \* The search of the number of messages: all below `low` fit.
        Halve(range, step) ==
            LET mid == range[1] + (range[2] - range[1] + 1) \div 2
            IN IF range[1] >= range[2] THEN range
               ELSE IF InputLength(SubSeq(latest, 1, mid)) <= InputBudget
                    THEN <<mid, range[2]>> ELSE <<range[1], mid - 1>>
        keep == FoldLeft(Halve, <<0, Len(latest)>>, [i \in 1..(Len(latest) + 1) |-> i])[1]
    IN [messages |-> SubSeq(latest, 1, keep),
        truncated |-> \/ keep < Len(latest)
                      \/ Len(SelectSeq(SelectSeq(talk, Spoken), Recent)) > MaxInputMessages]

------------------------------------------------------------------------------
(* The reply.                                                                  *)

\* An object is a sequence of <<name, value>>; a name, and a value that is no
\* object, is the sequence of its characters, the escapes included.
Quoted(word) == <<"quote">> \o word \o <<"quote">>
Joined(texts) ==
    FoldLeft(LAMBDA all, text : IF all = <<>> THEN text ELSE all \o <<",">> \o text, <<>>, texts)
TextOfInner(object) ==
    <<"{">>
    \o Joined([i \in 1..Len(object) |->
                  Quoted(object[i][1]) \o <<":">> \o Quoted(object[i][2])])
    \o <<"}">>
TextOfMember(member) ==
    Quoted(member.name) \o <<":">>
    \o CASE member.kind = "word" -> Quoted(member.value)
         [] member.kind = "object" -> TextOfInner(member.value)
         [] member.kind = "words" ->
              <<"[">> \o Joined([i \in 1..Len(member.value) |-> Quoted(member.value[i])]) \o <<"]">>
         [] member.kind = "array" ->
              <<"[">>
              \o Joined([i \in 1..Len(member.value) |-> TextOfInner(member.value[i])])
              \o <<"]">>
TextOf(object) ==
    <<"{">> \o Joined([i \in 1..Len(object) |-> TextOfMember(object[i])]) \o <<"}">>

Frame(isObject) == [object |-> isObject, keys |-> {}, expecting |-> isObject]
InTop(s, frame) == [s EXCEPT !.stack = Append(Front(@), frame)]
\* A string ends: where a field is expected, it names one.
WordEnds(s) ==
    LET out == [s EXCEPT !.inside = FALSE]  top == Last(s.stack) IN
    IF s.stack = <<>> \/ ~top.expecting THEN out
    ELSE IF s.word \in top.keys THEN [out EXCEPT !.twice = TRUE]
    ELSE InTop(out, [top EXCEPT !.keys = @ \cup {s.word}, !.expecting = FALSE])
Comma(s) ==
    IF s.stack # <<>> /\ Last(s.stack).object
    THEN InTop(s, [Last(s.stack) EXCEPT !.expecting = TRUE]) ELSE s
Scanned(s, b) ==
    IF s.twice THEN s
    ELSE IF s.inside
    THEN CASE b = "escape" -> [s EXCEPT !.escaped = ~@, !.word = Append(@, b)]
           [] b = "quote" /\ ~s.escaped -> WordEnds(s)
           [] OTHER -> [s EXCEPT !.escaped = FALSE, !.word = Append(@, b)]
    ELSE CASE b = "quote" -> [s EXCEPT !.inside = TRUE, !.escaped = FALSE, !.word = <<>>]
           [] b \in {"{", "["} -> [s EXCEPT !.stack = Append(@, Frame(b = "{"))]
           [] b \in {"}", "]"} -> [s EXCEPT !.stack = Front(@)]
           [] b = "," -> Comma(s)
           [] OTHER -> s
ContainsDuplicateKeys(text) ==
    FoldLeft(Scanned, [stack |-> <<>>, inside |-> FALSE, escaped |-> FALSE, word |-> <<>>,
                       twice |-> FALSE], text).twice

\* Per fact: a reason for a decision, a short quote, a source of the three.
FactValid(f) ==
    /\ f.kind = "decision" => f.because
    /\ f.quote <= MaxQuote
    /\ f.source \in {"none", "user-stated", "measured", "inferred"}
\* validate_output: the whole reply or nothing of it.
Valid(r) ==
    /\ r.wrapping # "prose"
    /\ ~ContainsDuplicateKeys(TextOf(r.object))
    /\ r.of = "this session" /\ ~r.suspicious
    /\ Len(r.facts) <= MaxDrafts /\ \A i \in 1..Len(r.facts) : FactValid(r.facts[i])
    /\ r.candidates <= MaxCandidates /\ r.evidence <= MaxEvidence

------------------------------------------------------------------------------

\* The replies that pass.
ValidReplies == {r \in Replies : Valid(r)}

ExtractionInit ==
    /\ transcript = <<>> /\ input = <<>> /\ requests = 0
    /\ extraction = "none" /\ judged = <<>>

\* extract_job: an input that does not fit without messages ends it, and so does a
\* transcript that went on since the job was recorded.
StartExtraction(talk, goneOn) ==
    /\ extraction = "none" /\ transcript' = talk
    /\ IF goneOn \/ Envelope > InputBudget
       THEN extraction' = "failed" /\ UNCHANGED <<input, requests>>
       ELSE input' = <<BuildInput(talk)>> /\ requests' = 1 /\ extraction' = "asking"
    /\ UNCHANGED judged

\* extract: a reply that is not valid is asked for once more, strictly.
Accept(r) ==
    /\ extraction = "asking" /\ r \in ValidReplies /\ extraction' = "accepted" /\ judged' = <<r>>
    /\ UNCHANGED <<transcript, input, requests>>
TurnDown(r) ==
    /\ extraction = "asking" /\ r \notin ValidReplies /\ judged' = <<r>>
    /\ IF requests < 2 THEN requests' = requests + 1 /\ UNCHANGED extraction
                       ELSE extraction' = "failed" /\ UNCHANGED requests
    /\ UNCHANGED <<transcript, input>>
\* The error of a provider is not asked about again.
NoReply ==
    /\ extraction = "asking" /\ extraction' = "failed"
    /\ UNCHANGED <<transcript, input, requests, judged>>

ExtractionNext ==
    \/ \E talk \in Transcripts, goneOn \in BOOLEAN : StartExtraction(talk, goneOn)
    \/ \E r \in Replies : Accept(r) \/ TurnDown(r)
    \/ NoReply

ExtractionSpec == ExtractionInit /\ [][ExtractionNext]_extractionVars

------------------------------------------------------------------------------
(* Properties.                                                                 *)

\* The provider sees the latest of what was said in the last week, without a gap
\* and as much as fits; and the input says so when there was more (mod.rs,
\* "always fits the budget").
InputNewest ==
    input # <<>> =>
        LET spoken == {i \in 1..Len(transcript) :
                          /\ transcript[i].role \in {"user", "assistant"}
                          /\ transcript[i].size > 0 /\ transcript[i].age <= Week}
            seen == input[1].messages
            latest(n) == CHOOSE s \in SUBSET spoken :
                            Cardinality(s) = n /\ \A i \in s, j \in spoken \ s : i > j
            chosen == latest(Len(seen))
        IN /\ \A i \in chosen :
                 seen[Cardinality({j \in chosen : j >= i})] = transcript[i]
           /\ InputLength(seen) <= InputBudget
           /\ input[1].truncated <=> Len(seen) < Cardinality(spoken)
           /\ (Len(seen) < Cardinality(spoken) /\ Len(seen) < MaxInputMessages) =>
                 \E i \in spoken \ chosen :
                    InputLength(Append(seen, transcript[i])) > InputBudget

\* No object of a reply that is taken names a field twice, at any depth; and a
\* reply that does not is not turned down for that (contains_duplicate_keys).
NamesTwice(names) == \E i, j \in 1..Len(names) : i < j /\ names[i] = names[j]
Ambiguous(object) ==
    \/ NamesTwice([i \in 1..Len(object) |-> object[i].name])
    \/ \E i \in 1..Len(object) :
          LET m == object[i]
              inner == CASE m.kind = "object" -> <<m.value>> [] m.kind = "array" -> m.value
                         [] OTHER -> <<>>
          IN \E k \in 1..Len(inner) : NamesTwice([n \in 1..Len(inner[k]) |-> inner[k][n][1]])
Flawless(r) ==
    /\ r.wrapping # "prose" /\ r.of = "this session" /\ ~r.suspicious
    /\ r.facts = <<>> /\ r.candidates = 0 /\ r.evidence = 0
RepliesJudged ==
    judged # <<>> =>
        LET r == judged[1] IN
        IF extraction = "accepted" THEN r.of = "this session" /\ ~Ambiguous(r.object)
        ELSE Flawless(r) => Ambiguous(r.object)

ExtractionSound == InputNewest /\ RepliesJudged
=============================================================================
