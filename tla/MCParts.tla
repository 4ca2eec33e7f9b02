------------------------------ MODULE MCParts ------------------------------
(* The parts of Danso that share no state with a task, a chat or a           *)
(* service, checked in one run: backups beside a service; the facts of the   *)
(* memory, their extraction, their search, the snapshot of them and the      *)
(* working state; a tool and its supervisor; when a scheduled run is due,    *)
(* its payload and its notice; the credential store, a provider request, the *)
(* decoding of its answer and the compaction of what is asked; the sessions  *)
(* of an embedder; and the wiki's index, pages and search.  Each behaviour   *)
(* is one of one part, the others staying as they began; a part begins with  *)
(* its first step.                                                           *)
EXTENDS StateBackup, MemoryScope, Recall, MemorySnapshot, ToolRun,
        CronSchedule, PayloadRun, TokenRefresh, ProviderCall, AnswerStream,
        TurnSession, WikiIndex, WikiFind, Compaction, Extraction

------------------------------------------------------------------------------
(* Constants of the instance.                                                 *)

\* A plain credential, a note at the depth bound, and a link.
NoteShapes == [n \in Notes |-> IF n = "deep" THEN "plain" ELSE n]
NoteDepths == [n \in Notes |-> IF n = "deep" THEN 1 ELSE 0]

\* Four texts on one subject; "done" says what two others promise.
TextKinds == [t \in Texts |-> "task-progress"]
TextSubjects == [t \in Texts |-> "s"]
SharedWords(t, u) ==
    IF t = u THEN 10 ELSE IF {t, u} = {"done", "waiting"} THEN 5
    ELSE IF {t, u} = {"done", "both"} THEN 7 ELSE 4
Candidate(t, r, q, m) ==
    [text |-> t, rank |-> r, quoted |-> q, manual |-> m, because |-> FALSE, from |-> 0]
CandidateBatches ==
    {<<Candidate("going", 3, TRUE, FALSE)>>,
     <<Candidate("waiting", 1, FALSE, FALSE), Candidate("waiting", 1, FALSE, FALSE)>>,
     <<Candidate("done", 2, FALSE, FALSE)>>,
     <<Candidate("done", 3, FALSE, TRUE)>>,
     <<[Candidate("waiting", 3, FALSE, TRUE) EXCEPT !.from = 1]>>,
     <<Candidate("both", 2, TRUE, FALSE), Candidate("done", 2, TRUE, FALSE)>>}

\* The files of two builds may be of the same size.
IndexSizes == [v \in 0..MaxVersion |-> 0]

\* Three pages: one by words and by vector, one recent, one of no evidence.
WikiChunk(p, w, h, v, d, r, l, n) ==
    [page |-> p, words |-> w, heading |-> h, vector |-> v, dense |-> d, recency |-> r,
     lead |-> l, len |-> n]
WikiChunks ==
    <<WikiChunk("a", {"x"}, {}, 1, <<1>>, 0, {"canonical"}, 2),
      WikiChunk("a", {}, {"x"}, -2, <<6>>, 10, {"archive"}, 3),
      WikiChunk("b", {"y", "z"}, {}, 2, <<>>, 0, {"archive"}, 3),
      WikiChunk("b", {}, {}, 0, <<5>>, 30, {}, 1),
      WikiChunk("c", {}, {}, 0, <<>>, 30, {"historical"}, 2)>>
WikiAliases == {<<"x", "y">>}
WikiLines ==
    <<[page |-> "a", words |-> {"x"}, phrase |-> FALSE, len |-> 2],
      [page |-> "d", words |-> {"x", "z"}, phrase |-> TRUE, len |-> 3]>>

\* Documents of three lanes: a private text again in a shared lane, one superseded,
\* one not yet begun, one over.
RecallDocument(s, l, c, w, p, g, k, d, a, r, f, u) ==
    [source |-> s, lane |-> l, same |-> c, words |-> w, phrase |-> p, grams |-> g, kind |-> k,
     durability |-> d, dated |-> TRUE, age |-> a, review |-> r, from |-> f, until |-> u]
RecallLibrary ==
    <<RecallDocument("memory", 1, "m", {"x"}, FALSE, {1}, "none", "durable", 30, "none", <<>>, <<>>),
      RecallDocument("fact", 1, "k", {"x", "y"}, TRUE, {1, 2}, "decision", "volatile", 20, "manual", <<-40>>, <<-10>>),
      RecallDocument("fact", 1, "o", {"y"}, FALSE, {1}, "observation", "volatile", 20, "auto", <<>>, <<>>),
      RecallDocument("fact", 2, "k", {"x", "y"}, TRUE, {1, 2}, "decision", "volatile", 20, "manual", <<>>, <<>>),
      RecallDocument("fact", 2, "n", {"x"}, FALSE, {}, "procedure", "session", 3, "manual", <<1>>, <<>>),
      RecallDocument("state", 3, "t", {}, FALSE, {1, 2, 3}, "none", "durable", 0, "none", <<>>, <<>>),
      RecallDocument("fact", 3, "s", {"x"}, FALSE, {1}, "preference", "durable", 3, "superseded", <<>>, <<-2>>)>>
RecallAsks == {[words |-> {"x", "y"}, grams |-> {1, 2, 3, 4}], [words |-> {"x"}, grams |-> {}]}
RecallAsOfs == {[kind |-> "none"], [kind |-> "day", day |-> 0], [kind |-> "unclear"]}

\* Days at the end of a month or a year, leap years, and what a search may say.
Said(names, unit, n) == [named |-> names, before |-> unit, n |-> n]
Naming(f, y, m, d) == [form |-> f, y |-> y, m |-> m, d |-> d]
SaidOn(y, m, d, said) == [now |-> [y |-> y, m |-> m, d |-> d], said |-> said]
RecallMoments ==
    {SaidOn(2026, 3, 31, Said({}, "none", 0)), SaidOn(2026, 3, 31, Said({}, "months", 1)),
     SaidOn(2024, 1, 1, Said({}, "last month", 0)), SaidOn(2024, 3, 2, Said({}, "last week", 0)),
     SaidOn(2024, 12, 31, Said({}, "months", 10)), SaidOn(2024, 2, 29, Said({}, "years", 1)),
     SaidOn(2026, 3, 31, Said({Naming("month", 2026, 2, 0)}, "days", 1)),
     SaidOn(2026, 3, 31, Said({Naming("iso", 2025, 12, 1), Naming("ko month", 2025, 12, 0)}, "none", 0)),
     SaidOn(2026, 3, 31, Said({Naming("ko date", 2026, 2, 29)}, "days", 1)),
     SaidOn(2026, 3, 31, Said({Naming("iso", 2026, 13, 1)}, "weeks", 4)),
     SaidOn(2024, 3, 31, Said({Naming("day", 0, 2, 29)}, "none", 0)),
     SaidOn(2026, 3, 31, Said({Naming("year", 2025, 0, 0), Naming("day", 0, 3, 1)}, "none", 0)),
     SaidOn(2026, 3, 31, Said({}, "last year", 0)), SaidOn(2026, 3, 31, Said({}, "days", 4000))}

\* Facts that are alike across lanes, and one closed in one lane only.
HotFact(l, i, s, k, r, c, o, n) ==
    [lane |-> l, id |-> i, same |-> s, kind |-> k, review |-> r, closed |-> c,
     retained |-> TRUE, observed |-> o, cost |-> n]
SnapshotFacts ==
    <<HotFact(1, "a", "A", "constraint", "auto", FALSE, 1, 3),
      HotFact(1, "b", "B", "decision", "needs-human", FALSE, 3, 2),
      HotFact(1, "e", "E", "context", "auto", TRUE, 3, 1),
      HotFact(2, "c", "C", "constraint", "auto", FALSE, 2, 2),
      HotFact(2, "b", "D", "preference", "auto", FALSE, 2, 1),
      HotFact(3, "f", "B", "decision", "auto", FALSE, 3, 1),
      HotFact(3, "g", "E", "context", "auto", FALSE, 1, 1)>>
SnapshotDocuments ==
    {[resume |-> <<0, 3>>, working |-> <<2, 1>>, memory |-> <<3, 2>>, forged |-> FALSE],
     [resume |-> <<0, 0>>, working |-> <<0, 0>>, memory |-> <<>>, forged |-> TRUE],
     [resume |-> <<1, 3>>, working |-> <<0, 1>>, memory |-> <<1>>, forged |-> FALSE]}

\* Months of two days, days of three hours of four minutes, weeks of three days;
\* clocks that are put forward or back by an hour or half of one, or past midnight.
Element(b, l, h, s) == [body |-> b, low |-> l, high |-> h, step |-> s]
Exactly(v) == Element("one", v, v, 0)
Every(s) == Element("*", 0, 0, s)
CronLine(m, h, d, mo, w) ==
    [kind |-> "cron", minute |-> m, hour |-> h, dom |-> d, month |-> mo, dow |-> w]
CronExpressions ==
    {CronLine(<<Exactly(1)>>, <<Exactly(1)>>, <<Every(0)>>, <<Every(0)>>, <<Every(0)>>),
     CronLine(<<Element("range", 1, 3, 2)>>, <<Every(2)>>, <<Exactly(2)>>, <<Every(0)>>, <<Exactly(3)>>),
     CronLine(<<Every(0)>>, <<Exactly(2)>>, <<Every(0)>>, <<Exactly(2)>>, <<Every(0)>>),
     CronLine(<<Exactly(0), Exactly(2)>>, <<Exactly(0), Exactly(2)>>, <<Every(0)>>, <<Every(0)>>,
              <<Element("range", 0, 1, 0)>>),
     CronLine(<<Element("range", 2, 1, 0)>>, <<Every(0)>>, <<Every(0)>>, <<Every(0)>>, <<Every(0)>>),
     [kind |-> "interval", len |-> 7], [kind |-> "interval", len |-> 99],
     [kind |-> "once", naive |-> TRUE, when |-> 33], [kind |-> "once", naive |-> FALSE, when |-> 30]}
CronZones ==
    {[base |-> 0, shifts |-> <<>>], [base |-> -5, shifts |-> <<<<30, 3>>>>],
     [base |-> 0, shifts |-> <<<<30, 4>>, <<54, 0>>>>]}
    \cup {[base |-> 0, shifts |-> <<<<t, o>>>>] : t \in 24..40, o \in {4, -4, 2, -2}}
CronPlannings ==
    {[last |-> <<>>, at |-> 40, anchor |-> <<>>], [last |-> <<20>>, at |-> 44, anchor |-> <<>>],
     [last |-> <<34>>, at |-> 41, anchor |-> <<5>>], [last |-> <<>>, at |-> 41, anchor |-> <<50>>]}

\* Lines with a path in them, before and after what is none.
NoticeTask(n, c) == [notify |-> n, chat |-> c]
NoticeTaskSet ==
    {NoticeTask("none", "none"), NoticeTask("telegram-owner", "none"),
     NoticeTask("telegram-owner-on-failure", "none"), NoticeTask("telegram-chat", "c"),
     NoticeTask("telegram-chat-on-failure", "d"), NoticeTask("telegram-chat", "none")}
NoticeToken == [token |-> TRUE]
NoticeLine(run) == [token |-> FALSE, run |-> run]
NoticeOutputs ==
    {<<NoticeLine(before \o path \o after)>> :
        before \in {<<>>, <<"=", "r", "=">>, <<"r">>, <<"/">>},
        path \in {<<>>, <<"/", "r", "/", "r">>, <<"/", "r", "/">>},
        after \in {<<>>, <<"/", "r">>, <<"r", "r">>, <<"=">>, <<"/", "/">>}}
    \cup {<<NoticeLine(<<"r">>), NoticeToken, NoticeToken, NoticeToken>>, <<NoticeToken>>}

\* Results of which the older are elided, and two in one batch.
CompactionResults == {<<6>>, <<1, 3>>}

\* Messages that are old, long, or not spoken; replies whose fields are named twice,
\* in one object or in two, by strings that are values and by escapes.
Spoke(r, a, n, s) == [role |-> r, age |-> a, size |-> n, secret |-> s]
ExtractionTalk ==
    {Spoke("user", 0, 2, FALSE), Spoke("assistant", 3, 6, TRUE),
     Spoke("assistant", 8, 2, FALSE), Spoke("user", 1, 3, TRUE), Spoke("result", 1, 2, FALSE)}
ExtractionTranscripts ==
    UNION {[1..n -> ExtractionTalk] : n \in 0..2}
    \cup {q \in [1..4 -> ExtractionTalk] : q[1].age = 0 /\ IsInjective(q)}
ReplyNames == {<<"a">>, <<"escape", "quote">>, <<"a", "escape", "escape">>}
Word(n, v) == [name |-> n, kind |-> "word", value |-> v]
Inner(n, o) == [name |-> n, kind |-> "object", value |-> o]
Objects(n, os) == [name |-> n, kind |-> "array", value |-> os]
JsonReply(o) == [wrapping |-> "fences", object |-> o, of |-> "this session", suspicious |-> FALSE,
                 facts |-> <<>>, candidates |-> 0, evidence |-> 0]
InnerObjects ==
    {<<>>, <<<<<<"a">>, <<"a">>>>>>, <<<<<<"a">>, <<"a">>>>, <<<<"a">>, <<"b">>>>>>,
     <<<<<<"a">>, <<"escape", "quote">>>>, <<<<"escape", "quote">>, <<"a">>>>>>}
DecisionFact(b, q, s) ==
    [kind |-> "decision", because |-> b, quote |-> q, source |-> s]
ExtractionReplies ==
    {JsonReply(<<Word(n, <<"a", "escape", "escape">>), Word(o, <<"escape", "quote">>)>>) :
        n, o \in ReplyNames}
    \cup {JsonReply(<<Inner(o, i), Word(<<"a">>, <<"a">>)>>) :
            o \in {<<"a">>, <<"b">>}, i \in InnerObjects}
    \cup {JsonReply(<<Objects(<<"b">>, <<i, j>>), Word(<<"a">>, <<"b">>)>>) : i, j \in InnerObjects}
    \cup {JsonReply(<<[name |-> n, kind |-> "words", value |-> <<<<"a">>, <<"a">>, <<"a">>>>],
                       Word(<<"a">>, <<"a">>)>>) : n \in {<<"a">>, <<"b">>}}
    \cup {[JsonReply(<<>>) EXCEPT !.wrapping = "prose"], [JsonReply(<<>>) EXCEPT !.of = "another"],
          [JsonReply(<<>>) EXCEPT !.suspicious = TRUE],
          [JsonReply(<<>>) EXCEPT !.facts = <<DecisionFact(FALSE, 0, "none")>>],
          [JsonReply(<<>>) EXCEPT !.facts = <<DecisionFact(TRUE, 1, "measured")>>],
          [JsonReply(<<>>) EXCEPT !.candidates = 2]}

------------------------------------------------------------------------------

VARIABLE part
partsVars == <<part, backupVars, factVars, toolVars, payloadVars, authVars, callVars,
               answerVars, sessionVars, indexVars, pagesVars, findVars,
               recallVars, snapshotVars, workingVars, scheduleVars, noticeVars,
               compactionVars, extractionVars>>

PartsInit ==
    /\ part \in {"backup", "facts", "tool", "payload", "auth", "call",
                "answer", "session", "index", "pages", "find",
                "recall", "snapshot", "working", "schedule", "notice",
                "compaction", "extraction"}
    /\ BackupInit /\ FactInit /\ ToolInit /\ PayloadInit /\ AuthInit /\ CallInit
    /\ AnswerInit /\ SessionInit /\ IndexInit /\ PagesInit /\ FindInit
    /\ RecallInit /\ SnapshotInit /\ WorkingInit /\ ScheduleInit /\ NoticeInit
    /\ CompactionInit /\ ExtractionInit
    /\ part # "backup" => target = {}
    /\ part # "call" => body = <<>>
    /\ part # "answer" => dialect = "glm"

\* The variables of all parts but one stay.
Only(p) ==
    /\ part = p /\ UNCHANGED part
    /\ p # "backup" => UNCHANGED backupVars
    /\ p # "facts" => UNCHANGED factVars
    /\ p # "tool" => UNCHANGED toolVars
    /\ p # "payload" => UNCHANGED payloadVars
    /\ p # "auth" => UNCHANGED authVars
    /\ p # "call" => UNCHANGED callVars
    /\ p # "answer" => UNCHANGED answerVars
    /\ p # "session" => UNCHANGED sessionVars
    /\ p # "index" => UNCHANGED indexVars
    /\ p # "pages" => UNCHANGED pagesVars
    /\ p # "find" => UNCHANGED findVars
    /\ p # "recall" => UNCHANGED recallVars
    /\ p # "snapshot" => UNCHANGED snapshotVars
    /\ p # "working" => UNCHANGED workingVars
    /\ p # "schedule" => UNCHANGED scheduleVars
    /\ p # "notice" => UNCHANGED noticeVars
    /\ p # "compaction" => UNCHANGED compactionVars
    /\ p # "extraction" => UNCHANGED extractionVars

PartsNext ==
    \/ Only("backup") /\ BackupNext
    \/ Only("facts") /\ FactNext
    \/ Only("tool") /\ ToolNext
    \/ Only("payload") /\ PayloadNext
    \/ Only("auth") /\ AuthNext
    \/ Only("call") /\ CallNext
    \/ Only("answer") /\ AnswerNext
    \/ Only("session") /\ SessionNext
    \/ Only("index") /\ IndexNext
    \/ Only("pages") /\ PagesNext
    \/ Only("find") /\ FindNext
    \/ Only("recall") /\ RecallNext
    \/ Only("snapshot") /\ SnapshotNext
    \/ Only("working") /\ WorkingNext
    \/ Only("schedule") /\ ScheduleNext
    \/ Only("notice") /\ NoticeNext
    \/ Only("compaction") /\ CompactionNext
    \/ Only("extraction") /\ ExtractionNext

\* Nothing that is fair can happen in a part that has not begun.
PartsSpec ==
    PartsInit /\ [][PartsNext]_partsVars /\ ToolFairness /\ PayloadFairness
    /\ SessionFairness

------------------------------------------------------------------------------

\* What is computed step by step is what it is meant to be, said without the steps: a
\* schedule comes due at every minute it names and no other, an hour that is skipped
\* or repeated included (cron/schedule.rs); what the owner is told of a run is told
\* once, to whom it may be, with no long token in it (cron/notify.rs); an extraction
\* sees the newest that fits and takes no ambiguous reply (distill); a search asks
\* about the moment its words name, shows only what held then, and leaves out only
\* what ranks lower (recall.rs); a fact that still holds is in the snapshot unless it
\* is told there already or there is no room (snapshot.rs); and what a search of the
\* wiki shows is the best of every page that there was room for (danso-wiki/find.rs).
ReckoningTrue ==
    ScheduleSound /\ NoticesSound /\ ExtractionSound /\ RecallTrue /\ HotKept /\ FindTrue

\* Whatever Danso starts ends, and is waited for: a tool with what it forked
\* (tools/runner.rs, tools/supervisor.rs), a scheduled payload (cron/exec.rs), and
\* the thread of a turn (inprocess.rs).
ChildrenEnd == ToolEnds /\ PayloadEnds /\ TurnsEnd

\* A provider's answer is cut into the same frames however the network cut it,
\* no part of an answer is shown and then asked for again (provider/http.rs), and
\* what is made of its frames is what they said (provider/anthropic.rs and others);
\* and a conversation that grew too long goes on with nothing lost but what the
\* summary covers, and with room for the work (compaction.rs).
CallSound == ChunkingInvisible /\ NoReplay /\ AnswerWhole /\ CompactionSound
=============================================================================
