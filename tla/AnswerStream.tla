---------------------------- MODULE AnswerStream ----------------------------
(* How a provider's streamed answer becomes a message (provider/anthropic.rs, *)
(* openai.rs, chatgpt.rs, glm.rs, wire.rs).                                   *)
(*                                                                            *)
(* A provider sends frames, in any order it likes; a decoder keeps what it    *)
(* needs, shows text as it comes, and accepts an answer or refuses it.  The   *)
(* model has one request, and a frame that is not shaped as the decoder wants *)
(* it is one action.  Text is a sequence of pieces, and a call's arguments    *)
(* come in halves: two of them are an object.  Usage is left out but where a  *)
(* decoder waits for it.                                                      *)
EXTENDS Naturals, Sequences, FiniteSets

CONSTANTS Pieces,                              \* pieces of text
          MaxAnswerBlocks, MaxShown, MaxHalves \* bounds of the instance

VARIABLES
    dialect,   \* the decoder at work: whose frames it reads
    decoder,   \* what it keeps
    shown,     \* what was shown: [block, piece]
    message    \* NoMessage, RefusedAnswer, or the message
answerVars == <<dialect, decoder, shown, message>>

Dialects == {"anthropic", "responses", "buffered", "glm"}
NoMessage == [stop |-> "none", content |-> <<>>]
RefusedAnswer == [stop |-> "refused", content |-> <<>>]

Text(pieces) == [type |-> "text", text |-> pieces, args |-> 0]
ToolCall(halves) == [type |-> "toolCall", text |-> <<>>, args |-> halves]
IsCall(b) == b.type = "toolCall"
Calls(content) == {i \in DOMAIN content : IsCall(content[i])}

\* "AnthropicStream", "ResponsesStream" with the buffered parse_events, and
\* "GlmStream": what each keeps between frames.
FreshDecoder(d) ==
    CASE d = "anthropic" -> [started |-> FALSE, blocks |-> <<>>, reason |-> "none"]
      [] d \in {"responses", "buffered"} -> [terminal |-> FALSE, items |-> <<>>, output |-> <<>>]
      [] d = "glm" -> [text |-> <<>>, calls |-> <<>>, reason |-> "none", usage |-> FALSE]

AnswerInit ==
    /\ dialect \in Dialects /\ decoder = FreshDecoder(dialect)
    /\ shown = <<>> /\ message = NoMessage

\* One more frame.  Refusing one ends the request.
Reads == message = NoMessage /\ UNCHANGED dialect
Keeps(d) == Reads /\ decoder' = d /\ UNCHANGED <<shown, message>>
Shows(d, block, piece) ==
    /\ Len(shown) < MaxShown /\ Reads /\ decoder' = d /\ UNCHANGED message
    /\ shown' = Append(shown, [block |-> block, piece |-> piece])
Gives(m) == Reads /\ message' = m /\ UNCHANGED <<decoder, shown>>
Refuses == Gives(RefusedAnswer)

\* A frame that is no JSON, has a field missing or a field of the wrong type, an
\* event nobody knows, or an error the provider reports.
Malformed == Refuses
\* A comment, a ping, an event that carries nothing the decoder
\* keeps: the state stays.
Noted == Keeps(decoder)

------------------------------------------------------------------------------
(* Anthropic: a message of blocks that are opened in order, filled in any     *)
(* order, and closed.                                                         *)

MessageStart ==
    /\ dialect = "anthropic"
    /\ IF decoder.started THEN Refuses ELSE Keeps([decoder EXCEPT !.started = TRUE])

Opened(kind, index) == [kind |-> kind, text |-> <<>>, args |-> 0, stopped |-> FALSE]
ContentBlockStart(index, kind) ==
    /\ dialect = "anthropic"
    /\ IF ~decoder.started \/ index # Len(decoder.blocks) THEN Refuses
       ELSE Keeps([decoder EXCEPT !.blocks = Append(@, Opened(kind, index))])

OpenBlock(index) == index + 1 \in DOMAIN decoder.blocks /\ ~decoder.blocks[index + 1].stopped
\* A delta of text, shown at once, or half of a call's input, kept.
ContentText(index, piece) ==
    /\ dialect = "anthropic"
    /\ IF ~OpenBlock(index) \/ (OpenBlock(index) /\ decoder.blocks[index + 1].kind # "text") THEN Refuses
       ELSE Shows([decoder EXCEPT !.blocks[index + 1].text = Append(@, piece)], index, piece)
ContentInput(index) ==
    /\ dialect = "anthropic"
    /\ IF ~OpenBlock(index) \/ (OpenBlock(index) /\ decoder.blocks[index + 1].kind # "tool_use") THEN Refuses
       ELSE /\ decoder.blocks[index + 1].args < MaxHalves
            /\ Keeps([decoder EXCEPT !.blocks[index + 1].args = @ + 1])

ContentBlockStop(index) ==
    /\ dialect = "anthropic"
    /\ IF ~OpenBlock(index) THEN Refuses
       ELSE Keeps([decoder EXCEPT !.blocks[index + 1].stopped = TRUE])

MessageDelta(reason) ==
    /\ dialect = "anthropic"
    /\ IF ~decoder.started \/ decoder.reason # "none" THEN Refuses
       ELSE Keeps([decoder EXCEPT !.reason = reason])

\* response: a call without input takes none, and one with has to parse.
AnthropicContent(blocks) ==
    [i \in DOMAIN blocks |-> IF blocks[i].kind = "text" THEN Text(blocks[i].text)
                             ELSE ToolCall(blocks[i].args)]
InputParses(blocks) == \A i \in DOMAIN blocks : blocks[i].args \in {0, 2}
StopOf(reason) ==
    CASE reason \in {"end_turn", "stop_sequence"} -> "stop"
      [] reason = "tool_use" -> "toolUse"
      [] reason = "max_tokens" -> "length"
      [] OTHER -> "unsupported"
\* assistant: a known reason, some content, and calls exactly when the reason
\* says so.
AnthropicMessage(blocks, reason) ==
    LET content == AnthropicContent(blocks)  stop == StopOf(reason)
    IN IF /\ InputParses(blocks) /\ stop # "unsupported" /\ content # <<>>
          /\ (Calls(content) # {}) = (stop = "toolUse")
       THEN [stop |-> stop, content |-> content] ELSE RefusedAnswer

MessageStop ==
    /\ dialect = "anthropic"
    /\ IF /\ decoder.started /\ decoder.reason # "none"
          /\ \A i \in DOMAIN decoder.blocks : decoder.blocks[i].stopped
       THEN Gives(AnthropicMessage(decoder.blocks, decoder.reason)) ELSE Refuses

------------------------------------------------------------------------------
(* The Responses API: finished items under their index, then the response,    *)
(* which may or may not list them again.  The subscription's answer is read   *)
(* whole when nobody wants it streamed.                                       *)

ResponsesDialect == dialect \in {"responses", "buffered"}
NoItem == [type |-> "none", text |-> <<>>]
Items == {[type |-> "message", text |-> <<p>>] : p \in Pieces}
         \cup {[type |-> "function_call", text |-> <<>>], [type |-> "reasoning", text |-> <<>>]}

OutputItemDone(index, item) ==
    /\ ResponsesDialect
    /\ LET has == index + 1 \in DOMAIN decoder.items /\ decoder.items[index + 1] # NoItem
           size == IF Len(decoder.items) > index THEN Len(decoder.items) ELSE index + 1
       IN IF decoder.terminal \/ has THEN Refuses
          ELSE Keeps([decoder EXCEPT !.items = [i \in 1..size |->
                          IF i = index + 1 THEN item
                          ELSE IF i \in DOMAIN @ THEN @[i] ELSE NoItem]])

\* Only a stream has somebody to show a delta to.
OutputTextDelta(piece) ==
    /\ ResponsesDialect
    /\ IF decoder.terminal THEN Refuses
       ELSE IF dialect = "responses" THEN Shows(decoder, 0, piece) ELSE Noted
\* The stream's list of events lacks one that the buffered reader has.
RefusalDone ==
    /\ ResponsesDialect
    /\ IF dialect = "responses" \/ decoder.terminal THEN Refuses ELSE Noted

\* output_content, with the message wire makes of it: reasoning is not shown.
OutputContent(output) ==
    LET visible == SelectSeq(output, LAMBDA item : item.type # "reasoning")
    IN [i \in DOMAIN visible |-> IF visible[i].type = "message" THEN Text(visible[i].text)
                                 ELSE ToolCall(2)]
WireMessage(content) ==
    IF content = <<>> THEN RefusedAnswer
    ELSE [stop |-> IF Calls(content) # {} THEN "toolUse" ELSE "stop", content |-> content]

\* What the response lists, or the items without a gap; the two must not differ.
WholeOutput(items, listed) ==
    IF listed = <<>>
    THEN IF \A i \in DOMAIN items : items[i] # NoItem THEN items ELSE <<NoItem>>
    ELSE IF \A i \in DOMAIN items : items[i] # NoItem =>
                i \in DOMAIN listed /\ listed[i] = items[i]
         THEN listed ELSE <<NoItem>>

\* A stream ends with the response; what is read whole may hold more frames.
ResponseCompleted(listed) ==
    /\ ResponsesDialect
    /\ LET output == WholeOutput(decoder.items, listed)
       IN IF decoder.terminal \/ output = <<NoItem>> THEN Refuses
          ELSE /\ Reads /\ UNCHANGED shown
               /\ decoder' = [decoder EXCEPT !.terminal = TRUE, !.output = output]
               /\ message' = IF dialect = "responses" THEN WireMessage(OutputContent(output)) ELSE message
Done ==
    /\ ResponsesDialect /\ IF decoder.terminal THEN Noted ELSE Refuses
\* completed_prefix: the last frame of what has arrived.
BufferEnds ==
    /\ dialect = "buffered" /\ decoder.terminal /\ message = NoMessage
    /\ message' = WireMessage(OutputContent(decoder.output))
    /\ UNCHANGED <<dialect, decoder, shown>>

------------------------------------------------------------------------------
(* GLM: chunks that each carry some of the text, of the calls, the reason and *)
(* the usage.  What a chunk carries is independent, so a chunk carries one.   *)

ChunkText(piece) ==
    /\ dialect = "glm" /\ Shows([decoder EXCEPT !.text = Append(@, piece)], 0, piece)

EmptyCall == [id |-> FALSE, name |-> FALSE, args |-> 0]
ChunkCall(index, field) ==
    /\ dialect = "glm"
    /\ LET calls == IF index = Len(decoder.calls) THEN Append(decoder.calls, EmptyCall) ELSE decoder.calls
       IN IF index > Len(decoder.calls) THEN Refuses
          ELSE /\ field = "args" => calls[index + 1].args < MaxHalves
               /\ Keeps([decoder EXCEPT !.calls =
                  IF field = "args" THEN [calls EXCEPT ![index + 1].args = @ + 1]
                  ELSE [calls EXCEPT ![index + 1] = [@ EXCEPT ![field] = TRUE]]])

ChunkReason(reason) ==
    /\ dialect = "glm"
    /\ IF decoder.reason \notin {"none", reason} THEN Refuses
       ELSE Keeps([decoder EXCEPT !.reason = reason])
ChunkUsage == dialect = "glm" /\ Keeps([decoder EXCEPT !.usage = TRUE])

\* response and response_message.
GlmMessage(d) ==
    LET content == (IF d.text = <<>> THEN <<>> ELSE <<Text(d.text)>>)
                   \o [i \in DOMAIN d.calls |-> ToolCall(d.calls[i].args)]
        consistent == IF d.calls # <<>> THEN d.reason = "tool_calls"
                      ELSE d.reason \in {"stop", "length"}
    IN IF /\ \A i \in DOMAIN d.calls : d.calls[i].id /\ d.calls[i].name /\ d.calls[i].args = 2
          /\ consistent /\ content # <<>>
       THEN [stop |-> IF d.calls # <<>> THEN "toolUse" ELSE d.reason, content |-> content]
       ELSE RefusedAnswer
ChunkDone ==
    /\ dialect = "glm"
    /\ IF decoder.reason # "none" /\ decoder.usage THEN Gives(GlmMessage(decoder)) ELSE Refuses

------------------------------------------------------------------------------
\* The connection ends before the answer does.
StreamEnds ==
    /\ message = NoMessage /\ ~(dialect = "buffered" /\ decoder.terminal)
    /\ message' = RefusedAnswer /\ UNCHANGED <<dialect, decoder, shown>>

BlockIndices == 0..MaxAnswerBlocks
Listings == {<<>>} \cup UNION {[1..n -> Items] : n \in 1..MaxAnswerBlocks}
AnthropicFrame ==
    \/ MessageStart \/ MessageStop
    \/ \E i \in BlockIndices :
          \/ \E kind \in {"text", "tool_use"} :
                Len(decoder.blocks) < MaxAnswerBlocks /\ ContentBlockStart(i, kind)
          \/ (\E p \in Pieces : ContentText(i, p)) \/ ContentInput(i) \/ ContentBlockStop(i)
    \/ \E r \in {"end_turn", "tool_use", "max_tokens", "refusal"} : MessageDelta(r)
ResponsesFrame ==
    \/ \E i \in 0..(MaxAnswerBlocks - 1), item \in Items : OutputItemDone(i, item)
    \/ (\E p \in Pieces : OutputTextDelta(p)) \/ RefusalDone \/ Done \/ BufferEnds
    \/ \E listed \in Listings : ResponseCompleted(listed)
GlmFrame ==
    \/ \E p \in Pieces : ChunkText(p)
    \/ \E i \in BlockIndices, f \in {"id", "name", "args"} :
          i < MaxAnswerBlocks /\ ChunkCall(i, f)
    \/ \E r \in {"stop", "length", "tool_calls"} : ChunkReason(r)
    \/ ChunkUsage \/ ChunkDone
AnswerNext ==
    \/ (dialect = "anthropic" /\ AnthropicFrame) \/ (ResponsesDialect /\ ResponsesFrame)
    \/ (dialect = "glm" /\ GlmFrame) \/ Malformed \/ StreamEnds

AnswerSpec == AnswerInit /\ [][AnswerNext]_answerVars

------------------------------------------------------------------------------
Accepted == message.stop \notin {"none", "refused"}
ShownOf(block) == SelectSeq(shown, LAMBDA s : s.block = block)
PiecesOf(block) == [i \in DOMAIN ShownOf(block) |-> ShownOf(block)[i].piece]

\* A tool runs only for a call that came whole: every call of an accepted answer
\* has its whole input, and the answer says that it calls exactly when it does.
CallsWhole ==
    Accepted =>
        /\ (Calls(message.content) # {}) = (message.stop = "toolUse")
        /\ \A i \in Calls(message.content) : message.content[i].args \in {0, 2}

\* What was shown while an Anthropic or a GLM answer arrived is what is kept of
\* it: each block has the pieces shown for it, in their order, although deltas of
\* several blocks may alternate.
ShownIsKept ==
    Accepted /\ dialect \in {"anthropic", "glm"} =>
        \A i \in DOMAIN message.content :
            ~IsCall(message.content[i]) => message.content[i].text = PiecesOf(i - 1)

\* No finished item of a Responses answer is lost or moved: the output has it
\* under its index, however the response listed it.
ItemsKept ==
    Accepted /\ ResponsesDialect =>
        \A i \in DOMAIN decoder.items :
            decoder.items[i] # NoItem => i \in DOMAIN decoder.output /\ decoder.output[i] = decoder.items[i]

AnswerWhole == CallsWhole /\ ShownIsKept /\ ItemsKept
=============================================================================
