---------------------------- MODULE ProviderCall ----------------------------
(* One streamed provider request (src/provider/http.rs `post_sse`): attempts, *)
(* retries, and the cutting of the response body into server-sent-event       *)
(* frames.  A request whose answer is not streamed (`post_until`) makes its   *)
(* attempts in the same way.                                                  *)
(*                                                                            *)
(* The body arrives in pieces the network chooses.  The frames are handed to  *)
(* the provider, which shows their text at once, so a request may not be      *)
(* repeated when a body has begun; and the frames may not depend on how the   *)
(* body was cut.  The scanner keeps the length it has already searched and    *)
(* resumes a little before it.                                                *)
EXTENDS Naturals, Sequences, SequencesExt

CONSTANTS Retries,      \* the configured retry budget
          Alphabet,     \* the bytes that matter: "r" and "n" are CR and LF
          MaxBody,      \* longest body
          MaxFrames     \* the provider is done after this many frames

ASSUME CallAssumption ==
    Retries \in Nat /\ MaxBody \in Nat /\ MaxFrames \in Nat /\ {"r", "n"} \subseteq Alphabet

VARIABLES phase,     \* "sending", "body", "done", "failed"
          attempt,   \* attempts made
          body,      \* what the provider sends, all of it
          read,      \* how much of it has arrived
          buffer,   \* received and not yet cut off
          scanned,   \* how much of buffer is known to hold no terminator
          frames,    \* the frames handed on
          shownAt    \* the attempt whose frames were handed on, 0 before
callVars == <<phase, attempt, body, read, buffer, scanned, frames, shownAt>>

CallInit ==
    /\ phase = "sending" /\ attempt = 0
    /\ body \in UNION {[1..n -> Alphabet] : n \in 0..MaxBody}
    /\ read = 0 /\ buffer = <<>> /\ scanned = 0 /\ frames = <<>> /\ shownAt = 0

------------------------------------------------------------------------------
(* Attempts.                                                                  *)

response == <<body, read, buffer, scanned, frames, shownAt>>

\* Only what failed before a response: the connection, the wait for headers, or
\* a status that asks to come back later.
MayRetry == phase = "sending" /\ attempt <= Retries

\* The request goes out, and a response with status success comes back.
Respond ==
    /\ phase = "sending"
    /\ attempt' = attempt + 1 /\ phase' = "body"
    /\ UNCHANGED response

\* It fails before the body, or with a retryable status: again after a pause, or
\* not at all.
FailBefore ==
    /\ phase = "sending"
    /\ attempt' = attempt + 1
    /\ phase' = IF attempt + 1 <= Retries THEN "sending" ELSE "failed"
    /\ UNCHANGED response

\* Another status, or a quota that will not come back: no retry.
TurnedDown ==
    /\ phase = "sending"
    /\ attempt' = attempt + 1 /\ phase' = "failed"
    /\ UNCHANGED response

\* The connection breaks in the body.
Broken ==
    /\ phase = "body"
    /\ phase' = IF MayRetry THEN "sending" ELSE "failed"
    /\ IF MayRetry
       THEN read' = 0 /\ buffer' = <<>> /\ scanned' = 0 /\ UNCHANGED <<frames, shownAt>>
       ELSE UNCHANGED <<read, buffer, scanned, frames, shownAt>>
    /\ UNCHANGED <<attempt, body>>

------------------------------------------------------------------------------
(* Frames.                                                                    *)

Terminators == {<<"n", "n">>, <<"r", "r">>, <<"r", "n", "n">>, <<"r", "n", "r", "n">>}

\* sse_frame_end: the end of the first terminator that starts in the data, 0 if
\* there is none.
FrameEnd(data) ==
    LET At(i, t) == i + Len(t) - 1 <= Len(data) /\ SubSeq(data, i, i + Len(t) - 1) = t
        starts == {i \in 1..Len(data) : \E t \in Terminators : At(i, t)}
        first == CHOOSE i \in starts : \A j \in starts : i <= j
    IN IF starts = {} THEN 0
       ELSE first - 1 + Len(CHOOSE t \in Terminators : At(first, t))

\* Mutant of ResumeAt: the search goes on where it stopped.
ResumeAtOnce(known) == known
\* A terminator may have begun in the last three bytes searched.
ResumeAt(known) == IF known > 3 THEN known - 3 ELSE 0

\* The search over one more piece: cut off every complete frame.
Scan[todo \in Seq(Alphabet), known \in Nat, out \in Seq(Seq(Alphabet))] ==
    LET from == ResumeAt(known)
        end == FrameEnd(SubSeq(todo, from + 1, Len(todo)))
        cut == from + end
    IN IF end = 0 \/ Len(out) = MaxFrames
       THEN [buffer |-> todo, scanned |-> Len(todo), frames |-> out]
       ELSE Scan[SubSeq(todo, cut + 1, Len(todo)), IF known > cut THEN known - cut ELSE 0,
                 Append(out, SubSeq(todo, 1, cut))]

\* A piece of the body arrives.  The provider ends the call with the frame that
\* completes its answer.
Receive(n) ==
    /\ phase = "body" /\ read + n <= Len(body)
    /\ LET scan == Scan[buffer \o SubSeq(body, read + 1, read + n), scanned, frames] IN
       /\ buffer' = scan.buffer /\ scanned' = scan.scanned /\ frames' = scan.frames
       /\ shownAt' = IF scan.frames # <<>> THEN attempt ELSE shownAt
       /\ phase' = IF Len(scan.frames) = MaxFrames THEN "done" ELSE "body"
    /\ read' = read + n
    /\ UNCHANGED <<attempt, body>>

\* The body ends before the provider has its answer.
EndOfBody ==
    /\ phase = "body" /\ read = Len(body)
    /\ phase' = "failed"
    /\ UNCHANGED <<attempt, response>>

CallNext ==
    \/ Respond \/ FailBefore \/ TurnedDown \/ Broken \/ EndOfBody
    \/ \E n \in 1..MaxBody : Receive(n)

CallSpec == CallInit /\ [][CallNext]_callVars

------------------------------------------------------------------------------
\* What ends a frame, said of the text alone: the shortest beginning that ends
\* in a terminator.
IsFrameOf(f, text) ==
    /\ IsPrefix(f, text) /\ \E t \in Terminators : IsSuffix(t, f)
    /\ \A g \in Prefixes(f) \ {f} : \A t \in Terminators : ~IsSuffix(t, g)

\* However the network cuts the body, the frames handed on are the frames of
\* the text received so far: none is missed at a boundary, merged with the next
\* or handed on twice.
ChunkingInvisible ==
    LET cut == FoldLeft(LAMBDA n, f : n + Len(f), 0, frames)
        rest == SubSeq(body, cut + 1, read)
    IN phase = "body" =>
       /\ \A i \in DOMAIN frames :
              IsFrameOf(frames[i],
                  SubSeq(body, 1 + FoldLeft(LAMBDA n, f : n + Len(f), 0, SubSeq(frames, 1, i - 1)), read))
       /\ \A f \in Prefixes(rest) : ~IsFrameOf(f, rest)

\* Once a frame has been handed on, and its text shown, no other request is
\* made: one answer is never shown twice.
NoReplay == shownAt # 0 => attempt = shownAt
==============================================================================
