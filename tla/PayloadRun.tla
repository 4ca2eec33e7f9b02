------------------------------ MODULE PayloadRun ------------------------------
(***************************************************************************)
(* One payload of a scheduled task, as cron/exec.rs runs it: a child whose *)
(* outputs are pipes, a poll of its exit every 50 ms, and the reading of   *)
(* the pipes when it has exited.  A pipe holds PipeSize units; a child that *)
(* finds it full waits.  The child may leave a helper behind that has the  *)
(* pipe open.  What is then told of a finished run, and to whom, follows.  *)
(***************************************************************************)
EXTENDS Integers, SequencesExt, TLC

CONSTANTS
    Sizes,     \* the lengths of the output a payload may have
    PipeSize,  \* what the kernel buffers
    Caps,      \* the values of outputMaxBytes a task may have
    Timeout,   \* timeoutSec
    Helpers    \* whether a payload may leave a process behind

ASSUME PayloadAssumption ==
    /\ Sizes \subseteq Nat /\ Caps \subseteq Nat \ {0}
    /\ {PipeSize, Timeout} \subseteq Nat \ {0} /\ Helpers \subseteq BOOLEAN

VARIABLES
    size, cap, helper, \* the payload, its cap, and whether it leaves a helper
    written,  \* what the child has written
    child,    \* "none", "runs", "exited" or "reaped"
    held,     \* whether the helper still has the pipe open
    waiting,  \* run_command_payload: "idle", "polls", "checks", "reads" or "returned"
    elapsed,  \* time since the start
    outcome   \* HeadlessOutcome: the length and whether it was clipped

payloadVars == <<size, cap, helper, written, child, held, waiting, elapsed, outcome>>

NoOutcome == [timed_out |-> FALSE, length |-> 0, clipped |-> FALSE]
Lesser(a, b) == IF a < b THEN a ELSE b

PayloadInit ==
    /\ size = 0 /\ cap = 0 /\ helper = FALSE
    /\ written = 0 /\ child = "none" /\ held = FALSE
    /\ waiting = "idle" /\ elapsed = 0 /\ outcome = NoOutcome

\* run_command_payload: the child, its pipes, and the task's cap.
Start ==
    /\ waiting = "idle" /\ waiting' = "polls" /\ child' = "runs"
    /\ size' \in Sizes /\ cap' \in Caps /\ helper' \in Helpers /\ held' = helper'
    /\ UNCHANGED <<written, elapsed, outcome>>

Full == written >= PipeSize

\* The child writes, and ends when all is written.
Write ==
    /\ child = "runs" /\ written < size /\ ~Full
    /\ written' = written + 1
    /\ UNCHANGED <<size, cap, helper, child, held, waiting, elapsed, outcome>>

ChildExits ==
    /\ child = "runs" /\ written = size /\ child' = "exited"
    /\ UNCHANGED <<size, cap, helper, written, held, waiting, elapsed, outcome>>

HelperEnds ==
    /\ held /\ child \notin {"none", "runs"} /\ held' = FALSE
    /\ UNCHANGED <<size, cap, helper, written, child, waiting, elapsed, outcome>>

\* A child may also be slow, or sleep.
Elapse ==
    /\ waiting \in {"polls", "checks"} /\ elapsed < Timeout /\ elapsed' = elapsed + 1
    /\ UNCHANGED <<size, cap, helper, written, child, held, waiting, outcome>>

\* wait_with_timeout: the exit first, then the time.  Nothing is read meanwhile.
SeeExit ==
    /\ waiting = "polls" /\ child = "exited"
    /\ child' = "reaped" /\ waiting' = "reads"
    /\ UNCHANGED <<size, cap, helper, written, held, elapsed, outcome>>

SeeNone ==
    /\ waiting = "polls" /\ child = "runs" /\ waiting' = "checks"
    /\ UNCHANGED <<size, cap, helper, written, child, held, elapsed, outcome>>
PollAgain ==
    /\ waiting = "checks" /\ elapsed < Timeout /\ waiting' = "polls"
    /\ UNCHANGED <<size, cap, helper, written, child, held, elapsed, outcome>>

\* The child may have ended since it was looked at.
TimeUp ==
    /\ waiting = "checks" /\ elapsed >= Timeout
    /\ child' = "reaped" /\ waiting' = "returned"
    /\ outcome' = [NoOutcome EXCEPT !.timed_out = TRUE]
    /\ UNCHANGED <<size, cap, helper, written, held, elapsed>>

\* cap_bytes
Capped(n) == [timed_out |-> FALSE, length |-> Lesser(n, cap), clipped |-> n > cap]

\* wait_with_output: to the end of the pipes.
Collect ==
    /\ waiting = "reads" /\ ~held
    /\ waiting' = "returned" /\ outcome' = Capped(written)
    /\ UNCHANGED <<size, cap, helper, written, child, held, elapsed>>

PayloadNext ==
    \/ Start \/ Write \/ ChildExits \/ HelperEnds \/ Elapse
    \/ SeeExit \/ SeeNone \/ PollAgain \/ TimeUp \/ Collect

\* Time passes and danso polls and reads; the child may do as it likes.
PayloadFairness == WF_payloadVars(Elapse) /\ WF_payloadVars(SeeExit \/ SeeNone \/ PollAgain \/ TimeUp \/ Collect)

-----------------------------------------------------------------------------

\* A payload comes back, with its child reaped, within its time or when the
\* last process that has the pipe open is gone.
PayloadEnds == waiting = "polls" ~> child = "reaped" /\ (waiting = "returned" \/ held)

\* The cap clips what is too long and says so (exec.rs, cap_bytes): a child is
\* not kept from ending, and then reported as too slow, because nobody reads.
NotStarved == outcome.timed_out => ~(Full /\ written < size)

\* The time limit is on the whole run (docs/agent-cron.md): it comes back,
\* whoever still has the pipe open.
TimeoutEndsRun == waiting = "polls" ~> waiting = "returned"

-----------------------------------------------------------------------------
(* The notice of a finished run (src/cron/notify.rs): whether there is one and  *)
(* for whom, what of the output it carries, and the file in the spool that the  *)
(* bridge delivers it from.                                                     *)
(*                                                                              *)
(* The output is lines.  A line is a diagnostic token, a row that begins with   *)
(* one, or a run of characters that a credential may be made of: "/", "r" for   *)
(* the name of a root directory, "x" for another character of file names, "="   *)
(* for one that is in none.                                                     *)

CONSTANTS NoticeTasks,  \* [notify |-> mode, chat |-> chat id or "none"]
          NoticeChats,  \* the chats on the allowlist
          Outputs,      \* lines: [token |-> TRUE] or [token |-> FALSE, run |-> characters]
          LongRun,      \* OWNER_LONG_RUN_MIN
          CountMax,     \* FLEET_DIAGNOSTIC_COUNT_MAX
          MaxNotices

ASSUME NoticeAssumption == LongRun >= 2 /\ CountMax \in Nat /\ MaxNotices \in Nat

VARIABLES
    ended,     \* runs that ended: [task, status, output, delivery]
    spooled    \* notices in the spool: [run, to, title, text]
noticeVars == <<ended, spooled>>

NoticeInit == ended = <<>> /\ spooled = {}

------------------------------------------------------------------------------
(* The long runs (mask_long_token_run).                                       *)

IsSegmentByte(c) == c \in {"r", "x"}
\* From one of the root directories on: names with slashes before them, none of
\* them long, each up to a slash or the end of the run.
IsPath(run, from, to) ==
    /\ run[from] = "/" /\ run[from + 1] = "r" /\ run[from + 2] = "/"
    /\ to = Len(run) \/ run[to + 1] = "/"
    /\ run[to] # "/"
    /\ \A i \in (from + 2)..to :
          /\ run[i] = "/" => run[i + 1] # "/"
          /\ run[i] = "/" \/ IsSegmentByte(run[i])
    /\ \A i \in (from + 2)..(to - LongRun + 1) : \E j \in i..(i + LongRun - 1) : run[j] = "/"
PathEnds(run, from) == {to \in (from + 3)..Len(run) : IsPath(run, from, to)}

\* safe_path_ranges: from left to right, each as far as it goes.
SafePathRanges(run) ==
    LET from[i \in 1..(Len(run) + 1)] ==
          IF i > Len(run) THEN <<>>
          ELSE IF PathEnds(run, i) = {} THEN from[i + 1]
          ELSE LET end == CHOOSE e \in PathEnds(run, i) : \A o \in PathEnds(run, i) : o <= e
               IN <<<<i, end>>>> \o from[end + 1]
    IN from[1]

\* What is no path is masked where it is as long as the whole run had to be.
Unmasked(piece, last) == IF Len(piece) >= LongRun THEN <<"*">> ELSE piece
MaskLongTokenRun(run) ==
    LET paths == SafePathRanges(run)
        cursor(k) == IF k = 1 THEN 1 ELSE paths[k - 1][2] + 1
        before(k) == SubSeq(run, cursor(k), paths[k][1] - 1)
        pieces == [k \in 1..Len(paths) |->
                     Unmasked(before(k), FALSE) \o SubSeq(run, paths[k][1], paths[k][2])]
    IN FlattenSeq(pieces) \o Unmasked(SubSeq(run, cursor(Len(paths) + 1), Len(run)), TRUE)

\* redact_for_owner: only runs of that length are looked into.
Redacted(line) ==
    IF line.token \/ Len(line.run) < LongRun THEN line
    ELSE [token |-> FALSE, run |-> MaskLongTokenRun(line.run)]
RedactForOwner(output) == [i \in 1..Len(output) |-> Redacted(output[i])]

------------------------------------------------------------------------------
(* The notice (build_owner_text, write_owner_spool).                          *)

\* fleet_diagnostic_title: how many lines begin with a token, of a run that failed.
Counted(output) ==
    LET n == Cardinality({i \in 1..Len(output) : output[i].token})
    IN IF n < CountMax THEN n ELSE CountMax
Title(status, output) == IF status = "success" THEN 0 ELSE Counted(output)

OnFailure == {"telegram-owner-on-failure", "telegram-chat-on-failure"}
ToChat == {"telegram-chat", "telegram-chat-on-failure"}

Delivery(task, status) ==
    IF task.notify = "none" THEN "none"
    ELSE IF task.notify \in OnFailure /\ status = "success" THEN "skipped-success"
    ELSE IF task.notify \in ToChat /\ task.chat = "none" THEN "blocked-missing-chat"
    ELSE IF task.notify \in ToChat /\ task.chat \notin NoticeChats THEN "blocked-not-allowlisted"
    ELSE "spooled"

BuildNotice(run, task, status, output) ==
    [run |-> run, to |-> IF task.notify \in ToChat THEN task.chat ELSE "owner",
     title |-> Title(status, RedactForOwner(output)), text |-> RedactForOwner(output)]

\* A run ends, and its notice is spooled under the name of the run; a spool that
\* cannot be written to costs the notice and nothing else.
Notify(task, status, output) ==
    /\ Len(ended) < MaxNotices
    /\ LET how == Delivery(task, status) IN
       \E stored \in BOOLEAN :
          /\ how # "spooled" => stored
          /\ ended' = Append(ended, [task |-> task, status |-> status, output |-> output,
                                     delivery |-> IF stored THEN how ELSE "spool-error"])
          /\ spooled' = IF how = "spooled" /\ stored
                        THEN spooled \cup {BuildNotice(Len(ended) + 1, task, status, output)}
                        ELSE spooled

NoticeNext ==
    \E task \in NoticeTasks, status \in {"success", "failed", "timeout"}, output \in Outputs :
       Notify(task, status, output)

NoticeSpec == NoticeInit /\ [][NoticeNext]_noticeVars

------------------------------------------------------------------------------
\* No stretch between slashes that is as long as a credential might be leaves the
\* module, whatever paths the text is made to look like (notify.rs: "a segment is
\* never partially consumed"), and a path below a root is left readable.
NoLongStretch ==
    \A n \in spooled : \A i \in 1..Len(n.text) :
       LET line == n.text[i]
           before == ended[n.run].output[i]
       IN ~line.token =>
            /\ \A j \in 1..(Len(line.run) - LongRun + 1) :
                  \E k \in j..(j + LongRun - 1) : line.run[k] \in {"/", "*"}
            /\ PathEnds(before.run, 1) # {} /\ Len(before.run) \in PathEnds(before.run, 1) =>
                  line.run = before.run

\* One notice for a run that is reported as delivered, to a chat that is on the
\* list or to the owner, and none for another; the alert counts what the whole
\* output said, and a success raises none.
NoticesTrue ==
    /\ \A r \in 1..Len(ended) :
          Cardinality({n \in spooled : n.run = r}) = (IF ended[r].delivery = "spooled" THEN 1 ELSE 0)
    /\ \A n \in spooled :
          LET run == ended[n.run] IN
          /\ n.to = "owner" <=> run.task.notify \notin ToChat
          /\ n.to # "owner" => n.to \in NoticeChats
          /\ run.task.notify \in OnFailure => run.status # "success"
          /\ n.title > 0 <=> run.status # "success" /\ \E i \in 1..Len(run.output) : run.output[i].token

NoticesSound == NoLongStretch /\ NoticesTrue
=============================================================================
