------------------------------ MODULE OpsProofs ------------------------------
(***************************************************************************)
(* Theorems of the restart handoff, for any number of requests, workers    *)
(* that die or are run twice, and receipts that are written over; and of   *)
(* the service: its pid file, and why its built-in supervisor gives up.    *)
(***************************************************************************)
EXTENDS RestartHandoff, ServiceLife, SequenceTheorems, TLAPS

-----------------------------------------------------------------------------
(* The restart handoff (RestartHandoff).                                   *)

AskerSteps == {"idle", "checked", "running", "done"}
Answers == {"nothing", "refused", "scheduled", "rejected"}
WorkerSteps ==
  {"none", "start", "taking", "armed", "proving", "finishing", "writing", "done"}

Receipts ==
  [id : Requests, state : {"prepared", "armed", "completed", "failed"}, previous : Nat,
   created : Nat, new : Nat]
Askers == [pc : AskerSteps, created : Nat, at : Nat, told : Answers]
WorkerRecords ==
  [pc : WorkerSteps, previous : Nat, created : Nat, deadline : Nat,
   result : {"none", "completed", "failed"}, new : Nat]
Counts == [pids : Nat, faults : Nat, restarted : [Requests -> Nat]]

\* The part of the type the arguments need, for any bounds.
HandoffShape ==
  /\ receipt \in {NoReceipt} \cup Receipts
  /\ asker \in [Requests -> Askers]
  /\ timer \in [Requests -> Nat]
  /\ worker \in [Requests -> WorkerRecords]
  /\ unit \in Nat /\ now \in Nat
  /\ used \in Counts

\* A worker comes after a timer, a timer after a receipt, and what a scheduler was
\* told follows its steps.
InTurn ==
  \A id \in Requests :
    /\ worker[id].pc /= "none" \/ used.restarted[id] > 0 => timer[id] /= Unarmed
    /\ timer[id] /= Unarmed => Wrote(id)
    /\ asker[id].told /= "nothing" => asker[id].pc = "done"

\* A worker restarts nothing before it holds its request, and what it holds, or
\* has restarted for, is not prepared again.
TakenOnce ==
  \A id \in Requests :
    /\ worker[id].pc \in {"taking", "armed"} => used.restarted[id] = 0
    /\ worker[id].pc = "armed" \/ used.restarted[id] > 0 => ~IsMine(id)
    /\ IsMine(id) => Wrote(id)

\* What a worker is about to write down is a result, and what it calls completed
\* names a new process.
ResultIsReplaced ==
  \A id \in Requests : worker[id].pc \in {"finishing", "writing"} =>
    /\ worker[id].result /= "none"
    /\ worker[id].result = "completed" =>
         worker[id].new /= NoPid /\ worker[id].new /= worker[id].previous

RestartInv == HandoffShape /\ InTurn /\ TakenOnce /\ ResultIsReplaced /\ RestartHonest

-----------------------------------------------------------------------------
(* The receipt as a door, one scheduler at a time.                         *)

\* The request may still restart the unit, or write the receipt.
Live(id) ==
  worker[id].pc \in {"taking", "armed", "proving", "finishing", "writing"} \/ IsMine(id)

SomeLapsed == \E c \in Requests : Lapsed(c, now)

\* Something had lapsed when id asked.
Excused(id) == \E c \in Requests \ {id} : Lapsed(c, asker[id].created)

Finished == receipt /= NoReceipt /\ IsTerminal(receipt.state)

\* One scheduler at a time; whoever holds a receipt, or is in it, has written one
\* and knows when.
Serial ==
  /\ \A a, b \in Requests :
       asker[a].pc \in {"checked", "running"} /\ asker[b].pc \in {"checked", "running"} => a = b
  /\ \A id \in Requests :
       /\ asker[id].created <= now
       /\ worker[id].pc \in {"taking", "armed", "proving", "finishing", "writing"} =>
            Wrote(id) /\ worker[id].created = asker[id].created
  /\ receipt /= NoReceipt => Wrote(receipt.id) /\ receipt.created = asker[receipt.id].created

\* Of two live requests one was let in over a receipt that had lapsed.
LiveExcused == \A a, b \in Requests : a /= b /\ Live(a) /\ Live(b) => Excused(a) \/ Excused(b)

\* So was whoever has passed the check while another is live.
CheckedExcused ==
  \A a, b \in Requests : asker[b].pc = "checked" /\ Live(a) => Excused(b)

\* No receipt, or a result in it, with a request that is live or about to write:
\* only after one lapsed.
OpenDoor ==
  /\ receipt = NoReceipt \/ Finished => \A a \in Requests : Live(a) => SomeLapsed
  /\ Finished => \A b \in Requests : asker[b].pc = "checked" => SomeLapsed
  /\ reader /= NoReceipt /\ ~Finished => SomeLapsed

DoorInv ==
  RestartInv /\ Serial /\ LiveExcused /\ CheckedExcused /\ OpenDoor
(* Steps.                                                                   *)

\* A worker's record with what a step changes in it is one.
LEMMA WorkerUpdate ==
    ASSUME NEW w \in WorkerRecords, NEW n \in Nat, NEW m \in Nat,
           NEW r \in {"none", "completed", "failed"}
    PROVE  /\ [w EXCEPT !.pc = "taking", !.previous = n, !.created = m] \in WorkerRecords
           /\ [w EXCEPT !.pc = "proving", !.deadline = n] \in WorkerRecords
           /\ [w EXCEPT !.pc = "finishing", !.result = r, !.new = n] \in WorkerRecords
    BY DEF WorkerRecords, WorkerSteps

\* So are the counts after a restart that succeeds or fails.
LEMMA CountsUpdate ==
    ASSUME NEW u \in Counts, NEW id \in Requests
    PROVE  /\ [u EXCEPT !.pids = @ + 1, !.restarted[id] = @ + 1] \in Counts
           /\ [u EXCEPT !.faults = @ + 1, !.restarted[id] = @ + 1] \in Counts
<1>1. ASSUME NEW R, NEW v \in [pids : Nat, faults : Nat, restarted : R],
             [v.restarted EXCEPT ![id] = @ + 1] \in R
      PROVE  /\ [v EXCEPT !.pids = @ + 1, !.restarted[id] = @ + 1]
                   \in [pids : Nat, faults : Nat, restarted : R]
             /\ [v EXCEPT !.faults = @ + 1, !.restarted[id] = @ + 1]
                   \in [pids : Nat, faults : Nat, restarted : R]
    <2>1. v.pids + 1 \in Nat /\ v.faults + 1 \in Nat
        OBVIOUS
    <2>2. ASSUME NEW n \in Nat
          PROVE  [v EXCEPT !.pids = n, !.restarted[id] = @ + 1]
                   \in [pids : Nat, faults : Nat, restarted : R]
        BY <1>1
    <2>3. ASSUME NEW n \in Nat
          PROVE  [v EXCEPT !.faults = n, !.restarted[id] = @ + 1]
                   \in [pids : Nat, faults : Nat, restarted : R]
        BY <1>1
    <2> QED
        BY <2>1, <2>2, <2>3
<1>2. [u.restarted EXCEPT ![id] = @ + 1] \in [Requests -> Nat]
    BY DEF Counts
<1> QED
    BY <1>1, <1>2 DEF Counts

\* No request yet.
LEMMA RestartInvInit == HandoffInit => RestartInv
<1> SUFFICES ASSUME HandoffInit PROVE RestartInv
    OBVIOUS
<1> USE HandoffTimes DEF HandoffInit
<1>1. HandoffShape
    BY DEF HandoffShape, Askers, AskerSteps, Answers, WorkerRecords, WorkerSteps, Receipts, Counts,
       Unarmed, NoWorker, NoPid
<1>2. InTurn /\ TakenOnce /\ ResultIsReplaced /\ RestartHonest
    BY DEF InTurn, TakenOnce, ResultIsReplaced, RestartHonest, RestartOnce, CompletedIsReplaced,
       Wrote, IsMine, NoWorker
<1> QED
    BY <1>1, <1>2 DEF RestartInv

\* One step of a request, its worker, the manager or the clock.
LEMMA RestartInvStep == RestartInv /\ [HandoffNext]_handoffVars => RestartInv'
<1> SUFFICES ASSUME RestartInv, [HandoffNext]_handoffVars PROVE RestartInv'
    OBVIOUS
<1> USE HandoffTimes DEF Tell, Step, Conclude, Receipt, Faulted, NoWorker, NoPid
<1>shape. /\ receipt \in {NoReceipt} \cup Receipts
          /\ asker \in [Requests -> Askers] /\ timer \in [Requests -> Nat]
          /\ worker \in [Requests -> WorkerRecords]
          /\ used \in Counts /\ unit \in Nat /\ now \in Nat
    BY DEF RestartInv, HandoffShape
<1>1. ASSUME NEW id \in Requests, RefuseRequest(id) PROVE RestartInv'
    <2>1. HandoffShape'
        <3>2. asker' \in [Requests -> Askers]
            BY ZenonT(30), <1>1, <1>shape DEF Askers, AskerSteps, Answers, RefuseRequest, MayBegin
        <3> QED
            BY <1>shape, <1>1, <3>2 DEF HandoffShape, RefuseRequest
    <2>2. InTurn'
        BY ZenonT(30), <1>1 DEF RestartInv, Counts, HandoffShape, Askers, WorkerRecords, AskerSteps,
           Answers, WorkerSteps, InTurn, Wrote, RefuseRequest, MayBegin
    <2>3. TakenOnce'
        BY <1>1 DEF RestartInv, Unarmed, HandoffShape, Askers, WorkerRecords, Counts, Receipts,
           InTurn, TakenOnce, Wrote, IsMine, RefuseRequest, MayBegin
    <2>4. ResultIsReplaced'
        BY <1>1 DEF RestartInv, HandoffShape, WorkerRecords, ResultIsReplaced, RefuseRequest,
           MayBegin
    <2>5. RestartHonest'
        BY <1>1 DEF RestartInv, HandoffShape, WorkerRecords, Counts, Receipts, TakenOnce, IsMine,
           ResultIsReplaced, RestartHonest, RestartOnce, CompletedIsReplaced, RefuseRequest,
           MayBegin
    <2> QED
        BY <2>1, <2>2, <2>3, <2>4, <2>5 DEF RestartInv
<1>2. ASSUME NEW id \in Requests, CheckReceipt(id) PROVE RestartInv'
    <2>1. HandoffShape'
        <3>2. asker' \in [Requests -> Askers]
            BY ZenonT(30), <1>2, <1>shape DEF Askers, AskerSteps, Answers, CheckReceipt, MayBegin
        <3> QED
            BY <1>shape, <1>2, <3>2 DEF HandoffShape, CheckReceipt
    <2>2. InTurn'
        BY <1>2 DEF RestartInv, Counts, HandoffShape, Askers, WorkerRecords, AskerSteps, Answers,
           WorkerSteps, InTurn, Wrote, CheckReceipt, MayBegin
    <2>3. TakenOnce'
        BY <1>2 DEF RestartInv, Unarmed, HandoffShape, Askers, WorkerRecords, Counts, Receipts,
           InTurn, TakenOnce, Wrote, IsMine, CheckReceipt, MayBegin
    <2>4. ResultIsReplaced'
        BY <1>2 DEF RestartInv, HandoffShape, WorkerRecords, ResultIsReplaced, CheckReceipt,
           MayBegin
    <2>5. RestartHonest'
        BY <1>2 DEF RestartInv, HandoffShape, WorkerRecords, Counts, Receipts, TakenOnce, IsMine,
           ResultIsReplaced, RestartHonest, RestartOnce, CompletedIsReplaced, CheckReceipt, MayBegin
    <2> QED
        BY <2>1, <2>2, <2>3, <2>4, <2>5 DEF RestartInv
<1>3. ASSUME NEW id \in Requests, WriteReceipt(id) PROVE RestartInv'
    <2>1. HandoffShape'
        <3>1. receipt' \in {NoReceipt} \cup Receipts
            BY <1>3, <1>shape DEF Receipts, WorkerRecords, Askers, WriteReceipt
        <3>2. asker' \in [Requests -> Askers]
            BY <1>3, <1>shape DEF Askers, AskerSteps, Answers, WriteReceipt
        <3> QED
            BY <1>shape, <1>3, <3>1, <3>2 DEF HandoffShape, WriteReceipt
    <2>2. InTurn'
        BY <1>3 DEF RestartInv, Counts, HandoffShape, Askers, WorkerRecords, AskerSteps, Answers,
           WorkerSteps, InTurn, Wrote, WriteReceipt
    <2>3. TakenOnce'
        BY <1>3 DEF RestartInv, Unarmed, HandoffShape, Askers, WorkerRecords, Counts, Receipts,
           InTurn, TakenOnce, Wrote, IsMine, WriteReceipt
    <2>4. ResultIsReplaced'
        BY <1>3 DEF RestartInv, HandoffShape, WorkerRecords, ResultIsReplaced, WriteReceipt
    <2>5. RestartHonest'
        BY <1>3 DEF RestartInv, HandoffShape, WorkerRecords, Counts, Receipts, TakenOnce, IsMine,
           ResultIsReplaced, RestartHonest, RestartOnce, CompletedIsReplaced, WriteReceipt
    <2> QED
        BY <2>1, <2>2, <2>3, <2>4, <2>5 DEF RestartInv
<1>4. ASSUME NEW id \in Requests, WriteReceiptFails(id) PROVE RestartInv'
    <2>1. HandoffShape'
        <3>2. asker' \in [Requests -> Askers]
            BY <1>4, <1>shape DEF Askers, AskerSteps, Answers, WriteReceiptFails
        <3>4. used' \in Counts
            BY <1>4, <1>shape DEF Counts, WriteReceiptFails
        <3> QED
            BY <1>shape, <1>4, <3>2, <3>4 DEF HandoffShape, WriteReceiptFails
    <2>2. InTurn'
        BY <1>4 DEF RestartInv, Counts, HandoffShape, Askers, WorkerRecords, AskerSteps, Answers,
           WorkerSteps, InTurn, Wrote, WriteReceiptFails
    <2>3. TakenOnce'
        BY <1>4 DEF RestartInv, Unarmed, HandoffShape, Askers, WorkerRecords, Counts, Receipts,
           InTurn, TakenOnce, Wrote, IsMine, WriteReceiptFails
    <2>4. ResultIsReplaced'
        BY <1>4 DEF RestartInv, HandoffShape, WorkerRecords, ResultIsReplaced, WriteReceiptFails
    <2>5. RestartHonest'
        BY <1>4 DEF RestartInv, HandoffShape, WorkerRecords, Counts, Receipts, TakenOnce, IsMine,
           ResultIsReplaced, RestartHonest, RestartOnce, CompletedIsReplaced, WriteReceiptFails
    <2> QED
        BY <2>1, <2>2, <2>3, <2>4, <2>5 DEF RestartInv
<1>5. ASSUME NEW id \in Requests, ArmTimer(id) PROVE RestartInv'
    <2>1. HandoffShape'
        <3>5. timer' \in [Requests -> Nat] /\ unit' \in Nat
            BY <1>5, <1>shape DEF Counts, ArmTimer
        <3> QED
            BY <1>shape, <1>5, <3>5 DEF HandoffShape, ArmTimer
    <2>2. InTurn'
        BY <1>5 DEF RestartInv, Counts, HandoffShape, Askers, WorkerRecords, AskerSteps, Answers,
           WorkerSteps, InTurn, Wrote, ArmTimer
    <2>3. TakenOnce'
        BY <1>5 DEF RestartInv, Unarmed, HandoffShape, Askers, WorkerRecords, Counts, Receipts,
           InTurn, TakenOnce, Wrote, IsMine, ArmTimer
    <2>4. ResultIsReplaced'
        BY <1>5 DEF RestartInv, HandoffShape, WorkerRecords, ResultIsReplaced, ArmTimer
    <2>5. RestartHonest'
        BY <1>5 DEF RestartInv, HandoffShape, WorkerRecords, Counts, Receipts, TakenOnce, IsMine,
           ResultIsReplaced, RestartHonest, RestartOnce, CompletedIsReplaced, ArmTimer
    <2> QED
        BY <2>1, <2>2, <2>3, <2>4, <2>5 DEF RestartInv
<1>6. ASSUME NEW id \in Requests, ReportScheduled(id) PROVE RestartInv'
    <2>1. HandoffShape'
        <3>2. asker' \in [Requests -> Askers]
            BY <1>6, <1>shape DEF Askers, AskerSteps, Answers, ReportScheduled
        <3> QED
            BY <1>shape, <1>6, <3>2 DEF HandoffShape, ReportScheduled
    <2>2. InTurn'
        BY <1>6 DEF RestartInv, Counts, HandoffShape, Askers, WorkerRecords, AskerSteps, Answers,
           WorkerSteps, InTurn, Wrote, ReportScheduled
    <2>3. TakenOnce'
        BY <1>6 DEF RestartInv, Unarmed, HandoffShape, Askers, WorkerRecords, Counts, Receipts,
           InTurn, TakenOnce, Wrote, IsMine, ReportScheduled
    <2>4. ResultIsReplaced'
        BY <1>6 DEF RestartInv, HandoffShape, WorkerRecords, ResultIsReplaced, ReportScheduled
    <2>5. RestartHonest'
        BY <1>6 DEF RestartInv, HandoffShape, WorkerRecords, Counts, Receipts, TakenOnce, IsMine,
           ResultIsReplaced, RestartHonest, RestartOnce, CompletedIsReplaced, ReportScheduled
    <2> QED
        BY <2>1, <2>2, <2>3, <2>4, <2>5 DEF RestartInv
<1>7. ASSUME NEW id \in Requests, ReportRejected(id) PROVE RestartInv'
    <2>1. HandoffShape'
        <3>1. receipt' \in {NoReceipt} \cup Receipts
            BY <1>7, <1>shape DEF Receipts, WorkerRecords, Askers, ReportRejected
        <3>2. asker' \in [Requests -> Askers]
            BY <1>7, <1>shape DEF Askers, AskerSteps, Answers, ReportRejected
        <3>4. used' \in Counts
            BY <1>7, <1>shape DEF Counts, ReportRejected
        <3> QED
            BY <1>shape, <1>7, <3>1, <3>2, <3>4 DEF HandoffShape, ReportRejected
    <2>2. InTurn'
        BY <1>7 DEF RestartInv, Counts, HandoffShape, Askers, WorkerRecords, AskerSteps, Answers,
           WorkerSteps, InTurn, Wrote, ReportRejected
    <2>3. TakenOnce'
        BY <1>7 DEF RestartInv, Unarmed, HandoffShape, Askers, WorkerRecords, Counts, Receipts,
           InTurn, TakenOnce, Wrote, IsMine, ReportRejected
    <2>4. ResultIsReplaced'
        BY <1>7 DEF RestartInv, HandoffShape, WorkerRecords, ResultIsReplaced, ReportRejected
    <2>5. RestartHonest'
        BY <1>7 DEF RestartInv, HandoffShape, WorkerRecords, Counts, Receipts, TakenOnce, IsMine,
           ResultIsReplaced, RestartHonest, RestartOnce, CompletedIsReplaced, ReportRejected
    <2> QED
        BY <2>1, <2>2, <2>3, <2>4, <2>5 DEF RestartInv
<1>8. ASSUME NEW id \in Requests, Fire(id) PROVE RestartInv'
    <2>1. HandoffShape'
        <3>3. worker' \in [Requests -> WorkerRecords]
            BY <1>8, <1>shape DEF WorkerRecords, WorkerSteps, Receipts, Counts, Fire
        <3> QED
            BY <1>shape, <1>8, <3>3 DEF HandoffShape, Fire
    <2>2. InTurn'
        BY <1>8 DEF RestartInv, Counts, HandoffShape, Askers, WorkerRecords, AskerSteps, Answers,
           WorkerSteps, InTurn, Wrote, Fire
    <2>3. TakenOnce'
        BY <1>8 DEF RestartInv, Unarmed, HandoffShape, Askers, WorkerRecords, Counts, Receipts,
           InTurn, TakenOnce, Wrote, IsMine, Fire
    <2>4. ResultIsReplaced'
        BY <1>8 DEF RestartInv, HandoffShape, WorkerRecords, ResultIsReplaced, Fire
    <2>5. RestartHonest'
        BY <1>8 DEF RestartInv, HandoffShape, WorkerRecords, Counts, Receipts, TakenOnce, IsMine,
           ResultIsReplaced, RestartHonest, RestartOnce, CompletedIsReplaced, Fire
    <2> QED
        BY <2>1, <2>2, <2>3, <2>4, <2>5 DEF RestartInv
<1>9. ASSUME NEW id \in Requests, FireAgain(id) PROVE RestartInv'
    <2>1. HandoffShape'
        <3>3. worker' \in [Requests -> WorkerRecords]
            BY <1>9, <1>shape DEF WorkerRecords, WorkerSteps, Receipts, Counts, FireAgain
        <3>4. used' \in Counts
            BY <1>9, <1>shape DEF Counts, FireAgain
        <3> QED
            BY <1>shape, <1>9, <3>3, <3>4 DEF HandoffShape, FireAgain
    <2>2. InTurn'
        BY <1>9 DEF RestartInv, Counts, HandoffShape, Askers, WorkerRecords, AskerSteps, Answers,
           WorkerSteps, InTurn, Wrote, FireAgain
    <2>3. TakenOnce'
        BY <1>9 DEF RestartInv, Unarmed, HandoffShape, Askers, WorkerRecords, Counts, Receipts,
           InTurn, TakenOnce, Wrote, IsMine, FireAgain
    <2>4. ResultIsReplaced'
        BY <1>9 DEF RestartInv, HandoffShape, WorkerRecords, ResultIsReplaced, FireAgain
    <2>5. RestartHonest'
        BY <1>9 DEF RestartInv, HandoffShape, WorkerRecords, Counts, Receipts, TakenOnce, IsMine,
           ResultIsReplaced, RestartHonest, RestartOnce, CompletedIsReplaced, FireAgain
    <2> QED
        BY <2>1, <2>2, <2>3, <2>4, <2>5 DEF RestartInv
<1>10. ASSUME NEW id \in Requests, NotMine(id) PROVE RestartInv'
    <2>1. HandoffShape'
        <3>3. worker' \in [Requests -> WorkerRecords]
            BY <1>10, <1>shape DEF WorkerRecords, WorkerSteps, Receipts, Counts, NotMine
        <3> QED
            BY <1>shape, <1>10, <3>3 DEF HandoffShape, NotMine
    <2>2. InTurn'
        BY <1>10 DEF RestartInv, Counts, HandoffShape, Askers, WorkerRecords, AskerSteps, Answers,
           WorkerSteps, InTurn, Wrote, NotMine
    <2>3. TakenOnce'
        BY <1>10 DEF RestartInv, Unarmed, HandoffShape, Askers, WorkerRecords, Counts, Receipts,
           InTurn, TakenOnce, Wrote, IsMine, NotMine
    <2>4. ResultIsReplaced'
        BY <1>10 DEF RestartInv, HandoffShape, WorkerRecords, ResultIsReplaced, NotMine
    <2>5. RestartHonest'
        BY <1>10 DEF RestartInv, HandoffShape, WorkerRecords, Counts, Receipts, TakenOnce, IsMine,
           ResultIsReplaced, RestartHonest, RestartOnce, CompletedIsReplaced, NotMine
    <2> QED
        BY <2>1, <2>2, <2>3, <2>4, <2>5 DEF RestartInv
<1>11. ASSUME NEW id \in Requests, TakeRequest(id) PROVE RestartInv'
    <2>1. HandoffShape'
        <3>3. worker' \in [Requests -> WorkerRecords]
            <4>1. PICK previous \in {unit, NoPid} :
                    worker' = [worker EXCEPT ![id].pc = "taking", ![id].previous = previous,
                                             ![id].created = receipt.created]
                BY <1>11 DEF TakeRequest
            <4>2. receipt.created \in Nat /\ previous \in Nat /\ worker[id] \in WorkerRecords
                BY <1>shape, <1>11 DEF Receipts, TakeRequest, IsMine
            <4>3. [worker[id] EXCEPT !.pc = "taking", !.previous = previous,
                                     !.created = receipt.created] \in WorkerRecords
                BY <4>2, WorkerUpdate
            <4> QED
                BY <4>1, <4>3, <1>shape
        <3>4. used' \in Counts
            BY <1>11, <1>shape DEF Counts, TakeRequest
        <3> QED
            BY <1>shape, <1>11, <3>3, <3>4 DEF HandoffShape, TakeRequest
    <2>2. InTurn'
        BY <1>11 DEF RestartInv, Counts, HandoffShape, Askers, WorkerRecords, AskerSteps, Answers,
           WorkerSteps, InTurn, Wrote, TakeRequest
    <2>3. TakenOnce'
        <3>1. used.restarted[id] = 0
            BY <1>shape, <1>11 DEF Counts, RestartInv, TakenOnce, TakeRequest
        <3>2. \A i \in Requests : used'.restarted[i] = used.restarted[i] /\ (IsMine(i)' <=> IsMine(i))
            BY <1>shape, <1>11 DEF Counts, IsMine, TakeRequest
        <3>3. \A i \in Requests :
                  /\ Wrote(i)' <=> Wrote(i)
                  /\ worker'[i].pc = (IF i = id THEN "taking" ELSE worker[i].pc)
            BY <1>shape, <1>11 DEF WorkerRecords, Wrote, TakeRequest
        <3> QED
            BY <3>1, <3>2, <3>3 DEF RestartInv, TakenOnce
    <2>4. ResultIsReplaced'
        BY <1>11 DEF RestartInv, HandoffShape, WorkerRecords, ResultIsReplaced, TakeRequest
    <2>5. RestartHonest'
        BY <1>11 DEF RestartInv, HandoffShape, WorkerRecords, Counts, Receipts, TakenOnce, IsMine,
           ResultIsReplaced, RestartHonest, RestartOnce, CompletedIsReplaced, TakeRequest
    <2> QED
        BY <2>1, <2>2, <2>3, <2>4, <2>5 DEF RestartInv
<1>12. ASSUME NEW id \in Requests, ArmRequest(id) PROVE RestartInv'
    <2>1. HandoffShape'
        <3>1. receipt' \in {NoReceipt} \cup Receipts
            BY <1>12, <1>shape DEF Receipts, WorkerRecords, Askers, ArmRequest
        <3>3. worker' \in [Requests -> WorkerRecords]
            BY <1>12, <1>shape DEF WorkerRecords, WorkerSteps, Receipts, Counts, ArmRequest
        <3> QED
            BY <1>shape, <1>12, <3>1, <3>3 DEF HandoffShape, ArmRequest
    <2>2. InTurn'
        BY <1>12 DEF RestartInv, Counts, HandoffShape, Askers, WorkerRecords, AskerSteps, Answers,
           WorkerSteps, InTurn, Wrote, ArmRequest
    <2>3. TakenOnce'
        BY <1>12 DEF RestartInv, Unarmed, HandoffShape, Askers, WorkerRecords, Counts, Receipts,
           InTurn, TakenOnce, Wrote, IsMine, ArmRequest
    <2>4. ResultIsReplaced'
        BY <1>12 DEF RestartInv, HandoffShape, WorkerRecords, ResultIsReplaced, ArmRequest
    <2>5. RestartHonest'
        BY <1>12 DEF RestartInv, HandoffShape, WorkerRecords, Counts, Receipts, TakenOnce, IsMine,
           ResultIsReplaced, RestartHonest, RestartOnce, CompletedIsReplaced, ArmRequest
    <2> QED
        BY <2>1, <2>2, <2>3, <2>4, <2>5 DEF RestartInv
<1>13. ASSUME NEW id \in Requests, GiveUp(id) PROVE RestartInv'
    <2>1. HandoffShape'
        <3>3. worker' \in [Requests -> WorkerRecords]
            <4>1. worker[id] \in WorkerRecords /\ now + HealthWait \in Nat
                BY <1>shape
            <4>2. [worker[id] EXCEPT !.pc = "finishing", !.result = "failed", !.new = 0] \in WorkerRecords
                BY <1>shape, <4>1, WorkerUpdate
            <4> QED
                BY <4>2, <1>shape, <1>13 DEF GiveUp
        <3>4. used' \in Counts
            BY <1>13, <1>shape DEF Counts, GiveUp
        <3> QED
            BY <1>shape, <1>13, <3>3, <3>4 DEF HandoffShape, GiveUp
    <2>2. InTurn'
        BY <1>13 DEF RestartInv, Counts, HandoffShape, Askers, WorkerRecords, AskerSteps, Answers,
           WorkerSteps, InTurn, Wrote, GiveUp
    <2>3. TakenOnce'
        BY <1>13 DEF RestartInv, Unarmed, HandoffShape, Askers, WorkerRecords, Counts, Receipts,
           InTurn, TakenOnce, Wrote, IsMine, GiveUp
    <2>4. ResultIsReplaced'
        BY <1>13 DEF RestartInv, HandoffShape, WorkerRecords, ResultIsReplaced, GiveUp
    <2>5. RestartHonest'
        BY <1>13 DEF RestartInv, HandoffShape, WorkerRecords, Counts, Receipts, TakenOnce, IsMine,
           ResultIsReplaced, RestartHonest, RestartOnce, CompletedIsReplaced, GiveUp
    <2> QED
        BY <2>1, <2>2, <2>3, <2>4, <2>5 DEF RestartInv
<1>14. ASSUME NEW id \in Requests, RestartUnit(id) PROVE RestartInv'
    <2>1. HandoffShape'
        <3>3. worker' \in [Requests -> WorkerRecords]
            <4>1. worker[id] \in WorkerRecords /\ now + HealthWait \in Nat
                BY <1>shape
            <4>2. [worker[id] EXCEPT !.pc = "proving", !.deadline = now + HealthWait] \in WorkerRecords
                BY <1>shape, <4>1, WorkerUpdate
            <4> QED
                BY <4>2, <1>shape, <1>14 DEF RestartUnit
        <3>4. used' \in Counts
            BY <1>shape, <1>14, CountsUpdate DEF RestartUnit
        <3>5. timer' \in [Requests -> Nat] /\ unit' \in Nat
            BY <1>14, <1>shape DEF Counts, RestartUnit
        <3> QED
            BY <1>shape, <1>14, <3>3, <3>4, <3>5 DEF HandoffShape, RestartUnit
    <2>2. InTurn'
        BY <1>14 DEF RestartInv, Counts, HandoffShape, Askers, WorkerRecords, AskerSteps, Answers,
           WorkerSteps, InTurn, Wrote, RestartUnit
    <2>3. TakenOnce'
        BY <1>14 DEF RestartInv, Unarmed, HandoffShape, Askers, WorkerRecords, Counts, Receipts,
           InTurn, TakenOnce, Wrote, IsMine, RestartUnit
    <2>4. ResultIsReplaced'
        BY <1>14 DEF RestartInv, HandoffShape, WorkerRecords, ResultIsReplaced, RestartUnit
    <2>5. RestartHonest'
        BY <1>14 DEF RestartInv, HandoffShape, WorkerRecords, Counts, Receipts, TakenOnce, IsMine,
           ResultIsReplaced, RestartHonest, RestartOnce, CompletedIsReplaced, RestartUnit
    <2> QED
        BY <2>1, <2>2, <2>3, <2>4, <2>5 DEF RestartInv
<1>15. ASSUME NEW id \in Requests, RestartReplacesNothing(id) PROVE RestartInv'
    <2>1. HandoffShape'
        <3>3. worker' \in [Requests -> WorkerRecords]
            <4>1. worker[id] \in WorkerRecords /\ now + HealthWait \in Nat
                BY <1>shape
            <4>2. [worker[id] EXCEPT !.pc = "proving", !.deadline = now + HealthWait] \in WorkerRecords
                BY <1>shape, <4>1, WorkerUpdate
            <4> QED
                BY <4>2, <1>shape, <1>15 DEF RestartReplacesNothing
        <3>4. used' \in Counts
            BY <1>shape, <1>15, CountsUpdate DEF RestartReplacesNothing
        <3> QED
            BY <1>shape, <1>15, <3>3, <3>4 DEF HandoffShape, RestartReplacesNothing
    <2>2. InTurn'
        BY <1>15 DEF RestartInv, Counts, HandoffShape, Askers, WorkerRecords, AskerSteps, Answers,
           WorkerSteps, InTurn, Wrote, RestartReplacesNothing
    <2>3. TakenOnce'
        BY <1>15 DEF RestartInv, Unarmed, HandoffShape, Askers, WorkerRecords, Counts, Receipts,
           InTurn, TakenOnce, Wrote, IsMine, RestartReplacesNothing
    <2>4. ResultIsReplaced'
        BY <1>15 DEF RestartInv, HandoffShape, WorkerRecords, ResultIsReplaced,
           RestartReplacesNothing
    <2>5. RestartHonest'
        BY <1>15 DEF RestartInv, HandoffShape, WorkerRecords, Counts, Receipts, TakenOnce, IsMine,
           ResultIsReplaced, RestartHonest, RestartOnce, CompletedIsReplaced, RestartReplacesNothing
    <2> QED
        BY <2>1, <2>2, <2>3, <2>4, <2>5 DEF RestartInv
<1>16. ASSUME NEW id \in Requests, RestartFails(id) PROVE RestartInv'
    <2>1. HandoffShape'
        <3>3. worker' \in [Requests -> WorkerRecords]
            <4>1. worker[id] \in WorkerRecords /\ now + HealthWait \in Nat
                BY <1>shape
            <4>2. [worker[id] EXCEPT !.pc = "finishing", !.result = "failed", !.new = 0] \in WorkerRecords
                BY <1>shape, <4>1, WorkerUpdate
            <4> QED
                BY <4>2, <1>shape, <1>16 DEF RestartFails
        <3>4. used' \in Counts
            BY <1>shape, <1>16, CountsUpdate DEF RestartFails
        <3> QED
            BY <1>shape, <1>16, <3>3, <3>4 DEF HandoffShape, RestartFails
    <2>2. InTurn'
        BY <1>16 DEF RestartInv, Counts, HandoffShape, Askers, WorkerRecords, AskerSteps, Answers,
           WorkerSteps, InTurn, Wrote, RestartFails
    <2>3. TakenOnce'
        BY <1>16 DEF RestartInv, Unarmed, HandoffShape, Askers, WorkerRecords, Counts, Receipts,
           InTurn, TakenOnce, Wrote, IsMine, RestartFails
    <2>4. ResultIsReplaced'
        BY <1>16 DEF RestartInv, HandoffShape, WorkerRecords, ResultIsReplaced, RestartFails
    <2>5. RestartHonest'
        BY <1>16 DEF RestartInv, HandoffShape, WorkerRecords, Counts, Receipts, TakenOnce, IsMine,
           ResultIsReplaced, RestartHonest, RestartOnce, CompletedIsReplaced, RestartFails
    <2> QED
        BY <2>1, <2>2, <2>3, <2>4, <2>5 DEF RestartInv
<1>17. ASSUME NEW id \in Requests, ProveServing(id) PROVE RestartInv'
    <2>1. HandoffShape'
        <3>3. worker' \in [Requests -> WorkerRecords]
            <4>1. worker[id] \in WorkerRecords /\ now + HealthWait \in Nat
                BY <1>shape
            <4>2. [worker[id] EXCEPT !.pc = "finishing", !.result = "completed", !.new = unit]
                      \in WorkerRecords
                BY <1>shape, <4>1, WorkerUpdate
            <4> QED
                BY <4>2, <1>shape, <1>17 DEF ProveServing
        <3> QED
            BY <1>shape, <1>17, <3>3 DEF HandoffShape, ProveServing
    <2>2. InTurn'
        BY <1>17 DEF RestartInv, Counts, HandoffShape, Askers, WorkerRecords, AskerSteps, Answers,
           WorkerSteps, InTurn, Wrote, ProveServing, Proven, Documents
    <2>3. TakenOnce'
        BY <1>17 DEF RestartInv, Unarmed, HandoffShape, Askers, WorkerRecords, Counts, Receipts,
           InTurn, TakenOnce, Wrote, IsMine, ProveServing, Proven, Documents
    <2>4. ResultIsReplaced'
        BY <1>17 DEF RestartInv, HandoffShape, WorkerRecords, ResultIsReplaced, ProveServing,
           Proven, Documents
    <2>5. RestartHonest'
        BY <1>17 DEF RestartInv, HandoffShape, WorkerRecords, Counts, Receipts, TakenOnce, IsMine,
           ResultIsReplaced, RestartHonest, RestartOnce, CompletedIsReplaced, ProveServing, Proven,
           Documents
    <2> QED
        BY <2>1, <2>2, <2>3, <2>4, <2>5 DEF RestartInv
<1>18. ASSUME NEW id \in Requests, HealthTimeout(id) PROVE RestartInv'
    <2>1. HandoffShape'
        <3>3. worker' \in [Requests -> WorkerRecords]
            <4>1. worker[id] \in WorkerRecords /\ now + HealthWait \in Nat
                BY <1>shape
            <4>2. [worker[id] EXCEPT !.pc = "finishing", !.result = "failed", !.new = 0] \in WorkerRecords
                BY <1>shape, <4>1, WorkerUpdate
            <4> QED
                BY <4>2, <1>shape, <1>18 DEF HealthTimeout
        <3> QED
            BY <1>shape, <1>18, <3>3 DEF HandoffShape, HealthTimeout
    <2>2. InTurn'
        BY <1>18 DEF RestartInv, Counts, HandoffShape, Askers, WorkerRecords, AskerSteps, Answers,
           WorkerSteps, InTurn, Wrote, HealthTimeout
    <2>3. TakenOnce'
        BY <1>18 DEF RestartInv, Unarmed, HandoffShape, Askers, WorkerRecords, Counts, Receipts,
           InTurn, TakenOnce, Wrote, IsMine, HealthTimeout
    <2>4. ResultIsReplaced'
        BY <1>18 DEF RestartInv, HandoffShape, WorkerRecords, ResultIsReplaced, HealthTimeout
    <2>5. RestartHonest'
        BY <1>18 DEF RestartInv, HandoffShape, WorkerRecords, Counts, Receipts, TakenOnce, IsMine,
           ResultIsReplaced, RestartHonest, RestartOnce, CompletedIsReplaced, HealthTimeout
    <2> QED
        BY <2>1, <2>2, <2>3, <2>4, <2>5 DEF RestartInv
<1>19. ASSUME NEW id \in Requests, FinishRead(id) PROVE RestartInv'
    <2>1. HandoffShape'
        <3>3. worker' \in [Requests -> WorkerRecords]
            BY <1>19, <1>shape DEF WorkerRecords, WorkerSteps, Receipts, Counts, FinishRead
        <3> QED
            BY <1>shape, <1>19, <3>3 DEF HandoffShape, FinishRead
    <2>2. InTurn'
        BY <1>19 DEF RestartInv, Counts, HandoffShape, Askers, WorkerRecords, AskerSteps, Answers,
           WorkerSteps, InTurn, Wrote, FinishRead
    <2>3. TakenOnce'
        BY <1>19 DEF RestartInv, Unarmed, HandoffShape, Askers, WorkerRecords, Counts, Receipts,
           InTurn, TakenOnce, Wrote, IsMine, FinishRead
    <2>4. ResultIsReplaced'
        BY <1>19 DEF RestartInv, HandoffShape, WorkerRecords, ResultIsReplaced, FinishRead
    <2>5. RestartHonest'
        BY <1>19 DEF RestartInv, HandoffShape, WorkerRecords, Counts, Receipts, TakenOnce, IsMine,
           ResultIsReplaced, RestartHonest, RestartOnce, CompletedIsReplaced, FinishRead
    <2> QED
        BY <2>1, <2>2, <2>3, <2>4, <2>5 DEF RestartInv
<1>20. ASSUME NEW id \in Requests, FinishWrite(id) PROVE RestartInv'
    <2>1. HandoffShape'
        <3>1. receipt' \in {NoReceipt} \cup Receipts
            <4>1. worker[id].result \in {"completed", "failed"}
                BY <1>shape, <1>20 DEF RestartInv, ResultIsReplaced, WorkerRecords, FinishWrite
            <4> QED
                BY <4>1, <1>shape, <1>20 DEF Receipts, WorkerRecords, FinishWrite
        <3>3. worker' \in [Requests -> WorkerRecords]
            BY <1>20, <1>shape DEF WorkerRecords, WorkerSteps, Receipts, Counts, FinishWrite
        <3> QED
            BY <1>shape, <1>20, <3>1, <3>3 DEF HandoffShape, FinishWrite
    <2>2. InTurn'
        BY <1>20 DEF RestartInv, Counts, HandoffShape, Askers, WorkerRecords, AskerSteps, Answers,
           WorkerSteps, InTurn, Wrote, FinishWrite
    <2>3. TakenOnce'
        BY <1>20 DEF RestartInv, Unarmed, HandoffShape, Askers, WorkerRecords, Counts, Receipts,
           InTurn, TakenOnce, Wrote, IsMine, FinishWrite
    <2>4. ResultIsReplaced'
        BY <1>20 DEF RestartInv, HandoffShape, WorkerRecords, ResultIsReplaced, FinishWrite
    <2>5. RestartHonest'
        BY <1>20 DEF RestartInv, HandoffShape, WorkerRecords, Counts, Receipts, TakenOnce, IsMine,
           ResultIsReplaced, RestartHonest, RestartOnce, CompletedIsReplaced, FinishWrite
    <2> QED
        BY <2>1, <2>2, <2>3, <2>4, <2>5 DEF RestartInv
<1>21. ASSUME NEW id \in Requests, WorkerDies(id) PROVE RestartInv'
    <2>1. HandoffShape'
        <3>3. worker' \in [Requests -> WorkerRecords]
            BY <1>21, <1>shape DEF WorkerRecords, WorkerSteps, Receipts, Counts, WorkerDies
        <3>4. used' \in Counts
            BY <1>21, <1>shape DEF Counts, WorkerDies
        <3> QED
            BY <1>shape, <1>21, <3>3, <3>4 DEF HandoffShape, WorkerDies
    <2>2. InTurn'
        BY <1>21 DEF RestartInv, Counts, HandoffShape, Askers, WorkerRecords, AskerSteps, Answers,
           WorkerSteps, InTurn, Wrote, WorkerDies
    <2>3. TakenOnce'
        BY <1>21 DEF RestartInv, Unarmed, HandoffShape, Askers, WorkerRecords, Counts, Receipts,
           InTurn, TakenOnce, Wrote, IsMine, WorkerDies
    <2>4. ResultIsReplaced'
        BY <1>21 DEF RestartInv, HandoffShape, WorkerRecords, ResultIsReplaced, WorkerDies
    <2>5. RestartHonest'
        BY <1>21 DEF RestartInv, HandoffShape, WorkerRecords, Counts, Receipts, TakenOnce, IsMine,
           ResultIsReplaced, RestartHonest, RestartOnce, CompletedIsReplaced, WorkerDies
    <2> QED
        BY <2>1, <2>2, <2>3, <2>4, <2>5 DEF RestartInv
<1>22. CASE SeeResult
    <2>1. HandoffShape'
        BY <1>shape, <1>22 DEF HandoffShape, SeeResult
    <2>2. InTurn'
        BY <1>22 DEF RestartInv, Counts, HandoffShape, Askers, WorkerRecords, AskerSteps, Answers,
           WorkerSteps, InTurn, Wrote, SeeResult
    <2>3. TakenOnce'
        BY <1>22 DEF RestartInv, Unarmed, HandoffShape, Askers, WorkerRecords, Counts, Receipts,
           InTurn, TakenOnce, Wrote, IsMine, SeeResult
    <2>4. ResultIsReplaced'
        BY <1>22 DEF RestartInv, HandoffShape, WorkerRecords, ResultIsReplaced, SeeResult
    <2>5. RestartHonest'
        BY <1>22 DEF RestartInv, HandoffShape, WorkerRecords, Counts, Receipts, TakenOnce, IsMine,
           ResultIsReplaced, RestartHonest, RestartOnce, CompletedIsReplaced, SeeResult
    <2> QED
        BY <2>1, <2>2, <2>3, <2>4, <2>5 DEF RestartInv
<1>23. CASE Archive
    <2>1. HandoffShape'
        BY <1>shape, <1>23 DEF HandoffShape, Archive
    <2>2. InTurn'
        BY <1>23 DEF RestartInv, Counts, HandoffShape, Askers, WorkerRecords, AskerSteps, Answers,
           WorkerSteps, InTurn, Wrote, Archive
    <2>3. TakenOnce'
        BY <1>23 DEF RestartInv, Unarmed, HandoffShape, Askers, WorkerRecords, Counts, Receipts,
           InTurn, TakenOnce, Wrote, IsMine, Archive
    <2>4. ResultIsReplaced'
        BY <1>23 DEF RestartInv, HandoffShape, WorkerRecords, ResultIsReplaced, Archive
    <2>5. RestartHonest'
        BY <1>23 DEF RestartInv, HandoffShape, WorkerRecords, Counts, Receipts, TakenOnce, IsMine,
           ResultIsReplaced, RestartHonest, RestartOnce, CompletedIsReplaced, Archive
    <2> QED
        BY <2>1, <2>2, <2>3, <2>4, <2>5 DEF RestartInv
<1>24. CASE UnitReplaced
    <2>1. HandoffShape'
        <3>4. used' \in Counts
            BY <1>24, <1>shape DEF Counts, UnitReplaced
        <3>5. timer' \in [Requests -> Nat] /\ unit' \in Nat
            BY <1>24, <1>shape DEF Counts, UnitReplaced
        <3> QED
            BY <1>shape, <1>24, <3>4, <3>5 DEF HandoffShape, UnitReplaced
    <2>2. InTurn'
        BY <1>24 DEF RestartInv, Counts, HandoffShape, Askers, WorkerRecords, AskerSteps, Answers,
           WorkerSteps, InTurn, Wrote, UnitReplaced
    <2>3. TakenOnce'
        BY <1>24 DEF RestartInv, Unarmed, HandoffShape, Askers, WorkerRecords, Counts, Receipts,
           InTurn, TakenOnce, Wrote, IsMine, UnitReplaced
    <2>4. ResultIsReplaced'
        BY <1>24 DEF RestartInv, HandoffShape, WorkerRecords, ResultIsReplaced, UnitReplaced
    <2>5. RestartHonest'
        BY <1>24 DEF RestartInv, HandoffShape, WorkerRecords, Counts, Receipts, TakenOnce, IsMine,
           ResultIsReplaced, RestartHonest, RestartOnce, CompletedIsReplaced, UnitReplaced
    <2> QED
        BY <2>1, <2>2, <2>3, <2>4, <2>5 DEF RestartInv
<1>25. CASE Pass
    <2>1. HandoffShape'
        BY <1>shape, <1>25 DEF HandoffShape, Pass
    <2>2. InTurn'
        BY <1>25 DEF RestartInv, Counts, HandoffShape, Askers, WorkerRecords, AskerSteps, Answers,
           WorkerSteps, InTurn, Wrote, Pass
    <2>3. TakenOnce'
        BY <1>25 DEF RestartInv, Unarmed, HandoffShape, Askers, WorkerRecords, Counts, Receipts,
           InTurn, TakenOnce, Wrote, IsMine, Pass
    <2>4. ResultIsReplaced'
        BY <1>25 DEF RestartInv, HandoffShape, WorkerRecords, ResultIsReplaced, Pass
    <2>5. RestartHonest'
        BY <1>25 DEF RestartInv, HandoffShape, WorkerRecords, Counts, Receipts, TakenOnce, IsMine,
           ResultIsReplaced, RestartHonest, RestartOnce, CompletedIsReplaced, Pass
    <2> QED
        BY <2>1, <2>2, <2>3, <2>4, <2>5 DEF RestartInv
<1>26. CASE UNCHANGED handoffVars
    BY <1>26 DEF RestartInv, handoffVars, HandoffShape, InTurn, TakenOnce, ResultIsReplaced,
       RestartHonest, RestartOnce, CompletedIsReplaced, Wrote, IsMine
<1> QED
    BY <1>1, <1>2, <1>3, <1>4, <1>5, <1>6, <1>7, <1>8, <1>9, <1>10, <1>11, <1>12, <1>13, <1>14,
       <1>15, <1>16, <1>17, <1>18, <1>19, <1>20, <1>21, <1>22, <1>23, <1>24, <1>25, <1>26
       DEF HandoffNext

\* A request restarts the unit at most once, and a result that says completed names
\* a new process (handoff.rs): for any requests, timers that fire twice, workers that
\* die or are run again, and schedulers that overlap.
THEOREM RestartsAreHonest == HandoffSpec => []RestartHonest
<1>1. RestartInv => RestartHonest
    BY DEF RestartInv
<1> QED
    BY RestartInvInit, RestartInvStep, <1>1, PTL DEF HandoffSpec

-----------------------------------------------------------------------------
(* One scheduler at a time.                                                 *)

\* What a step changes about requests that have asked: nothing, but for what the
\* scheduler of one is told.
LEMMA AskedStays ==
    ASSUME RestartInv, [HandoffNext]_handoffVars
    PROVE  /\ now' >= now
           /\ \A x \in Requests :
                /\ asker[x].pc /= "idle" => asker'[x].created = asker[x].created
                /\ Wrote(x) => Wrote(x)'
                /\ asker[x].told = "rejected" => asker'[x].told = "rejected"
<1> DEFINE Goal == /\ now' >= now
                   /\ \A x \in Requests :
                        /\ asker[x].pc /= "idle" => asker'[x].created = asker[x].created
                        /\ Wrote(x) => Wrote(x)'
                        /\ asker[x].told = "rejected" => asker'[x].told = "rejected"
<1> USE HandoffTimes DEF Tell, Step, Conclude, Receipt, Faulted, NoWorker, NoPid
<1>shape. /\ receipt \in {NoReceipt} \cup Receipts
          /\ asker \in [Requests -> Askers]
          /\ worker \in [Requests -> WorkerRecords] /\ now \in Nat
    BY DEF RestartInv, HandoffShape
<1>1. ASSUME NEW id \in Requests, RefuseRequest(id) PROVE Goal
    BY <1>shape, <1>1 DEF Askers, Wrote, InTurn, RestartInv, RefuseRequest, MayBegin
<1>2. ASSUME NEW id \in Requests, CheckReceipt(id) PROVE Goal
    BY <1>shape, <1>2 DEF Askers, Wrote, InTurn, RestartInv, CheckReceipt, MayBegin
<1>3. ASSUME NEW id \in Requests, WriteReceipt(id) PROVE Goal
    BY <1>shape, <1>3 DEF Askers, Wrote, InTurn, RestartInv, WriteReceipt
<1>4. ASSUME NEW id \in Requests, WriteReceiptFails(id) PROVE Goal
    BY <1>shape, <1>4 DEF Askers, Wrote, InTurn, RestartInv, WriteReceiptFails
<1>5. ASSUME NEW id \in Requests, ArmTimer(id) PROVE Goal
    BY <1>shape, <1>5 DEF Askers, Wrote, InTurn, RestartInv, ArmTimer
<1>6. ASSUME NEW id \in Requests, ReportScheduled(id) PROVE Goal
    BY <1>shape, <1>6 DEF Askers, Wrote, InTurn, RestartInv, ReportScheduled
<1>7. ASSUME NEW id \in Requests, ReportRejected(id) PROVE Goal
    BY <1>shape, <1>7 DEF Askers, Wrote, InTurn, RestartInv, ReportRejected
<1>8. ASSUME NEW id \in Requests, Fire(id) PROVE Goal
    BY <1>shape, <1>8 DEF Askers, Wrote, InTurn, RestartInv, Fire
<1>9. ASSUME NEW id \in Requests, FireAgain(id) PROVE Goal
    BY <1>shape, <1>9 DEF Askers, Wrote, InTurn, RestartInv, FireAgain
<1>10. ASSUME NEW id \in Requests, NotMine(id) PROVE Goal
    BY <1>shape, <1>10 DEF Askers, Wrote, InTurn, RestartInv, NotMine
<1>11. ASSUME NEW id \in Requests, TakeRequest(id) PROVE Goal
    BY <1>shape, <1>11 DEF Askers, Wrote, InTurn, RestartInv, TakeRequest
<1>12. ASSUME NEW id \in Requests, ArmRequest(id) PROVE Goal
    BY <1>shape, <1>12 DEF Askers, Wrote, InTurn, RestartInv, ArmRequest
<1>13. ASSUME NEW id \in Requests, GiveUp(id) PROVE Goal
    BY <1>shape, <1>13 DEF Askers, Wrote, InTurn, RestartInv, GiveUp
<1>14. ASSUME NEW id \in Requests, RestartUnit(id) PROVE Goal
    BY <1>shape, <1>14 DEF Askers, Wrote, InTurn, RestartInv, RestartUnit
<1>15. ASSUME NEW id \in Requests, RestartReplacesNothing(id) PROVE Goal
    BY <1>shape, <1>15 DEF Askers, Wrote, InTurn, RestartInv, RestartReplacesNothing
<1>16. ASSUME NEW id \in Requests, RestartFails(id) PROVE Goal
    BY <1>shape, <1>16 DEF Askers, Wrote, InTurn, RestartInv, RestartFails
<1>17. ASSUME NEW id \in Requests, ProveServing(id) PROVE Goal
    BY <1>shape, <1>17 DEF Askers, Wrote, InTurn, RestartInv, ProveServing, Proven, Documents
<1>18. ASSUME NEW id \in Requests, HealthTimeout(id) PROVE Goal
    BY <1>shape, <1>18 DEF Askers, Wrote, InTurn, RestartInv, HealthTimeout
<1>19. ASSUME NEW id \in Requests, FinishRead(id) PROVE Goal
    BY <1>shape, <1>19 DEF Askers, Wrote, InTurn, RestartInv, FinishRead
<1>20. ASSUME NEW id \in Requests, FinishWrite(id) PROVE Goal
    BY <1>shape, <1>20 DEF Askers, Wrote, InTurn, RestartInv, FinishWrite
<1>21. ASSUME NEW id \in Requests, WorkerDies(id) PROVE Goal
    BY <1>shape, <1>21 DEF Askers, Wrote, InTurn, RestartInv, WorkerDies
<1>22. CASE SeeResult
    BY <1>shape, <1>22 DEF Askers, Wrote, InTurn, RestartInv, SeeResult
<1>23. CASE Archive
    BY <1>shape, <1>23 DEF Askers, Wrote, InTurn, RestartInv, Archive
<1>24. CASE UnitReplaced
    BY <1>shape, <1>24 DEF Askers, Wrote, InTurn, RestartInv, UnitReplaced
<1>25. CASE Pass
    BY <1>shape, <1>25 DEF Askers, Wrote, InTurn, RestartInv, Pass
<1>26. CASE UNCHANGED handoffVars
    BY <1>shape, <1>26 DEF Askers, Wrote, InTurn, RestartInv, handoffVars
<1> QED
    BY <1>1, <1>2, <1>3, <1>4, <1>5, <1>6, <1>7, <1>8, <1>9, <1>10, <1>11, <1>12, <1>13, <1>14,
       <1>15, <1>16, <1>17, <1>18, <1>19, <1>20, <1>21, <1>22, <1>23, <1>24, <1>25, <1>26
       DEF HandoffNext

\* A request becomes live only when its receipt is written.
LEMMA LiveGrows ==
    ASSUME RestartInv, [HandoffNext]_handoffVars
    PROVE  \A x \in Requests : Live(x)' => Live(x) \/ WriteReceipt(x)
<1> DEFINE Goal == \A x \in Requests : Live(x)' => Live(x) \/ WriteReceipt(x)
<1> USE HandoffTimes DEF Tell, Step, Conclude, Receipt, Faulted, NoWorker, NoPid
<1>shape. /\ receipt \in {NoReceipt} \cup Receipts
          /\ asker \in [Requests -> Askers]
          /\ worker \in [Requests -> WorkerRecords] /\ now \in Nat
    BY DEF RestartInv, HandoffShape
<1>1. ASSUME NEW id \in Requests, RefuseRequest(id) PROVE Goal
    BY <1>shape, <1>1 DEF WorkerRecords, Receipts, Live, IsMine, RefuseRequest, MayBegin
<1>2. ASSUME NEW id \in Requests, CheckReceipt(id) PROVE Goal
    BY <1>shape, <1>2 DEF WorkerRecords, Receipts, Live, IsMine, CheckReceipt, MayBegin
<1>3. ASSUME NEW id \in Requests, WriteReceipt(id) PROVE Goal
    BY <1>shape, <1>3 DEF WorkerRecords, Receipts, Live, IsMine, WriteReceipt
<1>4. ASSUME NEW id \in Requests, WriteReceiptFails(id) PROVE Goal
    BY <1>shape, <1>4 DEF WorkerRecords, Receipts, Live, IsMine, WriteReceiptFails
<1>5. ASSUME NEW id \in Requests, ArmTimer(id) PROVE Goal
    BY <1>shape, <1>5 DEF WorkerRecords, Receipts, Live, IsMine, ArmTimer
<1>6. ASSUME NEW id \in Requests, ReportScheduled(id) PROVE Goal
    BY <1>shape, <1>6 DEF WorkerRecords, Receipts, Live, IsMine, ReportScheduled
<1>7. ASSUME NEW id \in Requests, ReportRejected(id) PROVE Goal
    BY <1>shape, <1>7 DEF WorkerRecords, Receipts, Live, IsMine, ReportRejected
<1>8. ASSUME NEW id \in Requests, Fire(id) PROVE Goal
    BY <1>shape, <1>8 DEF WorkerRecords, Receipts, Live, IsMine, Fire
<1>9. ASSUME NEW id \in Requests, FireAgain(id) PROVE Goal
    BY <1>shape, <1>9 DEF WorkerRecords, Receipts, Live, IsMine, FireAgain
<1>10. ASSUME NEW id \in Requests, NotMine(id) PROVE Goal
    BY <1>shape, <1>10 DEF WorkerRecords, Receipts, Live, IsMine, NotMine
<1>11. ASSUME NEW id \in Requests, TakeRequest(id) PROVE Goal
    BY <1>shape, <1>11 DEF WorkerRecords, Receipts, Live, IsMine, TakeRequest
<1>12. ASSUME NEW id \in Requests, ArmRequest(id) PROVE Goal
    BY <1>shape, <1>12 DEF WorkerRecords, Receipts, Live, IsMine, ArmRequest
<1>13. ASSUME NEW id \in Requests, GiveUp(id) PROVE Goal
    BY <1>shape, <1>13 DEF WorkerRecords, Receipts, Live, IsMine, GiveUp
<1>14. ASSUME NEW id \in Requests, RestartUnit(id) PROVE Goal
    BY <1>shape, <1>14 DEF WorkerRecords, Receipts, Live, IsMine, RestartUnit
<1>15. ASSUME NEW id \in Requests, RestartReplacesNothing(id) PROVE Goal
    BY <1>shape, <1>15 DEF WorkerRecords, Receipts, Live, IsMine, RestartReplacesNothing
<1>16. ASSUME NEW id \in Requests, RestartFails(id) PROVE Goal
    BY <1>shape, <1>16 DEF WorkerRecords, Receipts, Live, IsMine, RestartFails
<1>17. ASSUME NEW id \in Requests, ProveServing(id) PROVE Goal
    BY <1>shape, <1>17 DEF WorkerRecords, Receipts, Live, IsMine, ProveServing, Proven, Documents
<1>18. ASSUME NEW id \in Requests, HealthTimeout(id) PROVE Goal
    BY <1>shape, <1>18 DEF WorkerRecords, Receipts, Live, IsMine, HealthTimeout
<1>19. ASSUME NEW id \in Requests, FinishRead(id) PROVE Goal
    BY <1>shape, <1>19 DEF WorkerRecords, Receipts, Live, IsMine, FinishRead
<1>20. ASSUME NEW id \in Requests, FinishWrite(id) PROVE Goal
    BY <1>shape, <1>20 DEF WorkerRecords, Receipts, Live, IsMine, FinishWrite
<1>21. ASSUME NEW id \in Requests, WorkerDies(id) PROVE Goal
    BY <1>shape, <1>21 DEF WorkerRecords, Receipts, Live, IsMine, WorkerDies
<1>22. CASE SeeResult
    BY <1>shape, <1>22 DEF WorkerRecords, Receipts, Live, IsMine, SeeResult
<1>23. CASE Archive
    BY <1>shape, <1>23 DEF WorkerRecords, Receipts, Live, IsMine, Archive
<1>24. CASE UnitReplaced
    BY <1>shape, <1>24 DEF WorkerRecords, Receipts, Live, IsMine, UnitReplaced
<1>25. CASE Pass
    BY <1>shape, <1>25 DEF WorkerRecords, Receipts, Live, IsMine, Pass
<1>26. CASE UNCHANGED handoffVars
    BY <1>shape, <1>26 DEF WorkerRecords, Receipts, Live, IsMine, handoffVars
<1> QED
    BY <1>1, <1>2, <1>3, <1>4, <1>5, <1>6, <1>7, <1>8, <1>9, <1>10, <1>11, <1>12, <1>13, <1>14,
       <1>15, <1>16, <1>17, <1>18, <1>19, <1>20, <1>21, <1>22, <1>23, <1>24, <1>25, <1>26
       DEF HandoffNext

\* While requests do not overlap, one of them is at the door at a time.
LEMMA SerialStep ==
    ASSUME ~Overlap, RestartInv, Serial, [HandoffNext]_handoffVars
    PROVE  Serial'
<1> USE HandoffTimes DEF Tell, Step, Conclude, Receipt, Faulted, NoWorker, NoPid
<1>shape. /\ receipt \in {NoReceipt} \cup Receipts
          /\ asker \in [Requests -> Askers]
          /\ worker \in [Requests -> WorkerRecords] /\ now \in Nat
    BY DEF RestartInv, HandoffShape
<1>1. ASSUME NEW id \in Requests, RefuseRequest(id) PROVE Serial'
    BY <1>shape, <1>1 DEF Askers, WorkerRecords, Receipts, Serial, RestartInv, InTurn, TakenOnce,
       Wrote, IsMine, RefuseRequest, MayBegin
<1>2. ASSUME NEW id \in Requests, CheckReceipt(id) PROVE Serial'
    BY <1>shape, <1>2 DEF Askers, WorkerRecords, Receipts, Serial, RestartInv, InTurn, TakenOnce,
       Wrote, IsMine, CheckReceipt, MayBegin
<1>3. ASSUME NEW id \in Requests, WriteReceipt(id) PROVE Serial'
    BY <1>shape, <1>3 DEF Askers, WorkerRecords, Receipts, Serial, RestartInv, InTurn, TakenOnce,
       Wrote, IsMine, WriteReceipt
<1>4. ASSUME NEW id \in Requests, WriteReceiptFails(id) PROVE Serial'
    BY <1>shape, <1>4 DEF Askers, WorkerRecords, Receipts, Serial, RestartInv, InTurn, TakenOnce,
       Wrote, IsMine, WriteReceiptFails
<1>5. ASSUME NEW id \in Requests, ArmTimer(id) PROVE Serial'
    BY <1>shape, <1>5 DEF Askers, WorkerRecords, Receipts, Serial, RestartInv, InTurn, TakenOnce,
       Wrote, IsMine, ArmTimer
<1>6. ASSUME NEW id \in Requests, ReportScheduled(id) PROVE Serial'
    BY <1>shape, <1>6 DEF Askers, WorkerRecords, Receipts, Serial, RestartInv, InTurn, TakenOnce,
       Wrote, IsMine, ReportScheduled
<1>7. ASSUME NEW id \in Requests, ReportRejected(id) PROVE Serial'
    BY <1>shape, <1>7 DEF Askers, WorkerRecords, Receipts, Serial, RestartInv, InTurn, TakenOnce,
       Wrote, IsMine, ReportRejected
<1>8. ASSUME NEW id \in Requests, Fire(id) PROVE Serial'
    BY <1>shape, <1>8 DEF Askers, WorkerRecords, Receipts, Serial, RestartInv, InTurn, TakenOnce,
       Wrote, IsMine, Fire
<1>9. ASSUME NEW id \in Requests, FireAgain(id) PROVE Serial'
    BY <1>shape, <1>9 DEF Askers, WorkerRecords, Receipts, Serial, RestartInv, InTurn, TakenOnce,
       Wrote, IsMine, FireAgain
<1>10. ASSUME NEW id \in Requests, NotMine(id) PROVE Serial'
    BY <1>shape, <1>10 DEF Askers, WorkerRecords, Receipts, Serial, RestartInv, InTurn, TakenOnce,
       Wrote, IsMine, NotMine
<1>11. ASSUME NEW id \in Requests, TakeRequest(id) PROVE Serial'
    BY <1>shape, <1>11 DEF Askers, WorkerRecords, Receipts, Serial, RestartInv, InTurn, TakenOnce,
       Wrote, IsMine, TakeRequest
<1>12. ASSUME NEW id \in Requests, ArmRequest(id) PROVE Serial'
    BY <1>shape, <1>12 DEF Askers, WorkerRecords, Receipts, Serial, RestartInv, InTurn, TakenOnce,
       Wrote, IsMine, ArmRequest
<1>13. ASSUME NEW id \in Requests, GiveUp(id) PROVE Serial'
    BY <1>shape, <1>13 DEF Askers, WorkerRecords, Receipts, Serial, RestartInv, InTurn, TakenOnce,
       Wrote, IsMine, GiveUp
<1>14. ASSUME NEW id \in Requests, RestartUnit(id) PROVE Serial'
    BY <1>shape, <1>14 DEF Askers, WorkerRecords, Receipts, Serial, RestartInv, InTurn, TakenOnce,
       Wrote, IsMine, RestartUnit
<1>15. ASSUME NEW id \in Requests, RestartReplacesNothing(id) PROVE Serial'
    BY <1>shape, <1>15 DEF Askers, WorkerRecords, Receipts, Serial, RestartInv, InTurn, TakenOnce,
       Wrote, IsMine, RestartReplacesNothing
<1>16. ASSUME NEW id \in Requests, RestartFails(id) PROVE Serial'
    BY <1>shape, <1>16 DEF Askers, WorkerRecords, Receipts, Serial, RestartInv, InTurn, TakenOnce,
       Wrote, IsMine, RestartFails
<1>17. ASSUME NEW id \in Requests, ProveServing(id) PROVE Serial'
    BY <1>shape, <1>17 DEF Askers, WorkerRecords, Receipts, Serial, RestartInv, InTurn, TakenOnce,
       Wrote, IsMine, ProveServing, Proven, Documents
<1>18. ASSUME NEW id \in Requests, HealthTimeout(id) PROVE Serial'
    BY <1>shape, <1>18 DEF Askers, WorkerRecords, Receipts, Serial, RestartInv, InTurn, TakenOnce,
       Wrote, IsMine, HealthTimeout
<1>19. ASSUME NEW id \in Requests, FinishRead(id) PROVE Serial'
    BY <1>shape, <1>19 DEF Askers, WorkerRecords, Receipts, Serial, RestartInv, InTurn, TakenOnce,
       Wrote, IsMine, FinishRead
<1>20. ASSUME NEW id \in Requests, FinishWrite(id) PROVE Serial'
    BY <1>shape, <1>20 DEF Askers, WorkerRecords, Receipts, Serial, RestartInv, InTurn, TakenOnce,
       Wrote, IsMine, FinishWrite
<1>21. ASSUME NEW id \in Requests, WorkerDies(id) PROVE Serial'
    BY <1>shape, <1>21 DEF Askers, WorkerRecords, Receipts, Serial, RestartInv, InTurn, TakenOnce,
       Wrote, IsMine, WorkerDies
<1>22. CASE SeeResult
    BY <1>shape, <1>22 DEF Askers, WorkerRecords, Receipts, Serial, RestartInv, InTurn, TakenOnce,
       Wrote, IsMine, SeeResult
<1>23. CASE Archive
    BY <1>shape, <1>23 DEF Askers, WorkerRecords, Receipts, Serial, RestartInv, InTurn, TakenOnce,
       Wrote, IsMine, Archive
<1>24. CASE UnitReplaced
    BY <1>shape, <1>24 DEF Askers, WorkerRecords, Receipts, Serial, RestartInv, InTurn, TakenOnce,
       Wrote, IsMine, UnitReplaced
<1>25. CASE Pass
    BY <1>shape, <1>25 DEF Askers, WorkerRecords, Receipts, Serial, RestartInv, InTurn, TakenOnce,
       Wrote, IsMine, Pass
<1>26. CASE UNCHANGED handoffVars
    BY <1>shape, <1>26 DEF Askers, WorkerRecords, Receipts, Serial, RestartInv, InTurn, TakenOnce,
       Wrote, IsMine, handoffVars
<1> QED
    BY <1>1, <1>2, <1>3, <1>4, <1>5, <1>6, <1>7, <1>8, <1>9, <1>10, <1>11, <1>12, <1>13, <1>14,
       <1>15, <1>16, <1>17, <1>18, <1>19, <1>20, <1>21, <1>22, <1>23, <1>24, <1>25, <1>26
       DEF HandoffNext

-----------------------------------------------------------------------------
(* What lapsed stays lapsed, and whoever was excused stays so.               *)

\* Time that has passed has passed.
LEMMA LapsedStays ==
    ASSUME RestartInv, [HandoffNext]_handoffVars, NEW c \in Requests, NEW t \in Nat, Lapsed(c, t)
    PROVE  \A u \in Nat : u >= t => Lapsed(c, u)'
<1> USE HandoffTimes
<1>1. asker[c].pc /= "idle" /\ asker \in [Requests -> Askers]
    BY DEF Lapsed, Wrote, RestartInv, HandoffShape, InTurn
<1>2. asker'[c].created = asker[c].created /\ Wrote(c)'
    BY <1>1, AskedStays DEF Lapsed
<1>3. asker[c].told = "rejected" => asker'[c].told = "rejected"
    BY AskedStays
<1>4. asker[c].created \in Nat
    BY <1>1 DEF Askers
<1> QED
    BY <1>2, <1>3, <1>4 DEF Lapsed

\* So it is for whichever request.
LEMMA SomeLapsedStays ==
    ASSUME RestartInv, [HandoffNext]_handoffVars, SomeLapsed
    PROVE  SomeLapsed'
<1>1. PICK c \in Requests : Lapsed(c, now)
    BY DEF SomeLapsed
<1>2. now \in Nat /\ now' >= now /\ now' \in Nat
    BY AskedStays, RestartInvStep DEF RestartInv, HandoffShape
<1>3. Lapsed(c, now)'
    BY <1>1, <1>2, LapsedStays DEF Lapsed
<1> QED
    BY <1>3 DEF SomeLapsed

\* An excuse is the lapse of another request before this one looked.
LEMMA ExcusedStays ==
    ASSUME RestartInv, [HandoffNext]_handoffVars, NEW x \in Requests, asker[x].pc /= "idle", Excused(x)
    PROVE  Excused(x)'
<1>1. PICK c \in Requests \ {x} : Lapsed(c, asker[x].created)
    BY DEF Excused
<1>2. asker'[x].created = asker[x].created /\ asker[x].created \in Nat
    BY AskedStays DEF RestartInv, HandoffShape, Askers
<1>3. Lapsed(c, asker[x].created)'
    BY <1>1, <1>2, LapsedStays DEF Lapsed
<1> QED
    BY <1>3 DEF Excused

\* Whoever was excused shows that something has lapsed.
LEMMA ExcusedLapsed ==
    ASSUME RestartInv, Serial, NEW x \in Requests, Excused(x)
    PROVE  SomeLapsed
<1>1. PICK c \in Requests \ {x} : Lapsed(c, asker[x].created)
    BY DEF Excused
<1>2. asker[x].created \in Nat /\ asker[c].created \in Nat /\ now \in Nat /\ asker[x].created <= now
    BY DEF RestartInv, HandoffShape, Askers, Serial
<1> QED
    BY <1>1, <1>2, HandoffTimes DEF Lapsed, SomeLapsed

\* A live request has written a receipt.
LEMMA LiveWrote ==
    ASSUME RestartInv, Serial, NEW x \in Requests, Live(x)
    PROVE  Wrote(x) /\ asker[x].pc /= "idle"
    BY DEF RestartInv, InTurn, TakenOnce, Serial, Live, Wrote, HandoffShape

\* Whoever passes the check while a request is live is excused.
LEMMA PassedExcused ==
    ASSUME RestartInv, Serial, OpenDoor, NEW a \in Requests, NEW b \in Requests,
           Live(a), CheckReceipt(b)
    PROVE  Excused(b)'
<1> USE HandoffTimes
<1>1. asker[b].pc = "idle" /\ ~Wrote(b) /\ asker'[b].created = now
    BY DEF CheckReceipt, MayBegin, Wrote, RestartInv, HandoffShape, Askers, InTurn
<1>2. PICK c \in Requests : Lapsed(c, now)
    <2>1. CASE receipt = NoReceipt
        BY <2>1 DEF OpenDoor, SomeLapsed
    <2>2. CASE receipt /= NoReceipt
        <3>1. receipt.id \in Requests /\ receipt.created \in Nat /\ now \in Nat
            BY <2>2 DEF RestartInv, HandoffShape, Receipts
        <3>2. now - receipt.created >= TimeToLive
            BY <2>2, <3>1 DEF CheckReceipt, Blocks
        <3>3. Lapsed(receipt.id, now)
            BY <2>2, <3>1, <3>2 DEF Serial, Lapsed
        <3> QED
            BY <3>1, <3>3
    <2> QED
        BY <2>1, <2>2
<1>3. c /= b
    BY <1>1, <1>2 DEF Lapsed
<1>4. Lapsed(c, now)'
    <2>1. asker'[c] = asker[c] /\ now' = now
        BY <1>3 DEF CheckReceipt, RestartInv, HandoffShape
    <2> QED
        BY <1>2, <2>1 DEF Lapsed, Wrote
<1>5. now' = now
    BY DEF CheckReceipt
<1> QED
    BY <1>1, <1>3, <1>4, <1>5 DEF Excused, Lapsed

-----------------------------------------------------------------------------

\* Two requests restart at once only if one of them is excused.
LEMMA LiveExcusedStep ==
    ASSUME RestartInv, Serial, LiveExcused, CheckedExcused, [HandoffNext]_handoffVars
    PROVE  LiveExcused'
<1> SUFFICES ASSUME NEW a \in Requests, NEW b \in Requests, a /= b, Live(a)', Live(b)'
             PROVE  Excused(a)' \/ Excused(b)'
    BY DEF LiveExcused
<1>1. CASE Live(a) /\ Live(b)
    <2>1. Excused(a) \/ Excused(b)
        BY <1>1 DEF LiveExcused
    <2> QED
        BY <1>1, <2>1, LiveWrote, ExcusedStays
<1>2. ASSUME NEW x \in {a, b}, NEW y \in {a, b}, Live(x), WriteReceipt(y)
      PROVE  Excused(y)'
    <2>1. asker[y].pc = "checked"
        BY <1>2 DEF WriteReceipt
    <2>2. Excused(y)
        BY <1>2, <2>1 DEF CheckedExcused
    <2> QED
        BY <2>1, <2>2, ExcusedStays
<1>3. ~(WriteReceipt(a) /\ WriteReceipt(b))
    BY DEF WriteReceipt, Serial
<1> QED
    BY <1>1, <1>2, <1>3, LiveGrows

\* A request that has looked while another restarts is excused.
LEMMA CheckedExcusedStep ==
    ASSUME ~Overlap, RestartInv, Serial, CheckedExcused, OpenDoor, [HandoffNext]_handoffVars
    PROVE  CheckedExcused'
<1> SUFFICES ASSUME NEW a \in Requests, NEW b \in Requests, asker'[b].pc = "checked", Live(a)'
             PROVE  Excused(b)'
    BY DEF CheckedExcused
<1>1. asker[b].pc = "checked" \/ CheckReceipt(b)
    <2>1. ASSUME NEW id \in Requests, RefuseRequest(id) PROVE (asker[b].pc = "checked" \/ CheckReceipt(b))
        BY <2>1 DEF RestartInv, HandoffShape, Askers, Tell, RefuseRequest, MayBegin
    <2>2. ASSUME NEW id \in Requests, CheckReceipt(id) PROVE (asker[b].pc = "checked" \/ CheckReceipt(b))
        BY <2>2 DEF RestartInv, HandoffShape, Askers, Tell, CheckReceipt, MayBegin
    <2>3. ASSUME NEW id \in Requests, WriteReceipt(id) PROVE (asker[b].pc = "checked" \/ CheckReceipt(b))
        BY <2>3 DEF RestartInv, HandoffShape, Askers, Tell, WriteReceipt
    <2>4. ASSUME NEW id \in Requests, WriteReceiptFails(id) PROVE (asker[b].pc = "checked" \/ CheckReceipt(b))
        BY <2>4 DEF RestartInv, HandoffShape, Askers, Tell, WriteReceiptFails
    <2>5. ASSUME NEW id \in Requests, ArmTimer(id) PROVE (asker[b].pc = "checked" \/ CheckReceipt(b))
        BY <2>5 DEF RestartInv, HandoffShape, Askers, Tell, ArmTimer
    <2>6. ASSUME NEW id \in Requests, ReportScheduled(id) PROVE (asker[b].pc = "checked" \/ CheckReceipt(b))
        BY <2>6 DEF RestartInv, HandoffShape, Askers, Tell, ReportScheduled
    <2>7. ASSUME NEW id \in Requests, ReportRejected(id) PROVE (asker[b].pc = "checked" \/ CheckReceipt(b))
        BY <2>7 DEF RestartInv, HandoffShape, Askers, Tell, ReportRejected
    <2>8. ASSUME NEW id \in Requests, Fire(id) PROVE (asker[b].pc = "checked" \/ CheckReceipt(b))
        BY <2>8 DEF RestartInv, HandoffShape, Askers, Tell, Fire
    <2>9. ASSUME NEW id \in Requests, FireAgain(id) PROVE (asker[b].pc = "checked" \/ CheckReceipt(b))
        BY <2>9 DEF RestartInv, HandoffShape, Askers, Tell, FireAgain
    <2>10. ASSUME NEW id \in Requests, NotMine(id) PROVE (asker[b].pc = "checked" \/ CheckReceipt(b))
        BY <2>10 DEF RestartInv, HandoffShape, Askers, Tell, NotMine
    <2>11. ASSUME NEW id \in Requests, TakeRequest(id) PROVE (asker[b].pc = "checked" \/ CheckReceipt(b))
        BY <2>11 DEF RestartInv, HandoffShape, Askers, Tell, TakeRequest
    <2>12. ASSUME NEW id \in Requests, ArmRequest(id) PROVE (asker[b].pc = "checked" \/ CheckReceipt(b))
        BY <2>12 DEF RestartInv, HandoffShape, Askers, Tell, ArmRequest
    <2>13. ASSUME NEW id \in Requests, GiveUp(id) PROVE (asker[b].pc = "checked" \/ CheckReceipt(b))
        BY <2>13 DEF RestartInv, HandoffShape, Askers, Tell, GiveUp
    <2>14. ASSUME NEW id \in Requests, RestartUnit(id) PROVE (asker[b].pc = "checked" \/ CheckReceipt(b))
        BY <2>14 DEF RestartInv, HandoffShape, Askers, Tell, RestartUnit
    <2>15. ASSUME NEW id \in Requests, RestartReplacesNothing(id)
           PROVE  (asker[b].pc = "checked" \/ CheckReceipt(b))
        BY <2>15 DEF RestartInv, HandoffShape, Askers, Tell, RestartReplacesNothing
    <2>16. ASSUME NEW id \in Requests, RestartFails(id) PROVE (asker[b].pc = "checked" \/ CheckReceipt(b))
        BY <2>16 DEF RestartInv, HandoffShape, Askers, Tell, RestartFails
    <2>17. ASSUME NEW id \in Requests, ProveServing(id) PROVE (asker[b].pc = "checked" \/ CheckReceipt(b))
        BY <2>17 DEF RestartInv, HandoffShape, Askers, Tell, ProveServing, Proven, Documents
    <2>18. ASSUME NEW id \in Requests, HealthTimeout(id) PROVE (asker[b].pc = "checked" \/ CheckReceipt(b))
        BY <2>18 DEF RestartInv, HandoffShape, Askers, Tell, HealthTimeout
    <2>19. ASSUME NEW id \in Requests, FinishRead(id) PROVE (asker[b].pc = "checked" \/ CheckReceipt(b))
        BY <2>19 DEF RestartInv, HandoffShape, Askers, Tell, FinishRead
    <2>20. ASSUME NEW id \in Requests, FinishWrite(id) PROVE (asker[b].pc = "checked" \/ CheckReceipt(b))
        BY <2>20 DEF RestartInv, HandoffShape, Askers, Tell, FinishWrite
    <2>21. ASSUME NEW id \in Requests, WorkerDies(id) PROVE (asker[b].pc = "checked" \/ CheckReceipt(b))
        BY <2>21 DEF RestartInv, HandoffShape, Askers, Tell, WorkerDies
    <2>22. CASE SeeResult
        BY <2>22 DEF RestartInv, HandoffShape, Askers, Tell, SeeResult
    <2>23. CASE Archive
        BY <2>23 DEF RestartInv, HandoffShape, Askers, Tell, Archive
    <2>24. CASE UnitReplaced
        BY <2>24 DEF RestartInv, HandoffShape, Askers, Tell, UnitReplaced
    <2>25. CASE Pass
        BY <2>25 DEF RestartInv, HandoffShape, Askers, Tell, Pass
    <2>26. CASE UNCHANGED handoffVars
        BY <2>26 DEF RestartInv, HandoffShape, Askers, Tell, handoffVars
    <2> QED
        BY <2>1, <2>2, <2>3, <2>4, <2>5, <2>6, <2>7, <2>8, <2>9, <2>10, <2>11, <2>12, <2>13, <2>14,
           <2>15, <2>16, <2>17, <2>18, <2>19, <2>20, <2>21, <2>22, <2>23, <2>24, <2>25, <2>26
           DEF HandoffNext
<1>2. CASE WriteReceipt(a)
    <2>1. /\ asker[a].pc = "checked" /\ asker'[a].pc = "running"
          /\ asker'[b].pc = (IF a = b THEN "running" ELSE asker[b].pc)
        BY <1>2 DEF WriteReceipt, RestartInv, HandoffShape, Askers
    <2>2. asker[b].pc = "checked" /\ a /= b
        BY <1>1, <2>1 DEF CheckReceipt
    <2> QED
        BY <2>1, <2>2 DEF Serial
<1>3. CASE ~WriteReceipt(a)
    <2>1. Live(a)
        BY <1>3, LiveGrows
    <2>2. CASE asker[b].pc = "checked"
        BY <2>1, <2>2, ExcusedStays DEF CheckedExcused
    <2>3. CASE CheckReceipt(b)
        BY <2>1, <2>3, PassedExcused
    <2> QED
        BY <1>1, <2>2, <2>3
<1> QED
    BY <1>2, <1>3

\* The receipt lets a request pass only when whoever restarts has lapsed.
LEMMA OpenDoorStep ==
    ASSUME RestartInv, Serial, LiveExcused, CheckedExcused, OpenDoor, [HandoffNext]_handoffVars
    PROVE  OpenDoor'
<1> USE HandoffTimes DEF Tell, Step, Conclude, Receipt, Faulted, NoWorker, NoPid
<1>shape. /\ receipt \in {NoReceipt} \cup Receipts
          /\ asker \in [Requests -> Askers]
          /\ worker \in [Requests -> WorkerRecords] /\ now \in Nat
    BY DEF RestartInv, HandoffShape
<1>unlike. \A r \in Receipts : r /= NoReceipt
    BY DEF Receipts
\* Steps that leave the receipt alone, and let nobody pass the check.
<1>still. ASSUME UNCHANGED <<receipt, reader>>,
                 \A b \in Requests :
                    asker'[b].pc \in {"checked", "running"} => asker[b].pc = asker'[b].pc
          PROVE  OpenDoor'
    <2>1. \A a \in Requests : Live(a)' => Live(a)
        <3>1. ASSUME NEW a \in Requests, WriteReceipt(a) PROVE FALSE
            <4>1. asker[a].pc = "checked" /\ asker'[a].pc = "running"
                BY <1>shape, <3>1 DEF WriteReceipt, Askers
            <4> QED
                BY <1>still, <4>1
        <3> QED
            BY <3>1, LiveGrows
    <2>2. Finished' <=> Finished
        BY <1>still DEF Finished
    <2> QED
        BY <1>still, <2>1, <2>2, SomeLapsedStays DEF OpenDoor
<1>1. ASSUME NEW id \in Requests, RefuseRequest(id) PROVE OpenDoor'
    BY <1>still, <1>shape, <1>1 DEF Askers, RefuseRequest, MayBegin
<1>2. ASSUME NEW id \in Requests, CheckReceipt(id) PROVE OpenDoor'
    <2>1. ~Finished /\ ~Finished' /\ UNCHANGED <<worker, receipt, reader>>
        BY <1>2 DEF CheckReceipt, Blocks, Finished, IsTerminal
    <2>2. \A a \in Requests : Live(a)' => Live(a)
        BY <2>1 DEF Live, IsMine
    <2> QED
        BY <2>1, <2>2, SomeLapsedStays DEF OpenDoor
<1>3. ASSUME NEW id \in Requests, WriteReceipt(id) PROVE OpenDoor'
    <2>1. receipt' /= NoReceipt /\ ~Finished' /\ reader' = reader /\ asker[id].pc = "checked"
        BY <1>shape, <1>unlike, <1>3 DEF WriteReceipt, Receipts, Askers, Finished, IsTerminal
    <2>2. reader /= NoReceipt => SomeLapsed
        BY <2>1 DEF OpenDoor
    <2> QED
        BY <2>1, <2>2, SomeLapsedStays DEF OpenDoor
<1>4. ASSUME NEW id \in Requests, WriteReceiptFails(id) PROVE OpenDoor'
    BY <1>still, <1>shape, <1>4 DEF Askers, WriteReceiptFails
<1>5. ASSUME NEW id \in Requests, ArmTimer(id) PROVE OpenDoor'
    BY <1>still, <1>shape, <1>5 DEF Askers, ArmTimer
<1>6. ASSUME NEW id \in Requests, ReportScheduled(id) PROVE OpenDoor'
    BY <1>still, <1>shape, <1>6 DEF Askers, ReportScheduled
<1>7. ASSUME NEW id \in Requests, ReportRejected(id) PROVE OpenDoor'
    <2>1. Lapsed(id, now)'
        BY <1>shape, <1>7 DEF ReportRejected, Lapsed, Wrote, Askers
    <2> QED
        BY <2>1 DEF SomeLapsed, OpenDoor
<1>8. ASSUME NEW id \in Requests, Fire(id) PROVE OpenDoor'
    BY <1>still, <1>shape, <1>8 DEF Askers, Fire
<1>9. ASSUME NEW id \in Requests, FireAgain(id) PROVE OpenDoor'
    BY <1>still, <1>shape, <1>9 DEF Askers, FireAgain
<1>10. ASSUME NEW id \in Requests, NotMine(id) PROVE OpenDoor'
    BY <1>still, <1>shape, <1>10 DEF Askers, NotMine
<1>11. ASSUME NEW id \in Requests, TakeRequest(id) PROVE OpenDoor'
    BY <1>still, <1>shape, <1>11 DEF Askers, TakeRequest
<1>12. ASSUME NEW id \in Requests, ArmRequest(id) PROVE OpenDoor'
    <2>1. receipt' /= NoReceipt /\ ~Finished' /\ reader' = reader /\ Live(id)
        BY <1>shape, <1>unlike, <1>12 DEF ArmRequest, Receipts, WorkerRecords, Finished,
           IsTerminal, Live
    <2>2. reader /= NoReceipt => SomeLapsed
        BY <2>1 DEF OpenDoor
    <2> QED
        BY <2>1, <2>2, SomeLapsedStays DEF OpenDoor
<1>13. ASSUME NEW id \in Requests, GiveUp(id) PROVE OpenDoor'
    BY <1>still, <1>shape, <1>13 DEF Askers, GiveUp
<1>14. ASSUME NEW id \in Requests, RestartUnit(id) PROVE OpenDoor'
    BY <1>still, <1>shape, <1>14 DEF Askers, RestartUnit
<1>15. ASSUME NEW id \in Requests, RestartReplacesNothing(id) PROVE OpenDoor'
    BY <1>still, <1>shape, <1>15 DEF Askers, RestartReplacesNothing
<1>16. ASSUME NEW id \in Requests, RestartFails(id) PROVE OpenDoor'
    BY <1>still, <1>shape, <1>16 DEF Askers, RestartFails
<1>17. ASSUME NEW id \in Requests, ProveServing(id) PROVE OpenDoor'
    BY <1>still, <1>shape, <1>17 DEF Askers, ProveServing, Proven, Documents
<1>18. ASSUME NEW id \in Requests, HealthTimeout(id) PROVE OpenDoor'
    BY <1>still, <1>shape, <1>18 DEF Askers, HealthTimeout
<1>19. ASSUME NEW id \in Requests, FinishRead(id) PROVE OpenDoor'
    BY <1>still, <1>shape, <1>19 DEF Askers, FinishRead
<1>20. ASSUME NEW id \in Requests, FinishWrite(id) PROVE OpenDoor'
    <2>1. receipt' /= NoReceipt /\ Finished' /\ Live(id) /\ ~Live(id)' /\ UNCHANGED asker
        BY <1>shape, <1>unlike, <1>20 DEF FinishWrite, Receipts, Finished, IsTerminal, Live,
           IsMine, WorkerRecords,
           RestartInv, ResultIsReplaced
    <2>2. ASSUME NEW a \in Requests, Live(a)'
          PROVE  SomeLapsed
        <3>1. a /= id /\ Live(a)
            BY <2>1, <2>2, <1>20, LiveGrows DEF FinishWrite, WriteReceipt
        <3> QED
            BY <2>1, <3>1, ExcusedLapsed DEF LiveExcused
    <2>3. ASSUME NEW b \in Requests, asker'[b].pc = "checked"
          PROVE  SomeLapsed
        BY <2>1, <2>3, ExcusedLapsed DEF CheckedExcused
    <2> QED
        BY <2>1, <2>2, <2>3, SomeLapsedStays DEF OpenDoor
<1>21. ASSUME NEW id \in Requests, WorkerDies(id) PROVE OpenDoor'
    BY <1>still, <1>shape, <1>21 DEF Askers, WorkerDies
<1>22. CASE SeeResult
    <2>1. Finished /\ Finished' /\ UNCHANGED <<asker, worker, receipt>>
        BY <1>22 DEF SeeResult, Finished
    <2>2. \A a \in Requests : Live(a)' => Live(a)
        BY <2>1 DEF Live, IsMine
    <2> QED
        BY <2>1, <2>2, SomeLapsedStays DEF OpenDoor
<1>23. CASE Archive
    <2>1. reader' = NoReceipt /\ receipt' = NoReceipt /\ UNCHANGED <<asker, worker>>
        BY <1>23 DEF Archive
    <2>2. ASSUME NEW a \in Requests, Live(a)'
          PROVE  SomeLapsed
        <3>1. Live(a)
            BY <2>1, <2>2 DEF Live, IsMine
        <3> QED
            BY <3>1, <1>23 DEF OpenDoor, Archive
    <2> QED
        BY <2>1, <2>2, SomeLapsedStays DEF OpenDoor, Finished
<1>24. CASE UnitReplaced
    BY <1>still, <1>shape, <1>24 DEF Askers, UnitReplaced
<1>25. CASE Pass
    BY <1>still, <1>shape, <1>25 DEF Askers, Pass
<1>26. CASE UNCHANGED handoffVars
    BY <1>still, <1>shape, <1>26 DEF handoffVars
<1> QED
    BY <1>1, <1>2, <1>3, <1>4, <1>5, <1>6, <1>7, <1>8, <1>9, <1>10, <1>11, <1>12, <1>13, <1>14,
       <1>15, <1>16, <1>17, <1>18, <1>19, <1>20, <1>21, <1>22, <1>23, <1>24, <1>25, <1>26
       DEF HandoffNext

\* No request yet.
LEMMA DoorInvInit == HandoffInit => DoorInv
<1> SUFFICES ASSUME HandoffInit PROVE DoorInv
    OBVIOUS
<1>1. RestartInv
    BY RestartInvInit
<1>2. Serial
    BY DEF HandoffInit, Serial, NoWorker
<1>3. \A x \in Requests : ~Live(x) /\ asker[x].pc = "idle"
    BY DEF HandoffInit, Live, IsMine, NoWorker
<1> QED
    BY <1>1, <1>2, <1>3 DEF HandoffInit, DoorInv, LiveExcused, CheckedExcused, OpenDoor, Finished

\* One step of anybody.
LEMMA DoorInvStep == ~Overlap /\ DoorInv /\ [HandoffNext]_handoffVars => DoorInv'
    BY RestartInvStep, SerialStep, LiveExcusedStep, CheckedExcusedStep, OpenDoorStep DEF DoorInv

\* When no two schedulers run at once, two workers restart the unit at the same time
\* only over a receipt that had lapsed (handoff.rs): for any number of requests,
\* with workers that die or run again and receipts that are written over.
THEOREM DoorIsHeld == ASSUME ~Overlap PROVE HandoffSpec => []DoorHeld
<1>1. DoorInv => DoorHeld
    <2> SUFFICES ASSUME DoorInv, NEW a \in Requests, NEW b \in Requests, a /= b,
                        Restarting(a), Restarting(b)
                 PROVE  \/ Lapsed(a, asker[b].created) \/ Lapsed(b, asker[a].created)
                        \/ \E c \in Requests \ {a, b} : Lapsed(c, now)
        BY DEF DoorHeld
    <2>1. Live(a) /\ Live(b)
        BY DEF Live, Restarting
    <2>2. Excused(a) \/ Excused(b)
        BY <2>1 DEF DoorInv, LiveExcused
    <2>3. \A x, c \in Requests : Lapsed(c, asker[x].created) => Lapsed(c, now)
        <3> SUFFICES ASSUME NEW x \in Requests, NEW c \in Requests, Lapsed(c, asker[x].created)
                     PROVE  Lapsed(c, now)
            OBVIOUS
        <3>1. asker[x].created \in Nat /\ asker[c].created \in Nat /\ now \in Nat /\ asker[x].created <= now
            BY DEF DoorInv, RestartInv, HandoffShape, Askers, Serial
        <3> QED
            BY <3>1, HandoffTimes DEF Lapsed
    <2> QED
        BY <2>2, <2>3 DEF Excused
<1>2. DoorInv /\ [HandoffNext]_handoffVars => DoorInv'
    BY DoorInvStep
<1> QED
    BY DoorInvInit, <1>1, <1>2, PTL DEF HandoffSpec

-----------------------------------------------------------------------------
(* The life of the service (ServiceLife).                                   *)

Phases ==
  Acquiring \cup {"unborn", "tracked", "serving", "draining", "leaving", "removing",
                 "zombie", "gone"}
Recorded == {"tracked", "serving", "draining", "leaving", "removing"}

\* The part of the type the argument needs.
ServiceShape ==
  /\ phase \in [Procs -> Phases]
  /\ pidFile = NoFile \/ pidFile.by \in Procs
  /\ supervisor.pc = "waiting" => supervisor.child \in Procs
  /\ stopper.pc \in {"announcing", "signalling", "waiting"} => stopper.target \in Procs

\* Starts do not overlap.
OneStarts == \A p, q \in Procs : phase[p] \in Acquiring /\ phase[q] \in Acquiring => p = q

\* service.pid is the file of whoever has written his record, until he is gone.
RecordedIsNamed == \A p \in Procs : phase[p] \in Recorded => pidFile = [by |-> p, whole |-> TRUE]

\* It is the empty file of whoever is about to write his.
WritingIsNamed == \A p \in Procs : phase[p] = "writing" => pidFile = [by |-> p, whole |-> FALSE]

\* What a process removes as debris still is.
ClearsDebris == \A p \in Procs : phase[p] = "clearing" => ~IsLive(pidFile)

TrackedInv ==
  ServiceShape /\ OneStarts /\ RecordedIsNamed /\ WritingIsNamed /\ ClearsDebris

\* No process and no file yet.
LEMMA TrackedInvInit == ServiceInit => TrackedInv
    BY ServiceBounds DEF ServiceInit, TrackedInv, ServiceShape, OneStarts, RecordedIsNamed,
       WritingIsNamed, ClearsDebris, Phases, Recorded, Acquiring

\* One step of a process, its supervisor, a stop, a probe or the clock.
LEMMA TrackedInvStep == ~Overlapping /\ TrackedInv /\ [ServiceNext]_serviceVars => TrackedInv'
<1> SUFFICES ASSUME ~Overlapping, TrackedInv, [ServiceNext]_serviceVars PROVE TrackedInv'
    OBVIOUS
<1> USE ServiceBounds DEF TrackedInv, ServiceShape, Phases, Acquiring, NoFile, To, ProcessOnly,
        Ends,
        SupervisorOnly, StopperOnly, Report, Unborn, Alive
<1>1. ASSUME NEW p \in Procs, StartByHand(p) PROVE TrackedInv'
    <2>1. ServiceShape'
        BY <1>1 DEF IsLive, StartByHand, MayStart
    <2>2. OneStarts'
        BY <1>1 DEF OneStarts, StartByHand, MayStart
    <2>3. RecordedIsNamed' /\ WritingIsNamed'
        BY <1>1 DEF OneStarts, RecordedIsNamed, WritingIsNamed, ClearsDebris, Recorded, IsLive,
           StartByHand, MayStart
    <2>4. ClearsDebris'
        BY <1>1 DEF OneStarts, RecordedIsNamed, WritingIsNamed, ClearsDebris, Recorded, IsLive,
           StartByHand, MayStart
    <2> QED
        BY <2>1, <2>2, <2>3, <2>4
<1>2. ASSUME NEW p \in Procs, CreatePid(p) PROVE TrackedInv'
    <2>1. ServiceShape'
        BY <1>2 DEF IsLive, CreatePid
    <2>2. OneStarts'
        BY <1>2 DEF OneStarts, CreatePid
    <2>3. RecordedIsNamed' /\ WritingIsNamed'
        BY <1>2 DEF OneStarts, RecordedIsNamed, WritingIsNamed, ClearsDebris, Recorded, IsLive,
           CreatePid
    <2>4. ClearsDebris'
        BY <1>2 DEF OneStarts, RecordedIsNamed, WritingIsNamed, ClearsDebris, Recorded, IsLive,
           CreatePid
    <2> QED
        BY <2>1, <2>2, <2>3, <2>4
<1>3. ASSUME NEW p \in Procs, FindPid(p) PROVE TrackedInv'
    <2>1. ServiceShape'
        BY <1>3 DEF IsLive, FindPid
    <2>2. OneStarts'
        BY <1>3 DEF OneStarts, FindPid
    <2>3. RecordedIsNamed' /\ WritingIsNamed'
        BY <1>3 DEF OneStarts, RecordedIsNamed, WritingIsNamed, ClearsDebris, Recorded, IsLive,
           FindPid
    <2>4. ClearsDebris'
        BY <1>3 DEF OneStarts, RecordedIsNamed, WritingIsNamed, ClearsDebris, Recorded, IsLive,
           FindPid
    <2> QED
        BY <2>1, <2>2, <2>3, <2>4
<1>4. ASSUME NEW p \in Procs, WritePid(p) PROVE TrackedInv'
    <2>0. /\ pidFile = [by |-> p, whole |-> FALSE]
          /\ phase' = [phase EXCEPT ![p] = "tracked"]
          /\ UNCHANGED <<supervisor, stopper>>
        BY <1>4 DEF WritingIsNamed, WritePid
    <2>1. pidFile' = [by |-> p, whole |-> TRUE]
        BY <1>4, <2>0 DEF WritePid
    <2>2. ServiceShape'
        BY <2>0, <2>1
    <2>3. OneStarts'
        BY <2>0 DEF OneStarts
    <2>4. RecordedIsNamed'
        BY <1>4, <2>0, <2>1 DEF RecordedIsNamed, Recorded
    <2>5. WritingIsNamed'
        BY <1>4, <2>0, <2>1 DEF OneStarts, WritingIsNamed, WritePid
    <2>6. ClearsDebris'
        BY <1>4, <2>0 DEF OneStarts, ClearsDebris, WritePid
    <2> QED
        BY <2>2, <2>3, <2>4, <2>5, <2>6
<1>5. ASSUME NEW p \in Procs, RefuseSecond(p) PROVE TrackedInv'
    <2>1. ServiceShape'
        BY <1>5 DEF IsLive, RefuseSecond
    <2>2. OneStarts'
        BY <1>5 DEF OneStarts, RefuseSecond
    <2>3. RecordedIsNamed' /\ WritingIsNamed'
        BY <1>5 DEF OneStarts, RecordedIsNamed, WritingIsNamed, ClearsDebris, Recorded, IsLive,
           RefuseSecond
    <2>4. ClearsDebris'
        BY <1>5 DEF OneStarts, RecordedIsNamed, WritingIsNamed, ClearsDebris, Recorded, IsLive,
           RefuseSecond
    <2> QED
        BY <2>1, <2>2, <2>3, <2>4
<1>6. ASSUME NEW p \in Procs, JudgeDebris(p) PROVE TrackedInv'
    <2>1. ServiceShape'
        BY <1>6 DEF IsLive, JudgeDebris
    <2>2. OneStarts'
        BY <1>6 DEF OneStarts, JudgeDebris
    <2>3. RecordedIsNamed' /\ WritingIsNamed'
        BY <1>6 DEF OneStarts, RecordedIsNamed, WritingIsNamed, ClearsDebris, Recorded, IsLive,
           JudgeDebris
    <2>4. ClearsDebris'
        BY <1>6 DEF OneStarts, RecordedIsNamed, WritingIsNamed, ClearsDebris, Recorded, IsLive,
           JudgeDebris
    <2> QED
        BY <2>1, <2>2, <2>3, <2>4
<1>7. ASSUME NEW p \in Procs, ClearPid(p) PROVE TrackedInv'
    <2>1. ServiceShape'
        BY <1>7 DEF IsLive, ClearPid
    <2>2. OneStarts'
        BY <1>7 DEF OneStarts, ClearPid
    <2>3. RecordedIsNamed' /\ WritingIsNamed'
        BY <1>7 DEF OneStarts, RecordedIsNamed, WritingIsNamed, ClearsDebris, Recorded, IsLive,
           ClearPid
    <2>4. ClearsDebris'
        BY <1>7 DEF OneStarts, RecordedIsNamed, WritingIsNamed, ClearsDebris, Recorded, IsLive,
           ClearPid
    <2> QED
        BY <2>1, <2>2, <2>3, <2>4
<1>8. ASSUME NEW p \in Procs, ClearedUnderIt(p) PROVE TrackedInv'
    <2>1. ServiceShape'
        BY <1>8 DEF IsLive, ClearedUnderIt
    <2>2. OneStarts'
        BY <1>8 DEF OneStarts, ClearedUnderIt
    <2>3. RecordedIsNamed' /\ WritingIsNamed'
        BY <1>8 DEF OneStarts, RecordedIsNamed, WritingIsNamed, ClearsDebris, Recorded, IsLive,
           ClearedUnderIt
    <2>4. ClearsDebris'
        BY <1>8 DEF OneStarts, RecordedIsNamed, WritingIsNamed, ClearsDebris, Recorded, IsLive,
           ClearedUnderIt
    <2> QED
        BY <2>1, <2>2, <2>3, <2>4
<1>9. ASSUME NEW p \in Procs, TakeTokenLock(p) PROVE TrackedInv'
    <2>1. ServiceShape'
        BY <1>9 DEF IsLive, TakeTokenLock
    <2>2. OneStarts'
        BY <1>9 DEF OneStarts, TakeTokenLock
    <2>3. RecordedIsNamed' /\ WritingIsNamed'
        BY <1>9 DEF OneStarts, RecordedIsNamed, WritingIsNamed, ClearsDebris, Recorded, IsLive,
           TakeTokenLock
    <2>4. ClearsDebris'
        BY <1>9 DEF OneStarts, RecordedIsNamed, WritingIsNamed, ClearsDebris, Recorded, IsLive,
           TakeTokenLock
    <2> QED
        BY <2>1, <2>2, <2>3, <2>4
<1>10. ASSUME NEW p \in Procs, LockTaken(p) PROVE TrackedInv'
    <2>1. ServiceShape'
        BY <1>10 DEF IsLive, LockTaken
    <2>2. OneStarts'
        BY <1>10 DEF OneStarts, LockTaken
    <2>3. RecordedIsNamed' /\ WritingIsNamed'
        BY <1>10 DEF OneStarts, RecordedIsNamed, WritingIsNamed, ClearsDebris, Recorded, IsLive,
           LockTaken
    <2>4. ClearsDebris'
        BY <1>10 DEF OneStarts, RecordedIsNamed, WritingIsNamed, ClearsDebris, Recorded, IsLive,
           LockTaken
    <2> QED
        BY <2>1, <2>2, <2>3, <2>4
<1>11. ASSUME NEW p \in Procs, Drained(p) PROVE TrackedInv'
    <2>1. ServiceShape'
        BY <1>11 DEF IsLive, Drained
    <2>2. OneStarts'
        BY <1>11 DEF OneStarts, Drained
    <2>3. RecordedIsNamed' /\ WritingIsNamed'
        BY <1>11 DEF OneStarts, RecordedIsNamed, WritingIsNamed, ClearsDebris, Recorded, IsLive,
           Drained
    <2>4. ClearsDebris'
        BY <1>11 DEF OneStarts, RecordedIsNamed, WritingIsNamed, ClearsDebris, Recorded, IsLive,
           Drained
    <2> QED
        BY <2>1, <2>2, <2>3, <2>4
<1>12. ASSUME NEW p \in Procs, LeaveRead(p) PROVE TrackedInv'
    <2>1. ServiceShape'
        BY <1>12 DEF IsLive, LeaveRead
    <2>2. OneStarts'
        BY <1>12 DEF OneStarts, LeaveRead
    <2>3. RecordedIsNamed' /\ WritingIsNamed'
        BY <1>12 DEF OneStarts, RecordedIsNamed, WritingIsNamed, ClearsDebris, Recorded, IsLive,
           LeaveRead
    <2>4. ClearsDebris'
        BY <1>12 DEF OneStarts, RecordedIsNamed, WritingIsNamed, ClearsDebris, Recorded, IsLive,
           LeaveRead
    <2> QED
        BY <2>1, <2>2, <2>3, <2>4
<1>13. ASSUME NEW p \in Procs, LeaveRemove(p) PROVE TrackedInv'
    <2>1. ServiceShape'
        BY <1>13 DEF IsLive, LeaveRemove
    <2>2. OneStarts'
        BY <1>13 DEF OneStarts, LeaveRemove
    <2>3. RecordedIsNamed' /\ WritingIsNamed'
        BY <1>13 DEF OneStarts, RecordedIsNamed, WritingIsNamed, ClearsDebris, Recorded, IsLive,
           LeaveRemove
    <2>4. ClearsDebris'
        BY <1>13 DEF OneStarts, RecordedIsNamed, WritingIsNamed, ClearsDebris, Recorded, IsLive,
           LeaveRemove
    <2> QED
        BY <2>1, <2>2, <2>3, <2>4
<1>14. ASSUME NEW p \in Procs, Dies(p) PROVE TrackedInv'
    <2>1. ServiceShape'
        BY <1>14 DEF IsLive, Dies
    <2>2. OneStarts'
        BY <1>14 DEF OneStarts, Dies
    <2>3. RecordedIsNamed' /\ WritingIsNamed'
        BY <1>14 DEF OneStarts, RecordedIsNamed, WritingIsNamed, ClearsDebris, Recorded, IsLive,
           Dies
    <2>4. ClearsDebris'
        BY <1>14 DEF OneStarts, RecordedIsNamed, WritingIsNamed, ClearsDebris, Recorded, IsLive,
           Dies
    <2> QED
        BY <2>1, <2>2, <2>3, <2>4
<1>15. ASSUME NEW p \in Procs, Spawn(p) PROVE TrackedInv'
    <2>1. ServiceShape'
        BY <1>15 DEF IsLive, Spawn, MayStart
    <2>2. OneStarts'
        BY <1>15 DEF OneStarts, Spawn, MayStart
    <2>3. RecordedIsNamed' /\ WritingIsNamed'
        BY <1>15 DEF OneStarts, RecordedIsNamed, WritingIsNamed, ClearsDebris, Recorded, IsLive,
           Spawn, MayStart
    <2>4. ClearsDebris'
        BY <1>15 DEF OneStarts, RecordedIsNamed, WritingIsNamed, ClearsDebris, Recorded, IsLive,
           Spawn, MayStart
    <2> QED
        BY <2>1, <2>2, <2>3, <2>4
<1>16. CASE Reap
    <2>1. ServiceShape'
        BY <1>16 DEF IsLive, Reap
    <2>2. OneStarts'
        BY <1>16 DEF OneStarts, Reap
    <2>3. RecordedIsNamed' /\ WritingIsNamed'
        BY <1>16 DEF OneStarts, RecordedIsNamed, WritingIsNamed, ClearsDebris, Recorded, IsLive,
           Reap
    <2>4. ClearsDebris'
        BY <1>16 DEF OneStarts, RecordedIsNamed, WritingIsNamed, ClearsDebris, Recorded, IsLive,
           Reap
    <2> QED
        BY <2>1, <2>2, <2>3, <2>4
<1>17. CASE SuperviseEnds
    BY <1>17 DEF OneStarts, RecordedIsNamed, WritingIsNamed, ClearsDebris, Recorded, IsLive,
       SuperviseEnds
<1>18. CASE CrashSeen
    BY <1>18 DEF OneStarts, RecordedIsNamed, WritingIsNamed, ClearsDebris, Recorded, IsLive,
       CrashSeen
<1>19. CASE BeginStop
    <2>1. ServiceShape'
        BY <1>19 DEF IsLive, BeginStop
    <2>2. OneStarts'
        BY <1>19 DEF OneStarts, BeginStop
    <2>3. RecordedIsNamed' /\ WritingIsNamed'
        BY <1>19 DEF OneStarts, RecordedIsNamed, WritingIsNamed, ClearsDebris, Recorded, IsLive,
           BeginStop
    <2>4. ClearsDebris'
        BY <1>19 DEF OneStarts, RecordedIsNamed, WritingIsNamed, ClearsDebris, Recorded, IsLive,
           BeginStop
    <2> QED
        BY <2>1, <2>2, <2>3, <2>4
<1>20. CASE Announce
    BY <1>20 DEF OneStarts, RecordedIsNamed, WritingIsNamed, ClearsDebris, Recorded, IsLive,
       Announce
<1>21. CASE SendTerm
    <2>1. ServiceShape'
        BY <1>21 DEF IsLive, SendTerm
    <2>2. OneStarts'
        BY <1>21 DEF OneStarts, SendTerm
    <2>3. RecordedIsNamed' /\ WritingIsNamed'
        BY <1>21 DEF OneStarts, RecordedIsNamed, WritingIsNamed, ClearsDebris, Recorded, IsLive,
           SendTerm
    <2>4. ClearsDebris'
        BY <1>21 DEF OneStarts, RecordedIsNamed, WritingIsNamed, ClearsDebris, Recorded, IsLive,
           SendTerm
    <2> QED
        BY <2>1, <2>2, <2>3, <2>4
<1>22. CASE StopNotRunning
    BY <1>22 DEF OneStarts, RecordedIsNamed, WritingIsNamed, ClearsDebris, Recorded, IsLive,
       StopNotRunning
<1>23. CASE StopDrained
    BY <1>23 DEF OneStarts, RecordedIsNamed, WritingIsNamed, ClearsDebris, Recorded, IsLive,
       StopDrained
<1>24. CASE SendKill
    <2>1. ServiceShape'
        BY <1>24 DEF IsLive, SendKill
    <2>2. OneStarts'
        BY <1>24 DEF OneStarts, SendKill
    <2>3. RecordedIsNamed' /\ WritingIsNamed'
        BY <1>24 DEF OneStarts, RecordedIsNamed, WritingIsNamed, ClearsDebris, Recorded, IsLive,
           SendKill
    <2>4. ClearsDebris'
        BY <1>24 DEF OneStarts, RecordedIsNamed, WritingIsNamed, ClearsDebris, Recorded, IsLive,
           SendKill
    <2> QED
        BY <2>1, <2>2, <2>3, <2>4
<1>25. CASE StopKilled
    BY <1>25 DEF OneStarts, RecordedIsNamed, WritingIsNamed, ClearsDebris, Recorded, IsLive,
       StopKilled
<1>26. CASE StopDies
    BY <1>26 DEF OneStarts, RecordedIsNamed, WritingIsNamed, ClearsDebris, Recorded, IsLive,
       StopDies
<1>27. CASE ProbeLock
    BY <1>27 DEF OneStarts, RecordedIsNamed, WritingIsNamed, ClearsDebris, Recorded, IsLive,
       ProbeLock
<1>28. CASE ProbeUnlock
    BY <1>28 DEF OneStarts, RecordedIsNamed, WritingIsNamed, ClearsDebris, Recorded, IsLive,
       ProbeUnlock
<1>29. CASE Tick
    BY <1>29 DEF OneStarts, RecordedIsNamed, WritingIsNamed, ClearsDebris, Recorded, IsLive, Tick
<1>30. CASE UNCHANGED serviceVars
    BY <1>30 DEF OneStarts, RecordedIsNamed, WritingIsNamed, ClearsDebris, Recorded, IsLive,
       serviceVars
<1>31. CASE MarkerLapses
    BY <1>31 DEF OneStarts, RecordedIsNamed, WritingIsNamed, ClearsDebris, Recorded, IsLive,
       MarkerLapses
<1> QED
    BY <1>1, <1>2, <1>3, <1>4, <1>5, <1>6, <1>7, <1>8, <1>9, <1>10, <1>11, <1>12, <1>13, <1>14,
       <1>15, <1>16, <1>17, <1>18, <1>19, <1>20, <1>21, <1>22, <1>23, <1>24, <1>25, <1>26, <1>27,
       <1>28, <1>29, <1>30, <1>31 DEF ServiceNext

\* As long as starts do not overlap, the process that serves is the one service.pid
\* names (pidfile.rs): for any number of processes that crash, are refused, stopped
\* or killed at any moment.
THEOREM ServingIsTracked == ASSUME ~Overlapping PROVE ServiceSpec => []Tracked
<1>1. TrackedInv => Tracked
    BY DEF TrackedInv, RecordedIsNamed, Recorded, Tracked
<1>2. TrackedInv /\ [ServiceNext]_serviceVars => TrackedInv'
    BY TrackedInvStep
<1> QED
    BY TrackedInvInit, <1>1, <1>2, PTL DEF ServiceSpec

\* The part of the type this argument needs.
SupervisorSteps == {"ready", "waiting", "reaped", "stopped", "gaveUp"}
EndShape ==
  /\ time \in Nat /\ crashes \in Seq(Nat)
  /\ DOMAIN phase = Procs /\ DOMAIN how = Procs
  /\ supervisor \in [pc : SupervisorSteps, child : Procs \cup {NoProc}, recent : Seq(Nat)]

\* Crashes are recorded in the order of time, none later than now.
CrashesInOrder ==
  \A i \in 1 .. Len(crashes) :
    /\ crashes[i] <= time
    /\ \A j \in 1 .. Len(crashes) : i <= j => crashes[i] <= crashes[j]

\* How many crashes the supervisor's list has dropped.
DroppedCrashes == Len(crashes) - Len(supervisor.recent)

\* The list is the newest crashes, those within a window of the last one and no
\* other.
ListIsWindow ==
  /\ DroppedCrashes >= 0
  /\ \A i \in 1 .. Len(supervisor.recent) : supervisor.recent[i] = crashes[DroppedCrashes + i]
  /\ \A i \in 1 .. Len(crashes) :
       i > DroppedCrashes <=> crashes[Len(crashes)] - crashes[i] < RapidWindow

\* Until it gives up there was no loop, and when it does its list is one.
GivesUpOnLoop ==
  /\ supervisor.pc /= "gaveUp" =>
       /\ Len(supervisor.recent) < RapidLimit
       /\ \A i \in 1 .. Len(crashes) - RapidLimit + 1 : ~InOneWindow(i)
  /\ supervisor.pc = "gaveUp" => Len(supervisor.recent) >= RapidLimit

\* The marker is one that was announced, and the child a supervisor has reaped is
\* gone for good, so what it came to stands.
MarkerIsAnnounced == marker = NoProc \/ marker \in announced
ChildIsGone ==
  /\ supervisor.pc \in {"waiting", "reaped", "stopped"} => supervisor.child \in Procs
  /\ supervisor.pc \in {"reaped", "stopped"} => phase[supervisor.child] = "gone"

EndInv ==
  /\ EndShape /\ CrashesInOrder /\ ListIsWindow /\ GivesUpOnLoop
  /\ MarkerIsAnnounced /\ ChildIsGone /\ StopExplainsEnd

\* What every step but the supervisor's own does to what the invariant is about.
BesideSupervisor ==
  /\ UNCHANGED <<supervisor, crashes>>
  /\ time' \in Nat /\ time' >= time
  /\ DOMAIN phase' = Procs /\ DOMAIN how' = Procs
  /\ \A p \in Procs : phase[p] = "gone" => phase'[p] = "gone" /\ how'[p] = how[p]
  /\ announced \subseteq announced' /\ (marker' = NoProc \/ marker' \in announced')

\* The empty history.
LEMMA EndInvInit == ServiceInit => EndInv
    BY ServiceBounds DEF ServiceInit, EndInv, EndShape, CrashesInOrder, ListIsWindow,
       DroppedCrashes, GivesUpOnLoop, MarkerIsAnnounced, ChildIsGone, StopExplainsEnd,
       SupervisorSteps, InOneWindow

\* Such a step keeps the invariant.
LEMMA BesideKeepsEnd == EndInv /\ BesideSupervisor => EndInv'
<1> SUFFICES ASSUME EndInv, BesideSupervisor PROVE EndInv'
    OBVIOUS
<1>1. EndShape'
    BY DEF EndInv, EndShape, BesideSupervisor
<1>2. CrashesInOrder'
    BY DEF EndInv, EndShape, CrashesInOrder, BesideSupervisor
<1>3. ListIsWindow' /\ GivesUpOnLoop'
    BY DEF EndInv, ListIsWindow, DroppedCrashes, GivesUpOnLoop, InOneWindow, BesideSupervisor
<1>4. MarkerIsAnnounced' /\ ChildIsGone' /\ StopExplainsEnd'
    BY DEF EndInv, EndShape, MarkerIsAnnounced, ChildIsGone, StopExplainsEnd, BesideSupervisor
<1> QED
    BY <1>1, <1>2, <1>3, <1>4 DEF EndInv

\* The steps of the processes, of the stop and status commands and of the clock are
\* all of that kind.
LEMMA BesideStep ==
    ASSUME EndInv,
           \/ \E p \in Procs :
                \/ StartByHand(p)
                \/ CreatePid(p)
                \/ FindPid(p)
                \/ WritePid(p)
                \/ RefuseSecond(p)
                \/ JudgeDebris(p)
                \/ ClearPid(p)
                \/ ClearedUnderIt(p)
                \/ TakeTokenLock(p)
                \/ LockTaken(p)
                \/ Drained(p)
                \/ LeaveRead(p)
                \/ LeaveRemove(p)
                \/ Dies(p)
           \/ BeginStop
           \/ Announce
           \/ SendTerm
           \/ StopNotRunning
           \/ StopDrained
           \/ SendKill
           \/ StopKilled
           \/ StopDies
           \/ MarkerLapses
           \/ ProbeLock
           \/ ProbeUnlock
           \/ Tick
           \/ UNCHANGED serviceVars
    PROVE  BesideSupervisor
<1> USE DEF EndInv, EndShape, MarkerIsAnnounced, BesideSupervisor, To, ProcessOnly, Ends, Alive,
        StopperOnly, Report, Unborn
<1>1. ASSUME NEW p \in Procs, StartByHand(p) PROVE BesideSupervisor
    BY <1>1 DEF StartByHand
<1>2. ASSUME NEW p \in Procs, CreatePid(p) PROVE BesideSupervisor
    BY <1>2 DEF CreatePid
<1>3. ASSUME NEW p \in Procs, FindPid(p) PROVE BesideSupervisor
    BY <1>3 DEF FindPid
<1>4. ASSUME NEW p \in Procs, WritePid(p) PROVE BesideSupervisor
    BY <1>4 DEF WritePid
<1>5. ASSUME NEW p \in Procs, RefuseSecond(p) PROVE BesideSupervisor
    BY <1>5 DEF RefuseSecond
<1>6. ASSUME NEW p \in Procs, JudgeDebris(p) PROVE BesideSupervisor
    BY <1>6 DEF JudgeDebris
<1>7. ASSUME NEW p \in Procs, ClearPid(p) PROVE BesideSupervisor
    BY <1>7 DEF ClearPid
<1>8. ASSUME NEW p \in Procs, ClearedUnderIt(p) PROVE BesideSupervisor
    BY <1>8 DEF ClearedUnderIt
<1>9. ASSUME NEW p \in Procs, TakeTokenLock(p) PROVE BesideSupervisor
    BY <1>9 DEF TakeTokenLock
<1>10. ASSUME NEW p \in Procs, LockTaken(p) PROVE BesideSupervisor
    BY <1>10 DEF LockTaken
<1>11. ASSUME NEW p \in Procs, Drained(p) PROVE BesideSupervisor
    BY <1>11 DEF Drained
<1>12. ASSUME NEW p \in Procs, LeaveRead(p) PROVE BesideSupervisor
    BY <1>12 DEF LeaveRead
<1>13. ASSUME NEW p \in Procs, LeaveRemove(p) PROVE BesideSupervisor
    BY <1>13 DEF LeaveRemove
<1>14. ASSUME NEW p \in Procs, Dies(p) PROVE BesideSupervisor
    BY <1>14 DEF Dies
<1>15. CASE BeginStop
    BY <1>15 DEF BeginStop
<1>16. CASE Announce
    BY <1>16 DEF Announce
<1>17. CASE SendTerm
    BY <1>17 DEF SendTerm
<1>18. CASE StopNotRunning
    BY <1>18 DEF StopNotRunning
<1>19. CASE StopDrained
    BY <1>19 DEF StopDrained
<1>20. CASE SendKill
    BY <1>20 DEF SendKill
<1>21. CASE StopKilled
    BY <1>21 DEF StopKilled
<1>22. CASE StopDies
    BY <1>22 DEF StopDies
<1>23. CASE ProbeLock
    BY <1>23 DEF ProbeLock
<1>24. CASE ProbeUnlock
    BY <1>24 DEF ProbeUnlock
<1>25. CASE Tick
    BY <1>25 DEF Tick
<1>26. CASE UNCHANGED serviceVars
    BY <1>26 DEF serviceVars
<1>27. CASE MarkerLapses
    BY <1>27 DEF MarkerLapses
<1> QED
    BY <1>1, <1>2, <1>3, <1>4, <1>5, <1>6, <1>7, <1>8, <1>9, <1>10, <1>11, <1>12, <1>13, <1>14,
       <1>15, <1>16, <1>17, <1>18, <1>19, <1>20, <1>21, <1>22, <1>23, <1>24, <1>25, <1>26, <1>27

\* What is left of a list without its first n.
LEMMA RestOfList ==
  ASSUME NEW s \in Seq(Nat), NEW n \in 0 .. Len(s)
  PROVE  LET rest == SubSeq(s, n + 1, Len(s))
         IN /\ rest \in Seq(Nat) /\ Len(rest) = Len(s) - n
            /\ \A i \in 1 .. Len(s) - n : rest[i] = s[n + i]
<1> PICK m : m = Len(s)
    OBVIOUS
<1>1. m \in Nat /\ n \in Nat /\ n <= m /\ n + 1 \in Int /\ m \in Int
    OBVIOUS
<1>2. \A i \in n + 1 .. m : s[i] \in Nat
    BY <1>1
<1>3. /\ SubSeq(s, n + 1, m) \in Seq(Nat)
      /\ Len(SubSeq(s, n + 1, m)) = IF n + 1 <= m THEN m - (n + 1) + 1 ELSE 0
      /\ \A i \in 1 .. m - (n + 1) + 1 : SubSeq(s, n + 1, m)[i] = s[n + 1 + i - 1]
    BY <1>1, <1>2, SubSeqProperties
<1>4. Len(SubSeq(s, n + 1, m)) = m - n
    BY <1>1, <1>3
<1>5. ASSUME NEW i \in 1 .. m - n PROVE SubSeq(s, n + 1, m)[i] = s[n + i]
  <2>1. i \in 1 .. m - (n + 1) + 1 /\ n + 1 + i - 1 = n + i
      BY <1>1
  <2> QED
      BY <1>3, <2>1
<1> QED
    BY <1>3, <1>4, <1>5

\* A crash at the limit: the list is the window of the new crash, and the supervisor
\* gives up just when that window holds RapidLimit of them.
LEMMA CrashKeepsEnd == EndInv /\ CrashSeen => EndInv'
<1> SUFFICES ASSUME EndInv, CrashSeen PROVE EndInv'
    OBVIOUS
<1> DEFINE last == Len(crashes)
           old == supervisor.recent
           held == Len(old)
<1>1. PICK n \in 0 .. Len(old) :
        /\ \A i \in DOMAIN old : StillRecent(old[i]) <=> i > n
        /\ LET kept == SubSeq(old, n + 1, Len(old))
               recent == Append(kept, time)
           IN supervisor' = [supervisor EXCEPT
                !.recent = recent,
                !.pc = IF Len(recent) >= RapidLimit THEN "gaveUp" ELSE "ready"]
    BY DEF CrashSeen
<1> DEFINE kept == SubSeq(old, n + 1, Len(old))
           recent == Append(kept, time)
<1>2. crashes \in Seq(Nat) /\ old \in Seq(Nat)
    BY DEF EndInv, EndShape
<1>3. /\ last \in Nat /\ held \in Nat /\ time \in Nat /\ n \in Nat /\ n <= held
      /\ RapidLimit \in Nat /\ RapidLimit >= 1 /\ RapidWindow \in Nat /\ RapidWindow >= 1
    BY <1>2, ServiceBounds DEF EndInv, EndShape
<1>4. /\ kept \in Seq(Nat) /\ Len(kept) = held - n
      /\ \A i \in 1 .. held - n : kept[i] = old[n + i]
    BY <1>2, RestOfList
<1>5. /\ recent \in Seq(Nat) /\ Len(recent) = held - n + 1
      /\ \A i \in 1 .. held - n : recent[i] = old[n + i]
      /\ recent[held - n + 1] = time
    BY <1>3, <1>4
<1>6. /\ supervisor'.recent = recent /\ supervisor'.child = supervisor.child
      /\ supervisor'.pc = IF Len(recent) >= RapidLimit THEN "gaveUp" ELSE "ready"
      /\ supervisor' \in [pc : SupervisorSteps, child : Procs \cup {NoProc}, recent : Seq(Nat)]
    BY <1>1, <1>5 DEF EndInv, EndShape, SupervisorSteps
<1>7. /\ crashes' = Append(crashes, time) /\ time' = time
      /\ UNCHANGED <<phase, how, marker, announced>> /\ supervisor.pc = "reaped"
    BY DEF CrashSeen, SupervisorOnly
<1>8. /\ crashes' \in Seq(Nat) /\ Len(crashes') = last + 1
      /\ \A i \in 1 .. last : crashes'[i] = crashes[i]
      /\ crashes'[last + 1] = time
    BY <1>2, <1>3, <1>7
<1>9. EndShape'
    BY <1>3, <1>6, <1>7, <1>8 DEF EndInv, EndShape
<1>10. /\ \A i \in 1 .. last : crashes[i] \in Nat /\ crashes[i] <= time
       /\ \A i, j \in 1 .. last : i <= j => crashes[i] <= crashes[j]
    BY <1>2 DEF EndInv, CrashesInOrder
<1>11. /\ last - held >= 0
       /\ \A i \in 1 .. held : old[i] = crashes[last - held + i]
       /\ \A i \in 1 .. last : i > last - held <=> crashes[last] - crashes[i] < RapidWindow
    BY DEF EndInv, ListIsWindow, DroppedCrashes
<1>12. \A i \in 1 .. held : time - old[i] < RapidWindow <=> i > n
    BY <1>1, <1>2 DEF StillRecent
<1>13. DroppedCrashes' = Len(crashes') - Len(supervisor'.recent)
    BY DEF DroppedCrashes
<1>14. GivesUpOnLoop =>
         \A i \in 1 .. last - RapidLimit + 1 :
           ~(crashes[i + RapidLimit - 1] - crashes[i] < RapidWindow)
    BY <1>7 DEF GivesUpOnLoop, InOneWindow
<1> HIDE DEF last, old, held, kept, recent
<1> DEFINE gone == last - held + n
<1>15. DroppedCrashes' = gone /\ gone \in Nat
    BY <1>3, <1>5, <1>6, <1>8, <1>11, <1>13
<1>16. CrashesInOrder'
    BY <1>3, <1>7, <1>8, <1>10 DEF CrashesInOrder
<1>17. \A i \in 1 .. last + 1 : i > gone <=> time - crashes'[i] < RapidWindow
    <2> SUFFICES ASSUME NEW i \in 1 .. last + 1
                 PROVE  i > gone <=> time - crashes'[i] < RapidWindow
        OBVIOUS
    <2>1. CASE i = last + 1
        BY <2>1, <1>3, <1>8
    <2>2. CASE i <= last /\ i > last - held
        <3> DEFINE k == i - (last - held)
        <3>1. k \in 1 .. held /\ last - held + k = i
            BY <2>2, <1>3, <1>11
        <3>2. old[k] = crashes[i] /\ (time - old[k] < RapidWindow <=> k > n)
            BY <3>1, <1>11, <1>12
        <3>3. k > n <=> i > gone
            BY <1>3
        <3>4. crashes'[i] = crashes[i]
            BY <2>2, <1>8
        <3> QED
            BY <3>2, <3>3, <3>4
    <2>3. CASE i <= last - held
        <3>1. i \in 1 .. last /\ last \in 1 .. last /\ ~(i > last - held) /\ ~(i > gone)
            BY <2>3, <1>3
        <3>2. /\ ~(crashes[last] - crashes[i] < RapidWindow) /\ crashes[last] <= time
              /\ crashes[i] \in Nat /\ crashes[last] \in Nat
            BY <3>1, <1>10, <1>11
        <3>3. ~(time - crashes[i] < RapidWindow)
            BY <3>2, <1>3
        <3> QED
            BY <3>1, <3>3, <1>8
    <2> QED
        BY <2>1, <2>2, <2>3, <1>3
<1>18. \A i \in 1 .. Len(recent) : recent[i] = crashes'[gone + i]
    <2> SUFFICES ASSUME NEW i \in 1 .. held - n + 1 PROVE recent[i] = crashes'[gone + i]
        BY <1>5
    <2>1. CASE i = held - n + 1
        <3>1. gone + i = last + 1
            BY <2>1, <1>3
        <3> QED
            BY <2>1, <3>1, <1>5, <1>8
    <2>2. CASE i \in 1 .. held - n
        <3> DEFINE k == n + i
        <3>1. k \in 1 .. held /\ last - held + k = gone + i /\ gone + i \in 1 .. last
            BY <2>2, <1>3, <1>11
        <3>2. recent[i] = old[k] /\ old[k] = crashes[last - held + k]
            BY <2>2, <3>1, <1>5, <1>11
        <3> QED
            BY <3>1, <3>2, <1>8
    <2> QED
        BY <2>1, <2>2, <1>3
<1> HIDE DEF gone
<1>19. ListIsWindow'
    BY <1>3, <1>6, <1>8, <1>15, <1>17, <1>18 DEF ListIsWindow
<1>20. GivesUpOnLoop'
    <2>1. ASSUME Len(recent) < RapidLimit, NEW i \in 1 .. last + 1 - RapidLimit + 1
          PROVE  ~(crashes'[i + RapidLimit - 1] - crashes'[i] < RapidWindow)
        <3>1. CASE i = last + 1 - RapidLimit + 1
            <4>1. i \in 1 .. last + 1 /\ i + RapidLimit - 1 = last + 1
                BY <3>1, <1>3
            <4>2. ~(i > gone)
                BY <2>1, <3>1, <1>3, <1>5 DEF gone
            <4> QED
                BY <4>1, <4>2, <1>8, <1>17
        <3>2. CASE i \in 1 .. last - RapidLimit + 1
            <4>1. i \in 1 .. last /\ i + RapidLimit - 1 \in 1 .. last
                BY <3>2, <1>3
            <4>2. ~(crashes[i + RapidLimit - 1] - crashes[i] < RapidWindow)
                BY <3>2, <1>14 DEF EndInv
            <4> QED
                BY <4>1, <4>2, <1>8
        <3> QED
            BY <3>1, <3>2, <1>3
    <2>2. supervisor'.pc = "gaveUp" <=> Len(recent) >= RapidLimit
        BY <1>6
    <2> QED
        BY <2>1, <2>2, <1>3, <1>5, <1>6, <1>8 DEF GivesUpOnLoop, InOneWindow
<1>21. MarkerIsAnnounced' /\ ChildIsGone' /\ StopExplainsEnd'
    BY <1>6, <1>7 DEF EndInv, MarkerIsAnnounced, ChildIsGone, StopExplainsEnd
<1> QED
    BY <1>9, <1>16, <1>19, <1>20, <1>21 DEF EndInv

\* One step of the service, its supervisor, a stop or the clock.
LEMMA EndInvStep == EndInv /\ [ServiceNext]_serviceVars => EndInv'
<1> SUFFICES ASSUME EndInv, [ServiceNext]_serviceVars PROVE EndInv'
    OBVIOUS
<1>1. ASSUME NEW p \in Procs, Spawn(p) PROVE EndInv'
    BY <1>1 DEF EndInv, EndShape, CrashesInOrder, ListIsWindow, DroppedCrashes, GivesUpOnLoop,
       InOneWindow, MarkerIsAnnounced, ChildIsGone, StopExplainsEnd, SupervisorSteps, Spawn, To,
       SupervisorOnly
<1>2. CASE Reap
    BY <1>2 DEF EndInv, EndShape, CrashesInOrder, ListIsWindow, DroppedCrashes, GivesUpOnLoop,
       InOneWindow, MarkerIsAnnounced, ChildIsGone, StopExplainsEnd, SupervisorSteps, Reap, To,
       SupervisorOnly
<1>3. CASE SuperviseEnds
    BY <1>3, ServiceBounds DEF EndInv, EndShape, CrashesInOrder, ListIsWindow, DroppedCrashes,
       GivesUpOnLoop, InOneWindow, MarkerIsAnnounced, ChildIsGone, StopExplainsEnd,
       SupervisorSteps, SuperviseEnds, OperatorStop, StopInProgress, SupervisorOnly
<1>4. CASE CrashSeen
    BY <1>4, CrashKeepsEnd
<1> QED
    BY <1>1, <1>2, <1>3, <1>4, BesideStep, BesideKeepsEnd DEF ServiceNext

\* The supervisor gives up exactly when RapidLimit crashes fell into one window, and
\* ends quietly only for an exit, a signal or a stop announced for that very child
\* (supervise.rs, stop.rs): for any number of processes, crashes and stop commands,
\* interrupted ones included, and any limit and window.
THEOREM EndIsExplained == ServiceSpec => []EndExplained
<1>1. EndInv => LoopBounded
    <2> SUFFICES ASSUME EndInv PROVE LoopBounded
        OBVIOUS
    <2> DEFINE last == Len(crashes)
               held == Len(supervisor.recent)
               first == last - RapidLimit + 1
    <2>1. CASE supervisor.pc /= "gaveUp"
        BY <2>1 DEF EndInv, GivesUpOnLoop, LoopBounded
    <2>2. CASE supervisor.pc = "gaveUp"
        <3>1. /\ last \in Nat /\ held \in Nat /\ held >= RapidLimit /\ last - held >= 0
              /\ \A i \in 1 .. last :
                   i > last - held => crashes[last] - crashes[i] < RapidWindow
            BY <2>2 DEF EndInv, EndShape, GivesUpOnLoop, ListIsWindow, DroppedCrashes
        <3>2. RapidLimit \in Nat /\ RapidLimit >= 1
            BY ServiceBounds
        <3> HIDE DEF last, held
        <3>3. /\ first \in 1 .. last /\ first > last - held
              /\ first + RapidLimit - 1 = last
            BY <3>1, <3>2
        <3>4. InOneWindow(first)
            BY <3>1, <3>3 DEF InOneWindow
        <3> QED
            BY <3>3, <3>4, <3>2, <3>1, <2>2 DEF LoopBounded, last
    <2> QED
        BY <2>1, <2>2
<1>2. EndInv => EndExplained
    BY <1>1 DEF EndInv, EndExplained
<1> QED
    BY EndInvInit, EndInvStep, <1>2, PTL DEF ServiceSpec

=============================================================================
