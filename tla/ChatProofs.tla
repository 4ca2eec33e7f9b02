------------------------------ MODULE ChatProofs ------------------------------
(***************************************************************************)
(* Safety of a chat for every number of updates, sessions, turns, failures *)
(* and crashes.                                                            *)
(*                                                                         *)
(* That a prompt is started once is not inductive: it depends on the order *)
(* of the queue, on what the record and the offset have seen and on which  *)
(* turn is in the slot.  ChatInv states how they agree.                    *)
(***************************************************************************)
EXTENDS ChatTurns, TLAPS, FiniteSetTheorems, SequenceTheorems,
        WellFoundedInduction

-----------------------------------------------------------------------------
(* The inductive invariant.                                                *)

\* Where the loop can be.
LoopSteps == {"recover", "requeue", "relaunch", "poll", "reply", "launch", "commit", "drain", "down"}

\* The record of a chat with m sessions.
Records(m) ==
    [seen : 0..MaxUpdates, session : 0..m, previous : Seq(1..m), task : 0..m,
     active : BOOLEAN, queue : Seq(Updates)]

ChatTypes ==
    /\ sent \in Kinds \cup {"none"} /\ offset \in 1..(MaxUpdates + 1)
    /\ made \in 0..MaxSessions
    /\ rec \in Records(made) /\ Len(rec.previous) <= MaxPrevious
    /\ ledger \in [Sessions -> {"not_long_task", "running", "paused", "completed", "failed"}]
    /\ slot \in TurnIds \cup {0} /\ turns \in [TurnIds -> Turns]
    /\ loop \in [pc : LoopSteps, turn : TurnIds \cup {0}, tries : Nat]
    /\ starts \in [Updates -> 0..1]
    /\ faults \in 0..MaxFaults /\ crashes \in 0..MaxCrashes

\* The slot and the turns; a process that has not begun to poll has none.
SlotFits ==
    /\ \A t \in TurnIds : IsRunning(t) => slot = t
    /\ slot # 0 => turns[slot].phase # "none"
    /\ loop.pc \in {"down", "recover", "requeue"} => slot = 0 /\ \A t \in TurnIds : turns[t].phase = "none"
    /\ loop.pc = "requeue" => rec.queue # <<>>
    /\ Busy => rec.session # 0
    /\ Len(rec.queue) <= FollowupCap + 1
    /\ \A t \in TurnIds : turns[t].phase = "prepared" /\ turns[t].requeue =>
           turns[t].prompt # 0 /\ Len(rec.queue) <= FollowupCap

\* The offset, the record and the failed attempts at the update in hand.
OffsetFits ==
    /\ rec.seen <= offset
    /\ sent # "none" => offset <= MaxUpdates
    /\ loop.pc \in {"reply", "launch", "commit"} => sent # "none"
    /\ loop.pc \in {"reply", "launch"} => offset <= rec.seen
    /\ loop.pc = "commit" => sent = "denied" \/ offset <= rec.seen \/ faults >= MaxAttempts
    /\ loop.tries <= faults

\* What waits was never started, in the order of the updates and behind the
\* turn in hand; what was started has been seen.
PromptsFit ==
    /\ \A i \in 1..Len(rec.queue) : rec.queue[i] <= rec.seen /\ starts[rec.queue[i]] = 0
    /\ \A i, j \in 1..Len(rec.queue) : i < j => rec.queue[i] < rec.queue[j]
    /\ \A t \in TurnIds :
          /\ turns[t].prompt <= rec.seen
          /\ turns[t].phase = "none" => turns[t].prompt = 0
          /\ turns[t].prompt # 0 =>
                IF turns[t].phase = "prepared"
                THEN /\ starts[turns[t].prompt] = 0
                     /\ \A i \in 1..Len(rec.queue) : turns[t].prompt < rec.queue[i]
                ELSE starts[turns[t].prompt] = 1
    /\ \A u \in Updates : starts[u] # 0 => u <= rec.seen
\* All of it.
ChatInv == ChatTypes /\ SlotFits /\ OffsetFits /\ PromptsFit

-----------------------------------------------------------------------------
(* Sequences and saves.                                                    *)

\* A set of naturals has a least element.
LEMMA LeastNatural ==
    ASSUME NEW S \in SUBSET Nat, S # {}
    PROVE  \E n \in S : \A m \in S : n <= m
<1>1. PICK n \in S : \A m \in S : ~(<<m, n>> \in OpToRel(<, Nat))
  BY NatLessThanWellFounded, WFMin
<1>2. \A m \in S : ~(m < n)  BY <1>1 DEF OpToRel
<1> QED  BY <1>2

\* A list without one of its entries is a list of the same kind.
LEMMA WithoutKeepsType ==
    ASSUME NEW S, NEW q \in Seq(S), NEW x
    PROVE  Without(q, x) \in Seq(S)
<1> DEFINE Longer(e, before) == IF e = x THEN before ELSE Append(before, e)
           Entry(f, i) == IF i = 0 THEN <<>> ELSE Longer(q[i], f[i - 1])
           Fits(f, n) == f = [i \in 0..n |-> Entry(f, i)]
           Good(n) == \E f \in [0..n -> Seq(S)] : Fits(f, n)
           Bad == {n \in 0..Len(q) : ~Good(n)}
<1>1. \A e \in S, before \in Seq(S) : Longer(e, before) \in Seq(S)
  OBVIOUS
<1>2. Len(q) \in Nat /\ \A i \in 1..Len(q) : q[i] \in S
  OBVIOUS
<1> HIDE DEF Longer
<1>3. Good(0)
  <2>1. [i \in 0..0 |-> <<>>] \in [0..0 -> Seq(S)]  OBVIOUS
  <2>2. Fits([i \in 0..0 |-> <<>>], 0)  OBVIOUS
  <2> QED  BY <2>1, <2>2
<1>4. ASSUME NEW n \in 1..Len(q), Good(n - 1)  PROVE Good(n)
  <2>1. n \in Nat /\ n - 1 \in Nat  BY <1>2
  <2>2. PICK g \in [0..(n - 1) -> Seq(S)] : Fits(g, n - 1)
    BY <1>4
  <2> DEFINE f == [i \in 0..n |-> IF i = n THEN Longer(q[n], g[n - 1]) ELSE g[i]]
  <2>3. q[n] \in S /\ g[n - 1] \in Seq(S)  BY <1>2, <2>1, <2>2
  <2>4. Longer(q[n], g[n - 1]) \in Seq(S)  BY <2>3, <1>1
  <2>5. f \in [0..n -> Seq(S)]  BY <2>1, <2>4
  <2>6. \A i \in 0..(n - 1) : g[i] = Entry(g, i)
    BY <2>2
  <2>7. ASSUME NEW i \in 0..n  PROVE f[i] = Entry(f, i)
    <3>1. CASE i = 0
      BY <2>1, <2>6, <3>1
    <3>2. CASE i \in 1..(n - 1)
      <4>1. /\ i # 0 /\ i # n /\ i - 1 # n /\ i - 1 \in 0..n /\ i \in 0..(n - 1)
        BY <2>1, <3>2
      <4>2. f[i] = g[i] /\ f[i - 1] = g[i - 1]  BY <4>1
      <4> HIDE DEF f
      <4> QED  BY <4>1, <4>2, <2>6
    <3>3. CASE i = n
      <4>1. n # 0 /\ n - 1 # n /\ n - 1 \in 0..n  BY <2>1
      <4>2. f[n] = Longer(q[n], g[n - 1]) /\ f[n - 1] = g[n - 1]  BY <2>1, <4>1
      <4> HIDE DEF f
      <4> QED  BY <4>1, <4>2, <3>3
    <3> QED  BY <2>1, <3>1, <3>2, <3>3
  <2>8. Fits(f, n)  BY <2>7 DEF f
  <2> HIDE DEF f
  <2> QED  BY <2>5, <2>8
<1> HIDE DEF Good
<1>5. Bad = {}
  <2> SUFFICES ASSUME Bad # {} PROVE FALSE  OBVIOUS
  <2>1. Bad \in SUBSET Nat  OBVIOUS
  <2>2. PICK n \in Bad : \A m \in Bad : n <= m
    <3> HIDE DEF Bad
    <3> QED  BY <2>1, LeastNatural
  <2>3. n \in 0..Len(q) /\ ~Good(n)  OBVIOUS
  <2>4. n # 0  BY <1>3, <2>3
  <2>5. n - 1 \in 0..Len(q) /\ n \in 1..Len(q) /\ ~(n <= n - 1)  BY <1>2, <2>3, <2>4
  <2>6. Good(n - 1)  BY <2>2, <2>5
  <2> QED  BY <1>4, <2>3, <2>5, <2>6
<1> DEFINE kept == CHOOSE f : Fits(f, Len(q))
<1>6. Fits(kept, Len(q))
  <2>1. Good(Len(q))  BY <1>2, <1>5
  <2>2. \E f : Fits(f, Len(q))  BY <2>1 DEF Good
  <2> QED  BY <2>2
<1>7. Without(q, x) = kept[Len(q)]
  BY DEF Without, Longer
<1> HIDE DEF kept
<1>8. \A i \in 0..Len(q) : kept[i] = Entry(kept, i)
  BY <1>6
<1> DEFINE Odd == {i \in 0..Len(q) : kept[i] \notin Seq(S)}
<1>9. Odd = {}
  <2> SUFFICES ASSUME Odd # {} PROVE FALSE  OBVIOUS
  <2>1. Odd \in SUBSET Nat  OBVIOUS
  <2>2. PICK n \in Odd : \A m \in Odd : n <= m
    <3> HIDE DEF Odd
    <3> QED  BY <2>1, LeastNatural
  <2>3. n \in 0..Len(q) /\ kept[n] \notin Seq(S)  OBVIOUS
  <2>4. n # 0
    <3>1. <<>> \in Seq(S)  OBVIOUS
    <3> QED  BY <1>8, <2>3, <3>1
  <2>5. n - 1 \in 0..Len(q) /\ n \in 1..Len(q) /\ ~(n <= n - 1)  BY <1>2, <2>3, <2>4
  <2>6. kept[n - 1] \in Seq(S)  BY <2>2, <2>5
  <2>7. Longer(q[n], kept[n - 1]) \in Seq(S)  BY <1>1, <1>2, <2>5, <2>6
  <2> QED  BY <1>8, <2>3, <2>4, <2>7
<1> QED  BY <1>2, <1>7, <1>9
\* Each failed save or message counts once.
LEMMA SpendCounts ==
    ASSUME NEW os \in Seq(Outcomes), faults \in Nat, MaxFaults \in Nat, Spend(os)
    PROVE  /\ faults' \in 0..MaxFaults /\ faults' >= faults
           /\ (\A i \in 1..Len(os) : os[i] = "ok") => faults' = faults
           /\ (\E i \in 1..Len(os) : os[i] # "ok") => faults' >= faults + 1
<1> DEFINE bad == {i \in DOMAIN os : os[i] # "ok"}
<1>1. DOMAIN os = 1..Len(os) /\ Len(os) \in Nat  OBVIOUS
<1>2. IsFiniteSet(bad)
  <2>1. IsFiniteSet(1..Len(os))  BY <1>1, FS_Interval
  <2>2. bad \subseteq 1..Len(os)  BY <1>1
  <2> QED  BY <2>1, <2>2, FS_Subset
<1>3. Cardinality(bad) \in Nat  BY <1>2, FS_CardinalityType
<1>4. faults' = faults + Cardinality(bad) /\ faults' <= MaxFaults
  BY DEF Spend, Faulted
<1>5. Cardinality(bad) = 0 <=> bad = {}  BY <1>2, FS_EmptySet
<1> QED  BY <1>1, <1>3, <1>4, <1>5

\* The outcomes of one save and of two.
LEMMA SpendOne ==
    ASSUME NEW o \in Outcomes, faults \in Nat, MaxFaults \in Nat, Spend(<<o>>)
    PROVE  /\ faults' \in 0..MaxFaults /\ faults' >= faults
           /\ o = "ok" => faults' = faults
           /\ o # "ok" => faults' >= faults + 1
<1> DEFINE os == <<o>>
<1>1. os \in Seq(Outcomes) /\ Len(os) = 1 /\ os[1] = o  OBVIOUS
<1>2. Spend(os)  OBVIOUS
<1> HIDE DEF os
<1>3. 1 \in 1..Len(os) /\ \A i \in 1..Len(os) : os[i] = o  BY <1>1
<1> QED  BY <1>1, <1>2, <1>3, SpendCounts

\* A step with two saves costs at least the failures among them.
LEMMA SpendTwo ==
    ASSUME NEW o \in Outcomes, NEW p \in Outcomes, faults \in Nat, MaxFaults \in Nat,
           Spend(<<o, p>>)
    PROVE  /\ faults' \in 0..MaxFaults /\ faults' >= faults
           /\ o # "ok" \/ p # "ok" => faults' >= faults + 1
<1> DEFINE os == <<o, p>>
<1>1. os \in Seq(Outcomes) /\ Len(os) = 2 /\ os[1] = o /\ os[2] = p  OBVIOUS
<1>2. Spend(os)  OBVIOUS
<1> HIDE DEF os
<1>3. 1 \in 1..Len(os) /\ 2 \in 1..Len(os)  BY <1>1
<1> QED  BY <1>1, <1>2, <1>3, SpendCounts

-----------------------------------------------------------------------------
(* The operations of the record.                                           *)

\* A record stays one when sessions are added.
LEMMA RecordsGrow ==
    ASSUME NEW m \in Nat, NEW n \in Nat, m <= n, NEW r \in Records(m)
    PROVE  r \in Records(n)
<1>1. r.previous \in Seq(1..n)
  <2>1. r.previous \in Seq(1..m)  BY DEF Records
  <2>2. 1..m \subseteq 1..n  OBVIOUS
  <2>3. \A i \in 1..Len(r.previous) : r.previous[i] \in 1..n  BY <2>1, <2>2
  <2> QED  BY <2>1, <2>3
<1> QED  BY <1>1 DEF Records

\* q differs from r in what it says of the turn and the task only.
SameBook(r, q) ==
    /\ q.seen = r.seen /\ q.session = r.session /\ q.previous = r.previous
    /\ q.queue = r.queue

\* A record with one field set; nothing else changes then.
WithSeen(r, x) == [r EXCEPT !.seen = x]
WithSession(r, x) == [r EXCEPT !.session = x]
WithPrevious(r, x) == [r EXCEPT !.previous = x]
WithTask(r, x) == [r EXCEPT !.task = x]
WithQueue(r, x) == [r EXCEPT !.queue = x]
Marked(r) == [r EXCEPT !.active = TRUE]

\* The field seen.
LEMMA EditSeen ==
    ASSUME NEW m, NEW r \in Records(m), NEW x \in 0..MaxUpdates
    PROVE  LET q == WithSeen(r, x)
           IN  /\ q \in Records(m) /\ q.seen = x /\ q.session = r.session
               /\ q.previous = r.previous /\ q.task = r.task /\ q.active = r.active /\ q.queue = r.queue
  BY DEF Records, WithSeen

\* The field session.
LEMMA EditSession ==
    ASSUME NEW m, NEW r \in Records(m), NEW x \in 0..m
    PROVE  LET q == WithSession(r, x)
           IN  /\ q \in Records(m) /\ q.seen = r.seen /\ q.session = x
               /\ q.previous = r.previous /\ q.task = r.task /\ q.active = r.active /\ q.queue = r.queue
  BY DEF Records, WithSession

\* The field previous.
LEMMA EditPrevious ==
    ASSUME NEW m, NEW r \in Records(m), NEW x \in Seq(1..m)
    PROVE  LET q == WithPrevious(r, x)
           IN  /\ q \in Records(m) /\ q.seen = r.seen /\ q.session = r.session
               /\ q.previous = x /\ q.task = r.task /\ q.active = r.active /\ q.queue = r.queue
  BY DEF Records, WithPrevious

\* The field task.
LEMMA EditTask ==
    ASSUME NEW m, NEW r \in Records(m), NEW x \in 0..m
    PROVE  LET q == WithTask(r, x)
           IN  /\ q \in Records(m) /\ q.seen = r.seen /\ q.session = r.session
               /\ q.previous = r.previous /\ q.task = x /\ q.active = r.active /\ q.queue = r.queue
  BY DEF Records, WithTask

\* The field queue.
LEMMA EditQueue ==
    ASSUME NEW m, NEW r \in Records(m), NEW x \in Seq(Updates)
    PROVE  LET q == WithQueue(r, x)
           IN  /\ q \in Records(m) /\ q.seen = r.seen /\ q.session = r.session
               /\ q.previous = r.previous /\ q.task = r.task /\ q.active = r.active /\ q.queue = x
  BY DEF Records, WithQueue

\* The marker is cleared.
LEMMA EditClear ==
    ASSUME NEW m, NEW r \in Records(m)
    PROVE  LET q == ClearTurn(r)
           IN  /\ q \in Records(m) /\ q.seen = r.seen /\ q.session = r.session
               /\ q.previous = r.previous /\ q.task = r.task /\ q.active = FALSE /\ q.queue = r.queue
  BY DEF Records, ClearTurn

\* The marker is set.
LEMMA EditMark ==
    ASSUME NEW m, NEW r \in Records(m)
    PROVE  LET q == Marked(r)
           IN  /\ q \in Records(m) /\ q.seen = r.seen /\ q.session = r.session
               /\ q.previous = r.previous /\ q.task = r.task /\ q.active = TRUE /\ q.queue = r.queue
  BY DEF Records, Marked

\* Settling a turn or a task changes nothing else.
LEMMA ClearedRecord ==
    ASSUME NEW m \in Nat, NEW r \in Records(m), NEW s
    PROVE  \A q \in {r, ClearTurn(r), ClearTask(ClearTurn(r)), ClearTaskOf(ClearTurn(r), s),
                     ClearTurn(ClearTaskOf(r, s)), [r EXCEPT !.active = TRUE]} :
               q \in Records(m) /\ SameBook(r, q)
<1> DEFINE Edit(q) == q \in Records(m) /\ SameBook(r, q) /\ q.task \in {r.task, 0}
<1>1. ASSUME NEW x \in Records(m), SameBook(r, x), x.task \in {r.task, 0}
      PROVE  Edit(x) /\ Edit(ClearTurn(x)) /\ Edit(ClearTask(x)) /\ Edit([x EXCEPT !.active = TRUE])
  <2>1. 0 \in 0..m  OBVIOUS
  <2>2. /\ ClearTask(x) = WithTask(x, 0) /\ [x EXCEPT !.active = TRUE] = Marked(x)
    BY DEF ClearTask, Marked, WithTask
  <2>3. Edit(ClearTurn(x))
    <3>1. LET y == ClearTurn(x)
          IN  /\ y \in Records(m) /\ y.seen = x.seen /\ y.session = x.session
              /\ y.previous = x.previous /\ y.task = x.task /\ y.queue = x.queue
      BY <2>1, EditClear
    <3> QED  BY <1>1, <3>1 DEF SameBook
  <2>4. Edit(Marked(x))
    <3>1. LET y == Marked(x)
          IN  /\ y \in Records(m) /\ y.seen = x.seen /\ y.session = x.session
              /\ y.previous = x.previous /\ y.task = x.task /\ y.queue = x.queue
      BY <2>1, EditMark
    <3> QED  BY <1>1, <3>1 DEF SameBook
  <2>5. Edit(WithTask(x, 0))  BY <1>1, <2>1, EditTask DEF SameBook
  <2> HIDE DEF Edit
  <2> QED  BY <1>1, <2>2, <2>3, <2>4, <2>5 DEF Edit
<1>2. Edit(r)  BY DEF SameBook
<1>3. ASSUME NEW x \in Records(m), Edit(x)  PROVE Edit(ClearTaskOf(x, s))
  BY <1>1, <1>3 DEF ClearTaskOf
<1>4. Edit(ClearTurn(r)) /\ Edit(ClearTask(ClearTurn(r))) /\ Edit([r EXCEPT !.active = TRUE])
  BY <1>1, <1>2
<1>5. Edit(ClearTaskOf(ClearTurn(r), s))  BY <1>3, <1>4
<1>6. Edit(ClearTurn(ClearTaskOf(r, s)))  BY <1>1, <1>2, <1>3
<1> HIDE DEF Edit
<1>7. \A q \in {r, ClearTurn(r), ClearTask(ClearTurn(r)), ClearTaskOf(ClearTurn(r), s),
                 ClearTurn(ClearTaskOf(r, s)), [r EXCEPT !.active = TRUE]} : Edit(q)
  BY <1>2, <1>4, <1>5, <1>6
<1> QED  BY <1>7 DEF Edit

\* A bounded list.
LEMMA BoundedList ==
    ASSUME NEW S, NEW q \in Seq(S), MaxPrevious \in Nat
    PROVE  Bounded(q) \in Seq(S) /\ Len(Bounded(q)) <= MaxPrevious
  BY DEF Bounded

\* What /new and /resume make of the sessions.
LEMMA SessionOps ==
    ASSUME NEW m \in Nat, NEW r \in Records(m), Len(r.previous) <= MaxPrevious,
           MaxPrevious \in Nat \ {0}
    PROVE  /\ LET q == ClearTask([RememberCurrent(r) EXCEPT !.session = m + 1])
              IN  /\ q \in Records(m + 1) /\ Len(q.previous) <= MaxPrevious
                  /\ q.seen = r.seen /\ q.active = r.active /\ q.queue = r.queue
                  /\ q.session # 0
           /\ r.previous # <<>> =>
                  LET q == SwapPrevious(r)
                  IN  /\ q \in Records(m) /\ Len(q.previous) <= MaxPrevious
                      /\ q.seen = r.seen /\ q.active = r.active /\ q.queue = r.queue
                      /\ q.session # 0
<1>0. r.previous \in Seq(1..m) /\ r.session \in 0..m  BY DEF Records
<1>1. RememberCurrent(r) \in Records(m) /\ Len(RememberCurrent(r).previous) <= MaxPrevious
      /\ RememberCurrent(r).seen = r.seen /\ RememberCurrent(r).active = r.active
      /\ RememberCurrent(r).queue = r.queue
  <2>1. CASE r.session = 0
    BY <2>1 DEF RememberCurrent
  <2>2. CASE r.session # 0
    <3> DEFINE w == Without(r.previous, r.session)
               list == Bounded(<<r.session>> \o w)
    <3>1. w \in Seq(1..m)  BY <1>0, WithoutKeepsType
    <3>2. <<r.session>> \in Seq(1..m)  BY <1>0, <2>2
    <3> HIDE DEF w
    <3>3. <<r.session>> \o w \in Seq(1..m)  BY <3>1, <3>2
    <3>4. list \in Seq(1..m) /\ Len(list) <= MaxPrevious  BY <3>3, BoundedList
    <3>5. RememberCurrent(r) = [r EXCEPT !.previous = list]
      BY <2>2 DEF RememberCurrent, w
    <3> HIDE DEF list
    <3> QED  BY <3>4, <3>5 DEF Records
  <2> QED  BY <2>1, <2>2
<1>3. RememberCurrent(r) \in Records(m + 1)  BY <1>1, RecordsGrow
<1>4. ASSUME r.previous # <<>>
      PROVE  LET q == SwapPrevious(r)
             IN  /\ q \in Records(m) /\ Len(q.previous) <= MaxPrevious
                 /\ q.seen = r.seen /\ q.active = r.active /\ q.queue = r.queue
                 /\ q.session # 0
  <2> DEFINE p == r.previous
             list == IF r.session = 0 THEN Tail(p) ELSE Bounded(<<r.session>> \o Tail(p))
             q == SwapPrevious(r)
  <2>0. p \in Seq(1..m) /\ p # <<>> /\ Len(p) <= MaxPrevious  BY <1>0, <1>4
  <2> HIDE DEF p
  <2>1. /\ Head(p) \in 1..m /\ Tail(p) \in Seq(1..m)
        /\ Len(Tail(p)) = Len(p) - 1 /\ Len(p) \in Nat
    BY <2>0
  <2>2. list \in Seq(1..m) /\ Len(list) <= MaxPrevious
    <3>1. CASE r.session = 0
      BY <2>0, <2>1, <3>1
    <3>2. CASE r.session # 0
      <4>1. <<r.session>> \o Tail(p) \in Seq(1..m)  BY <1>0, <2>1, <3>2
      <4> QED  BY <4>1, <3>2, BoundedList
    <3> QED  BY <3>1, <3>2
  <2>3. q = WithPrevious(WithSession(r, Head(p)), list)
    BY DEF SwapPrevious, p, WithPrevious, WithSession, Records
  <2> HIDE DEF list, q
  <2>4. /\ q \in Records(m) /\ q.previous = list /\ q.session = Head(p)
        /\ q.seen = r.seen /\ q.active = r.active /\ q.queue = r.queue
    <3> DEFINE x == WithSession(r, Head(p))
    <3>1. Head(p) \in 0..m  BY <2>1
    <3>2. /\ x \in Records(m) /\ x.seen = r.seen /\ x.session = Head(p)
          /\ x.queue = r.queue /\ x.active = r.active
      BY <3>1, EditSession
    <3>3. q = WithPrevious(x, list)  BY <2>3
    <3> HIDE DEF x
    <3>4. WithPrevious(x, list) \in Records(m) /\ WithPrevious(x, list).previous = list
      BY <2>2, <3>2, EditPrevious
    <3>5. LET y == WithPrevious(x, list)
          IN  y.seen = x.seen /\ y.session = x.session /\ y.queue = x.queue /\ y.active = x.active
      BY <2>2, <3>2, EditPrevious
    <3> QED  BY <3>2, <3>3, <3>4, <3>5
  <2>5. q.session # 0 /\ Len(q.previous) <= MaxPrevious  BY <2>1, <2>2, <2>4
  <2> QED  BY <2>4, <2>5 DEF q
<1> DEFINE q == ClearTask([RememberCurrent(r) EXCEPT !.session = m + 1])
<1>5. /\ q \in Records(m + 1) /\ Len(q.previous) <= MaxPrevious
      /\ q.seen = r.seen /\ q.active = r.active /\ q.queue = r.queue /\ q.session # 0
  <2>1. m + 1 \in 0..(m + 1) /\ 0 \in 0..(m + 1) /\ m + 1 # 0  OBVIOUS
  <2> DEFINE x == WithSession(RememberCurrent(r), m + 1)
  <2>2. /\ x \in Records(m + 1) /\ x.seen = r.seen /\ x.session = m + 1 /\ x.queue = r.queue
        /\ x.previous = RememberCurrent(r).previous /\ x.active = r.active
    BY <1>1, <1>3, <2>1, EditSession
  <2>3. q = WithTask(x, 0)  BY DEF ClearTask, WithTask, WithSession
  <2> HIDE DEF x
  <2>4. LET y == WithTask(x, 0)
        IN  /\ y \in Records(m + 1) /\ y.seen = x.seen /\ y.session = x.session
            /\ y.queue = x.queue /\ y.active = x.active /\ y.previous = x.previous
    BY <2>1, <2>2, EditTask
  <2> QED  BY <1>1, <2>1, <2>2, <2>3, <2>4
<1> HIDE DEF q
<1> QED  BY <1>4, <1>5 DEF q

-----------------------------------------------------------------------------
(* What each kind of step does to the record, the slot and the turns.      *)

\* The types of the parts of the state.
LEMMA Typed ==
    ASSUME ChatTypes
    PROVE  /\ MaxUpdates \in Nat \ {0} /\ MaxSessions \in Nat \ {0} /\ FollowupCap \in Nat \ {0}
           /\ MaxPrevious \in Nat \ {0} /\ MaxAttempts \in Nat \ {0}
           /\ MaxFaults \in Nat /\ faults \in Nat /\ made \in Nat
           /\ 0 \notin TurnIds /\ offset \in Nat
           /\ rec.seen \in 0..MaxUpdates /\ rec.session \in 0..made /\ rec.task \in 0..made
           /\ rec.queue \in Seq(Updates) /\ Len(rec.queue) \in Nat /\ rec.active \in BOOLEAN
           /\ \A t \in TurnIds : turns[t].prompt \in 0..MaxUpdates
           /\ loop.pc \in LoopSteps /\ loop.tries \in Nat
<1>1. /\ MaxUpdates \in Nat \ {0} /\ MaxSessions \in Nat \ {0} /\ FollowupCap \in Nat \ {0}
      /\ MaxPrevious \in Nat \ {0} /\ MaxAttempts \in Nat \ {0} /\ MaxFaults \in Nat
      /\ 0 \notin TurnIds
  BY ChatAssumption
<1>2. faults \in Nat /\ made \in Nat /\ offset \in Nat  BY <1>1 DEF ChatTypes
<1>3. /\ rec.seen \in 0..MaxUpdates /\ rec.session \in 0..made /\ rec.task \in 0..made
      /\ rec.queue \in Seq(Updates) /\ Len(rec.queue) \in Nat /\ rec.active \in BOOLEAN
  BY DEF ChatTypes, Records
<1>4. \A t \in TurnIds : turns[t].prompt \in 0..MaxUpdates  BY DEF ChatTypes, Turns
<1>5. loop.pc \in LoopSteps /\ loop.tries \in Nat  BY DEF ChatTypes
<1> QED  BY <1>1, <1>2, <1>3, <1>4, <1>5

\* The states of the loop.
Loops == [pc : LoopSteps, turn : TurnIds \cup {0}, tries : Nat]

\* A failed attempt is counted, or the update is given up.
LEMMA FailedLoop ==
    ASSUME ChatTypes, OffsetFits, NEW n \in Nat, n >= faults + 1
    PROVE  /\ HandlingFailed \in Loops /\ HandlingFailed.pc \in {"poll", "commit"}
           /\ HandlingFailed.pc = "commit" => n >= MaxAttempts
           /\ HandlingFailed.tries <= n
<1>1. loop.tries \in Nat /\ faults \in Nat /\ MaxAttempts \in Nat /\ loop.tries <= faults
  BY Typed DEF OffsetFits
<1>2. loop.tries + 1 \in Nat /\ loop.tries + 1 <= n /\ 0 <= n  BY <1>1
<1>3. CASE loop.tries + 1 < MaxAttempts
  <2>1. HandlingFailed = [pc |-> "poll", turn |-> 0, tries |-> loop.tries + 1]
    BY <1>3 DEF HandlingFailed
  <2> QED  BY <1>2, <2>1 DEF Loops, LoopSteps
<1>4. CASE ~(loop.tries + 1 < MaxAttempts)
  <2>1. HandlingFailed = [pc |-> "commit", turn |-> 0, tries |-> 0]
    BY <1>4 DEF HandlingFailed
  <2>2. n >= MaxAttempts  BY <1>1, <1>2, <1>4
  <2> QED  BY <1>2, <2>1, <2>2 DEF Loops, LoopSteps
<1> QED  BY <1>3, <1>4

\* Going to another step keeps the count.
LEMMA GotoLoop ==
    ASSUME ChatTypes, NEW pc \in LoopSteps
    PROVE  /\ Goto(pc) \in Loops /\ Goto(pc).pc = pc /\ Goto(pc).tries = loop.tries
           /\ \A t \in TurnIds : LET l == [loop EXCEPT !.pc = pc, !.turn = t]
                                 IN  l \in Loops /\ l.pc = pc /\ l.tries = loop.tries
  BY DEF Goto, Loops, ChatTypes

\* One turn is replaced.
LEMMA TurnSet ==
    ASSUME turns \in [TurnIds -> Turns], NEW t \in TurnIds, NEW x \in Turns,
           NEW f, f = [turns EXCEPT ![t] = x]
    PROVE  f \in [TurnIds -> Turns] /\ f[t] = x /\ \A u \in TurnIds \ {t} : f[u] = turns[u]
  OBVIOUS

\* A turn is asked to stop; nothing else of it changes.
LEMMA TurnCancelled ==
    ASSUME turns \in [TurnIds -> Turns], NEW t \in TurnIds, NEW b \in BOOLEAN,
           NEW f, f = [turns EXCEPT ![t].cancelled = b]
    PROVE  /\ f \in [TurnIds -> Turns]
           /\ \A u \in TurnIds : f[u].phase = turns[u].phase /\ f[u].prompt = turns[u].prompt
                                 /\ f[u].requeue = turns[u].requeue
<1>1. turns[t] \in Turns /\ [turns[t] EXCEPT !.cancelled = b] \in Turns  BY DEF Turns
<1>2. f[t] = [turns[t] EXCEPT !.cancelled = b] /\ \A u \in TurnIds \ {t} : f[u] = turns[u]
  OBVIOUS
<1>3. f \in [TurnIds -> Turns]  BY <1>1
<1>4. /\ f[t].phase = turns[t].phase /\ f[t].prompt = turns[t].prompt
      /\ f[t].requeue = turns[t].requeue
  BY <1>1, <1>2 DEF Turns
<1> QED  BY <1>2, <1>3, <1>4

\* A turn goes on to another phase.
LEMMA TurnPhase ==
    ASSUME turns \in [TurnIds -> Turns], NEW t \in TurnIds,
           NEW p \in {"running", "settled", "paused", "reported"},
           turns' = [turns EXCEPT ![t].phase = p]
    PROVE  /\ turns' \in [TurnIds -> Turns] /\ turns'[t].phase = p
           /\ turns'[t].prompt = turns[t].prompt
           /\ \A u \in TurnIds \ {t} : turns'[u] = turns[u]
<1> DEFINE x == [turns[t] EXCEPT !.phase = p]
<1>1. turns[t] \in Turns  OBVIOUS
<1>2. x \in Turns /\ x.phase = p /\ x.prompt = turns[t].prompt  BY <1>1 DEF Turns
<1>3. turns' = [turns EXCEPT ![t] = x]  OBVIOUS
<1> HIDE DEF x
<1> QED  BY <1>2, <1>3

\* A turn settles.
LEMMA TurnSettles ==
    ASSUME turns \in [TurnIds -> Turns], NEW t \in TurnIds,
           NEW out \in {"ok", "err", "paused"},
           turns' = [turns EXCEPT ![t].phase = "settled", ![t].outcome = out]
    PROVE  /\ turns' \in [TurnIds -> Turns] /\ turns'[t].phase = "settled"
           /\ turns'[t].prompt = turns[t].prompt
           /\ \A u \in TurnIds \ {t} : turns'[u] = turns[u]
<1> DEFINE x == [turns[t] EXCEPT !.phase = "settled", !.outcome = out]
<1>1. turns[t] \in Turns  OBVIOUS
<1>2. x \in Turns /\ x.phase = "settled" /\ x.prompt = turns[t].prompt  BY <1>1 DEF Turns
<1>3. turns' = [turns EXCEPT ![t] = x]  OBVIOUS
<1> HIDE DEF x
<1> QED  BY <1>2, <1>3

\* A turn that is prepared, and none.
LEMMA PreparedTurn ==
    ASSUME ChatTypes, NEW p \in 0..MaxUpdates, NEW s \in 0..MaxSessions, NEW long \in BOOLEAN,
           NEW requeue \in BOOLEAN, NEW looped \in BOOLEAN
    PROVE  LET x == Prepared(p, s, long, requeue, looped)
           IN  /\ x \in Turns /\ x.phase = "prepared" /\ x.prompt = p /\ x.requeue = requeue
               /\ x.cancelled = FALSE
               /\ NoTurn \in Turns /\ NoTurn.phase = "none" /\ NoTurn.prompt = 0
<1>1. 0 \in 0..MaxUpdates /\ 0 \in 0..MaxSessions  BY Typed
<1> QED  BY <1>1 DEF Prepared, NoTurn, Turns

-----------------------------------------------------------------------------
(* Steps that leave the invariant's parts alone.                           *)

\* No turn moves, though one may be asked to stop.
SameTurns ==
    /\ turns' \in [TurnIds -> Turns]
    /\ \A t \in TurnIds : /\ turns'[t].phase = turns[t].phase
                          /\ turns'[t].prompt = turns[t].prompt
                          /\ turns'[t].requeue = turns[t].requeue

\* A turn t is as it was, has gone on, or is no more.
TurnGoesOn(t) ==
    \/ turns'[t].phase = "none" /\ turns'[t].prompt = 0
    \/ /\ turns'[t].prompt = turns[t].prompt
       /\ \/ turns'[t].phase = turns[t].phase
          \/ turns[t].phase \notin {"none", "prepared"} /\ turns'[t].phase \notin {"none", "prepared"}

\* A turn t has been made ready, with a prompt that comes before all that wait.
TurnReady(t) ==
    /\ turns'[t].phase = "prepared" /\ turns'[t].prompt <= rec'.seen
    /\ turns'[t].prompt # 0 =>
           /\ starts'[turns'[t].prompt] = 0
           /\ \A i \in 1..Len(rec'.queue) : turns'[t].prompt < rec'.queue[i]

\* Prompts stay in order while none is accepted, started or returned.
LEMMA PromptsQuiet ==
    ASSUME ChatTypes, PromptsFit, starts' = starts, rec'.seen \in Nat, rec'.seen >= rec.seen,
           \/ rec'.queue = rec.queue \/ rec'.queue = <<>>
           \/ rec.queue # <<>> /\ rec'.queue = Tail(rec.queue),
           \A t \in TurnIds : TurnGoesOn(t) \/ TurnReady(t)
    PROVE  PromptsFit'
<1> DEFINE q == rec.queue
           r == rec'.queue
<1>0. q \in Seq(Updates) /\ rec.seen \in Nat /\ Updates \subseteq Nat
  BY Typed DEF Updates
<1>1. \E d \in {0, 1} : /\ \A i \in 1..Len(r) : i + d \in 1..Len(q) /\ r[i] = q[i + d]
                        /\ Len(r) \in Nat
  <2>1. CASE r = q
    <3>1. \A i \in 1..Len(r) : i + 0 \in 1..Len(q) /\ r[i] = q[i + 0]  BY <1>0, <2>1
    <3> QED  BY <1>0, <2>1, <3>1
  <2>2. CASE r = <<>>
    <3>1. 1..Len(r) = {} /\ Len(r) = 0  BY <2>2
    <3> QED  BY <3>1
  <2>3. CASE q # <<>> /\ r = Tail(q)
    <3> HIDE DEF q, r
    <3>1. Len(r) = Len(q) - 1 /\ Len(q) \in Nat /\ Len(q) # 0
      BY <1>0, <2>3
    <3>2. \A i \in 1..Len(r) : i + 1 \in 1..Len(q) /\ r[i] = q[i + 1]
      BY <1>0, <2>3, <3>1
    <3>3. Len(r) \in Nat  BY <3>1
    <3> QED  BY <3>2, <3>3
  <2> QED  BY <2>1, <2>2, <2>3
<1>2. PICK d \in {0, 1} : /\ \A i \in 1..Len(r) : i + d \in 1..Len(q) /\ r[i] = q[i + d]
                          /\ Len(r) \in Nat
  BY <1>1
<1>3. ASSUME NEW i \in 1..Len(r)
      PROVE  r[i] <= rec'.seen /\ starts'[r[i]] = 0
  <2>1. PICK k \in 1..Len(q) : r[i] = q[k]  BY <1>2, <1>3
  <2>2. q[k] \in Updates  BY <1>0, <2>1
  <2>3. q[k] \in Nat /\ q[k] <= rec.seen /\ starts[q[k]] = 0
    BY <1>0, <2>1, <2>2 DEF PromptsFit
  <2> HIDE DEF q, r
  <2> QED  BY <1>0, <2>1, <2>3
<1>4. ASSUME NEW i \in 1..Len(r), NEW j \in 1..Len(r), i < j
      PROVE  r[i] < r[j]
  <2>1. i + d < j + d  BY <1>2, <1>4
  <2> QED  BY <1>2, <1>4, <2>1 DEF PromptsFit
<1>5. ASSUME NEW t \in TurnIds
      PROVE  /\ turns'[t].prompt <= rec'.seen
             /\ turns'[t].phase = "none" => turns'[t].prompt = 0
             /\ turns'[t].prompt # 0 =>
                   IF turns'[t].phase = "prepared"
                   THEN /\ starts'[turns'[t].prompt] = 0
                        /\ \A i \in 1..Len(r) : turns'[t].prompt < r[i]
                   ELSE starts'[turns'[t].prompt] = 1
  <2>1. turns[t].prompt \in Nat /\ turns[t].prompt <= rec.seen
    BY SMTT(30), Typed DEF PromptsFit
  <2>2. CASE turns'[t].phase = "none" /\ turns'[t].prompt = 0
    BY <2>2
  <2>3. CASE turns'[t].prompt = turns[t].prompt
    <3>1. turns'[t].prompt <= rec'.seen  BY <1>0, <2>1, <2>3
    <3>2. CASE turns'[t].phase = turns[t].phase
      BY <1>2, <2>3, <3>1, <3>2 DEF PromptsFit
    <3>3. CASE turns[t].phase \notin {"none", "prepared"} /\ turns'[t].phase \notin {"none", "prepared"}
      BY <2>3, <3>1, <3>3 DEF PromptsFit
    <3>4. CASE TurnReady(t)
      BY <3>4 DEF TurnReady
    <3> QED  BY <2>2, <3>2, <3>3, <3>4 DEF TurnGoesOn
  <2>4. CASE TurnReady(t)
    BY <2>4 DEF TurnReady
  <2> QED  BY <2>2, <2>3, <2>4 DEF TurnGoesOn
<1>6. ASSUME NEW u \in Updates, starts'[u] # 0  PROVE u <= rec'.seen
  BY <1>0, <1>6 DEF PromptsFit
<1> QED  BY <1>3, <1>4, <1>5, <1>6 DEF PromptsFit

\* Nor does the slot change while no turn moves.
LEMMA SlotSame ==
    ASSUME ChatTypes, SlotFits, SameTurns, slot' = slot,
           loop'.pc \notin {"down", "recover", "requeue"},
           rec.session # 0 => rec'.session # 0,
           \/ rec'.queue = rec.queue \/ rec'.queue = <<>>
           \/ \E u \in Updates : Busy /\ Len(rec.queue) < FollowupCap /\ rec'.queue = Append(rec.queue, u)
    PROVE  SlotFits'
<1>1. /\ rec'.queue # <<>> => Busy
      /\ Len(rec'.queue) <= FollowupCap + 1
      /\ Len(rec.queue) <= FollowupCap => Len(rec'.queue) <= FollowupCap
  <2>0. rec.queue \in Seq(Updates) /\ FollowupCap \in Nat /\ Len(rec.queue) \in Nat  BY Typed
  <2>1. CASE rec'.queue = rec.queue
    BY <2>1 DEF Busy, SlotFits
  <2>2. CASE rec'.queue = <<>>
    <3>1. Len(rec'.queue) = 0  BY <2>2
    <3> QED  BY <2>0, <2>2, <3>1
  <2>3. ASSUME NEW u \in Updates, Busy, Len(rec.queue) < FollowupCap,
               rec'.queue = Append(rec.queue, u)
        PROVE  Busy /\ Len(rec'.queue) <= FollowupCap
    <3>1. Len(rec'.queue) = Len(rec.queue) + 1  BY <2>0, <2>3
    <3> QED  BY <2>0, <2>3, <3>1
  <2>4. \A n \in Nat : n <= FollowupCap => n <= FollowupCap + 1  BY <2>0
  <2>5. CASE \E u \in Updates : Busy /\ Len(rec.queue) < FollowupCap /\ rec'.queue = Append(rec.queue, u)
    <3>1. Busy /\ Len(rec'.queue) <= FollowupCap  BY <2>3, <2>5
    <3>2. Len(rec'.queue) \in Nat  BY <2>0, <2>5
    <3> QED  BY <2>4, <3>1, <3>2
  <2> QED  BY <2>1, <2>2, <2>5
<1>2. \A t \in TurnIds : IsRunning(t)' <=> IsRunning(t)
  BY DEF SameTurns, IsRunning
<1>3. slot # 0 => slot \in TurnIds  BY DEF ChatTypes
<1>4. (slot # 0 => Busy) /\ (Busy => rec'.session # 0)  BY DEF Busy, SlotFits
<1>5. Busy' => rec'.session # 0  BY <1>1, <1>4 DEF Busy
<1>6. \A t \in TurnIds : turns'[t].phase = "prepared" /\ turns'[t].requeue =>
          turns'[t].prompt # 0 /\ Len(rec'.queue) <= FollowupCap
  BY <1>1 DEF SameTurns, SlotFits
<1>7. slot' # 0 => turns'[slot'].phase # "none"
  BY <1>3 DEF SameTurns, SlotFits
<1>8. \A t \in TurnIds : IsRunning(t)' => slot' = t
  BY <1>2 DEF SlotFits
<1> QED  BY <1>1, <1>5, <1>6, <1>7, <1>8 DEF SlotFits

\* A slot that holds no turn, when none may run.
LEMMA SlotFree ==
    ASSUME slot' = 0, Len(rec'.queue) <= FollowupCap + 1,
           \A t \in TurnIds : turns'[t].phase \notin {"prepared", "running"},
           rec'.queue # <<>> => rec'.session # 0,
           loop'.pc = "requeue" => rec'.queue # <<>>,
           loop'.pc \in {"down", "recover", "requeue"} => \A t \in TurnIds : turns'[t].phase = "none"
    PROVE  SlotFits'
  BY DEF SlotFits, IsRunning, Busy

\* The turn of the slot was made ready, or is started.
LEMMA SlotTaken ==
    ASSUME ChatTypes, SlotFits, NEW t \in TurnIds, slot \in {0, t}, slot' = t,
           turns'[t].phase \in {"prepared", "running"},
           \A u \in TurnIds \ {t} : turns'[u] = turns[u],
           rec'.session # 0, loop'.pc \notin {"down", "recover", "requeue"},
           Len(rec'.queue) <= FollowupCap + 1,
           turns'[t].phase = "prepared" /\ turns'[t].requeue =>
               turns'[t].prompt # 0 /\ Len(rec'.queue) <= FollowupCap
    PROVE  SlotFits'
<1>1. \A u \in TurnIds \ {t} : turns'[u].phase \notin {"prepared", "running"}
  BY Typed DEF SlotFits, IsRunning
<1> QED  BY <1>1, Typed DEF SlotFits, IsRunning

-----------------------------------------------------------------------------
(* ChatInv is inductive: the loop between its handlers.                    *)

\* In the beginning there is no turn and no prompt.
LEMMA ChatInitially == Init => ChatInv
<1> SUFFICES ASSUME Init PROVE ChatInv  OBVIOUS
<1>1. /\ MaxUpdates \in Nat \ {0} /\ MaxSessions \in Nat \ {0} /\ FollowupCap \in Nat
      /\ MaxPrevious \in Nat /\ MaxFaults \in Nat /\ MaxCrashes \in Nat
  BY ChatAssumption
<1>2. /\ rec.seen = 0 /\ rec.session = 0 /\ rec.previous = <<>> /\ rec.queue = <<>>
      /\ Len(rec.queue) = 0 /\ Len(rec.previous) = 0
  BY DEF Init
<1>3. rec \in Records(made)  BY <1>1 DEF Init, Records
<1>4. \A t \in TurnIds : turns[t].phase = "none" /\ turns[t].prompt = 0
  BY DEF Init, NoTurn
<1>5. ChatTypes
  <2>1. NoTurn \in Turns  BY <1>1 DEF NoTurn, Turns
  <2>2. loop \in [pc : LoopSteps, turn : TurnIds \cup {0}, tries : Nat]
    BY DEF Init, LoopSteps
  <2>3. ledger \in [Sessions -> {"not_long_task", "running", "paused", "completed", "failed"}]
    BY DEF Init
  <2>4. turns \in [TurnIds -> Turns] /\ starts \in [Updates -> 0..1]
    BY <2>1 DEF Init
  <2> QED  BY <1>1, <1>2, <1>3, <2>2, <2>3, <2>4 DEF Init, ChatTypes
<1>6. SlotFits  BY <1>1, <1>2, <1>4 DEF Init, SlotFits, IsRunning, Busy
<1>7. OffsetFits  BY <1>1, <1>2 DEF Init, OffsetFits
<1>8. PromptsFit  BY <1>1, <1>2, <1>4 DEF Init, PromptsFit
<1> QED  BY <1>5, <1>6, <1>7, <1>8 DEF ChatInv

\* A step of the loop that touches no record, slot or turn.
LEMMA LoopOnly ==
    ASSUME ChatInv, UNCHANGED <<rec, made, ledger, slot, starts>>, SameTurns,
           loop' \in Loops, loop'.pc \notin {"down", "recover", "requeue"},
           sent' \in Kinds \cup {"none"}, offset' \in 1..(MaxUpdates + 1),
           faults' \in 0..MaxFaults, crashes' \in 0..MaxCrashes, OffsetFits'
    PROVE  ChatInv'
<1>1. ChatTypes'  BY DEF ChatInv, ChatTypes, SameTurns, Loops
<1>2. SlotFits'  BY SlotSame DEF ChatInv
<1>3. PromptsFit'
  <2>1. \A t \in TurnIds : TurnGoesOn(t)  BY DEF SameTurns, TurnGoesOn
  <2>2. rec'.seen \in Nat /\ rec'.seen >= rec.seen  BY SMTT(30), Typed DEF ChatInv
  <2> QED  BY <2>1, <2>2, PromptsQuiet DEF ChatInv
<1> QED  BY <1>1, <1>2, <1>3 DEF ChatInv

\* The next update arrives.
LEMMA PollKeeps ==
    ASSUME ChatInv, NEW k \in Kinds, Poll(k)
    PROVE  ChatInv'
<1>1. /\ UNCHANGED <<offset, rec, made, ledger, slot, turns, loop, starts, faults, crashes>>
      /\ sent' = k /\ offset <= MaxUpdates /\ At("poll")
  BY DEF Poll, Current
<1>2. SameTurns  BY <1>1 DEF SameTurns, ChatInv, ChatTypes
<1>3. OffsetFits'  BY <1>1 DEF ChatInv, OffsetFits, At
<1> QED  BY <1>1, <1>2, <1>3, LoopOnly DEF ChatInv, ChatTypes, Loops, At

\* The update was handled before, or is nobody's.
LEMMA IgnoredKeeps ==
    ASSUME ChatInv, HandleIgnored
    PROVE  ChatInv'
<1>1. /\ UNCHANGED <<sent, offset, rec, made, ledger, slot, turns, starts, faults, crashes>>
      /\ sent # "none" /\ loop' = Goto("commit") /\ (sent = "denied" \/ offset <= rec.seen)
  BY DEF HandleIgnored, Current
<1>2. SameTurns  BY <1>1 DEF SameTurns, ChatInv, ChatTypes
<1>3. loop' \in Loops /\ loop'.pc = "commit" /\ loop'.tries = loop.tries
  BY <1>1, GotoLoop DEF ChatInv, LoopSteps
<1>4. OffsetFits'  BY <1>1, <1>3 DEF ChatInv, OffsetFits
<1> QED  BY <1>1, <1>2, <1>3, <1>4, LoopOnly DEF ChatInv, ChatTypes

\* The handler's answer is sent, or its failure counts as an attempt.
LEMMA ReplyKeeps ==
    ASSUME ChatInv, NEW ok \in BOOLEAN, Reply(ok)
    PROVE  ChatInv'
<1>1. /\ UNCHANGED <<sent, offset, rec, made, ledger, slot, turns, starts, crashes>>
      /\ loop.pc = "reply" /\ loop' = IF ok THEN Goto("commit") ELSE HandlingFailed
      /\ Spend(IF ok THEN <<>> ELSE <<"lost">>)
  BY DEF Reply, At
<1>2. SameTurns  BY <1>1 DEF SameTurns, ChatInv, ChatTypes
<1>3. faults \in Nat /\ MaxFaults \in Nat /\ faults \in 0..MaxFaults /\ crashes \in 0..MaxCrashes
  BY Typed DEF ChatInv, ChatTypes
<1>4. CASE ok
  <2>1. <<>> \in Seq(Outcomes) /\ Len(<<>>) = 0 /\ Spend(<<>>)  BY <1>1, <1>4
  <2>2. faults' \in 0..MaxFaults /\ faults' >= faults  BY <1>3, <2>1, SpendCounts
  <2>3. loop' \in Loops /\ loop'.pc = "commit" /\ loop'.tries = loop.tries
    BY <1>1, <1>4, GotoLoop DEF ChatInv, LoopSteps
  <2>4. sent # "none" /\ offset <= rec.seen /\ loop.tries <= faults /\ loop.tries \in Nat
    BY <1>1, Typed DEF ChatInv, OffsetFits
  <2>5. OffsetFits'  BY <1>1, <1>3, <2>2, <2>3, <2>4 DEF ChatInv, OffsetFits
  <2> QED  BY <1>1, <1>2, <1>3, <2>2, <2>3, <2>5, LoopOnly DEF ChatInv, ChatTypes
<1>5. CASE ~ok
  <2>1. Spend(<<"lost">>) /\ "lost" \in Outcomes  BY <1>1, <1>5 DEF Outcomes
  <2>2. faults' \in 0..MaxFaults /\ faults' >= faults + 1  BY <1>3, <2>1, SpendOne
  <2>3. /\ loop' \in Loops /\ loop'.pc \in {"poll", "commit"} /\ loop'.tries <= faults'
        /\ loop'.pc = "commit" => faults' >= MaxAttempts
    BY <1>1, <1>5, <2>2, FailedLoop DEF ChatInv
  <2>4. sent # "none"  BY <1>1 DEF ChatInv, OffsetFits
  <2>5. OffsetFits'  BY <1>1, <2>3, <2>4 DEF ChatInv, OffsetFits
  <2> QED  BY <1>1, <1>2, <1>3, <2>2, <2>3, <2>5, LoopOnly DEF ChatInv, ChatTypes
<1> QED  BY <1>4, <1>5

\* The offset moves past the update.
LEMMA CommitKeeps ==
    ASSUME ChatInv, Commit
    PROVE  ChatInv'
<1>1. /\ UNCHANGED <<rec, made, ledger, slot, turns, starts, faults, crashes>>
      /\ loop.pc = "commit" /\ offset' = offset + 1 /\ sent' = "none"
      /\ loop' = [pc |-> "poll", turn |-> 0, tries |-> 0]
  BY DEF Commit, At
<1>2. SameTurns  BY <1>1 DEF SameTurns, ChatInv, ChatTypes
<1>3. offset \in 1..MaxUpdates /\ rec.seen \in Nat /\ MaxUpdates \in Nat /\ faults \in Nat
  BY <1>1, Typed DEF ChatInv, ChatTypes, OffsetFits
<1>4. loop' \in Loops  BY <1>1 DEF Loops, LoopSteps
<1>5. OffsetFits'  BY <1>1, <1>3 DEF ChatInv, OffsetFits
<1>6. offset' \in 1..(MaxUpdates + 1)  BY <1>1, <1>3
<1> QED  BY <1>1, <1>2, <1>4, <1>5, <1>6, LoopOnly DEF ChatInv, ChatTypes

\* What a shutdown asks of the turn in the slot.
LEMMA DrainTurns ==
    ASSUME ChatInv,
           turns' = IF slot # 0 /\ IsRunning(slot)
                    THEN [turns EXCEPT ![slot].cancelled = TRUE] ELSE turns
    PROVE  SameTurns
<1>1. turns \in [TurnIds -> Turns] /\ (slot # 0 => slot \in TurnIds)  BY DEF ChatInv, ChatTypes
<1>2. CASE slot # 0 /\ IsRunning(slot)
  <2>1. turns' = [turns EXCEPT ![slot].cancelled = TRUE] /\ slot \in TurnIds /\ TRUE \in BOOLEAN
    BY <1>1, <1>2
  <2>2. /\ turns' \in [TurnIds -> Turns]
        /\ \A u \in TurnIds : turns'[u].phase = turns[u].phase /\ turns'[u].prompt = turns[u].prompt
                              /\ turns'[u].requeue = turns[u].requeue
    BY ZenonT(30), <1>1, <2>1, TurnCancelled
  <2> QED  BY <2>2 DEF SameTurns
<1>3. CASE ~(slot # 0 /\ IsRunning(slot))
  BY <1>1, <1>3 DEF SameTurns
<1> QED  BY <1>2, <1>3

\* The loop ends and its turns are waited for.
LEMMA DrainKeeps ==
    ASSUME ChatInv, CommitFails \/ Shutdown
    PROVE  ChatInv'
<1>1. /\ UNCHANGED <<sent, offset, rec, made, ledger, slot, starts>>
      /\ loop' = Goto("drain")
  BY DEF CommitFails, Shutdown
<1>2. SameTurns  BY DrainTurns DEF CommitFails, Shutdown
<1>3. loop' \in Loops /\ loop'.pc = "drain" /\ loop'.tries = loop.tries
  BY <1>1, GotoLoop DEF ChatInv, LoopSteps
<1>4. /\ faults \in Nat /\ MaxFaults \in Nat /\ MaxCrashes \in Nat /\ crashes \in 0..MaxCrashes
      /\ faults \in 0..MaxFaults /\ loop.tries \in Nat /\ "lost" \in Outcomes
  BY Typed, ChatAssumption DEF ChatInv, ChatTypes, Outcomes
<1>5. faults' \in 0..MaxFaults /\ faults' >= faults /\ crashes' \in 0..MaxCrashes
  <2>1. CASE CommitFails
    <3>1. Spend(<<"lost">>) /\ crashes' = crashes  BY <2>1 DEF CommitFails
    <3>2. faults' \in 0..MaxFaults /\ faults' >= faults  BY <1>4, <3>1, SpendOne
    <3> QED  BY <1>4, <3>1, <3>2
  <2>2. CASE Shutdown
    <3>1. faults' = faults /\ crashes' = crashes + 1 /\ crashes < MaxCrashes
      BY <2>2 DEF Shutdown
    <3> QED  BY <1>4, <3>1
  <2> QED  BY <2>1, <2>2
<1>6. OffsetFits'  BY <1>1, <1>3, <1>4, <1>5 DEF ChatInv, OffsetFits
<1> QED  BY <1>1, <1>2, <1>3, <1>5, <1>6, LoopOnly DEF ChatInv, ChatTypes

\* The process is gone, and is started again.
LEMMA RestartKeeps ==
    ASSUME ChatInv, Exit \/ Crash \/ Restart
    PROVE  ChatInv'
<1>1. /\ UNCHANGED <<sent, offset, rec, made, ledger, starts, faults>>
      /\ slot' = 0 /\ turns' \in [TurnIds -> Turns] /\ crashes' \in 0..MaxCrashes
      /\ \A t \in TurnIds : turns'[t].phase = "none" /\ turns'[t].prompt = 0
      /\ loop' \in Loops /\ loop'.pc \in {"down", "recover"} /\ loop'.tries \in {0, loop.tries}
  <2>0. /\ NoTurn \in Turns /\ NoTurn.phase = "none" /\ NoTurn.prompt = 0
        /\ crashes \in 0..MaxCrashes /\ MaxCrashes \in Nat
    <3>1. 0 \in 0..MaxUpdates /\ FALSE \in BOOLEAN /\ 0 \in 0..MaxSessions  BY Typed DEF ChatInv
    <3> QED  BY <3>1, PreparedTurn, ChatAssumption DEF ChatInv, ChatTypes
  <2>1. CASE Exit \/ Crash
    <3>1. /\ Gone /\ UNCHANGED <<sent, offset, rec, made, ledger, starts, faults>>
          /\ crashes' = crashes \/ (crashes' = crashes + 1 /\ crashes < MaxCrashes)
      <4>1. CASE Exit
        BY <4>1 DEF Exit
      <4>2. CASE Crash
        BY <4>2 DEF Crash
      <4> QED  BY <2>1, <4>1, <4>2
    <3>2. crashes' \in 0..MaxCrashes  BY <2>0, <3>1
    <3>3. slot' = 0 /\ turns' = [t \in TurnIds |-> NoTurn]
          /\ loop' = [pc |-> "down", turn |-> 0, tries |-> 0]
      BY <3>1 DEF Gone
    <3>4. loop' \in Loops  BY <3>3 DEF Loops, LoopSteps
    <3> QED  BY <2>0, <3>1, <3>2, <3>3, <3>4
  <2>2. CASE Restart
    <3>1. /\ UNCHANGED <<sent, offset, rec, made, ledger, slot, turns, starts, faults, crashes>>
          /\ loop' = Goto("recover") /\ loop.pc = "down"
      BY <2>2 DEF Restart, At
    <3>2. slot = 0 /\ \A t \in TurnIds : turns[t].phase = "none"
      BY <3>1 DEF ChatInv, SlotFits
    <3>3. \A t \in TurnIds : turns[t].prompt = 0  BY <3>2 DEF ChatInv, PromptsFit
    <3>4. loop' \in Loops /\ loop'.pc = "recover" /\ loop'.tries = loop.tries
      BY <3>1, GotoLoop DEF ChatInv, LoopSteps
    <3> QED  BY <2>0, <3>1, <3>2, <3>3, <3>4 DEF ChatInv, ChatTypes
  <2> QED  BY <2>1, <2>2
<1>2. ChatTypes'  BY <1>1 DEF ChatInv, ChatTypes, Loops
<1>3. SlotFits'
  BY <1>1, SlotFree DEF ChatInv, SlotFits, Busy
<1>4. OffsetFits'
  <2>1. loop.tries <= faults /\ faults \in Nat  BY Typed DEF ChatInv, OffsetFits
  <2> QED  BY <1>1, <2>1 DEF ChatInv, OffsetFits
<1>5. PromptsFit'
  <2>1. \A t \in TurnIds : TurnGoesOn(t)  BY <1>1 DEF TurnGoesOn
  <2>2. rec'.seen \in Nat /\ rec'.seen >= rec.seen  BY <1>1, Typed DEF ChatInv
  <2> QED  BY <1>1, <2>1, <2>2, PromptsQuiet DEF ChatInv
<1> QED  BY <1>2, <1>3, <1>4, <1>5 DEF ChatInv

\* A recovered prompt has been launched.
LEMMA RecoveredKeeps ==
    ASSUME ChatInv, Recovered
    PROVE  ChatInv'
<1>1. /\ UNCHANGED <<sent, offset, rec, made, ledger, slot, turns, starts, faults, crashes>>
      /\ loop' = Goto("poll")
  BY DEF Recovered
<1>2. SameTurns  BY <1>1 DEF SameTurns, ChatInv, ChatTypes
<1>3. loop' \in Loops /\ loop'.pc = "poll" /\ loop'.tries = loop.tries
  BY <1>1, GotoLoop DEF ChatInv, LoopSteps
<1>4. OffsetFits'  BY <1>1, <1>3 DEF ChatInv, OffsetFits
<1> QED  BY <1>1, <1>2, <1>3, <1>4, LoopOnly DEF ChatInv, ChatTypes

-----------------------------------------------------------------------------
(* The handlers that only answer.                                          *)

\* An accepted prompt waits behind all others.
LEMMA PromptsAppend ==
    ASSUME ChatTypes, PromptsFit, starts' = starts, offset > rec.seen, offset \in Updates,
           rec'.seen = offset, rec'.queue = Append(rec.queue, offset),
           \A t \in TurnIds : TurnGoesOn(t)
    PROVE  PromptsFit'
<1> DEFINE q == rec.queue
           r == rec'.queue
           n == Len(rec.queue)
<1>0. /\ q \in Seq(Updates) /\ rec.seen \in Nat /\ Updates \subseteq Nat /\ offset \in Nat
      /\ n \in Nat
  BY SMTT(30), Typed DEF Updates
<1>1. /\ Len(r) = n + 1 /\ r[n + 1] = offset /\ \A i \in 1..n : r[i] = q[i]
  BY <1>0
<1>2. \A i \in 1..n : q[i] \in Nat /\ q[i] <= rec.seen /\ starts[q[i]] = 0
  <2>1. \A i \in 1..n : q[i] \in Nat
    <3>1. \A i \in 1..n : q[i] \in Updates  BY <1>0
    <3> HIDE DEF q, n
    <3> QED  BY <1>0, <3>1
  <2> QED  BY <2>1 DEF PromptsFit
<1>3. starts[offset] = 0  BY <1>0 DEF PromptsFit
<1>4. \A i \in 1..n, j \in 1..n : i < j => q[i] < q[j]  BY DEF PromptsFit
<1>5. \A t \in TurnIds : turns[t].prompt \in Nat  BY SMTT(30), Typed
<1>6. ASSUME NEW i \in 1..Len(r)
      PROVE  r[i] <= rec'.seen /\ starts'[r[i]] = 0
  <2>1. CASE i = n + 1  BY <1>0, <1>1, <1>3, <2>1
  <2>2. CASE i \in 1..n
    <3>1. r[i] = q[i]  BY <1>1, <2>2
    <3>2. q[i] \in Nat /\ q[i] <= rec.seen /\ starts[q[i]] = 0  BY <1>2, <2>2
    <3> HIDE DEF q, r
    <3> QED  BY <1>0, <3>1, <3>2
  <2>3. i \in Nat  BY <1>0, <1>1
  <2> QED  BY <1>0, <1>1, <2>1, <2>2, <2>3
<1>7. ASSUME NEW i \in 1..Len(r), NEW j \in 1..Len(r), i < j
      PROVE  r[i] < r[j]
  <2>1. i \in 1..n  BY <1>0, <1>1, <1>7
  <2>2. CASE j = n + 1
    <3>1. r[i] = q[i] /\ r[j] = offset  BY <1>1, <2>1, <2>2
    <3>2. q[i] \in Nat /\ q[i] <= rec.seen  BY <1>2, <2>1
    <3> HIDE DEF q, r
    <3> QED  BY <1>0, <3>1, <3>2
  <2>3. CASE j \in 1..n
    <3>1. r[i] = q[i] /\ r[j] = q[j]  BY <1>1, <2>1, <2>3
    <3> QED  BY <1>4, <1>7, <2>1, <2>3, <3>1
  <2>4. j \in Nat  BY <1>0, <1>1
  <2> QED  BY <1>0, <1>1, <2>2, <2>3, <2>4
<1>8. ASSUME NEW t \in TurnIds
      PROVE  /\ turns'[t].prompt <= rec'.seen
             /\ turns'[t].phase = "none" => turns'[t].prompt = 0
             /\ turns'[t].prompt # 0 =>
                   IF turns'[t].phase = "prepared"
                   THEN /\ starts'[turns'[t].prompt] = 0
                        /\ \A i \in 1..Len(r) : turns'[t].prompt < r[i]
                   ELSE starts'[turns'[t].prompt] = 1
  <2>1. turns[t].prompt \in Nat /\ turns[t].prompt <= rec.seen
    BY SMTT(30), Typed DEF PromptsFit
  <2>2. CASE turns'[t].phase = "none" /\ turns'[t].prompt = 0
    BY <1>0, <2>2
  <2>3. CASE turns'[t].prompt = turns[t].prompt
    <3>1. turns'[t].prompt <= rec'.seen /\ turns'[t].prompt < offset  BY <1>0, <2>1, <2>3
    <3>2. CASE turns'[t].phase = turns[t].phase
      <4>1. ASSUME NEW i \in 1..Len(r), turns[t].phase = "prepared", turns[t].prompt # 0
            PROVE  turns'[t].prompt < r[i]
        <5>1. CASE i = n + 1  BY <1>1, <3>1, <5>1
        <5>2. CASE i \in 1..n
          <6>1. turns[t].prompt < q[i]  BY <4>1, <5>2 DEF PromptsFit
          <6> QED  BY <1>1, <2>3, <5>2, <6>1
        <5>3. i \in Nat  BY <1>0, <1>1
        <5> QED  BY <1>0, <1>1, <5>1, <5>2, <5>3
      <4> HIDE DEF q, r, n
      <4> QED  BY <2>3, <3>1, <3>2, <4>1 DEF PromptsFit
    <3>3. CASE turns[t].phase \notin {"none", "prepared"} /\ turns'[t].phase \notin {"none", "prepared"}
      BY <2>3, <3>1, <3>3 DEF PromptsFit
    <3> QED  BY <2>2, <3>2, <3>3 DEF TurnGoesOn
  <2> QED  BY <2>2, <2>3 DEF TurnGoesOn
<1>9. ASSUME NEW u \in Updates, starts'[u] # 0  PROVE u <= rec'.seen
  <2>1. u <= rec.seen /\ u \in Nat  BY <1>0, <1>9 DEF PromptsFit
  <2> QED  BY <1>0, <2>1
<1> QED  BY <1>6, <1>7, <1>8, <1>9 DEF PromptsFit

\* An update is in hand that the record has not seen.
Fresh == loop.pc = "poll" /\ sent # "none" /\ offset > rec.seen

\* The record may say of the prompts: all as it was, /stop, or the update
\* in hand is a prompt that waits.
QueueAnswer ==
    \/ rec'.queue = rec.queue
    \/ sent = "stop" /\ rec'.queue = <<>>
    \/ /\ Busy /\ Len(rec.queue) < FollowupCap /\ rec'.queue = Append(rec.queue, offset)
       /\ sent = "prompt"

\* What a handler does that takes no turn: the update in hand is answered,
\* or the attempt is counted.
Answered ==
    /\ Fresh /\ UNCHANGED <<sent, offset, ledger, starts, crashes>>
    /\ made' \in made..MaxSessions /\ SameTurns
    /\ slot' = slot \/ (slot' = 0 /\ sent = "stop" /\ \A t \in TurnIds : ~IsRunning(t))
    /\ faults' \in 0..MaxFaults /\ faults' >= faults
    /\ rec' \in Records(made') /\ Len(rec'.previous) <= MaxPrevious
    /\ rec.session # 0 => rec'.session # 0
    /\ slot = 0 \/ rec'.active = rec.active
    /\ QueueAnswer
    /\ rec'.seen = offset \/ (rec'.seen = rec.seen /\ rec'.queue = rec.queue)
    /\ \/ loop' = Goto("reply") /\ rec'.seen = offset
       \/ loop' = HandlingFailed /\ faults' >= faults + 1

\* It keeps the invariant.
LEMMA AnswerFits ==
    ASSUME ChatInv, Answered
    PROVE  ChatInv'
<1> USE DEF Answered
<1>0. /\ offset \in Updates /\ rec.seen \in Nat /\ faults' \in Nat /\ faults \in Nat
      /\ loop.tries \in Nat /\ loop.tries <= faults /\ made' \in 0..MaxSessions
      /\ rec.queue \in Seq(Updates) /\ offset \in Nat
  BY SMTT(30), Typed DEF ChatInv, ChatTypes, OffsetFits, Fresh, Updates
<1>1. /\ loop' \in Loops /\ loop'.pc \in {"reply", "poll", "commit"} /\ loop'.tries <= faults'
      /\ loop'.pc = "commit" => faults' >= MaxAttempts
      /\ loop'.pc = "reply" => rec'.seen = offset
  <2>1. CASE loop' = Goto("reply") /\ rec'.seen = offset
    <3>1. loop' \in Loops /\ loop'.pc = "reply" /\ loop'.tries = loop.tries
      BY <2>1, GotoLoop DEF ChatInv, LoopSteps
    <3> QED  BY <1>0, <2>1, <3>1
  <2>2. CASE loop' = HandlingFailed /\ faults' >= faults + 1
    <3> QED  BY <1>0, <2>2, FailedLoop DEF ChatInv
  <2> QED  BY <2>1, <2>2
<1>2. \A t \in TurnIds : TurnGoesOn(t)  BY DEF SameTurns, TurnGoesOn
<1>3. rec'.seen \in Nat /\ rec'.seen >= rec.seen  BY <1>0 DEF Fresh
<1>4. PromptsFit'
  <2>1. CASE rec'.queue = rec.queue \/ rec'.queue = <<>>
    BY <1>2, <1>3, <2>1, PromptsQuiet DEF ChatInv
  <2>2. CASE rec'.queue # rec.queue /\ rec'.queue = Append(rec.queue, offset)
    BY <1>0, <1>2, <2>2, PromptsAppend DEF ChatInv, Fresh
  <2> QED  BY <2>1, <2>2 DEF QueueAnswer
<1>5. SlotFits'
  <2>1. CASE slot' = slot
    <3>1. \/ rec'.queue = rec.queue \/ rec'.queue = <<>>
          \/ \E u \in Updates : Busy /\ Len(rec.queue) < FollowupCap /\ rec'.queue = Append(rec.queue, u)
      BY <1>0 DEF QueueAnswer
    <3> QED  BY <1>1, <2>1, <3>1, SlotSame DEF ChatInv
  <2>2. CASE slot' = 0 /\ \A t \in TurnIds : ~IsRunning(t)
    <3>1. \A t \in TurnIds : turns'[t].phase \notin {"prepared", "running"}
      BY <2>2 DEF SameTurns, IsRunning
    <3>2. Len(rec'.queue) <= FollowupCap + 1 /\ (rec'.queue # <<>> => rec'.session # 0)
      <4>1. CASE rec'.queue = rec.queue
        BY <4>1 DEF ChatInv, SlotFits, Busy
      <4>2. CASE rec'.queue = <<>>
        <5>1. Len(rec'.queue) = 0 /\ FollowupCap \in Nat  BY <4>2, Typed DEF ChatInv
        <5> QED  BY <4>2, <5>1
      <4>3. CASE Busy /\ Len(rec.queue) < FollowupCap /\ rec'.queue = Append(rec.queue, offset)
        <5>1. Len(rec'.queue) = Len(rec.queue) + 1 /\ FollowupCap \in Nat /\ Len(rec.queue) \in Nat
          BY <1>0, <4>3, Typed DEF ChatInv
        <5>2. Len(rec'.queue) <= FollowupCap + 1  BY <4>3, <5>1
        <5>3. rec'.session # 0  BY <4>3 DEF ChatInv, SlotFits
        <5> QED  BY <5>2, <5>3
      <4> QED  BY <4>1, <4>2, <4>3 DEF QueueAnswer
    <3> QED  BY <1>1, <2>2, <3>1, <3>2, SlotFree
  <2> QED  BY <2>1, <2>2
<1>6. OffsetFits'
  BY <1>0, <1>1 DEF ChatInv, OffsetFits, Fresh
<1>7. ChatTypes'
  BY <1>0, <1>1 DEF ChatInv, ChatTypes, SameTurns, Loops
<1> QED  BY <1>4, <1>5, <1>6, <1>7 DEF ChatInv

\* A handler that answers from record r.
LEMMA AnswerSaved ==
    ASSUME ChatInv, Fresh, UNCHANGED <<sent, offset, ledger, starts, crashes>>,
           made' \in made..MaxSessions, SameTurns,
           slot' = slot \/ (slot' = 0 /\ sent = "stop" /\ \A t \in TurnIds : ~IsRunning(t)),
           NEW r \in Records(made'), NEW o \in Outcomes, Answer(r, o),
           Len(r.previous) <= MaxPrevious, rec.session # 0 => r.session # 0,
           r.active = rec.active,
           \/ r.queue = rec.queue
           \/ sent = "stop" /\ r.queue = <<>>
           \/ /\ Busy /\ Len(rec.queue) < FollowupCap /\ r.queue = Append(rec.queue, offset)
              /\ sent = "prompt"
    PROVE  Answered
<1>1. /\ rec' = Saved(o, Saw(r, offset)) /\ Spend(<<o>>)
      /\ loop' = IF o = "ok" THEN Goto("reply") ELSE HandlingFailed
  BY DEF Answer, Current
<1>2. /\ faults' \in 0..MaxFaults /\ faults' >= faults
      /\ o # "ok" => faults' >= faults + 1
  BY <1>1, Typed, SpendOne DEF ChatInv
<1>3. offset \in 0..MaxUpdates  BY DEF ChatInv, ChatTypes, OffsetFits, Fresh
<1> DEFINE q == Saw(r, offset)
<1>4. /\ q \in Records(made') /\ q.seen = offset /\ q.session = r.session
      /\ q.previous = r.previous /\ q.queue = r.queue /\ q.active = r.active
  <2>1. q = WithSeen(r, offset)  BY DEF Saw, WithSeen
  <2> HIDE DEF q
  <2>2. /\ WithSeen(r, offset) \in Records(made') /\ WithSeen(r, offset).seen = offset
        /\ WithSeen(r, offset).session = r.session
        /\ WithSeen(r, offset).previous = r.previous /\ WithSeen(r, offset).queue = r.queue
        /\ WithSeen(r, offset).active = r.active
    BY <1>3, EditSeen
  <2> QED  BY <2>1, <2>2
<1> HIDE DEF q
<1>5. CASE o = "lost"
  <2>1. rec' = rec /\ loop' = HandlingFailed  BY <1>1, <1>5 DEF Saved
  <2>2. rec \in Records(made') /\ Len(rec.previous) <= MaxPrevious
    <3>1. made \in Nat /\ made' \in Nat /\ made <= made'
      BY Typed DEF ChatInv
    <3> QED  BY <3>1, RecordsGrow DEF ChatInv, ChatTypes
  <2>3. QueueAnswer  BY <2>1 DEF QueueAnswer
  <2> QED  BY <1>2, <1>5, <2>1, <2>2, <2>3 DEF Answered
<1>6. CASE o # "lost"
  <2>1. rec' = q  BY <1>1, <1>6 DEF Saved, q
  <2>2. QueueAnswer  BY <1>4, <2>1 DEF QueueAnswer
  <2>3. rec'.seen = offset  BY <1>4, <2>1
  <2>4. \/ loop' = Goto("reply") /\ rec'.seen = offset
        \/ loop' = HandlingFailed /\ faults' >= faults + 1
    BY <1>1, <1>2, <2>3
  <2>5. rec' \in Records(made') /\ Len(rec'.previous) <= MaxPrevious
        /\ (rec.session # 0 => rec'.session # 0) /\ rec'.active = rec.active
    BY <1>4, <2>1
  <2> QED  BY <1>2, <2>2, <2>3, <2>4, <2>5 DEF Answered
<1> QED  BY <1>5, <1>6

\* A prompt or a task that finds the chat busy, and the commands.
LEMMA AnswersAnswer ==
    ASSUME ChatInv, NEW o \in Outcomes,
           \/ HandlePrompt(o) /\ (Busy \/ rec.task # 0)
           \/ HandleTask(o) /\ (Busy \/ rec.task # 0)
           \/ HandleTaskResume(o) /\ (Busy \/ rec.task = 0 \/ ledger[rec.task] # "paused")
           \/ HandleOther(o)
    PROVE  Answered
<1>1. /\ Fresh /\ UNCHANGED <<sent, offset, made, ledger, slot, turns, starts, crashes>>
  <2>1. CASE HandlePrompt(o) /\ (Busy \/ rec.task # 0)
    BY <2>1 DEF HandlePrompt, Handling, At, Current, Fresh
  <2>2. CASE HandleTask(o) /\ (Busy \/ rec.task # 0)
    BY <2>2 DEF HandleTask, Handling, At, Current, Fresh
  <2>3. CASE HandleTaskResume(o) /\ (Busy \/ rec.task = 0 \/ ledger[rec.task] # "paused")
    BY <2>3 DEF HandleTaskResume, Handling, At, Current, Fresh
  <2>4. CASE HandleOther(o)
    BY <2>4 DEF HandleOther, Handling, At, Current, Fresh
  <2> QED  BY <2>1, <2>2, <2>3, <2>4
<1>2. Answer(rec, o) \/ (Busy /\ sent = "prompt" /\ Answer(Enqueued(rec, offset), o))
  BY DEF HandlePrompt, HandleTask, HandleTaskResume, HandleOther, Handling, Current
<1>3. /\ rec \in Records(made') /\ Len(rec.previous) <= MaxPrevious /\ made' \in made..MaxSessions
      /\ made' = made /\ made \in Nat
  BY <1>1, Typed DEF ChatInv, ChatTypes
<1>4. SameTurns  BY <1>1 DEF SameTurns, ChatInv, ChatTypes
<1>5. CASE Answer(rec, o)
  BY <1>1, <1>3, <1>4, <1>5, AnswerSaved
<1>6. CASE Busy /\ sent = "prompt" /\ Answer(Enqueued(rec, offset), o)
  <2>1. CASE Len(rec.queue) >= FollowupCap
    BY <1>1, <1>3, <1>4, <1>6, <2>1, AnswerSaved DEF Enqueued
  <2>2. CASE ~(Len(rec.queue) >= FollowupCap)
    <3> DEFINE q == Enqueued(rec, offset)
    <3>1. q = WithQueue(rec, Append(rec.queue, offset))
      BY <2>2 DEF Enqueued, WithQueue
    <3>2. rec.queue \in Seq(Updates) /\ offset \in Updates /\ Len(rec.queue) < FollowupCap
      <4>1. offset \in Updates
        BY <1>1, Typed DEF ChatInv, ChatTypes, OffsetFits, Fresh, Updates
      <4>2. rec.queue \in Seq(Updates) /\ Len(rec.queue) \in Nat /\ FollowupCap \in Nat
        BY Typed DEF ChatInv
      <4> QED  BY <4>1, <4>2, <2>2
    <3>3. Append(rec.queue, offset) \in Seq(Updates)  BY <3>2
    <3> HIDE DEF q
    <3>4. LET y == WithQueue(rec, Append(rec.queue, offset))
          IN  /\ y \in Records(made') /\ y.seen = rec.seen /\ y.session = rec.session
              /\ y.previous = rec.previous /\ y.task = rec.task /\ y.active = rec.active
              /\ y.queue = Append(rec.queue, offset)
      BY <1>3, <3>3, EditQueue
    <3>5. /\ q \in Records(made') /\ q.session = rec.session
          /\ q.previous = rec.previous /\ q.queue = Append(rec.queue, offset)
          /\ q.active = rec.active
      BY <3>1, <3>4
    <3>6. Answer(q, o)  BY <1>6 DEF q
    <3> QED  BY <1>1, <1>3, <1>4, <1>6, <3>2, <3>5, <3>6, AnswerSaved
  <2> QED  BY <2>1, <2>2
<1> QED  BY <1>2, <1>5, <1>6

\* /new and /resume.
LEMMA SessionsAnswer ==
    ASSUME ChatInv, NEW o \in Outcomes, HandleNew(o) \/ HandleResume(o)
    PROVE  Answered
<1>0. /\ made \in Nat /\ rec \in Records(made) /\ Len(rec.previous) <= MaxPrevious
      /\ MaxPrevious \in Nat \ {0} /\ made \in 0..MaxSessions /\ MaxSessions \in Nat
  BY Typed DEF ChatInv, ChatTypes
<1>1. /\ Fresh /\ UNCHANGED <<sent, offset, ledger, slot, turns, starts, crashes>>
      /\ \/ Answer(rec, o) /\ made' = made
         \/ /\ made < MaxSessions /\ made' = made + 1
            /\ Answer(ClearTask([RememberCurrent(rec) EXCEPT !.session = made + 1]), o)
         \/ rec.previous # <<>> /\ Answer(SwapPrevious(rec), o) /\ made' = made
  <2>1. CASE HandleNew(o)
    BY <2>1 DEF HandleNew, Handling, At, Current, Fresh
  <2>2. CASE HandleResume(o)
    BY <2>2 DEF HandleResume, Handling, At, Current, Fresh
  <2> QED  BY <2>1, <2>2
<1>2. SameTurns  BY <1>1 DEF SameTurns, ChatInv, ChatTypes
<1>3. CASE Answer(rec, o) /\ made' = made
  <2>1. made' \in made..MaxSessions /\ rec \in Records(made')  BY <1>0, <1>3
  <2> QED  BY <1>0, <1>1, <1>2, <1>3, <2>1, AnswerSaved
<1>4. CASE /\ made < MaxSessions /\ made' = made + 1
           /\ Answer(ClearTask([RememberCurrent(rec) EXCEPT !.session = made + 1]), o)
  <2> DEFINE q == ClearTask([RememberCurrent(rec) EXCEPT !.session = made + 1])
  <2>1. /\ q \in Records(made + 1) /\ Len(q.previous) <= MaxPrevious
        /\ q.queue = rec.queue /\ q.session # 0 /\ q.active = rec.active
    BY <1>0, SessionOps
  <2>2. Answer(q, o)  BY <1>4
  <2> HIDE DEF q
  <2>3. made' \in made..MaxSessions /\ q \in Records(made')  BY <1>0, <1>4, <2>1
  <2> QED  BY <1>1, <1>2, <2>1, <2>2, <2>3, AnswerSaved
<1>5. CASE rec.previous # <<>> /\ Answer(SwapPrevious(rec), o) /\ made' = made
  <2> DEFINE q == SwapPrevious(rec)
  <2>1. /\ q \in Records(made) /\ Len(q.previous) <= MaxPrevious
        /\ q.queue = rec.queue /\ q.session # 0 /\ q.active = rec.active
    BY <1>0, <1>5, SessionOps
  <2>2. Answer(q, o)  BY <1>5
  <2> HIDE DEF q
  <2>3. made' \in made..MaxSessions /\ q \in Records(made')  BY <1>0, <1>5, <2>1
  <2> QED  BY <1>1, <1>2, <2>1, <2>2, <2>3, AnswerSaved
<1> QED  BY <1>1, <1>3, <1>4, <1>5

\* /stop.
LEMMA StopAnswers ==
    ASSUME ChatInv, NEW o \in Outcomes, HandleStop(o)
    PROVE  Answered
<1>1. /\ Fresh /\ UNCHANGED <<sent, offset, made, ledger, starts, crashes>> /\ sent = "stop"
      /\ slot' = IF StopReleases THEN 0 ELSE slot
      /\ turns' = IF slot = 0 THEN turns
                  ELSE [turns EXCEPT ![slot].cancelled = @ \/ IsRunning(slot)]
      /\ Answer(Stopped(rec), o)
  BY DEF HandleStop, Handling, At, Current, Fresh
<1>2. /\ turns \in [TurnIds -> Turns] /\ (slot # 0 => slot \in TurnIds)
      /\ rec \in Records(made) /\ Len(rec.previous) <= MaxPrevious
      /\ made' \in made..MaxSessions /\ made' = made /\ made \in Nat
  BY SMTT(30), <1>1, Typed DEF ChatInv, ChatTypes
<1>3. SameTurns
  <2>1. CASE slot = 0
    BY <1>1, <1>2, <2>1 DEF SameTurns
  <2>2. CASE slot # 0
    <3>1. turns[slot].cancelled \in BOOLEAN  BY <1>2, <2>2 DEF Turns
    <3> DEFINE b == turns[slot].cancelled \/ IsRunning(slot)
    <3>2. b \in BOOLEAN  BY <3>1
    <3>3. turns' = [turns EXCEPT ![slot].cancelled = b]  BY <1>1, <2>2
    <3> HIDE DEF b
    <3>4. /\ turns' \in [TurnIds -> Turns]
          /\ \A u \in TurnIds : turns'[u].phase = turns[u].phase /\ turns'[u].prompt = turns[u].prompt
                                /\ turns'[u].requeue = turns[u].requeue
      BY <1>2, <2>2, <3>2, <3>3, TurnCancelled
    <3> QED  BY <3>4 DEF SameTurns
  <2> QED  BY <2>1, <2>2
<1>4. slot' = slot \/ (slot' = 0 /\ sent = "stop" /\ \A t \in TurnIds : ~IsRunning(t))
  <2>1. \A t \in TurnIds : IsRunning(t) => slot = t  BY DEF ChatInv, SlotFits
  <2> QED  BY <1>1, <2>1 DEF StopReleases
<1> DEFINE q == Stopped(rec)
<1>5. /\ q \in Records(made') /\ q.session = rec.session /\ q.previous = rec.previous
      /\ q.queue = <<>> /\ q.active = rec.active
  <2>1. q = WithQueue(rec, <<>>)  BY DEF Stopped, WithQueue
  <2> HIDE DEF q
  <2>2. <<>> \in Seq(Updates)  OBVIOUS
  <2>3. LET y == WithQueue(rec, <<>>)
        IN  /\ y \in Records(made') /\ y.session = rec.session
            /\ y.previous = rec.previous /\ y.queue = <<>> /\ y.active = rec.active
    BY <1>2, <2>2, EditQueue
  <2> QED  BY <2>1, <2>3
<1>6. Answer(q, o)  BY <1>1
<1> HIDE DEF q
<1> QED  BY <1>1, <1>2, <1>3, <1>4, <1>5, <1>6, AnswerSaved

-----------------------------------------------------------------------------
(* Turns are made ready.                                                   *)

\* There is a place for a turn.
LEMMA FreePlace ==
    ASSUME HasFreeTurn
    PROVE  FreeTurn \in TurnIds /\ turns[FreeTurn].phase = "none"
  BY DEF HasFreeTurn, FreeTurn

\* The update in hand, or a paused task, is in the slot.
Took ==
    /\ Fresh /\ UNCHANGED <<offset, starts>>
    /\ slot = 0 /\ rec.queue = <<>> /\ rec'.queue = <<>> /\ rec'.seen = offset
    /\ slot' \in TurnIds /\ turns'[slot'].prompt \in {0, offset}

\* A handler that takes the update in hand, or a paused task, into the slot.
LEMMA TakeKeeps ==
    ASSUME ChatInv, Fresh, UNCHANGED <<sent, offset, ledger, starts, crashes>>, ~Busy,
           NEW r, NEW p \in {0, offset}, NEW s, NEW long \in BOOLEAN, NEW o \in Outcomes,
           TakeTurn(r, p, s, long, o), r \in Records(made'), Len(r.previous) <= MaxPrevious,
           r.session # 0, r.queue = rec.queue
    PROVE  Answered \/ (Took /\ ChatInv')
<1>1. /\ HasFreeTurn /\ s \in Sessions /\ made' = IF s > made THEN s ELSE made
      /\ rec' = Saved(o, Saw(r, offset)) /\ Spend(<<o>>)
  BY DEF TakeTurn, Current
<1>2. /\ faults' \in 0..MaxFaults /\ faults' >= faults /\ (o # "ok" => faults' >= faults + 1)
  BY <1>1, Typed, SpendOne DEF ChatInv
<1>3. /\ made' \in made..MaxSessions /\ made \in Nat /\ made' \in Nat /\ made <= made'
      /\ offset \in 0..MaxUpdates /\ offset \in Updates /\ rec.seen \in Nat /\ offset \in Nat
      /\ rec.seen < offset /\ s \in 0..MaxSessions
  <2>1. made \in 0..MaxSessions /\ MaxSessions \in Nat  BY Typed DEF ChatInv, ChatTypes
  <2>2. made' \in made..MaxSessions /\ s \in 0..MaxSessions  BY <1>1, <2>1 DEF Sessions
  <2>3. offset \in 0..MaxUpdates /\ offset \in Updates /\ rec.seen \in Nat /\ offset \in Nat
        /\ rec.seen < offset
    BY SMTT(30), Typed DEF ChatInv, ChatTypes, OffsetFits, Fresh, Updates
  <2> QED  BY <2>1, <2>2, <2>3
<1>4. slot = 0 /\ rec.queue = <<>> /\ Len(rec.queue) = 0  BY DEF Busy
<1> DEFINE q == Saw(r, offset)
<1>5. /\ q \in Records(made') /\ q.seen = offset /\ q.session = r.session
      /\ q.previous = r.previous /\ q.queue = rec.queue
  <2>1. q = WithSeen(r, offset)  BY DEF Saw, WithSeen
  <2> HIDE DEF q
  <2>2. /\ WithSeen(r, offset) \in Records(made') /\ WithSeen(r, offset).seen = offset
        /\ WithSeen(r, offset).session = r.session
        /\ WithSeen(r, offset).previous = r.previous /\ WithSeen(r, offset).queue = r.queue
    BY <1>3, EditSeen
  <2> QED  BY <2>1, <2>2
<1> HIDE DEF q
<1>6. CASE o # "ok"
  <2>1. /\ slot' = slot /\ loop' = HandlingFailed /\ turns' = turns /\ rec' \in {rec, q}
    BY <1>1, <1>4, <1>6 DEF TakeTurn, Saved, q
  <2>2. SameTurns  BY <2>1 DEF SameTurns, ChatInv, ChatTypes
  <2>3. rec \in Records(made') /\ Len(rec.previous) <= MaxPrevious
    BY <1>3, RecordsGrow DEF ChatInv, ChatTypes
  <2>4. /\ rec' \in Records(made') /\ Len(rec'.previous) <= MaxPrevious
        /\ rec.session # 0 => rec'.session # 0
        /\ rec'.queue = rec.queue /\ rec'.seen \in {rec.seen, offset}
    BY <1>5, <2>1, <2>3
  <2>5. QueueAnswer  BY <2>4 DEF QueueAnswer
  <2> QED  BY <1>2, <1>3, <1>6, <2>1, <2>2, <2>4, <2>5, <1>4 DEF Answered
<1>7. CASE o = "ok"
  <2> DEFINE t == FreeTurn
             x == Prepared(p, s, long, FALSE, TRUE)
  <2>1. t \in TurnIds /\ turns[t].phase = "none"  BY <1>1, FreePlace
  <2>2. /\ slot' = t /\ turns' = [turns EXCEPT ![t] = x] /\ rec' = q
        /\ loop' = [loop EXCEPT !.pc = "launch", !.turn = t]
    BY <1>1, <1>7 DEF TakeTurn, Saved, q
  <2>3. x \in Turns /\ x.phase = "prepared" /\ x.prompt = p /\ x.requeue = FALSE
    <3>1. p \in 0..MaxUpdates /\ 0 \in 0..MaxUpdates /\ 0 \in 0..MaxSessions
      BY SMTT(30), <1>3, Typed DEF ChatInv
    <3> QED  BY <1>3, <3>1 DEF Prepared, NoTurn, Turns
  <2> HIDE DEF t, x
  <2>4. turns' \in [TurnIds -> Turns] /\ turns'[t] = x /\ \A u \in TurnIds \ {t} : turns'[u] = turns[u]
    BY <2>1, <2>2, <2>3, TurnSet DEF ChatInv, ChatTypes
  <2>5. loop' \in Loops /\ loop'.pc = "launch" /\ loop'.tries = loop.tries
    BY <2>1, <2>2, GotoLoop DEF ChatInv, LoopSteps
  <2>6. ChatTypes'
    BY <1>2, <1>3, <1>5, <2>1, <2>2, <2>4, <2>5 DEF ChatInv, ChatTypes, Loops
  <2>7. SlotFits'
    <3>1. Len(rec'.queue) <= FollowupCap + 1 /\ rec'.session # 0
      BY <1>4, <1>5, <2>2, Typed DEF ChatInv
    <3> QED  BY <1>4, <2>1, <2>2, <2>3, <2>4, <2>5, <3>1, SlotTaken DEF ChatInv
  <2>8. OffsetFits'
    <3>1. loop.tries <= faults /\ faults \in Nat /\ loop.tries \in Nat /\ faults' \in Nat
      BY SMTT(30), <1>2, Typed DEF ChatInv, OffsetFits
    <3>2. loop'.tries <= faults'  BY <1>2, <2>5, <3>1
    <3>3. rec'.seen = offset  BY <1>5, <2>2
    <3> QED  BY <1>3, <2>5, <3>2, <3>3 DEF ChatInv, OffsetFits, Fresh
  <2>9. PromptsFit'
    <3>1. /\ rec'.seen = offset /\ rec'.queue = rec.queue /\ 1..Len(rec'.queue) = {}
      BY <1>4, <1>5, <2>2
    <3>2. starts[offset] = 0  BY <1>3 DEF ChatInv, PromptsFit
    <3>3. TurnReady(t)  BY <1>3, <2>3, <2>4, <3>1, <3>2 DEF TurnReady
    <3>4. \A u \in TurnIds \ {t} : TurnGoesOn(u)  BY <2>4 DEF TurnGoesOn
    <3>5. \A u \in TurnIds : TurnGoesOn(u) \/ TurnReady(u)  BY <3>3, <3>4
    <3>6. rec'.seen \in Nat /\ rec'.seen >= rec.seen  BY <1>3, <3>1
    <3> QED  BY <3>1, <3>5, <3>6, PromptsQuiet DEF ChatInv
  <2>10. Took  BY <1>1, <1>4, <1>5, <2>1, <2>2, <2>3, <2>4 DEF Took
  <2> QED  BY <2>6, <2>7, <2>8, <2>9, <2>10 DEF ChatInv
<1> QED  BY <1>6, <1>7

\* The session of a new turn.
LEMMA TurnSession ==
    ASSUME ChatInv, NEW s \in Sessions, s = SessionFor(rec) \/ s = rec.task,
           made' = IF s > made THEN s ELSE made
    PROVE  /\ LET r == MarkTurn(rec, s)
              IN  /\ r \in Records(made') /\ r.session = s /\ r.previous = rec.previous
                  /\ r.seen = rec.seen /\ r.task = rec.task /\ r.active = TRUE
                  /\ r.queue = rec.queue
           /\ s \in 0..made' /\ s # 0
<1>1. made \in Nat /\ s \in Nat \ {0} /\ made' \in Nat /\ made <= made' /\ s <= made'
  <2>1. made \in Nat /\ MaxSessions \in Nat  BY Typed DEF ChatInv
  <2>2. s \in Nat \ {0}  BY <2>1 DEF Sessions
  <2> QED  BY <2>1, <2>2
<1>2. rec \in Records(made')  BY <1>1, RecordsGrow DEF ChatInv, ChatTypes
<1>3. s \in 0..made'  BY <1>1
<1> DEFINE x == WithSession(rec, s)
<1>4. /\ x \in Records(made') /\ x.seen = rec.seen /\ x.session = s
      /\ x.previous = rec.previous /\ x.task = rec.task /\ x.queue = rec.queue
  BY <1>2, <1>3, EditSession
<1>5. MarkTurn(rec, s) = Marked(x)
  BY <1>2 DEF MarkTurn, Marked, WithSession, Records
<1> HIDE DEF x
<1>6. LET y == Marked(x)
      IN  /\ y \in Records(made') /\ y.seen = x.seen /\ y.session = x.session
          /\ y.previous = x.previous /\ y.task = x.task /\ y.active = TRUE /\ y.queue = x.queue
  BY <1>4, EditMark
<1> QED  BY <1>1, <1>3, <1>4, <1>5, <1>6

\* A prompt, /task and /task_resume, when the chat is free.
LEMMA TakesKeep ==
    ASSUME ChatInv, NEW o \in Outcomes,
           \/ HandlePrompt(o) /\ ~(Busy \/ rec.task # 0)
           \/ HandleTask(o) /\ ~(Busy \/ rec.task # 0)
           \/ HandleTaskResume(o) /\ ~(Busy \/ rec.task = 0 \/ ledger[rec.task] # "paused")
    PROVE  Answered \/ (Took /\ ChatInv')
<1> DEFINE s == SessionFor(rec)
           r == MarkTurn(rec, s)
<1>0. Len(rec.previous) <= MaxPrevious /\ TRUE \in BOOLEAN /\ FALSE \in BOOLEAN
  BY DEF ChatInv, ChatTypes
<1>1. CASE HandlePrompt(o) /\ ~(Busy \/ rec.task # 0)
  <2>1. /\ Fresh /\ UNCHANGED <<sent, offset, ledger, starts, crashes>> /\ ~Busy
        /\ TakeTurn(r, offset, s, FALSE, o)
    BY <1>1 DEF HandlePrompt, Handling, At, Current, Fresh
  <2>2. s \in Sessions /\ made' = IF s > made THEN s ELSE made  BY <2>1 DEF TakeTurn
  <2>3. /\ r \in Records(made') /\ r.session # 0 /\ r.previous = rec.previous /\ r.queue = rec.queue
    BY <2>2, TurnSession
  <2> HIDE DEF s, r
  <2> QED  BY <1>0, <2>1, <2>3, TakeKeeps
<1>2. CASE HandleTask(o) /\ ~(Busy \/ rec.task # 0)
  <2> DEFINE q == [r EXCEPT !.task = s]
  <2>1. /\ Fresh /\ UNCHANGED <<sent, offset, ledger, starts, crashes>> /\ ~Busy
        /\ TakeTurn(q, offset, s, TRUE, o)
    BY <1>2 DEF HandleTask, Handling, At, Current, Fresh
  <2>2. s \in Sessions /\ made' = IF s > made THEN s ELSE made  BY <2>1 DEF TakeTurn
  <2>3. /\ r \in Records(made') /\ r.session # 0 /\ r.previous = rec.previous /\ r.queue = rec.queue
        /\ s \in 0..made'
    BY <2>2, TurnSession
  <2> HIDE DEF r
  <2>4. q = WithTask(r, s)  BY DEF WithTask
  <2> HIDE DEF s, q
  <2>5. LET y == WithTask(r, s)
        IN  /\ y \in Records(made') /\ y.session = r.session
            /\ y.previous = r.previous /\ y.queue = r.queue
    BY <2>3, EditTask
  <2>6. /\ q \in Records(made') /\ q.session # 0 /\ q.previous = rec.previous /\ q.queue = rec.queue
    BY <2>3, <2>4, <2>5
  <2> QED  BY <1>0, <2>1, <2>6, TakeKeeps
<1>3. CASE HandleTaskResume(o) /\ ~(Busy \/ rec.task = 0 \/ ledger[rec.task] # "paused")
  <2> DEFINE q == MarkTurn(rec, rec.task)
             z == rec.task
  <2>1. /\ Fresh /\ UNCHANGED <<sent, offset, ledger, starts, crashes>> /\ ~Busy
        /\ TakeTurn(q, 0, z, TRUE, o)
    BY <1>3 DEF HandleTaskResume, Handling, At, Current, Fresh
  <2>2. z \in Sessions /\ made' = IF z > made THEN z ELSE made  BY <2>1 DEF TakeTurn
  <2>3. /\ q \in Records(made') /\ q.session # 0 /\ q.previous = rec.previous /\ q.queue = rec.queue
    BY <2>2, TurnSession
  <2> HIDE DEF q, z
  <2> QED  BY <1>0, <2>1, <2>3, TakeKeeps
<1> QED  BY <1>1, <1>2, <1>3

-----------------------------------------------------------------------------
(* Turns are started, or given back.                                       *)

\* Where the loop goes on when the launch is over, with n failures by then.
LEMMA LaunchLoop ==
    ASSUME ChatInv, NEW t, NEW n \in Nat, n >= faults,
           \/ loop' = loop
           \/ At("launch") /\ loop' = Goto("commit")
           \/ At("launch") /\ loop' = HandlingFailed /\ n >= faults + 1
    PROVE  /\ loop' \in Loops /\ loop'.tries <= n
           /\ loop' = loop \/ loop'.pc \in {"commit", "poll"}
           /\ loop'.pc = "commit" => At("commit") \/ offset <= rec.seen \/ n >= MaxAttempts
           /\ loop' # loop => sent # "none" /\ loop.pc = "launch"
<1>1. loop.tries <= faults /\ loop.tries \in Nat /\ faults \in Nat
  BY Typed DEF ChatInv, OffsetFits
<1>2. CASE loop' = loop
  BY <1>1, <1>2 DEF ChatInv, ChatTypes, Loops, At
<1>3. CASE At("launch") /\ loop' = Goto("commit")
  <2>1. loop' \in Loops /\ loop'.pc = "commit" /\ loop'.tries = loop.tries
    BY <1>3, GotoLoop DEF ChatInv, LoopSteps
  <2> QED  BY <1>1, <1>3, <2>1 DEF ChatInv, OffsetFits, At
<1>4. CASE At("launch") /\ loop' = HandlingFailed /\ n >= faults + 1
  <2>1. /\ loop' \in Loops /\ loop'.pc \in {"poll", "commit"}
        /\ loop'.pc = "commit" => n >= MaxAttempts
        /\ loop'.tries <= n
    BY <1>4, FailedLoop DEF ChatInv
  <2> QED  BY <1>4, <2>1 DEF ChatInv, OffsetFits, At
<1> QED  BY <1>2, <1>3, <1>4

\* Prompts stay in order when the one in hand is started.
LEMMA PromptsStart ==
    ASSUME ChatTypes, PromptsFit, NEW t \in TurnIds, turns[t].phase = "prepared",
           \A u \in TurnIds \ {t} : turns[u].phase # "prepared" /\ turns'[u] = turns[u],
           turns'[t].phase = "running", turns'[t].prompt = turns[t].prompt,
           rec'.seen = rec.seen, rec'.queue = rec.queue,
           starts' = IF turns[t].prompt = 0 THEN starts
                     ELSE [starts EXCEPT ![turns[t].prompt] = @ + 1]
    PROVE  PromptsFit' /\ starts' \in [Updates -> 0..1]
<1> DEFINE p == turns[t].prompt
           q == rec.queue
<1>0. /\ p \in 0..MaxUpdates /\ p <= rec.seen /\ starts \in [Updates -> 0..1]
      /\ q \in Seq(Updates) /\ rec.seen \in Nat /\ MaxUpdates \in Nat
  BY SMTT(30), Typed DEF ChatTypes, PromptsFit
<1>1. CASE p = 0
  <2>1. starts' = starts  BY <1>1
  <2>2. \A u \in TurnIds \ {t} : TurnGoesOn(u)  BY DEF TurnGoesOn
  <2>3. /\ \A u \in TurnIds : turns'[u].prompt = turns[u].prompt
        /\ turns'[t].prompt = 0
    BY <1>1
  <2>4. ASSUME NEW u \in TurnIds
        PROVE  /\ turns'[u].prompt <= rec'.seen
               /\ turns'[u].phase = "none" => turns'[u].prompt = 0
               /\ turns'[u].prompt # 0 =>
                     IF turns'[u].phase = "prepared"
                     THEN /\ starts'[turns'[u].prompt] = 0
                          /\ \A i \in 1..Len(rec'.queue) : turns'[u].prompt < rec'.queue[i]
                     ELSE starts'[turns'[u].prompt] = 1
    BY <1>0, <2>1, <2>3 DEF PromptsFit
  <2> QED  BY <1>0, <2>1, <2>4 DEF PromptsFit
<1>2. CASE p # 0
  <2>1. p \in Updates /\ p \in Nat  BY <1>0, <1>2 DEF Updates
  <2>2. starts[p] = 0 /\ \A i \in 1..Len(q) : p < q[i]  BY <1>2 DEF PromptsFit
  <2>3. starts' = [starts EXCEPT ![p] = starts[p] + 1]  BY <1>2
  <2>4. starts'[p] = 1 /\ \A u \in Updates \ {p} : starts'[u] = starts[u]
    BY <1>0, <2>1, <2>2, <2>3
  <2>5. starts' \in [Updates -> 0..1]
    <3>1. starts[p] + 1 = 1 /\ 1 \in 0..1  BY <2>2
    <3> HIDE DEF p
    <3>2. starts' = [starts EXCEPT ![p] = 1]  BY <2>3, <3>1
    <3> QED  BY <1>0, <3>1, <3>2
  <2>6. ASSUME NEW i \in 1..Len(rec'.queue)
        PROVE  rec'.queue[i] <= rec'.seen /\ starts'[rec'.queue[i]] = 0
    <3>1. i \in 1..Len(q) /\ rec'.queue[i] = q[i]  OBVIOUS
    <3>2. q[i] \in Updates  BY <1>0, <3>1
    <3>3. p < q[i] /\ q[i] \in Nat  BY <2>2, <3>1, <3>2 DEF Updates
    <3>4. q[i] # p  BY <2>1, <3>3
    <3>5. starts[q[i]] = 0 /\ q[i] <= rec.seen  BY <3>1 DEF PromptsFit
    <3> HIDE DEF q, p
    <3> QED  BY <2>4, <3>1, <3>2, <3>4, <3>5
  <2>7. \A i, j \in 1..Len(rec'.queue) : i < j => rec'.queue[i] < rec'.queue[j]
    BY DEF PromptsFit
  <2>8. ASSUME NEW u \in TurnIds
        PROVE  /\ turns'[u].prompt <= rec'.seen
               /\ turns'[u].phase = "none" => turns'[u].prompt = 0
               /\ turns'[u].prompt # 0 =>
                     IF turns'[u].phase = "prepared"
                     THEN /\ starts'[turns'[u].prompt] = 0
                          /\ \A i \in 1..Len(rec'.queue) : turns'[u].prompt < rec'.queue[i]
                     ELSE starts'[turns'[u].prompt] = 1
    <3>1. CASE u = t
      <4>1. turns'[t].prompt = p /\ turns'[t].phase = "running" /\ rec'.seen = rec.seen
        OBVIOUS
      <4> HIDE DEF p
      <4> QED  BY <1>0, <2>4, <3>1, <4>1
    <3>2. CASE u # t
      <4> DEFINE z == turns[u].prompt
      <4>1. turns'[u] = turns[u] /\ turns[u].phase # "prepared"  BY <3>2
      <4>2. z \in 0..MaxUpdates  BY Typed
      <4>3. z # 0 => starts[z] = 1 /\ z \in Updates  BY <4>1, <4>2 DEF PromptsFit, Updates
      <4>4. z # 0 => starts'[z] = 1  BY <2>2, <2>4, <4>3
      <4> QED  BY <4>1, <4>4 DEF PromptsFit
    <3> QED  BY <3>1, <3>2
  <2>9. ASSUME NEW u \in Updates, starts'[u] # 0  PROVE u <= rec'.seen
    <3>1. CASE u = p
      BY <1>0, <3>1
    <3>2. CASE u # p
      BY <2>4, <2>9, <3>2 DEF PromptsFit
    <3> QED  BY <3>1, <3>2
  <2> HIDE DEF p, q
  <2> QED  BY <2>5, <2>6, <2>7, <2>8, <2>9 DEF PromptsFit
<1> QED  BY <1>1, <1>2

\* The turn that is prepared is the one in the slot, and the only one.
LEMMA PreparedAlone ==
    ASSUME ChatInv, NEW t \in TurnIds, IsRunning(t)
    PROVE  /\ slot = t /\ t # 0 /\ rec.session # 0
           /\ \A u \in TurnIds \ {t} : turns[u].phase \notin {"prepared", "running"}
           /\ loop.pc \notin {"down", "recover", "requeue"}
<1>1. slot = t /\ t # 0  BY Typed DEF ChatInv, SlotFits
<1>2. Busy  BY <1>1 DEF Busy
<1> QED  BY <1>1, <1>2 DEF ChatInv, SlotFits, IsRunning

\* A turn is started.
LEMMA StartKeeps ==
    ASSUME ChatInv, NEW t \in TurnIds, Start(t)
    PROVE  ChatInv'
<1>1. /\ turns[t].phase = "prepared" /\ rec' = Marked(rec)
      /\ turns' = [turns EXCEPT ![t].phase = "running"]
      /\ starts' = IF turns[t].prompt = 0 THEN starts
                   ELSE [starts EXCEPT ![turns[t].prompt] = @ + 1]
      /\ loop' = loop \/ (At("launch") /\ loop' = Goto("commit"))
      /\ UNCHANGED <<sent, offset, made, ledger, slot, faults, crashes>>
  BY DEF Start, Marked, Launched
<1>2. IsRunning(t)  BY <1>1 DEF IsRunning
<1>3. /\ slot = t /\ t # 0 /\ rec.session # 0
      /\ \A u \in TurnIds \ {t} : turns[u].phase \notin {"prepared", "running"}
      /\ loop.pc \notin {"down", "recover", "requeue"}
  BY <1>2, PreparedAlone
<1>4. /\ turns' \in [TurnIds -> Turns] /\ turns'[t].phase = "running"
      /\ turns'[t].prompt = turns[t].prompt
      /\ \A u \in TurnIds \ {t} : turns'[u] = turns[u]
  <2>1. "running" \in {"running", "settled", "paused", "reported"}
        /\ turns' = [turns EXCEPT ![t].phase = "running"]
    BY <1>1
  <2> QED  BY <1>1, <2>1, TurnPhase DEF ChatInv, ChatTypes
<1>5. /\ rec' \in Records(made) /\ rec'.seen = rec.seen /\ rec'.session = rec.session
      /\ rec'.previous = rec.previous /\ rec'.queue = rec.queue
  <2>1. LET y == Marked(rec)
        IN  /\ y \in Records(made) /\ y.seen = rec.seen /\ y.session = rec.session
            /\ y.previous = rec.previous /\ y.queue = rec.queue
    BY EditMark DEF ChatInv, ChatTypes
  <2> QED  BY <1>1, <2>1
<1>6. PromptsFit' /\ starts' \in [Updates -> 0..1]
  BY <1>1, <1>3, <1>4, <1>5, PromptsStart DEF ChatInv
<1>7. /\ faults \in Nat /\ faults' = faults /\ faults >= faults
      /\ loop' \in Loops /\ loop'.tries <= faults
      /\ loop' = loop \/ loop'.pc \in {"commit", "poll"}
      /\ loop'.pc = "commit" => At("commit") \/ offset <= rec.seen \/ faults >= MaxAttempts
      /\ loop' # loop => sent # "none" /\ loop.pc = "launch"
  <2>1. faults \in Nat /\ faults >= faults  BY Typed DEF ChatInv
  <2> QED  BY <1>1, <2>1, LaunchLoop
<1>8. SlotFits'
  <2>1. Len(rec'.queue) <= FollowupCap + 1 /\ slot \in {0, t} /\ slot' = t
        /\ loop'.pc \notin {"down", "recover", "requeue"} /\ rec'.session # 0
    BY <1>1, <1>3, <1>5, <1>7 DEF ChatInv, SlotFits
  <2> QED  BY <1>4, <2>1, SlotTaken DEF ChatInv
<1>9. OffsetFits'
  BY <1>1, <1>5, <1>7 DEF ChatInv, OffsetFits, At
<1>10. ChatTypes'
  BY <1>1, <1>4, <1>5, <1>6, <1>7 DEF ChatInv, ChatTypes, Loops
<1> QED  BY <1>6, <1>8, <1>9, <1>10 DEF ChatInv

\* A prompt goes back to the head of the queue.
LEMMA PromptsReturn ==
    ASSUME ChatTypes, PromptsFit, NEW t \in TurnIds, turns[t].phase = "prepared",
           turns[t].prompt # 0, starts' = starts, rec'.seen = rec.seen,
           rec'.queue = <<turns[t].prompt>> \o rec.queue,
           turns' = [turns EXCEPT ![t] = NoTurn],
           \A u \in TurnIds \ {t} : turns[u].phase # "prepared"
    PROVE  PromptsFit'
<1> DEFINE p == turns[t].prompt
           q == rec.queue
           r == rec'.queue
           n == Len(rec.queue)
<1>0. /\ p \in Updates /\ p <= rec.seen /\ starts[p] = 0 /\ rec.seen \in Nat
      /\ q \in Seq(Updates) /\ n \in Nat /\ Updates \subseteq Nat
      /\ \A i \in 1..n : p < q[i]
  <2>1. p \in 0..MaxUpdates /\ p # 0 /\ MaxUpdates \in Nat  BY Typed
  <2>2. p \in Updates /\ Updates \subseteq Nat  BY <2>1 DEF Updates
  <2>3. q \in Seq(Updates) /\ n \in Nat /\ rec.seen \in Nat  BY Typed
  <2>4. p <= rec.seen /\ starts[p] = 0 /\ \A i \in 1..n : p < q[i]  BY DEF PromptsFit
  <2> QED  BY <2>2, <2>3, <2>4
<1>1. /\ Len(r) = n + 1 /\ r[1] = p
      /\ \A i \in 1..Len(r) : i = 1 \/ (i - 1 \in 1..n /\ r[i] = q[i - 1])
  <2>1. <<p>> \in Seq(Updates) /\ Len(<<p>>) = 1 /\ <<p>>[1] = p  BY <1>0
  <2>2. r = <<p>> \o q  OBVIOUS
  <2> HIDE DEF p, q, r
  <2>3. Len(r) = n + 1  BY <1>0, <2>1, <2>2 DEF q
  <2> HIDE DEF n
  <2>4. ASSUME NEW i \in 1..Len(r), i # 1  PROVE i - 1 \in 1..n /\ r[i] = q[i - 1]
    BY <1>0, <2>1, <2>2, <2>3, <2>4 DEF n, q
  <2> QED  BY <1>0, <2>1, <2>2, <2>3, <2>4
<1>2. \A i \in 1..n : q[i] <= rec.seen /\ starts[q[i]] = 0  BY DEF PromptsFit
<1>3. \A i \in 1..n, j \in 1..n : i < j => q[i] < q[j]  BY DEF PromptsFit
<1>4. ASSUME NEW i \in 1..Len(r)
      PROVE  r[i] <= rec'.seen /\ starts'[r[i]] = 0
  <2>1. CASE i = 1  BY <1>0, <1>1, <2>1
  <2>2. CASE i # 1  BY <1>1, <1>2, <2>2
  <2> QED  BY <2>1, <2>2
<1>5. ASSUME NEW i \in 1..Len(r), NEW j \in 1..Len(r), i < j
      PROVE  r[i] < r[j]
  <2>0. i \in Nat /\ j \in Nat /\ j # 1 /\ i >= 1  BY <1>0, <1>1, <1>5
  <2>1. CASE i = 1  BY <1>0, <1>1, <2>0, <2>1
  <2>2. CASE i # 1
    <3>1. i - 1 < j - 1  BY <1>5, <2>0
    <3> QED  BY <1>1, <1>3, <2>0, <2>2, <3>1
  <2> QED  BY <2>1, <2>2
<1>6. turns'[t].phase = "none" /\ turns'[t].prompt = 0 /\ \A u \in TurnIds \ {t} : turns'[u] = turns[u]
  BY DEF ChatTypes, NoTurn
<1> HIDE DEF p, q, r, n
<1>7. ASSUME NEW u \in TurnIds
      PROVE  /\ turns'[u].prompt <= rec'.seen
             /\ turns'[u].phase = "none" => turns'[u].prompt = 0
             /\ turns'[u].prompt # 0 =>
                   IF turns'[u].phase = "prepared"
                   THEN /\ starts'[turns'[u].prompt] = 0
                        /\ \A i \in 1..Len(rec'.queue) : turns'[u].prompt < rec'.queue[i]
                   ELSE starts'[turns'[u].prompt] = 1
  BY <1>0, <1>6 DEF PromptsFit
<1>8. \A u \in Updates : starts'[u] # 0 => u <= rec'.seen  BY DEF PromptsFit
<1> QED  BY <1>4, <1>5, <1>7, <1>8 DEF PromptsFit, r

\* What abort_prepared_turn does to the turn t: the slot and the turn are
\* given back, and a queued prompt nobody stopped returns to the queue if the
\* save succeeds.  A save or a message has failed, or /stop came before.
Aborted(t) ==
    /\ turns[t].phase = "prepared" /\ Yielded /\ slot = t /\ slot' = 0
    /\ turns' = [turns EXCEPT ![t] = NoTurn]
    /\ faults' \in 0..MaxFaults /\ faults' >= faults
    /\ faults' >= faults + 1 \/ turns[t].cancelled
    /\ rec' \in Records(made) /\ rec'.seen = rec.seen /\ rec'.session = rec.session
    /\ rec'.previous = rec.previous
    /\ \/ rec'.queue = rec.queue
       \/ turns[t].requeue /\ rec'.queue = <<turns[t].prompt>> \o rec.queue
    /\ \/ loop' = loop
       \/ At("launch") /\ loop' = Goto("commit")
       \/ At("launch") /\ loop' = HandlingFailed /\ faults' >= faults + 1
    /\ UNCHANGED <<sent, offset, made, ledger, starts, crashes>>

\* Saving what abort_prepared_turn makes of the record.
LEMMA AbortedRecord ==
    ASSUME ChatInv, NEW t \in TurnIds, NEW r \in Records(made), SameBook(rec, r),
           NEW os \in Seq(Outcomes), NEW o \in Outcomes, NEW ok, Abort(t, r, os, o, ok), slot = t,
           turns[t].phase = "prepared"
    PROVE  /\ slot' = 0 /\ turns' = [turns EXCEPT ![t] = NoTurn]
           /\ rec' \in Records(made) /\ rec'.seen = rec.seen /\ rec'.session = rec.session
           /\ rec'.previous = rec.previous
           /\ \/ rec'.queue = rec.queue
              \/ turns[t].requeue /\ rec'.queue = <<turns[t].prompt>> \o rec.queue
           /\ Spend(Append(os, o)) /\ Launched(t, ok /\ o = "ok")
<1> DEFINE s == turns[t].session
           cleared == ClearTurn(IF turns[t].long THEN ClearTaskOf(r, s) ELSE r)
           back == turns[t].requeue /\ ~turns[t].cancelled
           whole == IF back THEN [cleared EXCEPT !.queue = <<turns[t].prompt>> \o @] ELSE cleared
<1>0. made \in Nat /\ rec.queue \in Seq(Updates)  BY Typed DEF ChatInv
<1>1. cleared \in Records(made) /\ SameBook(r, cleared)
  <2>1. CASE turns[t].long
    <3>1. cleared = ClearTurn(ClearTaskOf(r, s))  BY <2>1
    <3> QED  BY <1>0, <3>1, ClearedRecord
  <2>2. CASE ~turns[t].long
    <3>1. cleared = ClearTurn(r)  BY <2>2
    <3> QED  BY <1>0, <3>1, ClearedRecord
  <2> QED  BY <2>1, <2>2
<1>2. /\ slot' = 0 /\ rec' = (IF o = "lost" THEN r ELSE whole)
      /\ turns' = [turns EXCEPT ![t] = NoTurn]
      /\ Spend(Append(os, o)) /\ Launched(t, ok /\ o = "ok")
  BY DEF Abort
<1> HIDE DEF cleared
<1>3. /\ whole \in Records(made) /\ whole.seen = rec.seen /\ whole.session = rec.session
      /\ whole.previous = rec.previous
      /\ \/ whole.queue = rec.queue
         \/ turns[t].requeue /\ whole.queue = <<turns[t].prompt>> \o rec.queue
  <2>0. /\ cleared.seen = rec.seen /\ cleared.session = rec.session
        /\ cleared.previous = rec.previous /\ cleared.queue = rec.queue
    BY <1>1 DEF SameBook
  <2>1. CASE ~back
    BY <1>1, <2>0, <2>1
  <2>2. CASE back
    <3> DEFINE w == <<turns[t].prompt>> \o rec.queue
    <3>1. w \in Seq(Updates)
      <4>1. turns[t].prompt \in Updates
        <5>1. turns[t].prompt # 0 /\ turns[t].prompt \in 0..MaxUpdates
          BY <2>2, Typed DEF ChatInv, SlotFits
        <5> QED  BY SMTT(30), <5>1, Typed DEF ChatInv, Updates
      <4> QED  BY <1>0, <4>1
    <3>2. whole = WithQueue(cleared, w)  BY <2>0, <2>2 DEF WithQueue
    <3> HIDE DEF w, whole
    <3>3. LET y == WithQueue(cleared, w)
          IN  /\ y \in Records(made) /\ y.seen = cleared.seen /\ y.session = cleared.session
              /\ y.previous = cleared.previous /\ y.queue = w
      BY <1>1, <3>1, EditQueue
    <3> QED  BY <2>0, <2>2, <3>2, <3>3 DEF w
  <2> QED  BY <2>1, <2>2
<1> HIDE DEF whole
<1>4. r.seen = rec.seen /\ r.session = rec.session /\ r.previous = rec.previous /\ r.queue = rec.queue
  BY DEF SameBook
<1> QED  BY <1>2, <1>3, <1>4

\* The saves of a launch that failed.
LEMMA SpendMore ==
    ASSUME NEW os \in Seq(Outcomes), NEW o \in Outcomes, faults \in Nat, MaxFaults \in Nat,
           Spend(Append(os, o))
    PROVE  /\ faults' \in 0..MaxFaults /\ faults' >= faults
           /\ o # "ok" \/ (\E i \in 1..Len(os) : os[i] # "ok") => faults' >= faults + 1
<1> DEFINE all == Append(os, o)
<1>1. all \in Seq(Outcomes) /\ Len(all) = Len(os) + 1 /\ Len(os) \in Nat
      /\ all[Len(os) + 1] = o /\ \A i \in 1..Len(os) : all[i] = os[i]
  OBVIOUS
<1>2. Spend(all)  OBVIOUS
<1> HIDE DEF all
<1>3. faults' \in 0..MaxFaults /\ faults' >= faults
      /\ ((\E i \in 1..Len(all) : all[i] # "ok") => faults' >= faults + 1)
  BY <1>1, <1>2, SpendCounts
<1>4. Len(os) + 1 \in 1..Len(all) /\ \A i \in 1..Len(os) : i \in 1..Len(all)  BY <1>1
<1> QED  BY <1>1, <1>3, <1>4

\* One prompt more.
LEMMA OneMore ==
    ASSUME NEW S, NEW a \in S, NEW q \in Seq(S)
    PROVE  /\ Len(<<a>> \o q) = Len(q) + 1
           /\ \A i \in 1..Len(q) : /\ i + 1 \in DOMAIN (<<a>> \o q)
                                   /\ (<<a>> \o q)[i + 1] = q[i]
<1> DEFINE x == <<a>>
<1>1. x \in Seq(S) /\ Len(x) = 1  OBVIOUS
<1> HIDE DEF x
<1>2. Len(x \o q) = Len(x) + Len(q) /\ x \o q \in Seq(S)  BY <1>1, ConcatProperties
<1>3. Len(x \o q) = Len(q) + 1  BY <1>1, <1>2
<1>4. ASSUME NEW i \in 1..Len(q)
      PROVE  i + 1 \in DOMAIN (x \o q) /\ (x \o q)[i + 1] = q[i]
  <2>1. Len(q) \in Nat  OBVIOUS
  <2>2. i + 1 \in 1..(Len(x) + Len(q)) /\ i + 1 > Len(x)  BY <1>1, <2>1
  <2>3. \A k \in 1..(Len(x) + Len(q)) :
            (x \o q)[k] = IF k <= Len(x) THEN x[k] ELSE q[k - Len(x)]
    BY <1>1, ConcatProperties
  <2>4. ~(i + 1 <= Len(x)) /\ i + 1 - Len(x) = i  BY <1>1, <2>1
  <2>5. DOMAIN (x \o q) = 1..Len(x \o q)  BY <1>2
  <2> QED  BY <1>2, <2>2, <2>3, <2>4, <2>5
<1> QED  BY <1>3, <1>4 DEF x

\* The ways a launch fails.
LEMMA LaunchFails ==
    ASSUME ChatInv, NEW t \in TurnIds,
           \E o \in Outcomes :
               \/ SendFails(t, o) \/ StartCancelled(t, o) \/ StartFails(t, o)
               \/ \E failed \in Outcomes : RecordFails(t, failed, o)
    PROVE  Aborted(t)
<1> DEFINE marked == [rec EXCEPT !.active = TRUE]
<1>0. /\ faults \in Nat /\ MaxFaults \in Nat /\ made \in Nat
      /\ rec \in Records(made) /\ SameBook(rec, rec)
      /\ marked \in Records(made) /\ SameBook(rec, marked)
      /\ "lost" \in Outcomes
  <2>1. faults \in Nat /\ MaxFaults \in Nat /\ made \in Nat /\ rec \in Records(made)
    BY Typed DEF ChatInv, ChatTypes
  <2>2. marked = Marked(rec)  BY DEF Marked
  <2> HIDE DEF marked
  <2>3. LET y == Marked(rec)
        IN  /\ y \in Records(made) /\ y.seen = rec.seen /\ y.session = rec.session
            /\ y.previous = rec.previous /\ y.queue = rec.queue
    BY <2>1, EditMark
  <2> QED  BY <2>1, <2>2, <2>3 DEF SameBook, Outcomes
<1>1. turns[t].phase = "prepared" /\ Yielded /\ UNCHANGED <<sent, offset, made, ledger, starts, crashes>>
  BY DEF SendFails, StartCancelled, StartFails, RecordFails
<1>2. slot = t
  <2>1. IsRunning(t)  BY <1>1 DEF IsRunning
  <2> QED  BY <2>1, PreparedAlone
<1> HIDE DEF marked
<1>3. ASSUME NEW r \in Records(made), SameBook(rec, r), NEW os \in Seq(Outcomes),
             NEW o \in Outcomes, NEW ok, Abort(t, r, os, o, ok),
             \/ ~ok /\ \E i \in 1..Len(os) : os[i] # "ok"
             \/ ok /\ turns[t].cancelled
      PROVE  Aborted(t)
  <2>1. /\ slot' = 0 /\ turns' = [turns EXCEPT ![t] = NoTurn]
        /\ rec' \in Records(made) /\ rec'.seen = rec.seen /\ rec'.session = rec.session
        /\ rec'.previous = rec.previous
        /\ \/ rec'.queue = rec.queue
           \/ turns[t].requeue /\ rec'.queue = <<turns[t].prompt>> \o rec.queue
        /\ Spend(Append(os, o)) /\ Launched(t, ok /\ o = "ok")
    BY <1>1, <1>2, <1>3, AbortedRecord
  <2>2. /\ faults' \in 0..MaxFaults /\ faults' >= faults
        /\ o # "ok" \/ (\E i \in 1..Len(os) : os[i] # "ok") => faults' >= faults + 1
    BY <1>0, <2>1, SpendMore
  <2>3. faults' >= faults + 1 \/ turns[t].cancelled  BY <1>3, <2>2
  <2>4. \/ loop' = loop
        \/ At("launch") /\ loop' = Goto("commit")
        \/ At("launch") /\ loop' = HandlingFailed /\ faults' >= faults + 1
    BY <1>3, <2>1, <2>2 DEF Launched
  <2> QED  BY <1>1, <1>2, <2>1, <2>2, <2>3, <2>4 DEF Aborted
<1>4. ASSUME NEW x \in Outcomes
      PROVE  <<x>> \in Seq(Outcomes) /\ <<>> \in Seq(Outcomes)
             /\ (x # "ok" => \E i \in 1..Len(<<x>>) : <<x>>[i] # "ok")
  <2>1. Len(<<x>>) = 1 /\ <<x>>[1] = x /\ 1 \in 1..1  OBVIOUS
  <2> QED  BY <2>1
<1>5. PICK o \in Outcomes :
          \/ SendFails(t, o) \/ StartCancelled(t, o) \/ StartFails(t, o)
          \/ \E failed \in Outcomes : RecordFails(t, failed, o)
  OBVIOUS
<1>6. CASE SendFails(t, o)
  <2>1. Abort(t, rec, <<"lost">>, o, FALSE)  BY <1>6 DEF SendFails
  <2>2. <<"lost">> \in Seq(Outcomes) /\ \E i \in 1..Len(<<"lost">>) : <<"lost">>[i] # "ok"
    BY <1>0, <1>4
  <2> QED  BY <1>0, <1>3, <2>1, <2>2
<1>7. CASE StartFails(t, o)
  <2>1. Abort(t, marked, <<"lost">>, o, FALSE)  BY <1>7 DEF StartFails, marked
  <2>2. <<"lost">> \in Seq(Outcomes) /\ \E i \in 1..Len(<<"lost">>) : <<"lost">>[i] # "ok"
    BY <1>0, <1>4
  <2> QED  BY <1>0, <1>3, <2>1, <2>2
<1>8. CASE StartCancelled(t, o)
  <2>1. Abort(t, marked, <<>>, o, TRUE) /\ turns[t].cancelled  BY <1>8 DEF StartCancelled, marked
  <2>2. <<>> \in Seq(Outcomes)  OBVIOUS
  <2> QED  BY <1>0, <1>3, <2>1, <2>2
<1>9. ASSUME NEW failed \in Outcomes, RecordFails(t, failed, o)  PROVE Aborted(t)
  <2> DEFINE r == Saved(failed, marked)
  <2>1. Abort(t, r, <<failed>>, o, FALSE) /\ failed # "ok"  BY <1>9 DEF RecordFails, marked
  <2>2. r \in Records(made) /\ SameBook(rec, r)  BY <1>0 DEF Saved
  <2>3. <<failed>> \in Seq(Outcomes) /\ \E i \in 1..Len(<<failed>>) : <<failed>>[i] # "ok"
    BY <1>4, <2>1
  <2> HIDE DEF r
  <2> QED  BY <1>3, <2>1, <2>2, <2>3
<1> QED  BY <1>5, <1>6, <1>7, <1>8, <1>9

\* A turn is given back.
LEMMA AbortKeeps ==
    ASSUME ChatInv, NEW t \in TurnIds, Aborted(t)
    PROVE  ChatInv'
<1>1. /\ turns[t].phase = "prepared" /\ slot = t /\ slot' = 0
      /\ turns' = [turns EXCEPT ![t] = NoTurn]
      /\ faults' \in 0..MaxFaults /\ faults' >= faults
      /\ rec' \in Records(made) /\ rec'.seen = rec.seen /\ rec'.session = rec.session
      /\ rec'.previous = rec.previous
      /\ \/ rec'.queue = rec.queue
         \/ turns[t].requeue /\ rec'.queue = <<turns[t].prompt>> \o rec.queue
      /\ \/ loop' = loop
         \/ At("launch") /\ loop' = Goto("commit")
         \/ At("launch") /\ loop' = HandlingFailed /\ faults' >= faults + 1
      /\ UNCHANGED <<sent, offset, made, ledger, starts, crashes>>
  BY DEF Aborted
<1>2. /\ slot = t /\ t # 0 /\ rec.session # 0
      /\ \A u \in TurnIds \ {t} : turns[u].phase \notin {"prepared", "running"}
      /\ loop.pc \notin {"down", "recover", "requeue"}
  <2>1. IsRunning(t)  BY <1>1 DEF IsRunning
  <2> QED  BY <2>1, PreparedAlone
<1>3. /\ turns' \in [TurnIds -> Turns] /\ turns'[t] = NoTurn /\ NoTurn.phase = "none"
      /\ NoTurn.prompt = 0 /\ \A u \in TurnIds \ {t} : turns'[u] = turns[u]
  <2>1. NoTurn \in Turns /\ NoTurn.phase = "none" /\ NoTurn.prompt = 0
    <3>1. 0 \in 0..MaxUpdates /\ 0 \in 0..MaxSessions  BY Typed DEF ChatInv
    <3> QED  BY <3>1 DEF NoTurn, Turns
  <2> QED  BY <1>1, <2>1, TurnSet DEF ChatInv, ChatTypes
<1>4. /\ loop' \in Loops /\ loop'.tries <= faults'
      /\ loop' = loop \/ loop'.pc \in {"commit", "poll"}
      /\ loop'.pc = "commit" => At("commit") \/ offset <= rec.seen \/ faults' >= MaxAttempts
      /\ loop' # loop => sent # "none" /\ loop.pc = "launch"
  <2> DEFINE n == faults'
  <2>1. n \in Nat /\ n >= faults  BY <1>1
  <2>2. \/ loop' = loop
        \/ At("launch") /\ loop' = Goto("commit")
        \/ At("launch") /\ loop' = HandlingFailed /\ n >= faults + 1
    BY <1>1
  <2> HIDE DEF n
  <2>3. /\ loop' \in Loops /\ loop'.tries <= n
        /\ loop' = loop \/ loop'.pc \in {"commit", "poll"}
        /\ loop'.pc = "commit" => At("commit") \/ offset <= rec.seen \/ n >= MaxAttempts
        /\ loop' # loop => sent # "none" /\ loop.pc = "launch"
    BY <2>1, <2>2, LaunchLoop
  <2> QED  BY <2>3 DEF n
<1>5. SlotFits'
  <2>1. Len(rec'.queue) <= FollowupCap + 1
    <3>1. CASE rec'.queue = rec.queue
      BY <3>1 DEF ChatInv, SlotFits
    <3>2. CASE turns[t].requeue /\ rec'.queue = <<turns[t].prompt>> \o rec.queue
      <4>1. /\ Len(rec.queue) <= FollowupCap /\ FollowupCap \in Nat /\ Len(rec.queue) \in Nat
            /\ rec.queue \in Seq(Updates) /\ rec'.queue \in Seq(Updates)
        BY <1>1, <3>2, Typed DEF ChatInv, SlotFits, Records
      <4>2. turns[t].prompt \in Updates
        <5>1. turns[t].prompt \in 0..MaxUpdates /\ turns[t].prompt # 0 /\ MaxUpdates \in Nat
          BY <1>1, <3>2, Typed DEF ChatInv, SlotFits
        <5> QED  BY <5>1 DEF Updates
      <4>7. Len(rec'.queue) = Len(rec.queue) + 1  BY <3>2, <4>1, <4>2, OneMore
      <4> QED  BY <4>1, <4>7
    <3> QED  BY <1>1, <3>1, <3>2
  <2>2. \A u \in TurnIds : turns'[u].phase \notin {"prepared", "running"}
    BY <1>2, <1>3
  <2>3. rec'.session # 0 /\ loop'.pc \notin {"down", "recover", "requeue"}
    BY <1>1, <1>2, <1>4
  <2> QED  BY <1>1, <2>1, <2>2, <2>3, SlotFree
<1>6. PromptsFit'
  <2>1. CASE rec'.queue = rec.queue
    <3>1. \A u \in TurnIds : TurnGoesOn(u)  BY <1>3 DEF TurnGoesOn
    <3>2. rec'.seen \in Nat /\ rec'.seen >= rec.seen /\ starts' = starts
      BY <1>1, Typed DEF ChatInv
    <3> QED  BY <2>1, <3>1, <3>2, PromptsQuiet DEF ChatInv
  <2>2. CASE turns[t].requeue /\ rec'.queue = <<turns[t].prompt>> \o rec.queue
    <3>1. turns[t].prompt # 0  BY <1>1, <2>2 DEF ChatInv, SlotFits
    <3>2. \A u \in TurnIds \ {t} : turns[u].phase # "prepared"  BY <1>2
    <3> QED  BY <1>1, <2>2, <3>1, <3>2, PromptsReturn DEF ChatInv
  <2> QED  BY <1>1, <2>1, <2>2
<1>7. OffsetFits'
  <2>1. loop'.pc \notin {"reply", "launch", "commit"} \/ sent # "none"
    BY <1>4 DEF ChatInv, OffsetFits
  <2>2. faults \in Nat /\ faults' \in Nat /\ MaxAttempts \in Nat  BY <1>1, Typed DEF ChatInv
  <2>3. loop'.pc = "commit" => sent = "denied" \/ offset <= rec.seen \/ faults' >= MaxAttempts
    BY <1>1, <1>4, <2>2 DEF ChatInv, OffsetFits, At
  <2> QED  BY <1>1, <1>4, <2>1, <2>3 DEF ChatInv, OffsetFits
<1>8. ChatTypes'
  BY <1>1, <1>3, <1>4 DEF ChatInv, ChatTypes, Loops
<1> QED  BY <1>5, <1>6, <1>7, <1>8 DEF ChatInv

-----------------------------------------------------------------------------
(* Turns run, settle and are reported.                                     *)

\* A turn goes on: the record may forget what it said of it.
LEMMA TurnRuns ==
    ASSUME ChatInv, NEW t \in TurnIds, UNCHANGED <<sent, offset, made, slot, loop, starts, crashes>>,
           turns' \in [TurnIds -> Turns], \A u \in TurnIds \ {t} : turns'[u] = turns[u],
           turns'[t].prompt = turns[t].prompt,
           turns[t].phase \notin {"none", "prepared"}, turns'[t].phase \notin {"none", "prepared", "running"},
           ledger' \in [Sessions -> {"not_long_task", "running", "paused", "completed", "failed"}],
           faults' \in 0..MaxFaults, faults' >= faults,
           rec' \in Records(made), SameBook(rec, rec')
    PROVE  ChatInv'
<1>1. /\ rec'.seen = rec.seen /\ rec'.session = rec.session /\ rec'.previous = rec.previous
      /\ rec'.queue = rec.queue
  BY DEF SameBook
<1>2. loop.pc \notin {"down", "recover", "requeue"}  BY DEF ChatInv, SlotFits
<1>3. SlotFits'
  <2>1. \A u \in TurnIds : turns'[u].phase \in {"prepared", "running"} =>
            u # t /\ turns'[u] = turns[u] /\ slot = u
    BY DEF ChatInv, SlotFits, IsRunning
  <2>2. slot # 0 => turns'[slot].phase # "none"
    BY DEF ChatInv, ChatTypes, SlotFits
  <2>3. Busy' <=> Busy  BY <1>1 DEF Busy
  <2> QED  BY <1>1, <1>2, <2>1, <2>2, <2>3 DEF ChatInv, SlotFits, IsRunning
<1>4. PromptsFit'
  <2>1. \A u \in TurnIds : TurnGoesOn(u)  BY DEF TurnGoesOn
  <2>2. rec'.seen \in Nat /\ rec'.seen >= rec.seen  BY <1>1, Typed DEF ChatInv
  <2> QED  BY <1>1, <2>1, <2>2, PromptsQuiet DEF ChatInv
<1>5. OffsetFits'
  <2>1. loop.tries \in Nat /\ loop.tries <= faults /\ faults \in Nat /\ MaxAttempts \in Nat
    BY Typed DEF ChatInv, OffsetFits
  <2>2. loop.tries <= faults' /\ (faults >= MaxAttempts => faults' >= MaxAttempts)  BY <2>1
  <2> QED  BY <1>1, <2>2 DEF ChatInv, OffsetFits
<1>6. ChatTypes'  BY <1>1 DEF ChatInv, ChatTypes
<1> QED  BY <1>3, <1>4, <1>5, <1>6 DEF ChatInv

\* A long task begins: only its journal changes.
LEMMA BeginKeeps ==
    ASSUME ChatInv, NEW t \in TurnIds, TaskBegins(t)
    PROVE  ChatInv'
<1>1. /\ UNCHANGED <<sent, offset, rec, made, slot, turns, loop, starts, faults, crashes>>
      /\ ledger' = [ledger EXCEPT ![turns[t].session] = "running"]
  BY DEF TaskBegins
<1>2. ledger' \in [Sessions -> {"not_long_task", "running", "paused", "completed", "failed"}]
  BY <1>1 DEF ChatInv, ChatTypes
<1>3. ChatTypes'  BY <1>1, <1>2 DEF ChatInv, ChatTypes
<1>4. SlotFits'  BY <1>1 DEF ChatInv, SlotFits, IsRunning, Busy
<1>5. OffsetFits' /\ PromptsFit'  BY <1>1 DEF ChatInv, OffsetFits, PromptsFit
<1> QED  BY <1>3, <1>4, <1>5 DEF ChatInv

\* A turn's thread ends.
LEMMA SettleKeeps ==
    ASSUME ChatInv, NEW t \in TurnIds, NEW out \in {"ok", "err", "paused"}, Settle(t, out)
    PROVE  ChatInv'
<1> DEFINE s == turns[t].session
           x == CASE out = "ok" -> "completed"
                  [] out = "paused" -> "paused"
                  [] turns[t].cancelled -> "running"
                  [] OTHER -> "failed"
<1>1. /\ UNCHANGED <<sent, offset, rec, made, slot, loop, starts, faults, crashes>>
      /\ turns[t].phase = "running"
      /\ turns' = [turns EXCEPT ![t].phase = "settled", ![t].outcome = out]
      /\ ledger' = ledger \/ ledger' = [ledger EXCEPT ![s] = x]
  BY DEF Settle
<1>2. /\ turns' \in [TurnIds -> Turns] /\ turns'[t].phase = "settled"
      /\ turns'[t].prompt = turns[t].prompt
      /\ \A u \in TurnIds \ {t} : turns'[u] = turns[u]
  BY <1>1, TurnSettles DEF ChatInv, ChatTypes
<1>3. x \in {"completed", "paused", "running", "failed"}  OBVIOUS
<1> HIDE DEF x, s
<1>4. ledger' \in [Sessions -> {"not_long_task", "running", "paused", "completed", "failed"}]
  BY <1>1, <1>3 DEF ChatInv, ChatTypes
<1>5. /\ rec' = rec /\ rec \in Records(made) /\ faults' = faults /\ faults \in 0..MaxFaults
      /\ faults >= faults
  BY <1>1, Typed DEF ChatInv, ChatTypes
<1>6. SameBook(rec, rec')  BY <1>5 DEF SameBook
<1> QED  BY <1>1, <1>2, <1>4, <1>5, <1>6, TurnRuns

\* The turn is reported in the record.
LEMMA ReportKeeps ==
    ASSUME ChatInv, NEW t \in TurnIds, NEW o \in Outcomes, Report(t, o)
    PROVE  ChatInv'
<1> DEFINE s == turns[t].session
           good == turns[t].outcome # "err" /\ ~turns[t].cancelled
           nxt == IF good /\ (turns[t].outcome = "paused" \/ rec.session # s)
                  THEN ClearTurn(rec) ELSE ClearTaskOf(ClearTurn(rec), s)
           p == IF good /\ turns[t].outcome = "paused" THEN "paused" ELSE "reported"
<1>1. /\ UNCHANGED <<sent, offset, made, ledger, slot, loop, starts, crashes>>
      /\ turns[t].phase = "settled" /\ rec' = Saved(o, nxt) /\ Spend(<<o>>)
      /\ turns' = [turns EXCEPT ![t].phase = p]
  BY DEF Report
<1>2. p \in {"paused", "reported"}  OBVIOUS
<1> HIDE DEF p
<1>3. /\ turns' \in [TurnIds -> Turns] /\ turns'[t].phase = p
      /\ turns'[t].prompt = turns[t].prompt
      /\ \A u \in TurnIds \ {t} : turns'[u] = turns[u]
  <2>1. p \in {"running", "settled", "paused", "reported"}  BY <1>2
  <2> QED  BY <1>1, <2>1, TurnPhase DEF ChatInv, ChatTypes
<1>4. /\ rec \in Records(made) /\ made \in Nat /\ faults \in Nat /\ MaxFaults \in Nat
      /\ ledger' \in [Sessions -> {"not_long_task", "running", "paused", "completed", "failed"}]
  BY <1>1, Typed DEF ChatInv, ChatTypes
<1>5. nxt \in {ClearTurn(rec), ClearTaskOf(ClearTurn(rec), s)}  OBVIOUS
<1> HIDE DEF nxt, s, good
<1>6. rec' \in Records(made) /\ SameBook(rec, rec')
  <2>1. \A q \in {rec, ClearTurn(rec), ClearTask(ClearTurn(rec)), ClearTaskOf(ClearTurn(rec), s),
                  ClearTurn(ClearTaskOf(rec, s)), [rec EXCEPT !.active = TRUE]} :
            q \in Records(made) /\ SameBook(rec, q)
    BY <1>4, ClearedRecord
  <2>2. nxt \in Records(made) /\ SameBook(rec, nxt) /\ SameBook(rec, rec)
    BY <1>5, <2>1
  <2> QED  BY <1>1, <1>4, <2>2 DEF Saved
<1>7. faults' \in 0..MaxFaults /\ faults' >= faults  BY <1>1, <1>4, SpendOne
<1> QED  BY <1>1, <1>2, <1>3, <1>4, <1>6, <1>7, TurnRuns

\* The finish task gives the slot back, or finds it taken.
LEMMA ReleaseKeeps ==
    ASSUME ChatInv, NEW t \in TurnIds, ReleasePaused(t) \/ AdvanceStale(t) \/ AdvanceIdle(t)
    PROVE  ChatInv'
<1>1. /\ UNCHANGED <<sent, offset, rec, made, ledger, loop, starts, faults, crashes>>
      /\ turns[t].phase \in {"paused", "reported"}
      /\ slot' = IF slot = t THEN 0 ELSE slot
      /\ turns' = [turns EXCEPT ![t] = NoTurn]
  <2>1. CASE ReleasePaused(t)
    BY <2>1 DEF ReleasePaused
  <2>2. CASE AdvanceStale(t)
    BY <2>2 DEF AdvanceStale
  <2>3. CASE AdvanceIdle(t)
    BY <2>3 DEF AdvanceIdle
  <2> QED  BY <2>1, <2>2, <2>3
<1>2. /\ turns' \in [TurnIds -> Turns] /\ turns'[t] = NoTurn /\ NoTurn.phase = "none"
      /\ NoTurn.prompt = 0 /\ \A u \in TurnIds \ {t} : turns'[u] = turns[u]
  <2>1. NoTurn \in Turns /\ NoTurn.phase = "none" /\ NoTurn.prompt = 0
    <3>1. 0 \in 0..MaxUpdates /\ 0 \in 0..MaxSessions  BY Typed DEF ChatInv
    <3> QED  BY <3>1 DEF NoTurn, Turns
  <2> QED  BY <1>1, <2>1, TurnSet DEF ChatInv, ChatTypes
<1>3. ChatTypes'  BY <1>1, <1>2 DEF ChatInv, ChatTypes
<1>4. SlotFits'
  <2>1. loop.pc \notin {"down", "recover", "requeue"}  BY <1>1 DEF ChatInv, SlotFits
  <2>2. \A u \in TurnIds : turns'[u].phase \in {"prepared", "running"} =>
            u # t /\ turns'[u] = turns[u] /\ slot = u
    BY <1>2 DEF ChatInv, SlotFits, IsRunning
  <2>3. slot' # 0 => slot' = slot /\ turns'[slot].phase # "none"
    BY <1>1, <1>2 DEF ChatInv, ChatTypes, SlotFits
  <2>4. Busy' => Busy  BY <1>1 DEF Busy
  <2> QED  BY <1>1, <2>1, <2>2, <2>3, <2>4 DEF ChatInv, SlotFits, IsRunning
<1>5. OffsetFits'  BY <1>1 DEF ChatInv, OffsetFits
<1>6. PromptsFit'
  <2>1. \A u \in TurnIds : TurnGoesOn(u)  BY <1>2 DEF TurnGoesOn
  <2>2. rec'.seen \in Nat /\ rec'.seen >= rec.seen  BY <1>1, Typed DEF ChatInv
  <2> QED  BY <1>1, <2>1, <2>2, PromptsQuiet DEF ChatInv
<1> QED  BY <1>3, <1>4, <1>5, <1>6 DEF ChatInv

-----------------------------------------------------------------------------
(* The queue: its head is taken, or put back.                              *)

\* The head of the queue and the rest of it.
LEMMA HeadFirst ==
    ASSUME ChatTypes, PromptsFit, rec.queue # <<>>
    PROVE  /\ Head(rec.queue) \in Updates /\ Head(rec.queue) <= rec.seen
           /\ starts[Head(rec.queue)] = 0
           /\ Tail(rec.queue) \in Seq(Updates) /\ Len(Tail(rec.queue)) = Len(rec.queue) - 1
           /\ \A i \in 1..Len(Tail(rec.queue)) : Head(rec.queue) < Tail(rec.queue)[i]
<1> DEFINE q == rec.queue
           n == Len(rec.queue)
<1>1. q \in Seq(Updates) /\ q # <<>> /\ n = Len(q)  BY Typed
<1>2. \A i \in 1..n : q[i] <= rec.seen /\ starts[q[i]] = 0  BY DEF PromptsFit
<1>3. \A i \in 1..n, j \in 1..n : i < j => q[i] < q[j]  BY DEF PromptsFit
<1> HIDE DEF q, n
<1>4. /\ n \in Nat \ {0} /\ Head(q) = q[1] /\ q[1] \in Updates
      /\ Tail(q) \in Seq(Updates) /\ Len(Tail(q)) = n - 1
      /\ \A i \in 1..Len(Tail(q)) : Tail(q)[i] = q[i + 1] /\ i + 1 \in 1..n
  <2>1. n \in Nat \ {0} /\ Head(q) = q[1] /\ q[1] \in Updates
        /\ Tail(q) \in Seq(Updates) /\ Len(Tail(q)) = n - 1
    BY <1>1
  <2>2. \A i \in 1..Len(Tail(q)) : Tail(q)[i] = q[i + 1]  BY <1>1
  <2> QED  BY <2>1, <2>2
<1>5. 1 \in 1..n /\ \A i \in 1..Len(Tail(q)) : 1 < i + 1  BY <1>4
<1>6. \A i \in 1..Len(Tail(q)) : Head(q) < Tail(q)[i]  BY <1>3, <1>4, <1>5
<1>7. Head(q) <= rec.seen /\ starts[Head(q)] = 0  BY <1>2, <1>4, <1>5
<1> QED  BY <1>4, <1>6, <1>7 DEF q, n

\* The record without the head of its queue, and with it again.
LEMMA PoppedRecord ==
    ASSUME ChatInv, rec.queue # <<>>
    PROVE  /\ SessionFor(rec) = rec.session /\ rec.session \in 0..MaxSessions
           /\ LET x == PoppedHead(rec)
              IN  /\ x \in Records(made) /\ x.seen = rec.seen /\ x.session = rec.session
                  /\ x.previous = rec.previous /\ x.queue = Tail(rec.queue) /\ x.active = TRUE
           /\ LET y == [ClearTurn(PoppedHead(rec)) EXCEPT !.queue = rec.queue]
              IN  /\ y \in Records(made) /\ y.seen = rec.seen /\ y.session = rec.session
                  /\ y.previous = rec.previous /\ y.queue = rec.queue
<1>1. /\ rec \in Records(made) /\ rec.session # 0 /\ rec.session \in 0..made
      /\ rec.session \in 0..MaxSessions /\ made \in Nat
      /\ rec.queue \in Seq(Updates) /\ Tail(rec.queue) \in Seq(Updates)
  <2>1. made \in Nat /\ MaxSessions \in Nat /\ made <= MaxSessions /\ rec.session \in 0..made
        /\ rec.queue \in Seq(Updates)
    BY Typed DEF ChatInv, ChatTypes
  <2>2. rec.session # 0  BY DEF ChatInv, SlotFits, Busy
  <2>3. rec.session \in 0..MaxSessions  BY <2>1
  <2>4. Tail(rec.queue) \in Seq(Updates)  BY HeadFirst DEF ChatInv
  <2> QED  BY <2>1, <2>2, <2>3, <2>4 DEF ChatInv, ChatTypes
<1>2. SessionFor(rec) = rec.session  BY <1>1 DEF SessionFor
<1> DEFINE a == WithQueue(rec, Tail(rec.queue))
           b == WithSession(a, rec.session)
           c == Marked(b)
           d == ClearTurn(c)
           e == WithQueue(d, rec.queue)
<1>3. /\ a \in Records(made) /\ a.seen = rec.seen /\ a.session = rec.session
      /\ a.previous = rec.previous /\ a.queue = Tail(rec.queue)
  BY <1>1, EditQueue
<1>4. PoppedHead(rec) = [[rec EXCEPT !.queue = Tail(@)] EXCEPT !.active = TRUE, !.session = rec.session]
  BY <1>2 DEF PoppedHead, MarkTurn
<1>5. [rec EXCEPT !.queue = Tail(@)] = a  BY DEF WithQueue
<1> HIDE DEF a
<1>6. PoppedHead(rec) = c
  BY <1>3, <1>4, <1>5 DEF Marked, WithSession, Records
<1>7. /\ b \in Records(made) /\ b.seen = rec.seen /\ b.session = rec.session
      /\ b.previous = rec.previous /\ b.queue = Tail(rec.queue)
  BY <1>1, <1>3, EditSession
<1> HIDE DEF b
<1>8. /\ c \in Records(made) /\ c.seen = rec.seen /\ c.session = rec.session
      /\ c.previous = rec.previous /\ c.queue = Tail(rec.queue) /\ c.active = TRUE
  BY <1>7, EditMark
<1>9. [ClearTurn(PoppedHead(rec)) EXCEPT !.queue = rec.queue] = e
  BY <1>6 DEF WithQueue
<1> HIDE DEF c
<1>10. /\ d \in Records(made) /\ d.seen = rec.seen /\ d.session = rec.session
       /\ d.previous = rec.previous
  BY <1>8, EditClear
<1> HIDE DEF d
<1>11. /\ e \in Records(made) /\ e.seen = rec.seen /\ e.session = rec.session
       /\ e.previous = rec.previous /\ e.queue = rec.queue
  BY <1>1, <1>10, EditQueue
<1> HIDE DEF e
<1> QED  BY <1>1, <1>2, <1>6, <1>8, <1>9, <1>11

\* What taking the head does: the turn t is ready with it, or the slot is
\* empty and the head waits again or, if both saves failed, is lost.
HeadTaken(t, looped) ==
    /\ rec.queue # <<>> /\ slot \in {0, t} /\ turns[t].phase \in {"none", "reported"}
    /\ loop'.tries = loop.tries /\ loop' \in Loops
    /\ loop' = loop \/ loop'.pc \in {"relaunch", "poll"}
    /\ loop'.pc \notin {"down", "recover", "requeue"}
    /\ faults' \in 0..MaxFaults /\ faults' >= faults
    /\ rec' \in Records(made) /\ rec'.seen = rec.seen /\ rec'.session = rec.session
    /\ rec'.previous = rec.previous
    /\ \/ /\ rec'.queue = Tail(rec.queue) /\ slot' = t
          /\ turns' = [turns EXCEPT ![t] =
                         Prepared(Head(rec.queue), rec.session, FALSE, TRUE, looped)]
       \/ /\ slot' = 0 /\ rec'.queue \in {rec.queue, Tail(rec.queue)}
          /\ turns' \in [TurnIds -> Turns] /\ turns'[t].phase = "none" /\ turns'[t].prompt = 0
          /\ \A u \in TurnIds \ {t} : turns'[u] = turns[u]
          /\ faults' >= faults + 1
    /\ UNCHANGED <<sent, offset, made, ledger, starts, crashes>>

\* The saves of taking the head.
LEMMA HeadSaved ==
    ASSUME ChatInv, rec.queue # <<>>, NEW o \in Outcomes, NEW p \in Outcomes,
           rec' = IF o = "ok" THEN PoppedHead(rec)
                  ELSE IF p = "lost" THEN Saved(o, PoppedHead(rec))
                  ELSE [ClearTurn(PoppedHead(rec)) EXCEPT !.queue = rec.queue]
    PROVE  /\ rec' \in Records(made) /\ rec'.seen = rec.seen /\ rec'.session = rec.session
           /\ rec'.previous = rec.previous
           /\ IF o = "ok" THEN rec'.queue = Tail(rec.queue) /\ rec'.active = TRUE
              ELSE rec'.queue \in {rec.queue, Tail(rec.queue)}
<1> DEFINE x == PoppedHead(rec)
           y == [ClearTurn(PoppedHead(rec)) EXCEPT !.queue = rec.queue]
<1>1. /\ x \in Records(made) /\ x.seen = rec.seen /\ x.session = rec.session
      /\ x.previous = rec.previous /\ x.queue = Tail(rec.queue) /\ x.active = TRUE
      /\ y \in Records(made) /\ y.seen = rec.seen /\ y.session = rec.session
      /\ y.previous = rec.previous /\ y.queue = rec.queue
  BY PoppedRecord
<1>2. rec \in Records(made)  BY DEF ChatInv, ChatTypes
<1>3. IF o = "ok" THEN rec' = x ELSE rec' \in {x, y, rec}
  BY DEF Saved
<1> HIDE DEF x, y
<1> QED  BY <1>1, <1>2, <1>3

\* advance_after_turn takes the head.
LEMMA AdvanceTakes ==
    ASSUME ChatInv, NEW t \in TurnIds, NEW o \in Outcomes, NEW p \in Outcomes, AdvanceQueue(t, o, p)
    PROVE  HeadTaken(t, FALSE) /\ turns[t].phase = "reported" /\ slot = t
<1>1. /\ turns[t].phase = "reported" /\ slot = t /\ rec.queue # <<>>
      /\ Spend(<<o, p>>)
      /\ rec' = IF o = "ok" THEN PoppedHead(rec)
                ELSE IF p = "lost" THEN Saved(o, PoppedHead(rec))
                ELSE [ClearTurn(PoppedHead(rec)) EXCEPT !.queue = rec.queue]
      /\ IF o = "ok"
         THEN /\ turns' = [turns EXCEPT ![t] =
                             Prepared(Head(rec.queue), SessionFor(rec), FALSE, TRUE, FALSE)]
              /\ UNCHANGED slot
         ELSE slot' = 0 /\ turns' = [turns EXCEPT ![t] = NoTurn]
      /\ UNCHANGED <<sent, offset, made, ledger, loop, starts, crashes>>
  BY DEF AdvanceQueue
<1>2. /\ rec' \in Records(made) /\ rec'.seen = rec.seen /\ rec'.session = rec.session
      /\ rec'.previous = rec.previous
      /\ IF o = "ok" THEN rec'.queue = Tail(rec.queue) /\ rec'.active = TRUE
         ELSE rec'.queue \in {rec.queue, Tail(rec.queue)}
  BY <1>1, HeadSaved
<1>3. /\ faults' \in 0..MaxFaults /\ faults' >= faults
      /\ o # "ok" => faults' >= faults + 1
  BY <1>1, Typed, SpendTwo DEF ChatInv
<1>4. SessionFor(rec) = rec.session  BY <1>1, PoppedRecord
<1>5. loop' = loop /\ loop' \in Loops /\ loop'.pc \notin {"down", "recover", "requeue"}
  <2>1. t # 0  BY Typed DEF ChatInv
  <2> QED  BY <1>1, <2>1 DEF ChatInv, ChatTypes, Loops, SlotFits
<1>6. CASE o = "ok"
  BY <1>1, <1>2, <1>3, <1>4, <1>5, <1>6 DEF HeadTaken
<1>7. CASE o # "ok"
  <2>1. NoTurn \in Turns /\ NoTurn.phase = "none" /\ NoTurn.prompt = 0
    <3>1. 0 \in 0..MaxUpdates /\ 0 \in 0..MaxSessions  BY Typed DEF ChatInv
    <3> QED  BY <3>1 DEF NoTurn, Turns
  <2>2. /\ turns' \in [TurnIds -> Turns] /\ turns'[t] = NoTurn
        /\ \A u \in TurnIds \ {t} : turns'[u] = turns[u]
    BY <1>1, <1>7, <2>1, TurnSet DEF ChatInv, ChatTypes
  <2> QED  BY <1>1, <1>2, <1>3, <1>5, <1>7, <2>1, <2>2 DEF HeadTaken
<1> QED  BY <1>6, <1>7

\* So does start_queued_turn after a restart.
LEMMA RequeueTakes ==
    ASSUME ChatInv, NEW o \in Outcomes, NEW p \in Outcomes, StartQueued(o, p)
    PROVE  \E t \in TurnIds : HeadTaken(t, TRUE) /\ slot = 0
<1> DEFINE t == FreeTurn
<1>1. /\ loop.pc = "requeue" /\ Spend(<<o, p>>)
      /\ rec' = IF o = "ok" THEN PoppedHead(rec)
                ELSE IF p = "lost" THEN Saved(o, PoppedHead(rec))
                ELSE [ClearTurn(PoppedHead(rec)) EXCEPT !.queue = rec.queue]
      /\ IF o = "ok"
         THEN /\ slot' = t
              /\ turns' = [turns EXCEPT ![t] =
                             Prepared(Head(rec.queue), SessionFor(rec), FALSE, TRUE, TRUE)]
              /\ loop' = [loop EXCEPT !.pc = "relaunch", !.turn = t]
         ELSE loop' = Goto("poll") /\ UNCHANGED <<slot, turns>>
      /\ UNCHANGED <<sent, offset, made, ledger, starts, crashes>>
  BY DEF StartQueued, At
<1>2. slot = 0 /\ rec.queue # <<>> /\ \A u \in TurnIds : turns[u].phase = "none"
  BY <1>1 DEF ChatInv, SlotFits
<1>3. t \in TurnIds /\ turns[t].phase = "none"
  <2>1. HasFreeTurn  BY <1>2, ChatAssumption DEF HasFreeTurn
  <2> QED  BY <2>1, FreePlace
<1> HIDE DEF t
<1>4. /\ rec' \in Records(made) /\ rec'.seen = rec.seen /\ rec'.session = rec.session
      /\ rec'.previous = rec.previous
      /\ IF o = "ok" THEN rec'.queue = Tail(rec.queue) /\ rec'.active = TRUE
         ELSE rec'.queue \in {rec.queue, Tail(rec.queue)}
  BY <1>1, <1>2, HeadSaved
<1>5. /\ faults' \in 0..MaxFaults /\ faults' >= faults
      /\ o # "ok" => faults' >= faults + 1
  BY <1>1, Typed, SpendTwo DEF ChatInv
<1>6. SessionFor(rec) = rec.session  BY <1>2, PoppedRecord
<1>7. CASE o = "ok"
  <2>1. loop' \in Loops /\ loop'.pc = "relaunch" /\ loop'.tries = loop.tries
    <3>1. "relaunch" \in LoopSteps /\ loop' = [loop EXCEPT !.pc = "relaunch", !.turn = t]
      BY <1>1, <1>7 DEF LoopSteps
    <3> QED  BY <1>3, <3>1, GotoLoop DEF ChatInv
  <2> QED  BY <1>1, <1>2, <1>3, <1>4, <1>5, <1>6, <1>7, <2>1 DEF HeadTaken
<1>8. CASE o # "ok"
  <2>1. loop' \in Loops /\ loop'.pc = "poll" /\ loop'.tries = loop.tries
    <3>1. "poll" \in LoopSteps /\ loop' = Goto("poll")  BY <1>1, <1>8 DEF LoopSteps
    <3> QED  BY <3>1, GotoLoop DEF ChatInv
  <2>2. turns[t].prompt = 0  BY <1>3 DEF ChatInv, PromptsFit
  <2>3. /\ turns' \in [TurnIds -> Turns] /\ turns'[t].phase = "none" /\ turns'[t].prompt = 0
        /\ \A u \in TurnIds \ {t} : turns'[u] = turns[u]
        /\ slot' = 0
    BY <1>1, <1>2, <1>3, <1>8, <2>2 DEF ChatInv, ChatTypes
  <2> QED  BY <1>1, <1>2, <1>3, <1>4, <1>5, <1>8, <2>1, <2>3 DEF HeadTaken
<1> QED  BY <1>7, <1>8

\* Either way the invariant holds.
LEMMA TakenKeeps ==
    ASSUME ChatInv, NEW t \in TurnIds, NEW looped \in {TRUE, FALSE}, HeadTaken(t, looped)
    PROVE  ChatInv'
<1> DEFINE x == Prepared(Head(rec.queue), rec.session, FALSE, TRUE, looped)
<1>1. /\ rec.queue # <<>> /\ slot \in {0, t} /\ turns[t].phase \in {"none", "reported"}
      /\ loop'.tries = loop.tries /\ loop' \in Loops
      /\ loop' = loop \/ loop'.pc \in {"relaunch", "poll"}
      /\ loop'.pc \notin {"down", "recover", "requeue"}
      /\ faults' \in 0..MaxFaults /\ faults' >= faults
      /\ rec' \in Records(made) /\ rec'.seen = rec.seen /\ rec'.session = rec.session
      /\ rec'.previous = rec.previous
      /\ UNCHANGED <<sent, offset, made, ledger, starts, crashes>>
  BY DEF HeadTaken
<1>2. \/ /\ rec'.queue = Tail(rec.queue) /\ slot' = t /\ turns' = [turns EXCEPT ![t] = x]
      \/ /\ slot' = 0 /\ rec'.queue \in {rec.queue, Tail(rec.queue)}
         /\ turns' \in [TurnIds -> Turns] /\ turns'[t].phase = "none" /\ turns'[t].prompt = 0
         /\ \A u \in TurnIds \ {t} : turns'[u] = turns[u]
  BY DEF HeadTaken
<1>3. /\ Head(rec.queue) \in Updates /\ Head(rec.queue) <= rec.seen
      /\ starts[Head(rec.queue)] = 0
      /\ Tail(rec.queue) \in Seq(Updates) /\ Len(Tail(rec.queue)) = Len(rec.queue) - 1
      /\ \A i \in 1..Len(Tail(rec.queue)) : Head(rec.queue) < Tail(rec.queue)[i]
  BY <1>1, HeadFirst DEF ChatInv
<1>4. rec.session # 0 /\ Busy  BY <1>1 DEF ChatInv, SlotFits, Busy
<1>5. rec.session \in 0..MaxSessions /\ SessionFor(rec) = rec.session  BY <1>1, PoppedRecord
<1>6. /\ x \in Turns /\ x.phase = "prepared" /\ x.prompt = Head(rec.queue) /\ x.requeue = TRUE
  <2>1. Head(rec.queue) \in 0..MaxUpdates /\ 0 \in 0..MaxUpdates /\ 0 \in 0..MaxSessions
    BY SMTT(30), <1>3, Typed DEF ChatInv, Updates
  <2> QED  BY <1>5, <2>1 DEF Prepared, NoTurn, Turns
<1> HIDE DEF x
<1>7. turns' \in [TurnIds -> Turns] /\ \A u \in TurnIds \ {t} : turns'[u] = turns[u]
  BY <1>2, <1>6, TurnSet DEF ChatInv, ChatTypes
<1>8. \A u \in TurnIds \ {t} : turns[u].phase \notin {"prepared", "running"}
  BY <1>1, Typed DEF ChatInv, SlotFits, IsRunning
<1>9. /\ Len(rec'.queue) <= FollowupCap + 1
      /\ rec'.queue = Tail(rec.queue) => Len(rec'.queue) <= FollowupCap
  <2>1. Len(rec.queue) \in Nat /\ FollowupCap \in Nat /\ Len(rec.queue) <= FollowupCap + 1
    BY Typed DEF ChatInv, SlotFits
  <2>2. Len(Tail(rec.queue)) <= FollowupCap /\ Len(Tail(rec.queue)) <= FollowupCap + 1
    BY <1>3, <2>1
  <2>3. CASE rec'.queue = Tail(rec.queue)
    BY <2>2, <2>3
  <2>4. CASE rec'.queue = rec.queue /\ rec'.queue # Tail(rec.queue)
    BY <2>1, <2>4
  <2> QED  BY <1>2, <2>3, <2>4
<1>10. SlotFits'
  <2>1. CASE rec'.queue = Tail(rec.queue) /\ slot' = t /\ turns' = [turns EXCEPT ![t] = x]
    <3>1. turns'[t] = x  BY <2>1 DEF ChatInv, ChatTypes
    <3>2. turns'[t].phase = "prepared" /\ turns'[t].prompt # 0
      BY <1>3, <1>6, <3>1 DEF Updates
    <3> QED  BY <1>1, <1>4, <1>7, <1>9, <2>1, <3>2, SlotTaken DEF ChatInv
  <2>2. CASE slot' = 0 /\ turns'[t].phase = "none"
    <3>1. \A u \in TurnIds : turns'[u].phase \notin {"prepared", "running"}
      BY <1>7, <1>8, <2>2
    <3> QED  BY <1>1, <1>4, <1>9, <2>2, <3>1, SlotFree
  <2> QED  BY <1>2, <2>1, <2>2
<1>11. PromptsFit'
  <2>1. \A u \in TurnIds \ {t} : TurnGoesOn(u)  BY <1>7 DEF TurnGoesOn
  <2>2. TurnGoesOn(t) \/ TurnReady(t)
    <3>1. CASE rec'.queue = Tail(rec.queue) /\ slot' = t /\ turns' = [turns EXCEPT ![t] = x]
      <4>1. turns'[t] = x  BY <3>1 DEF ChatInv, ChatTypes
      <4> QED  BY <1>1, <1>3, <1>6, <3>1, <4>1 DEF TurnReady
    <3>2. CASE turns'[t].phase = "none" /\ turns'[t].prompt = 0
      BY <3>2 DEF TurnGoesOn
    <3> QED  BY <1>2, <3>1, <3>2
  <2>3. \A u \in TurnIds : TurnGoesOn(u) \/ TurnReady(u)  BY <2>1, <2>2
  <2>4. rec'.seen \in Nat /\ rec'.seen >= rec.seen /\ starts' = starts
    BY <1>1, Typed DEF ChatInv
  <2> QED  BY <1>1, <1>2, <2>3, <2>4, PromptsQuiet DEF ChatInv
<1>12. OffsetFits'
  <2>1. loop.tries \in Nat /\ loop.tries <= faults /\ faults \in Nat /\ MaxAttempts \in Nat
    BY Typed DEF ChatInv, OffsetFits
  <2>2. loop.tries <= faults' /\ (faults >= MaxAttempts => faults' >= MaxAttempts)
    BY <1>1, <2>1
  <2> QED  BY <1>1, <2>2 DEF ChatInv, OffsetFits
<1>13. ChatTypes'
  BY <1>1, <1>2, <1>7 DEF ChatInv, ChatTypes, Loops
<1> QED  BY <1>10, <1>11, <1>12, <1>13 DEF ChatInv

\* What was interrupted is reported; the queue may be behind it.
LEMMA RecoverKeeps ==
    ASSUME ChatInv, NEW o \in Outcomes, Recover(o)
    PROVE  ChatInv'
<1> DEFINE nxt == IF TaskTerminal THEN ClearTask(ClearTurn(rec)) ELSE ClearTurn(rec)
           pc == IF o # "ok" THEN "down" ELSE IF QueueWaits THEN "requeue" ELSE "poll"
<1>1. /\ loop.pc = "recover" /\ rec' = Saved(o, nxt) /\ Spend(<<o>>)
      /\ loop' = Goto(pc)
      /\ UNCHANGED <<sent, offset, made, ledger, slot, turns, starts, crashes>>
  BY DEF Recover, At
<1>2. pc \in {"down", "requeue", "poll"} /\ (pc = "requeue" => rec.queue # <<>>)
  BY DEF QueueWaits
<1>3. nxt \in {ClearTurn(rec), ClearTask(ClearTurn(rec))}  OBVIOUS
<1> HIDE DEF nxt, pc
<1>4. rec' \in Records(made) /\ SameBook(rec, rec')
  <2>1. made \in Nat /\ rec \in Records(made)  BY Typed DEF ChatInv, ChatTypes
  <2>2. \A q \in {rec, ClearTurn(rec), ClearTask(ClearTurn(rec)), ClearTaskOf(ClearTurn(rec), 0),
                  ClearTurn(ClearTaskOf(rec, 0)), [rec EXCEPT !.active = TRUE]} :
            q \in Records(made) /\ SameBook(rec, q)
    BY <2>1, ClearedRecord
  <2>3. nxt \in Records(made) /\ SameBook(rec, nxt) /\ SameBook(rec, rec)
    BY <1>3, <2>2
  <2> QED  BY <1>1, <2>1, <2>3 DEF Saved
<1>5. /\ rec'.seen = rec.seen /\ rec'.session = rec.session /\ rec'.previous = rec.previous
      /\ rec'.queue = rec.queue
  BY <1>4 DEF SameBook
<1>6. loop' \in Loops /\ loop'.pc = pc /\ loop'.tries = loop.tries
  <2>1. pc \in LoopSteps  BY <1>2 DEF LoopSteps
  <2> QED  BY <1>1, <2>1, GotoLoop DEF ChatInv
<1>7. faults' \in 0..MaxFaults /\ faults' >= faults
  BY <1>1, Typed, SpendOne DEF ChatInv
<1>8. slot = 0 /\ \A t \in TurnIds : turns[t].phase = "none"
  BY <1>1 DEF ChatInv, SlotFits
<1>9. SlotFits'
  <2>1. /\ slot' = 0 /\ Len(rec'.queue) <= FollowupCap + 1
        /\ \A t \in TurnIds : turns'[t].phase = "none"
        /\ rec'.queue # <<>> => rec'.session # 0
    BY <1>1, <1>5, <1>8 DEF ChatInv, SlotFits, Busy
  <2>2. loop'.pc = "requeue" => rec'.queue # <<>>  BY <1>2, <1>5, <1>6
  <2> QED  BY <2>1, <2>2, SlotFree
<1>10. PromptsFit'
  <2>1. \A u \in TurnIds : TurnGoesOn(u)  BY <1>1 DEF TurnGoesOn
  <2>2. rec'.seen \in Nat /\ rec'.seen >= rec.seen  BY <1>5, Typed DEF ChatInv
  <2> QED  BY <1>1, <1>5, <2>1, <2>2, PromptsQuiet DEF ChatInv
<1>11. OffsetFits'
  <2>1. loop.tries \in Nat /\ loop.tries <= faults /\ faults \in Nat
    BY Typed DEF ChatInv, OffsetFits
  <2>2. loop'.tries <= faults'  BY <1>6, <1>7, <2>1
  <2> QED  BY <1>1, <1>2, <1>5, <1>6, <2>2 DEF ChatInv, OffsetFits
<1>12. ChatTypes'
  BY <1>1, <1>4, <1>5, <1>6, <1>7 DEF ChatInv, ChatTypes, Loops
<1> QED  BY <1>9, <1>10, <1>11, <1>12 DEF ChatInv

-----------------------------------------------------------------------------
(* What the runs check.                                                    *)

\* No step breaks ChatInv.
LEMMA ChatStep ==
    ASSUME ChatInv, [Next]_vars
    PROVE  ChatInv'
<1>1. CASE UNCHANGED vars
  BY <1>1 DEF vars, ChatInv, ChatTypes, SlotFits, OffsetFits, PromptsFit, IsRunning, Busy
<1>2. CASE \E k \in Kinds : Poll(k)
  BY <1>2, PollKeeps
<1>3. CASE LoopStep
  <2>1. CASE Handle
    <3>1. CASE HandleIgnored
      BY <3>1, IgnoredKeeps
    <3>2. ASSUME NEW o \in Outcomes,
                 \/ HandlePrompt(o) \/ HandleTask(o) \/ HandleTaskResume(o) \/ HandleNew(o)
                 \/ HandleStop(o) \/ HandleResume(o) \/ HandleOther(o)
          PROVE  ChatInv'
      <4>1. CASE HandlePrompt(o)  BY <4>1, AnswersAnswer, AnswerFits, TakesKeep
      <4>2. CASE HandleTask(o)  BY <4>2, AnswersAnswer, AnswerFits, TakesKeep
      <4>3. CASE HandleTaskResume(o)  BY <4>3, AnswersAnswer, AnswerFits, TakesKeep
      <4>4. CASE HandleNew(o) \/ HandleResume(o)  BY <4>4, SessionsAnswer, AnswerFits
      <4>5. CASE HandleStop(o)  BY <4>5, StopAnswers, AnswerFits
      <4>6. CASE HandleOther(o)  BY <4>6, AnswersAnswer, AnswerFits
      <4> QED  BY <3>2, <4>1, <4>2, <4>3, <4>4, <4>5, <4>6
    <3> QED  BY <2>1, <3>1, <3>2 DEF Handle
  <2>2. CASE Commit  BY <2>2, CommitKeeps
  <2>3. CASE CommitFails  BY <2>3, DrainKeeps
  <2>4. CASE Exit \/ Restart  BY <2>4, RestartKeeps
  <2>5. CASE Recovered  BY <2>5, RecoveredKeeps
  <2>6. CASE \E ok \in BOOLEAN : Reply(ok)  BY <2>6, ReplyKeeps
  <2>7. ASSUME NEW o \in Outcomes, Recover(o) \/ \E p \in Outcomes : StartQueued(o, p)
        PROVE  ChatInv'
    <3>1. CASE Recover(o)  BY <3>1, RecoverKeeps
    <3>2. CASE \E p \in Outcomes : StartQueued(o, p)
      <4>1. PICK p \in Outcomes : StartQueued(o, p)  BY <3>2
      <4>2. PICK t \in TurnIds : HeadTaken(t, TRUE)  BY <4>1, RequeueTakes
      <4> QED  BY <4>2, TakenKeeps
    <3> QED  BY <2>7, <3>1, <3>2
  <2> QED  BY <1>3, <2>1, <2>2, <2>3, <2>4, <2>5, <2>6, <2>7 DEF LoopStep
<1>4. CASE Shutdown  BY <1>4, DrainKeeps
<1>5. CASE Crash  BY <1>5, RestartKeeps
<1>6. ASSUME NEW t \in TurnIds, LaunchStep(t) \/ ThreadStep(t) \/ FinishStep(t)
      PROVE  ChatInv'
  <2>1. CASE LaunchStep(t)
    <3>1. CASE Start(t)  BY <3>1, StartKeeps
    <3>2. CASE ~Start(t)
      <4>1. Aborted(t)  BY <2>1, <3>2, LaunchFails DEF LaunchStep
      <4> QED  BY <4>1, AbortKeeps
    <3> QED  BY <3>1, <3>2
  <2>2. CASE ThreadStep(t)
    <3>1. CASE TaskBegins(t)  BY <3>1, BeginKeeps
    <3>2. ASSUME NEW out \in {"ok", "err", "paused"}, Settle(t, out)  PROVE ChatInv'
      BY <3>2, SettleKeeps
    <3> QED  BY <2>2, <3>1, <3>2 DEF ThreadStep
  <2>3. CASE FinishStep(t)
    <3>1. ASSUME NEW o \in Outcomes, Report(t, o)  PROVE ChatInv'
      BY <3>1, ReportKeeps
    <3>2. CASE ReleasePaused(t) \/ AdvanceStale(t) \/ AdvanceIdle(t)
      BY <3>2, ReleaseKeeps
    <3>3. ASSUME NEW o \in Outcomes, NEW p \in Outcomes, AdvanceQueue(t, o, p)  PROVE ChatInv'
      <4>1. HeadTaken(t, FALSE)  BY <3>3, AdvanceTakes
      <4> QED  BY <4>1, TakenKeeps
    <3> QED  BY <2>3, <3>1, <3>2, <3>3 DEF FinishStep
  <2> QED  BY <1>6, <2>1, <2>2, <2>3
<1> QED  BY <1>1, <1>2, <1>3, <1>4, <1>5, <1>6 DEF Next

\* ChatInv holds of every behaviour.
LEMMA ChatSafe == Spec => []ChatInv
<1>1. Init => ChatInv  BY ChatInitially
<1>2. ChatInv /\ [Next]_vars => ChatInv'  BY ChatStep
<1> QED  BY <1>1, <1>2, PTL DEF Spec

\* Whatever updates, failures and crashes come, the turn that may run is the
\* one in the slot, where /stop and a shutdown find it, and the slot never
\* keeps a turn that is no more.
THEOREM OneTurnInTheSlot == Spec => []SlotDiscipline
<1>1. ChatInv => SlotDiscipline
  <2> SUFFICES ASSUME ChatInv PROVE SlotDiscipline  OBVIOUS
  <2>1. TypeOK
    <3>1. /\ rec.seen \in 0..MaxUpdates /\ rec.session \in 0..made /\ rec.task \in 0..made
          /\ rec.previous \in Seq(1..made) /\ rec.active \in BOOLEAN /\ rec.queue \in Seq(Updates)
      BY DEF ChatInv, ChatTypes, Records
    <3>2. rec.previous \in Seq(Sessions)
      <4>1. rec \in Records(made) /\ made \in Nat /\ MaxSessions \in Nat /\ made <= MaxSessions
        BY Typed DEF ChatInv, ChatTypes
      <4>2. rec \in Records(MaxSessions)  BY <4>1, RecordsGrow
      <4> QED  BY <4>2 DEF Records, Sessions
    <3>3. loop.pc \in {"recover", "requeue", "relaunch", "poll", "reply", "launch",
                       "commit", "drain", "down"}
      BY DEF ChatInv, ChatTypes, LoopSteps
    <3>4. Len(rec.previous) <= MaxPrevious /\ Len(rec.queue) <= FollowupCap + 1
      BY DEF ChatInv, ChatTypes, SlotFits
    <3> QED  BY <3>1, <3>2, <3>3, <3>4 DEF TypeOK, ChatInv, ChatTypes
  <2>2. \A t \in Live : IsRunning(t) => slot = t  BY DEF ChatInv, SlotFits, Live
  <2>3. slot # 0 => turns[slot].phase # "none"  BY DEF ChatInv, SlotFits
  <2> QED  BY <2>1, <2>2, <2>3 DEF SlotDiscipline
<1> QED  BY <1>1, ChatSafe, PTL

-----------------------------------------------------------------------------
(* What a step does to the prompts.                                        *)

\* The prompts stay where they are, and so does the marker while the turn of
\* the slot runs.
Rests ==
    /\ rec'.seen = rec.seen /\ rec'.queue = rec.queue /\ Held' = Held /\ starts' = starts
    /\ slot' = slot /\ slot # 0 /\ IsRunning(slot) /\ rec.active =>
           rec'.active \/ \E t \in TurnIds \ {slot} : turns[t].phase = "settled"

\* The turn of the slot is no longer in hand; its prompt was started.
Released ==
    /\ rec' = rec /\ starts' = starts /\ Held' = 0
    /\ slot' = 0 /\ (Held # 0 => starts[Held] = 1)

\* The process is gone.
Died == rec' = rec /\ starts' = starts /\ slot' = 0 /\ loop'.pc = "down"

\* A turn starts with the prompt in hand.
Started ==
    /\ rec'.seen = rec.seen /\ rec'.queue = rec.queue /\ rec'.active /\ Held' = Held
    /\ IF Held = 0 THEN starts' = starts
       ELSE starts[Held] = 0 /\ starts' = [starts EXCEPT ![Held] = 1]

\* The offset moves on.
Passed == At("commit") /\ offset' = offset + 1 /\ Rests

\* Every step is one of these.
Moves ==
    \/ Passed
    \/ /\ offset' = offset
       /\ \/ Rests \/ Released \/ Died \/ Started \/ Answered \/ Took
          \/ \E t \in TurnIds : Aborted(t) \/ HeadTaken(t, TRUE) \/ HeadTaken(t, FALSE)

\* Where no turn changes but to be asked to stop.
LEMMA SameHeld ==
    ASSUME ChatInv, SameTurns, slot' = slot
    PROVE  Held' = Held
<1>1. slot # 0 => slot \in TurnIds  BY DEF ChatInv, ChatTypes
<1> QED  BY <1>1 DEF SameTurns, Held

\* The steps that leave the record and the slot alone.
LEMMA QuietMoves ==
    ASSUME ChatInv, UNCHANGED <<offset, rec, slot, starts>>, SameTurns
    PROVE  Moves
  BY SameHeld DEF Moves, Rests

\* A turn is started with the prompt in hand.
LEMMA StartMoves ==
    ASSUME ChatInv, NEW t \in TurnIds, Start(t)
    PROVE  Started /\ offset' = offset
<1>1. /\ turns[t].phase = "prepared" /\ rec' = Marked(rec)
      /\ turns' = [turns EXCEPT ![t].phase = "running"]
      /\ starts' = IF turns[t].prompt = 0 THEN starts
                   ELSE [starts EXCEPT ![turns[t].prompt] = @ + 1]
      /\ UNCHANGED <<offset, slot>>
  BY DEF Start, Marked
<1>2. slot = t /\ t # 0
  <2>1. IsRunning(t)  BY <1>1 DEF IsRunning
  <2> QED  BY <2>1, PreparedAlone
<1>3. turns'[t].prompt = turns[t].prompt
  <2>1. "running" \in {"running", "settled", "paused", "reported"}
        /\ turns' = [turns EXCEPT ![t].phase = "running"]
    BY <1>1
  <2> QED  BY <2>1, TurnPhase DEF ChatInv, ChatTypes
<1>4. LET y == Marked(rec)
      IN  y.seen = rec.seen /\ y.queue = rec.queue /\ y.active = TRUE
  BY EditMark DEF ChatInv, ChatTypes
<1>5. Held = turns[t].prompt /\ Held' = Held  BY <1>1, <1>2, <1>3 DEF Held
<1>6. CASE Held = 0
  BY <1>1, <1>4, <1>5, <1>6 DEF Started
<1>7. CASE Held # 0
  <2>1. starts[Held] = 0  BY <1>1, <1>5, <1>7 DEF ChatInv, PromptsFit
  <2>2. starts' = [starts EXCEPT ![Held] = starts[Held] + 1]  BY <1>1, <1>5, <1>7
  <2>3. starts[Held] + 1 = 1  BY <2>1
  <2>4. starts' = [starts EXCEPT ![Held] = 1]  BY <2>2, <2>3
  <2> QED  BY <1>1, <1>4, <1>5, <1>7, <2>1, <2>4 DEF Started
<1> QED  BY <1>6, <1>7

\* A turn is reported; the marker it clears may be that of a later one.
LEMMA ReportMoves ==
    ASSUME ChatInv, NEW t \in TurnIds, NEW o \in Outcomes, Report(t, o)
    PROVE  Moves
<1> DEFINE s == turns[t].session
           good == turns[t].outcome # "err" /\ ~turns[t].cancelled
           nxt == IF good /\ (turns[t].outcome = "paused" \/ rec.session # s)
                  THEN ClearTurn(rec) ELSE ClearTaskOf(ClearTurn(rec), s)
           p == IF good /\ turns[t].outcome = "paused" THEN "paused" ELSE "reported"
<1>1. /\ UNCHANGED <<offset, slot, starts>>
      /\ turns[t].phase = "settled" /\ rec' = Saved(o, nxt)
      /\ turns' = [turns EXCEPT ![t].phase = p]
  BY DEF Report
<1>2. p \in {"running", "settled", "paused", "reported"}  OBVIOUS
<1>3. nxt \in {ClearTurn(rec), ClearTaskOf(ClearTurn(rec), s)}  OBVIOUS
<1> HIDE DEF p, nxt, s, good
<1>4. turns'[t].prompt = turns[t].prompt /\ \A u \in TurnIds \ {t} : turns'[u] = turns[u]
  BY <1>1, <1>2, TurnPhase DEF ChatInv, ChatTypes
<1>5. SameBook(rec, rec')
  <2>1. made \in Nat /\ rec \in Records(made)  BY Typed DEF ChatInv, ChatTypes
  <2>2. \A q \in {rec, ClearTurn(rec), ClearTask(ClearTurn(rec)), ClearTaskOf(ClearTurn(rec), s),
                  ClearTurn(ClearTaskOf(rec, s)), [rec EXCEPT !.active = TRUE]} :
            q \in Records(made) /\ SameBook(rec, q)
    BY <2>1, ClearedRecord
  <2> QED  BY <1>1, <1>3, <2>2 DEF Saved
<1>6. Held' = Held
  <2>1. slot # 0 => slot \in TurnIds  BY DEF ChatInv, ChatTypes
  <2> QED  BY <1>1, <1>4, <2>1 DEF Held
<1>7. IsRunning(slot) => t \in TurnIds \ {slot}  BY <1>1 DEF IsRunning
<1> QED  BY <1>1, <1>5, <1>6, <1>7 DEF Moves, Rests, SameBook

\* The slot is given back, or was not this turn's.
LEMMA ReleaseMoves ==
    ASSUME ChatInv, NEW t \in TurnIds, ReleasePaused(t) \/ AdvanceStale(t) \/ AdvanceIdle(t)
    PROVE  Moves
<1>1. /\ UNCHANGED <<offset, rec, starts>> /\ turns[t].phase \in {"paused", "reported"}
      /\ slot' = IF slot = t THEN 0 ELSE slot
      /\ turns' = [turns EXCEPT ![t] = NoTurn]
  <2>1. CASE ReleasePaused(t)
    BY <2>1 DEF ReleasePaused
  <2>2. CASE AdvanceStale(t)
    BY <2>2 DEF AdvanceStale
  <2>3. CASE AdvanceIdle(t)
    BY <2>3 DEF AdvanceIdle
  <2> QED  BY <2>1, <2>2, <2>3
<1>2. slot # 0 => slot \in TurnIds  BY DEF ChatInv, ChatTypes
<1>3. \A u \in TurnIds \ {t} : turns'[u] = turns[u]  BY <1>1 DEF ChatInv, ChatTypes
<1>4. CASE slot = t
  <2>1. t # 0  BY Typed DEF ChatInv
  <2>2. Held = turns[t].prompt /\ Held' = 0 /\ slot' = 0  BY <1>1, <1>4, <2>1 DEF Held
  <2>3. Held # 0 => starts[Held] = 1  BY <1>1, <2>2 DEF ChatInv, PromptsFit
  <2> QED  BY <1>1, <2>2, <2>3 DEF Moves, Released
<1>5. CASE slot # t
  <2>1. slot' = slot /\ Held' = Held  BY <1>1, <1>2, <1>3, <1>5 DEF Held
  <2> QED  BY <1>1, <2>1 DEF Moves, Rests
<1> QED  BY <1>4, <1>5

\* What is reported after a restart says nothing of the prompts.
LEMMA RecoveredBook ==
    ASSUME ChatInv, NEW o \in Outcomes, Recover(o)
    PROVE  rec'.seen = rec.seen /\ rec'.queue = rec.queue
<1> DEFINE nxt == IF TaskTerminal THEN ClearTask(ClearTurn(rec)) ELSE ClearTurn(rec)
<1>1. rec' = Saved(o, nxt)  BY DEF Recover
<1>2. nxt \in {ClearTurn(rec), ClearTask(ClearTurn(rec))}  OBVIOUS
<1> HIDE DEF nxt
<1>3. made \in Nat /\ rec \in Records(made)  BY Typed DEF ChatInv, ChatTypes
<1>4. \A q \in {rec, ClearTurn(rec), ClearTask(ClearTurn(rec)), ClearTaskOf(ClearTurn(rec), 0),
                ClearTurn(ClearTaskOf(rec, 0)), [rec EXCEPT !.active = TRUE]} :
          q \in Records(made) /\ SameBook(rec, q)
  BY <1>3, ClearedRecord
<1> QED  BY <1>1, <1>2, <1>4 DEF Saved, SameBook

\* Every step.
LEMMA StepMoves ==
    ASSUME ChatInv, [Next]_vars
    PROVE  Moves
<1>0. turns \in [TurnIds -> Turns] /\ (slot # 0 => slot \in TurnIds) /\ 0 \notin TurnIds
  BY Typed DEF ChatInv, ChatTypes
<1>1. CASE UNCHANGED vars
  <2>1. SameTurns  BY <1>0, <1>1 DEF SameTurns, vars
  <2> QED  BY <1>1, <2>1, QuietMoves DEF vars
<1>2. CASE \E k \in Kinds : Poll(k)
  <2>1. UNCHANGED <<offset, rec, slot, starts, turns>>  BY <1>2 DEF Poll
  <2>2. SameTurns  BY <1>0, <2>1 DEF SameTurns
  <2> QED  BY <2>1, <2>2, QuietMoves
<1>3. CASE LoopStep
  <2>1. CASE Handle
    <3>1. CASE HandleIgnored
      <4>1. UNCHANGED <<offset, rec, slot, starts, turns>>  BY <3>1 DEF HandleIgnored
      <4>2. SameTurns  BY <1>0, <4>1 DEF SameTurns
      <4> QED  BY <4>1, <4>2, QuietMoves
    <3>2. ASSUME NEW o \in Outcomes,
                 \/ HandlePrompt(o) \/ HandleTask(o) \/ HandleTaskResume(o) \/ HandleNew(o)
                 \/ HandleStop(o) \/ HandleResume(o) \/ HandleOther(o)
          PROVE  Answered \/ Took
      <4>1. CASE HandlePrompt(o)  BY <4>1, AnswersAnswer, TakesKeep
      <4>2. CASE HandleTask(o)  BY <4>2, AnswersAnswer, TakesKeep
      <4>3. CASE HandleTaskResume(o)  BY <4>3, AnswersAnswer, TakesKeep
      <4>4. CASE HandleNew(o) \/ HandleResume(o)  BY <4>4, SessionsAnswer
      <4>5. CASE HandleStop(o)  BY <4>5, StopAnswers
      <4>6. CASE HandleOther(o)  BY <4>6, AnswersAnswer
      <4> QED  BY <3>2, <4>1, <4>2, <4>3, <4>4, <4>5, <4>6
    <3>3. offset' = offset  BY <2>1 DEF Handle, HandleIgnored, HandlePrompt, HandleTask,
            HandleTaskResume, HandleNew, HandleStop, HandleResume, HandleOther
    <3> QED  BY <2>1, <3>1, <3>2, <3>3 DEF Handle, Moves
  <2>2. CASE Commit
    <3>1. UNCHANGED <<rec, slot, starts, turns>> /\ At("commit") /\ offset' = offset + 1
      BY <2>2 DEF Commit
    <3>2. SameTurns  BY <1>0, <3>1 DEF SameTurns
    <3> QED  BY <3>1, <3>2, SameHeld DEF Moves, Passed, Rests
  <2>3. CASE CommitFails
    <3>1. UNCHANGED <<offset, rec, slot, starts>>  BY <2>3 DEF CommitFails
    <3>2. SameTurns  BY <2>3, DrainTurns DEF CommitFails
    <3> QED  BY <3>1, <3>2, QuietMoves
  <2>4. CASE Exit
    BY <2>4 DEF Exit, Gone, Moves, Died
  <2>5. CASE Restart \/ Recovered
    <3>1. UNCHANGED <<offset, rec, slot, starts, turns>>  BY <2>5 DEF Restart, Recovered
    <3>2. SameTurns  BY <1>0, <3>1 DEF SameTurns
    <3> QED  BY <3>1, <3>2, QuietMoves
  <2>6. CASE \E ok \in BOOLEAN : Reply(ok)
    <3>1. UNCHANGED <<offset, rec, slot, starts, turns>>  BY <2>6 DEF Reply
    <3>2. SameTurns  BY <1>0, <3>1 DEF SameTurns
    <3> QED  BY <3>1, <3>2, QuietMoves
  <2>7. ASSUME NEW o \in Outcomes, Recover(o)  PROVE Moves
    <3>1. UNCHANGED <<offset, slot, starts, turns>> /\ loop.pc = "recover"
      BY <2>7 DEF Recover, At
    <3>2. slot = 0  BY <3>1 DEF ChatInv, SlotFits
    <3>3. rec'.seen = rec.seen /\ rec'.queue = rec.queue  BY <2>7, RecoveredBook
    <3> QED  BY <3>1, <3>2, <3>3 DEF Moves, Rests, Held
  <2>8. ASSUME NEW o \in Outcomes, NEW p \in Outcomes, StartQueued(o, p)  PROVE Moves
    <3>1. \E t \in TurnIds : HeadTaken(t, TRUE)  BY <2>8, RequeueTakes
    <3> QED  BY <3>1 DEF Moves, HeadTaken
  <2> QED  BY <1>3, <2>1, <2>2, <2>3, <2>4, <2>5, <2>6, <2>7, <2>8 DEF LoopStep
<1>4. CASE Shutdown
  <2>1. UNCHANGED <<offset, rec, slot, starts>>  BY <1>4 DEF Shutdown
  <2>2. SameTurns  BY <1>4, DrainTurns DEF Shutdown
  <2> QED  BY <2>1, <2>2, QuietMoves
<1>5. CASE Crash
  BY <1>5 DEF Crash, Gone, Moves, Died
<1>6. ASSUME NEW t \in TurnIds, LaunchStep(t) \/ ThreadStep(t) \/ FinishStep(t)
      PROVE  Moves
  <2>1. CASE LaunchStep(t)
    <3>1. CASE Start(t)
      <4>1. Started /\ offset' = offset  BY <3>1, StartMoves
      <4> QED  BY <4>1 DEF Moves
    <3>2. CASE ~Start(t)
      <4>1. Aborted(t)  BY <2>1, <3>2, LaunchFails DEF LaunchStep
      <4> QED  BY <4>1 DEF Moves, Aborted
    <3> QED  BY <3>1, <3>2
  <2>2. CASE ThreadStep(t)
    <3>1. CASE TaskBegins(t)
      <4>1. UNCHANGED <<offset, rec, slot, starts, turns>>  BY <3>1 DEF TaskBegins
      <4>2. SameTurns  BY <1>0, <4>1 DEF SameTurns
      <4> QED  BY <4>1, <4>2, QuietMoves
    <3>2. ASSUME NEW out \in {"ok", "err", "paused"}, Settle(t, out)  PROVE Moves
      <4>1. /\ UNCHANGED <<offset, rec, slot, starts>>
            /\ turns' = [turns EXCEPT ![t].phase = "settled", ![t].outcome = out]
        BY <3>2 DEF Settle
      <4>2. turns'[t].prompt = turns[t].prompt /\ \A u \in TurnIds \ {t} : turns'[u] = turns[u]
        BY <1>0, <4>1, TurnSettles
      <4>3. Held' = Held  BY <1>0, <4>1, <4>2 DEF Held
      <4> QED  BY <4>1, <4>3 DEF Moves, Rests
    <3> QED  BY <2>2, <3>1, <3>2 DEF ThreadStep
  <2>3. CASE FinishStep(t)
    <3>1. ASSUME NEW o \in Outcomes, Report(t, o)  PROVE Moves
      BY <3>1, ReportMoves
    <3>2. CASE ReleasePaused(t) \/ AdvanceStale(t) \/ AdvanceIdle(t)
      BY <3>2, ReleaseMoves
    <3>3. ASSUME NEW o \in Outcomes, NEW p \in Outcomes, AdvanceQueue(t, o, p)  PROVE Moves
      <4>1. HeadTaken(t, FALSE)  BY <3>3, AdvanceTakes
      <4> QED  BY <4>1 DEF Moves, HeadTaken
    <3> QED  BY <2>3, <3>1, <3>2, <3>3 DEF FinishStep
  <2> QED  BY <1>6, <2>1, <2>2, <2>3
<1> QED  BY <1>1, <1>2, <1>3, <1>4, <1>5, <1>6 DEF Next

-----------------------------------------------------------------------------
(* The record and the offset.                                              *)

\* The offset and the record move together, and no prompt starts twice.
LEMMA OffsetStep ==
    ASSUME ChatInv, ChatInv', Moves
    PROVE  /\ rec'.seen <= offset' /\ rec'.seen >= rec.seen
           /\ \A u \in Updates : starts'[u] <= 1
           /\ offset' > offset => sent = "denied" \/ offset <= rec.seen \/ faults >= MaxAttempts
<1>1. rec'.seen <= offset'  BY DEF ChatInv, OffsetFits
<1>2. \A u \in Updates : starts'[u] <= 1
  <2>1. starts' \in [Updates -> 0..1]  BY DEF ChatInv, ChatTypes
  <2> QED  BY <2>1
<1>3. rec'.seen \in {rec.seen, offset} /\ (offset' = offset \/ At("commit"))
  BY DEF Moves, Passed, Rests, Released, Died, Started, Answered, Took, Aborted, HeadTaken
<1>4. rec.seen \in Nat /\ offset \in Nat /\ rec.seen <= offset
  BY Typed DEF ChatInv, OffsetFits
<1>5. rec'.seen >= rec.seen  BY <1>3, <1>4
<1>6. offset' > offset => sent = "denied" \/ offset <= rec.seen \/ faults >= MaxAttempts
  BY <1>3, <1>4 DEF ChatInv, OffsetFits, At
<1> QED  BY <1>1, <1>2, <1>5, <1>6

\* The marker of the turn that runs.
LEMMA MarkerStep ==
    ASSUME ChatInv, Moves,
           slot # 0, slot' = slot, rec.active, IsRunning(slot)
    PROVE  rec'.active \/ \E t \in TurnIds \ {slot} : turns[t].phase = "settled"
<1>1. CASE Rests  BY <1>1 DEF Rests
<1>2. CASE Released \/ Died  BY <1>2 DEF Released, Died
<1>3. CASE Started  BY <1>3 DEF Started
<1>4. CASE Answered  BY <1>4 DEF Answered
<1>5. CASE Took  BY <1>5 DEF Took
<1>6. ASSUME NEW t \in TurnIds, Aborted(t)  PROVE FALSE
  BY <1>6 DEF Aborted
<1>7. ASSUME NEW t \in TurnIds, HeadTaken(t, TRUE) \/ HeadTaken(t, FALSE)  PROVE FALSE
  BY <1>7 DEF HeadTaken, IsRunning
<1> QED  BY <1>1, <1>2, <1>3, <1>4, <1>5, <1>6, <1>7 DEF Moves, Passed

\* What is in a queue, and what stays in it.
LEMMA InQueue ==
    ASSUME NEW q \in Seq(Updates), NEW u \in ToSet(q)
    PROVE  /\ \A x \in Updates : u \in ToSet(Append(q, x)) /\ u \in ToSet(<<x>> \o q)
           /\ q # <<>> => u = Head(q) \/ u \in ToSet(Tail(q))
<1>1. PICK i \in 1..Len(q) : q[i] = u  BY DEF ToSet
<1>2. ASSUME NEW x \in Updates  PROVE u \in ToSet(Append(q, x)) /\ u \in ToSet(<<x>> \o q)
  <2>1. Len(q) \in Nat /\ i \in DOMAIN Append(q, x) /\ Append(q, x)[i] = u
    BY <1>1
  <2>3. i + 1 \in DOMAIN (<<x>> \o q) /\ (<<x>> \o q)[i + 1] = u
    BY <1>1, OneMore
  <2>4. u \in ToSet(<<x>> \o q)  BY <2>3 DEF ToSet
  <2>5. u \in ToSet(Append(q, x))  BY <2>1 DEF ToSet
  <2> QED  BY <2>4, <2>5
<1>3. ASSUME q # <<>>, u # Head(q)  PROVE u \in ToSet(Tail(q))
  <2>1. Len(q) \in Nat /\ Tail(q) \in Seq(Updates) /\ Len(Tail(q)) = Len(q) - 1 /\ i # 1
    BY <1>1, <1>3
  <2>2. i - 1 \in 1..Len(Tail(q)) /\ Tail(q)[i - 1] = q[i]
    BY <1>1, <1>3, <2>1
  <2>3. i - 1 \in DOMAIN Tail(q)  BY <2>1, <2>2
  <2> QED  BY <1>1, <2>2, <2>3 DEF ToSet
<1> QED  BY <1>2, <1>3

\* The prompt in hand.
LEMMA HeldTyped ==
    ASSUME ChatInv
    PROVE  /\ Held \in 0..MaxUpdates /\ (Held # 0 => Held \in Updates)
           /\ rec.queue \in Seq(Updates) /\ starts \in [Updates -> 0..1]
           /\ \A i \in 1..Len(rec.queue) : rec.queue[i] \in Updates /\ starts[rec.queue[i]] = 0
           /\ MaxUpdates \in Nat /\ slot \in TurnIds \cup {0} /\ 0 \notin TurnIds
           /\ \A t \in TurnIds : slot = t => Held = turns[t].prompt
<1>1. /\ MaxUpdates \in Nat /\ slot \in TurnIds \cup {0} /\ 0 \notin TurnIds
      /\ rec.queue \in Seq(Updates) /\ starts \in [Updates -> 0..1]
      /\ \A t \in TurnIds : turns[t].prompt \in 0..MaxUpdates
  BY Typed DEF ChatInv, ChatTypes
<1>2. Held \in 0..MaxUpdates /\ \A t \in TurnIds : slot = t => Held = turns[t].prompt
  BY <1>1 DEF Held
<1>3. \A i \in 1..Len(rec.queue) : starts[rec.queue[i]] = 0  BY DEF ChatInv, PromptsFit
<1>4. \A i \in 1..Len(rec.queue) : rec.queue[i] \in Updates
  <2> DEFINE q == rec.queue
  <2>1. q \in Seq(Updates)  BY <1>1
  <2> HIDE DEF q
  <2>2. \A i \in 1..Len(q) : q[i] \in Updates  BY <2>1
  <2> QED  BY <2>2 DEF q
<1>5. Held # 0 => Held \in Updates  BY <1>1, <1>2 DEF Updates
<1> QED  BY <1>1, <1>2, <1>3, <1>4, <1>5

\* A prompt that waits is given up for a reason.
LEMMA KeptStep ==
    ASSUME ChatInv, ChatInv', Moves, NEW u \in Pending
    PROVE  \/ starts'[u] > 0 \/ u \in Pending' \/ faults' > faults \/ loop'.pc = "down"
           \/ Handling("stop")
           \/ slot # 0 /\ turns[slot].prompt = u /\ turns[slot].cancelled
<1>1. /\ u \in Updates /\ starts[u] = 0 /\ u \in ToSet(rec.queue) \cup {Held}
      /\ u # 0 /\ faults \in Nat /\ faults' \in Nat
  BY Typed DEF Pending, Updates, ChatInv, ChatTypes
<1>2. /\ Held \in 0..MaxUpdates /\ (Held # 0 => Held \in Updates)
      /\ rec.queue \in Seq(Updates) /\ starts \in [Updates -> 0..1]
      /\ 0 \notin TurnIds /\ slot \in TurnIds \cup {0}
      /\ \A t \in TurnIds : slot = t => Held = turns[t].prompt
  BY HeldTyped
<1>3. slot = 0 => Held = 0  BY DEF Held
<1>4. ASSUME starts'[u] = 0, u \in ToSet(rec'.queue) \/ u = Held'  PROVE u \in Pending'
  BY <1>1, <1>4 DEF Pending
<1>5. CASE Rests  BY <1>1, <1>4, <1>5 DEF Rests
<1>6. CASE Released
  <2>1. u # Held
    <3>1. Held # 0 => starts[Held] = 1  BY <1>6 DEF Released
    <3> QED  BY <1>1, <3>1
  <2> QED  BY <1>1, <1>4, <1>6, <2>1 DEF Released
<1>7. CASE Died  BY <1>7 DEF Died
<1>8. CASE Started
  <2>1. CASE Held = 0  BY <1>1, <1>4, <1>8, <2>1 DEF Started
  <2>2. CASE Held # 0
    <3>1. starts' = [starts EXCEPT ![Held] = 1] /\ rec'.queue = rec.queue /\ Held' = Held
      BY <1>8, <2>2 DEF Started
    <3>2. starts'[u] \in {0, 1}  BY <1>1, <1>2, <3>1
    <3> QED  BY <1>1, <1>4, <3>1, <3>2
  <2> QED  BY <2>1, <2>2
<1>9. CASE Answered
  <2>1. /\ Fresh /\ starts' = starts /\ slot' \in {slot, 0} /\ SameTurns
        /\ slot' = slot \/ sent = "stop"
        /\ QueueAnswer
    BY <1>9 DEF Answered
  <2>2. CASE sent = "stop"  BY <2>1, <2>2 DEF Fresh, Handling, At
  <2>3. CASE sent # "stop"
    <3>1. slot' = slot /\ Held' = Held  BY <2>1, <2>3, SameHeld
    <3>2. offset \in Updates
      BY <2>1, Typed DEF ChatInv, ChatTypes, OffsetFits, Fresh, Updates
    <3>3. u \in ToSet(rec.queue) => u \in ToSet(rec'.queue)
      BY <1>2, <2>1, <2>3, <3>2, InQueue DEF QueueAnswer
    <3> QED  BY <1>1, <1>4, <2>1, <3>1, <3>3
  <2> QED  BY <2>2, <2>3
<1>10. CASE Took
  <2>1. rec.queue = <<>> /\ Held = 0  BY <1>3, <1>10 DEF Took
  <2>2. ToSet(<<>>) = {}  BY DEF ToSet
  <2> QED  BY <1>1, <2>1, <2>2
<1>11. ASSUME NEW t \in TurnIds, Aborted(t)
       PROVE  \/ u \in Pending' \/ faults' > faults
              \/ slot # 0 /\ turns[slot].prompt = u /\ turns[slot].cancelled
  <2>1. /\ slot = t /\ starts' = starts
        /\ faults' >= faults + 1 \/ turns[t].cancelled
        /\ \/ rec'.queue = rec.queue
           \/ turns[t].requeue /\ rec'.queue = <<turns[t].prompt>> \o rec.queue
        /\ turns[t].phase = "prepared"
    BY <1>11 DEF Aborted
  <2>2. CASE faults' >= faults + 1  BY <1>1, <2>2
  <2>3. CASE turns[t].cancelled /\ u = Held  BY <1>2, <2>1, <2>3
  <2>4. CASE u \in ToSet(rec.queue)
    <3>1. turns[t].requeue => turns[t].prompt \in Updates
      BY <1>2, <2>1 DEF ChatInv, SlotFits
    <3>2. u \in ToSet(rec'.queue)  BY <1>2, <2>1, <2>4, <3>1, InQueue
    <3> QED  BY <1>1, <1>4, <2>1, <3>2
  <2> QED  BY <1>1, <2>1, <2>2, <2>3, <2>4
<1>12. ASSUME NEW t \in TurnIds, NEW looped \in {TRUE, FALSE}, HeadTaken(t, looped)
       PROVE  u \in Pending' \/ faults' > faults
  <2> DEFINE x == Prepared(Head(rec.queue), rec.session, FALSE, TRUE, looped)
  <2>1. /\ rec.queue # <<>> /\ slot \in {0, t} /\ turns[t].phase \in {"none", "reported"}
        /\ starts' = starts
        /\ \/ rec'.queue = Tail(rec.queue) /\ slot' = t /\ turns' = [turns EXCEPT ![t] = x]
           \/ faults' >= faults + 1
    BY <1>12 DEF HeadTaken
  <2>2. x.prompt = Head(rec.queue)  BY DEF Prepared, NoTurn
  <2> HIDE DEF x
  <2>3. CASE rec'.queue = Tail(rec.queue) /\ slot' = t /\ turns' = [turns EXCEPT ![t] = x]
    <3>1. Held' = Head(rec.queue)
      BY <1>2, <2>2, <2>3 DEF Held, ChatInv, ChatTypes
    <3>2. Held # u
      <4>1. CASE slot = 0  BY <1>1, <1>3, <4>1
      <4>2. CASE slot = t
        BY <1>1, <1>2, <2>1, <4>2 DEF ChatInv, PromptsFit
      <4> QED  BY <2>1, <4>1, <4>2
    <3>3. u = Head(rec.queue) \/ u \in ToSet(Tail(rec.queue))
      BY <1>1, <1>2, <2>1, <3>2, InQueue
    <3> QED  BY <1>1, <1>4, <2>1, <2>3, <3>1, <3>3
  <2> QED  BY <1>1, <2>1, <2>3
<1> QED  BY <1>5, <1>6, <1>7, <1>8, <1>9, <1>10, <1>11, <1>12 DEF Moves, Passed

\* No update is lost and no prompt is started twice, an accepted prompt is
\* given up only for a reason the user or the log knows, and a restart finds
\* the marker of the turn that was interrupted: whatever failed before.
THEOREM RecordCanBeRelied == Spec => RecordHonest
<1>1. ChatInv /\ ChatInv' /\ [Next]_vars => Moves  BY StepMoves
<1>2. ASSUME ChatInv, ChatInv', [Next]_vars
      PROVE  [/\ rec'.seen <= offset' /\ rec'.seen >= rec.seen
              /\ \A u \in Updates : starts'[u] <= 1
              /\ offset' > offset =>
                     sent = "denied" \/ offset <= rec.seen \/ faults >= MaxAttempts]_vars
  BY <1>1, <1>2, OffsetStep
<1>3. ASSUME ChatInv, ChatInv', [Next]_vars
      PROVE  [\A u \in Pending :
                 \/ starts'[u] > 0 \/ u \in Pending' \/ faults' > faults \/ loop'.pc = "down"
                 \/ Handling("stop")
                 \/ slot # 0 /\ turns[slot].prompt = u /\ turns[slot].cancelled]_vars
  BY <1>1, <1>3, KeptStep
<1>4. ASSUME ChatInv, ChatInv', [Next]_vars
      PROVE  [slot # 0 /\ slot' = slot /\ rec.active /\ IsRunning(slot) /\ IsRunning(slot)'
              => rec'.active \/ \E t \in TurnIds \ {slot} : turns[t].phase = "settled"]_vars
  BY <1>1, <1>4, MarkerStep
<1>5. Spec => OffsetHonest  BY <1>2, ChatSafe, PTL DEF Spec, OffsetHonest
<1>6. Spec => NotForgotten  BY <1>3, ChatSafe, PTL DEF Spec, NotForgotten
<1>7. Spec => MarkerKept  BY <1>4, ChatSafe, PTL DEF Spec, MarkerKept
<1> QED  BY <1>5, <1>6, <1>7 DEF RecordHonest

-----------------------------------------------------------------------------
(* The chat's prompts move as PromptQueue says.                            *)

\* The prompts turns were started with.
Begun == {u \in Updates : starts[u] > 0}

\* The prompt in hand is done with, or was never started.
LEMMA HeldBegun ==
    ASSUME ChatInv
    PROVE  /\ \A u \in Updates : u \in Begun <=> starts[u] = 1
           /\ \A t \in TurnIds : slot = t /\ Held # 0 =>
                  IF turns[t].phase = "prepared" THEN Held \notin Begun ELSE Held \in Begun
<1>1. /\ (Held # 0 => Held \in Updates) /\ starts \in [Updates -> 0..1]
      /\ \A t \in TurnIds : slot = t => Held = turns[t].prompt
  BY HeldTyped
<1>2. \A u \in Updates : u \in Begun <=> starts[u] = 1
  <2>1. \A u \in Updates : starts[u] \in {0, 1}  BY <1>1
  <2> QED  BY <2>1 DEF Begun
<1>3. ASSUME NEW t \in TurnIds, slot = t, Held # 0
      PROVE  IF turns[t].phase = "prepared" THEN Held \notin Begun ELSE Held \in Begun
  <2>1. Held = turns[t].prompt /\ Held \in Updates  BY <1>1, <1>3
  <2>2. CASE turns[t].phase = "prepared"
    <3>1. starts[Held] = 0  BY <1>3, <2>1, <2>2 DEF ChatInv, PromptsFit
    <3> QED  BY <1>2, <2>1, <2>2, <3>1
  <2>3. CASE turns[t].phase # "prepared"
    <3>1. starts[Held] = 1  BY <1>3, <2>1, <2>3 DEF ChatInv, PromptsFit
    <3> QED  BY <1>2, <2>1, <2>3, <3>1
  <2> QED  BY <2>2, <2>3
<1> QED  BY <1>2, <1>3

\* What each kind of step is for the prompts.
LEMMA MovesMap ==
    ASSUME ChatInv, ChatInv', Moves
    PROVE  [Queue!Next]_(Queue!vars)
<1>1. /\ Held \in 0..MaxUpdates /\ (Held # 0 => Held \in Updates)
      /\ rec.queue \in Seq(Updates) /\ starts \in [Updates -> 0..1]
      /\ \A i \in 1..Len(rec.queue) : rec.queue[i] \in Updates /\ starts[rec.queue[i]] = 0
      /\ MaxUpdates \in Nat /\ slot \in TurnIds \cup {0} /\ 0 \notin TurnIds
      /\ \A t \in TurnIds : slot = t => Held = turns[t].prompt
  BY HeldTyped
<1>2. Held = (IF slot = 0 THEN 0 ELSE turns[slot].prompt)  BY DEF Held
<1>3. Held' = (IF slot' = 0 THEN 0 ELSE turns'[slot'].prompt)  BY DEF Held
<1>4. /\ \A u \in Updates : u \in Begun <=> starts[u] = 1
      /\ \A t \in TurnIds : slot = t /\ Held # 0 =>
             IF turns[t].phase = "prepared" THEN Held \notin Begun ELSE Held \in Begun
  BY HeldBegun
<1>5. starts' = starts => Begun' = Begun  BY DEF Begun
<1>6. ASSUME Held' = 0, rec'.queue = rec.queue, Begun' = Begun  PROVE Queue!Next
  BY <1>3, <1>6 DEF Queue!Next, Queue!Release, Begun
<1>7. ASSUME Held' = Held, rec'.queue = rec.queue, Begun' = Begun  PROVE UNCHANGED Queue!vars
  BY <1>2, <1>3, <1>7 DEF Queue!vars, Begun
<1>8. CASE Rests  BY <1>5, <1>7, <1>8 DEF Rests
<1>9. CASE Released  BY <1>5, <1>6, <1>9 DEF Released
<1>10. CASE Died  BY <1>3, <1>5, <1>6, <1>10 DEF Died
<1>11. CASE Started
  <2>1. CASE Held = 0  BY <1>5, <1>7, <1>11, <2>1 DEF Started
  <2>2. CASE Held # 0
    <3>1. /\ rec'.queue = rec.queue /\ Held' = Held /\ starts[Held] = 0
          /\ starts' = [starts EXCEPT ![Held] = 1] /\ Held \in Updates
      BY <1>1, <1>11, <2>2 DEF Started
    <3>2. starts'[Held] = 1 /\ \A u \in Updates \ {Held} : starts'[u] = starts[u]
      BY <1>1, <3>1
    <3>3. Begun' = Begun \cup {Held}  BY <3>1, <3>2 DEF Begun
    <3>4. Held \notin Begun  BY <1>4, <3>1
    <3>5. Queue!Start
      BY <1>2, <1>3, <2>2, <3>1, <3>3, <3>4 DEF Queue!Start, Begun
    <3> QED  BY <3>5 DEF Queue!Next
  <2> QED  BY <2>1, <2>2
<1>12. Fresh => /\ offset \in Updates /\ offset # 0 /\ offset \notin Begun
                /\ Held < offset /\ \A u \in ToSet(rec.queue) : u < offset
  <2> SUFFICES ASSUME Fresh
               PROVE  /\ offset \in Updates /\ offset # 0 /\ offset \notin Begun
                      /\ Held < offset /\ \A u \in ToSet(rec.queue) : u < offset
    OBVIOUS
  <2>1. offset \in Updates /\ offset \in Nat /\ rec.seen \in Nat /\ rec.seen < offset
    <3>1. offset \in Nat /\ rec.seen \in 0..MaxUpdates  BY Typed DEF ChatInv
    <3>2. offset \in 1..(MaxUpdates + 1)  BY DEF ChatInv, ChatTypes
    <3>3. offset <= MaxUpdates /\ rec.seen < offset
      BY <1>1, <3>1 DEF ChatInv, OffsetFits, Fresh
    <3> QED  BY <1>1, <3>1, <3>2, <3>3 DEF Updates
  <2>2. offset \notin Begun  BY <1>4, <2>1 DEF ChatInv, PromptsFit
  <2>3. Held <= rec.seen
    <3>1. slot # 0 => turns[slot].prompt <= rec.seen  BY <1>1 DEF ChatInv, PromptsFit
    <3> QED  BY <1>2, <2>1, <3>1
  <2>4. \A i \in 1..Len(rec.queue) : rec.queue[i] < offset
    <3>1. \A i \in 1..Len(rec.queue) : rec.queue[i] <= rec.seen  BY DEF ChatInv, PromptsFit
    <3>2. \A i \in 1..Len(rec.queue) : rec.queue[i] \in Nat  BY <1>1 DEF Updates
    <3> QED  BY <2>1, <3>1, <3>2
  <2>5. DOMAIN rec.queue = 1..Len(rec.queue)  BY <1>1
  <2>6. \A u \in ToSet(rec.queue) : u < offset  BY <2>4, <2>5 DEF ToSet
  <2>7. Held < offset /\ offset # 0  BY <1>1, <2>1, <2>3 DEF Updates
  <2> QED  BY <2>1, <2>2, <2>6, <2>7
<1>13. CASE Answered
  <2>1. /\ Fresh /\ starts' = starts /\ SameTurns
        /\ slot' = slot \/ (slot' = 0 /\ sent = "stop")
        /\ QueueAnswer
    BY <1>13 DEF Answered
  <2>2. Begun' = Begun  BY <1>5, <2>1
  <2>3. Held' \in {Held, 0} /\ (slot' = slot => Held' = Held)  BY <1>3, <2>1, SameHeld
  <2>4. CASE rec'.queue = rec.queue  BY <1>6, <1>7, <2>2, <2>3, <2>4
  <2>5. CASE rec'.queue = <<>>
    <3>1. Queue!Clear  BY <1>2, <1>3, <2>2, <2>3, <2>5 DEF Queue!Clear, Begun
    <3> QED  BY <3>1 DEF Queue!Next
  <2>6. CASE sent = "prompt" /\ rec'.queue = Append(rec.queue, offset)
    <3>1. Held' = Held  BY <2>1, <2>3, <2>6
    <3>2. \A u \in ToSet(rec.queue) \cup {Held} : u < offset  BY <1>12, <2>1
    <3>3. \A u \in ToSet(rec.queue) \cup {IF slot = 0 THEN 0 ELSE turns[slot].prompt} : u < offset
      BY <1>2, <3>2
    <3>4. offset \notin {u \in Updates : starts[u] > 0}  BY <1>12, <2>1 DEF Begun
    <3>5. /\ (IF slot' = 0 THEN 0 ELSE turns'[slot'].prompt) = (IF slot = 0 THEN 0 ELSE turns[slot].prompt)
          /\ {u \in Updates : starts'[u] > 0} = {u \in Updates : starts[u] > 0}
      BY <1>2, <1>3, <2>1, <3>1
    <3>6. Queue!Accept(offset)
      BY <2>6, <3>3, <3>4, <3>5 DEF Queue!Accept, Queue!ToSet, ToSet
    <3> QED  BY <1>12, <2>1, <3>6 DEF Queue!Next
  <2> QED  BY <2>1, <2>4, <2>5, <2>6 DEF QueueAnswer
<1>14. CASE Took
  <2>1. /\ Fresh /\ starts' = starts /\ slot = 0 /\ Held = 0
        /\ rec.queue = <<>> /\ rec'.queue = <<>> /\ Held' \in {0, offset}
    BY <1>1, <1>2, <1>3, <1>14 DEF Took
  <2>2. CASE Held' = 0  BY <1>5, <1>7, <2>1, <2>2
  <2>3. CASE Held' = offset
    <3>1. Queue!Take(offset)
      BY <1>2, <1>3, <1>5, <1>12, <2>1, <2>3 DEF Queue!Take, Begun
    <3> QED  BY <1>12, <2>1, <3>1 DEF Queue!Next
  <2> QED  BY <2>1, <2>2, <2>3
<1>15. ASSUME NEW t \in TurnIds, Aborted(t)  PROVE Queue!Next
  <2>1. /\ slot = t /\ slot' = 0 /\ starts' = starts /\ turns[t].phase = "prepared"
        /\ \/ rec'.queue = rec.queue
           \/ turns[t].requeue /\ rec'.queue = <<turns[t].prompt>> \o rec.queue
    BY <1>15 DEF Aborted
  <2>2. Held' = 0 /\ Begun' = Begun /\ Held = turns[t].prompt  BY <1>1, <1>3, <1>5, <2>1
  <2>3. CASE rec'.queue = rec.queue  BY <1>6, <2>2, <2>3
  <2>4. CASE turns[t].requeue /\ rec'.queue = <<turns[t].prompt>> \o rec.queue
    <3>1. Held # 0  BY <2>1, <2>2, <2>4 DEF ChatInv, SlotFits
    <3>2. Held \notin Begun  BY <1>4, <2>1, <3>1
    <3>3. rec'.queue = <<Held>> \o rec.queue  BY <2>2, <2>4
    <3>4. Queue!Return
      BY <1>2, <1>3, <2>2, <3>1, <3>2, <3>3 DEF Queue!Return, Begun
    <3> QED  BY <3>4 DEF Queue!Next
  <2> QED  BY <2>1, <2>3, <2>4
<1>16. ASSUME NEW t \in TurnIds, NEW looped \in {TRUE, FALSE}, HeadTaken(t, looped)
       PROVE  Queue!Next
  <2> DEFINE x == Prepared(Head(rec.queue), rec.session, FALSE, TRUE, looped)
  <2>1. /\ rec.queue # <<>> /\ slot \in {0, t} /\ turns[t].phase \in {"none", "reported"}
        /\ starts' = starts
        /\ \/ rec'.queue = Tail(rec.queue) /\ slot' = t /\ turns' = [turns EXCEPT ![t] = x]
           \/ slot' = 0 /\ rec'.queue \in {rec.queue, Tail(rec.queue)}
    BY <1>16 DEF HeadTaken
  <2>2. x.prompt = Head(rec.queue)  BY DEF Prepared, NoTurn
  <2> HIDE DEF x
  <2>3. Begun' = Begun  BY <1>5, <2>1
  <2>4. CASE rec'.queue = Tail(rec.queue) /\ slot' = t /\ turns' = [turns EXCEPT ![t] = x]
    <3>1. Held' = Head(rec.queue)
      BY <1>1, <2>2, <2>4 DEF Held, ChatInv, ChatTypes
    <3>2. Held = 0 \/ Held \in Begun
      BY <1>2, <1>4, <2>1
    <3>3. Queue!TakeHead
      BY <1>2, <1>3, <2>1, <2>3, <2>4, <3>1, <3>2 DEF Queue!TakeHead, Begun
    <3> QED  BY <3>3 DEF Queue!Next
  <2>5. CASE slot' = 0 /\ rec'.queue = rec.queue
    <3>1. Held' = 0  BY <1>3, <2>5
    <3> QED  BY <1>6, <2>3, <2>5, <3>1
  <2>6. CASE slot' = 0 /\ rec'.queue = Tail(rec.queue)
    <3>1. Held' = 0  BY <1>3, <2>6
    <3>2. Queue!Lose  BY <1>3, <2>1, <2>3, <2>6, <3>1 DEF Queue!Lose, Begun
    <3> QED  BY <3>2 DEF Queue!Next
  <2> QED  BY <2>1, <2>4, <2>5, <2>6
<1> QED  BY <1>8, <1>9, <1>10, <1>11, <1>13, <1>14, <1>15, <1>16 DEF Moves, Passed

\* Over all failures, crashes and restarts the chat's prompts move as
\* PromptQueue promises: in their order, one at a time, started once.
THEOREM ChatImplementsQueue == Spec => QueueSpec
<1>1. Init => Queue!Init
  <2> SUFFICES ASSUME Init PROVE Queue!Init  OBVIOUS
  <2>1. rec.queue = <<>> /\ slot = 0 /\ \A u \in Updates : starts[u] = 0
    BY DEF Init
  <2>2. {u \in Updates : starts[u] > 0} = {}  BY <2>1
  <2> QED  BY <2>1, <2>2 DEF Queue!Init
<1>2. ChatInv /\ ChatInv' /\ [Next]_vars => [Queue!Next]_(Queue!vars)
  BY StepMoves, MovesMap
<1> QED  BY <1>1, <1>2, ChatSafe, PTL DEF Spec, QueueSpec, Queue!Spec

=============================================================================
