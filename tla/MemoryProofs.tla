---------------------------- MODULE MemoryProofs ----------------------------
(***************************************************************************)
(* Safety of the memory transaction, and its refinement of UndoableStore,  *)
(* for any actions, contents, interruptions and hand edits.                *)
(*                                                                         *)
(* What a write may do to the disk is right because of the writes before   *)
(* it.  Safe(w, before) says when w may be the next write but for those in *)
(* the set `before`; PlanSafe says that of every write still to do.        *)
(* Images, Heads and LedgerTruthful say what the disk holds between any    *)
(* two writes, Owed what the rest of the plan owes it.  None of these is   *)
(* inductive alone.                                                        *)
(***************************************************************************)
EXTENDS MemoryTransaction, FiniteSetTheorems, TLAPS

Todo == {plan[i] : i \in DOMAIN plan}
Earlier(i) == {plan[k] : k \in 1..(i - 1)}

Kinds == { "mkdir", "preimage", "manifest", "apply", "restore", "verify", "head", "event",
           "purge", "rmdir" }
Writes == [do : Kinds, id : Ids \cup {NoId},
           arg : Targets \cup States \cup Events \cup {"", "before", "after"}]
Phases == {"idle", "scan", "settle", "operate", "finish"}
Later == {"settle", "operate", "finish"}

State(id) == action[id].state
Committed(id) == id \in Ids /\ State(id) = "committed"

MemoryShape ==
    /\ file \in Contents /\ new \in Contents
    /\ action \in [Ids -> Actions]
    /\ head \in Ids \cup {NoId}
    /\ phase \in Phases /\ edits \in Nat
    /\ plan \in Seq(Writes)
    /\ phase = "idle" => plan = <<>>

\* The pre-images of an action are those of its manifest, and a live one has all.
Images ==
    \A id \in Ids :
        /\ action[id].saved \subseteq Bodies(id)
        /\ State(id) \in Live => Bodies(id) \subseteq action[id].saved
        /\ State(id) = "none" => action[id].saved = {}
        /\ \A t \in Targets : action[id].after[t] \in Values \cup {action[id].before[t]}

\* HEAD was aborted by a recovery that somebody's edit has misled; nothing comes
\* after that.
Stranded == head # NoId /\ State(head) = "aborted"

\* HEAD, its parent and the action under way.
Heads ==
    /\ head # NoId => State(head) \in Live \cup {"aborted"}
    /\ Stranded => Pending = {} /\ phase \notin {"operate", "finish"}
    /\ head # NoId /\ ~Stranded /\ action[head].parent # NoId =>
           /\ action[head].parent # head
           /\ State(action[head].parent) \in {"committed", "superseded"}
    /\ \A x, y \in Pending : x = y
    /\ \A x \in Ids : State(x) = "prepared" /\ head # x =>
           head = action[x].parent /\ (head # NoId => <<head, "commit">> \in ledger)
    /\ \A x \in Ids : State(x) = "undoing" => head \in {x, NoId} /\ <<x, "commit">> \in ledger
    /\ \A y \in Ids : State(y) = "committed" /\ y # head =>
           /\ head # NoId
           /\ ~Stranded =>
                /\ action[head].parent = y /\ State(head) \in {"prepared", "committed"}
                /\ Pending \subseteq {head}
                /\ <<y, "commit">> \in ledger

Closing == {"aborted", "rolled_back", "superseded"}
Manifest(x, s) == Write("manifest", x, s)

\* What the rest of the plan owes to the disk.
OwedActions ==
    phase \in Later =>
        \A x \in Ids :
            /\ x \in Pending => \E s \in Closing \cup {"committed"} : Manifest(x, s) \in Todo
            /\ State(x) = "unprepared" => Manifest(x, "prepared") \in Todo
            /\ State(x) \in Closed => \A t \in action[x].saved : Write("purge", x, t) \in Todo

OwedHead ==
    phase \in {"operate", "finish"} =>
        /\ head # NoId /\ State(head) = "committed" =>
               <<head, "commit">> \in ledger \/ Write("event", head, "commit") \in Todo
        /\ \A y \in Ids : State(y) = "committed" /\ y # head => Manifest(y, "superseded") \in Todo

OwedSwap ==
    phase = "finish" /\ head # NoId /\ (\E x \in Ids : Write("head", x, "") \in Todo) =>
        Manifest(head, "superseded") \in Todo

Owed == OwedActions /\ OwedHead /\ OwedSwap

\* What the writes of a plan owe to each other.
Together ==
    \A x \in Ids :
        /\ \A s \in Closing : Manifest(x, s) \in Todo => \A t \in Targets : Write("purge", x, t) \in Todo
        /\ Manifest(x, "committed") \in Todo => Write("event", x, "commit") \in Todo
        /\ Manifest(x, "prepared") \in Todo => Manifest(x, "committed") \in Todo
        /\ Manifest(x, "undoing") \in Todo => Manifest(x, "rolled_back") \in Todo
        /\ Write("mkdir", x, "") \in Todo => Manifest(x, "prepared") \in Todo

-----------------------------------------------------------------------------
(* When a write may be done, given the writes before it.                   *)

\* The writes of a kind that are in E are in `only`, or are of x.
Only(E, do, only) == \A e \in E : e.do = do => e \in only
OnlyOf(E, do, x) == \A e \in E : e.do = do => e.id = x

SafeMkdir(x) ==
    /\ phase = "finish" /\ State(x) = "none" /\ Pending = {}
    /\ \A t \in Targets : new[t] \in Values \cup {file[t]}

SafePreimage(x, t, E) ==
    /\ phase = "finish" /\ Only(E, "manifest", {})
    /\ \/ Write("mkdir", x, "") \in E /\ file[t] # Absent
       \/ State(x) = "unprepared" /\ t \in Bodies(x)

SafePrepared(x, E) ==
    /\ phase = "finish" /\ Pending = {} /\ Only(E, "manifest", {})
    /\ \A y \in Ids : State(y) = "committed" => y = head
    /\ head # NoId => State(head) = "committed" /\ <<head, "commit">> \in ledger
    /\ \/ /\ Write("mkdir", x, "") \in E
          /\ \A t \in Targets : file[t] # Absent => Write("preimage", x, t) \in E
       \/ /\ State(x) = "unprepared" /\ action[x].parent = head /\ action[x].before = file
          /\ \A t \in Bodies(x) \ action[x].saved : Write("preimage", x, t) \in E

SafeUndoing(x) ==
    /\ phase = "finish" /\ head = x /\ State(x) = "committed" /\ Pending = {}
    /\ <<x, "commit">> \in ledger /\ After(x)
    /\ \A y \in Ids : State(y) = "committed" => y = head

SafeCommitted(x, E) ==
    /\ head = x \/ Write("head", x, "") \in E
    /\ State(x) = "prepared" \/ Manifest(x, "prepared") \in E
    /\ Only(E, "head", {Write("head", x, "")}) /\ Only(E, "manifest", {Manifest(x, "prepared")})

SafeSuperseded(x, E) ==
    /\ State(x) = "committed" /\ <<x, "commit">> \in ledger
    /\ <<x, "supersede">> \in ledger \/ Write("event", x, "supersede") \in E
    /\ x # head \/ \E y \in Ids \ {x} : Write("head", y, "") \in E
    /\ \A e \in E : e.do \in {"head", "manifest"} => e.id # x

\* The targets are as they were, and no write of a commit is between.
SafeRestored(x, E) ==
    /\ Before(x) \/ Write("verify", x, "before") \in E
    /\ Only(E, "apply", {}) /\ OnlyOf(E, "restore", x)

SafeAborted(x, E) ==
    /\ State(x) = "prepared" /\ phase = "settle"
    /\ <<x, "abort">> \in ledger \/ Write("event", x, "abort") \in E
    /\ Only(E, "head", {}) /\ Only(E, "manifest", {}) /\ SafeRestored(x, E)

SafeRolledBack(x, E) ==
    /\ State(x) = "undoing" \/ Manifest(x, "undoing") \in E
    /\ head = NoId \/ Write("head", NoId, "") \in E
    /\ <<x, "rollback">> \in ledger \/ Write("event", x, "rollback") \in E
    /\ <<x, "commit">> \in ledger
    /\ Only(E, "head", {Write("head", NoId, "")}) /\ Only(E, "manifest", {Manifest(x, "undoing")})
    /\ SafeRestored(x, E)

SafeApply(x, E) ==
    /\ head # x
    /\ Manifest(x, "prepared") \in E \/ (State(x) = "prepared" /\ Known(x))
    /\ Only(E, "head", {}) /\ Only(E, "restore", {}) /\ OnlyOf(E, "apply", x)
    /\ Only(E, "manifest", {Manifest(x, "prepared")})

SafeRestore(x, E) ==
    /\ (x \in Pending /\ Known(x)) \/ (Manifest(x, "undoing") \in E /\ After(x))
    /\ Only(E, "head", {}) /\ Only(E, "apply", {}) /\ OnlyOf(E, "restore", x)
    /\ Only(E, "manifest", {Manifest(x, "undoing")})

SafeVerifyAfter(x, E) ==
    /\ State(x) = "prepared" \/ Manifest(x, "prepared") \in E
    /\ Only(E, "manifest", {Manifest(x, "prepared")})

SafeHead(x, E) ==
    /\ phase \in {"settle", "finish"}
    /\ (After(x) /\ State(x) = "prepared") \/ Write("verify", x, "after") \in E
    /\ State(x) = "prepared" \/ Manifest(x, "prepared") \in E
    /\ Only(E, "head", {}) /\ Only(E, "restore", {}) /\ OnlyOf(E, "apply", x)
    /\ Only(E, "manifest", {Manifest(x, "prepared")})

SafeNoHead(E) ==
    \E y \in Ids : /\ State(y) = "undoing" \/ Manifest(y, "undoing") \in E
                   /\ Only(E, "manifest", {Manifest(y, "undoing")})

SafeCommitEvent(x, E) ==
    /\ State(x) = "committed" \/ Manifest(x, "committed") \in E
    /\ Only(E, "manifest", {Manifest(x, "prepared"), Manifest(x, "committed")})

SafePurge(x, E) ==
    /\ \/ State(x) \in Closed
       \/ State(x) = "unprepared" /\ phase = "scan"
       \/ \E s \in Closing : Manifest(x, s) \in E
    /\ Only(E, "rmdir", {})

SafeRmdir(x, E) == State(x) = "unprepared" /\ phase = "scan" /\ Only(E, "rmdir", {})

SafeManifest(x, s, E) ==
    /\ s \in {"prepared", "undoing", "committed"} \cup Closing
    /\ s = "prepared" => SafePrepared(x, E)
    /\ s = "undoing" => E = {} /\ SafeUndoing(x)
    /\ s = "committed" => SafeCommitted(x, E)
    /\ s = "superseded" => SafeSuperseded(x, E)
    /\ s = "aborted" => SafeAborted(x, E)
    /\ s = "rolled_back" => SafeRolledBack(x, E)

Safe(w, E) ==
    /\ w.do # "head" => w.id \in Ids
    /\ w.do \in {"preimage", "apply", "restore", "purge"} => w.arg \in Targets
    /\ w.do = "verify" => w.arg \in {"before", "after"}
    /\ w.do = "event" => w.arg \in Events
    /\ w.do \in {"mkdir", "head", "rmdir"} => w.arg = ""
    /\ w.do = "mkdir" => E = {} /\ SafeMkdir(w.id)
    /\ w.do = "preimage" => SafePreimage(w.id, w.arg, E)
    /\ w.do = "manifest" => SafeManifest(w.id, w.arg, E)
    /\ w.do = "apply" => SafeApply(w.id, E)
    /\ w.do = "restore" => SafeRestore(w.id, E)
    /\ w.do = "verify" /\ w.arg = "after" => SafeVerifyAfter(w.id, E)
    /\ w.do = "head" /\ w.id # NoId => SafeHead(w.id, E)
    /\ w.do = "head" /\ w.id = NoId => SafeNoHead(E)
    /\ w.do = "event" /\ w.arg = "commit" => SafeCommitEvent(w.id, E)
    /\ w.do = "purge" => SafePurge(w.id, E)
    /\ w.do = "rmdir" => SafeRmdir(w.id, E)

PlanSafe ==
    \A i \in DOMAIN plan : \A w \in {plan[i]} : \A E \in {Earlier(i)} : Safe(w, E)

\* An operation that went through leaves pre-images of HEAD only.
BodiesOfHead ==
    phase = "idle" /\ outcome = "ok" => \A x \in Ids : action[x].saved # {} => x = head

MemInv ==
    /\ MemoryShape /\ Images /\ Heads /\ LedgerTruthful
    /\ PlanSafe /\ Owed /\ Together /\ BodiesOfHead

-----------------------------------------------------------------------------
(* Writes and plans.                                                       *)

\* There are two targets, written in their order.
LEMMA TwoTargets ==
    /\ Targets = {TARGETS[1], TARGETS[2]} /\ TARGETS[1] # TARGETS[2]
    /\ \A do, id : EachTarget(do, id) = <<Write(do, id, TARGETS[1]), Write(do, id, TARGETS[2])>>
<1>1. DOMAIN TARGETS = {1, 2}  BY DEF TARGETS
<1>2. TARGETS[1] = "memory-facts.jsonl" /\ TARGETS[2] = "resume.md"  BY DEF TARGETS
<1>3. Targets = {TARGETS[1], TARGETS[2]}  BY <1>1 DEF Targets
<1>4. ASSUME NEW do, NEW id
      PROVE  EachTarget(do, id) = <<Write(do, id, TARGETS[1]), Write(do, id, TARGETS[2])>>
  BY <1>1 DEF EachTarget
<1>5. TARGETS[1] # TARGETS[2]  BY <1>2
<1> QED  BY <1>3, <1>4, <1>5

\* What a write that is written down says.
LEMMA Fields ==
    \A do, id, arg : /\ Write(do, id, arg).do = do
                     /\ Write(do, id, arg).id = id /\ Write(do, id, arg).arg = arg
  BY DEF Write

\* Every write is one that Write makes.
LEMMA Written ==
    ASSUME NEW w \in Writes
    PROVE  w = Write(w.do, w.id, w.arg)
  BY DEF Writes, Write

\* The next write is done: what was before a later one is now done or before it.
LEMMA NextWrite ==
    ASSUME MemoryShape, plan # <<>>, plan' = Tail(plan)
    PROVE  /\ W \in Writes /\ plan' \in Seq(Writes)
           /\ Todo' \subseteq Todo /\ Todo = Todo' \cup {W}
           /\ Todo \subseteq Writes
           /\ 1 \in DOMAIN plan /\ W = plan[1] /\ Earlier(1) = {}
           /\ \A i \in DOMAIN plan' : /\ i + 1 \in DOMAIN plan /\ plan'[i] = plan[i + 1]
                                      /\ Earlier(i + 1) = Earlier(i)' \cup {W}
<1>1. plan \in Seq(Writes)  BY DEF MemoryShape
<1>2. /\ Len(plan) \in Nat /\ Len(plan) >= 1 /\ DOMAIN plan = 1..Len(plan)
      /\ \A i \in 1..Len(plan) : plan[i] \in Writes
  BY <1>1
<1>3. /\ plan' \in Seq(Writes) /\ Len(plan') = Len(plan) - 1 /\ DOMAIN plan' = 1..(Len(plan) - 1)
      /\ \A i \in 1..(Len(plan) - 1) : plan'[i] = plan[i + 1]
  BY <1>1, <1>2
<1>4. W = plan[1]  BY <1>1 DEF W
<1>5. Todo = Todo' \cup {W}
  <2>1. Todo' = {plan'[i] : i \in 1..(Len(plan) - 1)} /\ Todo = {plan[i] : i \in 1..Len(plan)}
    BY <1>2, <1>3 DEF Todo
  <2>2. ASSUME NEW w \in Todo  PROVE w \in Todo' \cup {W}
    <3>1. PICK i \in 1..Len(plan) : w = plan[i]  BY <2>1
    <3>2. CASE i = 1  BY <3>1, <3>2, <1>4
    <3>3. CASE i # 1
      <4>1. i - 1 \in 1..(Len(plan) - 1) /\ plan'[i - 1] = plan[(i - 1) + 1]  BY <3>3, <1>2, <1>3
      <4>2. plan'[i - 1] = w  BY <4>1, <3>1, <1>2
      <4> QED  BY <4>1, <4>2, <2>1
    <3> QED  BY <3>2, <3>3
  <2>3. ASSUME NEW w \in Todo' \cup {W}  PROVE w \in Todo
    BY <2>1, <1>2, <1>3, <1>4
  <2> QED  BY <2>2, <2>3
<1>6. ASSUME NEW i \in DOMAIN plan'
      PROVE  /\ i + 1 \in DOMAIN plan /\ plan'[i] = plan[i + 1]
             /\ Earlier(i + 1) = Earlier(i)' \cup {W}
  <2>1. i \in Nat /\ i >= 1 /\ i <= Len(plan) - 1  BY <1>2, <1>3
  <2>2. Earlier(i)' = {plan'[k] : k \in 1..(i - 1)}  BY DEF Earlier
  <2>3. Earlier(i + 1) = {plan[k] : k \in 1..i}  BY <2>1 DEF Earlier
  <2>4. ASSUME NEW w \in Earlier(i + 1)  PROVE w \in Earlier(i)' \cup {W}
    <3>1. PICK k \in 1..i : w = plan[k]  BY <2>3
    <3>2. CASE k = 1  BY <3>1, <3>2, <1>4
    <3>3. CASE k # 1
      <4>1. k - 1 \in 1..(i - 1) /\ k - 1 \in 1..(Len(plan) - 1) /\ (k - 1) + 1 = k
        BY <3>3, <2>1, <1>2
      <4>2. plan'[k - 1] = w  BY <4>1, <3>1, <1>3
      <4> QED  BY <4>1, <4>2, <2>2
    <3> QED  BY <3>2, <3>3
  <2>5. ASSUME NEW w \in Earlier(i)'  PROVE w \in Earlier(i + 1)
    <3>1. PICK k \in 1..(i - 1) : w = plan'[k]  BY <2>2
    <3>2. k \in 1..(Len(plan) - 1) /\ k + 1 \in 1..i  BY <2>1, <1>2
    <3>3. w = plan[k + 1]  BY <3>1, <3>2, <1>3
    <3> QED  BY <3>2, <3>3, <2>3
  <2>6. W \in Earlier(i + 1)  BY <2>1, <2>3, <1>4
  <2> QED  BY <2>1, <2>4, <2>5, <2>6, <1>2, <1>3
<1>7. Earlier(1) = {}  BY DEF Earlier
<1>8. Todo \subseteq Writes  BY <1>2 DEF Todo
<1> QED  BY <1>2, <1>3, <1>4, <1>5, <1>6, <1>7, <1>8

\* A write after the next one: the two that may only come first do not, and it
\* is safe once that one is done.
LEMMA LaterWrite ==
    ASSUME MemoryShape, PlanSafe, plan # <<>>, plan' = Tail(plan)
    PROVE  /\ Safe(W, {})
           /\ \A w \in Todo' : /\ w.do # "mkdir" /\ w # Manifest(w.id, "undoing")
                               /\ \E E \in SUBSET Todo' : Safe(w, E \cup {W})
<1>1. Safe(W, {})  BY NextWrite DEF PlanSafe
<1>2. ASSUME NEW i \in DOMAIN plan'
      PROVE  /\ Earlier(i)' \subseteq Todo' /\ Earlier(i)' \subseteq Writes
             /\ Safe(plan'[i], Earlier(i)' \cup {W})
  <2>1. i + 1 \in DOMAIN plan /\ plan'[i] = plan[i + 1] /\ Earlier(i + 1) = Earlier(i)' \cup {W}
    BY NextWrite
  <2>2. Safe(plan[i + 1], Earlier(i + 1))  BY <2>1 DEF PlanSafe
  <2>3. plan' \in Seq(Writes)  BY NextWrite
  <2>4. Earlier(i)' \subseteq Todo'
    <3>1. DOMAIN plan' = 1..Len(plan') /\ Len(plan') \in Nat  BY <2>3
    <3>2. 1..(i - 1) \subseteq DOMAIN plan'  BY <3>1
    <3> QED  BY <3>2 DEF Earlier, Todo
  <2> QED  BY <2>1, <2>2, <2>4, NextWrite
<1>3. ASSUME NEW w \in Todo'
      PROVE  \E E \in SUBSET Todo' : Safe(w, E \cup {W})
  BY <1>2 DEF Todo
<1>4. ASSUME NEW w \in Todo'
      PROVE  w.do # "mkdir" /\ w # Manifest(w.id, "undoing")
  <2>1. PICK E \in SUBSET Todo' : Safe(w, E \cup {W})  BY <1>3
  <2>2. E \cup {W} # {}  OBVIOUS
  <2>3. w.do # "mkdir"  BY <2>1, <2>2 DEF Safe
  <2>4. ASSUME w = Manifest(w.id, "undoing")  PROVE FALSE
    <3>1. w.do = "manifest" /\ w.arg = "undoing"  BY <2>4 DEF Manifest, Write
    <3> QED  BY <2>1, <2>2, <3>1 DEF Safe, SafeManifest
  <2> QED  BY <2>3, <2>4
<1> QED  BY <1>1, <1>3, <1>4

\* What the writes owe to each other they owe until they are done.
LEMMA TogetherStays ==
    ASSUME MemoryShape, PlanSafe, Together, plan # <<>>, plan' = Tail(plan)
    PROVE  Together'
<1> USE DEF Manifest, Write
<1>1. /\ Todo = Todo' \cup {W} /\ Safe(W, {})
      /\ \A w \in Todo' : /\ w.do # "mkdir" /\ w # Manifest(w.id, "undoing")
                          /\ \E E \in SUBSET Todo' : Safe(w, E \cup {W})
  BY NextWrite, LaterWrite
<1>2. SUFFICES ASSUME NEW x \in Ids
      PROVE  /\ \A s \in Closing : Manifest(x, s) \in Todo' =>
                    \A t \in Targets : Write("purge", x, t) \in Todo'
             /\ Manifest(x, "committed") \in Todo' => Write("event", x, "commit") \in Todo'
             /\ Manifest(x, "prepared") \in Todo' => Manifest(x, "committed") \in Todo'
             /\ Manifest(x, "undoing") \notin Todo' /\ Write("mkdir", x, "") \notin Todo'
  BY DEF Together
<1>3. ASSUME NEW s, Manifest(x, s) \in Todo'
      PROVE  \E E \in SUBSET Todo' : /\ s = "prepared" => SafePrepared(x, E \cup {W})
                                     /\ s = "committed" => SafeCommitted(x, E \cup {W})
                                     /\ s = "superseded" => SafeSuperseded(x, E \cup {W})
                                     /\ s = "aborted" => SafeAborted(x, E \cup {W})
                                     /\ s = "rolled_back" => SafeRolledBack(x, E \cup {W})
  BY <1>1, <1>3 DEF Safe, SafeManifest
<1>4. ASSUME NEW s \in Closing, Manifest(x, s) \in Todo', NEW t \in Targets,
             Write("purge", x, t) = W
      PROVE  FALSE
  <2>1. PICK E \in SUBSET Todo' : /\ s = "superseded" => SafeSuperseded(x, E \cup {W})
                                  /\ s = "aborted" => SafeAborted(x, E \cup {W})
                                  /\ s = "rolled_back" => SafeRolledBack(x, E \cup {W})
    BY <1>3, <1>4
  <2>2. State(x) \in {"committed", "prepared", "undoing"}
    <3>1. Manifest(x, "undoing") \notin E \cup {W}  BY <1>1, <1>4
    <3> QED  BY <2>1, <3>1 DEF SafeSuperseded, SafeAborted, SafeRolledBack, Closing
  <2>3. State(x) \in Closed \cup {"unprepared"} \/ \E r \in Closing : Manifest(x, r) \in {}
    BY <1>1, <1>4 DEF Safe, SafePurge
  <2> QED  BY <2>2, <2>3 DEF Closed
<1>5. ASSUME Manifest(x, "committed") \in Todo', Write("event", x, "commit") = W
      PROVE  FALSE
  <2>1. PICK E \in SUBSET Todo' : SafeCommitted(x, E \cup {W})  BY <1>3, <1>5
  <2>2. State(x) = "committed"  BY <1>1, <1>5 DEF Safe, SafeCommitEvent
  <2>3. Manifest(x, "prepared") \in E  BY <2>1, <2>2, <1>5 DEF SafeCommitted
  <2>4. PICK F \in SUBSET Todo' : SafePrepared(x, F \cup {W})  BY <1>3, <2>3
  <2>5. Write("mkdir", x, "") \notin F \cup {W}  BY <1>1, <1>5
  <2> QED  BY <2>2, <2>4, <2>5 DEF SafePrepared
<1>6. ASSUME Manifest(x, "prepared") \in Todo', Manifest(x, "committed") = W
      PROVE  FALSE
  <2>1. PICK E \in SUBSET Todo' : SafePrepared(x, E \cup {W})  BY <1>3, <1>6
  <2>2. SafeCommitted(x, {})  BY <1>1, <1>6 DEF Safe, SafeManifest
  <2>3. Write("mkdir", x, "") \notin E \cup {W}  BY <1>1, <1>6
  <2> QED  BY <2>1, <2>2, <2>3 DEF SafePrepared, SafeCommitted
<1>7. Manifest(x, "undoing") \notin Todo' /\ Write("mkdir", x, "") \notin Todo'  BY <1>1
<1>8. /\ \A s \in Closing : Manifest(x, s) \in Todo => \A t \in Targets : Write("purge", x, t) \in Todo
      /\ Manifest(x, "committed") \in Todo => Write("event", x, "commit") \in Todo
      /\ Manifest(x, "prepared") \in Todo => Manifest(x, "committed") \in Todo
  BY DEF Together
<1> HIDE DEF Manifest, Write
<1> QED  BY <1>1, <1>4, <1>5, <1>6, <1>7, <1>8

\* What is safe after the next write, given it was, keeps the plan safe.
LEMMA PlanStays ==
    ASSUME MemoryShape, PlanSafe, plan # <<>>, plan' = Tail(plan),
           \A w \in Writes : \A E \in SUBSET Writes :
               w \in Todo' /\ E \subseteq Todo' /\ Safe(w, E \cup {W}) => Safe(w, E)'
    PROVE  PlanSafe'
<1> SUFFICES ASSUME NEW i \in DOMAIN plan', NEW w \in {plan'[i]}, NEW E \in {Earlier(i)'}
             PROVE  Safe(w, E)'
  BY DEF PlanSafe
<1>1. /\ i + 1 \in DOMAIN plan /\ w = plan[i + 1] /\ Earlier(i + 1) = E \cup {W}
      /\ w \in Writes /\ E \subseteq Writes /\ w \in Todo' /\ E \subseteq Todo'
  <2>1. w = plan'[i] /\ E = Earlier(i)'  OBVIOUS
  <2>2. i + 1 \in DOMAIN plan /\ plan'[i] = plan[i + 1] /\ Earlier(i + 1) = Earlier(i)' \cup {W}
    BY NextWrite
  <2>3. w \in Todo' /\ E \subseteq Todo'
    <3>1. plan' \in Seq(Writes)  BY NextWrite
    <3>2. DOMAIN plan' = 1..Len(plan') /\ Len(plan') \in Nat  BY <3>1
    <3>3. 1..(i - 1) \subseteq DOMAIN plan'  BY <3>2
    <3> QED  BY <2>1, <3>3 DEF Earlier, Todo
  <2> QED  BY <2>1, <2>2, <2>3, NextWrite
<1>2. Safe(w, E \cup {W})  BY <1>1 DEF PlanSafe
<1> QED  BY <1>1, <1>2
-----------------------------------------------------------------------------
(* One write each.                                                         *)

\* u is the next write.
Next1(u) ==
    /\ MemInv /\ phase # "idle" /\ plan # <<>> /\ u = W /\ u \in Writes
    /\ Continue

\* F are the writes in E and u.
Follows(F, E, u) == F = E \cup {u}

\* What was safe after the writes in F is safe after those in E, now.
StaySafe(F, E, x) ==
    /\ \A t \in Targets : SafePreimage(x, t, F) => SafePreimage(x, t, E)'
    /\ SafePrepared(x, F) => SafePrepared(x, E)'
    /\ SafeCommitted(x, F) => SafeCommitted(x, E)'
    /\ SafeSuperseded(x, F) => SafeSuperseded(x, E)'
    /\ SafeAborted(x, F) => SafeAborted(x, E)'
    /\ SafeRolledBack(x, F) => SafeRolledBack(x, E)'
    /\ SafeApply(x, F) => SafeApply(x, E)'
    /\ SafeRestore(x, F) => SafeRestore(x, E)'
    /\ SafeVerifyAfter(x, F) => SafeVerifyAfter(x, E)'
    /\ SafeHead(x, F) => SafeHead(x, E)'
    /\ SafeNoHead(F) => SafeNoHead(E)'
    /\ SafeCommitEvent(x, F) => SafeCommitEvent(x, E)'
    /\ SafePurge(x, F) => SafePurge(x, E)'
    /\ SafeRmdir(x, F) => SafeRmdir(x, E)'

\* What a write has to show: the disk it leaves is as it should be, and every
\* write after it is as safe as before.
LEMMA WriteKeeps ==
    ASSUME NEW u \in Writes, Next1(u),
           file' \in Contents, action' \in [Ids -> Actions], head' \in Ids \cup {NoId},
           Images', Heads', LedgerTruthful', Owed',
           \A x \in Ids : \A E, F \in SUBSET Writes :
               E \subseteq Todo' /\ Follows(F, E, u) => StaySafe(F, E, x)
    PROVE  MemInv'
<1>1. /\ MemoryShape /\ PlanSafe /\ Together /\ plan # <<>> /\ plan' = Tail(plan) /\ u = W
      /\ phase' = phase /\ phase # "idle" /\ new' = new /\ edits' = edits
  BY DEF Next1, MemInv, Continue
<1>2. plan' \in Seq(Writes)  BY <1>1, NextWrite
<1>3. MemoryShape'  BY <1>1, <1>2 DEF MemoryShape
<1>4. Together'  BY <1>1, TogetherStays
<1>5. PlanSafe'
  <2>1. ASSUME NEW w \in Writes, NEW E \in SUBSET Writes,
               w \in Todo', E \subseteq Todo', Safe(w, E \cup {u})
        PROVE  Safe(w, E)'
    <3> DEFINE F == E \cup {u}
    <3>1. w.do # "mkdir" /\ ~(w.do = "manifest" /\ w.arg = "undoing")
      BY <2>1, <1>1, LaterWrite DEF Writes, Manifest, Write
    <3>2. Safe(w, F) /\ \A x \in Ids : StaySafe(F, E, x)  BY <2>1 DEF Follows
    <3> HIDE DEF F
    <3>3. SafeNoHead(F) => SafeNoHead(E)'
      <4>1. SafeNoHead(F) => \E x \in Ids : TRUE  BY DEF SafeNoHead
      <4> QED  BY <4>1, <3>2 DEF StaySafe
    <3>4. w.id \in Ids => StaySafe(F, E, w.id)  BY <3>2
    <3>5. w.id \in Ids \cup {NoId}  BY DEF Writes
    <3>6. w.do = "manifest" /\ SafeManifest(w.id, w.arg, F) => SafeManifest(w.id, w.arg, E)'
      BY <3>1, <3>2, <3>4 DEF Safe, SafeManifest, StaySafe
    <3> QED  BY <3>1, <3>2, <3>3, <3>4, <3>5, <3>6 DEF Safe, StaySafe
  <2> QED  BY <2>1, <1>1, PlanStays
<1>6. BodiesOfHead'  BY <1>1 DEF BodiesOfHead
<1> QED  BY <1>3, <1>4, <1>5, <1>6 DEF MemInv

\* The next write and those after it.
LEMMA Rest ==
    ASSUME NEW u \in Writes, Next1(u)
    PROVE  /\ Safe(u, {})
           /\ Todo = Todo' \cup {u}
           /\ \A w \in Todo' : /\ w.do # "mkdir" /\ w # Manifest(w.id, "undoing")
                               /\ \E E \in SUBSET Todo' : Safe(w, E \cup {u})
<1>1. MemoryShape /\ PlanSafe /\ plan # <<>> /\ plan' = Tail(plan) /\ u = W
  BY DEF Next1, MemInv, Continue
<1> QED  BY <1>1, NextWrite, LaterWrite

\* The writes in F of another kind than u are in E, and what holds of the kinds
\* of writes in F holds of those in E.
LEMMA Others ==
    ASSUME NEW u \in Writes, NEW E \in SUBSET Writes, NEW F \in SUBSET Writes, Follows(F, E, u)
    PROVE  /\ \A do, id, arg : do # u.do /\ Write(do, id, arg) \in F => Write(do, id, arg) \in E
           /\ u.do # "manifest" => \A id, s : Manifest(id, s) \in F => Manifest(id, s) \in E
           /\ E \subseteq F
           /\ \A do, only : Only(F, do, only) => Only(E, do, only)
           /\ \A do, x : OnlyOf(F, do, x) => OnlyOf(E, do, x)
           /\ \A do, only : Only(F, do, only) /\ u.do = do => u \in only
           /\ \A do, x : OnlyOf(F, do, x) /\ u.do = do => u.id = x
<1>1. \A do, id, arg : Write(do, id, arg).do = do  BY DEF Write
<1>2. \A do, id, arg : do # u.do => Write(do, id, arg) # u  BY <1>1
<1>3. u.do # "manifest" => \A id, s : Manifest(id, s) # u  BY <1>2 DEF Manifest
<1>4. /\ \A do, only : Only(F, do, only) => Only(E, do, only)
      /\ \A do, x : OnlyOf(F, do, x) => OnlyOf(E, do, x)
      /\ \A do, only : Only(F, do, only) /\ u.do = do => u \in only
      /\ \A do, x : OnlyOf(F, do, x) /\ u.do = do => u.id = x
  BY DEF Only, OnlyOf, Follows
<1> QED  BY <1>2, <1>3, <1>4 DEF Follows

\* The same of the writes that are left.
LEMMA OthersLeft ==
    ASSUME NEW u \in Writes, Next1(u)
    PROVE  /\ \A do, id, arg : do # u.do /\ Write(do, id, arg) \in Todo => Write(do, id, arg) \in Todo'
           /\ u.do # "manifest" => \A id, s : Manifest(id, s) \in Todo => Manifest(id, s) \in Todo'
<1>1. \A do, id, arg : Write(do, id, arg).do = do  BY DEF Write
<1>2. \A do, id, arg : do # u.do => Write(do, id, arg) # u  BY <1>1
<1>3. u.do # "manifest" => \A id, s : Manifest(id, s) # u  BY <1>2 DEF Manifest
<1> QED  BY <1>2, <1>3, Rest

\* What most writes leave as it is: the state of every action, and the images
\* and parent of those that are under way.
Undisturbed ==
    /\ phase' = phase /\ head' = head /\ ledger \subseteq ledger'
    /\ \A y \in Ids :
          /\ State(y)' = State(y)
          /\ State(y) \in {"prepared", "undoing"} \/ (State(y) = "unprepared" /\ phase = "finish") =>
                 /\ action'[y].parent = action[y].parent
                 /\ action'[y].before = action[y].before /\ action'[y].after = action[y].after

\* A write that changes no target, no HEAD and no manifest's state keeps a later
\* write safe.
LEMMA FrameStaysSafe ==
    ASSUME NEW u \in Writes, Next1(u), Undisturbed, file' = file,
           u.do \in {"preimage", "verify", "event", "purge"},
           NEW y \in Ids, NEW E \in SUBSET Writes, NEW F \in SUBSET Writes,
           E \subseteq Todo', Follows(F, E, u)
    PROVE  /\ \A t \in Targets : SafePreimage(y, t, F) => SafePreimage(y, t, E)'
           /\ SafeCommitted(y, F) => SafeCommitted(y, E)'
           /\ SafeApply(y, F) => SafeApply(y, E)'
           /\ SafeRestore(y, F) => SafeRestore(y, E)'
           /\ SafeVerifyAfter(y, F) => SafeVerifyAfter(y, E)'
           /\ SafeNoHead(F) => SafeNoHead(E)'
           /\ SafeCommitEvent(y, F) => SafeCommitEvent(y, E)'
           /\ SafePurge(y, F) => SafePurge(y, E)'
           /\ SafeRmdir(y, F) => SafeRmdir(y, E)'
           /\ u.do # "verify" => (SafeHead(y, F) => SafeHead(y, E)')
           /\ u.do # "event" => (SafeSuperseded(y, F) => SafeSuperseded(y, E)')
           /\ u.do \notin {"verify", "event"} =>
                 /\ SafeAborted(y, F) => SafeAborted(y, E)'
                 /\ SafeRolledBack(y, F) => SafeRolledBack(y, E)'
           /\ Pending' = Pending
<1>1. /\ phase' = phase /\ head' = head /\ ledger \subseteq ledger' /\ file' = file
      /\ \A z \in Ids : State(z)' = State(z)
      /\ \A z \in Ids :
            State(z) \in {"prepared", "undoing"} \/ (State(z) = "unprepared" /\ phase = "finish") =>
               /\ action'[z].parent = action[z].parent
               /\ action'[z].before = action[z].before /\ action'[z].after = action[z].after
  BY DEF Undisturbed
<1>2. /\ \A id, arg : Write("mkdir", id, arg) \notin E
      /\ \A id : Manifest(id, "undoing") \notin E
  <2>1. \A w \in Todo' : w.do # "mkdir" /\ w # Manifest(w.id, "undoing")  BY Rest
  <2> QED  BY <2>1 DEF Manifest, Write
<1>3. /\ \A do, id, arg : do # u.do /\ Write(do, id, arg) \in F => Write(do, id, arg) \in E
      /\ \A id, s : Manifest(id, s) \in F => Manifest(id, s) \in E
      /\ \A do, only : Only(F, do, only) => Only(E, do, only)
      /\ \A do, id : OnlyOf(F, do, id) => OnlyOf(E, do, id)
      /\ E \subseteq F
  BY Others
<1>4. Pending' = Pending  BY <1>1 DEF Pending, InState, State
<1>5. \A t \in Targets : SafePreimage(y, t, F) => SafePreimage(y, t, E)'
  BY <1>1, <1>2, <1>3 DEF SafePreimage, Bodies
<1>6. SafeCommitted(y, F) => SafeCommitted(y, E)'
  BY <1>1, <1>3 DEF SafeCommitted
<1>7. SafeApply(y, F) => SafeApply(y, E)'
  BY <1>1, <1>3 DEF SafeApply, Known
<1>8. SafeRestore(y, F) => SafeRestore(y, E)'
  <2>1. y \in Pending => State(y) \in {"prepared", "undoing"}  BY DEF Pending, InState, State
  <2> QED  BY <2>1, <1>1, <1>2, <1>3, <1>4 DEF SafeRestore, Known
<1>9. SafeVerifyAfter(y, F) => SafeVerifyAfter(y, E)'
  BY <1>1, <1>3 DEF SafeVerifyAfter
<1>10. SafeNoHead(F) => SafeNoHead(E)'
  BY <1>1, <1>3 DEF SafeNoHead
<1>11. SafeCommitEvent(y, F) => SafeCommitEvent(y, E)'
  BY <1>1, <1>3 DEF SafeCommitEvent
<1>12. SafePurge(y, F) => SafePurge(y, E)'
  BY <1>1, <1>3 DEF SafePurge
<1>13. SafeRmdir(y, F) => SafeRmdir(y, E)'
  BY <1>1, <1>3 DEF SafeRmdir
<1>14. ASSUME u.do # "verify", SafeHead(y, F)  PROVE SafeHead(y, E)'
  BY <1>1, <1>3, <1>14 DEF SafeHead, After
<1>15. ASSUME u.do # "event", SafeSuperseded(y, F)  PROVE SafeSuperseded(y, E)'
  BY <1>1, <1>3, <1>15 DEF SafeSuperseded
<1>16. ASSUME u.do \notin {"verify", "event"}, SafeAborted(y, F)  PROVE SafeAborted(y, E)'
  BY <1>1, <1>3, <1>16 DEF SafeAborted, SafeRestored, Before
<1>17. ASSUME u.do \notin {"verify", "event"}, SafeRolledBack(y, F)  PROVE SafeRolledBack(y, E)'
  BY <1>1, <1>2, <1>3, <1>17 DEF SafeRolledBack, SafeRestored, Before
<1> QED  BY <1>4, <1>5, <1>6, <1>7, <1>8, <1>9, <1>10, <1>11, <1>12, <1>13, <1>14, <1>15, <1>16, <1>17

\* mkdir keeps the invariant.
LEMMA MakeDirectoryKeeps ==
    ASSUME NEW u \in Writes, Next1(u), u.do = "mkdir", MakeDirectory
    PROVE  MemInv'
<1> DEFINE x == u.id
<1>1. /\ MemoryShape /\ Images /\ Heads /\ LedgerTruthful /\ Owed /\ Together
      /\ phase' = phase /\ new' = new /\ file' = file /\ head' = head /\ ledger' = ledger
      /\ action' = [action EXCEPT ![x] = [state |-> "unprepared", parent |-> head,
                                          before |-> file, after |-> new, saved |-> {}]]
  BY DEF Next1, MemInv, Continue, MakeDirectory
<1>2. /\ Safe(u, {}) /\ Todo = Todo' \cup {u}
      /\ \A w \in Todo' : w.do # "mkdir" /\ w # Manifest(w.id, "undoing")
  BY Rest
<1>3. /\ x \in Ids /\ phase = "finish" /\ State(x) = "none" /\ Pending = {}
      /\ \A t \in Targets : new[t] \in Values \cup {file[t]}
  BY <1>2 DEF Safe, SafeMkdir
<1>4. /\ action \in [Ids -> Actions] /\ file \in Contents /\ new \in Contents /\ head \in Ids \cup {NoId}
      /\ ledger' = ledger
  BY <1>1 DEF MemoryShape
<1>5. action' \in [Ids -> Actions]
  <2>1. [state |-> "unprepared", parent |-> head, before |-> file, after |-> new, saved |-> {}] \in Actions
    BY <1>4 DEF Actions, States
  <2> QED  BY <2>1, <1>1, <1>3, <1>4
<1>6. /\ State(x)' = "unprepared" /\ action'[x].saved = {} /\ action'[x].parent = head
      /\ action'[x].before = file /\ action'[x].after = new
      /\ \A y \in Ids : y # x => action'[y] = action[y]
  BY <1>1, <1>3, <1>4 DEF State
<1>w. u = Write("mkdir", x, "")
  BY <1>2 DEF Safe, Writes, Write
<1> HIDE DEF x
<1>7. Images'
  BY <1>1, <1>3, <1>6 DEF Images, State, Bodies, Live
<1>8. Pending' = {}
  BY <1>3, <1>6 DEF Pending, InState, State
<1>9. x # head
  BY <1>1, <1>3, <1>4, MemoryAssumption DEF Heads, State, Live
<1>10. Heads'
  BY <1>1, <1>3, <1>4, <1>6, <1>8, <1>9 DEF Heads, State, Live, Stranded
<1>11. LedgerTruthful'
  BY <1>1, <1>3, <1>6 DEF LedgerTruthful, State
<1>12. \A w \in Writes : w \in Todo /\ w.do # "mkdir" => w \in Todo'
  BY <1>2
<1>13. Owed'
  <2>1. Manifest(x, "prepared") \in Todo'
    <3>1. Manifest(x, "prepared") \in Todo  BY <1>1, <1>2, <1>3, <1>w DEF Together
    <3> QED  BY <3>1, OthersLeft
  <2>2. /\ \A do, id, arg : do # "mkdir" /\ Write(do, id, arg) \in Todo => Write(do, id, arg) \in Todo'
        /\ \A id, s : Manifest(id, s) \in Todo => Manifest(id, s) \in Todo'
    BY OthersLeft
  <2>3. OwedActions'  BY <2>1, <2>2, <1>1, <1>2, <1>3, <1>6, <1>8 DEF Owed, OwedActions, State, Closed
  <2>4. OwedHead'  BY <2>2, <1>1, <1>2, <1>3, <1>6, <1>8, <1>9 DEF Owed, OwedHead, State
  <2>5. OwedSwap'  BY <2>2, <1>1, <1>2, <1>3 DEF Owed, OwedSwap
  <2> QED  BY <2>3, <2>4, <2>5 DEF Owed
<1>14. ASSUME NEW y \in Ids, NEW E \in SUBSET Writes, NEW F \in SUBSET Writes,
              E \subseteq Todo', Follows(F, E, u)
       PROVE  StaySafe(F, E, y)
  <2>1. /\ \A id, arg : Write("mkdir", id, arg) \notin E
        /\ \A id : Manifest(id, "undoing") \notin E
    BY <1>2, <1>14 DEF Manifest, Write
  <2>o. /\ \A do, id, arg : do # "mkdir" /\ Write(do, id, arg) \in F => Write(do, id, arg) \in E
        /\ \A id, s : Manifest(id, s) \in F => Manifest(id, s) \in E
        /\ \A do, only : Only(F, do, only) => Only(E, do, only)
        /\ \A do, id : OnlyOf(F, do, id) => OnlyOf(E, do, id)
        /\ E \subseteq F
    BY Others, <1>14
  <2>m. \A id : Write("mkdir", id, "") \in F => id = x
    <3>1. \A id : Write("mkdir", id, "") = u => id = x  BY <1>w DEF Write
    <3> QED  BY <3>1, <2>1, <1>14 DEF Follows
  <2>2. ASSUME NEW t \in Targets, SafePreimage(y, t, F)  PROVE SafePreimage(y, t, E)'
    BY <2>1, <2>o, <2>m, <2>2, <1>1, <1>3, <1>6 DEF SafePreimage, State, Bodies
  <2>3. ASSUME SafePrepared(y, F)  PROVE SafePrepared(y, E)'
    <3>1. /\ \A z \in Ids : State(z)' = "committed" => z = head
          /\ head # NoId => State(head)' = "committed" /\ <<head, "commit">> \in ledger
      BY <2>3, <1>1, <1>3, <1>4, <1>6, <1>9 DEF SafePrepared, State
    <3>2. CASE Write("mkdir", y, "") \in F
      <4>1. y = x  BY <2>m, <3>2
      <4>2. \A t \in Targets : file[t] # Absent => Write("preimage", x, t) \in E
        BY <2>3, <2>o, <4>1, <1>3 DEF SafePrepared, State
      <4>3. Only(E, "manifest", {})  BY <2>3, <2>o DEF SafePrepared
      <4> QED  BY <3>1, <4>1, <4>2, <4>3, <1>1, <1>3, <1>6, <1>8 DEF SafePrepared, State, Bodies
    <3>3. CASE Write("mkdir", y, "") \notin F
      BY <3>1, <3>3, <2>o, <2>3, <1>1, <1>3, <1>6, <1>8 DEF SafePrepared, State, Bodies
    <3> QED  BY <3>2, <3>3
  <2>4. ASSUME SafeCommitted(y, F)  PROVE SafeCommitted(y, E)'
    BY <2>1, <2>o, <2>m, <2>4, <1>1, <1>3, <1>6 DEF SafeCommitted, State
  <2>5. ASSUME SafeSuperseded(y, F)  PROVE SafeSuperseded(y, E)'
    BY <2>1, <2>o, <2>m, <2>5, <1>1, <1>3, <1>6 DEF SafeSuperseded, State
  <2>6. ASSUME SafeAborted(y, F)  PROVE SafeAborted(y, E)'
    BY <2>1, <2>o, <2>m, <2>6, <1>1, <1>3, <1>6 DEF SafeAborted, SafeRestored, Before, State
  <2>7. ASSUME SafeRolledBack(y, F)  PROVE SafeRolledBack(y, E)'
    BY <2>1, <2>o, <2>m, <2>7, <1>1, <1>3, <1>6 DEF SafeRolledBack, SafeRestored, Before, State
  <2>8. ASSUME SafeApply(y, F)  PROVE SafeApply(y, E)'
    BY <2>1, <2>o, <2>m, <2>8, <1>1, <1>3, <1>6 DEF SafeApply, State, Known
  <2>9. ASSUME SafeRestore(y, F)  PROVE SafeRestore(y, E)'
    BY <2>1, <2>o, <2>m, <2>9, <1>1, <1>3, <1>6 DEF SafeRestore, State, Known, After
  <2>10. ASSUME SafeHead(y, F)  PROVE SafeHead(y, E)'
    BY <2>1, <2>o, <2>m, <2>10, <1>1, <1>3, <1>6 DEF SafeHead, State, After
  <2>v. ASSUME SafeVerifyAfter(y, F)  PROVE SafeVerifyAfter(y, E)'
    BY <2>1, <2>o, <2>m, <2>v, <1>1, <1>3, <1>6 DEF SafeVerifyAfter, State
  <2>11. ASSUME SafeNoHead(F)  PROVE SafeNoHead(E)'
    BY <2>1, <2>o, <2>m, <2>11, <1>1, <1>3, <1>6 DEF SafeNoHead, State
  <2>12. ASSUME SafeCommitEvent(y, F)  PROVE SafeCommitEvent(y, E)'
    BY <2>1, <2>o, <2>m, <2>12, <1>1, <1>3, <1>6 DEF SafeCommitEvent, State
  <2>13. ASSUME SafePurge(y, F)  PROVE SafePurge(y, E)'
    BY <2>1, <2>o, <2>m, <2>13, <1>1, <1>3, <1>6 DEF SafePurge, State, Closed, Closing
  <2>14. ASSUME SafeRmdir(y, F)  PROVE SafeRmdir(y, E)'
    BY <2>1, <2>o, <2>m, <2>14, <1>1, <1>3, <1>6 DEF SafeRmdir, State
  <2> QED
    BY <2>2, <2>3, <2>4, <2>5, <2>6, <2>7, <2>8, <2>9, <2>10, <2>11, <2>12, <2>13, <2>14, <2>v DEF StaySafe
<1> QED  BY <1>1, <1>4, <1>5, <1>7, <1>10, <1>11, <1>13, <1>14, WriteKeeps

\* Heads does not depend on anything else.
LEMMA FrameKeepsHeads ==
    ASSUME MemoryShape, Heads, Undisturbed,
           \A y \in Ids : State(y) = "committed" => action'[y].parent = action[y].parent
    PROVE  Heads' /\ Pending' = Pending
<1>1. /\ phase' = phase /\ head' = head /\ ledger \subseteq ledger'
      /\ \A y \in Ids : State(y)' = State(y)
      /\ \A y \in Ids : State(y) \in {"prepared", "undoing", "committed"} =>
             action'[y].parent = action[y].parent
  BY DEF Undisturbed
<1>2. Pending' = Pending  BY <1>1 DEF Pending, InState, State
<1>3. head \in Ids \cup {NoId}  BY DEF MemoryShape
<1>4. Stranded' = Stranded  BY <1>1, <1>3 DEF Stranded
<1>5. head # NoId /\ ~Stranded => State(head) \in {"prepared", "undoing", "committed"}
  BY DEF Heads, Live, Stranded
<1>6. Pending \subseteq Ids /\ \A x \in Ids : State(x) = "prepared" => x \in Pending
  BY DEF Pending, InState, State
<1>7. /\ head' # NoId => State(head)' \in Live \cup {"aborted"}
      /\ Stranded' => Pending' = {} /\ phase' \notin {"operate", "finish"}
      /\ \A x, y \in Pending' : x = y
  BY <1>1, <1>2, <1>3, <1>4 DEF Heads
<1>8. head' # NoId /\ ~Stranded' /\ action'[head'].parent # NoId =>
           /\ action'[head'].parent # head'
           /\ State(action[head].parent)' \in {"committed", "superseded"}
  <2>1. head # NoId => action[head].parent \in Ids \cup {NoId}
    BY <1>3 DEF MemoryShape, Actions
  <2> QED  BY <2>1, <1>1, <1>3, <1>4, <1>5 DEF Heads
<1>9. \A x \in Ids : State(x)' = "prepared" /\ head' # x =>
          head' = action'[x].parent /\ (head' # NoId => <<head', "commit">> \in ledger')
  BY <1>1 DEF Heads
<1>10. \A x \in Ids : State(x)' = "undoing" => head' \in {x, NoId} /\ <<x, "commit">> \in ledger'
  BY <1>1 DEF Heads
<1>11. \A y \in Ids : State(y)' = "committed" /\ y # head' =>
           /\ head' # NoId
           /\ ~Stranded' =>
                /\ action'[head'].parent = y /\ State(head)' \in {"prepared", "committed"}
                /\ Pending' \subseteq {head'}
                /\ <<y, "commit">> \in ledger'
  BY <1>1, <1>2, <1>3, <1>4, <1>5 DEF Heads
<1> QED  BY <1>2, <1>7, <1>8, <1>9, <1>10, <1>11 DEF Heads

\* So does a pre-image saved,
LEMMA SavePreimageKeeps ==
    ASSUME NEW u \in Writes, Next1(u), u.do = "preimage", SavePreimage
    PROVE  MemInv'
<1> DEFINE x == u.id  t0 == u.arg
<1>1. /\ MemoryShape /\ Images /\ Heads /\ LedgerTruthful /\ Owed
      /\ phase' = phase /\ file' = file /\ head' = head /\ ledger' = ledger
      /\ action' = [action EXCEPT ![x].saved = @ \cup {t0}]
  BY DEF Next1, MemInv, Continue, SavePreimage
<1>2. Safe(u, {}) /\ Todo = Todo' \cup {u}  BY Rest
<1>3. /\ x \in Ids /\ t0 \in Targets /\ phase = "finish"
      /\ State(x) = "unprepared" /\ t0 \in Bodies(x)
  BY <1>2 DEF Safe, SafePreimage
<1>4. /\ action \in [Ids -> Actions] /\ file \in Contents /\ head \in Ids \cup {NoId}
  BY <1>1 DEF MemoryShape
<1>5. action' \in [Ids -> Actions]
  BY <1>1, <1>3, <1>4 DEF Actions
<1>6. /\ action'[x].saved = action[x].saved \cup {t0}
      /\ \A y \in Ids :
            /\ y # x => action'[y] = action[y]
            /\ action'[y].state = action[y].state /\ action'[y].parent = action[y].parent
            /\ action'[y].before = action[y].before /\ action'[y].after = action[y].after
  BY <1>1, <1>3, <1>4 DEF Actions
<1>w. u = Write("preimage", x, t0)
  BY <1>2 DEF Safe, Writes, Write
<1> HIDE DEF x, t0
<1>7. Undisturbed
  BY <1>1, <1>6 DEF Undisturbed, State
<1>8. Images'
  BY <1>1, <1>3, <1>6 DEF Images, State, Bodies, Live
<1>9. Heads' /\ Pending' = Pending
  BY <1>1, <1>6, <1>7, FrameKeepsHeads
<1>10. LedgerTruthful'
  BY <1>1, <1>6 DEF LedgerTruthful
<1>11. /\ \A do, id, arg : do # "preimage" /\ Write(do, id, arg) \in Todo => Write(do, id, arg) \in Todo'
       /\ \A id, s : Manifest(id, s) \in Todo => Manifest(id, s) \in Todo'
       /\ Todo' \subseteq Todo
  BY OthersLeft, <1>2
<1>12. Owed'
  <2>1. OwedActions'  BY <1>1, <1>3, <1>6, <1>9, <1>11 DEF Owed, OwedActions, State, Closed
  <2>2. OwedHead'  BY <1>1, <1>6, <1>11 DEF Owed, OwedHead, State
  <2>3. OwedSwap'  BY <1>1, <1>11 DEF Owed, OwedSwap
  <2> QED  BY <2>1, <2>2, <2>3 DEF Owed
<1>13. ASSUME NEW y \in Ids, NEW E \in SUBSET Writes, NEW F \in SUBSET Writes,
              E \subseteq Todo', Follows(F, E, u)
       PROVE  StaySafe(F, E, y)
  <2>1. ASSUME SafePrepared(y, F)  PROVE SafePrepared(y, E)'
    <3>1. /\ \A id, arg : Write("mkdir", id, arg) \in F => FALSE
          /\ Only(F, "manifest", {}) => Only(E, "manifest", {})
      <4>1. \A do, id, arg : do # "preimage" /\ Write(do, id, arg) \in F => Write(do, id, arg) \in E
        BY <1>13, Others
      <4>2. \A id, arg : Write("mkdir", id, arg) \notin E  BY <1>13, Rest DEF Write
      <4> QED  BY <4>1, <4>2, <1>13, Others
    <3>2. \A t \in Targets : Write("preimage", y, t) \in F =>
              Write("preimage", y, t) \in E \/ (y = x /\ t = t0)
      BY <1>13, <1>w DEF Write, Follows
    <3>3. /\ State(y)' = "unprepared" /\ action'[y].parent = head /\ action'[y].before = file
          /\ \A z \in Ids : State(z)' = "committed" => z = head
          /\ head # NoId => State(head)' = "committed" /\ <<head, "commit">> \in ledger
      BY <2>1, <3>1, <1>1, <1>4, <1>6 DEF SafePrepared, State
    <3>4. ASSUME NEW t \in Bodies(y)' \ action'[y].saved  PROVE Write("preimage", y, t) \in E
      <4>1. t \in Bodies(y) \ action[y].saved /\ ~(y = x /\ t = t0)  BY <3>4, <1>6 DEF Bodies
      <4>2. \A r \in Bodies(y) \ action[y].saved : Write("preimage", y, r) \in F
        BY <2>1, <3>1 DEF SafePrepared
      <4>3. t \in Targets  BY <4>1 DEF Bodies
      <4> QED  BY <4>1, <4>2, <4>3, <3>2
    <3> QED  BY <2>1, <3>1, <3>3, <3>4, <1>1, <1>9 DEF SafePrepared
  <2> QED  BY <2>1, <1>1, <1>7, <1>13, FrameStaysSafe DEF StaySafe
<1> QED  BY <1>1, <1>4, <1>5, <1>8, <1>9, <1>10, <1>12, <1>13, WriteKeeps

\* a comparison,
LEMMA VerifyKeeps ==
    ASSUME NEW u \in Writes, Next1(u), u.do = "verify", Verify
    PROVE  MemInv'
<1> DEFINE x == u.id
<1>1. /\ MemoryShape /\ Images /\ Heads /\ LedgerTruthful /\ Owed
      /\ phase' = phase /\ file' = file /\ head' = head /\ ledger' = ledger /\ action' = action
      /\ IF u.arg = "before" THEN Before(x) ELSE After(x)
  BY DEF Next1, MemInv, Continue, Verify
<1>2. Safe(u, {}) /\ Todo = Todo' \cup {u}  BY Rest
<1>3. x \in Ids /\ u.arg \in {"before", "after"}
  BY <1>2 DEF Safe
<1>4. action \in [Ids -> Actions] /\ file \in Contents /\ head \in Ids \cup {NoId}
  BY <1>1 DEF MemoryShape
<1>w. u = Write("verify", x, u.arg)
  BY DEF Writes, Write
<1>5. u.arg = "after" => State(x) = "prepared"
  <2>1. Manifest(x, "prepared") \notin {}  OBVIOUS
  <2> QED  BY <1>2, <2>1 DEF Safe, SafeVerifyAfter
<1> HIDE DEF x
<1>7. Undisturbed
  BY <1>1 DEF Undisturbed, State
<1>8. Images' /\ LedgerTruthful'
  BY <1>1 DEF Images, State, Bodies, LedgerTruthful
<1>9. Heads' /\ Pending' = Pending
  BY <1>1, <1>7, FrameKeepsHeads
<1>11. /\ \A do, id, arg : do # "verify" /\ Write(do, id, arg) \in Todo => Write(do, id, arg) \in Todo'
       /\ \A id, s : Manifest(id, s) \in Todo => Manifest(id, s) \in Todo'
       /\ Todo' \subseteq Todo
  BY OthersLeft, <1>2
<1>12. Owed'
  <2>1. OwedActions'  BY <1>1, <1>9, <1>11 DEF Owed, OwedActions, State
  <2>2. OwedHead'  BY <1>1, <1>11 DEF Owed, OwedHead, State
  <2>3. OwedSwap'  BY <1>1, <1>11 DEF Owed, OwedSwap
  <2> QED  BY <2>1, <2>2, <2>3 DEF Owed
<1>13. ASSUME NEW y \in Ids, NEW E \in SUBSET Writes, NEW F \in SUBSET Writes,
              E \subseteq Todo', Follows(F, E, u)
       PROVE  StaySafe(F, E, y)
  <2>0. /\ \A do, id, arg : do # "verify" /\ Write(do, id, arg) \in F => Write(do, id, arg) \in E
        /\ \A id, s : Manifest(id, s) \in F => Manifest(id, s) \in E
        /\ \A do, only : Only(F, do, only) => Only(E, do, only)
        /\ \A do, id : OnlyOf(F, do, id) => OnlyOf(E, do, id)
        /\ E \subseteq F
    BY Others, <1>13
  <2>1. /\ Write("verify", y, "before") \in F => Write("verify", y, "before") \in E \/ Before(y)
        /\ Write("verify", y, "after") \in F =>
               Write("verify", y, "after") \in E \/ (After(y) /\ State(y) = "prepared")
    <3>1. ASSUME NEW arg, Write("verify", y, arg) = u  PROVE y = x /\ u.arg = arg
      BY <3>1, <1>w DEF Write
    <3> QED  BY <3>1, <1>1, <1>5, <1>13 DEF Follows
  <2>2. ASSUME SafePrepared(y, F)  PROVE SafePrepared(y, E)'
    BY <2>2, <2>0, <1>1, <1>9 DEF SafePrepared, State, Bodies
  <2>3. SafeRestored(y, F) => SafeRestored(y, E)'
    BY <2>0, <2>1, <1>1 DEF SafeRestored, Before
  <2>4. ASSUME SafeAborted(y, F)  PROVE SafeAborted(y, E)'
    BY <2>4, <2>0, <2>3, <1>1 DEF SafeAborted, State
  <2>5. ASSUME SafeRolledBack(y, F)  PROVE SafeRolledBack(y, E)'
    BY <2>5, <2>0, <2>3, <1>1 DEF SafeRolledBack, State
  <2>6. ASSUME SafeHead(y, F)  PROVE SafeHead(y, E)'
    BY <2>6, <2>0, <2>1, <1>1 DEF SafeHead, State, After
  <2> QED  BY <2>2, <2>4, <2>5, <2>6, <1>1, <1>7, <1>13, FrameStaysSafe DEF StaySafe
<1> QED  BY <1>1, <1>4, <1>8, <1>9, <1>12, <1>13, WriteKeeps

\* an event recorded,
LEMMA RecordEventKeeps ==
    ASSUME NEW u \in Writes, Next1(u), u.do = "event", RecordEvent
    PROVE  MemInv'
<1> DEFINE x == u.id
<1>1. /\ MemoryShape /\ Images /\ Heads /\ LedgerTruthful /\ Owed
      /\ phase' = phase /\ file' = file /\ head' = head /\ action' = action
      /\ ledger' = ledger \cup {<<x, u.arg>>}
  BY DEF Next1, MemInv, Continue, RecordEvent
<1>2. Safe(u, {}) /\ Todo = Todo' \cup {u}  BY Rest
<1>3. x \in Ids
  BY <1>2 DEF Safe
<1>4. action \in [Ids -> Actions] /\ file \in Contents /\ head \in Ids \cup {NoId}
  BY <1>1 DEF MemoryShape
<1>w. u = Write("event", x, u.arg)
  BY DEF Writes, Write
<1>5. u.arg = "commit" => State(x) = "committed"
  <2>1. Manifest(x, "committed") \notin {}  OBVIOUS
  <2> QED  BY <1>2, <2>1 DEF Safe, SafeCommitEvent
<1>6. \A id, arg : Write("event", id, arg) = u => <<id, arg>> \in ledger'
  BY <1>1, <1>w DEF Write
<1> HIDE DEF x
<1>7. Undisturbed
  BY <1>1 DEF Undisturbed, State
<1>8. Images' /\ LedgerTruthful'
  <2>1. Images'  BY <1>1 DEF Images, State, Bodies
  <2>2. \A id \in Ids : <<id, "commit">> \in ledger' => <<id, "commit">> \in ledger \/ State(id) = "committed"
    BY <1>1, <1>5
  <2> QED  BY <2>1, <2>2, <1>1 DEF LedgerTruthful, State
<1>9. Heads' /\ Pending' = Pending
  BY <1>1, <1>7, FrameKeepsHeads
<1>11. /\ \A do, id, arg : do # "event" /\ Write(do, id, arg) \in Todo => Write(do, id, arg) \in Todo'
       /\ \A id, s : Manifest(id, s) \in Todo => Manifest(id, s) \in Todo'
       /\ Todo' \subseteq Todo
       /\ \A id, arg : Write("event", id, arg) \in Todo =>
              Write("event", id, arg) \in Todo' \/ <<id, arg>> \in ledger'
  BY OthersLeft, <1>2, <1>6
<1>12. Owed'
  <2>1. OwedActions'  BY <1>1, <1>9, <1>11 DEF Owed, OwedActions, State
  <2>2. OwedHead'  BY <1>1, <1>11 DEF Owed, OwedHead, State
  <2>3. OwedSwap'  BY <1>1, <1>11 DEF Owed, OwedSwap
  <2> QED  BY <2>1, <2>2, <2>3 DEF Owed
<1>13. ASSUME NEW y \in Ids, NEW E \in SUBSET Writes, NEW F \in SUBSET Writes,
              E \subseteq Todo', Follows(F, E, u)
       PROVE  StaySafe(F, E, y)
  <2>0. /\ \A do, id, arg : do # "event" /\ Write(do, id, arg) \in F => Write(do, id, arg) \in E
        /\ \A id, s : Manifest(id, s) \in F => Manifest(id, s) \in E
        /\ \A do, only : Only(F, do, only) => Only(E, do, only)
        /\ \A do, id : OnlyOf(F, do, id) => OnlyOf(E, do, id)
        /\ E \subseteq F
    BY Others, <1>13
  <2>1. /\ ledger \subseteq ledger'
        /\ \A arg : Write("event", y, arg) \in F => Write("event", y, arg) \in E \/ <<y, arg>> \in ledger'
    BY <1>1, <1>6, <1>13 DEF Follows
  <2>2. ASSUME SafePrepared(y, F)  PROVE SafePrepared(y, E)'
    BY <2>2, <2>0, <2>1, <1>1, <1>9 DEF SafePrepared, State, Bodies
  <2>3. SafeRestored(y, F) => SafeRestored(y, E)'
    BY <2>0, <1>1 DEF SafeRestored, Before
  <2>4. ASSUME SafeAborted(y, F)  PROVE SafeAborted(y, E)'
    BY <2>4, <2>0, <2>1, <2>3, <1>1 DEF SafeAborted, State
  <2>5. ASSUME SafeRolledBack(y, F)  PROVE SafeRolledBack(y, E)'
    BY <2>5, <2>0, <2>1, <2>3, <1>1 DEF SafeRolledBack, State
  <2>6. ASSUME SafeSuperseded(y, F)  PROVE SafeSuperseded(y, E)'
    BY <2>6, <2>0, <2>1, <1>1 DEF SafeSuperseded, State
  <2> QED  BY <2>2, <2>4, <2>5, <2>6, <1>1, <1>7, <1>13, FrameStaysSafe DEF StaySafe
<1> QED  BY <1>1, <1>4, <1>8, <1>9, <1>12, <1>13, WriteKeeps

\* a pre-image purged,
LEMMA PurgePreimageKeeps ==
    ASSUME NEW u \in Writes, Next1(u), u.do = "purge", PurgePreimage
    PROVE  MemInv'
<1> DEFINE x == u.id  t0 == u.arg
<1>1. /\ MemoryShape /\ Images /\ Heads /\ LedgerTruthful /\ Owed
      /\ phase' = phase /\ file' = file /\ head' = head /\ ledger' = ledger
      /\ action' = [action EXCEPT ![x] = Purged(@, t0)]
  BY DEF Next1, MemInv, Continue, PurgePreimage
<1>2. Safe(u, {}) /\ Todo = Todo' \cup {u}  BY Rest
<1>3. /\ x \in Ids /\ t0 \in Targets
      /\ State(x) \in Closed \/ (State(x) = "unprepared" /\ phase = "scan")
  BY <1>2 DEF Safe, SafePurge
<1>4. /\ action \in [Ids -> Actions] /\ file \in Contents /\ head \in Ids \cup {NoId}
  BY <1>1 DEF MemoryShape
<1>a. action[x] \in Actions  BY <1>3, <1>4
<1>b. /\ Purged(action[x], t0).state = action[x].state
      /\ Purged(action[x], t0).saved \subseteq action[x].saved \ {t0}
      /\ \/ Purged(action[x], t0) = [action[x] EXCEPT !.saved = @ \ {t0}]
         \/ Purged(action[x], t0) = [NoAction EXCEPT !.state = action[x].state]
      /\ Purged(action[x], t0) \in Actions
  <2>1. NoAction \in Actions
    BY DEF NoAction, Actions, States, Blank, Contents
  <2> QED  BY <2>1, <1>a DEF Purged, NoAction, Actions
<1>5. action' \in [Ids -> Actions]
  BY <1>1, <1>3, <1>4, <1>b
<1>6. /\ action'[x] = Purged(action[x], t0)
      /\ \A y \in Ids : y # x => action'[y] = action[y]
      /\ \A y \in Ids : action'[y].state = action[y].state /\ action'[y].saved \subseteq action[y].saved
      /\ t0 \notin action'[x].saved
  BY <1>1, <1>3, <1>4, <1>b
<1>w. u = Write("purge", x, t0)
  BY DEF Writes, Write
<1> HIDE DEF x, t0
<1>7. Undisturbed
  BY <1>1, <1>3, <1>6 DEF Undisturbed, State, Closed
<1>8. Images'
  <2>1. ASSUME NEW id \in Ids, id # x
        PROVE  /\ action'[id].saved \subseteq Bodies(id)'
               /\ State(id)' \in Live => Bodies(id)' \subseteq action'[id].saved
               /\ State(id)' = "none" => action'[id].saved = {}
               /\ \A t \in Targets : action'[id].after[t] \in Values \cup {action'[id].before[t]}
    BY <2>1, <1>1, <1>6 DEF Images, State, Bodies
  <2>2. /\ action'[x].saved \subseteq Bodies(x)'
        /\ State(x)' \notin Live \cup {"none"}
        /\ \A t \in Targets : action'[x].after[t] \in Values \cup {action'[x].before[t]}
    <3>1. State(x)' \notin Live \cup {"none"}  BY <1>3, <1>6 DEF State, Closed, Live
    <3>2. CASE action'[x] = [action[x] EXCEPT !.saved = @ \ {t0}]
      <4>1. /\ action'[x].saved = action[x].saved \ {t0}
            /\ action'[x].before = action[x].before /\ action'[x].after = action[x].after
        BY <3>2, <1>a DEF Actions
      <4> QED  BY <4>1, <3>1, <1>1, <1>3 DEF Images, Bodies
    <3>3. CASE action'[x] = [NoAction EXCEPT !.state = action[x].state]
      <4>1. action'[x].saved = {} /\ action'[x].before = Blank /\ action'[x].after = Blank
        BY <3>3 DEF NoAction
      <4> QED  BY <4>1, <3>1 DEF Blank
    <3> QED  BY <3>2, <3>3, <1>b, <1>6
  <2> QED  BY <2>1, <2>2 DEF Images
<1>9. Heads' /\ Pending' = Pending
  <2>1. \A y \in Ids : State(y) = "committed" => action'[y].parent = action[y].parent
    BY <1>3, <1>6 DEF State, Closed
  <2> QED  BY <2>1, <1>1, <1>7, FrameKeepsHeads
<1>10. LedgerTruthful'
  BY <1>1, <1>6 DEF LedgerTruthful
<1>11. /\ \A do, id, arg : do # "purge" /\ Write(do, id, arg) \in Todo => Write(do, id, arg) \in Todo'
       /\ \A id, s : Manifest(id, s) \in Todo => Manifest(id, s) \in Todo'
       /\ Todo' \subseteq Todo
  BY OthersLeft, <1>2
<1>12. Owed'
  <2>1. OwedActions'
    <3>1. ASSUME phase \in Later, NEW y \in Ids, State(y) \in Closed, NEW t \in action'[y].saved
          PROVE  Write("purge", y, t) \in Todo'
      <4>1. Write("purge", y, t) \in Todo  BY <3>1, <1>1, <1>6 DEF Owed, OwedActions
      <4>2. Write("purge", y, t) # u  BY <3>1, <1>6, <1>w DEF Write
      <4> QED  BY <4>1, <4>2, <1>2
    <3> QED  BY <3>1, <1>1, <1>6, <1>9, <1>11 DEF Owed, OwedActions, State
  <2>2. OwedHead'  BY <1>1, <1>4, <1>6, <1>11 DEF Owed, OwedHead, State
  <2>3. OwedSwap'  BY <1>1, <1>11 DEF Owed, OwedSwap
  <2> QED  BY <2>1, <2>2, <2>3 DEF Owed
<1>13. ASSUME NEW y \in Ids, NEW E \in SUBSET Writes, NEW F \in SUBSET Writes,
              E \subseteq Todo', Follows(F, E, u)
       PROVE  StaySafe(F, E, y)
  <2>1. ASSUME SafePrepared(y, F)  PROVE SafePrepared(y, E)'
    <3>1. /\ \A do, id, arg : do # "purge" /\ Write(do, id, arg) \in F => Write(do, id, arg) \in E
          /\ \A do, only : Only(F, do, only) => Only(E, do, only)
      BY Others, <1>13
    <3>2. \A id, arg : Write("mkdir", id, arg) \notin F
      BY <1>13, <3>1, Rest DEF Write
    <3>3. phase = "finish" /\ State(y) = "unprepared"  BY <2>1, <3>2 DEF SafePrepared
    <3>4. action'[y] = action[y]  BY <3>3, <1>3, <1>6 DEF State, Closed
    <3>5. /\ \A z \in Ids : State(z)' = "committed" => z = head
          /\ head # NoId => State(head)' = "committed" /\ <<head, "commit">> \in ledger
      BY <2>1, <1>1, <1>4, <1>6 DEF SafePrepared, State
    <3>6. \A t \in Bodies(y) \ action[y].saved : Write("preimage", y, t) \in E
      BY <2>1, <3>1, <3>2 DEF SafePrepared
    <3> QED  BY <2>1, <3>1, <3>2, <3>3, <3>4, <3>5, <3>6, <1>1, <1>9 DEF SafePrepared, State, Bodies
  <2> QED  BY <2>1, <1>1, <1>7, <1>13, FrameStaysSafe DEF StaySafe
<1> QED  BY <1>1, <1>4, <1>5, <1>8, <1>9, <1>10, <1>12, <1>13, WriteKeeps

\* a directory removed,
LEMMA RemoveDirectoryKeeps ==
    ASSUME NEW u \in Writes, Next1(u), u.do = "rmdir", RemoveDirectory
    PROVE  MemInv'
<1> DEFINE x == u.id
<1>1. /\ MemoryShape /\ Images /\ Heads /\ LedgerTruthful /\ Owed
      /\ phase' = phase /\ file' = file /\ head' = head /\ ledger' = ledger
      /\ action' = [action EXCEPT ![x] = NoAction]
  BY DEF Next1, MemInv, Continue, RemoveDirectory
<1>2. Safe(u, {}) /\ Todo = Todo' \cup {u}  BY Rest
<1>3. x \in Ids /\ State(x) = "unprepared" /\ phase = "scan"
  BY <1>2 DEF Safe, SafeRmdir
<1>4. /\ action \in [Ids -> Actions] /\ file \in Contents /\ head \in Ids \cup {NoId}
  BY <1>1 DEF MemoryShape
<1>5. action' \in [Ids -> Actions]
  <2>1. NoAction \in Actions
    BY DEF NoAction, Actions, States, Blank, Contents
  <2> QED  BY <2>1, <1>1, <1>3, <1>4
<1>6. /\ action'[x] = NoAction /\ State(x)' = "none"
      /\ \A y \in Ids : y # x => action'[y] = action[y]
      /\ \A y \in Ids : y # x => State(y)' = State(y)
  BY <1>1, <1>3, <1>4 DEF State, NoAction
<1> HIDE DEF x
<1>7. Pending' = Pending
  BY <1>3, <1>6 DEF Pending, InState, State
<1>8. Images'
  <2>1. /\ action'[x].saved = {} /\ State(x)' \notin Live
        /\ \A t \in Targets : action'[x].after[t] = action'[x].before[t]
    BY <1>6 DEF NoAction, Blank, Live
  <2> QED  BY <2>1, <1>1, <1>6 DEF Images, Bodies, State
<1>9. Heads'
  <2>1. x # head  BY <1>1, <1>3, <1>4, MemoryAssumption DEF Heads, Live
  <2>2. head # NoId => head \in Ids /\ action'[head] = action[head] /\ State(head)' = State(head)
    BY <2>1, <1>1, <1>4, <1>6
  <2>3. Stranded' = Stranded
    <3>1. CASE head = NoId  BY <3>1, <1>1 DEF Stranded
    <3>2. CASE head # NoId  BY <3>2, <2>2, <1>1 DEF Stranded
    <3> QED  BY <3>1, <3>2
  <2>4. /\ head' # NoId => State(head)' \in Live \cup {"aborted"}
        /\ Stranded' => Pending' = {} /\ phase' \notin {"operate", "finish"}
        /\ \A y, z \in Pending' : y = z
    BY <2>2, <2>3, <1>1, <1>7 DEF Heads
  <2>5. head' # NoId /\ ~Stranded' /\ action'[head'].parent # NoId =>
             /\ action'[head'].parent # head'
             /\ State(action[head].parent)' \in {"committed", "superseded"}
    <3>1. head # NoId => action[head].parent \in Ids \cup {NoId}
      BY <1>4 DEF Actions
    <3> QED  BY <3>1, <2>2, <2>3, <1>1, <1>3, <1>6 DEF Heads
  <2>6. \A y \in Ids : State(y)' = "prepared" /\ head' # y =>
            head' = action'[y].parent /\ (head' # NoId => <<head', "commit">> \in ledger')
    BY <1>1, <1>6 DEF Heads
  <2>7. \A y \in Ids : State(y)' = "undoing" => head' \in {y, NoId} /\ <<y, "commit">> \in ledger'
    BY <1>1, <1>6 DEF Heads
  <2>8. \A y \in Ids : State(y)' = "committed" /\ y # head' =>
           /\ head' # NoId
           /\ ~Stranded' =>
                /\ action'[head'].parent = y /\ State(head)' \in {"prepared", "committed"}
                /\ Pending' \subseteq {head'}
                /\ <<y, "commit">> \in ledger'
    BY <2>2, <2>3, <1>1, <1>6, <1>7 DEF Heads
  <2> QED  BY <2>4, <2>5, <2>6, <2>7, <2>8 DEF Heads
<1>10. LedgerTruthful'
  BY <1>1, <1>3, <1>6 DEF LedgerTruthful, State
<1>11. Owed'
  BY <1>1, <1>3 DEF Owed, OwedActions, OwedHead, OwedSwap, Later
<1>12. ASSUME NEW y \in Ids, NEW E \in SUBSET Writes, NEW F \in SUBSET Writes,
              E \subseteq Todo', Follows(F, E, u)
       PROVE  StaySafe(F, E, y)
  <2>0. /\ \A do, id, arg : do # "rmdir" /\ Write(do, id, arg) \in F => Write(do, id, arg) \in E
        /\ \A id, s : Manifest(id, s) \in F => Manifest(id, s) \in E
        /\ \A do, only : Only(F, do, only) => Only(E, do, only)
        /\ \A do, id : OnlyOf(F, do, id) => OnlyOf(E, do, id)
        /\ E \subseteq F
        /\ ~Only(F, "rmdir", {})
    <3>1. Only(F, "rmdir", {}) => u \in {}  BY <1>12, Others
    <3> QED  BY <3>1, <1>12, Others
  <2>1. \A id : Manifest(id, "undoing") \notin E
    BY <1>12, Rest DEF Manifest, Write
  <2>2. \A t \in Targets : ~SafePreimage(y, t, F)  BY <1>3 DEF SafePreimage
  <2>3. ~SafePrepared(y, F)  BY <1>3 DEF SafePrepared
  <2>4. SafeCommitted(y, F) => SafeCommitted(y, E)'
    BY <2>0, <1>1, <1>3, <1>6 DEF SafeCommitted
  <2>5. SafeSuperseded(y, F) => SafeSuperseded(y, E)'
    BY <2>0, <1>1, <1>3, <1>6 DEF SafeSuperseded
  <2>6. ~SafeAborted(y, F)  BY <1>3 DEF SafeAborted
  <2>7. SafeRolledBack(y, F) => SafeRolledBack(y, E)'
    BY <2>0, <2>1, <1>1, <1>3, <1>6 DEF SafeRolledBack, SafeRestored, Before
  <2>8. SafeApply(y, F) => SafeApply(y, E)'
    BY <2>0, <1>1, <1>3, <1>6 DEF SafeApply, Known
  <2>9. SafeRestore(y, F) => SafeRestore(y, E)'
    <3>1. y \in Pending => y # x  BY <1>3 DEF Pending, InState, State
    <3> QED  BY <3>1, <2>0, <2>1, <1>1, <1>6, <1>7 DEF SafeRestore, Known
  <2>10. SafeVerifyAfter(y, F) => SafeVerifyAfter(y, E)'
    BY <2>0, <1>1, <1>3, <1>6 DEF SafeVerifyAfter
  <2>11. ~SafeHead(y, F)  BY <1>3 DEF SafeHead
  <2>12. SafeNoHead(F) => SafeNoHead(E)'
    BY <2>0, <1>1, <1>3, <1>6 DEF SafeNoHead
  <2>13. SafeCommitEvent(y, F) => SafeCommitEvent(y, E)'
    BY <2>0, <1>1, <1>3, <1>6 DEF SafeCommitEvent
  <2>14. ~SafePurge(y, F) /\ ~SafeRmdir(y, F)  BY <2>0 DEF SafePurge, SafeRmdir
  <2> QED
    BY <2>2, <2>3, <2>4, <2>5, <2>6, <2>7, <2>8, <2>9, <2>10, <2>11, <2>12, <2>13, <2>14 DEF StaySafe
<1> QED  BY <1>1, <1>4, <1>5, <1>8, <1>9, <1>10, <1>11, <1>12, WriteKeeps

\* and a target written: it has no contents but those of the images.
LEMMA WriteTargetKeeps ==
    ASSUME NEW u \in Writes, Next1(u), u.do \in {"apply", "restore"}, WriteTarget
    PROVE  /\ MemInv'
           /\ u.id \in Pending /\ Known(u.id)
<1> DEFINE x == u.id  t0 == u.arg
<1>1. /\ MemoryShape /\ Images /\ Heads /\ LedgerTruthful /\ Owed
      /\ phase' = phase /\ action' = action /\ head' = head /\ ledger' = ledger
      /\ file' = [file EXCEPT ![t0] = IF u.do = "apply" THEN action[x].after[t0]
                                       ELSE action[x].before[t0]]
  BY DEF Next1, MemInv, Continue, WriteTarget
<1>2. Safe(u, {}) /\ Todo = Todo' \cup {u}  BY Rest
<1>3. /\ x \in Ids /\ t0 \in Targets /\ x \in Pending /\ Known(x)
      /\ u.do = "apply" => head # x /\ State(x) = "prepared"
  <2>1. x \in Ids /\ t0 \in Targets  BY <1>2 DEF Safe
  <2>2. CASE u.do = "apply"
    BY <2>1, <2>2, <1>2 DEF Safe, SafeApply, Pending, InState, State
  <2>3. CASE u.do = "restore"
    BY <2>1, <2>3, <1>2 DEF Safe, SafeRestore
  <2> QED  BY <2>1, <2>2, <2>3
<1>4. /\ action \in [Ids -> Actions] /\ file \in Contents /\ head \in Ids \cup {NoId}
  BY <1>1 DEF MemoryShape
<1>a. action[x].before \in Contents /\ action[x].after \in Contents
  BY <1>3, <1>4 DEF Actions
<1>5. file' \in Contents
  BY <1>1, <1>3, <1>4, <1>a DEF Contents
<1>6. /\ \A t \in Targets : t # t0 => file'[t] = file[t]
      /\ u.do = "apply" => file'[t0] = action[x].after[t0]
      /\ u.do = "restore" => file'[t0] = action[x].before[t0]
  BY <1>1, <1>3, <1>4 DEF Contents
<1> HIDE DEF x, t0
<1>k. Known(x)'
  BY <1>1, <1>3, <1>6 DEF Known
<1>s. /\ u.do = "apply" /\ After(x) => After(x)'
      /\ u.do = "restore" /\ Before(x) => Before(x)'
  <2>1. ASSUME u.do = "apply", After(x)  PROVE file' = file
    BY <2>1, <1>1, <1>3, <1>4 DEF After, Contents, x, t0
  <2>2. ASSUME u.do = "restore", Before(x)  PROVE file' = file
    BY <2>2, <1>1, <1>3, <1>4 DEF Before, Contents, x, t0
  <2> QED  BY <2>1, <2>2, <1>1 DEF After, Before
<1>7. Undisturbed
  BY <1>1 DEF Undisturbed, State
<1>8. Images' /\ LedgerTruthful'
  BY <1>1 DEF Images, State, Bodies, LedgerTruthful
<1>9. Heads' /\ Pending' = Pending
  BY <1>1, <1>7, FrameKeepsHeads
<1>11. /\ \A do, id, arg : do # u.do /\ Write(do, id, arg) \in Todo => Write(do, id, arg) \in Todo'
       /\ \A id, s : Manifest(id, s) \in Todo => Manifest(id, s) \in Todo'
       /\ Todo' \subseteq Todo
  BY OthersLeft, <1>2
<1>12. Owed'
  <2>1. OwedActions'  BY <1>1, <1>9, <1>11 DEF Owed, OwedActions, State
  <2>2. OwedHead'  BY <1>1, <1>11 DEF Owed, OwedHead, State
  <2>3. OwedSwap'  BY <1>1, <1>11 DEF Owed, OwedSwap
  <2> QED  BY <2>1, <2>2, <2>3 DEF Owed
<1>13. ASSUME NEW y \in Ids, NEW E \in SUBSET Writes, NEW F \in SUBSET Writes,
              E \subseteq Todo', Follows(F, E, u)
       PROVE  StaySafe(F, E, y)
  <2>0. /\ \A do, id, arg : do # u.do /\ Write(do, id, arg) \in F => Write(do, id, arg) \in E
        /\ \A id, s : Manifest(id, s) \in F => Manifest(id, s) \in E
        /\ \A do, only : Only(F, do, only) => Only(E, do, only)
        /\ \A do, id : OnlyOf(F, do, id) => OnlyOf(E, do, id)
        /\ E \subseteq F
    BY Others, <1>13
  <2>1. \A id, arg : Write("mkdir", id, arg) \notin F
    <3>1. \A id, arg : Write("mkdir", id, arg) \notin E  BY <1>13, Rest DEF Write
    <3> QED  BY <3>1, <2>0
  <2>2. \A id : Manifest(id, "undoing") \notin E
    BY <1>13, Rest DEF Manifest, Write
  <2>3. /\ ~Only(F, u.do, {})
        /\ OnlyOf(F, u.do, y) => y = x
    <3>1. Only(F, u.do, {}) => u \in {}  BY <1>13, Others
    <3>2. OnlyOf(F, u.do, y) => u.id = y  BY <1>13, Others
    <3> QED  BY <3>1, <3>2 DEF x
  <2>4. \A t \in Targets : SafePreimage(y, t, F) => SafePreimage(y, t, E)'
    BY <2>0, <2>1, <1>1 DEF SafePreimage, State, Bodies
  <2>5. ~SafePrepared(y, F)  BY <1>3 DEF SafePrepared
  <2>6. SafeCommitted(y, F) => SafeCommitted(y, E)'
    BY <2>0, <1>1 DEF SafeCommitted, State
  <2>7. SafeSuperseded(y, F) => SafeSuperseded(y, E)'
    BY <2>0, <1>1 DEF SafeSuperseded, State
  <2>8. SafeRestored(y, F) => SafeRestored(y, E)'
    BY <2>0, <2>3, <1>1, <1>s DEF SafeRestored
  <2>9. SafeAborted(y, F) => SafeAborted(y, E)'
    BY <2>0, <2>8, <1>1 DEF SafeAborted, State
  <2>10. SafeRolledBack(y, F) => SafeRolledBack(y, E)'
    BY <2>0, <2>8, <1>1 DEF SafeRolledBack, State
  <2>11. SafeApply(y, F) => SafeApply(y, E)'
    BY <2>0, <2>3, <1>1, <1>k DEF SafeApply, State
  <2>12. SafeRestore(y, F) => SafeRestore(y, E)'
    BY <2>0, <2>2, <2>3, <1>1, <1>9, <1>k DEF SafeRestore
  <2>13. SafeVerifyAfter(y, F) => SafeVerifyAfter(y, E)'
    BY <2>0, <1>1 DEF SafeVerifyAfter, State
  <2>14. SafeHead(y, F) => SafeHead(y, E)'
    BY <2>0, <2>3, <1>1, <1>s DEF SafeHead, State
  <2>15. SafeNoHead(F) => SafeNoHead(E)'
    BY <2>0, <1>1 DEF SafeNoHead, State
  <2>16. SafeCommitEvent(y, F) => SafeCommitEvent(y, E)'
    BY <2>0, <1>1 DEF SafeCommitEvent, State
  <2>17. SafePurge(y, F) => SafePurge(y, E)'
    BY <2>0, <1>1 DEF SafePurge, State
  <2>18. SafeRmdir(y, F) => SafeRmdir(y, E)'
    BY <2>0, <1>1 DEF SafeRmdir, State
  <2> QED
    BY <2>4, <2>5, <2>6, <2>7, <2>9, <2>10, <2>11, <2>12, <2>13, <2>14, <2>15, <2>16, <2>17, <2>18
    DEF StaySafe
<1> QED  BY <1>1, <1>3, <1>4, <1>5, <1>8, <1>9, <1>12, <1>13, WriteKeeps DEF x

\* HEAD is written to name a prepared action.
LEMMA WriteHeadKeeps ==
    ASSUME NEW u \in Writes, Next1(u), u.do = "head", u.id # NoId, WriteHead
    PROVE  MemInv'
<1> DEFINE x == u.id
<1>1. /\ MemoryShape /\ Images /\ Heads /\ LedgerTruthful /\ Owed
      /\ phase' = phase /\ file' = file /\ action' = action /\ ledger' = ledger
      /\ head' = x
  BY DEF Next1, MemInv, Continue, WriteHead
<1>2. Safe(u, {}) /\ Todo = Todo' \cup {u}  BY Rest
<1>3. /\ x \in Ids /\ phase \in {"settle", "finish"} /\ After(x) /\ State(x) = "prepared"
  <2>1. x \in Ids  BY DEF Writes
  <2> QED  BY <2>1, <1>2 DEF Safe, SafeHead
<1>4. /\ action \in [Ids -> Actions] /\ file \in Contents /\ head \in Ids \cup {NoId}
  BY <1>1 DEF MemoryShape
<1>w. u = Write("head", x, "")
  BY <1>2 DEF Safe, Writes, Write
<1> HIDE DEF x
<1>5. /\ x \in Pending /\ Pending = {x} /\ Pending' = Pending
      /\ \A y \in Ids : State(y)' = State(y)
  <2>1. x \in Pending  BY <1>3 DEF Pending, InState, State
  <2> QED  BY <2>1, <1>1 DEF Heads, Pending, InState, State
<1>6. ~Stranded /\ x # NoId
  BY <1>1, <1>3, <1>5, MemoryAssumption DEF Heads
<1>7. head # NoId /\ head # x => State(head) = "committed"
  <2>1. head # NoId /\ head # x => head \in Ids /\ head \notin Pending  BY <1>4, <1>5
  <2>2. head # NoId => State(head) \in Live  BY <1>1, <1>6 DEF Heads, Stranded
  <2> QED  BY <2>1, <2>2 DEF Pending, InState, State, Live
<1>8. head # x => head = action[x].parent /\ (head # NoId => <<head, "commit">> \in ledger)
  BY <1>1, <1>3 DEF Heads
<1>9. head # x => \A y \in Ids : State(y) = "committed" => y = head
  <2> SUFFICES ASSUME head # x, NEW y \in Ids, State(y) = "committed", y # head  PROVE FALSE
    OBVIOUS
  <2>1. head # NoId /\ Pending \subseteq {head}
    BY <1>1, <1>6 DEF Heads
  <2> QED  BY <2>1, <1>5
<1>10. Images' /\ LedgerTruthful'
  BY <1>1 DEF Images, State, Bodies, LedgerTruthful
<1>11. Heads'
  <2>1. CASE head = x
    <3>1. Undisturbed  BY <2>1, <1>1 DEF Undisturbed, State
    <3> QED  BY <3>1, <1>1, FrameKeepsHeads
  <2>2. CASE head # x
    <3>1. /\ head' # NoId /\ ~Stranded' /\ State(head)' = "prepared" /\ Pending' = {head'}
          /\ action'[head'].parent = head
      BY <2>2, <1>1, <1>3, <1>5, <1>6, <1>8 DEF Stranded, State
    <3>2. head # NoId => State(head)' = "prepared" /\ State(action[head].parent)' = "committed"
      BY <2>2, <1>1, <1>3, <1>7, <1>8 DEF State
    <3>3. \A y \in Ids : /\ State(y)' = "prepared" => y = head'
                         /\ State(y)' # "undoing"
                         /\ State(y)' = "committed" => y = head /\ <<y, "commit">> \in ledger'
      <4>1. ASSUME NEW y \in Ids, State(y) \in {"prepared", "undoing"}  PROVE y = x
        BY <4>1, <1>5 DEF Pending, InState, State
      <4>2. ASSUME NEW y \in Ids, State(y) = "committed"  PROVE y = head /\ <<y, "commit">> \in ledger'
        <5>1. y = head  BY <4>2, <2>2, <1>9
        <5> QED  BY <5>1, <2>2, <1>1, <1>8, MemoryAssumption
      <4> QED  BY <4>1, <4>2, <1>1, <1>3, <1>5
    <3> QED  BY <2>2, <3>1, <3>2, <3>3, <1>1, <1>3, <1>5, <1>6, <1>8, MemoryAssumption DEF Heads, Live
  <2> QED  BY <2>1, <2>2
<1>12. /\ \A do, id, arg : do # "head" /\ Write(do, id, arg) \in Todo => Write(do, id, arg) \in Todo'
       /\ \A id, s : Manifest(id, s) \in Todo => Manifest(id, s) \in Todo'
       /\ Todo' \subseteq Todo
  BY OthersLeft, <1>2
<1>13. Owed'
  <2>1. OwedActions'  BY <1>1, <1>5, <1>12 DEF Owed, OwedActions, State
  <2>2. OwedHead'
    <3>1. ASSUME phase = "finish", NEW y \in Ids, State(y) = "committed", y # x
          PROVE  Manifest(y, "superseded") \in Todo
      <4>1. CASE y # head  BY <3>1, <4>1, <1>1 DEF Owed, OwedHead
      <4>2. CASE y = head
        <5>1. \E z \in Ids : Write("head", z, "") \in Todo  BY <1>2, <1>3, <1>w
        <5> QED  BY <3>1, <4>2, <5>1, <1>1, MemoryAssumption DEF Owed, OwedSwap
      <4> QED  BY <4>1, <4>2
    <3> QED  BY <3>1, <1>1, <1>3, <1>5, <1>12 DEF OwedHead, State
  <2>3. \A z \in Ids : Write("head", z, "") \notin Todo'
    <3> SUFFICES ASSUME NEW z \in Ids, Write("head", z, "") \in Todo'  PROVE FALSE
      OBVIOUS
    <3>1. PICK E \in SUBSET Todo' : Safe(Write("head", z, ""), E \cup {u})  BY Rest
    <3>2. z # NoId  BY MemoryAssumption
    <3>3. SafeHead(z, E \cup {u})  BY <3>1, <3>2 DEF Safe, Write
    <3> QED  BY <3>3 DEF SafeHead, Only
  <2>4. OwedSwap'  BY <2>3 DEF OwedSwap
  <2> QED  BY <2>1, <2>2, <2>4 DEF Owed
<1>14. ASSUME NEW y \in Ids, NEW E \in SUBSET Writes, NEW F \in SUBSET Writes,
              E \subseteq Todo', Follows(F, E, u)
       PROVE  StaySafe(F, E, y)
  <2>0. /\ \A do, id, arg : do # "head" /\ Write(do, id, arg) \in F => Write(do, id, arg) \in E
        /\ \A id, s : Manifest(id, s) \in F => Manifest(id, s) \in E
        /\ \A do, only : Only(F, do, only) => Only(E, do, only)
        /\ \A do, id : OnlyOf(F, do, id) => OnlyOf(E, do, id)
        /\ E \subseteq F /\ u \in F
    BY Others, <1>14 DEF Follows
  <2>1. /\ ~Only(F, "head", {})
        /\ Only(F, "head", {Write("head", y, "")}) => y = x
        /\ ~Only(F, "head", {Write("head", NoId, "")})
    BY <2>0, <1>w, <1>6 DEF Only, Write
  <2>2. \A id, arg : Write("mkdir", id, arg) \notin F
    <3>1. \A id, arg : Write("mkdir", id, arg) \notin E  BY <1>14, Rest DEF Write
    <3> QED  BY <3>1, <2>0
  <2>4. \A t \in Targets : SafePreimage(y, t, F) => SafePreimage(y, t, E)'
    BY <2>0, <2>2, <1>1 DEF SafePreimage, State, Bodies
  <2>5. ~SafePrepared(y, F)  BY <1>5 DEF SafePrepared
  <2>6. SafeCommitted(y, F) => SafeCommitted(y, E)'
    BY <2>0, <2>1, <1>1 DEF SafeCommitted, State
  <2>7. SafeSuperseded(y, F) => SafeSuperseded(y, E)'
    <3>1. SafeSuperseded(y, F) => y # x
      BY <2>0, <1>w DEF SafeSuperseded, Write
    <3> QED  BY <3>1, <2>0, <1>1 DEF SafeSuperseded, State
  <2>9. ~SafeAborted(y, F)  BY <2>1 DEF SafeAborted
  <2>10. ~SafeRolledBack(y, F)  BY <2>1 DEF SafeRolledBack
  <2>11. ~SafeApply(y, F) /\ ~SafeRestore(y, F) /\ ~SafeHead(y, F)
    BY <2>1 DEF SafeApply, SafeRestore, SafeHead
  <2>13. SafeVerifyAfter(y, F) => SafeVerifyAfter(y, E)'
    BY <2>0, <1>1 DEF SafeVerifyAfter, State
  <2>15. SafeNoHead(F) => SafeNoHead(E)'
    BY <2>0, <1>1 DEF SafeNoHead, State
  <2>16. SafeCommitEvent(y, F) => SafeCommitEvent(y, E)'
    BY <2>0, <1>1 DEF SafeCommitEvent, State
  <2>17. SafePurge(y, F) => SafePurge(y, E)'
    BY <2>0, <1>1 DEF SafePurge, State
  <2>18. SafeRmdir(y, F) => SafeRmdir(y, E)'
    BY <2>0, <1>1 DEF SafeRmdir, State
  <2> QED
    BY <2>4, <2>5, <2>6, <2>7, <2>9, <2>10, <2>11, <2>13, <2>15, <2>16, <2>17, <2>18 DEF StaySafe
<1> QED  BY <1>1, <1>3, <1>4, <1>10, <1>11, <1>13, <1>14, WriteKeeps

\* HEAD is removed: the action it named is being undone.
LEMMA RemoveHeadKeeps ==
    ASSUME NEW u \in Writes, Next1(u), u.do = "head", u.id = NoId, WriteHead
    PROVE  MemInv'
<1>1. /\ MemoryShape /\ Images /\ Heads /\ LedgerTruthful /\ Owed
      /\ phase' = phase /\ file' = file /\ action' = action /\ ledger' = ledger
      /\ head' = NoId
  BY DEF Next1, MemInv, Continue, WriteHead
<1>2. Safe(u, {}) /\ Todo = Todo' \cup {u}  BY Rest
<1>w. u = Write("head", NoId, "")
  BY <1>2 DEF Safe, Writes, Write
<1>3. PICK x \in Ids : State(x) = "undoing"
  <2>1. SafeNoHead({})  BY <1>2 DEF Safe
  <2>2. \A id, s : Manifest(id, s) \notin {}  OBVIOUS
  <2> QED  BY <2>1, <2>2 DEF SafeNoHead
<1>4. /\ action \in [Ids -> Actions] /\ file \in Contents /\ head \in Ids \cup {NoId}
  BY <1>1 DEF MemoryShape
<1>5. /\ x \in Pending /\ Pending = {x} /\ Pending' = Pending
      /\ \A y \in Ids : State(y)' = State(y)
  <2>1. x \in Pending  BY <1>3 DEF Pending, InState, State
  <2> QED  BY <2>1, <1>1 DEF Heads, Pending, InState, State
<1>6. \A y \in Ids : State(y) # "committed" /\ State(y) # "prepared"
  <2>1. ASSUME NEW y \in Ids, State(y) = "prepared"  PROVE FALSE
    <3>1. y \in Pending  BY <2>1 DEF Pending, InState, State
    <3> QED  BY <3>1, <2>1, <1>3, <1>5
  <2>2. ASSUME NEW y \in Ids, State(y) = "committed"  PROVE FALSE
    <3>1. ~Stranded  BY <1>1, <1>5 DEF Heads
    <3>2. CASE y = head  BY <3>2, <2>2, <1>1, <1>3, MemoryAssumption DEF Heads
    <3>3. CASE y # head
      <4>1. /\ head # NoId /\ State(head) \in {"prepared", "committed"} /\ Pending \subseteq {head}
        BY <3>1, <3>3, <2>2, <1>1 DEF Heads
      <4> QED  BY <4>1, <1>3, <1>5
    <3> QED  BY <3>2, <3>3
  <2> QED  BY <2>1, <2>2
<1>10. Images' /\ LedgerTruthful'
  BY <1>1 DEF Images, State, Bodies, LedgerTruthful
<1>11. Heads'
  <2>1. ~Stranded'  BY <1>1 DEF Stranded
  <2>2. \A y \in Ids : State(y)' = "undoing" => <<y, "commit">> \in ledger'  BY <1>1, <1>5 DEF Heads
  <2>3. \A y, z \in Pending' : y = z  BY <1>5
  <2> QED  BY <2>1, <2>2, <2>3, <1>1, <1>5, <1>6 DEF Heads
<1>12. /\ \A do, id, arg : do # "head" /\ Write(do, id, arg) \in Todo => Write(do, id, arg) \in Todo'
       /\ \A id, s : Manifest(id, s) \in Todo => Manifest(id, s) \in Todo'
       /\ Todo' \subseteq Todo
  BY OthersLeft, <1>2
<1>13. Owed'
  <2>1. OwedActions'  BY <1>1, <1>5, <1>12 DEF Owed, OwedActions, State
  <2>2. OwedHead'  BY <1>1, <1>5, <1>6 DEF OwedHead
  <2>3. OwedSwap'  BY <1>1 DEF OwedSwap
  <2> QED  BY <2>1, <2>2, <2>3 DEF Owed
<1>14. ASSUME NEW y \in Ids, NEW E \in SUBSET Writes, NEW F \in SUBSET Writes,
              E \subseteq Todo', Follows(F, E, u)
       PROVE  StaySafe(F, E, y)
  <2>0. /\ \A do, id, arg : do # "head" /\ Write(do, id, arg) \in F => Write(do, id, arg) \in E
        /\ \A id, s : Manifest(id, s) \in F => Manifest(id, s) \in E
        /\ \A do, only : Only(F, do, only) => Only(E, do, only)
        /\ \A do, id : OnlyOf(F, do, id) => OnlyOf(E, do, id)
        /\ E \subseteq F
        /\ \A only : Only(F, "head", only) => u \in only
    BY Others, <1>14
  <2>1. /\ ~Only(F, "head", {})
        /\ ~Only(F, "head", {Write("head", y, "")})
    <3>1. u # Write("head", y, "")
      <4>1. y # NoId  BY MemoryAssumption
      <4>2. u.id = NoId /\ Write("head", y, "").id = y  BY <1>w, Fields
      <4> QED  BY <4>1, <4>2
    <3> QED  BY <3>1, <2>0
  <2>2. \A id, arg : Write("mkdir", id, arg) \notin F
    <3>1. \A id, arg : Write("mkdir", id, arg) \notin E  BY <1>14, Rest DEF Write
    <3> QED  BY <3>1, <2>0
  <2>4. \A t \in Targets : SafePreimage(y, t, F) => SafePreimage(y, t, E)'
    BY <2>0, <2>2, <1>1 DEF SafePreimage, State, Bodies
  <2>5. ~SafePrepared(y, F)  BY <1>5 DEF SafePrepared
  <2>6. ~SafeCommitted(y, F) /\ ~SafeAborted(y, F)
    BY <2>1 DEF SafeCommitted, SafeAborted
  <2>7. ~SafeSuperseded(y, F)
    BY <1>6 DEF SafeSuperseded
  <2>10. SafeRolledBack(y, F) => SafeRolledBack(y, E)'
    BY <2>0, <1>1, <1>5 DEF SafeRolledBack, SafeRestored, Before
  <2>11. ~SafeApply(y, F) /\ ~SafeRestore(y, F) /\ ~SafeHead(y, F)
    BY <2>1 DEF SafeApply, SafeRestore, SafeHead
  <2>13. SafeVerifyAfter(y, F) => SafeVerifyAfter(y, E)'
    BY <2>0, <1>1 DEF SafeVerifyAfter, State
  <2>15. SafeNoHead(F) => SafeNoHead(E)'
    BY <2>0, <1>1 DEF SafeNoHead, State
  <2>16. SafeCommitEvent(y, F) => SafeCommitEvent(y, E)'
    BY <2>0, <1>1 DEF SafeCommitEvent, State
  <2>17. SafePurge(y, F) => SafePurge(y, E)'
    BY <2>0, <1>1 DEF SafePurge, State
  <2>18. SafeRmdir(y, F) => SafeRmdir(y, E)'
    BY <2>0, <1>1 DEF SafeRmdir, State
  <2> QED
    BY <2>4, <2>5, <2>6, <2>7, <2>10, <2>11, <2>13, <2>15, <2>16, <2>17, <2>18 DEF StaySafe
<1> QED  BY <1>1, <1>4, <1>10, <1>11, <1>13, <1>14, WriteKeeps

\* The manifest of x turns to s.
Turns(u, x, s) ==
    /\ Next1(u) /\ u.do = "manifest" /\ x = u.id /\ s = u.arg /\ WriteManifest

\* What else that changes, and what it leaves.
LEMMA Turned ==
    ASSUME NEW u \in Writes, NEW x, NEW s, Turns(u, x, s)
    PROVE  /\ MemoryShape /\ Images /\ Heads /\ LedgerTruthful /\ Owed /\ Together
           /\ phase' = phase /\ file' = file /\ head' = head /\ ledger' = ledger
           /\ x \in Ids /\ u = Manifest(x, s) /\ SafeManifest(x, s, {})
           /\ Todo = Todo' \cup {u}
           /\ action \in [Ids -> Actions] /\ action' \in [Ids -> Actions]
           /\ file \in Contents /\ head \in Ids \cup {NoId}
           /\ State(x)' = s /\ \A y \in Ids \ {x} : State(y)' = State(y)
           /\ \A y \in Ids : /\ action'[y].parent = action[y].parent
                             /\ action'[y].before = action[y].before
                             /\ action'[y].after = action[y].after
                             /\ action'[y].saved = action[y].saved
<1>1. /\ MemoryShape /\ Images /\ Heads /\ LedgerTruthful /\ Owed /\ Together
      /\ phase' = phase /\ file' = file /\ head' = head /\ ledger' = ledger
      /\ action' = [action EXCEPT ![x].state = s]
  BY DEF Turns, Next1, MemInv, Continue, WriteManifest
<1>2. /\ Safe(u, {}) /\ Todo = Todo' \cup {u} /\ u.do = "manifest" /\ x = u.id /\ s = u.arg
  BY Rest DEF Turns
<1>3. x \in Ids /\ SafeManifest(x, s, {}) /\ u = Manifest(x, s)
  BY <1>2, Written DEF Safe, Manifest
<1>4. /\ action \in [Ids -> Actions] /\ file \in Contents /\ head \in Ids \cup {NoId}
  BY <1>1 DEF MemoryShape
<1>5. s \in States
  BY <1>3 DEF SafeManifest, Closing, States
<1>6. action[x] \in Actions /\ action'[x] = [action[x] EXCEPT !.state = s]
  BY <1>1, <1>3, <1>4
<1>7. action' \in [Ids -> Actions]
  <2>1. action'[x] \in Actions  BY <1>5, <1>6 DEF Actions
  <2> QED  BY <2>1, <1>1, <1>3, <1>4
<1>8. \A y \in Ids \ {x} : action'[y] = action[y]
  BY <1>1, <1>3, <1>4
<1>9. /\ action'[x].state = s /\ action'[x].parent = action[x].parent
      /\ action'[x].before = action[x].before /\ action'[x].after = action[x].after
      /\ action'[x].saved = action[x].saved
  BY <1>6 DEF Actions
<1> QED  BY <1>1, <1>2, <1>3, <1>4, <1>7, <1>8, <1>9 DEF State

\* What must be known of x when its manifest turns.
LEMMA Turning ==
    ASSUME NEW u \in Writes, NEW x, NEW s, Turns(u, x, s)
    PROVE  /\ s \in {"prepared", "undoing", "committed"} \cup Closing
           /\ s = "prepared" => /\ State(x) = "unprepared" /\ phase = "finish" /\ Known(x)
                                /\ Bodies(x) \subseteq action[x].saved /\ action[x].parent = head
                                /\ Pending = {}
                                /\ \A y \in Ids : State(y) = "committed" => y = head
                                /\ head # NoId =>
                                      State(head) = "committed" /\ <<head, "commit">> \in ledger
           /\ s = "undoing" => SafeUndoing(x)
           /\ s = "committed" => State(x) = "prepared" /\ head = x
           /\ s = "superseded" => /\ State(x) = "committed" /\ head # x
                                  /\ {<<x, "commit">>, <<x, "supersede">>} \subseteq ledger
           /\ s = "aborted" => /\ State(x) = "prepared" /\ phase = "settle"
                               /\ <<x, "abort">> \in ledger
           /\ s = "rolled_back" => /\ State(x) = "undoing" /\ head = NoId
                                   /\ {<<x, "commit">>, <<x, "rollback">>} \subseteq ledger
<1>1. x \in Ids /\ SafeManifest(x, s, {})
  BY Turned
<1>2. s = "prepared" => /\ SafePrepared(x, {}) /\ State(x) = "unprepared"
                        /\ action[x].before = file /\ Bodies(x) \subseteq action[x].saved
                        /\ action[x].parent = head
  BY <1>1 DEF SafeManifest, SafePrepared
<1>3. s = "prepared" => Known(x)
  BY <1>2 DEF Known
<1>4. s = "committed" => State(x) = "prepared" /\ head = x
  BY <1>1 DEF SafeManifest, SafeCommitted
<1>5. s = "superseded" => /\ State(x) = "committed" /\ head # x
                          /\ {<<x, "commit">>, <<x, "supersede">>} \subseteq ledger
  BY <1>1 DEF SafeManifest, SafeSuperseded
<1>6. s = "aborted" => /\ State(x) = "prepared" /\ phase = "settle" /\ <<x, "abort">> \in ledger
  BY <1>1 DEF SafeManifest, SafeAborted
<1>7. s = "rolled_back" => /\ State(x) = "undoing" /\ head = NoId
                           /\ {<<x, "commit">>, <<x, "rollback">>} \subseteq ledger
  BY <1>1 DEF SafeManifest, SafeRolledBack
<1>8. s = "undoing" => SafeUndoing(x)
  BY <1>1 DEF SafeManifest
<1>9. s \in {"prepared", "undoing", "committed"} \cup Closing
  BY <1>1 DEF SafeManifest
<1>10. s = "prepared" => /\ phase = "finish" /\ Pending = {}
                         /\ \A y \in Ids : State(y) = "committed" => y = head
                         /\ head # NoId => State(head) = "committed" /\ <<head, "commit">> \in ledger
  BY <1>2 DEF SafePrepared
<1> QED  BY <1>2, <1>3, <1>4, <1>5, <1>6, <1>7, <1>8, <1>9, <1>10

\* A later write stays safe.
LEMMA TurnStaysSafe ==
    ASSUME NEW u \in Writes, NEW x, NEW s, Turns(u, x, s),
           NEW y \in Ids, NEW E \in SUBSET Writes, NEW F \in SUBSET Writes,
           E \subseteq Todo', Follows(F, E, u)
    PROVE  StaySafe(F, E, y)
<1>1. /\ x \in Ids /\ u = Manifest(x, s) /\ u.do = "manifest"
      /\ phase' = phase /\ file' = file /\ head' = head /\ ledger' = ledger
      /\ State(x)' = s /\ \A z \in Ids \ {x} : State(z)' = State(z)
      /\ \A z \in Ids : /\ action'[z].before = action[z].before
                        /\ action'[z].after = action[z].after
  BY Turned DEF Turns
<1>2. Next1(u)  BY DEF Turns
<1>3. /\ \A do, id, arg : do # "manifest" /\ Write(do, id, arg) \in F => Write(do, id, arg) \in E
      /\ \A do, only : Only(F, do, only) => Only(E, do, only)
      /\ \A do, id : OnlyOf(F, do, id) => OnlyOf(E, do, id)
      /\ E \subseteq F
      /\ \A only : Only(F, "manifest", only) => u \in only
  BY Others, <1>1
<1>4. \A z, r : Manifest(z, r) \in F => Manifest(z, r) \in E \/ (z = x /\ r = s)
  <2>1. \A z, r : Manifest(z, r) = u => z = x /\ r = s  BY <1>1 DEF Manifest, Write
  <2> QED  BY <2>1 DEF Follows
<1>5. \A z, r : u = Manifest(z, r) => z = x /\ r = s
  BY <1>1 DEF Manifest, Write
<1>6. /\ s = "prepared" => State(x) = "unprepared" /\ phase = "finish" /\ Known(x)
      /\ s = "undoing" => State(x) = "committed" /\ After(x)
      /\ State(x) \notin Closed /\ (State(x) = "unprepared" => s = "prepared")
  BY Turning DEF SafeUndoing, Closed, Closing
<1>7. x \in Pending' <=> s \in {"prepared", "undoing"}
  BY <1>1 DEF Pending, InState, State
<1>8. \A t \in Targets : ~SafePreimage(y, t, F)
  BY <1>3 DEF SafePreimage
<1>9. ~SafePrepared(y, F) /\ ~SafeAborted(y, F)
  BY <1>3 DEF SafePrepared, SafeAborted
<1>10. ASSUME SafeCommitted(y, F)  PROVE SafeCommitted(y, E)'
  <2>1. y = x /\ s = "prepared"
    BY <1>10, <1>3, <1>5 DEF SafeCommitted
  <2> QED  BY <2>1, <1>10, <1>1, <1>3 DEF SafeCommitted
<1>11. ASSUME SafeSuperseded(y, F)  PROVE SafeSuperseded(y, E)'
  <2>1. y # x
    <3>1. u \in F /\ u.id = x  BY <1>1 DEF Follows, Manifest, Write
    <3> QED  BY <3>1, <1>11, <1>1 DEF SafeSuperseded
  <2> QED  BY <2>1, <1>11, <1>1, <1>3 DEF SafeSuperseded
<1>12. ASSUME SafeRolledBack(y, F)  PROVE SafeRolledBack(y, E)'
  <2>1. y = x /\ s = "undoing"
    BY <1>12, <1>3, <1>5 DEF SafeRolledBack
  <2> QED  BY <2>1, <1>12, <1>1, <1>3 DEF SafeRolledBack, SafeRestored, Before
<1>13. ASSUME SafeApply(y, F)  PROVE SafeApply(y, E)'
  <2>1. y = x /\ s = "prepared"
    BY <1>13, <1>3, <1>5 DEF SafeApply
  <2> QED  BY <2>1, <1>13, <1>1, <1>3, <1>6 DEF SafeApply, Known
<1>14. ASSUME SafeRestore(y, F)  PROVE SafeRestore(y, E)'
  <2>1. y = x /\ s = "undoing"
    BY <1>14, <1>3, <1>5 DEF SafeRestore
  <2>2. Known(x)'  BY <2>1, <1>1, <1>6 DEF After, Known
  <2> QED  BY <2>1, <2>2, <1>14, <1>1, <1>3, <1>7 DEF SafeRestore
<1>15. ASSUME SafeVerifyAfter(y, F)  PROVE SafeVerifyAfter(y, E)'
  <2>1. y = x /\ s = "prepared"
    BY <1>15, <1>3, <1>5 DEF SafeVerifyAfter
  <2> QED  BY <2>1, <1>15, <1>1, <1>3 DEF SafeVerifyAfter
<1>16. ASSUME SafeHead(y, F)  PROVE SafeHead(y, E)'
  <2>1. y = x /\ s = "prepared"
    BY <1>16, <1>3, <1>5 DEF SafeHead
  <2> QED  BY <2>1, <1>16, <1>1, <1>3 DEF SafeHead, After
<1>17. ASSUME SafeNoHead(F)  PROVE SafeNoHead(E)'
  <2>1. s = "undoing" /\ Only(F, "manifest", {Manifest(x, "undoing")})
    BY <1>17, <1>3, <1>5 DEF SafeNoHead
  <2> QED  BY <2>1, <1>1, <1>3 DEF SafeNoHead
<1>18. ASSUME SafeCommitEvent(y, F)  PROVE SafeCommitEvent(y, E)'
  <2>1. y = x /\ s \in {"prepared", "committed"}
    BY <1>18, <1>3, <1>5 DEF SafeCommitEvent
  <2>2. State(x)' = "committed" \/ Manifest(x, "committed") \in E
    BY <2>1, <1>18, <1>1, <1>4, <1>6 DEF SafeCommitEvent
  <2> QED  BY <2>1, <2>2, <1>18, <1>3 DEF SafeCommitEvent
<1>19. ASSUME SafePurge(y, F)  PROVE SafePurge(y, E)'
  <2>1. \A r \in Closing : r \in Closed  BY DEF Closing, Closed
  <2>2. y # x => State(y)' = State(y)  BY <1>1
  <2>3. CASE \E r \in Closing : Manifest(y, r) \in F
    BY <2>1, <2>3, <1>19, <1>1, <1>3, <1>4 DEF SafePurge
  <2>4. CASE ~\E r \in Closing : Manifest(y, r) \in F
    BY <2>2, <2>4, <1>19, <1>1, <1>3, <1>6 DEF SafePurge
  <2> QED  BY <2>3, <2>4
<1>20. ASSUME SafeRmdir(y, F)  PROVE SafeRmdir(y, E)'
  BY <1>20, <1>1, <1>3, <1>6 DEF SafeRmdir
<1> QED
  BY <1>8, <1>9, <1>10, <1>11, <1>12, <1>13, <1>14, <1>15, <1>16, <1>17, <1>18, <1>19, <1>20
  DEF StaySafe

\* What the plan owes the disk is still in it.
LEMMA TurnOwes ==
    ASSUME NEW u \in Writes, NEW x, NEW s, Turns(u, x, s)
    PROVE  Owed'
<1>1. /\ x \in Ids /\ u = Manifest(x, s)
      /\ phase' = phase /\ head' = head /\ ledger' = ledger
      /\ State(x)' = s /\ \A z \in Ids \ {x} : State(z)' = State(z)
      /\ \A z \in Ids : action'[z].saved = action[z].saved
      /\ Todo = Todo' \cup {u} /\ Owed /\ Together /\ Heads
      /\ head \in Ids \cup {NoId}
  BY Turned
<1>2. \A do, id, arg : do # "manifest" /\ Write(do, id, arg) \in Todo => Write(do, id, arg) \in Todo'
  BY OthersLeft DEF Turns
<1>3. \A z, r : Manifest(z, r) \in Todo /\ ~(z = x /\ r = s) => Manifest(z, r) \in Todo'
  <2>1. \A z, r : Manifest(z, r) = u => z = x /\ r = s  BY <1>1 DEF Manifest, Write
  <2> QED  BY <2>1, <1>1
<1>4. /\ s \in {"prepared", "undoing", "committed"} \cup Closing
      /\ s = "prepared" => Manifest(x, "committed") \in Todo'
      /\ s = "undoing" => Manifest(x, "rolled_back") \in Todo'
      /\ s = "committed" => Write("event", x, "commit") \in Todo'
      /\ s \in Closing => \A t \in Targets : Write("purge", x, t) \in Todo'
  <2>1. u \in Todo /\ s \in {"prepared", "undoing", "committed"} \cup Closing  BY <1>1, Turning
  <2>2. /\ s = "prepared" => Manifest(x, "committed") \in Todo
        /\ s = "undoing" => Manifest(x, "rolled_back") \in Todo
        /\ s = "committed" => Write("event", x, "commit") \in Todo
        /\ s \in Closing => \A t \in Targets : Write("purge", x, t) \in Todo
    BY <2>1, <1>1 DEF Together
  <2> QED  BY <2>1, <2>2, <1>2, <1>3
<1>5. /\ s = "committed" => head = x
      /\ s = "superseded" => head # x
  BY Turning
<1>6. OwedActions'
  <2> SUFFICES ASSUME phase \in Later, NEW y \in Ids
               PROVE  /\ State(y)' \in {"prepared", "undoing"} =>
                             \E r \in Closing \cup {"committed"} : Manifest(y, r) \in Todo'
                      /\ State(y)' = "unprepared" => Manifest(y, "prepared") \in Todo'
                      /\ State(y)' \in Closed =>
                             \A t \in action[y].saved : Write("purge", y, t) \in Todo'
    BY <1>1 DEF OwedActions, Pending, InState, State
  <2>1. CASE y = x
    <3>1. Closing = Closed /\ "rolled_back" \in Closing  BY DEF Closing, Closed
    <3>2. action[x].saved \subseteq Targets  BY <1>1, Turned DEF Actions
    <3> QED  BY <3>1, <3>2, <2>1, <1>1, <1>4 DEF Closing
  <2>2. CASE y # x
    <3>1. /\ y \in Pending => \E r \in Closing \cup {"committed"} : Manifest(y, r) \in Todo
          /\ State(y) = "unprepared" => Manifest(y, "prepared") \in Todo
          /\ State(y) \in Closed => \A t \in action[y].saved : Write("purge", y, t) \in Todo
      BY <1>1 DEF Owed, OwedActions
    <3>2. y \in Pending <=> State(y) \in {"prepared", "undoing"}  BY DEF Pending, InState, State
    <3> QED  BY <3>1, <3>2, <2>2, <1>1, <1>2, <1>3
  <2> QED  BY <2>1, <2>2
<1>7. OwedHead'
  <2> SUFFICES ASSUME phase \in {"operate", "finish"}
               PROVE  /\ head # NoId /\ State(head)' = "committed" =>
                             <<head, "commit">> \in ledger \/ Write("event", head, "commit") \in Todo'
                      /\ \A y \in Ids : State(y)' = "committed" /\ y # head =>
                             Manifest(y, "superseded") \in Todo'
    BY <1>1 DEF OwedHead, State
  <2>1. /\ head # NoId /\ State(head) = "committed" =>
               <<head, "commit">> \in ledger \/ Write("event", head, "commit") \in Todo
        /\ \A y \in Ids : State(y) = "committed" /\ y # head => Manifest(y, "superseded") \in Todo
    BY <1>1 DEF Owed, OwedHead
  <2>2. ASSUME head # NoId, State(head)' = "committed"
        PROVE  <<head, "commit">> \in ledger \/ Write("event", head, "commit") \in Todo'
    BY <2>1, <2>2, <1>1, <1>2, <1>4
  <2>3. ASSUME NEW y \in Ids, State(y)' = "committed", y # head
        PROVE  Manifest(y, "superseded") \in Todo'
    BY <2>1, <2>3, <1>1, <1>3, <1>5
  <2> QED  BY <2>2, <2>3
<1>8. OwedSwap'
  <2> SUFFICES ASSUME phase = "finish", head # NoId, NEW z \in Ids, Write("head", z, "") \in Todo'
               PROVE  Manifest(head, "superseded") \in Todo'
    BY <1>1 DEF OwedSwap
  <2>1. Manifest(head, "superseded") \in Todo  BY <1>1 DEF Owed, OwedSwap
  <2> QED  BY <2>1, <1>1, <1>3, <1>5
<1> QED  BY <1>6, <1>7, <1>8 DEF Owed

\* HEAD, its parent and the action under way, by what the manifest turns to.
LEMMA TurnHeads ==
    ASSUME NEW u \in Writes, NEW x, NEW s, Turns(u, x, s)
    PROVE  Heads'
<1>1. /\ x \in Ids /\ Heads /\ phase' = phase /\ head' = head /\ ledger' = ledger
      /\ State(x)' = s /\ \A z \in Ids \ {x} : State(z)' = State(z)
      /\ \A z \in Ids : action'[z].parent = action[z].parent
      /\ head \in Ids \cup {NoId}
      /\ \A z \in Ids : action[z].parent \in Ids \cup {NoId}
  BY Turned DEF Actions
<1>2. x # NoId  BY <1>1, MemoryAssumption
<1>3. \A z \in Ids : /\ z \in Pending <=> State(z) \in {"prepared", "undoing"}
                     /\ z \in Pending' <=> State(z)' \in {"prepared", "undoing"}
  BY DEF Pending, InState, State
<1>p. Pending \subseteq Ids /\ Pending' \subseteq Ids
  BY DEF Pending, InState
<1>q. head # NoId => State(head)' = IF head = x THEN s ELSE State(head)
  BY <1>1
<1>4. CASE s = "prepared"
  <2>1. /\ State(x) = "unprepared" /\ action[x].parent = head /\ Pending = {}
        /\ \A y \in Ids : State(y) = "committed" => y = head
        /\ head # NoId => State(head) = "committed" /\ <<head, "commit">> \in ledger
    BY <1>4, Turning
  <2>2. head # x /\ \A z \in Ids : State(z)' = "prepared" => z = x  BY <2>1, <1>1, <1>2, <1>3
  <2>3. Pending' = {x}  BY <2>1, <1>1, <1>3, <1>4, <1>p
  <2>4. ~Stranded /\ ~Stranded'  BY <2>1, <2>2, <1>1, <1>q DEF Stranded
  <2>5. head # NoId /\ action[head].parent # NoId =>
            State(action[head].parent)' \in {"committed", "superseded"}
    BY <2>1, <2>4, <1>1 DEF Heads
  <2>6. \A z \in Ids : State(z)' # "undoing" /\ (State(z)' = "committed" => z = head)
    BY <2>1, <2>3, <1>1, <1>3, <1>4
  <2> QED  BY <2>1, <2>2, <2>3, <2>4, <2>5, <2>6, <1>1, <1>q DEF Heads, Live
<1>5. CASE s = "undoing"
  <2>1. /\ head = x /\ State(x) = "committed" /\ Pending = {} /\ <<x, "commit">> \in ledger
        /\ \A y \in Ids : State(y) = "committed" => y = head
    BY <1>5, Turning DEF SafeUndoing
  <2>2. Pending' = {x}  BY <2>1, <1>1, <1>3, <1>5, <1>p
  <2>3. ~Stranded /\ ~Stranded'  BY <2>1, <1>1, <1>5 DEF Stranded
  <2>4. action[x].parent # NoId =>
            action[x].parent # x /\ State(action[x].parent)' \in {"committed", "superseded"}
    BY <2>1, <2>3, <1>1, <1>2 DEF Heads
  <2>5. \A z \in Ids : /\ State(z)' = "undoing" => z = x
                       /\ State(z)' # "prepared" /\ State(z)' # "committed"
    BY <2>1, <2>2, <1>1, <1>3, <1>5
  <2> QED  BY <2>1, <2>2, <2>3, <2>4, <2>5, <1>1, <1>5, <1>q DEF Heads, Live
<1>6. CASE s = "committed"
  <2>1. head = x /\ State(x) = "prepared"  BY <1>6, Turning
  <2>2. Pending = {x} /\ ~Stranded /\ ~Stranded'
    BY <2>1, <1>1, <1>3, <1>6, <1>p DEF Heads, Stranded
  <2>3. Pending' = {}  BY <2>1, <2>2, <1>1, <1>3, <1>6, <1>p
  <2>4. action[x].parent # NoId =>
            action[x].parent # x /\ State(action[x].parent)' \in {"committed", "superseded"}
    BY <2>1, <2>2, <1>1, <1>2 DEF Heads
  <2>5. \A z \in Ids : State(z)' = "committed" /\ z # head =>
            action[x].parent = z /\ <<z, "commit">> \in ledger
    BY <2>1, <2>2, <1>1, <1>6 DEF Heads
  <2>6. \A z \in Ids : State(z)' # "undoing" /\ State(z)' # "prepared"
    BY <2>3, <1>3
  <2> QED  BY <2>1, <2>2, <2>3, <2>4, <2>5, <2>6, <1>1, <1>2, <1>6 DEF Heads, Live
<1>7. CASE s = "superseded"
  <2>1. State(x) = "committed" /\ head # x /\ head # NoId
    BY <1>7, <1>1, Turning DEF Heads
  <2>2. Pending' = Pending /\ Stranded' = Stranded /\ State(head)' = State(head)
    BY <2>1, <1>1, <1>3, <1>7, <1>p DEF Stranded
  <2>3. action[head].parent # NoId /\ ~Stranded =>
            /\ action[head].parent # head
            /\ State(action[head].parent)' \in {"committed", "superseded"}
    BY <2>1, <1>1, <1>7 DEF Heads
  <2>4. \A z \in Ids : z # x => State(z)' = State(z)  BY <1>1
  <2>5. State(x)' \notin {"prepared", "undoing", "committed"}  BY <1>1, <1>7
  <2> QED  BY <2>1, <2>2, <2>3, <2>4, <2>5, <1>1, <1>2 DEF Heads
<1>8. CASE s = "aborted"
  <2>1. State(x) = "prepared" /\ phase = "settle"  BY <1>8, Turning
  <2>2. Pending = {x} /\ ~Stranded
    BY <2>1, <1>1, <1>3, <1>p DEF Heads
  <2>3. Pending' = {}  BY <2>2, <1>1, <1>3, <1>8, <1>p
  <2>4. \A z \in Ids : State(z)' # "undoing" /\ State(z)' # "prepared"
    BY <2>3, <1>3
  <2>5. CASE head = x
    <3>1. Stranded' /\ State(head)' = "aborted"  BY <2>5, <1>1, <1>2, <1>8 DEF Stranded
    <3> QED  BY <3>1, <2>1, <2>3, <2>4, <2>5, <1>1, <1>2 DEF Heads
  <2>6. CASE head # x
    <3>1. head # NoId => State(head)' = State(head) /\ State(head) \in Live \cup {"aborted"}
      BY <2>6, <1>1 DEF Heads
    <3>2. ~Stranded'  BY <3>1, <2>2, <1>1 DEF Stranded
    <3>3. head # NoId /\ action[head].parent # NoId =>
              /\ action[head].parent # head
              /\ State(action[head].parent)' \in {"committed", "superseded"}
      <4> SUFFICES ASSUME head # NoId, action[head].parent # NoId
                   PROVE  /\ action[head].parent # head
                          /\ State(action[head].parent)' \in {"committed", "superseded"}
        OBVIOUS
      <4>1. /\ action[head].parent # head
            /\ State(action[head].parent) \in {"committed", "superseded"}
        BY <2>2, <1>1 DEF Heads
      <4>2. action[head].parent \in Ids  BY <1>1
      <4> QED  BY <4>1, <4>2, <2>1, <1>1
    <3>4. \A z \in Ids : State(z)' = "committed" => z = head
      BY <2>1, <2>2, <2>6, <1>1, <1>8 DEF Heads
    <3> QED  BY <3>1, <3>2, <3>3, <3>4, <2>3, <2>4, <1>1 DEF Heads
  <2> QED  BY <2>5, <2>6
<1>9. CASE s = "rolled_back"
  <2>1. State(x) = "undoing" /\ head = NoId  BY <1>9, Turning
  <2>2. Pending = {x}  BY <2>1, <1>1, <1>3, <1>p DEF Heads
  <2>3. Pending' = {}  BY <2>2, <1>1, <1>3, <1>9, <1>p
  <2>4. \A z \in Ids : /\ State(z)' # "undoing" /\ State(z)' # "prepared"
                       /\ State(z)' # "committed"
    BY <2>1, <2>3, <1>1, <1>3, <1>9, MemoryAssumption DEF Heads
  <2>5. ~Stranded'  BY <2>1, <1>1 DEF Stranded
  <2> QED  BY <2>1, <2>3, <2>4, <2>5, <1>1 DEF Heads
<1>10. s \in {"prepared", "undoing", "committed", "aborted", "rolled_back", "superseded"}
  BY Turning DEF Closing
<1> QED  BY <1>4, <1>5, <1>6, <1>7, <1>8, <1>9, <1>10

\* A manifest that turns keeps the invariant.
LEMMA WriteManifestKeeps ==
    ASSUME NEW u \in Writes, Next1(u), u.do = "manifest", WriteManifest
    PROVE  MemInv'
<1> DEFINE x == u.id  s == u.arg
<1>1. Turns(u, x, s)  BY DEF Turns
<1> HIDE DEF x, s
<1>2. /\ x \in Ids /\ Images /\ LedgerTruthful
      /\ phase' = phase /\ file' = file /\ head' = head /\ ledger' = ledger
      /\ file \in Contents /\ head \in Ids \cup {NoId} /\ action' \in [Ids -> Actions]
      /\ State(x)' = s /\ \A z \in Ids \ {x} : State(z)' = State(z)
      /\ \A z \in Ids : /\ action'[z].before = action[z].before
                        /\ action'[z].after = action[z].after
                        /\ action'[z].saved = action[z].saved
  BY <1>1, Turned
<1>3. /\ s \in {"prepared", "undoing", "committed"} \cup Closing
      /\ s = "prepared" => State(x) = "unprepared" /\ Bodies(x) \subseteq action[x].saved
      /\ s = "undoing" => State(x) = "committed"
      /\ s = "committed" => State(x) = "prepared"
      /\ s = "superseded" => {<<x, "commit">>, <<x, "supersede">>} \subseteq ledger
      /\ s = "aborted" => State(x) = "prepared" /\ <<x, "abort">> \in ledger
      /\ s = "rolled_back" => {<<x, "commit">>, <<x, "rollback">>} \subseteq ledger
  BY <1>1, Turning DEF SafeUndoing
<1>4. Images'
  <2>1. \A z \in Ids : Bodies(z)' = Bodies(z)  BY <1>2 DEF Bodies
  <2>2. s \in Live => Bodies(x) \subseteq action[x].saved
    BY <1>2, <1>3 DEF Images, Live, Closing
  <2>3. s # "none"  BY <1>3 DEF Closing
  <2> QED  BY <2>1, <2>2, <2>3, <1>2 DEF Images
<1>5. LedgerTruthful'
  <2> SUFFICES ASSUME NEW z \in Ids
               PROVE  /\ <<z, "commit">> \in ledger =>
                             State(z)' \in {"committed", "undoing", "rolled_back", "superseded"}
                      /\ State(z)' = "aborted" => <<z, "abort">> \in ledger
                      /\ State(z)' = "rolled_back" => {<<z, "commit">>, <<z, "rollback">>} \subseteq ledger
                      /\ State(z)' = "superseded" => {<<z, "commit">>, <<z, "supersede">>} \subseteq ledger
    BY <1>2 DEF LedgerTruthful, State
  <2>1. <<z, "commit">> \in ledger => State(z) \in {"committed", "undoing", "rolled_back", "superseded"}
    BY <1>2 DEF LedgerTruthful, State
  <2>2. CASE z = x  BY <2>1, <2>2, <1>2, <1>3 DEF Closing
  <2>3. CASE z # x
    <3>1. State(z)' = State(z)  BY <2>3, <1>2
    <3> QED  BY <3>1, <2>1, <1>2 DEF LedgerTruthful, State
  <2> QED  BY <2>2, <2>3
<1>6. Heads' /\ Owed'  BY <1>1, TurnHeads, TurnOwes
<1>7. \A y \in Ids : \A E, F \in SUBSET Writes :
          E \subseteq Todo' /\ Follows(F, E, u) => StaySafe(F, E, y)
  BY <1>1, TurnStaysSafe
<1> QED  BY <1>2, <1>4, <1>5, <1>6, <1>7, WriteKeeps
-----------------------------------------------------------------------------
(* New plans.                                                              *)

Ran(s) == {s[i] : i \in DOMAIN s}

\* Every write of s may be done after those of E and those before it, where P
\* are the pairs of a write and the writes it may follow.
Ordered(s, E, P) == \A i \in DOMAIN s : <<s[i], E \cup {s[k] : k \in 1..(i - 1)}>> \in P

Sound == {p \in Writes \X SUBSET Writes : Safe(p[1], p[2])}

\* Plans of one, two and three writes.
LEMMA Tuples ==
    ASSUME NEW a \in Writes, NEW b \in Writes, NEW c \in Writes, NEW E, NEW P
    PROVE  /\ <<>> \in Seq(Writes) /\ Ran(<<>>) = {} /\ Ordered(<<>>, E, P)
           /\ <<a>> \in Seq(Writes) /\ Ran(<<a>>) = {a}
           /\ <<a, E>> \in P => Ordered(<<a>>, E, P)
           /\ <<a, b>> \in Seq(Writes) /\ Ran(<<a, b>>) = {a, b}
           /\ <<a, E>> \in P /\ <<b, E \cup {a}>> \in P => Ordered(<<a, b>>, E, P)
           /\ <<a, b, c>> \in Seq(Writes) /\ Ran(<<a, b, c>>) = {a, b, c}
           /\ <<a, E>> \in P /\ <<b, E \cup {a}>> \in P /\ <<c, E \cup {a, b}>> \in P =>
                 Ordered(<<a, b, c>>, E, P)
<1>1. /\ DOMAIN <<>> = {} /\ DOMAIN <<a>> = {1} /\ DOMAIN <<a, b>> = {1, 2}
      /\ DOMAIN <<a, b, c>> = {1, 2, 3}
  OBVIOUS
<1>2. /\ <<>> \in Seq(Writes) /\ <<a>> \in Seq(Writes) /\ <<a, b>> \in Seq(Writes)
      /\ <<a, b, c>> \in Seq(Writes)
  OBVIOUS
<1>3. 1..(1 - 1) = {} /\ 1..(2 - 1) = {1} /\ 1..(3 - 1) = {1, 2}  OBVIOUS
<1>4. Ran(<<>>) = {} /\ Ran(<<a>>) = {a}  BY <1>1 DEF Ran
<1>5. Ran(<<a, b>>) = {a, b}
  <2> DEFINE s == <<a, b>>
  <2>1. s[1] = a /\ s[2] = b /\ DOMAIN s = {1, 2}  BY <1>1
  <2> HIDE DEF s
  <2>2. Ran(s) = {a, b}  BY <2>1 DEF Ran
  <2> QED  BY <2>2 DEF s
<1>6. Ran(<<a, b, c>>) = {a, b, c}
  <2> DEFINE s == <<a, b, c>>
  <2>1. s[1] = a /\ s[2] = b /\ s[3] = c /\ DOMAIN s = {1, 2, 3}  BY <1>1
  <2> HIDE DEF s
  <2>2. Ran(s) = {a, b, c}  BY <2>1 DEF Ran
  <2> QED  BY <2>2 DEF s
<1>7. Ordered(<<>>, E, P)  BY <1>1 DEF Ordered
<1>8. <<a, E>> \in P => Ordered(<<a>>, E, P)
  <2> DEFINE s == <<a>>
  <2>1. s[1] = a /\ DOMAIN s = {1}  BY <1>1
  <2> HIDE DEF s
  <2>2. E \cup {s[k] : k \in 1..(1 - 1)} = E  BY <1>3
  <2>3. <<a, E>> \in P => Ordered(s, E, P)  BY <2>1, <2>2 DEF Ordered
  <2> QED  BY <2>3 DEF s
<1>9. <<a, E>> \in P /\ <<b, E \cup {a}>> \in P => Ordered(<<a, b>>, E, P)
  <2> DEFINE s == <<a, b>>
  <2>1. s[1] = a /\ s[2] = b /\ DOMAIN s = {1, 2}  BY <1>1
  <2> HIDE DEF s
  <2>2. E \cup {s[k] : k \in 1..(1 - 1)} = E  BY <1>3
  <2>3. E \cup {s[k] : k \in 1..(2 - 1)} = E \cup {a}  BY <1>3, <2>1
  <2>4. <<a, E>> \in P /\ <<b, E \cup {a}>> \in P => Ordered(s, E, P)
    BY <2>1, <2>2, <2>3 DEF Ordered
  <2> QED  BY <2>4 DEF s
<1>10. <<a, E>> \in P /\ <<b, E \cup {a}>> \in P /\ <<c, E \cup {a, b}>> \in P =>
           Ordered(<<a, b, c>>, E, P)
  <2> DEFINE s == <<a, b, c>>
  <2>1. s[1] = a /\ s[2] = b /\ s[3] = c /\ DOMAIN s = {1, 2, 3}  BY <1>1
  <2> HIDE DEF s
  <2>2. E \cup {s[k] : k \in 1..(1 - 1)} = E  BY <1>3
  <2>3. E \cup {s[k] : k \in 1..(2 - 1)} = E \cup {a}  BY <1>3, <2>1
  <2>4. E \cup {s[k] : k \in 1..(3 - 1)} = E \cup {a, b}  BY <1>3, <2>1
  <2>5. <<a, E>> \in P /\ <<b, E \cup {a}>> \in P /\ <<c, E \cup {a, b}>> \in P => Ordered(s, E, P)
    BY <2>1, <2>2, <2>3, <2>4 DEF Ordered
  <2> QED  BY <2>5 DEF s
<1> QED  BY <1>2, <1>4, <1>5, <1>6, <1>7, <1>8, <1>9, <1>10

\* The same of three, for a prover that is told its facts.
LEMMA Triple ==
    ASSUME NEW a \in Writes, NEW b \in Writes, NEW c \in Writes, NEW E, NEW P,
           <<a, E>> \in P, <<b, E \cup {a}>> \in P, <<c, E \cup {a, b}>> \in P
    PROVE  /\ <<a, b, c>> \in Seq(Writes) /\ Ran(<<a, b, c>>) = {a, b, c}
           /\ Ordered(<<a, b, c>>, E, P)
<1>1. Ordered(<<a, b, c>>, E, P)  BY Tuples
<1>2. <<a, b, c>> \in Seq(Writes)  OBVIOUS
<1>3. Ran(<<a, b, c>>) = {a, b, c}
  <2> DEFINE s == <<a, b, c>>
  <2>1. s[1] = a /\ s[2] = b /\ s[3] = c /\ DOMAIN s = {1, 2, 3}  OBVIOUS
  <2> HIDE DEF s
  <2>2. Ran(s) = {a, b, c}  BY <2>1 DEF Ran
  <2> QED  BY <2>2 DEF s
<1> QED  BY <1>1, <1>2, <1>3

\* Two plans one after the other.
LEMMA Joined ==
    ASSUME NEW s \in Seq(Writes), NEW t \in Seq(Writes), NEW E, NEW P
    PROVE  /\ s \o t \in Seq(Writes) /\ Ran(s \o t) = Ran(s) \cup Ran(t)
           /\ Ordered(s, E, P) /\ Ordered(t, E \cup Ran(s), P) => Ordered(s \o t, E, P)
<1> DEFINE r == s \o t
<1>1. /\ DOMAIN s = 1..Len(s) /\ DOMAIN t = 1..Len(t) /\ Len(s) \in Nat /\ Len(t) \in Nat
      /\ r \in Seq(Writes) /\ Len(r) = Len(s) + Len(t) /\ DOMAIN r = 1..Len(r)
      /\ \A i \in 1..Len(s) : r[i] = s[i]
      /\ \A i \in 1..Len(t) : r[Len(s) + i] = t[i]
  OBVIOUS
<1> HIDE DEF r
<1>2. ASSUME NEW i \in DOMAIN r, i > Len(s)
      PROVE  i - Len(s) \in DOMAIN t /\ r[i] = t[i - Len(s)]
  <2>1. i - Len(s) \in 1..Len(t) /\ Len(s) + (i - Len(s)) = i  BY <1>1, <1>2
  <2> QED  BY <2>1, <1>1
<1>3. Ran(r) = Ran(s) \cup Ran(t)
  <2>1. ASSUME NEW w \in Ran(r)  PROVE w \in Ran(s) \cup Ran(t)
    <3>1. PICK i \in DOMAIN r : w = r[i]  BY DEF Ran
    <3>2. CASE i <= Len(s)
      <4>1. i \in DOMAIN s  BY <1>1, <3>2
      <4> QED  BY <4>1, <3>1, <1>1 DEF Ran
    <3>3. CASE i > Len(s)  BY <3>1, <3>3, <1>2 DEF Ran
    <3> QED  BY <3>2, <3>3, <1>1
  <2>2. ASSUME NEW w \in Ran(s)  PROVE w \in Ran(r)
    <3>1. PICK i \in DOMAIN s : w = s[i]  BY DEF Ran
    <3>2. i \in DOMAIN r /\ r[i] = w  BY <3>1, <1>1
    <3> QED  BY <3>2 DEF Ran
  <2>3. ASSUME NEW w \in Ran(t)  PROVE w \in Ran(r)
    <3>1. PICK i \in DOMAIN t : w = t[i]  BY DEF Ran
    <3>2. Len(s) + i \in DOMAIN r /\ r[Len(s) + i] = w  BY <3>1, <1>1
    <3> QED  BY <3>2 DEF Ran
  <2> QED  BY <2>1, <2>2, <2>3
<1>4. ASSUME Ordered(s, E, P), Ordered(t, E \cup Ran(s), P), NEW i \in DOMAIN r
      PROVE  <<r[i], E \cup {r[k] : k \in 1..(i - 1)}>> \in P
  <2>1. CASE i <= Len(s)
    <3>1. i \in DOMAIN s /\ r[i] = s[i] /\ i \in Nat  BY <1>1, <2>1
    <3>2. \A k \in 1..(i - 1) : r[k] = s[k]  BY <1>1, <2>1
    <3>3. {r[k] : k \in 1..(i - 1)} = {s[k] : k \in 1..(i - 1)}  BY <3>2
    <3> QED  BY <3>1, <3>3, <1>4 DEF Ordered
  <2>2. CASE i > Len(s)
    <3> DEFINE j == i - Len(s)
    <3>1. j \in DOMAIN t /\ r[i] = t[j] /\ i \in Nat /\ j \in Nat  BY <1>1, <1>2, <2>2
    <3>2. {r[k] : k \in 1..(i - 1)} = Ran(s) \cup {t[k] : k \in 1..(j - 1)}
      <4>1. ASSUME NEW k \in 1..(i - 1)  PROVE r[k] \in Ran(s) \cup {t[m] : m \in 1..(j - 1)}
        <5>1. CASE k <= Len(s)
          <6>1. k \in DOMAIN s /\ r[k] = s[k]  BY <5>1, <1>1
          <6> QED  BY <6>1 DEF Ran
        <5>2. CASE k > Len(s)
          <6>1. k \in DOMAIN r /\ k - Len(s) \in 1..(j - 1)  BY <5>2, <1>1, <3>1
          <6> QED  BY <6>1, <5>2, <1>2
        <5> QED  BY <5>1, <5>2, <1>1
      <4>2. ASSUME NEW w \in Ran(s)  PROVE \E k \in 1..(i - 1) : w = r[k]
        <5>1. PICK k \in DOMAIN s : w = s[k]  BY DEF Ran
        <5>2. k \in 1..(i - 1) /\ r[k] = w  BY <5>1, <2>2, <1>1, <3>1
        <5> QED  BY <5>2
      <4>3. ASSUME NEW m \in 1..(j - 1)  PROVE \E k \in 1..(i - 1) : t[m] = r[k]
        <5>1. m \in 1..Len(t)  BY <1>1, <3>1
        <5>2. Len(s) + m \in 1..(i - 1) /\ r[Len(s) + m] = t[m]
          BY <5>1, <1>1, <3>1
        <5> QED  BY <5>2
      <4> QED  BY <4>1, <4>2, <4>3
    <3>3. <<t[j], (E \cup Ran(s)) \cup {t[k] : k \in 1..(j - 1)}>> \in P
      BY <3>1, <1>4 DEF Ordered
    <3>4. (E \cup Ran(s)) \cup {t[k] : k \in 1..(j - 1)} = E \cup {r[k] : k \in 1..(i - 1)}
      BY <3>2
    <3> QED  BY <3>1, <3>3, <3>4
  <2> QED  BY <2>1, <2>2, <1>1
<1>5. Ordered(s, E, P) /\ Ordered(t, E \cup Ran(s), P) => Ordered(r, E, P)
  BY <1>4 DEF Ordered
<1> QED  BY <1>1, <1>3, <1>5 DEF r

\* A pair of a write and the writes it may follow.
LEMMA Sounds ==
    \A w \in Writes, E \in SUBSET Writes : <<w, E>> \in Sound' <=> Safe(w, E)'
<1> SUFFICES ASSUME NEW w \in Writes, NEW E \in SUBSET Writes
             PROVE  <<w, E>> \in Sound' <=> Safe(w, E)'
  OBVIOUS
<1>1. <<w, E>> \in Writes \X SUBSET Writes /\ <<w, E>>[1] = w /\ <<w, E>>[2] = E  OBVIOUS
<1> QED  BY <1>1 DEF Sound

\* A process reads and makes a plan.
Plans(p) ==
    /\ MemInv /\ phase # "idle" /\ plan = <<>>
    /\ phase' = p /\ p \in Later \cup {"scan"}
    /\ UNCHANGED <<disk, outcome, edits>>

\* A step that only makes a plan keeps the invariant, if each of its writes is
\* safe after those before it and it owes the disk nothing.
LEMMA PlanKeeps ==
    ASSUME NEW p, Plans(p), new' \in Contents,
           plan' \in Seq(Writes), Ordered(plan', {}, Sound'),
           p \in {"operate", "finish"} => ~Stranded,
           Together', Owed'
    PROVE  MemInv'
<1>1. /\ MemoryShape /\ Images /\ Heads /\ LedgerTruthful
      /\ file' = file /\ action' = action /\ head' = head /\ ledger' = ledger
      /\ edits' = edits /\ phase' = p /\ p \in Phases \ {"idle"}
  BY DEF Plans, MemInv, disk, Later, Phases
<1>2. MemoryShape'  BY <1>1 DEF MemoryShape
<1>3. Images' /\ LedgerTruthful'  BY <1>1 DEF Images, LedgerTruthful, State, Bodies
<1>4. Heads'
  BY <1>1 DEF Heads, State, Stranded, Pending, InState
<1>5. PlanSafe'
  <2> SUFFICES ASSUME NEW i \in DOMAIN plan', NEW w \in {plan'[i]}, NEW E \in {Earlier(i)'}
               PROVE  Safe(w, E)'
    BY DEF PlanSafe
  <2>1. <<plan'[i], {} \cup {plan'[k] : k \in 1..(i - 1)}>> \in Sound'  BY DEF Ordered
  <2>2. Earlier(i)' = {} \cup {plan'[k] : k \in 1..(i - 1)}  BY DEF Earlier
  <2>3. <<w, E>> \in Sound'  BY <2>1, <2>2
  <2>4. w \in Writes /\ E \in SUBSET Writes
    <3>1. DOMAIN plan' = 1..Len(plan') /\ Len(plan') \in Nat /\ \A k \in DOMAIN plan' : plan'[k] \in Writes
      OBVIOUS
    <3>2. 1..(i - 1) \subseteq DOMAIN plan'  BY <3>1
    <3> QED  BY <3>1, <3>2 DEF Earlier
  <2> QED  BY <2>3, <2>4, Sounds
<1>6. BodiesOfHead'  BY <1>1 DEF BodiesOfHead
<1> QED  BY <1>2, <1>3, <1>4, <1>5, <1>6 DEF MemInv

\* Joined, with its parts named.
LEMMA Joins ==
    ASSUME NEW s \in Seq(Writes), NEW t \in Seq(Writes), NEW E, NEW G, NEW P, NEW r,
           r = s \o t, G = E \cup Ran(s), Ordered(s, E, P), Ordered(t, G, P)
    PROVE  r \in Seq(Writes) /\ Ran(r) = Ran(s) \cup Ran(t) /\ Ordered(r, E, P)
<1>1. s \o t \in Seq(Writes) /\ Ran(s \o t) = Ran(s) \cup Ran(t)  BY Joined
<1>2. Ordered(s \o t, E, P)  BY Joined
<1> QED  BY <1>1, <1>2

\* Three plans one after the other.
LEMMA JoinsThree ==
    ASSUME NEW s \in Seq(Writes), NEW t \in Seq(Writes), NEW q \in Seq(Writes), NEW E, NEW P,
           Ordered(s, E, P), Ordered(t, E \cup Ran(s), P),
           Ordered(q, E \cup (Ran(s) \cup Ran(t)), P)
    PROVE  /\ (s \o t) \o q \in Seq(Writes)
           /\ Ran((s \o t) \o q) = (Ran(s) \cup Ran(t)) \cup Ran(q)
           /\ Ordered((s \o t) \o q, E, P)
<1> DEFINE d == s \o t
<1>1. d \in Seq(Writes) /\ Ran(d) = Ran(s) \cup Ran(t)
  BY Joined
<1>2. Ordered(d, E, P)  BY Joined
<1> HIDE DEF d
<1>3. Ordered(q, E \cup Ran(d), P)
  BY <1>1
<1>4. d \o q \in Seq(Writes) /\ Ran(d \o q) = Ran(d) \cup Ran(q)
  BY ONLY <1>1, Joined
<1>5. Ordered(d \o q, E, P)
  BY ONLY <1>1, <1>2, <1>3, Joined
<1> QED  BY ONLY <1>1, <1>4, <1>5 DEF d

\* What is said of the writes before one splits with them.
LEMMA OnlyJoin ==
    ASSUME NEW E, NEW G, NEW w
    PROVE  /\ \A do, only : Only(E \cup G, do, only) <=> Only(E, do, only) /\ Only(G, do, only)
           /\ \A do, x : OnlyOf(E \cup G, do, x) <=> OnlyOf(E, do, x) /\ OnlyOf(G, do, x)
           /\ \A do, only : Only({}, do, only) /\ OnlyOf({}, do, only)
           /\ \A do, only : w.do # do => Only({w}, do, only) /\ OnlyOf({w}, do, only)
           /\ \A do, only : w \in only => Only({w}, do, only)
           /\ \A do, x : w.id = x => OnlyOf({w}, do, x)
  BY DEF Only, OnlyOf

\* The disk a plan is made from is the one it is done to.
LEMMA Planned ==
    ASSUME NEW p, Plans(p)
    PROVE  /\ MemoryShape /\ Heads /\ phase' = p /\ Owed /\ Images /\ Todo = {}
           /\ file' = file /\ action' = action /\ head' = head /\ ledger' = ledger
           /\ action \in [Ids -> Actions] /\ file \in Contents /\ head \in Ids \cup {NoId}
           /\ Pending' = Pending /\ Stranded' = Stranded
           /\ \A x \in Ids : /\ State(x)' = State(x) /\ Bodies(x)' = Bodies(x)
                             /\ Before(x)' = Before(x) /\ After(x)' = After(x)
                             /\ Known(x)' = Known(x)
<1>1. /\ MemoryShape /\ Heads /\ phase' = p /\ Owed /\ Images /\ plan = <<>>
      /\ file' = file /\ action' = action /\ head' = head /\ ledger' = ledger
  BY DEF Plans, MemInv, disk
<1>2. Todo = {}  BY <1>1 DEF Todo
<1>3. /\ Pending' = Pending /\ Stranded' = Stranded
      /\ \A x \in Ids : /\ State(x)' = State(x) /\ Bodies(x)' = Bodies(x)
                        /\ Before(x)' = Before(x) /\ After(x)' = After(x)
                        /\ Known(x)' = Known(x)
  BY <1>1 DEF Pending, InState, Stranded, State, Bodies, Before, After, Known
<1> QED  BY <1>1, <1>2, <1>3 DEF MemoryShape

\* The writes of a plan are writes.
LEMMA Typed ==
    ASSUME NEW x \in Ids, NEW t \in Targets
    PROVE  /\ \A do \in {"mkdir", "head", "rmdir"} : Write(do, x, "") \in Writes
           /\ Write("head", NoId, "") \in Writes
           /\ \A do \in {"preimage", "apply", "restore", "purge"} : Write(do, x, t) \in Writes
           /\ \A s \in States : Manifest(x, s) \in Writes
           /\ \A side \in {"before", "after"} : Write("verify", x, side) \in Writes
           /\ \A e \in Events : Write("event", x, e) \in Writes
  BY DEF Write, Manifest, Writes, Kinds

\* The plan of Purge, after the writes of E.
LEMMA PurgePlan ==
    ASSUME NEW p, Plans(p), NEW x \in Ids, NEW E \in SUBSET Writes, Only(E, "rmdir", {}),
           \/ State(x) \in Closed
           \/ State(x) = "unprepared" /\ p = "scan"
           \/ \E s \in Closing : Manifest(x, s) \in E
    PROVE  /\ Purge(x) \in Seq(Writes) /\ Ordered(Purge(x), E, Sound')
           /\ Ran(Purge(x)) = {Write("purge", x, t) : t \in Targets}
<1> DEFINE a == Write("purge", x, TARGETS[1])  b == Write("purge", x, TARGETS[2])
<1>1. Purge(x) = <<a, b>>  BY TwoTargets DEF Purge
<1>2. a \in Writes /\ b \in Writes /\ E \cup {a} \in SUBSET Writes
  BY Typed, TwoTargets
<1>3. /\ a.do = "purge" /\ a.id = x /\ a.arg \in Targets
      /\ b.do = "purge" /\ b.id = x /\ b.arg \in Targets
  BY Fields, TwoTargets
<1>4. {Write("purge", x, t) : t \in Targets} = {a, b}  BY TwoTargets
<1> HIDE DEF a, b
<1>5. SafePurge(x, E)' /\ SafePurge(x, E \cup {a})'
  BY <1>3, Planned, OnlyJoin DEF SafePurge
<1>6. Safe(a, E)' /\ Safe(b, E \cup {a})'  BY <1>3, <1>5 DEF Safe
<1>7. <<a, E>> \in Sound' /\ <<b, E \cup {a}>> \in Sound'  BY <1>2, <1>6, Sounds
<1>8. <<a, b>> \in Seq(Writes) /\ Ran(<<a, b>>) = {a, b} /\ Ordered(<<a, b>>, E, Sound')
  BY <1>2, <1>7, Tuples
<1> QED  BY <1>1, <1>4, <1>8

\* The plan of Restore.
LEMMA RestorePlan ==
    ASSUME NEW p, Plans(p), NEW x \in Ids, NEW E \in SUBSET Writes,
           (x \in Pending /\ Known(x)) \/ (Manifest(x, "undoing") \in E /\ After(x)),
           Only(E, "head", {}), Only(E, "apply", {}), OnlyOf(E, "restore", x),
           Only(E, "manifest", {Manifest(x, "undoing")})
    PROVE  /\ Restore(x) \in Seq(Writes) /\ Ordered(Restore(x), E, Sound')
           /\ Ran(Restore(x)) = {Write("restore", x, TARGETS[1]), Write("restore", x, TARGETS[2]),
                                 Write("verify", x, "before")}
<1> DEFINE a == Write("restore", x, TARGETS[1])  b == Write("restore", x, TARGETS[2])
           c == Write("verify", x, "before")
<1>1. Restore(x) = <<a, b>> \o <<c>>
  BY TwoTargets DEF Restore
<1>2. a \in Writes /\ b \in Writes /\ c \in Writes /\ E \cup {a} \in SUBSET Writes
      /\ E \cup {a, b} \in SUBSET Writes
  BY Typed, TwoTargets
<1>3. /\ a.do = "restore" /\ a.id = x /\ a.arg \in Targets
      /\ b.do = "restore" /\ b.id = x /\ b.arg \in Targets
      /\ c.do = "verify" /\ c.id = x /\ c.arg = "before"
  BY Fields, TwoTargets
<1> HIDE DEF a, b, c
<1>4. SafeRestore(x, E)' /\ SafeRestore(x, E \cup {a})'
  <2>1. /\ Only({a}, "head", {}) /\ Only({a}, "apply", {}) /\ OnlyOf({a}, "restore", x)
        /\ Only({a}, "manifest", {Manifest(x, "undoing")})
    BY <1>3 DEF Only, OnlyOf
  <2> QED  BY <2>1, Planned, OnlyJoin DEF SafeRestore
<1>5. Safe(a, E)' /\ Safe(b, E \cup {a})' /\ Safe(c, E \cup {a, b})'
  BY <1>3, <1>4 DEF Safe
<1>6. <<a, E>> \in Sound' /\ <<b, E \cup {a}>> \in Sound' /\ <<c, E \cup {a, b}>> \in Sound'
  BY <1>2, <1>5, Sounds
<1>7. /\ <<a, b>> \in Seq(Writes) /\ Ran(<<a, b>>) = {a, b} /\ Ordered(<<a, b>>, E, Sound')
      /\ <<c>> \in Seq(Writes) /\ Ran(<<c>>) = {c} /\ Ordered(<<c>>, E \cup {a, b}, Sound')
  <2> PICK e \in SUBSET Writes : e = E \cup {a, b}  BY <1>2
  <2>1. /\ <<a, b>> \in Seq(Writes) /\ Ran(<<a, b>>) = {a, b} /\ Ordered(<<a, b>>, E, Sound')
    BY <1>2, <1>6, Tuples
  <2>2. /\ <<c>> \in Seq(Writes) /\ Ran(<<c>>) = {c} /\ Ordered(<<c>>, e, Sound')
    BY <1>2, <1>6, Tuples
  <2> QED  BY <2>1, <2>2
<1>8. /\ Restore(x) \in Seq(Writes) /\ Ordered(Restore(x), E, Sound')
      /\ Ran(Restore(x)) = {a, b} \cup {c}
  <2> DEFINE r == <<a, b>>  q == <<c>>
  <2>1. /\ r \in Seq(Writes) /\ Ran(r) = {a, b} /\ Ordered(r, E, Sound')
        /\ q \in Seq(Writes) /\ Ran(q) = {c} /\ Ordered(q, E \cup {a, b}, Sound')
        /\ Restore(x) = r \o q
    BY <1>1, <1>7
  <2> HIDE DEF r, q
  <2>2. E \cup {a, b} = E \cup Ran(r)  BY <2>1
  <2>3. Restore(x) \in Seq(Writes) /\ Ran(Restore(x)) = Ran(r) \cup Ran(q) /\ Ordered(Restore(x), E, Sound')
    BY ONLY <2>1, <2>2, Joins
  <2> QED  BY <2>1, <2>3
<1> QED  BY <1>8 DEF a, b, c

\* The plan of Forward.
LEMMA ForwardPlan ==
    ASSUME NEW p, Plans(p), p \in {"settle", "finish"}, NEW x \in Ids, NEW E \in SUBSET Writes,
           (After(x) /\ State(x) = "prepared") \/ Write("verify", x, "after") \in E,
           State(x) = "prepared" \/ Manifest(x, "prepared") \in E,
           Only(E, "head", {}), Only(E, "restore", {}), OnlyOf(E, "apply", x),
           Only(E, "manifest", {Manifest(x, "prepared")})
    PROVE  /\ Forward(x) \in Seq(Writes) /\ Ordered(Forward(x), E, Sound')
           /\ Ran(Forward(x)) = {Write("head", x, ""), Manifest(x, "committed"),
                                 Write("event", x, "commit")}
<1> DEFINE a == Write("head", x, "")  b == Manifest(x, "committed")
           c == Write("event", x, "commit")
<1>1. Forward(x) = <<a, b, c>>  BY DEF Forward, Manifest
<1>2. a \in Writes /\ b \in Writes /\ c \in Writes /\ E \cup {a} \in SUBSET Writes
      /\ E \cup {a, b} \in SUBSET Writes
  BY Typed, TwoTargets DEF States, Events
<1>3. /\ a.do = "head" /\ a.id = x /\ a.arg = ""
      /\ b.do = "manifest" /\ b.id = x /\ b.arg = "committed"
      /\ c.do = "event" /\ c.id = x /\ c.arg = "commit"
  BY DEF Manifest, Write
<1>4. x # NoId  BY MemoryAssumption
<1>5. SafeHead(x, E)'
  BY Planned DEF SafeHead
<1>6. SafeCommitted(x, E \cup {a})'
  <2>1. /\ Only({a}, "head", {a}) /\ Only({a}, "manifest", {Manifest(x, "prepared")})
        /\ Only(E, "head", {a})
    BY <1>3 DEF Only
  <2>2. /\ Only(E \cup {a}, "head", {a}) /\ Only(E \cup {a}, "manifest", {Manifest(x, "prepared")})
    BY <2>1, OnlyJoin
  <2> QED  BY <2>2, Planned DEF SafeCommitted
<1>7. SafeCommitEvent(x, E \cup {a, b})'
  <2> DEFINE both == {Manifest(x, "prepared"), b}
  <2>1. Only({a, b}, "manifest", both) /\ Only(E, "manifest", both)
    BY <1>3 DEF Only
  <2>2. Only(E \cup {a, b}, "manifest", both)  BY <2>1, OnlyJoin
  <2> QED  BY <2>2 DEF SafeCommitEvent
<1> HIDE DEF a, b, c
<1>8. SafeManifest(x, "committed", E \cup {a})'
  BY <1>6 DEF SafeManifest, Closing
<1>9. Safe(a, E)' /\ Safe(b, E \cup {a})' /\ Safe(c, E \cup {a, b})'
  BY <1>3, <1>4, <1>5, <1>7, <1>8 DEF Safe, Events
<1>10. <<a, E>> \in Sound' /\ <<b, E \cup {a}>> \in Sound' /\ <<c, E \cup {a, b}>> \in Sound'
  BY <1>2, <1>9, Sounds
<1>11. /\ <<a, b, c>> \in Seq(Writes) /\ Ran(<<a, b, c>>) = {a, b, c}
       /\ Ordered(<<a, b, c>>, E, Sound')
  BY <1>2, <1>10, Triple
<1> QED  BY <1>1, <1>11 DEF a, b, c

\* The plan of Supersede.
LEMMA SupersedePlan ==
    ASSUME NEW p, Plans(p), NEW x \in Ids, NEW E \in SUBSET Writes, Only(E, "rmdir", {}),
           State(x) = "committed" =>
               /\ <<x, "commit">> \in ledger
               /\ x # head \/ \E y \in Ids \ {x} : Write("head", y, "") \in E
               /\ \A e \in E : e.do \in {"head", "manifest"} => e.id # x
    PROVE  /\ Supersede(x) \in Seq(Writes) /\ Ordered(Supersede(x), E, Sound')
           /\ State(x) = "committed" =>
                 Ran(Supersede(x)) = {Write("event", x, "supersede"), Manifest(x, "superseded")}
                                         \cup {Write("purge", x, t) : t \in Targets}
           /\ State(x) = "superseded" =>
                 Ran(Supersede(x)) = {Write("purge", x, t) : t \in Targets}
           /\ State(x) \notin {"committed", "superseded"} => Ran(Supersede(x)) = {}
<1>1. CASE State(x) = "committed"
  <2> DEFINE a == Write("event", x, "supersede")  b == Manifest(x, "superseded")
  <2>1. Supersede(x) = <<a, b>> \o Purge(x)
    BY <1>1 DEF Supersede, InState, State, Manifest
  <2>2. a \in Writes /\ b \in Writes /\ E \cup {a} \in SUBSET Writes
        /\ E \cup {a, b} \in SUBSET Writes
    BY Typed, TwoTargets DEF States, Events
  <2>3. /\ a.do = "event" /\ a.id = x /\ a.arg = "supersede"
        /\ b.do = "manifest" /\ b.id = x /\ b.arg = "superseded"
    BY DEF Manifest, Write
  <2>4. SafeSuperseded(x, E \cup {a})'
    <3>1. \A e \in E \cup {a} : e.do \in {"head", "manifest"} => e.id # x
      BY <1>1, <2>3
    <3> QED  BY <3>1, <1>1, Planned DEF SafeSuperseded
  <2>5. SafeManifest(x, "superseded", E \cup {a})'  BY <2>4 DEF SafeManifest, Closing
  <2>6. Only(E \cup {a, b}, "rmdir", {}) /\ \E s \in Closing : Manifest(x, s) \in E \cup {a, b}
    <3>1. Only({a, b}, "rmdir", {})  BY <2>3 DEF Only
    <3> QED  BY <3>1, OnlyJoin DEF Closing
  <2> HIDE DEF a, b
  <2>7. Safe(a, E)' /\ Safe(b, E \cup {a})'  BY <2>3, <2>5 DEF Safe, Events
  <2>8. <<a, E>> \in Sound' /\ <<b, E \cup {a}>> \in Sound'  BY <2>2, <2>7, Sounds
  <2>9. /\ <<a, b>> \in Seq(Writes) /\ Ran(<<a, b>>) = {a, b} /\ Ordered(<<a, b>>, E, Sound')
    BY <2>2, <2>8, Tuples
  <2>10. /\ Purge(x) \in Seq(Writes) /\ Ordered(Purge(x), E \cup {a, b}, Sound')
         /\ Ran(Purge(x)) = {Write("purge", x, t) : t \in Targets}
    BY <2>2, <2>6, PurgePlan
  <2>11. /\ Supersede(x) \in Seq(Writes) /\ Ordered(Supersede(x), E, Sound')
         /\ Ran(Supersede(x)) = {a, b} \cup {Write("purge", x, t) : t \in Targets}
    <3> DEFINE r == <<a, b>>  q == Purge(x)
    <3>1. /\ r \in Seq(Writes) /\ Ran(r) = {a, b} /\ Ordered(r, E, Sound')
          /\ q \in Seq(Writes) /\ Ran(q) = {Write("purge", x, t) : t \in Targets}
          /\ Ordered(q, E \cup {a, b}, Sound') /\ Supersede(x) = r \o q
      BY <2>1, <2>9, <2>10
    <3> HIDE DEF r, q
    <3>2. E \cup {a, b} = E \cup Ran(r)  BY <3>1
    <3>3. /\ Supersede(x) \in Seq(Writes) /\ Ran(Supersede(x)) = Ran(r) \cup Ran(q)
          /\ Ordered(Supersede(x), E, Sound')
      BY ONLY <3>1, <3>2, Joins
    <3> QED  BY <3>1, <3>3
  <2> QED  BY <1>1, <2>11 DEF a, b
<1>2. CASE State(x) = "superseded"
  <2>1. Supersede(x) = Purge(x)
    BY <1>2 DEF Supersede, InState, State
  <2> QED  BY <1>2, <2>1, PurgePlan DEF Closed
<1>3. CASE State(x) \notin {"committed", "superseded"}
  <2>1. Supersede(x) = <<>>
    BY <1>3 DEF Supersede, InState, State
  <2>2. PICK w \in Writes : TRUE  BY Typed, TwoTargets
  <2>3. <<>> \in Seq(Writes) /\ Ran(<<>>) = {} /\ Ordered(<<>>, E, Sound')
    BY <2>2, Tuples
  <2> QED  BY <1>3, <2>1, <2>3
<1> QED  BY <1>1, <1>2, <1>3

\* The common tail of rollback and of the recovery of an interrupted one.
LEMMA UndoPlan ==
    ASSUME NEW p, Plans(p), NEW x \in Ids, NEW E \in SUBSET {Manifest(x, "undoing")},
           (State(x) = "undoing" /\ Known(x)) \/ (E # {} /\ After(x)),
           <<x, "commit">> \in ledger
    PROVE  /\ Undo(x) \in Seq(Writes) /\ Ordered(Undo(x), E, Sound')
           /\ Ran(Undo(x)) = {Write("restore", x, TARGETS[1]), Write("restore", x, TARGETS[2]),
                              Write("verify", x, "before"), Write("head", NoId, ""),
                              Write("event", x, "rollback"), Manifest(x, "rolled_back")}
                                \cup {Write("purge", x, t) : t \in Targets}
<1> DEFINE m == Manifest(x, "undoing")
           r1 == Write("restore", x, TARGETS[1])  r2 == Write("restore", x, TARGETS[2])
           v == Write("verify", x, "before")
           a == Write("head", NoId, "")  b == Write("event", x, "rollback")
           c == Manifest(x, "rolled_back")
           R == {r1, r2, v}  G == E \cup R
           first == Restore(x)  middle == <<a, b, c>>  last == Purge(x)
<1>1. Undo(x) = (first \o middle) \o last  BY DEF Undo, Manifest
<1>2. /\ a \in Writes /\ b \in Writes /\ c \in Writes /\ m \in Writes /\ R \subseteq Writes
      /\ E \in SUBSET Writes
  BY Typed, TwoTargets DEF States, Events
<1>3. /\ m.do = "manifest" /\ m.id = x /\ m.arg = "undoing"
      /\ r1.do = "restore" /\ r1.id = x /\ r2.do = "restore" /\ r2.id = x
      /\ v.do = "verify" /\ v.id = x
      /\ a.do = "head" /\ a.id = NoId /\ a.arg = ""
      /\ b.do = "event" /\ b.id = x /\ b.arg = "rollback"
      /\ c.do = "manifest" /\ c.id = x /\ c.arg = "rolled_back"
  BY DEF Manifest, Write
<1>4. E = {} \/ E = {m}  OBVIOUS
<1>5. /\ Only(E, "manifest", {m})
      /\ \A do \in Kinds \ {"manifest"} : Only(E, do, {}) /\ OnlyOf(E, do, x)
  BY <1>3, <1>4 DEF Only, OnlyOf
<1>6. /\ first \in Seq(Writes) /\ Ordered(first, E, Sound') /\ Ran(first) = R
  <2>1. (x \in Pending /\ Known(x)) \/ (m \in E /\ After(x))
    BY <1>4 DEF Pending, InState, State
  <2>2. Only(E, "head", {}) /\ Only(E, "apply", {}) /\ OnlyOf(E, "restore", x)
    BY <1>5 DEF Kinds
  <2> QED  BY <2>1, <2>2, <1>2, <1>5, RestorePlan
<1>7. /\ Only(G, "manifest", {m}) /\ Only(G, "head", {}) /\ Only(G, "apply", {})
      /\ OnlyOf(G, "restore", x) /\ G \in SUBSET Writes /\ Only(G, "rmdir", {})
  BY <1>2, <1>3, <1>4 DEF Only, OnlyOf
<1>8. State(x) = "undoing" \/ m \in G  BY <1>4
<1>9. SafeNoHead(G)'
  BY <1>7, <1>8, Planned DEF SafeNoHead
<1>10. SafeRolledBack(x, G \cup {a, b})'
  <2> SUFFICES ASSUME NEW H, H = G \cup {a, b}  PROVE SafeRolledBack(x, H)'
    OBVIOUS
  <2>1. /\ Only(H, "manifest", {m}) /\ Only(H, "head", {a}) /\ Only(H, "apply", {})
        /\ OnlyOf(H, "restore", x)
    BY <1>3, <1>7 DEF Only, OnlyOf
  <2>2. v \in H /\ a \in H /\ b \in H /\ (State(x) = "undoing" \/ m \in H)  BY <1>8
  <2>3. SafeRestored(x, H)'  BY <2>1, <2>2 DEF SafeRestored
  <2>4. State(x)' = State(x) /\ ledger' = ledger  BY Planned
  <2>5. <<x, "commit">> \in ledger'  BY <2>4
  <2> HIDE DEF m, a, b
  <2>6. /\ State(x)' = "undoing" \/ m \in H
        /\ head' = NoId \/ a \in H
        /\ <<x, "rollback">> \in ledger' \/ b \in H
    BY <2>2, <2>4
  <2> QED  BY <2>1, <2>3, <2>5, <2>6 DEF SafeRolledBack, m, a, b
<1>11. Safe(a, G)' /\ Safe(b, G \cup {a})' /\ Safe(c, G \cup {a, b})'
  <2>1. SafeManifest(x, "rolled_back", G \cup {a, b})'
    BY <1>10 DEF SafeManifest, Closing
  <2> HIDE DEF a, b, c, G
  <2> QED  BY <2>1, <1>3, <1>9 DEF Safe, Events
<1>12. <<a, G>> \in Sound' /\ <<b, G \cup {a}>> \in Sound' /\ <<c, G \cup {a, b}>> \in Sound'
  <2>1. G \cup {a} \in SUBSET Writes /\ G \cup {a, b} \in SUBSET Writes  BY <1>2, <1>7
  <2> HIDE DEF a, b, c, G
  <2> QED  BY <2>1, <1>2, <1>7, <1>11, Sounds
<1>13. middle \in Seq(Writes) /\ Ran(middle) = {a, b, c} /\ Ordered(middle, G, Sound')
  <2> HIDE DEF a, b, c, G
  <2> QED  BY <1>2, <1>12, Triple
<1> DEFINE H == G \cup {a, b, c}
<1>14. /\ last \in Seq(Writes) /\ Ran(last) = {Write("purge", x, t) : t \in Targets}
       /\ Ordered(last, H, Sound')
  <2>1. Only(H, "rmdir", {}) /\ c \in H
    BY <1>3, <1>7 DEF Only
  <2>2. \E s \in Closing : Manifest(x, s) \in H  BY <2>1 DEF Closing
  <2>3. H \in SUBSET Writes  BY <1>2, <1>7
  <2> HIDE DEF H
  <2> QED  BY <2>1, <2>2, <2>3, PurgePlan
<1>15. G = E \cup Ran(first) /\ H = G \cup Ran(middle)  BY <1>6, <1>13
<1> HIDE DEF first, middle, last, G, H
<1>16. /\ Undo(x) \in Seq(Writes) /\ Ran(Undo(x)) = (Ran(first) \cup Ran(middle)) \cup Ran(last)
       /\ Ordered(Undo(x), E, Sound')
  <2>1. /\ first \in Seq(Writes) /\ middle \in Seq(Writes) /\ last \in Seq(Writes)
        /\ Ordered(first, E, Sound') /\ Ordered(middle, G, Sound') /\ Ordered(last, H, Sound')
    BY <1>6, <1>13, <1>14
  <2>2. PICK s \in Seq(Writes), d \in Seq(Writes), q \in Seq(Writes) :
            s = first /\ d = middle /\ q = last
    BY <2>1
  <2>3. PICK e, g, h, P : e = E /\ g = G /\ h = H /\ P = Sound'
    OBVIOUS
  <2>4. Undo(x) = (s \o d) \o q  BY <1>1, <2>2
  <2>5. Ordered(s, e, P) /\ Ordered(d, g, P) /\ Ordered(q, h, P)  BY <2>1, <2>2, <2>3
  <2>6. Ordered(d, e \cup Ran(s), P)
    <3>1. g = e \cup Ran(s)  BY <1>15, <2>2, <2>3
    <3> QED  BY <3>1, <2>5
  <2>7. Ordered(q, e \cup (Ran(s) \cup Ran(d)), P)
    <3>1. h = e \cup (Ran(s) \cup Ran(d))  BY <1>15, <2>2, <2>3
    <3> QED  BY <3>1, <2>5
  <2>8. /\ (s \o d) \o q \in Seq(Writes)
        /\ Ran((s \o d) \o q) = (Ran(s) \cup Ran(d)) \cup Ran(q)
        /\ Ordered((s \o d) \o q, e, P)
    BY ONLY <2>5, <2>6, <2>7, JoinsThree
  <2> QED  BY <2>2, <2>3, <2>4, <2>8
<1>17. Ran(Undo(x)) = (R \cup {a, b, c}) \cup {Write("purge", x, t) : t \in Targets}
  BY <1>6, <1>13, <1>14, <1>16
<1> QED  BY <1>16, <1>17

\* The plan of Abort, which is the first of its recovery.
LEMMA AbortPlan ==
    ASSUME NEW p, Plans(p), NEW x \in Ids, p = "settle", State(x) = "prepared", Known(x)
    PROVE  /\ Abort(x) \in Seq(Writes) /\ Ordered(Abort(x), {}, Sound')
           /\ Ran(Abort(x)) = {Write("restore", x, TARGETS[1]), Write("restore", x, TARGETS[2]),
                               Write("verify", x, "before"), Write("event", x, "abort"),
                               Manifest(x, "aborted")}
                                \cup {Write("purge", x, t) : t \in Targets}
<1> DEFINE r1 == Write("restore", x, TARGETS[1])  r2 == Write("restore", x, TARGETS[2])
           v == Write("verify", x, "before")
           b == Write("event", x, "abort")  c == Manifest(x, "aborted")
           R == {r1, r2, v}
           first == Restore(x)  middle == <<b, c>>  last == Purge(x)
<1>1. Abort(x) = (first \o middle) \o last  BY DEF Abort, Manifest
<1>2. b \in Writes /\ c \in Writes /\ R \in SUBSET Writes
  BY Typed, TwoTargets DEF States, Events
<1>3. /\ r1.do = "restore" /\ r1.id = x /\ r2.do = "restore" /\ r2.id = x
      /\ v.do = "verify" /\ v.id = x
      /\ b.do = "event" /\ b.id = x /\ b.arg = "abort"
      /\ c.do = "manifest" /\ c.id = x /\ c.arg = "aborted"
  BY DEF Manifest, Write
<1>4. /\ first \in Seq(Writes) /\ Ordered(first, {}, Sound') /\ Ran(first) = R
  <2>1. x \in Pending /\ {} \in SUBSET Writes  BY DEF Pending, InState, State
  <2>2. /\ Only({}, "head", {}) /\ Only({}, "apply", {}) /\ OnlyOf({}, "restore", x)
        /\ Only({}, "manifest", {Manifest(x, "undoing")})
    BY DEF Only, OnlyOf
  <2> QED  BY <2>1, <2>2, RestorePlan
<1>5. SafeAborted(x, R \cup {b})'
  <2> SUFFICES ASSUME NEW H, H = R \cup {b}  PROVE SafeAborted(x, H)'
    OBVIOUS
  <2>1. /\ Only(H, "manifest", {}) /\ Only(H, "head", {}) /\ Only(H, "apply", {})
        /\ OnlyOf(H, "restore", x)
    BY <1>3 DEF Only, OnlyOf
  <2>2. v \in H /\ b \in H  OBVIOUS
  <2>3. SafeRestored(x, H)'  BY <2>1, <2>2 DEF SafeRestored
  <2>4. State(x)' = "prepared" /\ phase' = "settle"  BY Planned
  <2> QED  BY <2>1, <2>2, <2>3, <2>4 DEF SafeAborted
<1>6. Safe(b, R)' /\ Safe(c, R \cup {b})'
  <2>1. SafeManifest(x, "aborted", R \cup {b})'
    BY <1>5 DEF SafeManifest, Closing
  <2> HIDE DEF b, c, R
  <2> QED  BY <2>1, <1>3 DEF Safe, Events
<1>7. <<b, R>> \in Sound' /\ <<c, R \cup {b}>> \in Sound'
  <2>1. R \cup {b} \in SUBSET Writes  BY <1>2
  <2> HIDE DEF b, c, R
  <2> QED  BY <2>1, <1>2, <1>6, Sounds
<1>8. middle \in Seq(Writes) /\ Ran(middle) = {b, c} /\ Ordered(middle, R, Sound')
  <2> HIDE DEF b, c, R
  <2> QED  BY <1>2, <1>7, Tuples
<1> DEFINE H == R \cup {b, c}
<1>9. /\ last \in Seq(Writes) /\ Ran(last) = {Write("purge", x, t) : t \in Targets}
      /\ Ordered(last, H, Sound')
  <2>1. Only(H, "rmdir", {}) /\ c \in H
    BY <1>3 DEF Only
  <2>2. \E s \in Closing : Manifest(x, s) \in H  BY <2>1 DEF Closing
  <2>3. H \in SUBSET Writes  BY <1>2
  <2> HIDE DEF H
  <2> QED  BY <2>1, <2>2, <2>3, PurgePlan
<1> DEFINE none == {}
<1>10. R = none \cup Ran(first) /\ H = R \cup Ran(middle) /\ Ordered(first, none, Sound')
  BY <1>4, <1>8
<1> HIDE DEF first, middle, last, R, H, none
<1>11. /\ Abort(x) \in Seq(Writes)
       /\ Ran(Abort(x)) = (Ran(first) \cup Ran(middle)) \cup Ran(last)
       /\ Ordered(Abort(x), none, Sound')
  <2>1. /\ first \in Seq(Writes) /\ middle \in Seq(Writes) /\ last \in Seq(Writes)
        /\ Ordered(first, none, Sound') /\ Ordered(middle, R, Sound') /\ Ordered(last, H, Sound')
    BY <1>4, <1>8, <1>9, <1>10
  <2>2. PICK s \in Seq(Writes), d \in Seq(Writes), q \in Seq(Writes) :
            s = first /\ d = middle /\ q = last
    BY <2>1
  <2>3. PICK e, g, h, P : e = none /\ g = R /\ h = H /\ P = Sound'
    OBVIOUS
  <2>4. Abort(x) = (s \o d) \o q  BY <1>1, <2>2
  <2>5. Ordered(s, e, P) /\ Ordered(d, g, P) /\ Ordered(q, h, P)  BY <2>1, <2>2, <2>3
  <2>6. Ordered(d, e \cup Ran(s), P)
    <3>1. g = e \cup Ran(s)  BY <1>10, <2>2, <2>3
    <3> QED  BY <3>1, <2>5
  <2>7. Ordered(q, e \cup (Ran(s) \cup Ran(d)), P)
    <3>1. h = e \cup (Ran(s) \cup Ran(d))  BY <1>10, <2>2, <2>3
    <3> QED  BY <3>1, <2>5
  <2>8. /\ (s \o d) \o q \in Seq(Writes)
        /\ Ran((s \o d) \o q) = (Ran(s) \cup Ran(d)) \cup Ran(q)
        /\ Ordered((s \o d) \o q, e, P)
    BY ONLY <2>5, <2>6, <2>7, JoinsThree
  <2> QED  BY <2>2, <2>3, <2>4, <2>8
<1>12. Ran(Abort(x)) = (R \cup {b, c}) \cup {Write("purge", x, t) : t \in Targets}
  BY <1>4, <1>8, <1>9, <1>11
<1> QED  BY <1>11, <1>12 DEF R, none

\* A plan after another that is the first.
LEMMA Extends ==
    ASSUME NEW s \in Seq(Writes), NEW t \in Seq(Writes), NEW P,
           Ordered(s, {}, P), Ordered(t, Ran(s), P)
    PROVE  s \o t \in Seq(Writes) /\ Ran(s \o t) = Ran(s) \cup Ran(t) /\ Ordered(s \o t, {}, P)
<1>1. PICK e : e = {}  OBVIOUS
<1>2. e \cup Ran(s) = Ran(s)  BY <1>1
<1>3. Ordered(s, e, P) /\ Ordered(t, e \cup Ran(s), P)  BY <1>1, <1>2
<1>4. s \o t \in Seq(Writes) /\ Ran(s \o t) = Ran(s) \cup Ran(t)  BY Joined
<1>5. Ordered(s \o t, e, P)  BY <1>3, Joined
<1> QED  BY <1>1, <1>4, <1>5

\* One more write.
LEMMA Appends ==
    ASSUME NEW s \in Seq(Writes), NEW w \in Writes, NEW P,
           Ordered(s, {}, P), <<w, Ran(s)>> \in P
    PROVE  /\ s \o <<w>> \in Seq(Writes) /\ Ran(s \o <<w>>) = Ran(s) \cup {w}
           /\ Ordered(s \o <<w>>, {}, P)
<1>1. PICK t : t = <<w>>  OBVIOUS
<1>2. t \in Seq(Writes) /\ Ran(t) = {w}  BY <1>1, Tuples
<1>3. Ordered(t, Ran(s), P)  BY <1>1, Tuples
<1>4. s \o t \in Seq(Writes) /\ Ran(s \o t) = Ran(s) \cup Ran(t) /\ Ordered(s \o t, {}, P)
  BY ONLY <1>2, <1>3, Ordered(s, {}, P), Extends
<1> QED  BY <1>1, <1>2, <1>4

\* A pre-image, if the target has contents.
LEMMA Saves ==
    ASSUME NEW p, Plans(p), p = "finish", NEW x \in Ids, NEW t \in Targets,
           NEW s \in Seq(Writes), Ordered(s, {}, Sound'),
           Write("mkdir", x, "") \in Ran(s), Only(Ran(s), "manifest", {}), Ran(s) \subseteq Writes
    PROVE  /\ s \o Save(x, t) \in Seq(Writes) /\ Ordered(s \o Save(x, t), {}, Sound')
           /\ Ran(s) \subseteq Ran(s \o Save(x, t))
           /\ Ran(s \o Save(x, t)) \subseteq Ran(s) \cup {Write("preimage", x, t)}
           /\ file[t] # Absent => Write("preimage", x, t) \in Ran(s \o Save(x, t))
<1> DEFINE w == Write("preimage", x, t)
<1>1. CASE file[t] # Absent
  <2>1. Save(x, t) = <<w>>  BY <1>1 DEF Save
  <2>2. w \in Writes /\ w.do = "preimage" /\ w.id = x /\ w.arg = t
    <3>1. w \in Writes  BY Typed
    <3> QED  BY <3>1 DEF Write
  <2>3. SafePreimage(x, t, Ran(s))'
    BY <1>1, Planned DEF SafePreimage
  <2> HIDE DEF w
  <2>4. Safe(w, Ran(s))'
    <3> SUFFICES ASSUME NEW E, E = Ran(s)  PROVE Safe(w, E)'
      OBVIOUS
    <3>1. SafePreimage(x, t, E)'  BY <2>3
    <3> QED  BY <2>2, <3>1 DEF Safe
  <2>5. <<w, Ran(s)>> \in Sound'  BY <2>2, <2>4, Sounds
  <2>6. /\ s \o <<w>> \in Seq(Writes) /\ Ran(s \o <<w>>) = Ran(s) \cup {w}
        /\ Ordered(s \o <<w>>, {}, Sound')
    BY <2>2, <2>5, Appends
  <2> QED  BY <2>1, <2>6 DEF w
<1>2. CASE file[t] = Absent
  <2>1. Save(x, t) = <<>>  BY <1>2 DEF Save
  <2>2. PICK q : q = <<>>  OBVIOUS
  <2>3. PICK u \in Writes : TRUE  BY Typed, TwoTargets
  <2>4. q \in Seq(Writes) /\ Ran(q) = {} /\ Ordered(q, Ran(s), Sound')
    BY <2>2, <2>3, Tuples
  <2>5. s \o q \in Seq(Writes) /\ Ran(s \o q) = Ran(s) \cup Ran(q) /\ Ordered(s \o q, {}, Sound')
    BY ONLY <2>4, Ordered(s, {}, Sound'), Extends
  <2> QED  BY <1>2, <2>1, <2>2, <2>4, <2>5
<1> QED  BY <1>1, <1>2

\* The plan of Prepare, which is the first of its commit.
LEMMA PreparePlan ==
    ASSUME NEW p, Plans(p), p = "finish", NEW x \in Ids, State(x) = "none", Pending = {}, head # x,
           \A t \in Targets : new'[t] \in Values \cup {file[t]},
           \A y \in Ids : State(y) = "committed" => y = head,
           head # NoId => State(head) = "committed" /\ <<head, "commit">> \in ledger
    PROVE  /\ Prepare(x) \in Seq(Writes) /\ Ordered(Prepare(x), {}, Sound')
           /\ {Write("mkdir", x, ""), Manifest(x, "prepared"), Write("verify", x, "after")}
                  \subseteq Ran(Prepare(x))
           /\ \A w \in Ran(Prepare(x)) :
                 /\ w.do \in {"mkdir", "preimage", "manifest", "apply", "verify"} /\ w.id = x
                 /\ w.do = "manifest" => w = Manifest(x, "prepared")
<1> DEFINE mk == Write("mkdir", x, "")  m == Manifest(x, "prepared")
           a == Write("apply", x, TARGETS[1])  b == Write("apply", x, TARGETS[2])
           v == Write("verify", x, "after")
           p1 == Write("preimage", x, TARGETS[1])  p2 == Write("preimage", x, TARGETS[2])
<1>1. /\ mk \in Writes /\ m \in Writes /\ a \in Writes /\ b \in Writes /\ v \in Writes
      /\ p1 \in Writes /\ p2 \in Writes
  BY Typed, TwoTargets DEF States
<1>2. /\ mk.do = "mkdir" /\ mk.id = x /\ mk.arg = ""
      /\ m.do = "manifest" /\ m.id = x /\ m.arg = "prepared"
      /\ a.do = "apply" /\ a.id = x /\ a.arg \in Targets
      /\ b.do = "apply" /\ b.id = x /\ b.arg \in Targets
      /\ v.do = "verify" /\ v.id = x /\ v.arg = "after"
      /\ p1.do = "preimage" /\ p1.id = x /\ p2.do = "preimage" /\ p2.id = x
  BY TwoTargets DEF Manifest, Write
<1>3. PICK s0 : s0 = <<mk>>  OBVIOUS
<1>4. s0 \in Seq(Writes) /\ Ran(s0) = {mk} /\ Ordered(s0, {}, Sound')
  <2>1. SafeMkdir(x)'  BY Planned DEF SafeMkdir
  <2>2. Safe(mk, {})'
    <3> HIDE DEF mk
    <3> QED  BY <1>2, <2>1 DEF Safe
  <2>3. <<mk, {}>> \in Sound'  BY <1>1, <2>2, Sounds
  <2> HIDE DEF mk
  <2> QED  BY <1>1, <1>3, <2>3, Tuples
<1>5. PICK s1 : s1 = s0 \o Save(x, TARGETS[1])  OBVIOUS
<1>6. /\ s1 \in Seq(Writes) /\ Ordered(s1, {}, Sound') /\ mk \in Ran(s1)
      /\ Ran(s1) \subseteq {mk, p1}
      /\ file[TARGETS[1]] # Absent => p1 \in Ran(s1)
  <2>1. mk \in Ran(s0) /\ Only(Ran(s0), "manifest", {}) /\ Ran(s0) \subseteq Writes
    BY <1>1, <1>2, <1>4 DEF Only
  <2>2. TARGETS[1] \in Targets  BY TwoTargets
  <2>3. /\ s1 \in Seq(Writes) /\ Ordered(s1, {}, Sound') /\ Ran(s0) \subseteq Ran(s1)
        /\ Ran(s1) \subseteq Ran(s0) \cup {p1}
        /\ file[TARGETS[1]] # Absent => p1 \in Ran(s1)
    BY <1>4, <1>5, <2>1, <2>2, Saves
  <2> QED  BY <1>4, <2>3
<1>7. PICK s2 : s2 = s1 \o Save(x, TARGETS[2])  OBVIOUS
<1>8. /\ s2 \in Seq(Writes) /\ Ordered(s2, {}, Sound') /\ mk \in Ran(s2)
      /\ Ran(s2) \subseteq {mk, p1, p2}
      /\ \A t \in Targets : file[t] # Absent => Write("preimage", x, t) \in Ran(s2)
  <2>1. mk \in Ran(s1) /\ Only(Ran(s1), "manifest", {}) /\ Ran(s1) \subseteq Writes
    BY <1>1, <1>2, <1>6 DEF Only
  <2>2. TARGETS[2] \in Targets  BY TwoTargets
  <2>3. /\ s2 \in Seq(Writes) /\ Ordered(s2, {}, Sound') /\ Ran(s1) \subseteq Ran(s2)
        /\ Ran(s2) \subseteq Ran(s1) \cup {p2}
        /\ file[TARGETS[2]] # Absent => p2 \in Ran(s2)
    BY <1>6, <1>7, <2>1, <2>2, Saves
  <2> QED  BY <1>6, <2>3, TwoTargets
<1>9. PICK s3 : s3 = s2 \o <<m>>  OBVIOUS
<1>10. s3 \in Seq(Writes) /\ Ran(s3) = Ran(s2) \cup {m} /\ Ordered(s3, {}, Sound')
  <2>0. Ran(s2) \in SUBSET Writes  BY <1>1, <1>8
  <2>1. SafePrepared(x, Ran(s2))'
    <3> SUFFICES ASSUME NEW E, E = Ran(s2)  PROVE SafePrepared(x, E)'
      OBVIOUS
    <3>1. Only(E, "manifest", {})  BY <1>2, <1>8 DEF Only
    <3>2. head # NoId => head \in Ids  BY Planned
    <3>3. mk \in E /\ \A t \in Targets : file[t] # Absent => Write("preimage", x, t) \in E
      BY <1>8
    <3>4. /\ phase' = "finish" /\ Pending' = {} /\ head' = head /\ ledger' = ledger /\ file' = file
          /\ \A y \in Ids : State(y)' = State(y)
      BY Planned
    <3>5. head' # NoId => State(head)' = "committed"  BY <3>2, <3>4
    <3> QED  BY <3>1, <3>3, <3>4, <3>5 DEF SafePrepared
  <2>2. <<m, Ran(s2)>> \in Sound'
    <3> SUFFICES ASSUME NEW E \in SUBSET Writes, E = Ran(s2)  PROVE <<m, E>> \in Sound'
      BY <2>0
    <3>1. SafeManifest(x, "prepared", E)'  BY <2>1 DEF SafeManifest
    <3>2. Safe(m, E)'
      <4> HIDE DEF m
      <4> QED  BY <1>2, <3>1 DEF Safe
    <3> QED  BY <1>1, <3>2, Sounds
  <2> HIDE DEF m
  <2> QED  BY <1>1, <1>8, <1>9, <2>2, Appends
<1>11. PICK s4 : s4 = s3 \o <<a, b>>  OBVIOUS
<1>12. s4 \in Seq(Writes) /\ Ran(s4) = Ran(s3) \cup {a, b} /\ Ordered(s4, {}, Sound')
  <2>1. Ran(s3) \in SUBSET Writes /\ Ran(s3) \subseteq {mk, p1, p2, m} /\ m \in Ran(s3)
    BY <1>1, <1>8, <1>10
  <2>2. <<a, Ran(s3)>> \in Sound' /\ <<b, Ran(s3) \cup {a}>> \in Sound'
    <3> SUFFICES ASSUME NEW E \in SUBSET Writes, E = Ran(s3)
                 PROVE  <<a, E>> \in Sound' /\ <<b, E \cup {a}>> \in Sound'
      BY <2>1
    <3>1. /\ Only(E, "head", {}) /\ Only(E, "restore", {}) /\ OnlyOf(E, "apply", x)
          /\ Only(E, "manifest", {m}) /\ m \in E
      BY <1>2, <2>1 DEF Only, OnlyOf
    <3>2. /\ Only({a}, "head", {}) /\ Only({a}, "restore", {}) /\ OnlyOf({a}, "apply", x)
          /\ Only({a}, "manifest", {m})
      BY <1>2 DEF Only, OnlyOf
    <3>3. E \cup {a} \in SUBSET Writes  BY <1>1
    <3>4. PICK G \in SUBSET Writes : G = E \cup {a}  BY <3>3
    <3>5. /\ Only(G, "head", {}) /\ Only(G, "restore", {}) /\ OnlyOf(G, "apply", x)
          /\ Only(G, "manifest", {m}) /\ m \in G
      BY <3>1, <3>2, <3>4, OnlyJoin
    <3>6. SafeApply(x, E)' /\ SafeApply(x, G)'
      BY <3>1, <3>5, Planned DEF SafeApply
    <3>7. Safe(a, E)' /\ Safe(b, G)'
      <4> HIDE DEF a, b
      <4> QED  BY <1>2, <3>6 DEF Safe
    <3>8. <<a, E>> \in Sound' /\ <<b, G>> \in Sound'
      <4> HIDE DEF a, b
      <4> QED  BY <1>1, <3>7, Sounds
    <3> QED  BY <3>4, <3>8
  <2>3. PICK q : q = <<a, b>>  OBVIOUS
  <2>4. q \in Seq(Writes) /\ Ran(q) = {a, b} /\ Ordered(q, Ran(s3), Sound')
    <3> HIDE DEF a, b
    <3> QED  BY <1>1, <2>2, <2>3, Tuples
  <2>5. s3 \o q \in Seq(Writes) /\ Ran(s3 \o q) = Ran(s3) \cup Ran(q) /\ Ordered(s3 \o q, {}, Sound')
    BY ONLY <1>10, <2>4, Extends
  <2> QED  BY <1>11, <2>3, <2>4, <2>5
<1>13. PICK s5 : s5 = s4 \o <<v>>  OBVIOUS
<1>14. s5 \in Seq(Writes) /\ Ran(s5) = Ran(s4) \cup {v} /\ Ordered(s5, {}, Sound')
  <2>1. /\ Ran(s4) \in SUBSET Writes /\ Ran(s4) \subseteq {mk, p1, p2, m, a, b} /\ m \in Ran(s4)
    BY <1>1, <1>8, <1>10, <1>12
  <2>2. <<v, Ran(s4)>> \in Sound'
    <3> SUFFICES ASSUME NEW E \in SUBSET Writes, E = Ran(s4)  PROVE <<v, E>> \in Sound'
      BY <2>1
    <3>1. Only(E, "manifest", {m}) /\ m \in E
      BY <1>2, <2>1 DEF Only
    <3>2. SafeVerifyAfter(x, E)'
      BY <3>1 DEF SafeVerifyAfter
    <3>3. Safe(v, E)'
      <4> HIDE DEF v
      <4> QED  BY <1>2, <3>2 DEF Safe
    <3> QED  BY <1>1, <3>3, Sounds
  <2> HIDE DEF v
  <2> QED  BY <1>1, <1>12, <1>13, <2>2, Appends
<1>15. Prepare(x) = s5
  <2>1. EachTarget("apply", x) = <<a, b>>  BY TwoTargets
  <2> QED  BY <2>1, <1>3, <1>5, <1>7, <1>9, <1>11, <1>13 DEF Prepare, Manifest
<1>16. Ran(s5) \subseteq {mk, p1, p2, m, a, b, v} /\ {mk, m, v} \subseteq Ran(s5)
  BY <1>8, <1>10, <1>12, <1>14
<1> HIDE DEF mk, m, a, b, v, p1, p2
<1>17. \A w \in Ran(s5) : /\ w.do \in {"mkdir", "preimage", "manifest", "apply", "verify"}
                          /\ w.id = x
                          /\ w.do = "manifest" => w = m
  BY <1>2, <1>16
<1> QED  BY <1>14, <1>15, <1>16, <1>17 DEF mk, m, v

\* A plan has writes.
LEMMA RanWrites ==
    ASSUME NEW s \in Seq(Writes)
    PROVE  Ran(s) \in SUBSET Writes
<1>1. \A i \in DOMAIN s : s[i] \in Writes  OBVIOUS
<1> QED  BY <1>1 DEF Ran

\* The plan of a commit.
LEMMA CommitPlanned ==
    ASSUME NEW p, Plans(p), p = "finish", NEW x \in Ids, State(x) = "none", Pending = {}, head # x,
           \A t \in Targets : new'[t] \in Values \cup {file[t]},
           \A y \in Ids : State(y) = "committed" => y = head,
           head # NoId => State(head) = "committed" /\ <<head, "commit">> \in ledger
    PROVE  /\ CommitPlan(x) \in Seq(Writes) /\ Ordered(CommitPlan(x), {}, Sound')
           /\ {Manifest(x, "prepared"), Manifest(x, "committed"), Write("event", x, "commit")}
                  \subseteq Ran(CommitPlan(x))
           /\ head # NoId =>
                 /\ Manifest(head, "superseded") \in Ran(CommitPlan(x))
                 /\ \A t \in Targets : Write("purge", head, t) \in Ran(CommitPlan(x))
           /\ \A y, s : Manifest(y, s) \in Ran(CommitPlan(x)) =>
                 \/ y = x /\ s \in {"prepared", "committed"}
                 \/ y = head /\ head # NoId /\ s = "superseded"
           /\ \A y \in Ids : Write("mkdir", y, "") \in Ran(CommitPlan(x)) => y = x
<1>1. PICK s : s = Prepare(x)  OBVIOUS
<1>2. /\ s \in Seq(Writes) /\ Ordered(s, {}, Sound')
      /\ {Write("mkdir", x, ""), Manifest(x, "prepared"), Write("verify", x, "after")} \subseteq Ran(s)
      /\ \A w \in Ran(s) :
            /\ w.do \in {"mkdir", "preimage", "manifest", "apply", "verify"} /\ w.id = x
            /\ w.do = "manifest" => w = Manifest(x, "prepared")
  BY <1>1, PreparePlan
<1>3. Ran(s) \subseteq Writes  BY <1>2, RanWrites
<1>4. PICK f : f = Forward(x)  OBVIOUS
<1>5. /\ f \in Seq(Writes) /\ Ordered(f, Ran(s), Sound')
      /\ Ran(f) = {Write("head", x, ""), Manifest(x, "committed"), Write("event", x, "commit")}
  <2>1. /\ Only(Ran(s), "head", {}) /\ Only(Ran(s), "restore", {}) /\ OnlyOf(Ran(s), "apply", x)
        /\ Only(Ran(s), "manifest", {Manifest(x, "prepared")})
    BY <1>2 DEF Only, OnlyOf
  <2>2. Ran(s) \in SUBSET Writes  BY <1>3
  <2> QED  BY <1>2, <1>4, <2>1, <2>2, ForwardPlan
<1>6. s \o f \in Seq(Writes) /\ Ran(s \o f) = Ran(s) \cup Ran(f) /\ Ordered(s \o f, {}, Sound')
  BY ONLY <1>2, <1>5, Extends
<1>7. PICK g : g = s \o f  OBVIOUS
<1>8. /\ \A w \in Ran(f) : /\ w.do \in {"head", "manifest", "event"} /\ w.id = x
                           /\ w.do = "manifest" => w = Manifest(x, "committed")
  <2>1. /\ Write("head", x, "").do = "head" /\ Write("head", x, "").id = x
        /\ Write("event", x, "commit").do = "event" /\ Write("event", x, "commit").id = x
        /\ Manifest(x, "committed").do = "manifest" /\ Manifest(x, "committed").id = x
    BY DEF Manifest, Write
  <2> QED  BY <1>5, <2>1
<1>9. /\ g \in Seq(Writes) /\ Ordered(g, {}, Sound') /\ Ran(g) = Ran(s) \cup Ran(f)
      /\ \A w \in Ran(g) : w.do \notin {"rmdir", "purge"} /\ w.id = x
      /\ \A w \in Ran(g) : w.do = "manifest" => w \in {Manifest(x, "prepared"), Manifest(x, "committed")}
      /\ Ran(g) \in SUBSET Writes
  <2>1. /\ g \in Seq(Writes) /\ Ordered(g, {}, Sound') /\ Ran(g) = Ran(s) \cup Ran(f)
    BY <1>6, <1>7
  <2>3. Ran(g) \in SUBSET Writes  BY <2>1, RanWrites
  <2>4. \A w \in Ran(s) \cup Ran(f) :
            /\ w.do \notin {"rmdir", "purge"} /\ w.id = x
            /\ w.do = "manifest" => w \in {Manifest(x, "prepared"), Manifest(x, "committed")}
    BY <1>2, <1>8
  <2> QED  BY <2>1, <2>3, <2>4
<1>10. \A y, r : Manifest(y, r) \in Ran(g) => y = x /\ r \in {"prepared", "committed"}
  BY <1>9 DEF Manifest, Write
<1>11. \A y : Write("mkdir", y, "") \in Ran(g) => y = x
  BY <1>9 DEF Write
<1>12. CASE head = NoId
  <2>1. CommitPlan(x) = g \o <<>>  BY <1>1, <1>4, <1>7, <1>12 DEF CommitPlan
  <2>2. PICK q : q = <<>>  OBVIOUS
  <2>3. q \in Seq(Writes) /\ Ran(q) = {} /\ Ordered(q, Ran(g), Sound')
    <3>1. PICK u \in Writes : TRUE  BY Typed, TwoTargets
    <3> QED  BY <2>2, <3>1, Tuples
  <2>4. g \o q \in Seq(Writes) /\ Ran(g \o q) = Ran(g) \cup Ran(q) /\ Ordered(g \o q, {}, Sound')
    BY ONLY <1>9, <2>3, Extends
  <2>5. /\ CommitPlan(x) \in Seq(Writes) /\ Ordered(CommitPlan(x), {}, Sound')
        /\ Ran(CommitPlan(x)) = Ran(g)
    BY <2>1, <2>2, <2>3, <2>4
  <2> QED  BY <1>2, <1>5, <1>9, <1>10, <1>11, <1>12, <2>5
<1>13. CASE head # NoId
  <2>1. PICK q : q = Supersede(head)  OBVIOUS
  <2>2. CommitPlan(x) = g \o q  BY <1>1, <1>4, <1>7, <1>13, <2>1 DEF CommitPlan
  <2>3. head \in Ids  BY <1>13, Planned
  <2>4. /\ q \in Seq(Writes) /\ Ordered(q, Ran(g), Sound')
        /\ Ran(q) = {Write("event", head, "supersede"), Manifest(head, "superseded")}
                        \cup {Write("purge", head, t) : t \in Targets}
    <3>1. PICK h \in Ids : h = head  BY <2>3
    <3>2. Only(Ran(g), "rmdir", {})  BY <1>9 DEF Only
    <3>3. /\ <<h, "commit">> \in ledger /\ State(h) = "committed"
          /\ \E y \in Ids \ {h} : Write("head", y, "") \in Ran(g)
          /\ \A e \in Ran(g) : e.do \in {"head", "manifest"} => e.id # h
      BY <1>5, <1>9, <1>13, <3>1
    <3>4. PICK E \in SUBSET Writes : E = Ran(g)  BY <1>9
    <3>5. /\ Supersede(h) \in Seq(Writes) /\ Ordered(Supersede(h), E, Sound')
          /\ Ran(Supersede(h)) = {Write("event", h, "supersede"), Manifest(h, "superseded")}
                                     \cup {Write("purge", h, t) : t \in Targets}
      BY <3>2, <3>3, <3>4, SupersedePlan
    <3> QED  BY <2>1, <3>1, <3>4, <3>5
  <2>5. g \o q \in Seq(Writes) /\ Ran(g \o q) = Ran(g) \cup Ran(q) /\ Ordered(g \o q, {}, Sound')
    BY ONLY <1>9, <2>4, Extends
  <2>6. \A y, r : Manifest(y, r) \in Ran(q) => y = head /\ r = "superseded"
    BY <2>4 DEF Manifest, Write
  <2>7. \A y : Write("mkdir", y, "") \notin Ran(q)
    BY <2>4 DEF Manifest, Write
  <2>8. /\ CommitPlan(x) \in Seq(Writes) /\ Ordered(CommitPlan(x), {}, Sound')
        /\ Ran(CommitPlan(x)) = (Ran(s) \cup Ran(f)) \cup Ran(q)
    BY <1>9, <2>2, <2>5
  <2>9. {Manifest(x, "prepared"), Manifest(x, "committed"), Write("event", x, "commit")}
            \subseteq Ran(CommitPlan(x))
    BY <1>2, <1>5, <2>8
  <2>10. /\ Manifest(head, "superseded") \in Ran(CommitPlan(x))
         /\ \A t \in Targets : Write("purge", head, t) \in Ran(CommitPlan(x))
    BY <2>4, <2>8
  <2>11. \A y, r : Manifest(y, r) \in Ran(CommitPlan(x)) =>
             \/ y = x /\ r \in {"prepared", "committed"}
             \/ y = head /\ head # NoId /\ r = "superseded"
    BY <1>9, <1>10, <1>13, <2>6, <2>8
  <2>12. \A y : Write("mkdir", y, "") \in Ran(CommitPlan(x)) => y = x
    BY <1>9, <1>11, <2>7, <2>8
  <2> QED  BY <2>8, <2>9, <2>10, <2>11, <2>12
<1> QED  BY <1>12, <1>13
-----------------------------------------------------------------------------
(* The operations that read the disk and make a plan.                      *)

\* Each part of recovery keeps the invariant: the sweep,
LEMMA SweepKeeps ==
    ASSUME MemInv, NEW x \in Ids, Sweep(x)
    PROVE  MemInv' /\ \A w \in Todo' : w.do \in {"purge", "rmdir"}
<1>1. /\ Plans("scan") /\ new' = new /\ phase = "scan"
      /\ plan' = IF State(x) = "unprepared" THEN Discard(x) ELSE Purge(x)
      /\ State(x) \in Closed \cup {"unprepared"}
  BY DEF Sweep, At, Enter, Unswept, Plans, State
<1>2. new' \in Contents  BY <1>1 DEF MemInv, MemoryShape
<1>3. /\ Purge(x) \in Seq(Writes) /\ Ordered(Purge(x), {}, Sound')
      /\ Ran(Purge(x)) = {Write("purge", x, t) : t \in Targets}
  <2>1. Only({}, "rmdir", {}) /\ {} \in SUBSET Writes  BY DEF Only
  <2> QED  BY <1>1, <2>1, PurgePlan
<1>4. /\ plan' \in Seq(Writes) /\ Ordered(plan', {}, Sound')
      /\ \A w \in Ran(plan') : w.do \in {"purge", "rmdir"}
  <2>1. \A w \in Ran(Purge(x)) : w.do = "purge"  BY <1>3 DEF Write
  <2>2. CASE State(x) = "unprepared"
    <3>1. PICK r : r = Write("rmdir", x, "")  OBVIOUS
    <3>2. r \in Writes /\ r.do = "rmdir" /\ r.id = x /\ r.arg = ""
      <4>1. r \in Writes  BY <3>1, Typed, TwoTargets
      <4> QED  BY <3>1, <4>1 DEF Write
    <3>3. PICK E \in SUBSET Writes : E = Ran(Purge(x))  BY <1>3, RanWrites
    <3>4. SafeRmdir(x, E)'
      <4>1. Only(E, "rmdir", {})  BY <2>1, <3>3 DEF Only
      <4> QED  BY <1>1, <2>2, <4>1, Planned DEF SafeRmdir
    <3>5. Safe(r, E)'  BY <3>2, <3>4 DEF Safe
    <3>6. <<r, Ran(Purge(x))>> \in Sound'  BY <3>2, <3>3, <3>5, Sounds
    <3>7. /\ Purge(x) \o <<r>> \in Seq(Writes) /\ Ran(Purge(x) \o <<r>>) = Ran(Purge(x)) \cup {r}
          /\ Ordered(Purge(x) \o <<r>>, {}, Sound')
      BY <1>3, <3>2, <3>6, Appends
    <3>8. plan' = Purge(x) \o <<r>>  BY <1>1, <2>2, <3>1 DEF Discard
    <3> QED  BY <2>1, <3>2, <3>7, <3>8
  <2>3. CASE State(x) # "unprepared"
    BY <1>1, <1>3, <2>1, <2>3
  <2> QED  BY <2>2, <2>3
<1>5. Todo' = Ran(plan')  BY DEF Todo, Ran
<1>6. Together'
  <2>1. \A y, s : Manifest(y, s) \notin Todo'  BY <1>4, <1>5 DEF Manifest, Write
  <2>2. \A y : Write("mkdir", y, "") \notin Todo'  BY <1>4, <1>5 DEF Write
  <2> QED  BY <2>1, <2>2 DEF Together
<1>7. Owed'
  BY <1>1 DEF Plans, Owed, OwedActions, OwedHead, OwedSwap, Later
<1>8. MemInv'  BY <1>1, <1>2, <1>4, <1>6, <1>7, PlanKeeps
<1> QED  BY <1>4, <1>5, <1>8

\* What recovery finds when nothing is left to sweep.
LEMMA SweptFacts ==
    ASSUME MemInv, Swept
    PROVE  \A x \in Ids : /\ State(x) # "unprepared"
                          /\ State(x) \in Closed => action[x].saved = {}
  BY DEF Swept, Unswept, State

\* nothing under way,
LEMMA NothingPendingKeeps ==
    ASSUME MemInv, NothingPending
    PROVE  MemInv'
<1>1. Plans("settle") /\ new' = new /\ plan' = <<>> /\ Pending = {}
  BY DEF NothingPending, Swept, At, Enter, Plans, Later
<1>2. new' \in Contents  BY <1>1 DEF MemInv, MemoryShape
<1>3. plan' \in Seq(Writes) /\ Ordered(plan', {}, Sound')
  BY <1>1 DEF Ordered
<1>4. Todo' = {}  BY <1>1 DEF Todo
<1>5. Together'  BY <1>4 DEF Together
<1>6. Owed'
  <2>1. \A x \in Ids : State(x) # "unprepared" /\ (State(x) \in Closed => action[x].saved = {})
    BY SweptFacts DEF NothingPending
  <2>2. /\ Pending' = {} /\ action' = action /\ phase' = "settle"
        /\ \A x \in Ids : State(x)' = State(x)
    BY <1>1, Planned
  <2>3. OwedActions'  BY <2>1, <2>2 DEF OwedActions
  <2> QED  BY <2>2, <2>3 DEF Owed, OwedHead, OwedSwap
<1> QED  BY <1>1, <1>2, <1>3, <1>5, <1>6, PlanKeeps

\* an action under way,
LEMMA FinishPendingKeeps ==
    ASSUME MemInv, NEW x \in Ids, FinishPending(x)
    PROVE  MemInv'
<1>1. /\ Plans("settle") /\ new' = new /\ plan' = FinishPlan(x) /\ Pending = {x} /\ Known(x)
      /\ Swept
  BY DEF FinishPending, Recognised, Swept, At, Enter, Plans, Later
<1>2. new' \in Contents  BY <1>1 DEF MemInv, MemoryShape
<1>3. State(x) \in {"prepared", "undoing"}  BY <1>1 DEF Pending, InState, State
<1>4. Todo' = Ran(plan')  BY DEF Todo, Ran
<1>5. /\ Heads /\ phase' = "settle" /\ Pending' = {x} /\ action' = action
      /\ \A y \in Ids : State(y)' = State(y)
  BY <1>1, Planned
<1>6. /\ plan' \in Seq(Writes) /\ Ordered(plan', {}, Sound')
      /\ \E s \in Closing \cup {"committed"} :
            /\ Manifest(x, s) \in Ran(plan')
            /\ \A y, r : Manifest(y, r) \in Ran(plan') => y = x /\ r = s
            /\ s = "committed" => Write("event", x, "commit") \in Ran(plan')
            /\ s \in Closing => \A t \in Targets : Write("purge", x, t) \in Ran(plan')
      /\ \A y : Write("mkdir", y, "") \notin Ran(plan')
  <2>1. CASE State(x) = "prepared" /\ After(x)
    <3>1. plan' = Forward(x)  BY <1>1, <2>1 DEF FinishPlan, State
    <3>2. /\ Forward(x) \in Seq(Writes) /\ Ordered(Forward(x), {}, Sound')
          /\ Ran(Forward(x)) = {Write("head", x, ""), Manifest(x, "committed"),
                                Write("event", x, "commit")}
      <4>1. /\ Only({}, "head", {}) /\ Only({}, "restore", {}) /\ OnlyOf({}, "apply", x)
            /\ Only({}, "manifest", {Manifest(x, "prepared")}) /\ {} \in SUBSET Writes
        BY DEF Only, OnlyOf
      <4> QED  BY <1>1, <2>1, <4>1, ForwardPlan
    <3>3. \A y, r : Manifest(y, r) \in Ran(Forward(x)) => y = x /\ r = "committed"
      BY <3>2 DEF Manifest, Write
    <3>4. \A y : Write("mkdir", y, "") \notin Ran(Forward(x))
      BY <3>2 DEF Manifest, Write
    <3> QED  BY <3>1, <3>2, <3>3, <3>4 DEF Closing
  <2>2. CASE State(x) = "prepared" /\ ~After(x)
    <3>1. plan' = Abort(x)  BY <1>1, <2>2 DEF FinishPlan, State
    <3>2. /\ Abort(x) \in Seq(Writes) /\ Ordered(Abort(x), {}, Sound')
          /\ Ran(Abort(x)) = {Write("restore", x, TARGETS[1]), Write("restore", x, TARGETS[2]),
                              Write("verify", x, "before"), Write("event", x, "abort"),
                              Manifest(x, "aborted")}
                                \cup {Write("purge", x, t) : t \in Targets}
      BY <1>1, <2>2, AbortPlan
    <3>3. \A y, r : Manifest(y, r) \in Ran(Abort(x)) => y = x /\ r = "aborted"
      BY <3>2 DEF Manifest, Write
    <3>4. \A y : Write("mkdir", y, "") \notin Ran(Abort(x))
      BY <3>2 DEF Manifest, Write
    <3> QED  BY <3>1, <3>2, <3>3, <3>4 DEF Closing
  <2>3. CASE State(x) = "undoing"
    <3>1. plan' = Undo(x)  BY <1>1, <2>3 DEF FinishPlan, State
    <3>2. /\ Undo(x) \in Seq(Writes) /\ Ordered(Undo(x), {}, Sound')
          /\ Ran(Undo(x)) = {Write("restore", x, TARGETS[1]), Write("restore", x, TARGETS[2]),
                              Write("verify", x, "before"), Write("head", NoId, ""),
                              Write("event", x, "rollback"), Manifest(x, "rolled_back")}
                                \cup {Write("purge", x, t) : t \in Targets}
      <4>1. {} \in SUBSET {Manifest(x, "undoing")}  OBVIOUS
      <4>2. <<x, "commit">> \in ledger  BY <1>5, <2>3 DEF Heads
      <4> QED  BY <1>1, <2>3, <4>1, <4>2, UndoPlan
    <3>3. \A y, r : Manifest(y, r) \in Ran(Undo(x)) => y = x /\ r = "rolled_back"
      BY <3>2 DEF Manifest, Write
    <3>4. \A y : Write("mkdir", y, "") \notin Ran(Undo(x))
      BY <3>2 DEF Manifest, Write
    <3> QED  BY <3>1, <3>2, <3>3, <3>4 DEF Closing
  <2> QED  BY <1>3, <2>1, <2>2, <2>3
<1>7. Together'
  <2>1. PICK s \in Closing \cup {"committed"} :
            /\ \A y, r : Manifest(y, r) \in Ran(plan') => y = x /\ r = s
            /\ s = "committed" => Write("event", x, "commit") \in Ran(plan')
            /\ s \in Closing => \A t \in Targets : Write("purge", x, t) \in Ran(plan')
    BY <1>6
  <2>2. s \notin {"prepared", "undoing"} /\ "committed" \notin Closing  BY DEF Closing
  <2> QED  BY <1>4, <1>6, <2>1, <2>2 DEF Together
<1>8. Owed'
  <2>1. \A y \in Ids : State(y) # "unprepared" /\ (State(y) \in Closed => action[y].saved = {})
    BY <1>1, SweptFacts
  <2>2. OwedActions'  BY <1>4, <1>5, <1>6, <2>1 DEF OwedActions
  <2> QED  BY <1>5, <2>2 DEF Owed, OwedHead, OwedSwap
<1> QED  BY <1>1, <1>2, <1>6, <1>7, <1>8, PlanKeeps

\* What an operation finds when recovery is through.
LEMMA Settled ==
    ASSUME MemInv, phase \in {"settle", "operate", "finish"}, plan = <<>>
    PROVE  /\ Pending = {}
           /\ \A x \in Ids : /\ State(x) # "unprepared"
                             /\ State(x) \in Closed => action[x].saved = {}
           /\ phase # "settle" =>
                 /\ \A y \in Ids : State(y) = "committed" => y = head
                 /\ head # NoId => State(head) = "committed" /\ <<head, "commit">> \in ledger
<1>1. Todo = {}  BY DEF Todo
<1>2. Owed /\ Heads /\ Images /\ MemoryShape  BY DEF MemInv
<1>3. Pending = {}
  <2>1. Pending \subseteq Ids  BY DEF Pending, InState
  <2> QED  BY <1>1, <1>2, <2>1 DEF Owed, OwedActions, Later
<1>4. \A x \in Ids : /\ State(x) # "unprepared"
                     /\ State(x) \in Closed => action[x].saved = {}
  <2>1. \A x \in Ids : action[x].saved \subseteq Targets  BY <1>2 DEF MemoryShape, Actions
  <2>2. \A x \in Ids : State(x) \in Closed => \A t \in action[x].saved : FALSE
    BY <1>1, <1>2 DEF Owed, OwedActions, Later
  <2> QED  BY <1>1, <1>2, <2>2 DEF Owed, OwedActions, Later
<1>5. ASSUME phase # "settle"
      PROVE  /\ \A y \in Ids : State(y) = "committed" => y = head
             /\ head # NoId => State(head) = "committed" /\ <<head, "commit">> \in ledger
  <2>1. \A y \in Ids : State(y) = "committed" => y = head
    BY <1>1, <1>2, <1>5 DEF Owed, OwedHead
  <2>2. head # NoId => State(head) = "committed"
    <3>1. head # NoId => head \in Ids /\ head \notin Pending
      BY <1>2, <1>3 DEF MemoryShape
    <3>2. ~Stranded  BY <1>2, <1>5 DEF Heads
    <3>3. head # NoId => State(head) \in Live  BY <1>2, <3>2 DEF Heads, Stranded
    <3> QED  BY <3>1, <3>3 DEF Live, Pending, InState, State
  <2> QED  BY <1>1, <1>2, <1>5, <2>1, <2>2 DEF Owed, OwedHead
<1> QED  BY <1>3, <1>4, <1>5

\* and HEAD with its parent.
LEMMA SettleKeeps ==
    ASSUME MemInv, Settle
    PROVE  MemInv'
<1>1. /\ Plans("operate") /\ new' = new /\ ~HeadUnclear /\ phase = "settle" /\ plan = <<>>
      /\ plan' = IF head = NoId THEN <<>>
                 ELSE <<Write("event", head, "commit")>>
                        \o IF action[head].parent = NoId THEN <<>> ELSE Supersede(action[head].parent)
  BY DEF Settle, At, Enter, Plans, Later
<1>2. new' \in Contents  BY <1>1 DEF MemInv, MemoryShape
<1>3. /\ MemoryShape /\ Heads /\ phase' = "operate" /\ head \in Ids \cup {NoId}
      /\ Pending' = Pending /\ head' = head /\ action' = action /\ ledger' = ledger
      /\ \A y \in Ids : State(y)' = State(y)
  BY <1>1, Planned
<1>4. /\ Pending = {}
      /\ \A y \in Ids : State(y) # "unprepared" /\ (State(y) \in Closed => action[y].saved = {})
  BY <1>1, Settled
<1>5. Todo' = Ran(plan')  BY DEF Todo, Ran
<1>6. CASE head = NoId
  <2>1. plan' = <<>>  BY <1>1, <1>6
  <2>2. plan' \in Seq(Writes) /\ Ordered(plan', {}, Sound')  BY <2>1 DEF Ordered
  <2>3. Todo' = {}  BY <2>1 DEF Todo
  <2>4. Together'  BY <2>3 DEF Together
  <2>5. \A y \in Ids : State(y) # "committed"
    BY <1>3, <1>6, MemoryAssumption DEF Heads
  <2>6. Owed'
    <3>1. OwedActions'  BY <1>3, <1>4 DEF OwedActions
    <3>2. OwedHead'  BY <1>3, <1>6, <2>5 DEF OwedHead
    <3> QED  BY <1>3, <3>1, <3>2 DEF Owed, OwedSwap
  <2>7. ~Stranded  BY <1>6 DEF Stranded
  <2> QED  BY <1>1, <1>2, <2>2, <2>4, <2>6, <2>7, PlanKeeps
<1>7. CASE head # NoId
  <2>1. head \in Ids /\ State(head) = "committed" /\ ~Stranded
    BY <1>1, <1>3, <1>7 DEF HeadUnclear, State, Stranded
  <2>2. PICK c : c = Write("event", head, "commit")  OBVIOUS
  <2>3. c \in Writes /\ c.do = "event" /\ c.id = head /\ c.arg = "commit"
    <3>1. c \in Writes  BY <2>1, <2>2, Typed, TwoTargets DEF Events
    <3> QED  BY <2>2, <3>1 DEF Write
  <2>4. PICK s : s = <<c>>  OBVIOUS
  <2>5. s \in Seq(Writes) /\ Ran(s) = {c} /\ Ordered(s, {}, Sound')
    <3>1. PICK h \in Ids : h = head  BY <2>1
    <3>2. SafeCommitEvent(h, {})'
      <4>1. State(h)' = "committed"  BY <1>3, <2>1, <3>1
      <4>2. Only({}, "manifest", {Manifest(h, "prepared"), Manifest(h, "committed")})  BY DEF Only
      <4> QED  BY <4>1, <4>2 DEF SafeCommitEvent
    <3>3. Safe(c, {})'  BY <2>3, <3>1, <3>2 DEF Safe, Events
    <3>4. <<c, {}>> \in Sound'  BY <2>3, <3>3, Sounds
    <3> QED  BY <2>3, <2>4, <3>4, Tuples
  <2>6. PICK q : q = IF action[head].parent = NoId THEN <<>> ELSE Supersede(action[head].parent)
    OBVIOUS
  <2>7. /\ q \in Seq(Writes) /\ Ordered(q, Ran(s), Sound')
        /\ \A y, r : Manifest(y, r) \in Ran(q) =>
              r = "superseded" /\ \A t \in Targets : Write("purge", y, t) \in Ran(q)
        /\ \A y : Write("mkdir", y, "") \notin Ran(q)
        /\ \A y \in Ids : State(y) = "committed" /\ y # head => Manifest(y, "superseded") \in Ran(q)
    <3>1. CASE action[head].parent = NoId
      <4>1. q = <<>>  BY <2>6, <3>1
      <4>2. q \in Seq(Writes) /\ Ran(q) = {} /\ Ordered(q, Ran(s), Sound')
        BY <2>3, <4>1, Tuples
      <4>3. \A y \in Ids : State(y) = "committed" => y = head
        BY <1>3, <2>1, <3>1, MemoryAssumption DEF Heads
      <4> QED  BY <4>2, <4>3
    <3>2. CASE action[head].parent # NoId
      <4>1. PICK z \in Ids : z = action[head].parent
        BY <1>3, <2>1, <3>2 DEF MemoryShape, Actions
      <4>2. State(z) \in {"committed", "superseded"} /\ z # head
        BY <1>3, <1>7, <2>1, <3>2, <4>1 DEF Heads
      <4>3. State(z) = "committed" => <<z, "commit">> \in ledger
        BY <1>3, <1>7, <2>1, <4>2 DEF Heads
      <4>4. PICK E \in SUBSET Writes : E = Ran(s)  BY <2>3, <2>5
      <4>5. Only(E, "rmdir", {}) /\ \A e \in E : e.do \notin {"head", "manifest"}
        BY <2>3, <2>5, <4>4 DEF Only
      <4>6. /\ Supersede(z) \in Seq(Writes) /\ Ordered(Supersede(z), E, Sound')
            /\ State(z) = "committed" =>
                  Ran(Supersede(z)) = {Write("event", z, "supersede"), Manifest(z, "superseded")}
                                          \cup {Write("purge", z, t) : t \in Targets}
            /\ State(z) = "superseded" =>
                  Ran(Supersede(z)) = {Write("purge", z, t) : t \in Targets}
        BY <1>1, <4>2, <4>3, <4>5, SupersedePlan
      <4>7. q = Supersede(z)  BY <2>6, <3>2, <4>1
      <4>8. \A y, r : Manifest(y, r) \in Ran(Supersede(z)) =>
                r = "superseded" /\ \A t \in Targets : Write("purge", y, t) \in Ran(Supersede(z))
        <5>1. \A y, r : Manifest(y, r) \in {Write("event", z, "supersede"), Manifest(z, "superseded")}
                                          \cup {Write("purge", z, t) : t \in Targets}
                        => y = z /\ r = "superseded"
          BY DEF Manifest, Write
        <5>2. \A y, r : Manifest(y, r) \notin {Write("purge", z, t) : t \in Targets}
          BY DEF Manifest, Write
        <5>3. \A t \in Targets : Write("purge", z, t) \in Ran(Supersede(z))  BY <4>2, <4>6
        <5> QED  BY <4>2, <4>6, <5>1, <5>2, <5>3
      <4>9. \A y : Write("mkdir", y, "") \notin Ran(Supersede(z))
        <5>1. \A y : Write("mkdir", y, "") \notin {Write("event", z, "supersede"), Manifest(z, "superseded")}
          BY DEF Manifest, Write
        <5>2. \A y : Write("mkdir", y, "") \notin {Write("purge", z, t) : t \in Targets}
          BY DEF Write
        <5> QED  BY <4>2, <4>6, <5>1, <5>2
      <4>10. \A y \in Ids : State(y) = "committed" /\ y # head => y = z
        BY <1>3, <1>7, <2>1, <4>1 DEF Heads
      <4> QED  BY <4>4, <4>6, <4>7, <4>8, <4>9, <4>10
    <3> QED  BY <3>1, <3>2
  <2>8. s \o q \in Seq(Writes) /\ Ran(s \o q) = Ran(s) \cup Ran(q) /\ Ordered(s \o q, {}, Sound')
    BY ONLY <2>5, <2>7, Extends
  <2>9. plan' = s \o q  BY <1>1, <1>7, <2>2, <2>4, <2>6
  <2>10. /\ plan' \in Seq(Writes) /\ Ordered(plan', {}, Sound') /\ Todo' = {c} \cup Ran(q)
    BY <1>5, <2>5, <2>8, <2>9
  <2>11. /\ \A y, r : Manifest(y, r) # c
         /\ \A y : Write("mkdir", y, "") # c
    BY <2>2 DEF Manifest, Write
  <2>12. Together'
    <3> SUFFICES ASSUME NEW y \in Ids
                 PROVE  /\ \A r \in Closing : Manifest(y, r) \in Todo' =>
                               \A t \in Targets : Write("purge", y, t) \in Todo'
                        /\ Manifest(y, "committed") \in Todo' => Write("event", y, "commit") \in Todo'
                        /\ Manifest(y, "prepared") \in Todo' => Manifest(y, "committed") \in Todo'
                        /\ Manifest(y, "undoing") \in Todo' => Manifest(y, "rolled_back") \in Todo'
                        /\ Write("mkdir", y, "") \in Todo' => Manifest(y, "prepared") \in Todo'
      BY DEF Together
    <3>1. \A r : Manifest(y, r) \in Todo' => Manifest(y, r) \in Ran(q)  BY <2>10, <2>11
    <3>2. \A r : Manifest(y, r) \in Todo' =>
              r = "superseded" /\ \A t \in Targets : Write("purge", y, t) \in Todo'
      BY <3>1, <2>7, <2>10
    <3>3. Write("mkdir", y, "") \notin Todo'  BY <2>7, <2>10, <2>11
    <3>4. \A r \in Closing : Manifest(y, r) \in Todo' => \A t \in Targets : Write("purge", y, t) \in Todo'
      BY <3>1, <2>7, <2>10
    <3>5. /\ Manifest(y, "committed") \notin Todo' /\ Manifest(y, "prepared") \notin Todo'
          /\ Manifest(y, "undoing") \notin Todo'
      BY <3>2
    <3> QED  BY <3>3, <3>4, <3>5
  <2>13. Owed'
    <3>1. OwedActions'  BY <1>3, <1>4 DEF OwedActions
    <3>2. Write("event", head, "commit") \in Todo'  BY <2>2, <2>10
    <3>3. \A y \in Ids : State(y) = "committed" /\ y # head => Manifest(y, "superseded") \in Todo'
      BY <2>7, <2>10
    <3>4. OwedHead'  BY <1>3, <3>2, <3>3 DEF OwedHead
    <3> QED  BY <1>3, <3>1, <3>4 DEF Owed, OwedSwap
  <2> QED  BY <1>1, <1>2, <2>1, <2>10, <2>12, <2>13, PlanKeeps
<1> QED  BY <1>6, <1>7

\* A commit.
LEMMA CommitKeeps ==
    ASSUME MemInv, NEW x \in Ids, Commit(x)
    PROVE  MemInv'
<1>1. /\ Plans("finish") /\ new' \in Transformed /\ phase = "operate" /\ plan = <<>>
      /\ plan' = CommitPlan(x) /\ State(x) = "none"
  BY DEF Commit, At, Enter, Plans, Later, State
<1>2. new' \in Contents /\ \A t \in Targets : new'[t] \in Values \cup {file[t]}
  BY <1>1 DEF Transformed
<1>3. /\ Heads /\ phase' = "finish" /\ head \in Ids \cup {NoId}
      /\ Pending' = Pending /\ head' = head /\ action' = action /\ ledger' = ledger
      /\ \A y \in Ids : State(y)' = State(y)
  BY <1>1, Planned
<1>4. /\ Pending = {}
      /\ \A y \in Ids : State(y) # "unprepared" /\ (State(y) \in Closed => action[y].saved = {})
      /\ \A y \in Ids : State(y) = "committed" => y = head
      /\ head # NoId => State(head) = "committed" /\ <<head, "commit">> \in ledger
  BY <1>1, Settled
<1>5. Todo' = Ran(plan')  BY DEF Todo, Ran
<1>6. head # x /\ ~Stranded
  BY <1>1, <1>4, MemoryAssumption DEF Stranded
<1>7. /\ CommitPlan(x) \in Seq(Writes) /\ Ordered(CommitPlan(x), {}, Sound')
      /\ {Manifest(x, "prepared"), Manifest(x, "committed"), Write("event", x, "commit")}
             \subseteq Ran(CommitPlan(x))
      /\ head # NoId =>
            /\ Manifest(head, "superseded") \in Ran(CommitPlan(x))
            /\ \A t \in Targets : Write("purge", head, t) \in Ran(CommitPlan(x))
      /\ \A y, s : Manifest(y, s) \in Ran(CommitPlan(x)) =>
            \/ y = x /\ s \in {"prepared", "committed"}
            \/ y = head /\ head # NoId /\ s = "superseded"
      /\ \A y \in Ids : Write("mkdir", y, "") \in Ran(CommitPlan(x)) => y = x
  BY <1>1, <1>2, <1>4, <1>6, CommitPlanned
<1>8. Together'
  <2>1. Todo' = Ran(CommitPlan(x))  BY <1>1, <1>5
  <2> SUFFICES ASSUME NEW y \in Ids
               PROVE  /\ \A r \in Closing : Manifest(y, r) \in Todo' =>
                             \A t \in Targets : Write("purge", y, t) \in Todo'
                      /\ Manifest(y, "committed") \in Todo' => Write("event", y, "commit") \in Todo'
                      /\ Manifest(y, "prepared") \in Todo' => Manifest(y, "committed") \in Todo'
                      /\ Manifest(y, "undoing") \in Todo' => Manifest(y, "rolled_back") \in Todo'
                      /\ Write("mkdir", y, "") \in Todo' => Manifest(y, "prepared") \in Todo'
    BY DEF Together
  <2>2. \A s : Manifest(y, s) \in Todo' =>
            \/ y = x /\ s \in {"prepared", "committed"}
            \/ y = head /\ head # NoId /\ s = "superseded"
    BY <1>7, <2>1
  <2>3. \A t \in Targets : y = head /\ head # NoId => Write("purge", y, t) \in Todo'
    BY <1>7, <2>1
  <2>4. /\ Write("event", x, "commit") \in Todo' /\ Manifest(x, "committed") \in Todo'
        /\ Manifest(x, "prepared") \in Todo'
    BY <1>7, <2>1
  <2>5. Write("mkdir", y, "") \in Todo' => y = x  BY <1>7, <2>1
  <2>6. \A s \in Closing : Manifest(y, s) \in Todo' => y = head /\ head # NoId
    BY <2>2 DEF Closing
  <2>7. /\ Manifest(y, "committed") \in Todo' => y = x
        /\ Manifest(y, "prepared") \in Todo' => y = x
        /\ Manifest(y, "undoing") \notin Todo'
    BY <2>2
  <2> QED  BY <2>3, <2>4, <2>5, <2>6, <2>7
<1>9. Owed'
  <2>1. OwedActions'  BY <1>3, <1>4 DEF OwedActions
  <2>2. OwedHead'  BY <1>3, <1>4 DEF OwedHead
  <2>3. OwedSwap'  BY <1>1, <1>3, <1>5, <1>7 DEF OwedSwap
  <2> QED  BY <2>1, <2>2, <2>3 DEF Owed
<1> QED  BY <1>1, <1>2, <1>6, <1>7, <1>8, <1>9, PlanKeeps

\* A rollback.
LEMMA RollbackKeeps ==
    ASSUME MemInv, NEW x \in Ids, Rollback(x)
    PROVE  MemInv'
<1>1. /\ Plans("finish") /\ new' = new /\ phase = "operate" /\ plan = <<>>
      /\ plan' = <<Manifest(x, "undoing")>> \o Undo(x) /\ head = x /\ After(x)
  BY DEF Rollback, At, Enter, Plans, Later, Manifest
<1>2. new' \in Contents  BY <1>1 DEF MemInv, MemoryShape
<1>3. /\ Heads /\ phase' = "finish" /\ head \in Ids \cup {NoId}
      /\ Pending' = Pending /\ head' = head /\ action' = action /\ ledger' = ledger
      /\ \A y \in Ids : State(y)' = State(y)
      /\ After(x)' = After(x)
  BY <1>1, Planned
<1>n. x # NoId  BY MemoryAssumption
<1>4. /\ Pending = {}
      /\ \A y \in Ids : State(y) # "unprepared" /\ (State(y) \in Closed => action[y].saved = {})
      /\ \A y \in Ids : State(y) = "committed" => y = head
      /\ State(x) = "committed" /\ <<x, "commit">> \in ledger
  BY <1>1, <1>n, Settled
<1>5. Todo' = Ran(plan')  BY DEF Todo, Ran
<1>6. PICK m \in Writes : m = Manifest(x, "undoing")
  BY Typed, TwoTargets DEF States
<1>7. PICK s : s = <<m>>  OBVIOUS
<1>8. s \in Seq(Writes) /\ Ran(s) = {m} /\ Ordered(s, {}, Sound')
  <2>1. SafeUndoing(x)'
    BY <1>1, <1>3, <1>4 DEF SafeUndoing
  <2>2. m.do = "manifest" /\ m.id = x /\ m.arg = "undoing"  BY <1>6 DEF Manifest, Write
  <2>3. SafeManifest(x, "undoing", {})'  BY <2>1 DEF SafeManifest
  <2>4. Safe(m, {})'  BY <2>2, <2>3 DEF Safe
  <2>5. <<m, {}>> \in Sound'  BY <2>4, Sounds
  <2> QED  BY <1>7, <2>5, Tuples
<1>9. /\ Undo(x) \in Seq(Writes) /\ Ordered(Undo(x), Ran(s), Sound')
      /\ Ran(Undo(x)) = {Write("restore", x, TARGETS[1]), Write("restore", x, TARGETS[2]),
                         Write("verify", x, "before"), Write("head", NoId, ""),
                         Write("event", x, "rollback"), Manifest(x, "rolled_back")}
                           \cup {Write("purge", x, t) : t \in Targets}
  <2>1. PICK E \in SUBSET {Manifest(x, "undoing")} : E = Ran(s)  BY <1>6, <1>8
  <2>2. E # {}  BY <1>8, <2>1
  <2> QED  BY <1>1, <1>4, <2>1, <2>2, UndoPlan
<1>10. s \o Undo(x) \in Seq(Writes) /\ Ran(s \o Undo(x)) = Ran(s) \cup Ran(Undo(x))
       /\ Ordered(s \o Undo(x), {}, Sound')
  BY ONLY <1>8, <1>9, Extends
<1>11. /\ plan' \in Seq(Writes) /\ Ordered(plan', {}, Sound') /\ Todo' = {m} \cup Ran(Undo(x))
  BY <1>1, <1>5, <1>6, <1>7, <1>8, <1>10
<1>12. /\ \A y, r : Manifest(y, r) \in Todo' => y = x /\ r \in {"undoing", "rolled_back"}
       /\ \A y : Write("mkdir", y, "") \notin Todo'
       /\ \A y \in Ids : Write("head", y, "") \notin Todo'
  <2>1. /\ \A y, r : Manifest(y, r) \in Ran(Undo(x)) => y = x /\ r = "rolled_back"
        /\ \A y : Write("mkdir", y, "") \notin Ran(Undo(x))
    BY <1>9 DEF Manifest, Write
  <2>2. /\ \A y, r : Manifest(y, r) = m => y = x /\ r = "undoing"
        /\ \A y : Write("mkdir", y, "") # m /\ Write("head", y, "") # m
    BY <1>6 DEF Manifest, Write
  <2>3. \A y \in Ids : Write("head", y, "") \notin Ran(Undo(x))
    <3>1. \A y : Write("head", y, "") \in Ran(Undo(x)) => y = NoId  BY <1>9 DEF Manifest, Write
    <3> QED  BY <3>1, MemoryAssumption
  <2>4. \A y, r : Manifest(y, r) \in Todo' => y = x /\ r \in {"undoing", "rolled_back"}
    <3> SUFFICES ASSUME NEW y, NEW r, Manifest(y, r) \in Todo'
                 PROVE  y = x /\ r \in {"undoing", "rolled_back"}
      OBVIOUS
    <3>1. Manifest(y, r) = m \/ Manifest(y, r) \in Ran(Undo(x))  BY <1>11
    <3> QED  BY <3>1, <2>1, <2>2
  <2> QED  BY <1>11, <2>1, <2>2, <2>3, <2>4
<1>13. Together'
  <2>1. /\ Manifest(x, "rolled_back") \in Todo'
        /\ \A t \in Targets : Write("purge", x, t) \in Todo'
    BY <1>9, <1>11
  <2> SUFFICES ASSUME NEW y \in Ids
               PROVE  /\ \A r \in Closing : Manifest(y, r) \in Todo' =>
                             \A t \in Targets : Write("purge", y, t) \in Todo'
                      /\ Manifest(y, "committed") \in Todo' => Write("event", y, "commit") \in Todo'
                      /\ Manifest(y, "prepared") \in Todo' => Manifest(y, "committed") \in Todo'
                      /\ Manifest(y, "undoing") \in Todo' => Manifest(y, "rolled_back") \in Todo'
                      /\ Write("mkdir", y, "") \in Todo' => Manifest(y, "prepared") \in Todo'
    BY DEF Together
  <2>2. \A r \in Closing : Manifest(y, r) \in Todo' => y = x  BY <1>12
  <2>3. /\ Manifest(y, "committed") \notin Todo' /\ Manifest(y, "prepared") \notin Todo'
        /\ Manifest(y, "undoing") \in Todo' => y = x
    <3>1. "committed" \notin {"undoing", "rolled_back"} /\ "prepared" \notin {"undoing", "rolled_back"}
      OBVIOUS
    <3>2. \A r : Manifest(y, r) \in Todo' => r \in {"undoing", "rolled_back"}  BY <1>12
    <3>3. Manifest(y, "committed") \notin Todo'  BY <3>1, <3>2
    <3>4. Manifest(y, "prepared") \notin Todo'  BY <3>1, <3>2
    <3>5. Manifest(y, "undoing") \in Todo' => y = x  BY <1>12
    <3> QED  BY <3>3, <3>4, <3>5
  <2>4. Write("mkdir", y, "") \notin Todo'  BY <1>12
  <2> QED  BY <2>1, <2>2, <2>3, <2>4
<1>14. Owed'
  <2>1. OwedActions'  BY <1>3, <1>4 DEF OwedActions
  <2>2. OwedHead'  BY <1>1, <1>3, <1>4 DEF OwedHead
  <2>3. OwedSwap'  BY <1>3, <1>12 DEF OwedSwap
  <2> QED  BY <2>1, <2>2, <2>3 DEF Owed
<1>15. ~Stranded  BY <1>1, <1>4 DEF Stranded
<1> QED  BY <1>1, <1>2, <1>11, <1>13, <1>14, <1>15, PlanKeeps
-----------------------------------------------------------------------------
(* Every step keeps the invariant.                                         *)

\* What leaves the actions alone and nothing to do.
LEMMA IdleKeeps ==
    ASSUME MemInv, action' = action, head' = head, ledger' = ledger, file' \in Contents,
           phase' \in {"idle", "scan"}, plan' = <<>>, new' \in Contents, edits' \in Nat, BodiesOfHead'
    PROVE  MemInv'
<1>1. MemoryShape /\ Images /\ Heads /\ LedgerTruthful  BY DEF MemInv
<1>2. Todo' = {}  BY DEF Todo
<1>3. MemoryShape'  BY <1>1 DEF MemoryShape, Phases
<1>4. Images' /\ LedgerTruthful'  BY <1>1 DEF Images, LedgerTruthful, State, Bodies
<1>5. Heads'  BY <1>1 DEF Heads, State, Stranded, Pending, InState
<1>6. PlanSafe'  BY DEF PlanSafe
<1>7. Owed' /\ Together'
  BY <1>2 DEF Owed, OwedActions, OwedHead, OwedSwap, Later, Together
<1> QED  BY <1>3, <1>4, <1>5, <1>6, <1>7 DEF MemInv

\* An operation that went through has left pre-images of HEAD only.
LEMMA EndsKeeps ==
    ASSUME MemInv, NEW how, Ends(how), how = "ok" => phase \in {"operate", "finish"} /\ plan = <<>>
    PROVE  MemInv'
<1>1. /\ MemoryShape /\ Images /\ phase' = "idle" /\ new' = Blank /\ plan' = <<>> /\ outcome' = how
      /\ action' = action /\ head' = head /\ ledger' = ledger /\ file' = file /\ edits' = edits
  BY DEF MemInv, Ends, disk
<1>2. new' \in Contents /\ file' \in Contents /\ edits' \in Nat
  BY <1>1 DEF MemoryShape, Blank, Contents
<1>3. how = "ok" => \A x \in Ids : action[x].saved # {} => x = head
  <2> SUFFICES ASSUME how = "ok", NEW x \in Ids, action[x].saved # {}  PROVE x = head
    OBVIOUS
  <2>1. /\ Pending = {}
        /\ State(x) # "unprepared" /\ (State(x) \in Closed => action[x].saved = {})
        /\ State(x) = "committed" => x = head
    BY Settled
  <2>2. State(x) # "none"  BY <1>1 DEF Images
  <2>3. State(x) \notin {"prepared", "undoing"}  BY <2>1 DEF Pending, InState, State
  <2>4. State(x) \in States  BY <1>1 DEF MemoryShape, Actions, State
  <2> QED  BY <2>1, <2>2, <2>3, <2>4 DEF States, Closed
<1>4. BodiesOfHead'  BY <1>1, <1>3 DEF BodiesOfHead
<1> QED  BY <1>1, <1>2, <1>4, IdleKeeps

\* A recovery that gives up.
LEMMA RefuseKeeps ==
    ASSUME MemInv, Refuse
    PROVE  MemInv'
<1>1. Ends("refused")  BY DEF Refuse
<1> QED  BY <1>1, EndsKeeps

\* Every operation.
LEMMA OperateKeeps ==
    ASSUME MemInv, Operate
    PROVE  MemInv'
<1>1. CASE \E x \in Ids : Commit(x)  BY <1>1, CommitKeeps
<1>2. CASE \E x \in Ids : Rollback(x)  BY <1>2, RollbackKeeps
<1>3. CASE \E x \in Ids : RollbackAgain(x)
  <2>1. Ends("ok") /\ phase = "operate" /\ plan = <<>>  BY <1>3 DEF RollbackAgain, At
  <2> QED  BY <2>1, EndsKeeps
<1>4. CASE \E x \in Ids : RejectRollback(x)
  <2>1. Ends("rejected")  BY <1>4 DEF RejectRollback
  <2> QED  BY <2>1, EndsKeeps
<1>5. CASE Unchanged
  <2>1. Ends("ok") /\ phase = "operate" /\ plan = <<>>  BY <1>5 DEF Unchanged, At
  <2> QED  BY <2>1, EndsKeeps
<1>6. CASE Finish
  <2>1. Ends("ok") /\ phase = "finish" /\ plan = <<>>  BY <1>6 DEF Finish, At
  <2> QED  BY <2>1, EndsKeeps
<1> QED  BY <1>1, <1>2, <1>3, <1>4, <1>5, <1>6 DEF Operate

\* Every part of recovery.
LEMMA RecoverKeeps ==
    ASSUME MemInv, Recover
    PROVE  MemInv'
  BY SweepKeeps, FinishPendingKeeps, NothingPendingKeeps, SettleKeeps, RefuseKeeps DEF Recover

\* Which write is next, and that it is the next.
LEMMA Performed ==
    ASSUME MemInv, Perform
    PROVE  /\ W \in Writes /\ Next1(W)
           /\ \/ W.do = "mkdir" /\ MakeDirectory
              \/ W.do = "preimage" /\ SavePreimage
              \/ W.do = "manifest" /\ WriteManifest
              \/ W.do \in {"apply", "restore"} /\ WriteTarget
              \/ W.do = "verify" /\ Verify
              \/ W.do = "head" /\ WriteHead
              \/ W.do = "event" /\ RecordEvent
              \/ W.do = "purge" /\ PurgePreimage
              \/ W.do = "rmdir" /\ RemoveDirectory
<1>1. phase # "idle" /\ plan # <<>> /\ Continue
  BY DEF Perform, MakeDirectory, SavePreimage, WriteManifest, WriteTarget, Verify, WriteHead,
         RecordEvent, PurgePreimage, RemoveDirectory, Doing
<1>2. W \in Writes  BY <1>1, NextWrite DEF MemInv, Continue
<1>3. Next1(W)  BY <1>1, <1>2 DEF Next1
<1>4. \/ W.do = "mkdir" /\ MakeDirectory
      \/ W.do = "preimage" /\ SavePreimage
      \/ W.do = "manifest" /\ WriteManifest
      \/ W.do \in {"apply", "restore"} /\ WriteTarget
      \/ W.do = "verify" /\ Verify
      \/ W.do = "head" /\ WriteHead
      \/ W.do = "event" /\ RecordEvent
      \/ W.do = "purge" /\ PurgePreimage
      \/ W.do = "rmdir" /\ RemoveDirectory
  BY DEF Perform, MakeDirectory, SavePreimage, WriteManifest, WriteTarget, Verify, WriteHead,
         RecordEvent, PurgePreimage, RemoveDirectory, Doing, W
<1> QED  BY <1>2, <1>3, <1>4

\* Every write keeps it, and a target is only written for a known action.
LEMMA PerformKeeps ==
    ASSUME MemInv, Perform
    PROVE  /\ MemInv'
           /\ file' # file => \E x \in Pending : Known(x)
<1>1. PICK u \in Writes : u = W  BY Performed
<1>2. Next1(u)  BY <1>1, Performed
<1>3. CASE u.do = "mkdir" /\ MakeDirectory
  BY <1>2, <1>3, MakeDirectoryKeeps DEF MakeDirectory
<1>4. CASE u.do = "preimage" /\ SavePreimage
  BY <1>2, <1>4, SavePreimageKeeps DEF SavePreimage
<1>5. CASE u.do = "manifest" /\ WriteManifest
  BY <1>2, <1>5, WriteManifestKeeps DEF WriteManifest
<1>6. CASE u.do \in {"apply", "restore"} /\ WriteTarget
  BY <1>2, <1>6, WriteTargetKeeps
<1>7. CASE u.do = "verify" /\ Verify
  BY <1>2, <1>7, VerifyKeeps DEF Verify
<1>8. CASE u.do = "head" /\ WriteHead
  BY <1>2, <1>8, WriteHeadKeeps, RemoveHeadKeeps DEF WriteHead
<1>9. CASE u.do = "event" /\ RecordEvent
  BY <1>2, <1>9, RecordEventKeeps DEF RecordEvent
<1>10. CASE u.do = "purge" /\ PurgePreimage
  BY <1>2, <1>10, PurgePreimageKeeps DEF PurgePreimage
<1>11. CASE u.do = "rmdir" /\ RemoveDirectory
  BY <1>2, <1>11, RemoveDirectoryKeeps DEF RemoveDirectory
<1> QED  BY <1>1, <1>3, <1>4, <1>5, <1>6, <1>7, <1>8, <1>9, <1>10, <1>11, Performed

\* What happens to a process from outside.
LEMMA OutsideKeeps ==
    ASSUME MemInv, Begin \/ Interrupt \/ (\E t \in Targets : Edit(t))
    PROVE  MemInv'
<1>1. CASE Begin
  <2>1. plan = <<>> /\ file \in Contents /\ new \in Contents /\ edits \in Nat
    BY <1>1 DEF Begin, MemInv, MemoryShape
  <2>2. BodiesOfHead'  BY <1>1 DEF Begin, BodiesOfHead
  <2> QED  BY <1>1, <2>1, <2>2, IdleKeeps DEF Begin, disk
<1>2. CASE Interrupt
  <2>1. file \in Contents /\ Blank \in Contents /\ edits \in Nat
    BY DEF MemInv, MemoryShape, Blank, Contents
  <2>2. BodiesOfHead'  BY <1>2 DEF Interrupt, BodiesOfHead
  <2> QED  BY <1>2, <2>1, <2>2, IdleKeeps DEF Interrupt
<1>3. CASE \E t \in Targets : Edit(t)
  <2>1. PICK t \in Targets : Edit(t)  BY <1>3
  <2>2. /\ plan = <<>> /\ file \in Contents /\ new \in Contents /\ edits \in Nat /\ phase = "idle"
        /\ file' = [file EXCEPT ![t] = Foreign] /\ edits' = edits + 1
        /\ UNCHANGED <<action, temp, head, ledger, phase, new, plan, outcome>>
    BY <2>1 DEF Edit, MemInv, MemoryShape
  <2>3. file' \in Contents  BY <2>2 DEF Contents
  <2>4. BodiesOfHead'  BY <2>2 DEF BodiesOfHead, MemInv
  <2> QED  BY <2>2, <2>3, <2>4, IdleKeeps
<1> QED  BY <1>1, <1>2, <1>3
-----------------------------------------------------------------------------
(* The theorems that hold whatever is edited.                              *)

\* Nothing has happened and nothing is to be done.
LEMMA InitKeeps == Init => MemInv
<1> SUFFICES ASSUME Init  PROVE MemInv
  OBVIOUS
<1>1. /\ file = Blank /\ action = [id \in Ids |-> NoAction] /\ head = NoId /\ ledger = {}
      /\ phase = "idle" /\ new = Blank /\ plan = <<>> /\ edits = 0
  BY DEF Init
<1>2. Blank \in Contents /\ NoAction \in Actions
  BY DEF Blank, Contents, NoAction, Actions, States
<1>3. \A x \in Ids : action[x] = NoAction /\ State(x) = "none" /\ action[x].saved = {}
  BY <1>1 DEF State, NoAction
<1>4. Pending = {} /\ Todo = {}  BY <1>1, <1>3 DEF Pending, InState, State, Todo
<1>5. MemoryShape  BY <1>1, <1>2 DEF MemoryShape, Phases
<1>6. Images
  <2>1. \A x \in Ids : action[x].after = action[x].before  BY <1>3 DEF NoAction
  <2> QED  BY <1>3, <2>1 DEF Images, Live, Bodies
<1>7. Heads  BY <1>1, <1>3, <1>4 DEF Heads, Stranded
<1>8. LedgerTruthful  BY <1>1, <1>3 DEF LedgerTruthful, State
<1>9. PlanSafe  BY <1>1 DEF PlanSafe
<1>10. Owed /\ Together
  BY <1>1, <1>4 DEF Owed, OwedActions, OwedHead, OwedSwap, Later, Together
<1>11. BodiesOfHead  BY <1>3 DEF BodiesOfHead
<1> QED  BY <1>5, <1>6, <1>7, <1>8, <1>9, <1>10, <1>11 DEF MemInv

\* A step that changes nothing.
LEMMA StutterKeeps ==
    ASSUME MemInv, UNCHANGED vars
    PROVE  MemInv'
<1>1. /\ file' = file /\ action' = action /\ head' = head /\ ledger' = ledger /\ phase' = phase
      /\ new' = new /\ plan' = plan /\ outcome' = outcome /\ edits' = edits
  BY DEF vars
<1>2. Todo' = Todo /\ Pending' = Pending /\ Stranded' = Stranded /\ \A i : Earlier(i)' = Earlier(i)
  BY <1>1 DEF Todo, Pending, InState, Stranded, State, Earlier
<1>3. MemoryShape' /\ Images' /\ LedgerTruthful'
  BY <1>1 DEF MemInv, MemoryShape, Images, LedgerTruthful, State, Bodies
<1>4. Heads'  BY <1>1, <1>2 DEF MemInv, Heads, State
<1>5. PlanSafe'
  <2> SUFFICES ASSUME NEW i \in DOMAIN plan, NEW w \in {plan[i]}, NEW F \in {Earlier(i)}
               PROVE  Safe(w, F)'
    BY <1>1, <1>2 DEF PlanSafe
  <2>1. Safe(w, F)  BY DEF MemInv, PlanSafe
  <2>2. \A x : State(x)' = State(x)  BY <1>1 DEF State
  <2>3. \A x : /\ Before(x)' <=> Before(x)
               /\ After(x)' <=> After(x)
               /\ Known(x)' <=> Known(x)
               /\ Bodies(x)' = Bodies(x)
    BY <1>1 DEF Before, After, Known, Bodies
  <2> DEFINE x == w.id
  <2>4. SafeMkdir(x)' <=> SafeMkdir(x)  BY <1>1, <1>2, <2>2 DEF SafeMkdir
  <2>5. SafePreimage(x, w.arg, F)' <=> SafePreimage(x, w.arg, F)
    BY <1>1, <2>2, <2>3 DEF SafePreimage, Only
  <2>6. SafePrepared(x, F)' <=> SafePrepared(x, F)
    BY <1>1, <1>2, <2>2, <2>3 DEF SafePrepared, Only
  <2>7. SafeUndoing(x)' <=> SafeUndoing(x)  BY <1>1, <1>2, <2>2, <2>3 DEF SafeUndoing
  <2>8. SafeCommitted(x, F)' <=> SafeCommitted(x, F)  BY <1>1, <2>2 DEF SafeCommitted, Only
  <2>9. SafeSuperseded(x, F)' <=> SafeSuperseded(x, F)  BY <1>1, <2>2 DEF SafeSuperseded
  <2>10. SafeRestored(x, F)' <=> SafeRestored(x, F)  BY <2>3 DEF SafeRestored, Only, OnlyOf
  <2>11. SafeAborted(x, F)' <=> SafeAborted(x, F)
    BY <1>1, <2>2, <2>10 DEF SafeAborted, Only
  <2>12. SafeRolledBack(x, F)' <=> SafeRolledBack(x, F)
    BY <1>1, <2>2, <2>10 DEF SafeRolledBack, Only
  <2>13. SafeApply(x, F)' <=> SafeApply(x, F)
    BY <1>1, <2>2, <2>3 DEF SafeApply, Only, OnlyOf
  <2>14. SafeRestore(x, F)' <=> SafeRestore(x, F)
    BY <1>2, <2>2, <2>3 DEF SafeRestore, Only, OnlyOf
  <2>15. SafeVerifyAfter(x, F)' <=> SafeVerifyAfter(x, F)  BY <2>2 DEF SafeVerifyAfter, Only
  <2>16. SafeHead(x, F)' <=> SafeHead(x, F)
    BY <1>1, <2>2, <2>3 DEF SafeHead, Only, OnlyOf
  <2>17. SafeNoHead(F)' <=> SafeNoHead(F)  BY <2>2 DEF SafeNoHead, Only
  <2>18. SafeCommitEvent(x, F)' <=> SafeCommitEvent(x, F)  BY <2>2 DEF SafeCommitEvent, Only
  <2>19. SafePurge(x, F)' <=> SafePurge(x, F)  BY <1>1, <2>2 DEF SafePurge, Only
  <2>20. SafeRmdir(x, F)' <=> SafeRmdir(x, F)  BY <1>1, <2>2 DEF SafeRmdir, Only
  <2>21. SafeManifest(x, w.arg, F)' <=> SafeManifest(x, w.arg, F)
    BY <2>6, <2>7, <2>8, <2>9, <2>11, <2>12 DEF SafeManifest
  <2> QED
    BY ONLY <2>1, <2>4, <2>5, <2>13, <2>14, <2>15, <2>16, <2>17, <2>18, <2>19, <2>20, <2>21 DEF Safe
<1>6. Owed' /\ Together' /\ BodiesOfHead'
  BY <1>1, <1>2 DEF MemInv, Owed, OwedActions, OwedHead, OwedSwap, Together, BodiesOfHead, State
<1> QED  BY <1>3, <1>4, <1>5, <1>6 DEF MemInv

\* Every step keeps the invariant.
LEMMA StepKeeps ==
    ASSUME MemInv, [Next]_vars
    PROVE  MemInv'
BY RecoverKeeps, OperateKeeps, PerformKeeps, OutsideKeeps, StutterKeeps DEF Next

\* What a write may do to the disk, what the rest of the plan owes it, and what
\* the disk holds between two writes, hold in every state.
THEOREM WritesStaySafe == Spec => []MemInv
<1>1. Init => MemInv  BY InitKeeps
<1>2. MemInv /\ [Next]_vars => MemInv'  BY StepKeeps
<1> QED  BY <1>1, <1>2, PTL DEF Spec

\* No write of an operation or of a recovery destroys contents that are in
\* neither image of the action it belongs to, whatever was edited when.
THEOREM EditsAreNotOverwritten == Spec => EditsNotOverwritten
<1>1. MemInv /\ [Next]_vars =>
          [edits' = edits /\ file' # file => \E id \in Pending : Known(id)]_vars
  <2> SUFFICES ASSUME MemInv, Next, edits' = edits, file' # file
               PROVE  \E id \in Pending : Known(id)
    OBVIOUS
  <2>1. CASE Perform  BY <2>1, PerformKeeps
  <2>2. CASE Recover \/ Operate \/ Begin \/ Interrupt
    BY <2>2 DEF Recover, Operate, Begin, Interrupt, Sweep, FinishPending, NothingPending, Settle,
                Refuse, Commit, Rollback, RollbackAgain, RejectRollback, Unchanged, Finish, Ends,
                Enter, disk
  <2>3. CASE \E t \in Targets : Edit(t)  BY <2>3 DEF Edit, MemInv, MemoryShape
  <2> QED  BY <2>1, <2>2, <2>3 DEF Next
<1> QED  BY <1>1, WritesStaySafe, PTL DEF Spec, EditsNotOverwritten

\* A set whose members are all equal has one at most.
LEMMA AtMostOne ==
    ASSUME NEW S, \A x, y \in S : x = y
    PROVE  Cardinality(S) \in {0, 1}
<1>1. CASE S = {}  BY <1>1, FS_EmptySet
<1>2. CASE S # {}
  <2>1. PICK x \in S : TRUE  BY <1>2
  <2>2. S = {x}  BY <2>1
  <2> QED  BY <2>2, FS_Singleton
<1> QED  BY <1>1, <1>2

\* What the invariant says of the disk.
LEMMA DiskIsInOrder == MemInv => LedgerTruthful /\ OneIncomplete /\ BodiesBounded
<1> SUFFICES ASSUME MemInv  PROVE LedgerTruthful /\ OneIncomplete /\ BodiesBounded
  OBVIOUS
<1>1. LedgerTruthful  BY DEF MemInv
<1>2. OneIncomplete
  <2>1. Cardinality(Pending) \in {0, 1}  BY AtMostOne DEF MemInv, Heads
  <2> QED  BY <2>1 DEF OneIncomplete
<1>3. BodiesBounded
  <2> DEFINE S == {id \in Ids : action[id].saved # {}}
  <2> SUFFICES ASSUME phase = "idle", outcome = "ok"  PROVE Cardinality(S) <= 1
    BY DEF BodiesBounded
  <2>1. \A x, y \in S : x = y  BY DEF MemInv, BodiesOfHead
  <2> HIDE DEF S
  <2>2. Cardinality(S) \in {0, 1}  BY <2>1, AtMostOne
  <2> QED  BY <2>2
<1> QED  BY <1>1, <1>2, <1>3

\* The ledger is true, two interrupted actions never meet, and an operation
\* that went through leaves one action's old contents at most on the disk:
\* the parts of UndoSound that no edit can break.
THEOREM DiskStaysInOrder ==
    Spec => [](LedgerTruthful /\ OneIncomplete /\ BodiesBounded)
  BY DiskIsInOrder, WritesStaySafe, PTL

-----------------------------------------------------------------------------
(* What holds as long as no edit gives a target back what an action under  *)
(* way has found in it.                                                    *)

NotPutBack ==
    edits' # edits =>
        \A id \in Pending, t \in Targets : file'[t] # file[t] => file'[t] # action[id].before[t]
NothingPutBack == [][NotPutBack]_vars

\* No target of x holds what a commit of x would have to replace.
Whole(x) ==
    \A t \in Targets : file[t] = action[x].before[t] => action[x].after[t] = action[x].before[t]

\* The action that HEAD names is never aborted: its targets are written, and
\* no recovery restores them.
HeadWhole ==
    /\ ~Stranded
    /\ head # NoId /\ State(head) = "prepared" => Whole(head)
    /\ \A x \in Ids : Manifest(x, "aborted") \in Todo => head # x
    /\ \A x \in Ids : State(x) = "prepared" /\ (\E t \in Targets : Write("restore", x, t) \in Todo) =>
           head # x

\* What recovery has refused is still there when the next operation begins.
Refused ==
    outcome = "refused" => phase = "idle" /\ (temp # {} \/ \E id \in Pending : ~Known(id))

UndoInv == MemInv /\ HeadWhole /\ Refused

\* What neither turns an action nor writes a target of HEAD.
LEMMA WholeStays ==
    ASSUME HeadWhole, Todo' \subseteq Todo, head' = head, head \in Ids \cup {NoId},
           head # NoId /\ State(head) = "prepared" => file' = file,
           \A y \in Ids :
               /\ State(y)' = "prepared" =>
                      /\ State(y) = "prepared"
                      /\ action'[y].before = action[y].before /\ action'[y].after = action[y].after
               /\ State(y)' = "aborted" => State(y) = "aborted"
    PROVE  HeadWhole'
<1>1. ~Stranded'  BY DEF HeadWhole, Stranded
<1>2. head' # NoId /\ State(head)' = "prepared" => Whole(head)'  BY DEF HeadWhole, Whole
<1>3. \A x \in Ids : Manifest(x, "aborted") \in Todo' => head' # x  BY DEF HeadWhole
<1>4. \A x \in Ids :
          State(x)' = "prepared" /\ (\E t \in Targets : Write("restore", x, t) \in Todo') => head' # x
  BY DEF HeadWhole
<1> QED  BY <1>1, <1>2, <1>3, <1>4 DEF HeadWhole

\* The writes that leave HEAD and the manifests alone.
LEMMA FrameKeepsWhole ==
    ASSUME MemInv, HeadWhole, NEW u \in Writes, Next1(u),
           \/ u.do = "mkdir" /\ MakeDirectory
           \/ u.do = "preimage" /\ SavePreimage
           \/ u.do = "verify" /\ Verify
           \/ u.do = "event" /\ RecordEvent
           \/ u.do = "purge" /\ PurgePreimage
           \/ u.do = "rmdir" /\ RemoveDirectory
    PROVE  HeadWhole'
<1>1. /\ MemoryShape /\ Safe(u, {}) /\ Todo' \subseteq Todo /\ u = W  BY Rest DEF Next1, MemInv
<1>2. u.do \notin {"verify", "event"} => u.id \in Ids  BY <1>1 DEF Safe
<1>3. head' = head /\ file' = file
  BY DEF MakeDirectory, SavePreimage, Verify, RecordEvent, PurgePreimage, RemoveDirectory
<1>4. ASSUME NEW y \in Ids
      PROVE  /\ State(y)' = "prepared" =>
                    /\ State(y) = "prepared"
                    /\ action'[y].before = action[y].before /\ action'[y].after = action[y].after
             /\ State(y)' = "aborted" => State(y) = "aborted"
  <2>1. CASE u.do = "mkdir" /\ MakeDirectory
    <3>1. action' = [action EXCEPT ![u.id] = [state |-> "unprepared", parent |-> head,
                                               before |-> file, after |-> new, saved |-> {}]]
      BY <2>1, <1>1 DEF MakeDirectory
    <3> QED  BY <3>1, <1>1 DEF State, MemoryShape
  <2>2. CASE u.do = "preimage" /\ SavePreimage
    <3>1. action' = [action EXCEPT ![u.id].saved = @ \cup {u.arg}]
      BY <2>2, <1>1 DEF SavePreimage
    <3> QED  BY <3>1, <1>1 DEF State, MemoryShape, Actions
  <2>3. CASE u.do \in {"verify", "event"} /\ (Verify \/ RecordEvent)
    <3>1. action' = action  BY <2>3 DEF Verify, RecordEvent
    <3> QED  BY <3>1 DEF State
  <2>4. CASE u.do = "purge" /\ PurgePreimage
    <3>1. action' = [action EXCEPT ![u.id] = Purged(@, u.arg)]
      BY <2>4, <1>1 DEF PurgePreimage
    <3>2. action[y] \in Actions  BY <1>1 DEF MemoryShape
    <3>3. /\ Purged(action[y], u.arg).state = action[y].state
          /\ action[y].state = "prepared" =>
                 /\ Purged(action[y], u.arg).before = action[y].before
                 /\ Purged(action[y], u.arg).after = action[y].after
      BY <3>2 DEF Purged, NoAction, Actions, Closed
    <3>4. action'[y] = action[y] \/ action'[y] = Purged(action[y], u.arg)
      BY <3>1, <1>1 DEF MemoryShape
    <3> QED  BY <3>3, <3>4 DEF State
  <2>5. CASE u.do = "rmdir" /\ RemoveDirectory
    <3>1. action' = [action EXCEPT ![u.id] = NoAction]  BY <2>5, <1>1 DEF RemoveDirectory
    <3> QED  BY <3>1, <1>1 DEF State, MemoryShape, NoAction
  <2> QED  BY <2>1, <2>2, <2>3, <2>4, <2>5
<1> QED  BY <1>1, <1>3, <1>4, WholeStays DEF MemoryShape

\* A target is written only while HEAD is not the prepared one.
LEMMA TargetKeepsWhole ==
    ASSUME MemInv, HeadWhole, NEW u \in Writes, Next1(u), u.do \in {"apply", "restore"}, WriteTarget
    PROVE  HeadWhole'
<1>1. /\ MemoryShape /\ Heads /\ Safe(u, {}) /\ Todo' \subseteq Todo /\ u = W /\ u \in Todo
  BY Rest DEF Next1, MemInv
<1>2. PICK x \in Ids, t \in Targets : u = Write(u.do, x, t)
  <2>1. u.id \in Ids /\ u.arg \in Targets  BY <1>1 DEF Safe
  <2> QED  BY <2>1, Written
<1>3. head' = head /\ action' = action  BY DEF WriteTarget
<1>4. ~(head # NoId /\ State(head) = "prepared")
  <2> SUFFICES ASSUME head # NoId, State(head) = "prepared"  PROVE FALSE
    OBVIOUS
  <2>1. head \in Ids /\ head \in Pending
    BY <1>1 DEF MemoryShape, Pending, InState, State
  <2>2. CASE u.do = "apply"
    <3>1. SafeApply(x, {})  BY <1>1, <1>2, <2>2 DEF Safe, Write
    <3>2. head # x /\ State(x) = "prepared"  BY <3>1 DEF SafeApply
    <3> QED  BY <2>1, <3>2, <1>1 DEF Heads, Pending, InState, State
  <2>3. CASE u.do = "restore"
    <3>1. SafeRestore(x, {})  BY <1>1, <1>2, <2>3 DEF Safe, Write
    <3>2. x \in Pending  BY <3>1 DEF SafeRestore
    <3>3. x = head  BY <2>1, <3>2, <1>1 DEF Heads
    <3> QED  BY <1>1, <1>2, <2>1, <2>3, <3>3 DEF HeadWhole
  <2> QED  BY <2>2, <2>3
<1> QED  BY <1>1, <1>3, <1>4, WholeStays DEF MemoryShape, State

\* HEAD is written when the targets are.
LEMMA HeadKeepsWhole ==
    ASSUME MemInv, HeadWhole, NEW u \in Writes, Next1(u), u.do = "head", WriteHead
    PROVE  HeadWhole'
<1>1. /\ MemoryShape /\ Safe(u, {}) /\ Todo' \subseteq Todo /\ u = W
      /\ \A w \in Todo' : \E E \in SUBSET Todo' : Safe(w, E \cup {u})
  BY Rest DEF Next1, MemInv
<1>2. head' = u.id /\ action' = action /\ file' = file  BY <1>1 DEF WriteHead
<1>3. CASE u.id = NoId
  BY <1>2, <1>3, MemoryAssumption DEF HeadWhole, Stranded
<1>4. CASE u.id # NoId
  <2>1. PICK x \in Ids : x = u.id  BY <1>4 DEF Writes
  <2>2. SafeHead(x, {})  BY <1>1, <1>4, <2>1 DEF Safe
  <2>3. After(x) /\ State(x) = "prepared"  BY <2>2 DEF SafeHead
  <2>4. ~Stranded' /\ Whole(x)'
    BY <1>2, <2>1, <2>3 DEF Stranded, State, Whole, After
  <2>5. \A y \in Ids : Manifest(y, "aborted") \notin Todo'
    <3> SUFFICES ASSUME NEW y \in Ids, Manifest(y, "aborted") \in Todo'  PROVE FALSE
      OBVIOUS
    <3>1. PICK w \in Todo' : w = Manifest(y, "aborted")  OBVIOUS
    <3>2. PICK E \in SUBSET Todo' : Safe(w, E \cup {u})  BY <1>1
    <3>3. w.do = "manifest" /\ w.id = y /\ w.arg = "aborted"  BY <3>1 DEF Manifest, Write
    <3>4. SafeAborted(y, E \cup {u})  BY <3>2, <3>3 DEF Safe, SafeManifest
    <3>5. Only(E \cup {u}, "head", {})  BY <3>4 DEF SafeAborted
    <3> QED  BY <3>5 DEF Only
  <2>6. \A y \in Ids, t \in Targets : Write("restore", y, t) \notin Todo'
    <3> SUFFICES ASSUME NEW y \in Ids, NEW t \in Targets, Write("restore", y, t) \in Todo'
                 PROVE  FALSE
      OBVIOUS
    <3>1. PICK w \in Todo' : w = Write("restore", y, t)  OBVIOUS
    <3>2. PICK E \in SUBSET Todo' : Safe(w, E \cup {u})  BY <1>1
    <3>3. w.do = "restore" /\ w.id = y  BY <3>1 DEF Write
    <3>4. SafeRestore(y, E \cup {u})  BY <3>2, <3>3 DEF Safe
    <3>5. Only(E \cup {u}, "head", {})  BY <3>4 DEF SafeRestore
    <3> QED  BY <3>5 DEF Only
  <2> QED  BY <1>2, <2>1, <2>4, <2>5, <2>6 DEF HeadWhole
<1> QED  BY <1>3, <1>4

\* No manifest of HEAD turns to aborted.
LEMMA ManifestKeepsWhole ==
    ASSUME MemInv, HeadWhole, NEW u \in Writes, Next1(u), u.do = "manifest", WriteManifest
    PROVE  HeadWhole'
<1>1. /\ MemoryShape /\ Safe(u, {}) /\ Todo' \subseteq Todo /\ u = W /\ u \in Todo
  BY Rest DEF Next1, MemInv
<1>2. PICK x \in Ids, s \in States : x = u.id /\ s = u.arg
  <2>1. u.id \in Ids /\ SafeManifest(u.id, u.arg, {})  BY <1>1 DEF Safe
  <2>2. u.arg \in States  BY <2>1 DEF SafeManifest, Closing, States
  <2> QED  BY <2>1, <2>2
<1>3. /\ head' = head /\ file' = file /\ action' = [action EXCEPT ![x].state = s]
  BY <1>1, <1>2 DEF WriteManifest
<1>4. /\ State(x)' = s
      /\ \A y \in Ids : /\ y # x => State(y)' = State(y)
                        /\ action'[y].before = action[y].before /\ action'[y].after = action[y].after
  BY <1>1, <1>3 DEF State, MemoryShape, Actions
<1>5. s = "prepared" => head # x
  <2> SUFFICES ASSUME s = "prepared", head = x  PROVE FALSE
    OBVIOUS
  <2>1. SafePrepared(x, {})  BY <1>1, <1>2 DEF Safe, SafeManifest
  <2>2. head # NoId => State(head) = "committed"  BY <2>1 DEF SafePrepared
  <2>3. State(x) = "unprepared"
    <3>1. Write("mkdir", x, "") \notin {}  OBVIOUS
    <3> QED  BY <2>1, <3>1 DEF SafePrepared
  <2> QED  BY <2>2, <2>3, MemoryAssumption
<1>6. s = "aborted" => head # x
  <2> SUFFICES ASSUME s = "aborted"  PROVE head # x
    OBVIOUS
  <2>1. u = Manifest(x, "aborted")  BY <1>2, Written DEF Manifest
  <2> QED  BY <1>1, <2>1 DEF HeadWhole
<1>7. head # NoId => head \in Ids  BY <1>1 DEF MemoryShape
<1>8. ~Stranded'
  BY <1>3, <1>4, <1>6, <1>7 DEF HeadWhole, Stranded
<1>9. head' # NoId /\ State(head)' = "prepared" => Whole(head)'
  <2> SUFFICES ASSUME head # NoId, State(head)' = "prepared"  PROVE Whole(head)'
    BY <1>3
  <2>1. head # x /\ State(head) = "prepared"  BY <1>3, <1>4, <1>5, <1>7 DEF State
  <2> QED  BY <2>1, <1>3, <1>4, <1>7 DEF HeadWhole, Whole
<1>10. \A y \in Ids : Manifest(y, "aborted") \in Todo' => head' # y
  BY <1>1, <1>3 DEF HeadWhole
<1>11. \A y \in Ids :
          State(y)' = "prepared" /\ (\E t \in Targets : Write("restore", y, t) \in Todo') => head' # y
  <2> SUFFICES ASSUME NEW y \in Ids, State(y)' = "prepared", y # x,
                      \E t \in Targets : Write("restore", y, t) \in Todo'
               PROVE  head # y
    BY <1>3, <1>4, <1>5
  <2>1. State(y) = "prepared"  BY <1>4
  <2> QED  BY <1>1, <2>1 DEF HeadWhole
<1> QED  BY <1>8, <1>9, <1>10, <1>11 DEF HeadWhole

\* Every write.
LEMMA PerformKeepsWhole ==
    ASSUME MemInv, HeadWhole, Perform
    PROVE  HeadWhole'
<1>1. PICK u \in Writes : u = W  BY Performed
<1>2. Next1(u)  BY <1>1, Performed
<1>3. CASE u.do = "manifest" /\ WriteManifest  BY <1>2, <1>3, ManifestKeepsWhole
<1>4. CASE u.do \in {"apply", "restore"} /\ WriteTarget  BY <1>2, <1>4, TargetKeepsWhole
<1>5. CASE u.do = "head" /\ WriteHead  BY <1>2, <1>5, HeadKeepsWhole
<1>6. CASE \/ u.do = "mkdir" /\ MakeDirectory
           \/ u.do = "preimage" /\ SavePreimage
           \/ u.do = "verify" /\ Verify
           \/ u.do = "event" /\ RecordEvent
           \/ u.do = "purge" /\ PurgePreimage
           \/ u.do = "rmdir" /\ RemoveDirectory
  BY <1>2, <1>6, FrameKeepsWhole
<1> QED  BY <1>1, <1>3, <1>4, <1>5, <1>6, Performed

\* What is left to do is safe to do.
LEMMA TodoSafe ==
    ASSUME MemInv'
    PROVE  \A w \in Todo' : \E E \in SUBSET Todo' : Safe(w, E)'
<1> SUFFICES ASSUME NEW w \in Todo'  PROVE \E E \in SUBSET Todo' : Safe(w, E)'
  OBVIOUS
<1>1. PICK i \in DOMAIN plan' : w = plan'[i]  BY DEF Todo
<1>2. PICK E : E = Earlier(i)'  OBVIOUS
<1>3. Safe(w, E)'  BY <1>1, <1>2 DEF MemInv, PlanSafe
<1>4. E \subseteq Todo'
  <2>1. plan' \in Seq(Writes)  BY DEF MemInv, MemoryShape
  <2>2. DOMAIN plan' = 1..Len(plan') /\ Len(plan') \in Nat  BY <2>1
  <2>3. 1..(i - 1) \subseteq DOMAIN plan'  BY <2>2
  <2> QED  BY <1>2, <2>3 DEF Earlier, Todo
<1> QED  BY <1>3, <1>4

\* What only makes a plan.
LEMMA PlanKeepsWhole ==
    ASSUME HeadWhole, UNCHANGED disk, head \in Ids \cup {NoId},
           \A x \in Ids : Manifest(x, "aborted") \in Todo' => head # x,
           \A x \in Ids, t \in Targets :
               State(x) = "prepared" /\ Write("restore", x, t) \in Todo' => head # x
    PROVE  HeadWhole'
<1>1. action' = action /\ head' = head /\ file' = file /\ \A x : State(x)' = State(x)
  BY DEF disk, State
<1>2. ~Stranded'  BY <1>1 DEF HeadWhole, Stranded
<1>3. head' # NoId /\ State(head)' = "prepared" => Whole(head)'
  BY <1>1 DEF HeadWhole, Whole, State
<1> QED  BY <1>1, <1>2, <1>3 DEF HeadWhole

\* No action under way, and so none to restore; and no recovery to abort one.
LEMMA QuietKeepsWhole ==
    ASSUME MemInv, MemInv', HeadWhole, UNCHANGED disk,
           phase \in Later, plan = <<>>, phase' # "settle"
    PROVE  HeadWhole'
<1>1. Pending = {}
  <2>1. Todo = {}  BY DEF Todo
  <2> QED  BY <2>1 DEF MemInv, Owed, OwedActions, Pending, InState
<1>2. \A x \in Ids : State(x) # "prepared" /\ State(x)' = State(x)
  BY <1>1 DEF Pending, InState, State, disk
<1>3. \A x \in Ids : Manifest(x, "aborted") \notin Todo'
  <2> SUFFICES ASSUME NEW x \in Ids, Manifest(x, "aborted") \in Todo'  PROVE FALSE
    OBVIOUS
  <2>1. PICK w \in Todo' : w = Manifest(x, "aborted")  OBVIOUS
  <2>2. PICK E \in SUBSET Todo' : Safe(w, E)'  BY TodoSafe
  <2>3. w.do = "manifest" /\ w.id = x /\ w.arg = "aborted"  BY <2>1 DEF Manifest, Write
  <2>4. SafeAborted(x, E)'  BY <2>2, <2>3 DEF Safe, SafeManifest
  <2> QED  BY <2>4 DEF SafeAborted
<1>4. head \in Ids \cup {NoId}  BY DEF MemInv, MemoryShape
<1> QED  BY <1>2, <1>3, <1>4, PlanKeepsWhole

\* Recovery goes forward with the action that HEAD names.
LEMMA FinishKeepsWhole ==
    ASSUME MemInv, MemInv', HeadWhole, NEW x \in Ids, FinishPending(x)
    PROVE  HeadWhole'
<1>1. /\ Pending = {x} /\ Known(x) /\ plan' = FinishPlan(x) /\ UNCHANGED disk
      /\ head \in Ids \cup {NoId}
  BY DEF FinishPending, Recognised, Enter, MemInv, MemoryShape
<1>2. \A y \in Ids : State(y) = "prepared" => y = x
  BY <1>1 DEF Pending, InState, State
<1>3. CASE head = x /\ State(x) = "prepared"
  <2>1. After(x)
    <3>1. Whole(x)  BY <1>3, MemoryAssumption DEF HeadWhole
    <3>2. /\ file \in Contents /\ action[x].after \in Contents
      BY DEF MemInv, MemoryShape, Actions
    <3>3. \A t \in Targets : file[t] = action[x].after[t]  BY <1>1, <3>1 DEF Known, Whole
    <3> QED  BY <3>2, <3>3 DEF After, Contents
  <2>2. plan' = <<Write("head", x, ""), Write("manifest", x, "committed"), Write("event", x, "commit")>>
    BY <1>1, <1>3, <2>1 DEF FinishPlan, Forward, State
  <2>3. \A w \in Todo' : w.do \in {"head", "event"} \/ w = Write("manifest", x, "committed")
    <3>1. PICK a, b, c : /\ a = Write("head", x, "") /\ b = Write("manifest", x, "committed")
                         /\ c = Write("event", x, "commit")
      OBVIOUS
    <3>2. plan' = <<a, b, c>>  BY <2>2, <3>1
    <3>3. plan'[1] = a /\ plan'[2] = b /\ plan'[3] = c /\ DOMAIN plan' = {1, 2, 3}  BY <3>2
    <3>4. Todo' = {a, b, c}  BY <3>3 DEF Todo
    <3>5. a.do = "head" /\ c.do = "event"  BY <3>1 DEF Write
    <3> QED  BY <3>1, <3>4, <3>5
  <2>4. \A y : Manifest(y, "aborted") \notin Todo'  BY <2>3 DEF Manifest, Write
  <2>5. \A y, t : Write("restore", y, t) \notin Todo'  BY <2>3 DEF Write
  <2> QED  BY <1>1, <2>4, <2>5, PlanKeepsWhole
<1>4. CASE ~(head = x /\ State(x) = "prepared")
  <2>1. \A y \in Ids : State(y) = "prepared" => head # y  BY <1>2, <1>4
  <2>2. \A y \in Ids : Manifest(y, "aborted") \in Todo' => head # y
    <3> SUFFICES ASSUME NEW y \in Ids, Manifest(y, "aborted") \in Todo'  PROVE head # y
      OBVIOUS
    <3>1. PICK w \in Todo' : w = Manifest(y, "aborted")  OBVIOUS
    <3>2. PICK E \in SUBSET Todo' : Safe(w, E)'  BY TodoSafe
    <3>3. w.do = "manifest" /\ w.id = y /\ w.arg = "aborted"  BY <3>1 DEF Manifest, Write
    <3>4. SafeAborted(y, E)'  BY <3>2, <3>3 DEF Safe, SafeManifest
    <3>5. State(y)' = "prepared"  BY <3>4 DEF SafeAborted
    <3> QED  BY <1>1, <2>1, <3>5 DEF disk, State
  <2> QED  BY <1>1, <2>1, <2>2, PlanKeepsWhole
<1> QED  BY <1>3, <1>4

\* What leaves nothing to do.
LEMMA IdleKeepsWhole ==
    ASSUME HeadWhole, UNCHANGED disk, head \in Ids \cup {NoId}, plan' = <<>>
    PROVE  HeadWhole'
<1>1. Todo' = {}  BY DEF Todo
<1> QED  BY <1>1, PlanKeepsWhole

\* An edit that puts nothing back.
LEMMA EditKeepsWhole ==
    ASSUME MemInv, HeadWhole, NotPutBack, NEW t \in Targets, Edit(t)
    PROVE  HeadWhole'
<1>1. /\ plan' = <<>> /\ action' = action /\ head' = head /\ edits' # edits
      /\ file \in Contents /\ head \in Ids \cup {NoId}
      /\ file' = [file EXCEPT ![t] = Foreign]
  BY DEF Edit, MemInv, MemoryShape
<1>2. Todo' = {}  BY <1>1 DEF Todo
<1>3. head # NoId /\ State(head) = "prepared" => Whole(head)'
  <2> SUFFICES ASSUME head # NoId, State(head) = "prepared", NEW s \in Targets,
                      file'[s] = action[head].before[s]
               PROVE  action[head].after[s] = action[head].before[s]
    BY <1>1 DEF Whole
  <2>1. head \in Pending  BY <1>1 DEF Pending, InState, State
  <2>2. file'[s] = file[s]  BY <1>1, <2>1 DEF NotPutBack
  <2> QED  BY <2>2 DEF HeadWhole, Whole
<1> QED  BY <1>1, <1>2, <1>3 DEF HeadWhole, Stranded, State

\* Every step keeps HeadWhole.
LEMMA StepKeepsWhole ==
    ASSUME MemInv, MemInv', HeadWhole, [Next]_vars, [NotPutBack]_vars
    PROVE  HeadWhole'
<1>0. head \in Ids \cup {NoId}  BY DEF MemInv, MemoryShape
<1>1. CASE Begin
  <2>1. plan = <<>>  BY <1>1 DEF Begin, MemInv, MemoryShape
  <2> QED  BY <1>0, <1>1, <2>1, IdleKeepsWhole DEF Begin
<1>2. CASE Interrupt
  <2>1. Todo' = {} /\ action' = action /\ head' = head /\ file' = file
    BY <1>2 DEF Interrupt, Todo
  <2> QED  BY <1>0, <2>1, WholeStays DEF State
<1>3. CASE \E t \in Targets : Edit(t)
  <2>1. NotPutBack
    <3>1. CASE NotPutBack  BY <3>1
    <3>2. CASE UNCHANGED vars  BY <3>2 DEF vars, NotPutBack
    <3> QED  BY <3>1, <3>2
  <2> QED  BY <1>3, <2>1, EditKeepsWhole
<1>4. CASE Perform  BY <1>4, PerformKeepsWhole
<1>5. CASE \E x \in Ids : Sweep(x)
  <2>1. PICK x \in Ids : Sweep(x)  BY <1>5
  <2>2. \A w \in Todo' : w.do \in {"purge", "rmdir"}  BY <2>1, SweepKeeps
  <2>3. /\ \A y : Manifest(y, "aborted") \notin Todo'
        /\ \A y, t : Write("restore", y, t) \notin Todo'
    BY <2>2 DEF Manifest, Write
  <2> QED  BY <1>0, <2>1, <2>3, PlanKeepsWhole DEF Sweep, Enter
<1>6. CASE \E x \in Ids : FinishPending(x)  BY <1>6, FinishKeepsWhole
<1>7. CASE NothingPending  BY <1>0, <1>7, IdleKeepsWhole DEF NothingPending, Enter
<1>8. CASE Settle
  BY <1>8, QuietKeepsWhole DEF Settle, At, Enter, Later
<1>9. CASE \E x \in Ids : Commit(x) \/ Rollback(x)
  BY <1>9, QuietKeepsWhole DEF Commit, Rollback, At, Enter, Later
<1>10. CASE Refuse \/ Unchanged \/ Finish \/ \E x \in Ids : RollbackAgain(x) \/ RejectRollback(x)
  <2>1. \E how \in {"refused", "ok", "rejected"} : Ends(how)
    BY <1>10 DEF Refuse, Unchanged, Finish, RollbackAgain, RejectRollback
  <2> QED  BY <1>0, <2>1, IdleKeepsWhole DEF Ends
<1>11. CASE UNCHANGED vars
  <2>1. Todo' = Todo /\ action' = action /\ head' = head /\ file' = file
    BY <1>11 DEF vars, Todo
  <2> QED  BY <1>0, <2>1, WholeStays DEF State
<1> QED
  BY <1>1, <1>2, <1>3, <1>4, <1>5, <1>6, <1>7, <1>8, <1>9, <1>10, <1>11 DEF Next, Recover, Operate

-----------------------------------------------------------------------------
(* Refusals.                                                               *)

\* Recovery gives up on a leftover file or on targets it does not recognise.
LEMMA RefusesForAReason ==
    ASSUME MemInv, HeadWhole, Stuck
    PROVE  temp # {} \/ \E x \in Pending : ~Known(x)
<1>1. MemoryShape /\ Images /\ Heads  BY DEF MemInv
<1>2. ASSUME NEW x \in Ids, ~Readable(x), State(x) \notin {"none", "unprepared"}  PROVE temp # {}
  BY <1>1, <1>2 DEF Readable, Images, State
<1>3. CASE At("scan") /\ Unclear
  <2>1. PICK x \in InState(States \ {"none"}) :
            IF action[x].state = "unprepared" THEN x \in temp ELSE ~Readable(x)
    BY <1>3 DEF Unclear
  <2>2. x \in Ids /\ State(x) # "none"  BY <2>1 DEF InState, State
  <2> QED  BY <2>1, <2>2, <1>2 DEF State
<1>4. CASE Swept /\ (Cardinality(Pending) > 1 \/ \E x \in Pending : ~Recognised(x))
  <2>1. Cardinality(Pending) \in {0, 1}  BY <1>1, AtMostOne DEF Heads
  <2> QED  BY <1>4, <2>1 DEF Recognised
<1>5. CASE At("settle") /\ HeadUnclear
  <2>1. head # NoId /\ head \in Ids /\ Pending = {} /\ ~Stranded
    <3>1. phase = "settle" /\ plan = <<>> /\ head # NoId  BY <1>5 DEF At, HeadUnclear
    <3> QED  BY <1>1, <3>1, Settled DEF MemoryShape, HeadWhole
  <2>2. State(head) = "committed"
    <3>1. State(head) \in Live /\ head \notin Pending  BY <1>1, <2>1 DEF Heads, Stranded
    <3> QED  BY <2>1, <3>1 DEF Live, Pending, InState, State
  <2>3. CASE ~Readable(head)  BY <1>2, <2>1, <2>2, <2>3
  <2>4. CASE action[head].parent # NoId /\ ~Readable(action[head].parent)
    <3>1. State(action[head].parent) \in {"committed", "superseded"}
      BY <1>1, <2>1, <2>4 DEF Heads
    <3>2. action[head].parent \in Ids  BY <1>1, <2>1, <2>4 DEF MemoryShape, Actions
    <3> QED  BY <1>2, <2>4, <3>1, <3>2
  <2> QED  BY <1>5, <2>2, <2>3, <2>4 DEF HeadUnclear, State
<1> QED  BY <1>3, <1>4, <1>5 DEF Stuck

\* An edit does not make a refused action look known.
LEMMA EditKeepsRefused ==
    ASSUME MemInv, Refused, NotPutBack, NEW t \in Targets, Edit(t)
    PROVE  Refused'
<1>1. /\ phase' = "idle" /\ temp' = temp /\ action' = action /\ outcome' = outcome
      /\ edits' # edits /\ file' = [file EXCEPT ![t] = Foreign] /\ file \in Contents
      /\ Images
  BY DEF Edit, MemInv, MemoryShape
<1>2. ASSUME NEW x \in Pending, ~Known(x)  PROVE x \in Pending' /\ ~Known(x)'
  <2>1. x \in Ids /\ x \in Pending'  BY <1>1 DEF Pending, InState
  <2>2. PICK s \in Targets : file[s] \notin {action[x].before[s], action[x].after[s]}
    BY <1>2 DEF Known
  <2>3. CASE file'[s] = file[s]  BY <1>1, <2>1, <2>2, <2>3 DEF Known
  <2>4. CASE file'[s] # file[s]
    <3>1. file'[s] = Foreign  BY <1>1, <2>4 DEF Contents
    <3>2. Foreign # action[x].before[s]  BY <1>1, <2>4, <3>1 DEF NotPutBack
    <3>3. Foreign # action[x].after[s]
      BY <1>1, <2>1, <3>2, MemoryAssumption DEF Images
    <3> QED  BY <1>1, <2>1, <3>1, <3>2, <3>3 DEF Known
  <2> QED  BY <2>3, <2>4
<1> QED  BY <1>1, <1>2 DEF Refused

\* Every step keeps Refused.
LEMMA StepKeepsRefused ==
    ASSUME MemInv, HeadWhole, Refused, [Next]_vars, [NotPutBack]_vars
    PROVE  Refused'
<1>1. CASE Refuse
  <2>1. temp # {} \/ \E x \in Pending : ~Known(x)  BY <1>1, RefusesForAReason DEF Refuse
  <2> QED  BY <1>1, <2>1 DEF Refuse, Ends, disk, Refused, Pending, InState, Known
<1>2. CASE \E t \in Targets : Edit(t)
  <2>1. NotPutBack
    <3>1. CASE NotPutBack  BY <3>1
    <3>2. CASE UNCHANGED vars  BY <3>2 DEF vars, NotPutBack
    <3> QED  BY <3>1, <3>2
  <2> QED  BY <1>2, <2>1, EditKeepsRefused
<1>3. CASE Perform
  <2>1. phase # "idle" /\ outcome' = outcome
    BY <1>3 DEF Perform, MakeDirectory, SavePreimage, WriteManifest, WriteTarget, Verify, WriteHead,
                RecordEvent, PurgePreimage, RemoveDirectory, Doing, Continue
  <2> QED  BY <2>1 DEF Refused
<1>4. CASE Begin \/ Interrupt  BY <1>4 DEF Begin, Interrupt, Refused
<1>5. CASE \/ \E x \in Ids : Sweep(x) \/ FinishPending(x)
           \/ NothingPending \/ Settle
           \/ \E x \in Ids : Commit(x) \/ Rollback(x)
  <2>1. phase # "idle" /\ outcome' = outcome
    BY <1>5 DEF Sweep, FinishPending, NothingPending, Settle, Commit, Rollback, Swept, At, Enter
  <2> QED  BY <2>1 DEF Refused
<1>6. CASE Unchanged \/ Finish \/ \E x \in Ids : RollbackAgain(x) \/ RejectRollback(x)
  <2>1. outcome' # "refused"
    BY <1>6 DEF Unchanged, Finish, RollbackAgain, RejectRollback, Ends
  <2> QED  BY <2>1 DEF Refused
<1>7. CASE UNCHANGED vars
  BY <1>7 DEF vars, Refused, Pending, InState, Known
<1> QED
  BY <1>1, <1>2, <1>3, <1>4, <1>5, <1>6, <1>7 DEF Next, Recover, Operate

\* As long as no edit puts back what an action under way has found, nothing
\* that may have to be restored is lost, the ledger is true, two interrupted
\* actions never meet, and recovery refuses for a reason that somebody can see.
THEOREM UndoStaysSound == Spec /\ NothingPutBack => []UndoSound
<1>1. Init => UndoInv
  <2> SUFFICES ASSUME Init  PROVE UndoInv
    OBVIOUS
  <2>1. MemInv  BY InitKeeps
  <2>2. Todo = {} /\ head = NoId /\ outcome = "ok"  BY DEF Init, Todo
  <2>3. \A x \in Ids : x # NoId  BY MemoryAssumption
  <2>4. HeadWhole  BY <2>2, <2>3 DEF HeadWhole, Stranded
  <2>5. Refused  BY <2>2 DEF Refused
  <2> QED  BY <2>1, <2>4, <2>5 DEF UndoInv
<1>2. UndoInv /\ [Next]_vars /\ [NotPutBack]_vars => UndoInv'
  BY StepKeeps, StepKeepsWhole, StepKeepsRefused DEF UndoInv
<1>3. UndoInv => UndoSound
  <2> SUFFICES ASSUME UndoInv  PROVE UndoSound
    OBVIOUS
  <2>1. MemInv /\ HeadWhole /\ Refused  BY DEF UndoInv
  <2>2. PreimagesKept
    <3>1. \A x \in InState(Live) : Bodies(x) \subseteq action[x].saved
      BY <2>1 DEF MemInv, Images, InState, State
    <3>2. head # NoId => State(head) \in Live
      BY <2>1 DEF MemInv, Heads, HeadWhole, Stranded
    <3> QED  BY <3>1, <3>2 DEF PreimagesKept, State
  <2>3. LedgerTruthful /\ OneIncomplete /\ BodiesBounded  BY <2>1, DiskIsInOrder
  <2>4. RefusalExplained  BY <2>1 DEF Refused, RefusalExplained
  <2> QED  BY <2>2, <2>3, <2>4 DEF UndoSound
<1> QED  BY <1>1, <1>2, <1>3, PTL DEF Spec, NothingPutBack

-----------------------------------------------------------------------------
(* The first edit puts nothing back: nothing else writes what it writes.   *)

Own(f) == \A t \in Targets : f[t] # Foreign
Untouched ==
    edits = 0 => Own(file) /\ Own(new) /\ \A x \in Ids : Own(action[x].before) /\ Own(action[x].after)

\* Nobody has edited an absent file.
LEMMA BlankIsOwn == Own(Blank)  BY MemoryAssumption DEF Own, Blank

\* No write brings contents from outside.
LEMMA WriteKeepsUntouched ==
    ASSUME MemInv, Untouched, Perform
    PROVE  Untouched'
<1>1. PICK u \in Writes : u = W  BY Performed
<1>2. Next1(u) /\ MemoryShape  BY <1>1, Performed DEF MemInv
<1>3. Safe(u, {}) /\ new' = new /\ edits' = edits  BY <1>2, Rest DEF Next1, Continue
<1> SUFFICES ASSUME edits = 0  PROVE Untouched'
  BY <1>3 DEF Untouched
<1>4. Own(file) /\ Own(new) /\ \A x \in Ids : Own(action[x].before) /\ Own(action[x].after)
  BY DEF Untouched
<1>5. ASSUME file' = file, \A x \in Ids : Own(action'[x].before) /\ Own(action'[x].after)
      PROVE  Untouched'
  BY <1>3, <1>4, <1>5 DEF Untouched
<1>6. CASE u.do = "mkdir" /\ MakeDirectory
  <2>1. /\ action' = [action EXCEPT ![u.id] = [state |-> "unprepared", parent |-> head,
                                               before |-> file, after |-> new, saved |-> {}]]
        /\ file' = file
    BY <1>1, <1>6 DEF MakeDirectory
  <2> QED  BY <1>2, <1>4, <1>5, <2>1 DEF MemoryShape
<1>7. CASE u.do \in {"preimage", "manifest"} /\ (SavePreimage \/ WriteManifest)
  <2>1. file' = file /\ \A x \in Ids : /\ action'[x].before = action[x].before
                                       /\ action'[x].after = action[x].after
    BY <1>2, <1>7 DEF SavePreimage, WriteManifest, MemoryShape, Actions
  <2> QED  BY <1>4, <1>5, <2>1
<1>8. CASE u.do \in {"apply", "restore"} /\ WriteTarget
  <2>1. u.id \in Ids  BY <1>3, <1>8 DEF Safe
  <2>2. /\ action' = action
        /\ \E y \in {action[u.id].after[u.arg], action[u.id].before[u.arg]} :
               file' = [file EXCEPT ![u.arg] = y]
    BY <1>1, <1>8 DEF WriteTarget
  <2>3. u.arg \in Targets  BY <1>3, <1>8 DEF Safe
  <2>4. Own(file')  BY <1>2, <1>4, <2>1, <2>2, <2>3 DEF Own, MemoryShape, Contents
  <2> QED  BY <1>3, <1>4, <2>2, <2>4 DEF Untouched
<1>9. CASE u.do \in {"verify", "head", "event"} /\ (Verify \/ WriteHead \/ RecordEvent)
  <2>1. file' = file /\ action' = action  BY <1>9 DEF Verify, WriteHead, RecordEvent
  <2> QED  BY <1>4, <1>5, <2>1
<1>10. CASE u.do \in {"purge", "rmdir"} /\ (PurgePreimage \/ RemoveDirectory)
  <2>1. file' = file  BY <1>10 DEF PurgePreimage, RemoveDirectory
  <2>2. ASSUME NEW x \in Ids
        PROVE  \/ action'[x].before = action[x].before /\ action'[x].after = action[x].after
               \/ action'[x].before = Blank /\ action'[x].after = Blank
    <3>1. action[x] \in Actions  BY <1>2 DEF MemoryShape
    <3>2. \/ action'[x] = action[x] \/ action'[x] = NoAction
          \/ \E t : action'[x] = Purged(action[x], t)
      BY <1>2, <1>10 DEF PurgePreimage, RemoveDirectory, MemoryShape
    <3>3. ASSUME NEW t
          PROVE  \/ /\ Purged(action[x], t).before = action[x].before
                    /\ Purged(action[x], t).after = action[x].after
                 \/ Purged(action[x], t).before = Blank /\ Purged(action[x], t).after = Blank
      <4>1. \/ Purged(action[x], t) = [NoAction EXCEPT !.state = action[x].state]
            \/ Purged(action[x], t) = [action[x] EXCEPT !.saved = @ \ {t}]
        BY DEF Purged
      <4>2. /\ [NoAction EXCEPT !.state = action[x].state].before = Blank
            /\ [NoAction EXCEPT !.state = action[x].state].after = Blank
        BY DEF NoAction
      <4>3. /\ [action[x] EXCEPT !.saved = @ \ {t}].before = action[x].before
            /\ [action[x] EXCEPT !.saved = @ \ {t}].after = action[x].after
        BY <3>1 DEF Actions
      <4> QED  BY <4>1, <4>2, <4>3
    <3>4. NoAction.before = Blank /\ NoAction.after = Blank  BY DEF NoAction
    <3> QED  BY <3>2, <3>3, <3>4
  <2> QED  BY <1>4, <1>5, <2>1, <2>2, BlankIsOwn
<1> QED  BY <1>1, <1>6, <1>7, <1>8, <1>9, <1>10, Performed

\* Every step keeps Untouched.
LEMMA StepKeepsUntouched ==
    ASSUME MemInv, Untouched, [Next]_vars
    PROVE  Untouched'
<1>1. CASE Perform  BY <1>1, WriteKeepsUntouched
<1>2. CASE \E x \in Ids : Commit(x)
  <2>1. /\ new' \in Transformed /\ file' = file /\ action' = action /\ edits' = edits
    BY <1>2 DEF Commit, Enter, disk
  <2>2. Own(file) => Own(new')  BY <2>1, MemoryAssumption DEF Transformed, Own
  <2> QED  BY <2>1, <2>2 DEF Untouched
<1>3. CASE \E t \in Targets : Edit(t)
  <2>1. edits' = edits + 1 /\ edits \in Nat  BY <1>3 DEF Edit, MemInv, MemoryShape
  <2> QED  BY <2>1 DEF Untouched
<1>4. CASE \/ Begin \/ Recover \/ Interrupt \/ Unchanged \/ Finish \/ UNCHANGED vars
           \/ \E x \in Ids : Rollback(x) \/ RollbackAgain(x) \/ RejectRollback(x)
  <2>1. /\ file' = file /\ action' = action /\ edits' = edits
        /\ new' = new \/ new' = Blank
    BY <1>4 DEF Begin, Recover, Interrupt, Unchanged, Finish, vars, Rollback, RollbackAgain,
                RejectRollback, Sweep, FinishPending, NothingPending, Settle, Refuse, Ends, Enter, disk
  <2> QED  BY <2>1, BlankIsOwn DEF Untouched
<1> QED  BY <1>1, <1>2, <1>3, <1>4 DEF Next, Operate

\* The first edit of all puts nothing back.
LEMMA OneEditPutsNothingBack ==
    ASSUME MaxEdits <= 1
    PROVE  Spec => NothingPutBack
<1>1. Init => Untouched
  <2> SUFFICES ASSUME Init  PROVE Untouched
    OBVIOUS
  <2>1. file = Blank /\ new = Blank /\ \A x \in Ids : action[x] = NoAction  BY DEF Init
  <2>2. NoAction.before = Blank /\ NoAction.after = Blank  BY DEF NoAction
  <2> QED  BY <2>1, <2>2, BlankIsOwn DEF Untouched
<1>2. MemInv /\ Untouched /\ [Next]_vars => Untouched'  BY StepKeepsUntouched
<1>3. MemInv /\ Untouched /\ [Next]_vars => [NotPutBack]_vars
  <2> SUFFICES ASSUME MemInv, Untouched, Next, edits' # edits, NEW x \in Pending, NEW t \in Targets,
                      file'[t] # file[t]
               PROVE  file'[t] # action[x].before[t]
    BY DEF NotPutBack
  <2>1. \E s \in Targets : Edit(s)
    <3>1. ~Perform
      BY DEF Perform, MakeDirectory, SavePreimage, WriteManifest, WriteTarget, Verify, WriteHead,
             RecordEvent, PurgePreimage, RemoveDirectory, Continue
    <3>2. ~Begin /\ ~Recover /\ ~Interrupt /\ ~Operate
      BY DEF Begin, Recover, Interrupt, Operate, Unchanged, Finish, Commit, Rollback, RollbackAgain,
             RejectRollback, Sweep, FinishPending, NothingPending, Settle, Refuse, Ends, Enter, disk
    <3> QED  BY <3>1, <3>2 DEF Next
  <2>2. edits = 0 /\ file \in Contents
    BY <2>1, MemoryAssumption DEF Edit, MemInv, MemoryShape
  <2>3. file'[t] = Foreign  BY <2>1, <2>2 DEF Edit, Contents
  <2>4. x \in Ids  BY DEF Pending, InState
  <2> QED  BY <2>2, <2>3, <2>4 DEF Untouched, Own
<1>4. Spec => []MemInv  BY WritesStaySafe
<1> QED  BY <1>1, <1>2, <1>3, <1>4, PTL DEF Spec, NothingPutBack

\* A single edit, at any moment, is survived: what UndoSound says holds then
\* without a condition on the edits.
THEOREM OneEditIsSurvived ==
    ASSUME MaxEdits <= 1
    PROVE  Spec => []UndoSound
<1>1. Spec => NothingPutBack  BY OneEditPutsNothingBack
<1> QED  BY <1>1, UndoStaysSound, PTL

-----------------------------------------------------------------------------
(* The callers' store.                                                     *)

\* A commit has something to change.
Changes == \A x \in Ids : State(x) \in Live \cup {"unprepared"} => action[x].after # action[x].before
NewChanges == (\E x \in Ids : Write("mkdir", x, "") \in Todo) => new # file

StoreInv == MemInv /\ HeadWhole /\ Changes /\ NewChanges

\* A directory is made first of all.
LEMMA DirectoryFirst ==
    ASSUME MemInv', NEW x \in Ids, Write("mkdir", x, "") \in Todo'
    PROVE  phase' = "finish" /\ plan' # <<>> /\ plan'[1] = Write("mkdir", x, "")
<1>0. PICK s, d : s = plan' /\ d = Write("mkdir", x, "")  OBVIOUS
<1>1. PICK i \in DOMAIN s : s[i] = d  BY <1>0 DEF Todo
<1>2. PICK E : E = Earlier(i)'  OBVIOUS
<1>3. Safe(d, E)'  BY <1>0, <1>1, <1>2 DEF MemInv, PlanSafe
<1>4. d.do = "mkdir" /\ d.id = x  BY <1>0 DEF Write
<1>5. E = {} /\ SafeMkdir(x)'  BY <1>3, <1>4 DEF Safe
<1>6. s \in Seq(Writes)  BY <1>0 DEF MemInv, MemoryShape
<1>7. s # <<>> /\ (i # 1 => 1 \in 1..(i - 1))  BY ONLY <1>1, <1>6
<1>8. i = 1
  <2> SUFFICES ASSUME i # 1  PROVE FALSE
    OBVIOUS
  <2>1. s[1] \in E  BY <1>0, <1>2, <1>7 DEF Earlier
  <2> QED  BY <1>5, <2>1
<1> QED  BY <1>0, <1>1, <1>5, <1>7, <1>8 DEF SafeMkdir

\* After a write there is no directory to make.
LEMMA PerformKeepsChanges ==
    ASSUME StoreInv, Perform
    PROVE  Changes' /\ NewChanges'
<1>1. PICK u \in Writes : u = W  BY Performed DEF StoreInv
<1>2. Next1(u) /\ MemoryShape  BY <1>1, Performed DEF StoreInv, MemInv
<1>3. /\ Safe(u, {}) /\ u \in Todo
      /\ \A w \in Todo' : w.do # "mkdir"
  BY <1>2, Rest
<1>4. NewChanges'  BY <1>3 DEF NewChanges, Write
<1>5. ASSUME \A x \in Ids : State(x)' \in Live \cup {"unprepared"} =>
                 /\ State(x) \in Live \cup {"unprepared"}
                 /\ action'[x].before = action[x].before /\ action'[x].after = action[x].after
      PROVE  Changes'
  BY <1>5 DEF StoreInv, Changes
<1>6. CASE u.do = "mkdir" /\ MakeDirectory
  <2>1. PICK x \in Ids : u = Write("mkdir", x, "")
    <3>1. u.id \in Ids /\ u.arg = ""  BY <1>3, <1>6 DEF Safe
    <3> QED  BY <1>6, <3>1, Written
  <2>2. action' = [action EXCEPT ![x] = [state |-> "unprepared", parent |-> head,
                                         before |-> file, after |-> new, saved |-> {}]]
    <3>0. u.id = x  BY <2>1, Fields
    <3>1. W.id = x  BY <1>1, <3>0
    <3> QED  BY <1>6, <3>1 DEF MakeDirectory
  <2>3. new # file  BY <1>3, <2>1 DEF StoreInv, NewChanges
  <2> QED  BY <1>2, <1>4, <2>2, <2>3 DEF StoreInv, Changes, State, MemoryShape
<1>7. CASE u.do = "manifest" /\ WriteManifest
  <2>1. PICK x \in Ids, s \in States : x = u.id /\ s = u.arg
    <3>1. u.id \in Ids /\ SafeManifest(u.id, u.arg, {})  BY <1>3, <1>7 DEF Safe
    <3>2. u.arg \in States  BY <3>1 DEF SafeManifest, Closing, States
    <3> QED  BY <3>1, <3>2
  <2>2. action' = [action EXCEPT ![x].state = s]  BY <1>1, <1>7, <2>1 DEF WriteManifest
  <2>3. SafeManifest(x, s, {})  BY <1>3, <1>7, <2>1 DEF Safe
  <2>4. s \in Live => State(x) \in Live \cup {"unprepared"}
    <3>1. s = "prepared" => State(x) = "unprepared"
      BY <2>3 DEF SafeManifest, SafePrepared
    <3>2. s = "committed" => State(x) = "prepared"
      BY <2>3 DEF SafeManifest, SafeCommitted
    <3>3. s = "undoing" => State(x) = "committed"
      BY <2>3 DEF SafeManifest, SafeUndoing
    <3> QED  BY <3>1, <3>2, <3>3 DEF Live
  <2>5. s # "unprepared"  BY <2>3 DEF SafeManifest, Closing
  <2>6. ASSUME NEW y \in Ids, State(y)' \in Live \cup {"unprepared"}
        PROVE  /\ State(y) \in Live \cup {"unprepared"}
               /\ action'[y].before = action[y].before /\ action'[y].after = action[y].after
    <3>1. CASE y = x
      <4>1. State(x)' = s /\ action'[x].before = action[x].before /\ action'[x].after = action[x].after
        BY <1>2, <2>2 DEF State, MemoryShape, Actions
      <4> QED  BY <2>4, <2>5, <2>6, <3>1, <4>1
    <3>2. CASE y # x  BY <1>2, <2>2, <2>6, <3>2 DEF State, MemoryShape
    <3> QED  BY <3>1, <3>2
  <2> QED  BY <1>4, <1>5, <2>6
<1>8. CASE u.do = "purge" /\ PurgePreimage
  <2>1. action' = [action EXCEPT ![u.id] = Purged(@, u.arg)]  BY <1>1, <1>8 DEF PurgePreimage
  <2>2. ASSUME NEW y \in Ids, State(y)' \in Live \cup {"unprepared"}
        PROVE  /\ State(y) \in Live \cup {"unprepared"}
               /\ action'[y].before = action[y].before /\ action'[y].after = action[y].after
    <3>1. action[y] \in Actions  BY <1>2 DEF MemoryShape
    <3>2. /\ Purged(action[y], u.arg).state = action[y].state
          /\ action[y].state \in Live \cup {"unprepared"} =>
                 /\ Purged(action[y], u.arg).before = action[y].before
                 /\ Purged(action[y], u.arg).after = action[y].after
      BY <3>1 DEF Purged, NoAction, Actions, Closed, Live
    <3>3. action'[y] = action[y] \/ action'[y] = Purged(action[y], u.arg)
      BY <1>2, <2>1 DEF MemoryShape
    <3> QED  BY <2>2, <3>2, <3>3 DEF State
  <2> QED  BY <1>4, <1>5, <2>2
<1>9. CASE u.do = "rmdir" /\ RemoveDirectory
  <2>1. action' = [action EXCEPT ![u.id] = NoAction]  BY <1>1, <1>9 DEF RemoveDirectory
  <2>2. NoAction.state \notin Live \cup {"unprepared"}  BY DEF NoAction, Live
  <2> QED  BY <1>2, <1>4, <1>5, <2>1, <2>2 DEF State, MemoryShape
<1>10. CASE u.do = "preimage" /\ SavePreimage
  <2>1. action' = [action EXCEPT ![u.id].saved = @ \cup {u.arg}]  BY <1>1, <1>10 DEF SavePreimage
  <2> QED  BY <1>2, <1>4, <1>5, <2>1 DEF State, MemoryShape, Actions
<1>11. CASE \/ u.do \in {"apply", "restore"} /\ WriteTarget
            \/ u.do \in {"verify", "head", "event"} /\ (Verify \/ WriteHead \/ RecordEvent)
  <2>1. action' = action  BY <1>11 DEF WriteTarget, Verify, WriteHead, RecordEvent
  <2> QED  BY <1>4, <1>5, <2>1 DEF State
<1> QED  BY <1>1, <1>6, <1>7, <1>8, <1>9, <1>10, <1>11, Performed DEF StoreInv

\* The plan of Undo is made of writes.
LEMMA UndoTyped ==
    ASSUME NEW x \in Ids
    PROVE  Undo(x) \in Seq(Writes)
<1>1. PICK a \in Writes, b \in Writes, c \in Writes :
          /\ a = Write("restore", x, TARGETS[1]) /\ b = Write("restore", x, TARGETS[2])
          /\ c = Write("verify", x, "before")
  BY TwoTargets DEF Write, Writes, Kinds
<1>2. PICK d \in Writes, e \in Writes, f \in Writes :
          /\ d = Write("head", NoId, "") /\ e = Write("event", x, "rollback")
          /\ f = Write("manifest", x, "rolled_back")
  BY DEF Write, Writes, Kinds, States, Events
<1>3. PICK g \in Writes, h \in Writes :
          g = Write("purge", x, TARGETS[1]) /\ h = Write("purge", x, TARGETS[2])
  BY TwoTargets DEF Write, Writes, Kinds
<1>4. /\ <<a, b>> \in Seq(Writes) /\ <<c>> \in Seq(Writes) /\ <<d, e, f>> \in Seq(Writes)
      /\ <<g, h>> \in Seq(Writes)
  OBVIOUS
<1>5. Restore(x) = <<a, b>> \o <<c>> /\ Purge(x) = <<g, h>>
  BY <1>1, <1>3, TwoTargets DEF Restore, Purge
<1>6. Undo(x) = (Restore(x) \o <<d, e, f>>) \o Purge(x)  BY <1>2 DEF Undo
<1>7. PICK r, q : r = <<a, b>> \o <<c>> /\ q = r \o <<d, e, f>>  OBVIOUS
<1>8. r \in Seq(Writes)  BY <1>4, <1>7, Joined
<1>9. q \in Seq(Writes)  BY <1>4, <1>7, <1>8, Joined
<1>10. q \o <<g, h>> \in Seq(Writes)  BY <1>4, <1>9, Joined
<1> QED  BY <1>5, <1>6, <1>7, <1>10

\* Every step keeps both.
LEMMA StepKeepsChanges ==
    ASSUME StoreInv, MemInv', [Next]_vars
    PROVE  Changes' /\ NewChanges'
<1>1. CASE Perform  BY <1>1, PerformKeepsChanges
<1>2. ASSUME action' = action, plan' = <<>>  PROVE Changes' /\ NewChanges'
  <2>1. Todo' = {}  BY <1>2 DEF Todo
  <2> QED  BY <1>2, <2>1 DEF StoreInv, Changes, State, NewChanges
<1>3. CASE Begin \/ Interrupt \/ Refuse \/ Unchanged \/ Finish \/ NothingPending
           \/ (\E t \in Targets : Edit(t)) \/ \E x \in Ids : RollbackAgain(x) \/ RejectRollback(x)
  <2>1. phase = "idle" => plan = <<>>  BY DEF StoreInv, MemInv, MemoryShape
  <2>2. action' = action /\ plan' = <<>>
    BY <1>3, <2>1 DEF Begin, Interrupt, Refuse, Unchanged, Finish, NothingPending, Edit, RollbackAgain,
                      RejectRollback, Ends, Enter, disk
  <2> QED  BY <1>2, <2>2
<1>4. ASSUME action' = action, phase' # "finish"  PROVE Changes' /\ NewChanges'
  <2>1. \A x \in Ids : Write("mkdir", x, "") \notin Todo'  BY <1>4, DirectoryFirst
  <2> QED  BY <1>4, <2>1 DEF StoreInv, Changes, State, NewChanges
<1>5. CASE Settle \/ \E x \in Ids : Sweep(x) \/ FinishPending(x)
  BY <1>4, <1>5 DEF Settle, Sweep, FinishPending, Enter, disk
<1>6. CASE \E x \in Ids : Commit(x)
  <2>1. action' = action /\ new' # file'
    BY <1>6 DEF Commit, Transformed, Enter, disk
  <2> QED  BY <2>1 DEF StoreInv, Changes, State, NewChanges
<1>7. CASE \E x \in Ids : Rollback(x)
  <2>1. PICK x \in Ids : /\ plan' = <<Write("manifest", x, "undoing")>> \o Undo(x)
                         /\ action' = action
    BY <1>7 DEF Rollback, Enter, disk
  <2>2. plan' \in Seq(Writes) /\ MemInv  BY DEF StoreInv, MemInv, MemoryShape
  <2>3. \A y \in Ids : Write("mkdir", y, "") \notin Todo'
    <3> SUFFICES ASSUME NEW y \in Ids, Write("mkdir", y, "") \in Todo'  PROVE FALSE
      OBVIOUS
    <3>1. plan'[1] = Write("mkdir", y, "")  BY DirectoryFirst
    <3>2. Undo(x) \in Seq(Writes)  BY <2>1, UndoTyped
    <3>3. PICK m \in Writes, q \in Seq(Writes) : m = Write("manifest", x, "undoing") /\ q = Undo(x)
      <4>1. Write("manifest", x, "undoing") \in Writes  BY DEF Write, Writes, Kinds, States
      <4> QED  BY <3>2, <4>1
    <3>4. (<<m>> \o q)[1] = m  BY ONLY TRUE
    <3>5. m = Write("mkdir", y, "")  BY <2>1, <3>1, <3>3, <3>4
    <3>6. m.do = "manifest" /\ m.do = "mkdir"
      <4>1. m.do = "manifest"  BY <3>3 DEF Write
      <4>2. m.do = "mkdir"  BY <3>5 DEF Write
      <4> QED  BY <4>1, <4>2
    <3> QED  BY <3>6
  <2> QED  BY <2>1, <2>3 DEF StoreInv, Changes, State, NewChanges
<1>8. CASE UNCHANGED vars
  <2>1. action' = action /\ Todo' = Todo /\ new' = new /\ file' = file  BY <1>8 DEF vars, Todo
  <2> QED  BY <2>1 DEF StoreInv, Changes, State, NewChanges
<1> QED  BY <1>1, <1>3, <1>5, <1>6, <1>7, <1>8 DEF Next, Recover, Operate


\* An action whose targets recovery would give back.
Held(x) == x \in Pending /\ Known(x) /\ ~PastHead(x)

ValueSeen ==
    /\ \A x \in Ids : Held(x) => StoreValue = action[x].before
    /\ (\A x \in Ids : ~Held(x)) => StoreValue = file
    /\ StoreValue \in Contents

\* What the callers read is what the held action has found, or the files.
LEMMA ValueIs == MemInv => ValueSeen
<1> SUFFICES ASSUME MemInv
             PROVE  /\ \A x \in Ids : Held(x) => StoreValue = action[x].before
                    /\ (\A x \in Ids : ~Held(x)) => StoreValue = file
                    /\ StoreValue \in Contents
  BY DEF ValueSeen
<1>1. /\ \A x, y \in Pending : x = y
      /\ file \in Contents /\ \A x \in Ids : action[x].before \in Contents
  BY DEF MemInv, Heads, MemoryShape, Actions
<1>2. Pending \subseteq Ids  BY DEF Pending, InState
<1>3. ASSUME NEW x \in Ids, Held(x)  PROVE StoreValue = action[x].before
  <2>1. x \in Pending /\ ~PastHead(x) /\ \E id \in Pending : Known(id) /\ ~PastHead(id)
    BY <1>3 DEF Held
  <2>2. (CHOOSE id \in Pending : ~PastHead(id)) \in Pending  BY <2>1
  <2>3. (CHOOSE id \in Pending : ~PastHead(id)) = x  BY <1>1, <2>1, <2>2
  <2> QED  BY <2>1, <2>3 DEF StoreValue
<1>4. (\A x \in Ids : ~Held(x)) => StoreValue = file
  BY <1>2 DEF Held, StoreValue
<1> QED  BY <1>1, <1>3, <1>4

\* The same of the next state.
LEMMA NextValueIs == MemInv' => ValueSeen'
  BY ValueIs, PTL

\* What the callers can undo is what HEAD names.
UndoSame ==
    \A x \in Ids : /\ PastHead(x)' <=> PastHead(x)
                   /\ PastHead(x) => /\ action'[x].before = action[x].before
                                     /\ action'[x].after = action[x].after

\* Then the callers can undo what they could.
LEMMA UndoStays ==
    ASSUME UndoSame
    PROVE  StoreUndo' = StoreUndo
  BY DEF UndoSame, StoreUndo

\* A step that the callers do not see.
Unseen == StoreValue' = StoreValue /\ StoreUndo' = StoreUndo

\* A step that leaves the files, and what is held and can be undone.
LEMMA StoreStays ==
    ASSUME MemInv, MemInv', file' = file, UndoSame,
           \A x \in Ids : /\ Held(x)' <=> Held(x)
                          /\ Held(x) => action'[x].before = action[x].before
    PROVE  Unseen
<1>1. StoreValue' = StoreValue
  <2>1. CASE \E x \in Ids : Held(x)
    BY <2>1, ValueIs, NextValueIs DEF ValueSeen
  <2>2. CASE \A x \in Ids : ~Held(x)
    BY <2>2, ValueIs, NextValueIs DEF ValueSeen
  <2> QED  BY <2>1, <2>2
<1> QED  BY <1>1, UndoStays DEF Unseen

\* A step that leaves the files, HEAD and the live actions.
LEMMA ImagesSeen ==
    ASSUME MemInv, MemInv', file' = file, head' = head,
           \A x \in Ids : State(x) \in Live \/ State(x)' \in Live =>
               /\ State(x)' = State(x)
               /\ action'[x].before = action[x].before /\ action'[x].after = action[x].after
    PROVE  Unseen
<1>1. UndoSame
  BY DEF UndoSame, PastHead, State, Live
<1>2. ASSUME NEW x \in Ids
      PROVE  /\ Held(x)' <=> Held(x)
             /\ Held(x) => action'[x].before = action[x].before
  <2>1. x \in Pending' <=> x \in Pending  BY DEF Pending, InState, State, Live
  <2>2. x \in Pending => /\ action'[x].before = action[x].before /\ action'[x].after = action[x].after
                         /\ Known(x)' <=> Known(x)
                         /\ PastHead(x)' <=> PastHead(x)
    BY <1>1 DEF Pending, InState, State, Live, Known, UndoSame
  <2> QED  BY <2>1, <2>2 DEF Held
<1> QED  BY <1>1, <1>2, StoreStays

\* A step that only plans.
LEMMA NothingSeen ==
    ASSUME MemInv, MemInv', file' = file, head' = head, action' = action
    PROVE  Unseen
  BY ImagesSeen DEF State

\* The writes that leave HEAD and the manifests alone.
LEMMA FrameUnseen ==
    ASSUME MemInv, MemInv', NEW u \in Writes, Next1(u),
           \/ u.do = "mkdir" /\ MakeDirectory
           \/ u.do = "preimage" /\ SavePreimage
           \/ u.do = "verify" /\ Verify
           \/ u.do = "event" /\ RecordEvent
           \/ u.do = "purge" /\ PurgePreimage
           \/ u.do = "rmdir" /\ RemoveDirectory
    PROVE  Unseen
<1>1. /\ MemoryShape /\ Safe(u, {}) /\ u = W  BY Rest DEF Next1, MemInv
<1>2. head' = head /\ file' = file
  BY DEF MakeDirectory, SavePreimage, Verify, RecordEvent, PurgePreimage, RemoveDirectory
<1>3. ASSUME NEW y \in Ids
      PROVE  State(y) \in Live \/ State(y)' \in Live =>
               /\ State(y)' = State(y)
               /\ action'[y].before = action[y].before /\ action'[y].after = action[y].after
  <2>1. CASE u.do = "mkdir" /\ MakeDirectory
    <3>1. action' = [action EXCEPT ![u.id] = [state |-> "unprepared", parent |-> head,
                                               before |-> file, after |-> new, saved |-> {}]]
      BY <2>1, <1>1 DEF MakeDirectory
    <3>2. State(u.id) = "none"  BY <1>1, <2>1 DEF Safe, SafeMkdir
    <3> QED  BY <3>1, <3>2, <1>1 DEF State, MemoryShape, Live
  <2>2. CASE u.do = "preimage" /\ SavePreimage
    <3>1. action' = [action EXCEPT ![u.id].saved = @ \cup {u.arg}]
      BY <2>2, <1>1 DEF SavePreimage
    <3> QED  BY <3>1, <1>1 DEF State, MemoryShape, Actions
  <2>3. CASE u.do \in {"verify", "event"} /\ (Verify \/ RecordEvent)
    <3>1. action' = action  BY <2>3 DEF Verify, RecordEvent
    <3> QED  BY <3>1 DEF State
  <2>4. CASE u.do = "purge" /\ PurgePreimage
    <3>1. action' = [action EXCEPT ![u.id] = Purged(@, u.arg)]
      BY <2>4, <1>1 DEF PurgePreimage
    <3>2. action[y] \in Actions  BY <1>1 DEF MemoryShape
    <3>3. /\ Purged(action[y], u.arg).state = action[y].state
          /\ action[y].state \in Live =>
                 /\ Purged(action[y], u.arg).before = action[y].before
                 /\ Purged(action[y], u.arg).after = action[y].after
      BY <3>2 DEF Purged, NoAction, Actions, Closed, Live
    <3>4. action'[y] = action[y] \/ action'[y] = Purged(action[y], u.arg)
      BY <3>1, <1>1 DEF MemoryShape
    <3> QED  BY <3>3, <3>4 DEF State
  <2>5. CASE u.do = "rmdir" /\ RemoveDirectory
    <3>1. action' = [action EXCEPT ![u.id] = NoAction]  BY <2>5, <1>1 DEF RemoveDirectory
    <3>2. State(u.id) = "unprepared"  BY <1>1, <2>5 DEF Safe, SafeRmdir
    <3> QED  BY <3>1, <3>2, <1>1 DEF State, MemoryShape, NoAction, Live
  <2> QED  BY <2>1, <2>2, <2>3, <2>4, <2>5
<1> QED  BY <1>2, <1>3, ImagesSeen

\* A target is written between an action's manifest and its head, or while it
\* is undone: the callers see what it has found.
LEMMA TargetUnseen ==
    ASSUME MemInv, MemInv', HeadWhole, NEW u \in Writes, Next1(u),
           u.do \in {"apply", "restore"}, WriteTarget
    PROVE  Unseen
<1>1. /\ MemoryShape /\ Safe(u, {}) /\ u = W /\ u \in Todo  BY Rest DEF Next1, MemInv
<1>2. PICK x \in Ids, t \in Targets : u = Write(u.do, x, t) /\ u.id = x /\ u.arg = t
  <2>1. u.id \in Ids /\ u.arg \in Targets  BY <1>1 DEF Safe
  <2> QED  BY <2>1, Written
<1>3. /\ head' = head /\ action' = action
      /\ file' = [file EXCEPT ![t] = IF u.do = "apply" THEN action[x].after[t]
                                     ELSE action[x].before[t]]
  BY <1>1, <1>2 DEF WriteTarget
<1>4. Held(x)
  <2>1. CASE u.do = "apply"
    <3>1. SafeApply(x, {})  BY <1>1, <1>2, <2>1 DEF Safe
    <3>2. head # x /\ State(x) = "prepared" /\ Known(x)  BY <3>1 DEF SafeApply
    <3> QED  BY <3>2 DEF Held, Pending, InState, State, PastHead
  <2>2. CASE u.do = "restore"
    <3>1. SafeRestore(x, {})  BY <1>1, <1>2, <2>2 DEF Safe
    <3>2. x \in Pending /\ Known(x)  BY <3>1 DEF SafeRestore
    <3>3. State(x) = "prepared" => head # x  BY <1>1, <1>2, <2>2 DEF HeadWhole
    <3>4. State(x) \in {"prepared", "undoing"}  BY <3>2 DEF Pending, InState, State
    <3> QED  BY <3>2, <3>3, <3>4 DEF Held, State, PastHead
  <2> QED  BY <2>1, <2>2
<1>5. Held(x)'
  <2>1. x \in Pending' /\ ~PastHead(x)'  BY <1>3, <1>4 DEF Held, Pending, InState, PastHead
  <2>2. Known(x)'
    <3>1. Known(x) /\ file \in Contents  BY <1>1, <1>4 DEF Held, MemoryShape
    <3> QED  BY <1>3, <3>1 DEF Known, Contents
  <2> QED  BY <2>1, <2>2 DEF Held
<1>6. StoreValue' = StoreValue
  <2>1. StoreValue = action[x].before  BY <1>4, ValueIs DEF ValueSeen
  <2>2. StoreValue' = action'[x].before  BY <1>5, NextValueIs DEF ValueSeen
  <2> QED  BY <1>3, <2>1, <2>2
<1>7. UndoSame  BY <1>3 DEF UndoSame, PastHead
<1> QED  BY <1>6, <1>7, UndoStays DEF Unseen

StoreCommit ==
    \E f \in Contents \ {StoreValue} :
        StoreValue' = f /\ StoreUndo' = {[from |-> StoreValue, to |-> f]}

StoreRollback ==
    \E commit \in StoreUndo :
        StoreValue = commit.to /\ StoreValue' = commit.from /\ StoreUndo' = {}

\* HEAD that names another action is the commit.
LEMMA HeadSeen ==
    ASSUME MemInv, MemInv', Changes, NEW u \in Writes, Next1(u), u.do = "head", WriteHead
    PROVE  Unseen \/ StoreCommit
<1>1. MemoryShape /\ Heads /\ Safe(u, {}) /\ u = W  BY Rest DEF Next1, MemInv
<1>2. head' = u.id /\ action' = action /\ file' = file  BY <1>1 DEF WriteHead
<1>3. Pending' = Pending /\ Pending \subseteq Ids /\ \A y : Known(y)' <=> Known(y)
  BY <1>2 DEF Pending, InState, Known
<1>4. CASE u.id = NoId
  <2>1. SafeNoHead({})  BY <1>1, <1>4 DEF Safe
  <2>2. PICK y \in Ids : State(y) = "undoing"  BY <2>1 DEF SafeNoHead
  <2>3. head \in {y, NoId}  BY <1>1, <2>2 DEF Heads
  <2>4. \A x \in Ids : ~PastHead(x) /\ ~PastHead(x)'
    BY <1>2, <1>4, <2>2, <2>3, MemoryAssumption DEF PastHead, State
  <2>5. UndoSame  BY <2>4 DEF UndoSame
  <2>6. \A x \in Ids : Held(x)' <=> Held(x)  BY <1>3, <2>4 DEF Held
  <2> QED  BY <1>2, <2>5, <2>6, StoreStays
<1>5. CASE u.id = head  BY <1>2, <1>5, NothingSeen
<1>6. CASE u.id # NoId /\ u.id # head
  <2>1. PICK x \in Ids : x = u.id  BY <1>6 DEF Writes
  <2>2. SafeHead(x, {})  BY <1>1, <1>6, <2>1 DEF Safe
  <2>3. After(x) /\ State(x) = "prepared"  BY <2>2 DEF SafeHead
  <2>4. /\ action[x] \in Actions /\ file \in Contents  BY <1>1 DEF MemoryShape
  <2>5. x \in Pending /\ \A y \in Pending : y = x
    BY <1>1, <2>3 DEF Heads, Pending, InState, State
  <2>6. Held(x)  BY <1>6, <2>1, <2>3, <2>5 DEF Held, Known, After, PastHead
  <2>7. StoreValue = action[x].before  BY <2>6, ValueIs DEF ValueSeen
  <2>8. \A y \in Ids : PastHead(y)' <=> y = x
    BY <1>2, <2>1, <2>3 DEF PastHead, State
  <2>9. \A y \in Ids : ~Held(y)'
    BY <1>3, <2>5, <2>8 DEF Held
  <2>10. StoreValue' = action[x].after
    BY <1>2, <2>3, <2>9, NextValueIs DEF After, ValueSeen
  <2>11. StoreUndo' = {[from |-> action[x].before, to |-> action[x].after]}
    BY <1>2, <2>8 DEF StoreUndo
  <2>12. action[x].after # action[x].before  BY <2>3 DEF Changes, Live
  <2>13. action[x].after \in Contents  BY <2>4 DEF Actions
  <2> QED  BY <2>7, <2>10, <2>11, <2>12, <2>13 DEF StoreCommit
<1> QED  BY <1>4, <1>5, <1>6

\* A manifest that turns to undoing is the rollback, and no other is seen.
LEMMA ManifestSeen ==
    ASSUME MemInv, MemInv', HeadWhole, NEW u \in Writes, Next1(u), u.do = "manifest", WriteManifest
    PROVE  Unseen \/ StoreRollback
<1>1. PICK x, s : Turns(u, x, s)  BY DEF Turns
<1>2. /\ MemoryShape /\ Heads /\ file' = file /\ head' = head
      /\ x \in Ids /\ u = Manifest(x, s) /\ SafeManifest(x, s, {})
      /\ State(x)' = s /\ \A y \in Ids \ {x} : State(y)' = State(y)
      /\ \A y \in Ids : action'[y].before = action[y].before /\ action'[y].after = action[y].after
  BY <1>1, Turned
<1>3. u \in Todo  BY <1>1, Rest DEF Turns
<1>4. \A y \in Ids : Known(y)' <=> Known(y)  BY <1>2 DEF Known
<1>5. /\ \A y \in Ids : y \in Pending <=> State(y) \in {"prepared", "undoing"}
      /\ \A y \in Ids : y \in Pending' <=> State(y)' \in {"prepared", "undoing"}
      /\ \A y \in Ids : PastHead(y) <=> head = y /\ State(y) \in {"prepared", "committed"}
      /\ \A y \in Ids : PastHead(y)' <=> head = y /\ State(y)' \in {"prepared", "committed"}
  BY <1>2 DEF Pending, InState, State, PastHead
<1>6. \A y \in Ids \ {x} : (Held(y)' <=> Held(y)) /\ (PastHead(y)' <=> PastHead(y))
  BY <1>2, <1>4, <1>5 DEF Held
<1>7. ASSUME PastHead(x)' <=> PastHead(x), StoreValue' = StoreValue  PROVE Unseen
  <2>1. UndoSame  BY <1>2, <1>6, <1>7 DEF UndoSame
  <2> QED  BY <1>7, <2>1, UndoStays DEF Unseen
<1>8. ASSUME PastHead(x)' <=> PastHead(x), ~Held(x), ~Held(x)'  PROVE Unseen
  <2>1. UndoSame  BY <1>2, <1>6, <1>8 DEF UndoSame
  <2>2. \A y \in Ids : (Held(y)' <=> Held(y)) /\ (Held(y) => action'[y].before = action[y].before)
    BY <1>2, <1>6, <1>8
  <2> QED  BY <1>2, <2>1, <2>2, StoreStays
<1>9. CASE s = "prepared"
  <2>1. SafePrepared(x, {})  BY <1>2, <1>9 DEF SafeManifest
  <2>2. /\ Pending = {} /\ State(x) = "unprepared" /\ action[x].before = file
        /\ head # NoId => State(head) = "committed"
    BY <2>1 DEF SafePrepared
  <2>3. head # x  BY <1>2, <2>2, MemoryAssumption
  <2>4. ~PastHead(x) /\ ~PastHead(x)'  BY <1>2, <1>5, <2>3
  <2>5. Held(x)'
    <3>1. Known(x)'  BY <1>2, <1>4, <2>2 DEF Known
    <3> QED  BY <1>2, <1>5, <1>9, <2>4, <3>1 DEF Held
  <2>6. \A y \in Ids : ~Held(y)  BY <2>2 DEF Held
  <2>7. StoreValue = file /\ StoreValue' = action[x].before
    BY <1>2, <2>5, <2>6, ValueIs, NextValueIs DEF ValueSeen
  <2> QED  BY <1>7, <2>2, <2>4, <2>7
<1>10. CASE s = "undoing"
  <2>1. /\ head = x /\ State(x) = "committed" /\ Pending = {} /\ After(x)
    BY <1>2, <1>10 DEF SafeManifest, SafeUndoing
  <2>2. \A y \in Ids : PastHead(y) <=> y = x  BY <1>2, <1>5, <2>1
  <2>3. \A y \in Ids : ~PastHead(y)'  BY <1>2, <1>5, <1>10, <2>1
  <2>4. Held(x)'
    <3>1. Known(x)'  BY <1>2, <1>4, <2>1 DEF Known, After
    <3> QED  BY <1>2, <1>5, <1>10, <2>3, <3>1 DEF Held
  <2>5. \A y \in Ids : ~Held(y)  BY <2>1 DEF Held
  <2>6. StoreValue = action[x].after /\ StoreValue' = action[x].before
    BY <1>2, <2>1, <2>4, <2>5, ValueIs, NextValueIs DEF After, ValueSeen
  <2>7. /\ [from |-> action[x].before, to |-> action[x].after] \in StoreUndo
        /\ StoreUndo' = {}
    BY <1>2, <2>2, <2>3 DEF StoreUndo
  <2> QED  BY <2>6, <2>7 DEF StoreRollback
<1>11. CASE s = "committed"
  <2>1. State(x) = "prepared" /\ head = x  BY <1>1, <1>11, Turning
  <2>2. PastHead(x) /\ PastHead(x)'  BY <1>2, <1>5, <1>11, <2>1
  <2> QED  BY <1>8, <2>2 DEF Held
<1>12. CASE s = "superseded"
  <2>1. State(x) = "committed" /\ head # x  BY <1>1, <1>12, Turning
  <2>2. ~PastHead(x) /\ ~PastHead(x)'  BY <1>2, <1>5, <1>12, <2>1
  <2>3. ~Held(x) /\ ~Held(x)'  BY <1>2, <1>5, <1>12, <2>1 DEF Held
  <2> QED  BY <1>8, <2>2, <2>3
<1>13. ASSUME s \in Closing, x \in Pending, Before(x), ~PastHead(x)  PROVE Unseen
  <2>1. Held(x)  BY <1>13 DEF Held, Known, Before
  <2>2. \A y \in Pending : y = x  BY <1>2, <1>13 DEF Heads
  <2>3. \A y \in Ids : ~Held(y)'
    <3>1. x \notin Pending'  BY <1>2, <1>5, <1>13 DEF Closing
    <3>2. \A y \in Ids \ {x} : ~Held(y)'  BY <1>6, <2>2 DEF Held
    <3> QED  BY <3>1, <3>2 DEF Held
  <2>4. StoreValue = action[x].before /\ StoreValue' = file
    BY <1>2, <2>1, <2>3, ValueIs, NextValueIs DEF ValueSeen
  <2>5. ~PastHead(x)'  BY <1>2, <1>5, <1>13 DEF Closing
  <2> QED  BY <1>7, <1>13, <2>4, <2>5 DEF Before
<1>14. CASE s = "aborted"
  <2>1. SafeAborted(x, {})  BY <1>2, <1>14 DEF SafeManifest
  <2>2. State(x) = "prepared" /\ Before(x)  BY <2>1 DEF SafeAborted, SafeRestored
  <2>3. head # x  BY <1>2, <1>3, <1>14 DEF HeadWhole
  <2> QED  BY <1>2, <1>5, <1>13, <1>14, <2>2, <2>3 DEF Closing
<1>15. CASE s = "rolled_back"
  <2>1. SafeRolledBack(x, {})  BY <1>2, <1>15 DEF SafeManifest
  <2>2. State(x) = "undoing" /\ Before(x)  BY <2>1 DEF SafeRolledBack, SafeRestored
  <2> QED  BY <1>2, <1>5, <1>13, <1>15, <2>2 DEF Closing
<1>16. s \in {"prepared", "undoing", "committed"} \cup Closing  BY <1>1, Turning
<1> QED  BY <1>9, <1>10, <1>11, <1>12, <1>14, <1>15, <1>16 DEF Closing

\* Every write.
LEMMA PerformSeen ==
    ASSUME StoreInv, MemInv', Perform
    PROVE  (Unseen \/ StoreCommit \/ StoreRollback) /\ edits' = edits
<1>0. edits' = edits
  BY DEF Perform, MakeDirectory, SavePreimage, WriteManifest, WriteTarget, Verify, WriteHead,
         RecordEvent, PurgePreimage, RemoveDirectory, Continue
<1>1. PICK u \in Writes : u = W  BY Performed DEF StoreInv
<1>2. Next1(u) /\ MemInv /\ HeadWhole /\ Changes  BY <1>1, Performed DEF StoreInv
<1>3. CASE u.do = "manifest" /\ WriteManifest  BY <1>0, <1>2, <1>3, ManifestSeen
<1>4. CASE u.do \in {"apply", "restore"} /\ WriteTarget  BY <1>0, <1>2, <1>4, TargetUnseen
<1>5. CASE u.do = "head" /\ WriteHead  BY <1>0, <1>2, <1>5, HeadSeen
<1>6. CASE \/ u.do = "mkdir" /\ MakeDirectory
           \/ u.do = "preimage" /\ SavePreimage
           \/ u.do = "verify" /\ Verify
           \/ u.do = "event" /\ RecordEvent
           \/ u.do = "purge" /\ PurgePreimage
           \/ u.do = "rmdir" /\ RemoveDirectory
  BY <1>0, <1>2, <1>6, FrameUnseen
<1> QED  BY <1>1, <1>2, <1>3, <1>4, <1>5, <1>6, Performed

\* Every step is one of the store, or none.
LEMMA StepSeen ==
    ASSUME StoreInv, MemInv', [Next]_vars
    PROVE  [Store!Next]_(Store!storeVars)
<1>0. MemInv  BY DEF StoreInv
<1>1. ASSUME Unseen, edits' = edits  PROVE UNCHANGED Store!storeVars
  BY <1>1 DEF Unseen, Store!storeVars
<1>2. CASE Perform
  <2>1. edits' = edits /\ (Unseen \/ StoreCommit \/ StoreRollback)  BY <1>2, PerformSeen
  <2>2. StoreCommit => Store!Commit  BY <2>1 DEF StoreCommit, Store!Commit
  <2>3. StoreRollback => Store!Rollback  BY <2>1 DEF StoreRollback, Store!Rollback
  <2> QED  BY <1>1, <2>1, <2>2, <2>3 DEF Store!Next
<1>3. CASE \E t \in Targets : Edit(t)
  <2>1. edits' = edits + 1 /\ action' = action /\ head' = head  BY <1>3 DEF Edit
  <2>2. UndoSame  BY <2>1 DEF UndoSame, PastHead
  <2>3. StoreUndo' = StoreUndo /\ StoreValue' \in Contents  BY <2>2, UndoStays, NextValueIs DEF ValueSeen
  <2> QED  BY <2>1, <2>3 DEF Store!Next, Store!Edit
<1>4. CASE Begin \/ Recover \/ Operate \/ Interrupt \/ UNCHANGED vars
  <2>1. file' = file /\ head' = head /\ action' = action /\ edits' = edits
    BY <1>4 DEF Begin, Recover, Operate, Interrupt, vars, Sweep, FinishPending, NothingPending, Settle,
                Refuse, Commit, Rollback, RollbackAgain, RejectRollback, Unchanged, Finish, Ends, Enter,
                disk
  <2> QED  BY <1>0, <1>1, <2>1, NothingSeen
<1> QED  BY <1>2, <1>3, <1>4 DEF Next

\* What the callers of the memory see is the store with a single undo: a commit
\* is the write of HEAD, a rollback the write of its manifest, whatever is
\* interrupted between, as long as no edit puts back what an action under way
\* has found.
THEOREM StoreIsUndoable == Spec /\ NothingPutBack => ImplementsUndoableStore
<1>1. Init => UndoInv /\ Changes /\ NewChanges
  <2> SUFFICES ASSUME Init  PROVE UndoInv /\ Changes /\ NewChanges
    OBVIOUS
  <2>1. MemInv  BY InitKeeps
  <2>2. Todo = {} /\ head = NoId /\ outcome = "ok"  BY DEF Init, Todo
  <2>3. \A x \in Ids : x # NoId /\ State(x) = "none"  BY MemoryAssumption DEF Init, State, NoAction
  <2>4. HeadWhole  BY <2>2, <2>3 DEF HeadWhole, Stranded
  <2>5. Refused  BY <2>2 DEF Refused
  <2>6. Changes /\ NewChanges  BY <2>2, <2>3 DEF Changes, NewChanges, Live
  <2> QED  BY <2>1, <2>4, <2>5, <2>6 DEF UndoInv
<1>2. Init => Store!Init
  <2> SUFFICES ASSUME Init  PROVE Store!Init
    OBVIOUS
  <2>1. MemInv  BY InitKeeps
  <2>2. \A x \in Ids : State(x) = "none"  BY DEF Init, State, NoAction
  <2>3. \A x \in Ids : ~PastHead(x)  BY <2>2 DEF PastHead, State
  <2>4. StoreUndo = {} /\ edits = 0  BY <2>3 DEF StoreUndo, Init
  <2> QED  BY <2>1, <2>4, ValueIs DEF Store!Init, ValueSeen
<1>3. UndoInv /\ Changes /\ NewChanges /\ [Next]_vars /\ [NotPutBack]_vars
          => (UndoInv /\ Changes /\ NewChanges)'
  BY StepKeeps, StepKeepsWhole, StepKeepsRefused, StepKeepsChanges DEF UndoInv, StoreInv
<1>4. UndoInv /\ Changes /\ NewChanges /\ UndoInv' /\ [Next]_vars => [Store!Next]_(Store!storeVars)
  BY StepSeen DEF UndoInv, StoreInv
<1> QED
  BY <1>1, <1>2, <1>3, <1>4, PTL DEF Spec, NothingPutBack, ImplementsUndoableStore, Store!Spec

\* With a single edit at most, at any moment, nothing is asked of it.
THEOREM OneEditIsUndoable ==
    ASSUME MaxEdits <= 1
    PROVE  Spec => ImplementsUndoableStore
<1>1. Spec => NothingPutBack  BY OneEditPutsNothingBack
<1> QED  BY <1>1, StoreIsUndoable, PTL
=============================================================================
