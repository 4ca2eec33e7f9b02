----------------------------- MODULE PartsProofs -----------------------------
(***************************************************************************)
(* Theorems of the parts that share no state with a task or a chat: the    *)
(* credential store, for any number of processes, crashes and lost calls;  *)
(* the supervisor of a tool, for any tree of processes; the stream of a    *)
(* turn, for any number of sessions, turns and calls; backups, for any     *)
(* home that is served beside them; the index and the pages of a wiki, for *)
(* any number of searches and loads beside the tool that copies them; and  *)
(* the files of a memory scope, for any number of runs that share its      *)
(* working state and any facts that are submitted, in any batches.         *)
(***************************************************************************)
EXTENDS ToolRun, TokenRefresh, TurnSession, StateBackup, WikiIndex, MemoryScope,
        FiniteSetTheorems, SequenceTheorems, TLAPS

-----------------------------------------------------------------------------
(* The credential store (TokenRefresh).                                    *)

AuthSteps == {"idle", "take", "install", "exchange", "check", "archive", "replace", "receipt"}

\* The part of the type the argument needs.
AuthTypeOK ==
    /\ codex \in Nat /\ managed \in Nat /\ staged \in Nat /\ reply \in Nat
    /\ issued \in Generations
    /\ holder \in Processes \cup {Nobody}
    /\ at \in [Processes -> AuthSteps]
    /\ rotated \subseteq Generations /\ doubtful \subseteq Generations

\* The flock: whoever is in the section is its holder.
OneInSection == \A p \in Processes : at[p] # "idle" => holder = p

\* g was issued and nothing has replaced it.
Current(g) == g \in Generations /\ g <= issued /\ g \notin rotated
\* Nor is a renewal with it of unknown outcome.
Fresh(g) == Current(g) /\ g \notin doubtful

\* Nothing beyond the issuer's current generation has been sent.
OnlyIssuedSent == \A g \in rotated \cup doubtful : g <= issued

\* Codex's file holds a fresh generation that the store does not hold.
CodexIsFresh == codex # Absent => Fresh(codex) /\ codex # managed

\* The stored generation was issued and, without a marker, is fresh.
UnmarkedIsFresh ==
    managed # Absent => managed <= issued /\ (~pending => Fresh(managed))

\* What the process in the section has in hand.
InHand(p) ==
    /\ at[p] \in {"take", "install"} => ~pending /\ managed = Absent /\ Fresh(staged)
    /\ at[p] = "install" => staged # codex
    /\ at[p] \in {"exchange", "check", "archive", "replace", "receipt"} => pending
    /\ at[p] = "exchange" => Fresh(managed)
    /\ at[p] = "check" => Current(reply) /\ reply # codex
    /\ at[p] \in {"archive", "replace"} => Current(staged) /\ staged # codex
    /\ at[p] = "receipt" => Current(managed)

AuthInv ==
    /\ AuthTypeOK /\ OneInSection /\ OnlyIssuedSent /\ CodexIsFresh /\ UnmarkedIsFresh
    /\ \A p \in Processes : InHand(p)
    /\ NoMisspentToken

\* Codex has the first generation, the store none.
LEMMA AuthInvInit == AuthInit => AuthInv
<1> SUFFICES ASSUME AuthInit PROVE AuthInv
    OBVIOUS
<1> USE AuthAssumption DEF AuthInit, Generations, Absent
<1>1. AuthTypeOK
    BY DEF AuthTypeOK, AuthSteps
<1>2. OneInSection /\ OnlyIssuedSent /\ CodexIsFresh /\ UnmarkedIsFresh /\ NoMisspentToken
    BY DEF OneInSection, OnlyIssuedSent, CodexIsFresh, UnmarkedIsFresh, NoMisspentToken, Fresh, Current
<1>3. \A p \in Processes : InHand(p)
    BY DEF InHand
<1> QED
    BY <1>1, <1>2, <1>3 DEF AuthInv

\* One step of a process, of Codex or of a crash.
LEMMA AuthInvStep == AuthInv /\ [AuthNext]_authVars => AuthInv'
<1> SUFFICES ASSUME AuthInv, [AuthNext]_authVars PROVE AuthInv'
    OBVIOUS
<1> USE AuthAssumption DEF AuthInv, Fresh, Current, Generations, Absent, Go, Leave, store, issuer
<1>1. ASSUME NEW p \in Processes, Adopt(p) PROVE AuthInv'
    <2>1. AuthTypeOK'
        BY <1>1 DEF AuthTypeOK, AuthSteps, Adopt
    <2>2. OneInSection'
        BY <1>1 DEF AuthTypeOK, OneInSection, Adopt
    <2>3. OnlyIssuedSent' /\ NoMisspentToken'
        BY <1>1 DEF AuthTypeOK, OnlyIssuedSent, NoMisspentToken, InHand, Adopt
    <2>4. CodexIsFresh' /\ UnmarkedIsFresh'
        BY <1>1 DEF AuthTypeOK, OnlyIssuedSent, CodexIsFresh, UnmarkedIsFresh, InHand, Adopt
    <2>5. \A q \in Processes : InHand(q)'
        BY <1>1 DEF AuthTypeOK, AuthSteps, OneInSection, OnlyIssuedSent, CodexIsFresh,
           UnmarkedIsFresh, InHand, Adopt
    <2> QED
        BY <2>1, <2>2, <2>3, <2>4, <2>5 DEF AuthInv
<1>2. ASSUME NEW p \in Processes, TakeCodex(p) PROVE AuthInv'
    <2>1. AuthTypeOK'
        BY <1>2 DEF AuthTypeOK, AuthSteps, TakeCodex
    <2>2. OneInSection'
        BY <1>2 DEF AuthTypeOK, OneInSection, TakeCodex
    <2>3. OnlyIssuedSent' /\ NoMisspentToken'
        BY <1>2 DEF AuthTypeOK, OnlyIssuedSent, NoMisspentToken, InHand, TakeCodex
    <2>4. CodexIsFresh' /\ UnmarkedIsFresh'
        BY <1>2 DEF AuthTypeOK, OnlyIssuedSent, CodexIsFresh, UnmarkedIsFresh, InHand, TakeCodex
    <2>5. \A q \in Processes : InHand(q)'
        BY <1>2 DEF AuthTypeOK, AuthSteps, OneInSection, OnlyIssuedSent, CodexIsFresh,
           UnmarkedIsFresh, InHand, TakeCodex
    <2> QED
        BY <2>1, <2>2, <2>3, <2>4, <2>5 DEF AuthInv
<1>3. ASSUME NEW p \in Processes, InstallAdopted(p) PROVE AuthInv'
    <2>1. AuthTypeOK'
        BY <1>3 DEF AuthTypeOK, AuthSteps, InstallAdopted
    <2>2. OneInSection'
        BY <1>3 DEF AuthTypeOK, OneInSection, InstallAdopted
    <2>3. OnlyIssuedSent' /\ NoMisspentToken'
        BY <1>3 DEF AuthTypeOK, OnlyIssuedSent, NoMisspentToken, InHand, InstallAdopted
    <2>4. CodexIsFresh' /\ UnmarkedIsFresh'
        BY <1>3 DEF AuthTypeOK, OnlyIssuedSent, CodexIsFresh, UnmarkedIsFresh, InHand,
           InstallAdopted
    <2>5. \A q \in Processes : InHand(q)'
        BY <1>3 DEF AuthTypeOK, AuthSteps, OneInSection, OnlyIssuedSent, CodexIsFresh,
           UnmarkedIsFresh, InHand, InstallAdopted
    <2> QED
        BY <2>1, <2>2, <2>3, <2>4, <2>5 DEF AuthInv
<1>4. ASSUME NEW p \in Processes, Mark(p) PROVE AuthInv'
    <2>1. AuthTypeOK'
        BY <1>4 DEF AuthTypeOK, AuthSteps, Mark, Usable
    <2>2. OneInSection'
        BY <1>4 DEF AuthTypeOK, OneInSection, Mark, Usable
    <2>3. OnlyIssuedSent' /\ NoMisspentToken'
        BY <1>4 DEF AuthTypeOK, OnlyIssuedSent, NoMisspentToken, InHand, Mark, Usable
    <2>4. CodexIsFresh' /\ UnmarkedIsFresh'
        BY <1>4 DEF AuthTypeOK, OnlyIssuedSent, CodexIsFresh, UnmarkedIsFresh, InHand, Mark, Usable
    <2>5. \A q \in Processes : InHand(q)'
        BY <1>4 DEF AuthTypeOK, AuthSteps, OneInSection, OnlyIssuedSent, CodexIsFresh,
           UnmarkedIsFresh, InHand, Mark, Usable
    <2> QED
        BY <2>1, <2>2, <2>3, <2>4, <2>5 DEF AuthInv
<1>5. ASSUME NEW p \in Processes, Exchange(p) PROVE AuthInv'
    <2> USE DEF Received, Rotated, Unrotated
    <2>0. /\ Fresh(managed) /\ managed \in Nat /\ issued \in Nat /\ issued' \in Nat
          /\ issued' >= issued /\ issued' <= MaxGeneration
          /\ misspent' = {} /\ doubtful' \subseteq doubtful \cup {managed}
          /\ rotated' \subseteq rotated \cup {managed}
        BY <1>5 DEF AuthTypeOK, InHand, Exchange, NoMisspentToken
    <2>1. AuthTypeOK'
        BY <1>5, <2>0 DEF AuthTypeOK, AuthSteps, Exchange
    <2>2. OneInSection'
        BY <1>5 DEF AuthTypeOK, OneInSection, Exchange
    <2>3. OnlyIssuedSent' /\ NoMisspentToken'
        <3> SUFFICES ASSUME NEW g \in rotated' \cup doubtful' PROVE g <= issued'
            BY <2>0 DEF OnlyIssuedSent, NoMisspentToken
        <3>1. g = managed \/ g \in rotated \cup doubtful
            BY <2>0
        <3>2. g <= issued /\ g \in Nat
            BY <2>0, <3>1 DEF OnlyIssuedSent, AuthTypeOK
        <3> QED
            BY <2>0, <3>2
    <2>4. CodexIsFresh' /\ UnmarkedIsFresh'
        BY <1>5, <2>0 DEF AuthTypeOK, OnlyIssuedSent, CodexIsFresh, UnmarkedIsFresh, InHand, Exchange
    <2>5. \A q \in Processes : InHand(q)'
        BY <1>5, <2>0 DEF AuthTypeOK, AuthSteps, OneInSection, OnlyIssuedSent, CodexIsFresh,
           UnmarkedIsFresh, InHand, Exchange
    <2> QED
        BY <2>1, <2>2, <2>3, <2>4, <2>5 DEF AuthInv
<1>6. ASSUME NEW p \in Processes, ExchangeLost(p) PROVE AuthInv'
    <2> USE DEF Received, Rotated, Unrotated
    <2>0. /\ Fresh(managed) /\ managed \in Nat /\ issued \in Nat /\ issued' \in Nat
          /\ issued' >= issued /\ issued' <= MaxGeneration
          /\ misspent' = {} /\ doubtful' \subseteq doubtful \cup {managed}
          /\ rotated' \subseteq rotated \cup {managed}
        BY <1>6 DEF AuthTypeOK, InHand, ExchangeLost, NoMisspentToken
    <2>1. AuthTypeOK'
        BY <1>6, <2>0 DEF AuthTypeOK, AuthSteps, ExchangeLost
    <2>2. OneInSection'
        BY <1>6 DEF AuthTypeOK, OneInSection, ExchangeLost
    <2>3. OnlyIssuedSent' /\ NoMisspentToken'
        <3> SUFFICES ASSUME NEW g \in rotated' \cup doubtful' PROVE g <= issued'
            BY <2>0 DEF OnlyIssuedSent, NoMisspentToken
        <3>1. g = managed \/ g \in rotated \cup doubtful
            BY <2>0
        <3>2. g <= issued /\ g \in Nat
            BY <2>0, <3>1 DEF OnlyIssuedSent, AuthTypeOK
        <3> QED
            BY <2>0, <3>2
    <2>4. CodexIsFresh' /\ UnmarkedIsFresh'
        BY <1>6, <2>0 DEF AuthTypeOK, OnlyIssuedSent, CodexIsFresh, UnmarkedIsFresh, InHand, ExchangeLost
    <2>5. \A q \in Processes : InHand(q)'
        BY <1>6, <2>0 DEF AuthTypeOK, AuthSteps, OneInSection, OnlyIssuedSent, CodexIsFresh,
           UnmarkedIsFresh, InHand, ExchangeLost
    <2> QED
        BY <2>1, <2>2, <2>3, <2>4, <2>5 DEF AuthInv
<1>7. ASSUME NEW p \in Processes, Reappeared(p) PROVE AuthInv'
    <2>1. AuthTypeOK'
        BY <1>7 DEF AuthTypeOK, AuthSteps, Reappeared
    <2>2. OneInSection'
        BY <1>7 DEF AuthTypeOK, OneInSection, Reappeared
    <2>3. OnlyIssuedSent' /\ NoMisspentToken'
        BY <1>7 DEF AuthTypeOK, OnlyIssuedSent, NoMisspentToken, InHand, Reappeared
    <2>4. CodexIsFresh' /\ UnmarkedIsFresh'
        BY <1>7 DEF AuthTypeOK, OnlyIssuedSent, CodexIsFresh, UnmarkedIsFresh, InHand, Reappeared
    <2>5. \A q \in Processes : InHand(q)'
        BY <1>7 DEF AuthTypeOK, AuthSteps, OneInSection, OnlyIssuedSent, CodexIsFresh,
           UnmarkedIsFresh, InHand, Reappeared
    <2> QED
        BY <2>1, <2>2, <2>3, <2>4, <2>5 DEF AuthInv
<1>8. ASSUME NEW p \in Processes, Stage(p) PROVE AuthInv'
    <2>1. AuthTypeOK'
        BY <1>8 DEF AuthTypeOK, AuthSteps, Stage
    <2>2. OneInSection'
        BY <1>8 DEF AuthTypeOK, OneInSection, Stage
    <2>3. OnlyIssuedSent' /\ NoMisspentToken'
        BY <1>8 DEF AuthTypeOK, OnlyIssuedSent, NoMisspentToken, InHand, Stage
    <2>4. CodexIsFresh' /\ UnmarkedIsFresh'
        BY <1>8 DEF AuthTypeOK, OnlyIssuedSent, CodexIsFresh, UnmarkedIsFresh, InHand, Stage
    <2>5. \A q \in Processes : InHand(q)'
        BY <1>8 DEF AuthTypeOK, AuthSteps, OneInSection, OnlyIssuedSent, CodexIsFresh,
           UnmarkedIsFresh, InHand, Stage
    <2> QED
        BY <2>1, <2>2, <2>3, <2>4, <2>5 DEF AuthInv
<1>9. ASSUME NEW p \in Processes, Archive(p) PROVE AuthInv'
    <2>1. AuthTypeOK'
        BY <1>9 DEF AuthTypeOK, AuthSteps, Archive
    <2>2. OneInSection'
        BY <1>9 DEF AuthTypeOK, OneInSection, Archive
    <2>3. OnlyIssuedSent' /\ NoMisspentToken'
        BY <1>9 DEF AuthTypeOK, OnlyIssuedSent, NoMisspentToken, InHand, Archive
    <2>4. CodexIsFresh' /\ UnmarkedIsFresh'
        BY <1>9 DEF AuthTypeOK, OnlyIssuedSent, CodexIsFresh, UnmarkedIsFresh, InHand, Archive
    <2>5. \A q \in Processes : InHand(q)'
        BY <1>9 DEF AuthTypeOK, AuthSteps, OneInSection, OnlyIssuedSent, CodexIsFresh,
           UnmarkedIsFresh, InHand, Archive
    <2> QED
        BY <2>1, <2>2, <2>3, <2>4, <2>5 DEF AuthInv
<1>10. ASSUME NEW p \in Processes, Replace(p) PROVE AuthInv'
    <2>1. AuthTypeOK'
        BY <1>10 DEF AuthTypeOK, AuthSteps, Replace
    <2>2. OneInSection'
        BY <1>10 DEF AuthTypeOK, OneInSection, Replace
    <2>3. OnlyIssuedSent' /\ NoMisspentToken'
        BY <1>10 DEF AuthTypeOK, OnlyIssuedSent, NoMisspentToken, InHand, Replace
    <2>4. CodexIsFresh' /\ UnmarkedIsFresh'
        BY <1>10 DEF AuthTypeOK, OnlyIssuedSent, CodexIsFresh, UnmarkedIsFresh, InHand, Replace
    <2>5. \A q \in Processes : InHand(q)'
        BY <1>10 DEF AuthTypeOK, AuthSteps, OneInSection, OnlyIssuedSent, CodexIsFresh,
           UnmarkedIsFresh, InHand, Replace
    <2> QED
        BY <2>1, <2>2, <2>3, <2>4, <2>5 DEF AuthInv
<1>11. ASSUME NEW p \in Processes, Receipt(p) PROVE AuthInv'
    <2>1. AuthTypeOK'
        BY <1>11 DEF AuthTypeOK, AuthSteps, Receipt
    <2>2. OneInSection'
        BY <1>11 DEF AuthTypeOK, OneInSection, Receipt
    <2>3. OnlyIssuedSent' /\ NoMisspentToken'
        BY <1>11 DEF AuthTypeOK, OnlyIssuedSent, NoMisspentToken, InHand, Receipt
    <2>4. CodexIsFresh' /\ UnmarkedIsFresh'
        BY <1>11 DEF AuthTypeOK, OnlyIssuedSent, CodexIsFresh, UnmarkedIsFresh, InHand, Receipt
    <2>5. \A q \in Processes : InHand(q)'
        BY <1>11 DEF AuthTypeOK, AuthSteps, OneInSection, OnlyIssuedSent, CodexIsFresh,
           UnmarkedIsFresh, InHand, Receipt
    <2> QED
        BY <2>1, <2>2, <2>3, <2>4, <2>5 DEF AuthInv
<1>12. ASSUME NEW p \in Processes, Crash(p) PROVE AuthInv'
    <2>1. AuthTypeOK'
        BY <1>12 DEF AuthTypeOK, AuthSteps, Crash
    <2>2. OneInSection'
        BY <1>12 DEF AuthTypeOK, OneInSection, Crash
    <2>3. OnlyIssuedSent' /\ NoMisspentToken'
        BY <1>12 DEF AuthTypeOK, OnlyIssuedSent, NoMisspentToken, InHand, Crash
    <2>4. CodexIsFresh' /\ UnmarkedIsFresh'
        BY <1>12 DEF AuthTypeOK, OnlyIssuedSent, CodexIsFresh, UnmarkedIsFresh, InHand, Crash
    <2>5. \A q \in Processes : InHand(q)'
        BY <1>12 DEF AuthTypeOK, AuthSteps, OneInSection, OnlyIssuedSent, CodexIsFresh,
           UnmarkedIsFresh, InHand, Crash
    <2> QED
        BY <2>1, <2>2, <2>3, <2>4, <2>5 DEF AuthInv
<1>13. CASE Expire
    <2>1. AuthTypeOK'
        BY <1>13 DEF AuthTypeOK, AuthSteps, Expire
    <2>2. OneInSection'
        BY <1>13 DEF AuthTypeOK, OneInSection, Expire
    <2>3. OnlyIssuedSent' /\ NoMisspentToken'
        BY <1>13 DEF AuthTypeOK, OnlyIssuedSent, NoMisspentToken, InHand, Expire
    <2>4. CodexIsFresh' /\ UnmarkedIsFresh'
        BY <1>13 DEF AuthTypeOK, OnlyIssuedSent, CodexIsFresh, UnmarkedIsFresh, InHand, Expire
    <2>5. \A q \in Processes : InHand(q)'
        BY <1>13 DEF AuthTypeOK, AuthSteps, OneInSection, OnlyIssuedSent, CodexIsFresh,
           UnmarkedIsFresh, InHand, Expire
    <2> QED
        BY <2>1, <2>2, <2>3, <2>4, <2>5 DEF AuthInv
<1>14. CASE CodexLogin
    <2>1. AuthTypeOK'
        BY <1>14 DEF AuthTypeOK, AuthSteps, CodexLogin
    <2>2. OneInSection'
        BY <1>14 DEF AuthTypeOK, OneInSection, CodexLogin
    <2>3. OnlyIssuedSent' /\ NoMisspentToken'
        BY <1>14 DEF AuthTypeOK, OnlyIssuedSent, NoMisspentToken, InHand, CodexLogin
    <2>4a. CodexIsFresh'
        BY <1>14 DEF AuthTypeOK, OnlyIssuedSent, CodexIsFresh, UnmarkedIsFresh, CodexLogin
    <2>4. CodexIsFresh' /\ UnmarkedIsFresh'
        BY <1>14, <2>4a DEF AuthTypeOK, OnlyIssuedSent, CodexIsFresh, UnmarkedIsFresh, InHand,
           CodexLogin
    <2>5. \A q \in Processes : InHand(q)'
        BY <1>14 DEF AuthTypeOK, AuthSteps, OneInSection, OnlyIssuedSent, CodexIsFresh,
           UnmarkedIsFresh, InHand, CodexLogin
    <2> QED
        BY <2>1, <2>2, <2>3, <2>4, <2>5 DEF AuthInv
<1>15. CASE UNCHANGED authVars
    BY <1>15 DEF authVars, AuthTypeOK, OneInSection, OnlyIssuedSent, CodexIsFresh, UnmarkedIsFresh,
       InHand, NoMisspentToken
<1> QED
    BY <1>1, <1>2, <1>3, <1>4, <1>5, <1>6, <1>7, <1>8, <1>9, <1>10, <1>11, <1>12, <1>13, <1>14,
       <1>15 DEF AuthNext

\* No refresh token is sent that the issuer has rotated away, nor one whose last
\* renewal was not completed (chatgpt_auth.rs): for any number of processes that
\* share a store, an issuer that rotates tokens or keeps them, and any interleaving
\* of crashes, lost exchanges and logins.
THEOREM NoTokenIsMisspent == AuthSpec => []NoMisspentToken
<1>1. AuthInv => NoMisspentToken
    BY DEF AuthInv
<1> QED
    BY AuthInvInit, AuthInvStep, <1>1, PTL DEF AuthSpec

-----------------------------------------------------------------------------
(* The supervisor of a tool (ToolRun).                                     *)

ProcStates == {"none", "alive", "stuck", "zombie", "gone"}
SupStates == {"none", "young", "handling", "ready", "watching", "listing", "killing",
              "reaping", "ended", "killed"}

\* The part of the type the argument needs.
ToolTypeOK ==
    /\ proc \in [Tree -> ProcStates]
    /\ parent \in [Tree -> Tree \cup {Supervisor, Init1}]
    /\ sup \in SupStates

\* Nothing runs before the supervisor spawns the tool, and no supervisor before
\* the call begins.
NothingEarly ==
    /\ runner = "idle" => sup = "none"
    /\ sup \in {"none", "young", "handling", "ready"} =>
           \A p \in Tree : proc[p] = "none" /\ parent[p] = Supervisor

\* Whoever runs under a supervisor is its child or the child of one that runs.
Adopted ==
    SupRuns => \A p \in Tree : Running(p) =>
        parent[p] = Supervisor \/ (parent[p] \in Tree /\ Running(parent[p]))

\* No process is its own ancestor: of any processes that run, one has its parent
\* outside.
Founded ==
    SupRuns => \A S \in SUBSET Tree :
        S # {} /\ (\A p \in S : Running(p)) => \E p \in S : parent[p] \notin S

ToolInv == ToolTypeOK /\ NothingEarly /\ Adopted /\ Founded /\ NoSurvivor

\* No command yet.
LEMMA ToolInvInit == ToolInit => ToolInv
    BY ToolAssumption DEF ToolInit, ToolInv, ToolTypeOK, ProcStates, SupStates, NothingEarly,
       Adopted, Founded, NoSurvivor, SupRuns, Stopped, Running

\* One step of the supervisor, of a process of the command or of the world.
LEMMA ToolInvStep == ToolInv /\ [ToolNext]_toolVars => ToolInv'
<1> SUFFICES ASSUME ToolInv, [ToolNext]_toolVars PROVE ToolInv'
    OBVIOUS
<1> USE ToolAssumption DEF ToolInv, SupRuns
<1>1. ASSUME NEW p \in Tree, Exit(p) PROVE ToolInv'
    <2>1. ToolTypeOK' /\ NothingEarly'
        BY <1>1 DEF ToolTypeOK, ProcStates, SupStates, NothingEarly, Exit, Die, Heir
    <2>2. NoSurvivor'
        BY <1>1 DEF ToolTypeOK, NothingEarly, NoSurvivor, Stopped, Exit, Die, Heir
    <2>3. Adopted' /\ Founded'
        BY <1>1 DEF ToolTypeOK, NothingEarly, Adopted, Founded, Running, Exit, Die, Heir
    <2> QED
        BY <2>1, <2>2, <2>3
<1>2. ASSUME NEW p \in Tree, Fork(p) PROVE ToolInv'
    <2>1. ToolTypeOK' /\ NothingEarly'
        BY <1>2 DEF ToolTypeOK, ProcStates, SupStates, NothingEarly, Fork
    <2>2. NoSurvivor'
        BY <1>2 DEF ToolTypeOK, NothingEarly, NoSurvivor, Stopped, Fork
    <2>3. Adopted' /\ Founded'
        <3> SUFFICES ASSUME SupRuns PROVE Adopted' /\ Founded'
            BY <1>2 DEF Adopted, Founded, Fork
        <3>1. PICK c \in Descendants :
                /\ proc[c] = "none" /\ proc' = [proc EXCEPT ![c] = "alive"]
                /\ parent' = [parent EXCEPT ![c] = p] /\ proc[p] = "alive" /\ UNCHANGED sup
            BY <1>2 DEF Fork
        <3>2. c \in Tree /\ c # p /\ parent'[c] = p /\ Running(p)'
            BY <3>1 DEF Tree, ToolTypeOK, Running
        <3>3. \A q \in Tree \ {c} : (Running(q)' <=> Running(q)) /\ parent'[q] = parent[q]
            BY <3>1 DEF ToolTypeOK, Running
        <3>4. \A q \in Tree : Running(q) => parent[q] # c
            BY <3>1, <3>2 DEF Adopted, Running
        <3>5. Adopted'
            BY <3>2, <3>3, <3>4 DEF Adopted
        <3>6. ASSUME NEW S \in SUBSET Tree, S # {}, \A q \in S : Running(q)'
              PROVE  \E q \in S : parent'[q] \notin S
            <4>1. CASE S \subseteq {c}
                BY <3>2, <3>6, <4>1
            <4>2. CASE ~(S \subseteq {c})
                <5>1. S \ {c} \in SUBSET Tree /\ S \ {c} # {} /\ \A q \in S \ {c} : Running(q)
                    BY <3>3, <3>6, <4>2
                <5>2. PICK q \in S \ {c} : parent[q] \notin S \ {c}
                    BY <5>1 DEF Founded
                <5> QED
                    BY <3>3, <3>4, <5>1, <5>2
            <4> QED
                BY <4>1, <4>2
        <3> QED
            BY <3>5, <3>6 DEF Founded
    <2> QED
        BY <2>1, <2>2, <2>3
<1>3. ASSUME NEW p \in Tree, Stick(p) PROVE ToolInv'
    <2>1. ToolTypeOK' /\ NothingEarly'
        BY <1>3 DEF ToolTypeOK, ProcStates, SupStates, NothingEarly, Stick
    <2>2. NoSurvivor'
        BY <1>3 DEF ToolTypeOK, NothingEarly, NoSurvivor, Stopped, Stick
    <2>3. Adopted' /\ Founded'
        BY <1>3 DEF ToolTypeOK, NothingEarly, Adopted, Founded, Running, Stick
    <2> QED
        BY <2>1, <2>2, <2>3
<1>4. ASSUME NEW p \in Tree, Unstick(p) PROVE ToolInv'
    <2>1. ToolTypeOK' /\ NothingEarly'
        BY <1>4 DEF ToolTypeOK, ProcStates, SupStates, NothingEarly, Unstick
    <2>2. NoSurvivor'
        BY <1>4 DEF ToolTypeOK, NothingEarly, NoSurvivor, Stopped, Unstick
    <2>3. Adopted' /\ Founded'
        BY <1>4 DEF ToolTypeOK, NothingEarly, Adopted, Founded, Running, Unstick
    <2> QED
        BY <2>1, <2>2, <2>3
<1>5. CASE InstallHandlers
    <2>1. ToolTypeOK' /\ NothingEarly'
        BY <1>5 DEF ToolTypeOK, ProcStates, SupStates, NothingEarly, InstallHandlers
    <2>2. NoSurvivor'
        BY <1>5 DEF ToolTypeOK, NothingEarly, NoSurvivor, Stopped, InstallHandlers
    <2>3. Adopted' /\ Founded'
        BY <1>5 DEF ToolTypeOK, NothingEarly, Adopted, Founded, Running, InstallHandlers
    <2> QED
        BY <2>1, <2>2, <2>3
<1>6. CASE Arm
    <2>1. ToolTypeOK' /\ NothingEarly'
        BY <1>6 DEF ToolTypeOK, ProcStates, SupStates, NothingEarly, Arm, ParentGone
    <2>2. NoSurvivor'
        BY <1>6 DEF ToolTypeOK, NothingEarly, NoSurvivor, Stopped, Arm, ParentGone
    <2>3. Adopted' /\ Founded'
        BY <1>6 DEF ToolTypeOK, NothingEarly, Adopted, Founded, Running, Arm, ParentGone
    <2> QED
        BY <2>1, <2>2, <2>3
<1>7. CASE SpawnWorker
    <2>1. ToolTypeOK' /\ NothingEarly'
        BY <1>7 DEF ToolTypeOK, ProcStates, SupStates, NothingEarly, SpawnWorker
    <2>2. NoSurvivor'
        BY <1>7 DEF ToolTypeOK, NothingEarly, NoSurvivor, Stopped, SpawnWorker
    <2>3. Adopted' /\ Founded'
        BY <1>7 DEF ToolTypeOK, NothingEarly, Adopted, Founded, Running, SpawnWorker
    <2> QED
        BY <2>1, <2>2, <2>3
<1>8. CASE WorkerEnded
    <2>1. ToolTypeOK' /\ NothingEarly'
        BY <1>8 DEF ToolTypeOK, ProcStates, SupStates, NothingEarly, WorkerEnded
    <2>2. NoSurvivor'
        BY <1>8 DEF ToolTypeOK, NothingEarly, NoSurvivor, Stopped, WorkerEnded
    <2>3. Adopted' /\ Founded'
        BY <1>8 DEF ToolTypeOK, NothingEarly, Adopted, Founded, Running, WorkerEnded
    <2> QED
        BY <2>1, <2>2, <2>3
<1>9. CASE ListChildren
    <2>1. ToolTypeOK' /\ NothingEarly'
        BY <1>9 DEF ToolTypeOK, ProcStates, SupStates, NothingEarly, ListChildren
    <2>2. NoSurvivor'
        BY <1>9 DEF ToolTypeOK, NothingEarly, NoSurvivor, Stopped, ListChildren
    <2>3. Adopted' /\ Founded'
        BY <1>9 DEF ToolTypeOK, NothingEarly, Adopted, Founded, Running, ListChildren
    <2> QED
        BY <2>1, <2>2, <2>3
<1>10. CASE KillListed
    <2>1. ToolTypeOK' /\ NothingEarly'
        BY <1>10 DEF ToolTypeOK, ProcStates, SupStates, NothingEarly, KillListed, Die, Heir
    <2>2. NoSurvivor'
        BY <1>10 DEF ToolTypeOK, NothingEarly, NoSurvivor, Stopped, KillListed, Die, Heir
    <2>3. Adopted' /\ Founded'
        BY <1>10 DEF ToolTypeOK, NothingEarly, Adopted, Founded, Running, KillListed, Die, Heir
    <2> QED
        BY <2>1, <2>2, <2>3
<1>11. CASE Reap
    <2>1. ToolTypeOK' /\ NothingEarly'
        BY <1>11 DEF ToolTypeOK, ProcStates, SupStates, NothingEarly, Reap, Exhausted, Children
    <2>2. NoSurvivor'
        <3> SUFFICES ASSUME Exhausted PROVE \A p \in Tree : ~Running(p)
            BY <1>11 DEF ToolTypeOK, ProcStates, NoSurvivor, Stopped, Running, Reap
        <3> DEFINE Survivors == {p \in Tree : Running(p)}
        <3> SUFFICES ASSUME Survivors # {} PROVE FALSE
            OBVIOUS
        <3>1. PICK p \in Survivors : parent[p] \notin Survivors
            BY <1>11 DEF Founded, Reap
        <3>2. parent[p] = Supervisor
            BY <1>11, <3>1 DEF Adopted, Reap
        <3> QED
            BY <3>1, <3>2 DEF Exhausted, Children, Running
    <2>3. Adopted' /\ Founded'
        BY <1>11 DEF ToolTypeOK, NothingEarly, Adopted, Founded, Running, Reap, Exhausted, Children
    <2> QED
        BY <2>1, <2>2, <2>3
<1>12. CASE Completed
    <2>1. ToolTypeOK' /\ NothingEarly'
        BY <1>12 DEF ToolTypeOK, ProcStates, SupStates, NothingEarly, Completed, OutputsClosed
    <2>2. NoSurvivor'
        BY <1>12 DEF ToolTypeOK, NothingEarly, NoSurvivor, Stopped, Completed, OutputsClosed
    <2>3. Adopted' /\ Founded'
        BY <1>12 DEF ToolTypeOK, NothingEarly, Adopted, Founded, Running, Completed, OutputsClosed
    <2> QED
        BY <2>1, <2>2, <2>3
<1>13. CASE CutShort
    <2>1. ToolTypeOK' /\ NothingEarly'
        BY <1>13 DEF ToolTypeOK, ProcStates, SupStates, NothingEarly, CutShort, Terminate
    <2>2. NoSurvivor'
        BY <1>13 DEF ToolTypeOK, NothingEarly, NoSurvivor, Stopped, CutShort, Terminate
    <2>3. Adopted' /\ Founded'
        BY <1>13 DEF ToolTypeOK, NothingEarly, Adopted, Founded, Running, CutShort, Terminate
    <2> QED
        BY <2>1, <2>2, <2>3
<1>14. CASE Settled
    <2>1. ToolTypeOK' /\ NothingEarly'
        BY <1>14 DEF ToolTypeOK, ProcStates, SupStates, NothingEarly, Settled
    <2>2. NoSurvivor'
        BY <1>14 DEF ToolTypeOK, NothingEarly, NoSurvivor, Stopped, Settled
    <2>3. Adopted' /\ Founded'
        BY <1>14 DEF ToolTypeOK, NothingEarly, Adopted, Founded, Running, Settled
    <2> QED
        BY <2>1, <2>2, <2>3
<1>15. CASE Launch
    <2>1. ToolTypeOK' /\ NothingEarly'
        BY <1>15 DEF ToolTypeOK, ProcStates, SupStates, NothingEarly, Launch
    <2>2. NoSurvivor'
        BY <1>15 DEF ToolTypeOK, NothingEarly, NoSurvivor, Stopped, Launch
    <2>3. Adopted' /\ Founded'
        BY <1>15 DEF ToolTypeOK, NothingEarly, Adopted, Founded, Running, Launch
    <2> QED
        BY <2>1, <2>2, <2>3
<1>16. CASE GuardFails
    <2>1. ToolTypeOK' /\ NothingEarly'
        BY <1>16 DEF ToolTypeOK, ProcStates, SupStates, NothingEarly, GuardFails, Orphan
    <2>2. NoSurvivor'
        BY <1>16 DEF ToolTypeOK, NothingEarly, NoSurvivor, Stopped, GuardFails, Orphan
    <2>3. Adopted' /\ Founded'
        BY <1>16 DEF ToolTypeOK, NothingEarly, Adopted, Founded, Running, GuardFails, Orphan
    <2> QED
        BY <2>1, <2>2, <2>3
<1>17. CASE GraceOver
    <2>1. ToolTypeOK' /\ NothingEarly'
        BY <1>17 DEF ToolTypeOK, ProcStates, SupStates, NothingEarly, GraceOver, Orphan
    <2>2. NoSurvivor'
        BY <1>17 DEF ToolTypeOK, NothingEarly, NoSurvivor, Stopped, GraceOver, Orphan
    <2>3. Adopted' /\ Founded'
        BY <1>17 DEF ToolTypeOK, NothingEarly, Adopted, Founded, Running, GraceOver, Orphan
    <2> QED
        BY <2>1, <2>2, <2>3
<1>18. CASE Cancel
    <2>1. ToolTypeOK' /\ NothingEarly'
        BY <1>18 DEF ToolTypeOK, ProcStates, SupStates, NothingEarly, Cancel, Terminate
    <2>2. NoSurvivor'
        BY <1>18 DEF ToolTypeOK, NothingEarly, NoSurvivor, Stopped, Cancel, Terminate
    <2>3. Adopted' /\ Founded'
        BY <1>18 DEF ToolTypeOK, NothingEarly, Adopted, Founded, Running, Cancel, Terminate
    <2> QED
        BY <2>1, <2>2, <2>3
<1>19. CASE DansoDies
    <2>1. ToolTypeOK' /\ NothingEarly'
        BY <1>19 DEF ToolTypeOK, ProcStates, SupStates, NothingEarly, DansoDies
    <2>2. NoSurvivor'
        BY <1>19 DEF ToolTypeOK, NothingEarly, NoSurvivor, Stopped, DansoDies
    <2>3. Adopted' /\ Founded'
        BY <1>19 DEF ToolTypeOK, NothingEarly, Adopted, Founded, Running, DansoDies
    <2> QED
        BY <2>1, <2>2, <2>3
<1>20. CASE UNCHANGED toolVars
    BY <1>20 DEF toolVars, ToolTypeOK, NothingEarly, Adopted, Founded, NoSurvivor, Stopped, Running
<1> QED
    BY <1>1, <1>2, <1>3, <1>4, <1>5, <1>6, <1>7, <1>8, <1>9, <1>10, <1>11, <1>12, <1>13, <1>14,
       <1>15, <1>16, <1>17, <1>18, <1>19, <1>20 DEF ToolNext, Supervise, Await

\* A supervisor that ends by itself leaves nothing behind (tools/supervisor.rs): for
\* any set of processes the tool may fork, in any order, dying or stuck or not.
THEOREM ToolLeavesNothing == ToolInit /\ [][ToolNext]_toolVars => []NoSurvivor
<1>1. ToolInv => NoSurvivor
    BY DEF ToolInv
<1> QED
    BY ToolInvInit, ToolInvStep, <1>1, PTL

-----------------------------------------------------------------------------
(* The stream of a turn (TurnSession).                                     *)

\* The type of a turn, for any bounds.
CallKinds == {"tool_started", "tool_completed"}
LoopSteps == {"none", "opening", "requesting", "asking", "calling", "executing", "finishing"}
Outcomes == (Terminals \ {"objection", "completion", "task_paused"}) \cup {"ok"}
Kinds ==
  CallKinds \cup TaskStates \cup Terminals \cup {"text_delta", "message_completed", "result"}
Calls == [id : Nat, tool : Tools \cup {"none"}]
Events == [kind : Kinds, id : Nat]
TurnStates ==
  [at : LoopSteps \cup {"ended", "told", "finished"}, interrupted : BOOLEAN, pause : BOOLEAN, heard : BOOLEAN, log : Seq(Events),
   requests : Nat, streamed : BOOLEAN, calls : Seq(Calls), made : Nat, queued : Seq(Calls),
   active : Calls, answered : BOOLEAN, spent : BOOLEAN, task : TaskStates \cup {"none"},
   outcome : Outcomes \cup {"none"}]

\* The events of calls come one after the other.
CallsInTurn(log) ==
  \A i \in Places(log, CallKinds) :
    LET earlier == {j \in Places(log, CallKinds) : j < i}
    IN IF earlier = {} THEN log[i] = Event("tool_started", 1)
       ELSE \A j \in earlier : (\A k \in earlier : k <= j) => log[i] = NextOf(log[j])

\* The latest event of a call; a stream without one goes on as if call 0 was over.
LatestCall(log, event) ==
  \/ Places(log, CallKinds) = {} /\ event = Event("tool_completed", 0)
  \/ \E i \in Places(log, CallKinds) :
       log[i] = event /\ \A j \in Places(log, CallKinds) : j <= i

\* The stream and the sink agree on whether the task is paused.
TaskTold(log, task) == LatestIs(log, TaskStates, "paused") <=> task = "paused"

\* A turn whose loop runs: the sink's queue is what the loop has left to call, and
\* numbered as the journal numbers it.
InLoop(t) ==
  /\ t \in TurnStates /\ t.outcome = "none" /\ t.at \in LoopSteps
  /\ CallsInTurn(t.log) /\ Places(t.log, Terminals) = {} /\ TaskTold(t.log, t.task)
  /\ t.queued = t.calls /\ Len(t.calls) <= t.made
  /\ \A i \in 1 .. Len(t.calls) : t.calls[i].id = t.made - Len(t.calls) + i
  /\ t.calls /= <<>> => t.at \in {"calling", "executing"}
  /\ t.at = "executing" =>
       /\ Len(t.calls) < t.made /\ t.active.id = t.made - Len(t.calls)
       /\ LatestCall(t.log, Event("tool_started", t.active.id))
  /\ t.at /= "executing" =>
       /\ t.active = NoCall
       /\ LatestCall(t.log, Event("tool_completed", t.made - Len(t.calls)))
  /\ t.at = "finishing" => t.spent \/ t.answered

\* A turn that has left the loop and has not told its end.
HasEnded(t) ==
  /\ t \in TurnStates /\ t.at = "ended" /\ t.outcome \in Outcomes
  /\ CallsInTurn(t.log) /\ Places(t.log, Terminals) = {}
  /\ t.heard => TaskTold(t.log, t.task)
  /\ t.outcome = "ok" => t.answered /\ t.active = NoCall

\* A turn that has.
IsOver(t) ==
  /\ t \in TurnStates /\ t.at \in {"told", "finished"} /\ t.outcome \in Outcomes
  /\ CallsInTurn(t.log) /\ EndsOnce(t) /\ VerdictTrue(t)

TurnInv(t) == InLoop(t) \/ HasEnded(t) \/ IsOver(t)
SessionInv == DOMAIN turn = RuntimeSessions /\ \A s \in RuntimeSessions : TurnInv(turn[s])

\* Where a stream that grows by an event has events of some kinds.
LEMMA PlacesAppend ==
    ASSUME NEW log \in Seq(Events), NEW e \in Events, NEW kinds
    PROVE  /\ Places(Append(log, e), kinds)
                = Places(log, kinds) \cup (IF e.kind \in kinds THEN {Len(log) + 1} ELSE {})
           /\ \A i \in Places(log, kinds) : i \in 1 .. Len(log) /\ Append(log, e)[i] = log[i]
           /\ Append(log, e)[Len(log) + 1] = e
           /\ Append(log, e) \in Seq(Events) /\ Len(Append(log, e)) = Len(log) + 1
           /\ Len(log) \in Nat
<1> DEFINE new == Append(log, e)
<1>1. /\ new \in Seq(Events) /\ Len(new) = Len(log) + 1 /\ Len(log) \in Nat
      /\ DOMAIN new = 1 .. Len(log) + 1 /\ DOMAIN log = 1 .. Len(log)
      /\ \A i \in 1 .. Len(log) : new[i] = log[i]
      /\ new[Len(log) + 1] = e
    OBVIOUS
<1> HIDE DEF new
<1>2. Places(new, kinds)
        = Places(log, kinds) \cup (IF e.kind \in kinds THEN {Len(log) + 1} ELSE {})
    BY <1>1 DEF Places
<1>3. \A i \in Places(log, kinds) : i \in 1 .. Len(log) /\ new[i] = log[i]
    BY <1>1 DEF Places
<1> QED
    BY <1>1, <1>2, <1>3 DEF new

\* An event of another kind changes nothing about the calls.
LEMMA PlainAppend ==
    ASSUME NEW log \in Seq(Events), NEW e \in Events, e.kind \notin CallKinds
    PROVE  /\ CallsInTurn(log) => CallsInTurn(Append(log, e))
           /\ \A f : LatestCall(log, f) => LatestCall(Append(log, e), f)
<1> DEFINE new == Append(log, e)
<1>1. /\ Places(new, CallKinds) = Places(log, CallKinds)
      /\ \A i \in Places(log, CallKinds) : new[i] = log[i]
    <2>1. /\ Places(new, CallKinds)
               = Places(log, CallKinds)
                   \cup (IF e.kind \in CallKinds THEN {Len(log) + 1} ELSE {})
          /\ \A i \in Places(log, CallKinds) : new[i] = log[i]
        BY PlacesAppend
    <2>2. (IF e.kind \in CallKinds THEN {Len(log) + 1} ELSE {}) = {}
        OBVIOUS
    <2> HIDE DEF new
    <2> QED
        BY <2>1, <2>2
<1> HIDE DEF new
<1>2. CallsInTurn(log) => CallsInTurn(new)
    BY <1>1 DEF CallsInTurn
<1>3. \A f : LatestCall(log, f) => LatestCall(new, f)
    BY <1>1 DEF LatestCall
<1> QED
    BY <1>2, <1>3 DEF new

\* The event after the latest of a call keeps the order and is the latest.
LEMMA CallAppend ==
    ASSUME NEW log \in Seq(Events), NEW e \in Events, NEW f \in Events, e.kind \in CallKinds,
           CallsInTurn(log), LatestCall(log, f), e = NextOf(f)
    PROVE  CallsInTurn(Append(log, e)) /\ LatestCall(Append(log, e), e)
<1> DEFINE new == Append(log, e)
           n == Len(log) + 1
           old == Places(log, CallKinds)
<1>1. /\ Places(new, CallKinds) = old \cup {n} /\ n \in Nat
      /\ \A i \in old : i \in Nat /\ i < n /\ new[i] = log[i]
      /\ new[n] = e
    BY PlacesAppend
<1>2. \/ old = {} /\ f = Event("tool_completed", 0)
      \/ \E i \in old : log[i] = f /\ \A j \in old : j <= i
    BY DEF LatestCall
<1>3. \A i \in old :
        LET earlier == {j \in old : j < i}
        IN IF earlier = {} THEN log[i] = Event("tool_started", 1)
           ELSE \A j \in earlier : (\A k \in earlier : k <= j) => log[i] = NextOf(log[j])
    BY DEF CallsInTurn
<1> HIDE DEF new, n, old
<1>4. LatestCall(new, e)
    BY <1>1 DEF LatestCall
<1>5. ASSUME NEW i \in old \cup {n}
      PROVE  LET earlier == {j \in old \cup {n} : j < i}
             IN IF earlier = {} THEN new[i] = Event("tool_started", 1)
                ELSE \A j \in earlier : (\A k \in earlier : k <= j) => new[i] = NextOf(new[j])
    <2>1. CASE i \in old
        <3>1. {j \in old \cup {n} : j < i} = {j \in old : j < i} /\ new[i] = log[i]
            BY <2>1, <1>1
        <3> QED
            BY <2>1, <3>1, <1>1, <1>3
    <2>2. CASE i = n
        <3>1. {j \in old \cup {n} : j < i} = old /\ new[i] = e
            <4>1. \A j \in old \cup {n} : j < n <=> j \in old
                BY <1>1
            <4> QED
                BY <4>1, <2>2, <1>1
        <3>2. CASE old = {} /\ f = Event("tool_completed", 0)
            <4>1. e = Event("tool_started", 1)
                BY <3>2 DEF NextOf, Event
            <4> QED
                BY <3>1, <3>2, <4>1
        <3>3. CASE \E m \in old : log[m] = f /\ \A j \in old : j <= m
            <4>1. PICK m \in old : log[m] = f /\ \A j \in old : j <= m
                BY <3>3
            <4>2. \A j \in old : (\A k \in old : k <= j) => j = m
                BY <4>1, <1>1
            <4> QED
                BY <3>1, <4>1, <4>2, <1>1
        <3> QED
            BY <3>2, <3>3, <1>2
    <2> QED
        BY <2>1, <2>2
<1>6. CallsInTurn(new)
    BY <1>1, <1>5 DEF CallsInTurn
<1> QED
    BY <1>4, <1>6 DEF new

\* What the stream says last of the task.
LEMMA TaskAppend ==
    ASSUME NEW log \in Seq(Events), NEW e \in Events
    PROVE  /\ e.kind \notin TaskStates =>
                (LatestIs(Append(log, e), TaskStates, "paused")
                   <=> LatestIs(log, TaskStates, "paused"))
           /\ e.kind \in TaskStates => TaskTold(Append(log, e), e.kind)
<1> DEFINE new == Append(log, e)
           n == Len(log) + 1
           old == Places(log, TaskStates)
<1>1. /\ Places(new, TaskStates) = old \cup (IF e.kind \in TaskStates THEN {n} ELSE {})
      /\ \A i \in old : i \in Nat /\ i < n /\ new[i] = log[i]
      /\ new[n] = e /\ n \in Nat
    BY PlacesAppend
<1>2. LatestIs(log, TaskStates, "paused")
        <=> \E i \in old : log[i].kind = "paused" /\ \A j \in old : j <= i
    BY DEF LatestIs
<1>3. LatestIs(new, TaskStates, "paused")
        <=> \E i \in Places(new, TaskStates) :
              new[i].kind = "paused" /\ \A j \in Places(new, TaskStates) : j <= i
    BY DEF LatestIs
<1> HIDE DEF new, n, old
<1>4. CASE e.kind \notin TaskStates
    BY <1>1, <1>2, <1>3, <1>4 DEF new
<1>5. CASE e.kind \in TaskStates
    <2>1. ASSUME NEW i \in old \cup {n} PROVE (\A j \in old \cup {n} : j <= i) <=> i = n
        BY <1>1
    <2> QED
        BY <1>1, <1>3, <1>5, <2>1 DEF TaskTold, new
<1> QED
    BY <1>4, <1>5

\* No terminal event among others.
LEMMA NoEndAppend ==
    ASSUME NEW log \in Seq(Events), NEW e \in Events, e.kind \notin Terminals,
           Places(log, Terminals) = {}
    PROVE  Places(Append(log, e), Terminals) = {}
BY PlacesAppend

\* A failure ends the loop of a turn wherever it is.
LEMMA EndsWell ==
    ASSUME NEW t, InLoop(t), NEW o \in Outcomes, o /= "ok" PROVE HasEnded(Ended(t, o))
<1>1. Ended(t, o) \in TurnStates
    BY DEF InLoop, TurnStates, Ended, Outcomes, Terminals
<1> QED
    BY <1>1 DEF InLoop, HasEnded, Ended, TurnStates

\* A turn is in the loop just when it has not left it.
LEMMA LoopIsNotLeft ==
    ASSUME NEW t PROVE (InLoop(t) => ~Left(t)) /\ (HasEnded(t) => Left(t) /\ t.at = "ended")
BY DEF InLoop, HasEnded, Left, Outcomes, Terminals

\* An event that is not of a call, a task or an end: sent, or the run ends for an
\* embedder that has gone.
LEMMA PlainSend ==
    ASSUME NEW t, InLoop(t), NEW e \in Events,
           e.kind \notin CallKinds \cup TaskStates \cup Terminals
    PROVE  \/ HasEnded(Send(t, e))
           \/ InLoop(Send(t, e)) /\ Send(t, e) = [t EXCEPT !.log = Append(t.log, e)]
<1>1. ~Left(t)
    BY LoopIsNotLeft
<1>2. CASE ~t.heard
    <2>1. Send(t, e) = Ended(t, "output")
        BY <1>1, <1>2 DEF Send
    <2> QED
        BY <2>1, EndsWell DEF Outcomes, Terminals
<1>3. CASE t.heard
    <2> DEFINE r == [t EXCEPT !.log = Append(t.log, e)]
               new == Append(t.log, e)
    <2>1. Send(t, e) = r
        BY <1>1, <1>3 DEF Send
    <2>2. t \in TurnStates /\ t.log \in Seq(Events)
        BY DEF InLoop, TurnStates
    <2>3. /\ new \in Seq(Events) /\ CallsInTurn(new) /\ Places(new, Terminals) = {}
          /\ TaskTold(new, t.task)
          /\ \A f : LatestCall(t.log, f) => LatestCall(new, f)
        BY <2>2, PlainAppend, NoEndAppend, TaskAppend DEF InLoop, TaskTold
    <2> HIDE DEF new
    <2>4. r \in TurnStates /\ r = [t EXCEPT !.log = new]
        BY <2>2, <2>3 DEF TurnStates, new
    <2>5. /\ r.log = new /\ r.task = t.task /\ r.calls = t.calls /\ r.queued = t.queued
          /\ r.made = t.made /\ r.active = t.active /\ r.at = t.at /\ r.outcome = t.outcome
          /\ r.spent = t.spent /\ r.answered = t.answered
        BY <2>2, <2>4 DEF TurnStates
    <2> HIDE DEF r
    <2>6. InLoop(r)
        BY <2>3, <2>4, <2>5 DEF InLoop
    <2> QED
        BY <2>1, <2>6 DEF r, new
<1> QED
    BY <1>2, <1>3

\* A word about the task: sent and remembered, or the run ends.
LEMMA TaskSend ==
    ASSUME NEW t, InLoop(t), NEW state \in TaskStates
    PROVE  \/ HasEnded(SinkTask(t, state))
           \/ /\ InLoop(SinkTask(t, state))
              /\ SinkTask(t, state)
                   = [t EXCEPT !.task = state, !.log = Append(t.log, Event(state, 0))]
<1> DEFINE e == Event(state, 0)
           r == [t EXCEPT !.task = state]
           new == Append(t.log, e)
<1>1. ~Left(t) /\ t \in TurnStates /\ t.log \in Seq(Events) /\ t.outcome = "none"
    BY LoopIsNotLeft DEF InLoop, TurnStates
<1>2. /\ e \in Events /\ e.kind = state /\ e.kind \in TaskStates
      /\ e.kind \notin CallKinds \cup Terminals
    BY DEF Event, Events, Kinds, TaskStates, CallKinds, Terminals
<1>3. r \in TurnStates /\ r.log = t.log /\ r.heard = t.heard /\ ~Left(r)
    BY <1>1 DEF TurnStates, Left
<1>4. SinkTask(t, state) = Send(r, e)
    BY <1>1 DEF SinkTask
<1>5. CASE ~t.heard
    <2>1. SinkTask(t, state) = Ended(r, "output")
        BY <1>3, <1>4, <1>5 DEF Send
    <2>2. Ended(r, "output") \in TurnStates
        BY <1>3 DEF TurnStates, Ended, Outcomes, Terminals
    <2> QED
        BY <1>1, <1>3, <1>5, <2>1, <2>2 DEF InLoop, HasEnded, Ended, TurnStates, Outcomes, Terminals
<1>6. CASE t.heard
    <2> DEFINE q == [t EXCEPT !.task = state, !.log = new]
    <2>1. SinkTask(t, state) = q
        BY <1>1, <1>3, <1>4, <1>6 DEF Send, TurnStates
    <2>2. /\ new \in Seq(Events) /\ CallsInTurn(new) /\ Places(new, Terminals) = {}
          /\ TaskTold(new, state)
          /\ \A f : LatestCall(t.log, f) => LatestCall(new, f)
        BY <1>1, <1>2, PlainAppend, NoEndAppend, TaskAppend DEF InLoop
    <2> HIDE DEF new, e
    <2>3. q \in TurnStates
        BY <1>1, <2>2 DEF TurnStates
    <2>4. InLoop(q)
        BY <1>1, <2>2, <2>3 DEF InLoop, TurnStates
    <2> QED
        BY <2>1, <2>4 DEF new, e
<1> QED
    BY <1>5, <1>6

\* The queue's next call is the loop's: its start is told under its own id.
LEMMA CallStart ==
    ASSUME NEW t, InLoop(t), t.at = "calling", t.calls /= <<>>,
           NEW begun, begun = SinkStarted(t, Head(t.calls))
    PROVE  \/ HasEnded(begun)
           \/ ~Left(begun) /\ InLoop([begun EXCEPT !.at = "executing", !.calls = Tail(@)])
<1> DEFINE call == Head(t.calls)
           m == t.made - Len(t.calls)
           e == Event("tool_started", m + 1)
           new == Append(t.log, e)
           next == [t EXCEPT !.active = call, !.queued = Tail(t.calls)]
<1>1. /\ ~Left(t) /\ t \in TurnStates /\ t.log \in Seq(Events) /\ t.outcome = "none"
      /\ t.calls \in Seq(Calls) /\ t.made \in Nat /\ t.queued = t.calls
      /\ t.active = NoCall /\ Len(t.calls) <= t.made
    BY LoopIsNotLeft DEF InLoop, TurnStates
<1>2. /\ Len(t.calls) \in Nat /\ Len(t.calls) >= 1 /\ call = t.calls[1] /\ call \in Calls
      /\ Tail(t.calls) \in Seq(Calls) /\ Len(Tail(t.calls)) = Len(t.calls) - 1
      /\ \A i \in 1 .. Len(t.calls) - 1 : Tail(t.calls)[i] = t.calls[i + 1]
    BY <1>1
<1>3. m \in Nat /\ call.id = m + 1
    BY <1>1, <1>2 DEF InLoop
<1>4. e \in Events /\ e.kind \in CallKinds /\ e.kind \notin TaskStates \cup Terminals
    BY <1>3 DEF Event, Events, Kinds, TaskStates, CallKinds, Terminals
<1>5. /\ new \in Seq(Events) /\ CallsInTurn(new) /\ Places(new, Terminals) = {}
      /\ TaskTold(new, t.task) /\ LatestCall(new, e)
    <2>1. Event("tool_completed", m) \in Events /\ e = NextOf(Event("tool_completed", m))
        BY <1>3 DEF Event, Events, Kinds, CallKinds, NextOf
    <2>2. LatestCall(t.log, Event("tool_completed", m)) /\ CallsInTurn(t.log)
        BY DEF InLoop
    <2>3. CallsInTurn(new) /\ LatestCall(new, e)
        BY <1>1, <1>4, <2>1, <2>2, CallAppend
    <2>4. new \in Seq(Events) /\ Places(new, Terminals) = {} /\ TaskTold(new, t.task)
        BY <1>1, <1>4, NoEndAppend, TaskAppend DEF InLoop, TaskTold
    <2> QED
        BY <2>3, <2>4
<1>6. next \in TurnStates /\ next.log = t.log /\ next.heard = t.heard /\ ~Left(next)
      /\ next.active = call
    BY <1>1, <1>2 DEF TurnStates, Left
<1>7. SinkStarted(t, call) = Send(next, e)
    BY <1>1, <1>2, <1>3, <1>6 DEF SinkStarted
<1> HIDE DEF call, e
<1>8. CASE ~t.heard
    <2>1. SinkStarted(t, call) = Ended(next, "output")
        BY <1>6, <1>7, <1>8 DEF Send
    <2>2. Ended(next, "output") \in TurnStates
        BY <1>6 DEF TurnStates, Ended, Outcomes, Terminals
    <2>3. HasEnded(Ended(next, "output"))
        BY <1>1, <1>6, <1>8, <2>2 DEF InLoop, HasEnded, Ended, TurnStates, Outcomes, Terminals
    <2> QED
        BY <2>1, <2>3 DEF call
<1>9. CASE t.heard
    <2> DEFINE r == [next EXCEPT !.log = new]
               q == [r EXCEPT !.at = "executing", !.calls = Tail(@)]
    <2>1. SinkStarted(t, call) = r
        BY <1>6, <1>7, <1>9 DEF Send
    <2>2. r \in TurnStates /\ ~Left(r)
        BY <1>1, <1>5, <1>6 DEF TurnStates, Left
    <2> DEFINE u == [t EXCEPT !.active = call, !.queued = Tail(t.calls), !.log = new,
                        !.at = "executing", !.calls = Tail(t.calls)]
    <2>9. q = u
        BY <1>1 DEF TurnStates
    <2>3. /\ q \in TurnStates /\ q.at = "executing" /\ q.calls = Tail(t.calls)
          /\ q.queued = Tail(t.calls) /\ q.active = call /\ q.made = t.made
          /\ q.log = new /\ q.task = t.task /\ q.outcome = "none"
        BY <1>1, <1>2, <1>5, <1>6 DEF TurnStates, LoopSteps
    <2> HIDE DEF new, r, q, next
    <2>4. \A i \in 1 .. Len(q.calls) : q.calls[i].id = q.made - Len(q.calls) + i
        <3>1. \A i \in 1 .. Len(t.calls) : t.calls[i].id = t.made - Len(t.calls) + i
            BY DEF InLoop
        <3>2. ASSUME NEW i \in 1 .. Len(t.calls) - 1
              PROVE  t.calls[i + 1].id = t.made - (Len(t.calls) - 1) + i
            <4>1. i + 1 \in 1 .. Len(t.calls) /\ i \in Nat
                BY <1>2
            <4> HIDE DEF m
            <4>2. t.calls[i + 1].id = t.made - Len(t.calls) + (i + 1)
                BY <4>1, <3>1
            <4>3. t.made - Len(t.calls) + (i + 1) = t.made - (Len(t.calls) - 1) + i
                <5>1. \A a, b, c \in Nat : a - b + (c + 1) = a - (b - 1) + c
                    OBVIOUS
                <5>2. t.made \in Nat /\ Len(t.calls) \in Nat /\ i \in Nat
                    BY <4>1, <1>1, <1>2
                <5> QED
                    BY <5>1, <5>2
            <4> QED
                BY <4>2, <4>3
        <3> QED
            BY <2>3, <3>2, <1>2
    <2>5. Len(q.calls) < q.made /\ q.active.id = q.made - Len(q.calls) /\ q.active.id = m + 1
        BY <2>3, <1>1, <1>2, <1>3
    <2>6. LatestCall(q.log, Event("tool_started", q.active.id))
        BY <2>3, <2>5, <1>5 DEF e
    <2>7. Len(q.calls) <= q.made
        BY <2>3, <1>1, <1>2
    <2>8. InLoop(q)
        BY <2>3, <2>4, <2>5, <2>6, <2>7, <1>5 DEF InLoop, LoopSteps
    <2> QED
        BY <2>1, <2>2, <2>8 DEF call, q
<1> QED
    BY <1>8, <1>9

\* Its end is told under the same id, and the sink does not object.
LEMMA CallEnd ==
    ASSUME NEW t, InLoop(t), t.at = "executing", NEW done, done = SinkSettled(t)
    PROVE  \/ HasEnded(done)
           \/ ~Left(done) /\ InLoop([done EXCEPT !.at = "calling"])
<1> DEFINE id == t.active.id
           e == Event("tool_completed", id)
           new == Append(t.log, e)
           next == [t EXCEPT !.active = NoCall]
<1>1. /\ ~Left(t) /\ t \in TurnStates /\ t.log \in Seq(Events) /\ t.outcome = "none"
      /\ t.calls \in Seq(Calls) /\ t.made \in Nat /\ t.queued = t.calls
      /\ t.active \in Calls /\ Len(t.calls) < t.made /\ id = t.made - Len(t.calls)
      /\ LatestCall(t.log, Event("tool_started", id)) /\ CallsInTurn(t.log)
    BY LoopIsNotLeft DEF InLoop, TurnStates
<1>2. id \in Nat /\ id >= 1 /\ t.active /= NoCall
    BY <1>1 DEF NoCall, Calls
<1>3. e \in Events /\ e.kind \in CallKinds /\ e.kind \notin TaskStates \cup Terminals
    BY <1>2 DEF Event, Events, Kinds, TaskStates, CallKinds, Terminals
<1>4. /\ new \in Seq(Events) /\ CallsInTurn(new) /\ Places(new, Terminals) = {}
      /\ TaskTold(new, t.task) /\ LatestCall(new, e)
    <2>1. Event("tool_started", id) \in Events /\ e = NextOf(Event("tool_started", id))
        BY <1>2 DEF Event, Events, Kinds, CallKinds, NextOf
    <2>2. CallsInTurn(new) /\ LatestCall(new, e)
        BY <1>1, <1>3, <2>1, CallAppend
    <2>3. new \in Seq(Events) /\ Places(new, Terminals) = {} /\ TaskTold(new, t.task)
        BY <1>1, <1>3, NoEndAppend, TaskAppend DEF InLoop, TaskTold
    <2> QED
        BY <2>2, <2>3
<1>5. /\ next \in TurnStates /\ next.log = t.log /\ next.heard = t.heard /\ ~Left(next)
      /\ next.active = NoCall
    BY <1>1 DEF TurnStates, Left, NoCall, Calls
<1>6. SinkSettled(t) = Send(next, e)
    BY <1>2 DEF SinkSettled
<1> HIDE DEF e
<1>7. CASE ~t.heard
    <2>1. SinkSettled(t) = Ended(next, "output")
        BY <1>5, <1>6, <1>7 DEF Send
    <2>2. Ended(next, "output") \in TurnStates
        BY <1>5 DEF TurnStates, Ended, Outcomes, Terminals
    <2>3. HasEnded(Ended(next, "output"))
        BY <1>1, <1>5, <1>7, <2>2 DEF InLoop, HasEnded, Ended, TurnStates, Outcomes, Terminals
    <2> QED
        BY <2>1, <2>3
<1>8. CASE t.heard
    <2> DEFINE r == [next EXCEPT !.log = new]
               q == [r EXCEPT !.at = "calling"]
    <2>1. SinkSettled(t) = r
        BY <1>5, <1>6, <1>8 DEF Send
    <2>2. r \in TurnStates /\ ~Left(r)
        BY <1>1, <1>4, <1>5 DEF TurnStates, Left
    <2>3. /\ q \in TurnStates /\ q.at = "calling" /\ q.calls = t.calls /\ q.queued = t.calls
          /\ q.active = NoCall /\ q.made = t.made /\ q.log = new /\ q.task = t.task
          /\ q.outcome = "none"
        BY <1>1, <1>4, <1>5 DEF TurnStates, LoopSteps
    <2> HIDE DEF new, r, q, next
    <2>4. LatestCall(q.log, Event("tool_completed", q.made - Len(q.calls)))
        BY <2>3, <1>1, <1>4 DEF e
    <2>5. /\ Len(q.calls) <= q.made
          /\ \A i \in 1 .. Len(q.calls) : q.calls[i].id = q.made - Len(q.calls) + i
        BY <2>3, <1>1 DEF InLoop
    <2>6. InLoop(q)
        BY <2>3, <2>4, <2>5, <1>4 DEF InLoop, LoopSteps
    <2> QED
        BY <2>1, <2>2, <2>6 DEF q
<1> QED
    BY <1>7, <1>8

\* What an emission may do to a turn: it is as it was but for the stream, the task and
\* the answer, or its run is over.
Goes(t, r) ==
  \/ HasEnded(r)
  \/ /\ InLoop(r) /\ r.at = t.at /\ r.calls = t.calls /\ r.made = t.made
     /\ r.requests = t.requests /\ r.spent = t.spent

\* The three emissions that are not of calls do no more than that.
LEMMA SendGoes ==
    ASSUME NEW t, NEW r, Goes(t, r), NEW e \in Events,
           e.kind \notin CallKinds \cup TaskStates \cup Terminals
    PROVE  Goes(t, Send(r, e))
<1>1. CASE HasEnded(r)
    <2>1. Send(r, e) = r
        BY <1>1, LoopIsNotLeft DEF Send
    <2> QED
        BY <2>1
<1>2. CASE ~HasEnded(r)
    <2>1. InLoop(r) /\ r \in TurnStates
        BY <1>2 DEF Goes, InLoop
    <2>2. CASE HasEnded(Send(r, e))
        BY <2>2 DEF Goes
    <2>3. CASE InLoop(Send(r, e)) /\ Send(r, e) = [r EXCEPT !.log = Append(r.log, e)]
        <3> DEFINE q == [r EXCEPT !.log = Append(r.log, e)]
        <3>1. /\ q.at = r.at /\ q.calls = r.calls /\ q.made = r.made
              /\ q.requests = r.requests /\ q.spent = r.spent
            BY <2>1 DEF TurnStates
        <3> HIDE DEF q
        <3> QED
            BY <1>2, <2>3, <3>1 DEF Goes, q
    <2> QED
        BY <2>1, <2>2, <2>3, PlainSend
<1> QED
    BY <1>1, <1>2

\* See SendGoes.
LEMMA TaskGoes ==
    ASSUME NEW t, InLoop(t), NEW state \in TaskStates PROVE Goes(t, SinkTask(t, state))
<1> DEFINE q == [t EXCEPT !.task = state, !.log = Append(t.log, Event(state, 0))]
<1>1. /\ q.at = t.at /\ q.calls = t.calls /\ q.made = t.made
      /\ q.requests = t.requests /\ q.spent = t.spent
    BY DEF InLoop, TurnStates
<1> HIDE DEF q
<1>2. HasEnded(SinkTask(t, state)) \/ (InLoop(SinkTask(t, state)) /\ SinkTask(t, state) = q)
    BY TaskSend DEF q
<1> QED
    BY <1>1, <1>2 DEF Goes

\* Texts and their ends are such events.
LEMMA TextEvents ==
    ASSUME NEW n \in Nat
    PROVE  /\ Event("text_delta", n) \in Events /\ Event("message_completed", 0) \in Events
           /\ Event("text_delta", n).kind \notin CallKinds \cup TaskStates \cup Terminals
           /\ Event("message_completed", 0).kind
                \notin CallKinds \cup TaskStates \cup Terminals
BY DEF Event, Events, Kinds, CallKinds, TaskStates, Terminals

\* A final answer that is shown was given.
LEMMA FinalGoes ==
    ASSUME NEW t, NEW r, t \in TurnStates, Goes(t, r)
    PROVE  Goes(t, SinkFinal(r)) /\ (InLoop(SinkFinal(r)) => SinkFinal(r).answered)
<1> DEFINE one == Send(r, Event("text_delta", r.requests))
           shown == Send(one, Event("message_completed", 0))
           q == [shown EXCEPT !.answered = TRUE]
<1>1. r \in TurnStates /\ r.requests \in Nat
    BY DEF Goes, InLoop, HasEnded, TurnStates
<1>2. Goes(t, one) /\ Goes(t, shown)
    BY <1>1, SendGoes, TextEvents
<1>3. SinkFinal(r) = IF Left(shown) THEN shown ELSE q
    BY DEF SinkFinal
<1> HIDE DEF one, shown
<1>4. CASE HasEnded(shown)
    BY <1>2, <1>3, <1>4, LoopIsNotLeft
<1>5. CASE ~HasEnded(shown)
    <2>1. InLoop(shown) /\ shown \in TurnStates
        BY <1>2, <1>5 DEF Goes, InLoop
    <2>2. /\ q \in TurnStates /\ q.answered /\ q.at = shown.at /\ q.calls = shown.calls
          /\ q.made = shown.made /\ q.requests = shown.requests /\ q.spent = shown.spent
          /\ q.log = shown.log /\ q.task = shown.task /\ q.queued = shown.queued
          /\ q.active = shown.active /\ q.outcome = shown.outcome
        BY <2>1 DEF TurnStates
    <2>3. SinkFinal(r) = q
        BY <2>1, <1>3, LoopIsNotLeft
    <2> HIDE DEF q
    <2>4. InLoop(q)
        BY <2>1, <2>2 DEF InLoop
    <2> QED
        BY <1>2, <1>5, <2>2, <2>3, <2>4 DEF Goes
<1> QED
    BY <1>4, <1>5

\* A turn between calls goes on to its next place.
LEMMA LoopMoves ==
    ASSUME NEW t, InLoop(t), t.at /= "executing", t.calls = <<>>,
           NEW place \in LoopSteps \ {"executing"}, NEW n \in Nat, NEW over \in BOOLEAN,
           place = "finishing" => over \/ t.answered
    PROVE  InLoop([t EXCEPT !.at = place, !.requests = n, !.spent = over])
<1> DEFINE q == [t EXCEPT !.at = place, !.requests = n, !.spent = over]
<1>1. t \in TurnStates
    BY DEF InLoop
<1>2. /\ q \in TurnStates /\ q.at = place /\ q.calls = t.calls /\ q.made = t.made
      /\ q.spent = over /\ q.log = t.log /\ q.task = t.task /\ q.queued = t.queued
      /\ q.active = t.active /\ q.outcome = t.outcome /\ q.answered = t.answered
    BY <1>1 DEF TurnStates
<1> HIDE DEF q
<1>3. InLoop(q)
    BY <1>2 DEF InLoop
<1> QED
    BY <1>3 DEF q

\* The same, for one field at a time.
LEMMA LoopMovesOn ==
    ASSUME NEW t, InLoop(t), t.at /= "executing", t.calls = <<>>
    PROVE  /\ InLoop([t EXCEPT !.at = "requesting"])
           /\ InLoop([t EXCEPT !.at = "asking", !.requests = @ + 1])
           /\ InLoop([t EXCEPT !.at = "finishing", !.spent = TRUE])
           /\ t.answered => InLoop([t EXCEPT !.at = "finishing"])
<1>1. t \in TurnStates /\ t.requests \in Nat /\ t.requests + 1 \in Nat /\ t.spent \in BOOLEAN
    BY DEF InLoop, TurnStates
<1>2. /\ [t EXCEPT !.at = "requesting"]
           = [t EXCEPT !.at = "requesting", !.requests = t.requests, !.spent = t.spent]
      /\ [t EXCEPT !.at = "asking", !.requests = @ + 1]
           = [t EXCEPT !.at = "asking", !.requests = t.requests + 1, !.spent = t.spent]
      /\ [t EXCEPT !.at = "finishing", !.spent = TRUE]
           = [t EXCEPT !.at = "finishing", !.requests = t.requests, !.spent = TRUE]
      /\ [t EXCEPT !.at = "finishing"]
           = [t EXCEPT !.at = "finishing", !.requests = t.requests, !.spent = t.spent]
    BY <1>1 DEF TurnStates
<1>3. InLoop([t EXCEPT !.at = "requesting", !.requests = t.requests, !.spent = t.spent])
    BY <1>1, LoopMoves DEF LoopSteps
<1>4. InLoop([t EXCEPT !.at = "asking", !.requests = t.requests + 1, !.spent = t.spent])
    BY <1>1, LoopMoves DEF LoopSteps
<1>5. InLoop([t EXCEPT !.at = "finishing", !.requests = t.requests, !.spent = TRUE])
    BY <1>1, LoopMoves DEF LoopSteps
<1>6. t.answered =>
        InLoop([t EXCEPT !.at = "finishing", !.requests = t.requests, !.spent = t.spent])
    BY <1>1, LoopMoves DEF LoopSteps
<1> QED
    BY <1>2, <1>3, <1>4, <1>5, <1>6

\* A spent run says so first, if it is a task's.
LEMMA SpentGoes ==
    ASSUME NEW t, InLoop(t), t.at /= "executing", t.calls = <<>>
    PROVE  TurnInv(Spent(t))
<1> DEFINE told == IF LongTask THEN SinkTask(t, "paused") ELSE t
<1>1. Goes(t, told)
    BY TaskGoes DEF TaskStates, Goes
<1>2. Spent(t) = IF Left(told) THEN told ELSE [told EXCEPT !.at = "finishing", !.spent = TRUE]
    BY DEF Spent
<1> HIDE DEF told
<1>3. CASE HasEnded(told)
    BY <1>2, <1>3, LoopIsNotLeft DEF TurnInv
<1>4. CASE ~HasEnded(told)
    <2>1. InLoop(told) /\ told.at /= "executing" /\ told.calls = <<>>
        BY <1>1, <1>4 DEF Goes
    <2> QED
        BY <2>1, <1>2, LoopIsNotLeft, LoopMovesOn DEF TurnInv
<1> QED
    BY <1>3, <1>4

\* The sink's queue does not matter to what is sent.
LEMMA SendBesideQueue ==
    ASSUME NEW t \in TurnStates, NEW e, NEW q \in Seq(Calls),
           NEW u, u = [t EXCEPT !.queued = q]
    PROVE  /\ Send(u, e) = [Send(t, e) EXCEPT !.queued = q]
           /\ HasEnded(t) => HasEnded(u)
<1>1. /\ u \in TurnStates /\ u.outcome = t.outcome /\ u.heard = t.heard /\ u.log = t.log
      /\ u.at = t.at /\ u.task = t.task /\ u.answered = t.answered /\ u.active = t.active
    BY DEF TurnStates
<1>2. Send(u, e) = [Send(t, e) EXCEPT !.queued = q]
    BY <1>1 DEF Send, Left, Ended, TurnStates
<1>3. HasEnded(t) => HasEnded(u)
    BY <1>1 DEF HasEnded
<1> QED
    BY <1>2, <1>3

\* The calls of an answer, numbered.
LEMMA NumberedCalls ==
    ASSUME NEW t \in TurnStates, NEW n \in Nat \ {0}, NEW tools \in [1 .. n -> Tools]
    PROVE  /\ Numbered(t, tools) \in Seq(Calls) /\ Len(Numbered(t, tools)) = n
           /\ \A i \in 1 .. n : Numbered(t, tools)[i].id = t.made + i
<1> DEFINE calls == Numbered(t, tools)
<1>1. t.made \in Nat
    BY DEF TurnStates
<1>2. calls \in [1 .. n -> Calls]
    BY <1>1 DEF Calls, Numbered
<1>3. \A i \in 1 .. n : calls[i].id = t.made + i
    BY DEF Numbered
<1> HIDE DEF calls
<1>4. calls \in Seq(Calls) /\ Len(calls) = n
    BY <1>2
<1> QED
    BY <1>3, <1>4 DEF calls

\* What an answer with calls shows, and that the sink remembers the calls.
LEMMA AnswerIsShown ==
    ASSUME NEW t, InLoop(t), t.calls = <<>>, NEW calls \in Seq(Calls), NEW worded \in BOOLEAN
    PROVE  \E r \in TurnStates : Goes(t, r) /\ ShowAnswer(t, calls, worded) = [r EXCEPT !.queued = calls]
<1> DEFINE e == Event("text_delta", t.requests)
           f == Event("message_completed", 0)
           kept == SinkMessage(t, calls)
           one == IF worded /\ ~t.streamed THEN Send(t, e) ELSE t
           text == IF worded /\ ~t.streamed THEN Send(kept, e) ELSE kept
           two == IF worded \/ t.streamed THEN Send(one, f) ELSE one
           shown == IF worded \/ t.streamed THEN Send(text, f) ELSE text
<1>1. /\ t \in TurnStates /\ t.requests \in Nat /\ ~Left(t) /\ t.queued = <<>> /\ Goes(t, t)
    BY LoopIsNotLeft DEF InLoop, TurnStates, Goes
<1>2. kept = [t EXCEPT !.queued = calls]
    BY <1>1, ConcatEmptySeq DEF SinkMessage
<1>3. \A r : Goes(t, r) => r \in TurnStates /\ Goes(t, Send(r, e)) /\ Goes(t, Send(r, f))
    <2>1. /\ e \in Events /\ f \in Events
          /\ e.kind \notin CallKinds \cup TaskStates \cup Terminals
          /\ f.kind \notin CallKinds \cup TaskStates \cup Terminals
        BY <1>1, TextEvents
    <2> HIDE DEF e, f
    <2>2. \A r : Goes(t, r) => r \in TurnStates
        BY DEF Goes, InLoop, HasEnded
    <2> QED
        BY <2>1, <2>2, SendGoes
<1> HIDE DEF e, f, kept
<1>4. Goes(t, one) /\ one \in TurnStates
    BY <1>1, <1>3
<1>5. text = [one EXCEPT !.queued = calls]
    <2>1. Send(kept, e) = [Send(t, e) EXCEPT !.queued = calls]
        BY <1>1, <1>2, SendBesideQueue
    <2> QED
        BY <1>2, <2>1
<1> HIDE DEF one, text
<1>6. Goes(t, two) /\ two \in TurnStates
    BY <1>3, <1>4
<1>7. shown = [two EXCEPT !.queued = calls]
    <2>1. Send(text, f) = [Send(one, f) EXCEPT !.queued = calls]
        BY <1>4, <1>5, SendBesideQueue
    <2> QED
        BY <1>5, <2>1
<1>8. ShowAnswer(t, calls, worded) = shown
    BY DEF ShowAnswer, text, kept, e, f
<1> HIDE DEF two, shown
<1> QED
    BY <1>6, <1>7, <1>8

\* What a turn that is to make calls looks like.
Calling(r, calls) ==
  [r EXCEPT !.at = "calling", !.calls = calls, !.streamed = FALSE, !.made = @ + Len(calls)]
LEMMA CallingTurn ==
    ASSUME NEW r \in TurnStates, NEW c \in Seq(Calls)
    PROVE  /\ Calling(r, c) \in TurnStates /\ Calling(r, c).at = "calling"
           /\ Calling(r, c).calls = c /\ Calling(r, c).made = r.made + Len(c)
           /\ Calling(r, c).queued = r.queued /\ Calling(r, c).log = r.log
           /\ Calling(r, c).task = r.task /\ Calling(r, c).active = r.active
           /\ Calling(r, c).outcome = r.outcome
<1>1. r.made \in Nat /\ Len(c) \in Nat /\ r.made + Len(c) \in Nat
    BY DEF TurnStates
<1> QED
    BY <1>1 DEF TurnStates, LoopSteps, Calling

\* The loop then has those calls to make.
LEMMA CallsGo ==
    ASSUME NEW t, InLoop(t), t.at = "asking", NEW n \in Nat \ {0}, NEW tools \in [1 .. n -> Tools],
           NEW worded \in BOOLEAN, NEW calls, calls = Numbered(t, tools),
           NEW shown, shown = ShowAnswer(t, calls, worded)
    PROVE  HasEnded(shown) \/ (~Left(shown) /\ InLoop(Calling(shown, calls)))
<1> DEFINE q == Calling(shown, calls)
<1>1. t \in TurnStates /\ t.made \in Nat /\ t.calls = <<>>
    BY DEF InLoop, TurnStates
<1>2. /\ calls \in Seq(Calls) /\ Len(calls) = n
      /\ \A i \in 1 .. n : calls[i].id = t.made + i
    BY <1>1, NumberedCalls
<1>3. PICK r \in TurnStates : Goes(t, r) /\ shown = [r EXCEPT !.queued = calls]
    BY <1>1, <1>2, AnswerIsShown
<1>4. CASE HasEnded(r)
    BY <1>2, <1>3, <1>4, SendBesideQueue
<1>5. CASE ~HasEnded(r)
    <2>1. /\ InLoop(r) /\ r.at = "asking" /\ r.calls = <<>> /\ r.made = t.made
        BY <1>1, <1>3, <1>5 DEF Goes
    <2>2. /\ shown \in TurnStates /\ shown.queued = calls /\ shown.log = r.log
          /\ shown.task = r.task /\ shown.active = r.active
          /\ shown.outcome = r.outcome /\ shown.made = t.made
        BY <1>2, <1>3, <2>1 DEF TurnStates
    <2>3. t.made + n \in Nat /\ shown.made + Len(calls) = t.made + n
        BY <1>1, <1>2, <2>2
    <2>4. /\ q \in TurnStates /\ q.at = "calling" /\ q.calls = calls /\ q.queued = calls
          /\ q.made = t.made + n /\ q.log = r.log /\ q.task = r.task
          /\ q.active = r.active /\ q.outcome = r.outcome
        <3>1. shown \in TurnStates /\ calls \in Seq(Calls)
            BY <1>2, <2>2
        <3>2. /\ q \in TurnStates /\ q.at = "calling" /\ q.calls = calls
              /\ q.made = shown.made + Len(calls) /\ q.queued = shown.queued
              /\ q.log = shown.log /\ q.task = shown.task /\ q.active = shown.active
              /\ q.outcome = shown.outcome
            BY <3>1, CallingTurn
        <3> QED
            BY <2>2, <2>3, <3>2
    <2> HIDE DEF q
    <2>5. /\ q.made - Len(q.calls) = t.made /\ Len(q.calls) <= q.made
          /\ r.made - Len(r.calls) = t.made
        BY <1>1, <1>2, <2>1, <2>4
    <2>6. \A i \in 1 .. Len(q.calls) : q.calls[i].id = q.made - Len(q.calls) + i
        BY <1>2, <2>4, <2>5
    <2>7. r.active = NoCall /\ LatestCall(r.log, Event("tool_completed", t.made))
        BY <2>1, <2>5 DEF InLoop
    <2>8. InLoop(q)
        BY <2>1, <2>4, <2>5, <2>6, <2>7 DEF InLoop, LoopSteps
    <2>9. ~Left(shown)
        BY <2>1, <2>2, LoopIsNotLeft DEF Left
    <2> QED
        BY <2>8, <2>9 DEF q
<1> QED
    BY <1>4, <1>5

\* One terminal event at the end.
LEMMA EndAppend ==
    ASSUME NEW log \in Seq(Events), NEW e \in Events, e.kind \in Terminals,
           Places(log, Terminals) = {}
    PROVE  /\ Places(Append(log, e), Terminals) = {Len(Append(log, e))}
           /\ Append(log, e)[Len(Append(log, e))] = e
BY PlacesAppend

\* The end of a turn is told truthfully, whatever ended it.
LEMMA EndIsTold ==
    ASSUME NEW t, HasEnded(t) PROVE IsOver([t EXCEPT !.at = "told", !.log = Told(t)])
<1> DEFINE r == [t EXCEPT !.at = "told", !.log = Told(t)]
           log == t.log
<1>1. t \in TurnStates /\ log \in Seq(Events) /\ t.outcome \in Outcomes
    BY DEF HasEnded, TurnStates
<1>2. ASSUME NEW new \in Seq(Events), Told(t) = new, CallsInTurn(new),
             Places(new, Terminals) \subseteq {Len(new)},
             t.heard => Places(new, Terminals) /= {},
             \A i \in Places(new, Terminals) :
               /\ new[i].kind = "completion" => t.answered /\ t.active = NoCall
               /\ new[i].kind = "task_paused" => LatestIs(new, TaskStates, "paused")
               /\ new[i].kind = "request_budget" => ~LatestIs(new, TaskStates, "paused")
      PROVE  IsOver(r)
    <2>1. /\ r \in TurnStates /\ r.at = "told" /\ r.log = new /\ r.heard = t.heard
          /\ r.outcome = t.outcome /\ r.answered = t.answered /\ r.active = t.active
        BY <1>1, <1>2 DEF TurnStates
    <2> HIDE DEF r
    <2> QED
        BY <1>1, <1>2, <2>1 DEF IsOver, EndsOnce, VerdictTrue
<1>3. CASE ~t.heard
    <2>1. Told(t) = log
        BY <1>3 DEF Told
    <2> QED
        BY <1>1, <1>2, <1>3, <2>1 DEF HasEnded
<1>4. CASE t.heard /\ t.outcome = "ok"
    <2> DEFINE e == Event("result", 0)
               f == Event("completion", 0)
               mid == Append(log, e)
               new == Append(mid, f)
    <2>1. /\ e \in Events /\ e.kind \notin CallKinds \cup Terminals
          /\ f \in Events /\ f.kind = "completion" /\ f.kind \notin CallKinds
          /\ f.kind \in Terminals
        BY DEF Event, Events, Kinds, CallKinds, Terminals
    <2>2. Told(t) = new
        BY <1>4 DEF Told
    <2> HIDE DEF e, f
    <2>3. mid \in Seq(Events) /\ CallsInTurn(mid) /\ Places(mid, Terminals) = {}
        BY <1>1, <2>1, PlainAppend, NoEndAppend DEF HasEnded
    <2> HIDE DEF mid
    <2>4. /\ new \in Seq(Events) /\ CallsInTurn(new)
          /\ Places(new, Terminals) = {Len(new)} /\ new[Len(new)] = f
        BY <2>1, <2>3, PlainAppend, EndAppend
    <2>5. t.answered /\ t.active = NoCall
        BY <1>4 DEF HasEnded
    <2> HIDE DEF new
    <2> QED
        BY <1>2, <2>1, <2>2, <2>4, <2>5
<1>5. CASE t.heard /\ t.outcome /= "ok"
    <2> DEFINE e == Event(ErrorCode(t), 0)
               new == Append(log, e)
    <2>1. /\ e \in Events /\ e.kind = ErrorCode(t) /\ e.kind \notin CallKinds \cup TaskStates
          /\ e.kind \in Terminals /\ e.kind /= "completion"
        BY <1>1, <1>5 DEF Event, Events, Kinds, CallKinds, TaskStates, Terminals, Outcomes,
           ErrorCode
    <2>2. Told(t) = new
        BY <1>5 DEF Told
    <2>3. /\ e.kind = "task_paused" => t.task = "paused"
          /\ e.kind = "request_budget" => t.task /= "paused"
        BY <1>1, <2>1 DEF ErrorCode, Outcomes
    <2>4. TaskTold(log, t.task)
        BY <1>5 DEF HasEnded
    <2> HIDE DEF e
    <2>5. /\ new \in Seq(Events) /\ CallsInTurn(new)
          /\ Places(new, Terminals) = {Len(new)} /\ new[Len(new)] = e
          /\ LatestIs(new, TaskStates, "paused") <=> LatestIs(log, TaskStates, "paused")
        BY <1>1, <2>1, PlainAppend, EndAppend, TaskAppend DEF HasEnded
    <2> HIDE DEF new
    <2> QED
        BY <1>2, <2>1, <2>2, <2>3, <2>4, <2>5 DEF TaskTold
<1> QED
    BY <1>3, <1>4, <1>5

\* What the embedder does between two steps of the thread leaves the stream true.
LEMMA SignalsKeep ==
    ASSUME NEW t, TurnInv(t)
    PROVE  /\ TurnInv([t EXCEPT !.interrupted = TRUE])
           /\ TurnInv([t EXCEPT !.pause = TRUE])
           /\ TurnInv([t EXCEPT !.heard = FALSE])
<1>1. t \in TurnStates
    BY DEF TurnInv, InLoop, HasEnded, IsOver
<1>2. ASSUME NEW u \in TurnStates, u.log = t.log, u.at = t.at, u.outcome = t.outcome,
             u.task = t.task, u.queued = t.queued, u.calls = t.calls, u.made = t.made,
             u.active = t.active, u.answered = t.answered, u.spent = t.spent,
             u.heard => t.heard
      PROVE  TurnInv(u)
    <2>1. InLoop(t) => InLoop(u)
        BY <1>2 DEF InLoop
    <2>2. HasEnded(t) => HasEnded(u)
        BY <1>2 DEF HasEnded
    <2>3. IsOver(t) => IsOver(u)
        BY <1>2 DEF IsOver, EndsOnce, VerdictTrue
    <2> QED
        BY <2>1, <2>2, <2>3 DEF TurnInv
<1>3. TurnInv([t EXCEPT !.interrupted = TRUE])
    BY <1>1, <1>2 DEF TurnStates
<1>4. TurnInv([t EXCEPT !.pause = TRUE])
    BY <1>1, <1>2 DEF TurnStates
<1>5. TurnInv([t EXCEPT !.heard = FALSE])
    BY <1>1, <1>2 DEF TurnStates
<1> QED
    BY <1>3, <1>4, <1>5

\* A turn that begins, and none.
LEMMA TurnBegins == InLoop(FreshTurn) /\ InLoop(NoTurn)
<1>1. NoCall \in Calls /\ <<>> \in Seq(Calls) /\ <<>> \in Seq(Events) /\ Len(<<>>) = 0
    BY DEF NoCall, Calls
<1>2. FreshTurn \in TurnStates /\ NoTurn \in TurnStates
    BY <1>1 DEF FreshTurn, NoTurn, TurnStates, LoopSteps
<1>3. \A kinds : Places(<<>>, kinds) = {}
    BY DEF Places
<1>4. /\ CallsInTurn(<<>>) /\ LatestCall(<<>>, Event("tool_completed", 0))
      /\ TaskTold(<<>>, "none")
    BY <1>3 DEF CallsInTurn, LatestCall, TaskTold, LatestIs
<1>5. ASSUME NEW t \in TurnStates, t.log = <<>>, t.outcome = "none", t.task = "none", t.calls = <<>>,
             t.queued = <<>>, t.made = 0, t.active = NoCall, t.at \in {"none", "opening"}
      PROVE  InLoop(t)
    BY <1>1, <1>3, <1>4, <1>5 DEF InLoop, LoopSteps
<1>6. InLoop(FreshTurn)
    BY <1>2, <1>5 DEF FreshTurn
<1>7. InLoop(NoTurn)
    BY <1>2, <1>5 DEF FreshTurn, NoTurn
<1> QED
    BY <1>6, <1>7

\* No turn yet.
LEMMA SessionInvInit == SessionInit => SessionInv
BY TurnBegins DEF SessionInit, SessionInv, TurnInv

\* A step that changes one turn to a true one.
LEMMA OneTurn ==
    ASSUME SessionInv, NEW s \in RuntimeSessions, NEW t, TurnInv(t),
           turn' = [turn EXCEPT ![s] = t]
    PROVE  SessionInv'
BY DEF SessionInv

\* Where the thread is tells whether its run is over.
LEMMA PlaceTells ==
    ASSUME NEW t, TurnInv(t)
    PROVE  /\ t.at \in LoopSteps => InLoop(t)
           /\ t.at = "ended" => HasEnded(t)
           /\ t.at \in {"told", "finished"} => IsOver(t)
BY DEF TurnInv, InLoop, HasEnded, IsOver, LoopSteps

\* The thread's last step changes nothing that was told.
LEMMA OverStays == ASSUME NEW t, IsOver(t), t.at = "told" PROVE IsOver([t EXCEPT !.at = "finished"])
<1> DEFINE r == [t EXCEPT !.at = "finished"]
<1>1. t \in TurnStates
    BY DEF IsOver
<1>2. /\ r \in TurnStates /\ r.at = "finished" /\ r.log = t.log /\ r.heard = t.heard
      /\ r.outcome = t.outcome /\ r.answered = t.answered /\ r.active = t.active
    BY <1>1 DEF TurnStates
<1> HIDE DEF r
<1>3. IsOver(r)
    BY <1>2 DEF IsOver, EndsOnce, VerdictTrue
<1> QED
    BY <1>3 DEF r

\* One step of one turn's thread.
LEMMA ThreadStep ==
    ASSUME SessionInv, NEW s \in RuntimeSessions,
           \/ OpenJournal(s) \/ OpenFails(s) \/ TaskRefused(s) \/ Misconfigured(s)
           \/ Handshake(s) \/ Request(s) \/ BudgetSpent(s) \/ TaskTimeSpent(s) \/ Delta(s)
           \/ \E tools \in ToolBatches, worded \in BOOLEAN : AnswerWithCalls(s, tools, worded)
           \/ BeginCall(s) \/ EndCall(s) \/ EndBatch(s) \/ RepeatedBatch(s) \/ FinalAnswer(s)
           \/ Finish(s) \/ FinishFails(s) \/ ProviderFails(s) \/ Cancelled(s) \/ TimedOut(s)
           \/ Panic(s) \/ TellEnd(s) \/ ThreadEnds(s)
    PROVE  SessionInv'
<1> DEFINE t == turn[s]
<1>1. TurnInv(t) /\ DOMAIN turn = RuntimeSessions
    BY DEF SessionInv
<1>2. ASSUME NEW x, Becomes(s, x), TurnInv(x) PROVE SessionInv'
    BY <1>2, OneTurn DEF Becomes
<1>3. ASSUME NEW o \in Outcomes, o /= "ok", t.at \in LoopSteps, Becomes(s, Ended(t, o))
      PROVE  SessionInv'
    BY <1>1, <1>2, <1>3, EndsWell, PlaceTells DEF TurnInv
<1>4. \A o \in {"session", "configuration", "run_timeout", "memory", "provider", "cancelled",
                "runtime"} : o \in Outcomes /\ o /= "ok"
    BY DEF Outcomes, Terminals
<1>5. t.at \in LoopSteps => InLoop(t)
    BY <1>1, PlaceTells
<1>6. InLoop(t) => (t.at \notin {"calling", "executing"} => t.calls = <<>>)
    BY DEF InLoop
<1>7. CASE OpenJournal(s)
    <2>1. CASE writer[bound[s]] /= "none"
        BY <1>3, <1>4, <1>7, <2>1 DEF OpenJournal, LoopSteps
    <2>2. CASE writer[bound[s]] = "none"
        <3>1. turn' = [turn EXCEPT ![s] = [t EXCEPT !.at = "requesting"]] /\ t.at = "opening"
            BY <1>1, <1>7, <2>2 DEF OpenJournal
        <3>2. TurnInv([t EXCEPT !.at = "requesting"])
            BY <1>5, <1>6, <3>1, LoopMovesOn DEF LoopSteps, TurnInv
        <3> QED
            BY <3>1, <3>2, OneTurn
    <2> QED
        BY <2>1, <2>2
<1>8. CASE OpenFails(s)
    BY <1>3, <1>4, <1>8 DEF OpenFails, LoopSteps
<1>9. CASE TaskRefused(s)
    BY <1>3, <1>4, <1>9 DEF TaskRefused, LoopSteps
<1>10. CASE Misconfigured(s)
    BY <1>3, <1>4, <1>10 DEF Misconfigured, LoopSteps
<1>11. ASSUME NEW state \in TaskStates, InLoop(t) PROVE TurnInv(SinkTask(t, state))
    BY <1>11, TaskGoes DEF Goes, TurnInv
<1>12. CASE Handshake(s)
    BY <1>2, <1>5, <1>11, <1>12 DEF Handshake, LoopSteps, TaskStates
<1>13. CASE Request(s)
    <2>1. InLoop(t) /\ t.at = "requesting" /\ t.calls = <<>>
        BY <1>5, <1>6, <1>13 DEF Request, Begun, LoopSteps
    <2>2. TurnInv(Spent(t)) /\ InLoop([t EXCEPT !.at = "asking", !.requests = @ + 1])
        BY <2>1, SpentGoes, LoopMovesOn
    <2>3. Becomes(s, IF t.pause THEN Spent(t) ELSE [t EXCEPT !.at = "asking", !.requests = @ + 1])
        BY <1>13 DEF Request
    <2> HIDE DEF t
    <2> QED
        BY <1>2, <2>2, <2>3 DEF TurnInv
<1>14. CASE BudgetSpent(s)
    <2>1. InLoop(t) /\ t.at \in {"requesting", "asking"} /\ t.calls = <<>>
        BY <1>5, <1>6, <1>14 DEF BudgetSpent, Begun, LoopSteps
    <2> QED
        BY <1>2, <1>14, <2>1, SpentGoes DEF BudgetSpent
<1>15. CASE TaskTimeSpent(s)
    <2> DEFINE told == SinkTask(t, "paused")
    <2>1. InLoop(t)
        BY <1>5, <1>15 DEF TaskTimeSpent, Begun, LoopSteps
    <2>2. TurnInv(told) /\ (HasEnded(told) \/ InLoop(told))
        BY <1>11, <2>1, TaskGoes DEF TaskStates, Goes
    <2>3. Becomes(s, IF Left(told) THEN told ELSE Ended(told, "run_timeout"))
        BY <1>15 DEF TaskTimeSpent
    <2> HIDE DEF told
    <2>4. TurnInv(IF Left(told) THEN told ELSE Ended(told, "run_timeout"))
        BY <1>4, <2>2, LoopIsNotLeft, EndsWell DEF TurnInv
    <2> QED
        BY <1>2, <2>3, <2>4
<1>16. CASE Delta(s)
    <2> DEFINE r == [t EXCEPT !.streamed = TRUE]
    <2>1. InLoop(t) /\ t \in TurnStates /\ t.requests \in Nat
        BY <1>5, <1>16 DEF Delta, LoopSteps, InLoop, TurnStates
    <2>2. /\ r \in TurnStates /\ r.at = t.at /\ r.calls = t.calls /\ r.queued = t.queued
          /\ r.made = t.made /\ r.log = t.log /\ r.task = t.task /\ r.active = t.active
          /\ r.outcome = t.outcome /\ r.spent = t.spent /\ r.answered = t.answered
        BY <2>1 DEF TurnStates
    <2>3. Becomes(s, Send(r, Event("text_delta", t.requests)))
        BY <1>16 DEF Delta
    <2> HIDE DEF r
    <2>4. InLoop(r)
        BY <2>1, <2>2 DEF InLoop
    <2>5. TurnInv(Send(r, Event("text_delta", t.requests)))
        BY <2>1, <2>4, PlainSend, TextEvents DEF TurnInv
    <2> QED
        BY <1>2, <2>3, <2>5
<1>17. ASSUME NEW tools \in ToolBatches, NEW worded \in BOOLEAN, AnswerWithCalls(s, tools, worded)
       PROVE  SessionInv'
    <2>1. PICK n \in 1 .. MaxBatch : tools \in [1 .. n -> Tools]
        BY <1>17 DEF ToolBatches
    <2>2. n \in Nat \ {0}
        BY SessionAssumption
    <2>3. InLoop(t) /\ t.at = "asking"
        BY <1>5, <1>17 DEF AnswerWithCalls, LoopSteps
    <2> DEFINE calls == Numbered(t, tools)
               shown == ShowAnswer(t, calls, worded)
               q == Calling(shown, calls)
    <2>4. Becomes(s, IF Left(shown) THEN shown ELSE q)
        BY <1>17 DEF AnswerWithCalls, Calling
    <2>5. /\ calls = Numbered(t, tools) /\ shown = ShowAnswer(t, calls, worded)
          /\ q = Calling(shown, calls)
        OBVIOUS
    <2> HIDE DEF calls, shown, q
    <2>6. HasEnded(shown) \/ (~Left(shown) /\ InLoop(q))
        <3> HIDE DEF t
        <3> QED
            BY <2>1, <2>2, <2>3, <2>5, CallsGo
    <2> QED
        BY <1>2, <2>4, <2>6, LoopIsNotLeft DEF TurnInv
<1>18. CASE BeginCall(s)
    <2> DEFINE begun == SinkStarted(t, Head(t.calls))
    <2>1. InLoop(t) /\ t.at = "calling" /\ t.calls /= <<>>
        BY <1>5, <1>18 DEF BeginCall, LoopSteps
    <2>2. \/ HasEnded(begun)
          \/ ~Left(begun) /\ InLoop([begun EXCEPT !.at = "executing", !.calls = Tail(@)])
        <3>1. begun = SinkStarted(t, Head(t.calls))
            OBVIOUS
        <3> HIDE DEF begun, t
        <3> QED
            BY <2>1, <3>1, CallStart
    <2>3. Becomes(s, IF Left(begun) THEN begun
                     ELSE [begun EXCEPT !.at = "executing", !.calls = Tail(@)])
        BY <1>18 DEF BeginCall
    <2> HIDE DEF begun
    <2> QED
        BY <1>2, <2>2, <2>3, LoopIsNotLeft DEF TurnInv
<1>19. CASE EndCall(s)
    <2> DEFINE done == SinkSettled(t)
    <2>1. InLoop(t) /\ t.at = "executing"
        BY <1>5, <1>19 DEF EndCall, LoopSteps
    <2>2. \/ HasEnded(done)
          \/ ~Left(done) /\ InLoop([done EXCEPT !.at = "calling"])
        <3>1. done = SinkSettled(t)
            OBVIOUS
        <3> HIDE DEF done, t
        <3> QED
            BY <2>1, <3>1, CallEnd
    <2>3. Becomes(s, IF Left(done) THEN done ELSE [done EXCEPT !.at = "calling"])
        BY <1>19 DEF EndCall
    <2> HIDE DEF done
    <2> QED
        BY <1>2, <2>2, <2>3, LoopIsNotLeft DEF TurnInv
<1>20. CASE EndBatch(s)
    <2>1. InLoop(t) /\ t.at = "calling" /\ t.calls = <<>>
        BY <1>5, <1>20 DEF EndBatch, LoopSteps
    <2>2. PICK reached \in BOOLEAN :
            LET u == IF reached THEN SinkTask(t, "checkpoint") ELSE t
            IN Becomes(s, IF Left(u) THEN u ELSE [u EXCEPT !.at = "requesting"])
        BY <1>20 DEF EndBatch
    <2> DEFINE u == IF reached THEN SinkTask(t, "checkpoint") ELSE t
    <2>3. Goes(t, u)
        BY <2>1, TaskGoes DEF TaskStates, Goes
    <2>4. Becomes(s, IF Left(u) THEN u ELSE [u EXCEPT !.at = "requesting"])
        BY <2>2
    <2> HIDE DEF u
    <2>5. TurnInv(IF Left(u) THEN u ELSE [u EXCEPT !.at = "requesting"])
        <3>1. CASE HasEnded(u)
            BY <3>1, LoopIsNotLeft DEF TurnInv
        <3>2. CASE InLoop(u) /\ u.at = "calling" /\ u.calls = <<>>
            BY <3>2, LoopIsNotLeft, LoopMovesOn DEF TurnInv
        <3> QED
            BY <2>1, <2>3, <3>1, <3>2 DEF Goes
    <2> QED
        BY <1>2, <2>4, <2>5
<1>21. CASE RepeatedBatch(s)
    <2> DEFINE told == IF LongTask THEN SinkTask(t, "blocked") ELSE t
               next == IF Left(told) THEN told
                       ELSE IF LongTask THEN Ended(told, "runtime") ELSE Spent(told)
    <2>1. InLoop(t) /\ t.at = "calling" /\ t.calls = <<>>
        BY <1>5, <1>21 DEF RepeatedBatch, LoopSteps
    <2>2. Goes(t, told)
        BY <2>1, TaskGoes DEF TaskStates, Goes
    <2>3. Becomes(s, next)
        BY <1>21 DEF RepeatedBatch
    <2> HIDE DEF told
    <2>4. CASE HasEnded(told)
        BY <1>2, <2>3, <2>4, LoopIsNotLeft DEF TurnInv
    <2>5. CASE InLoop(told) /\ told.at = "calling" /\ told.calls = <<>>
        <3>1. TurnInv(Ended(told, "runtime")) /\ TurnInv(Spent(told)) /\ ~Left(told)
            BY <1>4, <2>5, EndsWell, SpentGoes, LoopIsNotLeft DEF TurnInv
        <3> QED
            BY <1>2, <2>3, <3>1
    <2> QED
        BY <2>1, <2>2, <2>4, <2>5 DEF Goes
<1>22. CASE FinalAnswer(s)
    <2> DEFINE told == IF LongTask THEN SinkTask(t, "completed") ELSE t
               final == SinkFinal(told)
    <2>1. InLoop(t) /\ t.at = "asking" /\ t.calls = <<>> /\ t \in TurnStates
        BY <1>5, <1>6, <1>22 DEF FinalAnswer, LoopSteps, InLoop
    <2>2. Goes(t, told)
        BY <2>1, TaskGoes DEF TaskStates, Goes
    <2>3. Becomes(s, IF Left(final) THEN final ELSE [final EXCEPT !.at = "finishing"])
        BY <1>22 DEF FinalAnswer
    <2> HIDE DEF told
    <2>4. Goes(t, final) /\ (InLoop(final) => final.answered)
        BY <2>1, <2>2, FinalGoes
    <2> HIDE DEF final
    <2>5. CASE HasEnded(final)
        BY <1>2, <2>3, <2>5, LoopIsNotLeft DEF TurnInv
    <2>6. CASE InLoop(final) /\ final.at = "asking" /\ final.calls = <<>>
        BY <1>2, <2>3, <2>4, <2>6, LoopIsNotLeft, LoopMovesOn DEF TurnInv
    <2> QED
        BY <2>1, <2>4, <2>5, <2>6 DEF Goes
<1>23. CASE Finish(s)
    <2>1. InLoop(t) /\ t.at = "finishing" /\ t \in TurnStates
        BY <1>5, <1>23 DEF Finish, LoopSteps, InLoop
    <2>2. CASE t.spent
        <3>1. Becomes(s, Ended(t, "request_budget")) /\ "request_budget" \in Outcomes
            BY <1>23, <2>2 DEF Finish, Outcomes, Terminals
        <3> QED
            BY <1>3, <2>1, <3>1 DEF LoopSteps
    <2>3. CASE ~t.spent
        <3> DEFINE r == Ended(t, "ok")
        <3>1. Becomes(s, r)
            BY <1>23, <2>3 DEF Finish
        <3>2. /\ r \in TurnStates /\ r.at = "ended" /\ r.outcome = "ok" /\ r.log = t.log
              /\ r.task = t.task /\ r.answered = t.answered /\ r.active = t.active
            BY <2>1 DEF Ended, TurnStates, Outcomes
        <3>3. t.answered /\ t.active = NoCall
            BY <2>1, <2>3 DEF InLoop
        <3> HIDE DEF r
        <3>4. HasEnded(r)
            BY <2>1, <3>2, <3>3 DEF HasEnded, InLoop, Outcomes
        <3> QED
            BY <1>2, <3>1, <3>4 DEF TurnInv
    <2> QED
        BY <2>2, <2>3
<1>24. CASE FinishFails(s)
    BY <1>3, <1>4, <1>24 DEF FinishFails, LoopSteps
<1>25. CASE ProviderFails(s)
    BY <1>3, <1>4, <1>25 DEF ProviderFails, LoopSteps
<1>26. CASE Cancelled(s)
    BY <1>3, <1>4, <1>26 DEF Cancelled, Waits, LoopSteps
<1>27. CASE TimedOut(s)
    BY <1>3, <1>4, <1>27 DEF TimedOut, Waits, LoopSteps
<1>28. CASE Panic(s)
    BY <1>3, <1>4, <1>28 DEF Panic, InRun, LoopSteps
<1>29. CASE TellEnd(s)
    <2>1. HasEnded(t) /\ turn' = [turn EXCEPT ![s] = [t EXCEPT !.at = "told", !.log = Told(t)]]
        BY <1>1, <1>29, PlaceTells DEF TellEnd
    <2> QED
        BY <2>1, EndIsTold, OneTurn DEF TurnInv
<1>30. CASE ThreadEnds(s)
    <2>1. /\ IsOver(t) /\ t.at = "told"
          /\ turn' = [turn EXCEPT ![s] = [t EXCEPT !.at = "finished"]]
        BY <1>1, <1>30, PlaceTells DEF ThreadEnds
    <2> QED
        BY <2>1, OverStays, OneTurn DEF TurnInv
<1> QED
    BY <1>7, <1>8, <1>9, <1>10, <1>12, <1>13, <1>14, <1>15, <1>16, <1>17, <1>18, <1>19, <1>20,
       <1>21, <1>22, <1>23, <1>24, <1>25, <1>26, <1>27, <1>28, <1>29, <1>30

\* One step of an embedder, a turn's thread or another writer of a journal.
LEMMA SessionInvStep == SessionInv /\ [SessionNext]_sessionVars => SessionInv'
<1> SUFFICES ASSUME SessionInv, [SessionNext]_sessionVars PROVE SessionInv'
    OBVIOUS
<1>1. ASSUME UNCHANGED turn PROVE SessionInv'
    BY <1>1 DEF SessionInv
<1>2. ASSUME NEW j \in Journals, AnotherWriter(j) PROVE SessionInv'
    BY <1>1, <1>2 DEF AnotherWriter
<1>3. ASSUME NEW s \in RuntimeSessions, NEW j \in Journals, BindSession(s, j) PROVE SessionInv'
    BY <1>1, <1>3 DEF BindSession
<1>4. ASSUME NEW s \in RuntimeSessions, SendTurn(s) PROVE SessionInv'
    BY <1>4, TurnBegins, OneTurn DEF SendTurn, TurnInv
<1>5. ASSUME NEW s \in RuntimeSessions, Interrupt(s) \/ RequestPause(s) \/ StopListening(s)
      PROVE  SessionInv'
    <2>1. TurnInv(turn[s]) /\ DOMAIN turn = RuntimeSessions
        BY DEF SessionInv
    <2>2. \/ turn' = [turn EXCEPT ![s] = [turn[s] EXCEPT !.interrupted = TRUE]]
          \/ turn' = [turn EXCEPT ![s] = [turn[s] EXCEPT !.pause = TRUE]]
          \/ turn' = [turn EXCEPT ![s] = [turn[s] EXCEPT !.heard = FALSE]]
        BY <1>5, <2>1 DEF Interrupt, RequestPause, StopListening
    <2> QED
        BY <2>1, <2>2, SignalsKeep, OneTurn
<1>6. CASE UNCHANGED sessionVars
    BY <1>1, <1>6 DEF sessionVars
<1> QED
    BY <1>2, <1>3, <1>4, <1>5, <1>6, ThreadStep DEF SessionNext, Run

\* A turn's stream ends with one terminal event, once its run is over; its calls are
\* told one after the other under the journal's ids; and its verdict is true (sink.rs,
\* session.rs, inprocess.rs): for any number of sessions, turns, requests and calls,
\* and an embedder that interrupts, pauses or goes away at any moment.
THEOREM StreamIsHonest == SessionSpec => []StreamsHonest
<1>1. ASSUME NEW t, TurnInv(t) PROVE EndsOnce(t) /\ CallsTold(t) /\ VerdictTrue(t)
    <2>1. t.outcome /= "objection" /\ CallsInTurn(t.log)
        BY <1>1 DEF TurnInv, InLoop, HasEnded, IsOver, Outcomes
    <2>2. CallsTold(t)
        BY <2>1 DEF CallsTold, CallsInTurn, CallKinds
    <2>3. EndsOnce(t) /\ VerdictTrue(t)
        BY <1>1 DEF TurnInv, InLoop, HasEnded, IsOver, EndsOnce, VerdictTrue, LoopSteps
    <2> QED
        BY <2>2, <2>3
<1>2. SessionInv => StreamsHonest
    BY <1>1 DEF SessionInv, StreamsHonest
<1>3. SessionInit /\ [][SessionNext]_sessionVars => []StreamsHonest
    BY SessionInvInit, SessionInvStep, <1>2, PTL
<1> QED
    BY <1>3, PTL DEF SessionSpec

-----------------------------------------------------------------------------
(* Backups of a serving home (StateBackup).                                *)

TreeNames == {"config", "memory", "conversations", "journals"}

\* A file of one of the components, and two files under one name of a component.
FileShape(f) ==
  /\ f.in \in TreeNames
  /\ f.in = "config" => f = ConfigFile
  /\ f.in = "memory" => f.name \in Notes
OneUnderName(files) ==
  \A f, g \in files : f.in = g.in /\ f.name = g.name => f = g
FilesIn(files, tree) == {f \in files : f.in = tree}
FewEnough(files) == IsFiniteSet(files) /\ Cardinality(files) <= MaxEntries

\* What holds of a copy, however much of the home has been walked.
CopyInv(files) ==
  /\ \A f \in files : FileShape(f) /\ (f.in = "memory" => ShapeOf[f.name] # "credential")
  /\ OneUnderName(files)
  /\ \A tree \in TreeNames : FewEnough(FilesIn(files, tree))

\* A record never names a session without a journal, and no journal goes.
RecordsFollow == \A c \in Chats : pointer[c] # NoSession => pointer[c] \in journals
HomeInv == pointer \in [Chats -> Sessions \cup {NoSession}] /\ RecordsFollow

\* Nothing of a component is copied before its turn, and no entry without a mark.
InTurn(b) ==
  \A f \in b.files :
    /\ \A i \in (b.at + 1) .. 4 : f.in # Trees[i]
    /\ f.in = Trees[b.at] => f.name \in b.seen
MarksCount(b) ==
  IsFiniteSet(b.seen) /\ Cardinality(FilesIn(b.files, Trees[b.at])) <= Cardinality(b.seen)
ConfigTaken(b) ==
  /\ ConfigFile \in b.files \/ (b.at = 1 /\ b.seen = {})
  /\ b.at = 1 => b.due = {ConfigFile.name}
\* The sessions that copied records name are among the journals, and among those
\* the walk of the journals has to see.
SessionsDue(b) ==
  \A f \in b.files : f.in = "conversations" => f.to \in journals /\ (b.at = 4 => f.to \in b.due)
JournalsTaken(b) ==
  b.at = 4 => \A s \in b.seen : JournalFile(s) \in b.files \/ "journals" \in b.warned

BackupShape ==
  /\ backup = [at |-> backup.at, files |-> backup.files, seen |-> backup.seen,
               due |-> backup.due, warned |-> backup.warned]
  /\ backup.at \in 0 .. 4
WalkInv(b) ==
  b.at > 0 => /\ CopyInv(b.files) /\ InTurn(b) /\ MarksCount(b)
              /\ ConfigTaken(b) /\ SessionsDue(b) /\ JournalsTaken(b)

ArchiveInv(a) ==
  /\ CopyInv(a.files) /\ ConfigFile \in a.files
  /\ \A f \in a.files :
       f.in = "conversations" /\ "journals" \notin a.warned => JournalFile(f.to) \in a.files

\* A target with anything of an archive in it has a configuration.
Restoring == target \ {MadeDirs, Unrelated}
RestoreShape ==
  /\ restore = [phase |-> restore.phase, force |-> restore.force,
                archive |-> restore.archive, left |-> restore.left]
  /\ restore.phase \in {"idle", "writing", "restored"}
ConfigFirst == Restoring # {} => ConfigFile \in target
UnderWay ==
  /\ restore.left \subseteq restore.archive
  /\ ConfigFile \in restore.archive
  /\ OneUnderName(restore.archive) /\ \A f \in restore.archive : FileShape(f)
  /\ Restoring = restore.archive \ restore.left
  /\ Unrelated \in target => restore.force
RestoreInv ==
  /\ RestoreShape /\ ConfigFirst /\ RestoreHonest
  /\ restore.phase = "writing" => UnderWay

BackupInv ==
  /\ HomeInv /\ BackupShape /\ WalkInv(backup)
  /\ \A a \in archives : ArchiveInv(a)
  /\ RestoreInv

LEMMA TreesInOrder ==
  /\ ComponentOrder = Trees /\ Len(ComponentOrder) = 4 /\ DOMAIN Trees = 1 .. 4
  /\ Trees[1] = "config" /\ Trees[2] = "memory"
  /\ Trees[3] = "conversations" /\ Trees[4] = "journals"
  BY DEF ComponentOrder, Trees

\* What a directory listing shows belongs to its component.
LEMMA ListingIsOfTree ==
  ASSUME HomeInv, NEW tree \in TreeNames, NEW f \in Listing(tree)
  PROVE  /\ FileShape(f) /\ f.in = tree
         /\ tree = "conversations" => f.to \in journals
         /\ tree = "journals" => f = JournalFile(f.name)
<1>1. CASE tree = "config"
    BY <1>1 DEF Listing, ConfigFile, FileShape, TreeNames
<1>2. CASE tree = "memory"
    BY <1>2 DEF Listing, NoteFile, FileShape, TreeNames
<1>3. CASE tree = "conversations"
    BY <1>3 DEF Listing, RecordFile, FileShape, TreeNames, HomeInv, RecordsFollow
<1>4. CASE tree = "journals"
    BY <1>4 DEF Listing, JournalFile, FileShape, TreeNames
<1> QED
    BY <1>1, <1>2, <1>3, <1>4 DEF TreeNames

LEMMA EveryJournalListed == Names(Listing("journals")) = journals
<1>1. Listing("journals") = {JournalFile(s) : s \in journals}
    BY DEF Listing
<1>2. \A s : JournalFile(s).name = s
    BY DEF JournalFile
<1>3. Names(Listing("journals")) = {JournalFile(s).name : s \in journals}
    BY <1>1 DEF Names
<1> QED
    BY <1>2, <1>3

\* A file under a name that is new to its component.
LEMMA FileAdded ==
  ASSUME NEW files, NEW f, NEW tree \in TreeNames, CopyInv(files), FileShape(f), f.in = tree,
         f.in = "memory" => ShapeOf[f.name] # "credential",
         \A g \in files : g.in = tree => g.name # f.name,
         Cardinality(FilesIn(files, tree)) < MaxEntries
  PROVE  /\ CopyInv(files \cup {f})
         /\ Cardinality(FilesIn(files \cup {f}, tree))
              = Cardinality(FilesIn(files, tree)) + 1
<1>1. FilesIn(files \cup {f}, tree) = FilesIn(files, tree) \cup {f}
    BY DEF FilesIn
<1>2. f \notin FilesIn(files, tree)
    BY DEF FilesIn
<1>3. IsFiniteSet(FilesIn(files, tree))
    BY DEF CopyInv, FewEnough
<1>4. /\ IsFiniteSet(FilesIn(files \cup {f}, tree))
      /\ Cardinality(FilesIn(files \cup {f}, tree)) = Cardinality(FilesIn(files, tree)) + 1
  <2> DEFINE S == FilesIn(files, tree)
  <2>1. f \notin S /\ IsFiniteSet(S)
      BY <1>2, <1>3
  <2> HIDE DEF S
  <2>2. IsFiniteSet(S \cup {f}) /\ Cardinality(S \cup {f}) = Cardinality(S) + 1
      BY <2>1, FS_AddElement
  <2> QED
      BY <1>1, <2>2 DEF S
<1>5. Cardinality(FilesIn(files, tree)) \in Nat
    BY <1>3, FS_CardinalityType
<1>6. FewEnough(FilesIn(files \cup {f}, tree))
    BY <1>4, <1>5, BackupAssumption DEF FewEnough
<1>7. ASSUME NEW other \in TreeNames, other # tree
      PROVE  FilesIn(files \cup {f}, other) = FilesIn(files, other)
    BY <1>7 DEF FilesIn
<1>8. OneUnderName(files \cup {f})
    BY DEF OneUnderName, CopyInv
<1>9. \A other \in TreeNames : FewEnough(FilesIn(files \cup {f}, other))
    BY <1>6, <1>7 DEF CopyInv
<1> QED
    BY <1>4, <1>8, <1>9 DEF CopyInv

LEMMA BackupInvInit == BackupInit => BackupInv
<1> SUFFICES ASSUME BackupInit PROVE BackupInv
    OBVIOUS
<1>1. HomeInv /\ BackupShape /\ WalkInv(backup) /\ \A a \in archives : ArchiveInv(a)
    BY DEF BackupInit, HomeInv, RecordsFollow, BackupShape, NoBackup, WalkInv
<1>2. RestoreInv
    BY DEF BackupInit, RestoreInv, RestoreShape, NoRestore, ConfigFirst, Restoring, RestoreHonest
<1> QED
    BY <1>1, <1>2 DEF BackupInv

RestoreVars == <<restore, target>>
HomeVars == <<pointer, journals>>

\* What a step leaves alone keeps its part of the invariant.
LEMMA RestoreKept ==
  ASSUME RestoreInv, UNCHANGED RestoreVars PROVE RestoreInv'
  BY DEF RestoreInv, RestoreVars, RestoreShape, ConfigFirst, Restoring, RestoreHonest, UnderWay

LEMMA WalkKept ==
  ASSUME BackupShape, WalkInv(backup), UNCHANGED backup, journals \subseteq journals'
  PROVE  BackupShape' /\ WalkInv(backup)'
<1>1. BackupShape'
    BY DEF BackupShape
<1>2. SessionsDue(backup) => SessionsDue(backup)'
    BY DEF SessionsDue
<1>3. backup' = backup
    OBVIOUS
<1>4. JournalsTaken(backup) => JournalsTaken(backup)'
    BY DEF JournalsTaken
<1> QED
    BY <1>1, <1>2, <1>3, <1>4 DEF WalkInv, CopyInv, InTurn, MarksCount, ConfigTaken

LEMMA HomeKept ==
  ASSUME HomeInv, UNCHANGED HomeVars PROVE HomeInv'
  BY DEF HomeInv, RecordsFollow, HomeVars

LEMMA ArchivesKept ==
  ASSUME \A a \in archives : ArchiveInv(a), UNCHANGED archives
  PROVE  (\A a \in archives : ArchiveInv(a))'
  BY DEF ArchiveInv, CopyInv

-----------------------------------------------------------------------------
LEMMA ServiceKeepsBackups ==
  ASSUME BackupInv, NEW s \in Sessions, StartSession(s) \/ \E c \in Chats : SaveRecord(c, s)
  PROVE  BackupInv'
<1>1. UNCHANGED RestoreVars /\ UNCHANGED <<archives, backup>> /\ journals \subseteq journals'
    BY DEF StartSession, SaveRecord, RestoreVars
<1>2. HomeInv'
  <2>1. CASE StartSession(s)
      BY <2>1 DEF StartSession, BackupInv, HomeInv, RecordsFollow
  <2>2. ASSUME NEW c \in Chats, SaveRecord(c, s) PROVE HomeInv'
      BY <2>2 DEF SaveRecord, BackupInv, HomeInv, RecordsFollow
  <2> QED
      BY <2>1, <2>2
<1> QED
    BY <1>1, <1>2, RestoreKept, WalkKept, ArchivesKept DEF BackupInv

LEMMA BeginKeepsBackups == ASSUME BackupInv, BeginBackup PROVE BackupInv'
<1>1. UNCHANGED RestoreVars /\ UNCHANGED HomeVars /\ UNCHANGED archives
    BY DEF BeginBackup, RestoreVars, HomeVars
<1>2. backup' = [at |-> 1, files |-> {}, seen |-> {}, due |-> {ConfigFile.name}, warned |-> {}]
    BY DEF BeginBackup, NoBackup
<1>3. BackupShape'
    BY <1>2 DEF BackupShape
<1>4. \A tree : FilesIn({}, tree) = {}
    BY DEF FilesIn
<1>5. CopyInv({})
    BY <1>4, FS_EmptySet, BackupAssumption DEF CopyInv, OneUnderName, FewEnough
<1>6. WalkInv(backup)'
    BY <1>2, <1>4, <1>5, FS_EmptySet
    DEF WalkInv, InTurn, MarksCount, ConfigTaken, SessionsDue, JournalsTaken
<1> QED
    BY <1>1, <1>3, <1>6, RestoreKept, HomeKept, ArchivesKept DEF BackupInv

\* An entry gets a mark; whether it is copied or not, the walk goes on.
LEMMA MarkKeepsWalk ==
  ASSUME BackupInv, Walking, NEW f \in Listing(CurrentTree), f.name \notin backup.seen,
         Cardinality(backup.seen) < MaxEntries,
         UNCHANGED HomeVars, NEW copied \in BOOLEAN, NEW warned,
         backup.warned \subseteq warned,
         copied => (f.in = "memory" => ShapeOf[f.name] # "credential"),
         ~copied => CurrentTree # "config" /\ (CurrentTree = "journals" => "journals" \in warned),
         backup' = [backup EXCEPT !.seen = @ \cup {f.name}, !.warned = warned,
                                  !.files = IF copied THEN @ \cup {f} ELSE @]
  PROVE  BackupShape' /\ WalkInv(backup)'
<1> DEFINE tree == CurrentTree
           files == IF copied THEN backup.files \cup {f} ELSE backup.files
           seen == backup.seen \cup {f.name}
<1>1. backup' = [at |-> backup.at, files |-> files, seen |-> seen, due |-> backup.due,
                 warned |-> warned]
    BY DEF BackupInv, BackupShape
<1>2. backup.at \in 1 .. 4 /\ tree = Trees[backup.at] /\ tree \in TreeNames
    BY TreesInOrder DEF BackupInv, BackupShape, Walking, CurrentTree, TreeNames
<1>3. /\ FileShape(f) /\ f.in = tree /\ (tree = "conversations" => f.to \in journals)
      /\ tree = "journals" => f = JournalFile(f.name)
    BY <1>2, ListingIsOfTree DEF BackupInv
<1>4. /\ CopyInv(backup.files) /\ InTurn(backup) /\ MarksCount(backup) /\ ConfigTaken(backup)
      /\ SessionsDue(backup) /\ JournalsTaken(backup)
    BY <1>2 DEF BackupInv, WalkInv
<1>5. \A g \in backup.files : g.in = tree => g.name # f.name
    BY <1>2, <1>4 DEF InTurn
<1>6. /\ IsFiniteSet(seen) /\ Cardinality(seen) = Cardinality(backup.seen) + 1
      /\ Cardinality(backup.seen) \in Nat
    BY <1>4, FS_AddElement, FS_CardinalityType DEF MarksCount
<1>7. IsFiniteSet(FilesIn(backup.files, tree)) /\ Cardinality(FilesIn(backup.files, tree)) \in Nat
    BY <1>2, <1>4, FS_CardinalityType DEF CopyInv, FewEnough
<1>8. Cardinality(FilesIn(backup.files, tree)) < MaxEntries
    BY <1>2, <1>4, <1>6, <1>7, BackupAssumption DEF MarksCount
<1>9. /\ CopyInv(files)
      /\ Cardinality(FilesIn(files, tree)) <= Cardinality(FilesIn(backup.files, tree)) + 1
  <2>1. CASE copied
    <3>1. /\ CopyInv(backup.files \cup {f})
          /\ Cardinality(FilesIn(backup.files \cup {f}, tree))
               = Cardinality(FilesIn(backup.files, tree)) + 1
      <4> HIDE DEF tree
      <4> QED
          BY <2>1, <1>2, <1>3, <1>4, <1>5, <1>8, FileAdded
    <3> QED
        BY <2>1, <3>1, <1>7
  <2>2. CASE ~copied
      BY <2>2, <1>4, <1>7
  <2> QED
      BY <2>1, <2>2
<1>10. Cardinality(FilesIn(files, tree)) <= Cardinality(seen)
  <2>1. Cardinality(FilesIn(files, tree)) \in Nat
      BY <1>2, <1>9, FS_CardinalityType DEF CopyInv, FewEnough
  <2> QED
      BY <2>1, <1>2, <1>4, <1>6, <1>7, <1>9 DEF MarksCount
<1>11. InTurn(backup')
  <2> SUFFICES ASSUME NEW g \in files
               PROVE  /\ \A i \in (backup.at + 1) .. 4 : g.in # Trees[i]
                      /\ g.in = tree => g.name \in seen
      BY <1>1, <1>2 DEF InTurn
  <2>1. CASE g \in backup.files
      BY <2>1, <1>2, <1>4 DEF InTurn
  <2>2. CASE g = f
      BY <2>2, <1>2, <1>3, TreesInOrder
  <2> QED
      BY <2>1, <2>2
<1>12. ConfigTaken(backup')
  <2>1. CASE ConfigFile \in backup.files
      BY <2>1, <1>1, <1>4 DEF ConfigTaken
  <2>2. CASE backup.at = 1
    <3>1. tree = "config"
        BY <2>2, <1>2, TreesInOrder
    <3>2. ConfigFile \in files
        BY <3>1, <1>3 DEF FileShape
    <3> QED
        BY <3>2, <1>1, <1>4 DEF ConfigTaken
  <2> QED
      BY <2>1, <2>2, <1>4 DEF ConfigTaken
<1>13. SessionsDue(backup)'
  <2> SUFFICES ASSUME NEW g \in files, g.in = "conversations"
               PROVE  g.to \in journals /\ (backup.at = 4 => g.to \in backup.due)
      BY <1>1 DEF SessionsDue, HomeVars
  <2>1. CASE g \in backup.files
      BY <2>1, <1>4 DEF SessionsDue
  <2>2. CASE g = f
      BY <2>2, <1>2, <1>3, TreesInOrder
  <2> QED
      BY <2>1, <2>2
<1>14. JournalsTaken(backup')
  <2> SUFFICES ASSUME backup.at = 4, NEW s \in seen
               PROVE  JournalFile(s) \in files \/ "journals" \in warned
      BY <1>1 DEF JournalsTaken
  <2>1. CASE s \in backup.seen
      BY <2>1, <1>4 DEF JournalsTaken
  <2>2. CASE s = f.name
      BY <2>2, <1>2, <1>3, TreesInOrder
  <2> QED
      BY <2>1, <2>2
<1>15. MarksCount(backup')
    BY <1>1, <1>2, <1>6, <1>10 DEF MarksCount
<1>16. BackupShape'
  <2> HIDE DEF files, seen
  <2>1. backup' = [at |-> backup'.at, files |-> backup'.files, seen |-> backup'.seen,
                   due |-> backup'.due, warned |-> backup'.warned]
      BY <1>1
  <2>2. backup'.at \in 0 .. 4
      BY <1>1, <1>2
  <2> QED
      BY <2>1, <2>2 DEF BackupShape
<1>17. CopyInv(backup'.files)
    BY <1>1, <1>9
<1> QED
    BY <1>11, <1>12, <1>13, <1>14, <1>15, <1>16, <1>17
    DEF WalkInv, CopyInv, InTurn, ConfigTaken, SessionsDue, JournalsTaken, MarksCount

LEMMA EntryKeepsBackups ==
  ASSUME BackupInv, Walking, NEW f \in Listing(CurrentTree), CopyEntry(f) \/ SkipEntry(f)
  PROVE  BackupInv'
<1>1. UNCHANGED RestoreVars /\ UNCHANGED HomeVars /\ UNCHANGED archives
    BY DEF CopyEntry, SkipEntry, RestoreVars, HomeVars
<1>2. CurrentTree \in TreeNames
    BY TreesInOrder DEF BackupInv, BackupShape, Walking, CurrentTree, TreeNames
<1>3. f.in = CurrentTree
    BY <1>2, ListingIsOfTree DEF BackupInv
<1>4. BackupShape' /\ WalkInv(backup)'
  <2>1. CASE CopyEntry(f)
    <3> DEFINE copied == ~Excluded(f) /\ Kept(f)
               warned == IF ~Excluded(f) /\ ~Kept(f) THEN backup.warned \cup {CurrentTree}
                         ELSE backup.warned
    <3>1. backup' = [backup EXCEPT !.seen = @ \cup {f.name}, !.warned = warned,
                                   !.files = IF copied THEN @ \cup {f} ELSE @]
        BY <2>1 DEF CopyEntry, BackupInv, BackupShape
    <3>2. f.name \notin backup.seen /\ Cardinality(backup.seen) < MaxEntries
        BY <2>1 DEF CopyEntry
    <3>3. f.in # "memory" => copied
        BY DEF Excluded, Kept
    <3>4. copied => (f.in = "memory" => ShapeOf[f.name] # "credential")
        BY DEF Excluded
    <3>5. copied \in BOOLEAN /\ backup.warned \subseteq warned
        OBVIOUS
    <3>6. ~copied => CurrentTree # "config" /\ (CurrentTree = "journals" => "journals" \in warned)
        BY <1>3, <3>3
    <3> HIDE DEF copied, warned
    <3> QED
        BY <3>1, <3>2, <3>4, <3>5, <3>6, <1>1, MarkKeepsWalk
  <2>2. CASE SkipEntry(f)
    <3> DEFINE warned == backup.warned \cup {CurrentTree}
    <3>1. backup' = [backup EXCEPT !.seen = @ \cup {f.name}, !.warned = warned,
                                   !.files = IF FALSE THEN @ \cup {f} ELSE @]
        BY <2>2 DEF SkipEntry, BackupInv, BackupShape
    <3>2. f.name \notin backup.seen /\ Cardinality(backup.seen) < MaxEntries
        BY <2>2 DEF SkipEntry
    <3>3. CurrentTree # "config" /\ (CurrentTree = "journals" => "journals" \in warned)
        BY <2>2 DEF SkipEntry
    <3>4. backup.warned \subseteq warned
        OBVIOUS
    <3> HIDE DEF warned
    <3> QED
        BY <3>1, <3>2, <3>3, <3>4, <1>1, MarkKeepsWalk
  <2> QED
      BY <2>1, <2>2
<1> QED
    BY <1>1, <1>4, RestoreKept, HomeKept, ArchivesKept DEF BackupInv

\* An open component whose walk is over is one whose every due entry has a mark, or
\* the limit was met and the walk warns; and its configuration is taken either way.
LEMMA WalkedIsTaken ==
  ASSUME BackupInv, Walking, backup.due \subseteq backup.seen \/ Bounded
  PROVE  ConfigFile \in backup.files
<1>1. ConfigTaken(backup) /\ IsFiniteSet(backup.seen)
    BY DEF BackupInv, WalkInv, BackupShape, Walking, MarksCount
<1>2. SUFFICES ASSUME backup.at = 1, backup.seen = {} PROVE FALSE
    BY <1>1 DEF ConfigTaken
<1>3. ~(backup.due \subseteq backup.seen)
    BY <1>1, <1>2 DEF ConfigTaken
<1>4. Cardinality(backup.seen) = 0
    BY <1>2, FS_EmptySet
<1> QED
    BY <1>3, <1>4, BackupAssumption DEF Bounded

LEMMA NextTreeKeepsBackups == ASSUME BackupInv, NextTree PROVE BackupInv'
<1> DEFINE next == ComponentOrder[backup.at + 1]
           warned == IF Bounded THEN backup.warned \cup {CurrentTree} ELSE backup.warned
<1>1. UNCHANGED RestoreVars /\ UNCHANGED HomeVars /\ UNCHANGED archives
    BY DEF NextTree, RestoreVars, HomeVars
<1>2. backup' = [at |-> backup.at + 1, files |-> backup.files, seen |-> {},
                 due |-> Names(Listing(next)), warned |-> warned]
    BY DEF NextTree, BackupInv, BackupShape
<1>3. backup.at \in 1 .. 3 /\ next = Trees[backup.at + 1] /\ next \in TreeNames
    BY TreesInOrder DEF NextTree, BackupInv, BackupShape, Walking, TreeNames
<1>4. CopyInv(backup.files) /\ InTurn(backup) /\ SessionsDue(backup)
    BY <1>3 DEF BackupInv, WalkInv
<1>5. ConfigFile \in backup.files
    BY WalkedIsTaken DEF NextTree
<1>6. next = "journals" => Names(Listing(next)) = journals
    BY EveryJournalListed
<1>7. \A f \in backup.files : f.in # next
    BY <1>3, <1>4 DEF InTurn
<1>8. FilesIn(backup.files, next) = {}
    BY <1>7 DEF FilesIn
<1> HIDE DEF next, warned
<1>9. BackupShape'
    BY <1>2, <1>3 DEF BackupShape
<1>10. InTurn(backup')
    BY <1>2, <1>3, <1>4, <1>7 DEF InTurn
<1>11. MarksCount(backup')
    BY <1>2, <1>3, <1>8, FS_EmptySet DEF MarksCount
<1>12. ConfigTaken(backup') /\ JournalsTaken(backup')
    BY <1>2, <1>3, <1>5 DEF ConfigTaken, JournalsTaken
<1>13. SessionsDue(backup)'
  <2>1. backup.at + 1 = 4 => next = "journals"
      BY <1>3, TreesInOrder
  <2> QED
      BY <2>1, <1>1, <1>2, <1>4, <1>6 DEF SessionsDue, HomeVars
<1>14. CopyInv(backup'.files)
    BY <1>2, <1>4
<1>15. WalkInv(backup)'
    BY <1>10, <1>11, <1>12, <1>13, <1>14
    DEF WalkInv, CopyInv, InTurn, MarksCount, ConfigTaken, SessionsDue, JournalsTaken
<1> QED
    BY <1>1, <1>9, <1>15, RestoreKept, HomeKept, ArchivesKept DEF BackupInv

LEMMA NoWalkIsFine == ASSUME backup' = NoBackup PROVE BackupShape' /\ WalkInv(backup)'
  BY DEF NoBackup, BackupShape, WalkInv

\* What is published carries the journals that its records name, or says it may not.
LEMMA PublishKeepsBackups == ASSUME BackupInv, Publish PROVE BackupInv'
<1> DEFINE warned == IF Bounded THEN backup.warned \cup {CurrentTree} ELSE backup.warned
           made == [files |-> backup.files, warned |-> warned]
<1>1. UNCHANGED RestoreVars /\ UNCHANGED HomeVars /\ BackupShape' /\ WalkInv(backup)'
    BY NoWalkIsFine DEF Publish, RestoreVars, HomeVars
<1>2. backup.at = 4 /\ CurrentTree = "journals"
    BY TreesInOrder DEF Publish, CurrentTree
<1>3. CopyInv(backup.files) /\ SessionsDue(backup) /\ JournalsTaken(backup)
    BY <1>2 DEF BackupInv, WalkInv
<1>4. ConfigFile \in backup.files
    BY WalkedIsTaken DEF Publish
<1>5. ASSUME NEW f \in backup.files, f.in = "conversations", "journals" \notin warned
      PROVE  JournalFile(f.to) \in backup.files
  <2>1. ~Bounded /\ "journals" \notin backup.warned
      BY <1>2, <1>5
  <2>2. f.to \in backup.seen
      BY <2>1, <1>2, <1>3, <1>5 DEF Publish, SessionsDue
  <2> QED
      BY <2>1, <2>2, <1>2, <1>3 DEF JournalsTaken
<1>6. made.files = backup.files /\ made.warned = warned
    OBVIOUS
<1>7. ArchiveInv(made)
  <2> HIDE DEF made, warned
  <2> QED
      BY <1>3, <1>4, <1>5, <1>6 DEF ArchiveInv
<1>8. archives' = archives \cup {made}
    BY DEF Publish
<1>9. (\A a \in archives : ArchiveInv(a))'
  <2> HIDE DEF made
  <2>1. \A a \in archives' : ArchiveInv(a)
      BY <1>7, <1>8 DEF BackupInv
  <2> QED
      BY <2>1 DEF ArchiveInv, CopyInv
<1> QED
    BY <1>1, <1>9, RestoreKept, HomeKept DEF BackupInv

LEMMA AbortKeepsBackups == ASSUME BackupInv, AbortBackup PROVE BackupInv'
<1>1. /\ UNCHANGED RestoreVars /\ UNCHANGED HomeVars /\ UNCHANGED archives
      /\ BackupShape' /\ WalkInv(backup)'
    BY NoWalkIsFine DEF AbortBackup, RestoreVars, HomeVars
<1> QED
    BY <1>1, RestoreKept, HomeKept, ArchivesKept DEF BackupInv

-----------------------------------------------------------------------------
\* A restore begins over nothing of an archive: a target that has anything of one
\* has its configuration, and that is never forced.
LEMMA BeginKeepsRestore ==
  ASSUME BackupInv, NEW a \in archives, NEW force \in BOOLEAN, BeginRestore(a, force)
  PROVE  RestoreInv'
<1>1. restore' = [phase |-> "writing", force |-> force, archive |-> a.files, left |-> a.files]
    BY DEF BeginRestore
<1>2. target' = target \cup {MadeDirs} /\ TargetOpen(force)
    BY DEF BeginRestore
<1>3. ConfigFile \notin target
    BY <1>2 DEF TargetOpen, Names
<1>4. Restoring = {}
    BY <1>3 DEF BackupInv, RestoreInv, ConfigFirst
<1>5. Restoring' = {}
    BY <1>2, <1>4 DEF Restoring
<1>6. Unrelated \in target' => force
    BY <1>2 DEF TargetOpen, Unrelated, MadeDirs
<1>7. ArchiveInv(a)
    BY DEF BackupInv
<1>8. UnderWay'
    BY <1>1, <1>5, <1>6, <1>7 DEF UnderWay, ArchiveInv, CopyInv
<1>9. RestoreShape'
    BY <1>1 DEF RestoreShape
<1> QED
    BY <1>1, <1>5, <1>8, <1>9 DEF RestoreInv, ConfigFirst, RestoreHonest

LEMMA ConfigIsFirst ==
  ASSUME NEW f, FileShape(f), WriteOrder(f) <= WriteOrder(ConfigFile)
  PROVE  f = ConfigFile
<1>1. ConfigFile.in = "config"
    BY DEF ConfigFile
<1>2. WriteOrder(ConfigFile) \in 1 .. 4 /\ Trees[WriteOrder(ConfigFile)] = "config"
    BY <1>1, TreesInOrder DEF WriteOrder
<1>3. WriteOrder(ConfigFile) = 1
    BY <1>2, TreesInOrder
<1>4. WriteOrder(f) \in 1 .. 4 /\ Trees[WriteOrder(f)] = f.in
    BY TreesInOrder DEF WriteOrder, FileShape, TreeNames
<1>5. f.in = "config"
    BY <1>3, <1>4, TreesInOrder
<1> QED
    BY <1>5 DEF FileShape

\* The first file written is the configuration, and no write removes another file.
LEMMA WriteKeepsRestore ==
  ASSUME RestoreInv, NEW f \in restore.left, WriteFile(f) PROVE RestoreInv'
<1>1. restore.phase = "writing" /\ UnderWay /\ RestoreShape /\ ConfigFirst
    BY DEF WriteFile, RestoreInv
<1>2. restore' = [phase |-> "writing", force |-> restore.force, archive |-> restore.archive,
                  left |-> restore.left \ {f}]
    BY <1>1 DEF WriteFile, RestoreShape
<1>3. target' = {g \in target : g.in # f.in \/ g.name # f.name} \cup {f}
    BY DEF WriteFile
<1>4. f \in restore.archive /\ FileShape(f) /\ f \notin Restoring
    BY <1>1 DEF UnderWay
<1>5. f # MadeDirs /\ f # Unrelated /\ MadeDirs.in # f.in /\ Unrelated.in # f.in
    BY <1>4 DEF FileShape, TreeNames, MadeDirs, Unrelated
<1>6. \A g \in Restoring : g.in # f.in \/ g.name # f.name
    BY <1>1, <1>4 DEF UnderWay, OneUnderName
<1>7. \A g \in target : g.in # f.in \/ g.name # f.name
    BY <1>5, <1>6 DEF Restoring
<1>8. target' = target \cup {f}
    BY <1>3, <1>7
<1>9. Restoring' = Restoring \cup {f}
    BY <1>5, <1>8 DEF Restoring
<1>10. UnderWay'
    BY <1>1, <1>2, <1>4, <1>5, <1>8, <1>9 DEF UnderWay
<1>11. ConfigFile \in target'
  <2>1. CASE Restoring = {}
    <3>1. ConfigFile \in restore.left
        BY <2>1, <1>1 DEF UnderWay
    <3> QED
        BY <3>1, <1>4, <1>8, ConfigIsFirst DEF WriteFile
  <2>2. CASE Restoring # {}
      BY <2>2, <1>1, <1>8 DEF ConfigFirst
  <2> QED
      BY <2>1, <2>2
<1>12. RestoreShape'
    BY <1>2 DEF RestoreShape
<1> QED
    BY <1>2, <1>10, <1>11, <1>12 DEF RestoreInv, ConfigFirst, RestoreHonest

LEMMA EndKeepsRestore ==
  ASSUME RestoreInv, Restored \/ AbortRestore \/ ClearTarget PROVE RestoreInv'
<1>1. CASE Restored
  <2>1. restore' = [phase |-> "restored", force |-> restore.force,
                    archive |-> restore.archive, left |-> restore.left]
      BY <1>1 DEF Restored, RestoreInv, RestoreShape
  <2>2. /\ Restoring = restore.archive
        /\ Unrelated \in target => restore.force
      BY <1>1 DEF Restored, RestoreInv, UnderWay
  <2>3. target' = target
      BY <1>1 DEF Restored
  <2>4. RestoreShape'
      BY <2>1 DEF RestoreShape
  <2> QED
      BY <2>1, <2>2, <2>3, <2>4 DEF RestoreInv, ConfigFirst, RestoreHonest, Restoring
<1>2. CASE AbortRestore
  <2>1. restore' = NoRestore /\ target' = target
      BY <1>2 DEF AbortRestore
  <2> QED
      BY <2>1 DEF RestoreInv, RestoreShape, NoRestore, ConfigFirst, RestoreHonest, Restoring
<1>3. CASE ClearTarget
  <2>1. restore.phase = "idle" /\ restore' = restore /\ target' = {}
      BY <1>3 DEF ClearTarget
  <2> QED
      BY <2>1 DEF RestoreInv, RestoreShape, ConfigFirst, RestoreHonest, Restoring
<1> QED
    BY <1>1, <1>2, <1>3

LEMMA RestoreKeepsBackups ==
  ASSUME BackupInv, RestoreInv', UNCHANGED HomeVars, UNCHANGED <<backup, archives>>
  PROVE  BackupInv'
<1>1. journals \subseteq journals'
    BY DEF HomeVars
<1> QED
    BY <1>1, WalkKept, HomeKept, ArchivesKept DEF BackupInv

LEMMA BackupInvStep == BackupInv /\ [BackupNext]_backupVars => BackupInv'
<1> SUFFICES ASSUME BackupInv, [BackupNext]_backupVars PROVE BackupInv'
    OBVIOUS
<1>1. ASSUME NEW s \in Sessions, StartSession(s) \/ \E c \in Chats : SaveRecord(c, s)
      PROVE  BackupInv'
    BY <1>1, ServiceKeepsBackups
<1>2. CASE BeginBackup \/ NextTree \/ Publish \/ AbortBackup
    BY <1>2, BeginKeepsBackups, NextTreeKeepsBackups, PublishKeepsBackups, AbortKeepsBackups
<1>3. CASE Walking /\ \E f \in Listing(CurrentTree) : CopyEntry(f) \/ SkipEntry(f)
    BY <1>3, EntryKeepsBackups
<1>4. ASSUME NEW a \in archives, NEW force \in BOOLEAN, BeginRestore(a, force)
      PROVE  BackupInv'
  <2>1. UNCHANGED HomeVars /\ UNCHANGED <<backup, archives>>
      BY <1>4 DEF BeginRestore, HomeVars
  <2> QED
      BY <2>1, <1>4, BeginKeepsRestore, RestoreKeepsBackups
<1>5. ASSUME NEW f \in restore.left, WriteFile(f) PROVE BackupInv'
  <2>1. UNCHANGED HomeVars /\ UNCHANGED <<backup, archives>>
      BY <1>5 DEF WriteFile, HomeVars
  <2> QED
      BY <2>1, <1>5, WriteKeepsRestore, RestoreKeepsBackups DEF BackupInv
<1>6. CASE Restored \/ AbortRestore \/ ClearTarget
  <2>1. UNCHANGED HomeVars /\ UNCHANGED <<backup, archives>>
      BY <1>6 DEF Restored, AbortRestore, ClearTarget, HomeVars
  <2> QED
      BY <2>1, <1>6, EndKeepsRestore, RestoreKeepsBackups DEF BackupInv
<1>7. CASE UNCHANGED backupVars
  <2>1. UNCHANGED RestoreVars /\ UNCHANGED HomeVars /\ UNCHANGED <<backup, archives>>
      BY <1>7 DEF backupVars, RestoreVars, HomeVars
  <2> QED
      BY <2>1, RestoreKept, RestoreKeepsBackups DEF BackupInv
<1> QED
    BY <1>1, <1>2, <1>3, <1>4, <1>5, <1>6, <1>7 DEF BackupNext

\* Only the token file's name borne by another file and a directory near the depth
\* bound keep an archive from being accepted.
LEMMA ArchiveIsAccepted ==
  ASSUME NEW a, ArchiveInv(a), \A f \in a.files : ~Refusable(f) PROVE Preflight(a)
<1>1. ConfigFile \in a.files
    BY DEF ArchiveInv
<1>2. ASSUME NEW f \in a.files PROVE ~CredentialMaterial(f) /\ ScanDepth(f) <= MaxDepth
  <2>1. FileShape(f) /\ ~Refusable(f) /\ (f.in = "memory" => ShapeOf[f.name] # "credential")
      BY DEF ArchiveInv, CopyInv
  <2>2. CASE f.in = "memory"
    <3>1. DepthOf[f.name] \in Nat
        BY <2>1, <2>2, BackupAssumption DEF FileShape
    <3> QED
        BY <2>1, <2>2, <3>1, BackupAssumption DEF Refusable, CredentialMaterial, ScanDepth
  <2>3. CASE f.in # "memory"
      BY <2>3, BackupAssumption DEF CredentialMaterial, ScanDepth
  <2> QED
      BY <2>2, <2>3
<1>3. ASSUME NEW tree \in TreeNames
      PROVE  Cardinality({f \in a.files : f.in = tree}) <= MaxEntries
    BY DEF ArchiveInv, CopyInv, FewEnough, FilesIn
<1> QED
    BY <1>1, <1>2, <1>3 DEF Preflight, TreeNames

\* A published archive carries the journal of every session its records name or warns;
\* it is accepted by a restore but for the two cases named; and a restore succeeds only
\* over one complete copy (backup.rs): for any chats, sessions and notes, any bounds on
\* the depth and the entries of a scan, a service that goes on beside the backup, and
\* any number of backups and restores cut short.
THEOREM BackupsAreSound == BackupSpec => []BackupSound
<1>1. BackupInv => BackupSound
  <2> SUFFICES ASSUME BackupInv PROVE BackupSound
      OBVIOUS
  <2>1. \A a \in archives : ArchiveInv(a)
      BY DEF BackupInv
  <2>2. JournalsCarried
      BY <2>1 DEF JournalsCarried, ArchiveInv
  <2>3. Restorable
      BY <2>1, ArchiveIsAccepted DEF Restorable
  <2>4. RestoreHonest
      BY DEF BackupInv, RestoreInv
  <2> QED
      BY <2>2, <2>3, <2>4 DEF BackupSound
<1> QED
    BY <1>1, BackupInvInit, BackupInvStep, PTL DEF BackupSpec

-----------------------------------------------------------------------------
(* The index of a wiki and its cache (WikiIndex).                          *)

IndexFileNames == {"chunks", "corpus_stats", "manifest", "meta"}
Versions == [IndexFileNames -> 0 .. MaxVersion]

\* Files are copied by name, the metadata last, so they are never ahead.
MetaIsLast ==
  \A f \in IndexFileNames : source["meta"] <= source[f]
CopyInOrder ==
  \A i, k \in 1 .. 4 : i < k => source[IndexFiles[k]] <= source[IndexFiles[i]]

\* What was read since a key was taken lies between the version the key names and
\* the one that is there now.
Between(key, version, file) == key[1] <= version /\ version <= source[file]
KeyTaken(key) == key \in Seq(Nat) /\ Len(key) > 0 /\ key[1] <= source["meta"]

Building == {"building", "meta", "manifest", "chunks", "writing", "renaming"}
ReadFrom(c) ==
  /\ c.at \in Building => KeyTaken(c.key)
  /\ c.at \in Building \ {"building", "meta"} => c.meta \in Nat /\ Between(c.key, c.meta, "meta")
  /\ c.at \in {"chunks", "writing", "renaming"} =>
       c.manifest \in Nat /\ Between(c.key, c.manifest, "manifest")
  /\ c.at \in {"writing", "renaming"} => c.chunks \in Nat /\ Between(c.key, c.chunks, "chunks")
CacheFrom(c) ==
  \/ c.key = <<>>
  \/ /\ KeyTaken(c.key) /\ {c.meta, c.manifest, c.chunks} \subseteq Nat
     /\ Between(c.key, c.meta, "meta") /\ Between(c.key, c.manifest, "manifest")
     /\ Between(c.key, c.chunks, "chunks")

ReaderShape(c) ==
  c = [at |-> c.at, key |-> c.key, meta |-> c.meta, manifest |-> c.manifest, chunks |-> c.chunks]
IndexInv ==
  /\ source \in Versions /\ CopyInOrder
  /\ DOMAIN reader = Readers
  /\ reader = [r \in Readers |-> reader[r]]
  /\ \A r \in Readers : ReaderShape(reader[r]) /\ ReadFrom(reader[r])
  /\ CacheFrom(cacheFile)

LEMMA FilesInOrder ==
  /\ IndexFiles[1] = "chunks" /\ IndexFiles[2] = "corpus_stats"
  /\ IndexFiles[3] = "manifest" /\ IndexFiles[4] = "meta"
  BY DEF IndexFiles

LEMMA MetaComesLast ==
  ASSUME source \in Versions, CopyInOrder PROVE MetaIsLast
<1>1. \A i \in 1 .. 4 : i < 4 => source[IndexFiles[4]] <= source[IndexFiles[i]]
    BY DEF CopyInOrder
<1>2. source["meta"] \in Nat
    BY DEF Versions, IndexFileNames
<1> QED
    BY <1>1, <1>2, FilesInOrder DEF MetaIsLast, IndexFileNames

\* The sizes that are added to a key leave its version.
LEMMA KeyKeepsVersion ==
  ASSUME source \in Versions, NEW key \in Seq(Nat), Len(key) > 0
  PROVE  /\ WithSizes(key) \in Seq(Nat) /\ Len(WithSizes(key)) > 0
         /\ WithSizes(key)[1] = key[1]
<1> DEFINE sizes == <<SizeOf[source["meta"]], SizeOf[source["manifest"]], SizeOf[source["chunks"]]>>
<1>1. sizes \in Seq(Nat) /\ Len(sizes) = 3
    BY IndexAssumption DEF Versions, IndexFileNames
<1> HIDE DEF sizes
<1>2. /\ key \o sizes \in Seq(Nat) /\ Len(key \o sizes) = Len(key) + Len(sizes)
      /\ \A i \in 1 .. Len(key) + Len(sizes) :
           (key \o sizes)[i] = IF i <= Len(key) THEN key[i] ELSE sizes[i - Len(key)]
    BY <1>1, ConcatProperties
<1>3. Len(key) \in Nat /\ 1 \in 1 .. Len(key) + Len(sizes)
    BY <1>1
<1>4. (key \o sizes)[1] = key[1]
    BY <1>2, <1>3
<1> QED
    BY <1>1, <1>2, <1>3, <1>4 DEF WithSizes, sizes

\* The files only move on.
LEMMA CopyMovesOn ==
  ASSUME IndexInv, CopyIndexFile
  PROVE  /\ source' \in Versions /\ CopyInOrder'
         /\ \A f \in IndexFileNames : source[f] <= source'[f]
<1>1. PICK i \in 1 .. 4 :
        /\ \A k \in 1 .. 4 : k < i => source[IndexFiles[k]] > source[IndexFiles[i]]
        /\ \A k \in 1 .. 4 : k > i => source[IndexFiles[k]] = source[IndexFiles[i]]
        /\ source[IndexFiles[i]] < MaxVersion
        /\ source' = [source EXCEPT ![IndexFiles[i]] = @ + 1]
    BY DEF CopyIndexFile
<1>2. IndexFiles[i] \in IndexFileNames
    BY FilesInOrder DEF IndexFileNames
<1>3. source \in Versions /\ MaxVersion \in Nat
    BY IndexAssumption DEF IndexInv
<1>4. source' \in Versions
    BY <1>1, <1>2, <1>3 DEF Versions
<1>5. \A f \in IndexFileNames : source[f] <= source'[f]
    BY <1>1, <1>2, <1>3 DEF Versions
<1>6. CopyInOrder'
  <2> SUFFICES ASSUME NEW j \in 1 .. 4, NEW k \in 1 .. 4, j < k
               PROVE  source'[IndexFiles[k]] <= source'[IndexFiles[j]]
      BY DEF CopyInOrder
  <2>1. source[IndexFiles[k]] <= source[IndexFiles[j]]
      BY DEF IndexInv, CopyInOrder
  <2>2. /\ IndexFiles[j] \in IndexFileNames /\ IndexFiles[k] \in IndexFileNames
        /\ IndexFiles[j] # IndexFiles[k]
      BY FilesInOrder DEF IndexFileNames
  <2>3. k = i => source[IndexFiles[k]] < source[IndexFiles[j]]
      BY <1>1, <1>3, <2>2 DEF Versions
  <2>4. IndexFiles[k] = IndexFiles[i] => k = i
      BY FilesInOrder
  <2> QED
      BY <1>1, <1>2, <1>3, <2>1, <2>2, <2>3, <2>4 DEF Versions
<1> QED
    BY <1>4, <1>5, <1>6

LEMMA IndexInvInit == IndexInit => IndexInv
<1> SUFFICES ASSUME IndexInit PROVE IndexInv
    OBVIOUS
<1>1. {IndexFiles[i] : i \in 1 .. 4} = IndexFileNames
    BY FilesInOrder DEF IndexFileNames
<1>2. source \in Versions
    BY <1>1, IndexAssumption DEF IndexInit, Versions
<1>3. CopyInOrder
    BY <1>1, FilesInOrder DEF IndexInit, CopyInOrder, IndexFileNames
<1>4. \A r \in Readers : ReaderShape(reader[r]) /\ ReadFrom(reader[r])
    BY DEF IndexInit, Resting, ReaderShape, ReadFrom, Building
<1>5. CacheFrom(cacheFile)
    BY DEF IndexInit, NoCacheFile, CacheFrom
<1> QED
    BY <1>2, <1>3, <1>4, <1>5 DEF IndexInv, IndexInit

\* One reader moves, and what it has read is of the files as they are.
LEMMA OneReader ==
  ASSUME IndexInv, NEW r \in Readers, NEW c, ReaderShape(c), ReadFrom(c), Moves(r, c),
         UNCHANGED source, CacheFrom(cacheFile')
  PROVE  IndexInv'
<1>1. reader' = [reader EXCEPT ![r] = c]
    BY DEF Moves
<1>2. \A q \in Readers : reader'[q] = IF q = r THEN c ELSE reader[q]
    BY <1>1 DEF IndexInv
<1>3. DOMAIN reader' = Readers /\ reader' = [q \in Readers |-> reader'[q]]
    BY <1>1 DEF IndexInv
<1>4. \A q \in Readers : ReaderShape(reader'[q]) /\ ReadFrom(reader'[q])
    BY <1>2 DEF IndexInv
<1>5. (\A q \in Readers : ReaderShape(reader[q]) /\ ReadFrom(reader[q]))'
    BY <1>4 DEF ReaderShape, ReadFrom, KeyTaken, Between
<1>6. CacheFrom(cacheFile)'
    BY DEF CacheFrom, KeyTaken, Between
<1> QED
    BY <1>3, <1>5, <1>6 DEF IndexInv, CopyInOrder

LEMMA RestIsRead == ReaderShape(Resting) /\ ReadFrom(Resting)
  BY DEF Resting, ReaderShape, ReadFrom, Building

LEMMA BuiltAtIsTaken ==
  ASSUME source \in Versions PROVE KeyTaken(BuiltAt) /\ BuiltAt[1] = source["meta"]
<1>1. source["meta"] \in Nat
    BY DEF Versions, IndexFileNames
<1> QED
    BY <1>1 DEF KeyTaken, BuiltAt

LEMMA BuildReads ==
  ASSUME IndexInv, NEW r \in Readers, Build(r)
  PROVE  \E c : ReaderShape(c) /\ ReadFrom(c) /\ Moves(r, c)
<1> DEFINE b == reader[r]
<1>1. ReaderShape(b) /\ ReadFrom(b) /\ source \in Versions /\ MetaIsLast
    BY MetaComesLast DEF IndexInv
<1>2. \A f \in IndexFileNames : source[f] \in Nat /\ source["meta"] <= source[f]
    BY <1>1 DEF Versions, MetaIsLast
<1> HIDE DEF b
<1>3. CASE b.at = "building" /\ Moves(r, [b EXCEPT !.at = "meta", !.key = WithSizes(@)])
  <2> DEFINE c == [at |-> "meta", key |-> WithSizes(b.key), meta |-> b.meta,
                   manifest |-> b.manifest, chunks |-> b.chunks]
  <2>1. ASSUME NEW x, x = [b EXCEPT !.at = "meta", !.key = WithSizes(@)] PROVE x = c
      BY <2>1, <1>1 DEF ReaderShape
  <2>2. KeyTaken(b.key)
      BY <1>1, <1>3 DEF ReadFrom, Building
  <2>3. KeyTaken(c.key)
      BY <2>2, <1>1, KeyKeepsVersion DEF KeyTaken
  <2>4. ReaderShape(c) /\ ReadFrom(c)
      BY <2>3 DEF ReaderShape, ReadFrom, Building
  <2> QED
      BY <2>1, <2>4, <1>3
<1>4. CASE b.at = "meta" /\ Moves(r, [b EXCEPT !.at = "manifest", !.meta = source["meta"]])
  <2> DEFINE c == [at |-> "manifest", key |-> b.key, meta |-> source["meta"],
                   manifest |-> b.manifest, chunks |-> b.chunks]
  <2>1. ASSUME NEW x, x = [b EXCEPT !.at = "manifest", !.meta = source["meta"]] PROVE x = c
      BY <2>1, <1>1 DEF ReaderShape
  <2>2. KeyTaken(b.key) /\ Between(b.key, source["meta"], "meta")
      BY <1>1, <1>2, <1>4 DEF ReadFrom, Building, KeyTaken, Between, IndexFileNames
  <2>3. ReaderShape(c) /\ ReadFrom(c)
      BY <2>2, <1>2 DEF ReaderShape, ReadFrom, Building, IndexFileNames
  <2> QED
      BY <2>1, <2>3, <1>4
<1>5. CASE b.at = "manifest" /\ Moves(r, [b EXCEPT !.at = "chunks", !.manifest = source["manifest"]])
  <2> DEFINE c == [at |-> "chunks", key |-> b.key, meta |-> b.meta,
                   manifest |-> source["manifest"], chunks |-> b.chunks]
  <2>1. ASSUME NEW x, x = [b EXCEPT !.at = "chunks", !.manifest = source["manifest"]] PROVE x = c
      BY <2>1, <1>1 DEF ReaderShape
  <2>2. /\ KeyTaken(b.key) /\ Between(b.key, source["manifest"], "manifest")
        /\ b.meta \in Nat /\ Between(b.key, b.meta, "meta")
      BY <1>1, <1>2, <1>5 DEF ReadFrom, Building, KeyTaken, Between, IndexFileNames
  <2>3. ReaderShape(c) /\ ReadFrom(c)
      BY <2>2, <1>2 DEF ReaderShape, ReadFrom, Building, IndexFileNames
  <2> QED
      BY <2>1, <2>3, <1>5
<1>6. CASE b.at = "chunks" /\ Moves(r, [b EXCEPT !.at = "writing", !.chunks = source["chunks"]])
  <2> DEFINE c == [at |-> "writing", key |-> b.key, meta |-> b.meta,
                   manifest |-> b.manifest, chunks |-> source["chunks"]]
  <2>1. ASSUME NEW x, x = [b EXCEPT !.at = "writing", !.chunks = source["chunks"]] PROVE x = c
      BY <2>1, <1>1 DEF ReaderShape
  <2>2. /\ KeyTaken(b.key) /\ Between(b.key, source["chunks"], "chunks")
        /\ b.meta \in Nat /\ Between(b.key, b.meta, "meta")
        /\ b.manifest \in Nat /\ Between(b.key, b.manifest, "manifest")
      BY <1>1, <1>2, <1>6 DEF ReadFrom, Building, KeyTaken, Between, IndexFileNames
  <2>3. ReaderShape(c) /\ ReadFrom(c)
      BY <2>2, <1>2 DEF ReaderShape, ReadFrom, Building, IndexFileNames
  <2> QED
      BY <2>1, <2>3, <1>6
<1> QED
    BY <1>3, <1>4, <1>5, <1>6 DEF Build, Works, b

\* A step of a reader puts in place, and goes on with, what it has read.
LEMMA ReaderStep ==
  ASSUME IndexInv, NEW r \in Readers,
         \/ FindStarts(r) \/ (\E refresh \in BOOLEAN : LoadIndex(r, refresh))
         \/ BuildStep(r) \/ WriteCache(r) \/ RenameCache(r) \/ Answer(r) \/ Kill(r)
  PROVE  IndexInv'
<1> DEFINE b == reader[r]
<1>1. /\ ReaderShape(b) /\ ReadFrom(b) /\ source \in Versions /\ CacheFrom(cacheFile)
    BY DEF IndexInv
<1>2. KeyTaken(BuiltAt)
    BY <1>1, BuiltAtIsTaken
<1> HIDE DEF b
<1>3. CASE FindStarts(r)
  <2> DEFINE c == [at |-> "keyed", key |-> BuiltAt, meta |-> 0, manifest |-> 0, chunks |-> 0]
  <2>0. ASSUME NEW x, x = [Resting EXCEPT !.at = "keyed", !.key = BuiltAt] PROVE x = c
      BY <2>0 DEF Resting
  <2>1. Moves(r, c) /\ UNCHANGED <<source, cacheFile>>
      BY <2>0, <1>3 DEF FindStarts
  <2>2. ReaderShape(c) /\ ReadFrom(c)
      BY DEF ReaderShape, ReadFrom, Building
  <2> HIDE DEF c
  <2> QED
      BY <2>1, <2>2, <1>1, OneReader
<1>4. ASSUME NEW refresh \in BOOLEAN, LoadIndex(r, refresh) PROVE IndexInv'
  <2> DEFINE c == [at |-> "answering", key |-> b.key, meta |-> cacheFile.meta,
                   manifest |-> cacheFile.manifest, chunks |-> cacheFile.chunks]
             d == [at |-> "building", key |-> BuiltAt, meta |-> 0, manifest |-> 0, chunks |-> 0]
  <2>1. ASSUME NEW x, x = [b EXCEPT !.at = "answering", !.meta = cacheFile.meta,
                  !.manifest = cacheFile.manifest, !.chunks = cacheFile.chunks] PROVE x = c
      BY <2>1, <1>1 DEF ReaderShape
  <2>2. ASSUME NEW x, x = [Resting EXCEPT !.at = "building", !.key = BuiltAt] PROVE x = d
      BY <2>2 DEF Resting
  <2>3. (Moves(r, c) \/ Moves(r, d)) /\ UNCHANGED <<source, cacheFile>>
      BY <1>4, <2>1, <2>2 DEF LoadIndex, b
  <2>4. ReaderShape(c) /\ ReadFrom(c) /\ ReaderShape(d) /\ ReadFrom(d)
      BY <1>2 DEF ReaderShape, ReadFrom, Building
  <2> HIDE DEF c, d
  <2> QED
      BY <2>3, <2>4, <1>1, OneReader
<1>5. CASE BuildStep(r)
  <2>1. PICK c : ReaderShape(c) /\ ReadFrom(c) /\ Moves(r, c)
      BY <1>5, BuildReads DEF BuildStep
  <2> QED
      BY <2>1, <1>1, <1>5, OneReader DEF BuildStep
<1>6. CASE WriteCache(r)
  <2> DEFINE c == [at |-> "renaming", key |-> b.key, meta |-> b.meta,
                   manifest |-> b.manifest, chunks |-> b.chunks]
  <2>1. ASSUME NEW x, x = [b EXCEPT !.at = "renaming"] PROVE x = c
      BY <2>1, <1>1 DEF ReaderShape
  <2>2. b.at = "writing" /\ (Moves(r, Resting) \/ Moves(r, c)) /\ UNCHANGED <<source, cacheFile>>
      BY <1>6, <2>1 DEF WriteCache, Works, b
  <2>3. ReaderShape(c) /\ ReadFrom(c)
      BY <1>1, <2>2 DEF ReaderShape, ReadFrom, Building
  <2> HIDE DEF c
  <2> QED
      BY <2>2, <2>3, <1>1, OneReader, RestIsRead
<1>7. CASE RenameCache(r)
  <2> DEFINE c == [at |-> "answering", key |-> b.key, meta |-> b.meta,
                   manifest |-> b.manifest, chunks |-> b.chunks]
  <2>1. ASSUME NEW x, x = [b EXCEPT !.at = "answering"] PROVE x = c
      BY <2>1, <1>1 DEF ReaderShape
  <2>2. /\ b.at = "renaming" /\ Moves(r, c) /\ UNCHANGED source
        /\ cacheFile' = [key |-> b.key, meta |-> b.meta, manifest |-> b.manifest,
                         chunks |-> b.chunks]
      BY <1>7, <2>1 DEF RenameCache, Works, b
  <2>3. ReaderShape(c) /\ ReadFrom(c)
      BY DEF ReaderShape, ReadFrom, Building
  <2>4. CacheFrom(cacheFile')
      BY <1>1, <2>2 DEF CacheFrom, ReadFrom, Building
  <2> HIDE DEF c
  <2> QED
      BY <2>2, <2>3, <2>4, OneReader
<1>8. CASE Answer(r) \/ Kill(r)
  <2>1. Moves(r, Resting) /\ UNCHANGED <<source, cacheFile>>
      BY <1>8 DEF Answer, Kill
  <2> QED
      BY <2>1, <1>1, OneReader, RestIsRead
<1> QED
    BY <1>3, <1>4, <1>5, <1>6, <1>7, <1>8

LEMMA IndexInvStep == IndexInv /\ [IndexNext]_indexVars => IndexInv'
<1> SUFFICES ASSUME IndexInv, [IndexNext]_indexVars PROVE IndexInv'
    OBVIOUS
<1>1. CASE CopyIndexFile
  <2>1. source' \in Versions /\ CopyInOrder' /\ \A f \in IndexFileNames : source[f] <= source'[f]
      BY <1>1, CopyMovesOn
  <2>2. source \in Versions /\ UNCHANGED <<reader, cacheFile>>
      BY <1>1 DEF IndexInv, CopyIndexFile
  <2>3. \A f \in IndexFileNames : \A n \in Nat : n <= source[f] => n <= source'[f]
      BY <2>1, <2>2 DEF Versions
  <2>4. ASSUME NEW r \in Readers PROVE ReadFrom(reader[r])'
    <3>1. ReadFrom(reader[r])
        BY DEF IndexInv
    <3>2. reader'[r] = reader[r] /\ cacheFile' = cacheFile
        BY <2>2
    <3> QED
        BY <2>3, <3>1, <3>2 DEF ReadFrom, Building, IndexFileNames, KeyTaken, Between
  <2>5. CacheFrom(cacheFile)'
    <3>1. CacheFrom(cacheFile) /\ cacheFile' = cacheFile
        BY <2>2 DEF IndexInv
    <3> QED
        BY <2>3, <3>1 DEF CacheFrom, IndexFileNames, KeyTaken, Between
  <2> QED
      BY <2>1, <2>2, <2>4, <2>5 DEF IndexInv, ReaderShape
<1>2. ASSUME NEW r \in Readers,
             \/ FindStarts(r) \/ (\E refresh \in BOOLEAN : LoadIndex(r, refresh))
             \/ BuildStep(r) \/ WriteCache(r) \/ RenameCache(r) \/ Answer(r) \/ Kill(r)
      PROVE  IndexInv'
    BY <1>2, ReaderStep
<1>3. CASE UNCHANGED indexVars
    BY <1>3 DEF indexVars, IndexInv, CopyInOrder, ReaderShape, ReadFrom, KeyTaken, Between, CacheFrom
<1> QED
    BY <1>1, <1>2, <1>3 DEF IndexNext

LEMMA FreshHolds == IndexInv => FreshIsTrue
<1> SUFFICES ASSUME IndexInv, SourcesSettled, cacheFile.key = CurrentKey
             PROVE  /\ cacheFile.meta = source["meta"] /\ cacheFile.manifest = source["manifest"]
                    /\ cacheFile.chunks = source["chunks"]
    BY DEF FreshIsTrue
<1>1. source \in Versions /\ CacheFrom(cacheFile)
    BY DEF IndexInv
<1>2. KeyTaken(BuiltAt) /\ BuiltAt[1] = source["meta"]
    BY <1>1, BuiltAtIsTaken
<1>3. Len(cacheFile.key) > 0 /\ cacheFile.key[1] = source["meta"]
    BY <1>1, <1>2, KeyKeepsVersion DEF CurrentKey, KeyTaken
<1>4. cacheFile.key # <<>>
    BY <1>3
<1>5. source["manifest"] = source["meta"] /\ source["chunks"] = source["meta"]
    BY <1>1 DEF SourcesSettled, Versions, IndexFileNames
<1>6. \A f \in IndexFileNames : source[f] \in Nat
    BY <1>1 DEF Versions
<1> QED
    BY <1>1, <1>3, <1>4, <1>5, <1>6 DEF CacheFrom, Between, IndexFileNames
-----------------------------------------------------------------------------
(* The pages of a wiki and the record of what was loaded.                  *)

\* A page that was replaced is one generation ahead of those that were not.
GenerationsMatch ==
  \A p, q \in Pages :
    /\ (p \in syncing <=> q \in syncing) => pageAt[p] = pageAt[q]
    /\ p \in syncing /\ q \notin syncing => pageAt[q] = pageAt[p] + 1
\* A load that holds the lock has the pages as they are, and nothing replaces them.
ReadsOne(c) ==
  /\ c.locked => syncing = {} /\ \A p \in Pages : c.got \subseteq {pageAt[p]}
  /\ c.left \subseteq Pages /\ c.day \in Nat
  /\ c.locked => c.got = {} \/ \E g : c.got = {g}
\* One records at a time, and what it could and could not read is the file.
OneRecords ==
  /\ \A r, s \in Recorder : r = s
  /\ \A r \in Recorder : loader[r].kept \cup loader[r].missed = stats

LoaderShape(c) ==
  c = [at |-> c.at, locked |-> c.locked, left |-> c.left, got |-> c.got, kept |-> c.kept,
       missed |-> c.missed, day |-> c.day]
RecordInv ==
  recorded \in Seq(Nat) /\ stats \subseteq 1 .. Len(recorded) /\ AccessesKept
PagesInv ==
  /\ pageAt \in [Pages -> Nat] /\ syncing \subseteq Pages /\ GenerationsMatch
  /\ loader = [r \in Loaders |-> loader[r]]
  /\ \A r \in Loaders : LoaderShape(loader[r]) /\ ReadsOne(loader[r])
  /\ today \in Nat /\ RecordInv /\ OneRecords

\* A set of naturals has a least element.
LEMMA LeastNatural ==
    ASSUME NEW S \in SUBSET Nat, S # {}
    PROVE  \E n \in S : \A m \in S : n <= m
<1>1. PICK n \in S : \A m \in S : ~(<<m, n>> \in OpToRel(<, Nat))
    BY NatLessThanWellFounded, WFMin
<1>2. \A m \in S : ~(m < n)
    BY <1>1 DEF OpToRel
<1> QED
    BY <1>2

\* The latest n of a set of numbers are n at most, and what is left out has n above it.
LEMMA LatestAreFew ==
  ASSUME NEW S \in SUBSET Nat, IsFiniteSet(S), NEW n \in Nat \ {0}
  PROVE  LatestOf(S, n) \subseteq S /\ Cardinality(LatestOf(S, n)) <= n
<1> DEFINE L == LatestOf(S, n)
<1>1. L \subseteq S /\ \A i \in L : Cardinality({k \in S : k > i}) < n
    BY DEF LatestOf
<1> HIDE DEF L
<1>2. CASE L = {}
    BY <1>2, FS_EmptySet DEF L
<1>3. CASE L # {}
  <2>1. PICK m \in L : \A i \in L : m <= i
      BY <1>1, <1>3, LeastNatural
  <2> DEFINE above == {k \in S : k > m}
             rest == {k \in L : k > m}
  <2>2. L \subseteq rest \cup {m} /\ rest \subseteq above /\ above \subseteq S
    <3>1. ASSUME NEW i \in L PROVE i \in rest \cup {m} /\ i \in S
      <4>1. i \in Nat /\ m \in Nat /\ m <= i /\ i \in S
          BY <1>1, <2>1
      <4>2. i = m \/ i > m
          BY <4>1
      <4> QED
          BY <4>1, <4>2
    <3>2. rest \subseteq above /\ above \subseteq S
        BY <3>1
    <3> QED
        BY <3>1, <3>2
  <2>3. Cardinality(above) < n
      BY <1>1
  <2> HIDE DEF above, rest
  <2>4. /\ IsFiniteSet(above) /\ IsFiniteSet(rest)
        /\ Cardinality(rest) <= Cardinality(above)
      BY <2>2, FS_Subset
  <2>5. Cardinality(above) \in Nat /\ Cardinality(rest) \in Nat
      BY <2>4, FS_CardinalityType
  <2>6. /\ IsFiniteSet(rest \cup {m})
        /\ Cardinality(rest \cup {m}) <= Cardinality(rest) + 1
    <3>1. /\ IsFiniteSet(rest \cup {m})
          /\ Cardinality(rest \cup {m}) = IF m \in rest THEN Cardinality(rest) ELSE Cardinality(rest) + 1
        BY <2>4, FS_AddElement
    <3> QED
        BY <3>1, <2>5
  <2>7. /\ Cardinality(L) <= Cardinality(rest \cup {m}) /\ IsFiniteSet(L)
      BY <2>2, <2>6, FS_Subset
  <2>8. Cardinality(L) \in Nat /\ Cardinality(rest \cup {m}) \in Nat
      BY <2>6, <2>7, FS_CardinalityType
  <2>9. Cardinality(L) <= n
      BY <2>3, <2>4, <2>5, <2>6, <2>7, <2>8
  <2> QED
      BY <1>1, <2>9 DEF L
<1> QED
    BY <1>2, <1>3, <1>1 DEF L

\* What the latest n of the numbers up to m leave out is n below m at least.
LEMMA LeftOutAreOld ==
  ASSUME NEW m \in Nat, NEW S \in SUBSET (1 .. m), NEW n \in Nat \ {0},
         NEW i \in S, i \notin LatestOf(S, n)
  PROVE  i + n <= m
<1> DEFINE above == {k \in S : k > i}
<1>1. ~(Cardinality(above) < n)
    BY DEF LatestOf
<1>2. above \subseteq (i + 1) .. m
  <2> SUFFICES ASSUME NEW k \in S, k > i PROVE k \in (i + 1) .. m
      OBVIOUS
  <2>1. k \in 1 .. m /\ i \in 1 .. m
      OBVIOUS
  <2> QED
      BY <2>1
<1>3. /\ IsFiniteSet((i + 1) .. m)
      /\ Cardinality((i + 1) .. m) = IF i + 1 > m THEN 0 ELSE m - i
  <2>1. i + 1 \in Int /\ m \in Int /\ m - (i + 1) + 1 = m - i
      OBVIOUS
  <2> QED
      BY <2>1, FS_Interval
<1> HIDE DEF above
<1>4. /\ Cardinality(above) \in Nat
      /\ Cardinality(above) <= Cardinality((i + 1) .. m)
    BY <1>2, <1>3, FS_Subset, FS_CardinalityType
<1> QED
    BY <1>1, <1>3, <1>4

LEMMA PagesInvInit == PagesInit => PagesInv
<1> SUFFICES ASSUME PagesInit PROVE PagesInv
    OBVIOUS
<1>1. pageAt \in [Pages -> Nat] /\ syncing \subseteq Pages /\ GenerationsMatch
    BY DEF PagesInit, GenerationsMatch
<1>2. /\ loader = [r \in Loaders |-> loader[r]]
      /\ \A r \in Loaders : LoaderShape(loader[r]) /\ ReadsOne(loader[r])
    BY DEF PagesInit, LoaderShape, ReadsOne, NotLoading
<1>3. RecordInv
  <2>1. Cardinality(stats) = 0 /\ Len(recorded) = 0 /\ recorded \in Seq(Nat) /\ stats = {}
      BY FS_EmptySet DEF PagesInit
  <2> QED
      BY <2>1, PagesAssumption DEF RecordInv, AccessesKept
<1>4. today \in Nat /\ OneRecords
    BY DEF PagesInit, OneRecords, Recorder, NotLoading
<1> QED
    BY <1>1, <1>2, <1>3, <1>4 DEF PagesInv

RecordVars == <<stats, recorded, unread>>
PageVars == <<pageAt, syncing>>

LEMMA RecordRests == ASSUME RecordInv, UNCHANGED RecordVars PROVE RecordInv'
    BY DEF RecordVars, RecordInv, AccessesKept, Outlived

\* One load moves, beside pages and a record that stay.
LEMMA OneLoader ==
  ASSUME PagesInv, NEW r \in Loaders, NEW c, LoaderShape(c), ReadsOne(c), Turns(r, c),
         UNCHANGED PageVars, UNCHANGED RecordVars, UNCHANGED today,
         c.at = "recording" => Recorder = {} /\ c.kept \cup c.missed = stats
  PROVE  PagesInv'
<1>1. loader' = [loader EXCEPT ![r] = c] /\ loader = [q \in Loaders |-> loader[q]]
    BY DEF Turns, PagesInv
<1>2. /\ loader' = [q \in Loaders |-> loader'[q]]
      /\ \A q \in Loaders : loader'[q] = IF q = r THEN c ELSE loader[q]
    BY <1>1
<1>3. \A q \in Loaders : LoaderShape(loader'[q]) /\ ReadsOne(loader'[q])
    BY <1>2 DEF PagesInv
<1>4. (\A q \in Loaders : LoaderShape(loader[q]) /\ ReadsOne(loader[q]))'
    BY <1>3 DEF LoaderShape, ReadsOne, PageVars
<1>5. \A q \in Recorder' : (q = r /\ c.at = "recording") \/ (q # r /\ q \in Recorder)
    BY <1>2 DEF Recorder
<1>6. OneRecords'
    BY <1>2, <1>5 DEF OneRecords, PagesInv, RecordVars, Recorder
<1>7. RecordInv'
    BY RecordRests DEF PagesInv
<1> QED
    BY <1>2, <1>4, <1>6, <1>7 DEF PagesInv, GenerationsMatch, PageVars

LEMMA LoaderStep ==
  ASSUME PagesInv, NEW r \in Loaders,
         \/ \E pages \in SUBSET Pages \ {{}} : LoadStarts(r, pages)
         \/ \E p \in Pages : LoadPage(r, p)
         \/ ReadClock(r) \/ LoadEnds(r)
         \/ \E legible \in SUBSET stats : ReadStats(r, legible)
  PROVE  PagesInv'
<1> PICK b : b = loader[r]
    OBVIOUS
<1>1. LoaderShape(b) /\ ReadsOne(b)
    BY DEF PagesInv
<1>2. ASSUME NEW pages \in SUBSET Pages \ {{}}, LoadStarts(r, pages) PROVE PagesInv'
  <2>1. ASSUME UNCHANGED loader PROVE PagesInv'
    <3>1. UNCHANGED <<pageAt, syncing, loader, today, stats, recorded, unread>>
        BY <2>1, <1>2 DEF LoadStarts
    <3>2. RecordInv'
        BY <3>1, RecordRests DEF PagesInv, RecordVars
    <3> QED
        BY <3>1, <3>2 DEF PagesInv, GenerationsMatch, LoaderShape, ReadsOne, OneRecords, Recorder
  <2>2. ASSUME NEW locked \in BOOLEAN, locked => syncing = {},
               Turns(r, [NotLoading EXCEPT !.at = "loading", !.locked = locked, !.left = pages])
        PROVE  PagesInv'
    <3> DEFINE c == [at |-> "loading", locked |-> locked, left |-> pages, got |-> {},
                     kept |-> {}, missed |-> {}, day |-> 0]
    <3>1. ASSUME NEW x, x = [NotLoading EXCEPT !.at = "loading", !.locked = locked, !.left = pages]
          PROVE  x = c
        BY <3>1 DEF NotLoading
    <3>2. Turns(r, c) /\ UNCHANGED PageVars /\ UNCHANGED RecordVars /\ UNCHANGED today
        BY <3>1, <2>2, <1>2 DEF LoadStarts, PageVars, RecordVars
    <3>3. LoaderShape(c) /\ ReadsOne(c)
        BY <2>2 DEF LoaderShape, ReadsOne
    <3> QED
        BY <3>2, <3>3, OneLoader
  <2> QED
      BY <2>1, <2>2, <1>2 DEF LoadStarts
<1>3. ASSUME NEW p \in Pages, LoadPage(r, p) PROVE PagesInv'
  <2> DEFINE c == [at |-> "loading", locked |-> b.locked, left |-> b.left \ {p},
                   got |-> b.got \cup {pageAt[p]}, kept |-> b.kept, missed |-> b.missed,
                   day |-> b.day]
  <2>1. b.at = "loading"
      BY <1>3 DEF LoadPage
  <2>2. ASSUME NEW x, x = [b EXCEPT !.left = @ \ {p}, !.got = @ \cup {pageAt[p]}] PROVE x = c
      BY <2>1, <2>2, <1>1 DEF LoaderShape
  <2>3. Turns(r, c) /\ UNCHANGED PageVars /\ UNCHANGED RecordVars /\ UNCHANGED today
      BY <2>2, <1>3 DEF LoadPage, PageVars, RecordVars
  <2>4. b.locked => syncing = {} /\ b.got \subseteq {pageAt[p]} /\ \A q \in Pages : pageAt[q] = pageAt[p]
      BY <1>1 DEF ReadsOne, PagesInv, GenerationsMatch
  <2>5. b.locked => c.got = {pageAt[p]}
      BY <2>4
  <2>6. LoaderShape(c) /\ ReadsOne(c)
      BY <2>4, <2>5, <1>1 DEF LoaderShape, ReadsOne
  <2>7. c.at # "recording"
      OBVIOUS
  <2> HIDE DEF c
  <2> QED
      BY <2>3, <2>6, <2>7, OneLoader
<1>4. CASE ReadClock(r)
  <2> DEFINE c == [at |-> "dated", locked |-> b.locked, left |-> b.left, got |-> {},
                   kept |-> b.kept, missed |-> b.missed, day |-> today]
  <2>1. ASSUME NEW x, x = [b EXCEPT !.at = "dated", !.got = {}, !.day = today] PROVE x = c
      BY <2>1, <1>1 DEF LoaderShape
  <2>2. Turns(r, c) /\ UNCHANGED PageVars /\ UNCHANGED RecordVars /\ UNCHANGED today
      BY <2>1, <1>4 DEF ReadClock, PageVars, RecordVars
  <2>3. LoaderShape(c) /\ ReadsOne(c) /\ c.at # "recording"
      BY <1>1 DEF LoaderShape, ReadsOne, PagesInv
  <2> HIDE DEF c
  <2> QED
      BY <2>2, <2>3, OneLoader
<1>5. ASSUME NEW legible \in SUBSET stats, ReadStats(r, legible) PROVE PagesInv'
  <2> DEFINE c == [at |-> "recording", locked |-> b.locked, left |-> b.left, got |-> b.got,
                   kept |-> legible, missed |-> stats \ legible, day |-> b.day]
  <2>1. ASSUME NEW x, x = [b EXCEPT !.at = "recording", !.kept = legible, !.missed = stats \ legible]
        PROVE  x = c
      BY <2>1, <1>1 DEF LoaderShape
  <2>2. /\ Turns(r, c) /\ UNCHANGED PageVars /\ UNCHANGED RecordVars /\ UNCHANGED today
        /\ Recorder = {}
      BY <2>1, <1>5 DEF ReadStats, PageVars, RecordVars
  <2>3. LoaderShape(c) /\ ReadsOne(c) /\ c.kept \cup c.missed = stats
      BY <1>1 DEF LoaderShape, ReadsOne
  <2> HIDE DEF c
  <2> QED
      BY <2>2, <2>3, OneLoader
<1>6. CASE LoadEnds(r)
  <2>1. /\ Turns(r, NotLoading) /\ UNCHANGED PageVars /\ UNCHANGED RecordVars
        /\ UNCHANGED today
      BY <1>6 DEF LoadEnds, PageVars, RecordVars
  <2>2. LoaderShape(NotLoading) /\ ReadsOne(NotLoading) /\ NotLoading.at # "recording"
      BY DEF LoaderShape, ReadsOne, NotLoading
  <2> QED
      BY <2>1, <2>2, OneLoader
<1> QED
    BY <1>2, <1>3, <1>4, <1>5, <1>6

\* The file after a load was recorded: what was in it is there still, could not be read,
\* is outlived by the new line, or has as many later ones as there is room for.
LEMMA LinesAreKept ==
  ASSUME RecordInv, NEW kept, NEW missed, kept \cup missed = stats, NEW day \in Nat,
         recorded' = Append(recorded, day), unread' = unread \cup missed,
         stats' = LatestOf({i \in kept : recorded[i] + Ttl >= day} \cup {Len(recorded) + 1}, StatsCap)
  PROVE  RecordInv'
<1> DEFINE n == Len(recorded) + 1
           inTime == {i \in kept : recorded[i] + Ttl >= day}
           S == inTime \cup {n}
<1>1. /\ n \in Nat \ {0} /\ recorded' \in Seq(Nat) /\ Len(recorded') = n /\ recorded'[n] = day
      /\ \A i \in 1 .. Len(recorded) : recorded'[i] = recorded[i] /\ recorded[i] \in Nat
    BY AppendProperties DEF RecordInv
<1>2. S \subseteq 1 .. n /\ inTime \subseteq 1 .. Len(recorded)
  <2>1. kept \subseteq 1 .. Len(recorded) /\ inTime \subseteq kept
      BY DEF RecordInv
  <2>2. Len(recorded) \in Nat
      BY DEF RecordInv
  <2>3. ASSUME NEW k \in 1 .. Len(recorded) PROVE k \in 1 .. n
      BY <2>2
  <2>4. n \in 1 .. n
      BY <2>2
  <2> HIDE DEF inTime, n
  <2> QED
      BY <2>1, <2>3, <2>4
<1>3. S \in SUBSET Nat /\ IsFiniteSet(S)
  <2>1. IsFiniteSet(1 .. n) /\ 1 .. n \subseteq Nat
      BY <1>1, FS_Interval
  <2> HIDE DEF S
  <2>2. S \in SUBSET (1 .. n)
      BY <1>2
  <2> HIDE DEF n
  <2> QED
      BY <2>1, <2>2, FS_Subset
<1>4. StatsCap \in Nat \ {0} /\ Ttl \in Nat
    BY PagesAssumption
<1>5. stats' = LatestOf(S, StatsCap)
    OBVIOUS
<1>6. stats' \subseteq S /\ Cardinality(stats') <= StatsCap
  <2> HIDE DEF S
  <2> QED
      BY <1>3, <1>4, <1>5, LatestAreFew
<1>7. n \in stats'
  <2>1. {k \in S : k > n} = {}
      BY <1>1, <1>2
  <2>2. Cardinality({k \in S : k > n}) = 0
      BY <2>1, FS_EmptySet
  <2> QED
      BY <2>2, <1>4, <1>5 DEF LatestOf
<1>8. ASSUME NEW i \in stats' PROVE recorded'[i] + Ttl >= recorded'[Len(recorded')]
  <2>1. CASE i = n
      BY <2>1, <1>1, <1>4
  <2>2. CASE i \in inTime
      BY <2>2, <1>1, <1>2
  <2> QED
      BY <2>1, <2>2, <1>6
<1>9. ASSUME NEW i \in 1 .. Len(recorded')
      PROVE  i \in stats' \cup unread' \/ i + StatsCap <= Len(recorded') \/ Outlived(i)'
  <2>1. CASE i = n
      BY <2>1, <1>7
  <2>2. CASE i # n
    <3>1. i \in 1 .. Len(recorded) /\ i < n
        BY <2>2, <1>1
    <3>2. i \in stats \cup unread \/ i + StatsCap <= Len(recorded) \/ Outlived(i)
        BY <3>1 DEF RecordInv, AccessesKept
    <3>3. CASE i \in unread \/ i \in missed
        BY <3>3
    <3>4. CASE i + StatsCap <= Len(recorded)
        BY <3>4, <3>1, <1>1, <1>4
    <3>5. CASE Outlived(i)
      <4>1. PICK k \in (i + 1) .. Len(recorded) : recorded[i] + Ttl < recorded[k]
          BY <3>5 DEF Outlived
      <4>2. k \in (i + 1) .. Len(recorded') /\ recorded'[i] + Ttl < recorded'[k]
          BY <4>1, <3>1, <1>1
      <4> QED
          BY <4>2 DEF Outlived
    <3>6. CASE i \in kept /\ i \notin inTime
      <4>1. recorded'[i] + Ttl < recorded'[n] /\ n \in (i + 1) .. Len(recorded')
          BY <3>6, <3>1, <1>1, <1>4
      <4> QED
          BY <4>1 DEF Outlived
    <3>7. CASE i \in inTime
      <4>1. i \in S
          BY <3>7
      <4> HIDE DEF S
      <4>2. i \in stats' \/ i + StatsCap <= n
          BY <4>1, <1>1, <1>2, <1>4, <1>5, LeftOutAreOld
      <4> QED
          BY <4>2, <1>1
    <3> QED
        BY <3>2, <3>3, <3>4, <3>5, <3>6, <3>7
  <2> QED
      BY <2>1, <2>2
<1>10. stats' \subseteq 1 .. Len(recorded')
    BY <1>1, <1>2, <1>6
<1> QED
    BY <1>1, <1>6, <1>8, <1>9, <1>10 DEF RecordInv, AccessesKept

LEMMA RecordStep ==
  ASSUME PagesInv, NEW r \in Loaders, ReplaceStats(r) PROVE PagesInv'
<1> DEFINE kept == loader[r].kept
           missed == loader[r].missed
           day == loader[r].day
<1>1. r \in Recorder /\ kept \cup missed = stats /\ day \in Nat
    BY DEF ReplaceStats, Recorder, PagesInv, OneRecords, ReadsOne
<1>2. /\ recorded' = Append(recorded, day) /\ unread' = unread \cup missed
      /\ stats' = LatestOf({i \in kept : recorded[i] + Ttl >= day} \cup {Len(recorded) + 1}, StatsCap)
      /\ loader' = [loader EXCEPT ![r] = NotLoading] /\ UNCHANGED PageVars /\ UNCHANGED today
    BY DEF ReplaceStats, Turns, PageVars
<1> HIDE DEF kept, missed, day
<1>3. RecordInv
    BY DEF PagesInv
<1>4. RecordInv'
    BY <1>1, <1>2, <1>3, LinesAreKept
<1>5. loader = [q \in Loaders |-> loader[q]]
    BY DEF PagesInv
<1>6. /\ loader' = [q \in Loaders |-> loader'[q]]
      /\ \A q \in Loaders : loader'[q] = IF q = r THEN NotLoading ELSE loader[q]
    BY <1>2, <1>5
<1>7. (\A q \in Loaders : LoaderShape(loader[q]) /\ ReadsOne(loader[q]))'
    BY <1>2, <1>6 DEF PagesInv, LoaderShape, ReadsOne, NotLoading, PageVars
<1>8. Recorder' = {}
  <2> SUFFICES ASSUME NEW q \in Recorder' PROVE FALSE
      OBVIOUS
  <2>1. q \in Loaders /\ loader'[q].at = "recording"
      BY DEF Recorder
  <2>2. q # r
      BY <2>1, <1>6 DEF NotLoading
  <2>3. q \in Recorder
      BY <2>1, <2>2, <1>6 DEF Recorder
  <2> QED
      BY <2>2, <2>3, <1>1 DEF PagesInv, OneRecords
<1>9. OneRecords'
    BY <1>8 DEF OneRecords
<1> QED
    BY <1>2, <1>4, <1>6, <1>7, <1>9 DEF PagesInv, GenerationsMatch, PageVars

LEMMA PagesInvStep == PagesInv /\ [PagesNext]_pagesVars => PagesInv'
<1> SUFFICES ASSUME PagesInv, [PagesNext]_pagesVars PROVE PagesInv'
    OBVIOUS
<1>1. CASE SyncPages
  <2>1. /\ syncing = {} /\ syncing' = Pages /\ pageAt' = pageAt /\ UNCHANGED RecordVars
        /\ loader' = loader /\ today' = today /\ \A r \in Loaders : ~loader[r].locked
      BY <1>1 DEF SyncPages, SharedHolders, RecordVars
  <2>2. GenerationsMatch'
      BY <2>1 DEF PagesInv, GenerationsMatch
  <2>3. (\A r \in Loaders : LoaderShape(loader[r]) /\ ReadsOne(loader[r]))'
      BY <2>1 DEF PagesInv, LoaderShape, ReadsOne
  <2>4. RecordInv'
      BY <2>1, RecordRests DEF PagesInv
  <2> QED
      BY <2>1, <2>2, <2>3, <2>4 DEF PagesInv, OneRecords, Recorder, RecordVars
<1>2. ASSUME NEW p \in Pages, CopyPage(p) PROVE PagesInv'
  <2>1. /\ p \in syncing /\ syncing' = syncing \ {p} /\ pageAt' = [pageAt EXCEPT ![p] = @ + 1]
        /\ UNCHANGED RecordVars /\ loader' = loader /\ today' = today
        /\ pageAt \in [Pages -> Nat]
      BY <1>2 DEF CopyPage, RecordVars, PagesInv
  <2>2. pageAt' \in [Pages -> Nat] /\ GenerationsMatch'
      BY <2>1 DEF PagesInv, GenerationsMatch
  <2>3. (\A r \in Loaders : LoaderShape(loader[r]) /\ ReadsOne(loader[r]))'
      BY <2>1 DEF PagesInv, LoaderShape, ReadsOne
  <2>4. RecordInv'
      BY <2>1, RecordRests DEF PagesInv
  <2> QED
      BY <2>1, <2>2, <2>3, <2>4 DEF PagesInv, OneRecords, Recorder, RecordVars
<1>3. ASSUME NEW r \in Loaders,
             \/ \E pages \in SUBSET Pages \ {{}} : LoadStarts(r, pages)
             \/ \E p \in Pages : LoadPage(r, p)
             \/ ReadClock(r) \/ LoadEnds(r)
             \/ \E legible \in SUBSET stats : ReadStats(r, legible)
      PROVE  PagesInv'
    BY <1>3, LoaderStep
<1>4. ASSUME NEW r \in Loaders, ReplaceStats(r) PROVE PagesInv'
    BY <1>4, RecordStep
<1>5. CASE DayPasses
  <2>1. UNCHANGED <<pageAt, syncing, loader>> /\ UNCHANGED RecordVars /\ today' \in Nat
      BY <1>5 DEF DayPasses, PagesInv, RecordVars
  <2>2. RecordInv'
      BY <2>1, RecordRests DEF PagesInv
  <2> QED
      BY <2>1, <2>2 DEF PagesInv, GenerationsMatch, LoaderShape, ReadsOne, OneRecords, Recorder,
         RecordVars
<1>6. CASE UNCHANGED pagesVars
  <2>1. RecordInv'
      BY <1>6, RecordRests DEF pagesVars, PagesInv, RecordVars
  <2> QED
      BY <1>6, <2>1 DEF pagesVars, PagesInv, GenerationsMatch, LoaderShape, ReadsOne, OneRecords,
         Recorder
<1> QED
    BY <1>1, <1>2, <1>3, <1>4, <1>5, <1>6 DEF PagesNext

LEMMA PagesHold == PagesInv => PagesSound
<1> SUFFICES ASSUME PagesInv PROVE PagesSound
    OBVIOUS
<1>1. ASSUME NEW r \in Loaders, loader[r].locked PROVE Cardinality(loader[r].got) <= 1
  <2>1. loader[r].got = {} \/ \E g : loader[r].got = {g}
      BY <1>1 DEF PagesInv, ReadsOne
  <2>2. \A g : Cardinality({g}) = 1
      BY FS_Singleton
  <2>3. CASE loader[r].got = {}
      BY <2>3, FS_EmptySet
  <2>4. ASSUME NEW g, loader[r].got = {g} PROVE Cardinality(loader[r].got) <= 1
    <3>1. Cardinality(loader[r].got) = 1
        BY <2>2, <2>4
    <3> QED
        BY <3>1
  <2> QED
      BY <2>1, <2>3, <2>4
<1> QED
    BY <1>1 DEF PagesSound, LoadsWhole, PagesInv, RecordInv

\* A cache that is found fresh holds the index that is there, although neither the
\* tool that copies it nor a search that builds the cache waits for the other (cache.rs);
\* the pages a load reads under the lock are of one generation, and a load's line in the
\* access record is lost to age, to the file's size or to a file nobody can read, never
\* to another load (load.rs): for any number of searches, loads, copies and kills, any
\* sizes of the files, and any number of days.
THEOREM IndexIsSound == IndexSpec /\ PagesSpec => []IndexSound
<1>1. IndexSpec => []FreshIsTrue
    BY IndexInvInit, IndexInvStep, FreshHolds, PTL DEF IndexSpec
<1>2. PagesSpec => []PagesSound
    BY PagesInvInit, PagesInvStep, PagesHold, PTL DEF PagesSpec
<1> QED
    BY <1>1, <1>2, PTL DEF IndexSound

-----------------------------------------------------------------------------
(* The working state of a scope (WorkingState).                            *)

RecorderSteps ==
  {"idle", "name", "copy", "list", "prune", "create", "read", "file", "ended", "failed"}
RecorderStates ==
  [at : RecorderSteps, final : BOOLEAN, text : Nat, seen : Int, name : Nat, doomed : SUBSET Nat]
Copies == [name : Nat, of : Int, there : BOOLEAN]
Filed == [name : Int, of : Int]
WrittenOver == [of : Int, seen : Int, final : BOOLEAN]

WorkingShape ==
  /\ working \in Int /\ checkpoints \in Seq(Copies) /\ archive \subseteq Filed
  /\ recorder \in [Recorders -> RecorderStates]
  /\ renderings \in Nat /\ crashes \in Nat /\ replaced \subseteq WrittenOver

CopyIsKept(text) == \E i \in 1 .. Len(checkpoints) : checkpoints[i].of = text
Over(text) == \E w \in replaced : w.of = text

\* What a run knows and has promised at each of its steps.
RunInv(c) ==
  /\ c.at \notin {"idle", "failed"} => c.text > 0
  /\ \A i \in c.doomed : i <= Len(checkpoints) - CheckpointsKept
  /\ c.at \in {"list", "prune"} /\ ~c.final /\ c.seen # 0 => CopyIsKept(c.seen)
  /\ c.at = "read" => c.text = working \/ Over(c.text)
  /\ c.at = "file" => c.text = c.seen \/ Over(c.text)
  /\ c.at = "ended" => \/ [name |-> c.text, of |-> c.text] \in archive
                       \/ [name |-> c.text, of |-> -c.text] \in archive /\ crashes > 0
                       \/ Over(c.text)
  /\ c.at \in {"read", "file", "ended"} => working > 0

\* What the files say by themselves.
NewestThere ==
  \A i \in 1 .. Len(checkpoints) : i > Len(checkpoints) - CheckpointsKept => checkpoints[i].there
FilesInv ==
  /\ NewestThere
  /\ \A w \in replaced : w.of # 0 /\ (~w.final /\ w.of = w.seen => CopyIsKept(w.of))
  /\ \A a \in archive : a.of = a.name \/ (a.of = -a.name /\ crashes > 0)
  /\ working <= 0 => replaced = {} /\ archive = {}

WorkingInv ==
  /\ WorkingShape /\ FilesInv
  /\ \A r \in Recorders : RunInv(recorder[r])

\* A copy keeps its place and its text, what is written over or filed stays so, and a
\* state goes only when another is written over it.
FilesGrow ==
  /\ Len(checkpoints) <= Len(checkpoints')
  /\ \A i \in 1 .. Len(checkpoints) : checkpoints'[i].of = checkpoints[i].of
  /\ replaced \subseteq replaced' /\ archive \subseteq archive' /\ crashes <= crashes'
  /\ working > 0 => working' > 0 /\ (working' = working \/ \E w \in replaced' : w.of = working)

LEMMA GrowthKeepsRun ==
  ASSUME WorkingShape, WorkingShape', FilesGrow, NEW c \in RecorderStates, RunInv(c)
  PROVE  RunInv(c)'
<1>1. \A text : CopyIsKept(text) => CopyIsKept(text)'
  <2> SUFFICES ASSUME NEW text, NEW i \in 1 .. Len(checkpoints), checkpoints[i].of = text
               PROVE  \E j \in 1 .. Len(checkpoints') : checkpoints'[j].of = text
      BY DEF CopyIsKept
  <2>1. Len(checkpoints) \in Nat /\ Len(checkpoints') \in Nat
      BY DEF WorkingShape
  <2>2. i \in 1 .. Len(checkpoints') /\ checkpoints'[i].of = text
      BY <2>1 DEF FilesGrow
  <2> QED
      BY <2>2
<1>2. \A text : Over(text) => Over(text)'
    BY DEF Over, FilesGrow
<1>3. /\ Len(checkpoints) \in Nat /\ Len(checkpoints') \in Nat /\ CheckpointsKept \in Nat
      /\ \A i \in c.doomed : i \in Nat
    BY WorkingAssumption DEF WorkingShape, RecorderStates
<1>4. \A i \in c.doomed : i <= Len(checkpoints') - CheckpointsKept
  <2>1. \A i \in c.doomed : i <= Len(checkpoints) - CheckpointsKept
      BY DEF RunInv
  <2>2. Len(checkpoints) <= Len(checkpoints')
      BY DEF FilesGrow
  <2> QED
      BY <2>1, <2>2, <1>3
<1>5. c.at = "read" => c.text = working' \/ Over(c.text)'
    BY <1>2 DEF RunInv, FilesGrow, Over
<1>6. c.at = "ended" => \/ [name |-> c.text, of |-> c.text] \in archive'
                        \/ [name |-> c.text, of |-> -c.text] \in archive' /\ crashes' > 0
                        \/ Over(c.text)'
  <2>1. crashes > 0 => crashes' > 0
      BY DEF FilesGrow, WorkingShape
  <2> QED
      BY <2>1, <1>2 DEF RunInv, FilesGrow
<1>7. c.at \in {"read", "file", "ended"} => working' > 0
    BY DEF RunInv, FilesGrow
<1> QED
    BY <1>1, <1>2, <1>4, <1>5, <1>6, <1>7 DEF RunInv

LEMMA WorkingInvInit == WorkingInit => WorkingInv
<1> SUFFICES ASSUME WorkingInit PROVE WorkingInv
    OBVIOUS
<1>1. WorkingShape
    BY DEF WorkingInit, WorkingShape, NoRecorder, RecorderStates, RecorderSteps
<1>2. FilesInv
    BY DEF WorkingInit, FilesInv, NewestThere
<1>3. \A r \in Recorders : RunInv(recorder[r])
    BY DEF WorkingInit, RunInv, NoRecorder
<1> QED
    BY <1>1, <1>2, <1>3 DEF WorkingInv

\* One run moves, and what the others know stays true.
LEMMA OneRun ==
  ASSUME WorkingInv, NEW r \in Recorders, NEW c \in RecorderStates,
         recorder' = [recorder EXCEPT ![r] = c],
         working' \in Int, checkpoints' \in Seq(Copies), archive' \subseteq Filed,
         renderings' \in Nat, crashes' \in Nat, replaced' \subseteq WrittenOver,
         FilesGrow, FilesInv', RunInv(c)'
  PROVE  WorkingInv'
<1>1. WorkingShape'
    BY DEF WorkingInv, WorkingShape
<1>2. ASSUME NEW q \in Recorders PROVE RunInv(recorder[q])'
  <2>1. CASE q = r
    <3>1. recorder'[q] = c
        BY <2>1 DEF WorkingInv, WorkingShape
    <3> QED
        BY <3>1 DEF RunInv, CopyIsKept, Over
  <2>2. CASE q # r
    <3> PICK d : d = recorder[q]
        OBVIOUS
    <3>1. d \in RecorderStates /\ RunInv(d)
        BY DEF WorkingInv, WorkingShape
    <3>2. recorder'[q] = d
        BY <2>2 DEF WorkingInv, WorkingShape
    <3>3. RunInv(d)'
        BY <3>1, <1>1, GrowthKeepsRun DEF WorkingInv
    <3> QED
        BY <3>2, <3>3 DEF RunInv, CopyIsKept, Over
  <2> QED
      BY <2>1, <2>2
<1> QED
    BY <1>1, <1>2 DEF WorkingInv
LEMMA FilesRest ==
  ASSUME WorkingInv, NEW r \in Recorders, NEW c \in RecorderStates,
         recorder' = [recorder EXCEPT ![r] = c],
         UNCHANGED <<working, checkpoints, archive, crashes, replaced>>, renderings' \in Nat,
         RunInv(c)
  PROVE  WorkingInv'
<1>1. FilesGrow
    BY DEF FilesGrow, WorkingInv, WorkingShape
<1>2. FilesInv'
    BY DEF WorkingInv, FilesInv, NewestThere, CopyIsKept
<1>3. RunInv(c)'
    BY DEF RunInv, CopyIsKept, Over
<1> QED
    BY <1>1, <1>2, <1>3, OneRun DEF WorkingInv, WorkingShape

FileVars == <<working, checkpoints, archive, crashes, replaced>>

\* A run that starts over, or fails, has promised nothing.
LEMMA NothingPromised ==
  ASSUME NEW c \in RecorderStates, c.at \in {"idle", "failed"}, c.doomed = {} PROVE RunInv(c)
  BY DEF RunInv

LEMMA FailKeeps == ASSUME WorkingInv, NEW r \in Recorders, Fail(r) PROVE WorkingInv'
<1>0. PICK c : c = [NoRecorder EXCEPT !.at = "failed"]
    OBVIOUS
<1>1. c \in RecorderStates /\ c.at = "failed" /\ c.doomed = {}
  <2>1. c = [at |-> "failed", final |-> FALSE, text |-> 0, seen |-> 0, name |-> 0, doomed |-> {}]
      BY <1>0 DEF NoRecorder
  <2>2. "failed" \in RecorderSteps /\ FALSE \in BOOLEAN /\ 0 \in Nat /\ 0 \in Int
      BY DEF RecorderSteps
  <2>3. {} \in SUBSET Nat
      OBVIOUS
  <2>4. c \in RecorderStates
      BY <2>1, <2>2, <2>3 DEF RecorderStates
  <2>5. c.at = "failed" /\ c.doomed = {}
      BY <2>1
  <2> QED
      BY <2>4, <2>5
<1>2. recorder' = [recorder EXCEPT ![r] = c] /\ UNCHANGED FileVars /\ renderings' = renderings
    BY <1>0 DEF Fail, FileVars
<1> QED
    BY <1>1, <1>2, NothingPromised, FilesRest DEF FileVars, WorkingInv, WorkingShape

LEMMA RestartKeeps ==
  ASSUME WorkingInv, NEW r \in Recorders, NextRun(r) PROVE WorkingInv'
<1>1. NoRecorder \in RecorderStates /\ NoRecorder.at = "idle" /\ NoRecorder.doomed = {}
    BY DEF NoRecorder, RecorderStates, RecorderSteps
<1>2. recorder' = [recorder EXCEPT ![r] = NoRecorder] /\ UNCHANGED FileVars
      /\ renderings' = renderings
    BY DEF NextRun, FileVars
<1> QED
    BY <1>1, <1>2, NothingPromised, FilesRest DEF FileVars, WorkingInv, WorkingShape

LEMMA WriteStateKeeps ==
  ASSUME WorkingInv, NEW r \in Recorders, NEW final \in BOOLEAN, WriteState(r, final)
  PROVE  WorkingInv'
<1> PICK step, seen : /\ step = IF ~final /\ working # 0 THEN "name" ELSE "list"
                      /\ seen = IF final THEN 0 ELSE working
    OBVIOUS
<1>0. PICK c : c = [NoRecorder EXCEPT !.at = step, !.final = final, !.text = Rendered, !.seen = seen]
    OBVIOUS
<1>1. /\ renderings \in Nat /\ working \in Int /\ Rendered \in Nat /\ Rendered > 0
      /\ seen \in Int /\ step \in {"name", "list"}
    BY DEF WorkingInv, WorkingShape, Rendered
<1>2. c = [at |-> step, final |-> final, text |-> Rendered, seen |-> seen, name |-> 0, doomed |-> {}]
    BY <1>0 DEF NoRecorder
<1>3. /\ c \in RecorderStates /\ c.at = step /\ c.final = final /\ c.text = Rendered
      /\ c.seen = seen /\ c.doomed = {}
  <2>1. /\ step \in RecorderSteps
        /\ Rendered \in Nat /\ seen \in Int
      BY <1>1 DEF RecorderSteps
  <2>2. {} \in SUBSET Nat /\ 0 \in Nat
      OBVIOUS
  <2>3. c \in RecorderStates
      BY <1>2, <2>1, <2>2 DEF RecorderStates
  <2>4. c.at = step /\ c.final = final /\ c.text = Rendered /\ c.seen = seen /\ c.doomed = {}
      BY <1>2
  <2> QED
      BY <2>3, <2>4
<1>4. recorder' = [recorder EXCEPT ![r] = c] /\ UNCHANGED FileVars /\ renderings' \in Nat
    BY <1>0, <1>1 DEF WriteState, FileVars
<1>5. c.at = "list" => c.final \/ c.seen = 0
    BY <1>3
<1>6. RunInv(c)
    BY <1>1, <1>3, <1>5 DEF RunInv
<1> QED
    BY <1>3, <1>4, <1>6, FilesRest DEF FileVars

LEMMA UniqueNameKeeps ==
  ASSUME WorkingInv, NEW r \in Recorders, UniqueName(r) PROVE WorkingInv'
<1> PICK b : b = recorder[r]
    OBVIOUS
<1>1. b \in RecorderStates /\ RunInv(b) /\ b.at = "name"
    BY DEF WorkingInv, WorkingShape, UniqueName, At
<1>2. PICK n \in 0 .. Len(checkpoints) :
        recorder' = [recorder EXCEPT ![r].at = "copy", ![r].name = n]
    BY DEF UniqueName
<1> DEFINE c == [b EXCEPT !.at = "copy", !.name = n]
<1>3. recorder' = [recorder EXCEPT ![r] = c] /\ UNCHANGED FileVars /\ renderings' = renderings
    BY <1>2 DEF UniqueName, FileVars
<1>4. n \in Nat
    OBVIOUS
<1>5. /\ c \in RecorderStates /\ c.at = "copy" /\ c.text = b.text /\ c.doomed = b.doomed
    BY <1>1, <1>4 DEF RecorderStates, RecorderSteps
<1> HIDE DEF c
<1>6. RunInv(c)
    BY <1>1, <1>5 DEF RunInv
<1> QED
    BY <1>3, <1>5, <1>6, FilesRest DEF FileVars, WorkingInv, WorkingShape

\* A copy goes at the end, and all that is there stays where it is.
LEMMA CopyIsAdded ==
  ASSUME WorkingInv, NEW r \in Recorders, NEW text \in Int, checkpoints' = CopyOf(r, text)
  PROVE  /\ checkpoints' \in Seq(Copies) /\ Len(checkpoints') = Len(checkpoints) + 1
         /\ \A i \in 1 .. Len(checkpoints) : checkpoints'[i] = checkpoints[i]
         /\ checkpoints'[Len(checkpoints) + 1].of = text
         /\ NewestThere'
<1> DEFINE copy == [name |-> recorder[r].name, of |-> text, there |-> TRUE]
<1>1. copy \in Copies /\ copy.of = text /\ copy.there
    BY DEF WorkingInv, WorkingShape, RecorderStates, Copies
<1>2. checkpoints \in Seq(Copies) /\ Len(checkpoints) \in Nat /\ CheckpointsKept \in Nat
    BY WorkingAssumption DEF WorkingInv, WorkingShape
<1>3. checkpoints' = Append(checkpoints, copy)
    BY DEF CopyOf
<1> HIDE DEF copy
<1>4. /\ checkpoints' \in Seq(Copies) /\ Len(checkpoints') = Len(checkpoints) + 1
      /\ \A i \in 1 .. Len(checkpoints) : checkpoints'[i] = checkpoints[i]
      /\ checkpoints'[Len(checkpoints) + 1] = copy
    BY <1>1, <1>2, <1>3, AppendProperties
<1>5. NewestThere'
  <2> SUFFICES ASSUME NEW i \in 1 .. Len(checkpoints'), i > Len(checkpoints') - CheckpointsKept
               PROVE  checkpoints'[i].there
      BY DEF NewestThere
  <2>1. CASE i = Len(checkpoints) + 1
      BY <2>1, <1>1, <1>4
  <2>2. CASE i # Len(checkpoints) + 1
    <3>1. i \in 1 .. Len(checkpoints) /\ i > Len(checkpoints) - CheckpointsKept
        BY <2>2, <1>2, <1>4
    <3> QED
        BY <3>1, <1>4 DEF WorkingInv, FilesInv, NewestThere
  <2> QED
      BY <2>1, <2>2
<1> QED
    BY <1>1, <1>4, <1>5

LEMMA CopyGrows ==
  ASSUME WorkingInv, NEW r \in Recorders, NEW text \in Int, checkpoints' = CopyOf(r, text),
         UNCHANGED <<working, archive, replaced>>, crashes' \in Nat, crashes <= crashes'
  PROVE  checkpoints' \in Seq(Copies) /\ FilesGrow /\ FilesInv' /\ CopyIsKept(text)'
<1>1. /\ checkpoints' \in Seq(Copies) /\ Len(checkpoints') = Len(checkpoints) + 1
      /\ \A i \in 1 .. Len(checkpoints) : checkpoints'[i] = checkpoints[i]
      /\ checkpoints'[Len(checkpoints) + 1].of = text
      /\ NewestThere'
    BY CopyIsAdded
<1>2. Len(checkpoints) \in Nat
    BY DEF WorkingInv, WorkingShape
<1>3. FilesGrow
    BY <1>1, <1>2 DEF FilesGrow
<1>4. \A t : CopyIsKept(t) => CopyIsKept(t)'
    BY <1>1, <1>2 DEF CopyIsKept
<1>5. CopyIsKept(text)'
    BY <1>1, <1>2 DEF CopyIsKept
<1>6. crashes > 0 => crashes' > 0
    BY DEF WorkingInv, WorkingShape
<1>7. FilesInv'
    BY <1>1, <1>4, <1>6 DEF WorkingInv, FilesInv
<1> QED
    BY <1>1, <1>3, <1>5, <1>7

LEMMA WriteCopyKeeps ==
  ASSUME WorkingInv, NEW r \in Recorders, WriteCopy(r) PROVE WorkingInv'
<1> PICK b : b = recorder[r]
    OBVIOUS
<1>1. b \in RecorderStates /\ RunInv(b) /\ b.at = "copy"
    BY DEF WorkingInv, WorkingShape, WriteCopy, At
<1>2. SUFFICES ASSUME /\ checkpoints' = CopyOf(r, b.seen) /\ Goto(r, "list")
                      /\ UNCHANGED <<working, archive, renderings, crashes, replaced>>
               PROVE  WorkingInv'
    BY FailKeeps DEF WriteCopy
<1> DEFINE c == [b EXCEPT !.at = "list"]
<1>3. recorder' = [recorder EXCEPT ![r] = c]
    BY <1>2 DEF Goto
<1>4. /\ c \in RecorderStates /\ c.at = "list" /\ c.text = b.text /\ c.doomed = b.doomed
      /\ c.seen = b.seen /\ b.seen \in Int
    BY <1>1 DEF RecorderStates, RecorderSteps
<1> HIDE DEF c
<1>5. checkpoints' \in Seq(Copies) /\ FilesGrow /\ FilesInv' /\ CopyIsKept(b.seen)'
    BY <1>2, <1>4, CopyGrows DEF WorkingInv, WorkingShape
<1>6. /\ Len(checkpoints) \in Nat /\ Len(checkpoints') \in Nat /\ CheckpointsKept \in Nat
      /\ Len(checkpoints) <= Len(checkpoints') /\ \A i \in b.doomed : i \in Nat
    BY <1>1, <1>5, WorkingAssumption DEF WorkingInv, WorkingShape, FilesGrow, RecorderStates
<1>7. RunInv(c)'
    BY <1>1, <1>4, <1>5, <1>6 DEF RunInv
<1> QED
    BY <1>2, <1>3, <1>4, <1>5, <1>7, OneRun DEF WorkingInv, WorkingShape

\* What is beyond the newest that are kept is old whoever removed what lies between.
LEMMA DoomedAreOld ==
  ASSUME WorkingShape, NEW i \in Doomed(Present)
  PROVE  i \in 1 .. Len(checkpoints) /\ i <= Len(checkpoints) - CheckpointsKept
<1> DEFINE later == {j \in Present : j > i}
           m == Len(checkpoints)
<1>1. i \in 1 .. m /\ m \in Nat /\ Cardinality(later) >= CheckpointsKept
    BY DEF Doomed, Present, WorkingShape
<1>2. later \subseteq (i + 1) .. m
    BY <1>1 DEF Present
<1>3. i + 1 \in Int /\ m \in Int /\ i \in Int
    BY <1>1
<1>4. IsFiniteSet((i + 1) .. m) /\ Cardinality((i + 1) .. m) = m - i
  <2> HIDE DEF m
  <2>1. IsFiniteSet((i + 1) .. m)
        /\ Cardinality((i + 1) .. m) = IF i + 1 > m THEN 0 ELSE m - (i + 1) + 1
      BY <1>3, FS_Interval
  <2> QED
      BY <2>1, <1>1, <1>3
<1>5. IsFiniteSet(later) /\ Cardinality(later) <= m - i
    BY <1>2, <1>4, FS_Subset
<1>6. Cardinality(later) \in Nat
    BY <1>5, FS_CardinalityType
<1> HIDE DEF later, m
<1>7. i <= m - CheckpointsKept
    BY <1>1, <1>5, <1>6, WorkingAssumption
<1> QED
    BY <1>1, <1>7 DEF m

LEMMA ListCopiesKeeps ==
  ASSUME WorkingInv, NEW r \in Recorders, ListCopies(r) PROVE WorkingInv'
<1> PICK b : b = recorder[r]
    OBVIOUS
<1>1. b \in RecorderStates /\ RunInv(b) /\ b.at = "list"
    BY DEF WorkingInv, WorkingShape, ListCopies, At
<1>2. /\ Doomed(Present) \subseteq Nat
      /\ \A i \in Doomed(Present) : i <= Len(checkpoints) - CheckpointsKept
    BY DoomedAreOld DEF WorkingInv
<1> DEFINE c == [b EXCEPT !.at = "prune", !.doomed = Doomed(Present)]
<1>3. recorder' = [recorder EXCEPT ![r] = c] /\ UNCHANGED FileVars /\ renderings' = renderings
    BY DEF ListCopies, FileVars
<1>4. /\ c \in RecorderStates /\ c.at = "prune" /\ c.text = b.text /\ c.seen = b.seen
      /\ c.final = b.final /\ c.doomed = Doomed(Present)
    BY <1>1, <1>2 DEF RecorderStates, RecorderSteps
<1> HIDE DEF c
<1>5. RunInv(c)
    BY <1>1, <1>2, <1>4 DEF RunInv
<1> QED
    BY <1>3, <1>4, <1>5, FilesRest DEF FileVars, WorkingInv, WorkingShape

LEMMA RemoveCopyKeeps ==
  ASSUME WorkingInv, NEW r \in Recorders, RemoveCopy(r) PROVE WorkingInv'
<1> PICK b : b = recorder[r]
    OBVIOUS
<1>1. b \in RecorderStates /\ RunInv(b) /\ b.at = "prune"
    BY DEF WorkingInv, WorkingShape, RemoveCopy, At
<1>2. SUFFICES ASSUME NEW i \in b.doomed, i \in Present,
                      checkpoints' = [checkpoints EXCEPT ![i].there = FALSE],
                      recorder' = [recorder EXCEPT ![r].doomed = @ \ {i}],
                      UNCHANGED <<working, archive, renderings, crashes, replaced>>
               PROVE  WorkingInv'
    BY FailKeeps DEF RemoveCopy
<1> DEFINE c == [b EXCEPT !.doomed = @ \ {i}]
<1>3. recorder' = [recorder EXCEPT ![r] = c]
    BY <1>2
<1>4. /\ c \in RecorderStates /\ c.at = "prune" /\ c.text = b.text /\ c.seen = b.seen
      /\ c.final = b.final /\ c.doomed = b.doomed \ {i}
    BY <1>1 DEF RecorderStates, RecorderSteps
<1> HIDE DEF c
<1>5. /\ i \in 1 .. Len(checkpoints) /\ checkpoints \in Seq(Copies)
      /\ i <= Len(checkpoints) - CheckpointsKept
    BY <1>1, <1>2 DEF Present, WorkingInv, WorkingShape, RunInv
<1> DEFINE gone == [checkpoints[i] EXCEPT !.there = FALSE]
<1>6. checkpoints[i] \in Copies /\ checkpoints' = [checkpoints EXCEPT ![i] = gone]
    BY <1>2, <1>5
<1>7. gone \in Copies /\ gone.of = checkpoints[i].of
    BY <1>6 DEF Copies
<1> HIDE DEF gone
<1>8. /\ checkpoints' \in Seq(Copies) /\ Len(checkpoints') = Len(checkpoints)
      /\ \A j \in 1 .. Len(checkpoints) :
           checkpoints'[j] = IF j = i THEN gone ELSE checkpoints[j]
    BY <1>5, <1>6, <1>7, ExceptSeq
<1>9. FilesGrow
    BY <1>2, <1>7, <1>8 DEF FilesGrow, WorkingInv, WorkingShape
<1>10. \A t : CopyIsKept(t) => CopyIsKept(t)'
    BY <1>7, <1>8 DEF CopyIsKept
<1>11. NewestThere'
    BY <1>5, <1>8, WorkingAssumption DEF NewestThere, WorkingInv, FilesInv
<1>12. FilesInv'
    BY <1>2, <1>10, <1>11 DEF WorkingInv, FilesInv
<1>13. RunInv(c)
    BY <1>1, <1>4 DEF RunInv
<1>14. RunInv(c)'
    BY <1>2, <1>4, <1>8, <1>10, <1>13 DEF RunInv, Over
<1> QED
    BY <1>2, <1>3, <1>4, <1>8, <1>9, <1>12, <1>14, OneRun DEF WorkingInv, WorkingShape

\* A state is written: over none, over one that was cut off, or over one that is then
\* known to have been written over.
LEMMA StateIsWritten ==
  ASSUME WorkingInv, NEW r \in Recorders, NEW b \in RecorderStates, b = recorder[r],
         NEW c \in RecorderStates, recorder' = [recorder EXCEPT ![r] = c],
         c.text = b.text, c.seen = b.seen, c.doomed = b.doomed, c.at = AfterWrite(r),
         c.final = b.final, b.at \in {"prune", "create"}, working' = b.text,
         UNCHANGED <<checkpoints, archive, renderings, crashes>>,
         replaced' \subseteq WrittenOver, replaced \subseteq replaced',
         \A w \in replaced' \ replaced : w.of # 0 /\ (~w.final /\ w.of = w.seen => CopyIsKept(w.of)),
         working > 0 => \E w \in replaced' : w.of = working
  PROVE  WorkingInv'
<1>1. RunInv(b) /\ b.text \in Nat /\ b.text > 0 /\ c.at \in {"read", "idle"}
  <2>1. RunInv(b) /\ b.text \in Nat
      BY DEF WorkingInv, WorkingShape, RecorderStates
  <2>2. b.text > 0
      BY <2>1 DEF RunInv
  <2> QED
      BY <2>1, <2>2 DEF AfterWrite
<1>2. FilesGrow
    BY <1>1 DEF FilesGrow, WorkingInv, WorkingShape
<1>3. \A t : CopyIsKept(t)' <=> CopyIsKept(t)
    BY DEF CopyIsKept
<1>4. FilesInv'
  <2>1. NewestThere'
      BY DEF WorkingInv, FilesInv, NewestThere
  <2>2. \A w \in replaced' : w.of # 0 /\ (~w.final /\ w.of = w.seen => CopyIsKept(w.of)')
      BY <1>3 DEF WorkingInv, FilesInv
  <2>3. \A a \in archive' : a.of = a.name \/ (a.of = -a.name /\ crashes' > 0)
      BY DEF WorkingInv, FilesInv
  <2>4. ~(working' <= 0)
      BY <1>1
  <2> QED
      BY <2>1, <2>2, <2>3, <2>4 DEF FilesInv
<1>5. RunInv(c)'
    BY <1>1 DEF RunInv
<1>6. /\ working' \in Int /\ checkpoints' \in Seq(Copies) /\ archive' \subseteq Filed
      /\ renderings' \in Nat /\ crashes' \in Nat
    BY <1>1 DEF WorkingInv, WorkingShape
<1> QED
    BY <1>2, <1>4, <1>5, <1>6, OneRun

LEMMA ReplaceStateKeeps ==
  ASSUME WorkingInv, NEW r \in Recorders, ReplaceState(r) PROVE WorkingInv'
<1> PICK b : b = recorder[r]
    OBVIOUS
<1>1. b \in RecorderStates /\ RunInv(b) /\ b.at = "prune" /\ b.doomed = {}
    BY DEF WorkingInv, WorkingShape, ReplaceState, At
<1> PICK step : step = AfterWrite(r)
    OBVIOUS
<1> PICK c : c = [b EXCEPT !.at = step]
    OBVIOUS
<1>2. recorder' = [recorder EXCEPT ![r] = c]
    BY DEF ReplaceState, Goto
<1>3. step \in RecorderSteps
    BY DEF AfterWrite, RecorderSteps
<1>4. /\ c \in RecorderStates /\ c.at = step /\ c.text = b.text /\ c.seen = b.seen
      /\ c.final = b.final /\ c.doomed = b.doomed
    BY <1>1, <1>3 DEF RecorderStates
<1> PICK w : w = [of |-> working, seen |-> b.seen, final |-> b.final]
    OBVIOUS
<1>5. /\ w \in WrittenOver /\ w.of = working /\ w.seen = b.seen /\ w.final = b.final
      /\ working # 0
    BY <1>1 DEF WrittenOver, WorkingInv, WorkingShape, RecorderStates, ReplaceState
<1>6. /\ replaced' = replaced \cup {w} /\ working' = b.text
      /\ UNCHANGED <<checkpoints, archive, renderings, crashes>>
    BY DEF ReplaceState
<1>7. ~w.final /\ w.of = w.seen => CopyIsKept(w.of)
    BY <1>1, <1>5 DEF RunInv
<1>8. replaced' \subseteq WrittenOver
    BY <1>5, <1>6 DEF WorkingInv, WorkingShape
<1> QED
    BY <1>1, <1>2, <1>4, <1>5, <1>6, <1>7, <1>8, StateIsWritten

LEMMA CreateKeeps ==
  ASSUME WorkingInv, NEW r \in Recorders, Create(r) PROVE WorkingInv'
<1> PICK b : b = recorder[r]
    OBVIOUS
<1>1. b \in RecorderStates /\ b.at = "create"
    BY DEF WorkingInv, WorkingShape, Create, At
<1>2. SUFFICES ASSUME working = 0, working' = b.text, Goto(r, AfterWrite(r)),
                      UNCHANGED <<checkpoints, archive, renderings, crashes, replaced>>
               PROVE  WorkingInv'
    BY FailKeeps DEF Create
<1> PICK step : step = AfterWrite(r)
    OBVIOUS
<1> PICK c : c = [b EXCEPT !.at = step]
    OBVIOUS
<1>3. recorder' = [recorder EXCEPT ![r] = c]
    BY <1>2 DEF Goto
<1>4. step \in RecorderSteps
    BY DEF AfterWrite, RecorderSteps
<1>5. /\ c \in RecorderStates /\ c.at = step /\ c.text = b.text /\ c.seen = b.seen
      /\ c.final = b.final /\ c.doomed = b.doomed
    BY <1>1, <1>4 DEF RecorderStates
<1>6. replaced' \subseteq WrittenOver /\ replaced \subseteq replaced'
    BY <1>2 DEF WorkingInv, WorkingShape
<1>7. \A w \in replaced' \ replaced : w.of # 0 /\ (~w.final /\ w.of = w.seen => CopyIsKept(w.of))
    BY <1>2
<1>8. ~(working > 0)
    BY <1>2
<1>9. UNCHANGED <<checkpoints, archive, renderings, crashes>>
    BY <1>2
<1> QED
    BY <1>1, <1>2, <1>3, <1>5, <1>6, <1>7, <1>8, <1>9, StateIsWritten

LEMMA NoneYetKeeps ==
  ASSUME WorkingInv, NEW r \in Recorders, NoneYet(r) PROVE WorkingInv'
<1> PICK b : b = recorder[r]
    OBVIOUS
<1>1. b \in RecorderStates /\ RunInv(b) /\ b.at = "prune"
    BY DEF WorkingInv, WorkingShape, NoneYet, At
<1> PICK c : c = [b EXCEPT !.at = "create"]
    OBVIOUS
<1>2. recorder' = [recorder EXCEPT ![r] = c] /\ UNCHANGED FileVars /\ renderings' = renderings
    BY DEF NoneYet, Goto, FileVars
<1>3. /\ c \in RecorderStates /\ c.at = "create" /\ c.text = b.text /\ c.doomed = b.doomed
    BY <1>1 DEF RecorderStates, RecorderSteps
<1>4. RunInv(c)
    BY <1>1, <1>3 DEF RunInv
<1> QED
    BY <1>2, <1>3, <1>4, FilesRest DEF FileVars, WorkingInv, WorkingShape

LEMMA ReadAgainKeeps ==
  ASSUME WorkingInv, NEW r \in Recorders, ReadAgain(r) PROVE WorkingInv'
<1> PICK b : b = recorder[r]
    OBVIOUS
<1>1. b \in RecorderStates /\ RunInv(b) /\ b.at = "read" /\ working \in Int
    BY DEF WorkingInv, WorkingShape, ReadAgain, At
<1> PICK step : step = IF \E a \in archive : a.name = working THEN "ended" ELSE "file"
    OBVIOUS
<1> PICK c : c = [b EXCEPT !.seen = working, !.at = step]
    OBVIOUS
<1>2. recorder' = [recorder EXCEPT ![r] = c] /\ UNCHANGED FileVars /\ renderings' = renderings
    BY DEF ReadAgain, FileVars
<1>3. step \in {"ended", "file"} /\ step \in RecorderSteps
    BY DEF RecorderSteps
<1>4. /\ c \in RecorderStates /\ c.at = step /\ c.text = b.text /\ c.doomed = b.doomed
      /\ c.seen = working
    BY <1>1, <1>3 DEF RecorderStates
<1>5. b.text > 0 /\ working > 0 /\ (b.text = working \/ Over(b.text))
    BY <1>1 DEF RunInv
<1>6. step = "ended" => \/ [name |-> b.text, of |-> b.text] \in archive
                        \/ [name |-> b.text, of |-> -b.text] \in archive /\ crashes > 0
                        \/ Over(b.text)
  <2> SUFFICES ASSUME step = "ended", b.text = working
               PROVE  \/ [name |-> b.text, of |-> b.text] \in archive
                      \/ [name |-> b.text, of |-> -b.text] \in archive /\ crashes > 0
      BY <1>5
  <2>1. PICK a \in archive : a.name = b.text
      OBVIOUS
  <2>2. a \in Filed /\ (a.of = a.name \/ (a.of = -a.name /\ crashes > 0))
      BY DEF WorkingInv, WorkingShape, FilesInv
  <2>3. a = [name |-> a.name, of |-> a.of]
      BY <2>2 DEF Filed
  <2> QED
      BY <2>1, <2>2, <2>3
<1>7. RunInv(c)
    BY <1>1, <1>3, <1>4, <1>5, <1>6 DEF RunInv
<1> QED
    BY <1>2, <1>4, <1>7, FilesRest DEF FileVars, WorkingInv, WorkingShape

\* A file of the archive holds what its name says, or was cut off by a crash.
LEMMA ArchiveGrows ==
  ASSUME WorkingInv, NEW name \in Int, NEW of \in Int, working > 0,
         of = name \/ (of = -name /\ crashes' > 0),
         archive' = archive \cup {[name |-> name, of |-> of]},
         UNCHANGED <<working, checkpoints, replaced>>, crashes' \in Nat, crashes <= crashes'
  PROVE  archive' \subseteq Filed /\ FilesGrow /\ FilesInv'
<1> PICK new : new = [name |-> name, of |-> of]
    OBVIOUS
<1>1. new \in Filed /\ new.name = name /\ new.of = of /\ archive' = archive \cup {new}
    BY DEF Filed
<1>2. archive' \subseteq Filed
    BY <1>1 DEF WorkingInv, WorkingShape
<1>3. FilesGrow
    BY <1>1 DEF FilesGrow, WorkingInv, WorkingShape
<1>4. crashes > 0 => crashes' > 0
    BY DEF WorkingInv, WorkingShape
<1>5. \A a \in archive' : a.of = a.name \/ (a.of = -a.name /\ crashes' > 0)
    BY <1>1, <1>4 DEF WorkingInv, FilesInv
<1>6. FilesInv'
    BY <1>5 DEF WorkingInv, WorkingShape, FilesInv, NewestThere, CopyIsKept
<1> QED
    BY <1>2, <1>3, <1>6

LEMMA FileKeeps ==
  ASSUME WorkingInv, NEW r \in Recorders, File(r) PROVE WorkingInv'
<1> PICK b : b = recorder[r]
    OBVIOUS
<1>1. b \in RecorderStates /\ RunInv(b) /\ b.at = "file"
    BY DEF WorkingInv, WorkingShape, File, At
<1>2. SUFFICES ASSUME archive' = archive \cup {[name |-> b.seen, of |-> b.seen]},
                      Goto(r, "ended"),
                      UNCHANGED <<working, checkpoints, renderings, crashes, replaced>>
               PROVE  WorkingInv'
    BY FailKeeps DEF File
<1> PICK c : c = [b EXCEPT !.at = "ended"]
    OBVIOUS
<1>3. recorder' = [recorder EXCEPT ![r] = c]
    BY <1>2 DEF Goto
<1>4. /\ c \in RecorderStates /\ c.at = "ended" /\ c.text = b.text /\ c.doomed = b.doomed
      /\ c.seen = b.seen /\ b.seen \in Int
    BY <1>1 DEF RecorderStates, RecorderSteps
<1>5. b.text > 0 /\ working > 0 /\ (b.text = b.seen \/ Over(b.text))
    BY <1>1 DEF RunInv
<1>6. archive' \subseteq Filed /\ FilesGrow /\ FilesInv'
    BY <1>2, <1>4, <1>5, ArchiveGrows DEF WorkingInv, WorkingShape
<1>7. RunInv(c)'
    BY <1>1, <1>2, <1>4, <1>5 DEF RunInv, Over
<1> QED
    BY <1>2, <1>3, <1>4, <1>6, <1>7, OneRun DEF WorkingInv, WorkingShape

\* A run that is killed leaves what it was writing cut off, where that is a new file.
LEMMA KilledKeeps ==
  ASSUME WorkingInv, NEW r \in Recorders, Killed(r) PROVE WorkingInv'
<1> PICK b : b = recorder[r]
    OBVIOUS
<1> PICK c : c = NoRecorder
    OBVIOUS
<1>1. b \in RecorderStates /\ RunInv(b) /\ b.seen \in Int /\ b.text \in Nat
    BY DEF WorkingInv, WorkingShape, RecorderStates
<1>2. c \in RecorderStates /\ c.at = "idle" /\ c.doomed = {}
  <2>1. {} \in SUBSET Nat
      OBVIOUS
  <2> QED
      BY <2>1 DEF NoRecorder, RecorderStates, RecorderSteps
<1>3. /\ recorder' = [recorder EXCEPT ![r] = c] /\ UNCHANGED <<renderings, replaced>>
      /\ crashes \in Nat /\ crashes' = crashes + 1
    BY DEF Killed, WorkingInv, WorkingShape
<1>4. crashes' \in Nat /\ crashes <= crashes' /\ crashes' > 0
    BY <1>3
<1>5. RunInv(c)'
    BY <1>2 DEF RunInv
<1>6. CASE UNCHANGED <<working, checkpoints, archive>>
  <2>1. FilesGrow
      BY <1>3, <1>4, <1>6 DEF FilesGrow, WorkingInv, WorkingShape
  <2>2. \A t : CopyIsKept(t)' <=> CopyIsKept(t)
      BY <1>6 DEF CopyIsKept
  <2>3. FilesInv'
      BY <1>3, <1>4, <1>6, <2>2 DEF WorkingInv, FilesInv, NewestThere
  <2> QED
      BY <1>2, <1>3, <1>4, <1>5, <1>6, <2>1, <2>3, OneRun DEF WorkingInv, WorkingShape
<1>7. CASE checkpoints' = CopyOf(r, 0) /\ UNCHANGED <<working, archive>>
  <2>1. checkpoints' \in Seq(Copies) /\ FilesGrow /\ FilesInv'
    <3>1. 0 \in Int
        OBVIOUS
    <3> QED
        BY <1>3, <1>4, <1>7, <3>1, CopyGrows
  <2> QED
      BY <1>2, <1>3, <1>4, <1>5, <1>7, <2>1, OneRun DEF WorkingInv, WorkingShape
<1>8. CASE working = 0 /\ working' = -b.text /\ UNCHANGED <<checkpoints, archive>>
  <2>1. FilesGrow
      BY <1>3, <1>4, <1>8 DEF FilesGrow, WorkingInv, WorkingShape
  <2>2. \A t : CopyIsKept(t)' <=> CopyIsKept(t)
      BY <1>8 DEF CopyIsKept
  <2>3. replaced = {} /\ archive = {}
      BY <1>8 DEF WorkingInv, FilesInv
  <2>4. FilesInv'
      BY <1>3, <1>8, <2>2, <2>3 DEF WorkingInv, FilesInv, NewestThere
  <2>5. /\ working' \in Int /\ checkpoints' \in Seq(Copies) /\ archive' \subseteq Filed
        /\ renderings' \in Nat /\ replaced' \subseteq WrittenOver
      BY <1>1, <1>3, <1>8 DEF WorkingInv, WorkingShape
  <2> QED
      BY <1>2, <1>3, <1>4, <1>5, <2>1, <2>4, <2>5, OneRun
<1>9. CASE /\ b.at = "file" /\ UNCHANGED <<working, checkpoints>>
           /\ archive' = archive \cup {[name |-> b.seen, of |-> -b.seen]}
  <2>1. working > 0
      BY <1>1, <1>9 DEF RunInv
  <2>2. -b.seen \in Int
      BY <1>1
  <2>3. archive' \subseteq Filed /\ FilesGrow /\ FilesInv'
      BY <1>1, <1>3, <1>4, <1>9, <2>1, <2>2, ArchiveGrows
  <2> QED
      BY <1>2, <1>3, <1>4, <1>5, <1>9, <2>3, OneRun DEF WorkingInv, WorkingShape
<1> QED
    BY <1>6, <1>7, <1>8, <1>9 DEF Killed, At

LEMMA WorkingInvStep == WorkingInv /\ [WorkingNext]_workingVars => WorkingInv'
<1> SUFFICES ASSUME WorkingInv, [WorkingNext]_workingVars PROVE WorkingInv'
    OBVIOUS
<1>1. CASE WorkingNext
    BY <1>1, WriteStateKeeps, UniqueNameKeeps, WriteCopyKeeps, ListCopiesKeeps,
       RemoveCopyKeeps, ReplaceStateKeeps, NoneYetKeeps, CreateKeeps, ReadAgainKeeps,
       FileKeeps, KilledKeeps, RestartKeeps DEF WorkingNext
<1>2. CASE UNCHANGED workingVars
    BY <1>2 DEF workingVars, WorkingInv, WorkingShape, FilesInv, NewestThere, RunInv, CopyIsKept, Over
<1> QED
    BY <1>1, <1>2

LEMMA WorkingInvSound == WorkingInv => WorkingSound
<1> SUFFICES ASSUME WorkingInv PROVE WorkingSound
    OBVIOUS
<1>1. StateWhole
    BY DEF WorkingInv, WorkingShape, FilesInv, StateWhole
<1>2. PreviousKept
    BY DEF WorkingInv, FilesInv, NewestThere, PreviousKept, CopyIsKept
<1>3. ArchiveKept
    BY DEF WorkingInv, RunInv, ArchiveKept, Over, At
<1> QED
    BY <1>1, <1>2, <1>3 DEF WorkingSound

\* Runs that share a working state, and are killed anywhere, lose no state that was
\* whole, and write over nothing that is not in a copy, of which the newest are there;
\* what a run ended with is in the archive, or was written over, or cut off by a crash.
THEOREM WorkingIsKept == WorkingSpec => []WorkingSound
<1>1. WorkingSpec => []WorkingInv
    BY WorkingInvInit, WorkingInvStep, PTL DEF WorkingSpec
<1> QED
    BY <1>1, WorkingInvSound, PTL

-----------------------------------------------------------------------------
(* The facts of a memory scope (FactStore).                                *)

Reviews == {"superseded", "needs-human", "manual", "auto-local"}
FactLines ==
  [text : Texts, rank : Nat, closed : BOOLEAN, review : Reviews, observed : Nat,
   from : Nat, readable : BOOLEAN, supersedes : Texts \cup {NoText}]
SharedLines == [text : Texts, src : FactLines, at : Nat]

ReadOnce(lines) ==
  \A i, j \in DOMAIN lines :
    lines[i].readable /\ lines[j].readable /\ lines[i].text = lines[j].text => i = j
PromotedOnce(lines) == \A i, j \in DOMAIN lines : lines[i].text = lines[j].text => i = j
Warranted(c) == c.was <= (IF c.quoted THEN c.rank ELSE 1)

\* What holds between two candidates of a batch.
GateInv(s) ==
  /\ s.lines \in Seq(FactLines) /\ s.added \in Seq(FactLines)
  /\ ReadOnce(s.lines \o s.added)
  /\ \A i \in DOMAIN s.added : s.added[i].readable
  /\ \A c \in s.closings : Warranted(c)

FactsInv ==
  /\ facts \in Seq(FactLines) /\ ReadOnce(facts)
  /\ shared \in Seq(SharedLines) /\ PromotedOnce(shared)
  /\ audit \subseteq SharedLines /\ promoting \in {<<>>} \cup {<<line>> : line \in SharedLines}
  /\ clock \in Nat
  /\ \A c \in closings : Warranted(c)

\* Lines of which less is read, and nothing else is, are read once each.
LEMMA LessIsRead ==
  ASSUME NEW old, NEW new, ReadOnce(old), DOMAIN new = DOMAIN old,
         \A i \in DOMAIN old : new[i].text = old[i].text /\ (new[i].readable => old[i].readable)
  PROVE  ReadOnce(new)
  BY DEF ReadOnce

\* The same of the first of two parts.
LEMMA LessIsReadFirst ==
  ASSUME NEW S, NEW old \in Seq(S), NEW new \in Seq(S), NEW rest \in Seq(S),
         ReadOnce(old \o rest), Len(new) = Len(old),
         \A i \in DOMAIN old : new[i].text = old[i].text /\ (new[i].readable => old[i].readable)
  PROVE  ReadOnce(new \o rest)
<1>1. /\ Len(old) \in Nat /\ Len(rest) \in Nat
      /\ DOMAIN old = 1 .. Len(old) /\ DOMAIN rest = 1 .. Len(rest)
    OBVIOUS
<1> PICK one : one = old \o rest
    OBVIOUS
<1> PICK two : two = new \o rest
    OBVIOUS
<1>2. /\ DOMAIN one = 1 .. Len(old) + Len(rest)
      /\ \A i \in 1 .. Len(old) + Len(rest) :
           one[i] = IF i <= Len(old) THEN old[i] ELSE rest[i - Len(old)]
    BY ConcatProperties, LenProperties
<1>3. /\ DOMAIN two = 1 .. Len(new) + Len(rest)
      /\ \A i \in 1 .. Len(new) + Len(rest) :
           two[i] = IF i <= Len(new) THEN new[i] ELSE rest[i - Len(new)]
    BY ConcatProperties, LenProperties
<1>4. DOMAIN two = DOMAIN one
    BY <1>2, <1>3
<1>5. ASSUME NEW i \in DOMAIN one
      PROVE  two[i].text = one[i].text /\ (two[i].readable => one[i].readable)
  <2>1. i \in Nat /\ i >= 1
      BY <1>2
  <2>2. CASE i <= Len(old)
    <3>1. i \in DOMAIN old /\ two[i] = new[i] /\ one[i] = old[i]
        BY <1>1, <1>2, <1>3, <1>5, <2>1, <2>2
    <3> QED
        BY <3>1
  <2>3. CASE ~(i <= Len(old))
    <3>1. two[i] = one[i]
        BY <1>2, <1>3, <1>5, <2>3
    <3> QED
        BY <3>1
  <2> QED
      BY <2>2, <2>3
<1>6. ReadOnce(two)
    BY <1>4, <1>5, LessIsRead
<1> QED
    BY <1>6

LEMMA EndedIsLine ==
  ASSUME NEW line \in FactLines, clock \in Nat
  PROVE  /\ EndedNow(line) \in FactLines /\ EndedNow(line).text = line.text
         /\ [EndedNow(line) EXCEPT !.review = "superseded"] \in FactLines
         /\ [EndedNow(line) EXCEPT !.review = "superseded"].text = line.text
<1>1. WindowHolds(line.from, clock) \in BOOLEAN
    BY DEF WindowHolds
<1>2. EndedNow(line) \in FactLines /\ EndedNow(line).text = line.text
    BY <1>1 DEF EndedNow, FactLines
<1> PICK e : e = EndedNow(line)
    OBVIOUS
<1>3. "superseded" \in Reviews
    BY DEF Reviews
<1>4. [e EXCEPT !.review = "superseded"] \in FactLines
      /\ [e EXCEPT !.review = "superseded"].text = line.text
    BY <1>2, <1>3 DEF FactLines
<1> QED
    BY <1>2, <1>4

\* A candidate closes a fact of no more authority than it can show.
LEMMA ClosedAreOpen ==
  ASSUME NEW lines \in Seq(FactLines), NEW c \in FactCandidates, NEW i \in ClosedBy(lines, c)
  PROVE  i \in DOMAIN lines /\ lines[i].readable /\ lines[i].rank <= RankOf(c)
<1>1. i \in Closable(lines, c)
    BY DEF ClosedBy
<1>2. i \in DOMAIN lines /\ IsOpen(lines[i]) /\ lines[i].rank <= RankOf(c)
    BY <1>1 DEF Closable
<1> QED
    BY <1>2 DEF IsOpen

LEMMA SupersededLines ==
  ASSUME NEW lines \in Seq(FactLines), NEW which, clock \in Nat,
         \A i \in which : i \in DOMAIN lines => lines[i].readable
  PROVE  LET new == Superseded(lines, which)
         IN /\ new \in Seq(FactLines) /\ DOMAIN new = DOMAIN lines /\ Len(new) = Len(lines)
            /\ \A i \in DOMAIN lines :
                 new[i].text = lines[i].text /\ (new[i].readable => lines[i].readable)
<1> DEFINE new == Superseded(lines, which)
           GoneLine(line) == [EndedNow(line) EXCEPT !.review = "superseded"]
<1>1. new = [i \in DOMAIN lines |-> IF i \in which THEN GoneLine(lines[i]) ELSE lines[i]]
    BY DEF Superseded
<1>2. \A line \in FactLines : GoneLine(line) \in FactLines /\ GoneLine(line).text = line.text
    BY EndedIsLine
<1> HIDE DEF new, GoneLine
<1>3. DOMAIN lines = 1 .. Len(lines) /\ Len(lines) \in Nat
      /\ \A i \in DOMAIN lines : lines[i] \in FactLines
    OBVIOUS
<1>4. \A i \in DOMAIN lines : new[i] = IF i \in which THEN GoneLine(lines[i]) ELSE lines[i]
    BY <1>1
<1>5. \A i \in DOMAIN lines : /\ new[i] \in FactLines /\ new[i].text = lines[i].text
                              /\ (new[i].readable => lines[i].readable)
    BY <1>2, <1>3, <1>4
<1>6. new \in [1 .. Len(lines) -> FactLines]
    BY <1>1, <1>3, <1>5
<1>7. new \in Seq(FactLines) /\ Len(new) = Len(lines) /\ DOMAIN new = DOMAIN lines
    BY <1>3, <1>6
<1> QED
    BY <1>5, <1>7 DEF new

\* A line of a text that is not read yet may come last.
LEMMA NewTextLast ==
  ASSUME NEW S, NEW lines \in Seq(S), NEW line \in S, ReadOnce(lines),
         \A i \in DOMAIN lines : lines[i].readable => lines[i].text # line.text
  PROVE  ReadOnce(Append(lines, line))
<1>1. Len(lines) \in Nat /\ DOMAIN lines = 1 .. Len(lines)
    OBVIOUS
<1>2. /\ DOMAIN Append(lines, line) = 1 .. Len(lines) + 1
      /\ \A i \in 1 .. Len(lines) : Append(lines, line)[i] = lines[i]
      /\ Append(lines, line)[Len(lines) + 1] = line
    BY AppendProperties
<1> PICK new : new = Append(lines, line)
    OBVIOUS
<1>3. \A i \in DOMAIN new : i \in DOMAIN lines \/ i = Len(lines) + 1
    BY <1>1, <1>2
<1> QED
    BY <1>1, <1>2, <1>3 DEF ReadOnce

\* The same where the lines are in two parts.
LEMMA NewTextLastOfTwo ==
  ASSUME NEW S, NEW first \in Seq(S), NEW rest \in Seq(S), NEW line \in S,
         ReadOnce(first \o rest),
         \A i \in DOMAIN first : first[i].readable => first[i].text # line.text,
         \A i \in DOMAIN rest : rest[i].text # line.text
  PROVE  ReadOnce(first \o Append(rest, line))
<1>1. /\ Len(first) \in Nat /\ Len(rest) \in Nat
      /\ DOMAIN first = 1 .. Len(first) /\ DOMAIN rest = 1 .. Len(rest)
    OBVIOUS
<1> PICK all : all = first \o rest
    OBVIOUS
<1>2. /\ all \in Seq(S) /\ DOMAIN all = 1 .. Len(first) + Len(rest)
      /\ \A i \in 1 .. Len(first) + Len(rest) :
           all[i] = IF i <= Len(first) THEN first[i] ELSE rest[i - Len(first)]
    BY ConcatProperties, LenProperties
<1>3. \A i \in DOMAIN all : all[i].readable => all[i].text # line.text
  <2> SUFFICES ASSUME NEW i \in DOMAIN all, all[i].readable
               PROVE  all[i].text # line.text
      OBVIOUS
  <2>1. i \in Nat /\ i >= 1
      BY <1>2
  <2>2. CASE i <= Len(first)
    <3>1. i \in DOMAIN first /\ all[i] = first[i]
        BY <1>1, <1>2, <2>1, <2>2
    <3> QED
        BY <3>1
  <2>3. CASE ~(i <= Len(first))
    <3>1. i - Len(first) \in DOMAIN rest /\ all[i] = rest[i - Len(first)]
        BY <1>1, <1>2, <2>1, <2>3
    <3> QED
        BY <3>1
  <2> QED
      BY <2>2, <2>3
<1>4. ReadOnce(Append(all, line))
    BY <1>2, <1>3, NewTextLast
<1>5. <<line>> \in Seq(S)
    OBVIOUS
<1>6. Append(rest, line) = rest \o <<line>> /\ Append(all, line) = all \o <<line>>
    BY <1>2, AppendIsConcat
<1>7. first \o (rest \o <<line>>) = (first \o rest) \o <<line>>
    BY <1>5, ConcatAssociative
<1> QED
    BY <1>4, <1>6, <1>7

LEMMA RankIsNatural ==
  ASSUME NEW c \in FactCandidates
  PROVE  /\ RankOf(c) \in Nat
         /\ RankOf(c) <= (IF c.quoted \/ c.manual THEN c.rank ELSE 1)
<1>1. c.rank \in Nat /\ c.quoted \in BOOLEAN /\ c.manual \in BOOLEAN
    BY DEF FactCandidates
<1> QED
    BY <1>1 DEF RankOf

\* One candidate keeps what holds between two of them.
LEMMA GateKeeps ==
  ASSUME clock \in Nat, NEW c \in FactCandidates, NEW s, GateInv(s)
  PROVE  GateInv(Gate(s, c))
<1> DEFINE closed == ClosedBy(s.lines, c)
           after == Superseded(s.lines, closed)
           rank == RankOf(c)
           review == Review(after, c, closed)
           instead == IF closed = {} THEN NoText ELSE s.lines[CHOOSE i \in closed : TRUE].text
           record == [text |-> c.text, rank |-> rank, closed |-> FALSE,
                      review |-> review, observed |-> clock,
                      from |-> c.from, readable |-> TRUE, supersedes |-> instead]
           added == IF c.text \in Seen(s) THEN s.added ELSE Append(s.added, record)
           all == s.closings \cup
                {[by |-> c.text, rank |-> c.rank, quoted |-> c.quoted \/ c.manual,
                  text |-> s.lines[i].text, was |-> s.lines[i].rank] : i \in closed}
<1>1. Gate(s, c) = IF Refused(c) THEN s ELSE [lines |-> after, added |-> added, closings |-> all]
    BY DEF Gate
<1>2. SUFFICES GateInv([lines |-> after, added |-> added, closings |-> all])
    BY <1>1
<1>3. s.lines \in Seq(FactLines) /\ s.added \in Seq(FactLines)
    BY DEF GateInv
<1>4. /\ c.text \in Texts /\ c.from \in Nat /\ c.rank \in Nat
      /\ rank \in Nat /\ rank <= (IF c.quoted \/ c.manual THEN c.rank ELSE 1)
    BY RankIsNatural DEF FactCandidates
<1>5. \A i \in closed : /\ i \in DOMAIN s.lines /\ s.lines[i].readable
                        /\ s.lines[i].rank <= rank /\ s.lines[i] \in FactLines
    BY <1>3, ClosedAreOpen
<1>6. review \in Reviews
    BY DEF Review, Reviews
<1>7. instead \in Texts \cup {NoText}
    BY <1>5 DEF FactLines
<1> HIDE DEF closed, rank, review, instead
<1>8. record \in FactLines /\ record.readable /\ record.text = c.text
    BY <1>4, <1>6, <1>7 DEF FactLines
<1>9. /\ after \in Seq(FactLines) /\ DOMAIN after = DOMAIN s.lines /\ Len(after) = Len(s.lines)
      /\ \A i \in DOMAIN s.lines :
           after[i].text = s.lines[i].text /\ (after[i].readable => s.lines[i].readable)
    BY <1>3, <1>5, SupersededLines
<1> HIDE DEF record, after
<1>10. added \in Seq(FactLines) /\ \A i \in DOMAIN added : added[i].readable
  <2>1. \A i \in DOMAIN s.added : s.added[i].readable
      BY DEF GateInv
  <2>2. /\ Append(s.added, record) \in Seq(FactLines)
        /\ DOMAIN Append(s.added, record) = 1 .. Len(s.added) + 1
        /\ \A i \in 1 .. Len(s.added) : Append(s.added, record)[i] = s.added[i]
        /\ Append(s.added, record)[Len(s.added) + 1] = record
      BY <1>3, <1>8, AppendProperties
  <2>3. DOMAIN s.added = 1 .. Len(s.added) /\ Len(s.added) \in Nat
      BY <1>3
  <2> QED
      BY <1>3, <1>8, <2>1, <2>2, <2>3
<1>11. ReadOnce(after \o s.added)
  <2>1. ReadOnce(s.lines \o s.added)
      BY DEF GateInv
  <2> QED
      BY <1>3, <1>9, <2>1, LessIsReadFirst
<1>12. ReadOnce(after \o added)
  <2>1. CASE c.text \in Seen(s)
      BY <2>1, <1>11
  <2>2. CASE c.text \notin Seen(s)
    <3>1. \A i \in DOMAIN after : after[i].readable => after[i].text # record.text
      <4> SUFFICES ASSUME NEW i \in DOMAIN after, after[i].readable
                   PROVE  after[i].text # c.text
          BY <1>8
      <4>1. i \in DOMAIN s.lines /\ s.lines[i].readable /\ s.lines[i].text = after[i].text
          BY <1>9
      <4>2. i \in Records(s.lines)
          BY <4>1 DEF Records
      <4> QED
          BY <2>2, <4>1, <4>2 DEF Seen
    <3>2. \A i \in DOMAIN s.added : s.added[i].text # record.text
        BY <1>8, <2>2 DEF Seen, TextsOf
    <3>3. ReadOnce(after \o Append(s.added, record))
        BY <1>3, <1>8, <1>9, <1>11, <3>1, <3>2, NewTextLastOfTwo
    <3> QED
        BY <2>2, <3>3
  <2> QED
      BY <2>1, <2>2
<1>13. \A x \in all : Warranted(x)
  <2> SUFFICES ASSUME NEW i \in closed
               PROVE  Warranted([by |-> c.text, rank |-> c.rank, quoted |-> c.quoted \/ c.manual,
                                 text |-> s.lines[i].text, was |-> s.lines[i].rank])
      BY DEF GateInv
  <2>1. s.lines[i].rank \in Nat /\ s.lines[i].rank <= rank
      BY <1>5 DEF FactLines
  <2>2. s.lines[i].rank <= (IF c.quoted \/ c.manual THEN c.rank ELSE 1)
      BY <1>4, <2>1
  <2> QED
      BY <2>2 DEF Warranted
<1> HIDE DEF added, all
<1> QED
    BY <1>9, <1>10, <1>12, <1>13 DEF GateInv

\* A whole batch does: every candidate finds what the one before it left.
LEMMA GatedKeeps ==
  ASSUME FactsInv, NEW batch \in Seq(FactCandidates)
  PROVE  GateInv(Gated(batch))
<1> DEFINE start == [lines |-> facts, added |-> <<>>, closings |-> closings]
           Entry(f, i) == IF i = 0 THEN start ELSE Gate(f[i - 1], batch[i])
           Fits(f, n) == f = [i \in 0..n |-> Entry(f, i)]
           Good(n) == \E f : Fits(f, n)
           Bad == {n \in 0..Len(batch) : ~Good(n)}
<1>1. Len(batch) \in Nat /\ \A i \in 1..Len(batch) : batch[i] \in FactCandidates
    OBVIOUS
<1>2. GateInv(start)
  <2>1. facts \in Seq(FactLines) /\ <<>> \in Seq(FactLines) /\ DOMAIN <<>> = {}
      BY DEF FactsInv
  <2>2. facts \o <<>> = facts
      BY <2>1, ConcatEmptySeq
  <2> QED
      BY <2>1, <2>2 DEF FactsInv, GateInv
<1> HIDE DEF start
<1>3. Good(0)
  <2>1. Fits([i \in 0..0 |-> start], 0)
      OBVIOUS
  <2> QED
      BY <2>1
<1>4. ASSUME NEW n \in 1..Len(batch), Good(n - 1)
      PROVE  Good(n)
  <2>1. n \in Nat /\ n - 1 \in Nat
      BY <1>1
  <2>2. PICK g : Fits(g, n - 1)
      BY <1>4
  <2> DEFINE f == [i \in 0..n |-> IF i = n THEN Gate(g[n - 1], batch[n]) ELSE g[i]]
  <2>3. \A i \in 0..(n - 1) : g[i] = Entry(g, i)
      BY <2>2
  <2>4. ASSUME NEW i \in 0..n
        PROVE  f[i] = Entry(f, i)
    <3>1. CASE i = 0
        BY <2>1, <2>3, <3>1
    <3>2. CASE i \in 1..(n - 1)
      <4>1. i # 0 /\ i # n /\ i - 1 # n /\ i - 1 \in 0..n /\ i \in 0..(n - 1)
          BY <2>1, <3>2
      <4>2. f[i] = g[i] /\ f[i - 1] = g[i - 1]
          BY <4>1
      <4> HIDE DEF f
      <4> QED
          BY <4>1, <4>2, <2>3
    <3>3. CASE i = n
      <4>1. n # 0 /\ n - 1 # n /\ n - 1 \in 0..n
          BY <2>1
      <4>2. f[n] = Gate(g[n - 1], batch[n]) /\ f[n - 1] = g[n - 1]
          BY <2>1, <4>1
      <4> HIDE DEF f
      <4> QED
          BY <4>1, <4>2, <3>3
    <3> QED
        BY <2>1, <3>1, <3>2, <3>3
  <2>5. Fits(f, n)
      BY <2>4 DEF f
  <2> HIDE DEF f
  <2> QED
      BY <2>5
<1> HIDE DEF Good
<1>5. Bad = {}
  <2> SUFFICES ASSUME Bad # {} PROVE FALSE
      OBVIOUS
  <2>1. Bad \in SUBSET Nat
      OBVIOUS
  <2>2. PICK n \in Bad : \A m \in Bad : n <= m
    <3> HIDE DEF Bad
    <3> QED
        BY <2>1, LeastNatural
  <2>3. n \in 0..Len(batch) /\ ~Good(n)
      OBVIOUS
  <2>4. n # 0
      BY <1>3, <2>3
  <2>5. n - 1 \in 0..Len(batch) /\ n \in 1..Len(batch) /\ ~(n <= n - 1)
      BY <1>1, <2>3, <2>4
  <2>6. Good(n - 1)
      BY <2>2, <2>5
  <2> QED
      BY <1>4, <2>3, <2>5, <2>6
<1> DEFINE after == CHOOSE f : Fits(f, Len(batch))
<1>6. Fits(after, Len(batch))
  <2>1. Good(Len(batch))
      BY <1>1, <1>5
  <2>2. \E f : Fits(f, Len(batch))
      BY <2>1 DEF Good
  <2> QED
      BY <2>2
<1>7. Gated(batch) = after[Len(batch)]
    BY DEF Gated, start
<1> HIDE DEF after
<1>8. \A i \in 0..Len(batch) : after[i] = Entry(after, i)
    BY <1>6
<1> DEFINE Odd == {i \in 0..Len(batch) : ~GateInv(after[i])}
<1>9. Odd = {}
  <2> SUFFICES ASSUME Odd # {} PROVE FALSE
      OBVIOUS
  <2>1. Odd \in SUBSET Nat
      OBVIOUS
  <2>2. PICK n \in Odd : \A m \in Odd : n <= m
    <3> HIDE DEF Odd
    <3> QED
        BY <2>1, LeastNatural
  <2>3. n \in 0..Len(batch) /\ ~GateInv(after[n])
      OBVIOUS
  <2>4. n # 0
      BY <1>2, <1>8, <2>3
  <2>5. n - 1 \in 0..Len(batch) /\ n \in 1..Len(batch) /\ ~(n <= n - 1)
      BY <1>1, <2>3, <2>4
  <2>6. GateInv(after[n - 1])
      BY <2>2, <2>5
  <2>7. GateInv(Gate(after[n - 1], batch[n]))
      BY <1>1, <2>5, <2>6, GateKeeps DEF FactsInv
  <2>8. after[n] = Gate(after[n - 1], batch[n])
      BY <1>8, <2>3, <2>4
  <2> QED
      BY <2>3, <2>7, <2>8
<1> QED
    BY <1>1, <1>7, <1>9

\* A stretch of lines, with where each of its lines was.
LEMMA StretchOfLines ==
  ASSUME NEW S, NEW lines \in Seq(S), NEW m \in Nat, m >= 1, NEW n \in Int, n <= Len(lines)
  PROVE  /\ SubSeq(lines, m, n) \in Seq(S)
         /\ \A i \in DOMAIN SubSeq(lines, m, n) :
              i \in Nat /\ m + i - 1 \in DOMAIN lines /\ SubSeq(lines, m, n)[i] = lines[m + i - 1]
<1>1. Len(lines) \in Nat /\ DOMAIN lines = 1 .. Len(lines)
    OBVIOUS
<1>2. \A i \in m .. n : lines[i] \in S
    BY <1>1
<1> PICK part : part = SubSeq(lines, m, n)
    OBVIOUS
<1>3. /\ part \in Seq(S) /\ Len(part) = (IF m <= n THEN n - m + 1 ELSE 0)
      /\ \A i \in 1 .. n - m + 1 : part[i] = lines[m + i - 1]
    BY <1>2, SubSeqProperties
<1>4. DOMAIN part = 1 .. Len(part) /\ Len(part) \in Nat
    BY <1>3
<1>5. ASSUME NEW i \in DOMAIN part
      PROVE  i \in Nat /\ m + i - 1 \in DOMAIN lines /\ part[i] = lines[m + i - 1]
  <2>1. i \in Nat /\ i >= 1 /\ i <= Len(part)
      BY <1>4
  <2>2. m <= n /\ i <= n - m + 1
      BY <1>3, <2>1
  <2>3. i \in 1 .. n - m + 1 /\ m + i - 1 \in DOMAIN lines
      BY <1>1, <2>1, <2>2
  <2> QED
      BY <1>3, <2>1, <2>3
<1> QED
    BY <1>3, <1>5

LEMMA TailIsReadOnce ==
  ASSUME NEW lines \in Seq(FactLines), ReadOnce(lines)
  PROVE  Tail1000(lines) \in Seq(FactLines) /\ ReadOnce(Tail1000(lines))
<1> DEFINE m == IF Len(lines) > MaxFacts THEN Len(lines) - MaxFacts + 1 ELSE 1
<1>1. Len(lines) \in Nat /\ MaxFacts \in Nat
    BY FactAssumption
<1>2. m \in Nat /\ m >= 1 /\ Len(lines) \in Int /\ Len(lines) <= Len(lines)
    BY <1>1
<1>3. Tail1000(lines) = SubSeq(lines, m, Len(lines))
    BY DEF Tail1000
<1> HIDE DEF m
<1> PICK part : part = SubSeq(lines, m, Len(lines))
    OBVIOUS
<1>4. /\ part \in Seq(FactLines)
      /\ \A i \in DOMAIN part : /\ i \in Nat /\ m + i - 1 \in DOMAIN lines
                                /\ part[i] = lines[m + i - 1]
    BY <1>2, StretchOfLines
<1>5. ASSUME NEW i \in DOMAIN part, NEW j \in DOMAIN part, part[i].readable, part[j].readable,
             part[i].text = part[j].text
      PROVE  i = j
  <2>1. m + i - 1 = m + j - 1
      BY <1>4, <1>5 DEF ReadOnce
  <2> QED
      BY <1>2, <1>4, <2>1
<1> QED
    BY <1>3, <1>4, <1>5 DEF ReadOnce

LEMMA FactsInvInit == FactInit => FactsInv
<1> SUFFICES ASSUME FactInit PROVE FactsInv
    OBVIOUS
<1>1. facts = <<>> /\ shared = <<>> /\ closings = {} /\ audit = {} /\ promoting = <<>> /\ clock = 0
    BY DEF FactInit
<1>2. ReadOnce(facts) /\ PromotedOnce(shared)
    BY <1>1 DEF ReadOnce, PromotedOnce
<1> QED
    BY <1>1, <1>2 DEF FactsInv

LEMMA BatchKeeps ==
  ASSUME FactsInv, NEW batch \in Batches, ApplyBatch(batch)
  PROVE  FactsInv'
<1>1. batch \in Seq(FactCandidates)
    BY FactAssumption
<1> PICK out : out = Gated(batch)
    OBVIOUS
<1>2. GateInv(out)
    BY <1>1, GatedKeeps
<1>3. /\ facts' = (IF out.added = <<>> /\ out.lines = facts THEN facts
                   ELSE Tail1000(out.lines \o out.added))
      /\ closings' = out.closings
      /\ UNCHANGED <<shared, audit, promoting, clock>>
    BY DEF ApplyBatch
<1>4. out.lines \o out.added \in Seq(FactLines) /\ ReadOnce(out.lines \o out.added)
    BY <1>2, ConcatProperties DEF GateInv
<1>5. Tail1000(out.lines \o out.added) \in Seq(FactLines)
      /\ ReadOnce(Tail1000(out.lines \o out.added))
    BY <1>4, TailIsReadOnce
<1>6. facts' \in Seq(FactLines) /\ ReadOnce(facts')
    BY <1>3, <1>5 DEF FactsInv
<1>7. \A c \in closings' : Warranted(c)
    BY <1>2, <1>3 DEF GateInv
<1> QED
    BY <1>3, <1>6, <1>7 DEF FactsInv

LEMMA CloseKeeps ==
  ASSUME FactsInv, NEW text \in Texts, Close(text)
  PROVE  FactsInv'
<1> DEFINE ClosedLine(line) == IF line.text = text /\ line.readable THEN EndedNow(line) ELSE line
<1>1. facts' = [i \in DOMAIN facts |-> ClosedLine(facts[i])]
      /\ UNCHANGED <<closings, shared, audit, promoting, clock>>
    BY DEF Close
<1>2. \A line \in FactLines : /\ ClosedLine(line) \in FactLines /\ ClosedLine(line).text = line.text
                              /\ (ClosedLine(line).readable => line.readable)
    BY EndedIsLine DEF FactsInv
<1> HIDE DEF ClosedLine
<1>3. /\ facts \in Seq(FactLines) /\ DOMAIN facts = 1 .. Len(facts) /\ Len(facts) \in Nat
      /\ \A i \in DOMAIN facts : facts[i] \in FactLines
    BY DEF FactsInv
<1>4. /\ DOMAIN facts' = DOMAIN facts
      /\ \A i \in DOMAIN facts :
           /\ facts'[i] \in FactLines /\ facts'[i].text = facts[i].text
           /\ (facts'[i].readable => facts[i].readable)
    BY <1>1, <1>2, <1>3
<1>5. facts' \in [1 .. Len(facts) -> FactLines]
    BY <1>1, <1>3, <1>4
<1>6. facts' \in Seq(FactLines)
    BY <1>3, <1>5
<1>7. ReadOnce(facts')
    BY <1>4, LessIsRead DEF FactsInv
<1> QED
    BY <1>1, <1>6, <1>7 DEF FactsInv

LEMMA PromoteKeeps ==
  ASSUME FactsInv, NEW text \in Texts, Promote(text)
  PROVE  FactsInv'
<1>1. /\ \E i \in Records(facts) : facts[i].text = text
      /\ Unpromoted(text)
      /\ shared' = Append(shared, Built(text)) /\ promoting' = <<Built(text)>>
      /\ UNCHANGED <<facts, closings, audit, clock>>
    BY DEF Promote
<1>2. Source(text) \in FactLines
  <2>1. \E i \in DOMAIN facts : facts[i].text = text /\ facts[i].readable
      BY <1>1 DEF Records
  <2>2. PICK i : i \in DOMAIN facts /\ Source(text) = facts[i]
      BY <2>1 DEF Source
  <2>3. facts \in Seq(FactLines)
      BY DEF FactsInv
  <2> QED
      BY <2>2, <2>3
<1>3. Audited(text) = {}
    BY <1>1 DEF Unpromoted
<1>4. Built(text) = [text |-> text, src |-> Source(text), at |-> clock]
    BY <1>3 DEF Built
<1> PICK line : line = Built(text)
    OBVIOUS
<1>5. line \in SharedLines /\ line.text = text
    BY <1>2, <1>4 DEF FactsInv, SharedLines
<1>6. /\ shared \in Seq(SharedLines) /\ Len(shared) \in Nat /\ DOMAIN shared = 1 .. Len(shared)
    BY DEF FactsInv
<1>7. /\ shared' \in Seq(SharedLines) /\ DOMAIN shared' = 1 .. Len(shared) + 1
      /\ \A i \in 1 .. Len(shared) : shared'[i] = shared[i]
      /\ shared'[Len(shared) + 1] = line
    BY <1>1, <1>5, <1>6, AppendProperties
<1>8. \A i \in DOMAIN shared : shared[i].text # text
    BY <1>1 DEF Unpromoted, TextsOf
<1>9. \A i \in DOMAIN shared' : i \in DOMAIN shared \/ i = Len(shared) + 1
    BY <1>6, <1>7
<1>10. PromotedOnce(shared')
    BY <1>5, <1>6, <1>7, <1>8, <1>9 DEF FactsInv, PromotedOnce
<1>11. promoting' \in {<<>>} \cup {<<x>> : x \in SharedLines}
    BY <1>1, <1>5
<1> QED
    BY <1>1, <1>7, <1>10, <1>11 DEF FactsInv

LEMMA UndoPromotionKeeps ==
  ASSUME FactsInv, UndoPromotion
  PROVE  FactsInv'
<1>1. /\ shared' = SubSeq(shared, 1, Len(shared) - 1)
      /\ UNCHANGED <<facts, closings, audit, promoting, clock>>
    BY DEF UndoPromotion
<1>2. shared \in Seq(SharedLines) /\ Len(shared) \in Nat
    BY DEF FactsInv
<1>3. Len(shared) - 1 \in Int /\ Len(shared) - 1 <= Len(shared)
    BY <1>2
<1>4. /\ shared' \in Seq(SharedLines)
      /\ \A i \in DOMAIN shared' : /\ i \in Nat /\ 1 + i - 1 \in DOMAIN shared
                                   /\ shared'[i] = shared[1 + i - 1]
    BY <1>1, <1>2, <1>3, StretchOfLines
<1>5. \A i \in DOMAIN shared' : i \in DOMAIN shared /\ shared'[i] = shared[i]
    BY <1>4
<1>6. PromotedOnce(shared')
    BY <1>5 DEF FactsInv, PromotedOnce
<1> QED
    BY <1>1, <1>4, <1>6 DEF FactsInv

LEMMA FactsInvStep == FactsInv /\ [FactNext]_factVars => FactsInv'
<1> SUFFICES ASSUME FactsInv, [FactNext]_factVars PROVE FactsInv'
    OBVIOUS
<1>1. ASSUME NEW b \in Batches, ApplyBatch(b) PROVE FactsInv'
    BY <1>1, BatchKeeps
<1>2. ASSUME NEW t \in Texts, Close(t) PROVE FactsInv'
    BY <1>2, CloseKeeps
<1>3. ASSUME NEW t \in Texts, Promote(t) PROVE FactsInv'
    BY <1>3, PromoteKeeps
<1>4. CASE WriteAudit
  <2>1. promoting \in {<<line>> : line \in SharedLines}
      BY <1>4 DEF FactsInv, WriteAudit
  <2>2. promoting[1] \in SharedLines
      BY <2>1
  <2> QED
      BY <1>4, <2>2 DEF FactsInv, WriteAudit
<1>5. CASE LoseAudit
    BY <1>5 DEF FactsInv, LoseAudit
<1>6. CASE UndoPromotion
    BY <1>6, UndoPromotionKeeps
<1>7. CASE Tick
    BY <1>7 DEF FactsInv, Tick
<1>8. CASE UNCHANGED factVars
    BY <1>8 DEF FactsInv, factVars
<1> QED
    BY <1>1, <1>2, <1>3, <1>4, <1>5, <1>6, <1>7, <1>8 DEF FactNext

LEMMA FactsInvImplies == FactsInv => AuthorityKept /\ StoredOnce
    BY DEF FactsInv, AuthorityKept, StoredOnce, Warranted, ReadOnce, PromotedOnce

\* In the files of a memory scope no fact is closed by less authority than it has, no
\* text is stored twice, privately or promoted, whatever is submitted and however
\* often, and the working state loses nothing (facts.rs, promote.rs, working_state.rs).
THEOREM ScopeIsKept == ScopeSpec => []ScopeKept
<1>1. FactSpec => []FactsInv
    BY FactsInvInit, FactsInvStep, PTL DEF FactSpec
<1>2. FactsInv /\ WorkingSound => ScopeKept
    BY FactsInvImplies DEF ScopeKept
<1> QED
    BY <1>1, <1>2, WorkingIsKept, PTL DEF ScopeSpec
=============================================================================
