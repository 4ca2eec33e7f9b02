---------------------------- MODULE TokenRefresh ----------------------------
(* The adopted ChatGPT credentials (src/provider/chatgpt_auth.rs): one store  *)
(* directory, any number of processes that use it, and an issuer that may     *)
(* rotate the refresh token in an exchange or leave it as it is.              *)
(*                                                                            *)
(* The process cannot know whether a lost exchange rotated the stored token,  *)
(* so a marker is written before and only removed after the new credentials   *)
(* are in place.  Credentials are known by the generation of their refresh    *)
(* token; 0 is what Codex logged in with.                                     *)
EXTENDS Naturals, FiniteSets

CONSTANTS Processes, Nobody,
          MaxGeneration, MaxMishaps     \* bounds of the instance

ASSUME AuthAssumption == Nobody \notin Processes /\ MaxGeneration \in Nat

VARIABLES codex,     \* the generation in Codex's auth.json, or Absent
          managed,   \* the generation in danso-auth.json, or Absent
          staged,    \* a generation in a new private file, or Absent
          pending,   \* the marker of an exchange whose outcome is unknown
          holder,    \* who holds the flock on the store, or Nobody
          at,        \* [Processes -> what the process is about to do]
          reply,     \* the generation the reply leads to, or Absent
          expired,   \* the stored access token is within 60 s of its end
          issued,    \* the issuer's current generation
          rotated,   \* generations the issuer has replaced by later ones
          doubtful,  \* generations sent in a renewal that was not completed with them
          misspent,  \* generations sent although they were one of these
          mishaps
authVars == <<codex, managed, staged, pending, holder, at, reply, expired,
              issued, rotated, doubtful, misspent, mishaps>>

Generations == 0..MaxGeneration
Absent == MaxGeneration + 1

AuthInit ==
    /\ codex = 0 /\ managed = Absent /\ staged = Absent
    /\ pending = FALSE /\ holder = Nobody
    /\ at = [p \in Processes |-> "idle"]
    /\ reply = Absent /\ expired = FALSE /\ issued = 0
    /\ rotated = {} /\ doubtful = {} /\ misspent = {} /\ mishaps = 0

store == <<codex, managed, staged, pending>>
issuer == <<issued, rotated, doubtful, misspent>>

\* Leaving the critical section, whatever the outcome: the lock file is closed.
Leave(p) == holder' = Nobody /\ at' = [at EXCEPT ![p] = "idle"]
Go(p, where) == at' = [at EXCEPT ![p] = where] /\ holder' = p

------------------------------------------------------------------------------
(* adopt: Codex's file becomes the managed store.                             *)

\* The checks and the staged copy.
Adopt(p) ==
    /\ holder = Nobody /\ at[p] = "idle"
    /\ managed = Absent /\ ~pending /\ codex # Absent
    /\ staged' = codex /\ Go(p, "take")
    /\ UNCHANGED <<codex, managed, pending, reply, expired, issuer, mishaps>>

\* auth.json moves aside, then the copy takes its place.
TakeCodex(p) ==
    /\ at[p] = "take"
    /\ codex' = Absent /\ Go(p, "install")
    /\ UNCHANGED <<managed, staged, pending, reply, expired, issuer, mishaps>>
InstallAdopted(p) ==
    /\ at[p] = "install"
    /\ managed' = staged /\ staged' = Absent /\ Leave(p)
    /\ UNCHANGED <<codex, pending, reply, expired, issuer, mishaps>>

------------------------------------------------------------------------------
(* access: credentials for one request.  A token that is good for another     *)
(* minute is handed out and changes nothing.                                  *)

\* Mutant of Usable: the marker is not looked at.
UsableUnmarked == codex = Absent /\ managed # Absent
\* Directory::managed.
Usable == codex = Absent /\ ~pending /\ managed # Absent

\* The marker is written before the exchange.
Mark(p) ==
    /\ holder = Nobody /\ at[p] = "idle" /\ Usable /\ expired
    /\ pending' = TRUE /\ Go(p, "exchange")
    /\ UNCHANGED <<codex, managed, staged, reply, expired, issuer, mishaps>>

\* The stored refresh token reaches the issuer.
Received ==
    /\ misspent' = misspent \cup ({managed} \cap (rotated \cup doubtful))
    /\ doubtful' = doubtful \cup {managed}
\* The issuer puts a new refresh token in its place, or leaves it.
Rotated == issued < MaxGeneration /\ issued' = issued + 1 /\ rotated' = rotated \cup {managed}
Unrotated == UNCHANGED <<issued, rotated>>

\* A reply without a refresh token keeps the stored one.
Exchange(p) ==
    /\ at[p] = "exchange" /\ managed # Absent /\ Received
    /\ \/ Rotated /\ reply' = issued + 1
       \/ Unrotated /\ reply' = managed
    /\ Go(p, "check")
    /\ UNCHANGED <<store, expired, mishaps>>

\* The request or its answer is lost, or the answer is none the code takes: the
\* call fails and the marker stays.
ExchangeLost(p) ==
    /\ at[p] = "exchange" /\ mishaps < MaxMishaps
    /\ \/ Received /\ (Rotated \/ Unrotated)
       \/ UNCHANGED issuer
    /\ Leave(p) /\ mishaps' = mishaps + 1
    /\ UNCHANGED <<store, reply, expired>>

\* The exchange let other programs run: a Codex login that came back in the
\* meantime wins, and the marker stays.
Reappeared(p) ==
    /\ at[p] = "check" /\ codex # Absent
    /\ reply' = Absent /\ Leave(p)
    /\ UNCHANGED <<store, expired, issuer, mishaps>>

\* replace: the new generation beside the old one, the old one archived, the
\* new one in its place; then the marker becomes a receipt.
Stage(p) ==
    /\ at[p] = "check" /\ codex = Absent
    /\ staged' = reply /\ Go(p, "archive")
    /\ UNCHANGED <<codex, managed, pending, reply, expired, issuer, mishaps>>
Archive(p) ==
    /\ at[p] = "archive"
    /\ managed' = Absent /\ Go(p, "replace")
    /\ UNCHANGED <<codex, staged, pending, reply, expired, issuer, mishaps>>
Replace(p) ==
    /\ at[p] = "replace"
    /\ managed' = staged /\ staged' = Absent /\ expired' = FALSE /\ Go(p, "receipt")
    /\ UNCHANGED <<codex, pending, reply, issuer, mishaps>>
Receipt(p) ==
    /\ at[p] = "receipt"
    /\ pending' = FALSE /\ reply' = Absent /\ Leave(p)
    /\ doubtful' = doubtful \ {managed}
    /\ UNCHANGED <<codex, managed, staged, expired, issued, rotated, misspent, mishaps>>

------------------------------------------------------------------------------
(* The world.                                                                 *)

\* The process dies; what it staged stays behind under a name of its own.
Crash(p) ==
    /\ at[p] # "idle" /\ mishaps < MaxMishaps
    /\ Leave(p) /\ staged' = Absent /\ reply' = Absent /\ mishaps' = mishaps + 1
    /\ UNCHANGED <<codex, managed, pending, expired, issuer>>

Expire ==
    /\ ~expired /\ managed # Absent /\ expired' = TRUE
    /\ UNCHANGED <<store, holder, at, reply, issuer, mishaps>>

\* The operator logs in with Codex again: a new generation in auth.json.
CodexLogin ==
    /\ codex = Absent /\ issued < MaxGeneration /\ mishaps < MaxMishaps
    /\ codex' = issued + 1 /\ issued' = issued + 1
    /\ mishaps' = mishaps + 1
    /\ UNCHANGED <<managed, staged, pending, holder, at, reply, expired, rotated,
                   doubtful, misspent>>

AuthNext ==
    \/ \E p \in Processes :
        \/ Adopt(p) \/ TakeCodex(p) \/ InstallAdopted(p)
        \/ Mark(p) \/ Exchange(p) \/ ExchangeLost(p)
        \/ Reappeared(p) \/ Stage(p) \/ Archive(p) \/ Replace(p) \/ Receipt(p)
        \/ Crash(p)
    \/ Expire \/ CodexLogin

AuthSpec == AuthInit /\ [][AuthNext]_authVars

------------------------------------------------------------------------------
\* "Never retry an ambiguous exchange" (chatgpt_auth.rs): whatever crashed or was
\* lost in between, and whoever else uses the store, no refresh token is sent that
\* the issuer has rotated away, nor one whose last renewal was not completed; a
\* token that an answer kept may be sent again.
NoMisspentToken == misspent = {}
==============================================================================
