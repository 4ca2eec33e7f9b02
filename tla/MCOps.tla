------------------------------- MODULE MCOps -------------------------------
(* Restart handoff and service life are checked side by side: each behaviour *)
(* is one of the first or one of the second, the other staying as it began.   *)
EXTENDS RestartHandoff, ServiceLife, TLC

VARIABLE part

OpsInit == part \in {"handoff", "service"} /\ HandoffInit /\ ServiceInit
OpsNext ==
  /\ \/ part = "handoff" /\ HandoffNext /\ UNCHANGED serviceVars
     \/ part = "service" /\ ServiceNext /\ UNCHANGED handoffVars
  /\ UNCHANGED part
OpsSpec == OpsInit /\ [][OpsNext]_<<part, handoffVars, serviceVars>>

OpsSymmetry == Permutations(Requests) \cup Permutations(Procs)
=============================================================================
