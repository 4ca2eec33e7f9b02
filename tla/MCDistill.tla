------------------------------ MODULE MCDistill ------------------------------
(* The distill queue with one drain at a time, and with two that share one job. *)
EXTENDS DistillJobs

OneOrTwo == {[drains |-> {CHOOSE w \in Workers : TRUE}, jobs |-> Jobs, max_jobs |-> 2],
             [drains |-> Workers, jobs |-> {CHOOSE j \in Jobs : TRUE}, max_jobs |-> 1]}
=============================================================================
