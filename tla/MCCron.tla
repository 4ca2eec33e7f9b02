-------------------------------- MODULE MCCron --------------------------------
(* Instances of the cron runner for TLC: one task, three processes. *)
EXTENDS CronRun, TLC

\* The processes differ by nothing but their ids.
RunnerSymmetry == Permutations(Runners)

=============================================================================
