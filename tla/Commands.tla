------------------------------ MODULE Commands ------------------------------
(* The executor (Executor) under names of its own, for the modules that    *)
(* speak of the jobs too.                                                  *)

CONSTANTS Runners, Pids, MaxBorn, MaxStops

VARIABLES procs, started, runner, note, server, asking, stops, failed, stray

executorVars == <<procs, started, runner, note, server, asking, stops, failed, stray>>

X == INSTANCE Executor WITH born <- started, crashes <- stops, record <- note, MaxCrashes <- MaxStops

(* The property of Executor: the recovery kills only what its record       *)
(* names, and a killed group is gone when that is said.                    *)
KillIsExact == X!KillIsExact
=============================================================================
