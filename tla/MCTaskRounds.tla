---------------------------- MODULE MCTaskRounds ----------------------------
(* TaskRounds on small instances.  No review gets a later generation than  *)
(* MaxGen: the exploration ends there.                                     *)
EXTENDS TaskRounds
=============================================================================
