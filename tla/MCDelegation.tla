---------------------------- MODULE MCDelegation ----------------------------
(* Delegation on small instances.                                          *)
EXTENDS Delegation, TLC

MCSymmetry == Permutations(Jobs) \cup Permutations(Snapshots)
=============================================================================
