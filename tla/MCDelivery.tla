----------------------------- MODULE MCDelivery -----------------------------
(* Instances of Delivery for TLC: threads and patches are interchangeable. *)
EXTENDS Delivery, TLC

Symmetry == Permutations(Threads) \cup Permutations(Patches)
=============================================================================
