-------------------------- MODULE MCLogindWatcher --------------------------
(* Instances of LogindWatcher for TLC.                                     *)
EXTENDS LogindWatcher, TLC

Symmetry == Permutations(Slots) \cup Permutations(Fds)
=============================================================================
