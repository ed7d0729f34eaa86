------------------------------- MODULE MCDrain -------------------------------
(* A few messages, one caller or two, and every fault the bounds allow.    *)
EXTENDS Drain, TLC

Symmetry == Permutations(Event \ Unstorable) \cup Permutations(Watcher)
=============================================================================
