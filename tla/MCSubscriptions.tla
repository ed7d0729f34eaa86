---------------------------- MODULE MCSubscriptions ----------------------------
EXTENDS Subscriptions, TLC
CONSTANTS a1, a2, a3, f1, f2, f3
Symmetry == Permutations(Caller) \cup Permutations(Filter)
===============================================================================
