------------------------------- MODULE MCStack -------------------------------
(* Two operators on one host.                                              *)
EXTENDS Stack

CONSTANTS o1, o2
=============================================================================
