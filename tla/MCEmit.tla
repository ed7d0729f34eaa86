------------------------------- MODULE MCEmit -------------------------------
(* One client or one emit after the other, connections that break.         *)
EXTENDS Emit

CONSTANTS m1, m2
=============================================================================
