---------------------------- MODULE MCJsonlCommit ---------------------------
(* Two processes append three events to one subscription.  The first id    *)
(* is the beginning of the third, and glued to the second it is the third. *)
EXTENDS JsonlBackend

CONSTANTS b1, b2

ThreeIds == {<<b1>>, <<b2>>, <<b1, b2>>}
=============================================================================
