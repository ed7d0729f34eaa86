-------------------------- MODULE MCJsonlPowerLoss --------------------------
(* One process, three events, files cut anywhere.  The first id is the     *)
(* beginning of the third, and glued to the second it is the third.        *)
EXTENDS JsonlPowerLoss

CONSTANTS b1, b2

ThreeIds == {<<b1>>, <<b2>>, <<b1, b2>>}
=============================================================================
