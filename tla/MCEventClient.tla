---------------------------- MODULE MCEventClient ----------------------------
(* One client, two messages, connections that break.                       *)
EXTENDS EventClient

CONSTANTS m1, m2
=============================================================================
