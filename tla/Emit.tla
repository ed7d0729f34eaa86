-------------------------------- MODULE Emit --------------------------------
(***************************************************************************)
(* cli/_commands/emit.py: `events emit`, a process that makes an           *)
(* EventClient, waits for its connection, publishes one event, waits for   *)
(* the confirmation, closes the client and exits; and its operator, who    *)
(* runs it again with a new event (a new id is minted by every run) until  *)
(* it exits with 0.  A program that only uses the client runs here, too.   *)
(***************************************************************************)
EXTENDS EventClient

VARIABLES
    program,        \* "library" or "emit"
    step,           \* what the running emit does next, "idle" between runs
    event,          \* its event, {} between runs
    told            \* how the run for each event has ended

emitVars == <<program, step, event, told>>
allVars == <<vars, emitVars>>

EmitInit ==
    /\ Init
    /\ program \in {"library", "emit"}
    /\ program = "emit" => ~announces /\ hot = {}
    /\ step = "idle" /\ event = {}
    /\ told = [m \in Message |-> "not run"]

(* One event of the operator's, tried until it is accepted.                *)
NextTry(m) ==
    /\ program = "emit" /\ step = "idle"
    /\ told[m] = "not run"
    /\ \A n \in Message : told[n] \notin {"0", "1"}

(* --data cannot be read, the event is invalid or the broker's address is: *)
(* exit code 1 before there is a client.                                   *)
Refuse(m) ==
    /\ NextTry(m)
    /\ told' = [told EXCEPT ![m] = "1"]
    /\ UNCHANGED <<program, step, event, vars>>

(* EventClient() in a new process, under a client id of its own, whose     *)
(* connect() starts the loop's thread or fails to.                         *)
Construct(m) ==
    /\ NextTry(m)
    /\ step' = "await"
    /\ event' = {m}
    /\ \/ /\ loopStarted' = TRUE /\ net' = "dial"
          /\ caller' = "started" /\ state' = "idle"
       \/ /\ loopStarted' = FALSE /\ net' = "none"
          /\ caller' = "ready" /\ state' = "disconnected"
    /\ paho' = "connecting" /\ out' = <<>> /\ unacked' = <<>>
    /\ waiting' = {} /\ link' = "down"
    /\ UNCHANGED <<program, told, config, result, retained, taken, drops, lives>>

(* Mutant: the connection is waited for without a deadline.                *)
AwaitForever ==
    /\ step = "await" /\ caller = "ready"
    /\ IsConnected
    /\ step' = "publish"
    /\ UNCHANGED <<program, event, told, vars>>

(* _await_connection(): connected, or the wait has expired.                *)
Await ==
    /\ step = "await" /\ caller = "ready"
    /\ step' = "publish"
    /\ UNCHANGED <<program, event, told, vars>>

EmitPublishes ==
    /\ step = "publish"
    /\ \E m \in event : PublishAndWait(m) \/ PublishRefused(m)
    /\ step' = "close"
    /\ UNCHANGED <<program, event, told>>

EmitCloses ==
    /\ step = "close"
    /\ Close
    /\ step' = "exit"
    /\ UNCHANGED <<program, event, told>>

(* Mutant: what paho has accepted counts as published.                     *)
ExitCodeAccepted(m) == IF result[m] \in {"confirmed", "unconfirmed"} THEN "0" ELSE "2"

ExitCode(m) == IF result[m] = "confirmed" THEN "0" ELSE "2"

EmitExits ==
    /\ step = "exit" /\ caller = "ready"
    /\ told' = [m \in Message |-> IF m \in event THEN ExitCode(m) ELSE told[m]]
    /\ step' = "idle"
    /\ event' = {}
    /\ UNCHANGED <<program, vars>>

(* The process dies; what it has written may still arrive.                 *)
Killed ==
    /\ step # "idle"
    /\ told' = [m \in Message |-> IF m \in event THEN "killed" ELSE told[m]]
    /\ result' = [m \in Message |-> IF m \in event THEN "killed" ELSE result[m]]
    /\ step' = "idle"
    /\ event' = {}
    /\ \E n \in 0..Len(out) :
           taken' = taken \cup (Message \cap Elements(SubSeq(out, 1, n)))
    /\ net' = "none" /\ out' = <<>> /\ caller' = "ready" /\ waiting' = {}
    /\ link' = "down" /\ loopStarted' = FALSE /\ state' = "idle"
    /\ UNCHANGED <<program, config, paho, unacked, retained, drops, lives>>

(* The operator has stopped.                                               *)
Rests ==
    /\ program = "emit" /\ step = "idle"
    /\ \A m \in Message : ~NextTry(m)
    /\ UNCHANGED allVars

EmitMoves == Await \/ EmitPublishes \/ EmitCloses \/ EmitExits

EmitNext ==
    \/ program = "library" /\ Next /\ UNCHANGED emitVars
    \/ /\ program = "emit"
       /\ CallerMoves \/ NetMoves \/ Refused \/ Drop \/ WillFires
       /\ UNCHANGED emitVars
    \/ \E m \in Message : Refuse(m) \/ Construct(m)
    \/ EmitMoves \/ Killed \/ Rests

EmitSpec == EmitInit /\ [][EmitNext]_allVars

(* The script goes on, too: the two waits of emit are bounded.             *)
EmitFairSpec == EmitSpec /\ Fairness /\ WF_allVars(EmitMoves)

-----------------------------------------------------------------------------
(* What the exit code says holds: 0 only if the broker has taken the event *)
(* ("it can report success for bytes that never left" is what the second   *)
(* wait prevents, emit.py 203-207), 1 only if nothing was published        *)
(* ("nothing was published", emit.py 259), whatever runs were killed or    *)
(* disconnected before.                                                    *)
ExitsAreTrue ==
    \A m \in Message :
        /\ told[m] = "0" => m \in taken
        /\ told[m] = "1" => m \notin taken

(* "a broker that is down costs _CONNECT_WAIT seconds and then reports a   *)
(* clean exit-2 failure rather than hanging the caller" (emit.py 209-211): *)
(* every run ends, and with an exit code unless it is killed.              *)
EmitAnswers == (step # "idle") ~> (step = "idle")

(* An operator who retries until emit exits with 0 has said it once.       *)
SaidOnce == \A m, n \in taken : program = "emit" => m = n
=============================================================================
