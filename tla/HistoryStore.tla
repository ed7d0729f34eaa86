---------------------------- MODULE HistoryStore ----------------------------
(***************************************************************************)
(* What the history store promises for one subscription, with no files and *)
(* no locks: an append-only sequence of distinct events, where an append   *)
(* answers with the event's position and a repeated append answers with    *)
(* the position the event already has.  This is the contract written in    *)
(* history/backend.py (HistoryBackend.append) and relied on by the drain.  *)
(* Subscriptions share nothing, so one is enough.                          *)
(***************************************************************************)
EXTENDS Naturals, Sequences

CONSTANT Event      \* the events (envelope ids) producers may publish

VARIABLES
    history,        \* the committed events, in sequence order
    returned        \* every <<event, seq>> some append has answered

vars == <<history, returned>>

Init ==
    /\ history = <<>>
    /\ returned = {}

Holds(e) == \E i \in 1..Len(history) : history[i] = e

(* The moment an append takes effect.  No caller may ever be told: the     *)
(* process can die before it answers.                                      *)
Commit(e) ==
    /\ ~Holds(e)
    /\ history' = Append(history, e)
    /\ UNCHANGED returned

(* An append answers: only with the position the event really has.         *)
Answer(e, seq) ==
    /\ seq \in 1..Len(history)
    /\ history[seq] = e
    /\ returned' = returned \cup {<<e, seq>>}
    /\ UNCHANGED history

Next ==
    \E e \in Event :
        \/ Commit(e)
        \/ \E seq \in 1..Len(history) : Answer(e, seq)

Spec == Init /\ [][Next]_vars
=============================================================================
