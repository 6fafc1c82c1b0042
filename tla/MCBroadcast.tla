----------------------------- MODULE MCBroadcast -----------------------------
(* A small instance of Broadcast, with two connections: the heartbeat is kept *)
(* or stopped for the sake of the other one.  Bound: events are broadcast     *)
(* during the first session, the last of them with no end of it; a session    *)
(* is replaced by another where there are no events.                          *)
EXTENDS Broadcast

EventsEarly == sent > 0 => sessions = 1 /\ (sent = MaxEvents => token = 1)

MCSpec == Init /\ [][Next /\ EventsEarly']_vars /\ Fairness
=============================================================================
