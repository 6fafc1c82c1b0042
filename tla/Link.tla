--------------------------------- MODULE Link ---------------------------------
(***************************************************************************)
(* What the two ends that reconnect promise, the SDK's transport and the   *)
(* dashboard's WebSocketService: a link that is lost comes up again until  *)
(* its owner lets go of it, or the server refuses its owner.  Neither how  *)
(* often it tries nor how many sockets that takes can be seen.             *)
(***************************************************************************)
CONSTANT Renewable   (* whether a link that was let go of may be wanted again *)

VARIABLE link        (* "gone", "down" or "up"                                *)

Init == link \in {"gone", "down"}

Want      == Renewable /\ link = "gone" /\ link' = "down"
Establish == link = "down" /\ link' = "up"
Lose      == link = "up" /\ link' = "down"
LetGo     == link \in {"down", "up"} /\ link' = "gone"

Next == Want \/ Establish \/ Lose \/ LetGo

Spec == Init /\ [][Next]_link

\* A link is not left down.
Fairness == WF_link(Establish \/ (link = "down" /\ LetGo))

FairSpec == Spec /\ Fairness
=============================================================================
