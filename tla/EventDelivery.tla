--------------------------- MODULE EventDelivery ---------------------------
(***************************************************************************)
(* What the outbox promises for ONE domain event: the event is published   *)
(* once, its consumers receive it in the order of its route, it is settled *)
(* as "delivered" only when every consumer has received it, and a settled  *)
(* event is never reopened.  Retries and duplicates are invisible at this  *)
(* level: a consumer that receives the event again changes nothing.        *)
(***************************************************************************)
EXTENDS Naturals

CONSTANT N                  \* number of consumers on the event's route

VARIABLES status, received

vars == <<status, received>>

Init == status = "absent" /\ received = {}

Publish == status = "absent" /\ status' = "waiting" /\ UNCHANGED received

\* The next consumer of the route receives the event for the first time;
\* a request under way when the event is given up may still arrive.
Receive(i) ==
  /\ status \in {"waiting", "failed"}
  /\ i \notin received /\ 1 .. i - 1 \subseteq received
  /\ received' = received \cup {i}
  /\ UNCHANGED status

Deliver ==
  /\ status = "waiting" /\ received = 1 .. N
  /\ status' = "delivered"
  /\ UNCHANGED received

GiveUp == status = "waiting" /\ status' = "failed" /\ UNCHANGED received

Next == Publish \/ (\E i \in 1 .. N : Receive(i)) \/ Deliver \/ GiveUp

Spec == Init /\ [][Next]_vars
============================================================================
