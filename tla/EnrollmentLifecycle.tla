------------------------ MODULE EnrollmentLifecycle ------------------------
(***************************************************************************)
(* The life of one enrollment as the enrollment service promises it: a     *)
(* student applies, an admin decides, the student may withdraw, and whoever*)
(* was rejected waits out the cooloff period before applying again.        *)
(***************************************************************************)
EXTENDS Naturals

CONSTANT Cooloff

VARIABLES state, rejectedAt, now

vars == <<state, rejectedAt, now>>

Init == state = "none" /\ rejectedAt = 0 /\ now = 1

Apply ==
  /\ \/ state \in {"none", "withdrawn"}
     \/ state = "rejected" /\ now - rejectedAt >= Cooloff
  /\ state' = "pending" /\ rejectedAt' = 0
  /\ UNCHANGED now

Approve ==
  /\ state = "pending"
  /\ state' = "approved"
  /\ UNCHANGED <<rejectedAt, now>>

\* The rejection is dated when it is decided, a little before it is stored.
Reject ==
  /\ state = "pending"
  /\ state' = "rejected" /\ rejectedAt' \in 1 .. now
  /\ UNCHANGED now

Withdraw ==
  /\ state \in {"pending", "approved"}
  /\ state' = "withdrawn"
  /\ UNCHANGED <<rejectedAt, now>>

Tick == now' > now /\ UNCHANGED <<state, rejectedAt>>

Next == Apply \/ Approve \/ Reject \/ Withdraw \/ Tick

Spec == Init /\ [][Next]_vars
============================================================================
