------------------------- MODULE OutboxWorkerProofs -------------------------
(***************************************************************************)
(* Theorems about OutboxWorker for any set of events, route table entry,   *)
(* number of workers, overlapping batches, crashes and rejected updates.   *)
(***************************************************************************)
EXTENDS OutboxWorker, TLAPS

(* Every route, and the absent route of an unknown type, is a sequence.    *)
LEMMA RouteLength == ASSUME NEW e PROVE Len(Handlers(e)) \in Nat
  BY SMT DEF Handlers, ROUTES, AuditOnly, NotifyThenAudit

(* What a rejected or accepted update leaves behind: one document changes, *)
(* and it changes to what was written.                                     *)
LEMMA WriteEffect ==
  ASSUME TypeOK, NEW e \in Events, NEW o \in Outcomes,
         NEW status \in {"pending", "processing", "delivered", "failed"}, NEW n \in Nat,
         Write(e, status, n, o)
  PROVE  /\ outbox' \in [Events -> Doc]
         /\ faults' \in 0 .. MaxStoreFaults
         /\ \A f \in Events : \/ outbox'[f] = outbox[f]
                              \/ f = e /\ outbox'[f].status = status /\ outbox'[f].attempts = n
  BY WorkerAssumption, SMT DEF TypeOK, Write, Doc

(* Every step keeps the types.                                             *)
LEMMA TypeStep == TypeOK /\ [Next]_vars => TypeOK'
<1> USE WorkerAssumption
<1> SUFFICES ASSUME TypeOK, [Next]_vars PROVE TypeOK'
  OBVIOUS
<1>1. ASSUME NEW e \in Events, NEW t \in Times, Publish(e, t) PROVE TypeOK'
  BY <1>1, SMT DEF Publish, TypeOK, Doc
<1>2. ASSUME NEW s \in Slots, Poll(s) PROVE TypeOK'
  BY <1>2, SMT DEF Poll, TypeOK, Task, NoTask, Doc
<1>3. ASSUME NEW s \in Slots, NEW e \in Events, NEW o \in Outcomes, Claim(s, e, o)
      PROVE TypeOK'
  <2>1. outbox[e].attempts \in Nat
    BY SMT DEF TypeOK, Doc
  <2>2. outbox' \in [Events -> Doc] /\ faults' \in 0 .. MaxStoreFaults
    BY <1>3, <2>1, WriteEffect DEF Claim
  <2> QED BY <1>3, <2>1, <2>2, SMT DEF Claim, TypeOK, Task, NoTask
<1>4. ASSUME NEW s \in Slots, NEW e \in Events, NEW o \in Outcomes, MarkDelivered(s, e, o)
      PROVE TypeOK'
  <2>1. outbox[e].attempts \in Nat
    BY SMT DEF TypeOK, Doc
  <2>2. outbox' \in [Events -> Doc] /\ faults' \in 0 .. MaxStoreFaults
    BY <1>4, <2>1, WriteEffect DEF MarkDelivered
  <2> QED BY <1>4, <2>1, <2>2, SMT DEF MarkDelivered, TypeOK, Task, NoTask
<1>5. ASSUME NEW s \in Slots, NEW e \in Events, NEW o \in Outcomes, HandleFailure(s, e, o)
      PROVE TypeOK'
  <2>1. task[s][e].data + 1 \in Nat
    BY SMT DEF TypeOK, Task
  <2>2. outbox' \in [Events -> Doc] /\ faults' \in 0 .. MaxStoreFaults
    BY <1>5, <2>1, WriteEffect DEF HandleFailure
  <2> QED BY <1>5, <2>1, <2>2, SMT DEF HandleFailure, TypeOK, Task, NoTask
<1>6. ASSUME NEW s \in Slots, NEW e \in Events, SendOk(s, e) PROVE TypeOK'
  BY <1>6, RouteLength, SMT DEF SendOk, TypeOK, Task
<1>7. ASSUME NEW s \in Slots, NEW e \in Events, SendFail(s, e) PROVE TypeOK'
  BY <1>7, SMT DEF SendFail, TypeOK, Task
<1>8. ASSUME NEW w \in Workers, Crash(w) PROVE TypeOK'
  BY <1>8, SMT DEF Crash, TypeOK, Task, NoTask
<1>9. ASSUME NEW e \in Events, NEW i \in late[e], Arrive(e, i) PROVE TypeOK'
  BY <1>9, SMT DEF Arrive, TypeOK
<1>10. CASE UNCHANGED vars
  BY <1>10 DEF vars, TypeOK
<1> QED BY <1>1, <1>2, <1>3, <1>4, <1>5, <1>6, <1>7, <1>8, <1>9, <1>10 DEF Next, Step

(* The documents, tasks and counters keep their types.                     *)
THEOREM TypeCorrect == Spec => []TypeOK
<1>1. Init => TypeOK
  BY WorkerAssumption, SMT DEF Init, TypeOK, Doc, Task, NoTask
<1> QED BY <1>1, TypeStep, PTL DEF Spec

(* A step that leaves an event's document alone, or rewrites it with a     *)
(* status and attempts that are covered, keeps the facts about documents.  *)
LEMMA RecordsKept ==
  ASSUME TypeOK, DeliveryInv, NEW e \in Events,
         outbox' \in [Events -> Doc], tries' \in [Events -> Nat],
         received' = received,
         \A f \in Events : tries[f] <= tries'[f],
         \A f \in Events : outbox'[f] = outbox[f] \/ f = e,
         outbox'[e] # outbox[e] =>
           /\ outbox'[e].status = "delivered" => received[e] = 1 .. Len(Handlers(e))
           /\ outbox'[e].attempts <= tries'[e]
           /\ outbox'[e].status = "failed" => tries'[e] >= MAX_ATTEMPTS
  PROVE  DeliveredToAll' /\ FailedOnlyAfterMaxTries' /\ InRouteOrder'
<1> USE WorkerAssumption
<1>1. DeliveredToAll'
  BY SMT DEF DeliveryInv, DeliveredToAll, Handlers
<1>2. FailedOnlyAfterMaxTries'
  <2> SUFFICES ASSUME NEW f \in Events
               PROVE  /\ outbox'[f].attempts <= tries'[f]
                      /\ outbox'[f].status = "failed" => tries'[f] >= MAX_ATTEMPTS
    BY DEF FailedOnlyAfterMaxTries
  <2>1. outbox[f].attempts \in Nat /\ tries[f] \in Nat /\ tries'[f] \in Nat
    BY SMT DEF TypeOK, Doc
  <2>2. outbox[f].attempts <= tries[f] /\ (outbox[f].status = "failed" => tries[f] >= MAX_ATTEMPTS)
    BY DEF DeliveryInv, FailedOnlyAfterMaxTries
  <2>3. CASE outbox'[f] = outbox[f]
    <3>1. tries[f] <= tries'[f]
      OBVIOUS
    <3> QED BY <2>1, <2>2, <2>3, <3>1, SMT
  <2>4. CASE outbox'[f] # outbox[f]
    BY <2>4
  <2> QED BY <2>3, <2>4
<1>3. InRouteOrder'
  BY DEF DeliveryInv, InRouteOrder
<1> QED BY <1>1, <1>2, <1>3

(* A step that moves one task, and only adds receipts and tries, keeps     *)
(* every task fitting if that task fits.                                   *)
LEMMA TasksKept ==
  ASSUME TypeOK, TypeOK', TaskInv, NEW s \in Slots, NEW e \in Events,
         \A r \in Slots, f \in Events : task'[r][f] = task[r][f] \/ (r = s /\ f = e),
         \A f \in Events : received[f] \subseteq received'[f],
         \A f \in Events : tries[f] <= tries'[f],
         TaskFits(task[s][e], e)'
  PROVE  TaskInv'
<1> SUFFICES ASSUME NEW r \in Slots, NEW f \in Events PROVE TaskFits(task[r][f], f)'
  BY DEF TaskInv
<1>1. CASE task'[r][f] = task[r][f]
  <2>1. TaskFits(task[r][f], f)
    BY DEF TaskInv
  <2>2. received[f] \subseteq received'[f] /\ tries[f] <= tries'[f]
    OBVIOUS
  <2>3. tries[f] \in Nat /\ tries'[f] \in Nat /\ task[r][f].data \in Nat
    BY SMT DEF TypeOK, Task
  <2> QED BY <1>1, <2>1, <2>2, <2>3, SMT DEF TaskFits
<1>2. CASE r = s /\ f = e
  BY <1>2
<1> QED BY <1>1, <1>2

(* The strengthened invariant is kept by every step: only the step's own   *)
(* event can lose a fact, and only through its own task, what it received  *)
(* or its document.                                                        *)
LEMMA DeliveryStep == TypeOK /\ DeliveryInv /\ [Next]_vars => DeliveryInv'
<1> SUFFICES ASSUME TypeOK, DeliveryInv, [Next]_vars PROVE DeliveryInv'
  OBVIOUS
<1> USE WorkerAssumption
<1>0. TypeOK' /\ LateInv /\ TaskInv /\ InRouteOrder /\ DeliveredToAll /\ FailedOnlyAfterMaxTries
  BY TypeStep DEF DeliveryInv
<1>types. /\ outbox' \in [Events -> Doc] /\ tries' \in [Events -> Nat]
          /\ \A f \in Events : outbox[f].attempts \in Nat /\ tries[f] \in Nat
          /\ \A r \in Slots, f \in Events : task[r][f].data \in Nat /\ task[r][f].next \in Nat \ {0}
  BY <1>0, SMT DEF TypeOK, Doc, Task
<1>1. ASSUME NEW e \in Events, NEW t \in Times, Publish(e, t) PROVE DeliveryInv'
  <2>1. DeliveredToAll' /\ FailedOnlyAfterMaxTries' /\ InRouteOrder'
    <3>1. outbox'[e].status = "pending" /\ outbox'[e].attempts = 0
      BY <1>1, SMT DEF Publish, TypeOK
    <3>2. \A f \in Events : outbox'[f] = outbox[f] \/ f = e
      BY <1>1, SMT DEF Publish, TypeOK
    <3>3. received' = received /\ tries' = tries /\ \A f \in Events : tries[f] <= tries'[f] /\ 0 <= tries'[f]
      BY <1>1, <1>types, SMT DEF Publish
    <3> QED BY <1>types, <3>1, <3>2, <3>3, RecordsKept
  <2>2. TaskInv' /\ LateInv'
    BY <1>0, <1>1 DEF Publish, TaskInv, TaskFits, LateInv
  <2> QED BY <2>1, <2>2 DEF DeliveryInv
<1>2. ASSUME NEW s \in Slots, Poll(s) PROVE DeliveryInv'
  <2>1. TaskInv'
    <3> SUFFICES ASSUME NEW r \in Slots, NEW e \in Events PROVE TaskFits(task[r][e], e)'
      BY DEF TaskInv
    <3>1. received' = received /\ tries' = tries
      BY <1>2 DEF Poll
    <3>2. CASE task'[r][e] = task[r][e]
      BY <1>0, <3>1, <3>2 DEF TaskInv, TaskFits
    <3>3. CASE task'[r][e].pc = "none"
      BY <3>3 DEF TaskFits
    <3>4. CASE task'[r][e].pc = "claim" /\ task'[r][e].data = outbox[e].attempts
      BY <1>0, <3>1, <3>4 DEF FailedOnlyAfterMaxTries, TaskFits
    <3> QED BY <1>2, <3>2, <3>3, <3>4, SMT DEF Poll, TypeOK, NoTask
  <2>2. DeliveredToAll' /\ FailedOnlyAfterMaxTries' /\ InRouteOrder' /\ LateInv'
    BY <1>0, <1>2 DEF Poll, DeliveredToAll, FailedOnlyAfterMaxTries, InRouteOrder, LateInv
  <2> QED BY <2>1, <2>2 DEF DeliveryInv
<1>3. ASSUME NEW s \in Slots, NEW e \in Events, NEW o \in Outcomes, Claim(s, e, o)
      PROVE DeliveryInv'
  <2>1. /\ task[s][e].pc = "claim" /\ received' = received
        /\ \A f \in Events : tries[f] <= tries'[f]
        /\ o = "ok" => tries'[e] = tries[e] + 1
        /\ \A r \in Slots, f \in Events : task'[r][f] = task[r][f] \/ (r = s /\ f = e)
        /\ IF o = "ok" THEN task'[s][e] = [pc |-> "dispatch", next |-> 1, data |-> task[s][e].data]
                       ELSE task'[s][e] = NoTask
    BY <1>3, <1>types, SMT DEF Claim, TypeOK
  <2>2. \A f \in Events : \/ outbox'[f] = outbox[f]
                          \/ /\ f = e /\ outbox'[f].status = "processing"
                             /\ outbox'[f].attempts = outbox[e].attempts
    BY <1>3, <1>types, WriteEffect DEF Claim
  <2>3. TaskFits(task[s][e], e)'
    <3>1. TaskFits(task[s][e], e)
      BY <1>0 DEF TaskInv
    <3> QED BY <1>types, <2>1, <3>1, SMT DEF TaskFits, NoTask
  <2>4. TaskInv'
    BY <1>0, <2>1, <2>3, TasksKept
  <2>5. outbox[e].attempts <= tries'[e]
    BY <1>0, <1>types, <2>1, SMT DEF FailedOnlyAfterMaxTries
  <2>6. DeliveredToAll' /\ FailedOnlyAfterMaxTries' /\ InRouteOrder'
    BY <1>types, <2>1, <2>2, <2>5, RecordsKept
  <2>7. LateInv'
    BY <1>0, <1>3 DEF Claim, LateInv
  <2> QED BY <2>4, <2>6, <2>7 DEF DeliveryInv
<1>4. ASSUME NEW s \in Slots, NEW e \in Events, NEW o \in Outcomes, MarkDelivered(s, e, o)
      PROVE DeliveryInv'
  <2>1. /\ task[s][e].pc = "dispatch" /\ task[s][e].next > Len(Handlers(e))
        /\ received' = received /\ tries' = tries
        /\ \A f \in Events : tries[f] <= tries'[f]
        /\ \A r \in Slots, f \in Events : task'[r][f] = task[r][f] \/ (r = s /\ f = e)
        /\ IF o = "ok" THEN task'[s][e] = NoTask
                       ELSE task'[s][e] = [pc |-> "catch", next |-> 1, data |-> task[s][e].data]
    BY <1>4, <1>types, SMT DEF MarkDelivered, TypeOK
  <2>2. \A f \in Events : \/ outbox'[f] = outbox[f]
                          \/ /\ f = e /\ outbox'[f].status = "delivered"
                             /\ outbox'[f].attempts = outbox[e].attempts
    BY <1>4, <1>types, WriteEffect DEF MarkDelivered
  <2>3. TaskFits(task[s][e], e)
    BY <1>0 DEF TaskInv
  <2>4. TaskInv'
    <3>1. TaskFits(task[s][e], e)'
      BY <1>types, <2>1, <2>3, SMT DEF TaskFits, NoTask
    <3> QED BY <1>0, <2>1, <3>1, TasksKept
  <2>5. received[e] = 1 .. Len(Handlers(e))
    <3>1. Len(Handlers(e)) \in Nat /\ task[s][e].next - 1 <= Len(Handlers(e))
      BY <2>1, <2>3, RouteLength DEF TaskFits
    <3>2. task[s][e].next - 1 = Len(Handlers(e))
      BY <1>types, <2>1, <3>1, SMT
    <3>3. 1 .. Len(Handlers(e)) \subseteq received[e]
      BY <2>1, <2>3, <3>2 DEF TaskFits
    <3> QED BY <1>0, <3>3 DEF LateInv
  <2>6. outbox[e].attempts <= tries'[e]
    BY <1>0, <2>1 DEF FailedOnlyAfterMaxTries
  <2>7. DeliveredToAll' /\ FailedOnlyAfterMaxTries' /\ InRouteOrder'
    BY <1>types, <2>1, <2>2, <2>5, <2>6, RecordsKept
  <2>8. LateInv'
    BY <1>0, <1>4 DEF MarkDelivered, LateInv
  <2> QED BY <2>4, <2>7, <2>8 DEF DeliveryInv
<1>5. ASSUME NEW s \in Slots, NEW e \in Events, NEW o \in Outcomes, HandleFailure(s, e, o)
      PROVE DeliveryInv'
  <2> DEFINE n == task[s][e].data + 1
  <2>1. /\ task[s][e].pc = "catch" /\ received' = received /\ tries' = tries
        /\ \A f \in Events : tries[f] <= tries'[f]
        /\ \A r \in Slots, f \in Events : task'[r][f] = task[r][f] \/ (r = s /\ f = e)
        /\ task'[s][e] = NoTask
    BY <1>5, <1>types, SMT DEF HandleFailure, TypeOK
  <2>2. n \in Nat
    BY <1>types, SMT
  <2>3. \A f \in Events : \/ outbox'[f] = outbox[f]
                          \/ /\ f = e /\ outbox'[f].attempts = n
                             /\ outbox'[f].status = IF n >= MAX_ATTEMPTS THEN "failed" ELSE "pending"
    BY <1>5, <2>2, WriteEffect DEF HandleFailure
  <2>4. n <= tries'[e]
    <3>1. TaskFits(task[s][e], e)
      BY <1>0 DEF TaskInv
    <3> QED BY <1>types, <2>1, <3>1, SMT DEF TaskFits
  <2>5. TaskInv'
    <3>1. TaskFits(task[s][e], e)'
      BY <2>1 DEF TaskFits, NoTask
    <3> QED BY <1>0, <2>1, <3>1, TasksKept
  <2>6. n >= MAX_ATTEMPTS => tries'[e] >= MAX_ATTEMPTS
    BY <1>types, <2>2, <2>4, SMT
  <2>7. DeliveredToAll' /\ FailedOnlyAfterMaxTries' /\ InRouteOrder'
    BY <1>types, <2>1, <2>3, <2>4, <2>6, RecordsKept
  <2>8. LateInv'
    BY <1>0, <1>5 DEF HandleFailure, LateInv
  <2> QED BY <2>5, <2>7, <2>8 DEF DeliveryInv
<1>6. ASSUME NEW s \in Slots, NEW e \in Events, SendOk(s, e) \/ SendFail(s, e)
      PROVE DeliveryInv'
  <2> DEFINE k == task[s][e].next
  <2>1. /\ task[s][e].pc = "dispatch" /\ k \in 1 .. Len(Handlers(e))
        /\ outbox' = outbox /\ tries' = tries
        /\ \A f \in Events : tries[f] <= tries'[f]
        /\ \A r \in Slots, f \in Events : task'[r][f] = task[r][f] \/ (r = s /\ f = e)
        /\ \A f \in Events : f # e => received'[f] = received[f]
    BY <1>6, <1>types, RouteLength, SMT DEF SendOk, SendFail, TypeOK
  <2>2. TaskFits(task[s][e], e)
    BY <1>0 DEF TaskInv
  <2>3. received'[e] = received[e] \/ received'[e] = received[e] \cup {k}
    BY <1>6, SMT DEF SendOk, SendFail, TypeOK
  <2>4. 1 .. k - 1 \subseteq received[e]
    BY <2>1, <2>2 DEF TaskFits
  <2>5. TaskInv'
    <3>1. \/ task'[s][e] = [pc |-> "catch", next |-> 1, data |-> task[s][e].data]
          \/ /\ task'[s][e] = [pc |-> "dispatch", next |-> k + 1, data |-> task[s][e].data]
             /\ received'[e] = received[e] \cup {k}
      BY <1>6, SMT DEF SendOk, SendFail, TypeOK
    <3>2. TaskFits(task[s][e], e)'
      <4>1. task[s][e].data < tries'[e] /\ Len(Handlers(e)) \in Nat
        BY <2>1, <2>2, RouteLength DEF TaskFits
      <4>2. CASE task'[s][e] = [pc |-> "catch", next |-> 1, data |-> task[s][e].data]
        BY <4>1, <4>2 DEF TaskFits
      <4>3. CASE /\ task'[s][e] = [pc |-> "dispatch", next |-> k + 1, data |-> task[s][e].data]
                 /\ received'[e] = received[e] \cup {k}
        <5>1. (k + 1) - 1 <= Len(Handlers(e)) /\ 1 .. (k + 1) - 1 = (1 .. k - 1) \cup {k}
          BY <1>types, <2>1, <4>1, SMT
        <5>2. 1 .. (k + 1) - 1 \subseteq received'[e]
          BY <2>4, <4>3, <5>1
        <5> QED BY <4>1, <4>3, <5>1, <5>2, SMT DEF TaskFits
      <4> QED BY <3>1, <4>2, <4>3
    <3>3. \A f \in Events : received[f] \subseteq received'[f]
      BY <2>1, <2>3
    <3> QED BY <1>0, <2>1, <3>2, <3>3, TasksKept
  <2>6. LateInv'
    <3>1. \/ late' = late
          \/ received' = received /\ late' = [late EXCEPT ![e] = @ \cup {k}]
          \/ received' = received /\ late' = [late EXCEPT ![e] = @ \cup {}]
      BY <1>6 DEF SendOk, SendFail
    <3>2. CASE late' = late
      BY <1>0, <2>1, <2>3, <3>2 DEF LateInv
    <3>3. CASE received' = received /\ late' = [late EXCEPT ![e] = @ \cup {k}]
      BY <1>0, <2>1, <2>4, <3>3 DEF LateInv, TypeOK
    <3>4. CASE received' = received /\ late' = [late EXCEPT ![e] = @ \cup {}]
      BY <1>0, <3>4 DEF LateInv, TypeOK
    <3> QED BY <3>1, <3>2, <3>3, <3>4
  <2>7. InRouteOrder'
    <3> SUFFICES ASSUME NEW f \in Events, NEW i \in received'[f] PROVE 1 .. i \subseteq received'[f]
      BY DEF InRouteOrder
    <3>1. CASE i \in received[f]
      BY <1>0, <2>1, <2>3, <3>1 DEF InRouteOrder
    <3>2. CASE f = e /\ i = k /\ received'[e] = received[e] \cup {k}
      <4>1. k \in Nat \ {0} /\ 1 .. k = (1 .. k - 1) \cup {k}
        BY <1>types, SMT
      <4> QED BY <2>4, <3>2, <4>1
    <3> QED BY <2>1, <2>3, <3>1, <3>2
  <2>8. DeliveredToAll'
    <3> SUFFICES ASSUME NEW f \in Events, outbox[f].status = "delivered"
                 PROVE  received'[f] = 1 .. Len(Handlers(f))
      BY <2>1 DEF DeliveredToAll
    <3>1. received[f] = 1 .. Len(Handlers(f))
      BY <1>0 DEF DeliveredToAll
    <3> QED BY <2>1, <2>3, <3>1
  <2>9. FailedOnlyAfterMaxTries'
    BY <1>0, <2>1 DEF FailedOnlyAfterMaxTries
  <2> QED BY <2>5, <2>6, <2>7, <2>8, <2>9 DEF DeliveryInv
<1>7. ASSUME NEW w \in Workers, Crash(w) PROVE DeliveryInv'
  <2>1. outbox' = outbox /\ received' = received /\ tries' = tries
    BY <1>7 DEF Crash
  <2>2. TaskInv'
    <3> SUFFICES ASSUME NEW r \in Slots, NEW e \in Events PROVE TaskFits(task[r][e], e)'
      BY DEF TaskInv
    <3>1. task'[r][e] = task[r][e] \/ task'[r][e] = NoTask
      BY <1>7, SMT DEF Crash, TypeOK
    <3> QED BY <1>0, <2>1, <3>1 DEF TaskInv, TaskFits, NoTask
  <2>3. DeliveredToAll' /\ FailedOnlyAfterMaxTries' /\ InRouteOrder' /\ LateInv'
    BY <1>0, <1>7, <2>1 DEF Crash, DeliveredToAll, FailedOnlyAfterMaxTries, InRouteOrder, LateInv
  <2> QED BY <2>2, <2>3 DEF DeliveryInv
<1>8. ASSUME NEW e \in Events, NEW i \in late[e], Arrive(e, i) PROVE DeliveryInv'
  <2>1. /\ outbox' = outbox /\ tries' = tries /\ task' = task
        /\ \A f \in Events : f # e => received'[f] = received[f] /\ late'[f] = late[f]
        /\ received'[e] = received[e] \cup {i} /\ late'[e] \subseteq late[e]
    BY <1>8, SMT DEF Arrive, TypeOK
  <2>2. i \in 1 .. Len(Handlers(e)) /\ 1 .. i - 1 \subseteq received[e]
    BY <1>0 DEF LateInv
  <2>3. 1 .. i \subseteq received'[e]
    <3>1. 1 .. i = (1 .. i - 1) \cup {i}
      BY <2>2, RouteLength, SMT
    <3> QED BY <2>1, <2>2, <3>1
  <2>4. LateInv' /\ DeliveredToAll'
    BY <1>0, <2>1, <2>2 DEF LateInv, DeliveredToAll
  <2>5. InRouteOrder'
    BY <1>0, <2>1, <2>3 DEF InRouteOrder
  <2>6. TaskInv' /\ FailedOnlyAfterMaxTries'
    <3>1. \A f \in Events : received[f] \subseteq received'[f]
      BY <2>1
    <3> QED BY <1>0, <2>1, <3>1 DEF TaskInv, TaskFits, FailedOnlyAfterMaxTries
  <2> QED BY <2>4, <2>5, <2>6 DEF DeliveryInv
<1>9. CASE UNCHANGED vars
  BY <1>0, <1>9 DEF vars, DeliveryInv, LateInv, TaskInv, TaskFits, DeliveredToAll,
                    FailedOnlyAfterMaxTries, InRouteOrder
<1> QED BY <1>1, <1>2, <1>3, <1>4, <1>5, <1>6, <1>7, <1>8, <1>9 DEF Next, Step

(* The strengthened invariant holds in every reachable state.              *)
THEOREM DeliveryInvariant == Spec => []DeliveryInv
<1>1. Init => TypeOK /\ DeliveryInv
  <2>1. Init => TypeOK
    BY WorkerAssumption, SMT DEF Init, TypeOK, Doc, Task, NoTask
  <2>2. Init => DeliveryInv
    BY SMT DEF Init, DeliveryInv, LateInv, TaskInv, TaskFits, InRouteOrder, DeliveredToAll,
               FailedOnlyAfterMaxTries, NoTask, Slots
  <2> QED BY <2>1, <2>2
<1> QED BY <1>1, TypeStep, DeliveryStep, PTL DEF Spec

(* At-least-once for any number of overlapping batches, crashes and store  *)
(* faults: 'delivered' means that every service of the route got the event *)
(* (processEvent.ts 27-29).                                                *)
THEOREM AtLeastOnce == Spec => []DeliveredToAll
BY DeliveryInvariant, PTL DEF DeliveryInv

(* The services of a route are reached in order (EventDispatcher.ts 63-65).*)
THEOREM RouteOrder == Spec => []InRouteOrder
BY DeliveryInvariant, PTL DEF DeliveryInv

(* No event is given up before its MAX_ATTEMPTS deliveries were begun      *)
(* (processEvent.ts 32-40).                                                *)
THEOREM RetryBudgetSpent == Spec => []FailedOnlyAfterMaxTries
BY DeliveryInvariant, PTL DEF DeliveryInv
----------------------------------------------------------------------------
(* One worker that never overlaps its batches: nobody else touches the     *)
(* document of an event that has a task.                                   *)
OneSlot == \A r, s \in Slots : r = s

DocFits(d, n, underWay) ==
  /\ d.status = "absent" => n = 0 /\ underWay = {}
  /\ d.status = "pending" => n = d.attempts
  /\ d.status \in {"processing", "delivered"} => n <= d.attempts + 1
  /\ d.status # "failed" => d.attempts < MAX_ATTEMPTS
  /\ n <= MAX_ATTEMPTS

SlotFits(t, d, n) ==
  /\ t.pc # "none" => t.data = d.attempts
  /\ t.pc = "claim" => d.status = "pending"
  /\ t.pc = "dispatch" => d.status = "processing"
  /\ t.pc = "catch" => d.status \in {"processing", "delivered"}
  /\ t.pc \in {"dispatch", "catch"} => n = d.attempts + 1

OneInv ==
  /\ \A e \in Events : DocFits(outbox[e], tries[e], late[e])
  /\ \A s \in Slots, e \in Events : SlotFits(task[s][e], outbox[e], tries[e])

(* Where a task is, and what it holds.                                     *)
LEMMA PcTyped ==
  ASSUME TypeOK, NEW s \in Slots, NEW e \in Events
  PROVE  /\ task[s][e].pc \in {"none", "claim", "dispatch", "catch"}
         /\ task[s][e].data \in Nat /\ task[s][e].next \in Nat \ {0}
<1>1. task[s][e] \in Task
  BY DEF TypeOK
<1> QED BY <1>1 DEF Task

(* What a document is.                                                     *)
LEMMA DocTyped ==
  ASSUME TypeOK, NEW e \in Events
  PROVE  /\ outbox[e].status \in {"absent", "pending", "processing", "delivered", "failed"}
         /\ outbox[e].attempts \in Nat /\ tries[e] \in Nat
<1>1. outbox[e] \in Doc /\ tries[e] \in Nat
  BY DEF TypeOK
<1> QED BY <1>1 DEF Doc

(* What an update does to each document.                                   *)
LEMMA WriteExact ==
  ASSUME TypeOK, NEW e \in Events, NEW o, NEW status, NEW n, Write(e, status, n, o)
  PROVE  /\ \A f \in Events : f # e => outbox'[f] = outbox[f]
         /\ o = "lost" => outbox'[e] = outbox[e]
         /\ o # "lost" => outbox'[e] = [status |-> status, attempts |-> n]
  BY DEF TypeOK, Write

(* What an await of a processEvent does when it ends, case by case.        *)
Began(t, d, n, t1, d1, n1) ==
  /\ t.pc = "claim" /\ d1.attempts = d.attempts
  /\ \/ t1.pc = "dispatch" /\ t1.data = t.data /\ d1.status = "processing" /\ n1 = n + 1
     \/ t1.pc = "none" /\ d1.status \in {d.status, "processing"} /\ n1 = n

Sent(t, d, n, t1, d1, n1) ==
  /\ t.pc = "dispatch" /\ t1.pc \in {"dispatch", "catch"} /\ t1.data = t.data
  /\ d1 = d /\ n1 = n

Marked(t, d, n, t1, d1, n1) ==
  /\ t.pc = "dispatch" /\ n1 = n /\ d1.attempts = d.attempts
  /\ \/ t1.pc = "none" /\ d1.status = "delivered"
     \/ t1.pc = "catch" /\ t1.data = t.data /\ d1.status \in {d.status, "delivered"}

Handled(t, d, n, t1, d1, n1) ==
  /\ t.pc = "catch" /\ t1.pc = "none" /\ n1 = n
  /\ \/ d1 = d
     \/ /\ d1.attempts = t.data + 1
        /\ d1.status = IF t.data + 1 >= MAX_ATTEMPTS THEN "failed" ELSE "pending"

(* A step of a task leaves the other events alone, and moves its own.      *)
LEMMA StepCases ==
  ASSUME TypeOK, NEW s \in Slots, NEW e \in Events, Step(s, e)
  PROVE  /\ \A f \in Events : f # e =>
              /\ outbox'[f] = outbox[f] /\ tries'[f] = tries[f] /\ late'[f] = late[f]
              /\ received'[f] = received[f] /\ task'[s][f] = task[s][f]
         /\ \/ /\ Began(task[s][e], outbox[e], tries[e], task'[s][e], outbox'[e], tries'[e])
               /\ late'[e] = late[e] /\ received'[e] = received[e]
            \/ /\ Sent(task[s][e], outbox[e], tries[e], task'[s][e], outbox'[e], tries'[e])
               /\ SendOk(s, e) \/ (SendFail(s, e) /\ received'[e] = received[e])
            \/ /\ Marked(task[s][e], outbox[e], tries[e], task'[s][e], outbox'[e], tries'[e])
               /\ late'[e] = late[e] /\ received'[e] = received[e]
               /\ task[s][e].next > Len(Handlers(e))
            \/ /\ Handled(task[s][e], outbox[e], tries[e], task'[s][e], outbox'[e], tries'[e])
               /\ late'[e] = late[e] /\ received'[e] = received[e]
<1>1. ASSUME NEW o \in Outcomes, Claim(s, e, o)
      PROVE  /\ \A f \in Events : f # e =>
                  /\ outbox'[f] = outbox[f] /\ tries'[f] = tries[f] /\ late'[f] = late[f]
                  /\ received'[f] = received[f] /\ task'[s][f] = task[s][f]
             /\ Began(task[s][e], outbox[e], tries[e], task'[s][e], outbox'[e], tries'[e])
             /\ late'[e] = late[e] /\ received'[e] = received[e]
  <2>1. /\ \A f \in Events : f # e => outbox'[f] = outbox[f]
        /\ o = "lost" => outbox'[e] = outbox[e]
        /\ o # "lost" => outbox'[e] = [status |-> "processing", attempts |-> outbox[e].attempts]
    BY <1>1, WriteExact DEF Claim
  <2>2. /\ task[s][e].pc = "claim" /\ late' = late /\ received' = received
        /\ \A f \in Events : f # e => tries'[f] = tries[f] /\ task'[s][f] = task[s][f]
        /\ task'[s][e] = IF o = "ok" THEN [pc |-> "dispatch", next |-> 1, data |-> task[s][e].data]
                                     ELSE NoTask
        /\ tries'[e] = IF o = "ok" THEN tries[e] + 1 ELSE tries[e]
    BY <1>1 DEF Claim, TypeOK
  <2>3. CASE o = "ok"
    BY <2>1, <2>2, <2>3 DEF Began
  <2>4. CASE o # "ok"
    BY <2>1, <2>2, <2>4 DEF Began, NoTask
  <2> QED BY <2>1, <2>2, <2>3, <2>4
<1>2. ASSUME NEW o \in Outcomes, MarkDelivered(s, e, o)
      PROVE  /\ \A f \in Events : f # e =>
                  /\ outbox'[f] = outbox[f] /\ tries'[f] = tries[f] /\ late'[f] = late[f]
                  /\ received'[f] = received[f] /\ task'[s][f] = task[s][f]
             /\ Marked(task[s][e], outbox[e], tries[e], task'[s][e], outbox'[e], tries'[e])
             /\ late'[e] = late[e] /\ received'[e] = received[e]
             /\ task[s][e].next > Len(Handlers(e))
  <2>1. /\ \A f \in Events : f # e => outbox'[f] = outbox[f]
        /\ o = "lost" => outbox'[e] = outbox[e]
        /\ o # "lost" => outbox'[e] = [status |-> "delivered", attempts |-> outbox[e].attempts]
    BY <1>2, WriteExact DEF MarkDelivered
  <2>2. /\ task[s][e].pc = "dispatch" /\ task[s][e].next > Len(Handlers(e))
        /\ late' = late /\ received' = received /\ tries' = tries
        /\ \A f \in Events : f # e => task'[s][f] = task[s][f]
        /\ task'[s][e] = IF o = "ok" THEN NoTask
                         ELSE [pc |-> "catch", next |-> 1, data |-> task[s][e].data]
    BY <1>2 DEF MarkDelivered, TypeOK
  <2>3. CASE o = "ok"
    BY <2>1, <2>2, <2>3 DEF Marked, NoTask
  <2>4. CASE o # "ok"
    BY <2>1, <2>2, <2>4 DEF Marked
  <2> QED BY <2>1, <2>2, <2>3, <2>4
<1>3. ASSUME NEW o \in Outcomes, HandleFailure(s, e, o)
      PROVE  /\ \A f \in Events : f # e =>
                  /\ outbox'[f] = outbox[f] /\ tries'[f] = tries[f] /\ late'[f] = late[f]
                  /\ received'[f] = received[f] /\ task'[s][f] = task[s][f]
             /\ Handled(task[s][e], outbox[e], tries[e], task'[s][e], outbox'[e], tries'[e])
             /\ late'[e] = late[e] /\ received'[e] = received[e]
  <2> DEFINE n == task[s][e].data + 1
             status == IF n >= MAX_ATTEMPTS THEN "failed" ELSE "pending"
  <2>1. /\ \A f \in Events : f # e => outbox'[f] = outbox[f]
        /\ o = "lost" => outbox'[e] = outbox[e]
        /\ o # "lost" => outbox'[e] = [status |-> status, attempts |-> n]
    BY <1>3, WriteExact DEF HandleFailure
  <2>2. /\ task[s][e].pc = "catch" /\ late' = late /\ received' = received /\ tries' = tries
        /\ \A f \in Events : f # e => task'[s][f] = task[s][f]
        /\ task'[s][e] = NoTask
    BY <1>3 DEF HandleFailure, TypeOK
  <2>3. CASE o = "lost"
    BY <2>1, <2>2, <2>3 DEF Handled, NoTask
  <2>4. CASE o # "lost"
    BY <2>1, <2>2, <2>4 DEF Handled, NoTask
  <2> QED BY <2>1, <2>2, <2>3, <2>4
<1>4. ASSUME SendOk(s, e) \/ SendFail(s, e)
      PROVE  /\ \A f \in Events : f # e =>
                  /\ outbox'[f] = outbox[f] /\ tries'[f] = tries[f] /\ late'[f] = late[f]
                  /\ received'[f] = received[f] /\ task'[s][f] = task[s][f]
             /\ Sent(task[s][e], outbox[e], tries[e], task'[s][e], outbox'[e], tries'[e])
             /\ SendOk(s, e) \/ (SendFail(s, e) /\ received'[e] = received[e])
  <2>1. CASE SendOk(s, e)
    BY <2>1, SMT DEF SendOk, Sent, TypeOK
  <2>2. CASE SendFail(s, e)
    <3>1. PICK underWay : late' = [late EXCEPT ![e] = @ \cup underWay]
      BY <2>2 DEF SendFail
    <3>2. /\ task[s][e].pc = "dispatch"
          /\ task' = [task EXCEPT ![s][e] = [pc |-> "catch", next |-> 1, data |-> task[s][e].data]]
          /\ outbox' = outbox /\ received' = received /\ tries' = tries
      BY <2>2 DEF SendFail
    <3>3. \A f \in Events : f # e => late'[f] = late[f] /\ task'[s][f] = task[s][f]
      BY <3>1, <3>2 DEF TypeOK
    <3>4. task'[s][e] = [pc |-> "catch", next |-> 1, data |-> task[s][e].data]
      BY <3>2 DEF TypeOK
    <3> QED BY <2>2, <3>2, <3>3, <3>4 DEF Sent
  <2> QED BY <1>4, <2>1, <2>2
<1> QED BY <1>1, <1>2, <1>3, <1>4 DEF Step

(* With one slot, a step that touches one event keeps the invariant when it*)
(* keeps it for that event.                                                *)
LEMMA OneEventMoves ==
  ASSUME TypeOK, OneInv, OneSlot, NEW s \in Slots, NEW e \in Events,
         \A f \in Events : f # e =>
           /\ outbox'[f] = outbox[f] /\ tries'[f] = tries[f] /\ late'[f] = late[f]
           /\ task'[s][f] = task[s][f],
         DocFits(outbox'[e], tries'[e], late'[e]),
         SlotFits(task'[s][e], outbox'[e], tries'[e])
  PROVE  OneInv'
<1>1. ASSUME NEW f \in Events PROVE DocFits(outbox'[f], tries'[f], late'[f])
  BY DEF OneInv
<1>2. ASSUME NEW r \in Slots, NEW f \in Events
      PROVE  SlotFits(task'[r][f], outbox'[f], tries'[f])
  <2>1. r = s
    BY DEF OneSlot
  <2> QED BY <2>1 DEF OneInv
<1> QED BY <1>1, <1>2 DEF OneInv

(* Every step of a single worker keeps the documents and tasks in step.    *)
LEMMA OneStep == TypeOK /\ OneSlot /\ OneInv /\ [Next]_vars => OneInv'
<1> SUFFICES ASSUME TypeOK, OneSlot, OneInv, [Next]_vars PROVE OneInv'
  OBVIOUS
<1> USE WorkerAssumption
<1>types. \A e \in Events : outbox[e].attempts \in Nat /\ tries[e] \in Nat
  BY SMT DEF TypeOK, Doc
<1>1. ASSUME NEW e \in Events, NEW t \in Times, Publish(e, t) PROVE OneInv'
  <2>1. /\ outbox'[e] = [status |-> "pending", attempts |-> 0] /\ outbox[e].status = "absent"
        /\ \A f \in Events : f # e => outbox'[f] = outbox[f]
        /\ task' = task /\ tries' = tries /\ late' = late
    BY <1>1 DEF Publish, TypeOK
  <2>2. tries[e] = 0 /\ late[e] = {}
    BY <2>1 DEF OneInv, DocFits
  <2>3. \A s \in Slots : task[s][e].pc = "none"
    BY <2>1, PcTyped DEF OneInv, SlotFits
  <2>4. ASSUME NEW f \in Events PROVE DocFits(outbox'[f], tries'[f], late'[f])
    <3>1. CASE f = e
      BY <2>1, <2>2, <3>1, SMT DEF DocFits
    <3>2. CASE f # e
      BY <2>1, <3>2 DEF OneInv
    <3> QED BY <3>1, <3>2
  <2>5. ASSUME NEW s \in Slots, NEW f \in Events
        PROVE  SlotFits(task'[s][f], outbox'[f], tries'[f])
    <3>1. CASE f = e
      BY <2>1, <2>3, <3>1 DEF SlotFits
    <3>2. CASE f # e
      BY <2>1, <3>2 DEF OneInv
    <3> QED BY <3>1, <3>2
  <2> QED BY <2>4, <2>5 DEF OneInv
<1>2. ASSUME NEW s \in Slots, Poll(s) PROVE OneInv'
  <2>1. outbox' = outbox /\ tries' = tries /\ late' = late
    BY <1>2 DEF Poll
  <2>2. PICK B \in SUBSET Pending :
          task' = [task EXCEPT ![s] = [e \in Events |->
                     IF e \in B THEN [pc |-> "claim", next |-> 1, data |-> outbox[e].attempts]
                     ELSE NoTask]]
    BY <1>2 DEF Poll
  <2>3. ASSUME NEW r \in Slots, NEW e \in Events
        PROVE  SlotFits(task'[r][e], outbox[e], tries[e])
    <3>1. task'[r][e] = IF e \in B THEN [pc |-> "claim", next |-> 1, data |-> outbox[e].attempts]
                        ELSE NoTask
      BY <2>2 DEF OneSlot, TypeOK
    <3>2. e \in B => outbox[e].status = "pending"
      BY DEF Pending
    <3> QED BY <3>1, <3>2 DEF SlotFits, NoTask
  <2> QED BY <2>1, <2>3 DEF OneInv
<1>3. ASSUME NEW s \in Slots, NEW e \in Events, Step(s, e) PROVE OneInv'
  <2> DEFINE t == task[s][e]
             d == outbox[e]
  <2>1. /\ DocFits(d, tries[e], late[e]) /\ SlotFits(t, d, tries[e])
        /\ d.attempts \in Nat /\ tries[e] \in Nat /\ t.data \in Nat
        /\ d.status \in {"absent", "pending", "processing", "delivered", "failed"}
    BY PcTyped, DocTyped DEF OneInv
  <2>2. \A f \in Events : f # e =>
          /\ outbox'[f] = outbox[f] /\ tries'[f] = tries[f] /\ late'[f] = late[f]
          /\ task'[s][f] = task[s][f]
    BY <1>3, StepCases
  <2>3. CASE Began(task[s][e], outbox[e], tries[e], task'[s][e], outbox'[e], tries'[e])
    <3>1. /\ DocFits(outbox'[e], tries'[e], late'[e])
          /\ SlotFits(task'[s][e], outbox'[e], tries'[e])
      BY <2>1, <2>3, SMT DEF Began, DocFits, SlotFits
    <3> QED BY <2>2, <3>1, OneEventMoves
  <2>4. CASE Sent(task[s][e], outbox[e], tries[e], task'[s][e], outbox'[e], tries'[e])
    <3>1. /\ DocFits(outbox'[e], tries'[e], late'[e])
          /\ SlotFits(task'[s][e], outbox'[e], tries'[e])
      BY <2>1, <2>4, SMT DEF Sent, DocFits, SlotFits
    <3> QED BY <2>2, <3>1, OneEventMoves
  <2>5. CASE Marked(task[s][e], outbox[e], tries[e], task'[s][e], outbox'[e], tries'[e])
    <3>1. /\ DocFits(outbox'[e], tries'[e], late'[e])
          /\ SlotFits(task'[s][e], outbox'[e], tries'[e])
      BY <2>1, <2>5, SMT DEF Marked, DocFits, SlotFits
    <3> QED BY <2>2, <3>1, OneEventMoves
  <2>6. CASE Handled(task[s][e], outbox[e], tries[e], task'[s][e], outbox'[e], tries'[e])
    <3>1. /\ DocFits(outbox'[e], tries'[e], late'[e])
          /\ SlotFits(task'[s][e], outbox'[e], tries'[e])
      BY <2>1, <2>6, SMT DEF Handled, DocFits, SlotFits
    <3> QED BY <2>2, <3>1, OneEventMoves
  <2> QED BY <1>3, <2>3, <2>4, <2>5, <2>6, StepCases
<1>4. ASSUME NEW e \in Events, NEW i \in late[e], Arrive(e, i) PROVE OneInv'
  <2>1. /\ outbox' = outbox /\ tries' = tries /\ task' = task
        /\ \A f \in Events : late'[f] \subseteq late[f]
    BY <1>4 DEF Arrive, TypeOK
  <2>2. \A f \in Events : DocFits(outbox[f], tries[f], late'[f])
    BY <2>1 DEF OneInv, DocFits
  <2> QED BY <2>1, <2>2 DEF OneInv
<1>5. ASSUME NEW w \in Workers, Crash(w) PROVE OneInv'
  <2>1. outbox' = outbox /\ tries' = tries /\ late' = late
    BY <1>5 DEF Crash
  <2>2. \A s \in Slots, e \in Events : task'[s][e] \in {task[s][e], NoTask}
    BY <1>5 DEF Crash, TypeOK
  <2>3. ASSUME NEW s \in Slots, NEW e \in Events PROVE SlotFits(task'[s][e], outbox[e], tries[e])
    <3>1. CASE task'[s][e] = task[s][e]
      BY <3>1 DEF OneInv
    <3>2. CASE task'[s][e] = NoTask
      BY <3>2 DEF SlotFits, NoTask
    <3> QED BY <2>2, <3>1, <3>2
  <2> QED BY <2>1, <2>3 DEF OneInv
<1>6. CASE UNCHANGED vars
  BY <1>6 DEF vars, OneInv
<1> QED BY <1>1, <1>2, <1>3, <1>4, <1>5, <1>6 DEF Next

(* So they are in step in every reachable state.                           *)
LEMMA OneHolds == ASSUME OneSlot PROVE Spec => []OneInv
<1>1. Init => TypeOK /\ OneInv
  <2>1. Init => TypeOK
    BY WorkerAssumption, SMT DEF Init, TypeOK, Doc, Task, NoTask
  <2>2. Init => OneInv
    BY WorkerAssumption, SMT DEF Init, OneInv, DocFits, SlotFits, NoTask
  <2> QED BY <2>1, <2>2
<1>2. TypeOK /\ OneInv /\ [Next]_vars => OneInv'
  BY OneStep
<1> QED BY <1>1, <1>2, TypeStep, PTL DEF Spec

(* A single worker that waits for each batch tries no event more often than*)
(* MAX_ATTEMPTS, though it dies or its updates are rejected: what it leaves*)
(* behind in 'processing' is not tried again (processEvent.ts 23-41).      *)
THEOREM BudgetIsBounded == ASSUME OneSlot PROVE Spec => []AtMostMaxAttempts
<1>1. OneInv => AtMostMaxAttempts
  BY DEF OneInv, DocFits, AtMostMaxAttempts
<1>2. Spec => []OneInv
  BY OneHolds
<1> QED BY <1>1, <1>2, PTL

\* The awaits an event has yet to go through until it is tried once more or settled.
Ahead(s, e) ==
  IF task[s][e].pc = "dispatch" THEN Len(Handlers(e)) + 5 - task[s][e].next
  ELSE IF task[s][e].pc = "catch" THEN 3
  ELSE IF task[s][e].pc = "claim" THEN 1
  ELSE IF outbox[e].status = "absent" THEN Len(Handlers(e)) + 5
  ELSE IF outbox[e].status = "pending" THEN 2
  ELSE 0

\* Where an event is: its document, the await of its task and the route yet to go.
At(s, e) == <<outbox[e], task[s][e].pc, Ahead(s, e)>>

\* Each await that ends leaves fewer to come, is the first of a new try, or uses up a fault.
Advances(s, e) ==
  \/ tries'[e] = tries[e] /\ Ahead(s, e)' < Ahead(s, e)
  \/ tries'[e] = tries[e] + 1
  \/ crashes' + faults' = crashes + faults + 1

(* With one slot, only its task moves an event, and each await that ends   *)
(* advances it.                                                            *)
LEMMA TaskAdvances ==
  ASSUME TypeOK, DeliveryInv, OneInv, NEW s \in Slots, NEW e \in Events, Step(s, e)
  PROVE  Advances(s, e)
<1> DEFINE n == Len(Handlers(e))
<1>1. n \in Nat /\ task[s][e] \in Task /\ task[s][e].next \in Nat \ {0} /\ faults \in Nat /\ crashes \in Nat
  BY RouteLength, PcTyped DEF TypeOK
<1>2. task[s][e].pc = "dispatch" => task[s][e].next <= n + 1
  BY <1>1 DEF DeliveryInv, TaskInv, TaskFits
<1> HIDE DEF n
<1>3. ASSUME NEW o \in Outcomes, NEW status, NEW k, Write(e, status, k, o), o # "ok", crashes' = crashes
      PROVE  Advances(s, e)
  BY <1>1, <1>3 DEF Write, Advances
<1>4. ASSUME NEW o \in Outcomes, Claim(s, e, o) PROVE Advances(s, e)
  <2>1. CASE o = "ok"
    <3>1. tries'[e] = tries[e] + 1
      BY <1>4, <2>1 DEF Claim, TypeOK
    <3> QED BY <3>1 DEF Advances
  <2>2. CASE o # "ok"
    BY <1>3, <1>4, <2>2 DEF Claim
  <2> QED BY <2>1, <2>2
<1>5. ASSUME NEW o \in Outcomes, MarkDelivered(s, e, o) PROVE Advances(s, e)
  <2>1. CASE o = "ok"
    <3>1. /\ task[s][e].pc = "dispatch" /\ task'[s][e] = NoTask /\ tries' = tries
          /\ outbox'[e].status = "delivered"
      BY <1>5, <2>1 DEF MarkDelivered, Write, TypeOK
    <3>2. Ahead(s, e) = n + 5 - task[s][e].next /\ Ahead(s, e)' = 0
      BY <3>1 DEF Ahead, NoTask, n
    <3> QED BY <1>1, <1>2, <3>1, <3>2 DEF Advances
  <2>2. CASE o # "ok"
    BY <1>3, <1>5, <2>2 DEF MarkDelivered
  <2> QED BY <2>1, <2>2
<1>6. ASSUME NEW o \in Outcomes, HandleFailure(s, e, o) PROVE Advances(s, e)
  <2>1. CASE o = "ok"
    <3>1. /\ task[s][e].pc = "catch" /\ task'[s][e] = NoTask /\ tries' = tries
          /\ outbox'[e].status \in {"failed", "pending"}
      BY <1>6, <2>1 DEF HandleFailure, Write, TypeOK
    <3>2. Ahead(s, e) = 3 /\ Ahead(s, e)' \in {0, 2}
      BY <3>1 DEF Ahead, NoTask
    <3> QED BY <3>1, <3>2 DEF Advances
  <2>2. CASE o # "ok"
    BY <1>3, <1>6, <2>2 DEF HandleFailure
  <2> QED BY <2>1, <2>2
<1>7. CASE SendOk(s, e)
  <2>1. /\ task[s][e].pc = "dispatch" /\ tries' = tries
        /\ task'[s][e] = [pc |-> "dispatch", next |-> task[s][e].next + 1, data |-> task[s][e].data]
    BY <1>7 DEF SendOk, TypeOK
  <2>2. Ahead(s, e) = n + 5 - task[s][e].next /\ Ahead(s, e)' = n + 5 - (task[s][e].next + 1)
    BY <2>1 DEF Ahead, n
  <2> QED BY <1>1, <2>1, <2>2 DEF Advances
<1>8. CASE SendFail(s, e)
  <2>1. /\ task[s][e].pc = "dispatch" /\ tries' = tries /\ task'[s][e].pc = "catch"
    BY <1>8 DEF SendFail, TypeOK
  <2>2. Ahead(s, e) = n + 5 - task[s][e].next /\ Ahead(s, e)' = 3
    BY <2>1 DEF Ahead, n
  <2> QED BY <1>1, <1>2, <2>1, <2>2 DEF Advances
<1> QED BY <1>4, <1>5, <1>6, <1>7, <1>8 DEF Step

(* Whatever happens to an event under a single worker that waits for each  *)
(* batch brings it nearer to its end: it leaves the event fewer awaits to  *)
(* go through before the next try or the end, begins a try, of which there *)
(* are MAX_ATTEMPTS (BudgetIsBounded), or is a death or a rejected update. *)
(* So no event goes round for ever, and that it arrives is left to the     *)
(* timer and the awaits (OutboxWorker.ts 24-48, processEvent.ts 23-41).    *)
THEOREM EventsAdvance ==
  ASSUME OneSlot
  PROVE  Spec => /\ [](\A s \in Slots, e \in Events : Ahead(s, e) \in 0 .. Len(Handlers(e)) + 5)
                 /\ [][\A s \in Slots, e \in Events : At(s, e)' # At(s, e) => Advances(s, e)]_vars
<1> DEFINE Advancing == \A s \in Slots, e \in Events : At(s, e)' # At(s, e) => Advances(s, e)
<1>1. TypeOK /\ DeliveryInv /\ OneInv /\ [Next]_vars => [Advancing]_vars
  <2> SUFFICES ASSUME TypeOK, DeliveryInv, OneInv, Next, NEW s \in Slots, NEW e \in Events,
                      At(s, e)' # At(s, e)
               PROVE  Advances(s, e)
    OBVIOUS
  <2>0. /\ Len(Handlers(e)) \in Nat /\ task \in [Slots -> [Events -> Task]] /\ outbox \in [Events -> Doc]
        /\ crashes \in Nat /\ faults \in Nat
    BY RouteLength DEF TypeOK
  <2>1. ASSUME NEW f \in Events, NEW t \in Times, Publish(f, t) PROVE Advances(s, e)
    <3>1. e = f
      BY <2>0, <2>1 DEF Publish, At, Ahead
    <3>2. /\ outbox[e].status = "absent" /\ outbox'[e].status = "pending" /\ task' = task /\ tries' = tries
      BY <2>0, <2>1, <3>1 DEF Publish
    <3>3. task[s][e].pc = "none"
      BY <3>2, PcTyped DEF OneInv, SlotFits
    <3>4. Ahead(s, e) = Len(Handlers(e)) + 5 /\ Ahead(s, e)' = 2
      BY <3>2, <3>3 DEF Ahead, Handlers
    <3> QED BY <2>0, <3>2, <3>4 DEF Advances
  <2>2. ASSUME NEW r \in Slots, Poll(r) PROVE Advances(s, e)
    <3>1. PICK B \in SUBSET Pending :
            task' = [task EXCEPT ![r] = [f \in Events |->
                       IF f \in B THEN [pc |-> "claim", next |-> 1, data |-> outbox[f].attempts]
                       ELSE NoTask]]
      BY <2>2 DEF Poll
    <3>2. r = s /\ outbox' = outbox /\ tries' = tries /\ task[s][e].pc = "none"
      BY <2>2 DEF Poll, OneSlot
    <3>3. task'[s][e] = IF e \in B THEN [pc |-> "claim", next |-> 1, data |-> outbox[e].attempts] ELSE NoTask
      BY <2>0, <3>1, <3>2
    <3>4. CASE e \in B
      <4>1. outbox[e].status = "pending" /\ task'[s][e].pc = "claim"
        BY <3>3, <3>4 DEF Pending
      <4>2. Ahead(s, e) = 2 /\ Ahead(s, e)' = 1
        BY <3>2, <4>1 DEF Ahead
      <4> QED BY <3>2, <4>2 DEF Advances
    <3>5. CASE e \notin B
      BY <3>2, <3>3, <3>5 DEF At, Ahead, NoTask
    <3> QED BY <3>4, <3>5
  <2>3. ASSUME NEW r \in Slots, NEW f \in Events, Step(r, f) PROVE Advances(s, e)
    <3>1. r = s
      BY DEF OneSlot
    <3>2. e # f => At(s, e)' = At(s, e)
      BY <2>3, <3>1, StepCases DEF At, Ahead
    <3> QED BY <2>3, <3>1, <3>2, TaskAdvances
  <2>4. ASSUME NEW f \in Events, NEW i \in late[f], Arrive(f, i) PROVE Advances(s, e)
    BY <2>4 DEF Arrive, At, Ahead
  <2>5. ASSUME NEW w \in Workers, Crash(w) PROVE Advances(s, e)
    BY <2>0, <2>5 DEF Crash, Advances
  <2> QED BY <2>1, <2>2, <2>3, <2>4, <2>5 DEF Next
<1>2. TypeOK /\ DeliveryInv => \A s \in Slots, e \in Events : Ahead(s, e) \in 0 .. Len(Handlers(e)) + 5
  <2> SUFFICES ASSUME TypeOK, DeliveryInv, NEW s \in Slots, NEW e \in Events
               PROVE  Ahead(s, e) \in 0 .. Len(Handlers(e)) + 5
    OBVIOUS
  <2>1. /\ Len(Handlers(e)) \in Nat /\ task[s][e].next \in Nat \ {0}
        /\ task[s][e].pc = "dispatch" => task[s][e].next - 1 <= Len(Handlers(e))
    BY RouteLength, PcTyped DEF DeliveryInv, TaskInv, TaskFits
  <2> QED BY <2>1 DEF Ahead
<1>3. Spec => []OneInv
  BY OneHolds
<1> QED BY <1>1, <1>2, <1>3, TypeCorrect, DeliveryInvariant, PTL DEF Spec

(* The same worker as EventDelivery sees it: only the one slot rewrites.   *)
LEMMA OneRewrites ==
  ASSUME OneSlot, NEW s \in Slots, NEW e \in Events
  PROVE  /\ Rewriting(e) <=> task[s][e].pc = "catch"
         /\ Rewriting(e)' <=> task'[s][e].pc = "catch"
  BY DEF Rewriting, OneSlot

(* What is left to show that a step maps to one of EventDelivery's.        *)
LEMMA AbstractMove ==
  ASSUME NEW e \in Events,
         \/ AbstractStatus(e)' = AbstractStatus(e) /\ received'[e] = received[e]
         \/ /\ AbstractStatus(e) = "absent" /\ AbstractStatus(e)' = "waiting"
            /\ received'[e] = received[e]
         \/ /\ AbstractStatus(e) = "waiting" /\ AbstractStatus(e)' = "failed"
            /\ received'[e] = received[e]
         \/ /\ AbstractStatus(e) = "waiting" /\ AbstractStatus(e)' = "delivered"
            /\ received'[e] = received[e] /\ received[e] = 1 .. Len(Handlers(e))
         \/ \E i \in 1 .. Len(Handlers(e)) :
              /\ AbstractStatus(e)' = AbstractStatus(e)
              /\ AbstractStatus(e) \in {"waiting", "failed"}
              /\ i \notin received[e] /\ 1 .. i - 1 \subseteq received[e]
              /\ received'[e] = received[e] \cup {i}
  PROVE  [Delivery(e)!Next]_(Delivery(e)!vars)
BY DEF Delivery!Next, Delivery!vars, Delivery!Publish, Delivery!Receive, Delivery!Deliver,
       Delivery!GiveUp

(* The step of a task is a step of its event's delivery, or a stutter.     *)
LEMMA TaskDelivers ==
  ASSUME TypeOK, DeliveryInv, OneSlot, OneInv,
         NEW s \in Slots, NEW e \in Events, Step(s, e)
  PROVE  [Delivery(e)!Next]_(Delivery(e)!vars)
<1> DEFINE t == task[s][e]
           d == outbox[e]
<1>1. /\ Rewriting(e) <=> task[s][e].pc = "catch"
      /\ Rewriting(e)' <=> task'[s][e].pc = "catch"
  BY OneRewrites
<1>2. /\ SlotFits(t, d, tries[e]) /\ TaskFits(t, e)
      /\ d.status \in {"absent", "pending", "processing", "delivered", "failed"}
      /\ t.next \in Nat \ {0} /\ Len(Handlers(e)) \in Nat
      /\ received[e] \subseteq 1 .. Len(Handlers(e))
  BY PcTyped, DocTyped, RouteLength DEF OneInv, DeliveryInv, TaskInv, LateInv
<1>3. CASE /\ Began(task[s][e], outbox[e], tries[e], task'[s][e], outbox'[e], tries'[e])
           /\ received'[e] = received[e]
  <2>1. AbstractStatus(e) = "waiting" /\ AbstractStatus(e)' = "waiting"
    BY <1>1, <1>2, <1>3 DEF Began, SlotFits, AbstractStatus
  <2> QED BY <1>3, <2>1, AbstractMove
<1>4. CASE /\ Sent(task[s][e], outbox[e], tries[e], task'[s][e], outbox'[e], tries'[e])
           /\ SendOk(s, e) \/ (SendFail(s, e) /\ received'[e] = received[e])
  <2>1. AbstractStatus(e) = "waiting" /\ AbstractStatus(e)' = "waiting"
    BY <1>1, <1>2, <1>4 DEF Sent, SlotFits, AbstractStatus
  <2>2. CASE received'[e] = received[e]
    BY <2>1, <2>2, AbstractMove
  <2>3. CASE SendOk(s, e) /\ received'[e] # received[e]
    <3>1. /\ received'[e] = received[e] \cup {t.next}
          /\ t.pc = "dispatch" /\ t.next <= Len(Handlers(e))
      BY <2>3 DEF SendOk, TypeOK
    <3>2. t.next \in 1 .. Len(Handlers(e)) /\ t.next \notin received[e]
      BY <1>2, <2>3, <3>1, SMT
    <3>3. 1 .. t.next - 1 \subseteq received[e]
      BY <1>2, <3>1 DEF TaskFits
    <3> QED BY <2>1, <3>1, <3>2, <3>3, AbstractMove
  <2> QED BY <1>4, <2>2, <2>3
<1>5. CASE /\ Marked(task[s][e], outbox[e], tries[e], task'[s][e], outbox'[e], tries'[e])
           /\ received'[e] = received[e] /\ task[s][e].next > Len(Handlers(e))
  <2>1. AbstractStatus(e) = "waiting" /\ AbstractStatus(e)' \in {"waiting", "delivered"}
    BY <1>1, <1>2, <1>5 DEF Marked, SlotFits, AbstractStatus
  <2>2. received[e] = 1 .. Len(Handlers(e))
    <3>1. t.next - 1 <= Len(Handlers(e)) /\ 1 .. t.next - 1 \subseteq received[e]
      BY <1>2, <1>5 DEF Marked, TaskFits
    <3>2. t.next - 1 = Len(Handlers(e))
      BY <1>2, <1>5, <3>1, SMT
    <3> QED BY <1>2, <3>1, <3>2
  <2> QED BY <1>5, <2>1, <2>2, AbstractMove
<1>6. CASE /\ Handled(task[s][e], outbox[e], tries[e], task'[s][e], outbox'[e], tries'[e])
           /\ received'[e] = received[e]
  <2>1. AbstractStatus(e) = "waiting"
    BY <1>1, <1>6 DEF Handled, AbstractStatus
  <2>2. /\ AbstractStatus(e)' \in {"waiting", "delivered", "failed"}
        /\ AbstractStatus(e)' = "delivered" => d.status = "delivered"
    BY <1>1, <1>2, <1>6 DEF Handled, SlotFits, AbstractStatus
  <2>3. d.status = "delivered" => received[e] = 1 .. Len(Handlers(e))
    BY DEF DeliveryInv, DeliveredToAll
  <2> QED BY <1>6, <2>1, <2>2, <2>3, AbstractMove
<1> QED BY <1>3, <1>4, <1>5, <1>6, StepCases

(* With one slot every step is, for every event, a step of its delivery.   *)
LEMMA DeliversStep ==
  TypeOK /\ DeliveryInv /\ OneSlot /\ OneInv /\ [Next]_vars
    => [\A e \in Events : [Delivery(e)!Next]_(Delivery(e)!vars)]_vars
<1> SUFFICES ASSUME TypeOK, DeliveryInv, OneSlot, OneInv, Next, NEW e \in Events
             PROVE  [Delivery(e)!Next]_(Delivery(e)!vars)
  OBVIOUS
<1>1. ASSUME NEW f \in Events, NEW c \in Times, Publish(f, c)
      PROVE  [Delivery(e)!Next]_(Delivery(e)!vars)
  <2>1. /\ received' = received /\ outbox[f].status = "absent" /\ outbox'[f].status = "pending"
        /\ f # e => outbox'[e] = outbox[e]
    BY <1>1 DEF Publish, TypeOK
  <2>2. Rewriting(e)' = Rewriting(e)
    BY <1>1 DEF Publish, Rewriting
  <2>3. CASE f = e
    <3>1. ~ Rewriting(e)
      BY <2>1, <2>3 DEF Rewriting, OneInv, SlotFits
    <3>2. AbstractStatus(e) = "absent" /\ AbstractStatus(e)' = "waiting"
      BY <2>1, <2>3, <3>1 DEF AbstractStatus
    <3> QED BY <2>1, <3>2, AbstractMove
  <2>4. CASE f # e
    <3>1. AbstractStatus(e)' = AbstractStatus(e)
      BY <2>1, <2>2, <2>4 DEF AbstractStatus
    <3> QED BY <2>1, <3>1, AbstractMove
  <2> QED BY <2>3, <2>4
<1>2. ASSUME NEW s \in Slots, Poll(s) PROVE [Delivery(e)!Next]_(Delivery(e)!vars)
  <2>1. /\ outbox' = outbox /\ received' = received
        /\ task[s][e].pc = "none" /\ task'[s][e].pc \in {"none", "claim"}
    BY <1>2, SMT DEF Poll, TypeOK, NoTask
  <2>2. ~ Rewriting(e) /\ ~ Rewriting(e)'
    BY <2>1, OneRewrites
  <2>3. AbstractStatus(e)' = AbstractStatus(e)
    BY <2>1, <2>2 DEF AbstractStatus
  <2> QED BY <2>1, <2>3, AbstractMove
<1>3. ASSUME NEW s \in Slots, NEW f \in Events, Step(s, f)
      PROVE  [Delivery(e)!Next]_(Delivery(e)!vars)
  <2>1. CASE f = e
    BY <1>3, <2>1, TaskDelivers
  <2>2. CASE f # e
    <3>1. outbox'[e] = outbox[e] /\ received'[e] = received[e] /\ task'[s][e] = task[s][e]
      BY <1>3, <2>2, StepCases
    <3>2. Rewriting(e)' <=> Rewriting(e)
      BY <3>1, OneRewrites
    <3>3. AbstractStatus(e)' = AbstractStatus(e)
      BY <3>1, <3>2 DEF AbstractStatus
    <3> QED BY <3>1, <3>3, AbstractMove
  <2> QED BY <2>1, <2>2
<1>4. ASSUME NEW f \in Events, NEW i \in late[f], Arrive(f, i)
      PROVE  [Delivery(e)!Next]_(Delivery(e)!vars)
  <2>1. /\ outbox' = outbox /\ task' = task
        /\ received'[e] = IF f = e THEN received[e] \cup {i} ELSE received[e]
    BY <1>4 DEF Arrive, TypeOK
  <2>2. AbstractStatus(e)' = AbstractStatus(e)
    BY <2>1 DEF AbstractStatus, Rewriting
  <2>3. CASE received'[e] = received[e]
    BY <2>2, <2>3, AbstractMove
  <2>4. CASE f = e /\ i \notin received[e]
    <3>1. i \in 1 .. Len(Handlers(e)) /\ 1 .. i - 1 \subseteq received[e]
      BY <2>4 DEF DeliveryInv, LateInv
    <3>2. outbox[e].status \notin {"absent", "delivered"}
      BY <2>4, <3>1 DEF OneInv, DocFits, DeliveryInv, DeliveredToAll
    <3>3. AbstractStatus(e) \in {"waiting", "failed"}
      BY <3>2, DocTyped DEF AbstractStatus
    <3> QED BY <2>1, <2>2, <2>4, <3>1, <3>3, AbstractMove
  <2> QED BY <2>1, <2>3, <2>4
<1>5. ASSUME NEW w \in Workers, Crash(w) PROVE [Delivery(e)!Next]_(Delivery(e)!vars)
  <2>1. outbox' = outbox /\ received' = received
    BY <1>5 DEF Crash
  <2>2. \A s \in Slots : task'[s][e] = task[s][e] \/ task'[s][e] = NoTask
    BY <1>5 DEF Crash, TypeOK
  <2>3. CASE Rewriting(e) /\ ~ Rewriting(e)'
    <3>1. outbox[e].status \in {"processing", "delivered"}
      BY <2>3 DEF Rewriting, OneInv, SlotFits
    <3>2. AbstractStatus(e) = "waiting" /\ AbstractStatus(e)' \in {"waiting", "delivered"}
          /\ (AbstractStatus(e)' = "delivered" => outbox[e].status = "delivered")
      BY <2>1, <2>3, <3>1 DEF AbstractStatus
    <3>3. outbox[e].status = "delivered" => received[e] = 1 .. Len(Handlers(e))
      BY DEF DeliveryInv, DeliveredToAll
    <3> QED BY <2>1, <3>2, <3>3, AbstractMove
  <2>4. CASE Rewriting(e)' <=> Rewriting(e)
    <3>1. AbstractStatus(e)' = AbstractStatus(e)
      BY <2>1, <2>4 DEF AbstractStatus
    <3> QED BY <2>1, <3>1, AbstractMove
  <2>5. Rewriting(e)' => Rewriting(e)
    BY <2>2 DEF Rewriting, NoTask
  <2> QED BY <2>3, <2>4, <2>5
<1> QED BY <1>1, <1>2, <1>3, <1>4, <1>5 DEF Next

(* A single worker that waits for each batch keeps EventDelivery's promise *)
(* to every event, whatever dies, fails or comes late: settled events stay *)
(* settled, and consumers receive it in order (processEvent.ts 23-41).     *)
THEOREM WorkerImplementsDelivery == ASSUME OneSlot PROVE Spec => DeliversEachEvent
<1> DEFINE Starts == \A e \in Events : Delivery(e)!Init
           Steps == \A e \in Events : [Delivery(e)!Next]_(Delivery(e)!vars)
<1>1. Init => Starts
  BY DEF Init, Delivery!Init, AbstractStatus, Rewriting, NoTask
<1>2. TypeOK /\ DeliveryInv /\ OneInv /\ [Next]_vars => [Steps]_vars
  BY DeliversStep
<1>3. Spec => []OneInv
  BY OneHolds
<1>4. Spec => Starts /\ [][Steps]_vars
  <2> HIDE DEF Starts, Steps
  <2> QED BY <1>1, <1>2, <1>3, TypeCorrect, DeliveryInvariant, PTL DEF Spec
<1> QED BY <1>4 DEF DeliversEachEvent

(* Until an update is rejected, updates succeed.                           *)
LEMMA OutcomeOk ==
  ASSUME TypeOK, faults' = 0, NEW e, NEW status, NEW n, NEW o, Write(e, status, n, o)
  PROVE  o = "ok" /\ faults = 0
<1>1. faults \in Nat
  BY WorkerAssumption, SMT DEF TypeOK
<1> QED BY <1>1, SMT DEF Write

(* Rejected updates and deaths are counted.                                *)
LEMMA NoFaultYet ==
  ASSUME TypeOK, crashes' = 0, faults' = 0, NEW s \in Slots, NEW e \in Events, Step(s, e)
  PROVE  crashes = 0 /\ faults = 0
<1>1. ASSUME NEW o, NEW status, NEW n, Write(e, status, n, o) PROVE faults = 0
  BY <1>1, OutcomeOk
<1>2. crashes' = crashes
  BY DEF Step, Claim, MarkDelivered, HandleFailure, SendOk, SendFail
<1> QED BY <1>1, <1>2 DEF Step, Claim, MarkDelivered, HandleFailure, SendOk, SendFail

(* However many batches overlap, only the death of a pod or a rejected     *)
(* update leaves an event behind in 'processing' (processEvent.ts 25-41).  *)
THEOREM NoneStranded == Spec => []NoStrandingWithoutFault
<1> USE WorkerAssumption
<1>1. Init => TypeOK /\ NoStrandingWithoutFault
  <2>1. Init => TypeOK
    BY SMT DEF Init, TypeOK, Doc, Task, NoTask
  <2>2. Init => NoStrandingWithoutFault
    BY DEF Init, NoStrandingWithoutFault, Stranded
  <2> QED BY <2>1, <2>2
<1>2. TypeOK /\ NoStrandingWithoutFault /\ [Next]_vars => NoStrandingWithoutFault'
  <2> SUFFICES ASSUME TypeOK, NoStrandingWithoutFault, [Next]_vars, crashes' = 0, faults' = 0,
                      NEW e \in Events, outbox'[e].status = "processing"
               PROVE  \E s \in Slots : task'[s][e].pc \notin {"none", "claim"}
    BY DEF NoStrandingWithoutFault, Stranded
  <2>1. CASE UNCHANGED vars
    BY <2>1 DEF vars, NoStrandingWithoutFault, Stranded
  <2>2. ASSUME NEW f \in Events, NEW c \in Times, Publish(f, c)
        PROVE  \E s \in Slots : task'[s][e].pc \notin {"none", "claim"}
    <3>1. outbox'[e] = outbox[e] \/ outbox'[e].status = "pending"
      BY <2>2 DEF Publish, TypeOK
    <3> QED BY <2>2, <3>1 DEF Publish, NoStrandingWithoutFault, Stranded
  <2>3. ASSUME NEW s \in Slots, Poll(s)
        PROVE  \E r \in Slots : task'[r][e].pc \notin {"none", "claim"}
    <3>1. PICK r \in Slots : task[r][e].pc \notin {"none", "claim"}
      BY <2>3 DEF Poll, NoStrandingWithoutFault, Stranded
    <3>2. r # s
      BY <2>3, <3>1 DEF Poll
    <3>3. task'[r] = task[r]
      BY <2>3, <3>2 DEF Poll, TypeOK
    <3> QED BY <3>1, <3>3
  <2>4. ASSUME NEW s \in Slots, NEW f \in Events, Step(s, f)
        PROVE  \E r \in Slots : task'[r][e].pc \notin {"none", "claim"}
    <3>1. CASE f # e
      <4>1. outbox'[e] = outbox[e]
        BY <2>4, <3>1, StepCases
      <4>2. \A r \in Slots : task'[r][e] = task[r][e]
        BY <2>4, <3>1 DEF Step, Claim, MarkDelivered, HandleFailure, SendOk, SendFail, TypeOK
      <4>3. crashes = 0 /\ faults = 0
        BY <2>4, NoFaultYet
      <4> QED BY <4>1, <4>2, <4>3 DEF NoStrandingWithoutFault, Stranded
    <3>2. CASE f = e /\ SendOk(s, e)
      BY <3>2 DEF SendOk, TypeOK
    <3>3. CASE f = e /\ SendFail(s, e)
      BY <3>3 DEF SendFail, TypeOK
    <3>4. ASSUME NEW o \in Outcomes, f = e, Claim(s, e, o)
          PROVE  \E r \in Slots : task'[r][e].pc \notin {"none", "claim"}
      <4>1. o = "ok"
        BY <2>4, <3>4, OutcomeOk DEF Claim
      <4>2. task'[s][e].pc = "dispatch"
        BY <3>4, <4>1 DEF Claim, TypeOK
      <4> QED BY <4>2
    <3>5. ASSUME NEW o \in Outcomes, f = e, MarkDelivered(s, e, o) PROVE FALSE
      <4>1. o = "ok"
        BY <2>4, <3>5, OutcomeOk DEF MarkDelivered
      <4>2. outbox'[e] = [status |-> "delivered", attempts |-> outbox[e].attempts]
        BY <3>5, <4>1, WriteExact DEF MarkDelivered
      <4> QED BY <4>2
    <3>6. ASSUME NEW o \in Outcomes, f = e, HandleFailure(s, e, o) PROVE FALSE
      <4>1. o = "ok"
        BY <2>4, <3>6, OutcomeOk DEF HandleFailure
      <4>2. PICK status \in {"failed", "pending"} :
              Write(e, status, task[s][e].data + 1, o)
        BY <3>6 DEF HandleFailure
      <4>3. outbox'[e] = [status |-> status, attempts |-> task[s][e].data + 1]
        BY <4>1, <4>2, WriteExact
      <4> QED BY <4>3
    <3> QED BY <2>4, <3>1, <3>2, <3>3, <3>4, <3>5, <3>6 DEF Step
  <2>5. ASSUME NEW f \in Events, NEW i \in late[f], Arrive(f, i)
        PROVE  \E s \in Slots : task'[s][e].pc \notin {"none", "claim"}
    BY <2>5 DEF Arrive, NoStrandingWithoutFault, Stranded
  <2>6. ASSUME NEW w \in Workers, Crash(w) PROVE FALSE
    <3>1. crashes' = crashes + 1 /\ crashes \in Nat
      BY <2>6 DEF Crash, TypeOK
    <3> QED BY <3>1, SMT
  <2> QED BY <2>1, <2>2, <2>3, <2>4, <2>5, <2>6 DEF Next
<1> QED BY <1>1, <1>2, TypeStep, PTL DEF Spec
============================================================================
