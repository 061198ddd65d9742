----------------------- MODULE AccountLifecycleProofs -----------------------
(***************************************************************************)
(* Theorems about AccountLifecycle for any number of requests in flight,   *)
(* deliveries and failures.                                                *)
(***************************************************************************)
EXTENDS AccountLifecycle, TLAPS

(* A task that moves stays a task.                                         *)
LEMMA BecomeTyped ==
  ASSUME TypeOK, NEW t \in Tasks, NEW op \in RegOps \cup UserOps,
         NEW pc \in {"idle", "regRead", "read", "claims", "write", "auth", "regWrite", "publish"},
         NEW copy \in User, NEW retried \in BOOLEAN,
         Become(t, op, pc, copy, retried)
  PROVE  task' \in [Tasks -> Task]
<1>1. [op |-> op, pc |-> pc, copy |-> copy, retried |-> retried] \in Task
  BY DEF Task
<1> QED BY <1>1 DEF Become, TypeOK

(* The fields of a task are what they should be.                           *)
LEMMA TaskFields ==
  ASSUME TypeOK, NEW t \in Tasks
  PROVE  /\ task[t] \in Task
         /\ task[t].op \in RegOps \cup UserOps /\ task[t].copy \in User
         /\ task[t].retried \in BOOLEAN
         /\ task[t].pc \in {"idle", "regRead", "read", "claims", "write", "auth", "regWrite",
                            "publish"}
<1>1. task[t] \in Task
  BY DEF TypeOK
<1> QED BY <1>1 DEF Task

(* Moving to another await keeps the tasks typed.                          *)
LEMMA GotoTyped ==
  ASSUME TypeOK, NEW t \in Tasks,
         NEW pc \in {"idle", "regRead", "read", "claims", "write", "auth", "regWrite", "publish"},
         Goto(t, pc)
  PROVE  task' \in [Tasks -> Task]
  BY TaskFields, BecomeTyped DEF Goto

(* What is written back is a user document.                                *)
LEMMA ChangedTyped ==
  ASSUME TypeOK, NEW op \in RegOps \cup UserOps, NEW copy \in User
  PROVE  Changed(op, copy) \in User
  BY SMT DEF TypeOK, Changed, StatusAfter, User, Statuses

(* A failure is counted within its bound, and nothing else is counted.     *)
LEMMA FaultTyped ==
  ASSUME TypeOK, Fault
  PROVE  /\ begun' \in 0 .. MaxTasks /\ deliveries' \in 0 .. MaxDeliveries
         /\ faults' \in 0 .. MaxFaults /\ alone' = alone
  BY AccountAssumption, SMT DEF TypeOK, Fault

(* What a registration stores, and the event it publishes, are typed.      *)
LEMMA NewUserTyped == NewUser \in User /\ "user.registered" \in EventTypes
  BY DEF NewUser, User, Statuses, EventTypes

(* Every step of the registration keeps the types.                         *)
LEMMA SignupTyped ==
  ASSUME TypeOK,
         \/ CreateUser \/ SetSignupClaims \/ CommitUser \/ PostRegistration \/ PostFails
         \/ Arrive \/ SignupFails \/ Compensate \/ SignupDies \/ Lockout
  PROVE  TypeOK'
<1> USE AccountAssumption, NewUserTyped DEF TypeOK, Signup, bounds, stores
<1>1. CASE CreateUser \/ SetSignupClaims \/ CommitUser
  BY <1>1 DEF CreateUser, SetSignupClaims, CommitUser
<1>2. CASE PostRegistration \/ Arrive
  BY <1>2 DEF PostRegistration, Arrive
<1>3. CASE PostFails
  <2>1. /\ UNCHANGED <<auth, claims, user, events, task, granted>>
        /\ reg' \in {reg, "pending"} /\ signup' \in {"again", "catch"}
    BY <1>3, Zenon DEF PostFails
  <2>2. late' \in BOOLEAN
    BY <1>3, Zenon DEF PostFails
  <2>3. Fault
    BY <1>3, Zenon DEF PostFails
  <2> QED BY <2>1, <2>2, <2>3, FaultTyped
<1>4. CASE SignupFails
  <2>1. /\ UNCHANGED <<auth, claims, reg, late, task, granted>>
        /\ user' \in {user, NewUser} /\ signup' = "catch"
        /\ events' \in {events, events \cup {"user.registered"}}
    BY <1>4 DEF SignupFails
  <2>2. Fault
    BY <1>4 DEF SignupFails
  <2> QED BY <2>1, <2>2, FaultTyped
<1>5. CASE Compensate
  <2>1. /\ UNCHANGED <<claims, user, reg, late, events, task, granted>>
        /\ auth' \in {auth, "deleted"} /\ signup' = "failed"
    BY <1>5 DEF Compensate
  <2>2. Fault \/ UNCHANGED bounds
    BY <1>5, Zenon DEF Compensate
  <2> QED BY <2>1, <2>2, FaultTyped
<1>6. CASE SignupDies
  BY <1>6, FaultTyped DEF SignupDies
<1>7. CASE Lockout
  BY <1>7 DEF Lockout
<1> QED BY <1>1, <1>2, <1>3, <1>4, <1>5, <1>6, <1>7, Zenon

(* Every step of a request keeps the types.                                *)
LEMMA RequestTyped == ASSUME TypeOK, AccountInv, NEW t \in Tasks, Request(t) PROVE TypeOK'
<1> USE AccountAssumption DEF bounds, stores
<1>1. ASSUME task' \in [Tasks -> Task],
             UNCHANGED <<stores, signup, late, events, granted, bounds>>
      PROVE  TypeOK'
  BY <1>1 DEF TypeOK
<1>2. CASE RegRead(t)
  <2>1. PICK pc \in {"idle", "read", "regWrite"} : Goto(t, pc)
    BY <1>2 DEF RegRead
  <2> QED BY <1>1, <1>2, <2>1, GotoTyped DEF RegRead
<1>3. CASE Read(t)
  <2>1. CASE Admits(task[t].op, user)
    <3>1. PICK pc \in {"claims", "write"} : Become(t, task[t].op, pc, user, task[t].retried)
      BY <1>3, <2>1 DEF Read
    <3>2. user \in User
      BY DEF TypeOK
    <3> QED BY <1>1, <1>3, <3>1, <3>2, TaskFields, BecomeTyped DEF Read
  <2>2. CASE ~ Admits(task[t].op, user)
    BY <1>1, <1>3, <2>2, GotoTyped DEF Read
  <2> QED BY <2>1, <2>2
<1>4. CASE SetClaims(t)
  <2>1. PICK pc \in {"idle", "write"} : Goto(t, pc)
    BY <1>4 DEF SetClaims
  <2>2. task' \in [Tasks -> Task]
    BY <2>1, GotoTyped
  <2>3. claims' \in {claims, "admin"}
    BY <1>4 DEF SetClaims
  <2> QED BY <1>4, <2>2, <2>3 DEF SetClaims, TypeOK
<1>5. CASE Write(t)
  <2>1. PICK pc \in {"idle", "publish", "auth"} : Goto(t, pc)
    BY <1>5 DEF Write
  <2>2. task' \in [Tasks -> Task]
    BY <2>1, GotoTyped
  <2>3. user' \in User
    BY <1>5, TaskFields, ChangedTyped DEF Write
  <2> QED BY <1>5, <2>2, <2>3 DEF Write, TypeOK
<1>6. ASSUME Fails(t) PROVE task' \in [Tasks -> Task]
  <2>1. Become(t, task[t].op, "read", task[t].copy, TRUE) \/ Goto(t, "idle")
    BY <1>6 DEF Fails
  <2> QED BY <2>1, TaskFields, BecomeTyped, GotoTyped
<1>7. CASE Switch(t)
  <2>1. CASE auth \in {"none", "deleted"}
    BY <1>1, <1>6, <1>7, <2>1 DEF Switch
  <2>2. CASE auth \notin {"none", "deleted"}
    <3>1. PICK pc \in {"idle", "publish", "regWrite"} : Goto(t, pc)
      BY <1>7, <2>2 DEF Switch
    <3>2. task' \in [Tasks -> Task]
      BY <3>1, GotoTyped
    <3>3. auth' \in {"enabled", "disabled"}
      BY <1>7, <2>2 DEF Switch
    <3>4. granted' \in BOOLEAN
      BY <1>7, <2>2, Zenon DEF Switch
    <3>5. UNCHANGED <<claims, user, reg, signup, late, events, bounds>>
      BY <1>7 DEF Switch
    <3> QED BY <3>2, <3>3, <3>4, <3>5 DEF TypeOK
  <2> QED BY <2>1, <2>2
<1>8. CASE RegWrite(t)
  <2>1. task' \in [Tasks -> Task]
    BY <1>8, GotoTyped DEF RegWrite
  <2>2. reg' \in {"approved", "rejected"}
    BY <1>8 DEF RegWrite
  <2> QED BY <1>8, <2>1, <2>2 DEF RegWrite, TypeOK
<1>9. CASE Publish(t)
  <2>1. task' \in [Tasks -> Task]
    BY <1>9, GotoTyped DEF Publish
  <2>2. task[t].op \in RegOps \cup {"promote", "suspend"}
    BY <1>9 DEF Publish, AccountInv, TaskBacked
  <2>3. EventOf[task[t].op] \in EventTypes
    BY <2>2, SMT DEF RegOps, EventOf, EventTypes
  <2> QED BY <1>9, <2>1, <2>3 DEF Publish, TypeOK
<1>10. CASE Dies(t) \/ CallFails(t)
  <2>1. task' \in [Tasks -> Task]
    <3>1. CASE Dies(t)
      BY <3>1, GotoTyped DEF Dies
    <3>2. CASE CallFails(t)
      <4>1. Fails(t) \/ Become(t, "approve", task[t].pc, task[t].copy, task[t].retried)
        BY <3>2 DEF CallFails
      <4>2. "approve" \in RegOps \cup UserOps
        BY DEF UserOps
      <4> QED BY <1>6, <4>1, <4>2, TaskFields, BecomeTyped
    <3> QED BY <1>10, <3>1, <3>2
  <2>2. Fault /\ UNCHANGED <<stores, signup, late, events, granted>>
    BY <1>10 DEF Dies, CallFails
  <2> QED BY <2>1, <2>2, FaultTyped DEF TypeOK
<1>11. ASSUME NEW op \in RegOps \cup UserOps, Begin(t, op) PROVE TypeOK'
  <2>1. PICK pc \in {"regRead", "read"} : Become(t, op, pc, NoUser, FALSE)
    BY <1>11 DEF Begin
  <2>2. NoUser \in User
    BY DEF NoUser, User, Statuses
  <2>3. task' \in [Tasks -> Task]
    BY <2>1, <2>2, BecomeTyped
  <2>4. begun' \in 0 .. MaxTasks
    BY <1>11, SMT DEF Begin, TypeOK
  <2>5. alone' \in BOOLEAN
    BY <1>11, Zenon DEF Begin
  <2>6. UNCHANGED <<stores, signup, late, events, granted, deliveries, faults>>
    BY <1>11 DEF Begin
  <2> QED BY <2>3, <2>4, <2>5, <2>6 DEF TypeOK
<1>12. CASE Deliver(t)
  <2>1. NoUser \in User /\ "approve" \in RegOps \cup UserOps
    BY DEF NoUser, User, Statuses, UserOps
  <2>2. task' \in [Tasks -> Task]
    BY <1>12, <2>1, BecomeTyped DEF Deliver
  <2>3. deliveries' \in 0 .. MaxDeliveries
    BY <1>12, SMT DEF Deliver, TypeOK
  <2>4. alone' \in BOOLEAN
    BY <1>12, Zenon DEF Deliver
  <2>5. UNCHANGED <<stores, signup, late, events, granted, begun, faults>>
    BY <1>12 DEF Deliver
  <2> QED BY <2>2, <2>3, <2>4, <2>5 DEF TypeOK
<1> QED BY <1>2, <1>3, <1>4, <1>5, <1>7, <1>8, <1>9, <1>10, <1>11, <1>12 DEF Request

(* The types and the invariant hold at the start.                          *)
LEMMA AccountInit == Init => TypeOK /\ AccountInv
<1> SUFFICES ASSUME Init PROVE TypeOK /\ AccountInv
  OBVIOUS
<1>1. NoUser \in User /\ NoTask \in Task
  BY DEF NoUser, User, Statuses, NoTask, Task, UserOps
<1>2. TypeOK
  <2>1. /\ auth \in {"none", "enabled", "disabled", "deleted"}
        /\ claims \in {"none", "student", "admin"} /\ user \in User
        /\ reg \in {"none", "pending", "approved", "rejected"}
        /\ signup \in {"start", "created", "claimed", "stored", "again", "catch", "done",
                       "failed", "dead"}
    BY <1>1 DEF Init
  <2>2. late \in BOOLEAN /\ granted \in BOOLEAN /\ alone \in BOOLEAN /\ events \subseteq EventTypes
    BY DEF Init
  <2>3. task \in [Tasks -> Task]
    BY <1>1 DEF Init
  <2>4. /\ begun \in 0 .. MaxTasks /\ deliveries \in 0 .. MaxDeliveries
        /\ faults \in 0 .. MaxFaults
    BY AccountAssumption, SMT DEF Init
  <2> QED BY <2>1, <2>2, <2>3, <2>4 DEF TypeOK
<1>3. AccountInv
  BY DEF Init, AccountInv, RegistrationBacked, TaskBacked, NoTask
<1> QED BY <1>2, <1>3

\* What a step must respect for the invariant to live on in what it leaves alone.
Forward ==
  /\ granted => granted'
  /\ user.status # "none" => user'.status # "none"

(* A request that moves, with a task that is backed afterwards, leaves the *)
(* other tasks backed.                                                     *)
LEMMA OneTaskMoves ==
  ASSUME TypeOK, AccountInv, Forward, NEW t \in Tasks, NEW op, NEW pc, NEW copy, NEW retried,
         Become(t, op, pc, copy, retried),
         TaskBacked([op |-> op, pc |-> pc, copy |-> copy, retried |-> retried],
                    granted', user'.status # "none")
  PROVE  \A q \in Tasks : TaskBacked(task'[q], granted', user'.status # "none")
<1> SUFFICES ASSUME NEW q \in Tasks
             PROVE  TaskBacked(task'[q], granted', user'.status # "none")
  OBVIOUS
<1>1. CASE q = t
  BY <1>1 DEF Become, TypeOK
<1>2. CASE q # t
  <2>1. task'[q] = task[q]
    BY <1>2 DEF Become, TypeOK
  <2>2. TaskBacked(task[q], granted, user.status # "none")
    BY DEF AccountInv
  <2> QED BY <2>1, <2>2 DEF TaskBacked, Forward
<1> QED BY <1>1, <1>2

(* Every step of the registration keeps the invariant.                     *)
LEMMA SignupKeeps ==
  ASSUME TypeOK, AccountInv,
         \/ CreateUser \/ SetSignupClaims \/ CommitUser \/ PostRegistration \/ PostFails
         \/ Arrive \/ SignupFails \/ Compensate \/ SignupDies \/ Lockout
  PROVE  AccountInv'
<1>1. task' = task /\ granted' = granted
  BY DEF CreateUser, SetSignupClaims, CommitUser, PostRegistration, PostFails, Arrive,
         SignupFails, Compensate, SignupDies, Lockout, Signup
<1>2. user.status # "none" => user'.status # "none"
  BY DEF CreateUser, SetSignupClaims, CommitUser, PostRegistration, PostFails, Arrive,
         SignupFails, Compensate, SignupDies, Lockout, NewUser, stores
<1>3. \A t \in Tasks : TaskBacked(task'[t], granted', user'.status # "none")
  BY <1>1, <1>2 DEF AccountInv, TaskBacked
<1>4. /\ reg' = "approved" => reg = "approved"
      /\ "registration.approved" \in events' => "registration.approved" \in events
  BY DEF CreateUser, SetSignupClaims, CommitUser, PostRegistration, PostFails, Arrive,
         SignupFails, Compensate, SignupDies, Lockout, stores
<1>5. /\ signup' \in {"stored", "again", "done"} => user'.status # "none"
      /\ reg' # "none" \/ late' => user'.status # "none"
  <2>1. CASE CreateUser \/ SetSignupClaims \/ CommitUser
    BY <2>1 DEF CreateUser, SetSignupClaims, CommitUser, Signup, NewUser, AccountInv,
                RegistrationBacked
  <2>2. CASE PostRegistration \/ Arrive
    BY <2>2 DEF PostRegistration, Arrive, Signup, AccountInv, RegistrationBacked
  <2>3. CASE PostFails
    BY <2>3 DEF PostFails, Signup, AccountInv, RegistrationBacked
  <2>4. CASE SignupFails
    BY <2>4 DEF SignupFails, Signup, NewUser, AccountInv, RegistrationBacked
  <2>5. CASE Compensate \/ SignupDies \/ Lockout
    BY <2>5 DEF Compensate, SignupDies, Lockout, Signup, stores, AccountInv,
                RegistrationBacked
  <2> QED BY <2>1, <2>2, <2>3, <2>4, <2>5
<1> QED BY <1>1, <1>3, <1>4, <1>5 DEF AccountInv, RegistrationBacked

\* A request that ends is backed whatever it did.
LEMMA IdleBacked ==
  ASSUME NEW op, NEW copy, NEW retried, NEW approved, NEW exists
  PROVE  TaskBacked([op |-> op, pc |-> "idle", copy |-> copy, retried |-> retried],
                    approved, exists)
  BY DEF TaskBacked

(* A step of one request keeps the invariant when the request is backed    *)
(* afterwards and what backs the others does not go away.                  *)
LEMMA MoveKeeps ==
  ASSUME TypeOK, AccountInv, Forward, RegistrationBacked', signup' = signup,
         NEW t \in Tasks, NEW op, NEW pc, NEW copy, NEW retried,
         Become(t, op, pc, copy, retried),
         TaskBacked([op |-> op, pc |-> pc, copy |-> copy, retried |-> retried],
                    granted', user'.status # "none")
  PROVE  AccountInv'
<1>1. \A q \in Tasks : TaskBacked(task'[q], granted', user'.status # "none")
  BY OneTaskMoves
<1>2. signup' \in {"stored", "again", "done"} => user'.status # "none"
  BY DEF AccountInv, Forward
<1> QED BY <1>1, <1>2 DEF AccountInv

(* The same of a step that changes nothing but the request.                *)
LEMMA OnlyMoveKeeps ==
  ASSUME TypeOK, AccountInv, user' = user, reg' = reg, signup' = signup, late' = late,
         events' = events, granted' = granted,
         NEW t \in Tasks, NEW op, NEW pc, NEW copy, NEW retried,
         Become(t, op, pc, copy, retried),
         TaskBacked([op |-> op, pc |-> pc, copy |-> copy, retried |-> retried],
                    granted, user.status # "none")
  PROVE  AccountInv'
<1>1. Forward /\ RegistrationBacked'
  BY DEF Forward, AccountInv, RegistrationBacked
<1>2. TaskBacked([op |-> op, pc |-> pc, copy |-> copy, retried |-> retried],
                 granted', user'.status # "none")
  OBVIOUS
<1> QED BY <1>1, <1>2, MoveKeeps

(* A request that ends, changing nothing else, keeps the invariant.        *)
LEMMA EndKeeps ==
  ASSUME TypeOK, AccountInv, user' = user, reg' = reg, signup' = signup, late' = late,
         events' = events, granted' = granted, NEW t \in Tasks, Goto(t, "idle")
  PROVE  AccountInv'
  BY OnlyMoveKeeps, IdleBacked DEF Goto

(* Failing leaves a request that ends or goes back to read the user.       *)
LEMMA FailsKeeps ==
  ASSUME TypeOK, AccountInv, user' = user, reg' = reg, signup' = signup, late' = late,
         events' = events, granted' = granted, NEW t \in Tasks, Fails(t)
  PROVE  AccountInv'
<1>1. CASE Goto(t, "idle")
  BY <1>1, EndKeeps
<1>2. CASE Become(t, task[t].op, "read", task[t].copy, TRUE)
  <2>1. TaskBacked([op |-> task[t].op, pc |-> "read", copy |-> task[t].copy, retried |-> TRUE],
                   granted, user.status # "none")
    BY DEF TaskBacked
  <2> QED BY <1>2, <2>1, OnlyMoveKeeps
<1> QED BY <1>1, <1>2 DEF Fails

(* Every step of a request keeps the invariant.                            *)
LEMMA RequestKeeps == ASSUME TypeOK, AccountInv, NEW t \in Tasks, Request(t) PROVE AccountInv'
<1>1. /\ task[t].op \in RegOps \cup UserOps /\ task[t].copy \in User
      /\ TaskBacked(task[t], granted, user.status # "none")
  BY TaskFields DEF AccountInv
<1>2. CASE RegRead(t)
  <2>1. /\ user' = user /\ reg' = reg /\ signup' = signup /\ late' = late
        /\ events' = events /\ granted' = granted
    BY <1>2 DEF RegRead, stores
  <2>2. CASE Goto(t, "idle")
    BY <2>1, <2>2, EndKeeps
  <2>3. CASE reg = "pending" /\ task[t].op = "approveRegistration" /\ Goto(t, "read")
    <3>1. TaskBacked([op |-> task[t].op, pc |-> "read", copy |-> task[t].copy,
                      retried |-> task[t].retried], granted, user.status # "none")
      BY DEF TaskBacked
    <3> QED BY <2>1, <2>3, <3>1, OnlyMoveKeeps DEF Goto
  <2>4. CASE reg = "pending" /\ task[t].op # "approveRegistration" /\ Goto(t, "regWrite")
    <3>1. task[t].op \in RegOps /\ user.status # "none"
      BY <1>1, <1>2, <2>4 DEF RegRead, TaskBacked, AccountInv, RegistrationBacked
    <3>2. TaskBacked([op |-> task[t].op, pc |-> "regWrite", copy |-> task[t].copy,
                      retried |-> task[t].retried], granted, user.status # "none")
      BY <2>4, <3>1 DEF TaskBacked
    <3> QED BY <2>1, <2>4, <3>2, OnlyMoveKeeps DEF Goto
  <2> QED BY <1>2, <2>2, <2>3, <2>4 DEF RegRead
<1>3. CASE Read(t)
  <2>1. /\ user' = user /\ reg' = reg /\ signup' = signup /\ late' = late
        /\ events' = events /\ granted' = granted
    BY <1>3 DEF Read, stores
  <2>2. CASE Admits(task[t].op, user)
    <3>1. PICK pc \in {"claims", "write"} :
            /\ Become(t, task[t].op, pc, user, task[t].retried)
            /\ pc = "claims" => task[t].op = "promote"
      BY <1>3, <2>2 DEF Read
    <3>2. user.status # "none"
      BY <2>2 DEF Admits, Live
    <3>3. TaskBacked([op |-> task[t].op, pc |-> pc, copy |-> user,
                      retried |-> task[t].retried], granted, user.status # "none")
      BY <3>1, <3>2 DEF TaskBacked
    <3> QED BY <2>1, <3>1, <3>3, OnlyMoveKeeps
  <2>3. CASE ~ Admits(task[t].op, user)
    BY <1>3, <2>1, <2>3, EndKeeps DEF Read
  <2> QED BY <2>2, <2>3
<1>4. CASE SetClaims(t)
  <2>1. /\ user' = user /\ reg' = reg /\ signup' = signup /\ late' = late
        /\ events' = events /\ granted' = granted /\ task[t].pc = "claims"
    BY <1>4 DEF SetClaims
  <2>2. CASE Goto(t, "idle")
    BY <2>1, <2>2, EndKeeps
  <2>3. CASE Goto(t, "write")
    <3>1. TaskBacked([op |-> task[t].op, pc |-> "write", copy |-> task[t].copy,
                      retried |-> task[t].retried], granted, user.status # "none")
      BY <1>1, <2>1 DEF TaskBacked
    <3> QED BY <2>1, <2>3, <3>1, OnlyMoveKeeps DEF Goto
  <2> QED BY <1>4, <2>2, <2>3 DEF SetClaims
<1>5. CASE Write(t)
  <2>1. /\ reg' = reg /\ signup' = signup /\ late' = late
        /\ events' = events /\ granted' = granted /\ task[t].pc = "write"
    BY <1>5 DEF Write
  <2>2. user.status # "none" /\ task[t].copy.status # "none"
    BY <1>1, <2>1 DEF TaskBacked
  <2>3. user'.status # "none"
    BY <1>5, <2>2 DEF Write, Changed, StatusAfter
  <2>4. Forward /\ RegistrationBacked'
    BY <2>1, <2>3 DEF Forward, AccountInv, RegistrationBacked
  <2>5. PICK pc \in {"idle", "publish", "auth"} :
          Goto(t, pc) /\ (pc = "publish" => task[t].op = "promote")
    BY <1>5 DEF Write
  <2>6. TaskBacked([op |-> task[t].op, pc |-> pc, copy |-> task[t].copy,
                    retried |-> task[t].retried], granted', user'.status # "none")
    BY <2>3, <2>5 DEF TaskBacked
  <2> QED BY <2>1, <2>4, <2>5, <2>6, MoveKeeps DEF Goto
<1>6. CASE Switch(t)
  <2>1. /\ user' = user /\ reg' = reg /\ signup' = signup /\ late' = late
        /\ events' = events
    BY <1>6 DEF Switch
  <2>2. CASE auth \in {"none", "deleted"}
    BY <1>6, <2>1, <2>2, FailsKeeps DEF Switch
  <2>3. CASE auth \notin {"none", "deleted"}
    <3>1. granted => granted'
      BY <1>6, <2>3 DEF Switch
    <3>2. task[t].op = "approveRegistration" => granted'
      BY <1>6, <2>3 DEF Switch
    <3>3. Forward /\ RegistrationBacked'
      BY <2>1, <3>1 DEF Forward, AccountInv, RegistrationBacked
    <3>4. CASE Goto(t, "idle")
      BY <2>1, <3>3, <3>4, MoveKeeps, IdleBacked DEF Goto
    <3>5. CASE task[t].op = "suspend" /\ Goto(t, "publish")
      <4>1. TaskBacked([op |-> task[t].op, pc |-> "publish", copy |-> task[t].copy,
                        retried |-> task[t].retried], granted', user'.status # "none")
        BY <3>5 DEF TaskBacked
      <4> QED BY <2>1, <3>3, <3>5, <4>1, MoveKeeps DEF Goto
    <3>6. CASE task[t].op = "approveRegistration" /\ Goto(t, "regWrite")
      <4>1. user'.status # "none"
        BY <1>1, <1>6, <2>1 DEF Switch, TaskBacked
      <4>2. TaskBacked([op |-> task[t].op, pc |-> "regWrite", copy |-> task[t].copy,
                        retried |-> task[t].retried], granted', user'.status # "none")
        BY <3>2, <3>6, <4>1 DEF TaskBacked, RegOps
      <4> QED BY <2>1, <3>3, <3>6, <4>2, MoveKeeps DEF Goto
    <3> QED BY <1>6, <2>3, <3>4, <3>5, <3>6 DEF Switch
  <2> QED BY <2>2, <2>3
<1>7. CASE RegWrite(t)
  <2>1. /\ user' = user /\ signup' = signup /\ late' = late
        /\ events' = events /\ granted' = granted /\ task[t].pc = "regWrite"
    BY <1>7 DEF RegWrite
  <2>2. task[t].op \in RegOps /\ user.status # "none"
    BY <1>1, <2>1 DEF TaskBacked
  <2>3. task[t].op = "approveRegistration" => granted
    BY <1>1, <2>1 DEF TaskBacked
  <2>4. reg' = "approved" => granted
    BY <1>7, <2>3 DEF RegWrite
  <2>5. Forward /\ RegistrationBacked'
    BY <2>1, <2>2, <2>4 DEF Forward, AccountInv, RegistrationBacked
  <2>6. TaskBacked([op |-> task[t].op, pc |-> "publish", copy |-> task[t].copy,
                    retried |-> task[t].retried], granted', user'.status # "none")
    BY <2>1, <2>2, <2>3 DEF TaskBacked
  <2>7. Goto(t, "publish")
    BY <1>7 DEF RegWrite
  <2> QED BY <2>1, <2>5, <2>6, <2>7, MoveKeeps DEF Goto
<1>8. CASE Publish(t)
  <2>1. /\ user' = user /\ reg' = reg /\ signup' = signup /\ late' = late
        /\ granted' = granted /\ task[t].pc = "publish" /\ Goto(t, "idle")
    BY <1>8 DEF Publish, stores
  <2>2. task[t].op \in RegOps \cup {"promote", "suspend"}
    BY <1>1, <2>1 DEF TaskBacked
  <2>3. task[t].op = "approveRegistration" => granted
    BY <1>1, <2>1 DEF TaskBacked
  <2>4. events' = events \cup {EventOf[task[t].op]}
    BY <1>8 DEF Publish
  <2>5. EventOf[task[t].op] = "registration.approved" => task[t].op = "approveRegistration"
    BY <2>2 DEF EventOf, RegOps
  <2>6. "registration.approved" \in events' => granted
    BY <2>3, <2>4, <2>5 DEF AccountInv, RegistrationBacked
  <2>7. Forward /\ RegistrationBacked'
    BY <2>1, <2>6 DEF Forward, AccountInv, RegistrationBacked
  <2> QED BY <2>1, <2>7, MoveKeeps, IdleBacked DEF Goto
<1>9. CASE Dies(t)
  <2>1. /\ user' = user /\ reg' = reg /\ signup' = signup /\ late' = late
        /\ events' = events /\ granted' = granted /\ Goto(t, "idle")
    BY <1>9 DEF Dies, stores
  <2> QED BY <2>1, EndKeeps
<1>10. CASE CallFails(t)
  <2>1. /\ user' = user /\ reg' = reg /\ signup' = signup /\ late' = late
        /\ events' = events /\ granted' = granted
    BY <1>10 DEF CallFails, stores
  <2>2. CASE Fails(t)
    BY <2>1, <2>2, FailsKeeps
  <2>3. CASE Become(t, "approve", task[t].pc, task[t].copy, task[t].retried)
    <3>1. task[t].pc \in {"read", "write", "auth"}
      BY <1>10 DEF CallFails
    <3>2. TaskBacked([op |-> "approve", pc |-> task[t].pc, copy |-> task[t].copy,
                      retried |-> task[t].retried], granted, user.status # "none")
      BY <1>1, <3>1 DEF TaskBacked
    <3> QED BY <2>1, <2>3, <3>2, OnlyMoveKeeps
  <2> QED BY <1>10, <2>2, <2>3 DEF CallFails
<1>11. ASSUME NEW op \in RegOps \cup UserOps, Begin(t, op) PROVE AccountInv'
  <2>1. /\ user' = user /\ reg' = reg /\ signup' = signup /\ late' = late
        /\ events' = events /\ granted' = granted
    BY <1>11 DEF Begin, stores
  <2>2. PICK pc \in {"regRead", "read"} :
          Become(t, op, pc, NoUser, FALSE) /\ (pc = "regRead" => op \in RegOps)
    BY <1>11 DEF Begin
  <2>3. TaskBacked([op |-> op, pc |-> pc, copy |-> NoUser, retried |-> FALSE],
                   granted, user.status # "none")
    BY <2>2 DEF TaskBacked
  <2> QED BY <2>1, <2>2, <2>3, OnlyMoveKeeps
<1>12. CASE Deliver(t)
  <2>1. /\ user' = user /\ reg' = reg /\ signup' = signup /\ late' = late
        /\ events' = events /\ granted' = granted
        /\ Become(t, "approve", "read", NoUser, FALSE)
    BY <1>12 DEF Deliver, stores
  <2>2. TaskBacked([op |-> "approve", pc |-> "read", copy |-> NoUser, retried |-> FALSE],
                   granted, user.status # "none")
    BY DEF TaskBacked
  <2> QED BY <2>1, <2>2, OnlyMoveKeeps
<1> QED BY <1>2, <1>3, <1>4, <1>5, <1>6, <1>7, <1>8, <1>9, <1>10, <1>11, <1>12 DEF Request

(* Every step, a stuttering one included, keeps the types and the          *)
(* invariant.                                                              *)
LEMMA AccountStep == TypeOK /\ AccountInv /\ [Next]_vars => TypeOK' /\ AccountInv'
<1> SUFFICES ASSUME TypeOK, AccountInv, [Next]_vars PROVE TypeOK' /\ AccountInv'
  OBVIOUS
<1>1. CASE \/ CreateUser \/ SetSignupClaims \/ CommitUser \/ PostRegistration \/ PostFails
           \/ Arrive \/ SignupFails \/ Compensate \/ SignupDies \/ Lockout
  BY <1>1, SignupTyped, SignupKeeps
<1>2. ASSUME NEW t \in Tasks, Request(t) PROVE TypeOK' /\ AccountInv'
  BY <1>2, RequestTyped, RequestKeeps
<1>3. CASE UNCHANGED vars
  BY <1>3 DEF vars, stores, bounds, TypeOK, AccountInv, RegistrationBacked, TaskBacked
<1> QED BY <1>1, <1>2, <1>3 DEF Next

(* The variables stay within their types: in particular every document is  *)
(* one that the domain entity can hold, and every event one of the types.  *)
THEOREM TypeCorrect == Spec => []TypeOK
  BY AccountInit, AccountStep, PTL DEF Spec

(* The inductive invariant: besides RegistrationBacked, that a request     *)
(* about to store or announce an approval had user-service approve the     *)
(* account, and that the documents about to be rewritten exist.            *)
THEOREM AccountInvariant == Spec => []AccountInv
  BY AccountInit, AccountStep, PTL DEF Spec

(* However requests, retries, late calls and redeliveries interleave, and  *)
(* whatever fails, a registration is approved, and its event published,    *)
(* only after user-service approved the account, and exists only for an    *)
(* account with a user document.                                           *)
THEOREM RegistrationsBacked == Spec => []RegistrationBacked
<1>1. AccountInv => RegistrationBacked
  BY DEF AccountInv
<1> QED BY <1>1, AccountInvariant, PTL
----------------------------------------------------------------------------
\* A request that has found the registration pending and has yet to store its decision.
Deciding(k) ==
  k.pc = "regWrite" \/ (k.op = "approveRegistration" /\ k.pc \in {"read", "write", "auth"})

\* What such a request, or one about to write a user, holds is still so.
Fresh(k, u, r) ==
  /\ k.pc \in {"claims", "write"} => k.copy = u
  /\ Deciding(k) => r = "pending"

FreshInv ==
  alone => /\ \A t, q \in Tasks : task[t].pc # "idle" /\ task[q].pc # "idle" => t = q
           /\ \A t \in Tasks : Fresh(task[t], user, reg)

\* A registration that nothing has failed is posted once, before anybody decides on it.
SignupClean ==
  /\ signup \in {"start", "created", "claimed"} => user = NoUser
  /\ faults = 0 => /\ ~ late /\ signup # "again"
                   /\ signup \in {"start", "created", "claimed", "stored"} => reg = "none"

PostedInv == SignupClean /\ \A t \in Tasks : Deciding(task[t]) => reg # "none"

(* A request that moves alone stays fresh when its next state is.          *)
LEMMA MoveFresh ==
  ASSUME TypeOK, FreshInv, alone' = alone, NEW t \in Tasks, task[t].pc # "idle",
         NEW op, NEW pc, NEW copy, NEW retried, Become(t, op, pc, copy, retried),
         alone => Fresh([op |-> op, pc |-> pc, copy |-> copy, retried |-> retried], user', reg')
  PROVE  FreshInv'
<1> SUFFICES ASSUME alone
             PROVE  /\ \A p, q \in Tasks : task'[p].pc # "idle" /\ task'[q].pc # "idle" => p = q
                    /\ \A q \in Tasks : Fresh(task'[q], user', reg')
  BY DEF FreshInv
<1>1. task'[t] = [op |-> op, pc |-> pc, copy |-> copy, retried |-> retried]
  BY DEF Become, TypeOK
<1>2. \A q \in Tasks : q # t => task'[q] = task[q] /\ task[q].pc = "idle"
  BY DEF Become, TypeOK, FreshInv
<1>3. Fresh(task'[t], user', reg')
  BY <1>1
<1>4. ASSUME NEW q \in Tasks, q # t PROVE Fresh(task'[q], user', reg')
  BY <1>2, <1>4 DEF Fresh, Deciding
<1> QED BY <1>2, <1>3, <1>4

(* A request that begins alone is fresh.                                   *)
LEMMA BeginFresh ==
  ASSUME TypeOK, alone' = (alone /\ AllIdle), NEW t \in Tasks,
         NEW op, NEW pc, NEW copy, NEW retried, Become(t, op, pc, copy, retried),
         pc \in {"regRead", "read"}, pc = "read" => op # "approveRegistration"
  PROVE  FreshInv'
<1> SUFFICES ASSUME alone, AllIdle
             PROVE  /\ \A p, q \in Tasks : task'[p].pc # "idle" /\ task'[q].pc # "idle" => p = q
                    /\ \A q \in Tasks : Fresh(task'[q], user', reg')
  BY DEF FreshInv
<1>1. task'[t] = [op |-> op, pc |-> pc, copy |-> copy, retried |-> retried]
  BY DEF Become, TypeOK
<1>2. \A q \in Tasks : q # t => task'[q] = task[q] /\ task[q].pc = "idle"
  BY DEF Become, TypeOK, AllIdle
<1>3. Fresh(task'[t], user', reg')
  BY <1>1 DEF Fresh, Deciding
<1>4. ASSUME NEW q \in Tasks, q # t PROVE Fresh(task'[q], user', reg')
  BY <1>2, <1>4 DEF Fresh, Deciding
<1> QED BY <1>2, <1>3, <1>4

(* A move leaves every decision about a registration that exists.          *)
LEMMA MovePosted ==
  ASSUME TypeOK, PostedInv, SignupClean', NEW t \in Tasks, NEW op, NEW pc, NEW copy,
         NEW retried, Become(t, op, pc, copy, retried), reg # "none" => reg' # "none",
         Deciding([op |-> op, pc |-> pc, copy |-> copy, retried |-> retried]) => reg' # "none"
  PROVE  PostedInv'
<1> SUFFICES ASSUME NEW q \in Tasks, Deciding(task'[q]) PROVE reg' # "none"
  BY DEF PostedInv, Deciding
<1>1. CASE q = t
  BY <1>1 DEF Become, TypeOK
<1>2. CASE q # t
  <2>1. task'[q] = task[q]
    BY <1>2 DEF Become, TypeOK
  <2> QED BY <2>1 DEF PostedInv
<1> QED BY <1>1, <1>2

(* A move that changes neither document keeps both invariants when what the*)
(* request holds afterwards it held before, or has just read.              *)
LEMMA OnlyMoveFresh ==
  ASSUME TypeOK, FreshInv, PostedInv, user' = user, reg' = reg, signup' = signup,
         late' = late, faults' = 0 => faults = 0, alone' = alone,
         NEW t \in Tasks, task[t].pc # "idle",
         NEW op, NEW pc, NEW copy, NEW retried, Become(t, op, pc, copy, retried),
         Deciding([op |-> op, pc |-> pc, copy |-> copy, retried |-> retried]) =>
           Deciding(task[t]) \/ reg = "pending",
         pc \in {"claims", "write"} =>
           copy = user \/ (task[t].pc \in {"claims", "write"} /\ copy = task[t].copy)
  PROVE  FreshInv' /\ PostedInv'
<1>1. SignupClean'
  BY DEF PostedInv, SignupClean
<1>2. PostedInv'
  <2>1. Deciding([op |-> op, pc |-> pc, copy |-> copy, retried |-> retried]) => reg' # "none"
    BY DEF PostedInv
  <2> QED BY <1>1, <2>1, MovePosted
<1>3. alone => Fresh([op |-> op, pc |-> pc, copy |-> copy, retried |-> retried], user', reg')
  <2>1. alone => Fresh(task[t], user, reg)
    BY DEF FreshInv
  <2> QED BY <2>1 DEF Fresh
<1> QED BY <1>2, <1>3, MoveFresh

(* Failures are counted upwards.                                           *)
LEMMA FaultCounted == ASSUME TypeOK, Fault PROVE faults' # 0 /\ alone' = alone
  BY SMT DEF TypeOK, Fault

(* Steps of the registration keep both invariants.                         *)
LEMMA SignupFresh ==
  ASSUME TypeOK, AccountInv, FreshInv, PostedInv,
         \/ CreateUser \/ SetSignupClaims \/ CommitUser \/ PostRegistration \/ PostFails
         \/ Arrive \/ SignupFails \/ Compensate \/ SignupDies \/ Lockout
  PROVE  FreshInv' /\ PostedInv'
<1>1. task' = task /\ alone' = alone
  BY FaultCounted DEF CreateUser, SetSignupClaims, CommitUser, PostRegistration, PostFails,
     Arrive, SignupFails, Compensate, SignupDies, Lockout, Signup, bounds
<1>2. reg' = reg \/ reg' = "pending"
  BY DEF CreateUser, SetSignupClaims, CommitUser, PostRegistration, PostFails, Arrive,
         SignupFails, Compensate, SignupDies, Lockout, stores
<1>3. user' = user \/ user = NoUser
  BY DEF CreateUser, SetSignupClaims, CommitUser, PostRegistration, PostFails, Arrive,
         SignupFails, Compensate, SignupDies, Lockout, stores, Signup, PostedInv, SignupClean
<1>4. \A t \in Tasks : task[t].pc \in {"claims", "write"} => user # NoUser
  BY DEF AccountInv, TaskBacked, NoUser
<1>5. FreshInv'
  <2> SUFFICES ASSUME alone
               PROVE  /\ \A t, q \in Tasks : task[t].pc # "idle" /\ task[q].pc # "idle" => t = q
                      /\ \A t \in Tasks : Fresh(task[t], user', reg')
    BY <1>1 DEF FreshInv
  <2>1. \A t, q \in Tasks : task[t].pc # "idle" /\ task[q].pc # "idle" => t = q
    BY DEF FreshInv
  <2>2. ASSUME NEW t \in Tasks PROVE Fresh(task[t], user', reg')
    <3>1. Fresh(task[t], user, reg)
      BY DEF FreshInv
    <3> QED BY <1>2, <1>3, <1>4, <3>1 DEF Fresh
  <2> QED BY <2>1, <2>2
<1>6. SignupClean'
  <2>1. CASE CreateUser \/ SetSignupClaims \/ CommitUser
    BY <2>1 DEF CreateUser, SetSignupClaims, CommitUser, Signup, bounds, PostedInv, SignupClean
  <2>2. CASE PostRegistration \/ Arrive
    BY <2>2 DEF PostRegistration, Arrive, Signup, bounds, PostedInv, SignupClean
  <2>3. CASE PostFails
    <3>1. signup' \in {"again", "catch"}
      BY <2>3 DEF PostFails, Signup
    <3>2. faults' # 0
      BY <2>3, FaultCounted DEF PostFails
    <3> QED BY <3>1, <3>2 DEF SignupClean
  <2>4. CASE SignupFails
    <3>1. signup' = "catch" /\ faults' # 0
      BY <2>4, FaultCounted DEF SignupFails, Signup
    <3> QED BY <3>1 DEF SignupClean
  <2>5. CASE Compensate
    <3>1. signup' = "failed" /\ late' = late
      BY <2>5 DEF Compensate, Signup
    <3>2. faults' = 0 => faults = 0
      BY <2>5, FaultCounted DEF Compensate, bounds
    <3> QED BY <3>1, <3>2 DEF PostedInv, SignupClean
  <2>6. CASE SignupDies
    <3>1. signup' = "dead" /\ faults' # 0
      BY <2>6, FaultCounted DEF SignupDies
    <3> QED BY <3>1 DEF SignupClean
  <2>7. CASE Lockout
    BY <2>7 DEF Lockout, bounds, PostedInv, SignupClean
  <2> QED BY <2>1, <2>2, <2>3, <2>4, <2>5, <2>6, <2>7
<1>7. \A t \in Tasks : Deciding(task'[t]) => reg' # "none"
  BY <1>1, <1>2 DEF PostedInv
<1> QED BY <1>5, <1>6, <1>7 DEF PostedInv

(* A move that changes neither document and goes to pc, keeping operation  *)
(* and copy.                                                               *)
LEMMA GotoFresh ==
  ASSUME TypeOK, FreshInv, PostedInv, user' = user, reg' = reg, signup' = signup,
         late' = late, faults' = 0 => faults = 0, alone' = alone,
         NEW t \in Tasks, task[t].pc # "idle", NEW pc, Goto(t, pc),
         \/ pc \in {"idle", "publish"}
         \/ Deciding(task[t]) /\ pc \notin {"claims", "write"}
         \/ task[t].pc = "claims" /\ pc = "write" /\ task[t].op = "promote"
         \/ task[t].pc = "regRead" /\ reg = "pending" /\ pc \in {"read", "regWrite"}
  PROVE  FreshInv' /\ PostedInv'
<1> DEFINE new == [op |-> task[t].op, pc |-> pc, copy |-> task[t].copy,
                   retried |-> task[t].retried]
<1>1. Deciding(new) => Deciding(task[t]) \/ reg = "pending"
  BY DEF Deciding
<1>2. pc \in {"claims", "write"} => task[t].pc \in {"claims", "write"}
  OBVIOUS
<1> QED BY <1>1, <1>2, OnlyMoveFresh DEF Goto

(* The same of a call that fails.                                          *)
LEMMA FailsFresh ==
  ASSUME TypeOK, FreshInv, PostedInv, user' = user, reg' = reg, signup' = signup,
         late' = late, faults' = 0 => faults = 0, alone' = alone,
         NEW t \in Tasks, task[t].pc \in {"read", "write", "auth"}, Fails(t)
  PROVE  FreshInv' /\ PostedInv'
<1>1. CASE Goto(t, "idle")
  BY <1>1, GotoFresh
<1>2. CASE /\ task[t].op = "approveRegistration"
           /\ Become(t, task[t].op, "read", task[t].copy, TRUE)
  <2>1. Deciding(task[t])
    BY <1>2 DEF Deciding
  <2> QED BY <1>2, <2>1, OnlyMoveFresh
<1> QED BY <1>1, <1>2 DEF Fails

(* Steps of a request keep both invariants.                                *)
LEMMA RequestFresh ==
  ASSUME TypeOK, AccountInv, FreshInv, PostedInv, NEW t \in Tasks, Request(t)
  PROVE  FreshInv' /\ PostedInv'
<1>1. CASE RegRead(t)
  <2>1. /\ user' = user /\ reg' = reg /\ signup' = signup /\ late' = late
        /\ faults' = faults /\ alone' = alone /\ task[t].pc = "regRead"
    BY <1>1 DEF RegRead, stores, bounds
  <2>2. CASE reg # "pending"
    BY <1>1, <2>1, <2>2, GotoFresh DEF RegRead
  <2>3. CASE reg = "pending"
    <3>1. PICK pc \in {"read", "regWrite"} : Goto(t, pc)
      BY <1>1, <2>3 DEF RegRead
    <3> QED BY <2>1, <2>3, <3>1, GotoFresh
  <2> QED BY <2>2, <2>3
<1>2. CASE Read(t)
  <2>1. /\ user' = user /\ reg' = reg /\ signup' = signup /\ late' = late
        /\ faults' = faults /\ alone' = alone /\ task[t].pc = "read"
    BY <1>2 DEF Read, stores, bounds
  <2>2. CASE Admits(task[t].op, user)
    <3>1. PICK pc \in {"claims", "write"} : Become(t, task[t].op, pc, user, task[t].retried)
      BY <1>2, <2>2 DEF Read
    <3>2. Deciding([op |-> task[t].op, pc |-> pc, copy |-> user,
                    retried |-> task[t].retried]) => Deciding(task[t])
      BY <2>1 DEF Deciding
    <3> QED BY <2>1, <3>1, <3>2, OnlyMoveFresh
  <2>3. CASE ~ Admits(task[t].op, user)
    BY <1>2, <2>1, <2>3, GotoFresh DEF Read
  <2> QED BY <2>2, <2>3
<1>3. CASE SetClaims(t)
  <2>1. /\ user' = user /\ reg' = reg /\ signup' = signup /\ late' = late
        /\ faults' = faults /\ alone' = alone /\ task[t].pc = "claims"
    BY <1>3 DEF SetClaims, bounds
  <2>2. CASE Goto(t, "idle")
    BY <2>1, <2>2, GotoFresh
  <2>3. CASE Goto(t, "write")
    <3>1. task[t].op = "promote"
      BY <2>1 DEF AccountInv, TaskBacked
    <3> QED BY <2>1, <2>3, <3>1, GotoFresh
  <2> QED BY <1>3, <2>2, <2>3 DEF SetClaims
<1>4. CASE Write(t)
  <2>1. /\ reg' = reg /\ signup' = signup /\ late' = late
        /\ faults' = faults /\ alone' = alone /\ task[t].pc = "write"
    BY <1>4 DEF Write, bounds
  <2>2. PICK pc \in {"idle", "publish", "auth"} : Goto(t, pc)
    BY <1>4 DEF Write
  <2>3. user # NoUser
    BY <2>1 DEF AccountInv, TaskBacked, NoUser
  <2>4. SignupClean'
    BY <2>1, <2>3 DEF PostedInv, SignupClean
  <2> DEFINE new == [op |-> task[t].op, pc |-> pc, copy |-> task[t].copy,
                     retried |-> task[t].retried]
  <2>5. Deciding(new) => Deciding(task[t])
    BY <2>1, <2>2 DEF Deciding
  <2>6. alone => Fresh(new, user', reg')
    <3>1. alone => Fresh(task[t], user, reg)
      BY DEF FreshInv
    <3> QED BY <2>1, <2>2, <2>5, <3>1 DEF Fresh
  <2>7. Deciding(new) => reg' # "none"
    BY <2>1, <2>5 DEF PostedInv
  <2> QED BY <2>1, <2>2, <2>4, <2>6, <2>7, MoveFresh, MovePosted DEF Goto
<1>5. CASE Switch(t)
  <2>1. /\ user' = user /\ reg' = reg /\ signup' = signup /\ late' = late
        /\ faults' = faults /\ alone' = alone /\ task[t].pc = "auth"
    BY <1>5 DEF Switch, bounds
  <2>2. CASE Fails(t)
    BY <2>1, <2>2, FailsFresh
  <2>3. CASE \E pc \in {"idle", "publish"} : Goto(t, pc)
    BY <2>1, <2>3, GotoFresh
  <2>4. CASE task[t].op = "approveRegistration" /\ Goto(t, "regWrite")
    <3>1. Deciding(task[t])
      BY <2>1, <2>4 DEF Deciding
    <3> QED BY <2>1, <2>4, <3>1, GotoFresh
  <2> QED BY <1>5, <2>2, <2>3, <2>4 DEF Switch
<1>6. CASE RegWrite(t)
  <2>1. /\ user' = user /\ signup' = signup /\ late' = late /\ faults' = faults
        /\ alone' = alone /\ task[t].pc = "regWrite" /\ Goto(t, "publish")
    BY <1>6 DEF RegWrite, bounds
  <2>2. reg # "none" /\ reg' # "none"
    BY <1>6, <2>1 DEF RegWrite, PostedInv, Deciding
  <2>3. SignupClean'
    BY <2>1, <2>2 DEF PostedInv, SignupClean
  <2> DEFINE new == [op |-> task[t].op, pc |-> "publish", copy |-> task[t].copy,
                     retried |-> task[t].retried]
  <2>4. Fresh(new, user', reg') /\ ~ Deciding(new)
    BY DEF Fresh, Deciding
  <2> QED BY <2>1, <2>2, <2>3, <2>4, MoveFresh, MovePosted DEF Goto
<1>7. CASE Publish(t)
  <2>1. /\ user' = user /\ reg' = reg /\ signup' = signup /\ late' = late
        /\ faults' = faults /\ alone' = alone /\ task[t].pc = "publish" /\ Goto(t, "idle")
    BY <1>7 DEF Publish, stores, bounds
  <2> QED BY <2>1, GotoFresh
<1>8. CASE Dies(t)
  <2>1. /\ user' = user /\ reg' = reg /\ signup' = signup /\ late' = late
        /\ faults' # 0 /\ alone' = alone /\ task[t].pc # "idle" /\ Goto(t, "idle")
    BY <1>8, FaultCounted DEF Dies, stores
  <2> QED BY <2>1, GotoFresh
<1>9. CASE CallFails(t)
  <2>1. /\ user' = user /\ reg' = reg /\ signup' = signup /\ late' = late
        /\ faults' # 0 /\ alone' = alone
        /\ task[t].op = "approveRegistration" /\ task[t].pc \in {"read", "write", "auth"}
    BY <1>9, FaultCounted DEF CallFails, stores
  <2>2. CASE Fails(t)
    BY <2>1, <2>2, FailsFresh
  <2>3. CASE Become(t, "approve", task[t].pc, task[t].copy, task[t].retried)
    <3>1. ~ Deciding([op |-> "approve", pc |-> task[t].pc, copy |-> task[t].copy,
                      retried |-> task[t].retried])
      BY <2>1 DEF Deciding
    <3> QED BY <2>1, <2>3, <3>1, OnlyMoveFresh
  <2> QED BY <1>9, <2>2, <2>3 DEF CallFails
<1>10. ASSUME NEW op \in (RegOps \cup UserOps) \ {"approve"}, Begin(t, op)
       PROVE  FreshInv' /\ PostedInv'
  <2>1. /\ user' = user /\ reg' = reg /\ signup' = signup /\ late' = late /\ faults' = faults
    BY <1>10 DEF Begin, stores
  <2>2. alone' = (alone /\ AllIdle)
    BY <1>10 DEF Begin
  <2>3. PICK pc \in {"regRead", "read"} :
          Become(t, op, pc, NoUser, FALSE) /\ (pc = "read" => op \notin RegOps)
    BY <1>10 DEF Begin
  <2>4. pc = "read" => op # "approveRegistration"
    BY <2>3 DEF RegOps
  <2>5. SignupClean'
    BY <2>1 DEF PostedInv, SignupClean
  <2>6. ~ Deciding([op |-> op, pc |-> pc, copy |-> NoUser, retried |-> FALSE])
    BY <2>4 DEF Deciding
  <2> QED BY <2>1, <2>2, <2>3, <2>4, <2>5, <2>6, BeginFresh, MovePosted
<1>11. CASE Deliver(t)
  <2>1. /\ user' = user /\ reg' = reg /\ signup' = signup /\ late' = late /\ faults' = faults
        /\ Become(t, "approve", "read", NoUser, FALSE)
    BY <1>11 DEF Deliver, stores
  <2>2. alone' = (alone /\ AllIdle)
    BY <1>11 DEF Deliver
  <2>3. SignupClean'
    BY <2>1 DEF PostedInv, SignupClean
  <2>4. ~ Deciding([op |-> "approve", pc |-> "read", copy |-> NoUser, retried |-> FALSE])
    BY DEF Deciding
  <2> QED BY <2>1, <2>2, <2>3, <2>4, BeginFresh, MovePosted
<1> QED BY <1>1, <1>2, <1>3, <1>4, <1>5, <1>6, <1>7, <1>8, <1>9, <1>10, <1>11 DEF Request

(* Every step keeps both invariants.                                       *)
LEMMA FreshStep ==
  TypeOK /\ AccountInv /\ FreshInv /\ PostedInv /\ [Next]_vars => FreshInv' /\ PostedInv'
<1> SUFFICES ASSUME TypeOK, AccountInv, FreshInv, PostedInv, [Next]_vars
             PROVE  FreshInv' /\ PostedInv'
  OBVIOUS
<1>1. CASE UNCHANGED vars
  BY <1>1 DEF vars, stores, bounds, FreshInv, PostedInv, SignupClean, Fresh, Deciding
<1>2. CASE Next
  BY <1>2, SignupFresh, RequestFresh DEF Next
<1> QED BY <1>1, <1>2

(* With both invariants no step undoes a decision.                         *)
LEMMA DecisionsStep ==
  TypeOK /\ AccountInv /\ FreshInv /\ PostedInv /\ [Next]_vars => [DecisionsHold]_vars
<1> SUFFICES ASSUME TypeOK, AccountInv, FreshInv, PostedInv, Next, alone
             PROVE  /\ user.deleted => user'.deleted
                    /\ reg \in {"approved", "rejected"} =>
                         reg' = reg \/ (reg' = "pending" /\ faults > 0)
  BY DEF DecisionsHold
<1>1. faults # 0 => faults > 0
  BY SMT DEF TypeOK
<1>2. CASE \/ CreateUser \/ SetSignupClaims \/ CommitUser \/ PostRegistration \/ PostFails
           \/ Arrive \/ SignupFails \/ Compensate \/ SignupDies \/ Lockout
  <2>1. user' = user \/ user = NoUser
    BY <1>2 DEF CreateUser, SetSignupClaims, CommitUser, PostRegistration, PostFails, Arrive,
           SignupFails, Compensate, SignupDies, Lockout, stores, Signup, PostedInv, SignupClean
  <2>2. \/ reg' = reg
        \/ reg' = "pending" /\ (signup \in {"stored", "again"} \/ late)
    BY <1>2 DEF CreateUser, SetSignupClaims, CommitUser, PostRegistration, PostFails, Arrive,
           SignupFails, Compensate, SignupDies, Lockout, stores, Signup
  <2>3. signup \in {"stored", "again"} \/ late => faults # 0 \/ reg = "none"
    BY DEF PostedInv, SignupClean
  <2> QED BY <1>1, <2>1, <2>2, <2>3 DEF NoUser
<1>3. ASSUME NEW t \in Tasks, Request(t)
      PROVE  (user.deleted => user'.deleted) /\ (reg' = reg \/ reg = "pending")
  <2>1. CASE Write(t)
    <3>1. task[t].copy = user
      BY <2>1 DEF Write, FreshInv, Fresh
    <3> QED BY <2>1, <3>1 DEF Write, Changed
  <2>2. CASE RegWrite(t)
    BY <2>2 DEF RegWrite, FreshInv, Fresh, Deciding
  <2>3. CASE ~ Write(t) /\ ~ RegWrite(t)
    BY <1>3, <2>3 DEF Request, RegRead, Read, SetClaims, Switch, Publish, Dies, CallFails,
           Deliver, Begin, stores
  <2> QED BY <2>1, <2>2, <2>3
<1> QED BY <1>2, <1>3 DEF Next

(* As long as no two requests overlap, whatever fails, dies, is sent again *)
(* or comes late: a deleted account stays deleted, and a decided           *)
(* registration is not decided again; only a repeated or late registration *)
(* call reopens it.                                                        *)
THEOREM DecisionsAreFinal == Spec => DecisionsStand
<1>1. Init => FreshInv /\ PostedInv
  BY DEF Init, FreshInv, PostedInv, SignupClean, Fresh, Deciding, NoTask
<1> QED BY <1>1, FreshStep, AccountInit, AccountStep, DecisionsStep, PTL DEF Spec, DecisionsStand
----------------------------------------------------------------------------
Out(u) == u.status = "suspended" \/ u.deleted

Locks(op) == op \in {"suspend", "deleteAdmin"}

\* What a request at work owes: a writer writes a living user, a promotion has set the
\* claims, and only who locks an account out finds one at the Auth user that should be.
Owes(k) ==
  /\ k.pc \in {"claims", "write"} => ~ user.deleted
  /\ k.pc = "write" /\ k.op = "promote" => claims = "admin"
  /\ k.pc = "auth" /\ ~ Locks(k.op) => ~ Out(user)

Promoting == \E t \in Tasks : task[t].pc = "write" /\ task[t].op = "promote"

LockingOut == \E t \in Tasks : task[t].pc = "auth" /\ Locks(task[t].op)

\* As long as nothing overlapped or failed, the stores differ only by what the one request
\* at work has yet to write.
Agreeing ==
  /\ signup \in {"start", "created", "claimed", "stored", "done"}
  /\ signup # "start" => auth \in {"enabled", "disabled"}
  /\ signup \in {"claimed", "stored", "done"} => claims = user.role \/ Promoting
  /\ Out(user) => auth # "enabled" \/ LockingOut
  /\ \A t \in Tasks : Owes(task[t])

AgreeInv == alone /\ faults = 0 => Agreeing

(* Steps of the registration keep the stores agreeing.                     *)
LEMMA SignupAgrees ==
  ASSUME TypeOK, AccountInv, PostedInv, AgreeInv,
         \/ CreateUser \/ SetSignupClaims \/ CommitUser \/ PostRegistration \/ PostFails
         \/ Arrive \/ SignupFails \/ Compensate \/ SignupDies \/ Lockout
  PROVE  AgreeInv'
<1> USE DEF Agreeing, Out
<1>1. CASE PostFails \/ SignupFails \/ SignupDies
  <2>1. faults' # 0
    BY <1>1, FaultCounted DEF PostFails, SignupFails, SignupDies
  <2> QED BY <2>1 DEF AgreeInv
<1>2. CASE Compensate
  <2>1. signup = "catch" /\ alone' = alone /\ (faults' = 0 => faults = 0)
    BY <1>2, FaultCounted DEF Compensate, Signup, bounds
  <2> QED BY <2>1 DEF AgreeInv
<1>3. CASE CreateUser \/ SetSignupClaims \/ CommitUser
  <2> SUFFICES ASSUME alone, faults = 0 PROVE Agreeing'
    BY <1>3 DEF AgreeInv, CreateUser, SetSignupClaims, CommitUser, bounds
  <2>1. user = NoUser /\ task' = task /\ user' \in {NoUser, NewUser}
    BY <1>3 DEF CreateUser, SetSignupClaims, CommitUser, Signup, PostedInv, SignupClean
  <2>2. \A t \in Tasks : task[t].pc \notin {"claims", "write", "auth"}
    BY <2>1 DEF AccountInv, TaskBacked, NoUser
  <2>3. user'.role = "student" /\ user'.status # "suspended" /\ ~ user'.deleted
    BY <2>1 DEF NoUser, NewUser
  <2>4. /\ signup' \in {"created", "claimed", "stored"}
        /\ auth' \in {"enabled", "disabled"}
        /\ signup' # "created" => claims' = "student"
    <3>1. ~ Promoting /\ user.role = "student"
      BY <2>1, <2>2 DEF Promoting, NoUser
    <3> QED BY <1>3, <3>1 DEF AgreeInv, CreateUser, SetSignupClaims, CommitUser, Signup
  <2>5. \A t \in Tasks : Owes(task[t])'
    BY <2>1, <2>2 DEF Owes
  <2> QED BY <2>3, <2>4, <2>5
<1>4. CASE PostRegistration \/ Arrive \/ Lockout
  <2> SUFFICES ASSUME alone, faults = 0 PROVE Agreeing'
    BY <1>4 DEF AgreeInv, PostRegistration, Arrive, Lockout, bounds
  <2>1. task' = task /\ user' = user /\ claims' = claims
    BY <1>4 DEF PostRegistration, Arrive, Lockout, Signup
  <2>2. \/ auth' = auth
        \/ auth = "enabled" /\ auth' = "disabled"
    BY <1>4 DEF PostRegistration, Arrive, Lockout
  <2>3. \/ signup' = signup
        \/ signup \in {"stored", "again"} /\ signup' = "done"
    BY <1>4 DEF PostRegistration, Arrive, Lockout, Signup
  <2>4. Promoting' = Promoting /\ LockingOut' = LockingOut
    BY <2>1 DEF Promoting, LockingOut
  <2>5. \A t \in Tasks : Owes(task[t])'
    BY <2>1 DEF AgreeInv, Owes
  <2> QED BY <2>1, <2>2, <2>3, <2>4, <2>5 DEF AgreeInv
<1> QED BY <1>1, <1>2, <1>3, <1>4

(* What is left to show of the step of a request that works alone.         *)
LEMMA MoveAgrees ==
  ASSUME TypeOK, FreshInv, AgreeInv, alone, faults = 0, signup' = signup,
         NEW t \in Tasks, task[t].pc # "idle",
         NEW op, NEW pc, NEW copy, NEW retried, Become(t, op, pc, copy, retried),
         signup # "start" => auth' \in {"enabled", "disabled"},
         signup \in {"claimed", "stored", "done"} =>
           claims' = user'.role \/ (pc = "write" /\ op = "promote"),
         Out(user') => auth' # "enabled" \/ (pc = "auth" /\ Locks(op)),
         pc \in {"claims", "write"} => ~ user'.deleted,
         pc = "write" /\ op = "promote" => claims' = "admin",
         pc = "auth" /\ ~ Locks(op) => ~ Out(user')
  PROVE  Agreeing'
<1>1. /\ task'[t].op = op /\ task'[t].pc = pc
      /\ \A q \in Tasks : q # t => task'[q].pc = "idle"
  <2>1. task'[t] = [op |-> op, pc |-> pc, copy |-> copy, retried |-> retried]
    BY DEF Become, TypeOK
  <2>2. \A q \in Tasks : q # t => task'[q] = task[q] /\ task[q].pc = "idle"
    BY DEF Become, TypeOK, FreshInv
  <2> QED BY <2>1, <2>2
<1>2. pc = "write" /\ op = "promote" => Promoting'
  BY <1>1 DEF Promoting
<1>3. pc = "auth" /\ Locks(op) => LockingOut'
  BY <1>1 DEF LockingOut, Locks
<1>4. \A q \in Tasks : Owes(task[q])'
  BY <1>1 DEF Owes, Out, Locks
<1>5. /\ signup' \in {"start", "created", "claimed", "stored", "done"}
      /\ signup' # "start" => auth' \in {"enabled", "disabled"}
  BY DEF AgreeInv, Agreeing
<1>6. signup' \in {"claimed", "stored", "done"} => (claims = user.role \/ Promoting)'
  BY <1>2
<1>7. (Out(user) => auth # "enabled" \/ LockingOut)'
  BY <1>3 DEF Out
<1> QED BY <1>4, <1>5, <1>6, <1>7 DEF Agreeing

(* The stores before that step, as the one request at work finds them.     *)
LEMMA FoundAgreeing ==
  ASSUME TypeOK, AccountInv, FreshInv, PostedInv, AgreeInv, alone, faults = 0,
         NEW t \in Tasks, task[t].pc # "idle"
  PROVE  /\ signup # "start" => auth \in {"enabled", "disabled"}
         /\ signup \in {"claimed", "stored", "done"} =>
              claims = user.role \/ (task[t].pc = "write" /\ task[t].op = "promote")
         /\ Out(user) => auth # "enabled" \/ (task[t].pc = "auth" /\ Locks(task[t].op))
         /\ Owes(task[t])
         /\ task[t].pc \in {"claims", "write"} => task[t].copy = user
         /\ task[t].pc \in {"claims", "write", "auth"} =>
              signup \in {"stored", "done"} /\ auth \in {"enabled", "disabled"}
<1>1. \A q \in Tasks : q # t => task[q].pc = "idle"
  BY DEF FreshInv
<1>2. Promoting => task[t].pc = "write" /\ task[t].op = "promote"
  BY <1>1 DEF Promoting
<1>3. LockingOut => task[t].pc = "auth" /\ Locks(task[t].op)
  BY <1>1 DEF LockingOut
<1>4. Agreeing
  BY DEF AgreeInv
<1>5. task[t].pc \in {"claims", "write"} => task[t].copy = user
  BY DEF FreshInv, Fresh
<1>6. task[t].pc \in {"claims", "write", "auth"} =>
        signup \in {"stored", "done"} /\ auth \in {"enabled", "disabled"}
  <2>1. task[t].pc \in {"claims", "write", "auth"} => user # NoUser
    BY DEF AccountInv, TaskBacked, NoUser
  <2> QED BY <1>4, <2>1 DEF PostedInv, SignupClean, Agreeing
<1> QED BY <1>2, <1>3, <1>4, <1>5, <1>6 DEF Agreeing

(* The same of a step that changes no store, outside the writes.           *)
LEMMA GotoAgrees ==
  ASSUME TypeOK, AccountInv, FreshInv, PostedInv, AgreeInv, alone, faults = 0,
         signup' = signup, auth' = auth, claims' = claims, user' = user,
         NEW t \in Tasks, task[t].pc \in {"regRead", "read", "regWrite", "publish"},
         NEW op, NEW pc, NEW copy, NEW retried, Become(t, op, pc, copy, retried),
         pc # "auth", pc \in {"claims", "write"} => ~ user.deleted,
         pc = "write" => op # "promote"
  PROVE  Agreeing'
<1>1. /\ signup # "start" => auth \in {"enabled", "disabled"}
      /\ signup \in {"claimed", "stored", "done"} => claims = user.role
      /\ Out(user) => auth # "enabled"
  BY FoundAgreeing
<1> QED BY <1>1, MoveAgrees

(* Steps of a request keep the stores agreeing.                            *)
LEMMA RequestAgrees ==
  ASSUME TypeOK, AccountInv, FreshInv, PostedInv, AgreeInv, NEW t \in Tasks, Request(t)
  PROVE  AgreeInv'
<1>1. CASE Dies(t) \/ CallFails(t)
  <2>1. faults' # 0
    BY <1>1, FaultCounted DEF Dies, CallFails
  <2> QED BY <2>1 DEF AgreeInv
<1>2. CASE Deliver(t) \/ \E op \in (RegOps \cup UserOps) \ {"approve"} : Begin(t, op)
  <2>1. /\ signup' = signup /\ auth' = auth /\ claims' = claims /\ user' = user
        /\ faults' = faults /\ alone' = (alone /\ AllIdle)
    BY <1>2 DEF Deliver, Begin, stores
  <2>2. PICK op \in RegOps \cup UserOps, pc \in {"regRead", "read"} :
          Become(t, op, pc, NoUser, FALSE)
    BY <1>2 DEF Deliver, Begin, UserOps
  <2> SUFFICES ASSUME alone, AllIdle, faults = 0 PROVE Agreeing'
    BY <2>1 DEF AgreeInv
  <2>3. \A q \in Tasks : task'[q].pc \in {"idle", "regRead", "read"}
    <3>1. task'[t] = [op |-> op, pc |-> pc, copy |-> NoUser, retried |-> FALSE]
      BY <2>2 DEF Become, TypeOK
    <3>2. \A q \in Tasks : q # t => task'[q] = task[q]
      BY <2>2 DEF Become, TypeOK
    <3> QED BY <3>1, <3>2 DEF AllIdle
  <2>4. ~ Promoting /\ ~ LockingOut
    BY DEF Promoting, LockingOut, AllIdle
  <2>5. \A q \in Tasks : Owes(task[q])'
    BY <2>3 DEF Owes
  <2> QED BY <2>1, <2>4, <2>5 DEF AgreeInv, Agreeing, Out
<1>3. CASE \/ RegRead(t) \/ Read(t) \/ SetClaims(t) \/ Write(t) \/ Switch(t) \/ RegWrite(t)
           \/ Publish(t)
  <2>1. /\ signup' = signup /\ alone' = alone /\ faults' = faults /\ task[t].pc # "idle"
    BY <1>3 DEF RegRead, Read, SetClaims, Write, Switch, RegWrite, Publish, bounds
  <2> SUFFICES ASSUME alone, faults = 0 PROVE Agreeing'
    BY <2>1 DEF AgreeInv
  <2> DEFINE op == task[t].op
             copy == task[t].copy
  <2>2. /\ signup # "start" => auth \in {"enabled", "disabled"}
        /\ signup \in {"claimed", "stored", "done"} =>
             claims = user.role \/ (task[t].pc = "write" /\ op = "promote")
        /\ Out(user) => auth # "enabled" \/ (task[t].pc = "auth" /\ Locks(op))
        /\ Owes(task[t])
        /\ task[t].pc \in {"claims", "write"} => copy = user
        /\ task[t].pc \in {"claims", "write", "auth"} =>
             signup \in {"stored", "done"} /\ auth \in {"enabled", "disabled"}
    BY <2>1, FoundAgreeing
  <2>3. CASE RegRead(t) \/ RegWrite(t) \/ Publish(t)
    <3>1. /\ auth' = auth /\ claims' = claims /\ user' = user
          /\ task[t].pc \in {"regRead", "regWrite", "publish"}
      BY <2>3 DEF RegRead, RegWrite, Publish, stores
    <3>2. PICK pc \in {"idle", "read", "regWrite", "publish"} : Goto(t, pc)
      BY <2>3 DEF RegRead, RegWrite, Publish
    <3> QED BY <2>1, <3>1, <3>2, GotoAgrees DEF Goto
  <2>4. CASE Read(t)
    <3>1. auth' = auth /\ claims' = claims /\ user' = user /\ task[t].pc = "read"
      BY <2>4 DEF Read, stores
    <3>2. CASE Admits(op, user)
      <4>1. PICK pc \in {"claims", "write"} :
              Become(t, op, pc, user, task[t].retried) /\ (pc = "write" => op # "promote")
        BY <2>4, <3>2 DEF Read
      <4>2. ~ user.deleted
        BY <3>2 DEF Admits, Live
      <4> QED BY <2>1, <3>1, <4>1, <4>2, GotoAgrees
    <3>3. CASE ~ Admits(op, user)
      BY <2>1, <2>4, <3>1, <3>3, GotoAgrees DEF Read, Goto
    <3> QED BY <3>2, <3>3
  <2>5. CASE SetClaims(t)
    <3>1. /\ auth' = auth /\ user' = user /\ task[t].pc = "claims"
          /\ auth \in {"enabled", "disabled"} /\ ~ user.deleted /\ op = "promote"
      BY <2>2, <2>5 DEF SetClaims, Owes, AccountInv, TaskBacked
    <3>2. claims' = "admin" /\ Goto(t, "write")
      BY <2>5, <3>1 DEF SetClaims
    <3>3. Out(user) => auth # "enabled"
      BY <2>2, <3>1
    <3> QED BY <2>1, <3>1, <3>2, <3>3, MoveAgrees DEF Goto
  <2>6. CASE Write(t)
    <3>1. /\ auth' = auth /\ claims' = claims /\ task[t].pc = "write" /\ copy = user
          /\ auth \in {"enabled", "disabled"} /\ ~ user.deleted
          /\ user' = Changed(op, user) /\ (op = "promote" => claims = "admin")
          /\ claims = user.role \/ op = "promote"
      BY <2>2, <2>6 DEF Write, Owes
    <3>2. PICK pc \in {"idle", "publish", "auth"} :
            /\ Goto(t, pc)
            /\ pc = "auth" <=> op \notin {"promote", "updateProfile"}
      BY <2>6 DEF Write
    <3>3. /\ op = "deleteAdmin" => user'.deleted
          /\ op # "deleteAdmin" => ~ user'.deleted
          /\ op = "suspend" => user'.status = "suspended"
          /\ op = "updateProfile" => user'.status = user.status
          /\ op \notin {"suspend", "updateProfile", "deleteAdmin"} => user'.status = "approved"
          /\ user'.role = IF op = "promote" THEN "admin" ELSE user.role
      BY <3>1 DEF Changed, StatusAfter
    <3>4. claims' = user'.role
      BY <3>1, <3>3
    <3>5. Out(user') => auth # "enabled" \/ (pc = "auth" /\ Locks(op))
      <4>1. Out(user) => auth # "enabled"
        BY <2>2, <3>1
      <4> QED BY <3>2, <3>3, <4>1 DEF Out, Locks
    <3>6. pc = "auth" /\ ~ Locks(op) => ~ Out(user')
      BY <3>2, <3>3 DEF Out, Locks
    <3> QED BY <2>1, <3>1, <3>2, <3>4, <3>5, <3>6, MoveAgrees DEF Goto
  <2>7. CASE Switch(t)
    <3>1. /\ claims' = claims /\ user' = user /\ task[t].pc = "auth"
          /\ auth \in {"enabled", "disabled"}
          /\ signup \in {"claimed", "stored", "done"} => claims = user.role
      BY <2>2, <2>7 DEF Switch
    <3>2. /\ auth' = IF Locks(op) THEN "disabled" ELSE "enabled"
          /\ \E pc \in {"idle", "publish", "regWrite"} : Goto(t, pc)
      BY <2>7, <3>1 DEF Switch, Locks
    <3>3. Out(user') => auth' # "enabled"
      BY <2>2, <3>1, <3>2 DEF Owes
    <3>4. PICK pc \in {"idle", "publish", "regWrite"} : Goto(t, pc)
      BY <3>2
    <3> QED BY <2>1, <3>1, <3>2, <3>3, <3>4, MoveAgrees DEF Goto
  <2> QED BY <1>3, <2>3, <2>4, <2>5, <2>6, <2>7
<1> QED BY <1>1, <1>2, <1>3 DEF Request

(* As long as no two requests overlap and nothing fails, at rest after the *)
(* registration: a suspended or deleted account cannot sign in, and its    *)
(* claims give it the role its document gives it.                          *)
THEOREM StoresStayAgreed == Spec => []StoresAgree
<1>1. Init => FreshInv /\ PostedInv /\ AgreeInv
  BY DEF Init, FreshInv, PostedInv, SignupClean, Fresh, Deciding, NoTask, NoUser, AgreeInv,
         Agreeing, Out, Owes
<1>2. TypeOK /\ AccountInv /\ FreshInv /\ PostedInv /\ AgreeInv /\ [Next]_vars => AgreeInv'
  <2> SUFFICES ASSUME TypeOK, AccountInv, FreshInv, PostedInv, AgreeInv, [Next]_vars
               PROVE  AgreeInv'
    OBVIOUS
  <2>1. CASE UNCHANGED vars
    BY <2>1 DEF vars, stores, bounds, AgreeInv, Agreeing, Out, Promoting, LockingOut, Owes
  <2>2. CASE Next
    BY <2>2, SignupAgrees, RequestAgrees DEF Next
  <2> QED BY <2>1, <2>2
<1>3. AgreeInv => StoresAgree
  BY DEF AgreeInv, Agreeing, Out, StoresAgree, AllIdle, Promoting, LockingOut
<1> QED BY <1>1, <1>2, <1>3, FreshStep, AccountInit, AccountStep, PTL DEF Spec
============================================================================
