-------------------------- MODULE AccountLifecycle --------------------------
(***************************************************************************)
(* One student account across three services: auth-service registers it in *)
(* Firebase Auth, in "users" and, by a call, in "registrations";           *)
(* enrollment-service decides on the registration and calls user-service   *)
(* to approve the account; user-service suspends, reactivates, promotes and*)
(* deletes it.  The outbox delivers registration.approved to user-service  *)
(* once more, or several times.  No step spans two stores: each request is *)
(* a task that moves from await to await.                                  *)
(***************************************************************************)
EXTENDS Naturals

CONSTANTS
  Tasks,          \* requests in flight after the registration
  MaxTasks,       \* bound: requests begun
  MaxDeliveries,  \* bound: deliveries of registration.approved
  MaxFaults       \* bound: deaths, failed calls, answers that come too late

ASSUME AccountAssumption == MaxTasks \in Nat /\ MaxDeliveries \in Nat /\ MaxFaults \in Nat

VARIABLES
  auth,           \* the Auth user
  claims,         \* its role claim
  user,           \* the document of "users"
  reg,            \* the state of the document of "registrations"
  signup,         \* RegisterUseCase: where it is
  late,           \* its call to enrollment-service timed out and may still arrive
  task,           \* the other requests: operation, await, copy of the user
  events,         \* history: the types of events published
  granted,        \* history: user-service has carried out an approval
  alone,          \* history: no two requests have been in flight together
  begun, deliveries, faults

stores == <<auth, claims, user, reg>>
bounds == <<alone, begun, deliveries, faults>>
vars == <<stores, signup, late, task, events, granted, bounds>>

Statuses == {"none", "pending_approval", "approved", "suspended"}
User == [status : Statuses, role : {"student", "admin"}, deleted : BOOLEAN]
NoUser == [status |-> "none", role |-> "student", deleted |-> FALSE]
NewUser == [status |-> "pending_approval", role |-> "student", deleted |-> FALSE]

EventTypes == {"user.registered", "registration.approved", "registration.rejected",
               "admin.created", "admin.suspended"}

RegOps == {"approveRegistration", "rejectRegistration"}
UserOps == {"approve", "suspend", "reactivate", "promote", "deleteAdmin", "updateProfile"}

Task == [op : RegOps \cup UserOps, copy : User, retried : BOOLEAN,
         pc : {"idle", "regRead", "read", "claims", "write", "auth", "regWrite", "publish"}]

NoTask == [op |-> "approve", pc |-> "idle", copy |-> NoUser, retried |-> FALSE]

Init ==
  /\ auth = "none" /\ claims = "none" /\ user = NoUser /\ reg = "none"
  /\ signup = "start" /\ late = FALSE
  /\ task = [t \in Tasks |-> NoTask]
  /\ events = {} /\ granted = FALSE /\ alone = TRUE
  /\ begun = 0 /\ deliveries = 0 /\ faults = 0

Fault == faults < MaxFaults /\ faults' = faults + 1 /\ UNCHANGED <<alone, begun, deliveries>>
----------------------------------------------------------------------------
\* RegisterUseCase.

Signup(from, to) == signup = from /\ signup' = to /\ UNCHANGED <<task, granted>>

CreateUser ==
  /\ Signup("start", "created")
  /\ auth' = "enabled"
  /\ UNCHANGED <<claims, user, reg, late, events, bounds>>

SetSignupClaims ==
  /\ Signup("created", "claimed")
  /\ claims' = "student"
  /\ UNCHANGED <<auth, user, reg, late, events, bounds>>

\* The document and the event user.registered are one batch.
CommitUser ==
  /\ Signup("claimed", "stored")
  /\ user' = NewUser
  /\ events' = events \cup {"user.registered"}
  /\ UNCHANGED <<auth, claims, reg, late, bounds>>

\* createRegistration: the registration is set to pending, whatever it was.
PostRegistration ==
  /\ Signup("stored", "done") \/ Signup("again", "done")
  /\ reg' = "pending"
  /\ UNCHANGED <<auth, claims, user, late, events, bounds>>

\* It fails: answered 5xx, and sent again; or for good, applied, not applied, or late.
PostFails ==
  /\ \/ Signup("stored", "again") /\ UNCHANGED late
     \/ (Signup("stored", "catch") \/ Signup("again", "catch")) /\ late' \in BOOLEAN
  /\ reg' \in {reg, "pending"}
  /\ Fault
  /\ UNCHANGED <<auth, claims, user, events>>

\* enrollment-service gets to the call after the caller's timeout.
Arrive ==
  /\ late /\ late' = FALSE
  /\ reg' = "pending"
  /\ UNCHANGED <<auth, claims, user, signup, task, events, granted, bounds>>

\* A store rejects an earlier step, the batch perhaps although it was applied.
SignupFails ==
  /\ \/ (Signup("created", "catch") \/ Signup("claimed", "catch")) /\ UNCHANGED <<user, events>>
     \/ /\ Signup("claimed", "catch")
        /\ user' = NewUser
        /\ events' = events \cup {"user.registered"}
  /\ Fault
  /\ UNCHANGED <<auth, claims, reg, late>>

\* The catch block deletes the Auth user; a failure to do so is swallowed.
Compensate ==
  /\ Signup("catch", "failed")
  /\ \/ auth' = "deleted" /\ UNCHANGED bounds
     \/ UNCHANGED auth /\ Fault
  /\ UNCHANGED <<claims, user, reg, late, events>>

SignupDies ==
  /\ signup \in {"created", "claimed", "stored", "again", "catch"}
  /\ signup' = "dead"
  /\ Fault
  /\ UNCHANGED <<stores, late, task, events, granted>>
----------------------------------------------------------------------------
\* The requests of admins and of the student, and the deliveries of the outbox.

Become(t, op, pc, copy, retried) ==
  task' = [task EXCEPT ![t] = [op |-> op, pc |-> pc, copy |-> copy, retried |-> retried]]

Goto(t, pc) == Become(t, task[t].op, pc, task[t].copy, task[t].retried)

AllIdle == \A t \in Tasks : task[t].pc = "idle"

Begin(t, op) ==
  /\ task[t].pc = "idle" /\ begun < MaxTasks
  /\ begun' = begun + 1 /\ alone' = (alone /\ AllIdle)
  /\ Become(t, op, IF op \in RegOps THEN "regRead" ELSE "read", NoUser, FALSE)
  /\ UNCHANGED <<stores, signup, late, events, granted, deliveries, faults>>

\* The outbox delivers registration.approved, at least once.
Deliver(t) ==
  /\ task[t].pc = "idle" /\ deliveries < MaxDeliveries
  /\ "registration.approved" \in events
  /\ deliveries' = deliveries + 1 /\ alone' = (alone /\ AllIdle)
  /\ Become(t, "approve", "read", NoUser, FALSE)
  /\ UNCHANGED <<stores, signup, late, events, granted, begun, faults>>

\* Mutant: the state of the registration is not looked at.
RegReadAny(t) ==
  /\ task[t].pc = "regRead" /\ reg # "none"
  /\ Goto(t, IF task[t].op = "approveRegistration" THEN "read" ELSE "regWrite")
  /\ UNCHANGED <<stores, signup, late, events, granted, bounds>>

\* The registration is read and must be pending; approving goes on with the call.
RegRead(t) ==
  /\ task[t].pc = "regRead"
  /\ Goto(t, IF reg # "pending" THEN "idle"
             ELSE IF task[t].op = "approveRegistration" THEN "read" ELSE "regWrite")
  /\ UNCHANGED <<stores, signup, late, events, granted, bounds>>

Live(u) == u.status # "none" /\ ~ u.deleted

Admits(op, u) ==
  /\ Live(u)
  /\ op = "promote" => u.role = "student"
  /\ op = "deleteAdmin" => u.role = "admin"

\* findById and the checks on the copy; a refusal ends the request.
Read(t) ==
  /\ task[t].pc = "read"
  /\ IF Admits(task[t].op, user)
       THEN Become(t, task[t].op, IF task[t].op = "promote" THEN "claims" ELSE "write",
                   user, task[t].retried)
       ELSE Goto(t, "idle")
  /\ UNCHANGED <<stores, signup, late, events, granted, bounds>>

\* promoteToAdmin sets the claims first.
SetClaims(t) ==
  /\ task[t].pc = "claims"
  /\ IF auth \in {"none", "deleted"}
       THEN UNCHANGED claims /\ Goto(t, "idle")
       ELSE claims' = "admin" /\ Goto(t, "write")
  /\ UNCHANGED <<auth, user, reg, signup, late, events, granted, bounds>>

StatusAfter(op, status) ==
  IF op = "suspend" THEN "suspended" ELSE IF op = "updateProfile" THEN status ELSE "approved"

\* The document after the write: the changed copy, or the one field a delete sets.
Changed(op, copy) ==
  IF op = "deleteAdmin" THEN [status |-> user.status, role |-> user.role, deleted |-> TRUE]
  ELSE [status |-> StatusAfter(op, copy.status),
        role |-> IF op = "promote" THEN "admin" ELSE copy.role, deleted |-> copy.deleted]

\* Mutant: deleting an admin leaves the Auth user alone.
WriteOnly(t) ==
  /\ task[t].pc = "write"
  /\ user' = Changed(task[t].op, task[t].copy)
  /\ Goto(t, IF task[t].op = "promote" THEN "publish"
             ELSE IF task[t].op \in {"updateProfile", "deleteAdmin"} THEN "idle" ELSE "auth")
  /\ UNCHANGED <<auth, claims, reg, signup, late, events, granted, bounds>>

Write(t) ==
  /\ task[t].pc = "write"
  /\ user' = Changed(task[t].op, task[t].copy)
  /\ Goto(t, IF task[t].op = "promote" THEN "publish"
             ELSE IF task[t].op = "updateProfile" THEN "idle" ELSE "auth")
  /\ UNCHANGED <<auth, claims, reg, signup, late, events, granted, bounds>>

\* Mutant: the failure of the call to user-service is swallowed.
FailsSwallowed(t) == Goto(t, IF task[t].op = "approveRegistration" THEN "regWrite" ELSE "idle")

\* After a failed call the request is over; only the call of an approval is sent again.
Fails(t) ==
  IF task[t].op = "approveRegistration" /\ ~ task[t].retried
    THEN Become(t, task[t].op, "read", task[t].copy, TRUE)
    ELSE Goto(t, "idle")

\* enableUser or disableUser, which throws when there is no Auth user.
Switch(t) ==
  LET op == task[t].op IN
  /\ task[t].pc = "auth"
  /\ IF auth \in {"none", "deleted"}
       THEN UNCHANGED <<auth, granted>> /\ Fails(t)
       ELSE /\ auth' = IF op \in {"suspend", "deleteAdmin"} THEN "disabled" ELSE "enabled"
            /\ granted' = (granted \/ op \in {"approve", "approveRegistration"})
            /\ Goto(t, IF op = "approveRegistration" THEN "regWrite"
                       ELSE IF op = "suspend" /\ task[t].copy.role = "admin" THEN "publish"
                       ELSE "idle")
  /\ UNCHANGED <<claims, user, reg, signup, late, events, bounds>>

\* The decision on the registration is stored, from the copy read at the start.
RegWrite(t) ==
  /\ task[t].pc = "regWrite"
  /\ reg' = IF task[t].op = "approveRegistration" THEN "approved" ELSE "rejected"
  /\ Goto(t, "publish")
  /\ UNCHANGED <<auth, claims, user, signup, late, events, granted, bounds>>

EventOf == [approveRegistration |-> "registration.approved",
            rejectRegistration |-> "registration.rejected",
            promote |-> "admin.created", suspend |-> "admin.suspended"]

Publish(t) ==
  /\ task[t].pc = "publish"
  /\ events' = events \cup {EventOf[task[t].op]}
  /\ Goto(t, "idle")
  /\ UNCHANGED <<stores, signup, late, granted, bounds>>

\* A request dies or its store rejects a call.
Dies(t) ==
  /\ task[t].pc # "idle"
  /\ Goto(t, "idle")
  /\ Fault
  /\ UNCHANGED <<stores, signup, late, events, granted>>

\* The call to user-service: a 5xx sends it again, once; after a timeout the
\* approval goes on although nobody waits for it.
CallFails(t) ==
  /\ task[t].op = "approveRegistration" /\ task[t].pc \in {"read", "write", "auth"}
  /\ \/ Fails(t)
     \/ Become(t, "approve", task[t].pc, task[t].copy, task[t].retried)
  /\ Fault
  /\ UNCHANGED <<stores, signup, late, events, granted>>

Request(t) ==
  \/ RegRead(t) \/ Read(t) \/ SetClaims(t) \/ Write(t) \/ Switch(t) \/ RegWrite(t) \/ Publish(t)
  \/ Dies(t) \/ CallFails(t) \/ Deliver(t)
  \/ \E op \in (RegOps \cup UserOps) \ {"approve"} : Begin(t, op)

\* Ten failed logins lock the account: auth-service disables the Auth user.
Lockout ==
  /\ auth = "enabled" /\ auth' = "disabled"
  /\ UNCHANGED <<claims, user, reg, signup, late, task, events, granted, bounds>>

Next ==
  \/ CreateUser \/ SetSignupClaims \/ CommitUser \/ PostRegistration \/ PostFails
  \/ Arrive \/ SignupFails \/ Compensate \/ SignupDies
  \/ \E t \in Tasks : Request(t)
  \/ Lockout

Spec == Init /\ [][Next]_vars
----------------------------------------------------------------------------
TypeOK ==
  /\ auth \in {"none", "enabled", "disabled", "deleted"}
  /\ claims \in {"none", "student", "admin"}
  /\ user \in User
  /\ reg \in {"none", "pending", "approved", "rejected"}
  /\ signup \in {"start", "created", "claimed", "stored", "again", "catch", "done", "failed", "dead"}
  /\ late \in BOOLEAN
  /\ task \in [Tasks -> Task]
  /\ events \subseteq EventTypes
  /\ granted \in BOOLEAN /\ alone \in BOOLEAN
  /\ begun \in 0 .. MaxTasks /\ deliveries \in 0 .. MaxDeliveries /\ faults \in 0 .. MaxFaults

(* A registration is approved only after user-service has approved the     *)
(* account, and a registration exists only for an account that has a user  *)
(* document: whatever overlaps, dies, is sent again or comes late          *)
(* (ApproveRegistrationUseCase.ts 20-30, RegisterUseCase.ts 58-60).        *)
RegistrationBacked ==
  /\ reg = "approved" \/ "registration.approved" \in events => granted
  /\ reg # "none" \/ late => user.status # "none"

\* What makes it inductive: a decision about to be stored was prepared for, and copies
\* about to be written are of a user that exists.
TaskBacked(k, approved, exists) ==
  /\ k.pc \in {"regRead", "regWrite"} => k.op \in RegOps
  /\ k.pc = "claims" => k.op = "promote"
  /\ k.pc = "publish" => k.op \in RegOps \cup {"promote", "suspend"}
  /\ k.op = "approveRegistration" /\ k.pc \in {"regWrite", "publish"} => approved
  /\ k.pc \in {"regWrite", "claims", "write", "auth"} => exists
  /\ k.pc \in {"claims", "write"} => k.copy.status # "none"

AccountInv ==
  /\ RegistrationBacked
  /\ signup \in {"stored", "again", "done"} => user.status # "none"
  /\ \A t \in Tasks : TaskBacked(task[t], granted, user.status # "none")

(* Suspending and deleting lock the account out: an account at rest that is*)
(* suspended or deleted cannot sign in, and its claims give it the role its*)
(* document gives it, as long as no two requests overlapped and none failed*)
(* (SuspendUserUseCase.ts 18-20, DeleteAdminUseCase.ts 16-17,              *)
(* PromoteToAdminUseCase.ts 28-45).                                        *)
StoresAgree ==
  AllIdle /\ alone /\ faults = 0 /\ signup = "done" =>
    /\ user.status = "suspended" \/ user.deleted => auth # "enabled"
    /\ claims = user.role

(* Nothing undoes a deletion, and no request reopens a decided registration*)
(* but a registration call that was sent again or came late: what writes of*)
(* whole copies keep only as long as requests do not overlap               *)
(* (FirestoreUserRepository.ts 71-74, Registration.ts 40-51).              *)
DecisionsHold ==
  alone => /\ user.deleted => user'.deleted
           /\ reg \in {"approved", "rejected"} => reg' = reg \/ (reg' = "pending" /\ faults > 0)

DecisionsStand == [][DecisionsHold]_vars

============================================================================
