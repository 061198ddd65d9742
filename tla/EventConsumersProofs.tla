------------------------- MODULE EventConsumersProofs -------------------------
(***************************************************************************)
(* Theorems about a call between services for any timeout and any pause,   *)
(* and about the events such calls carry, for any number of admins,        *)
(* deliveries and failures.                                                *)
(***************************************************************************)
EXTENDS EventConsumers, TLAPS

(* A call begins typed, with its first request under way.                  *)
LEMMA CallInit == Init => TypeOK /\ CallInv
  BY ClientAssumption, SMT
  DEF Init, CallInv, TypeOK, TimeInv, NeverTwoAtOnce, ResolvedMeansApplied, Attempts, Answers

(* Every step of the caller or of the service keeps the types.             *)
LEMMA CallTypeStep == TypeOK /\ CallInv /\ [Next]_vars => TypeOK'
<1> USE ClientAssumption DEF TypeOK, Attempts, Answers
<1> SUFFICES ASSUME TypeOK, CallInv, [Next]_vars PROVE TypeOK'
  OBVIOUS
<1>1. ASSUME NEW i \in Attempts, Apply(i) PROVE TypeOK'
  BY <1>1, SMT DEF Apply
<1>2. ASSUME NEW i \in Attempts, Break(i) PROVE TypeOK'
  BY <1>2, SMT DEF Break
<1>3. ASSUME NEW i \in Attempts, NEW s \in Answers, Answer(i, s) PROVE TypeOK'
  BY <1>3, SMT DEF Answer
<1>4. CASE Resolve \/ Reject
  <2>1. CASE Resolve
    BY <2>1, SMT DEF Resolve, Settle
  <2>2. CASE Reject
    BY <2>2, SMT DEF Reject, Settle
  <2> QED BY <1>4, <2>1, <2>2, Zenon
<1>5. CASE Retry
  BY <1>5, SMT DEF Retry
<1>6. CASE Resend
  BY <1>6, SMT DEF Resend
<1>7. CASE Tick
  BY <1>7, SMT DEF Tick
<1>8. CASE UNCHANGED vars
  BY <1>8, SMT DEF vars
<1> QED BY <1>1, <1>2, <1>3, <1>4, <1>5, <1>6, <1>7, <1>8, Zenon DEF Next, Caller, Service

(* Every step keeps the times and the order of the two requests.           *)
LEMMA CallStep == TypeOK /\ CallInv /\ [Next]_vars => CallInv'
<1> USE ClientAssumption
    DEF TypeOK, CallInv, TimeInv, NeverTwoAtOnce, ResolvedMeansApplied, Attempts, Answers
<1> SUFFICES ASSUME TypeOK, CallInv, [Next]_vars PROVE CallInv'
  OBVIOUS
<1>1. ASSUME NEW i \in Attempts, Apply(i) PROVE CallInv'
  BY <1>1, SMT DEF Apply
<1>2. ASSUME NEW i \in Attempts, Break(i) PROVE CallInv'
  BY <1>2, SMT DEF Break
<1>3. ASSUME NEW i \in Attempts, NEW s \in Answers, Answer(i, s) PROVE CallInv'
  BY <1>3, SMT DEF Answer
<1>4. CASE Resolve \/ Reject
  <2>1. CASE Resolve
    BY <2>1, SMT DEF Resolve, Settle
  <2>2. CASE Reject
    BY <2>2, SMT DEF Reject, Settle
  <2> QED BY <1>4, <2>1, <2>2, Zenon
<1>5. CASE Retry
  BY <1>5, SMT DEF Retry
<1>6. CASE Resend
  BY <1>6, SMT DEF Resend
<1>7. CASE Tick
  BY <1>7, SMT DEF Tick
<1>8. CASE UNCHANGED vars
  BY <1>8, SMT DEF vars
<1> QED BY <1>1, <1>2, <1>3, <1>4, <1>5, <1>6, <1>7, <1>8, Zenon DEF Next, Caller, Service

(* The inductive invariant of a call.                                      *)
THEOREM CallInvariant == Spec => [](TypeOK /\ CallInv)
  BY CallInit, CallTypeStep, CallStep, PTL DEF Spec

(* The service never works on two copies of one call at a time.            *)
THEOREM RetryAfterAnswer == Spec => []NeverTwoAtOnce
<1>1. CallInv => NeverTwoAtOnce
  BY DEF CallInv
<1> QED BY <1>1, CallInvariant, PTL

(* A call that resolves was applied.                                       *)
THEOREM ResolvedApplied == Spec => []ResolvedMeansApplied
<1>1. CallInv => ResolvedMeansApplied
  BY DEF CallInv
<1> QED BY <1>1, CallInvariant, PTL

(* No caller waits longer than two timeouts and the pause.                 *)
THEOREM CallIsBounded == Spec => []BoundedCall
<1>1. TypeOK /\ CallInv => BoundedCall
  BY ClientAssumption, SMT DEF TypeOK, CallInv, TimeInv, BoundedCall, Attempts
<1> QED BY <1>1, CallInvariant, PTL
----------------------------------------------------------------------------
(* A call that is begun anew is a call.                                    *)
LEMMA NewCallStarts == NewCall => TypeOK' /\ CallInv'
  BY ClientAssumption, SMT
  DEF NewCall, CallInv, TypeOK, TimeInv, NeverTwoAtOnce, ResolvedMeansApplied, Attempts, Answers

(* What a request is made of.                                              *)
LEMMA RequestParts ==
  /\ \A r \in Requests : /\ r[1] \in 1 .. MAX_ATTEMPTS /\ r[2] \in {1, 2} /\ r[3] \in Attempts
                        /\ r = <<r[1], r[2], r[3]>>
  /\ \A d \in 1 .. MAX_ATTEMPTS, k \in {1, 2}, i \in Attempts :
       LET r == <<d, k, i>> IN r \in Requests /\ r[1] = d /\ r[2] = k /\ r[3] = i
  BY DEF Requests

(* Who is told something is somebody; handlers that ask for the admins     *)
(* tell nobody else.                                                       *)
LEMMA PlanFacts ==
  /\ plan.users \subseteq Users /\ (plan.admins => plan.users = {})
<1> DEFINE Sound(p) == p.users \subseteq Users /\ (p.admins => p.users = {})
<1>1. /\ Sound(RegistrationApproved) /\ Sound(RegistrationRejected) /\ Sound(EnrollmentPending)
      /\ Sound(EnrollmentApproved) /\ Sound(EnrollmentRejected) /\ Sound(UserRegistered)
      /\ Sound(AdminSuspended) /\ Sound(AdminCreated) /\ Sound(Unhandled)
  BY DEF RegistrationApproved, RegistrationRejected, EnrollmentPending, EnrollmentApproved,
         EnrollmentRejected, UserRegistered, AdminSuspended, AdminCreated, Unhandled, Plan, Users
<1>2. plan \in {RegistrationApproved, RegistrationRejected, EnrollmentPending, EnrollmentApproved,
                EnrollmentRejected, UserRegistered, AdminSuspended, AdminCreated, Unhandled}
  BY Zenon DEF plan
<1> HIDE DEF Sound
<1>3. Sound(plan)
  BY <1>1, <1>2, Zenon
<1> QED BY <1>3 DEF Sound

(* What the handlers do depends on the type of the event, which stays.     *)
LEMMA PlanKept ==
  ASSUME event'.type = event.type
  PROVE  plan' = plan
  BY Zenon DEF plan

Pcs == {"none", "sent", "create", "mail", "complete", "failed", "done"}

(* A handler that moves on is one.                                         *)
LEMMA PcTyped ==
  ASSUME NEW h \in Handler, NEW x \in Pcs
  PROVE  /\ [h EXCEPT !.pc = x] \in Handler /\ [h EXCEPT !.pc = x].pc = x
         /\ [h EXCEPT !.pc = x].try = h.try /\ [h EXCEPT !.pc = x].todo = h.todo
  BY DEF Handler, Pcs

(* One that has less to do is one.                                        *)
LEMMA TodoTyped ==
  ASSUME NEW h \in Handler, NEW todo \in SUBSET Users
  PROVE  /\ [h EXCEPT !.todo = todo] \in Handler /\ [h EXCEPT !.todo = todo].todo = todo
         /\ [h EXCEPT !.todo = todo].pc = h.pc /\ [h EXCEPT !.todo = todo].try = h.try
  BY DEF Handler

(* Time passes for a handler that pauses.                                  *)
LEMMA WaitTyped ==
  ASSUME NEW h \in Handler, NEW wait \in Nat
  PROVE  /\ [h EXCEPT !.wait = wait] \in Handler /\ [h EXCEPT !.wait = wait].pc = h.pc
         /\ [h EXCEPT !.wait = wait].try = h.try /\ [h EXCEPT !.wait = wait].todo = h.todo
  BY DEF Handler

(* A refused e-mail is followed by its pause.                              *)
LEMMA PauseTyped ==
  ASSUME NEW h \in Handler, NEW wait \in Nat, NEW try \in 1 .. Len(Pauses) + 1
  PROVE  /\ [h EXCEPT !.wait = wait, !.try = try] \in Handler
         /\ [h EXCEPT !.wait = wait, !.try = try].pc = h.pc
         /\ [h EXCEPT !.wait = wait, !.try = try].todo = h.todo
  BY DEF Handler

(* A handler that starts.                                                  *)
LEMMA StartingTyped ==
  ASSUME NEW at \in Pcs, NEW todo \in SUBSET Users
  PROVE  /\ Starting(at, todo) \in Handler
         /\ Starting(at, todo).pc = at /\ Starting(at, todo).todo = todo
  BY ConsumerAssumption DEF Starting, Handler, Pcs

(* One handler moves; the event, the call and the others stay.             *)
LEMMA MoveFields ==
  ASSUME ConsumersTypeOK, NEW r \in Requests, NEW h \in Handler, Move(r, h)
  PROVE  /\ run' \in [Requests -> Handler] /\ run'[r] = h /\ \A s \in Requests \ {r} : run'[s] = run[s]
         /\ UNCHANGED <<event, to, prompt>>
  BY DEF ConsumersTypeOK, Move

(* What a handler does to its caller's request, if somebody waits for it,  *)
(* is a step of the service in the client's terms.                         *)
LEMMA ServiceStep ==
  ASSUME ConsumersTypeOK, EventInv, NEW r \in Requests,
         \/ UNCHANGED client
         \/ Awaited(r) /\ (Apply(r[3]) \/ Break(r[3]) \/ \E s \in Answers : Answer(r[3], s))
  PROVE  /\ TypeOK' /\ (to # 0 => CallInv') /\ NeverTwoAtOnce' /\ pc' = pc /\ attempt' = attempt
         /\ \A i \in Attempts : wire'[i] # wire[i] =>
              /\ wire[i] = "sent" /\ wire'[i] # "unsent"
              /\ to # 0 /\ i = r[3] /\ r[1] = event.attempts + 1 /\ r[2] = to
<1>0. TypeOK /\ r[3] \in Attempts /\ (to # 0 => CallInv) /\ NeverTwoAtOnce
  BY RequestParts DEF ConsumersTypeOK, EventInv
<1>1. CASE UNCHANGED client
  <2>1. TypeOK' /\ NeverTwoAtOnce' /\ pc' = pc /\ attempt' = attempt /\ wire' = wire
    BY <1>0, <1>1 DEF client, TypeOK, NeverTwoAtOnce
  <2>2. CallInv => CallInv'
    BY <1>1 DEF client, CallInv, TimeInv, NeverTwoAtOnce, ResolvedMeansApplied
  <2> QED BY <1>0, <2>1, <2>2
<1>2. CASE Awaited(r) /\ (Apply(r[3]) \/ Break(r[3]) \/ \E s \in Answers : Answer(r[3], s))
  <2>1. to # 0 /\ r[1] = event.attempts + 1 /\ r[2] = to
    BY <1>2 DEF Awaited, Request
  <2>2. Next
    BY <1>0, <1>2 DEF Next, Service
  <2>3. TypeOK' /\ CallInv'
    BY <1>0, <2>1, <2>2, CallTypeStep, CallStep
  <2>4. /\ pc' = pc /\ attempt' = attempt
        /\ \A i \in Attempts : wire'[i] # wire[i] => wire[i] = "sent" /\ wire'[i] # "unsent" /\ i = r[3]
    BY <1>0, <1>2 DEF Apply, Break, Answer, TypeOK, Answers
  <2> QED BY <2>1, <2>3, <2>4 DEF CallInv
<1> QED BY <1>1, <1>2

(* The inductive invariant.                                                *)
ConsumersInv == ConsumersTypeOK /\ EventInv /\ \A r \in Requests : RunInv(r)

(* Nothing takes back what was written, and no failure is forgotten.       *)
Grows ==
  /\ notes \subseteq notes' /\ mailed \subseteq mailed' /\ audited \subseteq audited'
  /\ faults' = 0 => faults = 0

(* What was told stays told.                                               *)
LEMMA ToldKept ==
  ASSUME Grows, event'.type = event.type, NEW r \in Requests, run'[r].try = run[r].try, Told(r)
  PROVE  Told(r)'
<1>1. plan' = plan
  BY PlanKept
<1> QED BY <1>1 DEF Told, Grows

(* What holds of a request that a step leaves alone.                       *)
LEMMA AloneKept ==
  ASSUME Grows, event' = event, to' = to, NEW s \in Requests, run'[s] = run[s], RunInv(s),
         SomeTold => SomeTold',
         s[3] \in Attempts,
         wire'[s[3]] # wire[s[3]] =>
           wire'[s[3]] # "unsent" /\ ~ (to # 0 /\ s[1] = event.attempts + 1 /\ s[2] = to)
  PROVE  RunInv(s)'
<1>1. plan' = plan
  BY PlanKept
<1>2. Begun(s) => Begun(s)'
  BY DEF Begun
<1>3. Told(s) => Told(s)'
  BY ToldKept
<1>4. Informed(s) => Informed(s)'
  BY <1>1 DEF Informed, Grows
<1>5. s \in audited => s \in audited'
  BY DEF Grows
<1> QED BY <1>2, <1>3, <1>4, <1>5 DEF RunInv

(* A step of one handler keeps the invariant if it keeps it for that one.  *)
LEMMA HandlerStep ==
  ASSUME ConsumersInv, NEW r \in Requests, Grows, ConsumersTypeOK', event' = event, to' = to,
         \A s \in Requests \ {r} : run'[s] = run[s],
         run[r].pc = "done" => run'[r].pc = "done" /\ run'[r].try = run[r].try,
         run[r].pc # "none", audited' \subseteq audited \cup {r}, r \in audited' => r \in audited \/ r[2] = 2,
         \/ UNCHANGED client
         \/ Awaited(r) /\ (Apply(r[3]) \/ Break(r[3]) \/ \E s \in Answers : Answer(r[3], s)),
         (r[2] = 2 => SomeTold') => RunInv(r)'
  PROVE  ConsumersInv'
<1>0. ConsumersTypeOK /\ EventInv /\ \A s \in Requests : RunInv(s)
  BY DEF ConsumersInv
<1>1. SomeTold => SomeTold'
  <2> SUFFICES ASSUME NEW s \in Requests, s[2] = 1, run[s].pc = "done", Told(s) PROVE SomeTold'
    BY DEF SomeTold
  <2>1. run'[s].pc = "done" /\ run'[s].try = run[s].try
    OBVIOUS
  <2>2. Told(s)'
    BY <2>1, ToldKept
  <2> QED BY <2>1, <2>2 DEF SomeTold
<1>2. RunInv(r)'
  BY <1>0, <1>1 DEF RunInv
<1>3. /\ (to # 0 => CallInv') /\ NeverTwoAtOnce' /\ pc' = pc /\ attempt' = attempt
      /\ \A i \in Attempts : wire'[i] # wire[i] =>
           /\ wire[i] = "sent" /\ wire'[i] # "unsent"
           /\ to # 0 /\ i = r[3] /\ r[1] = event.attempts + 1 /\ r[2] = to
  BY <1>0, ServiceStep
<1>4. ASSUME NEW s \in Requests PROVE RunInv(s)'
  <2>1. CASE s = r
    BY <1>2, <2>1
  <2>2. CASE s # r
    <3>1. s[3] \in Attempts /\ s = <<s[1], s[2], s[3]>> /\ r = <<r[1], r[2], r[3]>>
      BY RequestParts
    <3>2. wire'[s[3]] # wire[s[3]] =>
            wire'[s[3]] # "unsent" /\ ~ (to # 0 /\ s[1] = event.attempts + 1 /\ s[2] = to)
      BY <1>3, <2>2, <3>1
    <3> QED BY <1>0, <1>1, <2>2, <3>1, <3>2, AloneKept
  <2> QED BY <2>1, <2>2
<1>5. audited' # {} => SomeTold'
  <2>1. CASE audited = {}
    BY <1>0, <1>1, <2>1 DEF RunInv
  <2>2. CASE audited # {}
    BY <1>0, <1>1, <2>2 DEF EventInv
  <2> QED BY <2>1, <2>2
<1>6. to # 0 /\ pc = "resolved" => wire'[attempt] = "2xx"
  <2>1. attempt \in Attempts
    BY <1>0 DEF ConsumersTypeOK, TypeOK
  <2>2. to # 0 /\ pc = "resolved" => wire[attempt] = "2xx"
    BY <1>0 DEF EventInv
  <2> QED BY <1>3, <2>1, <2>2
<1>7. EventInv'
  BY <1>0, <1>1, <1>3, <1>5, <1>6 DEF EventInv, Grows
<1> QED BY <1>4, <1>7 DEF ConsumersInv

(* A step of a handler keeps the types.                                    *)
LEMMA TypesKept ==
  ASSUME ConsumersTypeOK, EventInv, NEW r \in Requests, UNCHANGED <<event, to, prompt, read, reader, reads>>,
         run' \in [Requests -> Handler], notes \subseteq notes', notes' \subseteq Requests \X Users,
         audited' \subseteq Requests, mailed' \subseteq Requests, faults' = faults \/ Fault,
         \/ UNCHANGED client
         \/ Awaited(r) /\ (Apply(r[3]) \/ Break(r[3]) \/ \E s \in Answers : Answer(r[3], s))
  PROVE  ConsumersTypeOK' /\ (faults' = 0 => faults = 0)
<1>1. TypeOK'
  BY ServiceStep
<1>2. faults' \in 0 .. MaxFaults /\ (faults' = 0 => faults = 0)
  BY ConsumerAssumption DEF ConsumersTypeOK, Fault
<1> QED BY <1>1, <1>2 DEF ConsumersTypeOK

(* A handler that was begun before is begun after its step, and only its   *)
(* response makes it answered.                                             *)
LEMMA OwnKept ==
  ASSUME ConsumersInv, NEW r \in Requests, event' = event, to' = to, run[r].pc # "none",
         \/ UNCHANGED client
         \/ Awaited(r) /\ (Apply(r[3]) \/ Break(r[3]) \/ \E s \in Answers : Answer(r[3], s))
  PROVE  /\ Begun(r)'
         /\ run[r].pc # "done" /\ to # 0 /\ r[1] = event.attempts + 1 /\ r[2] = to /\ wire'[r[3]] = "2xx" =>
              wire[r[3]] = "sent"
<1>0. ConsumersTypeOK /\ EventInv /\ RunInv(r) /\ r[3] \in Attempts
  BY RequestParts DEF ConsumersInv
<1>1. \A i \in Attempts : wire'[i] # wire[i] => wire[i] = "sent" /\ wire'[i] # "unsent"
  BY <1>0, ServiceStep
<1>2. Begun(r)'
  BY <1>0, <1>1 DEF RunInv, Begun
<1> QED BY <1>0, <1>1, <1>2 DEF RunInv

(* One handler moves, and writes.                                          *)
LEMMA MoveStep ==
  ASSUME ConsumersInv, NEW r \in Requests, NEW h \in Handler, Move(r, h), run[r].pc # "none",
         run[r].pc = "done" => h.pc = "done" /\ h.try = run[r].try,
         UNCHANGED <<read, reader, reads>>, notes \subseteq notes', notes' \subseteq Requests \X Users,
         mailed \subseteq mailed', mailed' \subseteq mailed \cup {r},
         audited \subseteq audited', audited' \subseteq audited \cup {r}, r \in audited' => r \in audited \/ r[2] = 2,
         faults' = faults \/ Fault,
         \/ UNCHANGED client
         \/ Awaited(r) /\ (Apply(r[3]) \/ Break(r[3]) \/ \E s \in Answers : Answer(r[3], s)),
         r[2] = 1 /\ h.pc \in {"create", "mail", "complete"} => Informed(r)',
         r[2] = 1 /\ h.pc = "complete" => Told(r)',
         r[2] = 2 => h.pc \notin {"create", "mail"} /\ (h.pc = "complete" => r \in audited'),
         wire[r[3]] = "sent" /\ wire'[r[3]] = "2xx" =>
           run[r].pc = "complete" /\ h.pc = "done" /\ h.try = run[r].try
  PROVE  ConsumersInv'
<1>0. ConsumersTypeOK /\ EventInv /\ RunInv(r) /\ r[2] \in {1, 2}
  BY RequestParts DEF ConsumersInv
<1>1. /\ run' \in [Requests -> Handler] /\ run'[r] = h /\ \A s \in Requests \ {r} : run'[s] = run[s]
      /\ UNCHANGED <<event, to, prompt>>
  BY <1>0, MoveFields
<1>2. audited' \subseteq Requests /\ mailed' \subseteq Requests
  BY <1>0 DEF ConsumersTypeOK
<1>3. ConsumersTypeOK' /\ Grows
  BY <1>0, <1>1, <1>2, TypesKept DEF Grows
<1>4. Begun(r)'
  BY <1>1, OwnKept
<1>5. ASSUME to # 0, r[1] = event.attempts + 1, r[2] = to, wire'[r[3]] = "2xx"
      PROVE  h.pc = "done" /\ (to = 1 => Told(r)') /\ (to = 2 => r \in audited')
  <2>1. CASE run[r].pc = "done"
    <3>1. wire[r[3]] = "2xx"
      <4>1. \A i \in Attempts : wire'[i] # wire[i] => wire[i] = "sent"
        BY <1>0, ServiceStep, <1>1
      <4> QED BY <1>5, <4>1, RequestParts, <2>1
    <3>2. to = 1 => Told(r)
      BY <1>0, <1>5, <3>1 DEF RunInv
    <3>3. to = 2 => r \in audited
      BY <1>0, <1>5, <3>1 DEF RunInv
    <3>4. to = 1 => Told(r)'
      BY <1>1, <1>3, <2>1, <3>2, ToldKept
    <3> QED BY <2>1, <3>3, <3>4
  <2>2. CASE run[r].pc # "done"
    <3>1. wire[r[3]] = "sent"
      BY <1>1, <1>5, <2>2, OwnKept
    <3>2. run[r].pc = "complete" /\ h.pc = "done" /\ h.try = run[r].try
      BY <1>5, <3>1
    <3>3. (to = 1 => Told(r)) /\ (to = 2 => r \in audited)
      BY <1>0, <1>5, <3>2 DEF RunInv
    <3>4. to = 1 => Told(r)'
      BY <1>1, <1>3, <3>2, <3>3, ToldKept
    <3> QED BY <3>2, <3>3, <3>4
  <2> QED BY <2>1, <2>2
<1>6. (r[2] = 2 => SomeTold') => RunInv(r)'
  BY <1>1, <1>4, <1>5 DEF RunInv
<1> QED BY <1>1, <1>3, <1>6, HandlerStep

(* Every step of a handler keeps the invariant.                            *)
LEMMA ConsumeStep == ASSUME ConsumersInv, NEW r \in Requests, Consume(r) PROVE ConsumersInv'
<1> USE DEF stores
<1>0. /\ ConsumersTypeOK /\ EventInv /\ RunInv(r) /\ run[r] \in Handler
      /\ run[r].todo \subseteq Users /\ run[r].try \in 1 .. Len(Pauses) + 1 /\ Len(Pauses) \in Nat
      /\ notes \subseteq Requests \X Users /\ r[2] \in {1, 2} /\ r[3] \in Attempts
      /\ wire \in [Attempts -> {"unsent", "sent", "broken"} \cup Answers]
  <2>1. ConsumersTypeOK /\ EventInv /\ RunInv(r) /\ r[2] \in {1, 2} /\ r[3] \in Attempts
    BY RequestParts DEF ConsumersInv
  <2>2. /\ run[r] \in Handler /\ notes \subseteq Requests \X Users
        /\ wire \in [Attempts -> {"unsent", "sent", "broken"} \cup Answers]
    BY <2>1 DEF ConsumersTypeOK, TypeOK
  <2>3. run[r].todo \subseteq Users /\ run[r].try \in 1 .. Len(Pauses) + 1 /\ Len(Pauses) \in Nat
    BY <2>2, ConsumerAssumption DEF Handler
  <2> QED BY <2>1, <2>2, <2>3
<1>a. ASSUME NEW h, Move(r, h) PROVE plan' = plan
  BY <1>a, PlanKept DEF Move
<1>b. ASSUME UNCHANGED client \/ (Awaited(r) /\ Apply(r[3])) PROVE wire' = wire
  BY <1>b DEF client, Apply
<1>1. CASE Receive(r)
  <2> DEFINE todo == plan.users \cup (IF plan.admins THEN Admins ELSE {})
  <2>1. /\ run[r].pc = "sent" /\ r[2] = 1 /\ UNCHANGED <<client, stores>>
        /\ \/ Move(r, Starting("create", todo)) /\ UNCHANGED faults
           \/ plan.admins /\ Fault /\ Move(r, Starting("create", {}))
    BY <1>1, Zenon DEF Receive
  <2>2. todo \subseteq Users
    BY PlanFacts DEF Users
  <2>3. plan.users \subseteq todo /\ (plan.admins => Admins \subseteq todo)
    OBVIOUS
  <2> HIDE DEF todo
  <2>4. PICK h \in Handler :
          /\ Move(r, h) /\ h.pc = "create"
          /\ \/ h.todo = todo /\ UNCHANGED faults
             \/ plan.admins /\ Fault
    <3>1. "create" \in Pcs /\ todo \in SUBSET Users /\ {} \in SUBSET Users
      BY <2>2 DEF Pcs
    <3>2. /\ Starting("create", todo) \in Handler /\ Starting("create", {}) \in Handler
          /\ Starting("create", todo).pc = "create" /\ Starting("create", {}).pc = "create"
          /\ Starting("create", todo).todo = todo
      BY <3>1, StartingTyped
    <3> QED BY <2>1, <3>2
  <2>5. plan' = plan /\ run'[r] = h
    BY <1>0, <1>a, <2>4, MoveFields
  <2>6. Informed(r)'
    <3>1. CASE h.todo = todo
      BY <2>3, <2>4, <2>5, <3>1 DEF Informed
    <3>2. CASE plan.admins /\ Fault
      <4>1. faults' # 0
        BY <1>0, <3>2 DEF Fault, ConsumersTypeOK
      <4> QED BY <2>5, <3>2, <4>1, PlanFacts DEF Informed
    <3> QED BY <2>4, <3>1, <3>2
  <2> QED BY <1>0, <1>b, <2>1, <2>4, <2>6, MoveStep
<1>2. ASSUME NEW u \in Users, Create(r, u) PROVE ConsumersInv'
  <2> DEFINE h == [run[r] EXCEPT !.todo = @ \ {u}]
  <2>1. /\ run[r].pc \in {"create", "failed", "done"} /\ u \in run[r].todo /\ notes' = notes \cup {<<r, u>>}
        /\ Move(r, h) /\ UNCHANGED <<client, read, reader, audited, mailed, faults, reads>>
    BY <1>2 DEF Create
  <2>2. h \in Handler /\ h.pc = run[r].pc /\ h.try = run[r].try /\ h.todo = run[r].todo \ {u}
    BY <1>0, TodoTyped
  <2> HIDE DEF h
  <2>3. plan' = plan /\ run'[r] = h
    BY <1>0, <1>a, <2>1, <2>2, MoveFields
  <2>4. r[2] = 1 /\ run[r].pc = "create" => Informed(r)'
    BY <1>0, <2>1, <2>2, <2>3 DEF Informed, RunInv
  <2>5. r[2] = 2 => run[r].pc # "create"
    BY <1>0 DEF RunInv
  <2> QED BY <1>0, <1>b, <2>1, <2>2, <2>4, <2>5, MoveStep
<1>3. ASSUME NEW u \in Users, CreateFails(r, u) PROVE ConsumersInv'
  <2> DEFINE h == [run[r] EXCEPT !.todo = @ \ {u}, !.pc = "failed"]
  <2>1. /\ run[r].pc = "create" /\ Fault /\ Move(r, h) /\ UNCHANGED <<client, stores>>
    BY <1>3 DEF CreateFails
  <2>2. h \in Handler /\ h.pc = "failed"
    BY <1>0 DEF Handler
  <2> HIDE DEF h
  <2> QED BY <1>0, <1>b, <2>1, <2>2, MoveStep
<1>4. ASSUME NEW pcs, Finish(r, pcs), run[r].pc # "none", run[r].pc # "done",
             UNCHANGED <<read, reader, reads, notes>>, mailed \subseteq mailed', mailed' \subseteq mailed \cup {r},
             audited \subseteq audited', audited' \subseteq audited \cup {r}, r \in audited' => r \in audited \/ r[2] = 2,
             r[2] = 1 => /\ \A u \in plan.users : <<r, u>> \in notes
                         /\ plan.admins /\ faults = 0 => \A u \in Admins : <<r, u>> \in notes
                         /\ plan.mail => r \in mailed' \/ run[r].try > Len(Pauses),
             r[2] = 2 => r \in audited'
      PROVE  ConsumersInv'
  <2> DEFINE h == [run[r] EXCEPT !.pc = "complete"]
  <2>1. /\ Move(r, h) /\ UNCHANGED faults
        /\ UNCHANGED client \/ (Awaited(r) /\ Apply(r[3]))
    BY <1>4, Zenon DEF Finish
  <2>2. h \in Handler /\ h.pc = "complete" /\ h.try = run[r].try
    BY <1>0, PcTyped DEF Pcs
  <2> HIDE DEF h
  <2>3. plan' = plan /\ run'[r] = h
    BY <1>0, <1>a, <2>1, <2>2, MoveFields
  <2>6. notes' = notes /\ faults' = faults /\ run'[r].try = run[r].try
    BY <1>4, <2>1, <2>2, <2>3
  <2>7. r[2] = 1 => Informed(r)'
    BY <1>4, <2>3, <2>6 DEF Informed
  <2>8. r[2] = 1 => Told(r)'
    BY <1>4, <2>3, <2>6 DEF Told
  <2>4. r[2] = 1 => Informed(r)' /\ Told(r)'
    BY <2>7, <2>8
  <2>5. UNCHANGED client
        \/ (Awaited(r) /\ (Apply(r[3]) \/ Break(r[3]) \/ \E s \in Answers : Answer(r[3], s)))
    BY <2>1, Zenon
  <2> QED BY <1>0, <1>4, <1>b, <2>1, <2>2, <2>4, <2>5, MoveStep
<1>5. CASE Notified(r)
  <2>1. run[r].pc = "create" /\ run[r].todo = {} /\ UNCHANGED stores
    BY <1>5 DEF Notified
  <2>2. /\ r[2] = 1
        /\ \A u \in plan.users : <<r, u>> \in notes
        /\ plan.admins /\ faults = 0 => \A u \in Admins : <<r, u>> \in notes
    BY <1>0, <2>1 DEF RunInv, Informed
  <2>3. CASE plan.mail
    <3> DEFINE h == [run[r] EXCEPT !.pc = "mail"]
    <3>1. Move(r, h) /\ UNCHANGED <<client, faults>>
      BY <1>5, <2>3, Zenon DEF Notified
    <3>2. h \in Handler /\ h.pc = "mail"
      BY <1>0, PcTyped DEF Pcs
    <3> HIDE DEF h
    <3>3. plan' = plan /\ run'[r] = h
      BY <1>0, <1>a, <3>1, <3>2, MoveFields
    <3>4. Informed(r)'
      BY <2>1, <2>2, <3>1, <3>3 DEF Informed
    <3> QED BY <1>0, <1>b, <2>1, <2>2, <3>1, <3>2, <3>4, MoveStep
  <2>4. CASE ~ plan.mail
    <3>1. Finish(r, {"create"})
      BY <1>5, <2>4, Zenon DEF Notified
    <3> QED BY <1>4, <2>1, <2>2, <2>4, <3>1
  <2> QED BY <2>3, <2>4
<1>6. CASE Mail(r) \/ NoMail(r)
  <2>1. /\ run[r].pc = "mail" /\ Finish(r, {"mail"}) /\ UNCHANGED <<notes, read, reader, audited, reads>>
        /\ \/ mailed' = mailed \cup {r}
           \/ mailed' = mailed /\ run[r].try > Len(Pauses)
    BY <1>6, Zenon DEF Mail, NoMail, MayMail
  <2>2. /\ r[2] = 1
        /\ \A u \in plan.users : <<r, u>> \in notes
        /\ plan.admins /\ faults = 0 => \A u \in Admins : <<r, u>> \in notes
    BY <1>0, <2>1 DEF RunInv, Informed
  <2> QED BY <1>4, <2>1, <2>2
<1>7. CASE MailFails(r)
  <2> DEFINE h == [run[r] EXCEPT !.wait = Pauses[run[r].try], !.try = @ + 1]
  <2>1. /\ run[r].pc = "mail" /\ run[r].try <= Len(Pauses) /\ Move(r, h) /\ UNCHANGED <<client, stores, faults>>
    BY <1>7 DEF MailFails, MayMail
  <2>2. Pauses[run[r].try] \in Nat /\ run[r].try + 1 \in 1 .. Len(Pauses) + 1
    BY <1>0, <2>1, ConsumerAssumption
  <2>3. h \in Handler /\ h.pc = "mail"
    BY <1>0, <2>1, <2>2, PauseTyped
  <2> HIDE DEF h
  <2>4. plan' = plan /\ run'[r] = h
    BY <1>0, <1>a, <2>1, <2>3, MoveFields
  <2>5. r[2] = 1 /\ Informed(r)
    BY <1>0, <2>1 DEF RunInv
  <2>6. Informed(r)'
    BY <2>1, <2>4, <2>5 DEF Informed
  <2> QED BY <1>0, <1>b, <2>1, <2>3, <2>5, <2>6, MoveStep
<1>8. CASE AppendRecord(r)
  <2>1. /\ r[2] = 2 /\ run[r].pc = "sent" /\ audited' = audited \cup {r} /\ Finish(r, {"sent"})
        /\ UNCHANGED <<notes, read, reader, mailed, reads>>
    BY <1>8 DEF AppendRecord
  <2> QED BY <1>4, <2>1
<1>9. CASE AppendFails(r)
  <2> DEFINE h == [run[r] EXCEPT !.pc = "failed"]
  <2>1. /\ r[2] = 2 /\ run[r].pc = "sent" /\ Fault /\ Move(r, h) /\ UNCHANGED <<client, stores>>
    BY <1>9 DEF AppendFails
  <2>2. h \in Handler /\ h.pc = "failed"
    BY <1>0, PcTyped DEF Pcs
  <2> HIDE DEF h
  <2> QED BY <1>0, <1>b, <2>1, <2>2, MoveStep
<1>10. CASE Respond(r)
  <2> DEFINE h == [run[r] EXCEPT !.pc = "done"]
  <2>1. /\ run[r].pc \in {"complete", "failed"} /\ Move(r, h) /\ UNCHANGED <<stores, faults>>
        /\ \/ Awaited(r) /\ Answer(r[3], IF run[r].pc = "complete" THEN "2xx" ELSE "5xx")
           \/ UNCHANGED client
    BY <1>10, Zenon DEF Respond
  <2>2. h \in Handler /\ h.pc = "done" /\ h.try = run[r].try
    BY <1>0, PcTyped DEF Pcs
  <2> HIDE DEF h
  <2>3. wire[r[3]] = "sent" /\ wire'[r[3]] = "2xx" => run[r].pc = "complete"
    <3>1. CASE run[r].pc = "failed" /\ Awaited(r)
      <4>1. Answer(r[3], "5xx") \/ UNCHANGED client
        BY <2>1, <3>1
      <4> QED BY <1>0, <4>1 DEF Answer, client
    <3>2. CASE run[r].pc = "failed" /\ ~ Awaited(r)
      BY <2>1, <3>2 DEF client
    <3> QED BY <2>1, <3>1, <3>2
  <2>4. UNCHANGED client
        \/ (Awaited(r) /\ (Apply(r[3]) \/ Break(r[3]) \/ \E s \in Answers : Answer(r[3], s)))
    BY <2>1, Zenon DEF Answers
  <2> QED BY <1>0, <2>1, <2>2, <2>3, <2>4, MoveStep
<1>11. CASE Dies(r)
  <2> DEFINE h == [run[r] EXCEPT !.pc = "done", !.todo = {}]
  <2>1. /\ run[r].pc \notin {"none", "done"} /\ Fault /\ Move(r, h) /\ UNCHANGED stores
        /\ (Awaited(r) /\ Break(r[3])) \/ UNCHANGED client
    BY <1>11, Zenon DEF Dies
  <2>2. h \in Handler /\ h.pc = "done"
    BY <1>0 DEF Handler
  <2> HIDE DEF h
  <2>3. ~ (wire[r[3]] = "sent" /\ wire'[r[3]] = "2xx")
    BY <1>0, <2>1 DEF Break, client
  <2>4. UNCHANGED client
        \/ (Awaited(r) /\ (Apply(r[3]) \/ Break(r[3]) \/ \E s \in Answers : Answer(r[3], s)))
    BY <2>1, Zenon
  <2> QED BY <1>0, <2>1, <2>2, <2>3, <2>4, MoveStep
<1> QED BY <1>1, <1>2, <1>3, <1>5, <1>6, <1>7, <1>8, <1>9, <1>10, <1>11, Zenon DEF Consume

(* Steps of the worker, of readers and of the clock write nothing that the *)
(* handlers write, and move no handler.                                    *)
LEMMA OthersStay ==
  ASSUME ConsumersInv, event'.type = event.type, UNCHANGED <<notes, mailed, audited, faults>>,
         NEW S \in SUBSET Requests,
         \A s \in S : run'[s].pc = run[s].pc /\ run'[s].try = run[s].try /\ run'[s].todo = run[s].todo,
         \A s \in Requests \ S : run[s].pc = "none",
         \A s \in S : Begun(s) => Begun(s)',
         \A s \in S : to' # 0 /\ s[1] = event'.attempts + 1 /\ s[2] = to' /\ wire'[s[3]] = "2xx" =>
                       to' = to /\ event'.attempts = event.attempts /\ wire[s[3]] = "2xx"
  PROVE  (\A s \in S : RunInv(s)') /\ (SomeTold => SomeTold')
<1>1. plan' = plan /\ Grows
  BY PlanKept DEF Grows
<1>2. SomeTold => SomeTold'
  <2> SUFFICES ASSUME NEW s \in Requests, s[2] = 1, run[s].pc = "done", Told(s) PROVE SomeTold'
    BY DEF SomeTold
  <2>1. s \in S /\ run'[s].pc = "done" /\ run'[s].try = run[s].try
    OBVIOUS
  <2>2. Told(s)'
    BY <1>1, <2>1, ToldKept
  <2> QED BY <2>1, <2>2 DEF SomeTold
<1>3. ASSUME NEW s \in S PROVE RunInv(s)'
  <2>1. RunInv(s) /\ s \in Requests
    BY DEF ConsumersInv
  <2>2. Told(s) => Told(s)'
    BY <1>1, <2>1, ToldKept
  <2>3. Informed(s) => Informed(s)'
    BY <1>1, <2>1 DEF Informed
  <2> QED BY <1>2, <2>1, <2>2, <2>3 DEF RunInv
<1> QED BY <1>2, <1>3

(* A request that is sent gets a handler that has done nothing yet.        *)
LEMMA SentStep ==
  ASSUME ConsumersInv, NEW r \in Requests, run[r].pc = "none", run' = [run EXCEPT ![r].pc = "sent"],
         event' = event, UNCHANGED <<notes, mailed, audited, faults>>,
         \A s \in Requests : Begun(s) => Begun(s)', Begun(r)', r[2] = 2 => SomeTold,
         \A s \in Requests : to' # 0 /\ s[1] = event.attempts + 1 /\ s[2] = to' /\ wire'[s[3]] = "2xx" =>
                              to' = to /\ wire[s[3]] = "2xx",
         wire'[r[3]] # "2xx"
  PROVE  run' \in [Requests -> Handler] /\ (\A s \in Requests : RunInv(s)') /\ (SomeTold => SomeTold')
<1> DEFINE h == [run[r] EXCEPT !.pc = "sent"]
<1>1. run \in [Requests -> Handler] /\ run[r] \in Handler
  BY DEF ConsumersInv, ConsumersTypeOK
<1>2. h \in Handler /\ h.pc = "sent"
  BY <1>1, PcTyped DEF Pcs
<1>3. run' = [run EXCEPT ![r] = h]
  OBVIOUS
<1> HIDE DEF h
<1>4. run' \in [Requests -> Handler] /\ run'[r] = h /\ \A s \in Requests \ {r} : run'[s] = run[s]
  BY <1>1, <1>2, <1>3
<1>5. (\A s \in Requests \ {r} : RunInv(s)') /\ (SomeTold => SomeTold')
  <2> DEFINE S == Requests \ {r}
  <2>1. /\ S \in SUBSET Requests
        /\ \A s \in S : run'[s].pc = run[s].pc /\ run'[s].try = run[s].try /\ run'[s].todo = run[s].todo
        /\ \A s \in Requests \ S : run[s].pc = "none"
        /\ \A s \in S : Begun(s) => Begun(s)'
        /\ \A s \in S : to' # 0 /\ s[1] = event'.attempts + 1 /\ s[2] = to' /\ wire'[s[3]] = "2xx" =>
                         to' = to /\ event'.attempts = event.attempts /\ wire[s[3]] = "2xx"
    BY <1>4
  <2> HIDE DEF S
  <2>2. (\A s \in S : RunInv(s)') /\ (SomeTold => SomeTold')
    BY <2>1, OthersStay
  <2> QED BY <2>2 DEF S
<1>6. RunInv(r)'
  BY <1>2, <1>4, <1>5 DEF RunInv
<1> QED BY <1>4, <1>5, <1>6

(* A call that the client has resolved was done by a handler.              *)
LEMMA ResolvedDone ==
  ASSUME ConsumersInv, to # 0, pc = "resolved"
  PROVE  (to = 1 => SomeTold) /\ (to = 2 => audited # {})
<1> DEFINE r == <<event.attempts + 1, to, attempt>>
<1>1. ConsumersTypeOK /\ EventInv /\ attempt \in Attempts /\ MAX_ATTEMPTS \in Nat
  BY ConsumerAssumption DEF ConsumersInv, ConsumersTypeOK, TypeOK
<1>2. event.attempts + 1 \in 1 .. MAX_ATTEMPTS /\ to \in {1, 2} /\ wire[attempt] = "2xx"
  BY <1>1 DEF EventInv, ConsumersTypeOK
<1>3. r \in Requests /\ r[1] = event.attempts + 1 /\ r[2] = to /\ r[3] = attempt
  BY <1>1, <1>2, RequestParts
<1> HIDE DEF r
<1>4. /\ run[r].pc = "done"
      /\ to = 1 => Told(r)
      /\ to = 2 => r \in audited
  BY <1>2, <1>3 DEF ConsumersInv, RunInv
<1> QED BY <1>3, <1>4 DEF SomeTold

(* The worker's call of a service.                                         *)
LEMMA CallStepKept ==
  ASSUME ConsumersInv, NEW k \in {1, 2}, Call(k), event.status = "pending",
         k = 1 => to = 0, k = 2 => to = 1 /\ pc = "resolved"
  PROVE  ConsumersInv'
<1> USE DEF stores
<1>1. ConsumersTypeOK /\ EventInv /\ MAX_ATTEMPTS \in Nat /\ event.attempts \in Nat
  BY ConsumerAssumption DEF ConsumersInv, ConsumersTypeOK
<1>2. event.attempts + 1 \in 1 .. MAX_ATTEMPTS
  BY <1>1 DEF EventInv, ConsumersTypeOK
<1>3. PICK r \in Requests : r = <<event.attempts + 1, k, 1>> /\ r[1] = event.attempts + 1 /\ r[2] = k /\ r[3] = 1
  BY <1>2, RequestParts DEF Attempts
<1>4. /\ to' = k /\ NewCall /\ run' = [run EXCEPT ![r].pc = "sent"]
      /\ UNCHANGED <<event, stores, faults, prompt>>
  BY <1>3 DEF Call
<1>5. /\ pc' = "waiting" /\ wire'[1] = "sent" /\ \A i \in Attempts : wire'[i] # "2xx"
      /\ TypeOK' /\ CallInv'
  BY <1>4, NewCallStarts DEF NewCall, Attempts
<1>a. to \in 0 .. 2 /\ \A s \in Requests : s[1] \in Nat /\ s[2] \in {1, 2} /\ s[3] \in Attempts
  BY <1>1, RequestParts DEF ConsumersTypeOK
<1>6. run[r].pc = "none"
  <2>1. ~ Begun(r)
    BY <1>1, <1>3, <1>a DEF Begun
  <2> QED BY <1>3, <2>1 DEF ConsumersInv, RunInv
<1>7. ASSUME NEW s \in Requests, Begun(s) PROVE Begun(s)'
  <2>1. s[1] <= event.attempts \/ (s[1] = event.attempts + 1 /\ s[2] < k)
    BY <1>1, <1>a, <1>7 DEF Begun
  <2> QED BY <1>4, <2>1 DEF Begun
<1>8. Begun(r)'
  BY <1>1, <1>3, <1>4, <1>5 DEF Begun
<1>9. k = 2 => SomeTold
  BY ResolvedDone
<1>11. run' \in [Requests -> Handler] /\ (\A s \in Requests : RunInv(s)') /\ (SomeTold => SomeTold')
  BY <1>3, <1>4, <1>5, <1>6, <1>7, <1>8, <1>9, <1>a, SentStep
<1>12. ConsumersTypeOK'
  BY <1>1, <1>4, <1>5, <1>11 DEF ConsumersTypeOK
<1>13. EventInv'
  BY <1>1, <1>4, <1>5, <1>9, <1>11 DEF EventInv, CallInv
<1> QED BY <1>11, <1>12, <1>13 DEF ConsumersInv

(* The end of a delivery.                                                  *)
LEMMA CloseStep ==
  ASSUME ConsumersInv, Succeed \/ GiveUp
  PROVE  ConsumersInv'
<1> USE DEF stores
<1>1. ConsumersTypeOK /\ EventInv /\ MAX_ATTEMPTS \in Nat /\ event.attempts \in Nat /\ to # 0
      /\ event \in [type : Types, status : {"pending", "delivered", "failed"}, attempts : 0 .. MAX_ATTEMPTS]
  BY ConsumerAssumption DEF ConsumersInv, ConsumersTypeOK, Succeed, GiveUp
<1>2. event.status = "pending" /\ event.attempts < MAX_ATTEMPTS
  BY <1>1 DEF EventInv
<1>3. PICK status \in {"pending", "delivered", "failed"}, attempts \in 0 .. MAX_ATTEMPTS :
        /\ Close(status, attempts)
        /\ status = "pending" => attempts < MAX_ATTEMPTS
        /\ status = "delivered" => attempts = event.attempts /\ audited # {}
        /\ status # "delivered" => attempts = event.attempts + 1
  <2>1. CASE Succeed
    <3>1. Close("delivered", event.attempts) /\ audited # {}
      BY <1>1, <2>1, ResolvedDone DEF Succeed
    <3> QED BY <1>1, <1>2, <3>1
  <2>2. CASE GiveUp
    <3>1. Close(IF event.attempts + 1 >= MAX_ATTEMPTS THEN "failed" ELSE "pending", event.attempts + 1)
      BY <2>2 DEF GiveUp
    <3>2. event.attempts + 1 \in 0 .. MAX_ATTEMPTS
      BY <1>1, <1>2
    <3>3. CASE event.attempts + 1 >= MAX_ATTEMPTS
      <4>1. Close("failed", event.attempts + 1)
        BY <3>1, <3>3
      <4> QED BY <3>2, <4>1
    <3>4. CASE ~ (event.attempts + 1 >= MAX_ATTEMPTS)
      <4>1. Close("pending", event.attempts + 1)
        BY <3>1, <3>4
      <4> QED BY <1>1, <3>2, <3>4, <4>1
    <3> QED BY <3>3, <3>4
  <2> QED BY <2>1, <2>2
<1>4. /\ to' = 0 /\ event' = [event EXCEPT !.status = status, !.attempts = attempts]
      /\ UNCHANGED <<client, run, stores, faults, prompt>>
  BY <1>3 DEF Close
<1>5. /\ event' \in [type : Types, status : {"pending", "delivered", "failed"}, attempts : 0 .. MAX_ATTEMPTS]
      /\ event'.type = event.type /\ event'.status = status /\ event'.attempts = attempts
  BY <1>1, <1>4
<1>6. \A s \in Requests : s[1] \in Nat
  BY RequestParts
<1>7. ASSUME NEW s \in Requests, Begun(s) PROVE Begun(s)'
  BY <1>1, <1>2, <1>3, <1>4, <1>5, <1>6, <1>7 DEF Begun
<1>8. (\A s \in Requests : RunInv(s)') /\ (SomeTold => SomeTold')
  BY <1>4, <1>5, <1>7, OthersStay
<1>9. TypeOK' /\ NeverTwoAtOnce'
  BY <1>1, <1>4 DEF ConsumersTypeOK, TypeOK, EventInv, NeverTwoAtOnce, client
<1>10. ConsumersTypeOK'
  BY <1>1, <1>4, <1>5, <1>9 DEF ConsumersTypeOK
<1>11. EventInv'
  BY <1>1, <1>3, <1>4, <1>5, <1>8, <1>9 DEF EventInv
<1> QED BY <1>8, <1>10, <1>11 DEF ConsumersInv

(* A step of the client, the one that sends the second request included.   *)
LEMMA ClientStepKept ==
  ASSUME ConsumersInv, ClientStep
  PROVE  ConsumersInv'
<1> USE DEF stores
<1>1. /\ ConsumersTypeOK /\ EventInv /\ TypeOK /\ CallInv /\ to # 0 /\ event.status = "pending"
      /\ to \in {1, 2} /\ event.attempts + 1 \in 1 .. MAX_ATTEMPTS /\ event.attempts \in Nat
      /\ UNCHANGED <<event, to, stores, faults, prompt>>
  <2>1. /\ ConsumersTypeOK /\ EventInv /\ TypeOK /\ to # 0 /\ UNCHANGED <<event, to, stores, faults, prompt>>
    BY DEF ConsumersInv, ConsumersTypeOK, ClientStep
  <2>2. event.status = "pending" /\ event.attempts < MAX_ATTEMPTS /\ CallInv
    BY <2>1 DEF EventInv
  <2> QED BY <2>1, <2>2, ConsumerAssumption DEF ConsumersTypeOK
<1>2. Next /\ TypeOK' /\ CallInv' /\ NeverTwoAtOnce'
  <2>1. Next
    BY Zenon DEF ClientStep, Next, Caller
  <2>2. TypeOK' /\ CallInv'
    BY <1>1, <2>1, CallTypeStep, CallStep
  <2> QED BY <2>1, <2>2 DEF CallInv
<1>3. CASE (Resolve \/ Retry \/ Reject) /\ UNCHANGED run
  <2>1. /\ wire' = wire /\ attempt' = attempt /\ run' = run
        /\ pc' = "resolved" => wire[attempt] = "2xx"
    BY <1>3 DEF Resolve, Retry, Reject, Settle
  <2>2. \A s \in Requests : Begun(s) => Begun(s)'
    BY <1>1, <2>1 DEF Begun
  <2>3. (\A s \in Requests : RunInv(s)') /\ (SomeTold => SomeTold')
    BY <1>1, <2>1, <2>2, OthersStay
  <2>4. ConsumersTypeOK' /\ EventInv'
    BY <1>1, <1>2, <2>1, <2>3 DEF ConsumersTypeOK, EventInv
  <2> QED BY <2>3, <2>4 DEF ConsumersInv
<1>4. CASE Resend /\ run' = [run EXCEPT ![Request(2)].pc = "sent"]
  <2>1. PICK r \in Requests :
          r = <<event.attempts + 1, to, 2>> /\ r[1] = event.attempts + 1 /\ r[2] = to /\ r[3] = 2
    BY <1>1, RequestParts DEF Attempts
  <2>2. /\ run' = [run EXCEPT ![r].pc = "sent"] /\ pc' = "waiting"
        /\ wire[2] = "unsent" /\ wire' = [wire EXCEPT ![2] = "sent"] /\ wire[1] = "5xx"
    BY <1>1, <1>4, <2>1 DEF Resend, Request, CallInv, TimeInv
  <2>3. /\ wire'[2] = "sent" /\ wire'[1] = wire[1]
        /\ \A s \in Requests : s[1] \in Nat /\ s[3] \in {1, 2}
    BY <1>1, <2>2, RequestParts DEF TypeOK, Attempts
  <2>4. run[r].pc = "none"
    <3>1. ~ Begun(r)
      BY <1>1, <2>1, <2>2 DEF Begun
    <3> QED BY <2>1, <3>1 DEF ConsumersInv, RunInv
  <2>5. ASSUME NEW s \in Requests, Begun(s) PROVE Begun(s)'
    <3>1. wire[s[3]] # "unsent" => wire'[s[3]] # "unsent"
      BY <2>2, <2>3
    <3> QED BY <1>1, <2>5, <3>1 DEF Begun
  <2>6. Begun(r)'
    BY <1>1, <2>1, <2>3 DEF Begun
  <2>7. r[2] = 2 => SomeTold
    BY <1>1, <2>1 DEF EventInv
  <2>8. \A s \in Requests : wire'[s[3]] = "2xx" => wire[s[3]] = "2xx"
    BY <2>3
  <2>9. run' \in [Requests -> Handler] /\ (\A s \in Requests : RunInv(s)') /\ (SomeTold => SomeTold')
    BY <1>1, <2>1, <2>2, <2>3, <2>4, <2>5, <2>6, <2>7, <2>8, SentStep
  <2>10. ConsumersTypeOK' /\ EventInv'
    BY <1>1, <1>2, <2>2, <2>9 DEF ConsumersTypeOK, EventInv
  <2> QED BY <2>9, <2>10 DEF ConsumersInv
<1> QED BY <1>3, <1>4, Zenon DEF ClientStep

(* Readers mark notifications, and the clock runs.                         *)
LEMMA ReadersStep ==
  ASSUME ConsumersInv, (\E u \in Readers : QueryUnread(u)) \/ MarkAll \/ MarkRead \/ UNCHANGED all
  PROVE  ConsumersInv'
<1> USE DEF stores
<1>1. /\ ConsumersTypeOK /\ EventInv
      /\ UNCHANGED <<client, event, to, run, notes, audited, mailed, faults, prompt>>
  BY DEF ConsumersInv, QueryUnread, MarkAll, MarkRead, all
<1>2. /\ read' \subseteq notes /\ reader' \subseteq notes /\ reads' \in 0 .. MaxReads
  <2>1. CASE \E u \in Readers : QueryUnread(u)
    BY <1>1, <2>1, ConsumerAssumption DEF QueryUnread, Unread, ConsumersTypeOK
  <2>2. CASE MarkAll \/ MarkRead
    BY <1>1, <2>2 DEF MarkAll, MarkRead, ConsumersTypeOK
  <2>3. CASE UNCHANGED all
    BY <1>1, <2>3 DEF all, ConsumersTypeOK
  <2> QED BY <2>1, <2>2, <2>3
<1>3. /\ TypeOK' /\ NeverTwoAtOnce' /\ wire' = wire /\ pc' = pc /\ attempt' = attempt
      /\ CallInv => CallInv'
  BY <1>1 DEF client, ConsumersTypeOK, EventInv, TypeOK, CallInv, TimeInv, NeverTwoAtOnce, ResolvedMeansApplied
<1>4. (\A s \in Requests : RunInv(s)') /\ (SomeTold => SomeTold')
  <2>1. \A s \in Requests : Begun(s) => Begun(s)'
    BY <1>1, <1>3 DEF Begun
  <2> QED BY <1>1, <1>3, <2>1, OthersStay
<1>5. ConsumersTypeOK' /\ EventInv'
  BY <1>1, <1>2, <1>3, <1>4 DEF ConsumersTypeOK, EventInv
<1> QED BY <1>4, <1>5 DEF ConsumersInv

(* The clock moves no handler on.                                          *)
LEMMA ClockStep ==
  ASSUME ConsumersInv, Clock
  PROVE  ConsumersInv'
<1> USE DEF stores
<1>1. ConsumersTypeOK /\ EventInv /\ UNCHANGED <<event, to, stores, faults>>
  BY DEF ConsumersInv, Clock
<1>2. prompt' \in BOOLEAN
  <2>1. prompt' = (prompt /\ (\A r \in Requests : Idle(r)) /\ wire[attempt] \in {"sent", "5xx"})
    BY DEF Clock
  <2> QED BY <2>1, Zenon
<1>3. /\ run' \in [Requests -> Handler]
      /\ \A r \in Requests : run'[r].pc = run[r].pc /\ run'[r].try = run[r].try /\ run'[r].todo = run[r].todo
  <2>1. run' = [r \in Requests |-> [run[r] EXCEPT !.wait = IF @ > 0 THEN @ - 1 ELSE 0]]
    BY DEF Clock
  <2>2. ASSUME NEW r \in Requests
        PROVE  /\ run'[r] \in Handler
               /\ run'[r].pc = run[r].pc /\ run'[r].try = run[r].try /\ run'[r].todo = run[r].todo
    <3>1. PICK w \in Nat : w = IF run[r].wait > 0 THEN run[r].wait - 1 ELSE 0
      BY <1>1 DEF ConsumersTypeOK, Handler
    <3>2. run[r] \in Handler /\ run'[r] = [run[r] EXCEPT !.wait = w]
      BY <1>1, <2>1, <3>1 DEF ConsumersTypeOK
    <3> QED BY <3>2, WaitTyped
  <2> QED BY <2>1, <2>2
<1>4. /\ TypeOK' /\ NeverTwoAtOnce' /\ wire' = wire /\ pc' = pc /\ attempt' = attempt
      /\ to # 0 => CallInv'
  <2>1. CASE to # 0 /\ Tick
    <3>1. TypeOK' /\ CallInv'
      BY <1>1, <2>1, CallTypeStep, CallStep DEF ConsumersTypeOK, EventInv, Next, Caller
    <3> QED BY <2>1, <3>1 DEF Tick, CallInv
  <2>2. CASE to = 0 /\ UNCHANGED client
    BY <1>1, <2>2 DEF client, ConsumersTypeOK, EventInv, TypeOK, NeverTwoAtOnce
  <2> QED BY <2>1, <2>2 DEF Clock
<1>5. (\A s \in Requests : RunInv(s)') /\ (SomeTold => SomeTold')
  <2>1. \A s \in Requests : Begun(s) => Begun(s)'
    BY <1>1, <1>4 DEF Begun
  <2> QED BY <1>1, <1>3, <1>4, <2>1, OthersStay
<1>6. ConsumersTypeOK' /\ EventInv'
  BY <1>1, <1>2, <1>3, <1>4, <1>5 DEF ConsumersTypeOK, EventInv
<1> QED BY <1>5, <1>6 DEF ConsumersInv

(* Every step keeps the invariant.                                         *)
LEMMA ConsumersStep == ConsumersInv /\ [ConsumersNext]_all => ConsumersInv'
<1> SUFFICES ASSUME ConsumersInv, [ConsumersNext]_all PROVE ConsumersInv'
  OBVIOUS
<1>1. CASE Dispatch
  <2>1. CASE to = 0 /\ event.status = "pending" /\ Call(1)
    BY <2>1, CallStepKept
  <2>2. CASE to = 1 /\ pc = "resolved" /\ Call(2)
    <3>1. event.status = "pending"
      BY <2>2 DEF ConsumersInv, EventInv
    <3> QED BY <2>2, <3>1, CallStepKept
  <2> QED BY <1>1, <2>1, <2>2 DEF Dispatch
<1>2. CASE Succeed \/ GiveUp
  BY <1>2, CloseStep
<1>3. CASE ClientStep
  BY <1>3, ClientStepKept
<1>4. CASE Clock
  BY <1>4, ClockStep
<1>5. CASE (\E u \in Readers : QueryUnread(u)) \/ MarkAll \/ MarkRead \/ UNCHANGED all
  BY <1>5, ReadersStep
<1>6. ASSUME NEW r \in Requests, Consume(r) PROVE ConsumersInv'
  BY <1>6, ConsumeStep
<1> QED BY <1>1, <1>2, <1>3, <1>4, <1>5, <1>6, Zenon DEF ConsumersNext, Worker

(* It holds when the event is taken up.                                    *)
LEMMA ConsumersStart == ConsumersInit => ConsumersInv
<1> SUFFICES ASSUME ConsumersInit PROVE ConsumersInv
  OBVIOUS
<1>1. TypeOK /\ NeverTwoAtOnce
  BY ClientAssumption DEF ConsumersInit, TypeOK, NeverTwoAtOnce, Attempts, Answers
<1>2. /\ NoHandler \in Handler /\ NoHandler.pc = "none"
  BY StartingTyped DEF NoHandler, Pcs
<1>3. /\ run \in [Requests -> Handler] /\ \A r \in Requests : run[r].pc = "none"
  BY <1>2 DEF ConsumersInit
<1>4. event \in [type : Types, status : {"pending"}, attempts : {0}] /\ MAX_ATTEMPTS \in Nat \ {0} /\ to = 0
      /\ MaxFaults \in Nat /\ MaxReads \in Nat
  BY ConsumerAssumption DEF ConsumersInit
<1>5. ConsumersTypeOK
  <2>1. event \in [type : Types, status : {"pending", "delivered", "failed"}, attempts : 0 .. MAX_ATTEMPTS]
    BY <1>4
  <2>2. to \in 0 .. 2 /\ faults \in 0 .. MaxFaults /\ reads \in 0 .. MaxReads /\ prompt \in BOOLEAN
    BY <1>4 DEF ConsumersInit
  <2> QED BY <1>1, <1>3, <2>1, <2>2 DEF ConsumersTypeOK, ConsumersInit
<1>6. EventInv
  BY <1>1, <1>4 DEF EventInv, ConsumersInit
<1>7. \A r \in Requests : RunInv(r)
  BY <1>3, <1>4 DEF RunInv
<1> QED BY <1>5, <1>6, <1>7 DEF ConsumersInv

(* The inductive invariant of an event and the calls it is carried by.     *)
THEOREM ConsumersInvariant == ConsumersSpec => []ConsumersInv
  BY ConsumersStart, ConsumersStep, PTL DEF ConsumersSpec

(* A delivered event has told everybody its handler tells, and is on       *)
(* record, and it was told before it was recorded.                         *)
THEOREM DeliveredIsTold == ConsumersSpec => []NotifiedThenAudited
<1>1. ConsumersInv => NotifiedThenAudited
  BY DEF ConsumersInv, EventInv, SomeTold, NotifiedThenAudited
<1> QED BY <1>1, ConsumersInvariant, PTL

(* A consumer never works on two copies of one call at a time.             *)
THEOREM NeverTwoCopies == ConsumersSpec => []NeverTwoAtOnce
<1>1. ConsumersInv => NeverTwoAtOnce
  BY DEF ConsumersInv, EventInv
<1> QED BY <1>1, ConsumersInvariant, PTL

(* What is marked read was listed before.                                  *)
Spares == \A n \in read' \ read : n \in reader

LEMMA SparesStep == [ConsumersNext]_all => [Spares]_all
<1> SUFFICES ASSUME ConsumersNext PROVE Spares
  BY Zenon
<1> USE DEF stores
<1>1. CASE read' = read
  BY <1>1 DEF Spares
<1>2. CASE MarkAll \/ MarkRead
  BY <1>2 DEF MarkAll, MarkRead, Spares
<1>3. CASE Worker \/ Clock \/ \E u \in Readers : QueryUnread(u)
  <2>1. read' = read
    BY <1>3 DEF Worker, Dispatch, Call, Succeed, GiveUp, Close, ClientStep, Clock, QueryUnread
  <2> QED BY <1>1, <2>1
<1>4. ASSUME NEW r \in Requests, Consume(r) PROVE Spares
  <2>1. read' = read
    BY <1>4, Zenon DEF Consume, Receive, Notified, Mail, MailFails, NoMail, AppendRecord, AppendFails,
       Respond, Dies, Create, CreateFails
  <2> QED BY <1>1, <2>1
<1> QED BY <1>2, <1>3, <1>4, Zenon DEF ConsumersNext

(* Marking all as read spares what arrived after the query.                *)
THEOREM NewNotesSpared == ConsumersSpec => SparesNewNotes
<1>1. Spares <=> \A n \in read' \ read : n \in reader
  BY DEF Spares
<1> QED BY <1>1, SparesStep, PTL DEF ConsumersSpec, SparesNewNotes

(* The composition implements the client: a step of worker or consumer is  *)
(* one of a call, or the beginning of the next one.                        *)
LEMMA CallsStep == [ConsumersNext]_all => [Next \/ NewCall]_client
<1> USE DEF client
<1> SUFFICES ASSUME [ConsumersNext]_all PROVE Next \/ NewCall \/ UNCHANGED client
  OBVIOUS
<1>1. CASE Worker
  BY <1>1, Zenon DEF Worker, Dispatch, Call, Succeed, GiveUp, Close, ClientStep, Next, Caller
<1>2. CASE Clock
  BY <1>2, Zenon DEF Clock, Next, Caller
<1>3. CASE MarkAll \/ MarkRead \/ (\E u \in Readers : QueryUnread(u)) \/ UNCHANGED all
  BY <1>3, Zenon DEF MarkAll, MarkRead, QueryUnread, all
<1>4. ASSUME NEW r \in Requests, Consume(r) PROVE Next \/ NewCall \/ UNCHANGED client
  <2>1. r[3] \in Attempts
    BY RequestParts
  <2>2. ASSUME NEW pcs, Finish(r, pcs) PROVE Next \/ UNCHANGED client
    BY <2>1, <2>2, Zenon DEF Finish, Next, Service
  <2>3. CASE Respond(r)
    <3>1. (\E s \in Answers : Answer(r[3], s)) \/ UNCHANGED client
      BY <2>3, Zenon DEF Respond, Answers
    <3> QED BY <2>1, <3>1, Zenon DEF Next, Service
  <2>4. CASE Dies(r)
    BY <2>1, <2>4, Zenon DEF Dies, Next, Service
  <2>5. CASE Notified(r) \/ Mail(r) \/ NoMail(r) \/ AppendRecord(r)
    BY <2>2, <2>5, Zenon DEF Notified, Mail, NoMail, AppendRecord
  <2>6. CASE Receive(r) \/ MailFails(r) \/ AppendFails(r) \/ \E u \in Users : Create(r, u) \/ CreateFails(r, u)
    BY <2>6, Zenon DEF Receive, MailFails, AppendFails, Create, CreateFails
  <2> QED BY <1>4, <2>3, <2>4, <2>5, <2>6, Zenon DEF Consume
<1> QED BY <1>1, <1>2, <1>3, <1>4, Zenon DEF ConsumersNext

(* So the composed system makes only calls of the client.                  *)
THEOREM CallsImplementClient == ConsumersSpec => CallsAsSpecified
  BY CallsStep, PTL DEF ConsumersSpec, CallsAsSpecified
----------------------------------------------------------------------------
\* The steps and ticks a call has yet to take, at most.
CallAhead ==
  IF pc = "waiting" /\ attempt = 1 THEN 3 + Timeout + Backoff + Timeout - elapsed
  ELSE IF pc = "backoff" THEN 2 + Timeout + Backoff - elapsed
  ELSE IF pc = "waiting" THEN 1 + Timeout - elapsed
  ELSE 0

WholeCall == 3 + Timeout + Backoff + Timeout

\* And those of a delivery, which makes two calls.
DeliveryAhead ==
  IF to = 0 THEN IF event.status = "pending" THEN WholeCall + WholeCall + 3 ELSE 0
  ELSE IF to = 1 THEN WholeCall + 2 + CallAhead
  ELSE 1 + CallAhead

\* Where the worker is.
Position == <<event, to, pc, attempt, elapsed>>

Nearer ==
  \/ event'.attempts = event.attempts + 1
  \/ event'.attempts = event.attempts /\ DeliveryAhead' < DeliveryAhead

(* What there is ahead is a number, and a call that has begun is whole.    *)
LEMMA AheadTyped ==
  ASSUME ConsumersInv
  PROVE  /\ elapsed \in Nat /\ CallAhead \in Nat /\ WholeCall \in Nat
         /\ pc = "waiting" => elapsed <= Timeout
         /\ pc = "backoff" => elapsed <= Backoff
         /\ event.attempts \in Nat /\ to \in 0 .. 2 /\ Timeout \in Nat /\ Backoff \in Nat
<1>1. TypeOK /\ event.attempts \in Nat /\ to \in 0 .. 2
  BY DEF ConsumersInv, ConsumersTypeOK
<1> QED BY <1>1, ClientAssumption DEF TypeOK, CallAhead, WholeCall

(* The worker and its timers bring the delivery nearer to its end.         *)
LEMMA WorkerNearer ==
  ASSUME ConsumersInv, Worker \/ (to # 0 /\ Tick /\ UNCHANGED <<event, to>>)
  PROVE  Nearer
<1> USE AheadTyped
<1>1. to # 0 => event.status = "pending" /\ (pc = "backoff" => attempt = 1)
  BY DEF ConsumersInv, EventInv, CallInv, TimeInv
<1>2. CASE to = 0 /\ event.status = "pending" /\ Call(1)
  <2>1. to' = 1 /\ event' = event /\ pc' = "waiting" /\ attempt' = 1 /\ elapsed' = 0
    BY <1>2 DEF Call, NewCall
  <2>2. CallAhead' = WholeCall
    BY <2>1 DEF CallAhead, WholeCall
  <2>3. DeliveryAhead' = WholeCall + 2 + WholeCall /\ DeliveryAhead = WholeCall + WholeCall + 3
    BY <1>2, <2>1, <2>2 DEF DeliveryAhead, WholeCall
  <2> QED BY <2>1, <2>3 DEF Nearer
<1>3. CASE to = 1 /\ pc = "resolved" /\ Call(2)
  <2>1. to' = 2 /\ event' = event /\ pc' = "waiting" /\ attempt' = 1 /\ elapsed' = 0
    BY <1>3 DEF Call, NewCall
  <2>2. CallAhead' = WholeCall /\ CallAhead = 0
    BY <1>3, <2>1 DEF CallAhead, WholeCall
  <2>3. DeliveryAhead' = 1 + WholeCall /\ DeliveryAhead = WholeCall + 2 + 0
    BY <1>3, <2>1, <2>2 DEF DeliveryAhead, WholeCall
  <2> QED BY <2>1, <2>3 DEF Nearer
<1>4. CASE Succeed
  <2>1. to = 2 /\ pc = "resolved" /\ to' = 0 /\ event'.status = "delivered" /\ event'.attempts = event.attempts
    BY <1>4 DEF Succeed, Close, ConsumersInv, ConsumersTypeOK
  <2>2. DeliveryAhead = 1 /\ DeliveryAhead' = 0
    BY <2>1 DEF DeliveryAhead, CallAhead
  <2> QED BY <2>1, <2>2 DEF Nearer
<1>5. CASE GiveUp
  <2>1. event'.attempts = event.attempts + 1
    BY <1>5 DEF GiveUp, Close, ConsumersInv, ConsumersTypeOK
  <2> QED BY <2>1 DEF Nearer
<1>6. CASE to # 0 /\ UNCHANGED <<event, to>> /\ (Resolve \/ Retry \/ Reject \/ Resend \/ Tick)
  <2>1. CallAhead' \in Nat /\ CallAhead' < CallAhead
    <3>1. CASE Resolve \/ Reject
      <4>1. pc = "waiting" /\ pc' \in {"resolved", "rejected"}
        BY <3>1 DEF Resolve, Reject, Settle
      <4> QED BY <4>1 DEF CallAhead
    <3>2. CASE Retry
      <4>1. pc = "waiting" /\ attempt = 1 /\ pc' = "backoff" /\ elapsed' = 0
        BY <3>2 DEF Retry
      <4> QED BY <4>1 DEF CallAhead
    <3>3. CASE Resend
      <4>1. pc = "backoff" /\ elapsed = Backoff /\ pc' = "waiting" /\ attempt' = 2 /\ elapsed' = 0
        BY <3>3 DEF Resend
      <4> QED BY <4>1 DEF CallAhead
    <3>4. CASE Tick
      <4>1. /\ pc' = pc /\ attempt' = attempt /\ elapsed' = elapsed + 1
            /\ (pc = "waiting" /\ elapsed < Timeout) \/ (pc = "backoff" /\ elapsed < Backoff)
        BY <3>4 DEF Tick
      <4> QED BY <4>1 DEF CallAhead
    <3> QED BY <1>6, <3>1, <3>2, <3>3, <3>4
  <2>2. to' = to /\ event' = event /\ to \in {1, 2}
    BY <1>6
  <2> QED BY <2>1, <2>2 DEF Nearer, DeliveryAhead, WholeCall
<1>7. ASSUME ClientStep PROVE to # 0 /\ UNCHANGED <<event, to>> /\ (Resolve \/ Retry \/ Reject \/ Resend \/ Tick)
  BY <1>7, Zenon DEF ClientStep
<1> QED BY <1>2, <1>3, <1>4, <1>5, <1>6, <1>7 DEF Worker, Dispatch

(* Nobody but the worker and its timers moves the delivery, and they only  *)
(* move it on: a delivery takes at most 2 * WholeCall + 3 steps and ticks, *)
(* whatever the services and their handlers do, and is counted if it fails;*)
(* with MAX_ATTEMPTS deliveries the event cannot be at work for ever       *)
(* (index.ts 9, 32-44, processEvent.ts 23-41).                             *)
THEOREM DeliveryEnds ==
  ConsumersSpec => [](DeliveryAhead \in 0 .. 2 * WholeCall + 3) /\ [][Position' # Position => Nearer]_all
<1>1. ConsumersInv => DeliveryAhead \in 0 .. 2 * WholeCall + 3
  <2> SUFFICES ASSUME ConsumersInv PROVE DeliveryAhead \in 0 .. 2 * WholeCall + 3
    OBVIOUS
  <2>1. CallAhead \in Nat /\ CallAhead <= WholeCall
    BY AheadTyped DEF CallAhead, WholeCall
  <2> QED BY <2>1, AheadTyped DEF DeliveryAhead
<1> DEFINE Moves == Position' # Position => Nearer
<1>2. ConsumersInv /\ [ConsumersNext]_all => [Moves]_all
  <2> SUFFICES ASSUME ConsumersInv, ConsumersNext, Position' # Position PROVE Nearer
    OBVIOUS
  <2>1. CASE Worker
    BY <2>1, WorkerNearer
  <2>2. CASE Clock
    <3>1. (to # 0 /\ Tick) \/ UNCHANGED client
      BY <2>2, Zenon DEF Clock
    <3>2. UNCHANGED <<event, to>>
      BY <2>2 DEF Clock
    <3>3. ~ UNCHANGED client
      BY <3>2 DEF client, Position
    <3> QED BY <3>1, <3>2, <3>3, WorkerNearer
  <2>3. CASE MarkAll \/ MarkRead \/ \E u \in Readers : QueryUnread(u)
    BY <2>3 DEF MarkAll, MarkRead, QueryUnread, client, Position
  <2>4. ASSUME NEW r \in Requests, Consume(r) PROVE FALSE
    <3>1. UNCHANGED <<event, to>>
      BY <2>4, Zenon DEF Consume, Receive, Notified, Mail, MailFails, NoMail, AppendRecord, AppendFails,
         Respond, Dies, Create, CreateFails, Finish, Move
    <3>2. UNCHANGED <<pc, attempt, elapsed>>
      <4>1. ASSUME NEW i, Apply(i) \/ Break(i) \/ (\E a : Answer(i, a)) \/ UNCHANGED client
            PROVE  UNCHANGED <<pc, attempt, elapsed>>
        BY <4>1, Zenon DEF Apply, Break, Answer, client
      <4>2. ASSUME NEW pcs, Finish(r, pcs) PROVE UNCHANGED <<pc, attempt, elapsed>>
        BY <4>1, <4>2, Zenon DEF Finish
      <4>3. CASE Respond(r) \/ Dies(r)
        BY <4>1, <4>3, Zenon DEF Respond, Dies
      <4>4. CASE Notified(r) \/ Mail(r) \/ NoMail(r) \/ AppendRecord(r)
        BY <4>1, <4>2, <4>4, Zenon DEF Notified, Mail, NoMail, AppendRecord
      <4>5. CASE \/ Receive(r) \/ MailFails(r) \/ AppendFails(r)
                 \/ \E u \in Users : Create(r, u) \/ CreateFails(r, u)
        BY <4>1, <4>5, Zenon DEF Receive, MailFails, AppendFails, Create, CreateFails
      <4> QED BY <2>4, <4>3, <4>4, <4>5, Zenon DEF Consume
    <3> QED BY <3>1, <3>2 DEF Position
  <2> QED BY <2>1, <2>2, <2>3, <2>4 DEF ConsumersNext
<1> QED BY <1>1, <1>2, ConsumersInvariant, PTL DEF ConsumersSpec
============================================================================
