-------------------------- MODULE EnrollmentProofs --------------------------
(***************************************************************************)
(* Theorems about Enrollment: what holds for any number of concurrent      *)
(* requests, and what holds when requests do not overlap.                  *)
(***************************************************************************)
EXTENDS Enrollment, FiniteSetTheorems, TLAPS

(* Applying an operation to a document, or to none, gives a document of a  *)
(* real state that is dated exactly when it is rejected.                   *)
LEMMA AppliedGood ==
  ASSUME TypeOK, DateInv, NEW op \in Ops, Allowed(op, enrollment)
  PROVE  /\ Applied(op, enrollment) \in Doc
         /\ Applied(op, enrollment).state \in States
         /\ Dated(Applied(op, enrollment))
<1> USE EnrollmentAssumption DEF TypeOK, DateInv, RejectedIffDated, Ops, Doc, States
<1>1. CASE op = "create"
  BY <1>1, SMT DEF Applied, Result, Dated
<1>2. CASE op = "reject"
  BY <1>2, SMT DEF Applied, Result, Dated
<1>3. CASE op \in {"approve", "withdraw"}
  <2>1. enrollment.rejectedAt = 0
    BY <1>3, SMT DEF Allowed, Dated
  <2> QED BY <1>3, <2>1, SMT DEF Applied, Result, Dated
<1> QED BY <1>1, <1>2, <1>3

(* A step keeps the documents, copies, clock and counters typed.           *)
LEMMA TypeStep == TypeOK /\ DateInv /\ [Next]_vars => TypeOK'
<1> SUFFICES ASSUME TypeOK, DateInv, [Next]_vars PROVE TypeOK'
  OBVIOUS
<1> USE EnrollmentAssumption DEF TypeOK, Request, Doc, States, Ops, overlap
<1>1. ASSUME NEW r \in Requests, NEW op \in Ops, Start(r, op) PROVE TypeOK'
  <2>1. alone' \in BOOLEAN
    BY <1>1, Zenon DEF Start
  <2>2. req' \in [Requests -> Request]
    BY <1>1, SMT DEF Start, Goto, NoDoc
  <2>3. UNCHANGED <<enrollment, published, now, writes, events, lastEvent, seen, aborts>>
    BY <1>1 DEF Start
  <2> QED BY <2>1, <2>2, <2>3
<1>2. ASSUME NEW r \in Requests, CheckCourse(r) PROVE TypeOK'
  BY <1>2, SMT DEF CheckCourse, Goto, NoDoc
<1>3. ASSUME NEW r \in Requests, Read(r) PROVE TypeOK'
  <2>1. CASE Allowed(req[r].op, enrollment)
    <3> DEFINE d == Applied(req[r].op, enrollment)
    <3>1. d \in Doc
      BY <2>1, AppliedGood
    <3>2. Goto(r, "write", req[r].op, d)
      BY <1>3, <2>1 DEF Read
    <3> HIDE DEF d
    <3>3. req' \in [Requests -> Request]
      BY <3>1, <3>2, SMT DEF Goto
    <3> QED BY <1>3, <3>3, SMT DEF Read
  <2>2. CASE ~ Allowed(req[r].op, enrollment)
    <3>1. Goto(r, "idle", req[r].op, NoDoc)
      BY <1>3, <2>2 DEF Read
    <3>2. req' \in [Requests -> Request]
      BY <3>1, SMT DEF Goto, NoDoc
    <3> QED BY <1>3, <3>2, SMT DEF Read
  <2> QED BY <2>1, <2>2
<1>4. ASSUME NEW r \in Requests, Write(r) PROVE TypeOK'
  <2>1. req[r].doc.state \in States
    BY <1>4 DEF Write, DateInv, CopyInv
  <2>2. /\ req' \in [Requests -> Request] /\ enrollment' \in Doc
        /\ writes' \in [States -> Nat]
    BY <1>4, <2>1, SMT DEF Write, Goto
  <2>3. seen' \in {seen, req[r].doc} /\ req[r].doc \in Doc
    BY <1>4, SMT DEF Write
  <2>4. UNCHANGED <<published, now, events, lastEvent, alone, aborts>>
    BY <1>4 DEF Write
  <2> QED BY <2>2, <2>3, <2>4
<1>5. ASSUME NEW r \in Requests, Publish(r) PROVE TypeOK'
  <2>1. req[r].doc.state \in States
    BY <1>5 DEF Publish, DateInv, CopyInv
  <2> QED BY <1>5, <2>1, SMT DEF Publish, Goto, NoDoc
<1>6. ASSUME NEW r \in Requests, Abort(r) PROVE TypeOK'
  BY <1>6, SMT DEF Abort, Goto, NoDoc
<1>7. CASE CourseChanges
  <2>1. published' \in BOOLEAN
    BY <1>7, Zenon DEF CourseChanges
  <2>2. UNCHANGED <<enrollment, req, now, writes, events, lastEvent, overlap, aborts>>
    BY <1>7 DEF CourseChanges
  <2> QED BY <2>1, <2>2
<1>8. CASE Tick
  BY <1>8, SMT DEF Tick
<1>9. CASE UNCHANGED vars
  BY <1>9 DEF vars
<1> QED BY <1>1, <1>2, <1>3, <1>4, <1>5, <1>6, <1>7, <1>8, <1>9 DEF Next

(* Dates already judged stay judged while the clock only moves forward.    *)
LEMMA DatedLater ==
  ASSUME TypeOK, TypeOK', now <= now', NEW d \in Doc, Dated(d)
  PROVE  Dated(d)'
  BY SMT DEF Dated, Doc, TypeOK, States

(* A step that changes neither the document nor the clock, and of the      *)
(* requests only r, whose new copy is good or gone, keeps the invariant.   *)
LEMMA OneRequest ==
  ASSUME TypeOK, DateInv, NEW r \in Requests, NEW pc, NEW op, NEW d,
         Goto(r, pc, op, d), now' = now,
         enrollment' = enrollment \/ (enrollment' = req[r].doc /\ req[r].pc = "write"),
         pc \in {"write", "publish"} => d.state \in States /\ Dated(d)
  PROVE  DateInv'
<1> USE DEF TypeOK, Request
<1>1. req' = [req EXCEPT ![r] = [pc |-> pc, op |-> op, doc |-> d]]
  BY DEF Goto
<1>2. ASSUME NEW q \in Requests, req'[q].pc \in {"write", "publish"}
      PROVE  req'[q].doc.state \in States /\ Dated(req[q].doc)'
  <2>1. CASE q = r
    <3>1. req'[r] = [pc |-> pc, op |-> op, doc |-> d]
      BY <1>1
    <3>2. req'[r].pc = pc /\ req'[r].doc = d
      BY <3>1
    <3> QED BY <1>2, <2>1, <3>2 DEF Dated
  <2>2. CASE q # r
    <3>1. req'[q] = req[q]
      BY <1>1, <2>2
    <3> QED BY <1>2, <3>1 DEF Dated, DateInv, CopyInv
  <2> QED BY <2>1, <2>2
<1>3. Dated(enrollment)'
  BY DEF Dated, DateInv, CopyInv, RejectedIffDated
<1> QED BY <1>2, <1>3 DEF DateInv, CopyInv, RejectedIffDated

(* A step keeps document and copies dated exactly when rejected.           *)
LEMMA DateStep == TypeOK /\ DateInv /\ [Next]_vars => DateInv'
<1> SUFFICES ASSUME TypeOK, DateInv, [Next]_vars PROVE DateInv'
  OBVIOUS
<1>1. ASSUME NEW r \in Requests, NEW op \in Ops, Start(r, op) PROVE DateInv'
  <2>1. PICK pc \in {"course", "read"} : Goto(r, pc, op, NoDoc)
    BY <1>1 DEF Start
  <2>2. now' = now /\ enrollment' = enrollment /\ pc \notin {"write", "publish"}
    BY <1>1 DEF Start
  <2> QED BY <2>1, <2>2, OneRequest
<1>2. ASSUME NEW r \in Requests, CheckCourse(r) PROVE DateInv'
  <2>1. PICK pc \in {"read", "idle"} : Goto(r, pc, req[r].op, NoDoc)
    BY <1>2 DEF CheckCourse
  <2>2. now' = now /\ enrollment' = enrollment /\ pc \notin {"write", "publish"}
    BY <1>2 DEF CheckCourse
  <2> QED BY <2>1, <2>2, OneRequest
<1>3. ASSUME NEW r \in Requests, Read(r) PROVE DateInv'
  <2>1. req[r].op \in Ops
    BY DEF TypeOK, Request
  <2>2. now' = now /\ enrollment' = enrollment
    BY <1>3 DEF Read
  <2>3. CASE Allowed(req[r].op, enrollment)
    <3>1. Goto(r, "write", req[r].op, Applied(req[r].op, enrollment))
      BY <1>3, <2>3 DEF Read
    <3>2. /\ Applied(req[r].op, enrollment).state \in States
          /\ Dated(Applied(req[r].op, enrollment))
      BY <2>1, <2>3, AppliedGood
    <3> QED BY <2>2, <3>1, <3>2, OneRequest
  <2>4. CASE ~ Allowed(req[r].op, enrollment)
    <3>1. Goto(r, "idle", req[r].op, NoDoc)
      BY <1>3, <2>4 DEF Read
    <3>2. "idle" \notin {"write", "publish"}
      OBVIOUS
    <3> QED BY <2>2, <3>1, <3>2, OneRequest
  <2> QED BY <2>3, <2>4
<1>4. ASSUME NEW r \in Requests, Write(r) PROVE DateInv'
  <2>1. req[r].doc.state \in States /\ Dated(req[r].doc)
    BY <1>4 DEF Write, DateInv, CopyInv
  <2>2. now' = now /\ enrollment' = req[r].doc /\ req[r].pc = "write"
    BY <1>4 DEF Write
  <2>3. Goto(r, "publish", req[r].op, req[r].doc)
    BY <1>4 DEF Write
  <2> QED BY <2>1, <2>2, <2>3, OneRequest
<1>5. ASSUME NEW r \in Requests, Publish(r) \/ Abort(r) PROVE DateInv'
  <2>1. Goto(r, "idle", req[r].op, NoDoc)
    BY <1>5 DEF Publish, Abort
  <2>2. now' = now /\ enrollment' = enrollment
    BY <1>5 DEF Publish, Abort
  <2>3. "idle" \notin {"write", "publish"}
    OBVIOUS
  <2> QED BY <2>1, <2>2, <2>3, OneRequest
<1>6. CASE CourseChanges
  BY <1>6 DEF CourseChanges, DateInv, CopyInv, RejectedIffDated, Dated
<1>7. CASE Tick
  <2>1. TypeOK'
    BY TypeStep
  <2>4. now <= now'
    BY <1>7, SMT DEF Tick, TypeOK
  <2>2. \A d \in Doc : Dated(d) => Dated(d)'
    BY <2>1, <2>4, DatedLater
  <2>3. enrollment \in Doc /\ \A r \in Requests : req[r].doc \in Doc
    BY DEF TypeOK, Request
  <2>5. enrollment' = enrollment /\ req' = req
    BY <1>7 DEF Tick
  <2>6. Dated(enrollment)'
    BY <2>2, <2>3, <2>5 DEF DateInv, RejectedIffDated, Dated
  <2>7. ASSUME NEW r \in Requests, req[r].pc \in {"write", "publish"}
        PROVE  req[r].doc.state \in States /\ Dated(req[r].doc)'
    <3>1. req[r].doc.state \in States /\ Dated(req[r].doc)
      BY <2>7 DEF DateInv, CopyInv
    <3> QED BY <2>2, <2>3, <2>5, <3>1 DEF Dated
  <2> QED BY <2>5, <2>6, <2>7 DEF DateInv, CopyInv, RejectedIffDated, Dated
<1>8. CASE UNCHANGED vars
  BY <1>8 DEF vars, DateInv, CopyInv, RejectedIffDated, Dated
<1> QED BY <1>1, <1>2, <1>3, <1>4, <1>5, <1>6, <1>7, <1>8 DEF Next

(* Types and dates hold at the start.                                      *)
LEMMA InitGood == Init => TypeOK /\ DateInv
  BY EnrollmentAssumption, SMT
  DEF Init, TypeOK, DateInv, CopyInv, RejectedIffDated, Dated, Request, Doc, NoDoc, Idle,
      States, Ops

(* Document, copies, clock and counters stay typed.                        *)
THEOREM TypeCorrect == Spec => []TypeOK
  BY InitGood, TypeStep, DateStep, PTL DEF Spec

(* The stored document and every copy about to be written carry a date     *)
(* exactly when they are rejected, and none from the future.               *)
THEOREM DatesInvariant == Spec => []DateInv
  BY InitGood, TypeStep, DateStep, PTL DEF Spec

(* The cooloff of a stored rejection can always be judged.                 *)
THEOREM CooloffJudgeable == Spec => []RejectedIffDated
<1>1. DateInv => RejectedIffDated
  BY DEF DateInv
<1> QED BY <1>1, DatesInvariant, PTL
----------------------------------------------------------------------------
(* Requests about to publish a state are finitely many.                    *)
LEMMA PublishingFinite ==
  ASSUME NEW s
  PROVE  IsFiniteSet(Publishing(s)) /\ Cardinality(Publishing(s)) \in Nat
<1>1. Publishing(s) \subseteq Requests
  BY DEF Publishing
<1> QED BY <1>1, FS_Subset, FS_CardinalityType, EnrollmentAssumption

(* A request that goes anywhere but to publishing leaves the others there. *)
LEMMA PublishingShrinks ==
  ASSUME TypeOK, NoPhantomEvents, NEW r \in Requests, NEW pc, NEW op, NEW d,
         Goto(r, pc, op, d), pc # "publish", writes' = writes, events' = events
  PROVE  NoPhantomEvents'
<1> SUFFICES ASSUME NEW s \in States
             PROVE  events[s] + Cardinality(Publishing(s)') <= writes[s]
  BY DEF NoPhantomEvents
<1>1. Publishing(s)' \subseteq Publishing(s)
  <2> SUFFICES ASSUME NEW q \in Requests, req'[q].pc = "publish", req'[q].doc.state = s
               PROVE  req[q].pc = "publish" /\ req[q].doc.state = s
    BY DEF Publishing
  <2>1. req'[r] = [pc |-> pc, op |-> op, doc |-> d]
    BY DEF Goto, TypeOK
  <2>2. req'[r].pc = pc
    BY <2>1
  <2>3. q # r
    BY <2>2
  <2> QED BY <2>3 DEF Goto, TypeOK
<1>2. /\ Cardinality(Publishing(s)') \in Nat /\ Cardinality(Publishing(s)) \in Nat
      /\ Cardinality(Publishing(s)') <= Cardinality(Publishing(s))
  BY <1>1, PublishingFinite, FS_Subset, FS_CardinalityType
<1>3. events[s] + Cardinality(Publishing(s)) <= writes[s]
  BY DEF NoPhantomEvents
<1>4. events[s] \in Nat /\ writes[s] \in Nat
  BY DEF TypeOK
<1> QED BY <1>2, <1>3, <1>4, SMT

(* A step publishes an event only for a write, once per write.             *)
LEMMA PhantomStep == TypeOK /\ DateInv /\ NoPhantomEvents /\ [Next]_vars => NoPhantomEvents'
<1> SUFFICES ASSUME TypeOK, DateInv, NoPhantomEvents, [Next]_vars PROVE NoPhantomEvents'
  OBVIOUS
<1>1. ASSUME NEW r \in Requests, NEW op \in Ops, Start(r, op) PROVE NoPhantomEvents'
  <2>1. PICK pc \in {"course", "read"} : Goto(r, pc, op, NoDoc)
    BY <1>1 DEF Start
  <2>2. writes' = writes /\ events' = events /\ pc # "publish"
    BY <1>1 DEF Start
  <2> QED BY <2>1, <2>2, PublishingShrinks
<1>2. ASSUME NEW r \in Requests, CheckCourse(r) PROVE NoPhantomEvents'
  <2>1. PICK pc \in {"read", "idle"} : Goto(r, pc, req[r].op, NoDoc)
    BY <1>2 DEF CheckCourse
  <2>2. writes' = writes /\ events' = events /\ pc # "publish"
    BY <1>2 DEF CheckCourse
  <2> QED BY <2>1, <2>2, PublishingShrinks
<1>3. ASSUME NEW r \in Requests, Read(r) PROVE NoPhantomEvents'
  <2>1. PICK pc \in {"write", "idle"}, d \in {Applied(req[r].op, enrollment), NoDoc} :
          Goto(r, pc, req[r].op, d)
    BY <1>3 DEF Read
  <2>2. writes' = writes /\ events' = events /\ pc # "publish"
    BY <1>3 DEF Read
  <2> QED BY <2>1, <2>2, PublishingShrinks
<1>4. ASSUME NEW r \in Requests, Write(r) PROVE NoPhantomEvents'
  <2> SUFFICES ASSUME NEW s \in States
               PROVE  events'[s] + Cardinality(Publishing(s)') <= writes'[s]
    BY DEF NoPhantomEvents
  <2>1. req[r].doc.state \in States /\ req[r].pc = "write"
    BY <1>4 DEF Write, DateInv, CopyInv
  <2>2. events[s] \in Nat /\ writes[s] \in Nat /\ events' = events
    BY <1>4 DEF TypeOK, Write
  <2>3. events[s] + Cardinality(Publishing(s)) <= writes[s] /\ Cardinality(Publishing(s)) \in Nat
    BY PublishingFinite DEF NoPhantomEvents
  <2>4. /\ req'[r].pc = "publish" /\ req'[r].doc = req[r].doc
        /\ \A q \in Requests \ {r} : req'[q] = req[q]
    <3>1. req'[r] = [pc |-> "publish", op |-> req[r].op, doc |-> req[r].doc]
      BY <1>4 DEF Write, Goto, TypeOK
    <3> QED BY <1>4, <3>1 DEF Write, Goto, TypeOK
  <2>5. CASE s = req[r].doc.state
    <3>1. Publishing(s)' = Publishing(s) \cup {r} /\ r \notin Publishing(s)
      BY <2>1, <2>4, <2>5 DEF Publishing
    <3>2. Cardinality(Publishing(s)') = Cardinality(Publishing(s)) + 1
      BY <3>1, PublishingFinite, FS_AddElement
    <3>3. writes'[s] = writes[s] + 1
      BY <1>4, <2>1, <2>5 DEF Write, TypeOK
    <3> QED BY <2>2, <2>3, <3>2, <3>3, SMT
  <2>6. CASE s # req[r].doc.state
    <3>1. Publishing(s)' = Publishing(s)
      BY <2>1, <2>4, <2>6 DEF Publishing
    <3>2. writes'[s] = writes[s]
      BY <1>4, <2>6 DEF Write, TypeOK
    <3> QED BY <2>2, <2>3, <3>1, <3>2
  <2> QED BY <2>5, <2>6
<1>5. ASSUME NEW r \in Requests, Publish(r) PROVE NoPhantomEvents'
  <2> SUFFICES ASSUME NEW s \in States
               PROVE  events'[s] + Cardinality(Publishing(s)') <= writes'[s]
    BY DEF NoPhantomEvents
  <2>1. req[r].doc.state \in States /\ req[r].pc = "publish"
    BY <1>5 DEF Publish, DateInv, CopyInv
  <2>2. events[s] \in Nat /\ writes[s] \in Nat /\ writes' = writes
    BY <1>5 DEF TypeOK, Publish
  <2>3. events[s] + Cardinality(Publishing(s)) <= writes[s] /\ Cardinality(Publishing(s)) \in Nat
    BY PublishingFinite DEF NoPhantomEvents
  <2>4. req'[r].pc = "idle" /\ \A q \in Requests \ {r} : req'[q] = req[q]
    <3>1. req'[r] = [pc |-> "idle", op |-> req[r].op, doc |-> NoDoc]
      BY <1>5 DEF Publish, Goto, TypeOK
    <3> QED BY <1>5, <3>1 DEF Publish, Goto, TypeOK
  <2>5. CASE s = req[r].doc.state
    <3>1. Publishing(s)' = Publishing(s) \ {r} /\ r \in Publishing(s)
      BY <2>1, <2>4, <2>5 DEF Publishing
    <3>2. Cardinality(Publishing(s)') = Cardinality(Publishing(s)) - 1
      BY <3>1, PublishingFinite, FS_RemoveElement
    <3>3. events'[s] = events[s] + 1
      BY <1>5, <2>1, <2>5 DEF Publish, TypeOK
    <3> QED BY <2>2, <2>3, <3>2, <3>3, SMT
  <2>6. CASE s # req[r].doc.state
    <3>1. Publishing(s)' = Publishing(s)
      BY <2>1, <2>4, <2>6 DEF Publishing
    <3>2. events'[s] = events[s]
      BY <1>5, <2>6 DEF Publish, TypeOK
    <3> QED BY <2>2, <2>3, <3>1, <3>2
  <2> QED BY <2>5, <2>6
<1>6. ASSUME NEW r \in Requests, Abort(r) PROVE NoPhantomEvents'
  <2>1. Goto(r, "idle", req[r].op, NoDoc) /\ writes' = writes /\ events' = events
    BY <1>6 DEF Abort
  <2> QED BY <2>1, PublishingShrinks
<1>7. CASE CourseChanges \/ Tick \/ UNCHANGED vars
  <2>1. req' = req /\ events' = events /\ writes' = writes
    BY <1>7 DEF CourseChanges, Tick, vars
  <2> QED BY <2>1 DEF NoPhantomEvents, Publishing
<1> QED BY <1>1, <1>2, <1>3, <1>4, <1>5, <1>6, <1>7 DEF Next

(* Every published event is about a write, at most one event for each,     *)
(* however the requests interleave and die.                                *)
THEOREM NoPhantoms == Spec => []NoPhantomEvents
<1>1. Init => NoPhantomEvents
  <2> SUFFICES ASSUME Init, NEW s \in States
               PROVE  events[s] + Cardinality(Publishing(s)) <= writes[s]
    BY DEF NoPhantomEvents
  <2>1. Publishing(s) = {}
    BY DEF Init, Publishing, Idle
  <2>2. Cardinality(Publishing(s)) = 0
    BY <2>1, FS_EmptySet
  <2> QED BY <2>2 DEF Init
<1> QED BY <1>1, InitGood, TypeStep, DateStep, PhantomStep, PTL DEF Spec
----------------------------------------------------------------------------
\* What holds as long as requests do not overlap.
OneAtATime == \A q, r \in Requests : req[q].pc # "idle" /\ req[r].pc # "idle" => q = r

AloneInv == DecisionStands /\ (alone => OneAtATime /\ seen = enrollment)

(* Where a request that moves gets, and that the others stay.              *)
LEMMA GotoMoves ==
  ASSUME TypeOK, NEW q \in Requests, NEW pc, NEW op, NEW d, Goto(q, pc, op, d)
  PROVE  /\ req'[q].pc = pc /\ req'[q].op = op /\ req'[q].doc = d
         /\ \A r \in Requests \ {q} : req'[r] = req[r]
<1>1. req'[q] = [pc |-> pc, op |-> op, doc |-> d]
  BY DEF Goto, TypeOK
<1>2. \A r \in Requests \ {q} : req'[r] = req[r]
  BY DEF Goto, TypeOK
<1> QED BY <1>1, <1>2

(* While requests do not overlap, only the one that moves can be in flight.*)
LEMMA OthersIdle ==
  ASSUME TypeOK, AloneInv, NEW q \in Requests, NEW pc, NEW op, NEW d, Goto(q, pc, op, d),
         alone, req[q].pc # "idle" \/ AllIdle
  PROVE  (\A r \in Requests \ {q} : req'[r].pc = "idle") /\ OneAtATime'
<1>1. \A r \in Requests \ {q} : req'[r].pc = "idle"
  BY GotoMoves DEF AloneInv, OneAtATime, AllIdle
<1> QED BY <1>1 DEF OneAtATime

(* A step of one request that does not end up about to write keeps the     *)
(* invariant, if it leaves the document alone or shows it.                 *)
LEMMA MoveAlone ==
  ASSUME TypeOK, AloneInv, NEW q \in Requests, NEW pc, NEW op, NEW d, Goto(q, pc, op, d),
         alone' => alone /\ (req[q].pc # "idle" \/ AllIdle),
         alone' => seen' = enrollment',
         alone' /\ pc = "write" => Lawful(op, d)'
  PROVE  AloneInv'
<1> SUFFICES ASSUME alone'
             PROVE  /\ OneAtATime' /\ seen' = enrollment'
                    /\ \A r \in Requests : req'[r].pc = "write" => Lawful(req[r].op, req[r].doc)'
  BY DEF AloneInv, DecisionStands
<1>1. (\A r \in Requests \ {q} : req'[r].pc = "idle") /\ OneAtATime'
  BY OthersIdle
<1>2. req'[q].pc = pc /\ req'[q].op = op /\ req'[q].doc = d
  BY GotoMoves
<1> QED BY <1>1, <1>2

(* Alone, a request decides on the document it then writes: every step     *)
(* keeps the decision standing.                                            *)
LEMMA AloneStep == TypeOK /\ DateInv /\ AloneInv /\ [Next]_vars => AloneInv'
<1> SUFFICES ASSUME TypeOK, DateInv, AloneInv, [Next]_vars PROVE AloneInv'
  OBVIOUS
<1> USE DEF overlap
<1>0. alone => seen = enrollment
  BY DEF AloneInv
<1>1. ASSUME NEW q \in Requests, Read(q) PROVE AloneInv'
  <2>1. /\ req[q].pc # "idle" /\ alone' = alone /\ seen' = seen /\ enrollment' = enrollment
        /\ now' = now
    BY <1>1 DEF Read
  <2>2. CASE Allowed(req[q].op, enrollment)
    <3>0. PICK op, d : op = req[q].op /\ d = Applied(op, enrollment)
      OBVIOUS
    <3>1. Goto(q, "write", op, d) /\ Allowed(op, enrollment)
      BY <1>1, <2>2, <3>0 DEF Read
    <3>2. op \in Ops /\ now \in 1 .. MaxTime
      BY <3>0 DEF TypeOK, Request
    <3>3. Lawful(op, d)
      BY <3>0, <3>1, <3>2, EnrollmentAssumption, SMT DEF Lawful, Applied, Ops, Result
    <3>4. Allowed(op, enrollment)
      BY <3>3 DEF Lawful
    <3>5. Allowed(op, enrollment)'
      BY <2>1, <3>4, SMT DEF Allowed, MayCreate
    <3>6. Lawful(op, d)'
      BY <2>1, <3>3, <3>5 DEF Lawful
    <3> QED BY <1>0, <2>1, <3>1, <3>6, MoveAlone
  <2>3. CASE ~ Allowed(req[q].op, enrollment)
    <3>1. Goto(q, "idle", req[q].op, NoDoc)
      BY <1>1, <2>3 DEF Read
    <3> QED BY <1>0, <2>1, <3>1, MoveAlone
  <2> QED BY <2>2, <2>3
<1>2. ASSUME NEW q \in Requests, NEW op \in Ops, Start(q, op) PROVE AloneInv'
  <2>1. PICK pc \in {"course", "read"} : Goto(q, pc, op, NoDoc)
    BY <1>2 DEF Start
  <2>2. seen' = seen /\ enrollment' = enrollment
    BY <1>2 DEF Start
  <2>3. alone' => alone /\ AllIdle
    <3>1. alone' = (alone /\ AllIdle)
      BY <1>2 DEF Start
    <3> QED BY <3>1, Zenon
  <2> QED BY <1>0, <2>1, <2>2, <2>3, MoveAlone
<1>3. ASSUME NEW q \in Requests, CheckCourse(q) PROVE AloneInv'
  <2>1. PICK pc \in {"read", "idle"} : Goto(q, pc, req[q].op, NoDoc)
    BY <1>3 DEF CheckCourse
  <2>2. req[q].pc # "idle" /\ alone' = alone /\ seen' = seen /\ enrollment' = enrollment
    BY <1>3 DEF CheckCourse
  <2> QED BY <1>0, <2>1, <2>2, MoveAlone
<1>4. ASSUME NEW q \in Requests, Write(q) PROVE AloneInv'
  <2>1. /\ Goto(q, "publish", req[q].op, req[q].doc) /\ req[q].pc # "idle" /\ alone' = alone
        /\ alone => seen' = enrollment'
    BY <1>4 DEF Write
  <2> QED BY <2>1, MoveAlone
<1>5. ASSUME NEW q \in Requests, Publish(q) \/ Abort(q) PROVE AloneInv'
  <2>1. /\ Goto(q, "idle", req[q].op, NoDoc) /\ req[q].pc # "idle"
        /\ alone' = alone /\ seen' = seen /\ enrollment' = enrollment
    BY <1>5 DEF Publish, Abort
  <2> QED BY <1>0, <2>1, MoveAlone
<1>6. CASE CourseChanges \/ Tick \/ UNCHANGED vars
  <2>1. /\ req' = req /\ enrollment' = enrollment /\ alone' = alone /\ seen' = seen
    BY <1>6 DEF CourseChanges, Tick, vars
  <2>2. now \in 1 .. MaxTime /\ now' \in 1 .. MaxTime /\ now <= now'
    BY <1>6, EnrollmentAssumption, SMT DEF CourseChanges, Tick, vars, TypeOK
  <2>3. ASSUME NEW r \in Requests, Lawful(req[r].op, req[r].doc)
        PROVE  Lawful(req[r].op, req[r].doc)'
    <3>1. req[r].op \in Ops /\ enrollment \in Doc
      BY DEF TypeOK, Request
    <3>2. Allowed(req[r].op, enrollment) => Allowed(req[r].op, enrollment)'
      BY <2>1, <2>2, <3>1, EnrollmentAssumption, SMT DEF Allowed, MayCreate, Doc
    <3> QED BY <2>1, <2>2, <2>3, <3>1, <3>2, EnrollmentAssumption, SMT DEF Lawful
  <2> QED BY <2>1, <2>3 DEF AloneInv, OneAtATime, DecisionStands
<1> QED BY <1>1, <1>2, <1>3, <1>4, <1>5, <1>6 DEF Next

(* One step of the service is one step of the life, or none, as long as    *)
(* requests do not overlap; and from then on the life is no longer shown.  *)
LEMMA StepFollows ==
  TypeOK /\ DateInv /\ AloneInv /\ [Next]_vars => [Alone!Next]_(Alone!vars)
<1> SUFFICES ASSUME TypeOK, DateInv, AloneInv, [Next]_vars PROVE [Alone!Next]_(Alone!vars)
  OBVIOUS
<1> USE DEF overlap
<1>1. ASSUME NEW r \in Requests, Write(r), alone PROVE Alone!Next
  <2> DEFINE op == req[r].op
  <2>1. Lawful(op, seen') /\ now' = now /\ op \in Ops /\ seen = enrollment
    BY <1>1 DEF Write, AloneInv, DecisionStands, TypeOK, Request
  <2>2. enrollment \in Doc /\ now \in 1 .. MaxTime
    BY DEF TypeOK
  <2> HIDE DEF op
  <2>3. CASE op = "create"
    <3>1. seen'.state = "pending" /\ seen'.rejectedAt = 0
      BY <2>1, <2>3, SMT DEF Lawful, Result
    <3>2. MayCreate(enrollment)
      BY <2>1, <2>3, SMT DEF Lawful, Allowed
    <3>3. enrollment.rejectedAt \in Nat /\ now \in Nat /\ Cooloff \in Nat
      BY <2>2, EnrollmentAssumption, SMT DEF Doc
    <3>4. /\ enrollment.state \in States \cup {"none"}
          /\ enrollment.state = "rejected" => enrollment.rejectedAt # 0
      BY <2>2 DEF Doc, DateInv, RejectedIffDated, Dated
    <3>5. \/ enrollment.state \in {"none", "withdrawn"}
          \/ enrollment.state = "rejected" /\ now - enrollment.rejectedAt >= Cooloff
      BY <3>2, <3>3, <3>4, SMT DEF MayCreate, States
    <3> QED BY <2>1, <3>1, <3>5 DEF Alone!Next, Alone!Apply
  <2>4. CASE op = "approve"
    BY <2>1, <2>4, SMT DEF Lawful, Allowed, Result, Alone!Next, Alone!Approve
  <2>5. CASE op = "reject"
    BY <2>1, <2>5, SMT DEF Lawful, Allowed, Result, Alone!Next, Alone!Reject
  <2>6. CASE op = "withdraw"
    BY <2>1, <2>6, SMT DEF Lawful, Allowed, Result, Alone!Next, Alone!Withdraw
  <2> QED BY <2>1, <2>3, <2>4, <2>5, <2>6 DEF Ops
<1>2. ASSUME NEW r \in Requests, Write(r), ~ alone PROVE UNCHANGED Alone!vars
  BY <1>2 DEF Write, Alone!vars
<1>3. CASE Tick
  BY <1>3, EnrollmentAssumption, SMT DEF Tick, TypeOK, Alone!Next, Alone!Tick
<1>4. ASSUME NEW r \in Requests, NEW op \in Ops,
             Start(r, op) \/ CheckCourse(r) \/ Read(r) \/ Publish(r) \/ Abort(r)
      PROVE  UNCHANGED Alone!vars
  BY <1>4 DEF Start, CheckCourse, Read, Publish, Abort, Alone!vars
<1>5. CASE CourseChanges \/ UNCHANGED vars
  BY <1>5 DEF CourseChanges, vars, Alone!vars
<1>6. "create" \in Ops
  BY DEF Ops
<1> QED BY <1>1, <1>2, <1>3, <1>4, <1>5, <1>6 DEF Next

(* As long as requests do not overlap, the service implements the life of  *)
(* an enrollment, cooloff included, for any cooloff and any deaths.        *)
THEOREM ImplementsLifecycle == Spec => AloneFollowsLifecycle
<1>1. Init => AloneInv /\ Alone!Init
  BY DEF Init, AloneInv, OneAtATime, DecisionStands, Idle, NoDoc, Alone!Init
<1> QED BY <1>1, InitGood, TypeStep, DateStep, AloneStep, StepFollows, PTL
    DEF Spec, AloneFollowsLifecycle, Alone!Spec
----------------------------------------------------------------------------
\* What is told of the document while requests do not overlap and none dies: a request
\* about to publish announces what is stored, and else it has been announced.
ToldInv ==
  alone /\ aborts = 0 =>
    /\ \A r \in Requests : req[r].pc = "publish" => req[r].doc.state = enrollment.state
    /\ (\A r \in Requests : req[r].pc # "publish") => lastEvent = enrollment.state

(* A step of a request that neither stores nor announces leaves it so.     *)
LEMMA ToldStays ==
  ASSUME TypeOK, ToldInv, NEW q \in Requests, NEW pc, NEW op, NEW d, Goto(q, pc, op, d),
         req[q].pc # "publish", pc # "publish", alone' => alone,
         UNCHANGED <<enrollment, lastEvent, aborts>>
  PROVE  ToldInv'
<1>1. /\ req'[q].pc = pc /\ \A r \in Requests \ {q} : req'[r] = req[r]
  BY GotoMoves
<1> QED BY <1>1 DEF ToldInv

(* Every step keeps what was told true.                                    *)
LEMMA ToldStep == TypeOK /\ AloneInv /\ AloneInv' /\ ToldInv /\ [Next]_vars => ToldInv'
<1> SUFFICES ASSUME TypeOK, AloneInv, AloneInv', ToldInv, [Next]_vars PROVE ToldInv'
  OBVIOUS
<1> USE DEF overlap
<1>1. ASSUME NEW q \in Requests, NEW op \in Ops, Start(q, op) PROVE ToldInv'
  <2>1. PICK pc \in {"course", "read"} : Goto(q, pc, op, NoDoc)
    BY <1>1 DEF Start
  <2>2. req[q].pc = "idle" /\ UNCHANGED <<enrollment, lastEvent, aborts>>
    BY <1>1 DEF Start
  <2>3. alone' => alone
    <3>1. alone' = (alone /\ AllIdle)
      BY <1>1 DEF Start
    <3> QED BY <3>1, Zenon
  <2> QED BY <2>1, <2>2, <2>3, ToldStays
<1>2. ASSUME NEW q \in Requests, CheckCourse(q) \/ Read(q) PROVE ToldInv'
  <2>0. PICK pc \in {"read", "idle", "write"} : \E d : Goto(q, pc, req[q].op, d)
    BY <1>2 DEF CheckCourse, Read
  <2>1. PICK d : Goto(q, pc, req[q].op, d)
    BY <2>0
  <2>2. req[q].pc # "publish" /\ UNCHANGED <<enrollment, lastEvent, aborts, alone>>
    BY <1>2 DEF CheckCourse, Read
  <2> QED BY <2>1, <2>2, ToldStays
<1>3. ASSUME NEW q \in Requests, Write(q) PROVE ToldInv'
  <2>1. /\ Goto(q, "publish", req[q].op, req[q].doc) /\ enrollment' = req[q].doc /\ alone' = alone
        /\ aborts' = aborts
    BY <1>3 DEF Write
  <2>2. req'[q].pc = "publish" /\ req'[q].doc = enrollment'
    BY <2>1, GotoMoves
  <2>3. alone' => \A r \in Requests : req'[r].pc # "idle" => r = q
    BY <2>2 DEF AloneInv, OneAtATime
  <2> QED BY <2>2, <2>3 DEF ToldInv
<1>4. ASSUME NEW q \in Requests, Publish(q) PROVE ToldInv'
  <2>1. /\ Goto(q, "idle", req[q].op, NoDoc) /\ lastEvent' = req[q].doc.state /\ req[q].pc = "publish"
        /\ UNCHANGED <<enrollment, alone, aborts>>
    BY <1>4 DEF Publish
  <2>2. req'[q].pc = "idle" /\ \A r \in Requests \ {q} : req'[r] = req[r]
    BY <2>1, GotoMoves
  <2>3. alone /\ aborts = 0 => lastEvent' = enrollment.state
    BY <2>1 DEF ToldInv
  <2>4. alone => \A r \in Requests \ {q} : req'[r].pc = "idle"
    BY <2>1, <2>2 DEF AloneInv, OneAtATime
  <2> QED BY <2>1, <2>2, <2>3, <2>4 DEF ToldInv
<1>5. ASSUME NEW q \in Requests, Abort(q) PROVE ToldInv'
  <2>1. aborts' # 0
    BY <1>5, EnrollmentAssumption DEF Abort, TypeOK
  <2> QED BY <2>1 DEF ToldInv
<1>6. CASE CourseChanges \/ Tick \/ UNCHANGED vars
  BY <1>6 DEF CourseChanges, Tick, vars, ToldInv
<1> QED BY <1>1, <1>2, <1>3, <1>4, <1>5, <1>6 DEF Next

(* The last event is the stored state, for any number of requests.         *)
THEOREM LastToldIsStored == Spec => []LastEventIsState
<1>1. Init => AloneInv /\ ToldInv
  BY DEF Init, AloneInv, OneAtATime, DecisionStands, Idle, NoDoc, ToldInv
<1>2. ToldInv => LastEventIsState
  BY DEF ToldInv, LastEventIsState, AllIdle
<1> QED BY <1>1, <1>2, InitGood, TypeStep, DateStep, AloneStep, ToldStep, PTL DEF Spec
============================================================================
