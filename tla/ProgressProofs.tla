--------------------------- MODULE ProgressProofs ---------------------------
(***************************************************************************)
(* Theorems about Progress for any number of subjects, requests, ticks and *)
(* deaths, and about the percentage of a report.                           *)
(***************************************************************************)
EXTENDS Progress, FiniteSetTheorems, TLAPS

(* Below 2000 subjects the rounded percentage is 100.0 only for a complete *)
(* course, and never more (ComputeCourseProgressUseCase.ts 28-30).         *)
THEOREM PercentIsExactAtTheTop ==
  ASSUME NEW total \in Nat \ {0}, NEW completed \in Nat, total < 2000, completed <= total
  PROVE  /\ Percent(completed, total) <= 1000
         /\ Percent(completed, total) = 1000 <=> completed = total
<1> DEFINE q == Percent(completed, total)
<1>1. q \in Nat /\ 2 * total * q <= 2000 * completed + total
      /\ 2000 * completed + total < 2 * total * q + 2 * total
  <2> DEFINE n == 2000 * completed + total
             d == 2 * total
  <2>1. n \in Nat /\ d \in Nat /\ d > 0 /\ q = n \div d
    BY SMT DEF Percent
  <2> HIDE DEF n, d
  <2>2. q \in Nat /\ d * q <= n /\ n < d * q + d
    <3> HIDE DEF q
    <3> QED BY <2>1, SMT
  <2> QED BY <2>2 DEF n, d
<1> HIDE DEF q
<1>2. q <= 1000
  <2>1. SUFFICES ASSUME q >= 1001 PROVE FALSE
    BY <1>1, SMT
  <2>2. total * (q - 1001) >= 0
    BY <1>1, <2>1, SMT
  <2>3. total * q >= 1001 * total
    BY <1>1, <2>2, SMT
  <2>4. 2 * total * q = 2 * (total * q)
    BY <1>1, SMT
  <2> QED BY <1>1, <2>3, <2>4, SMT
<1>3. ASSUME q = 1000 PROVE completed = total
  BY <1>1, <1>3, SMT
<1>4. ASSUME completed = total PROVE q = 1000
  <2>1. SUFFICES ASSUME q <= 999 PROVE FALSE
    BY <1>1, <1>2, SMT
  <2>2. total * (999 - q) >= 0
    BY <1>1, <2>1, SMT
  <2>3. total * q <= 999 * total
    BY <1>1, <2>2, SMT
  <2>4. 2 * total * q = 2 * (total * q)
    BY <1>1, SMT
  <2> QED BY <1>1, <1>4, <2>3, <2>4, SMT
<1> QED BY <1>2, <1>3, <1>4 DEF q
----------------------------------------------------------------------------
(* The fields of a request and of a document are what they should be.      *)
LEMMA Fields ==
  ASSUME TypeOK, NEW r \in Requests
  PROVE  /\ req[r].op \in Ops /\ req[r].subject \in Subjects /\ req[r].doc \in Doc
         /\ req[r].found \in SUBSET Subjects
         /\ progress[req[r].subject] \in Doc
<1>1. req[r] \in Request
  BY DEF TypeOK
<1>2. req[r].subject \in Subjects
  BY <1>1 DEF Request
<1>3. progress[req[r].subject] \in Doc
  BY <1>2 DEF TypeOK
<1> QED BY <1>1, <1>2, <1>3 DEF Request

(* A request that moves stays a request.                                   *)
LEMMA BecomeTyped ==
  ASSUME TypeOK, NEW r \in Requests, NEW op \in Ops, NEW s \in Subjects, NEW doc \in Doc,
         NEW pc \in {"idle", "read", "upsert", "write", "publish", "query", "delete", "records",
                     "total"},
         NEW found \in SUBSET Subjects, Become(r, pc, op, s, doc, found)
  PROVE  req' \in [Requests -> Request]
<1>1. [pc |-> pc, op |-> op, subject |-> s, doc |-> doc, found |-> found] \in Request
  BY DEF Request
<1> QED BY <1>1 DEF Become, TypeOK

LEMMA NoDocTyped == TypeOK => NoDoc \in Doc
  BY ProgressAssumption, SMT DEF NoDoc, Doc, TypeOK

LEMMA MoveTyped ==
  ASSUME TypeOK, NEW r \in Requests, NEW doc \in Doc,
         NEW pc \in {"idle", "read", "upsert", "write", "publish", "query", "delete", "records",
                     "total"},
         NEW found \in SUBSET Subjects, Move(r, pc, doc, found)
  PROVE  req' \in [Requests -> Request]
<1>1. req[r].op \in Ops /\ req[r].subject \in Subjects
  <2>1. req[r] \in Request
    BY DEF TypeOK
  <2> QED BY <2>1 DEF Request
<1> QED BY <1>1, BecomeTyped DEF Move

(* What an operation makes of a document is a document.                    *)
LEMMA ChangedTyped ==
  ASSUME TypeOK, NEW op \in Ops, NEW d \in Doc
  PROVE  Changed(op, d) \in Doc
<1>1. now \in 0 .. MaxTime
  BY ProgressAssumption, SMT DEF TypeOK
<1> QED BY <1>1, SMT DEF Changed, Doc

\* A request that ends is the idle one.
LEMMA EndTyped ==
  ASSUME TypeOK, NEW r \in Requests, End(r)
  PROVE  req' \in [Requests -> Request] /\ req'[r].pc = "idle"
<1>1. req[r].subject \in Subjects
  <2>1. req[r] \in Request
    BY DEF TypeOK
  <2> QED BY <2>1 DEF Request
<1>2. (CHOOSE s \in Subjects : TRUE) \in Subjects
  BY <1>1
<1>3. Idle \in Request
  BY <1>2, NoDocTyped DEF Idle, Request, Ops
<1> QED BY <1>3 DEF End, TypeOK, Idle

(* The types hold at the start.                                            *)
LEMMA InitTyped == ASSUME Init PROVE TypeOK
<1>1. NoDoc \in Doc
  BY ProgressAssumption, SMT DEF NoDoc, Doc
<1>2. Idle \in Request
  BY <1>1, ProgressAssumption DEF Idle, Request, Ops
<1>3. now \in 1 .. MaxTime /\ begun \in 0 .. MaxRequests /\ aborts \in 0 .. MaxAborts
  BY ProgressAssumption, SMT DEF Init
<1>4. report.completed \subseteq Subjects /\ report.total \in Nat
  BY DEF Init
<1>5. alone \in BOOLEAN /\ steady \in BOOLEAN
  BY DEF Init
<1> QED BY <1>1, <1>2, <1>3, <1>4, <1>5 DEF Init, TypeOK

(* Every step of a request keeps the types.                                *)
LEMMA RequestTyped ==
  ASSUME TypeOK, NEW r \in Requests,
         \/ \E op \in Ops, s \in Subjects : Start(r, op, s)
         \/ Read(r) \/ Upsert(r) \/ Write(r) \/ Publish(r) \/ Query(r)
         \/ Delete(r) \/ Compute(r) \/ Abort(r)
  PROVE  TypeOK'
<1> USE DEF history
<1>1. ASSUME req' \in [Requests -> Request],
             UNCHANGED <<progress, course, report, now, history, alone, begun, aborts>>
      PROVE  TypeOK'
  BY <1>1 DEF TypeOK
<1>2. ASSUME NEW op \in Ops, NEW s \in Subjects, Start(r, op, s) PROVE TypeOK'
  <2>1. PICK pc \in {"read", "query"} : Become(r, pc, op, s, NoDoc, {})
    BY <1>2 DEF Start
  <2>2. req' \in [Requests -> Request]
    BY <2>1, NoDocTyped, BecomeTyped
  <2>3. begun' \in 0 .. MaxRequests
    BY <1>2, ProgressAssumption, SMT DEF Start, TypeOK
  <2>4. alone' \in BOOLEAN
    BY <1>2, Zenon DEF Start
  <2>5. UNCHANGED <<progress, course, report, now, history, aborts>>
    BY <1>2 DEF Start
  <2> QED BY <2>2, <2>3, <2>4, <2>5 DEF TypeOK
<1>3. CASE Read(r)
  <2>1. progress[req[r].subject] \in Doc /\ req[r].op \in Ops
    BY Fields
  <2>2. Changed(req[r].op, progress[req[r].subject]) \in Doc
    BY <2>1, ChangedTyped
  <2>3. End(r) \/ Move(r, "upsert", Changed(req[r].op, progress[req[r].subject]), {})
    BY <1>3 DEF Read
  <2>4. req' \in [Requests -> Request]
    BY <2>2, <2>3, MoveTyped, EndTyped
  <2> QED BY <1>1, <1>3, <2>4 DEF Read
<1>4. CASE Upsert(r)
  <2>1. /\ progress[req[r].subject] \in Doc /\ req[r].doc \in Doc
    BY Fields
  <2> DEFINE doc == [state |-> req[r].doc.state, accessedAt |-> req[r].doc.accessedAt,
                     completedAt |-> IF progress[req[r].subject].completedAt # 0
                                     THEN progress[req[r].subject].completedAt
                                     ELSE req[r].doc.completedAt]
  <2>2. doc \in Doc
    BY <2>1 DEF Doc
  <2>3. Move(r, "write", doc, {})
    BY <1>4 DEF Upsert
  <2>4. req' \in [Requests -> Request]
    <3> HIDE DEF doc
    <3> QED BY <2>2, <2>3, MoveTyped
  <2> QED BY <1>1, <1>4, <2>4 DEF Upsert
<1>5. CASE Write(r)
  <2>1. req[r].doc \in Doc /\ req[r].subject \in Subjects
    BY Fields
  <2>2. End(r) \/ Move(r, "publish", req[r].doc, {})
    BY <1>5 DEF Write
  <2>3. req' \in [Requests -> Request]
    BY <2>1, <2>2, EndTyped, MoveTyped
  <2>4. progress' \in [Subjects -> Doc]
    BY <1>5, <2>1 DEF Write, TypeOK
  <2>5. writes' \in [Subjects -> Nat]
    <3>1. writes' = writes \/ writes' = [writes EXCEPT ![req[r].subject] = @ + 1]
      BY <1>5 DEF Write
    <3> QED BY <2>1, <3>1, SMT DEF TypeOK
  <2> QED BY <1>5, <2>3, <2>4, <2>5 DEF Write, TypeOK
<1>6. CASE Publish(r)
  <2>1. req' \in [Requests -> Request]
    BY <1>6, EndTyped DEF Publish
  <2>2. events' \in [Subjects -> Nat]
    <3>1. req[r].subject \in Subjects
      BY Fields
    <3>2. events' = events \/ events' = [events EXCEPT ![req[r].subject] = @ + 1]
      BY <1>6 DEF Publish
    <3> QED BY <3>1, <3>2, SMT DEF TypeOK
  <2> QED BY <1>6, <2>1, <2>2 DEF Publish, TypeOK
<1>7. CASE Query(r)
  <2>1. /\ Recorded \subseteq Subjects /\ Completed \subseteq Subjects
        /\ course \subseteq Subjects /\ NoDoc \in Doc
    BY NoDocTyped DEF Recorded, Completed, TypeOK
  <2>2. \/ Move(r, "delete", NoDoc, Recorded) \/ Move(r, "total", NoDoc, Completed)
        \/ Move(r, "records", NoDoc, course)
    BY <1>7 DEF Query
  <2>3. req' \in [Requests -> Request]
    BY <2>1, <2>2, MoveTyped
  <2> QED BY <1>1, <1>7, <2>3 DEF Query
<1>8. CASE Delete(r)
  <2>1. req' \in [Requests -> Request]
    BY <1>8, NoDocTyped, MoveTyped DEF Delete
  <2>2. progress' \in [Subjects -> Doc]
    BY <1>8, NoDocTyped DEF Delete, TypeOK
  <2> QED BY <1>8, <2>1, <2>2 DEF Delete, TypeOK
<1>9. CASE Compute(r)
  <2>1. req' \in [Requests -> Request]
    BY <1>9, EndTyped DEF Compute
  <2>2. PICK completed, counted :
          /\ report' = [completed |-> completed, total |-> Cardinality(counted)]
          /\ completed \in {req[r].found, Completed} /\ counted \in {req[r].found, course}
    BY <1>9 DEF Compute
  <2>3. completed \subseteq Subjects /\ counted \subseteq Subjects
    BY <2>2, Fields DEF Completed, TypeOK
  <2>4. Cardinality(counted) \in Nat
    BY <2>3, ProgressAssumption, FS_Subset, FS_CardinalityType
  <2>5. report'.completed \subseteq Subjects /\ report'.total \in Nat
    BY <2>2, <2>3, <2>4
  <2> QED BY <1>9, <2>1, <2>5 DEF Compute, TypeOK
<1>10. CASE Abort(r)
  <2>1. req' \in [Requests -> Request]
    BY <1>10, EndTyped DEF Abort
  <2>2. aborts' \in 0 .. MaxAborts
    BY <1>10, ProgressAssumption, SMT DEF Abort, TypeOK
  <2> QED BY <1>10, <2>1, <2>2 DEF Abort, TypeOK
<1> QED BY <1>2, <1>3, <1>4, <1>5, <1>6, <1>7, <1>8, <1>9, <1>10

LEMMA StepTyped == TypeOK /\ [Next]_vars => TypeOK'
<1> SUFFICES ASSUME TypeOK, [Next]_vars PROVE TypeOK'
  OBVIOUS
<1>1. ASSUME NEW s \in Subjects, CourseChanges(s) PROVE TypeOK'
  BY <1>1 DEF CourseChanges, TypeOK
<1>2. CASE Tick
  <2>1. now' \in 1 .. MaxTime
    BY <1>2, ProgressAssumption, SMT DEF Tick, TypeOK
  <2> QED BY <1>2, <2>1 DEF Tick, TypeOK, history
<1>3. CASE UNCHANGED vars
  BY <1>3 DEF vars, history, TypeOK
<1> QED BY <1>1, <1>2, <1>3, RequestTyped DEF Next

(* The variables keep their types, whatever the bounds.                    *)
THEOREM TypeCorrect == Spec => []TypeOK
  BY InitTyped, StepTyped, PTL DEF Spec
----------------------------------------------------------------------------
(* A document stays sound as time passes and completions are stored.       *)
LEMMA SoundLasts ==
  ASSUME NEW d \in Doc, NEW a \in Nat, NEW b \in Nat, NEW s \in Nat, NEW u \in Nat,
         a <= b, s <= u, Sound(d, a, s)
  PROVE  Sound(d, b, u)
<1>1. d.completedAt \in Nat /\ d.accessedAt \in Nat
  BY ProgressAssumption, SMT DEF Doc
<1> QED BY <1>1, SMT DEF Sound

\* Time and the stored completions only grow.
Grows == now <= now' /\ \A s \in Subjects : writes[s] <= writes'[s]

(* A step that moves one request to a sound place, and leaves sound        *)
(* documents, keeps the invariant.                                         *)
LEMMA MoveKeeps ==
  ASSUME TypeOK, TypeOK', ProgressInv, Grows, CompletedDated',
         NEW r \in Requests, \A q \in Requests \ {r} : req'[q] = req[q],
         CopySound(req'[r], writes'[req'[r].subject], now')
  PROVE  ProgressInv'
<1> SUFFICES ASSUME NEW q \in Requests, q # r, req[q].pc \in {"upsert", "write"}
             PROVE  Sound(req[q].doc, IF req[q].op = "complete" THEN 1 ELSE writes'[req[q].subject],
                          now')
  BY DEF ProgressInv, CopySound
<1> DEFINE a == IF req[q].op = "complete" THEN 1 ELSE writes[req[q].subject]
           b == IF req[q].op = "complete" THEN 1 ELSE writes'[req[q].subject]
<1>1. req[q].doc \in Doc /\ req[q].subject \in Subjects
  BY Fields
<1>2. a \in Nat /\ b \in Nat /\ a <= b /\ now \in Nat /\ now' \in Nat /\ now <= now'
  <2>1. /\ writes[req[q].subject] \in Nat /\ writes'[req[q].subject] \in Nat
        /\ writes[req[q].subject] <= writes'[req[q].subject]
    BY <1>1 DEF Grows, TypeOK
  <2>2. now \in Nat /\ now' \in Nat /\ now <= now'
    BY SMT DEF Grows, TypeOK
  <2> QED BY <2>1, <2>2, SMT
<1>3. Sound(req[q].doc, a, now)
  BY DEF ProgressInv, CopySound
<1> QED BY <1>1, <1>2, <1>3, SoundLasts

\* What Become and End say of the request and of the others.
LEMMA BecomeMoves ==
  ASSUME TypeOK, NEW r \in Requests, NEW pc, NEW op, NEW s, NEW doc, NEW found,
         Become(r, pc, op, s, doc, found)
  PROVE  /\ \A q \in Requests \ {r} : req'[q] = req[q]
         /\ req'[r].pc = pc /\ req'[r].op = op /\ req'[r].subject = s /\ req'[r].doc = doc
         /\ req'[r].found = found
<1>1. req'[r] = [pc |-> pc, op |-> op, subject |-> s, doc |-> doc, found |-> found]
  BY DEF Become, TypeOK
<1>2. \A q \in Requests \ {r} : req'[q] = req[q]
  BY DEF Become, TypeOK
<1> QED BY <1>1, <1>2

LEMMA EndMoves ==
  ASSUME TypeOK, NEW r \in Requests, End(r)
  PROVE  (\A q \in Requests \ {r} : req'[q] = req[q]) /\ req'[r].pc = "idle"
  BY DEF End, TypeOK, Idle

(* The same of a step that touches neither documents, counts nor time.     *)
LEMMA QuietKeeps ==
  ASSUME TypeOK, TypeOK', ProgressInv, UNCHANGED <<progress, writes, now>>,
         NEW r \in Requests, \A q \in Requests \ {r} : req'[q] = req[q],
         CopySound(req'[r], writes[req'[r].subject], now)
  PROVE  ProgressInv'
<1>1. Grows
  BY SMT DEF Grows, TypeOK
<1>2. CompletedDated'
  BY DEF ProgressInv, CompletedDated
<1> QED BY <1>1, <1>2, MoveKeeps

(* Every step of a request keeps the invariant.                            *)
LEMMA RequestKeeps ==
  ASSUME TypeOK, TypeOK', ProgressInv, NEW r \in Requests,
         \/ \E op \in Ops, s \in Subjects : Start(r, op, s)
         \/ Read(r) \/ Upsert(r) \/ Write(r) \/ Publish(r) \/ Query(r)
         \/ Delete(r) \/ Compute(r) \/ Abort(r)
  PROVE  ProgressInv'
<1> USE DEF history
<1> DEFINE s == req[r].subject
<1>0. /\ progress[s] \in Doc /\ s \in Subjects /\ req[r].doc \in Doc
      /\ Sound(progress[s], writes[s], now) /\ writes[s] \in Nat /\ now \in Nat \ {0}
  <2>1. s \in Subjects /\ progress[s] \in Doc /\ req[r].doc \in Doc
    BY Fields
  <2>2. now \in Nat \ {0}
    BY SMT DEF TypeOK
  <2> QED BY <2>1, <2>2 DEF TypeOK, ProgressInv, CompletedDated
<1>1. ASSUME NEW pc \in {"idle", "read", "query", "publish", "delete", "records", "total"},
             NEW op, NEW u, NEW doc, NEW found, Become(r, pc, op, u, doc, found),
             UNCHANGED <<progress, writes, now>>
      PROVE  ProgressInv'
  <2>1. req'[r].pc = pc
    BY <1>1, BecomeMoves
  <2>2. CopySound(req'[r], writes[req'[r].subject], now)
    BY <2>1 DEF CopySound
  <2> QED BY <1>1, <2>2, BecomeMoves, QuietKeeps
<1>2. ASSUME End(r), UNCHANGED <<progress, writes, now>>
      PROVE  ProgressInv'
  <2>1. CopySound(req'[r], writes[req'[r].subject], now)
    BY <1>2, EndMoves DEF CopySound
  <2> QED BY <1>2, <2>1, EndMoves, QuietKeeps
<1>3. ASSUME NEW op \in Ops, NEW u \in Subjects, Start(r, op, u) PROVE ProgressInv'
  <2>1. PICK pc \in {"read", "query"} : Become(r, pc, op, u, NoDoc, {})
    BY <1>3 DEF Start
  <2> QED BY <1>1, <1>3, <2>1 DEF Start
<1>4. CASE Read(r)
  <2>1. CASE req[r].op = "complete" /\ progress[s].state = "completed"
    BY <1>2, <1>4, <2>1 DEF Read
  <2>2. CASE ~ (req[r].op = "complete" /\ progress[s].state = "completed")
    <3> DEFINE doc == Changed(req[r].op, progress[s])
    <3>1. Become(r, "upsert", req[r].op, s, doc, {})
      BY <1>4, <2>2 DEF Read, Move
    <3>2. Sound(doc, IF req[r].op = "complete" THEN 1 ELSE writes[s], now)
      <4>1. progress[s].completedAt \in Nat /\ progress[s].accessedAt \in Nat
        BY <1>0, ProgressAssumption, SMT DEF Doc
      <4> QED BY <1>0, <4>1, SMT DEF Changed, Sound
    <3>3. CopySound(req'[r], writes[req'[r].subject], now)
      <4> HIDE DEF doc
      <4>1. req'[r].op = req[r].op /\ req'[r].subject = s /\ req'[r].doc = doc
        BY <3>1, BecomeMoves
      <4> QED BY <3>2, <4>1 DEF CopySound
    <3> QED BY <1>4, <3>1, <3>3, BecomeMoves, QuietKeeps DEF Read
  <2> QED BY <2>1, <2>2
<1>5. CASE Upsert(r)
  <2> DEFINE doc == [state |-> req[r].doc.state, accessedAt |-> req[r].doc.accessedAt,
                     completedAt |-> IF progress[s].completedAt # 0
                                     THEN progress[s].completedAt ELSE req[r].doc.completedAt]
             stored == IF req[r].op = "complete" THEN 1 ELSE writes[s]
  <2>1. Become(r, "write", req[r].op, s, doc, {})
    BY <1>5 DEF Upsert, Move
  <2>2. Sound(req[r].doc, stored, now)
    BY <1>5 DEF Upsert, ProgressInv, CopySound
  <2>3. Sound(doc, stored, now)
    <3> HIDE DEF stored
    <3> QED BY <1>0, <2>2 DEF Sound
  <2>4. CopySound(req'[r], writes[req'[r].subject], now)
    <3> HIDE DEF doc
    <3>1. req'[r].op = req[r].op /\ req'[r].subject = s /\ req'[r].doc = doc
      BY <2>1, BecomeMoves
    <3> QED BY <2>3, <3>1 DEF CopySound
  <2> QED BY <1>5, <2>1, <2>4, BecomeMoves, QuietKeeps DEF Upsert
<1>6. CASE Write(r)
  <2> DEFINE stored == IF req[r].op = "complete" THEN 1 ELSE writes[s]
  <2>1. Sound(req[r].doc, stored, now)
    BY <1>6 DEF Write, ProgressInv, CopySound
  <2>2. /\ now' = now /\ progress' = [progress EXCEPT ![s] = req[r].doc]
        /\ IF req[r].op = "complete" THEN writes' = [writes EXCEPT ![s] = @ + 1]
           ELSE writes' = writes
    BY <1>6 DEF Write
  <2>3. writes'[s] \in Nat /\ stored <= writes'[s] /\ stored \in Nat
    <3>1. CASE req[r].op = "complete"
      BY <1>0, <2>2, <3>1, SMT DEF TypeOK
    <3>2. CASE req[r].op # "complete"
      BY <1>0, <2>2, <3>2, SMT DEF TypeOK
    <3> QED BY <3>1, <3>2
  <2>4. Grows
    <3>1. writes' = writes \/ writes' = [writes EXCEPT ![s] = @ + 1]
      BY <2>2
    <3>2. now <= now'
      BY <1>0, <2>2, SMT
    <3>3. \A u \in Subjects : writes[u] <= writes'[u]
      BY <1>0, <3>1, SMT DEF TypeOK
    <3> QED BY <3>2, <3>3 DEF Grows
  <2>5. CompletedDated'
    <3> SUFFICES ASSUME NEW u \in Subjects PROVE Sound(progress'[u], writes'[u], now')
      BY DEF CompletedDated
    <3>1. CASE u = s
      <4>1. progress'[u] = req[r].doc
        BY <1>0, <2>2, <3>1 DEF TypeOK
      <4>2. Sound(req[r].doc, writes'[s], now)
        <5> HIDE DEF stored
        <5>1. now <= now
          BY <1>0, SMT
        <5> QED BY <1>0, <2>1, <2>3, <5>1, SoundLasts
      <4> QED BY <2>2, <3>1, <4>1, <4>2
    <3>2. CASE u # s
      BY <2>2, <3>2 DEF TypeOK, ProgressInv, CompletedDated
    <3> QED BY <3>1, <3>2
  <2>6. CopySound(req'[r], writes'[req'[r].subject], now')
        /\ \A q \in Requests \ {r} : req'[q] = req[q]
    <3>1. CASE End(r)
      BY <3>1, EndMoves DEF CopySound
    <3>2. CASE Move(r, "publish", req[r].doc, {})
      <4>1. req'[r].pc = "publish" /\ \A q \in Requests \ {r} : req'[q] = req[q]
        BY <3>2, BecomeMoves DEF Move
      <4> QED BY <4>1 DEF CopySound
    <3> QED BY <1>6, <3>1, <3>2 DEF Write
  <2> QED BY <2>4, <2>5, <2>6, MoveKeeps
<1>7. CASE Publish(r) \/ Compute(r) \/ Abort(r)
  BY <1>2, <1>7 DEF Publish, Compute, Abort
<1>8. CASE Query(r)
  <2>1. PICK pc \in {"delete", "records", "total"}, found \in {Recorded, Completed, course} :
          Become(r, pc, req[r].op, s, NoDoc, found)
    BY <1>8 DEF Query, Move
  <2> QED BY <1>1, <1>8, <2>1 DEF Query
<1>9. CASE Delete(r)
  <2>1. Become(r, "publish", req[r].op, s, NoDoc, {}) /\ UNCHANGED <<writes, now>>
    BY <1>9 DEF Delete, Move
  <2>2. Grows
    BY <2>1, SMT DEF Grows, TypeOK
  <2>3. CompletedDated'
    <3>1. Sound(NoDoc, 0, now)
      BY <1>0, SMT DEF Sound, NoDoc
    <3>2. \A u \in Subjects : Sound(NoDoc, writes[u], now)
      BY <3>1 DEF Sound, NoDoc
    <3> QED BY <1>9, <2>1, <3>2 DEF Delete, ProgressInv, CompletedDated
  <2>4. CopySound(req'[r], writes'[req'[r].subject], now')
    <3>1. req'[r].pc = "publish"
      BY <2>1, BecomeMoves
    <3> QED BY <3>1 DEF CopySound
  <2> QED BY <2>1, <2>2, <2>3, <2>4, BecomeMoves, MoveKeeps
<1> QED BY <1>3, <1>4, <1>5, <1>6, <1>7, <1>8, <1>9

LEMMA InvStep == TypeOK /\ ProgressInv /\ [Next]_vars => ProgressInv'
<1> SUFFICES ASSUME TypeOK, ProgressInv, [Next]_vars PROVE ProgressInv'
  OBVIOUS
<1>0. TypeOK'
  BY StepTyped
<1>1. ASSUME UNCHANGED <<progress, req, writes, now>> PROVE ProgressInv'
  BY <1>1 DEF ProgressInv, CompletedDated, CopySound
<1>2. CASE Tick
  <2>1. Grows /\ UNCHANGED <<progress, req, writes>>
    BY <1>2, SMT DEF Tick, Grows, TypeOK, history
  <2>2. CompletedDated'
    <3> SUFFICES ASSUME NEW u \in Subjects PROVE Sound(progress[u], writes[u], now')
      BY <2>1 DEF CompletedDated
    <3>1. progress[u] \in Doc /\ writes[u] \in Nat /\ Sound(progress[u], writes[u], now)
      BY DEF TypeOK, ProgressInv, CompletedDated
    <3>2. now \in Nat /\ now' \in Nat /\ now <= now' /\ writes[u] <= writes[u]
      BY <1>0, <2>1, <3>1, SMT DEF TypeOK, Grows
    <3> QED BY <3>1, <3>2, SoundLasts
  <2>3. \A r \in Requests : CopySound(req[r], writes[req[r].subject], now')
    <3> SUFFICES ASSUME NEW r \in Requests, req[r].pc \in {"upsert", "write"}
                 PROVE  Sound(req[r].doc, IF req[r].op = "complete" THEN 1
                              ELSE writes[req[r].subject], now')
      BY DEF CopySound
    <3> DEFINE a == IF req[r].op = "complete" THEN 1 ELSE writes[req[r].subject]
    <3>1. req[r].doc \in Doc /\ req[r].subject \in Subjects
      BY Fields
    <3>2. a \in Nat
      BY <3>1 DEF TypeOK
    <3>3. Sound(req[r].doc, a, now)
      BY DEF ProgressInv, CopySound
    <3> HIDE DEF a
    <3>4. now \in Nat /\ now' \in Nat /\ now <= now' /\ a <= a
      BY <1>0, <2>1, <3>2, SMT DEF TypeOK, Grows
    <3>5. Sound(req[r].doc, a, now')
      BY <3>1, <3>2, <3>3, <3>4, SoundLasts
    <3> QED BY <3>5 DEF a
  <2> QED BY <2>1, <2>2, <2>3 DEF ProgressInv
<1>3. CASE UNCHANGED vars \/ \E s \in Subjects : CourseChanges(s)
  BY <1>1, <1>3 DEF vars, history, CourseChanges
<1> QED BY <1>0, <1>2, <1>3, RequestKeeps DEF Next

LEMMA InvInit == Init => ProgressInv
  BY ProgressAssumption, SMT DEF Init, ProgressInv, CompletedDated, CopySound, Sound, NoDoc, Idle

(* The inductive invariant: documents, and the copies requests are about   *)
(* to store, are sound.                                                    *)
THEOREM ProgressInvariant == Spec => []ProgressInv
  BY InitTyped, StepTyped, InvInit, InvStep, PTL DEF Spec

(* Whatever overlaps, is reset or dies, a document that says "completed"   *)
(* says when, no date lies in the future, and the completion was stored by *)
(* a complete request (FirestoreProgressRepository.ts 29-42).              *)
THEOREM CompletedAreDated == Spec => []CompletedDated
<1>1. ProgressInv => CompletedDated
  BY DEF ProgressInv
<1> QED BY <1>1, ProgressInvariant, PTL
----------------------------------------------------------------------------
\* While requests do not overlap, a copy is as fresh as the document it will replace.
CopyFresh(k, d) ==
  k.pc \in {"upsert", "write"} =>
    /\ d.completedAt # 0 => k.doc.completedAt = d.completedAt
    /\ k.doc.completedAt # 0 => k.doc.state = "completed"
    /\ k.op = "complete" => d.state # "completed"
    /\ k.doc.accessedAt >= d.accessedAt

OneAtATime == \A q, r \in Requests : req[q].pc # "idle" /\ req[r].pc # "idle" => q = r

DatesMeanCompleted ==
  \A s \in Subjects : progress[s].completedAt # 0 => progress[s].state = "completed"

FreshInv ==
  alone =>
    /\ OneAtATime /\ DatesMeanCompleted
    /\ \A r \in Requests : CopyFresh(req[r], progress[req[r].subject])

(* The step of a request in flight keeps this when its own copy is fresh   *)
(* afterwards: no other request is in flight.                              *)
LEMMA FreshMove ==
  ASSUME TypeOK, FreshInv, alone' = alone,
         NEW r \in Requests, req[r].pc # "idle", \A q \in Requests \ {r} : req'[q] = req[q],
         alone => DatesMeanCompleted' /\ CopyFresh(req'[r], progress'[req'[r].subject])
  PROVE  FreshInv'
<1> SUFFICES ASSUME alone
             PROVE  /\ OneAtATime' /\ DatesMeanCompleted'
                    /\ \A q \in Requests : CopyFresh(req'[q], progress'[req'[q].subject])
  BY DEF FreshInv
<1>1. \A q \in Requests \ {r} : req'[q].pc = "idle"
  BY DEF FreshInv, OneAtATime
<1>2. \A q \in Requests : CopyFresh(req'[q], progress'[req'[q].subject])
  BY <1>1 DEF CopyFresh
<1>3. OneAtATime'
  BY <1>1 DEF OneAtATime
<1> QED BY <1>2, <1>3

(* Every step of a request keeps it.                                       *)
LEMMA RequestFresh ==
  ASSUME TypeOK, FreshInv, ProgressInv, NEW r \in Requests,
         \/ \E op \in Ops, s \in Subjects : Start(r, op, s)
         \/ Read(r) \/ Upsert(r) \/ Write(r) \/ Publish(r) \/ Query(r)
         \/ Delete(r) \/ Compute(r) \/ Abort(r)
  PROVE  FreshInv'
<1> USE DEF history
<1> DEFINE s == req[r].subject
<1>0. /\ s \in Subjects /\ progress[s] \in Doc /\ req[r].doc \in Doc
      /\ Sound(progress[s], writes[s], now)
      /\ alone => CopyFresh(req[r], progress[s])
  BY Fields DEF ProgressInv, CompletedDated, FreshInv
<1>00. /\ progress[s].completedAt \in Nat /\ progress[s].accessedAt \in Nat
       /\ now \in Nat \ {0}
  <2>1. now \in Nat \ {0}
    BY SMT DEF TypeOK
  <2> QED BY <1>0, <2>1, ProgressAssumption, SMT DEF Doc
<1>1. ASSUME NEW pc \in {"publish", "delete", "records", "total"},
             NEW op, NEW u, NEW doc, NEW found, Become(r, pc, op, u, doc, found),
             req[r].pc # "idle", UNCHANGED <<progress, alone>>
      PROVE  FreshInv'
  <2>1. req'[r].pc = pc
    BY <1>1, BecomeMoves
  <2>2. CopyFresh(req'[r], progress'[req'[r].subject])
    BY <2>1 DEF CopyFresh
  <2>3. alone => DatesMeanCompleted'
    BY <1>1 DEF FreshInv, DatesMeanCompleted
  <2> QED BY <1>1, <2>2, <2>3, BecomeMoves, FreshMove
<1>2. ASSUME End(r), req[r].pc # "idle", UNCHANGED <<progress, alone>>
      PROVE  FreshInv'
  <2>1. CopyFresh(req'[r], progress'[req'[r].subject])
    BY <1>2, EndMoves DEF CopyFresh
  <2>2. alone => DatesMeanCompleted'
    BY <1>2 DEF FreshInv, DatesMeanCompleted
  <2> QED BY <1>2, <2>1, <2>2, EndMoves, FreshMove
<1>3. ASSUME NEW op \in Ops, NEW u \in Subjects, Start(r, op, u) PROVE FreshInv'
  <2>1. PICK pc \in {"read", "query"} : Become(r, pc, op, u, NoDoc, {})
    BY <1>3 DEF Start
  <2>2. progress' = progress
    BY <1>3 DEF Start
  <2>3. alone' => alone /\ AllIdle
    <3>1. alone' = (alone /\ AllIdle)
      BY <1>3 DEF Start
    <3> QED BY <3>1, Zenon
  <2> SUFFICES ASSUME alone, AllIdle
               PROVE  /\ OneAtATime' /\ DatesMeanCompleted'
                      /\ \A q \in Requests : CopyFresh(req'[q], progress'[req'[q].subject])
    BY <2>3 DEF FreshInv
  <2>4. \A q \in Requests \ {r} : req'[q].pc = "idle"
    BY <2>1, BecomeMoves DEF AllIdle
  <2>5. req'[r].pc = pc
    BY <2>1, BecomeMoves
  <2>6. \A q \in Requests : CopyFresh(req'[q], progress'[req'[q].subject])
    BY <2>4, <2>5 DEF CopyFresh
  <2>7. OneAtATime'
    BY <2>4 DEF OneAtATime
  <2> QED BY <2>2, <2>6, <2>7 DEF FreshInv, DatesMeanCompleted
<1>4. CASE Read(r)
  <2>1. CASE req[r].op = "complete" /\ progress[s].state = "completed"
    BY <1>2, <1>4, <2>1 DEF Read
  <2>2. CASE ~ (req[r].op = "complete" /\ progress[s].state = "completed")
    <3> DEFINE doc == Changed(req[r].op, progress[s])
    <3>1. Become(r, "upsert", req[r].op, s, doc, {}) /\ UNCHANGED <<progress, alone>>
          /\ req[r].pc # "idle"
      BY <1>4, <2>2 DEF Read, Move
    <3>2. ASSUME alone PROVE CopyFresh(req'[r], progress'[s])
      <4>1. progress[s].completedAt # 0 => progress[s].state = "completed"
        BY <1>0, <3>2 DEF FreshInv, DatesMeanCompleted
      <4>2. CASE req[r].op = "complete"
        <5>1. progress[s].completedAt = 0 /\ progress[s].state # "completed"
          BY <2>2, <4>1, <4>2
        <5>2. doc.state = "completed" /\ doc.accessedAt = progress[s].accessedAt
          BY <4>2 DEF Changed
        <5>3. doc.accessedAt >= progress[s].accessedAt
          BY <1>00, <5>2, SMT
        <5> HIDE DEF doc
        <5>4. /\ req'[r].doc = doc /\ progress'[s] = progress[s]
          BY <3>1, BecomeMoves
        <5> QED BY <5>1, <5>2, <5>3, <5>4 DEF CopyFresh
      <4>3. CASE req[r].op # "complete"
        <5>1. /\ doc.completedAt = progress[s].completedAt /\ doc.accessedAt = now
              /\ doc.state = IF progress[s].state = "none" THEN "in_progress"
                            ELSE progress[s].state
          BY <4>3 DEF Changed
        <5>2. doc.accessedAt >= progress[s].accessedAt
          BY <1>0, <1>00, <5>1, SMT DEF Sound
        <5> HIDE DEF doc
        <5>3. /\ req'[r].doc = doc /\ req'[r].op = req[r].op /\ progress'[s] = progress[s]
          BY <3>1, BecomeMoves
        <5> QED BY <4>1, <4>3, <5>1, <5>2, <5>3 DEF CopyFresh
      <4> QED BY <4>2, <4>3
    <3> HIDE DEF doc
    <3>3. req'[r].subject = s /\ (alone => DatesMeanCompleted')
      BY <3>1, BecomeMoves DEF FreshInv, DatesMeanCompleted
    <3>4. alone => CopyFresh(req'[r], progress'[req'[r].subject])
      BY <3>2, <3>3
    <3> QED BY <3>1, <3>3, <3>4, BecomeMoves, FreshMove
  <2> QED BY <2>1, <2>2
<1>5. CASE Upsert(r)
  <2> DEFINE doc == [state |-> req[r].doc.state, accessedAt |-> req[r].doc.accessedAt,
                     completedAt |-> IF progress[s].completedAt # 0
                                     THEN progress[s].completedAt ELSE req[r].doc.completedAt]
  <2>1. Become(r, "write", req[r].op, s, doc, {}) /\ UNCHANGED <<progress, alone>>
        /\ req[r].pc = "upsert"
    BY <1>5 DEF Upsert, Move
  <2>2. alone => doc = req[r].doc
    BY <1>0, <2>1, SMT DEF CopyFresh, Doc
  <2> HIDE DEF doc
  <2>3. /\ req'[r].doc = doc /\ req'[r].op = req[r].op /\ progress' = progress
        /\ req'[r].subject = s
    BY <2>1, BecomeMoves
  <2>4. alone => CopyFresh(req'[r], progress'[req'[r].subject])
    BY <1>0, <2>1, <2>2, <2>3 DEF CopyFresh
  <2>5. alone => DatesMeanCompleted'
    BY <2>1 DEF FreshInv, DatesMeanCompleted
  <2> QED BY <2>1, <2>4, <2>5, BecomeMoves, FreshMove
<1>6. CASE Write(r)
  <2>1. req[r].pc = "write" /\ alone' = alone /\ progress' = [progress EXCEPT ![s] = req[r].doc]
    BY <1>6 DEF Write
  <2>2. ASSUME alone PROVE DatesMeanCompleted'
    <3>1. req[r].doc.completedAt # 0 => req[r].doc.state = "completed"
      BY <1>0, <2>1, <2>2 DEF CopyFresh
    <3> SUFFICES ASSUME NEW u \in Subjects, progress'[u].completedAt # 0
                 PROVE  progress'[u].state = "completed"
      BY DEF DatesMeanCompleted
    <3>2. CASE u = s
      BY <2>1, <3>1, <3>2 DEF TypeOK
    <3>3. CASE u # s
      BY <2>1, <2>2, <3>3 DEF TypeOK, FreshInv, DatesMeanCompleted
    <3> QED BY <3>2, <3>3
  <2>3. req'[r].pc \in {"idle", "publish"} /\ \A q \in Requests \ {r} : req'[q] = req[q]
    <3>1. CASE End(r)
      BY <3>1, EndMoves
    <3>2. CASE Move(r, "publish", req[r].doc, {})
      BY <3>2, BecomeMoves DEF Move
    <3> QED BY <1>6, <3>1, <3>2 DEF Write
  <2>4. CopyFresh(req'[r], progress'[req'[r].subject])
    BY <2>3 DEF CopyFresh
  <2> QED BY <2>1, <2>2, <2>3, <2>4, FreshMove
<1>7. CASE Publish(r) \/ Compute(r) \/ Abort(r)
  BY <1>2, <1>7 DEF Publish, Compute, Abort
<1>8. CASE Query(r)
  <2>1. PICK pc \in {"delete", "records", "total"}, found \in {Recorded, Completed, course} :
          Become(r, pc, req[r].op, s, NoDoc, found)
    BY <1>8 DEF Query, Move
  <2> QED BY <1>1, <1>8, <2>1 DEF Query
<1>9. CASE Delete(r)
  <2>1. /\ Become(r, "publish", req[r].op, s, NoDoc, {}) /\ alone' = alone
        /\ req[r].pc # "idle"
    BY <1>9 DEF Delete, Move
  <2>2. alone => DatesMeanCompleted'
    BY <1>9 DEF Delete, NoDoc, FreshInv, DatesMeanCompleted
  <2>3. CopyFresh(req'[r], progress'[req'[r].subject])
    <3>1. req'[r].pc = "publish"
      BY <2>1, BecomeMoves
    <3> QED BY <3>1 DEF CopyFresh
  <2> QED BY <2>1, <2>2, <2>3, BecomeMoves, FreshMove
<1> QED BY <1>3, <1>4, <1>5, <1>6, <1>7, <1>8, <1>9

LEMMA FreshStep == TypeOK /\ ProgressInv /\ FreshInv /\ [Next]_vars => FreshInv'
<1>1. ASSUME FreshInv, UNCHANGED <<progress, req, alone>> PROVE FreshInv'
  BY <1>1 DEF FreshInv, OneAtATime, DatesMeanCompleted, CopyFresh
<1> QED BY <1>1, RequestFresh DEF Next, vars, history, CourseChanges, Tick

(* Then no step undoes a completion.                                       *)
LEMMA HoldsStep ==
  TypeOK /\ ProgressInv /\ FreshInv /\ [Next]_vars => [ProgressHolds]_vars
<1> SUFFICES ASSUME TypeOK, ProgressInv, FreshInv, Next, alone, NEW s \in Subjects
             PROVE  /\ progress[s].completedAt # 0 /\ progress'[s] # NoDoc =>
                         /\ progress'[s].completedAt = progress[s].completedAt
                         /\ progress'[s].state = "completed"
                    /\ progress[s].state = "completed" => writes'[s] = writes[s]
                    /\ progress'[s] # NoDoc => progress'[s].accessedAt >= progress[s].accessedAt
  BY DEF ProgressHolds
<1>1. /\ progress[s].completedAt # 0 => progress[s].state = "completed"
      /\ progress[s].accessedAt >= progress[s].accessedAt
  <2>1. progress[s] \in Doc
    BY DEF TypeOK
  <2>2. progress[s].accessedAt >= progress[s].accessedAt
    BY <2>1, ProgressAssumption, SMT DEF Doc
  <2> QED BY <2>2 DEF FreshInv, DatesMeanCompleted
<1>2. CASE progress' = progress /\ writes' = writes
  BY <1>1, <1>2
<1>3. ASSUME NEW r \in Requests, Write(r)
      PROVE  /\ progress[s].completedAt # 0 =>
                  /\ progress'[s].completedAt = progress[s].completedAt
                  /\ progress'[s].state = "completed"
             /\ progress[s].state = "completed" => writes'[s] = writes[s]
             /\ progress'[s].accessedAt >= progress[s].accessedAt
  <2>1. CopyFresh(req[r], progress[req[r].subject]) /\ req[r].pc = "write"
    BY <1>3 DEF FreshInv, Write
  <2>2. progress' = [progress EXCEPT ![req[r].subject] = req[r].doc]
    BY <1>3 DEF Write
  <2>3. CASE s = req[r].subject
    <3>1. progress'[s] = req[r].doc
      BY <2>2, <2>3 DEF TypeOK
    <3>2. progress[s].state = "completed" => writes' = writes
      BY <1>3, <2>1, <2>3 DEF Write, CopyFresh
    <3> QED BY <2>1, <2>3, <3>1, <3>2 DEF CopyFresh
  <2>4. CASE s # req[r].subject
    <3>1. progress'[s] = progress[s]
      BY <2>2, <2>4 DEF TypeOK
    <3>2. writes'[s] = writes[s]
      BY <1>3, <2>4 DEF Write, TypeOK
    <3> QED BY <1>1, <3>1, <3>2
  <2> QED BY <2>3, <2>4
<1>4. ASSUME NEW r \in Requests, Delete(r)
      PROVE  writes' = writes /\ (progress'[s] = NoDoc \/ progress'[s] = progress[s])
  BY <1>4 DEF Delete, history
<1>5. ASSUME NEW r \in Requests, ~ Write(r), ~ Delete(r),
             \/ \E op \in Ops, u \in Subjects : Start(r, op, u)
             \/ Read(r) \/ Upsert(r) \/ Publish(r) \/ Query(r) \/ Compute(r) \/ Abort(r)
      PROVE  progress' = progress /\ writes' = writes
  BY <1>5 DEF Start, Read, Upsert, Publish, Query, Compute, Abort, history
<1>6. CASE Tick \/ \E u \in Subjects : CourseChanges(u)
  BY <1>2, <1>6 DEF Tick, CourseChanges, history
<1> QED BY <1>1, <1>2, <1>3, <1>4, <1>5, <1>6 DEF Next

(* While requests do not overlap, whatever dies or is reset in between, a  *)
(* completion is final: its date and its state stay until a reset, and it  *)
(* is not stored, so not announced, twice (SubjectProgress.ts 49,          *)
(* MarkSubjectCompleteUseCase.ts 21).                                      *)
THEOREM CompletionIsFinal == Spec => CompletionStands
<1>1. Init => FreshInv
  BY DEF Init, FreshInv, OneAtATime, DatesMeanCompleted, CopyFresh, NoDoc, Idle
<1> QED BY <1>1, InitTyped, StepTyped, InvInit, InvStep, FreshStep, HoldsStep, PTL
        DEF Spec, CompletionStands
----------------------------------------------------------------------------
(* Requests about to announce a completion are finitely many.              *)
LEMMA PublishingFinite ==
  ASSUME NEW s
  PROVE  IsFiniteSet(Publishing(s)) /\ Cardinality(Publishing(s)) \in Nat
<1>1. Publishing(s) \subseteq Requests
  BY DEF Publishing
<1> QED BY <1>1, FS_Subset, FS_CardinalityType, ProgressAssumption

\* Events and the requests about to publish are counted together; a reset announces none.
EventsInv ==
  EventsBacked /\ \A r \in Requests : req[r].pc = "delete" => req[r].op # "complete"

(* A step after which no other request is about to announce a completion,  *)
(* and which neither stores nor announces one.                             *)
LEMMA PublishingShrinks ==
  ASSUME TypeOK, EventsInv, NEW r \in Requests, UNCHANGED <<writes, events>>,
         \A q \in Requests \ {r} : req'[q] = req[q],
         req'[r].pc = "publish" => req'[r].op # "complete",
         req'[r].pc = "delete" => req'[r].op # "complete"
  PROVE  EventsInv'
<1> SUFFICES ASSUME NEW s \in Subjects
             PROVE  events[s] + Cardinality(Publishing(s)') <= writes[s]
  BY DEF EventsInv, EventsBacked
<1>1. Publishing(s)' \subseteq Publishing(s)
  BY DEF Publishing
<1>2. /\ Cardinality(Publishing(s)') \in Nat /\ Cardinality(Publishing(s)) \in Nat
      /\ Cardinality(Publishing(s)') <= Cardinality(Publishing(s))
  BY <1>1, PublishingFinite, FS_Subset, FS_CardinalityType
<1>3. events[s] + Cardinality(Publishing(s)) <= writes[s]
  BY DEF EventsInv, EventsBacked
<1>4. events[s] \in Nat /\ writes[s] \in Nat
  BY DEF TypeOK
<1> QED BY <1>2, <1>3, <1>4, SMT

(* A completion is announced only after it was stored, once for each.      *)
LEMMA EventsStep == TypeOK /\ EventsInv /\ [Next]_vars => EventsInv'
<1> SUFFICES ASSUME TypeOK, EventsInv, [Next]_vars PROVE EventsInv'
  OBVIOUS
<1> USE DEF history
<1>1. ASSUME NEW r \in Requests, End(r), UNCHANGED <<writes, events>> PROVE EventsInv'
  BY <1>1, EndMoves, PublishingShrinks
<1>2. ASSUME NEW r \in Requests, NEW pc, NEW op, NEW s, NEW doc, NEW found,
             Become(r, pc, op, s, doc, found), UNCHANGED <<writes, events>>,
             pc \in {"publish", "delete"} => op # "complete"
      PROVE  EventsInv'
  BY <1>2, BecomeMoves, PublishingShrinks
<1>3. ASSUME NEW r \in Requests, NEW op \in Ops, NEW s \in Subjects, Start(r, op, s) PROVE EventsInv'
  <2>1. PICK pc \in {"read", "query"} : Become(r, pc, op, s, NoDoc, {})
    BY <1>3 DEF Start
  <2> QED BY <1>2, <1>3, <2>1 DEF Start
<1>4. ASSUME NEW r \in Requests, Read(r) \/ Upsert(r) PROVE EventsInv'
  <2>1. UNCHANGED <<writes, events>>
    BY <1>4, Zenon DEF Read, Upsert
  <2>2. End(r) \/ \E doc : Become(r, "upsert", req[r].op, req[r].subject, doc, {})
                           \/ Become(r, "write", req[r].op, req[r].subject, doc, {})
    BY <1>4, Zenon DEF Read, Upsert, Move
  <2>3. ASSUME ~ End(r) PROVE EventsInv'
    <3>1. PICK doc : Become(r, "upsert", req[r].op, req[r].subject, doc, {})
                     \/ Become(r, "write", req[r].op, req[r].subject, doc, {})
      BY <2>2, <2>3
    <3>2. (\A q \in Requests \ {r} : req'[q] = req[q]) /\ req'[r].pc \in {"upsert", "write"}
      BY <3>1, BecomeMoves
    <3> QED BY <2>1, <3>2, PublishingShrinks
  <2> QED BY <1>1, <2>1, <2>3
<1>5. ASSUME NEW r \in Requests, Write(r) PROVE EventsInv'
  <2>1. CASE req[r].op # "complete"
    BY <1>1, <1>5, <2>1 DEF Write
  <2>2. CASE req[r].op = "complete"
    <3> DEFINE u == req[r].subject
    <3>1. /\ writes' = [writes EXCEPT ![u] = writes[u] + 1] /\ events' = events
          /\ req[r].pc = "write" /\ u \in Subjects
      BY <1>5, <2>2, Fields DEF Write
    <3>2. /\ req'[r].pc = "publish" /\ req'[r].op = "complete" /\ req'[r].subject = u
          /\ \A q \in Requests \ {r} : req'[q] = req[q]
      BY <1>5, <2>2, BecomeMoves DEF Write, Move
    <3> SUFFICES ASSUME NEW s \in Subjects
                 PROVE  events'[s] + Cardinality(Publishing(s)') <= writes'[s]
      BY <3>2 DEF EventsInv, EventsBacked
    <3>3. /\ events[s] \in Nat /\ writes[s] \in Nat /\ Cardinality(Publishing(s)) \in Nat
          /\ events[s] + Cardinality(Publishing(s)) <= writes[s]
      BY PublishingFinite DEF TypeOK, EventsInv, EventsBacked
    <3>4. CASE s = u
      <4>1. Publishing(s)' = Publishing(s) \cup {r} /\ r \notin Publishing(s)
        BY <3>1, <3>2, <3>4 DEF Publishing
      <4>2. Cardinality(Publishing(s)') = Cardinality(Publishing(s)) + 1
        BY <4>1, PublishingFinite, FS_AddElement
      <4>3. writes'[s] = writes[s] + 1
        BY <3>1, <3>4 DEF TypeOK
      <4> QED BY <3>1, <3>3, <4>2, <4>3, SMT
    <3>5. CASE s # u
      <4>1. Publishing(s)' = Publishing(s)
        BY <3>1, <3>2, <3>5 DEF Publishing
      <4>2. writes'[s] = writes[s]
        BY <3>1, <3>5 DEF TypeOK
      <4> QED BY <3>1, <3>3, <4>1, <4>2
    <3> QED BY <3>4, <3>5
  <2> QED BY <2>1, <2>2
<1>6. ASSUME NEW r \in Requests, Publish(r) PROVE EventsInv'
  <2>1. CASE req[r].op # "complete"
    BY <1>1, <1>6, <2>1 DEF Publish
  <2>2. CASE req[r].op = "complete"
    <3> DEFINE u == req[r].subject
    <3>1. /\ events' = [events EXCEPT ![u] = events[u] + 1] /\ writes' = writes
          /\ req[r].pc = "publish" /\ u \in Subjects
      BY <1>6, <2>2, Fields DEF Publish
    <3>2. req'[r].pc = "idle" /\ \A q \in Requests \ {r} : req'[q] = req[q]
      BY <1>6, EndMoves DEF Publish
    <3> SUFFICES ASSUME NEW s \in Subjects
                 PROVE  events'[s] + Cardinality(Publishing(s)') <= writes'[s]
      BY <3>2 DEF EventsInv, EventsBacked
    <3>3. /\ events[s] \in Nat /\ writes[s] \in Nat /\ Cardinality(Publishing(s)) \in Nat
          /\ events[s] + Cardinality(Publishing(s)) <= writes[s]
      BY PublishingFinite DEF TypeOK, EventsInv, EventsBacked
    <3>4. CASE s = u
      <4>1. Publishing(s)' = Publishing(s) \ {r} /\ r \in Publishing(s)
        BY <2>2, <3>1, <3>2, <3>4 DEF Publishing
      <4>2. Cardinality(Publishing(s)') = Cardinality(Publishing(s)) - 1
        BY <4>1, PublishingFinite, FS_RemoveElement
      <4>3. events'[s] = events[s] + 1
        BY <3>1, <3>4 DEF TypeOK
      <4> QED BY <3>1, <3>3, <4>2, <4>3, SMT
    <3>5. CASE s # u
      <4>1. Publishing(s)' = Publishing(s)
        BY <3>1, <3>2, <3>5 DEF Publishing
      <4>2. events'[s] = events[s]
        BY <3>1, <3>5 DEF TypeOK
      <4> QED BY <3>1, <3>3, <4>1, <4>2
    <3> QED BY <3>4, <3>5
  <2> QED BY <2>1, <2>2
<1>7. ASSUME NEW r \in Requests, Query(r) PROVE EventsInv'
  <2>1. PICK pc \in {"delete", "records", "total"}, found \in {Recorded, Completed, course} :
          /\ Become(r, pc, req[r].op, req[r].subject, NoDoc, found)
          /\ pc = "delete" => req[r].op = "reset"
    BY <1>7 DEF Query, Move
  <2>2. UNCHANGED <<writes, events>>
    BY <1>7 DEF Query
  <2> QED BY <1>2, <2>1, <2>2
<1>8. ASSUME NEW r \in Requests, Delete(r) PROVE EventsInv'
  <2>1. Become(r, "publish", req[r].op, req[r].subject, NoDoc, {}) /\ req[r].op # "complete"
    BY <1>8 DEF Delete, Move, EventsInv
  <2> QED BY <1>2, <1>8, <2>1 DEF Delete
<1>9. ASSUME NEW r \in Requests, Compute(r) \/ Abort(r) PROVE EventsInv'
  BY <1>1, <1>9 DEF Compute, Abort
<1>10. CASE Tick \/ (\E s \in Subjects : CourseChanges(s)) \/ UNCHANGED vars
  <2>1. req' = req /\ events' = events /\ writes' = writes
    BY <1>10 DEF CourseChanges, Tick, vars
  <2> QED BY <2>1 DEF EventsInv, EventsBacked, Publishing
<1> QED BY <1>3, <1>4, <1>5, <1>6, <1>7, <1>8, <1>9, <1>10 DEF Next

(* progress.subjectCompleted is published only for a completion that was   *)
(* stored, once for each, for any number of subjects, requests and deaths  *)
(* (MarkSubjectCompleteUseCase.ts 21-40).                                  *)
THEOREM EventsAreBacked == Spec => []EventsBacked
<1>1. Init => EventsInv
  <2> SUFFICES ASSUME Init PROVE EventsInv
    OBVIOUS
  <2>1. \A r \in Requests : req[r].pc = "idle"
    BY DEF Init, Idle
  <2>2. ASSUME NEW s \in Subjects PROVE events[s] + Cardinality(Publishing(s)) <= writes[s]
    <3>1. Publishing(s) = {}
      BY <2>1 DEF Publishing
    <3>2. Cardinality(Publishing(s)) = 0
      BY <3>1, FS_EmptySet
    <3> QED BY <3>2 DEF Init
  <2> QED BY <2>1, <2>2 DEF EventsInv, EventsBacked
<1>2. EventsInv => EventsBacked
  BY DEF EventsInv
<1> QED BY <1>1, <1>2, InitTyped, StepTyped, EventsStep, PTL DEF Spec
----------------------------------------------------------------------------
\* The subjects of the course a completion of which was stored.
StoredIn == {s \in course : writes[s] > 0}

\* What a request has found for a report of a course that has not changed.
FoundSound(k) ==
  /\ k.pc \in {"read", "upsert", "write"} => k.subject \in course
  /\ k.pc = "total" => k.found \subseteq StoredIn
  /\ k.pc = "records" => k.found = course

ReportInv ==
  steady =>
    /\ \A s \in Subjects : progress[s].state = "completed" => s \in course
    /\ \A r \in Requests : FoundSound(req[r])
    /\ report.completed \subseteq StoredIn
    /\ report.total = Cardinality(course) \/ (report.completed = {} /\ report.total = 0)

(* A step of one request keeps this if it keeps it for the request and     *)
(* neither documents nor report.                                           *)
LEMMA FoundMove ==
  ASSUME TypeOK, ReportInv, NEW r \in Requests, \A q \in Requests \ {r} : req'[q] = req[q],
         UNCHANGED <<course, steady, report>>, \A s \in Subjects : writes[s] > 0 => writes'[s] > 0,
         steady => \A s \in Subjects : progress'[s].state = "completed" => s \in course,
         steady => FoundSound(req[r])'
  PROVE  ReportInv'
<1> SUFFICES ASSUME steady PROVE ReportInv'
  BY DEF ReportInv
<1>1. StoredIn \subseteq StoredIn'
  BY DEF StoredIn, TypeOK
<1>2. ASSUME NEW q \in Requests \ {r} PROVE FoundSound(req[q])'
  BY <1>1, <1>2 DEF ReportInv, FoundSound
<1> QED BY <1>1, <1>2 DEF ReportInv

(* Every step keeps it.                                                    *)
LEMMA ReportStep == TypeOK /\ ProgressInv /\ ReportInv /\ [Next]_vars => ReportInv'
<1> SUFFICES ASSUME TypeOK, ProgressInv, ReportInv, [Next]_vars PROVE ReportInv'
  OBVIOUS
<1> USE DEF history
<1>0. ASSUME steady
      PROVE  Completed \subseteq StoredIn
  BY <1>0 DEF Completed, StoredIn, ReportInv, ProgressInv, CompletedDated, Sound
<1>1. ASSUME NEW r \in Requests, \A q \in Requests \ {r} : req'[q] = req[q],
             UNCHANGED <<course, progress, writes, steady, report>>, steady => FoundSound(req[r])'
      PROVE  ReportInv'
  BY <1>1, FoundMove DEF ReportInv
<1>2. ASSUME NEW r \in Requests, End(r), UNCHANGED <<course, progress, writes, steady, report>>
      PROVE  ReportInv'
  <2>1. FoundSound(req[r])'
    BY <1>2, EndMoves DEF FoundSound
  <2> QED BY <1>1, <1>2, <2>1, EndMoves
<1>3. ASSUME NEW r \in Requests, NEW op \in Ops, NEW s \in Subjects, Start(r, op, s) PROVE ReportInv'
  <2>1. PICK pc \in {"read", "query"} :
          Become(r, pc, op, s, NoDoc, {}) /\ (pc = "read" => s \in course)
    BY <1>3 DEF Start
  <2>2. UNCHANGED <<course, progress, writes, steady, report>>
    BY <1>3 DEF Start
  <2>3. FoundSound(req[r])'
    BY <2>1, <2>2, BecomeMoves DEF FoundSound
  <2> QED BY <1>1, <2>1, <2>2, <2>3, BecomeMoves
<1>4. ASSUME NEW r \in Requests, Read(r) \/ Upsert(r) PROVE ReportInv'
  <2>1. UNCHANGED <<course, progress, writes, steady, report>> /\ req[r].pc \in {"read", "upsert"}
    BY <1>4 DEF Read, Upsert
  <2>2. End(r) \/ \E doc : Become(r, "upsert", req[r].op, req[r].subject, doc, {})
                           \/ Become(r, "write", req[r].op, req[r].subject, doc, {})
    BY <1>4, Zenon DEF Read, Upsert, Move
  <2>3. ASSUME ~ End(r) PROVE ReportInv'
    <3>1. PICK doc : Become(r, "upsert", req[r].op, req[r].subject, doc, {})
                     \/ Become(r, "write", req[r].op, req[r].subject, doc, {})
      BY <2>2, <2>3
    <3>2. /\ \A q \in Requests \ {r} : req'[q] = req[q]
          /\ req'[r].pc \in {"upsert", "write"} /\ req'[r].subject = req[r].subject
      BY <3>1, BecomeMoves
    <3>3. steady => FoundSound(req[r])'
      BY <2>1, <3>2 DEF FoundSound, ReportInv
    <3> QED BY <1>1, <2>1, <3>2, <3>3
  <2> QED BY <1>2, <2>1, <2>3
<1>5. ASSUME NEW r \in Requests, Write(r) PROVE ReportInv'
  <2> DEFINE u == req[r].subject
  <2>1. /\ UNCHANGED <<course, steady, report>> /\ progress' = [progress EXCEPT ![u] = req[r].doc]
        /\ u \in Subjects /\ req[r].pc = "write"
    BY <1>5, Fields DEF Write
  <2>2. /\ req'[r].pc \in {"idle", "publish"}
        /\ \A q \in Requests \ {r} : req'[q] = req[q]
    <3>1. End(r) \/ Become(r, "publish", req[r].op, u, req[r].doc, {})
      BY <1>5 DEF Write, Move
    <3> QED BY <3>1, EndMoves, BecomeMoves
  <2>3. \A s \in Subjects : writes[s] > 0 => writes'[s] > 0
    <3>1. writes' = writes \/ writes' = [writes EXCEPT ![u] = writes[u] + 1]
      BY <1>5 DEF Write
    <3> QED BY <2>1, <3>1 DEF TypeOK
  <2>4. steady => \A s \in Subjects : progress'[s].state = "completed" => s \in course
    BY <2>1 DEF ReportInv, FoundSound, TypeOK
  <2>5. FoundSound(req[r])'
    BY <2>2 DEF FoundSound
  <2> QED BY <2>1, <2>2, <2>3, <2>4, <2>5, FoundMove
<1>6. ASSUME NEW r \in Requests, Publish(r) \/ Abort(r) PROVE ReportInv'
  BY <1>2, <1>6 DEF Publish, Abort
<1>7. ASSUME NEW r \in Requests, Query(r) PROVE ReportInv'
  <2>1. PICK pc \in {"delete", "records", "total"}, found \in {Recorded, Completed, course} :
          /\ Become(r, pc, req[r].op, req[r].subject, NoDoc, found)
          /\ pc = "total" => found = Completed
          /\ pc = "records" => found = course
    BY <1>7 DEF Query, Move
  <2>2. UNCHANGED <<course, progress, writes, steady, report>>
    BY <1>7 DEF Query
  <2>3. /\ req'[r].pc = pc /\ req'[r].found = found /\ \A q \in Requests \ {r} : req'[q] = req[q]
    BY <2>1, BecomeMoves
  <2>4. steady => FoundSound(req[r])'
    BY <1>0, <2>1, <2>2, <2>3 DEF FoundSound, StoredIn
  <2> QED BY <1>1, <2>2, <2>3, <2>4
<1>8. ASSUME NEW r \in Requests, Delete(r) PROVE ReportInv'
  <2>1. /\ Become(r, "publish", req[r].op, req[r].subject, NoDoc, {})
        /\ UNCHANGED <<course, writes, steady, report>>
    BY <1>8 DEF Delete, Move
  <2>2. \A s \in Subjects : progress'[s].state = "completed" => progress[s].state = "completed"
    BY <1>8 DEF Delete, NoDoc
  <2>3. FoundSound(req[r])' /\ \A q \in Requests \ {r} : req'[q] = req[q]
    BY <2>1, BecomeMoves DEF FoundSound
  <2> QED BY <2>1, <2>2, <2>3, FoundMove DEF ReportInv
<1>9. ASSUME NEW r \in Requests, Compute(r) PROVE ReportInv'
  <2>1. UNCHANGED <<course, progress, writes, steady>> /\ End(r)
    BY <1>9 DEF Compute
  <2> SUFFICES ASSUME steady PROVE ReportInv'
    BY <2>1 DEF ReportInv
  <2>2. FoundSound(req[r])
    BY DEF ReportInv
  <2>3. report'.completed \subseteq StoredIn /\ report'.total = Cardinality(course)
    <3>1. CASE req[r].pc = "total"
      BY <1>9, <2>2, <3>1 DEF Compute, FoundSound
    <3>2. CASE req[r].pc = "records"
      BY <1>0, <1>9, <2>2, <3>2 DEF Compute, FoundSound
    <3> QED BY <1>9, <3>1, <3>2 DEF Compute
  <2>4. StoredIn' = StoredIn
    BY <2>1 DEF StoredIn
  <2>5. ASSUME NEW q \in Requests PROVE FoundSound(req[q])'
    BY <2>1, <2>4, <2>5, EndMoves DEF FoundSound, ReportInv
  <2> QED BY <2>1, <2>3, <2>4, <2>5 DEF ReportInv
<1>10. CASE \E s \in Subjects : CourseChanges(s)
  BY <1>10 DEF CourseChanges, ReportInv
<1>11. CASE Tick \/ UNCHANGED vars
  <2>1. UNCHANGED <<course, progress, writes, steady, report, req>>
    BY <1>11 DEF Tick, vars
  <2> QED BY <2>1 DEF ReportInv, FoundSound, StoredIn
<1> QED BY <1>3, <1>4, <1>5, <1>6, <1>7, <1>8, <1>9, <1>10, <1>11 DEF Next

(* A report of a course that has not changed is at most 100.0 percent, and *)
(* exactly that only when a completion of every subject was stored, though *)
(* its two reads may be of different instants; of up to 1999 subjects      *)
(* (ComputeCourseProgressUseCase.ts 19-30).                                *)
THEOREM ReportIsSound ==
  ASSUME Cardinality(Subjects) < 2000
  PROVE  Spec => []ReportSound
<1>1. Init => ReportInv
  BY DEF Init, ReportInv, FoundSound, Idle, NoDoc
<1>2. TypeOK /\ ReportInv => ReportSound
  <2> SUFFICES ASSUME TypeOK, ReportInv, steady
               PROVE  LET percent == Percent(Cardinality(report.completed), report.total) IN
                      percent <= 1000 /\ (percent = 1000 => \A s \in course : writes[s] > 0)
    BY DEF ReportSound
  <2> DEFINE done == Cardinality(report.completed)
             all == Cardinality(course)
  <2>1. /\ report.completed \subseteq course /\ report.completed \subseteq StoredIn
        /\ course \subseteq Subjects /\ IsFiniteSet(course)
    BY ProgressAssumption, FS_Subset DEF ReportInv, StoredIn, TypeOK
  <2>2. /\ done \in Nat /\ all \in Nat /\ done <= all /\ all <= Cardinality(Subjects)
        /\ Cardinality(Subjects) \in Nat /\ (done = all => report.completed = course)
    BY <2>1, ProgressAssumption, FS_Subset, FS_CardinalityType
  <2>3. report.total = all \/ report.total = 0
    BY DEF ReportInv
  <2> HIDE DEF done, all
  <2>4. CASE report.total = 0
    BY <2>4 DEF Percent
  <2>5. CASE report.total # 0
    <3>1. report.total = all /\ all \in Nat \ {0} /\ all < 2000 /\ done \in Nat /\ done <= all
      BY <2>2, <2>3, <2>5
    <3>2. PICK total \in Nat \ {0}, completed \in Nat : total = all /\ completed = done
      BY <3>1
    <3>3. Percent(completed, total) <= 1000 /\ (Percent(completed, total) = 1000 => completed = total)
      BY <3>1, <3>2, PercentIsExactAtTheTop
    <3>4. done = all => \A s \in course : writes[s] > 0
      BY <2>1, <2>2 DEF StoredIn
    <3>5. Percent(done, all) = Percent(completed, total)
      BY <3>2
    <3> QED BY <3>1, <3>2, <3>3, <3>4, <3>5 DEF done
  <2> QED BY <2>4, <2>5
<1> QED BY <1>1, <1>2, InitTyped, StepTyped, InvInit, InvStep, ReportStep, PTL DEF Spec
============================================================================
