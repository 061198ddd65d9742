--------------------------- MODULE AccountsProofs ---------------------------
(***************************************************************************)
(* Theorems about an e-mail address, for any number of requests and        *)
(* failures: who holds it, with which roles (module Accounts), and the     *)
(* counters that guard its sign-in (module SignInCounters).  The two share *)
(* no state, and no theorem is about both.                                 *)
(***************************************************************************)
EXTENDS Accounts, SignInCounters, FiniteSetTheorems, TLAPS

(* The fields of a request are what they should be.                        *)
LEMMA RequestFields ==
  ASSUME TypeOK, NEW r \in Requests
  PROVE  /\ req[r] \in Request /\ req[r].op \in Ops /\ req[r].uid \in Uids /\ req[r].role \in Roles
         /\ req[r].seen \in Claims
         /\ req[r].pc \in Over \cup {"remove", "check", "create", "read", "claims", "doc", "disable",
                                     "last", "undo"}
  BY DEF TypeOK, Request, Over

(* A request that moves to another await keeps everything else.            *)
LEMMA GotoFields ==
  ASSUME TypeOK, NEW r \in Requests,
         NEW pc \in {"check", "create", "claims", "doc", "disable", "last", "undo", "done", "failed",
                     "refused", "dead"},
         Goto(r, pc)
  PROVE  /\ req' \in [Requests -> Request]
         /\ \A s \in Requests :
              /\ req'[s].op = req[s].op /\ req'[s].uid = req[s].uid /\ req'[s].seen = req[s].seen
              /\ req'[s].role = req[s].role
              /\ req'[s].pc = IF s = r THEN pc ELSE req[s].pc
<1>1. req[r] \in Request /\ req \in [Requests -> Request]
  BY DEF TypeOK
<1>2. [req[r] EXCEPT !.pc = pc] \in Request
  BY <1>1 DEF Request
<1>3. req' = [req EXCEPT ![r] = [req[r] EXCEPT !.pc = pc]]
  BY DEF Goto
<1>4. \A s \in Requests : req'[s] = IF s = r THEN [req[r] EXCEPT !.pc = pc] ELSE req[s]
  BY <1>1, <1>3
<1>5. /\ [req[r] EXCEPT !.pc = pc].op = req[r].op /\ [req[r] EXCEPT !.pc = pc].uid = req[r].uid
      /\ [req[r] EXCEPT !.pc = pc].seen = req[r].seen /\ [req[r] EXCEPT !.pc = pc].role = req[r].role
      /\ [req[r] EXCEPT !.pc = pc].pc = pc
  BY <1>1 DEF Request
<1>6. req' \in [Requests -> Request]
  BY <1>1, <1>2, <1>3
<1> QED BY <1>4, <1>5, <1>6

(* A failure is counted within its bound, and the histories are kept.      *)
LEMMA FaultTyped ==
  ASSUME TypeOK, Fault
  PROVE  faults' \in 0 .. MaxFaults /\ crossed' = crossed /\ seeded' = seeded
  BY AccountsAssumption, SMT DEF TypeOK, Fault

(* The claims that replace others are claims.                              *)
LEMMA NewClaimsTyped ==
  ASSUME TypeOK, HolderInv, NEW r \in Requests, req[r].pc \in {"claims", "doc"}
  PROVE  NewClaims(r) \in Claims
<1> USE RequestFields DEF Claims, Roles
<1>1. CASE req[r].op = "migrate"
  <2>1. req[r].seen.role \in Roles
    BY <1>1 DEF HolderInv, CreationInv
  <2>2. NewClaims(r) = Just(req[r].seen.role)
    BY <1>1, Zenon DEF NewClaims
  <2>3. Just(req[r].seen.role) \in Claims
    BY <2>1 DEF Just
  <2> QED BY <2>2, <2>3, Zenon
<1>2. CASE req[r].op = "promote"
  <2>1. NewClaims(r) = [role |-> "admin", roles |-> {"student", "admin"}]
    BY <1>2, Zenon DEF NewClaims
  <2>2. [role |-> "admin", roles |-> {"student", "admin"}] \in Claims
    OBVIOUS
  <2> QED BY <2>1, <2>2, Zenon
<1>3. CASE req[r].op \notin {"migrate", "promote"}
  <2>1. NewClaims(r) = Just(req[r].role)
    BY <1>3, Zenon DEF NewClaims
  <2>2. Just(req[r].role) \in Claims
    BY RequestFields DEF Just
  <2> QED BY <2>1, <2>2, Zenon
<1> QED BY <1>1, <1>2, <1>3, Zenon

(* The document that replaces another is one, and none that was there is   *)
(* gone; those that register, create, seed and promote leave one.          *)
LEMMA NewDocTyped ==
  ASSUME TypeOK, HolderInv, NEW r \in Requests, req[r].pc = "doc"
  PROVE  /\ NewDoc(r) \in Doc
         /\ doc[req[r].uid].there => NewDoc(r).there
         /\ req[r].op \notin {"deleteAdmin", "migrate"} => NewDoc(r).there
<1> DEFINE u == req[r].uid
<1>0. u \in Uids /\ req[r].seen \in Claims /\ doc[u] \in Doc /\ req[r].role \in Roles /\ req[r].op \in Ops
  BY RequestFields DEF TypeOK
<1>1. CASE req[r].op = "deleteAdmin"
  <2>1. NewDoc(r) = [doc[u] EXCEPT !.deleted = TRUE]
    BY <1>1, Zenon DEF NewDoc
  <2>2. /\ [doc[u] EXCEPT !.deleted = TRUE] \in Doc
        /\ [doc[u] EXCEPT !.deleted = TRUE].there = doc[u].there
    BY <1>0 DEF Doc
  <2> QED BY <1>1, <2>1, <2>2, Zenon
<1>2. CASE req[r].op = "migrate"
  <2> DEFINE has == [doc[u].has EXCEPT !.roles = {req[r].seen.role}]
  <2>1. req[r].seen.role \in Roles
    BY <1>2 DEF HolderInv, CreationInv
  <2>2. doc[u].has \in Claims
    BY <1>0 DEF Doc
  <2>3. has \in Claims
    BY <2>1, <2>2 DEF Claims
  <2> HIDE DEF has
  <2>4. [doc[u] EXCEPT !.has = has] \in Doc /\ [doc[u] EXCEPT !.has = has].there = doc[u].there
    BY <1>0, <2>3 DEF Doc
  <2>5. NewDoc(r) = IF doc[u].there THEN [doc[u] EXCEPT !.has = has] ELSE doc[u]
    BY <1>2, Zenon DEF NewDoc, has
  <2>6. CASE doc[u].there
    BY <1>2, <2>4, <2>5, <2>6, Zenon
  <2>7. CASE ~ doc[u].there
    BY <1>0, <1>2, <2>5, <2>7, Zenon
  <2> QED BY <2>6, <2>7, Zenon
<1>3. CASE req[r].op = "promote"
  <2>1. NewDoc(r) = Stored([role |-> "admin", roles |-> {"student", "admin"}])
    BY <1>3, Zenon DEF NewDoc
  <2>2. /\ Stored([role |-> "admin", roles |-> {"student", "admin"}]) \in Doc
        /\ Stored([role |-> "admin", roles |-> {"student", "admin"}]).there
    BY DEF Stored, Doc, Claims, Roles
  <2> QED BY <2>1, <2>2, Zenon
<1>4. CASE req[r].op \notin {"deleteAdmin", "migrate", "promote"}
  <2>1. NewDoc(r) = Stored(Just(req[r].role))
    BY <1>4, Zenon DEF NewDoc
  <2>2. Stored(Just(req[r].role)) \in Doc /\ Stored(Just(req[r].role)).there
    BY <1>0 DEF Stored, Just, Doc, Claims, Roles
  <2> QED BY <2>1, <2>2, Zenon
<1> QED BY <1>1, <1>2, <1>3, <1>4, Zenon

(* A request that begins is a request, of the operation it was given.      *)
LEMMA BeginFields ==
  ASSUME TypeOK, NEW r \in Requests, NEW op \in Ops, NEW u \in Uids, NEW role \in Roles,
         Begin(r, op, u, role)
  PROVE  /\ req' \in [Requests -> Request] /\ req'[r].op = op /\ req'[r].uid = u
         /\ req'[r].pc \in {"check", "remove", "read"}
         /\ (req'[r].pc = "check" <=> op \in Creations) /\ (req'[r].pc = "remove" <=> op = "seed")
         /\ \A s \in Requests \ {r} : req'[s] = req[s]
<1> DEFINE new == [op |-> op, uid |-> u, role |-> role, seen |-> NoClaims, pc |-> FirstAwait[op]]
<1>1. /\ FirstAwait[op] \in {"check", "remove", "read"}
      /\ FirstAwait[op] = "check" <=> op \in Creations
      /\ FirstAwait[op] = "remove" <=> op = "seed"
  BY DEF FirstAwait, Ops, Creations
<1>2. NoClaims \in Claims
  BY DEF NoClaims, Claims, Roles
<1>3. new \in Request
  BY <1>1, <1>2 DEF Request
<1>4. req \in [Requests -> Request] /\ req' = [req EXCEPT ![r] = new]
  BY DEF TypeOK, Begin
<1>5. new.op = op /\ new.uid = u /\ new.pc = FirstAwait[op]
  OBVIOUS
<1> HIDE DEF new
<1>6. req' \in [Requests -> Request] /\ req'[r] = new /\ \A s \in Requests \ {r} : req'[s] = req[s]
  BY <1>3, <1>4
<1> QED BY <1>1, <1>5, <1>6

(* A request that has read its account keeps the claims for later.         *)
LEMMA ReadFields ==
  ASSUME TypeOK, NEW r \in Requests, Read(r)
  PROVE  /\ req' \in [Requests -> Request] /\ req'[r].op = req[r].op /\ req'[r].uid = req[r].uid
         /\ req'[r].pc \in {"refused", "doc", "claims"}
         /\ req[r].op = "migrate" /\ req'[r].pc # "refused" => req'[r].seen.role \in Roles
         /\ req[r].op = "migrate" /\ req'[r].pc # "refused" => req'[r].seen.roles = {}
         /\ req'[r].seen = claims[req[r].uid] /\ (req'[r].pc = "doc" => req[r].op = "deleteAdmin")
         /\ req'[r].pc = "claims" => req[r].op # "deleteAdmin"
         /\ \A s \in Requests \ {r} : req'[s] = req[s]
<1> DEFINE pc == IF ~ Admits(req[r].op, claims[req[r].uid], doc[req[r].uid]) THEN "refused"
                 ELSE IF req[r].op = "deleteAdmin" THEN "doc" ELSE "claims"
           seen == claims[req[r].uid]
           to == [[req[r] EXCEPT !.seen = seen] EXCEPT !.pc = pc]
<1>1. req[r] \in Request /\ req \in [Requests -> Request] /\ claims[req[r].uid] \in Claims
  BY RequestFields DEF TypeOK
<1>2. pc \in {"refused", "doc", "claims"}
  OBVIOUS
<1>3. /\ req[r].op = "migrate" /\ pc # "refused" => /\ claims[req[r].uid].role \in Roles
                                                   /\ claims[req[r].uid].roles = {}
      /\ pc = "doc" => req[r].op = "deleteAdmin"
      /\ pc = "claims" => req[r].op # "deleteAdmin"
  BY <1>1 DEF Admits, Claims, Roles
<1>4. req' = [req EXCEPT ![r].seen = claims[req[r].uid], ![r].pc = pc]
  BY Zenon DEF Read
<1> HIDE DEF pc
<1> HIDE DEF seen
<1>5. /\ to \in Request /\ to.op = req[r].op /\ to.uid = req[r].uid /\ to.pc = pc /\ to.seen = seen
  <2>1. seen \in Claims
    BY <1>1 DEF seen
  <2> DEFINE mid == [req[r] EXCEPT !.seen = seen]
  <2>2. mid \in Request /\ mid.op = req[r].op /\ mid.uid = req[r].uid /\ mid.seen = seen
    BY <1>1, <2>1 DEF Request
  <2> HIDE DEF mid
  <2>3. [mid EXCEPT !.pc = pc] \in Request
    BY <1>2, <2>2 DEF Request
  <2>4. LET e == [mid EXCEPT !.pc = pc] IN e.op = mid.op /\ e.uid = mid.uid /\ e.pc = pc /\ e.seen = mid.seen
    BY <2>2 DEF Request
  <2> QED BY <2>2, <2>3, <2>4 DEF mid
<1>6. req' = [req EXCEPT ![r] = to]
  BY <1>1, <1>4 DEF seen
<1> HIDE DEF to
<1>7. req'[r] = to /\ req' \in [Requests -> Request] /\ \A s \in Requests \ {r} : req'[s] = req[s]
  BY <1>1, <1>5, <1>6
<1> QED BY <1>2, <1>3, <1>5, <1>7 DEF seen

(* Every step keeps the types.                                             *)
LEMMA TypeStep == TypeOK /\ HolderInv /\ [Next]_vars => TypeOK'
<1> SUFFICES ASSUME TypeOK, HolderInv, [Next]_vars PROVE TypeOK'
  OBVIOUS
<1> USE DEF stores, history
<1>0. ASSUME req' \in [Requests -> Request], UNCHANGED history,
             auth' \in [Uids -> {"none", "live", "disabled", "gone"}], claims' \in [Uids -> Claims],
             doc' \in [Uids -> Doc]
      PROVE  TypeOK'
  BY <1>0 DEF TypeOK
<1>1. ASSUME NEW r \in Requests, NEW op \in Ops, NEW u \in Uids, NEW role \in Roles,
             Begin(r, op, u, role)
      PROVE  TypeOK'
  <2>1. crossed' \in {crossed, crossed \cup {u}} /\ seeded' \in BOOLEAN /\ UNCHANGED <<stores, faults>>
    BY <1>1, Zenon DEF Begin
  <2> QED BY <1>1, <2>1, BeginFields DEF TypeOK
<1>2. ASSUME NEW r \in Requests, Check(r) PROVE TypeOK'
  <2>1. PICK pc \in {"refused", "create"} : Goto(r, pc)
    BY <1>2 DEF Check
  <2> QED BY <1>0, <1>2, <2>1, GotoFields DEF Check, TypeOK
<1>3. ASSUME NEW r \in Requests, Remove(r) PROVE TypeOK'
  <2>1. auth' \in [Uids -> {"none", "live", "disabled", "gone"}]
    BY <1>3 DEF Remove, TypeOK
  <2> QED BY <1>0, <1>3, <2>1, GotoFields DEF Remove, TypeOK
<1>4. ASSUME NEW r \in Requests, Create(r) PROVE TypeOK'
  <2>1. /\ \E pc \in {"refused", "claims"} : Goto(r, pc)
        /\ auth' \in {auth, [auth EXCEPT ![r] = "live"]}
    BY <1>4 DEF Create
  <2>2. auth' \in [Uids -> {"none", "live", "disabled", "gone"}]
    BY <2>1 DEF TypeOK
  <2> QED BY <1>0, <1>4, <2>1, <2>2, GotoFields DEF Create, TypeOK
<1>5. ASSUME NEW r \in Requests, SetClaims(r) PROVE TypeOK'
  <2>1. claims' = [claims EXCEPT ![req[r].uid] = NewClaims(r)] /\ req[r].pc = "claims"
    BY <1>5 DEF SetClaims
  <2>2. claims' \in [Uids -> Claims]
    BY <2>1, NewClaimsTyped DEF TypeOK
  <2> QED BY <1>0, <1>5, <2>2, GotoFields DEF SetClaims, TypeOK
<1>6. ASSUME NEW r \in Requests, StoreDoc(r) PROVE TypeOK'
  <2>1. /\ doc' = [doc EXCEPT ![req[r].uid] = NewDoc(r)] /\ req[r].pc = "doc"
        /\ UNCHANGED <<auth, claims, history>>
    BY <1>6 DEF StoreDoc
  <2>2. doc' \in [Uids -> Doc]
    BY <2>1, NewDocTyped DEF TypeOK
  <2>3. PICK pc \in {"disable", "done", "last"} : Goto(r, pc)
    BY <1>6, Zenon DEF StoreDoc
  <2> QED BY <1>0, <2>1, <2>2, <2>3, GotoFields DEF TypeOK
<1>7. ASSUME NEW r \in Requests, Read(r) PROVE TypeOK'
  BY <1>0, <1>7, ReadFields DEF Read, TypeOK
<1>8. ASSUME NEW r \in Requests, Finish(r) PROVE TypeOK'
  <2>1. auth' \in {auth, [auth EXCEPT ![req[r].uid] = "disabled"]}
    BY <1>8 DEF Finish
  <2>2. auth' \in [Uids -> {"none", "live", "disabled", "gone"}]
    BY <2>1 DEF TypeOK
  <2> QED BY <1>0, <1>8, <2>2, GotoFields DEF Finish, TypeOK
<1>9. ASSUME NEW r \in Requests, Fail(r) \/ Undo(r) \/ Dies(r) PROVE TypeOK'
  <2>1. /\ \E pc \in {"undo", "refused", "failed", "dead"} : Goto(r, pc)
        /\ auth' \in {auth, [auth EXCEPT ![r] = "gone"]}
        /\ UNCHANGED <<claims, doc>>
    BY <1>9, Zenon DEF Fail, Undo, Dies
  <2>2. Fault \/ UNCHANGED history
    BY <1>9, Zenon DEF Fail, Undo, Dies
  <2>3. auth' \in [Uids -> {"none", "live", "disabled", "gone"}]
    BY <2>1 DEF TypeOK
  <2>4. req' \in [Requests -> Request]
    BY <2>1, GotoFields
  <2>5. crossed' = crossed /\ seeded' = seeded /\ faults' \in 0 .. MaxFaults
    BY <2>2, FaultTyped DEF TypeOK
  <2> QED BY <2>1, <2>3, <2>4, <2>5 DEF TypeOK
<1>10. CASE UNCHANGED vars
  BY <1>10 DEF vars, TypeOK
<1> QED BY <1>1, <1>2, <1>3, <1>4, <1>5, <1>6, <1>7, <1>8, <1>9, <1>10, Zenon DEF Next

(* A step that leaves a request alone, with its Auth user and document,    *)
(* keeps what is known of it; only a seed script takes the Auth user away. *)
LEMMA OthersKept ==
  ASSUME TypeOK, HolderInv, NEW s \in Requests, req'[s] = req[s],
         auth[s] = "none" => auth'[s] = "none", Known(s)' => Known(s), Known(s) => Known(s)' \/ seeded,
         doc[s].there => doc'[s].there, seeded => seeded'
  PROVE  CreationInv(s)'
<1>1. CreationInv(s)
  BY DEF HolderInv
<1> QED BY <1>1 DEF CreationInv

(* If no Auth user comes to be known, there is still only one.             *)
LEMMA OneKept ==
  ASSUME HolderInv, seeded => seeded', \A u \in Uids : Known(u)' => Known(u)
  PROVE  (~ seeded => \A u, v \in Uids : Known(u) /\ Known(v) => u = v)'
  BY DEF HolderInv

(* Every step keeps the creations in order and the address with one user.  *)
LEMMA HolderStep == TypeOK /\ HolderInv /\ [Next]_vars => HolderInv'
<1> SUFFICES ASSUME TypeOK, HolderInv, [Next]_vars PROVE HolderInv'
  OBVIOUS
<1> USE DEF stores, history, Creations
<1>0. ASSUME NEW r \in Requests, \A s \in Requests \ {r} : req'[s] = req[s], CreationInv(r)',
             \A s \in Requests \ {r} : auth'[s] = auth[s], \A s \in Requests \ {r} : doc[s].there => doc'[s].there,
             seeded => seeded', \A u \in Uids : Known(u)' => Known(u)
      PROVE  HolderInv'
  <2>1. ASSUME NEW s \in Requests \ {r} PROVE CreationInv(s)'
    <3>1. Known(s)' <=> Known(s)
      BY <1>0 DEF Known
    <3> QED BY <1>0, <3>1, OthersKept
  <2>2. (~ seeded => \A u, v \in Uids : Known(u) /\ Known(v) => u = v)'
    BY <1>0, OneKept
  <2>3. \A s \in Requests : CreationInv(s)'
    BY <1>0, <2>1
  <2> QED BY <2>2, <2>3 DEF HolderInv
<1>1. ASSUME NEW r \in Requests, NEW op \in Ops, NEW u \in Uids, NEW role \in Roles,
             Begin(r, op, u, role)
      PROVE  HolderInv'
  <2>1. /\ UNCHANGED stores /\ req[r].pc = "new" /\ (u = r <=> op \in Creations \cup {"seed"})
        /\ seeded' = (seeded \/ op = "seed")
    BY <1>1 DEF Begin
  <2>2. auth[r] = "none"
    BY <2>1 DEF HolderInv, CreationInv
  <2>3. /\ req'[r].op = op /\ req'[r].uid = u
        /\ req'[r].pc \in {"check", "remove", "read"}
        /\ (req'[r].pc = "check" <=> op \in Creations) /\ (req'[r].pc = "remove" <=> op = "seed")
    BY <1>1, BeginFields
  <2>4. CreationInv(r)'
    BY <2>1, <2>2, <2>3 DEF CreationInv
  <2>5. \A s \in Requests \ {r} : req'[s] = req[s]
    BY <1>1, BeginFields
  <2> QED BY <1>0, <2>1, <2>4, <2>5 DEF Known
<1>2. ASSUME NEW r \in Requests, Check(r) PROVE HolderInv'
  <2>1. PICK pc \in {"refused", "create"} : Goto(r, pc)
    BY <1>2 DEF Check
  <2>2. req[r].pc = "check" /\ UNCHANGED <<stores, history>> /\ CreationInv(r)
    BY <1>2 DEF Check, HolderInv
  <2>3. CreationInv(r)'
    BY <2>1, <2>2, GotoFields DEF CreationInv, Known
  <2>4. \A s \in Requests \ {r} : req'[s] = req[s]
    BY <2>1 DEF Goto, TypeOK
  <2> QED BY <1>0, <2>2, <2>3, <2>4 DEF Known
<1>3. ASSUME NEW r \in Requests, Remove(r) PROVE HolderInv'
  <2>1. /\ req[r].pc = "remove" /\ UNCHANGED <<claims, doc, history>> /\ Goto(r, "create")
        /\ CreationInv(r) /\ seeded
    BY <1>3 DEF Remove, HolderInv, CreationInv
  <2>2. \A u \in Uids : auth'[u] = IF Known(u) THEN "gone" ELSE auth[u]
    BY <1>3 DEF Remove
  <2>3. \A u \in Uids : Known(u)' => Known(u)
    BY <2>2 DEF Known
  <2>4. CreationInv(r)'
    BY <2>1, <2>2, GotoFields DEF CreationInv, Known, Uids
  <2>5. ASSUME NEW s \in Requests \ {r} PROVE CreationInv(s)'
    <3>1. req'[s] = req[s]
      BY <2>1 DEF Goto, TypeOK
    <3>2. auth[s] = "none" => auth'[s] = "none"
      BY <2>2 DEF Known, Uids
    <3>3. s \in Uids
      BY DEF Uids
    <3> QED BY <2>1, <2>3, <3>1, <3>2, <3>3, OthersKept
  <2>6. \A s \in Requests : CreationInv(s)'
    BY <2>4, <2>5
  <2> QED BY <2>1, <2>3, <2>6, OneKept DEF HolderInv
<1>4. ASSUME NEW r \in Requests, Create(r) PROVE HolderInv'
  <2>1. req[r].pc = "create" /\ UNCHANGED <<claims, doc, history>> /\ CreationInv(r)
    BY <1>4 DEF Create, HolderInv
  <2>2. CASE \E u \in Uids : Known(u)
    <3>1. Goto(r, "refused") /\ UNCHANGED auth
      BY <1>4, <2>2 DEF Create
    <3>2. CreationInv(r)'
      BY <2>1, <3>1, GotoFields DEF CreationInv, Known
    <3>3. \A s \in Requests \ {r} : req'[s] = req[s]
      BY <3>1 DEF Goto, TypeOK
    <3> QED BY <1>0, <2>1, <3>1, <3>2, <3>3 DEF Known
  <2>3. CASE ~ \E u \in Uids : Known(u)
    <3>1. Goto(r, "claims") /\ auth' = [auth EXCEPT ![r] = "live"]
      BY <1>4, <2>3 DEF Create
    <3>2. /\ r \in Uids /\ auth'[r] = "live"
          /\ \A u \in Uids \ {r} : auth'[u] = auth[u]
      BY <3>1 DEF TypeOK, Uids
    <3>3. CreationInv(r)'
      BY <2>1, <3>1, <3>2, GotoFields DEF CreationInv, Known
    <3>4. ASSUME NEW s \in Requests \ {r} PROVE CreationInv(s)'
      <4>1. req'[s] = req[s]
        BY <3>1 DEF Goto, TypeOK
      <4>2. s \in Uids /\ auth'[s] = auth[s]
        BY <3>2 DEF Uids
      <4>3. Known(s)' <=> Known(s)
        BY <4>2 DEF Known
      <4> QED BY <2>1, <4>1, <4>2, <4>3, OthersKept
    <3>5. \A u \in Uids : Known(u)' => u = r
      BY <2>3, <3>2 DEF Known
    <3> QED BY <3>3, <3>4, <3>5 DEF HolderInv
  <2> QED BY <2>2, <2>3
<1>5. ASSUME NEW r \in Requests, SetClaims(r) PROVE HolderInv'
  <2>1. /\ req[r].pc = "claims" /\ UNCHANGED <<auth, doc, history>> /\ Goto(r, "doc") /\ CreationInv(r)
        /\ Known(req[r].uid)
    BY <1>5 DEF SetClaims, HolderInv
  <2>2. CreationInv(r)'
    BY <2>1, GotoFields DEF CreationInv, Known
  <2>3. \A s \in Requests \ {r} : req'[s] = req[s]
    BY <2>1 DEF Goto, TypeOK
  <2> QED BY <1>0, <2>1, <2>2, <2>3 DEF Known
<1>6. ASSUME NEW r \in Requests, StoreDoc(r) PROVE HolderInv'
  <2>1. /\ doc' = [doc EXCEPT ![req[r].uid] = NewDoc(r)] /\ req[r].pc = "doc"
        /\ UNCHANGED <<auth, claims, history>> /\ CreationInv(r)
    BY <1>6 DEF StoreDoc, HolderInv
  <2>2. \A u \in Uids : doc[u].there => doc'[u].there
    BY <2>1, NewDocTyped DEF TypeOK
  <2>3. PICK pc \in {"disable", "done", "last"} :
          Goto(r, pc) /\ (pc = "disable" <=> req[r].op = "deleteAdmin")
    BY <1>6, Zenon DEF StoreDoc
  <2>4. req[r].op \in Creations => doc'[r].there
    <3>1. req[r].op \in Creations => req[r].uid = r /\ r \in Uids /\ NewDoc(r).there
      BY <2>1, NewDocTyped DEF CreationInv, Uids
    <3> QED BY <2>1, <3>1 DEF TypeOK
  <2>5. CreationInv(r)'
    BY <2>1, <2>3, <2>4, GotoFields DEF CreationInv, Known
  <2>6. \A s \in Requests \ {r} : req'[s] = req[s]
    BY <2>3 DEF Goto, TypeOK
  <2> QED BY <1>0, <2>1, <2>2, <2>5, <2>6 DEF Known, Uids
<1>7. ASSUME NEW r \in Requests, Read(r) PROVE HolderInv'
  <2>1. req[r].pc = "read" /\ UNCHANGED <<stores, history>> /\ CreationInv(r)
    BY <1>7 DEF Read, HolderInv
  <2>2. /\ req'[r].op = req[r].op /\ req'[r].uid = req[r].uid
        /\ req'[r].pc \in {"refused", "doc", "claims"}
        /\ req[r].op = "migrate" /\ req'[r].pc # "refused" => req'[r].seen.role \in Roles
    BY <1>7, ReadFields
  <2>3. CreationInv(r)'
    BY <2>1, <2>2 DEF CreationInv, Known
  <2>4. \A s \in Requests \ {r} : req'[s] = req[s]
    BY <1>7, ReadFields
  <2> QED BY <1>0, <2>1, <2>3, <2>4 DEF Known
<1>8. ASSUME NEW r \in Requests, Finish(r) PROVE HolderInv'
  <2>1. /\ UNCHANGED <<claims, doc, history>> /\ Goto(r, "done") /\ CreationInv(r)
        /\ req[r].pc = "last" \/ (req[r].pc = "disable" /\ Known(req[r].uid))
    BY <1>8 DEF Finish, HolderInv
  <2>2. \A u \in Uids : auth'[u] = auth[u] \/ (Known(u) /\ auth'[u] = "disabled")
    BY <1>8, <2>1, RequestFields DEF Finish, TypeOK
  <2>3. \A u \in Uids : (Known(u)' <=> Known(u)) /\ (auth[u] = "none" => auth'[u] = "none")
    BY <2>2 DEF Known
  <2>4. CreationInv(r)'
    BY <2>1, <2>3, GotoFields DEF CreationInv, Uids
  <2>5. ASSUME NEW s \in Requests \ {r} PROVE CreationInv(s)'
    <3>1. req'[s] = req[s]
      BY <2>1 DEF Goto, TypeOK
    <3>2. s \in Uids
      BY DEF Uids
    <3> QED BY <2>1, <2>3, <3>1, <3>2, OthersKept
  <2>6. \A s \in Requests : CreationInv(s)'
    BY <2>4, <2>5
  <2> QED BY <2>1, <2>3, <2>6, OneKept DEF HolderInv
<1>9. ASSUME NEW r \in Requests, Fail(r) \/ Undo(r) \/ Dies(r) PROVE HolderInv'
  <2>1. PICK pc \in {"undo", "refused", "failed", "dead"} :
          /\ Goto(r, pc) /\ UNCHANGED <<claims, doc>> /\ InFlight(r)
          /\ pc = "undo" => Caught(r) /\ UNCHANGED auth
          /\ pc = "refused" => ~ Caught(r) /\ UNCHANGED auth /\ req[r].pc # "undo"
          /\ pc = "failed" => req[r].pc = "undo" /\ auth' = [auth EXCEPT ![r] = "gone"]
          /\ pc = "dead" => UNCHANGED auth
    <3>1. CASE Fail(r)
      BY <3>1, Zenon DEF Fail
    <3>2. CASE Undo(r)
      <4>1. InFlight(r)
        BY <3>2 DEF Undo, InFlight, Over
      <4> QED BY <3>2, <4>1, Zenon DEF Undo
    <3>3. CASE Dies(r)
      BY <3>3, Zenon DEF Dies
    <3> QED BY <1>9, <3>1, <3>2, <3>3, Zenon
  <2>2. seeded' = seeded /\ CreationInv(r)
    BY <1>9, FaultTyped DEF Fail, Undo, Dies, HolderInv
  <2>3. /\ \A s \in Requests \ {r} : auth'[s] = auth[s]
        /\ \A u \in Uids : Known(u)' => Known(u)
    BY <2>1 DEF TypeOK, Known, Uids
  <2>4. r \in Uids
    BY DEF Uids
  <2>5. pc = "failed" => ~ Known(r)'
    BY <2>1, <2>4 DEF Known, TypeOK
  <2>6. CreationInv(r)'
    <3>1. /\ req'[r].op = req[r].op /\ req'[r].uid = req[r].uid /\ req'[r].pc = pc
          /\ req'[r].seen = req[r].seen
      BY <2>1, GotoFields
    <3>2. pc = "refused" /\ req[r].op \in Creations => req[r].pc \in {"check", "create"}
      BY <2>1, <2>2, RequestFields DEF CreationInv, Caught, InFlight, Over
    <3>3. pc = "undo" => /\ req[r].op \in Creations /\ req[r].pc \in {"claims", "doc", "last"}
                         /\ UNCHANGED auth
      BY <2>1 DEF Caught
    <3>4. CASE pc = "undo"
      BY <2>2, <3>1, <3>3, <3>4 DEF CreationInv, Known
    <3>5. CASE pc = "refused"
      BY <2>1, <2>2, <3>1, <3>2, <3>5 DEF CreationInv, Known
    <3>6. CASE pc = "failed"
      BY <2>1, <2>2, <2>5, <3>1, <3>6 DEF CreationInv
    <3>7. CASE pc = "dead"
      BY <2>1, <2>2, <3>1, <3>7 DEF CreationInv
    <3> QED BY <2>1, <3>4, <3>5, <3>6, <3>7
  <2>7. \A s \in Requests \ {r} : req'[s] = req[s]
    BY <2>1 DEF Goto, TypeOK
  <2> QED BY <1>0, <2>1, <2>2, <2>3, <2>6, <2>7
<1>10. CASE UNCHANGED vars
  BY <1>10 DEF vars, HolderInv, CreationInv, Known
<1> QED BY <1>1, <1>2, <1>3, <1>4, <1>5, <1>6, <1>7, <1>8, <1>9, <1>10, Zenon DEF Next

(* The system starts typed, with at most the account from before.          *)
LEMMA StartsHeld == Init => TypeOK /\ HolderInv
<1> SUFFICES ASSUME Init PROVE TypeOK /\ HolderInv
  OBVIOUS
<1>1. PICK old \in {NoClaims} \cup {[role |-> r, roles |-> {}] : r \in Roles} :
        /\ \A u \in Uids : u # Legacy => auth[u] = "none" /\ claims[u] = NoClaims /\ doc[u] = NoDoc
        /\ auth[Legacy] \in {"none", "live"} /\ claims[Legacy] \in {old, NoClaims}
        /\ doc[Legacy] \in {NoDoc, Stored(old)}
        /\ auth = [u \in Uids |-> auth[u]] /\ claims = [u \in Uids |-> claims[u]]
        /\ doc = [u \in Uids |-> doc[u]]
  BY DEF Init, Uids
<1>2. old \in Claims /\ NoClaims \in Claims
  BY DEF NoClaims, Claims, Roles
<1>3. NoDoc \in Doc /\ Stored(old) \in Doc
  BY <1>2 DEF NoDoc, Stored, Doc
<1>4. \A r \in Requests : /\ [op |-> "seed", uid |-> r, role |-> "student", seen |-> NoClaims, pc |-> "new"] \in Request
                          /\ req[r] = [op |-> "seed", uid |-> r, role |-> "student", seen |-> NoClaims, pc |-> "new"]
  BY <1>2 DEF Init, Request, Ops, Creations, Uids, Roles
<1>5. req \in [Requests -> Request]
  BY <1>4 DEF Init
<1>6. crossed \subseteq Uids /\ seeded \in BOOLEAN /\ faults \in 0 .. MaxFaults
  <2>1. 0 \in 0 .. MaxFaults
    BY AccountsAssumption, SMT
  <2> QED BY <2>1 DEF Init
<1>7. TypeOK
  BY <1>1, <1>2, <1>3, <1>5, <1>6 DEF TypeOK, Uids
<1>8. \A r \in Requests : CreationInv(r)
  <2> SUFFICES ASSUME NEW r \in Requests PROVE CreationInv(r)
    OBVIOUS
  <2>1. req[r].op = "seed" /\ req[r].uid = r /\ req[r].pc = "new"
    BY Zenon DEF Init
  <2>2. auth[r] = "none"
    BY <1>1, AccountsAssumption DEF Uids
  <2> QED BY <2>1, <2>2 DEF CreationInv, Creations
<1> QED BY <1>1, <1>7, <1>8 DEF HolderInv, Known, Uids

(* The inductive invariant.                                                *)
THEOREM HolderInvariant == Spec => [](TypeOK /\ HolderInv)
  BY StartsHeld, TypeStep, HolderStep, PTL DEF Spec

(* Types, for any number of requests and failures.                         *)
THEOREM TypeCorrect == Spec => []TypeOK
  BY HolderInvariant, PTL

(* A creation that was answered leaves no Auth user without a document     *)
(* (RegisterUseCase.ts 32-69, CreateAdminUseCase.ts 31-61).                *)
THEOREM NoneBare == Spec => []NoBareAccount
<1>1. HolderInv => NoBareAccount
  <2> SUFFICES ASSUME HolderInv PROVE NoBareAccount
    OBVIOUS
  <2> QED BY DEF HolderInv, CreationInv, NoBareAccount, Over, Creations
<1> QED BY <1>1, HolderInvariant, PTL

(* Whoever was told that the account exists keeps it, and is the only one  *)
(* (RegisterUseCase.ts 23-30 and 67, CreateAdminUseCase.ts 22-29 and 59).  *)
THEOREM WinnersKept == Spec => []WinnerKept
<1>1. HolderInv => WinnerKept
  <2> SUFFICES ASSUME HolderInv, NEW r \in Requests, req[r].op \in Creations, req[r].pc = "done", ~ seeded
               PROVE  /\ Known(r) /\ doc[r].there
                      /\ \A s \in Requests : req[s].op \in Creations /\ req[s].pc = "done" => s = r
    BY Zenon DEF WinnerKept
  <2>1. \A s \in Requests : req[s].op \in Creations /\ req[s].pc = "done" => Known(s) /\ doc[s].there
    BY DEF HolderInv, CreationInv
  <2> QED BY <2>1 DEF HolderInv, Uids
<1> QED BY <1>1, HolderInvariant, PTL
----------------------------------------------------------------------------
\* The roles that claims and document give an account are the same.
Agree(u) == Effective(claims[u]) = Effective(doc[u].has)

\* A request that has not yet written both.
Works(r) == req[r].op # "deleteAdmin" /\ req[r].pc \in {"claims", "doc"}

\* What a request that works on an account knows of it, if it is the only one.
WorkInv(r) ==
  LET u == req[r].uid IN
  /\ req[r].pc = "claims" => req[r].op # "deleteAdmin"
  /\ Works(r) /\ req[r].pc = "doc" => claims[u].roles # {}
  /\ Works(r) /\ req[r].op = "migrate" => req[r].seen.roles = {}
  /\ Works(r) /\ u \notin crossed =>
       /\ req[r].pc = "doc" => claims[u] = NewClaims(r)
       /\ req[r].op = "migrate" /\ req[r].pc = "claims" => req[r].seen = claims[u]
       /\ req[r].op = "migrate" /\ req[r].pc = "doc" /\ doc[u].there => doc[u].has = req[r].seen

OneEach == \A r, s \in Requests :
  InFlight(r) /\ InFlight(s) /\ req[r].uid = req[s].uid /\ req[r].uid \notin crossed => r = s

\* Whose claims have no array have never been given new ones, and have the old document.
OldAlike == \A u \in Uids : claims[u].roles = {} /\ doc[u].there => doc[u].has = claims[u]

DoneAgree ==
  faults = 0 =>
    \A u \in Uids \ crossed :
      Known(u) /\ doc[u].there /\ (\A r \in Requests : Works(r) => req[r].uid # u) => Agree(u)

RolesInv == OneEach /\ OldAlike /\ DoneAgree /\ \A r \in Requests : WorkInv(r)

(* One role, in the old form or as an array, gives the same rights.        *)
LEMMA SameRights ==
  ASSUME NEW c \in Claims, NEW d \in Claims, NEW role \in Roles, c.roles = {role},
         d.roles = {role} \/ (d.roles = {} /\ d.role = role)
  PROVE  Effective(c) = Effective(d)
<1>1. RolesOf(c) = {role} /\ RolesOf(d) = {role}
  BY DEF RolesOf, Roles
<1> QED BY <1>1 DEF Effective

(* The claims and the document a request writes give the same rights; the  *)
(* migration writes those of the claims it read.                           *)
LEMMA NewAgree ==
  ASSUME TypeOK, HolderInv, NEW r \in Requests, Works(r)
  PROVE  /\ NewClaims(r) \in Claims /\ NewClaims(r).roles # {}
         /\ req[r].op = "migrate" /\ req[r].seen.roles = {} =>
              Effective(NewClaims(r)) = Effective(req[r].seen)
         /\ req[r].pc = "doc" /\ NewDoc(r).there => Effective(NewDoc(r).has) = Effective(NewClaims(r))
<1> DEFINE u == req[r].uid
<1>0. /\ u \in Uids /\ req[r].seen \in Claims /\ doc[u] \in Doc /\ req[r].role \in Roles
      /\ NewClaims(r) \in Claims
  BY RequestFields, NewClaimsTyped DEF TypeOK, Works
<1>1. CASE req[r].op = "migrate"
  <2>1. req[r].seen.role \in Roles
    BY <1>1 DEF HolderInv, CreationInv, Works
  <2>2. NewClaims(r) = Just(req[r].seen.role)
    BY <1>1, Zenon DEF NewClaims
  <2>3. NewClaims(r).roles = {req[r].seen.role}
    BY <2>2 DEF Just
  <2>4. req[r].seen.roles = {} => Effective(NewClaims(r)) = Effective(req[r].seen)
    BY <1>0, <2>1, <2>3, SameRights
  <2> DEFINE has == [doc[u].has EXCEPT !.roles = {req[r].seen.role}]
  <2>5. NewDoc(r) = IF doc[u].there THEN [doc[u] EXCEPT !.has = has] ELSE doc[u]
    BY <1>1, Zenon DEF NewDoc
  <2>6. doc[u].has \in Claims
    BY <1>0 DEF Doc
  <2>7. has \in Claims /\ has.roles = {req[r].seen.role}
    BY <2>1, <2>6 DEF Claims
  <2> HIDE DEF has
  <2>8. NewDoc(r).there => NewDoc(r).has = has
    <3>1. CASE doc[u].there
      <4>1. [doc[u] EXCEPT !.has = has].has = has
        BY <1>0 DEF Doc
      <4> QED BY <2>5, <3>1, <4>1, Zenon
    <3>2. CASE ~ doc[u].there
      BY <2>5, <3>2, Zenon
    <3> QED BY <3>1, <3>2
  <2>9. Effective(has) = Effective(NewClaims(r))
    BY <1>0, <2>1, <2>3, <2>7, SameRights
  <2>10. NewClaims(r).roles # {}
    BY <2>3
  <2> QED BY <1>0, <2>4, <2>8, <2>9, <2>10, Zenon
<1>2. CASE req[r].op = "promote"
  <2> DEFINE has == [role |-> "admin", roles |-> {"student", "admin"}]
  <2>1. NewClaims(r) = has /\ NewDoc(r) = Stored(has)
    BY <1>2, Zenon DEF NewClaims, NewDoc
  <2>2. has.roles # {}
    OBVIOUS
  <2> HIDE DEF has
  <2>3. Stored(has).has = has
    BY DEF Stored
  <2> QED BY <1>0, <1>2, <2>1, <2>2, <2>3
<1>3. CASE req[r].op \notin {"migrate", "promote"}
  <2> DEFINE has == Just(req[r].role)
  <2>1. NewClaims(r) = has /\ NewDoc(r) = Stored(has)
    <3>1. req[r].op \notin {"deleteAdmin", "migrate", "promote"}
      BY <1>3 DEF Works
    <3> QED BY <3>1, Zenon DEF NewClaims, NewDoc
  <2>2. has.roles # {}
    BY DEF Just
  <2> HIDE DEF has
  <2>3. Stored(has).has = has
    BY DEF Stored
  <2> QED BY <1>0, <1>3, <2>1, <2>2, <2>3
<1> QED BY <1>1, <1>2, <1>3

(* A step of a request that gives nobody claims or a document, and ends the*)
(* work, if there was any, only in a failure or with the Auth user gone.   *)
LEMMA QuietKeeps ==
  ASSUME TypeOK, RolesInv, NEW r \in Requests, \A s \in Requests \ {r} : req'[s] = req[s],
         UNCHANGED <<claims, doc, crossed>>, \A u \in Uids : Known(u)' => Known(u),
         req'[r].uid = req[r].uid, InFlight(r), ~ Works(r)', req'[r].pc # "claims",
         faults' = 0 => faults = 0 /\ (Works(r) => ~ Known(req[r].uid)')
  PROVE  RolesInv'
<1>0. req[r].uid \in Uids
  BY RequestFields
<1>1. OneEach'
  BY DEF RolesInv, OneEach, InFlight
<1>2. OldAlike'
  BY DEF RolesInv, OldAlike
<1>3. ASSUME NEW s \in Requests PROVE WorkInv(s)'
  <2>1. CASE s = r
    BY <2>1 DEF WorkInv
  <2>2. CASE s # r
    <3>1. req'[s] = req[s] /\ WorkInv(s)
      BY <2>2 DEF RolesInv
    <3> QED BY <3>1 DEF WorkInv, Works, NewClaims
  <2> QED BY <2>1, <2>2
<1>4. DoneAgree'
  <2> SUFFICES ASSUME faults' = 0, NEW u \in Uids \ crossed, Known(u)', doc[u].there,
                      \A s \in Requests : Works(s)' => req'[s].uid # u
               PROVE  Agree(u)'
    BY DEF DoneAgree
  <2>1. \A s \in Requests \ {r} : Works(s)' <=> Works(s)
    BY DEF Works
  <2>2. \A s \in Requests : Works(s) => req[s].uid # u
    BY <2>1
  <2>3. Known(u) /\ faults = 0
    OBVIOUS
  <2>4. Agree(u)
    BY <2>2, <2>3, Zenon DEF RolesInv, DoneAgree
  <2> QED BY <2>4 DEF Agree
<1> QED BY <1>1, <1>2, <1>3, <1>4 DEF RolesInv

(* What the other requests know stays true if the step writes nothing of   *)
(* their accounts, unless two requests work on one of them.                *)
LEMMA WorkKept ==
  ASSUME TypeOK, RolesInv, NEW r \in Requests, InFlight(r), NEW u \in Uids, u = req[r].uid,
         crossed' = crossed, \A v \in Uids \ {u} : claims'[v] = claims[v] /\ doc'[v] = doc[v],
         claims'[u] = claims[u] \/ claims'[u].roles # {},
         NEW s \in Requests, s # r, req'[s] = req[s]
  PROVE  WorkInv(s)'
<1>1. WorkInv(s) /\ req[s].uid \in Uids
  BY RequestFields DEF RolesInv
<1>2. CASE req[s].uid # u
  BY <1>1, <1>2 DEF WorkInv, Works, NewClaims
<1>3. CASE req[s].uid = u
  <2>1. Works(s) => u \in crossed
    <3>1. Works(s) => InFlight(s)
      BY DEF Works, InFlight, Over
    <3> QED BY <1>3, <3>1 DEF RolesInv, OneEach
  <2>2. (Works(s)' <=> Works(s))
    BY DEF Works
  <2> QED BY <1>1, <1>3, <2>1, <2>2 DEF WorkInv
<1> QED BY <1>2, <1>3

(* Beginning, reading, creating and writing keep it as well.               *)
LEMMA RolesStep == TypeOK /\ HolderInv /\ RolesInv /\ [Next]_vars => RolesInv'
<1> SUFFICES ASSUME TypeOK, HolderInv, RolesInv, [Next]_vars PROVE RolesInv'
  OBVIOUS
<1> USE DEF stores, history
<1>0. ASSUME NEW r \in Requests, NEW pc \in {"check", "create", "disable", "last", "undo", "done",
                                             "failed", "refused", "dead"},
             Goto(r, pc), InFlight(r), UNCHANGED <<claims, doc, crossed>>,
             \A u \in Uids : Known(u)' => Known(u),
             faults' = 0 => faults = 0 /\ (Works(r) => ~ Known(req[r].uid)')
      PROVE  RolesInv'
  <2>1. /\ \A s \in Requests \ {r} : req'[s] = req[s]
        /\ req'[r].uid = req[r].uid /\ req'[r].pc = pc
    BY <1>0, GotoFields DEF Goto, TypeOK
  <2>2. ~ Works(r)' /\ req'[r].pc # "claims"
    BY <2>1 DEF Works
  <2> QED BY <1>0, <2>1, <2>2, QuietKeeps
<1>1. ASSUME NEW r \in Requests, Check(r) \/ Remove(r) \/ Finish(r) PROVE RolesInv'
  <2>1. PICK pc \in {"refused", "create", "done"} : Goto(r, pc)
    BY <1>1 DEF Check, Remove, Finish
  <2>2. /\ InFlight(r) /\ ~ Works(r) /\ UNCHANGED <<claims, doc, history>>
    BY <1>1 DEF Check, Remove, Finish, InFlight, Over, Works
  <2>3. \A u \in Uids : Known(u)' => Known(u)
    <3>1. CASE Remove(r)
      BY <3>1 DEF Remove, Known
    <3>2. CASE ~ Remove(r)
      <4>1. \A u \in Uids : auth'[u] = auth[u] \/ (Known(u) /\ auth'[u] = "disabled")
        BY <1>1, <3>2, RequestFields DEF Check, Finish, TypeOK
      <4> QED BY <4>1 DEF Known
    <3> QED BY <3>1, <3>2
  <2> QED BY <1>0, <2>1, <2>2, <2>3
<1>2. ASSUME NEW r \in Requests, Fail(r) \/ Undo(r) \/ Dies(r) PROVE RolesInv'
  <2>1. PICK pc \in {"undo", "refused", "failed", "dead"} : Goto(r, pc)
    BY <1>2, Zenon DEF Fail, Undo, Dies
  <2>2. /\ InFlight(r) /\ UNCHANGED <<claims, doc>> /\ auth' \in {auth, [auth EXCEPT ![r] = "gone"]}
        /\ Fault \/ UNCHANGED history
    <3>1. Undo(r) => InFlight(r)
      BY DEF Undo, InFlight, Over
    <3>2. Fail(r) \/ Dies(r) => InFlight(r)
      BY Zenon DEF Fail, Dies
    <3>3. UNCHANGED <<claims, doc>> /\ (Fault \/ UNCHANGED history)
      BY <1>2, Zenon DEF Fail, Undo, Dies
    <3>4. auth' \in {auth, [auth EXCEPT ![r] = "gone"]}
      BY <1>2, Zenon DEF Fail, Undo, Dies
    <3> QED BY <1>2, <3>1, <3>2, <3>3, <3>4
  <2>3. \A u \in Uids : Known(u)' => Known(u)
    BY <2>2 DEF Known, TypeOK
  <2>4. faults' = 0 => UNCHANGED history
    BY <2>2, SMT DEF Fault, TypeOK
  <2>5. crossed' = crossed
    BY <2>2, FaultTyped
  <2>6. faults' = 0 => (Works(r) => ~ Known(req[r].uid)')
    <3> SUFFICES ASSUME faults' = 0, Works(r) PROVE ~ Known(req[r].uid)'
      OBVIOUS
    <3>1. ~ Fault
      BY <2>4, SMT DEF Fault, TypeOK
    <3>2. Fail(r)
      <4>1. req[r].pc # "undo"
        BY DEF Works
      <4> QED BY <1>2, <3>1, <4>1, Zenon DEF Undo, Dies
    <3>3. ~ Known(req[r].uid) /\ UNCHANGED auth
      BY <3>1, <3>2, Zenon DEF Fail
    <3>4. req'[r].uid = req[r].uid
      BY <2>1, GotoFields
    <3> QED BY <3>3, <3>4 DEF Known
  <2> QED BY <1>0, <2>1, <2>2, <2>3, <2>4, <2>5, <2>6
<1>3. ASSUME NEW r \in Requests, NEW op \in Ops, NEW u \in Uids, NEW role \in Roles,
             Begin(r, op, u, role)
      PROVE  RolesInv'
  <2>1. /\ UNCHANGED <<stores, faults>> /\ req[r].pc = "new"
        /\ crossed' = IF \E s \in Requests \ {r} : InFlight(s) /\ req[s].uid = u
                      THEN crossed \cup {u} ELSE crossed
    BY <1>3 DEF Begin
  <2>2. /\ req'[r].uid = u /\ req'[r].pc \in {"check", "remove", "read"}
        /\ \A s \in Requests \ {r} : req'[s] = req[s]
    BY <1>3, BeginFields
  <2>3. ~ Works(r) /\ ~ Works(r)' /\ \A s \in Requests \ {r} : Works(s)' <=> Works(s)
    BY <2>1, <2>2 DEF Works
  <2>4. OneEach'
    BY <2>1, <2>2 DEF RolesInv, OneEach, InFlight
  <2>5. OldAlike'
    BY <2>1 DEF RolesInv, OldAlike
  <2>6. ASSUME NEW s \in Requests PROVE WorkInv(s)'
    <3>1. CASE s = r
      BY <2>2, <2>3, <3>1 DEF WorkInv
    <3>2. CASE s # r
      BY <2>1, <2>2, <3>2 DEF RolesInv, WorkInv, Works, NewClaims
    <3> QED BY <3>1, <3>2
  <2>7. DoneAgree'
    <3> SUFFICES ASSUME faults' = 0, NEW v \in Uids \ crossed', Known(v)', doc'[v].there,
                        \A s \in Requests : Works(s)' => req'[s].uid # v
                 PROVE  Agree(v)'
      BY DEF DoneAgree
    <3>1. v \notin crossed /\ Known(v) /\ doc[v].there /\ faults = 0
      BY <2>1 DEF Known
    <3>2. \A s \in Requests : Works(s) => req[s].uid # v
      BY <2>2, <2>3
    <3>3. Agree(v)
      BY <3>1, <3>2, Zenon DEF RolesInv, DoneAgree
    <3> QED BY <2>1, <3>3 DEF Agree
  <2> QED BY <2>4, <2>5, <2>6, <2>7 DEF RolesInv
<1>4. ASSUME NEW r \in Requests, Create(r) PROVE RolesInv'
  <2>1. req[r].pc = "create" /\ UNCHANGED <<claims, doc, history>> /\ InFlight(r) /\ ~ Works(r)
    BY <1>4 DEF Create, InFlight, Over, Works
  <2>2. CASE \E u \in Uids : Known(u)
    <3>1. Goto(r, "refused") /\ UNCHANGED auth
      BY <1>4, <2>2 DEF Create
    <3>2. \A u \in Uids : Known(u)' => Known(u)
      BY <3>1 DEF Known
    <3> QED BY <1>0, <2>1, <3>1, <3>2
  <2>3. CASE ~ \E u \in Uids : Known(u)
    <3>1. Goto(r, "claims") /\ auth' = [auth EXCEPT ![r] = "live"]
      BY <1>4, <2>3 DEF Create
    <3>2. req[r].op \in Creations \cup {"seed"} /\ req[r].uid = r /\ r \in Uids
      BY <2>1 DEF HolderInv, CreationInv, Uids
    <3>3. /\ req'[r].op = req[r].op /\ req'[r].uid = r /\ req'[r].pc = "claims"
          /\ \A s \in Requests \ {r} : req'[s] = req[s]
      BY <3>1, <3>2, GotoFields DEF Goto, TypeOK
    <3>4. \A s \in Requests \ {r} : Works(s)' <=> Works(s)
      BY <3>3 DEF Works
    <3>5. OneEach'
      BY <2>1, <3>2, <3>3 DEF RolesInv, OneEach, InFlight
    <3>6. OldAlike'
      BY <2>1 DEF RolesInv, OldAlike
    <3>7. ASSUME NEW s \in Requests PROVE WorkInv(s)'
      <4>1. CASE s = r
        BY <3>2, <3>3, <4>1 DEF WorkInv, Creations
      <4>2. CASE s # r
        BY <2>1, <3>3, <4>2 DEF RolesInv, WorkInv, Works, NewClaims
      <4> QED BY <4>1, <4>2
    <3>8. DoneAgree'
      <4> SUFFICES ASSUME NEW u \in Uids \ crossed, Known(u)',
                          \A s \in Requests : Works(s)' => req'[s].uid # u
                   PROVE  FALSE
        BY <2>1 DEF DoneAgree
      <4>1. u = r
        BY <2>3, <3>1, <3>2 DEF Known, TypeOK
      <4>2. Works(r)'
        BY <3>2, <3>3 DEF Works, Creations
      <4> QED BY <3>3, <4>1, <4>2
    <3> QED BY <3>5, <3>6, <3>7, <3>8 DEF RolesInv
  <2> QED BY <2>2, <2>3
<1>5. ASSUME NEW r \in Requests, Read(r) PROVE RolesInv'
  <2>1. /\ req[r].pc = "read" /\ UNCHANGED <<stores, history>> /\ InFlight(r) /\ ~ Works(r)
    BY <1>5 DEF Read, InFlight, Over, Works
  <2>2. /\ req'[r].op = req[r].op /\ req'[r].uid = req[r].uid
        /\ req'[r].pc \in {"refused", "doc", "claims"} /\ req'[r].seen = claims[req[r].uid]
        /\ (req'[r].pc = "doc" => req[r].op = "deleteAdmin")
        /\ (req'[r].pc = "claims" => req[r].op # "deleteAdmin")
        /\ req[r].op = "migrate" /\ req'[r].pc # "refused" => req'[r].seen.roles = {}
        /\ \A s \in Requests \ {r} : req'[s] = req[s]
    BY <1>5, ReadFields
  <2>3. \A s \in Requests \ {r} : Works(s)' <=> Works(s)
    BY <2>2 DEF Works
  <2>4. OneEach'
    BY <2>1, <2>2 DEF RolesInv, OneEach, InFlight
  <2>5. OldAlike'
    BY <2>1 DEF RolesInv, OldAlike
  <2>6. ASSUME NEW s \in Requests PROVE WorkInv(s)'
    <3>1. CASE s = r
      <4>1. Works(r)' => req'[r].pc = "claims"
        BY <2>2 DEF Works
      <4> QED BY <2>1, <2>2, <3>1, <4>1 DEF WorkInv
    <3>2. CASE s # r
      BY <2>1, <2>2, <3>2 DEF RolesInv, WorkInv, Works, NewClaims
    <3> QED BY <3>1, <3>2
  <2>7. DoneAgree'
    <3> SUFFICES ASSUME faults = 0, NEW u \in Uids \ crossed, Known(u), doc[u].there,
                        \A s \in Requests : Works(s)' => req'[s].uid # u
                 PROVE  Agree(u)'
      BY <2>1 DEF DoneAgree, Known
    <3>1. \A s \in Requests : Works(s) => req[s].uid # u
      BY <2>1, <2>2, <2>3
    <3>2. Agree(u)
      BY <3>1, Zenon DEF RolesInv, DoneAgree
    <3> QED BY <2>1, <3>2 DEF Agree
  <2> QED BY <2>4, <2>5, <2>6, <2>7 DEF RolesInv
<1>6. ASSUME NEW r \in Requests, SetClaims(r) PROVE RolesInv'
  <2>1. /\ req[r].pc = "claims" /\ UNCHANGED <<auth, doc, history>> /\ Goto(r, "doc")
        /\ claims' = [claims EXCEPT ![req[r].uid] = NewClaims(r)]
    BY <1>6 DEF SetClaims
  <2>2. PICK u \in Uids : u = req[r].uid
    BY RequestFields
  <2>3. /\ req'[r].op = req[r].op /\ req'[r].uid = u /\ req'[r].pc = "doc"
        /\ req'[r].seen = req[r].seen /\ req'[r].role = req[r].role
        /\ \A s \in Requests \ {r} : req'[s] = req[s]
    BY <2>1, <2>2, GotoFields DEF Goto, TypeOK
  <2>4. req[r].op # "deleteAdmin" /\ Works(r) /\ InFlight(r) /\ Works(r)'
    <3>1. req[r].op # "deleteAdmin"
      BY <2>1, <1>6 DEF RolesInv, WorkInv
    <3> QED BY <2>1, <2>3, <3>1 DEF Works, InFlight, Over
  <2>5. NewClaims(r) \in Claims /\ NewClaims(r).roles # {} /\ NewClaims(r)' = NewClaims(r)
    BY <2>3, <2>4, NewAgree DEF NewClaims
  <2>6. claims'[u] = NewClaims(r) /\ \A v \in Uids \ {u} : claims'[v] = claims[v]
    BY <2>1, <2>2, <2>5 DEF TypeOK
  <2>7. OneEach'
    BY <2>1, <2>2, <2>3, <2>4 DEF RolesInv, OneEach, InFlight
  <2>8. OldAlike'
    BY <2>1, <2>5, <2>6 DEF RolesInv, OldAlike
  <2>9. ASSUME NEW s \in Requests PROVE WorkInv(s)'
    <3>1. CASE s = r
      <4>1. u \notin crossed /\ req[r].op = "migrate" /\ doc[u].there => doc[u].has = req[r].seen
        <5>1. u \notin crossed /\ req[r].op = "migrate" => req[r].seen = claims[u] /\ claims[u].roles = {}
          BY <2>1, <2>2, <2>4 DEF RolesInv, WorkInv
        <5> QED BY <5>1 DEF RolesInv, OldAlike
      <4>2. req[r].op = "migrate" => req[r].seen.roles = {}
        BY <2>4 DEF RolesInv, WorkInv
      <4> QED BY <2>1, <2>3, <2>5, <2>6, <3>1, <4>1, <4>2 DEF WorkInv
    <3>2. CASE s # r
      BY <2>1, <2>2, <2>3, <2>4, <2>5, <2>6, <3>2, WorkKept
    <3> QED BY <3>1, <3>2
  <2>10. DoneAgree'
    <3> SUFFICES ASSUME faults = 0, NEW v \in Uids \ crossed, Known(v), doc[v].there,
                        \A s \in Requests : Works(s)' => req'[s].uid # v
                 PROVE  Agree(v)'
      BY <2>1 DEF DoneAgree, Known
    <3>1. v # u
      BY <2>3, <2>4
    <3>2. \A s \in Requests : Works(s) => req[s].uid # v
      <4>1. \A s \in Requests \ {r} : Works(s)' <=> Works(s)
        BY <2>3 DEF Works
      <4> QED BY <2>2, <2>3, <3>1, <4>1
    <3>3. Agree(v)
      BY <3>2, Zenon DEF RolesInv, DoneAgree
    <3> QED BY <2>1, <2>6, <3>1, <3>3 DEF Agree
  <2> QED BY <2>7, <2>8, <2>9, <2>10 DEF RolesInv
<1>7. ASSUME NEW r \in Requests, StoreDoc(r) PROVE RolesInv'
  <2>1. /\ req[r].pc = "doc" /\ UNCHANGED <<auth, claims, history>>
        /\ doc' = [doc EXCEPT ![req[r].uid] = NewDoc(r)]
    BY <1>7 DEF StoreDoc
  <2>2. PICK u \in Uids : u = req[r].uid
    BY RequestFields
  <2>3. PICK pc \in {"disable", "done", "last"} : Goto(r, pc)
    BY <1>7, Zenon DEF StoreDoc
  <2>4. /\ req'[r].uid = u /\ req'[r].pc = pc /\ InFlight(r) /\ ~ Works(r)'
        /\ \A s \in Requests \ {r} : req'[s] = req[s]
    BY <2>1, <2>2, <2>3, GotoFields DEF Goto, TypeOK, InFlight, Over, Works
  <2>5. /\ NewDoc(r) \in Doc /\ doc'[u] = NewDoc(r) /\ \A v \in Uids \ {u} : doc'[v] = doc[v]
    BY <2>1, <2>2, NewDocTyped DEF TypeOK
  <2>6. req[r].op = "deleteAdmin" => NewDoc(r).has = doc[u].has /\ NewDoc(r).there = doc[u].there
    <3>1. doc[u] \in Doc
      BY DEF TypeOK
    <3>2. /\ [doc[u] EXCEPT !.deleted = TRUE].has = doc[u].has
          /\ [doc[u] EXCEPT !.deleted = TRUE].there = doc[u].there
      BY <3>1 DEF Doc
    <3> SUFFICES ASSUME req[r].op = "deleteAdmin" PROVE NewDoc(r) = [doc[u] EXCEPT !.deleted = TRUE]
      BY <3>2
    <3> QED BY <2>2, Zenon DEF NewDoc
  <2>7. Works(r) <=> req[r].op # "deleteAdmin"
    BY <2>1 DEF Works
  <2>8. OneEach'
    BY <2>1, <2>2, <2>4 DEF RolesInv, OneEach, InFlight
  <2>9. OldAlike'
    <3>1. req[r].op # "deleteAdmin" => claims[u].roles # {}
      BY <2>1, <2>2, <2>7 DEF RolesInv, WorkInv
    <3> QED BY <2>1, <2>5, <2>6, <3>1 DEF RolesInv, OldAlike
  <2>10. ASSUME NEW s \in Requests PROVE WorkInv(s)'
    <3>1. CASE s = r
      BY <2>4, <3>1 DEF WorkInv
    <3>2. CASE s # r
      BY <2>1, <2>2, <2>4, <2>5, <3>2, WorkKept
    <3> QED BY <3>1, <3>2
  <2>11. DoneAgree'
    <3> SUFFICES ASSUME faults = 0, NEW v \in Uids \ crossed, Known(v), doc'[v].there,
                        \A s \in Requests : Works(s)' => req'[s].uid # v
                 PROVE  Agree(v)'
      BY <2>1 DEF DoneAgree, Known
    <3>1. \A s \in Requests \ {r} : Works(s) => req[s].uid # v
      <4>1. \A s \in Requests \ {r} : Works(s)' <=> Works(s)
        BY <2>4 DEF Works
      <4> QED BY <2>4, <4>1
    <3>2. CASE v # u \/ ~ Works(r)
      <4>1. doc'[v].has = doc[v].has /\ doc'[v].there = doc[v].there
        BY <2>5, <2>6, <2>7, <3>2
      <4>2. \A s \in Requests : Works(s) => req[s].uid # v
        BY <2>2, <3>1, <3>2
      <4>3. Agree(v)
        BY <4>1, <4>2, Zenon DEF RolesInv, DoneAgree
      <4> QED BY <2>1, <4>1, <4>3 DEF Agree
    <3>3. CASE v = u /\ Works(r)
      <4>1. claims[u] = NewClaims(r)
        BY <2>1, <2>2, <3>3 DEF RolesInv, WorkInv
      <4>2. Effective(NewDoc(r).has) = Effective(NewClaims(r))
        BY <2>1, <2>5, <3>3, NewAgree
      <4> QED BY <2>1, <2>5, <3>3, <4>1, <4>2 DEF Agree
    <3> QED BY <3>2, <3>3
  <2> QED BY <2>8, <2>9, <2>10, <2>11 DEF RolesInv
<1>8. CASE UNCHANGED vars
  BY <1>8 DEF vars, RolesInv, OneEach, InFlight, OldAlike, DoneAgree, WorkInv, Works, Agree, Known,
              NewClaims
<1> QED BY <1>1, <1>2, <1>3, <1>4, <1>5, <1>6, <1>7, <1>8, Zenon DEF Next

LEMMA RolesStart == Init => RolesInv
<1> SUFFICES ASSUME Init PROVE RolesInv
  OBVIOUS
<1>1. \A r \in Requests : req[r].pc = "new"
  BY DEF Init
<1>2. PICK old \in {NoClaims} \cup {[role |-> r, roles |-> {}] : r \in Roles} :
        /\ claims[Legacy] = old
        /\ doc[Legacy] = IF old = NoClaims THEN NoDoc ELSE Stored(old)
        /\ \A u \in Uids : u # Legacy => doc[u] = NoDoc
  BY DEF Init, Uids
<1>3. \A u \in Uids : doc[u].there => doc[u].has = claims[u]
  BY <1>2 DEF NoDoc, Stored
<1>4. \A u \in Uids : doc[u].there => Agree(u)
  BY <1>3 DEF Agree
<1> QED BY <1>1, <1>3, <1>4, Zenon DEF RolesInv, OneEach, OldAlike, DoneAgree, WorkInv, Works, InFlight, Over

(* The claims and the document give an account the same roles, unless two  *)
(* requests worked on it at once or a call failed, for any number of       *)
(* requests (PromoteToAdminUseCase.ts 28-45, migrate-roles.js 59-86).      *)
THEOREM RolesStayAgreed == Spec => []RolesAgree
<1>1. RolesInv => RolesAgree
  <2> SUFFICES ASSUME RolesInv, faults = 0, NEW u \in Uids \ crossed, Known(u), doc[u].there,
                      \A r \in Requests : InFlight(r) => req[r].uid # u
               PROVE  Effective(claims[u]) = Effective(doc[u].has)
    BY Zenon DEF RolesAgree
  <2>1. \A r \in Requests : Works(r) => req[r].uid # u
    BY DEF Works, InFlight, Over
  <2>2. Agree(u)
    BY <2>1, Zenon DEF RolesInv, DoneAgree
  <2> QED BY <2>2 DEF Agree
<1> QED BY <1>1, StartsHeld, TypeStep, HolderStep, RolesStart, RolesStep, PTL DEF Spec

\* What every step of a migration keeps.
AllRightsKept == \A r \in Requests : RightsKept(r)

(* The migration writes the rights of the claims it read, which the        *)
(* document still has.                                                     *)
LEMMA MigrationStep ==
  TypeOK /\ HolderInv /\ RolesInv /\ [Next]_vars => [AllRightsKept]_vars
<1> SUFFICES ASSUME TypeOK, HolderInv, RolesInv, Next, NEW r \in Requests, req[r].op = "migrate",
                    req'[r] # req[r], NEW u \in Uids, u = req[r].uid, u \notin crossed
             PROVE  /\ Effective(claims'[u]) = Effective(claims[u])
                    /\ Effective(doc'[u].has) = Effective(doc[u].has)
  BY RequestFields DEF AllRightsKept, RightsKept
<1> USE DEF stores, history
<1>0. ASSUME NEW q \in Requests, NEW pc, Goto(q, pc) PROVE q = r
  BY <1>0 DEF Goto, TypeOK
<1>1. ASSUME NEW q \in Requests, NEW op \in Ops, NEW v \in Uids, NEW role \in Roles, Begin(q, op, v, role)
      PROVE  FALSE
  <2>1. req[q].pc = "new" /\ \A s \in Requests \ {q} : req'[s] = req[s]
    BY <1>1, BeginFields DEF Begin
  <2> QED BY <2>1 DEF HolderInv, CreationInv
<1>2. ASSUME NEW q \in Requests, SetClaims(q)
      PROVE  /\ Effective(claims'[u]) = Effective(claims[u])
             /\ Effective(doc'[u].has) = Effective(doc[u].has)
  <2>1. /\ q = r /\ req[r].pc = "claims" /\ doc' = doc
        /\ claims' = [claims EXCEPT ![u] = NewClaims(r)]
    BY <1>0, <1>2 DEF SetClaims
  <2>2. Works(r) /\ req[r].seen = claims[u] /\ req[r].seen.roles = {}
    BY <2>1 DEF RolesInv, WorkInv, Works
  <2>3. Effective(NewClaims(r)) = Effective(claims[u])
    BY <2>2, NewAgree
  <2>4. claims'[u] = NewClaims(r)
    BY <2>1 DEF TypeOK
  <2> QED BY <2>1, <2>3, <2>4
<1>3. ASSUME NEW q \in Requests, StoreDoc(q)
      PROVE  /\ Effective(claims'[u]) = Effective(claims[u])
             /\ Effective(doc'[u].has) = Effective(doc[u].has)
  <2>1. q = r
    <3>1. PICK pc \in {"disable", "done", "last"} : Goto(q, pc)
      BY <1>3, Zenon DEF StoreDoc
    <3> QED BY <1>0, <3>1
  <2>2. req[r].pc = "doc" /\ claims' = claims /\ doc' = [doc EXCEPT ![u] = NewDoc(r)]
    BY <1>3, <2>1 DEF StoreDoc
  <2>3. doc'[u] = NewDoc(r)
    BY <2>2 DEF TypeOK
  <2>4. /\ Works(r) /\ req[r].seen.roles = {} /\ (doc[u].there => doc[u].has = req[r].seen)
    BY <2>2 DEF RolesInv, WorkInv, Works
  <2>5. CASE doc[u].there
    <3>1. NewDoc(r).there
      BY <2>2, <2>5, NewDocTyped
    <3>2. /\ Effective(NewDoc(r).has) = Effective(NewClaims(r))
          /\ Effective(NewClaims(r)) = Effective(req[r].seen)
      BY <2>2, <2>4, <3>1, NewAgree
    <3> QED BY <2>2, <2>3, <2>4, <2>5, <3>2
  <2>6. CASE ~ doc[u].there
    <3>1. NewDoc(r) = doc[u]
      BY <2>6, Zenon DEF NewDoc
    <3> QED BY <2>2, <2>3, <3>1
  <2> QED BY <2>5, <2>6
<1>4. ASSUME NEW q \in Requests,
             Check(q) \/ Remove(q) \/ Create(q) \/ Read(q) \/ Finish(q) \/ Fail(q) \/ Undo(q) \/ Dies(q)
      PROVE  UNCHANGED <<claims, doc>>
  BY <1>4, Zenon DEF Check, Remove, Create, Read, Finish, Fail, Undo, Dies
<1> QED BY <1>1, <1>2, <1>3, <1>4 DEF Next

(* The migration changes nobody's rights, unless another request worked on *)
(* the account at once, for any number of requests and failures            *)
(* (migrate-roles.js 68-79).                                               *)
THEOREM MigrationKeepsRights == Spec => MigrationKeeps
<1>1. Spec => [][AllRightsKept]_vars
  BY StartsHeld, TypeStep, HolderStep, RolesStart, RolesStep, MigrationStep, PTL DEF Spec
<1> QED BY <1>1 DEF MigrationKeeps, AllRightsKept
----------------------------------------------------------------------------
(***************************************************************************)
(* The counters of failed logins and reset codes, module SignInCounters.   *)
(***************************************************************************)

(* A request as it is when it has been answered.                           *)
Ended(r, answer) ==
  [call[r] EXCEPT !.pc = answer, !.end = IF call[r].op = "track" THEN now ELSE 0, !.login = NoLogin]

Awaits == {"new", "read", "save", "lock", "send", "drop", "consume"} \cup Answers

(* The constants as the provers need them.                                 *)
LEMMA Numbers ==
  /\ LOCKOUT_THRESHOLD \in Nat \ {0} /\ WINDOW \in Nat \ {0} /\ MAX_ATTEMPTS \in Nat \ {0}
  /\ OTP_TTL \in Nat \ {0} /\ MaxNow \in Nat /\ MaxBreaks \in Nat
  /\ IsFiniteSet(Calls) /\ None \notin Calls
  /\ Cardinality(Calls) \in Nat
<1>1. IsFiniteSet(Calls)
  BY CountersAssumption
<1>2. Cardinality(Calls) \in Nat
  BY <1>1, FS_CardinalityType
<1> QED BY <1>1, <1>2, CountersAssumption DEF None

(* A request keeps its types, and the times and counts it holds are numbers. *)
LEMMA SignInFields ==
  ASSUME CountersTypeOK, NEW r \in Calls
  PROVE  /\ call[r] \in Call /\ call[r].op \in {"track", "reset", "verify"} /\ call[r].pc \in Awaits
         /\ call[r].at \in Nat /\ call[r].end \in Nat /\ call[r].code \in Calls
         /\ call[r].login \in Login /\ call[r].login.attempts \in Nat /\ call[r].login.windowStart \in Nat
         /\ call[r].otp \in Otp /\ call[r].otp.attempts \in Nat
<1>1. call[r] \in Call
  BY DEF CountersTypeOK
<1>2. /\ call[r].op \in {"track", "reset", "verify"} /\ call[r].pc \in Awaits
      /\ call[r].at \in Times /\ call[r].end \in Times /\ call[r].code \in Calls
      /\ call[r].login \in Login /\ call[r].otp \in Otp
  BY <1>1 DEF Call, Awaits
<1>3. \A k \in Login : k.attempts \in 0 .. Cardinality(Calls) /\ k.windowStart \in Times
  BY DEF Login
<1>4. \A k \in Otp : k.attempts \in 0 .. MAX_ATTEMPTS
  BY DEF Otp
<1> QED BY <1>1, <1>2, <1>3, <1>4, Numbers DEF Times

(* One request that is replaced by another.                                *)
LEMMA OneChanges ==
  ASSUME CountersTypeOK, NEW r \in Calls, NEW k \in Call, call' = [call EXCEPT ![r] = k]
  PROVE  /\ call' \in [Calls -> Call] /\ call'[r] = k
         /\ \A s \in Calls : call'[s] = IF s = r THEN k ELSE call[s]
         /\ \A s \in Calls \ {r} : call'[s] = call[s]
<1>1. call \in [Calls -> Call]
  BY DEF CountersTypeOK
<1> QED BY <1>1

(* A request that goes to another await keeps all else.                    *)
LEMMA GoesOn ==
  ASSUME CountersTypeOK, NEW r \in Calls, NEW pc \in Awaits, Await(r, pc)
  PROVE  /\ call' \in [Calls -> Call]
         /\ \A s \in Calls \ {r} : call'[s] = call[s]
         /\ call'[r].pc = pc
         /\ call'[r].op = call[r].op /\ call'[r].at = call[r].at /\ call'[r].end = call[r].end
         /\ call'[r].login = call[r].login /\ call'[r].otp = call[r].otp
<1> DEFINE k == [call[r] EXCEPT !.pc = pc]
<1>1. call[r] \in Call /\ call \in [Calls -> Call]
  BY DEF CountersTypeOK
<1>2. k \in Call
  BY <1>1 DEF Call, Awaits
<1>3. call' = [call EXCEPT ![r] = k]
  BY DEF Await
<1>4. /\ call' \in [Calls -> Call] /\ call'[r] = k
      /\ \A s \in Calls \ {r} : call'[s] = call[s]
  <2> HIDE DEF k
  <2> QED BY <1>2, <1>3, OneChanges
<1>5. /\ k.pc = pc /\ k.op = call[r].op /\ k.at = call[r].at /\ k.end = call[r].end
      /\ k.login = call[r].login /\ k.otp = call[r].otp
  BY <1>1 DEF Call
<1> QED BY <1>4, <1>5

(* A request that is answered keeps what it was and what it read of a code. *)
LEMMA Answered ==
  ASSUME CountersTypeOK, NEW r \in Calls, NEW answer \in Answers, End(r, answer)
  PROVE  /\ call' \in [Calls -> Call]
         /\ \A s \in Calls \ {r} : call'[s] = call[s]
         /\ call'[r].pc = answer
         /\ call'[r].op = call[r].op /\ call'[r].at = call[r].at
         /\ call'[r].end = IF call[r].op = "track" THEN now ELSE 0
         /\ call'[r].login = NoLogin /\ call'[r].otp = call[r].otp
<1> DEFINE k == Ended(r, answer)
<1>1. call[r] \in Call /\ call \in [Calls -> Call] /\ now \in Times
  BY DEF CountersTypeOK
<1>2. NoLogin \in Login /\ 0 \in Times
  BY Numbers DEF NoLogin, Login, Times
<1>3. k \in Call
  BY <1>1, <1>2 DEF Call, Ended
<1>4. call' = [call EXCEPT ![r] = k]
  BY <1>1 DEF End, Ended
<1>5. /\ call' \in [Calls -> Call] /\ call'[r] = k
      /\ \A s \in Calls \ {r} : call'[s] = call[s]
  <2> HIDE DEF k
  <2> QED BY <1>3, <1>4, OneChanges
<1>6. /\ k.pc = answer /\ k.op = call[r].op /\ k.at = call[r].at
      /\ k.end = IF call[r].op = "track" THEN now ELSE 0
      /\ k.login = NoLogin /\ k.otp = call[r].otp
  BY <1>1 DEF Call, Ended
<1> QED BY <1>5, <1>6

(* A request that begins.                                                  *)
LEMMA Begun ==
  ASSUME CountersTypeOK, NEW r \in Calls, NEW op \in {"track", "reset", "verify"},
         NEW code \in Calls, Receive(r, op, code)
  PROVE  /\ call' \in [Calls -> Call]
         /\ \A s \in Calls \ {r} : call'[s] = call[s]
         /\ call[r].pc = "new" /\ call'[r].pc = (IF op = "reset" THEN "save" ELSE "read")
         /\ call'[r].op = op /\ call'[r].at = (IF op = "verify" THEN 0 ELSE now) /\ call'[r].end = call[r].end
         /\ call'[r].login = call[r].login /\ call'[r].otp = call[r].otp
<1> DEFINE k == [call[r] EXCEPT !.op = op, !.code = code, !.at = IF op = "verify" THEN 0 ELSE now,
                               !.pc = IF op = "reset" THEN "save" ELSE "read"]
<1>1. call[r] \in Call /\ call \in [Calls -> Call] /\ now \in Times /\ 0 \in Times
  BY Numbers DEF CountersTypeOK, Times
<1>2. k \in Call
  BY <1>1 DEF Call
<1>3. call' = [call EXCEPT ![r] = k]
  BY <1>1 DEF Receive
<1>4. /\ call' \in [Calls -> Call] /\ call'[r] = k
      /\ \A s \in Calls \ {r} : call'[s] = call[s]
  <2> HIDE DEF k
  <2> QED BY <1>2, <1>3, OneChanges
<1>5. /\ k.pc = (IF op = "reset" THEN "save" ELSE "read") /\ k.op = op
      /\ k.at = (IF op = "verify" THEN 0 ELSE now) /\ k.end = call[r].end
      /\ k.login = call[r].login /\ k.otp = call[r].otp
  BY <1>1 DEF Call
<1> QED BY <1>4, <1>5 DEF Receive

(* A failed login that has read the counter.                               *)
LEMMA CounterRead ==
  ASSUME CountersTypeOK, NEW r \in Calls, TrackRead(r)
  PROVE  /\ call' \in [Calls -> Call]
         /\ \A s \in Calls \ {r} : call'[s] = call[s]
         /\ call'[r].pc = "save" /\ call'[r].login = login
         /\ call'[r].op = call[r].op /\ call'[r].at = call[r].at /\ call'[r].end = call[r].end
         /\ call'[r].otp = call[r].otp
<1> DEFINE k == [call[r] EXCEPT !.login = login, !.pc = "save"]
<1>1. call[r] \in Call /\ call \in [Calls -> Call] /\ login \in Login
  BY DEF CountersTypeOK
<1>2. k \in Call
  BY <1>1 DEF Call
<1>3. call' = [call EXCEPT ![r] = k]
  BY <1>1 DEF TrackRead
<1>4. /\ call' \in [Calls -> Call] /\ call'[r] = k
      /\ \A s \in Calls \ {r} : call'[s] = call[s]
  <2> HIDE DEF k
  <2> QED BY <1>2, <1>3, OneChanges
<1>5. /\ k.pc = "save" /\ k.login = login /\ k.op = call[r].op /\ k.at = call[r].at /\ k.end = call[r].end
      /\ k.otp = call[r].otp
  BY <1>1 DEF Call
<1> QED BY <1>4, <1>5

(* A verification that has read the code.                                  *)
LEMMA CodeRead ==
  ASSUME CountersTypeOK, NEW r \in Calls, VerifyRead(r)
  PROVE  /\ call' \in [Calls -> Call]
         /\ \A s \in Calls \ {r} : call'[s] = call[s]
         /\ call'[r].otp = otp /\ call'[r].pc \in {"unknown", "drop", "save", "consume"}
         /\ call'[r].pc # "unknown" => otp # NoOtp
         /\ call'[r].pc \in {"save", "consume"} => ~ (otp.attempts >= MAX_ATTEMPTS)
         /\ call'[r].op = call[r].op /\ call'[r].at = call[r].at /\ call'[r].end = call[r].end
         /\ call'[r].login = call[r].login
<1> DEFINE pc == Verdict(otp, call[r].code)
           k == [call[r] EXCEPT !.otp = otp, !.pc = pc]
<1>1. call[r] \in Call /\ call \in [Calls -> Call] /\ otp \in Otp
  BY DEF CountersTypeOK
<1>2. /\ pc \in {"unknown", "drop", "save", "consume"} /\ (pc # "unknown" => otp # NoOtp)
      /\ (pc \in {"save", "consume"} => ~ (otp.attempts >= MAX_ATTEMPTS))
  BY Zenon DEF Verdict
<1>3. call' = [call EXCEPT ![r] = k]
  BY <1>1 DEF VerifyRead
<1> HIDE DEF pc
<1>4. k \in Call
  BY <1>1, <1>2 DEF Call, Answers
<1>5. /\ call' \in [Calls -> Call] /\ call'[r] = k
      /\ \A s \in Calls \ {r} : call'[s] = call[s]
  <2> HIDE DEF k
  <2> QED BY <1>3, <1>4, OneChanges
<1>6. /\ k.pc = pc /\ k.otp = otp /\ k.op = call[r].op /\ k.at = call[r].at /\ k.end = call[r].end
      /\ k.login = call[r].login
  BY <1>1 DEF Call
<1> QED BY <1>2, <1>5, <1>6
----------------------------------------------------------------------------
\* The failures that ran, at least in part, in the window that begins at start.
Ran(r, start) ==
  /\ call[r].op = "track" /\ call[r].pc \notin {"new", "read"}
  /\ call[r].at < start + WINDOW
  /\ Running(r) \/ call[r].end >= start
RanIn(start) == {r \in Calls : Ran(r, start)}
Tracks == {r \in Calls : call[r].op = "track" /\ call[r].pc # "new"}

\* Each request waits where its operation does, and its times have passed.
AwaitsKept(r) ==
  /\ call[r].pc \in {"lock", "counted"} => call[r].op = "track"
  /\ call[r].pc \in {"drop", "consume", "wrong", "right"} => call[r].op # "track"
  /\ call[r].pc \in {"drop", "consume", "wrong"} => call[r].op = "verify"
  /\ call[r].pc = "send" => call[r].op # "track"
  /\ call[r].pc = "read" => call[r].op # "reset"
  /\ call[r].at <= now /\ call[r].login.windowStart <= now
  /\ call[r].op = "verify" /\ call[r].pc = "save" => call[r].otp.attempts < MAX_ATTEMPTS

\* Neither the counter nor a copy of it exceeds the failures of its window; the
\* owner of a copy is one more.
CountInv ==
  /\ login.windowStart <= now
  /\ \A start \in 0 .. now :
       /\ login.windowStart = start => login.attempts <= Cardinality(RanIn(start))
       /\ \A r \in Calls :
            call[r].op = "track" /\ call[r].pc = "save" /\ call[r].login.windowStart = start =>
              call[r].login.attempts <= Cardinality(RanIn(start) \ {r})
  /\ ~ enabled \/ (\E r \in Calls : call[r].pc = "lock") => Cardinality(Tracks) >= LOCKOUT_THRESHOLD

SignInInv == CountersTypeOK /\ (\A r \in Calls : AwaitsKept(r)) /\ CountInv

(* The documents and the clock are what their types say, in numbers.       *)
LEMMA SignInDocs ==
  ASSUME CountersTypeOK
  PROVE  /\ now \in Nat /\ now <= MaxNow /\ login \in Login /\ login.attempts \in Nat
         /\ login.windowStart \in Nat /\ otp \in Otp /\ otp.attempts \in Nat
         /\ breaks \in Nat /\ enabled \in BOOLEAN /\ alone \in BOOLEAN
         /\ NoLogin \in Login /\ NoOtp \in Otp
         /\ NoLogin.attempts = 0 /\ NoLogin.windowStart = 0
<1>1. \A k \in Login : k.attempts \in 0 .. Cardinality(Calls) /\ k.windowStart \in Times
  BY DEF Login
<1>2. \A k \in Otp : k.attempts \in 0 .. MAX_ATTEMPTS
  BY DEF Otp
<1>3. NoLogin \in Login /\ NoOtp \in Otp /\ NoLogin.attempts = 0 /\ NoLogin.windowStart = 0
  BY Numbers DEF NoLogin, NoOtp, Login, Otp, Times
<1>4. now \in Nat /\ now <= MaxNow /\ login \in Login /\ otp \in Otp /\ breaks \in Nat
      /\ enabled \in BOOLEAN /\ alone \in BOOLEAN
  BY Numbers DEF CountersTypeOK, Times
<1> QED BY <1>1, <1>2, <1>3, <1>4, Numbers DEF Times

(* A set of requests with fewer members has fewer.                         *)
LEMMA SmallerSets ==
  ASSUME NEW S \in SUBSET Calls, NEW Q \in SUBSET S
  PROVE  /\ IsFiniteSet(S) /\ Cardinality(S) \in Nat /\ Cardinality(Q) \in Nat
         /\ Cardinality(Q) <= Cardinality(S) /\ Cardinality(S) <= Cardinality(Calls)
         /\ \A r \in S \ Q : Cardinality(Q) + 1 <= Cardinality(S)
<1>1. IsFiniteSet(S) /\ IsFiniteSet(Q) /\ Cardinality(S) <= Cardinality(Calls)
      /\ Cardinality(Q) <= Cardinality(S)
  <2>1. IsFiniteSet(S) /\ Cardinality(S) <= Cardinality(Calls)
    BY Numbers, FS_Subset
  <2> QED BY <2>1, FS_Subset
<1>2. Cardinality(S) \in Nat /\ Cardinality(Q) \in Nat
  BY <1>1, FS_CardinalityType
<1>3. ASSUME NEW r \in S \ Q
      PROVE  Cardinality(Q) + 1 <= Cardinality(S)
  <2>1. Cardinality(Q \cup {r}) = Cardinality(Q) + 1
    BY <1>1, FS_AddElement
  <2>2. Q \cup {r} \subseteq S
    OBVIOUS
  <2>3. Cardinality(Q \cup {r}) <= Cardinality(S)
    BY <1>1, <2>2, FS_Subset
  <2> QED BY <2>1, <2>3
<1> QED BY <1>1, <1>2, <1>3

(* What a step does to the requests: the one that moves and where to.      *)
LEMMA OneMoves ==
  ASSUME CountersTypeOK, \A q \in Calls : AwaitsKept(q), login.windowStart <= now,
         NEW r \in Calls,
         \/ \E op \in {"track", "reset", "verify"}, code \in Calls : Receive(r, op, code)
         \/ TrackRead(r) \/ TrackSave(r) \/ Lock(r)
         \/ ResetSave(r) \/ Send(r) \/ VerifyRead(r) \/ VerifySave(r) \/ Delete(r) \/ Break(r)
  PROVE  /\ call' \in [Calls -> Call] /\ now' = now
         /\ \A s \in Calls \ {r} : call'[s] = call[s]
         /\ call[r].pc # "new" => call'[r].op = call[r].op /\ call'[r].at = call[r].at
         /\ call'[r].pc # "new" /\ AwaitsKept(r)'
         /\ call[r].op = "track" /\ call[r].pc # "new" /\ call'[r].pc \in Answers => call'[r].end = now
         /\ call[r].op = "track" /\ call[r].pc \notin {"new", "read"} => call'[r].pc \notin {"new", "read"}
         /\ call[r].pc \in {"new"} \cup Answers => call[r].pc = "new" /\ call'[r].pc \in {"read", "save"}
         /\ call[r].op = "reset" /\ call[r].pc # "new" => call'[r].pc # "save"
<1>1. CASE \E op \in {"track", "reset", "verify"}, code \in Calls : Receive(r, op, code)
  <2>1. PICK op \in {"track", "reset", "verify"}, code \in Calls : Receive(r, op, code)
    BY <1>1
  <2>2. now' = now
    BY <2>1, Zenon DEF Receive
  <2> QED BY <2>1, <2>2, Begun, Numbers, SignInFields, SignInDocs DEF AwaitsKept, Answers
<1>2. CASE TrackRead(r)
  <2>1. call[r].op = "track" /\ call[r].pc = "read" /\ UNCHANGED <<now, docs>>
    BY <1>2, Zenon DEF TrackRead
  <2>2. now' = now
    BY <2>1
  <2> QED BY <1>2, <2>1, <2>2, CounterRead, Numbers, SignInFields, SignInDocs DEF AwaitsKept, Answers
<1>3. CASE TrackSave(r)
  <2>1. /\ now' = now /\ call[r].op = "track" /\ call[r].pc = "save"
        /\ Await(r, "lock") \/ End(r, "counted")
    BY <1>3 DEF TrackSave
  <2>2. CASE Await(r, "lock")
    BY <2>1, <2>2, GoesOn, Numbers, SignInFields, SignInDocs DEF AwaitsKept, Answers, Awaits
  <2>3. CASE End(r, "counted")
    BY <2>1, <2>3, Answered, Numbers, SignInFields, SignInDocs DEF AwaitsKept, Answers
  <2> QED BY <2>1, <2>2, <2>3
<1>4. CASE Lock(r)
  <2>1. now' = now /\ call[r].pc = "lock" /\ End(r, "counted") /\ call[r].op = "track"
    BY <1>4 DEF Lock, AwaitsKept
  <2> QED BY <2>1, Answered, Numbers, SignInFields, SignInDocs DEF AwaitsKept, Answers
<1>5. CASE ResetSave(r)
  <2>1. now' = now /\ call[r].op = "reset" /\ call[r].pc = "save" /\ Await(r, "send")
    BY <1>5 DEF ResetSave
  <2> QED BY <2>1, GoesOn, Numbers, SignInFields, SignInDocs DEF AwaitsKept, Answers, Awaits
<1>6. CASE Send(r)
  <2>1. now' = now /\ call[r].pc = "send" /\ call[r].op # "track"
        /\ \E answer \in {"stored", "right"} : End(r, answer)
    BY <1>6 DEF Send, AwaitsKept
  <2> QED BY <2>1, Answered, Numbers, SignInFields, SignInDocs DEF AwaitsKept, Answers
<1>7. CASE VerifyRead(r)
  <2>1. now' = now /\ call[r].op = "verify" /\ call[r].pc = "read"
    BY <1>7 DEF VerifyRead
  <2> QED BY <1>7, <2>1, CodeRead, Numbers, SignInFields, SignInDocs DEF AwaitsKept, Answers
<1>8. CASE VerifySave(r)
  <2>1. now' = now /\ call[r].op = "verify" /\ call[r].pc = "save" /\ End(r, "wrong")
    BY <1>8 DEF VerifySave
  <2> QED BY <2>1, Answered, Numbers, SignInFields, SignInDocs DEF AwaitsKept, Answers
<1>9. CASE Delete(r)
  <2>1. /\ now' = now /\ call[r].pc \in {"drop", "consume"} /\ call[r].op = "verify"
        /\ End(r, "refused") \/ Await(r, "send")
    BY <1>9 DEF Delete, AwaitsKept
  <2>2. CASE Await(r, "send")
    BY <2>1, <2>2, GoesOn, Numbers, SignInFields, SignInDocs DEF AwaitsKept, Answers, Awaits
  <2>3. CASE End(r, "refused")
    BY <2>1, <2>3, Answered, Numbers, SignInFields, SignInDocs DEF AwaitsKept, Answers
  <2> QED BY <2>1, <2>2, <2>3
<1>10. CASE Break(r)
  <2>1. now' = now /\ Running(r) /\ End(r, "error")
    BY <1>10 DEF Break
  <2>2. call[r].pc \notin {"new"} \cup Answers
    BY <2>1 DEF Running
  <2> QED BY <2>1, <2>2, Answered, Numbers, SignInFields, SignInDocs DEF AwaitsKept, Answers
<1> QED BY <1>1, <1>2, <1>3, <1>4, <1>5, <1>6, <1>7, <1>8, <1>9, <1>10

(* A failure that ran in a window has run in it, and stays begun.          *)
LEMMA RanStays ==
  ASSUME CountersTypeOK, \A q \in Calls : AwaitsKept(q), login.windowStart <= now,
         [CountersNext]_counters
  PROVE  /\ \A s \in Calls : AwaitsKept(s)'
         /\ \A start \in 0 .. now : RanIn(start) \subseteq RanIn(start)'
         /\ Tracks \subseteq Tracks'
<1> USE Numbers, SignInFields, SignInDocs
<1>1. CASE UNCHANGED counters
  BY <1>1 DEF counters, docs, AwaitsKept, RanIn, Ran, Tracks, Running
<1>2. CASE Tick
  <2>1. now' = now + 1 /\ call' = call
    BY <1>2 DEF Tick
  <2>2. now <= now'
    BY <2>1
  <2>3. \A s \in Calls : AwaitsKept(s)'
    BY <2>1, <2>2 DEF AwaitsKept
  <2> QED BY <2>1, <2>3 DEF RanIn, Ran, Tracks, Running
<1>3. CASE \E r \in Calls :
       \/ \E op \in {"track", "reset", "verify"}, code \in Calls : Receive(r, op, code)
       \/ TrackRead(r) \/ TrackSave(r) \/ Lock(r)
       \/ ResetSave(r) \/ Send(r) \/ VerifyRead(r) \/ VerifySave(r) \/ Delete(r) \/ Break(r)
  <2>1. PICK r \in Calls :
       \/ \E op \in {"track", "reset", "verify"}, code \in Calls : Receive(r, op, code)
       \/ TrackRead(r) \/ TrackSave(r) \/ Lock(r)
       \/ ResetSave(r) \/ Send(r) \/ VerifyRead(r) \/ VerifySave(r) \/ Delete(r) \/ Break(r)
    BY <1>3
  <2>2. /\ call' \in [Calls -> Call] /\ now' = now
        /\ \A s \in Calls \ {r} : call'[s] = call[s]
        /\ call[r].pc # "new" => call'[r].op = call[r].op /\ call'[r].at = call[r].at
        /\ call'[r].pc # "new" /\ AwaitsKept(r)'
        /\ call[r].op = "track" /\ call[r].pc # "new" /\ call'[r].pc \in Answers => call'[r].end = now
        /\ call[r].op = "track" /\ call[r].pc \notin {"new", "read"} => call'[r].pc \notin {"new", "read"}
    BY <2>1, OneMoves
  <2>3. \A s \in Calls : AwaitsKept(s)'
    <3>1. \A s \in Calls \ {r} : AwaitsKept(s)'
      BY <2>2 DEF AwaitsKept
    <3> QED BY <2>2, <3>1
  <2>4. ASSUME NEW start \in 0 .. now, NEW s \in Calls, Ran(s, start)
        PROVE  Ran(s, start)'
    <3>1. CASE s # r
      BY <2>2, <2>4, <3>1 DEF Ran, Running
    <3>2. CASE s = r
      BY <2>2, <2>4, <3>2 DEF Ran, Running
    <3> QED BY <3>1, <3>2
  <2>5. \A start \in 0 .. now : RanIn(start) \subseteq RanIn(start)'
    BY <2>4 DEF RanIn
  <2>6. Tracks \subseteq Tracks'
    BY <2>2 DEF Tracks
  <2> QED BY <2>3, <2>5, <2>6
<1> QED BY <1>1, <1>2, <1>3 DEF CountersNext

(* Nothing that leaves the counter alone disturbs the count, unless it     *)
(* decides to disable: who copies the counter has not run in a window yet. *)
LEMMA CountStays ==
  ASSUME SignInInv, [CountersNext]_counters, CountersTypeOK', now <= now',
         login' = login,
         \A s \in Calls : call'[s].op = "track" /\ call'[s].pc = "save" =>
           \/ call[s].op = "track" /\ call[s].pc = "save" /\ call'[s].login = call[s].login
           \/ call[s].pc = "read" /\ call'[s].login = login,
         \/ enabled' = enabled /\ \A s \in Calls : call'[s].pc = "lock" => call[s].pc = "lock"
         \/ \E s \in Calls : call[s].pc = "lock"
  PROVE  CountInv'
<1>1. CountersTypeOK /\ CountInv /\ \A q \in Calls : AwaitsKept(q)
  BY DEF SignInInv
<1>2. /\ \A start \in 0 .. now : RanIn(start) \subseteq RanIn(start)'
      /\ Tracks \subseteq Tracks'
  BY <1>1, RanStays DEF CountInv
<1>3. now \in Nat /\ now' \in Nat /\ login.windowStart \in 0 .. now /\ login.attempts \in Nat
  BY <1>1, SignInDocs, Numbers DEF CountInv, CountersTypeOK, Times
<1>4. \A start \in 0 .. now' : RanIn(start)' \in SUBSET Calls
  BY DEF RanIn
<1>5. /\ login.windowStart <= now'
      /\ \A start \in 0 .. now' : login.windowStart = start => login.attempts <= Cardinality(RanIn(start)')
  <2>1. SUFFICES ASSUME NEW start \in 0 .. now', login.windowStart = start
                 PROVE  login.attempts <= Cardinality(RanIn(start)')
    BY <1>3
  <2>2. Cardinality(RanIn(start)) <= Cardinality(RanIn(start)')
        /\ Cardinality(RanIn(start)) \in Nat /\ Cardinality(RanIn(start)') \in Nat
    BY <1>2, <1>3, <1>4, <2>1, SmallerSets
  <2> QED BY <1>1, <1>3, <2>1, <2>2 DEF CountInv
<1>6. ASSUME NEW s \in Calls, NEW start \in 0 .. now',
             call'[s].op = "track", call'[s].pc = "save", call'[s].login.windowStart = start
      PROVE  call'[s].login.attempts <= Cardinality(RanIn(start)' \ {s})
  <2>1. /\ Cardinality(RanIn(start) \ {s}) <= Cardinality(RanIn(start)' \ {s})
        /\ Cardinality(RanIn(start) \ {s}) \in Nat /\ Cardinality(RanIn(start)' \ {s}) \in Nat
    <3>1. start \in 0 .. now
      BY <1>1, <1>3, <1>6, SignInFields DEF AwaitsKept, CountInv
    <3>2. RanIn(start)' \ {s} \in SUBSET Calls /\ RanIn(start) \ {s} \in SUBSET (RanIn(start)' \ {s})
      BY <1>2, <1>4, <3>1
    <3> QED BY <3>2, SmallerSets
  <2>2. CASE call[s].op = "track" /\ call[s].pc = "save" /\ call'[s].login = call[s].login
    <3>1. start \in 0 .. now /\ call[s].login.attempts \in Nat
      BY <1>1, <1>3, <1>6, <2>2, SignInFields DEF AwaitsKept
    <3>2. call[s].login.attempts <= Cardinality(RanIn(start) \ {s})
      BY <1>1, <1>6, <2>2, <3>1 DEF CountInv
    <3> QED BY <2>1, <2>2, <3>1, <3>2
  <2>3. CASE call[s].pc = "read" /\ call'[s].login = login
    <3>1. RanIn(start) \ {s} = RanIn(start)
      BY <2>3 DEF RanIn, Ran
    <3>2. login.attempts <= Cardinality(RanIn(start))
      BY <1>1, <1>3, <1>6, <2>3 DEF CountInv
    <3>3. login.attempts <= Cardinality(RanIn(start) \ {s})
      BY <3>1, <3>2
    <3>4. login.attempts <= Cardinality(RanIn(start)' \ {s})
      BY <1>3, <2>1, <3>3
    <3> QED BY <2>3, <3>4
  <2> QED BY <1>6, <2>2, <2>3
<1>7. ~ enabled' \/ (\E r \in Calls : call'[r].pc = "lock") => Cardinality(Tracks') >= LOCKOUT_THRESHOLD
  <2>1. Tracks' \in SUBSET Calls
    BY DEF Tracks
  <2>2. Cardinality(Tracks) <= Cardinality(Tracks') /\ Cardinality(Tracks) \in Nat /\ Cardinality(Tracks') \in Nat
    BY <1>2, <2>1, SmallerSets
  <2> QED BY <1>1, <2>2, Numbers DEF CountInv
<1> QED BY <1>5, <1>6, <1>7 DEF CountInv

(* A failed login that writes its copy back counts itself and nobody twice.*)
LEMMA SaveCounts ==
  ASSUME SignInInv, NEW r \in Calls, TrackSave(r)
  PROVE  SignInInv'
<1>1. CountersTypeOK /\ CountInv /\ (\A q \in Calls : AwaitsKept(q)) /\ [CountersNext]_counters
  BY DEF SignInInv, CountersNext
<1>2. /\ \A start \in 0 .. now : RanIn(start) \subseteq RanIn(start)'
      /\ Tracks \subseteq Tracks' /\ \A s \in Calls : AwaitsKept(s)'
  BY <1>1, RanStays DEF CountInv
<1>3. /\ call[r].op = "track" /\ call[r].pc = "save" /\ UNCHANGED <<now, otp, enabled, newest, alone, breaks>>
      /\ login' = Counted(call[r].login, call[r].at)
      /\ IF login'.attempts >= LOCKOUT_THRESHOLD THEN Await(r, "lock") ELSE End(r, "counted")
  BY DEF TrackSave
<1>4. /\ call' \in [Calls -> Call] /\ \A s \in Calls \ {r} : call'[s] = call[s]
      /\ call'[r].op = "track" /\ call'[r].at = call[r].at
      /\ call'[r].pc = (IF login'.attempts >= LOCKOUT_THRESHOLD THEN "lock" ELSE "counted")
      /\ call'[r].pc = "counted" => call'[r].end = now
  <2>1. CASE login'.attempts >= LOCKOUT_THRESHOLD
    BY <1>1, <1>3, <2>1, GoesOn DEF Awaits, Answers
  <2>2. CASE ~ (login'.attempts >= LOCKOUT_THRESHOLD)
    BY <1>1, <1>3, <2>2, Answered DEF Answers
  <2> QED BY <2>1, <2>2
<1> DEFINE copy == call[r].login
           at == call[r].at
<1>5. /\ copy.attempts \in Nat /\ copy.windowStart \in Nat /\ at \in Times /\ at \in Nat /\ at <= now /\ now \in Nat
      /\ copy.windowStart <= now /\ copy.windowStart \in Times
      /\ \A start \in 0 .. now :
           copy.windowStart = start => copy.attempts <= Cardinality(RanIn(start) \ {r})
  <2>1. call[r] \in Call /\ call[r].login \in Login
    BY <1>1, SignInFields
  <2>2. at \in Times /\ copy.windowStart \in Times
    BY <2>1 DEF Call, Login
  <2> QED BY <1>1, <1>3, <2>2, SignInFields, SignInDocs DEF AwaitsKept, CountInv
<1>6. /\ login'.attempts \in Nat /\ login'.windowStart \in Times /\ login'.windowStart <= now
      /\ login' = [attempts |-> login'.attempts, windowStart |-> login'.windowStart]
      /\ at < login'.windowStart + WINDOW
      /\ login'.attempts = 1 \/ (login'.attempts = copy.attempts + 1 /\ login'.windowStart = copy.windowStart)
  <2>1. CASE copy.attempts > 0 /\ at < copy.windowStart + WINDOW
    BY <1>3, <1>5, <2>1 DEF Counted
  <2>2. CASE ~ (copy.attempts > 0 /\ at < copy.windowStart + WINDOW)
    <3>1. login' = [attempts |-> 1, windowStart |-> at]
      BY <1>3, <2>2 DEF Counted
    <3> QED BY <1>5, <3>1, Numbers
  <2> QED BY <2>1, <2>2
<1>14. PICK start \in 0 .. now : login'.windowStart = start
  BY <1>5, <1>6 DEF Times
<1>7. r \in RanIn(start)' /\ RanIn(start)' \in SUBSET Calls
  <2>2. Running(r)' \/ call'[r].end >= start
    BY <1>4, <1>5, <1>14 DEF Running, Answers
  <2>3. Ran(r, start)'
    BY <1>4, <1>6, <1>14, <2>2 DEF Ran
  <2> QED BY <2>3 DEF RanIn
<1>8. login'.attempts <= Cardinality(RanIn(start)')
  <2>1. Cardinality(RanIn(start) \ {r}) + 1 <= Cardinality(RanIn(start)')
        /\ Cardinality(RanIn(start) \ {r}) \in Nat /\ Cardinality(RanIn(start)') \in Nat
    <3>1. RanIn(start) \ {r} \in SUBSET RanIn(start)' /\ r \in RanIn(start)' \ (RanIn(start) \ {r})
      BY <1>2, <1>7
    <3> QED BY <1>7, <3>1, SmallerSets
  <2> QED BY <1>5, <1>6, <1>14, <2>1
<1>9. /\ Cardinality(RanIn(start)') <= Cardinality(Calls) /\ Cardinality(RanIn(start)') \in Nat
      /\ Cardinality(RanIn(start)') <= Cardinality(Tracks') /\ Cardinality(Tracks') \in Nat
      /\ Cardinality(Tracks) <= Cardinality(Tracks') /\ Cardinality(Tracks) \in Nat
  <2>1. RanIn(start)' \in SUBSET Tracks' /\ Tracks' \in SUBSET Calls
    BY DEF RanIn, Ran, Tracks
  <2> QED BY <1>2, <1>7, <2>1, SmallerSets
<1>10. CountersTypeOK'
  <2>1. login' \in Login
    BY <1>6, <1>8, <1>9, Numbers DEF Login
  <2> QED BY <1>1, <1>3, <1>4, <2>1 DEF CountersTypeOK
<1>11. ASSUME NEW s \in Calls, NEW from \in 0 .. now,
              call'[s].op = "track", call'[s].pc = "save", call'[s].login.windowStart = from
       PROVE  call'[s].login.attempts <= Cardinality(RanIn(from)' \ {s})
  <2>1. s # r /\ call'[s] = call[s]
    BY <1>4, <1>11
  <2>2. call[s].login.attempts \in Nat /\ call[s].login.attempts <= Cardinality(RanIn(from) \ {s})
    BY <1>1, <1>11, <2>1, SignInFields DEF CountInv
  <2>3. RanIn(from)' \ {s} \in SUBSET Calls /\ RanIn(from) \ {s} \in SUBSET (RanIn(from)' \ {s})
    <3>1. RanIn(from)' \in SUBSET Calls
      BY DEF RanIn
    <3> QED BY <1>2, <3>1
  <2>4. /\ Cardinality(RanIn(from) \ {s}) <= Cardinality(RanIn(from)' \ {s})
        /\ Cardinality(RanIn(from) \ {s}) \in Nat /\ Cardinality(RanIn(from)' \ {s}) \in Nat
    BY <2>3, SmallerSets
  <2> QED BY <2>1, <2>2, <2>4
<1>12. ~ enabled' \/ (\E s \in Calls : call'[s].pc = "lock") => Cardinality(Tracks') >= LOCKOUT_THRESHOLD
  <2>1. CASE login'.attempts >= LOCKOUT_THRESHOLD
    BY <1>6, <1>8, <1>9, <2>1, Numbers
  <2>2. CASE ~ (login'.attempts >= LOCKOUT_THRESHOLD)
    <3>1. \A s \in Calls : call'[s].pc = "lock" => call[s].pc = "lock"
      BY <1>4, <2>2
    <3> QED BY <1>1, <1>3, <1>9, <3>1, Numbers DEF CountInv
  <2> QED BY <2>1, <2>2
<1>13. CountInv'
  BY <1>3, <1>6, <1>8, <1>11, <1>12, <1>14 DEF CountInv
<1> QED BY <1>2, <1>10, <1>13 DEF SignInInv

(* At the start nobody has failed.                                        *)
LEMMA SignInInit ==
  ASSUME CountersInit
  PROVE  SignInInv
<1>1. NoLogin \in Login /\ NoOtp \in Otp /\ 0 \in Times /\ NoLogin.attempts = 0 /\ NoLogin.windowStart = 0
      /\ NoOtp.attempts = 0
  BY Numbers DEF NoLogin, NoOtp, Login, Otp, Times
<1>2. CountersTypeOK
  BY <1>1, Numbers DEF CountersTypeOK, CountersInit, Call
<1>3. \A r \in Calls : call[r].op = "track" /\ call[r].pc = "new" /\ call[r].at = 0 /\ call[r].login = NoLogin
  BY DEF CountersInit
<1>4. \A r \in Calls : AwaitsKept(r)
  BY <1>1, <1>3 DEF AwaitsKept, CountersInit
<1>5. \A start \in 0 .. now : Cardinality(RanIn(start)) \in Nat
  <2>1. \A start \in 0 .. now : RanIn(start) \in SUBSET Calls
    BY DEF RanIn
  <2> QED BY <2>1, SmallerSets
<1>6. CountInv
  <2>1. now = 0 /\ login = NoLogin /\ enabled
    BY DEF CountersInit
  <2>2. \A start \in 0 .. now : Cardinality(RanIn(start)) >= 0
    BY <1>5
  <2> QED BY <1>1, <1>3, <2>1, <2>2 DEF CountInv
<1> QED BY <1>2, <1>4, <1>6 DEF SignInInv

(* The count survives every step.                                          *)
LEMMA SignInStep ==
  ASSUME SignInInv, [CountersNext]_counters
  PROVE  SignInInv'
<1>1. CountersTypeOK /\ CountInv /\ \A q \in Calls : AwaitsKept(q)
  BY DEF SignInInv
<1>2. \A s \in Calls : AwaitsKept(s)'
  BY <1>1, RanStays DEF CountInv
<1>3. now \in Nat /\ login \in Login /\ otp \in Otp /\ login.windowStart <= now /\ NoOtp \in Otp
  BY <1>1, SignInDocs DEF CountInv
<1>4. ASSUME CountersTypeOK', now' >= now, login' = login,
             enabled' = enabled \/ \E s \in Calls : call[s].pc = "lock",
             \A s \in Calls : /\ call'[s].op = "track" /\ call'[s].pc = "save" =>
                                   \/ /\ call[s].op = "track" /\ call[s].pc = "save"
                                      /\ call'[s].login = call[s].login
                                   \/ call[s].pc = "read" /\ call'[s].login = login
                              /\ call'[s].pc = "lock" => call[s].pc = "lock"
      PROVE  SignInInv'
  <2>1. now <= now'
    BY <1>1, <1>4, SignInDocs DEF CountersTypeOK, Times
  <2> QED BY <1>2, <1>4, <2>1, CountStays DEF SignInInv
<1>5. CASE UNCHANGED counters
  <2>1. CountersTypeOK' /\ now' = now /\ login' = login /\ enabled' = enabled /\ call' = call
    BY <1>1, <1>5 DEF counters, docs, CountersTypeOK
  <2> QED BY <1>3, <1>4, <2>1
<1>6. CASE Tick
  <2>1. now' = now + 1 /\ now < MaxNow /\ login' = login /\ enabled' = enabled /\ call' = call
        /\ UNCHANGED <<otp, newest, alone, breaks>>
    BY <1>6 DEF Tick, docs
  <2>2. CountersTypeOK'
    BY <1>1, <1>3, <2>1, Numbers DEF CountersTypeOK, Times
  <2> QED BY <1>3, <1>4, <2>1, <2>2
<1>7. ASSUME NEW r \in Calls,
             \/ \E op \in {"track", "reset", "verify"}, code \in Calls : Receive(r, op, code)
             \/ TrackRead(r) \/ TrackSave(r) \/ Lock(r)
             \/ ResetSave(r) \/ Send(r) \/ VerifyRead(r) \/ VerifySave(r) \/ Delete(r) \/ Break(r)
      PROVE  SignInInv'
  <2>1. /\ call' \in [Calls -> Call] /\ now' = now
        /\ \A s \in Calls \ {r} : call'[s] = call[s]
    BY <1>1, <1>3, <1>7, OneMoves
  \* A step that leaves the counter and the account alone.
  <2>2. ASSUME UNCHANGED <<login, enabled>>, otp' \in Otp, newest' \in Calls \cup {None},
               alone' \in BOOLEAN, breaks' \in 0 .. MaxBreaks,
               call'[r].op = "track" => call'[r].pc \notin {"save", "lock"}
        PROVE  SignInInv'
    <3>1. CountersTypeOK'
      BY <1>1, <2>1, <2>2 DEF CountersTypeOK
    <3>2. \A s \in Calls : /\ call'[s].op = "track" /\ call'[s].pc = "save" =>
                                /\ call[s].op = "track" /\ call[s].pc = "save"
                                /\ call'[s].login = call[s].login
                           /\ call'[s].pc = "lock" => call[s].pc = "lock"
      BY <1>2, <2>1, <2>2 DEF AwaitsKept
    <3> QED BY <1>3, <1>4, <2>1, <2>2, <3>1, <3>2
  <2>3. CASE \E op \in {"track", "reset", "verify"}, code \in Calls : Receive(r, op, code)
    <3>1. PICK op \in {"track", "reset", "verify"}, code \in Calls : Receive(r, op, code)
      BY <2>3
    <3>2. call'[r].op = "track" => call'[r].pc \notin {"save", "lock"}
      BY <1>1, <3>1, Begun
    <3>3. UNCHANGED <<login, enabled, otp, newest, breaks>> /\ alone' \in BOOLEAN
      BY <1>1, <3>1 DEF Receive, docs, CountersTypeOK
    <3> QED BY <1>1, <2>2, <3>2, <3>3 DEF CountersTypeOK
  <2>4. CASE TrackRead(r)
    <3>1. UNCHANGED <<login, enabled, otp, newest, alone, breaks>> /\ call[r].op = "track" /\ call[r].pc = "read"
      <4>1. UNCHANGED <<now, docs, newest, alone, breaks>> /\ call[r].op = "track" /\ call[r].pc = "read"
        BY <2>4, Zenon DEF TrackRead
      <4> QED BY <4>1 DEF docs
    <3>2. /\ call'[r].pc = "save" /\ call'[r].login = login
      BY <1>1, <2>4, CounterRead
    <3>3. CountersTypeOK'
      BY <1>1, <2>1, <3>1 DEF CountersTypeOK
    <3> QED BY <1>3, <1>4, <2>1, <3>1, <3>2, <3>3
  <2>5. CASE TrackSave(r)
    BY <2>5, SaveCounts
  <2>6. CASE Lock(r)
    <3>1. UNCHANGED <<login, otp, newest, alone>> /\ call[r].pc = "lock" /\ End(r, "counted")
          /\ enabled' \in {enabled, FALSE} /\ (breaks' = breaks \/ (breaks < MaxBreaks /\ breaks' = breaks + 1))
      BY <2>6 DEF Lock
    <3>2. call'[r].pc = "counted"
      BY <1>1, <3>1, Answered DEF Answers
    <3>3. CountersTypeOK'
      <4>1. enabled' \in BOOLEAN
        <5>1. enabled \in BOOLEAN
          BY <1>1 DEF CountersTypeOK
        <5> QED BY <3>1, <5>1, Zenon
      <4>2. breaks' \in 0 .. MaxBreaks
        BY <1>1, <3>1, Numbers DEF CountersTypeOK
      <4> QED BY <1>1, <2>1, <3>1, <4>1, <4>2 DEF CountersTypeOK
    <3>4. \A s \in Calls : /\ call'[s].pc = "save" => call'[s] = call[s]
                           /\ call'[s].pc = "lock" => call[s].pc = "lock"
      BY <2>1, <3>1, <3>2
    <3> QED BY <1>3, <1>4, <2>1, <3>1, <3>3, <3>4
  <2>7. CASE ResetSave(r)
    <3>1. UNCHANGED <<login, enabled, alone, breaks>> /\ newest' = r /\ call[r].op = "reset" /\ Await(r, "send")
          /\ otp' = [code |-> r, expiresAt |-> call[r].at + OTP_TTL, attempts |-> 0]
      BY <2>7 DEF ResetSave
    <3>2. call'[r].op = "reset"
      BY <1>1, <3>1, GoesOn DEF Awaits
    <3>3. otp' \in Otp
      <4>1. call[r].at + OTP_TTL \in 0 .. (MaxNow + OTP_TTL)
        BY <1>1, <1>3, SignInFields, SignInDocs, Numbers DEF AwaitsKept
      <4> QED BY <3>1, <4>1, Numbers DEF Otp
    <3> QED BY <1>1, <2>2, <3>1, <3>2, <3>3 DEF CountersTypeOK
  <2>8. CASE Send(r)
    <3>1. UNCHANGED <<login, enabled, otp, newest, alone, breaks>>
          /\ End(r, IF call[r].op = "reset" THEN "stored" ELSE "right")
      BY <2>8 DEF Send, docs
    <3>2. call'[r].pc \notin {"save", "lock"}
      BY <1>1, <3>1, Answered DEF Answers
    <3> QED BY <1>1, <2>2, <3>1, <3>2 DEF CountersTypeOK
  <2>9. CASE VerifyRead(r)
    <3>1. UNCHANGED <<login, enabled, otp, newest, alone, breaks>> /\ call[r].op = "verify"
      <4>1. UNCHANGED <<now, docs, newest, alone, breaks>> /\ call[r].op = "verify"
        BY <2>9, Zenon DEF VerifyRead
      <4> QED BY <4>1 DEF docs
    <3>2. call'[r].op = "verify"
      BY <1>1, <2>9, <3>1, CodeRead
    <3> QED BY <1>1, <2>2, <3>1, <3>2 DEF CountersTypeOK
  <2>10. CASE VerifySave(r)
    <3>1. UNCHANGED <<login, enabled, newest, alone, breaks>> /\ call[r].op = "verify" /\ call[r].pc = "save"
          /\ End(r, "wrong")
      BY <2>10, Zenon DEF VerifySave
    <3>2. otp' = [call[r].otp EXCEPT !.attempts = @ + 1]
      BY <2>10, Zenon DEF VerifySave
    <3>3. call'[r].pc \notin {"save", "lock"}
      BY <1>1, <3>1, Answered DEF Answers
    <3>4. call[r].otp \in Otp /\ call[r].otp.attempts \in Nat /\ call[r].otp.attempts < MAX_ATTEMPTS
      BY <1>1, <3>1, SignInFields DEF AwaitsKept
    <3>5. otp' \in Otp
      BY <3>2, <3>4, Numbers DEF Otp
    <3> QED BY <1>1, <2>2, <3>1, <3>3, <3>5 DEF CountersTypeOK
  <2>11. CASE Delete(r)
    <3>1. /\ UNCHANGED <<login, enabled, newest, alone, breaks>> /\ otp' = NoOtp
          /\ End(r, "refused") \/ Await(r, "send")
      BY <2>11 DEF Delete
    <3>2. call'[r].pc \notin {"save", "lock"}
      BY <1>1, <3>1, Answered, GoesOn DEF Answers, Awaits
    <3> QED BY <1>1, <1>3, <2>2, <3>1, <3>2 DEF CountersTypeOK
  <2>12. CASE Break(r)
    <3>1. UNCHANGED <<login, enabled, otp, newest, alone>> /\ breaks < MaxBreaks /\ breaks' = breaks + 1
          /\ End(r, "error")
      BY <2>12 DEF Break, docs
    <3>2. call'[r].pc \notin {"save", "lock"} /\ breaks' \in 0 .. MaxBreaks
      BY <1>1, <3>1, Answered, SignInDocs, Numbers DEF Answers
    <3> QED BY <1>1, <2>2, <3>1, <3>2 DEF CountersTypeOK
  <2> QED BY <1>7, <2>3, <2>4, <2>5, <2>6, <2>7, <2>8, <2>9, <2>10, <2>11, <2>12
<1> QED BY <1>5, <1>6, <1>7 DEF CountersNext

(* The two documents, the account and every request keep their types; so   *)
(* the copies that are written back count no more than there are requests  *)
(* and allow no more attempts than MAX_ATTEMPTS                            *)
(* (TrackLoginAttemptsUseCase.ts 16-42, VerifyOtpAndResetUseCase.ts 11-35).*)
THEOREM CountersTyped == CountersSpec => []CountersTypeOK
<1>1. CountersInit => SignInInv
  BY SignInInit
<1>2. SignInInv /\ [CountersNext]_counters => SignInInv'
  BY SignInStep
<1>3. SignInInv => CountersTypeOK
  BY DEF SignInInv
<1> QED BY <1>1, <1>2, <1>3, PTL DEF CountersSpec

(* Nobody is locked out for fewer failures than the threshold, whatever    *)
(* overlaps, fails or is slow (TrackLoginAttemptsUseCase.ts 16-42).        *)
THEOREM LockoutsAreEarned == CountersSpec => []NeverOvercounted
<1>1. CountersInit => SignInInv
  BY SignInInit
<1>2. SignInInv /\ [CountersNext]_counters => SignInInv'
  BY SignInStep
<1>3. SignInInv => NeverOvercounted
  <2> SUFFICES ASSUME SignInInv PROVE NeverOvercounted
    OBVIOUS
  <2>1. CountersTypeOK /\ CountInv
    BY DEF SignInInv
  <2>2. PICK start \in 0 .. now : login.windowStart = start
    BY <2>1, SignInDocs DEF CountInv
  <2>3. RanIn(start) = {r \in Calls : InWindow(r)}
    BY <2>2 DEF RanIn, Ran, InWindow
  <2>4. Tracks = {r \in Calls : call[r].op = "track" /\ call[r].pc # "new"}
    BY DEF Tracks
  <2> HIDE DEF Tracks, RanIn
  <2> QED BY <2>1, <2>2, <2>3, <2>4 DEF CountInv, NeverOvercounted
<1> QED BY <1>1, <1>2, <1>3, PTL DEF CountersSpec
----------------------------------------------------------------------------
\* Requests come one after the other.
OneAtATime == alone => \A q, r \in Calls : Running(q) /\ Running(r) => q = r

\* The failures that have been counted, and those of them in the window of the counter.
Saved(r) == call[r].op = "track" /\ call[r].pc \in {"counted", "lock"}
Mine == {r \in Calls : Saved(r) /\ call[r].at >= login.windowStart}

\* One after the other, failures count themselves in a window that is the last there is.
AloneInv ==
  alone /\ breaks = 0 =>
    /\ login.attempts = Cardinality(Mine)
    /\ login.attempts = 0 => \A r \in Calls : ~ Saved(r)
    /\ \A r \in Calls : Saved(r) => call[r].at < login.windowStart + WINDOW
    /\ \A r \in Calls : Running(r) /\ call[r].op = "track" => login.windowStart <= call[r].at
    /\ \A r \in Calls : call[r].op = "track" /\ call[r].pc = "save" => call[r].login = login
    /\ login.attempts >= LOCKOUT_THRESHOLD => ~ enabled \/ \E r \in Calls : call[r].pc = "lock"

(* Who moves was in flight alone, or begins when nobody is.                *)
LEMMA OneAtATimeStep ==
  ASSUME SignInInv, OneAtATime, [CountersNext]_counters
  PROVE  OneAtATime'
<1>1. CountersTypeOK /\ (\A q \in Calls : AwaitsKept(q)) /\ login.windowStart <= now
  BY DEF SignInInv, CountInv
<1>2. CASE UNCHANGED counters \/ Tick
  BY <1>2 DEF counters, Tick, OneAtATime, Running
<1>3. ASSUME NEW r \in Calls,
             \/ \E op \in {"track", "reset", "verify"}, code \in Calls : Receive(r, op, code)
             \/ TrackRead(r) \/ TrackSave(r) \/ Lock(r)
             \/ ResetSave(r) \/ Send(r) \/ VerifyRead(r) \/ VerifySave(r) \/ Delete(r) \/ Break(r)
      PROVE  OneAtATime'
  <2>1. /\ \A s \in Calls \ {r} : call'[s] = call[s]
        /\ call[r].pc \in {"new"} \cup Answers => call[r].pc = "new" /\ call'[r].pc \in {"read", "save"}
    BY <1>1, <1>3, OneMoves
  <2>2. CASE Running(r) /\ alone' = alone
    BY <2>1, <2>2 DEF OneAtATime, Running
  <2>3. CASE \E op \in {"track", "reset", "verify"}, code \in Calls : Receive(r, op, code)
    <3>1. alone' => \A s \in Calls : ~ Running(s)
      BY <2>3 DEF Receive
    <3> QED BY <2>1, <3>1 DEF OneAtATime, Running
  <2>4. CASE TrackRead(r)
    <3>1. call[r].pc = "read" /\ UNCHANGED <<now, docs, newest, alone, breaks>>
      BY <2>4, Zenon DEF TrackRead
    <3> QED BY <2>2, <3>1 DEF Running, Answers
  <2>5. CASE VerifyRead(r)
    <3>1. call[r].pc = "read" /\ UNCHANGED <<now, docs, newest, alone, breaks>>
      BY <2>5, Zenon DEF VerifyRead
    <3> QED BY <2>2, <3>1 DEF Running, Answers
  <2>6. CASE VerifySave(r)
    <3>1. call[r].pc = "save" /\ UNCHANGED <<now, login, enabled, newest, alone, breaks>>
      BY <2>6, Zenon DEF VerifySave
    <3> QED BY <2>2, <3>1 DEF Running, Answers
  <2>7. CASE TrackSave(r) \/ Lock(r) \/ ResetSave(r) \/ Send(r) \/ Delete(r) \/ Break(r)
    <3>1. Running(r) /\ alone' = alone
      BY <2>7 DEF TrackSave, Lock, ResetSave, Send, Delete, Break, Running, Answers
    <3> QED BY <2>2, <3>1
  <2> QED BY <1>3, <2>3, <2>4, <2>5, <2>6, <2>7
<1> QED BY <1>2, <1>3 DEF CountersNext

(* What is no failed login, or no more than its beginning, leaves the      *)
(* counted ones alone.                                                     *)
LEMMA AloneStays ==
  ASSUME SignInInv, AloneInv, UNCHANGED <<login, enabled>>,
         alone' => alone, breaks' = 0 => breaks = 0,
         \A s \in Calls :
           \/ call'[s] = call[s]
           \/ call[s].op # "track" /\ call'[s].op # "track" /\ call'[s].pc # "lock"
           \/ /\ call[s].pc \in {"new", "read"} /\ call'[s].pc \in {"read", "save"}
              /\ call'[s].op = "track" =>
                   /\ call'[s].at >= login.windowStart
                   /\ call'[s].pc = "save" => call'[s].login = login
  PROVE  AloneInv'
<1>1. CountersTypeOK /\ \A q \in Calls : AwaitsKept(q)
  BY DEF SignInInv
<1>2. \A s \in Calls : Saved(s)' <=> Saved(s)
  BY DEF Saved
<1>3. \A s \in Calls : Saved(s) => call'[s] = call[s]
  BY DEF Saved
<1>4. Mine' = Mine
  BY <1>2, <1>3 DEF Mine
<1>5. ASSUME alone', breaks' = 0
      PROVE  /\ \A s \in Calls : Saved(s)' => call'[s].at < login.windowStart + WINDOW
             /\ \A s \in Calls : Running(s)' /\ call'[s].op = "track" => login.windowStart <= call'[s].at
             /\ \A s \in Calls : call'[s].op = "track" /\ call'[s].pc = "save" => call'[s].login = login
             /\ login.attempts >= LOCKOUT_THRESHOLD => ~ enabled \/ \E s \in Calls : call'[s].pc = "lock"
  <2>1. \A s \in Calls : Saved(s)' => call'[s].at < login.windowStart + WINDOW
    BY <1>2, <1>3, <1>5 DEF AloneInv
  <2>2. \A s \in Calls : Running(s)' /\ call'[s].op = "track" => login.windowStart <= call'[s].at
    <3>1. login.windowStart \in Nat
      BY <1>1, SignInDocs
    <3>2. SUFFICES ASSUME NEW s \in Calls, Running(s)', call'[s].op = "track"
                   PROVE  login.windowStart <= call'[s].at
      OBVIOUS
    <3>3. CASE call'[s] = call[s]
      BY <1>5, <3>2, <3>3 DEF AloneInv, Running
    <3>4. CASE call'[s].at >= login.windowStart
      BY <3>4
    <3> QED BY <3>2, <3>3, <3>4
  <2>3. \A s \in Calls : call'[s].op = "track" /\ call'[s].pc = "save" => call'[s].login = login
    BY <1>5 DEF AloneInv
  <2>4. \A s \in Calls : call[s].pc = "lock" => call'[s].pc = "lock"
    BY <1>1 DEF AwaitsKept
  <2> QED BY <1>5, <2>1, <2>2, <2>3, <2>4 DEF AloneInv
<1> QED BY <1>2, <1>4, <1>5 DEF AloneInv

(* A failure alone joins the counted ones, or is the first of a window     *)
(* after theirs.                                                           *)
LEMMA AloneSave ==
  ASSUME SignInInv, OneAtATime, AloneInv, NEW r \in Calls, TrackSave(r)
  PROVE  AloneInv'
<1>1. CountersTypeOK /\ (\A q \in Calls : AwaitsKept(q)) /\ \A s \in Calls : call[s].at \in Nat
  BY SignInFields DEF SignInInv
<1>2. /\ call[r].op = "track" /\ call[r].pc = "save" /\ UNCHANGED <<now, otp, enabled, newest, alone, breaks>>
      /\ login' = Counted(call[r].login, call[r].at)
      /\ IF login'.attempts >= LOCKOUT_THRESHOLD THEN Await(r, "lock") ELSE End(r, "counted")
  BY DEF TrackSave
<1>3. /\ call' \in [Calls -> Call] /\ \A s \in Calls \ {r} : call'[s] = call[s]
      /\ call'[r].op = "track" /\ call'[r].at = call[r].at
      /\ call'[r].pc = (IF login'.attempts >= LOCKOUT_THRESHOLD THEN "lock" ELSE "counted")
  <2>1. CASE login'.attempts >= LOCKOUT_THRESHOLD
    BY <1>1, <1>2, <2>1, GoesOn DEF Awaits, Answers
  <2>2. CASE ~ (login'.attempts >= LOCKOUT_THRESHOLD)
    BY <1>1, <1>2, <2>2, Answered DEF Answers
  <2> QED BY <2>1, <2>2
<1>4. SUFFICES ASSUME alone, breaks = 0
               PROVE  /\ login'.attempts = Cardinality(Mine')
                      /\ login'.attempts # 0
                      /\ \A s \in Calls : Saved(s)' => call'[s].at < login'.windowStart + WINDOW
                      /\ login'.windowStart <= call[r].at
  <2>1. ASSUME alone, breaks = 0
        PROVE  \A s \in Calls \ {r} : ~ Running(s)'
    <3>1. Running(r)
      BY <1>2 DEF Running, Answers
    <3> QED BY <1>3, <2>1, <3>1 DEF OneAtATime, Running
  <2>2. /\ login'.attempts >= LOCKOUT_THRESHOLD => call'[r].pc = "lock"
        /\ call'[r].pc # "save" /\ call'[r].at = call[r].at
    BY <1>3
  <2>3. \A s \in Calls : call'[s].op = "track" /\ call'[s].pc = "save" => s # r /\ Running(s)'
    BY <2>2 DEF Running, Answers
  <2>4. \A s \in Calls \ {r} : ~ Running(s)' => ~ (Running(s)' /\ call'[s].op = "track")
    OBVIOUS
  <2> QED BY <1>2, <2>1, <2>2, <2>3, <2>4 DEF AloneInv
<1>5. /\ login.attempts = Cardinality(Mine) /\ (login.attempts = 0 => \A s \in Calls : ~ Saved(s))
      /\ \A s \in Calls : Saved(s) => call[s].at < login.windowStart + WINDOW
      /\ login.windowStart <= call[r].at /\ call[r].login = login
  <2>1. Running(r)
    BY <1>2 DEF Running, Answers
  <2> QED BY <1>2, <1>4, <2>1 DEF AloneInv
<1>6. /\ Saved(r)' /\ ~ Saved(r)
      /\ \A s \in Calls \ {r} : (Saved(s)' <=> Saved(s)) /\ call'[s].at = call[s].at
  BY <1>2, <1>3 DEF Saved
<1>7. login.attempts \in Nat /\ login.windowStart \in Nat /\ WINDOW \in Nat \ {0} /\ call[r].at \in Nat
  BY <1>1, SignInDocs, Numbers
<1>8. CASE login.attempts > 0 /\ call[r].at < login.windowStart + WINDOW
  <2>1. login'.attempts = login.attempts + 1 /\ login'.windowStart = login.windowStart
    BY <1>2, <1>5, <1>8 DEF Counted
  <2>2. Mine' = Mine \cup {r} /\ r \notin Mine
    BY <1>3, <1>5, <1>6, <2>1 DEF Mine
  <2>3. Cardinality(Mine') = Cardinality(Mine) + 1
    <3>1. Mine \in SUBSET Calls
      BY DEF Mine
    <3>2. IsFiniteSet(Mine)
      BY <3>1, SmallerSets
    <3> QED BY <2>2, <3>2, FS_AddElement
  <2>4. \A s \in Calls : Saved(s)' => call'[s].at < login'.windowStart + WINDOW
    BY <1>3, <1>5, <1>6, <1>8, <2>1
  <2> QED BY <1>5, <1>7, <2>1, <2>3, <2>4
<1>9. CASE ~ (login.attempts > 0 /\ call[r].at < login.windowStart + WINDOW)
  <2>1. login'.attempts = 1 /\ login'.windowStart = call[r].at
    BY <1>2, <1>5, <1>9 DEF Counted
  <2>2. \A s \in Calls : Saved(s) => call[s].at < call[r].at
    BY <1>1, <1>5, <1>7, <1>9
  <2>3. Mine' = {r}
    <3>1. \A s \in Calls : s \in Mine' <=> s = r
      BY <1>1, <1>3, <1>6, <1>7, <2>1, <2>2 DEF Mine
    <3>2. \A s \in Mine' : s \in Calls
      BY DEF Mine
    <3> QED BY <3>1, <3>2
  <2>4. Cardinality(Mine') = 1
    BY <2>3, FS_Singleton
  <2>5. \A s \in Calls : Saved(s)' => call'[s].at < login'.windowStart + WINDOW
    BY <1>1, <1>3, <1>6, <1>7, <2>1, <2>2
  <2> QED BY <1>7, <2>1, <2>4, <2>5
<1> QED BY <1>8, <1>9

(* What is counted alone stays exact whatever comes next.                  *)
LEMMA AloneStep ==
  ASSUME SignInInv, OneAtATime, AloneInv, [CountersNext]_counters
  PROVE  AloneInv'
<1>1. CountersTypeOK /\ (\A q \in Calls : AwaitsKept(q)) /\ login.windowStart <= now /\ breaks \in Nat
      /\ now \in Nat /\ login.windowStart \in Nat
  BY SignInDocs DEF SignInInv, CountInv
<1>2. CASE UNCHANGED counters \/ Tick
  <2>1. UNCHANGED <<login, enabled>> /\ UNCHANGED <<alone, breaks>> /\ call' = call
    BY <1>2 DEF counters, Tick, docs
  <2> QED BY <2>1, AloneStays
<1>3. ASSUME NEW r \in Calls,
             \/ \E op \in {"track", "reset", "verify"}, code \in Calls : Receive(r, op, code)
             \/ TrackRead(r) \/ TrackSave(r) \/ Lock(r)
             \/ ResetSave(r) \/ Send(r) \/ VerifyRead(r) \/ VerifySave(r) \/ Delete(r) \/ Break(r)
      PROVE  AloneInv'
  <2>1. /\ \A s \in Calls \ {r} : call'[s] = call[s]
        /\ call[r].pc # "new" => call'[r].op = call[r].op /\ call'[r].at = call[r].at
        /\ AwaitsKept(r)'
    BY <1>1, <1>3, OneMoves
  \* The others do not touch the counter.
  <2>2. ASSUME call[r].op # "track", call[r].pc # "new",
               UNCHANGED <<login, enabled>>, alone' => alone, breaks' = 0 => breaks = 0
        PROVE  AloneInv'
    <3>1. call'[r].op # "track" /\ call'[r].pc # "lock"
      BY <2>1, <2>2 DEF AwaitsKept
    <3>2. \A s \in Calls : call'[s] = call[s] \/ (call[s].op # "track" /\ call'[s].op # "track" /\ call'[s].pc # "lock")
      BY <2>1, <2>2, <3>1
    <3> QED BY <2>2, <3>2, AloneStays
  <2>3. CASE \E op \in {"track", "reset", "verify"}, code \in Calls : Receive(r, op, code)
    <3>1. PICK op \in {"track", "reset", "verify"}, code \in Calls : Receive(r, op, code)
      BY <2>3
    <3>2. UNCHANGED <<login, enabled, breaks>> /\ (alone' => alone)
      BY <3>1 DEF Receive, docs
    <3>3. /\ call[r].pc = "new" /\ call'[r].pc \in {"read", "save"}
          /\ call'[r].op = "track" => call'[r].at = now /\ call'[r].pc = "read"
      BY <1>1, <3>1, Begun
    <3>4. \A s \in Calls :
            \/ call'[s] = call[s]
            \/ call[s].op # "track" /\ call'[s].op # "track" /\ call'[s].pc # "lock"
            \/ /\ call[s].pc \in {"new", "read"} /\ call'[s].pc \in {"read", "save"}
               /\ call'[s].op = "track" =>
                    /\ call'[s].at >= login.windowStart
                    /\ call'[s].pc = "save" => call'[s].login = login
      BY <1>1, <2>1, <3>3
    <3> QED BY <3>2, <3>4, AloneStays
  <2>4. CASE TrackRead(r)
    <3>1. UNCHANGED <<login, enabled, alone, breaks>> /\ call[r].op = "track" /\ call[r].pc = "read"
      <4>1. UNCHANGED <<now, docs, newest, alone, breaks>> /\ call[r].op = "track" /\ call[r].pc = "read"
        BY <2>4, Zenon DEF TrackRead
      <4> QED BY <4>1 DEF docs
    <3>2. call'[r].pc = "save" /\ call'[r].login = login /\ call'[r].at = call[r].at /\ call[r].at \in Nat
      BY <1>1, <2>4, CounterRead, SignInFields
    <3>3. CASE ~ (alone /\ breaks = 0)
      BY <3>1, <3>3 DEF AloneInv
    <3>4. CASE alone /\ breaks = 0
      <4>1. Running(r)
        BY <3>1 DEF Running, Answers
      <4>2. login.windowStart <= call[r].at
        BY <3>1, <3>4, <4>1 DEF AloneInv
      <4>3. call'[r].at >= login.windowStart
        BY <1>1, <3>2, <4>2
      <4>4. \A s \in Calls :
            \/ call'[s] = call[s]
            \/ call[s].op # "track" /\ call'[s].op # "track" /\ call'[s].pc # "lock"
            \/ /\ call[s].pc \in {"new", "read"} /\ call'[s].pc \in {"read", "save"}
               /\ call'[s].op = "track" =>
                    /\ call'[s].at >= login.windowStart
                    /\ call'[s].pc = "save" => call'[s].login = login
        BY <2>1, <3>1, <3>2, <4>3
      <4> QED BY <3>1, <4>4, AloneStays
    <3> QED BY <3>3, <3>4
  <2>5. CASE TrackSave(r)
    BY <2>5, AloneSave
  <2>6. CASE Lock(r)
    <3>1. /\ UNCHANGED <<login, alone>> /\ call[r].pc = "lock" /\ End(r, "counted")
          /\ breaks' = breaks \/ breaks' = breaks + 1
          /\ breaks' = breaks => enabled' = FALSE
      BY <1>1, <2>6 DEF Lock
    <3>2. call'[r].pc = "counted" /\ call'[r].op = call[r].op /\ call'[r].at = call[r].at /\ call[r].op = "track"
      BY <1>1, <3>1, Answered DEF Answers, AwaitsKept
    <3>3. \A s \in Calls : (Saved(s)' <=> Saved(s)) /\ (Saved(s) => call'[s].at = call[s].at)
      BY <2>1, <3>1, <3>2 DEF Saved
    <3>4. Mine' = Mine
      BY <3>1, <3>3 DEF Mine
    <3>5. \A s \in Calls : (Running(s)' => Running(s)) /\ call'[s].op = call[s].op /\ call'[s].at = call[s].at
                              /\ (call'[s].pc = "save" => call'[s] = call[s])
      BY <2>1, <3>1, <3>2 DEF Running, Answers
    <3>6. alone' /\ breaks' = 0 => alone /\ breaks = 0 /\ enabled' = FALSE
      BY <1>1, <3>1
    <3> QED BY <3>1, <3>3, <3>4, <3>5, <3>6 DEF AloneInv
  <2>7. CASE ResetSave(r)
    <3>1. call[r].op = "reset" /\ call[r].pc = "save" /\ UNCHANGED <<login, enabled, alone, breaks>>
      BY <2>7 DEF ResetSave
    <3> QED BY <2>2, <3>1
  <2>8. CASE Send(r)
    <3>1. call[r].pc = "send" /\ UNCHANGED <<login, enabled, alone, breaks>>
      BY <2>8 DEF Send, docs
    <3> QED BY <1>1, <2>2, <3>1 DEF AwaitsKept
  <2>9. CASE VerifyRead(r)
    <3>1. UNCHANGED <<now, docs, newest, alone, breaks>> /\ call[r].op = "verify" /\ call[r].pc = "read"
      BY <2>9, Zenon DEF VerifyRead
    <3>2. UNCHANGED <<login, enabled, alone, breaks>>
      BY <3>1 DEF docs
    <3> QED BY <2>2, <3>1, <3>2
  <2>10. CASE VerifySave(r)
    <3>1. UNCHANGED <<now, login, enabled, newest, alone, breaks>> /\ call[r].op = "verify" /\ call[r].pc = "save"
      BY <2>10, Zenon DEF VerifySave
    <3> QED BY <2>2, <3>1
  <2>11. CASE Delete(r)
    <3>1. call[r].pc \in {"drop", "consume"} /\ UNCHANGED <<login, enabled, alone, breaks>>
      BY <2>11 DEF Delete
    <3> QED BY <1>1, <2>2, <3>1 DEF AwaitsKept
  <2>12. CASE Break(r)
    <3>1. breaks' # 0
      BY <1>1, <2>12 DEF Break
    <3> QED BY <3>1 DEF AloneInv
  <2> QED BY <1>3, <2>3, <2>4, <2>5, <2>6, <2>7, <2>8, <2>9, <2>10, <2>11, <2>12
<1> QED BY <1>2, <1>3 DEF CountersNext

(* Requests that come one after the other are all counted, and the one that*)
(* reaches the threshold disables the account                              *)
(* (TrackLoginAttemptsUseCase.ts 22-42).                                   *)
THEOREM EveryFailureCounts == CountersSpec => []AloneCounted
<1> DEFINE Inv == SignInInv /\ OneAtATime /\ AloneInv
<1>1. CountersInit => Inv
  <2> SUFFICES ASSUME CountersInit PROVE Inv
    OBVIOUS
  <2>1. SignInInv
    BY SignInInit
  <2>2. \A r \in Calls : call[r].pc = "new" /\ call[r].op = "track"
    BY DEF CountersInit
  <2>3. login.attempts = 0 /\ login.windowStart = 0 /\ LOCKOUT_THRESHOLD > 0
    BY Numbers DEF CountersInit, NoLogin
  <2>4. (\A r \in Calls : ~ Running(r)) /\ (\A r \in Calls : ~ Saved(r))
    BY <2>2 DEF Running, Saved
  <2>5. Mine = {}
    BY <2>4 DEF Mine
  <2>6. Cardinality(Mine) = 0
    BY <2>5, FS_EmptySet
  <2> QED BY <2>1, <2>2, <2>3, <2>4, <2>6, Numbers DEF OneAtATime, AloneInv
<1>2. Inv /\ [CountersNext]_counters => Inv'
  BY SignInStep, OneAtATimeStep, AloneStep
<1>3. Inv => AloneCounted
  <2> SUFFICES ASSUME SignInInv, AloneInv, alone, breaks = 0, \A r \in Calls : ~ Running(r)
               PROVE  LET mine == {r \in Calls : call[r].op = "track" /\ call[r].pc = "counted"
                                  /\ call[r].at \in login.windowStart .. (login.windowStart + WINDOW - 1)} IN
                      /\ login.attempts = Cardinality(mine)
                      /\ login.attempts >= LOCKOUT_THRESHOLD => ~ enabled
    BY DEF AloneCounted
  <2>1. CountersTypeOK
    BY DEF SignInInv
  <2>2. \A r \in Calls : call[r].pc # "lock"
    BY DEF Running, Answers
  <2>3. login.windowStart \in Nat /\ WINDOW \in Nat /\ \A r \in Calls : call[r].at \in Nat
    BY <2>1, SignInDocs, SignInFields, Numbers
  <2>4. Mine = {r \in Calls : call[r].op = "track" /\ call[r].pc = "counted"
                                  /\ call[r].at \in login.windowStart .. (login.windowStart + WINDOW - 1)}
    <3>1. \A r \in Calls : Saved(r) => call[r].at < login.windowStart + WINDOW
      BY DEF AloneInv
    <3> QED BY <2>2, <2>3, <3>1 DEF Mine, Saved
  <2> HIDE DEF Mine
  <2> QED BY <2>2, <2>4 DEF AloneInv
<1> HIDE DEF Inv
<1>4. Inv /\ [][CountersNext]_counters => []Inv
  BY <1>2, PTL
<1> QED BY <1>1, <1>3, <1>4, PTL DEF CountersSpec
----------------------------------------------------------------------------
\* The code of a reset that has been stored.
Made(c) == call[c].op = "reset" /\ call[c].pc \notin {"new", "save"}

\* While requests come one after the other: the code on record is the newest, unless it is
\* gone; a verification works on the code on record, and has used up the one it has taken
\* for right, which never becomes the code on record again.
CodeInv ==
  alone =>
    /\ otp.code = None => otp = NoOtp
    /\ otp.code \in {None, newest}
    /\ \A r \in Calls : call[r].op = "verify" =>
         /\ call[r].pc \in {"save", "drop", "consume"} => call[r].otp = otp /\ otp.code # None
         /\ call[r].pc \in {"consume", "send", "right"} => call[r].otp.attempts < MAX_ATTEMPTS
         /\ call[r].pc \in {"send", "right"} => call[r].otp.code \notin {None, otp.code}
    /\ \A c \in Calls :
         /\ newest = c \/ (\E r \in Calls : call[r].otp.code = c) => Made(c)
         /\ Cardinality(Tried(c, "right")) <= 1 /\ Cardinality(Tried(c, "wrong")) <= MAX_ATTEMPTS
         /\ otp.code = c => Cardinality(Tried(c, "wrong")) <= otp.attempts
         /\ \A r \in Calls : call[r].op = "verify" /\ call[r].pc = "send" /\ call[r].otp.code = c =>
              Tried(c, "right") = {}

(* What is answered on a code changes with the request that is answered.   *)
LEMMA AnsweredOn ==
  ASSUME NEW c \in Calls, NEW answer \in {"right", "wrong"},
         \A s \in Calls :
           /\ call'[s].op = "verify" /\ call'[s].pc = answer <=> call[s].op = "verify" /\ call[s].pc = answer
           /\ call[s].op = "verify" /\ call[s].pc = answer => call'[s].otp = call[s].otp
  PROVE  Tried(c, answer)' = Tried(c, answer)
  BY DEF Tried

(* The attempts answered on a code are requests, and finitely many.        *)
LEMMA TriedTyped ==
  ASSUME CountersTypeOK, NEW c \in Calls, NEW answer \in {"right", "wrong"}
  PROVE  /\ Tried(c, answer) \in SUBSET Calls /\ IsFiniteSet(Tried(c, answer))
         /\ Cardinality(Tried(c, answer)) \in Nat
<1>1. Tried(c, answer) \in SUBSET Calls
  BY DEF Tried
<1> QED BY <1>1, SmallerSets

(* A step that leaves the document, and does not get a verification        *)
(* further.                                                                *)
LEMMA CodeStays ==
  ASSUME CodeInv, UNCHANGED <<otp, newest>>, alone' => alone,
         \A s \in Calls :
           \/ call'[s] = call[s]
           \/ /\ call'[s].otp = call[s].otp
              /\ call[s].op = "verify" => call[s].pc \notin {"right", "wrong"}
              /\ call'[s].op = "verify" =>
                   call'[s].pc \notin {"save", "drop", "consume", "send", "right", "wrong"}
              /\ Made(s) => Made(s)'
  PROVE  CodeInv'
<1> SUFFICES ASSUME alone, alone' PROVE CodeInv'
  BY DEF CodeInv
<1>1. \A c \in Calls, answer \in {"right", "wrong"} : Tried(c, answer)' = Tried(c, answer)
  BY AnsweredOn
<1>2. \A s \in Calls : call'[s].otp = call[s].otp /\ (Made(s) => Made(s)')
  BY DEF Made
<1>3. \A r \in Calls : call'[r].op = "verify" /\ call'[r].pc \in {"save", "drop", "consume", "send", "right"} =>
        call[r].op = "verify" /\ call[r].pc = call'[r].pc
  OBVIOUS
<1>4. /\ otp'.code = None => otp' = NoOtp
      /\ otp'.code \in {None, newest'}
      /\ \A r \in Calls : call'[r].op = "verify" =>
         /\ call'[r].pc \in {"save", "drop", "consume"} => call'[r].otp = otp' /\ otp'.code # None
         /\ call'[r].pc \in {"consume", "send", "right"} => call'[r].otp.attempts < MAX_ATTEMPTS
         /\ call'[r].pc \in {"send", "right"} => call'[r].otp.code \notin {None, otp'.code}
  BY <1>2, <1>3 DEF CodeInv
<1>5. ASSUME NEW c \in Calls
      PROVE  /\ newest' = c \/ (\E r \in Calls : call'[r].otp.code = c) => Made(c)'
             /\ Cardinality(Tried(c, "right")') <= 1 /\ Cardinality(Tried(c, "wrong")') <= MAX_ATTEMPTS
             /\ otp'.code = c => Cardinality(Tried(c, "wrong")') <= otp'.attempts
             /\ \A r \in Calls : call'[r].op = "verify" /\ call'[r].pc = "send" /\ call'[r].otp.code = c =>
                  Tried(c, "right")' = {}
  BY <1>1, <1>2, <1>3 DEF CodeInv
<1> QED BY <1>4, <1>5 DEF CodeInv

(* A verification that is sent its e-mail has had its answer.              *)
LEMMA CodeSend ==
  ASSUME SignInInv, OneAtATime, CodeInv, NEW r \in Calls, Send(r), call[r].op = "verify"
  PROVE  CodeInv'
<1>1. CountersTypeOK
  BY DEF SignInInv
<1>2. call[r].pc = "send" /\ UNCHANGED <<otp, newest, alone>> /\ End(r, "right")
  BY DEF Send, docs
<1> SUFFICES ASSUME alone, alone' PROVE CodeInv'
  BY <1>2 DEF CodeInv
<1>3. /\ \A s \in Calls \ {r} : call'[s] = call[s]
      /\ call'[r].pc = "right" /\ call'[r].op = "verify" /\ call'[r].otp = call[r].otp
  BY <1>1, <1>2, Answered DEF Answers
<1>4. \A s \in Calls : call'[s].otp = call[s].otp /\ call'[s].op = call[s].op /\ (Made(s) => Made(s)')
  BY <1>2, <1>3 DEF Made
<1>5. \A s \in Calls \ {r} : ~ Running(s)
  BY <1>2 DEF OneAtATime, Running, Answers
<1>6. \A c \in Calls : Tried(c, "wrong")' = Tried(c, "wrong")
  BY <1>2, <1>3, AnsweredOn
<1>7. \A c \in Calls : Tried(c, "right")' = IF call[r].otp.code = c THEN {r} ELSE Tried(c, "right")
  <2>1. SUFFICES ASSUME NEW c \in Calls
                 PROVE  Tried(c, "right")' = IF call[r].otp.code = c THEN {r} ELSE Tried(c, "right")
    OBVIOUS
  <2>2. call[r].otp.code = c => Tried(c, "right") = {}
    BY <1>2 DEF CodeInv
  <2> QED BY <1>2, <1>3, <2>2 DEF Tried
<1>8. Cardinality({r}) = 1
  BY FS_Singleton
<1>9. \A s \in Calls : call'[s].pc \notin {"save", "drop", "consume", "send"}
  BY <1>3, <1>5 DEF Running, Answers
<1>10. /\ otp'.code = None => otp' = NoOtp
       /\ otp'.code \in {None, newest'}
       /\ \A s \in Calls : call'[s].op = "verify" =>
         /\ call'[s].pc \in {"consume", "send", "right"} => call'[s].otp.attempts < MAX_ATTEMPTS
         /\ call'[s].pc \in {"send", "right"} => call'[s].otp.code \notin {None, otp'.code}
  BY <1>2, <1>3, <1>9 DEF CodeInv
<1>11. ASSUME NEW c \in Calls
       PROVE  /\ newest' = c \/ (\E s \in Calls : call'[s].otp.code = c) => Made(c)'
              /\ Cardinality(Tried(c, "right")') <= 1 /\ Cardinality(Tried(c, "wrong")') <= MAX_ATTEMPTS
              /\ otp'.code = c => Cardinality(Tried(c, "wrong")') <= otp'.attempts
  <2>1. newest' = c \/ (\E s \in Calls : call'[s].otp.code = c) => Made(c)'
    BY <1>2, <1>4 DEF CodeInv
  <2>2. Cardinality(Tried(c, "right")') <= 1
    <3>1. Cardinality(Tried(c, "right")) <= 1
      BY DEF CodeInv
    <3>2. CASE call[r].otp.code = c
      BY <1>7, <1>8, <3>2
    <3>3. CASE call[r].otp.code # c
      BY <1>7, <3>1, <3>3
    <3> QED BY <3>2, <3>3
  <2>3. Cardinality(Tried(c, "wrong")') <= MAX_ATTEMPTS
        /\ (otp'.code = c => Cardinality(Tried(c, "wrong")') <= otp'.attempts)
    BY <1>2, <1>6 DEF CodeInv
  <2> QED BY <2>1, <2>2, <2>3
<1> QED BY <1>9, <1>10, <1>11 DEF CodeInv

(* A verification reads the document as it is.                             *)
LEMMA CodeLookedUp ==
  ASSUME SignInInv, OneAtATime, CodeInv, NEW r \in Calls, VerifyRead(r)
  PROVE  CodeInv'
<1>1. CountersTypeOK /\ otp \in Otp /\ otp.attempts \in Nat /\ MAX_ATTEMPTS \in Nat
  BY SignInDocs, Numbers DEF SignInInv
<1>2. call[r].op = "verify" /\ call[r].pc = "read" /\ UNCHANGED <<otp, newest, alone>>
  <2>1. call[r].op = "verify" /\ call[r].pc = "read" /\ UNCHANGED <<now, docs, newest, alone, breaks>>
    BY Zenon DEF VerifyRead
  <2> QED BY <2>1 DEF docs
<1> SUFFICES ASSUME alone, alone' PROVE CodeInv'
  BY <1>2 DEF CodeInv
<1>3. /\ \A s \in Calls \ {r} : call'[s] = call[s]
      /\ call'[r].otp = otp /\ call'[r].pc \in {"unknown", "drop", "save", "consume"} /\ call'[r].op = "verify"
      /\ call'[r].pc # "unknown" => otp # NoOtp
      /\ call'[r].pc = "consume" => otp.attempts < MAX_ATTEMPTS
  BY <1>1, <1>2, CodeRead
<1>4. \A s \in Calls : call'[s].op = call[s].op /\ (Made(s) => Made(s)')
  BY <1>2, <1>3 DEF Made
<1>5. \A c \in Calls, answer \in {"right", "wrong"} : Tried(c, answer)' = Tried(c, answer)
  BY <1>2, <1>3, AnsweredOn
<1>6. /\ otp'.code = None => otp' = NoOtp
      /\ otp'.code \in {None, newest'}
      /\ \A s \in Calls : call'[s].op = "verify" =>
         /\ call'[s].pc \in {"save", "drop", "consume"} => call'[s].otp = otp' /\ otp'.code # None
         /\ call'[s].pc \in {"consume", "send", "right"} => call'[s].otp.attempts < MAX_ATTEMPTS
         /\ call'[s].pc \in {"send", "right"} => call'[s].otp.code \notin {None, otp'.code}
  BY <1>2, <1>3, <1>4 DEF CodeInv
<1>7. ASSUME NEW c \in Calls
      PROVE  /\ newest' = c \/ (\E s \in Calls : call'[s].otp.code = c) => Made(c)'
             /\ Cardinality(Tried(c, "right")') <= 1 /\ Cardinality(Tried(c, "wrong")') <= MAX_ATTEMPTS
             /\ otp'.code = c => Cardinality(Tried(c, "wrong")') <= otp'.attempts
             /\ \A s \in Calls : call'[s].op = "verify" /\ call'[s].pc = "send" /\ call'[s].otp.code = c =>
                  Tried(c, "right")' = {}
  <2>1. newest' = c \/ (\E s \in Calls : call'[s].otp.code = c) => Made(c)'
    <3>1. otp.code = c => newest = c
      BY <1>7, Numbers DEF CodeInv
    <3> QED BY <1>2, <1>3, <1>4, <3>1 DEF CodeInv
  <2> QED BY <1>2, <1>3, <1>4, <1>5, <2>1 DEF CodeInv
<1> QED BY <1>6, <1>7 DEF CodeInv

(* A wrong attempt is one more on the document it was made on.             *)
LEMMA CodeWrong ==
  ASSUME SignInInv, OneAtATime, CodeInv, NEW r \in Calls, VerifySave(r)
  PROVE  CodeInv'
<1>1. CountersTypeOK /\ otp \in Otp /\ otp.attempts \in Nat /\ MAX_ATTEMPTS \in Nat /\ AwaitsKept(r)
  BY SignInDocs, Numbers DEF SignInInv
<1>2. call[r].op = "verify" /\ call[r].pc = "save" /\ UNCHANGED <<now, login, enabled, newest, alone, breaks>>
      /\ End(r, "wrong")
  BY Zenon DEF VerifySave
<1>3. otp' = [call[r].otp EXCEPT !.attempts = @ + 1]
  BY Zenon DEF VerifySave
<1> SUFFICES ASSUME alone, alone' PROVE CodeInv'
  BY <1>2 DEF CodeInv
<1>4. /\ \A s \in Calls \ {r} : call'[s] = call[s]
      /\ call'[r].pc = "wrong" /\ call'[r].op = "verify" /\ call'[r].otp = call[r].otp
  BY <1>1, <1>2, Answered DEF Answers
<1>5. call[r].otp = otp /\ otp.code # None /\ otp.attempts < MAX_ATTEMPTS
  BY <1>1, <1>2 DEF CodeInv, AwaitsKept
<1>6. otp'.code = otp.code /\ otp'.attempts = otp.attempts + 1
  BY <1>1, <1>3, <1>5 DEF Otp
<1>7. \A s \in Calls : call'[s].otp = call[s].otp /\ call'[s].op = call[s].op /\ (Made(s) => Made(s)')
  BY <1>2, <1>4 DEF Made
<1>8. \A s \in Calls \ {r} : ~ Running(s)
  BY <1>2 DEF OneAtATime, Running, Answers
<1>9. \A s \in Calls : call'[s].pc \notin {"save", "drop", "consume", "send"}
  BY <1>4, <1>8 DEF Running, Answers
<1>10. \A c \in Calls : Tried(c, "right")' = Tried(c, "right")
  BY <1>2, <1>4, AnsweredOn
<1>11. \A c \in Calls : c # otp.code => Tried(c, "wrong")' = Tried(c, "wrong")
  BY <1>2, <1>4, <1>5 DEF Tried
<1>12. \A c \in Calls : c = otp.code => Cardinality(Tried(c, "wrong")') = Cardinality(Tried(c, "wrong")) + 1
  <2>1. SUFFICES ASSUME NEW c \in Calls, c = otp.code
                 PROVE  Cardinality(Tried(c, "wrong")') = Cardinality(Tried(c, "wrong")) + 1
    OBVIOUS
  <2>2. Tried(c, "wrong")' = Tried(c, "wrong") \cup {r} /\ r \notin Tried(c, "wrong")
    BY <1>2, <1>4, <1>5, <2>1 DEF Tried
  <2>3. IsFiniteSet(Tried(c, "wrong"))
    BY <1>1, TriedTyped
  <2> QED BY <2>2, <2>3, FS_AddElement
<1>13. /\ otp'.code = None => otp' = NoOtp
       /\ otp'.code \in {None, newest'}
       /\ \A s \in Calls : call'[s].op = "verify" =>
         /\ call'[s].pc \in {"consume", "send", "right"} => call'[s].otp.attempts < MAX_ATTEMPTS
         /\ call'[s].pc \in {"send", "right"} => call'[s].otp.code \notin {None, otp'.code}
  BY <1>2, <1>4, <1>5, <1>6 DEF CodeInv
<1>14. ASSUME NEW c \in Calls
       PROVE  /\ newest' = c \/ (\E s \in Calls : call'[s].otp.code = c) => Made(c)'
              /\ Cardinality(Tried(c, "right")') <= 1 /\ Cardinality(Tried(c, "wrong")') <= MAX_ATTEMPTS
              /\ otp'.code = c => Cardinality(Tried(c, "wrong")') <= otp'.attempts
  <2>1. newest' = c \/ (\E s \in Calls : call'[s].otp.code = c) => Made(c)'
    BY <1>2, <1>7 DEF CodeInv
  <2>2. Cardinality(Tried(c, "right")') <= 1
    BY <1>10 DEF CodeInv
  <2>3. CASE c = otp.code
    <3>1. Cardinality(Tried(c, "wrong")) <= otp.attempts /\ Cardinality(Tried(c, "wrong")) \in Nat
      BY <1>1, <2>3, TriedTyped DEF CodeInv
    <3>2. Cardinality(Tried(c, "wrong")') = Cardinality(Tried(c, "wrong")) + 1
      BY <1>12, <2>3
    <3> QED BY <1>1, <1>5, <1>6, <2>1, <2>2, <3>1, <3>2
  <2>4. CASE c # otp.code
    <3>1. Cardinality(Tried(c, "wrong")') <= MAX_ATTEMPTS /\ otp'.code # c
      BY <1>6, <1>11, <2>4 DEF CodeInv
    <3> QED BY <2>1, <2>2, <3>1
  <2> QED BY <2>3, <2>4
<1> QED BY <1>9, <1>13, <1>14 DEF CodeInv

(* An expired, spent or right code is gone; the right one is gone before   *)
(* its e-mail.                                                             *)
LEMMA CodeDeleted ==
  ASSUME SignInInv, OneAtATime, CodeInv, NEW r \in Calls, Delete(r)
  PROVE  CodeInv'
<1>1. CountersTypeOK /\ AwaitsKept(r)
  BY DEF SignInInv
<1>2. /\ call[r].pc \in {"drop", "consume"} /\ call[r].op = "verify" /\ otp' = NoOtp
      /\ UNCHANGED <<newest, alone>>
      /\ IF call[r].pc = "drop" THEN End(r, "refused") ELSE Await(r, "send")
  BY <1>1 DEF Delete, AwaitsKept
<1> SUFFICES ASSUME alone, alone' PROVE CodeInv'
  BY <1>2 DEF CodeInv
<1>3. /\ \A s \in Calls \ {r} : call'[s] = call[s]
      /\ call'[r].op = "verify" /\ call'[r].otp = call[r].otp
      /\ call'[r].pc = IF call[r].pc = "drop" THEN "refused" ELSE "send"
  <2>1. CASE call[r].pc = "drop"
    BY <1>1, <1>2, <2>1, Answered DEF Answers
  <2>2. CASE call[r].pc # "drop"
    BY <1>1, <1>2, <2>2, GoesOn DEF Awaits
  <2> QED BY <2>1, <2>2
<1>4. call[r].otp = otp /\ otp.code # None
  BY <1>2 DEF CodeInv
<1>5. \A s \in Calls : call'[s].otp = call[s].otp /\ call'[s].op = call[s].op /\ (Made(s) => Made(s)')
  BY <1>2, <1>3 DEF Made
<1>6. \A s \in Calls \ {r} : ~ Running(s)
  BY <1>2 DEF OneAtATime, Running, Answers
<1>7. \A s \in Calls : call'[s].pc \notin {"save", "drop", "consume"} /\ (call'[s].pc = "send" => s = r)
  BY <1>3, <1>6 DEF Running, Answers
<1>8. \A c \in Calls, answer \in {"right", "wrong"} : Tried(c, answer)' = Tried(c, answer)
  BY <1>2, <1>3, AnsweredOn
<1>9. \A c \in Calls : c = otp.code => Tried(c, "right") = {}
  BY DEF CodeInv, Tried
<1>10. NoOtp.code = None
  BY DEF NoOtp
<1>11. /\ otp'.code = None => otp' = NoOtp
       /\ otp'.code \in {None, newest'}
       /\ \A s \in Calls : call'[s].op = "verify" =>
         /\ call'[s].pc \in {"send", "right"} => call'[s].otp.attempts < MAX_ATTEMPTS
         /\ call'[s].pc \in {"send", "right"} => call'[s].otp.code \notin {None, otp'.code}
  BY <1>2, <1>3, <1>4, <1>10 DEF CodeInv
<1>12. ASSUME NEW c \in Calls
       PROVE  /\ newest' = c \/ (\E s \in Calls : call'[s].otp.code = c) => Made(c)'
              /\ Cardinality(Tried(c, "right")') <= 1 /\ Cardinality(Tried(c, "wrong")') <= MAX_ATTEMPTS
              /\ otp'.code # c
              /\ \A s \in Calls : call'[s].op = "verify" /\ call'[s].pc = "send" /\ call'[s].otp.code = c =>
                   Tried(c, "right")' = {}
  <2>1. newest' = c \/ (\E s \in Calls : call'[s].otp.code = c) => Made(c)'
    BY <1>2, <1>5 DEF CodeInv
  <2>2. Cardinality(Tried(c, "right")') <= 1 /\ Cardinality(Tried(c, "wrong")') <= MAX_ATTEMPTS
    BY <1>8 DEF CodeInv
  <2>3. otp'.code # c
    BY <1>2, <1>10, Numbers
  <2>4. \A s \in Calls : call'[s].op = "verify" /\ call'[s].pc = "send" /\ call'[s].otp.code = c =>
          Tried(c, "right")' = {}
    BY <1>3, <1>4, <1>7, <1>8, <1>9
  <2> QED BY <2>1, <2>2, <2>3, <2>4
<1> QED BY <1>7, <1>11, <1>12 DEF CodeInv

(* A new code is nobody's yet: it has been tried by nobody.                *)
LEMMA CodeStored ==
  ASSUME SignInInv, OneAtATime, CodeInv, NEW r \in Calls, ResetSave(r)
  PROVE  CodeInv'
<1>1. CountersTypeOK
  BY DEF SignInInv
<1>2. /\ call[r].op = "reset" /\ call[r].pc = "save" /\ newest' = r /\ alone' = alone /\ Await(r, "send")
      /\ otp' = [code |-> r, expiresAt |-> call[r].at + OTP_TTL, attempts |-> 0]
  BY DEF ResetSave
<1> SUFFICES ASSUME alone, alone' PROVE CodeInv'
  BY <1>2 DEF CodeInv
<1>3. /\ \A s \in Calls \ {r} : call'[s] = call[s]
      /\ call'[r].op = "reset" /\ call'[r].otp = call[r].otp /\ call'[r].pc = "send"
  BY <1>1, <1>2, GoesOn DEF Awaits
<1>4. otp'.code = r /\ otp'.attempts = 0 /\ r # None
  BY <1>2, Numbers
<1>5. \A s \in Calls : call'[s].otp = call[s].otp /\ call'[s].op = call[s].op /\ (Made(s) => Made(s)')
  BY <1>2, <1>3 DEF Made
<1>6. Made(r)' /\ ~ Made(r)
  BY <1>2, <1>3 DEF Made
<1>7. \A s \in Calls : call[s].otp.code # r
  BY <1>6 DEF CodeInv
<1>8. \A s \in Calls \ {r} : ~ Running(s)
  BY <1>2 DEF OneAtATime, Running, Answers
<1>9. \A s \in Calls : call'[s].op = "verify" => call'[s].pc \notin {"save", "drop", "consume", "send"}
  BY <1>3, <1>8 DEF Running, Answers
<1>10. \A c \in Calls, answer \in {"right", "wrong"} : Tried(c, answer)' = Tried(c, answer)
  BY <1>2, <1>3, AnsweredOn
<1>11. Tried(r, "wrong") = {}
  BY <1>7 DEF Tried
<1>12. \A s \in Calls : call'[s].op = "verify" /\ call'[s].pc = "right" =>
         call'[s].otp.attempts < MAX_ATTEMPTS /\ call'[s].otp.code \notin {None, otp'.code}
  <2>1. \A s \in Calls : call'[s].op = "verify" => s # r /\ call'[s] = call[s]
    BY <1>3
  <2> QED BY <1>4, <1>7, <2>1 DEF CodeInv
<1>13. ASSUME NEW c \in Calls
       PROVE  /\ newest' = c \/ (\E s \in Calls : call'[s].otp.code = c) => Made(c)'
              /\ Cardinality(Tried(c, "right")') <= 1 /\ Cardinality(Tried(c, "wrong")') <= MAX_ATTEMPTS
              /\ otp'.code = c => Cardinality(Tried(c, "wrong")') <= otp'.attempts
  <2>1. newest' = c \/ (\E s \in Calls : call'[s].otp.code = c) => Made(c)'
    BY <1>2, <1>5, <1>6 DEF CodeInv
  <2>2. Cardinality(Tried(c, "right")') <= 1 /\ Cardinality(Tried(c, "wrong")') <= MAX_ATTEMPTS
    BY <1>10 DEF CodeInv
  <2>3. otp'.code = c => Cardinality(Tried(c, "wrong")') <= otp'.attempts
    <3>1. Cardinality(Tried(r, "wrong")') = 0
      BY <1>10, <1>11, FS_EmptySet
    <3> QED BY <1>4, <3>1
  <2> QED BY <2>1, <2>2, <2>3
<1> QED BY <1>2, <1>4, <1>9, <1>12, <1>13 DEF CodeInv

(* A code stands whatever comes next, request after request.               *)
LEMMA CodeStep ==
  ASSUME SignInInv, OneAtATime, CodeInv, [CountersNext]_counters
  PROVE  CodeInv'
<1>1. CountersTypeOK /\ (\A q \in Calls : AwaitsKept(q)) /\ login.windowStart <= now
  BY DEF SignInInv, CountInv
<1>2. CASE UNCHANGED counters \/ Tick
  <2>1. UNCHANGED <<otp, newest, alone>> /\ call' = call
    BY <1>2 DEF counters, Tick, docs
  <2> QED BY <2>1, CodeStays
<1>3. ASSUME NEW r \in Calls,
             \/ \E op \in {"track", "reset", "verify"}, code \in Calls : Receive(r, op, code)
             \/ TrackRead(r) \/ TrackSave(r) \/ Lock(r)
             \/ ResetSave(r) \/ Send(r) \/ VerifyRead(r) \/ VerifySave(r) \/ Delete(r) \/ Break(r)
      PROVE  CodeInv'
  <2>1. /\ \A s \in Calls \ {r} : call'[s] = call[s]
        /\ call[r].pc # "new" => call'[r].op = call[r].op
        /\ call'[r].pc # "new"
        /\ call[r].op = "reset" /\ call[r].pc # "new" => call'[r].pc # "save"
    BY <1>1, <1>3, OneMoves
  <2>2. Made(r) => Made(r)'
    BY <2>1 DEF Made
  \* A step that gets no verification further.
  <2>3. ASSUME UNCHANGED <<otp, newest>>, alone' => alone, call'[r].otp = call[r].otp,
               call[r].op = "verify" => call[r].pc \notin {"right", "wrong"},
               call'[r].op = "verify" =>
                   call'[r].pc \notin {"save", "drop", "consume", "send", "right", "wrong"}
        PROVE  CodeInv'
    <3>1. \A s \in Calls :
           \/ call'[s] = call[s]
           \/ /\ call'[s].otp = call[s].otp
              /\ call[s].op = "verify" => call[s].pc \notin {"right", "wrong"}
              /\ call'[s].op = "verify" =>
                   call'[s].pc \notin {"save", "drop", "consume", "send", "right", "wrong"}
              /\ Made(s) => Made(s)'
      BY <2>1, <2>2, <2>3
    <3> QED BY <2>3, <3>1, CodeStays
  <2>4. CASE \E op \in {"track", "reset", "verify"}, code \in Calls : Receive(r, op, code)
    <3>1. PICK op \in {"track", "reset", "verify"}, code \in Calls : Receive(r, op, code)
      BY <2>4
    <3>2. UNCHANGED <<otp, newest>> /\ (alone' => alone)
      BY <3>1 DEF Receive, docs
    <3>3. /\ call[r].pc = "new" /\ call'[r].otp = call[r].otp
          /\ call'[r].op = "verify" => call'[r].pc = "read"
      BY <1>1, <3>1, Begun
    <3> QED BY <2>3, <3>2, <3>3
  <2>5. CASE TrackRead(r)
    <3>1. UNCHANGED <<now, docs, newest, alone, breaks>> /\ call[r].op = "track"
      BY <2>5, Zenon DEF TrackRead
    <3>2. UNCHANGED <<otp, newest, alone>>
      BY <3>1 DEF docs
    <3>3. call'[r].op = "track" /\ call'[r].otp = call[r].otp
      BY <1>1, <2>5, <3>1, CounterRead
    <3> QED BY <2>3, <3>1, <3>2, <3>3
  <2>6. CASE TrackSave(r)
    <3>1. UNCHANGED <<otp, newest, alone>> /\ call[r].op = "track" /\ (Await(r, "lock") \/ End(r, "counted"))
      BY <2>6 DEF TrackSave
    <3>2. call'[r].op = "track" /\ call'[r].otp = call[r].otp
      BY <1>1, <3>1, GoesOn, Answered DEF Awaits, Answers
    <3> QED BY <2>3, <3>1, <3>2
  <2>7. CASE Lock(r)
    <3>1. UNCHANGED <<otp, newest, alone>> /\ call[r].op = "track" /\ End(r, "counted")
      BY <1>1, <2>7 DEF Lock, AwaitsKept
    <3>2. call'[r].op = "track" /\ call'[r].otp = call[r].otp
      BY <1>1, <3>1, Answered DEF Answers
    <3> QED BY <2>3, <3>1, <3>2
  <2>8. CASE ResetSave(r)
    BY <2>8, CodeStored
  <2>9. CASE Send(r)
    <3>1. CASE call[r].op = "verify"
      BY <2>9, <3>1, CodeSend
    <3>2. CASE call[r].op # "verify"
      <4>1. UNCHANGED <<otp, newest, alone>> /\ End(r, IF call[r].op = "reset" THEN "stored" ELSE "right")
        BY <2>9 DEF Send, docs
      <4>2. call'[r].op # "verify" /\ call'[r].otp = call[r].otp
        BY <1>1, <3>2, <4>1, Answered DEF Answers
      <4> QED BY <2>3, <3>2, <4>1, <4>2
    <3> QED BY <3>1, <3>2
  <2>10. CASE VerifyRead(r)
    BY <2>10, CodeLookedUp
  <2>11. CASE VerifySave(r)
    BY <2>11, CodeWrong
  <2>12. CASE Delete(r)
    BY <2>12, CodeDeleted
  <2>13. CASE Break(r)
    <3>1. UNCHANGED <<otp, newest, alone>> /\ End(r, "error") /\ call[r].pc \notin Answers
      BY <2>13 DEF Break, docs, Running
    <3>2. call'[r].pc = "error" /\ call'[r].otp = call[r].otp
      BY <1>1, <3>1, Answered DEF Answers
    <3> QED BY <2>3, <3>1, <3>2 DEF Answers
  <2> QED BY <1>3, <2>4, <2>5, <2>6, <2>7, <2>8, <2>9, <2>10, <2>11, <2>12, <2>13
<1> QED BY <1>2, <1>3 DEF CountersNext

(* A reset code is good once, for MAX_ATTEMPTS wrong attempts, and until a *)
(* newer one is requested, as long as no two requests of the address       *)
(* overlap (VerifyOtpAndResetUseCase.ts 11-35,                             *)
(* RequestPasswordResetUseCase.ts 18-21).                                  *)
THEOREM CodesAreGoodOnce == CountersSpec => []CodesStand
<1> DEFINE Inv == SignInInv /\ OneAtATime /\ CodeInv
<1>1. CountersInit => Inv
  <2> SUFFICES ASSUME CountersInit PROVE Inv
    OBVIOUS
  <2>1. SignInInv
    BY SignInInit
  <2>2. \A r \in Calls : call[r].pc = "new" /\ call[r].op = "track" /\ call[r].otp = NoOtp
    BY DEF CountersInit
  <2>3. OneAtATime
    BY <2>2 DEF OneAtATime, Running
  <2>4. NoOtp.code = None /\ NoOtp.attempts = 0 /\ otp = NoOtp /\ newest = None /\ MAX_ATTEMPTS \in Nat
    BY Numbers DEF CountersInit, NoOtp
  <2>5. \A c \in Calls, answer \in {"right", "wrong"} : Tried(c, answer) = {}
    BY <2>2 DEF Tried
  <2>6. \A c \in Calls, answer \in {"right", "wrong"} : Cardinality(Tried(c, answer)) = 0
    BY <2>5, FS_EmptySet
  <2>7. \A c \in Calls : newest # c /\ otp.code # c /\ \A r \in Calls : call[r].otp.code # c
    BY <2>2, <2>4, Numbers
  <2>8. CodeInv
    BY <2>2, <2>4, <2>6, <2>7 DEF CodeInv
  <2> QED BY <2>1, <2>3, <2>8
<1>2. Inv /\ [CountersNext]_counters => Inv'
  BY SignInStep, OneAtATimeStep, CodeStep
<1>3. Inv => CodesStand
  <2> SUFFICES ASSUME CodeInv, alone PROVE CodesStand
    BY DEF CodesStand
  <2>1. \A c \in Calls : \A r \in Tried(c, "right") : call[r].otp.attempts < MAX_ATTEMPTS
    BY DEF Tried, CodeInv
  <2> QED BY <2>1 DEF CodeInv, CodesStand
<1> HIDE DEF Inv
<1>4. Inv /\ [][CountersNext]_counters => []Inv
  BY <1>2, PTL
<1> QED BY <1>1, <1>3, <1>4, PTL DEF CountersSpec
=============================================================================
