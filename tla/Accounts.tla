------------------------------ MODULE Accounts ------------------------------
(***************************************************************************)
(* Who holds one e-mail address, and with which roles: auth-service        *)
(* registers, user-service creates, promotes and deletes admins, the seed  *)
(* scripts replace accounts and a migration adds the roles array.  Firebase*)
(* Auth keeps the account and its claims, "users" the document, and no step*)
(* spans both: a request moves from await to await, and the two creations  *)
(* undo their Auth user when a later step fails.                           *)
(***************************************************************************)
EXTENDS Naturals

CONSTANTS
  Requests,       \* requests; a creation makes the account that bears its name
  Legacy,         \* an account from before the roles array, which the migration is for
  MaxFaults       \* bound: rejected calls and deaths

ASSUME AccountsAssumption == Legacy \notin Requests /\ MaxFaults \in Nat

VARIABLES
  auth,           \* of each account: the Auth user
  claims,         \* its custom claims
  doc,            \* its document of "users"
  req,            \* of each request: operation, account, await, claims read
  crossed,        \* history: accounts two requests worked on at once
  seeded,         \* history: a seed script has begun
  faults

stores == <<auth, claims, doc>>
history == <<crossed, seeded, faults>>
vars == <<stores, req, history>>

Uids == Requests \cup {Legacy}
Roles == {"student", "admin", "super_admin"}

\* An absent roles array is the empty set: the code never stores an empty one.
Claims == [role : Roles \cup {"none"}, roles : SUBSET Roles]
NoClaims == [role |-> "none", roles |-> {}]
Just(role) == [role |-> role, roles |-> {role}]

Doc == [there : BOOLEAN, has : Claims, deleted : BOOLEAN]
NoDoc == [there |-> FALSE, has |-> NoClaims, deleted |-> FALSE]
Stored(has) == [there |-> TRUE, has |-> has, deleted |-> FALSE]

\* authenticate and toUser: the array, or else the one role.
RolesOf(c) == IF c.roles = {} THEN {c.role} \ {"none"} ELSE c.roles

\* authorize: a super admin is an admin as well.
Effective(c) == RolesOf(c) \cup (IF "super_admin" \in RolesOf(c) THEN {"admin"} ELSE {})

Creations == {"register", "createAdmin"}
Ops == Creations \cup {"seed", "promote", "deleteAdmin", "migrate"}

Request == [op : Ops, uid : Uids, role : Roles, seen : Claims,
            pc : {"new", "remove", "check", "create", "read", "claims", "doc", "disable", "last",
                  "undo", "done", "failed", "refused", "dead"}]

Over == {"new", "done", "failed", "refused", "dead"}
InFlight(r) == req[r].pc \notin Over

Known(u) == auth[u] \in {"live", "disabled"}

\* A legacy account has one role, in claims and document, and no array.
Init ==
  /\ req = [r \in Requests |-> [op |-> "seed", uid |-> r, role |-> "student", seen |-> NoClaims, pc |-> "new"]]
  /\ crossed = {} /\ seeded = FALSE /\ faults = 0
  /\ \E old \in {NoClaims} \cup {[role |-> r, roles |-> {}] : r \in Roles} :
       LET Of(u, x, none) == IF u = Legacy /\ old # NoClaims THEN x ELSE none IN
       /\ auth = [u \in Uids |-> Of(u, "live", "none")]
       /\ claims = [u \in Uids |-> Of(u, old, NoClaims)]
       /\ doc = [u \in Uids |-> Of(u, Stored(old), NoDoc)]

Goto(r, pc) == req' = [req EXCEPT ![r].pc = pc]

Fault == faults < MaxFaults /\ faults' = faults + 1 /\ UNCHANGED <<crossed, seeded>>

FirstAwait == [register |-> "check", createAdmin |-> "check", seed |-> "remove",
               promote |-> "read", deleteAdmin |-> "read", migrate |-> "read"]

Begin(r, op, u, role) ==
  /\ req[r].pc = "new"
  /\ u = r <=> op \in Creations \cup {"seed"}
  /\ op = "register" => role = "student"
  /\ op \in {"createAdmin", "promote", "deleteAdmin"} => role = "admin"
  /\ req' = [req EXCEPT ![r] = [op |-> op, uid |-> u, role |-> role, seen |-> NoClaims, pc |-> FirstAwait[op]]]
  /\ crossed' = IF \E s \in Requests \ {r} : InFlight(s) /\ req[s].uid = u THEN crossed \cup {u} ELSE crossed
  /\ seeded' = (seeded \/ op = "seed")
  /\ UNCHANGED <<stores, faults>>
----------------------------------------------------------------------------
\* emailExists and findByEmail: a document of the address that is not deleted.
Check(r) ==
  /\ req[r].pc = "check"
  /\ Goto(r, IF \E u \in Uids : doc[u].there /\ ~ doc[u].deleted THEN "refused" ELSE "create")
  /\ UNCHANGED <<stores, history>>

\* deleteIfExists of the seed scripts: the Auth user of the address, whoever it is.
Remove(r) ==
  /\ req[r].pc = "remove"
  /\ auth' = [u \in Uids |-> IF Known(u) THEN "gone" ELSE auth[u]]
  /\ Goto(r, "create")
  /\ UNCHANGED <<claims, doc, history>>

\* Mutant: as the seed scripts do, the Auth user of the address makes room.
CreateAnyway(r) ==
  /\ req[r].pc = "create"
  /\ auth' = [u \in Uids |-> IF u = r THEN "live" ELSE IF Known(u) THEN "gone" ELSE auth[u]]
  /\ Goto(r, "claims")
  /\ UNCHANGED <<claims, doc, history>>

\* createUser: Firebase Auth has at most one user of an address, disabled or not.
Create(r) ==
  /\ req[r].pc = "create"
  /\ IF \E u \in Uids : Known(u)
       THEN Goto(r, "refused") /\ UNCHANGED auth
       ELSE Goto(r, "claims") /\ auth' = [auth EXCEPT ![r] = "live"]
  /\ UNCHANGED <<claims, doc, history>>

\* Mutant: a promoted admin's claims name the new role alone.
NewClaimsAlone(r) == Just(IF req[r].op = "migrate" THEN req[r].seen.role ELSE req[r].role)

\* What setCustomUserClaims replaces the claims with; a promoted admin stays a student.
NewClaims(r) ==
  CASE req[r].op = "migrate" -> Just(req[r].seen.role)
    [] req[r].op = "promote" -> [role |-> "admin", roles |-> {"student", "admin"}]
    [] OTHER -> Just(req[r].role)

SetClaims(r) ==
  LET u == req[r].uid IN
  /\ req[r].pc = "claims" /\ Known(u)
  /\ claims' = [claims EXCEPT ![u] = NewClaims(r)]
  /\ Goto(r, "doc")
  /\ UNCHANGED <<auth, doc, history>>

\* The document: created whole, the promoted copy written whole, the one field of a
\* deletion, the array of the migration if there is a document.
NewDoc(r) ==
  LET u == req[r].uid IN
  CASE req[r].op = "deleteAdmin" -> [doc[u] EXCEPT !.deleted = TRUE]
    [] req[r].op = "migrate" -> IF doc[u].there THEN [doc[u] EXCEPT !.has.roles = {req[r].seen.role}] ELSE doc[u]
    [] req[r].op = "promote" -> Stored([role |-> "admin", roles |-> {"student", "admin"}])
    [] OTHER -> Stored(Just(req[r].role))

StoreDoc(r) ==
  /\ req[r].pc = "doc"
  /\ doc' = [doc EXCEPT ![req[r].uid] = NewDoc(r)]
  /\ Goto(r, CASE req[r].op = "deleteAdmin" -> "disable"
               [] req[r].op \in {"migrate", "seed"} -> "done"
               [] OTHER -> "last")
  /\ UNCHANGED <<auth, claims, history>>

\* Mutant: the migration does not skip the users who have the array.
AdmitsArrays(op, c, d) ==
  IF op = "migrate" THEN c.role # "none"
  ELSE d.there /\ ~ d.deleted /\ d.has.role = IF op = "promote" THEN "student" ELSE "admin"

\* The checks on what findById or the page of listUsers returned.
Admits(op, c, d) ==
  IF op = "migrate" THEN c.role # "none" /\ c.roles = {}
  ELSE d.there /\ ~ d.deleted /\ d.has.role = IF op = "promote" THEN "student" ELSE "admin"

Read(r) ==
  LET u == req[r].uid IN
  /\ req[r].pc = "read"
  /\ req' = [req EXCEPT ![r].seen = claims[u],
                        ![r].pc = IF ~ Admits(req[r].op, claims[u], doc[u]) THEN "refused"
                                  ELSE IF req[r].op = "deleteAdmin" THEN "doc" ELSE "claims"]
  /\ UNCHANGED <<stores, history>>

\* disableUser after a deletion; the event or the call that ends the other requests.
Finish(r) ==
  LET u == req[r].uid IN
  /\ req[r].pc = "last" \/ (req[r].pc = "disable" /\ Known(u))
  /\ auth' = IF req[r].pc = "disable" THEN [auth EXCEPT ![u] = "disabled"] ELSE auth
  /\ Goto(r, "done")
  /\ UNCHANGED <<claims, doc, history>>

\* Mutant: the claims are set before the try block is entered.
CaughtLate(r) == req[r].op \in Creations /\ req[r].pc \in {"doc", "last"}

\* The awaits inside the try block of a creation.
Caught(r) == req[r].op \in Creations /\ req[r].pc \in {"claims", "doc", "last"}

\* A call is rejected: by Firebase Auth, which does not know the user, or by a failure.
Fail(r) ==
  /\ InFlight(r) /\ req[r].pc # "undo"
  /\ \/ req[r].pc \in {"claims", "disable"} /\ ~ Known(req[r].uid) /\ UNCHANGED history
     \/ Fault
  /\ Goto(r, IF Caught(r) THEN "undo" ELSE "refused")
  /\ UNCHANGED stores

\* The catch block deletes the Auth user; a failure to do so is swallowed.
Undo(r) ==
  /\ req[r].pc = "undo"
  /\ \/ auth' = [auth EXCEPT ![r] = "gone"] /\ Goto(r, "failed") /\ UNCHANGED history
     \/ UNCHANGED auth /\ Goto(r, "dead") /\ Fault
  /\ UNCHANGED <<claims, doc>>

Dies(r) == InFlight(r) /\ Goto(r, "dead") /\ Fault /\ UNCHANGED stores

Next ==
  \E r \in Requests :
    \/ \E op \in Ops, u \in Uids, role \in Roles : Begin(r, op, u, role)
    \/ Check(r) \/ Remove(r) \/ Create(r) \/ SetClaims(r) \/ StoreDoc(r) \/ Read(r) \/ Finish(r)
    \/ Fail(r) \/ Undo(r) \/ Dies(r)

Spec == Init /\ [][Next]_vars
----------------------------------------------------------------------------
TypeOK ==
  /\ auth \in [Uids -> {"none", "live", "disabled", "gone"}]
  /\ claims \in [Uids -> Claims]
  /\ doc \in [Uids -> Doc]
  /\ req \in [Requests -> Request]
  /\ crossed \subseteq Uids /\ seeded \in BOOLEAN /\ faults \in 0 .. MaxFaults

(* What makes the next two inductive: how far a creation has come with its *)
(* Auth user and its document, and that Firebase Auth has one user of the  *)
(* address as long as no seed script makes room.                           *)
CreationInv(r) ==
  /\ req[r].op \in Creations \cup {"seed"} =>
       /\ req[r].uid = r
       /\ req[r].pc \in {"new", "remove", "check", "create"} => auth[r] = "none"
  /\ req[r].op \in Creations =>
       /\ req[r].pc \notin {"new", "remove", "read", "disable"}
       /\ req[r].pc \in {"refused", "failed"} => ~ Known(r)
       /\ req[r].pc \in {"last", "done"} => doc[r].there
       /\ ~ seeded /\ req[r].pc \in {"claims", "doc", "last", "undo", "done"} => Known(r)
  /\ req[r].op = "migrate" /\ req[r].pc \in {"claims", "doc"} => req[r].seen.role \in Roles
  /\ req[r].pc = "new" => req[r].op = "seed"
  /\ req[r].pc = "remove" => seeded /\ req[r].op = "seed"
  /\ req[r].pc \in {"check", "undo"} => req[r].op \in Creations
  /\ req[r].pc = "create" => req[r].op \in Creations \cup {"seed"}

HolderInv ==
  /\ \A r \in Requests : CreationInv(r)
  /\ ~ seeded => \A u, v \in Uids : Known(u) /\ Known(v) => u = v

(* Whoever was told that the account exists keeps it: of the requests that *)
(* passed the e-mail check together only one gets the address, and what a  *)
(* loser or its compensation does never removes the winner's Auth user     *)
(* (RegisterUseCase.ts 23-30 and 67, CreateAdminUseCase.ts 22-29 and 59).  *)
WinnerKept ==
  \A r \in Requests :
    req[r].op \in Creations /\ req[r].pc = "done" /\ ~ seeded =>
      /\ Known(r) /\ doc[r].there
      /\ \A s \in Requests : req[s].op \in Creations /\ req[s].pc = "done" => s = r

(* A creation that was answered leaves no Auth user without a document: one*)
(* stays only if the request died or its compensation failed, and nothing  *)
(* in the application could then free the address (RegisterUseCase.ts      *)
(* 32-69, CreateAdminUseCase.ts 31-61).                                    *)
NoBareAccount ==
  \A r \in Requests :
    req[r].op \in Creations /\ req[r].pc \in Over \ {"dead"} /\ Known(r) => doc[r].there

(* The claims, which every guard of every service reads, and the document, *)
(* which the checks of user-service read, give an account the same roles,  *)
(* unless two requests worked on it at once or a call failed               *)
(* (PromoteToAdminUseCase.ts 28-45, auth-middleware index.ts 38 and 74,    *)
(* migrate-roles.js 59-86).                                                *)
RolesAgree ==
  faults = 0 =>
    \A u \in Uids \ crossed :
      Known(u) /\ doc[u].there /\ (\A r \in Requests : InFlight(r) => req[r].uid # u) =>
        Effective(claims[u]) = Effective(doc[u].has)

(* The migration changes nobody's rights: not those of an admin who was    *)
(* promoted before it came to him, unless the promotion overlapped with it *)
(* (migrate-roles.js 68-79).                                               *)
RightsKept(r) ==
  LET u == req[r].uid IN
  req[r].op = "migrate" /\ req'[r] # req[r] /\ u \notin crossed =>
    /\ Effective(claims'[u]) = Effective(claims[u])
    /\ Effective(doc'[u].has) = Effective(doc[u].has)

MigrationKeeps == [][\A r \in Requests : RightsKept(r)]_vars
============================================================================
