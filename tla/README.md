# A TLA+ model of the Course Management Platform backend

This directory specifies the backend in `src/`: a gateway and eight Express services over
Firestore and Firebase Auth, and a worker that delivers domain events between them. Paths
below are relative to `src/packages/` unless they start with `src/`.

## 1. Inventory of the system

| part | state it keeps | operations | what is hard |
|---|---|---|---|
| `outbox-worker` + `shared/events` | collection `outbox`: status, attempts, createdAt | publish; poll; per event claim, dispatch, mark delivered, record failure | ticks that do not wait for the last batch, two pods during a rollout, crashes between awaits, rejected updates, snapshots used after awaits |
| `shared/internal-http-client` | one pending call | POST with a 5 s timeout and one retry on a 5xx answer | the caller does not know whether a failed call was applied, or how often |
| `enrollment-service` | collections `enrollments`, `registrations` | create, approve, reject, withdraw, bulk approve, check | every use case reads, decides, writes the whole document and then publishes, with no transaction |
| `progress-service` | collection `progress` | mark complete, touch, reset, compute percentages | two requests of one student race between the read and the write; counts divided by counts that change |
| `course-service` | `courses` and their `semesters`, `subjects`, `lessons`; counters in the parents | create, update, publish, unpublish, archive, delete at each level | counters kept by whole-document writes of a copy read earlier; soft deletes written over |
| `auth-service` | Auth users, `users`, `passwordResetOtps`, `loginAttempts` | register, track logins, reset password, logout | a registration over three stores with partial compensation; counters without transactions |
| `user-service` | `users`, Auth claims and disabled flag | suspend, reactivate, approve, delete, create and promote admins, profile | two stores written one after the other; whole-document writes race |
| `storage-service` | blobs and `storage_files` documents | upload, download, delete | blob and document are written one after the other |
| `notification-service` | `notifications`, e-mails sent | one handler per event type, list, mark one or all as read | redelivered events, e-mail retries that outlive the caller's timeout, a query followed by a batch |
| `audit-service` | `audit_logs` | append, list | redelivered events append again |
| `scripts` (seeds, `migrate-roles`) | Auth users, claims, `users` | replace an account by its address; add the roles array | they run beside the services and share no transaction with them |
| `gateway` | none (rate-limit counters) | ordered route table, path rewriting | order of the routes |
| `shared/*` (errors, logger, response, health, tracing, firebase, auth-middleware, validation) | none that handlers of different requests share | | |

Interactions: services call each other synchronously through `internal-http-client`
(registration in auth-service creates a registration in enrollment-service, enrollment-service
asks course-service whether a course is published and user-service to approve a user,
progress-service asks course-service for subject counts) and asynchronously through documents
of `outbox`, which the worker POSTs to user-service, notification-service and audit-service.
Every service runs in two or more replicas (`src/k8s/*`), so even requests on one document
interleave at every await.

What each part owes its users, and which definition says so, is listed with the module
that models it (section 3). `PROJECT.json` lists the hazards of the code, each at its
line, with the properties that cover it.

## 2. Plan

The modules, the most important behaviour first. Each is checked with TLC; the last column says
what is proved as well.

| module | models | theorems |
|---|---|---|
| `OutboxWorker`, abstract `EventDelivery` | delivery of domain events | safety of delivery |
| `Enrollment`, abstract `EnrollmentLifecycle` | one enrollment, four use cases | refinement, events, dates |
| `InternalHttpClient` | a call with timeout and one retry | all of it |
| `EventConsumers`, composing `InternalHttpClient` with the worker and the handlers | what becomes of one event in notification-service and audit-service | all but liveness |
| `AccountLifecycle` | one account over three services | registrations, decisions |
| `Accounts` | who holds one e-mail address, with which roles | who holds it |
| `SignInCounters` | failed logins and reset codes as counters without transactions | - |
| `Progress` | the progress of one student in one course | dates, completions |
| `CourseContent` | one course, its content and its counters | counters, state machine |
| `CourseView`, composing `CourseContent` with a visitor | what `GetCourseUseCase` shows while authors edit | - |
| `Catalogue` | several courses: titles, states, paginated lists | - |
| `CourseAccess`, composing `Catalogue` with enrolling, uploading and downloading | how a student gets at a course over three services | access, attachments |

What is left is in section 6. Next in line would be proofs of `AtMostMaxAttempts`, `CountsExact`,
`StoresAgree`, `RolesAgree` and of the counters, all by invariants that say what the one request
in flight has read; and the route table of the gateway as a function.

## 3. The modules

The modelling is the same throughout. A request (a task of the worker, a call, a handler) is a
record with a program counter that names the await it is suspended at, its operation, and the
copies of documents it has read. One action is what the code does from one await to the next:
its guard is the condition the code has checked, and an early return or a thrown error ends the
request. Requests of several replicas interleave at every await, so an action reads a document
and a later one writes the copy. `Abort` (`Dies`, `Crash`, `Break`, `Fail`) is a pod that dies,
or a store that rejects the call, at any await. Identifiers are model values, dates are ticks of
a clock (0 is null), and texts and addresses are left out. Operators named in a comment as
mutants are wrong variants of the definition below them; no specification uses them, and
`PROJECT.json` says which property each of them breaks.

Several guarantees hold only as long as no two requests on the same documents overlap: the
code writes back whole copies and uses no transactions. The history variable `alone` (in
`Accounts`: `crossed`, per account) says that no two requests have been in flight together. The
properties `LastEventIsState`, `AloneFollowsLifecycle`, `StoresAgree`, `DecisionsStand`,
`CompletionStands`, `RolesAgree`, `MigrationKeeps`, `AloneCounted`, `CodesStand`, `TitlesUnique`,
`CountsExact`, `PublishedHasContent` and `ContentStands` are conditional on it, and `ViewSound`
is for its counts. The others hold of every interleaving. What the condition is needed for is
in section 5.

A property `X` of a run is an invariant or an action property unless it is called liveness.

### OutboxWorker, EventDelivery

`outbox` is the collection, `createdAt` the field the query orders by, `task[s][e]` the
`processEvent` of event `e` in batch `s` of a worker. `Poll` is a tick of `setInterval`: the
query returns `BatchSize` of the oldest pending documents and every one of them gets a task.
`Claim`, `SendOk`/`SendFail`, `MarkDelivered` and `HandleFailure` are the awaits of
`processEvent`; a rejected Firestore update (`Outcomes`) may or may not have been applied, and
a POST that timed out may still arrive (`late`, `Arrive`). `Crash` ends the tasks of a pod.
`ROUTES` is the table of `EventDispatcher.ts`. `EventDelivery` is what one event is promised.

* `outbox_single`, one batch at a time: three events of a three-service, a one-service and an
  unknown route compete for batches of two, with a crash and a rejected update. The retry
  budget is exact (`AtMostMaxAttempts`), every event is delivered as `EventDelivery` says
  (`DeliversEachEvent`, a refinement per event), and all are settled if nothing dies
  (`SettlesEachEvent`, liveness).
* `outbox_overlap`, two pods on the same document (a rollout, or a batch that outlasts the
  tick): what survives is at-least-once (`DeliveredToAll`), route order (`InRouteOrder`), the
  spent budget (`FailedOnlyAfterMaxTries`), `NoStrandingWithoutFault` and rest in the end
  (`ComesToRest`, liveness). `AtMostMaxAttempts` does not survive: attempts are counted on a
  snapshot, and a failed event may come back.
* `outbox_lost`: a pod dies after the claim and the document stays in `processing` for good.

Two events, or one on the longest route, suffice: events meet only in the query, where three
compete for two places; all else is per document. Two batches suffice for every lost update.
`MAX_ATTEMPTS` is 2 or 3 instead of 5, so that giving up is reached; the proofs are for any
value.

Fairness: `FairSpec` assumes that the timer keeps ticking (`WF(Poll)` for each slot) and that
every await ends (`WF(Step)` for each task). The first is what `setInterval` does in a pod that
Kubernetes keeps running, the second holds because every POST has a 5 s timeout and every
Firestore call resolves or rejects. Nothing is assumed of success: a service may fail for ever.

### InternalHttpClient, EventConsumers

`InternalHttpClient` is one call: the first request, the pause, the second. The service may
apply, answer and break in any order its protocol allows, or stay silent.

`EventConsumers` puts the code of both ends into it. The worker (`Dispatch`, `Succeed`,
`GiveUp`) calls notification-service and then audit-service through the client's own actions.
`run[r]` is the handler of request `r`, where `r` names the delivery, the service and the
first or second request of the call; it goes on when its caller has given up. `plan` is
`EventController.handle`'s choice of a handler, and each handler is whom it writes a
notification (`users`, or the `admins` that user-service lists) and whether it sends an e-mail.
`Create` is one write of a `Promise.all`, whose siblings go on after one of them is rejected
(`CreateFails`); `Mail`, `MailFails` and `NoMail` are `dispatchEmail` with its pauses of 1, 2
and 4 seconds; `AppendRecord` is the audit log; `Respond` the 204, or the 500 of the error
handler. `QueryUnread`, `MarkAll` and `MarkRead` are a user who reads. `Clock` moves the
client's timers and the pauses together.

* `event_consumers`, a tick of one second, two deliveries of two requests each, a failed call or
  death anywhere: the composition makes only calls of `InternalHttpClient` (`CallsAsSpecified`,
  a step simulation), so the second request never overtakes the first (`NeverTwoAtOnce`) however
  late a handler is; an event is delivered only when one handler has told everybody and an audit
  record exists, in this order (`NotifiedThenAudited`), which a handler working for a caller
  long gone must not fake; marking all as read spares what arrived after the query
  (`SparesNewNotes`); and the worker settles the event whatever the services do
  (`EventSettles`, liveness).
* `email_stops_event`: only e-mails are refused, and the event is given up (section 5).

The event types are one of each shape: admins with e-mail, user with e-mail, e-mail alone,
and a type without handler. Two deliveries show a redelivery that meets the handler of the one
before; two admins show a `Promise.all` with one write made and one not; one fault is enough to
lose any one call. The client's pause of 500 ms is rounded up to a tick.

Fairness: `FairConsumersSpec` assumes that the worker goes on (`WF(Worker)`) and that timers run
(`WF(Clock)`), which is the event loop of one pod. It assumes nothing of the services: a call
that is never answered ends by its timeout.

### Enrollment, EnrollmentLifecycle

`enrollment` is the document of one student and one course, `req` the requests, `published`
course-service's answer, which changes at any time. `CheckCourse`, `Read`, `Write` and
`Publish` are the awaits of the four use cases; the decision is taken in `Read`, on the copy.
`EnrollmentLifecycle` is the life of an enrollment in single steps, with the cooloff.

* `enroll_concurrent`, two requests interleaved at every await, up to four writes, a death:
  events only for writes that happened (`NoPhantomEvents`) and a rejection date exactly on
  rejected documents (`RejectedIffDated`) whatever overlaps; without overlap the service
  implements the lifecycle (`AloneFollowsLifecycle`, a refinement) and the last event is the
  stored state (`LastEventIsState`). A cooloff of 2 in a clock of 4 has applications before, at
  and after its end; four writes are a rejection, a second application, and two decisions on it.

### AccountLifecycle

One student account: `auth` and `claims` in Firebase Auth, `user` and `reg` in Firestore,
`signup` the progress of `RegisterUseCase` with its compensation, `task` the later requests:
decisions on the registration with their call to user-service, suspensions and the other
operations of user-service, and deliveries of `registration.approved` by the outbox. `Fault`
bounds failures: rejected calls, a 5xx that makes the client send again, an answer that comes
too late, a death. `Lockout` is auth-service disabling an account after failed logins.

* `account_concurrent`, three requests, two of them interleaved, a redelivery and a failure
  anywhere: an approved registration was granted by user-service and a registration has a user
  (`RegistrationBacked`) whatever happens; without overlap the stores agree on who is locked
  out (`StoresAgree`) and deletions and decisions stand (`DecisionsStand`).

Two requests at a time are enough for every pair of writes to cross; the third one reads what
they leave.

### Accounts

One e-mail address and all the accounts that were made for it: `auth`, `claims` and `doc` of
each. A request registers (auth-service), creates, promotes or deletes an admin (user-service),
seeds (the scripts, which delete the Auth user of the address first), or migrates
(`migrate-roles.js`). `Check`, `Create`, `SetClaims`, `StoreDoc` and `Finish` are the awaits of
the two creations, `Fail` and `Undo` their `catch`; `Read` and `Admits` the conditions of the
others. `Legacy` is an account from before the `roles` array. An absent array is the empty set,
which the code never stores, and `RolesOf` and `Effective` are how `auth-middleware` reads claims.

* `accounts`, three requests on one address, one failure: of the creations that pass the check
  together one gets the address, and neither a loser nor its compensation takes it away
  (`WinnerKept`); a creation that was answered leaves no Auth user without a document
  (`NoBareAccount`); claims and document give an account the same roles (`RolesAgree`) and the
  migration changes nobody's rights (`MigrationKeeps`), unless requests cross on the account.

Three requests are two that cross and one that finds what they left; their roles and order are
free.

### SignInCounters

`login` and `otp` are the documents of one e-mail address, `enabled` its Auth user. `TrackRead`,
`TrackSave` and `Lock` are the awaits of `TrackLoginAttemptsUseCase`; `ResetSave` and `Send` of
`RequestPasswordResetUseCase`; `VerifyRead`, `VerifySave` and `Delete` of
`VerifyOtpAndResetUseCase`. `Counted` and `Verdict` are what they decide on their copies. The
time a request takes from `now` is its own, so that it may write after its window is over.

* `sign_in`, four requests, a clock of 3 and windows of 2 so that failures fall in, on and
  after the end: nobody is locked out for fewer failures than the threshold, whatever overlaps
  (`NeverOvercounted`); requests that do not overlap are all counted (`AloneCounted`), and a
  code is good once, for `MAX_ATTEMPTS` wrong attempts and until it is replaced (`CodesStand`).

Thresholds of 2 instead of 10 and 5 leave two requests to go beyond them.

### Progress

A document per subject of one course, `req` with the awaits of complete, access, reset and
report, `report` the last answer of `ComputeCourseProgress`, whose two reads take place at
different instants while `CourseChanges` adds and removes subjects. `Percent` is the rounding.

* `progress_concurrent`: completed documents are dated (`CompletedDated`), every announcement
  is backed by a stored completion (`EventsBacked`), and a report of a course that has not
  changed says 100.0 only if a completion of every subject was stored (`ReportSound`), whatever
  overlaps; without overlap a completion is final (`CompletionStands`).

Two subjects tell a complete course from an incomplete one; three requests are a completion,
a reset or access that overlaps, and a report.

### CourseContent, CourseView

One course with its semesters, subjects and lessons, each `none`, `live` or `deleted`.
`course.count` is `semesterCount`, `semester[m].count` is `subjectCount`. The fifteen
operations go through `ReadCourse`, `CheckContent`, `ReadSemester`, `ReadSubject`, `ReadLesson`,
`Store`, `Retire` and the writes; what differs between them is where a read goes on to.
`findById` hides deleted semesters, subjects and lessons but not deleted courses, as in the
code. A lookup of siblings is folded into the read before it, since its answer is not used but
to number them; a taken title is a refusal that may happen here, and is followed up in
`Catalogue`.

`CourseView` adds `GetCourseUseCase`: `OpenCourse`, `ListSemesters` and `ListSubjects` are its
reads, at different instants, while every step of `CourseContent` goes on in between (`Edit`).

* `course_concurrent`, four requests, two of them interleaved and one cut short, from every
  draft of up to two semesters and two subjects: no counter ever exceeds what was created
  (`NeverOverCounted`) whatever overlaps, and a visitor is shown what there was in the time of
  the visit, each subject under its semester (`ViewSound`); without overlap counters are exact
  although deleting a semester leaves its subjects (`CountsExact`), a course is published only
  with content in every semester (`PublishedHasContent`), and the course follows its state
  machine with nothing deleted coming back (`ContentStands`).

Four requests are enough to delete, create, publish and archive; starting from any content saves
the requests that make it. The constraint `EarlyVisit` cuts visits that overlap with the third
or fourth request: a visit writes nothing, and two requests can already change what it reads
twice.

### Catalogue, CourseAccess

`Catalogue` is the collection of courses with title, state, dates and deletion. `Read`, `LookUp`
and `Store` are the awaits of create, update, publish, unpublish, archive and delete; `walk` is
a client that pages through the published courses or, as an admin, through all, with
`ReadCursor` and `ReadPage` the two reads of `findPublished` and `findAll`.

`CourseAccess` adds the student. `Ask` is the call to course-service before an enrollment or an
upload, `ReadEnrollment` enrollment-service's own read or its answer to a download, `Enroll`
the write, `SaveBlob`/`CreateDoc` and `DeleteBlob`/`DeleteDoc` the two stores of an attachment,
`Sign` the link. `Unanswered` is a call that fails, which each client takes for no; `Decide` is
what module `Enrollment` does.

* `course_access`: a walk to the last page shows every course that stayed in its place, and
  once, whatever is created, renamed, moved or deleted meanwhile, unless the cursor itself moves
  (`WalkComplete`); titles are unique, also those of deleted courses (`TitlesUnique`); an
  enrollment is for a course that was published once, and a link for one the student was
  approved for once (`AccessBacked`); a file has its record and a record its file, unless an
  upload or a deletion is under way or died (`AttachmentsBacked`).

Pages of one course make a cursor of every course, and three courses leave one behind, at and
before the cursor. The constraint `OneInterest` splits the instance in two: the walk with three
courses and two requests of admins, or the student's requests with two courses and one request.
The two share nothing but the courses, which neither writes.

### Runs

| run | distinct states | expects |
|---|---|---|
| `outbox_single` | 573,976 | pass |
| `outbox_overlap` | 43,597 | pass |
| `outbox_lost` | | violation of `NoEventLost` |
| `event_consumers` | 891,823 | pass |
| `email_stops_event` | | violation of `AuditReceivesAll` |
| `enroll_concurrent` | 686,158 | pass |
| `account_concurrent` | 373,039 | pass |
| `accounts` | 1,207,153 | pass |
| `sign_in` | 1,474,485 | pass |
| `progress_concurrent` | 252,886 | pass |
| `course_concurrent` | 3,100,940 | pass |
| `course_access` | 790,657 | pass |

The longest takes under two minutes with two workers. `MC*` modules hold the symmetry sets, the
constraints and the route types. Symmetry is over requests, tasks and titles, which are
interchangeable, and only in runs without liveness properties. `CHECK_DEADLOCK FALSE` is said
everywhere: requests, time and failures are bounded, so every behaviour comes to a stop, as the
real system does when nobody uses it.

## 4. What is proved

`*Proofs` modules are checked by TLAPS, for any value of the constants that the `ASSUME` of the
module allows. Each begins with what a step does to the records (`Fields`, `GotoMoves`, ...),
then type correctness, then an invariant that is inductive.

| theorem | argument |
|---|---|
| `OutboxWorkerProofs!DeliveryInvariant`, `AtLeastOnce`, `RouteOrder`, `RetryBudgetSpent` | `DeliveryInv`: a dispatching task has served the services before its position, the snapshot of a claimed task is strictly behind the tries, and a POST under way was preceded by the earlier ones |
| `OutboxWorkerProofs!BudgetIsBounded`, `WorkerImplementsDelivery` | for one slot (`OneSlot`: one worker, no overlapping batches): `OneInv`, nobody but its task touches the document of an event at work, so that the snapshot of the attempts is current and a task in the catch block is the only one that can reopen a `delivered`; each step is shown to be a step of `EventDelivery` or a stutter |
| `OutboxWorkerProofs!EventsAdvance` | for one slot: `Ahead` counts the awaits an event has before it until it is tried once more or settled, and every change of the event lowers it, begins a try (at most `MAX_ATTEMPTS`, `BudgetIsBounded`) or uses up a death or a rejected update |
| `OutboxWorkerProofs!NoneStranded` | each step: what leaves the dispatch of an event by its outcome `ok` leaves its status settled or pending |
| `EventConsumersProofs!RetryAfterAnswer`, `ResolvedApplied`, `CallIsBounded` | `CallInv`, with the time spent at each point of one call |
| `EventConsumersProofs!CallsImplementClient` | step by step: whatever the handlers do to the request that is waited for is a step of the client's service |
| `EventConsumersProofs!ConsumersInvariant`, `DeliveredIsTold`, `NeverTwoCopies` | `ConsumersInv`: a request was made by a delivery (`Begun`), so a new call finds no handler of an old one under its name; whoever is not told is still to be told by a handler at work (`Informed`); a 2xx was given by a handler that is through. The types and times of the call come from `CallTypeStep` and `CallStep`, used here as lemmas of the component |
| `EventConsumersProofs!DeliveryEnds` | `DeliveryAhead` counts the steps and ticks of two calls, with their timeouts, pause and second requests; only the worker and its timers change it, and each lowers it or ends a delivery |
| `EventConsumersProofs!NewNotesSpared` | each step |
| `EnrollmentProofs!CooloffJudgeable` | the copies about to be written are dated as soundly as the document (`DateInv`) |
| `EnrollmentProofs!NoPhantoms` | events and requests about to publish are counted together; finite-set cardinalities |
| `EnrollmentProofs!LastToldIsStored` | as long as `alone` and nothing died, a request about to publish carries what is stored (`ToldInv`) |
| `EnrollmentProofs!ImplementsLifecycle` | as long as `alone`, one request is in flight and its decision still holds of the document (`DecisionStands`), so that its write is a step of the lifecycle |
| `AccountLifecycleProofs!AccountInvariant`, `RegistrationsBacked` | a decision about to be stored was granted, a document about to be rewritten exists; the user document is never removed, not even by the compensation |
| `AccountLifecycleProofs!DecisionsAreFinal` | as long as `alone`, the copies of the one request in flight are those of the stores, and a deletion or decision they carry stands |
| `AccountLifecycleProofs!StoresStayAgreed` | `AgreeInv`: as long as `alone` and nothing failed, the Auth user, its claims and the document differ only by what the one request at work has yet to write; a writer writes a living user, which `FreshInv` says is the stored one |
| `AccountsProofs!HolderInvariant`, `WinnersKept`, `NoneBare` | `HolderInv`: without a seed, Firebase Auth has one live user of the address; a creation past its `createUser` holds it, and only its own compensation gives it up (`CreationInv`) |
| `AccountsProofs!RolesStayAgreed` | `RolesInv`: as long as no two requests have crossed on an account, what the one at work has written of the claims is what it will write of the document |
| `AccountsProofs!CountersTyped`, `LockoutsAreEarned` | `SignInInv`: neither the counter nor a copy of it exceeds the requests that have run since its window began, and the owner of a copy is one more; whoever is about to disable the user has read a counter that had reached the threshold |
| `AccountsProofs!EveryFailureCounts` | `AloneInv`: as long as requests come one after the other, the counter is the number of failures stored since its window began, and the copy of the one at work is the document |
| `AccountsProofs!CodesAreGoodOnce` | `CodeInv`: as long as requests come one after the other, the code on record is the newest or gone, a verification works on it, and the code it has taken for right is never on record again |
| `AccountsProofs!MigrationKeepsRights` | each step of the migration, with the types |
| `ProgressProofs!ProgressInvariant`, `CompletedAreDated` | copies about to be stored are dated, but for the completion they carry |
| `ProgressProofs!CompletionIsFinal` | as long as `alone`, a copy is as fresh as the document it will replace (`FreshInv`) |
| `ProgressProofs!PercentIsExactAtTheTop` | arithmetic: below 2000 subjects rounding neither exceeds 100.0 nor reaches it early |
| `ProgressProofs!EventsAreBacked` | `EventsInv`: completion events and the requests about to publish one are counted together, against the completions stored |
| `ProgressProofs!ReportIsSound` | `ReportInv`: what a report found is within the subjects a completion of which was stored; up to 1999 subjects, where `PercentIsExactAtTheTop` applies |
| `CourseContentProofs!CountersBounded` | what was made stays made (`Grows`), so a copy that is not over-counted never becomes so (`CountInv`); a child is stored before a copy counts it |
| `CourseContentProofs!CountersExact` | `ExactInv` for the subjects of a semester, `TallyInv` for the semesters of the course: with no overlap and no death, each counter is the number of living children, but for the one that the request at work has yet to count; the counters of the semesters add up to the subjects under them (`SumOfCounts`), by induction over the finite set of semesters (below) |
| `CourseContentProofs!ShownIsSound` | `ViewInv`: what stayed is there and what is there was seen at some time, at every point of the visit; what was read is right, and as long as nothing changes so are the counts of what is yet to be read |
| `CourseContentProofs!LessonsKept` | types alone: updates of lessons name their fields (a property no run repeats) |
| `CourseContentProofs!StandsWhileAlone` | as long as `alone`, what a request read is still so when it writes (`FreshInv`) |
| `CourseContentProofs!PublishedWithContent` | `ExactInv`: as long as nothing overlaps or dies, a semester counts its living subjects but for the one the request at work has yet to count, and a course past the publish check has content |
| `CourseAccessProofs!AccessAllowed` | `PublishedInv` and `TaskInv`: a request past the check of another service carries a course of which the answer was once true |
| `CourseAccessProofs!FilesBacked` | `FileInv`: nobody else knows the attachment of an upload, so blob and document part only in the two awaits between them |
| `CourseAccessProofs!TitlesStayUnique` | `TitlesInv`: as long as `alone`, one request is in flight and the title it is about to write is nobody else's |
| `CourseAccessProofs!WalksShowAll` | `StampsInv`: no two courses share a date, in the collection or in a copy about to be stored, so that the list is in one order; a page holds the first of what is left without a gap (`PageShows`: the number of later courses is an injection into as many places, hence onto); `WalkInv`: what stayed is shown once down to the place the walk has come to, and not at all below it |

Type correctness is a theorem of every component with proofs. The inductive invariants are named
in the modules. Those beside a component are invariants of its run too; those of the proof modules
(`FreshInv`, `ToldInv`, `TitlesInv`, `AgreeInv`, ...) strengthen a property that a run checks.

`CountersExact` and `WalksShowAll` are facts about data of any size. The induction theorems of
the library take the induction hypothesis as an operator and cannot be instantiated here, so the
induction is a descent: of the finite sets for which a fact fails, were there any, one has no
smaller one within it (`LeastSet`, by the well-foundedness of the strict subsets of a finite set),
and it is shown to have. The order of a page needs no induction: an injection of a finite set into
one of its size is onto. The theorems of `AccountsProofs` on the counters assume of the requests
that there are finitely many and that none of them is called `"none"` (`CountersAssumption`), which
the bound of the history says anyhow. `AccountsProofs` extends `Accounts` and `SignInCounters`,
which share no variable.

Every safety and action property of a passing run is the subject of a theorem. Only model-checked
are the three liveness properties (`ComesToRest`, `SettlesEachEvent`, `EventSettles`), which need
fairness and `ENABLED` and are out of the prover's reach. What they rest on besides fairness is
proved for any number of events, for the worker alone (`EventsAdvance`) and for the delivery to the
consumers (`DeliveryEnds`): nothing goes round for ever, since each step lowers a bounded number
or spends one of a bounded number of tries and faults. That some step is always possible until an
event rests, and `ComesToRest` with two workers, stay with TLC. No module declares a recursive
operator.

## 5. What the modelling showed

Two runs refute what the documents say, and have an entry under `findings`:

* `outbox_lost`: an event claimed by a pod that dies stays in `processing`, which no query
  returns, against `src/SUMMARY.md:162` (an event is never lost).
* `email_stops_event`: three refused e-mails take seven seconds of pauses, the worker waits
  five, so every delivery is rejected although the handler goes on and succeeds; the event ends
  as failed and audit-service, second on the route, never hears of it, against
  `NotificationDispatcher.ts:28` and `src/SUMMARY.md:158`.

What the condition `alone` is needed for, by the races TLC finds without it:

* An approval and a rejection, or a withdrawal, of one enrollment read the same copy and both
  store; `src/SUMMARY.md:123-124` has decided enrollments stay decided. The same write brings an
  enrollment of a withdrawn student back.
* Two completions of a subject store two dates, one over the other (`src/SUMMARY.md:135`), and an
  access that overlaps a completion takes it back.
* A suspension and a reactivation cross, and the account is suspended in Firestore and enabled
  in Auth. Whole-copy updates bring deleted users, courses, semesters and subjects back.
* Two failed logins are counted as one; a wrong attempt on a reset code writes its copy back, and
  with it a code that was replaced or used up.
* Two courses are created with one title after both looked for it.

And of failures: the compensation of a registration deletes the Auth user only, and leaves the
document of the user, with its address taken and the event `user.registered` published
(`RegisterUseCase.ts:66-69`); the same holds of a creation of an admin.

Further observations, without a run of their own:

* The use cases of enrollment, progress and course-service write the document and the event in
  two commits, where `src/README.md:115` says that events are stored with the primary data
  (registration does commit both in one batch).
* A `registration.approved` delivered again lifts a suspension, since approving does not look at
  the status.
* The payloads of `enrollment.approved` and `enrollment.rejected` carry neither e-mail nor push
  token, so their handlers send neither; `course.published` is routed to notification-service,
  which has no handler for it. A failed look-up of the admins is an empty list: the event counts
  as delivered and nobody was told.
* A course that was deleted while published is still published for enrollment-service, since
  `courseState` does not look at `deletedAt`.
* A client's list of published courses ends early when the course that is its cursor is
  unpublished before the next page, and starts over when it is published again.
* A seed script that is run again makes a new account and leaves the old document of `users`, so
  that two documents share the address (`src/scripts/seed-admin.js:21` calls itself idempotent).
* Siblings created after a deletion share their `order`, which only sorts what is displayed;
  completed records of subjects that were deleted since are still counted, so that a course may
  report more than 100 percent.

## 6. What is not modelled

Listings (other than the catalogue's), projections, parsing, validation, wiring, formatting and
error pages read and change nothing that requests share. The gateway is an ordered table of
prefixes without state of its own but the counters of its rate limiter, a library. Logout
revokes tokens in one call, and a change of password is one call to Firebase Auth; neither
changes what the system reads. Verifying a token is Firebase's. The smoke test and the endpoint
checker in `scripts/` are clients. Pushes are best effort and leave no state.

Firestore is a store whose single-document reads and writes, queries and batches are atomic, and
whose answers may be lost; that a rejected write was applied all the same is modelled where the
code goes on after it (`Outcomes`, `SignupFails`) and elsewhere is the write followed by a death.
Its latency is the interleaving. The constants of `k8s/` appear as interleaving replicas and as
pod deaths.
