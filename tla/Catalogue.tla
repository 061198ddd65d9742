----------------------------- MODULE Catalogue -----------------------------
(***************************************************************************)
(* The courses as the catalogue shows them: titles that are looked up      *)
(* before a course is created or renamed, whole copies that are written    *)
(* back after an await, and the lists clients walk page by page, each page *)
(* with the course that ended the one before as its cursor.  The content of*)
(* a course, and what publishing requires of it, is CourseContent's part.  *)
(***************************************************************************)
EXTENDS Naturals, Sequences, FiniteSets

CONSTANTS
  NumCourses,     \* courses there may be
  Titles,
  Requests,       \* requests of admins in flight
  MaxRequests,    \* bound: requests begun
  Limit           \* courses on a page

ASSUME CatalogueAssumption ==
  NumCourses \in Nat \ {0} /\ MaxRequests \in Nat /\ Limit \in Nat \ {0} /\ Titles # {}

VARIABLES
  course,         \* title, state, publishedAt, createdAt, deletedAt
  req,            \* of each request: operation, await, course, title, copy
  walk,           \* the client's walk through a list
  clock,
  alone,          \* history: no two requests have been in flight together
  published,      \* history: courses that have been published
  begun

catalogue == <<course, req, walk, clock, alone, published, begun>>

Courses == 1 .. NumCourses
None == 0                            \* no course, no title; and a time that is null

Course == [title : Titles \cup {None}, state : {"none", "draft", "published", "archived"},
           publishedAt : Nat, createdAt : Nat, deleted : BOOLEAN]
NoCourse == [title |-> None, state |-> "none",
             publishedAt |-> None, createdAt |-> None, deleted |-> FALSE]

Moves == {"publish", "unpublish", "archive"}
Ops == {"create", "update", "delete"} \cup Moves

Request == [op : Ops, pc : {"idle", "read", "titles", "store"}, course : Courses, title : Titles \cup {None}, copy : Course]
Idle == [op |-> "create", pc |-> "idle", course |-> 1, title |-> None, copy |-> NoCourse]

\* Courses that already exist have titles of their own; some are published.
Init ==
  /\ \E made \in SUBSET Courses, title \in [Courses -> Titles] :
       /\ \A c, d \in Courses : title[c] = title[d] => c = d
       /\ \E open \in SUBSET made :
            /\ published = open
            /\ course = [c \in Courses |->
                 IF c \notin made THEN NoCourse
                 ELSE [title |-> title[c], state |-> IF c \in open THEN "published" ELSE "draft",
                       publishedAt |-> IF c \in open THEN c ELSE None, createdAt |-> c, deleted |-> FALSE]]
  /\ req = [r \in Requests |-> Idle]
  /\ walk = [pc |-> "idle", list |-> "published", cursor |-> None, after |-> None,
             seen |-> <<>>, steady |-> {}, moved |-> FALSE]
  /\ clock = NumCourses /\ alone = TRUE /\ begun = 0
----------------------------------------------------------------------------
\* The lists: findPublished by publishedAt and findAll by createdAt, the latest first.

Lists == {"published", "all"}

Listed(list, k) ==
  k.state # "none" /\ ~ k.deleted /\ (list = "published" => k.state = "published")

Key(list, k) == IF list = "published" THEN k.publishedAt ELSE k.createdAt

\* What has stayed in the list in its place since the walk began, and whether a cursor
\* has moved between the page it ended and the next.
Watched(w, to) ==
  [w EXCEPT
     !.steady = {c \in @ : Listed(w.list, to[c]) /\ Key(w.list, to[c]) = Key(w.list, course[c])},
     !.moved = @ \/ (w.pc = "cursor" /\ Key(w.list, to[w.cursor]) # Key(w.list, course[w.cursor]))]

\* Writing a course: every change of the collection goes through here.
Put(c, k) ==
  /\ course' = [course EXCEPT ![c] = k]
  /\ walk' = Watched(walk, course')
  /\ published' = IF k.state = "published" THEN published \cup {c} ELSE published

StartWalk(list) ==
  /\ walk.pc = "idle"
  /\ walk' = [pc |-> "query", list |-> list, cursor |-> None, after |-> None, seen |-> <<>>,
              steady |-> {c \in Courses : Listed(list, course[c])}, moved |-> FALSE]
  /\ UNCHANGED <<course, req, clock, alone, published, begun>>

\* The cursor's document is read for the place to start after, deleted or not.
ReadCursor ==
  /\ walk.pc = "cursor"
  /\ walk' = [walk EXCEPT !.after = Key(walk.list, course[walk.cursor]), !.pc = "query"]
  /\ UNCHANGED <<course, req, clock, alone, published, begun>>

\* The courses that come after the cursor: a time that is null comes after every other.
Behind == {c \in Courses : Listed(walk.list, course[c])
                           /\ (walk.cursor # None => Key(walk.list, course[c]) < walk.after)}

\* Mutant: the page is taken from the other end of what is left.
PageOldest ==
  LET Older(c) == {d \in Behind : Key(walk.list, course[d]) < Key(walk.list, course[c])} IN
  [i \in 1 .. (IF Cardinality(Behind) < Limit THEN Cardinality(Behind) ELSE Limit) |->
     CHOOSE c \in Behind : Cardinality(Older(c)) = i - 1]

\* The first of them, latest first.
Page ==
  LET Newer(c) == {d \in Behind : Key(walk.list, course[d]) > Key(walk.list, course[c])} IN
  [i \in 1 .. (IF Cardinality(Behind) < Limit THEN Cardinality(Behind) ELSE Limit) |->
     CHOOSE c \in Behind : Cardinality(Newer(c)) = i - 1]

\* A full page names its last course as the next cursor; any other is the last page.
ReadPage ==
  /\ walk.pc = "query"
  /\ walk' = [walk EXCEPT !.seen = @ \o Page,
                          !.cursor = IF Len(Page) = Limit THEN Page[Limit] ELSE @,
                          !.pc = IF Len(Page) = Limit THEN "cursor" ELSE "done"]
  /\ UNCHANGED <<course, req, clock, alone, published, begun>>
----------------------------------------------------------------------------
\* Requests of admins.

AllIdle == \A r \in Requests : req[r].pc = "idle"

\* A new course has an id of its own; the others name a course there is.
Begin(r, op, c, title) ==
  /\ req[r].pc = "idle" /\ begun < MaxRequests
  /\ IF op = "create"
       THEN course[c].state = "none" /\ \A s \in Requests : req[s].pc # "idle" => req[s].course # c
       ELSE course[c].state # "none"
  /\ (title = None) <=> (op \notin {"create", "update"})
  /\ begun' = begun + 1 /\ alone' = (alone /\ AllIdle)
  /\ req' = [req EXCEPT ![r] = [op |-> op, pc |-> IF op = "create" THEN "titles" ELSE "read",
                                course |-> c, title |-> title, copy |-> NoCourse]]
  /\ UNCHANGED <<course, walk, clock, published>>

\* publish, unpublish and archive on the copy.
Admits(op, k) == IF op = "publish" THEN k.state = "draft" ELSE k.state = "published"

Moved(op, k) ==
  CASE op = "publish" -> [k EXCEPT !.state = "published", !.publishedAt = clock + 1]
    [] op = "unpublish" -> [k EXCEPT !.state = "draft", !.publishedAt = None]
    [] op = "archive" -> [k EXCEPT !.state = "archived"]

\* findById, which returns deleted courses as well; a title is looked up if it changes.
Read(r) ==
  LET k == course[req[r].course]
      op == req[r].op IN
  /\ req[r].pc = "read"
  /\ req' = [req EXCEPT ![r] =
       IF op \in Moves
         THEN IF Admits(op, k) THEN [@ EXCEPT !.pc = "store", !.copy = Moved(op, k)] ELSE Idle
       ELSE IF op = "delete" THEN [@ EXCEPT !.pc = "store"]
       ELSE [@ EXCEPT !.pc = IF req[r].title = k.title THEN "store" ELSE "titles",
                      !.copy = [k EXCEPT !.title = req[r].title]]]
  /\ clock' = IF op = "publish" THEN clock + 1 ELSE clock
  /\ UNCHANGED <<course, walk, alone, published, begun>>

\* Mutant: a deleted course does not keep its title.
TakenByLiving(title) == \E c \in Courses : course[c].state # "none" /\ ~ course[c].deleted /\ course[c].title = title

\* findByTitle: deleted courses keep their titles.
Taken(title) == \E c \in Courses : course[c].state # "none" /\ course[c].title = title

\* A taken title ends the request; a new course is a draft made now.
LookUp(r) ==
  /\ req[r].pc = "titles"
  /\ LET new == req[r].op = "create" IN
     /\ req' = [req EXCEPT ![r] =
          IF Taken(req[r].title) THEN Idle
          ELSE IF new THEN [@ EXCEPT !.pc = "store",
                              !.copy = [NoCourse EXCEPT !.title = req[r].title, !.state = "draft",
                                                        !.createdAt = clock + 1]]
          ELSE [@ EXCEPT !.pc = "store"]]
     /\ clock' = IF new /\ ~ Taken(req[r].title) THEN clock + 1 ELSE clock
  /\ UNCHANGED <<course, walk, alone, published, begun>>

\* create and update write the whole copy, softDelete its one field.
Store(r) ==
  LET c == req[r].course IN
  /\ req[r].pc = "store"
  /\ Put(c, IF req[r].op = "delete" THEN [course[c] EXCEPT !.deleted = TRUE] ELSE req[r].copy)
  /\ req' = [req EXCEPT ![r] = Idle]
  /\ UNCHANGED <<clock, alone, begun>>

CatalogueNext ==
  \/ \E list \in Lists : StartWalk(list)
  \/ ReadCursor \/ ReadPage
  \/ \E r \in Requests :
       \/ \E op \in Ops, c \in Courses, title \in Titles \cup {None} : Begin(r, op, c, title)
       \/ Read(r) \/ LookUp(r) \/ Store(r)

CatalogueSpec == Init /\ [][CatalogueNext]_catalogue
----------------------------------------------------------------------------
CoursesTypeOK ==
  /\ course \in [Courses -> Course]
  /\ req \in [Requests -> Request]
  /\ clock \in Nat /\ alone \in BOOLEAN /\ published \subseteq Courses /\ begun \in 0 .. MaxRequests

WalkTypeOK ==
  /\ walk.pc \in {"idle", "query", "cursor", "done"} /\ walk.list \in Lists
  /\ walk.cursor \in Courses \cup {None} /\ walk.after \in Nat
  /\ walk.seen \in Seq(Courses) /\ walk.steady \subseteq Courses /\ walk.moved \in BOOLEAN

Times(c) == Cardinality({i \in DOMAIN walk.seen : walk.seen[i] = c})

(* A walk to the last page shows every course that stayed in the list, in  *)
(* its place, and shows it once, whatever is created, renamed, published,  *)
(* unpublished or deleted meanwhile; unless the course that is the cursor  *)
(* is unpublished or published again before the next page: its publishedAt *)
(* is then null, which ends the walk early, or later, which starts it over *)
(* (FirestoreCourseRepository.ts 54-89, Course.ts 55-60).                  *)
WalkComplete ==
  walk.pc = "done" /\ ~ walk.moved => \A c \in walk.steady : Times(c) = 1

(* No two courses ever have one title, a deleted one included, as long as  *)
(* no two requests overlap, between the look-up and the write of one of    *)
(* them (CreateCourseUseCase.ts 17-34, UpdateCourseUseCase.ts 19-25,       *)
(* FirestoreCourseRepository.ts 44).                                       *)
TitlesUnique ==
  alone => \A c, d \in Courses :
    course[c].state # "none" /\ course[d].state # "none" /\ course[c].title = course[d].title => c = d
============================================================================
