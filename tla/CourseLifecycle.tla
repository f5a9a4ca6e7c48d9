-------------------------- MODULE CourseLifecycle --------------------------
(***************************************************************************)
(* The life of a course in AdminCourseService, which serves the tutors'    *)
(* routes (through TutorCourseService) and the administrators'.            *)
(*                                                                         *)
(* Every operation but create loads the document, tests it, changes it in  *)
(* memory and saves it.  Mongoose sends only the paths that were changed,  *)
(* so a save writes its delta over whatever the document has become; only  *)
(* a delta that replaces an array, such as the curriculum, is conditional  *)
(* on the version key __v, and increments it.  Between load and save other *)
(* requests run.                                                           *)
(*                                                                         *)
(* Of a document's data the model keeps what decides something: the        *)
(* status, the curriculum (which revision, or empty), whether it is        *)
(* priced, who deleted it.  tags and thumbnailImages are arrays too and    *)
(* share __v: they can only make more curriculum saves fail.  A tutor who  *)
(* replaces a curriculum replaces it by one that has items.                *)
(***************************************************************************)
EXTENDS Integers, FiniteSets

CONSTANTS
  Courses,       \* course ids
  Tutors,        \* tutor ids
  Owner,         \* the tutor each course belongs to
  Admin,         \* an administrator, not a tutor
  Requests,      \* slots for requests in flight
  MaxRevisions,  \* bounds the curricula ever written
  None           \* "no value"

ASSUME CoursesFinite == IsFiniteSet(Courses)
ASSUME OwnerIsTutor == Owner \in [Courses -> Tutors]
ASSUME AdminIsNoTutor == Admin \notin Tutors
ASSUME RevisionsNat == MaxRevisions \in Nat
ASSUME NoneApart == None \notin Courses \cup Tutors \cup {Admin}

VARIABLES
  status,       \* Course.status; "absent" before create
  curriculum,   \* which revision the curriculum is; Empty when it has no item
  version,      \* Course.__v
  priced,       \* courses whose price is above 0
  deletedBy,    \* Course.deletedBy: None while the course is live
  enrolledIn,   \* courses whose totalEnrollments is above 0
  totalCourses, \* Tutor.totalCourses
  lastRevision, \* the last curriculum revision anybody wrote
  vetted,       \* history: courses whose curriculum an administrator has approved
                \* or written
  approval,     \* history: whether an administrator's approval of the course stands
  overtaken,    \* history: requests whose course was put back under review, or
                \* rejected, after they had loaded it
  decremented,  \* history: courses whose deletion has reached totalCourses
  countedLate,  \* history: courses whose first student was counted while a tutor's
                \* deletion was about to be saved, or later
  request       \* each slot: what it does and what it holds in memory

courseVars == <<status, curriculum, version, priced, deletedBy>>
reviews    == <<vetted, approval, overtaken>>
history    == <<reviews, decremented, countedLate>>
vars == <<courseVars, enrolledIn, totalCourses, lastRevision, history, request>>

Empty == 0
Revisions == 0..MaxRevisions

Statuses == {"draft", "pending", "approved", "rejected", "published", "unpublished"}

\* The statuses a course has only after an approval.
Offered == {"approved", "published", "unpublished"}

\* An approval stands until a later save asks for a review or rejects.  It is
\* stale when what put the course on offer again had loaded it before that.
Approvals == {"none", "stands", "stale"}

\* Marks a path that a delta does not contain.
Keep == "keep"

Actors == Tutors \cup {Admin}

(***************************************************************************)
(* A delta is what save() sends: new values of the changed paths.          *)
(***************************************************************************)
Delta == [status: Statuses \cup {Keep}, curriculum: Revisions \cup {-1},
          price: {"free", "paid", Keep}, deletedBy: Actors \cup {None}]

NoDelta == [status |-> Keep, curriculum |-> -1, price |-> Keep, deletedBy |-> None]

Idle == [pc |-> "idle", op |-> "none", actor |-> None, course |-> None,
         dto |-> NoDelta, delta |-> NoDelta, seenVersion |-> 0, seenCurriculum |-> Empty]

Ops == {"create", "update", "submit", "approve", "reject", "publish", "unpublish",
        "delete"}

Request == [pc: {"idle", "load", "save", "stats"}, op: Ops \cup {"none"},
            actor: Actors \cup {None}, course: Courses \cup {None}, dto: Delta,
            delta: Delta, seenVersion: Nat, seenCurriculum: Revisions]

Created == {c \in Courses : status[c] # "absent"}

Live(c) == c \in Created /\ deletedBy[c] = None

TypeOK ==
  /\ status \in [Courses -> Statuses \cup {"absent"}]
  /\ curriculum \in [Courses -> Revisions]
  /\ version \in [Courses -> Nat]
  /\ priced \in SUBSET Courses
  /\ deletedBy \in [Courses -> Actors \cup {None}]
  /\ enrolledIn \in SUBSET Courses
  /\ totalCourses \in [Tutors -> Int]
  /\ lastRevision \in Revisions
  /\ vetted \in SUBSET Courses
  /\ approval \in [Courses -> Approvals]
  /\ overtaken \in SUBSET Requests
  /\ decremented \in SUBSET Courses
  /\ countedLate \in SUBSET Courses
  /\ request \in [Requests -> Request]

Init ==
  /\ status = [c \in Courses |-> "absent"]
  /\ curriculum = [c \in Courses |-> Empty]
  /\ version = [c \in Courses |-> 0]
  /\ priced = {}
  /\ deletedBy = [c \in Courses |-> None]
  /\ enrolledIn = {}
  /\ totalCourses = [t \in Tutors |-> 0]
  /\ lastRevision = Empty
  /\ vetted = {}
  /\ approval = [c \in Courses |-> "none"]
  /\ overtaken = {}
  /\ decremented = {}
  /\ countedLate = {}
  /\ request = [r \in Requests |-> Idle]

----------------------------------------------------------------------------
Answer(r) ==
  /\ request' = [request EXCEPT ![r] = Idle]
  /\ overtaken' = overtaken \ {r}

\* The document is written, the tutor's statistics are next.
ToStats(q) == [Idle EXCEPT !.pc = "stats", !.op = q.op, !.actor = q.actor, !.course = q.course]

\* Who may call what: reviews are for administrators, creation and submission
\* are tutors' routes, the rest has a route for each.
MayCall(actor, op) ==
  /\ op \in {"approve", "reject"} => actor = Admin
  /\ op \in {"create", "submit"} => actor \in Tutors

\* The ownership test of every handler; administrators skip it.
MayTouch(actor, c) == actor = Admin \/ actor = Owner[c]

\* The data of a create or update request: a curriculum nobody wrote before,
\* or none, and a price, or none.
FreshDtos ==
  [status: {Keep}, deletedBy: {None}, price: {"free", "paid", Keep},
   curriculum: {-1} \cup {n \in Revisions : n = lastRevision + 1}]

Receive(r, actor, op, c, dto) ==
  /\ request[r].pc = "idle"
  /\ MayCall(actor, op)
  /\ op \notin {"create", "update"} => dto = NoDelta
  /\ op = "create" => /\ status[c] = "absent" /\ actor = Owner[c]
                      /\ \A q \in Requests : request[q].course # c
  /\ request' = [request EXCEPT ![r] =
       [Idle EXCEPT !.pc = IF op = "create" THEN "save" ELSE "load",
                    !.op = op, !.actor = actor, !.course = c, !.dto = dto]]
  /\ lastRevision' =
       IF dto.curriculum > lastRevision THEN dto.curriculum ELSE lastRevision
  /\ UNCHANGED <<courseVars, enrolledIn, totalCourses, history>>

----------------------------------------------------------------------------
(***************************************************************************)
(* What each handler makes of the document it has loaded: the guard that   *)
(* must hold of it, and the delta it will save.                            *)
(***************************************************************************)

\* A published course takes from its tutor only the curriculum and images, and
\* a new curriculum sends it back to review.
UpdateGuard(q) ==
  status[q.course] = "published" /\ q.actor # Admin => q.dto.price = Keep

\* Setting a path to the value it has does not change it: of a free course
\* the price 0 is not sent.
UpdateDelta(q) ==
  LET back == status[q.course] = "published" /\ q.actor # Admin /\ q.dto.curriculum # -1
      same == q.dto.price = "free" /\ q.course \notin priced
  IN  [q.dto EXCEPT !.status = IF back THEN "pending" ELSE Keep,
                    !.price = IF same THEN Keep ELSE @]

\* Faulty variant: no handler looks at the status.
Guard_Unchecked(q) == q.op # "create"

Guard(q) ==
  LET s == status[q.course]
  IN  CASE q.op = "update"    -> UpdateGuard(q)
        [] q.op = "submit"    -> s \in {"draft", "rejected"} /\ curriculum[q.course] # Empty
        [] q.op = "approve"   -> s = "pending"
        [] q.op = "reject"    -> s = "pending"
        [] q.op = "publish"   -> s \in {"approved", "unpublished"}
        [] q.op = "unpublish" -> s = "published"
        [] q.op = "delete"    -> q.course \notin enrolledIn \/ q.actor = Admin
        [] OTHER -> FALSE

\* Faulty variant: submit stores a status outside the enumeration.
Target_Typo(op) == IF op = "submit" THEN "in_review" ELSE "published"

Target(op) ==
  CASE op = "submit" -> "pending"    [] op = "approve"   -> "approved"
    [] op = "reject" -> "rejected"   [] op = "publish"   -> "published"
    [] OTHER -> "unpublished"

DeltaOf(q) ==
  CASE q.op = "update" -> UpdateDelta(q)
    [] q.op = "delete" -> [NoDelta EXCEPT !.deletedBy = q.actor]
    [] OTHER -> [NoDelta EXCEPT !.status = Target(q.op)]

\* findById misses deleted documents; then ownership and the handler's guard.
Load(r) ==
  /\ request[r].pc = "load"
  /\ LET q == request[r]
     IN  \/ /\ ~ (Live(q.course) /\ MayTouch(q.actor, q.course) /\ Guard(q))
            /\ Answer(r)
         \/ /\ Live(q.course) /\ MayTouch(q.actor, q.course) /\ Guard(q)
            /\ UNCHANGED overtaken
            /\ request' = [request EXCEPT ![r] =
                 [q EXCEPT !.pc = "save", !.dto = NoDelta, !.delta = DeltaOf(q),
                           !.seenVersion = version[q.course],
                           !.seenCurriculum = curriculum[q.course]]]
  /\ UNCHANGED <<courseVars, enrolledIn, totalCourses, lastRevision, vetted, approval,
                 decremented, countedLate>>

----------------------------------------------------------------------------
(***************************************************************************)
(* save()                                                                  *)
(***************************************************************************)

\* Faulty variant: saves are unconditional.
SaveMatches_Always(q) == q.delta = q.delta

\* The where clause: the version key is tested if an array is replaced.
SaveMatches(q) ==
  q.delta.curriculum # -1 => q.seenVersion = version[q.course]

Priced(c, price) ==
  CASE price = "paid" -> priced \cup {c}
    [] price = "free" -> priced \ {c}
    [] OTHER -> priced

\* An approval vets the curriculum it has loaded; what an administrator writes
\* is vetted, what a tutor writes is not.
Vets(q) ==
  IF q.op = "approve" THEN q.seenCurriculum = curriculum[q.course]
  ELSE IF q.delta.curriculum # -1 THEN q.actor = Admin
  ELSE q.course \in vetted

\* What a save makes of the approval.
Approval(r, q) ==
  IF q.op = "approve" THEN "stands"
  ELSE IF q.delta.status \in {"pending", "rejected"} THEN "none"
  ELSE IF q.delta.status \in Offered /\ r \in overtaken /\ approval[q.course] = "none"
    THEN "stale"
  ELSE approval[q.course]

\* The requests about to put a course on offer which this save puts under
\* review, or rejects.
Overtakes(q) ==
  {p \in Requests : /\ q.delta.status \in {"pending", "rejected"}
                    /\ request[p].pc = "save" /\ request[p].course = q.course
                    /\ request[p].delta.status \in Offered}

\* $set of the delta.  A deletion goes on to the tutor's statistics.
Apply(r, q) ==
  LET c == q.course d == q.delta
  IN  /\ status' = [status EXCEPT ![c] = IF d.status = Keep THEN @ ELSE d.status]
      /\ curriculum' = [curriculum EXCEPT ![c] =
                          IF d.curriculum = -1 THEN @ ELSE d.curriculum]
      /\ version' = [version EXCEPT ![c] = IF d.curriculum = -1 THEN @ ELSE @ + 1]
      /\ priced' = Priced(c, d.price)
      /\ deletedBy' = [deletedBy EXCEPT ![c] =
                         IF d.deletedBy = None THEN @ ELSE d.deletedBy]
      /\ vetted' = IF Vets(q) THEN vetted \cup {c} ELSE vetted \ {c}
      /\ approval' = [approval EXCEPT ![c] = Approval(r, q)]
      /\ overtaken' = (overtaken \cup Overtakes(q)) \ {r}
      /\ request' = [request EXCEPT ![r] =
                       IF q.op = "delete" THEN ToStats(q) ELSE Idle]

Save(r) ==
  /\ request[r].pc = "save"
  /\ request[r].op # "create"
  /\ LET q == request[r]
     IN  \/ SaveMatches(q) /\ Apply(r, q)
         \/ ~ SaveMatches(q) /\ Answer(r) /\ UNCHANGED <<courseVars, vetted, approval>>
  /\ UNCHANGED <<enrolledIn, totalCourses, lastRevision, decremented, countedLate>>

\* create inserts the document as a draft.
Insert(r) ==
  /\ request[r].pc = "save"
  /\ request[r].op = "create"
  /\ LET c == request[r].course dto == request[r].dto
     IN  /\ status' = [status EXCEPT ![c] = "draft"]
         /\ curriculum' = [curriculum EXCEPT ![c] =
                             IF dto.curriculum = -1 THEN Empty ELSE dto.curriculum]
         /\ priced' = Priced(c, dto.price)
  /\ request' = [request EXCEPT ![r] = ToStats(@)]
  /\ UNCHANGED <<version, deletedBy, enrolledIn, totalCourses, lastRevision, history>>

\* Faulty variant: a deletion never reaches the tutor's statistics.
Stats_OnlyUp(r) ==
  /\ request[r].pc = "stats"
  /\ LET c == request[r].course created == request[r].op = "create"
     IN  /\ totalCourses' = [totalCourses EXCEPT ![Owner[c]] =
                               IF created THEN @ + 1 ELSE @]
         /\ decremented' = IF created THEN decremented ELSE decremented \cup {c}
  /\ Answer(r)
  /\ UNCHANGED <<courseVars, enrolledIn, lastRevision, vetted, approval, countedLate>>

\* updateTutorStats: one more course, or one less.
Stats(r) ==
  /\ request[r].pc = "stats"
  /\ LET c == request[r].course created == request[r].op = "create"
     IN  /\ totalCourses' = [totalCourses EXCEPT ![Owner[c]] =
                               IF created THEN @ + 1 ELSE @ - 1]
         /\ decremented' = IF created THEN decremented ELSE decremented \cup {c}
  /\ Answer(r)
  /\ UNCHANGED <<courseVars, enrolledIn, lastRevision, vetted, approval, countedLate>>

\* The pending call rejects, or the process stops: the request is gone and
\* what it has already written stays.
Fails(r) ==
  /\ request[r].pc # "idle"
  /\ Answer(r)
  /\ UNCHANGED <<courseVars, enrolledIn, totalCourses, lastRevision, vetted, approval,
                 decremented, countedLate>>

\* A tutor's deletion of the course that is about to be saved, or is.
Leaving(c) ==
  \/ deletedBy[c] # None
  \/ \E r \in Requests : /\ request[r].pc = "save" /\ request[r].op = "delete"
                         /\ request[r].course = c /\ request[r].actor # Admin

\* The enrolment service counts a first student: of a course it has read some
\* time before, so that the course may be on its way out, or gone.
StudentCounted(c) ==
  /\ c \in Created \ enrolledIn
  /\ enrolledIn' = enrolledIn \cup {c}
  /\ countedLate' = IF Leaving(c) THEN countedLate \cup {c} ELSE countedLate
  /\ UNCHANGED <<courseVars, totalCourses, lastRevision, reviews, decremented, request>>

Serve(r) ==
  \/ \E actor \in Actors, op \in Ops, c \in Courses, dto \in FreshDtos :
       Receive(r, actor, op, c, dto)
  \/ Load(r)
  \/ Save(r)
  \/ Insert(r)
  \/ Stats(r)
  \/ Fails(r)

Next ==
  \/ \E r \in Requests : Serve(r)
  \/ \E c \in Courses : StudentCounted(c)

Spec == Init /\ [][Next]_vars

----------------------------------------------------------------------------
(***************************************************************************)
(* Properties                                                              *)
(***************************************************************************)

\* However updates, reviews and publications overlap, a course is approved,
\* published or unpublished only while an administrator's approval of it stands:
\* one was saved, and nothing saved since asked for a review or rejected it.
\* Only a publication or its withdrawal that had loaded the course before it was
\* put back under review, and is saved after, puts it on offer all the same.
OfferedUnlessOvertaken ==
  \A c \in Courses : status[c] \in Offered => approval[c] # "none"

\* No curriculum is overwritten by someone who has not seen it: of two edits
\* based on the same revision the second fails on the version key.
NoBlindOverwrite ==
  [][\A r \in Requests :
       LET q == request[r]
       IN  q.pc = "save" /\ q.op = "update" /\ request'[r].pc = "idle"
           /\ curriculum'[q.course] # curriculum[q.course]
             => q.seenCurriculum = curriculum[q.course]]_vars

\* A tutor's profile never shows more courses than the tutor has, counting
\* those whose deletion is stored but has not reached the profile.  (It may
\* show fewer: two overlapping deletions of one course both count.)
ProfileNotInflated ==
  \A t \in Tutors :
    totalCourses[t] <= Cardinality({c \in Created \ decremented : Owner[c] = t})

\* "Cannot delete course with enrolled students": a course its tutor deleted
\* has students only if the first was counted after the deletion had looked at
\* totalEnrollments.  (An administrator may delete it, and the two may overlap.)
DeletedEmptyUnlessOvertaken ==
  \A c \in Courses \cap enrolledIn : deletedBy[c] \in Tutors => c \in countedLate

\* What the update handler aims at, "Mark for re-review if significant
\* changes": a course on offer shows a curriculum an administrator has vetted.
OfferedCurriculumVetted ==
  \A c \in Courses : status[c] = "published" => c \in vetted
=============================================================================
