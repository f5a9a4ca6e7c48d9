------------------------- MODULE StudentEnrollment -------------------------
(***************************************************************************)
(* Enrolment of students in courses: the two write paths of                *)
(* StudentEnrollmentService, enrollFree and checkoutCart.                   *)
(*                                                                         *)
(* Node runs one callback at a time and gives control away at every await, *)
(* so a request is a sequence of steps, one per awaited store call; the    *)
(* synchronous code after a call belongs to the same step.  pc[r] names    *)
(* the call the request is waiting for.  MongoDB applies each call to one  *)
(* document atomically and the service uses no transaction, so steps of    *)
(* other requests fall between any two calls of one request.               *)
(*                                                                         *)
(* The catalogue (which courses are published, priced, soft-deleted) and   *)
(* the cart are written by other services.  This module allows them every  *)
(* change those services can make.                                         *)
(***************************************************************************)
EXTENDS Naturals, FiniteSets

CONSTANTS
  Students,   \* student ids
  Courses,    \* course ids
  Requests,   \* slots for requests in flight; a slot is reused when answered
  ItemIds,    \* _id values cart items may get: bounds the number of additions
  None,       \* "no value", outside the sets above
  MaxDisturbances  \* bounds catalogue changes, failures and crashes together

ASSUME StudentsFinite == IsFiniteSet(Students)

ASSUME BoundIsNat == MaxDisturbances \in Nat

ASSUME NoneFresh == None \notin Students \cup Courses \cup ItemIds

VARIABLES
  published,         \* courses whose status is 'published'
  priced,            \* courses whose price is above 0
  deleted,           \* soft-deleted courses: invisible to every find
  openSince,         \* history: the courses that were published, free and live at
                     \* some moment since each request came in
  cart,              \* the cart item collection
  usedIds,           \* _id values of cart items, deleted ones included
  enrollments,       \* the enrolment collection, as <<student, course>> pairs
  totalEnrollments,  \* Course.totalEnrollments
  announced,         \* STUDENT_ENROLLED events emitted, per pair
  uncounted,         \* history: enrolments whose $inc was never applied
  pc, student, course, itemId,  \* each request: awaited call, and its locals
  checkout,          \* each request: the locals of the loop of checkoutCart
  disturbances       \* how many of the bounded events have happened

courseVars == <<published, priced, deleted>>
catalogue == <<courseVars, openSince>>
cartVars  == <<cart, usedIds>>
ledger    == <<enrollments, totalEnrollments, announced, uncounted>>
locals    == <<pc, student, course, itemId, checkout>>
vars      == <<catalogue, cartVars, ledger, locals, disturbances>>

Pairs == Students \X Courses

CartItem == [id: ItemIds, student: Students, course: Courses]

(***************************************************************************)
(* The calls a request can wait for.                                       *)
(***************************************************************************)
FreeCalls == {"free.course", "free.existing", "free.insert", "free.count"}
PreLoopCalls == {"cart.items", "cart.courses"}
ItemCalls == {"item.drop", "item.existing", "item.insert", "item.count",
              "item.uncart"}
InLoop == ItemCalls \cup {"item.next"}
CountCalls == {"free.count", "item.count"}

(***************************************************************************)
(* What checkoutCart keeps: the items it read, those not yet visited, the  *)
(* courses found and those of them that were published, the two lists of   *)
(* the answer.                                                             *)
(***************************************************************************)
Checkout == [items: SUBSET CartItem, todo: SUBSET CartItem,
             found: SUBSET Courses, open: SUBSET Courses,
             enrolled: SUBSET Courses, failed: SUBSET Courses]

NoCheckout == [items |-> {}, todo |-> {}, found |-> {}, open |-> {},
               enrolled |-> {}, failed |-> {}]

Pair(r) == <<student[r], course[r]>>

Open == published \ (priced \cup deleted)

\* Enrolments a request has inserted and is about to count.
Pending == {Pair(r) : r \in {q \in Requests : pc[q] \in CountCalls}}

StoreTypes ==
  /\ published \in SUBSET Courses
  /\ priced \in SUBSET Courses
  /\ deleted \in SUBSET Courses
  /\ openSince \in [Requests -> SUBSET Courses]
  /\ cart \in SUBSET CartItem
  /\ usedIds \in SUBSET ItemIds

LedgerTypes ==
  /\ enrollments \in SUBSET Pairs
  /\ totalEnrollments \in [Courses -> Nat]
  /\ announced \in [Pairs -> Nat]
  /\ uncounted \in SUBSET Pairs

LocalTypes ==
  /\ pc \in [Requests -> {"idle"} \cup FreeCalls \cup PreLoopCalls \cup InLoop]
  /\ student \in [Requests -> Students \cup {None}]
  /\ course \in [Requests -> Courses \cup {None}]
  /\ itemId \in [Requests -> ItemIds \cup {None}]
  /\ checkout \in [Requests -> Checkout]

TypeOK ==
  /\ StoreTypes
  /\ LedgerTypes
  /\ LocalTypes
  /\ disturbances \in 0..MaxDisturbances

Init ==
  /\ published \in SUBSET Courses
  /\ priced \in SUBSET Courses
  /\ deleted = {}
  /\ openSince = [r \in Requests |-> {}]
  /\ cart = {}
  /\ usedIds = {}
  /\ enrollments = {}
  /\ totalEnrollments = [c \in Courses |-> 0]
  /\ announced = [p \in Pairs |-> 0]
  /\ uncounted = {}
  /\ pc = [r \in Requests |-> "idle"]
  /\ student = [r \in Requests |-> None]
  /\ course = [r \in Requests |-> None]
  /\ itemId = [r \in Requests |-> None]
  /\ checkout = [r \in Requests |-> NoCheckout]
  /\ disturbances = 0

----------------------------------------------------------------------------
(***************************************************************************)
(* Pieces the steps are made of.                                           *)
(***************************************************************************)

Await(r, call) == pc' = [pc EXCEPT ![r] = call]

\* The request is answered, with a result or an exception; its locals die.
Answer(r) ==
  /\ Await(r, "idle")
  /\ student' = [student EXCEPT ![r] = None]
  /\ course' = [course EXCEPT ![r] = None]
  /\ itemId' = [itemId EXCEPT ![r] = None]
  /\ checkout' = [checkout EXCEPT ![r] = NoCheckout]

\* The loop turns to its next item, with the locals of the loop now co.
NextItem(r, co) ==
  /\ Await(r, "item.next")
  /\ course' = [course EXCEPT ![r] = None]
  /\ itemId' = [itemId EXCEPT ![r] = None]
  /\ checkout' = [checkout EXCEPT ![r] = co]
  /\ UNCHANGED student

Reported(r, list) ==
  [checkout[r] EXCEPT ![list] = @ \cup {course[r]}]

\* Faulty variant: the sign of the increment is lost.
Increment_Down(c) ==
  totalEnrollments' = [totalEnrollments EXCEPT ![c] = @ - 1]

Increment(c) == totalEnrollments' = [totalEnrollments EXCEPT ![c] = @ + 1]

Disturb ==
  /\ disturbances < MaxDisturbances
  /\ disturbances' = disturbances + 1

\* The history starts with the request and grows with the open courses; it says
\* nothing of a slot without a request.
Arrives(r) == openSince' = [openSince EXCEPT ![r] = Open]

Opened(open) ==
  openSince' = [r \in Requests |-> IF pc[r] = "idle" THEN {} ELSE openSince[r] \cup open]

Announce(p) == announced' = [announced EXCEPT ![p] = @ + 1]

\* Faulty variant: the item is deleted by student and course.
DeleteItem_ByPair(r) == cart' = {i \in cart : <<i.student, i.course>> # Pair(r)}

\* Deletion is by _id: an item added again under a new _id is not touched.
DeleteItem(r) == cart' = {i \in cart : i.id # itemId[r]}

----------------------------------------------------------------------------
(***************************************************************************)
(* POST enrollment/free/:courseId                                          *)
(***************************************************************************)

StartFree(r, s, c) ==
  /\ pc[r] = "idle"
  /\ Await(r, "free.course")
  /\ student' = [student EXCEPT ![r] = s]
  /\ course' = [course EXCEPT ![r] = c]
  /\ Arrives(r)
  /\ UNCHANGED <<courseVars, cartVars, ledger, itemId, checkout>>

\* Missing, unpublished or priced: the request is refused.
FreeReadCourse(r) ==
  /\ pc[r] = "free.course"
  /\ \/ course[r] \notin Open /\ Answer(r)
     \/ /\ course[r] \in Open
        /\ Await(r, "free.existing")
        /\ UNCHANGED <<student, course, itemId, checkout>>
  /\ UNCHANGED <<catalogue, cartVars, ledger>>

FreeReadExisting(r) ==
  /\ pc[r] = "free.existing"
  /\ \/ Pair(r) \in enrollments /\ Answer(r)
     \/ /\ Pair(r) \notin enrollments
        /\ Await(r, "free.insert")
        /\ UNCHANGED <<student, course, itemId, checkout>>
  /\ UNCHANGED <<catalogue, cartVars, ledger>>

\* Faulty variant: no unique index behind the lookup of an existing enrolment.
FreeInsert_NoIndex(r) ==
  /\ pc[r] = "free.insert"
  /\ enrollments' = enrollments \cup {Pair(r)}
  /\ Await(r, "free.count")
  /\ UNCHANGED <<catalogue, cartVars, totalEnrollments, announced, uncounted,
                 student, course, itemId, checkout>>

\* The unique index on (studentId, courseId) refuses a second insertion.
FreeInsert(r) ==
  /\ pc[r] = "free.insert"
  /\ \/ /\ Pair(r) \in enrollments
        /\ Answer(r)
        /\ UNCHANGED enrollments
     \/ /\ Pair(r) \notin enrollments
        /\ enrollments' = enrollments \cup {Pair(r)}
        /\ Await(r, "free.count")
        /\ UNCHANGED <<student, course, itemId, checkout>>
  /\ UNCHANGED <<catalogue, cartVars, totalEnrollments, announced, uncounted>>

\* The increment, then the event and the answer, in one synchronous stretch.
FreeCount(r) ==
  /\ pc[r] = "free.count"
  /\ Increment(course[r])
  /\ Announce(Pair(r))
  /\ Answer(r)
  /\ UNCHANGED <<catalogue, cartVars, enrollments, uncounted>>

EnrollFree(r) ==
  \/ \E s \in Students, c \in Courses : StartFree(r, s, c)
  \/ FreeReadCourse(r)
  \/ FreeReadExisting(r)
  \/ FreeInsert(r)
  \/ FreeCount(r)

----------------------------------------------------------------------------
(***************************************************************************)
(* POST enrollment/checkout.  One priced course refuses the whole cart, so *)
(* the payment code inside the loop is never reached.                      *)
(***************************************************************************)

StartCheckout(r, s) ==
  /\ pc[r] = "idle"
  /\ Await(r, "cart.items")
  /\ student' = [student EXCEPT ![r] = s]
  /\ Arrives(r)
  /\ UNCHANGED <<courseVars, cartVars, ledger, course, itemId, checkout>>

ReadCart(r) ==
  /\ pc[r] = "cart.items"
  /\ LET mine == {i \in cart : i.student = student[r]}
     IN  \/ mine = {} /\ Answer(r)
         \/ /\ mine # {}
            /\ Await(r, "cart.courses")
            /\ checkout' =
                 [checkout EXCEPT ![r] = [@ EXCEPT !.items = mine, !.todo = mine]]
            /\ UNCHANGED <<student, course, itemId>>
  /\ UNCHANGED <<catalogue, cartVars, ledger>>

\* Faulty variant: a priced course does not refuse the cart.
ReadCourses_AnyPrice(r) ==
  /\ pc[r] = "cart.courses"
  /\ LET found == {i.course : i \in checkout[r].items} \ deleted
     IN  NextItem(r, [checkout[r] EXCEPT !.found = found, !.open = found \cap published])
  /\ UNCHANGED <<catalogue, cartVars, ledger>>

\* One find for the whole cart: every later test uses this snapshot.
ReadCourses(r) ==
  /\ pc[r] = "cart.courses"
  /\ LET found == {i.course : i \in checkout[r].items} \ deleted
     IN  \/ found \cap priced # {} /\ Answer(r)
         \/ /\ found \cap priced = {}
            /\ NextItem(r, [checkout[r] EXCEPT !.found = found,
                                               !.open = found \cap published])
  /\ UNCHANGED <<catalogue, cartVars, ledger>>

\* Faulty variant: an item that was not found is put back.
TakeItem_PutBack(r, i) ==
  /\ pc[r] = "item.next"
  /\ i \in checkout[r].todo
  /\ i.course \notin checkout[r].found
  /\ NextItem(r, [checkout[r] EXCEPT !.failed = @ \cup {i.course}])
  /\ UNCHANGED <<catalogue, cartVars, ledger>>

\* The head of the loop.  A course that was not found is reported failed at
\* once and its item stays; one that is not published is reported failed and
\* its item dropped.  find() promises no order of the items.
TakeItem(r, i) ==
  /\ pc[r] = "item.next"
  /\ i \in checkout[r].todo
  /\ LET co   == [checkout[r] EXCEPT !.todo = @ \ {i}]
         fail == [co EXCEPT !.failed = @ \cup {i.course}]
     IN  \/ /\ i.course \notin co.found
            /\ NextItem(r, fail)
         \/ /\ i.course \in co.found
            /\ course' = [course EXCEPT ![r] = i.course]
            /\ itemId' = [itemId EXCEPT ![r] = i.id]
            /\ \/ /\ i.course \notin co.open
                  /\ Await(r, "item.drop")
                  /\ checkout' = [checkout EXCEPT ![r] = fail]
               \/ /\ i.course \in co.open
                  /\ Await(r, "item.existing")
                  /\ checkout' = [checkout EXCEPT ![r] = co]
            /\ UNCHANGED student
  /\ UNCHANGED <<catalogue, cartVars, ledger>>

\* An item of a course the student already has is dropped without a report.
ItemReadExisting(r) ==
  /\ pc[r] = "item.existing"
  /\ Await(r, IF Pair(r) \in enrollments THEN "item.drop" ELSE "item.insert")
  /\ UNCHANGED <<catalogue, cartVars, ledger, student, course, itemId, checkout>>

ItemDrop(r) ==
  /\ pc[r] = "item.drop"
  /\ DeleteItem(r)
  /\ NextItem(r, checkout[r])
  /\ UNCHANGED <<catalogue, usedIds, ledger>>

\* Faulty variants: no unique index; the course is listed before it is counted.
ItemInsert_NoIndex(r) ==
  /\ pc[r] = "item.insert"
  /\ enrollments' = enrollments \cup {Pair(r)}
  /\ Await(r, "item.count")
  /\ UNCHANGED <<catalogue, cartVars, totalEnrollments, announced, uncounted,
                 student, course, itemId, checkout>>

ItemInsert_ListsEarly(r) ==
  /\ pc[r] = "item.insert"
  /\ Pair(r) \notin enrollments
  /\ enrollments' = enrollments \cup {Pair(r)}
  /\ Await(r, "item.count")
  /\ checkout' = [checkout EXCEPT ![r] = Reported(r, "enrolled")]
  /\ UNCHANGED <<catalogue, cartVars, totalEnrollments, announced, uncounted,
                 student, course, itemId>>

\* The duplicate-key error is caught by the loop and reported as a failure.
ItemInsert(r) ==
  /\ pc[r] = "item.insert"
  /\ \/ /\ Pair(r) \in enrollments
        /\ NextItem(r, Reported(r, "failed"))
        /\ UNCHANGED enrollments
     \/ /\ Pair(r) \notin enrollments
        /\ enrollments' = enrollments \cup {Pair(r)}
        /\ Await(r, "item.count")
        /\ UNCHANGED <<student, course, itemId, checkout>>
  /\ UNCHANGED <<catalogue, cartVars, totalEnrollments, announced, uncounted>>

\* Faulty variant: the event goes out before the increment.
ItemCount_TellsEarly(r) ==
  /\ pc[r] = "item.count"
  /\ Announce(Pair(r))
  /\ Await(r, "item.uncart")
  /\ UNCHANGED <<catalogue, cartVars, enrollments, totalEnrollments, uncounted,
                 student, course, itemId, checkout>>

ItemCount(r) ==
  /\ pc[r] = "item.count"
  /\ Increment(course[r])
  /\ Await(r, "item.uncart")
  /\ UNCHANGED <<catalogue, cartVars, enrollments, announced, uncounted,
                 student, course, itemId, checkout>>

ItemUncart(r) ==
  /\ pc[r] = "item.uncart"
  /\ DeleteItem(r)
  /\ Announce(Pair(r))
  /\ NextItem(r, Reported(r, "enrolled"))
  /\ UNCHANGED <<catalogue, usedIds, enrollments, totalEnrollments, uncounted>>

FinishCheckout(r) ==
  /\ pc[r] = "item.next"
  /\ checkout[r].todo = {}
  /\ Answer(r)
  /\ UNCHANGED <<catalogue, cartVars, ledger>>

CheckoutCart(r) ==
  \/ \E s \in Students : StartCheckout(r, s)
  \/ ReadCart(r)
  \/ ReadCourses(r)
  \/ \E i \in CartItem : TakeItem(r, i)
  \/ ItemReadExisting(r)
  \/ ItemDrop(r)
  \/ ItemInsert(r)
  \/ ItemCount(r)
  \/ ItemUncart(r)
  \/ FinishCheckout(r)

----------------------------------------------------------------------------
(***************************************************************************)
(* Failures.  A call rejects without having been applied; or the process   *)
(* stops and every request in flight is gone.  Nothing undoes an insertion *)
(* or repeats a missing increment.                                         *)
(***************************************************************************)

\* Outside the loop the exception reaches the client.
RequestFails(r) ==
  /\ Disturb
  /\ pc[r] \in FreeCalls \cup PreLoopCalls
  /\ uncounted' = IF pc[r] \in CountCalls THEN uncounted \cup {Pair(r)}
                                          ELSE uncounted
  /\ Answer(r)
  /\ UNCHANGED <<catalogue, cartVars, enrollments, totalEnrollments, announced>>

\* Faulty variant: the exception is swallowed.
ItemFails_Unreported(r) ==
  /\ Disturb
  /\ pc[r] \in ItemCalls
  /\ uncounted' = IF pc[r] \in CountCalls THEN uncounted \cup {Pair(r)}
                                          ELSE uncounted
  /\ NextItem(r, checkout[r])
  /\ UNCHANGED <<catalogue, cartVars, enrollments, totalEnrollments, announced>>

\* Inside the loop it is caught, the course is reported failed (the lists are
\* sets here: the code may list it twice), and the loop goes on.
ItemFails(r) ==
  /\ Disturb
  /\ pc[r] \in ItemCalls
  /\ uncounted' = IF pc[r] \in CountCalls THEN uncounted \cup {Pair(r)}
                                          ELSE uncounted
  /\ NextItem(r, Reported(r, "failed"))
  /\ UNCHANGED <<catalogue, cartVars, enrollments, totalEnrollments, announced>>

Crash ==
  /\ Disturb
  /\ uncounted' = uncounted \cup Pending
  /\ pc' = [r \in Requests |-> "idle"]
  /\ student' = [r \in Requests |-> None]
  /\ course' = [r \in Requests |-> None]
  /\ itemId' = [r \in Requests |-> None]
  /\ checkout' = [r \in Requests |-> NoCheckout]
  /\ UNCHANGED <<catalogue, cartVars, enrollments, totalEnrollments, announced>>

----------------------------------------------------------------------------
(***************************************************************************)
(* The other services: what tutors and administrators do to a course, and  *)
(* what the student does to the cart.                                      *)
(***************************************************************************)

CourseStatusChanges(c) ==
  /\ Disturb
  /\ \/ published' = published \cup {c}
     \/ published' = published \ {c}
  /\ Opened(published' \ (priced \cup deleted))
  /\ UNCHANGED <<priced, deleted, cartVars, ledger, locals>>

CoursePriceChanges(c) ==
  /\ Disturb
  /\ \/ priced' = priced \cup {c}
     \/ priced' = priced \ {c}
  /\ Opened(published \ (priced' \cup deleted))
  /\ UNCHANGED <<published, deleted, cartVars, ledger, locals>>

CourseIsDeleted(c) ==
  /\ Disturb
  /\ deleted' = deleted \cup {c}
  /\ UNCHANGED <<published, priced, openSince, cartVars, ledger, locals>>

\* The cart's own unique index on (studentId, courseId) holds one item a pair.
ItemIsAdded(id, s, c) ==
  /\ id \notin usedIds
  /\ ~ \E i \in cart : i.student = s /\ i.course = c
  /\ cart' = cart \cup {[id |-> id, student |-> s, course |-> c]}
  /\ usedIds' = usedIds \cup {id}
  /\ UNCHANGED <<catalogue, ledger, locals, disturbances>>

ItemIsRemoved(i) ==
  /\ i \in cart
  /\ cart' = cart \ {i}
  /\ UNCHANGED <<usedIds, catalogue, ledger, locals, disturbances>>

Others ==
  \/ \E c \in Courses : \/ CourseStatusChanges(c)
                        \/ CoursePriceChanges(c)
                        \/ CourseIsDeleted(c)
  \/ \E id \in ItemIds, s \in Students, c \in Courses : ItemIsAdded(id, s, c)
  \/ \E i \in cart : ItemIsRemoved(i)

Serve(r) == (EnrollFree(r) \/ CheckoutCart(r)) /\ UNCHANGED disturbances

Next ==
  \/ \E r \in Requests : Serve(r) \/ RequestFails(r) \/ ItemFails(r)
  \/ Crash
  \/ Others

Spec == Init /\ [][Next]_vars

\* A request that has started is carried on: the event loop resumes it when
\* the driver settles its call.  Users, faults and crashes owe nothing.
Continue(r) == pc[r] # "idle" /\ Serve(r)

FairSpec == Spec /\ \A r \in Requests : WF_vars(Continue(r))
----------------------------------------------------------------------------
(***************************************************************************)
(* The abstract ledger                                                     *)
(***************************************************************************)

\* How far the enrolment of each student in each course has come.
Stage ==
  LET unfinished == Pending \cup uncounted
  IN  [p \in Pairs |-> IF p \notin enrollments THEN "none"
                       ELSE IF p \in unfinished THEN "stored"
                       ELSE IF announced[p] = 0 THEN "counted" ELSE "announced"]

Ledger == INSTANCE EnrollmentLedger WITH stage <- Stage, tally <- totalEnrollments

\* Both routes, with all their interleavings, failures and crashes, implement
\* the ledger: store, count, announce, each at most once and in this order.
ImplementsLedger == Ledger!Spec

----------------------------------------------------------------------------
(***************************************************************************)
(* Safety                                                                  *)
(***************************************************************************)

\* Enrolments that are stored and counted, and the students among them in c.
Settled == enrollments \ (Pending \cup uncounted)

Counted(c) == {s \in Students : <<s, c>> \in Settled}

\* The denormalized counter is exact: a course's totalEnrollments is the
\* number of its enrolments, less those a request is about to count and those
\* whose increment a failure or a crash has lost.  Concurrent enrolments of
\* one student, by both routes, are counted once; nothing is counted twice.
CounterMatches ==
  \A c \in Courses : totalEnrollments[c] = Cardinality(Counted(c))

\* STUDENT_ENROLLED is emitted at most once for a student and a course,
\* whatever is retried or runs concurrently, and only when the enrolment is
\* stored and counted: points and notices hang on it.
AnnouncedOnce ==
  \A p \in Pairs :
    /\ announced[p] <= 1
    /\ announced[p] = 1 => p \in Settled

\* checkoutCart loses sight of no item: each item it has visited is one whose
\* course the student has by now, or is on the failed list.
NothingDropped ==
  \A r \in Requests : \A i \in checkout[r].items \ checkout[r].todo :
    \/ i.id = itemId[r]
    \/ <<i.student, i.course>> \in enrollments
    \/ i.course \in checkout[r].failed

\* The answer of checkoutCart can be believed: a course on the enrolled list
\* is stored, counted and announced, and is not on the failed list too.
AnswerTruthful ==
  \A r \in Requests : \A c \in checkout[r].enrolled :
    /\ <<student[r], c>> \in Settled
    /\ announced[<<student[r], c>>] = 1
    /\ c \notin checkout[r].failed

\* Both routes are for free courses, and test a course several calls, or a whole
\* loop, before they insert.  That test is never older than the request: the
\* course of an enrolment just inserted was published, free and not deleted at
\* some moment since the request came in, however it changed before and after.
OpenSinceAsked ==
  \A r \in Requests : pc[r] \in CountCalls => course[r] \in openSince[r]

(***************************************************************************)
(* A checkout takes out of the cart only items it read itself, and only    *)
(* once the student has the course or the course was seen unpublished (and *)
(* is reported failed): an item added while it runs survives.              *)
(***************************************************************************)
CheckoutKeepsOpenItems ==
  [][\A r \in Requests : \A i \in cart \ cart' :
       pc'[r] # pc[r] =>
         /\ i \in checkout[r].items
         /\ \/ <<i.student, i.course>> \in enrollments
            \/ i.course \in checkout[r].failed]_vars

(***************************************************************************)
(* Liveness                                                                *)
(***************************************************************************)

\* Every request is answered, whatever fails inside its loop and whatever
\* the other services do meanwhile.
RequestsAnswered ==
  \A r \in Requests : pc[r] # "idle" ~> pc[r] = "idle"
=============================================================================
