---------------------------- MODULE StudentCart ----------------------------
(***************************************************************************)
(* The cart of StudentCartService, composed with the enrolment service     *)
(* whose checkout empties it.                                              *)
(*                                                                         *)
(* StudentEnrollment lets cart items come and go by themselves             *)
(* (ItemIsAdded, ItemIsRemoved).  Here they come and go because requests   *)
(* to add and to remove run, with their own steps between each other's and *)
(* between those of enrolments and checkouts; CartServiceFits says that    *)
(* nothing they do surprises the enrolment service.                        *)
(*                                                                         *)
(* add counts the item in Course.totalCarts before it inserts it, remove   *)
(* counts it out after it has deleted it; checkout deletes items and does  *)
(* not count.  clearCart has no route.  A quantity decides nothing.        *)
(***************************************************************************)
EXTENDS StudentEnrollment, Integers

CONSTANTS
  CartRequests,  \* slots for cart requests in flight
  MaxMishaps     \* bounds the failures of cart requests

ASSUME CartRequestsFinite == IsFiniteSet(CartRequests)

ASSUME MishapsNat == MaxMishaps \in Nat

VARIABLES
  totalCarts,  \* Course.totalCarts
  cartCall,    \* each slot: the call it awaits, its student and course
  mishaps      \* how many cart requests have failed

cartService == <<totalCarts, cartCall, mishaps>>

allVars == <<vars, cartService>>

IdleCall == [pc |-> "idle", student |-> None, course |-> None]

CartCallNames == {"add.course", "add.existing", "add.count", "add.insert",
                  "remove.delete", "remove.count"}

CartCall ==
  {IdleCall} \cup [pc: CartCallNames, student: Students, course: Courses]

ItemsOf(c) == {i \in cart : i.course = c}

Holds(s, c) == \E i \in cart : i.student = s /\ i.course = c

CartInit ==
  /\ Init
  /\ totalCarts = [c \in Courses |-> 0]
  /\ cartCall = [q \in CartRequests |-> IdleCall]
  /\ mishaps = 0

----------------------------------------------------------------------------
CartAwait(q, call) == cartCall' = [cartCall EXCEPT ![q].pc = call]

CartAnswer(q) == cartCall' = [cartCall EXCEPT ![q] = IdleCall]

Tally(q, n) ==
  totalCarts' = [totalCarts EXCEPT ![cartCall[q].course] = @ + n]

StartCartCall(q, call, s, c) ==
  /\ cartCall[q].pc = "idle"
  /\ cartCall' = [cartCall EXCEPT ![q] = [pc |-> call, student |-> s, course |-> c]]
  /\ UNCHANGED <<vars, totalCarts, mishaps>>

(***************************************************************************)
(* POST student/cart/:id/add                                               *)
(***************************************************************************)

\* The price is not looked at: a priced course may be put in the cart.
AddReadCourse(q) ==
  /\ cartCall[q].pc = "add.course"
  /\ IF cartCall[q].course \in published \ deleted
       THEN CartAwait(q, "add.existing")
       ELSE CartAnswer(q)
  /\ UNCHANGED <<vars, totalCarts, mishaps>>

AddReadExisting(q) ==
  /\ cartCall[q].pc = "add.existing"
  /\ IF Holds(cartCall[q].student, cartCall[q].course)
       THEN CartAnswer(q)
       ELSE CartAwait(q, "add.count")
  /\ UNCHANGED <<vars, totalCarts, mishaps>>

AddCount(q) ==
  /\ cartCall[q].pc = "add.count"
  /\ Tally(q, 1)
  /\ CartAwait(q, "add.insert")
  /\ UNCHANGED <<vars, mishaps>>

\* Faulty variant: no unique index behind the lookup of an existing item.
AddInsert_NoIndex(q) ==
  /\ cartCall[q].pc = "add.insert"
  /\ \E id \in ItemIds \ usedIds :
       /\ cart' = cart \cup {[id |-> id, student |-> cartCall[q].student,
                              course |-> cartCall[q].course]}
       /\ usedIds' = usedIds \cup {id}
  /\ UNCHANGED <<catalogue, ledger, locals, disturbances, totalCarts, mishaps>>
  /\ CartAnswer(q)

\* A duplicate is refused by the unique index on (studentId, courseId): the
\* request ends with an exception and its count stays.
AddInsert(q) ==
  /\ cartCall[q].pc = "add.insert"
  /\ LET s == cartCall[q].student c == cartCall[q].course
     IN  \/ Holds(s, c) /\ UNCHANGED vars
         \/ \E id \in ItemIds : ItemIsAdded(id, s, c)
  /\ CartAnswer(q)
  /\ UNCHANGED <<totalCarts, mishaps>>

(***************************************************************************)
(* DELETE student/:id/cart                                                 *)
(***************************************************************************)

\* Faulty variant: an item that is not there is counted out too.
RemoveDelete_Unchecked(q) ==
  /\ cartCall[q].pc = "remove.delete"
  /\ LET mine == {i \in ItemsOf(cartCall[q].course) : i.student = cartCall[q].student}
     IN  \/ mine = {} /\ UNCHANGED vars
         \/ \E i \in mine : ItemIsRemoved(i)
  /\ CartAwait(q, "remove.count")
  /\ UNCHANGED <<totalCarts, mishaps>>

RemoveDelete(q) ==
  /\ cartCall[q].pc = "remove.delete"
  /\ LET mine == {i \in ItemsOf(cartCall[q].course) : i.student = cartCall[q].student}
     IN  \/ mine = {} /\ CartAnswer(q) /\ UNCHANGED vars
         \/ \E i \in mine : ItemIsRemoved(i) /\ CartAwait(q, "remove.count")
  /\ UNCHANGED <<totalCarts, mishaps>>

RemoveCount(q) ==
  /\ cartCall[q].pc = "remove.count"
  /\ Tally(q, -1)
  /\ CartAnswer(q)
  /\ UNCHANGED <<vars, mishaps>>

\* The awaited call rejects without having been applied: the request ends.
CartRequestFails(q) ==
  /\ mishaps < MaxMishaps
  /\ mishaps' = mishaps + 1
  /\ cartCall[q].pc # "idle"
  /\ CartAnswer(q)
  /\ UNCHANGED <<vars, totalCarts>>

ServeCart(q) ==
  \/ \E s \in Students, c \in Courses, call \in {"add.course", "remove.delete"} :
       StartCartCall(q, call, s, c)
  \/ AddReadCourse(q)
  \/ AddReadExisting(q)
  \/ AddCount(q)
  \/ AddInsert(q)
  \/ RemoveDelete(q)
  \/ RemoveCount(q)

----------------------------------------------------------------------------
(***************************************************************************)
(* The composition.  A crash takes the requests of both services.          *)
(***************************************************************************)

EnrollmentStep ==
  /\ \/ \E r \in Requests : Serve(r) \/ RequestFails(r) \/ ItemFails(r)
     \/ \E c \in Courses : \/ CourseStatusChanges(c)
                           \/ CoursePriceChanges(c)
                           \/ CourseIsDeleted(c)
  /\ UNCHANGED cartService

CrashBoth ==
  /\ Crash
  /\ cartCall' = [q \in CartRequests |-> IdleCall]
  /\ UNCHANGED <<totalCarts, mishaps>>

CartNext ==
  \/ EnrollmentStep
  \/ CrashBoth
  \/ \E q \in CartRequests : ServeCart(q) \/ CartRequestFails(q)

CartSpec == CartInit /\ [][CartNext]_allVars

----------------------------------------------------------------------------
(***************************************************************************)
(* Properties                                                              *)
(***************************************************************************)

\* The cart service behaves as the enrolment service assumes: every step of
\* the composition is a step StudentEnrollment allows, or none of its
\* business.  What is proved of enrolment holds with the real cart beside it.
CartServiceFits == Spec

\* Requests that have counted an item they have not inserted, and requests
\* that have deleted an item they have not counted out.
CountedAhead(c) ==
  {q \in CartRequests : cartCall[q].pc = "add.insert" /\ cartCall[q].course = c}
CountsBehind(c) ==
  {q \in CartRequests : cartCall[q].pc = "remove.count" /\ cartCall[q].course = c}

\* totalCarts never understates: it covers the items in the carts and those
\* about to come or just gone, whatever overlaps, fails or crashes, because
\* add counts first and remove counts last.
CartCountCoversItems ==
  \A c \in Courses :
    totalCarts[c] >= Cardinality(ItemsOf(c)) + Cardinality(CountedAhead(c))
                       + Cardinality(CountsBehind(c))
=============================================================================
