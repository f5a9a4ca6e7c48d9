---------------------- MODULE StudentEnrollmentProofs ----------------------
(***************************************************************************)
(* Theorems about StudentEnrollment, for any sets of students, courses,    *)
(* requests and item ids, and any number of disturbances.                  *)
(***************************************************************************)
EXTENDS StudentEnrollment, FiniteSetTheorems, TLAPS

(***************************************************************************)
(* A request that waits for a call about one course has a student and that *)
(* course in its locals; one that waits for any call has a student.        *)
(***************************************************************************)
LocalsOK ==
  \A r \in Requests :
    /\ pc[r] # "idle" => student[r] \in Students
    /\ pc[r] \in FreeCalls \cup ItemCalls => course[r] \in Courses

\* Calls made by a request that has inserted an enrolment and not announced it.
WriterCalls == CountCalls \cup {"item.uncart"}

(***************************************************************************)
(* The enrolment a request is seeing through is stored, not given up, not  *)
(* announced, and no other request is seeing it through.                   *)
(***************************************************************************)
WriterOwns ==
  \A r \in Requests : pc[r] \in WriterCalls =>
    /\ Pair(r) \in enrollments \ uncounted
    /\ announced[Pair(r)] = 0
    /\ \A q \in Requests : pc[q] \in WriterCalls /\ Pair(q) = Pair(r) => q = r

(***************************************************************************)
(* The inductive invariant: CounterMatches and AnnouncedOnce alone are not *)
(* inductive, because nothing in them forbids two requests to count or to  *)
(* announce one enrolment.                                                 *)
(***************************************************************************)
IInv ==
  /\ TypeOK
  /\ LocalsOK
  /\ WriterOwns
  /\ uncounted \subseteq enrollments
  /\ CounterMatches
  /\ AnnouncedOnce

Calls == FreeCalls \cup PreLoopCalls \cup InLoop

----------------------------------------------------------------------------
(***************************************************************************)
(* Types.                                                                  *)
(***************************************************************************)
LEMMA InitTypes == Init => TypeOK /\ LocalsOK
<1> SUFFICES ASSUME Init PROVE TypeOK /\ LocalsOK
  OBVIOUS
<1>1. StoreTypes /\ LedgerTypes
  BY DEF Init, StoreTypes, LedgerTypes
<1>2. LocalTypes /\ LocalsOK
  BY DEF Init, LocalTypes, LocalsOK, NoCheckout, Checkout, FreeCalls, ItemCalls
<1>3. disturbances \in 0..MaxDisturbances
  BY BoundIsNat DEF Init
<1> QED BY <1>1, <1>2, <1>3 DEF TypeOK

\* What the locals need to stay well formed.
LocalsTyped == LocalTypes /\ LocalsOK

LEMMA AnswerTypes ==
  ASSUME LocalsTyped, NEW r \in Requests, Answer(r)
  PROVE  LocalsTyped'
<1>1. NoCheckout \in Checkout
  BY DEF NoCheckout, Checkout
<1> QED
  BY <1>1 DEF LocalsTyped, LocalTypes, LocalsOK, Answer, Await, FreeCalls, ItemCalls

LEMMA NextItemTypes ==
  ASSUME LocalsTyped, NEW r \in Requests, NEW co \in Checkout,
         NextItem(r, co), pc[r] # "idle"
  PROVE  LocalsTyped'
  BY DEF LocalsTyped, LocalTypes, LocalsOK, NextItem, Await, FreeCalls, ItemCalls, InLoop

LEMMA ReportedTypes ==
  ASSUME LocalsTyped, NEW r \in Requests, pc[r] \in ItemCalls
  PROVE  /\ Reported(r, "failed") \in Checkout
         /\ Reported(r, "enrolled") \in Checkout
  BY DEF LocalsTyped, LocalTypes, LocalsOK, Reported, Checkout

\* From one call about a course to the next.
LEMMA AwaitTypes ==
  ASSUME LocalsTyped, NEW r \in Requests, NEW call \in FreeCalls \cup ItemCalls,
         pc[r] \in FreeCalls \cup ItemCalls, Await(r, call),
         UNCHANGED <<student, course, itemId, checkout>>
  PROVE  LocalsTyped'
  BY DEF LocalsTyped, LocalTypes, LocalsOK, Await, FreeCalls, ItemCalls, InLoop

LEMMA PairTypes ==
  ASSUME LocalsTyped, NEW r \in Requests, pc[r] \in FreeCalls \cup ItemCalls
  PROVE  Pair(r) \in Pairs /\ course[r] \in Courses /\ student[r] \in Students
  BY DEF LocalsTyped, LocalsOK, Pair, Pairs, FreeCalls, ItemCalls

LEMMA FreeTypes ==
  ASSUME LocalsTyped, LedgerTypes, NEW r \in Requests, EnrollFree(r)
  PROVE  LocalsTyped' /\ LedgerTypes'
<1>1. ASSUME NEW s \in Students, NEW c \in Courses, StartFree(r, s, c)
      PROVE  LocalsTyped' /\ LedgerTypes'
  <2>1. LocalsTyped'
    BY <1>1 DEF StartFree, LocalsTyped, LocalTypes, LocalsOK, Await, FreeCalls, ItemCalls, InLoop
  <2>2. LedgerTypes'
    BY <1>1 DEF StartFree, LedgerTypes, ledger
  <2> QED BY <2>1, <2>2
<1>2. CASE FreeReadCourse(r)
  <2>1. LocalsTyped'
    BY <1>2, AnswerTypes, AwaitTypes DEF FreeReadCourse, FreeCalls
  <2>2. LedgerTypes'
    BY <1>2 DEF FreeReadCourse, LedgerTypes, ledger
  <2> QED BY <2>1, <2>2
<1>3. CASE FreeReadExisting(r)
  <2>1. LocalsTyped'
    BY <1>3, AnswerTypes, AwaitTypes DEF FreeReadExisting, FreeCalls
  <2>2. LedgerTypes'
    BY <1>3 DEF FreeReadExisting, LedgerTypes, ledger
  <2> QED BY <2>1, <2>2
<1>4. CASE FreeInsert(r)
  <2>1. LocalsTyped'
    BY <1>4, AnswerTypes, AwaitTypes DEF FreeInsert, FreeCalls
  <2>2. LedgerTypes'
    BY <1>4, PairTypes DEF FreeInsert, LedgerTypes, FreeCalls
  <2> QED BY <2>1, <2>2
<1>5. CASE FreeCount(r)
  <2>1. LocalsTyped'
    BY <1>5, AnswerTypes DEF FreeCount
  <2>2. LedgerTypes'
    BY <1>5, PairTypes DEF FreeCount, LedgerTypes, Increment, Announce, FreeCalls
  <2> QED BY <2>1, <2>2
<1> QED BY <1>1, <1>2, <1>3, <1>4, <1>5 DEF EnrollFree

LEMMA CheckoutTypes ==
  ASSUME LocalsTyped, LedgerTypes, StoreTypes, NEW r \in Requests, CheckoutCart(r)
  PROVE  LocalsTyped' /\ LedgerTypes'
<1>1. ASSUME NEW s \in Students, StartCheckout(r, s)
      PROVE  LocalsTyped' /\ LedgerTypes'
  <2>1. LocalsTyped'
    BY <1>1 DEF StartCheckout, LocalsTyped, LocalTypes, LocalsOK, Await, FreeCalls,
                ItemCalls, PreLoopCalls
  <2>2. LedgerTypes'
    BY <1>1 DEF StartCheckout, LedgerTypes, ledger
  <2> QED BY <2>1, <2>2
<1>2. CASE ReadCart(r)
  <2>1. LocalsTyped'
    <3> DEFINE mine == {i \in cart : i.student = student[r]}
    <3>1. CASE Answer(r)
      BY <3>1, AnswerTypes
    <3>2. CASE ~ Answer(r)
      <4>1. mine \in SUBSET CartItem
        BY DEF StoreTypes
      <4>2. /\ pc[r] = "cart.items"
            /\ Await(r, "cart.courses")
            /\ checkout' = [checkout EXCEPT ![r] = [checkout[r] EXCEPT !.items = mine,
                                                                      !.todo = mine]]
            /\ UNCHANGED <<student, course, itemId>>
        BY <1>2, <3>2, Zenon DEF ReadCart
      <4> HIDE DEF mine
      <4>3. [checkout[r] EXCEPT !.items = mine, !.todo = mine] \in Checkout
        BY <4>1 DEF LocalsTyped, LocalTypes, Checkout
      <4> QED
        BY <4>2, <4>3 DEF LocalsTyped, LocalTypes, LocalsOK, Await,
             FreeCalls, ItemCalls, PreLoopCalls
    <3> QED BY <3>1, <3>2
  <2>2. LedgerTypes'
    BY <1>2 DEF ReadCart, LedgerTypes, ledger
  <2> QED BY <2>1, <2>2
<1>3. CASE ReadCourses(r)
  <2> DEFINE found == {i.course : i \in checkout[r].items} \ deleted
             co    == [checkout[r] EXCEPT !.found = found,
                                          !.open = found \cap published]
  <2>1. checkout[r] \in Checkout
    BY DEF LocalsTyped, LocalTypes
  <2>2. found \in SUBSET Courses
    BY <2>1 DEF Checkout, CartItem
  <2>3. co \in Checkout
    BY <2>1, <2>2 DEF Checkout
  <2>4. Answer(r) \/ NextItem(r, co)
    BY <1>3 DEF ReadCourses
  <2>5. LocalsTyped'
    BY <1>3, <2>3, <2>4, AnswerTypes, NextItemTypes DEF ReadCourses
  <2>6. LedgerTypes'
    BY <1>3 DEF ReadCourses, LedgerTypes, ledger
  <2> QED BY <2>5, <2>6
<1>4. ASSUME NEW i \in CartItem, TakeItem(r, i)
      PROVE  LocalsTyped' /\ LedgerTypes'
  <2> DEFINE co   == [checkout[r] EXCEPT !.todo = @ \ {i}]
             fail == [co EXCEPT !.failed = @ \cup {i.course}]
  <2>1. checkout[r] \in Checkout
    BY DEF LocalsTyped, LocalTypes
  <2>2. co \in Checkout /\ fail \in Checkout /\ i.course \in Courses /\ i.id \in ItemIds
    BY <2>1 DEF Checkout, CartItem
  <2>3. ASSUME NextItem(r, fail) PROVE LocalsTyped'
    <3>1. pc[r] # "idle"
      BY <1>4 DEF TakeItem
    <3> HIDE DEF fail
    <3> QED BY <2>2, <2>3, <3>1, NextItemTypes
  <2>4. ASSUME ~ NextItem(r, fail) PROVE LocalsTyped'
    <3>1. /\ course' = [course EXCEPT ![r] = i.course]
          /\ itemId' = [itemId EXCEPT ![r] = i.id]
          /\ \E call \in {"item.drop", "item.existing"} : Await(r, call)
          /\ \E new \in {co, fail} : checkout' = [checkout EXCEPT ![r] = new]
          /\ UNCHANGED student
          /\ pc[r] = "item.next"
      BY <1>4, <2>4 DEF TakeItem
    <3> HIDE DEF co, fail
    <3> QED
      BY <3>1, <2>2 DEF LocalsTyped, LocalTypes, LocalsOK, Await, FreeCalls, ItemCalls, InLoop
  <2>5. LedgerTypes'
    BY <1>4 DEF TakeItem, LedgerTypes, ledger
  <2> QED BY <2>3, <2>4, <2>5
<1>5. CASE ItemReadExisting(r)
  <2>1. LocalsTyped'
    BY <1>5, AwaitTypes DEF ItemReadExisting, ItemCalls
  <2>2. LedgerTypes'
    BY <1>5 DEF ItemReadExisting, LedgerTypes, ledger
  <2> QED BY <2>1, <2>2
<1>6. CASE ItemDrop(r)
  <2>1. LocalsTyped'
    BY <1>6, NextItemTypes DEF ItemDrop, LocalsTyped, LocalTypes
  <2>2. LedgerTypes'
    BY <1>6 DEF ItemDrop, LedgerTypes, ledger
  <2> QED BY <2>1, <2>2
<1>7. CASE ItemInsert(r)
  <2>1. LocalsTyped'
    BY <1>7, NextItemTypes, ReportedTypes, AwaitTypes DEF ItemInsert, ItemCalls
  <2>2. LedgerTypes'
    BY <1>7, PairTypes DEF ItemInsert, LedgerTypes, ItemCalls
  <2> QED BY <2>1, <2>2
<1>8. CASE ItemCount(r)
  <2>1. LocalsTyped'
    BY <1>8, AwaitTypes DEF ItemCount, ItemCalls
  <2>2. LedgerTypes'
    BY <1>8, PairTypes DEF ItemCount, LedgerTypes, Increment, ItemCalls
  <2> QED BY <2>1, <2>2
<1>9. CASE ItemUncart(r)
  <2>1. LocalsTyped'
    BY <1>9, NextItemTypes, ReportedTypes DEF ItemUncart, ItemCalls
  <2>2. LedgerTypes'
    BY <1>9, PairTypes DEF ItemUncart, LedgerTypes, Announce, ItemCalls
  <2> QED BY <2>1, <2>2
<1>10. CASE FinishCheckout(r)
  <2>1. LocalsTyped'
    BY <1>10, AnswerTypes DEF FinishCheckout
  <2>2. LedgerTypes'
    BY <1>10 DEF FinishCheckout, LedgerTypes, ledger
  <2> QED BY <2>1, <2>2
<1> QED
  BY <1>1, <1>2, <1>3, <1>4, <1>5, <1>6, <1>7, <1>8, <1>9, <1>10 DEF CheckoutCart

LEMMA StoreTypesKept ==
  ASSUME StoreTypes, Next
  PROVE  StoreTypes'
<1>1. ASSUME NEW r \in Requests, Serve(r)
      PROVE  StoreTypes'
  BY <1>1 DEF Serve, EnrollFree, CheckoutCart, StartFree, FreeReadCourse, FreeReadExisting,
       FreeInsert, FreeCount, StartCheckout, ReadCart, ReadCourses, TakeItem,
       ItemReadExisting, ItemDrop, ItemInsert, ItemCount, ItemUncart, FinishCheckout,
       DeleteItem, StoreTypes, catalogue, courseVars, cartVars, Arrives, Open
<1>2. ASSUME NEW r \in Requests, RequestFails(r) \/ ItemFails(r)
      PROVE  StoreTypes'
  BY <1>2 DEF RequestFails, ItemFails, StoreTypes, catalogue, courseVars, cartVars
<1>3. CASE Crash
  BY <1>3 DEF Crash, StoreTypes, catalogue, courseVars, cartVars
<1>4. CASE Others
  BY <1>4 DEF Others, CourseStatusChanges, CoursePriceChanges, CourseIsDeleted,
       ItemIsAdded, ItemIsRemoved, StoreTypes, CartItem, catalogue, courseVars, cartVars,
       Opened
<1> QED BY <1>1, <1>2, <1>3, <1>4 DEF Next

LEMMA BoundKept ==
  ASSUME disturbances \in 0..MaxDisturbances, Next
  PROVE  disturbances' \in 0..MaxDisturbances
  BY BoundIsNat DEF Next, Serve, RequestFails, ItemFails, Crash, Others, Disturb,
     CourseStatusChanges, CoursePriceChanges, CourseIsDeleted, ItemIsAdded, ItemIsRemoved

LEMMA FailureTypes ==
  ASSUME LocalsTyped, LedgerTypes, NEW r \in Requests, RequestFails(r) \/ ItemFails(r)
  PROVE  LocalsTyped' /\ LedgerTypes'
<1>1. CASE RequestFails(r)
  <2>1. LocalsTyped'
    BY <1>1, AnswerTypes DEF RequestFails
  <2>2. LedgerTypes'
    BY <1>1, PairTypes DEF RequestFails, LedgerTypes, FreeCalls, PreLoopCalls, CountCalls
  <2> QED BY <2>1, <2>2
<1>2. CASE ItemFails(r)
  <2>1. LocalsTyped'
    BY <1>2, NextItemTypes, ReportedTypes DEF ItemFails, ItemCalls
  <2>2. LedgerTypes'
    BY <1>2, PairTypes DEF ItemFails, LedgerTypes
  <2> QED BY <2>1, <2>2
<1> QED BY <1>1, <1>2

LEMMA CrashTypes ==
  ASSUME LocalsTyped, LedgerTypes, Crash
  PROVE  LocalsTyped' /\ LedgerTypes'
<1>1. LocalsTyped'
  BY DEF Crash, LocalsTyped, LocalTypes, LocalsOK, NoCheckout, Checkout, FreeCalls, ItemCalls
<1>2. Pending \in SUBSET Pairs
  BY PairTypes DEF Pending, CountCalls, FreeCalls, ItemCalls
<1>3. LedgerTypes'
  BY <1>2 DEF Crash, LedgerTypes
<1> QED BY <1>1, <1>3

LEMMA OthersKeepAll ==
  ASSUME Others
  PROVE  UNCHANGED <<ledger, locals>>
  BY DEF Others, CourseStatusChanges, CoursePriceChanges, CourseIsDeleted, ItemIsAdded,
     ItemIsRemoved

LEMMA TypesKept ==
  ASSUME TypeOK, LocalsOK, [Next]_vars
  PROVE  TypeOK' /\ LocalsOK'
<1>1. LocalsTyped /\ LedgerTypes /\ StoreTypes
  BY DEF TypeOK, LocalsTyped
<1>2. ASSUME Next PROVE LocalsTyped' /\ LedgerTypes'
  <2>1. ASSUME NEW r \in Requests, Serve(r)
        PROVE  LocalsTyped' /\ LedgerTypes'
    BY <1>1, <2>1, FreeTypes, CheckoutTypes DEF Serve
  <2>2. CASE Others
    BY <1>1, <2>2, OthersKeepAll DEF ledger, locals, LocalsTyped, LocalTypes, LocalsOK,
       LedgerTypes
  <2> QED
    BY <1>1, <1>2, <2>1, <2>2, FailureTypes, CrashTypes DEF Next
<1>3. ASSUME Next PROVE TypeOK' /\ LocalsOK'
  BY <1>1, <1>2, <1>3, StoreTypesKept, BoundKept DEF TypeOK, LocalsTyped
<1>4. ASSUME UNCHANGED vars PROVE TypeOK' /\ LocalsOK'
  BY <1>4 DEF vars, catalogue, courseVars, cartVars, ledger, locals, TypeOK, StoreTypes,
     LedgerTypes, LocalTypes, LocalsOK
<1> QED BY <1>3, <1>4

\* Every variable keeps its type: documents refer to students and courses the
\* platform knows, counters are natural numbers, and a request that waits for
\* a call about a course holds that course.
THEOREM TypeCorrect == Spec => [](TypeOK /\ LocalsOK)
  BY InitTypes, TypesKept, PTL DEF Spec

----------------------------------------------------------------------------
(***************************************************************************)
(* The ledger invariant.  Each step has one of six effects on it.          *)
(***************************************************************************)
LedgerInv ==
  /\ WriterOwns
  /\ uncounted \subseteq enrollments
  /\ CounterMatches
  /\ AnnouncedOnce

\* A step of request r leaves the other requests where they are.
OnlyMoves(r) ==
  \A q \in Requests \ {r} :
    pc'[q] = pc[q] /\ student'[q] = student[q] /\ course'[q] = course[q]

LEMMA MoveAlone ==
  ASSUME LocalTypes, NEW r \in Requests, Serve(r) \/ RequestFails(r) \/ ItemFails(r)
  PROVE  OnlyMoves(r)
  BY DEF OnlyMoves, LocalTypes, Serve, EnrollFree, CheckoutCart, StartFree, FreeReadCourse,
     FreeReadExisting, FreeInsert, FreeCount, StartCheckout, ReadCart, ReadCourses, TakeItem,
     ItemReadExisting, ItemDrop, ItemInsert, ItemCount, ItemUncart, FinishCheckout,
     RequestFails, ItemFails, Answer, NextItem, Await

\* How a step of one request changes the set of enrolments about to be counted.
LEMMA PendingMoves ==
  ASSUME WriterOwns, NEW r \in Requests, OnlyMoves(r)
  PROVE  /\ pc[r] \notin CountCalls /\ pc'[r] \notin CountCalls => Pending' = Pending
         /\ pc[r] \notin CountCalls /\ pc'[r] \in CountCalls
              => Pending' = Pending \cup {Pair(r)'}
         /\ pc[r] \in CountCalls /\ pc'[r] \notin CountCalls
              => Pending' = Pending \ {Pair(r)}
  BY DEF WriterOwns, OnlyMoves, Pending, Pair, WriterCalls

\* If the settled enrolments and the counters stay, the counters stay exact.
LEMMA CounterKept ==
  ASSUME CounterMatches, Settled' = Settled, UNCHANGED totalEnrollments
  PROVE  CounterMatches'
  BY DEF CounterMatches, Counted

\* If one enrolment is settled and its course's counter goes up, too.
LEMMA CounterStep ==
  ASSUME CounterMatches, LedgerTypes, NEW s \in Students, NEW c \in Courses,
         <<s, c>> \notin Settled, Settled' = Settled \cup {<<s, c>>}, Increment(c)
  PROVE  CounterMatches'
<1> SUFFICES ASSUME NEW d \in Courses
             PROVE  totalEnrollments'[d] = Cardinality(Counted(d)')
  BY DEF CounterMatches
<1>1. IsFiniteSet(Counted(d))
  BY StudentsFinite, FS_Subset DEF Counted
<1>2. CASE d = c
  <2>1. Counted(c)' = Counted(c) \cup {s} /\ s \notin Counted(c)
    BY DEF Counted
  <2>2. Cardinality(Counted(c)') = Cardinality(Counted(c)) + 1
    BY <1>1, <1>2, <2>1, FS_AddElement
  <2> QED BY <1>2, <2>2 DEF CounterMatches, Increment, LedgerTypes
<1>3. CASE d # c
  <2>1. Counted(d)' = Counted(d)
    BY <1>3 DEF Counted
  <2> QED BY <1>3, <2>1 DEF CounterMatches, Increment, LedgerTypes
<1> QED BY <1>2, <1>3

\* No enrolment is inserted, seen through or given up.
Quiet(r) ==
  /\ OnlyMoves(r)
  /\ pc[r] \notin WriterCalls /\ pc'[r] \notin WriterCalls
  /\ UNCHANGED ledger

LEMMA QuietKeeps ==
  ASSUME LedgerInv, NEW r \in Requests, Quiet(r)
  PROVE  LedgerInv' /\ Settled' = Settled
<1>1. Pending' = Pending
  BY PendingMoves DEF Quiet, WriterCalls, LedgerInv
<1>2. Settled' = Settled
  BY <1>1 DEF Settled, Quiet, ledger
<1>3. CounterMatches'
  BY <1>2, CounterKept DEF LedgerInv, Quiet, ledger
<1>4. AnnouncedOnce'
  BY <1>2 DEF LedgerInv, AnnouncedOnce, Quiet, ledger
<1>5. WriterOwns'
  BY DEF LedgerInv, WriterOwns, Quiet, OnlyMoves, ledger, Pair
<1> QED BY <1>2, <1>3, <1>4, <1>5 DEF LedgerInv, Quiet, ledger

\* Request r inserts the enrolment of its pair and goes on to count it.
Stores(r) ==
  /\ OnlyMoves(r)
  /\ pc[r] \notin WriterCalls /\ pc'[r] \in CountCalls
  /\ Pair(r)' = Pair(r) /\ Pair(r) \notin enrollments
  /\ enrollments' = enrollments \cup {Pair(r)}
  /\ UNCHANGED <<totalEnrollments, announced, uncounted>>

LEMMA StoresKeeps ==
  ASSUME LedgerInv, LedgerTypes, NEW r \in Requests, Pair(r) \in Pairs, Stores(r)
  PROVE  LedgerInv' /\ Settled' = Settled
<1>1. Pending' = Pending \cup {Pair(r)}
  BY PendingMoves DEF Stores, WriterCalls, LedgerInv
<1>2. Settled' = Settled
  BY <1>1 DEF Settled, Stores
<1>3. CounterMatches'
  BY <1>2, CounterKept DEF LedgerInv, Stores
<1>4. AnnouncedOnce'
  BY <1>2 DEF LedgerInv, AnnouncedOnce, Stores
<1>5. announced[Pair(r)] = 0
  BY DEF LedgerInv, AnnouncedOnce, LedgerTypes, Stores, Settled
<1>6. WriterOwns'
  BY <1>5 DEF LedgerInv, WriterOwns, Stores, OnlyMoves, Pair, WriterCalls
<1> QED BY <1>2, <1>3, <1>4, <1>6 DEF LedgerInv, Stores

\* Request r counts its enrolment, and announces it (told) or has yet to.
Counts(r, told) ==
  /\ OnlyMoves(r)
  /\ pc[r] \in CountCalls
  /\ Increment(course[r])
  /\ UNCHANGED <<enrollments, uncounted>>
  /\ \/ told /\ pc'[r] \notin WriterCalls /\ Announce(Pair(r))
     \/ ~ told /\ pc'[r] = "item.uncart" /\ Pair(r)' = Pair(r) /\ UNCHANGED announced

LEMMA CountsKeeps ==
  ASSUME LedgerInv, LedgerTypes, NEW r \in Requests, NEW told \in BOOLEAN,
         course[r] \in Courses, student[r] \in Students, Counts(r, told)
  PROVE  LedgerInv' /\ Settled' = Settled \cup {Pair(r)} /\ Pair(r) \in enrollments \ Settled
<1>1. Pending' = Pending \ {Pair(r)} /\ Pair(r) \in Pending
  <2>1. pc'[r] \notin CountCalls
    BY DEF Counts, WriterCalls, CountCalls
  <2> QED BY <2>1, PendingMoves DEF Counts, LedgerInv, Pending
<1>2. Pair(r) \in enrollments \ uncounted /\ announced[Pair(r)] = 0 /\ Pair(r) \in Pairs
  BY DEF LedgerInv, WriterOwns, Counts, WriterCalls, Pair, Pairs
<1>3. Settled' = Settled \cup {Pair(r)} /\ Pair(r) \notin Settled
  BY <1>1, <1>2 DEF Settled, Counts
<1>4. CounterMatches'
  BY <1>3, CounterStep DEF LedgerInv, Counts, Pair
<1>5. AnnouncedOnce'
  BY <1>2, <1>3 DEF LedgerInv, AnnouncedOnce, Counts, Announce, LedgerTypes
<1>6. WriterOwns'
  BY <1>2 DEF LedgerInv, WriterOwns, Counts, OnlyMoves, Pair, Announce, WriterCalls, LedgerTypes
<1> QED BY <1>2, <1>3, <1>4, <1>5, <1>6 DEF LedgerInv, Counts

\* Request r announces an enrolment that is counted.
Tells(r) ==
  /\ OnlyMoves(r)
  /\ pc[r] = "item.uncart" /\ pc'[r] \notin WriterCalls
  /\ Announce(Pair(r))
  /\ UNCHANGED <<enrollments, uncounted, totalEnrollments>>

LEMMA TellsKeeps ==
  ASSUME LedgerInv, LedgerTypes, NEW r \in Requests, Pair(r) \in Pairs, Tells(r)
  PROVE  LedgerInv' /\ Settled' = Settled /\ Pair(r) \in Settled
<1>1. Pending' = Pending
  BY PendingMoves DEF Tells, LedgerInv, WriterCalls, CountCalls
<1>2. Settled' = Settled
  BY <1>1 DEF Settled, Tells
<1>3. /\ Pair(r) \in Settled
      /\ announced[Pair(r)] = 0
  BY DEF Settled, Pending, Tells, LedgerInv, WriterOwns, WriterCalls, CountCalls
<1>4. CounterMatches'
  BY <1>2, CounterKept DEF LedgerInv, Tells
<1>5. AnnouncedOnce'
  BY <1>2, <1>3 DEF LedgerInv, AnnouncedOnce, Tells, Announce, LedgerTypes
<1>6. WriterOwns'
  BY DEF LedgerInv, WriterOwns, Tells, OnlyMoves, Pair, Announce, WriterCalls, LedgerTypes
<1> QED BY <1>2, <1>3, <1>4, <1>5, <1>6 DEF LedgerInv, Tells

\* Request r fails; if it was about to count, the count is lost.
GivesUp(r) ==
  /\ OnlyMoves(r)
  /\ pc'[r] \notin WriterCalls
  /\ uncounted' = IF pc[r] \in CountCalls THEN uncounted \cup {Pair(r)} ELSE uncounted
  /\ UNCHANGED <<enrollments, totalEnrollments, announced>>

LEMMA GivesUpKeeps ==
  ASSUME LedgerInv, NEW r \in Requests, GivesUp(r)
  PROVE  LedgerInv' /\ Settled' = Settled
<1>1. Settled' = Settled /\ uncounted' \subseteq enrollments
  <2>1. CASE pc[r] \in CountCalls
    <3>1. Pending' = Pending \ {Pair(r)} /\ Pair(r) \in Pending
      BY <2>1, PendingMoves DEF GivesUp, LedgerInv, Pending, WriterCalls
    <3> QED
      BY <2>1, <3>1 DEF Settled, GivesUp, LedgerInv, WriterOwns, WriterCalls
  <2>2. CASE pc[r] \notin CountCalls
    <3>1. Pending' = Pending
      BY <2>2, PendingMoves DEF GivesUp, LedgerInv, WriterCalls
    <3> QED BY <2>2, <3>1 DEF Settled, GivesUp, LedgerInv
  <2> QED BY <2>1, <2>2
<1>2. CounterMatches'
  BY <1>1, CounterKept DEF LedgerInv, GivesUp
<1>3. AnnouncedOnce'
  BY <1>1 DEF LedgerInv, AnnouncedOnce, GivesUp
<1>4. WriterOwns'
  BY DEF LedgerInv, WriterOwns, GivesUp, OnlyMoves, Pair, WriterCalls
<1> QED BY <1>1, <1>2, <1>3, <1>4 DEF LedgerInv, GivesUp

LEMMA CrashKeeps ==
  ASSUME LedgerInv, Crash
  PROVE  LedgerInv' /\ Settled' = Settled
<1>1. Pending' = {}
  BY DEF Pending, Crash, CountCalls
<1>2. Pending \subseteq enrollments
  BY DEF Pending, LedgerInv, WriterOwns, WriterCalls
<1>3. Settled' = Settled
  BY <1>1 DEF Settled, Crash
<1>4. CounterMatches'
  BY <1>3, CounterKept DEF LedgerInv, Crash
<1>5. AnnouncedOnce'
  BY <1>3 DEF LedgerInv, AnnouncedOnce, Crash
<1>6. WriterOwns'
  BY DEF WriterOwns, Crash, WriterCalls, CountCalls
<1> QED BY <1>3, <1>2, <1>4, <1>5, <1>6 DEF LedgerInv, Crash

----------------------------------------------------------------------------
(***************************************************************************)
(* Every step has one of these effects.                                    *)
(***************************************************************************)
LEMMA FreeEffects ==
  ASSUME LocalTypes, NEW r \in Requests, EnrollFree(r), OnlyMoves(r)
  PROVE  Quiet(r) \/ Stores(r) \/ Counts(r, TRUE)
<1> USE DEF LocalTypes, Await, Answer, WriterCalls, CountCalls, FreeCalls
<1>1. ASSUME NEW s \in Students, NEW c \in Courses, StartFree(r, s, c)
      PROVE  Quiet(r)
  BY <1>1 DEF StartFree, Quiet
<1>2. CASE FreeReadCourse(r)
  BY <1>2 DEF FreeReadCourse, Quiet
<1>3. CASE FreeReadExisting(r)
  BY <1>3 DEF FreeReadExisting, Quiet
<1>4. CASE FreeInsert(r)
  BY <1>4 DEF FreeInsert, Quiet, Stores, Pair, ledger
<1>5. CASE FreeCount(r)
  BY <1>5 DEF FreeCount, Counts
<1> QED BY <1>1, <1>2, <1>3, <1>4, <1>5 DEF EnrollFree

LEMMA CheckoutEffects ==
  ASSUME LocalTypes, NEW r \in Requests, CheckoutCart(r), OnlyMoves(r)
  PROVE  Quiet(r) \/ Stores(r) \/ Counts(r, FALSE) \/ Tells(r)
<1> USE DEF LocalTypes, Await, Answer, NextItem, WriterCalls, CountCalls
<1>1. ASSUME NEW s \in Students, StartCheckout(r, s)
      PROVE  Quiet(r)
  BY <1>1 DEF StartCheckout, Quiet
<1>2. CASE ReadCart(r)
  BY <1>2 DEF ReadCart, Quiet
<1>3. CASE ReadCourses(r)
  BY <1>3 DEF ReadCourses, Quiet
<1>4. ASSUME NEW i \in CartItem, TakeItem(r, i)
      PROVE  Quiet(r)
  BY <1>4 DEF TakeItem, Quiet
<1>5. CASE ItemReadExisting(r)
  BY <1>5 DEF ItemReadExisting, Quiet
<1>6. CASE ItemDrop(r)
  BY <1>6 DEF ItemDrop, Quiet
<1>7. CASE ItemInsert(r)
  BY <1>7 DEF ItemInsert, Quiet, Stores, Pair, ledger
<1>8. CASE ItemCount(r)
  BY <1>8 DEF ItemCount, Counts, Pair
<1>9. CASE ItemUncart(r)
  BY <1>9 DEF ItemUncart, Tells
<1>10. CASE FinishCheckout(r)
  BY <1>10 DEF FinishCheckout, Quiet
<1> QED
  BY <1>1, <1>2, <1>3, <1>4, <1>5, <1>6, <1>7, <1>8, <1>9, <1>10 DEF CheckoutCart

LEMMA FailureEffects ==
  ASSUME LocalTypes, NEW r \in Requests, RequestFails(r) \/ ItemFails(r), OnlyMoves(r)
  PROVE  GivesUp(r)
  BY DEF RequestFails, ItemFails, GivesUp, LocalTypes, Answer, NextItem, Await,
     WriterCalls, CountCalls

LEMMA LedgerInvKept ==
  ASSUME TypeOK, LocalsOK, LedgerInv, [Next]_vars
  PROVE  LedgerInv'
<1> USE DEF TypeOK
<1>1. \A r \in Requests : pc[r] \in WriterCalls \cup FreeCalls \cup ItemCalls =>
        Pair(r) \in Pairs /\ student[r] \in Students /\ course[r] \in Courses
  BY PairTypes DEF LocalsTyped, WriterCalls, CountCalls, FreeCalls, ItemCalls
<1>2. ASSUME NEW r \in Requests, Serve(r)
      PROVE  LedgerInv'
  <2>1. OnlyMoves(r)
    BY <1>2, MoveAlone
  <2>2. CASE Quiet(r)
    BY <2>2, QuietKeeps
  <2>3. CASE Stores(r)
    <3>1. pc[r] \in FreeCalls \cup ItemCalls
      BY <1>2, <2>3 DEF Stores, Serve, EnrollFree, CheckoutCart, StartFree, FreeReadCourse,
         FreeReadExisting, FreeInsert, FreeCount, StartCheckout, ReadCart, ReadCourses,
         TakeItem, ItemReadExisting, ItemDrop, ItemInsert, ItemCount, ItemUncart,
         FinishCheckout, FreeCalls, ItemCalls, ledger, LedgerTypes
    <3> QED BY <1>1, <2>3, <3>1, StoresKeeps
  <2>4. ASSUME NEW told \in BOOLEAN, Counts(r, told) PROVE LedgerInv'
    <3>1. pc[r] \in WriterCalls
      BY <2>4 DEF Counts, WriterCalls
    <3> QED BY <1>1, <2>4, <3>1, CountsKeeps
  <2>5. CASE Tells(r)
    <3>1. pc[r] \in WriterCalls
      BY <2>5 DEF Tells, WriterCalls
    <3> QED BY <1>1, <2>5, <3>1, TellsKeeps
  <2> QED
    BY <1>2, <2>1, <2>2, <2>3, <2>4, <2>5, FreeEffects, CheckoutEffects DEF Serve
<1>3. ASSUME NEW r \in Requests, RequestFails(r) \/ ItemFails(r)
      PROVE  LedgerInv'
  BY <1>3, MoveAlone, FailureEffects, GivesUpKeeps
<1>4. ASSUME UNCHANGED <<ledger, locals>>
      PROVE  LedgerInv'
  BY <1>4 DEF LedgerInv, WriterOwns, CounterMatches, AnnouncedOnce, Counted, Settled,
     Pending, Pair, ledger, locals
<1> QED
  BY <1>2, <1>3, <1>4, CrashKeeps, OthersKeepAll DEF Next, vars

LEMMA InitLedgerInv == Init => LedgerInv
<1> SUFFICES ASSUME Init PROVE LedgerInv
  OBVIOUS
<1>1. Settled = {}
  BY DEF Init, Settled
<1>2. CounterMatches
  BY <1>1, FS_EmptySet DEF Init, CounterMatches, Counted
<1>3. AnnouncedOnce
  BY DEF Init, AnnouncedOnce
<1>4. WriterOwns
  BY DEF Init, WriterOwns, WriterCalls, CountCalls
<1> QED BY <1>2, <1>3, <1>4 DEF LedgerInv, Init

\* The inductive invariant holds of every behaviour.
LEMMA Inductive == Spec => []IInv
<1>1. Init => IInv
  BY InitTypes, InitLedgerInv DEF IInv, LedgerInv
<1>2. IInv /\ [Next]_vars => IInv'
  BY TypesKept, LedgerInvKept DEF IInv, LedgerInv
<1> QED BY <1>1, <1>2, PTL DEF Spec

\* A course's totalEnrollments is the number of its enrolments, less those
\* about to be counted and those whose increment was lost.
THEOREM CounterIsExact == Spec => []CounterMatches
  BY Inductive, PTL DEF IInv

\* STUDENT_ENROLLED is emitted at most once per student and course, and only
\* for an enrolment that is stored and counted.
THEOREM AnnouncedAtMostOnce == Spec => []AnnouncedOnce
  BY Inductive, PTL DEF IInv

----------------------------------------------------------------------------
(***************************************************************************)
(* The requests implement the abstract ledger: each effect is one of its   *)
(* steps or leaves it alone.                                               *)
(***************************************************************************)
StageNow(p) ==
  IF p \notin enrollments THEN "none"
  ELSE IF p \notin Settled THEN "stored"
  ELSE IF announced[p] = 0 THEN "counted" ELSE "announced"

LEMMA StageBySettled == Stage = [p \in Pairs |-> StageNow(p)]
  BY DEF Stage, StageNow, Settled

LEMMA StageKept ==
  ASSUME UNCHANGED <<enrollments, announced>>, Settled' = Settled
  PROVE  Stage' = Stage
<1>1. Stage' = [p \in Pairs |-> StageNow(p)']
  BY StageBySettled DEF Stage, StageNow, Settled
<1> QED BY <1>1, StageBySettled DEF StageNow

\* Only pair x changes stage.
LEMMA StageAdvances ==
  ASSUME NEW x \in Pairs, \A p \in Pairs \ {x} : StageNow(p)' = StageNow(p)
  PROVE  Stage' = [Stage EXCEPT ![x] = StageNow(x)']
<1>1. Stage' = [p \in Pairs |-> StageNow(p)']
  BY DEF Stage, StageNow, Settled
<1> QED BY <1>1, StageBySettled

LEMMA StoresRefines ==
  ASSUME LedgerInv, LedgerTypes, NEW r \in Requests, NEW s \in Students,
         NEW c \in Courses, Pair(r) = <<s, c>>, course[r] = c, Stores(r), Settled' = Settled
  PROVE  Ledger!Store(s, c)
<1>1. <<s, c>> \in Pairs /\ <<s, c>> \notin Settled
  BY DEF Pair, Pairs, Stores, Settled
<1>2. /\ StageNow(<<s, c>>) = "none"
      /\ StageNow(<<s, c>>)' = "stored"
      /\ \A p \in Pairs \ {<<s, c>>} : StageNow(p)' = StageNow(p)
  BY <1>1 DEF StageNow, Stores
<1>3. Stage' = [Stage EXCEPT ![<<s, c>>] = "stored"] /\ Stage[<<s, c>>] = "none"
  BY <1>1, <1>2, StageAdvances, StageBySettled
<1> QED BY <1>3 DEF Ledger!Store, Ledger!Advance, Pair, Stores

LEMMA CountsRefines ==
  ASSUME LedgerInv, LedgerTypes, NEW r \in Requests, NEW told \in BOOLEAN,
         NEW s \in Students, NEW c \in Courses, Pair(r) = <<s, c>>, course[r] = c,
         Counts(r, told),
         Settled' = Settled \cup {Pair(r)}, Pair(r) \in enrollments \ Settled
  PROVE  Ledger!Count(s, c)
<1>1. <<s, c>> \in Pairs /\ announced[<<s, c>>] = 0
  BY DEF Pair, Pairs, Counts, LedgerInv, WriterOwns, WriterCalls
<1>2. /\ StageNow(<<s, c>>) = "stored"
      /\ StageNow(<<s, c>>)' = IF told THEN "announced" ELSE "counted"
      /\ \A p \in Pairs \ {<<s, c>>} : StageNow(p)' = StageNow(p)
  BY <1>1 DEF StageNow, Counts, Announce, LedgerTypes
<1>3. /\ Stage' = [Stage EXCEPT ![<<s, c>>] = IF told THEN "announced" ELSE "counted"]
      /\ Stage[<<s, c>>] = "stored"
  BY <1>1, <1>2, StageAdvances, StageBySettled
<1> QED BY <1>3 DEF Ledger!Count, Ledger!Advance, Pair, Counts, Increment

LEMMA TellsRefines ==
  ASSUME LedgerInv, LedgerTypes, NEW r \in Requests, NEW s \in Students,
         NEW c \in Courses, Pair(r) = <<s, c>>, course[r] = c, Tells(r), Settled' = Settled, Pair(r) \in Settled
  PROVE  Ledger!Tell(s, c)
<1>1. <<s, c>> \in Pairs /\ announced[<<s, c>>] = 0 /\ <<s, c>> \in enrollments
  BY DEF Pair, Pairs, Tells, LedgerInv, WriterOwns, WriterCalls
<1>2. /\ StageNow(<<s, c>>) = "counted"
      /\ StageNow(<<s, c>>)' = "announced"
      /\ \A p \in Pairs \ {<<s, c>>} : StageNow(p)' = StageNow(p)
  BY <1>1 DEF StageNow, Tells, Announce, LedgerTypes
<1>3. Stage' = [Stage EXCEPT ![<<s, c>>] = "announced"] /\ Stage[<<s, c>>] = "counted"
  BY <1>1, <1>2, StageAdvances, StageBySettled
<1> QED BY <1>3 DEF Ledger!Tell, Ledger!Advance, Pair, Tells

LEMMA StepRefines ==
  ASSUME IInv, [Next]_vars
  PROVE  Ledger!Next \/ UNCHANGED <<Stage, totalEnrollments>>
<1> USE DEF IInv, TypeOK
<1>1. LedgerInv
  BY DEF LedgerInv
<1>2. \A r \in Requests : pc[r] \in WriterCalls \cup FreeCalls \cup ItemCalls =>
        Pair(r) \in Pairs /\ student[r] \in Students /\ course[r] \in Courses
  BY PairTypes DEF LocalsTyped, WriterCalls, CountCalls, FreeCalls, ItemCalls
<1>3. ASSUME NEW r \in Requests, Serve(r)
      PROVE  Ledger!Next \/ UNCHANGED <<Stage, totalEnrollments>>
  <2>1. OnlyMoves(r)
    BY <1>3, MoveAlone
  <2>2. CASE Quiet(r)
    <3>1. UNCHANGED ledger /\ Settled' = Settled
      BY <1>1, <2>2, QuietKeeps DEF Quiet
    <3> QED BY <3>1, StageKept DEF ledger
  <2>3. CASE Stores(r)
    <3>1. pc[r] \in FreeCalls \cup ItemCalls
      BY <1>3, <2>3 DEF Stores, Serve, EnrollFree, CheckoutCart, StartFree, FreeReadCourse,
         FreeReadExisting, FreeInsert, FreeCount, StartCheckout, ReadCart, ReadCourses,
         TakeItem, ItemReadExisting, ItemDrop, ItemInsert, ItemCount, ItemUncart,
         FinishCheckout, FreeCalls, ItemCalls, ledger, LedgerTypes
    <3>2. PICK s \in Students, c \in Courses : Pair(r) = <<s, c>> /\ course[r] = c
      BY <1>2, <3>1 DEF Pair
    <3> QED BY <1>1, <1>2, <2>3, <3>1, <3>2, StoresKeeps, StoresRefines DEF Ledger!Next
  <2>4. ASSUME NEW told \in BOOLEAN, Counts(r, told) PROVE Ledger!Next
    <3>1. pc[r] \in WriterCalls
      BY <2>4 DEF Counts, WriterCalls
    <3>2. PICK s \in Students, c \in Courses : Pair(r) = <<s, c>> /\ course[r] = c
      BY <1>2, <3>1 DEF Pair
    <3> QED BY <1>1, <1>2, <2>4, <3>1, <3>2, CountsKeeps, CountsRefines DEF Ledger!Next
  <2>5. CASE Tells(r)
    <3>1. pc[r] \in WriterCalls
      BY <2>5 DEF Tells, WriterCalls
    <3>2. PICK s \in Students, c \in Courses : Pair(r) = <<s, c>> /\ course[r] = c
      BY <1>2, <3>1 DEF Pair
    <3> QED BY <1>1, <1>2, <2>5, <3>1, <3>2, TellsKeeps, TellsRefines DEF Ledger!Next
  <2> QED
    BY <1>3, <2>1, <2>2, <2>3, <2>4, <2>5, FreeEffects, CheckoutEffects DEF Serve
<1>4. ASSUME NEW r \in Requests, RequestFails(r) \/ ItemFails(r)
      PROVE  UNCHANGED <<Stage, totalEnrollments>>
  <2>1. GivesUp(r)
    BY <1>4, MoveAlone, FailureEffects
  <2> QED BY <1>1, <2>1, GivesUpKeeps, StageKept DEF GivesUp
<1>5. ASSUME Crash
      PROVE  UNCHANGED <<Stage, totalEnrollments>>
  BY <1>1, <1>5, CrashKeeps, StageKept DEF Crash
<1>6. ASSUME UNCHANGED <<ledger, locals>>
      PROVE  UNCHANGED <<Stage, totalEnrollments>>
  BY <1>6 DEF ledger, locals, Stage, Pending, Pair
<1> QED
  BY <1>3, <1>4, <1>5, <1>6, OthersKeepAll DEF Next, vars

\* Both routes of enrolment, with their interleavings, failures and crashes,
\* implement the ledger: stored, then counted, then announced, each once.
THEOREM EnrollmentImplementsLedger == Spec => ImplementsLedger
<1>1. Init => Ledger!Init
  BY DEF Init, Ledger!Init, Stage, Pairs, Ledger!Pairs
<1>2. IInv /\ [Next]_vars => [Ledger!Next]_<<Stage, totalEnrollments>>
  BY StepRefines
<1> QED
  BY <1>1, <1>2, Inductive, PTL DEF Spec, ImplementsLedger, Ledger!Spec

----------------------------------------------------------------------------
(***************************************************************************)
(* What checkoutCart works on.  Item ids are never used twice and a pair   *)
(* has one item, so the items a checkout has read stand for themselves     *)
(* whatever happens to the cart afterwards.                                *)
(***************************************************************************)
CartIds ==
  \A i \in cart :
    /\ i.id \in usedIds
    /\ \A j \in cart : i.id = j.id \/ <<i.student, i.course>> = <<j.student, j.course>>
                         => i = j

ItemsRead(r) ==
  /\ checkout[r].todo \subseteq checkout[r].items
  /\ \A i \in checkout[r].items :
       /\ i.student = student[r]
       /\ i.id \in usedIds
       /\ \A j \in cart : j.id = i.id => j = i
       /\ \A j \in checkout[r].items : i.id = j.id \/ i.course = j.course => i = j

\* The item the loop is at.
ItemInHand(r) ==
  /\ pc[r] \in ItemCalls =>
       \E i \in checkout[r].items \ checkout[r].todo :
         i.id = itemId[r] /\ i.course = course[r]
  /\ pc[r] \notin ItemCalls => itemId[r] = None

\* No course is on a list before its item is visited, and none comes on both.
ListsKept(r) ==
  /\ \A i \in checkout[r].todo : i.course \notin checkout[r].enrolled \cup checkout[r].failed
  /\ pc[r] \in ItemCalls => course[r] \notin checkout[r].enrolled
  /\ pc[r] \in ItemCalls \ {"item.drop"} => course[r] \notin checkout[r].failed
  /\ pc[r] = "item.drop" => Pair(r) \in enrollments \/ course[r] \in checkout[r].failed

BeforeLoop(r) ==
  pc[r] \notin InLoop =>
    /\ checkout[r].todo = checkout[r].items
    /\ checkout[r].open = {} /\ checkout[r].enrolled = {} /\ checkout[r].failed = {}
    /\ pc[r] # "cart.courses" => checkout[r].items = {}

VisitedAccountedFor(r) ==
  \A i \in checkout[r].items \ checkout[r].todo :
    \/ i.id = itemId[r]
    \/ <<i.student, i.course>> \in enrollments
    \/ i.course \in checkout[r].failed

\* The enrolment is stored, counted and announced.
Told(p) == p \in Settled /\ announced[p] = 1

EnrolledTold(r) ==
  \A c \in checkout[r].enrolled :
    /\ Told(<<student[r], c>>)
    /\ c \notin checkout[r].failed

CheckoutOK(r) ==
  /\ ItemsRead(r)
  /\ ItemInHand(r)
  /\ ListsKept(r)
  /\ BeforeLoop(r)
  /\ VisitedAccountedFor(r)
  /\ EnrolledTold(r)

CheckoutInv == CartIds /\ \A r \in Requests : CheckoutOK(r)

\* The calls of a request that has found the course of its enrolment open.
AfterReading == {"free.existing", "free.insert", "free.count",
                 "item.existing", "item.insert", "item.count"}

OpenSeen(r) ==
  /\ pc[r] = "idle" => checkout[r].open = {}
  /\ pc[r] # "idle" => Open \subseteq openSince[r]
  /\ checkout[r].open \subseteq openSince[r]
  /\ pc[r] \in AfterReading => course[r] \in openSince[r]

OpenInv == \A r \in Requests : OpenSeen(r)

----------------------------------------------------------------------------
(***************************************************************************)
(* Enrolment only in courses that were open since it was asked for.        *)
(***************************************************************************)

LEMMA InitOpen == Init => OpenInv
  BY DEF Init, OpenInv, OpenSeen, AfterReading, NoCheckout

\* A step of r that leaves the catalogue alone keeps the invariant if r does.
LEMMA OpenFrame ==
  ASSUME OpenInv, NEW r \in Requests,
         UNCHANGED catalogue,
         \A q \in Requests \ {r} :
           pc'[q] = pc[q] /\ course'[q] = course[q] /\ checkout'[q] = checkout[q],
         OpenSeen(r)'
  PROVE  OpenInv'
  BY DEF OpenInv, OpenSeen, Open, catalogue, courseVars

\* A request that comes in has seen nothing open yet, and holds no course.
LEMMA OpenArrival ==
  ASSUME OpenInv, TypeOK, NEW r \in Requests, pc[r] = "idle",
         Arrives(r), UNCHANGED <<courseVars, checkout>>,
         pc'[r] \in {"free.course", "cart.items"},
         \A q \in Requests \ {r} : pc'[q] = pc[q] /\ course'[q] = course[q]
  PROVE  OpenInv'
<1>1. openSince' = [openSince EXCEPT ![r] = Open] /\ Open' = Open
  BY DEF Arrives, Open, courseVars
<1>2. OpenSeen(r)'
  BY <1>1 DEF OpenInv, OpenSeen, AfterReading, TypeOK, StoreTypes
<1>3. ASSUME NEW q \in Requests \ {r}
      PROVE  OpenSeen(q)'
  BY <1>1, <1>3 DEF OpenInv, OpenSeen, TypeOK, StoreTypes
<1> QED BY <1>2, <1>3 DEF OpenInv

(***************************************************************************)
(* What the steps of checkoutCart do to the request's own locals.          *)
(***************************************************************************)
LEMMA ReadCartEffect ==
  ASSUME LocalTypes, NEW r \in Requests, ReadCart(r)
  PROVE  \/ Answer(r)
         \/ /\ pc'[r] = "cart.courses"
            /\ UNCHANGED <<student, course, itemId>>
            /\ checkout'[r].items = {i \in cart : i.student = student[r]}
            /\ checkout'[r].todo = checkout'[r].items
            /\ checkout'[r].open = checkout[r].open
            /\ checkout'[r].enrolled = checkout[r].enrolled
            /\ checkout'[r].failed = checkout[r].failed
<1> DEFINE mine == {i \in cart : i.student = student[r]}
           co   == [checkout[r] EXCEPT !.items = mine, !.todo = mine]
<1>1. checkout[r] \in Checkout
  BY DEF LocalTypes
<1>2. /\ co.items = mine /\ co.todo = mine /\ co.open = checkout[r].open
      /\ co.enrolled = checkout[r].enrolled /\ co.failed = checkout[r].failed
  BY <1>1 DEF Checkout
<1>3. \/ Answer(r)
      \/ /\ Await(r, "cart.courses")
         /\ checkout' = [checkout EXCEPT ![r] = co]
         /\ UNCHANGED <<student, course, itemId>>
  BY DEF ReadCart
<1> HIDE DEF co
<1> QED BY <1>2, <1>3 DEF LocalTypes, Await

LEMMA ReadCoursesEffect ==
  ASSUME LocalTypes, NEW r \in Requests, ReadCourses(r)
  PROVE  \/ Answer(r)
         \/ /\ pc'[r] = "item.next" /\ course'[r] = None /\ itemId'[r] = None
            /\ UNCHANGED student
            /\ checkout'[r].items = checkout[r].items
            /\ checkout'[r].todo = checkout[r].todo
            /\ checkout'[r].open \subseteq Open
            /\ checkout'[r].enrolled = checkout[r].enrolled
            /\ checkout'[r].failed = checkout[r].failed
<1> DEFINE found == {i.course : i \in checkout[r].items} \ deleted
           co    == [checkout[r] EXCEPT !.found = found,
                                        !.open = found \cap published]
<1>1. checkout[r] \in Checkout
  BY DEF LocalTypes
<1>2. /\ co.items = checkout[r].items /\ co.todo = checkout[r].todo
      /\ co.open = found \cap published
      /\ co.enrolled = checkout[r].enrolled /\ co.failed = checkout[r].failed
  BY <1>1 DEF Checkout
<1>3. Answer(r) \/ (found \cap priced = {} /\ NextItem(r, co))
  BY DEF ReadCourses
<1>4. found \cap priced = {} => found \cap published \subseteq Open
  BY DEF Open
<1> HIDE DEF found, co
<1> QED BY <1>2, <1>3, <1>4 DEF LocalTypes, NextItem, Await

LEMMA TakeItemEffect ==
  ASSUME LocalTypes, NEW r \in Requests, NEW i \in CartItem, TakeItem(r, i)
  PROVE  /\ UNCHANGED student
         /\ checkout'[r].items = checkout[r].items
         /\ checkout'[r].todo = checkout[r].todo \ {i}
         /\ checkout'[r].open = checkout[r].open
         /\ checkout'[r].enrolled = checkout[r].enrolled
         /\ \/ /\ pc'[r] = "item.next" /\ course'[r] = None /\ itemId'[r] = None
               /\ checkout'[r].failed = checkout[r].failed \cup {i.course}
            \/ /\ pc'[r] = "item.drop" /\ course'[r] = i.course /\ itemId'[r] = i.id
               /\ checkout'[r].failed = checkout[r].failed \cup {i.course}
            \/ /\ pc'[r] = "item.existing" /\ course'[r] = i.course /\ itemId'[r] = i.id
               /\ i.course \in checkout[r].open
               /\ checkout'[r].failed = checkout[r].failed
<1> DEFINE co   == [checkout[r] EXCEPT !.todo = @ \ {i}]
           fail == [co EXCEPT !.failed = @ \cup {i.course}]
<1>1. checkout[r] \in Checkout
  BY DEF LocalTypes
<1>2. /\ co.items = checkout[r].items /\ co.todo = checkout[r].todo \ {i}
      /\ co.open = checkout[r].open
      /\ co.enrolled = checkout[r].enrolled /\ co.failed = checkout[r].failed
      /\ fail.items = checkout[r].items /\ fail.todo = checkout[r].todo \ {i}
      /\ fail.open = checkout[r].open
      /\ fail.enrolled = checkout[r].enrolled
      /\ fail.failed = checkout[r].failed \cup {i.course}
  BY <1>1 DEF Checkout
<1>3. \/ NextItem(r, fail)
      \/ /\ course' = [course EXCEPT ![r] = i.course]
         /\ itemId' = [itemId EXCEPT ![r] = i.id]
         /\ \/ Await(r, "item.drop") /\ checkout' = [checkout EXCEPT ![r] = fail]
            \/ /\ i.course \in co.open
               /\ Await(r, "item.existing")
               /\ checkout' = [checkout EXCEPT ![r] = co]
         /\ UNCHANGED student
  BY DEF TakeItem
<1> HIDE DEF co, fail
<1> QED BY <1>2, <1>3 DEF LocalTypes, NextItem, Await

LEMMA ReportedEffect ==
  ASSUME LocalTypes, NEW r \in Requests
  PROVE  /\ Reported(r, "failed").items = checkout[r].items
         /\ Reported(r, "failed").todo = checkout[r].todo
         /\ Reported(r, "failed").open = checkout[r].open
         /\ Reported(r, "failed").enrolled = checkout[r].enrolled
         /\ Reported(r, "failed").failed = checkout[r].failed \cup {course[r]}
         /\ Reported(r, "enrolled").items = checkout[r].items
         /\ Reported(r, "enrolled").todo = checkout[r].todo
         /\ Reported(r, "enrolled").open = checkout[r].open
         /\ Reported(r, "enrolled").failed = checkout[r].failed
         /\ Reported(r, "enrolled").enrolled = checkout[r].enrolled \cup {course[r]}
  BY DEF LocalTypes, Reported, Checkout

\* A step of r changes the locals of no other request.
LEMMA OthersStay ==
  ASSUME LocalTypes, NEW r \in Requests, Serve(r) \/ RequestFails(r) \/ ItemFails(r)
  PROVE  \A q \in Requests \ {r} :
           /\ pc'[q] = pc[q] /\ student'[q] = student[q] /\ course'[q] = course[q]
           /\ itemId'[q] = itemId[q] /\ checkout'[q] = checkout[q]
  BY DEF LocalTypes, Serve, EnrollFree, CheckoutCart, StartFree, FreeReadCourse,
     FreeReadExisting, FreeInsert, FreeCount, StartCheckout, ReadCart, ReadCourses, TakeItem,
     ItemReadExisting, ItemDrop, ItemInsert, ItemCount, ItemUncart, FinishCheckout,
     RequestFails, ItemFails, Answer, NextItem, Await

LEMMA OpenFree ==
  ASSUME OpenInv, TypeOK, NEW r \in Requests, EnrollFree(r)
  PROVE  OpenInv'
<1> USE DEF LocalTypes, Await, Answer, NoCheckout, AfterReading
<1>0. LocalTypes
  BY DEF TypeOK
<1>1. ASSUME NEW s \in Students, NEW c \in Courses, StartFree(r, s, c)
      PROVE  OpenInv'
  BY <1>0, <1>1, OpenArrival DEF StartFree
<1>2. CASE FreeReadCourse(r)
  <2>1. UNCHANGED catalogue /\ OpenSeen(r)
    BY <1>2 DEF FreeReadCourse, OpenInv
  <2>2. OpenSeen(r)'
    BY <1>0, <1>2, <2>1 DEF FreeReadCourse, OpenSeen, Open, catalogue, courseVars
  <2> QED BY <1>0, <1>2, <2>1, <2>2, OpenFrame DEF FreeReadCourse
<1>3. CASE FreeReadExisting(r)
  <2>1. UNCHANGED catalogue /\ OpenSeen(r)
    BY <1>3 DEF FreeReadExisting, OpenInv
  <2>2. OpenSeen(r)'
    BY <1>0, <1>3, <2>1 DEF FreeReadExisting, OpenSeen, Open, catalogue, courseVars
  <2> QED BY <1>0, <1>3, <2>1, <2>2, OpenFrame DEF FreeReadExisting
<1>4. CASE FreeInsert(r)
  <2>1. UNCHANGED catalogue /\ OpenSeen(r)
    BY <1>4 DEF FreeInsert, OpenInv
  <2>2. OpenSeen(r)'
    BY <1>0, <1>4, <2>1 DEF FreeInsert, OpenSeen, Open, catalogue, courseVars
  <2> QED BY <1>0, <1>4, <2>1, <2>2, OpenFrame DEF FreeInsert
<1>5. CASE FreeCount(r)
  <2>1. UNCHANGED catalogue /\ OpenSeen(r)
    BY <1>5 DEF FreeCount, OpenInv
  <2>2. OpenSeen(r)'
    BY <1>0, <1>5, <2>1 DEF FreeCount, OpenSeen, Open, catalogue, courseVars
  <2> QED BY <1>0, <1>5, <2>1, <2>2, OpenFrame DEF FreeCount
<1> QED BY <1>1, <1>2, <1>3, <1>4, <1>5 DEF EnrollFree

\* What a step of the checkout that asks for nothing new leaves as it was.
LEMMA OpenStays ==
  ASSUME OpenInv, NEW r \in Requests,
         UNCHANGED catalogue,
         \A q \in Requests \ {r} :
           pc'[q] = pc[q] /\ course'[q] = course[q] /\ checkout'[q] = checkout[q],
         pc[r] # "idle", pc'[r] # "idle",
         checkout'[r].open \subseteq checkout[r].open \cup Open,
         pc'[r] \in AfterReading =>
           \/ pc[r] \in AfterReading /\ course'[r] = course[r]
           \/ course'[r] \in checkout[r].open
  PROVE  OpenInv'
<1>1. OpenSeen(r) /\ openSince' = openSince /\ Open' = Open
  BY DEF OpenInv, Open, catalogue, courseVars
<1>2. OpenSeen(r)'
  BY <1>1 DEF OpenSeen
<1> QED BY <1>2, OpenFrame

\* A request that is answered keeps no snapshot.
LEMMA OpenAnswer ==
  ASSUME OpenInv, LocalTypes, NEW r \in Requests,
         UNCHANGED catalogue, Answer(r)
  PROVE  OpenInv'
<1>1. /\ pc'[r] = "idle" /\ checkout'[r].open = {}
      /\ \A q \in Requests \ {r} :
            pc'[q] = pc[q] /\ course'[q] = course[q] /\ checkout'[q] = checkout[q]
  BY DEF LocalTypes, Answer, Await, NoCheckout
<1>2. OpenSeen(r)'
  BY <1>1 DEF OpenSeen, AfterReading
<1> QED BY <1>1, <1>2, OpenFrame

LEMMA OpenCheckout ==
  ASSUME OpenInv, TypeOK, NEW r \in Requests, CheckoutCart(r), UNCHANGED disturbances
  PROVE  OpenInv'
<1>0. /\ LocalTypes /\ checkout[r] \in Checkout
      /\ \A q \in Requests \ {r} :
            pc'[q] = pc[q] /\ course'[q] = course[q] /\ checkout'[q] = checkout[q]
  BY OthersStay DEF TypeOK, LocalTypes, Serve
<1>1. ASSUME NEW s \in Students, StartCheckout(r, s)
      PROVE  OpenInv'
  BY <1>0, <1>1, OpenArrival DEF StartCheckout, LocalTypes, Await
<1>2. CASE ReadCart(r)
  BY <1>0, <1>2, ReadCartEffect, OpenAnswer, OpenStays DEF ReadCart, AfterReading
<1>3. CASE ReadCourses(r)
  BY <1>0, <1>3, ReadCoursesEffect, OpenAnswer, OpenStays DEF ReadCourses, AfterReading
<1>4. ASSUME NEW i \in CartItem, TakeItem(r, i)
      PROVE  OpenInv'
  <2>1. UNCHANGED catalogue /\ pc[r] # "idle"
    BY <1>4 DEF TakeItem
  <2>2. /\ pc'[r] # "idle" /\ checkout'[r].open = checkout[r].open
        /\ pc'[r] \in AfterReading => course'[r] \in checkout[r].open
    BY <1>0, <1>4, TakeItemEffect DEF AfterReading
  <2> QED BY <1>0, <2>1, <2>2, OpenStays
<1>5. CASE ItemReadExisting(r)
  BY <1>0, <1>5, OpenStays DEF ItemReadExisting, LocalTypes, Await, AfterReading
<1>6. CASE ItemDrop(r)
  BY <1>0, <1>6, OpenStays DEF ItemDrop, LocalTypes, NextItem, Await, AfterReading
<1>7. CASE ItemInsert(r)
  BY <1>0, <1>7, ReportedEffect, OpenStays
     DEF ItemInsert, LocalTypes, NextItem, Await, AfterReading
<1>8. CASE ItemCount(r)
  BY <1>0, <1>8, OpenStays DEF ItemCount, LocalTypes, Await, AfterReading
<1>9. CASE ItemUncart(r)
  BY <1>0, <1>9, ReportedEffect, OpenStays
     DEF ItemUncart, LocalTypes, NextItem, Await, AfterReading
<1>10. CASE FinishCheckout(r)
  BY <1>0, <1>10, OpenAnswer DEF FinishCheckout
<1> QED
  BY <1>1, <1>2, <1>3, <1>4, <1>5, <1>6, <1>7, <1>8, <1>9, <1>10 DEF CheckoutCart

LEMMA OpenFailures ==
  ASSUME OpenInv, TypeOK, NEW r \in Requests, RequestFails(r) \/ ItemFails(r)
  PROVE  OpenInv'
<1>0. /\ LocalTypes
      /\ \A q \in Requests \ {r} :
            pc'[q] = pc[q] /\ course'[q] = course[q] /\ checkout'[q] = checkout[q]
  BY OthersStay DEF TypeOK
<1>1. CASE RequestFails(r)
  BY <1>0, <1>1, OpenAnswer DEF RequestFails
<1>2. CASE ItemFails(r)
  BY <1>0, <1>2, ReportedEffect, OpenStays
     DEF ItemFails, ItemCalls, LocalTypes, NextItem, Await, AfterReading
<1> QED BY <1>1, <1>2

\* What other services open joins the history of every request in flight.
LEMMA OpenOthers ==
  ASSUME OpenInv, TypeOK, Others
  PROVE  OpenInv'
<1>1. UNCHANGED locals
  BY OthersKeepAll
<1>2. ASSUME NEW r \in Requests, pc[r] # "idle"
      PROVE  openSince[r] \cup Open' \subseteq openSince'[r]
  <2>0. OpenSeen(r)
    BY DEF OpenInv
  <2>1. ASSUME NEW c \in Courses, CourseStatusChanges(c)
        PROVE  openSince[r] \cup Open' \subseteq openSince'[r]
    BY <1>2, <2>1 DEF CourseStatusChanges, Opened, Open
  <2>2. ASSUME NEW c \in Courses, CoursePriceChanges(c)
        PROVE  openSince[r] \cup Open' \subseteq openSince'[r]
    BY <1>2, <2>2 DEF CoursePriceChanges, Opened, Open
  <2>3. ASSUME NEW c \in Courses, CourseIsDeleted(c)
        PROVE  openSince[r] \cup Open' \subseteq openSince'[r]
    BY <1>2, <2>0, <2>3 DEF CourseIsDeleted, Open, OpenSeen
  <2>4. CASE UNCHANGED catalogue
    BY <1>2, <2>0, <2>4 DEF Open, OpenSeen, catalogue, courseVars
  <2> QED BY <2>1, <2>2, <2>3, <2>4 DEF Others, ItemIsAdded, ItemIsRemoved
<1>3. ASSUME NEW r \in Requests
      PROVE  OpenSeen(r)'
  <2>1. OpenSeen(r)
    BY DEF OpenInv
  <2>2. pc' = pc /\ course' = course /\ checkout' = checkout
    BY <1>1 DEF locals
  <2>3. CASE pc[r] = "idle"
    BY <2>1, <2>2, <2>3 DEF OpenSeen, AfterReading
  <2>4. CASE pc[r] # "idle"
    BY <1>2, <2>1, <2>2, <2>4 DEF OpenSeen
  <2> QED BY <2>3, <2>4
<1> QED BY <1>3 DEF OpenInv

LEMMA OpenKept ==
  ASSUME OpenInv, TypeOK, [Next]_vars
  PROVE  OpenInv'
<1>1. CASE Crash
  BY <1>1 DEF Crash, OpenInv, OpenSeen, NoCheckout, AfterReading
<1>2. CASE UNCHANGED vars
  BY <1>2 DEF vars, catalogue, courseVars, locals, OpenInv, OpenSeen, Open
<1> QED
  BY <1>1, <1>2, OpenFree, OpenCheckout, OpenFailures, OpenOthers DEF Next, Serve

\* The course of an enrolment just inserted was published, free and not deleted
\* at some moment since its request came in, although both routes test it well
\* before they insert.
THEOREM OpenCoursesEntered == Spec => []OpenSinceAsked
<1>1. OpenInv => OpenSinceAsked
  BY DEF OpenInv, OpenSeen, OpenSinceAsked, CountCalls, AfterReading
<1> QED BY <1>1, InitOpen, OpenKept, TypeCorrect, PTL DEF Spec

----------------------------------------------------------------------------
(***************************************************************************)
(* The checkout.  What it relies on of the rest only grows.                *)
(***************************************************************************)
LEMMA LedgerGrows ==
  ASSUME IInv, [Next]_vars
  PROVE  /\ enrollments \subseteq enrollments'
         /\ \A p : Told(p) => Told(p)'
<1>1. \A p \in Pairs : Stage[p] = StageNow(p) /\ Stage'[p] = StageNow(p)'
  <2>1. Stage' = [p \in Pairs |-> StageNow(p)']
    BY DEF Stage, StageNow, Settled
  <2> QED BY <2>1, StageBySettled
<1>2. /\ \A p \in Pairs : Stage[p] # "none" => Stage'[p] # "none"
      /\ \A p \in Pairs : Stage[p] = "announced" => Stage'[p] = "announced"
  <2>1. Stage = [p \in Pairs |-> StageNow(p)]
    BY StageBySettled
  <2>2. Ledger!Next \/ UNCHANGED <<Stage, totalEnrollments>>
    BY StepRefines
  <2> QED
    BY <2>1, <2>2 DEF Ledger!Next, Ledger!Store, Ledger!Count, Ledger!Tell, Ledger!Advance, Pairs
<1>3. \A p \in Pairs : StageNow(p) # "none" <=> p \in enrollments
  BY DEF StageNow
<1>4. \A p \in Pairs : (StageNow(p) # "none")' <=> p \in enrollments'
  BY DEF StageNow
<1>5. \A p \in Pairs : StageNow(p) = "announced" <=> Told(p)
  BY DEF StageNow, Told, IInv, TypeOK, LedgerTypes, AnnouncedOnce, Settled
<1>6. TypeOK' /\ AnnouncedOnce'
  BY TypesKept, LedgerInvKept DEF IInv, LedgerInv
<1>7. \A p \in Pairs : StageNow(p)' = "announced" <=> Told(p)'
  BY <1>6 DEF StageNow, Told, TypeOK, LedgerTypes, AnnouncedOnce, Settled
<1>8. \A p : Told(p) => p \in Pairs
  BY DEF Told, Settled, IInv, TypeOK, LedgerTypes
<1>9. enrollments \subseteq Pairs
  BY DEF IInv, TypeOK, LedgerTypes
<1> QED BY <1>1, <1>2, <1>3, <1>4, <1>5, <1>7, <1>8, <1>9

LEMMA CartGrows ==
  ASSUME TypeOK, CartIds, [Next]_vars
  PROVE  /\ usedIds \subseteq usedIds'
         /\ \A i \in cart' : i \in cart \/ i.id \notin usedIds
         /\ CartIds'
<1>1. CASE UNCHANGED cartVars
  BY <1>1 DEF CartIds, cartVars
<1>2. CASE cart' \subseteq cart /\ UNCHANGED usedIds
  BY <1>2 DEF CartIds
<1>3. ASSUME NEW id \in ItemIds, NEW s \in Students, NEW c \in Courses, ItemIsAdded(id, s, c)
      PROVE  /\ usedIds \subseteq usedIds'
             /\ \A i \in cart' : i \in cart \/ i.id \notin usedIds
             /\ CartIds'
  BY <1>3 DEF ItemIsAdded, CartIds
<1>4. \A r \in Requests :
        Serve(r) => UNCHANGED cartVars \/ (cart' \subseteq cart /\ UNCHANGED usedIds)
  BY DEF Serve, EnrollFree, CheckoutCart, StartFree, FreeReadCourse, FreeReadExisting,
     FreeInsert, FreeCount, StartCheckout, ReadCart, ReadCourses, TakeItem,
     ItemReadExisting, ItemDrop, ItemInsert, ItemCount, ItemUncart, FinishCheckout,
     DeleteItem
<1>5. \A r \in Requests : RequestFails(r) \/ ItemFails(r) => UNCHANGED cartVars
  BY DEF RequestFails, ItemFails
<1>6. Crash \/ UNCHANGED vars => UNCHANGED cartVars
  BY DEF Crash, vars
<1>7. Others => \/ UNCHANGED cartVars
                \/ cart' \subseteq cart /\ UNCHANGED usedIds
                \/ \E id \in ItemIds, s \in Students, c \in Courses : ItemIsAdded(id, s, c)
  BY DEF Others, CourseStatusChanges, CoursePriceChanges, CourseIsDeleted, ItemIsRemoved
<1> QED BY <1>1, <1>2, <1>3, <1>4, <1>5, <1>6, <1>7 DEF Next

\* What a step keeps for every request.
Grown ==
  /\ enrollments \subseteq enrollments'
  /\ \A p : Told(p) => Told(p)'
  /\ usedIds \subseteq usedIds'
  /\ \A i \in cart' : i \in cart \/ i.id \notin usedIds

LEMMA CheckoutStays ==
  ASSUME Grown, NEW q \in Requests, CheckoutOK(q),
         pc'[q] = pc[q], student'[q] = student[q], course'[q] = course[q],
         itemId'[q] = itemId[q], checkout'[q] = checkout[q]
  PROVE  CheckoutOK(q)'
<1>1. ItemsRead(q)'
  BY DEF CheckoutOK, Grown, ItemsRead
<1>2. ItemInHand(q)' /\ BeforeLoop(q)'
  BY DEF CheckoutOK, ItemInHand, BeforeLoop
<1>3. ListsKept(q)' /\ VisitedAccountedFor(q)'
  BY DEF CheckoutOK, Grown, ListsKept, VisitedAccountedFor, Pair
<1>4. EnrolledTold(q)'
  BY DEF CheckoutOK, Grown, EnrolledTold
<1> QED BY <1>1, <1>2, <1>3, <1>4 DEF CheckoutOK

LEMMA AnswerOK ==
  ASSUME LocalTypes, NEW r \in Requests, Answer(r)
  PROVE  CheckoutOK(r)'
  BY DEF LocalTypes, Answer, Await, NoCheckout, CheckoutOK, ItemsRead, ItemInHand, ListsKept,
     BeforeLoop, VisitedAccountedFor, EnrolledTold, ItemCalls, InLoop

\* The loop turns: the item in hand is accounted for.
LEMMA NextItemOK ==
  ASSUME LocalTypes, Grown, NEW r \in Requests, CheckoutOK(r), pc[r] \in ItemCalls,
         NEW co \in Checkout, NextItem(r, co),
         co.items = checkout[r].items, co.todo = checkout[r].todo,
         \/ /\ co.failed = checkout[r].failed /\ co.enrolled = checkout[r].enrolled
            /\ Pair(r) \in enrollments \/ course[r] \in checkout[r].failed
         \/ /\ co.failed = checkout[r].failed \cup {course[r]}
            /\ co.enrolled = checkout[r].enrolled
         \/ /\ co.enrolled = checkout[r].enrolled \cup {course[r]}
            /\ co.failed = checkout[r].failed /\ course[r] \notin checkout[r].failed
            /\ Pair(r) \in enrollments /\ \A p : p = Pair(r) => Told(p)'
  PROVE  CheckoutOK(r)'
<1>1. /\ pc'[r] = "item.next" /\ itemId'[r] = None /\ student'[r] = student[r]
      /\ checkout'[r] = co
  BY DEF LocalTypes, NextItem, Await
<1>2. PICK i \in checkout[r].items \ checkout[r].todo : i.id = itemId[r] /\ i.course = course[r]
  BY DEF CheckoutOK, ItemInHand
<1>3. ItemsRead(r)'
  BY <1>1 DEF CheckoutOK, Grown, ItemsRead
<1>4. ItemInHand(r)' /\ BeforeLoop(r)'
  BY <1>1 DEF ItemInHand, BeforeLoop, ItemCalls, InLoop
<1>5. ListsKept(r)'
  BY <1>1, <1>2 DEF CheckoutOK, ListsKept, ItemsRead, ItemCalls
<1>6. VisitedAccountedFor(r)'
  <2> SUFFICES ASSUME NEW j \in co.items \ co.todo
               PROVE  <<j.student, j.course>> \in enrollments' \/ j.course \in co.failed
    BY <1>1 DEF VisitedAccountedFor
  <2>1. CASE j.id = itemId[r]
    BY <1>2, <2>1 DEF CheckoutOK, ItemsRead, Grown, Pair
  <2>2. CASE j.id # itemId[r]
    BY <2>2 DEF CheckoutOK, VisitedAccountedFor, Grown
  <2> QED BY <2>1, <2>2
<1>7. EnrolledTold(r)'
  <2> SUFFICES ASSUME NEW c \in co.enrolled
               PROVE  Told(<<student[r], c>>)' /\ c \notin co.failed
    BY <1>1 DEF EnrolledTold
  <2>1. Told(<<student[r], c>>)'
    BY <1>1 DEF CheckoutOK, EnrolledTold, Grown, Pair, Told
  <2>2. c \notin co.failed
    BY DEF CheckoutOK, EnrolledTold, ListsKept
  <2> QED BY <2>1, <2>2
<1> QED BY <1>3, <1>4, <1>5, <1>6, <1>7 DEF CheckoutOK

\* From one call about the item in hand to the next.
LEMMA ItemGoesOnOK ==
  ASSUME LocalTypes, Grown, NEW r \in Requests, CheckoutOK(r),
         pc[r] \in ItemCalls \ {"item.drop"}, NEW call \in ItemCalls, Await(r, call),
         UNCHANGED <<student, course, itemId, checkout>>,
         call = "item.drop" => Pair(r) \in enrollments
  PROVE  CheckoutOK(r)'
<1>1. /\ pc'[r] = call /\ student'[r] = student[r] /\ course'[r] = course[r]
      /\ itemId'[r] = itemId[r] /\ checkout'[r] = checkout[r]
  BY DEF LocalTypes, Await
<1>2. ItemsRead(r)'
  BY <1>1 DEF CheckoutOK, Grown, ItemsRead
<1>3. ItemInHand(r)' /\ BeforeLoop(r)'
  BY <1>1 DEF CheckoutOK, ItemInHand, BeforeLoop, InLoop
<1>4. ListsKept(r)'
  BY <1>1 DEF CheckoutOK, ListsKept, Grown, Pair
<1>5. VisitedAccountedFor(r)' /\ EnrolledTold(r)'
  BY <1>1 DEF CheckoutOK, VisitedAccountedFor, EnrolledTold, Grown
<1> QED BY <1>2, <1>3, <1>4, <1>5 DEF CheckoutOK

LEMMA FreeOK ==
  ASSUME LocalTypes, Grown, NEW r \in Requests, CheckoutOK(r), EnrollFree(r)
  PROVE  CheckoutOK(r)'
<1>1. ASSUME pc[r] \notin InLoop \cup {"cart.courses"}, pc'[r] \in FreeCalls,
             itemId'[r] = itemId[r], checkout'[r] = checkout[r]
      PROVE  CheckoutOK(r)'
  BY <1>1 DEF CheckoutOK, ItemsRead, ItemInHand, ListsKept, BeforeLoop, VisitedAccountedFor,
     EnrolledTold, InLoop, ItemCalls, FreeCalls
<1> USE DEF LocalTypes, Await, FreeCalls, InLoop, ItemCalls
<1>2. ASSUME NEW s \in Students, NEW c \in Courses, StartFree(r, s, c)
      PROVE  CheckoutOK(r)'
  BY <1>1, <1>2 DEF StartFree
<1>3. CASE FreeReadCourse(r)
  BY <1>1, <1>3, AnswerOK DEF FreeReadCourse
<1>4. CASE FreeReadExisting(r)
  BY <1>1, <1>4, AnswerOK DEF FreeReadExisting
<1>5. CASE FreeInsert(r)
  BY <1>1, <1>5, AnswerOK DEF FreeInsert
<1>6. CASE FreeCount(r)
  BY <1>6, AnswerOK DEF FreeCount
<1> QED BY <1>2, <1>3, <1>4, <1>5, <1>6 DEF EnrollFree

LEMMA ReadingOK ==
  ASSUME LocalTypes, Grown, CartIds, NEW r \in Requests, CheckoutOK(r),
         (\E s \in Students : StartCheckout(r, s)) \/ ReadCart(r) \/ ReadCourses(r)
  PROVE  CheckoutOK(r)'
<1> USE DEF InLoop, ItemCalls
<1>1. ASSUME NEW s \in Students, StartCheckout(r, s)
      PROVE  CheckoutOK(r)'
  BY <1>1 DEF StartCheckout, LocalTypes, Await, CheckoutOK, ItemsRead, ItemInHand, ListsKept,
     BeforeLoop, VisitedAccountedFor, EnrolledTold
<1>2. CASE ReadCart(r)
  <2>1. pc[r] = "cart.items" /\ UNCHANGED cartVars
    BY <1>2 DEF ReadCart
  <2>2. ASSUME ~ Answer(r) PROVE CheckoutOK(r)'
    <3>1. /\ pc'[r] = "cart.courses"
          /\ student'[r] = student[r] /\ itemId'[r] = itemId[r]
          /\ checkout'[r].items = {i \in cart : i.student = student[r]}
          /\ checkout'[r].todo = checkout'[r].items
          /\ checkout'[r].open = {}
          /\ checkout'[r].enrolled = {} /\ checkout'[r].failed = {}
      BY <1>2, <2>1, <2>2, ReadCartEffect DEF CheckoutOK, BeforeLoop
    <3>2. ItemsRead(r)'
      BY <2>1, <3>1 DEF ItemsRead, CartIds, cartVars
    <3>3. ItemInHand(r)' /\ ListsKept(r)' /\ BeforeLoop(r)'
      BY <2>1, <3>1 DEF CheckoutOK, ItemInHand, ListsKept, BeforeLoop
    <3>4. VisitedAccountedFor(r)' /\ EnrolledTold(r)'
      BY <3>1 DEF VisitedAccountedFor, EnrolledTold
    <3> QED BY <3>2, <3>3, <3>4 DEF CheckoutOK
  <2> QED BY <2>2, AnswerOK
<1>3. CASE ReadCourses(r)
  <2>1. pc[r] = "cart.courses"
    BY <1>3 DEF ReadCourses
  <2>2. ASSUME ~ Answer(r) PROVE CheckoutOK(r)'
    <3>1. /\ pc'[r] = "item.next" /\ itemId'[r] = None /\ student'[r] = student[r]
          /\ checkout'[r].items = checkout[r].items
          /\ checkout'[r].todo = checkout[r].items
          /\ checkout'[r].enrolled = {} /\ checkout'[r].failed = {}
      BY <1>3, <2>1, <2>2, ReadCoursesEffect DEF CheckoutOK, BeforeLoop
    <3>2. ItemsRead(r)'
      BY <3>1 DEF CheckoutOK, ItemsRead, Grown
    <3>3. ItemInHand(r)' /\ ListsKept(r)' /\ BeforeLoop(r)'
      BY <3>1 DEF ItemInHand, ListsKept, BeforeLoop
    <3>4. VisitedAccountedFor(r)' /\ EnrolledTold(r)'
      BY <3>1 DEF VisitedAccountedFor, EnrolledTold
    <3> QED BY <3>2, <3>3, <3>4 DEF CheckoutOK
  <2> QED BY <2>2, AnswerOK
<1> QED BY <1>1, <1>2, <1>3

LEMMA TakeItemOK ==
  ASSUME LocalTypes, NoneFresh, Grown, NEW r \in Requests, CheckoutOK(r),
         NEW i \in CartItem, TakeItem(r, i)
  PROVE  CheckoutOK(r)'
<1> USE DEF InLoop, ItemCalls
<1>1. /\ pc[r] = "item.next" /\ i \in checkout[r].todo /\ i \in checkout[r].items
      /\ itemId[r] = None
  BY DEF TakeItem, CheckoutOK, ItemsRead, ItemInHand
<1>2. /\ student'[r] = student[r]
      /\ checkout'[r].items = checkout[r].items
      /\ checkout'[r].todo = checkout[r].todo \ {i}
      /\ checkout'[r].enrolled = checkout[r].enrolled
      /\ checkout'[r].failed \subseteq checkout[r].failed \cup {i.course}
      /\ checkout[r].failed \subseteq checkout'[r].failed
      /\ pc'[r] \in {"item.next", "item.drop", "item.existing"}
      /\ pc'[r] = "item.next" => itemId'[r] = None
      /\ pc'[r] # "item.next" => itemId'[r] = i.id /\ course'[r] = i.course
      /\ pc'[r] # "item.existing" => i.course \in checkout'[r].failed
      /\ pc'[r] = "item.existing" => checkout'[r].failed = checkout[r].failed
  BY TakeItemEffect
<1>3. ItemsRead(r)'
  BY <1>2 DEF CheckoutOK, ItemsRead, Grown
<1>4. ItemInHand(r)' /\ BeforeLoop(r)'
  BY <1>1, <1>2 DEF ItemInHand, BeforeLoop
<1>5. ListsKept(r)'
  BY <1>1, <1>2 DEF CheckoutOK, ItemsRead, ListsKept
<1>6. VisitedAccountedFor(r)'
  <2> SUFFICES ASSUME NEW j \in checkout[r].items, j \notin checkout[r].todo \/ j = i
               PROVE  \/ j.id = itemId'[r]
                      \/ <<j.student, j.course>> \in enrollments'
                      \/ j.course \in checkout'[r].failed
    BY <1>2 DEF VisitedAccountedFor
  <2>1. CASE j = i
    BY <1>2, <2>1
  <2>2. CASE j \notin checkout[r].todo
    <3>1. j.id \in ItemIds
      BY DEF LocalTypes, Checkout, CartItem
    <3>2. j.id # itemId[r]
      BY <1>1, <3>1 DEF NoneFresh
    <3> QED BY <1>2, <2>2, <3>2 DEF CheckoutOK, VisitedAccountedFor, Grown
  <2> QED BY <2>1, <2>2
<1>7. EnrolledTold(r)'
  <2> SUFFICES ASSUME NEW c \in checkout[r].enrolled
               PROVE  Told(<<student[r], c>>)' /\ c \notin checkout'[r].failed
    BY <1>2 DEF EnrolledTold
  <2>1. Told(<<student[r], c>>)'
    BY <1>2 DEF CheckoutOK, EnrolledTold, Grown, Told
  <2>2. c # i.course
    BY <1>1 DEF CheckoutOK, ListsKept
  <2> QED BY <1>2, <2>1, <2>2 DEF CheckoutOK, EnrolledTold
<1> QED BY <1>3, <1>4, <1>5, <1>6, <1>7 DEF CheckoutOK

LEMMA ItemOK ==
  ASSUME IInv, Grown, [Next]_vars, NEW r \in Requests, CheckoutOK(r),
         \/ ItemReadExisting(r) \/ ItemDrop(r) \/ ItemInsert(r) \/ ItemCount(r)
         \/ ItemUncart(r) \/ ItemFails(r)
  PROVE  CheckoutOK(r)'
<1>1. LocalTypes /\ LocalsTyped /\ LedgerTypes
  BY DEF IInv, TypeOK, LocalsTyped
<1>2. pc[r] \in ItemCalls
  BY DEF ItemReadExisting, ItemDrop, ItemInsert, ItemCount, ItemUncart, ItemFails, ItemCalls
<1>3. checkout[r] \in Checkout /\ Reported(r, "failed") \in Checkout
                               /\ Reported(r, "enrolled") \in Checkout
  BY <1>1, <1>2, ReportedTypes DEF LocalTypes
<1>4. ASSUME NextItem(r, Reported(r, "failed")) PROVE CheckoutOK(r)'
  BY <1>1, <1>2, <1>3, <1>4, ReportedEffect, NextItemOK
<1>5. CASE ItemReadExisting(r)
  BY <1>1, <1>5, ItemGoesOnOK DEF ItemReadExisting, ItemCalls
<1>6. CASE ItemDrop(r)
  <2>1. Pair(r) \in enrollments \/ course[r] \in checkout[r].failed
    BY <1>6 DEF ItemDrop, CheckoutOK, ListsKept
  <2> QED BY <1>1, <1>2, <1>3, <1>6, <2>1, NextItemOK DEF ItemDrop
<1>7. CASE ItemInsert(r)
  BY <1>1, <1>4, <1>7, ItemGoesOnOK DEF ItemInsert, ItemCalls
<1>8. CASE ItemCount(r)
  BY <1>1, <1>8, ItemGoesOnOK DEF ItemCount, ItemCalls
<1>9. CASE ItemUncart(r)
  <2>1. pc[r] = "item.uncart" /\ pc[r] \in WriterCalls
    BY <1>9 DEF ItemUncart, WriterCalls
  <2>2. Pair(r) \in enrollments /\ announced[Pair(r)] = 0 /\ Pair(r) \in Pairs
    BY <1>1, <1>2, <2>1, PairTypes DEF IInv, WriterOwns
  <2>3. course[r] \notin checkout[r].failed
    BY <2>1 DEF CheckoutOK, ListsKept, ItemCalls
  <2>4. AnnouncedOnce'
    BY LedgerInvKept DEF IInv, LedgerInv
  <2>5. \A p : p = Pair(r) => Told(p)'
    BY <1>1, <1>9, <2>2, <2>4 DEF ItemUncart, Announce, LedgerTypes, AnnouncedOnce, Told
  <2>6. NextItem(r, Reported(r, "enrolled"))
    BY <1>9 DEF ItemUncart
  <2> QED BY <1>1, <1>2, <1>3, <2>2, <2>3, <2>5, <2>6, ReportedEffect, NextItemOK
<1>10. CASE ItemFails(r)
  BY <1>4, <1>10 DEF ItemFails
<1> QED BY <1>5, <1>6, <1>7, <1>8, <1>9, <1>10

LEMMA InitCheckout == Init => CheckoutInv
<1>0. Init => CartIds
  BY DEF Init, CartIds
<1> SUFFICES ASSUME Init, NEW r \in Requests PROVE CheckoutOK(r)
  BY <1>0 DEF CheckoutInv
<1>1. pc[r] = "idle" /\ itemId[r] = None /\ checkout[r] = NoCheckout
  BY DEF Init
<1>2. /\ checkout[r].items = {} /\ checkout[r].todo = {} /\ checkout[r].open = {}
      /\ checkout[r].enrolled = {} /\ checkout[r].failed = {}
  BY <1>1 DEF NoCheckout
<1> QED
  BY <1>1, <1>2 DEF CheckoutOK, ItemsRead, ItemInHand, ListsKept, BeforeLoop,
     VisitedAccountedFor, EnrolledTold, ItemCalls, InLoop

LEMMA CheckoutKept ==
  ASSUME IInv, CheckoutInv, [Next]_vars
  PROVE  CheckoutInv'
<1>1. LocalTypes
  BY DEF IInv, TypeOK
<1>2. Grown /\ CartIds' /\ CartIds
  BY LedgerGrows, CartGrows DEF Grown, IInv, CheckoutInv
<1>3. \A q \in Requests : CheckoutOK(q)
  BY DEF CheckoutInv
<1>4. ASSUME NEW r \in Requests, Serve(r) \/ RequestFails(r) \/ ItemFails(r)
      PROVE  \A q \in Requests : CheckoutOK(q)'
  <2>1. \A q \in Requests \ {r} : CheckoutOK(q)'
    BY <1>1, <1>2, <1>3, <1>4, OthersStay, CheckoutStays
  <2>2. CheckoutOK(r)'
    <3>1. CASE EnrollFree(r)
      BY <1>1, <1>2, <1>3, <3>1, FreeOK
    <3>2. CASE CheckoutCart(r)
      BY <1>1, <1>2, <1>3, <3>2, NoneFresh, ReadingOK, TakeItemOK, ItemOK, AnswerOK
         DEF CheckoutCart, FinishCheckout
    <3>3. CASE RequestFails(r)
      BY <1>1, <3>3, AnswerOK DEF RequestFails
    <3>4. CASE ItemFails(r)
      BY <1>2, <1>3, <3>4, ItemOK
    <3> QED BY <1>4, <3>1, <3>2, <3>3, <3>4 DEF Serve
  <2> QED BY <2>1, <2>2
<1>5. CASE Crash
  BY <1>1, <1>2, <1>5 DEF Crash, CheckoutInv, NoCheckout, CheckoutOK, ItemsRead, ItemInHand,
     ListsKept, BeforeLoop, VisitedAccountedFor, EnrolledTold, ItemCalls, InLoop
<1>6. ASSUME UNCHANGED locals PROVE CheckoutInv'
  BY <1>2, <1>3, <1>6, CheckoutStays DEF CheckoutInv, locals
<1> QED BY <1>2, <1>4, <1>5, <1>6, OthersKeepAll DEF Next, vars, CheckoutInv

LEMMA CheckoutInductive == Spec => [](IInv /\ CheckoutInv)
  BY InitCheckout, CheckoutKept, Inductive, PTL DEF Spec

\* checkoutCart accounts for every item it has visited: the student has the
\* course, or the course is on the failed list.
THEOREM CheckoutLosesNothing == Spec => []NothingDropped
<1>1. CheckoutInv => NothingDropped
  BY DEF CheckoutInv, CheckoutOK, VisitedAccountedFor, NothingDropped
<1> QED BY <1>1, CheckoutInductive, PTL

\* A course on the enrolled list of an answer is stored, counted and
\* announced, and is not on the failed list too.
THEOREM CheckoutAnswersTruthfully == Spec => []AnswerTruthful
<1>1. CheckoutInv => AnswerTruthful
  BY DEF CheckoutInv, CheckoutOK, EnrolledTold, Told, AnswerTruthful
<1> QED BY <1>1, CheckoutInductive, PTL

\* The item a checkout deletes is the one it read, never one added since.
LEMMA DeletesItemInHand ==
  ASSUME IInv, CheckoutInv, NEW r \in Requests, pc[r] \in {"item.drop", "item.uncart"},
         NEW i \in cart, i.id = itemId[r]
  PROVE  /\ i \in checkout[r].items
         /\ \/ <<i.student, i.course>> \in enrollments
            \/ i.course \in checkout[r].failed
<1>1. PICK j \in checkout[r].items : j.id = itemId[r] /\ j.course = course[r]
  BY DEF CheckoutInv, CheckoutOK, ItemInHand, ItemCalls
<1>2. j = i /\ j.student = student[r]
  BY <1>1 DEF CheckoutInv, CheckoutOK, ItemsRead
<1>3. CASE pc[r] = "item.drop"
  BY <1>1, <1>2, <1>3 DEF CheckoutInv, CheckoutOK, ListsKept, Pair
<1>4. CASE pc[r] = "item.uncart"
  BY <1>1, <1>2, <1>4 DEF IInv, WriterOwns, WriterCalls, Pair
<1> QED BY <1>1, <1>2, <1>3, <1>4

LEMMA CheckoutRemoves ==
  ASSUME IInv, CheckoutInv, [Next]_vars, NEW r \in Requests, pc'[r] # pc[r],
         NEW i \in cart, i \notin cart'
  PROVE  /\ i \in checkout[r].items
         /\ \/ <<i.student, i.course>> \in enrollments
            \/ i.course \in checkout[r].failed
<1>1. LocalTypes
  BY DEF IInv, TypeOK
<1>2. PICK q \in Requests : Serve(q)
  BY DEF Next, vars, cartVars, RequestFails, ItemFails, Crash, Others, CourseStatusChanges,
     CoursePriceChanges, CourseIsDeleted, ItemIsAdded, ItemIsRemoved, locals
<1>3. q = r
  BY <1>1, <1>2, OthersStay
<1>4. pc[r] \in {"item.drop", "item.uncart"} /\ DeleteItem(r)
  BY <1>2, <1>3 DEF Serve, EnrollFree, CheckoutCart, StartFree, FreeReadCourse,
     FreeReadExisting, FreeInsert, FreeCount, StartCheckout, ReadCart, ReadCourses, TakeItem,
     ItemReadExisting, ItemDrop, ItemInsert, ItemCount, ItemUncart, FinishCheckout, cartVars
<1>5. i.id = itemId[r]
  BY <1>4 DEF DeleteItem
<1> QED BY <1>4, <1>5, DeletesItemInHand

\* A checkout takes out of the cart only items it read, and only for a course
\* the student has by then or that it reports failed.
THEOREM CheckoutRemovesOnlyItsItems == Spec => CheckoutKeepsOpenItems
<1>1. IInv /\ CheckoutInv /\ [Next]_vars =>
        [\A r \in Requests : \A i \in cart \ cart' :
           pc'[r] # pc[r] =>
             /\ i \in checkout[r].items
             /\ \/ <<i.student, i.course>> \in enrollments
                \/ i.course \in checkout[r].failed]_vars
  BY CheckoutRemoves
<1> QED BY <1>1, CheckoutInductive, PTL DEF Spec, CheckoutKeepsOpenItems
=============================================================================
