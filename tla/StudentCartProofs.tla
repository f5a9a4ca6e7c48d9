------------------------- MODULE StudentCartProofs -------------------------
(***************************************************************************)
(* Theorems about StudentCart: it is an environment StudentEnrollment       *)
(* allows, so what is proved there holds of the composition; and           *)
(* totalCarts covers the items in the carts.                               *)
(***************************************************************************)
EXTENDS StudentCart, StudentEnrollmentProofs

CartLocal ==
  /\ totalCarts \in [Courses -> Int]
  /\ cartCall \in [CartRequests -> CartCall]

\* A slot that awaits a call has a student and a course.
LEMMA BusySlot ==
  ASSUME CartLocal, NEW q \in CartRequests, cartCall[q].pc # "idle"
  PROVE  cartCall[q] \in [pc: CartCallNames, student: Students, course: Courses]
BY DEF CartLocal, CartCall, IdleCall

LEMMA AnswerLocal ==
  ASSUME CartLocal, NEW q \in CartRequests, CartAnswer(q)
  PROVE  cartCall' \in [CartRequests -> CartCall]
BY DEF CartLocal, CartCall, CartAnswer

LEMMA AwaitLocal ==
  ASSUME CartLocal, NEW q \in CartRequests, NEW call \in CartCallNames,
         cartCall[q].pc # "idle", CartAwait(q, call)
  PROVE  cartCall' \in [CartRequests -> CartCall]
<1>1. [cartCall[q] EXCEPT !.pc = call] \in CartCall
  BY BusySlot DEF CartCall
<1> QED BY <1>1 DEF CartLocal, CartAwait

LEMMA TallyLocal ==
  ASSUME CartLocal, NEW q \in CartRequests, NEW n \in Int,
         cartCall[q].pc # "idle", Tally(q, n)
  PROVE  totalCarts' \in [Courses -> Int]
BY BusySlot DEF CartLocal, Tally

LEMMA ServeCartLocal ==
  ASSUME CartLocal, NEW q \in CartRequests, ServeCart(q) \/ CartRequestFails(q)
  PROVE  CartLocal'
<1>1. CASE CartRequestFails(q)
  BY <1>1, AnswerLocal DEF CartRequestFails, CartLocal
<1>2. ASSUME NEW s \in Students, NEW c \in Courses,
             NEW call \in {"add.course", "remove.delete"},
             StartCartCall(q, call, s, c)
      PROVE  CartLocal'
  <2>1. [pc |-> call, student |-> s, course |-> c] \in CartCall
    BY DEF CartCall, CartCallNames
  <2> QED BY <1>2, <2>1 DEF StartCartCall, CartLocal
<1>3. CASE AddReadCourse(q)
  BY <1>3, AnswerLocal, AwaitLocal DEF AddReadCourse, CartLocal, CartCallNames
<1>4. CASE AddReadExisting(q)
  BY <1>4, AnswerLocal, AwaitLocal DEF AddReadExisting, CartLocal, CartCallNames
<1>5. CASE AddCount(q)
  <2>1. totalCarts' \in [Courses -> Int]
    BY <1>5, TallyLocal DEF AddCount
  <2>2. cartCall' \in [CartRequests -> CartCall]
    BY <1>5, AwaitLocal DEF AddCount, CartCallNames
  <2> QED BY <2>1, <2>2 DEF CartLocal
<1>6. CASE AddInsert(q)
  BY <1>6, AnswerLocal DEF AddInsert, CartLocal
<1>7. CASE RemoveDelete(q)
  BY <1>7, AnswerLocal, AwaitLocal DEF RemoveDelete, CartLocal, CartCallNames
<1>8. CASE RemoveCount(q)
  <2>1. totalCarts' \in [Courses -> Int]
    BY <1>8, TallyLocal DEF RemoveCount
  <2>2. cartCall' \in [CartRequests -> CartCall]
    BY <1>8, AnswerLocal DEF RemoveCount
  <2> QED BY <2>1, <2>2 DEF CartLocal
<1> QED BY <1>1, <1>2, <1>3, <1>4, <1>5, <1>6, <1>7, <1>8 DEF ServeCart

LEMMA CrashIdles ==
  ASSUME CrashBoth
  PROVE  cartCall' = [q \in CartRequests |-> IdleCall] /\ UNCHANGED <<totalCarts, cart>>
BY DEF CrashBoth, Crash, cartVars

LEMMA LocalAlways == CartSpec => []CartLocal
<1>1. CartInit => CartLocal
  BY DEF CartInit, CartLocal, CartCall
<1>2. CartLocal /\ [CartNext]_allVars => CartLocal'
  <2> SUFFICES ASSUME CartLocal, [CartNext]_allVars PROVE CartLocal'
    OBVIOUS
  <2>1. CASE EnrollmentStep
    BY <2>1 DEF EnrollmentStep, cartService, CartLocal
  <2>2. CASE CrashBoth
    BY <2>2, CrashIdles DEF CartLocal, CartCall
  <2>3. ASSUME NEW q \in CartRequests, ServeCart(q) \/ CartRequestFails(q)
        PROVE  CartLocal'
    BY <2>3, ServeCartLocal
  <2>4. CASE UNCHANGED allVars
    BY <2>4 DEF allVars, cartService, CartLocal
  <2> QED BY <2>1, <2>2, <2>3, <2>4 DEF CartNext
<1> QED BY <1>1, <1>2, PTL DEF CartSpec

----------------------------------------------------------------------------
LEMMA StepFits == CartLocal /\ [CartNext]_allVars => [Next]_vars
<1> SUFFICES ASSUME CartLocal, [CartNext]_allVars PROVE [Next]_vars
  OBVIOUS
<1>1. CASE EnrollmentStep
  BY <1>1 DEF EnrollmentStep, Next, Others
<1>2. CASE CrashBoth
  BY <1>2 DEF CrashBoth, Next
<1>3. ASSUME NEW q \in CartRequests, ServeCart(q) \/ CartRequestFails(q)
      PROVE  [Next]_vars
  <2>1. CASE CartRequestFails(q)
    BY <2>1 DEF CartRequestFails
  <2>2. ASSUME NEW s \in Students, NEW c \in Courses, NEW call,
               StartCartCall(q, call, s, c)
        PROVE  [Next]_vars
    BY <2>2 DEF StartCartCall
  <2>3. CASE AddReadCourse(q) \/ AddReadExisting(q) \/ AddCount(q) \/ RemoveCount(q)
    BY <2>3 DEF AddReadCourse, AddReadExisting, AddCount, RemoveCount
  <2>4. CASE AddInsert(q)
    BY <2>4, BusySlot DEF AddInsert, Next, Others
  <2>5. CASE RemoveDelete(q)
    BY <2>5 DEF RemoveDelete, ItemsOf, Next, Others
  <2> QED BY <1>3, <2>1, <2>2, <2>3, <2>4, <2>5 DEF ServeCart
<1>4. CASE UNCHANGED allVars
  BY <1>4 DEF allVars
<1> QED BY <1>1, <1>2, <1>3, <1>4 DEF CartNext

(***************************************************************************)
(* The cart service fits the enrolment service: the composition implements *)
(* StudentEnrollment, whatever the number of slots of either.              *)
(***************************************************************************)
THEOREM CartFitsEnrollment == CartSpec => CartServiceFits
<1>1. CartInit => Init
  BY DEF CartInit
<1> QED BY <1>1, StepFits, LocalAlways, PTL DEF CartSpec, CartServiceFits, Spec

(***************************************************************************)
(* With the real cart service beside it, and checkouts racing additions    *)
(* and removals, the enrolment counter stays exact.                        *)
(***************************************************************************)
THEOREM CounterIsExactWithCart == CartSpec => []CounterMatches
BY CartFitsEnrollment, CounterIsExact DEF CartServiceFits

----------------------------------------------------------------------------
(***************************************************************************)
(* The inductive invariant: CartCountCoversItems counts what requests owe  *)
(* already; it needs only types and a cart that can be counted.            *)
(***************************************************************************)
CartInv ==
  /\ CartLocal
  /\ IsFiniteSet(cart)
  /\ CartCountCoversItems

\* What a step does to the cart, as far as the counter is concerned.
Shrinks == cart' \subseteq cart /\ UNCHANGED <<totalCarts, cartCall>>

LEMMA EnrollmentShrinks ==
  ASSUME EnrollmentStep
  PROVE  Shrinks
<1>1. UNCHANGED <<totalCarts, cartCall>>
  BY DEF EnrollmentStep, cartService
<1>2. ASSUME NEW r \in Requests, EnrollFree(r)
      PROVE  cart' \subseteq cart
  BY <1>2 DEF EnrollFree, StartFree, FreeReadCourse, FreeReadExisting, FreeInsert,
              FreeCount, cartVars
<1>3. ASSUME NEW r \in Requests, CheckoutCart(r)
      PROVE  cart' \subseteq cart
  BY <1>3 DEF CheckoutCart, StartCheckout, ReadCart, ReadCourses, TakeItem,
              ItemReadExisting, ItemDrop, ItemInsert, ItemCount, ItemUncart,
              FinishCheckout, DeleteItem, cartVars
<1>4. ASSUME NEW r \in Requests, RequestFails(r) \/ ItemFails(r)
      PROVE  cart' \subseteq cart
  BY <1>4 DEF RequestFails, ItemFails, cartVars
<1>5. ASSUME NEW c \in Courses,
             CourseStatusChanges(c) \/ CoursePriceChanges(c) \/ CourseIsDeleted(c)
      PROVE  cart' \subseteq cart
  BY <1>5 DEF CourseStatusChanges, CoursePriceChanges, CourseIsDeleted, cartVars
<1> QED BY <1>1, <1>2, <1>3, <1>4, <1>5 DEF EnrollmentStep, Serve, Shrinks

LEMMA SlotsFinite ==
  \A c : /\ IsFiniteSet(CountedAhead(c)) /\ Cardinality(CountedAhead(c)) \in Nat
         /\ IsFiniteSet(CountsBehind(c)) /\ Cardinality(CountsBehind(c)) \in Nat
BY CartRequestsFinite, FS_Subset, FS_CardinalityType DEF CountedAhead, CountsBehind

LEMMA ItemsFinite ==
  ASSUME IsFiniteSet(cart)
  PROVE  \A c : IsFiniteSet(ItemsOf(c)) /\ Cardinality(ItemsOf(c)) \in Nat
BY FS_Subset, FS_CardinalityType DEF ItemsOf

LEMMA ShrinksKeeps ==
  ASSUME CartInv, Shrinks
  PROVE  CartInv'
<1>1. CartLocal'
  BY DEF CartInv, Shrinks, CartLocal
<1>2. IsFiniteSet(cart')
  BY FS_Subset DEF CartInv, Shrinks
<1>3. ASSUME NEW c \in Courses
      PROVE  Cardinality(ItemsOf(c)') <= Cardinality(ItemsOf(c))
  <2>1. ItemsOf(c)' \subseteq ItemsOf(c)
    BY DEF Shrinks, ItemsOf
  <2> QED BY <2>1, ItemsFinite, FS_Subset DEF CartInv
<1>4. ASSUME NEW c \in Courses
      PROVE  Cardinality(ItemsOf(c)') \in Nat
  BY <1>2, FS_Subset, FS_CardinalityType DEF ItemsOf
<1>5. \A c \in Courses : CountedAhead(c)' = CountedAhead(c) /\ CountsBehind(c)' = CountsBehind(c)
  BY DEF Shrinks, CountedAhead, CountsBehind
<1>6. CartCountCoversItems'
  BY <1>3, <1>4, <1>5, SlotsFinite, ItemsFinite DEF CartInv, CartLocal, CartCountCoversItems, Shrinks
<1> QED BY <1>1, <1>2, <1>6 DEF CartInv
\* One more member of a finite set, or one less.
LEMMA CardOneMore ==
  ASSUME NEW S, IsFiniteSet(S), NEW x
  PROVE  /\ IsFiniteSet(S \cup {x})
         /\ Cardinality(S \cup {x}) <= Cardinality(S) + 1
         /\ x \notin S => Cardinality(S \cup {x}) = Cardinality(S) + 1
<1>1. Cardinality(S) \in Nat
  BY FS_CardinalityType
<1>2. CASE x \in S
  <2>1. S \cup {x} = S
    BY <1>2
  <2>2. IsFiniteSet(S \cup {x}) /\ Cardinality(S \cup {x}) = Cardinality(S)
    BY <2>1, Zenon
  <2> HIDE <2>1
  <2>3. Cardinality(S \cup {x}) <= Cardinality(S) + 1
    BY <1>1, <2>2
  <2> QED BY <1>2, <2>2, <2>3, Zenon
<1>3. CASE x \notin S
  BY <1>1, <1>3, FS_AddElement
<1> QED BY <1>2, <1>3

LEMMA CardOneLess ==
  ASSUME NEW S, IsFiniteSet(S), NEW x, x \in S
  PROVE  IsFiniteSet(S \ {x}) /\ Cardinality(S \ {x}) = Cardinality(S) - 1
BY FS_RemoveElement

\* Requests that stop, or move between calls that owe nothing.
LEMMA CartQuiet ==
  ASSUME CartInv, CartLocal', UNCHANGED <<totalCarts, cart>>,
         \A c \in Courses : /\ CountedAhead(c)' \subseteq CountedAhead(c)
                            /\ CountsBehind(c)' \subseteq CountsBehind(c)
  PROVE  CartInv'
<1>1. \A c \in Courses : ItemsOf(c)' = ItemsOf(c)
  BY DEF ItemsOf
<1>2. \A c \in Courses :
        /\ Cardinality(CountedAhead(c)') \in Nat
        /\ Cardinality(CountedAhead(c)') <= Cardinality(CountedAhead(c))
        /\ Cardinality(CountsBehind(c)') \in Nat
        /\ Cardinality(CountsBehind(c)') <= Cardinality(CountsBehind(c))
  BY SlotsFinite, FS_Subset, FS_CardinalityType
<1>3. CartCountCoversItems'
  BY <1>1, <1>2, SlotsFinite, ItemsFinite DEF CartInv, CartLocal, CartCountCoversItems
<1> QED BY <1>3 DEF CartInv

\* A request that stops or goes on to a call before which it owes nothing.
LEMMA CartMovesQuietly ==
  ASSUME CartInv, CartLocal', UNCHANGED <<totalCarts, cart>>, NEW q \in CartRequests,
         \/ CartAnswer(q)
         \/ \E call \in {"add.existing", "add.count"} : CartAwait(q, call)
  PROVE  CartInv'
<1>1. CASE CartAnswer(q)
  BY <1>1, CartQuiet DEF CartAnswer, IdleCall, CountedAhead, CountsBehind, CartInv, CartLocal
<1>2. ASSUME NEW call \in {"add.existing", "add.count"}, CartAwait(q, call)
      PROVE  CartInv'
  BY <1>2, CartQuiet DEF CartAwait, CountedAhead, CountsBehind, CartInv, CartLocal
<1> QED BY <1>1, <1>2

LEMMA AddCountKeeps ==
  ASSUME CartInv, CartLocal', NEW q \in CartRequests, AddCount(q)
  PROVE  CartInv'
<1>0. PICK d \in Courses : d = cartCall[q].course
  BY BusySlot DEF CartInv, AddCount
<1>1. cart' = cart
  BY DEF AddCount, vars, cartVars
<1>2. \A c \in Courses : ItemsOf(c)' = ItemsOf(c) /\ CountsBehind(c)' = CountsBehind(c)
  BY <1>1 DEF ItemsOf, CountsBehind, AddCount, CartAwait, CartInv, CartLocal
<1>3. \A c \in Courses \ {d} : CountedAhead(c)' = CountedAhead(c)
  BY <1>0 DEF CountedAhead, AddCount, CartAwait, CartInv, CartLocal
<1>4. CountedAhead(d)' = CountedAhead(d) \cup {q} /\ q \notin CountedAhead(d)
  BY <1>0 DEF CountedAhead, AddCount, CartAwait, CartInv, CartLocal
<1>5. Cardinality(CountedAhead(d)') = Cardinality(CountedAhead(d)) + 1
  BY <1>4, CardOneMore, SlotsFinite
<1>6. totalCarts' = [totalCarts EXCEPT ![d] = @ + 1]
  BY <1>0 DEF AddCount, Tally
<1>7. CartCountCoversItems'
  <2> SUFFICES ASSUME NEW c \in Courses
               PROVE  totalCarts'[c] >= Cardinality(ItemsOf(c)')
                        + Cardinality(CountedAhead(c)') + Cardinality(CountsBehind(c)')
    BY DEF CartCountCoversItems
  <2> QED BY <1>0, <1>1, <1>2, <1>3, <1>5, <1>6, SlotsFinite, ItemsFinite
          DEF CartInv, CartLocal, CartCountCoversItems
<1> QED BY <1>1, <1>7 DEF CartInv

LEMMA AddInsertKeeps ==
  ASSUME CartInv, CartLocal', NEW q \in CartRequests, AddInsert(q)
  PROVE  CartInv'
<1>0. PICK d \in Courses : d = cartCall[q].course
  BY BusySlot DEF CartInv, AddInsert
<1>1. totalCarts' = totalCarts
  BY DEF AddInsert
<1>2. \A c \in Courses : /\ CountsBehind(c)' = CountsBehind(c)
                         /\ c # d => CountedAhead(c)' = CountedAhead(c)
  BY <1>0 DEF CountedAhead, CountsBehind, AddInsert, CartAnswer, IdleCall, CartInv, CartLocal
<1>3. CountedAhead(d)' = CountedAhead(d) \ {q} /\ q \in CountedAhead(d)
  BY <1>0 DEF CountedAhead, AddInsert, CartAnswer, IdleCall, CartInv, CartLocal
<1>4. Cardinality(CountedAhead(d)') = Cardinality(CountedAhead(d)) - 1
  BY <1>3, CardOneLess, SlotsFinite
<1>5. PICK x : cart' \subseteq cart \cup {x} /\ \A c \in Courses :
                 /\ ItemsOf(c)' \subseteq ItemsOf(c) \cup {x}
                 /\ c # d => ItemsOf(c)' \subseteq ItemsOf(c)
  <2>1. CASE UNCHANGED vars
    BY <2>1 DEF vars, cartVars, ItemsOf
  <2>2. ASSUME NEW id \in ItemIds, ItemIsAdded(id, cartCall[q].student, d)
        PROVE  \E x : cart' \subseteq cart \cup {x} /\ \A c \in Courses :
                 /\ ItemsOf(c)' \subseteq ItemsOf(c) \cup {x}
                 /\ c # d => ItemsOf(c)' \subseteq ItemsOf(c)
    <3> WITNESS [id |-> id, student |-> cartCall[q].student, course |-> d]
    <3> QED BY <2>2 DEF ItemIsAdded, ItemsOf
  <2> QED BY <1>0, <2>1, <2>2 DEF AddInsert
<1>6. IsFiniteSet(cart')
  BY <1>5, FS_AddElement, FS_Subset DEF CartInv
<1>7. \A c \in Courses : /\ Cardinality(ItemsOf(c)') \in Nat
                         /\ Cardinality(ItemsOf(c)') <= Cardinality(ItemsOf(c)) + 1
                         /\ c # d => Cardinality(ItemsOf(c)') <= Cardinality(ItemsOf(c))
  <2> TAKE c \in Courses
  <2>1. IsFiniteSet(ItemsOf(c)) /\ Cardinality(ItemsOf(c)) \in Nat
    BY ItemsFinite DEF CartInv
  <2>2. /\ IsFiniteSet(ItemsOf(c) \cup {x})
        /\ Cardinality(ItemsOf(c) \cup {x}) <= Cardinality(ItemsOf(c)) + 1
    BY <2>1, CardOneMore
  <2>3. ItemsOf(c)' \subseteq ItemsOf(c) \cup {x}
    BY <1>5
  <2>4. /\ IsFiniteSet(ItemsOf(c)')
        /\ Cardinality(ItemsOf(c)') <= Cardinality(ItemsOf(c) \cup {x})
    BY <2>2, <2>3, FS_Subset
  <2>5. Cardinality(ItemsOf(c)') \in Nat /\ Cardinality(ItemsOf(c) \cup {x}) \in Nat
    BY <2>2, <2>4, FS_CardinalityType
  <2>6. c # d => Cardinality(ItemsOf(c)') <= Cardinality(ItemsOf(c))
    BY <1>5, <2>1, FS_Subset
  <2> QED BY <2>1, <2>2, <2>4, <2>5, <2>6
<1>8. CartCountCoversItems'
  <2> SUFFICES ASSUME NEW c \in Courses
               PROVE  totalCarts'[c] >= Cardinality(ItemsOf(c)')
                        + Cardinality(CountedAhead(c)') + Cardinality(CountsBehind(c)')
    BY DEF CartCountCoversItems
  <2> QED BY <1>0, <1>1, <1>2, <1>4, <1>7, SlotsFinite, ItemsFinite
          DEF CartInv, CartLocal, CartCountCoversItems
<1> QED BY <1>6, <1>8 DEF CartInv

LEMMA RemoveDeleteKeeps ==
  ASSUME CartInv, CartLocal', NEW q \in CartRequests, NEW i \in cart,
         i.course = cartCall[q].course, cartCall[q].pc = "remove.delete",
         ItemIsRemoved(i), CartAwait(q, "remove.count"), UNCHANGED totalCarts
  PROVE  CartInv'
<1>0. PICK d \in Courses : d = cartCall[q].course
  BY BusySlot DEF CartInv
<1>1. \A c \in Courses : /\ CountedAhead(c)' = CountedAhead(c)
                         /\ c # d => CountsBehind(c)' = CountsBehind(c)
                         /\ c # d => ItemsOf(c)' = ItemsOf(c)
  BY <1>0 DEF CountedAhead, CountsBehind, ItemsOf, ItemIsRemoved, CartAwait, CartInv, CartLocal
<1>2. CountsBehind(d)' = CountsBehind(d) \cup {q} /\ q \notin CountsBehind(d)
  BY <1>0 DEF CountsBehind, CartAwait, CartInv, CartLocal
<1>3. ItemsOf(d)' = ItemsOf(d) \ {i} /\ i \in ItemsOf(d)
  BY <1>0 DEF ItemsOf, ItemIsRemoved
<1>4. /\ Cardinality(CountsBehind(d)') = Cardinality(CountsBehind(d)) + 1
      /\ Cardinality(ItemsOf(d)') = Cardinality(ItemsOf(d)) - 1
  BY <1>2, <1>3, CardOneMore, CardOneLess, SlotsFinite, ItemsFinite DEF CartInv
<1>5. IsFiniteSet(cart')
  BY CardOneLess DEF CartInv, ItemIsRemoved
<1>6. CartCountCoversItems'
  <2> SUFFICES ASSUME NEW c \in Courses
               PROVE  totalCarts'[c] >= Cardinality(ItemsOf(c)')
                        + Cardinality(CountedAhead(c)') + Cardinality(CountsBehind(c)')
    BY DEF CartCountCoversItems
  <2> QED BY <1>0, <1>1, <1>4, SlotsFinite, ItemsFinite
          DEF CartInv, CartLocal, CartCountCoversItems
<1> QED BY <1>5, <1>6 DEF CartInv

LEMMA RemoveCountKeeps ==
  ASSUME CartInv, CartLocal', NEW q \in CartRequests, RemoveCount(q)
  PROVE  CartInv'
<1>0. PICK d \in Courses : d = cartCall[q].course
  BY BusySlot DEF CartInv, RemoveCount
<1>1. cart' = cart
  BY DEF RemoveCount, vars, cartVars
<1>2. \A c \in Courses : /\ ItemsOf(c)' = ItemsOf(c)
                         /\ CountedAhead(c)' = CountedAhead(c)
                         /\ c # d => CountsBehind(c)' = CountsBehind(c)
  BY <1>0, <1>1 DEF ItemsOf, CountedAhead, CountsBehind, RemoveCount, CartAnswer, IdleCall,
              CartInv, CartLocal
<1>3. CountsBehind(d)' = CountsBehind(d) \ {q} /\ q \in CountsBehind(d)
  BY <1>0 DEF CountsBehind, RemoveCount, CartAnswer, IdleCall, CartInv, CartLocal
<1>4. Cardinality(CountsBehind(d)') = Cardinality(CountsBehind(d)) - 1
  BY <1>3, CardOneLess, SlotsFinite
<1>5. totalCarts' = [totalCarts EXCEPT ![d] = @ + (-1)]
  BY <1>0 DEF RemoveCount, Tally
<1>6. CartCountCoversItems'
  <2> SUFFICES ASSUME NEW c \in Courses
               PROVE  totalCarts'[c] >= Cardinality(ItemsOf(c)')
                        + Cardinality(CountedAhead(c)') + Cardinality(CountsBehind(c)')
    BY DEF CartCountCoversItems
  <2> QED BY <1>0, <1>1, <1>2, <1>4, <1>5, SlotsFinite, ItemsFinite
          DEF CartInv, CartLocal, CartCountCoversItems
<1> QED BY <1>1, <1>6 DEF CartInv

LEMMA ServeCartKeeps ==
  ASSUME CartInv, CartLocal', NEW q \in CartRequests, ServeCart(q) \/ CartRequestFails(q)
  PROVE  CartInv'
<1>1. CASE CartRequestFails(q)
  BY <1>1, CartMovesQuietly DEF CartRequestFails, vars, cartVars
<1>2. ASSUME NEW s \in Students, NEW c \in Courses,
             NEW call \in {"add.course", "remove.delete"},
             StartCartCall(q, call, s, c)
      PROVE  CartInv'
  BY <1>2, CartQuiet DEF StartCartCall, vars, cartVars, CountedAhead, CountsBehind,
                         CartInv, CartLocal
<1>3. CASE AddReadCourse(q)
  BY <1>3, CartMovesQuietly DEF AddReadCourse, vars, cartVars
<1>4. CASE AddReadExisting(q)
  BY <1>4, CartMovesQuietly DEF AddReadExisting, vars, cartVars
<1>5. CASE AddCount(q)
  BY <1>5, AddCountKeeps
<1>6. CASE AddInsert(q)
  BY <1>6, AddInsertKeeps
<1>7. CASE RemoveDelete(q)
  <2>1. CASE CartAnswer(q) /\ UNCHANGED vars
    BY <1>7, <2>1, CartMovesQuietly DEF RemoveDelete, vars, cartVars
  <2>2. ASSUME NEW i \in ItemsOf(cartCall[q].course),
               ItemIsRemoved(i), CartAwait(q, "remove.count")
        PROVE  CartInv'
    BY <1>7, <2>2, RemoveDeleteKeeps DEF RemoveDelete, ItemsOf
  <2> QED BY <1>7, <2>1, <2>2 DEF RemoveDelete
<1>8. CASE RemoveCount(q)
  BY <1>8, RemoveCountKeeps
<1> QED BY <1>1, <1>2, <1>3, <1>4, <1>5, <1>6, <1>7, <1>8 DEF ServeCart

(***************************************************************************)
(* totalCarts never understates, whatever overlaps, fails or crashes.      *)
(***************************************************************************)
THEOREM CartCountCovers == CartSpec => []CartCountCoversItems
<1>1. CartInit => CartInv
  <2> SUFFICES ASSUME CartInit PROVE CartInv
    OBVIOUS
  <2>1. \A c : /\ ItemsOf(c) = {} /\ CountedAhead(c) = {} /\ CountsBehind(c) = {}
    BY DEF CartInit, Init, ItemsOf, CountedAhead, CountsBehind, IdleCall
  <2>2. CartCountCoversItems
    BY <2>1, FS_EmptySet DEF CartInit, CartCountCoversItems
  <2>3. IsFiniteSet(cart) /\ CartLocal
    BY FS_EmptySet DEF CartInit, Init, CartLocal, CartCall
  <2> QED BY <2>2, <2>3 DEF CartInv
<1>2. CartInv /\ CartLocal' /\ [CartNext]_allVars => CartInv'
  <2> SUFFICES ASSUME CartInv, CartLocal', [CartNext]_allVars PROVE CartInv'
    OBVIOUS
  <2>1. CASE EnrollmentStep
    BY <2>1, EnrollmentShrinks, ShrinksKeeps
  <2>2. CASE CrashBoth
    BY <2>2, CrashIdles, CartQuiet DEF CountedAhead, CountsBehind, IdleCall
  <2>3. ASSUME NEW q \in CartRequests, ServeCart(q) \/ CartRequestFails(q)
        PROVE  CartInv'
    BY <2>3, ServeCartKeeps
  <2>4. CASE UNCHANGED allVars
    <3>1. Shrinks
      BY <2>4 DEF allVars, vars, cartVars, cartService, Shrinks
    <3> QED BY <3>1, ShrinksKeeps
  <2> QED BY <2>1, <2>2, <2>3, <2>4 DEF CartNext
<1>3. CartInv => CartCountCoversItems
  BY DEF CartInv
<1> QED BY <1>1, <1>2, <1>3, LocalAlways, PTL DEF CartSpec
=============================================================================
