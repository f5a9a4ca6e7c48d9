---------------------------- MODULE SavedCourses ----------------------------
(***************************************************************************)
(* The wish list of StudentSavedCoursesService, and the listeners of the   *)
(* event STUDENT_ENROLLED, which both the enrolment and the wish list      *)
(* emit.  Enrolment appears as EnrollmentLedger, the abstract              *)
(* specification that StudentEnrollment implements.                        *)
(*                                                                         *)
(* emit runs both listeners in the emitter's own stretch of code; each     *)
(* starts an insertion (ten points, a notice) and drops the promise.  So   *)
(* the records appear later, in any order, and a rejection is nobody's:    *)
(* Node stops the process on it, as a crash would.                         *)
(***************************************************************************)
EXTENDS EnrollmentLedger, Integers, FiniteSets

CONSTANTS
  SaveRequests,  \* slots for wish list requests in flight
  None,          \* "no value"
  MaxSaves,      \* bounds the requests to put a course on a wish list
  MaxFaults      \* bounds failed requests and stops of the process together

ASSUME SaveRequestsFinite == IsFiniteSet(SaveRequests)
ASSUME BoundsNat == MaxSaves \in Nat /\ MaxFaults \in Nat
ASSUME NoneOutside == None \notin Pairs

VARIABLES
  deleted,         \* soft-deleted courses
  saved,           \* the saved-course collection
  totalWishlists,  \* Course.totalWishlists
  saveCall,        \* each slot: the call it awaits, for which pair
  unraised,        \* history: insertions whose $inc was lost, per course
  unlowered,       \* history: deletions whose $inc was lost, per course
  everSaved,       \* history: pairs ever put on a wish list
  awarding, points,   \* PointsRecords being inserted, and inserted, per pair
  noticing, notices,  \* notifications likewise
  saves, faults    \* what has been used of the bounds

ledgerVars   == <<stage, tally>>
wishVars     == <<saved, totalWishlists, unraised, unlowered, everSaved>>
listenerVars == <<awarding, points, noticing, notices>>
bounds       == <<saves, faults>>
allVars == <<ledgerVars, deleted, wishVars, saveCall, listenerVars, bounds>>

IdleCall == [pc |-> "idle", pair |-> None]

SaveCallNames == {"add.course", "add.existing", "add.insert", "add.count",
                  "remove.course", "remove.delete", "remove.count"}

SaveCall == {IdleCall} \cup [pc: SaveCallNames, pair: Pairs]

PerPair == [Pairs -> Nat]

SavedTypeOK ==
  /\ LedgerTypeOK
  /\ deleted \in SUBSET Courses
  /\ saved \in SUBSET Pairs
  /\ totalWishlists \in [Courses -> Int]
  /\ saveCall \in [SaveRequests -> SaveCall]
  /\ unraised \in [Courses -> Nat] /\ unlowered \in [Courses -> Nat]
  /\ everSaved \in SUBSET Pairs
  /\ awarding \in PerPair /\ points \in PerPair
  /\ noticing \in PerPair /\ notices \in PerPair
  /\ saves \in 0..MaxSaves /\ faults \in 0..MaxFaults

ZeroPerCourse == [c \in Courses |-> 0]
ZeroPerPair == [p \in Pairs |-> 0]
NoCalls == [q \in SaveRequests |-> IdleCall]

SavedInit ==
  /\ Init
  /\ deleted = {} /\ saved = {} /\ everSaved = {}
  /\ totalWishlists = ZeroPerCourse
  /\ saveCall = NoCalls
  /\ unraised = ZeroPerCourse /\ unlowered = ZeroPerCourse
  /\ awarding = ZeroPerPair /\ points = ZeroPerPair
  /\ noticing = ZeroPerPair /\ notices = ZeroPerPair
  /\ saves = 0 /\ faults = 0

----------------------------------------------------------------------------
Plus(f, x, n) == [f EXCEPT ![x] = @ + n]

SaveAwait(q, call) == saveCall' = [saveCall EXCEPT ![q].pc = call]

SaveAnswer(q) == saveCall' = [saveCall EXCEPT ![q] = IdleCall]

CourseOf(q) == saveCall[q].pair[2]

\* Faulty variant: nobody listens for the points.
EmitStudentEnrolled_NoticeOnly(p) ==
  /\ noticing' = Plus(noticing, p, 1)
  /\ UNCHANGED <<awarding, points, notices>>

\* STUDENT_ENROLLED: both listeners start their insertion.
EmitStudentEnrolled(p) ==
  /\ awarding' = Plus(awarding, p, 1)
  /\ noticing' = Plus(noticing, p, 1)
  /\ UNCHANGED <<points, notices>>

----------------------------------------------------------------------------
(***************************************************************************)
(* POST student/saved-courses/:id/add.  The closing find of both handlers  *)
(* only fills the answer.                                                  *)
(***************************************************************************)

StartSaveCall(q, call, p) ==
  /\ saveCall[q].pc = "idle"
  /\ IF call = "add.course" THEN saves < MaxSaves /\ saves' = saves + 1
                            ELSE UNCHANGED saves
  /\ saveCall' = [saveCall EXCEPT ![q] = [pc |-> call, pair |-> p]]
  /\ UNCHANGED <<ledgerVars, deleted, wishVars, listenerVars, faults>>

\* Any live course can be saved, published or not.
ReadCourse(q) ==
  /\ \/ /\ saveCall[q].pc \in {"add.course", "remove.course"}
        /\ CourseOf(q) \in deleted
        /\ SaveAnswer(q)
     \/ /\ saveCall[q].pc = "add.course"
        /\ CourseOf(q) \notin deleted
        /\ SaveAwait(q, "add.existing")
     \/ /\ saveCall[q].pc = "remove.course"
        /\ CourseOf(q) \notin deleted
        /\ SaveAwait(q, "remove.delete")
  /\ UNCHANGED <<ledgerVars, deleted, wishVars, listenerVars, bounds>>

AddReadExisting(q) ==
  /\ saveCall[q].pc = "add.existing"
  /\ IF saveCall[q].pair \in saved THEN SaveAnswer(q) ELSE SaveAwait(q, "add.insert")
  /\ UNCHANGED <<ledgerVars, deleted, wishVars, listenerVars, bounds>>

\* Faulty variant: no unique index behind the lookup.
AddInsert_NoIndex(q) ==
  /\ saveCall[q].pc = "add.insert"
  /\ saved' = saved \cup {saveCall[q].pair}
  /\ everSaved' = everSaved \cup {saveCall[q].pair}
  /\ SaveAwait(q, "add.count")
  /\ UNCHANGED <<ledgerVars, deleted, totalWishlists, unraised, unlowered,
                 listenerVars, bounds>>

\* The unique index on (studentId, courseId) refuses a duplicate.
AddInsert(q) ==
  /\ saveCall[q].pc = "add.insert"
  /\ \/ /\ saveCall[q].pair \in saved
        /\ SaveAnswer(q)
        /\ UNCHANGED <<saved, everSaved>>
     \/ /\ saveCall[q].pair \notin saved
        /\ saved' = saved \cup {saveCall[q].pair}
        /\ everSaved' = everSaved \cup {saveCall[q].pair}
        /\ SaveAwait(q, "add.count")
  /\ UNCHANGED <<ledgerVars, deleted, totalWishlists, unraised, unlowered,
                 listenerVars, bounds>>

\* The count, then the event.
AddCount(q) ==
  /\ saveCall[q].pc = "add.count"
  /\ totalWishlists' = Plus(totalWishlists, CourseOf(q), 1)
  /\ EmitStudentEnrolled(saveCall[q].pair)
  /\ SaveAnswer(q)
  /\ UNCHANGED <<ledgerVars, deleted, saved, unraised, unlowered, everSaved,
                 bounds>>

(***************************************************************************)
(* DELETE student/saved-courses/:id/:courseId                              *)
(***************************************************************************)

RemoveDelete(q) ==
  /\ saveCall[q].pc = "remove.delete"
  /\ IF saveCall[q].pair \in saved THEN SaveAwait(q, "remove.count") ELSE SaveAnswer(q)
  /\ saved' = saved \ {saveCall[q].pair}
  /\ UNCHANGED <<ledgerVars, deleted, totalWishlists, unraised, unlowered, everSaved,
                 listenerVars, bounds>>

RemoveCount(q) ==
  /\ saveCall[q].pc = "remove.count"
  /\ totalWishlists' = Plus(totalWishlists, CourseOf(q), -1)
  /\ SaveAnswer(q)
  /\ UNCHANGED <<ledgerVars, deleted, saved, unraised, unlowered, everSaved,
                 listenerVars, bounds>>

----------------------------------------------------------------------------
(***************************************************************************)
(* The enrolment service and the listeners                                 *)
(***************************************************************************)

EnrollmentStep(s, c) ==
  /\ Store(s, c) \/ Count(s, c) \/ Tell(s, c)
  /\ IF stage'[<<s, c>>] = "announced" THEN EmitStudentEnrolled(<<s, c>>)
                                       ELSE UNCHANGED listenerVars
  /\ UNCHANGED <<deleted, wishVars, saveCall, bounds>>

\* Faulty variant: the insertion is sent again after it was done.
AwardPoints_Resent(p) ==
  /\ awarding[p] > 0
  /\ points' = Plus(points, p, 1)
  /\ points[p] < 2
  /\ UNCHANGED <<ledgerVars, deleted, wishVars, saveCall, awarding, noticing, notices,
                 bounds>>

AwardPoints(p) ==
  /\ awarding[p] > 0
  /\ awarding' = Plus(awarding, p, -1)
  /\ points' = Plus(points, p, 1)
  /\ UNCHANGED <<ledgerVars, deleted, wishVars, saveCall, noticing, notices, bounds>>

CreateNotification(p) ==
  /\ noticing[p] > 0
  /\ noticing' = Plus(noticing, p, -1)
  /\ notices' = Plus(notices, p, 1)
  /\ UNCHANGED <<ledgerVars, deleted, wishVars, saveCall, awarding, points, bounds>>

----------------------------------------------------------------------------
(***************************************************************************)
(* Faults and the other services                                           *)
(***************************************************************************)

Awaiting(q, call, c) == saveCall[q].pc = call /\ CourseOf(q) = c

Raising(c) == {q \in SaveRequests : Awaiting(q, "add.count", c)}
Lowering(c) == {q \in SaveRequests : Awaiting(q, "remove.count", c)}

\* The awaited call rejects without having been applied.
SaveRequestFails(q) ==
  /\ faults < MaxFaults
  /\ faults' = faults + 1
  /\ saveCall[q].pc # "idle"
  /\ unraised' = [c \in Courses |->
                    unraised[c] + IF q \in Raising(c) THEN 1 ELSE 0]
  /\ unlowered' = [c \in Courses |->
                     unlowered[c] + IF q \in Lowering(c) THEN 1 ELSE 0]
  /\ SaveAnswer(q)
  /\ UNCHANGED <<ledgerVars, deleted, saved, totalWishlists, everSaved,
                 listenerVars, saves>>

\* The process stops, by a crash or because a listener's insertion failed:
\* requests in flight and insertions not yet applied are gone.
ProcessStops ==
  /\ faults < MaxFaults
  /\ faults' = faults + 1
  /\ unraised' = [c \in Courses |-> unraised[c] + Cardinality(Raising(c))]
  /\ unlowered' = [c \in Courses |-> unlowered[c] + Cardinality(Lowering(c))]
  /\ saveCall' = NoCalls
  /\ awarding' = ZeroPerPair /\ noticing' = ZeroPerPair
  /\ UNCHANGED <<ledgerVars, deleted, saved, totalWishlists, everSaved,
                 points, notices, saves>>

CourseIsDeleted(c) ==
  /\ c \notin deleted
  /\ deleted' = deleted \cup {c}
  /\ UNCHANGED <<ledgerVars, wishVars, saveCall, listenerVars, bounds>>

ServeSave(q) ==
  \/ \E p \in Pairs, call \in {"add.course", "remove.course"} : StartSaveCall(q, call, p)
  \/ ReadCourse(q)
  \/ AddReadExisting(q)
  \/ AddInsert(q)
  \/ AddCount(q)
  \/ RemoveDelete(q)
  \/ RemoveCount(q)

Listen(p) == AwardPoints(p) \/ CreateNotification(p)

SavedNext ==
  \/ \E q \in SaveRequests : ServeSave(q) \/ SaveRequestFails(q)
  \/ \E s \in Students, c \in Courses : EnrollmentStep(s, c)
  \/ \E p \in Pairs : Listen(p)
  \/ ProcessStops
  \/ \E c \in Courses : CourseIsDeleted(c)

SavedSpec == SavedInit /\ [][SavedNext]_allVars

\* The driver settles every insertion the listeners have started.
SavedFairSpec ==
  /\ SavedSpec
  /\ \A p \in Pairs : WF_allVars(AwardPoints(p)) /\ WF_allVars(CreateNotification(p))

----------------------------------------------------------------------------
(***************************************************************************)
(* Properties                                                              *)
(***************************************************************************)

\* The wish list counter is conserved: with the increments and decrements
\* that are on their way or were lost to a fault, it is the number of students
\* who saved the course, although a removal may overtake the count of the
\* addition it undoes.  (The state has its types.)
WishlistConserved ==
  /\ SavedTypeOK
  /\ \A c \in Courses :
       totalWishlists[c] + Cardinality(Raising(c)) + unraised[c]
         = Cardinality({p \in saved : p[2] = c}) + Cardinality(Lowering(c)) + unlowered[c]

\* A student who never put a course on the wish list gets ten points and one
\* notice for it at most once, and only for an enrolment that is stored,
\* counted and announced, however the listeners' insertions are delayed.
RewardedOnceForEnrolment ==
  \A p \in Pairs \ everSaved :
    /\ awarding[p] + points[p] <= 1
    /\ noticing[p] + notices[p] <= 1
    /\ points[p] + notices[p] > 0 => stage[p] = "announced"

\* Every announced enrolment is rewarded and noticed, unless the process
\* stopped in between.
AnnouncedIsRewarded ==
  \A p \in Pairs :
    stage[p] = "announced" ~> (points[p] > 0 /\ notices[p] > 0) \/ faults > 0
=============================================================================
