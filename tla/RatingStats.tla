---------------------------- MODULE RatingStats ----------------------------
(***************************************************************************)
(* The ratings of one course, and the statistics kept on its document.     *)
(*                                                                         *)
(* Every mutation stores its rating, then reads all ratings of the course, *)
(* then writes the count and the rounded average it computed from them.    *)
(* The three are separate calls, so another request may store a rating     *)
(* between the reading and the writing of the statistics.                  *)
(*                                                                         *)
(* The feedback text is left out.                                          *)
(***************************************************************************)
EXTENDS Integers, FiniteSets, Functions

CONSTANTS
  RatingCalls,     \* slots for requests in flight
  Raters,          \* students
  Scores,          \* ratings they may give
  MaxRatingCalls,  \* bounds the requests of a behaviour
  MaxRatingFaults  \* bounds failed calls and stops of the process

ASSUME ScoresInRange == Scores \subseteq 1..5
ASSUME RatingBounds == MaxRatingCalls \in Nat /\ MaxRatingFaults \in Nat
ASSUME RatersFinite == IsFiniteSet(Raters)

VARIABLES
  rateable,    \* the course document exists
  enrolled,    \* students with an enrolment in the course
  rating,      \* the rating of each student, 0 for none
  stats,       \* totalReviews, and averageRating in hundredths
  ratingCall,  \* each slot: the call it awaits, and its locals
  astray,      \* history: the last statistics came from an old list, or a
               \* request ended between storing its rating and writing them
  ratingCalls, ratingFaults  \* what has been used of the bounds

ratingVars == <<rateable, enrolled, rating, stats, ratingCall, astray, ratingCalls,
                ratingFaults>>

IdleRating == [pc |-> "idle", op |-> "none", who |-> "nobody", score |-> 0,
               list |-> <<>>, late |-> FALSE]

RatingNames == {"course", "enrolment", "existing", "store", "stats.read", "stats.write"}

Rated(r) == {s \in DOMAIN r : r[s] # 0}

\* The count, and Math.round(average * 100) as hundredths: a half rounds up.
StatsOf(r) ==
  LET n == Cardinality(Rated(r))
      sum == SumFunctionOnSet(r, Rated(r))
  IN  [reviews |-> n, average |-> IF n = 0 THEN 0 ELSE (200 * sum + n) \div (2 * n)]

RatingTypeOK ==
  /\ rateable \in BOOLEAN /\ astray \in BOOLEAN
  /\ enrolled \in SUBSET Raters
  /\ rating \in [Raters -> {0} \cup Scores]
  /\ stats \in [reviews: 0..Cardinality(Raters), average: {0} \cup 100..500]
  /\ \A q \in RatingCalls :
       \/ ratingCall[q] = IdleRating
       \/ /\ ratingCall[q].pc \in RatingNames
          /\ ratingCall[q].op \in {"create", "update", "remove"}
          /\ ratingCall[q].who \in Raters
          /\ ratingCall[q].score \in {0} \cup Scores
          /\ ratingCall[q].list = <<>> \/ ratingCall[q].list \in [Raters -> {0} \cup Scores]
          /\ ratingCall[q].late \in BOOLEAN
  /\ ratingCalls \in 0..MaxRatingCalls /\ ratingFaults \in 0..MaxRatingFaults

RatingInit ==
  /\ rateable = TRUE /\ enrolled = {}
  /\ rating = [s \in Raters |-> 0]
  /\ stats = [reviews |-> 0, average |-> 0]
  /\ ratingCall = [q \in RatingCalls |-> IdleRating]
  /\ astray = FALSE /\ ratingCalls = 0 /\ ratingFaults = 0

----------------------------------------------------------------------------
RatingAt(q, name) == ratingCall[q].pc = name
RatingAwaits(q, name) == ratingCall' = [ratingCall EXCEPT ![q].pc = name]
RatingEnds(q) == ratingCall' = [ratingCall EXCEPT ![q] = IdleRating]
RatingBoundsKept == UNCHANGED <<ratingCalls, ratingFaults>>

\* POST, PUT and DELETE courses/:id/rate, of a score in range; 0 is an update
\* that leaves the rating out.
StartRating(q, op, s, score) ==
  /\ RatingAt(q, "idle") /\ ratingCalls < MaxRatingCalls
  /\ op = "create" => score # 0
  /\ op = "remove" => score = 0
  /\ ratingCalls' = ratingCalls + 1
  /\ ratingCall' = [ratingCall EXCEPT ![q] =
       [IdleRating EXCEPT !.op = op, !.who = s, !.score = score,
                          !.pc = IF op = "remove" THEN "store" ELSE "course"]]
  /\ UNCHANGED <<rateable, enrolled, rating, stats, astray, ratingFaults>>

RatingCourse(q) ==
  /\ RatingAt(q, "course")
  /\ IF ~rateable THEN RatingEnds(q)
     ELSE RatingAwaits(q, IF ratingCall[q].op = "create" THEN "enrolment" ELSE "store")
  /\ RatingBoundsKept /\ UNCHANGED <<rateable, enrolled, rating, stats, astray>>

RatingEnrolment(q) ==
  /\ RatingAt(q, "enrolment")
  /\ IF ratingCall[q].who \in enrolled THEN RatingAwaits(q, "existing") ELSE RatingEnds(q)
  /\ RatingBoundsKept /\ UNCHANGED <<rateable, enrolled, rating, stats, astray>>

RatingExisting(q) ==
  /\ RatingAt(q, "existing")
  /\ IF rating[ratingCall[q].who] = 0 THEN RatingAwaits(q, "store") ELSE RatingEnds(q)
  /\ RatingBoundsKept /\ UNCHANGED <<rateable, enrolled, rating, stats, astray>>

\* The rating a call leaves its student with; a call that finds nothing to
\* change, or for a creation the other's document under the unique index, fails.
Leaves(c) == CASE c.op = "remove" -> 0
               [] c.op = "update" /\ c.score = 0 -> rating[c.who]
               [] OTHER -> c.score

\* Faulty variant: a removal leaves the statistics alone.
RatingStore_RemovalEnds(q) ==
  /\ RatingAt(q, "store")
  /\ LET c == ratingCall[q]
     IN  IF (c.op = "create") = (rating[c.who] = 0)
           THEN /\ rating' = [rating EXCEPT ![c.who] = Leaves(c)]
                /\ ratingCall' = [p \in RatingCalls |->
                     IF p = q
                       THEN IF c.op = "remove" THEN IdleRating
                            ELSE [c EXCEPT !.pc = "stats.read"]
                     ELSE [ratingCall[p] EXCEPT !.late =
                             @ \/ (RatingAt(p, "stats.write") /\ rating' # rating)]]
           ELSE RatingEnds(q) /\ UNCHANGED rating
  /\ RatingBoundsKept /\ UNCHANGED <<rateable, enrolled, stats, astray>>

RatingStore(q) ==
  /\ RatingAt(q, "store")
  /\ LET c == ratingCall[q]
     IN  IF (c.op = "create") = (rating[c.who] = 0)
           THEN /\ rating' = [rating EXCEPT ![c.who] = Leaves(c)]
                /\ ratingCall' = [p \in RatingCalls |->
                     IF p = q THEN [c EXCEPT !.pc = "stats.read"]
                     ELSE [ratingCall[p] EXCEPT !.late =
                             @ \/ (RatingAt(p, "stats.write") /\ rating' # rating)]]
           ELSE RatingEnds(q) /\ UNCHANGED rating
  /\ RatingBoundsKept /\ UNCHANGED <<rateable, enrolled, stats, astray>>

StatsRead(q) ==
  /\ RatingAt(q, "stats.read")
  /\ ratingCall' = [ratingCall EXCEPT ![q].pc = "stats.write", ![q].list = rating]
  /\ RatingBoundsKept /\ UNCHANGED <<rateable, enrolled, rating, stats, astray>>

StatsWrite(q) ==
  /\ RatingAt(q, "stats.write")
  /\ IF rateable
       THEN /\ stats' = StatsOf(ratingCall[q].list)
            /\ astray' = ratingCall[q].late
       ELSE UNCHANGED <<stats, astray>>
  /\ RatingEnds(q)
  /\ RatingBoundsKept /\ UNCHANGED <<rateable, enrolled, rating>>

----------------------------------------------------------------------------
(***************************************************************************)
(* The course and the enrolments belong to other services.                 *)
(***************************************************************************)

Enrols(s) ==
  /\ s \notin enrolled /\ rateable
  /\ enrolled' = enrolled \cup {s}
  /\ UNCHANGED <<rateable, rating, stats, ratingCall, astray, ratingCalls, ratingFaults>>

\* The ratings stay.  A deletion can miss an enrolment that is under way, so
\* nothing is concluded from its test for enrolments.
CourseDeleted ==
  /\ rateable
  /\ rateable' = FALSE
  /\ UNCHANGED <<enrolled, rating, stats, ratingCall, astray, ratingCalls, ratingFaults>>

\* A call of the database fails, or the process stops.
Unfinished(q) == ratingCall[q].pc \in {"stats.read", "stats.write"}

RatingCallFails(q) ==
  /\ ~RatingAt(q, "idle") /\ ratingFaults < MaxRatingFaults
  /\ ratingFaults' = ratingFaults + 1
  /\ astray' = (astray \/ Unfinished(q))
  /\ RatingEnds(q)
  /\ UNCHANGED <<rateable, enrolled, rating, stats, ratingCalls>>

RatingProcessStops ==
  /\ ratingFaults < MaxRatingFaults
  /\ ratingFaults' = ratingFaults + 1
  /\ astray' = (astray \/ \E q \in RatingCalls : Unfinished(q))
  /\ ratingCall' = [q \in RatingCalls |-> IdleRating]
  /\ UNCHANGED <<rateable, enrolled, rating, stats, ratingCalls>>

RatingNext ==
  \/ \E q \in RatingCalls :
       \/ \E op \in {"create", "update", "remove"}, s \in Raters, score \in {0} \cup Scores :
            StartRating(q, op, s, score)
       \/ RatingCourse(q) \/ RatingEnrolment(q) \/ RatingExisting(q)
       \/ RatingStore(q) \/ StatsRead(q) \/ StatsWrite(q) \/ RatingCallFails(q)
  \/ \E s \in Raters : Enrols(s)
  \/ CourseDeleted \/ RatingProcessStops

RatingSpec == RatingInit /\ [][RatingNext]_ratingVars

----------------------------------------------------------------------------
\* updateCourseStats: the course shows the count and the average of its
\* ratings, unless a request that changed one has still to write them, the
\* last writer had read its list before another's change, or a request ended
\* in between.  Only the next rating repairs the last two.
RatingStatsOffOnlyByRace ==
  rateable /\ stats # StatsOf(rating) =>
    astray \/ \E q \in RatingCalls : Unfinished(q)
=============================================================================
