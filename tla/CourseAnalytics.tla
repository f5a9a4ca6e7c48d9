-------------------------- MODULE CourseAnalytics --------------------------
(***************************************************************************)
(* The reports of CourseAnalyticsService: on a course, on a tutor's        *)
(* courses, on the platform.                                               *)
(*                                                                         *)
(* A report is put together from separate queries.  Some are sent          *)
(* together and answered in any order, the others wait for those before    *)
(* them, and enrolments are stored while it is made; only the time it      *)
(* looks back from is fixed when it begins.                                *)
(*                                                                         *)
(* Checkout refuses courses with a price, so every enrolment is free: the  *)
(* sums of amountPaid, and the months of earnings made of them, are zero   *)
(* and left out.  So are the rating, wish list and cart figures and the    *)
(* lists that are answered as they are read.                               *)
(***************************************************************************)
EXTENDS Integers, FiniteSets, Functions

CONSTANTS
  Catalogue, Tutors,  \* courses, and who may own them
  Buyers,             \* students
  Week, Month,        \* 7 and 30 days, in units of the clock
  NoReport,           \* "no value"
  MaxTime             \* bounds the clock

ASSUME WindowsNested == Week \in Nat /\ Month \in Nat /\ Week <= Month
ASSUME MaxTimeNat == MaxTime \in Nat
ASSUME AnalyticsFinite == IsFiniteSet(Catalogue) /\ IsFiniteSet(Buyers)

VARIABLES
  owner,      \* the tutor of each course
  listing,    \* what a query finds of a course: nothing, a course, a published one
  enrolment,  \* when each student enrolled in each course, -1 for never
  time,       \* the clock
  asked,      \* the report being made, and the figures it has
  overtaken,  \* history: an enrolment or a course changed while it was made
  answer      \* the last report

analyticsVars == <<owner, listing, enrolment, time, asked, overtaken, answer>>

Never == -1
Enrolments == [Catalogue \X Buyers -> Never..MaxTime]
Exists(c) == listing[c] # "none"
CoursesOf(t) == {c \in Catalogue : Exists(c) /\ owner[c] = t}

\* countDocuments({ courseId, createdAt: { $gte: from, $lt: to } })
Enrolled(courses, from, to) ==
  Cardinality({p \in courses \X Buyers :
    enrolment[p] # Never /\ enrolment[p] >= from /\ enrolment[p] < to})

Ever == MaxTime + 1  \* later than everything
Students(courses) ==
  Cardinality({b \in Buyers : \E c \in courses : enrolment[<<c, b>>] # Never})

----------------------------------------------------------------------------
(***************************************************************************)
(* The figures of the three reports                                        *)
(***************************************************************************)

CourseFigures == {"all", "week", "month", "previous"}
PlatformFigures == {"courses", "published", "enrolments", "students", "recent"}
\* The id of a course is not the name of a figure.
ASSUME NamesOfFigures == Catalogue \cap (CourseFigures \cup PlatformFigures) = {}

Figures(r) ==
  CASE r.kind = "course" -> CourseFigures
    [] r.kind = "tutor" -> r.courses \cup {"students"}
    [] r.kind = "platform" -> PlatformFigures

\* The figures that are answered before a figure is asked for.
After(r, f) ==
  CASE f = "previous" -> {"all", "week", "month"}
    [] r.kind = "tutor" /\ f = "students" -> r.courses
    [] f = "recent" -> PlatformFigures \ {"recent"}
    [] OTHER -> {}

\* Faulty variant: the previous month has no end.
CourseFigure_Open(r, f) ==
  CASE f = "all" -> Enrolled(r.courses, 0, Ever)
    [] f = "week" -> Enrolled(r.courses, r.since - Week, Ever)
    [] f = "month" -> Enrolled(r.courses, r.since - Month, Ever)
    [] f = "previous" -> Enrolled(r.courses, r.since - 2 * Month, Ever)

CourseFigure(r, f) ==
  CASE f = "all" -> Enrolled(r.courses, 0, Ever)
    [] f = "week" -> Enrolled(r.courses, r.since - Week, Ever)
    [] f = "month" -> Enrolled(r.courses, r.since - Month, Ever)
    [] f = "previous" -> Enrolled(r.courses, r.since - 2 * Month, r.since - Month)

TutorFigure(r, f) ==
  IF f = "students" THEN Students(r.courses) ELSE Enrolled({f}, 0, Ever)

PlatformFigure(r, f) ==
  CASE f = "courses" -> Cardinality({c \in Catalogue : Exists(c)})
    [] f = "published" -> Cardinality({c \in Catalogue : listing[c] = "published"})
    [] f = "enrolments" -> Enrolled(Catalogue, 0, Ever)
    [] f = "students" -> Students(Catalogue)
    [] f = "recent" -> Enrolled(Catalogue, r.since - Month, Ever)

FigureOf(r, f) ==
  CASE r.kind = "course" -> CourseFigure(r, f)
    [] r.kind = "tutor" -> TutorFigure(r, f)
    [] r.kind = "platform" -> PlatformFigure(r, f)

\* calculateTrend: more than a tenth up or down on the month before.
Trend(current, previous) ==
  CASE previous = 0 -> IF current > 0 THEN "up" ELSE "stable"
    [] previous > 0 /\ 10 * (current - previous) > previous -> "up"
    [] previous > 0 /\ 10 * (previous - current) > previous -> "down"
    [] OTHER -> "stable"

----------------------------------------------------------------------------
NoFigures == [f \in {} |-> 0]
NewReport(kind, courses) == [kind |-> kind, courses |-> courses, since |-> time,
                          got |-> NoFigures]

AnalyticsTypeOK ==
  /\ owner \in [Catalogue -> Tutors]
  /\ listing \in [Catalogue -> {"none", "draft", "published"}]
  /\ enrolment \in Enrolments
  /\ time \in 0..MaxTime /\ overtaken \in BOOLEAN
  /\ \A r \in {asked, answer} \ {NoReport} :
       /\ r.kind \in {"course", "tutor", "platform"}
       /\ r.courses \subseteq Catalogue /\ r.since \in 0..MaxTime
       /\ DOMAIN r.got \subseteq Figures(r)
       /\ \A f \in DOMAIN r.got : r.got[f] \in Nat

AnalyticsInit ==
  /\ owner \in [Catalogue -> Tutors]
  /\ listing = [c \in Catalogue |-> "draft"]
  /\ enrolment = [p \in Catalogue \X Buyers |-> Never]
  /\ time = 0
  /\ asked = NoReport /\ overtaken = FALSE /\ answer = NoReport

\* GET analytics/...: a course or a tutor's courses that are not found are
\* answered at once.
AskReport(kind, courses) ==
  /\ asked = NoReport
  /\ asked' = NewReport(kind, courses)
  /\ overtaken' = FALSE /\ answer' = NoReport
  /\ UNCHANGED <<owner, listing, enrolment, time>>

AskCourseReport(c) == Exists(c) /\ AskReport("course", {c})
AskTutorReport(t) == CoursesOf(t) # {} /\ AskReport("tutor", CoursesOf(t))
AskPlatformReport == AskReport("platform", {})

ReadFigure(f) ==
  /\ asked # NoReport
  /\ f \in Figures(asked) \ DOMAIN asked.got
  /\ After(asked, f) \subseteq DOMAIN asked.got
  /\ LET known == DOMAIN asked.got \cup {f}
         r == [asked EXCEPT !.got =
                [g \in known |-> IF g = f THEN FigureOf(asked, f) ELSE asked.got[g]]]
     IN  IF known = Figures(asked)
           THEN asked' = NoReport /\ answer' = r
           ELSE asked' = r /\ UNCHANGED answer
  /\ UNCHANGED <<owner, listing, enrolment, time, overtaken>>

\* A query fails, or the process stops.
ReportFails ==
  /\ asked # NoReport
  /\ asked' = NoReport
  /\ UNCHANGED <<owner, listing, enrolment, time, overtaken, answer>>

----------------------------------------------------------------------------
(***************************************************************************)
(* The clock, and the services the reports are about                       *)
(***************************************************************************)

Overtakes == overtaken' = (overtaken \/ asked # NoReport)

StudentEnrols(c, b) ==
  /\ listing[c] = "published" /\ enrolment[<<c, b>>] = Never
  /\ enrolment' = [enrolment EXCEPT ![<<c, b>>] = time]
  /\ Overtakes
  /\ UNCHANGED <<owner, listing, time, asked, answer>>

\* Reviews, publications and deletions; a deleted course does not come back.
ListingChanges(c, l) ==
  /\ Exists(c) /\ l # listing[c]
  /\ listing' = [listing EXCEPT ![c] = l]
  /\ Overtakes
  /\ UNCHANGED <<owner, enrolment, time, asked, answer>>

TimePasses ==
  /\ time < MaxTime
  /\ time' = time + 1
  /\ UNCHANGED <<owner, listing, enrolment, asked, overtaken, answer>>

AnalyticsNext ==
  \/ \E c \in Catalogue : AskCourseReport(c)
  \/ \E t \in Tutors : AskTutorReport(t)
  \/ AskPlatformReport
  \/ \E f \in CourseFigures \cup Catalogue \cup PlatformFigures : ReadFigure(f)
  \/ ReportFails
  \/ \E c \in Catalogue, b \in Buyers : StudentEnrols(c, b)
  \/ \E c \in Catalogue, l \in {"none", "draft", "published"} : ListingChanges(c, l)
  \/ TimePasses

AnalyticsSpec == AnalyticsInit /\ [][AnalyticsNext]_analyticsVars

----------------------------------------------------------------------------
\* What a report says about the same enrolments agrees.  On a course, the
\* week is part of the month, the month and the one before are part of all,
\* so returningStudents, their difference, is never negative; and a trend goes
\* where the months go.  On a tutor or the platform there are no more students
\* than enrolments, and no more published or recent than there are.  A report
\* may say otherwise only if an enrolment or a course changed between two of
\* its queries.
AddsUp(r) ==
  LET got == r.got
  IN  CASE r.kind = "course" ->
             /\ got["week"] <= got["month"]
             /\ got["previous"] <= got["all"] - got["month"]
             /\ Trend(got["month"], got["previous"]) = "up" => got["month"] > got["previous"]
             /\ Trend(got["month"], got["previous"]) = "down" => got["month"] < got["previous"]
        [] r.kind = "tutor" ->
             got["students"] <= SumFunctionOnSet(got, r.courses)
        [] r.kind = "platform" ->
             /\ got["published"] <= got["courses"]
             /\ got["recent"] <= got["enrolments"]
             /\ got["students"] <= got["enrolments"]

ReportsAddUpUnlessOvertaken ==
  answer # NoReport /\ ~AddsUp(answer) => overtaken
=============================================================================
