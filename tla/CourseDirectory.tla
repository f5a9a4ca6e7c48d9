-------------------------- MODULE CourseDirectory --------------------------
(***************************************************************************)
(* The public directory of CourseDiscoveryService: a visitor pages through *)
(* the courses that match a search, while courses change.                  *)
(*                                                                         *)
(* Every page is a query of its own, sorted by one field: courses with the *)
(* same value come in any order, and in another for the next page.  The    *)
(* total is a second query, sent with the first.                           *)
(*                                                                         *)
(* A course is found by a search when it is published and passes the       *)
(* filters.  Views are counted by the database and never sorted by: they   *)
(* are left out, as are the reads that answer one list.                    *)
(***************************************************************************)
EXTENDS Integers, FiniteSets

CONSTANTS
  Shown,         \* courses
  SortKeys,      \* values of the field a search sorts by
  Limits,        \* page sizes a visitor may ask for; 0 for none
  DefaultLimit, MaxLimit,  \* 20 and 50
  NoWalk         \* "no value"

ASSUME LimitsPositive ==
  /\ Limits \subseteq Nat
  /\ DefaultLimit \in Nat \ {0} /\ MaxLimit \in Nat \ {0}
ASSUME ShownFinite == IsFiniteSet(Shown)
ASSUME KeysAreNumbers == SortKeys \subseteq Nat /\ 0 \in SortKeys

VARIABLES
  course,   \* what a search sees of each course: whether it finds it, its sort key
  walk,     \* the visitor: which page is asked for, and what has been shown
  changed   \* history: a course changed since the first page

directoryVars == <<course, walk, changed>>

Cut(a, b) == IF a < b THEN a ELSE b
Matching == {c \in Shown : course[c].found}

\* limit, and skip as the visitor's way of paging gives it.
LimitOf(asked) == Cut(IF asked = 0 THEN DefaultLimit ELSE asked, MaxLimit)

\* Faulty variant: the first page is skipped.
SkipOf_FromOne(w) == IF w.by = "skip" THEN w.skip ELSE w.page * w.limit

SkipOf(w) == IF w.by = "skip" THEN w.skip ELSE (w.page - 1) * w.limit

PageOf(w) == IF w.by = "skip" THEN w.skip \div w.limit + 1 ELSE w.page
TotalPages(w) == (w.total + w.limit - 1) \div w.limit

\* The first k of the matching courses, in every order the sort allows.
Firsts(k) ==
  {F \in SUBSET Matching :
     /\ Cardinality(F) = Cut(k, Cardinality(Matching))
     /\ \A c \in F, d \in Matching \ F : course[c].key <= course[d].key}

Pages(skip, limit) ==
  {p[2] \ p[1] : p \in
     {q \in Firsts(skip) \X Firsts(skip + limit) : q[1] \subseteq q[2]}}

Pending == {"find", "count"}

DirectoryTypeOK ==
  /\ course \in [Shown -> [found: BOOLEAN, key: SortKeys]]
  /\ changed \in BOOLEAN
  /\ walk # NoWalk =>
       /\ walk.by \in {"page", "skip"} /\ walk.limit \in 1..MaxLimit
       /\ walk.page \in 0..(Cardinality(Shown) + 1)
       /\ walk.skip \in 0..(Cardinality(Shown) + MaxLimit)
       /\ walk.pending \subseteq Pending
       /\ walk.shown \subseteq Shown /\ walk.repeated \in BOOLEAN
       /\ walk.total \in 0..Cardinality(Shown) /\ walk.done \in BOOLEAN

\* Drafts, with the defaults of what a search may sort by.
DirectoryInit ==
  /\ course = [c \in Shown |-> [found |-> FALSE, key |-> 0]]
  /\ walk = NoWalk /\ changed = FALSE

----------------------------------------------------------------------------
(***************************************************************************)
(* GET courses                                                             *)
(***************************************************************************)

\* The first page.  A visitor who names a skip goes on by the limit he was
\* answered with, another by the number of the page.
StartWalk(by, asked) ==
  /\ walk = NoWalk
  /\ walk' = [by |-> by, limit |-> LimitOf(asked), page |-> 1, skip |-> 0,
              pending |-> Pending, shown |-> {}, repeated |-> FALSE, total |-> 0,
              done |-> FALSE]
  /\ changed' = FALSE
  /\ UNCHANGED <<course>>

\* The page is answered with the second of the two queries.
SearchFinds ==
  /\ walk # NoWalk /\ "find" \in walk.pending
  /\ \E page \in Pages(SkipOf(walk), walk.limit) :
       walk' = [walk EXCEPT !.pending = @ \ {"find"}, !.shown = @ \cup page,
                            !.repeated = @ \/ page \cap walk.shown # {}]
  /\ UNCHANGED <<course, changed>>

SearchCounts ==
  /\ walk # NoWalk /\ "count" \in walk.pending
  /\ walk' = [walk EXCEPT !.pending = @ \ {"count"}, !.total = Cardinality(Matching)]
  /\ UNCHANGED <<course, changed>>

NextPage ==
  /\ walk # NoWalk /\ walk.pending = {} /\ ~walk.done
  /\ walk' = IF PageOf(walk) >= TotalPages(walk) THEN [walk EXCEPT !.done = TRUE]
             ELSE [walk EXCEPT !.pending = Pending, !.page = @ + 1,
                               !.skip = @ + walk.limit]
  /\ UNCHANGED <<course, changed>>

\* A query fails, or the visitor leaves.
WalkEnds ==
  /\ walk # NoWalk
  /\ walk' = NoWalk
  /\ UNCHANGED <<course, changed>>

----------------------------------------------------------------------------
\* Courses are edited, published and taken back, rated and enrolled in by
\* other services.
CourseChanges(c, new) ==
  /\ new # course[c]
  /\ course' = [course EXCEPT ![c] = new]
  /\ changed' = TRUE
  /\ UNCHANGED walk

DirectoryNext ==
  \/ \E by \in {"page", "skip"}, asked \in Limits : StartWalk(by, asked)
  \/ SearchFinds \/ SearchCounts \/ NextPage \/ WalkEnds
  \/ \E c \in Shown, new \in [found: BOOLEAN, key: SortKeys] :
       CourseChanges(c, new)

DirectorySpec == DirectoryInit /\ [][DirectoryNext]_directoryVars

----------------------------------------------------------------------------
\* search: a visitor who has gone through all pages has seen every match, each
\* once, unless a course changed meanwhile or two matches share the sort key,
\* for the sort has no second field.
Tied == \E c, d \in Matching : c # d /\ course[c].key = course[d].key

PagesPartitionUnlessTied ==
  walk # NoWalk =>
    \/ changed \/ Tied
    \/ ~walk.repeated /\ (walk.done => walk.shown = Matching)
=============================================================================
