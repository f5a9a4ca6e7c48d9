------------------------- MODULE SavedCoursesProofs -------------------------
(***************************************************************************)
(* Theorems about SavedCourses: the wish list counter is conserved, and a  *)
(* student is rewarded at most once for an enrolment.                      *)
(*                                                                         *)
(* Neither property is inductive as it stands.  The conservation law needs *)
(* the collection to be finite; the reward needs that a request about to   *)
(* count an addition has stored it, and that nothing was started for a     *)
(* pair before its enrolment was announced.                                *)
(***************************************************************************)
EXTENDS SavedCourses, FiniteSetTheorems, TLAPS

\* The students who saved a course.
Savers(c) == {p \in saved : p[2] = c}

Conserved ==
  \A c \in Courses :
    totalWishlists[c] + Cardinality(Raising(c)) + unraised[c]
      = Cardinality(Savers(c)) + Cardinality(Lowering(c)) + unlowered[c]

CountsWhatItStored ==
  \A q \in SaveRequests : saveCall[q].pc = "add.count" => saveCall[q].pair \in everSaved

Rewards ==
  \A p \in Pairs \ everSaved :
    /\ awarding[p] + points[p] <= 1
    /\ noticing[p] + notices[p] <= 1
    /\ awarding[p] + points[p] + noticing[p] + notices[p] > 0 => stage[p] = "announced"

SavedInv ==
  /\ SavedTypeOK
  /\ IsFiniteSet(saved)
  /\ Conserved
  /\ CountsWhatItStored
  /\ Rewards

----------------------------------------------------------------------------
LEMMA OneMore ==
  ASSUME NEW S, IsFiniteSet(S), NEW x, x \notin S, NEW T, T = S \cup {x}
  PROVE  IsFiniteSet(T) /\ Cardinality(T) = Cardinality(S) + 1 /\ Cardinality(S) \in Nat
  BY FS_AddElement, FS_CardinalityType

LEMMA OneLess ==
  ASSUME NEW S, IsFiniteSet(S), NEW x \in S, NEW T, T = S \ {x}
  PROVE  IsFiniteSet(T) /\ Cardinality(T) = Cardinality(S) - 1 /\ Cardinality(S) \in Nat
  BY FS_RemoveElement, FS_CardinalityType

LEMMA PlusTyped ==
  ASSUME NEW D, NEW f \in [D -> Nat], NEW x \in D, NEW n \in Int, f[x] + n \in Nat
  PROVE  /\ Plus(f, x, n) \in [D -> Nat]
         /\ Plus(f, x, n)[x] = f[x] + n
         /\ \A y \in D : y # x => Plus(f, x, n)[y] = f[y]
  BY DEF Plus

LEMMA PlusInt ==
  ASSUME NEW D, NEW f \in [D -> Int], NEW x \in D, NEW n \in Int
  PROVE  /\ Plus(f, x, n) \in [D -> Int]
         /\ Plus(f, x, n)[x] = f[x] + n
         /\ \A y \in D : y # x => Plus(f, x, n)[y] = f[y]
  BY DEF Plus

LEMMA IdleCallTyped == IdleCall \in SaveCall /\ IdleCall.pc = "idle"
  BY DEF IdleCall, SaveCall

LEMMA BusyCall ==
  ASSUME SavedTypeOK, NEW q \in SaveRequests, saveCall[q].pc # "idle"
  PROVE  /\ saveCall[q] \in [pc: SaveCallNames, pair: Pairs]
         /\ saveCall[q].pair \in Pairs /\ CourseOf(q) \in Courses
<1>1. saveCall[q] \in [pc: SaveCallNames, pair: Pairs]
  BY IdleCallTyped DEF SavedTypeOK, SaveCall
<1> QED BY <1>1 DEF CourseOf, Pairs

LEMMA CountersFinite ==
  ASSUME SavedInv, NEW c
  PROVE  /\ IsFiniteSet(Raising(c)) /\ Cardinality(Raising(c)) \in Nat
         /\ IsFiniteSet(Lowering(c)) /\ Cardinality(Lowering(c)) \in Nat
         /\ IsFiniteSet(Savers(c)) /\ Cardinality(Savers(c)) \in Nat
<1>1. /\ Raising(c) \subseteq SaveRequests /\ Lowering(c) \subseteq SaveRequests
      /\ Savers(c) \subseteq saved
  BY DEF Raising, Lowering, Savers
<1> QED BY <1>1, SaveRequestsFinite, FS_Subset, FS_CardinalityType DEF SavedInv

\* A request that turns to another call, or to none.
Turns(q, call) ==
  /\ saveCall' \in [SaveRequests -> SaveCall]
  /\ saveCall'[q] = call
  /\ \A r \in SaveRequests : r # q => saveCall'[r] = saveCall[r]

LEMMA AnswerTurns ==
  ASSUME SavedTypeOK, NEW q \in SaveRequests, SaveAnswer(q)
  PROVE  Turns(q, IdleCall)
  BY IdleCallTyped DEF SavedTypeOK, SaveAnswer, Turns

LEMMA AwaitTurns ==
  ASSUME SavedTypeOK, NEW q \in SaveRequests, saveCall[q].pc # "idle",
         NEW call \in SaveCallNames, SaveAwait(q, call)
  PROVE  Turns(q, [pc |-> call, pair |-> saveCall[q].pair])
<1>1. saveCall[q] \in [pc: SaveCallNames, pair: Pairs]
  BY BusyCall
<1>2. /\ [saveCall[q] EXCEPT !.pc = call] = [pc |-> call, pair |-> saveCall[q].pair]
      /\ [pc |-> call, pair |-> saveCall[q].pair] \in SaveCall
  BY <1>1 DEF SaveCall
<1> QED BY <1>2 DEF SavedTypeOK, SaveAwait, Turns

\* Where the counter's two kinds of pending change go when one request turns.
LEMMA TurnedCounts ==
  ASSUME SavedTypeOK, NEW q \in SaveRequests, NEW call, Turns(q, call), NEW c
  PROVE  /\ Raising(c)' = IF call.pc = "add.count" /\ call.pair[2] = c
                            THEN Raising(c) \cup {q} ELSE Raising(c) \ {q}
         /\ Lowering(c)' = IF call.pc = "remove.count" /\ call.pair[2] = c
                             THEN Lowering(c) \cup {q} ELSE Lowering(c) \ {q}
  BY DEF Turns, Raising, Lowering, Awaiting, CourseOf

\* A set that loses x, or gains it.
LEMMA TurnedSet ==
  ASSUME NEW S, IsFiniteSet(S), NEW x, NEW b \in BOOLEAN, NEW T,
         T = IF b THEN S \cup {x} ELSE S \ {x}
  PROVE  /\ Cardinality(T) = Cardinality(S) - (IF x \in S THEN 1 ELSE 0)
                                            + (IF b THEN 1 ELSE 0)
         /\ Cardinality(S) \in Nat
<1>0. Cardinality(S) \in Nat
  BY FS_CardinalityType
<1>1. CASE b /\ x \in S
  <2>1. T = S
    BY <1>1
  <2>2. (IF x \in S THEN 1 ELSE 0) = 1 /\ (IF b THEN 1 ELSE 0) = 1
    BY <1>1
  <2>3. Cardinality(S) = Cardinality(S) - 1 + 1
    BY <1>0
  <2> QED BY <1>0, <2>1, <2>2, <2>3
<1>2. CASE b /\ x \notin S
  <2>1. T = S \cup {x}
    BY <1>2
  <2> QED BY <1>0, <1>2, <2>1, FS_AddElement
<1>3. CASE ~ b /\ x \in S
  <2>1. T = S \ {x}
    BY <1>3
  <2> QED BY <1>0, <1>3, <2>1, FS_RemoveElement
<1>4. CASE ~ b /\ x \notin S
  <2>1. T = S
    BY <1>4
  <2>2. (IF x \in S THEN 1 ELSE 0) = 0 /\ (IF b THEN 1 ELSE 0) = 0
    BY <1>4
  <2>3. Cardinality(S) = Cardinality(S) - 0 + 0
    BY <1>0
  <2> QED BY <1>0, <2>1, <2>2, <2>3
<1> QED BY <1>1, <1>2, <1>3, <1>4

\* The same in numbers, with the balance of the course.
LEMMA TurnedNumbers ==
  ASSUME SavedInv, NEW q \in SaveRequests, NEW call, Turns(q, call), NEW c \in Courses
  PROVE  /\ Cardinality(Raising(c)')
              = Cardinality(Raising(c))
                  - (IF saveCall[q].pc = "add.count" /\ CourseOf(q) = c THEN 1 ELSE 0)
                  + (IF call.pc = "add.count" /\ call.pair[2] = c THEN 1 ELSE 0)
         /\ Cardinality(Lowering(c)')
              = Cardinality(Lowering(c))
                  - (IF saveCall[q].pc = "remove.count" /\ CourseOf(q) = c THEN 1 ELSE 0)
                  + (IF call.pc = "remove.count" /\ call.pair[2] = c THEN 1 ELSE 0)
<1>1. /\ Raising(c)' = IF call.pc = "add.count" /\ call.pair[2] = c
                         THEN Raising(c) \cup {q} ELSE Raising(c) \ {q}
      /\ Lowering(c)' = IF call.pc = "remove.count" /\ call.pair[2] = c
                          THEN Lowering(c) \cup {q} ELSE Lowering(c) \ {q}
  BY TurnedCounts DEF SavedInv
<1>2. IsFiniteSet(Raising(c)) /\ IsFiniteSet(Lowering(c))
  BY CountersFinite
<1>3. /\ q \in Raising(c) <=> saveCall[q].pc = "add.count" /\ CourseOf(q) = c
      /\ q \in Lowering(c) <=> saveCall[q].pc = "remove.count" /\ CourseOf(q) = c
  BY DEF Raising, Lowering, Awaiting
<1>4. PICK up \in BOOLEAN : up <=> call.pc = "add.count" /\ call.pair[2] = c
  OBVIOUS
<1>5. PICK down \in BOOLEAN : down <=> call.pc = "remove.count" /\ call.pair[2] = c
  OBVIOUS
<1>6. Raising(c)' = IF up THEN Raising(c) \cup {q} ELSE Raising(c) \ {q}
  BY <1>1, <1>4
<1>7. Lowering(c)' = IF down THEN Lowering(c) \cup {q} ELSE Lowering(c) \ {q}
  BY <1>1, <1>5
<1>8. Cardinality(Raising(c)') = Cardinality(Raising(c))
        - (IF q \in Raising(c) THEN 1 ELSE 0) + (IF up THEN 1 ELSE 0)
  BY <1>2, <1>6, TurnedSet
<1>9. Cardinality(Lowering(c)') = Cardinality(Lowering(c))
        - (IF q \in Lowering(c) THEN 1 ELSE 0) + (IF down THEN 1 ELSE 0)
  BY <1>2, <1>7, TurnedSet
<1> QED BY <1>3, <1>4, <1>5, <1>8, <1>9

LEMMA Balance ==
  ASSUME SavedInv, NEW c \in Courses
  PROVE  /\ totalWishlists[c] \in Int /\ unraised[c] \in Nat /\ unlowered[c] \in Nat
         /\ Cardinality(Raising(c)) \in Nat /\ Cardinality(Lowering(c)) \in Nat
         /\ Cardinality(Savers(c)) \in Nat
         /\ totalWishlists[c] + Cardinality(Raising(c)) + unraised[c]
              = Cardinality(Savers(c)) + Cardinality(Lowering(c)) + unlowered[c]
<1>1. totalWishlists[c] \in Int /\ unraised[c] \in Nat /\ unlowered[c] \in Nat
  BY DEF SavedInv, SavedTypeOK
<1> QED BY <1>1, CountersFinite DEF SavedInv, Conserved

LEMMA TurnedStored ==
  ASSUME SavedTypeOK, CountsWhatItStored, NEW q \in SaveRequests, NEW call, Turns(q, call),
         everSaved \subseteq everSaved',
         call.pc = "add.count" => call.pair \in everSaved'
  PROVE  CountsWhatItStored'
  BY DEF Turns, CountsWhatItStored

LEMMA SavedInitInv == SavedInit => SavedInv
<1> SUFFICES ASSUME SavedInit PROVE SavedInv
  OBVIOUS
<1> USE DEF SavedInit, Init
<1>1. SavedTypeOK
  <2>1. stage \in [Pairs -> Stages] /\ tally \in [Courses -> Nat]
    BY DEF Stages
  <2>2. saveCall \in [SaveRequests -> SaveCall]
    BY IdleCallTyped DEF NoCalls
  <2>3. saves \in 0..MaxSaves /\ faults \in 0..MaxFaults
    BY BoundsNat
  <2>4. /\ ZeroPerCourse \in [Courses -> Nat] /\ ZeroPerCourse \in [Courses -> Int]
        /\ ZeroPerPair \in PerPair
    BY DEF ZeroPerCourse, ZeroPerPair, PerPair
  <2> QED BY <2>1, <2>2, <2>3, <2>4 DEF SavedTypeOK, LedgerTypeOK
<1>2. IsFiniteSet(saved)
  BY FS_EmptySet
<1>3. ASSUME NEW c \in Courses
      PROVE  totalWishlists[c] + Cardinality(Raising(c)) + unraised[c]
               = Cardinality(Savers(c)) + Cardinality(Lowering(c)) + unlowered[c]
  <2>1. Raising(c) = {} /\ Lowering(c) = {} /\ Savers(c) = {}
    BY IdleCallTyped DEF Raising, Lowering, Savers, Awaiting, NoCalls
  <2> QED BY <2>1, FS_EmptySet DEF ZeroPerCourse
<1>4. CountsWhatItStored
  BY IdleCallTyped DEF CountsWhatItStored, NoCalls
<1>5. Rewards
  BY DEF Rewards, ZeroPerPair
<1> QED BY <1>1, <1>2, <1>3, <1>4, <1>5 DEF SavedInv, Conserved

----------------------------------------------------------------------------
(***************************************************************************)
(* The steps of a request                                                  *)
(***************************************************************************)

LEMMA KeepsRewards ==
  ASSUME Rewards, everSaved \subseteq everSaved', UNCHANGED <<stage, listenerVars>>
  PROVE  Rewards'
  BY DEF Rewards, listenerVars

\* A turn that neither ends nor begins a wait for the counter.
LEMMA QuietTurn ==
  ASSUME SavedInv, NEW q \in SaveRequests, NEW call, Turns(q, call),
         saveCall[q].pc \notin {"add.count", "remove.count"},
         call.pc \notin {"add.count", "remove.count"},
         UNCHANGED <<ledgerVars, deleted, wishVars, listenerVars>>,
         saves' \in 0..MaxSaves, faults' \in 0..MaxFaults
  PROVE  SavedInv'
<1> USE DEF SavedInv, wishVars, ledgerVars
<1>1. SavedTypeOK'
  BY DEF SavedTypeOK, LedgerTypeOK, Turns, listenerVars
<1>2. \A c \in Courses : /\ Raising(c)' = Raising(c) /\ Lowering(c)' = Lowering(c)
                         /\ Savers(c)' = Savers(c)
  <2>1. \A c \in Courses : Savers(c)' = Savers(c)
    BY DEF Savers
  <2>2. \A c \in Courses : q \notin Raising(c) /\ q \notin Lowering(c)
    BY DEF Raising, Lowering, Awaiting
  <2>3. ASSUME NEW c \in Courses PROVE Raising(c)' = Raising(c) /\ Lowering(c)' = Lowering(c)
    <3>1. Raising(c)' = Raising(c) \ {q} /\ Lowering(c)' = Lowering(c) \ {q}
      BY TurnedCounts
    <3> QED BY <3>1, <2>2
  <2> QED BY <2>1, <2>3
<1>3. Conserved'
  BY <1>2 DEF Conserved
<1>4. CountsWhatItStored'
  BY TurnedStored
<1>5. Rewards'
  BY KeepsRewards
<1> QED BY <1>1, <1>3, <1>4, <1>5

LEMMA StartSaveCallInv ==
  ASSUME SavedInv, NEW q \in SaveRequests, NEW p \in Pairs,
         NEW call \in {"add.course", "remove.course"}, StartSaveCall(q, call, p)
  PROVE  SavedInv'
<1>1. [pc |-> call, pair |-> p] \in SaveCall
  BY DEF SaveCall, SaveCallNames
<1>2. Turns(q, [pc |-> call, pair |-> p])
  BY <1>1 DEF StartSaveCall, Turns, SavedInv, SavedTypeOK
<1>3. saves' \in 0..MaxSaves /\ faults' \in 0..MaxFaults
  BY BoundsNat DEF StartSaveCall, SavedInv, SavedTypeOK
<1> QED BY <1>2, <1>3, QuietTurn DEF StartSaveCall

LEMMA ReadCourseInv ==
  ASSUME SavedInv, NEW q \in SaveRequests, ReadCourse(q)
  PROVE  SavedInv'
<1> USE DEF ReadCourse
<1>1. saves' \in 0..MaxSaves /\ faults' \in 0..MaxFaults
  BY DEF SavedInv, SavedTypeOK, bounds
<1>2. saveCall[q].pc # "idle" /\ SavedTypeOK
  BY DEF SavedInv
<1>3. \/ Turns(q, IdleCall)
      \/ Turns(q, [pc |-> "add.existing", pair |-> saveCall[q].pair])
      \/ Turns(q, [pc |-> "remove.delete", pair |-> saveCall[q].pair])
  <2>1. CASE SaveAnswer(q)
    BY <2>1, <1>2, AnswerTurns
  <2>2. CASE SaveAwait(q, "add.existing")
    BY <2>2, <1>2, AwaitTurns DEF SaveCallNames
  <2>3. CASE SaveAwait(q, "remove.delete")
    BY <2>3, <1>2, AwaitTurns DEF SaveCallNames
  <2> QED BY <2>1, <2>2, <2>3
<1> QED BY <1>1, <1>3, IdleCallTyped, QuietTurn

LEMMA AddReadExistingInv ==
  ASSUME SavedInv, NEW q \in SaveRequests, AddReadExisting(q)
  PROVE  SavedInv'
<1> USE DEF AddReadExisting
<1>1. saves' \in 0..MaxSaves /\ faults' \in 0..MaxFaults
  BY DEF SavedInv, SavedTypeOK, bounds
<1>2. saveCall[q].pc # "idle" /\ SavedTypeOK
  BY DEF SavedInv
<1>3. \/ Turns(q, IdleCall)
      \/ Turns(q, [pc |-> "add.insert", pair |-> saveCall[q].pair])
  <2>1. CASE SaveAnswer(q)
    BY <2>1, <1>2, AnswerTurns
  <2>2. CASE SaveAwait(q, "add.insert")
    BY <2>2, <1>2, AwaitTurns DEF SaveCallNames
  <2> QED BY <2>1, <2>2
<1> QED BY <1>1, <1>3, IdleCallTyped, QuietTurn

\* The insertion owes the counter one increment more.
LEMMA AddInsertInv ==
  ASSUME SavedInv, NEW q \in SaveRequests, AddInsert(q)
  PROVE  SavedInv'
<1>0. UNCHANGED <<totalWishlists, unraised, unlowered>>
  BY DEF AddInsert
<1> USE DEF AddInsert
<1>1. saves' \in 0..MaxSaves /\ faults' \in 0..MaxFaults
  BY DEF SavedInv, SavedTypeOK, bounds
<1>2. saveCall[q].pc # "idle" /\ SavedTypeOK
  BY DEF SavedInv
<1>3. CASE saveCall[q].pair \in saved
  <2>1. Turns(q, IdleCall)
    BY <1>2, <1>3, AnswerTurns
  <2>2. UNCHANGED <<ledgerVars, deleted, wishVars, listenerVars>>
    BY <1>3 DEF wishVars
  <2> QED BY <1>1, <2>1, <2>2, IdleCallTyped, QuietTurn
<1>4. CASE saveCall[q].pair \notin saved
  <2> DEFINE p == saveCall[q].pair
             call == [pc |-> "add.count", pair |-> p]
  <2>1. Turns(q, call)
    BY <1>2, <1>4, AwaitTurns DEF SaveCallNames
  <2>2. p \in Pairs /\ p[2] \in Courses /\ p \notin saved
    BY <1>2, <1>4, BusyCall DEF CourseOf
  <2>3. saved' = saved \cup {p} /\ everSaved' = everSaved \cup {p}
    BY <1>4
  <2>4. SavedTypeOK'
    <3>1. saveCall' \in [SaveRequests -> SaveCall]
      BY <2>1 DEF Turns
    <3>2. saved' \in SUBSET Pairs /\ everSaved' \in SUBSET Pairs
      BY <1>2, <2>2, <2>3 DEF SavedTypeOK
    <3> HIDE DEF p, call
    <3> QED BY <1>1, <1>2, <3>1, <3>2
            DEF SavedTypeOK, LedgerTypeOK, ledgerVars, listenerVars
  <2>5. IsFiniteSet(saved')
    BY <2>2, <2>3, OneMore DEF SavedInv
  <2>6. ASSUME NEW c \in Courses
        PROVE  totalWishlists'[c] + Cardinality(Raising(c)') + unraised'[c]
                 = Cardinality(Savers(c)') + Cardinality(Lowering(c)') + unlowered'[c]
    <3>1. /\ Cardinality(Raising(c)')
                = Cardinality(Raising(c)) + (IF p[2] = c THEN 1 ELSE 0)
          /\ Cardinality(Lowering(c)') = Cardinality(Lowering(c))
      <4>1. /\ call.pc = "add.count" /\ call.pair[2] = p[2] /\ call.pc # "remove.count"
            /\ saveCall[q].pc # "add.count" /\ saveCall[q].pc # "remove.count"
        OBVIOUS
      <4> HIDE DEF call, p, AddInsert
      <4>2. /\ Cardinality(Raising(c)')
                  = Cardinality(Raising(c)) - 0 + (IF p[2] = c THEN 1 ELSE 0)
            /\ Cardinality(Lowering(c)') = Cardinality(Lowering(c)) - 0 + 0
        BY <2>1, <4>1, TurnedNumbers
      <4> QED BY <4>2, Balance
    <3>2. CASE p[2] = c
      <4>1. Savers(c)' = Savers(c) \cup {p} /\ p \notin Savers(c)
        BY <2>2, <2>3, <3>2 DEF Savers
      <4>2. Cardinality(Savers(c)') = Cardinality(Savers(c)) + 1
        BY <4>1, CountersFinite, OneMore
      <4>3. Cardinality(Raising(c)') = Cardinality(Raising(c)) + 1
        BY <3>1, <3>2
      <4> HIDE DEF call, p, AddInsert
      <4> QED BY <1>0, <3>1, <4>2, <4>3, Balance
    <3>3. CASE p[2] # c
      <4>1. Savers(c)' = Savers(c)
        BY <2>3, <3>3 DEF Savers
      <4>2. Cardinality(Raising(c)') = Cardinality(Raising(c)) + 0
        BY <3>1, <3>3
      <4> HIDE DEF call, p, AddInsert
      <4> QED BY <1>0, <3>1, <4>1, <4>2, Balance
    <3> QED BY <3>2, <3>3
  <2>7. CountsWhatItStored'
    BY <1>2, <2>1, <2>3, TurnedStored DEF SavedInv
  <2>8. Rewards'
    BY <2>3, KeepsRewards DEF SavedInv, ledgerVars
  <2> QED BY <2>4, <2>5, <2>6, <2>7, <2>8 DEF SavedInv, Conserved
<1> QED BY <1>3, <1>4

\* What the event does to the listeners' insertions.
LEMMA EmitTyped ==
  ASSUME SavedTypeOK, NEW p \in Pairs, EmitStudentEnrolled(p)
  PROVE  /\ awarding' \in PerPair /\ points' \in PerPair
         /\ noticing' \in PerPair /\ notices' \in PerPair
         /\ awarding'[p] = awarding[p] + 1 /\ noticing'[p] = noticing[p] + 1
         /\ \A r \in Pairs : r # p => awarding'[r] = awarding[r] /\ noticing'[r] = noticing[r]
         /\ UNCHANGED <<points, notices>>
<1>1. /\ awarding \in [Pairs -> Nat] /\ noticing \in [Pairs -> Nat]
      /\ awarding[p] + 1 \in Nat /\ noticing[p] + 1 \in Nat
  BY DEF SavedTypeOK, PerPair
<1>2. /\ Plus(awarding, p, 1) \in [Pairs -> Nat] /\ Plus(awarding, p, 1)[p] = awarding[p] + 1
      /\ \A r \in Pairs : r # p => Plus(awarding, p, 1)[r] = awarding[r]
  BY <1>1, PlusTyped
<1>3. /\ Plus(noticing, p, 1) \in [Pairs -> Nat] /\ Plus(noticing, p, 1)[p] = noticing[p] + 1
      /\ \A r \in Pairs : r # p => Plus(noticing, p, 1)[r] = noticing[r]
  BY <1>1, PlusTyped
<1> QED BY <1>2, <1>3 DEF EmitStudentEnrolled, SavedTypeOK, PerPair

\* The counter is raised for a pair that was stored: its listeners are no
\* concern of Rewards.
LEMMA AddCountInv ==
  ASSUME SavedInv, NEW q \in SaveRequests, AddCount(q)
  PROVE  SavedInv'
<1>1. saveCall[q].pc = "add.count" /\ SavedTypeOK
  BY DEF AddCount, SavedInv
<1>2. saveCall[q].pair \in Pairs /\ CourseOf(q) \in Courses
  BY <1>1, BusyCall
<1>3. Turns(q, IdleCall)
  BY <1>1, AnswerTurns DEF AddCount
<1>4. /\ totalWishlists' \in [Courses -> Int]
      /\ totalWishlists'[CourseOf(q)] = totalWishlists[CourseOf(q)] + 1
      /\ \A c \in Courses : c # CourseOf(q) => totalWishlists'[c] = totalWishlists[c]
  <2>1. totalWishlists' = Plus(totalWishlists, CourseOf(q), 1)
    BY DEF AddCount
  <2>2. totalWishlists \in [Courses -> Int]
    BY <1>1 DEF SavedTypeOK
  <2> QED BY <2>1, <2>2, <1>2, PlusInt
<1>5. /\ awarding' \in PerPair /\ points' \in PerPair
      /\ noticing' \in PerPair /\ notices' \in PerPair
      /\ \A r \in Pairs : r # saveCall[q].pair
           => awarding'[r] = awarding[r] /\ noticing'[r] = noticing[r]
      /\ UNCHANGED <<points, notices>>
  BY <1>1, <1>2, EmitTyped DEF AddCount
<1>6. UNCHANGED <<stage, tally, deleted, saved, unraised, unlowered, everSaved, saves, faults>>
  BY DEF AddCount, ledgerVars, bounds
<1>7. SavedTypeOK'
  BY <1>1, <1>3, <1>4, <1>5, <1>6 DEF SavedTypeOK, LedgerTypeOK, Turns
<1>8. ASSUME NEW c \in Courses
      PROVE  totalWishlists'[c] + Cardinality(Raising(c)') + unraised'[c]
               = Cardinality(Savers(c)') + Cardinality(Lowering(c)') + unlowered'[c]
  <2>1. Savers(c)' = Savers(c)
    BY <1>6 DEF Savers
  <2>2. /\ Cardinality(Raising(c)')
              = Cardinality(Raising(c)) - (IF CourseOf(q) = c THEN 1 ELSE 0) + 0
        /\ Cardinality(Lowering(c)') = Cardinality(Lowering(c)) - 0 + 0
    BY <1>1, <1>3, IdleCallTyped, TurnedNumbers
  <2>3. totalWishlists'[c] = totalWishlists[c] + (IF CourseOf(q) = c THEN 1 ELSE 0)
    BY <1>4, Balance
  <2> QED BY <1>6, <2>1, <2>2, <2>3, Balance
<1>9. CountsWhatItStored'
  BY <1>1, <1>3, <1>6, IdleCallTyped, TurnedStored DEF SavedInv
<1>10. Rewards'
  <2>1. saveCall[q].pair \in everSaved
    BY <1>1 DEF SavedInv, CountsWhatItStored
  <2> QED BY <1>5, <1>6, <2>1 DEF SavedInv, Rewards
<1> QED BY <1>6, <1>7, <1>8, <1>9, <1>10 DEF SavedInv, Conserved

\* The deletion owes the counter one decrement, if there was something to
\* delete.
LEMMA RemoveDeleteInv ==
  ASSUME SavedInv, NEW q \in SaveRequests, RemoveDelete(q)
  PROVE  SavedInv'
<1>1. saveCall[q].pc = "remove.delete" /\ SavedTypeOK
  BY DEF RemoveDelete, SavedInv
<1>2. saveCall[q].pair \in Pairs /\ CourseOf(q) \in Courses
  BY <1>1, BusyCall
<1>3. /\ UNCHANGED <<stage, tally, deleted, totalWishlists, unraised, unlowered, everSaved>>
      /\ UNCHANGED <<listenerVars, saves, faults>>
      /\ saved' = saved \ {saveCall[q].pair}
  BY DEF RemoveDelete, ledgerVars, bounds
<1>4. CASE saveCall[q].pair \notin saved
  <2>1. Turns(q, IdleCall)
    BY <1>1, <1>4, AnswerTurns DEF RemoveDelete
  <2>2. saved' = saved
    BY <1>3, <1>4
  <2>3. UNCHANGED <<ledgerVars, deleted, wishVars, listenerVars>>
    BY <1>3, <2>2 DEF wishVars, ledgerVars
  <2>4. saves' \in 0..MaxSaves /\ faults' \in 0..MaxFaults
    BY <1>1, <1>3 DEF SavedTypeOK
  <2> QED BY <1>1, <2>1, <2>3, <2>4, IdleCallTyped, QuietTurn
<1>5. CASE saveCall[q].pair \in saved
  <2>1. PICK call : call = [pc |-> "remove.count", pair |-> saveCall[q].pair]
    OBVIOUS
  <2>2. /\ call.pc = "remove.count" /\ call.pair[2] = CourseOf(q)
        /\ call.pc # "add.count"
    BY <2>1 DEF CourseOf
  <2>3. Turns(q, call)
    BY <1>1, <1>5, <2>1, AwaitTurns DEF RemoveDelete, SaveCallNames
  <2>4. SavedTypeOK'
    BY <1>1, <1>3, <2>3 DEF SavedTypeOK, LedgerTypeOK, Turns, listenerVars
  <2>5. IsFiniteSet(saved')
    BY <1>3, FS_RemoveElement, FS_Subset DEF SavedInv
  <2>6. ASSUME NEW c \in Courses
        PROVE  totalWishlists'[c] + Cardinality(Raising(c)') + unraised'[c]
                 = Cardinality(Savers(c)') + Cardinality(Lowering(c)') + unlowered'[c]
    <3>1. /\ Cardinality(Raising(c)') = Cardinality(Raising(c)) - 0 + 0
          /\ Cardinality(Lowering(c)')
                = Cardinality(Lowering(c)) - 0 + (IF CourseOf(q) = c THEN 1 ELSE 0)
      BY <1>1, <2>2, <2>3, TurnedNumbers
    <3>2. Cardinality(Savers(c)') = Cardinality(Savers(c)) - (IF CourseOf(q) = c THEN 1 ELSE 0)
      <4>1. CASE CourseOf(q) = c
        <5>1. Savers(c)' = Savers(c) \ {saveCall[q].pair} /\ saveCall[q].pair \in Savers(c)
          BY <1>3, <1>5, <4>1 DEF Savers, CourseOf
        <5> QED BY <4>1, <5>1, CountersFinite, OneLess
      <4>2. CASE CourseOf(q) # c
        <5>1. Savers(c)' = Savers(c)
          BY <1>3, <4>2 DEF Savers, CourseOf
        <5> QED BY <4>2, <5>1, Balance
      <4> QED BY <4>1, <4>2
    <3> QED BY <1>3, <3>1, <3>2, Balance
  <2>7. CountsWhatItStored'
    BY <1>1, <1>3, <2>2, <2>3, TurnedStored DEF SavedInv
  <2>8. Rewards'
    BY <1>3, KeepsRewards DEF SavedInv
  <2> QED BY <2>4, <2>5, <2>6, <2>7, <2>8 DEF SavedInv, Conserved
<1> QED BY <1>4, <1>5

LEMMA RemoveCountInv ==
  ASSUME SavedInv, NEW q \in SaveRequests, RemoveCount(q)
  PROVE  SavedInv'
<1>1. saveCall[q].pc = "remove.count" /\ SavedTypeOK
  BY DEF RemoveCount, SavedInv
<1>2. saveCall[q].pair \in Pairs /\ CourseOf(q) \in Courses
  BY <1>1, BusyCall
<1>3. Turns(q, IdleCall)
  BY <1>1, AnswerTurns DEF RemoveCount
<1>4. /\ totalWishlists' \in [Courses -> Int]
      /\ totalWishlists'[CourseOf(q)] = totalWishlists[CourseOf(q)] + (-1)
      /\ \A c \in Courses : c # CourseOf(q) => totalWishlists'[c] = totalWishlists[c]
  <2>1. totalWishlists' = Plus(totalWishlists, CourseOf(q), -1)
    BY DEF RemoveCount
  <2>2. totalWishlists \in [Courses -> Int] /\ -1 \in Int
    BY <1>1 DEF SavedTypeOK
  <2> QED BY <2>1, <2>2, <1>2, PlusInt
<1>5. /\ UNCHANGED <<stage, tally, deleted, saved, unraised, unlowered, everSaved, saves, faults>>
      /\ UNCHANGED listenerVars
  BY DEF RemoveCount, ledgerVars, bounds
<1>6. SavedTypeOK'
  BY <1>1, <1>3, <1>4, <1>5 DEF SavedTypeOK, LedgerTypeOK, Turns, listenerVars
<1>7. ASSUME NEW c \in Courses
      PROVE  totalWishlists'[c] + Cardinality(Raising(c)') + unraised'[c]
               = Cardinality(Savers(c)') + Cardinality(Lowering(c)') + unlowered'[c]
  <2>1. Savers(c)' = Savers(c)
    BY <1>5 DEF Savers
  <2>2. /\ Cardinality(Raising(c)') = Cardinality(Raising(c)) - 0 + 0
        /\ Cardinality(Lowering(c)')
              = Cardinality(Lowering(c)) - (IF CourseOf(q) = c THEN 1 ELSE 0) + 0
    BY <1>1, <1>3, IdleCallTyped, TurnedNumbers
  <2>3. totalWishlists'[c] = totalWishlists[c] - (IF CourseOf(q) = c THEN 1 ELSE 0)
    <3>1. CASE CourseOf(q) = c
      BY <1>4, <3>1, Balance
    <3>2. CASE CourseOf(q) # c
      BY <1>4, <3>2, Balance
    <3> QED BY <3>1, <3>2
  <2>4. PICK n \in Nat : n = (IF CourseOf(q) = c THEN 1 ELSE 0)
    OBVIOUS
  <2>5. /\ Cardinality(Lowering(c)') = Cardinality(Lowering(c)) - n
        /\ totalWishlists'[c] = totalWishlists[c] - n
    BY <2>2, <2>3, <2>4, Balance
  <2> QED BY <1>5, <2>1, <2>2, <2>5, Balance
<1>8. CountsWhatItStored'
  BY <1>1, <1>3, <1>5, IdleCallTyped, TurnedStored DEF SavedInv
<1>9. Rewards'
  BY <1>5, KeepsRewards DEF SavedInv
<1> QED BY <1>5, <1>6, <1>7, <1>8, <1>9 DEF SavedInv, Conserved

----------------------------------------------------------------------------
(***************************************************************************)
(* Faults, the enrolment, the listeners, the catalogue                     *)
(***************************************************************************)

LEMMA SaveRequestFailsInv ==
  ASSUME SavedInv, NEW q \in SaveRequests, SaveRequestFails(q)
  PROVE  SavedInv'
<1>1. SavedTypeOK /\ saves' \in 0..MaxSaves /\ faults' \in 0..MaxFaults
  BY BoundsNat DEF SaveRequestFails, SavedInv, SavedTypeOK
<1>2. Turns(q, IdleCall)
  BY <1>1, AnswerTurns DEF SaveRequestFails
<1>3. /\ UNCHANGED <<stage, tally, deleted, saved, totalWishlists, everSaved>>
      /\ UNCHANGED listenerVars
  BY DEF SaveRequestFails, ledgerVars
<1>4. /\ unraised' = [c \in Courses |-> unraised[c] + IF q \in Raising(c) THEN 1 ELSE 0]
      /\ unlowered' = [c \in Courses |-> unlowered[c] + IF q \in Lowering(c) THEN 1 ELSE 0]
  BY DEF SaveRequestFails
<1>5. unraised' \in [Courses -> Nat] /\ unlowered' \in [Courses -> Nat]
  BY <1>1, <1>4 DEF SavedTypeOK
<1>6. SavedTypeOK'
  BY <1>1, <1>2, <1>3, <1>5 DEF SavedTypeOK, LedgerTypeOK, Turns, listenerVars
<1>7. ASSUME NEW c \in Courses
      PROVE  totalWishlists'[c] + Cardinality(Raising(c)') + unraised'[c]
               = Cardinality(Savers(c)') + Cardinality(Lowering(c)') + unlowered'[c]
  <2>1. Savers(c)' = Savers(c)
    BY <1>3 DEF Savers
  <2>2. /\ Cardinality(Raising(c)')
              = Cardinality(Raising(c)) - (IF q \in Raising(c) THEN 1 ELSE 0) + 0
        /\ Cardinality(Lowering(c)')
              = Cardinality(Lowering(c)) - (IF q \in Lowering(c) THEN 1 ELSE 0) + 0
    BY <1>2, IdleCallTyped, TurnedNumbers DEF Raising, Lowering, Awaiting
  <2>3. /\ unraised'[c] = unraised[c] + (IF q \in Raising(c) THEN 1 ELSE 0)
        /\ unlowered'[c] = unlowered[c] + (IF q \in Lowering(c) THEN 1 ELSE 0)
    BY <1>4
  <2> QED BY <1>3, <2>1, <2>2, <2>3, Balance
<1>8. CountsWhatItStored'
  BY <1>1, <1>2, <1>3, IdleCallTyped, TurnedStored DEF SavedInv
<1>9. Rewards'
  BY <1>3, KeepsRewards DEF SavedInv
<1> QED BY <1>3, <1>6, <1>7, <1>8, <1>9 DEF SavedInv, Conserved

\* A stop forgets what was under way, and the history remembers the counts
\* that are lost with it.
LEMMA ProcessStopsInv ==
  ASSUME SavedInv, ProcessStops
  PROVE  SavedInv'
<1>1. SavedTypeOK /\ saves' \in 0..MaxSaves /\ faults' \in 0..MaxFaults
  BY BoundsNat DEF ProcessStops, SavedInv, SavedTypeOK
<1>2. /\ UNCHANGED <<stage, tally, deleted, saved, totalWishlists, everSaved, points, notices>>
      /\ saveCall' = NoCalls /\ awarding' = ZeroPerPair /\ noticing' = ZeroPerPair
      /\ unraised' = [c \in Courses |-> unraised[c] + Cardinality(Raising(c))]
      /\ unlowered' = [c \in Courses |-> unlowered[c] + Cardinality(Lowering(c))]
  BY DEF ProcessStops, ledgerVars
<1>3. SavedTypeOK'
  <2>1. saveCall' \in [SaveRequests -> SaveCall]
    BY <1>2, IdleCallTyped DEF NoCalls
  <2>2. unraised' \in [Courses -> Nat] /\ unlowered' \in [Courses -> Nat]
    BY <1>2, Balance
  <2>3. ZeroPerPair \in PerPair
    BY DEF ZeroPerPair, PerPair
  <2> QED BY <1>1, <1>2, <2>1, <2>2, <2>3 DEF SavedTypeOK, LedgerTypeOK
<1>4. ASSUME NEW c \in Courses
      PROVE  totalWishlists'[c] + Cardinality(Raising(c)') + unraised'[c]
               = Cardinality(Savers(c)') + Cardinality(Lowering(c)') + unlowered'[c]
  <2>1. Savers(c)' = Savers(c)
    BY <1>2 DEF Savers
  <2>2. Raising(c)' = {} /\ Lowering(c)' = {}
    BY <1>2, IdleCallTyped DEF Raising, Lowering, Awaiting, NoCalls
  <2>3. /\ unraised'[c] = unraised[c] + Cardinality(Raising(c))
        /\ unlowered'[c] = unlowered[c] + Cardinality(Lowering(c))
    BY <1>2
  <2> QED BY <1>2, <2>1, <2>2, <2>3, FS_EmptySet, Balance
<1>5. CountsWhatItStored'
  BY <1>2, IdleCallTyped DEF CountsWhatItStored, NoCalls
<1>6. Rewards'
  BY <1>1, <1>2 DEF SavedInv, Rewards, ZeroPerPair, SavedTypeOK, PerPair
<1> QED BY <1>2, <1>3, <1>4, <1>5, <1>6 DEF SavedInv, Conserved

\* What holds of the wish list as long as nobody touches it.
LEMMA KeepsWishList ==
  ASSUME SavedInv, UNCHANGED <<wishVars, saveCall>>
  PROVE  /\ IsFiniteSet(saved') /\ Conserved' /\ CountsWhatItStored'
<1>1. UNCHANGED <<saved, totalWishlists, unraised, unlowered, everSaved, saveCall>>
  BY DEF wishVars
<1>2. Conserved'
  BY <1>1 DEF SavedInv, Conserved, Raising, Lowering, Savers, Awaiting, CourseOf
<1> QED BY <1>1, <1>2 DEF SavedInv, CountsWhatItStored

\* An enrolment is announced once: before, nothing was started for its pair
\* unless the pair was saved.
LEMMA EnrollmentStepInv ==
  ASSUME SavedInv, NEW s \in Students, NEW c \in Courses, EnrollmentStep(s, c)
  PROVE  SavedInv'
<1>1. SavedTypeOK /\ stage \in [Pairs -> Stages] /\ tally \in [Courses -> Nat]
  BY DEF SavedInv, SavedTypeOK, LedgerTypeOK
<1>2. <<s, c>> \in Pairs
  BY DEF Pairs
<1>3. /\ stage[<<s, c>>] # "announced"
      /\ stage' \in [Pairs -> Stages] /\ tally' \in [Courses -> Nat]
      /\ \A p \in Pairs : p # <<s, c>> => stage'[p] = stage[p]
  BY <1>1, <1>2 DEF EnrollmentStep, Store, Count, Tell, Advance, Stages
<1>4. UNCHANGED <<deleted, wishVars, saveCall, bounds>>
  BY DEF EnrollmentStep
<1>5. /\ awarding' \in PerPair /\ points' \in PerPair
      /\ noticing' \in PerPair /\ notices' \in PerPair
      /\ UNCHANGED <<points, notices>>
      /\ \A p \in Pairs : p # <<s, c>> => awarding'[p] = awarding[p] /\ noticing'[p] = noticing[p]
      /\ \/ /\ stage'[<<s, c>>] = "announced"
            /\ awarding'[<<s, c>>] = awarding[<<s, c>>] + 1
            /\ noticing'[<<s, c>>] = noticing[<<s, c>>] + 1
         \/ UNCHANGED <<awarding, noticing>>
  <2>1. CASE stage'[<<s, c>>] = "announced"
    BY <1>1, <1>2, <2>1, EmitTyped DEF EnrollmentStep
  <2>2. CASE stage'[<<s, c>>] # "announced"
    BY <1>1, <2>2 DEF EnrollmentStep, SavedTypeOK, listenerVars
  <2> QED BY <2>1, <2>2
<1>6. SavedTypeOK'
  BY <1>1, <1>3, <1>4, <1>5 DEF SavedTypeOK, LedgerTypeOK, wishVars, bounds
<1>7. ASSUME NEW p \in Pairs \ everSaved
      PROVE  /\ awarding'[p] + points'[p] <= 1 /\ noticing'[p] + notices'[p] <= 1
             /\ awarding'[p] + points'[p] + noticing'[p] + notices'[p] > 0
                  => stage'[p] = "announced"
  <2>1. /\ awarding[p] \in Nat /\ points[p] \in Nat /\ noticing[p] \in Nat /\ notices[p] \in Nat
        /\ awarding[p] + points[p] <= 1 /\ noticing[p] + notices[p] <= 1
        /\ awarding[p] + points[p] + noticing[p] + notices[p] > 0 => stage[p] = "announced"
    BY <1>1 DEF SavedInv, Rewards, SavedTypeOK, PerPair
  <2>2. CASE p # <<s, c>>
    BY <1>3, <1>5, <2>1, <2>2
  <2>3. CASE p = <<s, c>>
    <3>1. /\ awarding[p] = 0 /\ points[p] = 0 /\ noticing[p] = 0 /\ notices[p] = 0
      BY <1>3, <2>1, <2>3
    <3> QED BY <1>5, <2>3, <3>1
  <2> QED BY <2>2, <2>3
<1>8. Rewards'
  BY <1>4, <1>7 DEF Rewards, wishVars
<1> QED BY <1>4, <1>6, <1>8, KeepsWishList DEF SavedInv

LEMMA ListenInv ==
  ASSUME SavedInv, NEW p \in Pairs, Listen(p)
  PROVE  SavedInv'
<1>1. /\ SavedTypeOK
      /\ awarding \in [Pairs -> Nat] /\ points \in [Pairs -> Nat]
      /\ noticing \in [Pairs -> Nat] /\ notices \in [Pairs -> Nat]
  BY DEF SavedInv, SavedTypeOK, PerPair
<1>2. UNCHANGED <<stage, tally, deleted, wishVars, saveCall, saves, faults>>
  BY DEF Listen, AwardPoints, CreateNotification, ledgerVars, bounds
<1>3. /\ awarding' \in PerPair /\ points' \in PerPair
      /\ noticing' \in PerPair /\ notices' \in PerPair
      /\ \A r \in Pairs : /\ awarding'[r] + points'[r] = awarding[r] + points[r]
                          /\ noticing'[r] + notices'[r] = noticing[r] + notices[r]
  <2>1. CASE AwardPoints(p)
    <3>1. /\ awarding[p] > 0 /\ awarding' = Plus(awarding, p, -1)
          /\ points' = Plus(points, p, 1) /\ UNCHANGED <<noticing, notices>>
      BY <2>1 DEF AwardPoints
    <3>2. awarding[p] + (-1) \in Nat /\ points[p] + 1 \in Nat
      BY <1>1, <3>1
    <3>3. /\ awarding' \in [Pairs -> Nat] /\ awarding'[p] = awarding[p] + (-1)
          /\ \A r \in Pairs : r # p => awarding'[r] = awarding[r]
      BY <1>1, <3>1, <3>2, PlusTyped
    <3>4. /\ points' \in [Pairs -> Nat] /\ points'[p] = points[p] + 1
          /\ \A r \in Pairs : r # p => points'[r] = points[r]
      BY <1>1, <3>1, <3>2, PlusTyped
    <3>5. awarding'[p] + points'[p] = awarding[p] + points[p]
      BY <1>1, <3>3, <3>4
    <3> QED BY <1>1, <3>1, <3>3, <3>4, <3>5 DEF PerPair
  <2>2. CASE CreateNotification(p)
    <3>1. /\ noticing[p] > 0 /\ noticing' = Plus(noticing, p, -1)
          /\ notices' = Plus(notices, p, 1) /\ UNCHANGED <<awarding, points>>
      BY <2>2 DEF CreateNotification
    <3>2. noticing[p] + (-1) \in Nat /\ notices[p] + 1 \in Nat
      BY <1>1, <3>1
    <3>3. /\ noticing' \in [Pairs -> Nat] /\ noticing'[p] = noticing[p] + (-1)
          /\ \A r \in Pairs : r # p => noticing'[r] = noticing[r]
      BY <1>1, <3>1, <3>2, PlusTyped
    <3>4. /\ notices' \in [Pairs -> Nat] /\ notices'[p] = notices[p] + 1
          /\ \A r \in Pairs : r # p => notices'[r] = notices[r]
      BY <1>1, <3>1, <3>2, PlusTyped
    <3>5. noticing'[p] + notices'[p] = noticing[p] + notices[p]
      BY <1>1, <3>3, <3>4
    <3> QED BY <1>1, <3>1, <3>3, <3>4, <3>5 DEF PerPair
  <2> QED BY <2>1, <2>2 DEF Listen
<1>4. SavedTypeOK'
  BY <1>1, <1>2, <1>3 DEF SavedTypeOK, LedgerTypeOK, wishVars
<1>5. ASSUME NEW r \in Pairs \ everSaved
      PROVE  /\ awarding'[r] + points'[r] <= 1 /\ noticing'[r] + notices'[r] <= 1
             /\ awarding'[r] + points'[r] + noticing'[r] + notices'[r] > 0
                  => stage'[r] = "announced"
  <2>1. /\ awarding[r] \in Nat /\ points[r] \in Nat /\ noticing[r] \in Nat /\ notices[r] \in Nat
        /\ awarding'[r] \in Nat /\ points'[r] \in Nat
        /\ noticing'[r] \in Nat /\ notices'[r] \in Nat
    BY <1>1, <1>3 DEF PerPair
  <2>2. /\ awarding[r] + points[r] <= 1 /\ noticing[r] + notices[r] <= 1
        /\ awarding[r] + points[r] + noticing[r] + notices[r] > 0 => stage[r] = "announced"
    BY DEF SavedInv, Rewards
  <2> QED BY <1>2, <1>3, <2>1, <2>2
<1>6. Rewards'
  BY <1>2, <1>5 DEF Rewards, wishVars
<1> QED BY <1>2, <1>4, <1>6, KeepsWishList DEF SavedInv

LEMMA CourseIsDeletedInv ==
  ASSUME SavedInv, NEW c \in Courses, CourseIsDeleted(c)
  PROVE  SavedInv'
<1>1. SavedTypeOK'
  BY DEF CourseIsDeleted, SavedInv, SavedTypeOK, LedgerTypeOK, ledgerVars, wishVars,
         listenerVars, bounds
<1>2. Rewards'
  BY KeepsRewards DEF CourseIsDeleted, SavedInv, wishVars, ledgerVars
<1> QED BY <1>1, <1>2, KeepsWishList DEF CourseIsDeleted, SavedInv

LEMMA SavedStutterInv ==
  ASSUME SavedInv, UNCHANGED allVars
  PROVE  SavedInv'
<1>1. SavedTypeOK'
  BY DEF allVars, SavedInv, SavedTypeOK, LedgerTypeOK, ledgerVars, wishVars,
         listenerVars, bounds
<1>2. Rewards'
  BY KeepsRewards DEF allVars, SavedInv, wishVars, ledgerVars
<1> QED BY <1>1, <1>2, KeepsWishList DEF allVars, SavedInv

LEMMA SavedNextInv == SavedInv /\ [SavedNext]_allVars => SavedInv'
<1> SUFFICES ASSUME SavedInv, [SavedNext]_allVars PROVE SavedInv'
  OBVIOUS
<1>1. ASSUME NEW q \in SaveRequests, ServeSave(q) PROVE SavedInv'
  BY <1>1, StartSaveCallInv, ReadCourseInv, AddReadExistingInv, AddInsertInv, AddCountInv,
     RemoveDeleteInv, RemoveCountInv DEF ServeSave
<1>2. ASSUME NEW q \in SaveRequests, SaveRequestFails(q) PROVE SavedInv'
  BY <1>2, SaveRequestFailsInv
<1>3. ASSUME NEW s \in Students, NEW c \in Courses, EnrollmentStep(s, c) PROVE SavedInv'
  BY <1>3, EnrollmentStepInv
<1>4. ASSUME NEW p \in Pairs, Listen(p) PROVE SavedInv'
  BY <1>4, ListenInv
<1>5. CASE ProcessStops
  BY <1>5, ProcessStopsInv
<1>6. ASSUME NEW c \in Courses, CourseIsDeleted(c) PROVE SavedInv'
  BY <1>6, CourseIsDeletedInv
<1>7. CASE UNCHANGED allVars
  BY <1>7, SavedStutterInv
<1> QED BY <1>1, <1>2, <1>3, <1>4, <1>5, <1>6, <1>7 DEF SavedNext

LEMMA SavedInvHolds == SavedSpec => []SavedInv
  BY SavedInitInv, SavedNextInv, PTL DEF SavedSpec

----------------------------------------------------------------------------
(***************************************************************************)
(* The theorems                                                            *)
(***************************************************************************)

\* For any courses, students and request slots: with the increments and
\* decrements under way or lost, a course's wish list counter is the number
\* of students who saved it, in every interleaving of additions, removals,
\* failures and stops.
THEOREM WishlistIsConserved == SavedSpec => []WishlistConserved
<1>1. SavedInv => WishlistConserved
  BY DEF SavedInv, Conserved, Savers, WishlistConserved
<1> QED BY <1>1, SavedInvHolds, PTL

\* Whoever never saved a course is rewarded and notified for it at most once,
\* and only for an enrolment that was announced: the listeners, however late,
\* settle each announcement once.
THEOREM RewardedAtMostOnce == SavedSpec => []RewardedOnceForEnrolment
<1>1. SavedInv => RewardedOnceForEnrolment
  <2> SUFFICES ASSUME SavedInv, NEW p \in Pairs \ everSaved
               PROVE  /\ awarding[p] + points[p] <= 1
                      /\ noticing[p] + notices[p] <= 1
                      /\ points[p] + notices[p] > 0 => stage[p] = "announced"
    BY DEF RewardedOnceForEnrolment
  <2>1. /\ awarding[p] \in Nat /\ points[p] \in Nat /\ noticing[p] \in Nat /\ notices[p] \in Nat
    BY DEF SavedInv, SavedTypeOK, PerPair
  <2> QED BY <2>1 DEF SavedInv, Rewards
<1> QED BY <1>1, SavedInvHolds, PTL
=============================================================================
