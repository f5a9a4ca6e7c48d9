----------------------- MODULE CourseLifecycleProofs -----------------------
(***************************************************************************)
(* Proofs about CourseLifecycle, for any courses, tutors, numbers of       *)
(* requests in flight and of curricula written.                            *)
(*                                                                         *)
(* What a request is about to save was decided on a document that has      *)
(* since changed.  The invariant says what survives of the decision: that  *)
(* the document is still there, that what offers it follows an approval    *)
(* that stands or has been overtaken, and that the version it has seen     *)
(* tells whether its curriculum is current.                                *)
(***************************************************************************)
EXTENDS CourseLifecycle, FiniteSetTheorems, TLAPS

\* A request has what it needs; a creation works on a course that is not there
\* yet, every other save on one that is.
InForce(q) ==
  /\ q.pc # "idle" => q.course \in Courses /\ q.actor \in Actors /\ q.op \in Ops
  /\ q.pc = "load" => q.op # "create"
  /\ q.pc = "save" => (q.op = "create" <=> status[q.course] = "absent")

\* What is about to be saved offers a course only if it is an approval, follows
\* one that stands, or is overtaken.
Decided(q, late) ==
  q.pc = "save" /\ q.op # "create" /\ q.delta.status \in Offered =>
    q.op = "approve" \/ late \/ approval[q.course] # "none"

\* A version that is still the document's belongs to the curriculum seen.
Current(q) ==
  q.pc = "save" /\ q.op # "create" =>
    /\ q.seenVersion <= version[q.course]
    /\ q.seenVersion = version[q.course] => q.seenCurriculum = curriculum[q.course]

Sound(q, late) == InForce(q) /\ Decided(q, late) /\ Current(q)

Creates(q) == q.pc = "save" /\ q.op = "create"

\* No two requests are about to insert one course.
OneCreator ==
  \A r, p \in Requests :
    Creates(request[r]) /\ Creates(request[p]) /\ request[r].course = request[p].course
      => r = p

CourseInv ==
  /\ TypeOK
  /\ \A r \in Requests : Sound(request[r], r \in overtaken)
  /\ OneCreator
  /\ OfferedUnlessOvertaken

----------------------------------------------------------------------------
(***************************************************************************)
(* Values                                                                  *)
(***************************************************************************)

LEMMA NoDeltaIsDelta == NoDelta \in Delta /\ NoDelta.status = Keep /\ NoDelta.curriculum = -1
  BY DEF NoDelta, Delta

LEMMA IdleIsRequest ==
  /\ Idle \in Request /\ Idle.pc = "idle" /\ Idle.op = "none"
  BY RevisionsNat, NoDeltaIsDelta DEF Idle, Request, Revisions, Empty

LEMMA ToStatsIsRequest ==
  ASSUME NEW q, q.op \in Ops, q.actor \in Actors, q.course \in Courses
  PROVE  /\ ToStats(q) \in Request
         /\ ToStats(q).pc = "stats" /\ ToStats(q).op = q.op
         /\ ToStats(q).actor = q.actor /\ ToStats(q).course = q.course
  BY IdleIsRequest DEF ToStats, Request

\* The data of a request are data a save can send.
LEMMA DtosAreDeltas == FreshDtos \subseteq Delta
  BY DEF FreshDtos, Delta

\* What a handler makes of a document it may touch is a delta; it offers the
\* course only by an approval, or by publishing or withdrawing it.
LEMMA DeltaOfIsDelta ==
  ASSUME NEW q \in Request, q.op \in Ops, q.op # "create", q.actor \in Actors
  PROVE  /\ DeltaOf(q) \in Delta
         /\ DeltaOf(q).status \in Offered => q.op \in {"approve", "publish", "unpublish"}
<1>1. CASE q.op = "update"
  <2> DEFINE back == status[q.course] = "published" /\ q.actor # Admin /\ q.dto.curriculum # -1
             same == q.dto.price = "free" /\ q.course \notin priced
             s == IF back THEN "pending" ELSE Keep
  <2>1. DeltaOf(q) = [q.dto EXCEPT !.status = s, !.price = IF same THEN Keep ELSE @]
    BY <1>1 DEF DeltaOf, UpdateDelta
  <2>2. q.dto \in Delta
    BY DEF Request
  <2>3. s \in {"pending", Keep}
    OBVIOUS
  <2> HIDE DEF s, same
  <2>4. DeltaOf(q) \in Delta /\ DeltaOf(q).status = s
    BY <2>1, <2>2, <2>3 DEF Delta, Statuses
  <2> QED BY <2>3, <2>4 DEF Offered, Keep
<1>2. CASE q.op = "delete"
  <2>1. DeltaOf(q) = [NoDelta EXCEPT !.deletedBy = q.actor]
    BY <1>2 DEF DeltaOf
  <2>2. DeltaOf(q) \in Delta /\ DeltaOf(q).status = Keep
    BY <2>1, NoDeltaIsDelta DEF Delta
  <2> QED BY <2>2 DEF Offered, Keep
<1>3. CASE q.op \notin {"update", "delete"}
  <2>1. DeltaOf(q) = [NoDelta EXCEPT !.status = Target(q.op)]
    BY <1>3 DEF DeltaOf
  <2>2. /\ Target(q.op) \in Statuses
        /\ Target(q.op) \in Offered => q.op \in {"approve", "publish", "unpublish"}
    BY <1>3 DEF Target, Statuses, Offered, Ops
  <2>3. DeltaOf(q) \in Delta /\ DeltaOf(q).status = Target(q.op)
    BY <2>1, <2>2, NoDeltaIsDelta DEF Delta
  <2> QED BY <2>2, <2>3
<1> QED BY <1>1, <1>2, <1>3

----------------------------------------------------------------------------
(***************************************************************************)
(* The invariant at the beginning, and over steps that change no document  *)
(***************************************************************************)

LEMMA CourseStart == Init => CourseInv
<1> SUFFICES ASSUME Init PROVE CourseInv
  OBVIOUS
<1>1. \A r \in Requests : request[r] = Idle
  BY DEF Init
<1>2. TypeOK
  BY RevisionsNat, IdleIsRequest DEF Init, TypeOK, Revisions, Empty, Approvals
<1>3. \A r \in Requests : Sound(request[r], r \in overtaken)
  BY <1>1, IdleIsRequest DEF Sound, InForce, Decided, Current
<1>4. OneCreator
  BY <1>1, IdleIsRequest DEF OneCreator, Creates
<1>5. OfferedUnlessOvertaken
  BY DEF Init, OfferedUnlessOvertaken, Offered
<1> QED BY <1>2, <1>3, <1>4, <1>5 DEF CourseInv

\* A slot changes to a sound one, and the documents stay.
LEMMA SlotChanges ==
  ASSUME CourseInv, NEW r \in Requests, NEW q \in Request, Sound(q, r \in overtaken'),
         request' = [request EXCEPT ![r] = q],
         \A p \in Requests : p # r => (p \in overtaken' <=> p \in overtaken),
         \A p \in Requests : Creates(q) /\ Creates(request[p]) /\ request[p].course = q.course
                               => p = r,
         UNCHANGED <<courseVars, approval>>
  PROVE  /\ request' \in [Requests -> Request]
         /\ \A p \in Requests : Sound(request[p], p \in overtaken)'
         /\ OneCreator'
         /\ OfferedUnlessOvertaken'
<1> USE DEF CourseInv
<1>1. request \in [Requests -> Request]
  BY DEF TypeOK
<1>2. request'[r] = q /\ \A p \in Requests : p # r => request'[p] = request[p]
  BY <1>1
<1>3. \A p \in Requests : Sound(request[p], p \in overtaken)'
  <2> TAKE p \in Requests
  <2>1. CASE p = r
    BY <1>2, <2>1 DEF Sound, InForce, Decided, Current, courseVars
  <2>2. CASE p # r
    BY <1>2, <2>2 DEF Sound, InForce, Decided, Current, courseVars
  <2> QED BY <2>1, <2>2
<1>4. OneCreator'
  BY <1>2 DEF OneCreator, Creates
<1>5. OfferedUnlessOvertaken'
  BY DEF OfferedUnlessOvertaken, courseVars
<1> QED BY <1>1, <1>3, <1>4, <1>5

\* A slot that has been answered is sound.
LEMMA AnswerKeeps ==
  ASSUME CourseInv, NEW r \in Requests, Answer(r), UNCHANGED <<courseVars, approval>>
  PROVE  /\ overtaken' \in SUBSET Requests
         /\ request' \in [Requests -> Request]
         /\ \A p \in Requests : Sound(request[p], p \in overtaken)'
         /\ OneCreator'
         /\ OfferedUnlessOvertaken'
<1>1. Sound(Idle, r \in overtaken') /\ ~Creates(Idle)
  BY IdleIsRequest DEF Sound, InForce, Decided, Current, Creates
<1>2. /\ request' = [request EXCEPT ![r] = Idle]
      /\ overtaken' = overtaken \ {r}
  BY DEF Answer
<1>3. /\ overtaken' \in SUBSET Requests
      /\ \A p \in Requests : p # r => (p \in overtaken' <=> p \in overtaken)
  BY <1>2 DEF CourseInv, TypeOK
<1> QED BY <1>1, <1>2, <1>3, IdleIsRequest, SlotChanges

----------------------------------------------------------------------------
(***************************************************************************)
(* Every action keeps the invariant.                                       *)
(***************************************************************************)

\* The rest of the types, where only the slots change.
LEMMA TypeFromParts ==
  ASSUME TypeOK, request' \in [Requests -> Request], overtaken' \in SUBSET Requests,
         UNCHANGED <<courseVars, enrolledIn, totalCourses, lastRevision, vetted, approval,
                     decremented, countedLate>>
  PROVE  TypeOK'
  BY DEF TypeOK, courseVars

LEMMA ReceiveKeeps ==
  ASSUME CourseInv, NEW r \in Requests, NEW actor \in Actors, NEW op \in Ops,
         NEW c \in Courses, NEW dto \in FreshDtos, Receive(r, actor, op, c, dto)
  PROVE  CourseInv'
<1> USE DEF CourseInv
<1> DEFINE pc == IF op = "create" THEN "save" ELSE "load"
           q == [Idle EXCEPT !.pc = pc, !.op = op, !.actor = actor,
                             !.course = c, !.dto = dto]
<1>1. request' = [request EXCEPT ![r] = q]
  BY DEF Receive
<1>2. dto \in Delta
  BY DtosAreDeltas
<1>3. /\ q \in Request
      /\ q.pc = pc /\ q.op = op /\ q.actor = actor /\ q.course = c
  BY <1>2, IdleIsRequest DEF Request
<1>4. op = "create" => status[c] = "absent" /\ \A p \in Requests : request[p].course # c
  BY DEF Receive
<1> HIDE DEF q
<1>5. Sound(q, r \in overtaken')
  BY <1>3, <1>4 DEF Sound, InForce, Decided, Current
<1>6. /\ request' \in [Requests -> Request]
      /\ \A p \in Requests : Sound(request[p], p \in overtaken)'
      /\ OneCreator' /\ OfferedUnlessOvertaken'
  <2>1. \A p \in Requests : Creates(q) /\ Creates(request[p]) /\ request[p].course = q.course
                             => p = r
    BY <1>3, <1>4 DEF Creates
  <2>2. UNCHANGED <<courseVars, approval, overtaken>>
    BY DEF Receive, history, reviews
  <2> QED BY <1>1, <1>3, <1>5, <2>1, <2>2, SlotChanges
<1>7. lastRevision' \in Revisions
  BY <1>2 DEF Receive, Delta, TypeOK, Revisions
<1>8. TypeOK'
  BY <1>6, <1>7 DEF Receive, TypeOK, courseVars, history, reviews
<1> QED BY <1>6, <1>8

\* A handler that goes on has found a document, and its status decides what
\* will be saved.
LEMMA LoadKeeps ==
  ASSUME CourseInv, NEW r \in Requests, Load(r)
  PROVE  CourseInv'
<1> USE DEF CourseInv
<1> DEFINE q == request[r]
           x == [q EXCEPT !.pc = "save", !.dto = NoDelta, !.delta = DeltaOf(q),
                          !.seenVersion = version[q.course],
                          !.seenCurriculum = curriculum[q.course]]
<1>1. /\ q \in Request /\ q.pc = "load"
      /\ UNCHANGED <<courseVars, enrolledIn, totalCourses, lastRevision, vetted, approval,
                     decremented, countedLate>>
  BY DEF Load, TypeOK
<1>2. q.course \in Courses /\ q.actor \in Actors /\ q.op \in Ops /\ q.op # "create"
  BY <1>1 DEF Sound, InForce
<1>3. UNCHANGED <<courseVars, approval>>
  BY <1>1
<1>4. CASE Answer(r)
  BY <1>1, <1>3, <1>4, AnswerKeeps, TypeFromParts
<1>5. CASE /\ Live(q.course) /\ Guard(q) /\ request' = [request EXCEPT ![r] = x]
           /\ UNCHANGED overtaken
  <2>1. DeltaOf(q) \in Delta
    BY <1>1, <1>2, DeltaOfIsDelta
  <2>2. version[q.course] \in Nat /\ curriculum[q.course] \in Revisions
    BY <1>2 DEF TypeOK
  <2>3. /\ x \in Request
        /\ x.pc = "save" /\ x.op = q.op /\ x.course = q.course /\ x.actor = q.actor
        /\ x.delta = DeltaOf(q) /\ x.seenVersion = version[q.course]
        /\ x.seenCurriculum = curriculum[q.course]
    BY <1>1, <2>1, <2>2, NoDeltaIsDelta DEF Request
  <2> HIDE DEF x
  <2>4. InForce(x)
    BY <1>2, <1>5, <2>3 DEF InForce, Live, Created
  <2>5. Decided(x, r \in overtaken)
    <3> SUFFICES ASSUME DeltaOf(q).status \in Offered, q.op # "approve"
                 PROVE  approval[q.course] # "none"
      BY <1>5, <2>3 DEF Decided
    <3>1. q.op \in {"publish", "unpublish"}
      BY <1>1, <1>2, DeltaOfIsDelta
    <3>2. status[q.course] \in Offered
      BY <1>5, <3>1 DEF Guard, Offered
    <3> QED BY <1>2, <1>3, <3>2 DEF OfferedUnlessOvertaken
  <2>6. Current(x)
    BY <2>2, <2>3 DEF Current
  <2>7. Sound(x, r \in overtaken) /\ ~Creates(x)
    BY <1>2, <2>3, <2>4, <2>5, <2>6 DEF Sound, Creates
  <2>8. /\ request' \in [Requests -> Request]
        /\ \A p \in Requests : Sound(request[p], p \in overtaken)'
        /\ OneCreator' /\ OfferedUnlessOvertaken'
    BY <1>3, <1>5, <2>3, <2>7, SlotChanges
  <2> QED BY <1>1, <1>5, <2>8, TypeFromParts DEF TypeOK
<1> QED BY <1>4, <1>5 DEF Load

\* A save writes its delta; what the other requests have decided survives it,
\* and those that have seen the old curriculum have seen an older version.
LEMMA ApplyKeeps ==
  ASSUME CourseInv, NEW r \in Requests, request[r].pc = "save", request[r].op # "create",
         Apply(r, request[r]),
         UNCHANGED <<enrolledIn, totalCourses, lastRevision, decremented, countedLate>>
  PROVE  CourseInv'
<1> USE DEF CourseInv
<1> DEFINE q == request[r]
           c == q.course
           d == q.delta
<1>1. q \in Request /\ c \in Courses /\ q.actor \in Actors /\ q.op \in Ops /\ d \in Delta
  BY DEF TypeOK, Sound, InForce, Request
<1>2. /\ status[c] # "absent" /\ status[c] \in Statuses
      /\ version[c] \in Nat /\ curriculum[c] \in Revisions
  BY <1>1 DEF Sound, InForce, TypeOK
<1> DEFINE new == Approval(r, q)
<1>3. /\ new \in Approvals
      /\ d.status \in Offered => new # "none"
      /\ approval[c] # "none" /\ new = "none" => d.status \in {"pending", "rejected"}
  <2>1. approval[c] \in Approvals
    BY <1>1 DEF TypeOK
  <2>2. d.status \in Offered => q.op = "approve" \/ r \in overtaken \/ approval[c] # "none"
    BY DEF Sound, Decided
  <2>3. d.status \in Offered => d.status \notin {"pending", "rejected"}
    BY DEF Offered
  <2> QED BY <2>1, <2>2, <2>3 DEF Approval, Approvals
<1>4. /\ status' = [status EXCEPT ![c] = IF d.status = Keep THEN @ ELSE d.status]
      /\ curriculum' = [curriculum EXCEPT ![c] = IF d.curriculum = -1 THEN @ ELSE d.curriculum]
      /\ version' = [version EXCEPT ![c] = IF d.curriculum = -1 THEN @ ELSE @ + 1]
      /\ priced' = Priced(c, d.price)
      /\ deletedBy' = [deletedBy EXCEPT ![c] = IF d.deletedBy = None THEN @ ELSE d.deletedBy]
      /\ vetted' = IF Vets(q) THEN vetted \cup {c} ELSE vetted \ {c}
      /\ approval' = [approval EXCEPT ![c] = new]
      /\ overtaken' = (overtaken \cup Overtakes(q)) \ {r}
  BY DEF Apply
<1>5. PICK x \in Request :
        /\ request' = [request EXCEPT ![r] = x] /\ x.pc \in {"idle", "stats"}
        /\ x.pc = "stats" => x.course \in Courses /\ x.actor \in Actors /\ x.op \in Ops
  <2>1. CASE q.op = "delete"
    BY <1>1, <2>1, ToStatsIsRequest DEF Apply
  <2>2. CASE q.op # "delete"
    BY <2>2, IdleIsRequest DEF Apply
  <2> QED BY <2>1, <2>2
<1> HIDE DEF new
<1>6. request \in [Requests -> Request]
  BY DEF TypeOK
<1>7. request'[r] = x /\ \A p \in Requests : p # r => request'[p] = request[p]
  BY <1>5, <1>6
<1>8. TypeOK'
  <2>1. /\ d.status \in Statuses \cup {Keep} /\ d.curriculum \in Revisions \cup {-1}
        /\ d.deletedBy \in Actors \cup {None}
    BY <1>1 DEF Delta
  <2>2. priced' \in SUBSET Courses
    BY <1>1, <1>4 DEF Priced, TypeOK
  <2>3. /\ status' \in [Courses -> Statuses \cup {"absent"}]
        /\ curriculum' \in [Courses -> Revisions]
        /\ version' \in [Courses -> Nat]
        /\ deletedBy' \in [Courses -> Actors \cup {None}]
        /\ approval' \in [Courses -> Approvals]
    BY <1>1, <1>2, <1>3, <1>4, <2>1 DEF TypeOK
  <2>4. request' \in [Requests -> Request]
    BY <1>5, <1>6
  <2>5. vetted' \in SUBSET Courses
    BY <1>1, <1>4 DEF TypeOK
  <2>6. overtaken' \in SUBSET Requests
    BY <1>4 DEF TypeOK, Overtakes
  <2> QED BY <2>2, <2>3, <2>4, <2>5, <2>6 DEF TypeOK
<1>9. \A p \in Requests : Sound(request[p], p \in overtaken)'
  <2> TAKE p \in Requests
  <2>1. CASE p = r
    BY <1>5, <1>7, <2>1 DEF Sound, InForce, Decided, Current
  <2>2. CASE p # r
    <3> DEFINE e == request[p].course
    <3>1. request'[p] = request[p] /\ request[p] \in Request
      BY <1>6, <1>7, <2>2
    <3>2. ASSUME request[p].pc = "save" PROVE e \in Courses
      BY <3>2 DEF Sound, InForce
    <3>3. InForce(request[p])'
      <4>1. ASSUME NEW f \in Courses PROVE status'[f] = "absent" <=> status[f] = "absent"
        BY <1>1, <1>2, <1>4 DEF TypeOK, Delta, Statuses, Keep
      <4> QED BY <3>1, <3>2, <4>1 DEF Sound, InForce
    <3>4. Decided(request[p], p \in overtaken)'
      <4> SUFFICES ASSUME request[p].pc = "save", request[p].op # "create",
                          request[p].delta.status \in Offered, request[p].op # "approve",
                          p \notin overtaken'
                   PROVE  approval'[e] # "none"
        BY <3>1 DEF Decided
      <4>1. p \notin overtaken
        BY <1>4, <2>2
      <4>2. approval[e] # "none" /\ e \in Courses
        BY <3>2, <4>1 DEF Sound, Decided
      <4>3. CASE e = c
        <5>1. d.status \notin {"pending", "rejected"}
          BY <1>4, <2>2, <4>3 DEF Overtakes
        <5> QED BY <1>1, <1>3, <1>4, <4>2, <4>3, <5>1 DEF TypeOK
      <4>4. CASE e # c
        BY <1>1, <1>4, <4>2, <4>4 DEF TypeOK
      <4> QED BY <4>3, <4>4
    <3>5. Current(request[p])'
      <4> SUFFICES ASSUME request[p].pc = "save", request[p].op # "create"
                   PROVE  /\ request[p].seenVersion <= version'[e]
                          /\ request[p].seenVersion = version'[e] =>
                               request[p].seenCurriculum = curriculum'[e]
        BY <3>1 DEF Current
      <4>1. /\ request[p].seenVersion <= version[e]
            /\ request[p].seenVersion = version[e] =>
                 request[p].seenCurriculum = curriculum[e]
            /\ request[p].seenVersion \in Nat /\ e \in Courses /\ version[e] \in Nat
        BY <3>1, <3>2 DEF Sound, Current, TypeOK, Request
      <4>2. CASE e = c /\ d.curriculum # -1
        BY <1>1, <1>4, <4>1, <4>2 DEF TypeOK
      <4>3. CASE ~ (e = c /\ d.curriculum # -1)
        BY <1>1, <1>4, <4>1, <4>3 DEF TypeOK
      <4> QED BY <4>2, <4>3
    <3> QED BY <3>3, <3>4, <3>5 DEF Sound
  <2> QED BY <2>1, <2>2
<1>10. OneCreator'
  BY <1>5, <1>7 DEF OneCreator, Creates
<1>11. OfferedUnlessOvertaken'
  <2> SUFFICES ASSUME NEW e \in Courses, status'[e] \in Offered PROVE approval'[e] # "none"
    BY DEF OfferedUnlessOvertaken
  <2>1. CASE e = c /\ d.status = Keep
    <3>1. status[c] \in Offered /\ approval[c] # "none"
      BY <1>1, <1>4, <2>1 DEF OfferedUnlessOvertaken, TypeOK
    <3> QED BY <1>1, <1>3, <1>4, <2>1, <3>1 DEF TypeOK, Keep
  <2>2. CASE e = c /\ d.status # Keep
    <3>1. d.status \in Offered
      BY <1>1, <1>4, <2>2 DEF TypeOK
    <3> QED BY <1>1, <1>3, <1>4, <2>2, <3>1 DEF TypeOK
  <2>3. CASE e # c
    BY <1>1, <1>4, <2>3 DEF OfferedUnlessOvertaken, TypeOK
  <2> QED BY <2>1, <2>2, <2>3
<1> QED BY <1>8, <1>9, <1>10, <1>11

LEMMA SaveKeeps ==
  ASSUME CourseInv, NEW r \in Requests, Save(r)
  PROVE  CourseInv'
<1>1. CASE Apply(r, request[r])
  BY <1>1, ApplyKeeps DEF Save
<1>2. CASE Answer(r) /\ UNCHANGED <<courseVars, vetted, approval>>
  <2>1. UNCHANGED <<courseVars, enrolledIn, totalCourses, lastRevision, vetted, approval,
                    decremented, countedLate>>
    BY <1>2 DEF Save
  <2> QED BY <1>2, <2>1, AnswerKeeps, TypeFromParts DEF CourseInv
<1> QED BY <1>1, <1>2 DEF Save

\* An insertion creates a draft; nobody else works on a course that is not
\* there yet.
LEMMA InsertKeeps ==
  ASSUME CourseInv, NEW r \in Requests, Insert(r)
  PROVE  CourseInv'
<1> USE DEF CourseInv
<1> DEFINE q == request[r]
           c == q.course
           x == ToStats(q)
           cur == IF q.dto.curriculum = -1 THEN Empty ELSE q.dto.curriculum
<1>1. /\ q \in Request /\ q.pc = "save" /\ q.op = "create" /\ q.dto \in Delta
      /\ c \in Courses /\ q.actor \in Actors /\ status[c] = "absent"
      /\ request \in [Requests -> Request]
  BY DEF Insert, TypeOK, Sound, InForce, Request
<1>2. /\ status' = [status EXCEPT ![c] = "draft"]
      /\ curriculum' = [curriculum EXCEPT ![c] = cur]
      /\ priced' = Priced(c, q.dto.price)
      /\ request' = [request EXCEPT ![r] = x]
      /\ UNCHANGED <<version, deletedBy, enrolledIn, totalCourses, lastRevision, vetted, approval,
                     overtaken, decremented, countedLate>>
  BY DEF Insert, history, reviews
<1>3. x \in Request /\ x.pc = "stats" /\ x.course = c /\ x.actor = q.actor /\ x.op = "create"
  BY <1>1, ToStatsIsRequest DEF Ops
<1>4. cur \in Revisions
  BY <1>1, RevisionsNat DEF Delta, Revisions, Empty
<1> HIDE DEF x, cur
<1>5. request'[r] = x /\ \A p \in Requests : p # r => request'[p] = request[p]
  BY <1>1, <1>2
<1>6. TypeOK'
  <2>1. priced' \in SUBSET Courses
    BY <1>1, <1>2 DEF Priced, TypeOK
  <2>2. /\ status' \in [Courses -> Statuses \cup {"absent"}]
        /\ curriculum' \in [Courses -> Revisions]
        /\ request' \in [Requests -> Request]
    BY <1>1, <1>2, <1>3, <1>4 DEF TypeOK, Statuses
  <2> QED BY <1>2, <2>1, <2>2 DEF TypeOK
<1>7. \A p \in Requests : Sound(request[p], p \in overtaken)'
  <2> TAKE p \in Requests
  <2>1. CASE p = r
    BY <1>1, <1>3, <1>5, <2>1 DEF Sound, InForce, Decided, Current, Ops
  <2>2. CASE p # r
    <3>1. request'[p] = request[p] /\ request[p] \in Request
      BY <1>1, <1>5, <2>2
    <3>2. ASSUME request[p].pc = "save"
          PROVE  request[p].course \in Courses /\ request[p].course # c
      <4>1. CASE request[p].op = "create"
        BY <1>1, <2>2, <3>2, <4>1 DEF OneCreator, Creates, Sound, InForce
      <4>2. CASE request[p].op # "create"
        BY <1>1, <3>2, <4>2 DEF Sound, InForce
      <4> QED BY <4>1, <4>2
    <3>3. InForce(request[p])'
      BY <1>2, <3>1, <3>2 DEF Sound, InForce, TypeOK
    <3>4. Decided(request[p], p \in overtaken)'
      BY <1>2, <3>1 DEF Sound, Decided
    <3>5. Current(request[p])'
      BY <1>2, <3>1, <3>2 DEF Sound, Current, TypeOK
    <3> QED BY <3>3, <3>4, <3>5 DEF Sound
  <2> QED BY <2>1, <2>2
<1>8. OneCreator'
  BY <1>3, <1>5 DEF OneCreator, Creates
<1>9. OfferedUnlessOvertaken'
  BY <1>1, <1>2 DEF OfferedUnlessOvertaken, Offered, TypeOK
<1> QED BY <1>6, <1>7, <1>8, <1>9

LEMMA StatsKeeps ==
  ASSUME CourseInv, NEW r \in Requests, Stats(r)
  PROVE  CourseInv'
<1> USE DEF CourseInv
<1>1. Answer(r)
      /\ UNCHANGED <<courseVars, vetted, approval, enrolledIn, lastRevision, countedLate>>
  BY DEF Stats
<1>2. /\ request' \in [Requests -> Request] /\ overtaken' \in SUBSET Requests
      /\ \A p \in Requests : Sound(request[p], p \in overtaken)'
      /\ OneCreator' /\ OfferedUnlessOvertaken'
  BY <1>1, AnswerKeeps
<1>3. request[r].course \in Courses
  BY DEF Stats, Sound, InForce
<1>4. totalCourses' \in [Tutors -> Int] /\ decremented' \in SUBSET Courses
  BY <1>3, OwnerIsTutor DEF Stats, TypeOK
<1>5. TypeOK'
  BY <1>1, <1>2, <1>4 DEF TypeOK, courseVars
<1> QED BY <1>2, <1>5

\* A failed request, and a student who is counted, change no document.
LEMMA OtherStepsKeep ==
  ASSUME CourseInv,
         \/ \E r \in Requests : Fails(r)
         \/ \E c \in Courses : StudentCounted(c)
         \/ UNCHANGED vars
  PROVE  CourseInv'
<1> USE DEF CourseInv
<1>1. ASSUME NEW r \in Requests, Fails(r) PROVE CourseInv'
  <2>1. /\ Answer(r)
        /\ UNCHANGED <<courseVars, enrolledIn, totalCourses, lastRevision, vetted, approval,
                       decremented, countedLate>>
    BY <1>1 DEF Fails
  <2> QED BY <2>1, AnswerKeeps, TypeFromParts
<1>2. ASSUME UNCHANGED <<courseVars, totalCourses, lastRevision, reviews, decremented, request>>,
             enrolledIn' \in SUBSET Courses, countedLate' \in SUBSET Courses
      PROVE  CourseInv'
  <2>1. TypeOK'
    BY <1>2 DEF TypeOK, courseVars, reviews
  <2>2. \A p \in Requests : Sound(request[p], p \in overtaken)'
    BY <1>2 DEF Sound, InForce, Decided, Current, courseVars, reviews
  <2>3. OneCreator' /\ OfferedUnlessOvertaken'
    BY <1>2 DEF OneCreator, Creates, OfferedUnlessOvertaken, courseVars, reviews
  <2> QED BY <2>1, <2>2, <2>3
<1>3. ASSUME NEW c \in Courses, StudentCounted(c) PROVE CourseInv'
  BY <1>2, <1>3 DEF StudentCounted, TypeOK
<1>4. CASE UNCHANGED vars
  BY <1>2, <1>4 DEF vars, history, TypeOK
<1> QED BY <1>1, <1>3, <1>4

----------------------------------------------------------------------------
(***************************************************************************)
(* Theorems                                                                *)
(***************************************************************************)

LEMMA CourseInductive == Spec => []CourseInv
<1>1. ASSUME CourseInv, [Next]_vars PROVE CourseInv'
  <2>1. ASSUME NEW r \in Requests, NEW actor \in Actors, NEW op \in Ops, NEW c \in Courses,
               NEW dto \in FreshDtos, Receive(r, actor, op, c, dto)
        PROVE  CourseInv'
    BY <1>1, <2>1, ReceiveKeeps
  <2>2. ASSUME NEW r \in Requests, Load(r) PROVE CourseInv'
    BY <1>1, <2>2, LoadKeeps
  <2>3. ASSUME NEW r \in Requests, Save(r) PROVE CourseInv'
    BY <1>1, <2>3, SaveKeeps
  <2>4. ASSUME NEW r \in Requests, Insert(r) PROVE CourseInv'
    BY <1>1, <2>4, InsertKeeps
  <2>5. ASSUME NEW r \in Requests, Stats(r) PROVE CourseInv'
    BY <1>1, <2>5, StatsKeeps
  <2>6. CASE \/ \E r \in Requests : Fails(r)
             \/ \E c \in Courses : StudentCounted(c)
             \/ UNCHANGED vars
    BY <1>1, <2>6, OtherStepsKeep
  <2> QED BY <1>1, <2>1, <2>2, <2>3, <2>4, <2>5, <2>6 DEF Next, Serve
<1> QED BY <1>1, CourseStart, PTL DEF Spec

\* Documents, statistics and requests have their types.
THEOREM CourseTypeCorrect == Spec => []TypeOK
<1>1. CourseInv => TypeOK
  BY DEF CourseInv
<1> QED BY <1>1, CourseInductive, PTL

\* review, publish, unpublish: whatever overlaps, a course is on offer only
\* while an administrator's approval of it stands, or by a save that had loaded
\* it before the approval was taken back.
THEOREM OfferedOnlyWhileApproved == Spec => []OfferedUnlessOvertaken
<1>1. CourseInv => OfferedUnlessOvertaken
  BY DEF CourseInv
<1> QED BY <1>1, CourseInductive, PTL

\* update: a curriculum is replaced only by a request that has seen it, for
\* the version key tells the others that theirs is old.
THEOREM EditsSeeWhatTheyReplace == Spec => NoBlindOverwrite
<1>1. ASSUME CourseInv, Next, NEW r \in Requests,
             request[r].pc = "save", request[r].op = "update", request'[r].pc = "idle",
             curriculum'[request[r].course] # curriculum[request[r].course]
      PROVE  request[r].seenCurriculum = curriculum[request[r].course]
  <2> USE DEF CourseInv
  <2> DEFINE c == request[r].course
  <2>1. /\ request \in [Requests -> Request] /\ c \in Courses
        /\ status[c] # "absent"
    BY <1>1 DEF TypeOK, Sound, InForce
  <2>2. ASSUME NEW p \in Requests, Save(p) PROVE request[r].seenCurriculum = curriculum[c]
    <3>1. CASE p = r
      <4>1. /\ SaveMatches(request[r])
            /\ curriculum' = [curriculum EXCEPT ![c] =
                 IF request[r].delta.curriculum = -1 THEN @ ELSE request[r].delta.curriculum]
        BY <1>1, <2>2, <3>1 DEF Save, Apply, courseVars
      <4>2. request[r].delta.curriculum # -1
        BY <1>1, <2>1, <4>1 DEF TypeOK
      <4> QED BY <1>1, <4>1, <4>2 DEF SaveMatches, Sound, Current
    <3>2. CASE p # r
      <4>1. request'[r] = request[r]
        BY <2>1, <2>2, <3>2 DEF Save, Apply, Answer
      <4> QED BY <1>1, <4>1
    <3> QED BY <3>1, <3>2
  <2>3. ASSUME NEW p \in Requests, Insert(p) PROVE FALSE
    <3>1. request[p].course # c /\ request[p].course \in Courses
      BY <1>1, <2>1, <2>3 DEF Insert, Sound, InForce
    <3> QED BY <1>1, <2>1, <2>3, <3>1 DEF Insert, TypeOK
  <2>4. ASSUME UNCHANGED courseVars PROVE FALSE
    BY <1>1, <2>4 DEF courseVars
  <2> QED BY <1>1, <2>2, <2>3, <2>4 DEF Next, Serve, Receive, Load, Stats, Fails, StudentCounted
<1>2. CourseInv /\ [Next]_vars =>
        [\A r \in Requests :
           LET q == request[r]
           IN  q.pc = "save" /\ q.op = "update" /\ request'[r].pc = "idle"
               /\ curriculum'[q.course] # curriculum[q.course]
                 => q.seenCurriculum = curriculum[q.course]]_vars
  BY <1>1
<1> QED BY <1>2, CourseInductive, PTL DEF Spec, NoBlindOverwrite

----------------------------------------------------------------------------
(***************************************************************************)
(* The tutors' statistics                                                  *)
(***************************************************************************)

\* The courses of a tutor whose creation is stored and not yet counted, and
\* those a profile may count.
Uncounted(t) ==
  {c \in Courses : /\ Owner[c] = t
                   /\ \E r \in Requests : /\ request[r].pc = "stats" /\ request[r].op = "create"
                                          /\ request[r].course = c}
Countable(t) == {c \in Created \ decremented : Owner[c] = t}

\* A creation on its way.
Creation(q) == q.op = "create" /\ q.pc \in {"save", "stats"}

\* No course is created twice, and the statistics are updated for courses that
\* are there.
CreatedOnce ==
  /\ \A r, p \in Requests :
       Creation(request[r]) /\ Creation(request[p]) /\ request[r].course = request[p].course
         => r = p
  /\ \A r \in Requests : request[r].pc = "stats" => request[r].course \in Created
  /\ decremented \subseteq Created

\* A profile leaves room for the creations it has yet to count.
RoomLeft ==
  \A t \in Tutors : totalCourses[t] + Cardinality(Uncounted(t)) <= Cardinality(Countable(t))

ProfileInv == CreatedOnce /\ RoomLeft

LEMMA CountsAreFinite ==
  ASSUME NEW t
  PROVE  /\ IsFiniteSet(Uncounted(t)) /\ Cardinality(Uncounted(t)) \in Nat
         /\ IsFiniteSet(Countable(t)) /\ Cardinality(Countable(t)) \in Nat
<1>1. Uncounted(t) \subseteq Courses /\ Countable(t) \subseteq Courses
  BY DEF Uncounted, Countable, Created
<1> QED BY <1>1, CoursesFinite, FS_Subset, FS_CardinalityType

LEMMA ProfileStart == Init => ProfileInv
<1> SUFFICES ASSUME Init PROVE ProfileInv
  OBVIOUS
<1>1. \A r \in Requests : request[r].pc = "idle"
  BY IdleIsRequest DEF Init
<1>2. CreatedOnce
  BY <1>1 DEF Init, CreatedOnce, Creation
<1>3. RoomLeft
  <2> SUFFICES ASSUME NEW t \in Tutors
               PROVE  totalCourses[t] + Cardinality(Uncounted(t)) <= Cardinality(Countable(t))
    BY DEF RoomLeft
  <2>1. Uncounted(t) = {}
    BY <1>1 DEF Uncounted
  <2>2. totalCourses[t] = 0
    BY DEF Init
  <2> QED BY <2>1, <2>2, CountsAreFinite, FS_EmptySet
<1> QED BY <1>2, <1>3 DEF ProfileInv

\* Steps that create no course and count none.
LEMMA QuietStep ==
  ASSUME CourseInv, ProfileInv, Created' = Created,
         UNCHANGED <<totalCourses, decremented>>,
         NEW r \in Requests, NEW q \in Request, request' = [request EXCEPT ![r] = q],
         q.pc = "stats" => q.op # "create" /\ q.course \in Created,
         Creation(q) => \/ Creation(request[r]) /\ request[r].course = q.course
                        \/ \A p \in Requests : request[p].course # q.course
  PROVE  ProfileInv'
<1> USE DEF CourseInv, ProfileInv
<1>1. request'[r] = q /\ \A p \in Requests : p # r => request'[p] = request[p]
  BY DEF TypeOK
<1>2. CreatedOnce'
  BY <1>1 DEF CreatedOnce, Creation
<1>3. RoomLeft'
  <2> SUFFICES ASSUME NEW t \in Tutors
               PROVE  (totalCourses[t] + Cardinality(Uncounted(t)) <= Cardinality(Countable(t)))'
    BY DEF RoomLeft
  <2>1. Uncounted(t)' \subseteq Uncounted(t)
    BY <1>1 DEF Uncounted
  <2>2. Countable(t)' = Countable(t)
    BY DEF Countable
  <2>3. Cardinality(Uncounted(t)') <= Cardinality(Uncounted(t)) /\ Cardinality(Uncounted(t)') \in Nat
    BY <2>1, CountsAreFinite, FS_Subset, FS_CardinalityType
  <2>4. totalCourses'[t] = totalCourses[t] /\ totalCourses[t] \in Int
    BY DEF TypeOK
  <2> QED BY <2>2, <2>3, <2>4, CountsAreFinite DEF RoomLeft
<1> QED BY <1>2, <1>3

\* An answered slot creates nothing.
LEMMA QuietAnswer ==
  ASSUME CourseInv, ProfileInv, Created' = Created, UNCHANGED <<totalCourses, decremented>>,
         NEW r \in Requests, request' = [request EXCEPT ![r] = Idle]
  PROVE  ProfileInv'
<1>1. Idle.pc # "stats" /\ ~Creation(Idle)
  BY IdleIsRequest DEF Creation
<1> QED BY <1>1, IdleIsRequest, QuietStep

\* What a request receives, loads and saves leaves the statistics alone.
LEMMA HandlersQuiet ==
  ASSUME CourseInv, ProfileInv, NEW r \in Requests,
         \/ \E actor \in Actors, op \in Ops, c \in Courses, dto \in FreshDtos :
              Receive(r, actor, op, c, dto)
         \/ Load(r) \/ Save(r) \/ Fails(r)
  PROVE  ProfileInv'
<1> USE DEF CourseInv
<1>0. request \in [Requests -> Request]
  BY DEF TypeOK
<1>1. ASSUME UNCHANGED courseVars PROVE Created' = Created
  BY <1>1 DEF courseVars, Created
<1>2. ASSUME NEW actor \in Actors, NEW op \in Ops, NEW c \in Courses, NEW dto \in FreshDtos,
             Receive(r, actor, op, c, dto)
      PROVE  ProfileInv'
  <2> DEFINE q == [Idle EXCEPT !.pc = IF op = "create" THEN "save" ELSE "load",
                               !.op = op, !.actor = actor, !.course = c, !.dto = dto]
  <2>1. /\ request' = [request EXCEPT ![r] = q]
        /\ op = "create" => \A p \in Requests : request[p].course # c
        /\ UNCHANGED courseVars /\ UNCHANGED <<totalCourses, decremented>>
    BY <1>2 DEF Receive, history
  <2>2. dto \in Delta
    BY DtosAreDeltas
  <2>3. q \in Request /\ q.op = op /\ q.course = c /\ q.pc # "stats"
    BY <2>2, IdleIsRequest DEF Request
  <2> HIDE DEF q
  <2> QED BY <1>1, <2>1, <2>3, QuietStep DEF Creation
<1>3. CASE Answer(r) /\ (Load(r) \/ Fails(r))
  <2>1. UNCHANGED courseVars /\ UNCHANGED <<totalCourses, decremented>>
    BY <1>3 DEF Load, Fails, history
  <2> QED BY <1>1, <1>3, <2>1, QuietAnswer DEF Answer
<1>4. CASE Load(r) /\ ~Answer(r)
  <2> DEFINE old == request[r]
             q == [old EXCEPT !.pc = "save", !.dto = NoDelta, !.delta = DeltaOf(old),
                              !.seenVersion = version[old.course],
                              !.seenCurriculum = curriculum[old.course]]
  <2>1. /\ old \in Request /\ old.pc = "load" /\ request' = [request EXCEPT ![r] = q]
        /\ UNCHANGED courseVars /\ UNCHANGED <<totalCourses, decremented>>
    BY <1>0, <1>4 DEF Load, history
  <2>2. old.course \in Courses /\ old.actor \in Actors /\ old.op \in Ops /\ old.op # "create"
    BY <2>1 DEF Sound, InForce
  <2>3. /\ DeltaOf(old) \in Delta
        /\ version[old.course] \in Nat /\ curriculum[old.course] \in Revisions
    BY <2>1, <2>2, DeltaOfIsDelta DEF TypeOK
  <2>4. q \in Request /\ q.pc = "save" /\ q.op # "create"
    BY <2>1, <2>2, <2>3, NoDeltaIsDelta DEF Request
  <2> HIDE DEF q
  <2> QED BY <1>1, <2>1, <2>4, QuietStep DEF Creation
<1>5. CASE Save(r)
  <2> DEFINE old == request[r]
  <2>1. /\ old \in Request /\ old.pc = "save" /\ old.op # "create"
        /\ old.course \in Courses /\ status[old.course] # "absent" /\ old.delta \in Delta
        /\ UNCHANGED <<totalCourses, decremented>>
    BY <1>0, <1>5 DEF Save, Sound, InForce, Request
  <2>2. Created' = Created
    <3>1. CASE UNCHANGED courseVars
      BY <1>1, <3>1
    <3>2. CASE Apply(r, old)
      BY <2>1, <3>2 DEF Apply, Created, TypeOK, Delta, Statuses, Keep
    <3> QED BY <1>5, <3>1, <3>2 DEF Save
  <2>3. CASE request' = [request EXCEPT ![r] = Idle]
    BY <2>1, <2>2, <2>3, QuietAnswer
  <2>4. CASE request' = [request EXCEPT ![r] = ToStats(old)]
    <3>1. /\ ToStats(old) \in Request /\ ToStats(old).pc = "stats"
          /\ ToStats(old).op = old.op /\ ToStats(old).course = old.course
      BY <2>1, ToStatsIsRequest DEF Sound, InForce
    <3>2. old.course \in Created
      BY <2>1 DEF Created
    <3>3. ~Creation(ToStats(old))
      BY <2>1, <3>1 DEF Creation
    <3> QED BY <2>1, <2>2, <2>4, <3>1, <3>2, <3>3, QuietStep
  <2> QED BY <1>5, <2>3, <2>4 DEF Save, Apply, Answer
<1> QED BY <1>2, <1>3, <1>4, <1>5 DEF Fails

\* An insertion makes room for the course it has yet to count.
LEMMA InsertMakesRoom ==
  ASSUME CourseInv, ProfileInv, NEW r \in Requests, Insert(r)
  PROVE  ProfileInv'
<1> USE DEF CourseInv, ProfileInv
<1> DEFINE q == request[r]
           c == q.course
           x == ToStats(q)
<1>1. /\ q \in Request /\ q.pc = "save" /\ q.op = "create" /\ c \in Courses
      /\ status[c] = "absent" /\ request \in [Requests -> Request]
  BY DEF Insert, TypeOK, Sound, InForce
<1>2. /\ status' = [status EXCEPT ![c] = "draft"] /\ request' = [request EXCEPT ![r] = x]
      /\ UNCHANGED <<totalCourses, decremented>>
  BY DEF Insert, history
<1>3. x \in Request /\ x.pc = "stats" /\ x.course = c /\ x.op = "create"
  BY <1>1, ToStatsIsRequest DEF Sound, InForce
<1> HIDE DEF x
<1>4. request'[r] = x /\ \A p \in Requests : p # r => request'[p] = request[p]
  BY <1>1, <1>2
<1>5. Created' = Created \cup {c} /\ c \notin Created /\ c \notin decremented
  BY <1>1, <1>2 DEF Created, TypeOK, CreatedOnce
<1>6. CreatedOnce'
  BY <1>1, <1>2, <1>3, <1>4, <1>5 DEF CreatedOnce, Creation
<1>7. RoomLeft'
  <2> SUFFICES ASSUME NEW t \in Tutors
               PROVE  (totalCourses[t] + Cardinality(Uncounted(t)) <= Cardinality(Countable(t)))'
    BY DEF RoomLeft
  <2>1. totalCourses'[t] = totalCourses[t] /\ totalCourses[t] \in Int
    BY <1>2 DEF TypeOK
  <2>2. CASE Owner[c] = t
    <3>1. Uncounted(t)' = Uncounted(t) \cup {c}
      BY <1>1, <1>3, <1>4, <2>2 DEF Uncounted
    <3>2. Countable(t)' = Countable(t) \cup {c} /\ c \notin Countable(t)
      BY <1>2, <1>5, <2>2 DEF Countable
    <3>3. Cardinality(Countable(t)') = Cardinality(Countable(t)) + 1
      BY <3>2, CountsAreFinite, FS_AddElement
    <3>4. /\ Cardinality(Uncounted(t)') <= Cardinality(Uncounted(t)) + 1
          /\ Cardinality(Uncounted(t)') \in Nat
      <4>1. IsFiniteSet(Uncounted(t)) /\ Cardinality(Uncounted(t)) \in Nat
        BY CountsAreFinite
      <4>2. /\ IsFiniteSet(Uncounted(t) \cup {c})
            /\ Cardinality(Uncounted(t) \cup {c}) =
                 IF c \in Uncounted(t) THEN Cardinality(Uncounted(t))
                 ELSE Cardinality(Uncounted(t)) + 1
        BY <4>1, FS_AddElement
      <4> QED BY <3>1, <4>1, <4>2
    <3> QED BY <2>1, <3>3, <3>4, CountsAreFinite DEF RoomLeft
  <2>3. CASE Owner[c] # t
    <3>1. Uncounted(t)' = Uncounted(t)
      BY <1>1, <1>3, <1>4, <2>3 DEF Uncounted
    <3>2. Countable(t)' = Countable(t)
      BY <1>2, <1>5, <2>3 DEF Countable
    <3> QED BY <2>1, <3>1, <3>2 DEF RoomLeft
  <2> QED BY <2>2, <2>3
<1> QED BY <1>6, <1>7

\* updateTutorStats: a creation takes the room it had, a deletion gives up at
\* most what it takes away.
LEMMA StatsStayBelow ==
  ASSUME CourseInv, ProfileInv, NEW r \in Requests, Stats(r)
  PROVE  ProfileInv'
<1> USE DEF CourseInv, ProfileInv
<1> DEFINE c == request[r].course
           o == Owner[c]
<1>1. /\ request \in [Requests -> Request] /\ request[r].pc = "stats" /\ c \in Courses
      /\ c \in Created /\ o \in Tutors
      /\ Answer(r) /\ UNCHANGED courseVars
  BY OwnerIsTutor DEF Stats, TypeOK, Sound, InForce, CreatedOnce
<1>2. request'[r] = Idle /\ \A p \in Requests : p # r => request'[p] = request[p]
  BY <1>1 DEF Answer
<1>3. Created' = Created
  BY <1>1 DEF courseVars, Created
<1>4. \A p \in Requests :
        /\ request'[p].pc = "stats" => p # r /\ request[p].pc = "stats"
        /\ Creation(request'[p]) => p # r /\ Creation(request[p])
  BY <1>2, IdleIsRequest DEF Creation
<1>5. decremented' \subseteq Created
  BY <1>1 DEF Stats, CreatedOnce
<1>6. CreatedOnce'
  BY <1>2, <1>3, <1>4, <1>5 DEF CreatedOnce, Creation
<1>7. \A t \in Tutors : totalCourses[t] \in Int
  BY DEF TypeOK
<1>8. CASE request[r].op = "create"
  <2>1. /\ totalCourses' = [totalCourses EXCEPT ![o] = @ + 1]
        /\ decremented' = decremented
    BY <1>8 DEF Stats
  <2>2. ASSUME NEW t \in Tutors
        PROVE  (totalCourses[t] + Cardinality(Uncounted(t)) <= Cardinality(Countable(t)))'
    <3>1. Countable(t)' = Countable(t)
      BY <1>3, <2>1 DEF Countable
    <3>2. CASE t = o
      <4>1. Uncounted(t)' = Uncounted(t) \ {c} /\ c \in Uncounted(t)
        BY <1>1, <1>2, <1>4, <1>8, <3>2 DEF Uncounted, CreatedOnce, Creation
      <4>2. Cardinality(Uncounted(t)') = Cardinality(Uncounted(t)) - 1
        BY <4>1, CountsAreFinite, FS_RemoveElement
      <4>3. totalCourses'[t] = totalCourses[t] + 1
        BY <2>1, <3>2 DEF TypeOK
      <4> QED BY <1>7, <3>1, <4>2, <4>3, CountsAreFinite DEF RoomLeft
    <3>3. CASE t # o
      <4>1. Uncounted(t)' = Uncounted(t)
        BY <1>1, <1>2, <1>4, <3>3 DEF Uncounted
      <4>2. totalCourses'[t] = totalCourses[t]
        BY <2>1, <3>3 DEF TypeOK
      <4> QED BY <3>1, <4>1, <4>2 DEF RoomLeft
    <3> QED BY <3>2, <3>3
  <2> QED BY <1>6, <2>2 DEF RoomLeft
<1>9. CASE request[r].op # "create"
  <2>1. /\ totalCourses' = [totalCourses EXCEPT ![o] = @ - 1]
        /\ decremented' = decremented \cup {c}
    BY <1>9 DEF Stats
  <2>2. ASSUME NEW t \in Tutors
        PROVE  (totalCourses[t] + Cardinality(Uncounted(t)) <= Cardinality(Countable(t)))'
    <3>1. Uncounted(t)' = Uncounted(t)
      BY <1>1, <1>2, <1>4, <1>9 DEF Uncounted
    <3>2. CASE t = o
      <4>1. Countable(t)' = Countable(t) \ {c}
        BY <1>3, <2>1, <3>2 DEF Countable
      <4>2. Cardinality(Countable(t)') >= Cardinality(Countable(t)) - 1
            /\ Cardinality(Countable(t)') \in Int
        <5>1. IsFiniteSet(Countable(t)) /\ Cardinality(Countable(t)) \in Nat
          BY CountsAreFinite
        <5>2. Cardinality(Countable(t) \ {c}) =
                IF c \in Countable(t) THEN Cardinality(Countable(t)) - 1
                ELSE Cardinality(Countable(t))
          BY <5>1, FS_RemoveElement
        <5> QED BY <4>1, <5>1, <5>2
      <4>3. totalCourses'[t] = totalCourses[t] - 1
        BY <2>1, <3>2 DEF TypeOK
      <4> QED BY <1>7, <3>1, <4>2, <4>3, CountsAreFinite DEF RoomLeft
    <3>3. CASE t # o
      <4>1. Countable(t)' = Countable(t)
        BY <1>3, <2>1, <3>3 DEF Countable
      <4>2. totalCourses'[t] = totalCourses[t]
        BY <2>1, <3>3 DEF TypeOK
      <4> QED BY <3>1, <4>1, <4>2 DEF RoomLeft
    <3> QED BY <3>2, <3>3
  <2> QED BY <1>6, <2>2 DEF RoomLeft
<1> QED BY <1>8, <1>9

LEMMA ProfileInductive == Spec => []ProfileInv
<1>1. ASSUME CourseInv, ProfileInv, [Next]_vars PROVE ProfileInv'
  <2>1. ASSUME NEW r \in Requests, Serve(r) PROVE ProfileInv'
    BY <1>1, <2>1, HandlersQuiet, InsertMakesRoom, StatsStayBelow DEF Serve
  <2>2. ASSUME UNCHANGED <<courseVars, totalCourses, decremented, request>> PROVE ProfileInv'
    BY <1>1, <2>2
       DEF ProfileInv, CreatedOnce, RoomLeft, Creation, Uncounted, Countable, Created,
           courseVars
  <2> QED BY <1>1, <2>1, <2>2 DEF Next, StudentCounted, vars, history
<1> QED BY <1>1, ProfileStart, CourseInductive, PTL DEF Spec

\* updateTutorStats: a tutor's profile never shows more courses than the tutor
\* has, in whatever order creations and deletions reach it.
THEOREM ProfilesNotInflated == Spec => []ProfileNotInflated
<1>1. CourseInv /\ ProfileInv => ProfileNotInflated
  <2> SUFFICES ASSUME CourseInv, ProfileInv, NEW t \in Tutors
               PROVE  totalCourses[t] <= Cardinality(Countable(t))
    BY DEF ProfileNotInflated, Countable
  <2>1. totalCourses[t] \in Int
    BY DEF CourseInv, TypeOK
  <2> QED BY <2>1, CountsAreFinite DEF ProfileInv, RoomLeft
<1> QED BY <1>1, CourseInductive, ProfileInductive, PTL

----------------------------------------------------------------------------
(***************************************************************************)
(* Deletions and students                                                  *)
(***************************************************************************)

\* A tutor's deletion that is about to be saved has seen a course without
\* students, or has been overtaken.
DeletionsLooked ==
  \A r \in Requests :
    /\ request[r].pc = "save" /\ request[r].op = "delete" /\ request[r].actor \in Tutors
    /\ request[r].course \in enrolledIn
    => request[r].course \in countedLate

\* What is saved as the deletion's author is the caller.
AuthorNamed(q) ==
  /\ q.pc = "load" => q.dto.deletedBy = None
  /\ q.pc = "save" /\ q.op # "create" =>
       q.delta.deletedBy = IF q.op = "delete" THEN q.actor ELSE None

Looked(q) ==
  q.pc = "save" /\ q.op = "delete" /\ q.actor \in Tutors /\ q.course \in enrolledIn
    => q.course \in countedLate

DeletionInv ==
  /\ \A r \in Requests : AuthorNamed(request[r]) /\ Looked(request[r])
  /\ DeletedEmptyUnlessOvertaken

LEMMA DeletionStart == Init => DeletionInv
<1> SUFFICES ASSUME Init PROVE DeletionInv
  OBVIOUS
<1>1. \A r \in Requests : request[r].pc = "idle"
  BY IdleIsRequest DEF Init
<1> QED BY <1>1 DEF Init, DeletionInv, AuthorNamed, Looked, DeletedEmptyUnlessOvertaken

\* Steps of a slot that change neither authors nor students.
LEMMA SlotLooks ==
  ASSUME CourseInv, DeletionInv, NEW r \in Requests, NEW q,
         request' = [request EXCEPT ![r] = q], AuthorNamed(q), Looked(q),
         UNCHANGED <<deletedBy, enrolledIn, countedLate>>
  PROVE  DeletionInv'
<1>1. request'[r] = q /\ \A p \in Requests : p # r => request'[p] = request[p]
  BY DEF CourseInv, TypeOK
<1> QED BY <1>1 DEF DeletionInv, AuthorNamed, Looked, DeletedEmptyUnlessOvertaken

LEMMA AnswerLooks ==
  ASSUME CourseInv, DeletionInv, NEW r \in Requests, Answer(r),
         UNCHANGED <<deletedBy, enrolledIn, countedLate>>
  PROVE  DeletionInv'
<1>1. AuthorNamed(Idle) /\ Looked(Idle)
  BY IdleIsRequest DEF AuthorNamed, Looked
<1> QED BY <1>1, SlotLooks DEF Answer

\* What a handler makes of a document names the caller where it deletes.
LEMMA DeltaOfNamesAuthor ==
  ASSUME NEW q \in Request, q.op \in Ops, q.op # "create", q.actor \in Actors,
         q.dto.deletedBy = None
  PROVE  DeltaOf(q).deletedBy = IF q.op = "delete" THEN q.actor ELSE None
<1>1. CASE q.op = "update"
  <2> DEFINE back == status[q.course] = "published" /\ q.actor # Admin /\ q.dto.curriculum # -1
             same == q.dto.price = "free" /\ q.course \notin priced
             s == IF back THEN "pending" ELSE Keep
             p == IF same THEN Keep ELSE q.dto.price
  <2>1. DeltaOf(q) = [q.dto EXCEPT !.status = s, !.price = p]
    BY <1>1 DEF DeltaOf, UpdateDelta
  <2>2. q.dto \in Delta
    BY DEF Request
  <2> HIDE DEF s, p
  <2> QED BY <1>1, <2>1, <2>2 DEF Delta
<1>2. CASE q.op = "delete"
  <2>1. DeltaOf(q) = [NoDelta EXCEPT !.deletedBy = q.actor]
    BY <1>2 DEF DeltaOf
  <2> QED BY <1>2, <2>1, NoDeltaIsDelta DEF Delta
<1>3. CASE q.op \notin {"update", "delete"}
  <2>1. DeltaOf(q) = [NoDelta EXCEPT !.status = Target(q.op)]
    BY <1>3 DEF DeltaOf
  <2> QED BY <1>3, <2>1 DEF NoDelta
<1> QED BY <1>1, <1>2, <1>3

LEMMA DeletionStep ==
  ASSUME CourseInv, DeletionInv, [Next]_vars
  PROVE  DeletionInv'
<1> USE DEF CourseInv
<1>0. request \in [Requests -> Request]
  BY DEF TypeOK
<1>1. ASSUME NEW r \in Requests, NEW actor \in Actors, NEW op \in Ops, NEW c \in Courses,
             NEW dto \in FreshDtos, Receive(r, actor, op, c, dto)
      PROVE  DeletionInv'
  <2> DEFINE q == [Idle EXCEPT !.pc = IF op = "create" THEN "save" ELSE "load",
                               !.op = op, !.actor = actor, !.course = c, !.dto = dto]
  <2>1. /\ request' = [request EXCEPT ![r] = q]
        /\ UNCHANGED <<deletedBy, enrolledIn, countedLate>>
    BY <1>1 DEF Receive, history, courseVars
  <2>2. dto.deletedBy = None
    BY DEF FreshDtos
  <2>3. q.pc = (IF op = "create" THEN "save" ELSE "load") /\ q.op = op /\ q.dto = dto
    BY IdleIsRequest DEF Request
  <2> HIDE DEF q
  <2>4. AuthorNamed(q) /\ Looked(q)
    BY <2>2, <2>3 DEF AuthorNamed, Looked
  <2> QED BY <2>1, <2>4, SlotLooks
<1>2. ASSUME NEW r \in Requests, Load(r) PROVE DeletionInv'
  <2> DEFINE old == request[r]
             q == [old EXCEPT !.pc = "save", !.dto = NoDelta, !.delta = DeltaOf(old),
                              !.seenVersion = version[old.course],
                              !.seenCurriculum = curriculum[old.course]]
  <2>1. /\ old \in Request /\ old.pc = "load"
        /\ UNCHANGED <<deletedBy, enrolledIn, countedLate>>
    BY <1>0, <1>2 DEF Load, history, courseVars
  <2>2. CASE Answer(r)
    BY <2>1, <2>2, AnswerLooks
  <2>3. CASE Guard(old) /\ request' = [request EXCEPT ![r] = q]
    <3>1. /\ old.course \in Courses /\ old.actor \in Actors
          /\ old.op \in Ops /\ old.op # "create"
      BY <2>1 DEF Sound, InForce
    <3>2. DeltaOf(old).deletedBy = IF old.op = "delete" THEN old.actor ELSE None
      BY <2>1, <3>1, DeltaOfNamesAuthor DEF DeletionInv, AuthorNamed
    <3>3. old.op = "delete" /\ old.actor \in Tutors => old.course \notin enrolledIn
      BY <2>3, AdminIsNoTutor DEF Guard
    <3>4. /\ q.pc = "save" /\ q.op = old.op /\ q.actor = old.actor /\ q.course = old.course
          /\ q.delta = DeltaOf(old)
      BY <2>1 DEF Request
    <3> HIDE DEF q
    <3>5. AuthorNamed(q) /\ Looked(q)
      BY <3>2, <3>3, <3>4 DEF AuthorNamed, Looked
    <3> QED BY <2>1, <2>3, <3>5, SlotLooks
  <2> QED BY <1>2, <2>2, <2>3 DEF Load
<1>3. ASSUME NEW r \in Requests, Save(r) PROVE DeletionInv'
  <2> DEFINE q == request[r]
  <2>1. /\ q \in Request /\ q.pc = "save" /\ q.op # "create" /\ q.course \in Courses
        /\ UNCHANGED <<enrolledIn, countedLate>>
    BY <1>0, <1>3 DEF Save, Sound, InForce
  <2>2. CASE Answer(r) /\ UNCHANGED courseVars
    BY <2>1, <2>2, AnswerLooks DEF courseVars
  <2>3. CASE Apply(r, q)
    <3>1. \A p \in Requests : AuthorNamed(request'[p]) /\ Looked(request'[p])
      <4>1. CASE request' = [request EXCEPT ![r] = ToStats(q)]
        <5>1. ToStats(q).pc = "stats"
          BY <2>1, ToStatsIsRequest DEF Sound, InForce
        <5> QED BY <1>0, <2>1, <4>1, <5>1 DEF DeletionInv, AuthorNamed, Looked
      <4>2. CASE request' = [request EXCEPT ![r] = Idle]
        BY <1>0, <2>1, <4>2, IdleIsRequest DEF DeletionInv, AuthorNamed, Looked
      <4> QED BY <2>3, <4>1, <4>2 DEF Apply
    <3>2. deletedBy' = [deletedBy EXCEPT ![q.course] =
                          IF q.delta.deletedBy = None THEN @ ELSE q.delta.deletedBy]
      BY <2>3 DEF Apply
    <3>3. q.delta.deletedBy \in Tutors /\ q.course \in enrolledIn => q.course \in countedLate
      BY <2>1, NoneApart DEF DeletionInv, AuthorNamed, Looked
    <3>4. DeletedEmptyUnlessOvertaken'
      BY <2>1, <3>2, <3>3 DEF DeletionInv, DeletedEmptyUnlessOvertaken, TypeOK
    <3> QED BY <2>1, <3>1, <3>4 DEF DeletionInv, AuthorNamed, Looked
  <2> QED BY <1>3, <2>2, <2>3 DEF Save
<1>4. ASSUME NEW r \in Requests, Insert(r) PROVE DeletionInv'
  <2> DEFINE q == ToStats(request[r])
  <2>1. /\ request' = [request EXCEPT ![r] = q]
        /\ UNCHANGED <<deletedBy, enrolledIn, countedLate>>
    BY <1>4 DEF Insert, history
  <2>2. q.pc = "stats"
    BY <1>4, ToStatsIsRequest DEF Insert, Sound, InForce
  <2> HIDE DEF q
  <2>3. AuthorNamed(q) /\ Looked(q)
    BY <2>2 DEF AuthorNamed, Looked
  <2> QED BY <2>1, <2>3, SlotLooks
<1>5. ASSUME NEW r \in Requests, Stats(r) \/ Fails(r) PROVE DeletionInv'
  <2>1. Answer(r) /\ UNCHANGED <<deletedBy, enrolledIn, countedLate>>
    BY <1>5 DEF Stats, Fails, history, courseVars
  <2> QED BY <2>1, AnswerLooks
<1>6. ASSUME NEW c \in Courses, StudentCounted(c) PROVE DeletionInv'
  <2>1. /\ enrolledIn' = enrolledIn \cup {c} /\ request' = request /\ deletedBy' = deletedBy
        /\ countedLate' = IF Leaving(c) THEN countedLate \cup {c} ELSE countedLate
    BY <1>6 DEF StudentCounted, courseVars
  <2>2. \A r \in Requests : AuthorNamed(request[r])'
    BY <2>1 DEF DeletionInv, AuthorNamed
  <2>3. \A r \in Requests : Looked(request[r])'
    BY <2>1, AdminIsNoTutor DEF DeletionInv, Looked, Leaving
  <2>4. DeletedEmptyUnlessOvertaken'
    BY <2>1, NoneApart DEF DeletionInv, DeletedEmptyUnlessOvertaken, Leaving
  <2> QED BY <2>2, <2>3, <2>4 DEF DeletionInv
<1>7. CASE UNCHANGED vars
  BY <1>7 DEF vars, courseVars, history, DeletionInv, AuthorNamed, Looked,
              DeletedEmptyUnlessOvertaken
<1> QED BY <1>1, <1>2, <1>3, <1>4, <1>5, <1>6, <1>7 DEF Next, Serve

\* delete: a course its tutor deleted had no student when the deletion looked;
\* if it has students, the first was counted in the gap before the save, or
\* after it.
THEOREM DeletionsLeaveNoStudents == Spec => []DeletedEmptyUnlessOvertaken
<1>1. DeletionInv => DeletedEmptyUnlessOvertaken
  BY DEF DeletionInv
<1> QED BY <1>1, DeletionStart, DeletionStep, CourseInductive, PTL DEF Spec
=============================================================================
