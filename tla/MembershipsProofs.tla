------------------------- MODULE MembershipsProofs -------------------------
(***************************************************************************)
(* Proofs about Memberships, for any organizations, persons, rows and      *)
(* numbers of calls.                                                       *)
(***************************************************************************)
EXTENDS Memberships, TLAPS

\* What a slot can hold.
Slot == [pc: {"idle", "find", "insert", "load", "save", "added", "refused"},
         about: Memberships \cup {NoMember}, seen: BOOLEAN,
         payload: Requested \cup {NoMember}, loaded: Requested \cup {NoMember},
         late: BOOLEAN]

Typed ==
  /\ members \in [MemberIds -> Memberships \cup {NoMember}]
  /\ request \in Requested \cup {NoMember}
  /\ memberCalls \in 0..MaxMemberCalls
  /\ memberCall \in [MemberCalls -> Slot]

\* What a call works on by the time it needs it.
Equipped ==
  \A q \in MemberCalls :
    /\ memberCall[q].pc \in {"find", "insert"} => memberCall[q].about \in Memberships
    /\ memberCall[q].pc \in {"load", "save"} =>
         memberCall[q].payload \in Requested /\ memberCall[q].about = NoMember
    /\ memberCall[q].pc = "save" => memberCall[q].loaded \in Requested

\* An addition that is on its way, or was refused, has seen its membership if
\* the collection has it: the insertion of another call tells all of them.
SeenByAll ==
  \A q \in MemberCalls :
    memberCall[q].pc # "added" /\ memberCall[q].about # NoMember
      /\ Held(memberCall[q].about) => memberCall[q].seen

RowsDiffer ==
  \A i, j \in MemberIds : members[i] # NoMember /\ members[i] = members[j] => i = j

\* A call that was refused a membership had seen it.  (The membership may be
\* gone by then, so this does not follow from SeenByAll.)
RefusalsHadCause ==
  \A q \in MemberCalls :
    memberCall[q].pc = "refused" /\ memberCall[q].about # NoMember => memberCall[q].seen

MembershipInv == Typed /\ Equipped /\ SeenByAll /\ RowsDiffer /\ RefusalsHadCause

----------------------------------------------------------------------------
(***************************************************************************)
(* Lemmas                                                                  *)
(***************************************************************************)

\* The slot of a call that has not begun.
LEMMA IdleIsSlot == IdleCall \in Slot
  BY DEF IdleCall, Slot

\* A save sets each field to a value the payload or the document had.
LEMMA SavedIsRequested ==
  ASSUME NEW payload \in Requested, NEW loaded \in Requested, NEW r \in Requested
  PROVE  Saved(payload, loaded, r) \in Requested
  BY DEF Saved, Applied, Requested

\* The invariant holds of the empty collection.
LEMMA MembershipsStart == MembershipInit => MembershipInv
<1> SUFFICES ASSUME MembershipInit PROVE MembershipInv
  OBVIOUS
<1>1. \A q \in MemberCalls : memberCall[q] = IdleCall
  BY DEF MembershipInit
<1>2. Typed
  BY MemberBounds, IdleIsSlot DEF MembershipInit, Typed, Untouched, Requested
<1>3. Equipped /\ SeenByAll /\ RefusalsHadCause
  <2>1. \A q \in MemberCalls : memberCall[q].pc = "idle" /\ memberCall[q].about = NoMember
    BY <1>1 DEF IdleCall
  <2> QED BY <2>1 DEF Equipped, SeenByAll, RefusalsHadCause
<1>4. RowsDiffer
  BY DEF MembershipInit, RowsDiffer
<1> QED BY <1>2, <1>3, <1>4 DEF MembershipInv

----------------------------------------------------------------------------
(***************************************************************************)
(* Every action keeps the invariant.                                       *)
(***************************************************************************)

\* A call begins with a slot of the right type that has seen what is there.
LEMMA BeginKeeps ==
  ASSUME MembershipInv, NEW q \in MemberCalls, NEW c \in Slot, Begin(q, c),
         UNCHANGED <<members, request>>,
         c.pc \in {"find", "load"},
         c.pc = "find" => c.about \in Memberships,
         c.pc = "load" => c.payload \in Requested /\ c.about = NoMember,
         c.about # NoMember /\ Held(c.about) => c.seen
  PROVE  MembershipInv'
<1> USE DEF MembershipInv
<1>1. /\ memberCall'[q] = c
      /\ \A p \in MemberCalls : p # q => memberCall'[p] = memberCall[p]
  BY DEF Begin, Typed
<1>2. Typed'
  BY MemberBounds DEF Begin, Typed
<1>3. Equipped'
  BY <1>1 DEF Equipped
<1>4. SeenByAll'
  <2> SUFFICES ASSUME NEW p \in MemberCalls, memberCall'[p].pc # "added",
                      memberCall'[p].about # NoMember,
                      NEW i \in MemberIds, members'[i] = memberCall'[p].about
               PROVE  memberCall'[p].seen
    BY DEF SeenByAll, Held
  <2>1. CASE p = q
    BY <2>1, <1>1 DEF Held
  <2>2. CASE p # q
    BY <2>2, <1>1 DEF SeenByAll, Held
  <2> QED BY <2>1, <2>2
<1>5. RowsDiffer' /\ RefusalsHadCause'
  BY <1>1 DEF RowsDiffer, RefusalsHadCause
<1> QED BY <1>2, <1>3, <1>4, <1>5

\* addMember begins.
LEMMA StartAddMemberKeeps ==
  ASSUME MembershipInv, NEW q \in MemberCalls, NEW m \in Memberships, StartAddMember(q, m)
  PROVE  MembershipInv'
<1> DEFINE c == [IdleCall EXCEPT !.pc = "find", !.about = m, !.seen = Held(m)]
<1>1. Held(m) \in BOOLEAN
  BY DEF Held
<1>2. c \in Slot
  BY <1>1, IdleIsSlot DEF Slot
<1>3. c.pc = "find" /\ c.about = m /\ c.seen = Held(m)
  BY <1>1, IdleIsSlot DEF Slot
<1> QED BY <1>2, <1>3, BeginKeeps DEF StartAddMember

\* moderate begins.
LEMMA StartModerateKeeps ==
  ASSUME MembershipInv, NEW q \in MemberCalls, NEW payload \in Requested,
         StartModerate(q, payload)
  PROVE  MembershipInv'
<1> DEFINE c == [IdleCall EXCEPT !.pc = "load", !.payload = payload]
<1>1. c \in Slot
  BY IdleIsSlot DEF Slot
<1>2. c.pc = "load" /\ c.payload = payload /\ c.about = NoMember
  BY IdleIsSlot DEF Slot, IdleCall
<1> QED BY <1>1, <1>2, BeginKeeps DEF StartModerate

\* findOne: the call is refused, with a cause, or goes on to insert.
LEMMA MemberFindKeeps ==
  ASSUME MembershipInv, NEW q \in MemberCalls, MemberFind(q)
  PROVE  MembershipInv'
<1> USE DEF MembershipInv
<1> DEFINE answer == IF Held(memberCall[q].about) THEN "refused" ELSE "insert"
<1>1. memberCall' = [memberCall EXCEPT ![q] = [@ EXCEPT !.pc = answer]]
  BY DEF MemberFind, MemberAnswers
<1>2. /\ memberCall[q] \in Slot /\ memberCall[q].pc = "find"
      /\ UNCHANGED <<members, request, memberCalls>>
  BY DEF MemberFind, Typed
<1>3. Typed'
  BY <1>1, <1>2 DEF Typed, Slot
<1>4. \A p \in MemberCalls :
        /\ memberCall'[p].pc = IF p = q THEN answer ELSE memberCall[p].pc
        /\ memberCall'[p].about = memberCall[p].about
        /\ memberCall'[p].seen = memberCall[p].seen
        /\ memberCall'[p].payload = memberCall[p].payload
        /\ memberCall'[p].loaded = memberCall[p].loaded
  BY <1>1 DEF Typed, Slot
<1>5. Equipped'
  BY <1>2, <1>4 DEF Equipped
<1>6. SeenByAll'
  BY <1>2, <1>4 DEF SeenByAll, Held
<1>7. RowsDiffer' /\ RefusalsHadCause'
  BY <1>2, <1>4 DEF RowsDiffer, RefusalsHadCause, SeenByAll
<1> QED BY <1>3, <1>5, <1>6, <1>7

\* save of a row: refused by the index, with a cause, or stored; then every
\* call for the same membership has seen it.
LEMMA MemberInsertKeeps ==
  ASSUME MembershipInv, NEW q \in MemberCalls, NEW i \in MemberIds, MemberInsert(q, i)
  PROVE  MembershipInv'
<1> USE DEF MembershipInv
<1> DEFINE m == memberCall[q].about
<1>1. /\ memberCall[q] \in Slot /\ memberCall[q].pc = "insert" /\ m \in Memberships
      /\ members[i] = NoMember
      /\ UNCHANGED <<request, memberCalls>>
  BY DEF MemberInsert, Typed, Equipped
<1>2. CASE Held(m)
  <2>1. /\ memberCall' = [memberCall EXCEPT ![q] = [@ EXCEPT !.pc = "refused"]]
        /\ UNCHANGED members
    BY <1>2 DEF MemberInsert, MemberAnswers
  <2>2. Typed'
    BY <1>1, <2>1 DEF Typed, Slot
  <2>3. \A p \in MemberCalls :
          /\ memberCall'[p].pc = IF p = q THEN "refused" ELSE memberCall[p].pc
          /\ memberCall'[p].about = memberCall[p].about
          /\ memberCall'[p].seen = memberCall[p].seen
          /\ memberCall'[p].payload = memberCall[p].payload
          /\ memberCall'[p].loaded = memberCall[p].loaded
    BY <2>1 DEF Typed, Slot
  <2>4. Equipped'
    BY <1>1, <2>3 DEF Equipped
  <2>5. SeenByAll'
    BY <1>1, <2>1, <2>3 DEF SeenByAll, Held
  <2>6. RowsDiffer' /\ RefusalsHadCause'
    BY <1>1, <1>2, <2>1, <2>3 DEF RowsDiffer, RefusalsHadCause, SeenByAll
  <2> QED BY <2>2, <2>4, <2>5, <2>6
<1>3. CASE ~ Held(m)
  <2>1. /\ members' = [members EXCEPT ![i] = m]
        /\ memberCall' = [p \in MemberCalls |->
             IF p = q THEN [memberCall[p] EXCEPT !.pc = "added"]
             ELSE [memberCall[p] EXCEPT !.seen = @ \/ memberCall[p].about = m]]
    BY <1>3 DEF MemberInsert
  <2>2. \A p \in MemberCalls : memberCall'[p] \in Slot
    <3> TAKE p \in MemberCalls
    <3>1. memberCall[p] \in Slot
      BY DEF Typed
    <3>2. (memberCall[p].seen \/ memberCall[p].about = m) \in BOOLEAN
      OBVIOUS
    <3>3. CASE p = q
      BY <2>1, <3>1, <3>3 DEF Slot
    <3>4. CASE p # q
      BY <2>1, <3>1, <3>2, <3>4 DEF Slot
    <3> QED BY <3>3, <3>4
  <2>3. Typed'
    BY <1>1, <2>1, <2>2 DEF Typed
  <2>4. \A p \in MemberCalls :
          /\ memberCall'[p].pc = IF p = q THEN "added" ELSE memberCall[p].pc
          /\ memberCall'[p].about = memberCall[p].about
          /\ memberCall'[p].payload = memberCall[p].payload
          /\ memberCall'[p].loaded = memberCall[p].loaded
    BY <2>1 DEF Typed, Slot
  <2>5. \A p \in MemberCalls :
          p # q => (memberCall'[p].seen <=> memberCall[p].seen \/ memberCall[p].about = m)
    <3> SUFFICES ASSUME NEW p \in MemberCalls, p # q
                 PROVE  memberCall'[p].seen <=> (memberCall[p].seen \/ memberCall[p].about = m)
      OBVIOUS
    <3>1. memberCall[p] \in Slot
      BY DEF Typed
    <3>2. memberCall'[p].seen = (memberCall[p].seen \/ memberCall[p].about = m)
      BY <2>1, <3>1 DEF Slot
    <3> QED BY <3>2
  <2>6. Equipped'
    BY <1>1, <2>4 DEF Equipped
  <2>7. SeenByAll'
    <3> SUFFICES ASSUME NEW p \in MemberCalls, memberCall'[p].pc # "added",
                        memberCall'[p].about # NoMember,
                        NEW j \in MemberIds, members'[j] = memberCall'[p].about
                 PROVE  memberCall'[p].seen
      BY DEF SeenByAll, Held
    <3>1. p # q /\ memberCall[p].about = memberCall'[p].about
      BY <2>4
    <3>2. CASE j = i
      BY <3>1, <3>2, <2>1, <2>5 DEF Typed
    <3>3. CASE j # i
      BY <3>1, <3>3, <2>1, <2>4, <2>5 DEF SeenByAll, Held, Typed
    <3> QED BY <3>2, <3>3
  <2>8. RowsDiffer'
    BY <1>3, <2>1 DEF RowsDiffer, Held, Typed
  <2>9. RefusalsHadCause'
    BY <2>4, <2>5 DEF RefusalsHadCause
  <2> QED BY <2>3, <2>6, <2>7, <2>8, <2>9
<1> QED BY <1>2, <1>3

\* Removing a row takes a membership away from nobody's sight.
LEMMA RemoveMemberKeeps ==
  ASSUME MembershipInv, NEW i \in MemberIds, RemoveMember(i)
  PROVE  MembershipInv'
<1> USE DEF MembershipInv
<1>1. /\ members' = [members EXCEPT ![i] = NoMember]
      /\ UNCHANGED <<memberCall, request, memberCalls>>
  BY DEF RemoveMember
<1>2. Typed' /\ Equipped' /\ RefusalsHadCause'
  BY <1>1 DEF Typed, Equipped, RefusalsHadCause
<1>3. SeenByAll'
  BY <1>1 DEF SeenByAll, Held, Typed
<1>4. RowsDiffer'
  BY <1>1 DEF RowsDiffer, Typed
<1> QED BY <1>2, <1>3, <1>4

\* moderate loads: only a request that is there goes on to be saved.
LEMMA ModerateLoadKeeps ==
  ASSUME MembershipInv, NEW q \in MemberCalls, ModerateLoad(q)
  PROVE  MembershipInv'
<1> USE DEF MembershipInv
<1> DEFINE answer == IF request = NoMember THEN "refused" ELSE "save"
<1>1. /\ memberCall' = [memberCall EXCEPT ![q] = [@ EXCEPT !.pc = answer, !.loaded = request]]
      /\ memberCall[q] \in Slot /\ memberCall[q].pc = "load"
      /\ UNCHANGED <<members, request, memberCalls>>
  BY DEF ModerateLoad, Typed
<1>2. Typed'
  BY <1>1 DEF Typed, Slot
<1>3. \A p \in MemberCalls :
        /\ memberCall'[p].pc = IF p = q THEN answer ELSE memberCall[p].pc
        /\ memberCall'[p].loaded = IF p = q THEN request ELSE memberCall[p].loaded
        /\ memberCall'[p].about = memberCall[p].about
        /\ memberCall'[p].seen = memberCall[p].seen
        /\ memberCall'[p].payload = memberCall[p].payload
  BY <1>1 DEF Typed, Slot
<1>4. Equipped'
  BY <1>1, <1>3 DEF Equipped, Typed
<1>5. SeenByAll' /\ RowsDiffer'
  BY <1>1, <1>3 DEF SeenByAll, RowsDiffer, Held
<1>6. RefusalsHadCause'
  BY <1>1, <1>3 DEF RefusalsHadCause, Equipped
<1> QED BY <1>2, <1>4, <1>5, <1>6

\* moderate saves: refused when the request is gone, or stored.
LEMMA ModerateSaveKeeps ==
  ASSUME MembershipInv, NEW q \in MemberCalls, ModerateSave(q)
  PROVE  MembershipInv'
<1> USE DEF MembershipInv
<1>1. /\ memberCall[q] \in Slot /\ memberCall[q].pc = "save"
      /\ memberCall[q].payload \in Requested /\ memberCall[q].loaded \in Requested
      /\ memberCall[q].about = NoMember
      /\ UNCHANGED <<members, memberCalls>>
  BY DEF ModerateSave, Typed, Equipped
<1>2. /\ request' \in Requested \cup {NoMember}
      /\ memberCall' \in [MemberCalls -> Slot]
      /\ \A p \in MemberCalls :
           /\ \/ memberCall'[p].pc = memberCall[p].pc
              \/ p = q /\ memberCall'[p].pc \in {"refused", "added"}
           /\ memberCall'[p].about = memberCall[p].about
           /\ memberCall'[p].seen = memberCall[p].seen
           /\ memberCall'[p].payload = memberCall[p].payload
           /\ memberCall'[p].loaded = memberCall[p].loaded
  <2>1. CASE request = NoMember
    <3>1. memberCall' = [memberCall EXCEPT ![q] = [@ EXCEPT !.pc = "refused"]] /\ request' = request
      BY <2>1 DEF ModerateSave, MemberAnswers
    <3> QED BY <3>1 DEF Typed, Slot
  <2>2. CASE request # NoMember
    <3>1. /\ request' = Saved(memberCall[q].payload, memberCall[q].loaded, request)
          /\ memberCall' = [p \in MemberCalls |->
               IF p = q THEN [memberCall[p] EXCEPT !.pc = "added"]
               ELSE [memberCall[p] EXCEPT !.late = @ \/ memberCall[p].pc = "save"]]
      BY <2>2 DEF ModerateSave
    <3>2. request' \in Requested
      BY <1>1, <2>2, <3>1, SavedIsRequested DEF Typed
    <3>3. \A p \in MemberCalls : (memberCall[p].late \/ memberCall[p].pc = "save") \in BOOLEAN
      OBVIOUS
    <3>4. \A p \in MemberCalls : memberCall'[p] \in Slot
      BY <3>1, <3>3 DEF Typed, Slot
    <3>5. \A p \in MemberCalls :
            /\ memberCall'[p].pc = IF p = q THEN "added" ELSE memberCall[p].pc
            /\ memberCall'[p].about = memberCall[p].about
            /\ memberCall'[p].seen = memberCall[p].seen
            /\ memberCall'[p].payload = memberCall[p].payload
            /\ memberCall'[p].loaded = memberCall[p].loaded
      BY <3>1 DEF Typed, Slot
    <3> QED BY <3>1, <3>2, <3>4, <3>5
  <2> QED BY <2>1, <2>2
<1>3. Typed'
  BY <1>1, <1>2 DEF Typed
<1>4. Equipped'
  BY <1>1, <1>2 DEF Equipped
<1>5. SeenByAll' /\ RowsDiffer'
  BY <1>1, <1>2 DEF SeenByAll, RowsDiffer, Held
<1>6. RefusalsHadCause'
  BY <1>1, <1>2 DEF RefusalsHadCause
<1> QED BY <1>3, <1>4, <1>5, <1>6

\* A request removed, or a call that fails, leaves the rows as they are.
LEMMA OthersKeep ==
  ASSUME MembershipInv,
         RemoveRequest \/ (\E q \in MemberCalls : MemberCallFails(q)) \/ UNCHANGED membershipVars
  PROVE  MembershipInv'
<1> USE DEF MembershipInv
<1>1. CASE RemoveRequest
  BY <1>1 DEF RemoveRequest, Typed, Equipped, SeenByAll, RowsDiffer, RefusalsHadCause, Held
<1>2. ASSUME NEW q \in MemberCalls, MemberCallFails(q) PROVE MembershipInv'
  <2>1. /\ memberCall' = [memberCall EXCEPT ![q] = IdleCall]
        /\ UNCHANGED <<members, request, memberCalls>>
    BY <1>2 DEF MemberCallFails
  <2>2. IdleCall.pc = "idle" /\ IdleCall.about = NoMember
    BY DEF IdleCall
  <2>3. Typed'
    BY <2>1, IdleIsSlot DEF Typed
  <2>4. Equipped' /\ SeenByAll' /\ RowsDiffer' /\ RefusalsHadCause'
    BY <2>1, <2>2 DEF Typed, Equipped, SeenByAll, RowsDiffer, RefusalsHadCause, Held
  <2> QED BY <2>3, <2>4
<1>3. CASE UNCHANGED membershipVars
  BY <1>3 DEF membershipVars, Typed, Equipped, SeenByAll, RowsDiffer, RefusalsHadCause, Held
<1> QED BY <1>1, <1>2, <1>3

----------------------------------------------------------------------------
(***************************************************************************)
(* Theorems                                                                *)
(***************************************************************************)

\* The invariant holds throughout.
LEMMA MembershipInductive == MembershipSpec => []MembershipInv
<1>1. ASSUME MembershipInv, [MembershipNext]_membershipVars PROVE MembershipInv'
  <2>1. ASSUME NEW q \in MemberCalls, NEW m \in Memberships, StartAddMember(q, m)
        PROVE  MembershipInv'
    BY <1>1, <2>1, StartAddMemberKeeps
  <2>2. ASSUME NEW q \in MemberCalls, NEW payload \in Requested, StartModerate(q, payload)
        PROVE  MembershipInv'
    BY <1>1, <2>2, StartModerateKeeps
  <2>3. ASSUME NEW q \in MemberCalls, MemberFind(q) PROVE MembershipInv'
    BY <1>1, <2>3, MemberFindKeeps
  <2>4. ASSUME NEW q \in MemberCalls, NEW i \in MemberIds, MemberInsert(q, i)
        PROVE  MembershipInv'
    BY <1>1, <2>4, MemberInsertKeeps
  <2>5. ASSUME NEW i \in MemberIds, RemoveMember(i) PROVE MembershipInv'
    BY <1>1, <2>5, RemoveMemberKeeps
  <2>6. ASSUME NEW q \in MemberCalls, ModerateLoad(q) PROVE MembershipInv'
    BY <1>1, <2>6, ModerateLoadKeeps
  <2>7. ASSUME NEW q \in MemberCalls, ModerateSave(q) PROVE MembershipInv'
    BY <1>1, <2>7, ModerateSaveKeeps
  <2>8. CASE RemoveRequest \/ (\E q \in MemberCalls : MemberCallFails(q))
               \/ UNCHANGED membershipVars
    BY <1>1, <2>8, OthersKeep
  <2> QED BY <1>1, <2>1, <2>2, <2>3, <2>4, <2>5, <2>6, <2>7, <2>8 DEF MembershipNext
<1> QED BY <1>1, MembershipsStart, PTL DEF MembershipSpec

\* Slots and collections have their types.
THEOREM MembershipsTyped == MembershipSpec => []MembershipTypeOK
<1>1. MembershipInv => MembershipTypeOK
  BY DEF MembershipInv, Typed, MembershipTypeOK, Slot
<1> QED BY <1>1, MembershipInductive, PTL

\* addMember: however additions and removals interleave, a user is at most
\* once a member of an organization, and a call is refused only for a
\* membership that was there while it ran.
THEOREM OneMembershipEach == MembershipSpec => []MembershipsUnique
<1>1. MembershipInv => MembershipsUnique
  BY DEF MembershipInv, RowsDiffer, RefusalsHadCause, MembershipsUnique
<1> QED BY <1>1, MembershipInductive, PTL

----------------------------------------------------------------------------
(***************************************************************************)
(* Moderators                                                              *)
(***************************************************************************)

\* A moderator that is about to save, and is not marked late, has loaded the
\* request as it is.
FreshUnlessLate ==
  \A q \in MemberCalls :
    memberCall[q].pc = "save" /\ ~memberCall[q].late /\ request # NoMember =>
      memberCall[q].loaded = request

\* What a step does to a moderator that is about to save afterwards: it was
\* already, with what it holds now; or it has just loaded the request.
LEMMA SaversHold ==
  ASSUME MembershipInv, [MembershipNext]_membershipVars, NEW q \in MemberCalls,
         memberCall'[q].pc = "save"
  PROVE  \/ /\ memberCall[q].pc = "save"
            /\ memberCall'[q].loaded = memberCall[q].loaded
            /\ \/ request' \in {request, NoMember}
                    /\ memberCall'[q].late = memberCall[q].late
               \/ memberCall'[q].late
         \/ memberCall'[q].loaded = request /\ request' = request
<1> USE DEF MembershipInv
<1>0. memberCall \in [MemberCalls -> Slot]
  BY DEF Typed
<1>1. CASE UNCHANGED membershipVars
  BY <1>1 DEF membershipVars
<1>2. CASE RemoveRequest
  BY <1>2 DEF RemoveRequest
<1>3. ASSUME NEW i \in MemberIds, RemoveMember(i)
      PROVE  memberCall' = memberCall /\ request' = request
  BY <1>3 DEF RemoveMember
<1>4. ASSUME NEW p \in MemberCalls, NEW c \in Slot, Begin(p, c), c.pc # "save", request' = request
      PROVE  memberCall[q].pc = "save" /\ memberCall'[q] = memberCall[q]
  BY <1>0, <1>4 DEF Begin
<1>5. ASSUME NEW p \in MemberCalls, NEW m \in Memberships, StartAddMember(p, m)
      PROVE  memberCall[q].pc = "save" /\ memberCall'[q] = memberCall[q] /\ request' = request
  <2> DEFINE c == [IdleCall EXCEPT !.pc = "find", !.about = m, !.seen = Held(m)]
  <2>1. Held(m) \in BOOLEAN
    BY DEF Held
  <2>2. c \in Slot /\ c.pc = "find"
    BY <2>1, IdleIsSlot DEF Slot
  <2> QED BY <1>4, <1>5, <2>2 DEF StartAddMember
<1>6. ASSUME NEW p \in MemberCalls, NEW payload \in Requested, StartModerate(p, payload)
      PROVE  memberCall[q].pc = "save" /\ memberCall'[q] = memberCall[q] /\ request' = request
  <2> DEFINE c == [IdleCall EXCEPT !.pc = "load", !.payload = payload]
  <2>1. c \in Slot /\ c.pc = "load"
    BY IdleIsSlot DEF Slot
  <2> QED BY <1>4, <1>6, <2>1 DEF StartModerate
<1>7. ASSUME NEW p \in MemberCalls, MemberFind(p)
      PROVE  memberCall[q].pc = "save" /\ memberCall'[q] = memberCall[q] /\ request' = request
  BY <1>0, <1>7 DEF MemberFind, MemberAnswers, Slot
<1>8. ASSUME NEW p \in MemberCalls, NEW i \in MemberIds, MemberInsert(p, i)
      PROVE  /\ memberCall[q].pc = "save" /\ request' = request
             /\ memberCall'[q].loaded = memberCall[q].loaded
             /\ memberCall'[q].late = memberCall[q].late
  BY <1>0, <1>8 DEF MemberInsert, MemberAnswers, Slot
<1>9. ASSUME NEW p \in MemberCalls, ModerateLoad(p)
      PROVE  /\ request' = request
             /\ \/ memberCall[q].pc = "save" /\ memberCall'[q] = memberCall[q]
                \/ memberCall'[q].loaded = request
  BY <1>0, <1>9 DEF ModerateLoad, Slot
<1>10. ASSUME NEW p \in MemberCalls, ModerateSave(p)
       PROVE  /\ memberCall[q].pc = "save"
              /\ memberCall'[q].loaded = memberCall[q].loaded
              /\ \/ request' = request /\ memberCall'[q].late = memberCall[q].late
                 \/ memberCall'[q].late
  <2>1. CASE request = NoMember
    BY <1>0, <1>10, <2>1 DEF ModerateSave, MemberAnswers, Slot
  <2>2. CASE request # NoMember
    <3>1. memberCall' = [r \in MemberCalls |->
             IF r = p THEN [memberCall[r] EXCEPT !.pc = "added"]
             ELSE [memberCall[r] EXCEPT !.late = @ \/ memberCall[r].pc = "save"]]
      BY <1>10, <2>2 DEF ModerateSave
    <3>2. p # q
      BY <1>0, <3>1 DEF Slot
    <3>3. memberCall'[q] = [memberCall[q] EXCEPT !.late = @ \/ memberCall[q].pc = "save"]
      BY <3>1, <3>2
    <3>4. memberCall[q] \in Slot
      BY <1>0
    <3>5. memberCall'[q].pc = memberCall[q].pc /\ memberCall'[q].loaded = memberCall[q].loaded
      BY <3>3, <3>4 DEF Slot
    <3>6. memberCall'[q].late = (memberCall[q].late \/ memberCall[q].pc = "save")
      BY <3>3, <3>4 DEF Slot
    <3> QED BY <3>5, <3>6
  <2> QED BY <2>1, <2>2
<1>11. ASSUME NEW p \in MemberCalls, MemberCallFails(p)
       PROVE  memberCall[q].pc = "save" /\ memberCall'[q] = memberCall[q] /\ request' = request
  <2>1. IdleCall.pc = "idle"
    BY DEF IdleCall
  <2> QED BY <1>0, <1>11, <2>1 DEF MemberCallFails
<1> QED BY <1>1, <1>2, <1>3, <1>5, <1>6, <1>7, <1>8, <1>9, <1>10, <1>11 DEF MembershipNext

LEMMA FreshInductive == MembershipSpec => []FreshUnlessLate
<1>1. MembershipInit => FreshUnlessLate
  <2>1. IdleCall.pc = "idle"
    BY DEF IdleCall
  <2> QED BY <2>1 DEF MembershipInit, FreshUnlessLate
<1>2. ASSUME MembershipInv, FreshUnlessLate, [MembershipNext]_membershipVars
      PROVE  FreshUnlessLate'
  <2> SUFFICES ASSUME NEW q \in MemberCalls, memberCall'[q].pc = "save",
                      ~memberCall'[q].late, request' # NoMember
               PROVE  memberCall'[q].loaded = request'
    BY DEF FreshUnlessLate
  <2> QED BY <1>2, SaversHold DEF FreshUnlessLate
<1> QED BY <1>1, <1>2, MembershipInductive, PTL DEF MembershipSpec

\* moderate: a save that follows another moderator's changes no field its
\* payload leaves out, and one that follows none sets what its payload has.
THEOREM ModeratorsApart == MembershipSpec => ModeratorsKeepEachOthersFields
<1>1. ASSUME MembershipInv, FreshUnlessLate, MembershipNext,
             NEW q \in MemberCalls, memberCall[q].pc = "save", memberCall'[q].pc = "added"
      PROVE  LET c == memberCall[q]
             IN  /\ c.payload.status = NoMember => request'.status = request.status
                 /\ c.payload.notes = NoMember => request'.notes = request.notes
                 /\ ~c.late => request' = Applied(c.payload, request)
  <2> USE DEF MembershipInv
  <2>1. memberCall \in [MemberCalls -> Slot]
    BY <1>1 DEF Typed
  <2>2. ModerateSave(q) /\ request # NoMember
    <3>1. ASSUME NEW i \in MemberIds, RemoveMember(i) PROVE FALSE
      BY <1>1, <3>1 DEF RemoveMember
    <3>2. CASE RemoveRequest
      BY <1>1, <3>2 DEF RemoveRequest
    <3>3. ASSUME NEW p \in MemberCalls,
                 \/ \E m \in Memberships : StartAddMember(p, m)
                 \/ \E payload \in Requested : StartModerate(p, payload)
          PROVE  FALSE
      <4>1. memberCall[p].pc # "save"
        BY <3>3 DEF StartAddMember, StartModerate, Begin
      <4>2. p # q /\ memberCall'[q] = memberCall[q]
        BY <1>1, <2>1, <3>3, <4>1 DEF StartAddMember, StartModerate, Begin
      <4> QED BY <1>1, <4>2
    <3>4. ASSUME NEW p \in MemberCalls, MemberFind(p) \/ ModerateLoad(p) PROVE FALSE
      BY <1>1, <2>1, <3>4 DEF MemberFind, MemberAnswers, ModerateLoad, Slot
    <3>5. ASSUME NEW p \in MemberCalls, NEW i \in MemberIds, MemberInsert(p, i) PROVE FALSE
      BY <1>1, <2>1, <3>5 DEF MemberInsert, MemberAnswers, Slot
    <3>6. ASSUME NEW p \in MemberCalls, ModerateSave(p) PROVE p = q /\ request # NoMember
      BY <1>1, <2>1, <3>6 DEF ModerateSave, MemberAnswers, Slot
    <3>7. ASSUME NEW p \in MemberCalls, MemberCallFails(p) PROVE FALSE
      <4>1. IdleCall.pc = "idle"
        BY DEF IdleCall
      <4> QED BY <1>1, <2>1, <3>7, <4>1 DEF MemberCallFails
    <3> QED BY <1>1, <3>1, <3>2, <3>3, <3>4, <3>5, <3>6, <3>7 DEF MembershipNext
  <2>3. request' = Saved(memberCall[q].payload, memberCall[q].loaded, request)
    BY <2>2 DEF ModerateSave
  <2>4. /\ memberCall[q].payload \in Requested /\ memberCall[q].loaded \in Requested
        /\ request \in Requested
    BY <1>1, <2>2 DEF Equipped, Typed
  <2>5. /\ memberCall[q].payload.status = NoMember => request'.status = request.status
        /\ memberCall[q].payload.notes = NoMember => request'.notes = request.notes
    BY <2>3, <2>4 DEF Saved, Applied, Requested
  <2>6. ~memberCall[q].late => request' = Applied(memberCall[q].payload, request)
    BY <1>1, <2>2, <2>3, <2>4 DEF FreshUnlessLate, Saved, Applied, Requested
  <2> QED BY <2>5, <2>6
<1>2. ASSUME MembershipInv, FreshUnlessLate, UNCHANGED membershipVars,
             NEW q \in MemberCalls
      PROVE  ~(memberCall[q].pc = "save" /\ memberCall'[q].pc = "added")
  BY <1>2 DEF membershipVars
<1>3. MembershipInv /\ FreshUnlessLate /\ [MembershipNext]_membershipVars =>
        [\A q \in MemberCalls :
           LET c == memberCall[q]
           IN  c.pc = "save" /\ memberCall'[q].pc = "added" =>
                 /\ c.payload.status = NoMember => request'.status = request.status
                 /\ c.payload.notes = NoMember => request'.notes = request.notes
                 /\ ~c.late => request' = Applied(c.payload, request)]_membershipVars
  BY <1>1, <1>2
<1> QED BY <1>3, MembershipInductive, FreshInductive, PTL
        DEF MembershipSpec, ModeratorsKeepEachOthersFields
=============================================================================
