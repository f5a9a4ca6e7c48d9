---------------------------- MODULE Memberships ----------------------------
(***************************************************************************)
(* Members of organizations, and the moderation of removal requests: the   *)
(* two handlers that read a document and write in a second operation.      *)
(*                                                                         *)
(* addMember looks for a membership and inserts one afterwards; a unique   *)
(* index over organization and user refuses a second row.  moderate loads  *)
(* a request, assigns what the payload has and saves; the save sets the    *)
(* paths whose value differs from the loaded one, and fails when the       *)
(* document is gone.  Of a request's fields the model keeps status and     *)
(* adminNotes; metadata is assigned and saved as they are.                 *)
(*                                                                         *)
(* The collection of memberships is emptied of a row only by removeMember; *)
(* removing an organization leaves its members.                            *)
(***************************************************************************)
EXTENDS Naturals, FiniteSets

CONSTANTS
  MemberCalls,         \* slots for addMember and moderate calls in flight
  Organizations, Persons,
  MemberIds,           \* object ids for the rows
  NoMember,            \* "no value"
  Verdicts, Notes,     \* what a moderator may set
  MaxMemberCalls       \* bounds the calls of a behaviour

ASSUME MemberBounds == MaxMemberCalls \in Nat
ASSUME NoMemberOutside == NoMember \notin MemberIds \cup Organizations \cup Persons
ASSUME NoVerdictOutside == NoMember \notin Verdicts \cup Notes

VARIABLES
  members,      \* the rows: id to membership
  memberCall,   \* each slot: the call it awaits and what it works on
  request,      \* the removal request: its status and adminNotes, or NoMember
  memberCalls   \* what has been used of the bound

membershipVars == <<members, memberCall, request, memberCalls>>

Memberships == [organization: Organizations, user: Persons]
Requested == [status: Verdicts \cup {NoMember}, notes: Notes \cup {NoMember}]

IdleCall == [pc |-> "idle", about |-> NoMember, seen |-> FALSE,
             payload |-> NoMember, loaded |-> NoMember, late |-> FALSE]

MembershipTypeOK ==
  /\ members \in [MemberIds -> Memberships \cup {NoMember}]
  /\ request \in Requested \cup {NoMember}
  /\ memberCalls \in 0..MaxMemberCalls
  /\ memberCall \in [MemberCalls ->
       [pc: {"idle", "find", "insert", "load", "save", "added", "refused"},
        about: Memberships \cup {NoMember}, seen: BOOLEAN,
        payload: Requested \cup {NoMember}, loaded: Requested \cup {NoMember},
        late: BOOLEAN]]

Untouched == [status |-> NoMember, notes |-> NoMember]

MembershipInit ==
  /\ members = [i \in MemberIds |-> NoMember]
  /\ memberCall = [q \in MemberCalls |-> IdleCall]
  /\ request = Untouched /\ memberCalls = 0

Held(m) == \E i \in MemberIds : members[i] = m

----------------------------------------------------------------------------
(***************************************************************************)
(* organization-member: addMember, updateRole changes no membership,       *)
(* removeMember                                                            *)
(***************************************************************************)

Begin(q, call) ==
  /\ memberCall[q].pc \in {"idle", "added", "refused"} /\ memberCalls < MaxMemberCalls
  /\ memberCalls' = memberCalls + 1
  /\ memberCall' = [memberCall EXCEPT ![q] = call]

MemberAnswers(q, answer) == memberCall' = [memberCall EXCEPT ![q].pc = answer]

StartAddMember(q, m) ==
  /\ Begin(q, [IdleCall EXCEPT !.pc = "find", !.about = m, !.seen = Held(m)])
  /\ UNCHANGED <<members, request>>

\* Faulty variant: the filter has lost the user.
MemberFind_AnyUser(q) ==
  LET m == memberCall[q].about
      found == \E n \in Memberships : n.organization = m.organization /\ Held(n)
  IN  /\ memberCall[q].pc = "find"
      /\ MemberAnswers(q, IF found THEN "refused" ELSE "insert")
      /\ UNCHANGED <<members, request, memberCalls>>

MemberFind(q) ==
  /\ memberCall[q].pc = "find"
  /\ MemberAnswers(q, IF Held(memberCall[q].about) THEN "refused" ELSE "insert")
  /\ UNCHANGED <<members, request, memberCalls>>

\* Calls in flight for the same membership have seen it from now on.
MemberInsert(q, i) ==
  LET m == memberCall[q].about
  IN  /\ memberCall[q].pc = "insert" /\ members[i] = NoMember
      /\ IF Held(m)
           THEN MemberAnswers(q, "refused") /\ UNCHANGED members
           ELSE /\ members' = [members EXCEPT ![i] = m]
                /\ memberCall' = [p \in MemberCalls |->
                     IF p = q THEN [memberCall[p] EXCEPT !.pc = "added"]
                     ELSE [memberCall[p] EXCEPT !.seen = @ \/ memberCall[p].about = m]]
      /\ UNCHANGED <<request, memberCalls>>

RemoveMember(i) ==
  /\ members[i] # NoMember
  /\ members' = [members EXCEPT ![i] = NoMember]
  /\ UNCHANGED <<memberCall, request, memberCalls>>

----------------------------------------------------------------------------
(***************************************************************************)
(* removal-request: moderate and remove                                    *)
(***************************************************************************)

\* What a payload makes of a request: what it leaves out stays.
Applied(payload, r) ==
  [status |-> IF payload.status = NoMember THEN r.status ELSE payload.status,
   notes |-> IF payload.notes = NoMember THEN r.notes ELSE payload.notes]

\* Faulty variant: the save writes every path of the loaded document.
Saved_Whole(payload, loaded, r) == Applied(payload, loaded)

\* The save writes the paths that differ from the loaded document.
Saved(payload, loaded, r) ==
  LET assigned == Applied(payload, loaded)
  IN  [status |-> IF assigned.status = loaded.status THEN r.status ELSE assigned.status,
       notes |-> IF assigned.notes = loaded.notes THEN r.notes ELSE assigned.notes]

StartModerate(q, payload) ==
  /\ Begin(q, [IdleCall EXCEPT !.pc = "load", !.payload = payload])
  /\ UNCHANGED <<members, request>>

ModerateLoad(q) ==
  /\ memberCall[q].pc = "load"
  /\ memberCall' = [memberCall EXCEPT ![q].pc = IF request = NoMember THEN "refused" ELSE "save",
                                      ![q].loaded = request]
  /\ UNCHANGED <<members, request, memberCalls>>

ModerateSave(q) ==
  LET c == memberCall[q]
  IN  /\ c.pc = "save"
      /\ IF request = NoMember
           THEN MemberAnswers(q, "refused") /\ UNCHANGED request
           ELSE /\ request' = Saved(c.payload, c.loaded, request)
                /\ memberCall' = [p \in MemberCalls |->
                     IF p = q THEN [memberCall[p] EXCEPT !.pc = "added"]
                     ELSE [memberCall[p] EXCEPT !.late = @ \/ memberCall[p].pc = "save"]]
      /\ UNCHANGED <<members, memberCalls>>

RemoveRequest ==
  /\ request # NoMember
  /\ request' = NoMember
  /\ UNCHANGED <<members, memberCall, memberCalls>>

----------------------------------------------------------------------------

\* The database refuses a call, or the process ends: nothing is written.
MemberCallFails(q) ==
  /\ memberCall[q].pc \notin {"idle", "added", "refused"}
  /\ memberCall' = [memberCall EXCEPT ![q] = IdleCall]
  /\ UNCHANGED <<members, request, memberCalls>>

MembershipNext ==
  \/ \E q \in MemberCalls :
       \/ \E m \in Memberships : StartAddMember(q, m)
       \/ MemberFind(q) \/ ModerateLoad(q) \/ ModerateSave(q) \/ MemberCallFails(q)
       \/ \E i \in MemberIds : MemberInsert(q, i)
       \/ \E payload \in Requested : StartModerate(q, payload)
  \/ \E i \in MemberIds : RemoveMember(i)
  \/ RemoveRequest

MembershipSpec == MembershipInit /\ [][MembershipNext]_membershipVars

----------------------------------------------------------------------------
(***************************************************************************)
(* Properties                                                              *)
(***************************************************************************)

\* A user is at most once a member of an organization, and an addition is
\* refused only for a membership that was there while it was asked for,
\* however additions and removals of it interleave.
MembershipsUnique ==
  /\ \A i, j \in MemberIds : members[i] # NoMember /\ members[i] = members[j] => i = j
  /\ \A q \in MemberCalls :
       memberCall[q].pc = "refused" /\ memberCall[q].about # NoMember => memberCall[q].seen

\* A moderator's save changes no field its payload leaves out, also when it
\* comes after the save of another moderator it has not seen; and unless it
\* does, it sets every field the payload has.  (When it does, a verdict can
\* stay beside the notes of the other.)
ModeratorsKeepEachOthersFields ==
  [][\A q \in MemberCalls :
       LET c == memberCall[q]
       IN  c.pc = "save" /\ memberCall'[q].pc = "added" =>
             /\ c.payload.status = NoMember => request'.status = request.status
             /\ c.payload.notes = NoMember => request'.notes = request.notes
             /\ ~c.late => request' = Applied(c.payload, request)]_membershipVars
=============================================================================
