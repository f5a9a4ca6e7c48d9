---------------------------- MODULE TutorSession ----------------------------
(***************************************************************************)
(* The account of one tutor in TutorService, which has the refresh tokens  *)
(* of StudentAuthService with other rules: a token names its family, so    *)
(* reuse is answered by revoking the family even where the record is not   *)
(* found, a logout revokes instead of deleting, a password reset leaves    *)
(* the tokens alone, and only an active account is logged in or refreshed. *)
(* refreshToken and logout are written twice in the class; the later       *)
(* methods are the ones that run.                                          *)
(*                                                                         *)
(* The tokens are a collection of the schema in tutor/schemas, which the   *)
(* service is written for.  TutorModule and StudentAuthModule register     *)
(* models of the same names on one connection: README, section 1, leaves   *)
(* that aside.                                                             *)
(*                                                                         *)
(* The profile, and fields that are written but never read, are left out.  *)
(***************************************************************************)
EXTENDS Integers, FiniteSets

CONSTANTS
  TutorCalls,      \* slots for requests in flight
  TutorPasswords,
  NoTutor,         \* "no value"
  MaxTutorCalls,   \* bounds the requests of a behaviour
  MaxTutorFaults,  \* bounds failed calls and stops of the process
  MaxDecisions     \* bounds the changes of the account's status

ASSUME TutorBounds ==
  MaxTutorCalls \in Nat /\ MaxTutorFaults \in Nat /\ MaxDecisions \in Nat
ASSUME TutorCallsFinite == IsFiniteSet(TutorCalls)
ASSUME NoTutorOutside == NoTutor \notin TutorPasswords

VARIABLES
  tutor,         \* the tutor document, or NoTutor
  tutorMailed,   \* a verification link has been mailed
  tutorRefresh,  \* the refresh-token collection
  tutorLink,     \* the password-reset-token collection
  tutorCall,     \* each slot: the call it awaits, and its locals
  opening,       \* history: tokens issued to a registration
  tutorRequests, tutorFaults, decisions  \* what has been used of the bounds

tutorVars == <<tutor, tutorMailed, tutorRefresh, tutorLink, tutorCall, opening,
               tutorRequests, tutorFaults, decisions>>

TutorTokens == 1..MaxTutorCalls
TutorLinks == 1..MaxTutorCalls

Tutor == [password: TutorPasswords, verified: BOOLEAN,
          status: {"pending", "active", "suspended"}]

NoTutorToken == [state |-> "none", family |-> 0]

TutorCallNames ==
  {"idle", "register.lookup", "register.insert", "register.mail", "register.grant",
   "verify.read", "verify.save", "login.read", "forget.read", "forget.invalidate",
   "forget.insert", "forget.mail", "reset.read", "reset.save", "reset.mark",
   "refresh.read", "refresh.revoke", "refresh.mark", "refresh.tutor", "grant"}

IdleTutorCall == [pc |-> "idle", tok |-> 0, link |-> 0, password |-> NoTutor]

TutorTypeOK ==
  /\ tutor \in {NoTutor} \cup Tutor
  /\ tutorMailed \in BOOLEAN
  /\ tutorRefresh \in [TutorTokens ->
       {NoTutorToken} \cup [state: {"live", "revoked", "gone"}, family: TutorTokens]]
  /\ tutorLink \in [TutorLinks -> {"none", "stored", "sent", "spent"}]
  /\ tutorCall \in [TutorCalls ->
       [pc: TutorCallNames, tok: {0} \cup TutorTokens, link: {0} \cup TutorLinks,
        password: {NoTutor} \cup TutorPasswords]]
  /\ opening \in SUBSET TutorTokens
  /\ tutorRequests \in 0..MaxTutorCalls /\ tutorFaults \in 0..MaxTutorFaults
  /\ decisions \in 0..MaxDecisions

TutorInit ==
  /\ tutor = NoTutor /\ tutorMailed = FALSE
  /\ tutorRefresh = [t \in TutorTokens |-> NoTutorToken]
  /\ tutorLink = [k \in TutorLinks |-> "none"]
  /\ tutorCall = [q \in TutorCalls |-> IdleTutorCall]
  /\ opening = {}
  /\ tutorRequests = 0 /\ tutorFaults = 0 /\ decisions = 0

----------------------------------------------------------------------------
TutorAt(q, name) == tutorCall[q].pc = name
TutorAwaits(q, name) == tutorCall' = [tutorCall EXCEPT ![q].pc = name]
TutorEnds(q) == tutorCall' = [tutorCall EXCEPT ![q] = IdleTutorCall]
TutorGoesOn(q, may, name) == IF may THEN TutorAwaits(q, name) ELSE TutorEnds(q)

KeepTutor == UNCHANGED <<tutor, tutorMailed>>
KeepTutorTokens == UNCHANGED <<tutorRefresh, opening>>
KeepTutorBounds == UNCHANGED <<tutorRequests, tutorFaults, decisions>>

Registered == tutor # NoTutor
TutorStored(t) == tutorRefresh[t].state \in {"live", "revoked"}
TutorFamilyOf(t) == tutorRefresh[t].family
NextTutorToken == 1 + Cardinality({t \in TutorTokens : tutorRefresh[t] # NoTutorToken})
NextTutorLink == 1 + Cardinality({k \in TutorLinks : tutorLink[k] # "none"})

TutorRoutes == {"register.lookup", "verify.read", "login.read", "forget.read",
                "reset.read", "refresh.read"}

\* Reset and verification links travel by mail only.
StartTutorCall(q, route) ==
  /\ TutorAt(q, "idle") /\ tutorRequests < MaxTutorCalls
  /\ tutorRequests' = tutorRequests + 1
  /\ route = "verify.read" => tutorMailed
  /\ \E p \in IF route \in {"register.lookup", "login.read", "reset.read"}
                THEN TutorPasswords ELSE {NoTutor},
        t \in IF route = "refresh.read"
                THEN {t \in TutorTokens : tutorRefresh[t] # NoTutorToken} ELSE {0},
        k \in IF route = "reset.read"
                THEN {k \in TutorLinks : tutorLink[k] \in {"sent", "spent"}} ELSE {0} :
       tutorCall' = [tutorCall EXCEPT ![q] = [pc |-> route, tok |-> t, link |-> k,
                                              password |-> p]]
  /\ KeepTutor /\ KeepTutorTokens /\ UNCHANGED <<tutorLink, tutorFaults, decisions>>

----------------------------------------------------------------------------
(***************************************************************************)
(* POST tutor/create, verify-email and login                               *)
(***************************************************************************)

TutorRegisterLookup(q) ==
  /\ TutorAt(q, "register.lookup")
  /\ TutorGoesOn(q, ~Registered, "register.insert")
  /\ KeepTutor /\ KeepTutorTokens /\ KeepTutorBounds /\ UNCHANGED tutorLink

NewTutor(p) == [password |-> p, verified |-> FALSE, status |-> "pending"]

TutorRegisterInsert(q) ==
  /\ TutorAt(q, "register.insert")
  /\ tutor' = IF Registered THEN tutor ELSE NewTutor(tutorCall[q].password)
  /\ TutorGoesOn(q, ~Registered, "register.mail")
  /\ KeepTutorTokens /\ KeepTutorBounds /\ UNCHANGED <<tutorMailed, tutorLink>>

TutorRegisterMail(q) ==
  /\ TutorAt(q, "register.mail")
  /\ tutorMailed' = TRUE
  /\ TutorAwaits(q, "register.grant")
  /\ KeepTutorTokens /\ KeepTutorBounds /\ UNCHANGED <<tutor, tutorLink>>

\* generateTokenPair, for a registration, a login or a refresh.
TutorGrant(q) ==
  /\ tutorCall[q].pc \in {"register.grant", "grant"}
  /\ LET old == tutorCall[q].tok
         family == IF old = 0 THEN NextTutorToken ELSE TutorFamilyOf(old)
     IN  tutorRefresh' = [tutorRefresh EXCEPT ![NextTutorToken] =
                            [state |-> "live", family |-> family]]
  /\ opening' = IF TutorAt(q, "register.grant") THEN opening \cup {NextTutorToken}
                                                ELSE opening
  /\ TutorEnds(q)
  /\ KeepTutor /\ KeepTutorBounds /\ UNCHANGED tutorLink

TutorVerifyRead(q) ==
  /\ TutorAt(q, "verify.read")
  /\ TutorGoesOn(q, ~tutor.verified, "verify.save")
  /\ KeepTutor /\ KeepTutorTokens /\ KeepTutorBounds /\ UNCHANGED tutorLink

TutorVerifySave(q) ==
  /\ TutorAt(q, "verify.save")
  /\ tutor' = [tutor EXCEPT !.verified = TRUE]
  /\ TutorEnds(q)
  /\ KeepTutorTokens /\ KeepTutorBounds /\ UNCHANGED <<tutorMailed, tutorLink>>

TutorLogin(q) ==
  /\ TutorAt(q, "login.read")
  /\ LET known == Registered /\ tutor.password = tutorCall[q].password
         verified == known /\ tutor.verified
     IN  TutorGoesOn(q, verified /\ tutor.status = "active", "grant")
  /\ KeepTutor /\ KeepTutorTokens /\ KeepTutorBounds /\ UNCHANGED tutorLink

----------------------------------------------------------------------------
(***************************************************************************)
(* POST tutor/forgot-password and reset-password                           *)
(***************************************************************************)

TutorForgetRead(q) ==
  /\ TutorAt(q, "forget.read")
  /\ TutorGoesOn(q, Registered, "forget.invalidate")
  /\ KeepTutor /\ KeepTutorTokens /\ KeepTutorBounds /\ UNCHANGED tutorLink

TutorForgetInvalidate(q) ==
  /\ TutorAt(q, "forget.invalidate")
  /\ tutorLink' = [k \in TutorLinks |-> IF tutorLink[k] = "none" THEN "none" ELSE "spent"]
  /\ TutorAwaits(q, "forget.insert")
  /\ KeepTutor /\ KeepTutorTokens /\ KeepTutorBounds

TutorForgetInsert(q) ==
  /\ TutorAt(q, "forget.insert")
  /\ tutorLink' = [tutorLink EXCEPT ![NextTutorLink] = "stored"]
  /\ tutorCall' = [tutorCall EXCEPT ![q].pc = "forget.mail", ![q].link = NextTutorLink]
  /\ KeepTutor /\ KeepTutorTokens /\ KeepTutorBounds

TutorForgetMail(q) ==
  /\ TutorAt(q, "forget.mail")
  /\ tutorLink' = [tutorLink EXCEPT ![tutorCall[q].link] =
                     IF @ = "stored" THEN "sent" ELSE @]
  /\ TutorEnds(q)
  /\ KeepTutor /\ KeepTutorTokens /\ KeepTutorBounds

TutorResetRead(q) ==
  /\ TutorAt(q, "reset.read")
  /\ TutorGoesOn(q, tutorLink[tutorCall[q].link] = "sent", "reset.save")
  /\ KeepTutor /\ KeepTutorTokens /\ KeepTutorBounds /\ UNCHANGED tutorLink

TutorResetSave(q) ==
  /\ TutorAt(q, "reset.save")
  /\ tutor' = [tutor EXCEPT !.password = tutorCall[q].password]
  /\ TutorAwaits(q, "reset.mark")
  /\ KeepTutorTokens /\ KeepTutorBounds /\ UNCHANGED <<tutorMailed, tutorLink>>

\* The refresh tokens stay as they are.
TutorResetMark(q) ==
  /\ TutorAt(q, "reset.mark")
  /\ tutorLink' = [tutorLink EXCEPT ![tutorCall[q].link] = "spent"]
  /\ TutorEnds(q)
  /\ KeepTutor /\ KeepTutorTokens /\ KeepTutorBounds

----------------------------------------------------------------------------
(***************************************************************************)
(* POST tutor/refresh-token and logout                                     *)
(***************************************************************************)

\* A token whose seven days are over fails as a JWT.
TutorRefreshRead(q) ==
  /\ TutorAt(q, "refresh.read")
  /\ CASE tutorRefresh[tutorCall[q].tok].state = "live" -> TutorAwaits(q, "refresh.mark")
       [] tutorRefresh[tutorCall[q].tok].state = "revoked" -> TutorAwaits(q, "refresh.revoke")
       [] OTHER -> TutorEnds(q)
  /\ KeepTutor /\ KeepTutorTokens /\ KeepTutorBounds /\ UNCHANGED tutorLink

\* Faulty variant: tokens of the family are made live again.
TutorRefreshRevoke_Toggles(q) ==
  /\ TutorAt(q, "refresh.revoke")
  /\ tutorRefresh' =
       [t \in TutorTokens |->
          IF TutorStored(t) /\ TutorFamilyOf(t) = TutorFamilyOf(tutorCall[q].tok)
            THEN [tutorRefresh[t] EXCEPT !.state = "live"]
            ELSE tutorRefresh[t]]
  /\ TutorEnds(q)
  /\ KeepTutor /\ KeepTutorBounds /\ UNCHANGED <<opening, tutorLink>>

TutorRefreshRevoke(q) ==
  /\ TutorAt(q, "refresh.revoke")
  /\ tutorRefresh' =
       [t \in TutorTokens |->
          IF TutorStored(t) /\ TutorFamilyOf(t) = TutorFamilyOf(tutorCall[q].tok)
            THEN [tutorRefresh[t] EXCEPT !.state = "revoked"]
            ELSE tutorRefresh[t]]
  /\ TutorEnds(q)
  /\ KeepTutor /\ KeepTutorBounds /\ UNCHANGED <<opening, tutorLink>>

TutorRefreshMark(q) ==
  /\ TutorAt(q, "refresh.mark")
  /\ LET t == tutorCall[q].tok
     IN  /\ tutorRefresh' = [tutorRefresh EXCEPT ![t].state =
                               IF TutorStored(t) THEN "revoked" ELSE @]
         /\ TutorGoesOn(q, TutorStored(t), "refresh.tutor")
  /\ KeepTutor /\ KeepTutorBounds /\ UNCHANGED <<opening, tutorLink>>

\* Faulty variant: the status of the account is not looked at.
TutorRefreshTutor_AnyStatus(q) ==
  /\ TutorAt(q, "refresh.tutor")
  /\ TutorAwaits(q, "grant")
  /\ KeepTutor /\ KeepTutorTokens /\ KeepTutorBounds /\ UNCHANGED tutorLink

\* By now the old token is revoked: a tutor who is not active has lost it.
TutorRefreshTutor(q) ==
  /\ TutorAt(q, "refresh.tutor")
  /\ TutorGoesOn(q, tutor.status = "active", "grant")
  /\ KeepTutor /\ KeepTutorTokens /\ KeepTutorBounds /\ UNCHANGED tutorLink

TutorLogout(t) ==
  /\ tutorRefresh[t].state = "live"
  /\ tutorRefresh' = [tutorRefresh EXCEPT ![t].state = "revoked"]
  /\ KeepTutor /\ KeepTutorBounds /\ UNCHANGED <<opening, tutorLink, tutorCall>>

----------------------------------------------------------------------------
(***************************************************************************)
(* Time, faults and the operators of the platform                          *)
(***************************************************************************)

TutorTokenExpires(t) ==
  /\ TutorStored(t)
  /\ tutorRefresh' = [tutorRefresh EXCEPT ![t].state = "gone"]
  /\ KeepTutor /\ KeepTutorBounds /\ UNCHANGED <<opening, tutorLink, tutorCall>>

TutorLinkExpires(k) ==
  /\ tutorLink[k] \in {"stored", "sent"}
  /\ tutorLink' = [tutorLink EXCEPT ![k] = "spent"]
  /\ KeepTutor /\ KeepTutorTokens /\ KeepTutorBounds /\ UNCHANGED tutorCall

\* No code of the repository changes accountStatus; somebody edits the document.
SupportDecides(status) ==
  /\ Registered /\ decisions < MaxDecisions
  /\ tutor.status # status
  /\ tutor' = [tutor EXCEPT !.status = status]
  /\ decisions' = decisions + 1
  /\ KeepTutorTokens
  /\ UNCHANGED <<tutorMailed, tutorLink, tutorCall, tutorRequests, tutorFaults>>

TutorFault == tutorFaults < MaxTutorFaults /\ tutorFaults' = tutorFaults + 1

TutorCallFails(q) ==
  /\ TutorFault
  /\ ~TutorAt(q, "idle")
  /\ TutorEnds(q)
  /\ KeepTutor /\ KeepTutorTokens /\ UNCHANGED <<tutorLink, tutorRequests, decisions>>

TutorProcessStops ==
  /\ TutorFault
  /\ tutorCall' = [q \in TutorCalls |-> IdleTutorCall]
  /\ KeepTutor /\ KeepTutorTokens /\ UNCHANGED <<tutorLink, tutorRequests, decisions>>

ServeTutor(q) ==
  \/ TutorRegisterLookup(q) \/ TutorRegisterInsert(q) \/ TutorRegisterMail(q)
  \/ TutorGrant(q) \/ TutorVerifyRead(q) \/ TutorVerifySave(q) \/ TutorLogin(q)
  \/ TutorForgetRead(q) \/ TutorForgetInvalidate(q) \/ TutorForgetInsert(q)
  \/ TutorForgetMail(q) \/ TutorResetRead(q) \/ TutorResetSave(q) \/ TutorResetMark(q)
  \/ TutorRefreshRead(q) \/ TutorRefreshRevoke(q) \/ TutorRefreshMark(q)
  \/ TutorRefreshTutor(q)

TutorNext ==
  \/ \E q \in TutorCalls, route \in TutorRoutes : StartTutorCall(q, route)
  \/ \E q \in TutorCalls : ServeTutor(q) \/ TutorCallFails(q)
  \/ \E t \in TutorTokens : TutorLogout(t) \/ TutorTokenExpires(t)
  \/ \E k \in TutorLinks : TutorLinkExpires(k)
  \/ \E status \in {"active", "suspended"} : SupportDecides(status)
  \/ TutorProcessStops

TutorSpec == TutorInit /\ [][TutorNext]_tutorVars

----------------------------------------------------------------------------
(***************************************************************************)
(* Properties                                                              *)
(***************************************************************************)

TutorLive(f) ==
  {t \in TutorTokens : tutorRefresh[t].state = "live" /\ TutorFamilyOf(t) = f}

TutorExchanging(f) ==
  {q \in TutorCalls : /\ tutorCall[q].pc \in {"refresh.mark", "refresh.tutor", "grant"}
                      /\ tutorCall[q].tok # 0
                      /\ TutorFamilyOf(tutorCall[q].tok) = f}

\* The account implements SessionFamilies: a family that has lost its last
\* live token to a logout, a refused exchange, its expiry or detected reuse,
\* with no exchange in flight, is never given a token again.
AbstractTutor == INSTANCE SessionFamilies WITH
  Families <- TutorTokens,
  opened <- {f \in TutorTokens : TutorFamilyOf(f) = f},
  branches <- [f \in TutorTokens |->
                 Cardinality(TutorLive(f)) + Cardinality(TutorExchanging(f))]

TutorImplementsFamilies == AbstractTutor!FamiliesSpec

\* An account nobody ever activated has at most the tokens its registration
\* was given: neither a login nor an exchange, alone or racing with others,
\* adds one.
InactiveGetsNoSession ==
  decisions = 0 =>
    \A t \in TutorTokens : tutorRefresh[t] # NoTutorToken => t \in opening
=============================================================================
