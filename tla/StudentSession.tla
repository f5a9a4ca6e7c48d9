--------------------------- MODULE StudentSession ---------------------------
(***************************************************************************)
(* The account of one student in StudentAuthService: registration, e-mail  *)
(* verification, login with its lock, password reset, and the refresh      *)
(* tokens, which are rotated and revoked by family.  Accounts share        *)
(* nothing, so one account stands for all of them.                         *)
(*                                                                         *)
(* A call stops at every await.  Documents are saved by writing only the   *)
(* fields changed since they were read.  Fields that are written but never *)
(* read (the student's resetToken and verificationToken, addresses and     *)
(* agents) are left out, and so are input checks that refuse before any    *)
(* document is read.                                                       *)
(***************************************************************************)
EXTENDS Integers, FiniteSets

CONSTANTS
  Calls,                    \* slots for requests in flight
  Passwords,
  None,                     \* "no value"
  MaxLoginAttempts,         \* wrong passwords that lock the account, 5 in the code
  MaxVerificationAttempts,  \* MAX_VERIFICATION_ATTEMPTS, 5 in the code
  MaxCalls,                 \* bounds the requests of a behaviour
  MaxFaults                 \* bounds failed calls and stops of the process

ASSUME SessionBounds ==
  /\ MaxLoginAttempts \in Nat \ {0} /\ MaxVerificationAttempts \in Nat \ {0}
  /\ MaxCalls \in Nat /\ MaxFaults \in Nat
ASSUME SessionCallsFinite == IsFiniteSet(Calls)
ASSUME SessionNone == None \notin Passwords

VARIABLES
  student,   \* the student document, or None
  mailed,    \* a verification link has been mailed
  refresh,   \* the refresh-token collection
  link,      \* the password-reset-token collection
  call,      \* each slot: the call it awaits, and its locals
  raced,     \* history: exchanges, by family, of a token another one has revoked
  calls, callFaults  \* what has been used of the bounds

sessionVars ==
  <<student, mailed, refresh, link, call, raced, calls, callFaults>>

\* A request issues at most one token and one reset link.
TokenIds == 1..MaxCalls
LinkIds == 1..MaxCalls

Student ==
  [password: Passwords, verified: BOOLEAN,
   attempts: Nat, lock: {"none", "held", "past"},
   tries: Nat, tried: {"never", "cooling", "window", "past"}]

NoToken == [state |-> "none", family |-> 0]
RefreshToken == {NoToken} \cup [state: {"live", "revoked", "gone"}, family: TokenIds]

\* "spent" is used or expired: neither is found again.
LinkStates == {"none", "stored", "sent", "spent"}

CallNames ==
  {"idle", "register.lookup", "register.insert", "register.mail", "verify.read",
   "verify.count", "verify.save", "resend.read", "resend.save", "login.read",
   "login.fail", "login.pass", "forget.read", "forget.invalidate", "forget.insert",
   "forget.mail", "reset.read", "reset.save", "reset.mark", "reset.clear",
   "refresh.read", "refresh.revoke", "refresh.mark", "grant"}

IdleSlot == [pc |-> "idle", tok |-> 0, link |-> 0, password |-> None, doc |-> None]

CallSlot ==
  [pc: CallNames, tok: {0} \cup TokenIds, link: {0} \cup LinkIds,
   password: {None} \cup Passwords, doc: {None} \cup Student]

SessionTypeOK ==
  /\ student \in {None} \cup Student
  /\ mailed \in BOOLEAN
  /\ refresh \in [TokenIds -> RefreshToken]
  /\ link \in [LinkIds -> LinkStates]
  /\ call \in [Calls -> CallSlot]
  /\ raced \in [TokenIds -> Nat]
  /\ calls \in 0..MaxCalls /\ callFaults \in 0..MaxFaults

SessionInit ==
  /\ student = None /\ mailed = FALSE
  /\ refresh = [t \in TokenIds |-> NoToken]
  /\ link = [k \in LinkIds |-> "none"]
  /\ call = [q \in Calls |-> IdleSlot]
  /\ raced = [t \in TokenIds |-> 0]
  /\ calls = 0 /\ callFaults = 0

----------------------------------------------------------------------------
At(q, name) == call[q].pc = name
CallAwaits(q, name) == call' = [call EXCEPT ![q].pc = name]
CallKeeps(q, name, field, value) ==
  call' = [call EXCEPT ![q].pc = name, ![q][field] = value]
CallEnds(q) == call' = [call EXCEPT ![q] = IdleSlot]

\* What the requests and their timers leave alone.
KeepStudent == UNCHANGED <<student, mailed>>
KeepTokens == UNCHANGED <<refresh, raced>>
KeepBounds == UNCHANGED <<calls, callFaults>>

\* A document's save writes the fields that changed since it was read.
Write(field, read, value) == IF read = value THEN student[field] ELSE value

Stored(t) == refresh[t].state \in {"live", "revoked"}
FamilyOf(t) == refresh[t].family
Family(f) == {t \in TokenIds : refresh[t] # NoToken /\ FamilyOf(t) = f}
NextToken == 1 + Cardinality({t \in TokenIds : refresh[t] # NoToken})
NextLink == 1 + Cardinality({k \in LinkIds : link[k] # "none"})

Routes == {"register.lookup", "verify.read", "resend.read", "login.read",
           "forget.read", "reset.read", "refresh.read"}

\* Reset and verification links travel by mail only; clients hold every token
\* they were issued.
StartCall(q, route) ==
  /\ At(q, "idle") /\ calls < MaxCalls
  /\ calls' = calls + 1
  /\ route = "verify.read" => mailed
  /\ \E p \in IF route \in {"register.lookup", "login.read", "reset.read"}
                THEN Passwords ELSE {None},
        t \in IF route = "refresh.read"
                THEN {t \in TokenIds : refresh[t] # NoToken} ELSE {0},
        k \in IF route = "reset.read"
                THEN {k \in LinkIds : link[k] \in {"sent", "spent"}} ELSE {0} :
       call' = [call EXCEPT ![q] = [pc |-> route, tok |-> t, link |-> k,
                                    password |-> p, doc |-> None]]
  /\ KeepStudent /\ KeepTokens /\ UNCHANGED <<link, callFaults>>

----------------------------------------------------------------------------
(***************************************************************************)
(* POST register                                                           *)
(***************************************************************************)

RegisterLookup(q) ==
  /\ At(q, "register.lookup")
  /\ IF student = None THEN CallAwaits(q, "register.insert") ELSE CallEnds(q)
  /\ KeepStudent /\ KeepTokens /\ KeepBounds /\ UNCHANGED link

\* Faulty variant: the schema gives loginAttempts no default.
NewStudent_NoDefault(p) ==
  [password |-> p, verified |-> FALSE, attempts |-> None, lock |-> "none",
   tries |-> 0, tried |-> "never"]

NewStudent(p) ==
  [password |-> p, verified |-> FALSE, attempts |-> 0, lock |-> "none",
   tries |-> 0, tried |-> "never"]

\* The e-mail address is unique in the collection.
RegisterInsert(q) ==
  /\ At(q, "register.insert")
  /\ IF student = None
       THEN /\ student' = NewStudent(call[q].password)
            /\ CallAwaits(q, "register.mail")
       ELSE CallEnds(q) /\ UNCHANGED student
  /\ KeepTokens /\ KeepBounds /\ UNCHANGED <<mailed, link>>

\* The new student is logged in at once, before the address is verified.
RegisterMail(q) ==
  /\ At(q, "register.mail")
  /\ mailed' = TRUE
  /\ CallAwaits(q, "grant")
  /\ KeepTokens /\ KeepBounds /\ UNCHANGED <<student, link>>

\* generateTokenPair: a login or a registration opens a family of its own.
Grant(q) ==
  /\ At(q, "grant")
  /\ LET family == IF call[q].tok = 0 THEN NextToken ELSE FamilyOf(call[q].tok)
     IN  refresh' = [refresh EXCEPT ![NextToken] =
                       [state |-> "live", family |-> family]]
  /\ CallEnds(q)
  /\ KeepStudent /\ KeepBounds /\ UNCHANGED <<raced, link>>

----------------------------------------------------------------------------
(***************************************************************************)
(* POST verify-email and resend-verification-email                         *)
(***************************************************************************)

MayVerify ==
  /\ ~student.verified
  /\ student.tried # "cooling"
  /\ student.tried = "window" => student.tries < MaxVerificationAttempts

VerifyRead(q) ==
  /\ At(q, "verify.read")
  /\ IF MayVerify THEN CallKeeps(q, "verify.count", "doc", student) ELSE CallEnds(q)
  /\ KeepStudent /\ KeepTokens /\ KeepBounds /\ UNCHANGED link

VerifyCount(q) ==
  /\ At(q, "verify.count")
  /\ student' = [student EXCEPT !.tries = call[q].doc.tries + 1, !.tried = "cooling"]
  /\ CallAwaits(q, "verify.save")
  /\ KeepTokens /\ KeepBounds /\ UNCHANGED <<mailed, link>>

VerifySave(q) ==
  /\ At(q, "verify.save")
  /\ student' = [student EXCEPT !.verified = TRUE, !.tries = 0, !.tried = "never"]
  /\ CallEnds(q)
  /\ KeepTokens /\ KeepBounds /\ UNCHANGED <<mailed, link>>

ResendRead(q) ==
  /\ At(q, "resend.read")
  /\ IF student # None /\ ~student.verified /\ student.tried # "cooling"
       THEN CallKeeps(q, "resend.save", "doc", student)
       ELSE CallEnds(q)
  /\ KeepStudent /\ KeepTokens /\ KeepBounds /\ UNCHANGED link

\* The event emitted here has no listener, and nothing is mailed.
ResendSave(q) ==
  /\ At(q, "resend.save")
  /\ student' = [student EXCEPT !.tries = Write("tries", call[q].doc.tries, 0),
                                !.tried = "cooling"]
  /\ CallEnds(q)
  /\ KeepTokens /\ KeepBounds /\ UNCHANGED <<mailed, link>>

----------------------------------------------------------------------------
(***************************************************************************)
(* POST login                                                              *)
(***************************************************************************)

\* The password is compared with the document as it was read.
LoginRead(q) ==
  /\ At(q, "login.read")
  /\ CASE student = None \/ (student # None /\ student.lock = "held") -> CallEnds(q)
       [] student # None /\ student.lock # "held" ->
            IF student.password # call[q].password
              THEN CallKeeps(q, "login.fail", "doc", student)
              ELSE IF student.verified THEN CallKeeps(q, "login.pass", "doc", student)
                                       ELSE CallEnds(q)
  /\ KeepStudent /\ KeepTokens /\ KeepBounds /\ UNCHANGED link

LoginFail(q) ==
  /\ At(q, "login.fail")
  /\ LET attempts == call[q].doc.attempts + 1
     IN  student' = [student EXCEPT
                       !.attempts = attempts,
                       !.lock = IF attempts >= MaxLoginAttempts THEN "held" ELSE @]
  /\ CallEnds(q)
  /\ KeepTokens /\ KeepBounds /\ UNCHANGED <<mailed, link>>

\* Only a counter and a lock that were set when read are written.
LoginPass(q) ==
  /\ At(q, "login.pass")
  /\ student' = [student EXCEPT
                   !.attempts = Write("attempts", call[q].doc.attempts, 0),
                   !.lock = Write("lock", call[q].doc.lock, "none")]
  /\ CallAwaits(q, "grant")
  /\ KeepTokens /\ KeepBounds /\ UNCHANGED <<mailed, link>>

----------------------------------------------------------------------------
(***************************************************************************)
(* POST forgot-password and reset-password                                 *)
(***************************************************************************)

ForgetRead(q) ==
  /\ At(q, "forget.read")
  /\ IF student = None THEN CallEnds(q) ELSE CallAwaits(q, "forget.invalidate")
  /\ KeepStudent /\ KeepTokens /\ KeepBounds /\ UNCHANGED link

ForgetInvalidate(q) ==
  /\ At(q, "forget.invalidate")
  /\ link' = [k \in LinkIds |-> IF link[k] = "none" THEN "none" ELSE "spent"]
  /\ CallAwaits(q, "forget.insert")
  /\ KeepStudent /\ KeepTokens /\ KeepBounds

ForgetInsert(q) ==
  /\ At(q, "forget.insert")
  /\ link' = [link EXCEPT ![NextLink] = "stored"]
  /\ CallKeeps(q, "forget.mail", "link", NextLink)
  /\ KeepStudent /\ KeepTokens /\ KeepBounds

ForgetMail(q) ==
  /\ At(q, "forget.mail")
  /\ link' = [link EXCEPT ![call[q].link] = IF @ = "stored" THEN "sent" ELSE @]
  /\ CallEnds(q)
  /\ KeepStudent /\ KeepTokens /\ KeepBounds

ResetRead(q) ==
  /\ At(q, "reset.read")
  /\ IF link[call[q].link] = "sent" THEN CallAwaits(q, "reset.save") ELSE CallEnds(q)
  /\ KeepStudent /\ KeepTokens /\ KeepBounds /\ UNCHANGED link

ResetSave(q) ==
  /\ At(q, "reset.save")
  /\ student' = [student EXCEPT !.password = call[q].password]
  /\ CallAwaits(q, "reset.mark")
  /\ KeepTokens /\ KeepBounds /\ UNCHANGED <<mailed, link>>

ResetMark(q) ==
  /\ At(q, "reset.mark")
  /\ link' = [link EXCEPT ![call[q].link] = "spent"]
  /\ CallAwaits(q, "reset.clear")
  /\ KeepStudent /\ KeepTokens /\ KeepBounds

\* Every token stored for the student is deleted.
ResetClear(q) ==
  /\ At(q, "reset.clear")
  /\ refresh' = [t \in TokenIds |->
                   IF Stored(t) THEN [refresh[t] EXCEPT !.state = "gone"] ELSE refresh[t]]
  /\ CallEnds(q)
  /\ KeepStudent /\ KeepBounds /\ UNCHANGED <<raced, link>>

----------------------------------------------------------------------------
(***************************************************************************)
(* POST refresh-token and logout                                           *)
(***************************************************************************)

\* Faulty variant: a revoked token is exchanged like a live one.
RefreshRead_Revoked(q) ==
  /\ At(q, "refresh.read")
  /\ IF Stored(call[q].tok) THEN CallAwaits(q, "refresh.mark") ELSE CallEnds(q)
  /\ KeepStudent /\ KeepTokens /\ KeepBounds /\ UNCHANGED link

RefreshRead(q) ==
  /\ At(q, "refresh.read")
  /\ CASE refresh[call[q].tok].state = "live" -> CallAwaits(q, "refresh.mark")
       [] refresh[call[q].tok].state = "revoked" -> CallAwaits(q, "refresh.revoke")
       [] OTHER -> CallEnds(q)
  /\ KeepStudent /\ KeepTokens /\ KeepBounds /\ UNCHANGED link

\* A revoked token was presented: every token of its family is revoked.
RefreshRevoke(q) ==
  /\ At(q, "refresh.revoke")
  /\ refresh' = [t \in TokenIds |->
                   IF Stored(t) /\ FamilyOf(t) = FamilyOf(call[q].tok)
                     THEN [refresh[t] EXCEPT !.state = "revoked"]
                     ELSE refresh[t]]
  /\ CallEnds(q)
  /\ KeepStudent /\ KeepBounds /\ UNCHANGED <<raced, link>>

\* Faulty variant: the old token is left as it is.
RefreshMark_Keeps(q) ==
  /\ At(q, "refresh.mark")
  /\ CallAwaits(q, "grant")
  /\ KeepStudent /\ KeepBounds /\ UNCHANGED <<refresh, raced, link>>

\* The token is not read again: one that was revoked meanwhile is exchanged
\* all the same, and only the save of a deleted one is refused.
RefreshMark(q) ==
  /\ At(q, "refresh.mark")
  /\ LET t == call[q].tok
     IN  IF Stored(t)
           THEN /\ refresh' = [refresh EXCEPT ![t].state = "revoked"]
                /\ raced' = IF refresh[t].state = "revoked"
                              THEN [raced EXCEPT ![FamilyOf(t)] = @ + 1] ELSE raced
                /\ CallAwaits(q, "grant")
           ELSE CallEnds(q) /\ KeepTokens
  /\ KeepStudent /\ KeepBounds /\ UNCHANGED link

\* Deletes one token.  Its expiry after seven days does the same.
Logout(t) ==
  /\ Stored(t)
  /\ refresh' = [refresh EXCEPT ![t].state = "gone"]
  /\ KeepStudent /\ KeepBounds /\ UNCHANGED <<raced, link, call>>

----------------------------------------------------------------------------
(***************************************************************************)
(* Time and faults                                                         *)
(***************************************************************************)

\* 15 minutes have passed since the lock was set.
LockExpires ==
  /\ student # None /\ student.lock = "held"
  /\ student' = [student EXCEPT !.lock = "past"]
  /\ KeepTokens /\ KeepBounds /\ UNCHANGED <<mailed, link, call>>

\* A minute, then 15, since lastVerificationAttempt.
TriedPasses ==
  /\ student # None
  /\ \/ student.tried = "cooling" /\ student' = [student EXCEPT !.tried = "window"]
     \/ student.tried = "window" /\ student' = [student EXCEPT !.tried = "past"]
  /\ KeepTokens /\ KeepBounds /\ UNCHANGED <<mailed, link, call>>

LinkExpires(k) ==
  /\ link[k] \in {"stored", "sent"}
  /\ link' = [link EXCEPT ![k] = "spent"]
  /\ KeepStudent /\ KeepTokens /\ KeepBounds /\ UNCHANGED call

CallFault == callFaults < MaxFaults /\ callFaults' = callFaults + 1

\* The awaited call rejects; the exception filter answers.
SessionCallFails(q) ==
  /\ CallFault
  /\ ~At(q, "idle")
  /\ CallEnds(q)
  /\ KeepStudent /\ KeepTokens /\ UNCHANGED <<link, calls>>

SessionProcessStops ==
  /\ CallFault
  /\ call' = [q \in Calls |-> IdleSlot]
  /\ KeepStudent /\ KeepTokens /\ UNCHANGED <<link, calls>>

ServeSession(q) ==
  \/ RegisterLookup(q) \/ RegisterInsert(q) \/ RegisterMail(q) \/ Grant(q)
  \/ VerifyRead(q) \/ VerifyCount(q) \/ VerifySave(q)
  \/ ResendRead(q) \/ ResendSave(q)
  \/ LoginRead(q) \/ LoginFail(q) \/ LoginPass(q)
  \/ ForgetRead(q) \/ ForgetInvalidate(q) \/ ForgetInsert(q) \/ ForgetMail(q)
  \/ ResetRead(q) \/ ResetSave(q) \/ ResetMark(q) \/ ResetClear(q)
  \/ RefreshRead(q) \/ RefreshRevoke(q) \/ RefreshMark(q)

SessionNext ==
  \/ \E q \in Calls, route \in Routes : StartCall(q, route)
  \/ \E q \in Calls : ServeSession(q) \/ SessionCallFails(q)
  \/ \E t \in TokenIds : Logout(t)
  \/ \E k \in LinkIds : LinkExpires(k)
  \/ LockExpires
  \/ TriedPasses
  \/ SessionProcessStops

SessionSpec == SessionInit /\ [][SessionNext]_sessionVars

----------------------------------------------------------------------------
(***************************************************************************)
(* Properties                                                              *)
(***************************************************************************)

Live(f) == {t \in Family(f) : refresh[t].state = "live"}

\* Exchanges of a token of the family that have revoked it, or will.
Revoked(f) == {q \in Calls : At(q, "grant") /\ call[q].tok \in Family(f)}
Exchanging(f) == Revoked(f) \cup
                 {q \in Calls : At(q, "refresh.mark") /\ call[q].tok \in Family(f)}

\* "Rotate refresh token": a family has one token that may be exchanged, or
\* the exchange that is about to issue it.  It has more only by as many
\* exchanges as read their token unrevoked and saved it after another request
\* had revoked it.
RotationForksByRace ==
  \A f \in TokenIds :
    Cardinality(Live(f)) + Cardinality(Revoked(f)) <= 1 + raced[f]

\* The account implements SessionFamilies: once the last live token of a
\* family is exchanged without success, logged out, cleared by a password
\* reset or revoked for reuse, and no exchange is in flight, no request ever
\* issues a token of that family again, whatever old tokens clients present.
Abstract == INSTANCE SessionFamilies WITH
  Families <- TokenIds,
  opened <- {f \in TokenIds : FamilyOf(f) = f},
  branches <- [f \in TokenIds |-> Cardinality(Live(f)) + Cardinality(Exchanging(f))]

SessionImplementsFamilies == Abstract!FamiliesSpec
=============================================================================
