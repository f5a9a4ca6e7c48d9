--------------------------- MODULE SessionProofs ---------------------------
(***************************************************************************)
(* Theorems about the refresh tokens of StudentAuthService (StudentSession)*)
(* and TutorService (TutorSession): the types of both accounts, forks of a *)
(* family only by race, no session for a tutor nobody activated, and the   *)
(* refinement of SessionFamilies by each account.                          *)
(*                                                                         *)
(* Both inductive invariants rest on counting: a token or a link is        *)
(* inserted under the next number, and there is a next number because the  *)
(* request that inserts it has been counted against the bound (Budget,     *)
(* TutorBudget).  They also say what each request in flight holds (CallOK, *)
(* TutorCallOK).  Steps are sorted by what they do to the tokens, so that  *)
(* the arguments about families look at four kinds of step, not at thirty. *)
(***************************************************************************)
EXTENDS Accounts, FiniteSetTheorems, TLAPS

----------------------------------------------------------------------------
(***************************************************************************)
(* Numbers are given out in order: the ones in use are 1..n.               *)
(***************************************************************************)
Numbered(S) == IsFiniteSet(S) /\ S = 1..Cardinality(S)

LEMMA NextNumber ==
  ASSUME NEW S, Numbered(S)
  PROVE  /\ Cardinality(S) \in Nat
         /\ 1 + Cardinality(S) \notin S
         /\ Numbered(S \cup {1 + Cardinality(S)})
         /\ Cardinality(S \cup {1 + Cardinality(S)}) = Cardinality(S) + 1
<1>1. Cardinality(S) \in Nat
  BY FS_CardinalityType DEF Numbered
<1>2. 1 + Cardinality(S) \notin S
  BY <1>1 DEF Numbered
<1>3. /\ IsFiniteSet(S \cup {1 + Cardinality(S)})
      /\ Cardinality(S \cup {1 + Cardinality(S)}) = Cardinality(S) + 1
  BY <1>2, FS_AddElement DEF Numbered
<1>4. S \cup {1 + Cardinality(S)} = 1..(Cardinality(S) + 1)
  BY <1>1 DEF Numbered
<1> QED BY <1>1, <1>2, <1>3, <1>4 DEF Numbered

LEMMA OneMore ==
  ASSUME NEW S, IsFiniteSet(S), NEW x, x \notin S, NEW T, T = S \cup {x}
  PROVE  IsFiniteSet(T) /\ Cardinality(T) = Cardinality(S) + 1 /\ Cardinality(S) \in Nat
  BY FS_AddElement, FS_CardinalityType

LEMMA OneLess ==
  ASSUME NEW S, IsFiniteSet(S), NEW x \in S, NEW T, T = S \ {x}
  PROVE  /\ IsFiniteSet(T) /\ Cardinality(T) = Cardinality(S) - 1
         /\ Cardinality(S) \in Nat /\ Cardinality(S) > 0
<1>1. IsFiniteSet(T) /\ Cardinality(T) = Cardinality(S) - 1
  BY FS_RemoveElement
<1>2. Cardinality(S) \in Nat /\ Cardinality(T) \in Nat
  BY <1>1, FS_CardinalityType
<1> QED BY <1>1, <1>2

LEMMA NoMore ==
  ASSUME NEW S, IsFiniteSet(S), NEW T, T \subseteq S
  PROVE  /\ IsFiniteSet(T) /\ Cardinality(T) \in Nat /\ Cardinality(S) \in Nat
         /\ Cardinality(T) <= Cardinality(S)
  BY FS_Subset, FS_CardinalityType

----------------------------------------------------------------------------
(***************************************************************************)
(* The student's account: the inductive invariant.                         *)
(***************************************************************************)
UsedTokens == {t \in TokenIds : refresh[t] # NoToken}
UsedLinks == {k \in LinkIds : link[k] # "none"}
Busy == {q \in Calls : call[q].pc # "idle"}
Linking == {q \in Calls : call[q].pc \notin {"idle", "forget.mail"}}

\* A request issues at most one token and one link, each under the next number.
Budget ==
  /\ Numbered(UsedTokens)
  /\ Numbered(UsedLinks)
  /\ Cardinality(UsedTokens) + Cardinality(Busy) <= calls
  /\ Cardinality(UsedLinks) + Cardinality(Linking) <= calls

\* Calls that find the student, hold the document they read, and so on.
StudentCalls ==
  {"register.mail", "verify.read", "verify.count", "verify.save", "resend.save",
   "login.fail", "login.pass", "forget.invalidate", "forget.insert", "forget.mail",
   "reset.save"}
DocCalls == {"verify.count", "resend.save", "login.fail", "login.pass"}
PasswordCalls == {"register.lookup", "register.insert", "reset.read", "reset.save"}
LinkCalls == {"forget.mail", "reset.read", "reset.save", "reset.mark"}
RefreshCalls == {"refresh.read", "refresh.revoke", "refresh.mark"}

CallOK(q) ==
  /\ call[q].pc \in StudentCalls => student \in Student
  /\ call[q].pc \in DocCalls => call[q].doc \in Student
  /\ call[q].pc \in PasswordCalls => call[q].password \in Passwords
  /\ call[q].pc \in LinkCalls => call[q].link \in UsedLinks
  /\ call[q].pc \in RefreshCalls => call[q].tok # 0
  /\ call[q].tok # 0 => /\ call[q].tok \in UsedTokens
                        /\ call[q].pc \in RefreshCalls \cup {"grant"}

KnownStudent == mailed \/ UsedLinks # {} => student \in Student

\* A token's family is the number of its first token.
FamiliesKnown == \A t \in UsedTokens : FamilyOf(t) \in UsedTokens

SessionInv ==
  /\ SessionTypeOK
  /\ Budget
  /\ \A q \in Calls : CallOK(q)
  /\ KnownStudent
  /\ FamiliesKnown

----------------------------------------------------------------------------
(***************************************************************************)
(* Steps that give out no number: requests go on or end, documents are     *)
(* saved, tokens and links are revoked, spent or deleted.                  *)
(***************************************************************************)
SlotGoesOn(r) ==
  /\ CallOK(r)'
  /\ call'[r].tok \in {0, call[r].tok}
  /\ call'[r].pc # "idle" => call[r].pc \notin {"idle", "forget.mail"}

TokensFade ==
  /\ refresh' \in [TokenIds -> RefreshToken]
  /\ \A t \in TokenIds : /\ refresh'[t] = NoToken <=> refresh[t] = NoToken
                         /\ refresh'[t].family = refresh[t].family
                         /\ refresh'[t].state = "live" => refresh[t].state = "live"

LinksFade ==
  /\ link' \in [LinkIds -> LinkStates]
  /\ \A k \in LinkIds : link'[k] = "none" <=> link[k] = "none"

StudentStays ==
  /\ student' \in {None} \cup Student /\ mailed' \in BOOLEAN
  /\ student \in Student => student' \in Student
  /\ mailed' => mailed \/ student' \in Student

Calm ==
  /\ call' \in [Calls -> CallSlot]
  /\ \A r \in Calls : call'[r] = call[r] \/ SlotGoesOn(r)
  /\ TokensFade /\ LinksFade /\ StudentStays
  /\ raced' \in [TokenIds -> Nat]
  /\ calls' = calls /\ callFaults' \in 0..MaxFaults

LEMMA CalmUses ==
  ASSUME TokensFade, LinksFade
  PROVE  UsedTokens' = UsedTokens /\ UsedLinks' = UsedLinks
  BY DEF TokensFade, LinksFade, UsedTokens, UsedLinks, TokenIds, LinkIds

LEMMA IdleSlotTyped == IdleSlot \in CallSlot
  BY DEF IdleSlot, CallSlot, CallNames

LEMMA SessionInitInv == SessionInit => SessionInv
<1> SUFFICES ASSUME SessionInit PROVE SessionInv
  OBVIOUS
<1> USE DEF SessionInit
<1>1. SessionTypeOK
  <2>1. NoToken \in RefreshToken /\ "none" \in LinkStates
    BY DEF RefreshToken, LinkStates
  <2>2. 0 \in 0..MaxCalls /\ 0 \in 0..MaxFaults
    BY SessionBounds
  <2> QED BY <2>1, <2>2, IdleSlotTyped DEF SessionTypeOK
<1>2. UsedTokens = {} /\ UsedLinks = {} /\ Busy = {} /\ Linking = {}
  BY DEF UsedTokens, UsedLinks, Busy, Linking, IdleSlot
<1>3. Budget
  BY <1>2, FS_EmptySet DEF Budget, Numbered
<1>4. ASSUME NEW q \in Calls PROVE CallOK(q)
  BY DEF CallOK, IdleSlot, StudentCalls, DocCalls, PasswordCalls, LinkCalls, RefreshCalls
<1>5. KnownStudent /\ FamiliesKnown
  BY <1>2 DEF KnownStudent, FamiliesKnown
<1> QED BY <1>1, <1>3, <1>4, <1>5 DEF SessionInv

LEMMA CalmKeeps ==
  ASSUME SessionInv, Calm
  PROVE  SessionInv'
<1>1. UsedTokens' = UsedTokens /\ UsedLinks' = UsedLinks
  BY CalmUses DEF Calm
<1>2. SessionTypeOK'
  BY DEF SessionInv, SessionTypeOK, Calm, TokensFade, LinksFade, StudentStays
<1>3. Busy' \subseteq Busy /\ Linking' \subseteq Linking
  BY DEF Calm, SlotGoesOn, Busy, Linking
<1>4. IsFiniteSet(Busy) /\ IsFiniteSet(Linking)
  BY SessionCallsFinite, FS_Subset DEF Busy, Linking
<1>5. Budget'
  <2>1. /\ Cardinality(Busy') \in Nat /\ Cardinality(Busy) \in Nat
        /\ Cardinality(Busy') <= Cardinality(Busy)
    BY <1>3, <1>4, NoMore
  <2>2. /\ Cardinality(Linking') \in Nat /\ Cardinality(Linking) \in Nat
        /\ Cardinality(Linking') <= Cardinality(Linking)
    BY <1>3, <1>4, NoMore
  <2>3. Cardinality(UsedTokens) \in Nat /\ Cardinality(UsedLinks) \in Nat
    BY FS_CardinalityType DEF SessionInv, Budget, Numbered
  <2>4. calls \in Nat /\ calls' = calls
    BY DEF Calm, SessionInv, SessionTypeOK
  <2> QED BY <1>1, <2>1, <2>2, <2>3, <2>4 DEF SessionInv, Budget, Numbered
<1>6. ASSUME NEW r \in Calls PROVE CallOK(r)'
  <2>1. CASE SlotGoesOn(r)
    BY <2>1 DEF SlotGoesOn
  <2>2. CASE call'[r] = call[r]
    BY <2>2, <1>1 DEF SessionInv, CallOK, Calm, StudentStays
  <2> QED BY <2>1, <2>2 DEF Calm
<1>7. KnownStudent'
  BY <1>1 DEF SessionInv, KnownStudent, Calm, StudentStays
<1>8. FamiliesKnown'
  BY <1>1 DEF SessionInv, FamiliesKnown, Calm, TokensFade, FamilyOf, UsedTokens
<1> QED BY <1>2, <1>5, <1>6, <1>7, <1>8 DEF SessionInv

\* What the ways a request can go on do to its slot.
Rest(q) == \A r \in Calls : r # q => call'[r] = call[r]

LEMMA SlotEnds ==
  ASSUME SessionTypeOK, NEW q \in Calls, CallEnds(q)
  PROVE  call' \in [Calls -> CallSlot] /\ Rest(q) /\ SlotGoesOn(q) /\ call'[q] = IdleSlot
<1>1. call' \in [Calls -> CallSlot] /\ Rest(q) /\ call'[q] = IdleSlot
  BY IdleSlotTyped DEF SessionTypeOK, CallEnds, Rest
<1>2. CallOK(q)'
  BY <1>1 DEF CallOK, IdleSlot, StudentCalls, DocCalls, PasswordCalls, LinkCalls,
     RefreshCalls
<1> QED BY <1>1, <1>2 DEF SlotGoesOn, IdleSlot

LEMMA SlotAwaits ==
  ASSUME SessionTypeOK, NEW q \in Calls, NEW name \in CallNames, CallAwaits(q, name)
  PROVE  /\ call' \in [Calls -> CallSlot] /\ Rest(q)
         /\ call'[q].pc = name /\ call'[q].tok = call[q].tok
         /\ call'[q].link = call[q].link /\ call'[q].password = call[q].password
         /\ call'[q].doc = call[q].doc
  BY DEF SessionTypeOK, CallAwaits, Rest, CallSlot

LEMMA SlotKeepsDoc ==
  ASSUME SessionTypeOK, NEW q \in Calls, NEW name \in CallNames,
         NEW d \in Student, CallKeeps(q, name, "doc", d)
  PROVE  /\ call' \in [Calls -> CallSlot] /\ Rest(q)
         /\ call'[q].pc = name /\ call'[q].tok = call[q].tok
         /\ call'[q].link = call[q].link /\ call'[q].password = call[q].password
         /\ call'[q].doc = d
  BY DEF SessionTypeOK, CallKeeps, Rest, CallSlot

LEMMA SlotKeepsLink ==
  ASSUME SessionTypeOK, NEW q \in Calls, NEW name \in CallNames,
         NEW k \in LinkIds, CallKeeps(q, name, "link", k)
  PROVE  /\ call' \in [Calls -> CallSlot] /\ Rest(q)
         /\ call'[q].pc = name /\ call'[q].tok = call[q].tok
         /\ call'[q].link = k /\ call'[q].password = call[q].password
         /\ call'[q].doc = call[q].doc
  BY DEF SessionTypeOK, CallKeeps, Rest, CallSlot

LEMMA TokensKept == ASSUME SessionTypeOK, UNCHANGED refresh PROVE TokensFade
  BY DEF SessionTypeOK, TokensFade
LEMMA LinksKept == ASSUME SessionTypeOK, UNCHANGED link PROVE LinksFade
  BY DEF SessionTypeOK, LinksFade
LEMMA StudentKept == ASSUME SessionTypeOK, KeepStudent PROVE StudentStays
  BY DEF SessionTypeOK, StudentStays, KeepStudent

\* Documents with a field or two replaced are documents.
LEMMA StudentSaved ==
  ASSUME student \in Student
  PROVE  /\ \A p \in Passwords : [student EXCEPT !.password = p] \in Student
         /\ \A n \in Nat, w \in {"never", "cooling", "window", "past"} :
              [student EXCEPT !.tries = n, !.tried = w] \in Student
         /\ \A w \in {"never", "cooling", "window", "past"} :
              [student EXCEPT !.tried = w] \in Student
         /\ [student EXCEPT !.verified = TRUE, !.tries = 0, !.tried = "never"] \in Student
         /\ \A n \in Nat, w \in {"none", "held", "past"} :
              [student EXCEPT !.attempts = n, !.lock = w] \in Student
         /\ [student EXCEPT !.lock = "past"] \in Student
  BY DEF Student

----------------------------------------------------------------------------
(***************************************************************************)
(* The student's account: each step keeps the invariant.                   *)
(***************************************************************************)
CalmStep(q) ==
  \/ RegisterLookup(q) \/ RegisterInsert(q) \/ RegisterMail(q)
  \/ VerifyRead(q) \/ VerifyCount(q) \/ VerifySave(q)
  \/ ResendRead(q) \/ ResendSave(q)
  \/ LoginRead(q) \/ LoginFail(q) \/ LoginPass(q)
  \/ ForgetRead(q) \/ ForgetInvalidate(q) \/ ForgetMail(q)
  \/ ResetRead(q) \/ ResetSave(q) \/ ResetMark(q) \/ ResetClear(q)
  \/ RefreshRead(q) \/ RefreshRevoke(q) \/ RefreshMark(q)

\* What a request does to its own slot and to the document.
Serves(q) ==
  call' \in [Calls -> CallSlot] /\ Rest(q) /\ SlotGoesOn(q) /\ StudentStays

\* A request that holds no token and goes on to another call.
LEMMA GoesOn ==
  ASSUME SessionInv, NEW q \in Calls, NEW name \in CallNames,
         call[q].pc \notin {"idle", "forget.mail", "grant"} \cup RefreshCalls,
         call'[q].pc = name, name \notin RefreshCalls,
         call'[q].tok = call[q].tok,
         name \in StudentCalls => student' \in Student,
         name \in DocCalls => call'[q].doc \in Student,
         name \in PasswordCalls => call'[q].password \in Passwords,
         name \in LinkCalls => call'[q].link \in UsedLinks'
  PROVE  SlotGoesOn(q) /\ call'[q].tok = 0
  BY DEF SessionInv, SlotGoesOn, CallOK

LEMMA RegisterServes ==
  ASSUME SessionInv, NEW q \in Calls,
         RegisterLookup(q) \/ RegisterInsert(q) \/ RegisterMail(q)
  PROVE  Serves(q)
<1> USE DEF SessionInv, Serves, KeepStudent, At
<1>1. CASE CallEnds(q) /\ KeepStudent
  BY <1>1, SlotEnds, StudentKept
<1>2. ASSUME RegisterLookup(q), student = None PROVE Serves(q)
  <2>1. call[q].password \in Passwords
    BY <1>2 DEF RegisterLookup, CallOK, PasswordCalls
  <2>2. StudentStays /\ CallAwaits(q, "register.insert")
    BY <1>2, StudentKept DEF RegisterLookup
  <2>3. call[q].pc = "register.lookup" /\ "register.insert" \in CallNames
    BY <1>2 DEF RegisterLookup, CallNames
  <2>4. /\ call' \in [Calls -> CallSlot] /\ Rest(q)
        /\ call'[q].pc = "register.insert" /\ call'[q].tok = call[q].tok
        /\ call'[q].password = call[q].password
    BY <2>2, <2>3, SlotAwaits
  <2>5. SlotGoesOn(q)
    BY <2>1, <2>3, <2>4, GoesOn
      DEF StudentCalls, DocCalls, PasswordCalls, LinkCalls, RefreshCalls
  <2> QED BY <2>2, <2>4, <2>5
<1>3. ASSUME RegisterInsert(q), student = None PROVE Serves(q)
  <2>1. call[q].password \in Passwords
    BY <1>3 DEF RegisterInsert, CallOK, PasswordCalls
  <2>2. student' \in Student
    <3>1. student' = NewStudent(call[q].password)
      BY <1>3 DEF RegisterInsert
    <3> QED BY <2>1, <3>1 DEF NewStudent, Student
  <2>3. StudentStays
    BY <1>3, <2>2 DEF RegisterInsert, StudentStays, SessionTypeOK
  <2> QED
    BY <1>3, <2>2, <2>3, SlotAwaits, GoesOn DEF RegisterInsert, CallNames,
       StudentCalls, DocCalls, PasswordCalls, LinkCalls, RefreshCalls
<1>4. ASSUME RegisterMail(q) PROVE Serves(q)
  <2>1. student \in Student /\ student' = student /\ mailed' = TRUE
    BY <1>4 DEF RegisterMail, CallOK, StudentCalls
  <2> QED
    BY <1>4, <2>1, SlotAwaits, GoesOn DEF RegisterMail, StudentStays, CallNames,
       StudentCalls, DocCalls, PasswordCalls, LinkCalls, RefreshCalls
<1> QED BY <1>1, <1>2, <1>3, <1>4 DEF RegisterLookup, RegisterInsert

LEMMA VerifyServes ==
  ASSUME SessionInv, NEW q \in Calls, VerifyRead(q) \/ VerifyCount(q) \/ VerifySave(q)
  PROVE  Serves(q)
<1> USE DEF SessionInv, Serves, KeepStudent, At
<1>1. CASE CallEnds(q) /\ KeepStudent
  BY <1>1, SlotEnds, StudentKept
<1>2. ASSUME VerifyRead(q), MayVerify PROVE Serves(q)
  <2>1. student \in Student
    BY <1>2 DEF VerifyRead, CallOK, StudentCalls
  <2>2. StudentStays /\ CallKeeps(q, "verify.count", "doc", student)
    BY <1>2, StudentKept DEF VerifyRead
  <2> QED
    BY <1>2, <2>1, <2>2, SlotKeepsDoc, GoesOn DEF VerifyRead, CallNames,
       StudentCalls, DocCalls, PasswordCalls, LinkCalls, RefreshCalls
<1>3. ASSUME VerifyCount(q) PROVE Serves(q)
  <2>1. student \in Student /\ call[q].doc \in Student
    BY <1>3 DEF VerifyCount, CallOK, StudentCalls, DocCalls
  <2>2. call[q].doc.tries + 1 \in Nat
    BY <2>1 DEF Student
  <2>3. student' \in Student
    BY <1>3, <2>1, <2>2, StudentSaved DEF VerifyCount
  <2>4. StudentStays
    BY <1>3, <2>3 DEF VerifyCount, StudentStays, SessionTypeOK
  <2> QED
    BY <1>3, <2>3, <2>4, SlotAwaits, GoesOn DEF VerifyCount, CallNames,
       StudentCalls, DocCalls, PasswordCalls, LinkCalls, RefreshCalls
<1>4. ASSUME VerifySave(q) PROVE Serves(q)
  <2>1. student \in Student
    BY <1>4 DEF VerifySave, CallOK, StudentCalls
  <2>2. student' \in Student
    BY <1>4, <2>1, StudentSaved DEF VerifySave
  <2> QED
    BY <1>4, <2>2, SlotEnds DEF VerifySave, StudentStays, SessionTypeOK
<1> QED BY <1>1, <1>2, <1>3, <1>4 DEF VerifyRead

LEMMA ResendServes ==
  ASSUME SessionInv, NEW q \in Calls, ResendRead(q) \/ ResendSave(q)
  PROVE  Serves(q)
<1> USE DEF SessionInv, Serves, KeepStudent, At
<1>1. CASE CallEnds(q) /\ KeepStudent
  BY <1>1, SlotEnds, StudentKept
<1>2. ASSUME ResendRead(q), CallKeeps(q, "resend.save", "doc", student), student # None
      PROVE  Serves(q)
  <2>1. student \in Student
    BY <1>2 DEF SessionTypeOK
  <2>2. StudentStays
    BY <1>2, StudentKept DEF ResendRead
  <2> QED
    BY <1>2, <2>1, <2>2, SlotKeepsDoc, GoesOn DEF ResendRead, CallNames,
       StudentCalls, DocCalls, PasswordCalls, LinkCalls, RefreshCalls
<1>3. ASSUME ResendSave(q) PROVE Serves(q)
  <2>1. student \in Student
    BY <1>3 DEF ResendSave, CallOK, StudentCalls
  <2>2. Write("tries", call[q].doc.tries, 0) \in Nat
    BY <2>1 DEF Write, Student
  <2>3. student' \in Student
    BY <1>3, <2>1, <2>2, StudentSaved DEF ResendSave
  <2> QED
    BY <1>3, <2>3, SlotEnds DEF ResendSave, StudentStays, SessionTypeOK
<1> QED BY <1>1, <1>2, <1>3 DEF ResendRead

LEMMA LoginServes ==
  ASSUME SessionInv, NEW q \in Calls, LoginRead(q) \/ LoginFail(q) \/ LoginPass(q)
  PROVE  Serves(q)
<1> USE DEF SessionInv, Serves, KeepStudent, At
<1>1. CASE CallEnds(q) /\ KeepStudent
  BY <1>1, SlotEnds, StudentKept
<1>2. ASSUME LoginRead(q), student # None, NEW name \in {"login.fail", "login.pass"},
             CallKeeps(q, name, "doc", student)
      PROVE  Serves(q)
  <2>1. student \in Student
    BY <1>2 DEF SessionTypeOK
  <2>2. StudentStays
    BY <1>2, StudentKept DEF LoginRead
  <2> QED
    BY <1>2, <2>1, <2>2, SlotKeepsDoc, GoesOn DEF LoginRead, CallNames,
       StudentCalls, DocCalls, PasswordCalls, LinkCalls, RefreshCalls
<1>3. ASSUME LoginFail(q) PROVE Serves(q)
  <2>1. student \in Student /\ call[q].doc \in Student
    BY <1>3 DEF LoginFail, CallOK, StudentCalls, DocCalls
  <2>2. call[q].doc.attempts + 1 \in Nat /\ student.lock \in {"none", "held", "past"}
    BY <2>1 DEF Student
  <2>3. student' \in Student
    BY <1>3, <2>1, <2>2, StudentSaved DEF LoginFail
  <2> QED
    BY <1>3, <2>3, SlotEnds DEF LoginFail, StudentStays, SessionTypeOK
<1>4. ASSUME LoginPass(q) PROVE Serves(q)
  <2>1. student \in Student
    BY <1>4 DEF LoginPass, CallOK, StudentCalls
  <2>2. /\ Write("attempts", call[q].doc.attempts, 0) \in Nat
        /\ Write("lock", call[q].doc.lock, "none") \in {"none", "held", "past"}
    BY <2>1 DEF Write, Student
  <2>3. student' \in Student
    BY <1>4, <2>1, <2>2, StudentSaved DEF LoginPass
  <2>4. StudentStays
    BY <1>4, <2>3 DEF LoginPass, StudentStays, SessionTypeOK
  <2> QED
    BY <1>4, <2>3, <2>4, SlotAwaits, GoesOn DEF LoginPass, CallNames,
       StudentCalls, DocCalls, PasswordCalls, LinkCalls, RefreshCalls
<1> QED BY <1>1, <1>2, <1>3, <1>4 DEF LoginRead

LEMMA ForgetServes ==
  ASSUME SessionInv, NEW q \in Calls, ForgetRead(q) \/ ForgetInvalidate(q) \/ ForgetMail(q)
  PROVE  Serves(q)
<1> USE DEF SessionInv, Serves, KeepStudent, At
<1>1. CASE CallEnds(q) /\ KeepStudent
  BY <1>1, SlotEnds, StudentKept
<1>2. ASSUME ForgetRead(q), student # None PROVE Serves(q)
  <2>1. student \in Student
    BY <1>2 DEF SessionTypeOK
  <2>2. StudentStays /\ CallAwaits(q, "forget.invalidate")
    BY <1>2, StudentKept DEF ForgetRead
  <2> QED
    BY <1>2, <2>1, <2>2, SlotAwaits, GoesOn DEF ForgetRead, CallNames,
       StudentCalls, DocCalls, PasswordCalls, LinkCalls, RefreshCalls
<1>3. ASSUME ForgetInvalidate(q) PROVE Serves(q)
  <2>1. student \in Student
    BY <1>3 DEF ForgetInvalidate, CallOK, StudentCalls
  <2>2. StudentStays /\ CallAwaits(q, "forget.insert")
    BY <1>3, StudentKept DEF ForgetInvalidate
  <2> QED
    BY <1>3, <2>1, <2>2, SlotAwaits, GoesOn DEF ForgetInvalidate, CallNames,
       StudentCalls, DocCalls, PasswordCalls, LinkCalls, RefreshCalls
<1> QED BY <1>1, <1>2, <1>3 DEF ForgetRead, ForgetMail

LEMMA ResetServes ==
  ASSUME SessionInv, NEW q \in Calls,
         ResetRead(q) \/ ResetSave(q) \/ ResetMark(q) \/ ResetClear(q),
         UsedLinks' = UsedLinks
  PROVE  Serves(q)
<1> USE DEF SessionInv, Serves, KeepStudent, At
<1>1. CASE CallEnds(q) /\ KeepStudent
  BY <1>1, SlotEnds, StudentKept
<1>2. ASSUME ResetRead(q), link[call[q].link] = "sent" PROVE Serves(q)
  <2>1. call[q].link \in UsedLinks /\ call[q].password \in Passwords
    BY <1>2 DEF ResetRead, CallOK, LinkCalls, PasswordCalls
  <2>2. student \in Student
    BY <2>1 DEF KnownStudent
  <2>3. StudentStays /\ CallAwaits(q, "reset.save")
    BY <1>2, StudentKept DEF ResetRead
  <2> QED
    BY <1>2, <2>1, <2>2, <2>3, SlotAwaits, GoesOn DEF ResetRead, CallNames,
       StudentCalls, DocCalls, PasswordCalls, LinkCalls, RefreshCalls
<1>3. ASSUME ResetSave(q) PROVE Serves(q)
  <2>1. /\ student \in Student
        /\ call[q].link \in UsedLinks /\ call[q].password \in Passwords
    BY <1>3 DEF ResetSave, CallOK, StudentCalls, LinkCalls, PasswordCalls
  <2>2. student' \in Student
    BY <1>3, <2>1, StudentSaved DEF ResetSave
  <2>3. StudentStays
    BY <1>3, <2>2 DEF ResetSave, StudentStays, SessionTypeOK
  <2> QED
    BY <1>3, <2>1, <2>2, <2>3, SlotAwaits, GoesOn DEF ResetSave, CallNames,
       StudentCalls, DocCalls, PasswordCalls, LinkCalls, RefreshCalls
<1>4. ASSUME ResetMark(q) PROVE Serves(q)
  <2>1. StudentStays /\ CallAwaits(q, "reset.clear")
    BY <1>4, StudentKept DEF ResetMark
  <2> QED
    BY <1>4, <2>1, SlotAwaits, GoesOn DEF ResetMark, CallNames,
       StudentCalls, DocCalls, PasswordCalls, LinkCalls, RefreshCalls
<1> QED BY <1>1, <1>2, <1>3, <1>4 DEF ResetRead, ResetClear

LEMMA RefreshServes ==
  ASSUME SessionInv, NEW q \in Calls,
         RefreshRead(q) \/ RefreshRevoke(q) \/ RefreshMark(q),
         UsedTokens' = UsedTokens
  PROVE  Serves(q)
<1> USE DEF SessionInv, Serves, KeepStudent, At
<1>1. CASE CallEnds(q) /\ KeepStudent
  BY <1>1, SlotEnds, StudentKept
<1>2. ASSUME NEW name \in {"refresh.mark", "refresh.revoke", "grant"}, KeepStudent,
             call[q].pc \in RefreshCalls, CallAwaits(q, name)
      PROVE  Serves(q)
  <2>1. call[q].tok # 0 /\ call[q].tok \in UsedTokens
    BY <1>2 DEF CallOK
  <2>2. StudentStays
    BY <1>2, StudentKept
  <2>3. name \in CallNames
    BY DEF CallNames
  <2>4. /\ call' \in [Calls -> CallSlot] /\ Rest(q)
        /\ call'[q].pc = name /\ call'[q].tok = call[q].tok
    BY <1>2, <2>3, SlotAwaits
  <2>5. CallOK(q)'
    BY <2>1, <2>4
      DEF CallOK, StudentCalls, DocCalls, PasswordCalls, LinkCalls, RefreshCalls
  <2> QED BY <1>2, <2>2, <2>4, <2>5 DEF SlotGoesOn, RefreshCalls
<1> QED
  BY <1>1, <1>2 DEF RefreshRead, RefreshRevoke, RefreshMark, RefreshCalls

\* A token or a link that is revoked, spent or deleted keeps its number.
LEMMA FadedToken ==
  ASSUME NEW r \in RefreshToken, r # NoToken, NEW w \in {"revoked", "gone"}
  PROVE  /\ [r EXCEPT !.state = w] \in RefreshToken
         /\ [r EXCEPT !.state = w] # NoToken
         /\ [r EXCEPT !.state = w].family = r.family
         /\ [r EXCEPT !.state = w].state = w
  BY DEF RefreshToken, NoToken

LEMMA StoredToken ==
  ASSUME SessionTypeOK, NEW t \in TokenIds, Stored(t)
  PROVE  refresh[t] # NoToken
  BY DEF Stored, NoToken

LEMMA TokensServed ==
  ASSUME SessionInv, NEW q \in Calls, CalmStep(q)
  PROVE  TokensFade
<1> USE DEF SessionInv
<1>1. CASE UNCHANGED refresh
  BY <1>1, TokensKept
<1>2. ASSUME NEW T \in SUBSET TokenIds, NEW w \in {"revoked", "gone"},
             \A t \in T : Stored(t),
             refresh' = [t \in TokenIds |-> IF t \in T THEN [refresh[t] EXCEPT !.state = w]
                                                       ELSE refresh[t]]
      PROVE  TokensFade
  <2>1. ASSUME NEW t \in T
        PROVE  /\ refresh[t] # NoToken
               /\ [refresh[t] EXCEPT !.state = w] \in RefreshToken
               /\ [refresh[t] EXCEPT !.state = w] # NoToken
               /\ [refresh[t] EXCEPT !.state = w].family = refresh[t].family
               /\ [refresh[t] EXCEPT !.state = w].state = w
    <3>1. t \in TokenIds /\ refresh[t] \in RefreshToken
      BY DEF SessionTypeOK
    <3>2. refresh[t] # NoToken
      BY <1>2, <3>1, StoredToken
    <3> QED BY <3>1, <3>2, FadedToken
  <2>2. ASSUME NEW t \in TokenIds
        PROVE  /\ refresh'[t] \in RefreshToken
               /\ refresh'[t] = NoToken <=> refresh[t] = NoToken
               /\ refresh'[t].family = refresh[t].family
               /\ refresh'[t].state = "live" => refresh[t].state = "live"
    <3>1. CASE t \in T
      BY <1>2, <2>1, <3>1
    <3>2. CASE t \notin T
      BY <1>2, <3>2 DEF SessionTypeOK
    <3> QED BY <3>1, <3>2
  <2>3. refresh' = [t \in TokenIds |-> refresh'[t]]
    BY <1>2
  <2>4. refresh' \in [TokenIds -> RefreshToken]
    BY <2>2, <2>3
  <2> QED BY <2>2, <2>4 DEF TokensFade
<1>3. ASSUME ResetClear(q) PROVE TokensFade
  <2> DEFINE T == {t \in TokenIds : Stored(t)}
  <2>1. refresh' = [t \in TokenIds |-> IF t \in T THEN [refresh[t] EXCEPT !.state = "gone"]
                                                  ELSE refresh[t]]
    BY <1>3 DEF ResetClear
  <2>2. T \in SUBSET TokenIds /\ \A t \in T : Stored(t)
    OBVIOUS
  <2> HIDE DEF T
  <2> QED BY <1>2, <2>1, <2>2
<1>4. ASSUME RefreshRevoke(q) PROVE TokensFade
  <2> DEFINE T == {t \in TokenIds : Stored(t) /\ FamilyOf(t) = FamilyOf(call[q].tok)}
  <2>1. refresh' = [t \in TokenIds |-> IF t \in T THEN [refresh[t] EXCEPT !.state = "revoked"]
                                                  ELSE refresh[t]]
    BY <1>4 DEF RefreshRevoke
  <2>2. T \in SUBSET TokenIds /\ \A t \in T : Stored(t)
    OBVIOUS
  <2> HIDE DEF T
  <2> QED BY <1>2, <2>1, <2>2
<1>5. ASSUME RefreshMark(q), Stored(call[q].tok) PROVE TokensFade
  <2> DEFINE T == {call[q].tok}
  <2>1. call[q].tok \in TokenIds
    BY <1>5 DEF RefreshMark, At, CallOK, RefreshCalls, UsedTokens
  <2>2. refresh' = [t \in TokenIds |-> IF t \in T THEN [refresh[t] EXCEPT !.state = "revoked"]
                                                  ELSE refresh[t]]
    BY <1>5, <2>1 DEF RefreshMark, SessionTypeOK
  <2>3. T \in SUBSET TokenIds /\ \A t \in T : Stored(t)
    BY <1>5, <2>1
  <2> HIDE DEF T
  <2> QED BY <1>2, <2>2, <2>3
<1> QED
  BY <1>1, <1>3, <1>4, <1>5
    DEF CalmStep, RefreshMark, KeepTokens, RegisterLookup, RegisterInsert,
     RegisterMail, VerifyRead, VerifyCount, VerifySave, ResendRead, ResendSave, LoginRead,
     LoginFail, LoginPass, ForgetRead, ForgetInvalidate, ForgetMail, ResetRead, ResetSave,
     ResetMark, RefreshRead

LEMMA LinksServed ==
  ASSUME SessionInv, NEW q \in Calls, CalmStep(q)
  PROVE  LinksFade
<1> USE DEF SessionInv
<1>1. CASE UNCHANGED link
  BY <1>1, LinksKept
<1>2. CASE ForgetInvalidate(q)
  BY <1>2 DEF ForgetInvalidate, LinksFade, SessionTypeOK, LinkStates
<1>3. CASE ForgetMail(q)
  BY <1>3 DEF ForgetMail, LinksFade, SessionTypeOK, LinkStates
<1>4. ASSUME ResetMark(q) PROVE LinksFade
  <2>1. call[q].link \in LinkIds /\ link[call[q].link] # "none"
    BY <1>4 DEF ResetMark, At, CallOK, LinkCalls, UsedLinks
  <2> QED BY <1>4, <2>1 DEF ResetMark, LinksFade, SessionTypeOK, LinkStates
<1> QED
  BY <1>1, <1>2, <1>3, <1>4 DEF CalmStep, RegisterLookup, RegisterInsert, RegisterMail,
     VerifyRead, VerifyCount, VerifySave, ResendRead, ResendSave, LoginRead, LoginFail,
     LoginPass, ForgetRead, ResetRead, ResetSave, ResetClear, RefreshRead, RefreshRevoke,
     RefreshMark

LEMMA ServedCalm ==
  ASSUME SessionInv, NEW q \in Calls, CalmStep(q)
  PROVE  Calm
<1>1. TokensFade /\ LinksFade
  BY TokensServed, LinksServed
<1>2. UsedTokens' = UsedTokens /\ UsedLinks' = UsedLinks
  BY <1>1, CalmUses
<1>3. Serves(q)
  BY <1>2, RegisterServes, VerifyServes, ResendServes, LoginServes, ForgetServes,
     ResetServes, RefreshServes DEF CalmStep
<1>4. raced' \in [TokenIds -> Nat]
  <2>1. raced \in [TokenIds -> Nat]
    BY DEF SessionInv, SessionTypeOK
  <2>2. CASE RefreshMark(q)
    BY <2>1, <2>2 DEF RefreshMark, KeepTokens
  <2> QED
    BY <2>1, <2>2 DEF CalmStep, KeepTokens, RegisterLookup, RegisterInsert, RegisterMail,
       VerifyRead, VerifyCount, VerifySave, ResendRead, ResendSave, LoginRead, LoginFail,
       LoginPass, ForgetRead, ForgetInvalidate, ForgetMail, ResetRead, ResetSave,
       ResetMark, ResetClear, RefreshRead, RefreshRevoke
<1>5. KeepBounds
  BY DEF CalmStep, RegisterLookup, RegisterInsert, RegisterMail,
     VerifyRead, VerifyCount, VerifySave, ResendRead, ResendSave, LoginRead, LoginFail,
     LoginPass, ForgetRead, ForgetInvalidate, ForgetMail, ResetRead, ResetSave,
     ResetMark, ResetClear, RefreshRead, RefreshRevoke, RefreshMark
<1>6. calls' = calls /\ callFaults' \in 0..MaxFaults
  BY <1>5 DEF KeepBounds, SessionInv, SessionTypeOK
<1> QED BY <1>1, <1>3, <1>4, <1>6 DEF Serves, Rest, Calm

\* Time, clients that log out, failed calls and stops of the process.
LEMMA AsideCalm ==
  ASSUME SessionInv,
         \/ LockExpires \/ TriedPasses \/ SessionProcessStops
         \/ \E t \in TokenIds : Logout(t)
         \/ \E k \in LinkIds : LinkExpires(k)
         \/ \E q \in Calls : SessionCallFails(q)
  PROVE  Calm
<1> USE DEF SessionInv
<1>0. SessionTypeOK
  OBVIOUS
<1>1. CASE LockExpires \/ TriedPasses
  <2>1. student \in Student
    BY <1>0, <1>1 DEF LockExpires, TriedPasses, SessionTypeOK
  <2>2. student' \in Student
    BY <1>1, <2>1, StudentSaved DEF LockExpires, TriedPasses
  <2>3. /\ KeepTokens /\ KeepBounds /\ UNCHANGED <<mailed, link, call>>
    BY <1>1 DEF LockExpires, TriedPasses
  <2> QED
    BY <1>0, <2>2, <2>3, TokensKept, LinksKept DEF Calm, StudentStays, SessionTypeOK,
       KeepTokens, KeepBounds
<1>2. CASE SessionProcessStops
  <2>1. \A r \in Calls : call'[r] = IdleSlot
    BY <1>2 DEF SessionProcessStops
  <2>2. \A r \in Calls : SlotGoesOn(r)
    BY <2>1 DEF SlotGoesOn, CallOK, IdleSlot, StudentCalls, DocCalls, PasswordCalls,
       LinkCalls, RefreshCalls
  <2> QED
    BY <1>0, <1>2, <2>2, IdleSlotTyped, SessionBounds, TokensKept, LinksKept, StudentKept
    DEF Calm, SessionProcessStops, CallFault, SessionTypeOK, KeepTokens
<1>3. ASSUME NEW t \in TokenIds, Logout(t) PROVE Calm
  <2>1. refresh[t] # NoToken /\ refresh[t] \in RefreshToken
    BY <1>0, <1>3, StoredToken DEF Logout, SessionTypeOK
  <2>2. TokensFade
    BY <1>0, <1>3, <2>1, FadedToken DEF Logout, TokensFade, SessionTypeOK
  <2> QED
    BY <1>0, <1>3, <2>2, LinksKept, StudentKept
      DEF Logout, Calm, SessionTypeOK, KeepBounds
<1>4. ASSUME NEW k \in LinkIds, LinkExpires(k) PROVE Calm
  <2>1. LinksFade
    BY <1>0, <1>4 DEF LinkExpires, LinksFade, SessionTypeOK, LinkStates
  <2> QED
    BY <1>0, <1>4, <2>1, TokensKept, StudentKept DEF LinkExpires, Calm, SessionTypeOK,
       KeepBounds, KeepTokens
<1>5. ASSUME NEW q \in Calls, SessionCallFails(q) PROVE Calm
  <2>1. call' \in [Calls -> CallSlot] /\ Rest(q) /\ SlotGoesOn(q)
    BY <1>0, <1>5, SlotEnds DEF SessionCallFails
  <2> QED
    BY <1>0, <1>5, <2>1, SessionBounds, TokensKept, LinksKept, StudentKept
    DEF Calm, Rest, SessionCallFails, CallFault, SessionTypeOK, KeepTokens
<1> QED BY <1>1, <1>2, <1>3, <1>4, <1>5

\* A request arrives.
LEMMA StartKeeps ==
  ASSUME SessionInv, NEW q \in Calls, NEW route \in Routes, StartCall(q, route)
  PROVE  SessionInv'
<1> USE DEF SessionInv, SessionTypeOK
<1>1. /\ call[q].pc = "idle" /\ calls < MaxCalls /\ calls' = calls + 1
      /\ route = "verify.read" => mailed
      /\ UNCHANGED <<student, mailed, refresh, raced, link, callFaults>>
  BY DEF StartCall, At, KeepStudent, KeepTokens
<1>2. PICK p \in Passwords \cup {None}, t \in UsedTokens \cup {0}, k \in UsedLinks \cup {0} :
        /\ route \in {"register.lookup", "login.read", "reset.read"} => p \in Passwords
        /\ (route = "refresh.read") = (t # 0)
        /\ route = "reset.read" => k \in UsedLinks
        /\ call' = [call EXCEPT ![q] = [pc |-> route, tok |-> t, link |-> k,
                                        password |-> p, doc |-> None]]
  <2>1. 0 \notin UsedTokens
    BY DEF UsedTokens, TokenIds
  <2> QED BY <2>1 DEF StartCall, UsedTokens, UsedLinks
<1>3. UsedTokens' = UsedTokens /\ UsedLinks' = UsedLinks
  BY <1>1 DEF UsedTokens, UsedLinks
<1>4. /\ call'[q] = [pc |-> route, tok |-> t, link |-> k, password |-> p, doc |-> None]
      /\ \A r \in Calls : r # q => call'[r] = call[r]
  BY <1>2
<1>5. SessionTypeOK'
  <2>1. route \in CallNames
    BY DEF Routes, CallNames
  <2>2. [pc |-> route, tok |-> t, link |-> k, password |-> p, doc |-> None] \in CallSlot
    BY <1>2, <2>1 DEF CallSlot, UsedTokens, UsedLinks
  <2>3. call' \in [Calls -> CallSlot]
    BY <1>2, <2>2
  <2>4. calls' \in 0..MaxCalls
    BY <1>1, SessionBounds
  <2> QED BY <1>1, <2>3, <2>4
<1>6. Budget'
  <2>1. /\ q \notin Busy /\ Busy' = Busy \cup {q}
        /\ q \notin Linking /\ Linking' = Linking \cup {q}
    BY <1>1, <1>4 DEF Busy, Linking, Routes
  <2>2. IsFiniteSet(Busy) /\ IsFiniteSet(Linking)
    BY SessionCallsFinite, FS_Subset DEF Busy, Linking
  <2>3. Cardinality(Busy') = Cardinality(Busy) + 1 /\ Cardinality(Busy) \in Nat
    BY <2>1, <2>2, OneMore
  <2>4. Cardinality(Linking') = Cardinality(Linking) + 1 /\ Cardinality(Linking) \in Nat
    BY <2>1, <2>2, OneMore
  <2>5. Cardinality(UsedTokens) \in Nat /\ Cardinality(UsedLinks) \in Nat
    BY FS_CardinalityType DEF Budget, Numbered
  <2> QED BY <1>1, <1>3, <2>3, <2>4, <2>5 DEF Budget
<1>7. ASSUME NEW r \in Calls PROVE CallOK(r)'
  <2>1. CASE r # q
    BY <1>1, <1>3, <1>4, <2>1 DEF CallOK
  <2>2. CASE r = q
    <3>1. /\ call'[q].pc = route /\ call'[q].tok = t
          /\ call'[q].link = k /\ call'[q].password = p
      BY <1>4
    <3>2. route \in StudentCalls => student' \in Student
      BY <1>1 DEF Routes, StudentCalls, KnownStudent
    <3> QED BY <1>2, <1>3, <2>2, <3>1, <3>2 DEF CallOK, Routes, DocCalls,
      PasswordCalls, LinkCalls, RefreshCalls
  <2> QED BY <2>1, <2>2
<1>8. KnownStudent' /\ FamiliesKnown'
  BY <1>1, <1>3 DEF KnownStudent, FamiliesKnown, FamilyOf
<1> QED BY <1>5, <1>6, <1>7, <1>8

\* The next token is a token: a request that is to issue it has been counted.
LEMMA NextTokenIsNew ==
  ASSUME SessionInv, NEW q \in Calls, call[q].pc # "idle"
  PROVE  /\ NextToken \in TokenIds /\ NextToken \notin UsedTokens
         /\ NextToken = 1 + Cardinality(UsedTokens)
         /\ Numbered(UsedTokens \cup {NextToken})
         /\ Cardinality(UsedTokens \cup {NextToken}) = Cardinality(UsedTokens) + 1
         /\ Cardinality(UsedTokens) \in Nat
<1>1. NextToken = 1 + Cardinality(UsedTokens)
  BY DEF NextToken, UsedTokens
<1>2. Numbered(UsedTokens)
  BY DEF SessionInv, Budget
<1>3. IsFiniteSet(Busy) /\ q \in Busy
  BY SessionCallsFinite, FS_Subset DEF Busy
<1>4. Cardinality(Busy) > 0 /\ Cardinality(Busy) \in Nat
  BY <1>3, OneLess
<1>5. /\ Cardinality(UsedTokens) + Cardinality(Busy) <= calls
      /\ calls \in 0..MaxCalls /\ MaxCalls \in Nat
  BY SessionBounds DEF SessionInv, Budget, SessionTypeOK
<1>6. Cardinality(UsedTokens) \in Nat
  BY <1>2, NextNumber
<1>7. NextToken \in TokenIds
  BY <1>1, <1>4, <1>5, <1>6 DEF TokenIds
<1> QED BY <1>1, <1>2, <1>7, NextNumber

LEMMA GrantKeeps ==
  ASSUME SessionInv, NEW q \in Calls, Grant(q)
  PROVE  /\ SessionInv'
         /\ UsedTokens' = UsedTokens \cup {NextToken}
         /\ call' \in [Calls -> CallSlot] /\ Rest(q) /\ call'[q] = IdleSlot
<1> USE DEF SessionInv
<1> DEFINE family == IF call[q].tok = 0 THEN NextToken ELSE FamilyOf(call[q].tok)
           new == [state |-> "live", family |-> family]
<1>0. SessionTypeOK
  OBVIOUS
<1>1. /\ call[q].pc = "grant" /\ CallEnds(q)
      /\ refresh' = [refresh EXCEPT ![NextToken] = new]
      /\ UNCHANGED <<student, mailed, raced, link, calls, callFaults>>
  BY DEF Grant, At, KeepStudent, KeepBounds
<1>2. NextToken \in TokenIds /\ NextToken \notin UsedTokens
  BY <1>1, NextTokenIsNew
<1>3. call' \in [Calls -> CallSlot] /\ Rest(q) /\ SlotGoesOn(q) /\ call'[q] = IdleSlot
  BY <1>0, <1>1, SlotEnds
<1>4. family \in UsedTokens \cup {NextToken}
  BY DEF CallOK, FamiliesKnown
<1>5. new \in RefreshToken /\ new # NoToken
  BY <1>2, <1>4 DEF RefreshToken, NoToken, UsedTokens
<1> HIDE DEF new, family
<1>6. refresh' \in [TokenIds -> RefreshToken] /\ refresh'[NextToken] = new
      /\ \A t \in TokenIds : t # NextToken => refresh'[t] = refresh[t]
  BY <1>0, <1>1, <1>2, <1>5 DEF SessionTypeOK
<1>7. UsedTokens' = UsedTokens \cup {NextToken} /\ UsedLinks' = UsedLinks
  BY <1>1, <1>2, <1>5, <1>6 DEF UsedTokens, UsedLinks
<1>8. SessionTypeOK'
  BY <1>0, <1>1, <1>3, <1>6 DEF SessionTypeOK
<1>9. Budget'
  <2>1. q \in Busy /\ Busy' = Busy \ {q} /\ Linking' \subseteq Linking
    BY <1>1, <1>3 DEF Rest, Busy, Linking, IdleSlot
  <2>2. IsFiniteSet(Busy) /\ IsFiniteSet(Linking)
    BY SessionCallsFinite, FS_Subset DEF Busy, Linking
  <2>3. Cardinality(Busy') = Cardinality(Busy) - 1 /\ Cardinality(Busy) \in Nat
    BY <2>1, <2>2, OneLess
  <2>4. /\ Cardinality(Linking') \in Nat /\ Cardinality(Linking) \in Nat
        /\ Cardinality(Linking') <= Cardinality(Linking)
    BY <2>1, <2>2, NoMore
  <2>5. /\ Cardinality(UsedLinks) \in Nat /\ Cardinality(UsedTokens) \in Nat
        /\ Cardinality(UsedTokens') = Cardinality(UsedTokens) + 1
        /\ Numbered(UsedTokens')
    BY <1>1, <1>7, NextTokenIsNew, FS_CardinalityType DEF Budget, Numbered
  <2>6. calls \in Nat /\ calls' = calls
    BY <1>0, <1>1 DEF SessionTypeOK
  <2> QED BY <1>7, <2>3, <2>4, <2>5, <2>6 DEF Budget
<1>10. ASSUME NEW r \in Calls PROVE CallOK(r)'
  <2>1. CASE r # q
    BY <1>1, <1>3, <1>7, <2>1 DEF CallOK, Rest
  <2>2. CASE r = q
    BY <1>3, <2>2 DEF SlotGoesOn
  <2> QED BY <2>1, <2>2
<1>11. KnownStudent'
  BY <1>1, <1>7 DEF KnownStudent
<1>12. FamiliesKnown'
  <2>1. refresh'[NextToken].family \in UsedTokens'
    BY <1>4, <1>6, <1>7 DEF new
  <2>2. ASSUME NEW t \in UsedTokens PROVE refresh'[t].family \in UsedTokens'
    BY <1>2, <1>6, <1>7 DEF UsedTokens, FamiliesKnown, FamilyOf
  <2> QED BY <1>7, <2>1, <2>2 DEF FamiliesKnown, FamilyOf
<1> QED BY <1>3, <1>7, <1>8, <1>9, <1>10, <1>11, <1>12

LEMMA ForgetInsertKeeps ==
  ASSUME SessionInv, NEW q \in Calls, ForgetInsert(q)
  PROVE  /\ SessionInv'
         /\ Rest(q) /\ call'[q].pc = "forget.mail" /\ call'[q].tok = 0
<1> USE DEF SessionInv
<1>0. SessionTypeOK
  OBVIOUS
<1>1. /\ call[q].pc = "forget.insert" /\ CallKeeps(q, "forget.mail", "link", NextLink)
      /\ link' = [link EXCEPT ![NextLink] = "stored"]
      /\ UNCHANGED <<student, mailed, raced, refresh, calls, callFaults>>
  BY DEF ForgetInsert, At, KeepStudent, KeepTokens, KeepBounds
<1>2. NextLink = 1 + Cardinality(UsedLinks) /\ Numbered(UsedLinks)
  BY DEF NextLink, UsedLinks, Budget
<1>3. q \in Linking /\ Linking' = Linking \ {q} /\ Busy' = Busy /\ IsFiniteSet(Linking)
      /\ IsFiniteSet(Busy)
      /\ call' \in [Calls -> CallSlot] /\ Rest(q)
      /\ call'[q].pc = "forget.mail" /\ call'[q].tok = call[q].tok
      /\ call'[q].link = NextLink
      /\ NextLink \in LinkIds
  <2>1. q \in Linking /\ IsFiniteSet(Linking) /\ IsFiniteSet(Busy)
    BY <1>1, SessionCallsFinite, FS_Subset DEF Linking, Busy
  <2>2. Cardinality(Linking) > 0 /\ Cardinality(Linking) \in Nat
    BY <2>1, OneLess
  <2>3. Cardinality(UsedLinks) + Cardinality(Linking) <= calls /\ calls \in Nat
        /\ calls <= MaxCalls
    BY <1>0, SessionBounds DEF Budget, SessionTypeOK
  <2>4. NextLink \in LinkIds
    <3>1. Cardinality(UsedLinks) \in Nat
      BY <1>2, NextNumber
    <3> QED BY <1>2, <2>2, <2>3, <3>1, SessionBounds DEF LinkIds
  <2>5. /\ call' \in [Calls -> CallSlot] /\ Rest(q)
        /\ call'[q].pc = "forget.mail" /\ call'[q].tok = call[q].tok
        /\ call'[q].link = NextLink
    BY <1>0, <1>1, <2>4, SlotKeepsLink DEF CallNames
  <2>6. Linking' = Linking \ {q} /\ Busy' = Busy
    BY <1>1, <2>5 DEF Linking, Busy, Rest
  <2> QED BY <2>1, <2>4, <2>5, <2>6
<1>4. /\ UsedLinks' = UsedLinks \cup {NextLink} /\ UsedTokens' = UsedTokens
      /\ link' \in [LinkIds -> LinkStates]
  BY <1>0, <1>1, <1>3 DEF UsedLinks, UsedTokens, SessionTypeOK, LinkStates
<1>5. SessionTypeOK'
  BY <1>0, <1>1, <1>3, <1>4 DEF SessionTypeOK
<1>6. Budget'
  <2>1. Cardinality(Linking') = Cardinality(Linking) - 1 /\ Cardinality(Linking) \in Nat
    BY <1>3, OneLess
  <2>2. /\ Cardinality(UsedLinks) \in Nat
        /\ Cardinality(UsedLinks') = Cardinality(UsedLinks) + 1
        /\ Numbered(UsedLinks')
    BY <1>2, <1>4, NextNumber
  <2>3. calls \in Nat /\ calls' = calls
    BY <1>0, <1>1 DEF SessionTypeOK
  <2> QED BY <1>3, <1>4, <2>1, <2>2, <2>3 DEF Budget
<1>7. call[q].tok = 0
  BY <1>1 DEF CallOK, RefreshCalls
<1>8. ASSUME NEW r \in Calls PROVE CallOK(r)'
  <2>1. CASE r # q
    BY <1>1, <1>3, <1>4, <2>1 DEF CallOK, Rest
  <2>2. student \in Student
    BY <1>1 DEF CallOK, StudentCalls
  <2>3. CASE r = q
    BY <1>1, <1>3, <1>4, <1>7, <2>2, <2>3 DEF CallOK, DocCalls, PasswordCalls, LinkCalls,
       RefreshCalls
  <2> QED BY <2>1, <2>3
<1>9. KnownStudent'
  BY <1>1 DEF KnownStudent, CallOK, StudentCalls
<1>10. FamiliesKnown'
  BY <1>1, <1>4 DEF FamiliesKnown, FamilyOf
<1> QED BY <1>3, <1>5, <1>6, <1>7, <1>8, <1>9, <1>10

LEMMA SessionNextInv ==
  ASSUME SessionInv, [SessionNext]_sessionVars
  PROVE  SessionInv'
<1>1. ASSUME UNCHANGED sessionVars PROVE Calm
  BY <1>1, TokensKept, LinksKept, StudentKept DEF SessionInv, SessionTypeOK, sessionVars,
     Calm, KeepStudent
<1>2. ASSUME NEW q \in Calls, ServeSession(q) PROVE SessionInv'
  BY <1>2, GrantKeeps, ForgetInsertKeeps, ServedCalm, CalmKeeps DEF ServeSession, CalmStep
<1> QED
  BY <1>1, <1>2, StartKeeps, AsideCalm, CalmKeeps DEF SessionNext

(***************************************************************************)
(* The collections and the requests in flight of a student's account have  *)
(* their types: however many registrations, logins, exchanges and resets   *)
(* overlap, fail or are cut off, every insert finds a number of its own    *)
(* and every save is made by a request that still has its document.        *)
(***************************************************************************)
THEOREM SessionTypes == SessionSpec => []SessionTypeOK
<1>1. SessionSpec => []SessionInv
  BY SessionInitInv, SessionNextInv, PTL DEF SessionSpec
<1>2. SessionInv => SessionTypeOK
  BY DEF SessionInv
<1> QED BY <1>1, <1>2, PTL

----------------------------------------------------------------------------
(***************************************************************************)
(* The student's account: what a step does to the families.                *)
(***************************************************************************)
\* No family gains a live token or an exchange.
FamiliesFade ==
  /\ TokensFade /\ raced' = raced
  /\ \A r \in Calls : \/ call'[r] = call[r]
                      \/ call'[r].tok = 0
                      \/ call'[r].pc \notin {"refresh.mark", "grant"}

\* An exchange begins: the token was found live.
Presents(q) ==
  RefreshRead(q) /\ refresh[call[q].tok].state = "live"

\* An exchange has revoked its token and will issue the next.
Revokes(q) == RefreshMark(q) /\ Stored(call[q].tok)

LEMMA SessionSteps ==
  ASSUME SessionInv, [SessionNext]_sessionVars
  PROVE  \/ FamiliesFade
         \/ \E q \in Calls : Presents(q) \/ Revokes(q) \/ Grant(q)
<1> USE DEF SessionInv
<1>0. SessionTypeOK
  OBVIOUS
<1>1. ASSUME UNCHANGED sessionVars PROVE FamiliesFade
  BY <1>0, <1>1, TokensKept DEF sessionVars, FamiliesFade
<1>2. ASSUME NEW q \in Calls, NEW route \in Routes, StartCall(q, route)
      PROVE  FamiliesFade
  <2>1. /\ call'[q].pc = route /\ \A r \in Calls : r # q => call'[r] = call[r]
    BY <1>0, <1>2 DEF StartCall, SessionTypeOK
  <2>2. UNCHANGED <<refresh, raced>>
    BY <1>2 DEF StartCall, KeepTokens
  <2> QED BY <1>0, <2>1, <2>2, TokensKept DEF FamiliesFade, Routes
<1>3. ASSUME NEW q \in Calls, ForgetInsert(q) PROVE FamiliesFade
  <2>1. UNCHANGED <<refresh, raced>>
    BY <1>3 DEF ForgetInsert, KeepTokens
  <2> QED BY <1>0, <1>3, <2>1, ForgetInsertKeeps, TokensKept DEF FamiliesFade, Rest
<1>4. ASSUME NEW q \in Calls, CalmStep(q) PROVE FamiliesFade \/ Presents(q) \/ Revokes(q)
  <2>1. Calm /\ Rest(q)
    <3>1. Calm
      BY <1>4, ServedCalm
    <3>2. UsedTokens' = UsedTokens /\ UsedLinks' = UsedLinks
      BY <3>1, CalmUses DEF Calm
    <3> QED
      BY <1>4, <3>1, <3>2, RegisterServes, VerifyServes, ResendServes, LoginServes,
         ForgetServes, ResetServes, RefreshServes DEF CalmStep, Serves
  <2>2. TokensFade
    BY <2>1 DEF Calm
  <2>3. CASE call[q].pc \notin RefreshCalls
    <3>1. call[q].pc # "grant"
      BY <1>4 DEF CalmStep, At, RegisterLookup, RegisterInsert,
         RegisterMail, VerifyRead, VerifyCount, VerifySave, ResendRead, ResendSave, LoginRead,
         LoginFail, LoginPass, ForgetRead, ForgetInvalidate, ForgetMail, ResetRead, ResetSave,
         ResetMark, ResetClear, RefreshRead, RefreshRevoke, RefreshMark
    <3>2. call[q].tok = 0
      BY <2>3, <3>1 DEF CallOK
    <3>3. call'[q].tok = 0
      BY <2>1, <3>2 DEF Calm, SlotGoesOn
    <3>4. raced' = raced
      BY <1>4, <2>3 DEF CalmStep, At, KeepTokens, RegisterLookup, RegisterInsert,
         RegisterMail, VerifyRead, VerifyCount, VerifySave, ResendRead, ResendSave, LoginRead,
         LoginFail, LoginPass, ForgetRead, ForgetInvalidate, ForgetMail, ResetRead, ResetSave,
         ResetMark, ResetClear, RefreshRead, RefreshRevoke, RefreshMark, RefreshCalls
    <3> QED BY <2>1, <2>2, <3>3, <3>4 DEF FamiliesFade, Rest
  <2>4. CASE CallEnds(q) /\ raced' = raced
    <3>1. call'[q] = IdleSlot
      BY <1>0, <2>4, SlotEnds
    <3> QED BY <2>1, <2>2, <2>4, <3>1 DEF FamiliesFade, Rest, IdleSlot
  <2>5. CASE RefreshRead(q) /\ ~Presents(q)
    <3>1. CASE CallAwaits(q, "refresh.revoke")
      <4>1. call'[q].pc = "refresh.revoke"
        BY <1>0, <3>1, SlotAwaits DEF CallNames
      <4>2. raced' = raced
        BY <2>5 DEF RefreshRead, KeepTokens
      <4> QED BY <2>1, <2>2, <4>1, <4>2 DEF FamiliesFade, Rest
    <3> QED BY <2>4, <2>5, <3>1 DEF RefreshRead, Presents, KeepTokens
  <2>6. CASE RefreshRevoke(q) \/ RefreshMark(q)
    BY <2>4, <2>6 DEF RefreshRevoke, RefreshMark, Revokes, KeepTokens
  <2>7. call[q].pc \in RefreshCalls => RefreshRead(q) \/ RefreshRevoke(q) \/ RefreshMark(q)
    BY <1>4 DEF CalmStep, At, RegisterLookup, RegisterInsert,
       RegisterMail, VerifyRead, VerifyCount, VerifySave, ResendRead, ResendSave, LoginRead,
       LoginFail, LoginPass, ForgetRead, ForgetInvalidate, ForgetMail, ResetRead, ResetSave,
       ResetMark, ResetClear, RefreshCalls
  <2> QED BY <2>3, <2>5, <2>6, <2>7
<1>5. ASSUME \/ LockExpires \/ TriedPasses \/ SessionProcessStops
             \/ \E t \in TokenIds : Logout(t)
             \/ \E k \in LinkIds : LinkExpires(k)
      PROVE FamiliesFade
  <2>1. TokensFade
    BY <1>5, AsideCalm DEF Calm
  <2>2. raced' = raced
    BY <1>5
      DEF LockExpires, TriedPasses, SessionProcessStops, Logout, LinkExpires, KeepTokens
  <2>3. call' = call \/ call' = [q \in Calls |-> IdleSlot]
    BY <1>5 DEF LockExpires, TriedPasses, SessionProcessStops, Logout, LinkExpires
  <2> QED BY <2>1, <2>2, <2>3 DEF FamiliesFade, IdleSlot
<1>6. ASSUME NEW q \in Calls, SessionCallFails(q) PROVE FamiliesFade
  <2>1. UNCHANGED <<refresh, raced>> /\ CallEnds(q)
    BY <1>6 DEF SessionCallFails, KeepTokens
  <2> QED BY <1>0, <2>1, SlotEnds, TokensKept DEF FamiliesFade, Rest, IdleSlot
<1> QED
  BY <1>1, <1>2, <1>3, <1>4, <1>5, <1>6 DEF SessionNext, ServeSession, CalmStep

LEMMA FamilySets ==
  ASSUME SessionTypeOK, NEW f
  PROVE  /\ IsFiniteSet(Live(f)) /\ IsFiniteSet(Revoked(f)) /\ IsFiniteSet(Exchanging(f))
         /\ Cardinality(Live(f)) \in Nat /\ Cardinality(Revoked(f)) \in Nat
         /\ Cardinality(Exchanging(f)) \in Nat
<1>1. IsFiniteSet(TokenIds)
  BY SessionBounds, FS_Interval DEF TokenIds
<1>2. Live(f) \subseteq TokenIds /\ Revoked(f) \subseteq Calls /\ Exchanging(f) \subseteq Calls
  BY DEF Live, Family, Revoked, Exchanging
<1> QED BY <1>1, <1>2, SessionCallsFinite, FS_Subset, FS_CardinalityType

LEMMA FadeShrinks ==
  ASSUME SessionInv, FamiliesFade, NEW f \in TokenIds
  PROVE  /\ Live(f)' \subseteq Live(f) /\ Revoked(f)' \subseteq Revoked(f)
         /\ Exchanging(f)' \subseteq Exchanging(f)
         /\ FamilyOf(f)' = FamilyOf(f)
<1>1. Family(f)' = Family(f) /\ 0 \notin Family(f)
  BY DEF FamiliesFade, TokensFade, Family, FamilyOf, TokenIds
<1>2. Live(f)' \subseteq Live(f)
  BY <1>1 DEF FamiliesFade, TokensFade, Live, Family
<1>3. Revoked(f)' \subseteq Revoked(f)
  BY <1>1 DEF FamiliesFade, Revoked, At
<1>4. Exchanging(f)' \subseteq Exchanging(f)
  BY <1>1 DEF FamiliesFade, Exchanging, Revoked, At
<1> QED BY <1>2, <1>3, <1>4 DEF FamiliesFade, TokensFade, FamilyOf

LEMMA PresentsForks ==
  ASSUME SessionInv, NEW q \in Calls, Presents(q), NEW f \in TokenIds
  PROVE  /\ Live(f)' = Live(f) /\ Revoked(f)' = Revoked(f) /\ raced' = raced
         /\ FamilyOf(f)' = FamilyOf(f)
         /\ IF f = FamilyOf(call[q].tok)
              THEN /\ Live(f) # {} /\ q \notin Exchanging(f)
                   /\ Exchanging(f)' = Exchanging(f) \cup {q}
              ELSE Exchanging(f)' = Exchanging(f)
<1>1. /\ call[q].pc = "refresh.read" /\ CallAwaits(q, "refresh.mark")
      /\ UNCHANGED <<refresh, raced>>
      /\ call[q].tok \in UsedTokens /\ refresh[call[q].tok].state = "live"
  BY DEF SessionInv, Presents, RefreshRead, At, KeepTokens, CallOK, RefreshCalls
<1>2. /\ call'[q].pc = "refresh.mark" /\ call'[q].tok = call[q].tok /\ Rest(q)
  BY <1>1, SlotAwaits DEF SessionInv, CallNames
<1>3. Family(f)' = Family(f) /\ Live(f)' = Live(f) /\ FamilyOf(f)' = FamilyOf(f)
  BY <1>1 DEF Family, Live, FamilyOf
<1>4. f = FamilyOf(call[q].tok) <=> call[q].tok \in Family(f)
  BY <1>1 DEF Family, UsedTokens
<1>5. Revoked(f)' = Revoked(f)
  BY <1>1, <1>2, <1>3 DEF Revoked, At, Rest
<1>6. CASE f = FamilyOf(call[q].tok)
  <2>1. call[q].tok \in Live(f)
    BY <1>1, <1>4, <1>6 DEF Live
  <2>2. q \notin Exchanging(f)
    BY <1>1 DEF Exchanging, Revoked, At
  <2>3. Exchanging(f)' = Exchanging(f) \cup {q}
    BY <1>1, <1>2, <1>3, <1>4, <1>6 DEF Exchanging, Revoked, At, Rest
  <2> QED BY <1>1, <1>3, <1>5, <1>6, <2>1, <2>2, <2>3
<1>7. CASE f # FamilyOf(call[q].tok)
  <2>1. Exchanging(f)' = Exchanging(f)
    BY <1>1, <1>2, <1>3, <1>4, <1>7 DEF Exchanging, Revoked, At, Rest
  <2> QED BY <1>1, <1>3, <1>5, <1>7, <2>1
<1> QED BY <1>6, <1>7

LEMMA RevokesMoves ==
  ASSUME SessionInv, NEW q \in Calls, Revokes(q), NEW f \in TokenIds
  PROVE  /\ FamilyOf(f)' = FamilyOf(f)
         /\ Live(f)' \subseteq Live(f) /\ Exchanging(f)' = Exchanging(f)
         /\ IF f # FamilyOf(call[q].tok)
              THEN Revoked(f)' = Revoked(f) /\ raced'[f] = raced[f]
              ELSE /\ q \notin Revoked(f) /\ Revoked(f)' = Revoked(f) \cup {q}
                   /\ \/ /\ raced'[f] = raced[f]
                         /\ \E t \in Live(f) : Live(f)' = Live(f) \ {t}
                      \/ raced'[f] = raced[f] + 1
<1> DEFINE t == call[q].tok
<1>0. SessionTypeOK
  BY DEF SessionInv
<1>1. /\ call[q].pc = "refresh.mark" /\ CallAwaits(q, "grant") /\ t \in UsedTokens
      /\ Stored(t) /\ refresh' = [refresh EXCEPT ![t].state = "revoked"]
      /\ raced' = IF refresh[t].state = "revoked"
                    THEN [raced EXCEPT ![FamilyOf(t)] = @ + 1] ELSE raced
  BY DEF SessionInv, Revokes, RefreshMark, At, KeepTokens, CallOK, RefreshCalls
<1>2. t \in TokenIds /\ refresh[t] \in RefreshToken /\ refresh[t] # NoToken
      /\ FamilyOf(t) \in TokenIds
  BY <1>0, <1>1 DEF UsedTokens, SessionTypeOK, SessionInv, FamiliesKnown
<1>3. call'[q].pc = "grant" /\ call'[q].tok = t /\ Rest(q)
  BY <1>0, <1>1, SlotAwaits DEF CallNames
<1> HIDE DEF t
<1>4. /\ [refresh[t] EXCEPT !.state = "revoked"] # NoToken
      /\ [refresh[t] EXCEPT !.state = "revoked"].family = refresh[t].family
      /\ [refresh[t] EXCEPT !.state = "revoked"].state = "revoked"
  BY <1>2, FadedToken
<1>5. /\ \A u \in TokenIds : u # t => refresh'[u] = refresh[u]
      /\ refresh'[t] # NoToken /\ refresh'[t].family = refresh[t].family
      /\ refresh'[t].state = "revoked"
  BY <1>0, <1>1, <1>2, <1>4 DEF SessionTypeOK
<1>6. Family(f)' = Family(f)
  BY <1>2, <1>5 DEF Family, FamilyOf
<1>7. t \in Family(f) <=> f = FamilyOf(t)
  BY <1>2 DEF Family
<1>8. FamilyOf(f)' = FamilyOf(f)
  BY <1>5 DEF FamilyOf
<1>9. Live(f)' = Live(f) \ {t}
  BY <1>2, <1>5, <1>6 DEF Live, Family
<1>10. Exchanging(f)' = Exchanging(f)
  BY <1>1, <1>3, <1>6 DEF Exchanging, Revoked, At, Rest, t
<1>11. Revoked(f)' = IF f = FamilyOf(t) THEN Revoked(f) \cup {q} ELSE Revoked(f)
  BY <1>1, <1>3, <1>6, <1>7 DEF Revoked, At, Rest, t
<1>12. q \notin Revoked(f)
  BY <1>1 DEF Revoked, At
<1>13. CASE f # FamilyOf(t)
  <2>1. raced'[f] = raced[f]
    BY <1>0, <1>1, <1>13 DEF SessionTypeOK
  <2> QED BY <1>8, <1>9, <1>10, <1>11, <1>13, <2>1 DEF t
<1>14. CASE f = FamilyOf(t) /\ refresh[t].state = "revoked"
  <2>1. raced'[f] = raced[f] + 1
    BY <1>0, <1>1, <1>14 DEF SessionTypeOK
  <2> QED BY <1>8, <1>9, <1>10, <1>11, <1>12, <1>14, <2>1 DEF t
<1>15. CASE f = FamilyOf(t) /\ refresh[t].state # "revoked"
  <2>1. raced'[f] = raced[f]
    BY <1>1, <1>15
  <2>2. t \in Live(f)
    BY <1>1, <1>7, <1>15 DEF Live, Stored
  <2> QED BY <1>8, <1>9, <1>10, <1>11, <1>12, <1>15, <2>1, <2>2 DEF t
<1> QED BY <1>13, <1>14, <1>15

\* A token is issued: the first of a family, or the successor of the one exchanged.
LEMMA GrantIssues ==
  ASSUME SessionInv, NEW q \in Calls, Grant(q), NEW f \in TokenIds
  PROVE  /\ raced' = raced
         /\ IF call[q].tok = 0
              THEN IF f = NextToken
                     THEN /\ FamilyOf(f) # f /\ FamilyOf(f)' = f
                          /\ Live(f)' = {f} /\ Revoked(f)' = {} /\ Exchanging(f)' = {}
                     ELSE /\ FamilyOf(f)' = FamilyOf(f) /\ Live(f)' = Live(f)
                          /\ Revoked(f)' = Revoked(f) /\ Exchanging(f)' = Exchanging(f)
              ELSE /\ (FamilyOf(f)' = f) = (FamilyOf(f) = f)
                   /\ IF f = FamilyOf(call[q].tok)
                        THEN /\ NextToken \notin Live(f)
                             /\ Live(f)' = Live(f) \cup {NextToken}
                             /\ q \in Revoked(f) /\ Revoked(f)' = Revoked(f) \ {q}
                             /\ q \in Exchanging(f) /\ Exchanging(f)' = Exchanging(f) \ {q}
                        ELSE /\ Live(f)' = Live(f) /\ Revoked(f)' = Revoked(f)
                             /\ Exchanging(f)' = Exchanging(f)
<1> DEFINE n == NextToken
           family == IF call[q].tok = 0 THEN n ELSE FamilyOf(call[q].tok)
           new == [state |-> "live", family |-> family]
<1>0. SessionTypeOK
  BY DEF SessionInv
<1>1. /\ call[q].pc = "grant" /\ refresh' = [refresh EXCEPT ![n] = new] /\ raced' = raced
  BY DEF Grant, At
<1>2. n \in TokenIds /\ n \notin UsedTokens
  BY <1>1, NextTokenIsNew
<1>3. Rest(q) /\ call'[q] = IdleSlot
  BY GrantKeeps
<1>4. call[q].tok # 0 => call[q].tok \in UsedTokens /\ FamilyOf(call[q].tok) \in UsedTokens
  BY DEF SessionInv, CallOK, FamiliesKnown
<1>5. /\ \A u \in TokenIds : u # n => refresh'[u] = refresh[u]
      /\ refresh'[n] = new
  BY <1>0, <1>1, <1>2 DEF SessionTypeOK
<1>6. new # NoToken /\ new.family = family /\ new.state = "live"
  BY DEF NoToken
<1>7. refresh[n] = NoToken /\ n # 0
  BY <1>2 DEF UsedTokens, TokenIds
<1> HIDE DEF n, new, family
<1>8. Family(f)' = IF f = family THEN Family(f) \cup {n} ELSE Family(f)
  BY <1>2, <1>5, <1>6, <1>7 DEF Family, FamilyOf
<1>9. n \notin Family(f) /\ n \notin Live(f)
  BY <1>7 DEF Family, Live
<1>10. Live(f)' = IF f = family THEN Live(f) \cup {n} ELSE Live(f)
  BY <1>2, <1>5, <1>6, <1>8, <1>9 DEF Live, Family
<1>11. \A r \in Calls : call[r].tok # n
  BY <1>2, <1>7 DEF SessionInv, CallOK
<1>12. Revoked(f)' = Revoked(f) \ {q}
  BY <1>3, <1>8, <1>11 DEF Revoked, At, Rest, IdleSlot
<1>13. Exchanging(f)' = Exchanging(f) \ {q}
  BY <1>3, <1>8, <1>11 DEF Exchanging, Revoked, At, Rest, IdleSlot
<1>14. q \in Revoked(f) <=> call[q].tok \in Family(f)
  BY <1>1 DEF Revoked, At
<1>15. q \in Exchanging(f) <=> call[q].tok \in Family(f)
  BY <1>1 DEF Exchanging, Revoked, At
<1>16. FamilyOf(f)' = IF f = n THEN family ELSE FamilyOf(f)
  BY <1>5, <1>6 DEF FamilyOf
<1>17. CASE call[q].tok = 0
  <2>1. family = n /\ call[q].tok \notin Family(f)
    BY <1>17 DEF family, Family, TokenIds
  <2>2. CASE f = n
    <3>1. Family(f) = {}
      BY <1>2, <2>2 DEF Family, SessionInv, FamiliesKnown, UsedTokens
    <3>2. Live(f) = {} /\ Revoked(f) = {} /\ Exchanging(f) = {}
      BY <3>1 DEF Live, Revoked, Exchanging
    <3>3. FamilyOf(f) # f
      BY <1>7, <2>2 DEF FamilyOf, NoToken
    <3> QED
      BY <1>1, <1>10, <1>12, <1>13, <1>16, <1>17, <2>1, <2>2, <3>2, <3>3 DEF n
  <2>3. CASE f # n
    BY <1>1, <1>10, <1>12, <1>13, <1>14, <1>15, <1>16, <1>17, <2>1, <2>3 DEF n
  <2> QED BY <2>2, <2>3
<1>18. CASE call[q].tok # 0
  <2>1. family = FamilyOf(call[q].tok) /\ family # n
    BY <1>2, <1>4, <1>18 DEF family
  <2>2. call[q].tok \in Family(f) <=> f = family
    BY <1>4, <1>18, <2>1 DEF Family, UsedTokens
  <2>3. (FamilyOf(f)' = f) = (FamilyOf(f) = f)
    BY <1>7, <1>16, <2>1 DEF FamilyOf, NoToken
  <2> QED
    BY <1>1, <1>9, <1>10, <1>12, <1>13, <1>14, <1>15, <1>18, <2>1, <2>2, <2>3 DEF n
<1> QED BY <1>17, <1>18

LEMMA NothingIssuedYet ==
  ASSUME SessionInit, NEW f \in TokenIds
  PROVE  Live(f) = {} /\ Revoked(f) = {} /\ Exchanging(f) = {} /\ FamilyOf(f) # f
  BY DEF SessionInit, Live, Family, Revoked, Exchanging, FamilyOf, NoToken, TokenIds, At,
     IdleSlot

LEMMA ForksInit == SessionInit => RotationForksByRace
<1> SUFFICES ASSUME SessionInit, NEW f \in TokenIds
             PROVE  Cardinality(Live(f)) + Cardinality(Revoked(f)) <= 1 + raced[f]
  BY DEF RotationForksByRace
<1>1. Live(f) = {} /\ Revoked(f) = {} /\ raced[f] = 0
  BY NothingIssuedYet DEF SessionInit
<1> QED BY <1>1, FS_EmptySet

LEMMA ForksNext ==
  ASSUME SessionInv, SessionInv', RotationForksByRace, [SessionNext]_sessionVars
  PROVE  RotationForksByRace'
<1> SUFFICES ASSUME NEW f \in TokenIds
             PROVE  Cardinality(Live(f)') + Cardinality(Revoked(f)') <= 1 + raced'[f]
  BY DEF RotationForksByRace, TokenIds
<1>1. /\ Cardinality(Live(f)) + Cardinality(Revoked(f)) <= 1 + raced[f]
      /\ raced[f] \in Nat /\ raced'[f] \in Nat
  BY DEF RotationForksByRace, SessionInv, SessionTypeOK
<1>2. /\ IsFiniteSet(Live(f)) /\ IsFiniteSet(Revoked(f))
      /\ Cardinality(Live(f)) \in Nat /\ Cardinality(Revoked(f)) \in Nat
  BY FamilySets DEF SessionInv
<1>3. ASSUME Live(f)' \subseteq Live(f), Revoked(f)' \subseteq Revoked(f), raced' = raced
      PROVE  Cardinality(Live(f)') + Cardinality(Revoked(f)') <= 1 + raced'[f]
  <2>1. Cardinality(Live(f)') <= Cardinality(Live(f)) /\ Cardinality(Live(f)') \in Nat
    BY <1>2, <1>3, NoMore
  <2>2. /\ Cardinality(Revoked(f)') <= Cardinality(Revoked(f))
        /\ Cardinality(Revoked(f)') \in Nat
    BY <1>2, <1>3, NoMore
  <2> QED BY <1>1, <1>2, <1>3, <2>1, <2>2
<1>4. CASE FamiliesFade
  BY <1>3, <1>4, FadeShrinks DEF FamiliesFade
<1>5. ASSUME NEW q \in Calls, Presents(q)
      PROVE  Cardinality(Live(f)') + Cardinality(Revoked(f)') <= 1 + raced'[f]
  BY <1>3, <1>5, PresentsForks
<1>6. ASSUME NEW q \in Calls, Revokes(q)
      PROVE  Cardinality(Live(f)') + Cardinality(Revoked(f)') <= 1 + raced'[f]
  <2>1. Cardinality(Live(f)') <= Cardinality(Live(f)) /\ Cardinality(Live(f)') \in Nat
    BY <1>2, <1>6, RevokesMoves, NoMore
  <2>2. CASE f # FamilyOf(call[q].tok)
    <3>1. Revoked(f)' = Revoked(f) /\ raced'[f] = raced[f]
      BY <1>6, <2>2, RevokesMoves
    <3> QED BY <1>1, <1>2, <2>1, <3>1
  <2>3. CASE f = FamilyOf(call[q].tok)
    <3>1. /\ q \notin Revoked(f) /\ Revoked(f)' = Revoked(f) \cup {q}
          /\ \/ /\ raced'[f] = raced[f]
                /\ \E t \in Live(f) : Live(f)' = Live(f) \ {t}
             \/ raced'[f] = raced[f] + 1
      BY <1>6, <2>3, RevokesMoves
    <3>2. Cardinality(Revoked(f)') = Cardinality(Revoked(f)) + 1
      BY <1>2, <3>1, OneMore
    <3>3. CASE raced'[f] = raced[f] + 1
      BY <1>1, <1>2, <2>1, <3>2, <3>3
    <3>4. ASSUME raced'[f] = raced[f], NEW t \in Live(f), Live(f)' = Live(f) \ {t}
          PROVE  Cardinality(Live(f)') + Cardinality(Revoked(f)') <= 1 + raced'[f]
      <4>1. Cardinality(Live(f)') = Cardinality(Live(f)) - 1
        BY <1>2, <3>4, OneLess
      <4> QED BY <1>1, <1>2, <3>2, <3>4, <4>1
    <3> QED BY <3>1, <3>3, <3>4
  <2> QED BY <2>2, <2>3
<1>7. ASSUME NEW q \in Calls, Grant(q)
      PROVE  Cardinality(Live(f)') + Cardinality(Revoked(f)') <= 1 + raced'[f]
  <2>1. raced' = raced
    BY <1>7, GrantIssues
  <2>2. CASE Live(f)' = {f} /\ Revoked(f)' = {}
    <3>1. Cardinality(Live(f)') = 1 /\ Cardinality(Revoked(f)') = 0
      BY <2>2, FS_EmptySet, FS_Singleton
    <3> QED BY <1>1, <3>1
  <2>3. CASE /\ NextToken \notin Live(f) /\ Live(f)' = Live(f) \cup {NextToken}
             /\ q \in Revoked(f) /\ Revoked(f)' = Revoked(f) \ {q}
    <3>1. Cardinality(Live(f)') = Cardinality(Live(f)) + 1
      BY <1>2, <2>3, OneMore
    <3>2. Cardinality(Revoked(f)') = Cardinality(Revoked(f)) - 1
      BY <1>2, <2>3, OneLess
    <3> QED BY <1>1, <1>2, <2>1, <3>1, <3>2
  <2>4. CASE Live(f)' = Live(f) /\ Revoked(f)' = Revoked(f)
    BY <1>3, <2>1, <2>4
  <2> QED BY <1>7, <2>2, <2>3, <2>4, GrantIssues
<1> QED BY <1>4, <1>5, <1>6, <1>7, SessionSteps

(***************************************************************************)
(* A family of refresh tokens forks only by exchanges that overlapped:     *)
(* whatever requests race, fail or are cut off, the tokens of a family     *)
(* that may be exchanged and the exchanges about to issue one outnumber    *)
(* one by at most the exchanges that saved a token another request had     *)
(* revoked since they read it.                                             *)
(***************************************************************************)
THEOREM RotationForksOnlyByRace == SessionSpec => []RotationForksByRace
<1>1. SessionInit => SessionInv /\ RotationForksByRace
  BY SessionInitInv, ForksInit
<1>2. (SessionInv /\ RotationForksByRace) /\ [SessionNext]_sessionVars
        => (SessionInv /\ RotationForksByRace)'
  BY SessionNextInv, ForksNext
<1> QED BY <1>1, <1>2, PTL DEF SessionSpec

----------------------------------------------------------------------------
(***************************************************************************)
(* The student's account implements SessionFamilies.                       *)
(***************************************************************************)
branchesBar == [f \in TokenIds |-> Cardinality(Live(f)) + Cardinality(Exchanging(f))]
openedBar == {f \in TokenIds : FamilyOf(f) = f}

LEMMA BranchesInit ==
  SessionInit => openedBar = {} /\ branchesBar = [f \in TokenIds |-> 0]
<1> SUFFICES ASSUME SessionInit
             PROVE  openedBar = {} /\ branchesBar = [f \in TokenIds |-> 0]
  OBVIOUS
<1>1. openedBar = {}
  BY NothingIssuedYet DEF openedBar
<1>2. ASSUME NEW f \in TokenIds
      PROVE  Cardinality(Live(f)) + Cardinality(Exchanging(f)) = 0
  <2>1. Live(f) = {} /\ Exchanging(f) = {}
    BY NothingIssuedYet
  <2> QED BY <2>1, FS_EmptySet
<1> QED BY <1>1, <1>2 DEF branchesBar

LEMMA BranchesTyped ==
  ASSUME SessionTypeOK
  PROVE  /\ branchesBar \in [TokenIds -> Nat]
         /\ \A f \in TokenIds :
              branchesBar[f] = Cardinality(Live(f)) + Cardinality(Exchanging(f))
<1>1. ASSUME NEW f \in TokenIds
      PROVE  Cardinality(Live(f)) + Cardinality(Exchanging(f)) \in Nat
  <2>1. Cardinality(Live(f)) \in Nat /\ Cardinality(Exchanging(f)) \in Nat
    BY FamilySets
  <2> QED BY <2>1
<1> QED BY <1>1 DEF branchesBar

LEMMA BranchesNext ==
  ASSUME SessionInv, SessionInv', [SessionNext]_sessionVars
  PROVE  \/ /\ branchesBar' \in [TokenIds -> Nat]
            /\ \A f \in TokenIds : branchesBar'[f] <= branchesBar[f]
            /\ openedBar' = openedBar
         \/ \E f \in TokenIds :
              \/ /\ f \notin openedBar
                 /\ openedBar' = openedBar \cup {f}
                 /\ branchesBar' = [branchesBar EXCEPT ![f] = 1]
              \/ /\ branchesBar[f] > 0
                 /\ branchesBar' = [branchesBar EXCEPT ![f] = @ + 1]
                 /\ openedBar' = openedBar
<1> DEFINE Cuts == /\ branchesBar' \in [TokenIds -> Nat]
                   /\ \A f \in TokenIds : branchesBar'[f] <= branchesBar[f]
                   /\ openedBar' = openedBar
           Opens(f) == /\ f \notin openedBar
                       /\ openedBar' = openedBar \cup {f}
                       /\ branchesBar' = [branchesBar EXCEPT ![f] = 1]
           Forks(f) == /\ branchesBar[f] > 0
                       /\ branchesBar' = [branchesBar EXCEPT ![f] = @ + 1]
                       /\ openedBar' = openedBar
<1>1. /\ branchesBar \in [TokenIds -> Nat]
      /\ \A f \in TokenIds :
           branchesBar[f] = Cardinality(Live(f)) + Cardinality(Exchanging(f))
  BY BranchesTyped DEF SessionInv
<1>2. /\ branchesBar' \in [TokenIds -> Nat]
      /\ \A f \in TokenIds :
           branchesBar'[f] = Cardinality(Live(f)') + Cardinality(Exchanging(f)')
  <2>1. SessionTypeOK'
    BY DEF SessionInv
  <2>2. ASSUME NEW f \in TokenIds
        PROVE  Cardinality(Live(f)') + Cardinality(Exchanging(f)') \in Nat
    <3>1. (Cardinality(Live(f)) \in Nat /\ Cardinality(Exchanging(f)) \in Nat)'
      BY <2>1, FamilySets, PTL
    <3> QED BY <3>1
  <2> QED BY <2>2 DEF branchesBar, TokenIds
<1>3. \A f \in TokenIds :
        /\ IsFiniteSet(Live(f)) /\ IsFiniteSet(Exchanging(f))
        /\ Cardinality(Live(f)) \in Nat /\ Cardinality(Exchanging(f)) \in Nat
  BY FamilySets DEF SessionInv
<1>4. ASSUME NEW f \in TokenIds,
             Live(f)' \subseteq Live(f), Exchanging(f)' \subseteq Exchanging(f)
      PROVE  branchesBar'[f] <= branchesBar[f]
  <2>1. Cardinality(Live(f)') <= Cardinality(Live(f)) /\ Cardinality(Live(f)') \in Nat
    BY <1>3, <1>4, NoMore
  <2>2. /\ Cardinality(Exchanging(f)') <= Cardinality(Exchanging(f))
        /\ Cardinality(Exchanging(f)') \in Nat
    BY <1>3, <1>4, NoMore
  <2> QED BY <1>1, <1>2, <1>3, <2>1, <2>2
<1>5. ASSUME FamiliesFade PROVE Cuts
  <2>1. openedBar' = openedBar
    BY <1>5, FadeShrinks DEF openedBar, TokenIds
  <2> QED BY <1>2, <1>4, <1>5, <2>1, FadeShrinks
<1>6. ASSUME NEW q \in Calls, Revokes(q) PROVE Cuts
  <2>1. openedBar' = openedBar
    BY <1>6, RevokesMoves DEF openedBar, TokenIds
  <2>2. ASSUME NEW f \in TokenIds
        PROVE  Live(f)' \subseteq Live(f) /\ Exchanging(f)' \subseteq Exchanging(f)
    BY <1>6, RevokesMoves
  <2> QED BY <1>2, <1>4, <2>1, <2>2
<1>7. ASSUME NEW q \in Calls, Presents(q) PROVE \E f \in TokenIds : Forks(f)
  <2>1. PICK g \in TokenIds : g = FamilyOf(call[q].tok)
    BY <1>7
      DEF Presents, RefreshRead, At, SessionInv, CallOK, RefreshCalls, FamiliesKnown,
       UsedTokens
  <2>2. openedBar' = openedBar
    BY <1>7, PresentsForks DEF openedBar, TokenIds
  <2>3. /\ Live(g) # {} /\ Live(g)' = Live(g) /\ q \notin Exchanging(g)
        /\ Exchanging(g)' = Exchanging(g) \cup {q}
    BY <1>7, <2>1, PresentsForks
  <2>4. Cardinality(Live(g)) # 0
    BY <1>3, <2>1, <2>3, FS_EmptySet
  <2>5. Cardinality(Exchanging(g)') = Cardinality(Exchanging(g)) + 1
    BY <1>3, <2>1, <2>3, OneMore
  <2>6. branchesBar[g] > 0 /\ branchesBar'[g] = branchesBar[g] + 1
    <3>1. /\ branchesBar[g] = Cardinality(Live(g)) + Cardinality(Exchanging(g))
          /\ branchesBar'[g] = Cardinality(Live(g)') + Cardinality(Exchanging(g)')
          /\ Cardinality(Live(g)) \in Nat /\ Cardinality(Exchanging(g)) \in Nat
      BY <1>1, <1>2, <1>3
    <3>2. Cardinality(Live(g)') = Cardinality(Live(g))
      BY <2>3
    <3> QED BY <2>4, <2>5, <3>1, <3>2
  <2>7. ASSUME NEW f \in TokenIds, f # g PROVE branchesBar'[f] = branchesBar[f]
    <3>1. Live(f)' = Live(f) /\ Exchanging(f)' = Exchanging(f)
      BY <1>7, <2>1, <2>7, PresentsForks
    <3> QED BY <1>1, <1>2, <3>1
  <2>8. branchesBar' = [branchesBar EXCEPT ![g] = @ + 1]
    BY <1>1, <1>2, <2>1, <2>6, <2>7
  <2> QED BY <2>1, <2>2, <2>6, <2>8
<1>8. ASSUME NEW q \in Calls, Grant(q), call[q].tok = 0
      PROVE  \E f \in TokenIds : Opens(f)
  <2>1. PICK n \in TokenIds : n = NextToken
    BY <1>8, NextTokenIsNew DEF Grant, At
  <2>2. /\ FamilyOf(n) # n /\ FamilyOf(n)' = n
        /\ Live(n)' = {n} /\ Exchanging(n)' = {}
    BY <1>8, <2>1, GrantIssues
  <2>3. ASSUME NEW f \in TokenIds, f # n
        PROVE  FamilyOf(f)' = FamilyOf(f) /\ branchesBar'[f] = branchesBar[f]
    <3>1. /\ FamilyOf(f)' = FamilyOf(f) /\ Live(f)' = Live(f)
          /\ Exchanging(f)' = Exchanging(f)
      BY <1>8, <2>1, <2>3, GrantIssues
    <3> QED BY <1>1, <1>2, <3>1
  <2>4. branchesBar'[n] = 1
    <3>1. Cardinality(Live(n)') = 1 /\ Cardinality(Exchanging(n)') = 0
      BY <2>2, FS_EmptySet, FS_Singleton
    <3> QED BY <1>2, <2>1, <3>1
  <2>5. branchesBar' = [branchesBar EXCEPT ![n] = 1]
    BY <1>1, <1>2, <2>1, <2>3, <2>4
  <2>6. n \notin openedBar /\ openedBar' = openedBar \cup {n}
    BY <2>1, <2>2, <2>3 DEF openedBar, TokenIds
  <2> QED BY <2>1, <2>5, <2>6
<1>9. ASSUME NEW q \in Calls, Grant(q), call[q].tok # 0 PROVE Cuts
  <2>1. openedBar' = openedBar
    BY <1>9, GrantIssues DEF openedBar, TokenIds
  <2>2. ASSUME NEW f \in TokenIds PROVE branchesBar'[f] <= branchesBar[f]
    <3>1. CASE f = FamilyOf(call[q].tok)
      <4>1. /\ NextToken \notin Live(f) /\ Live(f)' = Live(f) \cup {NextToken}
            /\ q \in Exchanging(f) /\ Exchanging(f)' = Exchanging(f) \ {q}
        BY <1>9, <3>1, GrantIssues
      <4>2. Cardinality(Live(f)') = Cardinality(Live(f)) + 1
        BY <1>3, <4>1, OneMore
      <4>3. Cardinality(Exchanging(f)') = Cardinality(Exchanging(f)) - 1
        BY <1>3, <4>1, OneLess
      <4> QED BY <1>1, <1>2, <1>3, <4>2, <4>3
    <3>2. CASE f # FamilyOf(call[q].tok)
      <4>1. Live(f)' = Live(f) /\ Exchanging(f)' = Exchanging(f)
        BY <1>9, <3>2, GrantIssues
      <4> QED BY <1>4, <4>1
    <3> QED BY <3>1, <3>2
  <2> QED BY <1>2, <2>1, <2>2
<1> HIDE DEF Cuts, Opens, Forks
<1>10. Cuts \/ \E f \in TokenIds : Opens(f) \/ Forks(f)
  BY <1>5, <1>6, <1>7, <1>8, <1>9, SessionSteps
<1> QED BY <1>10 DEF Cuts, Opens, Forks

(***************************************************************************)
(* The refresh tokens of a student's account implement SessionFamilies:    *)
(* each step of a request, a timer or a fault opens a family, forks one    *)
(* that has a branch left, cuts branches or changes none.  So a family     *)
(* that has lost its last branch to reuse, a logout, a reset or a failure  *)
(* never issues a token again.                                             *)
(***************************************************************************)
THEOREM AccountImplementsFamilies == SessionSpec => SessionImplementsFamilies
<1>1. SessionInit => Abstract!FamiliesInit
  BY BranchesInit DEF Abstract!FamiliesInit, openedBar, branchesBar
<1>2. SessionInv /\ SessionInv' /\ [SessionNext]_sessionVars
        => [Abstract!FamiliesNext]_Abstract!familyVars
  BY BranchesNext DEF Abstract!FamiliesNext, Abstract!Cut, Abstract!Open, Abstract!Fork,
     openedBar, branchesBar
<1> QED
  BY <1>1, <1>2, SessionInitInv, SessionNextInv, PTL
  DEF SessionSpec, SessionImplementsFamilies, Abstract!FamiliesSpec

----------------------------------------------------------------------------
(***************************************************************************)
(* The tutor's account: the inductive invariant.                           *)
(***************************************************************************)
TutorToken == {NoTutorToken} \cup [state: {"live", "revoked", "gone"}, family: TutorTokens]
TutorSlot ==
  [pc: TutorCallNames, tok: {0} \cup TutorTokens, link: {0} \cup TutorLinks,
   password: {NoTutor} \cup TutorPasswords]

TutorUsed == {t \in TutorTokens : tutorRefresh[t] # NoTutorToken}
TutorUsedLinks == {k \in TutorLinks : tutorLink[k] # "none"}
TutorBusy == {q \in TutorCalls : tutorCall[q].pc # "idle"}
TutorLinking == {q \in TutorCalls : tutorCall[q].pc \notin {"idle", "forget.mail"}}

TutorBudget ==
  /\ Numbered(TutorUsed)
  /\ Numbered(TutorUsedLinks)
  /\ Cardinality(TutorUsed) + Cardinality(TutorBusy) <= tutorRequests
  /\ Cardinality(TutorUsedLinks) + Cardinality(TutorLinking) <= tutorRequests

\* The account exists, and only a decision has made it other than pending.
TutorKnown == tutor \in Tutor /\ (decisions = 0 => tutor.status = "pending")
TutorFresh == decisions = 0 /\ Registered => tutor.status = "pending"

KnownCalls ==
  {"register.mail", "register.grant", "verify.read", "verify.save", "forget.invalidate",
   "forget.insert", "forget.mail", "reset.save", "grant"}
SecretCalls == {"register.lookup", "register.insert", "reset.read", "reset.save"}
MailedCalls == {"forget.mail", "reset.read", "reset.save", "reset.mark"}
ExchangeCalls == {"refresh.read", "refresh.revoke", "refresh.mark", "refresh.tutor"}

TutorCallOK(q) ==
  /\ tutorCall[q].pc \in KnownCalls => TutorKnown
  /\ tutorCall[q].pc \in SecretCalls => tutorCall[q].password \in TutorPasswords
  /\ tutorCall[q].pc \in MailedCalls => tutorCall[q].link \in TutorUsedLinks
  /\ tutorCall[q].pc \in ExchangeCalls => tutorCall[q].tok # 0
  /\ tutorCall[q].tok # 0 => /\ tutorCall[q].tok \in TutorUsed
                             /\ tutorCall[q].pc \in ExchangeCalls \cup {"grant"}
  /\ tutorCall[q].pc = "grant" => decisions # 0

TutorInv ==
  /\ TutorTypeOK
  /\ TutorBudget
  /\ \A q \in TutorCalls : TutorCallOK(q)
  /\ TutorFresh
  /\ tutorMailed \/ TutorUsed # {} \/ TutorUsedLinks # {} => TutorKnown
  /\ \A t \in TutorUsed : TutorFamilyOf(t) \in TutorUsed
  /\ decisions = 0 => TutorUsed \subseteq opening

----------------------------------------------------------------------------
(***************************************************************************)
(* Steps that give out no number.                                          *)
(***************************************************************************)
TutorRest(q) == \A r \in TutorCalls : r # q => tutorCall'[r] = tutorCall[r]

TutorSlotGoesOn(r) ==
  /\ TutorCallOK(r)'
  /\ tutorCall'[r].tok \in {0, tutorCall[r].tok}
  /\ tutorCall'[r].pc # "idle" => tutorCall[r].pc \notin {"idle", "forget.mail"}

TutorTokensFade ==
  /\ tutorRefresh' \in [TutorTokens -> TutorToken] /\ opening' = opening
  /\ \A t \in TutorTokens :
       /\ tutorRefresh'[t] = NoTutorToken <=> tutorRefresh[t] = NoTutorToken
       /\ tutorRefresh'[t].family = tutorRefresh[t].family
       /\ tutorRefresh'[t].state = "live" => tutorRefresh[t].state = "live"

TutorLinksFade ==
  /\ tutorLink' \in [TutorLinks -> {"none", "stored", "sent", "spent"}]
  /\ \A k \in TutorLinks : tutorLink'[k] = "none" <=> tutorLink[k] = "none"

TutorStays ==
  /\ tutor' \in {NoTutor} \cup Tutor /\ tutorMailed' \in BOOLEAN
  /\ TutorKnown => TutorKnown'
  /\ TutorFresh => TutorFresh'
  /\ tutorMailed' => tutorMailed \/ TutorKnown'
  /\ decisions' \in 0..MaxDecisions /\ (decisions' = 0 => decisions = 0)

TutorCalm ==
  /\ tutorCall' \in [TutorCalls -> TutorSlot]
  /\ \A r \in TutorCalls : tutorCall'[r] = tutorCall[r] \/ TutorSlotGoesOn(r)
  /\ TutorTokensFade /\ TutorLinksFade /\ TutorStays
  /\ tutorRequests' = tutorRequests /\ tutorFaults' \in 0..MaxTutorFaults

LEMMA TutorTyped ==
  TutorTypeOK <=>
    /\ tutor \in {NoTutor} \cup Tutor /\ tutorMailed \in BOOLEAN
    /\ tutorRefresh \in [TutorTokens -> TutorToken]
    /\ tutorLink \in [TutorLinks -> {"none", "stored", "sent", "spent"}]
    /\ tutorCall \in [TutorCalls -> TutorSlot]
    /\ opening \in SUBSET TutorTokens
    /\ tutorRequests \in 0..MaxTutorCalls /\ tutorFaults \in 0..MaxTutorFaults
    /\ decisions \in 0..MaxDecisions
  BY DEF TutorTypeOK, TutorToken, TutorSlot

LEMMA TutorCalmUses ==
  ASSUME TutorTokensFade, TutorLinksFade
  PROVE  TutorUsed' = TutorUsed /\ TutorUsedLinks' = TutorUsedLinks
  BY
    DEF TutorTokensFade, TutorLinksFade, TutorUsed, TutorUsedLinks, TutorTokens, TutorLinks

LEMMA IdleTutorTyped == IdleTutorCall \in TutorSlot
  BY DEF IdleTutorCall, TutorSlot, TutorCallNames

LEMMA TutorInitInv == TutorInit => TutorInv
<1> SUFFICES ASSUME TutorInit PROVE TutorInv
  OBVIOUS
<1> USE DEF TutorInit
<1>1. TutorTypeOK
  <2>1. NoTutorToken \in TutorToken
    BY DEF TutorToken
  <2>2. 0 \in 0..MaxTutorCalls /\ 0 \in 0..MaxTutorFaults /\ 0 \in 0..MaxDecisions
    BY TutorBounds
  <2> QED BY <2>1, <2>2, IdleTutorTyped, TutorTyped
<1>2. TutorUsed = {} /\ TutorUsedLinks = {} /\ TutorBusy = {} /\ TutorLinking = {}
  BY DEF TutorUsed, TutorUsedLinks, TutorBusy, TutorLinking, IdleTutorCall
<1>3. TutorBudget
  BY <1>2, FS_EmptySet DEF TutorBudget, Numbered
<1>4. ASSUME NEW q \in TutorCalls PROVE TutorCallOK(q)
  BY DEF TutorCallOK, IdleTutorCall, KnownCalls, SecretCalls, MailedCalls, ExchangeCalls
<1>5. TutorFresh
  BY DEF TutorFresh, Registered
<1> QED BY <1>1, <1>2, <1>3, <1>4, <1>5 DEF TutorInv

LEMMA TutorCalmKeeps ==
  ASSUME TutorInv, TutorCalm
  PROVE  TutorInv'
<1> USE DEF TutorInv
<1>0. TutorTypeOK
  OBVIOUS
<1>1. TutorUsed' = TutorUsed /\ TutorUsedLinks' = TutorUsedLinks
  BY TutorCalmUses DEF TutorCalm
<1>2. TutorTypeOK'
  BY <1>0, TutorTyped DEF TutorTypeOK, TutorCalm, TutorTokensFade, TutorLinksFade,
     TutorStays, TutorToken, TutorSlot
<1>3. TutorBusy' \subseteq TutorBusy /\ TutorLinking' \subseteq TutorLinking
  BY DEF TutorCalm, TutorSlotGoesOn, TutorBusy, TutorLinking
<1>4. IsFiniteSet(TutorBusy) /\ IsFiniteSet(TutorLinking)
  BY TutorCallsFinite, FS_Subset DEF TutorBusy, TutorLinking
<1>5. TutorBudget'
  <2>1. /\ Cardinality(TutorBusy') \in Nat /\ Cardinality(TutorBusy) \in Nat
        /\ Cardinality(TutorBusy') <= Cardinality(TutorBusy)
    BY <1>3, <1>4, NoMore
  <2>2. /\ Cardinality(TutorLinking') \in Nat /\ Cardinality(TutorLinking) \in Nat
        /\ Cardinality(TutorLinking') <= Cardinality(TutorLinking)
    BY <1>3, <1>4, NoMore
  <2>3. Cardinality(TutorUsed) \in Nat /\ Cardinality(TutorUsedLinks) \in Nat
    BY FS_CardinalityType DEF TutorBudget, Numbered
  <2>4. tutorRequests \in Nat /\ tutorRequests' = tutorRequests
    BY <1>0 DEF TutorCalm, TutorTypeOK
  <2> QED BY <1>1, <2>1, <2>2, <2>3, <2>4 DEF TutorBudget, Numbered
<1>6. ASSUME NEW r \in TutorCalls PROVE TutorCallOK(r)'
  <2>1. CASE TutorSlotGoesOn(r)
    BY <2>1 DEF TutorSlotGoesOn
  <2>2. CASE tutorCall'[r] = tutorCall[r]
    BY <2>2, <1>1 DEF TutorCallOK, TutorCalm, TutorStays
  <2> QED BY <2>1, <2>2 DEF TutorCalm
<1>7. TutorFresh' /\ (tutorMailed' \/ TutorUsed' # {} \/ TutorUsedLinks' # {} => TutorKnown')
  BY <1>1 DEF TutorCalm, TutorStays
<1>8. \A t \in TutorUsed' : TutorFamilyOf(t)' \in TutorUsed'
  BY <1>1 DEF TutorCalm, TutorTokensFade, TutorFamilyOf, TutorUsed
<1>9. decisions' = 0 => TutorUsed' \subseteq opening'
  BY <1>1 DEF TutorCalm, TutorTokensFade, TutorStays
<1> QED BY <1>2, <1>5, <1>6, <1>7, <1>8, <1>9

LEMMA TutorSlotEnds ==
  ASSUME TutorTypeOK, NEW q \in TutorCalls, TutorEnds(q)
  PROVE  /\ tutorCall' \in [TutorCalls -> TutorSlot] /\ TutorRest(q) /\ TutorSlotGoesOn(q)
         /\ tutorCall'[q] = IdleTutorCall
<1>1. /\ tutorCall' \in [TutorCalls -> TutorSlot] /\ TutorRest(q)
      /\ tutorCall'[q] = IdleTutorCall
  BY IdleTutorTyped, TutorTyped DEF TutorEnds, TutorRest
<1>2. TutorCallOK(q)'
  BY <1>1
    DEF TutorCallOK, IdleTutorCall, KnownCalls, SecretCalls, MailedCalls, ExchangeCalls
<1> QED BY <1>1, <1>2 DEF TutorSlotGoesOn, IdleTutorCall

LEMMA TutorSlotAwaits ==
  ASSUME TutorTypeOK, NEW q \in TutorCalls, NEW name \in TutorCallNames,
         TutorAwaits(q, name)
  PROVE  /\ tutorCall' \in [TutorCalls -> TutorSlot] /\ TutorRest(q)
         /\ tutorCall'[q].pc = name /\ tutorCall'[q].tok = tutorCall[q].tok
         /\ tutorCall'[q].link = tutorCall[q].link
         /\ tutorCall'[q].password = tutorCall[q].password
  BY TutorTyped DEF TutorAwaits, TutorRest, TutorSlot

LEMMA TutorTokensKept ==
  ASSUME TutorTypeOK, KeepTutorTokens PROVE TutorTokensFade
  BY TutorTyped DEF TutorTokensFade, KeepTutorTokens
LEMMA TutorLinksKept ==
  ASSUME TutorTypeOK, UNCHANGED tutorLink PROVE TutorLinksFade
  BY TutorTyped DEF TutorLinksFade
LEMMA TutorKept ==
  ASSUME TutorTypeOK, KeepTutor, UNCHANGED decisions PROVE TutorStays
  BY TutorTyped DEF TutorStays, KeepTutor, TutorKnown, TutorFresh, Registered

\* A document whose password or address is replaced keeps its status.
LEMMA TutorSaved ==
  ASSUME TutorTypeOK, TutorKnown, UNCHANGED <<decisions, tutorMailed>>,
         \/ \E p \in TutorPasswords : tutor' = [tutor EXCEPT !.password = p]
         \/ tutor' = [tutor EXCEPT !.verified = TRUE]
  PROVE  TutorStays /\ TutorKnown'
<1>1. tutor' \in Tutor /\ tutor'.status = tutor.status
  BY DEF TutorKnown, Tutor
<1> QED BY <1>1, TutorTyped DEF TutorStays, TutorKnown, TutorFresh

\* A request that holds no token and goes on to another call.
LEMMA TutorGoes ==
  ASSUME TutorInv, NEW q \in TutorCalls, NEW name \in TutorCallNames,
         tutorCall[q].pc \notin {"idle", "forget.mail", "grant"} \cup ExchangeCalls,
         tutorCall'[q].pc = name, name \notin ExchangeCalls,
         tutorCall'[q].tok = tutorCall[q].tok,
         name \in KnownCalls => TutorKnown',
         name \in SecretCalls => tutorCall'[q].password \in TutorPasswords,
         name \in MailedCalls => tutorCall'[q].link \in TutorUsedLinks',
         name = "grant" => decisions' # 0
  PROVE  TutorSlotGoesOn(q) /\ tutorCall'[q].tok = 0
  BY DEF TutorInv, TutorSlotGoesOn, TutorCallOK

----------------------------------------------------------------------------
(***************************************************************************)
(* The tutor's account: each step keeps the invariant.                     *)
(***************************************************************************)
TutorServes(q) ==
  /\ tutorCall' \in [TutorCalls -> TutorSlot] /\ TutorRest(q) /\ TutorSlotGoesOn(q)
  /\ TutorStays

TutorCalmStep(q) ==
  \/ TutorRegisterLookup(q) \/ TutorRegisterInsert(q) \/ TutorRegisterMail(q)
  \/ TutorVerifyRead(q) \/ TutorVerifySave(q) \/ TutorLogin(q)
  \/ TutorForgetRead(q) \/ TutorForgetInvalidate(q) \/ TutorForgetMail(q)
  \/ TutorResetRead(q) \/ TutorResetSave(q) \/ TutorResetMark(q)
  \/ TutorRefreshRead(q) \/ TutorRefreshRevoke(q) \/ TutorRefreshMark(q)
  \/ TutorRefreshTutor(q)

LEMMA TutorStops ==
  ASSUME TutorInv, NEW q \in TutorCalls, TutorEnds(q), TutorStays
  PROVE  TutorServes(q)
  BY TutorSlotEnds DEF TutorInv, TutorServes

LEMMA TutorRegisterServes ==
  ASSUME TutorInv, NEW q \in TutorCalls,
         TutorRegisterLookup(q) \/ TutorRegisterInsert(q) \/ TutorRegisterMail(q)
  PROVE  TutorServes(q)
<1> USE DEF TutorInv, TutorAt, KeepTutorBounds
<1>1. ASSUME TutorRegisterLookup(q) PROVE TutorServes(q)
  <2>1. TutorStays
    BY <1>1, TutorKept DEF TutorRegisterLookup
  <2>2. CASE TutorEnds(q)
    BY <2>1, <2>2, TutorStops
  <2>3. CASE TutorAwaits(q, "register.insert")
    <3>1. tutorCall[q].password \in TutorPasswords
      BY <1>1 DEF TutorRegisterLookup, TutorCallOK, SecretCalls
    <3>2. /\ tutorCall' \in [TutorCalls -> TutorSlot] /\ TutorRest(q)
          /\ tutorCall'[q].pc = "register.insert" /\ tutorCall'[q].tok = tutorCall[q].tok
          /\ tutorCall'[q].password = tutorCall[q].password
      BY <2>3, TutorSlotAwaits DEF TutorCallNames
    <3>3. TutorSlotGoesOn(q)
      BY <1>1, <3>1, <3>2, TutorGoes DEF TutorRegisterLookup, TutorCallNames, KnownCalls,
         SecretCalls, MailedCalls, ExchangeCalls
    <3> QED BY <2>1, <3>2, <3>3 DEF TutorServes
  <2> QED BY <1>1, <2>2, <2>3 DEF TutorRegisterLookup, TutorGoesOn
<1>2. ASSUME TutorRegisterInsert(q), Registered PROVE TutorServes(q)
  <2>1. TutorStays
    BY <1>2, TutorKept DEF TutorRegisterInsert, KeepTutor
  <2> QED BY <1>2, <2>1, TutorStops DEF TutorRegisterInsert, TutorGoesOn
<1>3. ASSUME TutorRegisterInsert(q), ~Registered PROVE TutorServes(q)
  <2>1. tutorCall[q].password \in TutorPasswords
    BY <1>3 DEF TutorRegisterInsert, TutorCallOK, SecretCalls
  <2>2. tutor' = NewTutor(tutorCall[q].password) /\ UNCHANGED <<decisions, tutorMailed>>
    BY <1>3 DEF TutorRegisterInsert
  <2>3. tutor' \in Tutor /\ tutor'.status = "pending"
    BY <2>1, <2>2 DEF NewTutor, Tutor
  <2>4. TutorStays /\ TutorKnown'
    BY <2>2, <2>3, TutorTyped DEF TutorStays, TutorKnown, TutorFresh
  <2>5. TutorAwaits(q, "register.mail")
    BY <1>3 DEF TutorRegisterInsert, TutorGoesOn
  <2>6. TutorSlotGoesOn(q) /\ tutorCall' \in [TutorCalls -> TutorSlot] /\ TutorRest(q)
    BY <1>3, <2>4, <2>5, TutorSlotAwaits, TutorGoes
      DEF TutorRegisterInsert, TutorCallNames,
       KnownCalls, SecretCalls, MailedCalls, ExchangeCalls
  <2> QED BY <2>4, <2>6 DEF TutorServes
<1>4. ASSUME TutorRegisterMail(q) PROVE TutorServes(q)
  <2>1. TutorKnown /\ UNCHANGED <<tutor, decisions>> /\ tutorMailed' = TRUE
        /\ TutorAwaits(q, "register.grant")
    BY <1>4 DEF TutorRegisterMail, TutorCallOK, KnownCalls
  <2>2. TutorStays /\ TutorKnown'
    BY <2>1, TutorTyped DEF TutorStays, TutorKnown, TutorFresh, Registered
  <2>3. TutorSlotGoesOn(q) /\ tutorCall' \in [TutorCalls -> TutorSlot] /\ TutorRest(q)
    BY <1>4, <2>1, <2>2, TutorSlotAwaits, TutorGoes DEF TutorRegisterMail, TutorCallNames,
       KnownCalls, SecretCalls, MailedCalls, ExchangeCalls
  <2> QED BY <2>2, <2>3 DEF TutorServes
<1> QED BY <1>1, <1>2, <1>3, <1>4

LEMMA TutorVerifyServes ==
  ASSUME TutorInv, NEW q \in TutorCalls,
         TutorVerifyRead(q) \/ TutorVerifySave(q) \/ TutorLogin(q)
  PROVE  TutorServes(q)
<1> USE DEF TutorInv, TutorAt, KeepTutorBounds
<1>1. ASSUME TutorVerifyRead(q) PROVE TutorServes(q)
  <2>1. TutorStays /\ TutorKnown /\ UNCHANGED <<tutor, decisions>>
    BY <1>1, TutorKept DEF TutorVerifyRead, TutorCallOK, KnownCalls, KeepTutor
  <2>2. CASE TutorEnds(q)
    BY <2>1, <2>2, TutorStops
  <2>3. CASE TutorAwaits(q, "verify.save")
    <3>1. TutorKnown'
      BY <2>1 DEF TutorKnown
    <3>2. TutorSlotGoesOn(q) /\ tutorCall' \in [TutorCalls -> TutorSlot] /\ TutorRest(q)
      BY <1>1, <2>3, <3>1, TutorSlotAwaits, TutorGoes DEF TutorVerifyRead, TutorCallNames,
         KnownCalls, SecretCalls, MailedCalls, ExchangeCalls
    <3> QED BY <2>1, <3>2 DEF TutorServes
  <2> QED BY <1>1, <2>2, <2>3 DEF TutorVerifyRead, TutorGoesOn
<1>2. ASSUME TutorVerifySave(q) PROVE TutorServes(q)
  <2>1. TutorKnown
    BY <1>2 DEF TutorVerifySave, TutorCallOK, KnownCalls
  <2>2. TutorStays
    BY <1>2, <2>1, TutorSaved DEF TutorVerifySave
  <2> QED BY <1>2, <2>2, TutorStops DEF TutorVerifySave
<1>3. ASSUME TutorLogin(q) PROVE TutorServes(q)
  <2>1. TutorStays /\ UNCHANGED decisions
    BY <1>3, TutorKept DEF TutorLogin
  <2>2. CASE TutorEnds(q)
    BY <2>1, <2>2, TutorStops
  <2>3. CASE TutorAwaits(q, "grant") /\ Registered /\ tutor.status = "active"
    <3>1. decisions # 0 /\ TutorKnown'
      BY <2>1, <2>3, TutorTyped DEF TutorFresh, TutorKnown, TutorStays, Registered
    <3>2. TutorSlotGoesOn(q) /\ tutorCall' \in [TutorCalls -> TutorSlot] /\ TutorRest(q)
      BY <1>3, <2>1, <2>3, <3>1, TutorSlotAwaits, TutorGoes
        DEF TutorLogin, TutorCallNames,
         KnownCalls, SecretCalls, MailedCalls, ExchangeCalls
    <3> QED BY <2>1, <3>2 DEF TutorServes
  <2> QED BY <1>3, <2>2, <2>3 DEF TutorLogin, TutorGoesOn
<1> QED BY <1>1, <1>2, <1>3

LEMMA TutorForgetServes ==
  ASSUME TutorInv, NEW q \in TutorCalls,
         TutorForgetRead(q) \/ TutorForgetInvalidate(q) \/ TutorForgetMail(q)
  PROVE  TutorServes(q)
<1> USE DEF TutorInv, TutorAt, KeepTutorBounds
<1>0. TutorStays /\ UNCHANGED <<tutor, decisions>>
  BY TutorKept DEF TutorForgetRead, TutorForgetInvalidate, TutorForgetMail, KeepTutor
<1>1. CASE TutorEnds(q)
  BY <1>0, <1>1, TutorStops
<1>2. ASSUME TutorForgetRead(q), Registered PROVE TutorServes(q)
  <2>1. TutorKnown'
    BY <1>0, <1>2, TutorTyped DEF TutorFresh, Registered, TutorKnown
  <2>2. TutorAwaits(q, "forget.invalidate")
    BY <1>2 DEF TutorForgetRead, TutorGoesOn
  <2>3. TutorSlotGoesOn(q) /\ tutorCall' \in [TutorCalls -> TutorSlot] /\ TutorRest(q)
    BY <1>2, <2>1, <2>2, TutorSlotAwaits, TutorGoes DEF TutorForgetRead, TutorCallNames,
       KnownCalls, SecretCalls, MailedCalls, ExchangeCalls
  <2> QED BY <1>0, <2>3 DEF TutorServes
<1>3. ASSUME TutorForgetInvalidate(q) PROVE TutorServes(q)
  <2>1. TutorKnown'
    BY <1>0, <1>3 DEF TutorForgetInvalidate, TutorCallOK, KnownCalls, TutorKnown
  <2>2. TutorAwaits(q, "forget.insert")
    BY <1>3 DEF TutorForgetInvalidate
  <2>3. TutorSlotGoesOn(q) /\ tutorCall' \in [TutorCalls -> TutorSlot] /\ TutorRest(q)
    BY <1>3, <2>1, <2>2, TutorSlotAwaits, TutorGoes
      DEF TutorForgetInvalidate, TutorCallNames,
       KnownCalls, SecretCalls, MailedCalls, ExchangeCalls
  <2> QED BY <1>0, <2>3 DEF TutorServes
<1> QED
  BY <1>1, <1>2, <1>3 DEF TutorForgetRead, TutorForgetMail, TutorGoesOn

LEMMA TutorResetServes ==
  ASSUME TutorInv, NEW q \in TutorCalls, TutorUsedLinks' = TutorUsedLinks,
         TutorResetRead(q) \/ TutorResetSave(q) \/ TutorResetMark(q)
  PROVE  TutorServes(q)
<1> USE DEF TutorInv, TutorAt, KeepTutorBounds
<1>1. ASSUME TutorResetRead(q) PROVE TutorServes(q)
  <2>1. TutorStays /\ UNCHANGED <<tutor, decisions>>
    BY <1>1, TutorKept DEF TutorResetRead, KeepTutor
  <2>2. CASE TutorEnds(q)
    BY <2>1, <2>2, TutorStops
  <2>3. CASE TutorAwaits(q, "reset.save")
    <3>1. /\ tutorCall[q].link \in TutorUsedLinks
          /\ tutorCall[q].password \in TutorPasswords
      BY <1>1 DEF TutorResetRead, TutorCallOK, MailedCalls, SecretCalls
    <3>2. TutorKnown'
      BY <2>1, <3>1 DEF TutorKnown
    <3>3. TutorSlotGoesOn(q) /\ tutorCall' \in [TutorCalls -> TutorSlot] /\ TutorRest(q)
      BY <1>1, <2>3, <3>1, <3>2, TutorSlotAwaits, TutorGoes DEF TutorResetRead,
         TutorCallNames, KnownCalls, SecretCalls, MailedCalls, ExchangeCalls
    <3> QED BY <2>1, <3>3 DEF TutorServes
  <2> QED BY <1>1, <2>2, <2>3 DEF TutorResetRead, TutorGoesOn
<1>2. ASSUME TutorResetSave(q) PROVE TutorServes(q)
  <2>1. /\ TutorKnown /\ tutorCall[q].link \in TutorUsedLinks
        /\ tutorCall[q].password \in TutorPasswords
    BY <1>2 DEF TutorResetSave, TutorCallOK, KnownCalls, MailedCalls, SecretCalls
  <2>2. TutorStays
    BY <1>2, <2>1, TutorSaved DEF TutorResetSave
  <2>3. TutorAwaits(q, "reset.mark")
    BY <1>2 DEF TutorResetSave
  <2>4. TutorSlotGoesOn(q) /\ tutorCall' \in [TutorCalls -> TutorSlot] /\ TutorRest(q)
    BY <1>2, <2>1, <2>3, TutorSlotAwaits, TutorGoes DEF TutorResetSave,
       TutorCallNames, KnownCalls, SecretCalls, MailedCalls, ExchangeCalls
  <2> QED BY <2>2, <2>4 DEF TutorServes
<1>3. ASSUME TutorResetMark(q) PROVE TutorServes(q)
  <2>1. TutorStays
    BY <1>3, TutorKept DEF TutorResetMark
  <2> QED BY <1>3, <2>1, TutorStops DEF TutorResetMark
<1> QED BY <1>1, <1>2, <1>3

LEMMA TutorRefreshServes ==
  ASSUME TutorInv, NEW q \in TutorCalls, TutorUsed' = TutorUsed,
         \/ TutorRefreshRead(q) \/ TutorRefreshRevoke(q)
         \/ TutorRefreshMark(q) \/ TutorRefreshTutor(q)
  PROVE  TutorServes(q)
<1> USE DEF TutorInv, TutorAt, KeepTutorBounds
<1>1. /\ TutorStays /\ UNCHANGED decisions /\ tutorCall[q].pc \in ExchangeCalls
      /\ TutorKnown => TutorKnown'
  BY TutorKept
    DEF TutorStays, TutorRefreshRead, TutorRefreshRevoke, TutorRefreshMark, TutorRefreshTutor,
     ExchangeCalls
<1>2. CASE TutorEnds(q)
  BY <1>1, <1>2, TutorStops
<1>3. ASSUME NEW name \in {"refresh.revoke", "refresh.mark", "refresh.tutor", "grant"},
             TutorAwaits(q, name), name = "grant" => decisions # 0
      PROVE  TutorServes(q)
  <2>1. tutorCall[q].tok # 0 /\ tutorCall[q].tok \in TutorUsed
    BY <1>1 DEF TutorCallOK
  <2>2. name \in TutorCallNames
    BY DEF TutorCallNames
  <2>3. /\ tutorCall' \in [TutorCalls -> TutorSlot] /\ TutorRest(q)
        /\ tutorCall'[q].pc = name /\ tutorCall'[q].tok = tutorCall[q].tok
    BY <1>3, <2>2, TutorSlotAwaits
  <2>4. TutorCallOK(q)'
    <3>1. TutorKnown'
      BY <1>1, <2>1
    <3> QED BY <1>1, <1>3, <2>1, <2>3, <3>1
        DEF TutorCallOK, KnownCalls, SecretCalls, MailedCalls, ExchangeCalls
  <2> QED BY <1>1, <2>3, <2>4 DEF TutorServes, TutorSlotGoesOn, ExchangeCalls
<1>4. ASSUME TutorRefreshTutor(q), tutor.status = "active" PROVE decisions # 0
  BY <1>1, <1>4 DEF TutorCallOK, TutorKnown
<1> QED
  BY <1>2, <1>3, <1>4 DEF TutorRefreshRead, TutorRefreshRevoke, TutorRefreshMark,
     TutorRefreshTutor, TutorGoesOn

LEMMA FadedTutorToken ==
  ASSUME NEW r \in TutorToken, r # NoTutorToken, NEW w \in {"revoked", "gone"}
  PROVE  /\ [r EXCEPT !.state = w] \in TutorToken
         /\ [r EXCEPT !.state = w] # NoTutorToken
         /\ [r EXCEPT !.state = w].family = r.family
         /\ [r EXCEPT !.state = w].state = w
  BY DEF TutorToken, NoTutorToken

LEMMA TutorTokensSet ==
  ASSUME TutorTypeOK, NEW T \in SUBSET TutorTokens, NEW w \in {"revoked", "gone"},
         \A t \in T : tutorRefresh[t].state \in {"live", "revoked"},
         tutorRefresh' = [t \in TutorTokens |->
                            IF t \in T THEN [tutorRefresh[t] EXCEPT !.state = w]
                                       ELSE tutorRefresh[t]],
         opening' = opening
  PROVE  TutorTokensFade
<1>1. ASSUME NEW t \in T
      PROVE  /\ tutorRefresh[t] # NoTutorToken
             /\ [tutorRefresh[t] EXCEPT !.state = w] \in TutorToken
             /\ [tutorRefresh[t] EXCEPT !.state = w] # NoTutorToken
             /\ [tutorRefresh[t] EXCEPT !.state = w].family = tutorRefresh[t].family
             /\ [tutorRefresh[t] EXCEPT !.state = w].state = w
  <2>1. t \in TutorTokens /\ tutorRefresh[t] \in TutorToken
    BY TutorTyped
  <2>2. tutorRefresh[t] # NoTutorToken
    BY DEF NoTutorToken
  <2> QED BY <2>1, <2>2, FadedTutorToken
<1>2. ASSUME NEW t \in TutorTokens
      PROVE  /\ tutorRefresh'[t] \in TutorToken
             /\ tutorRefresh'[t] = NoTutorToken <=> tutorRefresh[t] = NoTutorToken
             /\ tutorRefresh'[t].family = tutorRefresh[t].family
             /\ tutorRefresh'[t].state = "live" => tutorRefresh[t].state = "live"
  <2>1. CASE t \in T
    BY <1>1, <2>1
  <2>2. CASE t \notin T
    BY <2>2, TutorTyped
  <2> QED BY <2>1, <2>2
<1>3. tutorRefresh' = [t \in TutorTokens |-> tutorRefresh'[t]]
  OBVIOUS
<1>4. tutorRefresh' \in [TutorTokens -> TutorToken]
  BY <1>2, <1>3
<1> QED BY <1>2, <1>4 DEF TutorTokensFade

LEMMA TutorTokensServed ==
  ASSUME TutorInv, NEW q \in TutorCalls, TutorCalmStep(q)
  PROVE  TutorTokensFade
<1> USE DEF TutorInv
<1>0. TutorTypeOK
  OBVIOUS
<1>1. CASE KeepTutorTokens
  BY <1>0, <1>1, TutorTokensKept
<1>2. ASSUME TutorRefreshRevoke(q) PROVE TutorTokensFade
  <2> DEFINE T == {t \in TutorTokens : /\ TutorStored(t)
                                       /\ TutorFamilyOf(t) = TutorFamilyOf(tutorCall[q].tok)}
  <2>1. tutorRefresh' = [t \in TutorTokens |->
                           IF t \in T THEN [tutorRefresh[t] EXCEPT !.state = "revoked"]
                                      ELSE tutorRefresh[t]]
    BY <1>2 DEF TutorRefreshRevoke
  <2>2. /\ T \in SUBSET TutorTokens /\ opening' = opening
        /\ \A t \in T : tutorRefresh[t].state \in {"live", "revoked"}
    BY <1>2 DEF TutorRefreshRevoke, TutorStored
  <2> HIDE DEF T
  <2> QED BY <1>0, <2>1, <2>2, TutorTokensSet
<1>3. ASSUME TutorRefreshMark(q), TutorStored(tutorCall[q].tok) PROVE TutorTokensFade
  <2> DEFINE T == {tutorCall[q].tok}
  <2>1. tutorCall[q].tok \in TutorTokens
    BY <1>3 DEF TutorRefreshMark, TutorAt, TutorCallOK, ExchangeCalls, TutorUsed
  <2>2. tutorRefresh' = [t \in TutorTokens |->
                           IF t \in T THEN [tutorRefresh[t] EXCEPT !.state = "revoked"]
                                      ELSE tutorRefresh[t]]
    BY <1>0, <1>3, <2>1 DEF TutorRefreshMark, TutorTypeOK
  <2>3. /\ T \in SUBSET TutorTokens /\ opening' = opening
        /\ \A t \in T : tutorRefresh[t].state \in {"live", "revoked"}
    BY <1>3, <2>1 DEF TutorStored, TutorRefreshMark
  <2> HIDE DEF T
  <2> QED BY <1>0, <2>2, <2>3, TutorTokensSet
<1>4. ASSUME TutorRefreshMark(q), ~TutorStored(tutorCall[q].tok) PROVE TutorTokensFade
  <2>1. tutorRefresh' = tutorRefresh /\ opening' = opening
    <3>1. tutorCall[q].tok \in TutorTokens
      BY <1>4 DEF TutorRefreshMark, TutorAt, TutorCallOK, ExchangeCalls, TutorUsed
    <3>2. tutorRefresh[tutorCall[q].tok] \in TutorToken
      BY <1>0, <3>1, TutorTyped
    <3>3. /\ DOMAIN tutorRefresh' = TutorTokens
          /\ \A u \in TutorTokens : u # tutorCall[q].tok => tutorRefresh'[u] = tutorRefresh[u]
          /\ tutorRefresh'[tutorCall[q].tok] =
               [tutorRefresh[tutorCall[q].tok] EXCEPT !.state =
                  tutorRefresh[tutorCall[q].tok].state]
          /\ tutorRefresh' = [u \in TutorTokens |-> tutorRefresh'[u]]
      BY <1>0, <1>4, <3>1, TutorTyped DEF TutorRefreshMark
    <3>4. tutorRefresh'[tutorCall[q].tok] = tutorRefresh[tutorCall[q].tok]
      BY <3>2, <3>3 DEF TutorToken, NoTutorToken
    <3>5. opening' = opening
      BY <1>4 DEF TutorRefreshMark
    <3>6. tutorRefresh = [u \in TutorTokens |-> tutorRefresh[u]]
      BY <1>0, TutorTyped
    <3> QED BY <3>3, <3>4, <3>5, <3>6
  <2> QED BY <1>0, <2>1, TutorTokensKept DEF KeepTutorTokens
<1> QED
  BY <1>1, <1>2, <1>3, <1>4
    DEF TutorCalmStep, TutorRegisterLookup, TutorRegisterInsert, TutorRegisterMail,
     TutorVerifyRead, TutorVerifySave, TutorLogin, TutorForgetRead, TutorForgetInvalidate,
     TutorForgetMail, TutorResetRead, TutorResetSave, TutorResetMark, TutorRefreshRead,
     TutorRefreshRevoke, TutorRefreshMark, TutorRefreshTutor

LEMMA TutorLinksServed ==
  ASSUME TutorInv, NEW q \in TutorCalls, TutorCalmStep(q)
  PROVE  TutorLinksFade
<1> USE DEF TutorInv
<1>0. TutorTypeOK
  OBVIOUS
<1>1. CASE UNCHANGED tutorLink
  BY <1>0, <1>1, TutorLinksKept
<1>2. CASE TutorForgetInvalidate(q)
  BY <1>0, <1>2 DEF TutorForgetInvalidate, TutorLinksFade, TutorTypeOK
<1>3. CASE TutorForgetMail(q)
  BY <1>0, <1>3 DEF TutorForgetMail, TutorLinksFade, TutorTypeOK
<1>4. ASSUME TutorResetMark(q) PROVE TutorLinksFade
  <2>1. tutorCall[q].link \in TutorLinks /\ tutorLink[tutorCall[q].link] # "none"
    BY <1>4 DEF TutorResetMark, TutorAt, TutorCallOK, MailedCalls, TutorUsedLinks
  <2> QED BY <1>0, <1>4, <2>1 DEF TutorResetMark, TutorLinksFade, TutorTypeOK
<1> QED
  BY <1>1, <1>2, <1>3, <1>4
    DEF TutorCalmStep, TutorRegisterLookup, TutorRegisterInsert, TutorRegisterMail,
     TutorVerifyRead, TutorVerifySave, TutorLogin, TutorForgetRead, TutorForgetInvalidate,
     TutorForgetMail, TutorResetRead, TutorResetSave, TutorResetMark, TutorRefreshRead,
     TutorRefreshRevoke, TutorRefreshMark, TutorRefreshTutor

LEMMA TutorServedCalm ==
  ASSUME TutorInv, NEW q \in TutorCalls, TutorCalmStep(q)
  PROVE  TutorCalm /\ TutorRest(q)
<1>1. TutorTokensFade /\ TutorLinksFade
  BY TutorTokensServed, TutorLinksServed
<1>2. TutorUsed' = TutorUsed /\ TutorUsedLinks' = TutorUsedLinks
  BY <1>1, TutorCalmUses
<1>3. TutorServes(q)
  BY <1>2, TutorRegisterServes, TutorVerifyServes, TutorForgetServes, TutorResetServes,
     TutorRefreshServes DEF TutorCalmStep
<1>4. KeepTutorBounds
  BY DEF TutorCalmStep, TutorRegisterLookup, TutorRegisterInsert, TutorRegisterMail,
     TutorVerifyRead, TutorVerifySave, TutorLogin, TutorForgetRead, TutorForgetInvalidate,
     TutorForgetMail, TutorResetRead, TutorResetSave, TutorResetMark, TutorRefreshRead,
     TutorRefreshRevoke, TutorRefreshMark, TutorRefreshTutor
<1>5. tutorRequests' = tutorRequests /\ tutorFaults' \in 0..MaxTutorFaults
  BY <1>4 DEF KeepTutorBounds, TutorInv, TutorTypeOK
<1> QED BY <1>1, <1>3, <1>5 DEF TutorServes, TutorRest, TutorCalm

\* Time, logouts, decisions, failed calls and stops of the process.
LEMMA TutorAsideCalm ==
  ASSUME TutorInv,
         \/ TutorProcessStops
         \/ \E t \in TutorTokens : TutorLogout(t) \/ TutorTokenExpires(t)
         \/ \E k \in TutorLinks : TutorLinkExpires(k)
         \/ \E status \in {"active", "suspended"} : SupportDecides(status)
         \/ \E q \in TutorCalls : TutorCallFails(q)
  PROVE  TutorCalm
<1> USE DEF TutorInv
<1>0. TutorTypeOK /\ tutorCall \in [TutorCalls -> TutorSlot] /\ tutorRequests' = tutorRequests
  BY TutorTyped DEF TutorProcessStops, TutorLogout, TutorTokenExpires, TutorLinkExpires,
     SupportDecides, TutorCallFails, KeepTutorBounds
<1>1. CASE TutorProcessStops
  <2>1. tutorCall' = [r \in TutorCalls |-> IdleTutorCall]
    BY <1>1 DEF TutorProcessStops
  <2>2. \A r \in TutorCalls : TutorSlotGoesOn(r)
    BY <2>1 DEF TutorSlotGoesOn, TutorCallOK, IdleTutorCall, KnownCalls, SecretCalls,
       MailedCalls, ExchangeCalls
  <2>3. TutorTokensFade /\ TutorLinksFade /\ TutorStays
    BY <1>0, <1>1, TutorTokensKept, TutorLinksKept, TutorKept DEF TutorProcessStops
  <2>4. tutorFaults' \in 0..MaxTutorFaults
    BY <1>0, <1>1, TutorBounds DEF TutorProcessStops, TutorFault, TutorTypeOK
  <2> QED BY <1>0, <2>1, <2>2, <2>3, <2>4, IdleTutorTyped DEF TutorCalm
<1>2. ASSUME NEW t \in TutorTokens, TutorLogout(t) \/ TutorTokenExpires(t) PROVE TutorCalm
  <2>1. PICK w \in {"revoked", "gone"} :
          /\ tutorRefresh' = [tutorRefresh EXCEPT ![t].state = w]
          /\ tutorRefresh[t].state \in {"live", "revoked"}
          /\ KeepTutor /\ KeepTutorBounds /\ UNCHANGED <<opening, tutorLink, tutorCall>>
    BY <1>2 DEF TutorLogout, TutorTokenExpires, TutorStored
  <2> DEFINE T == {t}
  <2>2. tutorRefresh' = [u \in TutorTokens |->
                           IF u \in T THEN [tutorRefresh[u] EXCEPT !.state = w]
                                      ELSE tutorRefresh[u]]
    BY <1>0, <2>1 DEF TutorTypeOK
  <2>3. T \in SUBSET TutorTokens /\ opening' = opening
        /\ \A u \in T : tutorRefresh[u].state \in {"live", "revoked"}
    BY <2>1
  <2> HIDE DEF T
  <2>4. TutorTokensFade
    BY <1>0, <2>2, <2>3, TutorTokensSet
  <2>5. TutorLinksFade /\ TutorStays
    BY <1>0, <2>1, TutorLinksKept, TutorKept DEF KeepTutorBounds
  <2> QED BY <1>0, <2>1, <2>4, <2>5 DEF TutorCalm, KeepTutorBounds, TutorTypeOK
<1>3. ASSUME NEW k \in TutorLinks, TutorLinkExpires(k) PROVE TutorCalm
  <2>1. TutorLinksFade
    BY <1>0, <1>3 DEF TutorLinkExpires, TutorLinksFade, TutorTypeOK
  <2>2. TutorTokensFade /\ TutorStays
    BY <1>0, <1>3, TutorTokensKept, TutorKept DEF TutorLinkExpires, KeepTutorBounds
  <2> QED BY <1>0, <1>3, <2>1, <2>2 DEF TutorCalm, TutorLinkExpires, KeepTutorBounds,
    TutorTypeOK
<1>4. ASSUME NEW status \in {"active", "suspended"}, SupportDecides(status) PROVE TutorCalm
  <2>1. tutor \in Tutor
    BY <1>0, <1>4 DEF SupportDecides, Registered, TutorTypeOK
  <2>2. tutor' \in Tutor /\ UNCHANGED tutorMailed
    BY <1>4, <2>1 DEF SupportDecides, Tutor
  <2>3. decisions' \in 0..MaxDecisions /\ decisions' # 0
    BY <1>0, <1>4, TutorBounds DEF SupportDecides, TutorTypeOK
  <2>4. TutorStays
    BY <1>0, <2>2, <2>3 DEF TutorStays, TutorKnown, TutorFresh, TutorTypeOK
  <2>5. TutorTokensFade /\ TutorLinksFade
    BY <1>0, <1>4, TutorTokensKept, TutorLinksKept DEF SupportDecides
  <2> QED BY <1>0, <1>4, <2>4, <2>5 DEF TutorCalm, SupportDecides, TutorTypeOK
<1>5. ASSUME NEW q \in TutorCalls, TutorCallFails(q) PROVE TutorCalm
  <2>1. /\ tutorCall' \in [TutorCalls -> TutorSlot] /\ TutorRest(q) /\ TutorSlotGoesOn(q)
    BY <1>0, <1>5, TutorSlotEnds DEF TutorCallFails
  <2>2. TutorTokensFade /\ TutorLinksFade /\ TutorStays
    BY <1>0, <1>5, TutorTokensKept, TutorLinksKept, TutorKept DEF TutorCallFails
  <2>3. tutorFaults' \in 0..MaxTutorFaults
    BY <1>0, <1>5, TutorBounds DEF TutorCallFails, TutorFault, TutorTypeOK
  <2> QED BY <1>0, <2>1, <2>2, <2>3 DEF TutorCalm, TutorRest
<1> QED BY <1>1, <1>2, <1>3, <1>4, <1>5

LEMMA TutorStartKeeps ==
  ASSUME TutorInv, NEW q \in TutorCalls, NEW route \in TutorRoutes, StartTutorCall(q, route)
  PROVE  /\ TutorInv' /\ tutorCall'[q].pc = route /\ TutorRest(q)
<1> USE DEF TutorInv
<1>0. TutorTypeOK /\ tutorCall \in [TutorCalls -> TutorSlot]
  BY TutorTyped
<1>1. /\ tutorCall[q].pc = "idle" /\ tutorRequests < MaxTutorCalls
      /\ tutorRequests' = tutorRequests + 1
      /\ route = "verify.read" => tutorMailed
      /\ UNCHANGED <<tutor, tutorMailed, tutorRefresh, opening, tutorLink, tutorFaults,
                     decisions>>
  BY DEF StartTutorCall, TutorAt, KeepTutor, KeepTutorTokens
<1>2. PICK p \in TutorPasswords \cup {NoTutor}, t \in TutorUsed \cup {0},
           k \in TutorUsedLinks \cup {0} :
        /\ route \in {"register.lookup", "login.read", "reset.read"} => p \in TutorPasswords
        /\ (route = "refresh.read") = (t # 0)
        /\ route = "reset.read" => k \in TutorUsedLinks
        /\ tutorCall' = [tutorCall EXCEPT ![q] = [pc |-> route, tok |-> t, link |-> k,
                                                  password |-> p]]
  <2>1. 0 \notin TutorUsed
    BY DEF TutorUsed, TutorTokens
  <2> QED BY <2>1 DEF StartTutorCall, TutorUsed, TutorUsedLinks
<1>3. TutorUsed' = TutorUsed /\ TutorUsedLinks' = TutorUsedLinks /\ TutorKnown' = TutorKnown
  BY <1>1 DEF TutorUsed, TutorUsedLinks, TutorKnown
<1>4. /\ tutorCall'[q] = [pc |-> route, tok |-> t, link |-> k, password |-> p]
      /\ TutorRest(q)
  BY <1>0, <1>2 DEF TutorRest
<1>5. TutorTypeOK'
  <2>1. route \in TutorCallNames
    BY DEF TutorRoutes, TutorCallNames
  <2>2. [pc |-> route, tok |-> t, link |-> k, password |-> p] \in TutorSlot
    BY <1>2, <2>1 DEF TutorSlot, TutorUsed, TutorUsedLinks
  <2>3. tutorCall' \in [TutorCalls -> TutorSlot]
    BY <1>0, <1>2, <2>2
  <2>4. tutorRequests' \in 0..MaxTutorCalls
    BY <1>0, <1>1, TutorBounds DEF TutorTypeOK
  <2> QED BY <1>0, <1>1, <2>3, <2>4 DEF TutorTypeOK, TutorSlot
<1>6. TutorBudget'
  <2>1. /\ q \notin TutorBusy /\ TutorBusy' = TutorBusy \cup {q}
        /\ q \notin TutorLinking /\ TutorLinking' = TutorLinking \cup {q}
    BY <1>1, <1>4 DEF TutorBusy, TutorLinking, TutorRoutes, TutorRest
  <2>2. IsFiniteSet(TutorBusy) /\ IsFiniteSet(TutorLinking)
    BY TutorCallsFinite, FS_Subset DEF TutorBusy, TutorLinking
  <2>3. Cardinality(TutorBusy') = Cardinality(TutorBusy) + 1 /\ Cardinality(TutorBusy) \in Nat
    BY <2>1, <2>2, OneMore
  <2>4. /\ Cardinality(TutorLinking') = Cardinality(TutorLinking) + 1
        /\ Cardinality(TutorLinking) \in Nat
    BY <2>1, <2>2, OneMore
  <2>5. Cardinality(TutorUsed) \in Nat /\ Cardinality(TutorUsedLinks) \in Nat
    BY FS_CardinalityType DEF TutorBudget, Numbered
  <2>6. tutorRequests \in Nat
    BY <1>0 DEF TutorTypeOK
  <2> QED BY <1>1, <1>3, <2>3, <2>4, <2>5, <2>6 DEF TutorBudget
<1>7. ASSUME NEW r \in TutorCalls PROVE TutorCallOK(r)'
  <2>1. CASE r # q
    BY <1>1, <1>3, <1>4, <2>1 DEF TutorCallOK, TutorRest
  <2>2. CASE r = q
    <3>1. /\ tutorCall'[q].pc = route /\ tutorCall'[q].tok = t
          /\ tutorCall'[q].link = k /\ tutorCall'[q].password = p
      BY <1>4
    <3>2. route \in KnownCalls => TutorKnown'
      BY <1>1, <1>3 DEF TutorRoutes, KnownCalls
    <3> QED BY <1>2, <1>3, <2>2, <3>1, <3>2 DEF TutorCallOK, TutorRoutes,
      SecretCalls, MailedCalls, ExchangeCalls
  <2> QED BY <2>1, <2>2
<1>8. /\ TutorFresh'
      /\ tutorMailed' \/ TutorUsed' # {} \/ TutorUsedLinks' # {} => TutorKnown'
      /\ \A u \in TutorUsed' : TutorFamilyOf(u)' \in TutorUsed'
      /\ decisions' = 0 => TutorUsed' \subseteq opening'
  BY <1>1, <1>3 DEF TutorFresh, Registered, TutorFamilyOf
<1> QED BY <1>4, <1>5, <1>6, <1>7, <1>8

LEMMA NextTutorTokenIsNew ==
  ASSUME TutorInv, NEW q \in TutorCalls, tutorCall[q].pc # "idle"
  PROVE  /\ NextTutorToken \in TutorTokens /\ NextTutorToken \notin TutorUsed
         /\ NextTutorToken = 1 + Cardinality(TutorUsed)
         /\ Numbered(TutorUsed \cup {NextTutorToken})
         /\ Cardinality(TutorUsed \cup {NextTutorToken}) = Cardinality(TutorUsed) + 1
         /\ Cardinality(TutorUsed) \in Nat
<1>1. NextTutorToken = 1 + Cardinality(TutorUsed)
  BY DEF NextTutorToken, TutorUsed
<1>2. Numbered(TutorUsed)
  BY DEF TutorInv, TutorBudget
<1>3. IsFiniteSet(TutorBusy) /\ q \in TutorBusy
  BY TutorCallsFinite, FS_Subset DEF TutorBusy
<1>4. Cardinality(TutorBusy) > 0 /\ Cardinality(TutorBusy) \in Nat
  BY <1>3, OneLess
<1>5. /\ Cardinality(TutorUsed) + Cardinality(TutorBusy) <= tutorRequests
      /\ tutorRequests \in 0..MaxTutorCalls /\ MaxTutorCalls \in Nat
  BY TutorBounds DEF TutorInv, TutorBudget, TutorTypeOK
<1>6. Cardinality(TutorUsed) \in Nat
  BY <1>2, NextNumber
<1>7. NextTutorToken \in TutorTokens
  BY <1>1, <1>4, <1>5, <1>6 DEF TutorTokens
<1> QED BY <1>1, <1>2, <1>7, NextNumber

LEMMA TutorGrantKeeps ==
  ASSUME TutorInv, NEW q \in TutorCalls, TutorGrant(q)
  PROVE  TutorInv' /\ TutorRest(q) /\ tutorCall'[q] = IdleTutorCall
<1> USE DEF TutorInv
<1> DEFINE family == IF tutorCall[q].tok = 0 THEN NextTutorToken
                                             ELSE TutorFamilyOf(tutorCall[q].tok)
           new == [state |-> "live", family |-> family]
<1>0. TutorTypeOK
  OBVIOUS
<1>1. /\ tutorCall[q].pc \in {"register.grant", "grant"} /\ TutorEnds(q)
      /\ tutorRefresh' = [tutorRefresh EXCEPT ![NextTutorToken] = new]
      /\ opening' = IF tutorCall[q].pc = "register.grant"
                      THEN opening \cup {NextTutorToken} ELSE opening
      /\ UNCHANGED <<tutor, tutorMailed, tutorLink, tutorRequests, tutorFaults, decisions>>
  BY DEF TutorGrant, TutorAt, KeepTutor, KeepTutorBounds
<1>2. NextTutorToken \in TutorTokens /\ NextTutorToken \notin TutorUsed
  BY <1>1, NextTutorTokenIsNew
<1>3. /\ tutorCall' \in [TutorCalls -> TutorSlot] /\ TutorRest(q) /\ TutorSlotGoesOn(q)
      /\ tutorCall'[q] = IdleTutorCall
  BY <1>0, <1>1, TutorSlotEnds
<1>4. family \in TutorUsed \cup {NextTutorToken}
  BY DEF TutorCallOK
<1>5. new \in TutorToken /\ new # NoTutorToken
  BY <1>2, <1>4 DEF TutorToken, NoTutorToken, TutorUsed
<1> HIDE DEF new, family
<1>6. /\ tutorRefresh' \in [TutorTokens -> TutorToken] /\ tutorRefresh'[NextTutorToken] = new
      /\ \A t \in TutorTokens : t # NextTutorToken => tutorRefresh'[t] = tutorRefresh[t]
  BY <1>0, <1>1, <1>2, <1>5, TutorTyped
<1>7. TutorUsed' = TutorUsed \cup {NextTutorToken} /\ TutorUsedLinks' = TutorUsedLinks
  BY <1>1, <1>2, <1>5, <1>6 DEF TutorUsed, TutorUsedLinks
<1>8. TutorTypeOK'
  <2>1. opening' \in SUBSET TutorTokens
    BY <1>0, <1>1, <1>2, TutorTyped
  <2> QED BY <1>0, <1>1, <1>3, <1>6, <2>1 DEF TutorTypeOK, TutorToken, TutorSlot
<1>9. TutorBudget'
  <2>1. q \in TutorBusy /\ TutorBusy' = TutorBusy \ {q} /\ TutorLinking' \subseteq TutorLinking
    BY <1>1, <1>3 DEF TutorRest, TutorBusy, TutorLinking, IdleTutorCall
  <2>2. IsFiniteSet(TutorBusy) /\ IsFiniteSet(TutorLinking)
    BY TutorCallsFinite, FS_Subset DEF TutorBusy, TutorLinking
  <2>3. Cardinality(TutorBusy') = Cardinality(TutorBusy) - 1 /\ Cardinality(TutorBusy) \in Nat
    BY <2>1, <2>2, OneLess
  <2>4. /\ Cardinality(TutorLinking') \in Nat /\ Cardinality(TutorLinking) \in Nat
        /\ Cardinality(TutorLinking') <= Cardinality(TutorLinking)
    BY <2>1, <2>2, NoMore
  <2>5. /\ Cardinality(TutorUsedLinks) \in Nat /\ Cardinality(TutorUsed) \in Nat
        /\ Cardinality(TutorUsed') = Cardinality(TutorUsed) + 1
        /\ Numbered(TutorUsed')
    BY <1>1, <1>7, NextTutorTokenIsNew, FS_CardinalityType DEF TutorBudget, Numbered
  <2>6. tutorRequests \in Nat /\ tutorRequests' = tutorRequests
    BY <1>0, <1>1 DEF TutorTypeOK
  <2> QED BY <1>7, <2>3, <2>4, <2>5, <2>6 DEF TutorBudget
<1>10. TutorKnown
  BY <1>1 DEF TutorCallOK, KnownCalls
<1>11. TutorKnown' /\ TutorFresh'
  BY <1>1, <1>10 DEF TutorKnown, TutorFresh
<1>12. ASSUME NEW r \in TutorCalls PROVE TutorCallOK(r)'
  <2>1. CASE r # q
    BY <1>1, <1>3, <1>7, <1>11, <2>1 DEF TutorCallOK, TutorRest
  <2>2. CASE r = q
    BY <1>3, <2>2 DEF TutorSlotGoesOn
  <2> QED BY <2>1, <2>2
<1>13. \A t \in TutorUsed' : TutorFamilyOf(t)' \in TutorUsed'
  <2>1. tutorRefresh'[NextTutorToken].family \in TutorUsed'
    BY <1>4, <1>6, <1>7 DEF new
  <2>2. ASSUME NEW t \in TutorUsed PROVE tutorRefresh'[t].family \in TutorUsed'
    BY <1>2, <1>6, <1>7 DEF TutorUsed, TutorFamilyOf
  <2> QED BY <1>7, <2>1, <2>2 DEF TutorFamilyOf
<1>14. decisions' = 0 => TutorUsed' \subseteq opening'
  BY <1>1, <1>7 DEF TutorCallOK
<1> QED BY <1>3, <1>8, <1>9, <1>11, <1>12, <1>13, <1>14

LEMMA TutorForgetInsertKeeps ==
  ASSUME TutorInv, NEW q \in TutorCalls, TutorForgetInsert(q)
  PROVE  TutorInv' /\ TutorRest(q) /\ tutorCall'[q].tok = 0
<1> USE DEF TutorInv
<1>0. TutorTypeOK /\ tutorCall \in [TutorCalls -> TutorSlot]
  BY TutorTyped
<1>1. /\ tutorCall[q].pc = "forget.insert"
      /\ tutorCall' = [tutorCall EXCEPT ![q].pc = "forget.mail", ![q].link = NextTutorLink]
      /\ tutorLink' = [tutorLink EXCEPT ![NextTutorLink] = "stored"]
      /\ UNCHANGED <<tutor, tutorMailed, tutorRefresh, opening, tutorRequests, tutorFaults,
                     decisions>>
  BY DEF TutorForgetInsert, TutorAt, KeepTutor, KeepTutorTokens, KeepTutorBounds
<1>2. NextTutorLink = 1 + Cardinality(TutorUsedLinks) /\ Numbered(TutorUsedLinks)
  BY DEF NextTutorLink, TutorUsedLinks, TutorBudget
<1>3. q \in TutorLinking /\ IsFiniteSet(TutorLinking) /\ IsFiniteSet(TutorBusy)
  BY <1>1, TutorCallsFinite, FS_Subset DEF TutorLinking, TutorBusy
<1>4. NextTutorLink \in TutorLinks
  <2>1. Cardinality(TutorLinking) > 0 /\ Cardinality(TutorLinking) \in Nat
    BY <1>3, OneLess
  <2>2. /\ Cardinality(TutorUsedLinks) + Cardinality(TutorLinking) <= tutorRequests
        /\ tutorRequests \in 0..MaxTutorCalls /\ MaxTutorCalls \in Nat
    BY <1>0, TutorBounds DEF TutorBudget, TutorTypeOK
  <2>3. Cardinality(TutorUsedLinks) \in Nat
    BY <1>2, NextNumber
  <2> QED BY <1>2, <2>1, <2>2, <2>3 DEF TutorLinks
<1>5. /\ tutorCall' \in [TutorCalls -> TutorSlot] /\ TutorRest(q)
      /\ tutorCall'[q].pc = "forget.mail" /\ tutorCall'[q].tok = tutorCall[q].tok
      /\ tutorCall'[q].link = NextTutorLink
  <2>1. "forget.mail" \in TutorCallNames
    BY DEF TutorCallNames
  <2> QED BY <1>0, <1>1, <1>4, <2>1 DEF TutorSlot, TutorRest
<1>6. TutorLinking' = TutorLinking \ {q} /\ TutorBusy' = TutorBusy
  BY <1>1, <1>5 DEF TutorLinking, TutorBusy, TutorRest
<1>7. /\ TutorUsedLinks' = TutorUsedLinks \cup {NextTutorLink} /\ TutorUsed' = TutorUsed
      /\ tutorLink' \in [TutorLinks -> {"none", "stored", "sent", "spent"}]
  BY <1>0, <1>1, <1>4 DEF TutorUsedLinks, TutorUsed, TutorTypeOK
<1>8. TutorTypeOK'
  BY <1>0, <1>1, <1>5, <1>7 DEF TutorTypeOK, TutorSlot
<1>9. TutorBudget'
  <2>1. /\ Cardinality(TutorLinking') = Cardinality(TutorLinking) - 1
        /\ Cardinality(TutorLinking) \in Nat
    BY <1>3, <1>6, OneLess
  <2>2. /\ Cardinality(TutorUsedLinks) \in Nat
        /\ Cardinality(TutorUsedLinks') = Cardinality(TutorUsedLinks) + 1
        /\ Numbered(TutorUsedLinks')
    BY <1>2, <1>7, NextNumber
  <2>3. tutorRequests \in Nat /\ tutorRequests' = tutorRequests
    BY <1>0, <1>1 DEF TutorTypeOK
  <2> QED BY <1>6, <1>7, <2>1, <2>2, <2>3 DEF TutorBudget
<1>10. tutorCall[q].tok = 0 /\ TutorKnown
  BY <1>1 DEF TutorCallOK, ExchangeCalls, KnownCalls
<1>11. TutorKnown' /\ TutorFresh'
  BY <1>1, <1>10 DEF TutorKnown, TutorFresh
<1>12. ASSUME NEW r \in TutorCalls PROVE TutorCallOK(r)'
  <2>1. CASE r # q
    BY <1>1, <1>5, <1>7, <1>11, <2>1 DEF TutorCallOK, TutorRest
  <2>2. CASE r = q
    BY <1>5, <1>7, <1>10, <1>11, <2>2
      DEF TutorCallOK, SecretCalls, MailedCalls, ExchangeCalls
  <2> QED BY <2>1, <2>2
<1>13. /\ \A t \in TutorUsed' : TutorFamilyOf(t)' \in TutorUsed'
       /\ decisions' = 0 => TutorUsed' \subseteq opening'
  BY <1>1, <1>7 DEF TutorFamilyOf
<1> QED BY <1>5, <1>8, <1>9, <1>10, <1>11, <1>12, <1>13

LEMMA TutorNextInv ==
  ASSUME TutorInv, [TutorNext]_tutorVars
  PROVE  TutorInv'
<1>1. ASSUME UNCHANGED tutorVars PROVE TutorCalm
  <2>1. TutorTokensFade /\ TutorLinksFade /\ TutorStays
    BY <1>1, TutorTokensKept, TutorLinksKept, TutorKept
      DEF TutorInv, tutorVars, KeepTutor,
       KeepTutorTokens
  <2> QED BY <1>1, <2>1, TutorTyped DEF TutorInv, tutorVars, TutorCalm
<1>2. ASSUME NEW q \in TutorCalls, ServeTutor(q) PROVE TutorInv'
  BY <1>2, TutorGrantKeeps, TutorForgetInsertKeeps, TutorServedCalm, TutorCalmKeeps
  DEF ServeTutor, TutorCalmStep
<1> QED
  BY <1>1, <1>2, TutorStartKeeps, TutorAsideCalm, TutorCalmKeeps DEF TutorNext

(***************************************************************************)
(* The collections and the requests in flight of a tutor's account have    *)
(* their types, whatever requests overlap, fail or are cut off.            *)
(***************************************************************************)
THEOREM TutorTypes == TutorSpec => []TutorTypeOK
<1>1. TutorSpec => []TutorInv
  BY TutorInitInv, TutorNextInv, PTL DEF TutorSpec
<1>2. TutorInv => TutorTypeOK
  BY DEF TutorInv
<1> QED BY <1>1, <1>2, PTL

(***************************************************************************)
(* While nobody has decided on the account, the only tokens are those its  *)
(* registrations issued: no interleaving of logins, exchanges, resets and  *)
(* faults gives a tutor who was never activated another session.           *)
(***************************************************************************)
THEOREM InactiveTutorGetsNoSession == TutorSpec => []InactiveGetsNoSession
<1>1. TutorSpec => []TutorInv
  BY TutorInitInv, TutorNextInv, PTL DEF TutorSpec
<1>2. TutorInv => InactiveGetsNoSession
  BY DEF TutorInv, InactiveGetsNoSession, TutorUsed
<1> QED BY <1>1, <1>2, PTL

----------------------------------------------------------------------------
(***************************************************************************)
(* The tutor's account implements SessionFamilies.                         *)
(***************************************************************************)
TutorExchangeCalls == {"refresh.mark", "refresh.tutor", "grant"}

\* No family gains a live token or an exchange.
TutorFamiliesFade ==
  /\ TutorTokensFade
  /\ \A r \in TutorCalls :
       \/ tutorCall'[r] = tutorCall[r]
       \/ tutorCall'[r].tok = 0
       \/ tutorCall'[r].pc \notin TutorExchangeCalls
       \/ /\ tutorCall[r].pc \in TutorExchangeCalls
          /\ tutorCall'[r].tok = tutorCall[r].tok

TutorPresents(q) ==
  TutorRefreshRead(q) /\ tutorRefresh[tutorCall[q].tok].state = "live"

LEMMA TutorSteps ==
  ASSUME TutorInv, [TutorNext]_tutorVars
  PROVE  TutorFamiliesFade \/ \E q \in TutorCalls : TutorPresents(q) \/ TutorGrant(q)
<1> USE DEF TutorInv
<1>0. TutorTypeOK
  OBVIOUS
<1>1. ASSUME UNCHANGED tutorVars PROVE TutorFamiliesFade
  BY <1>0, <1>1, TutorTokensKept DEF tutorVars, TutorFamiliesFade, KeepTutorTokens
<1>2. ASSUME NEW q \in TutorCalls, NEW route \in TutorRoutes, StartTutorCall(q, route)
      PROVE  TutorFamiliesFade
  BY <1>0, <1>2, TutorStartKeeps, TutorTokensKept DEF StartTutorCall, TutorFamiliesFade,
     TutorRoutes, TutorRest, TutorExchangeCalls
<1>3. ASSUME NEW q \in TutorCalls, TutorForgetInsert(q) PROVE TutorFamiliesFade
  BY <1>0, <1>3, TutorForgetInsertKeeps, TutorTokensKept DEF TutorForgetInsert,
     TutorFamiliesFade, TutorRest
<1>4. ASSUME NEW q \in TutorCalls, TutorCalmStep(q)
      PROVE  TutorFamiliesFade \/ TutorPresents(q)
  <2>1. TutorCalm /\ TutorRest(q) /\ TutorTokensFade
    BY <1>4, TutorServedCalm DEF TutorCalm
  <2>2. CASE tutorCall'[q].tok = 0
    BY <2>1, <2>2 DEF TutorFamiliesFade, TutorRest
  <2>3. CASE tutorCall'[q].tok # 0
    <3>1. tutorCall'[q] = tutorCall[q] \/ tutorCall'[q].tok = tutorCall[q].tok
      BY <2>1, <2>3 DEF TutorCalm, TutorSlotGoesOn
    <3>2. tutorCall[q].pc \in ExchangeCalls \cup {"grant"}
      BY <2>3, <3>1 DEF TutorCallOK
    <3>3. CASE tutorCall[q].pc \in {"refresh.mark", "refresh.tutor", "grant"}
      BY <2>1, <3>1, <3>3 DEF TutorFamiliesFade, TutorRest, TutorExchangeCalls
    <3>4. CASE tutorCall[q].pc \in {"refresh.read", "refresh.revoke"}
      <4>1. TutorRefreshRead(q) \/ TutorRefreshRevoke(q)
        BY <1>4, <3>4
          DEF TutorCalmStep, TutorAt, TutorRegisterLookup, TutorRegisterInsert,
           TutorRegisterMail, TutorVerifyRead, TutorVerifySave, TutorLogin, TutorForgetRead,
           TutorForgetInvalidate, TutorForgetMail, TutorResetRead, TutorResetSave,
           TutorResetMark, TutorRefreshMark, TutorRefreshTutor
      <4>2. ~TutorEnds(q)
        BY <1>0, <2>3, TutorSlotEnds DEF IdleTutorCall
      <4>3. ASSUME TutorAwaits(q, "refresh.revoke") PROVE TutorFamiliesFade
        <5>1. tutorCall'[q].pc = "refresh.revoke"
          BY <1>0, <4>3, TutorSlotAwaits DEF TutorCallNames
        <5> QED BY <2>1, <5>1 DEF TutorFamiliesFade, TutorRest, TutorExchangeCalls
      <4> QED BY <4>1, <4>2, <4>3 DEF TutorRefreshRead, TutorRefreshRevoke, TutorPresents
    <3> QED BY <3>2, <3>3, <3>4 DEF ExchangeCalls
  <2> QED BY <2>2, <2>3
<1>5. ASSUME \/ TutorProcessStops
             \/ \E t \in TutorTokens : TutorLogout(t) \/ TutorTokenExpires(t)
             \/ \E k \in TutorLinks : TutorLinkExpires(k)
             \/ \E status \in {"active", "suspended"} : SupportDecides(status)
      PROVE TutorFamiliesFade
  <2>1. TutorTokensFade
    BY <1>5, TutorAsideCalm DEF TutorCalm
  <2>2. tutorCall' = tutorCall \/ tutorCall' = [q \in TutorCalls |-> IdleTutorCall]
    BY <1>5 DEF TutorProcessStops, TutorLogout, TutorTokenExpires, TutorLinkExpires,
       SupportDecides
  <2> QED BY <2>1, <2>2 DEF TutorFamiliesFade, IdleTutorCall
<1>6. ASSUME NEW q \in TutorCalls, TutorCallFails(q) PROVE TutorFamiliesFade
  BY <1>0, <1>6, TutorSlotEnds, TutorTokensKept DEF TutorCallFails, TutorFamiliesFade,
     TutorRest, IdleTutorCall
<1> QED
  BY <1>1, <1>2, <1>3, <1>4, <1>5, <1>6 DEF TutorNext, ServeTutor, TutorCalmStep

LEMMA TutorFamilySets ==
  ASSUME NEW f
  PROVE  /\ IsFiniteSet(TutorLive(f)) /\ IsFiniteSet(TutorExchanging(f))
         /\ Cardinality(TutorLive(f)) \in Nat /\ Cardinality(TutorExchanging(f)) \in Nat
<1>1. IsFiniteSet(TutorTokens)
  BY TutorBounds, FS_Interval DEF TutorTokens
<1>2. TutorLive(f) \subseteq TutorTokens /\ TutorExchanging(f) \subseteq TutorCalls
  BY DEF TutorLive, TutorExchanging
<1> QED BY <1>1, <1>2, TutorCallsFinite, FS_Subset, FS_CardinalityType

LEMMA TutorFadeShrinks ==
  ASSUME TutorInv, TutorFamiliesFade, NEW f \in TutorTokens
  PROVE  /\ TutorLive(f)' \subseteq TutorLive(f)
         /\ TutorExchanging(f)' \subseteq TutorExchanging(f)
         /\ TutorFamilyOf(f)' = TutorFamilyOf(f)
<1>1. TutorLive(f)' \subseteq TutorLive(f) /\ TutorFamilyOf(f)' = TutorFamilyOf(f)
  BY DEF TutorFamiliesFade, TutorTokensFade, TutorLive, TutorFamilyOf
<1>2. ASSUME NEW r \in TutorExchanging(f)' PROVE r \in TutorExchanging(f)
  <2>1. /\ r \in TutorCalls /\ tutorCall'[r].pc \in TutorExchangeCalls /\ tutorCall'[r].tok # 0
        /\ tutorRefresh'[tutorCall'[r].tok].family = f
    BY <1>2 DEF TutorExchanging, TutorExchangeCalls, TutorFamilyOf
  <2>2. tutorCall[r].pc \in TutorExchangeCalls /\ tutorCall'[r].tok = tutorCall[r].tok
    BY <2>1 DEF TutorFamiliesFade
  <2>3. tutorCall[r].tok \in TutorTokens
    BY <2>1, <2>2 DEF TutorInv, TutorCallOK, TutorUsed
  <2>4. tutorRefresh[tutorCall[r].tok].family = f
    BY <2>1, <2>2, <2>3 DEF TutorFamiliesFade, TutorTokensFade
  <2> QED BY <2>1, <2>2, <2>4 DEF TutorExchanging, TutorExchangeCalls, TutorFamilyOf
<1> QED BY <1>1, <1>2

LEMMA TutorPresentsForks ==
  ASSUME TutorInv, NEW q \in TutorCalls, TutorPresents(q), NEW f \in TutorTokens
  PROVE  /\ TutorLive(f)' = TutorLive(f) /\ TutorFamilyOf(f)' = TutorFamilyOf(f)
         /\ IF f = TutorFamilyOf(tutorCall[q].tok)
              THEN /\ TutorLive(f) # {} /\ q \notin TutorExchanging(f)
                   /\ TutorExchanging(f)' = TutorExchanging(f) \cup {q}
              ELSE TutorExchanging(f)' = TutorExchanging(f)
<1>1. /\ tutorCall[q].pc = "refresh.read" /\ TutorAwaits(q, "refresh.mark")
      /\ UNCHANGED tutorRefresh
      /\ tutorCall[q].tok \in TutorUsed /\ tutorRefresh[tutorCall[q].tok].state = "live"
      /\ tutorCall[q].tok # 0
  BY DEF TutorInv, TutorPresents, TutorRefreshRead, TutorAt, KeepTutorTokens, TutorCallOK,
     ExchangeCalls
<1>2. /\ tutorCall'[q].pc = "refresh.mark" /\ tutorCall'[q].tok = tutorCall[q].tok
      /\ TutorRest(q)
  BY <1>1, TutorSlotAwaits DEF TutorInv, TutorCallNames
<1>3. TutorLive(f)' = TutorLive(f) /\ TutorFamilyOf(f)' = TutorFamilyOf(f)
  BY <1>1 DEF TutorLive, TutorFamilyOf
<1>4. CASE f = TutorFamilyOf(tutorCall[q].tok)
  <2>1. tutorCall[q].tok \in TutorLive(f)
    BY <1>1, <1>4 DEF TutorLive, TutorUsed
  <2>2. q \notin TutorExchanging(f)
    BY <1>1 DEF TutorExchanging
  <2>3. TutorExchanging(f)' = TutorExchanging(f) \cup {q}
    BY <1>1, <1>2, <1>4 DEF TutorExchanging, TutorRest, TutorFamilyOf
  <2> QED BY <1>3, <1>4, <2>1, <2>2, <2>3
<1>5. CASE f # TutorFamilyOf(tutorCall[q].tok)
  <2>1. TutorExchanging(f)' = TutorExchanging(f)
    BY <1>1, <1>2, <1>5 DEF TutorExchanging, TutorRest, TutorFamilyOf
  <2> QED BY <1>3, <1>5, <2>1
<1> QED BY <1>4, <1>5

LEMMA TutorGrantIssues ==
  ASSUME TutorInv, NEW q \in TutorCalls, TutorGrant(q), NEW f \in TutorTokens
  PROVE  IF tutorCall[q].tok = 0
           THEN IF f = NextTutorToken
                  THEN /\ TutorFamilyOf(f) # f /\ TutorFamilyOf(f)' = f
                       /\ TutorLive(f)' = {f} /\ TutorExchanging(f)' = {}
                  ELSE /\ TutorFamilyOf(f)' = TutorFamilyOf(f)
                       /\ TutorLive(f)' = TutorLive(f)
                       /\ TutorExchanging(f)' = TutorExchanging(f)
           ELSE /\ (TutorFamilyOf(f)' = f) = (TutorFamilyOf(f) = f)
                /\ IF f = TutorFamilyOf(tutorCall[q].tok)
                     THEN /\ NextTutorToken \notin TutorLive(f)
                          /\ TutorLive(f)' = TutorLive(f) \cup {NextTutorToken}
                          /\ q \in TutorExchanging(f)
                          /\ TutorExchanging(f)' = TutorExchanging(f) \ {q}
                     ELSE /\ TutorLive(f)' = TutorLive(f)
                          /\ TutorExchanging(f)' = TutorExchanging(f)
<1> DEFINE n == NextTutorToken
           family == IF tutorCall[q].tok = 0 THEN n ELSE TutorFamilyOf(tutorCall[q].tok)
           new == [state |-> "live", family |-> family]
<1>0. TutorTypeOK
  BY DEF TutorInv
<1>1. /\ tutorCall[q].pc \in {"register.grant", "grant"}
      /\ tutorRefresh' = [tutorRefresh EXCEPT ![n] = new]
  BY DEF TutorGrant
<1>2. n \in TutorTokens /\ n \notin TutorUsed
  BY <1>1, NextTutorTokenIsNew
<1>3. TutorRest(q) /\ tutorCall'[q] = IdleTutorCall
  BY TutorGrantKeeps
<1>4. tutorCall[q].tok # 0 =>
        /\ tutorCall[q].tok \in TutorUsed /\ TutorFamilyOf(tutorCall[q].tok) \in TutorUsed
        /\ tutorCall[q].pc = "grant"
  BY <1>1 DEF TutorInv, TutorCallOK, ExchangeCalls
<1>5. /\ \A u \in TutorTokens : u # n => tutorRefresh'[u] = tutorRefresh[u]
      /\ tutorRefresh'[n] = new
  BY <1>0, <1>1, <1>2, TutorTyped
<1>6. new.family = family /\ new.state = "live"
  OBVIOUS
<1>7. tutorRefresh[n] = NoTutorToken /\ n # 0
  BY <1>2 DEF TutorUsed, TutorTokens
<1> HIDE DEF n, new, family
<1>8. n \notin TutorLive(f)
  BY <1>7 DEF TutorLive, NoTutorToken
<1>9. TutorLive(f)' = IF f = family THEN TutorLive(f) \cup {n} ELSE TutorLive(f)
  BY <1>2, <1>5, <1>6, <1>8 DEF TutorLive, TutorFamilyOf
<1>10. \A r \in TutorCalls : tutorCall[r].tok # 0 =>
         tutorCall[r].tok \in TutorTokens /\ tutorCall[r].tok # n
  BY <1>2, <1>7 DEF TutorInv, TutorCallOK, TutorUsed
<1>11. TutorExchanging(f)' = TutorExchanging(f) \ {q}
  BY <1>3, <1>5, <1>10 DEF TutorExchanging, TutorRest, IdleTutorCall, TutorFamilyOf
<1>12. q \in TutorExchanging(f) <=>
         tutorCall[q].tok # 0 /\ TutorFamilyOf(tutorCall[q].tok) = f
  BY <1>4 DEF TutorExchanging
<1>13. TutorFamilyOf(f)' = IF f = n THEN family ELSE TutorFamilyOf(f)
  BY <1>5, <1>6 DEF TutorFamilyOf
<1>14. CASE tutorCall[q].tok = 0
  <2>1. family = n
    BY <1>14 DEF family
  <2>2. CASE f = n
    <3>1. \A t \in TutorUsed : TutorFamilyOf(t) # f
      BY <1>2, <2>2 DEF TutorInv
    <3>2. TutorLive(f) = {}
      BY <3>1 DEF TutorLive, TutorUsed, NoTutorToken
    <3>3. TutorExchanging(f) = {}
      BY <3>1 DEF TutorExchanging, TutorInv, TutorCallOK
    <3>4. TutorFamilyOf(f) # f
      BY <1>7, <2>2 DEF TutorFamilyOf, NoTutorToken
    <3> QED
      BY <1>9, <1>11, <1>13, <1>14, <2>1, <2>2, <3>2, <3>3, <3>4 DEF n
  <2>3. CASE f # n
    BY <1>9, <1>11, <1>12, <1>13, <1>14, <2>1, <2>3 DEF n
  <2> QED BY <2>2, <2>3
<1>15. CASE tutorCall[q].tok # 0
  <2>1. family = TutorFamilyOf(tutorCall[q].tok) /\ family # n
    BY <1>2, <1>4, <1>15 DEF family
  <2>2. (TutorFamilyOf(f)' = f) = (TutorFamilyOf(f) = f)
    BY <1>7, <1>13, <2>1 DEF TutorFamilyOf, NoTutorToken
  <2> QED BY <1>8, <1>9, <1>11, <1>12, <1>15, <2>1, <2>2 DEF n
<1> QED BY <1>14, <1>15

tutorBranches ==
  [f \in TutorTokens |-> Cardinality(TutorLive(f)) + Cardinality(TutorExchanging(f))]
tutorOpened == {f \in TutorTokens : TutorFamilyOf(f) = f}

LEMMA TutorBranchesInit ==
  TutorInit => tutorOpened = {} /\ tutorBranches = [f \in TutorTokens |-> 0]
<1> SUFFICES ASSUME TutorInit
             PROVE  tutorOpened = {} /\ tutorBranches = [f \in TutorTokens |-> 0]
  OBVIOUS
<1>1. tutorOpened = {}
  BY DEF TutorInit, tutorOpened, TutorFamilyOf, NoTutorToken, TutorTokens
<1>2. ASSUME NEW f \in TutorTokens
      PROVE  Cardinality(TutorLive(f)) + Cardinality(TutorExchanging(f)) = 0
  <2>1. TutorLive(f) = {} /\ TutorExchanging(f) = {}
    BY DEF TutorInit, TutorLive, TutorExchanging, NoTutorToken, IdleTutorCall
  <2> QED BY <2>1, FS_EmptySet
<1> QED BY <1>1, <1>2 DEF tutorBranches

LEMMA TutorBranchesTyped ==
  /\ tutorBranches \in [TutorTokens -> Nat]
  /\ \A f \in TutorTokens :
       tutorBranches[f] = Cardinality(TutorLive(f)) + Cardinality(TutorExchanging(f))
<1>1. ASSUME NEW f \in TutorTokens
      PROVE  Cardinality(TutorLive(f)) + Cardinality(TutorExchanging(f)) \in Nat
  <2>1. Cardinality(TutorLive(f)) \in Nat /\ Cardinality(TutorExchanging(f)) \in Nat
    BY TutorFamilySets
  <2> QED BY <2>1
<1> QED BY <1>1 DEF tutorBranches

LEMMA TutorBranchesNext ==
  ASSUME TutorInv, [TutorNext]_tutorVars
  PROVE  \/ /\ tutorBranches' \in [TutorTokens -> Nat]
            /\ \A f \in TutorTokens : tutorBranches'[f] <= tutorBranches[f]
            /\ tutorOpened' = tutorOpened
         \/ \E f \in TutorTokens :
              \/ /\ f \notin tutorOpened
                 /\ tutorOpened' = tutorOpened \cup {f}
                 /\ tutorBranches' = [tutorBranches EXCEPT ![f] = 1]
              \/ /\ tutorBranches[f] > 0
                 /\ tutorBranches' = [tutorBranches EXCEPT ![f] = @ + 1]
                 /\ tutorOpened' = tutorOpened
<1> DEFINE Cuts == /\ tutorBranches' \in [TutorTokens -> Nat]
                   /\ \A f \in TutorTokens : tutorBranches'[f] <= tutorBranches[f]
                   /\ tutorOpened' = tutorOpened
           Opens(f) == /\ f \notin tutorOpened
                       /\ tutorOpened' = tutorOpened \cup {f}
                       /\ tutorBranches' = [tutorBranches EXCEPT ![f] = 1]
           Forks(f) == /\ tutorBranches[f] > 0
                       /\ tutorBranches' = [tutorBranches EXCEPT ![f] = @ + 1]
                       /\ tutorOpened' = tutorOpened
<1>1. /\ tutorBranches \in [TutorTokens -> Nat]
      /\ \A f \in TutorTokens :
           tutorBranches[f] = Cardinality(TutorLive(f)) + Cardinality(TutorExchanging(f))
  BY TutorBranchesTyped
<1>2. /\ tutorBranches' \in [TutorTokens -> Nat]
      /\ \A f \in TutorTokens :
           tutorBranches'[f] = Cardinality(TutorLive(f)') + Cardinality(TutorExchanging(f)')
  <2>1. ASSUME NEW f \in TutorTokens
        PROVE  Cardinality(TutorLive(f)') + Cardinality(TutorExchanging(f)') \in Nat
    <3>1. (Cardinality(TutorLive(f)) \in Nat /\ Cardinality(TutorExchanging(f)) \in Nat)'
      BY TutorFamilySets, PTL
    <3> QED BY <3>1
  <2> QED BY <2>1 DEF tutorBranches, TutorTokens
<1>3. \A f \in TutorTokens :
        /\ IsFiniteSet(TutorLive(f)) /\ IsFiniteSet(TutorExchanging(f))
        /\ Cardinality(TutorLive(f)) \in Nat /\ Cardinality(TutorExchanging(f)) \in Nat
  BY TutorFamilySets
<1>4. ASSUME TutorFamiliesFade PROVE Cuts
  <2>1. tutorOpened' = tutorOpened
    BY <1>4, TutorFadeShrinks DEF tutorOpened, TutorTokens
  <2>2. ASSUME NEW f \in TutorTokens PROVE tutorBranches'[f] <= tutorBranches[f]
    <3>1. /\ Cardinality(TutorLive(f)') <= Cardinality(TutorLive(f))
          /\ Cardinality(TutorLive(f)') \in Nat
      BY <1>3, <1>4, TutorFadeShrinks, NoMore
    <3>2. /\ Cardinality(TutorExchanging(f)') <= Cardinality(TutorExchanging(f))
          /\ Cardinality(TutorExchanging(f)') \in Nat
      BY <1>3, <1>4, TutorFadeShrinks, NoMore
    <3> QED BY <1>1, <1>2, <1>3, <3>1, <3>2
  <2> QED BY <1>2, <2>1, <2>2
<1>5. ASSUME NEW q \in TutorCalls, TutorPresents(q) PROVE \E f \in TutorTokens : Forks(f)
  <2>1. PICK g \in TutorTokens : g = TutorFamilyOf(tutorCall[q].tok)
    BY <1>5
      DEF TutorPresents, TutorRefreshRead, TutorAt, TutorInv, TutorCallOK, ExchangeCalls,
       TutorUsed
  <2>2. tutorOpened' = tutorOpened
    BY <1>5, TutorPresentsForks DEF tutorOpened, TutorTokens
  <2>3. /\ TutorLive(g) # {} /\ TutorLive(g)' = TutorLive(g) /\ q \notin TutorExchanging(g)
        /\ TutorExchanging(g)' = TutorExchanging(g) \cup {q}
    BY <1>5, <2>1, TutorPresentsForks
  <2>4. Cardinality(TutorLive(g)) # 0
    BY <1>3, <2>1, <2>3, FS_EmptySet
  <2>5. Cardinality(TutorExchanging(g)') = Cardinality(TutorExchanging(g)) + 1
    BY <1>3, <2>1, <2>3, OneMore
  <2>6. tutorBranches[g] > 0 /\ tutorBranches'[g] = tutorBranches[g] + 1
    <3>1. /\ tutorBranches[g] = Cardinality(TutorLive(g)) + Cardinality(TutorExchanging(g))
          /\ tutorBranches'[g] = Cardinality(TutorLive(g)') + Cardinality(TutorExchanging(g)')
          /\ Cardinality(TutorLive(g)) \in Nat /\ Cardinality(TutorExchanging(g)) \in Nat
      BY <1>1, <1>2, <1>3
    <3>2. Cardinality(TutorLive(g)') = Cardinality(TutorLive(g))
      BY <2>3
    <3> QED BY <2>4, <2>5, <3>1, <3>2
  <2>7. ASSUME NEW f \in TutorTokens, f # g PROVE tutorBranches'[f] = tutorBranches[f]
    <3>1. TutorLive(f)' = TutorLive(f) /\ TutorExchanging(f)' = TutorExchanging(f)
      BY <1>5, <2>1, <2>7, TutorPresentsForks
    <3> QED BY <1>1, <1>2, <3>1
  <2>8. tutorBranches' = [tutorBranches EXCEPT ![g] = @ + 1]
    BY <1>1, <1>2, <2>1, <2>6, <2>7
  <2> QED BY <2>1, <2>2, <2>6, <2>8
<1>6. ASSUME NEW q \in TutorCalls, TutorGrant(q), tutorCall[q].tok = 0
      PROVE  \E f \in TutorTokens : Opens(f)
  <2>1. PICK n \in TutorTokens : n = NextTutorToken
    BY <1>6, NextTutorTokenIsNew DEF TutorGrant
  <2>2. /\ TutorFamilyOf(n) # n /\ TutorFamilyOf(n)' = n
        /\ TutorLive(n)' = {n} /\ TutorExchanging(n)' = {}
    BY <1>6, <2>1, TutorGrantIssues
  <2>3. ASSUME NEW f \in TutorTokens, f # n
        PROVE  TutorFamilyOf(f)' = TutorFamilyOf(f) /\ tutorBranches'[f] = tutorBranches[f]
    <3>1. /\ TutorFamilyOf(f)' = TutorFamilyOf(f) /\ TutorLive(f)' = TutorLive(f)
          /\ TutorExchanging(f)' = TutorExchanging(f)
      BY <1>6, <2>1, <2>3, TutorGrantIssues
    <3> QED BY <1>1, <1>2, <3>1
  <2>4. tutorBranches'[n] = 1
    <3>1. Cardinality(TutorLive(n)') = 1 /\ Cardinality(TutorExchanging(n)') = 0
      BY <2>2, FS_EmptySet, FS_Singleton
    <3> QED BY <1>2, <2>1, <3>1
  <2>5. tutorBranches' = [tutorBranches EXCEPT ![n] = 1]
    BY <1>1, <1>2, <2>1, <2>3, <2>4
  <2>6. n \notin tutorOpened /\ tutorOpened' = tutorOpened \cup {n}
    BY <2>1, <2>2, <2>3 DEF tutorOpened, TutorTokens
  <2> QED BY <2>1, <2>5, <2>6
<1>7. ASSUME NEW q \in TutorCalls, TutorGrant(q), tutorCall[q].tok # 0 PROVE Cuts
  <2>1. tutorOpened' = tutorOpened
    BY <1>7, TutorGrantIssues DEF tutorOpened, TutorTokens
  <2>2. ASSUME NEW f \in TutorTokens PROVE tutorBranches'[f] <= tutorBranches[f]
    <3>1. CASE f = TutorFamilyOf(tutorCall[q].tok)
      <4>1. /\ NextTutorToken \notin TutorLive(f)
            /\ TutorLive(f)' = TutorLive(f) \cup {NextTutorToken}
            /\ q \in TutorExchanging(f) /\ TutorExchanging(f)' = TutorExchanging(f) \ {q}
        BY <1>7, <3>1, TutorGrantIssues
      <4>2. Cardinality(TutorLive(f)') = Cardinality(TutorLive(f)) + 1
        BY <1>3, <4>1, OneMore
      <4>3. Cardinality(TutorExchanging(f)') = Cardinality(TutorExchanging(f)) - 1
        BY <1>3, <4>1, OneLess
      <4> QED BY <1>1, <1>2, <1>3, <4>2, <4>3
    <3>2. CASE f # TutorFamilyOf(tutorCall[q].tok)
      <4>1. TutorLive(f)' = TutorLive(f) /\ TutorExchanging(f)' = TutorExchanging(f)
        BY <1>7, <3>2, TutorGrantIssues
      <4>2. tutorBranches'[f] = tutorBranches[f] /\ tutorBranches[f] \in Nat
        BY <1>1, <1>2, <4>1
      <4> QED BY <4>2
    <3> QED BY <3>1, <3>2
  <2> QED BY <1>2, <2>1, <2>2
<1> HIDE DEF Cuts, Opens, Forks
<1>8. Cuts \/ \E f \in TutorTokens : Opens(f) \/ Forks(f)
  BY <1>4, <1>5, <1>6, <1>7, TutorSteps
<1> QED BY <1>8 DEF Cuts, Opens, Forks

(***************************************************************************)
(* The refresh tokens of a tutor's account implement SessionFamilies,      *)
(* though it revokes, looks up and clears tokens by other rules: a family  *)
(* with no branch left never issues a token again.                         *)
(***************************************************************************)
THEOREM TutorAccountImplementsFamilies == TutorSpec => TutorImplementsFamilies
<1>1. TutorInit => AbstractTutor!FamiliesInit
  BY TutorBranchesInit DEF AbstractTutor!FamiliesInit, tutorOpened, tutorBranches
<1>2. TutorInv /\ [TutorNext]_tutorVars
        => [AbstractTutor!FamiliesNext]_AbstractTutor!familyVars
  BY TutorBranchesNext
    DEF AbstractTutor!FamiliesNext, AbstractTutor!Cut, AbstractTutor!Open,
     AbstractTutor!Fork, tutorOpened, tutorBranches
<1> QED
  BY <1>1, <1>2, TutorInitInv, TutorNextInv, PTL
  DEF TutorSpec, TutorImplementsFamilies, AbstractTutor!FamiliesSpec

----------------------------------------------------------------------------
(***************************************************************************)
(* A behaviour of Accounts is one of each account, so what is proved above *)
(* holds of it.                                                            *)
(***************************************************************************)
THEOREM AccountsRunEach == AccountsSpec => SessionSpec /\ TutorSpec
<1>1. AccountsInit => SessionInit /\ TutorInit
  BY DEF AccountsInit
<1>2. [AccountsNext]_<<sessionVars, tutorVars, role>>
        => [SessionNext]_sessionVars /\ [TutorNext]_tutorVars
  BY DEF AccountsNext
<1> QED BY <1>1, <1>2, PTL DEF AccountsSpec, SessionSpec, TutorSpec

(***************************************************************************)
(* The collections and the requests in flight of both kinds of account     *)
(* have their types.                                                       *)
(***************************************************************************)
THEOREM AccountsTypeCorrect == AccountsSpec => []AccountsTypeOK
  BY AccountsRunEach, SessionTypes, TutorTypes, PTL DEF AccountsTypeOK
=============================================================================
