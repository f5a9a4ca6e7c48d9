---------------------------- MODULE CachedLists ----------------------------
(***************************************************************************)
(* Lists that CacheInterceptor serves from the memory of the process.      *)
(*                                                                         *)
(* The FAQ lives in the database.  Its list is cached under one key, which *)
(* the route names; the route of an entry names none, so the interceptor   *)
(* caches its answer under the URL of the request, as it was written, the  *)
(* query string included.  A mutation is stored first and then deletes the *)
(* list's key and the entry's plain URL: no other.  A miss asks the        *)
(* database and stores the answer when it has it, so a mutation can come   *)
(* in between.                                                             *)
(*                                                                         *)
(* Of an entry the model keeps how often it was written (timestamps make   *)
(* every write show) and whether readers see it.                           *)
(***************************************************************************)
EXTENDS Naturals, FiniteSets

CONSTANTS
  FaqReads, FaqWrites,  \* slots for requests in flight
  FaqIds,               \* entries of the FAQ
  UrlForms,             \* ways to write the URL of an entry
  Plain,                \* the one without a query string
  ListKey,              \* FAQ_CACHE_KEY
  NoEntry,              \* "no value"
  MaxFaqWrites          \* bounds the mutations of a behaviour

ASSUME CacheBounds == MaxFaqWrites \in Nat
ASSUME PlainIsForm == Plain \in UrlForms
ASSUME ListKeyApart == ListKey \notin FaqIds \X UrlForms
ASSUME NoEntryOutside == NoEntry \notin FaqIds \cup {ListKey} \cup (FaqIds \X UrlForms)

VARIABLES
  faq,        \* the entries: where each is in its life, how often it was written
  faqCache,   \* the answer cached under each key
  faqRead,    \* each slot: the call it awaits, its key and what it has read
  faqWrite,   \* each slot: the call it awaits, its operation and its entry
  faqWrites   \* what has been used of the bound

cacheVars == <<faq, faqCache, faqRead, faqWrite, faqWrites>>

FaqKeys == {ListKey} \cup (FaqIds \X UrlForms)

\* The entries whose content a key's answer shows.
Scope(k) == IF k = ListKey THEN FaqIds ELSE {k[1]}

\* An answer shows of each entry a version, or nothing: 0.
Answers == [FaqIds -> Nat]
NoAnswer == [i \in FaqIds |-> 0]

\* What the database would answer.
Current(k) ==
  [i \in FaqIds |->
     IF i \in Scope(k) /\ faq[i].stage = "shown" THEN faq[i].version ELSE 0]

\* A cached answer, and whether a mutation of what it shows was stored between
\* the reading and the caching of it.
Cached == {NoEntry} \cup [answer: Answers, overtaken: BOOLEAN]

\* An update leaves the entry shown or hidden, whatever it says from then on.
FaqOps == {"create", "show", "hide", "remove"}

IdleRead == [pc |-> "idle", key |-> NoEntry, read |-> NoAnswer, overtaken |-> FALSE]
IdleWrite == [pc |-> "idle", op |-> "show", entry |-> NoEntry]

CacheTypeOK ==
  /\ faq \in [FaqIds -> [stage: {"new", "shown", "hidden", "gone"}, version: Nat]]
  /\ faqCache \in [FaqKeys -> Cached]
  /\ faqRead \in [FaqReads ->
       [pc: {"idle", "get", "find", "set"}, key: FaqKeys \cup {NoEntry},
        read: Answers, overtaken: BOOLEAN]]
  /\ faqWrite \in [FaqWrites ->
       [pc: {"idle", "store", "del.list", "del.entry"}, op: FaqOps,
        entry: FaqIds \cup {NoEntry}]]
  /\ faqWrites \in 0..MaxFaqWrites

CacheInit ==
  /\ faq \in [FaqIds -> {[stage |-> "new", version |-> 0], [stage |-> "shown", version |-> 1]}]
  /\ faqCache = [k \in FaqKeys |-> NoEntry]
  /\ faqRead = [q \in FaqReads |-> IdleRead]
  /\ faqWrite = [q \in FaqWrites |-> IdleWrite]
  /\ faqWrites = 0

----------------------------------------------------------------------------
(***************************************************************************)
(* GET faq and faq/:id, through CacheInterceptor                           *)
(***************************************************************************)

ReadEnds(q) == faqRead' = [faqRead EXCEPT ![q] = IdleRead]

StartFaqRead(q, k) ==
  /\ faqRead[q].pc = "idle"
  /\ faqRead' = [faqRead EXCEPT ![q] = [IdleRead EXCEPT !.pc = "get", !.key = k]]
  /\ UNCHANGED <<faq, faqCache, faqWrite, faqWrites>>

FaqGet(q) ==
  /\ faqRead[q].pc = "get"
  /\ \/ faqCache[faqRead[q].key] # NoEntry /\ ReadEnds(q)
     \/ /\ faqCache[faqRead[q].key] = NoEntry
        /\ faqRead' = [faqRead EXCEPT ![q].pc = "find"]
  /\ UNCHANGED <<faq, faqCache, faqWrite, faqWrites>>

\* Only active entries are found.  One that is not is answered with an error,
\* which is not cached.
FaqFind(q) ==
  /\ faqRead[q].pc = "find"
  /\ LET k == faqRead[q].key
         found == k = ListKey \/ Current(k) # NoAnswer
     IN  \/ ~found /\ ReadEnds(q)
         \/ /\ found
            /\ faqRead' =
                 [faqRead EXCEPT ![q] = [@ EXCEPT !.pc = "set", !.read = Current(k)]]
  /\ UNCHANGED <<faq, faqCache, faqWrite, faqWrites>>

FaqSet(q) ==
  /\ faqRead[q].pc = "set"
  /\ LET r == faqRead[q]
     IN  faqCache' =
           [faqCache EXCEPT ![r.key] = [answer |-> r.read, overtaken |-> r.overtaken]]
  /\ ReadEnds(q)
  /\ UNCHANGED <<faq, faqWrite, faqWrites>>

----------------------------------------------------------------------------
(***************************************************************************)
(* POST faq, PATCH and DELETE faq/:id.  A payload can change what an entry *)
(* says, and isActive; an entry created inactive is one hidden at once.    *)
(***************************************************************************)

StartFaqWrite(q, op, i) ==
  /\ faqWrite[q].pc = "idle" /\ faqWrites < MaxFaqWrites
  /\ op = "create" => /\ faq[i].stage = "new"
                      /\ \A p \in FaqWrites : faqWrite[p].entry # i
  /\ op # "create" => faq[i].stage # "new"
  /\ faqWrites' = faqWrites + 1
  /\ faqWrite' = [faqWrite EXCEPT ![q] = [pc |-> "store", op |-> op, entry |-> i]]
  /\ UNCHANGED <<faq, faqCache, faqRead>>

StageAfter(op) ==
  IF op = "hide" THEN "hidden" ELSE IF op = "remove" THEN "gone" ELSE "shown"

\* save, findByIdAndUpdate or findByIdAndDelete.  Reads that have their answer
\* and whose answer shows the entry are overtaken.
FaqStore(q) ==
  /\ faqWrite[q].pc = "store"
  /\ LET w == faqWrite[q]
         found == w.op = "create" \/ faq[w.entry].stage \in {"shown", "hidden"}
     IN  \/ /\ found
            /\ faqWrite' = [faqWrite EXCEPT ![q].pc = "del.list"]
            /\ faq' = [faq EXCEPT ![w.entry] =
                 [stage |-> StageAfter(w.op), version |-> @.version + 1]]
            /\ faqRead' = [p \in FaqReads |->
                 [faqRead[p] EXCEPT !.overtaken =
                    @ \/ (faqRead[p].pc = "set" /\ w.entry \in Scope(faqRead[p].key))]]
         \/ /\ ~found
            /\ faqWrite' = [faqWrite EXCEPT ![q] = IdleWrite]
            /\ UNCHANGED <<faq, faqRead>>
  /\ UNCHANGED <<faqCache, faqWrites>>

\* A creation deletes only the key of the list.
AfterList(w) == IF w.op = "create" THEN IdleWrite ELSE [w EXCEPT !.pc = "del.entry"]

\* Faulty variant: the key of the list is left alone.
FaqEvictList_EntryOnly(q) ==
  /\ faqWrite[q].pc = "del.list"
  /\ faqWrite' = [faqWrite EXCEPT ![q] = AfterList(@)]
  /\ UNCHANGED <<faq, faqCache, faqRead, faqWrites>>

FaqEvictList(q) ==
  /\ faqWrite[q].pc = "del.list"
  /\ faqCache' = [faqCache EXCEPT ![ListKey] = NoEntry]
  /\ faqWrite' = [faqWrite EXCEPT ![q] = AfterList(@)]
  /\ UNCHANGED <<faq, faqRead, faqWrites>>

\* Only the entry's plain URL: what is cached under another form stays.
FaqEvictEntry(q) ==
  /\ faqWrite[q].pc = "del.entry"
  /\ faqCache' = [faqCache EXCEPT ![<<faqWrite[q].entry, Plain>>] = NoEntry]
  /\ faqWrite' = [faqWrite EXCEPT ![q] = IdleWrite]
  /\ UNCHANGED <<faq, faqRead, faqWrites>>

----------------------------------------------------------------------------
(***************************************************************************)
(* Time and faults                                                         *)
(***************************************************************************)

AnswerExpires(k) ==
  /\ faqCache[k] # NoEntry
  /\ faqCache' = [faqCache EXCEPT ![k] = NoEntry]
  /\ UNCHANGED <<faq, faqRead, faqWrite, faqWrites>>

\* A failed call of the database ends the request before anything is cached
\* or deleted.
FaqReadFails(q) ==
  /\ faqRead[q].pc = "find"
  /\ ReadEnds(q)
  /\ UNCHANGED <<faq, faqCache, faqWrite, faqWrites>>

FaqWriteFails(q) ==
  /\ faqWrite[q].pc = "store"
  /\ faqWrite' = [faqWrite EXCEPT ![q] = IdleWrite]
  /\ UNCHANGED <<faq, faqCache, faqRead, faqWrites>>

\* Only the database survives.
CacheProcessStops ==
  /\ faqCache' = [k \in FaqKeys |-> NoEntry]
  /\ faqRead' = [q \in FaqReads |-> IdleRead]
  /\ faqWrite' = [q \in FaqWrites |-> IdleWrite]
  /\ UNCHANGED <<faq, faqWrites>>

CacheNext ==
  \/ \E q \in FaqReads :
       \/ \E k \in FaqKeys : StartFaqRead(q, k)
       \/ FaqGet(q) \/ FaqFind(q) \/ FaqSet(q) \/ FaqReadFails(q)
  \/ \E q \in FaqWrites :
       \/ \E op \in FaqOps, i \in FaqIds : StartFaqWrite(q, op, i)
       \/ FaqStore(q) \/ FaqEvictList(q) \/ FaqEvictEntry(q) \/ FaqWriteFails(q)
  \/ \E k \in FaqKeys : AnswerExpires(k)
  \/ CacheProcessStops

CacheSpec == CacheInit /\ [][CacheNext]_cacheVars

----------------------------------------------------------------------------
(***************************************************************************)
(* Properties                                                              *)
(***************************************************************************)

\* The keys a stored mutation has still to delete.
StillToDelete(w) ==
  {k \in FaqKeys :
     \/ w.pc = "del.list" /\ k = ListKey
     \/ w.pc = "del.list" /\ w.op # "create" /\ k = <<w.entry, Plain>>
     \/ w.pc = "del.entry" /\ k = <<w.entry, Plain>>}

\* create, update and remove, which delete the list's key and the entry's: under
\* those keys stands what the database would answer, unless a mutation is stored
\* and has not come to the key yet, or the answer was read before a mutation and
\* cached after it.  Such an answer stays until it expires or the next mutation.
\* Nothing of the kind holds of an entry's other URLs: what is cached there
\* outlives every mutation, and expires.
FaqStaleOnlyByRace ==
  \A k \in {ListKey} \cup (FaqIds \X {Plain}) :
    faqCache[k] # NoEntry /\ faqCache[k].answer # Current(k) =>
      faqCache[k].overtaken \/ \E q \in FaqWrites : k \in StillToDelete(faqWrite[q])
=============================================================================
