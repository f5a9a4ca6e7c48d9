--------------------------- MODULE ServicesProofs ---------------------------
(***************************************************************************)
(* Theorems about the services that share no state: one section for each,  *)
(* with the inductive invariant it needs, after what they all need to know *)
(* of sums; then about all of them together.                               *)
(***************************************************************************)
EXTENDS Services, MembershipsProofs, FiniteSetTheorems, WellFoundedInduction, TLAPS

----------------------------------------------------------------------------
(***************************************************************************)
(* Sums.  SumFunctionOnSet is a recursive function on the subsets of its   *)
(* set.  Induction on those is the choice of a smallest counterexample.    *)
(***************************************************************************)

LEMMA SmallestSubset ==
  ASSUME NEW S, IsFiniteSet(S), NEW B \in SUBSET (SUBSET S), B # {}
  PROVE  \E T \in B : \A U \in B : ~ (U \subseteq T /\ U # T)
<1>1. PICK R : R = StrictSubsetOrdering(S)
  OBVIOUS
<1>2. IsWellFoundedOn(R, SUBSET S)
  BY <1>1, FS_StrictSubsetOrderingWellFounded, FS_FiniteSubsetsOfFinite
<1>3. PICK T \in B : \A U \in B : ~ (<<U, T>> \in R)
  BY <1>2, WFMin
<1> QED BY <1>1, <1>3 DEF StrictSubsetOrdering

\* The element a sum begins with, and the function that the sum is a value of.
First(s) == CHOOSE x \in s : TRUE

SumStep(h, g, S) ==
  [s \in SUBSET S |-> IF s = {} THEN 0 ELSE h[First(s)] + g[s \ {First(s)}]]

\* g computes the sums of the values of h over the subsets of S.
Computes(h, g, S) == g = SumStep(h, g, S)

LEMMA FirstIn ==
  ASSUME NEW s, s # {}
  PROVE  First(s) \in s
  BY DEF First

LEMMA SumIsChosen ==
  ASSUME NEW h, NEW S
  PROVE  SumFunctionOnSet(h, S) = (CHOOSE g : g = SumStep(h, g, S))[S]
  BY DEF SumFunctionOnSet, FoldFunctionOnSet, MapThenFoldSet, SumStep, First

LEMMA SumStepApplied ==
  ASSUME NEW h, NEW S, NEW g, Computes(h, g, S), NEW s \in SUBSET S
  PROVE  /\ s = {} => g[s] = 0
         /\ s # {} => g[s] = h[First(s)] + g[s \ {First(s)}]
<1>1. SumStep(h, g, S)[s] = IF s = {} THEN 0 ELSE h[First(s)] + g[s \ {First(s)}]
  BY DEF SumStep
<1> QED BY <1>1 DEF Computes

LEMMA SumStepOfNone ==
  ASSUME NEW h, NEW S, NEW g, Computes(h, g, S)
  PROVE  g[{}] = 0
<1>1. {} \in SUBSET S
  OBVIOUS
<1> QED BY <1>1, SumStepApplied

LEMMA SumStepUnique ==
  ASSUME NEW h, NEW S, IsFiniteSet(S), NEW U, NEW V, S \subseteq U, S \subseteq V,
         NEW f, Computes(h, f, U), NEW g, Computes(h, g, V)
  PROVE  f[S] = g[S]
<1> SUFFICES ASSUME f[S] # g[S] PROVE FALSE
  OBVIOUS
<1>1. PICK B \in SUBSET (SUBSET S) : B = {s \in SUBSET S : f[s] # g[s]}
  OBVIOUS
<1>2. PICK T \in B : \A W \in B : ~ (W \subseteq T /\ W # T)
  BY <1>1, SmallestSubset
<1>3. T \in SUBSET U /\ T \in SUBSET V /\ T \in SUBSET S /\ f[T] # g[T]
  BY <1>1, <1>2
<1>4. ASSUME T = {} PROVE FALSE
  <2>1. f[T] = 0
    BY <1>4, SumStepOfNone
  <2>2. g[T] = 0
    BY <1>4, SumStepOfNone
  <2> QED BY <1>3, <2>1, <2>2
<1>5. PICK W : W = T \ {First(T)}
  OBVIOUS
<1>6. W \subseteq T /\ W # T /\ W \in SUBSET S
  BY <1>3, <1>4, <1>5, FirstIn
<1>7. f[W] = g[W]
  BY <1>1, <1>2, <1>6
<1>8. f[T] = h[First(T)] + f[T \ {First(T)}]
  BY <1>3, <1>4, SumStepApplied
<1>9. g[T] = h[First(T)] + g[T \ {First(T)}]
  BY <1>3, <1>4, SumStepApplied
<1> QED BY <1>3, <1>5, <1>7, <1>8, <1>9

LEMMA SumStepExists ==
  ASSUME NEW h, NEW S, IsFiniteSet(S)
  PROVE  \E g : Computes(h, g, S)
<1>1. PICK B \in SUBSET (SUBSET S) : B = {s \in SUBSET S : ~ \E g : Computes(h, g, s)}
  OBVIOUS
<1> SUFFICES ASSUME B # {} PROVE FALSE
  BY <1>1
<1>2. PICK T \in B : \A W \in B : ~ (W \subseteq T /\ W # T)
  BY SmallestSubset
<1>3. PICK G : G = [u \in SUBSET T |-> CHOOSE g : Computes(h, g, u)]
  OBVIOUS
<1>4. \A u \in SUBSET T : u # T => Computes(h, G[u], u)
  BY <1>1, <1>2, <1>3
<1>5. PICK k : k = [s \in SUBSET T |-> IF s = {} THEN 0
                       ELSE h[First(s)] + G[s \ {First(s)}][s \ {First(s)}]]
  OBVIOUS
<1>6. ASSUME NEW s \in SUBSET T, s # {}
      PROVE  k[s \ {First(s)}] = G[s \ {First(s)}][s \ {First(s)}]
  <2>1. PICK u : u = s \ {First(s)}
    OBVIOUS
  <2>2. u \in SUBSET T /\ u # T /\ First(s) \in T
    BY <1>6, <2>1, FirstIn
  <2>3. Computes(h, G[u], u)
    BY <1>4, <2>2
  <2>4. CASE u = {}
    <3>1. k[u] = 0
      BY <1>5, <2>2, <2>4
    <3>2. G[u][u] = 0
      BY <2>3, <2>4, SumStepOfNone
    <3> QED BY <2>1, <3>1, <3>2
  <2>5. CASE u # {}
    <3>1. PICK v : v = u \ {First(u)}
      OBVIOUS
    <3>2. v \in SUBSET T /\ v # T /\ v \subseteq u
      BY <2>2, <3>1
    <3>3. Computes(h, G[v], v)
      BY <1>4, <3>2
    <3>4. IsFiniteSet(v)
      BY <1>1, <1>2, <3>2, FS_Subset
    <3>5. G[u][v] = G[v][v]
      <4>1. PICK f : f = G[u]
        OBVIOUS
      <4>2. PICK g : g = G[v]
        OBVIOUS
      <4>3. Computes(h, f, u) /\ Computes(h, g, v) /\ v \subseteq u /\ v \subseteq v
        BY <2>3, <3>2, <3>3, <4>1, <4>2
      <4>4. f[v] = g[v]
        BY <3>4, <4>3, SumStepUnique
      <4> QED BY <4>1, <4>2, <4>4
    <3>6. G[u][u] = h[First(u)] + G[u][v]
      BY <2>3, <2>5, <3>1, SumStepApplied
    <3>7. k[u] = h[First(u)] + G[v][v]
      BY <1>5, <2>2, <2>5, <3>1
    <3> QED BY <2>1, <3>5, <3>6, <3>7
  <2> QED BY <2>4, <2>5
<1>7. Computes(h, k, T)
  BY <1>5, <1>6 DEF SumStep, Computes
<1> QED BY <1>1, <1>2, <1>7

\* The recursion of a sum.
LEMMA SumRecursion ==
  ASSUME NEW h, NEW S, IsFiniteSet(S)
  PROVE  /\ S = {} => SumFunctionOnSet(h, S) = 0
         /\ S # {} => SumFunctionOnSet(h, S) =
                        h[First(S)] + SumFunctionOnSet(h, S \ {First(S)})
<1>1. ASSUME NEW T, IsFiniteSet(T)
      PROVE  \E g : Computes(h, g, T) /\ SumFunctionOnSet(h, T) = g[T]
  <2>1. PICK g : g = CHOOSE k : Computes(h, k, T)
    OBVIOUS
  <2>2. Computes(h, g, T)
    BY <1>1, <2>1, SumStepExists
  <2> QED BY <2>1, <2>2, SumIsChosen DEF Computes
<1>2. PICK f : Computes(h, f, S) /\ SumFunctionOnSet(h, S) = f[S]
  BY <1>1
<1>3. CASE S = {}
  BY <1>2, <1>3, SumStepApplied
<1>4. CASE S # {}
  <2>1. PICK W : W = S \ {First(S)}
    OBVIOUS
  <2>2. IsFiniteSet(W) /\ W \subseteq S
    BY <2>1, FS_Subset
  <2>3. PICK g : Computes(h, g, W) /\ SumFunctionOnSet(h, W) = g[W]
    BY <1>1, <2>2
  <2>4. f[W] = g[W]
    BY <1>2, <2>2, <2>3, SumStepUnique
  <2>5. f[S] = h[First(S)] + f[W]
    BY <1>2, <1>4, <2>1, SumStepApplied
  <2> QED BY <1>2, <1>4, <2>1, <2>3, <2>4, <2>5
<1> QED BY <1>3, <1>4

\* A sum of naturals is one, and a sum of integers.
LEMMA SumTyped ==
  ASSUME NEW N \in {Nat, Int}, NEW h, NEW S, IsFiniteSet(S), \A x \in S : h[x] \in N
  PROVE  SumFunctionOnSet(h, S) \in N
<1> SUFFICES ASSUME SumFunctionOnSet(h, S) \notin N PROVE FALSE
  OBVIOUS
<1>1. PICK B \in SUBSET (SUBSET S) : B = {s \in SUBSET S : SumFunctionOnSet(h, s) \notin N}
  OBVIOUS
<1>2. PICK T \in B : \A W \in B : ~ (W \subseteq T /\ W # T)
  BY <1>1, SmallestSubset
<1>3. IsFiniteSet(T) /\ T \subseteq S
  BY <1>1, <1>2, FS_Subset
<1>4. CASE T = {}
  <2>1. SumFunctionOnSet(h, T) = 0
    BY <1>3, <1>4, SumRecursion
  <2> QED BY <1>1, <1>2, <2>1
<1>5. CASE T # {}
  <2>1. PICK W : W = T \ {First(T)}
    OBVIOUS
  <2>2. W \subseteq T /\ W # T /\ First(T) \in S
    BY <1>3, <1>5, <2>1, FirstIn
  <2>3. SumFunctionOnSet(h, W) \in N /\ h[First(T)] \in N
    BY <1>1, <1>2, <1>3, <2>2
  <2>4. SumFunctionOnSet(h, T) = h[First(T)] + SumFunctionOnSet(h, W)
    BY <1>3, <1>5, <2>1, SumRecursion
  <2> QED BY <1>1, <1>2, <2>3, <2>4
<1> QED BY <1>4, <1>5

\* Any element may be taken out of a sum.
LEMMA SumTakesOut ==
  ASSUME NEW h, NEW S, IsFiniteSet(S), \A x \in S : h[x] \in Int, NEW x \in S
  PROVE  SumFunctionOnSet(h, S) = h[x] + SumFunctionOnSet(h, S \ {x})
<1>1. PICK B \in SUBSET (SUBSET S) :
        B = {s \in SUBSET S : \E y \in s :
               SumFunctionOnSet(h, s) # h[y] + SumFunctionOnSet(h, s \ {y})}
  OBVIOUS
<1> SUFFICES ASSUME B # {} PROVE FALSE
  BY <1>1
<1>2. PICK T \in B : \A W \in B : ~ (W \subseteq T /\ W # T)
  BY SmallestSubset
<1>3. IsFiniteSet(T) /\ T \subseteq S
  BY <1>1, <1>2, FS_Subset
<1>4. PICK y \in T : SumFunctionOnSet(h, T) # h[y] + SumFunctionOnSet(h, T \ {y})
  BY <1>1, <1>2
<1>5. PICK p \in T : p = First(T)
  BY <1>4, FirstIn
<1>6. SumFunctionOnSet(h, T) = h[p] + SumFunctionOnSet(h, T \ {p})
  BY <1>3, <1>4, <1>5, SumRecursion
<1>7. p # y
  BY <1>4, <1>6
<1>8. T \ {p} \notin B /\ T \ {y} \notin B /\ T \ {p} \in SUBSET S /\ T \ {y} \in SUBSET S
  BY <1>2, <1>3
<1>9. /\ SumFunctionOnSet(h, T \ {p}) = h[y] + SumFunctionOnSet(h, (T \ {p}) \ {y})
      /\ SumFunctionOnSet(h, T \ {y}) = h[p] + SumFunctionOnSet(h, (T \ {y}) \ {p})
  BY <1>1, <1>7, <1>8
<1>10. (T \ {p}) \ {y} = (T \ {y}) \ {p}
  OBVIOUS
<1>11. SumFunctionOnSet(h, (T \ {y}) \ {p}) \in Int /\ h[p] \in Int /\ h[y] \in Int
  <2>1. IsFiniteSet((T \ {y}) \ {p})
    BY <1>3, FS_Subset
  <2>2. \A z \in (T \ {y}) \ {p} : h[z] \in Int
    BY <1>3
  <2>3. SumFunctionOnSet(h, (T \ {y}) \ {p}) \in Int
    BY <2>1, <2>2, SumTyped
  <2> QED BY <1>3, <2>3
<1>12. SumFunctionOnSet(h, (T \ {p}) \ {y}) = SumFunctionOnSet(h, (T \ {y}) \ {p})
  BY <1>10
<1>13. PICK a \in Int, b \in Int, c \in Int :
         a = SumFunctionOnSet(h, (T \ {y}) \ {p}) /\ b = h[p] /\ c = h[y]
  BY <1>11
<1>14. SumFunctionOnSet(h, T) = b + (c + a) /\ SumFunctionOnSet(h, T \ {y}) = b + a
  BY <1>6, <1>9, <1>12, <1>13
<1>15. SumFunctionOnSet(h, T) = c + (b + a)
  BY <1>13, <1>14
<1> QED BY <1>4, <1>13, <1>14, <1>15

\* A sum depends on the values on its set only.
LEMMA SumSame ==
  ASSUME NEW h, NEW k, NEW S, IsFiniteSet(S), \A x \in S : h[x] = k[x]
  PROVE  SumFunctionOnSet(h, S) = SumFunctionOnSet(k, S)
<1>1. PICK B \in SUBSET (SUBSET S) :
        B = {s \in SUBSET S : SumFunctionOnSet(h, s) # SumFunctionOnSet(k, s)}
  OBVIOUS
<1> SUFFICES ASSUME B # {} PROVE FALSE
  BY <1>1
<1>2. PICK T \in B : \A W \in B : ~ (W \subseteq T /\ W # T)
  BY SmallestSubset
<1>3. IsFiniteSet(T) /\ T \subseteq S
  BY <1>1, <1>2, FS_Subset
<1>4. T # {}
  BY <1>1, <1>2, <1>3, SumRecursion
<1>5. PICK W : W = T \ {First(T)}
  OBVIOUS
<1>6. W \subseteq T /\ W # T /\ First(T) \in S
  BY <1>3, <1>4, <1>5, FirstIn
<1>7. SumFunctionOnSet(h, W) = SumFunctionOnSet(k, W) /\ h[First(T)] = k[First(T)]
  BY <1>1, <1>2, <1>3, <1>6
<1>8. /\ SumFunctionOnSet(h, T) = h[First(T)] + SumFunctionOnSet(h, W)
      /\ SumFunctionOnSet(k, T) = k[First(T)] + SumFunctionOnSet(k, W)
  BY <1>3, <1>4, <1>5, SumRecursion
<1> QED BY <1>1, <1>2, <1>7, <1>8

\* Zeros add up to zero.
LEMMA SumOfZeros ==
  ASSUME NEW h, NEW S, IsFiniteSet(S), \A x \in S : h[x] = 0
  PROVE  SumFunctionOnSet(h, S) = 0
<1>1. PICK B \in SUBSET (SUBSET S) : B = {s \in SUBSET S : SumFunctionOnSet(h, s) # 0}
  OBVIOUS
<1> SUFFICES ASSUME B # {} PROVE FALSE
  BY <1>1
<1>2. PICK T \in B : \A W \in B : ~ (W \subseteq T /\ W # T)
  BY SmallestSubset
<1>3. IsFiniteSet(T) /\ T \subseteq S
  BY <1>1, <1>2, FS_Subset
<1>4. T # {}
  BY <1>1, <1>2, <1>3, SumRecursion
<1>5. PICK W : W = T \ {First(T)}
  OBVIOUS
<1>6. W \subseteq T /\ W # T /\ First(T) \in S
  BY <1>3, <1>4, <1>5, FirstIn
<1>7. SumFunctionOnSet(h, W) = 0 /\ h[First(T)] = 0
  BY <1>1, <1>2, <1>3, <1>6
<1>8. SumFunctionOnSet(h, T) = h[First(T)] + SumFunctionOnSet(h, W)
  BY <1>3, <1>4, <1>5, SumRecursion
<1> QED BY <1>1, <1>2, <1>7, <1>8

----------------------------------------------------------------------------
(***************************************************************************)
(* CachedLists.  An answer about to be cached is what the database would   *)
(* answer, unless a mutation of what it shows came after it was read.      *)
(* A creation deletes no key of its entry: none can be cached, for nobody  *)
(* has found the entry before.                                             *)
(***************************************************************************)

EntryKeys == FaqIds \X UrlForms

\* The keys that mutations delete.
Evicted == {ListKey} \cup (FaqIds \X {Plain})

ReadOK(q) ==
  /\ faqRead[q].pc # "idle" => faqRead[q].key \in FaqKeys
  /\ faqRead[q].pc = "set" => faqRead[q].overtaken \/ faqRead[q].read = Current(faqRead[q].key)

\* An entry that is being created is nobody else's.
WriteOK(q) ==
  /\ faqWrite[q].pc # "idle" => faqWrite[q].entry \in FaqIds
  /\ faqWrite[q].pc = "store" /\ faqWrite[q].op = "create" =>
       /\ faq[faqWrite[q].entry].stage = "new"
       /\ \A p \in FaqWrites \ {q} : faqWrite[p].entry # faqWrite[q].entry

Fresh(k) ==
  faqCache[k] # NoEntry /\ faqCache[k].answer # Current(k) =>
    faqCache[k].overtaken \/ \E q \in FaqWrites : k \in StillToDelete(faqWrite[q])

Unseen(k) ==
  /\ faqCache[k] = NoEntry
  /\ \A q \in FaqReads : faqRead[q].pc = "set" => faqRead[q].key # k

CacheInv ==
  /\ CacheTypeOK
  /\ \A q \in FaqReads : ReadOK(q)
  /\ \A q \in FaqWrites : WriteOK(q)
  /\ \A k \in Evicted : Fresh(k)
  /\ \A k \in EntryKeys : faq[k[1]].stage = "new" => Unseen(k)

FaqType == [stage: {"new", "shown", "hidden", "gone"}, version: Nat]
FaqReadType ==
  [pc: {"idle", "get", "find", "set"}, key: FaqKeys \cup {NoEntry}, read: Answers,
   overtaken: BOOLEAN]
FaqWriteType ==
  [pc: {"idle", "store", "del.list", "del.entry"}, op: FaqOps, entry: FaqIds \cup {NoEntry}]

LEMMA CacheTypes ==
  CacheTypeOK <=> /\ faq \in [FaqIds -> FaqType]
                  /\ faqCache \in [FaqKeys -> Cached]
                  /\ faqRead \in [FaqReads -> FaqReadType]
                  /\ faqWrite \in [FaqWrites -> FaqWriteType]
                  /\ faqWrites \in 0..MaxFaqWrites
  BY DEF CacheTypeOK, FaqType, FaqReadType, FaqWriteType

LEMMA KeysKnown ==
  /\ Evicted \subseteq FaqKeys /\ EntryKeys \subseteq FaqKeys /\ ListKey \notin EntryKeys
  /\ FaqKeys = {ListKey} \cup EntryKeys
  /\ \A k \in EntryKeys : k[1] \in FaqIds /\ Scope(k) = {k[1]}
  BY PlainIsForm, ListKeyApart DEF Evicted, EntryKeys, FaqKeys, Scope

LEMMA IdleTyped ==
  /\ IdleRead \in FaqReadType /\ IdleRead.pc = "idle" /\ NoEntry \in Cached
  /\ IdleWrite \in FaqWriteType /\ IdleWrite.pc = "idle" /\ StillToDelete(IdleWrite) = {}
<1>1. NoAnswer \in Answers
  BY DEF NoAnswer, Answers
<1> QED BY <1>1 DEF IdleRead, IdleWrite, FaqReadType, FaqWriteType, FaqOps, Cached, StillToDelete

LEMMA CurrentTyped == CacheTypeOK => \A k : Current(k) \in Answers
  BY DEF CacheTypeOK, Current, Answers

\* What is found is there.
LEMMA FoundIsNotNew ==
  ASSUME NEW k \in EntryKeys, Current(k) # NoAnswer
  PROVE  faq[k[1]].stage # "new"
<1>1. Scope(k) = {k[1]}
  BY KeysKnown
<1>2. PICK i \in FaqIds : Current(k)[i] # 0
  BY DEF Current, NoAnswer
<1>3. i \in Scope(k) /\ faq[i].stage = "shown"
  BY <1>2 DEF Current
<1> QED BY <1>1, <1>3

\* Only the keys that show an entry see a change of it.
LEMMA CurrentSame ==
  ASSUME NEW k, NEW e, e \notin Scope(k), \A i \in FaqIds : i # e => faq'[i] = faq[i]
  PROVE  Current(k)' = Current(k)
<1>1. \A i \in FaqIds : i \in Scope(k) => faq'[i] = faq[i]
  OBVIOUS
<1> QED BY <1>1 DEF Current, Scope

LEMMA CurrentStays == UNCHANGED faq => \A k : Current(k)' = Current(k)
  BY DEF Current

LEMMA CacheInitInv == CacheInit => CacheInv
<1> SUFFICES ASSUME CacheInit PROVE CacheInv
  OBVIOUS
<1>1. faq \in [FaqIds -> FaqType]
  BY DEF CacheInit, FaqType
<1>2. CacheTypeOK
  BY <1>1, CacheBounds, IdleTyped, CacheTypes DEF CacheInit
<1>3. \A k \in FaqKeys : faqCache[k] = NoEntry
  BY DEF CacheInit
<1>4. /\ \A q \in FaqReads : faqRead[q].pc = "idle"
      /\ \A q \in FaqWrites : faqWrite[q].pc = "idle"
  BY IdleTyped DEF CacheInit
<1> QED BY <1>2, <1>3, <1>4, KeysKnown DEF CacheInv, ReadOK, WriteOK, Fresh, Unseen

----------------------------------------------------------------------------
\* A turn of a read.
LEMMA ReadTurnsInv ==
  ASSUME CacheInv, NEW q \in FaqReads, NEW r \in FaqReadType,
         faqRead' = [faqRead EXCEPT ![q] = r],
         r.pc # "idle" => r.key \in FaqKeys,
         r.pc = "set" => r.overtaken \/ r.read = Current(r.key),
         r.pc = "set" /\ r.key \in EntryKeys => faq[r.key[1]].stage # "new",
         UNCHANGED <<faq, faqCache, faqWrite, faqWrites>>
  PROVE  CacheInv'
<1>1. /\ faqRead' \in [FaqReads -> FaqReadType] /\ faqRead'[q] = r
      /\ \A p \in FaqReads : p # q => faqRead'[p] = faqRead[p]
  BY CacheTypes DEF CacheInv
<1>2. CacheTypeOK'
  BY <1>1, CacheTypes DEF CacheInv, CacheTypeOK, FaqReadType
<1>3. ASSUME NEW p \in FaqReads PROVE ReadOK(p)'
  BY <1>1, CurrentStays DEF CacheInv, ReadOK
<1>4. \A p \in FaqWrites : WriteOK(p)'
  BY DEF CacheInv, WriteOK
<1>5. \A k \in Evicted : Fresh(k)'
  BY CurrentStays DEF CacheInv, Fresh
<1>6. ASSUME NEW k \in EntryKeys, faq'[k[1]].stage = "new" PROVE Unseen(k)'
  BY <1>1, <1>6 DEF CacheInv, Unseen
<1> QED BY <1>2, <1>3, <1>4, <1>5, <1>6 DEF CacheInv

LEMMA ReadEndsInv ==
  ASSUME CacheInv, NEW q \in FaqReads, ReadEnds(q),
         UNCHANGED <<faq, faqCache, faqWrite, faqWrites>>
  PROVE  CacheInv'
  BY IdleTyped, ReadTurnsInv DEF ReadEnds

LEMMA StartFaqReadInv ==
  ASSUME CacheInv, NEW q \in FaqReads, NEW k \in FaqKeys, StartFaqRead(q, k)
  PROVE  CacheInv'
<1>1. PICK r : r = [IdleRead EXCEPT !.pc = "get", !.key = k]
  OBVIOUS
<1>2. r \in FaqReadType /\ r.pc = "get" /\ r.key = k
  BY <1>1, IdleTyped DEF FaqReadType
<1> QED BY <1>1, <1>2, ReadTurnsInv DEF StartFaqRead

LEMMA FaqGetInv ==
  ASSUME CacheInv, NEW q \in FaqReads, FaqGet(q)
  PROVE  CacheInv'
<1>1. CASE ReadEnds(q)
  BY <1>1, ReadEndsInv DEF FaqGet
<1>2. CASE faqRead' = [faqRead EXCEPT ![q].pc = "find"]
  <2>1. PICK r : r = [faqRead[q] EXCEPT !.pc = "find"]
    OBVIOUS
  <2>2. faqRead[q] \in FaqReadType /\ faqRead[q].key \in FaqKeys
    BY CacheTypes DEF CacheInv, ReadOK, FaqGet
  <2>3. r \in FaqReadType /\ r.pc = "find" /\ r.key = faqRead[q].key
    BY <2>1, <2>2 DEF FaqReadType
  <2>4. faqRead' = [faqRead EXCEPT ![q] = r]
    BY <1>2, <2>1, CacheTypes DEF CacheInv
  <2> QED BY <2>2, <2>3, <2>4, ReadTurnsInv DEF FaqGet
<1> QED BY <1>1, <1>2 DEF FaqGet

LEMMA FaqFindInv ==
  ASSUME CacheInv, NEW q \in FaqReads, FaqFind(q)
  PROVE  CacheInv'
<1>1. CASE ReadEnds(q)
  BY <1>1, ReadEndsInv DEF FaqFind
<1>2. CASE ~ ReadEnds(q)
  <2>1. PICK k : k = faqRead[q].key
    OBVIOUS
  <2>2. PICK r : r = [faqRead[q] EXCEPT !.pc = "set", !.read = Current(k)]
    OBVIOUS
  <2>3. faqRead[q] \in FaqReadType /\ k \in FaqKeys /\ Current(k) \in Answers
    BY <2>1, CacheTypes, CurrentTyped DEF CacheInv, ReadOK, FaqFind
  <2>4. r \in FaqReadType /\ r.pc = "set" /\ r.key = k /\ r.read = Current(k)
    BY <2>1, <2>2, <2>3 DEF FaqReadType
  <2>5. /\ k = ListKey \/ Current(k) # NoAnswer
        /\ faqRead' = [faqRead EXCEPT ![q] = r]
        /\ UNCHANGED <<faq, faqCache, faqWrite, faqWrites>>
    BY <1>2, <2>1, <2>2 DEF FaqFind
  <2>6. k \in EntryKeys => faq[k[1]].stage # "new"
    BY <2>5, FoundIsNotNew, KeysKnown
  <2> QED BY <2>3, <2>4, <2>5, <2>6, ReadTurnsInv
<1> QED BY <1>1, <1>2

LEMMA FaqReadFailsInv ==
  ASSUME CacheInv, NEW q \in FaqReads, FaqReadFails(q)
  PROVE  CacheInv'
  BY ReadEndsInv DEF FaqReadFails

LEMMA FaqSetInv ==
  ASSUME CacheInv, NEW q \in FaqReads, FaqSet(q)
  PROVE  CacheInv'
<1>1. PICK r : r = faqRead[q]
  OBVIOUS
<1>2. PICK answered : answered = [answer |-> r.read, overtaken |-> r.overtaken]
  OBVIOUS
<1>3. /\ r \in FaqReadType /\ r.pc = "set" /\ r.key \in FaqKeys
      /\ r.overtaken \/ r.read = Current(r.key)
  BY <1>1, CacheTypes DEF CacheInv, ReadOK, FaqSet
<1>4. answered \in Cached /\ answered.answer = r.read /\ answered.overtaken = r.overtaken
  BY <1>2, <1>3 DEF Cached, FaqReadType
<1>5. /\ faqCache' = [faqCache EXCEPT ![r.key] = answered]
      /\ faqRead' = [faqRead EXCEPT ![q] = IdleRead]
      /\ UNCHANGED <<faq, faqWrite, faqWrites>>
  BY <1>1, <1>2 DEF FaqSet, ReadEnds
<1>6. /\ faqCache' \in [FaqKeys -> Cached] /\ faqCache'[r.key] = answered
      /\ \A k \in FaqKeys : k # r.key => faqCache'[k] = faqCache[k]
      /\ faqRead' \in [FaqReads -> FaqReadType] /\ faqRead'[q] = IdleRead
      /\ \A p \in FaqReads : p # q => faqRead'[p] = faqRead[p]
  BY <1>3, <1>4, <1>5, CacheTypes, IdleTyped DEF CacheInv
<1>7. CacheTypeOK'
  BY <1>5, <1>6, CacheTypes DEF CacheInv, CacheTypeOK, FaqReadType
<1>8. \A p \in FaqReads : ReadOK(p)'
  BY <1>5, <1>6, CurrentStays, IdleTyped DEF CacheInv, ReadOK
<1>9. \A p \in FaqWrites : WriteOK(p)'
  BY <1>5 DEF CacheInv, WriteOK
<1>10. ASSUME NEW k \in Evicted PROVE Fresh(k)'
  <2>1. Current(k)' = Current(k) /\ faqWrite' = faqWrite /\ k \in FaqKeys
    BY <1>5, CurrentStays, KeysKnown
  <2>2. CASE k = r.key
    BY <1>3, <1>4, <1>6, <2>1, <2>2 DEF Fresh
  <2>3. CASE k # r.key
    BY <1>6, <2>1, <2>3 DEF CacheInv, Fresh
  <2> QED BY <2>2, <2>3
<1>11. ASSUME NEW k \in EntryKeys, faq'[k[1]].stage = "new" PROVE Unseen(k)'
  <2>1. Unseen(k) /\ k \in FaqKeys
    BY <1>5, <1>11, KeysKnown DEF CacheInv
  <2>2. k # r.key
    BY <1>1, <1>3, <2>1 DEF Unseen
  <2> QED BY <1>6, <2>1, <2>2, IdleTyped DEF Unseen
<1> QED BY <1>7, <1>8, <1>9, <1>10, <1>11 DEF CacheInv

----------------------------------------------------------------------------
\* A turn of a write that leaves the entries and the cache alone: it gives up
\* no key, and begins to create only an entry that nobody else is about.
LEMMA WriteTurnsInv ==
  ASSUME CacheInv, NEW q \in FaqWrites, NEW w \in FaqWriteType,
         faqWrite' = [faqWrite EXCEPT ![q] = w],
         StillToDelete(faqWrite[q]) = {}, w.pc \in {"idle", "store"},
         w.pc # "idle" => w.entry \in FaqIds,
         w.pc = "store" /\ w.op = "create" =>
           /\ faq[w.entry].stage = "new"
           /\ \A p \in FaqWrites : faqWrite[p].entry # w.entry,
         w.pc # "idle" /\ w.op # "create" => faq[w.entry].stage # "new",
         w.pc = "idle" => w.entry = NoEntry,
         UNCHANGED <<faq, faqCache, faqRead>>,
         faqWrites' \in 0..MaxFaqWrites
  PROVE  CacheInv'
<1>1. /\ faqWrite' \in [FaqWrites -> FaqWriteType] /\ faqWrite'[q] = w
      /\ \A p \in FaqWrites : p # q => faqWrite'[p] = faqWrite[p]
  BY CacheTypes DEF CacheInv
<1>2. CacheTypeOK'
  BY <1>1, CacheTypes DEF CacheInv, CacheTypeOK, FaqWriteType
<1>3. \A p \in FaqReads : ReadOK(p)'
  BY CurrentStays DEF CacheInv, ReadOK
<1>4. ASSUME NEW p \in FaqWrites PROVE WriteOK(p)'
  <2>1. CASE p = q
    BY <1>1, <2>1 DEF WriteOK
  <2>2. CASE p # q
    <3>1. WriteOK(p) /\ faqWrite'[p] = faqWrite[p] /\ faq' = faq
      BY <1>1, <2>2 DEF CacheInv
    <3>2. ASSUME faqWrite[p].pc = "store", faqWrite[p].op = "create"
          PROVE  w.entry # faqWrite[p].entry
      <4>1. faqWrite[p].entry \in FaqIds /\ faq[faqWrite[p].entry].stage = "new"
        BY <3>1, <3>2 DEF WriteOK
      <4>2. NoEntry \notin FaqIds
        BY NoEntryOutside
      <4>3. w.pc \in {"idle", "store"}
        OBVIOUS
      <4>4. w.pc = "idle" => w.entry = NoEntry
        OBVIOUS
      <4>5. w.pc # "idle" /\ w.op # "create" => faq[w.entry].stage # "new"
        OBVIOUS
      <4>6. w.pc = "store" /\ w.op = "create" => faqWrite[p].entry # w.entry
        OBVIOUS
      <4> QED BY <4>1, <4>2, <4>3, <4>4, <4>5, <4>6
    <3> QED BY <1>1, <2>2, <3>1, <3>2 DEF WriteOK
  <2> QED BY <2>1, <2>2
<1>5. ASSUME NEW k \in Evicted PROVE Fresh(k)'
  <2>1. ASSUME NEW p \in FaqWrites PROVE StillToDelete(faqWrite[p]) \subseteq StillToDelete(faqWrite'[p])
    BY <1>1
  <2> QED BY <2>1, CurrentStays DEF CacheInv, Fresh
<1>6. \A k \in EntryKeys : faq'[k[1]].stage = "new" => Unseen(k)'
  BY DEF CacheInv, Unseen
<1> QED BY <1>2, <1>3, <1>4, <1>5, <1>6 DEF CacheInv
LEMMA StartFaqWriteInv ==
  ASSUME CacheInv, NEW q \in FaqWrites, NEW op \in FaqOps, NEW i \in FaqIds,
         StartFaqWrite(q, op, i)
  PROVE  CacheInv'
<1>1. PICK w : w = [pc |-> "store", op |-> op, entry |-> i]
  OBVIOUS
<1>2. w \in FaqWriteType /\ w.pc = "store" /\ w.op = op /\ w.entry = i
  BY <1>1 DEF FaqWriteType
<1>3. faqWrites' \in 0..MaxFaqWrites
  BY CacheBounds DEF CacheInv, CacheTypeOK, StartFaqWrite
<1>4. StillToDelete(faqWrite[q]) = {}
  BY DEF StartFaqWrite, StillToDelete
<1>5. /\ faqWrite' = [faqWrite EXCEPT ![q] = w]
      /\ op = "create" => /\ faq[i].stage = "new"
                          /\ \A p \in FaqWrites : faqWrite[p].entry # i
      /\ op # "create" => faq[i].stage # "new"
      /\ UNCHANGED <<faq, faqCache, faqRead>>
  BY <1>1 DEF StartFaqWrite
<1> QED BY <1>2, <1>3, <1>4, <1>5, WriteTurnsInv

LEMMA WriteEndsInv ==
  ASSUME CacheInv, NEW q \in FaqWrites, faqWrite[q].pc = "store",
         faqWrite' = [faqWrite EXCEPT ![q] = IdleWrite],
         UNCHANGED <<faq, faqCache, faqRead, faqWrites>>
  PROVE  CacheInv'
<1>1. faqWrites' \in 0..MaxFaqWrites
  BY DEF CacheInv, CacheTypeOK
<1>2. IdleWrite.entry = NoEntry /\ StillToDelete(faqWrite[q]) = {}
  BY DEF IdleWrite, StillToDelete
<1> QED BY <1>1, <1>2, IdleTyped, WriteTurnsInv

LEMMA FaqWriteFailsInv ==
  ASSUME CacheInv, NEW q \in FaqWrites, FaqWriteFails(q)
  PROVE  CacheInv'
  BY WriteEndsInv DEF FaqWriteFails

\* The entry changes, and with it the write has keys to delete: every key that
\* shows the entry, or the entry is new and none is in use but the list's.  The
\* reads that show it are overtaken.
LEMMA FaqStoreInv ==
  ASSUME CacheInv, NEW q \in FaqWrites, FaqStore(q)
  PROVE  CacheInv'
<1>1. PICK w : w = faqWrite[q]
  OBVIOUS
<1>2. /\ w \in FaqWriteType /\ w.pc = "store" /\ w.entry \in FaqIds
      /\ UNCHANGED <<faqCache, faqWrites>>
  BY <1>1, CacheTypes DEF CacheInv, WriteOK, FaqStore
<1>3. PICK e : e = w.entry
  OBVIOUS
<1>4. PICK row : row = [stage |-> StageAfter(w.op), version |-> faq[e].version + 1]
  OBVIOUS
<1>5. CASE faqWrite' = [faqWrite EXCEPT ![q] = IdleWrite] /\ UNCHANGED <<faq, faqRead>>
  BY <1>1, <1>2, <1>5, WriteEndsInv
<1>6. CASE /\ faqWrite' = [faqWrite EXCEPT ![q].pc = "del.list"]
           /\ faq' = [faq EXCEPT ![e] = row]
           /\ faqRead' = [p \in FaqReads |->
                [faqRead[p] EXCEPT !.overtaken =
                   @ \/ (faqRead[p].pc = "set" /\ e \in Scope(faqRead[p].key))]]
  <2>1. row \in FaqType /\ row.stage # "new" /\ e \in FaqIds
    <3>1. faq[e].version \in Nat
      BY <1>2, <1>3, CacheTypes DEF CacheInv, FaqType
    <3> QED BY <1>2, <1>3, <1>4, <3>1 DEF FaqType, StageAfter
  <2>2. /\ faq' \in [FaqIds -> FaqType] /\ faq'[e].stage # "new"
        /\ \A i \in FaqIds : i # e => faq'[i] = faq[i]
    BY <1>6, <2>1, CacheTypes DEF CacheInv
  <2>3. /\ faqWrite' \in [FaqWrites -> FaqWriteType]
        /\ faqWrite'[q].pc = "del.list" /\ faqWrite'[q].entry = e /\ faqWrite'[q].op = w.op
        /\ \A p \in FaqWrites : p # q => faqWrite'[p] = faqWrite[p]
    BY <1>1, <1>2, <1>3, <1>6, CacheTypes DEF CacheInv, FaqWriteType
  <2>4. ASSUME NEW p \in FaqReads
        PROVE  /\ faqRead'[p] \in FaqReadType
               /\ faqRead'[p].pc = faqRead[p].pc /\ faqRead'[p].key = faqRead[p].key
               /\ faqRead'[p].read = faqRead[p].read
               /\ faqRead'[p].overtaken =
                    (faqRead[p].overtaken
                       \/ (faqRead[p].pc = "set" /\ e \in Scope(faqRead[p].key)))
    <3>1. faqRead[p] \in FaqReadType
      BY CacheTypes DEF CacheInv
    <3> QED BY <1>6, <3>1 DEF FaqReadType
  <2>5. faqRead' \in [FaqReads -> FaqReadType]
    BY <1>6, <2>4
  <2>6. CacheTypeOK'
    <3>1. faqCache' \in [FaqKeys -> Cached] /\ faqWrites' \in 0..MaxFaqWrites
      BY <1>2 DEF CacheInv, CacheTypeOK
    <3> QED BY <2>2, <2>3, <2>5, <3>1 DEF CacheTypeOK, FaqType, FaqReadType, FaqWriteType
  <2>7. ASSUME NEW p \in FaqReads PROVE ReadOK(p)'
    <3>1. ReadOK(p)
      BY DEF CacheInv
    <3>2. PICK k : k = faqRead[p].key /\ k = faqRead'[p].key
      BY <2>4
    <3>3. e \notin Scope(k) => Current(k)' = Current(k)
      BY <2>2, CurrentSame
    <3>4. (faqRead[p].pc # "idle" => k \in FaqKeys) /\ faqRead'[p].pc = faqRead[p].pc
      BY <2>4, <3>1, <3>2 DEF ReadOK
    <3>5. ASSUME faqRead'[p].pc = "set"
          PROVE  faqRead'[p].overtaken \/ faqRead'[p].read = Current(k)'
      BY <2>4, <3>1, <3>2, <3>3, <3>5 DEF ReadOK
    <3>6. faqRead'[p].pc = "set" =>
            faqRead'[p].overtaken \/ faqRead'[p].read = Current(faqRead[p].key)'
      BY <3>2, <3>5 DEF Current
    <3> QED BY <3>2, <3>4, <3>6 DEF ReadOK
  <2>8. ASSUME NEW p \in FaqWrites PROVE WriteOK(p)'
    <3>1. CASE p = q
      BY <2>1, <2>3, <3>1 DEF WriteOK
    <3>2. CASE p # q
      <4>1. WriteOK(p) /\ faqWrite'[p] = faqWrite[p]
        BY <2>3, <3>2 DEF CacheInv
      <4>2. ASSUME faqWrite[p].pc = "store", faqWrite[p].op = "create"
            PROVE  faqWrite[p].entry # e /\ faqWrite[p].entry \in FaqIds
        BY <1>1, <1>3, <3>2, <4>1, <4>2 DEF WriteOK
      <4>3. \A r \in FaqWrites : faqWrite'[r].entry = faqWrite[r].entry
        BY <1>1, <1>3, <2>3
      <4> QED BY <2>2, <4>1, <4>2, <4>3 DEF WriteOK
    <3> QED BY <3>1, <3>2
  <2>9. ASSUME NEW k \in EntryKeys, faq'[k[1]].stage = "new" PROVE Unseen(k)'
    <3>1. k[1] \in FaqIds /\ k[1] # e
      BY <2>2, <2>9, KeysKnown
    <3>2. Unseen(k)
      BY <2>2, <2>9, <3>1 DEF CacheInv
    <3> QED BY <1>2, <2>4, <3>2 DEF Unseen
  <2>10. ASSUME NEW k \in Evicted PROVE Fresh(k)'
    <3>1. Fresh(k) /\ k \in FaqKeys /\ faqCache' = faqCache
      BY <1>2, KeysKnown DEF CacheInv
    <3>2. CASE e \notin Scope(k)
      <4>1. Current(k)' = Current(k)
        BY <2>2, <3>2, CurrentSame
      <4>2. StillToDelete(faqWrite[q]) = {}
        BY <1>1, <1>2 DEF StillToDelete
      <4> QED BY <2>3, <3>1, <4>1, <4>2 DEF Fresh
    <3>3. CASE k = ListKey
      <4>1. k \in StillToDelete(faqWrite'[q])
        BY <2>3, <3>1, <3>3 DEF StillToDelete
      <4> QED BY <4>1 DEF Fresh
    <3>4. CASE e \in Scope(k) /\ k # ListKey
      <4>1. k = <<e, Plain>> /\ k \in EntryKeys
        BY <3>4, PlainIsForm DEF Evicted, EntryKeys, Scope
      <4>2. CASE w.op = "create"
        <5>1. faq[e].stage = "new"
          BY <1>1, <1>2, <1>3, <4>2 DEF CacheInv, WriteOK
        <5>2. Unseen(k)
          BY <4>1, <5>1 DEF CacheInv
        <5> QED BY <3>1, <5>2 DEF Unseen, Fresh
      <4>3. CASE w.op # "create"
        <5>1. k \in StillToDelete(faqWrite'[q])
          BY <2>3, <3>1, <4>1, <4>3 DEF StillToDelete
        <5> QED BY <5>1 DEF Fresh
      <4> QED BY <4>2, <4>3
    <3> QED BY <3>2, <3>3, <3>4
  <2> QED BY <2>6, <2>7, <2>8, <2>9, <2>10 DEF CacheInv
<1> QED BY <1>1, <1>3, <1>4, <1>5, <1>6 DEF FaqStore
LEMMA FaqEvictListInv ==
  ASSUME CacheInv, NEW q \in FaqWrites, FaqEvictList(q)
  PROVE  CacheInv'
<1>1. PICK w : w = faqWrite[q]
  OBVIOUS
<1>2. /\ w \in FaqWriteType /\ w.pc = "del.list" /\ w.entry \in FaqIds
      /\ faqCache' = [faqCache EXCEPT ![ListKey] = NoEntry]
      /\ faqWrite' = [faqWrite EXCEPT ![q] = AfterList(w)]
      /\ UNCHANGED <<faq, faqRead, faqWrites>>
  BY <1>1, CacheTypes DEF CacheInv, WriteOK, FaqEvictList
<1>3. /\ AfterList(w) \in FaqWriteType
      /\ AfterList(w).pc \in {"idle", "del.entry"} /\ AfterList(w).entry \in {NoEntry, w.entry}
      /\ AfterList(w).pc # "idle" => AfterList(w).entry = w.entry
      /\ StillToDelete(w) \subseteq StillToDelete(AfterList(w)) \cup {ListKey}
  <2>1. CASE w.op = "create"
    BY <1>2, <2>1, IdleTyped DEF AfterList, StillToDelete, IdleWrite
  <2>2. CASE w.op # "create"
    BY <1>2, <2>2 DEF AfterList, StillToDelete, FaqWriteType
  <2> QED BY <2>1, <2>2
<1>4. /\ faqWrite' \in [FaqWrites -> FaqWriteType] /\ faqWrite'[q] = AfterList(w)
      /\ \A p \in FaqWrites : p # q => faqWrite'[p] = faqWrite[p]
  BY <1>2, <1>3, CacheTypes DEF CacheInv
<1>5. /\ faqCache' \in [FaqKeys -> Cached] /\ faqCache'[ListKey] = NoEntry
      /\ \A k \in FaqKeys : k # ListKey => faqCache'[k] = faqCache[k]
  BY <1>2, CacheTypes, IdleTyped, KeysKnown DEF CacheInv
<1>6. CacheTypeOK'
  BY <1>2, <1>4, <1>5, CacheTypes DEF CacheInv, CacheTypeOK, FaqWriteType
<1>7. \A p \in FaqReads : ReadOK(p)'
  BY <1>2, CurrentStays DEF CacheInv, ReadOK
<1>8. ASSUME NEW p \in FaqWrites PROVE WriteOK(p)'
  BY <1>1, <1>2, <1>3, <1>4, NoEntryOutside DEF CacheInv, WriteOK
<1>9. ASSUME NEW k \in Evicted PROVE Fresh(k)'
  <2>1. Current(k)' = Current(k) /\ k \in FaqKeys /\ Fresh(k)
    BY <1>2, CurrentStays, KeysKnown DEF CacheInv
  <2>2. CASE k = ListKey
    BY <1>5, <2>2 DEF Fresh
  <2>3. CASE k # ListKey
    BY <1>1, <1>3, <1>4, <1>5, <2>1, <2>3 DEF Fresh
  <2> QED BY <2>2, <2>3
<1>10. \A k \in EntryKeys : faq'[k[1]].stage = "new" => Unseen(k)'
  BY <1>2, <1>5, KeysKnown DEF CacheInv, Unseen
<1> QED BY <1>6, <1>7, <1>8, <1>9, <1>10 DEF CacheInv

LEMMA FaqEvictEntryInv ==
  ASSUME CacheInv, NEW q \in FaqWrites, FaqEvictEntry(q)
  PROVE  CacheInv'
<1>1. PICK key : key = <<faqWrite[q].entry, Plain>>
  OBVIOUS
<1>2. /\ faqWrite[q].pc = "del.entry" /\ key \in FaqKeys
      /\ faqCache' = [faqCache EXCEPT ![key] = NoEntry]
      /\ faqWrite' = [faqWrite EXCEPT ![q] = IdleWrite]
      /\ UNCHANGED <<faq, faqRead, faqWrites>>
  BY <1>1, PlainIsForm DEF CacheInv, WriteOK, FaqEvictEntry, FaqKeys
<1>3. /\ faqWrite' \in [FaqWrites -> FaqWriteType] /\ faqWrite'[q] = IdleWrite
      /\ \A p \in FaqWrites : p # q => faqWrite'[p] = faqWrite[p]
  BY <1>2, IdleTyped, CacheTypes DEF CacheInv
<1>4. /\ faqCache' \in [FaqKeys -> Cached] /\ faqCache'[key] = NoEntry
      /\ \A k \in FaqKeys : k # key => faqCache'[k] = faqCache[k]
  BY <1>2, CacheTypes, IdleTyped DEF CacheInv
<1>5. CacheTypeOK'
  BY <1>2, <1>3, <1>4, CacheTypes DEF CacheInv, CacheTypeOK, FaqWriteType
<1>6. \A p \in FaqReads : ReadOK(p)'
  BY <1>2, CurrentStays DEF CacheInv, ReadOK
<1>7. ASSUME NEW p \in FaqWrites PROVE WriteOK(p)'
  BY <1>2, <1>3, NoEntryOutside DEF CacheInv, WriteOK, IdleWrite
<1>8. ASSUME NEW k \in Evicted PROVE Fresh(k)'
  <2>1. Current(k)' = Current(k) /\ k \in FaqKeys /\ Fresh(k)
    BY <1>2, CurrentStays, KeysKnown DEF CacheInv
  <2>2. CASE k = key
    BY <1>4, <2>2 DEF Fresh
  <2>3. CASE k # key
    <3>1. k \notin StillToDelete(faqWrite[q])
      BY <1>1, <1>2, <2>3 DEF StillToDelete
    <3> QED BY <1>3, <1>4, <2>1, <2>3, <3>1 DEF Fresh
  <2> QED BY <2>2, <2>3
<1>9. \A k \in EntryKeys : faq'[k[1]].stage = "new" => Unseen(k)'
  BY <1>2, <1>4, KeysKnown DEF CacheInv, Unseen
<1> QED BY <1>5, <1>6, <1>7, <1>8, <1>9 DEF CacheInv

----------------------------------------------------------------------------
LEMMA AnswerExpiresInv ==
  ASSUME CacheInv, NEW key \in FaqKeys, AnswerExpires(key)
  PROVE  CacheInv'
<1>1. UNCHANGED <<faq, faqRead, faqWrite, faqWrites>>
  BY DEF AnswerExpires
<1>2. /\ faqCache' \in [FaqKeys -> Cached] /\ faqCache'[key] = NoEntry
      /\ \A k \in FaqKeys : k # key => faqCache'[k] = faqCache[k]
  BY CacheTypes, IdleTyped DEF CacheInv, AnswerExpires
<1>3. CacheTypeOK'
  BY <1>1, <1>2 DEF CacheInv, CacheTypeOK
<1>4. /\ \A p \in FaqReads : ReadOK(p)'
      /\ \A p \in FaqWrites : WriteOK(p)'
  BY <1>1, CurrentStays DEF CacheInv, ReadOK, WriteOK
<1>5. ASSUME NEW k \in Evicted PROVE Fresh(k)'
  BY <1>1, <1>2, CurrentStays, KeysKnown DEF CacheInv, Fresh
<1>6. \A k \in EntryKeys : faq'[k[1]].stage = "new" => Unseen(k)'
  BY <1>1, <1>2, KeysKnown DEF CacheInv, Unseen
<1> QED BY <1>3, <1>4, <1>5, <1>6 DEF CacheInv

LEMMA CacheProcessStopsInv ==
  ASSUME CacheInv, CacheProcessStops
  PROVE  CacheInv'
<1>1. /\ faqCache' = [k \in FaqKeys |-> NoEntry]
      /\ faqRead' = [q \in FaqReads |-> IdleRead]
      /\ faqWrite' = [q \in FaqWrites |-> IdleWrite]
      /\ UNCHANGED <<faq, faqWrites>>
  BY DEF CacheProcessStops
<1>2. /\ faqCache' \in [FaqKeys -> Cached] /\ faqRead' \in [FaqReads -> FaqReadType]
      /\ faqWrite' \in [FaqWrites -> FaqWriteType]
  BY <1>1, IdleTyped
<1>3. CacheTypeOK'
  BY <1>1, <1>2 DEF CacheInv, CacheTypeOK, FaqReadType, FaqWriteType
<1> QED BY <1>1, <1>3, IdleTyped, KeysKnown DEF CacheInv, ReadOK, WriteOK, Fresh, Unseen

LEMMA CacheNextInv == CacheInv /\ [CacheNext]_cacheVars => CacheInv'
<1> SUFFICES ASSUME CacheInv, [CacheNext]_cacheVars PROVE CacheInv'
  OBVIOUS
<1>1. CASE \E q \in FaqReads :
             \/ \E k \in FaqKeys : StartFaqRead(q, k)
             \/ FaqGet(q) \/ FaqFind(q) \/ FaqSet(q) \/ FaqReadFails(q)
  BY <1>1, StartFaqReadInv, FaqGetInv, FaqFindInv, FaqSetInv, FaqReadFailsInv
<1>2. CASE \E q \in FaqWrites :
             \/ \E op \in FaqOps, i \in FaqIds : StartFaqWrite(q, op, i)
             \/ FaqStore(q) \/ FaqEvictList(q) \/ FaqEvictEntry(q) \/ FaqWriteFails(q)
  BY <1>2, StartFaqWriteInv, FaqStoreInv, FaqEvictListInv, FaqEvictEntryInv, FaqWriteFailsInv
<1>3. CASE (\E k \in FaqKeys : AnswerExpires(k)) \/ CacheProcessStops
  BY <1>3, AnswerExpiresInv, CacheProcessStopsInv
<1>4. CASE UNCHANGED cacheVars
  BY <1>4, CurrentStays
  DEF cacheVars, CacheInv, CacheTypeOK, Fresh, Unseen, ReadOK, WriteOK
<1> QED BY <1>1, <1>2, <1>3, <1>4 DEF CacheNext

\* For any entries, ways to write their URLs, readers and writers: what is cached
\* of the FAQ under the keys that mutations delete differs from the collection
\* only while a mutation has still to delete the key, or because an answer read
\* before a mutation was cached after it.
THEOREM FaqIsStaleOnlyByRace == CacheSpec => []FaqStaleOnlyByRace
<1>1. CacheInv => FaqStaleOnlyByRace
  BY DEF CacheInv, Evicted, Fresh, FaqStaleOnlyByRace
<1> QED BY <1>1, CacheInitInv, CacheNextInv, PTL DEF CacheSpec

----------------------------------------------------------------------------
(***************************************************************************)
(* Idempotency.  Without a race, what a handler has answered is stored or  *)
(* being stored; and a handler that runs is alone with its user and key,   *)
(* with nothing stored or being stored for them.                           *)
(***************************************************************************)

\* A request of this user and key is with the handler.
Handles(q, k, u) ==
  /\ idemCall[q].pc = "handler"
  /\ idemCall[q].request.key = k /\ idemCall[q].request.user = u

Saving(k, u) == \E s \in saves : s.key = k /\ s.user = u

Stored(k, u) == record[k] # NoRecord /\ record[k].user = u

AnswerKept(k, u) == ran[k][u] > 0 => Saving(k, u) \/ Stored(k, u)

HandlerAlone(k, u) ==
  \A q \in IdemCalls :
    Handles(q, k, u) =>
      /\ ~ Saving(k, u) /\ ~ Stored(k, u)
      /\ \A p \in IdemCalls : Handles(p, k, u) => p = q

IdemInv ==
  /\ IdemTypeOK
  /\ \A k \in Keys, u \in Users :
       <<k, u>> \notin raced =>
         AnswerKept(k, u) /\ HandlerAlone(k, u) /\ ran[k][u] <= 1

LEMMA IdemInitInv == IdemInit => IdemInv
<1> SUFFICES ASSUME IdemInit PROVE IdemInv
  OBVIOUS
<1>1. IdemTypeOK
  BY IdemBounds DEF IdemInit, IdemTypeOK, IdleIdem
<1> QED BY <1>1 DEF IdemInit, IdemInv, AnswerKept, HandlerAlone, Handles, IdleIdem

\* A call turns without the handler answering it.
LEMMA IdemCallTyped ==
  ASSUME IdemTypeOK, NEW q \in IdemCalls
  PROVE  /\ idemCall[q] # IdleIdem => idemCall[q].request \in Requests
         /\ idemCall[q].pc \in {"find", "handler"} => idemCall[q] # IdleIdem
         /\ IdleIdem.pc = "idle"
  BY DEF IdemTypeOK, IdleIdem

LEMMA StartIdemInv ==
  ASSUME IdemInv, NEW q \in IdemCalls, NEW r \in Requests, StartIdem(q, r)
  PROVE  IdemInv'
<1>1. PICK call : call = [pc |-> "find", request |-> r]
  OBVIOUS
<1>2. /\ idemCall' = [idemCall EXCEPT ![q] = call] /\ call.pc = "find"
      /\ call \in [pc: {"find", "handler"}, request: Requests]
      /\ UNCHANGED <<record, saves, ran, raced, replayed>>
  BY <1>1 DEF StartIdem
<1>3. idemCalls' \in 0..MaxIdemCalls
  BY IdemBounds DEF StartIdem, IdemInv, IdemTypeOK
<1>4. /\ idemCall'[q].pc = "find"
      /\ \A p \in IdemCalls : p # q => idemCall'[p] = idemCall[p]
      /\ idemCall' \in [IdemCalls -> {IdleIdem} \cup [pc: {"find", "handler"}, request: Requests]]
  BY <1>2 DEF IdemInv, IdemTypeOK
<1>5. IdemTypeOK'
  BY <1>2, <1>3, <1>4 DEF IdemInv, IdemTypeOK
<1>6. \A p \in IdemCalls, k \in Keys, u \in Users : Handles(p, k, u)' => Handles(p, k, u)
  BY <1>4 DEF Handles
<1> QED BY <1>2, <1>5, <1>6 DEF IdemInv, AnswerKept, HandlerAlone, Saving, Stored

\* A hit ends the request; a miss joins the handlers, and is a race if another
\* request of its user and key is on its way.
LEMMA IdemFindInv ==
  ASSUME IdemInv, NEW q \in IdemCalls, IdemFind(q)
  PROVE  IdemInv'
<1>1. PICK r : r = idemCall[q].request
  OBVIOUS
<1>2. /\ IdemTypeOK /\ r \in Requests /\ idemCall[q].pc = "find"
      /\ r.key \in Keys /\ r.user \in Users
      /\ UNCHANGED <<record, saves, ran, idemCalls>>
  BY <1>1, IdemCallTyped DEF IdemInv, IdemFind, Requests
<1>3. CASE Stored(r.key, r.user)
  <2>1. /\ replayed' = [request |-> r, record |-> record[r.key]]
        /\ idemCall' = [idemCall EXCEPT ![q] = IdleIdem] /\ UNCHANGED raced
    BY <1>1, <1>3 DEF IdemFind, Stored
  <2>2. record[r.key] \in Records
    BY <1>2, <1>3 DEF Stored, IdemTypeOK
  <2>3. /\ idemCall'[q].pc = "idle"
        /\ \A p \in IdemCalls : p # q => idemCall'[p] = idemCall[p]
        /\ idemCall' \in [IdemCalls -> {IdleIdem} \cup [pc: {"find", "handler"}, request: Requests]]
    BY <1>2, <2>1, IdemCallTyped DEF IdemTypeOK
  <2>4. replayed' \in {NoRecord} \cup [request: Requests, record: Records]
    BY <1>2, <2>1, <2>2
  <2>5. IdemTypeOK'
    BY <1>2, <2>1, <2>3, <2>4 DEF IdemTypeOK
  <2>6. \A p \in IdemCalls, k \in Keys, u \in Users : Handles(p, k, u)' => Handles(p, k, u)
    BY <2>3 DEF Handles
  <2> QED BY <1>2, <2>1, <2>5, <2>6 DEF IdemInv, AnswerKept, HandlerAlone, Saving, Stored
<1>4. CASE ~ Stored(r.key, r.user)
  <2>1. /\ idemCall' = [idemCall EXCEPT ![q].pc = "handler"] /\ UNCHANGED replayed
        /\ raced' = IF UnderWay(r) THEN raced \cup {<<r.key, r.user>>} ELSE raced
    BY <1>1, <1>4 DEF IdemFind, Stored
  <2>2. idemCall[q] \in [pc: {"find", "handler"}, request: Requests]
    BY <1>2, IdemCallTyped DEF IdemTypeOK
  <2>3. /\ idemCall'[q].pc = "handler" /\ idemCall'[q].request = r
        /\ \A p \in IdemCalls : p # q => idemCall'[p] = idemCall[p]
        /\ idemCall' \in [IdemCalls -> {IdleIdem} \cup [pc: {"find", "handler"}, request: Requests]]
    BY <1>1, <1>2, <2>1, <2>2 DEF IdemTypeOK
  <2>4. raced \subseteq raced' /\ raced' \in SUBSET (Keys \X Users)
    BY <1>2, <2>1 DEF IdemTypeOK
  <2>5. IdemTypeOK'
    BY <1>2, <2>1, <2>3, <2>4 DEF IdemTypeOK
  <2>6. ASSUME NEW k \in Keys, NEW u \in Users, <<k, u>> \notin raced'
        PROVE  AnswerKept(k, u)' /\ HandlerAlone(k, u)' /\ (ran[k][u] <= 1)'
    <3>1. AnswerKept(k, u) /\ HandlerAlone(k, u) /\ ran[k][u] <= 1
      BY <2>4, <2>6 DEF IdemInv
    <3>2. CASE k = r.key /\ u = r.user
      <4>1. ~ UnderWay(r)
        BY <2>1, <2>6, <3>2
      <4>2. /\ \A p \in IdemCalls : ~ Handles(p, k, u)
            /\ ~ Saving(k, u) /\ ~ Stored(k, u)
        BY <1>4, <3>2, <4>1 DEF UnderWay, Handles, Saving
      <4>3. \A p \in IdemCalls : p # q => ~ Handles(p, k, u)'
        BY <2>3, <4>2 DEF Handles
      <4> QED BY <1>2, <3>1, <4>2, <4>3 DEF AnswerKept, HandlerAlone, Saving, Stored
    <3>3. CASE ~ (k = r.key /\ u = r.user)
      <4>1. \A p \in IdemCalls : Handles(p, k, u)' => Handles(p, k, u)
        BY <2>3, <3>3 DEF Handles
      <4> QED BY <1>2, <3>1, <4>1 DEF AnswerKept, HandlerAlone, Saving, Stored
    <3> QED BY <3>2, <3>3
  <2> QED BY <2>5, <2>6 DEF IdemInv
<1> QED BY <1>3, <1>4

\* A handler that was alone answers its user's key for the first time.
LEMMA IdemAnswerInv ==
  ASSUME IdemInv, NEW q \in IdemCalls, IdemAnswer(q)
  PROVE  IdemInv'
<1>1. PICK r : r = idemCall[q].request
  OBVIOUS
<1>2. /\ IdemTypeOK /\ r \in Requests /\ idemCall[q].pc = "handler"
      /\ r.key \in Keys /\ r.user \in Users
      /\ saves' = saves \cup {r}
      /\ idemCall' = [idemCall EXCEPT ![q] = IdleIdem]
      /\ UNCHANGED <<record, raced, replayed, idemCalls>>
  BY <1>1, IdemCallTyped DEF IdemInv, IdemAnswer, Requests
<1>3. /\ ran \in [Keys -> [Users -> 0..2]]
      /\ ran' = [ran EXCEPT ![r.key][r.user] = IF @ = 2 THEN 2 ELSE @ + 1]
  BY <1>1, <1>2 DEF IdemTypeOK, IdemAnswer
<1>4. /\ ran' \in [Keys -> [Users -> 0..2]]
      /\ \A k \in Keys, u \in Users :
           ~ (k = r.key /\ u = r.user) => ran'[k][u] = ran[k][u]
      /\ ran[r.key][r.user] = 0 => ran'[r.key][r.user] = 1
  <2>1. ran[r.key] \in [Users -> 0..2] /\ ran[r.key][r.user] \in 0..2
    BY <1>2, <1>3
  <2>2. PICK n : n = IF ran[r.key][r.user] = 2 THEN 2 ELSE ran[r.key][r.user] + 1
    OBVIOUS
  <2>3. n \in 0..2 /\ (ran[r.key][r.user] = 0 => n = 1)
    BY <2>1, <2>2
  <2>4. ran' = [ran EXCEPT ![r.key] = [ran[r.key] EXCEPT ![r.user] = n]]
    BY <1>2, <1>3, <2>2
  <2> QED BY <1>2, <1>3, <2>1, <2>3, <2>4
<1>5. /\ idemCall'[q].pc = "idle"
      /\ \A p \in IdemCalls : p # q => idemCall'[p] = idemCall[p]
      /\ idemCall' \in [IdemCalls -> {IdleIdem} \cup [pc: {"find", "handler"}, request: Requests]]
  BY <1>2, IdemCallTyped DEF IdemTypeOK
<1>6. saves' \in SUBSET Requests
  BY <1>2 DEF IdemTypeOK
<1>7. IdemTypeOK'
  BY <1>2, <1>4, <1>5, <1>6 DEF IdemTypeOK
<1>8. ASSUME NEW k \in Keys, NEW u \in Users, <<k, u>> \notin raced'
      PROVE  AnswerKept(k, u)' /\ HandlerAlone(k, u)' /\ (ran[k][u] <= 1)'
  <2>1. AnswerKept(k, u) /\ HandlerAlone(k, u) /\ ran[k][u] <= 1
    BY <1>2, <1>8 DEF IdemInv
  <2>2. \A p \in IdemCalls : Handles(p, k, u)' => Handles(p, k, u) /\ p # q
    BY <1>5 DEF Handles
  <2>3. CASE k = r.key /\ u = r.user
    <3>1. Handles(q, k, u)
      BY <1>1, <1>2, <2>3 DEF Handles
    <3>2. ~ Saving(k, u) /\ ~ Stored(k, u) /\ \A p \in IdemCalls : Handles(p, k, u) => p = q
      BY <2>1, <3>1 DEF HandlerAlone
    <3>3. ran[k][u] = 0
      BY <1>3, <2>1, <3>2 DEF AnswerKept
    <3>4. ran'[k][u] = 1
      BY <1>4, <2>3, <3>3
    <3>5. Saving(k, u)'
      BY <1>2, <2>3 DEF Saving
    <3>6. HandlerAlone(k, u)'
      BY <2>2, <3>2 DEF HandlerAlone
    <3> QED BY <3>4, <3>5, <3>6 DEF AnswerKept
  <2>4. CASE ~ (k = r.key /\ u = r.user)
    <3>1. Saving(k, u)' <=> Saving(k, u)
      BY <1>2, <2>4 DEF Saving
    <3>2. Stored(k, u)' <=> Stored(k, u)
      BY <1>2 DEF Stored
    <3>3. ran'[k][u] = ran[k][u]
      BY <1>4, <2>4
    <3> QED BY <2>1, <2>2, <3>1, <3>2, <3>3 DEF AnswerKept, HandlerAlone
  <2> QED BY <2>3, <2>4
<1> QED BY <1>7, <1>8 DEF IdemInv

LEMMA IdemFailsInv ==
  ASSUME IdemInv, NEW q \in IdemCalls, IdemFails(q)
  PROVE  IdemInv'
<1>1. /\ idemCall'[q].pc = "idle"
      /\ \A p \in IdemCalls : p # q => idemCall'[p] = idemCall[p]
      /\ idemCall' \in [IdemCalls -> {IdleIdem} \cup [pc: {"find", "handler"}, request: Requests]]
      /\ UNCHANGED <<record, saves, ran, raced, replayed, idemCalls>>
  BY IdemCallTyped DEF IdemFails, IdemInv, IdemTypeOK
<1>2. IdemTypeOK'
  BY <1>1 DEF IdemInv, IdemTypeOK
<1>3. \A p \in IdemCalls, k \in Keys, u \in Users : Handles(p, k, u)' => Handles(p, k, u)
  BY <1>1 DEF Handles
<1> QED BY <1>1, <1>2, <1>3 DEF IdemInv, AnswerKept, HandlerAlone, Saving, Stored

\* What ends with the process was a race for those whose answer was not stored.
LEMMA StopsInv ==
  ASSUME IdemInv, Stops, UNCHANGED <<record, ran, replayed, idemCalls>>
  PROVE  IdemInv'
<1>1. /\ idemCall' = [q \in IdemCalls |-> IdleIdem] /\ saves' = {}
      /\ raced' = raced \cup {<<s.key, s.user>> : s \in saves}
  BY DEF Stops
<1>2. raced' \in SUBSET (Keys \X Users)
  BY <1>1 DEF IdemInv, IdemTypeOK, Requests
<1>3. IdemTypeOK'
  BY <1>1, <1>2 DEF IdemInv, IdemTypeOK
<1>4. ASSUME NEW k \in Keys, NEW u \in Users, <<k, u>> \notin raced'
      PROVE  AnswerKept(k, u)' /\ HandlerAlone(k, u)' /\ (ran[k][u] <= 1)'
  <2>1. AnswerKept(k, u) /\ ran[k][u] <= 1
    BY <1>1, <1>4 DEF IdemInv
  <2>2. ~ Saving(k, u)
    BY <1>1, <1>4 DEF Saving
  <2>3. \A q \in IdemCalls : ~ Handles(q, k, u)'
    BY <1>1 DEF Handles, IdleIdem
  <2> QED BY <2>1, <2>2, <2>3 DEF AnswerKept, HandlerAlone, Saving, Stored
<1> QED BY <1>3, <1>4 DEF IdemInv

LEMMA IdemSaveInv ==
  ASSUME IdemInv, NEW s \in saves, IdemSave(s)
  PROVE  IdemInv'
<1>1. /\ IdemTypeOK /\ s \in Requests /\ s.key \in Keys /\ s.user \in Users /\ s.path \in Paths
      /\ UNCHANGED <<ran, replayed, idemCalls>>
  BY DEF IdemInv, IdemTypeOK, IdemSave, Requests
<1>2. CASE /\ record[s.key] = NoRecord
           /\ record' = [record EXCEPT ![s.key] = [user |-> s.user, path |-> s.path]]
           /\ saves' = saves \ {s} /\ UNCHANGED <<idemCall, raced>>
  <2>1. PICK rec : rec = [user |-> s.user, path |-> s.path]
    OBVIOUS
  <2>2. rec \in Records /\ rec.user = s.user
    BY <1>1, <2>1 DEF Records
  <2>3. /\ record' \in [Keys -> {NoRecord} \cup Records] /\ record'[s.key] = rec
        /\ \A k \in Keys : k # s.key => record'[k] = record[k]
    BY <1>1, <1>2, <2>1, <2>2 DEF IdemTypeOK
  <2>4. IdemTypeOK'
    BY <1>1, <1>2, <2>3 DEF IdemTypeOK
  <2>5. ASSUME NEW k \in Keys, NEW u \in Users, <<k, u>> \notin raced'
        PROVE  AnswerKept(k, u)' /\ HandlerAlone(k, u)' /\ (ran[k][u] <= 1)'
    <3>1. AnswerKept(k, u) /\ HandlerAlone(k, u) /\ ran[k][u] <= 1
      BY <1>2, <2>5 DEF IdemInv
    <3>2. \A q \in IdemCalls : Handles(q, k, u)' <=> Handles(q, k, u)
      BY <1>2 DEF Handles
    <3>3. CASE k = s.key /\ u = s.user
      <4>1. Saving(k, u)
        BY <3>3 DEF Saving
      <4>2. \A q \in IdemCalls : ~ Handles(q, k, u)
        BY <3>1, <4>1 DEF HandlerAlone
      <4>3. Stored(k, u)'
        BY <2>2, <2>3, <3>3, NoRecordOutside DEF Stored
      <4> QED BY <1>1, <3>1, <3>2, <4>2, <4>3 DEF AnswerKept, HandlerAlone
    <3>4. CASE ~ (k = s.key /\ u = s.user)
      <4>1. Saving(k, u)' <=> Saving(k, u)
        BY <1>2, <3>4 DEF Saving
      <4>2. Stored(k, u)' <=> Stored(k, u)
        BY <1>2, <2>2, <2>3, <3>4 DEF Stored
      <4> QED BY <1>1, <3>1, <3>2, <4>1, <4>2 DEF AnswerKept, HandlerAlone
    <3> QED BY <3>3, <3>4
  <2> QED BY <2>4, <2>5 DEF IdemInv
<1>3. CASE /\ record[s.key] # NoRecord /\ record[s.key].user = s.user
           /\ saves' = saves \ {s} /\ UNCHANGED <<record, idemCall, raced>>
  <2>1. IdemTypeOK'
    BY <1>1, <1>3 DEF IdemTypeOK
  <2>2. ASSUME NEW k \in Keys, NEW u \in Users, <<k, u>> \notin raced'
        PROVE  AnswerKept(k, u)' /\ HandlerAlone(k, u)' /\ (ran[k][u] <= 1)'
    <3>1. AnswerKept(k, u) /\ HandlerAlone(k, u) /\ ran[k][u] <= 1
      BY <1>3, <2>2 DEF IdemInv
    <3>2. \A q \in IdemCalls : Handles(q, k, u)' <=> Handles(q, k, u)
      BY <1>3 DEF Handles
    <3>3. Stored(k, u)' <=> Stored(k, u)
      BY <1>3 DEF Stored
    <3>4. /\ Saving(k, u)' => Saving(k, u)
          /\ Saving(k, u) => Saving(k, u)' \/ Stored(k, u)
      BY <1>3 DEF Saving, Stored
    <3> QED BY <1>1, <3>1, <3>2, <3>3, <3>4 DEF AnswerKept, HandlerAlone
  <2> QED BY <2>1, <2>2 DEF IdemInv
<1>4. CASE Stops /\ UNCHANGED record
  BY <1>1, <1>4, StopsInv
<1> QED BY <1>2, <1>3, <1>4 DEF IdemSave

\* What is on its way when a record expires may be answered again.
LEMMA RecordExpiresInv ==
  ASSUME IdemInv, NEW k \in Keys, RecordExpires(k)
  PROVE  IdemInv'
<1>1. /\ record' = [record EXCEPT ![k] = NoRecord]
      /\ ran' = [ran EXCEPT ![k] = [u \in Users |-> 0]]
      /\ raced' = (raced \ ({k} \X Users)) \cup
           {<<k, u>> : u \in {v \in Users : \E r \in Requests :
                                r.key = k /\ r.user = v /\ UnderWay(r)}}
      /\ UNCHANGED <<idemCall, saves, replayed, idemCalls>>
  BY DEF RecordExpires
<1>2. /\ record' \in [Keys -> {NoRecord} \cup Records] /\ record'[k] = NoRecord
      /\ \A l \in Keys : l # k => record'[l] = record[l]
  BY <1>1 DEF IdemInv, IdemTypeOK
<1>3. /\ ran' \in [Keys -> [Users -> 0..2]] /\ ran'[k] = [u \in Users |-> 0]
      /\ \A l \in Keys : l # k => ran'[l] = ran[l]
  BY <1>1 DEF IdemInv, IdemTypeOK
<1>4. raced' \in SUBSET (Keys \X Users)
  BY <1>1 DEF IdemInv, IdemTypeOK
<1>5. IdemTypeOK'
  BY <1>1, <1>2, <1>3, <1>4 DEF IdemInv, IdemTypeOK
<1>6. ASSUME NEW l \in Keys, NEW u \in Users, <<l, u>> \notin raced'
      PROVE  AnswerKept(l, u)' /\ HandlerAlone(l, u)' /\ (ran[l][u] <= 1)'
  <2>1. \A q \in IdemCalls : Handles(q, l, u)' <=> Handles(q, l, u)
    BY <1>1 DEF Handles
  <2>2. CASE l = k
    <3>1. \A r \in Requests : r.key = k /\ r.user = u => ~ UnderWay(r)
      BY <1>1, <1>6, <2>2
    <3>2. ran'[l][u] = 0
      BY <1>3, <2>2
    <3>3. \A q \in IdemCalls : ~ Handles(q, l, u)
      <4> SUFFICES ASSUME NEW q \in IdemCalls, Handles(q, l, u) PROVE FALSE
        OBVIOUS
      <4>1. idemCall[q].request \in Requests
        BY IdemCallTyped DEF IdemInv, Handles
      <4> QED BY <2>2, <3>1, <4>1 DEF UnderWay, Handles
    <3> QED BY <2>1, <3>2, <3>3 DEF AnswerKept, HandlerAlone
  <2>3. CASE l # k
    <3>1. <<l, u>> \notin raced
      BY <1>1, <1>6, <2>3
    <3>2. AnswerKept(l, u) /\ HandlerAlone(l, u) /\ ran[l][u] <= 1
      BY <3>1 DEF IdemInv
    <3> QED BY <1>1, <1>2, <1>3, <2>1, <2>3, <3>2
            DEF AnswerKept, HandlerAlone, Saving, Stored
  <2> QED BY <2>2, <2>3
<1> QED BY <1>5, <1>6 DEF IdemInv

LEMMA IdemNextInv == IdemInv /\ [IdemNext]_idemVars => IdemInv'
<1> SUFFICES ASSUME IdemInv, [IdemNext]_idemVars PROVE IdemInv'
  OBVIOUS
<1>1. CASE \E q \in IdemCalls :
             \/ \E r \in Requests : StartIdem(q, r)
             \/ IdemFind(q) \/ IdemAnswer(q) \/ IdemFails(q)
  BY <1>1, StartIdemInv, IdemFindInv, IdemAnswerInv, IdemFailsInv
<1>2. CASE \E s \in saves : IdemSave(s)
  BY <1>2, IdemSaveInv
<1>3. CASE IdemProcessStops
  BY <1>3, StopsInv DEF IdemProcessStops
<1>4. CASE \E k \in Keys : RecordExpires(k)
  BY <1>4, RecordExpiresInv
<1>5. CASE UNCHANGED idemVars
  BY <1>5 DEF idemVars, IdemInv, IdemTypeOK, AnswerKept, HandlerAlone, Handles, Saving, Stored
<1> QED BY <1>1, <1>2, <1>3, <1>4, <1>5 DEF IdemNext

\* For any keys, users, paths and requests: until a record expires the handler
\* answers a user's key at most once, unless a repetition was looked up while
\* the first was on its way, or the first answer was never stored.
THEOREM IsRepeatedOnlyByRace == IdemSpec => []RepeatedOnlyByRace
<1>1. IdemInv => RepeatedOnlyByRace
  BY DEF IdemInv, IdemTypeOK, RepeatedOnlyByRace
<1> QED BY <1>1, IdemInitInv, IdemNextInv, PTL DEF IdemSpec

----------------------------------------------------------------------------
(***************************************************************************)
(* Positions.  A request that has loaded its position since the last close *)
(* of it was answered holds an entity that is closed, so that only a save  *)
(* from an earlier entity can reopen it.                                   *)
(***************************************************************************)

DefiCallType == [pc: {"idle", "read", "chain", "save"}, op: {"none", "sync", "claim", "close"},
                 id: {NoRow} \cup Positions, entity: {NoRow} \cup Row,
                 final: {NoRow} \cup Balances, late: BOOLEAN]

\* The columns of a call that the steps of it rely on.
DefiCallOK(c) ==
  /\ c.pc # "idle" => c.id \in Positions /\ c.op # "none"
  /\ c.pc = "chain" => c.op = "sync"
  /\ c.pc \in {"chain", "save"} => c.entity \in Row
  /\ c.pc = "save" /\ c.op = "close" => c.entity.status = "closed"

\* What a call loaded since the last close of its position.
HoldsClosed(q) ==
  defiCall[q].pc \in {"chain", "save"} /\ ~ defiCall[q].late
    /\ defiCall[q].id \in closed \ reopened => defiCall[q].entity.status = "closed"

DefiInv ==
  /\ DefiTypeOK
  /\ defiCall \in [DefiCalls -> DefiCallType]
  /\ \A q \in DefiCalls : DefiCallOK(defiCall[q]) /\ HoldsClosed(q)
  /\ ReopenedOnlyByStaleSave

LEMMA IdleDefiType == IdleDefi \in DefiCallType /\ IdleDefi.pc = "idle"
  BY DEF IdleDefi, DefiCallType

LEMMA RowsAreTyped ==
  ASSUME DefiTypeOK, NEW p \in Rows
  PROVE  position[p] \in Row /\ p \in Positions
  BY DEF DefiTypeOK, Rows

LEMMA DefiInitInv == DefiInit => DefiInv
<1> SUFFICES ASSUME DefiInit PROVE DefiInv
  OBVIOUS
<1>1. DefiTypeOK
  BY DefiBounds DEF DefiInit, DefiTypeOK, IdleDefi, Rows
<1>2. /\ defiCall \in [DefiCalls -> DefiCallType]
      /\ \A q \in DefiCalls : defiCall[q].pc = "idle"
  BY IdleDefiType DEF DefiInit
<1>3. \A q \in DefiCalls : DefiCallOK(defiCall[q]) /\ HoldsClosed(q)
  BY <1>2 DEF DefiCallOK, HoldsClosed
<1> QED BY <1>1, <1>2, <1>3 DEF DefiInv, DefiInit, ReopenedOnlyByStaleSave

\* A step of one call that neither stores nor closes.
LEMMA DefiCallStep ==
  ASSUME DefiInv, NEW q \in DefiCalls, NEW c \in DefiCallType,
         DefiCallOK(c),
         c.pc \in {"chain", "save"} /\ ~ c.late /\ c.id \in closed \ reopened =>
           c.entity.status = "closed",
         defiCall' = [defiCall EXCEPT ![q] = c],
         UNCHANGED <<position, transaction, closed, reopened>>,
         defiCalls' \in 0..MaxDefiCalls
  PROVE  DefiInv'
<1>1. /\ defiCall' \in [DefiCalls -> DefiCallType] /\ defiCall'[q] = c
      /\ \A r \in DefiCalls : r # q => defiCall'[r] = defiCall[r]
  BY DEF DefiInv
<1>2. \A r \in DefiCalls : DefiCallOK(defiCall'[r]) /\ HoldsClosed(r)'
  BY <1>1 DEF DefiInv, HoldsClosed
<1>3. \A r \in DefiCalls : /\ defiCall'[r].pc \in {"idle", "read", "chain", "save"}
                           /\ defiCall'[r].op \in {"none", "sync", "claim", "close"}
  BY <1>1 DEF DefiCallType
<1>4. DefiTypeOK'
  BY <1>3 DEF DefiInv, DefiTypeOK, Rows
<1>5. ReopenedOnlyByStaleSave'
  BY DEF DefiInv, ReopenedOnlyByStaleSave
<1> QED BY <1>1, <1>2, <1>4, <1>5 DEF DefiInv

LEMMA DefiEndsInv ==
  ASSUME DefiInv, NEW q \in DefiCalls, DefiEnds(q),
         UNCHANGED <<position, transaction, closed, reopened, defiCalls>>
  PROVE  DefiInv'
<1>1. defiCalls' \in 0..MaxDefiCalls
  BY DEF DefiInv, DefiTypeOK
<1>2. DefiCallOK(IdleDefi)
  BY IdleDefiType DEF DefiCallOK
<1> QED BY <1>1, <1>2, IdleDefiType, DefiCallStep DEF DefiEnds

LEMMA StartDefiInv ==
  ASSUME DefiInv, NEW q \in DefiCalls, NEW op \in {"sync", "claim", "close"},
         NEW p \in Positions, NEW final \in {NoRow} \cup Balances, StartDefi(q, op, p, final)
  PROVE  DefiInv'
<1>1. PICK c : c = [IdleDefi EXCEPT !.pc = "read", !.op = op, !.id = p, !.final = final]
  OBVIOUS
<1>2. /\ c \in DefiCallType /\ c.pc = "read" /\ c.op = op /\ c.id = p
  BY <1>1 DEF IdleDefi, DefiCallType
<1>3. DefiCallOK(c)
  BY <1>2 DEF DefiCallOK
<1>4. defiCalls' \in 0..MaxDefiCalls
  BY DefiBounds DEF StartDefi, DefiInv, DefiTypeOK
<1>5. /\ defiCall' = [defiCall EXCEPT ![q] = c]
      /\ UNCHANGED <<position, transaction, closed, reopened>>
  BY <1>1 DEF StartDefi
<1> QED BY <1>2, <1>3, <1>4, <1>5, DefiCallStep

LEMMA ClosedRow ==
  ASSUME NEW row \in Row, NEW final \in {NoRow} \cup Balances
  PROVE  Closed(row, final) \in Row /\ Closed(row, final).status = "closed"
<1>1. PICK a : a = IF final = NoRow THEN row.amount ELSE final
  OBVIOUS
<1>2. a \in Balances
  BY <1>1 DEF Row
<1>3. Closed(row, final) = [row EXCEPT !.status = "closed", !.amount = a]
  BY <1>1 DEF Closed
<1> QED BY <1>2, <1>3 DEF Row

LEMMA SyncedRow ==
  ASSUME NEW row \in Row, NEW balance \in Balances, NEW price \in Prices \cup {0}
  PROVE  Synced(row, balance, price) \in Row /\ Synced(row, balance, price).status = row.status
<1>1. PICK y : y = row.yield + (balance * price - balance)
  OBVIOUS
<1>2. y \in Int
  BY <1>1, DefiAmounts DEF Row
<1>3. Synced(row, balance, price) = [row EXCEPT !.amount = balance, !.yield = y]
  BY <1>1 DEF Synced
<1> QED BY <1>2, <1>3 DEF Row

LEMMA LoadPositionInv ==
  ASSUME DefiInv, NEW q \in DefiCalls, LoadPosition(q)
  PROVE  DefiInv'
<1>1. PICK c : c = defiCall[q]
  OBVIOUS
<1>2. /\ c \in DefiCallType /\ DefiCallOK(c) /\ c.pc = "read" /\ c.id \in Positions
      /\ c.op \in {"sync", "claim", "close"} /\ c.final \in {NoRow} \cup Balances
      /\ UNCHANGED <<position, transaction, closed, reopened, defiCalls>>
  BY <1>1 DEF LoadPosition, DefiAt, DefiInv, DefiCallOK, DefiCallType
<1>3. CASE position[c.id] = NoRow
  BY <1>1, <1>2, <1>3, DefiEndsInv DEF LoadPosition
<1>4. CASE position[c.id] # NoRow
  <2>1. PICK row : row = position[c.id]
    OBVIOUS
  <2>2. row \in Row /\ (c.id \in closed \ reopened => row.status = "closed")
    BY <1>2, <1>4, <2>1, RowsAreTyped DEF DefiInv, Rows, ReopenedOnlyByStaleSave
  <2>3. PICK pc : pc = IF c.op = "sync" THEN "chain" ELSE "save"
    OBVIOUS
  <2>4. PICK e : e = CASE c.op = "close" -> Closed(row, c.final)
                       [] c.op = "claim" -> Claimed(row)
                       [] c.op = "sync" -> row
    OBVIOUS
  <2>5. /\ e \in Row /\ (c.op = "close" => e.status = "closed")
        /\ c.id \in closed \ reopened => e.status = "closed"
    BY <1>2, <2>2, <2>4, ClosedRow DEF Claimed
  <2>6. PICK d : d = [c EXCEPT !.pc = pc, !.entity = e]
    OBVIOUS
  <2>7. defiCall' = [defiCall EXCEPT ![q] = d]
    BY <1>1, <1>4, <2>1, <2>3, <2>4, <2>6 DEF LoadPosition
  <2>8. /\ d \in DefiCallType /\ d.pc = pc /\ d.entity = e /\ d.id = c.id /\ d.op = c.op
    BY <1>2, <2>3, <2>5, <2>6 DEF DefiCallType
  <2>9. DefiCallOK(d)
    BY <1>2, <2>3, <2>5, <2>8 DEF DefiCallOK
  <2>10. defiCalls' \in 0..MaxDefiCalls
    BY <1>2 DEF DefiInv, DefiTypeOK
  <2> QED BY <1>2, <2>5, <2>7, <2>8, <2>9, <2>10, DefiCallStep
<1> QED BY <1>3, <1>4

LEMMA SyncPositionInv ==
  ASSUME DefiInv, NEW q \in DefiCalls, SyncPosition(q)
  PROVE  DefiInv'
<1>1. PICK c : c = defiCall[q]
  OBVIOUS
<1>2. /\ c \in DefiCallType /\ DefiCallOK(c) /\ c.pc = "chain" /\ c.entity \in Row
      /\ c.op = "sync" /\ c.id \in Positions
      /\ ~ c.late /\ c.id \in closed \ reopened => c.entity.status = "closed"
      /\ UNCHANGED <<position, transaction, closed, reopened, defiCalls>>
  BY <1>1 DEF SyncPosition, DefiAt, DefiInv, DefiCallOK, HoldsClosed
<1>3. CASE DefiEnds(q)
  BY <1>2, <1>3, DefiEndsInv
<1>4. ASSUME NEW balance \in Balances, NEW price \in Prices \cup {0},
             defiCall' = [defiCall EXCEPT ![q].pc = "save",
                                          ![q].entity = Synced(@, balance, price)]
      PROVE  DefiInv'
  <2>1. PICK e : e = Synced(c.entity, balance, price)
    OBVIOUS
  <2>2. e \in Row /\ e.status = c.entity.status
    BY <1>2, <2>1, SyncedRow
  <2>3. PICK d : d = [c EXCEPT !.pc = "save", !.entity = e]
    OBVIOUS
  <2>4. defiCall' = [defiCall EXCEPT ![q] = d]
    BY <1>1, <1>2, <1>4, <2>1, <2>3 DEF DefiInv, DefiCallType
  <2>5. /\ d \in DefiCallType /\ d.pc = "save" /\ d.entity = e /\ d.id = c.id /\ d.op = c.op
        /\ d.late = c.late
    BY <1>2, <2>2, <2>3 DEF DefiCallType
  <2>6. DefiCallOK(d)
    BY <1>2, <2>2, <2>5 DEF DefiCallOK
  <2>7. defiCalls' \in 0..MaxDefiCalls
    BY <1>2 DEF DefiInv, DefiTypeOK
  <2> QED BY <1>2, <2>2, <2>4, <2>5, <2>6, <2>7, DefiCallStep
<1> QED BY <1>3, <1>4 DEF SyncPosition

\* A save by a close makes every entity of its position older than it.
LEMMA SavePositionInv ==
  ASSUME DefiInv, NEW q \in DefiCalls, SavePosition(q)
  PROVE  DefiInv'
<1>1. PICK c : c = defiCall[q]
  OBVIOUS
<1>2. PICK closes \in BOOLEAN : closes <=> c.op = "close"
  OBVIOUS
<1>3. /\ c.pc = "save" /\ c.entity \in Row /\ c.id \in Positions
      /\ closes => c.entity.status = "closed"
      /\ ~ c.late /\ c.id \in closed \ reopened => c.entity.status = "closed"
      /\ c.late \in BOOLEAN
  BY <1>1, <1>2 DEF SavePosition, DefiAt, DefiInv, DefiCallOK, HoldsClosed, DefiCallType
<1>4. /\ position' = [position EXCEPT ![c.id] = c.entity]
      /\ closed' = IF closes THEN closed \cup {c.id} ELSE closed
      /\ reopened' = IF closes THEN reopened \ {c.id}
                     ELSE IF c.late THEN reopened \cup {c.id} ELSE reopened
      /\ defiCall' = [r \in DefiCalls |->
           IF r = q THEN IdleDefi
           ELSE [defiCall[r] EXCEPT !.late =
                   @ \/ (closes /\ defiCall[r].id = c.id
                           /\ defiCall[r].pc \in {"chain", "save"})]]
      /\ UNCHANGED <<transaction, defiCalls>>
  BY <1>1, <1>2 DEF SavePosition
<1>5. /\ position' \in [Positions -> {NoRow} \cup Row] /\ position'[c.id] = c.entity
      /\ \A p \in Positions : p # c.id => position'[p] = position[p]
      /\ c.entity # NoRow
  BY <1>3, <1>4, NoRowOutside DEF DefiInv, DefiTypeOK
<1>6. /\ Rows' = Rows \cup {c.id} /\ closed' \in SUBSET Rows' /\ reopened' \in SUBSET Rows'
  BY <1>3, <1>4, <1>5 DEF Rows, DefiInv, DefiTypeOK
<1>7. ASSUME NEW r \in DefiCalls
      PROVE  /\ defiCall'[r] \in DefiCallType /\ DefiCallOK(defiCall'[r]) /\ HoldsClosed(r)'
             /\ defiCall'[r].pc \in {"idle", "read", "chain", "save"}
             /\ defiCall'[r].op \in {"none", "sync", "claim", "close"}
  <2>1. CASE r = q
    BY <1>4, <2>1, IdleDefiType DEF DefiCallOK, HoldsClosed, DefiCallType
  <2>2. CASE r # q
    <3>1. PICK d : d = defiCall[r]
      OBVIOUS
    <3>2. d \in DefiCallType /\ DefiCallOK(d) /\ HoldsClosed(r) /\ d.late \in BOOLEAN
      BY <3>1 DEF DefiInv, DefiCallType
    <3>3. PICK l \in BOOLEAN :
            l <=> d.late \/ (closes /\ d.id = c.id /\ d.pc \in {"chain", "save"})
      OBVIOUS
    <3>4. defiCall'[r] = [d EXCEPT !.late = l]
      BY <1>4, <2>2, <3>1, <3>2, <3>3 DEF DefiCallType
    <3>5. /\ defiCall'[r] \in DefiCallType /\ defiCall'[r].pc = d.pc /\ defiCall'[r].op = d.op
          /\ defiCall'[r].id = d.id /\ defiCall'[r].entity = d.entity
          /\ defiCall'[r].late = l
      BY <3>2, <3>4 DEF DefiCallType
    <3>6. DefiCallOK(defiCall'[r])
      BY <3>2, <3>5 DEF DefiCallOK
    <3>7. ASSUME d.pc \in {"chain", "save"}, ~ l, d.id \in closed' \ reopened'
          PROVE  d.entity.status = "closed"
      <4>1. ~ d.late /\ ~ (closes /\ d.id = c.id)
        BY <3>3, <3>7
      <4>2. d.id \in closed \ reopened
        BY <1>4, <3>7, <4>1
      <4> QED BY <3>1, <3>2, <3>7, <4>1, <4>2 DEF HoldsClosed
    <3> QED BY <3>2, <3>5, <3>6, <3>7 DEF HoldsClosed, DefiCallType
  <2> QED BY <2>1, <2>2
<1>8. defiCall' \in [DefiCalls -> DefiCallType]
  BY <1>4, <1>7
<1>9. DefiTypeOK'
  BY <1>4, <1>5, <1>6, <1>7 DEF DefiInv, DefiTypeOK
<1>10. ReopenedOnlyByStaleSave'
  <2> SUFFICES ASSUME NEW p \in closed' \ reopened' PROVE position'[p].status = "closed"
    BY DEF ReopenedOnlyByStaleSave
  <2>1. CASE p = c.id
    BY <1>3, <1>4, <1>5, <2>1
  <2>2. CASE p # c.id
    BY <1>4, <1>5, <1>6, <2>2 DEF DefiInv, DefiTypeOK, Rows, ReopenedOnlyByStaleSave
  <2> QED BY <2>1, <2>2
<1> QED BY <1>7, <1>8, <1>9, <1>10 DEF DefiInv

\* A step that writes one row and leaves the calls alone: no row that a close
\* has answered for is written.
LEMMA RowStep ==
  ASSUME DefiInv, NEW p \in Positions, NEW row \in Row,
         p \in closed \ reopened => row.status = "closed",
         position' = [position EXCEPT ![p] = row],
         UNCHANGED <<transaction, defiCall, closed, reopened>>, defiCalls' \in 0..MaxDefiCalls
  PROVE  DefiInv'
<1>1. /\ position' \in [Positions -> {NoRow} \cup Row] /\ position'[p] = row
      /\ \A r \in Positions : r # p => position'[r] = position[r]
      /\ row # NoRow
  BY NoRowOutside DEF DefiInv, DefiTypeOK
<1>2. Rows \subseteq Rows'
  BY <1>1 DEF Rows
<1>3. DefiTypeOK'
  BY <1>1, <1>2 DEF DefiInv, DefiTypeOK
<1>4. ReopenedOnlyByStaleSave'
  BY <1>1 DEF DefiInv, DefiTypeOK, Rows, ReopenedOnlyByStaleSave
<1> QED BY <1>3, <1>4 DEF DefiInv, HoldsClosed

LEMMA TrackPositionInv ==
  ASSUME DefiInv, NEW p \in Positions, NEW b \in Balances \ {0}, TrackPosition(p, b)
  PROVE  DefiInv'
<1>1. PICK row : row = [status |-> "active",
                        amount |-> b, yield |-> 0, loan |-> NoBorrowing]
  OBVIOUS
<1>2. row \in Row
  BY <1>1 DEF Row
<1>3. /\ position' = [position EXCEPT ![p] = row] /\ position[p] = NoRow
      /\ UNCHANGED <<transaction, defiCall, closed, reopened>>
  BY <1>1 DEF TrackPosition
<1>4. defiCalls' \in 0..MaxDefiCalls
  BY DefiBounds DEF TrackPosition, DefiInv, DefiTypeOK
<1>5. p \notin closed
  BY <1>3 DEF DefiInv, DefiTypeOK, Rows
<1> QED BY <1>2, <1>3, <1>4, <1>5, RowStep

LEMMA BorrowsInv ==
  ASSUME DefiInv, NEW p \in Positions, NEW loan \in Borrowings,
         NEW s \in {"active", "liquidation_risk"}, Borrows(p, loan, s)
  PROVE  DefiInv'
<1>1. /\ position[p] \in Row /\ position[p].status # "closed"
      /\ UNCHANGED <<transaction, defiCall, closed, reopened>>
  BY RowsAreTyped DEF Borrows, DefiInv, Rows
<1>2. PICK row : row = [position[p] EXCEPT !.loan = loan, !.status = s]
  OBVIOUS
<1>3. row \in Row
  BY <1>1, <1>2 DEF Row
<1>4. position' = [position EXCEPT ![p] = row]
  BY <1>1, <1>2 DEF Borrows, Row, DefiInv, DefiTypeOK
<1>5. defiCalls' \in 0..MaxDefiCalls
  BY DefiBounds DEF Borrows, DefiInv, DefiTypeOK
<1>6. p \notin closed \ reopened
  BY <1>1 DEF DefiInv, ReopenedOnlyByStaleSave
<1> QED BY <1>1, <1>3, <1>4, <1>5, <1>6, RowStep

\* A step on transactions.
LEMMA TransactionStep ==
  ASSUME DefiInv, NEW t \in Transactions, NEW status \in {"simulated", "submitted"},
         transaction' = [transaction EXCEPT ![t] = status],
         UNCHANGED <<position, defiCall, closed, reopened>>,
         defiCalls < MaxDefiCalls, defiCalls' = defiCalls + 1
  PROVE  DefiInv'
<1>1. transaction' \in [Transactions -> {"none", "simulated", "submitted"}]
  BY DEF DefiInv, DefiTypeOK
<1>2. defiCalls' \in 0..MaxDefiCalls
  BY DefiBounds DEF DefiInv, DefiTypeOK
<1>3. DefiTypeOK'
  BY <1>1, <1>2 DEF DefiInv, DefiTypeOK, Rows
<1> QED BY <1>3 DEF DefiInv, HoldsClosed, ReopenedOnlyByStaleSave

LEMMA DefiNextInv == DefiInv /\ [DefiNext]_defiVars => DefiInv'
<1> SUFFICES ASSUME DefiInv, [DefiNext]_defiVars PROVE DefiInv'
  OBVIOUS
<1>1. CASE \E p \in Positions, b \in Balances \ {0} : TrackPosition(p, b)
  BY <1>1, TrackPositionInv
<1>2. ASSUME NEW q \in DefiCalls,
             \/ \E op \in {"sync", "claim", "close"}, p \in Positions,
                   final \in {NoRow} \cup Balances : StartDefi(q, op, p, final)
             \/ LoadPosition(q) \/ SyncPosition(q) \/ SavePosition(q)
      PROVE  DefiInv'
  BY <1>2, StartDefiInv, LoadPositionInv, SyncPositionInv, SavePositionInv
<1>3. ASSUME NEW t \in Transactions,
             ExecuteTransaction(t) \/ \E p \in Positions : RecordTransaction(t, p)
      PROVE  DefiInv'
  BY <1>3, TransactionStep DEF ExecuteTransaction, RecordTransaction
<1>4. CASE \E p \in Positions, loan \in Borrowings, s \in {"active", "liquidation_risk"} :
             Borrows(p, loan, s)
  BY <1>4, BorrowsInv
<1>5. CASE UNCHANGED defiVars
  BY <1>5 DEF defiVars, DefiInv, DefiTypeOK, Rows, HoldsClosed, ReopenedOnlyByStaleSave
<1> QED BY <1>1, <1>2, <1>3, <1>4, <1>5 DEF DefiNext

\* For any positions, requests and answers of the chain: a position whose close
\* was answered is closed, unless a request that had loaded it before the close
\* has saved it since.
THEOREM IsReopenedOnlyByStaleSave == DefiSpec => []ReopenedOnlyByStaleSave
<1>1. DefiInv => ReopenedOnlyByStaleSave
  BY DEF DefiInv
<1> QED BY <1>1, DefiInitInv, DefiNextInv, PTL DEF DefiSpec

----------------------------------------------------------------------------
(***************************************************************************)
(* Risk.  The figures of Aave are constants: all but the liquidation and   *)
(* the bridge of a score is known, and it lies between the bounds of its   *)
(* level.                                                                  *)
(***************************************************************************)

AnyLoan == Borrowings \cup {NoBorrowing}

LEMMA LoansAreTyped ==
  AnyLoan \subseteq [borrowed: Nat, ltv: Nat, maxLtv: Nat, threshold: Nat, volatility: Nat,
                     bridge: BOOLEAN]
<1>1. NoBorrowing \in [borrowed: Nat, ltv: Nat, maxLtv: Nat, threshold: Nat, volatility: Nat,
                       bridge: BOOLEAN]
  BY DEF NoBorrowing
<1> QED BY <1>1, BorrowingTypes DEF AnyLoan

LEMMA RoundBounds ==
  ASSUME NEW n \in Nat, NEW d \in Nat \ {0}, NEW k \in Nat
  PROVE  RoundHalfUp(n, d) >= k <=> 2 * n + d >= 2 * d * k
  BY DEF RoundHalfUp

LEMMA LiquidationBounds ==
  ASSUME NEW loan \in AnyLoan
  PROVE  LET l == LiquidationRisk(loan)
         IN  /\ l.n \in Nat /\ l.d \in Nat \ {0} /\ l.n <= 100 * l.d
             /\ /\ loan.borrowed # 0 /\ loan.ltv # 0 /\ loan.maxLtv # 0
                /\ loan.ltv * 10 > 9 * loan.maxLtv
                => l.n >= 90 * l.d
<1>1. PICK m \in Nat : m = loan.maxLtv
  BY LoansAreTyped
<1>2. PICK v \in Nat : v = loan.ltv
  BY LoansAreTyped
<1>3. CASE loan.borrowed = 0 \/ v = 0 \/ m = 0
  <2>1. LiquidationRisk(loan) = [n |-> 0, d |-> 1]
    BY <1>1, <1>2, <1>3 DEF LiquidationRisk
  <2> QED BY <1>1, <1>2, <1>3, <2>1
<1>4. CASE ~ (loan.borrowed = 0 \/ v = 0 \/ m = 0) /\ v >= m
  <2>1. LiquidationRisk(loan) = [n |-> 100, d |-> 1]
    BY <1>1, <1>2, <1>4 DEF LiquidationRisk
  <2> QED BY <2>1
<1>5. CASE ~ (loan.borrowed = 0 \/ v = 0 \/ m = 0) /\ ~ v >= m
  <2>1. LiquidationRisk(loan) = [n |-> 100 * v, d |-> m]
    BY <1>1, <1>2, <1>5 DEF LiquidationRisk
  <2> QED BY <1>1, <1>2, <1>5, <2>1
<1> QED BY <1>3, <1>4, <1>5

\* The score in terms of the liquidation risk.
LEMMA ScoreBounds ==
  ASSUME NEW loan \in AnyLoan
  PROVE  LET l == LiquidationRisk(loan)
         IN  /\ RiskScore(loan) \in Int
             /\ RiskScore(loan) >= 10 /\ ~ RiskScore(loan) >= 60
             /\ RiskScore(loan) >= 40 => l.n > 60 * l.d
             /\ l.n >= 90 * l.d => RiskScore(loan) >= 40
<1>1. PICK n \in Nat, d \in Nat \ {0} :
        n = LiquidationRisk(loan).n /\ d = LiquidationRisk(loan).d /\ n <= 100 * d
  BY LiquidationBounds
<1>2. PICK rest \in {1425, 1485} : rest = 1425 + 3 * (IF loan.bridge THEN 20 ELSE 0)
  OBVIOUS
<1>3. PICK t \in Nat : t = 30 * n + d * rest
  BY <1>1, <1>2
<1>4. PICK b \in Nat \ {0} : b = 100 * d
  BY <1>1
<1>5. RiskScore(loan) = RoundHalfUp(t, b)
  BY <1>1, <1>2, <1>3, <1>4 DEF RiskScore, AaveMetrics, GovernanceRisk
<1>6. /\ t >= 30 * n + 1425 * d /\ t <= 30 * n + 1485 * d
  BY <1>1, <1>2, <1>3
<1>7. /\ RoundHalfUp(t, b) >= 10 <=> 2 * t + b >= 20 * b
      /\ RoundHalfUp(t, b) >= 40 <=> 2 * t + b >= 80 * b
      /\ RoundHalfUp(t, b) >= 60 <=> 2 * t + b >= 120 * b
  BY RoundBounds
<1>8. RoundHalfUp(t, b) \in Int
  BY DEF RoundHalfUp
<1>9. /\ RoundHalfUp(t, b) >= 10 /\ ~ RoundHalfUp(t, b) >= 60
      /\ RoundHalfUp(t, b) >= 40 => n > 60 * d
      /\ n >= 90 * d => RoundHalfUp(t, b) >= 40
  <2>1. /\ n \in Int /\ d \in Int /\ t \in Int /\ b \in Int /\ b = 100 * d
        /\ 0 <= n /\ 0 < d /\ n <= 100 * d
    BY <1>1, <1>4
  <2>2. 2 * t + b >= 20 * b /\ ~ 2 * t + b >= 120 * b
    BY <1>6, <2>1
  <2>3. 2 * t + b >= 80 * b => n > 60 * d
    BY <1>6, <2>1
  <2>4. n >= 90 * d => 2 * t + b >= 80 * b
    BY <1>6, <2>1
  <2> QED BY <1>7, <2>2, <2>3, <2>4
<1> QED BY <1>1, <1>5, <1>8, <1>9

LEMMA LevelBounds ==
  ASSUME NEW loan \in AnyLoan
  PROVE  /\ RiskLevel(RiskScore(loan)) \in {"LOW", "MEDIUM", "HIGH"}
         /\ RiskLevel(RiskScore(loan)) = "HIGH" <=> RiskScore(loan) >= 40
<1>1. PICK s \in Int : s = RiskScore(loan) /\ s >= 10 /\ ~ s >= 60
  BY ScoreBounds
<1> QED BY <1>1 DEF RiskLevel

\* What the second conjunct of AaveNeverCritical says of one loan.
LEMMA HighIsLiquidation ==
  ASSUME NEW loan \in AnyLoan
  PROVE  /\ RiskLevel(RiskScore(loan)) = "HIGH" =>
              "liquidation" \in Warnings(loan) /\ Recommendations(loan) # {}
         /\ PositionRiskLevel(loan) = "CRITICAL" =>
              RiskLevel(RiskScore(loan)) = "HIGH" \/ loan.borrowed = 0
<1>1. PICK n \in Nat, d \in Nat \ {0} :
        n = LiquidationRisk(loan).n /\ d = LiquidationRisk(loan).d
  BY LiquidationBounds
<1>2. ASSUME RiskLevel(RiskScore(loan)) = "HIGH"
      PROVE  "liquidation" \in Warnings(loan) /\ Recommendations(loan) # {}
  <2>1. n > 60 * d
    BY <1>1, <1>2, ScoreBounds, LevelBounds
  <2>2. LiquidationRisk(loan).n > 50 * LiquidationRisk(loan).d
    BY <1>1, <2>1
  <2>3. LiquidationRisk(loan).n > 60 * LiquidationRisk(loan).d
    BY <1>1, <2>1
  <2> QED BY <2>2, <2>3 DEF Warnings, Recommendations
<1>3. ASSUME PositionRiskLevel(loan) = "CRITICAL", loan.borrowed # 0
      PROVE  RiskLevel(RiskScore(loan)) = "HIGH"
  <2>1. loan.ltv # 0 /\ loan.maxLtv # 0 /\ loan.ltv * 10 > 9 * loan.maxLtv
    BY <1>3 DEF PositionRiskLevel
  <2> QED BY <1>3, <2>1, LiquidationBounds, ScoreBounds, LevelBounds
<1> QED BY <1>2, <1>3

LEMMA StressInScore == StressOnlyInScore
<1> SUFFICES ASSUME NEW loan \in AnyLoan, NEW s \in Scenarios, NEW t \in Scenarios
    PROVE  /\ StressTest(loan, s).liquidation <=>
                LiquidationDetected(loan) \/ (loan.borrowed = 0 /\ loan.ltv > Threshold(loan))
           /\ s.priceChange <= t.priceChange /\ (t.shutdown => s.shutdown) =>
                StressTest(loan, s).score >= StressTest(loan, t).score
  BY DEF StressOnlyInScore, AnyLoan
<1>1. StressTest(loan, s).liquidation <=>
        LiquidationDetected(loan) \/ (loan.borrowed = 0 /\ loan.ltv > Threshold(loan))
  <2>1. loan.ltv \in Nat /\ loan.threshold \in Nat
    BY LoansAreTyped
  <2>2. loan.ltv > Threshold(loan) => loan.ltv # 0
    BY <2>1 DEF Threshold
  <2> QED BY <2>2 DEF StressTest, LiquidationDetected
<1>2. /\ s.priceChange \in Int /\ t.priceChange \in Int
      /\ s.shutdown \in BOOLEAN /\ t.shutdown \in BOOLEAN
  BY ScenarioTypes
<1>3. ASSUME s.priceChange <= t.priceChange, t.shutdown => s.shutdown
      PROVE  StressedScore(s) >= StressedScore(t)
  <2>1. PICK a \in Int, b \in Int : a = s.priceChange /\ b = t.priceChange
    BY <1>2
  <2>2. PICK e \in {0, 100} : e = IF s.shutdown THEN 100 ELSE 0
    OBVIOUS
  <2>3. PICK f \in {0, 100} : f = IF t.shutdown THEN 100 ELSE 0
    OBVIOUS
  <2>4. a <= b /\ f <= e
    BY <1>3, <2>1, <2>2, <2>3
  <2>5. PICK g \in Int : g = IF a < 0 THEN -a ELSE 0
    BY <2>1
  <2>6. PICK h \in Int : h = IF b < 0 THEN -b ELSE 0
    BY <2>1
  <2>7. h <= g
    BY <2>4, <2>5, <2>6
  <2>8. /\ StressedScore(s) = IF 100 + g + e > 200 THEN 200 ELSE 100 + g + e
        /\ StressedScore(t) = IF 100 + h + f > 200 THEN 200 ELSE 100 + h + f
    BY <2>1, <2>2, <2>3, <2>5, <2>6 DEF StressedScore
  <2> QED BY <2>4, <2>7, <2>8
<1>4. /\ StressTest(loan, s).score = StressedScore(s)
      /\ StressTest(loan, t).score = StressedScore(t)
  BY DEF StressTest
<1> QED BY <1>1, <1>3, <1>4

Results == {Assessed(loan) : loan \in AnyLoan} \cup {NotAssessed}

Assessments == [pc: {"out", "read", "save", "stored", "failed"}, row: {NoRow} \cup Row,
                result: Results]

\* A position that is read exists, and only a stored assessment has a level.
Assesses(p) ==
  /\ assessing[p].pc = "read" => p \in Rows
  /\ assessing[p].pc = "save" => assessing[p].row \in Row
  /\ assessing[p].pc # "stored" => assessing[p].result.level = "NONE"
  /\ assessing[p].pc = "stored" => assessing[p].result.level \in {"LOW", "MEDIUM", "HIGH"}

ReportAlerts ==
  report # NoRow => /\ "CRITICAL" \in Alerts(report) => report.liquidations > 0
                    /\ report.action <=> "CRITICAL" \in Alerts(report)

RiskInv ==
  /\ DefiInv /\ RiskTypeOK
  /\ assessing \in [Positions -> Assessments]
  /\ \A p \in Positions : Assesses(p)
  /\ ReportAlerts

LEMMA NotListedTyped ==
  NotListed \in Assessments /\ NotListed.pc = "out" /\ NotListed.result.level = "NONE"
  BY DEF NotListed, NotAssessed, Assessments, Results

LEMMA RiskInitInv == DefiInit /\ RiskInit => RiskInv
<1> SUFFICES ASSUME DefiInit, RiskInit PROVE RiskInv
  OBVIOUS
<1>1. /\ assessing \in [Positions -> Assessments]
      /\ \A p \in Positions : assessing[p].pc = "out" /\ assessing[p].result.level = "NONE"
  BY NotListedTyped DEF RiskInit
<1>2. RiskTypeOK
  BY <1>1 DEF RiskInit, RiskTypeOK
<1>3. \A p \in Positions : Assesses(p)
  BY <1>1 DEF Assesses
<1> QED BY <1>1, <1>2, <1>3, DefiInitInv DEF RiskInv, RiskInit, ReportAlerts

\* No step removes a row.
LEMMA RowsStay == DefiInv /\ [DefiNext]_defiVars => Rows \subseteq Rows'
<1> SUFFICES ASSUME DefiInv, [DefiNext]_defiVars PROVE Rows \subseteq Rows'
  OBVIOUS
<1>1. ASSUME NEW p \in Positions, NEW row \in Row, position' = [position EXCEPT ![p] = row]
      PROVE  Rows \subseteq Rows'
  BY <1>1, NoRowOutside DEF Rows, DefiInv, DefiTypeOK
<1>2. ASSUME UNCHANGED position PROVE Rows \subseteq Rows'
  BY <1>2 DEF Rows
<1>3. ASSUME NEW p \in Positions, NEW b \in Balances \ {0}, TrackPosition(p, b)
      PROVE  Rows \subseteq Rows'
  BY <1>3 DEF TrackPosition, Rows, DefiInv, DefiTypeOK
<1>4. ASSUME NEW q \in DefiCalls, SavePosition(q)
      PROVE  Rows \subseteq Rows'
  <2>1. defiCall[q].id \in Positions /\ defiCall[q].entity \in Row
    BY <1>4 DEF SavePosition, DefiAt, DefiInv, DefiCallOK
  <2> QED BY <1>1, <1>4, <2>1 DEF SavePosition
<1>5. ASSUME NEW p \in Positions, NEW loan \in Borrowings,
             NEW s \in {"active", "liquidation_risk"}, Borrows(p, loan, s)
      PROVE  Rows \subseteq Rows'
  <2>1. position[p] \in Row
    BY <1>5, RowsAreTyped DEF Borrows, DefiInv, Rows
  <2>2. [position[p] EXCEPT !.loan = loan, !.status = s] \in Row
    BY <2>1 DEF Row
  <2>3. position' = [position EXCEPT ![p] = [position[p] EXCEPT !.loan = loan, !.status = s]]
    BY <1>5, <2>1 DEF Borrows, DefiInv, DefiTypeOK, Row
  <2> QED BY <1>1, <2>2, <2>3
<1>6. ASSUME NEW q \in DefiCalls,
             \/ \E op \in {"sync", "claim", "close"}, p \in Positions,
                   final \in {NoRow} \cup Balances : StartDefi(q, op, p, final)
             \/ LoadPosition(q) \/ SyncPosition(q)
      PROVE  Rows \subseteq Rows'
  BY <1>2, <1>6 DEF StartDefi, LoadPosition, SyncPosition
<1>7. ASSUME NEW t \in Transactions,
             ExecuteTransaction(t) \/ \E p \in Positions : RecordTransaction(t, p)
      PROVE  Rows \subseteq Rows'
  BY <1>2, <1>7 DEF ExecuteTransaction, RecordTransaction
<1>8. CASE UNCHANGED defiVars
  BY <1>2, <1>8 DEF defiVars
<1> QED BY <1>3, <1>4, <1>5, <1>6, <1>7, <1>8 DEF DefiNext

\* The positions change under a monitoring: what it has read stays read.
LEMMA DefiStepInv ==
  ASSUME RiskInv, [DefiNext]_defiVars, UNCHANGED riskVars
  PROVE  RiskInv'
<1>1. DefiInv' /\ Rows \subseteq Rows'
  BY DefiNextInv, RowsStay DEF RiskInv
<1>2. UNCHANGED <<assessing, monitoring, report>>
  BY DEF riskVars
<1>3. RiskTypeOK' /\ ReportAlerts'
  BY <1>2 DEF RiskInv, RiskTypeOK, ReportAlerts, Alerts
<1>4. \A p \in Positions : Assesses(p)'
  BY <1>1, <1>2 DEF RiskInv, Assesses
<1> QED BY <1>1, <1>2, <1>3, <1>4 DEF RiskInv

\* A step of the monitoring leaves the positions alone.
LEMMA RiskStep ==
  ASSUME RiskInv, UNCHANGED defiVars,
         assessing' \in [Positions -> Assessments], \A p \in Positions : Assesses(p)',
         monitoring' \in BOOLEAN,
         \/ report' \in {report, NoRow}
         \/ /\ report'.critical \in 0..Cardinality(Positions) /\ report'.listed \subseteq Positions
            /\ ReportAlerts'
  PROVE  RiskInv'
<1>1. DefiInv'
  BY DefiNextInv DEF RiskInv
<1>2. ReportAlerts'
  BY DEF RiskInv, ReportAlerts, Alerts
<1>3. \A p \in Positions :
        /\ assessing'[p].pc \in {"out", "read", "save", "stored", "failed"}
        /\ assessing'[p].result.level \in
             IF assessing'[p].pc = "stored" THEN Levels ELSE {"NONE"}
  BY DEF Assessments, Assesses, Levels
<1>4. RiskTypeOK'
  BY <1>3 DEF RiskInv, RiskTypeOK
<1> QED BY <1>1, <1>2, <1>4 DEF RiskInv

LEMMA StartMonitoringInv ==
  ASSUME RiskInv, NEW S \in SUBSET Positions, NEW all \in BOOLEAN, StartMonitoring(S, all)
  PROVE  RiskInv'
<1>1. /\ S \subseteq Rows /\ monitoring' = all /\ report' = NoRow /\ UNCHANGED defiVars
      /\ assessing' = [p \in Positions |->
                         IF p \in S THEN [NotListed EXCEPT !.pc = "read"] ELSE NotListed]
  BY DEF StartMonitoring
<1>2. PICK a : a = [NotListed EXCEPT !.pc = "read"]
  OBVIOUS
<1>3. a \in Assessments /\ a.pc = "read" /\ a.result.level = "NONE"
  BY <1>2, NotListedTyped DEF Assessments
<1>4. assessing' \in [Positions -> Assessments]
  BY <1>1, <1>2, <1>3, NotListedTyped
<1>5. Rows' = Rows
  BY <1>1 DEF Rows, defiVars
<1>6. \A p \in Positions : Assesses(p)'
  BY <1>1, <1>2, <1>3, <1>5, NotListedTyped DEF Assesses
<1> QED BY <1>1, <1>4, <1>6, RiskStep

LEMMA AssessReadInv ==
  ASSUME RiskInv, NEW p \in Positions, AssessRead(p)
  PROVE  RiskInv'
<1>1. PICK a : a = [assessing[p] EXCEPT !.pc = "save", !.row = position[p]]
  OBVIOUS
<1>2. /\ assessing[p] \in Assessments /\ assessing[p].result.level = "NONE"
      /\ position[p] \in Row /\ monitoring \in BOOLEAN
  BY RowsAreTyped DEF AssessRead, RiskInv, Assesses, DefiInv, RiskTypeOK
<1>3. a \in Assessments /\ a.pc = "save" /\ a.row \in Row /\ a.result.level = "NONE"
  BY <1>1, <1>2 DEF Assessments
<1>4. assessing' = [assessing EXCEPT ![p] = a] /\ UNCHANGED <<monitoring, report, defiVars>>
  BY <1>1, <1>2 DEF AssessRead, RiskInv, Assessments
<1>5. /\ assessing' \in [Positions -> Assessments] /\ assessing'[p] = a
      /\ \A r \in Positions : r # p => assessing'[r] = assessing[r]
  BY <1>3, <1>4 DEF RiskInv
<1>6. Rows' = Rows
  BY <1>4 DEF Rows, defiVars
<1>7. \A r \in Positions : Assesses(r)'
  BY <1>3, <1>5, <1>6 DEF RiskInv, Assesses
<1> QED BY <1>2, <1>4, <1>5, <1>7, RiskStep

LEMMA AssessSaveInv ==
  ASSUME RiskInv, NEW p \in Positions, AssessSave(p)
  PROVE  RiskInv'
<1>1. /\ assessing[p].row \in Row /\ assessing[p].row.loan \in AnyLoan /\ monitoring \in BOOLEAN
      /\ UNCHANGED <<monitoring, report, defiVars>>
  BY DEF AssessSave, RiskInv, Assesses, RiskTypeOK, Row, AnyLoan
<1>2. PICK a : /\ assessing' = [assessing EXCEPT ![p] = a]
               /\ \/ a = [NotListed EXCEPT !.pc = "failed"]
                  \/ a = [NotListed EXCEPT !.pc = "stored",
                                           !.result = Assessed(assessing[p].row.loan)]
  BY DEF AssessSave
<1>3. a \in Assessments
  <2>1. Assessed(assessing[p].row.loan) \in Results
    BY <1>1 DEF Results
  <2> QED BY <1>2, <2>1, NotListedTyped DEF Assessments
<1>4. \/ a.pc = "failed" /\ a.result.level = "NONE"
      \/ a.pc = "stored" /\ a.result.level \in {"LOW", "MEDIUM", "HIGH"}
  <2>1. CASE a = [NotListed EXCEPT !.pc = "failed"]
    BY <2>1, NotListedTyped DEF Assessments
  <2>2. CASE a = [NotListed EXCEPT !.pc = "stored",
                                   !.result = Assessed(assessing[p].row.loan)]
    <3>1. a.pc = "stored" /\ a.result = Assessed(assessing[p].row.loan)
      BY <2>2, NotListedTyped DEF Assessments
    <3>2. Assessed(assessing[p].row.loan).level = RiskLevel(RiskScore(assessing[p].row.loan))
      BY DEF Assessed
    <3> QED BY <1>1, <3>1, <3>2, LevelBounds
  <2> QED BY <1>2, <2>1, <2>2
<1>5. /\ assessing' \in [Positions -> Assessments] /\ assessing'[p] = a
      /\ \A r \in Positions : r # p => assessing'[r] = assessing[r]
  BY <1>2, <1>3 DEF RiskInv
<1>6. Rows' = Rows
  BY <1>1 DEF Rows, defiVars
<1>7. \A r \in Positions : Assesses(r)'
  BY <1>4, <1>5, <1>6 DEF RiskInv, Assesses
<1> QED BY <1>1, <1>5, <1>7, RiskStep

\* No assessment is CRITICAL, so a report counts none.
LEMMA ReportSaysLiquidation ==
  ASSUME RiskInv, NEW S \in SUBSET Positions
  PROVE  /\ Report(S).critical \in 0..Cardinality(Positions) /\ Report(S).listed \subseteq Positions
         /\ "CRITICAL" \in Alerts(Report(S)) => Report(S).liquidations > 0
         /\ Report(S).action <=> "CRITICAL" \in Alerts(Report(S))
<1>1. /\ Report(S).critical = CountOf(S, "CRITICAL") /\ Report(S).listed = S
      /\ Report(S).action <=> CountOf(S, "CRITICAL") > 0 \/ Report(S).liquidations > 0
  BY DEF Report
<1>2. \A p \in S : assessing[p].result.level # "CRITICAL"
  BY DEF RiskInv, Assesses
<1>3. {p \in S : assessing[p].result.level = "CRITICAL"} = {}
  BY <1>2
<1>4. CountOf(S, "CRITICAL") = 0
  BY <1>3, FS_EmptySet DEF CountOf
<1>5. Cardinality(Positions) \in Nat
  BY DefiFinite, FS_CardinalityType
<1>6. "CRITICAL" \in Alerts(Report(S)) <=>
        Report(S).critical > 0 \/ Report(S).liquidations > 0
  BY DEF Alerts
<1> QED BY <1>1, <1>4, <1>5, <1>6

LEMMA EndMonitoringInv ==
  ASSUME RiskInv, EndMonitoring
  PROVE  RiskInv'
<1>1. /\ assessing' = [p \in Positions |-> NotListed] /\ monitoring' = FALSE
      /\ report' = NoRow \/ report' = Report(Listed)
      /\ UNCHANGED defiVars
  BY DEF EndMonitoring
<1>2. /\ assessing' \in [Positions -> Assessments]
      /\ \A p \in Positions : Assesses(p)'
  BY <1>1, NotListedTyped DEF Assesses
<1>3. CASE report' = NoRow
  BY <1>1, <1>2, <1>3, RiskStep
<1>4. CASE report' = Report(Listed)
  <2>1. Listed \in SUBSET Positions
    BY DEF Listed
  <2>2. /\ report'.critical \in 0..Cardinality(Positions) /\ report'.listed \subseteq Positions
        /\ "CRITICAL" \in Alerts(report') => report'.liquidations > 0
        /\ report'.action <=> "CRITICAL" \in Alerts(report')
    BY <1>4, <2>1, ReportSaysLiquidation
  <2>3. ReportAlerts'
    BY <2>2 DEF ReportAlerts, Alerts
  <2> QED BY <1>1, <1>2, <2>2, <2>3, RiskStep
<1> QED BY <1>1, <1>3, <1>4

LEMMA RiskNextInv == RiskInv /\ [RiskNext]_<<defiVars, riskVars>> => RiskInv'
<1> SUFFICES ASSUME RiskInv, [RiskNext]_<<defiVars, riskVars>> PROVE RiskInv'
  OBVIOUS
<1>1. CASE DefiNext /\ UNCHANGED riskVars
  BY <1>1, DefiStepInv
<1>2. CASE \E S \in SUBSET Positions, all \in BOOLEAN : StartMonitoring(S, all)
  BY <1>2, StartMonitoringInv
<1>3. CASE \E p \in Positions : AssessRead(p) \/ AssessSave(p)
  BY <1>3, AssessReadInv, AssessSaveInv
<1>4. CASE EndMonitoring
  BY <1>4, EndMonitoringInv
<1>5. CASE UNCHANGED <<defiVars, riskVars>>
  BY <1>5, DefiStepInv
<1> QED BY <1>1, <1>2, <1>3, <1>4, <1>5 DEF RiskNext

\* For any positions and anything they borrow: with the figures of Aave no
\* assessment is above HIGH, HIGH comes with its warning, what the list of
\* positions at risk calls CRITICAL is HIGH or repaid, a CRITICAL alert stands
\* for a liquidation, and a stress test tells of liquidation what the assessment
\* does, or that of a repaid loan.
THEOREM IsAaveNeverCritical == RiskSpec => []AaveNeverCritical
<1>1. RiskInv => AaveNeverCritical
  <2> SUFFICES ASSUME RiskInv PROVE AaveNeverCritical
    OBVIOUS
  <2>1. \A p \in Positions : assessing[p].result.level \in {"NONE", "LOW", "MEDIUM", "HIGH"}
    BY DEF RiskInv, Assesses
  <2>2. ASSUME NEW p \in Rows
        PROVE  LET loan == position[p].loan
                   high == RiskLevel(RiskScore(loan)) = "HIGH"
               IN  /\ high => "liquidation" \in Warnings(loan) /\ Recommendations(loan) # {}
                   /\ p \in DOMAIN PositionsAtRisk /\ PositionsAtRisk[p] = "CRITICAL" =>
                        high \/ loan.borrowed = 0
    <3>1. position[p].loan \in AnyLoan
      BY RowsAreTyped DEF RiskInv, DefiInv, Row, AnyLoan
    <3>2. p \in DOMAIN PositionsAtRisk =>
            PositionsAtRisk[p] = PositionRiskLevel(position[p].loan)
      BY DEF PositionsAtRisk
    <3> QED BY <3>1, <3>2, HighIsLiquidation
  <2> QED BY <2>1, <2>2, StressInScore DEF RiskInv, ReportAlerts, AaveNeverCritical
<1> QED BY <1>1, RiskInitInv, RiskNextInv, PTL DEF RiskSpec

----------------------------------------------------------------------------
(***************************************************************************)
(* Statistics of ratings.  The list of a writer that nothing overtook is   *)
(* the ratings as they are.                                                *)
(***************************************************************************)

Ratings == [Raters -> {0} \cup Scores]

RatingCallType ==
  [pc: {"idle"} \cup RatingNames, op: {"none", "create", "update", "remove"},
   who: {"nobody"} \cup Raters, score: {0} \cup Scores, list: {<<>>} \cup Ratings,
   late: BOOLEAN]

ListIsCurrent(q) ==
  RatingAt(q, "stats.write") /\ ~ ratingCall[q].late => ratingCall[q].list = rating

RatingInv ==
  /\ rating \in Ratings
  /\ ratingCall \in [RatingCalls -> RatingCallType]
  /\ \A q \in RatingCalls : ~ RatingAt(q, "idle") => ratingCall[q].who \in Raters
  /\ \A q \in RatingCalls : ListIsCurrent(q)
  /\ RatingStatsOffOnlyByRace

LEMMA IdleRatingTyped == IdleRating \in RatingCallType /\ IdleRating.pc = "idle"
  BY DEF IdleRating, RatingCallType

LEMMA RatingInitInv == RatingInit => RatingInv
<1> SUFFICES ASSUME RatingInit PROVE RatingInv
  OBVIOUS
<1>1. rating \in Ratings
  BY DEF RatingInit, Ratings
<1>2. /\ ratingCall \in [RatingCalls -> RatingCallType]
      /\ \A q \in RatingCalls : ratingCall[q].pc = "idle"
  BY IdleRatingTyped DEF RatingInit
<1>3. StatsOf(rating) = stats
  <2>1. Rated(rating) = {}
    BY DEF RatingInit, Rated
  <2>2. Cardinality(Rated(rating)) = 0
    BY <2>1, FS_EmptySet
  <2> QED BY <2>2 DEF RatingInit, StatsOf
<1> QED BY <1>1, <1>2, <1>3 DEF RatingInv, ListIsCurrent, RatingAt, RatingStatsOffOnlyByRace

\* A step of one call that leaves ratings and statistics alone: if it abandons
\* the statistics, they are astray.
LEMMA RatingCallStep ==
  ASSUME RatingInv, NEW q \in RatingCalls, NEW c \in RatingCallType,
         c.pc # "idle" => c.who \in Raters,
         c.pc = "stats.write" /\ ~ c.late => c.list = rating,
         Unfinished(q) => c.pc \in {"stats.read", "stats.write"} \/ astray',
         ratingCall' = [ratingCall EXCEPT ![q] = c],
         UNCHANGED <<rateable, rating, stats>>, astray => astray'
  PROVE  RatingInv'
<1>1. /\ ratingCall' \in [RatingCalls -> RatingCallType] /\ ratingCall'[q] = c
      /\ \A p \in RatingCalls : p # q => ratingCall'[p] = ratingCall[p]
  BY DEF RatingInv
<1>2. \A p \in RatingCalls : ListIsCurrent(p)'
  BY <1>1 DEF RatingInv, ListIsCurrent, RatingAt
<1>3. \A p \in RatingCalls : Unfinished(p) => Unfinished(p)' \/ astray'
  BY <1>1 DEF Unfinished
<1>4. RatingStatsOffOnlyByRace'
  BY <1>3 DEF RatingInv, RatingStatsOffOnlyByRace
<1>5. \A p \in RatingCalls : ~ RatingAt(p, "idle")' => ratingCall'[p].who \in Raters
  BY <1>1 DEF RatingInv, RatingAt
<1> QED BY <1>1, <1>2, <1>4, <1>5 DEF RatingInv

LEMMA RatingEndsInv ==
  ASSUME RatingInv, NEW q \in RatingCalls, RatingEnds(q), Unfinished(q) => astray',
         UNCHANGED <<rateable, rating, stats>>, astray => astray'
  PROVE  RatingInv'
  BY RatingCallStep, IdleRatingTyped DEF RatingEnds

LEMMA RatingAwaitsInv ==
  ASSUME RatingInv, NEW q \in RatingCalls, ~ RatingAt(q, "idle"), ~ Unfinished(q),
         NEW name \in {"enrolment", "existing", "store"}, RatingAwaits(q, name),
         UNCHANGED <<rateable, rating, stats, astray>>
  PROVE  RatingInv'
<1>1. PICK c : c = [ratingCall[q] EXCEPT !.pc = name]
  OBVIOUS
<1>2. ratingCall[q] \in RatingCallType /\ ratingCall[q].who \in Raters
  BY DEF RatingInv
<1>3. c \in RatingCallType /\ c.pc = name /\ c.who \in Raters
  BY <1>1, <1>2 DEF RatingCallType, RatingNames
<1>4. ratingCall' = [ratingCall EXCEPT ![q] = c]
  BY <1>1 DEF RatingAwaits
<1> QED BY <1>3, <1>4, RatingCallStep

LEMMA StartRatingInv ==
  ASSUME RatingInv, NEW q \in RatingCalls, NEW op \in {"create", "update", "remove"},
         NEW s \in Raters, NEW score \in {0} \cup Scores, StartRating(q, op, s, score)
  PROVE  RatingInv'
<1>1. PICK c : c = [IdleRating EXCEPT !.op = op, !.who = s, !.score = score,
                                      !.pc = IF op = "remove" THEN "store" ELSE "course"]
  OBVIOUS
<1>2. c \in RatingCallType /\ c.pc \in {"store", "course"} /\ c.who \in Raters
  BY <1>1 DEF IdleRating, RatingCallType, RatingNames
<1>3. /\ ratingCall' = [ratingCall EXCEPT ![q] = c] /\ RatingAt(q, "idle")
      /\ UNCHANGED <<rateable, rating, stats, astray>>
  BY <1>1 DEF StartRating
<1> QED BY <1>2, <1>3, RatingCallStep DEF Unfinished, RatingAt

\* What is stored overtakes every list that was read before.
LEMMA RatingStoreInv ==
  ASSUME RatingInv, NEW q \in RatingCalls, RatingStore(q)
  PROVE  RatingInv'
<1>1. PICK c : c = ratingCall[q]
  OBVIOUS
<1>2. /\ c \in RatingCallType /\ c.pc = "store" /\ c.who \in Raters
      /\ UNCHANGED <<rateable, stats, astray>>
  BY <1>1 DEF RatingInv, RatingStore, RatingAt
<1>3. CASE (c.op = "create") = (rating[c.who] = 0)
  <2>1. PICK n : n = Leaves(c)
    OBVIOUS
  <2>2. n \in {0} \cup Scores
    <3>1. rating[c.who] \in {0} \cup Scores
      BY <1>2 DEF RatingInv, Ratings
    <3>2. c.score \in {0} \cup Scores
      BY <1>2 DEF RatingCallType
    <3> QED BY <2>1, <3>1, <3>2 DEF Leaves
  <2>3. /\ rating' = [rating EXCEPT ![c.who] = n]
        /\ ratingCall' = [p \in RatingCalls |->
             IF p = q THEN [c EXCEPT !.pc = "stats.read"]
             ELSE [ratingCall[p] EXCEPT !.late =
                     @ \/ (RatingAt(p, "stats.write") /\ rating' # rating)]]
    BY <1>1, <1>3, <2>1 DEF RatingStore
  <2>4. rating' \in Ratings
    BY <1>2, <2>2, <2>3 DEF RatingInv, Ratings
  <2>5. PICK e : e = [c EXCEPT !.pc = "stats.read"]
    OBVIOUS
  <2>6. /\ ratingCall'[q] = e /\ e \in RatingCallType /\ e.pc = "stats.read" /\ e.who \in Raters
    BY <1>2, <2>3, <2>5 DEF RatingCallType, RatingNames
  <2>7. ASSUME NEW p \in RatingCalls, p # q
        PROVE  /\ ratingCall'[p] \in RatingCallType
               /\ RatingAt(p, "idle")' \/ ratingCall'[p].who \in Raters
               /\ ListIsCurrent(p)'
    <3>1. PICK d : d = ratingCall[p]
      OBVIOUS
    <3>2. d \in RatingCallType /\ (d.pc # "idle" => d.who \in Raters) /\ d.late \in BOOLEAN
      BY <3>1 DEF RatingInv, RatingAt, RatingCallType
    <3>3. PICK l \in BOOLEAN : l <=> d.late \/ (d.pc = "stats.write" /\ rating' # rating)
      OBVIOUS
    <3>4. ratingCall'[p] = [d EXCEPT !.late = l]
      BY <2>3, <2>7, <3>1, <3>2, <3>3 DEF RatingAt
    <3>5. /\ ratingCall'[p] \in RatingCallType /\ ratingCall'[p].pc = d.pc
          /\ ratingCall'[p].who = d.who /\ ratingCall'[p].list = d.list
          /\ ratingCall'[p].late = l
      BY <3>2, <3>4 DEF RatingCallType
    <3>6. ASSUME d.pc = "stats.write", ~ l PROVE d.list = rating'
      <4>1. ~ d.late /\ rating' = rating
        BY <3>3, <3>6
      <4> QED BY <3>1, <3>6, <4>1 DEF RatingInv, ListIsCurrent, RatingAt
    <3> QED BY <3>2, <3>5, <3>6 DEF ListIsCurrent, RatingAt
  <2>8. ratingCall' \in [RatingCalls -> RatingCallType]
    BY <2>3, <2>6, <2>7
  <2>9. Unfinished(q)'
    BY <2>6 DEF Unfinished
  <2> QED BY <2>4, <2>6, <2>7, <2>8, <2>9
          DEF RatingInv, ListIsCurrent, RatingAt, RatingStatsOffOnlyByRace
<1>4. CASE ~ ((c.op = "create") = (rating[c.who] = 0))
  <2>1. RatingEnds(q) /\ UNCHANGED rating
    BY <1>1, <1>4 DEF RatingStore
  <2>2. ~ Unfinished(q)
    BY <1>1, <1>2 DEF Unfinished
  <2> QED BY <1>2, <2>1, <2>2, RatingEndsInv
<1> QED BY <1>3, <1>4

LEMMA StatsReadInv ==
  ASSUME RatingInv, NEW q \in RatingCalls, StatsRead(q)
  PROVE  RatingInv'
<1>1. PICK c : c = [ratingCall[q] EXCEPT !.pc = "stats.write", !.list = rating]
  OBVIOUS
<1>2. /\ ratingCall[q] \in RatingCallType /\ ratingCall[q].who \in Raters /\ rating \in Ratings
      /\ UNCHANGED <<rateable, rating, stats, astray>>
  BY DEF RatingInv, StatsRead, RatingAt
<1>3. c \in RatingCallType /\ c.pc = "stats.write" /\ c.list = rating /\ c.who \in Raters
  BY <1>1, <1>2 DEF RatingCallType, RatingNames
<1>4. ratingCall' = [ratingCall EXCEPT ![q] = c]
  BY <1>1, <1>2 DEF StatsRead, RatingInv, RatingCallType
<1> QED BY <1>2, <1>3, <1>4, RatingCallStep

\* The writer's statistics are those of its list.
LEMMA StatsWriteInv ==
  ASSUME RatingInv, NEW q \in RatingCalls, StatsWrite(q)
  PROVE  RatingInv'
<1>1. /\ RatingEnds(q) /\ RatingAt(q, "stats.write") /\ UNCHANGED <<rateable, rating>>
  BY DEF StatsWrite
<1>2. /\ ratingCall' \in [RatingCalls -> RatingCallType] /\ ratingCall'[q].pc = "idle"
      /\ \A p \in RatingCalls : p # q => ratingCall'[p] = ratingCall[p]
  BY <1>1, IdleRatingTyped DEF RatingInv, RatingEnds
<1>3. \A p \in RatingCalls :
        ListIsCurrent(p)' /\ (~ RatingAt(p, "idle")' => ratingCall'[p].who \in Raters)
  BY <1>1, <1>2 DEF RatingInv, ListIsCurrent, RatingAt
<1>4. RatingStatsOffOnlyByRace'
  <2> SUFFICES ASSUME rateable', stats' # StatsOf(rating') PROVE astray'
    BY DEF RatingStatsOffOnlyByRace
  <2>1. stats' = StatsOf(ratingCall[q].list) /\ astray' = ratingCall[q].late
    BY <1>1 DEF StatsWrite
  <2>2. ratingCall[q].list # rating
    BY <1>1, <2>1
  <2> QED BY <1>1, <2>1, <2>2 DEF RatingInv, ListIsCurrent
<1> QED BY <1>1, <1>2, <1>3, <1>4 DEF RatingInv

LEMMA RatingProcessStopsInv ==
  ASSUME RatingInv, RatingProcessStops
  PROVE  RatingInv'
<1>1. /\ ratingCall' \in [RatingCalls -> RatingCallType]
      /\ \A q \in RatingCalls : ratingCall'[q].pc = "idle"
  BY IdleRatingTyped DEF RatingProcessStops
<1>2. RatingStatsOffOnlyByRace'
  BY DEF RatingInv, RatingStatsOffOnlyByRace, RatingProcessStops
<1> QED BY <1>1, <1>2 DEF RatingInv, RatingProcessStops, ListIsCurrent, RatingAt

LEMMA RatingNextInv == RatingInv /\ [RatingNext]_ratingVars => RatingInv'
<1> SUFFICES ASSUME RatingInv, [RatingNext]_ratingVars PROVE RatingInv'
  OBVIOUS
<1>1. ASSUME NEW q \in RatingCalls,
             RatingCourse(q) \/ RatingEnrolment(q) \/ RatingExisting(q)
      PROVE  RatingInv'
  <2>1. ~ RatingAt(q, "idle") /\ ~ Unfinished(q) /\ UNCHANGED <<rateable, rating, stats, astray>>
    BY <1>1 DEF RatingCourse, RatingEnrolment, RatingExisting, RatingAt, Unfinished
  <2>2. \/ RatingEnds(q)
        \/ \E name \in {"enrolment", "existing", "store"} : RatingAwaits(q, name)
    BY <1>1 DEF RatingCourse, RatingEnrolment, RatingExisting
  <2> QED BY <2>1, <2>2, RatingEndsInv, RatingAwaitsInv
<1>2. ASSUME NEW q \in RatingCalls,
             \/ \E op \in {"create", "update", "remove"}, s \in Raters,
                   score \in {0} \cup Scores : StartRating(q, op, s, score)
             \/ RatingStore(q) \/ StatsRead(q) \/ StatsWrite(q)
      PROVE  RatingInv'
  BY <1>2, StartRatingInv, RatingStoreInv, StatsReadInv, StatsWriteInv
<1>3. ASSUME NEW q \in RatingCalls, RatingCallFails(q)
      PROVE  RatingInv'
  BY <1>3, RatingEndsInv DEF RatingCallFails
<1>4. CASE \E s \in Raters : Enrols(s)
  BY <1>4 DEF Enrols, RatingInv, ListIsCurrent, RatingAt, RatingStatsOffOnlyByRace, Unfinished
<1>5. CASE CourseDeleted
  BY <1>5 DEF CourseDeleted, RatingInv, ListIsCurrent, RatingAt, RatingStatsOffOnlyByRace
<1>6. CASE RatingProcessStops
  BY <1>6, RatingProcessStopsInv
<1>7. CASE UNCHANGED ratingVars
  BY <1>7 DEF ratingVars, RatingInv, ListIsCurrent, RatingAt, RatingStatsOffOnlyByRace,
              Unfinished
<1> QED BY <1>1, <1>2, <1>3, <1>4, <1>5, <1>6, <1>7 DEF RatingNext

\* For any students and scores: a course shows the count and the average of its
\* ratings, unless a writer is on its way, the last had read its list before
\* another rating was stored, or a request ended in between.
THEOREM StatsOffOnlyByRace == RatingSpec => []RatingStatsOffOnlyByRace
<1>1. RatingInv => RatingStatsOffOnlyByRace
  BY DEF RatingInv
<1> QED BY <1>1, RatingInitInv, RatingNextInv, PTL DEF RatingSpec

Between(h, s) ==
  Cardinality(s) <= SumFunctionOnSet(h, s) /\ SumFunctionOnSet(h, s) <= 5 * Cardinality(s)

\* A sum of ratings lies between once and five times their count.
LEMMA SumBetween ==
  ASSUME NEW h, NEW S, IsFiniteSet(S), \A x \in S : h[x] \in 1..5
  PROVE  /\ Cardinality(S) \in Nat /\ SumFunctionOnSet(h, S) \in Nat
         /\ Cardinality(S) <= SumFunctionOnSet(h, S)
         /\ SumFunctionOnSet(h, S) <= 5 * Cardinality(S)
<1>1. Cardinality(S) \in Nat
  BY FS_CardinalityType
<1>2. SumFunctionOnSet(h, S) \in Nat
  <2>1. \A x \in S : h[x] \in Nat
    OBVIOUS
  <2> QED BY <2>1, SumTyped
<1>3. PICK B \in SUBSET (SUBSET S) :
        B = {s \in SUBSET S : ~ Between(h, s)}
  OBVIOUS
<1>4. B = {}
  <2> SUFFICES ASSUME B # {} PROVE FALSE
    OBVIOUS
  <2>1. PICK T \in B : \A W \in B : ~ (W \subseteq T /\ W # T)
    BY SmallestSubset
  <2>2. IsFiniteSet(T) /\ T \subseteq S
    BY <1>3, <2>1, FS_Subset
  <2>3. T # {}
    <3> SUFFICES ASSUME T = {} PROVE FALSE
      OBVIOUS
    <3>1. Cardinality(T) = 0 /\ SumFunctionOnSet(h, T) = 0
      BY <2>2, SumRecursion, FS_EmptySet
    <3> QED BY <1>3, <2>1, <3>1 DEF Between
  <2>4. PICK x : x \in T
    BY <2>3
  <2>5. PICK W : W = T \ {x}
    OBVIOUS
  <2>6. W \subseteq T /\ W # T /\ W \in SUBSET S
    BY <2>2, <2>4, <2>5
  <2>7. Cardinality(W) <= SumFunctionOnSet(h, W) /\ SumFunctionOnSet(h, W) <= 5 * Cardinality(W)
    BY <1>3, <2>1, <2>6 DEF Between
  <2>8. Cardinality(W) = Cardinality(T) - 1 /\ Cardinality(T) \in Nat
    BY <2>2, <2>4, <2>5, FS_RemoveElement, FS_CardinalityType
  <2>9. SumFunctionOnSet(h, T) = h[x] + SumFunctionOnSet(h, W)
    <3>1. \A y \in T : h[y] \in Int
      BY <2>2
    <3> QED BY <2>2, <2>4, <2>5, <3>1, SumTakesOut
  <2>10. SumFunctionOnSet(h, W) \in Nat
    <3>1. IsFiniteSet(W) /\ \A y \in W : h[y] \in Nat
      BY <2>2, <2>5, FS_Subset
    <3> QED BY <3>1, SumTyped
  <2>11. h[x] \in 1..5
    BY <2>2, <2>4
  <2>12. Cardinality(T) <= SumFunctionOnSet(h, T) /\ SumFunctionOnSet(h, T) <= 5 * Cardinality(T)
    BY <2>7, <2>8, <2>9, <2>10, <2>11
  <2> QED BY <1>3, <2>1, <2>12 DEF Between
<1>5. Between(h, S)
  BY <1>3, <1>4
<1> QED BY <1>1, <1>2, <1>5 DEF Between

LEMMA RoundedBetween ==
  ASSUME NEW n \in Nat \ {0}, NEW sum \in Nat, n <= sum, sum <= 5 * n
  PROVE  (200 * sum + n) \div (2 * n) \in 100..500
<1>1. PICK d \in Nat \ {0}, m \in Nat : d = 2 * n /\ m = 200 * sum + n
  OBVIOUS
<1>2. 100 * d <= m /\ m < 501 * d
  BY <1>1
<1>3. PICK a \in Int : a = m \div d
  OBVIOUS
<1>4. d * a <= m /\ m < d * a + d
  BY <1>1, <1>3
<1>5. a >= 100
  <2> SUFFICES ASSUME a <= 99 PROVE FALSE
    OBVIOUS
  <2>1. d * a <= d * 99
    BY <1>1
  <2> QED BY <1>1, <1>2, <1>4, <2>1
<1>6. a <= 500
  <2> SUFFICES ASSUME a >= 501 PROVE FALSE
    OBVIOUS
  <2>1. d * a >= d * 501
    BY <1>1
  <2> QED BY <1>1, <1>2, <1>4, <2>1
<1> QED BY <1>1, <1>3, <1>5, <1>6

StatsType == [reviews: 0..Cardinality(Raters), average: {0} \cup 100..500]

LEMMA StatsAreTyped ==
  ASSUME NEW r \in Ratings
  PROVE  StatsOf(r) \in StatsType
<1>1. PICK S, n, sum : S = Rated(r) /\ n = Cardinality(S) /\ sum = SumFunctionOnSet(r, S)
  OBVIOUS
<1>2. /\ IsFiniteSet(S) /\ n \in Nat /\ n <= Cardinality(Raters)
      /\ Cardinality(Raters) \in Nat
  BY <1>1, RatersFinite, FS_Subset, FS_CardinalityType DEF Rated, Ratings
<1>3. \A x \in S : r[x] \in 1..5
  BY <1>1, ScoresInRange DEF Rated, Ratings
<1>4. sum \in Nat /\ n <= sum /\ sum <= 5 * n
  BY <1>1, <1>2, <1>3, SumBetween
<1>5. StatsOf(r) = [reviews |-> n,
                    average |-> IF n = 0 THEN 0 ELSE (200 * sum + n) \div (2 * n)]
  BY <1>1 DEF StatsOf
<1>6. CASE n = 0
  BY <1>2, <1>5, <1>6 DEF StatsType
<1>7. CASE n # 0
  <2>1. (200 * sum + n) \div (2 * n) \in 100..500
    BY <1>2, <1>4, <1>7, RoundedBetween
  <2> QED BY <1>2, <1>5, <1>7, <2>1 DEF StatsType
<1> QED BY <1>6, <1>7

HoldsItsData(c) ==
  /\ c.pc = "idle" => c = IdleRating
  /\ c.pc # "idle" => c.op # "none"
  /\ c.pc = "stats.write" => c.list \in Ratings

RatingTypes ==
  /\ rateable \in BOOLEAN /\ astray \in BOOLEAN /\ enrolled \in SUBSET Raters
  /\ stats \in StatsType
  /\ \A q \in RatingCalls : HoldsItsData(ratingCall[q])
  /\ ratingCalls \in 0..MaxRatingCalls /\ ratingFaults \in 0..MaxRatingFaults

LEMMA IdleHoldsNothing == HoldsItsData(IdleRating)
  BY DEF HoldsItsData, IdleRating

LEMMA RatingInitTypes == RatingInit => RatingTypes
<1> SUFFICES ASSUME RatingInit PROVE RatingTypes
  OBVIOUS
<1>1. stats \in StatsType
  BY RatersFinite, FS_CardinalityType DEF RatingInit, StatsType
<1>2. \A q \in RatingCalls : HoldsItsData(ratingCall[q])
  BY IdleHoldsNothing DEF RatingInit
<1>3. rateable \in BOOLEAN /\ astray \in BOOLEAN /\ enrolled \in SUBSET Raters
  BY Zenon DEF RatingInit
<1>4. ratingCalls \in 0..MaxRatingCalls /\ ratingFaults \in 0..MaxRatingFaults
  BY RatingBounds DEF RatingInit
<1> QED BY <1>1, <1>2, <1>3, <1>4 DEF RatingTypes

LEMMA RatingTypesStep ==
  ASSUME RatingInv, RatingTypes, NEW q \in RatingCalls, NEW c, HoldsItsData(c),
         ratingCall' = [ratingCall EXCEPT ![q] = c]
  PROVE  \A p \in RatingCalls : HoldsItsData(ratingCall'[p])
  BY DEF RatingInv, RatingTypes

LEMMA RatingCallTypes ==
  ASSUME RatingInv, RatingTypes, NEW q \in RatingCalls,
         \/ \E op \in {"create", "update", "remove"}, s \in Raters,
               score \in {0} \cup Scores : StartRating(q, op, s, score)
         \/ RatingCourse(q) \/ RatingEnrolment(q) \/ RatingExisting(q)
         \/ RatingStore(q) \/ StatsRead(q) \/ StatsWrite(q) \/ RatingCallFails(q)
  PROVE  RatingTypes'
<1>1. CASE \E op \in {"create", "update", "remove"}, s \in Raters,
             score \in {0} \cup Scores : StartRating(q, op, s, score)
  <2>1. PICK op \in {"create", "update", "remove"}, s \in Raters, score \in {0} \cup Scores :
          StartRating(q, op, s, score)
    BY <1>1
  <2>2. PICK c : c = [IdleRating EXCEPT !.op = op, !.who = s, !.score = score,
                                        !.pc = IF op = "remove" THEN "store" ELSE "course"]
    OBVIOUS
  <2>3. HoldsItsData(c)
    BY <2>2 DEF IdleRating, HoldsItsData
  <2>4. /\ ratingCall' = [ratingCall EXCEPT ![q] = c] /\ ratingCalls' = ratingCalls + 1
        /\ ratingCalls < MaxRatingCalls
        /\ UNCHANGED <<rateable, enrolled, stats, astray, ratingFaults>>
    BY <2>1, <2>2 DEF StartRating
  <2>5. \A p \in RatingCalls : HoldsItsData(ratingCall'[p])
    BY <2>3, <2>4, RatingTypesStep
  <2> QED BY <2>4, <2>5, RatingBounds DEF RatingTypes
<1>2. ASSUME RatingEnds(q) PROVE \A p \in RatingCalls : HoldsItsData(ratingCall'[p])
  BY <1>2, IdleHoldsNothing, RatingTypesStep DEF RatingEnds
<1>3. ASSUME NEW name \in {"enrolment", "existing", "store"}, RatingAwaits(q, name),
             ~ RatingAt(q, "idle")
      PROVE  \A p \in RatingCalls : HoldsItsData(ratingCall'[p])
  <2>1. PICK c : c = [ratingCall[q] EXCEPT !.pc = name]
    OBVIOUS
  <2>2. ratingCall[q] \in RatingCallType /\ ratingCall[q].op # "none"
    BY <1>3 DEF RatingInv, RatingTypes, HoldsItsData, RatingAt
  <2>3. HoldsItsData(c)
    BY <2>1, <2>2 DEF RatingCallType, HoldsItsData
  <2>4. ratingCall' = [ratingCall EXCEPT ![q] = c]
    BY <1>3, <2>1 DEF RatingAwaits
  <2> QED BY <2>3, <2>4, RatingTypesStep
<1>4. CASE RatingCourse(q) \/ RatingEnrolment(q) \/ RatingExisting(q)
  <2>1. /\ ~ RatingAt(q, "idle")
        /\ UNCHANGED <<rateable, enrolled, stats, astray, ratingCalls, ratingFaults>>
    BY <1>4 DEF RatingCourse, RatingEnrolment, RatingExisting, RatingAt, RatingBoundsKept
  <2>2. \/ RatingEnds(q)
        \/ \E name \in {"enrolment", "existing", "store"} : RatingAwaits(q, name)
    BY <1>4 DEF RatingCourse, RatingEnrolment, RatingExisting
  <2>3. \A p \in RatingCalls : HoldsItsData(ratingCall'[p])
    BY <1>2, <1>3, <2>1, <2>2
  <2> QED BY <2>1, <2>3 DEF RatingTypes
<1>5. CASE RatingStore(q)
  <2>1. /\ RatingAt(q, "store")
        /\ UNCHANGED <<rateable, enrolled, stats, astray, ratingCalls, ratingFaults>>
    BY <1>5 DEF RatingStore, RatingBoundsKept
  <2>2. \/ RatingEnds(q)
        \/ \E m : ratingCall' = [p \in RatingCalls |->
              IF p = q THEN [ratingCall[q] EXCEPT !.pc = "stats.read"]
              ELSE [ratingCall[p] EXCEPT !.late =
                      @ \/ (RatingAt(p, "stats.write") /\ m # rating)]]
    BY <1>5 DEF RatingStore
  <2>3. ASSUME NEW m, ratingCall' = [p \in RatingCalls |->
              IF p = q THEN [ratingCall[q] EXCEPT !.pc = "stats.read"]
              ELSE [ratingCall[p] EXCEPT !.late =
                      @ \/ (RatingAt(p, "stats.write") /\ m # rating)]],
               NEW p \in RatingCalls
        PROVE  HoldsItsData(ratingCall'[p])
    <3>1. PICK d : d = ratingCall[p]
      OBVIOUS
    <3>2. d \in RatingCallType /\ HoldsItsData(d)
      BY <3>1 DEF RatingInv, RatingTypes
    <3>3. CASE p = q
      <4>1. d.pc = "store" /\ ratingCall'[p] = [d EXCEPT !.pc = "stats.read"]
        BY <2>1, <2>3, <3>1, <3>3 DEF RatingAt
      <4> QED BY <3>2, <4>1 DEF RatingCallType, HoldsItsData
    <3>4. CASE p # q
      <4>1. PICK l : /\ ratingCall'[p] = [d EXCEPT !.late = l]
                     /\ l = (d.late \/ (d.pc = "stats.write" /\ m # rating))
        BY <2>3, <3>1, <3>4 DEF RatingAt
      <4>2. CASE d.pc = "idle"
        <5>1. d = IdleRating /\ d.late = FALSE
          BY <3>2, <4>2 DEF HoldsItsData, IdleRating
        <5>2. l = FALSE
          BY <4>1, <4>2, <5>1
        <5>3. ratingCall'[p] = IdleRating
          BY <4>1, <5>1, <5>2 DEF IdleRating
        <5> QED BY <5>3, IdleHoldsNothing
      <4>3. CASE d.pc # "idle"
        BY <3>2, <4>1, <4>3 DEF RatingCallType, HoldsItsData
      <4> QED BY <4>2, <4>3
    <3> QED BY <3>3, <3>4
  <2>4. \A p \in RatingCalls : HoldsItsData(ratingCall'[p])
    BY <1>2, <2>2, <2>3
  <2> QED BY <2>1, <2>4 DEF RatingTypes
<1>6. CASE StatsRead(q)
  <2>1. PICK c : c = [ratingCall[q] EXCEPT !.pc = "stats.write", !.list = rating]
    OBVIOUS
  <2>2. /\ ratingCall[q] \in RatingCallType /\ rating \in Ratings /\ ratingCall[q].op # "none"
        /\ UNCHANGED <<rateable, enrolled, stats, astray, ratingCalls, ratingFaults>>
    BY <1>6 DEF RatingInv, RatingTypes, HoldsItsData, StatsRead, RatingAt, RatingBoundsKept
  <2>3. HoldsItsData(c)
    BY <2>1, <2>2 DEF RatingCallType, HoldsItsData
  <2>4. ratingCall' = [ratingCall EXCEPT ![q] = c]
    BY <1>6, <2>1, <2>2 DEF StatsRead, RatingInv, RatingCallType
  <2>5. \A p \in RatingCalls : HoldsItsData(ratingCall'[p])
    BY <2>3, <2>4, RatingTypesStep
  <2> QED BY <2>2, <2>5 DEF RatingTypes
<1>7. CASE StatsWrite(q)
  <2>1. \A p \in RatingCalls : HoldsItsData(ratingCall'[p])
    BY <1>2, <1>7 DEF StatsWrite
  <2>2. ratingCall[q].list \in Ratings /\ ratingCall[q].late \in BOOLEAN
    BY <1>7 DEF StatsWrite, RatingAt, RatingInv, RatingTypes, HoldsItsData, RatingCallType
  <2>3. StatsOf(ratingCall[q].list) \in StatsType
    BY <2>2, StatsAreTyped
  <2>4. stats' \in StatsType /\ astray' \in BOOLEAN
    BY <1>7, <2>2, <2>3 DEF StatsWrite, RatingTypes
  <2> QED BY <1>7, <2>1, <2>4 DEF StatsWrite, RatingBoundsKept, RatingTypes
<1>8. CASE RatingCallFails(q)
  <2>1. \A p \in RatingCalls : HoldsItsData(ratingCall'[p])
    BY <1>2, <1>8 DEF RatingCallFails
  <2>2. astray' \in BOOLEAN
    BY <1>8 DEF RatingCallFails, RatingTypes
  <2>3. ratingFaults' \in 0..MaxRatingFaults
    BY <1>8, RatingBounds DEF RatingCallFails, RatingTypes
  <2> QED BY <1>8, <2>1, <2>2, <2>3 DEF RatingCallFails, RatingTypes
<1> QED BY <1>1, <1>4, <1>5, <1>6, <1>7, <1>8

LEMMA RatingNextTypes == RatingInv /\ RatingTypes /\ [RatingNext]_ratingVars => RatingTypes'
<1> SUFFICES ASSUME RatingInv, RatingTypes, [RatingNext]_ratingVars PROVE RatingTypes'
  OBVIOUS
<1>1. CASE \E s \in Raters : Enrols(s)
  BY <1>1 DEF Enrols, RatingTypes
<1>2. CASE CourseDeleted
  BY <1>2 DEF CourseDeleted, RatingTypes
<1>3. CASE RatingProcessStops
  <2>1. \A q \in RatingCalls : HoldsItsData(ratingCall'[q])
    BY <1>3, IdleHoldsNothing DEF RatingProcessStops
  <2>2. astray' \in BOOLEAN
    BY <1>3 DEF RatingProcessStops, RatingTypes
  <2>3. ratingFaults' \in 0..MaxRatingFaults
    BY <1>3, RatingBounds DEF RatingProcessStops, RatingTypes
  <2> QED BY <1>3, <2>1, <2>2, <2>3 DEF RatingProcessStops, RatingTypes
<1>4. CASE UNCHANGED ratingVars
  BY <1>4 DEF ratingVars, RatingTypes
<1> QED BY <1>1, <1>2, <1>3, <1>4, RatingCallTypes DEF RatingNext

LEMMA RatingTypeCorrect == RatingInv /\ RatingTypes => RatingTypeOK
<1> SUFFICES ASSUME RatingInv, RatingTypes PROVE RatingTypeOK
  OBVIOUS
<1>1. ASSUME NEW q \in RatingCalls, ratingCall[q] # IdleRating
      PROVE  /\ ratingCall[q].pc \in RatingNames
             /\ ratingCall[q].op \in {"create", "update", "remove"}
             /\ ratingCall[q].who \in Raters
             /\ ratingCall[q].score \in {0} \cup Scores
             /\ ratingCall[q].list = <<>> \/ ratingCall[q].list \in [Raters -> {0} \cup Scores]
             /\ ratingCall[q].late \in BOOLEAN
  <2>1. ratingCall[q] \in RatingCallType /\ ratingCall[q].pc # "idle" /\ ratingCall[q].op # "none"
    BY <1>1 DEF RatingInv, RatingTypes, HoldsItsData
  <2>2. ratingCall[q].who \in Raters
    BY <2>1 DEF RatingInv, RatingAt
  <2> QED BY <2>1, <2>2 DEF RatingCallType, Ratings
<1> QED BY <1>1 DEF RatingInv, RatingTypes, RatingTypeOK, StatsType, Ratings

----------------------------------------------------------------------------
(***************************************************************************)
(* Resources.  The type is its own invariant.                              *)
(***************************************************************************)

Maps == [Ids -> Bodies \cup {NoBody}]
Replies == [request: RequestKinds, id: Uuids \cup ObjectIds \cup {NoRecordId},
            body: Bodies \cup {NoBody}, status: {200, 400, 401, 403, 404}]

LEMMA ResourceInitInv == ResourceInit => ResourceTypeOK
  BY DEF ResourceInit, ResourceTypeOK, Nothing

LEMMA StatusTyped ==
  ASSUME NEW verb, NEW caller, NEW i
  PROVE  Status(verb, caller, i) \in {200, 400, 401, 403, 404}
  BY DEF Status, GuardStatus

\* A verb for one record that is let through is for a kept object id.
LEMMA AnsweredForOne ==
  ASSUME NEW verb \in ForOneRecord, NEW caller, NEW i, Status(verb, caller, i) = 200
  PROVE  i \in ObjectIds /\ Kept(i)
  BY DEF Status, GuardStatus, ForOneRecord, ValidObjectId

\* A step that keeps the resource.
LEMMA ResourceStep ==
  ASSUME ResourceTypeOK, UNCHANGED resource,
         records' \in Maps, given' \in SUBSET Ids,
         listCached' \in {listCached, NoBody, records}, reply' \in {NoReply, reply} \cup Replies
  PROVE  ResourceTypeOK'
<1>1. Ids' = Ids
  BY DEF Ids
<1>2. records \in Maps /\ listCached \in {NoBody} \cup Maps
  BY DEF ResourceTypeOK, Maps
<1> QED BY <1>1, <1>2 DEF ResourceTypeOK, Maps, Replies

LEMMA MapsAreUpdated ==
  ASSUME NEW m \in Maps, NEW i \in Ids, NEW body \in Bodies \cup {NoBody}
  PROVE  [m EXCEPT ![i] = body] \in Maps
  BY DEF Maps

LEMMA AnswerTyped ==
  ASSUME NEW verb \in RequestKinds, NEW i \in Uuids \cup ObjectIds \cup {NoRecordId},
         NEW body \in Bodies \cup {NoBody}, NEW status \in {200, 400, 401, 403, 404},
         Answer(verb, i, body, status)
  PROVE  reply' \in Replies
  BY DEF Answer, Replies

LEMMA ResourceNextInv == ResourceTypeOK /\ [ResourceNext]_resourceVars => ResourceTypeOK'
<1> SUFFICES ASSUME ResourceTypeOK, [ResourceNext]_resourceVars PROVE ResourceTypeOK'
  OBVIOUS
<1> USE DEF RequestKinds, ForOneRecord
<1>1. records \in Maps /\ given \in SUBSET Ids
  BY DEF ResourceTypeOK, Maps
<1>2. ASSUME NEW verb \in RequestKinds, NEW caller, NEW i \in Uuids \cup ObjectIds,
             Refuse(verb, caller, i)
      PROVE  ResourceTypeOK'
  <2>1. reply' \in Replies
    BY <1>2, StatusTyped, AnswerTyped DEF Refuse
  <2> QED BY <1>1, <1>2, <2>1, ResourceStep DEF Refuse
<1>3. ASSUME NEW caller, List(caller) PROVE ResourceTypeOK'
  <2>1. reply' \in Replies
    BY <1>3, AnswerTyped DEF List
  <2>2. listCached' \in {listCached, records}
    BY <1>3 DEF List
  <2> QED BY <1>1, <1>3, <2>1, <2>2, ResourceStep DEF List
<1>4. ASSUME NEW caller, NEW i \in Uuids \cup ObjectIds, Fetch(caller, i) PROVE ResourceTypeOK'
  <2>1. i \in ObjectIds /\ Kept(i)
    BY <1>4, AnsweredForOne DEF Fetch
  <2>2. records[i] \in Bodies \cup {NoBody}
    BY <1>1, <2>1 DEF Kept, Maps
  <2>3. reply' \in Replies
    BY <1>4, <2>2, AnswerTyped DEF Fetch
  <2> QED BY <1>1, <1>4, <2>3, ResourceStep DEF Fetch
<1>5. ASSUME NEW caller, NEW i \in Uuids \cup ObjectIds, Remove(caller, i) PROVE ResourceTypeOK'
  <2>1. i \in ObjectIds /\ Kept(i) /\ i \in Ids
    BY <1>5, AnsweredForOne DEF Remove, Kept
  <2>2. reply' \in Replies
    BY <1>5, AnswerTyped DEF Remove
  <2>3. records' \in Maps
    BY <1>1, <1>5, <2>1, MapsAreUpdated DEF Remove, Store
  <2> QED BY <1>1, <1>5, <2>2, <2>3, ResourceStep DEF Remove, Store, EvictList
<1>6. ASSUME NEW caller, NEW i \in Uuids \cup ObjectIds, NEW body \in Bodies,
             Create(caller, i, body)
      PROVE  ResourceTypeOK'
  <2>1. records' = [records EXCEPT ![i] = body] /\ given' = given \cup {i} /\ i \in Ids
    BY <1>6 DEF Create, Store
  <2>2. reply' \in Replies
    BY <1>6, AnswerTyped DEF Create
  <2>3. records' \in Maps /\ given' \in SUBSET Ids
    BY <1>1, <2>1, MapsAreUpdated
  <2> QED BY <1>1, <1>6, <2>1, <2>2, <2>3, ResourceStep DEF Create, Store, EvictList
<1>7. ASSUME NEW caller, NEW i \in Uuids \cup ObjectIds, NEW body \in Bodies,
             Update(caller, i, body)
      PROVE  ResourceTypeOK'
  <2>1. i \in ObjectIds /\ Kept(i) /\ i \in Ids
    BY <1>7, AnsweredForOne DEF Update, Kept
  <2>2. reply' \in Replies
    BY <1>7, AnswerTyped DEF Update
  <2>3. records' \in Maps
    BY <1>1, <1>7, <2>1, MapsAreUpdated DEF Update, Store
  <2> QED BY <1>1, <1>7, <2>2, <2>3, ResourceStep DEF Update, Store, EvictList
<1>8. CASE Restart
  <2>1. Nothing \in Maps
    BY DEF Nothing, Maps
  <2> QED BY <1>1, <1>8, <2>1, ResourceStep DEF Restart
<1>9. CASE ListCacheExpires
  BY <1>1, <1>9, ResourceStep DEF ListCacheExpires
<1>10. CASE UNCHANGED resourceVars
  BY <1>1, <1>10, ResourceStep DEF resourceVars
<1> QED BY <1>2, <1>3, <1>4, <1>5, <1>6, <1>7, <1>8, <1>9, <1>10 DEF ResourceNext

----------------------------------------------------------------------------
(***************************************************************************)
(* The directory.  Without ties there is one set of first k matches, so as *)
(* long as no course changes what a visitor has seen is the first matches  *)
(* up to the page he is at.                                                *)
(***************************************************************************)

WalkType ==
  [by: {"page", "skip"}, limit: Nat \ {0}, page: Nat \ {0}, skip: Nat,
   pending: SUBSET Pending, shown: SUBSET Shown, repeated: BOOLEAN, total: Nat, done: BOOLEAN]

\* How many matches the pages before the last reach, and with it.
Before(w) == IF "find" \in w.pending THEN w.skip ELSE w.skip + w.limit

WalkIsExact ==
  /\ ~ walk.repeated /\ walk.shown \in Firsts(Before(walk))
  /\ "count" \notin walk.pending => walk.total = Cardinality(Matching)
  /\ walk.done => walk.shown = Matching

DirectoryInv ==
  /\ course \in [Shown -> [found: BOOLEAN, key: SortKeys]]
  /\ walk # NoWalk =>
       /\ walk \in WalkType /\ walk.skip = (walk.page - 1) * walk.limit
       /\ walk.done => walk.pending = {}
       /\ changed \/ Tied \/ WalkIsExact

LEMMA MatchesAreFinite ==
  IsFiniteSet(Matching) /\ Cardinality(Matching) \in Nat
  BY ShownFinite, FS_Subset, FS_CardinalityType DEF Matching

LEMMA FirstsAreFinite ==
  ASSUME NEW k \in Nat, NEW F \in Firsts(k)
  PROVE  F \subseteq Matching /\ IsFiniteSet(F) /\ Cardinality(F) = Cut(k, Cardinality(Matching))
  BY MatchesAreFinite, FS_Subset DEF Firsts

LEMMA NoneAreFirst == {} \in Firsts(0)
<1>1. Cardinality({}) = 0 /\ Cut(0, Cardinality(Matching)) = 0
  BY MatchesAreFinite, FS_EmptySet DEF Cut
<1> QED BY <1>1 DEF Firsts

LEMMA AllAreFirst ==
  ASSUME NEW k \in Nat, NEW F \in Firsts(k), k >= Cardinality(Matching)
  PROVE  F = Matching
<1>1. Cardinality(F) = Cardinality(Matching)
  BY FirstsAreFinite, MatchesAreFinite DEF Cut
<1> QED BY <1>1, FirstsAreFinite, MatchesAreFinite, FS_Subset

LEMMA FirstsAreUnique ==
  ASSUME course \in [Shown -> [found: BOOLEAN, key: SortKeys]], ~ Tied,
         NEW k \in Nat, NEW F \in Firsts(k), NEW G \in Firsts(k)
  PROVE  F = G
<1>1. /\ F \subseteq Matching /\ G \subseteq Matching /\ Cardinality(F) = Cardinality(G)
      /\ IsFiniteSet(F) /\ IsFiniteSet(G)
  BY FirstsAreFinite
<1> SUFFICES ASSUME F # G PROVE FALSE
  OBVIOUS
<1>2. PICK c \in F : c \notin G
  BY <1>1, FS_Subset
<1>3. PICK d \in G : d \notin F
  BY <1>1, FS_Subset
<1>4. course[c].key <= course[d].key /\ course[d].key <= course[c].key
  BY <1>1, <1>2, <1>3 DEF Firsts
<1>5. course[c].key \in Nat /\ course[d].key \in Nat
  BY <1>1, <1>2, <1>3, KeysAreNumbers DEF Matching
<1>6. course[c].key = course[d].key
  BY <1>4, <1>5
<1> QED BY <1>1, <1>2, <1>3, <1>6 DEF Tied

\* Paging by number and paging by a skip come to the same.
LEMMA SkipIsPages ==
  ASSUME NEW w \in WalkType, w.skip = (w.page - 1) * w.limit
  PROVE  SkipOf(w) = w.skip /\ PageOf(w) = w.page
<1>1. PICK l \in Nat \ {0} : l = w.limit
  BY DEF WalkType
<1>2. PICK n \in Nat : n = w.page - 1
  BY DEF WalkType
<1>3. w.page = n + 1 /\ w.skip = n * l
  BY <1>1, <1>2 DEF WalkType
<1>4. (n * l) \div l = n
  OBVIOUS
<1>5. PageOf(w) = w.page
  BY <1>1, <1>3, <1>4 DEF PageOf
<1>6. SkipOf(w) = w.skip
  BY DEF SkipOf
<1> QED BY <1>5, <1>6

\* The last page reaches the total.
LEMMA LastPageReaches ==
  ASSUME NEW n \in Nat, NEW l \in Nat \ {0}, NEW p \in Nat, p >= (n + l - 1) \div l
  PROVE  p * l >= n
<1>1. PICK q \in Nat : q = (n + l - 1) \div l
  OBVIOUS
<1>2. n + l - 1 < q * l + l
  BY <1>1
<1>3. q * l <= p * l
  BY <1>1
<1>4. q * l \in Nat /\ p * l \in Nat
  OBVIOUS
<1> QED BY <1>2, <1>3, <1>4

LEMMA DirectoryInitInv == DirectoryInit => DirectoryInv
  BY KeysAreNumbers DEF DirectoryInit, DirectoryInv

\* A step of the walk.
LEMMA WalkStep ==
  ASSUME DirectoryInv, UNCHANGED course,
         walk' # NoWalk =>
           /\ walk' \in WalkType /\ walk'.skip = (walk'.page - 1) * walk'.limit
           /\ walk'.done => walk'.pending = {}
           /\ changed' \/ Tied \/ WalkIsExact'
  PROVE  DirectoryInv'
<1>1. Tied => Tied'
  BY DEF Tied, Matching
<1> QED BY <1>1 DEF DirectoryInv

LEMMA LimitPositive ==
  ASSUME NEW want \in Limits
  PROVE  LimitOf(want) \in Nat \ {0}
  BY LimitsPositive DEF LimitOf, Cut

LEMMA StartWalkInv ==
  ASSUME DirectoryInv, NEW by \in {"page", "skip"}, NEW want \in Limits, StartWalk(by, want)
  PROVE  DirectoryInv'
<1>1. PICK l \in Nat \ {0} : l = LimitOf(want)
  BY LimitPositive
<1>2. /\ walk' = [by |-> by, limit |-> l, page |-> 1, skip |-> 0,
                  pending |-> Pending, shown |-> {}, repeated |-> FALSE, total |-> 0,
                  done |-> FALSE]
      /\ UNCHANGED course
  BY <1>1 DEF StartWalk
<1>3. walk' \in WalkType /\ walk'.skip = (walk'.page - 1) * walk'.limit
  BY <1>1, <1>2 DEF WalkType
<1>4. {} \in Firsts(0)'
  BY <1>2, NoneAreFirst DEF Firsts, Matching
<1>5. Before(walk') = 0 /\ "count" \in walk'.pending /\ ~ walk'.done /\ ~ walk'.repeated
  BY <1>2 DEF Before, Pending
<1>6. WalkIsExact'
  BY <1>2, <1>4, <1>5 DEF WalkIsExact
<1> QED BY <1>2, <1>3, <1>5, <1>6, WalkStep

LEMMA SearchFindsInv ==
  ASSUME DirectoryInv, SearchFinds
  PROVE  DirectoryInv'
<1>1. PICK w : w = walk
  OBVIOUS
<1>2. /\ w # NoWalk /\ w \in WalkType /\ w.skip = (w.page - 1) * w.limit
      /\ "find" \in w.pending /\ ~ w.done /\ UNCHANGED <<course, changed>>
  BY <1>1 DEF SearchFinds, DirectoryInv
<1>3. w.skip \in Nat /\ w.limit \in Nat /\ w.skip + w.limit \in Nat
  BY <1>2 DEF WalkType
<1>4. PICK before \in Firsts(w.skip), last \in Firsts(w.skip + w.limit) :
        /\ before \subseteq last
        /\ walk' = [w EXCEPT !.pending = @ \ {"find"}, !.shown = @ \cup (last \ before),
                             !.repeated = @ \/ (last \ before) \cap w.shown # {}]
  <2>1. SkipOf(w) = w.skip
    BY <1>2, SkipIsPages
  <2>2. PICK page \in Pages(w.skip, w.limit) :
          walk' = [w EXCEPT !.pending = @ \ {"find"}, !.shown = @ \cup page,
                            !.repeated = @ \/ page \cap w.shown # {}]
    BY <1>1, <2>1 DEF SearchFinds
  <2> QED BY <2>2 DEF Pages
<1>5. last \subseteq Shown
  BY <1>3, <1>4, FirstsAreFinite DEF Matching
<1>6. PICK page \in SUBSET Shown : page = last \ before
  BY <1>5
<1>7. PICK again \in BOOLEAN : again <=> w.repeated \/ page \cap w.shown # {}
  OBVIOUS
<1>8. walk' = [w EXCEPT !.pending = w.pending \ {"find"}, !.shown = w.shown \cup page,
                        !.repeated = again]
  BY <1>2, <1>4, <1>6, <1>7 DEF WalkType
<1>9. /\ walk' \in WalkType /\ walk'.skip = w.skip /\ walk'.limit = w.limit
      /\ walk'.page = w.page /\ walk'.pending = w.pending \ {"find"}
      /\ walk'.shown = w.shown \cup page /\ walk'.repeated = again
      /\ walk'.total = w.total /\ walk'.done = w.done
  BY <1>2, <1>6, <1>7, <1>8 DEF WalkType
<1>10. ASSUME ~ changed', ~ Tied PROVE WalkIsExact'
  <2>1. WalkIsExact
    BY <1>1, <1>2, <1>10 DEF DirectoryInv
  <2>2. ~ w.repeated /\ w.shown \in Firsts(w.skip)
    BY <1>1, <1>2, <2>1 DEF WalkIsExact, Before
  <2>3. w.shown = before
    BY <1>3, <1>10, <2>2, FirstsAreUnique DEF DirectoryInv
  <2>4. walk'.shown = last /\ ~ walk'.repeated
    BY <1>4, <1>6, <1>7, <1>9, <2>2, <2>3
  <2>5. Before(walk') = w.skip + w.limit
    BY <1>9 DEF Before
  <2>6. last \in Firsts(w.skip + w.limit)' /\ Cardinality(Matching)' = Cardinality(Matching)
    BY <1>2 DEF Firsts, Matching
  <2>7. "count" \notin walk'.pending => walk'.total = Cardinality(Matching)
    BY <1>1, <1>9, <2>1 DEF WalkIsExact
  <2> QED BY <1>2, <1>9, <2>4, <2>5, <2>6, <2>7 DEF WalkIsExact
<1> QED BY <1>2, <1>9, <1>10, WalkStep

LEMMA SearchCountsInv ==
  ASSUME DirectoryInv, SearchCounts
  PROVE  DirectoryInv'
<1>1. PICK w : w = walk
  OBVIOUS
<1>2. /\ w # NoWalk /\ w \in WalkType /\ w.skip = (w.page - 1) * w.limit
      /\ "count" \in w.pending /\ ~ w.done /\ UNCHANGED <<course, changed>>
      /\ walk' = [w EXCEPT !.pending = @ \ {"count"}, !.total = Cardinality(Matching)]
  BY <1>1 DEF SearchCounts, DirectoryInv
<1>3. /\ walk' \in WalkType /\ walk'.skip = w.skip /\ walk'.limit = w.limit
      /\ walk'.page = w.page /\ walk'.pending = w.pending \ {"count"}
      /\ walk'.shown = w.shown /\ walk'.repeated = w.repeated
      /\ walk'.total = Cardinality(Matching) /\ walk'.done = w.done
  BY <1>2, MatchesAreFinite DEF WalkType
<1>4. ASSUME ~ changed', ~ Tied PROVE WalkIsExact'
  <2>1. WalkIsExact
    BY <1>1, <1>2, <1>4 DEF DirectoryInv
  <2>2. Before(walk') = Before(w)
    BY <1>3 DEF Before
  <2>3. w.shown \in Firsts(Before(w))' /\ Cardinality(Matching)' = Cardinality(Matching)
    BY <1>1, <1>2, <2>1 DEF WalkIsExact, Firsts, Matching
  <2> QED BY <1>1, <1>2, <1>3, <2>1, <2>2, <2>3 DEF WalkIsExact
<1> QED BY <1>2, <1>3, <1>4, WalkStep

LEMMA NextPageInv ==
  ASSUME DirectoryInv, NextPage
  PROVE  DirectoryInv'
<1>1. PICK w : w = walk
  OBVIOUS
<1>2. /\ w # NoWalk /\ w \in WalkType /\ w.skip = (w.page - 1) * w.limit
      /\ w.pending = {} /\ ~ w.done /\ UNCHANGED <<course, changed>>
  BY <1>1 DEF NextPage, DirectoryInv
<1>3. PICK n \in Nat, l \in Nat \ {0} : n = w.page - 1 /\ l = w.limit
  BY <1>2 DEF WalkType
<1>4. w.page = n + 1 /\ w.skip = n * l /\ n * l + l = (n + 1) * l /\ (n + 1) * l \in Nat
  BY <1>2, <1>3 DEF WalkType
<1>5. ASSUME ~ changed, ~ Tied
      PROVE  /\ WalkIsExact /\ w.shown \in Firsts((n + 1) * l)
             /\ w.total = Cardinality(Matching)
  <2>1. WalkIsExact
    BY <1>1, <1>2, <1>5 DEF DirectoryInv
  <2>2. Before(w) = (n + 1) * l
    BY <1>2, <1>3, <1>4 DEF Before
  <2> QED BY <1>1, <1>2, <2>1, <2>2 DEF WalkIsExact
<1>6. CASE PageOf(w) >= TotalPages(w)
  <2>1. walk' = [w EXCEPT !.done = TRUE]
    BY <1>1, <1>6 DEF NextPage
  <2>2. /\ walk' \in WalkType /\ walk'.skip = w.skip /\ walk'.limit = w.limit
        /\ walk'.page = w.page /\ walk'.pending = {}
        /\ walk'.shown = w.shown /\ walk'.repeated = w.repeated /\ walk'.total = w.total
    BY <1>2, <2>1 DEF WalkType
  <2>3. ASSUME ~ changed', ~ Tied PROVE WalkIsExact'
    <3>1. WalkIsExact /\ w.shown \in Firsts((n + 1) * l) /\ w.total = Cardinality(Matching)
      BY <1>2, <1>5, <2>3
    <3>2. n + 1 >= (w.total + l - 1) \div l
      BY <1>2, <1>3, <1>4, <1>6, SkipIsPages DEF TotalPages
    <3>3. (n + 1) * l >= Cardinality(Matching)
      BY <3>1, <3>2, MatchesAreFinite, LastPageReaches
    <3>4. w.shown = Matching
      BY <1>4, <3>1, <3>3, AllAreFirst
    <3>5. Before(walk') = (n + 1) * l
      BY <1>3, <1>4, <2>2 DEF Before
    <3>6. w.shown \in Firsts((n + 1) * l)' /\ Matching' = Matching
      BY <1>2, <3>1 DEF Firsts, Matching
    <3> QED BY <1>1, <2>2, <3>1, <3>4, <3>5, <3>6 DEF WalkIsExact
  <2> QED BY <1>2, <2>2, <2>3, WalkStep
<1>7. CASE ~ PageOf(w) >= TotalPages(w)
  <2>1. PICK p \in Nat \ {0}, s \in Nat : p = n + 2 /\ s = (n + 1) * l
    BY <1>4
  <2>2. /\ walk' \in WalkType /\ walk'.skip = s /\ walk'.limit = l
        /\ walk'.page = p /\ walk'.pending = Pending
        /\ walk'.shown = w.shown /\ walk'.repeated = w.repeated /\ ~ walk'.done
    <3>1. w.page + 1 = p
      BY <1>4, <2>1
    <3>2. w.skip + w.limit = s
      BY <1>3, <1>4, <2>1
    <3>3. walk' = [w EXCEPT !.pending = Pending, !.page = p, !.skip = s]
      BY <1>1, <1>7, <3>1, <3>2 DEF NextPage
    <3> QED BY <1>2, <1>3, <3>3 DEF WalkType
  <2>3. walk'.skip = (walk'.page - 1) * walk'.limit
    <3>1. walk'.page - 1 = n + 1
      BY <2>1, <2>2
    <3> QED BY <2>1, <2>2, <3>1
  <2>4. ASSUME ~ changed', ~ Tied PROVE WalkIsExact'
    <3>1. WalkIsExact /\ w.shown \in Firsts((n + 1) * l)
      BY <1>2, <1>5, <2>4
    <3>2. Before(walk') = (n + 1) * l /\ "count" \in walk'.pending
      BY <2>1, <2>2 DEF Before, Pending
    <3>3. w.shown \in Firsts((n + 1) * l)'
      BY <1>2, <3>1 DEF Firsts, Matching
    <3> QED BY <1>1, <2>2, <3>1, <3>2, <3>3 DEF WalkIsExact
  <2> QED BY <1>2, <2>2, <2>3, <2>4, WalkStep
<1> QED BY <1>6, <1>7

LEMMA CourseChangesInv ==
  ASSUME DirectoryInv, NEW c \in Shown, NEW new \in [found: BOOLEAN, key: SortKeys],
         CourseChanges(c, new)
  PROVE  DirectoryInv'
  BY DEF DirectoryInv, CourseChanges

LEMMA DirectoryNextInv == DirectoryInv /\ [DirectoryNext]_directoryVars => DirectoryInv'
<1> SUFFICES ASSUME DirectoryInv, [DirectoryNext]_directoryVars PROVE DirectoryInv'
  OBVIOUS
<1>1. CASE \E by \in {"page", "skip"}, want \in Limits : StartWalk(by, want)
  BY <1>1, StartWalkInv
<1>2. CASE SearchFinds \/ SearchCounts \/ NextPage
  BY <1>2, SearchFindsInv, SearchCountsInv, NextPageInv
<1>3. CASE WalkEnds
  BY <1>3 DEF WalkEnds, DirectoryInv
<1>4. CASE \E c \in Shown, new \in [found: BOOLEAN, key: SortKeys] : CourseChanges(c, new)
  BY <1>4, CourseChangesInv
<1>5. CASE UNCHANGED directoryVars
  <2>1. UNCHANGED <<course, walk, changed>>
    BY <1>5 DEF directoryVars
  <2>2. WalkIsExact => WalkIsExact'
    BY <2>1 DEF WalkIsExact, Before, Firsts, Matching
  <2> QED BY <2>1, <2>2, WalkStep DEF DirectoryInv
<1> QED BY <1>1, <1>2, <1>3, <1>4, <1>5 DEF DirectoryNext

\* For any courses, sort keys and page sizes: a visitor who has gone through
\* all pages has seen every match, each once, unless a course changed meanwhile
\* or two matches share the sort key.
THEOREM DoPagesPartitionUnlessTied == DirectorySpec => []PagesPartitionUnlessTied
<1>1. DirectoryInv => PagesPartitionUnlessTied
  BY DEF DirectoryInv, WalkIsExact, PagesPartitionUnlessTied
<1> QED BY <1>1, DirectoryInitInv, DirectoryNextInv, PTL DEF DirectorySpec

WalkInBounds(w) ==
  /\ w.limit \in 1..MaxLimit /\ w.page \in 0..(Cardinality(Shown) + 1)
  /\ w.skip \in 0..(Cardinality(Shown) + MaxLimit) /\ w.total \in 0..Cardinality(Shown)

DirectoryTypes == changed \in BOOLEAN /\ (walk # NoWalk => WalkInBounds(walk))

LEMMA ShownCounted ==
  /\ Cardinality(Shown) \in Nat /\ Cardinality(Matching) \in 0..Cardinality(Shown)
  BY ShownFinite, FS_CardinalityType, FS_Subset DEF Matching

\* A page that is not the last leaves courses for the next.
LEMMA NextPageHasCourses ==
  ASSUME NEW n \in Nat, NEW l \in Nat \ {0}, NEW t \in Nat, n + 1 < (t + l - 1) \div l
  PROVE  n * l + l < t /\ n + 1 < t
<1>1. PICK q \in Int : q = (t + l - 1) \div l
  OBVIOUS
<1>2. l * q <= t + l - 1
  BY <1>1
<1>3. l * (n + 2) <= l * q
  BY <1>1
<1>4. l * (n + 2) = l * (n + 1) + l /\ l * (n + 1) = n * l + l /\ n + 1 <= l * (n + 1)
  OBVIOUS
<1> QED BY <1>2, <1>3, <1>4

LEMMA DirectoryNextTypes ==
  DirectoryInv /\ DirectoryTypes /\ [DirectoryNext]_directoryVars => DirectoryTypes'
<1> SUFFICES ASSUME DirectoryInv, DirectoryTypes, [DirectoryNext]_directoryVars
             PROVE  DirectoryTypes'
  OBVIOUS
<1>1. ASSUME NEW by \in {"page", "skip"}, NEW want \in Limits, StartWalk(by, want)
      PROVE  DirectoryTypes'
  <2>1. LimitOf(want) \in 1..MaxLimit
    BY LimitsPositive DEF LimitOf, Cut
  <2>2. WalkInBounds(walk')
    BY <1>1, <2>1, ShownCounted, LimitsPositive DEF StartWalk, WalkInBounds
  <2> QED BY <1>1, <2>2 DEF StartWalk, DirectoryTypes
<1>2. CASE SearchFinds
  <2>1. PICK page : walk' = [walk EXCEPT !.pending = @ \ {"find"}, !.shown = @ \cup page,
                               !.repeated = @ \/ page \cap walk.shown # {}]
    BY <1>2 DEF SearchFinds
  <2>2. walk # NoWalk /\ walk \in WalkType /\ changed' = changed
    BY <1>2 DEF SearchFinds, DirectoryInv
  <2>3. /\ walk'.limit = walk.limit /\ walk'.page = walk.page
        /\ walk'.skip = walk.skip /\ walk'.total = walk.total
    BY <2>1, <2>2 DEF WalkType
  <2> QED BY <2>2, <2>3 DEF DirectoryTypes, WalkInBounds
<1>3. CASE SearchCounts
  <2>1. /\ walk # NoWalk /\ walk \in WalkType /\ changed' = changed
        /\ walk' = [walk EXCEPT !.pending = @ \ {"count"}, !.total = Cardinality(Matching)]
    BY <1>3 DEF SearchCounts, DirectoryInv
  <2>2. /\ walk'.limit = walk.limit /\ walk'.page = walk.page
        /\ walk'.skip = walk.skip /\ walk'.total = Cardinality(Matching)
    BY <2>1 DEF WalkType
  <2> QED BY <2>1, <2>2, ShownCounted DEF DirectoryTypes, WalkInBounds
<1>4. CASE NextPage
  <2>1. PICK w : w = walk
    OBVIOUS
  <2>2. /\ w # NoWalk /\ w \in WalkType /\ w.skip = (w.page - 1) * w.limit
        /\ WalkInBounds(w) /\ changed' = changed
    BY <1>4, <2>1 DEF NextPage, DirectoryInv, DirectoryTypes
  <2>3. CASE PageOf(w) >= TotalPages(w)
    <3>1. walk' = [w EXCEPT !.done = TRUE]
      BY <1>4, <2>1, <2>3 DEF NextPage
    <3>2. /\ walk'.limit = w.limit /\ walk'.page = w.page
          /\ walk'.skip = w.skip /\ walk'.total = w.total
      BY <2>2, <3>1 DEF WalkType
    <3> QED BY <2>1, <2>2, <3>2 DEF DirectoryTypes, WalkInBounds
  <2>4. CASE ~ (PageOf(w) >= TotalPages(w))
    <3>1. walk' = [w EXCEPT !.pending = Pending, !.page = w.page + 1,
                            !.skip = w.skip + w.limit]
      BY <1>4, <2>1, <2>2, <2>4 DEF NextPage, WalkType
    <3>2. /\ walk'.limit = w.limit /\ walk'.page = w.page + 1
          /\ walk'.skip = w.skip + w.limit /\ walk'.total = w.total
      BY <2>2, <3>1 DEF WalkType
    <3>3. PICK n \in Nat, l \in Nat \ {0}, t \in Nat :
            n = w.page - 1 /\ l = w.limit /\ t = w.total
      BY <2>2 DEF WalkType
    <3>4. w.page = n + 1 /\ w.skip = n * l /\ n * l \in Nat
      BY <2>2, <3>3 DEF WalkType
    <3>5. n + 1 < (t + l - 1) \div l
      <4>1. ~ (n + 1 >= (t + l - 1) \div l)
        BY <2>2, <2>4, <3>3, <3>4, SkipIsPages DEF TotalPages
      <4>2. PICK q \in Int : q = (t + l - 1) \div l
        BY <3>3
      <4> QED BY <4>1, <4>2
    <3>6. n * l + l < t /\ n + 1 < t
      BY <3>5, NextPageHasCourses
    <3>7. /\ walk'.page = n + 2 /\ walk'.skip = n * l + l /\ walk'.total = t /\ walk'.limit = l
          /\ l \in 1..MaxLimit /\ t \in 0..Cardinality(Shown)
      BY <2>2, <3>2, <3>3, <3>4 DEF WalkInBounds
    <3>8. WalkInBounds(walk')
      BY <3>4, <3>6, <3>7, ShownCounted, LimitsPositive DEF WalkInBounds
    <3> QED BY <2>2, <3>8 DEF DirectoryTypes
  <2> QED BY <2>3, <2>4
<1>5. CASE WalkEnds
  BY <1>5 DEF WalkEnds, DirectoryTypes
<1>6. CASE \E c \in Shown, new \in [found: BOOLEAN, key: SortKeys] : CourseChanges(c, new)
  BY <1>6 DEF CourseChanges, DirectoryTypes
<1>7. CASE UNCHANGED directoryVars
  BY <1>7 DEF directoryVars, DirectoryTypes
<1> QED BY <1>1, <1>2, <1>3, <1>4, <1>5, <1>6, <1>7 DEF DirectoryNext

LEMMA DirectoryInitTypes == DirectoryInit => DirectoryTypes
  BY DEF DirectoryInit, DirectoryTypes

LEMMA DirectoryTypeCorrect == DirectoryInv /\ DirectoryTypes => DirectoryTypeOK
<1> SUFFICES ASSUME DirectoryInv, DirectoryTypes PROVE DirectoryTypeOK
  OBVIOUS
<1>1. walk # NoWalk =>
        /\ walk.by \in {"page", "skip"} /\ walk.pending \subseteq Pending
        /\ walk.shown \subseteq Shown /\ walk.repeated \in BOOLEAN /\ walk.done \in BOOLEAN
  BY DEF DirectoryInv, WalkType
<1> QED BY <1>1 DEF DirectoryInv, DirectoryTypes, WalkInBounds, DirectoryTypeOK

----------------------------------------------------------------------------
(***************************************************************************)
(* Reports.  While nothing that a report is about has changed since it was *)
(* asked for, each figure it has is what its query would answer now; and   *)
(* figures of one moment add up.                                           *)
(***************************************************************************)

AllFigures == CourseFigures \cup Catalogue \cup PlatformFigures
Gots == UNION {[F -> Nat] : F \in SUBSET AllFigures}
ReportType == [kind: {"course", "tutor", "platform"}, courses: SUBSET Catalogue,
               since: 0..MaxTime, got: Gots]

\* The enrolments that Enrolled counts, and the students that Students counts.
Pairs(courses, from, to) ==
  {p \in courses \X Buyers : enrolment[p] # Never /\ enrolment[p] >= from /\ enrolment[p] < to}
People(courses) == {b \in Buyers : \E c \in courses : enrolment[<<c, b>>] # Never}

\* The figures of r are those of this moment.
UpToDate(r) == \A f \in DOMAIN r.got : r.got[f] = FigureOf(r, f)

AnalyticsInv ==
  /\ AnalyticsTypeOK
  /\ asked # NoReport => asked \in ReportType
  /\ asked # NoReport /\ ~ overtaken => UpToDate(asked)
  /\ ReportsAddUpUnlessOvertaken

LEMMA PairsFinite ==
  ASSUME NEW courses \in SUBSET Catalogue, NEW from, NEW to
  PROVE  /\ IsFiniteSet(Pairs(courses, from, to))
         /\ Enrolled(courses, from, to) = Cardinality(Pairs(courses, from, to))
         /\ Enrolled(courses, from, to) \in Nat
<1>1. IsFiniteSet(courses \X Buyers)
  BY AnalyticsFinite, FS_Subset, FS_Product
<1>2. IsFiniteSet(Pairs(courses, from, to))
  BY <1>1, FS_Subset DEF Pairs
<1>3. Enrolled(courses, from, to) = Cardinality(Pairs(courses, from, to))
  BY DEF Enrolled, Pairs
<1> QED BY <1>2, <1>3, FS_CardinalityType

LEMMA PeopleFinite ==
  ASSUME NEW courses
  PROVE  /\ IsFiniteSet(People(courses))
         /\ Students(courses) = Cardinality(People(courses))
         /\ Students(courses) \in Nat
<1>1. IsFiniteSet(People(courses))
  BY AnalyticsFinite, FS_Subset DEF People
<1>2. Students(courses) = Cardinality(People(courses))
  BY DEF Students, People
<1> QED BY <1>1, <1>2, FS_CardinalityType

\* More courses over a longer time have no fewer enrolments.
LEMMA EnrolledGrows ==
  ASSUME NEW courses \in SUBSET Catalogue, NEW from, NEW to, NEW f, NEW t,
         Pairs(courses, f, t) \subseteq Pairs(courses, from, to)
  PROVE  Enrolled(courses, f, t) <= Enrolled(courses, from, to)
BY PairsFinite, FS_Subset

LEMMA EnrolmentTimes ==
  ASSUME AnalyticsTypeOK, NEW p \in Catalogue \X Buyers
  PROVE  enrolment[p] \in Int /\ enrolment[p] >= Never /\ enrolment[p] < Ever
         /\ (enrolment[p] # Never => enrolment[p] >= 0)
BY MaxTimeNat DEF AnalyticsTypeOK, Enrolments, Never, Ever

\* No more students than enrolments.
LEMMA NoMoreStudents ==
  ASSUME AnalyticsTypeOK, NEW courses \in SUBSET Catalogue
  PROVE  Students(courses) <= Enrolled(courses, 0, Ever)
<1>1. PICK P : P = Pairs(courses, 0, Ever)
  OBVIOUS
<1>2. PICK B : B = People(courses)
  OBVIOUS
<1>3. PICK f : f = [p \in P |-> p[2]]
  OBVIOUS
<1>4. \A p \in P : f[p] \in B
  BY <1>1, <1>2, <1>3 DEF Pairs, People
<1>5. ASSUME NEW b \in B
      PROVE  \E p \in P : f[p] = b
  <2>1. PICK c \in courses : b \in Buyers /\ enrolment[<<c, b>>] # Never
    BY <1>2, <1>5 DEF People
  <2>2. <<c, b>> \in P
    BY <1>1, <2>1, EnrolmentTimes DEF Pairs
  <2>3. f[<<c, b>>] = b
    BY <1>3, <2>2
  <2> QED BY <2>2, <2>3
<1>6. f \in Surjection(P, B)
  BY <1>3, <1>4, <1>5 DEF Surjection
<1>7. Cardinality(B) <= Cardinality(P)
  BY <1>1, <1>6, PairsFinite, FS_Surjection
<1> QED BY <1>1, <1>2, <1>7, PairsFinite, PeopleFinite

\* The students of several courses are no more than those of each together.
LEMMA StudentsOfCourses ==
  ASSUME AnalyticsTypeOK, NEW courses \in SUBSET Catalogue, NEW h,
         \A c \in courses : h[c] = Enrolled({c}, 0, Ever)
  PROVE  Students(courses) <= SumFunctionOnSet(h, courses)
<1>1. IsFiniteSet(courses)
  BY AnalyticsFinite, FS_Subset
<1>2. PICK B \in SUBSET (SUBSET courses) :
        B = {s \in SUBSET courses : ~ (Students(s) <= SumFunctionOnSet(h, s))}
  OBVIOUS
<1> SUFFICES ASSUME B # {} PROVE FALSE
  BY <1>2
<1>3. PICK T \in B : \A W \in B : ~ (W \subseteq T /\ W # T)
  BY <1>1, SmallestSubset
<1>4. IsFiniteSet(T) /\ T \subseteq courses
  BY <1>1, <1>2, <1>3, FS_Subset
<1>5. CASE T = {}
  <2>1. People(T) = {}
    BY <1>5 DEF People
  <2>2. Students(T) = 0
    BY <2>1, PeopleFinite, FS_EmptySet
  <2>3. SumFunctionOnSet(h, T) = 0
    BY <1>4, <1>5, SumRecursion
  <2> QED BY <1>2, <1>3, <2>2, <2>3
<1>6. CASE T # {}
  <2>1. PICK c \in T : TRUE
    BY <1>6
  <2>2. PICK W : W = T \ {c}
    OBVIOUS
  <2>3. W \in SUBSET courses /\ W \subseteq T /\ W # T /\ IsFiniteSet(W)
    BY <1>4, <2>1, <2>2, FS_Subset
  <2>4. Students(W) <= SumFunctionOnSet(h, W)
    BY <1>2, <1>3, <2>3
  <2>5. ASSUME NEW d \in T PROVE h[d] \in Nat
    <3>1. {d} \in SUBSET Catalogue /\ h[d] = Enrolled({d}, 0, Ever)
      BY <1>4
    <3> QED BY <3>1, PairsFinite
  <2>6. SumFunctionOnSet(h, T) = h[c] + SumFunctionOnSet(h, W)
    BY <1>4, <2>2, <2>5, SumTakesOut
  <2>7. SumFunctionOnSet(h, W) \in Int
    BY <2>2, <2>3, <2>5, SumTyped
  <2>8. Students({c}) <= h[c]
    BY <1>4, NoMoreStudents
  <2>9. People(T) = People(W) \cup People({c})
    BY <2>2 DEF People
  <2>10. Students(T) <= Students(W) + Students({c})
    <3>1. Cardinality(People(T))
            = Cardinality(People(W)) + Cardinality(People({c}))
                - Cardinality(People(W) \cap People({c}))
      BY <2>9, PeopleFinite, FS_Union
    <3>2. Cardinality(People(W) \cap People({c})) \in Nat
      BY PeopleFinite, FS_Subset, FS_CardinalityType
    <3> QED BY <3>1, <3>2, PeopleFinite
  <2>11. Students(T) \in Nat /\ Students(W) \in Nat /\ Students({c}) \in Nat /\ h[c] \in Nat
    BY <2>5, PeopleFinite
  <2>12. Students(T) <= SumFunctionOnSet(h, T)
    BY <2>4, <2>6, <2>7, <2>8, <2>10, <2>11
  <2> QED BY <1>2, <1>3, <2>12
<1> QED BY <1>5, <1>6

LEMMA CourseFiguresAddUp ==
  ASSUME AnalyticsTypeOK, NEW r \in ReportType, r.kind = "course",
         \A f \in CourseFigures : r.got[f] = FigureOf(r, f)
  PROVE  AddsUp(r)
<1>1. PICK C \in SUBSET Catalogue, since \in Int : C = r.courses /\ since = r.since
  BY DEF ReportType
<1>2. PICK a, w, m, p : /\ a = r.got["all"] /\ w = r.got["week"]
                        /\ m = r.got["month"] /\ p = r.got["previous"]
  OBVIOUS
<1>3. PICK from \in Int, start \in Int, before \in Int :
        /\ from = since - Month /\ start = since - Week /\ before = since - 2 * Month
        /\ from <= start
  BY WindowsNested
<1>4. /\ a = Enrolled(C, 0, Ever) /\ w = Enrolled(C, start, Ever)
      /\ m = Enrolled(C, from, Ever) /\ p = Enrolled(C, before, from)
  BY <1>1, <1>2, <1>3 DEF CourseFigures, FigureOf, CourseFigure
<1>5. w <= m
  <2>1. ASSUME NEW q \in Pairs(C, start, Ever)
        PROVE  q \in Pairs(C, from, Ever)
    <3>1. q \in C \X Buyers /\ q \in Catalogue \X Buyers /\ enrolment[q] >= start
      BY <2>1 DEF Pairs
    <3>2. enrolment[q] \in Int /\ enrolment[q] < Ever
      BY <3>1, EnrolmentTimes
    <3>3. enrolment[q] >= from
      BY <1>3, <3>1, <3>2
    <3> QED BY <2>1, <3>1, <3>2, <3>3 DEF Pairs
  <2> QED BY <1>4, <2>1, EnrolledGrows
<1>6. p + m <= a
  <2>1. PICK P, M, A : P = Pairs(C, before, from) /\ M = Pairs(C, from, Ever)
                       /\ A = Pairs(C, 0, Ever)
    OBVIOUS
  <2>2. ASSUME NEW q \in P \cup M
        PROVE  q \in A /\ ~ (q \in P /\ q \in M)
    <3>1. q \in C \X Buyers /\ q \in Catalogue \X Buyers /\ enrolment[q] # Never
      BY <2>1, <2>2 DEF Pairs
    <3>2. enrolment[q] \in Int /\ enrolment[q] >= 0 /\ enrolment[q] < Ever
      BY <3>1, EnrolmentTimes
    <3>3. q \in A
      BY <2>1, <3>1, <3>2 DEF Pairs
    <3>4. ~ (q \in P /\ q \in M)
      BY <1>3, <2>1, <3>2 DEF Pairs
    <3> QED BY <3>3, <3>4
  <2>3. P \cap M = {} /\ P \cup M \subseteq A
    BY <2>2
  <2>4. IsFiniteSet(P) /\ IsFiniteSet(M) /\ IsFiniteSet(A)
    BY <2>1, PairsFinite
  <2>5. Cardinality(P \cup M) = Cardinality(P) + Cardinality(M) - Cardinality(P \cap M)
    BY <2>4, FS_Union
  <2>6. Cardinality(P \cup M) <= Cardinality(A)
    BY <2>3, <2>4, FS_Subset
  <2>7. Cardinality(P \cap M) = 0
    BY <2>3, FS_EmptySet
  <2>8. p = Cardinality(P) /\ m = Cardinality(M) /\ a = Cardinality(A)
    BY <1>4, <2>1, PairsFinite
  <2>9. Cardinality(P) \in Nat /\ Cardinality(M) \in Nat /\ Cardinality(A) \in Nat
    BY <2>4, FS_CardinalityType
  <2> QED BY <2>5, <2>6, <2>7, <2>8, <2>9
<1>7. a \in Nat /\ w \in Nat /\ m \in Nat /\ p \in Nat
  BY <1>4, PairsFinite
<1>8. Trend(m, p) = "up" => m > p
  BY <1>7 DEF Trend
<1>9. Trend(m, p) = "down" => m < p
  BY <1>7 DEF Trend
<1>10. p <= a - m
  BY <1>6, <1>7
<1> QED BY <1>2, <1>5, <1>8, <1>9, <1>10 DEF AddsUp

LEMMA TutorFiguresAddUp ==
  ASSUME AnalyticsTypeOK, NEW r \in ReportType, r.kind = "tutor",
         \A f \in r.courses \cup {"students"} : r.got[f] = FigureOf(r, f)
  PROVE  AddsUp(r)
<1>1. PICK C \in SUBSET Catalogue : C = r.courses
  BY DEF ReportType
<1>2. PICK got : got = r.got
  OBVIOUS
<1>3. got["students"] = Students(C)
  BY <1>1, <1>2 DEF FigureOf, TutorFigure
<1>4. \A c \in C : got[c] = Enrolled({c}, 0, Ever)
  BY <1>1, <1>2, NamesOfFigures DEF FigureOf, TutorFigure, PlatformFigures
<1>5. got["students"] <= SumFunctionOnSet(got, C)
  BY <1>3, <1>4, StudentsOfCourses
<1> QED BY <1>1, <1>2, <1>5 DEF AddsUp

LEMMA PlatformFiguresAddUp ==
  ASSUME AnalyticsTypeOK, NEW r \in ReportType, r.kind = "platform",
         \A f \in PlatformFigures : r.got[f] = FigureOf(r, f)
  PROVE  AddsUp(r)
<1>1. PICK got : got = r.got
  OBVIOUS
<1>2. PICK from \in Int : from = r.since - Month
  BY WindowsNested DEF ReportType
<1>3. /\ got["courses"] = Cardinality({c \in Catalogue : Exists(c)})
      /\ got["published"] = Cardinality({c \in Catalogue : listing[c] = "published"})
      /\ got["enrolments"] = Enrolled(Catalogue, 0, Ever)
      /\ got["students"] = Students(Catalogue)
      /\ got["recent"] = Enrolled(Catalogue, from, Ever)
  BY <1>1, <1>2 DEF FigureOf, PlatformFigure, PlatformFigures
<1>4. got["published"] <= got["courses"]
  <2>1. {c \in Catalogue : listing[c] = "published"} \subseteq {c \in Catalogue : Exists(c)}
    BY DEF Exists
  <2>2. IsFiniteSet({c \in Catalogue : Exists(c)})
    BY AnalyticsFinite, FS_Subset
  <2> QED BY <1>3, <2>1, <2>2, FS_Subset
<1>5. got["recent"] <= got["enrolments"]
  <2>1. Pairs(Catalogue, from, Ever) \subseteq Pairs(Catalogue, 0, Ever)
    BY EnrolmentTimes DEF Pairs
  <2> QED BY <1>3, <2>1, EnrolledGrows
<1>6. got["students"] <= got["enrolments"]
  BY <1>3, NoMoreStudents
<1> QED BY <1>1, <1>4, <1>5, <1>6 DEF AddsUp

LEMMA FiguresAddUp ==
  ASSUME AnalyticsTypeOK, NEW r \in ReportType, DOMAIN r.got = Figures(r), UpToDate(r)
  PROVE  AddsUp(r)
BY CourseFiguresAddUp, TutorFiguresAddUp, PlatformFiguresAddUp DEF UpToDate, Figures, ReportType

\* What a query answers does not change unless an enrolment or a listing does.
LEMMA FigureKept ==
  ASSUME NEW r, NEW f, UNCHANGED <<enrolment, listing>>
  PROVE  FigureOf(r, f)' = FigureOf(r, f)
BY DEF FigureOf, CourseFigure, TutorFigure, PlatformFigure, Enrolled, Students, Exists

LEMMA FigureTyped ==
  ASSUME NEW r \in ReportType, NEW f \in Figures(r)
  PROVE  FigureOf(r, f) \in Nat /\ f \in AllFigures
<1>1. r.courses \in SUBSET Catalogue /\ Catalogue \in SUBSET Catalogue
  BY DEF ReportType
<1>2. CASE r.kind = "course"
  BY <1>1, <1>2, PairsFinite DEF Figures, CourseFigures, FigureOf, CourseFigure, AllFigures
<1>3. CASE r.kind = "tutor"
  <2>1. CASE f = "students"
    BY <1>3, <2>1, PeopleFinite DEF FigureOf, TutorFigure, AllFigures, PlatformFigures
  <2>2. CASE f # "students"
    <3>1. f \in Catalogue /\ {f} \in SUBSET Catalogue
      BY <1>1, <1>3, <2>2 DEF Figures
    <3>2. FigureOf(r, f) = Enrolled({f}, 0, Ever)
      BY <1>3, <2>2 DEF FigureOf, TutorFigure
    <3> QED BY <3>1, <3>2, PairsFinite DEF AllFigures
  <2> QED BY <2>1, <2>2
<1>4. CASE r.kind = "platform"
  <2>1. Cardinality({c \in Catalogue : Exists(c)}) \in Nat
    BY AnalyticsFinite, FS_Subset, FS_CardinalityType
  <2>2. Cardinality({c \in Catalogue : listing[c] = "published"}) \in Nat
    BY AnalyticsFinite, FS_Subset, FS_CardinalityType
  <2> QED BY <1>1, <1>4, <2>1, <2>2, PairsFinite, PeopleFinite
          DEF Figures, PlatformFigures, FigureOf, PlatformFigure, AllFigures
<1> QED BY <1>2, <1>3, <1>4 DEF ReportType

LEMMA AnalyticsInitInv == AnalyticsInit => AnalyticsInv
<1> SUFFICES ASSUME AnalyticsInit PROVE AnalyticsInv
  OBVIOUS
<1>1. \A p \in Catalogue \X Buyers : enrolment[p] \in Never..MaxTime
  BY MaxTimeNat DEF AnalyticsInit, Never
<1>2. enrolment \in Enrolments
  BY <1>1 DEF AnalyticsInit, Enrolments
<1>3. AnalyticsTypeOK
  <2>1. /\ owner \in [Catalogue -> Tutors]
        /\ listing \in [Catalogue -> {"none", "draft", "published"}]
    BY DEF AnalyticsInit
  <2>2. time \in 0..MaxTime
    BY MaxTimeNat DEF AnalyticsInit
  <2>3. overtaken \in BOOLEAN
    BY Zenon DEF AnalyticsInit
  <2>4. {asked, answer} \ {NoReport} = {}
    BY DEF AnalyticsInit
  <2> QED BY <1>2, <2>1, <2>2, <2>3, <2>4 DEF AnalyticsTypeOK
<1> QED BY <1>3 DEF AnalyticsInit, AnalyticsInv, ReportsAddUpUnlessOvertaken

\* A report that is asked for has no figures.
LEMMA AskReportInv ==
  ASSUME AnalyticsInv, NEW kind \in {"course", "tutor", "platform"},
         NEW courses \in SUBSET Catalogue, AskReport(kind, courses)
  PROVE  AnalyticsInv'
<1>1. PICK r : r = NewReport(kind, courses)
  OBVIOUS
<1>2. /\ asked' = r /\ overtaken' = FALSE /\ answer' = NoReport
      /\ UNCHANGED <<owner, listing, enrolment, time>>
  BY <1>1 DEF AskReport
<1>3. NoFigures \in Gots /\ DOMAIN NoFigures = {}
  <2>1. PICK F \in SUBSET AllFigures : F = {}
    OBVIOUS
  <2>2. NoFigures \in [F -> Nat]
    BY <2>1 DEF NoFigures
  <2> QED BY <2>1, <2>2 DEF Gots
<1>4. r \in ReportType /\ DOMAIN r.got = {} /\ r.kind = kind /\ r.courses = courses
      /\ r.since = time
  BY <1>1, <1>3 DEF NewReport, ReportType, AnalyticsInv, AnalyticsTypeOK
<1>5. AnalyticsTypeOK'
  BY <1>2, <1>4 DEF AnalyticsInv, AnalyticsTypeOK
<1>6. UpToDate(r)'
  BY <1>4 DEF UpToDate
<1> QED BY <1>2, <1>4, <1>5, <1>6 DEF AnalyticsInv, ReportsAddUpUnlessOvertaken, UpToDate

LEMMA ReadFigureInv ==
  ASSUME AnalyticsInv, NEW f \in AllFigures, ReadFigure(f)
  PROVE  AnalyticsInv'
<1>1. PICK a : a = asked
  OBVIOUS
<1>2. /\ a \in ReportType /\ a # NoReport /\ f \in Figures(a)
      /\ DOMAIN a.got \subseteq Figures(a) /\ \A g \in DOMAIN a.got : a.got[g] \in Nat
      /\ UNCHANGED <<owner, listing, enrolment, time, overtaken>>
  BY <1>1 DEF AnalyticsInv, AnalyticsTypeOK, ReadFigure
<1>3. PICK n \in Nat : n = FigureOf(a, f)
  BY <1>2, FigureTyped
<1>4. PICK known \in SUBSET AllFigures : known = DOMAIN a.got \cup {f}
  <2>1. \A g \in Figures(a) : g \in AllFigures
    BY <1>2, FigureTyped
  <2> QED BY <1>2, <2>1
<1>5. PICK got : got = [g \in known |-> IF g = f THEN n ELSE a.got[g]]
  OBVIOUS
<1>6. /\ got \in [known -> Nat] /\ DOMAIN got = known /\ got[f] = n
      /\ \A g \in DOMAIN a.got \ {f} : got[g] = a.got[g]
  BY <1>2, <1>4, <1>5
<1>7. got \in Gots
  BY <1>6 DEF Gots
<1>8. PICK r : r = [a EXCEPT !.got = got]
  OBVIOUS
<1>9. /\ r \in ReportType /\ r.kind = a.kind /\ r.courses = a.courses /\ r.since = a.since
      /\ r.got = got
  BY <1>2, <1>7, <1>8 DEF ReportType
<1>10. Figures(r) = Figures(a) /\ \A g : FigureOf(r, g) = FigureOf(a, g)
  BY <1>9 DEF Figures, FigureOf, CourseFigure, TutorFigure, PlatformFigure
<1>11. IF known = Figures(a) THEN asked' = NoReport /\ answer' = r
       ELSE asked' = r /\ answer' = answer
  BY <1>1, <1>3, <1>4, <1>5, <1>8 DEF ReadFigure
<1>12. ~ overtaken => UpToDate(r)
  <2> SUFFICES ASSUME ~ overtaken, NEW g \in known PROVE got[g] = FigureOf(r, g)
    BY <1>6, <1>9 DEF UpToDate
  <2>1. CASE g = f
    BY <1>3, <1>6, <1>10, <2>1
  <2>2. CASE g # f
    <3>1. a.got[g] = FigureOf(a, g)
      BY <1>1, <1>2, <1>4, <2>2 DEF AnalyticsInv, UpToDate
    <3> QED BY <1>4, <1>6, <1>10, <2>2, <3>1
  <2> QED BY <2>1, <2>2
<1>13. UpToDate(r)' <=> UpToDate(r)
  <2>1. \A g : FigureOf(r, g)' = FigureOf(r, g)
    BY <1>2, FigureKept
  <2> QED BY <2>1 DEF UpToDate
<1>14. DOMAIN r.got \subseteq Figures(r) /\ \A g \in DOMAIN r.got : r.got[g] \in Nat
  BY <1>2, <1>4, <1>6, <1>9, <1>10
<1>15. /\ r.kind \in {"course", "tutor", "platform"}
       /\ r.courses \subseteq Catalogue /\ r.since \in 0..MaxTime
  BY <1>9 DEF ReportType
<1>16. AnalyticsTypeOK'
  BY <1>2, <1>11, <1>14, <1>15 DEF AnalyticsInv, AnalyticsTypeOK
<1>17. CASE known = Figures(a)
  <2>1. ~ overtaken => AddsUp(r)
    BY <1>6, <1>9, <1>10, <1>12, <1>17, FiguresAddUp DEF AnalyticsInv
  <2>2. AddsUp(r)' <=> AddsUp(r)
    BY DEF AddsUp, Trend
  <2>3. asked' = NoReport /\ answer' = r
    BY <1>11, <1>17
  <2>4. ReportsAddUpUnlessOvertaken'
    BY <1>2, <2>1, <2>2, <2>3 DEF ReportsAddUpUnlessOvertaken, AddsUp
  <2> QED BY <1>16, <2>3, <2>4 DEF AnalyticsInv
<1>18. CASE known # Figures(a)
  <2>1. asked' = r /\ answer' = answer
    BY <1>11, <1>18
  <2>2. ReportsAddUpUnlessOvertaken'
    BY <1>2, <2>1 DEF AnalyticsInv, ReportsAddUpUnlessOvertaken, AddsUp, Trend
  <2>3. ~ overtaken' => UpToDate(asked)'
    BY <1>2, <1>12, <1>13, <2>1 DEF UpToDate
  <2> QED BY <1>9, <1>16, <2>1, <2>2, <2>3 DEF AnalyticsInv
<1> QED BY <1>17, <1>18

\* A step that overtakes whatever report is being made.
LEMMA OvertakingStep ==
  ASSUME AnalyticsInv, AnalyticsTypeOK', Overtakes, UNCHANGED <<asked, answer>>
  PROVE  AnalyticsInv'
<1>1. ReportsAddUpUnlessOvertaken'
  BY DEF AnalyticsInv, ReportsAddUpUnlessOvertaken, Overtakes, AddsUp, Trend
<1> QED BY <1>1 DEF AnalyticsInv, Overtakes

LEMMA StudentEnrolsInv ==
  ASSUME AnalyticsInv, NEW c \in Catalogue, NEW b \in Buyers, StudentEnrols(c, b)
  PROVE  AnalyticsInv'
<1>1. enrolment' \in Enrolments
  <2>1. time \in Never..MaxTime
    BY MaxTimeNat DEF AnalyticsInv, AnalyticsTypeOK, Never
  <2> QED BY <2>1 DEF StudentEnrols, AnalyticsInv, AnalyticsTypeOK, Enrolments
<1>2. AnalyticsTypeOK'
  BY <1>1 DEF StudentEnrols, AnalyticsInv, AnalyticsTypeOK, Overtakes
<1> QED BY <1>2, OvertakingStep DEF StudentEnrols

LEMMA ListingChangesInv ==
  ASSUME AnalyticsInv, NEW c \in Catalogue, NEW l \in {"none", "draft", "published"},
         ListingChanges(c, l)
  PROVE  AnalyticsInv'
<1>1. AnalyticsTypeOK'
  BY DEF ListingChanges, AnalyticsInv, AnalyticsTypeOK, Overtakes
<1> QED BY <1>1, OvertakingStep DEF ListingChanges

\* A step that no figure depends on, and that may drop the report.
LEMMA SameFigures ==
  ASSUME AnalyticsInv, asked' \in {asked, NoReport}, time' \in 0..MaxTime,
         UNCHANGED <<owner, listing, enrolment, overtaken, answer>>
  PROVE  AnalyticsInv'
<1>1. AnalyticsTypeOK'
  BY DEF AnalyticsInv, AnalyticsTypeOK
<1>2. ReportsAddUpUnlessOvertaken'
  BY DEF AnalyticsInv, ReportsAddUpUnlessOvertaken, AddsUp, Trend
<1>3. CASE asked' = NoReport
  BY <1>1, <1>2, <1>3 DEF AnalyticsInv
<1>4. CASE asked' = asked
  <2>1. PICK r : r = asked
    OBVIOUS
  <2>2. \A g : FigureOf(r, g)' = FigureOf(r, g)
    BY FigureKept
  <2>3. UpToDate(r) => UpToDate(r)'
    BY <2>2 DEF UpToDate
  <2>4. asked' = r
    BY <1>4, <2>1
  <2>5. UpToDate(r)' => UpToDate(asked)'
    BY <2>4 DEF UpToDate
  <2> QED BY <1>1, <1>2, <1>4, <2>1, <2>3, <2>5 DEF AnalyticsInv
<1> QED BY <1>3, <1>4

LEMMA AnalyticsNextInv == AnalyticsInv /\ [AnalyticsNext]_analyticsVars => AnalyticsInv'
<1> SUFFICES ASSUME AnalyticsInv, [AnalyticsNext]_analyticsVars PROVE AnalyticsInv'
  OBVIOUS
<1>1. time \in 0..MaxTime
  BY DEF AnalyticsInv, AnalyticsTypeOK
<1>2. ASSUME NEW c \in Catalogue, AskCourseReport(c) PROVE AnalyticsInv'
  <2>1. {c} \in SUBSET Catalogue
    OBVIOUS
  <2> QED BY <1>2, <2>1, AskReportInv DEF AskCourseReport
<1>3. ASSUME NEW t \in Tutors, AskTutorReport(t) PROVE AnalyticsInv'
  <2>1. CoursesOf(t) \in SUBSET Catalogue
    BY DEF CoursesOf
  <2> QED BY <1>3, <2>1, AskReportInv DEF AskTutorReport
<1>4. CASE AskPlatformReport
  <2>1. {} \in SUBSET Catalogue
    OBVIOUS
  <2> QED BY <1>4, <2>1, AskReportInv DEF AskPlatformReport
<1>5. ASSUME NEW f \in CourseFigures \cup Catalogue \cup PlatformFigures, ReadFigure(f)
      PROVE  AnalyticsInv'
  BY <1>5, ReadFigureInv DEF AllFigures
<1>6. CASE ReportFails
  BY <1>1, <1>6, SameFigures DEF ReportFails
<1>7. CASE \E c \in Catalogue, b \in Buyers : StudentEnrols(c, b)
  BY <1>7, StudentEnrolsInv
<1>8. CASE \E c \in Catalogue, l \in {"none", "draft", "published"} : ListingChanges(c, l)
  BY <1>8, ListingChangesInv
<1>9. CASE TimePasses
  <2>1. time' \in 0..MaxTime
    BY <1>1, <1>9, MaxTimeNat DEF TimePasses
  <2> QED BY <1>9, <2>1, SameFigures DEF TimePasses
<1>10. CASE UNCHANGED analyticsVars
  BY <1>1, <1>10, SameFigures DEF analyticsVars
<1> QED BY <1>2, <1>3, <1>4, <1>5, <1>6, <1>7, <1>8, <1>9, <1>10 DEF AnalyticsNext

\* For any courses, tutors, students and windows: the figures of a report agree
\* with each other unless an enrolment or a course changed between two of its
\* queries.
THEOREM DoReportsAddUp == AnalyticsSpec => []ReportsAddUpUnlessOvertaken
<1>1. AnalyticsInv => ReportsAddUpUnlessOvertaken
  BY DEF AnalyticsInv
<1> QED BY <1>1, AnalyticsInitInv, AnalyticsNextInv, PTL DEF AnalyticsSpec

----------------------------------------------------------------------------
(***************************************************************************)
(* More about sums, and the least and greatest of a finite set of numbers. *)
(***************************************************************************)

LEMMA SumSplit ==
  ASSUME NEW h, NEW S, IsFiniteSet(S), \A x \in S : h[x] \in Int, NEW W \in SUBSET S
  PROVE  SumFunctionOnSet(h, S) = SumFunctionOnSet(h, W) + SumFunctionOnSet(h, S \ W)
<1>1. PICK B \in SUBSET (SUBSET S) :
        B = {s \in SUBSET S :
               SumFunctionOnSet(h, S) # SumFunctionOnSet(h, s) + SumFunctionOnSet(h, S \ s)}
  OBVIOUS
<1> SUFFICES ASSUME B # {} PROVE FALSE
  BY <1>1
<1>2. PICK T \in B : \A U \in B : ~ (U \subseteq T /\ U # T)
  BY SmallestSubset
<1>3. \A s \in SUBSET S : IsFiniteSet(s) /\ SumFunctionOnSet(h, s) \in Int
  BY FS_Subset, SumTyped
<1>4. T # {}
  <2>1. SumFunctionOnSet(h, {}) = 0
    BY SumRecursion, FS_EmptySet
  <2>2. S \ {} = S
    OBVIOUS
  <2> SUFFICES ASSUME T = {} PROVE FALSE
    OBVIOUS
  <2>3. SumFunctionOnSet(h, S) \in Int
    BY <1>3
  <2>4. SumFunctionOnSet(h, S) # 0 + SumFunctionOnSet(h, S)
    BY <1>1, <1>2, <2>1, <2>2
  <2> QED BY <2>3, <2>4
<1>5. PICK x \in T : TRUE
  BY <1>4
<1>6. PICK U : U = T \ {x}
  OBVIOUS
<1>7. U \in SUBSET S /\ U \subseteq T /\ U # T /\ T \in SUBSET S /\ x \in S
  BY <1>5, <1>6
<1>8. SumFunctionOnSet(h, S) = SumFunctionOnSet(h, U) + SumFunctionOnSet(h, S \ U)
  BY <1>1, <1>2, <1>7
<1>9. SumFunctionOnSet(h, T) = h[x] + SumFunctionOnSet(h, U)
  <2>1. IsFiniteSet(T) /\ \A y \in T : h[y] \in Int
    BY <1>3, <1>7
  <2> QED BY <1>6, <2>1, SumTakesOut
<1>10. SumFunctionOnSet(h, S \ U) = h[x] + SumFunctionOnSet(h, S \ T)
  <2>1. PICK Z : Z = S \ U
    OBVIOUS
  <2>2. IsFiniteSet(Z) /\ x \in Z /\ Z \ {x} = S \ T /\ \A y \in Z : h[y] \in Int
    BY <1>3, <1>6, <1>7, <2>1
  <2>3. SumFunctionOnSet(h, Z) = h[x] + SumFunctionOnSet(h, Z \ {x})
    BY <2>2, SumTakesOut
  <2> QED BY <2>1, <2>2, <2>3
<1>11. /\ SumFunctionOnSet(h, U) \in Int /\ SumFunctionOnSet(h, S \ T) \in Int /\ h[x] \in Int
       /\ SumFunctionOnSet(h, T) \in Int /\ SumFunctionOnSet(h, S \ U) \in Int
  <2>1. S \ T \in SUBSET S /\ S \ U \in SUBSET S
    OBVIOUS
  <2> QED BY <1>3, <1>7, <2>1
<1>12. SumFunctionOnSet(h, S) = SumFunctionOnSet(h, T) + SumFunctionOnSet(h, S \ T)
  BY <1>8, <1>9, <1>10, <1>11
<1> QED BY <1>1, <1>2, <1>12

\* A part of a sum of naturals is no larger.
LEMMA SumOfPart ==
  ASSUME NEW h, NEW S, IsFiniteSet(S), \A x \in S : h[x] \in Nat, NEW W \in SUBSET S
  PROVE  /\ SumFunctionOnSet(h, W) <= SumFunctionOnSet(h, S)
         /\ SumFunctionOnSet(h, W) \in Nat /\ SumFunctionOnSet(h, S) \in Nat
<1>1. SumFunctionOnSet(h, S) = SumFunctionOnSet(h, W) + SumFunctionOnSet(h, S \ W)
  BY SumSplit
<1>2. IsFiniteSet(W) /\ IsFiniteSet(S \ W)
  BY FS_Subset
<1>3. SumFunctionOnSet(h, W) \in Nat
  BY <1>2, SumTyped
<1>4. SumFunctionOnSet(h, S \ W) \in Nat
  <2>1. \A x \in S \ W : h[x] \in Nat
    OBVIOUS
  <2> QED BY <1>2, <2>1, SumTyped
<1> QED BY <1>1, <1>3, <1>4

\* One value that grows by n makes the sums that count it grow by n.
LEMMA SumBump ==
  ASSUME NEW h, NEW k, NEW S, IsFiniteSet(S), NEW t, NEW n \in Int,
         \A x \in S : h[x] \in Int /\ k[x] = IF x = t THEN h[x] + n ELSE h[x]
  PROVE  SumFunctionOnSet(k, S) = SumFunctionOnSet(h, S) + IF t \in S THEN n ELSE 0
<1>1. SumFunctionOnSet(h, S) \in Int
  BY SumTyped
<1>2. CASE t \notin S
  <2>1. \A x \in S : k[x] = h[x]
    BY <1>2
  <2>2. SumFunctionOnSet(k, S) = SumFunctionOnSet(h, S)
    BY <2>1, SumSame
  <2> QED BY <1>1, <1>2, <2>2
<1>3. CASE t \in S
  <2>1. PICK W : W = S \ {t}
    OBVIOUS
  <2>2. IsFiniteSet(W) /\ (\A x \in W : k[x] = h[x]) /\ (\A x \in W : h[x] \in Int)
    BY <2>1, FS_Subset
  <2>3. SumFunctionOnSet(k, W) = SumFunctionOnSet(h, W) /\ SumFunctionOnSet(h, W) \in Int
    BY <2>2, SumSame, SumTyped
  <2>4. k[t] = h[t] + n /\ h[t] \in Int
    BY <1>3
  <2>5. \A x \in S : k[x] \in Int
    OBVIOUS
  <2>6. SumFunctionOnSet(h, S) = h[t] + SumFunctionOnSet(h, W)
    BY <1>3, <2>1, SumTakesOut
  <2>7. SumFunctionOnSet(k, S) = k[t] + SumFunctionOnSet(k, W)
    BY <1>3, <2>1, <2>5, SumTakesOut
  <2> QED BY <1>3, <2>3, <2>4, <2>6, <2>7
<1> QED BY <1>2, <1>3

LEMMA SmallestOfFamily ==
  ASSUME NEW S, IsFiniteSet(S), S # {}, NEW F, \A y \in S : F[y] \subseteq S
  PROVE  \E y \in S : \A z \in S : ~ (F[z] \subseteq F[y] /\ F[z] # F[y])
<1>1. PICK B \in SUBSET (SUBSET S) : B = {F[y] : y \in S}
  OBVIOUS
<1>2. B # {}
  <2>1. PICK x \in S : TRUE
    OBVIOUS
  <2>2. F[x] \in B
    BY <1>1
  <2> QED BY <2>2
<1>3. PICK T \in B : \A U \in B : ~ (U \subseteq T /\ U # T)
  BY <1>2, SmallestSubset
<1>4. PICK y \in S : T = F[y]
  BY <1>1
<1>5. \A z \in S : F[z] \in B
  BY <1>1
<1> QED BY <1>3, <1>4, <1>5

LEMMA LeastOf ==
  ASSUME NEW S, IsFiniteSet(S), S # {}
  PROVE  S \subseteq Int => \E m \in S : \A x \in S : m <= x
<1>1. PICK F : F = [y \in S |-> {x \in S : x <= y}]
  OBVIOUS
<1>2. \A y \in S : F[y] \subseteq S
  BY <1>1
<1>3. PICK y \in S : \A z \in S : ~ (F[z] \subseteq F[y] /\ F[z] # F[y])
  BY <1>2, SmallestOfFamily
<1>4. ASSUME S \subseteq Int, NEW z \in S, z < y PROVE FALSE
  <2>1. y \in Int /\ z \in Int
    BY <1>4
  <2>2. y \in F[y] /\ y \notin F[z]
    BY <1>1, <1>4, <2>1
  <2>3. ASSUME NEW x \in F[z] PROVE x \in F[y]
    <3>1. x \in S /\ x <= z
      BY <1>1, <2>3
    <3> QED BY <1>1, <1>4, <2>1, <3>1
  <2> QED BY <1>3, <2>2, <2>3
<1> QED BY <1>4

LEMMA GreatestOf ==
  ASSUME NEW S, IsFiniteSet(S), S # {}
  PROVE  S \subseteq Int => \E m \in S : \A x \in S : x <= m
<1>1. PICK F : F = [y \in S |-> {x \in S : y <= x}]
  OBVIOUS
<1>2. \A y \in S : F[y] \subseteq S
  BY <1>1
<1>3. PICK y \in S : \A z \in S : ~ (F[z] \subseteq F[y] /\ F[z] # F[y])
  BY <1>2, SmallestOfFamily
<1>4. ASSUME S \subseteq Int, NEW z \in S, y < z PROVE FALSE
  <2>1. y \in Int /\ z \in Int
    BY <1>4
  <2>2. y \in F[y] /\ y \notin F[z]
    BY <1>1, <1>4, <2>1
  <2>3. ASSUME NEW x \in F[z] PROVE x \in F[y]
    <3>1. x \in S /\ z <= x
      BY <1>1, <2>3
    <3> QED BY <1>1, <1>4, <2>1, <3>1
  <2> QED BY <1>3, <2>2, <2>3
<1> QED BY <1>4

LEMMA MinOfTwo ==
  ASSUME NEW a \in Int, NEW b \in Int
  PROVE  Min({a, b}) = IF a <= b THEN a ELSE b
BY DEF Min

LEMMA MaxOfTwo ==
  ASSUME NEW a \in Int, NEW b \in Int
  PROVE  Max({a, b}) = IF a >= b THEN a ELSE b
BY DEF Max

----------------------------------------------------------------------------
(***************************************************************************)
(* Metrics.  The sample of a route is the largest Window - 1 durations of  *)
(* all but the last handler, with that of the last.                        *)
(***************************************************************************)

Bag == [Durations -> Nat]
Bump(bag, d) == [bag EXCEPT ![d] = @ + 1]
Capped(x, n) == IF x <= n THEN x ELSE n
Left(x, n) == IF x >= n THEN 0 ELSE n - x
AboveOf(d) == {e \in Durations : e > d}
One(p) == IF p THEN 1 ELSE 0

LEMMA DurationsFinite ==
  /\ IsFiniteSet(Durations) /\ \A U \in SUBSET Durations : IsFiniteSet(U)
BY DurationsAreNumbers, FS_Subset

\* Whatever is part of a bag is no larger than it.
LEMMA BagParts ==
  ASSUME NEW b \in Bag, NEW U \in SUBSET Durations, NEW W \in SUBSET U
  PROVE  /\ SumFunctionOnSet(b, W) <= SumFunctionOnSet(b, U)
         /\ SumFunctionOnSet(b, W) \in Nat /\ SumFunctionOnSet(b, U) \in Nat
<1>1. IsFiniteSet(U) /\ \A x \in U : b[x] \in Nat
  BY DurationsFinite DEF Bag
<1> QED BY <1>1, SumOfPart

LEMMA BagAbove ==
  ASSUME NEW b \in Bag, NEW d \in Durations
  PROVE  /\ Above(b, d) = SumFunctionOnSet(b, AboveOf(d)) /\ Above(b, d) \in Nat
         /\ b[d] \in Nat /\ BagSize(b) \in Nat
         /\ Above(b, d) + b[d] <= BagSize(b)
         /\ Above(b, d) + b[d] = SumFunctionOnSet(b, AboveOf(d) \cup {d})
<1>1. AboveOf(d) \in SUBSET Durations /\ AboveOf(d) \cup {d} \in SUBSET Durations
  BY DEF AboveOf
<1>2. Above(b, d) = SumFunctionOnSet(b, AboveOf(d))
  BY DEF Above, AboveOf
<1>3. d \notin AboveOf(d)
  BY DurationsAreNumbers DEF AboveOf
<1>4. PICK U : U = AboveOf(d) \cup {d}
  OBVIOUS
<1>5. U \in SUBSET Durations /\ d \in U /\ U \ {d} = AboveOf(d)
  BY <1>1, <1>3, <1>4
<1>6. IsFiniteSet(U) /\ (\A x \in U : b[x] \in Int) /\ b[d] \in Nat
  BY <1>5, DurationsFinite DEF Bag
<1>7. SumFunctionOnSet(b, U) = b[d] + SumFunctionOnSet(b, AboveOf(d))
  BY <1>5, <1>6, SumTakesOut
<1>8. /\ SumFunctionOnSet(b, U) <= BagSize(b) /\ BagSize(b) \in Nat
      /\ SumFunctionOnSet(b, AboveOf(d)) \in Nat
  <2>1. Durations \in SUBSET Durations /\ AboveOf(d) \in SUBSET U
    BY <1>4
  <2> QED BY <1>5, <2>1, BagParts DEF BagSize
<1> QED BY <1>2, <1>4, <1>6, <1>7, <1>8

LEMMA BumpIs ==
  ASSUME NEW b \in Bag, NEW t \in Durations
  PROVE  /\ Bump(b, t) \in Bag
         /\ \A d \in Durations : Bump(b, t)[d] = b[d] + One(d = t)
         /\ \A U \in SUBSET Durations : SumFunctionOnSet(Bump(b, t), U)
                                          = SumFunctionOnSet(b, U) + One(t \in U)
         /\ BagSize(Bump(b, t)) = BagSize(b) + 1
         /\ \A d \in Durations : Above(Bump(b, t), d) = Above(b, d) + One(t > d)
<1>1. PICK k : k = Bump(b, t)
  OBVIOUS
<1>2. k \in Bag /\ \A d \in Durations : b[d] \in Nat /\ k[d] = IF d = t THEN b[d] + 1 ELSE b[d]
  BY <1>1 DEF Bump, Bag
<1>3. ASSUME NEW U \in SUBSET Durations
      PROVE  SumFunctionOnSet(k, U) = SumFunctionOnSet(b, U) + One(t \in U)
  <2>1. IsFiniteSet(U) /\ 1 \in Int
    BY DurationsFinite
  <2>2. \A x \in U : b[x] \in Int /\ k[x] = IF x = t THEN b[x] + 1 ELSE b[x]
    BY <1>2
  <2>3. SumFunctionOnSet(k, U) = SumFunctionOnSet(b, U) + IF t \in U THEN 1 ELSE 0
    BY <2>1, <2>2, SumBump
  <2> QED BY <2>3 DEF One
<1>4. \A d \in Durations : k[d] = b[d] + One(d = t)
  BY <1>2 DEF One
<1>5. BagSize(k) = BagSize(b) + 1
  <2>1. Durations \in SUBSET Durations
    OBVIOUS
  <2>2. SumFunctionOnSet(k, Durations) = SumFunctionOnSet(b, Durations) + One(t \in Durations)
    BY <1>3, <2>1
  <2> QED BY <2>2 DEF BagSize, One
<1>6. ASSUME NEW d \in Durations
      PROVE  Above(k, d) = Above(b, d) + One(t > d)
  <2>1. AboveOf(d) \in SUBSET Durations /\ (t \in AboveOf(d) <=> t > d)
    BY DEF AboveOf
  <2>2. SumFunctionOnSet(k, AboveOf(d)) = SumFunctionOnSet(b, AboveOf(d)) + One(t \in AboveOf(d))
    BY <1>3, <2>1
  <2> QED BY <1>2, <2>1, <2>2, BagAbove DEF One
<1> QED BY <1>1, <1>2, <1>3, <1>4, <1>5, <1>6

LEMMA LargestIs ==
  ASSUME NEW b \in Bag, NEW n \in Nat
  PROVE  /\ LargestOf(b, n) \in Bag
         /\ \A d \in Durations :
              LargestOf(b, n)[d] = Capped(b[d], Left(Above(b, d), n))
<1>1. ASSUME NEW d \in Durations
      PROVE  /\ LargestOf(b, n)[d] = Capped(b[d], Left(Above(b, d), n))
             /\ LargestOf(b, n)[d] \in Nat
  <2>1. b[d] \in Nat /\ Above(b, d) \in Nat
    BY BagAbove
  <2>2. PICK r \in Nat : r = Left(Above(b, d), n)
    BY <2>1 DEF Left
  <2>3. LargestOf(b, n)[d] = Min({b[d], r})
    BY <2>2 DEF LargestOf, Left
  <2>4. Min({b[d], r}) = Capped(b[d], r)
    BY <2>1, <2>2, MinOfTwo DEF Capped
  <2> QED BY <2>1, <2>2, <2>3, <2>4 DEF Capped
<1>2. LargestOf(b, n) \in Bag
  <2>1. PICK f : f = LargestOf(b, n)
    OBVIOUS
  <2>2. f = [d \in Durations |-> f[d]]
    BY <2>1 DEF LargestOf
  <2> QED BY <1>1, <2>1, <2>2 DEF Bag
<1> QED BY <1>1, <1>2

LEMMA CappedAdds ==
  ASSUME NEW A \in Nat, NEW B \in Nat, NEW n \in Nat
  PROVE  Capped(A + B, n) = Capped(A, n) + Capped(B, Left(A, n))
BY DEF Capped, Left

\* Of the durations from some one upwards, the n largest are as many as there
\* are, and n at most.
LEMMA LargestSum ==
  ASSUME NEW b \in Bag, NEW n \in Nat, NEW U \in SUBSET Durations,
         \A x \in U : AboveOf(x) \subseteq U
  PROVE  SumFunctionOnSet(LargestOf(b, n), U) = Capped(SumFunctionOnSet(b, U), n)
<1>1. PICK L : L = LargestOf(b, n)
  OBVIOUS
<1>2. PICK B \in SUBSET (SUBSET Durations) :
        B = {s \in SUBSET Durations :
               /\ \A x \in s : AboveOf(x) \subseteq s
               /\ SumFunctionOnSet(L, s) # Capped(SumFunctionOnSet(b, s), n)}
  OBVIOUS
<1> SUFFICES ASSUME B # {} PROVE FALSE
  BY <1>1, <1>2
<1>3. PICK T \in B : \A V \in B : ~ (V \subseteq T /\ V # T)
  BY DurationsFinite, SmallestSubset
<1>4. T \in SUBSET Durations /\ IsFiniteSet(T) /\ \A x \in T : AboveOf(x) \subseteq T
  BY <1>2, DurationsFinite
<1>5. T # {}
  <2> SUFFICES ASSUME T = {} PROVE FALSE
    OBVIOUS
  <2>1. SumFunctionOnSet(L, T) = 0 /\ SumFunctionOnSet(b, T) = 0
    BY <1>4, SumRecursion
  <2> QED BY <1>2, <1>3, <2>1 DEF Capped
<1>6. PICK m \in T : \A x \in T : m <= x
  <2>1. T \subseteq Int
    BY <1>4, DurationsAreNumbers
  <2> QED BY <1>4, <1>5, <2>1, LeastOf
<1>7. T = AboveOf(m) \cup {m} /\ m \in Durations
  <2>1. \A x \in T : x \in Durations /\ (x = m \/ x > m)
    BY <1>4, <1>6, DurationsAreNumbers
  <2>2. \A x \in T : x \in AboveOf(m) \cup {m}
    BY <2>1 DEF AboveOf
  <2> QED BY <1>4, <2>1, <2>2
<1>8. PICK W : W = AboveOf(m)
  OBVIOUS
<1>9. W \in SUBSET Durations /\ W \subseteq T /\ W # T /\ \A x \in W : AboveOf(x) \subseteq W
  <2>1. m \notin W /\ W \in SUBSET Durations
    BY <1>7, <1>8, DurationsAreNumbers DEF AboveOf
  <2>2. \A x \in W : \A y \in AboveOf(x) : y \in W
    BY <1>7, <1>8, DurationsAreNumbers DEF AboveOf
  <2> QED BY <1>6, <1>7, <1>8, <2>1, <2>2
<1>10. SumFunctionOnSet(L, W) = Capped(SumFunctionOnSet(b, W), n)
  BY <1>2, <1>3, <1>9
<1>11. /\ SumFunctionOnSet(L, T) = Above(L, m) + L[m] /\ SumFunctionOnSet(L, W) = Above(L, m)
       /\ SumFunctionOnSet(b, T) = Above(b, m) + b[m] /\ SumFunctionOnSet(b, W) = Above(b, m)
       /\ Above(b, m) \in Nat /\ b[m] \in Nat
  BY <1>1, <1>7, <1>8, BagAbove, LargestIs
<1>12. L[m] = Capped(b[m], Left(Above(b, m), n))
  BY <1>1, <1>7, LargestIs
<1>13. Capped(Above(b, m) + b[m], n) = Capped(Above(b, m), n) + L[m]
  BY <1>11, <1>12, CappedAdds
<1> QED BY <1>2, <1>3, <1>10, <1>11, <1>13

\* What the sample of the largest n durations and one more has at and above d.
LEMMA SampleAt ==
  ASSUME NEW b \in Bag, NEW t \in Durations, NEW n \in Nat, NEW V, NEW c,
         V = Bump(LargestOf(b, n), t), c = Bump(b, t), NEW d \in Durations
  PROVE  /\ V \in Bag /\ c \in Bag
         /\ BagSize(V) = Capped(BagSize(b), n) + 1
         /\ Above(V, d) + V[d] <= n => V[d] = LargestOf(c, n)[d]
         /\ Above(V, d) = n + 1 => V[d] = 0 /\ LargestOf(c, n)[d] = 0
         /\ Above(V, d) + V[d] = n + 1 /\ V[d] > 0 => V[d] - 1 = LargestOf(c, n)[d]
<1>1. PICK L \in Bag : L = LargestOf(b, n)
  BY LargestIs
<1>2. V \in Bag /\ c \in Bag
  BY <1>1, BumpIs
<1>3. BagSize(L) = Capped(BagSize(b), n)
  <2>1. Durations \in SUBSET Durations /\ \A x \in Durations : AboveOf(x) \subseteq Durations
    BY DEF AboveOf
  <2> QED BY <1>1, <2>1, LargestSum DEF BagSize
<1>4. BagSize(V) = Capped(BagSize(b), n) + 1
  BY <1>1, <1>3, BumpIs
<1>5. Above(L, d) = Capped(Above(b, d), n)
  <2>1. AboveOf(d) \in SUBSET Durations /\ \A x \in AboveOf(d) : AboveOf(x) \subseteq AboveOf(d)
    <3>1. \A x \in AboveOf(d) : \A e \in AboveOf(x) : e \in AboveOf(d)
      BY DurationsAreNumbers DEF AboveOf
    <3> QED BY <3>1 DEF AboveOf
  <2>2. SumFunctionOnSet(L, AboveOf(d)) = Capped(SumFunctionOnSet(b, AboveOf(d)), n)
    BY <1>1, <2>1, LargestSum
  <2>3. /\ Above(L, d) = SumFunctionOnSet(L, AboveOf(d))
        /\ Above(b, d) = SumFunctionOnSet(b, AboveOf(d))
    BY BagAbove
  <2> QED BY <2>2, <2>3
\* A of the bag are above d and B are d, of the sample a and v; x and y say
\* whether t is d or above it.
<1>6. PICK A \in Nat, B \in Nat, x \in {0, 1}, y \in {0, 1}, v \in Nat, a \in Nat :
        /\ A = Above(b, d) /\ B = b[d] /\ x = One(d = t) /\ y = One(t > d)
        /\ v = V[d] /\ a = Above(V, d)
  BY <1>2, BagAbove DEF One
<1>7. x + y <= 1
  BY <1>6, DurationsAreNumbers DEF One
<1>8. v = Capped(B, Left(A, n)) + x
  BY <1>1, <1>6, BumpIs, LargestIs
<1>9. a = Capped(A, n) + y
  BY <1>1, <1>5, <1>6, BumpIs
<1>10. LargestOf(c, n)[d] = Capped(B + x, Left(A + y, n))
  <2>1. c[d] = B + x /\ Above(c, d) = A + y
    BY <1>6, BumpIs
  <2>2. LargestOf(c, n)[d] = Capped(c[d], Left(Above(c, d), n))
    BY <1>2, LargestIs
  <2> QED BY <2>1, <2>2
<1>11. /\ a + v <= n => v = Capped(B + x, Left(A + y, n))
       /\ a = n + 1 => v = 0 /\ Capped(B + x, Left(A + y, n)) = 0
       /\ a + v = n + 1 /\ v > 0 => v - 1 = Capped(B + x, Left(A + y, n))
  <2>1. CASE x = 0 /\ y = 0
    BY <1>8, <1>9, <2>1 DEF Capped, Left
  <2>2. CASE x = 1 /\ y = 0
    BY <1>8, <1>9, <2>2 DEF Capped, Left
  <2>3. CASE x = 0 /\ y = 1
    BY <1>8, <1>9, <2>3 DEF Capped, Left
  <2> QED BY <1>7, <2>1, <2>2, <2>3
<1>12. PICK w : w = LargestOf(c, n)[d]
  OBVIOUS
<1>13. w = Capped(B + x, Left(A + y, n))
  BY <1>10, <1>12
<1>14. (a + v <= n => v = w) /\ (a = n + 1 => v = 0 /\ w = 0)
  BY <1>11, <1>13
<1>15. a + v = n + 1 /\ v > 0 => v - 1 = w
  BY <1>11, <1>13
<1>16. v = V[d] /\ a = Above(V, d)
  BY <1>6
<1> QED BY <1>2, <1>4, <1>12, <1>14, <1>15, <1>16

LEMMA SmallestIs ==
  ASSUME NEW V \in Bag, BagSize(V) > 0
  PROVE  /\ Smallest(V) \in Durations /\ V[Smallest(V)] > 0
         /\ \A d \in Durations : d < Smallest(V) => V[d] = 0
<1>1. PICK S : S = {d \in Durations : V[d] > 0}
  OBVIOUS
<1>2. S # {}
  <2> SUFFICES ASSUME S = {} PROVE FALSE
    OBVIOUS
  <2>1. \A d \in Durations : V[d] = 0
    BY <1>1 DEF Bag
  <2>2. SumFunctionOnSet(V, Durations) = 0
    BY <2>1, DurationsFinite, SumOfZeros
  <2> QED BY <2>2 DEF BagSize
<1>3. S \in SUBSET Durations /\ IsFiniteSet(S)
  BY <1>1, DurationsFinite
<1>4. S \subseteq Int
  BY <1>3, DurationsAreNumbers
<1>5. PICK s : s = Min(S)
  OBVIOUS
<1>6. s \in S /\ \A x \in S : s <= x
  <2>1. \E m \in S : \A x \in S : m <= x
    BY <1>2, <1>3, <1>4, LeastOf
  <2> QED BY <1>5, <2>1 DEF Min
<1>7. Smallest(V) = s
  BY <1>1, <1>5 DEF Smallest
<1>8. ASSUME NEW d \in Durations, d < s PROVE V[d] = 0
  <2>1. d \notin S
    BY <1>3, <1>6, <1>8, DurationsAreNumbers
  <2> QED BY <1>1, <2>1 DEF Bag
<1> QED BY <1>1, <1>3, <1>6, <1>7, <1>8

\* Making room for one more leaves the largest n durations.
LEMMA RoomMade ==
  ASSUME NEW b \in Bag, NEW t \in Durations, NEW n \in Nat, Window = n + 1, NEW V, NEW c,
         V = Bump(LargestOf(b, n), t), c = Bump(b, t)
  PROVE  /\ BagSize(V) <= Window
         /\ LargestOf(c, n) = IF BagSize(V) >= Window
                                THEN [V EXCEPT ![Smallest(V)] = @ - 1] ELSE V
<1>1. /\ V \in Bag /\ c \in Bag /\ BagSize(V) = Capped(BagSize(b), n) + 1
  BY SampleAt
<1>2. BagSize(b) \in Nat
  BY BagAbove
<1>3. BagSize(V) \in Nat /\ BagSize(V) <= n + 1
  BY <1>1, <1>2 DEF Capped
<1>4. LargestOf(c, n) = [d \in Durations |-> LargestOf(c, n)[d]]
  BY DEF LargestOf
<1>5. \A d \in Durations : V[d] \in Nat /\ Above(V, d) \in Nat /\ Above(V, d) + V[d] <= BagSize(V)
  BY <1>1, BagAbove
<1>6. CASE BagSize(V) < Window
  <2>1. \A d \in Durations : V[d] = LargestOf(c, n)[d]
    <3> SUFFICES ASSUME NEW d \in Durations PROVE V[d] = LargestOf(c, n)[d]
      OBVIOUS
    <3>1. Above(V, d) + V[d] <= n
      BY <1>3, <1>5, <1>6
    <3> QED BY <3>1, SampleAt
  <2>2. V = [d \in Durations |-> V[d]]
    BY <1>1 DEF Bag
  <2>3. V = LargestOf(c, n)
    BY <1>4, <2>1, <2>2
  <2> QED BY <1>3, <1>6, <2>3
<1>7. CASE BagSize(V) = Window
  <2>1. PICK s \in Durations : /\ s = Smallest(V) /\ V[s] > 0
                               /\ \A d \in Durations : d < s => V[d] = 0
    BY <1>1, <1>7, SmallestIs
  <2>2. ASSUME NEW d \in Durations, d > s
        PROVE  V[d] = LargestOf(c, n)[d]
    <3>1. PICK U : U = AboveOf(d) \cup {d}
      OBVIOUS
    <3>2. U \in SUBSET Durations /\ s \notin U
      BY <2>2, <3>1, DurationsAreNumbers DEF AboveOf
    <3>3. PICK W : W = U \cup {s}
      OBVIOUS
    <3>4. W \in SUBSET Durations /\ s \in W /\ W \ {s} = U
      BY <3>2, <3>3
    <3>5. SumFunctionOnSet(V, W) = V[s] + SumFunctionOnSet(V, U)
      <4>1. IsFiniteSet(W) /\ \A e \in W : V[e] \in Int
        BY <1>5, <3>4, DurationsFinite
      <4> QED BY <3>4, <4>1, SumTakesOut
    <3>6. SumFunctionOnSet(V, W) <= BagSize(V) /\ SumFunctionOnSet(V, U) \in Nat
      <4>1. Durations \in SUBSET Durations
        OBVIOUS
      <4>2. SumFunctionOnSet(V, W) <= SumFunctionOnSet(V, Durations)
        BY <1>1, <3>4, <4>1, BagParts
      <4>3. SumFunctionOnSet(V, U) \in Nat
        BY <1>1, <3>2, <4>1, BagParts
      <4> QED BY <4>2, <4>3 DEF BagSize
    <3>7. Above(V, d) + V[d] = SumFunctionOnSet(V, U)
      BY <1>1, <3>1, BagAbove
    <3>8. V[s] \in Nat
      BY <1>5
    <3>9. Above(V, d) + V[d] <= n
      BY <1>7, <2>1, <3>5, <3>6, <3>7, <3>8
    <3> QED BY <3>9, SampleAt
  <2>3. ASSUME NEW U \in SUBSET Durations, \A d \in Durations \ U : d < s
        PROVE  SumFunctionOnSet(V, U) = n + 1
    <3>1. IsFiniteSet(Durations) /\ \A d \in Durations : V[d] \in Int
      BY <1>5, DurationsFinite
    <3>2. SumFunctionOnSet(V, Durations)
            = SumFunctionOnSet(V, U) + SumFunctionOnSet(V, Durations \ U)
      BY <3>1, SumSplit
    <3>3. SumFunctionOnSet(V, Durations \ U) = 0
      <4>1. IsFiniteSet(Durations \ U) /\ \A d \in Durations \ U : V[d] = 0
        BY <2>1, <2>3, DurationsFinite
      <4> QED BY <4>1, SumOfZeros
    <3>4. SumFunctionOnSet(V, U) \in Nat
      BY <1>1, BagParts
    <3> QED BY <1>7, <3>2, <3>3, <3>4 DEF BagSize
  <2>4. ASSUME NEW d \in Durations, d < s
        PROVE  V[d] = LargestOf(c, n)[d]
    <3>1. AboveOf(d) \in SUBSET Durations /\ \A e \in Durations \ AboveOf(d) : e < s
      BY <2>4, DurationsAreNumbers DEF AboveOf
    <3>2. Above(V, d) = n + 1
      BY <1>1, <2>3, <3>1, BagAbove
    <3> QED BY <3>2, SampleAt
  <2>5. V[s] - 1 = LargestOf(c, n)[s]
    <3>1. PICK U : U = AboveOf(s) \cup {s}
      OBVIOUS
    <3>2. U \in SUBSET Durations /\ \A e \in Durations \ U : e < s
      BY <3>1, DurationsAreNumbers DEF AboveOf
    <3>3. SumFunctionOnSet(V, U) = n + 1
      BY <2>3, <3>2
    <3>4. Above(V, s) + V[s] = n + 1
      BY <1>1, <3>1, <3>3, BagAbove
    <3> QED BY <2>1, <3>4, SampleAt
  <2>6. \A d \in Durations : d = s \/ d < s \/ d > s
    BY DurationsAreNumbers
  <2>7. [V EXCEPT ![s] = @ - 1] = [d \in Durations |-> IF d = s THEN V[d] - 1 ELSE V[d]]
    BY <1>1 DEF Bag
  <2>8. \A d \in Durations : (IF d = s THEN V[d] - 1 ELSE V[d]) = LargestOf(c, n)[d]
    BY <2>2, <2>4, <2>5, <2>6
  <2>9. [V EXCEPT ![s] = @ - 1] = LargestOf(c, n)
    BY <1>4, <2>7, <2>8
  <2> QED BY <1>7, <2>1, <2>9, MetricsBounds
<1> QED BY <1>3, <1>6, <1>7

Histogram == [count: Nat, sum: Nat, values: Bag]

\* A route that was called: bag has the durations of all handlers but the last.
Sampling(l, bag, last) ==
  /\ handled[l] = Bump(bag, last)
  /\ histograms[l].values = Bump(LargestOf(bag, Window - 1), last)

RouteOK(l) ==
  /\ counters[l]["success"] = BagSize(handled[l]) /\ counters[l]["failure"] = 0
  /\ histograms[l].count = BagSize(handled[l])
  /\ histograms[l].sum = BagTotal(handled[l])
  /\ latest[l] = NotYet => handled[l] = EmptyBag /\ histograms[l].values = EmptyBag
  /\ latest[l] # NotYet => \E bag \in Bag : Sampling(l, bag, latest[l])

MetricsInv ==
  /\ counters \in [Labels -> [Statuses -> Nat]]
  /\ histograms \in [Labels -> Histogram]
  /\ handled \in [Labels -> Bag]
  /\ latest \in [Labels -> Durations \cup {NotYet}]
  /\ served \in 0..MaxRequests
  /\ \A l \in Labels : RouteOK(l)

LEMMA EmptyBagIs ==
  EmptyBag \in Bag /\ BagSize(EmptyBag) = 0 /\ BagTotal(EmptyBag) = 0
<1>1. EmptyBag \in Bag /\ \A d \in Durations : EmptyBag[d] = 0
  BY DEF EmptyBag, Bag
<1>2. SumFunctionOnSet(EmptyBag, Durations) = 0
  BY <1>1, DurationsFinite, SumOfZeros
<1>3. PICK k : k = [d \in Durations |-> d * EmptyBag[d]]
  OBVIOUS
<1>4. \A d \in Durations : k[d] = 0
  <2> SUFFICES ASSUME NEW d \in Durations PROVE k[d] = 0
    OBVIOUS
  <2>1. k[d] = d * 0 /\ d \in Nat
    BY <1>1, <1>3, DurationsAreNumbers
  <2> QED BY <2>1
<1>5. SumFunctionOnSet(k, Durations) = 0
  BY <1>4, DurationsFinite, SumOfZeros
<1> QED BY <1>1, <1>2, <1>3, <1>5 DEF BagSize, BagTotal

LEMMA TotalGrows ==
  ASSUME NEW b \in Bag, NEW t \in Durations
  PROVE  BagTotal(Bump(b, t)) = BagTotal(b) + t /\ BagTotal(b) \in Nat
<1>1. PICK c : c = Bump(b, t)
  OBVIOUS
<1>2. \A d \in Durations : d \in Nat /\ b[d] \in Nat /\ c[d] = IF d = t THEN b[d] + 1 ELSE b[d]
  BY <1>1, DurationsAreNumbers DEF Bump, Bag
<1>3. PICK h, k : /\ h = [d \in Durations |-> d * b[d]]
                  /\ k = [d \in Durations |-> d * c[d]]
  OBVIOUS
<1>4. ASSUME NEW d \in Durations
      PROVE  h[d] \in Nat /\ k[d] = IF d = t THEN h[d] + t ELSE h[d]
  <2>1. PICK m \in Nat, n \in Nat : m = d /\ n = b[d]
    BY <1>2
  <2>2. m * n \in Nat /\ m * (n + 1) = m * n + m
    OBVIOUS
  <2>3. h[d] = m * n
    BY <1>3, <2>1
  <2>4. CASE d = t
    <3>1. k[d] = m * (n + 1)
      BY <1>2, <1>3, <2>1, <2>4
    <3> QED BY <2>1, <2>2, <2>3, <2>4, <3>1
  <2>5. CASE d # t
    <3>1. k[d] = m * n
      BY <1>2, <1>3, <2>1, <2>5
    <3> QED BY <2>2, <2>3, <2>5, <3>1
  <2> QED BY <2>4, <2>5
<1>5. PICK n \in Int : n = t
  BY <1>2
<1>6. SumFunctionOnSet(k, Durations) = SumFunctionOnSet(h, Durations) + t
  <2>1. \A d \in Durations : h[d] \in Int /\ k[d] = IF d = t THEN h[d] + n ELSE h[d]
    BY <1>4, <1>5
  <2>2. SumFunctionOnSet(k, Durations)
          = SumFunctionOnSet(h, Durations) + IF t \in Durations THEN n ELSE 0
    BY <2>1, DurationsFinite, SumBump
  <2> QED BY <1>5, <2>2
<1>7. SumFunctionOnSet(h, Durations) \in Nat
  BY <1>4, DurationsFinite, SumTyped
<1> QED BY <1>1, <1>3, <1>6, <1>7 DEF BagTotal

\* A restart, as the start, finds nothing handled.
LEMMA NothingHandled ==
  ASSUME counters = [l \in Labels |-> [s \in Statuses |-> 0]],
         histograms = [l \in Labels |-> [count |-> 0, sum |-> 0, values |-> EmptyBag]],
         handled = [l \in Labels |-> EmptyBag],
         latest = [l \in Labels |-> NotYet],
         served \in 0..MaxRequests
  PROVE  MetricsInv
<1>1. EmptyBag \in Bag /\ BagSize(EmptyBag) = 0 /\ BagTotal(EmptyBag) = 0
  BY EmptyBagIs
<1>2. counters \in [Labels -> [Statuses -> Nat]]
  OBVIOUS
<1>3. histograms \in [Labels -> Histogram]
  BY <1>1 DEF Histogram
<1>4. \A l \in Labels : RouteOK(l)
  BY <1>1 DEF RouteOK, Statuses
<1> QED BY <1>1, <1>2, <1>3, <1>4 DEF MetricsInv

LEMMA MetricsInitInv == MetricsInit => MetricsInv
  BY NothingHandled, MetricsBounds DEF MetricsInit

\* The sample takes the duration of the next handler.
LEMMA SampleGrows ==
  ASSUME MetricsInv, NEW l \in Labels, NEW d \in Durations
  PROVE  Sampled(histograms[l].values, d) = Bump(LargestOf(handled[l], Window - 1), d)
<1>1. PICK n \in Nat : n = Window - 1 /\ Window = n + 1
  BY MetricsBounds
<1>2. PICK V : V = histograms[l].values
  OBVIOUS
<1>3. CASE latest[l] = NotYet
  <2>1. V = EmptyBag /\ handled[l] = EmptyBag
    BY <1>2, <1>3 DEF MetricsInv, RouteOK
  <2>2. Sampled(V, d) = Bump(V, d)
    <3>1. BagSize(V) = 0
      BY <2>1, EmptyBagIs
    <3>2. ~ (BagSize(V) >= Window)
      BY <1>1, <3>1
    <3> QED BY <3>2 DEF Sampled, Bump
  <2>3. LargestOf(EmptyBag, n) = EmptyBag
    <3>1. \A e \in Durations : LargestOf(EmptyBag, n)[e] = 0
      <4> SUFFICES ASSUME NEW e \in Durations PROVE LargestOf(EmptyBag, n)[e] = 0
        OBVIOUS
      <4>1. LargestOf(EmptyBag, n)[e] = Capped(EmptyBag[e], Left(Above(EmptyBag, e), n))
        BY EmptyBagIs, LargestIs
      <4>2. EmptyBag[e] = 0 /\ Above(EmptyBag, e) \in Nat
        BY EmptyBagIs, BagAbove DEF EmptyBag
      <4> QED BY <4>1, <4>2 DEF Capped, Left
    <3>2. LargestOf(EmptyBag, n) = [e \in Durations |-> LargestOf(EmptyBag, n)[e]]
      BY DEF LargestOf
    <3> QED BY <3>1, <3>2 DEF EmptyBag
  <2> QED BY <1>1, <1>2, <2>1, <2>2, <2>3
<1>4. CASE latest[l] # NotYet
  <2>1. PICK t \in Durations : t = latest[l]
    BY <1>4 DEF MetricsInv
  <2>2. PICK b \in Bag : Sampling(l, b, t)
    BY <1>4, <2>1 DEF MetricsInv, RouteOK
  <2>3. PICK c : c = handled[l]
    OBVIOUS
  <2>4. c = Bump(b, t) /\ V = Bump(LargestOf(b, n), t)
    BY <1>1, <1>2, <2>2, <2>3 DEF Sampling
  <2>5. PICK room : room = IF BagSize(V) >= Window
                             THEN [V EXCEPT ![Smallest(V)] = @ - 1] ELSE V
    OBVIOUS
  <2>6. LargestOf(c, n) = room
    <3>1. LargestOf(c, n) = IF BagSize(V) >= Window
                              THEN [V EXCEPT ![Smallest(V)] = @ - 1] ELSE V
      BY <1>1, <2>4, RoomMade
    <3> QED BY <2>5, <3>1
  <2>7. Sampled(V, d) = Bump(room, d)
    BY <2>5 DEF Sampled, Bump
  <2> QED BY <1>1, <1>2, <2>3, <2>6, <2>7
<1> QED BY <1>3, <1>4

LEMMA HandlerEndsInv ==
  ASSUME MetricsInv, NEW l \in Labels, NEW d \in Durations, HandlerEnds(l, d)
  PROVE  MetricsInv'
<1>1. PICK b \in Bag : b = handled[l]
  BY DEF MetricsInv
<1>2. PICK h \in Histogram : h = histograms[l]
  BY DEF MetricsInv
<1>3. PICK c \in [Statuses -> Nat] : c = counters[l]
  BY DEF MetricsInv
<1>4. /\ c["success"] = BagSize(b) /\ c["failure"] = 0 /\ h.count = BagSize(b)
      /\ h.sum = BagTotal(b)
  BY <1>1, <1>2, <1>3 DEF MetricsInv, RouteOK
<1>5. PICK b1 : b1 = Bump(b, d)
  OBVIOUS
<1>6. /\ b1 \in Bag /\ BagSize(b1) = BagSize(b) + 1 /\ BagTotal(b1) = BagTotal(b) + d
      /\ BagSize(b) \in Nat /\ BagTotal(b) \in Nat /\ d \in Nat /\ d # NotYet
  <2>1. b1 \in Bag /\ BagSize(b1) = BagSize(b) + 1
    BY <1>5, BumpIs
  <2>2. BagTotal(b1) = BagTotal(b) + d /\ BagTotal(b) \in Nat
    BY <1>5, TotalGrows
  <2>3. BagSize(b) \in Nat
    BY BagAbove
  <2>4. d \in Nat /\ d # NotYet
    BY DurationsAreNumbers DEF NotYet
  <2> QED BY <2>1, <2>2, <2>3, <2>4
<1>7. PICK v : v = Bump(LargestOf(b, Window - 1), d)
  OBVIOUS
<1>8. v \in Bag
  <2>1. Window - 1 \in Nat
    BY MetricsBounds
  <2> QED BY <1>7, <2>1, LargestIs, BumpIs
<1>9. Sampled(h.values, d) = v
  BY <1>1, <1>2, <1>7, SampleGrows
<1>10. PICK c1 : c1 = [c EXCEPT !["success"] = @ + 1]
  OBVIOUS
<1>11. c1 \in [Statuses -> Nat] /\ c1["success"] = BagSize(b1) /\ c1["failure"] = 0
  BY <1>4, <1>6, <1>10 DEF Statuses
<1>12. PICK h1 : h1 = [count |-> h.count + 1, sum |-> h.sum + d, values |-> v]
  OBVIOUS
<1>13. /\ h1 \in Histogram /\ h1.count = BagSize(b1) /\ h1.sum = BagTotal(b1)
       /\ h1.values = v
  BY <1>4, <1>6, <1>8, <1>12 DEF Histogram
<1>14. /\ counters' = [counters EXCEPT ![l] = c1]
       /\ histograms' = [histograms EXCEPT ![l] = h1]
  BY <1>2, <1>3, <1>9, <1>10, <1>12
     DEF HandlerEnds, Record, IncrementCounter, ObserveLatency, MetricsInv
<1>15. handled' = [handled EXCEPT ![l] = b1]
  BY <1>1, <1>5 DEF HandlerEnds, Bump, MetricsInv
<1>16. /\ latest' = [latest EXCEPT ![l] = d] /\ served' \in 0..MaxRequests
  BY MetricsBounds DEF HandlerEnds, MetricsInv
<1>17. /\ counters' \in [Labels -> [Statuses -> Nat]] /\ histograms' \in [Labels -> Histogram]
       /\ handled' \in [Labels -> Bag] /\ latest' \in [Labels -> Durations \cup {NotYet}]
  BY <1>6, <1>11, <1>13, <1>14, <1>15, <1>16 DEF MetricsInv
<1>18. /\ counters'[l] = c1 /\ histograms'[l] = h1 /\ handled'[l] = b1 /\ latest'[l] = d
  BY <1>14, <1>15, <1>16 DEF MetricsInv
<1>19. RouteOK(l)'
  <2>1. Sampling(l, b, d)'
    BY <1>5, <1>7, <1>13, <1>18 DEF Sampling
  <2>2. \E bag \in Bag : Sampling(l, bag, latest[l])'
    BY <1>18, <2>1 DEF Sampling
  <2> QED BY <1>6, <1>11, <1>13, <1>18, <2>2 DEF RouteOK
<1>20. ASSUME NEW k \in Labels, k # l PROVE RouteOK(k)'
  <2>1. /\ counters'[k] = counters[k] /\ histograms'[k] = histograms[k]
        /\ handled'[k] = handled[k] /\ latest'[k] = latest[k]
    BY <1>14, <1>15, <1>16, <1>20 DEF MetricsInv
  <2>2. RouteOK(k)
    BY DEF MetricsInv
  <2> QED BY <2>1, <2>2 DEF RouteOK, Sampling
<1> QED BY <1>16, <1>17, <1>19, <1>20 DEF MetricsInv

LEMMA MetricsNextInv == MetricsInv /\ [MetricsNext]_metricsVars => MetricsInv'
<1> SUFFICES ASSUME MetricsInv, [MetricsNext]_metricsVars PROVE MetricsInv'
  OBVIOUS
<1>1. CASE \E l \in Labels, d \in Durations : HandlerEnds(l, d)
  BY <1>1, HandlerEndsInv
<1>2. CASE NotHandled
  <2>1. served' \in 0..MaxRequests
    BY <1>2, MetricsBounds DEF NotHandled, MetricsInv
  <2> QED BY <1>2, <2>1 DEF NotHandled, MetricsInv, RouteOK, Sampling
<1>3. CASE MetricsRestart
  <2>1. /\ counters' = [l \in Labels |-> [s \in Statuses |-> 0]]
        /\ histograms' = [l \in Labels |-> [count |-> 0, sum |-> 0, values |-> EmptyBag]]
        /\ handled' = [l \in Labels |-> EmptyBag]
        /\ latest' = [l \in Labels |-> NotYet]
    BY <1>3 DEF MetricsRestart
  <2>2. EmptyBag \in Bag /\ BagSize(EmptyBag) = 0 /\ BagTotal(EmptyBag) = 0
    BY EmptyBagIs
  <2>3. counters' \in [Labels -> [Statuses -> Nat]]
    BY <2>1
  <2>4. histograms' \in [Labels -> Histogram]
    BY <2>1, <2>2 DEF Histogram
  <2>5. \A l \in Labels : RouteOK(l)'
    BY <2>1, <2>2 DEF RouteOK, Statuses
  <2>6. served' \in 0..MaxRequests
    BY <1>3 DEF MetricsRestart, MetricsInv
  <2> QED BY <2>1, <2>2, <2>3, <2>4, <2>5, <2>6 DEF MetricsInv
<1>4. CASE UNCHANGED metricsVars
  BY <1>4 DEF metricsVars, MetricsInv, RouteOK, Sampling
<1> QED BY <1>1, <1>2, <1>3, <1>4 DEF MetricsNext

\* The 99th percentile of a sample is no smaller than its median.
LEMMA PercentileGrows ==
  ASSUME NEW v \in Bag
  PROVE  Percentile(v, 50) <= Percentile(v, 99)
<1>1. PICK size \in Nat : size = BagSize(v)
  <2>1. BagSize(v) \in Nat
    BY DurationsFinite, SumTyped DEF BagSize, Bag
  <2> QED BY <2>1
<1>2. CASE size = 0
  BY <1>1, <1>2 DEF Percentile
<1>3. CASE size # 0
  <2>1. PICK i \in Nat, j \in Nat : /\ i = Max({1, (50 * size + 99) \div 100})
                                    /\ j = Max({1, (99 * size + 99) \div 100})
                                    /\ i <= j /\ j <= size
    <3>1. PICK p \in Nat, q \in Nat : /\ p = (50 * size + 99) \div 100
                                      /\ q = (99 * size + 99) \div 100
                                      /\ p <= q /\ q <= size
      BY <1>3
    <3>2. Max({1, p}) = (IF 1 >= p THEN 1 ELSE p) /\ Max({1, q}) = (IF 1 >= q THEN 1 ELSE q)
      BY MaxOfTwo
    <3> QED BY <1>3, <3>1, <3>2
  <2>2. PICK I, J : /\ I = {d \in Durations : UpTo(v, d) >= i}
                    /\ J = {d \in Durations : UpTo(v, d) >= j}
    OBVIOUS
  <2>3. Percentile(v, 50) = Min(I) /\ Percentile(v, 99) = Min(J)
    BY <1>1, <1>3, <2>1, <2>2 DEF Percentile
  <2>4. \A d \in Durations : UpTo(v, d) \in Nat
    <3> SUFFICES ASSUME NEW d \in Durations PROVE UpTo(v, d) \in Nat
      OBVIOUS
    <3>1. PICK U \in SUBSET Durations : U = {e \in Durations : e <= d}
      OBVIOUS
    <3>2. IsFiniteSet(U) /\ \A e \in U : v[e] \in Nat
      BY DurationsFinite DEF Bag
    <3>3. SumFunctionOnSet(v, U) \in Nat
      BY <3>2, SumTyped
    <3> QED BY <3>1, <3>3 DEF UpTo
  <2>5. J \subseteq I
    BY <2>1, <2>2, <2>4
  <2>6. J # {}
    <3>1. Durations # {}
      <4> SUFFICES ASSUME Durations = {} PROVE FALSE
        OBVIOUS
      <4> QED BY <1>1, <1>3, DurationsFinite, SumRecursion DEF BagSize
    <3>2. Durations \subseteq Int
      BY DurationsAreNumbers
    <3>3. PICK m \in Durations : \A e \in Durations : e <= m
      BY <3>1, <3>2, DurationsFinite, GreatestOf
    <3>4. {e \in Durations : e <= m} = Durations
      BY <3>3
    <3>5. UpTo(v, m) = size
      BY <1>1, <3>4 DEF UpTo, BagSize
    <3> QED BY <2>1, <2>2, <3>5
  <2>7. /\ I \in SUBSET Durations /\ J \in SUBSET Durations /\ IsFiniteSet(I) /\ IsFiniteSet(J)
    BY <2>2, DurationsFinite
  <2>8. I \subseteq Int /\ J \subseteq Int
    BY <2>7, DurationsAreNumbers
  <2>9. \E m \in I : \A x \in I : m <= x
    BY <2>5, <2>6, <2>7, <2>8, LeastOf
  <2>10. \E m \in J : \A x \in J : m <= x
    BY <2>6, <2>7, <2>8, LeastOf
  <2>11. Min(J) \in J /\ \A x \in I : Min(I) <= x
    BY <2>9, <2>10 DEF Min
  <2> QED BY <2>3, <2>5, <2>11
<1> QED BY <1>2, <1>3

LEMMA RememberInv == MetricsInv => MetricsTypeOK /\ MetricsRememberTheSlowest
<1> SUFFICES ASSUME MetricsInv PROVE MetricsTypeOK /\ MetricsRememberTheSlowest
  OBVIOUS
<1>1. PICK n \in Nat : n = Window - 1 /\ Window = n + 1
  BY MetricsBounds
<1>2. ASSUME NEW l \in Labels
      PROVE  LET before == IF latest[l] = NotYet THEN EmptyBag
                           ELSE [handled[l] EXCEPT ![latest[l]] = @ - 1]
                 expected == IF latest[l] = NotYet THEN EmptyBag
                             ELSE [LargestOf(before, Window - 1) EXCEPT ![latest[l]] = @ + 1]
             IN  histograms[l].values = expected /\ BagSize(histograms[l].values) <= Window
  <2>1. CASE latest[l] = NotYet
    BY <1>1, <2>1, EmptyBagIs DEF MetricsInv, RouteOK
  <2>2. CASE latest[l] # NotYet
    <3>1. PICK t \in Durations : t = latest[l]
      BY <2>2 DEF MetricsInv
    <3>2. PICK b \in Bag : Sampling(l, b, t)
      BY <2>2, <3>1 DEF MetricsInv, RouteOK
    <3>3. PICK c, V : c = handled[l] /\ V = histograms[l].values
      OBVIOUS
    <3>4. c = Bump(b, t) /\ V = Bump(LargestOf(b, n), t)
      BY <1>1, <3>2, <3>3 DEF Sampling
    <3>5. [c EXCEPT ![t] = @ - 1] = b
      <4>1. \A d \in Durations : c[d] = IF d = t THEN b[d] + 1 ELSE b[d]
        BY <3>4 DEF Bump, Bag
      <4>2. c \in Bag
        BY <3>4, BumpIs
      <4>3. \A d \in Durations : [c EXCEPT ![t] = @ - 1][d] = b[d]
        BY <4>1, <4>2 DEF Bag
      <4> QED BY <4>2, <4>3 DEF Bag
    <3>6. BagSize(V) <= Window
      BY <1>1, <3>4, RoomMade
    <3> QED BY <1>1, <2>2, <3>1, <3>3, <3>4, <3>5, <3>6 DEF Bump
  <2> QED BY <2>1, <2>2
<1>3. ASSUME NEW l \in Labels
      PROVE  /\ Snapshot(l).total = BagSize(handled[l])
             /\ Snapshot(l).count = BagSize(handled[l])
             /\ Snapshot(l).byStatus["failure"] = 0
             /\ Snapshot(l).sumMs = BagTotal(handled[l])
             /\ Snapshot(l).p50Ms <= Snapshot(l).p99Ms
  <2>1. histograms[l].values \in Bag /\ counters[l]["success"] \in Nat
    BY DEF MetricsInv, Histogram, Statuses
  <2>2. Percentile(histograms[l].values, 50) <= Percentile(histograms[l].values, 99)
    BY <2>1, PercentileGrows
  <2> QED BY <2>1, <2>2 DEF Snapshot, MetricsInv, RouteOK
<1>4. MetricsTypeOK
  BY <1>2 DEF MetricsTypeOK, MetricsInv, Histogram, Bag
<1>5. MetricsRememberTheSlowest
  <2> SUFFICES ASSUME NEW l \in Labels,
                      NEW r \in {Snapshot(l)} \cup (IF l \in DOMAIN PrometheusText
                                                      THEN {PrometheusText[l]} ELSE {})
      PROVE  /\ r.total = BagSize(handled[l]) /\ r.count = r.total
             /\ r.byStatus["failure"] = 0
             /\ r.sumMs = BagTotal(handled[l])
             /\ r.p50Ms <= r.p99Ms
    BY <1>2 DEF MetricsRememberTheSlowest
  <2>1. r = Snapshot(l)
    BY DEF PrometheusText
  <2> QED BY <1>3, <2>1
<1> QED BY <1>4, <1>5

\* For any routes, durations and window: the metrics of a route count and time
\* every handler once, and its percentiles are those of the last duration and
\* the largest ones before it, as many as the window holds.
THEOREM DoMetricsRememberTheSlowest == MetricsSpec => []MetricsRememberTheSlowest
<1> QED BY RememberInv, MetricsInitInv, MetricsNextInv, PTL DEF MetricsSpec

----------------------------------------------------------------------------
(***************************************************************************)
(* All together.  A behaviour of Services is one of each service, so what  *)
(* is proved above of each holds of it.                                    *)
(***************************************************************************)

LEMMA ServicesStepIsEach ==
  ASSUME [ServicesNext]_servicesVars
  PROVE  /\ [CacheNext]_cacheVars /\ [RatingNext]_ratingVars /\ [IdemNext]_idemVars
         /\ [AnalyticsNext]_analyticsVars /\ [DirectoryNext]_directoryVars
         /\ [RiskNext]_<<defiVars, riskVars>> /\ [ResourceNext]_resourceVars
         /\ [MembershipNext]_membershipVars /\ [MetricsNext]_metricsVars
  BY DEF ServicesNext, servicesVars, KeepLists, KeepRatings, KeepIdempotency, KeepAnalytics,
         KeepDirectory, KeepDefi, KeepResources, KeepMemberships, KeepMetrics

\* A behaviour of the composition is a behaviour of each service.
THEOREM ServicesRunEach ==
  ServicesSpec =>
    /\ CacheSpec /\ RatingSpec /\ IdemSpec /\ AnalyticsSpec /\ DirectorySpec
    /\ RiskSpec /\ ResourceSpec /\ MembershipSpec /\ MetricsSpec
<1>1. ServicesInit =>
        /\ CacheInit /\ RatingInit /\ IdemInit /\ AnalyticsInit /\ DirectoryInit
        /\ DefiInit /\ RiskInit /\ ResourceInit /\ MembershipInit /\ MetricsInit
  BY DEF ServicesInit
<1> QED
  BY <1>1, ServicesStepIsEach, PTL
  DEF ServicesSpec, CacheSpec, RatingSpec, IdemSpec, AnalyticsSpec, DirectorySpec, RiskSpec,
      ResourceSpec, MembershipSpec, MetricsSpec

\* An assessment of the risk is a step of its own, so positions go on as ever.
LEMMA RiskRunsPositions == RiskSpec => DefiSpec
<1>1. ASSUME NEW S, NEW all, StartMonitoring(S, all) PROVE UNCHANGED defiVars
  BY <1>1, Zenon DEF StartMonitoring
<1>2. ASSUME NEW p, AssessRead(p) \/ AssessSave(p) PROVE UNCHANGED defiVars
  <2>1. CASE AssessRead(p)
    <3>1. UNCHANGED <<monitoring, report, defiVars>>
      BY <2>1, Zenon DEF AssessRead
    <3> QED BY <3>1
  <2>2. CASE AssessSave(p)
    <3>1. UNCHANGED <<monitoring, report, defiVars>>
      BY <2>2, Zenon DEF AssessSave
    <3> QED BY <3>1
  <2> QED BY <1>2, <2>1, <2>2
<1>3. ASSUME EndMonitoring PROVE UNCHANGED defiVars
  BY <1>3, Zenon DEF EndMonitoring
<1>4. [RiskNext]_<<defiVars, riskVars>> => [DefiNext]_defiVars
  BY <1>1, <1>2, <1>3 DEF RiskNext
<1> QED BY <1>4, PTL DEF RiskSpec, DefiSpec

\* Every variable of every service keeps its type, for any sets of requests,
\* documents and people: statistics are counts and averages of scores, pages
\* end with the courses, samples never outgrow their window.
THEOREM ServicesTypeCorrect == ServicesSpec => []ServicesTypeOK
<1>1. CacheSpec => []CacheTypeOK
  <2>1. CacheInv => CacheTypeOK
    BY DEF CacheInv
  <2> QED BY <2>1, CacheInitInv, CacheNextInv, PTL DEF CacheSpec
<1>2. RatingSpec => []RatingTypeOK
  BY RatingInitInv, RatingNextInv, RatingInitTypes, RatingNextTypes, RatingTypeCorrect, PTL
  DEF RatingSpec
<1>3. IdemSpec => []IdemTypeOK
  <2>1. IdemInv => IdemTypeOK
    BY DEF IdemInv
  <2> QED BY <2>1, IdemInitInv, IdemNextInv, PTL DEF IdemSpec
<1>4. AnalyticsSpec => []AnalyticsTypeOK
  <2>1. AnalyticsInv => AnalyticsTypeOK
    BY DEF AnalyticsInv
  <2> QED BY <2>1, AnalyticsInitInv, AnalyticsNextInv, PTL DEF AnalyticsSpec
<1>5. DirectorySpec => []DirectoryTypeOK
  BY DirectoryInitInv, DirectoryNextInv, DirectoryInitTypes, DirectoryNextTypes,
     DirectoryTypeCorrect, PTL DEF DirectorySpec
<1>6. RiskSpec => [](DefiTypeOK /\ RiskTypeOK)
  <2>1. RiskInv => DefiTypeOK /\ RiskTypeOK
    BY DEF RiskInv, DefiInv
  <2> QED BY <2>1, RiskInitInv, RiskNextInv, PTL DEF RiskSpec
<1>7. ResourceSpec => []ResourceTypeOK
  BY ResourceInitInv, ResourceNextInv, PTL DEF ResourceSpec
<1>8. MetricsSpec => []MetricsTypeOK
  BY RememberInv, MetricsInitInv, MetricsNextInv, PTL DEF MetricsSpec
<1>9. ServicesSpec => [](service \in Running)
  <2>1. ServicesInit => service \in Running
    BY DEF ServicesInit, Running
  <2>2. service \in Running /\ [ServicesNext]_servicesVars => (service \in Running)'
    BY DEF ServicesNext, servicesVars
  <2> QED BY <2>1, <2>2, PTL DEF ServicesSpec
<1> QED
  BY <1>1, <1>2, <1>3, <1>4, <1>5, <1>6, <1>7, <1>8, <1>9, MembershipsTyped,
     ServicesRunEach, PTL DEF ServicesTypeOK
=============================================================================
