--------------------------- MODULE Semaphore_proofs ---------------------------
(***************************************************************************)
(* The semaphore's safety for every finite set of holders, every limit,    *)
(* TTL, stamp lag and clock bound.                                         *)
(***************************************************************************)
EXTENDS Semaphore, FiniteSetTheorems, TLAPS

-----------------------------------------------------------------------------
(* What the helpers on holder books return.                                *)

\* Removing holders leaves the others as they were.
LEMMA WithoutIsBook ==
    ASSUME NEW book, IsBook(book), NEW S
    PROVE  /\ IsBook(Without(book, S))
           /\ DOMAIN Without(book, S) = DOMAIN book \ S
           /\ \A h \in DOMAIN book \ S : Without(book, S)[h] = book[h]
  BY DEF Without, IsBook, Expiry

\* Writing one holder's expiry leaves the others as they were.
LEMMA WithIsBook ==
    ASSUME NEW book, IsBook(book), NEW h \in Holder, NEW e \in Expiry
    PROVE  /\ IsBook(With(book, h, e))
           /\ DOMAIN With(book, h, e) = DOMAIN book \cup {h}
           /\ With(book, h, e)[h] = e
           /\ \A x \in DOMAIN book \ {h} : With(book, h, e)[x] = book[x]
  BY DEF With, IsBook, Expiry

\* Eviction at stamp t keeps every entry that has not expired by t.
LEMMA EvictIsBook ==
    ASSUME NEW book, IsBook(book), NEW t \in Nat
    PROVE  /\ IsBook(EvictExpired(book, t))
           /\ DOMAIN EvictExpired(book, t) \subseteq DOMAIN book
           /\ \A h \in DOMAIN EvictExpired(book, t) : EvictExpired(book, t)[h] = book[h]
           /\ \A h \in DOMAIN book : ~ExpiredAt(book[h], t) =>
                 h \in DOMAIN EvictExpired(book, t)
<1> DEFINE gone == {h \in DOMAIN book : ExpiredAt(book[h], t)}
<1>1. EvictExpired(book, t) = Without(book, gone)
  BY DEF EvictExpired
<1>2. \A h \in DOMAIN book : ~ExpiredAt(book[h], t) => h \notin gone
  OBVIOUS
<1> HIDE DEF gone
<1>3. /\ IsBook(Without(book, gone))
      /\ DOMAIN Without(book, gone) = DOMAIN book \ gone
      /\ \A h \in DOMAIN book \ gone : Without(book, gone)[h] = book[h]
  BY WithoutIsBook
<1> QED
  BY <1>1, <1>2, <1>3

\* The record of a semaphore nobody holds.
LEMMA EmptyIsBook == IsBook(<<>>) /\ DOMAIN <<>> = {}
  BY DEF IsBook

\* What has not run out at u had not run out at an earlier stamp.
LEMMA ExpiryIsMonotone ==
    ASSUME NEW e \in Expiry, NEW t \in Nat, NEW u \in Nat, t <= u, ~ExpiredAt(e, u)
    PROVE  ~ExpiredAt(e, t)
  BY SemaphoreAssumption DEF ExpiredAt, Expiry

\* A TTL, or none, makes an expiry of a stamp.
LEMMA ExpiryOfType ==
    ASSUME NEW ttl \in Ttl \cup {NoExpiry}, NEW t \in Nat
    PROVE  ExpiryOf(ttl, t) \in Expiry
  BY SemaphoreAssumption DEF ExpiryOf, Expiry

\* The holders of a book are finitely many.
LEMMA BookIsFinite ==
    ASSUME NEW book, IsBook(book)
    PROVE  /\ IsFiniteSet(DOMAIN book)
           /\ Cardinality(DOMAIN book) \in Nat
           /\ \A S \in SUBSET DOMAIN book :
                 /\ IsFiniteSet(S)
                 /\ Cardinality(S) \in Nat
                 /\ Cardinality(S) <= Cardinality(DOMAIN book)
<1>1. IsFiniteSet(DOMAIN book)
  BY SemaphoreAssumption, FS_Subset DEF IsBook
<1> QED
  BY <1>1, FS_Subset, FS_CardinalityType

\* A grant of a free permit leaves no more holders than the limit.
LEMMA GrantFitsLimit ==
    ASSUME NEW book, IsBook(book), NEW h \in Holder, NEW e \in Expiry,
           sem.total \in Nat, HasFreePermit(book)
    PROVE  Cardinality(DOMAIN With(book, h, e)) <= sem.total
<1>1. DOMAIN With(book, h, e) = DOMAIN book \cup {h}
  BY WithIsBook
<1>2. /\ IsFiniteSet(DOMAIN book)
      /\ Cardinality(DOMAIN book) \in Nat
  BY BookIsFinite
<1>3. \/ Cardinality(DOMAIN book \cup {h}) = Cardinality(DOMAIN book)
      \/ Cardinality(DOMAIN book \cup {h}) = Cardinality(DOMAIN book) + 1
  BY <1>2, FS_AddElement
<1>4. Cardinality(DOMAIN With(book, h, e)) = Cardinality(DOMAIN book \cup {h})
  BY <1>1
<1>5. Cardinality(DOMAIN book) < sem.total
  BY DEF HasFreePermit
<1> QED
  BY <1>2, <1>3, <1>4, <1>5

-----------------------------------------------------------------------------
(* Type correctness.                                                       *)

\* A stamp never lies ahead of the clock.
LEMMA StampIsNat == ASSUME now \in Nat, NEW t \in Stamp
                    PROVE  t \in Nat /\ t <= now
  BY DEF Stamp

\* A grant writes a well formed record and answer.
LEMMA GrantKeepsType ==
    ASSUME TypeOK, NEW h \in Holder, NEW e \in Expiry, NEW live, IsBook(live),
           Grant(h, e, live)
    PROVE  TypeOK'
<1>1. IsBook(With(live, h, e)) /\ IsBook(With(told, h, e))
  BY WithIsBook DEF TypeOK
<1> QED
  BY <1>1 DEF Grant, TypeOK

\* The record and what callers were told stay well formed (SemaphoreStore, every operation).
THEOREM TypeCorrect == Spec => []TypeOK
<1>1. Init => TypeOK
  BY EmptyIsBook DEF Init, TypeOK, NoSemaphore
<1>2. TypeOK /\ [Next]_vars => TypeOK'
  <2> SUFFICES ASSUME TypeOK, [Next]_vars PROVE TypeOK'
    OBVIOUS
  <2>1. CASE UNCHANGED vars
    BY <2>1 DEF vars, TypeOK, IsBook
  <2>2. ASSUME NEW p \in Permits, Create(p) PROVE TypeOK'
    BY <2>2, EmptyIsBook, SemaphoreAssumption DEF Create, TypeOK, IsBook
  <2>3. ASSUME NEW p \in Permits, NEW t \in Stamp, SetPermits(p, t) PROVE TypeOK'
    <3>1. IsBook(EvictExpired(sem.holders, t))
      BY EvictIsBook, StampIsNat DEF TypeOK
    <3> QED
      BY <2>3, <3>1, SemaphoreAssumption DEF SetPermits, TypeOK, IsBook
  <2>4. ASSUME NEW h \in Holder, NEW t \in Stamp, Acquire(h, t) PROVE TypeOK'
    <3>1. IsBook(EvictExpired(sem.holders, t)) /\ t \in Nat
      BY EvictIsBook, StampIsNat DEF TypeOK
    <3>2. ASSUME NEW ttl \in Ttl \cup {NoExpiry},
                 AcquireAgain(h, ttl, t) \/ AcquireNew(h, ttl, t)
          PROVE  TypeOK'
      BY <3>1, <3>2, GrantKeepsType, ExpiryOfType DEF AcquireAgain, AcquireNew
    <3>3. CASE AcquireRefused(h, t)
      <4>1. IsBook(Without(told, {h}))
        BY WithoutIsBook DEF TypeOK
      <4> QED
        BY <3>1, <3>3, <4>1 DEF AcquireRefused, TypeOK, IsBook
    <3> QED
      BY <2>4, <3>2, <3>3 DEF Acquire
  <2>5. ASSUME NEW h \in Holder, NEW ttl \in Ttl, NEW t \in Stamp, Renew(h, ttl, t)
        PROVE  TypeOK'
    <3>1. t + ttl \in Expiry /\ IsBook(sem.holders)
      BY StampIsNat, SemaphoreAssumption DEF TypeOK, Expiry
    <3>2. IsBook(Without(told, {h}))
      BY WithoutIsBook DEF TypeOK
    <3> QED
      BY <2>5, <3>1, <3>2, GrantKeepsType DEF Renew, TypeOK, IsBook
  <2>6. ASSUME NEW h \in Holder, Release(h) PROVE TypeOK'
    <3>1. IsBook(Without(told, {h})) /\ IsBook(Without(sem.holders, {h}))
      BY WithoutIsBook DEF TypeOK
    <3> QED
      BY <2>6, <3>1 DEF Release, TypeOK, IsBook
  <2>7. ASSUME NEW t \in Stamp, List(t) PROVE TypeOK'
    <3>1. IsBook(EvictExpired(sem.holders, t))
      BY EvictIsBook, StampIsNat DEF TypeOK
    <3> QED
      BY <2>7, <3>1 DEF List, TypeOK, IsBook
  <2>8. CASE Delete
    BY <2>8, EmptyIsBook DEF Delete, TypeOK, NoSemaphore, IsBook
  <2>9. CASE Tick
    BY <2>9 DEF Tick, TypeOK, IsBook
  <2> QED
    BY <2>1, <2>2, <2>3, <2>4, <2>5, <2>6, <2>7, <2>8, <2>9 DEF Next
<1> QED
  BY <1>1, <1>2, PTL DEF Spec

-----------------------------------------------------------------------------
(* A permit is kept until the expiry its holder was told.                  *)

\* Eviction at any stamp keeps every permit that still counts now.
LEMMA EvictKeepsPromise ==
    ASSUME TypeOK, PromiseKept, NEW t \in Stamp,
           NEW x \in DOMAIN told, ~ExpiredAt(told[x], now)
    PROVE  /\ x \in DOMAIN EvictExpired(sem.holders, t)
           /\ EvictExpired(sem.holders, t)[x] = told[x]
<1>1. x \in DOMAIN sem.holders /\ sem.holders[x] = told[x]
  BY DEF PromiseKept
<1>2. told[x] \in Expiry /\ now \in Nat /\ IsBook(sem.holders)
  BY DEF TypeOK, IsBook
<1>3. t \in Nat /\ t <= now
  BY <1>2, StampIsNat
<1>4. ~ExpiredAt(sem.holders[x], t)
  BY <1>1, <1>2, <1>3, ExpiryIsMonotone
<1> QED
  BY <1>1, <1>2, <1>3, <1>4, EvictIsBook

\* A grant keeps everybody else's permit if the book it is written to does.
LEMMA GrantKeepsPromise ==
    ASSUME TypeOK, NEW h \in Holder, NEW e \in Expiry, NEW live, IsBook(live),
           Grant(h, e, live),
           \A x \in DOMAIN told : ~ExpiredAt(told[x], now) =>
               x \in DOMAIN live /\ live[x] = told[x]
    PROVE  PromiseKept'
<1>1. /\ DOMAIN With(live, h, e) = DOMAIN live \cup {h}
      /\ With(live, h, e)[h] = e
      /\ \A x \in DOMAIN live \ {h} : With(live, h, e)[x] = live[x]
  BY WithIsBook
<1>2. /\ DOMAIN With(told, h, e) = DOMAIN told \cup {h}
      /\ With(told, h, e)[h] = e
      /\ \A x \in DOMAIN told \ {h} : With(told, h, e)[x] = told[x]
  BY WithIsBook DEF TypeOK
<1>3. sem'.holders = With(live, h, e) /\ told' = With(told, h, e) /\ now' = now
  BY DEF Grant, TypeOK
<1> QED
  BY <1>1, <1>2, <1>3 DEF PromiseKept

\* Without a record nobody is listed.
AbsentIsEmpty == ~Exists => DOMAIN sem.holders = {}

\* No step takes a permit before the expiry its holder was told.
LEMMA PromiseStep ==
    TypeOK /\ AbsentIsEmpty /\ PromiseKept /\ [Next]_vars => PromiseKept'
<1> SUFFICES ASSUME TypeOK, AbsentIsEmpty, PromiseKept, [Next]_vars PROVE PromiseKept'
  OBVIOUS
<1>t. IsBook(told) /\ IsBook(sem.holders) /\ now \in Nat
  BY DEF TypeOK
<1>1. CASE UNCHANGED vars
  BY <1>1 DEF vars, PromiseKept
<1>2. ASSUME NEW p \in Permits, Create(p) PROVE PromiseKept'
  <2>1. \A h \in DOMAIN told : ExpiredAt(told[h], now)
    BY <1>2 DEF Create, PromiseKept, AbsentIsEmpty
  <2> QED
    BY <1>2, <2>1 DEF Create, PromiseKept
<1>3. ASSUME NEW p \in Permits, NEW t \in Stamp, SetPermits(p, t) PROVE PromiseKept'
  BY <1>3, EvictKeepsPromise DEF SetPermits, PromiseKept
<1>4. ASSUME NEW h \in Holder, NEW t \in Stamp, Acquire(h, t) PROVE PromiseKept'
  <2> DEFINE live == EvictExpired(sem.holders, t)
  <2>1. IsBook(live) /\ t \in Nat
    BY <1>t, EvictIsBook, StampIsNat
  <2>2. \A x \in DOMAIN told : ~ExpiredAt(told[x], now) =>
            x \in DOMAIN live /\ live[x] = told[x]
    BY EvictKeepsPromise
  <2>3. ASSUME NEW ttl \in Ttl \cup {NoExpiry},
               AcquireAgain(h, ttl, t) \/ AcquireNew(h, ttl, t)
        PROVE  PromiseKept'
    <3>1. Grant(h, ExpiryOf(ttl, t), live)
      BY <2>3 DEF AcquireAgain, AcquireNew
    <3>2. ExpiryOf(ttl, t) \in Expiry
      BY <2>1, ExpiryOfType
    <3> HIDE DEF live
    <3> QED
      BY <2>1, <2>2, <3>1, <3>2, GrantKeepsPromise
  <2>4. CASE AcquireRefused(h, t)
    <3>1. /\ DOMAIN Without(told, {h}) = DOMAIN told \ {h}
          /\ \A x \in DOMAIN told \ {h} : Without(told, {h})[x] = told[x]
      BY <1>t, WithoutIsBook
    <3>2. sem'.holders = live /\ told' = Without(told, {h}) /\ now' = now
      BY <2>4 DEF AcquireRefused, TypeOK
    <3> QED
      BY <2>2, <3>1, <3>2 DEF PromiseKept
  <2> QED
    BY <1>4, <2>3, <2>4 DEF Acquire
<1>5. ASSUME NEW h \in Holder, NEW ttl \in Ttl, NEW t \in Stamp, Renew(h, ttl, t)
      PROVE  PromiseKept'
  <2>1. CASE h \in DOMAIN sem.holders
    <3>1. t + ttl \in Expiry
      BY <1>t, StampIsNat, SemaphoreAssumption DEF Expiry
    <3>2. Grant(h, t + ttl, sem.holders)
      BY <1>5, <2>1 DEF Renew
    <3>3. \A x \in DOMAIN told : ~ExpiredAt(told[x], now) =>
              x \in DOMAIN sem.holders /\ sem.holders[x] = told[x]
      BY DEF PromiseKept
    <3> QED
      BY <1>t, <3>1, <3>2, <3>3, GrantKeepsPromise
  <2>2. CASE h \notin DOMAIN sem.holders
    <3>1. /\ DOMAIN Without(told, {h}) = DOMAIN told \ {h}
          /\ \A x \in DOMAIN told \ {h} : Without(told, {h})[x] = told[x]
      BY <1>t, WithoutIsBook
    <3>2. told' = Without(told, {h}) /\ sem' = sem /\ now' = now
      BY <1>5, <2>2 DEF Renew
    <3> QED
      BY <3>1, <3>2 DEF PromiseKept
  <2> QED
    BY <2>1, <2>2
<1>6. ASSUME NEW h \in Holder, Release(h) PROVE PromiseKept'
  <2>1. /\ DOMAIN Without(told, {h}) = DOMAIN told \ {h}
        /\ \A x \in DOMAIN told \ {h} : Without(told, {h})[x] = told[x]
    BY <1>t, WithoutIsBook
  <2>2. /\ DOMAIN Without(sem.holders, {h}) = DOMAIN sem.holders \ {h}
        /\ \A x \in DOMAIN sem.holders \ {h} :
               Without(sem.holders, {h})[x] = sem.holders[x]
    BY <1>t, WithoutIsBook
  <2>3. /\ sem'.holders = Without(sem.holders, {h})
        /\ told' = Without(told, {h}) /\ now' = now
    BY <1>6 DEF Release, TypeOK
  <2> QED
    BY <2>1, <2>2, <2>3 DEF PromiseKept
<1>7. ASSUME NEW t \in Stamp, List(t) PROVE PromiseKept'
  BY <1>7, EvictKeepsPromise DEF List, PromiseKept, TypeOK
<1>8. CASE Delete
  BY <1>8, EmptyIsBook DEF Delete, PromiseKept
<1>9. CASE Tick
  <2>1. now' = now + 1 /\ sem' = sem /\ told' = told
    BY <1>9 DEF Tick
  <2>2. ASSUME NEW x \in DOMAIN told, ~ExpiredAt(told[x], now + 1)
        PROVE  ~ExpiredAt(told[x], now)
    <3>1. told[x] \in Expiry /\ now + 1 \in Nat /\ now <= now + 1
      BY <1>t DEF IsBook
    <3> QED
      BY <1>t, <2>2, <3>1, ExpiryIsMonotone
  <2> QED
    BY <2>1, <2>2 DEF PromiseKept
<1> QED
  BY <1>1, <1>2, <1>3, <1>4, <1>5, <1>6, <1>7, <1>8, <1>9 DEF Next

-----------------------------------------------------------------------------
(* Over-subscription is a drain and nothing else.                          *)

\* What any step does to the set of holders: it fits the limit, or it only
\* shrinks, and then the drained set still covers what it covered.
HoldersFitOrShrink ==
    \/ ~OverSubscribed'
    \/ /\ DOMAIN sem'.holders \subseteq DOMAIN sem.holders
       /\ \/ sem'.total = sem.total /\ drained' = drained
          \/ DOMAIN sem'.holders \subseteq drained'

\* No step but set_permits leaves more holders than the limit.
LEMMA HoldersStep == TypeOK /\ [Next]_vars => HoldersFitOrShrink
<1> SUFFICES ASSUME TypeOK, [Next]_vars PROVE HoldersFitOrShrink
  OBVIOUS
<1>t. IsBook(sem.holders) /\ now \in Nat /\ sem.total \in Nat
  BY DEF TypeOK
<1>e. ASSUME NEW t \in Stamp
      PROVE  /\ IsBook(EvictExpired(sem.holders, t))
             /\ DOMAIN EvictExpired(sem.holders, t) \subseteq DOMAIN sem.holders
  BY <1>t, StampIsNat, EvictIsBook
<1>1. CASE UNCHANGED vars
  BY <1>1 DEF vars, HoldersFitOrShrink
<1>2. ASSUME NEW p \in Permits, Create(p) PROVE HoldersFitOrShrink
  BY <1>2, EmptyIsBook DEF Create, HoldersFitOrShrink
<1>3. ASSUME NEW p \in Permits, NEW t \in Stamp, SetPermits(p, t)
      PROVE  HoldersFitOrShrink
  BY <1>3, <1>e DEF SetPermits, HoldersFitOrShrink
<1>4. ASSUME NEW h \in Holder, NEW t \in Stamp, Acquire(h, t) PROVE HoldersFitOrShrink
  <2> DEFINE live == EvictExpired(sem.holders, t)
  <2>1. IsBook(live) /\ DOMAIN live \subseteq DOMAIN sem.holders /\ t \in Nat
    BY <1>t, <1>e, StampIsNat
  <2>2. ASSUME NEW ttl \in Ttl \cup {NoExpiry},
               AcquireAgain(h, ttl, t) \/ AcquireNew(h, ttl, t)
        PROVE  HoldersFitOrShrink
    <3> DEFINE e == ExpiryOf(ttl, t)
    <3>1. e \in Expiry
      BY <2>1, ExpiryOfType
    <3>2. sem'.holders = With(live, h, e) /\ sem'.total = sem.total /\ drained' = drained
      BY <2>2 DEF AcquireAgain, AcquireNew, Grant, TypeOK
    <3>3. h \in DOMAIN live \/ HasFreePermit(live)
      BY <2>2 DEF AcquireAgain, AcquireNew
    <3> HIDE DEF live, e
    <3>4. CASE h \in DOMAIN live
      <4>1. DOMAIN With(live, h, e) = DOMAIN live \cup {h}
        BY <2>1, <3>1, WithIsBook
      <4> QED
        BY <2>1, <3>2, <3>4, <4>1 DEF HoldersFitOrShrink
    <3>5. CASE HasFreePermit(live)
      <4>1. Cardinality(DOMAIN With(live, h, e)) <= sem.total
        BY <1>t, <2>1, <3>1, <3>5, GrantFitsLimit
      <4>2. IsBook(With(live, h, e))
        BY <2>1, <3>1, WithIsBook
      <4>3. Cardinality(DOMAIN With(live, h, e)) \in Nat
        BY <4>2, BookIsFinite
      <4>4. ~(Cardinality(DOMAIN sem'.holders) > sem'.total)
        BY <1>t, <3>2, <4>1, <4>3
      <4> QED
        BY <4>4 DEF HoldersFitOrShrink, OverSubscribed
    <3> QED
      BY <3>3, <3>4, <3>5
  <2>3. CASE AcquireRefused(h, t)
    BY <2>1, <2>3 DEF AcquireRefused, HoldersFitOrShrink, TypeOK
  <2> QED
    BY <1>4, <2>2, <2>3 DEF Acquire
<1>5. ASSUME NEW h \in Holder, NEW ttl \in Ttl, NEW t \in Stamp, Renew(h, ttl, t)
      PROVE  HoldersFitOrShrink
  <2>1. t + ttl \in Expiry
    BY <1>t, StampIsNat, SemaphoreAssumption DEF Expiry
  <2>2. DOMAIN With(sem.holders, h, t + ttl) = DOMAIN sem.holders \cup {h}
    BY <1>t, <2>1, WithIsBook
  <2> QED
    BY <1>5, <2>2 DEF Renew, Grant, HoldersFitOrShrink, TypeOK
<1>6. ASSUME NEW h \in Holder, Release(h) PROVE HoldersFitOrShrink
  <2>1. DOMAIN Without(sem.holders, {h}) = DOMAIN sem.holders \ {h}
    BY <1>t, WithoutIsBook
  <2> QED
    BY <1>6, <2>1 DEF Release, HoldersFitOrShrink, TypeOK
<1>7. ASSUME NEW t \in Stamp, List(t) PROVE HoldersFitOrShrink
  BY <1>7, <1>e DEF List, HoldersFitOrShrink, TypeOK
<1>8. CASE Delete
  BY <1>8, EmptyIsBook DEF Delete, HoldersFitOrShrink, NoSemaphore
<1>9. CASE Tick
  BY <1>9 DEF Tick, HoldersFitOrShrink
<1> QED
  BY <1>1, <1>2, <1>3, <1>4, <1>5, <1>6, <1>7, <1>8, <1>9 DEF Next

\* Fewer holders under the same limit are over-subscribed only if more were.
LEMMA DrainStep ==
    ASSUME TypeOK, TypeOK', OverSubscribedOnlyByDrain, HoldersFitOrShrink
    PROVE  OverSubscribedOnlyByDrain'
<1> SUFFICES ASSUME OverSubscribed' PROVE DOMAIN sem'.holders \subseteq drained'
  BY DEF OverSubscribedOnlyByDrain
<1>1. DOMAIN sem'.holders \subseteq DOMAIN sem.holders
  BY DEF HoldersFitOrShrink
<1>2. CASE sem'.total = sem.total /\ drained' = drained
  <2>1. /\ Cardinality(DOMAIN sem'.holders) <= Cardinality(DOMAIN sem.holders)
        /\ Cardinality(DOMAIN sem'.holders) \in Nat
        /\ Cardinality(DOMAIN sem.holders) \in Nat
    BY <1>1, BookIsFinite DEF TypeOK
  <2>2. OverSubscribed
    BY <1>2, <2>1 DEF OverSubscribed, Exists, TypeOK
  <2> QED
    BY <1>1, <1>2, <2>2 DEF OverSubscribedOnlyByDrain
<1> QED
  BY <1>2 DEF HoldersFitOrShrink

-----------------------------------------------------------------------------
(* The inductive invariant and what follows from it.                       *)

SafetyInv ==
    /\ TypeOK
    /\ AbsentIsEmpty
    /\ PromiseKept
    /\ OverSubscribedOnlyByDrain

\* A deleted semaphore has no holders.
LEMMA AbsentStep == AbsentIsEmpty /\ [Next]_vars /\ TypeOK => AbsentIsEmpty'
<1> SUFFICES ASSUME AbsentIsEmpty, [Next]_vars, TypeOK PROVE AbsentIsEmpty'
  OBVIOUS
<1>1. CASE UNCHANGED vars \/ Tick
  BY <1>1 DEF vars, Tick, AbsentIsEmpty, Exists
<1>2. ASSUME NEW p \in Permits, Create(p) PROVE AbsentIsEmpty'
  BY <1>2, EmptyIsBook DEF Create, AbsentIsEmpty
<1>3. ASSUME NEW p \in Permits, NEW t \in Stamp, SetPermits(p, t) PROVE AbsentIsEmpty'
  BY <1>3, SemaphoreAssumption DEF SetPermits, AbsentIsEmpty, Exists
<1>4. ASSUME NEW h \in Holder, NEW t \in Stamp, Acquire(h, t) PROVE AbsentIsEmpty'
  BY <1>4 DEF Acquire, AcquireAgain, AcquireNew, AcquireRefused, Grant, AbsentIsEmpty,
     Exists, TypeOK
<1>5. ASSUME NEW h \in Holder, NEW ttl \in Ttl, NEW t \in Stamp, Renew(h, ttl, t)
      PROVE  AbsentIsEmpty'
  BY <1>5 DEF Renew, Grant, AbsentIsEmpty, Exists, TypeOK
<1>6. ASSUME NEW h \in Holder, Release(h) PROVE AbsentIsEmpty'
  BY <1>6 DEF Release, AbsentIsEmpty, Exists, TypeOK
<1>7. ASSUME NEW t \in Stamp, List(t) PROVE AbsentIsEmpty'
  BY <1>7 DEF List, AbsentIsEmpty, Exists, TypeOK
<1>8. CASE Delete
  BY <1>8, EmptyIsBook DEF Delete, AbsentIsEmpty, NoSemaphore
<1> QED
  BY <1>1, <1>2, <1>3, <1>4, <1>5, <1>6, <1>7, <1>8 DEF Next

\* The inductive invariant.
THEOREM SafetyInvariant == Spec => []SafetyInv
<1>1. Init => SafetyInv
  <2> SUFFICES ASSUME Init PROVE SafetyInv
    OBVIOUS
  <2>1. TypeOK
    BY EmptyIsBook DEF Init, TypeOK, NoSemaphore
  <2>2. AbsentIsEmpty /\ PromiseKept /\ OverSubscribedOnlyByDrain
    BY EmptyIsBook DEF Init, NoSemaphore, AbsentIsEmpty, PromiseKept,
       OverSubscribedOnlyByDrain
  <2> QED
    BY <2>1, <2>2 DEF SafetyInv
<1>2. SafetyInv /\ TypeOK' /\ [Next]_vars => SafetyInv'
  BY AbsentStep, PromiseStep, HoldersStep, DrainStep DEF SafetyInv
<1> QED
  BY <1>1, <1>2, TypeCorrect, PTL DEF Spec

\* No holder loses a permit before the expiry it was told.
THEOREM PromiseIsKept == Spec => []PromiseKept
<1>1. SafetyInv => PromiseKept
  BY DEF SafetyInv
<1> QED
  BY <1>1, SafetyInvariant, PTL

\* acquire never exceeds the limit in force.
THEOREM OverSubscriptionIsDrain == Spec => []OverSubscribedOnlyByDrain
<1>1. SafetyInv => OverSubscribedOnlyByDrain
  BY DEF SafetyInv
<1> QED
  BY <1>1, SafetyInvariant, PTL

\* At most `permits' callers work at once, drained ones aside.
THEOREM PermitsBoundWorkers == Spec => []AtMostPermits
<1>1. SafetyInv => AtMostPermits
  <2> DEFINE active == {h \in DOMAIN told : ~ExpiredAt(told[h], now)}
  <2> SUFFICES ASSUME SafetyInv, Cardinality(active) > sem.total
               PROVE  active \subseteq drained
    BY DEF AtMostPermits
  <2>1. active \subseteq DOMAIN sem.holders
    BY DEF SafetyInv, PromiseKept
  <2>2. /\ Cardinality(active) <= Cardinality(DOMAIN sem.holders)
        /\ Cardinality(active) \in Nat /\ Cardinality(DOMAIN sem.holders) \in Nat
    BY <2>1, BookIsFinite DEF SafetyInv, TypeOK
  <2>3. CASE Exists
    <3>1. OverSubscribed
      BY <2>2, <2>3 DEF OverSubscribed, SafetyInv, TypeOK
    <3> QED
      BY <2>1, <3>1 DEF SafetyInv, OverSubscribedOnlyByDrain
  <2>4. CASE ~Exists
    BY <2>1, <2>4 DEF SafetyInv, AbsentIsEmpty
  <2> QED
    BY <2>3, <2>4
<1> QED
  BY <1>1, SafetyInvariant, PTL

\* A drain admits nobody.
THEOREM DrainOnlyEnds == Spec => DrainAdmitsNobody
<1>1. TypeOK /\ [Next]_vars =>
          [OverSubscribed' => DOMAIN sem'.holders \subseteq DOMAIN sem.holders]_vars
  BY HoldersStep DEF HoldersFitOrShrink
<1> QED
  BY <1>1, TypeCorrect, PTL DEF Spec, DrainAdmitsNobody
=============================================================================
