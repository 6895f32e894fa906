--------------------------- MODULE LeasePool_proofs ---------------------------
(***************************************************************************)
(* The leases' safety for every set of resources and callers, every pool,  *)
(* cap, TTL, stamp lag and clock bound.                                    *)
(***************************************************************************)
EXTENDS LeasePool, SequenceTheorems, TLAPS

LeaseRec == [holder : Holder, until : Expiry]
ToldRec  == [res : Resource, until : Expiry]

\* A partial function of the store or of the callers.
IsBook(f, S, V) == DOMAIN f \subseteq S /\ f \in [DOMAIN f -> V]

-----------------------------------------------------------------------------
(* What the helpers return.                                                *)

\* Writing one entry of a partial function leaves the others as they were.
LEMMA WithIsBook ==
    ASSUME NEW S, NEW V, NEW f, IsBook(f, S, V), NEW x \in S, NEW v \in V
    PROVE  /\ IsBook(With(f, x, v), S, V)
           /\ DOMAIN With(f, x, v) = DOMAIN f \cup {x}
           /\ With(f, x, v)[x] = v
           /\ \A y \in DOMAIN f \ {x} : With(f, x, v)[y] = f[y]
  BY DEF With, IsBook

\* Removing one entry leaves the others as they were.
LEMMA WithoutIsBook ==
    ASSUME NEW S, NEW V, NEW f, IsBook(f, S, V), NEW x
    PROVE  /\ IsBook(Without(f, x), S, V)
           /\ DOMAIN Without(f, x) = DOMAIN f \ {x}
           /\ \A y \in DOMAIN f \ {x} : Without(f, x)[y] = f[y]
  BY DEF Without, IsBook

\* The store before the first lease.
LEMMA EmptyIsBook == ASSUME NEW S, NEW V PROVE IsBook(<<>>, S, V) /\ DOMAIN <<>> = {}
  BY DEF IsBook

\* The type invariant in terms of partial functions.
LEMMA TypeIsBooks == TypeOK <=>
    /\ IsBook(lease, Resource, LeaseRec)
    /\ IsBook(told, Holder, ToldRec)
    /\ counter \in 0..Len(Overflow)
    /\ seen \in [Holder -> Nat]
    /\ now \in Nat
    /\ \A h \in Holder : seen[h] <= now
  BY DEF TypeOK, IsBook, LeaseRec, ToldRec

\* A TTL, or none, makes an expiry of a stamp.
LEMMA ExpiryOfType ==
    ASSUME NEW ttl \in Ttl \cup {NoExpiry}, NEW t \in Nat
    PROVE  ExpiryOf(ttl, t) \in Expiry
  BY LeaseAssumption DEF ExpiryOf, Expiry

\* What has not run out at u had not run out at an earlier stamp.
LEMMA ExpiryIsMonotone ==
    ASSUME NEW e \in Expiry, NEW t \in Nat, NEW u \in Nat, t <= u, ~ExpiredAt(e, u)
    PROVE  ~ExpiredAt(e, t)
  BY LeaseAssumption DEF ExpiredAt, Expiry

\* A call's stamp lies between its caller's last one and the clock.
LEMMA StampType ==
    ASSUME TypeOK, NEW h \in Holder, NEW t \in Stamp(h)
    PROVE  t \in Nat /\ seen[h] \in Nat /\ seen[h] <= t /\ t <= now
  BY DEF Stamp, TypeOK

\* The names of the scan list, as a set.
PoolNames(h, n) ==
    {Candidates[i] : i \in 1..Len(Candidates)}
        \cup (IF Elastic(h) THEN {Overflow[i] : i \in 1..n} ELSE {})

\* The scan list goes over exactly the pool's names.
LEMMA ScanListIsPool ==
    ASSUME counter \in 0..Len(Overflow), NEW h \in PoolHolder
    PROVE  /\ ScanList(h) \in Seq(Resource)
           /\ {ScanList(h)[i] : i \in DOMAIN ScanList(h)} = PoolNames(h, counter)
           /\ Elastic(h) => Len(ScanList(h)) = Len(Candidates) + counter
<1> DEFINE extra == IF Elastic(h) THEN SubSeq(Overflow, 1, counter) ELSE <<>>
<1>1. /\ Candidates \in Seq(Resource) /\ Len(Candidates) \in Nat
      /\ Overflow \in Seq(Resource) /\ Len(Overflow) \in Nat
      /\ counter \in Nat /\ counter <= Len(Overflow)
  BY LeaseAssumption
<1>2. CASE Elastic(h)
  <2>1. /\ SubSeq(Overflow, 1, counter) \in Seq(Resource)
        /\ Len(SubSeq(Overflow, 1, counter)) = counter
        /\ \A i \in 1..counter : SubSeq(Overflow, 1, counter)[i] = Overflow[i]
    BY <1>1
  <2> DEFINE s == SubSeq(Overflow, 1, counter)
  <2>2. /\ ScanList(h) = Candidates \o s
        /\ s \in Seq(Resource) /\ Len(s) = counter
        /\ \A i \in 1..counter : s[i] = Overflow[i]
    BY <1>2, <2>1 DEF ScanList
  <2> HIDE DEF s
  <2>3. /\ ScanList(h) \in Seq(Resource)
        /\ Len(ScanList(h)) = Len(Candidates) + counter
        /\ DOMAIN ScanList(h) = 1..(Len(Candidates) + counter)
        /\ \A i \in 1..Len(Candidates) : ScanList(h)[i] = Candidates[i]
        /\ \A i \in 1..counter : ScanList(h)[Len(Candidates) + i] = Overflow[i]
    <3>1. /\ Candidates \o s \in Seq(Resource)
          /\ Len(Candidates \o s) = Len(Candidates) + counter
          /\ \A i \in 1..(Len(Candidates) + Len(s)) : (Candidates \o s)[i] =
                IF i <= Len(Candidates) THEN Candidates[i] ELSE s[i - Len(Candidates)]
      BY <1>1, <2>2, ConcatProperties
    <3>2. DOMAIN (Candidates \o s) = 1..(Len(Candidates) + counter)
      BY <3>1, LenProperties
    <3>3. \A i \in 1..Len(Candidates) : (Candidates \o s)[i] = Candidates[i]
      BY <1>1, <2>2, <3>1
    <3>4. \A i \in 1..counter : (Candidates \o s)[Len(Candidates) + i] = Overflow[i]
      BY <1>1, <2>2, <3>1
    <3> QED
      BY <2>2, <3>1, <3>2, <3>3, <3>4
  <2>4. {ScanList(h)[i] : i \in DOMAIN ScanList(h)} \subseteq PoolNames(h, counter)
    <3> SUFFICES ASSUME NEW i \in 1..(Len(Candidates) + counter)
                 PROVE  ScanList(h)[i] \in PoolNames(h, counter)
      BY <2>3
    <3>1. CASE i \in 1..Len(Candidates)
      BY <2>3, <3>1 DEF PoolNames
    <3>2. CASE i \notin 1..Len(Candidates)
      <4>1. i - Len(Candidates) \in 1..counter /\ Len(Candidates) + (i - Len(Candidates)) = i
        BY <1>1, <3>2
      <4>2. ScanList(h)[i] = Overflow[i - Len(Candidates)]
        BY <2>3, <4>1
      <4> QED
        BY <1>2, <4>1, <4>2 DEF PoolNames
    <3> QED
      BY <3>1, <3>2
  <2>5. PoolNames(h, counter) \subseteq {ScanList(h)[i] : i \in DOMAIN ScanList(h)}
    <3>1. \A i \in 1..Len(Candidates) : i \in DOMAIN ScanList(h)
      BY <1>1, <2>3
    <3>2. \A i \in 1..counter : Len(Candidates) + i \in DOMAIN ScanList(h)
      BY <1>1, <2>3
    <3>3. \A i \in 1..Len(Candidates) :
             Candidates[i] \in {ScanList(h)[j] : j \in DOMAIN ScanList(h)}
      BY <2>3, <3>1
    <3>4. \A i \in 1..counter :
             Overflow[i] \in {ScanList(h)[j] : j \in DOMAIN ScanList(h)}
      BY <2>3, <3>2
    <3> QED
      BY <1>2, <3>3, <3>4 DEF PoolNames
  <2> QED
    BY <2>3, <2>4, <2>5
<1>3. CASE ~Elastic(h)
  <2>1. ScanList(h) = Candidates \o <<>>
    BY <1>3 DEF ScanList
  <2>2. ScanList(h) = Candidates
    BY <1>1, <2>1
  <2>3. DOMAIN Candidates = 1..Len(Candidates)
    BY <1>1
  <2> QED
    BY <1>1, <1>3, <2>2, <2>3 DEF PoolNames
<1> QED
  BY <1>2, <1>3

-----------------------------------------------------------------------------
(* The inductive invariant.                                                *)

\* A pool caller has one lease at most that had not expired at its last stamp:
\* the one it was told of, if it was told of any.
HeldAlone ==
    \A h \in PoolHolder : \A r \in DOMAIN lease : HoldsAt(h, r, seen[h]) =>
        /\ h \in DOMAIN told => told[h].res = r
        /\ \A s \in DOMAIN lease : HoldsAt(h, s, seen[h]) => s = r

\* A pool caller only ever leases names its own scan list goes over.
InOwnPool ==
    \A h \in PoolHolder : \A r \in DOMAIN lease :
        lease[r].holder = h => r \in PoolNames(h, counter)

IInv == TypeOK /\ BeliefBacked /\ HeldAlone /\ InOwnPool /\ PoolWithinCap

\* What a pool caller holds at a stamp of its own is all it holds, and what it was
\* told of, if anything.
LEMMA HeldIsTold ==
    ASSUME TypeOK, HeldAlone, NEW h \in PoolHolder, NEW t \in Stamp(h),
           NEW r, HoldsAt(h, r, t)
    PROVE  /\ h \in DOMAIN told => told[h].res = r
           /\ \A s \in DOMAIN lease : HoldsAt(h, s, t) => s = r
<1>1. h \in Holder /\ t \in Nat /\ seen[h] \in Nat /\ seen[h] <= t
  BY LeaseAssumption, StampType
<1>2. \A s : HoldsAt(h, s, t) => s \in DOMAIN lease /\ HoldsAt(h, s, seen[h])
  <2> SUFFICES ASSUME NEW s, HoldsAt(h, s, t)
               PROVE  s \in DOMAIN lease /\ HoldsAt(h, s, seen[h])
    OBVIOUS
  <2>1. s \in DOMAIN lease /\ lease[s].until \in Expiry
    BY DEF HoldsAt, LeasedAt, TypeOK
  <2> QED
    BY <1>1, <2>1, ExpiryIsMonotone DEF HoldsAt, LeasedAt
<1> QED
  BY <1>2 DEF HeldAlone

\* Taking a name writes a well formed lease, and an answer or none.
LEMMA TakeKeepsType ==
    ASSUME TypeOK, NEW h \in Holder, NEW r \in Resource, NEW e \in Expiry,
           NEW t \in Stamp(h), Call(h, t), Take(h, r, e), counter' \in 0..Len(Overflow)
    PROVE  TypeOK'
<1>1. IsBook(lease, Resource, LeaseRec) /\ IsBook(told, Holder, ToldRec)
  BY TypeIsBooks
<1>2. [holder |-> h, until |-> e] \in LeaseRec /\ [res |-> r, until |-> e] \in ToldRec
  BY DEF LeaseRec, ToldRec
<1>3. IsBook(lease', Resource, LeaseRec)
  <2>1. lease' = With(lease, r, [holder |-> h, until |-> e])
    BY DEF Take, Grant, GrantUnheard, Record
  <2> QED
    BY <1>1, <1>2, <2>1, WithIsBook
<1>4. IsBook(told', Holder, ToldRec)
  <2>1. CASE Grant(h, r, e)
    BY <1>1, <1>2, <2>1, WithIsBook DEF Grant
  <2>2. CASE GrantUnheard(h, r, e)
    BY <1>1, <2>2, WithoutIsBook DEF GrantUnheard
  <2> QED
    BY <2>1, <2>2 DEF Take
<1>5. seen' \in [Holder -> Nat] /\ now' \in Nat /\ \A g \in Holder : seen'[g] <= now'
  BY StampType DEF Call, TypeOK
<1> QED
  BY <1>3, <1>4, <1>5 DEF TypeOK, IsBook, LeaseRec, ToldRec

\* A refusal removes one answer.
LEMMA DenyKeepsType ==
    ASSUME TypeOK, NEW h \in Holder, NEW t \in Stamp(h), Call(h, t), Deny(h),
           counter' \in 0..Len(Overflow)
    PROVE  TypeOK'
<1>1. IsBook(told, Holder, ToldRec)
  BY TypeIsBooks
<1>2. IsBook(told', Holder, ToldRec)
  BY <1>1, WithoutIsBook DEF Deny
<1>3. seen' \in [Holder -> Nat] /\ now' \in Nat /\ \A g \in Holder : seen'[g] <= now'
  BY StampType DEF Call, TypeOK
<1> QED
  BY <1>2, <1>3 DEF Deny, TypeOK, IsBook, ToldRec

\* After it, told differs only at h and lease only at r.
LEMMA TakeChanges ==
    ASSUME TypeOK, NEW h \in Holder, NEW r \in Resource, NEW e \in Expiry, Take(h, r, e)
    PROVE  /\ DOMAIN lease' = DOMAIN lease \cup {r}
           /\ lease'[r] = [holder |-> h, until |-> e]
           /\ \A s \in DOMAIN lease \ {r} : lease'[s] = lease[s]
           /\ DOMAIN told' \ {h} = DOMAIN told \ {h}
           /\ h \in DOMAIN told' => told'[h] = [res |-> r, until |-> e]
           /\ \A g \in DOMAIN told \ {h} : told'[g] = told[g]
<1>1. IsBook(lease, Resource, LeaseRec) /\ IsBook(told, Holder, ToldRec)
  BY TypeIsBooks
<1>2. [holder |-> h, until |-> e] \in LeaseRec /\ [res |-> r, until |-> e] \in ToldRec
  BY DEF LeaseRec, ToldRec
<1>3. /\ DOMAIN lease' = DOMAIN lease \cup {r}
      /\ lease'[r] = [holder |-> h, until |-> e]
      /\ \A s \in DOMAIN lease \ {r} : lease'[s] = lease[s]
  <2>1. lease' = With(lease, r, [holder |-> h, until |-> e])
    BY DEF Take, Grant, GrantUnheard, Record
  <2> QED
    BY <2>1 DEF With
<1>4. CASE Grant(h, r, e)
  <2>1. /\ DOMAIN told' = DOMAIN told \cup {h}
        /\ told'[h] = [res |-> r, until |-> e]
        /\ \A g \in DOMAIN told \ {h} : told'[g] = told[g]
    BY <1>1, <1>2, <1>4, WithIsBook DEF Grant
  <2> QED
    BY <1>3, <2>1
<1>5. CASE GrantUnheard(h, r, e)
  <2>1. /\ DOMAIN told' = DOMAIN told \ {h}
        /\ \A g \in DOMAIN told \ {h} : told'[g] = told[g]
    <3>1. told' = Without(told, h)
      BY <1>5 DEF GrantUnheard
    <3> QED
      BY <3>1 DEF Without
  <2> QED
    BY <1>3, <2>1
<1> QED
  BY <1>4, <1>5 DEF Take

\* Taking what is takable takes nothing a caller counts on.
LEMMA TakeKeepsBeliefs ==
    ASSUME TypeOK, BeliefBacked, NEW h \in Holder, NEW r \in Resource, NEW e \in Expiry,
           NEW t \in Stamp(h), Call(h, t), Takable(h, r, t), Take(h, r, e)
    PROVE  BeliefBacked'
<1> SUFFICES ASSUME NEW g \in Holder, Believes(g)'
             PROVE  /\ told'[g].res \in DOMAIN lease'
                    /\ lease'[told'[g].res] = [holder |-> g, until |-> told'[g].until]
  BY DEF BeliefBacked
<1>1. CASE g = h
  <2>1. /\ lease'[r] = [holder |-> h, until |-> e]
        /\ told'[h] = [res |-> r, until |-> e]
        /\ r \in DOMAIN lease'
    <3>1. h \in DOMAIN told'
      BY <1>1 DEF Believes
    <3>2. DOMAIN lease' = DOMAIN lease \cup {r}
      BY TakeChanges, Zenon
    <3>3. lease'[r] = [holder |-> h, until |-> e]
      BY TakeChanges, Zenon
    <3>4. told'[h] = [res |-> r, until |-> e]
      <4>1. Grant(h, r, e)
        <5>1. ~GrantUnheard(h, r, e)
          BY <3>1 DEF GrantUnheard, Without
        <5> QED
          BY <5>1 DEF Take
      <4> QED
        BY <4>1 DEF Grant, With
    <3> QED
      BY <3>1, <3>2, <3>3, <3>4, Zenon
  <2>2. told'[h].res = r /\ told'[h].until = e
    BY <2>1
  <2> QED
    BY <1>1, <2>1, <2>2
<1>2. CASE g # h
  <2>1. g \in DOMAIN told /\ told'[g] = told[g] /\ now' = now
    BY <1>2, TakeChanges DEF Believes, Call
  <2>2. Believes(g)
    BY <2>1 DEF Believes, ExpiredAt
  <2>3. /\ told[g].res \in DOMAIN lease
        /\ lease[told[g].res] = [holder |-> g, until |-> told[g].until]
    BY <2>2 DEF BeliefBacked
  <2>4. told[g].res # r
    <3>1. t \in Nat /\ now \in Nat /\ t <= now /\ told[g].until \in Expiry
      BY <2>1, StampType DEF TypeOK
    <3>2. ~ExpiredAt(told[g].until, t)
      BY <2>2, <3>1, ExpiryIsMonotone DEF Believes
    <3> QED
      BY <1>2, <2>3, <3>2 DEF Takable, LeasedAt
  <2>5. /\ told[g].res \in DOMAIN lease'
        /\ lease'[told[g].res] = lease[told[g].res]
    <3>1. /\ DOMAIN lease' = DOMAIN lease \cup {r}
          /\ \A s \in DOMAIN lease \ {r} : lease'[s] = lease[s]
      BY TakeChanges, Zenon
    <3> QED
      BY <2>3, <2>4, <3>1
  <2> QED
    BY <2>1, <2>3, <2>5
<1> QED
  BY <1>1, <1>2

\* After a refusal, told differs only at h.
LEMMA DenyChanges ==
    ASSUME TypeOK, NEW h \in Holder, Deny(h)
    PROVE  /\ lease' = lease
           /\ DOMAIN told' = DOMAIN told \ {h}
           /\ \A g \in DOMAIN told \ {h} : told'[g] = told[g]
<1>1. told' = [g \in DOMAIN told \ {h} |-> told[g]] /\ lease' = lease
  BY DEF Deny, Without
<1> QED
  BY <1>1

\* A refusal takes nothing a caller counts on.
LEMMA DenyKeepsBeliefs ==
    ASSUME TypeOK, BeliefBacked, NEW h \in Holder, NEW t, Call(h, t), Deny(h)
    PROVE  BeliefBacked'
<1>1. /\ lease' = lease
      /\ DOMAIN told' = DOMAIN told \ {h}
      /\ \A g \in DOMAIN told \ {h} : told'[g] = told[g]
  BY DenyChanges, Zenon
<1>2. now' = now
  BY DEF Call
<1>3. \A g \in Holder : Believes(g)' => Believes(g) /\ told'[g] = told[g]
  BY <1>1, <1>2 DEF Believes, ExpiredAt
<1> QED
  BY <1>1, <1>3 DEF BeliefBacked

\* Taking a name keeps HeldAlone when the caller holds nothing else.
LEMMA TakeKeepsAlone ==
    ASSUME TypeOK, HeldAlone, NEW h \in Holder, NEW r \in Resource, NEW e \in Expiry,
           NEW t \in Stamp(h), Call(h, t), Take(h, r, e),
           h \in PoolHolder => \A s \in DOMAIN lease : HoldsAt(h, s, t) => s = r
    PROVE  HeldAlone'
<1>1. /\ DOMAIN lease' = DOMAIN lease \cup {r}
      /\ lease'[r] = [holder |-> h, until |-> e]
      /\ \A s \in DOMAIN lease \ {r} : lease'[s] = lease[s]
      /\ DOMAIN told' \ {h} = DOMAIN told \ {h}
      /\ h \in DOMAIN told' => told'[h] = [res |-> r, until |-> e]
      /\ \A g \in DOMAIN told \ {h} : told'[g] = told[g]
  BY TakeChanges, Zenon
<1>2. seen'[h] = t /\ \A g \in Holder \ {h} : seen'[g] = seen[g]
  BY DEF Call, TypeOK
<1> SUFFICES ASSUME NEW g \in PoolHolder
             PROVE  \A s \in DOMAIN lease' : HoldsAt(g, s, seen[g])' =>
                       /\ g \in DOMAIN told' => told'[g].res = s
                       /\ \A u \in DOMAIN lease' : HoldsAt(g, u, seen[g])' => u = s
  BY DEF HeldAlone
<1>3. \A s \in DOMAIN lease' : HoldsAt(g, s, seen[g])' =>
         lease'[s].holder = g /\ ~ExpiredAt(lease'[s].until, seen'[g])
  BY DEF HoldsAt, LeasedAt, ExpiredAt
<1>4. CASE g = h
  <2>1. \A s \in DOMAIN lease' : HoldsAt(g, s, seen[g])' => s = r
    <3> SUFFICES ASSUME NEW s \in DOMAIN lease', HoldsAt(g, s, seen[g])', s # r PROVE FALSE
      OBVIOUS
    <3>1. s \in DOMAIN lease /\ lease'[s] = lease[s]
      BY <1>1
    <3>2. HoldsAt(h, s, t)
      BY <1>2, <1>3, <1>4, <3>1 DEF HoldsAt, LeasedAt
    <3> QED
      BY <1>4, <3>1, <3>2
  <2>2. g \in DOMAIN told' => told'[g].res = r
    BY <1>1, <1>4
  <2> QED
    BY <2>1, <2>2
<1>5. CASE g # h
  <2>1. g \in Holder /\ seen'[g] = seen[g]
    BY <1>2, <1>5, LeaseAssumption
  <2>2. \A s \in DOMAIN lease' : HoldsAt(g, s, seen[g])' =>
           s \in DOMAIN lease /\ HoldsAt(g, s, seen[g])
    <3> SUFFICES ASSUME NEW s \in DOMAIN lease', HoldsAt(g, s, seen[g])'
                 PROVE  s \in DOMAIN lease /\ HoldsAt(g, s, seen[g])
      OBVIOUS
    <3>1. s # r
      BY <1>1, <1>3, <1>5
    <3>2. s \in DOMAIN lease /\ lease'[s] = lease[s]
      BY <1>1, <3>1
    <3> QED
      BY <1>3, <2>1, <3>2 DEF HoldsAt, LeasedAt
  <2>3. g \in DOMAIN told' => g \in DOMAIN told /\ told'[g] = told[g]
    BY <1>1, <1>5
  <2> QED
    BY <2>2, <2>3 DEF HeldAlone
<1> QED
  BY <1>4, <1>5

\* Being told nothing keeps it, whatever the caller holds.
LEMMA DenyKeepsAlone ==
    ASSUME TypeOK, HeldAlone, NEW h \in Holder, NEW t \in Stamp(h),
           Call(h, t), Deny(h)
    PROVE  HeldAlone'
<1>1. /\ lease' = lease
      /\ DOMAIN told' = DOMAIN told \ {h}
      /\ \A g \in DOMAIN told \ {h} : told'[g] = told[g]
  BY DenyChanges, Zenon
<1>2. \A g \in Holder : seen[g] \in Nat /\ seen'[g] \in Nat /\ seen[g] <= seen'[g]
  BY StampType DEF Call, TypeOK
<1> SUFFICES ASSUME NEW g \in PoolHolder
             PROVE  \A s \in DOMAIN lease' : HoldsAt(g, s, seen[g])' =>
                       /\ g \in DOMAIN told' => told'[g].res = s
                       /\ \A u \in DOMAIN lease' : HoldsAt(g, u, seen[g])' => u = s
  BY DEF HeldAlone
<1>3. \A s \in DOMAIN lease' : HoldsAt(g, s, seen[g])' => s \in DOMAIN lease /\ HoldsAt(g, s, seen[g])
  <2> SUFFICES ASSUME NEW s \in DOMAIN lease', HoldsAt(g, s, seen[g])'
               PROVE  s \in DOMAIN lease /\ HoldsAt(g, s, seen[g])
    OBVIOUS
  <2>1. HoldsAt(g, s, seen'[g]) /\ s \in DOMAIN lease
    BY <1>1 DEF HoldsAt, LeasedAt, ExpiredAt
  <2>2. lease[s].until \in Expiry /\ g \in Holder
    BY <2>1, LeaseAssumption DEF TypeOK
  <2> QED
    BY <1>2, <2>1, <2>2, ExpiryIsMonotone DEF HoldsAt, LeasedAt
<1>4. g \in DOMAIN told' => g \in DOMAIN told /\ told'[g] = told[g]
  BY <1>1
<1> QED
  BY <1>3, <1>4 DEF HeldAlone

\* The pool only grows.
LEMMA PoolGrows ==
    ASSUME NEW h, NEW n \in Nat, NEW m \in Nat, n <= m
    PROVE  PoolNames(h, n) \subseteq PoolNames(h, m)
  BY DEF PoolNames

\* Taking a pool name stays within the pool.
LEMMA TakeKeepsPool ==
    ASSUME TypeOK, InOwnPool, NEW h \in Holder, NEW r \in Resource, NEW e \in Expiry,
           Take(h, r, e), counter' \in Nat, counter <= counter',
           h \in PoolHolder => r \in PoolNames(h, counter')
    PROVE  InOwnPool'
<1>1. /\ DOMAIN lease' = DOMAIN lease \cup {r}
      /\ lease'[r] = [holder |-> h, until |-> e]
      /\ \A s \in DOMAIN lease \ {r} : lease'[s] = lease[s]
  BY TakeChanges, Zenon
<1> SUFFICES ASSUME NEW g \in PoolHolder, NEW s \in DOMAIN lease', lease'[s].holder = g
             PROVE  s \in PoolNames(g, counter')
  BY DEF InOwnPool, PoolNames, Elastic
<1>2. CASE s = r
  BY <1>1, <1>2
<1>3. CASE s # r
  <2>1. s \in DOMAIN lease /\ lease[s].holder = g
    BY <1>1, <1>3
  <2>2. s \in PoolNames(g, counter) /\ counter \in Nat
    BY <2>1, LeaseAssumption DEF InOwnPool, TypeOK
  <2> QED
    BY <2>2, PoolGrows
<1> QED
  BY <1>2, <1>3

\* Fewer leases, and a pool no smaller.
LEMMA FewerKeepPool ==
    ASSUME TypeOK, InOwnPool, DOMAIN lease' \subseteq DOMAIN lease,
           \A s \in DOMAIN lease' : lease'[s] = lease[s],
           counter' \in Nat, counter <= counter'
    PROVE  InOwnPool'
<1> SUFFICES ASSUME NEW g \in PoolHolder, NEW s \in DOMAIN lease', lease'[s].holder = g
             PROVE  s \in PoolNames(g, counter')
  BY DEF InOwnPool, PoolNames, Elastic
<1>1. s \in PoolNames(g, counter) /\ counter \in Nat
  BY LeaseAssumption DEF InOwnPool, TypeOK
<1> QED
  BY <1>1, PoolGrows

-----------------------------------------------------------------------------
(* The outcomes of acquire_any, without the order of the scan list.        *)

\* A pool consists of resource names.
LEMMA PoolIsResources ==
    ASSUME NEW h \in PoolHolder, NEW n \in 0..Len(Overflow)
    PROVE  PoolNames(h, n) \subseteq Resource
<1>1. \A i \in 1..Len(Candidates) : Candidates[i] \in Resource
  BY LeaseAssumption, ElementOfSeq
<1>2. \A i \in 1..n : Overflow[i] \in Resource
  BY LeaseAssumption, LenProperties, ElementOfSeq
<1> QED
  BY <1>1, <1>2 DEF PoolNames

\* PickAgain refreshes a lease of the pool that the caller holds.
LEMMA PickAgainMeans ==
    ASSUME TypeOK, NEW h \in PoolHolder, NEW ttl, NEW t, PickAgain(h, ttl, t)
    PROVE  /\ counter' = counter
           /\ \E r \in PoolNames(h, counter) :
                 HoldsAt(h, r, t) /\ Take(h, r, ExpiryOf(ttl, t))
<1>1. PICK i \in DOMAIN ScanList(h) :
         /\ HoldsAt(h, ScanList(h)[i], t)
         /\ Take(h, ScanList(h)[i], ExpiryOf(ttl, t))
         /\ UNCHANGED counter
  BY DEF PickAgain, IsFirst
<1>2. ScanList(h)[i] \in PoolNames(h, counter)
  BY ScanListIsPool DEF TypeOK
<1> QED
  BY <1>1, <1>2

\* PickFirst takes a takable name for a caller that holds none of the pool.
LEMMA PickFirstMeans ==
    ASSUME TypeOK, NEW h \in PoolHolder, NEW ttl, NEW t, PickFirst(h, ttl, t)
    PROVE  /\ counter' = counter
           /\ \A r \in PoolNames(h, counter) : ~HoldsAt(h, r, t)
           /\ \E r \in PoolNames(h, counter) :
                 Takable(h, r, t) /\ Take(h, r, ExpiryOf(ttl, t))
<1>1. \A i \in DOMAIN ScanList(h) : ~HoldsAt(h, ScanList(h)[i], t)
  BY DEF PickFirst
<1>2. PICK i \in DOMAIN ScanList(h) :
         /\ Takable(h, ScanList(h)[i], t)
         /\ Take(h, ScanList(h)[i], ExpiryOf(ttl, t))
         /\ UNCHANGED counter
  BY DEF PickFirst, IsFirst
<1>3. {ScanList(h)[j] : j \in DOMAIN ScanList(h)} = PoolNames(h, counter)
  BY ScanListIsPool DEF TypeOK
<1> QED
  BY <1>1, <1>2, <1>3

\* In an exhausted pool every name is leased, none of them to the caller.
LEMMA ExhaustedMeans ==
    ASSUME TypeOK, NEW h \in PoolHolder, NEW t, Exhausted(h, t)
    PROVE  \A r \in PoolNames(h, counter) : r \in DOMAIN lease /\ ~HoldsAt(h, r, t)
<1>1. {ScanList(h)[j] : j \in DOMAIN ScanList(h)} = PoolNames(h, counter)
  BY ScanListIsPool DEF TypeOK
<1> QED
  BY <1>1 DEF Exhausted, Takable, HoldsAt, LeasedAt

\* The next name fits the cap and becomes part of the pool.
LEMMA MayGrowMeans ==
    ASSUME TypeOK, NEW h \in PoolHolder, MayGrow(h)
    PROVE  /\ Elastic(h)
           /\ counter + 1 \in 1..Len(Overflow)
           /\ Overflow[counter + 1] \in Resource
           /\ Overflow[counter + 1] \in PoolNames(h, counter + 1)
           /\ Len(Candidates) + (counter + 1) <= Cap[h]
<1>1. /\ Elastic(h) /\ counter < Len(Overflow)
      /\ Len(ScanList(h)) < Cap[h]
      /\ counter \in 0..Len(Overflow)
      /\ Len(Overflow) \in Nat /\ Len(Candidates) \in Nat
  BY LeaseAssumption, LenProperties DEF MayGrow, TypeOK
<1>2. Len(ScanList(h)) = Len(Candidates) + counter
  BY <1>1, ScanListIsPool
<1>3. Cap[h] \in Nat
  BY <1>1, LeaseAssumption DEF Elastic
<1>4. counter + 1 \in 1..Len(Overflow)
  BY <1>1
<1>5. Overflow[counter + 1] \in Resource
  BY <1>4, LeaseAssumption, ElementOfSeq
<1>6. Overflow[counter + 1] \in PoolNames(h, counter + 1)
  BY <1>1, <1>4 DEF PoolNames
<1> QED
  BY <1>1, <1>2, <1>3, <1>4, <1>5, <1>6

\* What a pool caller holds is in its pool: nothing there, nothing at all.
LEMMA NothingHeld ==
    ASSUME InOwnPool, NEW h \in PoolHolder, NEW t,
           \A r \in PoolNames(h, counter) : ~HoldsAt(h, r, t)
    PROVE  \A s \in DOMAIN lease : ~HoldsAt(h, s, t)
  BY DEF InOwnPool, HoldsAt, LeasedAt

\* Synthesizing a name keeps the pool within the caller's cap.
LEMMA GrownKeepsCap ==
    ASSUME TypeOK, NEW h \in PoolHolder, MayGrow(h), counter' = counter + 1
    PROVE  PoolWithinCap'
  BY MayGrowMeans DEF PoolWithinCap, Elastic

-----------------------------------------------------------------------------
(* One lemma per action.                                                   *)

\* Taking a name whose conditions the caller meets preserves the whole invariant.
LEMMA TakePreserves ==
    ASSUME IInv, NEW h \in Holder, NEW r \in Resource, NEW e \in Expiry,
           NEW t \in Stamp(h), Call(h, t), Takable(h, r, t), Take(h, r, e),
           counter' \in counter..Len(Overflow), PoolWithinCap',
           h \in PoolHolder => /\ \A s \in DOMAIN lease : HoldsAt(h, s, t) => s = r
                               /\ r \in PoolNames(h, counter')
    PROVE  IInv'
<1>1. counter \in Nat /\ counter' \in Nat /\ counter <= counter'
      /\ counter' \in 0..Len(Overflow)
  BY LeaseAssumption, LenProperties DEF IInv, TypeOK
<1>2. TypeOK'
  BY <1>1, TakeKeepsType, Zenon DEF IInv
<1>3. BeliefBacked'
  BY TakeKeepsBeliefs, Zenon DEF IInv
<1>4. HeldAlone'
  BY TakeKeepsAlone, Zenon DEF IInv
<1>5. InOwnPool'
  BY <1>1, TakeKeepsPool, Zenon DEF IInv
<1> QED
  BY <1>2, <1>3, <1>4, <1>5 DEF IInv

\* A call that is told nothing preserves the whole invariant.
LEMMA DenyPreserves ==
    ASSUME IInv, NEW h \in Holder, NEW t \in Stamp(h), Call(h, t), Deny(h),
           counter' \in counter..Len(Overflow), PoolWithinCap'
    PROVE  IInv'
<1>1. counter \in Nat /\ counter' \in Nat /\ counter <= counter'
      /\ counter' \in 0..Len(Overflow)
  BY LeaseAssumption, LenProperties DEF IInv, TypeOK
<1>2. TypeOK'
  BY <1>1, DenyKeepsType, Zenon DEF IInv
<1>3. BeliefBacked'
  BY DenyKeepsBeliefs, Zenon DEF IInv
<1>4. HeldAlone'
  BY DenyKeepsAlone, Zenon DEF IInv
<1>5. InOwnPool'
  BY <1>1, FewerKeepPool DEF IInv, Deny
<1> QED
  BY <1>2, <1>3, <1>4, <1>5 DEF IInv

\* A call that synthesizes nothing leaves the pool's size alone.
LEMMA SameCounter ==
    ASSUME IInv, counter' = counter
    PROVE  counter' \in counter..Len(Overflow) /\ PoolWithinCap'
<1>1. counter \in 0..Len(Overflow) /\ Len(Overflow) \in Nat
  BY LeaseAssumption, LenProperties DEF IInv, TypeOK
<1>2. counter' \in counter..Len(Overflow)
  BY <1>1
<1> QED
  BY <1>2 DEF IInv, PoolWithinCap, Elastic

\* acquire preserves the invariant.
LEMMA AcquirePreserves ==
    ASSUME IInv, NEW h \in Holder \ PoolHolder, NEW ttl \in Ttl \cup {NoExpiry},
           NEW t \in Stamp(h), Acquire(h, ttl, t)
    PROVE  IInv'
<1>1. Named[h] \in Resource /\ h \in Holder
  BY LeaseAssumption
<1>2. t \in Nat /\ ExpiryOf(ttl, t) \in Expiry
  BY StampType, ExpiryOfType DEF IInv
<1>3. Call(h, t) /\ counter' = counter
  BY DEF Acquire
<1>4. counter' \in counter..Len(Overflow) /\ PoolWithinCap'
  BY <1>3, SameCounter
<1>5. CASE Takable(h, Named[h], t) /\ Take(h, Named[h], ExpiryOf(ttl, t))
  BY <1>1, <1>2, <1>3, <1>4, <1>5, TakePreserves, Zenon
<1>6. CASE Deny(h)
  BY <1>1, <1>3, <1>4, <1>6, DenyPreserves, Zenon
<1> QED
  BY <1>5, <1>6 DEF Acquire

\* acquire_any preserves the invariant, whichever way it goes.
LEMMA AcquireAnyPreserves ==
    ASSUME IInv, NEW h \in PoolHolder, NEW ttl \in Ttl \cup {NoExpiry},
           NEW t \in Stamp(h), AcquireAny(h, ttl, t)
    PROVE  IInv'
<1> DEFINE e == ExpiryOf(ttl, t)
<1>1. h \in Holder /\ t \in Nat /\ e \in Expiry /\ Call(h, t)
  BY LeaseAssumption, StampType, ExpiryOfType DEF IInv, AcquireAny
<1>2. PoolNames(h, counter) \subseteq Resource
  BY PoolIsResources DEF IInv, TypeOK
<1>3. TypeOK /\ HeldAlone /\ InOwnPool
  BY DEF IInv
<1> HIDE DEF e
<1>4. CASE PickAgain(h, ttl, t)
  <2>1. PICK r \in PoolNames(h, counter) : HoldsAt(h, r, t) /\ Take(h, r, e)
    BY <1>3, <1>4, PickAgainMeans DEF e
  <2>2. counter' = counter
    BY <1>3, <1>4, PickAgainMeans
  <2>3. \A s \in DOMAIN lease : HoldsAt(h, s, t) => s = r
    BY <1>3, <2>1, HeldIsTold
  <2>4. Takable(h, r, t)
    BY <2>1 DEF Takable, HoldsAt
  <2>5. r \in PoolNames(h, counter')
    BY <2>1, <2>2
  <2>6. counter' \in counter..Len(Overflow) /\ PoolWithinCap'
    BY <2>2, SameCounter
  <2> QED
    BY <1>1, <1>2, <2>1, <2>3, <2>4, <2>5, <2>6, TakePreserves
<1>5. CASE PickFirst(h, ttl, t)
  <2>1. PICK r \in PoolNames(h, counter) : Takable(h, r, t) /\ Take(h, r, e)
    BY <1>3, <1>5, PickFirstMeans DEF e
  <2>2. counter' = counter /\ \A s \in PoolNames(h, counter) : ~HoldsAt(h, s, t)
    BY <1>3, <1>5, PickFirstMeans
  <2>3. \A s \in DOMAIN lease : ~HoldsAt(h, s, t)
    BY <1>3, <2>2, NothingHeld
  <2>4. r \in PoolNames(h, counter')
    BY <2>1, <2>2
  <2>5. counter' \in counter..Len(Overflow) /\ PoolWithinCap'
    BY <2>2, SameCounter
  <2> QED
    BY <1>1, <1>2, <2>1, <2>3, <2>4, <2>5, TakePreserves
<1>6. CASE /\ Exhausted(h, t) /\ MayGrow(h) /\ counter' = counter + 1
           /\ \/ /\ Takable(h, Overflow[counter + 1], t)
                 /\ Take(h, Overflow[counter + 1], e)
              \/ Deny(h)
  <2>1. /\ counter + 1 \in 1..Len(Overflow)
        /\ Overflow[counter + 1] \in Resource
        /\ Overflow[counter + 1] \in PoolNames(h, counter')
    BY <1>3, <1>6, MayGrowMeans
  <2>2. \A s \in DOMAIN lease : ~HoldsAt(h, s, t)
    BY <1>3, <1>6, ExhaustedMeans, NothingHeld
  <2>3. PoolWithinCap'
    BY <1>3, <1>6, GrownKeepsCap
  <2>4. counter' \in counter..Len(Overflow)
    <3>1. counter \in Nat /\ Len(Overflow) \in Nat
      BY <1>3, LeaseAssumption, LenProperties DEF TypeOK
    <3> QED
      BY <1>6, <2>1, <3>1
  <2>5. CASE Takable(h, Overflow[counter + 1], t) /\ Take(h, Overflow[counter + 1], e)
    BY <1>1, <2>1, <2>2, <2>3, <2>4, <2>5, TakePreserves
  <2>6. CASE Deny(h)
    BY <1>1, <2>3, <2>4, <2>6, DenyPreserves
  <2> QED
    BY <1>6, <2>5, <2>6
<1>7. CASE PickRefused(h, t)
  <2>1. Deny(h) /\ counter' = counter
    BY <1>7 DEF PickRefused
  <2>2. counter' \in counter..Len(Overflow) /\ PoolWithinCap'
    BY <2>1, SameCounter
  <2> QED
    BY <1>1, <2>1, <2>2, DenyPreserves
<1> QED
  BY <1>4, <1>5, <1>6, <1>7 DEF AcquireAny, PickNew, PickCollides, e

\* renew preserves the invariant, also when it revives an expired lease.
LEMMA RenewPreserves ==
    ASSUME IInv, NEW h \in Holder, NEW ttl \in Ttl, NEW t \in Stamp(h), Renew(h, ttl, t)
    PROVE  IInv'
<1> DEFINE r == told[h].res
<1>1. h \in DOMAIN told /\ Call(h, t) /\ counter' = counter
  BY DEF Renew
<1>2. r \in Resource /\ t \in Nat /\ t + ttl \in Expiry
  BY <1>1, StampType, LeaseAssumption DEF IInv, TypeOK, Expiry
<1>3. counter' \in counter..Len(Overflow) /\ PoolWithinCap'
  BY <1>1, SameCounter
<1>4. h \in PoolHolder => \A s \in DOMAIN lease : HoldsAt(h, s, t) => s = r
  BY <1>1, HeldIsTold DEF IInv
<1>5. CASE r \in DOMAIN lease /\ lease[r].holder = h
  <2>1. Takable(h, r, t) /\ Take(h, r, t + ttl)
    BY <1>5 DEF Renew, Takable, Take
  <2>2. h \in PoolHolder => r \in PoolNames(h, counter')
    BY <1>1, <1>5 DEF IInv, InOwnPool
  <2> HIDE DEF r
  <2> QED
    BY <1>1, <1>2, <1>3, <1>4, <2>1, <2>2, TakePreserves
<1>6. CASE ~(r \in DOMAIN lease /\ lease[r].holder = h)
  <2>1. Deny(h)
    BY <1>6 DEF Renew
  <2> QED
    BY <1>1, <1>3, <2>1, DenyPreserves
<1> QED
  BY <1>5, <1>6

\* A call that was not run, and whose caller does not know, changes no lease.
LEMMA NotRunPreserves ==
    ASSUME IInv, NEW h \in Holder, NEW t \in Stamp(h), NotRun(h, t)
    PROVE  IInv'
<1>1. Call(h, t) /\ Deny(h) /\ counter' = counter
  BY DEF NotRun
<1> QED
  BY <1>1, SameCounter, DenyPreserves

\* release preserves the invariant, whatever name is given back.
LEMMA ReleasePreserves ==
    ASSUME IInv, NEW h \in Holder, NEW r \in Resource, Release(h, r)
    PROVE  IInv'
<1>1. /\ UNCHANGED <<counter, seen, now>>
      /\ told' = IF h \in DOMAIN told /\ told[h].res = r THEN Without(told, h) ELSE told
      /\ lease' = IF r \in DOMAIN lease /\ lease[r].holder = h
                    THEN Without(lease, r) ELSE lease
  BY DEF Release
<1>2. /\ DOMAIN told' = {g \in DOMAIN told : ~(g = h /\ told[g].res = r)}
      /\ \A g \in DOMAIN told' : told'[g] = told[g]
  <2>1. CASE h \in DOMAIN told /\ told[h].res = r
    BY <1>1, <2>1 DEF Without
  <2>2. CASE ~(h \in DOMAIN told /\ told[h].res = r)
    BY <1>1, <2>2
  <2> QED
    BY <2>1, <2>2
<1>3. /\ DOMAIN lease' = {s \in DOMAIN lease : ~(s = r /\ lease[s].holder = h)}
      /\ \A s \in DOMAIN lease' : lease'[s] = lease[s]
  <2>1. CASE r \in DOMAIN lease /\ lease[r].holder = h
    BY <1>1, <2>1 DEF Without
  <2>2. CASE ~(r \in DOMAIN lease /\ lease[r].holder = h)
    BY <1>1, <2>2
  <2> QED
    BY <2>1, <2>2
<1>4. TypeOK'
  <2>1. IsBook(told, Holder, ToldRec) /\ IsBook(lease, Resource, LeaseRec)
    BY TypeIsBooks DEF IInv
  <2>2. IsBook(told', Holder, ToldRec) /\ IsBook(lease', Resource, LeaseRec)
    BY <1>1, <2>1, WithoutIsBook
  <2> QED
    BY <1>1, <2>2 DEF IInv, TypeOK, IsBook, ToldRec, LeaseRec
<1>5. BeliefBacked'
  <2> SUFFICES ASSUME NEW g \in Holder, Believes(g)'
               PROVE  /\ told'[g].res \in DOMAIN lease'
                      /\ lease'[told'[g].res] = [holder |-> g, until |-> told'[g].until]
    BY DEF BeliefBacked
  <2>1. g \in DOMAIN told /\ ~(g = h /\ told[g].res = r) /\ told'[g] = told[g] /\ now' = now
    BY <1>1, <1>2 DEF Believes
  <2>2. Believes(g)
    BY <2>1 DEF Believes, ExpiredAt
  <2>3. /\ told[g].res \in DOMAIN lease
        /\ lease[told[g].res] = [holder |-> g, until |-> told[g].until]
    BY <2>2 DEF IInv, BeliefBacked
  <2>4. ~(told[g].res = r /\ lease[told[g].res].holder = h)
    BY <2>1, <2>3
  <2> QED
    BY <1>3, <2>1, <2>3, <2>4
<1>6. HeldAlone'
  <2> SUFFICES ASSUME NEW g \in PoolHolder
               PROVE  \A s \in DOMAIN lease' : HoldsAt(g, s, seen[g])' =>
                         /\ g \in DOMAIN told' => told'[g].res = s
                         /\ \A u \in DOMAIN lease' : HoldsAt(g, u, seen[g])' => u = s
    BY DEF HeldAlone
  <2>1. \A s \in DOMAIN lease' : HoldsAt(g, s, seen[g])' => s \in DOMAIN lease /\ HoldsAt(g, s, seen[g])
    BY <1>1, <1>3 DEF HoldsAt, LeasedAt, ExpiredAt
  <2>2. g \in DOMAIN told' => g \in DOMAIN told /\ told'[g] = told[g]
    BY <1>2
  <2> QED
    BY <2>1, <2>2 DEF IInv, HeldAlone
<1>7. InOwnPool'
  <2>1. counter \in Nat /\ counter' = counter
    BY <1>1, LeaseAssumption DEF IInv, TypeOK
  <2> QED
    BY <1>3, <2>1, FewerKeepPool DEF IInv
<1>8. PoolWithinCap'
  BY <1>1, SameCounter
<1> QED
  BY <1>4, <1>5, <1>6, <1>7, <1>8 DEF IInv

\* list's eviction takes nothing a caller counts on.
LEMMA ListPreserves ==
    ASSUME IInv, NEW h \in Holder, NEW t \in Stamp(h), List(h, t)
    PROVE  IInv'
<1>1. t \in Nat /\ seen[h] \in Nat /\ seen[h] <= t /\ t <= now /\ now \in Nat
  BY StampType DEF IInv, TypeOK
<1>2. /\ UNCHANGED <<counter, told, now>>
      /\ seen' = [seen EXCEPT ![h] = t]
      /\ DOMAIN lease' = {r \in DOMAIN lease : ~ExpiredAt(lease[r].until, t)}
      /\ \A s \in DOMAIN lease' : lease'[s] = lease[s]
  BY DEF List, Call, LeasedAt
<1>3. TypeOK'
  <2>1. lease' \in [DOMAIN lease' -> LeaseRec] /\ DOMAIN lease' \subseteq Resource
    BY <1>2 DEF List, IInv, TypeOK, LeaseRec
  <2>2. seen' \in [Holder -> Nat] /\ \A g \in Holder : seen'[g] <= now'
    BY <1>1, <1>2 DEF IInv, TypeOK
  <2> QED
    BY <1>2, <2>1, <2>2 DEF IInv, TypeOK, LeaseRec
<1>4. BeliefBacked'
  <2> SUFFICES ASSUME NEW g \in Holder, Believes(g)
               PROVE  /\ told[g].res \in DOMAIN lease'
                      /\ lease'[told[g].res] = [holder |-> g, until |-> told[g].until]
    BY <1>2 DEF BeliefBacked, Believes, ExpiredAt
  <2>1. /\ told[g].res \in DOMAIN lease
        /\ lease[told[g].res] = [holder |-> g, until |-> told[g].until]
    BY DEF IInv, BeliefBacked
  <2>2. ~ExpiredAt(told[g].until, t)
    <3>1. told[g].until \in Expiry
      BY DEF Believes, IInv, TypeOK
    <3> QED
      BY <1>1, <3>1, ExpiryIsMonotone DEF Believes
  <2> QED
    BY <1>2, <2>1, <2>2
<1>5. HeldAlone'
  <2> SUFFICES ASSUME NEW g \in PoolHolder
               PROVE  \A s \in DOMAIN lease' : HoldsAt(g, s, seen[g])' =>
                         /\ g \in DOMAIN told => told[g].res = s
                         /\ \A u \in DOMAIN lease' : HoldsAt(g, u, seen[g])' => u = s
    BY <1>2 DEF HeldAlone
  <2>1. \A s \in DOMAIN lease' : HoldsAt(g, s, seen[g])' => s \in DOMAIN lease /\ HoldsAt(g, s, seen[g])
    <3> SUFFICES ASSUME NEW s \in DOMAIN lease', HoldsAt(g, s, seen[g])'
                 PROVE  s \in DOMAIN lease /\ HoldsAt(g, s, seen[g])
      OBVIOUS
    <3>1. s \in DOMAIN lease /\ lease'[s] = lease[s] /\ g \in Holder
      BY <1>2, LeaseAssumption
    <3>2. HoldsAt(g, s, seen'[g])
      BY <3>1 DEF HoldsAt, LeasedAt, ExpiredAt
    <3>3. /\ seen[g] \in Nat /\ seen'[g] \in Nat /\ seen[g] <= seen'[g]
          /\ lease[s].until \in Expiry
      BY <1>1, <1>2, <3>1 DEF IInv, TypeOK
    <3> QED
      BY <3>1, <3>2, <3>3, ExpiryIsMonotone DEF HoldsAt, LeasedAt
  <2> QED
    BY <2>1 DEF IInv, HeldAlone
<1>6. InOwnPool'
  <2>1. counter \in Nat /\ counter' = counter
    BY <1>2, LeaseAssumption DEF IInv, TypeOK
  <2> QED
    BY <1>2, <2>1, FewerKeepPool DEF IInv
<1>7. PoolWithinCap'
  BY <1>2, SameCounter
<1> QED
  BY <1>3, <1>4, <1>5, <1>6, <1>7 DEF IInv

\* Time only ends beliefs.
LEMMA TickPreserves ==
    ASSUME IInv, Tick
    PROVE  IInv'
<1>1. now \in Nat /\ now' = now + 1 /\ UNCHANGED <<lease, counter, told, seen>>
  BY DEF Tick, IInv, TypeOK
<1>2. TypeOK'
  BY <1>1 DEF IInv, TypeOK
<1>3. \A g \in Holder : Believes(g)' => Believes(g)
  <2> SUFFICES ASSUME NEW g \in DOMAIN told, ~ExpiredAt(told[g].until, now + 1)
               PROVE  ~ExpiredAt(told[g].until, now)
    BY <1>1 DEF Believes, ExpiredAt
  <2>1. told[g].until \in Expiry
    BY DEF IInv, TypeOK
  <2> QED
    BY <1>1, <2>1, ExpiryIsMonotone
<1>4. BeliefBacked'
  BY <1>1, <1>3 DEF IInv, BeliefBacked
<1>5. HeldAlone' /\ InOwnPool'
  BY <1>1 DEF IInv, HeldAlone, InOwnPool, HoldsAt, LeasedAt, ExpiredAt, PoolNames, Elastic
<1>6. PoolWithinCap'
  BY <1>1, SameCounter
<1> QED
  BY <1>2, <1>4, <1>5, <1>6 DEF IInv

-----------------------------------------------------------------------------
(* The theorems.                                                           *)

\* The inductive invariant.
THEOREM Invariant == Spec => []IInv
<1>1. Init => IInv
  <2> SUFFICES ASSUME Init PROVE IInv
    OBVIOUS
  <2>1. /\ lease = <<>> /\ counter = 0 /\ told = <<>>
        /\ seen = [h \in Holder |-> 0] /\ now = 0
    BY DEF Init
  <2>2. DOMAIN lease = {} /\ DOMAIN told = {}
    BY <2>1, EmptyIsBook
  <2>3. TypeOK
    <3>1. IsBook(lease, Resource, LeaseRec) /\ IsBook(told, Holder, ToldRec)
      BY <2>1, EmptyIsBook
    <3>2. 0 \in 0..Len(Overflow)
      BY LeaseAssumption, LenProperties
    <3> QED
      BY <2>1, <3>1, <3>2, TypeIsBooks
  <2> QED
    BY <2>1, <2>2, <2>3 DEF IInv, BeliefBacked, Believes, HeldAlone, InOwnPool,
       PoolWithinCap
<1>2. IInv /\ [Next]_vars => IInv'
  <2> SUFFICES ASSUME IInv, [Next]_vars PROVE IInv'
    OBVIOUS
  <2>1. CASE UNCHANGED vars
    BY <2>1 DEF vars, IInv, TypeOK, BeliefBacked, Believes, HeldAlone, InOwnPool,
       PoolWithinCap, HoldsAt, LeasedAt, ExpiredAt, PoolNames, Elastic
  <2>2. ASSUME NEW h \in Holder \ PoolHolder, NEW ttl \in Ttl \cup {NoExpiry},
               NEW t \in Stamp(h), Acquire(h, ttl, t)
        PROVE  IInv'
    BY <2>2, AcquirePreserves
  <2>3. ASSUME NEW h \in PoolHolder, NEW ttl \in Ttl \cup {NoExpiry},
               NEW t \in Stamp(h), AcquireAny(h, ttl, t)
        PROVE  IInv'
    BY <2>3, AcquireAnyPreserves
  <2>4. ASSUME NEW h \in Holder, NEW ttl \in Ttl, NEW t \in Stamp(h), Renew(h, ttl, t)
        PROVE  IInv'
    BY <2>4, RenewPreserves
  <2>5. ASSUME NEW h \in Holder, NEW r \in Resource, Release(h, r) PROVE IInv'
    BY <2>5, ReleasePreserves
  <2>6. ASSUME NEW h \in Holder, NEW t \in Stamp(h), List(h, t) PROVE IInv'
    BY <2>6, ListPreserves
  <2>7. CASE Tick
    BY <2>7, TickPreserves
  <2>8. ASSUME NEW h \in Holder, NEW t \in Stamp(h), NotRun(h, t) PROVE IInv'
    BY <2>8, NotRunPreserves
  <2> QED
    BY <2>1, <2>2, <2>3, <2>4, <2>5, <2>6, <2>7, <2>8 DEF Next
<1> QED
  BY <1>1, <1>2, PTL DEF Spec

\* The store and what the callers were told stay well formed.
THEOREM TypeCorrect == Spec => []TypeOK
  BY Invariant, PTL DEF IInv

\* The lease a caller counts on is in the store, under its name and with the
\* expiry it was told (LeaseStore, every operation).
THEOREM BeliefsAreBacked == Spec => []BeliefBacked
  BY Invariant, PTL DEF IInv

\* No two callers count on one resource at a time (acquire, acquire_any, renew).
THEOREM ResourcesAreExclusive == Spec => []Exclusive
<1>1. IInv => Exclusive
  <2> SUFFICES ASSUME BeliefBacked, NEW h \in Holder, NEW g \in Holder,
                      Believes(h), Believes(g), told[h].res = told[g].res
               PROVE  h = g
    BY DEF IInv, Exclusive
  <2>1. /\ lease[told[h].res] = [holder |-> h, until |-> told[h].until]
        /\ lease[told[g].res] = [holder |-> g, until |-> told[g].until]
    BY DEF BeliefBacked
  <2>2. lease[told[h].res].holder = h /\ lease[told[g].res].holder = g
    BY <2>1
  <2> QED
    BY <2>2
<1> QED
  BY <1>1, Invariant, PTL

\* acquire_any gives a caller one name of its pool at a time (acquire_any, renew).
THEOREM OneNameAtATime == Spec => []OneNamePerPoolCaller
<1>1. IInv => OneNamePerPoolCaller
  <2> SUFFICES ASSUME IInv, NEW h \in PoolHolder, NEW r \in DOMAIN lease,
                      NEW s \in DOMAIN lease, HoldsAt(h, r, now), HoldsAt(h, s, now)
               PROVE  r = s
    BY DEF OneNamePerPoolCaller
  <2>1. /\ seen[h] \in Nat /\ now \in Nat /\ seen[h] <= now
        /\ lease[r].until \in Expiry /\ lease[s].until \in Expiry
    BY LeaseAssumption DEF IInv, TypeOK
  <2>2. HoldsAt(h, r, seen[h]) /\ HoldsAt(h, s, seen[h])
    BY <2>1, ExpiryIsMonotone DEF HoldsAt, LeasedAt
  <2> QED
    BY <2>2 DEF IInv, HeldAlone
<1> QED
  BY <1>1, Invariant, PTL

\* The elastic callers never grow the pool past the largest cap (acquire_any).
THEOREM CapIsKept == Spec => []PoolWithinCap
  BY Invariant, PTL DEF IInv

\* A name is synthesized only when the whole pool is leased (acquire_any).
THEOREM ReuseBeforeGrowth == Spec => GrowsOnlyWhenFull
<1> DEFINE Full == /\ \A i \in 1..Len(Candidates) : Candidates[i] \in DOMAIN lease
                   /\ \A i \in 1..counter : Overflow[i] \in DOMAIN lease
<1>1. IInv /\ [Next]_vars => [counter' > counter => Full]_vars
  <2> SUFFICES ASSUME IInv, Next, counter' > counter PROVE Full
    OBVIOUS
  <2>1. counter \in Nat
    BY LeaseAssumption, LenProperties DEF IInv, TypeOK
  <2>2. counter' # counter
    BY <2>1
  <2>3. PICK h \in PoolHolder : \E ttl \in Ttl \cup {NoExpiry} :
           \E t \in Stamp(h) : AcquireAny(h, ttl, t)
    BY <2>2 DEF Next, Acquire, Renew, Release, NotRun, List, Tick
  <2>4. PICK ttl \in Ttl \cup {NoExpiry}, t \in Stamp(h) : AcquireAny(h, ttl, t)
    BY <2>3
  <2>5. Exhausted(h, t) /\ Elastic(h)
    BY <2>2, <2>4 DEF AcquireAny, PickAgain, PickFirst, PickNew, PickCollides,
       PickRefused, MayGrow
  <2>6. \A r \in PoolNames(h, counter) : r \in DOMAIN lease
    BY <2>5, ExhaustedMeans DEF IInv
  <2> QED
    BY <2>5, <2>6 DEF PoolNames
<1> QED
  BY <1>1, Invariant, PTL DEF Spec, GrowsOnlyWhenFull
=============================================================================
