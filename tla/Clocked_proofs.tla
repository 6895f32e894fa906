---------------------------- MODULE Clocked_proofs ----------------------------
(***************************************************************************)
(* The two records whose state depends on the clock of the calls alone:    *)
(* rate limits hold for every number of agents and metrics, every setting, *)
(* every cost and every lag of the clock, and barriers for every required  *)
(* count, timeout and lag.                                                 *)
(***************************************************************************)
EXTENDS RateLimit, Barrier, TLAPS

-----------------------------------------------------------------------------
(* Rate limits: the inductive invariant.                                   *)

Record == [pair : Pairs, set : Limits, tokens : Nat, last : Nat]

Cap(set) == set.burst * set.per

\* A bucket is no fuller than full, and at time t was last refilled in the past.
Fits(rl, t) == rl.tokens <= Cap(rl.set) /\ rl.last <= t

\* What was spent since the window opened and what is left came from the full
\* bucket and from what flowed in until the last refill.  The first call of the
\* window may be stamped before it opened, so the inflow counts from there.
Covered(rl, w) ==
    \/ w.spent = 0
    \/ /\ w.from <= rl.last + MaxLag
       /\ w.spent * rl.set.per + rl.tokens
              <= Cap(rl.set) + (rl.last + MaxLag - w.from) * rl.set.limit

Window == [pair : Pairs \cup {<<>>}, from : Nat, spent : Nat]

IInv ==
    /\ now \in Nat
    /\ window \in Window /\ window.from <= now
    /\ DOMAIN store \subseteq (0..now) \X {SlugOf[a] : a \in Agent}
    /\ store \in [DOMAIN store -> Record]
    /\ \A id \in DOMAIN store : Fits(store[id], now)
    /\ \A id, other \in DOMAIN store : store[id].pair = store[other].pair => id = other
    /\ \A id \in DOMAIN store : store[id].pair = window.pair => Covered(store[id], window)

-----------------------------------------------------------------------------
(* Arithmetic.                                                             *)

\* The settings are positive numbers.
LEMMA LimitsAreNats ==
    ASSUME NEW set \in Limits
    PROVE  /\ set.limit \in Nat \ {0} /\ set.per \in Nat \ {0} /\ set.burst \in Nat \ {0}
           /\ Cap(set) \in Nat
<1>1. set \in [limit : Nat \ {0}, per : Nat \ {0}, burst : Nat \ {0}]
  BY RateLimitAssumption
<1>2. set.limit \in Nat \ {0} /\ set.per \in Nat \ {0} /\ set.burst \in Nat \ {0}
  BY <1>1
<1>3. \A a, b \in Nat : a * b \in Nat
  OBVIOUS
<1> QED
  BY <1>2, <1>3 DEF Cap

\* The lesser of two numbers is one of them, and no more than either.
LEMMA MinOfTwo ==
    ASSUME NEW a \in Nat, NEW b \in Nat
    PROVE  Min({a, b}) \in {a, b} /\ Min({a, b}) <= a /\ Min({a, b}) <= b
<1>1. \E x \in {a, b} : \A y \in {a, b} : x <= y
  <2>1. CASE a <= b
    BY <2>1
  <2>2. CASE b <= a
    BY <2>2
  <2> QED
    BY <2>1, <2>2
<1>2. Min({a, b}) \in {a, b} /\ \A y \in {a, b} : Min({a, b}) <= y
  BY <1>1 DEF Min
<1> QED
  BY <1>2

\* What flows in until x and then until y is what flows in until y.
LEMMA InflowAtTheTop ==
    ASSUME NEW x \in Nat, NEW y \in Nat, NEW lag \in Nat, NEW from \in Nat, NEW l \in Nat
    PROVE  (x + lag - from) * l + (y - x) * l = (y + lag - from) * l
<1>1. \A a, b \in Int : a * l + b * l = (a + b) * l
  OBVIOUS
<1>2. x + lag - from \in Int /\ y - x \in Int
      /\ (x + lag - from) + (y - x) = y + lag - from
  OBVIOUS
<1> QED
  BY <1>1, <1>2

\* A number of tokens in a stretch of time is a number.
LEMMA Products ==
    ASSUME NEW a \in Nat, NEW b \in Nat
    PROVE  a * b \in Nat
  OBVIOUS

-----------------------------------------------------------------------------
(* The refill.                                                             *)

\* A refill keeps whose bucket it is and its setting, never turns its clock
\* back, adds no more than what flowed in, and stops at the top.
LEMMA RefillIsBounded ==
    ASSUME NEW rl \in Record, NEW t \in Nat, rl.tokens <= Cap(rl.set),
           NEW new, new = Refilled(rl, t)
    PROVE  /\ new \in Record
           /\ new.pair = rl.pair /\ new.set = rl.set
           /\ new.last \in {rl.last, t} /\ rl.last <= new.last /\ t <= new.last
           /\ new.tokens <= rl.tokens + (new.last - rl.last) * rl.set.limit
           /\ new.tokens <= Cap(rl.set)
<1> DEFINE in == (t - rl.last) * rl.set.limit
           cap == rl.set.burst * rl.set.per
<1>1. rl.tokens \in Nat /\ rl.last \in Nat /\ rl.set \in Limits /\ rl.pair \in Pairs
  BY DEF Record
<1>2. rl.set.limit \in Nat /\ cap \in Nat /\ Cap(rl.set) = cap
  BY <1>1, LimitsAreNats DEF Cap
<1>3. CASE t <= rl.last
  <2>1. new = rl
    BY <1>3 DEF Refilled
  <2>2. (rl.last - rl.last) * rl.set.limit = 0
    BY <1>1, <1>2
  <2> QED
    BY <1>1, <1>3, <2>1, <2>2
<1>4. CASE ~(t <= rl.last)
  <2>1. t - rl.last \in Nat /\ rl.last <= t
    BY <1>1, <1>4
  <2>2. in \in Nat
    BY <1>2, <2>1, Products
  <2> DEFINE least == Min({rl.tokens + in, cap})
  <2>3. rl.tokens + in \in Nat
    BY <1>1, <2>2
  <2> HIDE DEF in, cap
  <2>4. least \in {rl.tokens + in, cap} /\ least <= rl.tokens + in /\ least <= cap
    BY <1>2, <2>3, MinOfTwo
  <2>5. least \in Nat
    BY <1>2, <2>3, <2>4
  <2>6. new = [rl EXCEPT !.tokens = least, !.last = t]
    BY <1>4 DEF Refilled, in, cap
  <2> HIDE DEF least
  <2>7. new = [pair |-> rl.pair, set |-> rl.set, tokens |-> least, last |-> t]
    BY <2>6 DEF Record
  <2>8. new \in Record
    BY <1>1, <2>5, <2>7 DEF Record
  <2>9. /\ new.pair = rl.pair /\ new.set = rl.set /\ new.last = t
        /\ new.tokens <= rl.tokens + (new.last - rl.last) * rl.set.limit
        /\ new.tokens <= Cap(rl.set)
    BY <1>2, <2>4, <2>7 DEF in
  <2> QED
    BY <2>1, <2>8, <2>9
<1> QED
  BY <1>3, <1>4

\* Stamps are times no later than now and no more than the lag behind it.
LEMMA StampsAreTimes ==
    ASSUME now \in Nat, NEW t \in Stamp
    PROVE  t \in Nat /\ t <= now /\ now <= t + MaxLag /\ t \in 0..now
  BY RateLimitAssumption, ClockAssumption DEF Stamp

\* A covered bucket is covered after a refill, and by what it then holds.
LEMMA RefillCovers ==
    ASSUME NEW rl \in Record, NEW t \in Nat, rl.tokens <= Cap(rl.set),
           NEW w \in Window, Covered(rl, w),
           NEW new, new = Refilled(rl, t)
    PROVE  Covered(new, w)
<1>1. /\ new \in Record /\ new.set = rl.set /\ rl.last <= new.last
      /\ new.tokens <= rl.tokens + (new.last - rl.last) * rl.set.limit
  BY RefillIsBounded
<1>2. CASE w.spent = 0
  BY <1>2 DEF Covered
<1>3. CASE w.spent # 0
  <2> DEFINE l == rl.set.limit
             spent == w.spent * rl.set.per
             before == (rl.last + MaxLag - w.from) * l
             added == (new.last - rl.last) * l
             after == (new.last + MaxLag - w.from) * l
             cap == Cap(rl.set)
  <2>1. /\ rl.last \in Nat /\ new.last \in Nat /\ rl.tokens \in Nat /\ new.tokens \in Nat
        /\ rl.set \in Limits /\ w.from \in Nat /\ w.spent \in Nat /\ MaxLag \in Nat
    BY <1>1, RateLimitAssumption, ClockAssumption DEF Record, Window
  <2>2. l \in Nat /\ cap \in Nat /\ spent \in Nat
    BY <2>1, LimitsAreNats, Products
  <2>3. before \in Int /\ added \in Int /\ after \in Int
    BY <2>1, <2>2
  <2>4. before + added = after
    BY <2>1, <2>2, InflowAtTheTop
  <2>5. w.from <= rl.last + MaxLag /\ spent + rl.tokens <= cap + before
    BY <1>3 DEF Covered
  <2>6. new.tokens <= rl.tokens + added
    BY <1>1
  <2> HIDE DEF l, spent, before, added, after, cap
  <2>7. spent + new.tokens <= cap + after
    BY <2>1, <2>2, <2>3, <2>4, <2>5, <2>6
  <2>8. w.from <= new.last + MaxLag
    BY <1>1, <2>1, <2>5
  <2>9. Cap(new.set) = cap /\ new.set.per = rl.set.per /\ new.set.limit = l
    BY <1>1 DEF cap, l
  <2> QED
    BY <1>1, <2>7, <2>8 DEF Covered, spent, after, cap, l
<1> QED
  BY <1>2, <1>3

-----------------------------------------------------------------------------
(* The steps.                                                              *)

\* A window in which nothing was spent covers any bucket.
LEMMA EmptyWindowCovers ==
    ASSUME NEW rl, NEW w, w.spent = 0
    PROVE  Covered(rl, w)
  BY DEF Covered

\* Putting one record keeps the invariant when the record is sound, the only
\* one of its pair, and covered by what the window then is.
LEMMA PutKeepsInv ==
    ASSUME IInv, now' = now,
           NEW id \in (0..now) \X {SlugOf[a] : a \in Agent},
           NEW rl \in Record, Fits(rl, now), Put(id, rl),
           \A other \in DOMAIN store : store[other].pair = rl.pair => other = id,
           NEW w \in Window, window' = w, w.from <= now,
           \A other \in DOMAIN store \ {id} :
               store[other].pair = w.pair => Covered(store[other], w),
           rl.pair = w.pair => Covered(rl, w)
    PROVE  IInv'
<1> DEFINE ids == DOMAIN store \cup {id}
<1>1. store' = [x \in ids |-> IF x = id THEN rl ELSE store[x]]
  BY DEF Put
<1>2. DOMAIN store' = ids /\ store'[id] = rl
      /\ \A x \in ids \ {id} : x \in DOMAIN store /\ store'[x] = store[x]
  BY <1>1
<1>3. DOMAIN store \subseteq (0..now) \X {SlugOf[a] : a \in Agent}
      /\ store \in [DOMAIN store -> Record]
      /\ (\A x \in DOMAIN store : Fits(store[x], now))
      /\ \A x, y \in DOMAIN store : store[x].pair = store[y].pair => x = y
  BY DEF IInv
<1> HIDE DEF ids
<1>4. ids \subseteq (0..now) \X {SlugOf[a] : a \in Agent}
  BY <1>3 DEF ids
<1>5. \A x \in ids : store'[x] \in Record /\ Fits(store'[x], now)
  BY <1>2, <1>3
<1>6. store' \in [ids -> Record]
  BY <1>1, <1>5
<1>7. \A x, y \in ids : store'[x].pair = store'[y].pair => x = y
  BY <1>2, <1>3
<1>8. \A x \in ids : store'[x].pair = w.pair => Covered(store'[x], w)
  BY <1>2
<1>9. now \in Nat
  BY DEF IInv
<1> QED
  BY <1>2, <1>4, <1>5, <1>6, <1>7, <1>8, <1>9 DEF IInv, Fits, Covered

\* A set leaves a full bucket, which no window covers until it is watched anew.
LEMMA SetKeepsInv ==
    ASSUME IInv, NEW pair \in Pairs, NEW set \in Limits, NEW t \in Stamp, Set(pair, set, t)
    PROVE  IInv'
<1> DEFINE rl == Full(pair, set, t)
           w == IF window.pair = pair THEN NoWindow ELSE window
<1>1. now \in Nat /\ t \in Nat /\ t <= now /\ t \in 0..now
  BY StampsAreTimes DEF IInv
<1>2. rl \in Record /\ rl.pair = pair /\ Fits(rl, now)
  BY <1>1, LimitsAreNats DEF Full, Record, Fits, Cap
<1>3. now' = now /\ window' = w
  BY DEF Set
<1>4. NoWindow \in Window /\ NoWindow.from = 0 /\ NoWindow.spent = 0
  BY DEF NoWindow, Window
<1>5. w \in Window /\ w.from <= now
  BY <1>1, <1>4 DEF IInv
<1>6. w.spent = 0 \/ (w = window /\ window.pair # pair)
  BY <1>4
<1>7. \A other \in DOMAIN store : store[other].pair = w.pair => Covered(store[other], w)
  BY <1>6, EmptyWindowCovers DEF IInv
<1>8. rl.pair = w.pair => Covered(rl, w)
  BY <1>2, <1>6, EmptyWindowCovers
<1> HIDE DEF rl, w
<1>9. CASE \E id \in IdsOf(pair) : Put(id, rl)
  <2>1. PICK id \in IdsOf(pair) : Put(id, rl)
    BY <1>9
  <2>2. id \in DOMAIN store /\ store[id].pair = pair
    BY <2>1 DEF IdsOf
  <2>3. id \in (0..now) \X {SlugOf[a] : a \in Agent}
        /\ \A other \in DOMAIN store : store[other].pair = rl.pair => other = id
    BY <1>2, <2>2 DEF IInv
  <2> QED
    BY <1>2, <1>3, <1>5, <1>7, <1>8, <2>1, <2>3, PutKeepsInv
<1>10. CASE IdsOf(pair) = {} /\ Put(IdOf(pair, t), rl)
  <2>1. IdOf(pair, t) \in (0..now) \X {SlugOf[a] : a \in Agent}
    BY <1>1 DEF IdOf, Pairs
  <2>2. \A other \in DOMAIN store : store[other].pair # rl.pair
    BY <1>2, <1>10 DEF IdsOf
  <2> QED
    BY <1>2, <1>3, <1>5, <1>7, <1>8, <1>10, <2>1, <2>2, PutKeepsInv
<1> QED
  BY <1>9, <1>10 DEF Set, rl

\* Tokens a bucket gives up cover what the window counts more.
LEMMA SpendingCovers ==
    ASSUME NEW rl \in Record, rl.tokens <= Cap(rl.set), NEW t \in Nat, NEW cost \in Nat,
           NEW w \in Window, w.from <= t + MaxLag, t <= rl.last,
           cost * rl.set.per <= rl.tokens, Covered(rl, w)
    PROVE  Covered([rl EXCEPT !.tokens = @ - cost * rl.set.per],
                   [w EXCEPT !.spent = @ + cost])
<1> DEFINE price == cost * rl.set.per
           spent == w.spent * rl.set.per
           in == (rl.last + MaxLag - w.from) * rl.set.limit
           new == [rl EXCEPT !.tokens = @ - price]
           v == [w EXCEPT !.spent = @ + cost]
<1>1. /\ rl.last \in Nat /\ rl.tokens \in Nat /\ rl.set \in Limits
      /\ w.from \in Nat /\ w.spent \in Nat /\ MaxLag \in Nat
  BY RateLimitAssumption, ClockAssumption DEF Record, Window
<1>2. rl.set.limit \in Nat /\ rl.set.per \in Nat /\ Cap(rl.set) \in Nat
  BY <1>1, LimitsAreNats
<1>3. rl.last + MaxLag - w.from \in Nat
  BY <1>1
<1>4. in \in Nat /\ price \in Nat /\ spent \in Nat
  BY <1>1, <1>2, <1>3, Products
<1>5. (w.spent + cost) * rl.set.per = spent + price
  <2>1. \A a, b, c \in Nat : (a + b) * c = a * c + b * c
    OBVIOUS
  <2> QED
    BY <1>1, <1>2, <2>1
<1>6. spent + rl.tokens <= Cap(rl.set) + in
  <2>1. CASE w.spent = 0
    <3>1. spent = 0
      BY <1>2, <2>1
    <3> HIDE DEF spent, in
    <3> QED
      BY <1>1, <1>2, <1>4, <3>1
  <2> QED
    BY <2>1 DEF Covered
<1>7. /\ new.last = rl.last /\ new.set = rl.set /\ new.tokens = rl.tokens - price
      /\ v.from = w.from /\ v.spent = w.spent + cost
  BY DEF Record, Window
<1> HIDE DEF in, price, spent, new, v
<1>8. (w.spent + cost) * rl.set.per + (rl.tokens - price) <= Cap(rl.set) + in
  BY <1>1, <1>2, <1>4, <1>5, <1>6
<1>9. w.from <= rl.last + MaxLag
  BY <1>1
<1>10. Covered(new, v)
  BY <1>7, <1>8, <1>9 DEF Covered, in
<1> QED
  BY <1>10 DEF new, v, price

\* A try_consume refills, and takes the cost only from what is there.
LEMMA ConsumeKeepsInv ==
    ASSUME IInv, NEW pair \in Pairs, NEW cost \in Costs, NEW t \in Stamp,
           Consume(pair, cost, t)
    PROVE  IInv'
<1>1. now \in Nat /\ t \in Nat /\ t <= now /\ now <= t + MaxLag /\ cost \in Nat
  BY StampsAreTimes, RateLimitAssumption, ClockAssumption DEF IInv
<1>2. PICK id \in IdsOf(pair) :
        LET rl == Refilled(store[id], t)
            price == cost * rl.set.per
            allowed == rl.tokens >= price
        IN
        /\ Put(id, IF allowed THEN [rl EXCEPT !.tokens = @ - price] ELSE rl)
        /\ window' = IF allowed /\ window.pair = pair
                       THEN [window EXCEPT !.spent = @ + cost] ELSE window
        /\ UNCHANGED now
  BY DEF Consume
<1> DEFINE old == store[id]
           rl == Refilled(old, t)
           price == cost * rl.set.per
           allowed == rl.tokens >= price
           new == IF allowed THEN [rl EXCEPT !.tokens = @ - price] ELSE rl
           w == IF allowed /\ window.pair = pair
                  THEN [window EXCEPT !.spent = @ + cost] ELSE window
<1>3. Put(id, new) /\ window' = w /\ now' = now
  BY <1>2
<1>4. id \in DOMAIN store /\ old.pair = pair /\ old \in Record /\ Fits(old, now)
      /\ id \in (0..now) \X {SlugOf[a] : a \in Agent}
  BY <1>2 DEF IdsOf, IInv
<1>5. window \in Window /\ window.from <= now
  BY DEF IInv
<1> HIDE DEF old
<1>6. /\ rl \in Record /\ rl.pair = pair /\ t <= rl.last /\ rl.last <= now
      /\ rl.tokens <= Cap(rl.set)
  <2>1. old.tokens <= Cap(old.set) /\ old.last <= now
    BY <1>4 DEF Fits
  <2>2. /\ rl \in Record /\ rl.pair = old.pair /\ rl.set = old.set
        /\ rl.last \in {old.last, t} /\ t <= rl.last /\ rl.tokens <= Cap(old.set)
    BY <1>1, <1>4, <2>1, RefillIsBounded
  <2> QED
    BY <1>1, <1>4, <2>1, <2>2
<1>7. window.pair = pair => Covered(rl, window)
  <2> HAVE window.pair = pair
  <2>1. Covered(old, window)
    BY <1>4 DEF IInv, old
  <2> QED
    BY <1>1, <1>4, <1>5, <2>1, RefillCovers DEF Fits
<1> HIDE DEF rl
<1>8. rl.tokens \in Nat /\ rl.set \in Limits /\ price \in Nat
  <2>1. rl.tokens \in Nat /\ rl.set \in Limits
    BY <1>6 DEF Record
  <2> QED
    BY <1>1, <2>1, LimitsAreNats, Products
<1>9. window.from <= t + MaxLag
  BY <1>1, <1>5, RateLimitAssumption, ClockAssumption DEF Window
<1>10. \A other \in DOMAIN store : store[other].pair = pair => other = id
  BY <1>4 DEF IInv, old
<1>11. \A other \in DOMAIN store : store[other].pair = window.pair => Covered(store[other], window)
  BY DEF IInv
<1>12. CASE allowed
  <2> HIDE DEF price
  <2>1. new = [rl EXCEPT !.tokens = @ - price]
    BY <1>12
  <2>2. rl.tokens - price \in Nat /\ rl.tokens - price <= rl.tokens
    BY <1>8, <1>12
  <2>3. new = [pair |-> rl.pair, set |-> rl.set, tokens |-> rl.tokens - price, last |-> rl.last]
    BY <1>6, <2>1 DEF Record
  <2> HIDE DEF new
  <2>4. new \in Record /\ new.pair = pair /\ new.set = rl.set /\ new.last = rl.last
        /\ new.tokens = rl.tokens - price
    BY <1>6, <2>2, <2>3 DEF Record
  <2>5. Fits(new, now)
    <3>1. Cap(rl.set) \in Nat
      BY <1>8, LimitsAreNats
    <3> QED
      BY <1>6, <1>8, <2>2, <2>4, <3>1 DEF Fits
  <2>6. CASE window.pair = pair
    <3>1. w = [window EXCEPT !.spent = @ + cost]
      BY <1>12, <2>6
    <3>2. w = [pair |-> window.pair, from |-> window.from, spent |-> window.spent + cost]
      BY <1>5, <3>1 DEF Window
    <3>3. w \in Window /\ w.from = window.from /\ w.pair = pair
      BY <1>1, <1>5, <2>6, <3>2 DEF Window
    <3>4. price = cost * rl.set.per /\ cost * rl.set.per <= rl.tokens
      BY <1>8, <1>12 DEF price
    <3>5. Covered(new, w)
      BY <1>1, <1>5, <1>6, <1>7, <1>9, <2>1, <2>6, <3>1, <3>4, SpendingCovers
    <3>6. \A other \in DOMAIN store \ {id} : store[other].pair # w.pair
      BY <1>10, <3>3
    <3> HIDE DEF w
    <3> QED
      BY <1>3, <1>4, <1>5, <1>10, <2>4, <2>5, <3>3, <3>5, <3>6, PutKeepsInv
  <2>7. CASE window.pair # pair
    <3>1. w = window
      BY <2>7
    <3> HIDE DEF w
    <3> QED
      BY <1>3, <1>4, <1>5, <1>10, <1>11, <2>4, <2>5, <2>7, <3>1, PutKeepsInv
  <2> QED
    BY <2>6, <2>7
<1>13. CASE ~allowed
  <2>1. new = rl /\ w = window
    BY <1>13
  <2>2. Fits(rl, now)
    BY <1>6 DEF Fits
  <2> HIDE DEF new, w
  <2> QED
    BY <1>3, <1>4, <1>5, <1>6, <1>7, <1>10, <1>11, <2>1, <2>2, PutKeepsInv
<1> QED
  BY <1>12, <1>13

\* A status refills every bucket.
LEMMA StatusKeepsInv ==
    ASSUME IInv, NEW t \in Stamp, Status(t)
    PROVE  IInv'
<1>1. now \in Nat /\ t \in Nat /\ t <= now
  BY StampsAreTimes DEF IInv
<1>2. now' = now /\ window' = window /\ store' = [id \in DOMAIN store |-> Refilled(store[id], t)]
  BY DEF Status
<1>3. DOMAIN store' = DOMAIN store /\ \A id \in DOMAIN store : store'[id] = Refilled(store[id], t)
  BY <1>2
<1>4. ASSUME NEW id \in DOMAIN store
      PROVE  /\ store'[id] \in Record /\ Fits(store'[id], now)
             /\ store'[id].pair = store[id].pair
             /\ store'[id].pair = window.pair => Covered(store'[id], window)
  <2>1. store[id] \in Record /\ Fits(store[id], now) /\ window \in Window
    BY DEF IInv
  <2>2. store[id].pair = window.pair => Covered(store[id], window)
    BY DEF IInv
  <2> DEFINE old == store[id]
             new == store'[id]
  <2>3. new = Refilled(old, t)
    BY <1>3
  <2>4. old.tokens <= Cap(old.set) /\ old.last <= now
    BY <2>1 DEF Fits
  <2> HIDE DEF old, new
  <2>5. old \in Record /\ (old.pair = window.pair => Covered(old, window))
    BY <2>1, <2>2 DEF old
  <2>6. /\ new \in Record /\ new.pair = old.pair /\ new.set = old.set
        /\ new.last \in {old.last, t} /\ new.tokens <= Cap(old.set)
    BY <1>1, <2>3, <2>4, <2>5, RefillIsBounded
  <2>7. Fits(new, now)
    BY <1>1, <2>4, <2>6 DEF Fits
  <2>8. new.pair = window.pair => Covered(new, window)
    BY <1>1, <2>1, <2>3, <2>4, <2>5, <2>6, RefillCovers
  <2> QED
    BY <2>6, <2>7, <2>8 DEF old, new
<1>5. store' \in [DOMAIN store -> Record]
  BY <1>2, <1>3, <1>4
<1>6. \A x, y \in DOMAIN store : store'[x].pair = store'[y].pair => x = y
  BY <1>4 DEF IInv
<1>7. /\ window \in Window /\ window.from <= now
      /\ DOMAIN store \subseteq (0..now) \X {SlugOf[a] : a \in Agent}
  BY DEF IInv
<1> QED
  BY <1>1, <1>2, <1>3, <1>4, <1>5, <1>6, <1>7 DEF IInv, Fits, Covered

\* A remove takes a record away and ends the window on its pair.
LEMMA RemoveKeepsInv ==
    ASSUME IInv, NEW id \in DOMAIN store, Remove(id)
    PROVE  IInv'
<1> DEFINE ids == DOMAIN store \ {id}
<1>1. /\ store' = [x \in ids |-> store[x]] /\ now' = now
      /\ window' \in {window, NoWindow}
  BY DEF Remove
<1>2. DOMAIN store' = ids /\ \A x \in ids : x \in DOMAIN store /\ store'[x] = store[x]
  BY <1>1
<1>3. /\ now \in Nat /\ window \in Window /\ window.from <= now
      /\ DOMAIN store \subseteq (0..now) \X {SlugOf[a] : a \in Agent}
      /\ store \in [DOMAIN store -> Record]
      /\ (\A x \in DOMAIN store : Fits(store[x], now))
      /\ (\A x, y \in DOMAIN store : store[x].pair = store[y].pair => x = y)
      /\ (\A x \in DOMAIN store : store[x].pair = window.pair => Covered(store[x], window))
  BY DEF IInv
<1>4. NoWindow \in Window /\ NoWindow.from <= now /\ NoWindow.spent = 0
  BY <1>3 DEF NoWindow, Window
<1>5. window' \in Window /\ window'.from <= now
  BY <1>1, <1>3, <1>4
<1> HIDE DEF ids
<1>6. \A x \in ids : store'[x].pair = window'.pair => Covered(store'[x], window')
  <2>1. CASE window' = NoWindow
    BY <1>4, <2>1, EmptyWindowCovers
  <2>2. CASE window' = window
    BY <1>2, <1>3, <2>2
  <2> QED
    BY <1>1, <2>1, <2>2
<1>7. /\ ids \subseteq (0..now) \X {SlugOf[a] : a \in Agent}
      /\ store' \in [ids -> Record]
      /\ (\A x \in ids : Fits(store'[x], now))
      /\ (\A x, y \in ids : store'[x].pair = store'[y].pair => x = y)
  BY <1>1, <1>2, <1>3 DEF ids
<1> QED
  BY <1>1, <1>2, <1>3, <1>5, <1>6, <1>7 DEF IInv, Fits, Covered

\* Time passes: what was in the past still is.
LEMMA TickKeepsInv ==
    ASSUME IInv, Tick
    PROVE  IInv'
<1>1. now \in Nat /\ now' = now + 1 /\ store' = store /\ window' = window
  BY DEF IInv, Tick, Advance
<1>2. \A n \in Nat : n <= now => n <= now'
  BY <1>1
<1>3. window.from <= now' /\ (0..now) \subseteq (0..now')
  BY <1>1, <1>2 DEF IInv, Window
<1>4. \A id \in DOMAIN store : Fits(store[id], now')
  <2> TAKE id \in DOMAIN store
  <2>1. store[id].last \in Nat /\ Fits(store[id], now)
    BY DEF IInv, Record
  <2> QED
    BY <1>2, <2>1 DEF Fits
<1> QED
  BY <1>1, <1>3, <1>4 DEF IInv, Fits, Covered

\* A window opens with nothing spent.
LEMMA WatchKeepsInv ==
    ASSUME IInv, NEW pair \in Pairs, Watch(pair)
    PROVE  IInv'
<1>1. /\ now \in Nat /\ now' = now /\ store' = store
      /\ window' = [pair |-> pair, from |-> now, spent |-> 0]
  BY DEF IInv, Watch
<1>2. window' \in Window /\ window'.from <= now' /\ window'.spent = 0
  BY <1>1 DEF Window
<1>3. \A id \in DOMAIN store : Covered(store[id], window')
  BY <1>2, EmptyWindowCovers
<1> QED
  BY <1>1, <1>2, <1>3 DEF IInv, Fits, Covered

-----------------------------------------------------------------------------
(* The invariant and what it implies.                                      *)

\* Every step keeps the invariant.
LEMMA InvInductive ==
    ASSUME IInv, [Next]_vars
    PROVE  IInv'
<1>1. ASSUME NEW pair \in Pairs, NEW set \in Limits, NEW t \in Stamp, Set(pair, set, t)
      PROVE  IInv'
  BY <1>1, SetKeepsInv
<1>2. ASSUME NEW id \in DOMAIN store, Remove(id)
      PROVE  IInv'
  BY <1>2, RemoveKeepsInv
<1>3. ASSUME NEW pair \in Pairs, NEW cost \in Costs, NEW t \in Stamp, Consume(pair, cost, t)
      PROVE  IInv'
  BY <1>3, ConsumeKeepsInv
<1>4. ASSUME NEW t \in Stamp, Status(t)
      PROVE  IInv'
  BY <1>4, StatusKeepsInv
<1>5. ASSUME NEW pair \in Pairs, Watch(pair)
      PROVE  IInv'
  BY <1>5, WatchKeepsInv
<1>6. CASE Tick
  BY <1>6, TickKeepsInv
<1>7. CASE UNCHANGED vars
  BY <1>7 DEF vars, IInv, Fits, Covered
<1> QED
  BY <1>1, <1>2, <1>3, <1>4, <1>5, <1>6, <1>7 DEF Next

\* There is no record and no window to begin with.
LEMMA InvInitially == Init => IInv
<1> SUFFICES ASSUME Init PROVE IInv
  OBVIOUS
<1>1. store = <<>> /\ window = NoWindow /\ now = 0
  BY DEF Init
<1>2. DOMAIN store = {}
  BY <1>1
<1>3. store \in [DOMAIN store -> Record]
  BY <1>1, <1>2
<1>4. window \in Window /\ window.from <= now
  BY <1>1 DEF NoWindow, Window
<1> QED
  BY <1>1, <1>2, <1>3, <1>4 DEF IInv

\* The inductive invariant holds throughout.
LEMMA InvAlways == Spec => []IInv
<1>1. Init => IInv
  BY InvInitially
<1>2. IInv /\ [Next]_vars => IInv'
  BY InvInductive
<1> QED
  BY <1>1, <1>2, PTL DEF Spec

\* Records and windows stay well formed: no consume overdraws a bucket, however
\* refills, refusals and new settings alternate.
THEOREM TypeCorrect == Spec => []TypeOK
<1>1. IInv => TypeOK
  BY DEF IInv, TypeOK, Record, Window
<1> QED
  BY <1>1, InvAlways, PTL

\* Over any stretch of time a pair spends at most one full bucket and what
\* flows in meanwhile.
THEOREM WindowIsBounded == Spec => []WindowBound
<1>1. IInv => WindowBound
  <2> SUFFICES ASSUME IInv, NEW id \in DOMAIN store, store[id].pair = window.pair
               PROVE  LET set == store[id].set IN
                      window.spent * set.per
                          <= set.burst * set.per + (now - window.from + MaxLag) * set.limit
    BY DEF WindowBound
  <2> DEFINE rl == store[id]
             spent == window.spent * rl.set.per
             cap == rl.set.burst * rl.set.per
             due == (now - window.from + MaxLag) * rl.set.limit
             in == (rl.last + MaxLag - window.from) * rl.set.limit
  <2>1. /\ now \in Nat /\ window.from \in Nat /\ window.spent \in Nat /\ MaxLag \in Nat
        /\ rl.last \in Nat /\ rl.tokens \in Nat /\ rl.set \in Limits
        /\ window.from <= now /\ rl.last <= now
    BY RateLimitAssumption, ClockAssumption DEF IInv, Record, Window, Fits
  <2>2. Covered(rl, window)
    BY DEF IInv
  <2> HIDE DEF rl
  <2>3. rl.set.limit \in Nat /\ rl.set.per \in Nat /\ cap \in Nat /\ cap = Cap(rl.set)
    BY <2>1, LimitsAreNats DEF Cap
  <2>4. now - window.from + MaxLag \in Nat
    BY <2>1
  <2>5. due \in Nat /\ spent \in Nat
    BY <2>1, <2>3, <2>4, Products
  <2>6. CASE window.spent = 0
    <3>1. spent = 0
      BY <2>3, <2>6
    <3> HIDE DEF spent, cap, due
    <3>2. spent <= cap + due
      BY <2>3, <2>5, <3>1
    <3> QED
      BY <3>2 DEF spent, cap, due, rl
  <2>7. CASE window.spent # 0
    <3>1. window.from <= rl.last + MaxLag /\ spent + rl.tokens <= cap + in
      BY <2>2, <2>3, <2>7 DEF Covered
    <3>2. now - rl.last \in Nat
      BY <2>1
    <3>3. (now - rl.last) * rl.set.limit \in Nat
      BY <2>3, <3>2, Products
    <3>4. in + (now - rl.last) * rl.set.limit = (now + MaxLag - window.from) * rl.set.limit
      BY <2>1, <2>3, InflowAtTheTop
    <3>5. now + MaxLag - window.from = now - window.from + MaxLag
      BY <2>1
    <3>6. in \in Int
      BY <2>1, <2>3
    <3> DEFINE more == (now - rl.last) * rl.set.limit
    <3>7. in + more = due /\ more \in Nat
      BY <3>3, <3>4, <3>5
    <3> HIDE DEF spent, cap, due, in, more
    <3>8. spent <= cap + due
      BY <2>1, <2>3, <2>5, <3>1, <3>6, <3>7
    <3> QED
      BY <3>8 DEF spent, cap, due, rl
  <2> QED
    BY <2>6, <2>7
<1> QED
  BY <1>1, InvAlways, PTL

-----------------------------------------------------------------------------
(* Barriers.                                                              *)

\* What makes the properties inductive: the record counts the accepted signals,
\* an open barrier is short of them and has given nobody a verdict.
Accounted ==
    /\ ~Exists => accepted = 0 /\ verdict = Nothing
    /\ Exists => accepted = bar.count
    /\ bar.state = "Open" => bar.count < bar.required /\ verdict = Nothing
    /\ bar.state = "Closed" => bar.count = bar.required
    /\ bar.state = "TimedOut" => bar.count < bar.required

GateInv == GateTypeOK /\ Accounted /\ VerdictStands /\ EndRespectsDeadline

\* The settled record, whichever call settles it.
LEMMA TimedOutIsSettled ==
    ASSUME GateInv, NEW t \in Stamp, RunsOut(t), bar' = TimedOutAt(t),
           Tell("TimedOut"), UNCHANGED <<accepted, now>>
    PROVE  GateInv'
<1>1. t \in Nat
  BY DEF Stamp, GateInv, GateTypeOK
<1>2. GateTypeOK' /\ Accounted' /\ VerdictStands'
  BY <1>1 DEF GateInv, GateTypeOK, Accounted, VerdictStands, RunsOut, TimedOutAt, Tell,
     Exists, States, Terminal, Nothing
<1>3. EndRespectsDeadline'
  BY <1>1, BarrierAssumption DEF GateInv, GateTypeOK, EndRespectsDeadline, RunsOut,
     IsExpired, TimedOutAt
<1> QED
  BY <1>2, <1>3 DEF GateInv

\* A look, or a refused signal, that leaves the record alone.
LEMMA ToldIsSettled ==
    ASSUME GateInv, UNCHANGED <<bar, accepted, now>>, Exists, Tell(bar.state)
    PROVE  GateInv'
  BY DEF GateInv, GateTypeOK, Accounted, VerdictStands, EndRespectsDeadline, Tell,
     Exists, States, Terminal, Nothing

\* A created barrier is open and has counted nothing.
LEMMA CreateIsFresh ==
    ASSUME GateInv, NEW n \in Required, NEW timeout \in Timeout \cup {NoTimeout},
           NEW t \in Stamp, Create(n, timeout, t)
    PROVE  GateInv'
<1>1. t \in Nat /\ n \in Nat /\ n > 0
  BY BarrierAssumption DEF Stamp, GateInv, GateTypeOK
<1> QED
  BY <1>1, BarrierAssumption DEF Create, GateInv, GateTypeOK, Accounted, VerdictStands,
     EndRespectsDeadline, Exists, States, Terminal, Nothing

\* An accepted signal counts once, and closes the barrier when it is the last.
LEMMA SignalIsCounted ==
    ASSUME GateInv, NEW t \in Stamp, SignalCounts(t)
    PROVE  GateInv'
<1>1. t \in Nat
  BY DEF Stamp, GateInv, GateTypeOK
<1>2. CASE bar.count + 1 >= bar.required
  <2>1. /\ bar' = [bar EXCEPT !.count = @ + 1, !.state = "Closed", !.finished = t]
        /\ accepted' = accepted + 1
        /\ Tell("Closed")
        /\ now' = now
    BY <1>1, <1>2 DEF SignalCounts, GateInv, GateTypeOK
  <2>2. GateTypeOK'
    <3>1. verdict' \in Terminal \cup {Nothing}
      BY <2>1 DEF GateInv, GateTypeOK, Tell
    <3>2. bar' \in [state : States \cup {Nothing}, required : Nat, count : Nat,
                    timeout : Nat \cup {NoTimeout}, created : Nat, finished : Nat]
      <4>1. bar.count + 1 \in Nat /\ "Closed" \in States \cup {Nothing}
        BY DEF GateInv, GateTypeOK, States
      <4> QED
        BY <1>1, <2>1, <4>1 DEF GateInv, GateTypeOK
    <3>3. accepted' \in Nat /\ now' \in Nat
      BY <2>1 DEF GateInv, GateTypeOK
    <3> QED
      BY <3>1, <3>2, <3>3 DEF GateTypeOK
  <2>3. Accounted'
    <3>1. /\ bar.count \in Nat /\ bar.required \in Nat
          /\ bar.count < bar.required /\ accepted = bar.count
      BY DEF SignalCounts, GateInv, GateTypeOK, Accounted, Exists, Nothing
    <3>2. /\ bar'.state = "Closed"
          /\ bar'.count = bar.count + 1
          /\ bar'.required = bar.required
      BY <2>1 DEF GateInv, GateTypeOK
    <3> QED
      BY <1>2, <2>1, <3>1, <3>2 DEF Accounted, Exists, Nothing
  <2>4. VerdictStands'
    BY <2>1 DEF SignalCounts, GateInv, GateTypeOK, Accounted, VerdictStands, Tell, Terminal, Nothing
  <2>5. EndRespectsDeadline'
    BY <1>1, <2>1, BarrierAssumption DEF SignalCounts, GateInv, GateTypeOK, EndRespectsDeadline,
       RunsOut, IsExpired
  <2> QED
    BY <2>2, <2>3, <2>4, <2>5 DEF GateInv
<1>3. CASE ~(bar.count + 1 >= bar.required)
  BY <1>1, <1>3 DEF SignalCounts, GateInv, GateTypeOK, Accounted, VerdictStands,
     EndRespectsDeadline, Tell, Exists, States, Terminal, Nothing
<1> QED
  BY <1>2, <1>3

\* The inductive invariant.
THEOREM GateInvariant == GateSpec => []GateInv
<1>1. GateInit => GateInv
  BY BarrierAssumption DEF GateInit, GateInv, GateTypeOK, Accounted, VerdictStands,
     EndRespectsDeadline, NoBarrier, Exists, States, Terminal, Nothing
<1>2. GateInv /\ [GateNext]_gateVars => GateInv'
  <2> SUFFICES ASSUME GateInv, [GateNext]_gateVars PROVE GateInv'
    OBVIOUS
  <2>1. CASE UNCHANGED gateVars
    BY <2>1 DEF gateVars, GateInv, GateTypeOK, Accounted, VerdictStands, EndRespectsDeadline, Exists
  <2>2. ASSUME NEW n \in Required, NEW timeout \in Timeout \cup {NoTimeout},
               NEW t \in Stamp, Create(n, timeout, t)
        PROVE  GateInv'
    BY <2>2, CreateIsFresh
  <2>3. ASSUME NEW t \in Stamp, SignalTooLate(t) PROVE GateInv'
    BY <2>3, TimedOutIsSettled DEF SignalTooLate
  <2>4. ASSUME NEW t \in Stamp, SignalAfterEnd(t) PROVE GateInv'
    BY <2>4, ToldIsSettled DEF SignalAfterEnd, Exists, Terminal, Nothing
  <2>5. ASSUME NEW t \in Stamp, SignalCounts(t) PROVE GateInv'
    BY <2>5, SignalIsCounted
  <2>6. ASSUME NEW t \in Stamp, Look(t) PROVE GateInv'
    <3>1. CASE RunsOut(t)
      <4>1. TimedOutAt(t).state = "TimedOut"
        BY DEF TimedOutAt, GateInv, GateTypeOK
      <4> QED
        BY <2>6, <3>1, <4>1, TimedOutIsSettled DEF Look
    <3>2. CASE ~RunsOut(t)
      BY <2>6, <3>2, ToldIsSettled DEF Look
    <3> QED
      BY <3>1, <3>2
  <2>7. CASE Delete
    BY <2>7, BarrierAssumption DEF Delete, GateInv, GateTypeOK, Accounted, VerdictStands,
       EndRespectsDeadline, NoBarrier, Exists, States, Terminal, Nothing
  <2>8. CASE GateTick
    BY <2>8 DEF GateTick, Advance, GateInv, GateTypeOK, Accounted, VerdictStands, EndRespectsDeadline, Exists
  <2> QED
    BY <2>1, <2>2, <2>3, <2>4, <2>5, <2>6, <2>7, <2>8 DEF GateNext
<1> QED
  BY <1>1, <1>2, PTL DEF GateSpec

\* The record, the signal count and the verdict stay well formed.
THEOREM GateTypeCorrect == GateSpec => []GateTypeOK
  BY GateInvariant, PTL DEF GateInv

\* A verdict callers were given stands: no later call, with whatever stamp,
\* finds the barrier in another state (signal, state, maybe_timeout).
THEOREM VerdictIsFinal == GateSpec => []VerdictStands
  BY GateInvariant, PTL DEF GateInv

\* The gate is Closed exactly when the required signals were accepted (signal).
THEOREM ClosesOnCount == GateSpec => []ClosedByExactlyRequired
<1>1. GateInv => ClosedByExactlyRequired
  BY DEF GateInv, GateTypeOK, Accounted, ClosedByExactlyRequired, Exists, States, Nothing
<1> QED
  BY <1>1, GateInvariant, PTL

\* The closing signal was stamped before the deadline, a timeout at or after it
\* (is_expired, maybe_timeout).
THEOREM GateDeadlineDecides == GateSpec => []EndRespectsDeadline
  BY GateInvariant, PTL DEF GateInv
===============================================================================
