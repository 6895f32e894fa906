------------------------------ MODULE LeasePool ------------------------------
(***************************************************************************)
(* Leases (crates/tasty-agent/src/lease.rs): co-operative ownership of     *)
(* named resources, one record per resource, with an optional TTL.  A      *)
(* caller either names one resource (acquire) or a pool of candidates      *)
(* (acquire_any), which an elastic caller may grow with synthesized names. *)
(*                                                                         *)
(* One call is one memory-writer unit, hence one action.  The runner reads *)
(* a stamp before it queues the unit, so it may lie behind the clock, but  *)
(* a caller issues its calls one at a time: its own stamps do not go back  *)
(* (assumed of the system clock).  The answer of an acquire may be lost,   *)
(* and then its caller counts on nothing.  That of a renewal is not.       *)
(*                                                                         *)
(* `lease' and `counter' are stored.  `told' is what the callers know: the *)
(* expiry the last successful answer gave each of them for a resource.     *)
(***************************************************************************)
EXTENDS Integers, Sequences, FiniteSets

CONSTANTS Resource,    \* every resource name
          Candidates,  \* the pool's fixed names, in order
          Overflow,    \* overflow_prefix + N, for N = 1, 2, ...
          Holder,      \* every caller
          Cap,         \* Cap[h], for pool callers: Fixed or max_candidates
          Named,       \* Named[h], for the others: the resource h asks for
          Fixed,       \* a pool caller that does not pass elastic
          Ttl, NoExpiry, MaxLag, MaxTime

PoolHolder == DOMAIN Cap

ASSUME LeaseAssumption ==
    /\ Candidates \in Seq(Resource) /\ Candidates # <<>>
    /\ Overflow \in Seq(Resource)
    /\ PoolHolder \subseteq Holder
    /\ Named \in [Holder \ PoolHolder -> Resource]
    /\ Fixed \notin Nat
    /\ Cap \in [PoolHolder -> Nat \cup {Fixed}]
    /\ Ttl \subseteq Nat
    /\ NoExpiry \notin Nat
    /\ MaxLag \in Nat
    /\ MaxTime \in Nat

VARIABLES lease,    \* lease[r]: holder and expiry, for leased resources
          counter,  \* how many names the pool has synthesized
          told,     \* told[h]: the resource and expiry h was last told of
          seen,     \* seen[h]: the stamp of h's last call
          now

vars == <<lease, counter, told, seen, now>>

Expiry == Nat \cup {NoExpiry}

ExpiredAt(e, t) == e # NoExpiry /\ e <= t

ExpiryOf(ttl, t) == IF ttl = NoExpiry THEN NoExpiry ELSE t + ttl

\* The stamps a call of h that runs now may carry.
Stamp(h) == {t \in seen[h]..now : now - t <= MaxLag}

\* What expired stays in the store until somebody takes or lists it.
LeasedAt(r, t) == r \in DOMAIN lease /\ ~ExpiredAt(lease[r].until, t)

\* acquire succeeds: free, expired, or already the caller's, expired or not.
Takable(h, r, t) == LeasedAt(r, t) => lease[r].holder = h

HoldsAt(h, r, t) == LeasedAt(r, t) /\ lease[r].holder = h

Elastic(h) == Cap[h] # Fixed

\* The fixed names, then for an elastic caller those synthesized so far.
ScanList(h) ==
    Candidates \o (IF Elastic(h) THEN SubSeq(Overflow, 1, counter) ELSE <<>>)

IsFirst(s, i, Good(_)) == Good(s[i]) /\ \A j \in 1..(i - 1) : ~Good(s[j])

With(f, x, v) == [y \in DOMAIN f \cup {x} |-> IF y = x THEN v ELSE f[y]]
Without(f, x) == [y \in DOMAIN f \ {x} |-> f[y]]

-----------------------------------------------------------------------------
Init ==
    /\ lease = <<>>
    /\ counter = 0
    /\ told = <<>>
    /\ seen = [h \in Holder |-> 0]
    /\ now = 0

Record(h, r, e) == lease' = With(lease, r, [holder |-> h, until |-> e])

\* h is told it holds r until e, and from then on goes by that.
Grant(h, r, e) == Record(h, r, e) /\ told' = With(told, h, [res |-> r, until |-> e])

\* The lease is taken, but whether it was the caller does not learn.
GrantUnheard(h, r, e) == Record(h, r, e) /\ told' = Without(told, h)

Take(h, r, e) == Grant(h, r, e) \/ GrantUnheard(h, r, e)

\* h is told it holds nothing.
Deny(h) == told' = Without(told, h) /\ UNCHANGED lease

Call(h, t) == seen' = [seen EXCEPT ![h] = t] /\ UNCHANGED now

\* Mutant: takes over what another caller still holds.
AcquireSteals(h, ttl, t) ==
    /\ Call(h, t)
    /\ UNCHANGED counter
    /\ Take(h, Named[h], ExpiryOf(ttl, t))

\* One named resource: taken, or refused while somebody else holds it.
Acquire(h, ttl, t) ==
    /\ Call(h, t)
    /\ UNCHANGED counter
    /\ \/ Takable(h, Named[h], t) /\ Take(h, Named[h], ExpiryOf(ttl, t))
       \/ ~Takable(h, Named[h], t) /\ Deny(h)

\* The name of the pool the caller holds already, refreshed.
PickAgain(h, ttl, t) ==
    LET scan == ScanList(h) IN
    \E i \in DOMAIN scan :
        /\ IsFirst(scan, i, LAMBDA r : HoldsAt(h, r, t))
        /\ Take(h, scan[i], ExpiryOf(ttl, t))
        /\ UNCHANGED counter

\* Mutant: PickFirst with no look at what the caller holds.
PickFirstAlways(h, ttl, t) ==
    LET scan == ScanList(h) IN
    \E i \in DOMAIN scan :
        /\ IsFirst(scan, i, LAMBDA r : Takable(h, r, t))
        /\ Take(h, scan[i], ExpiryOf(ttl, t))
        /\ UNCHANGED counter

\* The caller holds nothing of the pool: the first name it can take.
PickFirst(h, ttl, t) ==
    LET scan == ScanList(h) IN
    /\ \A i \in DOMAIN scan : ~HoldsAt(h, scan[i], t)
    /\ \E i \in DOMAIN scan :
         /\ IsFirst(scan, i, LAMBDA r : Takable(h, r, t))
         /\ Take(h, scan[i], ExpiryOf(ttl, t))
         /\ UNCHANGED counter

Exhausted(h, t) == \A i \in DOMAIN ScanList(h) : ~Takable(h, ScanList(h)[i], t)

\* Mutant: an inclusive cap.
MayGrowToo(h) ==
    /\ Elastic(h)
    /\ counter < Len(Overflow)
    /\ Len(ScanList(h)) <= Cap[h]

\* Len(Overflow) bounds the counter.
MayGrow(h) ==
    /\ Elastic(h)
    /\ counter < Len(Overflow)
    /\ Len(ScanList(h)) < Cap[h]

\* A new name is synthesized and leased, all in one unit.
PickNew(h, ttl, t) ==
    LET r == Overflow[counter + 1] IN
    /\ Exhausted(h, t)
    /\ MayGrow(h)
    /\ counter' = counter + 1
    /\ Takable(h, r, t)
    /\ Take(h, r, ExpiryOf(ttl, t))

\* The new name is a fixed candidate, or leased by name, and somebody holds it.
\* The count stays raised: the unit commits also when it answers an error.
PickCollides(h, t) ==
    /\ Exhausted(h, t)
    /\ MayGrow(h)
    /\ ~Takable(h, Overflow[counter + 1], t)
    /\ counter' = counter + 1
    /\ Deny(h)

PickRefused(h, t) ==
    /\ Exhausted(h, t)
    /\ Elastic(h) => Len(ScanList(h)) >= Cap[h]
    /\ Deny(h)
    /\ UNCHANGED counter

AcquireAny(h, ttl, t) ==
    /\ Call(h, t)
    /\ \/ PickAgain(h, ttl, t)
       \/ PickFirst(h, ttl, t)
       \/ PickNew(h, ttl, t)
       \/ PickCollides(h, t)
       \/ PickRefused(h, t)

\* Mutant: does not compare the holder.
RenewAnybodys(h, ttl, t) ==
    /\ h \in DOMAIN told
    /\ told[h].res \in DOMAIN lease
    /\ Call(h, t)
    /\ UNCHANGED counter
    /\ Grant(h, told[h].res, t + ttl)

\* A caller renews what it believes it holds; an expired lease nobody took is
\* extended as well.
Renew(h, ttl, t) ==
    LET r == told[h].res IN
    /\ h \in DOMAIN told
    /\ Call(h, t)
    /\ UNCHANGED counter
    /\ IF r \in DOMAIN lease /\ lease[r].holder = h
         THEN Grant(h, r, t + ttl)
         ELSE Deny(h)

\* An acquire or acquire_any that was not run, which its caller does not know.
NotRun(h, t) == Call(h, t) /\ Deny(h) /\ UNCHANGED counter

\* A caller gives back what it was told of, or any name it may hold after an
\* answer it did not get (release_unknown).  Only its own lease goes.
Release(h, r) ==
    /\ lease' = IF r \in DOMAIN lease /\ lease[r].holder = h THEN Without(lease, r) ELSE lease
    /\ told' = IF h \in DOMAIN told /\ told[h].res = r THEN Without(told, h) ELSE told
    /\ UNCHANGED <<counter, seen, now>>

\* list(Some(now)) deletes what expired.
List(h, t) ==
    /\ lease' = [x \in {r \in DOMAIN lease : LeasedAt(r, t)} |-> lease[x]]
    /\ Call(h, t)
    /\ UNCHANGED <<counter, told>>

Tick ==
    /\ now < MaxTime
    /\ now' = now + 1
    /\ UNCHANGED <<lease, counter, told, seen>>

Next ==
    \/ \E h \in Holder \ PoolHolder, ttl \in Ttl \cup {NoExpiry} :
         \E t \in Stamp(h) : Acquire(h, ttl, t)
    \/ \E h \in PoolHolder, ttl \in Ttl \cup {NoExpiry} :
         \E t \in Stamp(h) : AcquireAny(h, ttl, t)
    \/ \E h \in Holder, ttl \in Ttl : \E t \in Stamp(h) : Renew(h, ttl, t)
    \/ \E h \in Holder, r \in Resource : Release(h, r)
    \/ \E h \in Holder : \E t \in Stamp(h) : NotRun(h, t) \/ List(h, t)
    \/ Tick

Spec == Init /\ [][Next]_vars

-----------------------------------------------------------------------------
\* The type invariant.
TypeOK ==
    /\ DOMAIN lease \subseteq Resource
    /\ lease \in [DOMAIN lease -> [holder : Holder, until : Expiry]]
    /\ counter \in 0..Len(Overflow)
    /\ DOMAIN told \subseteq Holder
    /\ told \in [DOMAIN told -> [res : Resource, until : Expiry]]
    /\ seen \in [Holder -> Nat]
    /\ now \in Nat
    /\ \A h \in Holder : seen[h] <= now

\* What h was told has not run out.
Believes(h) == h \in DOMAIN told /\ ~ExpiredAt(told[h].until, now)

\* A resource is used by one caller: until its expiry no second caller, of
\* whatever pool or API, is told that it holds it.
Exclusive ==
    \A h, g \in Holder : Believes(h) /\ Believes(g) /\ told[h].res = told[g].res => h = g

\* The store backs every belief: the lease a caller counts on is recorded under
\* its name with the expiry it was told, whatever others call in between.
BeliefBacked ==
    \A h \in Holder : Believes(h) =>
        /\ told[h].res \in DOMAIN lease
        /\ lease[told[h].res] = [holder |-> h, until |-> told[h].until]

\* acquire_any gives a caller one name of its pool at a time, also when an
\* earlier lease of its runs out, is reused or is renewed late.
OneNamePerPoolCaller ==
    \A h \in PoolHolder : \A r, s \in DOMAIN lease :
        HoldsAt(h, r, now) /\ HoldsAt(h, s, now) => r = s

\* The elastic callers never make the pool larger than the largest cap allows.
PoolWithinCap ==
    counter > 0 => \E h \in PoolHolder : Elastic(h) /\ Len(Candidates) + counter <= Cap[h]

\* A name is synthesized only when every name of the pool, fixed or synthesized
\* before, is leased: returned and expired names are reused first.
GrowsOnlyWhenFull ==
    [][counter' > counter =>
         /\ \A i \in 1..Len(Candidates) : Candidates[i] \in DOMAIN lease
         /\ \A i \in 1..counter : Overflow[i] \in DOMAIN lease]_vars
=============================================================================
