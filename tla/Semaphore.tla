------------------------------ MODULE Semaphore ------------------------------
(***************************************************************************)
(* The counting semaphore of crates/tasty-agent/src/semaphore.rs: one      *)
(* named record in the memory store, changed by whole calls that read the  *)
(* record, decide, and write it back inside one memory-writer unit, so one *)
(* call is one action.                                                     *)
(*                                                                         *)
(* Every call carries the now_ms its caller read before the unit was       *)
(* queued.  Units run in submission order, not in stamp order, so a stamp  *)
(* may lie up to MaxLag behind the clock when its unit runs.               *)
(*                                                                         *)
(* `sem' is the stored record.  `told' is what the callers know: the       *)
(* expiry the last successful acquire or renew reported to each of them.   *)
(* A caller works under its permit until that moment, whatever the store   *)
(* says, so the guarantees below are stated over `told'.                   *)
(***************************************************************************)
EXTENDS Integers, FiniteSets

CONSTANTS Holder,      \* who may ask for a permit
          Permits,     \* the limits create and set_permits are called with
          Ttl,         \* the ttl_ms values acquire and renew are called with
          NoExpiry,    \* expires_at = None, and ttl_ms = None
          MaxLag,      \* how far behind the clock a stamp may be
          MaxTime      \* bound on the clock

ASSUME SemaphoreAssumption ==
    /\ IsFiniteSet(Holder)
    /\ Permits \subseteq Nat \ {0}
    /\ Ttl \subseteq Nat
    /\ NoExpiry \notin Nat
    /\ MaxLag \in Nat
    /\ MaxTime \in Nat

VARIABLES sem,      \* the stored record; total = 0 when there is none
          told,     \* told[h]: the expiry h was last told, for those told
          drained,  \* who held a permit at the last set_permits
          now

vars == <<sem, told, drained, now>>

NoSemaphore == [total |-> 0, holders |-> <<>>]

Expiry == Nat \cup {NoExpiry}

\* A partial function from Holder to expiries: its domain is who is in it.
IsBook(book) == DOMAIN book \subseteq Holder /\ book \in [DOMAIN book -> Expiry]

\* The stamps a call that runs now may carry.
Stamp == {t \in 0..now : now - t <= MaxLag}

ExpiredAt(e, t) == e # NoExpiry /\ e <= t

\* expires_at of a permit taken or renewed by a call stamped t.
ExpiryOf(ttl, t) == IF ttl = NoExpiry THEN NoExpiry ELSE t + ttl

Without(book, S) == [h \in DOMAIN book \ S |-> book[h]]
With(book, h, e) == [x \in DOMAIN book \cup {h} |-> IF x = h THEN e ELSE book[x]]

EvictExpired(book, t) == Without(book, {h \in DOMAIN book : ExpiredAt(book[h], t)})

Exists == sem.total # 0

HasFreePermit(book) == Cardinality(DOMAIN book) < sem.total

OverSubscribed == Exists /\ Cardinality(DOMAIN sem.holders) > sem.total

-----------------------------------------------------------------------------
Init ==
    /\ sem = NoSemaphore
    /\ told = <<>>
    /\ drained = {}
    /\ now = 0

Create(p) ==
    /\ ~Exists
    /\ sem' = [total |-> p, holders |-> <<>>]
    /\ UNCHANGED <<told, drained, now>>

\* Mutant: a shrink takes the permits back.
SetPermitsReclaims(p, t) ==
    /\ Exists
    /\ sem' = [total |-> p, holders |-> IF p < sem.total THEN <<>> ELSE sem.holders]
    /\ drained' = DOMAIN sem'.holders
    /\ UNCHANGED <<told, now>>

\* A shrink drains: holders above the new limit keep their permits.
SetPermits(p, t) ==
    /\ Exists
    /\ sem' = [total |-> p, holders |-> EvictExpired(sem.holders, t)]
    /\ drained' = DOMAIN sem'.holders
    /\ UNCHANGED <<told, now>>

\* h is told that it holds a permit until e.
Grant(h, e, live) ==
    /\ sem' = [sem EXCEPT !.holders = With(live, h, e)]
    /\ told' = With(told, h, e)
    /\ UNCHANGED <<drained, now>>

\* The same holder asking again refreshes its permit, free permits or not.
AcquireAgain(h, ttl, t) ==
    LET live == EvictExpired(sem.holders, t) IN
    /\ Exists
    /\ h \in DOMAIN live
    /\ Grant(h, ExpiryOf(ttl, t), live)

\* Mutant: only a semaphore that is exactly full refuses.
AcquireNewUnchecked(h, ttl, t) ==
    LET live == EvictExpired(sem.holders, t) IN
    /\ Exists
    /\ h \notin DOMAIN live
    /\ Cardinality(DOMAIN live) # sem.total
    /\ Grant(h, ExpiryOf(ttl, t), live)

AcquireNew(h, ttl, t) ==
    LET live == EvictExpired(sem.holders, t) IN
    /\ Exists
    /\ h \notin DOMAIN live
    /\ HasFreePermit(live)
    /\ Grant(h, ExpiryOf(ttl, t), live)

\* acquired = false; what expired is still written out.
AcquireRefused(h, t) ==
    LET live == EvictExpired(sem.holders, t) IN
    /\ Exists
    /\ h \notin DOMAIN live
    /\ ~HasFreePermit(live)
    /\ sem' = [sem EXCEPT !.holders = live]
    /\ told' = Without(told, {h})
    /\ UNCHANGED <<drained, now>>

\* Nothing is evicted: a permit that ran out but is still listed is extended.
Renew(h, ttl, t) ==
    \/ /\ h \in DOMAIN sem.holders
       /\ Grant(h, t + ttl, sem.holders)
    \/ /\ h \notin DOMAIN sem.holders
       /\ told' = Without(told, {h})
       /\ UNCHANGED <<sem, drained, now>>

Release(h) ==
    /\ Exists
    /\ sem' = [sem EXCEPT !.holders = Without(sem.holders, {h})]
    /\ told' = Without(told, {h})
    /\ UNCHANGED <<drained, now>>

\* list(Some(now)) evicts and persists.
List(t) ==
    /\ Exists
    /\ sem' = [sem EXCEPT !.holders = EvictExpired(sem.holders, t)]
    /\ UNCHANGED <<told, drained, now>>

\* The record goes with its holders; what they were told is void from here on.
Delete ==
    /\ Exists
    /\ sem' = NoSemaphore
    /\ told' = <<>>
    /\ drained' = {}
    /\ UNCHANGED now

Tick ==
    /\ now < MaxTime
    /\ now' = now + 1
    /\ UNCHANGED <<sem, told, drained>>

Acquire(h, t) ==
    \/ \E ttl \in Ttl \cup {NoExpiry} : AcquireAgain(h, ttl, t) \/ AcquireNew(h, ttl, t)
    \/ AcquireRefused(h, t)

Next ==
    \/ \E p \in Permits : Create(p)
    \/ \E p \in Permits, t \in Stamp : SetPermits(p, t)
    \/ \E h \in Holder, t \in Stamp : Acquire(h, t)
    \/ \E h \in Holder, ttl \in Ttl, t \in Stamp : Renew(h, ttl, t)
    \/ \E h \in Holder : Release(h)
    \/ \E t \in Stamp : List(t)
    \/ Delete
    \/ Tick

Spec == Init /\ [][Next]_vars

-----------------------------------------------------------------------------
\* The type invariant: the record and the history are well formed.
TypeOK ==
    /\ sem = [total |-> sem.total, holders |-> sem.holders]
    /\ sem.total \in Nat
    /\ IsBook(sem.holders)
    /\ IsBook(told)
    /\ drained \subseteq Holder
    /\ now \in Nat

\* Nobody loses a permit it was told it has: until the expiry the last answer
\* of acquire or renew named, the store lists the holder with exactly that
\* expiry.  No eviction, shrink or call of somebody else revokes it, however
\* late the call's own stamp is.
PromiseKept ==
    \A h \in DOMAIN told :
        ~ExpiredAt(told[h], now) => /\ h \in DOMAIN sem.holders
                                    /\ sem.holders[h] = told[h]

\* More holders than permits is a state only set_permits leaves behind: whoever
\* is listed then already held a permit when set_permits ran, so acquire never
\* hands out a permit beyond the limit in force.
OverSubscribedOnlyByDrain == OverSubscribed => DOMAIN sem.holders \subseteq drained

\* The callers working under a permit that has not run out: never more than the
\* limit, unless all of them were already there when the limit was set.
AtMostPermits ==
    LET active == {h \in DOMAIN told : ~ExpiredAt(told[h], now)} IN
    Cardinality(active) > sem.total => active \subseteq drained

\* A drain only ends: a step that leaves more holders than permits, whichever
\* call it is, brings no new holder in.
DrainAdmitsNobody ==
    [][OverSubscribed' => DOMAIN sem'.holders \subseteq DOMAIN sem.holders]_vars
=============================================================================
