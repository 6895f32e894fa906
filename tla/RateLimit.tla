------------------------------ MODULE RateLimit ------------------------------
(***************************************************************************)
(* Rate limits (crates/tasty-agent/src/rate_limit.rs): one token bucket    *)
(* per (agent, metric) pair, stored under an id made of the time of the    *)
(* first set and the agent's name reduced to a slug.                       *)
(*                                                                         *)
(* Tokens are counted in units of 1/per_ms, which makes the code's         *)
(* fractional refill exact.  The now_ms of a call is the system clock's,   *)
(* which may be set back by up to MaxLag between calls.  `store' is the    *)
(* memory store; `window' is history: what was spent from one bucket since *)
(* an arbitrary moment.                                                    *)
(***************************************************************************)
EXTENDS Clock, FiniteSetsExt

CONSTANTS Agent, Metric,
          SlugOf,     \* SlugOf[a]: sanitize(a)
          Limits,     \* the [limit, per, burst] settings set is called with
          Costs       \* what try_consume may be asked for

ASSUME RateLimitAssumption ==
    /\ Limits \subseteq [limit : Nat \ {0}, per : Nat \ {0}, burst : Nat \ {0}]
    /\ Costs \subseteq Nat

VARIABLES store, window

vars == <<store, window, now>>

Pairs == Agent \X Metric

\* rl-{now_ms}-{sanitize(agent)}
IdOf(pair, t) == <<t, SlugOf[pair[1]]>>

\* The records of a pair, of which the code takes the first.
IdsOf(pair) == {id \in DOMAIN store : store[id].pair = pair}

\* Mutant: a bucket without a bottom to its top.
RefilledUnbounded(rl, t) ==
    IF t <= rl.last THEN rl
    ELSE [rl EXCEPT !.tokens = @ + (t - rl.last) * rl.set.limit, !.last = t]

Refilled(rl, t) ==
    IF t <= rl.last THEN rl
    ELSE [rl EXCEPT !.tokens = Min({@ + (t - rl.last) * rl.set.limit,
                                    rl.set.burst * rl.set.per}),
                    !.last = t]

Put(id, rl) == store' = [x \in DOMAIN store \cup {id} |-> IF x = id THEN rl ELSE store[x]]

\* The record a set with these arguments leaves: a full bucket.
Full(pair, set, t) == [pair |-> pair, set |-> set, tokens |-> set.burst * set.per, last |-> t]

NoWindow == [pair |-> <<>>, from |-> 0, spent |-> 0]

-----------------------------------------------------------------------------
Init ==
    /\ store = <<>>
    /\ window = NoWindow
    /\ now = 0

\* An existing pair keeps its record and starts over with a full bucket; a new
\* pair gets a record of its own under a new id.
Set(pair, set, t) ==
    /\ \/ \E id \in IdsOf(pair) : Put(id, Full(pair, set, t))
       \/ IdsOf(pair) = {} /\ Put(IdOf(pair, t), Full(pair, set, t))
    /\ window' = IF window.pair = pair THEN NoWindow ELSE window
    /\ UNCHANGED now

Remove(id) ==
    /\ id \in DOMAIN store
    /\ store' = [x \in DOMAIN store \ {id} |-> store[x]]
    /\ window' = IF window.pair = store[id].pair THEN NoWindow ELSE window
    /\ UNCHANGED now

\* try_consume: allowed when the refilled bucket holds the cost; the refill is
\* stored either way.
Consume(pair, cost, t) ==
    \E id \in IdsOf(pair) :
        LET rl == Refilled(store[id], t)
            price == cost * rl.set.per
            allowed == rl.tokens >= price
        IN
        /\ Put(id, IF allowed THEN [rl EXCEPT !.tokens = @ - price] ELSE rl)
        /\ window' = IF allowed /\ window.pair = pair
                       THEN [window EXCEPT !.spent = @ + cost] ELSE window
        /\ UNCHANGED now

\* status refills every bucket and stores it.
Status(t) ==
    /\ store' = [id \in DOMAIN store |-> Refilled(store[id], t)]
    /\ UNCHANGED <<window, now>>

Tick ==
    /\ Advance
    /\ UNCHANGED <<store, window>>

\* An observer starts counting what a pair spends.
Watch(pair) ==
    /\ window = NoWindow
    /\ IdsOf(pair) # {}
    /\ window' = [pair |-> pair, from |-> now, spent |-> 0]
    /\ UNCHANGED <<store, now>>

Next ==
    \/ \E pair \in Pairs, set \in Limits, t \in Stamp : Set(pair, set, t)
    \/ \E id \in DOMAIN store : Remove(id)
    \/ \E pair \in Pairs, cost \in Costs, t \in Stamp : Consume(pair, cost, t)
    \/ \E t \in Stamp : Status(t)
    \/ \E pair \in Pairs : Watch(pair)
    \/ Tick

Spec == Init /\ [][Next]_vars

-----------------------------------------------------------------------------
\* The type invariant.
TypeOK ==
    /\ DOMAIN store \subseteq (0..now) \X {SlugOf[a] : a \in Agent}
    /\ store \in [DOMAIN store -> [pair : Pairs, set : Limits, tokens : Nat, last : Nat]]
    /\ window.from <= now
    /\ window.spent \in Nat

\* Whatever stretch of time one looks at, a pair spends no more in it than one
\* full bucket and what flows in meanwhile (MaxLag longer, for late stamps):
\* no interleaving of refills, refusals and status calls mints tokens.
WindowBound ==
    \A id \in DOMAIN store : store[id].pair = window.pair =>
        LET set == store[id].set IN
        window.spent * set.per
            <= set.burst * set.per + (now - window.from + MaxLag) * set.limit
=============================================================================
