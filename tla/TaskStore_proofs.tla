--------------------------- MODULE TaskStore_proofs ---------------------------
(***************************************************************************)
(* The safety of the task DAG for every set of ids, every menu of          *)
(* definitions and every order of the operations.                          *)
(***************************************************************************)
EXTENDS TaskStore, FiniteSetTheorems, NaturalsInduction, WellFoundedInduction, TLAPS

-----------------------------------------------------------------------------
(* Recursive functions on a segment of the numbers.  Induction is by a least *)
(* counterexample: what holds of 0 and goes from each number to the next     *)
(* holds of all of them.                                                     *)

LEMMA LeastMember ==
    ASSUME NEW R, IsWellFoundedOn(R, Nat), NEW T \in SUBSET Nat, T # {}
    PROVE  \E x \in T : \A y \in T : ~(<<y, x>> \in R)
<1>1. T \subseteq Nat
  OBVIOUS
<1> QED
  BY <1>1, WFMin, Zenon

LEMMA NumbersAreOrdered ==
    \E R : IsWellFoundedOn(R, Nat) /\ \A x, y \in Nat : x < y => <<x, y>> \in R
<1> DEFINE R == OpToRel(<, Nat)
<1>1. \A x, y \in Nat : x < y => <<x, y>> \in R
  BY DEF OpToRel
<1>2. IsWellFoundedOn(R, Nat)
  BY NatLessThanWellFounded
<1> HIDE DEF R
<1> QED
  BY <1>1, <1>2

LEMMA Induction ==
    ASSUME NEW S \in SUBSET Nat, 0 \in S, \A n \in S : n + 1 \in S
    PROVE  Nat \subseteq S
<1> SUFFICES ASSUME Nat \ S # {} PROVE FALSE
  OBVIOUS
<1>1. PICK R : IsWellFoundedOn(R, Nat) /\ \A x, y \in Nat : x < y => <<x, y>> \in R
  BY NumbersAreOrdered
<1>2. PICK m \in Nat \ S : \A k \in Nat \ S : ~(<<k, m>> \in R)
  <2>1. (Nat \ S) \in SUBSET Nat
    OBVIOUS
  <2> QED
    BY <1>1, <2>1, LeastMember
<1>3. m # 0 /\ m - 1 \in Nat /\ m - 1 < m
  BY <1>2
<1>4. m - 1 \in S
  BY <1>1, <1>2, <1>3
<1> QED
  BY <1>2, <1>3, <1>4

\* f is the run from u under the steps step[1], step[2], ..., up to the N-th.
IsRun(f, u, step, N, U) ==
    /\ f \in [0..N -> U]
    /\ f[0] = u
    /\ \A n \in 1..N : f[n] = step[n][f[n - 1]]

\* Steps that stay in U have a run in U.
LEMMA RunExists ==
    ASSUME NEW U, NEW u \in U, NEW N \in Nat, NEW step \in [1..N -> [U -> U]]
    PROVE  \E f : IsRun(f, u, step, N, U)
<1> DEFINE S == {m \in Nat : m <= N => \E f : IsRun(f, u, step, m, U)}
<1>1. 0 \in S
  <2>1. IsRun([i \in 0..0 |-> u], u, step, 0, U)
    BY DEF IsRun
  <2> QED
    BY <2>1
<1>2. ASSUME NEW m \in S PROVE m + 1 \in S
  <2> SUFFICES ASSUME m + 1 <= N PROVE \E f : IsRun(f, u, step, m + 1, U)
    OBVIOUS
  <2>1. PICK f : IsRun(f, u, step, m, U)
    OBVIOUS
  <2> DEFINE g == [i \in 0..m + 1 |-> IF i = m + 1 THEN step[m + 1][f[m]] ELSE f[i]]
  <2>2. f[m] \in U /\ step[m + 1] \in [U -> U]
    BY <2>1 DEF IsRun
  <2>3. IsRun(g, u, step, m + 1, U)
    BY <2>1, <2>2 DEF IsRun
  <2> QED
    BY <2>3
<1> HIDE DEF S
<1>3. S \in SUBSET Nat
  BY DEF S
<1>4. N \in S /\ N <= N
  BY <1>1, <1>2, <1>3, Induction
<1> QED
  BY <1>4 DEF S

\* Whatever satisfies the recursion is that run.
LEMMA RecursionRuns ==
    ASSUME NEW U, NEW u \in U, NEW N \in Nat, NEW step \in [1..N -> [U -> U]], NEW f,
           f = [n \in 0..N |-> f[n]], f[0] = u,
           \A n \in 1..N : f[n - 1] \in U => f[n] = step[n][f[n - 1]]
    PROVE  IsRun(f, u, step, N, U)
<1> DEFINE S == {n \in Nat : n <= N => f[n] \in U}
<1>1. 0 \in S
  OBVIOUS
<1>2. ASSUME NEW n \in S PROVE n + 1 \in S
  <2> SUFFICES ASSUME n + 1 <= N PROVE f[n + 1] \in U
    OBVIOUS
  <2>1. f[n] \in U /\ n + 1 \in 1..N /\ (n + 1) - 1 = n /\ step[n + 1] \in [U -> U]
    OBVIOUS
  <2> QED
    BY <2>1
<1> HIDE DEF S
<1>3. S \in SUBSET Nat
  BY DEF S
<1>4. Nat \subseteq S
  BY <1>1, <1>2, <1>3, Induction
<1>5. \A n \in 0..N : f[n] \in U
  BY <1>4 DEF S
<1>6. \A n \in 1..N : n - 1 \in 0..N
  OBVIOUS
<1>7. f \in [0..N -> U]
  BY <1>5
<1> QED
  BY <1>6, <1>7 DEF IsRun

\* settle_waiting goes from book to book, one round at a time.
Rounds(f, b, scope, U) ==
    /\ f \in [0..Cardinality(scope) -> U]
    /\ f[0] = b
    /\ \A n \in 1..Cardinality(scope) : f[n] = Round(f[n - 1], scope)
    /\ Settle(b, scope) = f[Cardinality(scope)]

LEMMA SettleRuns ==
    ASSUME NEW b, NEW scope, IsFiniteSet(scope), NEW U, b \in U,
           \A c \in U : Round(c, scope) \in U
    PROVE  \E f : Rounds(f, b, scope, U)
<1> DEFINE N == Cardinality(scope)
           step == [n \in 1..N |-> [c \in U |-> Round(c, scope)]]
           after[n \in 0..N] == IF n = 0 THEN b ELSE Round(after[n - 1], scope)
<1>1. N \in Nat
  BY FS_CardinalityType
<1>2. step \in [1..N -> [U -> U]]
  OBVIOUS
<1>3. PICK f : IsRun(f, b, step, N, U)
  BY <1>1, <1>2, RunExists
<1>4. f = [n \in 0..N |-> IF n = 0 THEN b ELSE Round(f[n - 1], scope)]
  <2>1. f = [n \in 0..N |-> f[n]] /\ f[0] = b
    BY <1>3 DEF IsRun
  <2>2. ASSUME NEW n \in 0..N, n # 0 PROVE f[n] = Round(f[n - 1], scope)
    <3>1. n \in 1..N /\ f[n - 1] \in U
      BY <1>1, <1>3, <2>2 DEF IsRun
    <3>2. f[n] = step[n][f[n - 1]]
      BY <1>3, <3>1 DEF IsRun
    <3> QED
      BY <3>1, <3>2
  <2> HIDE DEF N, step
  <2> QED
    BY <2>1, <2>2
<1>5. after = [n \in 0..N |-> IF n = 0 THEN b ELSE Round(after[n - 1], scope)]
  BY <1>4
<1>6. Settle(b, scope) = after[N]
  BY DEF Settle
<1> HIDE DEF after
<1>7. IsRun(after, b, step, N, U)
  <2>1. after = [n \in 0..N |-> after[n]] /\ after[0] = b
    BY <1>1, <1>5
  <2>2. \A n \in 1..N : after[n - 1] \in U => after[n] = step[n][after[n - 1]]
    BY <1>1, <1>5
  <2> HIDE DEF N, step
  <2> QED
    BY <1>1, <1>2, <2>1, <2>2, RecursionRuns
<1>8. \A n \in 1..N : after[n] = Round(after[n - 1], scope)
  BY <1>1, <1>5
<1> QED
  BY <1>6, <1>7, <1>8 DEF IsRun, Rounds

\* A line of fallbacks that are skipped: what every propagation keeps, all of them keep.
LEMMA PropagateAllRuns ==
    ASSUME NEW b, NEW line, Len(line) \in Nat, NEW U, b \in U,
           \A c \in U : \A n \in 1..Len(line) : Propagate(c, line[n], "Skipped") \in U
    PROVE  PropagateAll(b, line) \in U
<1> DEFINE N == Len(line)
           step == [n \in 1..N |-> [c \in U |-> Propagate(c, line[n], "Skipped")]]
           after[n \in 0..N] == IF n = 0 THEN b ELSE Propagate(after[n - 1], line[n], "Skipped")
<1>1. N \in Nat
  OBVIOUS
<1>2. step \in [1..N -> [U -> U]]
  OBVIOUS
<1>3. PICK f : IsRun(f, b, step, N, U)
  BY <1>1, <1>2, RunExists
<1>4. f = [n \in 0..N |-> IF n = 0 THEN b ELSE Propagate(f[n - 1], line[n], "Skipped")]
  <2>1. f = [n \in 0..N |-> f[n]] /\ f[0] = b
    BY <1>3 DEF IsRun
  <2>2. ASSUME NEW n \in 0..N, n # 0 PROVE f[n] = Propagate(f[n - 1], line[n], "Skipped")
    <3>1. n \in 1..N /\ f[n - 1] \in U
      BY <1>1, <1>3, <2>2 DEF IsRun
    <3>2. f[n] = step[n][f[n - 1]]
      BY <1>3, <3>1 DEF IsRun
    <3> QED
      BY <3>1, <3>2
  <2> HIDE DEF N, step
  <2> QED
    BY <2>1, <2>2
<1>5. after = [n \in 0..N |-> IF n = 0 THEN b ELSE Propagate(after[n - 1], line[n], "Skipped")]
  BY <1>4
<1>6. PropagateAll(b, line) = after[N]
  BY DEF PropagateAll
<1> HIDE DEF after
<1>7. IsRun(after, b, step, N, U)
  <2>1. after = [n \in 0..N |-> after[n]] /\ after[0] = b
    BY <1>1, <1>5
  <2>2. \A n \in 1..N : after[n - 1] \in U => after[n] = step[n][after[n - 1]]
    BY <1>1, <1>5
  <2> HIDE DEF N, step
  <2> QED
    BY <1>1, <1>2, <2>1, <2>2, RecursionRuns
<1> QED
  BY <1>1, <1>6, <1>7 DEF IsRun

-----------------------------------------------------------------------------
(* Books, and what settling a book may change.                               *)

IsBook(b) ==
    /\ b = [def |-> b.def, state |-> b.state, reserved |-> b.reserved, used |-> b.used]
    /\ Ids(b) \subseteq Task /\ IsFiniteSet(Ids(b))
    /\ b.def \in [Ids(b) -> Definition]
    /\ b.state \in [Ids(b) -> States]

\* The dependencies of i are there and have succeeded, those with a fallback aside.
Stands(b, i) ==
    \A d \in b.def[i].deps :
        d \in Ids(b) /\ (b.def[d].policy \in {"Abort", "Continue"} => b.state[d] = "Succeeded")

\* i may go from Waiting, or a fallback from Unknown, to s.
MayTurn(b, i, s) ==
    /\ s \in {"Ready", "Skipped"}
    /\ ~Dormant(b, i)
    /\ s = "Ready" /\ b.def[i].policy = "Abort" => Stands(b, i)

\* The books that settling may make of b.
Settled(b) ==
    {c \in [def : {b.def}, state : [Ids(b) -> States], reserved : {b.reserved}, used : {b.used}] :
        \A i \in Ids(b) : c.state[i] # b.state[i] =>
            b.state[i] = "Waiting" /\ MayTurn(b, i, c.state[i])}

\* A task that can run has what it depends on (v1_readiness).
LEMMA AvailableStands ==
    ASSUME NEW b, IsBook(b), NEW i \in Ids(b), ~Undecided(b, i), ~Unavailable(b, i)
    PROVE  ~Dormant(b, i) /\ Stands(b, i)
<1>1. ~Dormant(b, i)
  BY DEF Undecided
<1>2. ASSUME NEW d \in b.def[i].deps
      PROVE  d \in Ids(b) /\ (b.def[d].policy \in {"Abort", "Continue"} => b.state[d] = "Succeeded")
  <2>1. d \in Ids(b) /\ Outcomes(b, d) = {"Succeeded"}
    BY <1>2 DEF Undecided, Decided, Unavailable
  <2>2. ASSUME b.def[d].policy \in {"Abort", "Continue"} PROVE b.state[d] = "Succeeded"
    <3>1. Outcomes(b, d) = {b.state[d]} \cap Terminal
      BY <2>2 DEF Outcomes
    <3> QED
      BY <2>1, <3>1
  <2> QED
    BY <2>1, <2>2
<1> QED
  BY <1>1, <1>2 DEF Stands

\* settle_target decides only what may turn, and so does evaluate_readiness.
LEMMA TargetTurns ==
    ASSUME NEW b, IsBook(b), NEW i \in Ids(b)
    PROVE  /\ Target(b, i) \in {"Waiting", "Ready", "Skipped"}
           /\ Target(b, i) # "Waiting" => MayTurn(b, i, Target(b, i))
<1>0. b.def[i].policy \in Policy
  BY DEF IsBook, Definition
<1>1. CASE Undecided(b, i)
  BY <1>1 DEF Target
<1>2. CASE ~Undecided(b, i) /\ ~Unavailable(b, i)
  <2>1. Target(b, i) = "Ready"
    BY <1>2 DEF Target
  <2> QED
    BY <1>2, <2>1, AvailableStands DEF MayTurn
<1>3. CASE ~Undecided(b, i) /\ Unavailable(b, i)
  <2>1. Target(b, i) = [Abort |-> "Skipped", Continue |-> "Ready",
                        Fallback |-> "Waiting", Inline |-> "Waiting"][b.def[i].policy]
    BY <1>3 DEF Target
  <2>2. ~Dormant(b, i)
    BY <1>3 DEF Undecided
  <2> QED
    BY <1>0, <2>1, <2>2 DEF MayTurn, Policy
<1> QED
  BY <1>1, <1>2, <1>3

LEMMA EvaluatedTurns ==
    ASSUME NEW b, IsBook(b), NEW i \in Ids(b)
    PROVE  /\ Evaluated(b, i) \in {"Waiting", "Ready", "Skipped"}
           /\ Evaluated(b, i) # "Waiting" => MayTurn(b, i, Evaluated(b, i))
<1>1. CASE Undecided(b, i)
  BY <1>1 DEF Evaluated
<1>2. CASE ~Undecided(b, i) /\ ~Unavailable(b, i)
  <2>1. Evaluated(b, i) = "Ready"
    BY <1>2 DEF Evaluated
  <2> QED
    BY <1>2, <2>1, AvailableStands DEF MayTurn
<1>3. CASE ~Undecided(b, i) /\ Unavailable(b, i)
  <2>1. Evaluated(b, i) = "Skipped" /\ ~Dormant(b, i)
    BY <1>3 DEF Evaluated, Undecided
  <2> QED
    BY <2>1 DEF MayTurn
<1> QED
  BY <1>1, <1>2, <1>3

LEMMA SettledIsBook ==
    ASSUME NEW b, IsBook(b), NEW c \in Settled(b)
    PROVE  /\ IsBook(c)
           /\ Ids(c) = Ids(b) /\ c.def = b.def /\ c.reserved = b.reserved /\ c.used = b.used
  BY DEF Settled, IsBook, Ids

LEMMA SettledItself == ASSUME NEW b, IsBook(b) PROVE b \in Settled(b)
  BY DEF Settled, IsBook

\* Who may turn depends on who has failed and who has succeeded.
LEMMA TurnsAlike ==
    ASSUME NEW b, NEW c, c.def = b.def, c.reserved = b.reserved,
           \A j \in Ids(b) : /\ c.state[j] = "Failed" <=> b.state[j] = "Failed"
                             /\ c.state[j] = "Succeeded" <=> b.state[j] = "Succeeded",
           NEW i \in Ids(b), NEW s
    PROVE  MayTurn(c, i, s) <=> MayTurn(b, i, s)
<1>1. Ids(c) = Ids(b)
  BY DEF Ids
<1>2. MainsOf(c, i) = MainsOf(b, i) /\ MainsOf(b, i) \subseteq Ids(b)
  BY <1>1 DEF MainsOf
<1>3. Dormant(c, i) <=> Dormant(b, i)
  BY <1>2 DEF Dormant
<1>4. Stands(c, i) <=> Stands(b, i)
  BY <1>1 DEF Stands
<1> QED
  BY <1>3, <1>4 DEF MayTurn

\* What was dormant, or lacked a dependency, before settling does so afterwards.
LEMMA SettledTurns ==
    ASSUME NEW b, IsBook(b), NEW c \in Settled(b), NEW i \in Ids(b), NEW s
    PROVE  MayTurn(c, i, s) <=> MayTurn(b, i, s)
<1>1. c.def = b.def /\ c.reserved = b.reserved
  BY SettledIsBook
<1>2. \A j \in Ids(b) : /\ c.state[j] = "Failed" <=> b.state[j] = "Failed"
                        /\ c.state[j] = "Succeeded" <=> b.state[j] = "Succeeded"
  BY DEF Settled, MayTurn
<1> QED
  BY <1>1, <1>2, TurnsAlike

LEMMA SettledTwice ==
    ASSUME NEW b, IsBook(b), NEW c \in Settled(b), NEW e \in Settled(c)
    PROVE  e \in Settled(b)
<1>1. IsBook(c) /\ Ids(c) = Ids(b) /\ c.def = b.def /\ c.reserved = b.reserved /\ c.used = b.used
  BY SettledIsBook
<1>2. e \in [def : {b.def}, state : [Ids(b) -> States], reserved : {b.reserved}, used : {b.used}]
  BY <1>1 DEF Settled
<1>3. ASSUME NEW i \in Ids(b), e.state[i] # b.state[i]
      PROVE  b.state[i] = "Waiting" /\ MayTurn(b, i, e.state[i])
  <2>1. CASE e.state[i] = c.state[i]
    BY <1>3, <2>1 DEF Settled
  <2>2. CASE e.state[i] # c.state[i]
    <3>1. c.state[i] = "Waiting" /\ MayTurn(c, i, e.state[i])
      BY <1>1, <2>2 DEF Settled
    <3>2. b.state[i] = "Waiting"
      BY <3>1 DEF Settled, MayTurn
    <3> QED
      BY <3>1, <3>2, SettledTurns
  <2> QED
    BY <2>1, <2>2
<1> QED
  BY <1>2, <1>3 DEF Settled

LEMMA RoundSettles ==
    ASSUME NEW b, IsBook(b), NEW scope
    PROVE  Round(b, scope) \in Settled(b)
<1> DEFINE st == [i \in Ids(b) |-> IF i \in scope /\ b.state[i] = "Waiting"
                                   THEN Target(b, i) ELSE b.state[i]]
<1>1. Round(b, scope) = [def |-> b.def, state |-> st, reserved |-> b.reserved, used |-> b.used]
  BY DEF Round, IsBook
<1>2. st \in [Ids(b) -> States]
  BY TargetTurns DEF IsBook, States
<1>3. ASSUME NEW i \in Ids(b), st[i] # b.state[i]
      PROVE  b.state[i] = "Waiting" /\ MayTurn(b, i, st[i])
  BY <1>3, TargetTurns
<1> HIDE DEF st
<1> QED
  BY <1>1, <1>2, <1>3 DEF Settled

LEMMA SettleSettles ==
    ASSUME NEW b, IsBook(b), NEW scope, IsFiniteSet(scope)
    PROVE  Settle(b, scope) \in Settled(b)
<1>1. \A c \in Settled(b) : Round(c, scope) \in Settled(b)
  BY RoundSettles, SettledTwice, SettledIsBook
<1>2. b \in Settled(b) /\ Cardinality(scope) \in Nat
  BY SettledItself, FS_CardinalityType
<1>3. PICK f : Rounds(f, b, scope, Settled(b))
  BY <1>1, <1>2, SettleRuns
<1> QED
  BY <1>2, <1>3 DEF Rounds

LEMMA DownstreamIsFinite ==
    ASSUME NEW b, IsBook(b), NEW i
    PROVE  Downstream(b, i) \subseteq Ids(b) /\ IsFiniteSet(Downstream(b, i))
<1>1. Downstream(b, i) \subseteq Ids(b)
  BY DEF Downstream, Reached
<1> QED
  BY <1>1, FS_Subset DEF IsBook

LEMMA CascadeSettles ==
    ASSUME NEW b, IsBook(b), NEW i
    PROVE  Cascade(b, i) \in Settled(b)
  BY DownstreamIsFinite, SettleSettles DEF Cascade

\* A list of cascades goes from settled book to settled book.
Cascades(f, b, tasks) ==
    /\ f \in [0..Len(tasks) -> Settled(b)]
    /\ f[0] = b
    /\ \A n \in 1..Len(tasks) : f[n] = Cascade(f[n - 1], tasks[n])
    /\ CascadeAll(b, tasks) = f[Len(tasks)]

LEMMA CascadeAllRuns ==
    ASSUME NEW b, IsBook(b), NEW tasks, NEW N \in Nat, N = Len(tasks)
    PROVE  \E f : Cascades(f, b, tasks)
<1> DEFINE U == Settled(b)
<1>0. b \in U /\ \A c \in U : \A n : Cascade(c, tasks[n]) \in U
  BY SettledItself, CascadeSettles, SettledTwice, SettledIsBook
<1> HIDE DEF U
<1> DEFINE step == [n \in 1..N |-> [c \in U |-> Cascade(c, tasks[n])]]
           after[n \in 0..N] == IF n = 0 THEN b ELSE Cascade(after[n - 1], tasks[n])
<1>1. N \in Nat
  OBVIOUS
<1>2. step \in [1..N -> [U -> U]]
  BY <1>0
<1>3. PICK f : IsRun(f, b, step, N, U)
  BY <1>0, <1>1, <1>2, RunExists
<1>4. f = [n \in 0..N |-> IF n = 0 THEN b ELSE Cascade(f[n - 1], tasks[n])]
  <2>1. f = [n \in 0..N |-> f[n]] /\ f[0] = b
    BY <1>3 DEF IsRun
  <2>2. ASSUME NEW n \in 0..N, n # 0 PROVE f[n] = Cascade(f[n - 1], tasks[n])
    <3>1. n \in 1..N /\ f[n - 1] \in U
      BY <1>1, <1>3, <2>2 DEF IsRun
    <3>2. f[n] = step[n][f[n - 1]]
      BY <1>3, <3>1 DEF IsRun
    <3> QED
      BY <3>1, <3>2
  <2> HIDE DEF step
  <2> QED
    BY <2>1, <2>2
<1>5. after = [n \in 0..N |-> IF n = 0 THEN b ELSE Cascade(after[n - 1], tasks[n])]
  BY <1>4
<1>6. CascadeAll(b, tasks) = after[N]
  BY DEF CascadeAll
<1> HIDE DEF after
<1>7. IsRun(after, b, step, N, U)
  <2>1. after = [n \in 0..N |-> after[n]] /\ after[0] = b
    BY <1>1, <1>5
  <2>2. \A n \in 1..N : after[n - 1] \in U => after[n] = step[n][after[n - 1]]
    BY <1>1, <1>5
  <2> HIDE DEF step
  <2> QED
    BY <1>0, <1>1, <1>2, <2>1, <2>2, RecursionRuns
<1>8. \A n \in 1..N : after[n] = Cascade(after[n - 1], tasks[n])
  BY <1>1, <1>5
<1> QED
  BY <1>6, <1>7, <1>8 DEF IsRun, U, Cascades

LEMMA CascadeAllSettles ==
    ASSUME NEW b, IsBook(b), NEW tasks, Len(tasks) \in Nat
    PROVE  CascadeAll(b, tasks) \in Settled(b)
<1>1. PICK N \in Nat : N = Len(tasks)
  OBVIOUS
<1>2. PICK f : Cascades(f, b, tasks)
  BY <1>1, CascadeAllRuns
<1> QED
  BY <1>1, <1>2 DEF Cascades

\* A finite set can be listed.
LEMMA Listed ==
    ASSUME NEW S, IsFiniteSet(S)
    PROVE  SetToSeq(S) \in Seq(S)
<1>1. Cardinality(S) \in Nat
  BY FS_CardinalityType
<1>2. \E f : f \in Bijection(1..Cardinality(S), S)
  BY FS_CardinalityType DEF ExistsBijection
<1>3. \E f \in [1..Cardinality(S) -> S] : IsInjective(f)
  BY <1>2 DEF Bijection, Injection, IsInjective
<1>4. SetToSeq(S) \in [1..Cardinality(S) -> S]
  BY <1>3 DEF SetToSeq
<1> QED
  BY <1>1, <1>4

LEMMA ListedLength ==
    ASSUME NEW S, IsFiniteSet(S)
    PROVE  Len(SetToSeq(S)) = Cardinality(S)
<1>1. Cardinality(S) \in Nat
  BY FS_CardinalityType
<1>2. \E f : f \in Bijection(1..Cardinality(S), S)
  BY FS_CardinalityType DEF ExistsBijection
<1>3. \E f \in [1..Cardinality(S) -> S] : IsInjective(f)
  BY <1>2 DEF Bijection, Injection, IsInjective
<1>4. SetToSeq(S) \in [1..Cardinality(S) -> S]
  BY <1>3 DEF SetToSeq
<1> QED
  BY <1>1, <1>4

LEMMA PropagateSettles ==
    ASSUME NEW b, IsBook(b), NEW i, NEW s
    PROVE  Propagate(b, i, s) \in Settled(b)
<1> DEFINE S == IF s \in Terminal THEN Rescued(b, i) ELSE {}
<1>1. S \subseteq Ids(b)
  BY DEF Rescued, MainsOf
<1>2. SetToSeq(S) \in Seq(S)
  BY <1>1, FS_Subset, Listed DEF IsBook
<1> HIDE DEF S
<1>3. Len(<<i>> \o SetToSeq(S)) \in Nat
  BY <1>2
<1> QED
  BY <1>3, CascadeAllSettles DEF Propagate, S

LEMMA PropagateAllSettles ==
    ASSUME NEW b, IsBook(b), NEW line, Len(line) \in Nat
    PROVE  PropagateAll(b, line) \in Settled(b)
<1>1. \A c \in Settled(b) : \A n \in 1..Len(line) : Propagate(c, line[n], "Skipped") \in Settled(b)
  BY PropagateSettles, SettledTwice, SettledIsBook
<1> QED
  BY <1>1, SettledItself, PropagateAllRuns

-----------------------------------------------------------------------------
(* What follows a change that was made by hand.                              *)

\* New tasks are inline fallbacks, one at most; of the others only those that
\* wait, or a fallback in state Unknown, change.
Follows(b, c) ==
    /\ IsBook(c)
    /\ c.reserved = b.reserved
    /\ Ids(b) \subseteq Ids(c)
    /\ \A j \in Ids(b) : c.def[j] = b.def[j]
    /\ c.used = b.used \cup (Ids(c) \ Ids(b))
    /\ \A j \in Ids(c) \ Ids(b) :
         /\ j \in InlineIds \ b.used
         /\ \E i \in Ids(b) : NeedsInline(b, i) /\ c.def[j] = InlineDef(b, i)
         /\ References(c.def[j]) \subseteq Ids(b)
         /\ c.state[j] \in {"Waiting", "Ready", "Skipped"}
    /\ \A j, k \in Ids(c) \ Ids(b) : j = k
    /\ \A j \in Ids(b) : c.state[j] # b.state[j] =>
         /\ b.state[j] \in {"Waiting", "Unknown"}
         /\ c.state[j] \in {"Ready", "Skipped"}
         /\ j \notin b.reserved
    /\ \A j \in Ids(c) :
         c.state[j] = "Ready" /\ (j \in Ids(b) => b.state[j] # "Ready") => MayTurn(c, j, "Ready")

LEMMA FollowsItself == ASSUME NEW b, IsBook(b) PROVE Follows(b, b)
  BY DEF Follows

LEMMA SettledFollows ==
    ASSUME NEW b, IsBook(b), NEW c, Follows(b, c), NEW e \in Settled(c)
    PROVE  Follows(b, e)
<1>1. IsBook(c)
  BY DEF Follows
<1>2. IsBook(e) /\ Ids(e) = Ids(c) /\ e.def = c.def /\ e.reserved = c.reserved /\ e.used = c.used
  BY <1>1, SettledIsBook
<1>3. ASSUME NEW j \in Ids(c) \ Ids(b) PROVE e.state[j] \in {"Waiting", "Ready", "Skipped"}
  BY <1>3 DEF Follows, Settled, MayTurn
<1>4. ASSUME NEW j \in Ids(b), e.state[j] # b.state[j]
      PROVE  /\ b.state[j] \in {"Waiting", "Unknown"}
             /\ e.state[j] \in {"Ready", "Skipped"}
             /\ j \notin b.reserved
  <2>1. CASE e.state[j] = c.state[j]
    BY <1>4, <2>1 DEF Follows
  <2>2. CASE e.state[j] # c.state[j]
    <3>1. j \in Ids(c)
      BY DEF Follows
    <3>2. c.state[j] = "Waiting" /\ MayTurn(c, j, e.state[j])
      BY <2>2, <3>1 DEF Settled
    <3>3. b.state[j] = "Waiting"
      BY <3>2 DEF Follows
    <3>4. j \notin c.reserved /\ c.reserved = b.reserved
      BY <3>2 DEF MayTurn, Dormant, Follows
    <3> QED
      BY <3>2, <3>3, <3>4 DEF MayTurn
  <2> QED
    BY <2>1, <2>2
<1>5. ASSUME NEW j \in Ids(c), e.state[j] = "Ready", j \in Ids(b) => b.state[j] # "Ready"
      PROVE  MayTurn(e, j, "Ready")
  <2>1. MayTurn(c, j, "Ready")
    <3>1. CASE c.state[j] = "Ready"
      BY <1>5, <3>1 DEF Follows
    <3>2. CASE c.state[j] # "Ready"
      BY <1>5, <3>2 DEF Settled
    <3> QED
      BY <3>1, <3>2
  <2> QED
    BY <1>1, <2>1, SettledTurns
<1> QED
  BY <1>2, <1>3, <1>4, <1>5 DEF Follows

\* A task that is created, by a call or as an inline fallback.
LEMMA BornIs ==
    ASSUME NEW b, IsBook(b), NEW i \in Task \ Ids(b), NEW d \in Definition,
           NEW c, c = Born(b, i, d)
    PROVE  /\ IsBook(c)
           /\ Ids(c) = Ids(b) \cup {i}
           /\ c.def[i] = d
           /\ \A j \in Ids(b) : c.def[j] = b.def[j] /\ c.state[j] = b.state[j]
           /\ c.reserved = b.reserved
           /\ c.used = b.used \cup {i}
           /\ c.state[i] \in {"Waiting", "Ready", "Skipped"}
           /\ c.state[i] # "Waiting" => MayTurn(c, i, c.state[i])
<1> DEFINE b1 == [def |-> [j \in Ids(b) \cup {i} |-> IF j = i THEN d ELSE b.def[j]],
                  state |-> [j \in Ids(b) \cup {i} |-> IF j = i THEN "Waiting" ELSE b.state[j]],
                  reserved |-> b.reserved, used |-> b.used \cup {i}]
<1>1. Ids(b1) = Ids(b) \cup {i}
  BY DEF Ids
<1>2. IsBook(b1)
  <2>1. IsFiniteSet(Ids(b1))
    BY <1>1, FS_AddElement DEF IsBook
  <2>2. b1.def \in [Ids(b1) -> Definition]
    BY <1>1 DEF IsBook
  <2>3. b1.state \in [Ids(b1) -> States]
    BY <1>1 DEF IsBook, States
  <2> QED
    BY <2>1, <2>2, <2>3 DEF IsBook
<1>3. c = [b1 EXCEPT !.state[i] = Evaluated(b1, i)]
  BY DEF Born
<1>4. /\ Evaluated(b1, i) \in {"Waiting", "Ready", "Skipped"}
      /\ Evaluated(b1, i) # "Waiting" => MayTurn(b1, i, Evaluated(b1, i))
  BY <1>1, <1>2, EvaluatedTurns
<1>5. /\ c = [def |-> b1.def, state |-> [b1.state EXCEPT ![i] = Evaluated(b1, i)],
              reserved |-> b1.reserved, used |-> b1.used]
  BY <1>3
<1>6. /\ c.state[i] = Evaluated(b1, i)
      /\ \A j \in Ids(b) : c.state[j] = b.state[j]
      /\ c.def = b1.def /\ c.reserved = b.reserved /\ c.used = b.used \cup {i}
      /\ Ids(c) = Ids(b1)
  BY <1>5 DEF Ids
<1>7. IsBook(c)
  <2>1. c.state \in [Ids(c) -> States]
    <3>1. b1.state \in [Ids(b1) -> States] /\ Evaluated(b1, i) \in States
      BY <1>2, <1>4 DEF IsBook, States
    <3> HIDE DEF b1
    <3>2. c.state = [b1.state EXCEPT ![i] = Evaluated(b1, i)]
      BY <1>5
    <3> QED
      BY <1>6, <3>1, <3>2
  <2> QED
    BY <1>2, <1>5, <1>6, <2>1 DEF IsBook
<1>8. ASSUME c.state[i] # "Waiting" PROVE MayTurn(c, i, c.state[i])
  <2>1. MayTurn(b1, i, c.state[i])
    BY <1>4, <1>6, <1>8
  <2>2. \A j \in Ids(b1) : /\ c.state[j] = "Failed" <=> b1.state[j] = "Failed"
                           /\ c.state[j] = "Succeeded" <=> b1.state[j] = "Succeeded"
    BY <1>1, <1>4, <1>6
  <2>3. i \in Ids(b1) /\ c.def = b1.def /\ c.reserved = b1.reserved
    BY <1>1, <1>6
  <2> HIDE DEF b1
  <2> QED
    BY <2>1, <2>2, <2>3, TurnsAlike
<1>9. c.def[i] = d /\ \A j \in Ids(b) : c.def[j] = b.def[j]
  BY <1>6
<1> QED
  BY <1>1, <1>4, <1>6, <1>7, <1>8, <1>9

LEMMA InlineDefinition ==
    ASSUME NEW d \in Definition, NEW m \in Task
    PROVE  /\ InlineFor(d, m) \in Definition
           /\ InlineFor(d, m).of = m /\ InlineFor(d, m).target = Nobody
           /\ InlineFor(d, m).policy \in {"Abort", "Continue"}
  BY DEF InlineFor, Definition, InlineFallbackSpec, DefaultSpec, Policy

\* materialize_inline_fallback adds the fallback and changes nothing else.
LEMMA MaterializeFollows ==
    ASSUME NEW b, IsBook(b), NEW i \in Ids(b), Ids(b) \subseteq b.used,
           ~CannotRescue(b, i), NeedsInline(b, i) => ~(InlineIds \subseteq b.used)
    PROVE  Follows(b, Materialize(b, i))
<1>1. CASE ~NeedsInline(b, i)
  BY <1>1, FollowsItself DEF Materialize
<1>2. CASE NeedsInline(b, i)
  <2> DEFINE n == CHOOSE n \in InlineIds \ b.used : TRUE
             c == Born(b, n, InlineDef(b, i))
  <2>1. n \in InlineIds \ b.used /\ n \in Task \ Ids(b)
    BY <1>2, TaskAssumption
  <2>2. InlineDef(b, i) \in Definition
    BY InlineDefinition DEF InlineDef, IsBook
  <2>3. Materialize(b, i) = c
    BY <1>2 DEF Materialize
  <2>4. References(InlineDef(b, i)) \subseteq Ids(b)
    BY <1>2 DEF CannotRescue, Accepts
  <2> HIDE DEF c, n
  <2> QED
    BY <1>2, <2>1, <2>2, <2>3, <2>4, BornIs DEF Follows, c
<1> QED
  BY <1>1, <1>2

\* advance_existing_fallback moves the fallback on, if it may.
LEMMA AdvanceFollows ==
    ASSUME NEW b, IsBook(b), NEW f
    PROVE  Follows(b, Advance(b, f))
<1> DEFINE s == Evaluated(b, f)
           c == [b EXCEPT !.state[f] = s]
<1>1. CASE Advance(b, f) = b
  BY <1>1, FollowsItself
<1>2. CASE Advance(b, f) # b
  <2>1. Advance(b, f) = c /\ f \in Ids(b) /\ s # "Waiting" /\ <<b.state[f], s>> \in ValidTransition
    BY <1>2 DEF Advance
  <2>2. s \in {"Ready", "Skipped"} /\ MayTurn(b, f, s)
    BY <2>1, EvaluatedTurns
  <2>3. b.state[f] \in {"Waiting", "Unknown"}
    BY <2>1, <2>2 DEF ValidTransition
  <2> HIDE DEF s
  <2>4. c = [def |-> b.def, state |-> [b.state EXCEPT ![f] = s], reserved |-> b.reserved, used |-> b.used]
    BY DEF IsBook
  <2>5. Ids(c) = Ids(b) /\ c.def = b.def /\ c.reserved = b.reserved /\ c.used = b.used
    BY <2>4 DEF Ids
  <2>6. c.state[f] = s /\ \A j \in Ids(b) \ {f} : c.state[j] = b.state[j]
    BY <2>1, <2>4 DEF IsBook
  <2>7. IsBook(c)
    BY <2>1, <2>2, <2>4, <2>5 DEF IsBook, States
  <2> HIDE DEF c
  <2>8. MayTurn(c, f, s)
    BY <2>1, <2>2, <2>3, <2>5, <2>6, TurnsAlike
  <2>9. f \notin b.reserved
    BY <2>2 DEF MayTurn, Dormant
  <2> QED
    BY <2>1, <2>2, <2>3, <2>5, <2>6, <2>7, <2>8, <2>9 DEF Follows
<1> QED
  BY <1>1, <1>2

LEMMA SkipAllFollows ==
    ASSUME NEW b, IsBook(b), NEW S,
           \A j \in S \cap Ids(b) : b.state[j] = "Waiting" /\ j \notin b.reserved
    PROVE  Follows(b, SkipAll(b, S))
<1> DEFINE c == SkipAll(b, S)
           st == [j \in Ids(b) |-> IF j \in S THEN "Skipped" ELSE b.state[j]]
<1>1. c = [def |-> b.def, state |-> st, reserved |-> b.reserved, used |-> b.used]
  BY DEF SkipAll, IsBook
<1>2. Ids(c) = Ids(b) /\ c.def = b.def /\ c.reserved = b.reserved /\ c.used = b.used
  BY <1>1 DEF Ids
<1>3. IsBook(c)
  BY <1>1, <1>2 DEF IsBook, States
<1>4. \A j \in Ids(b) : c.state[j] = IF j \in S THEN "Skipped" ELSE b.state[j]
  BY <1>1
<1> HIDE DEF c
<1> QED
  BY <1>2, <1>3, <1>4 DEF Follows, c

\* Whoever is in the line besides i is a fallback that waits.
\* Unneeded goes from line to line: what WithFallback keeps, it keeps.
LEMMA UnneededRuns ==
    ASSUME NEW b, IsBook(b), NEW i, NEW U, <<i>> \in U, \A l \in U : WithFallback(b, l) \in U
    PROVE  Unneeded(b, i) \in U
<1> DEFINE N == Cardinality(Ids(b))
           step == [n \in 1..N |-> [l \in U |-> WithFallback(b, l)]]
           line[n \in 0..N] == IF n = 0 THEN <<i>> ELSE WithFallback(b, line[n - 1])
<1>1. N \in Nat
  BY FS_CardinalityType DEF IsBook
<1>2. step \in [1..N -> [U -> U]]
  OBVIOUS
<1>3. PICK f : IsRun(f, <<i>>, step, N, U)
  BY <1>1, <1>2, RunExists
<1>4. f = [n \in 0..N |-> IF n = 0 THEN <<i>> ELSE WithFallback(b, f[n - 1])]
  <2>1. f = [n \in 0..N |-> f[n]] /\ f[0] = <<i>>
    BY <1>3 DEF IsRun
  <2>2. ASSUME NEW n \in 0..N, n # 0 PROVE f[n] = WithFallback(b, f[n - 1])
    <3>1. n \in 1..N /\ f[n - 1] \in U
      BY <1>1, <1>3, <2>2 DEF IsRun
    <3>2. f[n] = step[n][f[n - 1]]
      BY <1>3, <3>1 DEF IsRun
    <3> QED
      BY <3>1, <3>2
  <2> HIDE DEF N, step
  <2> QED
    BY <2>1, <2>2
<1>5. line = [n \in 0..N |-> IF n = 0 THEN <<i>> ELSE WithFallback(b, line[n - 1])]
  BY <1>4
<1>6. Unneeded(b, i) = line[N]
  BY DEF Unneeded
<1> HIDE DEF line
<1>7. IsRun(line, <<i>>, step, N, U)
  <2>1. line = [n \in 0..N |-> line[n]] /\ line[0] = <<i>>
    BY <1>1, <1>5
  <2>2. \A n \in 1..N : line[n - 1] \in U => line[n] = step[n][line[n - 1]]
    BY <1>1, <1>5
  <2> HIDE DEF N, step
  <2> QED
    BY <1>1, <1>2, <2>1, <2>2, RecursionRuns
<1> QED
  BY <1>1, <1>6, <1>7 DEF IsRun

LEMMA UnneededWaits ==
    ASSUME NEW b, IsBook(b), NEW i \in Ids(b)
    PROVE  /\ Unneeded(b, i) \in Seq(Ids(b))
           /\ \A j \in Range(Unneeded(b, i)) \ {i} :
                b.state[j] = "Waiting" /\ \E m \in Ids(b) : b.def[m].target = j
<1> DEFINE Sleeps(j) == b.state[j] = "Waiting" /\ \E m \in Ids(b) : b.def[m].target = j
           U == {l \in Seq(Ids(b)) : l # <<>> /\ \A k \in 1..Len(l) : l[k] = i \/ Sleeps(l[k])}
<1>1. ASSUME NEW l \in U PROVE WithFallback(b, l) \in U
  <2> DEFINE f == b.def[Head(l)].target
  <2>1. CASE WithFallback(b, l) = l
    BY <2>1
  <2>2. CASE WithFallback(b, l) # l
    <3>1. f \in Ids(b) /\ b.state[f] = "Waiting" /\ WithFallback(b, l) = <<f>> \o l
      BY <2>2 DEF WithFallback
    <3>2. Head(l) \in Ids(b)
      OBVIOUS
    <3>3. Sleeps(f)
      BY <3>1, <3>2
    <3> DEFINE g == <<f>> \o l
    <3>4. g \in Seq(Ids(b)) /\ g # <<>> /\ Len(g) = Len(l) + 1 /\ g[1] = f
      BY <3>1
    <3>5. \A k \in 1..Len(g) : k # 1 => g[k] = l[k - 1] /\ k - 1 \in 1..Len(l)
      BY <3>1
    <3>6. \A k \in 1..Len(g) : g[k] = i \/ Sleeps(g[k])
      BY <3>3, <3>4, <3>5
    <3> HIDE DEF g, Sleeps
    <3>7. g \in U
      BY <3>4, <3>6
    <3> QED
      BY <3>1, <3>7 DEF g
  <2> QED
    BY <2>1, <2>2
<1>2. <<i>> \in U
  <2>1. <<i>> \in Seq(Ids(b)) /\ Len(<<i>>) = 1 /\ <<i>>[1] = i /\ <<i>> # <<>>
    OBVIOUS
  <2> QED
    BY <2>1
<1> HIDE DEF U
<1>3. Unneeded(b, i) \in U
  BY <1>1, <1>2, UnneededRuns
<1>4. Unneeded(b, i) \in Seq(Ids(b))
  BY <1>3 DEF U
<1>5. ASSUME NEW j \in Range(Unneeded(b, i)) \ {i} PROVE Sleeps(j)
  <2>1. PICK k \in 1..Len(Unneeded(b, i)) : j = Unneeded(b, i)[k]
    BY <1>4, <1>5 DEF Range
  <2> QED
    BY <1>3, <1>5, <2>1 DEF U
<1> QED
  BY <1>4, <1>5

LEMMA RescueFollows ==
    ASSUME NEW b, IsBook(b), NEW i \in Ids(b), Ids(b) \subseteq b.used, ~CannotRescue(b, i),
           NeedsInline(b, i) => ~(InlineIds \subseteq b.used)
    PROVE  Follows(b, Rescue(b, i))
  BY AdvanceFollows, MaterializeFollows DEF Rescue

\* b after i was put into state s by hand.
Put(b, i, s) == [b EXCEPT !.state[i] = s]

LEMMA PutIs ==
    ASSUME NEW b, IsBook(b), NEW i \in Ids(b), NEW s \in States, NEW c, c = Put(b, i, s)
    PROVE  /\ IsBook(c)
           /\ Ids(c) = Ids(b) /\ c.def = b.def /\ c.reserved = b.reserved /\ c.used = b.used
           /\ c.state[i] = s
           /\ \A j \in Ids(b) \ {i} : c.state[j] = b.state[j]
<1>1. c = [def |-> b.def, state |-> [b.state EXCEPT ![i] = s], reserved |-> b.reserved, used |-> b.used]
  BY DEF Put, IsBook
<1>2. Ids(c) = Ids(b) /\ c.def = b.def /\ c.reserved = b.reserved /\ c.used = b.used
  BY <1>1 DEF Ids
<1>3. c.state[i] = s /\ \A j \in Ids(b) \ {i} : c.state[j] = b.state[j]
  BY <1>1 DEF IsBook
<1>4. IsBook(c)
  BY <1>1, <1>2 DEF IsBook
<1> QED
  BY <1>2, <1>3, <1>4

\* All that a change of state takes with it (propagate_transition).
LEMMA SetStateFollows ==
    ASSUME NEW b, IsBook(b), NEW i \in Ids(b), NEW s \in States, Ids(b) \subseteq b.used,
           \A m \in Ids(b) : b.def[m].target \notin b.reserved,
           s = "Failed" /\ NeedsInline(b, i) => ~(InlineIds \subseteq b.used)
    PROVE  Follows(Put(b, i, s), SetState(b, i, s))
<1> DEFINE b1 == Put(b, i, s)
           line == Unneeded(b1, i)
<1>1. /\ IsBook(b1)
      /\ Ids(b1) = Ids(b) /\ b1.def = b.def /\ b1.reserved = b.reserved /\ b1.used = b.used
  BY PutIs
<1>2. SetState(b, i, s) =
        CASE s = "Failed" -> IF CannotRescue(b1, i) THEN b1 ELSE Propagate(Rescue(b1, i), i, s)
          [] s \in Terminal \ {"Failed"} -> PropagateAll(SkipAll(b1, Range(line) \ {i}), line)
          [] s \notin Terminal -> Propagate(b1, i, s)
  BY DEF SetState, Put
<1> HIDE DEF b1
<1>3. CASE s = "Failed"
  <2>1. NeedsInline(b1, i) => NeedsInline(b, i)
    BY <1>1 DEF NeedsInline, InlineOf, Ids
  <2>2. ASSUME ~CannotRescue(b1, i) PROVE Follows(b1, Rescue(b1, i))
    BY <1>1, <1>3, <2>1, <2>2, RescueFollows
  <2>3. ASSUME ~CannotRescue(b1, i) PROVE IsBook(Rescue(b1, i))
    BY <2>2, <2>3 DEF Follows
  <2>4. ASSUME ~CannotRescue(b1, i) PROVE Follows(b1, Propagate(Rescue(b1, i), i, s))
    BY <1>1, <2>2, <2>3, <2>4, PropagateSettles, SettledFollows
  <2>5. SetState(b, i, s) = IF CannotRescue(b1, i) THEN b1 ELSE Propagate(Rescue(b1, i), i, s)
    BY <1>2, <1>3 DEF Terminal
  <2> QED
    BY <1>1, <2>4, <2>5, FollowsItself DEF b1
<1>4. CASE s \in Terminal \ {"Failed"}
  <2> DEFINE S == Range(line) \ {i}
             c == SkipAll(b1, S)
  <2>1. line \in Seq(Ids(b1))
    BY <1>1, UnneededWaits
  <2>2. \A j \in S : b1.state[j] = "Waiting" /\ j \notin b1.reserved
    BY <1>1, UnneededWaits
  <2> HIDE DEF line
  <2>3. Follows(b1, c)
    BY <1>1, <2>2, SkipAllFollows
  <2>4. IsBook(c)
    BY <2>3 DEF Follows
  <2> HIDE DEF c
  <2>5. Follows(b1, PropagateAll(c, line))
    BY <1>1, <2>1, <2>3, <2>4, PropagateAllSettles, SettledFollows
  <2>6. SetState(b, i, s) = PropagateAll(c, line)
    BY <1>2, <1>4 DEF c
  <2> QED
    BY <2>5, <2>6 DEF b1
<1>5. CASE s \notin Terminal
  <2>1. SetState(b, i, s) = Propagate(b1, i, s)
    BY <1>2, <1>5 DEF Terminal
  <2>2. Follows(b1, Propagate(b1, i, s))
    BY <1>1, FollowsItself, PropagateSettles, SettledFollows
  <2> QED
    BY <2>1, <2>2 DEF b1
<1> QED
  BY <1>3, <1>4, <1>5

-----------------------------------------------------------------------------
(* The inductive invariant.                                                  *)

\* A stored definition is one of a menu, or that of an inline fallback.
Known(b, j) ==
    \/ j \in DOMAIN Definitions /\ b.def[j] \in Definitions[j]
    \/ /\ j \in InlineIds
       /\ \E m \in b.used \cap DOMAIN Definitions : \E d \in Definitions[m] :
            d.policy = "Inline" /\ b.def[j] = InlineFor(d, m)

WellFormed(b) ==
    /\ IsBook(b)
    /\ Ids(b) \subseteq b.used /\ b.used \subseteq Task
    /\ b.reserved \subseteq {i \in Ids(b) : b.state[i] \in {"Waiting", "Cancelled"}}
    /\ \A j \in Ids(b) :
         /\ References(b.def[j]) \subseteq b.used
         /\ b.def[j].target \notin b.reserved
         /\ Known(b, j)

Closed(b) == \A j \in Ids(b) : References(b.def[j]) \subseteq Ids(b)

\* What made a task Ready stands as long as it has not ended.
StartedStands(b) ==
    \A j \in Ids(b) :
        b.state[j] \in {"Ready", "Running", "Unknown"} /\ b.def[j].policy = "Abort" => Stands(b, j)

\* No task is created with the mark of an inline fallback.
Unmarked == \A i \in DOMAIN Definitions : \A d \in Definitions[i] : d.of = Nobody

Single(b) == \A j, k \in Ids(b) : b.def[j].of # Nobody /\ b.def[j].of = b.def[k].of => j = k

\* Every inline fallback is to wait for what its main waits for.
Inheriting ==
    \A i \in DOMAIN Definitions : \A d \in Definitions[i] :
        d.policy = "Inline" => ~d.inline.own /\ d.inline.inputs = {}

Shaped(b) ==
    \A n, m \in Ids(b) : b.def[n].of = m => b.def[n].deps = b.def[m].deps /\ b.def[n].inputs = {}

IInv ==
    /\ WellFormed(Book)
    /\ ~ForceDeletes => Closed(Book) /\ StartedStands(Book)
    /\ Unmarked => Single(Book)
    /\ Unmarked /\ Inheriting => Shaped(Book)

-----------------------------------------------------------------------------
(* The four things an operation may do to a book.                            *)

\* A task changes its state, with all that follows.
Transits(b, c, i, s) ==
    /\ i \in Ids(b)
    /\ <<b.state[i], s>> \in ValidTransition \cup {<<"Ready", "Failed">>}
    /\ s \in {"Running", "Succeeded", "Failed", "Cancelled", "Unknown"}
    /\ Follows(Put(b, i, s), c)

\* A task is created, and a fallback it names adopted.
Grows(b, c, i, d) ==
    /\ i \in DOMAIN Definitions /\ d \in Definitions[i]
    /\ i \notin b.used /\ References(d) \subseteq Ids(b)
    /\ IsBook(c)
    /\ Ids(c) = Ids(b) \cup {i}
    /\ c.used = b.used \cup {i}
    /\ c.def[i] = d
    /\ c.state[i] \in {"Waiting", "Ready", "Skipped"}
    /\ c.state[i] = "Ready" /\ d.policy = "Abort" => Stands(c, i)
    /\ c.reserved \subseteq (b.reserved \cup {i}) \ {d.target}
    /\ i \in c.reserved => c.state[i] = "Waiting"
    /\ \A j \in Ids(b) :
         /\ c.def[j] = b.def[j]
         /\ c.state[j] = b.state[j] \/ (b.state[j] = "Ready" /\ c.state[j] = "Waiting")

\* A task is taken up again, with some that ended downstream of it.
Resumes(b, c, i) ==
    /\ IsBook(c)
    /\ Ids(c) = Ids(b) /\ c.def = b.def /\ c.reserved = b.reserved /\ c.used = b.used
    /\ \A j \in Ids(b) : c.state[j] # b.state[j] =>
         /\ b.state[j] \notin {"Ready", "Running", "Succeeded"}
         /\ c.state[j] \in {"Waiting", "Ready", "Skipped"}
         /\ j \in b.reserved => c.state[j] = "Waiting"
         /\ c.state[j] = "Ready" /\ b.def[j].policy = "Abort" => Stands(c, j)
         /\ c.state[j] = "Ready" =>
              \A m \in MainsOf(b, j) : c.state[m] = "Failed" \/ (j = i /\ m \in Downstream(b, i))

\* Tasks are deleted.
Removes(b, c, gone) ==
    /\ c = Without(b, gone)
    /\ \A j \in gone \cap Ids(b) : b.state[j] # "Running"
    /\ ~ForceDeletes => \A j \in Ids(b) \ gone : References(b.def[j]) \cap gone = {}

Changes(b, c) ==
    \/ \E i, s : Transits(b, c, i, s)
    \/ \E i, d : Grows(b, c, i, d)
    \/ \E i : Resumes(b, c, i)
    \/ \E gone : Removes(b, c, gone)

LEMMA WrittenBook ==
    ASSUME NEW b, IsBook(b), Write(b)
    PROVE  Book' = b
  BY DEF IsBook, Write, Book

LEMMA SetStateTransits ==
    ASSUME NEW b, WellFormed(b), NEW i \in Ids(b), NEW s,
           <<b.state[i], s>> \in ValidTransition \cup {<<"Ready", "Failed">>},
           s \in {"Running", "Succeeded", "Failed", "Cancelled", "Unknown"},
           s = "Failed" /\ NeedsInline(b, i) => ~(InlineIds \subseteq b.used)
    PROVE  Transits(b, SetState(b, i, s), i, s) /\ IsBook(SetState(b, i, s))
<1>1. s \in States
  BY DEF States
<1>2. Follows(Put(b, i, s), SetState(b, i, s))
  BY <1>1, SetStateFollows DEF WellFormed
<1> QED
  BY <1>2 DEF Transits, Follows

LEMMA AdoptIs ==
    ASSUME NEW b, IsBook(b), NEW f, NEW c, c = Adopt(b, f), b.reserved \subseteq Ids(b)
    PROVE  /\ IsBook(c)
           /\ Ids(c) = Ids(b) /\ c.def = b.def /\ c.used = b.used
           /\ c.reserved = b.reserved \ {f}
           /\ \A j \in Ids(b) : \/ c.state[j] = b.state[j]
                                \/ j = f /\ b.state[j] = "Ready" /\ c.state[j] = "Waiting"
<1>1. CASE f \notin Ids(b)
  BY <1>1 DEF Adopt
<1>2. CASE f \in Ids(b)
  <2> DEFINE st == [b.state EXCEPT ![f] = IF @ = "Ready" THEN "Waiting" ELSE @]
  <2>1. c = [def |-> b.def, state |-> st, reserved |-> b.reserved \ {f}, used |-> b.used]
    BY <1>2 DEF Adopt, IsBook
  <2>2. st \in [Ids(b) -> States]
    BY <1>2 DEF IsBook, States
  <2>3. \A j \in Ids(b) : st[j] = b.state[j] \/ (j = f /\ b.state[j] = "Ready" /\ st[j] = "Waiting")
    BY <1>2 DEF IsBook
  <2> HIDE DEF st
  <2>4. Ids(c) = Ids(b)
    BY <2>1 DEF Ids
  <2> QED
    BY <2>1, <2>2, <2>3, <2>4 DEF IsBook
<1> QED
  BY <1>1, <1>2

LEMMA StandsAlike ==
    ASSUME NEW b, NEW c, NEW i, b.def[i].deps \subseteq Ids(b), c.def[i] = b.def[i], Ids(b) \subseteq Ids(c),
           \A j \in b.def[i].deps : /\ c.def[j] = b.def[j]
                                    /\ b.state[j] = "Succeeded" => c.state[j] = "Succeeded",
           Stands(b, i)
    PROVE  Stands(c, i)
  BY DEF Stands

LEMMA CreateGrows ==
    ASSUME NEW b, WellFormed(b), NEW i \in DOMAIN Definitions, NEW d \in Definitions[i],
           i \notin b.used, References(d) \subseteq Ids(b), NEW c, c = Adopt(Born(b, i, d), d.target)
    PROVE  Grows(b, c, i, d) /\ c.reserved \subseteq b.reserved \ {d.target}
<1> DEFINE e == Born(b, i, d)
<1>1. i \in Task \ Ids(b) /\ d \in Definition
  BY TaskAssumption DEF WellFormed
<1>2. /\ IsBook(e) /\ Ids(e) = Ids(b) \cup {i} /\ e.def[i] = d
      /\ \A j \in Ids(b) : e.def[j] = b.def[j] /\ e.state[j] = b.state[j]
      /\ e.reserved = b.reserved /\ e.used = b.used \cup {i}
      /\ e.state[i] \in {"Waiting", "Ready", "Skipped"}
      /\ e.state[i] # "Waiting" => MayTurn(e, i, e.state[i])
  BY <1>1, BornIs DEF WellFormed
<1>3. c = Adopt(e, d.target) /\ e.reserved \subseteq Ids(e)
  BY <1>2 DEF WellFormed
<1> HIDE DEF e
<1>4. /\ IsBook(c) /\ Ids(c) = Ids(e) /\ c.def = e.def /\ c.used = e.used
      /\ c.reserved = e.reserved \ {d.target}
      /\ \A j \in Ids(e) : \/ c.state[j] = e.state[j]
                           \/ j = d.target /\ e.state[j] = "Ready" /\ c.state[j] = "Waiting"
  BY <1>2, <1>3, AdoptIs
<1>5. d.target # i
  BY <1>1, TaskAssumption DEF References
<1>6. c.state[i] = e.state[i]
  BY <1>2, <1>4, <1>5
<1>7. c.state[i] = "Ready" /\ d.policy = "Abort" => Stands(c, i)
  <2> SUFFICES ASSUME c.state[i] = "Ready", d.policy = "Abort" PROVE Stands(c, i)
    OBVIOUS
  <2>1. Stands(e, i)
    BY <1>2, <1>6 DEF MayTurn
  <2>2. e.def[i].deps \subseteq Ids(e)
    BY <1>2 DEF References
  <2>3. \A j \in e.def[i].deps : c.def[j] = e.def[j] /\ (e.state[j] = "Succeeded" => c.state[j] = "Succeeded")
    BY <1>4, <2>2
  <2> QED
    BY <1>4, <2>1, <2>2, <2>3, StandsAlike
<1>8. c.reserved \subseteq b.reserved \ {d.target}
  BY <1>2, <1>4
<1>9. i \notin c.reserved
  BY <1>1, <1>8 DEF WellFormed
<1>10. \A j \in Ids(b) :
         /\ c.def[j] = b.def[j]
         /\ c.state[j] = b.state[j] \/ (b.state[j] = "Ready" /\ c.state[j] = "Waiting")
  BY <1>2, <1>4
<1> QED
  BY <1>2, <1>4, <1>6, <1>7, <1>8, <1>9, <1>10 DEF Grows

\* The reservation itself puts the new task to sleep.
LEMMA ReserveGrows ==
    ASSUME NEW b, WellFormed(b), NEW i \in DOMAIN Definitions, NEW d \in Definitions[i],
           i \notin b.used, References(d) \subseteq Ids(b),
           NEW e, e = Adopt(Born(b, i, d), d.target),
           NEW c, c = [e EXCEPT !.state[i] = "Waiting", !.reserved = @ \cup {i}]
    PROVE  Grows(b, c, i, d)
<1>1. Grows(b, e, i, d) /\ e.reserved \subseteq b.reserved \ {d.target}
  BY CreateGrows
<1>2. IsBook(e) /\ i \in Ids(e) /\ i \notin Ids(b) /\ Ids(b) \subseteq Task
  BY <1>1 DEF Grows, WellFormed
<1>3. c = [def |-> e.def, state |-> [e.state EXCEPT ![i] = "Waiting"],
           reserved |-> e.reserved \cup {i}, used |-> e.used]
  BY <1>2 DEF IsBook
<1>4. Ids(c) = Ids(e) /\ c.def = e.def /\ c.used = e.used /\ c.reserved = e.reserved \cup {i}
  BY <1>3 DEF Ids
<1>5. c.state[i] = "Waiting" /\ \A j \in Ids(e) \ {i} : c.state[j] = e.state[j]
  BY <1>2, <1>3 DEF IsBook
<1>6. c.state \in [Ids(c) -> States]
  BY <1>2, <1>3, <1>4 DEF IsBook, States
<1>7. IsBook(c)
  BY <1>2, <1>3, <1>4, <1>6 DEF IsBook
<1>8. d.target # i
  BY <1>2, TaskAssumption DEF References, Definition
<1>9. \A j \in Ids(b) :
         /\ c.def[j] = b.def[j]
         /\ c.state[j] = b.state[j] \/ (b.state[j] = "Ready" /\ c.state[j] = "Waiting")
  BY <1>1, <1>2, <1>4, <1>5 DEF Grows
<1>10. c.reserved \subseteq (b.reserved \cup {i}) \ {d.target}
  BY <1>1, <1>4, <1>8
<1> QED
  BY <1>1, <1>4, <1>5, <1>7, <1>9, <1>10 DEF Grows

LEMMA CreateChanges ==
    ASSUME WellFormed(Book), NEW i \in DOMAIN Definitions, NEW d \in Definitions[i], Create(i, d)
    PROVE  Changes(Book, Book')
<1> DEFINE c == Adopt(Born(Book, i, d), d.target)
<1>1. i \notin Book.used /\ References(d) \subseteq Ids(Book) /\ Write(c)
  BY DEF Create, Creatable, Accepts, Book, Ids
<1>2. Grows(Book, c, i, d)
  BY <1>1, CreateGrows
<1>3. Book' = c
  BY <1>1, <1>2, WrittenBook DEF Grows
<1> QED
  BY <1>2, <1>3 DEF Changes

LEMMA CreateReservedChanges ==
    ASSUME WellFormed(Book), NEW i \in DOMAIN Definitions, NEW d \in Definitions[i], CreateReserved(i, d)
    PROVE  Changes(Book, Book')
<1> DEFINE e == Adopt(Born(Book, i, d), d.target)
           c == [e EXCEPT !.state[i] = "Waiting", !.reserved = @ \cup {i}]
<1>1. i \notin Book.used /\ References(d) \subseteq Ids(Book) /\ Write(c)
  BY DEF CreateReserved, Creatable, Accepts, Book, Ids
<1>2. Grows(Book, c, i, d)
  <2> HIDE DEF e
  <2> QED
    BY <1>1, ReserveGrows DEF e
<1>3. Book' = c
  BY <1>1, <1>2, WrittenBook DEF Grows
<1> QED
  BY <1>2, <1>3 DEF Changes

\* A task that is taken up again is settled at once.
LEMMA TakenUpSettles ==
    ASSUME NEW b, IsBook(b), NEW i \in Ids(b), b.state[i] = "Waiting",
           NEW c, c = Put(b, i, Target(b, i))
    PROVE  c \in Settled(b)
<1>1. Target(b, i) \in States
  BY TargetTurns DEF States
<1>2. /\ IsBook(c) /\ Ids(c) = Ids(b) /\ c.def = b.def /\ c.reserved = b.reserved /\ c.used = b.used
      /\ c.state[i] = Target(b, i) /\ \A j \in Ids(b) \ {i} : c.state[j] = b.state[j]
  BY <1>1, PutIs
<1>3. ASSUME NEW j \in Ids(b), c.state[j] # b.state[j]
      PROVE  b.state[j] = "Waiting" /\ MayTurn(b, j, c.state[j])
  BY <1>2, <1>3, TargetTurns
<1> QED
  BY <1>2, <1>3 DEF Settled, IsBook

\* b after the tasks of S were made to wait again.
Again(b, S) == [b EXCEPT !.state = [j \in Ids(b) |-> IF j \in S THEN "Waiting" ELSE @[j]]]

LEMMA AgainIs ==
    ASSUME NEW b, IsBook(b), NEW S, NEW c, c = Again(b, S)
    PROVE  /\ IsBook(c)
           /\ Ids(c) = Ids(b) /\ c.def = b.def /\ c.reserved = b.reserved /\ c.used = b.used
           /\ \A j \in Ids(b) : c.state[j] = IF j \in S THEN "Waiting" ELSE b.state[j]
<1> DEFINE st == [j \in Ids(b) |-> IF j \in S THEN "Waiting" ELSE b.state[j]]
<1>1. c = [def |-> b.def, state |-> st, reserved |-> b.reserved, used |-> b.used]
  BY DEF Again, IsBook
<1>2. st \in [Ids(b) -> States]
  BY DEF IsBook, States
<1>3. \A j \in Ids(b) : st[j] = IF j \in S THEN "Waiting" ELSE b.state[j]
  OBVIOUS
<1> HIDE DEF st
<1>4. Ids(c) = Ids(b)
  BY <1>1 DEF Ids
<1> QED
  BY <1>1, <1>2, <1>3, <1>4 DEF IsBook

LEMMA RetryResumes ==
    ASSUME NEW b, WellFormed(b), NEW i \in Ids(b),
           b.state[i] \in {"Failed", "Cancelled", "Skipped", "Unknown"},
           NEW b1, b1 = Put(b, i, "Waiting"), NEW b2, b2 = Put(b1, i, Target(b1, i))
    PROVE  Resumes(b, b2, i) /\ Resumes(b, Rewind(b2, i), i)
<1>1. /\ IsBook(b1) /\ Ids(b1) = Ids(b) /\ b1.def = b.def /\ b1.reserved = b.reserved
      /\ b1.used = b.used /\ b1.state[i] = "Waiting"
      /\ \A j \in Ids(b) \ {i} : b1.state[j] = b.state[j]
  <2>1. IsBook(b) /\ "Waiting" \in States
    BY DEF WellFormed, States
  <2> QED
    BY <2>1, PutIs
<1>2. b2 \in Settled(b1)
  BY <1>1, TakenUpSettles
<1>3. /\ IsBook(b2) /\ Ids(b2) = Ids(b) /\ b2.def = b.def /\ b2.reserved = b.reserved
      /\ b2.used = b.used
  BY <1>1, <1>2, SettledIsBook
<1>4. \A j \in Ids(b) : b2.state[j] # b1.state[j] =>
         j = i /\ MayTurn(b1, j, b2.state[j])
  <2>1. Target(b1, i) \in States
    BY <1>1, TargetTurns DEF States
  <2>2. \A j \in Ids(b1) \ {i} : b2.state[j] = b1.state[j]
    BY <1>1, <2>1, PutIs
  <2> QED
    BY <1>1, <1>2, <2>2 DEF Settled
\* What the turn of i rests on is still there in any book with the same definitions
\* that keeps what had succeeded.
<1>5. ASSUME NEW c, IsBook(c), Ids(c) = Ids(b), c.def = b.def,
             \A j \in Ids(b) : b1.state[j] = "Succeeded" => c.state[j] = "Succeeded",
             MayTurn(b1, i, "Ready"), b.def[i].policy = "Abort"
      PROVE  Stands(c, i)
  <2>1. Stands(b1, i)
    BY <1>1, <1>5 DEF MayTurn
  <2>2. b1.def[i].deps \subseteq Ids(b1)
    BY <2>1 DEF Stands
  <2> QED
    BY <1>1, <1>5, <2>1, <2>2 DEF Stands
<1>6. \A s : MayTurn(b1, i, s) => i \notin b.reserved
  BY <1>1 DEF MayTurn, Dormant
<1>7. \A m \in MainsOf(b, i) : m \in Ids(b) /\ (MayTurn(b1, i, "Ready") => b1.state[m] = "Failed")
  BY <1>1 DEF MayTurn, Dormant, MainsOf, Ids
<1>8. Resumes(b, b2, i)
  <2> SUFFICES ASSUME NEW j \in Ids(b), b2.state[j] # b.state[j]
               PROVE  /\ b.state[j] \notin {"Ready", "Running", "Succeeded"}
                      /\ b2.state[j] \in {"Waiting", "Ready", "Skipped"}
                      /\ j \in b.reserved => b2.state[j] = "Waiting"
                      /\ b2.state[j] = "Ready" /\ b.def[j].policy = "Abort" => Stands(b2, j)
                      /\ b2.state[j] = "Ready" =>
                           \A m \in MainsOf(b, j) :
                              b2.state[m] = "Failed" \/ (j = i /\ m \in Downstream(b, i))
    BY <1>3 DEF Resumes
  <2>1. j = i
    BY <1>1, <1>4
  <2>2. b2.state[i] = "Waiting" \/ MayTurn(b1, i, b2.state[i])
    BY <1>1, <1>4
  <2>3. b2.state[i] \in {"Waiting", "Ready", "Skipped"}
    BY <2>2 DEF MayTurn
  <2>4. i \in b.reserved => b2.state[i] = "Waiting"
    BY <2>2, <1>6
  <2>5. \A k \in Ids(b) : b1.state[k] \in {"Succeeded", "Failed"} => b2.state[k] = b1.state[k]
    BY <1>1, <1>4
  <2>6. b2.state[i] = "Ready" /\ b.def[i].policy = "Abort" => Stands(b2, i)
    BY <1>3, <1>5, <2>2, <2>5
  <2>7. b2.state[i] = "Ready" => \A m \in MainsOf(b, i) : b2.state[m] = "Failed"
    BY <1>7, <2>2, <2>5
  <2> QED
    BY <2>1, <2>3, <2>4, <2>6, <2>7
<1> DEFINE reset == {j \in Downstream(b2, i) : b2.state[j] \in Terminal \ {"Succeeded"}}
           b3 == Again(b2, reset)
           b4 == Cascade(b3, i)
<1>9. Rewind(b2, i) = b4
  BY DEF Rewind, Again
<1>10. reset \subseteq Downstream(b, i)
  BY <1>3 DEF Downstream, Users, Ids
<1>11. \A j \in reset : b2.state[j] \in {"Failed", "Cancelled", "Skipped"}
  BY DEF Terminal
<1> HIDE DEF reset
<1>12. /\ IsBook(b3) /\ Ids(b3) = Ids(b) /\ b3.def = b.def /\ b3.reserved = b.reserved
       /\ b3.used = b.used
       /\ \A j \in Ids(b) : b3.state[j] = IF j \in reset THEN "Waiting" ELSE b2.state[j]
  BY <1>3, AgainIs
<1> HIDE DEF b3
<1>13. b4 \in Settled(b3)
  BY <1>12, CascadeSettles
<1> HIDE DEF b4
<1>14. /\ IsBook(b4) /\ Ids(b4) = Ids(b) /\ b4.def = b.def /\ b4.reserved = b.reserved
       /\ b4.used = b.used
  BY <1>12, <1>13, SettledIsBook
<1>15. \A j \in Ids(b) : b4.state[j] # b3.state[j] => b3.state[j] = "Waiting" /\ MayTurn(b3, j, b4.state[j])
  BY <1>12, <1>13 DEF Settled
<1>16. \A j \in Ids(b) : b1.state[j] = "Succeeded" => b4.state[j] = "Succeeded"
  BY <1>1, <1>4, <1>11, <1>12, <1>15
<1>17. \A j \in Ids(b) : b1.state[j] = "Failed" => b4.state[j] = "Failed" \/ j \in Downstream(b, i)
  BY <1>1, <1>4, <1>10, <1>12, <1>15
<1>18. \A j \in Ids(b) : \A s : MayTurn(b3, j, s) => MayTurn(b4, j, s)
  BY <1>12, <1>13, SettledTurns
<1>19. Resumes(b, b4, i)
  <2> SUFFICES ASSUME NEW j \in Ids(b), b4.state[j] # b.state[j]
               PROVE  /\ b.state[j] \notin {"Ready", "Running", "Succeeded"}
                      /\ b4.state[j] \in {"Waiting", "Ready", "Skipped"}
                      /\ j \in b.reserved => b4.state[j] = "Waiting"
                      /\ b4.state[j] = "Ready" /\ b.def[j].policy = "Abort" => Stands(b4, j)
                      /\ b4.state[j] = "Ready" =>
                           \A m \in MainsOf(b, j) :
                              b4.state[m] = "Failed" \/ (j = i /\ m \in Downstream(b, i))
    BY <1>14 DEF Resumes
  <2>1. b.state[j] \notin {"Ready", "Running", "Succeeded"}
    BY <1>1, <1>4, <1>11, <1>12, <1>15
  <2>2. \/ b4.state[j] = "Waiting"
        \/ MayTurn(b4, j, b4.state[j])
        \/ j = i /\ MayTurn(b1, i, b4.state[i])
    BY <1>1, <1>4, <1>12, <1>15, <1>18
  <2>3. b4.state[j] \in {"Waiting", "Ready", "Skipped"}
    BY <2>2 DEF MayTurn
  <2>4. j \in b.reserved => b4.state[j] = "Waiting"
    BY <1>6, <1>14, <2>2 DEF MayTurn, Dormant
  <2>5. b4.state[j] = "Ready" /\ b.def[j].policy = "Abort" => Stands(b4, j)
    <3>1. MayTurn(b4, j, "Ready") /\ b.def[j].policy = "Abort" => Stands(b4, j)
      BY <1>14 DEF MayTurn
    <3> QED
      BY <1>5, <1>14, <1>16, <2>2, <3>1
  <2>6. b4.state[j] = "Ready" =>
          \A m \in MainsOf(b, j) : b4.state[m] = "Failed" \/ (j = i /\ m \in Downstream(b, i))
    <3>1. MayTurn(b4, j, "Ready") => \A m \in MainsOf(b, j) : b4.state[m] = "Failed"
      BY <1>14 DEF MayTurn, Dormant, MainsOf, Ids
    <3> QED
      BY <1>7, <1>17, <2>2, <3>1
  <2> QED
    BY <2>1, <2>3, <2>4, <2>5, <2>6
<1> QED
  BY <1>8, <1>9, <1>19

LEMMA TransitChanges ==
    ASSUME WellFormed(Book), NEW i, NEW s, i \in DOMAIN def,
           <<state[i], s>> \in ValidTransition \cup {<<"Ready", "Failed">>},
           s \in {"Running", "Succeeded", "Failed", "Cancelled", "Unknown"},
           s = "Failed" => HasInlineId(i), Write(SetState(Book, i, s))
    PROVE  \E t \in {s} : Transits(Book, Book', i, t)
<1>1. i \in Ids(Book) /\ Book.state[i] = state[i] /\ Book.used = used
  BY DEF Ids, Book
<1>2. s = "Failed" /\ NeedsInline(Book, i) => ~(InlineIds \subseteq Book.used)
  BY <1>1 DEF HasInlineId
<1>3. Transits(Book, SetState(Book, i, s), i, s) /\ IsBook(SetState(Book, i, s))
  BY <1>1, <1>2, SetStateTransits
<1>4. Book' = SetState(Book, i, s)
  BY <1>3, WrittenBook
<1> QED
  BY <1>3, <1>4

LEMMA StartChanges ==
    ASSUME WellFormed(Book), NEW i, Start(i)
    PROVE  Changes(Book, Book')
<1>1. i \in DOMAIN def /\ <<state[i], "Running">> \in ValidTransition
  BY DEF Start, CanSet
<1>2. state[i] = "Ready"
  BY <1>1 DEF ValidTransition
<1>3. CASE i \in TooLarge
  <2>1. \E t \in {"Failed"} : Transits(Book, Book', i, t)
    BY <1>1, <1>2, <1>3, TransitChanges DEF Start
  <2> QED
    BY <2>1 DEF Changes
<1>4. CASE i \notin TooLarge
  <2>1. \E t \in {"Running"} : Transits(Book, Book', i, t)
    BY <1>1, <1>4, TransitChanges DEF Start
  <2> QED
    BY <2>1 DEF Changes
<1> QED
  BY <1>3, <1>4

LEMMA FinishChanges ==
    ASSUME WellFormed(Book), NEW i, NEW s \in {"Succeeded", "Failed", "Unknown", "Cancelled"},
           CanSet(i, s), Write(SetState(Book, i, s))
    PROVE  Changes(Book, Book')
<1>1. \E t \in {s} : Transits(Book, Book', i, t)
  BY TransitChanges DEF CanSet
<1> QED
  BY <1>1 DEF Changes

LEMMA RetryChanges ==
    ASSUME WellFormed(Book), NEW i, NEW reset, Retry(i, reset)
    PROVE  Changes(Book, Book')
<1> DEFINE b1 == Put(Book, i, "Waiting")
           b2 == Put(b1, i, Target(b1, i))
           b == IF reset THEN Rewind(b2, i) ELSE b2
<1>1. i \in Ids(Book) /\ Book.state[i] \in {"Failed", "Cancelled", "Skipped", "Unknown"} /\ Write(b)
  BY DEF Retry, Put, Ids, Book
<1>2. Resumes(Book, b2, i) /\ Resumes(Book, Rewind(b2, i), i)
  <2> HIDE DEF b1
  <2>1. b1 = Put(Book, i, "Waiting") /\ b2 = Put(b1, i, Target(b1, i))
    BY DEF b1
  <2> HIDE DEF b2
  <2> QED
    BY <1>1, <2>1, RetryResumes
<1> HIDE DEF b2
<1>3. Resumes(Book, b, i)
  BY <1>2
<1> HIDE DEF b
<1>4. Book' = b
  BY <1>1, <1>3, WrittenBook DEF Resumes
<1> QED
  BY <1>3, <1>4 DEF Changes

LEMMA WithoutIs ==
    ASSUME NEW b, IsBook(b), NEW gone, NEW c, c = Without(b, gone)
    PROVE  /\ IsBook(c)
           /\ Ids(c) = Ids(b) \ gone
           /\ \A j \in Ids(c) : c.def[j] = b.def[j] /\ c.state[j] = b.state[j]
           /\ c.reserved = b.reserved \ gone /\ c.used = b.used
<1> DEFINE kept == Ids(b) \ gone
<1>1. c = [def |-> [i \in kept |-> b.def[i]], state |-> [i \in kept |-> b.state[i]],
           reserved |-> b.reserved \ gone, used |-> b.used]
  BY DEF Without
<1>2. Ids(c) = kept
  BY <1>1 DEF Ids
<1>3. IsFiniteSet(kept)
  BY FS_Subset DEF IsBook
<1>4. c.def \in [kept -> Definition] /\ c.state \in [kept -> States]
  BY <1>1 DEF IsBook
<1>5. \A j \in kept : c.def[j] = b.def[j] /\ c.state[j] = b.state[j]
  BY <1>1
<1>6. IsBook(c)
  <2> HIDE DEF kept
  <2>1. c = [def |-> c.def, state |-> c.state, reserved |-> c.reserved, used |-> c.used]
    BY <1>1
  <2>2. kept \subseteq Task
    BY DEF kept, IsBook
  <2> QED
    BY <1>2, <1>3, <1>4, <2>1, <2>2 DEF IsBook
<1>7. c.reserved = b.reserved \ gone /\ c.used = b.used
  BY <1>1
<1> QED
  BY <1>2, <1>5, <1>6, <1>7

\* delete_checked and plan_sweep take nothing away that is still referred to.
LEMMA RemovalChanges ==
    ASSUME WellFormed(Book), NEW gone, Write(Without(Book, gone)),
           \A j \in gone \cap Ids(Book) : state[j] # "Running",
           ~ForceDeletes => \A j \in gone : Referencers(Book, j) \subseteq gone
    PROVE  Changes(Book, Book')
<1>1. IsBook(Without(Book, gone))
  BY WithoutIs DEF WellFormed
<1>2. Book' = Without(Book, gone)
  BY <1>1, WrittenBook
<1>3. \A j \in gone \cap Ids(Book) : Book.state[j] # "Running"
  BY DEF Book
<1>4. ~ForceDeletes => \A j \in Ids(Book) \ gone : References(Book.def[j]) \cap gone = {}
  BY DEF Referencers
<1> QED
  BY <1>2, <1>3, <1>4 DEF Changes, Removes

LEMMA DeleteChanges ==
    ASSUME WellFormed(Book), NEW i, Delete(i)
    PROVE  Changes(Book, Book')
<1>1. ~ForceDeletes => \A j \in {i} : Referencers(Book, j) \subseteq {i}
  BY DEF Delete
<1> QED
  BY <1>1, RemovalChanges DEF Delete

\* With a task go those that refer to it, and those that refer to them.
LEMMA ReferencersGoToo ==
    ASSUME NEW b, NEW i \in Ids(b), NEW j \in WithReferencers(b, i)
    PROVE  Referencers(b, j) \subseteq WithReferencers(b, i)
<1> DEFINE next == [k \in Ids(b) |-> Referencers(b, k)]
<1>1. SUFFICES ASSUME NEW r \in Referencers(b, j) PROVE r \in WithReferencers(b, i)
  OBVIOUS
<1>2. j = i \/ j \in Reached(i, next)
  BY DEF WithReferencers
<1>3. DOMAIN next = Ids(b)
  OBVIOUS
<1>4. j \in Ids(b) /\ r \in Ids(b) /\ r \in next[j]
  BY <1>2, <1>3 DEF Reached, Referencers
<1>5. ASSUME NEW S \in SUBSET Ids(b), \A k \in S \cup {i} : next[k] \subseteq S PROVE r \in S
  <2>1. j \in S \cup {i}
    BY <1>2, <1>3, <1>5 DEF Reached
  <2> QED
    BY <1>4, <1>5, <2>1
<1> HIDE DEF next
<1>6. r \in Reached(i, next)
  BY <1>3, <1>4, <1>5 DEF Reached
<1> QED
  BY <1>6 DEF WithReferencers, next

LEMMA DeleteCascadeChanges ==
    ASSUME WellFormed(Book), NEW i, DeleteCascade(i)
    PROVE  Changes(Book, Book')
<1>1. i \in Ids(Book)
  BY DEF DeleteCascade, Ids, Book
<1>2. \A j \in WithReferencers(Book, i) : Referencers(Book, j) \subseteq WithReferencers(Book, i)
  BY <1>1, ReferencersGoToo
<1> QED
  BY <1>2, RemovalChanges DEF DeleteCascade

LEMMA SweepChanges ==
    ASSUME WellFormed(Book), NEW candidates \in SUBSET {i \in DOMAIN def : state[i] # "Running"},
           Sweep(candidates)
    PROVE  Changes(Book, Book')
<1>1. Eligible(candidates) \subseteq candidates
  BY DEF Eligible
<1>2. \A j \in Eligible(candidates) : Referencers(Book, j) \subseteq Eligible(candidates)
  BY DEF Eligible
<1> QED
  BY <1>1, <1>2, RemovalChanges DEF Sweep

LEMMA NextChanges ==
    ASSUME WellFormed(Book), Next
    PROVE  Changes(Book, Book')
<1>1. ASSUME NEW i \in DOMAIN Definitions, NEW d \in Definitions[i], Create(i, d)
      PROVE  Changes(Book, Book')
  BY <1>1, CreateChanges
<1>2. ASSUME NEW i \in DOMAIN Definitions, NEW d \in Definitions[i], CreateReserved(i, d)
      PROVE  Changes(Book, Book')
  BY <1>2, CreateReservedChanges
<1>3. ASSUME NEW i \in Task, Start(i) PROVE Changes(Book, Book')
  BY <1>3, StartChanges
<1>4. ASSUME NEW i \in Task, NEW s \in {"Succeeded", "Failed", "Unknown"}, Finish(i, s)
      PROVE  Changes(Book, Book')
  BY <1>4, FinishChanges DEF Finish
<1>5. ASSUME NEW i \in Task, Cancel(i) PROVE Changes(Book, Book')
  BY <1>5, FinishChanges DEF Cancel
<1>6. ASSUME NEW i \in Task, NEW reset \in BOOLEAN, Retry(i, reset) PROVE Changes(Book, Book')
  BY <1>6, RetryChanges
<1>7. ASSUME NEW i \in Task, Delete(i) PROVE Changes(Book, Book')
  BY <1>7, DeleteChanges
<1>8. ASSUME NEW i \in Task, DeleteCascade(i) PROVE Changes(Book, Book')
  BY <1>8, DeleteCascadeChanges
<1>9. ASSUME NEW candidates \in SUBSET {i \in DOMAIN def : state[i] # "Running"}, Sweep(candidates)
      PROVE  Changes(Book, Book')
  BY <1>9, SweepChanges
<1> QED
  BY <1>1, <1>2, <1>3, <1>4, <1>5, <1>6, <1>7, <1>8, <1>9 DEF Next

-----------------------------------------------------------------------------
(* What each of the four keeps.                                              *)

LEMMA NobodyIsNoTask ==
    Nobody \notin Task /\ InlineIds \subseteq Task /\ DOMAIN Definitions \subseteq Task
  BY TaskAssumption

LEMMA MenusAreDefinitions ==
    ASSUME NEW i \in DOMAIN Definitions, NEW d \in Definitions[i]
    PROVE  d \in Definition /\ (d.policy = "Fallback" <=> d.target # Nobody)
  BY TaskAssumption

LEMMA OfMenus ==
    ASSUME NEW b, NEW m, Known(b, m), b.def[m].policy \in {"Fallback", "Inline"}
    PROVE  m \in DOMAIN Definitions /\ b.def[m] \in Definitions[m]
<1>1. ASSUME NEW n \in DOMAIN Definitions, NEW d \in Definitions[n], b.def[m] = InlineFor(d, n)
      PROVE  FALSE
  BY <1>1, MenusAreDefinitions, NobodyIsNoTask, InlineDefinition
<1> QED
  BY <1>1 DEF Known

LEMMA KnownAlike ==
    ASSUME NEW b, NEW c, NEW j, c.def[j] = b.def[j], b.used \subseteq c.used, Known(b, j)
    PROVE  Known(c, j)
<1>1. CASE j \in DOMAIN Definitions /\ b.def[j] \in Definitions[j]
  BY <1>1 DEF Known
<1>2. CASE ~(j \in DOMAIN Definitions /\ b.def[j] \in Definitions[j])
  <2>1. PICK m \in b.used \cap DOMAIN Definitions : \E d \in Definitions[m] :
            d.policy = "Inline" /\ b.def[j] = InlineFor(d, m)
    BY <1>2 DEF Known
  <2>2. m \in c.used \cap DOMAIN Definitions /\ j \in InlineIds
    BY <1>2, <2>1 DEF Known
  <2> QED
    BY <2>1, <2>2 DEF Known
<1> QED
  BY <1>1, <1>2

LEMMA TransitIs ==
    ASSUME NEW b, WellFormed(b), NEW i, NEW s, NEW c, Transits(b, c, i, s)
    PROVE  /\ IsBook(c) /\ c.reserved = b.reserved
           /\ Ids(b) \subseteq Ids(c) /\ c.used = b.used \cup (Ids(c) \ Ids(b))
           /\ \A j \in Ids(b) : c.def[j] = b.def[j]
           /\ \A j \in Ids(c) \ Ids(b) :
                /\ j \in InlineIds \ b.used
                /\ \E m \in Ids(b) : NeedsInline(b, m) /\ c.def[j] = InlineDef(b, m)
                /\ References(c.def[j]) \subseteq Ids(b)
                /\ c.state[j] \in {"Waiting", "Ready", "Skipped"}
           /\ \A j, k \in Ids(c) \ Ids(b) : j = k
           /\ c.state[i] = s \/ (s = "Unknown" /\ c.state[i] \in {"Ready", "Skipped"})
           /\ \A j \in Ids(b) \ {i} : c.state[j] # b.state[j] =>
                /\ b.state[j] \in {"Waiting", "Unknown"}
                /\ c.state[j] \in {"Ready", "Skipped"}
                /\ j \notin b.reserved
           /\ \A j \in Ids(c) :
                c.state[j] = "Ready" /\ (j \in Ids(b) => b.state[j] # "Ready") => MayTurn(c, j, "Ready")
<1> DEFINE p == Put(b, i, s)
<1>1. IsBook(b) /\ i \in Ids(b) /\ s \in States /\ s \in {"Running", "Succeeded", "Failed", "Cancelled", "Unknown"}
  BY DEF Transits, WellFormed, States
<1>2. /\ IsBook(p) /\ Ids(p) = Ids(b) /\ p.def = b.def /\ p.reserved = b.reserved /\ p.used = b.used
      /\ p.state[i] = s /\ \A j \in Ids(b) \ {i} : p.state[j] = b.state[j]
  BY <1>1, PutIs
<1>3. Follows(p, c)
  BY DEF Transits
<1> HIDE DEF p
<1>4. /\ IsBook(c) /\ c.reserved = b.reserved
      /\ Ids(b) \subseteq Ids(c) /\ c.used = b.used \cup (Ids(c) \ Ids(b))
      /\ \A j \in Ids(b) : c.def[j] = b.def[j]
      /\ \A j, k \in Ids(c) \ Ids(b) : j = k
  BY <1>2, <1>3 DEF Follows
<1>5. ASSUME NEW j \in Ids(c) \ Ids(b)
      PROVE  /\ j \in InlineIds \ b.used
             /\ \E m \in Ids(b) : NeedsInline(b, m) /\ c.def[j] = InlineDef(b, m)
             /\ References(c.def[j]) \subseteq Ids(b)
             /\ c.state[j] \in {"Waiting", "Ready", "Skipped"}
  <2>1. PICK m \in Ids(p) : NeedsInline(p, m) /\ c.def[j] = InlineDef(p, m)
    BY <1>2, <1>3, <1>5 DEF Follows
  <2>2. NeedsInline(b, m) /\ c.def[j] = InlineDef(b, m)
    BY <1>2, <2>1 DEF NeedsInline, InlineOf, InlineDef, Ids
  <2>3. /\ j \in InlineIds \ b.used /\ c.state[j] \in {"Waiting", "Ready", "Skipped"}
        /\ References(c.def[j]) \subseteq Ids(b)
    BY <1>2, <1>3, <1>5 DEF Follows
  <2> QED
    BY <1>2, <2>1, <2>2, <2>3
<1>6. \A j \in Ids(b) : c.state[j] # p.state[j] =>
         p.state[j] \in {"Waiting", "Unknown"} /\ c.state[j] \in {"Ready", "Skipped"} /\ j \notin b.reserved
  BY <1>2, <1>3 DEF Follows
<1>7. c.state[i] = s \/ (s = "Unknown" /\ c.state[i] \in {"Ready", "Skipped"})
  BY <1>1, <1>2, <1>6
<1>8. \A j \in Ids(b) \ {i} : c.state[j] # b.state[j] =>
         b.state[j] \in {"Waiting", "Unknown"} /\ c.state[j] \in {"Ready", "Skipped"} /\ j \notin b.reserved
  BY <1>2, <1>6
<1>9. ASSUME NEW j \in Ids(c), c.state[j] = "Ready", j \in Ids(b) => b.state[j] # "Ready"
      PROVE  MayTurn(c, j, "Ready")
  <2>1. j \in Ids(p) => p.state[j] # "Ready"
    BY <1>1, <1>2, <1>9
  <2> QED
    BY <1>3, <1>9, <2>1 DEF Follows
<1> QED
  BY <1>4, <1>5, <1>7, <1>8, <1>9

LEMMA TransitIsWellFormed ==
    ASSUME NEW b, WellFormed(b), NEW i, NEW s, NEW c, Transits(b, c, i, s)
    PROVE  WellFormed(c)
<1>1. /\ IsBook(c) /\ c.reserved = b.reserved
      /\ Ids(b) \subseteq Ids(c) /\ c.used = b.used \cup (Ids(c) \ Ids(b))
      /\ \A j \in Ids(b) : c.def[j] = b.def[j]
  BY TransitIs
<1>2. ASSUME NEW j \in Ids(c) \ Ids(b)
      PROVE  /\ j \in InlineIds
             /\ \E m \in Ids(b) : NeedsInline(b, m) /\ c.def[j] = InlineDef(b, m)
             /\ References(c.def[j]) \subseteq Ids(b)
  BY <1>2, TransitIs
<1>3. Ids(c) \subseteq c.used /\ c.used \subseteq Task
  BY <1>1, <1>2, NobodyIsNoTask DEF WellFormed
<1>4. ASSUME NEW j \in c.reserved PROVE j \in Ids(c) /\ c.state[j] \in {"Waiting", "Cancelled"}
  <2>1. j \in Ids(b) /\ b.state[j] \in {"Waiting", "Cancelled"}
    BY <1>1, <1>4 DEF WellFormed
  <2>2. CASE j = i
    <3>1. s = "Cancelled"
      BY <2>1, <2>2 DEF Transits, ValidTransition
    <3>2. c.state[i] = s
      BY <3>1, TransitIs
    <3> QED
      BY <1>1, <2>1, <2>2, <3>1, <3>2
  <2>3. CASE j # i
    <3>1. c.state[j] = b.state[j]
      BY <1>1, <1>4, <2>1, <2>3, TransitIs
    <3> QED
      BY <1>1, <2>1, <3>1
  <2> QED
    BY <2>2, <2>3
<1>5. ASSUME NEW j \in Ids(c)
      PROVE  References(c.def[j]) \subseteq c.used /\ c.def[j].target \notin c.reserved /\ Known(c, j)
  <2>1. CASE j \in Ids(b)
    <3>1. References(b.def[j]) \subseteq b.used /\ b.def[j].target \notin b.reserved /\ Known(b, j)
      BY <2>1 DEF WellFormed
    <3>2. c.def[j] = b.def[j]
      BY <1>1, <2>1
    <3>3. Known(c, j)
      BY <1>1, <3>1, <3>2, KnownAlike
    <3> QED
      BY <1>1, <3>1, <3>2, <3>3
  <2>2. CASE j \notin Ids(b)
    <3>1. PICK m \in Ids(b) : NeedsInline(b, m) /\ c.def[j] = InlineDef(b, m)
      BY <1>2, <1>5, <2>2
    <3>2. b.def[m] \in Definition /\ m \in Task
      BY DEF WellFormed, IsBook
    <3>3. c.def[j] = InlineFor(b.def[m], m) /\ c.def[j].target = Nobody
      BY <3>1, <3>2, InlineDefinition DEF InlineDef
    <3>4. References(c.def[j]) \subseteq c.used
      BY <1>1, <1>2, <1>5, <2>2 DEF WellFormed
    <3>5. c.def[j].target \notin c.reserved
      BY <1>1, <1>3, <1>4, <3>3, NobodyIsNoTask
    <3>6. m \in c.used
      BY <1>1 DEF WellFormed
    <3>7. b.def[m].policy = "Inline" /\ m \in DOMAIN Definitions /\ b.def[m] \in Definitions[m]
      BY <3>1, OfMenus DEF NeedsInline, WellFormed
    <3>8. Known(c, j)
      BY <1>2, <1>5, <2>2, <3>3, <3>6, <3>7 DEF Known
    <3> QED
      BY <3>4, <3>5, <3>8
  <2> QED
    BY <2>1, <2>2
<1> QED
  BY <1>1, <1>3, <1>4, <1>5 DEF WellFormed

LEMMA GrownIsWellFormed ==
    ASSUME NEW b, WellFormed(b), NEW i, NEW d, NEW c, Grows(b, c, i, d)
    PROVE  WellFormed(c)
<1>1. /\ i \in DOMAIN Definitions /\ d \in Definitions[i] /\ i \notin b.used
      /\ References(d) \subseteq Ids(b) /\ IsBook(c) /\ Ids(c) = Ids(b) \cup {i}
      /\ c.used = b.used \cup {i} /\ c.def[i] = d /\ c.reserved \subseteq (b.reserved \cup {i}) \ {d.target}
      /\ i \in c.reserved => c.state[i] = "Waiting"
  BY DEF Grows
<1>2. \A j \in Ids(b) :
         /\ c.def[j] = b.def[j]
         /\ c.state[j] = b.state[j] \/ (b.state[j] = "Ready" /\ c.state[j] = "Waiting")
  BY DEF Grows
<1>3. Ids(b) \subseteq b.used /\ b.used \subseteq Task /\ i \in Task
  BY <1>1, NobodyIsNoTask DEF WellFormed
<1>4. ASSUME NEW j \in c.reserved PROVE j \in Ids(c) /\ c.state[j] \in {"Waiting", "Cancelled"}
  <2>1. CASE j = i
    BY <1>1, <1>4, <2>1
  <2>2. CASE j # i
    <3>1. j \in Ids(b) /\ b.state[j] \in {"Waiting", "Cancelled"}
      BY <1>1, <1>4, <2>2 DEF WellFormed
    <3> QED
      BY <1>1, <1>2, <3>1
  <2> QED
    BY <2>1, <2>2
<1>5. ASSUME NEW j \in Ids(c)
      PROVE  References(c.def[j]) \subseteq c.used /\ c.def[j].target \notin c.reserved /\ Known(c, j)
  <2>1. CASE j \in Ids(b)
    <3>1. References(b.def[j]) \subseteq b.used /\ b.def[j].target \notin b.reserved /\ Known(b, j)
      BY <2>1 DEF WellFormed
    <3>2. c.def[j] = b.def[j]
      BY <1>2, <2>1
    <3>3. b.def[j].target # i
      BY <1>1, <1>3, <3>1, NobodyIsNoTask DEF References
    <3>4. Known(c, j)
      BY <1>1, <3>1, <3>2, KnownAlike
    <3> QED
      BY <1>1, <3>1, <3>2, <3>3, <3>4
  <2>2. CASE j = i
    BY <1>1, <1>3, <2>2 DEF Known
  <2> QED
    BY <1>1, <2>1, <2>2
<1> QED
  BY <1>1, <1>3, <1>4, <1>5 DEF WellFormed

LEMMA ResumedIsWellFormed ==
    ASSUME NEW b, WellFormed(b), NEW i, NEW c, Resumes(b, c, i)
    PROVE  WellFormed(c)
<1>1. IsBook(c) /\ Ids(c) = Ids(b) /\ c.def = b.def /\ c.reserved = b.reserved /\ c.used = b.used
  BY DEF Resumes
<1>2. \A j \in Ids(b) : c.state[j] # b.state[j] /\ j \in b.reserved => c.state[j] = "Waiting"
  BY DEF Resumes
<1>3. c.reserved \subseteq {j \in Ids(c) : c.state[j] \in {"Waiting", "Cancelled"}}
  BY <1>1, <1>2 DEF WellFormed
<1>4. ASSUME NEW j \in Ids(c)
      PROVE  References(c.def[j]) \subseteq c.used /\ c.def[j].target \notin c.reserved /\ Known(c, j)
  <2>1. References(b.def[j]) \subseteq b.used /\ b.def[j].target \notin b.reserved /\ Known(b, j)
    BY <1>1 DEF WellFormed
  <2>2. Known(c, j)
    BY <1>1, <2>1, KnownAlike
  <2> QED
    BY <1>1, <2>1, <2>2
<1> QED
  BY <1>1, <1>3, <1>4 DEF WellFormed

LEMMA RemainderIsWellFormed ==
    ASSUME NEW b, WellFormed(b), NEW gone, NEW c, c = Without(b, gone)
    PROVE  WellFormed(c)
<1>1. /\ IsBook(c) /\ Ids(c) = Ids(b) \ gone /\ c.reserved = b.reserved \ gone /\ c.used = b.used
      /\ \A j \in Ids(c) : c.def[j] = b.def[j] /\ c.state[j] = b.state[j]
  BY WithoutIs DEF WellFormed
<1>2. c.reserved \subseteq {j \in Ids(c) : c.state[j] \in {"Waiting", "Cancelled"}}
  BY <1>1 DEF WellFormed
<1>3. ASSUME NEW j \in Ids(c)
      PROVE  References(c.def[j]) \subseteq c.used /\ c.def[j].target \notin c.reserved /\ Known(c, j)
  <2>1. References(b.def[j]) \subseteq b.used /\ b.def[j].target \notin b.reserved /\ Known(b, j)
    BY <1>1 DEF WellFormed
  <2>2. Known(c, j)
    BY <1>1, <2>1, KnownAlike
  <2> QED
    BY <1>1, <2>1, <2>2
<1> QED
  BY <1>1, <1>2, <1>3 DEF WellFormed

LEMMA ChangedIsWellFormed ==
    ASSUME NEW b, WellFormed(b), NEW c, Changes(b, c)
    PROVE  WellFormed(c)
  BY TransitIsWellFormed, GrownIsWellFormed, ResumedIsWellFormed, RemainderIsWellFormed
  DEF Changes, Removes

\* Whatever happens, what is stored keeps its definition and a success stands.
LEMMA ChangeKeepsSuccess ==
    ASSUME NEW b, WellFormed(b), NEW c, Changes(b, c), NEW j \in Ids(b) \cap Ids(c)
    PROVE  c.def[j] = b.def[j] /\ (b.state[j] = "Succeeded" => c.state[j] = "Succeeded")
<1>1. ASSUME NEW i, NEW s, Transits(b, c, i, s)
      PROVE  c.def[j] = b.def[j] /\ (b.state[j] = "Succeeded" => c.state[j] = "Succeeded")
  <2>1. b.state[i] # "Succeeded"
    BY <1>1 DEF Transits, ValidTransition
  <2>2. c.def[j] = b.def[j]
    BY <1>1, TransitIs
  <2>3. j # i => (b.state[j] = "Succeeded" => c.state[j] = "Succeeded")
    BY <1>1, TransitIs
  <2> QED
    BY <2>1, <2>2, <2>3
<1>2. ASSUME NEW i, NEW d, Grows(b, c, i, d)
      PROVE  c.def[j] = b.def[j] /\ (b.state[j] = "Succeeded" => c.state[j] = "Succeeded")
  BY <1>2 DEF Grows
<1>3. ASSUME NEW i, Resumes(b, c, i)
      PROVE  c.def[j] = b.def[j] /\ (b.state[j] = "Succeeded" => c.state[j] = "Succeeded")
  BY <1>3 DEF Resumes
<1>4. ASSUME NEW gone, Removes(b, c, gone)
      PROVE  c.def[j] = b.def[j] /\ (b.state[j] = "Succeeded" => c.state[j] = "Succeeded")
  BY <1>4, WithoutIs DEF Removes, WellFormed
<1> QED
  BY <1>1, <1>2, <1>3, <1>4 DEF Changes

LEMMA ChangeKeepsClosed ==
    ASSUME NEW b, WellFormed(b), Closed(b), ~ForceDeletes, NEW c, Changes(b, c)
    PROVE  Closed(c)
<1>1. ASSUME NEW i, NEW s, Transits(b, c, i, s), NEW j \in Ids(c) PROVE References(c.def[j]) \subseteq Ids(c)
  <2>1. Ids(b) \subseteq Ids(c)
    BY <1>1, TransitIs
  <2>2. CASE j \in Ids(b)
    <3>1. c.def[j] = b.def[j]
      BY <1>1, <2>2, TransitIs
    <3> QED
      BY <2>1, <2>2, <3>1 DEF Closed
  <2>3. CASE j \notin Ids(b)
    <3>1. References(c.def[j]) \subseteq Ids(b)
      BY <1>1, <2>3, TransitIs
    <3> QED
      BY <2>1, <3>1
  <2> QED
    BY <2>2, <2>3
<1>2. ASSUME NEW i, NEW d, Grows(b, c, i, d) PROVE Closed(c)
  BY <1>2 DEF Grows, Closed
<1>3. ASSUME NEW i, Resumes(b, c, i) PROVE Closed(c)
  BY <1>3 DEF Resumes, Closed
<1>4. ASSUME NEW gone, Removes(b, c, gone) PROVE Closed(c)
  <2>1. Ids(c) = Ids(b) \ gone /\ \A j \in Ids(c) : c.def[j] = b.def[j]
    BY <1>4, WithoutIs DEF Removes, WellFormed
  <2>2. \A j \in Ids(b) \ gone : References(b.def[j]) \cap gone = {}
    BY <1>4 DEF Removes
  <2> QED
    BY <2>1, <2>2 DEF Closed
<1> QED
  BY <1>1, <1>2, <1>3, <1>4 DEF Changes, Closed

\* A task is Ready only as long as what it depends on stands.
LEMMA ChangeKeepsStartedStands ==
    ASSUME NEW b, WellFormed(b), Closed(b), StartedStands(b), ~ForceDeletes, NEW c, Changes(b, c)
    PROVE  StartedStands(c)
<1> DEFINE Started == {"Ready", "Running", "Unknown"}
<1> SUFFICES ASSUME NEW j \in Ids(c), c.state[j] \in Started, c.def[j].policy = "Abort"
             PROVE  Stands(c, j)
  BY DEF StartedStands
\* A task that had started already: its dependencies are still there.
<1>1. ASSUME j \in Ids(b), b.state[j] \in Started PROVE Stands(c, j)
  <2>1. c.def[j] = b.def[j] /\ Stands(b, j)
    BY <1>1, ChangeKeepsSuccess DEF StartedStands
  <2>2. b.def[j].deps \subseteq Ids(b) /\ b.def[j].deps \subseteq Ids(c)
    BY <1>1, <2>1, ChangeKeepsClosed DEF Closed, References
  <2>3. \A d \in b.def[j].deps : c.def[d] = b.def[d] /\ (b.state[d] = "Succeeded" => c.state[d] = "Succeeded")
    BY <2>2, ChangeKeepsSuccess
  <2> QED
    BY <2>1, <2>2, <2>3 DEF Stands
<1>2. ASSUME j \in Ids(b) => b.state[j] \notin Started PROVE Stands(c, j)
  <2>1. ASSUME NEW i, NEW s, Transits(b, c, i, s) PROVE Stands(c, j)
    <3>1. b.state[i] \in Started \/ s = "Cancelled"
      BY <2>1 DEF Transits, ValidTransition
    <3>2. c.state[j] = "Ready"
      <4>1. CASE j = i
        BY <1>2, <2>1, <3>1, <4>1, TransitIs DEF Transits
      <4>2. CASE j # i
        BY <1>2, <2>1, <4>2, TransitIs
      <4> QED
        BY <4>1, <4>2
    <3> QED
      BY <1>2, <2>1, <3>2, TransitIs DEF MayTurn
  <2>2. ASSUME NEW i, NEW d, Grows(b, c, i, d) PROVE Stands(c, j)
    <3>1. j = i
      BY <1>2, <2>2 DEF Grows
    <3>2. c.state[j] = "Ready"
      BY <2>2, <3>1 DEF Grows
    <3> QED
      BY <2>2, <3>1, <3>2 DEF Grows
  <2>3. ASSUME NEW i, Resumes(b, c, i) PROVE Stands(c, j)
    BY <1>2, <2>3 DEF Resumes
  <2>4. ASSUME NEW gone, Removes(b, c, gone) PROVE Stands(c, j)
    BY <1>2, <2>4, WithoutIs DEF Removes, WellFormed
  <2> QED
    BY <2>1, <2>2, <2>3, <2>4 DEF Changes
<1> QED
  BY <1>1, <1>2

LEMMA ChangeKeepsSingle ==
    ASSUME NEW b, WellFormed(b), Single(b), Unmarked, NEW c, Changes(b, c)
    PROVE  Single(c)
<1> SUFFICES ASSUME NEW j \in Ids(c), NEW k \in Ids(c), c.def[j].of # Nobody, c.def[j].of = c.def[k].of
             PROVE  j = k
  BY DEF Single
<1>1. j \in Ids(b) /\ k \in Ids(b) => j = k
  BY ChangeKeepsSuccess DEF Single
<1>2. ASSUME NEW i, NEW s, Transits(b, c, i, s) PROVE j = k
  <2>1. \A l \in Ids(b) : c.def[l] = b.def[l]
    BY <1>2, TransitIs
  <2>2. \A l \in Ids(c) \ Ids(b) : \A m : c.def[l].of = m => \A n \in Ids(b) : b.def[n].of # m
    <3> SUFFICES ASSUME NEW l \in Ids(c) \ Ids(b), NEW n \in Ids(b)
                 PROVE  b.def[n].of # c.def[l].of
      OBVIOUS
    <3>1. PICK m \in Ids(b) : NeedsInline(b, m) /\ c.def[l] = InlineDef(b, m)
      BY <1>2, TransitIs
    <3> QED
      BY <3>1 DEF NeedsInline, InlineOf, InlineDef, InlineFor
  <2>3. j \notin Ids(b) /\ k \notin Ids(b) => j = k
    BY <1>2, TransitIs
  <2> QED
    BY <1>1, <2>1, <2>2, <2>3
<1>3. ASSUME NEW i, NEW d, Grows(b, c, i, d) PROVE j = k
  <2>1. c.def[i].of = Nobody
    BY <1>3 DEF Grows, Unmarked
  <2> QED
    BY <1>1, <1>3, <2>1 DEF Grows
<1>4. ASSUME NEW i, Resumes(b, c, i) PROVE j = k
  BY <1>1, <1>4 DEF Resumes
<1>5. ASSUME NEW gone, Removes(b, c, gone) PROVE j = k
  BY <1>1, <1>5, WithoutIs DEF Removes, WellFormed
<1> QED
  BY <1>2, <1>3, <1>4, <1>5 DEF Changes

-----------------------------------------------------------------------------
(* The invariant, and the theorems.                                          *)

LEMMA ChangeKeepsShaped ==
    ASSUME NEW b, WellFormed(b), Shaped(b), Unmarked, Inheriting, NEW c, Changes(b, c)
    PROVE  Shaped(c)
<1> SUFFICES ASSUME NEW n \in Ids(c), NEW m \in Ids(c), c.def[n].of = m
             PROVE  c.def[n].deps = c.def[m].deps /\ c.def[n].inputs = {}
  BY DEF Shaped
<1>1. n \in Ids(b) /\ m \in Ids(b) => c.def[n].deps = c.def[m].deps /\ c.def[n].inputs = {}
  BY ChangeKeepsSuccess DEF Shaped
<1>2. m # Nobody
  BY ChangedIsWellFormed, NobodyIsNoTask DEF WellFormed
\* No new task is what the mark of a stored one names.
<1>3. n \in Ids(b) => m \in b.used
  <2> SUFFICES ASSUME n \in Ids(b) PROVE m \in b.used
    OBVIOUS
  <2>1. c.def[n] = b.def[n] /\ Known(b, n)
    BY ChangeKeepsSuccess DEF WellFormed
  <2>2. CASE n \in DOMAIN Definitions /\ b.def[n] \in Definitions[n]
    BY <1>2, <2>1, <2>2 DEF Unmarked
  <2>3. CASE ~(n \in DOMAIN Definitions /\ b.def[n] \in Definitions[n])
    <3>1. PICK k \in b.used : \E d : b.def[n] = InlineFor(d, k)
      BY <2>1, <2>3 DEF Known
    <3> QED
      BY <2>1, <3>1 DEF InlineFor
  <2> QED
    BY <2>2, <2>3
<1>4. ASSUME NEW i, NEW s, Transits(b, c, i, s)
      PROVE  c.def[n].deps = c.def[m].deps /\ c.def[n].inputs = {}
  <2>1. CASE n \in Ids(b)
    BY <1>1, <1>3, <1>4, <2>1, TransitIs
  <2>2. CASE n \notin Ids(b)
    <3>1. PICK k \in Ids(b) : NeedsInline(b, k) /\ c.def[n] = InlineDef(b, k)
      BY <1>4, <2>2, TransitIs
    <3>2. k \in DOMAIN Definitions /\ b.def[k] \in Definitions[k] /\ b.def[k].policy = "Inline"
      BY <3>1, OfMenus DEF NeedsInline, WellFormed
    <3>3. ~b.def[k].inline.own /\ b.def[k].inline.inputs = {}
      BY <3>2 DEF Inheriting
    <3>4. k = m /\ c.def[n].deps = b.def[m].deps /\ c.def[n].inputs = {}
      BY <3>1, <3>3 DEF InlineDef, InlineFor
    <3> QED
      BY <1>4, <3>1, <3>4, TransitIs
  <2> QED
    BY <2>1, <2>2
<1>5. ASSUME NEW i, NEW d, Grows(b, c, i, d)
      PROVE  c.def[n].deps = c.def[m].deps /\ c.def[n].inputs = {}
  <2>1. c.def[i].of = Nobody
    BY <1>5 DEF Grows, Unmarked
  <2> QED
    BY <1>1, <1>2, <1>3, <1>5, <2>1 DEF Grows
<1>6. ASSUME NEW i, Resumes(b, c, i)
      PROVE  c.def[n].deps = c.def[m].deps /\ c.def[n].inputs = {}
  BY <1>1, <1>6 DEF Resumes
<1>7. ASSUME NEW gone, Removes(b, c, gone)
      PROVE  c.def[n].deps = c.def[m].deps /\ c.def[n].inputs = {}
  BY <1>1, <1>7, WithoutIs DEF Removes, WellFormed
<1> QED
  BY <1>4, <1>5, <1>6, <1>7 DEF Changes

LEMMA InitIInv == Init => IInv
<1> SUFFICES ASSUME Init PROVE IInv
  OBVIOUS
<1>1. /\ Book.def = <<>> /\ Book.state = <<>> /\ Book.reserved = {} /\ Book.used = {}
      /\ Book = [def |-> Book.def, state |-> Book.state, reserved |-> Book.reserved, used |-> Book.used]
  BY DEF Init, Book
<1>2. Ids(Book) = {}
  BY <1>1 DEF Ids
<1>3. IsBook(Book)
  <2>1. IsFiniteSet(Ids(Book))
    BY <1>2, FS_EmptySet
  <2>2. Book.def \in [{} -> Definition] /\ Book.state \in [{} -> States]
    BY <1>1
  <2> QED
    BY <1>1, <1>2, <2>1, <2>2 DEF IsBook
<1> QED
  BY <1>1, <1>2, <1>3 DEF IInv, WellFormed, Closed, StartedStands, Single, Shaped

LEMMA NextIInv == IInv /\ [Next]_vars => IInv'
<1> SUFFICES ASSUME IInv, [Next]_vars PROVE IInv'
  OBVIOUS
<1>1. CASE Next
  <2>1. WellFormed(Book) /\ Changes(Book, Book')
    BY <1>1, NextChanges DEF IInv
  <2>2. WellFormed(Book')
    BY <2>1, ChangedIsWellFormed
  <2>3. ~ForceDeletes => Closed(Book') /\ StartedStands(Book')
    BY <2>1, ChangeKeepsClosed, ChangeKeepsStartedStands DEF IInv
  <2>4. Unmarked => Single(Book') /\ (Inheriting => Shaped(Book'))
    BY <2>1, ChangeKeepsSingle, ChangeKeepsShaped DEF IInv
  <2> QED
    BY <2>2, <2>3, <2>4 DEF IInv
<1>2. CASE UNCHANGED vars
  <2>1. Book' = Book
    BY <1>2 DEF vars, Book
  <2> QED
    BY <2>1 DEF IInv
<1> QED
  BY <1>1, <1>2

LEMMA SpecIInv == Spec => []IInv
  BY InitIInv, NextIInv, PTL DEF Spec

\* Every stored task has a definition and a state, ids are given out once, and a
\* reserved fallback (create_reserved_for_fallback) waits or was cancelled: whatever
\* set_state, retry, delete and purge do, they leave no reservation behind.
THEOREM TypeCorrect == Spec => []TypeOK
<1>1. IInv => TypeOK
  BY DEF IInv, WellFormed, IsBook, Book, Ids, TypeOK
<1> QED
  BY <1>1, SpecIInv, PTL

\* Unless delete is called with force, a reference of a stored task always leads to
\* a stored task: delete_checked and plan_sweep leave nothing behind that refers to
\* what they take, whatever the menus.
THEOREM ReferencesLeadSomewhere ==
    ASSUME ~ForceDeletes
    PROVE  Spec => []NoDanglingReference
<1>1. IInv => NoDanglingReference
  BY DEF IInv, Closed, References, Ids, Book, NoDanglingReference
<1> QED
  BY <1>1, SpecIInv, PTL

\* materialize_inline_fallback creates one fallback for a main, however often it
\* fails, is retried and fails again.
THEOREM InlineFallbackIsCreatedOnce ==
    ASSUME Unmarked
    PROVE  Spec => []OneInlineFallback
<1>1. IInv => OneInlineFallback
  <2> SUFFICES ASSUME IInv, NEW m \in DOMAIN def PROVE Cardinality(InlineOf(Book, m)) <= 1
    BY DEF OneInlineFallback
  <2>1. m # Nobody
    BY NobodyIsNoTask DEF IInv, WellFormed, Ids, Book
  <2>2. \A j, k \in InlineOf(Book, m) : j = k
    BY <2>1 DEF IInv, Single, InlineOf
  <2>3. CASE InlineOf(Book, m) = {}
    BY <2>3, FS_EmptySet
  <2>4. CASE InlineOf(Book, m) # {}
    <3>1. PICK j : InlineOf(Book, m) = {j}
      BY <2>2, <2>4
    <3> QED
      BY <3>1, FS_Singleton
  <2> QED
    BY <2>3, <2>4
<1> QED
  BY <1>1, SpecIInv, PTL

\* A running task stays until it leaves Running by a change of its own.
LEMMA RunningStays ==
    ASSUME NEW b, WellFormed(b), NEW c, Changes(b, c)
    PROVE  /\ \A i \in Ids(b) : b.state[i] = "Running" => i \in Ids(c)
           /\ \A i, j \in Ids(b) :
                b.state[i] = "Running" /\ c.state[i] # "Running" /\ b.state[j] = "Running" /\ c.state[j] # "Running"
                  => i = j
<1>1. ASSUME NEW k, NEW s, Transits(b, c, k, s)
      PROVE  /\ Ids(b) \subseteq Ids(c)
             /\ \A i \in Ids(b) : b.state[i] = "Running" /\ c.state[i] # "Running" => i = k
  BY <1>1, TransitIs
<1>2. ASSUME NEW k, NEW d, Grows(b, c, k, d)
      PROVE  /\ Ids(b) \subseteq Ids(c)
             /\ \A i \in Ids(b) : b.state[i] = "Running" => c.state[i] = "Running"
  BY <1>2 DEF Grows
<1>3. ASSUME NEW k, Resumes(b, c, k)
      PROVE  /\ Ids(b) \subseteq Ids(c)
             /\ \A i \in Ids(b) : b.state[i] = "Running" => c.state[i] = "Running"
  BY <1>3 DEF Resumes
<1>4. ASSUME NEW gone, Removes(b, c, gone)
      PROVE  \A i \in Ids(b) : b.state[i] = "Running" => i \in Ids(c) /\ c.state[i] = "Running"
  <2>1. Ids(c) = Ids(b) \ gone /\ \A i \in Ids(c) : c.state[i] = b.state[i]
    BY <1>4, WithoutIs DEF Removes, WellFormed
  <2> QED
    BY <1>4, <2>1 DEF Removes
<1>5. CASE \E k, s : Transits(b, c, k, s)
  <2>1. PICK k, s : Transits(b, c, k, s)
    BY <1>5
  <2>2. /\ Ids(b) \subseteq Ids(c)
        /\ \A i \in Ids(b) : b.state[i] = "Running" /\ c.state[i] # "Running" => i = k
    BY <1>1, <2>1
  <2> QED
    BY <2>2
<1>6. CASE \A k, s : ~Transits(b, c, k, s)
  BY <1>2, <1>3, <1>4, <1>6 DEF Changes
<1> QED
  BY <1>5, <1>6

\* No operation undoes a success or takes a running task from its runner: not
\* retry with reset_downstream, not the cascades, not delete or purge.
THEOREM WorkIsKeptByAll == Spec => WorkIsKept
<1>1. IInv /\ [Next]_vars =>
        [\A i, j \in DOMAIN def :
           /\ state[i] = "Running" => i \in DOMAIN def'
           /\ state[i] = "Succeeded" /\ i \in DOMAIN def' => state'[i] = "Succeeded"
           /\ state[i] = "Running" /\ state[j] = "Running" /\ state'[i] # "Running" /\ state'[j] # "Running"
                => i = j]_vars
  <2> SUFFICES ASSUME IInv, Next
               PROVE  \A i, j \in DOMAIN def :
                        /\ state[i] = "Running" => i \in DOMAIN def'
                        /\ state[i] = "Succeeded" /\ i \in DOMAIN def' => state'[i] = "Succeeded"
                        /\ state[i] = "Running" /\ state[j] = "Running"
                             /\ state'[i] # "Running" /\ state'[j] # "Running" => i = j
    OBVIOUS
  <2>1. WellFormed(Book) /\ Changes(Book, Book')
    BY NextChanges DEF IInv
  <2>2. \A i \in Ids(Book) \cap Ids(Book') : Book.state[i] = "Succeeded" => Book'.state[i] = "Succeeded"
    BY <2>1, ChangeKeepsSuccess
  <2>3. /\ \A i \in Ids(Book) : Book.state[i] = "Running" => i \in Ids(Book')
        /\ \A i, j \in Ids(Book) :
             Book.state[i] = "Running" /\ Book'.state[i] # "Running"
               /\ Book.state[j] = "Running" /\ Book'.state[j] # "Running" => i = j
    BY <2>1, RunningStays
  <2>4. /\ Ids(Book) = DOMAIN def /\ Ids(Book') = DOMAIN def'
        /\ Book.state = state /\ Book'.state = state'
    BY DEF Book, Ids
  <2> QED
    BY <2>2, <2>3, <2>4
<1> QED
  BY <1>1, SpecIInv, PTL DEF Spec, WorkIsKept

\* Unless delete is called with force, what made a task Ready still stands when it
\* starts, whatever was retried, reset, cancelled or purged while it was queued.
THEOREM StartsOnStandingResults ==
    ASSUME ~ForceDeletes
    PROVE  Spec => StartsOnResults
<1>1. IInv /\ [Next]_vars =>
        [\A i \in DOMAIN def \cap DOMAIN def' :
           state[i] = "Ready" /\ state'[i] = "Running" /\ def[i].policy = "Abort"
             => \A d \in def[i].deps :
                  d \in DOMAIN def /\ (def[d].policy \in {"Abort", "Continue"} => state[d] = "Succeeded")]_vars
  BY DEF IInv, StartedStands, Stands, Ids, Book
<1> QED
  BY <1>1, SpecIInv, PTL DEF Spec, StartsOnResults

\* No main is downstream of the task it falls back to: there is a set of tasks
\* that contains all that depends on a fallback, and no main.
MainsAreNotDownstream ==
    LET targets == UNION {{d.target : d \in Definitions[i]} : i \in DOMAIN Definitions} IN
    \E L \in SUBSET Task :
        /\ InlineIds \subseteq L
        /\ \A i \in DOMAIN Definitions : \A d \in Definitions[i] :
             /\ (d.deps \cup d.inputs) \cap (targets \cup L) # {} => i \in L
             /\ i \in L => d.policy # "Fallback"

LEMMA MainsStayPut ==
    ASSUME MainsAreNotDownstream, NEW b, WellFormed(b), NEW f \in Ids(b), NEW m \in MainsOf(b, f)
    PROVE  m \notin Downstream(b, f)
<1> DEFINE targets == UNION {{d.target : d \in Definitions[i]} : i \in DOMAIN Definitions}
           next == [k \in Ids(b) |-> Users(b, k)]
<1>1. PICK L \in SUBSET Task :
        /\ InlineIds \subseteq L
        /\ \A i \in DOMAIN Definitions : \A d \in Definitions[i] :
             /\ (d.deps \cup d.inputs) \cap (targets \cup L) # {} => i \in L
             /\ i \in L => d.policy # "Fallback"
  BY DEF MainsAreNotDownstream
<1>2. \A j \in Ids(b) : Known(b, j)
  BY DEF WellFormed
<1>3. m \in Ids(b) /\ b.def[m].policy = "Fallback" /\ b.def[m].target = f
  BY DEF MainsOf
<1>4. f \in targets /\ m \notin L
  <2>1. m \in DOMAIN Definitions /\ b.def[m] \in Definitions[m]
    BY <1>2, <1>3, OfMenus
  <2>2. f \in {d.target : d \in Definitions[m]}
    BY <1>3, <2>1
  <2>3. f \in targets
    BY <2>1, <2>2
  <2> HIDE DEF targets
  <2> QED
    BY <1>1, <1>3, <2>1, <2>3
<1>5. \A k \in (Ids(b) \cap L) \cup {f} : next[k] \subseteq Ids(b) \cap L
  <2> SUFFICES ASSUME NEW k \in (Ids(b) \cap L) \cup {f}, NEW j \in next[k] PROVE j \in Ids(b) \cap L
    OBVIOUS
  <2>1. j \in Ids(b) /\ k \in b.def[j].deps \cup b.def[j].inputs /\ k \in targets \cup L
    BY <1>4 DEF Users
  <2> HIDE DEF targets
  <2>2. CASE j \in DOMAIN Definitions /\ b.def[j] \in Definitions[j]
    BY <1>1, <2>1, <2>2
  <2>3. CASE j \in InlineIds
    BY <1>1, <2>1, <2>3
  <2> QED
    BY <1>2, <2>1, <2>2, <2>3 DEF Known
<1>6. DOMAIN next = Ids(b)
  OBVIOUS
<1> HIDE DEF next
<1>7. m \notin Reached(f, next)
  BY <1>4, <1>5, <1>6 DEF Reached
<1> QED
  BY <1>7 DEF Downstream, next

LEMMA OnlyFailureWakes ==
    ASSUME MainsAreNotDownstream, NEW b, WellFormed(b), NEW c, Changes(b, c), NEW f \in Ids(c),
           f \in Ids(b) => b.state[f] # "Ready", c.state[f] = "Ready"
    PROVE  \A m \in MainsOf(c, f) : c.state[m] = "Failed"
<1>1. ASSUME NEW i, NEW s, Transits(b, c, i, s), NEW m \in MainsOf(c, f) PROVE c.state[m] = "Failed"
  <2>1. MayTurn(c, f, "Ready")
    BY <1>1, TransitIs
  <2> QED
    BY <1>1, <2>1 DEF MayTurn, Dormant
<1>2. ASSUME NEW i, NEW d, Grows(b, c, i, d), NEW m \in MainsOf(c, f) PROVE c.state[m] = "Failed"
  <2>1. f = i /\ i \notin b.used /\ i \in Task
    BY <1>2, NobodyIsNoTask DEF Grows
  <2>2. m \in Ids(c) /\ c.def[m].target = i
    BY <2>1 DEF MainsOf
  <2>3. CASE m = i
    BY <1>2, <2>1, <2>2, <2>3, NobodyIsNoTask DEF Grows, References, WellFormed
  <2>4. CASE m # i
    <3>1. m \in Ids(b) /\ c.def[m] = b.def[m]
      BY <1>2, <2>2, <2>4 DEF Grows
    <3>2. References(b.def[m]) \subseteq b.used
      BY <3>1 DEF WellFormed
    <3> QED
      BY <2>1, <2>2, <3>1, <3>2, NobodyIsNoTask DEF References
  <2> QED
    BY <2>3, <2>4
<1>3. ASSUME NEW i, Resumes(b, c, i), NEW m \in MainsOf(c, f) PROVE c.state[m] = "Failed"
  <2>1. Ids(c) = Ids(b) /\ c.def = b.def
    BY <1>3 DEF Resumes
  <2>2. m \in MainsOf(b, f) /\ f \in Ids(b)
    BY <1>3, <2>1 DEF MainsOf
  <2>3. m \notin Downstream(b, f)
    BY <2>2, MainsStayPut
  <2>4. c.state[m] = "Failed" \/ (f = i /\ m \in Downstream(b, i))
    BY <1>3, <2>2 DEF Resumes
  <2> QED
    BY <2>3, <2>4
<1>4. ASSUME NEW gone, Removes(b, c, gone) PROVE FALSE
  BY <1>4, WithoutIs DEF Removes, WellFormed
<1> QED
  BY <1>1, <1>2, <1>3, <1>4 DEF Changes

\* With no main downstream of the task it falls back to, a fallback becomes Ready only
\* once it is released by its main and all its mains have failed, whether a failure,
\* a cascade, a retry or a create brings it about.
THEOREM FallbackWakesOnFailure ==
    ASSUME MainsAreNotDownstream
    PROVE  Spec => FallbackWakesOnlyOnFailure
<1>1. IInv /\ IInv' /\ [Next]_vars =>
        [\A f \in DOMAIN def' :
           (f \notin DOMAIN def \/ state[f] # "Ready") /\ state'[f] = "Ready"
             => f \notin reserved' /\ \A m \in MainsOf(Book', f) : state'[m] = "Failed"]_vars
  <2> SUFFICES ASSUME IInv, IInv', Next, NEW f \in DOMAIN def',
                      f \notin DOMAIN def \/ state[f] # "Ready", state'[f] = "Ready"
               PROVE  f \notin reserved' /\ \A m \in MainsOf(Book', f) : state'[m] = "Failed"
    OBVIOUS
  <2>1. WellFormed(Book) /\ Changes(Book, Book') /\ WellFormed(Book')
    BY NextChanges DEF IInv
  <2>2. /\ Ids(Book) = DOMAIN def /\ Ids(Book') = DOMAIN def'
        /\ Book.state = state /\ Book'.state = state' /\ Book'.reserved = reserved'
    BY DEF Book, Ids
  <2>3. f \notin reserved'
    BY <2>1, <2>2 DEF WellFormed
  <2>4. \A m \in MainsOf(Book', f) : Book'.state[m] = "Failed"
    BY <2>1, <2>2, OnlyFailureWakes
  <2> QED
    BY <2>2, <2>3, <2>4
<1> QED
  BY <1>1, SpecIInv, PTL DEF Spec, FallbackWakesOnlyOnFailure

-----------------------------------------------------------------------------
(* Nobody is left behind: what settling leaves, and whom a change concerns.  *)

LEMMA DownstreamIs ==
    ASSUME NEW b, NEW i \in Ids(b)
    PROVE  /\ Downstream(b, i) \subseteq Ids(b)
           /\ Users(b, i) \subseteq Downstream(b, i)
           /\ \A k \in Downstream(b, i) : Users(b, k) \subseteq Downstream(b, i)
           /\ \A j \in Downstream(b, i) : \E k \in Downstream(b, i) \cup {i} : j \in Users(b, k)
<1> DEFINE next == [k \in Ids(b) |-> Users(b, k)]
           D == Reached(i, next)
           S == {j \in Ids(b) : \E k \in D \cup {i} : j \in next[k]}
<1>1. DOMAIN next = Ids(b) /\ \A k \in Ids(b) : next[k] = Users(b, k) /\ next[k] \subseteq Ids(b)
  BY DEF Users
<1> HIDE DEF next
<1>2. D \subseteq Ids(b)
  BY <1>1 DEF Reached
<1>3. ASSUME NEW k \in D \cup {i}, NEW j \in next[k] PROVE j \in D
  <2>1. k \in Ids(b) /\ j \in Ids(b)
    BY <1>1, <1>2, <1>3
  <2>2. ASSUME NEW T \in SUBSET Ids(b), \A l \in T \cup {i} : next[l] \subseteq T PROVE j \in T
    <3>1. k \in T \cup {i}
      BY <1>1, <1>3, <2>2 DEF Reached
    <3> QED
      BY <1>3, <2>2, <3>1
  <2> QED
    BY <1>1, <2>1, <2>2 DEF Reached
<1>4. \A k \in S \cup {i} : next[k] \subseteq S
  BY <1>1, <1>3
<1>5. \A j \in D : j \in S
  <2> HIDE DEF S
  <2>1. S \in SUBSET Ids(b)
    BY DEF S
  <2> QED
    BY <1>1, <1>4, <2>1 DEF Reached
<1>6. Downstream(b, i) = D
  BY DEF Downstream, next
<1>7. \A k \in D \cup {i} : Users(b, k) = next[k]
  BY <1>1, <1>2
<1>8. \A k \in D \cup {i} : Users(b, k) \subseteq D
  BY <1>3, <1>7
<1>9. \A j \in D : \E k \in D \cup {i} : j \in Users(b, k)
  BY <1>5, <1>7
<1> HIDE DEF D
<1> QED
  BY <1>2, <1>6, <1>8, <1>9

Nameless(b) == \A j \in Ids(b) : b.def[j].policy # "Fallback"

LEMMA WhenWaiting ==
    ASSUME NEW b, IsBook(b), Nameless(b), NEW j \in Ids(b)
    PROVE  /\ Dormant(b, j) <=> j \in b.reserved
           /\ Target(b, j) = "Waiting" <=>
                Undecided(b, j) \/ (Unavailable(b, j) /\ b.def[j].policy = "Inline")
<1>1. Dormant(b, j) <=> j \in b.reserved
  BY DEF Dormant, MainsOf, Nameless
<1>2. b.def[j].policy \in {"Abort", "Continue", "Inline"}
  BY DEF IsBook, Definition, Policy, Nameless
<1> QED
  BY <1>1, <1>2 DEF Target

\* Whoever waits for d in b does so in c: it is no more decided, no better.
Milder(b, c, d) ==
    /\ Outcomes(c, d) # {} => Outcomes(b, d) # {}
    /\ Outcomes(c, d) = {"Succeeded"} => Outcomes(b, d) = {"Succeeded"}

LEMMA StaysWaiting ==
    ASSUME NEW b, IsBook(b), Nameless(b), NEW c, IsBook(c), Nameless(c),
           NEW j \in Ids(b) \cap Ids(c), c.def[j] = b.def[j],
           j \in b.reserved => j \in c.reserved,
           References(b.def[j]) \subseteq Ids(b),
           \A d \in b.def[j].deps : Milder(b, c, d),
           \A n \in b.def[j].inputs \cap Ids(c) : c.state[n] \in Terminal => b.state[n] \in Terminal,
           Target(b, j) = "Waiting"
    PROVE  Target(c, j) = "Waiting"
<1>1. b.def[j].deps \subseteq Ids(b) /\ b.def[j].inputs \subseteq Ids(b)
  BY DEF References
<1>2. CASE Undecided(b, j)
  <2>1. Undecided(c, j)
    <3>1. CASE j \in b.reserved
      BY <3>1, WhenWaiting DEF Undecided
    <3>2. CASE \E d \in b.def[j].deps : ~Decided(b, d)
      BY <1>1, <3>2 DEF Undecided, Decided, Milder
    <3>3. CASE \E n \in b.def[j].inputs : n \notin Ids(b) \/ b.state[n] \notin Terminal
      BY <1>1, <3>3 DEF Undecided
    <3> QED
      BY <1>2, <3>1, <3>2, <3>3, WhenWaiting DEF Undecided
  <2> QED
    BY <2>1, WhenWaiting
<1>3. CASE Unavailable(b, j) /\ b.def[j].policy = "Inline"
  <2>1. Unavailable(c, j)
    BY <1>3 DEF Unavailable, Milder
  <2> QED
    BY <1>3, <2>1, WhenWaiting
<1> QED
  BY <1>2, <1>3, WhenWaiting

LEMMA OutcomesAlike ==
    ASSUME NEW b, Nameless(b), NEW c, NEW d \in Ids(b), c.def[d] = b.def[d], c.state[d] = b.state[d],
           InlineOf(c, d) = InlineOf(b, d), \A n \in InlineOf(b, d) : c.state[n] = b.state[n]
    PROVE  Outcomes(c, d) = Outcomes(b, d)
<1>1. b.def[d].policy # "Fallback"
  BY DEF Nameless
<1>2. {c.state[n] : n \in InlineOf(c, d)} = {b.state[n] : n \in InlineOf(b, d)}
  OBVIOUS
<1> QED
  BY <1>1, <1>2 DEF Outcomes, FallbackStates

LEMMA AlikeIsMilder ==
    ASSUME NEW b, NEW c, NEW d, Outcomes(c, d) = Outcomes(b, d)
    PROVE  Milder(b, c, d)
  BY DEF Milder

LEMMA RoundIs ==
    ASSUME NEW b, IsBook(b), NEW scope, NEW c, c = Round(b, scope)
    PROVE  /\ IsBook(c)
           /\ Ids(c) = Ids(b) /\ c.def = b.def /\ c.reserved = b.reserved /\ c.used = b.used
           /\ \A j \in Ids(b) :
                c.state[j] = IF j \in scope /\ b.state[j] = "Waiting" THEN Target(b, j) ELSE b.state[j]
<1>1. c \in Settled(b)
  BY RoundSettles
<1>2. c.state = [j \in Ids(b) |-> IF j \in scope /\ b.state[j] = "Waiting" THEN Target(b, j) ELSE b.state[j]]
  BY DEF Round, IsBook
<1> QED
  BY <1>1, <1>2, SettledIsBook

\* Books that differ in nothing are the same.
LEMMA SameBook ==
    ASSUME NEW b, IsBook(b), NEW c, IsBook(c), c.def = b.def, c.reserved = b.reserved, c.used = b.used,
           \A j \in Ids(b) : c.state[j] = b.state[j]
    PROVE  c = b
<1>1. Ids(c) = Ids(b)
  BY DEF Ids
<1>2. c.state = b.state
  BY <1>1 DEF IsBook
<1> QED
  BY <1>2 DEF IsBook

\* settle_waiting stops only when there is nothing left to settle: as many rounds
\* as there are tasks are enough.
LEMMA SettleLeavesNone ==
    ASSUME NEW b, IsBook(b), NEW scope, IsFiniteSet(scope)
    PROVE  LeftBehind(Settle(b, scope)) \cap scope = {}
<1> DEFINE N == Cardinality(scope)
<1>1. N \in Nat
  BY FS_CardinalityType
<1>2. PICK f : Rounds(f, b, scope, Settled(b))
  <2>1. \A c \in Settled(b) : Round(c, scope) \in Settled(b)
    BY RoundSettles, SettledTwice, SettledIsBook
  <2>2. b \in Settled(b)
    BY SettledItself
  <2> QED
    BY <2>1, <2>2, SettleRuns
<1>3. /\ f \in [0..N -> Settled(b)] /\ f[0] = b
      /\ \A n \in 1..N : f[n] = Round(f[n - 1], scope)
      /\ Settle(b, scope) = f[N]
  BY <1>2 DEF Rounds
<1> DEFINE W(n) == {j \in scope \cap Ids(b) : f[n].state[j] = "Waiting"}
           Done(n) == LeftBehind(f[n]) \cap scope = {}
           T == {n \in Nat : n <= N => Done(n) \/ Cardinality(W(n)) + n <= N}
<1>4. \A n \in 0..N : IsFiniteSet(W(n)) /\ Cardinality(W(n)) \in Nat /\ Cardinality(W(n)) <= N
  <2> SUFFICES ASSUME NEW n \in 0..N
               PROVE  IsFiniteSet(W(n)) /\ Cardinality(W(n)) \in Nat /\ Cardinality(W(n)) <= N
    OBVIOUS
  <2>1. W(n) \subseteq scope
    OBVIOUS
  <2> HIDE DEF W
  <2> QED
    BY <2>1, FS_Subset, FS_CardinalityType
<1>5. \A n \in 0..N : IsBook(f[n]) /\ Ids(f[n]) = Ids(b)
  BY <1>3, SettledIsBook
<1>6. \A n \in 0..N : LeftBehind(f[n]) \cap scope \subseteq W(n)
  BY <1>5 DEF LeftBehind
<1>7. 0 \in T
  <2>1. 0 \in 0..N
    BY <1>1
  <2> HIDE DEF W, N, Done
  <2> QED
    BY <1>1, <1>4, <2>1
<1>8. ASSUME NEW n \in T PROVE n + 1 \in T
  <2> SUFFICES ASSUME n + 1 <= N PROVE Done(n + 1) \/ Cardinality(W(n + 1)) + (n + 1) <= N
    OBVIOUS
  <2>1. n \in 0..N /\ n + 1 \in 1..N /\ n + 1 \in 0..N /\ (n + 1) - 1 = n
    BY <1>1
  <2>2. f[n + 1] = Round(f[n], scope)
    BY <1>3, <2>1
  <2>3. /\ IsBook(f[n]) /\ IsBook(f[n + 1]) /\ Ids(f[n]) = Ids(b)
        /\ f[n + 1].def = f[n].def /\ f[n + 1].reserved = f[n].reserved /\ f[n + 1].used = f[n].used
        /\ \A j \in Ids(b) : f[n + 1].state[j] = IF j \in scope /\ f[n].state[j] = "Waiting"
                                                 THEN Target(f[n], j) ELSE f[n].state[j]
    BY <1>5, <2>1, <2>2, RoundIs
  <2>4. CASE Done(n)
    <3>1. \A j \in Ids(b) : f[n + 1].state[j] = f[n].state[j]
      BY <2>3, <2>4 DEF LeftBehind
    <3>2. f[n + 1] = f[n]
      BY <2>3, <3>1, SameBook
    <3> QED
      BY <2>4, <3>2
  <2>5. CASE ~Done(n)
    <3>1. PICK j \in scope : j \in LeftBehind(f[n])
      BY <2>5
    <3>2. j \in Ids(b) /\ f[n].state[j] = "Waiting" /\ f[n + 1].state[j] # "Waiting"
      BY <2>3, <3>1 DEF LeftBehind
    <3>3. W(n + 1) \subseteq W(n) \ {j} /\ j \in W(n)
      BY <2>3, <3>2
    <3>4. Cardinality(W(n)) + n <= N
      BY <2>1, <2>5
    <3>5. /\ IsFiniteSet(W(n)) /\ Cardinality(W(n)) \in Nat
          /\ IsFiniteSet(W(n + 1)) /\ Cardinality(W(n + 1)) \in Nat
      BY <1>4, <2>1
    <3> HIDE DEF W, N
    <3>6. IsFiniteSet(W(n) \ {j}) /\ Cardinality(W(n) \ {j}) = Cardinality(W(n)) - 1
      BY <3>3, <3>5, FS_RemoveElement
    <3>7. Cardinality(W(n + 1)) <= Cardinality(W(n)) - 1
      BY <3>3, <3>6, FS_Subset
    <3> QED
      BY <1>1, <2>1, <3>4, <3>5, <3>7
  <2> QED
    BY <2>4, <2>5
<1>9. N \in T
  <2>1. T \in SUBSET Nat
    OBVIOUS
  <2> HIDE DEF T
  <2> QED
    BY <1>1, <1>7, <1>8, <2>1, Induction
<1>10. Done(N)
  <2>1. CASE Cardinality(W(N)) + N <= N
    <3>1. N \in 0..N
      BY <1>1
    <3>2. IsFiniteSet(W(N)) /\ Cardinality(W(N)) = 0
      <4>1. IsFiniteSet(W(N)) /\ Cardinality(W(N)) \in Nat
        BY <1>4, <3>1
      <4> HIDE DEF W, N
      <4> QED
        BY <1>1, <2>1, <4>1
    <3>3. W(N) = {}
      BY <3>2, FS_EmptySet
    <3> QED
      BY <1>6, <3>1, <3>3
  <2> QED
    BY <1>1, <1>9, <2>1
<1> QED
  BY <1>3, <1>10

LEMMA CascadeLeavesNone ==
    ASSUME NEW b, IsBook(b), NEW i
    PROVE  LeftBehind(Cascade(b, i)) \cap Downstream(b, i) = {}
  BY DownstreamIsFinite, SettleLeavesNone DEF Cascade

\* Rounds look at their scope only.
LEMMA SettleKeepsToScope ==
    ASSUME NEW b, IsBook(b), NEW scope, IsFiniteSet(scope)
    PROVE  \A j \in Ids(b) \ scope : Settle(b, scope).state[j] = b.state[j]
<1> DEFINE U == {c \in Settled(b) : \A j \in Ids(b) \ scope : c.state[j] = b.state[j]}
<1>1. b \in U
  BY SettledItself
<1>2. ASSUME NEW c \in U PROVE Round(c, scope) \in U
  <2>1. IsBook(c) /\ Ids(c) = Ids(b)
    BY <1>2, SettledIsBook
  <2>2. Round(c, scope) \in Settled(b)
    BY <1>2, <2>1, RoundSettles, SettledTwice
  <2>3. \A j \in Ids(b) \ scope : Round(c, scope).state[j] = c.state[j]
    BY <2>1, RoundIs
  <2> QED
    BY <1>2, <2>2, <2>3
<1> HIDE DEF U
<1>3. PICK f : Rounds(f, b, scope, U)
  BY <1>1, <1>2, SettleRuns
<1>4. Settle(b, scope) \in U
  BY <1>3, FS_CardinalityType DEF Rounds
<1> QED
  BY <1>4 DEF U

\* What who waits for whom rests on: nothing here but the definitions.
Orderly(b) == IsBook(b) /\ Nameless(b) /\ Closed(b) /\ Single(b) /\ Shaped(b)

LEMMA OrderlyAlike ==
    ASSUME NEW b, Orderly(b), NEW c, IsBook(c), c.def = b.def
    PROVE  /\ Orderly(c) /\ Ids(c) = Ids(b)
           /\ \A i : Downstream(c, i) = Downstream(b, i)
  BY DEF Orderly, Nameless, Closed, Single, Shaped, Ids, Downstream, Users

\* What happens downstream of x concerns nobody outside.
LEMMA OutsideUntouched ==
    ASSUME NEW c, Orderly(c), NEW e, IsBook(e), e.def = c.def, e.reserved = c.reserved, NEW x \in Ids(c),
           \A k \in Ids(c) \ Downstream(c, x) : e.state[k] = c.state[k]
    PROVE  LeftBehind(e) \ Downstream(c, x) \subseteq LeftBehind(c)
<1> DEFINE D == Downstream(c, x)
<1>1. /\ Orderly(e) /\ Ids(e) = Ids(c)
      /\ \A k \in D \cup {x} : Users(c, k) \subseteq D
      /\ \A j \in D : j \in Ids(c) /\ \E k \in D \cup {x} : j \in Users(c, k)
  BY OrderlyAlike, DownstreamIs
<1> HIDE DEF D
<1> SUFFICES ASSUME NEW j \in LeftBehind(e), j \notin D PROVE j \in LeftBehind(c)
  BY DEF D
<1>2. j \in Ids(c) /\ e.state[j] = "Waiting" /\ Target(e, j) # "Waiting" /\ c.state[j] = "Waiting"
  BY <1>1 DEF LeftBehind, D
<1>3. References(c.def[j]) \subseteq Ids(c)
  BY <1>2 DEF Orderly, Closed
<1>4. \A k \in c.def[j].deps \cup c.def[j].inputs : k \in Ids(c) /\ k \notin D /\ e.state[k] = c.state[k]
  BY <1>1, <1>2, <1>3 DEF References, Users, D
<1>5. ASSUME NEW d \in c.def[j].deps PROVE Milder(c, e, d)
  <2>1. InlineOf(e, d) = InlineOf(c, d)
    BY <1>1 DEF InlineOf
  <2>2. ASSUME NEW n \in InlineOf(c, d) PROVE e.state[n] = c.state[n]
    <3>1. n \in Ids(c) /\ c.def[n].deps = c.def[d].deps /\ c.def[n].inputs = {}
      BY <1>4 DEF InlineOf, Orderly, Shaped
    <3>2. \A k : n \in Users(c, k) => d \in Users(c, k)
      BY <1>4, <3>1 DEF Users
    <3>3. n \notin D
      BY <1>1, <1>4, <3>2
    <3> QED
      BY <3>1, <3>3 DEF D
  <2>3. Outcomes(e, d) = Outcomes(c, d)
    BY <1>4, <2>1, <2>2, OutcomesAlike DEF Orderly
  <2> QED
    BY <2>3, AlikeIsMilder
<1>6. Target(c, j) = "Waiting" => Target(e, j) = "Waiting"
  BY <1>1, <1>2, <1>3, <1>4, <1>5, StaysWaiting DEF Orderly
<1> QED
  BY <1>2, <1>6 DEF LeftBehind

\* cascade_downstream leaves only those behind that were so before, elsewhere.
LEMMA CascadeLeaves ==
    ASSUME NEW c, Orderly(c), NEW x \in Ids(c)
    PROVE  LeftBehind(Cascade(c, x)) \subseteq LeftBehind(c) \ Downstream(c, x)
<1> DEFINE e == Cascade(c, x)
<1>1. IsBook(c) /\ e \in Settled(c)
  BY CascadeSettles DEF Orderly
<1>2. IsBook(e) /\ e.def = c.def /\ e.reserved = c.reserved
  BY <1>1, SettledIsBook
<1>3. \A k \in Ids(c) \ Downstream(c, x) : e.state[k] = c.state[k]
  BY <1>1, DownstreamIsFinite, SettleKeepsToScope DEF Cascade
<1>4. LeftBehind(e) \cap Downstream(c, x) = {}
  BY <1>1, CascadeLeavesNone
<1> HIDE DEF e
<1>5. LeftBehind(e) \ Downstream(c, x) \subseteq LeftBehind(c)
  BY <1>2, <1>3, OutsideUntouched
<1> QED
  BY <1>4, <1>5 DEF e

LEMMA CascadeAllLeaves ==
    ASSUME NEW b, Orderly(b), NEW tasks \in Seq(Ids(b))
    PROVE  LeftBehind(CascadeAll(b, tasks)) \subseteq
             {j \in LeftBehind(b) : \A l \in 1..Len(tasks) : j \notin Downstream(b, tasks[l])}
<1> DEFINE N == Len(tasks)
           Still(n) == {j \in LeftBehind(b) : \A l \in 1..n : j \notin Downstream(b, tasks[l])}
<1>1. IsBook(b) /\ N \in Nat
  BY DEF Orderly
<1>2. PICK f : Cascades(f, b, tasks)
  BY <1>1, CascadeAllRuns
<1>3. /\ f \in [0..N -> Settled(b)] /\ f[0] = b
      /\ \A n \in 1..N : f[n] = Cascade(f[n - 1], tasks[n])
      /\ CascadeAll(b, tasks) = f[N]
  BY <1>2 DEF Cascades
<1> DEFINE T == {n \in Nat : n <= N => LeftBehind(f[n]) \subseteq Still(n)}
<1>4. 0 \in T
  BY <1>3
<1>5. ASSUME NEW n \in T PROVE n + 1 \in T
  <2> SUFFICES ASSUME n + 1 <= N PROVE LeftBehind(f[n + 1]) \subseteq Still(n + 1)
    OBVIOUS
  <2>1. n \in 0..N /\ n + 1 \in 1..N /\ (n + 1) - 1 = n /\ n \in Nat
    BY <1>1
  <2>2. f[n + 1] = Cascade(f[n], tasks[n + 1]) /\ tasks[n + 1] \in Ids(b)
    BY <1>3, <2>1
  <2>3. IsBook(f[n]) /\ f[n].def = b.def
    BY <1>1, <1>3, <2>1, SettledIsBook
  <2>4. /\ Orderly(f[n]) /\ Ids(f[n]) = Ids(b)
        /\ Downstream(f[n], tasks[n + 1]) = Downstream(b, tasks[n + 1])
    BY <2>3, OrderlyAlike
  <2>5. LeftBehind(f[n + 1]) \subseteq LeftBehind(f[n]) \ Downstream(b, tasks[n + 1])
    BY <2>2, <2>4, CascadeLeaves
  <2>6. LeftBehind(f[n]) \subseteq Still(n)
    BY <1>1, <2>1
  <2>7. \A l \in 1..(n + 1) : l \in 1..n \/ l = n + 1
    BY <2>1
  <2> QED
    BY <2>5, <2>6, <2>7
<1>6. N \in T
  <2>1. T \in SUBSET Nat
    OBVIOUS
  <2> HIDE DEF T
  <2> QED
    BY <1>1, <1>4, <1>5, <2>1, Induction
<1>7. LeftBehind(f[N]) \subseteq Still(N)
  <2> HIDE DEF Still
  <2> QED
    BY <1>1, <1>6
<1> QED
  BY <1>3, <1>7

\* Where fewer tasks have ended, and just those have succeeded, nobody has less to
\* wait for.
LEMMA NothingDecided ==
    ASSUME NEW b, Orderly(b), NEW c, Orderly(c), Ids(c) \subseteq Ids(b),
           \A k \in Ids(c) : /\ c.def[k] = b.def[k]
                             /\ c.state[k] \in Terminal => b.state[k] \in Terminal
                             /\ c.state[k] = "Succeeded" <=> b.state[k] = "Succeeded"
                             /\ k \in b.reserved => k \in c.reserved,
           NEW j \in Ids(c), Target(b, j) = "Waiting"
    PROVE  Target(c, j) = "Waiting"
<1>1. ASSUME NEW d \in Ids(c) PROVE Milder(b, c, d)
  <2>1. b.def[d].policy # "Fallback" /\ c.def[d] = b.def[d]
    BY DEF Orderly, Nameless
  <2>2. /\ c.state[d] \in Terminal => b.state[d] \in Terminal
        /\ c.state[d] = "Succeeded" <=> b.state[d] = "Succeeded"
    OBVIOUS
  <2>3. CASE c.state[d] \in Terminal \ {"Succeeded"} /\ c.def[d].policy = "Inline"
    <3> DEFINE X == {c.state[n] : n \in InlineOf(c, d)} \cap Terminal
               Y == {b.state[n] : n \in InlineOf(b, d)} \cap Terminal
    <3>1. Outcomes(c, d) = X /\ Outcomes(b, d) = Y
      BY <2>1, <2>2, <2>3 DEF Outcomes, FallbackStates
    <3>2. InlineOf(c, d) \subseteq InlineOf(b, d) /\ InlineOf(c, d) \subseteq Ids(c)
      BY DEF InlineOf
    <3>3. d # Nobody
      BY NobodyIsNoTask DEF Orderly, IsBook
    <3>4. \A m, n \in InlineOf(b, d) : m = n
      BY <3>3 DEF InlineOf, Orderly, Single
    <3>5. X # {} => Y # {}
      BY <3>2
    <3>6. X = {"Succeeded"} => Y = {"Succeeded"}
      <4> SUFFICES ASSUME X = {"Succeeded"} PROVE Y = {"Succeeded"}
        OBVIOUS
      <4>1. PICK n \in InlineOf(c, d) : c.state[n] = "Succeeded"
        OBVIOUS
      <4>2. InlineOf(b, d) = {n} /\ b.state[n] = "Succeeded"
        BY <3>2, <3>4, <4>1
      <4> QED
        BY <4>2 DEF Terminal
    <3> QED
      BY <3>1, <3>5, <3>6 DEF Milder
  <2>4. CASE c.state[d] \in Terminal /\ ~(c.state[d] \in Terminal \ {"Succeeded"} /\ c.def[d].policy = "Inline")
    <3>1. Outcomes(c, d) = {c.state[d]} /\ Outcomes(b, d) = {b.state[d]}
      BY <2>1, <2>2, <2>4 DEF Outcomes
    <3> QED
      BY <2>2, <3>1 DEF Milder
  <2>5. CASE c.state[d] \notin Terminal
    BY <2>5 DEF Outcomes, Milder
  <2> QED
    BY <2>3, <2>4, <2>5
<1>2. References(c.def[j]) \subseteq Ids(c) /\ c.def[j] = b.def[j]
  BY DEF Orderly, Closed
<1>3. References(b.def[j]) \subseteq Ids(b)
  BY <1>2
<1>4. \A d \in b.def[j].deps : Milder(b, c, d)
  BY <1>1, <1>2 DEF References
<1> QED
  BY <1>2, <1>3, <1>4, StaysWaiting DEF Orderly

\* A task that is put into another state, and perhaps the inline fallback it is given,
\* concern those who use it or its main.
LEMMA ChangeConcernsUsers ==
    ASSUME NEW b, Orderly(b), LeftBehind(b) = {}, NEW i \in Ids(b), NEW e, Orderly(e),
           Ids(b) \subseteq Ids(e), e.reserved = b.reserved, e.state[i] # "Waiting",
           \A k \in Ids(b) : e.def[k] = b.def[k] /\ (k # i => e.state[k] = b.state[k]),
           \A k \in Ids(e) \ Ids(b) : e.def[k].of = i /\ (e.state[k] = "Waiting" => Target(e, k) = "Waiting")
    PROVE  LeftBehind(e) \subseteq Users(b, i) \cup Users(b, b.def[i].of)
<1> SUFFICES ASSUME NEW j \in LeftBehind(e), j \notin Users(b, i) \cup Users(b, b.def[i].of)
             PROVE  FALSE
  OBVIOUS
<1>1. j \in Ids(e) /\ e.state[j] = "Waiting" /\ Target(e, j) # "Waiting"
  BY DEF LeftBehind
<1>2. j \in Ids(b) /\ j # i
  BY <1>1
<1>3. b.state[j] = "Waiting" /\ Target(b, j) = "Waiting"
  BY <1>1, <1>2 DEF LeftBehind
<1>4. References(b.def[j]) \subseteq Ids(b)
  BY <1>2 DEF Orderly, Closed
<1>5. \A k \in b.def[j].deps \cup b.def[j].inputs : k \in Ids(b) /\ k # i /\ k # b.def[i].of
  BY <1>2, <1>4 DEF References, Users
<1>6. ASSUME NEW d \in b.def[j].deps PROVE Milder(b, e, d)
  <2>1. d \in Ids(b) /\ d # i /\ d # b.def[i].of
    BY <1>5
  <2>2. InlineOf(e, d) = InlineOf(b, d) /\ i \notin InlineOf(b, d) /\ InlineOf(b, d) \subseteq Ids(b)
    BY <2>1 DEF InlineOf
  <2>3. Outcomes(e, d) = Outcomes(b, d)
    BY <2>1, <2>2, OutcomesAlike DEF Orderly
  <2> QED
    BY <2>3, AlikeIsMilder
<1>7. \A n \in b.def[j].inputs : e.state[n] = b.state[n]
  BY <1>5
<1>8. Target(e, j) = "Waiting"
  BY <1>1, <1>2, <1>3, <1>4, <1>6, <1>7, StaysWaiting DEF Orderly
<1> QED
  BY <1>1, <1>8

\* A task that is created waits only if it has something to wait for.
LEMMA BornWaits ==
    ASSUME NEW b, IsBook(b), NEW i \in Task \ Ids(b), NEW d \in Definition,
           NEW c, c = Born(b, i, d), c.state[i] = "Waiting"
    PROVE  Undecided(c, i)
<1> DEFINE b1 == [def |-> [j \in Ids(b) \cup {i} |-> IF j = i THEN d ELSE b.def[j]],
                  state |-> [j \in Ids(b) \cup {i} |-> IF j = i THEN "Waiting" ELSE b.state[j]],
                  reserved |-> b.reserved, used |-> b.used \cup {i}]
<1>1. c = [b1 EXCEPT !.state[i] = Evaluated(b1, i)]
  BY DEF Born
<1>2. b1.state = [j \in Ids(b) \cup {i} |-> IF j = i THEN "Waiting" ELSE b.state[j]] /\ b1.state[i] = "Waiting"
  OBVIOUS
<1>3. b1 = [def |-> b1.def, state |-> b1.state, reserved |-> b1.reserved, used |-> b1.used]
  OBVIOUS
<1> HIDE DEF b1
<1>4. c.state = [b1.state EXCEPT ![i] = Evaluated(b1, i)]
  BY <1>1, <1>3
<1>5. Evaluated(b1, i) = "Waiting"
  BY <1>2, <1>4
<1>6. c.state = b1.state
  BY <1>2, <1>4, <1>5
<1>7. c = b1
  BY <1>1, <1>3, <1>5, <1>6
<1>8. Evaluated(c, i) = "Waiting"
  BY <1>5, <1>7
<1> QED
  BY <1>8 DEF Evaluated

\* Without named fallbacks the end of a task skips no other.
LEMMA NobodyIsUnneeded ==
    ASSUME NEW b, IsBook(b), NEW i \in Ids(b), b.def[i].target = Nobody
    PROVE  Unneeded(b, i) = <<i>>
<1>1. WithFallback(b, <<i>>) = <<i>>
  <2>1. Head(<<i>>) = i /\ Nobody \notin Ids(b)
    BY NobodyIsNoTask DEF IsBook
  <2> QED
    BY <2>1 DEF WithFallback
<1>2. \A l \in {<<i>>} : WithFallback(b, l) \in {<<i>>}
  BY <1>1
<1>3. Unneeded(b, i) \in {<<i>>}
  BY <1>2, UnneededRuns
<1> QED
  BY <1>3

LEMMA PropagateOne ==
    ASSUME NEW b, NEW i
    PROVE  PropagateAll(b, <<i>>) = Propagate(b, i, "Skipped")
<1> DEFINE line == <<i>>
           after[n \in 0..Len(line)] == IF n = 0 THEN b ELSE Propagate(after[n - 1], line[n], "Skipped")
           f == [n \in 0..1 |-> IF n = 0 THEN b ELSE Propagate(b, i, "Skipped")]
<1>1. Len(line) = 1 /\ line[1] = i
  OBVIOUS
<1> HIDE DEF line
<1>2. f = [n \in 0..Len(line) |-> IF n = 0 THEN b ELSE Propagate(f[n - 1], line[n], "Skipped")]
  BY <1>1
<1> HIDE DEF f
<1>3. after = [n \in 0..Len(line) |-> IF n = 0 THEN b ELSE Propagate(after[n - 1], line[n], "Skipped")]
  BY <1>2
<1>4. PropagateAll(b, line) = after[Len(line)]
  BY DEF PropagateAll
<1> HIDE DEF after
<1>5. after[0] = b
  BY <1>1, <1>3
<1>6. after[1] = Propagate(after[0], line[1], "Skipped")
  BY <1>1, <1>3
<1> QED
  BY <1>1, <1>4, <1>5, <1>6 DEF line

\* No menu names a fallback.
Unnamed == \A i \in DOMAIN Definitions : \A d \in Definitions[i] : d.policy # "Fallback"

LEMMA NamelessBook ==
    ASSUME Unnamed, NEW b, WellFormed(b)
    PROVE  Nameless(b) /\ \A j \in Ids(b) : b.def[j].target = Nobody
<1> SUFFICES ASSUME NEW j \in Ids(b) PROVE b.def[j].policy # "Fallback" /\ b.def[j].target = Nobody
  BY DEF Nameless
<1>1. Known(b, j)
  BY DEF WellFormed
<1>2. CASE j \in DOMAIN Definitions /\ b.def[j] \in Definitions[j]
  BY <1>2, MenusAreDefinitions DEF Unnamed
<1>3. CASE ~(j \in DOMAIN Definitions /\ b.def[j] \in Definitions[j])
  <2>1. PICK m \in DOMAIN Definitions : \E d \in Definitions[m] : b.def[j] = InlineFor(d, m)
    BY <1>1, <1>3 DEF Known
  <2> QED
    BY <2>1, MenusAreDefinitions, NobodyIsNoTask, InlineDefinition
<1> QED
  BY <1>2, <1>3

LEMMA ChangeIsOrderly ==
    ASSUME Unnamed, Unmarked, Inheriting, ~ForceDeletes, NEW b, WellFormed(b), Orderly(b), NEW c, Changes(b, c)
    PROVE  WellFormed(c) /\ Orderly(c)
<1>1. WellFormed(c)
  BY ChangedIsWellFormed
<1> QED
  BY <1>1, NamelessBook, ChangeKeepsClosed, ChangeKeepsSingle, ChangeKeepsShaped DEF Orderly, WellFormed

LEMMA SecondOfTwo ==
    ASSUME NEW i, NEW m, NEW listed \in Seq({m}), Len(listed) = 1,
           NEW tasks, tasks = <<i>> \o listed
    PROVE  2 \in 1..Len(tasks) /\ tasks[2] = m
<1>1. listed[1] = m
  <2>1. 1 \in 1..Len(listed)
    OBVIOUS
  <2>2. listed[1] \in {m}
    BY <2>1
  <2> QED
    BY <2>2
<1>2. <<i>> \in Seq({i, m}) /\ listed \in Seq({i, m})
  OBVIOUS
<1> QED
  BY <1>1, <1>2

\* Those who use a task are downstream of it; nobody uses what is not there.
LEMMA PropagateReachesUsers ==
    ASSUME NEW e, Orderly(e), NEW i \in Ids(e), NEW s \in Terminal,
           LeftBehind(e) \subseteq Users(e, i) \cup Users(e, e.def[i].of)
    PROVE  LeftBehind(Propagate(e, i, s)) = {}
<1> DEFINE m == e.def[i].of
           S == {m} \cap Ids(e)
           tasks == <<i>> \o SetToSeq(S)
<1>1. Rescued(e, i) = S
  BY DEF Rescued, MainsOf, Orderly, Nameless
<1>2. Propagate(e, i, s) = CascadeAll(e, tasks)
  <2> HIDE DEF S
  <2>1. (IF s \in Terminal THEN Rescued(e, i) ELSE {}) = S
    BY <1>1
  <2>2. Propagate(e, i, s) =
          CascadeAll(e, <<i>> \o SetToSeq(IF s \in Terminal THEN Rescued(e, i) ELSE {}))
    BY DEF Propagate
  <2> QED
    BY <2>1, <2>2, Zenon
<1>3. IsFiniteSet(S)
  <2>1. S \subseteq {m}
    OBVIOUS
  <2>2. IsFiniteSet({m})
    BY FS_Singleton
  <2> HIDE DEF S
  <2> QED
    BY <2>1, <2>2, FS_Subset
<1>4. SetToSeq(S) \in Seq(S)
  BY <1>3, Listed
<1> HIDE DEF S
<1>5. tasks \in Seq(Ids(e)) /\ 1 \in 1..Len(tasks) /\ tasks[1] = i
  <2>1. S \subseteq Ids(e)
    BY DEF S
  <2>2. SetToSeq(S) \in Seq(Ids(e))
    BY <1>4, <2>1
  <2> QED
    BY <2>2
<1>6. m \in Ids(e) => \E l \in 1..Len(tasks) : tasks[l] = m
  <2> SUFFICES ASSUME m \in Ids(e) PROVE \E l \in 1..Len(tasks) : tasks[l] = m
    OBVIOUS
  <2> DEFINE listed == SetToSeq(S)
  <2>1. S = {m}
    BY DEF S
  <2>2. Cardinality(S) = 1
    BY <2>1, FS_Singleton
  <2>3. Len(listed) = 1 /\ listed \in Seq({m})
    BY <1>3, <1>4, <2>1, <2>2, ListedLength
  <2>4. tasks = <<i>> \o listed
    OBVIOUS
  <2> HIDE DEF listed, tasks
  <2>5. 2 \in 1..Len(tasks) /\ tasks[2] = m
    BY <2>3, <2>4, SecondOfTwo
  <2> QED
    BY <2>5
<1> HIDE DEF tasks
<1>7. LeftBehind(CascadeAll(e, tasks)) \subseteq
        {j \in LeftBehind(e) : \A l \in 1..Len(tasks) : j \notin Downstream(e, tasks[l])}
  BY <1>5, CascadeAllLeaves
<1>8. Users(e, i) \subseteq Downstream(e, i)
  BY DownstreamIs
<1>9. m \in Ids(e) => Users(e, m) \subseteq Downstream(e, m)
  BY DownstreamIs
<1>10. m \notin Ids(e) => Users(e, m) = {}
  BY DEF Users, Orderly, Closed, References
<1> QED
  BY <1>2, <1>5, <1>6, <1>7, <1>8, <1>9, <1>10

LEMMA PropagateAddsNone ==
    ASSUME NEW e, Orderly(e), NEW i \in Ids(e), NEW s, s \notin Terminal, LeftBehind(e) = {}
    PROVE  LeftBehind(Propagate(e, i, s)) = {}
<1>1. SetToSeq({}) \in Seq({})
  BY FS_EmptySet, Listed
<1> DEFINE tasks == <<i>> \o SetToSeq({})
<1>2. tasks \in Seq(Ids(e))
  BY <1>1
<1>3. Propagate(e, i, s) = CascadeAll(e, tasks)
  BY DEF Propagate
<1> HIDE DEF tasks
<1> QED
  BY <1>2, <1>3, CascadeAllLeaves

\* What an inline fallback that waits is told to do at its creation.
LEMMA MaterializeAdds ==
    ASSUME NEW b, IsBook(b), NEW i \in Ids(b), Ids(b) \subseteq b.used,
           NeedsInline(b, i) => ~(InlineIds \subseteq b.used), NEW c, c = Materialize(b, i)
    PROVE  /\ Ids(b) \subseteq Ids(c) /\ c.reserved = b.reserved
           /\ \A j \in Ids(b) : c.def[j] = b.def[j] /\ c.state[j] = b.state[j]
           /\ \A j \in Ids(c) \ Ids(b) :
                c.def[j].of = i /\ (c.state[j] = "Waiting" => Target(c, j) = "Waiting")
<1>1. CASE ~NeedsInline(b, i)
  BY <1>1 DEF Materialize
<1>2. CASE NeedsInline(b, i)
  <2> DEFINE n == CHOOSE n \in InlineIds \ b.used : TRUE
             d == InlineDef(b, i)
  <2>1. n \in InlineIds \ b.used /\ n \in Task \ Ids(b)
    BY <1>2, TaskAssumption
  <2>2. d \in Definition /\ d.of = i /\ d.policy \in {"Abort", "Continue"}
    BY InlineDefinition DEF InlineDef, IsBook
  <2>3. c = Born(b, n, d)
    BY <1>2 DEF Materialize
  <2> HIDE DEF d, n
  <2>4. c.state[n] = "Waiting" => Target(c, n) = "Waiting"
    BY <2>1, <2>2, <2>3, BornWaits DEF Target
  <2>5. /\ Ids(c) = Ids(b) \cup {n} /\ c.def[n] = d /\ c.reserved = b.reserved
        /\ \A j \in Ids(b) : c.def[j] = b.def[j] /\ c.state[j] = b.state[j]
    BY <2>1, <2>2, <2>3, BornIs
  <2> QED
    BY <2>2, <2>4, <2>5
<1> QED
  BY <1>1, <1>2

LEMMA SkipNone ==
    ASSUME NEW b, IsBook(b), NEW i
    PROVE  SkipAll(b, Range(<<i>>) \ {i}) = b
<1>1. Range(<<i>>) \ {i} = {}
  BY DEF Range
<1>2. SkipAll(b, {}) = [b EXCEPT !.state = [j \in Ids(b) |-> b.state[j]]]
  BY DEF SkipAll
<1>3. [j \in Ids(b) |-> b.state[j]] = b.state
  BY DEF IsBook
<1>4. SkipAll(b, {}) = b
  BY <1>2, <1>3 DEF IsBook
<1> QED
  BY <1>1, <1>4

\* set_state carries the end of a task to all whom it concerns.
LEMMA EndReachesAll ==
    ASSUME Unnamed, Unmarked, Inheriting, ~ForceDeletes, NEW b, WellFormed(b), Orderly(b), LeftBehind(b) = {},
           NEW i \in Ids(b), NEW s \in Terminal, NEW e, Transits(b, e, i, s),
           Ids(b) \subseteq Ids(e), e.reserved = b.reserved, e.state[i] = s,
           \A k \in Ids(b) : e.def[k] = b.def[k] /\ (k # i => e.state[k] = b.state[k]),
           \A k \in Ids(e) \ Ids(b) : e.def[k].of = i /\ (e.state[k] = "Waiting" => Target(e, k) = "Waiting")
    PROVE  LeftBehind(Propagate(e, i, s)) = {}
<1>1. Orderly(e)
  BY ChangeIsOrderly DEF Changes
<1>2. LeftBehind(e) \subseteq Users(b, i) \cup Users(b, b.def[i].of)
  BY <1>1, ChangeConcernsUsers DEF Terminal
<1>3. \A k : Users(b, k) \subseteq Users(e, k)
  BY DEF Users
<1>4. e.def[i].of = b.def[i].of
  OBVIOUS
<1>5. LeftBehind(e) \subseteq Users(e, i) \cup Users(e, e.def[i].of)
  BY <1>2, <1>3, <1>4
<1> QED
  BY <1>1, <1>5, PropagateReachesUsers

LEMMA SetStateLeavesNone ==
    ASSUME Unnamed, Unmarked, Inheriting, ~ForceDeletes, NEW b, WellFormed(b), Orderly(b), LeftBehind(b) = {},
           NEW i \in Ids(b), NEW s,
           <<b.state[i], s>> \in ValidTransition \cup {<<"Ready", "Failed">>},
           s \in {"Running", "Succeeded", "Failed", "Cancelled", "Unknown"},
           s = "Failed" /\ NeedsInline(b, i) => ~(InlineIds \subseteq b.used)
    PROVE  LeftBehind(SetState(b, i, s)) = {}
<1> DEFINE b1 == Put(b, i, s)
           line == Unneeded(b1, i)
<1>1. /\ IsBook(b1)
      /\ Ids(b1) = Ids(b) /\ b1.def = b.def /\ b1.reserved = b.reserved /\ b1.used = b.used
      /\ b1.state[i] = s /\ \A k \in Ids(b) \ {i} : b1.state[k] = b.state[k]
  <2>1. IsBook(b) /\ s \in States
    BY DEF WellFormed, States
  <2> QED
    BY <2>1, PutIs
<1>2. SetState(b, i, s) =
        CASE s = "Failed" -> IF CannotRescue(b1, i) THEN b1 ELSE Propagate(Rescue(b1, i), i, s)
          [] s \in Terminal \ {"Failed"} -> PropagateAll(SkipAll(b1, Range(line) \ {i}), line)
          [] s \notin Terminal -> Propagate(b1, i, s)
  BY DEF SetState, Put
<1>3. \A e : Follows(b1, e) => Transits(b, e, i, s)
  BY DEF Transits
<1>4. Transits(b, b1, i, s)
  BY <1>1, <1>3, FollowsItself
<1> HIDE DEF b1
<1>5. WellFormed(b1) /\ Orderly(b1)
  BY <1>4, ChangeIsOrderly DEF Changes
<1>6. CASE s = "Failed"
  <2> DEFINE e == Materialize(b1, i)
  <2>1. NeedsInline(b1, i) => NeedsInline(b, i)
    BY <1>1 DEF NeedsInline, InlineOf, Ids
  <2>2. ~CannotRescue(b1, i)
    <3> SUFFICES ASSUME NeedsInline(b1, i) PROVE Accepts(b1, InlineDef(b1, i))
      BY DEF CannotRescue
    <3>1. NoneDangling(b1)
      BY <1>5 DEF NoneDangling, Orderly, Closed, References
    <3>2. i \in DOMAIN Definitions /\ b1.def[i] \in Definitions[i] /\ b1.def[i].policy = "Inline"
      BY <1>1, <1>5, OfMenus DEF NeedsInline, WellFormed
    <3>3. ~b1.def[i].inline.own /\ b1.def[i].inline.inputs = {}
      BY <3>2 DEF Inheriting
    <3>4. References(InlineDef(b1, i)) \subseteq References(b1.def[i])
      BY <3>3 DEF InlineDef, InlineFor, References
    <3> QED
      BY <1>1, <1>5, <3>1, <3>4 DEF Accepts, Orderly, Closed
  <2>3. Rescue(b1, i) = e
    BY <1>1, <1>5 DEF Rescue, Orderly, Nameless
  <2>4. Ids(b1) \subseteq b1.used /\ (NeedsInline(b1, i) => ~(InlineIds \subseteq b1.used))
    BY <1>1, <1>6, <2>1 DEF WellFormed
  <2>5. Transits(b, e, i, s)
    BY <1>1, <1>3, <2>2, <2>4, MaterializeFollows
  <2>6. /\ Ids(b1) \subseteq Ids(e) /\ e.reserved = b1.reserved
        /\ \A j \in Ids(b1) : e.def[j] = b1.def[j] /\ e.state[j] = b1.state[j]
        /\ \A j \in Ids(e) \ Ids(b1) : e.def[j].of = i /\ (e.state[j] = "Waiting" => Target(e, j) = "Waiting")
    BY <1>1, <2>4, MaterializeAdds
  <2>7. SetState(b, i, s) = Propagate(e, i, s)
    <3>1. SetState(b, i, s) = Propagate(Rescue(b1, i), i, s)
      BY <1>2, <1>6, <2>2 DEF Terminal
    <3> QED
      BY <2>3, <3>1
  <2> HIDE DEF e
  <2>8. LeftBehind(Propagate(e, i, s)) = {}
    BY <1>1, <1>6, <2>5, <2>6, EndReachesAll DEF Terminal
  <2> QED
    BY <2>7, <2>8
<1>7. CASE s \in Terminal \ {"Failed"}
  <2>1. line = <<i>>
    BY <1>1, NamelessBook, NobodyIsUnneeded
  <2> HIDE DEF line
  <2>2. SkipAll(b1, Range(line) \ {i}) = b1
    BY <1>1, <2>1, SkipNone
  <2>3. SetState(b, i, s) = PropagateAll(b1, <<i>>)
    BY <1>2, <1>7, <2>1, <2>2
  <2>4. SetState(b, i, s) = Propagate(b1, i, "Skipped")
    BY <2>3, PropagateOne
  <2>5. Propagate(b1, i, "Skipped") = Propagate(b1, i, s)
    BY <1>7 DEF Propagate, Terminal
  <2>6. LeftBehind(Propagate(b1, i, s)) = {}
    BY <1>1, <1>4, <1>7, EndReachesAll
  <2> QED
    BY <2>4, <2>5, <2>6
<1>8. CASE s \notin Terminal
  <2>1. SetState(b, i, s) = Propagate(b1, i, s)
    BY <1>2, <1>8 DEF Terminal
  <2>2. s \in {"Running", "Unknown"} /\ b.state[i] \notin Terminal
    BY <1>8 DEF ValidTransition, Terminal
  <2>3. ASSUME NEW j \in LeftBehind(b1) PROVE FALSE
    <3>1. j \in Ids(b) /\ j # i /\ b.state[j] = "Waiting" /\ Target(b1, j) # "Waiting"
      BY <1>1, <2>2 DEF LeftBehind
    <3>2. Target(b, j) = "Waiting"
      BY <3>1 DEF LeftBehind
    <3>3. \A k \in Ids(b1) : /\ b1.def[k] = b.def[k]
                             /\ b1.state[k] \in Terminal => b.state[k] \in Terminal
                             /\ b1.state[k] = "Succeeded" <=> b.state[k] = "Succeeded"
                             /\ k \in b.reserved => k \in b1.reserved
      BY <1>1, <2>2 DEF Terminal
    <3> QED
      BY <1>1, <1>5, <3>1, <3>2, <3>3, NothingDecided
  <2>4. LeftBehind(Propagate(b1, i, s)) = {}
    BY <1>1, <1>5, <1>8, <2>3, PropagateAddsNone
  <2> QED
    BY <2>1, <2>4
<1> QED
  BY <1>6, <1>7, <1>8

\* A task that is created is new to all the others.
LEMMA GrowthConcernsNobodyElse ==
    ASSUME Unnamed, Unmarked, Inheriting, ~ForceDeletes, NEW b, WellFormed(b), Orderly(b), LeftBehind(b) = {},
           NEW i, NEW d, NEW c, Grows(b, c, i, d),
           \A j \in Ids(b) : c.state[j] = b.state[j] /\ (j \in b.reserved => j \in c.reserved)
    PROVE  LeftBehind(c) \subseteq {i}
<1>1. Orderly(c)
  BY ChangeIsOrderly DEF Changes
<1>2. /\ Ids(c) = Ids(b) \cup {i} /\ i \notin Ids(b) /\ Ids(b) \subseteq Task /\ c.def[i].of = Nobody
      /\ \A j \in Ids(b) : c.def[j] = b.def[j]
  BY DEF Grows, WellFormed, Unmarked
<1>3. ASSUME NEW j \in Ids(b), b.state[j] = "Waiting" PROVE Target(c, j) = "Waiting"
  <2>1. Target(b, j) = "Waiting"
    BY <1>3 DEF LeftBehind
  <2>2. References(b.def[j]) \subseteq Ids(b)
    BY DEF Orderly, Closed
  <2>3. ASSUME NEW k \in b.def[j].deps PROVE Milder(b, c, k)
    <3>1. k \in Ids(b)
      BY <2>2 DEF References
    <3>2. k # Nobody
      BY <1>2, <3>1, NobodyIsNoTask
    <3>3. InlineOf(c, k) = InlineOf(b, k)
      BY <1>2, <3>1, <3>2 DEF InlineOf
    <3>4. \A n \in InlineOf(b, k) : c.state[n] = b.state[n]
      BY DEF InlineOf
    <3>5. Outcomes(c, k) = Outcomes(b, k)
      BY <1>2, <3>1, <3>3, <3>4, OutcomesAlike DEF Orderly
    <3> QED
      BY <3>5, AlikeIsMilder
  <2>4. \A n \in b.def[j].inputs \cap Ids(c) : c.state[n] \in Terminal => b.state[n] \in Terminal
    BY <2>2 DEF References
  <2> QED
    BY <1>1, <1>2, <2>1, <2>2, <2>3, <2>4, StaysWaiting DEF Orderly
<1> QED
  BY <1>2, <1>3 DEF LeftBehind

LEMMA CreateLeavesNone ==
    ASSUME Unnamed, Unmarked, Inheriting, ~ForceDeletes, NEW b, WellFormed(b), Orderly(b), LeftBehind(b) = {},
           NEW i \in DOMAIN Definitions, NEW d \in Definitions[i],
           i \notin b.used, References(d) \subseteq Ids(b),
           NEW e, e = Adopt(Born(b, i, d), d.target)
    PROVE  /\ LeftBehind(e) = {}
           /\ LeftBehind([e EXCEPT !.state[i] = "Waiting", !.reserved = @ \cup {i}]) = {}
<1>1. i \in Task \ Ids(b) /\ d \in Definition /\ d.target = Nobody
  BY MenusAreDefinitions, NobodyIsNoTask DEF Unnamed, WellFormed
<1>2. /\ IsBook(Born(b, i, d)) /\ Ids(Born(b, i, d)) = Ids(b) \cup {i}
      /\ \A j \in Ids(b) : Born(b, i, d).state[j] = b.state[j]
      /\ Born(b, i, d).reserved = b.reserved
  BY <1>1, BornIs DEF WellFormed
<1>3. e = Born(b, i, d)
  BY <1>1, <1>2, NobodyIsNoTask DEF Adopt, WellFormed
<1>4. Grows(b, e, i, d)
  BY CreateGrows
<1>5. LeftBehind(e) = {}
  <2>1. LeftBehind(e) \subseteq {i}
    BY <1>2, <1>3, <1>4, GrowthConcernsNobodyElse
  <2>2. e.state[i] = "Waiting" => Target(e, i) = "Waiting"
    BY <1>1, <1>3, BornWaits DEF Target, WellFormed
  <2> QED
    BY <2>1, <2>2 DEF LeftBehind
<1> DEFINE c == [e EXCEPT !.state[i] = "Waiting", !.reserved = @ \cup {i}]
<1>6. Grows(b, c, i, d)
  BY ReserveGrows
<1>7. /\ c.reserved = b.reserved \cup {i}
      /\ \A j \in Ids(b) : c.state[j] = b.state[j]
  <2>1. e.state \in [Ids(e) -> States] /\ Ids(e) = Ids(b) \cup {i} /\ e.reserved = b.reserved
    BY <1>2, <1>3 DEF IsBook
  <2>2. c.state = [e.state EXCEPT ![i] = "Waiting"] /\ c.reserved = b.reserved \cup {i}
    BY <1>2, <1>3, <2>1 DEF IsBook
  <2> HIDE DEF c
  <2> QED
    BY <1>1, <1>2, <1>3, <2>1, <2>2
<1> HIDE DEF c
<1>8. LeftBehind(c) \subseteq {i}
  BY <1>6, <1>7, GrowthConcernsNobodyElse
<1>9. Target(c, i) = "Waiting"
  BY <1>7 DEF Target, Undecided, Dormant
<1> QED
  BY <1>5, <1>8, <1>9 DEF LeftBehind, c

\* Tasks that are deleted decide nothing for those that stay.
LEMMA RemovalLeavesNone ==
    ASSUME Unnamed, Unmarked, Inheriting, ~ForceDeletes, NEW b, WellFormed(b), Orderly(b), LeftBehind(b) = {},
           NEW gone, NEW c, Removes(b, c, gone)
    PROVE  LeftBehind(c) = {}
<1>1. Orderly(c)
  BY ChangeIsOrderly DEF Changes
<1>2. /\ Ids(c) = Ids(b) \ gone /\ c.reserved = b.reserved \ gone
      /\ \A j \in Ids(c) : c.def[j] = b.def[j] /\ c.state[j] = b.state[j]
  BY WithoutIs DEF Removes, WellFormed
<1>3. \A k \in Ids(c) : k \in b.reserved => k \in c.reserved
  BY <1>2
<1>4. ASSUME NEW j \in LeftBehind(c) PROVE FALSE
  <2>1. j \in Ids(c) /\ Target(b, j) = "Waiting" /\ Target(c, j) # "Waiting"
    BY <1>2, <1>4 DEF LeftBehind
  <2> QED
    BY <1>1, <1>2, <1>3, <2>1, NothingDecided
<1> QED
  BY <1>4

\* A task that relies on one with an inline fallback is used by nobody, nor is the
\* fallback it may itself be given.
FewRelyOnInline ==
    \A i \in DOMAIN Definitions : \A d \in Definitions[i] :
        d.policy \in {"Abort", "Inline"}
        /\ (\E k \in d.deps \cap DOMAIN Definitions : \E e \in Definitions[k] : e.policy = "Inline")
          => \A j \in DOMAIN Definitions : \A f \in Definitions[j] :
               (f.deps \cup f.inputs) \cap ({i} \cup InlineIds) = {}

LEMMA UsedByNobody ==
    ASSUME Inheriting, NEW b, WellFormed(b), NEW i,
           \A j \in DOMAIN Definitions : \A f \in Definitions[j] : i \notin f.deps \cup f.inputs
    PROVE  Users(b, i) = {}
<1> SUFFICES ASSUME NEW j \in Ids(b), i \in b.def[j].deps \cup b.def[j].inputs PROVE FALSE
  BY DEF Users
<1>1. Known(b, j)
  BY DEF WellFormed
<1>2. CASE j \in DOMAIN Definitions /\ b.def[j] \in Definitions[j]
  BY <1>2
<1>3. CASE ~(j \in DOMAIN Definitions /\ b.def[j] \in Definitions[j])
  <2>1. PICK m \in DOMAIN Definitions : \E d \in Definitions[m] :
          d.policy = "Inline" /\ b.def[j] = InlineFor(d, m)
    BY <1>1, <1>3 DEF Known
  <2>2. \E d \in Definitions[m] : i \in d.deps
    BY <2>1 DEF InlineFor, Inheriting
  <2> QED
    BY <2>2
<1> QED
  BY <1>2, <1>3

\* A task that ran and may not run again has lost a dependency with an inline fallback.
LEMMA LostTasksAreUnused ==
    ASSUME Unnamed, Unmarked, Inheriting, FewRelyOnInline, NEW b, WellFormed(b), Orderly(b), StartedStands(b),
           NEW i \in Ids(b), b.state[i] = "Unknown",
           NEW b1, b1.def = b.def, \A j \in Ids(b) \ {i} : b1.state[j] = b.state[j],
           Target(b1, i) = "Skipped"
    PROVE  Users(b, i) = {} /\ Users(b, b.def[i].of) = {}
<1>1. b.def[i].policy = "Abort" /\ Unavailable(b1, i)
  <2>1. b.def[i].policy \in {"Abort", "Continue", "Inline"}
    BY DEF Orderly, Nameless, IsBook, Definition, Policy
  <2> QED
    BY <2>1 DEF Target
<1>2. PICK k \in b.def[i].deps : Outcomes(b1, k) # {"Succeeded"}
  BY <1>1 DEF Unavailable
<1>3. k \in Ids(b) /\ (b.def[k].policy \in {"Abort", "Continue"} => b.state[k] = "Succeeded")
  BY <1>1 DEF StartedStands, Stands
<1>4. b.def[k].policy = "Inline"
  <2>1. b.def[k].policy \in {"Abort", "Continue", "Inline"}
    BY <1>3 DEF Orderly, Nameless, IsBook, Definition, Policy
  <2>2. b.state[k] = "Succeeded" => Outcomes(b1, k) = {"Succeeded"}
    BY <1>3 DEF Outcomes, Terminal
  <2> QED
    BY <1>2, <1>3, <2>1, <2>2
<1>5. k \in DOMAIN Definitions /\ b.def[k] \in Definitions[k] /\ Known(b, i)
  BY <1>3, <1>4, OfMenus DEF WellFormed
<1>6. CASE i \in DOMAIN Definitions /\ b.def[i] \in Definitions[i]
  <2>1. \A j \in DOMAIN Definitions : \A f \in Definitions[j] : i \notin f.deps \cup f.inputs
    BY <1>1, <1>4, <1>5, <1>6 DEF FewRelyOnInline
  <2>2. Users(b, i) = {}
    BY <2>1, UsedByNobody
  <2>3. b.def[i].of = Nobody /\ Nobody \notin Ids(b)
    BY <1>6, NobodyIsNoTask DEF Unmarked, WellFormed
  <2>4. Users(b, Nobody) = {}
    BY <2>3 DEF Users, Orderly, Closed, References
  <2> QED
    BY <2>2, <2>3, <2>4
<1>7. CASE ~(i \in DOMAIN Definitions /\ b.def[i] \in Definitions[i])
  <2>1. PICK m \in DOMAIN Definitions : \E d \in Definitions[m] :
          i \in InlineIds /\ d.policy = "Inline" /\ b.def[i] = InlineFor(d, m)
    BY <1>5, <1>7 DEF Known
  <2> PICK d \in Definitions[m] :
          i \in InlineIds /\ d.policy = "Inline" /\ b.def[i] = InlineFor(d, m)
    BY <2>1
  <2>2. k \in d.deps /\ b.def[i].of = m
    BY <2>1 DEF InlineFor, Inheriting
  <2>3. \A j \in DOMAIN Definitions : \A f \in Definitions[j] :
          i \notin f.deps \cup f.inputs /\ m \notin f.deps \cup f.inputs
    BY <1>4, <1>5, <2>1, <2>2 DEF FewRelyOnInline
  <2> QED
    BY <2>2, <2>3, UsedByNobody
<1> QED
  BY <1>6, <1>7

LEMMA RetryLeavesNone ==
    ASSUME Unnamed, Unmarked, Inheriting, FewRelyOnInline, NEW b, WellFormed(b), Orderly(b), StartedStands(b),
           LeftBehind(b) = {}, NEW i \in Ids(b),
           b.state[i] \in {"Failed", "Cancelled", "Skipped", "Unknown"},
           NEW b1, b1 = Put(b, i, "Waiting"), NEW b2, b2 = Put(b1, i, Target(b1, i))
    PROVE  LeftBehind(b2) = {} /\ LeftBehind(Rewind(b2, i)) = {}
<1>1. /\ IsBook(b1) /\ Ids(b1) = Ids(b) /\ b1.def = b.def /\ b1.reserved = b.reserved
      /\ b1.used = b.used /\ b1.state[i] = "Waiting"
      /\ \A j \in Ids(b) \ {i} : b1.state[j] = b.state[j]
  <2>1. IsBook(b) /\ "Waiting" \in States
    BY DEF WellFormed, States
  <2> QED
    BY <2>1, PutIs
<1>2. Target(b1, i) \in {"Waiting", "Ready", "Skipped"}
  BY <1>1, TargetTurns
<1>3. /\ IsBook(b2) /\ Ids(b2) = Ids(b) /\ b2.def = b.def /\ b2.reserved = b.reserved
      /\ b2.used = b.used /\ b2.state[i] = Target(b1, i)
      /\ \A j \in Ids(b) \ {i} : b2.state[j] = b.state[j]
  <2>1. Target(b1, i) \in States
    BY <1>2 DEF States
  <2> QED
    BY <1>1, <2>1, PutIs
<1>4. Orderly(b2)
  BY <1>3, OrderlyAlike
<1>5. i \notin LeftBehind(b2)
  <2> SUFFICES ASSUME b2.state[i] = "Waiting" PROVE Target(b2, i) = "Waiting"
    BY DEF LeftBehind
  <2>1. b2 = b1
    BY <1>1, <1>3, SameBook
  <2> QED
    BY <1>3, <2>1
<1>6. LeftBehind(b2) = {}
  <2>1. CASE b.state[i] = "Unknown" /\ b2.state[i] = "Skipped"
    <3>1. Users(b, i) = {} /\ Users(b, b.def[i].of) = {}
      BY <1>1, <1>3, <2>1, LostTasksAreUnused
    <3>2. LeftBehind(b2) \subseteq Users(b, i) \cup Users(b, b.def[i].of)
      BY <1>3, <1>4, <2>1, ChangeConcernsUsers
    <3> QED
      BY <3>1, <3>2
  <2>2. CASE ~(b.state[i] = "Unknown" /\ b2.state[i] = "Skipped")
    <3>1. \A k \in Ids(b2) : /\ b2.def[k] = b.def[k]
                             /\ b2.state[k] \in Terminal => b.state[k] \in Terminal
                             /\ b2.state[k] = "Succeeded" <=> b.state[k] = "Succeeded"
                             /\ k \in b.reserved => k \in b2.reserved
      BY <1>2, <1>3, <2>2 DEF Terminal
    <3>2. ASSUME NEW j \in LeftBehind(b2) PROVE FALSE
      <4>1. j \in Ids(b) /\ Target(b, j) = "Waiting" /\ Target(b2, j) # "Waiting"
        BY <1>3, <1>5, <3>2 DEF LeftBehind
      <4> QED
        BY <1>3, <1>4, <3>1, <4>1, NothingDecided
    <3> QED
      BY <3>2
  <2> QED
    BY <2>1, <2>2
<1> DEFINE reset == {j \in Downstream(b2, i) : b2.state[j] \in Terminal \ {"Succeeded"}}
           b3 == Again(b2, reset)
<1>7. Rewind(b2, i) = Cascade(b3, i)
  BY DEF Rewind, Again
<1>8. reset \subseteq Downstream(b2, i)
  OBVIOUS
<1> HIDE DEF reset
<1>9. /\ IsBook(b3) /\ b3.def = b2.def /\ b3.reserved = b2.reserved
      /\ \A j \in Ids(b2) \ Downstream(b2, i) : b3.state[j] = b2.state[j]
  BY <1>3, <1>8, AgainIs
<1> HIDE DEF b3
<1>10. /\ Orderly(b3) /\ Ids(b3) = Ids(b2)
       /\ Downstream(b3, i) = Downstream(b2, i)
  BY <1>4, <1>9, OrderlyAlike
<1>11. LeftBehind(b3) \ Downstream(b2, i) \subseteq LeftBehind(b2)
  BY <1>3, <1>4, <1>9, OutsideUntouched
<1>12. LeftBehind(Cascade(b3, i)) \subseteq LeftBehind(b3) \ Downstream(b3, i)
  BY <1>3, <1>10, CascadeLeaves
<1> QED
  BY <1>6, <1>7, <1>10, <1>11, <1>12

\* What a menu may hold for every operation to reach all whom it concerns.
Simple == Unnamed /\ Unmarked /\ Inheriting /\ FewRelyOnInline /\ ~ForceDeletes

LEMMA TransitLeavesNone ==
    ASSUME Simple, WellFormed(Book), Orderly(Book), LeftBehind(Book) = {},
           NEW i, NEW s, i \in DOMAIN def,
           <<state[i], s>> \in ValidTransition \cup {<<"Ready", "Failed">>},
           s \in {"Running", "Succeeded", "Failed", "Cancelled", "Unknown"},
           s = "Failed" => HasInlineId(i), Write(SetState(Book, i, s))
    PROVE  LeftBehind(Book') = {}
<1>1. i \in Ids(Book) /\ Book.state[i] = state[i] /\ Book.used = used
  BY DEF Ids, Book
<1>2. s = "Failed" /\ NeedsInline(Book, i) => ~(InlineIds \subseteq Book.used)
  BY <1>1 DEF HasInlineId
<1>3. IsBook(SetState(Book, i, s))
  BY <1>1, <1>2, SetStateTransits
<1>4. LeftBehind(SetState(Book, i, s)) = {}
  BY <1>1, <1>2, SetStateLeavesNone DEF Simple
<1>5. Book' = SetState(Book, i, s)
  BY <1>3, WrittenBook
<1> QED
  BY <1>4, <1>5

LEMMA StartLeavesNone ==
    ASSUME Simple, WellFormed(Book), Orderly(Book), LeftBehind(Book) = {}, NEW i, Start(i)
    PROVE  LeftBehind(Book') = {}
<1>1. i \in DOMAIN def /\ <<state[i], "Running">> \in ValidTransition
  BY DEF Start, CanSet
<1>2. state[i] = "Ready"
  BY <1>1 DEF ValidTransition
<1>3. CASE i \in TooLarge
  <2>1. HasInlineId(i) /\ Write(SetState(Book, i, "Failed"))
    BY <1>3 DEF Start
  <2>2. <<state[i], "Failed">> \in ValidTransition \cup {<<"Ready", "Failed">>}
    BY <1>2
  <2> QED
    BY <1>1, <2>1, <2>2, TransitLeavesNone
<1>4. CASE i \notin TooLarge
  <2>1. Write(SetState(Book, i, "Running"))
    BY <1>4 DEF Start
  <2> QED
    BY <1>1, <2>1, TransitLeavesNone
<1> QED
  BY <1>3, <1>4

LEMMA FinishLeavesNone ==
    ASSUME Simple, WellFormed(Book), Orderly(Book), LeftBehind(Book) = {},
           NEW i, NEW s \in {"Succeeded", "Failed", "Unknown", "Cancelled"},
           CanSet(i, s), Write(SetState(Book, i, s))
    PROVE  LeftBehind(Book') = {}
  BY TransitLeavesNone DEF CanSet

LEMMA CreationLeavesNone ==
    ASSUME Simple, WellFormed(Book), Orderly(Book), LeftBehind(Book) = {},
           NEW i \in DOMAIN Definitions, NEW d \in Definitions[i], Create(i, d) \/ CreateReserved(i, d)
    PROVE  LeftBehind(Book') = {}
<1> DEFINE e == Adopt(Born(Book, i, d), d.target)
           c == [e EXCEPT !.state[i] = "Waiting", !.reserved = @ \cup {i}]
<1>1. i \notin Book.used /\ References(d) \subseteq Ids(Book)
  BY DEF Create, CreateReserved, Creatable, Accepts, Book, Ids
<1>2. Write(e) \/ Write(c)
  BY DEF Create, CreateReserved
<1>3. LeftBehind(e) = {} /\ LeftBehind(c) = {}
  BY <1>1, CreateLeavesNone DEF Simple
<1>4. IsBook(e) /\ IsBook(c)
  <2>1. IsBook(e)
    BY <1>1, CreateGrows DEF Grows
  <2> HIDE DEF e
  <2>2. Grows(Book, c, i, d)
    BY <1>1, ReserveGrows DEF e
  <2>3. IsBook(c)
    BY <2>2 DEF Grows
  <2> QED
    BY <2>1, <2>3
<1> HIDE DEF e, c
<1>5. Book' = e \/ Book' = c
  BY <1>2, <1>4, WrittenBook
<1> QED
  BY <1>3, <1>5

LEMMA RetakingLeavesNone ==
    ASSUME Simple, WellFormed(Book), Orderly(Book), StartedStands(Book), LeftBehind(Book) = {},
           NEW i, NEW reset, Retry(i, reset)
    PROVE  LeftBehind(Book') = {}
<1> DEFINE b1 == Put(Book, i, "Waiting")
           b2 == Put(b1, i, Target(b1, i))
           b == IF reset THEN Rewind(b2, i) ELSE b2
<1>1. i \in Ids(Book) /\ Book.state[i] \in {"Failed", "Cancelled", "Skipped", "Unknown"} /\ Write(b)
  BY DEF Retry, Put, Ids, Book
<1> HIDE DEF b1
<1>2. b1 = Put(Book, i, "Waiting") /\ b2 = Put(b1, i, Target(b1, i))
  BY DEF b1
<1> HIDE DEF b2
<1>3. Resumes(Book, b2, i) /\ Resumes(Book, Rewind(b2, i), i)
  BY <1>1, <1>2, RetryResumes
<1>4. LeftBehind(b2) = {} /\ LeftBehind(Rewind(b2, i)) = {}
  BY <1>1, <1>2, RetryLeavesNone DEF Simple
<1>5. IsBook(b) /\ LeftBehind(b) = {}
  BY <1>3, <1>4 DEF Resumes
<1> HIDE DEF b
<1> QED
  BY <1>1, <1>5, WrittenBook

LEMMA DeletionLeavesNone ==
    ASSUME Simple, WellFormed(Book), Orderly(Book), LeftBehind(Book) = {},
           NEW gone, Write(Without(Book, gone)),
           \A j \in gone \cap Ids(Book) : state[j] # "Running",
           \A j \in gone : Referencers(Book, j) \subseteq gone
    PROVE  LeftBehind(Book') = {}
<1>1. IsBook(Without(Book, gone))
  BY WithoutIs DEF WellFormed
<1>2. Book' = Without(Book, gone)
  BY <1>1, WrittenBook
<1>3. \A j \in gone \cap Ids(Book) : Book.state[j] # "Running"
  BY DEF Book
<1>4. \A j \in Ids(Book) \ gone : References(Book.def[j]) \cap gone = {}
  BY DEF Referencers
<1>5. Removes(Book, Without(Book, gone), gone)
  BY <1>3, <1>4 DEF Removes
<1> QED
  BY <1>2, <1>5, RemovalLeavesNone DEF Simple

LEMMA NextLeavesNone ==
    ASSUME Simple, WellFormed(Book), Orderly(Book), StartedStands(Book), LeftBehind(Book) = {}, Next
    PROVE  LeftBehind(Book') = {}
<1>1. ASSUME NEW i \in DOMAIN Definitions, NEW d \in Definitions[i], Create(i, d) \/ CreateReserved(i, d)
      PROVE  LeftBehind(Book') = {}
  BY <1>1, CreationLeavesNone
<1>2. ASSUME NEW i \in Task, Start(i) PROVE LeftBehind(Book') = {}
  BY <1>2, StartLeavesNone
<1>3. ASSUME NEW i \in Task, NEW s \in {"Succeeded", "Failed", "Unknown"}, Finish(i, s)
      PROVE  LeftBehind(Book') = {}
  BY <1>3, FinishLeavesNone DEF Finish
<1>4. ASSUME NEW i \in Task, Cancel(i) PROVE LeftBehind(Book') = {}
  BY <1>4, FinishLeavesNone DEF Cancel
<1>5. ASSUME NEW i \in Task, NEW reset \in BOOLEAN, Retry(i, reset) PROVE LeftBehind(Book') = {}
  BY <1>5, RetakingLeavesNone
<1>6. ASSUME NEW i \in Task, Delete(i) PROVE LeftBehind(Book') = {}
  BY <1>6, DeletionLeavesNone DEF Delete, Simple, Book
<1>7. ASSUME NEW i \in Task, DeleteCascade(i) PROVE LeftBehind(Book') = {}
  <2>1. i \in Ids(Book)
    BY <1>7 DEF DeleteCascade, Ids, Book
  <2>2. \A j \in WithReferencers(Book, i) : Referencers(Book, j) \subseteq WithReferencers(Book, i)
    BY <2>1, ReferencersGoToo
  <2> QED
    BY <1>7, <2>2, DeletionLeavesNone DEF DeleteCascade
<1>8. ASSUME NEW candidates \in SUBSET {i \in DOMAIN def : state[i] # "Running"}, Sweep(candidates)
      PROVE  LeftBehind(Book') = {}
  <2>1. Eligible(candidates) \subseteq candidates
    BY DEF Eligible
  <2>2. \A j \in Eligible(candidates) : Referencers(Book, j) \subseteq Eligible(candidates)
    BY DEF Eligible
  <2> QED
    BY <1>8, <2>1, <2>2, DeletionLeavesNone DEF Sweep
<1> QED
  BY <1>1, <1>2, <1>3, <1>4, <1>5, <1>6, <1>7, <1>8 DEF Next

\* propagate_transition, create, retry and the deletes each carry what they decide to
\* every task it reaches, for menus of any size: no named fallback, no inline fallback
\* with dependencies or inputs of its own (transitive_downstream does not lead from it
\* to those who wait for its main), and nobody waits for a task that itself relies on an
\* inline fallback (a retry of such a task after an unknown end skips it without looking
\* further; advance_existing_fallback does not look further either).
THEOREM NobodyIsLeftBehind ==
    ASSUME Simple
    PROVE  Spec => []NoTaskLeftBehind
<1>1. Init => NoTaskLeftBehind
  BY DEF Init, NoTaskLeftBehind, LeftBehind, Book, Ids
<1>2. IInv /\ NoTaskLeftBehind /\ [Next]_vars => NoTaskLeftBehind'
  <2> SUFFICES ASSUME IInv, NoTaskLeftBehind, [Next]_vars PROVE NoTaskLeftBehind'
    OBVIOUS
  <2>1. WellFormed(Book) /\ Orderly(Book) /\ StartedStands(Book)
    BY NamelessBook DEF IInv, Simple, Orderly, WellFormed
  <2>2. CASE Next
    BY <2>1, <2>2, NextLeavesNone DEF NoTaskLeftBehind
  <2>3. CASE UNCHANGED vars
    <3>1. Book' = Book
      BY <2>3 DEF vars, Book
    <3> QED
      BY <3>1 DEF NoTaskLeftBehind
  <2> QED
    BY <2>2, <2>3
<1> QED
  BY <1>1, <1>2, SpecIInv, PTL DEF Spec
=============================================================================
