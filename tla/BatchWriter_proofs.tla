-------------------------- MODULE BatchWriter_proofs --------------------------
(***************************************************************************)
(* The batch writer's safety for every number of requests, every limit and *)
(* every size of request, and that it implements the serial store.         *)
(***************************************************************************)
EXTENDS BatchWriter, FiniteSetTheorems, WellFoundedInduction, TLAPS

-----------------------------------------------------------------------------
(* The inductive invariant.                                                *)

\* Numbers are given out in order, and one is left for the final flush.
Numbered ==
    /\ \A s \in Seqs : kind[s] = "none" <=> s > next
    /\ final = 0 => next < MaxSeq
    /\ \A s \in Seqs : Budgeted(s) => kind[s] \in Offered

Idle == pc \in {"waiting", "leaving", "ended"}

\* What the worker has in hand fits what it is at.
HandFits ==
    /\ Idle => run = {} /\ links = {}
    /\ ~ Idle => run # {}
    /\ pc = "dropping" => links = {}
    /\ run \cap links = {}
    /\ alive <=> pc \notin {"dropping", "ended"}
    /\ ~ alive => taken = next /\ ~ admitting
    /\ \A s, t \in run : kind[s] = "snapshot" /\ kind[t] = "snapshot" /\ alive => s = t
    /\ \A s \in links : /\ kind[s] = "snapshot"
                        /\ \E t \in run : kind[t] = "snapshot" /\ s < t

\* A request still in the queue.
InQueue(s) ==
    /\ slot[s] \in {"none", "pending", "abandoned"}
    /\ slot[s] = "none" <=> kind[s] = "none"
    /\ verdict[s] = "none" /\ answer[s] = "none" /\ s \notin stored

\* A request the worker has in hand.
InHand(s) ==
    /\ slot[s] \in {"pending", "abandoned"}
    /\ answer[s] = "none"
    /\ Budgeted(s) \/ pc = "dropping"
    /\ s \in links => verdict[s] = "none" /\ s \notin stored
    /\ s \in run /\ pc = "executing" => verdict[s] = "none" /\ \A t \in stored : t < s
    /\ s \in run /\ pc = "settling" => verdict[s] \in Results
    /\ s \in run /\ pc = "dropping" /\ Budgeted(s) => verdict[s] = "lost"
    /\ kind[s] = "read" /\ pc # "dropping" => run = {s} /\ links = {}

\* A request the worker is done with.
Over(s) ==
    /\ slot[s] \in {"ready", "taken"}
    /\ Budgeted(s) => verdict[s] \in Results
    /\ Budgeted(s) => answer[s] \in {"none", verdict[s]}
    /\ kind[s] = "flush" => answer[s] \in FlushResults \cup {"none"}
    /\ slot[s] = "ready" => answer[s] # "none"

\* Every number is in one stage of its way.
Stages ==
    /\ \A s \in Seqs : s > taken => InQueue(s)
    /\ \A s \in run \cup links : InHand(s)
    /\ \A s \in 1..taken : s \notin run \cup links => Over(s)
    /\ \A s \in Seqs : kind[s] = "flush" => verdict[s] = "none" /\ s \notin stored

\* Verdicts and the store agree.
Effects ==
    \A s \in Seqs :
        /\ verdict[s] = "ok" => TookEffect(s)
        /\ verdict[s] \in {"failed", "rejected"} => s \notin stored
        /\ verdict[s] = "rejected" => kind[s] \in {"create", "read"}

Measured(f) == f # 0 => kind[f] = "flush" /\ answer[f] \in {"clean", "unclean"}

\* What had no effect behind a flush is in the tally by the time the worker is
\* done with it.
Tallied ==
    /\ \A f \in Seqs : point[f] <= tally
    /\ alive => \A f \in {0} \cup Seqs, s \in 1..taken :
           /\ Measured(f) /\ f < s
           /\ Budgeted(s) /\ s \notin run \cup links /\ verdict[s] # "ok"
           => PointOf(f) < tally
    /\ \A f \in Seqs : since[f] < f /\ Measured(since[f])
    /\ \A f \in Seqs : kind[f] = "flush" /\ answer[f] = "clean" =>
           \A s \in since[f] + 1..f - 1 : Budgeted(s) => verdict[s] = "ok"

\* Nothing is admitted behind the final flush.
FinalCut ==
    /\ final # 0 => /\ kind[final] = "flush" /\ since[final] = 0
                    /\ stopping /\ ~ admitting
                    /\ \A s \in Seqs : s > final => ~ Budgeted(s)
    /\ \A s \in Seqs : kind[s] # "flush" => since[s] = 0
    /\ drained = "clean" => final # 0 /\ answer[final] = "clean"

\* A blocking caller tried again only after its attempts so far had failed.
Bodies ==
    /\ \A s \in Seqs : origin[s] <= s /\ (s > next => origin[s] = s)
    /\ \A s, t \in Seqs : /\ origin[s] = origin[t] /\ s < t
                          => verdict[s] = "failed"

IInv ==
    /\ TypeOK /\ Numbered /\ HandFits /\ Stages
    /\ Effects /\ Tallied /\ FinalCut /\ Bodies

-----------------------------------------------------------------------------
(* The callers' steps.                                                     *)

\* Numbers are natural numbers, from 1 on.
LEMMA SeqsAreNats ==
    /\ MaxSeq \in Nat \ {0} /\ Seqs \subseteq Nat \ {0}
    /\ \A f \in {0} \cup Seqs : f \in Nat
  BY BatchWriterAssumption DEF Seqs

\* Where the numbers lie.
LEMMA Bounds ==
    ASSUME TypeOK
    PROVE  /\ next \in Nat /\ taken \in Nat /\ taken <= next /\ next <= MaxSeq
           /\ 1..taken \subseteq Seqs /\ 1..next \subseteq Seqs
           /\ run \subseteq 1..taken /\ links \subseteq 1..taken
           /\ run \subseteq Seqs /\ links \subseteq Seqs /\ stored \subseteq Seqs
           /\ \A f \in Seqs : f \in Nat /\ since[f] \in Nat /\ point[f] \in Nat
<1>1. next \in 0..MaxSeq /\ taken \in 0..next
  BY DEF TypeOK
<1>2. next \in Nat /\ taken \in Nat /\ taken <= next /\ next <= MaxSeq
  BY <1>1, SeqsAreNats
<1>3. 1..taken \subseteq Seqs /\ 1..next \subseteq Seqs
  BY <1>2, SeqsAreNats DEF Seqs
<1>4. \A f \in Seqs : f \in Nat /\ since[f] \in Nat /\ point[f] \in Nat
  <2>1. since \in [Seqs -> {0} \cup Seqs] /\ point \in [Seqs -> Nat]
    BY DEF TypeOK
  <2>2. ASSUME NEW f \in Seqs PROVE f \in Nat /\ since[f] \in Nat /\ point[f] \in Nat
    <3>1. since[f] \in {0} \cup Seqs /\ point[f] \in Nat
      BY <2>1
    <3> QED
      BY <3>1, SeqsAreNats
  <2> QED
    BY <2>2
<1>5. run \subseteq 1..taken /\ links \subseteq 1..taken /\ stored \subseteq Seqs
  BY DEF TypeOK
<1>6. run \subseteq Seqs /\ links \subseteq Seqs
  BY <1>3, <1>5
<1> QED
  BY <1>2, <1>3, <1>4, <1>5, <1>6

\* The start: nothing was asked for, nothing happened.
LEMMA InitHolds == Init => IInv
<1> SUFFICES ASSUME Init PROVE IInv
  OBVIOUS
<1> USE SeqsAreNats DEF Init
<1>1. TypeOK
  <2>1. /\ kind \in [Seqs -> Kinds \cup {"none"}]
        /\ origin \in [Seqs -> Seqs]
        /\ since \in [Seqs -> {0} \cup Seqs]
        /\ slot \in [Seqs -> {"none", "pending", "ready", "abandoned", "taken"}]
        /\ size \in [Seqs -> Nat] /\ point \in [Seqs -> Nat]
    OBVIOUS
  <2>2. /\ answer \in [Seqs -> Results \cup FlushResults \cup {"none"}]
        /\ verdict \in [Seqs -> Results \cup {"none"}]
    OBVIOUS
  <2>3. next \in 0..MaxSeq /\ taken \in 0..next
    OBVIOUS
  <2> QED
    BY <2>1, <2>2, <2>3 DEF TypeOK
<1>2. Numbered /\ HandFits /\ FinalCut /\ Bodies
  BY DEF Numbered, HandFits, FinalCut, Bodies, Budgeted, Kinds, Idle, Seqs
<1>3. Stages
  BY DEF Stages, InQueue, Seqs
<1>4. Effects
  BY DEF Effects
<1>5. Tallied
  BY DEF Tallied, Measured, Budgeted, Kinds, Seqs
<1> QED
  BY <1>1, <1>2, <1>3, <1>4, <1>5 DEF IInv

\* A step that changes nothing but the flags, or moves the idle worker.
FrameOf ==
    /\ UNCHANGED <<requests, next, taken, alive, slot, answer, run, links,
                   verdict, tally, point, stored, executor, final, drained>>
    /\ size' \in [Seqs -> Nat]
    /\ pc' = pc \/ (pc = "waiting" /\ pc' = "leaving")
    /\ admitting' = admitting \/ admitting' = FALSE
    /\ stopping' = stopping \/ stopping' = TRUE

\* Such a step disturbs no part of the invariant.
LEMMA FrameStep ==
    ASSUME IInv, FrameOf
    PROVE  IInv'
<1> USE DEF IInv, FrameOf, requests
<1>1. TypeOK'
  BY DEF TypeOK
<1>2. Numbered'
  BY DEF Numbered, Budgeted, Offered
<1>3. HandFits'
  BY DEF HandFits, Idle
<1>4. Stages'
  <2>1. \A s \in Seqs : InQueue(s) <=> InQueue(s)'
    BY DEF InQueue
  <2>2. \A s \in run \cup links : InHand(s) => InHand(s)'
    BY DEF HandFits, Idle, InHand, Budgeted
  <2>3. \A s \in Seqs : Over(s) <=> Over(s)'
    BY DEF Over, Budgeted
  <2> QED
    BY <2>1, <2>2, <2>3, Bounds DEF Stages
<1>5. Effects'
  BY DEF Effects, TookEffect
<1>6. Tallied'
  BY DEF Tallied, Measured, PointOf, Budgeted
<1>7. FinalCut'
  BY DEF FinalCut, Budgeted
<1>8. Bodies'
  BY DEF Bodies
<1> QED
  BY <1>1, <1>2, <1>3, <1>4, <1>5, <1>6, <1>7, <1>8

\* A push onto the queue, by a request, a caller's flush or the final flush.
PushOf(s, k, from, first) ==
    /\ alive /\ s = next + 1 /\ s <= MaxSeq
    /\ k \in Kinds /\ Push(s, k)
    /\ from \in {0} \cup Seqs /\ since' = [since EXCEPT ![s] = from]
    /\ Measured(from) /\ from < s
    /\ first \in Seqs /\ origin' = [origin EXCEPT ![s] = first]
    /\ first <= s
    /\ first # s => \A t \in Seqs : origin[t] = first => t <= next /\ verdict[t] = "failed"
    /\ k # "flush" => k \in Offered /\ admitting /\ from = 0
    /\ \/ /\ s < MaxSeq
          /\ UNCHANGED <<final, stopping, admitting>>
       \/ /\ final = 0 /\ final' = s /\ k = "flush" /\ from = 0
          /\ stopping' = TRUE /\ admitting' = FALSE
    /\ size' \in [Seqs -> Nat]
    /\ UNCHANGED <<taken, alive, answer, worker, stored, executor, drained>>

\* Whoever pushes, the invariant stands.
LEMMA PushStep ==
    ASSUME IInv, NEW s, NEW k, NEW from, NEW first, PushOf(s, k, from, first)
    PROVE  IInv'
<1> USE SeqsAreNats DEF IInv, PushOf
<1>1. s \in Seqs
  BY DEF TypeOK, Seqs
<1>2. /\ next' = s
      /\ kind' = [kind EXCEPT ![s] = k]
      /\ slot' = [slot EXCEPT ![s] = "pending"]
  BY <1>1 DEF Push
<1>3. /\ kind'[s] = k
      /\ \A t \in Seqs \ {s} : kind'[t] = kind[t]
      /\ slot'[s] = "pending"
      /\ \A t \in Seqs \ {s} : slot'[t] = slot[t]
      /\ since'[s] = from
      /\ \A t \in Seqs \ {s} : since'[t] = since[t]
      /\ origin'[s] = first
      /\ \A t \in Seqs \ {s} : origin'[t] = origin[t]
  BY <1>1, <1>2 DEF TypeOK
<1>4. kind[s] = "none" /\ InQueue(s)
  BY <1>1 DEF Numbered, Stages, TypeOK, Seqs
<1>5. TypeOK'
  <2>1. next' \in 0..MaxSeq /\ taken' \in 0..next'
    BY <1>1, <1>2 DEF TypeOK, Seqs
  <2>2. kind' \in [Seqs -> Kinds \cup {"none"}]
    BY <1>1, <1>2 DEF TypeOK
  <2> QED
    BY <1>1, <1>2, <2>1, <2>2 DEF TypeOK, worker
<1>6. Numbered'
  <2>1. \A t \in Seqs : kind'[t] = "none" <=> t > next'
    BY <1>1, <1>2, <1>3 DEF Numbered, TypeOK, Kinds
  <2>2. final' = 0 => next' < MaxSeq
    BY <1>1, <1>2
  <2>3. \A t \in Seqs : Budgeted(t)' => kind'[t] \in Offered'
    BY <1>1, <1>2, <1>3 DEF Numbered, Budgeted, Offered, worker
  <2> QED
    BY <2>1, <2>2, <2>3 DEF Numbered
<1>7. /\ \A t \in 1..taken : t \in Seqs \ {s}
      /\ \A t \in run \cup links : t \in 1..taken
      /\ \A t \in stored : t \in Seqs \ {s}
  <2>1. \A t \in 1..taken : t \in Seqs \ {s}
    BY <1>1 DEF TypeOK, Seqs
  <2>2. \A t \in run \cup links : t \in 1..taken
    BY DEF TypeOK
  <2>3. \A t \in stored : t \in Seqs \ {s}
    BY <1>4 DEF TypeOK, InQueue
  <2> QED
    BY <2>1, <2>2, <2>3
<1>8. HandFits'
  <2>1. \A t \in run \cup links : kind'[t] = kind[t]
    BY <1>3, <1>7
  <2>2. \A t, u \in run' : kind'[t] = "snapshot" /\ kind'[u] = "snapshot" /\ alive' => t = u
    BY <2>1 DEF HandFits, worker
  <2>3. \A t \in links' : /\ kind'[t] = "snapshot"
                          /\ \E u \in run' : kind'[u] = "snapshot" /\ t < u
    BY <2>1 DEF HandFits, worker
  <2> QED
    BY <2>2, <2>3 DEF HandFits, Idle, worker
<1>9. Stages'
  <2>1. ASSUME NEW t \in Seqs, t > taken' PROVE InQueue(t)'
    BY <1>2, <1>3, <1>4, <2>1 DEF Stages, InQueue, worker, Kinds
  <2>2. ASSUME NEW t \in run' \cup links' PROVE InHand(t)'
    <3>1. InHand(t) /\ t \in Seqs \ {s}
      BY <1>7, <2>2 DEF Stages, worker
    <3> QED
      BY <1>2, <1>3, <3>1 DEF InHand, Budgeted, worker
  <2>3. ASSUME NEW t \in 1..taken', t \notin run' \cup links' PROVE Over(t)'
    <3>1. Over(t) /\ t \in Seqs \ {s}
      BY <1>7, <2>3 DEF Stages, worker
    <3> QED
      BY <1>2, <1>3, <3>1 DEF Over, Budgeted, worker
  <2>4. \A t \in Seqs : kind'[t] = "flush" => verdict'[t] = "none" /\ t \notin stored'
    BY <1>1, <1>3, <1>4 DEF Stages, InQueue, worker
  <2> QED
    BY <2>1, <2>2, <2>3, <2>4 DEF Stages
<1>10. Effects'
  <2>1. ASSUME NEW t \in Seqs, verdict'[t] = "ok" PROVE TookEffect(t)'
    <3>1. TookEffect(t) /\ t # s
      BY <1>4, <2>1 DEF Effects, worker, InQueue
    <3> QED
      BY <1>3, <1>7, <3>1 DEF TookEffect, worker
  <2>2. ASSUME NEW t \in Seqs, verdict'[t] = "rejected" PROVE kind'[t] \in {"create", "read"}
    BY <1>3, <1>4, <2>2 DEF Effects, worker, InQueue
  <2> QED
    BY <2>1, <2>2 DEF Effects, worker
<1>11. Tallied'
  <2>1. ASSUME NEW f \in {0} \cup Seqs, Measured(f)', f # 0 PROVE Measured(f) /\ f # s
    BY <1>3, <1>4, <2>1 DEF Measured, InQueue
  <2>2. ASSUME NEW f \in {0} \cup Seqs, NEW t \in 1..taken, alive', Measured(f)', f < t,
               Budgeted(t)', t \notin run' \cup links', verdict'[t] # "ok"
        PROVE  (PointOf(f) < tally)'
    BY <1>3, <1>7, <2>1, <2>2 DEF Tallied, Budgeted, PointOf, worker, Measured
  <2>3. ASSUME NEW f \in Seqs PROVE (since[f] < f /\ Measured(since[f]))'
    <3>1. since[f] < f /\ Measured(since[f]) /\ since[f] \in {0} \cup Seqs
      BY DEF Tallied, TypeOK
    <3>2. \A g \in {0} \cup Seqs : Measured(g) => Measured(g)' /\ g # s
      BY <1>3, <1>4 DEF Measured, InQueue
    <3>3. CASE f = s
      BY <1>3, <3>2, <3>3
    <3>4. CASE f # s
      BY <1>3, <3>1, <3>2, <3>4
    <3> QED
      BY <3>3, <3>4
  <2>4. ASSUME NEW f \in Seqs, kind'[f] = "flush", answer'[f] = "clean",
               NEW t \in since'[f] + 1..f - 1, Budgeted(t)'
        PROVE  verdict'[t] = "ok"
    <3>1. f # s
      BY <1>4, <2>4 DEF InQueue
    <3>2. kind[f] = "flush" /\ answer[f] = "clean" /\ since'[f] = since[f]
      BY <1>3, <2>4, <3>1
    <3>3. f <= next /\ since[f] \in Nat
      <4>1. ~ f > next
        BY <3>2 DEF Numbered
      <4> QED
        BY <4>1, Bounds
    <3>4. t \in Seqs \ {s} /\ t \in since[f] + 1..f - 1
      <4>1. f \in 1..MaxSeq /\ f \in Nat /\ s \in Nat /\ next \in Nat
        BY <1>1, <2>4 DEF Seqs, TypeOK
      <4>2. t \in since[f] + 1..f - 1
        BY <2>4, <3>2
      <4>3. t \in 1..MaxSeq /\ t < s
        BY <3>3, <4>1, <4>2
      <4> QED
        BY <4>1, <4>2, <4>3 DEF Seqs
    <3> QED
      BY <1>3, <2>4, <3>2, <3>4 DEF Tallied, Budgeted, worker
  <2> QED
    BY <2>2, <2>3, <2>4 DEF Tallied, worker
<1>12. FinalCut'
  <2>1. \A t \in Seqs : kind'[t] # "flush" => since'[t] = 0
    BY <1>3 DEF FinalCut
  <2>2. CASE s < MaxSeq /\ UNCHANGED <<final, stopping, admitting>>
    <3>1. final # 0 => final < s
      BY <2>2 DEF FinalCut, TypeOK, Numbered
    <3>2. final # 0 => k = "flush"
      BY <2>2 DEF FinalCut
    <3> QED
      BY <1>3, <2>1, <2>2, <3>1, <3>2 DEF FinalCut, TypeOK, Budgeted
  <2>3. CASE final = 0 /\ final' = s /\ k = "flush" /\ from = 0 /\ stopping' = TRUE /\ admitting' = FALSE
    <3>1. \A t \in Seqs : t > s => ~ Budgeted(t)'
      BY <1>3 DEF Budgeted, Numbered, TypeOK, Kinds
    <3>2. drained' # "clean"
      BY <2>3 DEF FinalCut
    <3> QED
      BY <1>1, <1>3, <2>1, <2>3, <3>1, <3>2 DEF FinalCut
  <2> QED
    BY <2>2, <2>3
<1>13. Bodies'
  <2>1. ASSUME NEW t \in Seqs PROVE origin'[t] <= t /\ (t > next' => origin'[t] = t)
    BY <1>2, <1>3, <2>1 DEF Bodies, TypeOK
  <2>2. ASSUME NEW t \in Seqs, NEW u \in Seqs, origin'[t] = origin'[u], t < u
        PROVE  verdict'[t] = "failed"
    BY <1>2, <1>3, <2>2 DEF Bodies, TypeOK, worker
  <2> QED
    BY <2>1, <2>2 DEF Bodies
<1> QED
  BY <1>5, <1>6, <1>8, <1>9, <1>10, <1>11, <1>12, <1>13

\* A caller's request, or a blocking caller's next attempt.
LEMMA SubmitStep ==
    ASSUME IInv, NEW k \in Offered, NEW first \in {0} \cup Seqs, Submit(k, first),
           first # 0 =>
              \A t \in Seqs : origin[t] = first => t <= next /\ verdict[t] = "failed",
           first <= next
    PROVE  IInv'
<1> DEFINE s == next + 1
           o == IF first = 0 THEN s ELSE first
<1>1. /\ s \in Seqs /\ s <= MaxSeq /\ next \in Nat
      /\ k \in Kinds \ {"flush"}
  BY Bounds, SeqsAreNats DEF IInv, Submit, Seqs, Offered, Kinds
<1>2. alive
  BY DEF IInv, HandFits, Submit
<1>3. since' = [since EXCEPT ![s] = 0]
  <2>1. since[s] = 0
    BY <1>1 DEF IInv, FinalCut, Numbered
  <2> QED
    BY <1>1, <2>1 DEF Submit, IInv, TypeOK
<1>4. o \in Seqs /\ o <= s /\ origin' = [origin EXCEPT ![s] = o]
  BY <1>1, SeqsAreNats DEF Submit
<1>5. o # s => \A t \in Seqs : origin[t] = o => t <= next /\ verdict[t] = "failed"
  OBVIOUS
<1>6. size' \in [Seqs -> Nat]
  <2>1. ReqBytes[k] \in Nat
    BY <1>1, BatchWriterAssumption
  <2> QED
    BY <1>1, <2>1 DEF Submit, IInv, TypeOK
<1>7. /\ s < MaxSeq /\ admitting /\ Push(s, k)
      /\ UNCHANGED <<final, stopping, admitting>>
      /\ UNCHANGED <<taken, alive, answer, worker, stored, executor, drained>>
  BY DEF Submit
<1>8. Measured(0)
  BY DEF Measured
<1>9. 0 < s
  BY <1>1
<1> HIDE DEF o
<1>10. PushOf(s, k, 0, o)
  BY <1>1, <1>2, <1>3, <1>4, <1>5, <1>6, <1>7, <1>8, <1>9 DEF PushOf
<1> QED
  BY <1>10, PushStep

\* A blocking caller tries again after it was told of a failure.
LEMMA ResubmitStep ==
    ASSUME IInv, NEW s \in Seqs, Resubmit(s)
    PROVE  IInv'
<1>1. "put" \in Offered /\ Submit("put", origin[s])
  BY DEF Resubmit, Offered
<1>2. s <= next /\ origin[s] \in Seqs /\ origin[s] <= next
  <2>1. ~ s > next
    BY DEF IInv, Numbered, Resubmit
  <2>2. origin[s] <= s /\ origin[s] \in Seqs
    BY DEF IInv, Bodies, TypeOK
  <2>3. next \in Nat /\ s \in Nat /\ origin[s] \in Nat
    BY <2>2, Bounds, SeqsAreNats DEF IInv
  <2> QED
    BY <2>1, <2>2, <2>3
<1>3. verdict[s] = "failed"
  <2>1. answer[s] = "failed" /\ Budgeted(s)
    BY DEF Resubmit, Retryable, Budgeted, Kinds
  <2>2. s \in 1..taken /\ s \notin run \cup links
    BY <2>1, Bounds, SeqsAreNats DEF IInv, Stages, InQueue, InHand
  <2> QED
    BY <2>1, <2>2 DEF IInv, Stages, Over
<1>4. ASSUME NEW t \in Seqs, origin[t] = origin[s] PROVE t <= next /\ verdict[t] = "failed"
  <2>1. t <= next
    <3>1. t > next => origin[t] = t
      BY DEF IInv, Bodies
    <3> QED
      BY <1>2, <1>4, <3>1, Bounds, SeqsAreNats DEF IInv
  <2>2. kind[t] # "none"
    BY <2>1, Bounds DEF IInv, Numbered
  <2>3. t <= s
    BY <1>4, <2>2 DEF Resubmit
  <2>4. t < s \/ t = s
    BY <2>3, SeqsAreNats
  <2> QED
    BY <1>3, <1>4, <2>1, <2>4 DEF IInv, Bodies
<1>5. origin[s] # 0
  BY <1>2, SeqsAreNats
<1> QED
  BY <1>1, <1>2, <1>4, <1>5, SubmitStep

\* A caller's flush from the start or from a flush answered before.
LEMMA FlushStep ==
    ASSUME IInv, NEW from \in {0} \cup Seqs, Flush(from)
    PROVE  IInv'
<1> DEFINE s == next + 1
<1>1. s \in Seqs /\ s <= MaxSeq /\ next \in Nat /\ "flush" \in Kinds
  BY Bounds, SeqsAreNats DEF IInv, Flush, Seqs, Kinds
<1>2. Measured(from) /\ from < s
  <2>1. CASE from = 0
    BY <1>1, <2>1 DEF Measured
  <2>2. CASE from # 0
    <3>1. from \in Seqs /\ answer[from] \in {"clean", "unclean"}
      BY <2>2 DEF Flush
    <3>2. from \in 1..taken /\ from \notin run \cup links
      BY <3>1, Bounds, SeqsAreNats DEF IInv, Stages, InQueue, InHand
    <3>3. ~ Budgeted(from)
      BY <3>1, <3>2 DEF IInv, Stages, Over, Results
    <3>4. ~ from > next
      BY <3>2, Bounds DEF IInv
    <3>5. kind[from] = "flush"
      BY <3>1, <3>3, <3>4 DEF IInv, Numbered, TypeOK, Budgeted
    <3> QED
      BY <1>1, <3>1, <3>4, <3>5, SeqsAreNats DEF Measured
  <2> QED
    BY <2>1, <2>2
<1>3. origin' = [origin EXCEPT ![s] = s]
  <2>1. origin[s] = s
    BY <1>1 DEF IInv, Bodies
  <2> QED
    BY <1>1, <2>1 DEF Flush, IInv, TypeOK
<1>4. /\ s < MaxSeq /\ alive /\ Push(s, "flush")
      /\ since' = [since EXCEPT ![s] = from]
      /\ UNCHANGED <<final, stopping, admitting>>
      /\ UNCHANGED <<taken, alive, answer, worker, stored, executor, drained>>
  BY DEF Flush
<1>5. size' \in [Seqs -> Nat]
  BY DEF Flush, IInv, TypeOK
<1>6. s <= s
  BY <1>1
<1>7. PushOf(s, "flush", from, s)
  BY <1>1, <1>2, <1>3, <1>4, <1>5, <1>6 DEF PushOf
<1> QED
  BY <1>7, PushStep

\* Shutdown begins: with the final flush, or without one if the worker is gone.
LEMMA BeginShutdownStep ==
    ASSUME IInv, BeginShutdown
    PROVE  IInv'
<1> DEFINE s == next + 1
<1>1. CASE alive
  <2>1. s \in Seqs /\ s <= MaxSeq /\ next \in Nat /\ "flush" \in Kinds
    BY Bounds, SeqsAreNats DEF IInv, Numbered, BeginShutdown, Seqs, Kinds
  <2>2. origin' = [origin EXCEPT ![s] = s] /\ since' = [since EXCEPT ![s] = 0]
    <3>1. origin[s] = s /\ since[s] = 0
      BY <2>1 DEF IInv, Bodies, FinalCut, Numbered
    <3> QED
      BY <2>1, <3>1 DEF BeginShutdown, IInv, TypeOK
  <2>3. /\ Push(s, "flush") /\ final = 0 /\ final' = s
        /\ stopping' = TRUE /\ admitting' = FALSE
        /\ UNCHANGED <<taken, alive, answer, worker, stored, executor, drained>>
    BY <1>1 DEF BeginShutdown, StopAdmitting
  <2>4. size' \in [Seqs -> Nat] /\ Measured(0)
    BY DEF BeginShutdown, IInv, TypeOK, Measured
  <2>5. s <= s /\ 0 < s
    BY <2>1
  <2>6. PushOf(s, "flush", 0, s)
    BY <1>1, <2>1, <2>2, <2>3, <2>4, <2>5 DEF PushOf
  <2> QED
    BY <2>6, PushStep
<1>2. CASE ~ alive
  <2>1. UNCHANGED <<next, kind, slot, final>>
    BY <1>2 DEF BeginShutdown
  <2>2. size' \in [Seqs -> Nat]
    BY DEF BeginShutdown, IInv, TypeOK
  <2>3. /\ UNCHANGED <<requests, next, taken, alive, slot, answer, run, links,
                       verdict, tally, point, stored, executor, final, drained>>
        /\ pc' = pc /\ admitting' = FALSE /\ stopping' = TRUE
    BY <2>1 DEF BeginShutdown, StopAdmitting, requests, worker
  <2>4. FrameOf
    BY <2>2, <2>3 DEF FrameOf
  <2> QED
    BY <2>4, FrameStep
<1> QED
  BY <1>1, <1>2

\* Receipts taken or dropped, and the join: slots that wait to be taken are
\* taken, slots that wait for a result are given up.
ReceiptsOf ==
    /\ slot' \in [Seqs -> {"none", "pending", "ready", "abandoned", "taken"}]
    /\ \A s \in Seqs : \/ slot'[s] = slot[s]
                       \/ slot[s] = "ready" /\ slot'[s] = "taken"
                       \/ slot[s] = "pending" /\ slot'[s] = "abandoned"
    /\ size' \in [Seqs -> Nat]
    /\ drained' \in FlushResults \cup {"no"}
    /\ drained' = "clean" => final # 0 /\ answer[final] = "clean"
    /\ UNCHANGED <<requests, queue, answer, worker, stored, executor, final>>

\* Holders that take a result or drop a receipt disturb nothing.
LEMMA ReceiptsStep ==
    ASSUME IInv, ReceiptsOf
    PROVE  IInv'
<1> USE DEF IInv, ReceiptsOf, requests, queue, worker
<1>1. TypeOK'
  BY DEF TypeOK
<1>2. Numbered'
  BY DEF Numbered, Budgeted, Offered
<1>3. HandFits'
  BY DEF HandFits, Idle
<1>4. Stages'
  <2>1. \A s \in Seqs : InQueue(s) => InQueue(s)'
    BY DEF InQueue
  <2>2. \A s \in Seqs : InHand(s) => InHand(s)'
    BY DEF InHand, Budgeted
  <2>3. \A s \in Seqs : Over(s) => Over(s)'
    BY DEF Over, Budgeted
  <2> QED
    BY <2>1, <2>2, <2>3, Bounds DEF Stages
<1>5. Effects'
  BY DEF Effects, TookEffect
<1>6. Tallied'
  BY DEF Tallied, Measured, PointOf, Budgeted
<1>7. FinalCut'
  BY DEF FinalCut, Budgeted
<1>8. Bodies'
  BY DEF Bodies
<1> QED
  BY <1>1, <1>2, <1>3, <1>4, <1>5, <1>6, <1>7, <1>8

\* A caller takes its result or drops its receipt.
LEMMA ReceiptStep ==
    ASSUME IInv, NEW s \in Seqs, TakeResult(s) \/ Abandon(s)
    PROVE  IInv'
<1>1. /\ slot \in [Seqs -> {"none", "pending", "ready", "abandoned", "taken"}]
      /\ size \in [Seqs -> Nat]
      /\ drained \in FlushResults \cup {"no"}
      /\ drained = "clean" => final # 0 /\ answer[final] = "clean"
  BY DEF IInv, TypeOK, FinalCut
<1>2. UNCHANGED <<requests, queue, answer, worker, stored, executor, final, drained>>
  BY DEF TakeResult, Abandon
<1>3. CASE TakeResult(s)
  BY <1>1, <1>2, <1>3, ReceiptsStep DEF TakeResult, ReceiptsOf
<1>4. CASE Abandon(s)
  BY <1>1, <1>2, <1>4, ReceiptsStep DEF Abandon, ReceiptsOf
<1> QED
  BY <1>3, <1>4

\* The owner joins the worker and looks at the final flush.
LEMMA JoinStep ==
    ASSUME IInv, Join
    PROVE  IInv'
<1>1. /\ slot \in [Seqs -> {"none", "pending", "ready", "abandoned", "taken"}]
      /\ size \in [Seqs -> Nat]
      /\ final \in {0} \cup Seqs
  BY DEF IInv, TypeOK
<1>2. /\ UNCHANGED <<requests, queue, answer, worker, stored, executor, final>>
      /\ size' \in [Seqs -> Nat]
  BY <1>1 DEF Join
<1>3. /\ slot' \in [Seqs -> {"none", "pending", "ready", "abandoned", "taken"}]
      /\ \A s \in Seqs : \/ slot'[s] = slot[s]
                         \/ slot[s] = "ready" /\ slot'[s] = "taken"
                         \/ slot[s] = "pending" /\ slot'[s] = "abandoned"
  BY <1>1 DEF Join
<1>4. /\ drained' \in FlushResults \cup {"no"}
      /\ drained' = "clean" => final # 0 /\ answer[final] = "clean"
  <2>1. CASE final # 0 /\ slot[final] = "ready"
    <3>1. drained' = answer[final] /\ final \in Seqs /\ kind[final] = "flush"
      BY <1>1, <2>1 DEF Join, IInv, FinalCut
    <3>2. final \in 1..taken /\ final \notin run \cup links
      BY <2>1, <3>1, Bounds, SeqsAreNats DEF IInv, Stages, InQueue, InHand
    <3>3. answer[final] \in FlushResults
      BY <2>1, <3>1, <3>2 DEF IInv, Stages, Over
    <3> QED
      BY <2>1, <3>1, <3>3
  <2>2. CASE ~(final # 0 /\ slot[final] = "ready")
    BY <2>2 DEF Join, FlushResults
  <2> QED
    BY <2>1, <2>2
<1>5. ReceiptsOf
  BY <1>2, <1>3, <1>4 DEF ReceiptsOf
<1> QED
  BY <1>5, ReceiptsStep

-----------------------------------------------------------------------------
(* The worker's steps.                                                     *)

\* What completion does to each slot.
LEMMA CompleteSlots ==
    ASSUME TypeOK, NEW T \in SUBSET Seqs, NEW v, NEW out \in [Seqs -> Nat],
           Complete(T, v, out),
           \A s \in T : v[s] \in Results \cup FlushResults
    PROVE  /\ slot' \in [Seqs -> {"none", "pending", "ready", "abandoned", "taken"}]
           /\ answer' \in [Seqs -> Results \cup FlushResults \cup {"none"}]
           /\ size' \in [Seqs -> Nat]
           /\ \A s \in Seqs \ T : slot'[s] = slot[s] /\ answer'[s] = answer[s]
           /\ \A s \in T : slot[s] = "pending" => slot'[s] = "ready" /\ answer'[s] = v[s]
           /\ \A s \in T : slot[s] = "abandoned" => slot'[s] = "taken" /\ answer'[s] = answer[s]
<1> USE DEF Complete
<1>1. /\ slot \in [Seqs -> {"none", "pending", "ready", "abandoned", "taken"}]
      /\ answer \in [Seqs -> Results \cup FlushResults \cup {"none"}]
      /\ size \in [Seqs -> Nat]
  BY DEF TypeOK
<1>2. slot' \in [Seqs -> {"none", "pending", "ready", "abandoned", "taken"}]
  BY <1>1
<1>3. answer' \in [Seqs -> Results \cup FlushResults \cup {"none"}]
  BY <1>1
<1>4. size' \in [Seqs -> Nat]
  BY <1>1
<1>5. \A s \in Seqs \ T : slot'[s] = slot[s] /\ answer'[s] = answer[s]
  OBVIOUS
<1>6. \A s \in T : slot[s] = "pending" => slot'[s] = "ready" /\ answer'[s] = v[s]
  OBVIOUS
<1>7. \A s \in T : slot[s] = "abandoned" => slot'[s] = "taken" /\ answer'[s] = answer[s]
  OBVIOUS
<1> QED
  BY <1>2, <1>3, <1>4, <1>5, <1>6, <1>7

\* Sizes a completion can be told of.
LEMMA NoBytesType ==
    /\ NoBytes \in [Seqs -> Nat]
    /\ \A s \in Seqs, k \in Kinds : [NoBytes EXCEPT ![s] = OutBytes[k]] \in [Seqs -> Nat]
  BY BatchWriterAssumption DEF NoBytes

\* A flush is answered with the tally of all that went before it.
LEMMA CutFlushStep ==
    ASSUME IInv, CutFlush
    PROVE  IInv'
<1> DEFINE s == taken + 1
<1> USE DEF IInv
<1>1. /\ s \in Seqs /\ s \in Nat /\ taken \in Nat /\ s <= next
      /\ kind[s] = "flush" /\ taken' = s
      /\ pc = "waiting" /\ run = {} /\ links = {} /\ alive
  BY Bounds, SeqsAreNats DEF CutFlush, HandFits, Idle, Seqs
<1>2. /\ point' = [point EXCEPT ![s] = tally]
      /\ UNCHANGED <<requests, next, admitting, stopping, alive, pc, run, links,
                     verdict, tally, stored, executor, final, drained>>
  BY DEF CutFlush
<1> DEFINE v == [verdict EXCEPT ![s] = IF tally = PointOf(since[s]) THEN "clean" ELSE "unclean"]
<1>3. /\ Complete({s}, v, NoBytes)
      /\ v[s] = IF tally = PointOf(since[s]) THEN "clean" ELSE "unclean"
      /\ v[s] \in FlushResults /\ \A t \in {s} : v[t] \in Results \cup FlushResults
  BY <1>1 DEF CutFlush, TypeOK, FlushResults
<1> HIDE DEF v
<1>4. /\ slot' \in [Seqs -> {"none", "pending", "ready", "abandoned", "taken"}]
      /\ answer' \in [Seqs -> Results \cup FlushResults \cup {"none"}]
      /\ size' \in [Seqs -> Nat]
      /\ \A t \in Seqs \ {s} : slot'[t] = slot[t] /\ answer'[t] = answer[t]
      /\ slot[s] = "pending" => slot'[s] = "ready" /\ answer'[s] = v[s]
      /\ slot[s] = "abandoned" => slot'[s] = "taken" /\ answer'[s] = answer[s]
  <2>1. TypeOK /\ {s} \in SUBSET Seqs /\ NoBytes \in [Seqs -> Nat]
    BY <1>1, NoBytesType
  <2>2. /\ slot' \in [Seqs -> {"none", "pending", "ready", "abandoned", "taken"}]
        /\ answer' \in [Seqs -> Results \cup FlushResults \cup {"none"}]
        /\ size' \in [Seqs -> Nat]
        /\ \A t \in Seqs \ {s} : slot'[t] = slot[t] /\ answer'[t] = answer[t]
        /\ \A t \in {s} : slot[t] = "pending" => slot'[t] = "ready" /\ answer'[t] = v[t]
        /\ \A t \in {s} : slot[t] = "abandoned" => slot'[t] = "taken" /\ answer'[t] = answer[t]
    BY <2>1, <1>3, CompleteSlots
  <2> QED
    BY <2>2
<1>5. InQueue(s)
  BY <1>1 DEF Stages
<1>6. TypeOK'
  <2>1. point' \in [Seqs -> Nat] /\ taken' \in 0..next'
    BY <1>1, <1>2, Bounds DEF TypeOK
  <2>2. run' \subseteq 1..taken' /\ links' \subseteq 1..taken'
    BY <1>1, <1>2
  <2> QED
    BY <1>2, <1>4, <2>1, <2>2 DEF TypeOK, requests
<1>7. Numbered'
  BY <1>2 DEF Numbered, Budgeted, Offered, requests
<1>8. HandFits'
  BY <1>1, <1>2 DEF HandFits, Idle, requests
<1>9. Stages'
  <2>1. ASSUME NEW t \in Seqs, t > taken' PROVE InQueue(t)'
    <3>1. t # s /\ InQueue(t)
      BY <1>1, <2>1, SeqsAreNats DEF Stages
    <3> QED
      BY <1>2, <1>4, <3>1 DEF InQueue, requests
  <2>2. ASSUME NEW t \in 1..taken' PROVE Over(t)'
    <3>1. CASE t = s
      BY <1>1, <1>2, <1>3, <1>4, <1>5, <3>1 DEF Over, InQueue, Budgeted, requests
    <3>2. CASE t # s
      <4>1. t \in 1..taken /\ t \in Seqs
        BY <1>1, <2>2, <3>2, Bounds
      <4>2. Over(t)
        BY <1>1, <4>1 DEF Stages
      <4> QED
        BY <1>2, <1>4, <3>2, <4>1, <4>2 DEF Over, Budgeted, requests
    <3> QED
      BY <3>1, <3>2
  <2>3. \A t \in Seqs : kind'[t] = "flush" => verdict'[t] = "none" /\ t \notin stored'
    BY <1>2 DEF Stages, requests
  <2> QED
    BY <1>1, <1>2, <2>1, <2>2, <2>3 DEF Stages
<1>10. Effects'
  BY <1>2 DEF Effects, TookEffect, requests
<1>11. Tallied'
  <2>1. /\ point'[s] = tally
        /\ \A f \in Seqs \ {s} : point'[f] = point[f]
    BY <1>1, <1>2 DEF TypeOK
  <2>2. \A f \in Seqs : point'[f] <= tally'
    <3>1. tally <= tally
      BY DEF TypeOK
    <3> QED
      BY <1>2, <2>1, <3>1 DEF Tallied
  <2>3. \A f \in Seqs \ {s} : Measured(f) <=> Measured(f)'
    BY <1>2, <1>4 DEF Measured, requests
  <2>4. ASSUME NEW f \in {0} \cup Seqs, NEW t \in 1..taken', Measured(f)', f < t,
               Budgeted(t)', verdict'[t] # "ok"
        PROVE  (PointOf(f) < tally)'
    <3>1. t # s
      BY <1>1, <1>2, <2>4 DEF Budgeted, requests
    <3>2. t \in 1..taken /\ t < s
      BY <1>1, <2>4, <3>1
    <3>3. f # s
      BY <1>1, <2>4, <3>2, SeqsAreNats
    <3>4. Measured(f)
      BY <2>3, <2>4, <3>3 DEF Measured
    <3>5. Budgeted(t) /\ verdict[t] # "ok"
      BY <1>2, <2>4 DEF Budgeted, requests
    <3>6. PointOf(f) < tally
      BY <1>1, <2>4, <3>2, <3>4, <3>5 DEF Tallied
    <3> QED
      BY <1>2, <2>1, <3>3, <3>6 DEF PointOf
  <2>5. \A f \in Seqs : since'[f] < f /\ Measured(since[f])'
    <3>1. \A f \in Seqs : since'[f] = since[f] /\ since[f] < f /\ Measured(since[f])
      BY <1>2 DEF Tallied, requests
    <3>2. \A g \in {0} \cup Seqs : Measured(g) => Measured(g)'
      <4>1. ~ Measured(s)
        BY <1>1, <1>5 DEF Measured, InQueue
      <4> QED
        BY <2>3, <4>1 DEF Measured
    <3>3. \A f \in Seqs : since[f] \in {0} \cup Seqs
      BY DEF TypeOK
    <3> QED
      BY <1>2, <3>1, <3>2, <3>3 DEF requests
  <2>6. ASSUME NEW f \in Seqs, kind'[f] = "flush", answer'[f] = "clean",
               NEW t \in since'[f] + 1..f - 1, Budgeted(t)'
        PROVE  verdict'[t] = "ok"
    <3>1. CASE f # s
      BY <1>2, <1>4, <2>6, <3>1 DEF Tallied, Budgeted, requests
    <3>2. CASE f = s
      <4>1. v[s] = "clean" /\ tally = PointOf(since[s])
        BY <1>3, <1>4, <1>5, <1>1, <2>6, <3>2 DEF InQueue
      <4>2. /\ since[s] \in {0} \cup Seqs /\ since[s] \in Nat
            /\ Measured(since[s])
        BY <1>1, Bounds DEF Tallied, TypeOK
      <4>3. t \in 1..taken /\ since[s] < t
        BY <1>1, <1>2, <2>6, <3>2, <4>2 DEF requests
      <4>4. Budgeted(t)
        BY <1>2, <2>6 DEF Budgeted, requests
      <4>5. verdict[t] # "ok" => PointOf(since[s]) < tally
        BY <1>1, <4>2, <4>3, <4>4 DEF Tallied
      <4>6. ~ tally < tally
        BY DEF TypeOK
      <4> QED
        BY <1>2, <4>1, <4>5, <4>6
    <3> QED
      BY <3>1, <3>2
  <2> QED
    BY <2>2, <2>4, <2>5, <2>6 DEF Tallied
<1>12. FinalCut'
  <2>1. \A t \in Seqs : answer[t] = "clean" => answer'[t] = "clean"
    BY <1>4, <1>5 DEF InQueue
  <2>2. final \in {0} \cup Seqs
    BY DEF TypeOK
  <2> QED
    BY <1>2, <2>1, <2>2 DEF FinalCut, Budgeted, requests
<1>13. Bodies'
  BY <1>2 DEF Bodies, requests
<1> QED
  BY <1>6, <1>7, <1>8, <1>9, <1>10, <1>11, <1>12, <1>13

\* A set of the batch's requests that is not empty has a last one.
LEMMA LastOf ==
    ASSUME NEW S \in SUBSET Seqs, S # {}
    PROVE  \E x \in S : \A y \in S : y <= x
<1> DEFINE D == {MaxSeq - x : x \in S}
<1>1. D \subseteq Nat /\ D # {}
  <2>1. \A x \in S : MaxSeq - x \in Nat
    <3>1. \A x \in S : x \in Nat /\ x <= MaxSeq /\ MaxSeq \in Nat
      BY SeqsAreNats DEF Seqs
    <3> QED
      BY <3>1
  <2>2. \E x \in S : MaxSeq - x \in D
    OBVIOUS
  <2> QED
    BY <2>1, <2>2
<1>2. \E d \in D : \A e \in D : ~ (<<e, d>> \in OpToRel(<, Nat))
  <2> HIDE DEF D
  <2> QED
    BY <1>1, WFMin, NatLessThanWellFounded, Zenon
<1>3. PICK d \in D : \A e \in D : ~ (e < d)
  BY <1>1, <1>2 DEF OpToRel
<1>4. PICK x \in S : d = MaxSeq - x
  OBVIOUS
<1>5. ASSUME NEW y \in S PROVE y <= x
  <2>1. x \in Nat /\ y \in Nat /\ MaxSeq \in Nat
    BY SeqsAreNats
  <2>2. MaxSeq - y \in D
    OBVIOUS
  <2>3. ~ (MaxSeq - y < MaxSeq - x)
    BY <1>3, <1>4, <2>2
  <2> QED
    BY <2>1, <2>3
<1> QED
  BY <1>5

\* A batch is cut: the requests are in the worker's hand.
LEMMA CutBatchStep ==
    ASSUME IInv, NEW n \in Queued, CutBatch(n)
    PROVE  IInv'
<1> USE DEF IInv
<1> DEFINE batch == taken + 1..n
<1>1. /\ n \in Nat /\ taken \in Nat /\ taken < n /\ n <= next /\ next \in Nat
      /\ batch \subseteq Seqs /\ n \in batch
      /\ pc = "waiting" /\ run = {} /\ links = {} /\ alive
      /\ \A t \in batch : t \in Nat /\ taken < t /\ t <= next
  BY Bounds, SeqsAreNats DEF CutBatch, HandFits, Idle, Seqs, Queued
<1>2. /\ links' = Superseded(batch) /\ run' = batch \ links'
      /\ taken' = n /\ pc' = "executing"
      /\ UNCHANGED <<requests, next, admitting, stopping, alive, slots,
                     verdict, tally, point, stored, executor, final, drained>>
  BY DEF CutBatch
<1>3. links' \subseteq batch /\ run' \cup links' = batch /\ run' \cap links' = {}
  BY <1>2 DEF Superseded
<1>4. \A t \in batch : InQueue(t) /\ kind[t] # "none"
  BY <1>1 DEF Stages, Numbered
<1>5. \/ batch = {n} /\ kind[n] = "read"
      \/ \A t \in batch : Joinable(t)
  <2>1. CASE Joinable(taken + 1)
    BY <2>1 DEF CutBatch, ClosesAt
  <2>2. CASE ~ Joinable(taken + 1)
    BY <1>1, <2>2 DEF CutBatch, ClosesAt
  <2> QED
    BY <2>1, <2>2
<1>6. \A t \in batch : Budgeted(t)
  BY <1>1, <1>4, <1>5 DEF Joinable, Budgeted, TypeOK, Kinds
<1>7. ASSUME NEW t \in links'
      PROVE  kind[t] = "snapshot" /\ \E u \in run' : kind[u] = "snapshot" /\ t < u
  <2> DEFINE S == {u \in batch : kind[u] = "snapshot"}
  <2>1. t \in S /\ S \in SUBSET Seqs
    BY <1>1, <1>2, <1>7 DEF Superseded
  <2>2. PICK u \in S : \A y \in S : y <= u
    BY <2>1, LastOf
  <2>3. \A y \in S : y \in Nat
    BY <2>1, SeqsAreNats
  <2>4. u \notin links'
    BY <1>2, <2>2, <2>3 DEF Superseded
  <2>5. u \in run' /\ kind[u] = "snapshot"
    BY <1>2, <2>2, <2>4
  <2>6. t # u /\ t <= u
    BY <1>7, <2>1, <2>2, <2>4
  <2> QED
    BY <2>1, <2>2, <2>3, <2>5, <2>6
<1>8. n \in run'
  <2>1. n \notin links'
    BY <1>1, <1>2 DEF Superseded
  <2> QED
    BY <1>1, <1>2, <2>1
<1> HIDE DEF batch
<1>9. TypeOK'
  <2>1. run' \subseteq 1..taken' /\ links' \subseteq 1..taken' /\ taken' \in 0..next'
    BY <1>1, <1>2, <1>3 DEF batch
  <2> QED
    BY <1>2, <2>1 DEF TypeOK, requests, slots
<1>10. Numbered'
  BY <1>2 DEF Numbered, Budgeted, Offered, requests
<1>11. HandFits'
  <2>1. \A t, u \in run' : kind[t] = "snapshot" /\ kind[u] = "snapshot" => t = u
    <3>1. ASSUME NEW t \in run', NEW u \in run', kind[t] = "snapshot", kind[u] = "snapshot"
          PROVE  t = u
      <4>1. t \in batch /\ u \in batch /\ t \notin links' /\ u \notin links'
        BY <1>2, <3>1
      <4>2. ~(t < u) /\ ~(u < t)
        BY <1>2, <3>1, <4>1 DEF Superseded
      <4> QED
        BY <1>1, <4>1, <4>2
    <3> QED
      BY <3>1
  <2> QED
    BY <1>1, <1>2, <1>3, <1>7, <1>8, <2>1 DEF HandFits, Idle, requests
<1>12. Stages'
  <2>1. ASSUME NEW t \in Seqs, t > taken' PROVE InQueue(t)'
    <3>1. InQueue(t)
      BY <1>1, <1>2, <2>1, SeqsAreNats DEF Stages
    <3> QED
      BY <1>2, <3>1 DEF InQueue, requests, slots
  <2>2. ASSUME NEW t \in run' \cup links' PROVE InHand(t)'
    <3>1. t \in batch /\ InQueue(t) /\ kind[t] # "none" /\ Budgeted(t)
      BY <1>3, <1>4, <1>6, <2>2
    <3>2. \A u \in stored : u < t
      <4>1. \A u \in stored : u \in Seqs /\ u \in Nat /\ ~ (u > taken)
        BY Bounds, SeqsAreNats DEF Stages, InQueue
      <4> QED
        BY <1>1, <3>1, <4>1
    <3>3. kind[t] = "read" => run' = {t} /\ links' = {}
      <4>1. kind[t] = "read" => batch = {t}
        BY <1>5, <3>1 DEF Joinable
      <4> QED
        BY <1>2, <1>3, <1>8, <4>1 DEF Superseded
    <3> QED
      BY <1>2, <3>1, <3>2, <3>3 DEF InHand, InQueue, Budgeted, requests, slots
  <2>3. ASSUME NEW t \in 1..taken', t \notin run' \cup links' PROVE Over(t)'
    <3>1. t \in 1..taken
      BY <1>1, <1>2, <1>3, <2>3 DEF batch
    <3>2. Over(t)
      BY <1>1, <3>1 DEF Stages
    <3> QED
      BY <1>2, <3>2 DEF Over, Budgeted, requests, slots
  <2>4. \A t \in Seqs : kind'[t] = "flush" => verdict'[t] = "none" /\ t \notin stored'
    BY <1>2 DEF Stages, requests
  <2> QED
    BY <2>1, <2>2, <2>3, <2>4 DEF Stages
<1>13. Effects'
  BY <1>2 DEF Effects, TookEffect, requests
<1>14. Tallied'
  <2>1. ASSUME NEW t \in 1..taken', t \notin run' \cup links' PROVE t \in 1..taken
    BY <1>1, <1>2, <1>3, <2>1 DEF batch
  <2>2. ASSUME NEW f \in {0} \cup Seqs, NEW t \in 1..taken', Measured(f)', f < t,
               Budgeted(t)', t \notin run' \cup links', verdict'[t] # "ok"
        PROVE  (PointOf(f) < tally)'
    <3>1. t \in 1..taken /\ Measured(f) /\ Budgeted(t) /\ verdict[t] # "ok"
      BY <1>2, <2>1, <2>2 DEF Measured, Budgeted, requests, slots
    <3> QED
      BY <1>1, <1>2, <2>2, <3>1 DEF Tallied, PointOf
  <2> QED
    BY <1>2, <2>2 DEF Tallied, Measured, Budgeted, requests, slots
<1>15. FinalCut'
  BY <1>2 DEF FinalCut, Budgeted, requests, slots
<1>16. Bodies'
  BY <1>2 DEF Bodies, requests
<1> QED
  BY <1>9, <1>10, <1>11, <1>12, <1>13, <1>14, <1>15, <1>16

\* An execution that tells the truth about what it wrote.
ExecutedOf(v, E) ==
    /\ E \subseteq run
    /\ \A s \in run :
          /\ v[s] \in Results
          /\ v[s] = "ok" => s \in E \/ kind[s] = "read"
          /\ v[s] \in {"failed", "rejected"} => s \notin E
          /\ v[s] = "rejected" => kind[s] \in {"create", "read"}
    /\ Executed(v, E)

\* A batch was executed: its verdicts and the store agree.
LEMMA ExecutedStep ==
    ASSUME IInv, NEW v, NEW E, ExecutedOf(v, E)
    PROVE  IInv'
<1> USE DEF IInv
<1>1. /\ pc = "executing" /\ pc' = "settling" /\ alive
      /\ stored' = stored \cup E /\ E \subseteq run
      /\ run \subseteq Seqs /\ run \subseteq 1..taken
      /\ UNCHANGED <<requests, queue, slots, run, links, tally, point, executor,
                     final, drained>>
  BY Bounds DEF ExecutedOf, Executed, HandFits
<1>2. /\ verdict' \in [Seqs -> Results \cup {"none"}]
      /\ \A s \in run : verdict'[s] = v[s] /\ verdict'[s] \in Results
      /\ \A s \in Seqs \ run : verdict'[s] = verdict[s]
  <2>1. /\ verdict' = [s \in Seqs |-> IF s \in run THEN v[s] ELSE verdict[s]]
        /\ verdict \in [Seqs -> Results \cup {"none"}]
        /\ \A s \in run : v[s] \in Results
    BY DEF ExecutedOf, Executed, TypeOK
  <2> QED
    BY <1>1, <2>1
<1>3. \A s \in run : verdict[s] = "none" /\ s \notin stored /\ Budgeted(s)
  <2>1. \A s \in run : InHand(s) /\ s \in Nat
    BY <1>1, SeqsAreNats DEF Stages
  <2> QED
    BY <1>1, <2>1 DEF InHand
<1>4. TypeOK'
  BY <1>1, <1>2 DEF TypeOK, requests, queue, slots
<1>5. Numbered'
  BY <1>1 DEF Numbered, Budgeted, Offered, requests, queue
<1>6. HandFits'
  BY <1>1 DEF HandFits, Idle, requests, queue
<1>7. Stages'
  <2>1. ASSUME NEW s \in Seqs, s > taken PROVE InQueue(s)'
    <3>1. s \notin run /\ InQueue(s)
      BY <1>1, <2>1, Bounds DEF Stages
    <3> QED
      BY <1>1, <1>2, <3>1 DEF InQueue, requests, slots
  <2>2. ASSUME NEW s \in run \cup links PROVE InHand(s)'
    <3>1. InHand(s) /\ s \in Seqs
      BY <2>2, Bounds DEF Stages
    <3>2. s \in links => s \notin run
      BY DEF HandFits
    <3> QED
      BY <1>1, <1>2, <3>1, <3>2 DEF InHand, Budgeted, requests, slots
  <2>3. ASSUME NEW s \in 1..taken, s \notin run \cup links PROVE Over(s)'
    <3>1. Over(s) /\ s \in Seqs
      BY <2>3, Bounds DEF Stages
    <3> QED
      BY <1>1, <1>2, <2>3, <3>1 DEF Over, Budgeted, requests, slots
  <2>4. \A s \in Seqs : kind[s] = "flush" => verdict'[s] = "none" /\ s \notin stored'
    BY <1>1, <1>2, <1>3 DEF Stages, Budgeted
  <2> QED
    BY <1>1, <2>1, <2>2, <2>3, <2>4 DEF Stages, requests, queue
<1>8. Effects'
  <2>1. ASSUME NEW s \in Seqs, verdict'[s] = "ok" PROVE TookEffect(s)'
    <3>1. CASE s \in run
      BY <1>1, <1>2, <2>1, <3>1 DEF ExecutedOf, TookEffect, requests
    <3>2. CASE s \notin run
      <4>1. TookEffect(s)
        BY <1>2, <2>1, <3>2 DEF Effects
      <4> QED
        BY <1>1, <1>2, <3>2, <4>1, <2>1 DEF TookEffect, requests
    <3> QED
      BY <3>1, <3>2
  <2>2. ASSUME NEW s \in Seqs, verdict'[s] \in {"failed", "rejected"} PROVE s \notin stored'
    <3>1. CASE s \in run
      BY <1>1, <1>2, <1>3, <2>2, <3>1 DEF ExecutedOf
    <3>2. CASE s \notin run
      BY <1>1, <1>2, <2>2, <3>2 DEF Effects
    <3> QED
      BY <3>1, <3>2
  <2>3. ASSUME NEW s \in Seqs, verdict'[s] = "rejected" PROVE kind[s] \in {"create", "read"}
    BY <1>2, <2>3 DEF ExecutedOf, Effects
  <2> QED
    BY <1>1, <2>1, <2>2, <2>3 DEF Effects, requests
<1>9. Tallied'
  <2>1. ASSUME NEW f \in {0} \cup Seqs, NEW t \in 1..taken, Measured(f)', f < t,
               Budgeted(t)', t \notin run \cup links, verdict'[t] # "ok"
        PROVE  (PointOf(f) < tally)'
    <3>1. t \in Seqs /\ verdict[t] # "ok" /\ Measured(f) /\ Budgeted(t)
      BY <1>1, <1>2, <2>1, Bounds DEF Measured, Budgeted, requests, slots
    <3> QED
      BY <1>1, <2>1, <3>1 DEF Tallied, PointOf
  <2>2. ASSUME NEW f \in Seqs, kind[f] = "flush", answer[f] = "clean",
               NEW t \in since[f] + 1..f - 1, Budgeted(t)
        PROVE  verdict'[t] = "ok"
    <3>1. verdict[t] = "ok"
      BY <2>2 DEF Tallied
    <3>2. t \in Seqs
      BY <2>2, Bounds, SeqsAreNats DEF Seqs
    <3> QED
      BY <1>2, <1>3, <3>1, <3>2
  <2>3. \A f \in Seqs : point[f] <= tally /\ since[f] < f /\ Measured(since[f])
    BY DEF Tallied
  <2> QED
    BY <1>1, <2>1, <2>2, <2>3 DEF Tallied, Measured, Budgeted, requests, slots, queue
<1>10. FinalCut'
  BY <1>1 DEF FinalCut, Budgeted, requests, slots, queue
<1>11. Bodies'
  <2>1. \A s \in Seqs : verdict[s] = "failed" => verdict'[s] = "failed"
    BY <1>2, <1>3
  <2> QED
    BY <1>1, <2>1 DEF Bodies, requests, queue
<1> QED
  BY <1>4, <1>5, <1>6, <1>7, <1>8, <1>9, <1>10, <1>11

\* Each way an execution can end tells the truth: the one place where a
\* request's result and what it wrote are decided.
LEMMA ExecuteIsTruthful ==
    ASSUME IInv, Execute
    PROVE  \E v, E : ExecutedOf(v, E)
<1>2. CASE Committed
  <2> DEFINE v == [s \in run |-> IF Accepts(s) THEN "ok" ELSE "rejected"]
  <2>1. /\ Written \subseteq run
        /\ \A s \in run : /\ v[s] \in Results
                          /\ v[s] = "ok" => s \in Written \/ kind[s] = "read"
                          /\ v[s] \in {"failed", "rejected"} => s \notin Written
                          /\ v[s] = "rejected" => kind[s] \in {"create", "read"}
    BY DEF Written, Results, Accepts
  <2>2. Executed(v, Written)
    BY <1>2 DEF Committed
  <2>3. ExecutedOf(v, Written)
    BY <2>1, <2>2 DEF ExecutedOf
  <2> QED
    BY <2>3
<1>3. CASE NotCommitted
  <2>1. \A s \in run : All("failed")[s] = "failed"
    BY DEF All
  <2>2. ExecutedOf(All("failed"), {})
    BY <1>3, <2>1 DEF NotCommitted, ExecutedOf, Results
  <2> QED
    BY <2>2
<1>4. CASE CommitUnknown
  <2>1. \A s \in run : All("unknown")[s] = "unknown"
    BY DEF All
  <2>2. PICK E \in {{}, Written} : Executed(All("unknown"), E)
    BY <1>4 DEF CommitUnknown
  <2>3. E \subseteq run
    BY DEF Written
  <2>4. ExecutedOf(All("unknown"), E)
    BY <2>1, <2>2, <2>3 DEF ExecutedOf, Results
  <2> QED
    BY <2>4
<1>5. CASE EachFinished
  <2>1. PICK v \in [run -> {"ok", "failed", "unknown"}] :
             \E E \in SUBSET {s \in run : v[s] = "unknown"} :
                 Executed(v, E \cup {s \in run : v[s] = "ok"})
    BY <1>5 DEF EachFinished
  <2>2. PICK E \in SUBSET {s \in run : v[s] = "unknown"} :
             Executed(v, E \cup {s \in run : v[s] = "ok"})
    BY <2>1
  <2> DEFINE F == E \cup {s \in run : v[s] = "ok"}
  <2>3. /\ F \subseteq run
        /\ \A s \in run : /\ v[s] \in Results
                          /\ v[s] = "ok" => s \in F
                          /\ v[s] \in {"failed", "rejected"} => s \notin F
    BY DEF Results
  <2>4. ExecutedOf(v, F)
    BY <2>2, <2>3 DEF ExecutedOf
  <2> QED
    BY <2>4
<1>6. CASE ExecutorPanics
  <2>1. \A s \in run : All("lost")[s] = "lost"
    BY DEF All
  <2>2. PICK E \in IF executor = "files" THEN SUBSET run ELSE {{}, Written} :
             Executed(All("lost"), E)
    BY <1>6 DEF ExecutorPanics
  <2>3. E \subseteq run
    BY <2>2 DEF Written
  <2>4. ExecutedOf(All("lost"), E)
    BY <2>1, <2>2, <2>3 DEF ExecutedOf, Results
  <2> QED
    BY <2>4
<1> QED
  BY <1>2, <1>3, <1>4, <1>5, <1>6 DEF Execute

\* The requests told with request s of the run.
Told(s) == {s} \cup IF kind[s] = "snapshot" THEN links ELSE {}

\* A result goes to a request of the run and to those it superseded: the
\* result of its execution, or a failure of its own before it was executed.
FinishOf(s, v) ==
    /\ s \in run
    /\ \/ pc = "settling" /\ v = verdict[s]
       \/ pc = "executing" /\ v = "failed"
    /\ Finish(s, v)
    /\ pc' = IF run' = {} THEN "waiting" ELSE pc

\* What finishing does, slot by slot and verdict by verdict.
LEMMA FinishFacts ==
    ASSUME IInv, NEW s, NEW v, FinishOf(s, v)
    PROVE  /\ alive /\ s \in run /\ v \in Results
           /\ Told(s) \subseteq run \cup links /\ Told(s) \subseteq Seqs
           /\ run' = run \ {s} /\ links' = links \ Told(s)
           /\ Told(s) \cap run = {s}
           /\ \A t \in Told(s) : verdict'[t] = v
           /\ \A t \in Seqs \ Told(s) : verdict'[t] = verdict[t]
           /\ verdict' \in [Seqs -> Results \cup {"none"}]
           /\ slot' \in [Seqs -> {"none", "pending", "ready", "abandoned", "taken"}]
           /\ answer' \in [Seqs -> Results \cup FlushResults \cup {"none"}]
           /\ size' \in [Seqs -> Nat]
           /\ \A t \in Seqs \ Told(s) : slot'[t] = slot[t] /\ answer'[t] = answer[t]
           /\ \A t \in Told(s) : /\ InHand(t) /\ Budgeted(t)
                                 /\ slot[t] = "pending" => slot'[t] = "ready" /\ answer'[t] = v
                                 /\ slot[t] = "abandoned" => slot'[t] = "taken" /\ answer'[t] = "none"
           /\ UNCHANGED <<requests, queue, point, stored, executor, final, drained>>
<1> USE DEF IInv
<1>1. /\ s \in run /\ pc \in {"settling", "executing"} /\ alive
      /\ UNCHANGED <<requests, queue, point, stored, executor, final, drained>>
      /\ run' = run \ {s} /\ links' = links \ Told(s)
  BY DEF FinishOf, Finish, Told, HandFits
<1>2. /\ Told(s) \subseteq run \cup links /\ Told(s) \subseteq Seqs
      /\ Told(s) \cap run = {s}
  BY <1>1, Bounds DEF Told, HandFits
<1>3. \A t \in Told(s) : InHand(t) /\ Budgeted(t) /\ answer[t] = "none"
  <2>1. \A t \in Told(s) : InHand(t)
    BY <1>2 DEF Stages
  <2> QED
    BY <1>1, <2>1 DEF InHand
<1>4. v \in Results
  BY <1>1, <1>2, <1>3 DEF FinishOf, InHand, Results
<1>5. verdict' = [t \in Seqs |-> IF t \in Told(s) THEN v ELSE verdict[t]]
  BY DEF FinishOf, Finish, Told
<1>6. /\ verdict' \in [Seqs -> Results \cup {"none"}]
      /\ \A t \in Told(s) : verdict'[t] = v
      /\ \A t \in Seqs \ Told(s) : verdict'[t] = verdict[t]
  BY <1>2, <1>4, <1>5 DEF TypeOK
<1>7. \E out \in [Seqs -> Nat] : Complete(Told(s), verdict', out)
  <2>1. s \in Seqs /\ kind[s] \in Kinds
    BY <1>1, <1>2, <1>3 DEF Budgeted, Told
  <2>2. Complete(Told(s), verdict', IF v = "ok" THEN [NoBytes EXCEPT ![s] = OutBytes[kind[s]]]
                                               ELSE NoBytes)
    BY DEF FinishOf, Finish, Told
  <2> QED
    BY <2>1, <2>2, NoBytesType
<1>8. PICK out \in [Seqs -> Nat] : Complete(Told(s), verdict', out)
  BY <1>7
<1>9. \A t \in Told(s) : verdict'[t] \in Results \cup FlushResults
  BY <1>4, <1>6
<1>10. TypeOK /\ Told(s) \in SUBSET Seqs
  BY <1>2
<1>11. /\ slot' \in [Seqs -> {"none", "pending", "ready", "abandoned", "taken"}]
       /\ answer' \in [Seqs -> Results \cup FlushResults \cup {"none"}]
       /\ size' \in [Seqs -> Nat]
       /\ \A t \in Seqs \ Told(s) : slot'[t] = slot[t] /\ answer'[t] = answer[t]
       /\ \A t \in Told(s) : slot[t] = "pending" => slot'[t] = "ready" /\ answer'[t] = verdict'[t]
       /\ \A t \in Told(s) : slot[t] = "abandoned" => slot'[t] = "taken" /\ answer'[t] = answer[t]
  BY <1>8, <1>9, <1>10, CompleteSlots
<1> QED
  BY <1>1, <1>2, <1>3, <1>4, <1>6, <1>11

\* Requests without effect are counted, one or many.
LEMMA FinishCounts ==
    ASSUME IInv, NEW s, NEW v, FinishOf(s, v)
    PROVE  tally' \in Nat /\ tally <= tally' /\ (v # "ok" => tally < tally')
<1>1. /\ IsFiniteSet(Told(s)) /\ Cardinality(Told(s)) \in Nat
      /\ Cardinality(Told(s)) # 0
  <2>1. Told(s) \in SUBSET (1..MaxSeq) /\ Told(s) # {}
    <3>1. Told(s) \subseteq Seqs
      BY FinishFacts
    <3>2. s \in Told(s)
      BY DEF Told
    <3> QED
      BY <3>1, <3>2 DEF Seqs
  <2>2. IsFiniteSet(1..MaxSeq)
    BY SeqsAreNats, FS_Interval
  <2>3. IsFiniteSet(Told(s))
    BY <2>1, <2>2, FS_Subset
  <2> QED
    BY <2>1, <2>3, FS_CardinalityType, FS_EmptySet
<1>2. tally' = IF HadNoEffect(v) THEN tally + Cardinality(Told(s)) ELSE tally
  BY DEF FinishOf, Finish, Told
<1>3. tally \in Nat
  BY DEF IInv, TypeOK
<1> QED
  BY <1>1, <1>2, <1>3 DEF HadNoEffect

\* A request and those it superseded got their result.
LEMMA FinishStep ==
    ASSUME IInv, NEW s, NEW v, FinishOf(s, v)
    PROVE  IInv'
<1> DEFINE T == Told(s)
<1>1. /\ alive /\ s \in run /\ v \in Results
      /\ T \subseteq run \cup links /\ T \subseteq Seqs
      /\ run' = run \ {s} /\ links' = links \ T /\ T \cap run = {s}
      /\ \A t \in T : verdict'[t] = v
      /\ \A t \in Seqs \ T : verdict'[t] = verdict[t]
      /\ UNCHANGED <<requests, queue, point, stored, executor, final, drained>>
  BY FinishFacts
<1>2. /\ \A t \in Seqs \ T : slot'[t] = slot[t] /\ answer'[t] = answer[t]
      /\ \A t \in T : /\ InHand(t) /\ Budgeted(t)
                      /\ slot[t] = "pending" => slot'[t] = "ready" /\ answer'[t] = v
                      /\ slot[t] = "abandoned" => slot'[t] = "taken" /\ answer'[t] = "none"
  BY FinishFacts
<1>3. tally' \in Nat /\ tally <= tally' /\ (v # "ok" => tally < tally')
  BY FinishCounts
<1>4. /\ pc \in {"executing", "settling"}
      /\ pc' = IF run' = {} THEN "waiting" ELSE pc
  BY DEF FinishOf
<1>5. T = {s} \cup IF kind[s] = "snapshot" THEN links ELSE {}
  BY DEF Told
<1>6. \A t \in T : t # s => t \in links /\ kind[s] = "snapshot"
  BY <1>5
<1>7. TypeOK'
  <2>1. /\ verdict' \in [Seqs -> Results \cup {"none"}]
        /\ slot' \in [Seqs -> {"none", "pending", "ready", "abandoned", "taken"}]
        /\ answer' \in [Seqs -> Results \cup FlushResults \cup {"none"}]
        /\ size' \in [Seqs -> Nat]
    BY FinishFacts
  <2> QED
    BY <1>1, <1>3, <1>4, <2>1 DEF IInv, TypeOK, requests, queue
<1>8. Numbered'
  BY <1>1 DEF IInv, Numbered, Budgeted, Offered, requests, queue
<1>9. HandFits'
  <2>1. ASSUME NEW t \in links' PROVE /\ kind[t] = "snapshot"
                                     /\ \E u \in run' : kind[u] = "snapshot" /\ t < u
    <3>1. t \in links /\ t \notin T
      BY <1>1, <2>1
    <3>2. kind[s] # "snapshot"
      BY <1>5, <3>1
    <3>3. kind[t] = "snapshot" /\ \E u \in run : kind[u] = "snapshot" /\ t < u
      BY <3>1 DEF IInv, HandFits
    <3> QED
      BY <1>1, <3>2, <3>3
  <2>2. run' = {} => links' = {}
    BY <2>1
  <2> QED
    BY <1>1, <1>4, <2>1, <2>2 DEF IInv, HandFits, Idle, requests, queue
<1>10. Stages'
  <2>1. ASSUME NEW t \in Seqs, t > taken' PROVE InQueue(t)'
    <3>1. t \notin T /\ InQueue(t)
      BY <1>1, <2>1, Bounds DEF IInv, Stages, queue
    <3> QED
      BY <1>1, <1>2, <3>1 DEF InQueue, requests
  <2>2. ASSUME NEW t \in run' \cup links' PROVE InHand(t)'
    <3>1. t \notin T /\ InHand(t) /\ t \in Seqs /\ t # s
      BY <1>1, <1>5, <2>2, Bounds DEF IInv, Stages, HandFits
    <3>2. kind[t] # "read"
      BY <1>1, <1>4, <3>1 DEF InHand
    <3>3. t \in run' => t \in run
      BY <1>1
    <3>4. t \in links' => t \in links
      BY <1>1
    <3> QED
      BY <1>1, <1>2, <1>4, <3>1, <3>2, <3>3, <3>4 DEF InHand, Budgeted, requests
  <2>3. ASSUME NEW t \in 1..taken', t \notin run' \cup links' PROVE Over(t)'
    <3>1. CASE t \in T
      <4>1. t \in Seqs /\ slot[t] \in {"pending", "abandoned"} /\ kind[t] # "flush"
        BY <1>1, <1>2, <3>1 DEF InHand, Budgeted
      <4> QED
        BY <1>1, <1>2, <3>1, <4>1 DEF Over, Budgeted, requests, Results
    <3>2. CASE t \notin T
      <4>1. t \in Seqs /\ Over(t)
        BY <1>1, <1>5, <2>3, <3>2, Bounds DEF IInv, Stages, queue
      <4> QED
        BY <1>1, <1>2, <3>2, <4>1 DEF Over, Budgeted, requests
    <3> QED
      BY <3>1, <3>2
  <2>4. \A t \in Seqs : kind[t] = "flush" => verdict'[t] = "none" /\ t \notin stored'
    BY <1>1, <1>2 DEF IInv, Stages, Budgeted
  <2> QED
    BY <1>1, <2>1, <2>2, <2>3, <2>4 DEF Stages, requests
<1>11. Effects'
  <2>1. ASSUME NEW t \in T, v = "ok" PROVE TookEffect(t)
    <3>1. verdict[s] = "ok" /\ TookEffect(s)
      BY <1>1, <1>4, <2>1, Bounds DEF FinishOf, IInv, Effects
    <3>2. CASE t = s
      BY <3>1, <3>2
    <3>3. CASE t # s
      <4>1. t \in links /\ kind[s] = "snapshot"
        BY <1>6, <3>3
      <4>2. kind[t] = "snapshot" /\ t < s
        BY <1>1, <4>1 DEF IInv, HandFits
      <4>3. \A u \in stored : u \in Nat /\ t \in Nat /\ s \in Nat
        BY <1>1, Bounds, SeqsAreNats DEF IInv
      <4> QED
        BY <3>1, <4>1, <4>2, <4>3 DEF TookEffect
    <3> QED
      BY <3>2, <3>3
  <2>2. ASSUME NEW t \in T, v \in {"failed", "rejected"} PROVE t \notin stored
    <3>1. CASE t = s
      <4>1. pc = "executing" => t \notin stored
        <5>1. s \in T /\ s \in run /\ s \in Seqs /\ s \in Nat
          BY <1>1, SeqsAreNats
        <5>2. InHand(s)
          BY <1>2, <5>1
        <5>3. pc = "executing" => \A u \in stored : u < s
          BY <5>1, <5>2 DEF InHand
        <5> QED
          BY <3>1, <5>1, <5>3
      <4>2. pc = "settling" => t \notin stored
        BY <1>1, <2>2, <3>1 DEF FinishOf, IInv, Effects
      <4> QED
        BY <1>4, <4>1, <4>2
    <3>2. CASE t # s
      BY <1>2, <1>6, <3>2 DEF InHand
    <3> QED
      BY <3>1, <3>2
  <2>3. \A t \in Seqs \ T :
           /\ verdict'[t] = "ok" => TookEffect(t)
           /\ verdict'[t] \in {"failed", "rejected"} => t \notin stored
    BY <1>1 DEF IInv, Effects
  <2>4. \A t \in Seqs : verdict'[t] = "ok" => (TookEffect(t) => TookEffect(t)')
    BY <1>1 DEF TookEffect, requests
  <2>5. ASSUME NEW t \in Seqs
        PROVE  /\ verdict'[t] = "ok" => TookEffect(t)'
               /\ verdict'[t] \in {"failed", "rejected"} => t \notin stored'
    <3>1. CASE t \in T
      BY <1>1, <2>1, <2>2, <2>4, <3>1
    <3>2. CASE t \notin T
      BY <1>1, <2>3, <2>4, <3>2
    <3> QED
      BY <3>1, <3>2
  <2>6. ASSUME NEW t \in Seqs, verdict'[t] = "rejected" PROVE kind[t] \in {"create", "read"}
    <3>1. CASE t \in T
      <4>1. verdict[s] = "rejected" /\ s \in Seqs
        BY <1>1, <1>4, <2>6, <3>1 DEF FinishOf
      <4>2. kind[s] \in {"create", "read"}
        BY <4>1 DEF IInv, Effects
      <4> QED
        BY <1>6, <3>1, <4>2
    <3>2. CASE t \notin T
      BY <1>1, <2>6, <3>2 DEF IInv, Effects
    <3> QED
      BY <3>1, <3>2
  <2> QED
    BY <1>1, <2>5, <2>6 DEF Effects, requests
<1>12. ASSUME NEW t \in T, verdict[t] # "none" PROVE verdict'[t] = verdict[t]
  <2>1. t = s
    BY <1>2, <1>6, <1>12 DEF InHand
  <2>2. pc = "settling"
    BY <1>1, <1>2, <1>4, <1>12, <2>1 DEF InHand
  <2> QED
    BY <1>1, <1>12, <2>1, <2>2 DEF FinishOf
<1>13. Tallied'
  <2>1. \A f \in {0} \cup Seqs : Measured(f) <=> Measured(f)'
    BY <1>1, <1>2 DEF Measured, requests, Budgeted, Results
  <2>2. \A f \in {0} \cup Seqs : PointOf(f) \in Nat /\ PointOf(f) <= tally /\ PointOf(f)' = PointOf(f)
    BY <1>1, Bounds DEF IInv, Tallied, PointOf, TypeOK
  <2>3. ASSUME NEW f \in {0} \cup Seqs, NEW t \in 1..taken', Measured(f)', f < t,
               Budgeted(t)', t \notin run' \cup links', verdict'[t] # "ok"
        PROVE  (PointOf(f) < tally)'
    <3>1. tally \in Nat
      BY DEF IInv, TypeOK
    <3>2. CASE t \in T
      BY <1>1, <1>3, <2>2, <2>3, <3>1, <3>2
    <3>3. CASE t \notin T
      <4>1. t \in 1..taken /\ t \in Seqs /\ t \notin run \cup links
        BY <1>1, <1>5, <2>3, <3>3, Bounds DEF IInv, queue
      <4>2. Measured(f) /\ Budgeted(t) /\ verdict[t] # "ok"
        BY <1>1, <2>1, <2>3, <3>3, <4>1 DEF Budgeted, requests
      <4>3. PointOf(f) < tally
        BY <1>1, <2>3, <4>1, <4>2 DEF IInv, Tallied
      <4> QED
        BY <1>3, <2>2, <3>1, <4>3
    <3> QED
      BY <3>2, <3>3
  <2>4. \A f \in Seqs : since'[f] < f /\ Measured(since[f])'
    <3>1. \A f \in Seqs : since[f] < f /\ Measured(since[f]) /\ since[f] \in {0} \cup Seqs
      BY DEF IInv, Tallied, TypeOK
    <3> QED
      BY <1>1, <2>1, <3>1 DEF requests
  <2>5. ASSUME NEW f \in Seqs, kind'[f] = "flush", answer'[f] = "clean",
               NEW t \in since'[f] + 1..f - 1, Budgeted(t)'
        PROVE  verdict'[t] = "ok"
    <3>1. kind[f] = "flush" /\ answer[f] = "clean" /\ since'[f] = since[f] /\ Budgeted(t)
      BY <1>1, <1>2, <2>5 DEF requests, Budgeted
    <3>2. verdict[t] = "ok"
      BY <2>5, <3>1 DEF IInv, Tallied
    <3>3. t \in Seqs
      BY <2>5, <3>1, Bounds, SeqsAreNats DEF IInv, Seqs
    <3> QED
      BY <1>1, <1>12, <3>2, <3>3
  <2>6. \A f \in Seqs : point'[f] <= tally'
    <3>1. \A f \in Seqs : point[f] \in Nat /\ point[f] <= tally /\ tally \in Nat
      BY Bounds DEF IInv, Tallied, TypeOK
    <3> QED
      BY <1>1, <1>3, <3>1
  <2> QED
    BY <2>3, <2>4, <2>5, <2>6 DEF Tallied
<1>14. FinalCut'
  <2>1. final \in {0} \cup Seqs
    BY DEF IInv, TypeOK
  <2>2. \A t \in Seqs : answer[t] = "clean" => answer'[t] = "clean"
    BY <1>2 DEF InHand
  <2> QED
    BY <1>1, <2>1, <2>2 DEF IInv, FinalCut, Budgeted, requests, queue
<1>15. Bodies'
  <2>1. \A t \in Seqs : verdict[t] = "failed" => verdict'[t] = "failed"
    BY <1>1, <1>12
  <2> QED
    BY <1>1, <2>1 DEF IInv, Bodies, requests, queue
<1> QED
  BY <1>7, <1>8, <1>9, <1>10, <1>11, <1>13, <1>14, <1>15 DEF IInv

\* The exit guard takes all that is left out of the queue.
LEMMA ExitGuardStep ==
    ASSUME IInv, ExitGuard
    PROVE  IInv'
<1> USE DEF IInv
<1>1. /\ pc = "leaving" /\ run = {} /\ links = {} /\ alive
      /\ alive' = FALSE /\ admitting' = FALSE /\ taken' = next
      /\ run' = Queued /\ pc' = IF run' = {} THEN "ended" ELSE "dropping"
      /\ UNCHANGED <<requests, next, stopping, slots, links, tally, point, stored,
                     executor, final, drained>>
  BY DEF ExitGuard, NotAlive, StopAdmitting, HandFits, Idle
<1>2. /\ taken \in Nat /\ next \in Nat /\ taken <= next
      /\ Queued \subseteq Seqs
      /\ \A s \in Seqs : s \in Nat
      /\ \A s \in Queued : InQueue(s) /\ kind[s] # "none"
  <2>1. /\ taken \in Nat /\ next \in Nat /\ taken <= next
        /\ Queued \subseteq Seqs /\ \A s \in Seqs : s \in Nat
    BY Bounds, SeqsAreNats DEF Queued, Seqs
  <2>2. \A s \in Queued : s > taken /\ ~ s > next
    BY <2>1 DEF Queued
  <2> QED
    BY <2>1, <2>2 DEF Stages, Numbered
<1>3. /\ verdict' \in [Seqs -> Results \cup {"none"}]
      /\ \A s \in Queued : verdict'[s] = IF Budgeted(s) THEN "lost" ELSE verdict[s]
      /\ \A s \in Seqs \ Queued : verdict'[s] = verdict[s]
      /\ \A s \in Seqs : verdict'[s] = verdict[s] \/ (verdict[s] = "none" /\ verdict'[s] = "lost")
  <2>1. /\ verdict \in [Seqs -> Results \cup {"none"}]
        /\ verdict' = [s \in Seqs |-> IF s \in Queued /\ Budgeted(s) THEN "lost" ELSE verdict[s]]
    BY DEF ExitGuard, TypeOK
  <2> QED
    BY <1>2, <2>1 DEF Results, InQueue
<1>4. TypeOK'
  <2>1. run' \subseteq 1..taken' /\ links' \subseteq 1..taken' /\ taken' \in 0..next'
    BY <1>1, <1>2 DEF Queued
  <2> QED
    BY <1>1, <1>3, <2>1 DEF TypeOK, requests, slots
<1>5. Numbered'
  BY <1>1 DEF Numbered, Budgeted, Offered, requests
<1>6. HandFits'
  BY <1>1 DEF HandFits, Idle
<1>7. Stages'
  <2>1. ASSUME NEW s \in Seqs, s > taken' PROVE InQueue(s)'
    <3>1. InQueue(s) /\ s \notin Queued
      BY <1>1, <1>2, <2>1 DEF Stages, Queued
    <3> QED
      BY <1>1, <1>3, <3>1 DEF InQueue, requests, slots
  <2>2. ASSUME NEW s \in run' PROVE InHand(s)'
    <3>1. s \in Queued /\ s \in Seqs /\ InQueue(s) /\ kind[s] # "none"
      BY <1>1, <1>2, <2>2
    <3>2. pc' = "dropping"
      BY <1>1, <2>2
    <3> QED
      BY <1>1, <1>3, <3>1, <3>2 DEF InHand, InQueue, Budgeted, requests, slots
  <2>3. ASSUME NEW s \in 1..taken', s \notin run' PROVE Over(s)'
    <3>1. s \in 1..taken /\ s \in Seqs /\ s \notin Queued
      BY <1>1, <1>2, <2>3, Bounds DEF Queued
    <3>2. Over(s)
      BY <1>1, <3>1 DEF Stages
    <3> QED
      BY <1>1, <1>3, <3>1, <3>2 DEF Over, Budgeted, requests, slots
  <2>4. \A s \in Seqs : kind[s] = "flush" => verdict'[s] = "none" /\ s \notin stored'
    BY <1>1, <1>3 DEF Stages, Budgeted
  <2> QED
    BY <1>1, <2>1, <2>2, <2>3, <2>4 DEF Stages, requests
<1>8. Effects'
  BY <1>1, <1>3 DEF Effects, TookEffect, requests
<1>9. Tallied'
  <2>1. ASSUME NEW f \in Seqs, kind[f] = "flush", answer[f] = "clean",
               NEW t \in since[f] + 1..f - 1, Budgeted(t)
        PROVE  verdict'[t] = "ok"
    <3>1. verdict[t] = "ok" /\ t \in Seqs
      BY <2>1, Bounds, SeqsAreNats DEF Tallied, Seqs
    <3> QED
      BY <1>3, <3>1
  <2>2. \A f \in Seqs : point[f] <= tally /\ since[f] < f /\ Measured(since[f])
    BY DEF Tallied
  <2> QED
    BY <1>1, <2>1, <2>2 DEF Tallied, Measured, Budgeted, requests, slots
<1>10. FinalCut'
  BY <1>1 DEF FinalCut, Budgeted, requests, slots
<1>11. Bodies'
  BY <1>1, <1>3 DEF Bodies, requests
<1> QED
  BY <1>4, <1>5, <1>6, <1>7, <1>8, <1>9, <1>10, <1>11

\* A ticket dropped unexecuted tells its holder that the request is lost.
LEMMA DropTicketStep ==
    ASSUME IInv, NEW s \in run, DropTicket(s)
    PROVE  IInv'
<1> USE DEF IInv
<1> DEFINE v == [t \in Seqs |-> "lost"]
<1>1. /\ pc = "dropping" /\ ~ alive /\ links = {} /\ s \in Seqs /\ s \in 1..taken
      /\ run' = run \ {s} /\ pc' = IF run' = {} THEN "ended" ELSE pc
      /\ UNCHANGED <<requests, queue, links, verdict, tally, point, stored, executor,
                     final, drained>>
  BY Bounds DEF DropTicket, HandFits
<1>2. /\ Complete({s}, v, NoBytes)
      /\ v[s] = "lost" /\ \A t \in {s} : v[t] \in Results \cup FlushResults
  BY <1>1 DEF DropTicket, Results
<1> HIDE DEF v
<1>3. /\ slot' \in [Seqs -> {"none", "pending", "ready", "abandoned", "taken"}]
      /\ answer' \in [Seqs -> Results \cup FlushResults \cup {"none"}]
      /\ size' \in [Seqs -> Nat]
      /\ \A t \in Seqs \ {s} : slot'[t] = slot[t] /\ answer'[t] = answer[t]
      /\ slot[s] = "pending" => slot'[s] = "ready" /\ answer'[s] = "lost"
      /\ slot[s] = "abandoned" => slot'[s] = "taken" /\ answer'[s] = answer[s]
  <2>1. TypeOK /\ {s} \in SUBSET Seqs /\ NoBytes \in [Seqs -> Nat]
    BY <1>1, NoBytesType
  <2>2. /\ slot' \in [Seqs -> {"none", "pending", "ready", "abandoned", "taken"}]
        /\ answer' \in [Seqs -> Results \cup FlushResults \cup {"none"}]
        /\ size' \in [Seqs -> Nat]
        /\ \A t \in Seqs \ {s} : slot'[t] = slot[t] /\ answer'[t] = answer[t]
        /\ \A t \in {s} : slot[t] = "pending" => slot'[t] = "ready" /\ answer'[t] = v[t]
        /\ \A t \in {s} : slot[t] = "abandoned" => slot'[t] = "taken" /\ answer'[t] = answer[t]
    BY <2>1, <1>2, CompleteSlots
  <2> QED
    BY <1>2, <2>2
<1>4. InHand(s) /\ answer[s] = "none" /\ slot[s] \in {"pending", "abandoned"}
  BY DEF Stages, InHand
<1>5. TypeOK'
  BY <1>1, <1>3 DEF TypeOK, requests, queue
<1>6. Numbered'
  BY <1>1 DEF Numbered, Budgeted, Offered, requests, queue
<1>7. HandFits'
  BY <1>1 DEF HandFits, Idle, requests, queue
<1>8. Stages'
  <2>1. ASSUME NEW t \in Seqs, t > taken PROVE InQueue(t)'
    <3>1. InQueue(t) /\ t # s
      BY <1>1, <2>1, Bounds DEF Stages
    <3> QED
      BY <1>1, <1>3, <3>1 DEF InQueue, requests
  <2>2. ASSUME NEW t \in run' PROVE InHand(t)'
    <3>1. InHand(t) /\ t # s /\ t \in Seqs /\ t \in run
      BY <1>1, <2>2, Bounds DEF Stages
    <3>2. pc' = pc
      BY <1>1, <2>2
    <3> QED
      BY <1>1, <1>3, <3>1, <3>2 DEF InHand, Budgeted, requests
  <2>3. ASSUME NEW t \in 1..taken, t \notin run' PROVE Over(t)'
    <3>1. CASE t = s
      BY <1>1, <1>3, <1>4, <3>1 DEF Over, InHand, Budgeted, requests, Results, FlushResults
    <3>2. CASE t # s
      <4>1. Over(t) /\ t \in Seqs
        BY <1>1, <2>3, <3>2, Bounds DEF Stages
      <4> QED
        BY <1>1, <1>3, <3>2, <4>1 DEF Over, Budgeted, requests
    <3> QED
      BY <3>1, <3>2
  <2>4. \A t \in Seqs : kind[t] = "flush" => verdict[t] = "none" /\ t \notin stored
    BY DEF Stages
  <2> QED
    BY <1>1, <2>1, <2>2, <2>3, <2>4 DEF Stages, requests, queue
<1>9. Effects'
  BY <1>1 DEF Effects, TookEffect, requests
<1>10. Tallied'
  <2>1. \A f \in {0} \cup Seqs : Measured(f) => Measured(f)'
    BY <1>1, <1>3, <1>4 DEF Measured, requests
  <2>2. \A f \in Seqs : since[f] < f /\ Measured(since[f])' /\ point[f] <= tally
    <3>1. \A f \in Seqs : /\ since[f] < f /\ Measured(since[f])
                          /\ since[f] \in {0} \cup Seqs /\ point[f] <= tally
      BY DEF Tallied, TypeOK
    <3> QED
      BY <1>1, <2>1, <3>1 DEF requests
  <2>3. \A f \in Seqs : answer'[f] = "clean" => answer[f] = "clean"
    BY <1>3, <1>4
  <2>4. \A f \in Seqs : kind[f] = "flush" /\ answer[f] = "clean" =>
           \A t \in since[f] + 1..f - 1 : Budgeted(t) => verdict[t] = "ok"
    BY DEF Tallied
  <2> QED
    BY <1>1, <2>2, <2>3, <2>4 DEF Tallied, Budgeted, requests, queue
<1>11. FinalCut'
  <2>1. final \in {0} \cup Seqs
    BY DEF TypeOK
  <2>2. \A t \in Seqs : answer[t] = "clean" => answer'[t] = "clean"
    BY <1>3, <1>4
  <2> QED
    BY <1>1, <2>1, <2>2 DEF FinalCut, Budgeted, requests, queue
<1>12. Bodies'
  BY <1>1 DEF Bodies, requests, queue
<1> QED
  BY <1>5, <1>6, <1>7, <1>8, <1>9, <1>10, <1>11, <1>12

-----------------------------------------------------------------------------
(* The theorems.                                                           *)

\* Every step of caller, worker and owner keeps the invariant.
LEMMA NextKeepsInvariant == IInv /\ [Next]_vars => IInv'
<1> SUFFICES ASSUME IInv, [Next]_vars PROVE IInv'
  OBVIOUS
<1>1. CASE UNCHANGED vars
  <2>1. FrameOf
    BY <1>1 DEF FrameOf, vars, requests, queue, slots, worker, IInv, TypeOK
  <2> QED
    BY <2>1, FrameStep
<1>2. CASE CutFlush
  BY <1>2, CutFlushStep
<1>3. ASSUME NEW n \in Queued, CutBatch(n) PROVE IInv'
  BY <1>3, CutBatchStep
<1>4. CASE Execute
  BY <1>4, ExecuteIsTruthful, ExecutedStep
<1>5. ASSUME NEW s \in run, Poisoned(s) \/ Settle(s) PROVE IInv'
  <2>1. CASE Poisoned(s)
    <3>1. FinishOf(s, "failed")
      BY <1>5, <2>1 DEF Poisoned, FinishOf
    <3> QED
      BY <3>1, FinishStep
  <2>2. CASE Settle(s)
    <3>1. FinishOf(s, verdict[s])
      BY <1>5, <2>2 DEF Settle, FinishOf
    <3> QED
      BY <3>1, FinishStep
  <2> QED
    BY <1>5, <2>1, <2>2
<1>6. ASSUME NEW s \in run, DropTicket(s) PROVE IInv'
  BY <1>6, DropTicketStep
<1>7. CASE Leave \/ WorkerPanics
  <2>1. size' \in [Seqs -> Nat]
    BY <1>7 DEF Leave, WorkerPanics, ToExit, slots, IInv, TypeOK
  <2>2. FrameOf
    BY <1>7, <2>1 DEF Leave, WorkerPanics, ToExit, FrameOf, requests, queue, slots
  <2> QED
    BY <2>2, FrameStep
<1>8. CASE ExitGuard
  BY <1>8, ExitGuardStep
<1>9. CASE SubmitNew
  <2>1. PICK k \in Offered : Submit(k, 0)
    BY <1>9 DEF SubmitNew
  <2>2. 0 <= next
    BY Bounds DEF IInv
  <2> QED
    BY <2>1, <2>2, SubmitStep
<1>10. ASSUME NEW s \in Seqs, Resubmit(s) PROVE IInv'
  BY <1>10, ResubmitStep
<1>11. ASSUME NEW s \in Seqs, TakeResult(s) \/ Abandon(s) PROVE IInv'
  BY <1>11, ReceiptStep
<1>12. ASSUME NEW from \in {0} \cup Seqs, Flush(from) PROVE IInv'
  BY <1>12, FlushStep
<1>13. CASE BeginShutdown
  BY <1>13, BeginShutdownStep
<1>14. CASE Join
  BY <1>14, JoinStep
<1> QED
  BY <1>1, <1>2, <1>3, <1>4, <1>5, <1>6, <1>7, <1>8, <1>9, <1>10, <1>11, <1>12, <1>13,
     <1>14 DEF Next, WorkerStep, CallerStep

\* The inductive invariant.
THEOREM Invariant == Spec => []IInv
  BY InitHolds, NextKeepsInvariant, PTL DEF Spec

\* Queue, slots and the worker's hand stay well formed (batch_writer.rs).
THEOREM TypeCorrect == Spec => []TypeOK
  BY Invariant, PTL DEF IInv

\* A clean flush means that everything since the point it measures from took
\* effect (worker.rs run, Tally).
THEOREM CleanFlushIsTrue == Spec => []CleanFlushMeansStored
<1>1. IInv => CleanFlushMeansStored
  <2> SUFFICES ASSUME IInv, NEW f \in Seqs, kind[f] = "flush", answer[f] = "clean",
                      NEW s \in since[f] + 1..f - 1, Budgeted(s)
               PROVE  TookEffect(s)
    BY DEF CleanFlushMeansStored
  <2>1. verdict[s] = "ok"
    BY DEF IInv, Tallied
  <2>2. s \in Seqs
    BY Bounds, SeqsAreNats DEF IInv, Seqs
  <2> QED
    BY <2>1, <2>2 DEF IInv, Effects
<1> QED
  BY <1>1, Invariant, PTL

\* A clean final flush seen at the join means that every request ever admitted
\* took effect (shutdown.rs).
THEOREM CleanShutdownIsTrue == Spec => []CleanShutdownLosesNothing
<1>1. IInv => CleanShutdownLosesNothing
  <2> SUFFICES ASSUME IInv, drained = "clean", NEW s \in Seqs, Budgeted(s)
               PROVE  TookEffect(s)
    BY DEF CleanShutdownLosesNothing
  <2>1. /\ final \in Seqs /\ kind[final] = "flush" /\ since[final] = 0
        /\ answer[final] = "clean" /\ ~ s > final
    BY DEF IInv, FinalCut, TypeOK
  <2>2. s # final
    BY <2>1 DEF Budgeted
  <2>3. s \in Nat /\ s > 0 /\ final \in Nat
    BY <2>1, SeqsAreNats
  <2>4. s \in since[final] + 1..final - 1
    BY <2>1, <2>2, <2>3
  <2>5. verdict[s] = "ok"
    BY <2>1, <2>4 DEF IInv, Tallied
  <2> QED
    BY <2>5 DEF IInv, Effects
<1> QED
  BY <1>1, Invariant, PTL

\* A body submitted again is written at most once (access.rs run_blocking).
THEOREM BodiesAreWrittenOnce == Spec => []BodyWrittenOnce
<1>1. IInv => BodyWrittenOnce
  <2> SUFFICES ASSUME IInv, NEW s \in stored, NEW t \in stored, origin[s] = origin[t], s # t
               PROVE  FALSE
    BY DEF BodyWrittenOnce
  <2>1. s \in Seqs /\ t \in Seqs /\ s \in Nat /\ t \in Nat
    BY Bounds, SeqsAreNats DEF IInv
  <2>2. s < t \/ t < s
    BY <2>1
  <2> QED
    BY <2>1, <2>2 DEF IInv, Bodies, Effects
<1> QED
  BY <1>1, Invariant, PTL

\* No slot is left unfilled when the worker has ended (ExitGuard, Ticket).
THEOREM EveryoneIsAnswered == Spec => []NobodyLeftWaiting
<1>1. IInv => NobodyLeftWaiting
  <2> SUFFICES ASSUME IInv, pc = "ended", NEW s \in Seqs
               PROVE  slot[s] \notin {"pending", "abandoned"}
    BY DEF NobodyLeftWaiting
  <2>1. run = {} /\ links = {} /\ taken = next
    BY DEF IInv, HandFits, Idle
  <2>2. CASE s > next
    <3>1. kind[s] = "none" /\ InQueue(s)
      BY <2>1, <2>2 DEF IInv, Numbered, Stages
    <3> QED
      BY <3>1 DEF InQueue
  <2>3. CASE ~ s > next
    <3>1. s \in Nat /\ s > 0 /\ next \in Nat
      BY Bounds, SeqsAreNats DEF IInv
    <3>2. s \in 1..taken
      BY <2>1, <2>3, <3>1
    <3>3. Over(s)
      BY <2>1, <3>2 DEF IInv, Stages
    <3> QED
      BY <3>3 DEF Over
  <2> QED
    BY <2>2, <2>3
<1> QED
  BY <1>1, Invariant, PTL

-----------------------------------------------------------------------------
(* The refinement: the batch writer implements the serial store, for every *)
(* number of requests, every limit and every size of request.  Each of its *)
(* steps is a step of the serial store, or none.                           *)

(* The mapping.                                                            *)

\* The mapping keeps the kinds of all requests, and hides flushes.
LEMMA AskedIs ==
    /\ \A s \in Seqs : Asked[s] = IF kind[s] = "flush" THEN "none" ELSE kind[s]
    /\ \A s \in Seqs : kind[s] # "none" /\ Asked[s] # "none" => kind[s] # "flush"
    /\ \A s \in Seqs, k \in {"put", "create", "snapshot", "read"} :
          Asked[s] = k <=> kind[s] = k
  BY DEF Asked

\* The mapping keeps the answers of all requests, and hides flushes.
LEMMA AnsweredIs ==
    \A s \in Seqs : Answered[s] = IF kind[s] = "flush" THEN "none" ELSE answer[s]
  BY DEF Answered

\* What holders were told is a verdict, and that of their request.
LEMMA AnswersAreVerdicts ==
    IInv => /\ Answered \in [Seqs -> Results \cup {"none"}]
            /\ \A s \in Seqs : Answered[s] \in {"none", verdict[s]}
<1> SUFFICES ASSUME IInv, NEW s \in Seqs
             PROVE  /\ Answered[s] \in Results \cup {"none"}
                    /\ Answered[s] \in {"none", verdict[s]}
  BY DEF Answered
<1>1. CASE kind[s] = "flush"
  BY <1>1, AnsweredIs
<1>2. CASE kind[s] # "flush" /\ answer[s] # "none"
  <2>1. s \in 1..taken /\ s \notin run \cup links
    BY <1>2, Bounds, SeqsAreNats DEF IInv, Stages, InQueue, InHand
  <2>2. Budgeted(s)
    <3>1. kind[s] # "none"
      BY <2>1, Bounds DEF IInv, Numbered
    <3> QED
      BY <1>2, <3>1 DEF Budgeted, IInv, TypeOK
  <2>3. answer[s] \in {"none", verdict[s]} /\ verdict[s] \in Results
    BY <2>1, <2>2 DEF IInv, Stages, Over
  <2> QED
    BY <1>2, <2>3, AnsweredIs
<1>3. CASE kind[s] # "flush" /\ answer[s] = "none"
  BY <1>3, AnsweredIs
<1> QED
  BY <1>1, <1>2, <1>3

\* Both specifications know the same results.
LEMMA ResultsAreVerdicts == Results = Serial!Verdicts
  BY DEF Results, Serial!Verdicts

\* What is asked is what the kinds say; acceptance as the executor sees it.
AcceptableIn(s, E) ==
    LET created == \E t \in stored \cup {e \in E : e < s} : kind[t] = "create"
    IN  /\ kind[s] = "create" => ~ created
        /\ kind[s] = "read" => created

\* The serial store judges a request as the executor does.
LEMMA AcceptableIs ==
    ASSUME IInv, NEW s \in Seqs, NEW E \in SUBSET Seqs
    PROVE  Serial!Acceptable(s, E) <=> AcceptableIn(s, E)
<1>1. \A t \in stored \cup {e \in E : e < s} : t \in Seqs
  BY Bounds DEF IInv
<1> QED
  BY <1>1, AskedIs DEF Serial!Acceptable, AcceptableIn

-----------------------------------------------------------------------------
(* Steps that decide.                                                      *)

\* Requests that had no verdict get one, those of E take effect, and holders
\* that had no answer get one.
DecideOf(E) ==
    /\ UNCHANGED kind
    /\ stored' = stored \cup E /\ E \subseteq Seqs
    /\ \A s \in Seqs : verdict'[s] # verdict[s] =>
          /\ verdict[s] = "none" /\ Budgeted(s)
          /\ verdict'[s] = "ok" =>
                \/ s \in E
                \/ kind[s] = "read" /\ AcceptableIn(s, E)
                \/ kind[s] = "snapshot" /\ \E t \in stored \cup E : kind[t] = "snapshot" /\ s < t
          /\ verdict'[s] = "rejected" => ~ AcceptableIn(s, E)
          /\ verdict'[s] \in {"rejected", "failed"} => s \notin E
          /\ kind[s] = "read" /\ verdict'[s] \in {"ok", "rejected"} =>
                \A t \in Seqs : t < s /\ Budgeted(t) => verdict[t] # "none"
    /\ \A s \in E : /\ verdict'[s] # verdict[s]
                    /\ kind[s] # "read" /\ AcceptableIn(s, E)
                    /\ \A t \in stored : t < s
    /\ \A s \in Seqs : answer'[s] # answer[s] => answer[s] = "none"

\* Such a step is the serial store's Decide.
LEMMA DecideStep ==
    ASSUME IInv, IInv', NEW E, DecideOf(E)
    PROVE  Serial!Decide
<1> DEFINE D == {s \in Seqs : verdict'[s] # verdict[s]}
<1>1. /\ stored' \ stored = E /\ stored \subseteq stored' /\ E \subseteq D
      /\ E \in SUBSET Seqs /\ stored \subseteq Seqs
  <2>1. \A s \in E : s \notin stored
    <3>1. \A s \in E : s \in Nat
      BY SeqsAreNats DEF DecideOf
    <3> QED
      BY <3>1 DEF DecideOf
  <2> QED
    BY <2>1, Bounds DEF DecideOf, IInv
<1>2. Asked' = Asked
  BY DEF DecideOf, Asked
<1>3. verdict' \in [Seqs -> Serial!Verdicts \cup {"none"}]
  BY ResultsAreVerdicts DEF IInv, TypeOK
<1>4. ASSUME NEW s \in D
      PROVE  Asked[s] # "none" /\ verdict[s] = "none" /\ Serial!Justified(verdict'[s], s, E)
  <2>1. verdict[s] = "none" /\ Budgeted(s)
    BY <1>4 DEF DecideOf
  <2>2. Asked[s] # "none"
    BY <1>4, <2>1, AskedIs DEF Budgeted, Kinds
  <2>3. verdict'[s] = "ok" => Serial!Effective(s, E)
    <3>1. CASE s \in E
      BY <3>1 DEF Serial!Effective
    <3>2. CASE kind[s] = "read" /\ AcceptableIn(s, E)
      BY <1>1, <1>4, <3>2, AskedIs, AcceptableIs DEF Serial!Effective
    <3>3. CASE kind[s] = "snapshot" /\ \E t \in stored \cup E : kind[t] = "snapshot" /\ s < t
      BY <1>1, <1>4, <3>3, AskedIs DEF Serial!Effective
    <3> QED
      BY <1>4, <3>1, <3>2, <3>3 DEF DecideOf
  <2>4. verdict'[s] = "rejected" => ~ Serial!Acceptable(s, E)
    BY <1>1, <1>4, AcceptableIs DEF DecideOf
  <2>5. verdict'[s] \in {"rejected", "failed"} => s \notin E
    BY <1>4 DEF DecideOf
  <2> QED
    BY <2>1, <2>2, <2>3, <2>4, <2>5 DEF Serial!Justified
<1>5. ASSUME NEW s \in E
      PROVE  Asked[s] # "read" /\ Serial!Acceptable(s, E) /\ \A t \in stored : t < s
  BY <1>1, <1>5, AskedIs, AcceptableIs DEF DecideOf
<1>6. ASSUME NEW s \in D, NEW t \in Seqs, Asked[s] = "read", verdict'[s] \in {"ok", "rejected"},
             t < s, Asked[t] # "none"
      PROVE  verdict[t] # "none"
  <2>1. kind[s] = "read"
    BY <1>6, AskedIs
  <2>2. Budgeted(t)
    BY <1>6, AskedIs DEF Budgeted, IInv, TypeOK
  <2> QED
    BY <1>6, <2>1, <2>2 DEF DecideOf
<1>7. Serial!Told
  <2>1. /\ Answered' \in [Seqs -> Results \cup {"none"}]
        /\ \A s \in Seqs : Answered'[s] \in {"none", verdict'[s]}
    <3>1. IInv' => (/\ Answered \in [Seqs -> Results \cup {"none"}]
                    /\ \A s \in Seqs : Answered[s] \in {"none", verdict[s]})'
      BY AnswersAreVerdicts, PTL
    <3> QED
      BY <3>1
  <2>2. ASSUME NEW s \in Seqs, Answered'[s] # Answered[s]
        PROVE  Answered[s] = "none" /\ Answered'[s] = verdict'[s]
    <3>1. Answered'[s] = IF kind[s] = "flush" THEN "none" ELSE answer'[s]
      BY DEF DecideOf, Answered
    <3>2. answer'[s] # answer[s] /\ kind[s] # "flush"
      BY <2>2, <3>1, AnsweredIs
    <3>3. Answered[s] = "none"
      BY <3>2, AnsweredIs DEF DecideOf
    <3> QED
      BY <2>1, <2>2, <3>3
  <2> QED
    BY <2>1, <2>2, ResultsAreVerdicts DEF Serial!Told
<1> QED
  BY <1>1, <1>2, <1>3, <1>4, <1>5, <1>6, <1>7 DEF Serial!Decide

-----------------------------------------------------------------------------
(* Executions.                                                             *)

\* Among some numbers there is a first one.
LEMMA FirstOf ==
    ASSUME NEW S \in SUBSET Seqs, S # {}
    PROVE  \E x \in S : \A y \in S : ~ y < x
<1>1. S \subseteq Nat
  BY SeqsAreNats
<1>2. \E x \in S : \A y \in S : ~ (<<y, x>> \in OpToRel(<, Nat))
  BY <1>1, WFMin, NatLessThanWellFounded, Zenon
<1> QED
  BY <1>1, <1>2 DEF OpToRel

\* The executor judges each request after all the requests of the run before
\* it; for the store only those that were accepted are before it.  It is the
\* same: the first create of a run is either accepted or finds one stored.
LEMMA AcceptsIs ==
    ASSUME IInv, NEW s \in run
    PROVE  Accepts(s) <=> AcceptableIn(s, Written)
<1>1. run \subseteq Seqs /\ Written \subseteq run /\ s \in Nat
      /\ \A t \in run : t \in Nat
  BY Bounds, SeqsAreNats DEF IInv, Written
<1>2. ASSUME NEW t \in run, t < s, kind[t] = "create", \A u \in stored : kind[u] # "create"
      PROVE  \E u \in Written : u < s /\ kind[u] = "create"
  <2> DEFINE C == {e \in run : kind[e] = "create"}
  <2>1. PICK c \in C : \A y \in C : ~ y < c
    BY <1>1, <1>2, FirstOf
  <2>2. c \in Nat /\ c <= t /\ t \in Nat
    BY <1>1, <1>2, <2>1
  <2>3. Accepts(c)
    BY <1>2, <2>1 DEF Accepts
  <2>4. c \in Written
    BY <2>1, <2>3 DEF Written
  <2> QED
    BY <1>1, <1>2, <2>1, <2>2, <2>4
<1> DEFINE before == \E t \in stored \cup {e \in run : e < s} : kind[t] = "create"
           written == \E t \in stored \cup {e \in Written : e < s} : kind[t] = "create"
<1>3. before <=> written
  BY <1>1, <1>2
<1>4. Accepts(s) <=> /\ kind[s] = "create" => ~ before
                     /\ kind[s] = "read" => before
  BY DEF Accepts
<1>5. AcceptableIn(s, Written) <=> /\ kind[s] = "create" => ~ written
                                   /\ kind[s] = "read" => written
  BY DEF AcceptableIn
<1> QED
  BY <1>3, <1>4, <1>5

\* An execution that the serial store could have done too.
SoundOf(v, E) ==
    /\ ExecutedOf(v, E)
    /\ \A s \in run : /\ v[s] = "ok" /\ kind[s] = "read" => AcceptableIn(s, E)
                      /\ v[s] = "rejected" => ~ AcceptableIn(s, E)
    /\ \A s \in E : kind[s] # "read" /\ AcceptableIn(s, E)

\* What a transaction wrote, all or nothing, was acceptable in its order.
LEMMA WrittenIsSound ==
    ASSUME IInv, NEW E \in {{}, Written}
    PROVE  /\ E \subseteq run
           /\ \A s \in E : kind[s] # "read" /\ AcceptableIn(s, E)
  BY AcceptsIs DEF Written

\* The files' executor has nothing to reject.
LEMMA FilesAccept ==
    ASSUME IInv, executor = "files", NEW E, NEW s \in run, pc = "executing"
    PROVE  kind[s] # "read" /\ AcceptableIn(s, E)
<1>1. InHand(s) /\ s \in Seqs
  BY Bounds DEF IInv, Stages
<1>2. Budgeted(s)
  BY <1>1 DEF InHand
<1>3. kind[s] \in Offered
  BY <1>1, <1>2 DEF IInv, Numbered
<1>4. kind[s] \in {"put", "snapshot"}
  BY <1>3 DEF Offered
<1> QED
  BY <1>4 DEF AcceptableIn

\* However an execution ends, its verdicts are justified by what it wrote.
LEMMA ExecuteIsSound ==
    ASSUME IInv, Execute
    PROVE  \E v, E : SoundOf(v, E)
<1>1. CASE Committed
  <2> DEFINE v == [s \in run |-> IF Accepts(s) THEN "ok" ELSE "rejected"]
  <2>1. /\ Written \subseteq run
        /\ \A s \in run : /\ v[s] \in Results
                          /\ v[s] = "ok" => s \in Written \/ kind[s] = "read"
                          /\ v[s] \in {"failed", "rejected"} => s \notin Written
                          /\ v[s] = "rejected" => kind[s] \in {"create", "read"}
    BY DEF Written, Results, Accepts
  <2>2. Executed(v, Written)
    BY <1>1 DEF Committed
  <2>3. ExecutedOf(v, Written)
    BY <2>1, <2>2 DEF ExecutedOf
  <2>4. \A s \in run : /\ v[s] = "ok" /\ kind[s] = "read" => AcceptableIn(s, Written)
                       /\ v[s] = "rejected" => ~ AcceptableIn(s, Written)
    BY AcceptsIs
  <2>5. \A s \in Written : kind[s] # "read" /\ AcceptableIn(s, Written)
    BY WrittenIsSound
  <2>6. SoundOf(v, Written)
    BY <2>3, <2>4, <2>5 DEF SoundOf
  <2> QED
    BY <2>6
<1>2. CASE NotCommitted
  <2>1. \A s \in run : All("failed")[s] = "failed"
    BY DEF All
  <2>2. SoundOf(All("failed"), {})
    BY <1>2, <2>1 DEF NotCommitted, ExecutedOf, SoundOf, Results
  <2> QED
    BY <2>2
<1>3. CASE CommitUnknown
  <2>1. \A s \in run : All("unknown")[s] = "unknown"
    BY DEF All
  <2>2. PICK E \in {{}, Written} : Executed(All("unknown"), E)
    BY <1>3 DEF CommitUnknown
  <2>3. SoundOf(All("unknown"), E)
    BY <2>1, <2>2, WrittenIsSound DEF ExecutedOf, SoundOf, Results
  <2> QED
    BY <2>3
<1>4. CASE EachFinished
  <2>1. PICK v \in [run -> {"ok", "failed", "unknown"}] :
             \E E \in SUBSET {s \in run : v[s] = "unknown"} :
                 Executed(v, E \cup {s \in run : v[s] = "ok"})
    BY <1>4 DEF EachFinished
  <2>2. PICK E \in SUBSET {s \in run : v[s] = "unknown"} :
             Executed(v, E \cup {s \in run : v[s] = "ok"})
    BY <2>1
  <2> DEFINE F == E \cup {s \in run : v[s] = "ok"}
  <2>3. /\ F \subseteq run
        /\ \A s \in run : /\ v[s] \in Results \ {"rejected"}
                          /\ v[s] = "ok" => s \in F
                          /\ v[s] \in {"failed", "rejected"} => s \notin F
    BY DEF Results
  <2>4. ExecutedOf(v, F)
    BY <2>2, <2>3 DEF ExecutedOf
  <2>5. \A s \in run : kind[s] # "read" /\ AcceptableIn(s, F)
    <3>1. executor = "files" /\ pc = "executing"
      BY <1>4 DEF EachFinished, Executed
    <3> QED
      BY <3>1, FilesAccept
  <2>6. SoundOf(v, F)
    BY <2>3, <2>4, <2>5 DEF SoundOf
  <2> QED
    BY <2>6
<1>5. CASE ExecutorPanics
  <2>1. \A s \in run : All("lost")[s] = "lost"
    BY DEF All
  <2>2. PICK E \in IF executor = "files" THEN SUBSET run ELSE {{}, Written} :
             Executed(All("lost"), E)
    BY <1>5 DEF ExecutorPanics
  <2>3. E \subseteq run /\ \A s \in E : kind[s] # "read" /\ AcceptableIn(s, E)
    <3>1. CASE executor = "files"
      <4>1. E \subseteq run /\ pc = "executing"
        BY <2>2, <3>1 DEF Executed
      <4> QED
        BY <3>1, <4>1, FilesAccept
    <3>2. CASE executor # "files"
      BY <2>2, <3>2, WrittenIsSound
    <3> QED
      BY <3>1, <3>2
  <2>4. SoundOf(All("lost"), E)
    BY <2>1, <2>2, <2>3 DEF ExecutedOf, SoundOf, Results
  <2> QED
    BY <2>4
<1> QED
  BY <1>1, <1>2, <1>3, <1>4, <1>5 DEF Execute

\* Such an execution decides the requests of the run.
LEMMA ExecutedDecides ==
    ASSUME IInv, NEW v, NEW E, SoundOf(v, E)
    PROVE  DecideOf(E)
<1>1. /\ ExecutedOf(v, E) /\ pc = "executing"
      /\ stored' = stored \cup E /\ E \subseteq run /\ run \subseteq Seqs
      /\ UNCHANGED <<kind, answer>>
  BY Bounds DEF SoundOf, ExecutedOf, Executed, requests, slots, IInv
<1>2. /\ \A s \in run : verdict'[s] = v[s] /\ v[s] \in Results
      /\ \A s \in Seqs \ run : verdict'[s] = verdict[s]
  <2>1. /\ verdict' = [s \in Seqs |-> IF s \in run THEN v[s] ELSE verdict[s]]
        /\ \A s \in run : v[s] \in Results
    BY DEF SoundOf, ExecutedOf, Executed
  <2> QED
    BY <1>1, <2>1
<1>3. \A s \in run : /\ verdict[s] = "none" /\ Budgeted(s)
                     /\ v[s] # "none"
                     /\ \A t \in stored : t < s
                     /\ kind[s] = "read" => run = {s} /\ links = {}
  <2>1. \A s \in run : InHand(s)
    BY DEF IInv, Stages
  <2> QED
    BY <1>1, <1>2, <2>1 DEF InHand, Results
<1>4. ASSUME NEW s \in run, kind[s] = "read", NEW t \in Seqs, t < s, Budgeted(t)
      PROVE  verdict[t] # "none"
  <2>1. t \in 1..taken /\ t \notin run \cup links
    <3>1. s \in 1..taken /\ taken \in Nat /\ t \in Nat /\ t > 0
      BY Bounds, SeqsAreNats DEF IInv
    <3>2. t \notin run \cup links
      BY <1>3, <1>4, <3>1
    <3> QED
      BY <1>4, <3>1, <3>2
  <2>2. verdict[t] \in Results
    BY <1>4, <2>1 DEF IInv, Stages, Over
  <2> QED
    BY <2>2 DEF Results
<1>5. ASSUME NEW s \in Seqs, verdict'[s] # verdict[s]
      PROVE  /\ verdict[s] = "none" /\ Budgeted(s)
             /\ verdict'[s] = "ok" =>
                   \/ s \in E
                   \/ kind[s] = "read" /\ AcceptableIn(s, E)
             /\ verdict'[s] = "rejected" => ~ AcceptableIn(s, E)
             /\ verdict'[s] \in {"rejected", "failed"} => s \notin E
             /\ kind[s] = "read" /\ verdict'[s] \in {"ok", "rejected"} =>
                   \A t \in Seqs : t < s /\ Budgeted(t) => verdict[t] # "none"
  <2>1. s \in run /\ verdict'[s] = v[s]
    BY <1>2, <1>5
  <2> QED
    BY <1>1, <1>3, <1>4, <2>1 DEF SoundOf, ExecutedOf
<1>6. \A s \in E : /\ verdict'[s] # verdict[s]
                   /\ kind[s] # "read" /\ AcceptableIn(s, E)
                   /\ \A t \in stored : t < s
  BY <1>1, <1>2, <1>3 DEF SoundOf
<1> QED
  BY <1>1, <1>5, <1>6 DEF DecideOf

\* A result that goes to its request decides it for those it superseded.
LEMMA FinishDecides ==
    ASSUME IInv, NEW s, NEW v, FinishOf(s, v)
    PROVE  DecideOf({})
<1> DEFINE T == Told(s)
<1>1. /\ s \in run /\ s \in Seqs /\ T \subseteq Seqs /\ T \subseteq run \cup links
      /\ \A t \in T : verdict'[t] = v
      /\ \A t \in Seqs \ T : verdict'[t] = verdict[t] /\ answer'[t] = answer[t]
      /\ \A t \in T : InHand(t) /\ Budgeted(t)
      /\ UNCHANGED <<kind, stored>>
  BY FinishFacts, Bounds DEF requests, IInv
<1>2. \A t \in T : t = s \/ (t \in links /\ kind[s] = "snapshot" /\ kind[t] = "snapshot" /\ t < s)
  <2>1. \A t \in T : t # s => t \in links /\ kind[s] = "snapshot"
    BY DEF Told
  <2>2. alive
    BY FinishFacts
  <2> QED
    BY <1>1, <2>1, <2>2 DEF IInv, HandFits
<1>3. ASSUME NEW t \in Seqs, verdict'[t] # verdict[t]
      PROVE  /\ verdict[t] = "none" /\ Budgeted(t)
             /\ verdict'[t] = "ok" =>
                   kind[t] = "snapshot" /\ \E u \in stored : kind[u] = "snapshot" /\ t < u
             /\ verdict'[t] # "rejected"
             /\ kind[t] = "read" => verdict'[t] = "failed"
  <2>1. t \in T /\ verdict'[t] = v
    BY <1>1, <1>3
  <2>2. CASE t = s
    <3>1. pc = "executing" /\ v = "failed"
      BY <1>3, <2>1, <2>2 DEF FinishOf
    <3> QED
      BY <1>1, <2>1, <2>2, <3>1 DEF InHand
  <2>3. CASE t # s
    <3>1. t \in links /\ kind[s] = "snapshot" /\ kind[t] = "snapshot" /\ t < s
      BY <1>2, <2>1, <2>3
    <3>2. verdict[t] = "none"
      BY <1>1, <2>1, <3>1 DEF InHand
    <3>3. v = "failed" \/ v = verdict[s]
      BY DEF FinishOf
    <3>4. v # "rejected"
      BY <1>1, <3>1, <3>3 DEF IInv, Effects
    <3>5. v = "ok" => \E u \in stored : kind[u] = "snapshot" /\ t < u
      <4>1. v = "ok" => TookEffect(s)
        BY <1>1, <3>3 DEF IInv, Effects
      <4>2. \A u \in stored : u \in Nat /\ t \in Nat /\ s \in Nat
        BY <1>1, Bounds, SeqsAreNats DEF IInv
      <4> QED
        BY <3>1, <4>1, <4>2 DEF TookEffect
    <3> QED
      BY <1>1, <2>1, <3>1, <3>2, <3>4, <3>5
  <2> QED
    BY <2>2, <2>3
<1>4. \A t \in Seqs : answer'[t] # answer[t] => answer[t] = "none"
  BY <1>1 DEF InHand
<1>5. stored' = stored \cup {}
  BY <1>1
<1> QED
  BY <1>1, <1>3, <1>4, <1>5 DEF DecideOf

\* Nothing is decided for the lost but that they are lost.
LEMMA LosingDecides ==
    ASSUME IInv, UNCHANGED <<kind, stored>>,
           \A s \in Seqs : verdict'[s] # verdict[s] =>
               verdict[s] = "none" /\ Budgeted(s) /\ verdict'[s] = "lost",
           \A s \in Seqs : answer'[s] # answer[s] => answer[s] = "none"
    PROVE  DecideOf({})
  BY DEF DecideOf

-----------------------------------------------------------------------------
(* Every step.                                                             *)

\* The writer starts as the serial store does.
LEMMA InitRefines == Init => Serial!Init
  BY DEF Init, Serial!Init, Asked, Answered

\* A request of a caller is one the serial store is asked for.
LEMMA SubmitAsks ==
    ASSUME IInv, NEW k \in Offered, NEW first, Submit(k, first)
    PROVE  Serial!Next
<1> DEFINE s == next + 1
<1>1. /\ s \in Seqs /\ next \in Nat /\ k \in Serial!Kinds /\ k # "flush"
      /\ kind' = [kind EXCEPT ![s] = k]
      /\ UNCHANGED <<stored, verdict, answer>>
  BY Bounds, SeqsAreNats DEF IInv, Submit, Push, worker, Seqs, Offered, Serial!Kinds
<1>2. ASSUME NEW t \in Seqs, t >= s PROVE Asked[t] = "none" /\ answer[t] = "none"
  <2>1. t > next /\ t > taken
    BY <1>1, <1>2, Bounds, SeqsAreNats DEF IInv
  <2>2. kind[t] = "none" /\ InQueue(t)
    BY <2>1 DEF IInv, Numbered, Stages
  <2> QED
    BY <2>2, AskedIs DEF InQueue
<1>3. Asked' = [Asked EXCEPT ![s] = k]
  <2>1. \A t \in Seqs : kind'[t] = IF t = s THEN k ELSE kind[t]
    BY <1>1 DEF IInv, TypeOK
  <2> QED
    BY <1>1, <2>1 DEF Asked
<1>4. Answered' = Answered
  <2>1. \A t \in Seqs : kind'[t] = IF t = s THEN k ELSE kind[t]
    BY <1>1 DEF IInv, TypeOK
  <2>2. kind[s] = "none" /\ answer[s] = "none"
    <3>1. s >= s
      BY <1>1
    <3>2. s > next /\ answer[s] = "none"
      BY <1>1, <1>2, <3>1
    <3> QED
      BY <1>1, <3>2 DEF IInv, Numbered
  <2> QED
    BY <1>1, <2>1, <2>2 DEF Answered
<1>5. Serial!Ask(s, k)
  BY <1>1, <1>2, <1>3, <1>4 DEF Serial!Ask
<1> QED
  BY <1>1, <1>5 DEF Serial!Next

\* What the serial store does not see.
LEMMA Unseen ==
    ASSUME UNCHANGED <<stored, verdict>>,
           \A s \in Seqs : \/ kind'[s] = kind[s] /\ answer'[s] = answer[s]
                           \/ kind[s] \in {"none", "flush"} /\ kind'[s] = "flush" /\ answer[s] = "none"
                           \/ kind[s] = "flush" /\ kind'[s] = "flush"
    PROVE  UNCHANGED Serial!vars
<1>1. \A s \in Seqs :
         /\ (IF kind'[s] = "flush" THEN "none" ELSE kind'[s])
            = (IF kind[s] = "flush" THEN "none" ELSE kind[s])
         /\ (IF kind'[s] = "flush" THEN "none" ELSE answer'[s])
            = (IF kind[s] = "flush" THEN "none" ELSE answer[s])
  OBVIOUS
<1>2. Asked' = Asked /\ Answered' = Answered
  BY <1>1 DEF Asked, Answered
<1> QED
  BY <1>2 DEF Serial!vars

\* The push of a flush.
LEMMA FlushUnseen ==
    ASSUME IInv, next + 1 <= MaxSeq, Push(next + 1, "flush"),
           UNCHANGED <<stored, verdict, answer>>
    PROVE  UNCHANGED Serial!vars
<1>1. next + 1 \in Seqs /\ next \in Nat
  BY Bounds, SeqsAreNats DEF IInv, Seqs
<1>2. kind[next + 1] = "none" /\ answer[next + 1] = "none"
  <2>1. next + 1 > next /\ next + 1 > taken
    BY <1>1, Bounds DEF IInv
  <2> QED
    BY <1>1, <2>1 DEF IInv, Numbered, Stages, InQueue
<1>3. \A s \in Seqs : IF s = next + 1 THEN kind'[s] = "flush" ELSE kind'[s] = kind[s]
  BY <1>1 DEF Push, IInv, TypeOK
<1> QED
  BY <1>2, <1>3, Unseen

\* Every step of the writer is a step of the serial store, or none of it.
LEMMA NextRefines ==
    ASSUME IInv, IInv', [Next]_vars
    PROVE  [Serial!Next]_(Serial!vars)
<1>1. CASE UNCHANGED vars
  BY <1>1, Unseen DEF vars, requests, slots, worker
<1>2. CASE CutFlush
  <2> DEFINE s == taken + 1
  <2>1. s \in Seqs /\ kind[s] = "flush" /\ UNCHANGED <<kind, stored, verdict>>
    BY <1>2, Bounds, SeqsAreNats DEF CutFlush, IInv, Seqs, requests
  <2>2. \A t \in Seqs \ {s} : answer'[t] = answer[t]
    BY <1>2 DEF CutFlush, Complete
  <2>3. UNCHANGED Serial!vars
    BY <2>1, <2>2, Unseen
  <2> QED
    BY <2>3
<1>3. ASSUME NEW n \in Queued, CutBatch(n) PROVE UNCHANGED Serial!vars
  BY <1>3, Unseen DEF CutBatch, requests, slots
<1>4. CASE Execute
  <2>1. PICK v, E : SoundOf(v, E)
    BY <1>4, ExecuteIsSound
  <2> QED
    BY <2>1, ExecutedDecides, DecideStep DEF Serial!Next
<1>5. ASSUME NEW s \in run, Poisoned(s) \/ Settle(s) PROVE Serial!Decide
  <2>1. \E v : FinishOf(s, v)
    BY <1>5 DEF Poisoned, Settle, FinishOf
  <2> QED
    BY <2>1, FinishDecides, DecideStep
<1>6. ASSUME NEW s \in run, DropTicket(s) PROVE Serial!Decide
  <2>1. UNCHANGED <<kind, stored, verdict>> /\ \A t \in Seqs \ {s} : answer'[t] = answer[t]
    BY <1>6 DEF DropTicket, Complete, requests
  <2>2. answer[s] = "none"
    BY DEF IInv, Stages, InHand
  <2> QED
    BY <2>1, <2>2, LosingDecides, DecideStep
<1>7. CASE Leave \/ WorkerPanics
  BY <1>7, Unseen DEF Leave, WorkerPanics, ToExit, requests, slots
<1>8. CASE ExitGuard
  <2>1. UNCHANGED <<kind, stored, answer>>
    BY <1>8 DEF ExitGuard, requests, slots
  <2>2. ASSUME NEW s \in Seqs, verdict'[s] # verdict[s]
        PROVE  verdict[s] = "none" /\ Budgeted(s) /\ verdict'[s] = "lost"
    <3>1. s \in Queued /\ Budgeted(s) /\ verdict'[s] = "lost"
      BY <1>8, <2>2 DEF ExitGuard
    <3>2. s > taken
      BY <3>1, Bounds DEF Queued, IInv
    <3> QED
      BY <3>1, <3>2 DEF IInv, Stages, InQueue
  <2> QED
    BY <2>1, <2>2, LosingDecides, DecideStep DEF Serial!Next
<1>9. CASE SubmitNew
  BY <1>9, SubmitAsks DEF SubmitNew
<1>10. ASSUME NEW s \in Seqs, Resubmit(s) PROVE Serial!Next
  <2>1. "put" \in Offered
    BY <1>10 DEF Resubmit, Offered
  <2> QED
    BY <1>10, <2>1, SubmitAsks DEF Resubmit
<1>11. ASSUME NEW s \in Seqs, TakeResult(s) \/ Abandon(s) PROVE UNCHANGED Serial!vars
  BY <1>11, Unseen DEF TakeResult, Abandon, requests, worker
<1>12. ASSUME NEW from \in {0} \cup Seqs, Flush(from) PROVE UNCHANGED Serial!vars
  <2>1. next + 1 <= MaxSeq
    BY <1>12, Bounds, SeqsAreNats DEF Flush, IInv
  <2> QED
    BY <1>12, <2>1, FlushUnseen DEF Flush, worker
<1>13. CASE BeginShutdown
  <2>1. UNCHANGED <<stored, verdict, answer>>
    BY <1>13 DEF BeginShutdown, worker
  <2>2. CASE alive
    <3>1. Push(next + 1, "flush") /\ next + 1 <= MaxSeq
      BY <1>13, <2>2, Bounds, SeqsAreNats DEF BeginShutdown, IInv, Numbered
    <3> QED
      BY <2>1, <3>1, FlushUnseen
  <2>3. CASE ~ alive
    <3>1. kind' = kind
      BY <1>13, <2>3 DEF BeginShutdown
    <3> QED
      BY <2>1, <3>1, Unseen
  <2> QED
    BY <2>2, <2>3
<1>14. CASE Join
  BY <1>14, Unseen DEF Join, requests, worker
<1> QED
  BY <1>1, <1>2, <1>3, <1>4, <1>5, <1>6, <1>7, <1>8, <1>9, <1>10, <1>11, <1>12, <1>13,
     <1>14 DEF Next, WorkerStep, CallerStep, Serial!Next

\* The batch writer implements the serial store (batch_writer.rs, writer.rs).
THEOREM Refinement == Spec => SerialSpec
<1>1. IInv /\ IInv' /\ [Next]_vars => [Serial!Next]_(Serial!vars)
  BY NextRefines
<1> QED
  BY <1>1, InitRefines, Invariant, PTL DEF Spec, SerialSpec, Serial!Spec

-----------------------------------------------------------------------------
(* The budget.                                                             *)

\* What the slots S hold, one pair for each byte.
BytesIn(S, f) == UNION {{s} \X (1..f[s]) : s \in S}

LEMMA SlotsAreFinite == ASSUME NEW S \in SUBSET Seqs PROVE IsFiniteSet(S) /\ Cardinality(S) \in Nat
<1>1. IsFiniteSet(1..MaxSeq) /\ S \in SUBSET (1..MaxSeq)
  BY SeqsAreNats, FS_Interval DEF Seqs
<1> QED
  BY <1>1, FS_Subset, FS_CardinalityType

LEMMA OneSlotHolds ==
    ASSUME NEW s, NEW n \in Nat
    PROVE  IsFiniteSet({s} \X (1..n)) /\ Cardinality({s} \X (1..n)) = n
<1>1. IsFiniteSet({s}) /\ Cardinality({s}) = 1
  BY FS_Singleton
<1>2. IsFiniteSet(1..n) /\ Cardinality(1..n) = n
  <2>1. 1 \in Int /\ n \in Int
    OBVIOUS
  <2>2. IsFiniteSet(1..n) /\ Cardinality(1..n) = IF 1 > n THEN 0 ELSE n - 1 + 1
    BY <2>1, FS_Interval
  <2> QED
    BY <2>2
<1>3. /\ IsFiniteSet({s} \X (1..n))
      /\ Cardinality({s} \X (1..n)) = Cardinality({s}) * Cardinality(1..n)
  BY <1>1, <1>2, FS_Product
<1> QED
  BY <1>1, <1>2, <1>3

LEMMA BytesAreFinite ==
    ASSUME NEW S \in SUBSET Seqs, NEW f \in [Seqs -> Nat]
    PROVE  IsFiniteSet(BytesIn(S, f)) /\ BytesOf(S, f) = Cardinality(BytesIn(S, f)) /\ BytesOf(S, f) \in Nat
<1> DEFINE P == {{s} \X (1..f[s]) : s \in S}
<1>1. IsFiniteSet(P)
  <2>1. IsFiniteSet(S)
    BY SlotsAreFinite
  <2> QED
    <3> DEFINE h == [s \in S |-> {s} \X (1..f[s])]
    <3>1. h \in Surjection(S, P)
      BY DEF Surjection
    <3> HIDE DEF h, P
    <3> QED
      BY <2>1, <3>1, FS_Surjection
<1>2. \A T \in P : IsFiniteSet(T)
  <2> TAKE T \in P
  <2>1. PICK s \in S : T = {s} \X (1..f[s])
    OBVIOUS
  <2>2. f[s] \in Nat
    OBVIOUS
  <2> QED
    BY <2>1, <2>2, OneSlotHolds
<1> HIDE DEF P
<1>3. IsFiniteSet(UNION P)
  BY <1>1, <1>2, FS_UNION
<1>4. IsFiniteSet(BytesIn(S, f)) /\ BytesOf(S, f) = Cardinality(BytesIn(S, f))
  BY <1>3 DEF P, BytesIn, BytesOf
<1> QED
  BY <1>4, FS_CardinalityType

LEMMA BytesOfOne == ASSUME NEW s \in Seqs, NEW f \in [Seqs -> Nat] PROVE BytesOf({s}, f) = f[s]
<1>1. UNION {{t} \X (1..f[t]) : t \in {s}} = {s} \X (1..f[s])
  OBVIOUS
<1>2. f[s] \in Nat
  OBVIOUS
<1> QED
  BY <1>1, <1>2, OneSlotHolds DEF BytesOf

\* Two sets of slots hold together what each of them holds.
LEMMA BytesOfBoth ==
    ASSUME NEW S \in SUBSET Seqs, NEW T \in SUBSET Seqs, S \cap T = {}, NEW f \in [Seqs -> Nat]
    PROVE  BytesOf(S \cup T, f) = BytesOf(S, f) + BytesOf(T, f)
<1>1. BytesIn(S \cup T, f) = BytesIn(S, f) \cup BytesIn(T, f)
  BY DEF BytesIn
<1>2. BytesIn(S, f) \cap BytesIn(T, f) = {}
  <2>1. ASSUME NEW p \in BytesIn(S, f), p \in BytesIn(T, f) PROVE FALSE
    <3>1. PICK s \in S : p \in {s} \X (1..f[s])
      BY DEF BytesIn
    <3>2. PICK t \in T : p \in {t} \X (1..f[t])
      BY <2>1 DEF BytesIn
    <3> QED
      BY <3>1, <3>2
  <2> QED
    BY <2>1
<1>3. IsFiniteSet(BytesIn(S, f)) /\ IsFiniteSet(BytesIn(T, f))
  BY BytesAreFinite
<1>4. /\ Cardinality(BytesIn(S, f) \cup BytesIn(T, f)) =
          Cardinality(BytesIn(S, f)) + Cardinality(BytesIn(T, f)) - Cardinality(BytesIn(S, f) \cap BytesIn(T, f))
  BY <1>3, FS_Union
<1>5. Cardinality(BytesIn(S, f) \cap BytesIn(T, f)) = 0
  BY <1>2, FS_EmptySet
<1>6. (S \cup T) \in SUBSET Seqs
  OBVIOUS
<1>7. /\ BytesOf(S \cup T, f) = Cardinality(BytesIn(S \cup T, f))
      /\ BytesOf(S, f) = Cardinality(BytesIn(S, f)) /\ BytesOf(S, f) \in Nat
      /\ BytesOf(T, f) = Cardinality(BytesIn(T, f)) /\ BytesOf(T, f) \in Nat
  BY <1>6, BytesAreFinite
<1>8. BytesOf(S \cup T, f) = Cardinality(BytesIn(S, f) \cup BytesIn(T, f))
  BY <1>1, <1>7
<1>9. BytesOf(S \cup T, f) = BytesOf(S, f) + BytesOf(T, f) - 0
  BY <1>4, <1>5, <1>7, <1>8
<1> QED
  BY <1>7, <1>9

\* Only the slots of S count.
LEMMA BytesOfSame ==
    ASSUME NEW S \in SUBSET Seqs, NEW f, NEW g, \A s \in S : f[s] = g[s]
    PROVE  BytesOf(S, f) = BytesOf(S, g)
<1>1. {{s} \X (1..f[s]) : s \in S} = {{s} \X (1..g[s]) : s \in S}
  OBVIOUS
<1> QED
  BY <1>1 DEF BytesOf

LEMMA BytesOfNone ==
    ASSUME NEW S \in SUBSET Seqs, NEW f, \A s \in S : f[s] = 0
    PROVE  BytesOf(S, f) = 0
<1>1. UNION {{s} \X (1..f[s]) : s \in S} = {}
  <2>1. \A s \in S : {s} \X (1..f[s]) = {}
    <3>1. 1..0 = {}
      OBVIOUS
    <3> QED
      BY <3>1
  <2> QED
    BY <2>1
<1> QED
  BY <1>1, FS_EmptySet DEF BytesOf

\* When the slots of S change what they hold, the whole changes by as much.
LEMMA Recounted ==
    ASSUME NEW S \in SUBSET Seqs, NEW f \in [Seqs -> Nat], NEW g \in [Seqs -> Nat],
           \A s \in Seqs \ S : g[s] = f[s]
    PROVE  /\ BytesOf(Seqs, g) = BytesOf(Seqs, f) - BytesOf(S, f) + BytesOf(S, g)
           /\ BytesOf(Seqs, f) \in Nat /\ BytesOf(S, f) \in Nat /\ BytesOf(S, g) \in Nat
<1> DEFINE R == Seqs \ S
<1>1. R \in SUBSET Seqs /\ Seqs \in SUBSET Seqs /\ S \cup R = Seqs /\ S \cap R = {} /\ \A s \in R : g[s] = f[s]
  OBVIOUS
<1> HIDE DEF R
<1>2. BytesOf(S \cup R, f) = BytesOf(S, f) + BytesOf(R, f)
  BY <1>1, BytesOfBoth
<1>3. BytesOf(S \cup R, g) = BytesOf(S, g) + BytesOf(R, g)
  BY <1>1, BytesOfBoth
<1>4. BytesOf(R, g) = BytesOf(R, f)
  BY <1>1, BytesOfSame
<1>5. BytesOf(Seqs, f) \in Nat /\ BytesOf(S, f) \in Nat /\ BytesOf(S, g) \in Nat /\ BytesOf(R, f) \in Nat
  BY <1>1, BytesAreFinite
<1> QED
  BY <1>1, <1>2, <1>3, <1>4, <1>5

\* The counters count what is held, and only what is in the budget holds bytes:
\* a flush, a slot that was taken and one not yet used hold none.
Charged ==
    /\ BudgetAddsUp
    /\ \A s \in Seqs : size[s] # 0 => s \in Held

LEMMA HeldAreSlots == Held \in SUBSET Seqs
  BY DEF Held

\* The bytes of a set of slots are those of the slots in the budget among them.
LEMMA ChargedBytes ==
    ASSUME TypeOK, Charged, NEW S \in SUBSET Seqs
    PROVE  BytesOf(S \cap Held, size) = BytesOf(S, size)
<1>1. size \in [Seqs -> Nat]
  BY DEF TypeOK
<1> DEFINE R == S \cap Held
           Q == S \ Held
<1>2. R \in SUBSET Seqs /\ Q \in SUBSET Seqs /\ R \cap Q = {} /\ R \cup Q = S
  OBVIOUS
<1>3. \A s \in Q : size[s] = 0
  BY DEF Charged
<1>4. R = S \cap Held
  OBVIOUS
<1> HIDE DEF R, Q
<1>5. BytesOf(R \cup Q, size) = BytesOf(R, size) + BytesOf(Q, size)
  BY <1>1, <1>2, BytesOfBoth
<1>6. BytesOf(Q, size) = 0 /\ BytesOf(R, size) \in Nat
  BY <1>1, <1>2, <1>3, BytesOfNone, BytesAreFinite
<1> QED
  BY <1>2, <1>4, <1>5, <1>6

LEMMA AllCharged ==
    ASSUME TypeOK, Charged
    PROVE  bytes = BytesOf(Seqs, size)
<1>1. Seqs \cap Held = Held
  BY HeldAreSlots
<1>2. BytesOf(Seqs \cap Held, size) = BytesOf(Seqs, size)
  BY ChargedBytes
<1> QED
  BY <1>1, <1>2 DEF Charged, BudgetAddsUp

\* A step that gives back the budget of the slots G and leaves the slots S, which
\* hold now what their results need, is charged for those.
LEMMA StaysCharged ==
    ASSUME TypeOK, TypeOK', Charged, NEW S \in SUBSET Seqs, NEW G \in SUBSET Held,
           Held' = Held \ G,
           \A s \in Seqs \ S : size'[s] = size[s],
           \A s \in Seqs : size'[s] # 0 => s \in Held',
           items' = items - Cardinality(G),
           bytes' = bytes - BytesOf(S, size) + BytesOf(S, size')
    PROVE  Charged'
<1>1. size \in [Seqs -> Nat] /\ size' \in [Seqs -> Nat]
  BY DEF TypeOK
<1>2. bytes' = BytesOf(Seqs, size')
  <2>1. /\ BytesOf(Seqs, size') = BytesOf(Seqs, size) - BytesOf(S, size) + BytesOf(S, size')
        /\ BytesOf(Seqs, size) \in Nat /\ BytesOf(S, size) \in Nat /\ BytesOf(S, size') \in Nat
    BY <1>1, Recounted
  <2> QED
    BY <2>1, AllCharged
<1>3. BytesOf(Seqs, size') = BytesOf(Held', size')
  <2> DEFINE H == Held'
             R == Seqs \ H
  <2>1. H \in SUBSET Seqs /\ R \in SUBSET Seqs /\ H \cap R = {} /\ H \cup R = Seqs
    BY DEF Held
  <2>2. \A s \in R : size'[s] = 0
    OBVIOUS
  <2> HIDE DEF H, R
  <2>3. BytesOf(H \cup R, size') = BytesOf(H, size') + BytesOf(R, size')
    BY <1>1, <2>1, BytesOfBoth
  <2>4. BytesOf(R, size') = 0 /\ BytesOf(H, size') \in Nat
    BY <1>1, <2>1, <2>2, BytesOfNone, BytesAreFinite
  <2>5. BytesOf(Seqs, size') = BytesOf(H, size')
    <3>1. BytesOf(Seqs, size') = BytesOf(H \cup R, size')
      BY <2>1, Zenon
    <3> QED
      BY <2>3, <2>4, <3>1
  <2> QED
    BY <2>5 DEF H
<1>4. items' = Cardinality(Held') /\ items' <= QueueItems
  <2>1. IsFiniteSet(Held) /\ Cardinality(Held) \in Nat
    BY HeldAreSlots, SlotsAreFinite
  <2>2. Cardinality(Held \ G) = Cardinality(Held) - Cardinality(Held \cap G) /\ Held \cap G = G
    BY <2>1, FS_Difference
  <2>3. Cardinality(G) \in Nat
    BY <2>1, FS_Subset, FS_CardinalityType
  <2>4. QueueItems \in Nat /\ items = Cardinality(Held) /\ items <= QueueItems
    BY BatchWriterAssumption DEF Charged, BudgetAddsUp
  <2>5. Cardinality(Held \ G) = Cardinality(Held) - Cardinality(G)
    BY <2>2
  <2>6. Cardinality(Held') = Cardinality(Held) - Cardinality(G)
    BY <2>5, Zenon
  <2> QED
    BY <2>1, <2>3, <2>4, <2>6
<1>5. BytesOf(Held', size') = BytesOf(Held, size)'
  OBVIOUS
<1> QED
  BY <1>2, <1>3, <1>4, <1>5 DEF Charged, BudgetAddsUp

\* A step that touches no slot of the budget.
LEMMA UntouchedCharged ==
    ASSUME Charged, Held' = Held, UNCHANGED <<size, items, bytes>>
    PROVE  Charged'
  BY DEF Charged, BudgetAddsUp

\* A slot that is none yet is not in the budget.
LEMMA UnusedHoldsNothing ==
    ASSUME IInv, Charged, NEW s \in Seqs, s > next
    PROVE  kind[s] = "none" /\ s \notin Held /\ size[s] = 0
  BY DEF IInv, Numbered, Held, Budgeted, Kinds, Charged

\* An admitted request is charged.
LEMMA SubmitCharges ==
    ASSUME IInv, IInv', Charged, NEW k \in Offered, NEW first, Submit(k, first)
    PROVE  Charged'
<1> DEFINE s == next + 1
<1>1. /\ s \in Seqs /\ s > next /\ k \in Kinds \ {"flush"}
  BY Bounds, SeqsAreNats DEF IInv, Submit, Seqs, Offered, Kinds
<1>t. /\ TypeOK /\ size \in [Seqs -> Nat] /\ size' \in [Seqs -> Nat]
      /\ kind \in [Seqs -> Kinds \cup {"none"}]
      /\ slot \in [Seqs -> {"none", "pending", "ready", "abandoned", "taken"}]
  BY DEF IInv, TypeOK
<1>2. kind[s] = "none" /\ s \notin Held /\ size[s] = 0
  BY <1>1, UnusedHoldsNothing
<1>3. /\ kind' = [kind EXCEPT ![s] = k] /\ slot' = [slot EXCEPT ![s] = "pending"]
      /\ size' = [size EXCEPT ![s] = ReqBytes[k]]
      /\ items < QueueItems /\ items' = items + 1 /\ bytes' = bytes + ReqBytes[k]
  BY DEF Submit, Push
<1>4. ReqBytes[k] \in Nat
  BY <1>1, BatchWriterAssumption
<1> HIDE DEF s
<1>5. Held' = Held \cup {s}
  BY <1>1, <1>2, <1>3, <1>t DEF Held, Budgeted
<1>6. items' = Cardinality(Held') /\ items' <= QueueItems
  <2>1. IsFiniteSet(Held) /\ Cardinality(Held) \in Nat
    BY HeldAreSlots, SlotsAreFinite
  <2>2. Cardinality(Held \cup {s}) = Cardinality(Held) + 1
    BY <1>2, <2>1, FS_AddElement
  <2>3. QueueItems \in Nat
    BY BatchWriterAssumption
  <2> QED
    BY <1>3, <1>5, <2>1, <2>2, <2>3 DEF Charged, BudgetAddsUp
<1>7. bytes' = BytesOf(Held', size')
  <2>1. BytesOf(Held \cup {s}, size') = BytesOf(Held, size') + BytesOf({s}, size')
    <3>1. {s} \in SUBSET Seqs /\ Held \cap {s} = {}
      BY <1>1, <1>2
    <3> QED
      BY <1>t, <3>1, HeldAreSlots, BytesOfBoth
  <2>2. BytesOf(Held, size') = BytesOf(Held, size)
    <3>1. \A r \in Held : size'[r] = size[r]
      BY <1>2, <1>3, <1>t, HeldAreSlots
    <3> QED
      BY <3>1, HeldAreSlots, BytesOfSame
  <2>3. BytesOf({s}, size') = ReqBytes[k]
    BY <1>1, <1>3, <1>t, BytesOfOne
  <2> QED
    BY <1>3, <1>5, <2>1, <2>2, <2>3 DEF Charged, BudgetAddsUp
<1>8. \A r \in Seqs : size'[r] # 0 => r \in Held'
  BY <1>1, <1>3, <1>5, <1>t DEF Charged
<1>9. BytesOf(Held', size') = BytesOf(Held, size)'
  OBVIOUS
<1> QED
  BY <1>6, <1>7, <1>8, <1>9 DEF Charged, BudgetAddsUp

\* A flush takes no budget.
LEMMA FlushesAreFree ==
    ASSUME IInv, Charged, NEW s \in Seqs, s > next, Push(s, "flush"), UNCHANGED <<size, items, bytes>>
    PROVE  Charged'
<1>1. kind[s] = "none" /\ s \notin Held
  BY UnusedHoldsNothing
<1>2. /\ kind \in [Seqs -> Kinds \cup {"none"}]
      /\ slot \in [Seqs -> {"none", "pending", "ready", "abandoned", "taken"}]
  BY DEF IInv, TypeOK
<1>3. Held' = Held
  BY <1>1, <1>2 DEF Held, Budgeted, Push
<1> QED
  BY <1>3, UntouchedCharged

\* A result taken, or a receipt dropped with a result in it, gives back the budget.
LEMMA TakingGivesBack ==
    ASSUME IInv, IInv', Charged, NEW s \in Seqs, slot[s] = "ready",
           slot' = [slot EXCEPT ![s] = "taken"], size' = [size EXCEPT ![s] = 0],
           Release({s} \cap Held), UNCHANGED kind
    PROVE  Charged'
<1>1. /\ TypeOK /\ TypeOK' /\ size \in [Seqs -> Nat] /\ size' \in [Seqs -> Nat]
      /\ slot \in [Seqs -> {"none", "pending", "ready", "abandoned", "taken"}]
  BY DEF IInv, TypeOK
<1> DEFINE S == {s}
           G == {s} \cap Held
<1>2. S \in SUBSET Seqs /\ G \in SUBSET Held
  OBVIOUS
<1>3. Held' = Held \ G
  BY <1>1 DEF Held, Budgeted
<1>4. /\ \A t \in Seqs \ S : size'[t] = size[t]
      /\ size'[s] = 0
  BY <1>1
<1>5. \A t \in Seqs : size'[t] # 0 => t \in Held'
  BY <1>1, <1>3, <1>4 DEF Charged
<1>6. BytesOf(G, size) = BytesOf(S, size) /\ BytesOf(S, size) \in Nat
  BY <1>1, <1>2, ChargedBytes, BytesAreFinite
<1>7. BytesOf(S, size') = 0
  BY <1>1, <1>4, BytesOfOne
<1>8. bytes \in Nat
  <2>1. Seqs \in SUBSET Seqs
    OBVIOUS
  <2> QED
    BY <1>1, <2>1, AllCharged, BytesAreFinite
<1>9. items' = items - Cardinality(G) /\ bytes' = bytes - BytesOf(G, size)
  BY DEF Release
<1> HIDE DEF S, G
<1>10. bytes' = bytes - BytesOf(S, size) + BytesOf(S, size')
  BY <1>6, <1>7, <1>8, <1>9
<1> QED
  BY <1>1, <1>2, <1>3, <1>4, <1>5, <1>9, <1>10, StaysCharged

\* Completion charges each result in place of its request, and gives back what a
\* request without a receipt held.
LEMMA CompletionCharges ==
    ASSUME IInv, IInv', Charged, NEW T \in SUBSET Seqs, NEW v, NEW out \in [Seqs -> Nat],
           Complete(T, v, out), UNCHANGED kind,
           \A s \in T : out[s] # 0 => Budgeted(s)
    PROVE  Charged'
<1>1. /\ TypeOK /\ TypeOK' /\ size \in [Seqs -> Nat] /\ size' \in [Seqs -> Nat]
      /\ slot \in [Seqs -> {"none", "pending", "ready", "abandoned", "taken"}]
  BY DEF IInv, TypeOK
<1> DEFINE wait == {t \in T : slot[t] = "pending"}
           gone == {t \in T : slot[t] = "abandoned"}
           S == wait \cup gone
           G == gone \cap Held
<1>2. /\ slot' = [s \in Seqs |-> IF s \in wait THEN "ready"
                                 ELSE IF s \in gone THEN "taken" ELSE slot[s]]
      /\ size' = [s \in Seqs |-> IF s \in wait THEN out[s]
                                 ELSE IF s \in gone THEN 0 ELSE size[s]]
      /\ items' = items - Cardinality(G)
      /\ bytes' = bytes - BytesOf(S, size) + BytesOf(wait, out)
  BY DEF Complete, Freed
<1>3. /\ wait \in SUBSET Seqs /\ gone \in SUBSET Seqs /\ wait \cap gone = {}
      /\ S \in SUBSET Seqs /\ G \in SUBSET Held
  OBVIOUS
<1>4. Held' = Held \ G
  <2>1. \A s \in Seqs : /\ s \in wait => slot[s] = "pending" /\ slot'[s] = "ready"
                        /\ s \in gone => slot[s] = "abandoned" /\ slot'[s] = "taken"
                        /\ s \notin S => slot'[s] = slot[s]
    BY <1>2, <1>3
  <2> HIDE DEF wait, gone
  <2> QED
    BY <2>1 DEF Held, Budgeted
<1>5. \A s \in Seqs \ S : size'[s] = size[s]
  BY <1>2
<1>6. \A s \in Seqs : size'[s] # 0 => s \in Held'
  <2> SUFFICES ASSUME NEW s \in Seqs, size'[s] # 0 PROVE s \in Held'
    OBVIOUS
  <2>1. CASE s \in wait
    <3>1. out[s] # 0 /\ s \in T
      BY <1>2, <2>1
    <3>2. Budgeted(s) /\ slot[s] = "pending"
      BY <2>1, <3>1
    <3> QED
      BY <1>2, <2>1, <3>2 DEF Held, Budgeted
  <2>2. CASE s \in gone
    BY <1>2, <1>3, <2>2
  <2>3. CASE s \notin S
    BY <1>4, <1>5, <2>3 DEF Charged
  <2> QED
    BY <2>1, <2>2, <2>3
<1>7. BytesOf(S, size') = BytesOf(wait, out)
  <2>1. /\ \A s \in wait : size'[s] = out[s]
        /\ \A s \in gone : size'[s] = 0
    BY <1>2, <1>3
  <2> HIDE DEF wait, gone
  <2>2. BytesOf(S, size') = BytesOf(wait, size') + BytesOf(gone, size')
    BY <1>1, <1>3, BytesOfBoth
  <2>3. BytesOf(wait, size') = BytesOf(wait, out) /\ BytesOf(gone, size') = 0
    BY <1>3, <2>1, BytesOfSame, BytesOfNone
  <2>4. BytesOf(wait, out) \in Nat
    BY <1>3, BytesAreFinite
  <2> QED
    BY <2>2, <2>3, <2>4
<1> HIDE DEF wait, gone, S, G
<1> QED
  BY <1>1, <1>2, <1>3, <1>4, <1>5, <1>6, <1>7, StaysCharged

LEMMA InitCharged == Init => Charged
<1> SUFFICES ASSUME Init PROVE Charged
  OBVIOUS
<1>1. Held = {}
  BY DEF Init, Held, Budgeted, Kinds
<1>2. Cardinality({}) = 0 /\ BytesOf({}, size) = 0
  <2>1. {} \in SUBSET Seqs /\ \A s \in {} : size[s] = 0
    OBVIOUS
  <2> QED
    BY <2>1, FS_EmptySet, BytesOfNone
<1>3. QueueItems \in Nat
  BY BatchWriterAssumption
<1>4. items = 0 /\ bytes = 0 /\ \A s \in Seqs : size[s] = 0
  BY DEF Init
<1> QED
  BY <1>1, <1>2, <1>3, <1>4 DEF Charged, BudgetAddsUp

LEMMA NextCharged == IInv /\ IInv' /\ Charged /\ [Next]_vars => Charged'
<1> SUFFICES ASSUME IInv, IInv', Charged, [Next]_vars PROVE Charged'
  OBVIOUS
<1>u. ASSUME UNCHANGED <<kind, slots>> PROVE Charged'
  BY <1>u, UntouchedCharged DEF slots, Held, Budgeted
<1>1. CASE UNCHANGED vars
  BY <1>1, <1>u DEF vars, requests
<1>2. CASE CutFlush
  <2> DEFINE s == taken + 1
  <2>1. s \in Seqs
    BY <1>2, Bounds, SeqsAreNats DEF CutFlush, IInv, Seqs
  <2>2. PICK v : Complete({s}, v, NoBytes)
    BY <1>2 DEF CutFlush
  <2>3. UNCHANGED kind
    BY <1>2 DEF CutFlush, requests
  <2>4. {s} \in SUBSET Seqs /\ NoBytes \in [Seqs -> Nat] /\ NoBytes[s] = 0
    BY <2>1, NoBytesType DEF NoBytes
  <2> HIDE DEF s
  <2> QED
    BY <2>2, <2>3, <2>4, CompletionCharges
<1>3. ASSUME NEW n \in Queued, CutBatch(n) PROVE Charged'
  BY <1>3, <1>u DEF CutBatch, requests
<1>4. CASE Execute
  BY <1>4, <1>u
  DEF Execute, Committed, NotCommitted, CommitUnknown, EachFinished, ExecutorPanics, Executed, requests
<1>5. ASSUME NEW s \in run, NEW v, FinishOf(s, v) PROVE Charged'
  <2>1. s \in Told(s) /\ Told(s) \in SUBSET Seqs /\ \A t \in Told(s) : Budgeted(t)
    BY <1>5, FinishFacts DEF Told
  <2>2. s \in Seqs /\ kind[s] \in Kinds
    BY <2>1 DEF Budgeted
  <2>3. PICK out \in [Seqs -> Nat] : Complete(Told(s), verdict', out)
    <3>1. Complete(Told(s), verdict', IF v = "ok" THEN [NoBytes EXCEPT ![s] = OutBytes[kind[s]]]
                                                 ELSE NoBytes)
      BY <1>5 DEF FinishOf, Finish, Told
    <3> QED
      BY <2>2, <3>1, NoBytesType
  <2>4. UNCHANGED kind
    BY <1>5, FinishFacts DEF requests
  <2> QED
    BY <2>1, <2>3, <2>4, CompletionCharges
<1>6. ASSUME NEW s \in run, Poisoned(s) \/ Settle(s) PROVE Charged'
  BY <1>5, <1>6 DEF Poisoned, Settle, FinishOf
<1>7. ASSUME NEW s \in run, DropTicket(s) PROVE Charged'
  <2>1. {s} \in SUBSET Seqs /\ NoBytes \in [Seqs -> Nat] /\ NoBytes[s] = 0
    BY Bounds, NoBytesType DEF IInv, NoBytes
  <2>2. PICK v : Complete({s}, v, NoBytes)
    BY <1>7 DEF DropTicket
  <2>3. UNCHANGED kind
    BY <1>7 DEF DropTicket, requests
  <2> QED
    BY <2>1, <2>2, <2>3, CompletionCharges
<1>8. CASE Leave \/ WorkerPanics
  BY <1>8, <1>u DEF Leave, WorkerPanics, ToExit, requests
<1>9. CASE ExitGuard
  BY <1>9, <1>u DEF ExitGuard, requests
<1>10. CASE SubmitNew
  BY <1>10, SubmitCharges DEF SubmitNew
<1>11. ASSUME NEW s \in Seqs, Resubmit(s) PROVE Charged'
  <2>1. "put" \in Offered /\ Submit("put", origin[s])
    BY <1>11 DEF Resubmit, Offered
  <2> QED
    BY <2>1, SubmitCharges
<1>12. ASSUME NEW s \in Seqs, TakeResult(s) PROVE Charged'
  BY <1>12, TakingGivesBack DEF TakeResult, requests
<1>13. ASSUME NEW s \in Seqs, Abandon(s) PROVE Charged'
  <2>1. CASE slot[s] = "ready"
    BY <1>13, <2>1, TakingGivesBack DEF Abandon, requests
  <2>2. CASE slot[s] # "ready"
    <3>1. /\ slot[s] = "pending" /\ slot' = [slot EXCEPT ![s] = "abandoned"]
          /\ UNCHANGED <<kind, size, items, bytes>>
      BY <1>13, <2>2 DEF Abandon, requests
    <3>2. Held' = Held
      BY <3>1 DEF Held, Budgeted, IInv, TypeOK
    <3> QED
      BY <3>1, <3>2, UntouchedCharged
  <2> QED
    BY <2>1, <2>2
<1>14. ASSUME NEW from \in {0} \cup Seqs, Flush(from) PROVE Charged'
  <2>1. next + 1 \in Seqs /\ next + 1 > next
    BY <1>14, Bounds, SeqsAreNats DEF Flush, IInv, Seqs
  <2> QED
    BY <1>14, <2>1, FlushesAreFree DEF Flush
<1>15. CASE BeginShutdown
  <2>1. CASE alive
    <3>1. next + 1 \in Seqs /\ next + 1 > next
      BY <1>15, Bounds, SeqsAreNats DEF BeginShutdown, IInv, Numbered, Seqs
    <3> QED
      BY <1>15, <2>1, <3>1, FlushesAreFree DEF BeginShutdown
  <2>2. CASE ~ alive
    BY <1>15, <2>2, <1>u DEF BeginShutdown, slots
  <2> QED
    BY <2>1, <2>2
<1>16. CASE Join
  <2>1. \A s \in Seqs : Budgeted(s) => slot'[s] = slot[s]
    <3>1. final # 0 => ~ Budgeted(final)
      BY DEF IInv, FinalCut, Budgeted
    <3> QED
      BY <1>16, <3>1 DEF Join, IInv, TypeOK
  <2>2. UNCHANGED <<kind, size, items, bytes>>
    BY <1>16 DEF Join, requests
  <2>3. Held' = Held
    BY <2>1, <2>2 DEF Held, Budgeted
  <2> QED
    BY <2>2, <2>3, UntouchedCharged
<1> QED
  BY <1>1, <1>2, <1>3, <1>4, <1>6, <1>7, <1>8, <1>9, <1>10, <1>11, <1>12, <1>13, <1>14, <1>15,
     <1>16 DEF Next, WorkerStep, CallerStep

\* The budget counts what was admitted and not yet consumed, whichever of the
\* completion, the taking and the dropping of a receipt comes first (slot.rs).
THEOREM BudgetIsRight == Spec => []BudgetAddsUp
<1>1. Init => IInv /\ Charged
  BY InitHolds, InitCharged
<1>2. IInv /\ Charged /\ [Next]_vars => (IInv /\ Charged)'
  BY NextKeepsInvariant, NextCharged
<1>3. IInv /\ Charged => BudgetAddsUp
  BY DEF Charged
<1> QED
  BY <1>1, <1>2, <1>3, PTL DEF Spec
=============================================================================
