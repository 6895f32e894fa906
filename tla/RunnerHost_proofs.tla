-------------------------- MODULE RunnerHost_proofs --------------------------
(***************************************************************************)
(* The runner's safety for every number of tasks, permits, retries,        *)
(* deletions and faults: runs hold their permits, a task has one run at a  *)
(* time and is started once for each time it was made ready, and outcomes  *)
(* stand.                                                                  *)
(***************************************************************************)
EXTENDS RunnerHost, FiniteSetTheorems, SequenceTheorems, TLAPS

-----------------------------------------------------------------------------
(* The inductive invariant.                                                *)

Reloading == {"purge", "purged", "classify", "ended", "settled"}
Ticking == {"maintain", "sweep", "resume", "poll", "dispatch"}
Findings == {"none", "stale", "ended", "alive", "settled"}

RunsType == [Task -> Seq(RunRecords)]

ExType ==
    [running : [Task -> 0..Failing], spawned : [Task -> 0..Failing],
     pending : [Task -> 0..Lost], held : SUBSET Task, watched : SUBSET Task,
     proc : [Task -> Numbers], stopping : SUBSET Task]

PcType ==
    [ph : {"off", "down", "idle", "settle"} \cup Reloading \cup Ticking,
     todo : SUBSET Task, cur : SUBSET Task, goal : {"on", "off"},
     at : {"next", "await", "release", "evict", "forget", "spawn", "persist", "fail", "start"}]

StoreTyped ==
    /\ task \in [Task -> States]
    /\ handle \in [Task -> Numbers] /\ saved \in [Task -> Numbers] /\ bg \in [Task -> Numbers]
    /\ permit \subseteq Task /\ evicting \subseteq Task

Typed ==
    /\ StoreTyped
    /\ runs \in RunsType
    /\ ex \in ExType
    /\ pc \in PcType
    /\ asked \in BOOLEAN /\ confirm \in BOOLEAN
    /\ spent \in [retries : Nat, silent : Nat, halts : Nat]

\* The bounds of the model, and the semaphore's.
Bounded ==
    /\ spent.retries <= MaxRetries
    /\ Faults <= MaxFaults
    /\ asked => spent.halts > 0
    /\ Cardinality(permit) <= Permits

\* What the runner thread has in hand fits its phase, and its snapshot as well.
Placed ==
    /\ IF pc.at = "next" THEN pc.cur = {} ELSE \E t \in pc.todo : pc.cur = {t}
    /\ pc.at = "await" => pc.ph = "ended"
    /\ pc.at \in {"release", "evict", "forget"} =>
         pc.ph \in {"settled", "maintain", "sweep", "resume", "poll"}
    /\ pc.at \in {"spawn", "persist", "fail", "start"} => pc.ph = "dispatch"
    /\ CASE pc.ph \in Ticking -> snap \in [Task -> States]
         [] pc.ph \in {"classify", "ended", "settled"} -> snap \in [Task -> Findings]
         [] OTHER -> snap = Nothing
    /\ pc.ph \in {"off", "down"} => ex = Blank

\* A stop was counted when it was asked for, and undoes starts when it is made.
Starts == spent.retries + spent.halts - (IF asked THEN 1 ELSE 0)

MayStart(t) == Len(runs[t]) <= Starts
Idle(t) == ex.running[t] = 0 /\ ex.spawned[t] = 0
Dead(t) == Live(t) = {}
Doing(at, t) == t \in pc.cur /\ pc.at \in at

\* A start is left to a task that is Ready and not started in this executor's
\* memory, or was made Ready again after the snapshot.
Counted(t) ==
    /\ Len(runs[t]) <= 1 + Starts
    /\ task[t] = "Ready" /\ Idle(t) /\ ~Doing({"persist", "start"}, t) => MayStart(t)
    /\ pc.ph \in Ticking /\ task[t] = "Ready" /\ snap[t] \in Terminal \cup {"Running", "Unknown"}
         => MayStart(t)
    /\ pc.ph \in Reloading => Idle(t)

\* Only the last run of a task can be alive, and stored handles and the executor
\* know no later one.
Numbered(t) ==
    /\ handle[t] \in {0, Len(runs[t])}
    /\ ex.proc[t] \in 0..Len(runs[t])
    /\ Live(t) \subseteq {Len(runs[t])}
    /\ t \in evicting => task[t] = "Deleted"

\* A live run has its permit; and it has its handle, unless its task was deleted
\* or it was started just now.
Covered(t) ==
    Dead(t) \/ /\ t \in permit
               /\ handle[t] # 0 \/ task[t] = "Deleted" \/ Doing({"persist"}, t)

\* If the executor remembers anything of a task with a live run, it is that run.
Remembers(t) == ~Idle(t) \/ t \in ex.held \cup ex.watched \cup ex.stopping

Followed(t) == Dead(t) \/ ~Remembers(t) \/ ex.proc[t] = Len(runs[t])

\* A run that has its handle, of a task that was not deleted.
HandleKept(t) == Dead(t) \/ (handle[t] # 0 /\ task[t] # "Deleted")

\* The tick may still come to dispatch the task.
WillStart(t) ==
    /\ snap[t] = "Ready" /\ Idle(t)
    /\ \/ pc.ph \in Ticking \ {"dispatch"}
       \/ pc.ph = "dispatch" /\ t \in pc.todo \ pc.cur

\* What a snapshot says is still true in this respect, however old it is.
StillTrue(t) ==
    /\ WillStart(t) => MayStart(t) /\ HandleKept(t)
    /\ snap[t] = "settled" => Dead(t)
    /\ snap[t] = "alive" => HandleKept(t)
    /\ snap[t] = "stale" => task[t] = "Deleted"

\* The tasks a phase has left, and the one it is at.
Waits(t) ==
    t \in pc.todo \ pc.cur =>
        /\ pc.ph \in {"purged", "maintain"} => Dead(t)
        /\ pc.ph = "settled" => snap[t] = "settled"
        /\ pc.ph = "sweep" => snap[t] \in Terminal
        /\ pc.ph = "resume" => snap[t] # "Deleted" /\ ex.spawned[t] # 0
        /\ pc.ph = "poll" => snap[t] = "Running" /\ ex.running[t] # 0
        /\ pc.ph = "dispatch" => snap[t] = "Ready" /\ Idle(t)

InHand(t) ==
    /\ Doing({"release", "evict", "forget", "spawn", "fail"}, t) => Dead(t)
    /\ Doing({"spawn"}, t) => snap[t] = "Ready" /\ handle[t] = 0 /\ t \in permit /\ MayStart(t)
    /\ Doing({"persist"}, t) => handle[t] = 0
    /\ Doing({"persist", "start"}, t) => ex.proc[t] = Len(runs[t]) /\ ex.proc[t] # 0

TaskInv(t) ==
    /\ Counted(t) /\ Numbered(t) /\ Covered(t) /\ Followed(t)
    /\ StillTrue(t) /\ Waits(t) /\ InHand(t)

Shape == Typed /\ Bounded /\ Placed

IInv == Shape /\ \A t \in Task : TaskInv(t)


-----------------------------------------------------------------------------
(* Numbers and runs.                                                       *)

LEMMA NumberFacts ==
    /\ Tasks \in Nat /\ Permits \in Nat /\ MaxRetries \in Nat /\ MaxFaults \in Nat
    /\ MaxRuns \in Nat /\ MaxRuns = 1 + MaxRetries + MaxFaults
    /\ Failing = MaxRuns + 1 /\ Lost = MaxRuns + 2
    /\ Numbers = 0..MaxRuns /\ 0 \in Numbers
    /\ Task \subseteq Nat
  BY RunnerAssumption DEF MaxRuns, Failing, Lost, Numbers, Task

LEMMA StartsNumber ==
    ASSUME NEW r \in Nat, NEW s \in Nat, NEW h \in Nat, NEW a \in BOOLEAN,
           r <= MaxRetries, s + h <= MaxFaults, a => h > 0
    PROVE  /\ r + h - (IF a THEN 1 ELSE 0) \in Nat
           /\ r + h - (IF a THEN 1 ELSE 0) + 1 <= MaxRuns
  BY NumberFacts

LEMMA StartsIsNat ==
    /\ Shape => Starts \in Nat /\ Starts + 1 <= MaxRuns
    /\ Shape' => Starts' \in Nat /\ Starts' + 1 <= MaxRuns
<1>1. ASSUME Shape PROVE Starts \in Nat /\ Starts + 1 <= MaxRuns
  BY <1>1, StartsNumber DEF Shape, Typed, Bounded, Faults, Starts
<1>2. ASSUME Shape' PROVE Starts' \in Nat /\ Starts' + 1 <= MaxRuns
  BY <1>2, StartsNumber DEF Shape, Typed, Bounded, Faults, Starts
<1> QED
  BY <1>1, <1>2

LEMMA SameInterval ==
    ASSUME NEW m \in Nat, NEW n \in Nat, 1..m = 1..n PROVE m = n
<1>1. (m # 0 => m \in 1..n) /\ (n # 0 => n \in 1..m)
  OBVIOUS
<1> QED
  BY <1>1

\* The live runs of t in a state of the processes.
LiveIn(r, t) == {n \in DOMAIN r[t] : r[t][n].os # "gone" /\ ~r[t][n].stray}

LEMMA LiveIsIn == \A t : Live(t) = LiveIn(runs, t) /\ Live(t)' = LiveIn(runs', t)
  BY DEF Live, LiveIn, Alive

\* No run is added and none comes back to life.
Eased(r, s) ==
    /\ s \in RunsType
    /\ \A t \in Task : Len(s[t]) = Len(r[t]) /\ LiveIn(s, t) \subseteq LiveIn(r, t)

LEMMA EasedSame == ASSUME NEW r \in RunsType PROVE Eased(r, r)
  BY DEF Eased

LEMMA EasedTwice ==
    ASSUME NEW r \in RunsType, NEW s, NEW q, Eased(r, s), Eased(s, q) PROVE Eased(r, q)
  BY DEF Eased

LEMMA RunsAre ==
    ASSUME NEW r \in RunsType, NEW t \in Task
    PROVE  /\ r[t] \in Seq(RunRecords) /\ Len(r[t]) \in Nat /\ DOMAIN r[t] = 1..Len(r[t])
           /\ DOMAIN r = Task
           /\ \A n \in DOMAIN r[t] : r[t][n] \in RunRecords
<1>1. r[t] \in Seq(RunRecords) /\ DOMAIN r = Task
  BY DEF RunsType
<1> QED
  BY <1>1, LenProperties, ElementOfSeq

\* One run is changed, for the worse, or another field of it is.
LEMMA EasedOne ==
    ASSUME NEW r \in RunsType, NEW t \in Task, NEW n \in DOMAIN r[t], NEW x \in RunRecords,
           x.os = "gone" \/ x.stray \/ n \in LiveIn(r, t)
    PROVE  Eased(r, [r EXCEPT ![t] = [r[t] EXCEPT ![n] = x]])
<1> DEFINE q == [r[t] EXCEPT ![n] = x]
           s == [r EXCEPT ![t] = q]
<1>1. r[t] \in Seq(RunRecords) /\ DOMAIN r[t] = 1..Len(r[t]) /\ DOMAIN r = Task /\ Len(r[t]) \in Nat
  BY RunsAre
<1>2. q \in Seq(RunRecords) /\ Len(q) = Len(r[t])
  BY <1>1, ExceptSeq
<1>3. s \in RunsType /\ DOMAIN s = Task /\ s[t] = q /\ \A u \in Task : u # t => s[u] = r[u]
  BY <1>1, <1>2 DEF RunsType
<1>4. LiveIn(s, t) \subseteq LiveIn(r, t)
  BY <1>1, <1>3 DEF LiveIn
<1>5. \A u \in Task : u # t => LiveIn(s, u) = LiveIn(r, u)
  BY <1>3 DEF LiveIn
<1>6. \A u \in Task : Len(s[u]) = Len(r[u]) /\ LiveIn(s, u) \subseteq LiveIn(r, u)
  BY <1>2, <1>3, <1>4, <1>5
<1> QED
  BY <1>3, <1>6 DEF Eased

LEMMA KillEases ==
    ASSUME runs \in RunsType, NEW t \in Task, NEW n \in DOMAIN runs[t]
    PROVE  Eased(runs, Kill(t, n))
<1> DEFINE x == [runs[t][n] EXCEPT !.os = "killed"]
<1>1. runs[t][n] \in RunRecords
  BY RunsAre
<1>2. x \in RunRecords
  BY <1>1 DEF RunRecords
<1>3. CASE runs[t][n].os = "alive"
  <2>1. x.os = "gone" \/ x.stray \/ n \in LiveIn(runs, t)
    BY <1>1, <1>3 DEF RunRecords, LiveIn
  <2>2. Eased(runs, [runs EXCEPT ![t] = [runs[t] EXCEPT ![n] = x]])
    BY <1>2, <2>1, EasedOne
  <2> QED
    BY <1>3, <2>2 DEF Kill
<1>4. CASE runs[t][n].os # "alive"
  BY <1>4, EasedSame DEF Kill
<1> QED
  BY <1>3, <1>4

LEMMA TakenEases ==
    ASSUME runs \in RunsType, NEW t \in Task, NEW o PROVE Eased(runs, Taken(t, o))
<1>1. CASE o \in DOMAIN runs[t]
  <2> DEFINE x == [runs[t][o] EXCEPT !.mine = FALSE]
  <2>1. runs[t][o] \in RunRecords
    BY <1>1, RunsAre
  <2>2. x \in RunRecords /\ (x.os = "gone" \/ x.stray \/ o \in LiveIn(runs, t))
    BY <1>1, <2>1 DEF RunRecords, LiveIn
  <2>3. Eased(runs, [runs EXCEPT ![t] = [runs[t] EXCEPT ![o] = x]])
    BY <1>1, <2>2, EasedOne
  <2> QED
    BY <1>1, <2>3 DEF Taken
<1>2. CASE o \notin DOMAIN runs[t]
  BY <1>2, EasedSame DEF Taken
<1> QED
  BY <1>1, <1>2

LEMMA ExitEases ==
    ASSUME runs \in RunsType, NEW t \in Task, NEW n \in DOMAIN runs[t], Exit(t, n)
    PROVE  Eased(runs, runs')
<1> DEFINE x == [runs[t][n] EXCEPT !.os = "gone"]
<1>1. x \in RunRecords /\ x.os = "gone"
  BY RunsAre DEF RunRecords
<1>2. Eased(runs, [runs EXCEPT ![t] = [runs[t] EXCEPT ![n] = x]])
  BY <1>1, EasedOne
<1> QED
  BY <1>2 DEF Exit

LEMMA WatcherEases ==
    ASSUME runs \in RunsType, NEW t \in Task, NEW n \in DOMAIN runs[t], WatcherSaves(t, n)
    PROVE  Eased(runs, runs')
<1> DEFINE x == [runs[t][n] EXCEPT !.watch = "done"]
<1>1. x \in RunRecords /\ x.os = "gone"
  BY RunsAre DEF RunRecords, WatcherSaves
<1>2. Eased(runs, [runs EXCEPT ![t] = [runs[t] EXCEPT ![n] = x]])
  BY <1>1, EasedOne
<1> QED
  BY <1>2 DEF WatcherSaves

\* What becomes of a run when the executor goes.
LeftBehind(watch, t, n) ==
    [os |-> runs[t][n].os, mine |-> FALSE,
     watch |-> IF runs[t][n].watch = "waiting" THEN watch ELSE runs[t][n].watch,
     stray |-> runs[t][n].stray \/ (Alive(t, n) /\ handle[t] # n)]

LEMMA LeftBehindIs ==
    ASSUME NEW watch \in {"waiting", "none"}, NEW t \in Task, NEW n, runs[t][n] \in RunRecords
    PROVE  /\ LeftBehind(watch, t, n) \in RunRecords
           /\ LeftBehind(watch, t, n).os = runs[t][n].os
           /\ ~LeftBehind(watch, t, n).stray =>
                ~runs[t][n].stray /\ (runs[t][n].os # "gone" => handle[t] = n)
<1> DEFINE stray == runs[t][n].stray \/ (Alive(t, n) /\ handle[t] # n)
<1>1. stray \in BOOLEAN
  BY DEF RunRecords, Alive
<1>2. LeftBehind(watch, t, n) \in RunRecords
  BY <1>1 DEF RunRecords, LeftBehind
<1>3. LeftBehind(watch, t, n).stray = stray
  BY DEF LeftBehind
<1>4. ~stray => ~runs[t][n].stray /\ (runs[t][n].os # "gone" => handle[t] = n)
  BY DEF Alive
<1>5. LeftBehind(watch, t, n).os = runs[t][n].os
  BY DEF LeftBehind
<1> HIDE DEF stray
<1> QED
  BY <1>2, <1>3, <1>4, <1>5

LEMMA AbandonedEases ==
    ASSUME runs \in RunsType, NEW watch \in {"waiting", "none"}
    PROVE  /\ Eased(runs, Abandoned(watch))
           /\ \A t \in Task : LiveIn(Abandoned(watch), t) \subseteq {handle[t]}
<1> DEFINE s == Abandoned(watch)
<1>1. ASSUME NEW t \in Task
      PROVE  /\ s[t] \in Seq(RunRecords) /\ Len(s[t]) = Len(runs[t])
             /\ LiveIn(s, t) \subseteq LiveIn(runs, t)
             /\ LiveIn(s, t) \subseteq {handle[t]}
  <2>1. /\ Len(runs[t]) \in Nat /\ DOMAIN runs[t] = 1..Len(runs[t])
        /\ \A n \in DOMAIN runs[t] : runs[t][n] \in RunRecords
    BY RunsAre
  <2>2. s[t] = [n \in 1..Len(runs[t]) |-> LeftBehind(watch, t, n)]
    BY <2>1 DEF Abandoned, LeftBehind
  <2>3. \A n \in 1..Len(runs[t]) : LeftBehind(watch, t, n) \in RunRecords
    BY <2>1, LeftBehindIs
  <2>4. s[t] \in Seq(RunRecords) /\ Len(s[t]) = Len(runs[t])
    <3>1. s[t] \in [1..Len(runs[t]) -> RunRecords]
      BY <2>2, <2>3
    <3>2. s[t] \in Seq(RunRecords)
      BY <2>1, <3>1, SeqDef, Zenon
    <3>3. Len(s[t]) \in Nat /\ 1..Len(s[t]) = 1..Len(runs[t])
      BY <2>2, <3>2, LenProperties
    <3>4. Len(s[t]) = Len(runs[t])
      BY <2>1, <3>3, SameInterval
    <3> QED
      BY <3>2, <3>4
  <2>5. ASSUME NEW n \in LiveIn(s, t) PROVE n \in LiveIn(runs, t) /\ n = handle[t]
    <3>1. n \in 1..Len(runs[t])
      BY <2>2 DEF LiveIn
    <3>2. s[t][n] = LeftBehind(watch, t, n) /\ runs[t][n] \in RunRecords
      BY <2>1, <2>2, <3>1
    <3>3. s[t][n].os # "gone" /\ ~s[t][n].stray
      BY DEF LiveIn
    <3>4. runs[t][n].os # "gone" /\ ~runs[t][n].stray /\ handle[t] = n
      BY <3>2, <3>3, LeftBehindIs
    <3> QED
      BY <2>1, <3>1, <3>4 DEF LiveIn
  <2> QED
    BY <2>4, <2>5
<1>2. s \in RunsType
  BY <1>1 DEF RunsType, Abandoned
<1> QED
  BY <1>1, <1>2 DEF Eased

-----------------------------------------------------------------------------
(* A step keeps what is known of the tasks it does not touch.              *)

\* The step does nothing to u: its processes at most end, and starts are at most
\* allowed.
Untouched(u) ==
    /\ task'[u] = task[u] /\ handle'[u] = handle[u] /\ snap'[u] = snap[u]
    /\ u \in permit => u \in permit'
    /\ u \in evicting' => u \in evicting
    /\ Len(runs'[u]) = Len(runs[u]) /\ Live(u)' \subseteq Live(u)
    /\ ex'.running[u] = ex.running[u] /\ ex'.spawned[u] = ex.spawned[u]
    /\ ex'.proc[u] = ex.proc[u]
    /\ u \in ex'.held \cup ex'.watched \cup ex'.stopping => u \in ex.held \cup ex.watched \cup ex.stopping
    /\ Starts <= Starts'
    /\ pc'.ph = pc.ph
    /\ \/ pc' = pc
       \/ u \notin pc.cur /\ u \notin pc'.cur /\ (u \in pc'.todo => u \in pc.todo)

LEMMA UntouchedKeeps ==
    ASSUME Shape, Shape', NEW u \in Task, TaskInv(u), Untouched(u) PROVE TaskInv(u)'
<1>1. /\ Starts \in Nat /\ Starts' \in Nat /\ Starts <= Starts'
      /\ Len(runs[u]) \in Nat /\ Len(runs'[u]) = Len(runs[u])
  BY StartsIsNat, RunsAre DEF Shape, Typed, Untouched
<1>2. Dead(u) => Dead(u)'
  BY DEF Untouched, Dead
<1>3. MayStart(u) => MayStart(u)'
  BY <1>1 DEF MayStart
<1>4. (Idle(u)' <=> Idle(u)) /\ (Remembers(u)' => Remembers(u)) /\ (HandleKept(u) => HandleKept(u)')
  BY <1>2 DEF Untouched, Idle, Remembers, HandleKept
<1>5. \A at : Doing(at, u)' <=> Doing(at, u)
  BY DEF Untouched, Doing
<1>6. u \in pc'.todo \ pc'.cur => u \in pc.todo \ pc.cur
  BY DEF Untouched
<1>11. Counted(u)'
  BY <1>1, <1>2, <1>3, <1>4, <1>5, <1>6 DEF TaskInv, Counted, Untouched
<1>12. Numbered(u)'
  BY <1>1, <1>2, <1>3, <1>4, <1>5, <1>6 DEF TaskInv, Numbered, Untouched
<1>13. Covered(u)' /\ Followed(u)'
  BY <1>1, <1>2, <1>3, <1>4, <1>5, <1>6 DEF TaskInv, Covered, Followed, Untouched
<1>14. StillTrue(u)'
  BY <1>1, <1>2, <1>3, <1>4, <1>5, <1>6 DEF TaskInv, StillTrue, WillStart, Untouched
<1>15. Waits(u)'
  BY <1>1, <1>2, <1>3, <1>4, <1>5, <1>6 DEF TaskInv, Waits, Untouched
<1>16. InHand(u)'
  BY <1>1, <1>2, <1>3, <1>4, <1>5, <1>6 DEF TaskInv, InHand, Untouched
<1> QED
  BY <1>11, <1>12, <1>13, <1>14, <1>15, <1>16 DEF TaskInv

\* The step is about t alone.
LEMMA OnlyOne ==
    ASSUME IInv, Shape', NEW t \in Task, TaskInv(t)', \A u \in Task \ {t} : Untouched(u)
    PROVE  IInv'
<1>1. \A u \in Task \ {t} : TaskInv(u)'
  BY UntouchedKeeps DEF IInv
<1> QED
  BY <1>1 DEF IInv

LEMMA NobodyTouched ==
    ASSUME IInv, Shape', \A u \in Task : Untouched(u) PROVE IInv'
  BY UntouchedKeeps DEF IInv

LEMMA InitHolds == Init => IInv
<1> SUFFICES ASSUME Init PROVE IInv
  OBVIOUS
<1>1. Typed
  <2>1. runs \in RunsType
    BY EmptySeq DEF Init, RunsType
  <2>2. ex \in ExType
    BY NumberFacts DEF Init, ExType, Blank
  <2>3. pc \in PcType
    BY DEF Init, PcType, Off
  <2> QED
    BY <2>1, <2>2, <2>3, NumberFacts DEF Init, Typed, StoreTyped, States
<1>2. Bounded
  BY NumberFacts, FS_EmptySet DEF Init, Bounded, Faults
<1>3. Placed
  BY DEF Init, Placed, Off, Blank, Ticking
<1>4. ASSUME NEW t \in Task PROVE TaskInv(t)
  <2>1. runs[t] = <<>> /\ Len(runs[t]) = 0 /\ Live(t) = {}
    BY EmptySeq DEF Init, Live
  <2>2. pc = [ph |-> "off", todo |-> {}, at |-> "next", cur |-> {}, goal |-> "off"]
    BY DEF Init, Off
  <2>3. snap[t] = "none" /\ task[t] = "Ready" /\ handle[t] = 0 /\ evicting = {}
    BY DEF Init, Nothing
  <2>4. Idle(t) /\ ex.proc[t] = 0
    BY DEF Init, Blank, Idle
  <2>5. Starts = 0
    BY DEF Init, Starts
  <2> QED
    BY <2>1, <2>2, <2>3, <2>4, <2>5
    DEF TaskInv, Counted, Numbered, Covered, Followed, StillTrue, Waits, InHand, MayStart, Dead,
        Doing, WillStart, Terminal, Ticking, Reloading
<1> QED
  BY <1>1, <1>2, <1>3, <1>4 DEF IInv, Shape

-----------------------------------------------------------------------------
(* What the runner thread has in hand.                                     *)

LEMMA InStep ==
    ASSUME Shape, NEW t, NEW at, Step(at, t), at # "next"
    PROVE  t \in Task /\ t \in pc.todo /\ pc.cur = {t} /\ pc.at = at
  BY DEF Shape, Placed, Step, Typed, PcType

LEMMA AtNext ==
    ASSUME Shape, NEW ph, NEW t, At(ph, t)
    PROVE  /\ t \in Task /\ t \in pc.todo \ pc.cur /\ pc.cur = {} /\ pc.at = "next" /\ pc.ph = ph
  BY DEF Shape, Placed, At, Typed, PcType

LEMMA HandDone ==
    ASSUME Shape, NEW t \in Task, pc' = Done(t), pc.ph \notin {"off", "down"},
           \/ snap' = snap
           \/ pc.ph = "classify" /\ snap' \in [Task -> Findings]
    PROVE  /\ pc' \in PcType /\ Placed'
           /\ pc'.ph = pc.ph /\ pc'.at = "next" /\ pc'.cur = {} /\ pc'.todo = pc.todo \ {t}
<1>1. pc \in PcType
  BY DEF Shape, Typed
<1>2. /\ pc' \in PcType
      /\ pc'.ph = pc.ph /\ pc'.at = "next" /\ pc'.cur = {} /\ pc'.todo = pc.todo \ {t}
  BY <1>1 DEF PcType, Done
<1>3. Placed'
  BY <1>2 DEF Shape, Placed, Ticking
<1> QED
  BY <1>2, <1>3

LEMMA HandThen ==
    ASSUME Shape, NEW t \in pc.todo, NEW at, pc' = Then(at, t), snap' = snap,
           \/ at = "await" /\ pc.ph = "ended"
           \/ at \in {"release", "evict", "forget"} /\ pc.ph \in {"settled", "maintain", "sweep", "resume", "poll"}
           \/ at \in {"spawn", "persist", "fail", "start"} /\ pc.ph = "dispatch"
    PROVE  /\ pc' \in PcType /\ Placed'
           /\ pc'.ph = pc.ph /\ pc'.at = at /\ pc'.cur = {t} /\ pc'.todo = pc.todo
<1>1. pc \in PcType
  BY DEF Shape, Typed
<1>2. t \in Task
  BY <1>1 DEF PcType
<1>3. /\ pc' \in PcType
      /\ pc'.ph = pc.ph /\ pc'.at = at /\ pc'.cur = {t} /\ pc'.todo = pc.todo
  BY <1>1, <1>2 DEF PcType, Then
<1>4. Placed'
  BY <1>3 DEF Shape, Placed
<1> QED
  BY <1>3, <1>4

LEMMA LiveSame ==
    ASSUME UNCHANGED runs
    PROVE  \A u : Live(u)' = Live(u) /\ Len(runs'[u]) = Len(runs[u]) /\ (Dead(u)' <=> Dead(u))
  BY LiveIsIn DEF Dead

LEMMA LiveEased ==
    ASSUME Eased(runs, runs')
    PROVE  /\ runs' \in RunsType
           /\ \A u \in Task : /\ Live(u)' \subseteq Live(u) /\ Len(runs'[u]) = Len(runs[u])
                              /\ (Dead(u) => Dead(u)')
  BY LiveIsIn DEF Eased, Dead

LEMMA FewerPermits ==
    ASSUME Shape, permit' \subseteq permit PROVE Cardinality(permit') <= Permits
<1>1. IsFiniteSet(permit) /\ Cardinality(permit) <= Permits
  <2>1. IsFiniteSet(Task)
    BY NumberFacts, FS_Interval DEF Task
  <2> QED
    BY <2>1, FS_Subset DEF Shape, Typed, StoreTyped, Bounded
<1>2. IsFiniteSet(permit') /\ Cardinality(permit') <= Cardinality(permit)
  BY <1>1, FS_Subset
<1> QED
  BY <1>1, <1>2, FS_CardinalityType, NumberFacts

-----------------------------------------------------------------------------
(* Giving back what a task held.                                           *)

LEMMA SilenceIsCounted ==
    ASSUME Shape, asked' = asked, Answered \/ Unanswered
    PROVE  /\ spent' \in [retries : Nat, silent : Nat, halts : Nat]
           /\ spent'.retries <= MaxRetries /\ Faults' <= MaxFaults
           /\ asked' => spent'.halts > 0
           /\ Starts' = Starts
<1>1. spent \in [retries : Nat, silent : Nat, halts : Nat]
  BY DEF Shape, Typed
<1>2. CASE Answered
  BY <1>1, <1>2 DEF Answered, Shape, Bounded, Faults, Starts
<1>3. CASE Unanswered
  <2>1. /\ spent' \in [retries : Nat, silent : Nat, halts : Nat]
        /\ spent'.retries = spent.retries /\ spent'.halts = spent.halts
        /\ spent'.silent = spent.silent + 1
    BY <1>1, <1>3 DEF Unanswered
  <2>2. Faults' <= MaxFaults
    <3>1. spent.silent \in Nat /\ spent.halts \in Nat /\ spent.silent + spent.halts < MaxFaults
      BY <1>1, <1>3 DEF Unanswered, Faults
    <3>2. Faults' = spent.silent + 1 + spent.halts
      BY <2>1 DEF Faults
    <3> QED
      BY <3>1, <3>2, NumberFacts
  <2>3. Starts' = Starts
    BY <2>1 DEF Starts
  <2>4. spent.retries <= MaxRetries /\ (asked => spent.halts > 0)
    BY DEF Shape, Bounded
  <2> QED
    BY <2>1, <2>2, <2>3, <2>4
<1> QED
  BY <1>2, <1>3

\* The shape is kept by a step that neither stops nor retries.
LEMMA ShapeKept ==
    ASSUME Shape, StoreTyped', permit' \subseteq permit \/ Cardinality(permit') <= Permits, runs' \in RunsType, ex' \in ExType,
           pc' \in PcType, Placed', asked' = asked, confirm' \in BOOLEAN, Answered \/ Unanswered
    PROVE  Shape' /\ Starts' = Starts
<1>1. Cardinality(permit') <= Permits
  BY FewerPermits
<1>2. Bounded' /\ Starts' = Starts
  BY <1>1, SilenceIsCounted DEF Bounded
<1>3. Typed'
  BY SilenceIsCounted DEF Typed, Shape
<1> QED
  BY <1>2, <1>3 DEF Shape

LEMMA ReleaseKeeps == ASSUME IInv, NEW t \in Task, Release(t) PROVE IInv'
<1> USE DEF store, clients
<1>1. Shape /\ TaskInv(t) /\ snap' = snap /\ t \in pc.todo /\ pc.cur = {t} /\ pc.at = "release"
      /\ pc.ph \in {"settled", "maintain", "sweep", "resume", "poll"}
  BY InStep DEF IInv, Release, Shape, Placed
<1>2. \A u \in Task : Live(u)' = Live(u) /\ Len(runs'[u]) = Len(runs[u]) /\ (Dead(u)' <=> Dead(u))
  BY LiveSame DEF Release
<1>3. /\ pc' \in PcType /\ Placed' /\ pc'.ph = pc.ph /\ pc'.cur \subseteq {t} /\ pc'.todo \subseteq pc.todo
      /\ \/ pc'.at = "next" /\ pc'.cur = {} /\ t \notin pc'.todo
         \/ pc'.at = "evict" /\ pc'.cur = {t}
  <2>1. CASE pc' = Done(t)
    BY <1>1, <2>1, HandDone
  <2>2. CASE pc' = Then("evict", t)
    BY <1>1, <2>2, HandThen
  <2> QED
    BY <2>1, <2>2 DEF Release
<1>4. ex' \in ExType /\ ex' = [ex EXCEPT !.held = @ \ {t}] /\ ex \in ExType
  BY <1>1 DEF Release, Shape, Typed, ExType
<1>5. Shape' /\ Starts' = Starts
  BY <1>1, <1>3, <1>4, ShapeKept DEF Release, Answered, Shape, Typed, StoreTyped
<1>6. \A u \in Task \ {t} : Untouched(u)
  BY <1>1, <1>2, <1>3, <1>4, <1>5, StartsIsNat DEF Untouched, Release, ExType
<1>7. Dead(t)
  BY <1>1 DEF TaskInv, InHand, Doing
<1>8. TaskInv(t)'
  BY <1>1, <1>2, <1>3, <1>4, <1>5, <1>7
  DEF TaskInv, Counted, Numbered, Covered, Followed, StillTrue, Waits, InHand, MayStart, Doing,
      WillStart, Idle, Remembers, HandleKept, Release, ExType, Ticking, Reloading
<1> QED
  BY <1>5, <1>6, <1>8, OnlyOne

LEMMA EvictKeeps == ASSUME IInv, NEW t \in Task, Evict(t) PROVE IInv'
<1> USE DEF store, clients
<1>1. Shape /\ TaskInv(t) /\ snap' = snap /\ t \in pc.todo /\ pc.cur = {t} /\ pc.at = "evict"
      /\ pc.ph \in {"settled", "maintain", "sweep", "resume", "poll"}
  BY InStep DEF IInv, Evict, Shape, Placed
<1>2. \A u \in Task : Live(u)' = Live(u) /\ Len(runs'[u]) = Len(runs[u]) /\ (Dead(u)' <=> Dead(u))
  BY LiveSame DEF Evict
<1>3. /\ pc' \in PcType /\ Placed' /\ pc'.ph = pc.ph
      /\ pc'.at = "forget" /\ pc'.cur = {t} /\ pc'.todo = pc.todo
  BY <1>1, HandThen DEF Evict
<1>4. ex' \in ExType /\ ex' = [ex EXCEPT !.watched = @ \ {t}] /\ ex \in ExType
  BY <1>1 DEF Evict, Shape, Typed, ExType
<1>5. StoreTyped' /\ handle'[t] = 0 /\ \A u \in Task \ {t} : handle'[u] = handle[u]
  BY <1>1, NumberFacts DEF Evict, Shape, Typed, StoreTyped
<1>6. Shape' /\ Starts' = Starts
  BY <1>1, <1>3, <1>4, <1>5, ShapeKept DEF Evict, Answered, Shape, Typed
<1>7. \A u \in Task \ {t} : Untouched(u)
  BY <1>1, <1>2, <1>3, <1>4, <1>5, <1>6, StartsIsNat DEF Untouched, Evict, ExType
<1>8. Dead(t)
  BY <1>1 DEF TaskInv, InHand, Doing
<1>9. TaskInv(t)'
  BY <1>1, <1>2, <1>3, <1>4, <1>5, <1>6, <1>8
  DEF TaskInv, Counted, Numbered, Covered, Followed, StillTrue, Waits, InHand, MayStart, Doing,
      WillStart, Idle, Remembers, HandleKept, Evict, ExType, Ticking, Reloading
<1> QED
  BY <1>6, <1>7, <1>9, OnlyOne

LEMMA ForgetKeeps == ASSUME IInv, NEW t \in Task, Forget(t) PROVE IInv'
<1> USE DEF store, clients
<1>1. Shape /\ TaskInv(t) /\ snap' = snap /\ t \in pc.todo /\ pc.cur = {t} /\ pc.at = "forget"
      /\ pc.ph \in {"settled", "maintain", "sweep", "resume", "poll"}
  BY InStep DEF IInv, Forget, Shape, Placed
<1>2. \A u \in Task : Live(u)' = Live(u) /\ Len(runs'[u]) = Len(runs[u]) /\ (Dead(u)' <=> Dead(u))
  BY LiveSame DEF Forget
<1>3. /\ pc' \in PcType /\ Placed' /\ pc'.ph = pc.ph
      /\ pc'.at = "next" /\ pc'.cur = {} /\ pc'.todo = pc.todo \ {t}
  BY <1>1, HandDone DEF Forget
<1>4. StoreTyped'
  BY <1>1, NumberFacts DEF Forget, Shape, Typed, StoreTyped
<1>5. Shape' /\ Starts' = Starts
  BY <1>1, <1>3, <1>4, ShapeKept DEF Forget, Answered, Shape, Typed
<1>6. \A u \in Task \ {t} : Untouched(u)
  BY <1>1, <1>2, <1>3, <1>5, StartsIsNat DEF Untouched, Forget
<1>7. TaskInv(t)'
  BY <1>1, <1>2, <1>3, <1>5
  DEF TaskInv, Counted, Numbered, Covered, Followed, StillTrue, Waits, InHand, MayStart, Doing,
      WillStart, Idle, Remembers, HandleKept, Forget, Ticking, Reloading
<1> QED
  BY <1>5, <1>6, <1>7, OnlyOne

LEMMA MaintainKeeps == ASSUME IInv, NEW t \in Task, Maintain(t) PROVE IInv'
<1> USE DEF store, clients
<1>1. /\ Shape /\ TaskInv(t) /\ snap' = snap
      /\ t \in pc.todo \ pc.cur /\ pc.cur = {} /\ pc.at = "next" /\ pc.ph = "maintain"
  BY AtNext DEF IInv, Maintain
<1>2. \A u \in Task : Live(u)' = Live(u) /\ Len(runs'[u]) = Len(runs[u]) /\ (Dead(u)' <=> Dead(u))
  BY LiveSame DEF Maintain
<1>3. /\ pc' \in PcType /\ Placed' /\ pc'.ph = pc.ph
      /\ pc'.at = "release" /\ pc'.cur = {t} /\ pc'.todo = pc.todo
  BY <1>1, HandThen DEF Maintain
<1>4. /\ ex \in ExType /\ ex' \in ExType /\ ex' = [ex EXCEPT !.proc[t] = 0] /\ ex'.proc[t] = 0
      /\ \A u \in Task \ {t} : ex'.proc[u] = ex.proc[u]
  BY <1>1, NumberFacts DEF Maintain, Shape, Typed, ExType
<1>5. Shape' /\ Starts' = Starts
  BY <1>1, <1>3, <1>4, ShapeKept DEF Maintain, Answered, Shape, Typed, StoreTyped
<1>6. \A u \in Task \ {t} : Untouched(u)
  BY <1>1, <1>2, <1>3, <1>4, <1>5, StartsIsNat DEF Untouched, Maintain, ExType
<1>7. Dead(t) /\ Len(runs[t]) \in Nat
  BY <1>1, RunsAre DEF TaskInv, Waits, Shape, Typed
<1>8. TaskInv(t)'
  BY <1>1, <1>2, <1>3, <1>4, <1>5, <1>7
  DEF TaskInv, Counted, Numbered, Covered, Followed, StillTrue, Waits, InHand, MayStart, Doing,
      WillStart, Idle, Remembers, HandleKept, Maintain, ExType, Ticking, Reloading
<1> QED
  BY <1>5, <1>6, <1>8, OnlyOne

LEMMA DeferredKeeps == ASSUME IInv, NEW t \in Task, Deferred(t) PROVE IInv'
<1> USE DEF store, clients
<1>1. /\ Shape /\ TaskInv(t) /\ snap' = snap
      /\ t \in pc.todo \ pc.cur /\ pc.cur = {} /\ pc.at = "next" /\ pc.ph = "dispatch"
  BY AtNext DEF IInv, Deferred
<1>2. \A u \in Task : Live(u)' = Live(u) /\ Len(runs'[u]) = Len(runs[u]) /\ (Dead(u)' <=> Dead(u))
  BY LiveSame DEF Deferred
<1>3. /\ pc' \in PcType /\ Placed' /\ pc'.ph = pc.ph
      /\ pc'.at = "next" /\ pc'.cur = {} /\ pc'.todo = pc.todo \ {t}
  BY <1>1, HandDone DEF Deferred
<1>4. Shape' /\ Starts' = Starts
  BY <1>1, <1>3, ShapeKept DEF Deferred, Answered, Shape, Typed, StoreTyped
<1>5. \A u \in Task : Untouched(u)
  BY <1>1, <1>2, <1>3, <1>4, StartsIsNat DEF Untouched, Deferred
<1> QED
  BY <1>4, <1>5, NobodyTouched

-----------------------------------------------------------------------------
(* A runner that starts settles what an earlier one left.                  *)

LEMMA CompleteIs ==
    ASSUME task \in [Task -> States], NEW t \in Task, NEW o, Complete(t, o) \/ UNCHANGED task
    PROVE  /\ task' \in [Task -> States]
           /\ \A u \in Task \ {t} : task'[u] = task[u]
           /\ task'[t] = task[t] \/ (task[t] = "Running" /\ task'[t] \in {"Ended", "Unknown"})
  BY DEF Complete, States

\* The stored handle names the last run, which is the only one that can be alive.
LEMMA HandleNames ==
    ASSUME Shape, NEW t \in Task, Numbered(t), handle[t] # 0
    PROVE  /\ handle[t] = Len(runs[t]) /\ handle[t] \in DOMAIN runs[t]
           /\ ~Alive(t, handle[t]) => Dead(t)
<1>1. Len(runs[t]) \in Nat /\ DOMAIN runs[t] = 1..Len(runs[t])
  BY RunsAre DEF Shape, Typed
<1>2. handle[t] = Len(runs[t]) /\ handle[t] \in DOMAIN runs[t]
  BY <1>1 DEF Numbered
<1>3. ~Alive(t, handle[t]) => Dead(t)
  BY <1>2 DEF Numbered, Dead, Live
<1> QED
  BY <1>2, <1>3

LEMMA FinalizeIs ==
    ASSUME Shape, NEW t \in Task, Numbered(t), Finalize(t),
           handle[t] = 0 \/ ~Alive(t, handle[t])
    PROVE  /\ handle' \in [Task -> Numbers] /\ handle'[t] = 0
           /\ \A u \in Task \ {t} : handle'[u] = handle[u] /\ (u \in permit => u \in permit')
           /\ permit' \subseteq permit
           /\ Dead(t) \/ (handle[t] = 0 /\ permit' = permit)
<1>1. handle' \in [Task -> Numbers] /\ handle'[t] = 0 /\ \A u \in Task \ {t} : handle'[u] = handle[u]
  BY NumberFacts DEF Finalize, Shape, Typed, StoreTyped
<1>2. permit' \subseteq permit /\ (\A u \in Task \ {t} : u \in permit => u \in permit')
      /\ (handle[t] = 0 => permit' = permit)
  BY DEF Finalize
<1>3. Dead(t) \/ handle[t] = 0
  BY HandleNames
<1> QED
  BY <1>1, <1>2, <1>3

LEMMA ClassifyKeeps == ASSUME IInv, NEW t \in Task, Classify(t) PROVE IInv'
<1> USE DEF store, clients
<1> DEFINE found == IF task[t] = "Deleted" THEN "stale" ELSE IF task[t] # "Running" THEN "ended"
                    ELSE IF Alive(t, handle[t]) THEN "alive" ELSE "settled"
<1>1. /\ Shape /\ TaskInv(t)
      /\ t \in pc.todo \ pc.cur /\ pc.cur = {} /\ pc.at = "next" /\ pc.ph = "classify"
      /\ snap \in [Task -> Findings]
  BY AtNext DEF IInv, Classify, Shape, Placed, Ticking
<1>2. \A u \in Task : Live(u)' = Live(u) /\ Len(runs'[u]) = Len(runs[u]) /\ (Dead(u)' <=> Dead(u))
  BY LiveSame DEF Classify
<1>3. /\ snap' \in [Task -> Findings] /\ snap'[t] = found
      /\ \A u \in Task \ {t} : snap'[u] = snap[u]
  BY <1>1 DEF Classify, Findings
<1>4. /\ pc' \in PcType /\ Placed' /\ pc'.ph = pc.ph
      /\ pc'.at = "next" /\ pc'.cur = {} /\ pc'.todo = pc.todo \ {t}
  BY <1>1, <1>3, HandDone DEF Classify
<1>5. /\ ex \in ExType /\ ex' \in ExType
      /\ ex' = [ex EXCEPT !.pending = ex'.pending]
  <2>1. ex \in ExType /\ saved[t] \in 0..Lost /\ Lost \in 0..Lost
    BY <1>1, NumberFacts DEF Shape, Typed, StoreTyped
  <2> QED
    BY <2>1 DEF Classify, ExType
<1>6. Shape' /\ Starts' = Starts
  BY <1>1, <1>4, <1>5, ShapeKept DEF Classify, Answered, Shape, Typed, StoreTyped
<1>7. \A u \in Task \ {t} : Untouched(u)
  BY <1>1, <1>2, <1>3, <1>4, <1>5, <1>6, StartsIsNat DEF Untouched, Classify, ExType
<1>8. (found = "settled" => Dead(t)) /\ (found = "alive" => HandleKept(t))
  <2>1. CASE handle[t] = 0
    BY <1>1, <2>1 DEF TaskInv, Covered, Doing, HandleKept
  <2>2. CASE handle[t] # 0
    BY <1>1, <2>2, HandleNames DEF TaskInv, HandleKept
  <2> QED
    BY <2>1, <2>2
<1>9. TaskInv(t)'
  BY <1>1, <1>2, <1>3, <1>4, <1>5, <1>6, <1>8
  DEF TaskInv, Counted, Numbered, Covered, Followed, StillTrue, Waits, InHand, MayStart, Doing,
      WillStart, Idle, Remembers, HandleKept, Classify, ExType, Ticking, Reloading
<1> QED
  BY <1>6, <1>7, <1>9, OnlyOne

LEMMA SettleEndedKeeps == ASSUME IInv, NEW t \in Task, SettleEnded(t) PROVE IInv'
<1> USE DEF store, clients
<1>1. /\ Shape /\ TaskInv(t) /\ snap' = snap
      /\ t \in pc.todo \ pc.cur /\ pc.cur = {} /\ pc.at = "next" /\ pc.ph = "ended"
  BY AtNext DEF IInv, SettleEnded
<1>2. Eased(runs, runs')
  BY <1>1, EasedSame, KillEases, HandleNames DEF SettleEnded, TaskInv, Shape, Typed
<1>3. runs' \in RunsType /\ \A u \in Task :
         Live(u)' \subseteq Live(u) /\ Len(runs'[u]) = Len(runs[u]) /\ (Dead(u) => Dead(u)')
  BY <1>2, LiveEased
<1>4. /\ pc' \in PcType /\ Placed' /\ pc'.ph = pc.ph /\ pc'.at \in {"next", "await"}
      /\ \/ pc'.at = "next" /\ pc'.cur = {} /\ pc'.todo = pc.todo \ {t}
         \/ pc'.at = "await" /\ pc'.cur = {t} /\ pc'.todo = pc.todo
  <2>1. CASE pc' = Done(t)
    BY <1>1, <2>1, HandDone
  <2>2. CASE pc' = Then("await", t)
    BY <1>1, <2>2, HandThen
  <2> QED
    BY <2>1, <2>2 DEF SettleEnded
<1>5. Shape' /\ Starts' = Starts
  BY <1>1, <1>3, <1>4, ShapeKept DEF SettleEnded, Answered, Shape, Typed, StoreTyped
<1>6. \A u \in Task \ {t} : Untouched(u)
  BY <1>1, <1>3, <1>4, <1>5, StartsIsNat DEF Untouched, SettleEnded
<1>7. TaskInv(t)'
  BY <1>1, <1>3, <1>4, <1>5
  DEF TaskInv, Counted, Numbered, Covered, Followed, StillTrue, Waits, InHand, MayStart, Doing,
      WillStart, Idle, Remembers, HandleKept, SettleEnded, Ticking, Reloading
<1> QED
  BY <1>5, <1>6, <1>7, OnlyOne

LEMMA AwaitEndedKeeps == ASSUME IInv, NEW t \in Task, AwaitEnded(t) PROVE IInv'
<1> USE DEF store, clients
<1>1. Shape /\ TaskInv(t) /\ snap' = snap /\ t \in pc.todo /\ pc.cur = {t} /\ pc.at = "await"
      /\ pc.ph = "ended"
  BY InStep DEF IInv, AwaitEnded, Shape, Placed
<1>2. \A u \in Task : Live(u)' = Live(u) /\ Len(runs'[u]) = Len(runs[u]) /\ (Dead(u)' <=> Dead(u))
  BY LiveSame DEF AwaitEnded
<1>3. /\ pc' \in PcType /\ Placed' /\ pc'.ph = pc.ph
      /\ pc'.at = "next" /\ pc'.cur = {} /\ pc'.todo = pc.todo \ {t}
  BY <1>1, HandDone DEF AwaitEnded
<1>4. /\ handle' \in [Task -> Numbers] /\ handle'[t] \in {0, handle[t]}
      /\ \A u \in Task \ {t} : handle'[u] = handle[u] /\ (u \in permit => u \in permit')
      /\ permit' \subseteq permit
      /\ Dead(t) \/ (handle'[t] = handle[t] /\ permit' = permit)
  <2>1. CASE handle[t] # 0 /\ Alive(t, handle[t])
    BY <1>1, <2>1 DEF AwaitEnded, Shape, Typed, StoreTyped
  <2>2. CASE ~(handle[t] # 0 /\ Alive(t, handle[t]))
    BY <1>1, <2>2, FinalizeIs DEF AwaitEnded, TaskInv
  <2> QED
    BY <2>1, <2>2
<1>5. Shape' /\ Starts' = Starts
  BY <1>1, <1>3, <1>4, ShapeKept DEF AwaitEnded, Answered, Shape, Typed, StoreTyped
<1>6. \A u \in Task \ {t} : Untouched(u)
  BY <1>1, <1>2, <1>3, <1>4, <1>5, StartsIsNat DEF Untouched, AwaitEnded
<1>7. TaskInv(t)'
  BY <1>1, <1>2, <1>3, <1>4, <1>5
  DEF TaskInv, Counted, Numbered, Covered, Followed, StillTrue, Waits, InHand, MayStart, Doing,
      WillStart, Idle, Remembers, HandleKept, AwaitEnded, Ticking, Reloading
<1> QED
  BY <1>5, <1>6, <1>7, OnlyOne

LEMMA ReportSettledKeeps == ASSUME IInv, NEW t \in Task, ReportSettled(t) PROVE IInv'
<1> USE DEF store, clients
<1>1. /\ Shape /\ TaskInv(t) /\ snap' = snap
      /\ t \in pc.todo \ pc.cur /\ pc.cur = {} /\ pc.at = "next" /\ pc.ph = "settled"
  BY AtNext DEF IInv, ReportSettled
<1>2. \A u \in Task : Live(u)' = Live(u) /\ Len(runs'[u]) = Len(runs[u]) /\ (Dead(u)' <=> Dead(u))
  BY LiveSame DEF ReportSettled
<1>3. /\ pc' \in PcType /\ Placed' /\ pc'.ph = pc.ph /\ pc'.at \in {"next", "release"}
      /\ \/ pc'.at = "next" /\ pc'.cur = {} /\ pc'.todo = pc.todo \ {t}
         \/ pc'.at = "release" /\ pc'.cur = {t} /\ pc'.todo = pc.todo
  <2>1. CASE pc' = Done(t)
    BY <1>1, <2>1, HandDone
  <2>2. CASE pc' = Then("release", t)
    BY <1>1, <2>2, HandThen
  <2> QED
    BY <2>1, <2>2 DEF ReportSettled
<1>4. /\ task' \in [Task -> States]
      /\ \A u \in Task \ {t} : task'[u] = task[u]
      /\ task'[t] = task[t] \/ (task[t] = "Running" /\ task'[t] \in {"Ended", "Unknown"})
  BY <1>1, CompleteIs DEF ReportSettled, Shape, Typed, StoreTyped
<1>5. Shape' /\ Starts' = Starts
  BY <1>1, <1>3, <1>4, ShapeKept DEF ReportSettled, Shape, Typed, StoreTyped
<1>6. \A u \in Task \ {t} : Untouched(u)
  BY <1>1, <1>2, <1>3, <1>4, <1>5, StartsIsNat DEF Untouched, ReportSettled
<1>7. Dead(t)
  BY <1>1 DEF TaskInv, Waits, StillTrue
<1>8. TaskInv(t)'
  BY <1>1, <1>2, <1>3, <1>4, <1>5, <1>7
  DEF TaskInv, Counted, Numbered, Covered, Followed, StillTrue, Waits, InHand, MayStart, Doing,
      WillStart, Idle, Remembers, HandleKept, ReportSettled, Ticking, Reloading
<1> QED
  BY <1>5, <1>6, <1>8, OnlyOne

LEMMA SettleUnwatchedKeeps == ASSUME IInv, NEW t \in Task, SettleUnwatched(t) PROVE IInv'
<1> USE DEF store, clients
<1>1. /\ Shape /\ TaskInv(t) /\ snap' = snap
      /\ t \in pc.todo \ pc.cur /\ pc.cur = {} /\ pc.at = "next" /\ pc.ph = "settle"
  BY AtNext DEF IInv, SettleUnwatched
<1>2. Eased(runs, runs')
  BY <1>1, EasedSame, KillEases, HandleNames DEF SettleUnwatched, TaskInv, Shape, Typed
<1>3. runs' \in RunsType /\ \A u \in Task :
         Live(u)' \subseteq Live(u) /\ Len(runs'[u]) = Len(runs[u]) /\ (Dead(u) => Dead(u)')
  BY <1>2, LiveEased
<1>4. /\ pc' \in PcType /\ Placed' /\ pc'.ph = pc.ph
      /\ pc'.at = "next" /\ pc'.cur = {} /\ pc'.todo = pc.todo \ {t}
  BY <1>1, HandDone DEF SettleUnwatched
<1>5. /\ handle' \in [Task -> Numbers] /\ handle'[t] \in {0, handle[t]}
      /\ \A u \in Task \ {t} : handle'[u] = handle[u] /\ (u \in permit => u \in permit')
      /\ permit' \subseteq permit
      /\ Dead(t) \/ (handle'[t] = handle[t] /\ permit' = permit)
  <2>1. CASE task[t] = "Running" \/ handle[t] = 0 \/ Alive(t, handle[t])
    BY <1>1, <2>1 DEF SettleUnwatched, Shape, Typed, StoreTyped
  <2>2. CASE ~(task[t] = "Running" \/ handle[t] = 0 \/ Alive(t, handle[t]))
    BY <1>1, <2>2, FinalizeIs DEF SettleUnwatched, TaskInv
  <2> QED
    BY <2>1, <2>2
<1>6. Shape' /\ Starts' = Starts
  BY <1>1, <1>3, <1>4, <1>5, ShapeKept DEF SettleUnwatched, Answered, Shape, Typed, StoreTyped
<1>7. \A u \in Task \ {t} : Untouched(u)
  BY <1>1, <1>3, <1>4, <1>5, <1>6, StartsIsNat DEF Untouched, SettleUnwatched
<1>8. TaskInv(t)'
  BY <1>1, <1>3, <1>4, <1>5, <1>6
  DEF TaskInv, Counted, Numbered, Covered, Followed, StillTrue, Waits, InHand, MayStart, Doing,
      WillStart, Idle, Remembers, HandleKept, SettleUnwatched, Ticking, Reloading
<1> QED
  BY <1>6, <1>7, <1>8, OnlyOne

-----------------------------------------------------------------------------
(* A dispatch.                                                             *)

\* A task the tick comes to start has no live run that has lost its handle.
LEMMA NoneBeside ==
    ASSUME IInv, NEW t \in Task, At("dispatch", t)
    PROVE  snap[t] = "Ready" /\ Idle(t) /\ MayStart(t) /\ (handle[t] = 0 => Dead(t))
<1>1. t \in pc.todo \ pc.cur /\ pc.ph = "dispatch" /\ TaskInv(t)
  BY AtNext DEF IInv
<1>2. WillStart(t)
  BY <1>1 DEF TaskInv, Waits, WillStart
<1> QED
  BY <1>1, <1>2 DEF TaskInv, StillTrue, HandleKept, WillStart

LEMMA OneMorePermit ==
    ASSUME Shape, NEW t \in Task, t \in permit \/ Cardinality(permit) < Permits
    PROVE  Cardinality(permit \cup {t}) <= Permits
<1>1. IsFiniteSet(permit) /\ Cardinality(permit) <= Permits
  <2>1. IsFiniteSet(Task)
    BY NumberFacts, FS_Interval DEF Task
  <2> QED
    BY <2>1, FS_Subset DEF Shape, Typed, StoreTyped, Bounded
<1>2. CASE t \in permit
  <2>1. permit \cup {t} = permit
    BY <1>2
  <2> QED
    BY <1>1, <2>1
<1>3. CASE t \notin permit
  <2>1. Cardinality(permit \cup {t}) = Cardinality(permit) + 1 /\ Cardinality(permit) \in Nat
    BY <1>1, <1>3, FS_AddElement, FS_CardinalityType
  <2> QED
    BY <1>3, <2>1, NumberFacts
<1> QED
  BY <1>2, <1>3

LEMMA AcquirePermitKeeps == ASSUME IInv, NEW t \in Task, AcquirePermit(t) PROVE IInv'
<1> USE DEF store, clients
<1>1. /\ Shape /\ TaskInv(t) /\ snap' = snap
      /\ t \in pc.todo \ pc.cur /\ pc.cur = {} /\ pc.at = "next" /\ pc.ph = "dispatch"
  BY AtNext DEF IInv, AcquirePermit
<1>2. \A u \in Task : Live(u)' = Live(u) /\ Len(runs'[u]) = Len(runs[u]) /\ (Dead(u)' <=> Dead(u))
  BY LiveSame DEF AcquirePermit
<1>3. /\ pc' \in PcType /\ Placed' /\ pc'.ph = pc.ph
      /\ pc'.at = "spawn" /\ pc'.cur = {t} /\ pc'.todo = pc.todo
  BY <1>1, HandThen DEF AcquirePermit
<1>4. ex \in ExType /\ ex' \in ExType /\ ex' = [ex EXCEPT !.held = @ \cup {t}]
  BY <1>1 DEF AcquirePermit, Shape, Typed, ExType
<1>5. Cardinality(permit') <= Permits
  BY <1>1, OneMorePermit DEF AcquirePermit
<1>6. Shape' /\ Starts' = Starts
  BY <1>1, <1>3, <1>4, <1>5, ShapeKept DEF AcquirePermit, Answered, Shape, Typed, StoreTyped
<1>7. \A u \in Task \ {t} : Untouched(u)
  BY <1>1, <1>2, <1>3, <1>4, <1>6, StartsIsNat DEF Untouched, AcquirePermit, ExType
<1>8. snap[t] = "Ready" /\ Dead(t) /\ Idle(t) /\ MayStart(t)
  BY NoneBeside DEF AcquirePermit
<1>9. TaskInv(t)'
  BY <1>1, <1>2, <1>3, <1>4, <1>6, <1>8
  DEF TaskInv, Counted, Numbered, Covered, Followed, StillTrue, Waits, InHand, MayStart, Doing,
      WillStart, Idle, Remembers, HandleKept, AcquirePermit, ExType, Ticking, Reloading
<1> QED
  BY <1>6, <1>7, <1>9, OnlyOne

LEMMA AcquireUnansweredKeeps == ASSUME IInv, NEW t \in Task, AcquireUnanswered(t) PROVE IInv'
<1> USE DEF store, clients
<1>1. /\ Shape /\ TaskInv(t) /\ snap' = snap
      /\ t \in pc.todo \ pc.cur /\ pc.cur = {} /\ pc.at = "next" /\ pc.ph = "dispatch"
  BY AtNext DEF IInv, AcquireUnanswered
<1>2. \A u \in Task : Live(u)' = Live(u) /\ Len(runs'[u]) = Len(runs[u]) /\ (Dead(u)' <=> Dead(u))
  BY LiveSame DEF AcquireUnanswered
<1>3. /\ pc' \in PcType /\ Placed' /\ pc'.ph = pc.ph
      /\ pc'.at = "next" /\ pc'.cur = {} /\ pc'.todo = pc.todo \ {t}
  BY <1>1, HandDone DEF AcquireUnanswered
<1>4. Shape' /\ Starts' = Starts
  BY <1>1, <1>3, ShapeKept DEF AcquireUnanswered, Shape, Typed, StoreTyped
<1>5. \A u \in Task \ {t} : Untouched(u)
  BY <1>1, <1>2, <1>3, <1>4, StartsIsNat DEF Untouched, AcquireUnanswered
<1>6. Dead(t)
  BY NoneBeside DEF AcquireUnanswered
<1>7. TaskInv(t)'
  BY <1>1, <1>2, <1>3, <1>4, <1>6
  DEF TaskInv, Counted, Numbered, Covered, Followed, StillTrue, Waits, InHand, MayStart, Doing,
      WillStart, Idle, Remembers, HandleKept, AcquireUnanswered, Ticking, Reloading
<1> QED
  BY <1>4, <1>5, <1>7, OnlyOne

\* The run that is added is the only one that can be alive if none was.
LEMMA SpawnAdds ==
    ASSUME runs \in RunsType, NEW t \in Task, Spawn(t)
    PROVE  /\ runs' \in RunsType /\ Len(runs'[t]) = Len(runs[t]) + 1
           /\ \A u \in Task \ {t} : runs'[u] = runs[u]
           /\ Live(t)' \subseteq Live(t) \cup {Len(runs'[t])}
<1> DEFINE x == [os |-> "alive", watch |-> "waiting", mine |-> TRUE, stray |-> FALSE]
           q == Append(runs[t], x)
<1>1. runs[t] \in Seq(RunRecords) /\ Len(runs[t]) \in Nat /\ DOMAIN runs = Task
  BY RunsAre
<1>2. x \in RunRecords
  BY DEF RunRecords
<1>3. /\ q \in Seq(RunRecords) /\ Len(q) = Len(runs[t]) + 1
      /\ \A n \in 1..Len(runs[t]) : q[n] = runs[t][n]
  BY <1>1, <1>2, AppendProperties
<1>4. runs' = [runs EXCEPT ![t] = q]
  BY DEF Spawn
<1> HIDE DEF q
<1>5. runs'[t] = q /\ runs' \in RunsType /\ \A u \in Task \ {t} : runs'[u] = runs[u]
  BY <1>1, <1>3, <1>4 DEF RunsType
<1>6. ASSUME NEW n \in Live(t)' PROVE n \in Live(t) \/ n = Len(q)
  <2>1. n \in DOMAIN q /\ q[n].os # "gone" /\ ~q[n].stray
    BY <1>5 DEF Live, Alive
  <2>2. n \in 1..Len(q) /\ DOMAIN runs[t] = 1..Len(runs[t])
    BY <1>1, <1>3, <2>1, LenProperties
  <2>3. CASE n = Len(q)
    BY <2>3
  <2>4. CASE n # Len(q)
    BY <1>1, <1>3, <2>1, <2>2, <2>4 DEF Live, Alive
  <2> QED
    BY <2>3, <2>4
<1> QED
  BY <1>3, <1>5, <1>6

LEMMA SpawnKeeps == ASSUME IInv, NEW t \in Task, Spawn(t) PROVE IInv'
<1> USE DEF store, clients
<1>1. Shape /\ TaskInv(t) /\ snap' = snap /\ t \in pc.todo /\ pc.cur = {t} /\ pc.at = "spawn"
      /\ pc.ph = "dispatch"
  BY InStep DEF IInv, Spawn, Shape, Placed
<1>2. /\ snap[t] = "Ready" /\ handle[t] = 0 /\ t \in permit
      /\ Dead(t) /\ Len(runs[t]) <= Starts /\ Len(runs[t]) \in Nat
  BY <1>1, RunsAre DEF TaskInv, InHand, Doing, Shape, Typed, MayStart
<1>3. /\ runs' \in RunsType /\ Len(runs'[t]) = Len(runs[t]) + 1
      /\ \A u \in Task \ {t} : runs'[u] = runs[u]
      /\ Live(t)' \subseteq {Len(runs'[t])}
  BY <1>1, <1>2, SpawnAdds DEF Shape, Typed, Dead
<1>4. \A u \in Task \ {t} : Live(u)' = Live(u) /\ Len(runs'[u]) = Len(runs[u])
  BY <1>3 DEF Live, Alive
<1>5. /\ pc' \in PcType /\ Placed' /\ pc'.ph = pc.ph
      /\ pc'.at = "persist" /\ pc'.cur = {t} /\ pc'.todo = pc.todo
  BY <1>1, HandThen DEF Spawn
<1>6. Starts \in Nat /\ Starts + 1 <= MaxRuns
  BY <1>1, StartsIsNat
<1>7. /\ ex \in ExType /\ ex' \in ExType
      /\ ex' = [ex EXCEPT !.proc[t] = Len(runs'[t])] /\ ex'.proc[t] = Len(runs'[t])
      /\ \A u \in Task \ {t} : ex'.proc[u] = ex.proc[u]
  <2>1. ex \in ExType /\ Len(runs[t]) + 1 \in Numbers
    BY <1>1, <1>2, <1>6, NumberFacts DEF Shape, Typed
  <2>2. ex' = [ex EXCEPT !.proc[t] = Len(runs[t]) + 1]
    BY DEF Spawn
  <2> QED
    BY <1>3, <2>1, <2>2 DEF ExType
<1>8. Shape' /\ Starts' = Starts
  BY <1>1, <1>3, <1>5, <1>7, ShapeKept DEF Spawn, Answered, Shape, Typed, StoreTyped
<1>9. \A u \in Task \ {t} : Untouched(u)
  BY <1>1, <1>4, <1>5, <1>7, <1>8, StartsIsNat DEF Untouched, Spawn, ExType
<1>10. TaskInv(t)'
  BY <1>1, <1>2, <1>3, <1>5, <1>6, <1>7, <1>8
  DEF TaskInv, Counted, Numbered, Covered, Followed, StillTrue, Waits, InHand, MayStart, Doing,
      WillStart, Idle, Remembers, HandleKept, Spawn, ExType, Ticking, Reloading, Terminal
<1> QED
  BY <1>8, <1>9, <1>10, OnlyOne

LEMMA SpawnFailsKeeps == ASSUME IInv, NEW t \in Task, SpawnFails(t) PROVE IInv'
<1> USE DEF store, clients
<1>1. Shape /\ TaskInv(t) /\ snap' = snap /\ t \in pc.todo /\ pc.cur = {t} /\ pc.at = "spawn"
      /\ pc.ph = "dispatch"
  BY InStep DEF IInv, SpawnFails, Shape, Placed
<1>2. \A u \in Task : Live(u)' = Live(u) /\ Len(runs'[u]) = Len(runs[u]) /\ (Dead(u)' <=> Dead(u))
  BY LiveSame DEF SpawnFails
<1>3. /\ pc' \in PcType /\ Placed' /\ pc'.ph = pc.ph
      /\ pc'.at = "fail" /\ pc'.cur = {t} /\ pc'.todo = pc.todo
  BY <1>1, HandThen DEF SpawnFails
<1>4. ex \in ExType /\ ex' \in ExType /\ ex' = [ex EXCEPT !.held = @ \ {t}]
  BY <1>1 DEF SpawnFails, Shape, Typed, ExType
<1>5. Shape' /\ Starts' = Starts
  BY <1>1, <1>3, <1>4, ShapeKept DEF SpawnFails, Shape, Typed, StoreTyped
<1>6. \A u \in Task \ {t} : Untouched(u)
  BY <1>1, <1>2, <1>3, <1>4, <1>5, StartsIsNat DEF Untouched, SpawnFails, ExType
<1>7. Dead(t) /\ MayStart(t)
  BY <1>1 DEF TaskInv, InHand, Doing
<1>8. TaskInv(t)'
  BY <1>1, <1>2, <1>3, <1>4, <1>5, <1>7
  DEF TaskInv, Counted, Numbered, Covered, Followed, StillTrue, Waits, InHand, MayStart, Doing,
      WillStart, Idle, Remembers, HandleKept, SpawnFails, ExType, Ticking, Reloading
<1> QED
  BY <1>5, <1>6, <1>8, OnlyOne

LEMMA PersistHandleKeeps == ASSUME IInv, NEW t \in Task, PersistHandle(t) PROVE IInv'
<1> USE DEF store, clients
<1>1. Shape /\ TaskInv(t) /\ snap' = snap /\ t \in pc.todo /\ pc.cur = {t} /\ pc.at = "persist"
      /\ pc.ph = "dispatch" /\ snap \in [Task -> States] /\ runs \in RunsType
  BY InStep DEF IInv, PersistHandle, Shape, Placed, Ticking, Typed
<1>2. /\ handle[t] = 0 /\ ex.proc[t] = Len(runs[t]) /\ ex.proc[t] # 0 /\ ex.proc[t] \in Numbers
      /\ Len(runs[t]) \in Nat /\ DOMAIN runs[t] = 1..Len(runs[t])
  BY <1>1, RunsAre DEF TaskInv, InHand, Doing, Shape, Typed, ExType
<1>3. /\ Eased(runs, runs')
      /\ \/ handle' = [handle EXCEPT ![t] = ex.proc[t]] /\ runs' = runs /\ Answered
         \/ handle' = handle /\ Dead(t)' /\ Unanswered
  <2>1. CASE UNCHANGED runs /\ handle' = [handle EXCEPT ![t] = ex.proc[t]] /\ Answered
    BY <1>1, <2>1, EasedSame
  <2>2. CASE /\ UNCHANGED handle /\ Unanswered
             /\ runs' = [runs EXCEPT ![t][ex.proc[t]].stray = TRUE]
    <3> DEFINE n == ex.proc[t]
               x == [runs[t][n] EXCEPT !.stray = TRUE]
    <3>1. n \in DOMAIN runs[t] /\ runs[t][n] \in RunRecords
      BY <1>1, <1>2, RunsAre
    <3>2. x \in RunRecords /\ x.stray
      BY <3>1 DEF RunRecords
    <3>3. runs' = [runs EXCEPT ![t] = [runs[t] EXCEPT ![n] = x]]
      BY <2>2
    <3>4. Eased(runs, runs')
      BY <1>1, <3>1, <3>2, <3>3, EasedOne
    <3>5. runs'[t][n] = x
      BY <1>1, <3>1, <3>3, RunsAre
    <3>6. Live(t)' \subseteq {n} /\ n \notin Live(t)'
      BY <1>1, <1>2, <3>2, <3>4, <3>5, LiveEased DEF TaskInv, Numbered, Live
    <3> QED
      BY <2>2, <3>4, <3>6 DEF Dead
  <2> QED
    BY <2>1, <2>2 DEF PersistHandle
<1>4. runs' \in RunsType /\ \A u \in Task :
         Live(u)' \subseteq Live(u) /\ Len(runs'[u]) = Len(runs[u]) /\ (Dead(u) => Dead(u)')
  BY <1>3, LiveEased
<1>5. /\ pc' \in PcType /\ Placed' /\ pc'.ph = pc.ph
      /\ pc'.at = "start" /\ pc'.cur = {t} /\ pc'.todo = pc.todo
  BY <1>1, HandThen DEF PersistHandle
<1>6. ex \in ExType /\ ex' \in ExType /\ ex' = [ex EXCEPT !.watched = @ \cup {t}]
  BY <1>1 DEF PersistHandle, Shape, Typed, ExType
<1>7. /\ handle' \in [Task -> Numbers] /\ handle'[t] \in {0, Len(runs[t])}
      /\ \A u \in Task \ {t} : handle'[u] = handle[u]
      /\ Dead(t)' \/ handle'[t] # 0
  BY <1>1, <1>2, <1>3 DEF Shape, Typed, StoreTyped
<1>8. Shape' /\ Starts' = Starts
  BY <1>1, <1>3, <1>4, <1>5, <1>6, <1>7, ShapeKept DEF PersistHandle, Shape, Typed, StoreTyped
<1>9. \A u \in Task \ {t} : Untouched(u)
  <2>1. task' = task /\ permit' = permit /\ evicting' = evicting
    BY DEF PersistHandle
  <2>2. /\ ex'.running = ex.running /\ ex'.spawned = ex.spawned /\ ex'.proc = ex.proc
        /\ ex'.held = ex.held /\ ex'.stopping = ex.stopping /\ ex'.watched = ex.watched \cup {t}
    BY <1>6 DEF ExType
  <2> QED
    BY <1>1, <1>4, <1>5, <1>7, <1>8, <2>1, <2>2, StartsIsNat DEF Untouched
<1>10. snap[t] # "alive" /\ snap[t] # "settled"
  BY <1>1 DEF States
<1>11. TaskInv(t)'
  BY <1>1, <1>2, <1>4, <1>5, <1>6, <1>7, <1>8, <1>10
  DEF TaskInv, Counted, Numbered, Covered, Followed, StillTrue, Waits, InHand, MayStart, Doing,
      WillStart, Idle, Remembers, HandleKept, PersistHandle, ExType, Ticking, Reloading
<1> QED
  BY <1>8, <1>9, <1>11, OnlyOne

LEMMA StartKeeps == ASSUME IInv, NEW t \in Task, Start(t) PROVE IInv'
<1> USE DEF store, clients
<1> DEFINE h == IF pc.at = "fail" THEN Failing ELSE ex.proc[t]
<1>1. /\ Shape /\ TaskInv(t) /\ snap' = snap /\ t \in pc.todo /\ pc.cur = {t}
      /\ pc.at \in {"start", "fail"} /\ pc.ph = "dispatch" /\ snap \in [Task -> States]
  BY InStep DEF IInv, Start, Shape, Placed, Ticking
<1>2. \A u \in Task : Live(u)' = Live(u) /\ Len(runs'[u]) = Len(runs[u]) /\ (Dead(u)' <=> Dead(u))
  BY LiveSame DEF Start
<1>3. /\ pc' \in PcType /\ Placed' /\ pc'.ph = pc.ph
      /\ pc'.at = "next" /\ pc'.cur = {} /\ pc'.todo = pc.todo \ {t}
  BY <1>1, HandDone DEF Start
<1>4. h \in 0..Failing /\ h # 0
  BY <1>1, NumberFacts DEF TaskInv, InHand, Doing, Shape, Typed, ExType
<1>5. /\ ex \in ExType /\ ex' \in ExType
      /\ ex' = [ex EXCEPT !.running = ex'.running, !.spawned = ex'.spawned]
      /\ \A u \in Task \ {t} : ex'.running[u] = ex.running[u] /\ ex'.spawned[u] = ex.spawned[u]
      /\ ~Idle(t)'
  <2>1. ex \in ExType
    BY <1>1 DEF Shape, Typed
  <2>2. CASE ex' = [ex EXCEPT !.running[t] = h]
    BY <1>4, <2>1, <2>2 DEF ExType, Idle
  <2>3. CASE ex' = [ex EXCEPT !.spawned[t] = h]
    BY <1>4, <2>1, <2>3 DEF ExType, Idle
  <2> QED
    BY <2>2, <2>3 DEF Start
<1>6. /\ task' \in [Task -> States]
      /\ \A u \in Task \ {t} : task'[u] = task[u]
      /\ task'[t] = task[t] \/ (task[t] = "Ready" /\ task'[t] = "Running")
      /\ Answered \/ Unanswered
  BY <1>1 DEF Start, SetRunningOk, SetRunningRefused, SetRunningUnanswered, SetRunning,
              Shape, Typed, StoreTyped, States
<1>7. Shape' /\ Starts' = Starts
  BY <1>1, <1>3, <1>5, <1>6, ShapeKept DEF Start, Shape, Typed, StoreTyped
<1>8. \A u \in Task \ {t} : Untouched(u)
  BY <1>1, <1>2, <1>3, <1>5, <1>6, <1>7, StartsIsNat DEF Untouched, Start, ExType
<1>9. /\ snap[t] # "alive" /\ snap[t] # "settled"
      /\ Dead(t) \/ ex.proc[t] = Len(runs[t])
  BY <1>1 DEF States, TaskInv, InHand, Doing
<1>10. /\ handle' = handle /\ permit' = permit /\ evicting' = evicting
       /\ ex'.proc = ex.proc /\ ex'.held = ex.held
  BY <1>5 DEF Start, ExType
<1> HIDE DEF h
<1>11. TaskInv(t)'
  BY <1>1, <1>2, <1>3, <1>5, <1>6, <1>7, <1>9, <1>10
  DEF TaskInv, Counted, Numbered, Covered, Followed, StillTrue, Waits, InHand, MayStart, Doing,
      WillStart, Remembers, HandleKept, Ticking, Reloading
<1> QED
  BY <1>7, <1>8, <1>11, OnlyOne

-----------------------------------------------------------------------------
(* Sweeping, resuming and polling what was started.                        *)

\* What the three do to the task they come to.
FollowsUp(t) ==
    /\ UNCHANGED <<handle, permit, saved, snap, asked, clients>> /\ (Answered \/ Unanswered)
    /\ task' \in [Task -> States] /\ \A u \in Task \ {t} : task'[u] = task[u]
    /\ \/ task'[t] = task[t]
       \/ task[t] \in {"Ready", "Running"} /\ task'[t] \in {"Running", "Ended", "Unknown"}
    /\ Eased(runs, runs') /\ ex' \in ExType
    /\ ex'.held = ex.held /\ ex'.watched = ex.watched /\ ex'.stopping \subseteq ex.stopping \cup {t}
    /\ \A u \in Task \ {t} :
         /\ ex'.running[u] = ex.running[u] /\ ex'.spawned[u] = ex.spawned[u]
         /\ ex'.proc[u] = ex.proc[u]
    /\ ~Idle(t)' \/ snap[t] \in Terminal \cup {"Running", "Unknown"}
    /\ \/ pc' = Done(t) /\ ex'.proc[t] = ex.proc[t] /\ (Remembers(t)' => Remembers(t))
       \/ pc' = Then("release", t) /\ ex'.proc[t] = 0 /\ Dead(t)'

LEMMA FollowsUpKeeps ==
    ASSUME IInv, NEW ph \in {"sweep", "resume", "poll"}, NEW t \in Task, At(ph, t), FollowsUp(t)
    PROVE  IInv'
<1> USE DEF store, clients
<1>1. /\ Shape /\ TaskInv(t) /\ snap' = snap
      /\ t \in pc.todo \ pc.cur /\ pc.cur = {} /\ pc.at = "next" /\ pc.ph = ph
      /\ snap \in [Task -> States]
  BY AtNext DEF IInv, FollowsUp, Shape, Placed, Ticking
<1>2. runs' \in RunsType /\ \A u \in Task :
         Live(u)' \subseteq Live(u) /\ Len(runs'[u]) = Len(runs[u]) /\ (Dead(u) => Dead(u)')
  BY LiveEased DEF FollowsUp
<1>3. /\ pc' \in PcType /\ Placed' /\ pc'.ph = pc.ph
      /\ \/ /\ pc'.at = "next" /\ pc'.cur = {} /\ pc'.todo = pc.todo \ {t}
            /\ ex'.proc[t] = ex.proc[t] /\ (Remembers(t)' => Remembers(t))
         \/ /\ pc'.at = "release" /\ pc'.cur = {t} /\ pc'.todo = pc.todo
            /\ ex'.proc[t] = 0 /\ Dead(t)'
  <2>1. CASE pc' = Done(t) /\ ex'.proc[t] = ex.proc[t] /\ (Remembers(t)' => Remembers(t))
    BY <1>1, <2>1, HandDone
  <2>2. CASE pc' = Then("release", t) /\ ex'.proc[t] = 0 /\ Dead(t)'
    BY <1>1, <2>2, HandThen
  <2> QED
    BY <2>1, <2>2 DEF FollowsUp
<1>4. Shape' /\ Starts' = Starts
  BY <1>1, <1>2, <1>3, ShapeKept DEF FollowsUp, Shape, Typed, StoreTyped
<1>5. \A u \in Task \ {t} : Untouched(u)
  BY <1>1, <1>2, <1>3, <1>4, StartsIsNat DEF Untouched, FollowsUp
<1>6. Len(runs[t]) \in Nat /\ snap[t] # "alive" /\ snap[t] # "settled"
  BY <1>1, RunsAre DEF Shape, Typed, States
<1>7. /\ handle' = handle /\ permit' = permit /\ evicting' = evicting
      /\ \/ task'[t] = task[t]
         \/ task[t] \in {"Ready", "Running"} /\ task'[t] \in {"Running", "Ended", "Unknown"}
      /\ ~Idle(t)' \/ snap[t] \in Terminal \cup {"Running", "Unknown"}
  BY DEF FollowsUp
<1>8. Counted(t)'
  BY <1>1, <1>2, <1>3, <1>4, <1>7 DEF TaskInv, Counted, Doing, MayStart, Ticking, Reloading
<1>9. Numbered(t)' /\ Covered(t)' /\ Followed(t)'
  BY <1>1, <1>2, <1>3, <1>6, <1>7 DEF TaskInv, Numbered, Covered, Followed, Doing
<1>10. StillTrue(t)' /\ Waits(t)' /\ InHand(t)'
  BY <1>1, <1>2, <1>3, <1>6, <1>7
  DEF TaskInv, StillTrue, WillStart, Waits, InHand, Doing, Terminal
<1>11. TaskInv(t)'
  BY <1>8, <1>9, <1>10 DEF TaskInv
<1> QED
  BY <1>4, <1>5, <1>11, OnlyOne

\* A live process is killed and awaited, or no run is left alive.
LEMMA ReleasePermitIs ==
    ASSUME Shape, NEW t \in Task, Numbered(t), Followed(t), Remembers(t),
           NEW e \in ExType, e.proc = ex.proc, NEW r, Eased(runs, r), ReleasePermit(t, e, r)
    PROVE  /\ Eased(runs, runs') /\ ex' \in ExType
           /\ ex'.held = e.held /\ ex'.watched = e.watched /\ ex'.stopping \subseteq e.stopping \cup {t}
           /\ ex'.running = e.running /\ ex'.spawned = e.spawned
           /\ \A u \in Task \ {t} : ex'.proc[u] = ex.proc[u]
           /\ \/ pc' = Done(t) /\ ex'.proc[t] = ex.proc[t]
              \/ pc' = Then("release", t) /\ ex'.proc[t] = 0 /\ Dead(t)'
<1> DEFINE n == e.proc[t]
<1>1. /\ runs \in RunsType /\ r \in RunsType
      /\ Len(runs[t]) \in Nat /\ Len(r[t]) = Len(runs[t]) /\ DOMAIN r[t] = 1..Len(r[t])
      /\ LiveIn(r, t) \subseteq Live(t) /\ n \in 0..Len(r[t])
  BY RunsAre, LiveIsIn DEF Eased, Shape, Typed, Numbered
<1>2. CASE n # 0 /\ r[t][n].os # "gone"
  <2> DEFINE x == [r[t][n] EXCEPT !.os = "killed"]
  <2>1. n \in DOMAIN r[t] /\ r[t][n] \in RunRecords
    BY <1>1, <1>2, RunsAre
  <2>2. x \in RunRecords /\ (x.stray \/ n \in LiveIn(r, t))
    BY <1>2, <2>1 DEF RunRecords, LiveIn
  <2>3. Eased(r, [r EXCEPT ![t] = [r[t] EXCEPT ![n] = x]])
    BY <1>1, <2>1, <2>2, EasedOne
  <2>4. /\ runs' = [r EXCEPT ![t] = [r[t] EXCEPT ![n] = x]]
        /\ ex' = [e EXCEPT !.stopping = @ \cup {t}] /\ pc' = Done(t)
    BY <1>2 DEF ReleasePermit
  <2>5. Eased(runs, runs')
    BY <1>1, <2>3, <2>4, EasedTwice
  <2>6. /\ ex' \in ExType
        /\ ex'.held = e.held /\ ex'.watched = e.watched /\ ex'.stopping = e.stopping \cup {t}
        /\ ex'.running = e.running /\ ex'.spawned = e.spawned /\ ex'.proc = ex.proc
    BY <2>4 DEF ExType
  <2> QED
    BY <2>4, <2>5, <2>6
<1>3. CASE ~(n # 0 /\ r[t][n].os # "gone")
  <2>1. runs' = r /\ ex' = [e EXCEPT !.proc[t] = 0] /\ pc' = Then("release", t)
    BY <1>3 DEF ReleasePermit
  <2>2. /\ ex' \in ExType
        /\ ex'.held = e.held /\ ex'.watched = e.watched /\ ex'.stopping = e.stopping
        /\ ex'.running = e.running /\ ex'.spawned = e.spawned
        /\ ex'.proc[t] = 0 /\ \A u \in Task \ {t} : ex'.proc[u] = ex.proc[u]
    BY <2>1, NumberFacts DEF ExType
  <2>3. Dead(t) \/ n = Len(r[t])
    BY <1>1 DEF Followed
  <2>4. n = Len(r[t]) => LiveIn(r, t) = {}
    BY <1>1, <1>3 DEF LiveIn, Numbered
  <2>5. Dead(t)'
    BY <1>1, <2>1, <2>3, <2>4, LiveIsIn DEF Dead
  <2> QED
    BY <2>1, <2>2, <2>5
<1> QED
  BY <1>2, <1>3

LEMMA MemoryWith ==
    ASSUME NEW x \in ExType, NEW t \in Task, NEW p \in 0..Lost, NEW r \in 0..Failing, NEW q \in 0..Failing
    PROVE  /\ [x EXCEPT !.pending[t] = p] \in ExType
           /\ [x EXCEPT !.running[t] = r] \in ExType
           /\ [x EXCEPT !.spawned[t] = q] \in ExType
<1> DEFINE pending == [x.pending EXCEPT ![t] = p]
           running == [x.running EXCEPT ![t] = r]
           spawned == [x.spawned EXCEPT ![t] = q]
<1>1. /\ pending \in [Task -> 0..Lost]
      /\ running \in [Task -> 0..Failing]
      /\ spawned \in [Task -> 0..Failing]
  BY DEF ExType
<1> HIDE DEF pending, running, spawned
<1>2. /\ [x EXCEPT !.pending = pending] \in ExType
      /\ [x EXCEPT !.running = running] \in ExType
      /\ [x EXCEPT !.spawned = spawned] \in ExType
  BY <1>1 DEF ExType
<1> QED
  BY <1>2 DEF pending, running, spawned

LEMMA Zeros == 0 \in 0..Lost /\ 0 \in 0..Failing
  BY NumberFacts

LEMMA SweepKeeps == ASSUME IInv, NEW t \in Task, Sweep(t) PROVE IInv'
<1> USE DEF store, clients
<1> DEFINE o == ex.pending[t]
           e == [ex EXCEPT !.pending[t] = 0, !.running[t] = 0, !.spawned[t] = 0]
<1>1. /\ At("sweep", t) /\ Shape /\ TaskInv(t) /\ snap[t] \in Terminal
      /\ UNCHANGED <<handle, permit, saved, snap, asked, clients>>
      /\ runs \in RunsType /\ ex \in ExType /\ task \in [Task -> States]
  BY AtNext DEF IInv, Sweep, TaskInv, Waits, Shape, Typed, StoreTyped
<1>2. /\ task' \in [Task -> States] /\ \A u \in Task \ {t} : task'[u] = task[u]
      /\ task'[t] = task[t] \/ (task[t] = "Running" /\ task'[t] \in {"Ended", "Unknown"})
  BY <1>1, CompleteIs DEF Sweep
<1>3. /\ e \in ExType /\ e.held = ex.held /\ e.watched = ex.watched /\ e.stopping = ex.stopping
      /\ e.proc = ex.proc
      /\ e.running = [ex.running EXCEPT ![t] = 0] /\ e.spawned = [ex.spawned EXCEPT ![t] = 0]
  <2>1. ex \in ExType
    BY <1>1
  <2>2. e \in ExType
    BY <2>1, MemoryWith, Zeros
  <2> QED
    BY <2>1, <2>2 DEF ExType
<1>4. /\ \A u \in Task \ {t} : e.running[u] = ex.running[u] /\ e.spawned[u] = ex.spawned[u]
      /\ ex.running[t] \in Nat /\ ex.spawned[t] \in Nat
  BY <1>1, <1>3, NumberFacts DEF ExType
<1>5. CASE /\ ex.running[t] + ex.spawned[t] = 0
           /\ pc' = Done(t) /\ ex' = e /\ UNCHANGED runs /\ Answered
  <2>1. Remembers(t)' => Remembers(t)
    BY <1>1, <1>3, <1>4, <1>5 DEF Remembers, Idle, ExType
  <2>2. Eased(runs, runs')
    BY <1>1, <1>5, EasedSame
  <2>3. FollowsUp(t)
    BY <1>1, <1>2, <1>3, <1>4, <1>5, <2>1, <2>2 DEF FollowsUp
  <2> QED
    BY <1>1, <2>3, FollowsUpKeeps
<1>6. CASE /\ ex.running[t] + ex.spawned[t] # 0
           /\ ReleasePermit(t, e, runs) /\ Answered
  <2>1. Remembers(t)
    BY <1>4, <1>6 DEF Remembers, Idle
  <2>2. /\ Eased(runs, runs') /\ ex' \in ExType
        /\ ex'.held = e.held /\ ex'.watched = e.watched /\ ex'.stopping \subseteq e.stopping \cup {t}
        /\ ex'.running = e.running /\ ex'.spawned = e.spawned
        /\ \A u \in Task \ {t} : ex'.proc[u] = ex.proc[u]
        /\ \/ pc' = Done(t) /\ ex'.proc[t] = ex.proc[t]
           \/ pc' = Then("release", t) /\ ex'.proc[t] = 0 /\ Dead(t)'
    <3> HIDE DEF e
    <3> QED
      BY <1>1, <1>3, <1>6, <2>1, EasedSame, ReleasePermitIs DEF TaskInv
  <2> HIDE DEF e
  <2>3. FollowsUp(t)
    BY <1>1, <1>2, <1>3, <1>4, <1>6, <2>1, <2>2 DEF FollowsUp
  <2> QED
    BY <1>1, <2>3, FollowsUpKeeps
<1>7. CASE o # 0 /\ Unanswered /\ pc' = Done(t) /\ UNCHANGED <<runs, ex>>
  <2>1. Remembers(t)' => Remembers(t)
    BY <1>1, <1>7 DEF Remembers, Idle
  <2>2. FollowsUp(t)
    BY <1>1, <1>2, <1>7, <2>1, EasedSame DEF FollowsUp
  <2> QED
    BY <1>1, <2>2, FollowsUpKeeps
<1> QED
  BY <1>5, <1>6, <1>7 DEF Sweep

LEMMA ResumeKeeps == ASSUME IInv, NEW t \in Task, Resume(t) PROVE IInv'
<1> USE DEF store, clients
<1> DEFINE watched == [ex EXCEPT !.running[t] = ex.spawned[t], !.spawned[t] = 0]
           e == [ex EXCEPT !.spawned[t] = 0]
<1>1. /\ At("resume", t) /\ Shape /\ TaskInv(t) /\ snap[t] # "Deleted" /\ ex.spawned[t] # 0
      /\ UNCHANGED <<handle, permit, saved, snap, asked, clients>>
      /\ runs \in RunsType /\ ex \in ExType /\ task \in [Task -> States] /\ snap[t] \in States
  BY AtNext DEF IInv, Resume, TaskInv, Waits, Shape, Typed, StoreTyped, Placed, Ticking
<1>2. Remembers(t) /\ Eased(runs, runs)
  BY <1>1, EasedSame DEF Remembers, Idle
<1>3. CASE /\ snap[t] \in {"Running", "Ready"} /\ pc' = Done(t) /\ UNCHANGED runs
           /\ ex' = watched \/ ex' = ex
  <2>1. /\ task' \in [Task -> States] /\ \A u \in Task \ {t} : task'[u] = task[u]
        /\ task'[t] = task[t] \/ (task[t] = "Ready" /\ task'[t] = "Running")
        /\ Answered \/ Unanswered
    BY <1>1, <1>3 DEF Resume, SetRunningOk, SetRunningRefused, SetRunningUnanswered, SetRunning,
                      Answered, States
  <2>2. /\ ex' \in ExType /\ ex'.held = ex.held /\ ex'.watched = ex.watched
        /\ ex'.stopping = ex.stopping /\ ex'.proc = ex.proc
        /\ \A u \in Task \ {t} : ex'.running[u] = ex.running[u] /\ ex'.spawned[u] = ex.spawned[u]
        /\ ~Idle(t)'
    <3>1. ex \in ExType /\ ex.spawned[t] \in 0..Failing /\ ex.spawned[t] # 0
      BY <1>1 DEF ExType
    <3>2. watched \in ExType
      BY <3>1, MemoryWith, Zeros
    <3>3. /\ watched.held = ex.held /\ watched.watched = ex.watched
          /\ watched.stopping = ex.stopping /\ watched.proc = ex.proc
          /\ watched.running = [ex.running EXCEPT ![t] = ex.spawned[t]]
          /\ watched.spawned = [ex.spawned EXCEPT ![t] = 0]
      BY <3>1 DEF ExType
    <3>4. /\ watched.running[t] = ex.spawned[t]
          /\ \A u \in Task \ {t} :
               watched.running[u] = ex.running[u] /\ watched.spawned[u] = ex.spawned[u]
      BY <3>1, <3>3 DEF ExType
    <3> HIDE DEF watched
    <3> QED
      BY <1>3, <3>1, <3>2, <3>3, <3>4 DEF Idle
  <2>3. FollowsUp(t)
    BY <1>1, <1>2, <1>3, <2>1, <2>2 DEF FollowsUp
  <2> QED
    BY <1>1, <2>3, FollowsUpKeeps
<1>4. CASE /\ snap[t] \notin {"Running", "Ready"}
           /\ ReleasePermit(t, e, runs) /\ UNCHANGED <<task, spent>>
  <2>1. /\ e \in ExType /\ e.held = ex.held /\ e.watched = ex.watched /\ e.stopping = ex.stopping
        /\ e.proc = ex.proc /\ e.running = ex.running
        /\ \A u \in Task \ {t} : e.spawned[u] = ex.spawned[u]
    <3>1. ex \in ExType
      BY <1>1
    <3>2. e \in ExType
      BY <3>1, MemoryWith, Zeros
    <3> QED
      BY <3>1, <3>2 DEF ExType
  <2> HIDE DEF e
  <2>2. /\ Eased(runs, runs') /\ ex' \in ExType
        /\ ex'.held = e.held /\ ex'.watched = e.watched /\ ex'.stopping \subseteq e.stopping \cup {t}
        /\ ex'.running = e.running /\ ex'.spawned = e.spawned
        /\ \A u \in Task \ {t} : ex'.proc[u] = ex.proc[u]
        /\ \/ pc' = Done(t) /\ ex'.proc[t] = ex.proc[t]
           \/ pc' = Then("release", t) /\ ex'.proc[t] = 0 /\ Dead(t)'
    BY <1>1, <1>2, <1>4, <2>1, ReleasePermitIs DEF TaskInv
  <2>3. snap[t] \in Terminal \cup {"Running", "Unknown"}
    BY <1>1, <1>4 DEF States, Terminal
  <2>4. FollowsUp(t)
    BY <1>1, <1>2, <1>4, <2>1, <2>2, <2>3 DEF FollowsUp, Answered
  <2> QED
    BY <1>1, <2>4, FollowsUpKeeps
<1> QED
  BY <1>3, <1>4 DEF Resume

LEMMA PollKeeps == ASSUME IInv, NEW t \in Task, Poll(t) PROVE IInv'
<1> USE DEF store, clients
<1> DEFINE e == [ex EXCEPT !.pending[t] = 0, !.running[t] = 0]
<1>1. /\ At("poll", t) /\ Shape /\ TaskInv(t) /\ snap[t] = "Running" /\ ex.running[t] # 0
      /\ UNCHANGED <<handle, permit, saved, snap, asked, clients>>
      /\ runs \in RunsType /\ ex \in ExType /\ task \in [Task -> States]
  BY AtNext DEF IInv, Poll, TaskInv, Waits, Shape, Typed, StoreTyped
<1>2. Remembers(t) /\ Eased(runs, runs)
  BY <1>1, EasedSame DEF Remembers, Idle
<1>3. CASE pc' = Done(t) /\ UNCHANGED <<task, runs, ex, spent>>
  <2>1. FollowsUp(t)
    BY <1>1, <1>2, <1>3 DEF FollowsUp, Answered
  <2> QED
    BY <1>1, <2>1, FollowsUpKeeps
<1>4. ASSUME NEW o \in Outcome(t), Complete(t, o), Answered, ReleasePermit(t, e, Taken(t, o))
      PROVE  IInv'
  <2>1. /\ e \in ExType /\ e.held = ex.held /\ e.watched = ex.watched /\ e.stopping = ex.stopping
        /\ e.proc = ex.proc /\ e.spawned = ex.spawned
        /\ \A u \in Task \ {t} : e.running[u] = ex.running[u]
    <3>1. ex \in ExType
      BY <1>1
    <3>2. e \in ExType
      BY <3>1, MemoryWith, Zeros
    <3> QED
      BY <3>1, <3>2 DEF ExType
  <2>2. Eased(runs, Taken(t, o))
    BY <1>1, TakenEases
  <2>3. /\ task' \in [Task -> States] /\ \A u \in Task \ {t} : task'[u] = task[u]
        /\ task'[t] = task[t] \/ (task[t] = "Running" /\ task'[t] \in {"Ended", "Unknown"})
    BY <1>1, <1>4, CompleteIs
  <2> HIDE DEF e
  <2>4. /\ Eased(runs, runs') /\ ex' \in ExType
        /\ ex'.held = e.held /\ ex'.watched = e.watched /\ ex'.stopping \subseteq e.stopping \cup {t}
        /\ ex'.running = e.running /\ ex'.spawned = e.spawned
        /\ \A u \in Task \ {t} : ex'.proc[u] = ex.proc[u]
        /\ \/ pc' = Done(t) /\ ex'.proc[t] = ex.proc[t]
           \/ pc' = Then("release", t) /\ ex'.proc[t] = 0 /\ Dead(t)'
    BY <1>1, <1>2, <1>4, <2>1, <2>2, ReleasePermitIs DEF TaskInv
  <2>5. FollowsUp(t)
    BY <1>1, <1>2, <1>4, <2>1, <2>3, <2>4 DEF FollowsUp
  <2> QED
    BY <1>1, <2>5, FollowsUpKeeps
<1>5. ASSUME NEW o \in Outcome(t), Unanswered, Complete(t, o) \/ UNCHANGED task,
             ex' = [ex EXCEPT !.pending[t] = o], runs' = Taken(t, o), pc' = Done(t)
      PROVE  IInv'
  <2>1. o \in 0..Lost
    BY <1>1, <1>5, NumberFacts DEF Outcome, ExType
  <2>2. /\ ex' \in ExType /\ ex'.held = ex.held /\ ex'.watched = ex.watched
        /\ ex'.stopping = ex.stopping /\ ex'.proc = ex.proc
        /\ ex'.running = ex.running /\ ex'.spawned = ex.spawned
    BY <1>1, <1>5, <2>1 DEF ExType
  <2>3. Eased(runs, runs')
    BY <1>1, <1>5, TakenEases
  <2>4. /\ task' \in [Task -> States] /\ \A u \in Task \ {t} : task'[u] = task[u]
        /\ task'[t] = task[t] \/ (task[t] = "Running" /\ task'[t] \in {"Ended", "Unknown"})
    BY <1>1, <1>5, CompleteIs
  <2>5. FollowsUp(t)
    BY <1>1, <1>2, <1>5, <2>2, <2>3, <2>4 DEF FollowsUp
  <2> QED
    BY <1>1, <2>5, FollowsUpKeeps
<1> QED
  BY <1>3, <1>4, <1>5 DEF Poll

-----------------------------------------------------------------------------
(* Clients, settlement threads and processes.                              *)

LEMMA RunnerWaits ==
    ASSUME Shape, UNCHANGED <<ex, pc, snap>>
    PROVE  ex' \in ExType /\ pc' \in PcType /\ Placed'
  BY DEF Shape, Typed, Placed

LEMMA CancelKeeps == ASSUME IInv, NEW t \in Task, Cancel(t) PROVE IInv'
<1> USE DEF store, clients
<1>1. Shape /\ TaskInv(t) /\ UNCHANGED <<ex, pc, snap>> /\ ex' \in ExType /\ pc' \in PcType /\ Placed'
  BY RunnerWaits DEF IInv, Cancel
<1>2. \A u \in Task : Live(u)' = Live(u) /\ Len(runs'[u]) = Len(runs[u]) /\ (Dead(u)' <=> Dead(u))
  BY LiveSame DEF Cancel
<1>3. /\ task' \in [Task -> States] /\ task'[t] = "Cancelled" /\ task[t] # "Deleted"
      /\ \A u \in Task \ {t} : task'[u] = task[u]
  BY <1>1 DEF Cancel, Shape, Typed, StoreTyped, States
<1>4. confirm' \in BOOLEAN
  BY <1>1 DEF Cancel
<1>5. Shape' /\ Starts' = Starts
  BY <1>1, <1>3, <1>4, ShapeKept DEF Cancel, Answered, Shape, Typed, StoreTyped
<1>6. \A u \in Task \ {t} : Untouched(u)
  BY <1>1, <1>2, <1>3, <1>5, StartsIsNat DEF Untouched, Cancel
<1>7. TaskInv(t)'
  BY <1>1, <1>2, <1>3, <1>5
  DEF TaskInv, Counted, Numbered, Covered, Followed, StillTrue, Waits, InHand, MayStart, Doing,
      WillStart, Idle, Remembers, HandleKept, Cancel
<1> QED
  BY <1>5, <1>6, <1>7, OnlyOne

LEMMA RetryKeeps == ASSUME IInv, NEW t \in Task, Retry(t) PROVE IInv'
<1> USE DEF store, clients
<1>1. Shape /\ TaskInv(t) /\ UNCHANGED <<ex, pc, snap>> /\ ex' \in ExType /\ pc' \in PcType /\ Placed'
  BY RunnerWaits DEF IInv, Retry
<1>2. \A u \in Task : Live(u)' = Live(u) /\ Len(runs'[u]) = Len(runs[u]) /\ (Dead(u)' <=> Dead(u))
  BY LiveSame DEF Retry
<1>3. /\ task' \in [Task -> States] /\ task'[t] = "Ready" /\ task[t] # "Deleted"
      /\ \A u \in Task \ {t} : task'[u] = task[u]
      /\ bg' \in [Task -> Numbers]
  BY <1>1, NumberFacts DEF Retry, Shape, Typed, StoreTyped, States, Terminal
<1>4. /\ spent' \in [retries : Nat, silent : Nat, halts : Nat]
      /\ spent'.retries = spent.retries + 1 /\ spent'.halts = spent.halts
      /\ spent'.silent = spent.silent
      /\ {spent.retries, spent.halts, spent.silent} \subseteq Nat /\ spent.retries < MaxRetries
  BY <1>1 DEF Retry, Shape, Typed
<1>5. Starts' = Starts + 1
  BY <1>4 DEF Starts, Retry
<1>6. Shape'
  <2>1. Bounded'
    BY <1>1, <1>4, NumberFacts DEF Bounded, Shape, Faults, Retry
  <2>2. Typed'
    BY <1>1, <1>3, <1>4 DEF Retry, Shape, Typed, StoreTyped
  <2> QED
    BY <1>1, <2>1, <2>2 DEF Shape
<1>7. Starts \in Nat /\ Len(runs[t]) \in Nat
  BY <1>1, StartsIsNat, RunsAre DEF Shape, Typed
<1>8. \A u \in Task \ {t} : Untouched(u)
  BY <1>1, <1>2, <1>3, <1>5, <1>7 DEF Untouched, Retry
<1>9. TaskInv(t)'
  BY <1>1, <1>2, <1>3, <1>5, <1>7
  DEF TaskInv, Counted, Numbered, Covered, Followed, StillTrue, Waits, InHand, MayStart, Doing,
      WillStart, Idle, Remembers, HandleKept, Retry
<1> QED
  BY <1>6, <1>8, <1>9, OnlyOne

LEMMA DeleteKeeps == ASSUME IInv, NEW t \in Task, Delete(t) PROVE IInv'
<1> USE DEF store, clients
<1>1. Shape /\ TaskInv(t) /\ UNCHANGED <<ex, pc, snap>> /\ ex' \in ExType /\ pc' \in PcType /\ Placed'
  BY RunnerWaits DEF IInv, Delete
<1>2. \A u \in Task : Live(u)' = Live(u) /\ Len(runs'[u]) = Len(runs[u]) /\ (Dead(u)' <=> Dead(u))
  BY LiveSame DEF Delete
<1>3. /\ task' \in [Task -> States] /\ task'[t] = "Deleted" /\ handle[t] = 0
      /\ \A u \in Task \ {t} : task'[u] = task[u]
  BY <1>1 DEF Delete, Deletable, Shape, Typed, StoreTyped, States
<1>4. Shape' /\ Starts' = Starts
  BY <1>1, <1>3, ShapeKept DEF Delete, Answered, Shape, Typed, StoreTyped
<1>5. \A u \in Task \ {t} : Untouched(u)
  BY <1>1, <1>2, <1>3, <1>4, StartsIsNat DEF Untouched, Delete
<1>6. TaskInv(t)'
  BY <1>1, <1>2, <1>3, <1>4
  DEF TaskInv, Counted, Numbered, Covered, Followed, StillTrue, Waits, InHand, MayStart, Doing,
      WillStart, Idle, Remembers, HandleKept, Delete
<1> QED
  BY <1>4, <1>5, <1>6, OnlyOne

LEMMA EvictSideKeysKeeps == ASSUME IInv, NEW t \in Task, EvictSideKeys(t) PROVE IInv'
<1> USE DEF store, clients
<1>1. Shape /\ TaskInv(t) /\ UNCHANGED <<ex, pc, snap>> /\ ex' \in ExType /\ pc' \in PcType /\ Placed'
  BY RunnerWaits DEF IInv, EvictSideKeys
<1>2. \A u \in Task : Live(u)' = Live(u) /\ Len(runs'[u]) = Len(runs[u]) /\ (Dead(u)' <=> Dead(u))
  BY LiveSame DEF EvictSideKeys
<1>3. /\ task[t] = "Deleted" /\ handle'[t] = 0 /\ StoreTyped'
      /\ \A u \in Task \ {t} : handle'[u] = handle[u]
  BY <1>1, NumberFacts DEF EvictSideKeys, Shape, Typed, StoreTyped, TaskInv, Numbered
<1>4. Shape' /\ Starts' = Starts
  BY <1>1, <1>3, ShapeKept DEF EvictSideKeys, Answered, Shape, Typed
<1>5. \A u \in Task \ {t} : Untouched(u)
  BY <1>1, <1>2, <1>3, <1>4, StartsIsNat DEF Untouched, EvictSideKeys
<1>6. TaskInv(t)'
  BY <1>1, <1>2, <1>3, <1>4
  DEF TaskInv, Counted, Numbered, Covered, Followed, StillTrue, Waits, InHand, MayStart, Doing,
      WillStart, Idle, Remembers, HandleKept, EvictSideKeys
<1> QED
  BY <1>4, <1>5, <1>6, OnlyOne

LEMMA BgFinishKeeps == ASSUME IInv, NEW t \in Task, BgFinish(t) PROVE IInv'
<1> USE DEF store, clients
<1>1. Shape /\ TaskInv(t) /\ UNCHANGED <<ex, pc, snap>> /\ ex' \in ExType /\ pc' \in PcType /\ Placed'
  BY RunnerWaits DEF IInv, BgFinish
<1>2. \A u \in Task : Live(u)' = Live(u) /\ Len(runs'[u]) = Len(runs[u]) /\ (Dead(u)' <=> Dead(u))
  BY LiveSame DEF BgFinish
<1>3. /\ handle'[t] = 0 /\ StoreTyped' /\ \A u \in Task \ {t} : handle'[u] = handle[u]
  BY <1>1, NumberFacts DEF BgFinish, Shape, Typed, StoreTyped
<1>4. Dead(t)
  BY <1>1, HandleNames DEF BgFinish, Captured, TaskInv
<1>5. Shape' /\ Starts' = Starts
  BY <1>1, <1>3, ShapeKept DEF BgFinish, Answered, Shape, Typed
<1>6. \A u \in Task \ {t} : Untouched(u)
  BY <1>1, <1>2, <1>3, <1>5, StartsIsNat DEF Untouched, BgFinish
<1>7. TaskInv(t)'
  BY <1>1, <1>2, <1>3, <1>4, <1>5
  DEF TaskInv, Counted, Numbered, Covered, Followed, StillTrue, Waits, InHand, MayStart, Doing,
      WillStart, Idle, Remembers, HandleKept, BgFinish, Captured, Terminal
<1> QED
  BY <1>5, <1>6, <1>7, OnlyOne

\* A process that is killed or ends, or whose end is saved.
LEMMA ProcessKeeps ==
    ASSUME IInv, NEW t \in Task, Eased(runs, runs'), saved' \in [Task -> Numbers],
           UNCHANGED <<task, handle, permit, ex, pc, snap, asked, clients, spent>>
    PROVE  IInv'
<1> USE DEF store, clients
<1>1. Shape /\ UNCHANGED <<ex, pc, snap>> /\ ex' \in ExType /\ pc' \in PcType /\ Placed'
  BY RunnerWaits DEF IInv
<1>2. runs' \in RunsType /\ \A u \in Task :
         Live(u)' \subseteq Live(u) /\ Len(runs'[u]) = Len(runs[u]) /\ (Dead(u) => Dead(u)')
  BY LiveEased
<1>3. Shape' /\ Starts' = Starts
  BY <1>1, <1>2, ShapeKept DEF Answered, Shape, Typed, StoreTyped
<1>4. \A u \in Task : Untouched(u)
  BY <1>1, <1>2, <1>3, StartsIsNat DEF Untouched
<1> QED
  BY <1>3, <1>4, NobodyTouched

LEMMA BgKillKeeps == ASSUME IInv, NEW t \in Task, BgKill(t) PROVE IInv'
<1> USE DEF store, clients
<1>1. Shape /\ Numbered(t) /\ runs \in RunsType /\ saved' \in [Task -> Numbers]
  BY DEF IInv, Shape, Typed, StoreTyped, TaskInv, BgKill
<1>2. Eased(runs, runs')
  BY <1>1, HandleNames, KillEases DEF BgKill, Captured
<1> QED
  BY <1>1, <1>2, ProcessKeeps DEF BgKill

LEMMA ExitKeeps ==
    ASSUME IInv, NEW t \in Task, NEW n \in DOMAIN runs[t], Exit(t, n) PROVE IInv'
<1> USE DEF store, clients
<1>1. runs \in RunsType /\ saved' \in [Task -> Numbers]
  BY DEF IInv, Shape, Typed, StoreTyped, Exit
<1>2. Eased(runs, runs')
  BY <1>1, ExitEases
<1> QED
  BY <1>1, <1>2, ProcessKeeps DEF Exit

LEMMA WatcherSavesKeeps ==
    ASSUME IInv, NEW t \in Task, NEW n \in DOMAIN runs[t], WatcherSaves(t, n) PROVE IInv'
<1> USE DEF store, clients
<1>1. Shape /\ runs \in RunsType /\ saved \in [Task -> Numbers] /\ Counted(t)
  BY DEF IInv, Shape, Typed, StoreTyped, TaskInv
<1>2. Eased(runs, runs')
  BY <1>1, WatcherEases
<1>3. n \in Numbers
  BY <1>1, RunsAre, StartsIsNat, NumberFacts DEF Counted
<1>4. saved' \in [Task -> Numbers]
  BY <1>1, <1>3 DEF WatcherSaves
<1> QED
  BY <1>2, <1>4, ProcessKeeps DEF WatcherSaves

LEMMA ConfirmKeeps == ASSUME IInv, Confirm PROVE IInv'
<1> USE DEF store, clients
<1>1. Shape /\ UNCHANGED <<ex, pc, snap>> /\ ex' \in ExType /\ pc' \in PcType /\ Placed'
  BY RunnerWaits DEF IInv, Confirm
<1>2. \A u \in Task : Live(u)' = Live(u) /\ Len(runs'[u]) = Len(runs[u]) /\ (Dead(u)' <=> Dead(u))
  BY LiveSame DEF Confirm
<1>3. StoreTyped' /\ confirm' \in BOOLEAN
  BY <1>1 DEF Confirm, Shape, Typed, StoreTyped
<1>4. Shape' /\ Starts' = Starts
  BY <1>1, <1>3, ShapeKept DEF Confirm, Answered, Shape, Typed
<1>5. \A u \in Task : Untouched(u)
  BY <1>1, <1>2, <1>4, StartsIsNat DEF Untouched, Confirm
<1> QED
  BY <1>4, <1>5, NobodyTouched

-----------------------------------------------------------------------------
(* The phases of a reload and of a tick.                                   *)

LEMMA BetweenTasks ==
    ASSUME Shape, pc.at = "next" \/ pc.ph \in {"off", "down", "idle", "settle", "purge", "purged", "classify"}
    PROVE  pc.at = "next" /\ pc.cur = {}
<1>1. pc.at \in {"next", "await", "release", "evict", "forget", "spawn", "persist", "fail", "start"}
  BY DEF Shape, Typed, PcType
<1>2. pc.at = "next"
  BY <1>1 DEF Shape, Placed
<1> QED
  BY <1>2 DEF Shape, Placed

LEMMA ReadCandidatesKeeps == ASSUME IInv, ReadCandidates PROVE IInv'
<1> USE DEF store, clients
<1>1. Shape /\ pc.ph = "purge" /\ pc.at = "next" /\ pc.cur = {} /\ snap' = snap /\ snap = Nothing
  BY BetweenTasks DEF IInv, ReadCandidates, Shape, Placed, Ticking
<1>2. \A u \in Task : Live(u)' = Live(u) /\ Len(runs'[u]) = Len(runs[u]) /\ (Dead(u)' <=> Dead(u))
  BY LiveSame DEF ReadCandidates
<1>3. /\ pc' \in PcType /\ pc'.ph = "purged" /\ pc'.at = "next" /\ pc'.cur = {}
      /\ pc'.todo = {t \in Task : task[t] = "Running" /\ handle[t] = 0}
  BY <1>1 DEF ReadCandidates, Shape, Typed, PcType, Reloading
<1>4. Placed'
  BY <1>1, <1>3 DEF Placed, Ticking
<1>5. Shape' /\ Starts' = Starts
  BY <1>1, <1>3, <1>4, ShapeKept DEF ReadCandidates, Answered, Shape, Typed, StoreTyped
<1>6. ASSUME NEW u \in Task PROVE TaskInv(u)'
  <2>1. TaskInv(u) /\ (u \in pc'.todo => Dead(u)) /\ snap[u] = "none"
    BY <1>1, <1>3 DEF IInv, TaskInv, Covered, Doing, Nothing
  <2> QED
    BY <1>1, <1>2, <1>3, <1>5, <2>1
    DEF TaskInv, Counted, Numbered, Covered, Followed, StillTrue, Waits, InHand, MayStart, Doing,
        WillStart, Idle, Remembers, HandleKept, ReadCandidates, Ticking, Reloading
<1> QED
  BY <1>5, <1>6 DEF IInv

LEMMA PurgeAndListHandlesKeeps == ASSUME IInv, PurgeAndListHandles PROVE IInv'
<1> USE DEF store, clients
<1>1. Shape /\ pc.ph = "purged" /\ pc.at = "next" /\ pc.cur = {} /\ snap' = snap /\ snap = Nothing
  BY BetweenTasks DEF IInv, PurgeAndListHandles, Shape, Placed, Ticking
<1>2. \A u \in Task : Live(u)' = Live(u) /\ Len(runs'[u]) = Len(runs[u]) /\ (Dead(u)' <=> Dead(u))
  BY LiveSame DEF PurgeAndListHandles
<1>3. /\ pc' \in PcType /\ pc'.ph = "classify" /\ pc'.at = "next" /\ pc'.cur = {}
  BY <1>1 DEF PurgeAndListHandles, Shape, Typed, PcType, Reloading
<1>4. Placed'
  BY <1>1, <1>3 DEF Placed, Ticking, Nothing, Findings
<1>5. /\ task' \in [Task -> States] /\ permit' \subseteq permit
      /\ \A u \in Task : /\ task'[u] = task[u] \/ (u \in pc.todo /\ task[u] = "Running" /\ task'[u] = "Ended")
                         /\ u \in permit \ pc.todo => u \in permit'
  BY <1>1 DEF PurgeAndListHandles, Shape, Typed, StoreTyped, States
<1>6. Shape' /\ Starts' = Starts
  BY <1>1, <1>3, <1>4, <1>5, ShapeKept DEF PurgeAndListHandles, Answered, Shape, Typed, StoreTyped
<1>7. ASSUME NEW u \in Task PROVE TaskInv(u)'
  <2>1. TaskInv(u) /\ (u \in pc.todo => Dead(u)) /\ snap[u] = "none"
    BY <1>1 DEF IInv, TaskInv, Waits, Nothing
  <2>2. UNCHANGED <<handle, ex, evicting>>
    BY DEF PurgeAndListHandles
  <2> QED
    BY <1>1, <1>2, <1>3, <1>5, <1>6, <2>1, <2>2
    DEF TaskInv, Counted, Numbered, Covered, Followed, StillTrue, Waits, InHand, MayStart, Doing,
        WillStart, Idle, Remembers, HandleKept, Ticking, Reloading
<1> QED
  BY <1>6, <1>7 DEF IInv

LEMMA ReloadContinuesKeeps == ASSUME IInv, ReloadContinues PROVE IInv'
<1> USE DEF store, clients
<1>1. /\ Shape /\ pc.ph \in {"classify", "ended"} /\ pc.at = "next" /\ pc.cur = {}
      /\ snap' = snap /\ snap \in [Task -> Findings]
  BY BetweenTasks DEF IInv, ReloadContinues, Shape, Placed, Ticking
<1>2. \A u \in Task : Live(u)' = Live(u) /\ Len(runs'[u]) = Len(runs[u]) /\ (Dead(u)' <=> Dead(u))
  BY LiveSame DEF ReloadContinues
<1>3. /\ pc' \in PcType /\ pc'.at = "next" /\ pc'.cur = {}
      /\ \/ pc'.ph = "ended"
         \/ pc'.ph = "settled" /\ \A u \in pc'.todo : snap[u] = "settled"
  <2>1. PICK phase \in {<<"classify", "ended">>, <<"ended", "settled">>} :
           pc' = [pc EXCEPT !.ph = phase[2], !.todo = {t \in Task : snap[t] = phase[2]}]
    BY DEF ReloadContinues
  <2>2. pc \in PcType /\ phase[2] \in {"ended", "settled"}
    BY <1>1 DEF Shape, Typed
  <2>3. /\ pc' \in PcType /\ pc'.at = pc.at /\ pc'.cur = pc.cur
        /\ pc'.ph = phase[2] /\ pc'.todo = {t \in Task : snap[t] = phase[2]}
    BY <2>1, <2>2 DEF PcType, Reloading
  <2> QED
    BY <1>1, <2>2, <2>3
<1>4. Placed'
  BY <1>1, <1>3 DEF Placed, Ticking
<1>5. /\ handle' \in [Task -> Numbers]
      /\ \A u \in Task : handle'[u] = handle[u] \/ (snap[u] = "stale" /\ handle'[u] = 0)
  BY <1>1, NumberFacts DEF ReloadContinues, Shape, Typed, StoreTyped
<1>6. Shape' /\ Starts' = Starts
  BY <1>1, <1>3, <1>4, <1>5, ShapeKept DEF ReloadContinues, Answered, Shape, Typed, StoreTyped
<1>7. ASSUME NEW u \in Task PROVE TaskInv(u)'
  <2>1. TaskInv(u) /\ (snap[u] = "stale" => task[u] = "Deleted") /\ snap[u] # "Ready"
    BY <1>1 DEF IInv, TaskInv, StillTrue, Findings
  <2>2. UNCHANGED <<task, permit, ex, evicting>>
    BY DEF ReloadContinues
  <2> QED
    BY <1>1, <1>2, <1>3, <1>5, <1>6, <2>1, <2>2
    DEF TaskInv, Counted, Numbered, Covered, Followed, StillTrue, Waits, InHand, MayStart, Doing,
        WillStart, Idle, Remembers, HandleKept, Ticking, Reloading
<1> QED
  BY <1>6, <1>7 DEF IInv

LEMMA WatchRestoredKeeps == ASSUME IInv, WatchRestored PROVE IInv'
<1> USE DEF store, clients
<1> DEFINE alive == {t \in Task : snap[t] = "alive"}
           kept == {t \in alive : handle[t] # 0}
           adopted == [Blank EXCEPT
                         !.running = [t \in Task |-> IF t \in alive THEN Len(runs[t]) ELSE 0],
                         !.held = kept, !.watched = kept,
                         !.proc = [t \in Task |-> IF t \in kept THEN handle[t] ELSE 0]]
<1>1. /\ Shape /\ pc.ph = "settled" /\ pc.at = "next" /\ pc.cur = {} /\ pc.todo = {} /\ snap' = Nothing
      /\ UNCHANGED <<task, handle, permit, saved, runs, asked, confirm, bg, evicting, spent>>
  BY BetweenTasks DEF IInv, WatchRestored
<1>2. \A u \in Task : Live(u)' = Live(u) /\ Len(runs'[u]) = Len(runs[u]) /\ (Dead(u)' <=> Dead(u))
  BY <1>1, LiveSame
<1>3. ASSUME NEW u \in Task
      PROVE  Len(runs[u]) \in Numbers /\ Len(runs[u]) \in 0..Failing /\ handle[u] \in Numbers
  <2>1. Len(runs[u]) \in Nat /\ handle[u] \in Numbers
    BY <1>1, RunsAre DEF Shape, Typed, StoreTyped
  <2>2. Len(runs[u]) <= 1 + Starts /\ Starts \in Nat /\ Starts + 1 <= MaxRuns
    BY <1>1, StartsIsNat DEF IInv, TaskInv, Counted
  <2> QED
    BY <2>1, <2>2, NumberFacts
<1>4. Blank \in ExType /\ adopted \in ExType
  BY <1>3, NumberFacts, Zeros DEF Blank, ExType
<1>5. /\ ex' \in ExType
      /\ \/ ex' = Blank /\ pc' = Off
         \/ ex' = adopted /\ pc' = [pc EXCEPT !.ph = "idle"]
  BY <1>4 DEF WatchRestored
<1>6. pc' \in PcType /\ Placed' /\ pc'.at = "next" /\ pc'.cur = {} /\ pc'.todo = {} /\ pc'.ph \in {"off", "idle"}
  <2>1. /\ pc' \in PcType /\ pc'.at = "next" /\ pc'.cur = {} /\ pc'.todo = {} /\ pc'.ph \in {"off", "idle"}
        /\ pc'.ph = "off" => ex' = Blank
    BY <1>1, <1>5 DEF Shape, Typed, PcType, Off
  <2> QED
    BY <1>1, <2>1 DEF Placed, Ticking
<1>7. Shape' /\ Starts' = Starts
  BY <1>1, <1>5, <1>6, ShapeKept DEF Answered, Shape, Typed, StoreTyped
<1>8. ASSUME NEW u \in Task PROVE TaskInv(u)'
  <2>1. /\ TaskInv(u) /\ Len(runs[u]) \in Nat
        /\ task[u] = "Ready" => MayStart(u)
        /\ snap[u] = "alive" => HandleKept(u)
    BY <1>1, RunsAre DEF IInv, TaskInv, Counted, Doing, Reloading, StillTrue, Shape, Typed
  <2>2. /\ ex'.proc[u] \in {0, handle[u]}
        /\ Remembers(u)' => snap[u] = "alive" /\ (handle[u] # 0 => ex'.proc[u] = handle[u])
    <3>1. CASE ex' = Blank
      BY <3>1 DEF Blank, Remembers, Idle
    <3>2. CASE ex' = adopted
      BY <3>2 DEF Blank, Remembers, Idle
    <3> QED
      BY <1>5, <3>1, <3>2
  <2>3. snap'[u] = "none"
    BY <1>1 DEF Nothing
  <2>4. Followed(u)'
    BY <1>1, <1>2, <2>1, <2>2 DEF Followed, HandleKept, TaskInv, Numbered
  <2> QED
    BY <1>1, <1>2, <1>6, <1>7, <2>1, <2>2, <2>3, <2>4
    DEF TaskInv, Counted, Numbered, Covered, StillTrue, Waits, InHand, MayStart, Doing,
        WillStart, HandleKept, Ticking, Reloading
<1> QED
  BY <1>7, <1>8 DEF IInv

LEMMA TickBeginsKeeps == ASSUME IInv, TickBegins PROVE IInv'
<1> USE DEF store, clients
<1>1. Shape /\ pc.ph = "idle" /\ pc.at = "next" /\ pc.cur = {} /\ snap' = snap /\ snap = Nothing
  BY BetweenTasks DEF IInv, TickBegins, Shape, Placed, Ticking
<1>2. \A u \in Task : Live(u)' = Live(u) /\ Len(runs'[u]) = Len(runs[u]) /\ (Dead(u)' <=> Dead(u))
  BY LiveSame DEF TickBegins
<1>3. pc' \in PcType /\ pc'.ph = "settle" /\ pc'.at = "next" /\ pc'.cur = {}
  BY <1>1 DEF TickBegins, Shape, Typed, PcType
<1>4. Placed'
  BY <1>1, <1>3 DEF Placed, Ticking
<1>5. Shape' /\ Starts' = Starts
  BY <1>1, <1>3, <1>4, ShapeKept DEF TickBegins, Answered, Shape, Typed, StoreTyped
<1>6. ASSUME NEW u \in Task PROVE TaskInv(u)'
  <2>1. TaskInv(u) /\ snap[u] = "none"
    BY <1>1 DEF IInv, Nothing
  <2>2. UNCHANGED <<task, handle, permit, ex, evicting>>
    BY DEF TickBegins
  <2> QED
    BY <1>1, <1>2, <1>3, <1>5, <2>1, <2>2
    DEF TaskInv, Counted, Numbered, Covered, Followed, StillTrue, Waits, InHand, MayStart, Doing,
        WillStart, Idle, Remembers, HandleKept, Ticking, Reloading
<1> QED
  BY <1>5, <1>6 DEF IInv

LEMMA TakeSnapshotKeeps == ASSUME IInv, TakeSnapshot PROVE IInv'
<1> USE DEF store, clients
<1> DEFINE ended == {t \in ex.stopping : ex.proc[t] = 0 \/ ~Alive(t, ex.proc[t])}
<1>1. Shape /\ pc.ph = "settle" /\ pc.at = "next" /\ pc.cur = {}
  BY BetweenTasks DEF IInv, TakeSnapshot
<1>2. \A u \in Task : Live(u)' = Live(u) /\ Len(runs'[u]) = Len(runs[u]) /\ (Dead(u)' <=> Dead(u))
  BY LiveSame DEF TakeSnapshot
<1>3. /\ ex \in ExType /\ ex' \in ExType /\ ended \subseteq Task
      /\ ex'.running = ex.running /\ ex'.spawned = ex.spawned /\ ex'.proc = ex.proc
      /\ ex'.held = ex.held /\ ex'.watched = ex.watched /\ ex'.stopping \subseteq ex.stopping
  BY <1>1 DEF TakeSnapshot, Shape, Typed, ExType
<1>4. pc' \in PcType /\ pc'.ph = "maintain" /\ pc'.at = "next" /\ pc'.cur = {} /\ pc'.todo = ended
  BY <1>1, <1>3 DEF TakeSnapshot, Shape, Typed, PcType, Ticking
<1>5. /\ snap' \in [Task -> States]
      /\ \A u \in Task : snap'[u] = task[u] \/ snap'[u] = "Deleted"
      /\ Answered \/ Unanswered
  BY <1>1 DEF TakeSnapshot, Listed, States, Shape, Typed, StoreTyped
<1>6. Placed'
  BY <1>1, <1>4, <1>5 DEF Placed, Ticking
<1>7. Shape' /\ Starts' = Starts
  BY <1>1, <1>3, <1>4, <1>5, <1>6, ShapeKept DEF TakeSnapshot, Shape, Typed, StoreTyped
<1>8. ASSUME NEW u \in Task PROVE TaskInv(u)'
  <2>1. TaskInv(u) /\ Len(runs[u]) \in Nat /\ DOMAIN runs[u] = 1..Len(runs[u])
    BY <1>1, RunsAre DEF IInv, Shape, Typed
  <2>2. u \in pc'.todo => Dead(u)
    <3>1. SUFFICES ASSUME u \in ended, ~Dead(u) PROVE FALSE
      BY <1>4
    <3>2. ex.proc[u] = Len(runs[u])
      BY <2>1, <3>1 DEF TaskInv, Followed, Remembers
    <3> QED
      BY <2>1, <3>1, <3>2 DEF TaskInv, Numbered, Dead, Live
  <2>3. snap'[u] # "alive" /\ snap'[u] # "settled" /\ snap'[u] # "stale"
    BY <1>5 DEF States
  <2>4. UNCHANGED <<task, handle, permit, evicting>>
    BY DEF TakeSnapshot
  <2>5. StillTrue(u)'
    BY <1>1, <1>2, <1>3, <1>4, <1>5, <1>7, <2>1, <2>3, <2>4
    DEF TaskInv, Counted, Covered, StillTrue, WillStart, Idle, MayStart, HandleKept, Doing
  <2>6. Counted(u)'
    BY <1>1, <1>2, <1>3, <1>4, <1>5, <1>7, <2>1, <2>4
    DEF TaskInv, Counted, Idle, MayStart, Doing, Terminal, Reloading
  <2> QED
    BY <1>1, <1>2, <1>3, <1>4, <2>1, <2>2, <2>4, <2>5, <2>6
    DEF TaskInv, Numbered, Covered, Followed, Waits, InHand, Doing, Remembers, Idle
<1> QED
  BY <1>7, <1>8 DEF IInv

\* The phases a tick can go on to have something to do.
LEMMA NextPhase ==
    ASSUME PhaseEnds
    PROVE  \/ pc' = [pc EXCEPT !.ph = "idle"] /\ snap' = Nothing
           \/ /\ snap' = snap
              /\ \E ph \in {"sweep", "resume", "poll", "dispatch"} :
                   /\ pc.ph # "dispatch"
                   /\ pc' = [pc EXCEPT !.ph = ph, !.todo = Work(ph)]
<1>1. PICK i \in DOMAIN Phases :
        /\ pc.ph = Phases[i]
        /\ LET later == {j \in DOMAIN Phases : j > i /\ Work(Phases[j]) # {}}
               next  == CHOOSE j \in later : \A k \in later : j <= k
           IN IF later = {}
                THEN pc' = [pc EXCEPT !.ph = "idle"] /\ snap' = Nothing
                ELSE pc' = [pc EXCEPT !.ph = Phases[next], !.todo = Work(Phases[next])] /\ UNCHANGED snap
  BY DEF PhaseEnds
<1> DEFINE later == {j \in DOMAIN Phases : j > i /\ Work(Phases[j]) # {}}
           next  == CHOOSE j \in later : \A k \in later : j <= k
<1>2. CASE later = {}
  BY <1>1, <1>2
<1>3. CASE later # {}
  <2>1. later \subseteq {2, 3, 4, 5} /\ (\A j \in later : j > i) /\ i \in 1..5
    <3>1. DOMAIN Phases = 1..5
      BY DEF Phases
    <3> QED
      BY <1>1, <3>1
  <2>2. \E j \in later : \A k \in later : j <= k
    <3> HIDE DEF later
    <3>1. CASE 2 \in later
      BY <2>1, <3>1
    <3>2. CASE 2 \notin later /\ 3 \in later
      BY <2>1, <3>2
    <3>3. CASE 2 \notin later /\ 3 \notin later /\ 4 \in later
      BY <2>1, <3>3
    <3>4. CASE 2 \notin later /\ 3 \notin later /\ 4 \notin later
      <4>1. later = {5}
        BY <1>3, <2>1, <3>4
      <4> QED
        BY <4>1
    <3> QED
      BY <3>1, <3>2, <3>3, <3>4
  <2>3. next \in later
    <3> HIDE DEF later
    <3> QED
      BY <2>2
  <2>4. next \in {2, 3, 4, 5} /\ i < next
    <3> HIDE DEF later, next
    <3> QED
      BY <2>1, <2>3
  <2>5. pc' = [pc EXCEPT !.ph = Phases[next], !.todo = Work(Phases[next])] /\ snap' = snap
    BY <1>1, <1>3
  <2> HIDE DEF next, later
  <2>6. Phases[next] \in {"sweep", "resume", "poll", "dispatch"}
    BY <2>4 DEF Phases
  <2>7. pc.ph # "dispatch"
    <3>1. i \in {1, 2, 3, 4}
      BY <2>1, <2>4
    <3>2. Phases[i] # "dispatch"
      BY <3>1 DEF Phases
    <3> QED
      BY <1>1, <3>2
  <2> QED
    BY <2>5, <2>6, <2>7
<1> QED
  BY <1>2, <1>3

LEMMA PhaseEndsKeeps == ASSUME IInv, PhaseEnds PROVE IInv'
<1> USE DEF store, clients
<1>1. /\ Shape /\ pc.at = "next" /\ pc.cur = {} /\ pc.todo = {} /\ pc.ph \in Ticking
      /\ snap \in [Task -> States]
      /\ UNCHANGED <<task, handle, permit, saved, runs, ex, asked, confirm, bg, evicting, spent>>
  <2>1. pc.ph \in Ticking
    <3>1. DOMAIN Phases = 1..5
      BY DEF Phases
    <3>2. PICK i \in 1..5 : pc.ph = Phases[i]
      BY <3>1 DEF PhaseEnds
    <3>3. i \in {1, 2, 3, 4, 5}
      OBVIOUS
    <3>4. pc.ph \in {"maintain", "sweep", "resume", "poll", "dispatch"}
      BY <3>2, <3>3 DEF Phases
    <3> QED
      BY <3>4 DEF Ticking
  <2>2. /\ pc.todo = {} /\ pc.at = "next"
        /\ UNCHANGED <<task, handle, permit, saved, runs, ex, asked, confirm, bg, evicting, spent>>
    BY DEF PhaseEnds
  <2>3. Shape /\ snap \in [Task -> States]
    BY <2>1 DEF IInv, Shape, Placed, Ticking
  <2> QED
    BY <2>1, <2>2, <2>3, BetweenTasks
<1>2. \A u \in Task : Live(u)' = Live(u) /\ Len(runs'[u]) = Len(runs[u]) /\ (Dead(u)' <=> Dead(u))
  BY <1>1, LiveSame
<1>3. CASE pc' = [pc EXCEPT !.ph = "idle"] /\ snap' = Nothing
  <2>1. /\ pc' \in PcType /\ pc'.ph = "idle" /\ pc'.at = "next" /\ pc'.cur = {} /\ pc'.todo = {}
    BY <1>1, <1>3 DEF Shape, Typed, PcType
  <2>2. Placed'
    BY <1>1, <1>3, <2>1 DEF Placed, Ticking
  <2>3. Shape' /\ Starts' = Starts
    BY <1>1, <2>1, <2>2, ShapeKept DEF Answered, Shape, Typed, StoreTyped
  <2>4. ASSUME NEW u \in Task PROVE TaskInv(u)'
    <3>1. TaskInv(u) /\ snap'[u] = "none"
      BY <1>3 DEF IInv, Nothing
    <3> QED
      BY <1>1, <1>2, <2>1, <2>3, <3>1
      DEF TaskInv, Counted, Numbered, Covered, Followed, StillTrue, Waits, InHand, MayStart, Doing,
          WillStart, Idle, Remembers, HandleKept, Ticking, Reloading
  <2> QED
    BY <2>3, <2>4 DEF IInv
<1>4. ASSUME NEW ph \in {"sweep", "resume", "poll", "dispatch"}, pc.ph # "dispatch", snap' = snap,
             pc' = [pc EXCEPT !.ph = ph, !.todo = Work(ph)]
      PROVE  IInv'
  <2>1. Work(ph) \subseteq Task
    BY DEF Work
  <2>2. pc' \in PcType /\ pc'.ph = ph /\ pc'.at = "next" /\ pc'.cur = {} /\ pc'.todo = Work(ph)
    BY <1>1, <1>4, <2>1 DEF Shape, Typed, PcType, Ticking
  <2>3. Placed'
    BY <1>1, <1>4, <2>2 DEF Placed, Ticking
  <2>4. Shape' /\ Starts' = Starts
    BY <1>1, <2>2, <2>3, ShapeKept DEF Answered, Shape, Typed, StoreTyped
  <2>5. ASSUME NEW u \in Task PROVE TaskInv(u)'
    <3>1. /\ TaskInv(u)
          /\ u \in Work(ph) =>
               CASE ph = "sweep"    -> snap[u] \in Terminal
                 [] ph = "resume"   -> snap[u] # "Deleted" /\ ex.spawned[u] # 0
                 [] ph = "poll"     -> snap[u] = "Running" /\ ex.running[u] # 0
                 [] ph = "dispatch" -> snap[u] = "Ready" /\ Idle(u)
      BY <1>4 DEF IInv, Work, Idle
    <3>2. Waits(u)'
      BY <1>1, <1>4, <2>2, <3>1 DEF Waits, Idle
    <3>3. WillStart(u)' => WillStart(u)
      BY <1>1, <1>4, <2>2 DEF WillStart, Idle
    <3> QED
      BY <1>1, <1>2, <1>4, <2>2, <2>4, <3>1, <3>2, <3>3
      DEF TaskInv, Counted, Numbered, Covered, Followed, StillTrue, InHand, MayStart, Doing,
          Idle, Remembers, HandleKept, Ticking, Reloading
  <2> QED
    BY <2>4, <2>5 DEF IInv
<1> QED
  BY <1>3, <1>4, NextPhase

-----------------------------------------------------------------------------
(* Runners starting, stopping and dying.                                   *)

\* A reload begins with nothing in memory.
LEMMA ReloadBegins ==
    ASSUME IInv, pc.ph \in {"off", "down"}, UNCHANGED <<store, runs, ex, snap, asked, clients, spent>>,
           pc' \in PcType, pc'.ph = "purge", pc'.at = "next", pc'.cur = {}
    PROVE  IInv'
<1> USE DEF store, clients
<1>1. Shape /\ ex = Blank /\ snap = Nothing /\ pc.cur = {}
  BY BetweenTasks DEF IInv, Shape, Placed, Ticking
<1>2. \A u \in Task : Live(u)' = Live(u) /\ Len(runs'[u]) = Len(runs[u]) /\ (Dead(u)' <=> Dead(u))
  BY LiveSame
<1>3. Placed'
  BY <1>1 DEF Placed, Ticking
<1>4. Shape' /\ Starts' = Starts
  BY <1>1, <1>3, ShapeKept DEF Answered, Shape, Typed, StoreTyped
<1>5. ASSUME NEW u \in Task PROVE TaskInv(u)'
  <2>1. TaskInv(u) /\ snap[u] = "none" /\ Idle(u)
    BY <1>1 DEF IInv, Nothing, Blank, Idle
  <2> QED
    BY <1>1, <1>2, <1>4, <2>1
    DEF TaskInv, Counted, Numbered, Covered, Followed, StillTrue, Waits, InHand, MayStart, Doing,
        WillStart, Idle, Remembers, HandleKept, Ticking, Reloading
<1> QED
  BY <1>4, <1>5 DEF IInv

LEMMA StartRunnerKeeps == ASSUME IInv, StartRunner PROVE IInv'
<1>1. pc' \in PcType /\ pc'.ph = "purge" /\ pc'.at = "next" /\ pc'.cur = {}
  BY DEF StartRunner, Off, PcType, Reloading
<1> QED
  BY <1>1, ReloadBegins DEF StartRunner

LEMMA BootKeeps == ASSUME IInv, Boot PROVE IInv'
<1>1. pc \in PcType /\ pc.at = "next" /\ pc.cur = {}
  BY BetweenTasks DEF IInv, Boot, Shape, Typed
<1>2. pc' \in PcType /\ pc'.ph = "purge" /\ pc'.at = "next" /\ pc'.cur = {}
  BY <1>1 DEF Boot, PcType, Reloading
<1> QED
  BY <1>2, ReloadBegins DEF Boot

LEMMA StopRunnerKeeps == ASSUME IInv, StopRunner PROVE IInv'
<1> USE DEF store, clients
<1>1. Shape /\ UNCHANGED <<ex, pc, snap>> /\ ex' \in ExType /\ pc' \in PcType /\ Placed'
  BY RunnerWaits DEF IInv, StopRunner
<1>2. \A u \in Task : Live(u)' = Live(u) /\ Len(runs'[u]) = Len(runs[u]) /\ (Dead(u)' <=> Dead(u))
  BY LiveSame DEF StopRunner
<1>3. /\ {spent.retries, spent.silent, spent.halts} \subseteq Nat
      /\ spent' \in [retries : Nat, silent : Nat, halts : Nat]
      /\ spent'.retries = spent.retries /\ spent'.silent = spent.silent
      /\ spent'.halts = spent.halts + 1
      /\ asked' = TRUE /\ asked = FALSE
  BY <1>1 DEF StopRunner, Shape, Typed, HasLiveRunner
<1>4. Starts' = Starts
  BY <1>3 DEF Starts
<1>5. Bounded'
  <2>1. Faults' = Faults + 1 /\ Faults \in Nat /\ Faults < MaxFaults
    BY <1>3 DEF Faults, StopRunner
  <2>2. Faults' <= MaxFaults
    BY <2>1, NumberFacts
  <2>3. spent.retries <= MaxRetries /\ Cardinality(permit) <= Permits /\ permit' = permit
    BY <1>1 DEF StopRunner, Shape, Bounded
  <2> QED
    BY <1>3, <2>2, <2>3 DEF Bounded
<1>6. Shape'
  BY <1>1, <1>3, <1>5 DEF StopRunner, Shape, Typed, StoreTyped
<1>7. \A u \in Task : Untouched(u)
  BY <1>1, <1>2, <1>4, <1>6, StartsIsNat DEF Untouched, StopRunner
<1> QED
  BY <1>6, <1>7, NobodyTouched

\* The runner's memory is gone; a start it had made is made up for by the halt.
LEMMA MemoryGone ==
    ASSUME IInv, NEW watch \in {"waiting", "none"}, runs' = Abandoned(watch), ex' = Blank,
           snap' = Nothing, Shape', Starts' >= Starts + 1,
           pc'.ph \in {"off", "down"}, pc'.at = "next", pc'.cur = {}, pc'.todo = {},
           UNCHANGED <<task, handle, permit>>, evicting' \subseteq evicting
    PROVE  IInv'
<1>1. /\ Starts \in Nat /\ Starts' \in Nat
      /\ \A u \in Task : /\ Live(u)' \subseteq Live(u) /\ Live(u)' \subseteq {handle[u]}
                         /\ Len(runs'[u]) = Len(runs[u])
  BY StartsIsNat, AbandonedEases, LiveIsIn DEF IInv, Shape, Typed, Eased
<1>2. ASSUME NEW u \in Task PROVE TaskInv(u)'
  <2>1. /\ TaskInv(u) /\ Len(runs[u]) \in Nat
        /\ \A n \in Live(u) : n # 0
    <3>1. DOMAIN runs[u] = 1..Len(runs[u]) /\ Len(runs[u]) \in Nat
      BY RunsAre DEF IInv, Shape, Typed
    <3> QED
      BY <3>1 DEF IInv, Live
  <2>2. MayStart(u)'
    BY <1>1, <2>1 DEF TaskInv, Counted, MayStart
  <2>3. Dead(u)' \/ (~Dead(u) /\ handle[u] # 0)
    BY <1>1, <2>1 DEF Dead
  <2>4. /\ Idle(u)' /\ ~Remembers(u)' /\ ex'.proc[u] = 0 /\ snap'[u] = "none"
    BY DEF Blank, Idle, Remembers, Nothing
  <2> QED
    BY <1>1, <2>1, <2>2, <2>3, <2>4
    DEF TaskInv, Counted, Numbered, Covered, Followed, StillTrue, Waits, InHand, MayStart, Doing,
        WillStart, HandleKept, Ticking, Reloading
<1> QED
  BY <1>2 DEF IInv

LEMMA BlankTyped == Blank \in ExType
  BY NumberFacts, Zeros DEF Blank, ExType

LEMMA RunnerQuitsKeeps == ASSUME IInv, RunnerQuits PROVE IInv'
<1> USE DEF store, clients
<1>1. Shape /\ snap = Nothing /\ snap' = Nothing /\ asked = TRUE /\ asked' = FALSE
      /\ Abandoned("waiting") \in RunsType
  BY AbandonedEases DEF IInv, RunnerQuits, Shape, Placed, Typed, Ticking, Eased
<1>2. pc' = Off /\ pc' \in PcType
  BY DEF RunnerQuits, Off, PcType
<1>3. /\ {spent.retries, spent.silent, spent.halts} \subseteq Nat /\ spent' = spent
  BY <1>1 DEF RunnerQuits, Shape, Typed
<1>4. Starts' = Starts + 1
  BY <1>1, <1>3 DEF Starts
<1>5. Placed'
  BY <1>1, <1>2 DEF RunnerQuits, Placed, Off, Ticking
<1>6. Bounded'
  BY <1>1, <1>3 DEF RunnerQuits, Shape, Bounded, Faults
<1>7. Shape'
  BY <1>1, <1>2, <1>5, <1>6, BlankTyped DEF RunnerQuits, Shape, Typed, StoreTyped
<1>8. Starts' >= Starts + 1
  BY <1>1, <1>4, StartsIsNat
<1> QED
  BY <1>1, <1>2, <1>7, <1>8, MemoryGone DEF RunnerQuits, Off

\* A halt that is not asked for counts at once.
LEMMA HaltCounts ==
    ASSUME Shape, Faults < MaxFaults, spent' = [spent EXCEPT !.halts = @ + 1], asked' = FALSE,
           permit' = permit
    PROVE  /\ spent' \in [retries : Nat, silent : Nat, halts : Nat]
           /\ Bounded' /\ Starts' >= Starts + 1
<1>1. /\ {spent.retries, spent.silent, spent.halts} \subseteq Nat
      /\ spent' \in [retries : Nat, silent : Nat, halts : Nat]
      /\ spent'.retries = spent.retries /\ spent'.silent = spent.silent
      /\ spent'.halts = spent.halts + 1
      /\ asked \in BOOLEAN
  BY DEF Shape, Typed
<1>2. Bounded'
  <2>1. Faults' = Faults + 1 /\ Faults \in Nat
    BY <1>1 DEF Faults
  <2>2. Faults' <= MaxFaults
    BY <2>1, NumberFacts
  <2>3. spent.retries <= MaxRetries /\ Cardinality(permit) <= Permits
    BY DEF Shape, Bounded
  <2> QED
    BY <1>1, <2>2, <2>3 DEF Bounded
<1>3. Starts' >= Starts + 1
  BY <1>1 DEF Starts
<1> QED
  BY <1>1, <1>2, <1>3

LEMMA PanicKeeps == ASSUME IInv, Panic PROVE IInv'
<1> USE DEF store, clients
<1>1. Shape /\ Abandoned("waiting") \in RunsType
  BY AbandonedEases DEF IInv, Shape, Typed, Eased
<1>2. pc' = Off /\ pc' \in PcType
  BY DEF Panic, Off, PcType
<1>3. /\ spent' \in [retries : Nat, silent : Nat, halts : Nat]
      /\ Bounded' /\ Starts' >= Starts + 1
  BY <1>1, HaltCounts DEF Panic
<1>4. Placed'
  BY <1>2 DEF Panic, Placed, Off, Ticking
<1>5. Shape'
  BY <1>1, <1>2, <1>3, <1>4, BlankTyped DEF Panic, Shape, Typed, StoreTyped
<1> QED
  BY <1>1, <1>2, <1>3, <1>5, MemoryGone DEF Panic, Off

LEMMA CrashKeeps == ASSUME IInv, Crash PROVE IInv'
<1> USE DEF store, clients
<1>1. Shape /\ Abandoned("none") \in RunsType
  BY AbandonedEases DEF IInv, Shape, Typed, Eased
<1>2. /\ pc' \in PcType /\ pc'.ph = "down" /\ pc'.at = "next" /\ pc'.cur = {} /\ pc'.todo = {}
  BY DEF Crash, Off, PcType
<1>3. /\ spent' \in [retries : Nat, silent : Nat, halts : Nat]
      /\ Bounded' /\ Starts' >= Starts + 1
  BY <1>1, HaltCounts DEF Crash
<1>4. Placed'
  BY <1>2 DEF Crash, Placed, Ticking
<1>5. Shape'
  BY <1>1, <1>2, <1>3, <1>4, BlankTyped, NumberFacts DEF Crash, Shape, Typed, StoreTyped
<1> QED
  BY <1>1, <1>2, <1>3, <1>5, MemoryGone DEF Crash

-----------------------------------------------------------------------------
(* The theorems.                                                           *)

LEMMA NextKeeps == IInv /\ [Next]_vars => IInv'
<1> SUFFICES ASSUME IInv, [Next]_vars PROVE IInv'
  OBVIOUS
<1>1. CASE RunnerStep
  <2>1. CASE \E t \in Task :
               \/ Classify(t) \/ SettleEnded(t) \/ AwaitEnded(t) \/ ReportSettled(t)
               \/ Release(t) \/ Evict(t) \/ Forget(t)
    BY <2>1, ClassifyKeeps, SettleEndedKeeps, AwaitEndedKeeps, ReportSettledKeeps, ReleaseKeeps,
       EvictKeeps, ForgetKeeps
  <2>2. CASE \E t \in Task :
               \/ SettleUnwatched(t) \/ Maintain(t) \/ Sweep(t) \/ Resume(t) \/ Poll(t)
               \/ Deferred(t) \/ AcquirePermit(t) \/ AcquireUnanswered(t)
    BY <2>2, SettleUnwatchedKeeps, MaintainKeeps, SweepKeeps, ResumeKeeps, PollKeeps,
       DeferredKeeps, AcquirePermitKeeps, AcquireUnansweredKeeps
  <2>3. CASE \E t \in Task : Spawn(t) \/ SpawnFails(t) \/ PersistHandle(t) \/ Start(t)
    BY <2>3, SpawnKeeps, SpawnFailsKeeps, PersistHandleKeeps, StartKeeps
  <2>4. CASE ReadCandidates \/ PurgeAndListHandles \/ ReloadContinues \/ WatchRestored
    BY <2>4, ReadCandidatesKeeps, PurgeAndListHandlesKeeps, ReloadContinuesKeeps, WatchRestoredKeeps
  <2>5. CASE TickBegins \/ TakeSnapshot \/ PhaseEnds \/ RunnerQuits
    BY <2>5, TickBeginsKeeps, TakeSnapshotKeeps, PhaseEndsKeeps, RunnerQuitsKeeps
  <2> QED
    BY <1>1, <2>1, <2>2, <2>3, <2>4, <2>5, Zenon DEF RunnerStep
<1>2. CASE Confirm \/ StartRunner \/ StopRunner \/ Panic \/ Crash \/ Boot
  BY <1>2, ConfirmKeeps, StartRunnerKeeps, StopRunnerKeeps, PanicKeeps, CrashKeeps, BootKeeps
<1>3. ASSUME NEW t \in Task,
             \/ Cancel(t) \/ Retry(t) \/ Delete(t) \/ EvictSideKeys(t)
             \/ BgKill(t) \/ BgFinish(t)
             \/ \E n \in DOMAIN runs[t] : Exit(t, n) \/ WatcherSaves(t, n)
      PROVE  IInv'
  BY <1>3, CancelKeeps, RetryKeeps, DeleteKeeps, EvictSideKeysKeeps, BgKillKeeps, BgFinishKeeps,
     ExitKeeps, WatcherSavesKeeps
<1>4. CASE UNCHANGED vars
  <2> USE DEF vars, store, clients
  <2>1. UNCHANGED runs
    BY <1>4
  <2>2. \A u : Live(u)' = Live(u)
    BY <2>1, LiveSame
  <2>3. Shape' /\ Starts' = Starts
    BY <1>4 DEF IInv, Shape, Typed, StoreTyped, Bounded, Placed, Faults, Starts
  <2>4. \A u \in Task : Untouched(u)
    BY <1>4, <2>2, <2>3, StartsIsNat DEF Untouched, IInv
  <2> QED
    BY <2>3, <2>4, NobodyTouched
<1> QED
  BY <1>1, <1>2, <1>3, <1>4, Zenon DEF Next

\* Whatever clients, processes, stops, panics, crashes and unanswered calls do,
\* the invariant above holds.
THEOREM Invariance == Spec => []IInv
  BY InitHolds, NextKeeps, PTL DEF Spec

\* The stored state is well typed, a stored dispatch handle names the last run
\* of its task, and nothing is left in the memory of a runner that is off.
THEOREM TypeCorrect == Spec => []TypeOK
<1>1. IInv => TypeOK
  <2> SUFFICES ASSUME IInv PROVE TypeOK
    OBVIOUS
  <2>1. ASSUME NEW t \in Task
        PROVE  /\ handle[t] \in {0, Len(runs[t])} /\ bg[t] \in Numbers
               /\ Len(runs[t]) <= MaxRuns /\ \A n \in DOMAIN runs[t] : runs[t][n] \in RunRecords
    <3>1. TaskInv(t) /\ Shape /\ runs \in RunsType
      BY DEF IInv, Shape, Typed
    <3>2. Len(runs[t]) <= 1 + Starts /\ Starts \in Nat /\ Starts + 1 <= MaxRuns /\ Len(runs[t]) \in Nat
      BY <3>1, StartsIsNat, RunsAre DEF TaskInv, Counted
    <3>3. Len(runs[t]) <= MaxRuns
      BY <3>2, NumberFacts
    <3>4. bg[t] \in Numbers /\ handle[t] \in {0, Len(runs[t])}
      BY <3>1 DEF Shape, Typed, StoreTyped, TaskInv, Numbered
    <3> QED
      BY <3>1, <3>3, <3>4, RunsAre
  <2>2. pc.ph \in {"off", "down"} => ex = Blank /\ snap = Nothing
    BY DEF IInv, Shape, Placed, Ticking
  <2> QED
    BY <2>1, <2>2 DEF TypeOK, IInv, Shape, Typed, StoreTyped, ExType
<1> QED
  BY <1>1, Invariance, PTL

\* As long as a run's process is alive its permit is not given to another task,
\* and the semaphore's limit holds (run_stop.rs, settle.rs, holdings.rs): the
\* permit goes back only once the run is seen to be gone.
THEOREM RunsKeepPermits == Spec => []RunsHoldPermit
<1>1. IInv => RunsHoldPermit
  BY DEF IInv, TaskInv, Covered, Dead, Shape, Bounded, RunsHoldPermit
<1> QED
  BY <1>1, Invariance, PTL

\* A new run of a task does not start beside an old one that is still alive
\* (HostExecutor::dispatch): it looks for the stored handle of an earlier run.
THEOREM OneRun == Spec => []OneRunAtATime
<1>1. ASSUME IInv, NEW t \in Task PROVE Cardinality(Live(t)) <= 1
  <2>1. Live(t) \subseteq {Len(runs[t])}
    BY <1>1 DEF IInv, TaskInv, Numbered
  <2>2. IsFiniteSet({Len(runs[t])}) /\ Cardinality({Len(runs[t])}) = 1
    BY FS_Singleton
  <2>3. Cardinality(Live(t)) <= Cardinality({Len(runs[t])})
    BY <2>1, <2>2, FS_Subset
  <2> QED
    BY <2>2, <2>3
<1>2. IInv => OneRunAtATime
  BY <1>1 DEF OneRunAtATime
<1> QED
  BY <1>2, Invariance, PTL

\* A task is started at most once for each time it was made ready and each stop,
\* panic or crash: a start that was not confirmed is resumed, never made again
\* (RunnerLoop::resume_spawned).
THEOREM StartedOnce == Spec => []StartedOncePerReady
<1>1. ASSUME IInv, NEW t \in Task PROVE Len(runs[t]) <= 1 + spent.retries + spent.halts
  <2>1. Len(runs[t]) \in Nat /\ Len(runs[t]) <= 1 + Starts
    BY <1>1, RunsAre DEF IInv, Shape, Typed, TaskInv, Counted
  <2>2. {spent.retries, spent.halts} \subseteq Nat
    BY <1>1 DEF IInv, Shape, Typed
  <2>3. Starts \in Int /\ Starts <= spent.retries + spent.halts
    BY <2>2 DEF Starts
  <2> QED
    BY <2>1, <2>2, <2>3
<1>2. IInv => StartedOncePerReady
  BY <1>1 DEF StartedOncePerReady
<1> QED
  BY <1>2, Invariance, PTL

\* How the state of a task can change in a step: a start and a report only
\* move it out of Ready and Running, and everything else is asked for by a
\* client.
Moves(t) ==
    \/ task'[t] = task[t]
    \/ task[t] \in {"Ready", "Running"} /\ task'[t] \in {"Running", "Ended", "Unknown"}
    \/ task[t] \notin Terminal \cup {"Deleted"} /\ task'[t] = "Cancelled"
    \/ task[t] \in Terminal \cup {"Unknown"} /\ task'[t] = "Ready" /\ spent'.retries > spent.retries
    \/ task[t] \notin {"Running", "Deleted"} /\ task'[t] = "Deleted"

LEMMA TasksMove == ASSUME IInv, [Next]_vars, NEW u \in Task PROVE Moves(u)
<1> USE DEF store, clients
<1>1. Shape /\ task \in [Task -> States]
  BY DEF IInv, Shape, Typed, StoreTyped
<1>2. CASE UNCHANGED task
  BY <1>2 DEF Moves
<1>3. ASSUME NEW t \in Task, NEW o, Complete(t, o) PROVE Moves(u)
  BY <1>1, <1>3, CompleteIs DEF Moves
<1>4. ASSUME NEW t \in Task, SetRunningOk(t) \/ SetRunningRefused(t) \/ SetRunningUnanswered(t)
      PROVE  Moves(u)
  BY <1>1, <1>4 DEF SetRunningOk, SetRunningRefused, SetRunningUnanswered, SetRunning, Moves
<1>5. CASE RunnerStep
  <2>1. CASE \E t \in Task :
               \/ Classify(t) \/ SettleEnded(t) \/ AwaitEnded(t) \/ Release(t) \/ Evict(t) \/ Forget(t)
               \/ SettleUnwatched(t) \/ Maintain(t) \/ Deferred(t) \/ AcquirePermit(t)
               \/ AcquireUnanswered(t) \/ Spawn(t) \/ SpawnFails(t) \/ PersistHandle(t)
    <3>1. UNCHANGED task
      BY <2>1 DEF Classify, SettleEnded, AwaitEnded, Release, Evict, Forget, SettleUnwatched,
         Maintain, Deferred, AcquirePermit, AcquireUnanswered, Spawn, SpawnFails, PersistHandle
    <3> QED
      BY <1>2, <3>1
  <2>2. ASSUME NEW t \in Task, ReportSettled(t) PROVE Moves(u)
    BY <1>2, <1>3, <2>2 DEF ReportSettled
  <2>3. ASSUME NEW t \in Task, Sweep(t) PROVE Moves(u)
    BY <1>2, <1>3, <2>3 DEF Sweep
  <2>4. ASSUME NEW t \in Task, Resume(t) PROVE Moves(u)
    <3>1. \/ UNCHANGED task
          \/ SetRunningOk(t) \/ SetRunningRefused(t) \/ SetRunningUnanswered(t)
      BY <2>4 DEF Resume
    <3> QED
      BY <1>2, <1>4, <3>1
  <2>5. ASSUME NEW t \in Task, Poll(t) PROVE Moves(u)
    <3>1. UNCHANGED task \/ \E o \in Outcome(t) : Complete(t, o)
      BY <2>5 DEF Poll
    <3> QED
      BY <1>2, <1>3, <3>1
  <2>6. ASSUME NEW t \in Task, Start(t) PROVE Moves(u)
    <3>1. SetRunningOk(t) \/ SetRunningRefused(t) \/ SetRunningUnanswered(t)
      BY <2>6 DEF Start
    <3> QED
      BY <1>4, <3>1
  <2>7. CASE PurgeAndListHandles
    <3>1. task'[u] = task[u] \/ (task[u] = "Running" /\ task'[u] = "Ended")
      BY <2>7 DEF PurgeAndListHandles
    <3> QED
      BY <3>1 DEF Moves
  <2>8. CASE \/ ReadCandidates \/ ReloadContinues \/ WatchRestored
             \/ TickBegins \/ TakeSnapshot \/ PhaseEnds \/ RunnerQuits
    <3>1. UNCHANGED task
      BY <2>8 DEF ReadCandidates, ReloadContinues, WatchRestored, TickBegins, TakeSnapshot, PhaseEnds,
         RunnerQuits
    <3> QED
      BY <1>2, <3>1
  <2> QED
    BY <1>5, <2>1, <2>2, <2>3, <2>4, <2>5, <2>6, <2>7, <2>8, Zenon DEF RunnerStep
<1>6. CASE \/ Confirm \/ StartRunner \/ StopRunner \/ Panic \/ Crash \/ Boot
           \/ \E t \in Task : \/ EvictSideKeys(t) \/ BgKill(t) \/ BgFinish(t)
                              \/ \E n \in DOMAIN runs[t] : Exit(t, n) \/ WatcherSaves(t, n)
           \/ UNCHANGED vars
  <2>1. UNCHANGED task
    BY <1>6 DEF Confirm, StartRunner, StopRunner, Panic, Crash, Boot, EvictSideKeys, BgKill, BgFinish,
       Exit, WatcherSaves, vars
  <2> QED
    BY <1>2, <2>1
<1>7. ASSUME NEW t \in Task, Cancel(t) PROVE Moves(u)
  BY <1>1, <1>7 DEF Cancel, Moves
<1>8. ASSUME NEW t \in Task, Retry(t) PROVE Moves(u)
  <2>1. spent'.retries = spent.retries + 1 /\ spent.retries \in Nat
    BY <1>1, <1>8 DEF Retry, Shape, Typed
  <2>2. spent'.retries > spent.retries
    BY <2>1
  <2>3. task[t] \in Terminal \cup {"Unknown"} /\ task' = [task EXCEPT ![t] = "Ready"]
    BY <1>8 DEF Retry
  <2> QED
    BY <1>1, <2>2, <2>3 DEF Moves
<1>9. ASSUME NEW t \in Task, Delete(t) PROVE Moves(u)
  BY <1>1, <1>9 DEF Delete, Deletable, Moves
<1> QED
  BY <1>5, <1>6, <1>7, <1>8, <1>9, Zenon DEF Next

\* A late report, a restart or a settlement does not change what a task ended
\* as: only a retry reopens it, and a lost outcome also waits for a cancel.
THEOREM OutcomesStand == Spec => OutcomeStands
<1>1. IInv /\ [Next]_vars =>
        [\A t \in Task :
           /\ task[t] \in Terminal => task'[t] \in {task[t], "Ready", "Deleted"}
           /\ task[t] = "Unknown" => task'[t] \in {"Unknown", "Ready", "Cancelled", "Deleted"}
           /\ task[t] = "Deleted" => task'[t] = "Deleted"
           /\ task'[t] = task[t] \/ task'[t] # "Ready" \/ spent'.retries > spent.retries]_vars
  <2> SUFFICES ASSUME IInv, [Next]_vars, NEW t \in Task
               PROVE  /\ task[t] \in Terminal => task'[t] \in {task[t], "Ready", "Deleted"}
                      /\ task[t] = "Unknown" => task'[t] \in {"Unknown", "Ready", "Cancelled", "Deleted"}
                      /\ task[t] = "Deleted" => task'[t] = "Deleted"
                      /\ task'[t] = task[t] \/ task'[t] # "Ready" \/ spent'.retries > spent.retries
    OBVIOUS
  <2>1. Moves(t)
    BY TasksMove
  <2> QED
    BY <2>1 DEF Moves, Terminal
<1> QED
  BY <1>1, Invariance, PTL DEF Spec, OutcomeStands
=============================================================================
