------------------------------ MODULE RunnerHost ------------------------------
(***************************************************************************)
(* The task runner of one workspace (crates/tasty-agent/src/runner.rs and  *)
(* crates/tasty-task-runtime/src/runner_host, runner_thread): how a Ready  *)
(* task becomes an operating-system process, how the process is watched,   *)
(* stopped and settled, and what survives when the runner is stopped, its  *)
(* thread panics, or the host goes down while the processes live on.       *)
(*                                                                         *)
(* Tasks are v1 Run tasks without dependencies that each hold one permit   *)
(* of one semaphore under their own id, with no TTL.  A task's runs are    *)
(* numbered from 1; the number stands for the PID and its start time.      *)
(*                                                                         *)
(* The runner thread's work is cut where it calls the store: clients,      *)
(* processes, watcher threads and settlement threads act in between.       *)
(*                                                                         *)
(* What is abstracted.  Only the calls that start, report or acquire, and  *)
(* the storing of a handle, may stay unanswered, and the list of tasks may *)
(* not be read; the other reads, releases and evictions are answered.  (A  *)
(* look for the handle of an earlier run that is not answered counts as    *)
(* none: a run may then start beside it.)  A run and its process group,    *)
(* Windows job or inherited pipes are one process.  Every process has a    *)
(* start time, so a PID is never taken for another run's.  Clients cancel, *)
(* retry and delete tasks; they do not report results or set states        *)
(* themselves.  Which of Succeeded and Failed a task ended as, and its     *)
(* output, are left out.                                                   *)
(***************************************************************************)
EXTENDS Naturals, FiniteSets, Sequences

CONSTANTS Tasks,       \* how many
          Permits,     \* of the semaphore the tasks name
          MaxRetries, MaxDeletes, MaxFaults   \* bounds of the model

ASSUME RunnerAssumption ==
    /\ {Tasks, Permits} \subseteq Nat \ {0}
    /\ {MaxRetries, MaxDeletes, MaxFaults} \subseteq Nat

Task == 1..Tasks           \* in the order of their keys, which lists keep

MaxRuns == 1 + MaxRetries + MaxFaults
Failing == MaxRuns + 1     \* an ImmediateFail handle, in place of a run

VARIABLES
    task,     \* the stored state of each task; Ended is Succeeded or Failed
    handle,   \* the run in the stored dispatch handle, 0 if none
    permit,   \* the stored holders of the semaphore
    saved,    \* the run whose outcome is in the stored run result, 0 if none
    runs,     \* each task's processes, with their watcher threads
    ex,       \* the memory of the runner and its executor
    pc,       \* what the runner thread is at
    snap,     \* the snapshot of a tick; in a reload, what each handle is found to be
    asked,    \* has the runner been asked to stop?
    confirm,  \* a cancel's confirmation read is queued
    bg,       \* the handle a settlement thread was given, 0 if none
    evicting, \* deleted tasks whose side keys are queued to be removed
    spent     \* counts retries, unanswered calls, and halts: stops, panics, crashes

store == <<task, handle, permit, saved>>
clients == <<confirm, bg, evicting>>
vars == <<store, runs, ex, pc, snap, asked, clients, spent>>

States == {"Ready", "Running", "Ended", "Cancelled", "Unknown", "Deleted"}
Terminal == {"Ended", "Cancelled"}

\* What RunnerLoop and HostExecutor keep in memory: runs being watched, runs
\* whose start was not confirmed, reports not recorded, permits and handles to
\* give back, the last process of a task, and the tasks whose stop is awaited.
Blank == [running |-> [t \in Task |-> 0], spawned |-> [t \in Task |-> 0],
          pending |-> [t \in Task |-> 0], held |-> {}, watched |-> {},
          proc |-> [t \in Task |-> 0], stopping |-> {}]

Nothing == [t \in Task |-> "none"]

-----------------------------------------------------------------------------
\* Processes.

Alive(t, n) == runs[t][n].os # "gone"

Kill(t, n) == IF runs[t][n].os = "alive" THEN [runs EXCEPT ![t][n].os = "killed"] ELSE runs

\* A process ends by itself or because it was killed.
Exit(t, n) ==
    /\ Alive(t, n)
    /\ runs' = [runs EXCEPT ![t][n].os = "gone"]
    /\ UNCHANGED <<store, ex, pc, snap, asked, clients, spent>>

Dies(t, n) == runs[t][n].os = "killed" /\ Exit(t, n)

\* The watcher thread saves the outcome before it hands it to the executor.
WatcherSaves(t, n) ==
    /\ runs[t][n].os = "gone" /\ runs[t][n].watch = "waiting"
    /\ saved' = [saved EXCEPT ![t] = n]
    /\ runs' = [runs EXCEPT ![t][n].watch = "done"]
    /\ UNCHANGED <<task, handle, permit, ex, pc, snap, asked, clients, spent>>

\* The executor is gone, and with it its hold on the watchers.  A live process
\* no stored handle names can no longer be found by anybody.
Abandoned(watch) ==
    [t \in Task |-> [n \in DOMAIN runs[t] |->
        [os |-> runs[t][n].os, mine |-> FALSE,
         watch |-> IF runs[t][n].watch = "waiting" THEN watch ELSE runs[t][n].watch,
         stray |-> runs[t][n].stray \/ (Alive(t, n) /\ handle[t] # n)]]]

-----------------------------------------------------------------------------
\* The runner thread: pc names the phase, the tasks left in it, and the step
\* the current task is at.

RunnerOn == pc.ph \notin {"off", "down"} /\ pc.goal = "on"

Off == [ph |-> "off", todo |-> {}, at |-> "next", cur |-> {}, goal |-> "off"]

At(ph, t) ==
    /\ pc.ph = ph /\ pc.at = "next"
    /\ t \in pc.todo /\ \A u \in pc.todo : t <= u
Step(at, t) == pc.at = at /\ pc.cur = {t}
Done(t) == [pc EXCEPT !.todo = @ \ {t}, !.at = "next", !.cur = {}]
Then(at, t) == [pc EXCEPT !.at = at, !.cur = {t}]

\* A change of store whose answer the runner got, or the change (made or not)
\* of a call that was not answered.
Answered == UNCHANGED spent
Faults == spent.silent + spent.halts
Unanswered == Faults < MaxFaults /\ spent' = [spent EXCEPT !.silent = @ + 1]

\* An outcome is the run it came from, Failing, or Lost.
Lost == Failing + 1

\* Mutant: the report of a run overwrites what the task ended as.
CompleteAnyway(t, o) ==
    /\ task' = [task EXCEPT ![t] = IF o = Lost THEN "Unknown" ELSE "Ended"]

\* complete, for a task without attempts: refused unless the task is Running.
Complete(t, o) ==
    IF task[t] = "Running"
      THEN task' = [task EXCEPT ![t] = IF o = Lost THEN "Unknown" ELSE "Ended"]
      ELSE UNCHANGED task

\* Mutant: the permit goes back as soon as the kill is sent.
ReleaseAtOnce(t, e, r) ==
    LET n == e.proc[t] IN
    /\ runs' = IF n # 0 /\ r[t][n].os = "alive" THEN [r EXCEPT ![t][n].os = "killed"] ELSE r
    /\ ex' = [e EXCEPT !.proc[t] = 0]
    /\ pc' = Then("release", t)

\* release_permit: a live process is killed, and awaited before anything is
\* given back.
ReleasePermit(t, e, r) ==
    LET n == e.proc[t] IN
    IF n # 0 /\ r[t][n].os # "gone"
      THEN /\ runs' = [r EXCEPT ![t][n].os = "killed"]
           /\ ex' = [e EXCEPT !.stopping = @ \cup {t}]
           /\ pc' = Done(t)
      ELSE /\ runs' = r
           /\ ex' = [e EXCEPT !.proc[t] = 0]
           /\ pc' = Then("release", t)

\* release_resources: the permit this executor holds, then the handle it
\* watches, then the run result.  A reload gives back the same three for a task
\* it settled, without having held them.
Release(t) ==
    /\ Step("release", t)
    /\ permit' = IF t \in ex.held \/ pc.ph = "settled" THEN permit \ {t} ELSE permit
    /\ ex' = [ex EXCEPT !.held = @ \ {t}]
    /\ pc' = IF t \in ex.watched \/ pc.ph = "settled" THEN Then("evict", t) ELSE Done(t)
    /\ UNCHANGED <<task, handle, saved, runs, snap, asked, clients, spent>>

Evict(t) ==
    /\ Step("evict", t)
    /\ handle' = [handle EXCEPT ![t] = 0]
    /\ ex' = [ex EXCEPT !.watched = @ \ {t}]
    /\ pc' = Then("forget", t)
    /\ UNCHANGED <<task, permit, saved, runs, snap, asked, clients, spent>>

Forget(t) ==
    /\ Step("forget", t)
    /\ saved' = [saved EXCEPT ![t] = 0]
    /\ pc' = Done(t)
    /\ UNCHANGED <<task, handle, permit, runs, ex, snap, asked, clients, spent>>

\* finalize: the handle whose run was seen to be gone, and the permit, in one
\* unit; nothing is known of what a deleted task held.
Finalize(t) ==
    /\ handle' = [handle EXCEPT ![t] = 0]
    /\ permit' = IF handle[t] = 0 \/ task[t] \in {"Running", "Deleted"}
                 THEN permit ELSE permit \ {t}

-----------------------------------------------------------------------------
\* A runner starting, and the host booting: purge_and_reload_on_restart.

\* Running without a handle: nothing of the run is left to watch.
ReadCandidates ==
    /\ pc.ph = "purge" /\ ~asked
    /\ pc' = [pc EXCEPT !.ph = "purged",
                        !.todo = {t \in Task : task[t] = "Running" /\ handle[t] = 0}]
    /\ UNCHANGED <<store, runs, ex, snap, asked, clients, spent>>

PurgeAndListHandles ==
    /\ pc.ph = "purged"
    /\ permit' = permit \ pc.todo
    /\ task' = [t \in Task |-> IF t \in pc.todo /\ task[t] = "Running" THEN "Ended" ELSE task[t]]
    /\ pc' = [pc EXCEPT !.ph = "classify", !.todo = {t \in Task : handle[t] # 0}]
    /\ UNCHANGED <<handle, saved, runs, ex, snap, asked, clients, spent>>

\* classify_persisted_handle.  Only a dead process has its saved result read.
Classify(t) ==
    /\ At("classify", t)
    /\ LET n == handle[t]
           found == IF task[t] = "Deleted" THEN "stale" ELSE IF task[t] # "Running" THEN "ended"
                    ELSE IF Alive(t, n) THEN "alive" ELSE "settled"
       IN /\ snap' = [snap EXCEPT ![t] = found]
          /\ ex' = IF found # "settled" THEN ex
                   ELSE [ex EXCEPT !.pending[t] = IF saved[t] # 0 THEN saved[t] ELSE Lost]
    /\ pc' = Done(t)
    /\ UNCHANGED <<store, runs, asked, clients, spent>>

\* First the handles of deleted tasks are removed, then what ended is settled,
\* then what is to be reported.
ReloadContinues ==
    /\ pc.todo = {} /\ pc.at = "next"
    /\ \E phase \in {<<"classify", "ended">>, <<"ended", "settled">>} :
         /\ pc.ph = phase[1]
         /\ pc' = [pc EXCEPT !.ph = phase[2], !.todo = {t \in Task : snap[t] = phase[2]}]
    /\ handle' = [t \in Task |-> IF pc.ph = "classify" /\ snap[t] = "stale" THEN 0 ELSE handle[t]]
    /\ UNCHANGED <<task, permit, saved, runs, ex, snap, asked, clients, spent>>

\* settle_within: kills the run, and waits a while for its end.
SettleEnded(t) ==
    /\ At("ended", t)
    /\ IF handle[t] = 0
         THEN pc' = Done(t) /\ UNCHANGED runs
         ELSE pc' = Then("await", t) /\ runs' = Kill(t, handle[t])
    /\ UNCHANGED <<store, ex, snap, asked, clients, spent>>

AwaitEnded(t) ==
    /\ Step("await", t)
    /\ pc' = Done(t)
    /\ IF handle[t] # 0 /\ Alive(t, handle[t])
         THEN UNCHANGED <<handle, permit>>
         ELSE Finalize(t)
    /\ UNCHANGED <<task, saved, runs, ex, snap, asked, clients, spent>>

\* finalize_precise_tasks: an unanswered report leaves the handle to the next
\* reload.
ReportSettled(t) ==
    /\ At("settled", t)
    /\ \/ Complete(t, ex.pending[t]) /\ pc' = Then("release", t) /\ Answered
       \/ Unanswered /\ pc' = Done(t) /\ (Complete(t, ex.pending[t]) \/ UNCHANGED task)
    /\ UNCHANGED <<handle, permit, saved, runs, ex, snap, asked, clients>>

\* adopt_restored_run: a run whose handle is still stored is taken over with
\* its permit.  At boot nobody watches.
WatchRestored ==
    /\ pc.ph = "settled" /\ pc.todo = {} /\ pc.at = "next"
    /\ LET alive == {t \in Task : snap[t] = "alive"}
           kept == {t \in alive : handle[t] # 0}
       IN ex' = IF pc.goal = "off" THEN Blank
                ELSE [Blank EXCEPT
                        !.running = [t \in Task |-> IF t \in alive THEN Len(runs[t]) ELSE 0],
                        !.held = kept, !.watched = kept,
                        !.proc = [t \in Task |-> IF t \in kept THEN handle[t] ELSE 0]]
    /\ snap' = Nothing
    /\ pc' = IF pc.goal = "off" THEN Off ELSE [pc EXCEPT !.ph = "idle"]
    /\ UNCHANGED <<store, runs, asked, clients, spent>>

-----------------------------------------------------------------------------
\* A tick.

TickBegins ==
    /\ pc.ph = "idle" /\ ~asked
    /\ pc' = [pc EXCEPT !.ph = "settle",
                        !.todo = {t \in Task : handle[t] # 0 /\ t \notin ex.watched}]
    /\ UNCHANGED <<store, runs, ex, snap, asked, clients, spent>>

\* settle_unwatched_handles: a Running task's handle is left to the next reload.
SettleUnwatched(t) ==
    /\ At("settle", t)
    /\ pc' = Done(t)
    /\ IF task[t] = "Running" \/ handle[t] = 0
         THEN UNCHANGED <<runs, handle, permit>>
         ELSE IF Alive(t, handle[t])
           THEN runs' = Kill(t, handle[t]) /\ UNCHANGED <<handle, permit>>
           ELSE Finalize(t) /\ UNCHANGED runs
    /\ UNCHANGED <<task, saved, ex, snap, asked, clients, spent>>

\* tick_snapshot: a list that cannot be read counts as an empty one.
Listed ==
    \/ snap' = task /\ Answered
    \/ snap' = [t \in Task |-> "Deleted"] /\ Unanswered

\* The snapshot, and the runs maintain finds to have ended.
TakeSnapshot ==
    /\ pc.ph = "settle" /\ pc.todo = {}
    /\ Listed
    /\ LET ended == {t \in ex.stopping : ex.proc[t] = 0 \/ ~Alive(t, ex.proc[t])}
       IN /\ ex' = [ex EXCEPT !.stopping = @ \ ended]
          /\ pc' = [pc EXCEPT !.ph = "maintain", !.todo = ended]
    /\ UNCHANGED <<store, runs, asked, clients>>

Maintain(t) ==
    /\ At("maintain", t)
    /\ ex' = [ex EXCEPT !.proc[t] = 0]
    /\ pc' = Then("release", t)
    /\ UNCHANGED <<store, runs, snap, asked, clients, spent>>

Phases == <<"maintain", "sweep", "resume", "poll", "dispatch">>

\* The tasks of the snapshot that a phase of the tick has something to do for.
\* A deleted task is not in it.
Work(phase) ==
    {t \in Task :
        CASE phase = "sweep"    -> snap[t] \in Terminal /\ (ex.pending[t] + ex.running[t] + ex.spawned[t]) # 0
          [] phase = "resume"   -> snap[t] # "Deleted" /\ ex.spawned[t] # 0
          [] phase = "poll"     -> snap[t] = "Running" /\ ex.running[t] # 0
          [] phase = "dispatch" -> snap[t] = "Ready" /\ ex.running[t] = 0 /\ ex.spawned[t] = 0}

PhaseEnds ==
    /\ pc.todo = {} /\ pc.at = "next"
    /\ \E i \in DOMAIN Phases :
         /\ pc.ph = Phases[i]
         /\ LET later == {j \in DOMAIN Phases : j > i /\ Work(Phases[j]) # {}}
                next  == CHOOSE j \in later : \A k \in later : j <= k
            IN IF later = {}
                 THEN pc' = [pc EXCEPT !.ph = "idle"] /\ snap' = Nothing
                 ELSE pc' = [pc EXCEPT !.ph = Phases[next], !.todo = Work(Phases[next])] /\ UNCHANGED snap
    /\ UNCHANGED <<store, runs, ex, asked, clients, spent>>

\* A task ended from outside: a report that was not recorded is made again,
\* and then what is held for the task is given back.
Sweep(t) ==
    /\ At("sweep", t)
    /\ LET o == ex.pending[t]
           e == [ex EXCEPT !.pending[t] = 0, !.running[t] = 0, !.spawned[t] = 0]
       IN \/ /\ IF o = 0 THEN UNCHANGED task ELSE Complete(t, o)
             /\ IF ex.running[t] + ex.spawned[t] = 0
                  THEN pc' = Done(t) /\ ex' = e /\ UNCHANGED runs
                  ELSE ReleasePermit(t, e, runs)
             /\ Answered
          \/ /\ o # 0 /\ Unanswered /\ pc' = Done(t)
             /\ Complete(t, o) \/ UNCHANGED task
             /\ UNCHANGED <<runs, ex>>
    /\ UNCHANGED <<handle, permit, saved, snap, asked, clients>>

\* set_state(Running), with the answer the runner gets.
SetRunning(t) == task' = [task EXCEPT ![t] = "Running"]
SetRunningOk(t) == task[t] = "Ready" /\ SetRunning(t) /\ Answered
SetRunningRefused(t) == task[t] # "Ready" /\ UNCHANGED task /\ Answered
SetRunningUnanswered(t) == Unanswered /\ ((task[t] = "Ready" /\ SetRunning(t)) \/ UNCHANGED task)

\* Mutant: a start that was not confirmed is undone and made again.
ResumeByRestart(t) ==
    /\ At("resume", t)
    /\ IF snap[t] = "Running"
         THEN /\ ex' = [ex EXCEPT !.running[t] = ex.spawned[t], !.spawned[t] = 0]
              /\ pc' = Done(t) /\ UNCHANGED runs
         ELSE ReleasePermit(t, [ex EXCEPT !.spawned[t] = 0], runs)
    /\ UNCHANGED <<task, spent, handle, permit, saved, snap, asked, clients>>

\* resume_spawned.
Resume(t) ==
    /\ At("resume", t)
    /\ LET watched == [ex EXCEPT !.running[t] = ex.spawned[t], !.spawned[t] = 0]
       IN CASE snap[t] = "Running" -> ex' = watched /\ pc' = Done(t) /\ UNCHANGED <<task, runs, spent>>
            [] snap[t] = "Ready" ->
                 /\ pc' = Done(t) /\ UNCHANGED runs
                 /\ \/ SetRunningOk(t) /\ ex' = watched
                    \/ (SetRunningRefused(t) \/ SetRunningUnanswered(t)) /\ UNCHANGED ex
            [] OTHER -> /\ ReleasePermit(t, [ex EXCEPT !.spawned[t] = 0], runs)
                        /\ UNCHANGED <<task, spent>>
    /\ UNCHANGED <<handle, permit, saved, snap, asked, clients>>

\* What a poll of a task finds: nothing while the run goes on.  The runs this
\* executor started are known by their result cell, restored ones by their PID.
Outcome(t) ==
    LET n == ex.running[t] IN
    CASE ex.pending[t] # 0 -> {ex.pending[t]}
      [] ex.pending[t] = 0 /\ n = Failing -> {Failing}
      [] ex.pending[t] = 0 /\ n # Failing /\ runs[t][n].mine ->
            IF runs[t][n].watch = "done" THEN {n} ELSE {}
      [] OTHER -> IF Alive(t, n) THEN {} ELSE {Lost}

Taken(t, o) == IF o \in DOMAIN runs[t] THEN [runs EXCEPT ![t][o].mine = FALSE] ELSE runs

Poll(t) ==
    /\ At("poll", t)
    /\ \/ /\ Outcome(t) = {}
          /\ pc' = Done(t)
          /\ UNCHANGED <<task, runs, ex, spent>>
       \/ \E o \in Outcome(t) :
            \/ /\ Complete(t, o) /\ Answered
               /\ ReleasePermit(t, [ex EXCEPT !.pending[t] = 0, !.running[t] = 0], Taken(t, o))
            \/ /\ Unanswered /\ (Complete(t, o) \/ UNCHANGED task)
               /\ ex' = [ex EXCEPT !.pending[t] = o]
               /\ runs' = Taken(t, o) /\ pc' = Done(t)
    /\ UNCHANGED <<handle, permit, saved, snap, asked, clients>>

\* dispatch: nothing is started beside the stored handle of an earlier run.
\* (No handle appears between that look and the acquisition: one step.)
Deferred(t) ==
    /\ At("dispatch", t)
    /\ handle[t] # 0 \/ (t \notin permit /\ Cardinality(permit) >= Permits)
    /\ pc' = Done(t)
    /\ UNCHANGED <<store, runs, ex, snap, asked, clients, spent>>

\* Mutant: the handle of an earlier run is not looked for.
AcquireBeside(t) ==
    /\ At("dispatch", t)
    /\ t \in permit \/ Cardinality(permit) < Permits
    /\ permit' = permit \cup {t}
    /\ ex' = [ex EXCEPT !.held = @ \cup {t}]
    /\ pc' = Then("spawn", t)
    /\ UNCHANGED <<task, handle, saved, runs, snap, asked, clients, spent>>

AcquirePermit(t) ==
    /\ At("dispatch", t)
    /\ handle[t] = 0
    /\ t \in permit \/ Cardinality(permit) < Permits
    /\ permit' = permit \cup {t}
    /\ ex' = [ex EXCEPT !.held = @ \cup {t}]
    /\ pc' = Then("spawn", t)
    /\ UNCHANGED <<task, handle, saved, runs, snap, asked, clients, spent>>

\* release_unknown: a permit that may have been acquired is given back.
AcquireUnanswered(t) ==
    /\ At("dispatch", t) /\ handle[t] = 0
    /\ Unanswered
    /\ permit' = permit \ {t}
    /\ pc' = Done(t)
    /\ UNCHANGED <<task, handle, saved, runs, ex, snap, asked, clients>>

Spawn(t) ==
    /\ Step("spawn", t)
    /\ LET n == Len(runs[t]) + 1 IN
         /\ runs' = [runs EXCEPT ![t] =
                Append(@, [os |-> "alive", watch |-> "waiting", mine |-> TRUE, stray |-> FALSE])]
         /\ ex' = [ex EXCEPT !.proc[t] = n]
    /\ pc' = Then("persist", t)
    /\ UNCHANGED <<store, snap, asked, clients, spent>>

\* PermanentFail gives the permit back, and is polled as a failed run.
SpawnFails(t) ==
    /\ Step("spawn", t)
    /\ Unanswered
    /\ permit' = permit \ {t}
    /\ ex' = [ex EXCEPT !.held = @ \ {t}]
    /\ pc' = Then("fail", t)
    /\ UNCHANGED <<task, handle, saved, runs, snap, asked, clients>>

\* persist_handle: the run is watched even if its handle was not stored.
PersistHandle(t) ==
    /\ Step("persist", t)
    /\ \/ /\ handle' = [handle EXCEPT ![t] = ex.proc[t]]
          /\ Answered /\ UNCHANGED runs
       \/ /\ Unanswered
          /\ runs' = [runs EXCEPT ![t][ex.proc[t]].stray = TRUE]
          /\ UNCHANGED handle
    /\ ex' = [ex EXCEPT !.watched = @ \cup {t}]
    /\ pc' = Then("start", t)
    /\ UNCHANGED <<task, permit, saved, snap, asked, clients>>

\* What was started stays with the runner whatever the answer is.
Start(t) ==
    /\ Step("start", t) \/ Step("fail", t)
    /\ LET h == IF pc.at = "fail" THEN Failing ELSE ex.proc[t]
       IN \/ SetRunningOk(t) /\ ex' = [ex EXCEPT !.running[t] = h]
          \/ /\ SetRunningRefused(t) \/ SetRunningUnanswered(t)
             /\ ex' = [ex EXCEPT !.spawned[t] = h]
    /\ pc' = Done(t)
    /\ UNCHANGED <<handle, permit, saved, runs, snap, asked, clients>>

\* Mutant: the executor is kept for the next runner.
RunnerQuitsKeeping ==
    /\ asked /\ pc.ph \in {"purge", "idle"}
    /\ pc' = Off /\ asked' = FALSE
    /\ UNCHANGED <<store, runs, ex, snap, clients, spent>>

RunnerQuits ==
    /\ asked /\ pc.ph \in {"purge", "idle"}
    /\ pc' = Off /\ ex' = Blank /\ asked' = FALSE
    /\ runs' = Abandoned("waiting")
    /\ UNCHANGED <<store, snap, clients, spent>>

RunnerStep ==
    \/ ReadCandidates \/ PurgeAndListHandles \/ ReloadContinues \/ WatchRestored
    \/ TickBegins \/ TakeSnapshot \/ PhaseEnds \/ RunnerQuits
    \/ \E t \in Task :
         \/ Classify(t) \/ SettleEnded(t) \/ AwaitEnded(t) \/ ReportSettled(t)
         \/ Release(t) \/ Evict(t) \/ Forget(t)
         \/ SettleUnwatched(t) \/ Maintain(t) \/ Sweep(t) \/ Resume(t) \/ Poll(t)
         \/ Deferred(t) \/ AcquirePermit(t) \/ AcquireUnanswered(t)
         \/ Spawn(t) \/ SpawnFails(t) \/ PersistHandle(t) \/ Start(t)

-----------------------------------------------------------------------------
\* Clients, the settlement threads of their cancels, and the host.  A host that
\* boots answers no client before its purge is done.

Serving == pc.ph = "off" \/ (pc.ph # "down" /\ pc.goal = "on")
HasLiveRunner == RunnerOn /\ ~asked

\* Without a live runner the cancel queues the read that captures what is left
\* to settle.
Cancel(t) ==
    /\ Serving
    /\ task[t] \notin Terminal \cup {"Deleted"}
    /\ task' = [task EXCEPT ![t] = "Cancelled"]
    /\ confirm' = (confirm \/ ~HasLiveRunner)
    /\ UNCHANGED <<handle, permit, saved, runs, ex, pc, snap, asked, bg, evicting, spent>>

\* An Ended task that is retried had failed.  Its new revision ends what a
\* settlement thread had captured of it.
Retry(t) ==
    /\ Serving /\ spent.retries < MaxRetries
    /\ task[t] \in Terminal \cup {"Unknown"}
    /\ task' = [task EXCEPT ![t] = "Ready"]
    /\ bg' = [bg EXCEPT ![t] = 0]
    /\ spent' = [spent EXCEPT !.retries = @ + 1]
    /\ UNCHANGED <<handle, permit, saved, runs, ex, pc, snap, asked, confirm, evicting>>

\* Mutant: it is not asked whether the end of a run is still to be confirmed.
DeletableAnyway(t) == task[t] \notin {"Running", "Deleted"}

\* Running tasks and those whose stored handle is still to be settled are kept.
Deletable(t) == task[t] \notin {"Running", "Deleted"} /\ handle[t] = 0

\* task_delete, task_purge.
Delete(t) ==
    /\ Serving /\ Cardinality({u \in Task : task[u] = "Deleted"}) < MaxDeletes
    /\ Deletable(t)
    /\ task' = [task EXCEPT ![t] = "Deleted"]
    /\ evicting' = evicting \cup {t}
    /\ UNCHANGED <<handle, permit, saved, runs, ex, pc, snap, asked, confirm, bg, spent>>

\* A unit of its own, after the deletion.
EvictSideKeys(t) ==
    /\ t \in evicting
    /\ handle' = [handle EXCEPT ![t] = 0]
    /\ saved' = [saved EXCEPT ![t] = 0]
    /\ evicting' = evicting \ {t}
    /\ UNCHANGED <<task, permit, runs, ex, pc, snap, asked, confirm, bg, spent>>

\* TerminalRecovery: every ended task of the workspace that left a handle.
Confirm ==
    /\ Serving /\ confirm
    /\ confirm' = FALSE
    /\ bg' = [t \in Task |-> IF task[t] \in Terminal /\ handle[t] # 0 THEN handle[t] ELSE bg[t]]
    /\ UNCHANGED <<store, runs, ex, pc, snap, asked, evicting, spent>>

Captured(t) == bg[t] # 0 /\ task[t] \in Terminal /\ handle[t] = bg[t]

\* settle_captured: kills, and when the run is gone checks again what it had
\* captured.
BgKill(t) ==
    /\ Captured(t) /\ runs[t][bg[t]].os = "alive"
    /\ runs' = Kill(t, bg[t])
    /\ UNCHANGED <<store, ex, pc, snap, asked, clients, spent>>

BgFinish(t) ==
    /\ Captured(t) /\ ~Alive(t, bg[t])
    /\ handle' = [handle EXCEPT ![t] = 0]
    /\ permit' = permit \ {t}
    /\ bg' = [bg EXCEPT ![t] = 0]
    /\ UNCHANGED <<task, saved, runs, ex, pc, snap, asked, confirm, evicting, spent>>

StartRunner ==
    /\ pc.ph = "off"
    /\ pc' = [Off EXCEPT !.ph = "purge", !.goal = "on"]
    /\ UNCHANGED <<store, runs, ex, snap, asked, clients, spent>>

StopRunner ==
    /\ HasLiveRunner /\ Faults < MaxFaults
    /\ asked' = TRUE
    /\ spent' = [spent EXCEPT !.halts = @ + 1]
    /\ UNCHANGED <<store, runs, ex, pc, snap, clients>>

\* The runner thread panics: it stays stopped until it is started again.
Panic ==
    /\ RunnerOn /\ Faults < MaxFaults
    /\ spent' = [spent EXCEPT !.halts = @ + 1]
    /\ pc' = Off /\ ex' = Blank /\ snap' = Nothing /\ asked' = FALSE
    /\ runs' = Abandoned("waiting")
    /\ UNCHANGED <<store, clients>>

\* The host goes down; processes outlive it, its threads do not.
Crash ==
    /\ pc.ph # "down" /\ Faults < MaxFaults
    /\ spent' = [spent EXCEPT !.halts = @ + 1]
    /\ pc' = [Off EXCEPT !.ph = "down"]
    /\ ex' = Blank /\ snap' = Nothing /\ asked' = FALSE
    /\ confirm' = FALSE /\ bg' = [t \in Task |-> 0] /\ evicting' = {}
    /\ runs' = Abandoned("none")
    /\ UNCHANGED store

Boot ==
    /\ pc.ph = "down"
    /\ pc' = [pc EXCEPT !.ph = "purge"]
    /\ UNCHANGED <<store, runs, ex, snap, asked, clients, spent>>

Init ==
    /\ task = [t \in Task |-> "Ready"]
    /\ handle = [t \in Task |-> 0] /\ saved = handle /\ bg = handle
    /\ permit = {}
    /\ runs = [t \in Task |-> <<>>]
    /\ ex = Blank /\ pc = Off /\ snap = Nothing
    /\ asked = FALSE /\ confirm = FALSE /\ evicting = {}
    /\ spent = [retries |-> 0, silent |-> 0, halts |-> 0]

Next ==
    \/ RunnerStep
    \/ Confirm \/ StartRunner \/ StopRunner \/ Panic \/ Crash \/ Boot
    \/ \E t \in Task :
         \/ Cancel(t) \/ Retry(t) \/ Delete(t) \/ EvictSideKeys(t)
         \/ BgKill(t) \/ BgFinish(t)
         \/ \E n \in DOMAIN runs[t] : Exit(t, n) \/ WatcherSaves(t, n)

\* A runner that is on keeps ticking and a killed process dies.  Runs need not
\* end, watchers may wait for ever for inherited pipes, and nobody has to start
\* the runner.
Fairness ==
    /\ WF_vars(RunnerOn /\ RunnerStep)
    /\ WF_vars(\E t \in Task : \E n \in DOMAIN runs[t] : Dies(t, n))

Spec == Init /\ [][Next]_vars /\ Fairness

-----------------------------------------------------------------------------
\* Properties.

Numbers == 0..MaxRuns
RunRecords == [os : {"alive", "killed", "gone"}, watch : {"waiting", "done", "none"},
               mine : BOOLEAN, stray : BOOLEAN]

\* A stored handle names the last run, and no memory of a stopped runner is left.
TypeOK ==
    /\ task \in [Task -> States]
    /\ \A t \in Task : handle[t] \in {0, Len(runs[t])} /\ bg[t] \in Numbers
    /\ saved \in [Task -> Numbers]
    /\ permit \subseteq Task
    /\ \A t \in Task : Len(runs[t]) <= MaxRuns /\ \A n \in DOMAIN runs[t] : runs[t][n] \in RunRecords
    /\ ex \in [running : [Task -> 0..Failing], spawned : [Task -> 0..Failing],
               pending : [Task -> 0..Lost], held : SUBSET Task, watched : SUBSET Task,
               proc : [Task -> Numbers], stopping : SUBSET Task]
    /\ pc.ph \in {"off", "down"} => ex = Blank /\ snap = Nothing
    /\ asked \in BOOLEAN /\ confirm \in BOOLEAN /\ evicting \subseteq Task

\* A stray run is one no stored handle ever named: its handle was not stored,
\* or the runner or host went down first.
Live(t) == {n \in DOMAIN runs[t] : Alive(t, n) /\ ~runs[t][n].stray}

\* As long as a run's process is alive its permit is not given to another task,
\* whatever was cancelled, retried, stopped, restarted or left unanswered
\* (run_stop.rs, settle.rs, holdings.rs).
RunsHoldPermit ==
    /\ \A t \in Task : Live(t) # {} => t \in permit
    /\ Cardinality(permit) <= Permits

\* A new run of a task does not start beside an old one that is still alive
\* (HostExecutor::dispatch).
OneRunAtATime == \A t \in Task : Cardinality(Live(t)) <= 1

\* A task is started once for each time it was made Ready, but for the starts
\* that a stop, a panic or a crash undid (RunnerLoop::resume_spawned).
StartedOncePerReady ==
    \A t \in Task : Len(runs[t]) <= 1 + spent.retries + spent.halts

\* A late report, a restart or a settlement does not change what a task ended
\* as: only a retry reopens it, and a lost outcome also waits for a cancel.
OutcomeStands ==
    [][\A t \in Task :
         /\ task[t] \in Terminal => task'[t] \in {task[t], "Ready", "Deleted"}
         /\ task[t] = "Unknown" => task'[t] \in {"Unknown", "Ready", "Cancelled", "Deleted"}
         /\ task[t] = "Deleted" => task'[t] = "Deleted"
         /\ task'[t] = task[t] \/ task'[t] # "Ready" \/ spent'.retries > spent.retries]_vars

\* While a runner stays on, a task that ended or was cancelled gets its run
\* killed and its permit back, whichever of the runner that started the run, a
\* later runner or a settlement thread has to do it; deleting the task does not
\* stop this (reject_settling_targets).
PermitComesBack ==
    <>[]RunnerOn =>
        \A t \in Task :
            (task[t] \in Terminal /\ handle[t] # 0 /\ t \in permit)
                ~> (t \notin permit \/ task[t] \notin Terminal \cup {"Deleted"})

\* A cancelled and retried task runs again while a runner stays on.
RetriedTaskStarts ==
    <>[]RunnerOn => \A t \in Task : (task[t] = "Ready" /\ Live(t) = {}) ~> task[t] # "Ready"

=============================================================================
