# Verification of tasty

tasty is a terminal that hosts coding agents. Beside the terminal it runs a
small distributed system on one machine: agents hand work to each other as
tasks, tasks become operating-system processes, resources are shared under
leases and permits, everything is kept in one store, and windows, plugins and
remote machines attach to it. This directory holds TLA+ modules of that system,
the TLC configurations that check them on small instances, and TLAPS proofs.

Modelled so far: the resources agents share (semaphores, leases, barriers, rate
limits), the task graph, the runner that turns tasks into processes, the batch
writer through which everything is stored, the push side of a stream connection,
and the server's side of remote attach, which is served over such connections.

## The system

| Part | State it keeps | Operations | What is hard, and what makes it correct |
|---|---|---|---|
| Semaphores, `tasty-agent/src/semaphore.rs` | one record per name: limit, holders with an expiry | create, set_permits, acquire, renew, release, list, delete | Expiry is lazy and decided with the caller's clock. A permit lasts as long as its holder was told; the limit is exceeded only while a lowered limit drains. |
| Leases, `lease.rs` | one record per resource, one counter per elastic pool | acquire, acquire_any, renew, release, list | A pool caller may hold, lose, renew and take again. One user per resource, one resource per pool caller, a pool no larger than its cap. |
| Barriers, `barrier.rs` | one record per name | create, signal, state, list, delete | The last signal races the deadline, which nobody but the next call enforces. One verdict, by count and deadline. |
| Rate limits, `rate_limit.rs` | one bucket per (agent, metric) | set, remove, try_consume, status | Refill is lazy and is written by refusals and reads too. No order of calls mints tokens. |
| Task graph, `task.rs`, `task/` | tasks with dependencies, failure policies and fallbacks | create, set_state, complete, cancel, retry, delete, purge | One change reaches a whole graph. No task is left waiting for a decision that is due; nothing refers to a deleted task. |
| Runner, `runner.rs`, `tasty-task-runtime` | process memory of one thread per workspace; dispatch handles and run results in the store | tick (maintain, sweep, resume, poll, dispatch), reload, settle, start, stop | Processes outlive runners and hosts, store calls may stay unanswered, clients cancel and retry in between. One run at a time, holding its permit until it is gone; outcomes stand. |
| Store, `tasty-memory`, `tasty-utils/src/batch_writer` | a queue, a budget, one SQLite connection | admit, cut a batch, supersede, execute, retry, flush, shut down | Many clients share a transaction; its failure leaves them in doubt. Every admitted request is answered once, in order, as if alone. |
| Events and journal, `tasty-event-store`, `src/runtime` | streams with revisions, command keys, snapshots, effects | commit, group, project, snapshot, retain | A command sent twice happens once. Retention never takes what a reader needs. |
| IPC and stream hub, `tasty-ipc` | sessions, admission counts, a queue per client | accept, dispatch, push, report loss, disconnect | A slow client is told exactly what it lost. |
| Remote attach, server: `src/core/attach.rs`, `src/app/attach_activation.rs`, `event_handler.rs`; client: `src/app/attach_client` | locks on surfaces and on whole workspaces, attaches that wait for terminals; the client's session | attach, poll, input, detach, take back, clean up after a connection | Requests, input and the ends of connections arrive in one batch, and an attach holds its locks while it waits. One client types into a terminal, and no lock outlives its client. |
| Plugins, `tasty-host-plugin` | a process and handshake state per plugin | start, hand-shake, relay, restart, stop | Events are relayed across restarts. |
| Boot and shutdown, single instance | phases | hand over, purge, stop in order | No client is served before the purge is done. |
| Webhooks, timers, hooks, approvals, shared memory | small tables | | |
| Terminal emulation, layout, rendering, command line, settings, themes | | | Sequential; left to tests. |

How they interact. Every change of agent state is a unit: a closure that is
queued to the store's writer thread and runs alone and at once. What a unit
wrote is committed even when its body answers an error. The caller may give up
waiting, or the commit may fail, and then it does not know whether the unit
happened. `BatchWriter` is about this promise; the other modules build on it:
their actions are units, and their unanswered calls are its unknown outcomes.
The runner of a workspace lists the tasks, and from this list makes one store
call after another; IPC clients, watcher threads (one per process) and
settlement threads (one per cancel without a runner) make theirs in between.
Ended tasks are announced to those who wait for them through the same store.

Remote attach does not touch the store. A stream connection has a reading thread
and a writing thread; the reading thread puts messages in the hub's inbound
queue, the main loop takes all there is and applies it as one batch, and answers
and screen contents go out through the connection's sink. When a connection
ends, its threads end first, and then the main loop hears of it and gives its
locks back: `StreamHub` is about the first half, and `Attach` takes it for
granted and is about the second.

## Modules

| Module | Models | Kind |
|---|---|---|
| `Semaphore`, `MC_Semaphore`, `Semaphore_proofs` | `SemaphoreStore` on one name | checked and proved |
| `LeasePool`, `MC_LeasePool`, `LeasePool_proofs` | `LeaseStore`, with one elastic pool | checked and proved |
| `Clock` | the `now_ms` of barrier and rate limit calls | extended by the next two |
| `Barrier`, `MC_Barrier`, `Clocked_proofs` | `BarrierStore` on one name | checked and proved |
| `RateLimit`, `MC_RateLimit`, `Clocked_proofs` | `RateLimitStore` | checked and proved |
| `TaskStore`, `MC_TaskStore`, `TaskStore_proofs` | `TaskStore` for v1 tasks | checked and proved |
| `RunnerHost`, `MC_RunnerHost`, `RunnerHost_proofs` | runner, executor, watchers, settlement, host | checked and proved |
| `SerialStore` | what the batch writer promises the holders of its receipts | abstract specification |
| `BatchWriter`, `MC_BatchWriter`, `BatchWriter_proofs` | `Writer`, `Handle`, `Shutdown`, the worker thread, and the executors of memory.db, state.db and the user's files | checked and proved, implements `SerialStore` |
| `StreamHub`, `MC_StreamHub`, `StreamHub_proofs` | one sink of `StreamHub`, the writing and the reading thread of its connection, the main loop's pump | checked and proved |
| `Attach`, `MC_Attach`, `Attach_proofs` | `OccupancyRegistry`, `PendingAttach`, and the main loop's handling of stream connections | checked and proved |

Definitions keep the names of the source; `PROJECT.json` gives the lines each of
them stands for.

**Time** in the first four modules is a clock `now` that only goes on, and every
call carries a stamp of its own. A stamp lies up to `MaxLag` behind: the runner
reads the clock before its call is queued, and the system clock may be set back.
`LeasePool` also lets a caller's own stamps never go back; it needs that, since
a caller with an earlier stamp would still see a lease it had already seen
expire. What callers were told (`told`, `verdict`, `accepted`, `window`) is
history: the code keeps no such thing, and the properties compare
it with what is stored.

**Semaphore.** `sem` is the stored record, `told` the expiry each holder was
last given, `drained` the holders that were there when the limit was last set.
Acquire is three actions: refreshed, granted, refused; the refusal still writes
the eviction. Renew evicts nothing, as in the code.

**LeasePool.** One action per call; `acquire_any` splits into the name the
caller holds, the first it can take, a synthesized name, a synthesized name that
collides with one leased directly (the count stays raised), and a refusal. An
acquire may also be made and its answer lost (`GrantUnheard`), or not be made at
all (`NotRun`); the caller then counts on nothing, and may give back any name,
as the runner does with the fixed candidates. A synthesized name that was taken
unheard stays its caller's until the caller's next call or its TTL.

**Barrier.** Each call first settles the timeout. `create` for a name in use,
and calls for a name that is not, change nothing and are no actions. The names
`GateSpec`, `GateNext` and so on keep it apart from `RateLimit`, with which it
shares the clock and a module of proofs.

**RateLimit.** One (agent, metric) pair. Tokens are counted in units of
1/per_ms, so that the code's floating-point refill is exact; rounding is not
modelled.

**TaskStore.** A book is the stored tasks of a workspace; `SetState` takes one
through everything `set_state` does to it: the fallback woken, created or
skipped, then the readiness of the downstream in whatever order the traversal
finds it, and the mains of a fallback. The code's loops are recursive functions on
a number: `Settle` makes as many `Round`s over the downstream as it has tasks,
which is as many as can change something (`SettleLeavesNone`), and `CascadeAll`
and `PropagateAll` go through a list. What is reached along edges is what lies in
every set that is closed under them (`Reached`). An inline fallback is created from
the spec its main carries (`InlineFor`): with dependencies of its own or its main's,
as a reduce with inputs, and aborting or continuing when a dependency fails; its
creation may be refused, when one of these was deleted (`CannotRescue`). A spec that
names a fallback in turn is left out. Ids are used once. Results, bindings, types and
the size of records (other than "too large to start") are left out.

**RunnerHost.** The runner thread is a program counter `pc` over the phases of
a tick and of a reload, the tasks left in the phase, and the step the current
task is at. One action is the work between two store calls. `runs` are the
processes with their watcher threads, numbered per task; the number stands for
PID and start time. `ex` is what the loop and the executor remember, and is lost
when the runner stops, panics or crashes. The abstractions are listed at the
head of the module. In short: tasks are v1 Run tasks with one permit each; calls
that start, report or acquire, and the storing of a handle, may stay unanswered,
having happened or not, and the list of tasks may not be read; other calls are
answered; clients cancel, retry and delete, but do not set states. A deletion is
two units, the task's and that of its side keys, and the runner may dispatch the
task from an older snapshot before, between or after them.

**BatchWriter.** Requests, flushes and the final flush get their numbers and
their place in the queue under one lock, so the queue is the numbers from
`taken + 1` to `next`. A `slot` goes from pending to ready to taken, or is
abandoned when its receipt is dropped; `size`, `items` and `bytes` are the
budget. The worker (`pc`) cuts a flush or a batch off the front of the queue,
lets the executor run the batch, and completes its tickets one by one. The
executor's ways to end are actions: committed, nothing committed, commit unknown
(written or not), one body panicked and the rest is run again, the executor
itself panicked, and for files every request on its own. `stored` is what was
written, `verdict` what the execution came to, `answer` what was put in the slot.
`executor` is chosen at the start: memory.db judges requests against what is
stored and has barrier reads, files have snapshot keys, and state.db has a
transaction per batch and snapshot keys. `Resubmit` is `run_blocking`'s second
attempt. At the end come `begin_shutdown` with its final flush, the worker's
exit guard, which also runs when the worker panics, and the owner's `Join`.

**SerialStore** has no queue, batch, budget or worker: requests are asked, some
are decided, those of them that take effect do so after everything that took
effect before, and holders are told what was decided. It says what each answer
is worth: *ok* and *rejected* are true of the store at that point in the order,
after *failed* the request had no effect, *unknown* and *lost* promise nothing.

**StreamHub.** One registration of a client, from `register` to the main
loop's `ClientDisconnected`. `holder` says who has the lock of the sink map and
what it does next: a push raises the backlog counter (`queued`), tries the
channel, and counts what does not fit as lost and as a debt; before its own
frame it pays the debt with a `Loss` notice. The writing thread works without
the lock: it takes a frame out, lowers the counter, reads the cached debt
(`owes`), takes the lock only if there is one (`RepayNow`), and checks that the
registration is current before it writes. A step is one access to what is shared
without the lock. `wire` is what reached the socket. Ending is modelled from all
sides: the limit of losses in a row, a failed write, a closed peer, a cut by the
main loop, a forced `Detach`; the reading thread unregisters, joins the writer,
and only then tells the main loop.

**Attach.** `surface_locks`, `workspace_locks`, `dead_clients` and `pending` are
the code's; `conn` is how far a connection's threads are, `inbound` and `batch`
what they sent and what the loop has taken. Threads act between any two steps of
the loop. `Pump` marks the connections whose end is in the batch; requests for
surfaces are served, then those for workspaces, then input, and `Cleanup` gives
the locks of the ended connections back. `Granted` is `acquire` and
`acquire_workspace`, which evict marked holders on the way; `Refused` names a
living holder and may have evicted others. A surface of a plugin's kind is given
at once (`BeginMesh`), or refused while that kind is not registered
(`BeginUnregistered`). An attach with terminals waits in
`pending` with its locks taken but not ready, until a poll drops it, fails it or
makes it ready; whether a terminal can be started is an outcome of the poll.
`Close` and `ForceDetach` are what the local user does meanwhile. `before` and
`taken_back` are history.

## Runs

| Run | Bounds | Shows |
|---|---|---|
| `semaphore` | 3 symmetric holders, limit 1 or 2, TTL 1, 2 or none, lag 1, time 4 | `PromiseKept`: nobody loses a permit before the expiry it was told. `OverSubscribedOnlyByDrain`: the limit is exceeded only by those who were there when it was lowered. |
| `lease_pool` | one fixed name, two names to synthesize, an elastic, a fixed and a direct caller, lost answers, lag 1, time 3 | `Exclusive`, `BeliefBacked`: who was told of a lease has it, alone. `OneNamePerPoolCaller`, `PoolWithinCap`. |
| `barrier` | 1 to 3 signals, timeout 1, 3 or none, lag 2, time 6 | `VerdictStands`, `ClosedByExactlyRequired` |
| `rate_limit` | one pair, two settings, costs 1 and 2, lag 1, time 5 | `WindowBound`: in any stretch of time no more is spent than a full bucket and what flowed in |
| `task_graph` | 4 tasks of several possible definitions, 2 ids for inline fallbacks, which take their main's dependencies or one of their own, with a policy of their own; no force | `NoTaskLeftBehind`, `NoDanglingReference`, `OneInlineFallback`, `WorkIsKept`: a success stands, and what runs ends only by its own end, whatever happens around it. `StartsOnResults`: what starts has what it depends on. |
| `task_fallback` | 4 tasks with named fallbacks, an inline one that reduces what it depends on, reservations and force | `TypeOK`, `FallbackWakesOnlyOnFailure` |
| `runner_host` | 2 tasks, 1 permit, 1 retry, 1 deletion, 1 fault (unanswered call, unread list, stop, panic or crash), any number of cancels and starts | `TypeOK`, `RunsHoldPermit`, `OneRunAtATime`, `StartedOncePerReady`, `OutcomeStands`, and no deadlock |
| `runner_permit` | 1 task, 1 retry, 1 deletion, 2 faults | `PermitComesBack`: a permit of a task that has ended is given back while a runner stays on; and no deadlock |
| `runner_retry` | 1 task, 1 retry, no fault | finding: `RetriedTaskStarts` fails |
| `batch_writer` | 3 requests or flushes (at most 2 flushes) and the final flush, a batch that holds all three, a budget of three requests and 5 bytes, 2 attempts, executors memory.db and files | `BudgetAddsUp`: the budget is what is admitted and not consumed. `CleanFlushMeansStored`, `CleanShutdownLosesNothing`: a clean flush tells the truth. `BodyWrittenOnce`: retries do not write twice. `NobodyLeftWaiting`: every receipt is answered. `SerialSpec`: the writer implements `SerialStore`. |
| `stream_hub` | a channel of 2 frames, 3 losses in a row, 6 pushes, any of them a Detach | `EveryFrameAccounted`: each push that found the client arrived, is under way or is counted as lost, and each loss was told, is being told or is owed, once. `LossNeverAhead`, `BacklogHonest`. `StreamEndsBeforeRelease`: nothing is written after the locks may go. `LossIsTold`, `ConnectionReleased`: liveness. |
| `attach` | 2 connections, a workspace of two terminals and a mesh surface, of which a terminal, the mesh and the whole are asked for, 1 closed surface | `OneClientTypes`, `NoLockOutlivesItsClient`, `RefusedByTheLiving`: who comes back is not refused on account of its dead connection. `AttachedMeansHeld`, `ResidualInputReaches`: what was typed before the end arrives. `AttachAnswered`: liveness. |

A type invariant that is proved for every instance is not checked again, except
that of `RunnerHost`, which also says what a stored handle may name, and that of
`TaskStore`, which also says what may be reserved. Likewise
four properties that follow from others, or from the same invariant, are left to
their proofs: `AtMostPermits` and `DrainAdmitsNobody` of `Semaphore`,
`GrowsOnlyWhenFull` of `LeasePool`, `EndRespectsDeadline` of `Barrier`.

Why the bounds are enough. In the first four, calls interact through one record
or pool; two callers contend and a third can get in between, the clock runs past
every TTL with room for a late stamp, and limits are both raised and lowered.
The proofs take these bounds away. `task_graph` has a
diamond, a join, a chain below it, a reduce and an inline fallback, the shapes
in which the order of the cascade matters; `task_fallback` has a fallback shared
by two mains and a task waiting for either. `runner_host` has two tasks because
a permit given back too early shows when another task gets it, and one retry
because a second run of a task is what the remains of the first can be confused
with. One fault is put at every point of that run; `runner_permit` puts two,
since the second may hit what cleans up after the first. The safety properties
also hold for two tasks with two retries and a fault (8 million states without
deletions), which is too long for a run that is made often. One deletion is
enough, since ids are used once: what a deleted task leaves behind can only hurt
the other one.

In `batch_writer` three requests are the least with which one can be superseded
with another in between, fail or be rejected beside others that are not, and be
resubmitted behind a third; a budget of five bytes refuses what a budget of
three requests would take, and results are larger or smaller than requests. A
flush can measure from another one, and both from the start. state.db's
executor takes the steps of memory.db's on the requests of the files; it is left
to the proofs, which take the bounds away altogether.

In `stream_hub` six pushes fill the channel, lose three frames in a row, and
also lose some, tell of them and lose some again. In `attach` locks are
contended by two; a third connection would find what one of two finds, and the
proofs of the three exclusion properties have no bound. `t2` is not asked for by
itself, since it differs from `t1` in nothing; it is there so that a workspace
has a terminal that a surface attach does not touch. One closed surface is
enough to pull each kind of target away under an attach, before it begins, while
it waits and after it is ready.

`TaskStore` switches deadlock off: it stops when all ids are used and all tasks
have succeeded. So does the finding of `RunnerHost`, since only its one property
matters, and so do `BatchWriter`, which stops when it was shut down and joined,
and `StreamHub` and `Attach`, which stop when their connections have ended; there
`NobodyLeftWaiting`, `ConnectionReleased` and `AttachAnswered` say what a
deadlock check would look for. The other runs check it.

Between them the passing runs take every action, and every property has a
mutant in `PROJECT.json`: a definition changed as a plausible bug would change
it, which TLC must find.

## Fairness

`RunnerHost`, `StreamHub` and `Attach` have liveness properties.

`RunnerHost` assumes that a runner that is on
keeps taking steps (`run_loop` ticks for ever) and that a killed process dies at
some time (SIGKILL of a process group). It does not assume that processes end by
themselves, that watcher threads see their end (inherited pipes may keep them),
that settlement threads get anywhere (they give up after a bound), or that
anybody starts a runner: the properties speak of behaviours in which a runner
stays on.

`StreamHub` assumes that threads run (weak fairness of the writer, of whoever
holds the lock, and of the reading thread's last step), and that a thread that
wants the lock of the sink map gets it some time although others take it again
and again (strong fairness of `RepayNow`, `Unregister`, `RepayAll`): the lock is
held for a few memory accesses. A client that is there sends its heartbeat, so
the main loop pumps; a client whose stream has ended runs into the read limit.
That a write ends is assumed too, see "Seen while modelling". Nothing is assumed
of pushes, of the peer's closing, or of the main loop's cuts.

`Attach` assumes that the loop takes what is inbound and gets on with a batch,
that the writer of an ended connection ends (`StreamHub`'s promise), and that an
attach that waits is polled some time between batches, strongly, because a batch
may be there whenever one looks. The poll is taken to end the wait: a terminal
starts or fails to. Nothing is assumed of clients or of the user.

`BatchWriter` assumes no fairness. That each receipt is answered is stated as an
invariant of the ended worker (`NobodyLeftWaiting`); the worker itself has
nothing to wait for but its executor, and each of its steps takes something off
the queue or out of its hand.

## Proofs

| Theorem | Says |
|---|---|
| `Semaphore_proofs!TypeCorrect`, `PromiseIsKept`, `OverSubscriptionIsDrain`, `PermitsBoundWorkers`, `DrainOnlyEnds` | the two properties of run `semaphore`, `AtMostPermits` and `DrainAdmitsNobody` |
| `LeasePool_proofs!TypeCorrect`, `BeliefsAreBacked`, `ResourcesAreExclusive`, `OneNameAtATime`, `CapIsKept`, `ReuseBeforeGrowth` | the four of run `lease_pool`, and `GrowsOnlyWhenFull` |
| `Clocked_proofs!TypeCorrect`, `WindowIsBounded` | that of run `rate_limit` |
| `Clocked_proofs!GateTypeCorrect`, `VerdictIsFinal`, `ClosesOnCount`, `GateDeadlineDecides` | the two of run `barrier`, and `EndRespectsDeadline` |
| `TaskStore_proofs!TypeCorrect`, `ReferencesLeadSomewhere`, `InlineFallbackIsCreatedOnce`, `WorkIsKeptByAll`, `StartsOnStandingResults`, `FallbackWakesOnFailure`, `NobodyIsLeftBehind` | the seven of runs `task_graph` and `task_fallback` |
| `RunnerHost_proofs!Invariance`, `TypeCorrect`, `RunsKeepPermits`, `OneRun`, `StartedOnce`, `OutcomesStand` | the inductive invariant, and the five properties of run `runner_host` |
| `BatchWriter_proofs!TypeCorrect`, `CleanFlushIsTrue`, `CleanShutdownIsTrue`, `BodiesAreWrittenOnce`, `EveryoneIsAnswered`, `BudgetIsRight` | the five invariants of run `batch_writer` |
| `BatchWriter_proofs!Refinement` | `Spec => SerialSpec`: the batch writer implements the serial store |
| `StreamHub_proofs!TypeCorrect`, `BacklogIsHonest`, `StreamEnds`, `FramesAddUp`, `LossesComeInTime` | the four safety properties of run `stream_hub` |
| `Attach_proofs!TypeCorrect`, `OneClient`, `LocksGo`, `LivingRefuse`, `AttachedIsHeld`, `ResidualInput` | the five safety properties of run `attach` |

Each module's type invariant is the first theorem about it; that of
`RunnerHost` is part of an invariant that is stated before it.

They hold for every set of callers, every limit, TTL, cap, count, timeout, lag
and clock bound, every number of tasks, permits, retries, deletions and faults,
every number and size of requests, every channel, and every number of
connections, surfaces and workspaces that the modules' ASSUMEs admit. These say what the types in the code say (limits and counts
positive, times and sizes natural numbers), that "no TTL" and "no timeout" are
not numbers, for semaphores that there are finitely many holders, and for the
task store that ids for inline fallbacks are no ids that clients use, and what
the menus of definitions are made of. Five of the theorems about the task store
need more and say so in their ASSUME; see below.

*Semaphore.* `PromiseKept` is inductive with the type invariant: a call's stamp
is not ahead of the clock, so what it evicts had run out for everybody
(`ExpiryIsMonotone`), and a grant changes one entry (`WithIsBook`).
`OverSubscribedOnlyByDrain` needs a fact about steps (`HoldersStep`): a step that
leaves more holders than permits adds none, since acquire adds one only where
there is room (`GrantFitsLimit`, on cardinalities). `AtMostPermits` follows:
those who believe in a permit are listed.

*LeasePool.* `BeliefBacked` is inductive, and `Exclusive` follows, since a
resource has one record. `OneNamePerPoolCaller` is not: one has to know that a
pool caller has at most one lease that has not expired *at its own last stamp*,
whether it was told of it or not (`HeldAlone`), and that all its leases are names
its scan goes over (`InOwnPool`), or the scan would miss one and take a second.
Both hold only because a caller's stamps do not go back. Lost answers are why the
first speaks of what is stored, not of what the caller knows.

*Barrier.* The verdict stands because it is the stored state (`Accounted` ties
the signals answered, the count and the verdict together), and terminal states
are left only by delete, which starts a new life of the name.

*RateLimit.* `WindowBound` speaks of what was spent, and says nothing of what is
still in the bucket, so it is not inductive. The invariant adds what a bucket
holds: it is no fuller than full, a pair has one record only, and (`Covered`)
what was spent in the window *and what is left* came from one full bucket and
from what flowed in until the last refill, the first call of the window being
stamped up to `MaxLag` before it opened. A refill moves the last refill on by as
much as it adds (`RefillIsBounded`, `InflowAtTheTop`), a consume moves tokens
from one side to the other (`SpendingCovers`).

*RunnerHost.* That a live run holds its permit depends on who knows of the run,
and knowledge is in four places: the stored handle, the executor's memory, the
runner's snapshot, which may be old, and what the thread has in hand between two
store calls. The invariant has a part for each. `Covered`: a live run has its
permit, and its handle too, unless it was started just now or its task was
deleted. `Numbered` and `Followed`: only the last run of a task can be alive, and
what the executor remembers of the task is that run. `StillTrue`: a snapshot may
be old, but a task it shows as Ready, that the tick may yet dispatch, may still be
started, and what it shows as settled is still dead. `Waits` and `InHand`: the
tasks of a phase, and the one the thread is at, have what the phase needs of
them; in particular nothing is released, evicted or forgotten for a live run.
`Counted` leaves a start to each task that may be started, and `StartedOncePerReady`
follows from its first conjunct. Two lemmas keep the proof from being made again for
each of the actions: an action that touches one task leaves the others' part as
it was (`OnlyOne`, `NobodyTouched`), and whatever happens to processes and
watchers, runs only end (`Eased`). `OutcomeStands` is about steps and follows
from how the state of a task may move in one (`TasksMove`).

*BatchWriter.* The inductive invariant `IInv` says where every number is on its
way (`Stages`: in the queue, in the worker's hand, or over) and what is known of
it there; that the hand fits what the worker is at (`HandFits`), so that a batch
holds one snapshot at most and superseded ones have a later one in it; that
verdicts and the store agree (`Effects`); that whatever had no effect behind a
flush is in the tally by the time the worker is done with it (`Tallied`), which
is what makes a clean flush true; that nothing is admitted behind the final
flush (`FinalCut`); and that of the attempts for a body all but the last failed
(`Bodies`). None of the properties is inductive by itself: a clean flush, for
one, is true only because results are counted before the next cut. There is one
lemma per action, over a description of the step (`PushOf`, `ExecutedOf`,
`FinishOf`, ...) that several actions share.

`BudgetAddsUp` needs one fact beside itself and `IInv`: only a slot in the budget
holds bytes, so a flush, a slot that was taken and one that was never used hold
none (`Charged`). Then the counter is the sum over all slots, and a step
changes that sum by what the slots it touches held and hold now (`Recounted`).
A sum of bytes is the number of pairs of a slot and one of its bytes, so these
lemmas are about cardinalities.

*Refinement.* Flushes are hidden and the other variables map to themselves. A
push is an Ask; an execution and the completion of a ticket are each a Decide;
all else is a stutter. The hard part is the order within a batch: the executor
judges each request against all the requests of the run before it, rejected ones
included, the serial store only against those that take effect. `AcceptsIs` shows
that both come to the same, since the first create of a run is accepted or finds
one that is stored.

*StreamHub.* The backlog counter is changed by both sides of the channel, before
one puts a frame in and after the other takes one out. While the writer lives
it is the length of the channel, one more if the writer has just taken a frame,
and one more if a frame is about to go in (`Counted`); so it is not negative, and
without a lock holder off by one at most. That nothing is written after the main
loop was told rests on one fact: who was told, waited for the writer to be gone.

`EveryFrameAccounted` is an equation between what was pushed or lost and the
places where it is now, and each step moves an amount from one place to another.
It is inductive once the steps that make something of nothing are ruled out
(`Framed`: there are only frames in the channel, the writer holds one exactly
between taking and writing it, and only a push has a frame to send). For
`LossNeverAhead` one has to say of *every* frame in the channel, not only of the
one being written, that its number is not below all that comes out before it
(`Ahead`); a frame that is put in gets this from the equation. What a channel
holds is a sum over a sequence. The theorems on induction of the library cannot be
used, as they take an operator; but its theorem that a well-founded relation has
minimal elements takes sets, so facts about sums are proved by a least
counterexample (`Induction`), and the rest needs only how a sum changes when one
frame is added behind (`PutInWeighs`) or taken off the front (`TakeOutWeighs`).

*Attach.* Locks change in several operations, in each of which many may go and
some are granted; each operation has a lemma that says it only takes locks away
(`OnlyLess`) or also grants some to the client that asks (`Grants`), and what
remains is one lemma over these descriptions (`Moves`, `Effect`), and one over
what is told (`Hears`). The invariant: every terminal of a held workspace is
locked by its holder (`WorkspaceWhole`), which alone makes `OneClientTypes` true,
since input goes to all terminals of a workspace; holders whose end is being
applied are marked (`EndsAreMarked`); and what had ended before a client asked
is taken out of the queue with its request at the latest (`TakenTogether`), so
that it is marked, or gone, when the request is served.

`AttachedMeansHeld` and `ResidualInputReaches` are two views of one fact, which
holds longer than either: a client that was told it attached holds its target,
ready and whole, until its end is *applied*, not only until it ends (`HeldStill`,
`Unfinished`). It needs that a client asks once and waits once (`AskedOnce`), that
what the loop took is no longer in the queue (`TakenOut`), and that only clients
whose end is in the batch are marked (`MarkedHaveEnded`), since the marked are
the ones whose locks others may take. Each operation on locks has a lemma that
it leaves a client's own ready locks alone (`KeepsMine`), on the ground that a
terminal it holds lies in nobody else's workspace (`NotOfOthers`).

*TaskStore.* The number of tasks is any, and so are the menus of definitions
that clients may create them with. What the recursive functions compute cannot be
proved by the library's induction theorems; as in `StreamHub` facts about them
are proved by a least counterexample (first section of the proofs).

Whatever an operation does, it does one of four things to the book:
a task changes its state, with all that follows (`Transits`), a task is created
(`Grows`), a task is taken up again (`Resumes`), or tasks go (`Removes`). The
settling that ends three of them is described once (`Follows`: only tasks that are
Waiting change, to what their dependencies call for, and fallbacks are woken,
created or skipped). The invariant is `IInv`: the book is well formed
(`WellFormed`), and

* without forced deletes, every reference leads to a stored task (`Closed`), and
  what made a task Ready stands as long as the task has not ended
  (`StartedStands`). The second needs the first, and is what `StartsOnResults` rests
  on: retry refuses a success and rewinds only what has ended without one;
* if no client creates a task with the mark of an inline fallback (`Unmarked`), a
  main has one inline fallback at most (`Single`); and if specs give no dependencies
  and no inputs of their own (`Inheriting`), it waits for just what its main waits
  for (`Shaped`).

`WorkIsKept` and `TypeOK` have no hypothesis. The others have those under which
the code keeps the promise:

| Theorem | Needs | Since |
|---|---|---|
| `ReferencesLeadSomewhere`, `StartsOnStandingResults` | no forced deletes | a forced delete leaves references dangling, which is what it is for |
| `InlineFallbackIsCreatedOnce` | `Unmarked` | a task that is created with the mark counts as the fallback of its main |
| `FallbackWakesOnFailure` | `MainsAreNotDownstream`: no main is downstream of its own fallback | retrying such a fallback with its downstream rewinds the main, see "Seen while modelling" |
| `NobodyIsLeftBehind` | `Simple`: no forced deletes, `Unmarked`, `Inheriting`, no named fallbacks (`Unnamed`), and who relies on a task with an inline fallback is used by nobody (`FewRelyOnInline`) | the cascades and retries listed under "Seen while modelling" do leave tasks behind |

TLC has checked `IInv` and these hypotheses with the instances of both runs: the
menus of `task_graph` meet `Simple` but for the one spec with dependencies of its
own, and all of it without that spec; those of `task_fallback` meet the hypotheses
of the others but for its forced deletes. With its own-dependency spec `task_graph`
goes beyond what is proved of `NoTaskLeftBehind`.

`NoTaskLeftBehind` says that no Waiting task has its decision due
(`LeftBehind(Book) = {}`). It is shown in four steps. *Settling leaves none in its
scope* (`SettleLeavesNone`): a round that changes nothing has found nothing to
decide, a round that changes something leaves fewer Waiting tasks, and there are
as many rounds as tasks. *Outside the scope nothing is touched*
(`OutsideUntouched`): the decision about a task depends on its own dependencies
and their fallbacks, none of which settling changed without the task being
downstream of them. *A change by hand concerns users only*
(`ChangeConcernsUsers`): a task that was not due, and is now, uses what was
changed. *What does not decide anything concerns nobody* (`NothingDecided`):
setting a task to Running, or back to Waiting, makes no decision due. Each
operation is then a change by hand whose users are in the scope of the cascade
that follows it. The hard case is a main that fails with an inline fallback: those
who wait for it get an answer only through a task that is created in the middle of
the operation, on which they do not depend by any edge.

Model-checked only: liveness, which is beyond the provers. `PermitComesBack` is
therefore checked for one task and two faults only, and `LossIsTold`,
`ConnectionReleased` and `AttachAnswered` for the bounds of their runs.

## Findings

* `runner_retry`: a running task that is cancelled and retried between two
  snapshots of the runner is never started again until the runner is restarted.

Seen while modelling, without a run of their own.

Resources and tasks:

* The rate limiter's `set` makes a new record's id from the time and the agent's
  slug alone, so limits set for two metrics of an agent in one millisecond
  overwrite each other, and the first pair is unlimited.
* `advance_existing_fallback` settles nothing but the fallback itself: when it
  skips one, because a dependency of its own had failed, those who wait for the
  fallback, or for another main of it, stay Waiting.
* A task whose end is unknown can be retried without its downstream, and may then
  be settled Skipped at once, and those that depend on it are not looked at
  (`retry.rs`). With `a`, `b`, `c` in a row and an inline fallback on `a`: `a` fails,
  its fallback succeeds, the end of `b` is unknown; `a` is retried, its fallback
  deleted, and `a` and a new fallback fail; retrying `b` leaves `c` Waiting.
* Retrying a fallback with its downstream, when its main is downstream of it,
  makes the fallback Ready and the main wait again, so that it is awake although its
  main has not failed. With `b` after `a`, continuing on failure, and `c` after `b`
  falling back to `a`: `a` is cancelled, `b` succeeds, `c` fails, `a` is retried.
* A cascade that skips a fallback, because its own dependency failed after its
  main had, leaves the tasks that wait for the main Waiting for ever
  (`transition.rs`). With `b` falling back inline to a task after `d`, and `c` after
  `b`: `b` fails, `d` fails or is cancelled, the fallback is skipped, `c` stays
  Waiting. `NoTaskLeftBehind` therefore is checked with a fallback that has a
  dependency of its own but continues when it fails, and proved for fallbacks that
  have none.
* What `depends_on_override` and the inputs of an inline spec name may be deleted
  before the main fails, since nothing counts them as references. `set_state` then
  answers with an error after it has stored the failure: there is no fallback, and
  nothing downstream is looked at.
* Deleting a main leaves its named fallback Waiting, as does a main born Skipped;
  a dangling dependency left by a forced delete makes every later create of the
  workspace fail; a failed v1 main can be retried while its fallback runs; and a
  `continue_downstream` task that is created after its dependency failed is born
  Skipped, although the same task created before would run.

Runner:

* A task deleted between the runner's snapshot and its dispatch is started all
  the same, and its permit, if it has no TTL, is never given back, since no
  snapshot lists the task and `finalize` releases nothing for a task it does not
  find.
* A look for an earlier run's handle that is not answered counts as none, so that
  a retried task may start beside its old run.
* The watcher of a cancelled run may save its outcome after the run was cleaned
  up, and a restart then takes it for the outcome of the next run
  (`runner_thread.rs:617`).

Stream connections:

* The comment at `stream_hub.rs:257` says that a Loss need not wait for the next
  push or input. The writer may read the cached debt before the refused push
  stores it, and then the Loss does wait for one of them.
* The comment at `stream_hub.rs:329` says that a connection's share of the backlog
  cannot exceed the channel's capacity. It may read one more (`BacklogHonest`).
* A data frame may overtake its Loss when the writer frees a slot between the
  refused notice and the frame, as `docs/dev-guide/attach-behavior.md:242` admits.
  `LossNeverAhead` is the converse, which does hold.
* `finish_stream_connection` joins the writer without shutting the socket, and the
  writer has no write timeout, so a peer that does not read keeps its lock beyond
  the heartbeat limit, at which `attach-behavior.md:83` says it is released.

Remote attach:

* Closing the surface that a waiting surface-attach is for drops the attach
  without an answer (`AttachAnswered` leaves this case out).
* A surface attach of a mesh surface and another client's attach of its workspace
  may hold at the same time. Releasing or evicting the workspace then takes the
  first client's lock too, and tells it nothing (`AttachedMeansHeld` speaks of
  terminals).
* A refused `acquire_workspace` may already have evicted marked holders, which is
  harmless, as their end is applied in the same batch. The requests for surfaces
  of a batch are served before those for workspaces, whichever came first.

## Plan

In this order:

1. `RunnerHost` continued: leases beside permits, reads that fail, v2 attempts,
   TTL renewal, postprocess runs.
2. `RunnerRegistry`: several engines starting, stopping and reaping runners; at
   most one loop per workspace.
3. The client's side of remote attach (resume, heartbeats, reconnects), and the
   composition of `Attach` with several `StreamHub` connections.
4. `TypedGraph`: v2 graphs submitted as one unit, routes, rescue and verify
   tasks, attempts; then the composition of the task store and the runner, with
   cancel, retry and delete as they reach both.
5. `HookWait`, `TerminalNotice`: late answers, expiry, and the delivery of ended
   tasks to their waiters.
6. `EventStore`: revisions, retry keys, snapshots, retention.

Of the earlier plan the batch writer, the stream hub, the server's side of
attach and the proofs about the task store are done. The runs are kept to a dozen, so that all of them can be made at
every change; a new module's run takes the place of one that shows less, as
`batch_writer`, `stream_hub` and `attach` did of three that showed single
disagreements, which are now told under "Seen while modelling".

## Not modelled

Besides the parts above: rounding of the rate limiter's floats, widths of
integers (times are u64 milliseconds, counts u32; nothing in the modelled code
gets near), names and how they are reduced to keys (other than the rate
limiter's slug), sizes of records other than "too large to start", output of
processes, and everything of Windows and Unix process control below "kill" and
"gone". Of the writer: `Writer::close`, which only tests call, state.db's own
barrier requests and tutorial chains, the settings revisions that the callers of
the file writer keep, measurements, and panics of the worker inside `finish`;
and what a body wrote before it answered an error, which is committed with the
batch: in `BatchWriter` a rejected request has written nothing. Of the task
store: inline fallbacks that have a fallback in turn.
Of the stream hub: the byte charge of frames and its reservations, the
publication fences, bulk bindings, connections that ask and answer, and the
rejected handshake, which never starts a writer. Of attach: soft occupancy,
which blocks nobody, several engines, bulk connections, structural changes other
than a closed surface, a halted journal, the limit on waiting attaches, and full
queues; the requests and the input of a batch are applied in any order, although
the code takes them as they came. Components with status `not_modelled` in `PROJECT.json` say why.
