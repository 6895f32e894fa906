----------------------------- MODULE BatchWriter -----------------------------
(***************************************************************************)
(* The batch writer (crates/tasty-utils/src/batch_writer.rs and its        *)
(* directory) with one of its executors: for memory.db (crates/            *)
(* tasty-memory/src/writer.rs, batch.rs), for state.db (src/db/writer.rs), *)
(* for the user's files (src/app/file_writer.rs).  Callers leave requests  *)
(* in a queue and hold receipts, one worker thread gathers requests into   *)
(* batches, executes them and fills the slot of each request, and a budget *)
(* counts what is admitted and not yet consumed.                           *)
(*                                                                         *)
(* Every step is one critical section of the queue's lock, of a slot's     *)
(* lock, or one call of the executor; threads act in between.  The ticket  *)
(* of a request and those of the requests it supersedes are completed in   *)
(* one step: no two slots are ever looked at together.                     *)
(*                                                                         *)
(* What is abstracted.  Requests are pushed and popped under the lock that *)
(* numbers them, so the queue is the numbers from taken + 1 to next.  The  *)
(* window of a batch may end at any moment.  A busy execution that is      *)
(* tried again changes nothing and is not a step.  What a request writes   *)
(* is its number; a "create" stands for a request judged against what is   *)
(* stored, a "read" for a barrier request, which finds what was created or *)
(* is rejected, and all snapshots have one key.  A rejected request wrote  *)
(* nothing here: what a body of memory.db wrote before it answered its     *)
(* error, which is committed with the batch, is left out.  So are          *)
(* state.db's barrier, which is never rejected, measurements and wake-ups. *)
(***************************************************************************)
EXTENDS Integers, FiniteSets

CONSTANTS MaxSeq, MaxFlushes,      \* bounds of the model: numbers given out, callers' flushes
          MaxItems, MaxBytes,      \* of a batch
          QueueItems, QueueBytes,  \* of the budget
          Attempts,                \* of a blocking caller
          ReqBytes, OutBytes,      \* the size of a request and of its result
          Executors                \* which executors are considered

Kinds == {"put", "create", "snapshot", "read", "flush"}

ASSUME BatchWriterAssumption ==
    /\ {MaxSeq, MaxFlushes, MaxItems, MaxBytes, QueueItems, QueueBytes, Attempts} \subseteq Nat \ {0}
    /\ {ReqBytes, OutBytes} \subseteq [Kinds -> Nat]
    /\ Executors \subseteq {"memory", "state", "files"}

Seqs == 1..MaxSeq

VARIABLES
    kind,       \* what was admitted under each number, "none" if nothing yet
    origin,     \* the first request of a blocking caller's attempts
    since,      \* the flush whose point a flush measures from, 0 the start
    next, taken,                   \* the last number given out, the last cut
    admitting, stopping, alive,    \* the queue's flags
    slot, size,                    \* each result slot and the bytes it holds
    items, bytes,                  \* the budget
    answer,     \* the result put in each slot
    pc,         \* what the worker is at
    run, links, \* the batch being executed, and the requests it supersedes
    verdict,    \* the results of executed requests, not yet in their slots
    tally,      \* how many requests did not take effect
    point,      \* the tally each flush reported
    stored,     \* the requests whose writes are stored
    executor,   \* memory.db and state.db have one transaction per batch
    final, drained    \* the final flush, and what the owner saw of it at join

requests == <<kind, origin, since>>
queue == <<next, taken, admitting, stopping, alive>>
slots == <<slot, size, items, bytes, answer>>
worker == <<pc, run, links, verdict, tally, point>>
vars == <<requests, queue, slots, worker, stored, executor, final, drained>>

Results == {"ok", "rejected", "failed", "unknown", "lost"}
FlushResults == {"clean", "unclean", "lost"}

Queued == taken + 1..next
Budgeted(s) == kind[s] \in Kinds \ {"flush"}
Held == {s \in Seqs : Budgeted(s) /\ slot[s] \in {"pending", "ready", "abandoned"}}

\* What the slots S hold together, f[s] bytes in each.
BytesOf(S, f) == Cardinality(UNION {{s} \X (1..f[s]) : s \in S})

Init ==
    /\ kind = [s \in Seqs |-> "none"]
    /\ origin = [s \in Seqs |-> s]
    /\ since = [s \in Seqs |-> 0]
    /\ next = 0 /\ taken = 0
    /\ admitting = TRUE /\ stopping = FALSE /\ alive = TRUE
    /\ slot = [s \in Seqs |-> "none"]
    /\ size = [s \in Seqs |-> 0]
    /\ items = 0 /\ bytes = 0
    /\ answer = [s \in Seqs |-> "none"]
    /\ pc = "waiting"
    /\ run = {}
    /\ links = {}
    /\ verdict = [s \in Seqs |-> "none"]
    /\ tally = 0
    /\ point = [s \in Seqs |-> 0]
    /\ stored = {}
    /\ executor \in Executors
    /\ final = 0 /\ drained = "no"

-----------------------------------------------------------------------------
(* The callers' side.  The last number is kept for the final flush.        *)

Push(s, k) ==
    /\ next' = s
    /\ kind' = [kind EXCEPT ![s] = k]
    /\ slot' = [slot EXCEPT ![s] = "pending"]

Submit(k, first) ==
    LET s == next + 1 IN
    /\ s < MaxSeq
    /\ admitting
    /\ items < QueueItems /\ bytes + ReqBytes[k] <= QueueBytes
    /\ Push(s, k)
    /\ origin' = [origin EXCEPT ![s] = IF first = 0 THEN s ELSE first]
    /\ size' = [size EXCEPT ![s] = ReqBytes[k]]
    /\ items' = items + 1
    /\ bytes' = bytes + ReqBytes[k]
    /\ UNCHANGED <<since, taken, admitting, stopping, alive, answer, worker,
                   stored, executor, final, drained>>

\* Only memory.db judges requests, only the others have snapshot keys.
Offered == IF executor = "memory" THEN {"put", "create", "read"} ELSE {"put", "snapshot"}

SubmitNew == \E k \in Offered : Submit(k, 0)

\* Mutant: an unknown outcome is taken for a failure.
RetryableUnknown(s) == answer[s] \in {"failed", "unknown"}

\* Was the blocking caller told that nothing was committed?
Retryable(s) == answer[s] = "failed"

\* run_blocking then submits its body again, up to the last attempt.
Resubmit(s) ==
    LET attempts == {t \in Seqs : kind[t] # "none" /\ origin[t] = origin[s]} IN
    /\ executor = "memory"
    /\ kind[s] = "put" /\ slot[s] = "taken" /\ Retryable(s)
    /\ \A t \in attempts : t <= s
    /\ Cardinality(attempts) < Attempts
    /\ Submit("put", origin[s])

\* Points to measure from: the start, or that of a flush already answered.
Flush(from) ==
    LET s == next + 1 IN
    /\ s < MaxSeq /\ Cardinality({t \in Seqs : kind[t] = "flush"}) < MaxFlushes
    /\ alive
    /\ from # 0 => answer[from] \in {"clean", "unclean"} /\ slot[from] = "taken"
    /\ Push(s, "flush")
    /\ since' = [since EXCEPT ![s] = from]
    /\ UNCHANGED <<origin, taken, admitting, stopping, alive, size, items,
                   bytes, answer, worker, stored, executor, final, drained>>

\* Budget given back for the slots S, which hold what size says.
Release(S) ==
    /\ items' = items - Cardinality(S)
    /\ bytes' = bytes - BytesOf(S, size)

TakeResult(s) ==
    /\ slot[s] = "ready"
    /\ s # final
    /\ slot' = [slot EXCEPT ![s] = "taken"]
    /\ Release({s} \cap Held)
    /\ size' = [size EXCEPT ![s] = 0]
    /\ UNCHANGED <<requests, queue, answer, worker, stored, executor, final, drained>>

\* A dropped receipt: the request is executed all the same.
Abandon(s) ==
    /\ s # final
    /\ \/ /\ slot[s] = "pending"
          /\ slot' = [slot EXCEPT ![s] = "abandoned"]
          /\ UNCHANGED <<size, items, bytes>>
       \/ /\ slot[s] = "ready"
          /\ slot' = [slot EXCEPT ![s] = "taken"]
          /\ Release({s} \cap Held)
          /\ size' = [size EXCEPT ![s] = 0]
    /\ UNCHANGED <<requests, queue, answer, worker, stored, executor, final, drained>>

\* Mutant: the flag is left as it was.
KeepAdmitting == UNCHANGED admitting

StopAdmitting == admitting' = FALSE

BeginShutdown ==
    /\ final = 0 /\ ~ stopping
    /\ StopAdmitting
    /\ stopping' = TRUE
    /\ IF alive THEN /\ Push(next + 1, "flush")
                     /\ final' = next + 1
                ELSE UNCHANGED <<next, kind, slot, final>>
    /\ UNCHANGED <<origin, since, taken, alive, size, items, bytes, answer,
                   worker, stored, executor, drained>>

\* poll_shutdown after the worker thread has ended: join, final flush.
Join ==
    /\ stopping /\ pc = "ended" /\ drained = "no"
    /\ drained' = IF final # 0 /\ slot[final] = "ready" THEN answer[final] ELSE "lost"
    /\ slot' = IF final = 0 THEN slot
               ELSE [slot EXCEPT ![final] = IF @ = "ready" THEN "taken"
                                            ELSE IF @ = "pending" THEN "abandoned" ELSE @]
    /\ UNCHANGED <<requests, queue, size, items, bytes, answer, worker, stored,
                   executor, final>>

-----------------------------------------------------------------------------
(* The worker.                                                             *)

\* Mutant: what a dropped receipt held stays counted.
FreedNothing(gone) == {}

\* The slots in the budget among those whose receipts are gone.
Freed(gone) == gone \cap Held

\* Results v of sizes out for the tickets T.  A dropped receipt's is thrown
\* away and what the request held is given back.
Complete(T, v, out) ==
    LET open == {t \in T : slot[t] = "pending"}
        gone == {t \in T : slot[t] = "abandoned"}
    IN  /\ slot' = [s \in Seqs |-> IF s \in open THEN "ready"
                                   ELSE IF s \in gone THEN "taken" ELSE slot[s]]
        /\ answer' = [s \in Seqs |-> IF s \in open THEN v[s] ELSE answer[s]]
        /\ size' = [s \in Seqs |-> IF s \in open THEN out[s]
                                   ELSE IF s \in gone THEN 0 ELSE size[s]]
        /\ items' = items - Cardinality(Freed(gone))
        /\ bytes' = bytes - BytesOf(open \cup gone, size) + BytesOf(open, out)

NoBytes == [s \in Seqs |-> 0]

\* The point a flush measures from is the tally it was answered with.
PointOf(s) == IF s = 0 THEN 0 ELSE point[s]

CutFlush ==
    LET s == taken + 1 IN
    /\ pc = "waiting"
    /\ s <= next /\ kind[s] = "flush"
    /\ taken' = s
    /\ point' = [point EXCEPT ![s] = tally]
    /\ Complete({s}, [verdict EXCEPT ![s] = IF tally = PointOf(since[s])
                                            THEN "clean" ELSE "unclean"], NoBytes)
    /\ UNCHANGED <<requests, next, admitting, stopping, alive, pc, run, links,
                   verdict, tally, stored, executor, final, drained>>

\* Mutant: barrier requests join batches.
JoinableAll(s) == kind[s] # "flush"

Joinable(s) == kind[s] \notin {"read", "flush"}

\* May the window close on the requests up to n?  A barrier request goes
\* alone; no batch goes past one, nor past a flush or a limit.
ClosesAt(n) ==
    LET batch == taken + 1..n
        room == /\ Cardinality(batch) < MaxItems
                /\ BytesOf(batch, size) < MaxBytes
    IN  IF ~ Joinable(taken + 1) THEN n = taken + 1 /\ kind[n] = "read"
        ELSE /\ \A s \in batch : Joinable(s)
             /\ Cardinality(batch) <= MaxItems
             /\ n > taken + 1 => /\ BytesOf(batch, size) <= MaxBytes
                                /\ BytesOf(taken + 1..n - 1, size) < MaxBytes
             /\ room /\ n < next =>
                    \/ ~ Joinable(n + 1)
                    \/ BytesOf(batch, size) + size[n + 1] > MaxBytes

\* Of the snapshots of a batch only the last is executed.
Superseded(batch) ==
    {s \in batch : kind[s] = "snapshot" /\ \E t \in batch : kind[t] = "snapshot" /\ s < t}

CutBatch(n) ==
    LET batch == taken + 1..n
    IN  /\ pc = "waiting"
        /\ ClosesAt(n)
        /\ taken' = n
        /\ links' = Superseded(batch)
        /\ run' = batch \ links'
        /\ pc' = "executing"
        /\ UNCHANGED <<requests, next, admitting, stopping, alive, slots,
                       verdict, tally, point, stored, executor, final, drained>>

\* Is request s accepted, after what is stored and what the run has before it?
Accepts(s) ==
    LET created == \E t \in stored \cup {e \in run : e < s} : kind[t] = "create"
    IN  /\ kind[s] = "create" => ~ created
        /\ kind[s] = "read" => created

\* What the run's transaction writes.
Written == {s \in run : kind[s] # "read" /\ Accepts(s)}

\* The execution of the run ended with the results v, and E was written.
Executed(v, E) ==
    /\ pc = "executing"
    /\ verdict' = [s \in Seqs |-> IF s \in run THEN v[s] ELSE verdict[s]]
    /\ stored' = stored \cup E
    /\ pc' = "settling"
    /\ UNCHANGED <<requests, queue, slots, run, links, tally, point, executor,
                   final, drained>>

All(result) == [s \in run |-> result]

Committed ==
    /\ executor # "files"
    /\ Executed([s \in run |-> IF Accepts(s) THEN "ok" ELSE "rejected"], Written)

\* A request failed in the store, the transaction could not begin, or it was
\* busy until retries ended: nothing was committed.
NotCommitted ==
    /\ executor # "files"
    /\ Executed(All("failed"), {})

\* Every request was executed and the commit failed.
CommitUnknown ==
    /\ executor # "files"
    /\ \A s \in run : kind[s] # "read"
    /\ \E E \in {{}, Written} : Executed(All("unknown"), E)

\* Files: each request on its own; one that panicked may have been written.
EachFinished ==
    /\ executor = "files"
    /\ \E v \in [run -> {"ok", "failed", "unknown"}] :
       \E E \in SUBSET {s \in run : v[s] = "unknown"} :
           Executed(v, E \cup {s \in run : v[s] = "ok"})

\* The executor itself panicked, before or after it wrote.
ExecutorPanics ==
    \E E \in IF executor = "files" THEN SUBSET run ELSE {{}, Written} :
        Executed(All("lost"), E)

\* Mutant: rejections do not count.
HadNoEffectFailures(v) == v \notin {"ok", "rejected"}

\* Tally::count, its two counts in one.
HadNoEffect(v) == v # "ok"

\* Request s of the run has the result v: so have those it superseded.
Finish(s, v) ==
    LET told == {s} \cup IF kind[s] = "snapshot" THEN links ELSE {} IN
    /\ verdict' = [t \in Seqs |-> IF t \in told THEN v ELSE verdict[t]]
    /\ Complete(told, verdict', IF v = "ok" THEN [NoBytes EXCEPT ![s] = OutBytes[kind[s]]]
                                           ELSE NoBytes)
    /\ tally' = IF HadNoEffect(v) THEN tally + Cardinality(told) ELSE tally
    /\ run' = run \ {s}
    /\ links' = links \ told
    /\ UNCHANGED <<requests, queue, point, stored, executor, final, drained>>

\* The body of request s panicked: it fails, the others are executed again.
Poisoned(s) ==
    /\ executor # "files" /\ pc = "executing"
    /\ Finish(s, "failed")
    /\ pc' = IF run' = {} THEN "waiting" ELSE pc

\* The next result goes to its request.
Settle(s) ==
    /\ pc = "settling"
    /\ \A t \in run : s <= t
    /\ Finish(s, verdict[s])
    /\ pc' = IF run' = {} THEN "waiting" ELSE pc

\* next_cut finds the queue empty and the writer stopping, or the wake-up
\* callback panics after a cut: the worker goes to its exit guard.
ToExit ==
    /\ pc = "waiting"
    /\ pc' = "leaving"
    /\ UNCHANGED <<requests, queue, slots, run, links, verdict, tally, point,
                   stored, executor, final, drained>>

Leave == stopping /\ Queued = {} /\ ToExit

WorkerPanics == taken # 0 /\ ToExit

\* Mutant: the flag is left as it was.
StayAlive == UNCHANGED alive

NotAlive == alive' = FALSE

ExitGuard ==
    /\ pc = "leaving"
    /\ NotAlive /\ StopAdmitting
    /\ taken' = next
    /\ run' = Queued
    /\ verdict' = [s \in Seqs |-> IF s \in Queued /\ Budgeted(s) THEN "lost" ELSE verdict[s]]
    /\ pc' = IF run' = {} THEN "ended" ELSE "dropping"
    /\ UNCHANGED <<requests, next, stopping, slots, links, tally, point, stored,
                   executor, final, drained>>

\* What the guard took out of the queue is dropped, and its tickets with it.
DropTicket(s) ==
    /\ pc = "dropping"
    /\ \A t \in run : s <= t
    /\ Complete({s}, [t \in Seqs |-> "lost"], NoBytes)
    /\ run' = run \ {s}
    /\ pc' = IF run' = {} THEN "ended" ELSE pc
    /\ UNCHANGED <<requests, queue, links, verdict, tally, point, stored, executor,
                   final, drained>>

-----------------------------------------------------------------------------

Execute ==
    \/ Committed \/ NotCommitted \/ CommitUnknown \/ EachFinished
    \/ ExecutorPanics

WorkerStep ==
    \/ CutFlush \/ \E n \in Queued : CutBatch(n)
    \/ Execute \/ \E s \in run : Poisoned(s) \/ Settle(s) \/ DropTicket(s)
    \/ Leave \/ ExitGuard

CallerStep ==
    \/ SubmitNew
    \/ \E s \in Seqs : Resubmit(s) \/ TakeResult(s) \/ Abandon(s)
    \/ \E from \in {0} \cup Seqs : Flush(from)

Next == WorkerStep \/ WorkerPanics \/ CallerStep \/ BeginShutdown \/ Join

Spec == Init /\ [][Next]_vars

-----------------------------------------------------------------------------
(* Properties.                                                             *)

\* The variables have the types their fields in the code have.
TypeOK ==
    /\ kind \in [Seqs -> Kinds \cup {"none"}]
    /\ origin \in [Seqs -> Seqs]
    /\ since \in [Seqs -> {0} \cup Seqs]
    /\ next \in 0..MaxSeq /\ taken \in 0..next
    /\ admitting \in BOOLEAN /\ stopping \in BOOLEAN /\ alive \in BOOLEAN
    /\ slot \in [Seqs -> {"none", "pending", "ready", "abandoned", "taken"}]
    /\ size \in [Seqs -> Nat]
    /\ answer \in [Seqs -> Results \cup FlushResults \cup {"none"}]
    /\ pc \in {"waiting", "executing", "settling", "leaving", "dropping", "ended"}
    /\ run \subseteq 1..taken
    /\ links \subseteq 1..taken
    /\ verdict \in [Seqs -> Results \cup {"none"}]
    /\ tally \in Nat /\ point \in [Seqs -> Nat]
    /\ stored \subseteq Seqs
    /\ executor \in Executors
    /\ final \in {0} \cup Seqs /\ drained \in FlushResults \cup {"no"}

\* The budget's two counters are what the requests admitted and not yet
\* consumed hold, whichever of completion, taking and dropping the receipt
\* came first (slot.rs); so no more than queue_items are ever admitted.
BudgetAddsUp ==
    /\ items = Cardinality(Held)
    /\ bytes = BytesOf(Held, size)
    /\ items <= QueueItems

\* The effect request s was admitted for is there: it was written, or a later
\* snapshot that replaces it was, or it was a read and was executed.
TookEffect(s) ==
    \/ s \in stored
    \/ kind[s] = "snapshot" /\ \E t \in stored : kind[t] = "snapshot" /\ s < t
    \/ kind[s] = "read" /\ verdict[s] = "ok"

\* A clean flush (FlushPoint) means that all that was admitted since the point
\* it measures from took effect: rejections, failures, panics and superseded
\* requests are all in the tally before a flush behind them is answered.
CleanFlushMeansStored ==
    \A f \in Seqs : kind[f] = "flush" /\ answer[f] = "clean" =>
        \A s \in since[f] + 1..f - 1 : Budgeted(s) => TookEffect(s)

\* When the owner joins the worker and sees a clean final flush, every request
\* ever admitted took effect: none is admitted behind the final cut.
CleanShutdownLosesNothing ==
    drained = "clean" => \A s \in Seqs : Budgeted(s) => TookEffect(s)

\* However often a blocking caller submits its body again, it is written at
\* most once: it only does so when told that nothing was committed
\* (access.rs run_blocking).
BodyWrittenOnce ==
    \A s, t \in stored : origin[s] = origin[t] => s = t

\* The requests asked for and the results their holders got: flushes are none.
Asked == [s \in Seqs |-> IF kind[s] = "flush" THEN "none" ELSE kind[s]]
Answered == [s \in Seqs |-> IF kind[s] = "flush" THEN "none" ELSE answer[s]]

Serial == INSTANCE SerialStore WITH kind <- Asked, answer <- Answered

\* The writer implements the serial store: requests take effect in the order
\* they were admitted, a strong read sees all before it, no request takes
\* effect again, and each holder is told once and what is true.
SerialSpec == Serial!Spec

\* Whoever waits for a receipt is answered: when the worker has ended, however
\* it ended and whatever was admitted meanwhile, no slot is left unfilled.
NobodyLeftWaiting ==
    pc = "ended" => \A s \in Seqs : slot[s] \notin {"pending", "abandoned"}
=============================================================================
