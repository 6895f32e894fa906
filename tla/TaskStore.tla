------------------------------ MODULE TaskStore ------------------------------
(***************************************************************************)
(* The task DAG (crates/tasty-agent/src/task.rs, task/graph.rs,            *)
(* task/store.rs and its submodules): tasks with dependencies, reduce      *)
(* inputs and a failure policy.  Tasks without a v2 contract only.         *)
(*                                                                         *)
(* An operation is one memory-writer unit and one action; it takes the     *)
(* whole consequence of a state change with it: fallbacks woken, created   *)
(* or skipped, and the readiness of everything downstream.  The operators  *)
(* from Dormant on work on a book b, which is the stored tasks of one      *)
(* workspace in the middle of an operation.                                *)
(*                                                                         *)
(* An inline fallback is created as its spec says: with dependencies of    *)
(* its own or its main's, with inputs if it is a Reduce, and aborting or   *)
(* continuing when a dependency fails.  One that in turn has a fallback is *)
(* left out: the source leaves such nesting to the user's care.            *)
(***************************************************************************)
EXTENDS Integers, FiniteSets, Sequences, SequencesExt

CONSTANTS Task,         \* every id that may be given out, each at most once
          Definitions,  \* Definitions[i]: the definitions i may be created with
          InlineIds,    \* ids kept for the tasks an inline fallback creates
          TooLarge,     \* old tasks over the record limit
          Reservations, \* may create_reserved_for_fallback be called?
          ForceDeletes  \* may delete be called with force?

Policy == {"Abort", "Continue", "Fallback", "Inline"}
Nobody == "Nobody"

\* deps: depends_on.  inputs: what a Reduce command combines.  target: the
\* task a Fallback policy names.  of: for a task an inline fallback created,
\* its main.  inline: what an Inline policy creates its fallback from; own says
\* whether its deps stand in for those of the main (depends_on_override).
InlineFallbackSpec == [own : BOOLEAN, deps : SUBSET Task, inputs : SUBSET Task,
                       policy : {"Abort", "Continue"}]
Definition == [deps : SUBSET Task, inputs : SUBSET Task, policy : Policy,
               target : Task \cup {Nobody}, of : Task \cup {Nobody},
               inline : InlineFallbackSpec]

\* on_failure: abort, everything else as the main has it.
DefaultSpec == [own |-> FALSE, deps |-> {}, inputs |-> {}, policy |-> "Abort"]

States == {"Waiting", "Ready", "Running", "Succeeded", "Failed", "Cancelled",
           "Skipped", "Unknown"}
Terminal == {"Succeeded", "Failed", "Cancelled", "Skipped"}

ASSUME TaskAssumption ==
    /\ Nobody \notin Task
    /\ InlineIds \subseteq Task
    /\ DOMAIN Definitions \subseteq Task \ InlineIds
    /\ \A i \in DOMAIN Definitions : Definitions[i] \subseteq Definition
    /\ \A i \in DOMAIN Definitions : \A d \in Definitions[i] :
         d.policy = "Fallback" <=> d.target # Nobody
    /\ Reservations \in BOOLEAN
    /\ ForceDeletes \in BOOLEAN

VARIABLES def,       \* the definition of every stored task
          state,     \* its state
          reserved,  \* the tasks with reserved_for_fallback set
          used       \* ids given out so far

vars == <<def, state, reserved, used>>

Book == [def |-> def, state |-> state, reserved |-> reserved, used |-> used]

Write(b) == def' = b.def /\ state' = b.state /\ reserved' = b.reserved /\ used' = b.used

-----------------------------------------------------------------------------
\* What is valid for set_state.
ValidTransition ==
    {<<"Waiting", "Ready">>, <<"Waiting", "Skipped">>, <<"Waiting", "Cancelled">>,
     <<"Ready", "Running">>, <<"Ready", "Cancelled">>,
     <<"Running", "Succeeded">>, <<"Running", "Failed">>, <<"Running", "Cancelled">>,
     <<"Running", "Unknown">>, <<"Unknown", "Ready">>, <<"Unknown", "Cancelled">>,
     <<"Unknown", "Waiting">>}

Ids(b) == DOMAIN b.def
MainsOf(b, i) == {m \in Ids(b) : b.def[m].policy = "Fallback" /\ b.def[m].target = i}
InlineOf(b, m) == {n \in Ids(b) : b.def[n].of = m}

\* Mutant: does not look at the mains.
DormantReserved(b, i) == i \in b.reserved

\* A fallback sleeps while it is reserved or any of its mains has not failed.
Dormant(b, i) == i \in b.reserved \/ \E m \in MainsOf(b, i) : b.state[m] # "Failed"

\* The states of a main's fallback, none if it has not been created.
FallbackStates(b, m) ==
    IF b.def[m].policy = "Fallback"
      THEN {b.state[n] : n \in {b.def[m].target} \cap Ids(b)}
      ELSE {b.state[n] : n \in InlineOf(b, m)}

\* The outcome of a dependency for those who wait for it: the outcome of its
\* fallback, if it has one.
Outcomes(b, d) ==
    IF b.state[d] \in Terminal \ {"Succeeded"} /\ b.def[d].policy \in {"Fallback", "Inline"}
      THEN FallbackStates(b, d) \cap Terminal
      ELSE {b.state[d]} \cap Terminal

Decided(b, d) == d \in Ids(b) /\ Outcomes(b, d) # {}

Undecided(b, i) ==
    \/ Dormant(b, i)
    \/ \E d \in b.def[i].deps : ~Decided(b, d)
    \/ \E n \in b.def[i].inputs : n \notin Ids(b) \/ b.state[n] \notin Terminal

\* readiness: a decided task can run, or some dependency failed it.
Unavailable(b, i) == \E d \in b.def[i].deps : Outcomes(b, d) # {"Succeeded"}

\* evaluate_readiness, which ignores the task's own policy.
Evaluated(b, i) ==
    IF Undecided(b, i) THEN "Waiting" ELSE IF Unavailable(b, i) THEN "Skipped" ELSE "Ready"

\* settle_target, which applies it.
Target(b, i) ==
    IF Undecided(b, i) THEN "Waiting"
    ELSE IF ~Unavailable(b, i) THEN "Ready"
    ELSE [Abort |-> "Skipped", Continue |-> "Ready",
          Fallback |-> "Waiting", Inline |-> "Waiting"][b.def[i].policy]

\* One look at every task of the scope.
Round(b, scope) ==
    [b EXCEPT !.state = [i \in Ids(b) |-> IF i \in scope /\ b.state[i] = "Waiting"
                                           THEN Target(b, i) ELSE b.state[i]]]

\* settle_waiting: until nothing changes any more.  A round that changes something
\* leaves one task fewer to wait, so there are at most as many as there are tasks.
Settle(b, scope) ==
    LET after[n \in 0..Cardinality(scope)] ==
            IF n = 0 THEN b ELSE Round(after[n - 1], scope)
    IN after[Cardinality(scope)]

\* All that is reached from i in one or more steps.
Reached(i, next) ==
    {j \in DOMAIN next : \A S \in SUBSET DOMAIN next :
        (\A k \in S \cup {i} : next[k] \subseteq S) => j \in S}

\* downstream_of, without the fallback edges.
Users(b, i) == {j \in Ids(b) : i \in b.def[j].deps \cup b.def[j].inputs}

Downstream(b, i) == Reached(i, [k \in Ids(b) |-> Users(b, k)])

Cascade(b, i) == Settle(b, Downstream(b, i))

\* No stored task depends on a missing one, or detect_cycles fails.
NoneDangling(b) == \A j \in Ids(b) : b.def[j].deps \subseteq Ids(b)

\* referenced_task_ids: what may not be deleted under a task.
References(d) == d.deps \cup d.inputs \cup ({d.target} \ {Nobody})

\* What create asks of a definition.
Accepts(b, d) == References(d) \subseteq Ids(b) /\ NoneDangling(b)

Born(b, i, d) ==
    LET b1 == [def |-> [j \in Ids(b) \cup {i} |-> IF j = i THEN d ELSE b.def[j]],
               state |-> [j \in Ids(b) \cup {i} |-> IF j = i THEN "Waiting" ELSE b.state[j]],
               reserved |-> b.reserved, used |-> b.used \cup {i}]
    IN [b1 EXCEPT !.state[i] = Evaluated(b1, i)]

\* advance_existing_fallback: evaluated, not settled, and no cascade follows.
Advance(b, f) ==
    IF /\ f \in Ids(b)
       /\ Evaluated(b, f) # "Waiting"
       /\ <<b.state[f], Evaluated(b, f)>> \in ValidTransition
      THEN [b EXCEPT !.state[f] = Evaluated(b, f)]
      ELSE b

\* What the inline fallback of i is created with, if i is defined as d.
InlineFor(d, i) ==
    [deps |-> IF d.inline.own THEN d.inline.deps ELSE d.deps,
     inputs |-> d.inline.inputs, policy |-> d.inline.policy,
     target |-> Nobody, of |-> i, inline |-> DefaultSpec]

InlineDef(b, i) == InlineFor(b.def[i], i)

\* Mutant: a new fallback for every failure.
NeedsInlineAgain(b, i) == b.def[i].policy = "Inline"

NeedsInline(b, i) == b.def[i].policy = "Inline" /\ InlineOf(b, i) = {}

\* materialize_inline_fallback, once in the life of the fallback.
Materialize(b, i) ==
    IF NeedsInline(b, i) THEN Born(b, CHOOSE n \in InlineIds \ b.used : TRUE, InlineDef(b, i))
    ELSE b

Rescue(b, i) ==
    IF b.def[i].policy = "Fallback" THEN Advance(b, b.def[i].target) ELSE Materialize(b, i)

\* The creation fails and ends the operation after what was stored so far.
CannotRescue(b, i) == NeedsInline(b, i) /\ ~Accepts(b, InlineDef(b, i))

\* Mutant: does not look up the main of an inline fallback.
RescuedNamed(b, i) == MainsOf(b, i)

\* The mains whose waiters go by the outcome of i.
Rescued(b, i) == MainsOf(b, i) \cup ({b.def[i].of} \cap Ids(b))

\* Everything downstream of each of the tasks in turn.
CascadeAll(b, tasks) ==
    LET after[n \in 0..Len(tasks)] ==
            IF n = 0 THEN b ELSE Cascade(after[n - 1], tasks[n])
    IN after[Len(tasks)]

\* What a task's new state s decides: everything downstream and, if it is the
\* end, what waits for the mains it rescues.
Propagate(b, i, s) ==
    CascadeAll(b, <<i>> \o SetToSeq(IF s \in Terminal THEN Rescued(b, i) ELSE {}))

\* A main that ends without failing ends its sleeping fallback too, which in turn
\* may be a main: the line of those that go, the last fallback first, i last.
WithFallback(b, line) ==
    LET f == b.def[Head(line)].target IN
    IF f \in Ids(b) /\ f \notin Range(line) /\ b.state[f] = "Waiting" THEN <<f>> \o line ELSE line

Unneeded(b, i) ==
    LET line[n \in 0..Cardinality(Ids(b))] ==
            IF n = 0 THEN <<i>> ELSE WithFallback(b, line[n - 1])
    IN line[Cardinality(Ids(b))]

SkipAll(b, tasks) ==
    [b EXCEPT !.state = [i \in Ids(b) |-> IF i \in tasks THEN "Skipped" ELSE @[i]]]

\* Fallbacks that are skipped are looked after before the main they belong to.
PropagateAll(b, line) ==
    LET after[n \in 0..Len(line)] ==
            IF n = 0 THEN b ELSE Propagate(after[n - 1], line[n], "Skipped")
    IN after[Len(line)]

\* set_state once the transition is found valid: the task's own state, its
\* fallback, everything downstream, then what waits for the mains it rescues.
SetState(b, i, s) ==
    LET b1 == [b EXCEPT !.state[i] = s]
        line == Unneeded(b1, i)
    IN CASE s = "Failed" -> IF CannotRescue(b1, i) THEN b1 ELSE Propagate(Rescue(b1, i), i, s)
         [] s \in Terminal \ {"Failed"} -> PropagateAll(SkipAll(b1, Range(line) \ {i}), line)
         [] s \notin Terminal -> Propagate(b1, i, s)

\* The supply of ids for inline fallbacks is a bound of the model.
HasInlineId(i) == NeedsInline(Book, i) => ~(InlineIds \subseteq used)

CanSet(i, s) ==
    /\ i \in DOMAIN def
    /\ <<state[i], s>> \in ValidTransition
    /\ s = "Failed" => HasInlineId(i)

Referencers(b, i) == {j \in Ids(b) : i \in References(b.def[j])}

WithReferencers(b, i) == {i} \cup Reached(i, [k \in Ids(b) |-> Referencers(b, k)])

\* Mutant: a deleted id stays reserved.
WithoutTask(b, gone) ==
    LET kept == Ids(b) \ gone IN
    [def |-> [i \in kept |-> b.def[i]], state |-> [i \in kept |-> b.state[i]],
     reserved |-> b.reserved, used |-> b.used]

Without(b, gone) ==
    LET kept == Ids(b) \ gone IN
    [def |-> [i \in kept |-> b.def[i]], state |-> [i \in kept |-> b.state[i]],
     reserved |-> b.reserved \ gone, used |-> b.used]

-----------------------------------------------------------------------------
Init ==
    /\ def = <<>>
    /\ state = <<>>
    /\ reserved = {}
    /\ used = {}

Creatable(i, d) ==
    /\ i \notin used
    /\ Accepts(Book, d)

\* The new main takes over the reservation of its fallback and puts one that
\* is Ready back to sleep.
Adopt(b, f) ==
    IF f \notin Ids(b) THEN b
    ELSE [b EXCEPT !.state[f] = IF @ = "Ready" THEN "Waiting" ELSE @, !.reserved = @ \ {f}]

Create(i, d) ==
    /\ Creatable(i, d)
    /\ Write(Adopt(Born(Book, i, d), d.target))

CreateReserved(i, d) ==
    /\ Creatable(i, d)
    /\ LET b == Adopt(Born(Book, i, d), d.target) IN
       Write([b EXCEPT !.state[i] = "Waiting", !.reserved = @ \cup {i}])

\* A task too large to record its run is failed instead of started.
Start(i) ==
    /\ CanSet(i, "Running")
    /\ IF i \in TooLarge
         THEN HasInlineId(i) /\ Write(SetState(Book, i, "Failed"))
         ELSE Write(SetState(Book, i, "Running"))

Finish(i, s) == CanSet(i, s) /\ Write(SetState(Book, i, s))

Cancel(i) == CanSet(i, "Cancelled") /\ Write(SetState(Book, i, "Cancelled"))

\* Mutant: rewinds what succeeded as well.
RewindAll(b, i) ==
    LET reset == {j \in Downstream(b, i) : b.state[j] \in Terminal} IN
    Cascade([b EXCEPT !.state = [j \in Ids(b) |-> IF j \in reset THEN "Waiting" ELSE @[j]]], i)

\* reset_downstream: what ended without success waits again.
Rewind(b, i) ==
    LET reset == {j \in Downstream(b, i) : b.state[j] \in Terminal \ {"Succeeded"}} IN
    Cascade([b EXCEPT !.state = [j \in Ids(b) |-> IF j \in reset THEN "Waiting" ELSE @[j]]], i)

\* Mutant: whatever has ended may be run again.
RetryAny(i, reset) ==
    /\ i \in DOMAIN def
    /\ state[i] \in Terminal \cup {"Unknown"}
    /\ LET b1 == [Book EXCEPT !.state[i] = "Waiting"]
           b2 == [b1 EXCEPT !.state[i] = Target(b1, i)]
       IN Write(IF reset THEN Rewind(b2, i) ELSE b2)

\* The task waits again, or is settled at once.  Nothing follows from that
\* unless the downstream is reset.
Retry(i, reset) ==
    /\ i \in DOMAIN def
    /\ state[i] \in {"Failed", "Cancelled", "Skipped", "Unknown"}
    /\ LET b1 == [Book EXCEPT !.state[i] = "Waiting"]
           b2 == [b1 EXCEPT !.state[i] = Target(b1, i)]
       IN Write(IF reset THEN Rewind(b2, i) ELSE b2)

\* delete_checked, plain: nothing may refer to the task.
Delete(i) ==
    /\ i \in DOMAIN def
    /\ state[i] # "Running"
    /\ Referencers(Book, i) = {} \/ ForceDeletes
    /\ Write(Without(Book, {i}))

\* cascade: with all that refers to it, unless one of them is Running.
DeleteCascade(i) ==
    LET gone == WithReferencers(Book, i) IN
    /\ i \in DOMAIN def
    /\ \A j \in gone : state[j] # "Running"
    /\ Write(Without(Book, gone))

\* Mutant: one round of the exclusion only.
EligibleOnce(candidates) == {i \in candidates : Referencers(Book, i) \subseteq candidates}

\* plan_sweep's fixpoint: the candidates all of whose referencers go as well.
Eligible(candidates) ==
    UNION {S \in SUBSET candidates : \A i \in S : Referencers(Book, i) \subseteq S}

\* purge and GC: what the filters of state and age and the set of tasks to keep
\* leave of the tasks that are not Running.
Sweep(candidates) ==
    /\ Eligible(candidates) # {}
    /\ Write(Without(Book, Eligible(candidates)))

Next ==
    \/ \E i \in DOMAIN Definitions : \E d \in Definitions[i] : Create(i, d)
    \/ Reservations /\ \E i \in DOMAIN Definitions : \E d \in Definitions[i] : CreateReserved(i, d)
    \/ \E i \in Task : Start(i)
    \/ \E i \in Task : \E s \in {"Succeeded", "Failed", "Unknown"} : Finish(i, s)
    \/ \E i \in Task : Cancel(i)
    \/ \E i \in Task, reset \in BOOLEAN : Retry(i, reset)
    \/ \E i \in Task : Delete(i) \/ DeleteCascade(i)
    \/ \E candidates \in SUBSET {i \in DOMAIN def : state[i] # "Running"} : Sweep(candidates)

Spec == Init /\ [][Next]_vars

-----------------------------------------------------------------------------
\* The type invariant.
TypeOK ==
    /\ DOMAIN def \subseteq used
    /\ used \subseteq Task
    /\ def \in [DOMAIN def -> Definition]
    /\ state \in [DOMAIN def -> States]
    /\ reserved \subseteq {i \in DOMAIN def : state[i] = "Waiting" \/ state[i] = "Cancelled"}

\* The tasks that wait for a decision that is already due.
LeftBehind(b) == {i \in Ids(b) : b.state[i] = "Waiting" /\ Target(b, i) # "Waiting"}

\* Between operations no task waits for a decision that is already due: every
\* operation carries its consequences to all the tasks they reach.
NoTaskLeftBehind == LeftBehind(Book) = {}

\* Without force every reference of a stored task leads to a stored task, in
\* whatever order tasks are created, deleted, cascaded or swept.
NoDanglingReference ==
    \A i \in DOMAIN def :
        def[i].deps \cup def[i].inputs \cup ({def[i].target} \ {Nobody}) \subseteq DOMAIN def

\* Work is not undone by what happens around it: whatever is retried, reset,
\* cascaded, deleted or swept, a success stands as long as the task is there, and
\* of the running tasks none is deleted and only one leaves Running, by its own end.
WorkIsKept ==
    [][\A i, j \in DOMAIN def :
         /\ state[i] = "Running" => i \in DOMAIN def'
         /\ state[i] = "Succeeded" /\ i \in DOMAIN def' => state'[i] = "Succeeded"
         /\ state[i] = "Running" /\ state[j] = "Running" /\ state'[i] # "Running" /\ state'[j] # "Running"
              => i = j]_vars

\* What made a task Ready still holds when it starts, however long it waited
\* for the runner and whatever was retried, cancelled, reset or deleted meanwhile:
\* every dependency stands succeeded (those with a fallback aside, which may be
\* retried once the fallback took over).
StartsOnResults ==
    [][\A i \in DOMAIN def \cap DOMAIN def' :
         state[i] = "Ready" /\ state'[i] = "Running" /\ def[i].policy = "Abort"
           => \A d \in def[i].deps :
                d \in DOMAIN def /\ (def[d].policy \in {"Abort", "Continue"} => state[d] = "Succeeded")]_vars

\* A fallback is woken only by failure: it becomes Ready in a step only if it is
\* not reserved and all of its mains have failed.
FallbackWakesOnlyOnFailure ==
    [][\A f \in DOMAIN def' :
         (f \notin DOMAIN def \/ state[f] # "Ready") /\ state'[f] = "Ready"
           => f \notin reserved' /\ \A m \in MainsOf(Book', f) : state'[m] = "Failed"]_vars

\* An inline fallback is created once, however often its main is retried.
OneInlineFallback == \A m \in DOMAIN def : Cardinality(InlineOf(Book, m)) <= 1
=============================================================================
