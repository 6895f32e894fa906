----------------------------- MODULE SerialStore -----------------------------
(***************************************************************************)
(* What tasty_utils::batch_writer promises the holders of its receipts, as *)
(* the comments of batch_writer.rs and of tasty-memory's writer.rs state   *)
(* it, without queue, batches, retries, budget or worker: the requests     *)
(* admitted take effect as if one after the other in the order they were   *)
(* admitted, a strong read sees all that was admitted before it, and each  *)
(* holder is told at most once what was decided for its request.           *)
(***************************************************************************)
EXTENDS Naturals

CONSTANT Seqs     \* the sequence numbers

VARIABLES
    kind,      \* what was asked under each number, "none" if nothing yet
    stored,    \* the requests that took effect
    verdict,   \* what was decided for each request, "none" if nothing yet
    answer     \* what the request's holder was told, "none" if nothing yet

vars == <<kind, stored, verdict, answer>>

\* A put is always acceptable, a create only while nothing was created and a
\* read, the barrier request, only once something was: they stand for every
\* request judged against the store.  A snapshot replaces those before it.
Kinds == {"put", "create", "snapshot", "read"}
Verdicts == {"ok", "rejected", "failed", "unknown", "lost"}

\* Is request s acceptable after what is stored and the requests of E before it?
Acceptable(s, E) ==
    LET created == \E t \in stored \cup {e \in E : e < s} : kind[t] = "create"
    IN  /\ kind[s] = "create" => ~ created
        /\ kind[s] = "read" => created

\* Has request s taken effect once those of E have: itself, or replaced?
Effective(s, E) ==
    \/ s \in E
    \/ kind[s] = "read" /\ Acceptable(s, E)
    \/ kind[s] = "snapshot" /\ \E t \in stored \cup E : kind[t] = "snapshot" /\ s < t

\* What a holder may be told when the requests of E take effect: "ok" and
\* "rejected" can be relied on, after "failed" the request had no effect,
\* "unknown" and "lost" promise nothing.
Justified(v, s, E) ==
    /\ v = "ok" => Effective(s, E)
    /\ v = "rejected" => ~ Acceptable(s, E)
    /\ v \in {"rejected", "failed"} => s \notin E

Init ==
    /\ kind = [s \in Seqs |-> "none"]
    /\ stored = {}
    /\ verdict = [s \in Seqs |-> "none"]
    /\ answer = [s \in Seqs |-> "none"]

Ask(s, k) ==
    /\ \A t \in Seqs : t >= s => kind[t] = "none"
    /\ kind' = [kind EXCEPT ![s] = k]
    /\ UNCHANGED <<stored, verdict, answer>>

\* Some holders are told, each what is decided for its request.
Told ==
    /\ answer' \in [Seqs -> Verdicts \cup {"none"}]
    /\ \A s \in Seqs : answer'[s] # answer[s] =>
           answer[s] = "none" /\ answer'[s] = verdict'[s]

\* Requests D are decided, if any, and those of E take effect, after everything
\* that took effect before; some holders are told.  A read is answered only
\* once all before it is decided.
Decide ==
    LET D == {s \in Seqs : verdict'[s] # verdict[s]}
        E == stored' \ stored
    IN  /\ kind' = kind
        /\ verdict' \in [Seqs -> Verdicts \cup {"none"}]
        /\ stored \subseteq stored' /\ E \subseteq D
        /\ \A s \in D : /\ kind[s] # "none" /\ verdict[s] = "none"
                        /\ Justified(verdict'[s], s, E)
        /\ \A s \in E : /\ kind[s] # "read" /\ Acceptable(s, E)
                        /\ \A t \in stored : t < s
        /\ \A s \in D, t \in Seqs :
               /\ kind[s] = "read" /\ verdict'[s] \in {"ok", "rejected"}
               /\ t < s /\ kind[t] # "none"
               => verdict[t] # "none"
        /\ Told

Next == Decide \/ \E s \in Seqs, k \in Kinds : Ask(s, k)

Spec == Init /\ [][Next]_vars
=============================================================================
