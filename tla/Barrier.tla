------------------------------- MODULE Barrier -------------------------------
(***************************************************************************)
(* The barrier of crates/tasty-agent/src/barrier.rs: a named gate that     *)
(* closes at the count_required'th signal or times out, whichever a call   *)
(* finds first.  Nothing runs on its own: the timeout takes effect in the  *)
(* next call that looks at the record.                                     *)
(*                                                                         *)
(* Each call is one memory-writer unit with a now_ms of its own, read from *)
(* the system clock, which may be set back by up to MaxLag between calls.  *)
(* The unit commits what it stored also when it answers an error.  `bar'   *)
(* is stored; `accepted' counts the signals answered Ok and `verdict' is   *)
(* the terminal state callers first heard of, in this life of the name.    *)
(***************************************************************************)
EXTENDS Clock

CONSTANTS Required,   \* the count_required values create is called with
          Timeout,    \* the timeout_ms values
          NoTimeout   \* timeout_ms = None

ASSUME BarrierAssumption ==
    /\ Required \subseteq Nat \ {0}
    /\ Timeout \subseteq Nat
    /\ NoTimeout \notin Nat

VARIABLES bar, accepted, verdict

gateVars == <<bar, accepted, verdict, now>>

States == {"Open", "Closed", "TimedOut"}
Terminal == {"Closed", "TimedOut"}
Nothing == "Nothing"

NoBarrier == [state |-> Nothing, required |-> 0, count |-> 0,
              timeout |-> NoTimeout, created |-> 0, finished |-> 0]

Exists == bar.state # Nothing

IsExpired(t) == bar.timeout # NoTimeout /\ t >= bar.created + bar.timeout

\* Mutant: a timeout overrules a barrier that closed.
RunsOutAnyway(t) == Exists /\ IsExpired(t)

\* maybe_timeout changes the record.
RunsOut(t) == bar.state = "Open" /\ IsExpired(t)

\* Callers are told state s; the first terminal one is remembered.
Tell(s) == verdict' = IF verdict = Nothing /\ s \in Terminal THEN s ELSE verdict

TimedOutAt(t) == [bar EXCEPT !.state = "TimedOut", !.finished = t]

-----------------------------------------------------------------------------
GateInit ==
    /\ bar = NoBarrier
    /\ accepted = 0
    /\ verdict = Nothing
    /\ now = 0

Create(n, timeout, t) ==
    /\ ~Exists
    /\ bar' = [state |-> "Open", required |-> n, count |-> 0,
               timeout |-> timeout, created |-> t, finished |-> 0]
    /\ accepted' = 0
    /\ verdict' = Nothing
    /\ UNCHANGED now

\* The deadline has passed: the barrier times out and the signal is refused.
SignalTooLate(t) ==
    /\ RunsOut(t)
    /\ bar' = TimedOutAt(t)
    /\ Tell("TimedOut")
    /\ UNCHANGED <<accepted, now>>

SignalAfterEnd(t) ==
    /\ bar.state \in Terminal
    /\ Tell(bar.state)
    /\ UNCHANGED <<bar, accepted, now>>

\* Mutant: closes one signal late.
SignalCountsLate(t) ==
    /\ bar.state = "Open"
    /\ ~RunsOut(t)
    /\ accepted' = accepted + 1
    /\ IF bar.count >= bar.required
         THEN bar' = [bar EXCEPT !.count = @ + 1, !.state = "Closed", !.finished = t]
         ELSE bar' = [bar EXCEPT !.count = @ + 1]
    /\ Tell(bar'.state)
    /\ UNCHANGED now

SignalCounts(t) ==
    /\ bar.state = "Open"
    /\ ~RunsOut(t)
    /\ accepted' = accepted + 1
    /\ IF bar.count + 1 >= bar.required
         THEN bar' = [bar EXCEPT !.count = @ + 1, !.state = "Closed", !.finished = t]
         ELSE bar' = [bar EXCEPT !.count = @ + 1]
    /\ Tell(bar'.state)
    /\ UNCHANGED now

\* state and list settle the timeout, store it and answer with the result.
Look(t) ==
    /\ Exists
    /\ bar' = IF RunsOut(t) THEN TimedOutAt(t) ELSE bar
    /\ Tell(bar'.state)
    /\ UNCHANGED <<accepted, now>>

Delete ==
    /\ Exists
    /\ bar' = NoBarrier
    /\ accepted' = 0
    /\ verdict' = Nothing
    /\ UNCHANGED now

GateTick ==
    /\ Advance
    /\ UNCHANGED <<bar, accepted, verdict>>

GateNext ==
    \/ \E n \in Required, timeout \in Timeout \cup {NoTimeout}, t \in Stamp :
         Create(n, timeout, t)
    \/ \E t \in Stamp : SignalTooLate(t) \/ SignalAfterEnd(t) \/ SignalCounts(t)
    \/ \E t \in Stamp : Look(t)
    \/ Delete
    \/ GateTick

GateSpec == GateInit /\ [][GateNext]_gateVars

-----------------------------------------------------------------------------
\* The type invariant.
GateTypeOK ==
    /\ bar \in [state : States \cup {Nothing}, required : Nat, count : Nat,
                timeout : Nat \cup {NoTimeout}, created : Nat, finished : Nat]
    /\ accepted \in Nat
    /\ verdict \in Terminal \cup {Nothing}
    /\ now \in Nat

\* A verdict stands: once any caller was told Closed or TimedOut, every later
\* look at this barrier says the same, whatever stamps the calls carry.
VerdictStands == verdict # Nothing => bar.state = verdict

\* The gate opens for exactly the required number of accepted signals: it is
\* Closed if and only if that many were answered Ok, so a signal is never
\* accepted after the end nor counted twice.
ClosedByExactlyRequired ==
    Exists => /\ accepted <= bar.required
              /\ bar.state = "Closed" <=> accepted = bar.required

\* The timeout decides by the callers' clocks: the closing signal was stamped
\* before the deadline, and no barrier times out before it.
EndRespectsDeadline ==
    bar.timeout # NoTimeout =>
        /\ bar.state = "Closed" => bar.finished < bar.created + bar.timeout
        /\ bar.state = "TimedOut" => bar.finished >= bar.created + bar.timeout
=============================================================================
