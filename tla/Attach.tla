------------------------------- MODULE Attach -------------------------------
(***************************************************************************)
(* Remote attach, the server's side: who occupies what                     *)
(* (src/core/attach.rs), the attaches that wait for terminals to be        *)
(* activated (src/app/attach_activation.rs), and the main loop that        *)
(* applies what came in on the stream connections                          *)
(* (src/app/event_handler.rs, src/boot/headless_stream.rs).                *)
(*                                                                         *)
(* A connection has a thread and an id of its own, which is never used     *)
(* again; a client that reconnects is a new connection.  It asks for one   *)
(* surface or one workspace, in its handshake, and so is granted one       *)
(* attach at most: the sequence number of a grant is its holder here.      *)
(* Everything else runs in the main loop, one step at a time; what the     *)
(* threads can do between two steps is to unregister and to add messages.  *)
(*                                                                         *)
(* Left out: soft occupancy, which blocks nobody; several engines; bulk    *)
(* connections; structural changes other than a closed surface; a halted   *)
(* journal; the limit on waiting attaches, and full queues (StreamHub).    *)
(* The requests, and the input, of one batch are applied in any order,     *)
(* although the code takes them as they came.                              *)
(***************************************************************************)
EXTENDS Integers, FiniteSets

CONSTANTS MaxConn,       \* connections, numbered as they are opened
          Terminal,      \* surfaces with a terminal
          Mesh,          \* surfaces that are drawn by a plugin
          Workspace,
          Members,       \* Members[w]: the surfaces of w
          Wanted,        \* what clients ask for
          MaxClosed      \* bound on the surfaces that are closed

Conn == 1..MaxConn
Surface == Terminal \cup Mesh
Target == Surface \cup Workspace
Nobody == 0

ASSUME AttachAssumption ==
    /\ MaxConn \in Nat
    /\ Terminal \cap Mesh = {}
    /\ Surface \cap Workspace = {}
    /\ Members \in [Workspace -> SUBSET Surface]
    /\ \A v, w \in Workspace : v # w => Members[v] \cap Members[w] = {}
    /\ Wanted \subseteq Target
    /\ MaxClosed \in Nat

VARIABLES conn,     \* what became of a connection: its thread, as the hub and the loop see it
          target,   \* target[c]: what its handshake asks for
          told,     \* told[c]: the last answer pushed to it, and the holder it names
          inbound,  \* what threads sent and the loop has not taken
          batch,    \* what it has taken and not applied
          surface_locks, workspace_locks,  \* holder and readiness
          dead_clients,
          pending,  \* pending[c]: the attach of c that waits for its terminals
          open,     \* surfaces that are not closed
          before,   \* history: before[c]: connections that ended before c asked
          taken_back  \* history: clients the user took something back from

occupancy == <<surface_locks, workspace_locks, dead_clients>>
history == <<before, taken_back>>
vars == <<conn, target, told, inbound, batch, occupancy, pending, open, history>>

Ask(c) == [kind |-> "ask", client |-> c]
Input(c) == [kind |-> "input", client |-> c]
Disconnected(c) == [kind |-> "disconnected", client |-> c]
Message == [kind : {"ask", "input", "disconnected"}, client : Conn]

Lock == [holder : Conn, ready : BOOLEAN]
Answer == [event : {"none", "attached", "already_attached", "refused", "force_detached"},
           holder : Conn \cup {Nobody}]
Nothing == [event |-> "none", holder |-> Nobody]

NoEntry == [x \in {} |-> Nothing]
With(f, x, v) == [y \in DOMAIN f \cup {x} |-> IF y = x THEN v ELSE f[y]]
WithoutAll(f, X) == [y \in DOMAIN f \ X |-> f[y]]

-----------------------------------------------------------------------------
\* The members of w that are there, and those of them with a terminal.
MembersOf(w) == Members[w] \cap open
TerminalsOf(w) == MembersOf(w) \cap Terminal

\* The terminals an attach of x waits for.
Leaves(x) == IF x \in Workspace THEN TerminalsOf(x) ELSE {x}

HeldWorkspaces(C) == {w \in DOMAIN workspace_locks : workspace_locks[w].holder \in C}

\* Mutant: forgets the surfaces that are not of a workspace.
GoesWithWorkspaces(C) ==
    {s \in DOMAIN surface_locks : \E w \in HeldWorkspaces(C) : s \in Members[w]}

\* Every surface lock that goes with the locks of C: those of C, and those of the
\* members of its workspaces, whoever has them.
GoesWith(C) ==
    {s \in DOMAIN surface_locks :
        \/ surface_locks[s].holder \in C
        \/ \E w \in HeldWorkspaces(C) : s \in Members[w]}

\* release_all_for_client, for all of C.
ReleaseAllFor(C) ==
    /\ surface_locks' = WithoutAll(surface_locks, GoesWith(C))
    /\ workspace_locks' = WithoutAll(workspace_locks, HeldWorkspaces(C))
    /\ dead_clients' = dead_clients \ C

\* A push reaches a connection that is registered.
Tell(c, event, holder) ==
    told' = IF conn[c] = "open" THEN [told EXCEPT ![c] = [event |-> event, holder |-> holder]]
                                ELSE told

Init ==
    /\ conn = [c \in Conn |-> "new"]
    /\ target = NoEntry
    /\ told = [c \in Conn |-> Nothing]
    /\ inbound = {}
    /\ batch = {}
    /\ surface_locks = NoEntry
    /\ workspace_locks = NoEntry
    /\ dead_clients = {}
    /\ pending = NoEntry
    /\ open = Surface
    /\ before = [c \in Conn |-> {}]
    /\ taken_back = {}

-----------------------------------------------------------------------------
(* A connection's thread.                                                  *)

\* The connection registers with the hub and asks.
Open(c, x) ==
    /\ conn[c] = "new"
    /\ \A d \in Conn : d < c => conn[d] # "new"
    /\ conn' = [conn EXCEPT ![c] = "open"]
    /\ target' = With(target, c, x)
    /\ inbound' = inbound \cup {Ask(c)}
    /\ before' = [before EXCEPT ![c] = {d \in Conn : conn[d] = "closed"}]
    /\ UNCHANGED <<told, batch, occupancy, pending, open, taken_back>>

\* The client types, whatever it was told; all it types until that is applied is
\* one message here.
Send(c) ==
    /\ conn[c] = "open"
    /\ Input(c) \notin inbound \cup batch
    /\ inbound' = inbound \cup {Input(c)}
    /\ UNCHANGED <<conn, target, told, batch, occupancy, pending, open, history>>

\* Its read loop ends: the peer hung up, detached, or was not heard of.
End(c) ==
    /\ conn[c] = "open"
    /\ conn' = [conn EXCEPT ![c] = "unregistered"]
    /\ UNCHANGED <<target, told, inbound, batch, occupancy, pending, open, history>>

\* The writer has ended as well.
HangUp(c) ==
    /\ conn[c] = "unregistered"
    /\ conn' = [conn EXCEPT ![c] = "closed"]
    /\ inbound' = inbound \cup {Disconnected(c)}
    /\ UNCHANGED <<target, told, batch, occupancy, pending, open, history>>

-----------------------------------------------------------------------------
(* The main loop applies a batch: requests, surfaces before workspaces,    *)
(* then input, and last the ends of connections.                           *)

ClientsOf(messages, kind) == {m.client : m \in {n \in messages : n.kind = kind}}

Take(M) ==
    /\ batch = {}
    /\ M # {}
    /\ batch' = M
    /\ inbound' = inbound \ M

\* Mutant: the connections that ended are not marked.
PumpUnmarked ==
    /\ Take(inbound)
    /\ UNCHANGED <<conn, target, told, occupancy, pending, open, history>>

\* Mutant: gives the locks back with the mark.
PumpReleases ==
    LET gone == ClientsOf(inbound, "disconnected") IN
    /\ Take(inbound)
    /\ surface_locks' = WithoutAll(surface_locks, GoesWith(gone))
    /\ workspace_locks' = WithoutAll(workspace_locks, HeldWorkspaces(gone))
    /\ dead_clients' = dead_clients \cup gone
    /\ UNCHANGED <<conn, target, told, pending, open, history>>

\* pump_inbound takes all there is, and the connections that ended are marked
\* before anything else.
Pump ==
    /\ Take(inbound)
    /\ dead_clients' = dead_clients \cup ClientsOf(inbound, "disconnected")
    /\ UNCHANGED <<conn, target, told, surface_locks, workspace_locks, pending, open, history>>

\* Mutant: only looks at the lock of the target itself.
InTheWayOfTarget(c, x) ==
    IF x \in Workspace
      THEN {workspace_locks[w].holder : w \in {x} \cap DOMAIN workspace_locks} \ {c}
      ELSE {surface_locks[s].holder : s \in {x} \cap DOMAIN surface_locks} \ {c}

\* Who else holds x, or a terminal of x.
InTheWay(c, x) ==
    ({workspace_locks[w].holder : w \in {x} \cap DOMAIN workspace_locks}
       \cup {surface_locks[s].holder : s \in Leaves(x) \cap DOMAIN surface_locks}) \ {c}

\* acquire and acquire_workspace: holders that are marked are evicted on the way.
\* One that is not refuses the request, although the search may have evicted
\* others before it was found.
Granted(c, x, ready) ==
    LET evicted == InTheWay(c, x)
        lock == [holder |-> c, ready |-> ready]
        s == WithoutAll(surface_locks, GoesWith(evicted))
        w == WithoutAll(workspace_locks, HeldWorkspaces(evicted))
    IN
    /\ evicted \subseteq dead_clients
    /\ surface_locks' = [y \in DOMAIN s \cup Leaves(x) |-> IF y \in DOMAIN s THEN s[y] ELSE lock]
    /\ workspace_locks' = IF x \in Workspace THEN With(w, x, lock) ELSE w
    /\ dead_clients' = dead_clients \ evicted

Refused(c, x) ==
    /\ \E h \in InTheWay(c, x) \ dead_clients : Tell(c, "already_attached", h)
    /\ \E evicted \in SUBSET (InTheWay(c, x) \cap dead_clients) : ReleaseAllFor(evicted)

Requested(c) ==
    /\ Ask(c) \in batch
    /\ target[c] \in Workspace =>
         \A d \in ClientsOf(batch, "ask") : target[d] \in Workspace
    /\ batch' = batch \ {Ask(c)}
    /\ UNCHANGED <<conn, target, inbound, open, history>>

\* The surface is not there (any more).
BeginRejected(c) ==
    /\ Requested(c)
    /\ target[c] \notin Workspace \cup open
    /\ Tell(c, "refused", Nobody)
    /\ UNCHANGED <<occupancy, pending>>

\* The connection has unregistered.
BeginUnbound(c) ==
    /\ Requested(c)
    /\ conn[c] # "open"
    /\ UNCHANGED <<told, occupancy, pending>>

MayBegin(c) ==
    /\ conn[c] = "open"
    /\ target[c] \in Workspace \cup open

\* A plugin's kind of surface need not be registered when it is asked for.
BeginUnregistered(c) ==
    /\ Requested(c)
    /\ MayBegin(c)
    /\ target[c] \in Mesh
    /\ Tell(c, "refused", Nobody)
    /\ UNCHANGED <<occupancy, pending>>

\* A surface with no terminal has nothing to wait for.
BeginMesh(c) ==
    /\ Requested(c)
    /\ MayBegin(c)
    /\ target[c] \in Mesh
    /\ \/ Granted(c, target[c], TRUE) /\ Tell(c, "attached", Nobody)
       \/ Refused(c, target[c])
    /\ UNCHANGED pending

\* The lock is taken at once, not ready until the terminals run.
Begin(c) ==
    /\ Requested(c)
    /\ MayBegin(c)
    /\ target[c] \notin Mesh
    /\ \/ /\ Granted(c, target[c], FALSE)
          /\ pending' = With(pending, c, [cancelled |-> FALSE,
                 members |-> IF target[c] \in Workspace THEN MembersOf(target[c]) ELSE {target[c]}])
          /\ UNCHANGED told
       \/ /\ Refused(c, target[c])
          /\ UNCHANGED pending

\* The terminals that input of c goes to.
Reaches(c) ==
    LET held == HeldWorkspaces({c}) IN
    {t \in Terminal \cap open \cap DOMAIN surface_locks :
        /\ surface_locks[t].ready
        /\ IF held # {} THEN \E w \in held : t \in Members[w] /\ workspace_locks[w].ready
                        ELSE surface_locks[t].holder = c}

Applied(c) ==
    /\ Input(c) \in batch
    /\ ClientsOf(batch, "ask") = {}
    /\ batch' = batch \ {Input(c)}
    /\ UNCHANGED <<conn, target, inbound, occupancy, open, history>>

\* Input before the attach is ready cancels it.
FeedPending(c) ==
    /\ Applied(c)
    /\ c \in DOMAIN pending
    /\ Tell(c, "refused", Nobody)
    /\ pending' = [pending EXCEPT ![c].cancelled = TRUE]

\* Input goes to the terminals it reaches, or nowhere.
Feed(c) ==
    /\ Applied(c)
    /\ c \notin DOMAIN pending
    /\ UNCHANGED <<told, pending>>

\* The end of the batch.
Cleanup ==
    /\ batch # {}
    /\ ClientsOf(batch, "ask") = {} /\ ClientsOf(batch, "input") = {}
    /\ batch' = {}
    /\ ReleaseAllFor(ClientsOf(batch, "disconnected"))
    /\ UNCHANGED <<conn, target, told, inbound, pending, open, history>>

-----------------------------------------------------------------------------
(* Between batches the loop looks at the attaches that wait.               *)

LeaseIsCurrent(c) ==
    LET x == target[c] IN
    IF x \in Workspace THEN x \in DOMAIN workspace_locks /\ workspace_locks[x].holder = c
                       ELSE x \in DOMAIN surface_locks /\ surface_locks[x].holder = c

\* Mutant: gives back the locks without a look at whose they are by now.
ReleaseLeaseOfAnyone(c) ==
    LET x == target[c] IN
    /\ surface_locks' = WithoutAll(surface_locks, IF x \in Workspace THEN Members[x] ELSE {x})
    /\ workspace_locks' = WithoutAll(workspace_locks, {x})
    /\ UNCHANGED dead_clients

\* PendingAttach::release.
ReleaseLease(c) ==
    LET x == target[c] IN
    /\ surface_locks' =
         IF ~LeaseIsCurrent(c) THEN surface_locks
         ELSE WithoutAll(surface_locks, IF x \in Workspace THEN Members[x] ELSE {x})
    /\ workspace_locks' =
         IF LeaseIsCurrent(c) THEN WithoutAll(workspace_locks, {x}) ELSE workspace_locks
    /\ UNCHANGED dead_clients

Polled(c) ==
    /\ batch = {}
    /\ c \in DOMAIN pending
    /\ pending' = WithoutAll(pending, {c})
    /\ UNCHANGED <<conn, target, inbound, batch, open, history>>

\* Was cancelled, or its connection or its lock is gone.
Dropped(c) == pending[c].cancelled \/ conn[c] # "open" \/ ~LeaseIsCurrent(c)

PollDropped(c) ==
    /\ Polled(c)
    /\ Dropped(c)
    /\ ReleaseLease(c)
    /\ UNCHANGED told

Changed(c) == target[c] \in Workspace /\ pending[c].members # MembersOf(target[c])

\* Mutant: gives the lock back and says nothing.
PollFailedSilently(c) ==
    /\ Polled(c)
    /\ ~Dropped(c)
    /\ ReleaseLease(c)
    /\ UNCHANGED told

\* The target changed, or one of its terminals could not be started: whether it can
\* is an outcome of its activation, which anybody may have asked for.
PollFailed(c) ==
    /\ Polled(c)
    /\ ~Dropped(c)
    /\ ReleaseLease(c)
    /\ Tell(c, "refused", Nobody)

Ready(locks, c) ==
    [x \in DOMAIN locks |-> IF locks[x].holder = c THEN [locks[x] EXCEPT !.ready = TRUE] ELSE locks[x]]

\* All terminals run: the lock is ready, and the client is sent what it attached.
PollReady(c) ==
    /\ Polled(c)
    /\ ~Dropped(c) /\ ~Changed(c)
    /\ surface_locks' = Ready(surface_locks, c)
    /\ workspace_locks' = Ready(workspace_locks, c)
    /\ UNCHANGED dead_clients
    /\ Tell(c, "attached", Nobody)

-----------------------------------------------------------------------------
(* What else happens in the main loop.                                     *)

\* The user closes a surface.
Close(s) ==
    /\ batch = {}
    /\ s \in open
    /\ Cardinality(Surface \ open) < MaxClosed
    /\ open' = open \ {s}
    /\ surface_locks' = WithoutAll(surface_locks, {s})
    /\ UNCHANGED <<conn, target, told, inbound, batch, workspace_locks, dead_clients, pending,
                   history>>

\* release_occupancy: the local user takes a surface back, and with it the whole
\* workspace that is held.
ForceDetach(s) ==
    LET held == {w \in DOMAIN workspace_locks : s \in MembersOf(w)} IN
    /\ batch = {}
    /\ s \in open
    /\ \E h \in Conn :
        /\ \/ \E w \in held :
                /\ h = workspace_locks[w].holder
                /\ workspace_locks' = WithoutAll(workspace_locks, {w})
                /\ surface_locks' = WithoutAll(surface_locks, Members[w])
           \/ /\ held = {} /\ s \in DOMAIN surface_locks
              /\ h = surface_locks[s].holder
              /\ surface_locks' = WithoutAll(surface_locks, {s})
              /\ UNCHANGED workspace_locks
        /\ Tell(h, "force_detached", Nobody)
        /\ taken_back' = taken_back \cup {h}
    /\ UNCHANGED <<conn, target, inbound, batch, dead_clients, pending, open, before>>

-----------------------------------------------------------------------------
Poll(c) == PollDropped(c) \/ PollFailed(c) \/ PollReady(c)

Apply ==
    \/ \E c \in Conn : BeginRejected(c) \/ BeginUnbound(c)
                      \/ BeginUnregistered(c) \/ BeginMesh(c) \/ Begin(c)
    \/ \E c \in Conn : FeedPending(c) \/ Feed(c)
    \/ Cleanup

Next ==
    \/ \E c \in Conn, x \in Wanted : Open(c, x)
    \/ \E c \in Conn : Send(c) \/ End(c) \/ HangUp(c)
    \/ Pump
    \/ Apply
    \/ \E c \in Conn : Poll(c)
    \/ \E s \in Surface : Close(s) \/ ForceDetach(s)

\* The loop gets on with its batches and looks at what waits in every pass; the
\* writer of an ended connection ends (StreamHub); a terminal starts or fails to.
Fairness ==
    /\ WF_vars(Pump)
    /\ WF_vars(Apply)
    /\ \A c \in Conn : SF_vars(Poll(c)) /\ WF_vars(HangUp(c))

Spec == Init /\ [][Next]_vars /\ Fairness

-----------------------------------------------------------------------------
\* The type invariant.
TypeOK ==
    /\ conn \in [Conn -> {"new", "open", "unregistered", "closed"}]
    /\ DOMAIN target = {c \in Conn : conn[c] # "new"}
    /\ target \in [DOMAIN target -> Wanted]
    /\ told \in [Conn -> Answer]
    /\ inbound \subseteq Message
    /\ batch \subseteq Message
    /\ DOMAIN surface_locks \subseteq open
    /\ surface_locks \in [DOMAIN surface_locks -> Lock]
    /\ DOMAIN workspace_locks \subseteq Workspace
    /\ workspace_locks \in [DOMAIN workspace_locks -> Lock]
    /\ dead_clients \subseteq Conn
    /\ DOMAIN pending \subseteq Conn
    /\ pending \in [DOMAIN pending -> [cancelled : BOOLEAN, members : SUBSET Surface]]
    /\ open \subseteq Surface
    /\ before \in [Conn -> SUBSET Conn]
    /\ taken_back \subseteq Conn

Holders == {surface_locks[s].holder : s \in DOMAIN surface_locks}
              \cup {workspace_locks[w].holder : w \in DOMAIN workspace_locks}

\* Nobody types into a terminal another client is attached to, as a surface or with
\* its workspace: what two clients type never reaches the same terminal.
OneClientTypes ==
    \A c, d \in Conn : c # d => Reaches(c) \cap Reaches(d) = {}

\* A lock never outlives its client: of every holder whose connection is closed the
\* end is still to be applied, so that the lock will go.  An attach that begins,
\* waits or becomes ready while its connection goes away leaves nothing behind.
NoLockOutlivesItsClient ==
    \A h \in Holders : conn[h] = "closed" => Disconnected(h) \in inbound \cup batch

\* Who reconnects is not refused on account of a connection that had ended before
\* it asked, although locks are given back at the end of a batch only.
RefusedByTheLiving ==
    \A c \in Conn : told[c].event = "already_attached" => told[c].holder \notin before[c]

\* The workspace or the terminal a client was told it attached is its own for as
\* long as it is connected, unless the user takes it back: the workspace and every
\* open terminal of the target are locked by it, and ready.
AttachedMeansHeld ==
    \A c \in Conn \ taken_back :
        conn[c] = "open" /\ told[c].event = "attached" =>
            LET mine == [holder |-> c, ready |-> TRUE] IN
            /\ target[c] \in Workspace =>
                 target[c] \in DOMAIN workspace_locks /\ workspace_locks[target[c]] = mine
            /\ \A t \in Leaves(target[c]) \cap Terminal \cap open :
                 t \in DOMAIN surface_locks /\ surface_locks[t] = mine

\* What an attached client typed before it ended reaches its terminals, also when
\* the end comes in the same batch, unless the user took them back or somebody
\* else asked for them.
ResidualInputReaches ==
    \A c \in dead_clients \ taken_back :
        Input(c) \in batch /\ told[c].event = "attached" =>
            Leaves(target[c]) \cap Terminal \cap open \subseteq Reaches(c)

\* Every client that asked is answered, or gone, unless the surface it asked for is
\* closed while its attach waits.
AttachAnswered ==
    \A c \in Conn :
        conn[c] = "open" /\ told[c] = Nothing ~>
            told[c] # Nothing \/ conn[c] # "open" \/ target[c] \notin Workspace \cup open
=============================================================================
