---------------------------- MODULE Attach_proofs ----------------------------
(***************************************************************************)
(* Who occupies what, for every number of connections, surfaces and        *)
(* workspaces.                                                             *)
(***************************************************************************)
EXTENDS Attach, TLAPS

-----------------------------------------------------------------------------
(* The maps of locks.                                                      *)

\* The type of the locks, and what is kept of them: the lock of each key is what it
\* was, or the same with another readiness.
LocksTyped ==
    /\ DOMAIN surface_locks \subseteq open
    /\ surface_locks \in [DOMAIN surface_locks -> Lock]
    /\ DOMAIN workspace_locks \subseteq Workspace
    /\ workspace_locks \in [DOMAIN workspace_locks -> Lock]

SurfaceKept(s) ==
    /\ s \in DOMAIN surface_locks
    /\ surface_locks'[s].holder = surface_locks[s].holder

WorkspaceKept(w) ==
    /\ w \in DOMAIN workspace_locks
    /\ workspace_locks'[w].holder = workspace_locks[w].holder

\* Of the locks of a workspace's terminals none is lost while the workspace's own is kept.
TerminalsKept ==
    \A w \in DOMAIN workspace_locks' : WorkspaceKept(w) =>
        \A t \in Members[w] \cap Terminal \cap open' \cap DOMAIN surface_locks :
            t \in DOMAIN surface_locks'

\* A step that only takes locks away, all those of C among them.
OnlyLess(C) ==
    /\ LocksTyped'
    /\ \A s \in DOMAIN surface_locks' : SurfaceKept(s) /\ surface_locks[s].holder \notin C
    /\ \A w \in DOMAIN workspace_locks' : WorkspaceKept(w) /\ workspace_locks[w].holder \notin C
    /\ TerminalsKept

\* Every terminal of a workspace that is held is locked by its holder, who asked for it.
WorkspaceWhole ==
    \A w \in DOMAIN workspace_locks :
        LET h == workspace_locks[w].holder IN
        /\ h \in DOMAIN target /\ target[h] = w
        /\ \A t \in TerminalsOf(w) : t \in DOMAIN surface_locks /\ surface_locks[t].holder = h

-----------------------------------------------------------------------------
(* What the operators do to the locks.                                     *)

LEMMA ReleaseAllForLess ==
    ASSUME TypeOK, WorkspaceWhole, NEW C \in SUBSET Conn, ReleaseAllFor(C), UNCHANGED open
    PROVE  OnlyLess(C) /\ dead_clients' = dead_clients \ C
<1>1. LocksTyped
  BY DEF TypeOK, LocksTyped
<1>2. /\ DOMAIN surface_locks' = DOMAIN surface_locks \ GoesWith(C)
      /\ surface_locks' \in [DOMAIN surface_locks' -> Lock]
      /\ \A s \in DOMAIN surface_locks' : surface_locks'[s] = surface_locks[s]
  BY <1>1 DEF LocksTyped, ReleaseAllFor, WithoutAll
<1>3. /\ DOMAIN workspace_locks' = DOMAIN workspace_locks \ HeldWorkspaces(C)
      /\ workspace_locks' \in [DOMAIN workspace_locks' -> Lock]
      /\ \A w \in DOMAIN workspace_locks' : workspace_locks'[w] = workspace_locks[w]
  BY <1>1 DEF LocksTyped, ReleaseAllFor, WithoutAll
<1>4. LocksTyped'
  BY <1>1, <1>2, <1>3 DEF LocksTyped
<1>5. \A s \in DOMAIN surface_locks' : SurfaceKept(s) /\ surface_locks[s].holder \notin C
  BY <1>2 DEF SurfaceKept, GoesWith
<1>6. \A w \in DOMAIN workspace_locks' : WorkspaceKept(w) /\ workspace_locks[w].holder \notin C
  BY <1>3 DEF WorkspaceKept, HeldWorkspaces
<1>7. ASSUME NEW w \in DOMAIN workspace_locks',
             NEW t \in Members[w] \cap Terminal \cap open \cap DOMAIN surface_locks
      PROVE  t \in DOMAIN surface_locks'
  <2>1. w \in DOMAIN workspace_locks /\ w \in Workspace /\ workspace_locks[w].holder \notin C
    BY <1>1, <1>6 DEF WorkspaceKept, LocksTyped
  <2>2. surface_locks[t].holder = workspace_locks[w].holder
    BY <2>1, <1>7 DEF WorkspaceWhole, TerminalsOf, MembersOf
  <2>3. ASSUME NEW v \in HeldWorkspaces(C), t \in Members[v] PROVE FALSE
    <3>1. v \in DOMAIN workspace_locks /\ workspace_locks[v].holder \in C
      BY DEF HeldWorkspaces
    <3>2. v = w
      BY <1>1, <2>1, <2>3, <3>1, AttachAssumption DEF LocksTyped
    <3> QED
      BY <2>1, <3>1, <3>2
  <2> QED
    BY <1>2, <2>1, <2>2, <2>3 DEF GoesWith
<1>8. TerminalsKept
  BY <1>7 DEF TerminalsKept
<1> QED
  BY <1>4, <1>5, <1>6, <1>8 DEF OnlyLess, ReleaseAllFor

LEMMA SameLess ==
    ASSUME TypeOK, UNCHANGED <<surface_locks, workspace_locks, open>>
    PROVE  OnlyLess({})
  BY DEF TypeOK, OnlyLess, LocksTyped, SurfaceKept, WorkspaceKept, TerminalsKept

\* An attach that is given up takes its own locks with it.
LEMMA LeaseLess ==
    ASSUME TypeOK, WorkspaceWhole, NEW c \in Conn, ReleaseLease(c), UNCHANGED open
    PROVE  OnlyLess({})
<1>1. LocksTyped
  BY DEF TypeOK, LocksTyped
<1>2. CASE ~LeaseIsCurrent(c)
  BY <1>2, SameLess DEF ReleaseLease
<1>3. CASE LeaseIsCurrent(c) /\ target[c] \in Workspace
  <2>1. /\ surface_locks' = WithoutAll(surface_locks, Members[target[c]])
        /\ workspace_locks' = WithoutAll(workspace_locks, {target[c]})
    BY <1>3 DEF ReleaseLease
  <2>2. LocksTyped'
    BY <1>1, <2>1 DEF LocksTyped, WithoutAll
  <2>3. \A s \in DOMAIN surface_locks' : SurfaceKept(s)
    BY <2>1 DEF SurfaceKept, WithoutAll
  <2>4. \A w \in DOMAIN workspace_locks' : WorkspaceKept(w) /\ w # target[c]
    BY <2>1 DEF WorkspaceKept, WithoutAll
  <2>5. ASSUME NEW w \in DOMAIN workspace_locks', NEW t \in Members[w] \cap DOMAIN surface_locks
        PROVE  t \in DOMAIN surface_locks'
    <3>1. w \in Workspace /\ t \notin Members[target[c]]
      BY <1>1, <1>3, <2>4, <2>5, AttachAssumption DEF LocksTyped, WorkspaceKept
    <3> QED
      BY <2>1, <2>5, <3>1 DEF WithoutAll
  <2> QED
    BY <2>2, <2>3, <2>4, <2>5 DEF OnlyLess, TerminalsKept
<1>4. CASE LeaseIsCurrent(c) /\ target[c] \notin Workspace
  <2>1. /\ surface_locks' = WithoutAll(surface_locks, {target[c]})
        /\ workspace_locks' = WithoutAll(workspace_locks, {target[c]})
        /\ surface_locks[target[c]].holder = c
    BY <1>4 DEF ReleaseLease, LeaseIsCurrent
  <2>2. LocksTyped'
    BY <1>1, <2>1 DEF LocksTyped, WithoutAll
  <2>3. \A s \in DOMAIN surface_locks' : SurfaceKept(s)
    BY <2>1 DEF SurfaceKept, WithoutAll
  <2>4. \A w \in DOMAIN workspace_locks' : WorkspaceKept(w)
    BY <2>1 DEF WorkspaceKept, WithoutAll
  <2>5. ASSUME NEW w \in DOMAIN workspace_locks',
               NEW t \in Members[w] \cap Terminal \cap open \cap DOMAIN surface_locks
        PROVE  t \in DOMAIN surface_locks'
    <3>1. w \in DOMAIN workspace_locks /\ w \in Workspace
      BY <1>1, <2>4 DEF LocksTyped, WorkspaceKept
    <3>2. surface_locks[t].holder = workspace_locks[w].holder
          /\ target[workspace_locks[w].holder] = w
      BY <2>5, <3>1 DEF WorkspaceWhole, TerminalsOf, MembersOf
    <3>3. t # target[c]
      BY <1>4, <2>1, <3>1, <3>2
    <3> QED
      BY <2>1, <2>5, <3>3 DEF WithoutAll
  <2> QED
    BY <2>2, <2>3, <2>4, <2>5 DEF OnlyLess, TerminalsKept
<1> QED
  BY <1>2, <1>3, <1>4

LEMMA CloseLess ==
    ASSUME TypeOK, NEW s \in Surface, Close(s)
    PROVE  OnlyLess({})
<1>1. LocksTyped
  BY DEF TypeOK, LocksTyped
<1>2. /\ surface_locks' = WithoutAll(surface_locks, {s})
      /\ workspace_locks' = workspace_locks
      /\ open' = open \ {s}
  BY DEF Close
<1>3. LocksTyped'
  BY <1>1, <1>2 DEF LocksTyped, WithoutAll
<1>4. \A y \in DOMAIN surface_locks' : SurfaceKept(y)
  BY <1>2 DEF SurfaceKept, WithoutAll
<1>5. \A w \in DOMAIN workspace_locks' : WorkspaceKept(w)
  BY <1>2 DEF WorkspaceKept
<1>6. TerminalsKept
  BY <1>2 DEF TerminalsKept, WithoutAll
<1> QED
  BY <1>3, <1>4, <1>5, <1>6 DEF OnlyLess

LEMMA ForceDetachLess ==
    ASSUME TypeOK, NEW s \in Surface, ForceDetach(s)
    PROVE  OnlyLess({})
<1>1. LocksTyped
  BY DEF TypeOK, LocksTyped
<1>2. s \in open /\ UNCHANGED open
  BY DEF ForceDetach
<1>3. ASSUME NEW v \in DOMAIN workspace_locks,
             workspace_locks' = WithoutAll(workspace_locks, {v}),
             surface_locks' = WithoutAll(surface_locks, Members[v])
      PROVE  OnlyLess({})
  <2>1. LocksTyped'
    BY <1>1, <1>2, <1>3 DEF LocksTyped, WithoutAll
  <2>2. \A y \in DOMAIN surface_locks' : SurfaceKept(y)
    BY <1>3 DEF SurfaceKept, WithoutAll
  <2>3. \A w \in DOMAIN workspace_locks' : WorkspaceKept(w) /\ w # v
    BY <1>3 DEF WorkspaceKept, WithoutAll
  <2>4. ASSUME NEW w \in DOMAIN workspace_locks', NEW t \in Members[w] \cap DOMAIN surface_locks
        PROVE  t \in DOMAIN surface_locks'
    <3>1. w \in Workspace /\ v \in Workspace /\ t \notin Members[v]
      BY <1>1, <2>3, <2>4, AttachAssumption DEF LocksTyped, WorkspaceKept
    <3> QED
      BY <1>3, <2>4, <3>1 DEF WithoutAll
  <2> QED
    BY <2>1, <2>2, <2>3, <2>4 DEF OnlyLess, TerminalsKept
<1>4. ASSUME {w \in DOMAIN workspace_locks : s \in MembersOf(w)} = {},
             surface_locks' = WithoutAll(surface_locks, {s}), UNCHANGED workspace_locks
      PROVE  OnlyLess({})
  <2>1. LocksTyped'
    BY <1>1, <1>2, <1>4 DEF LocksTyped, WithoutAll
  <2>2. \A y \in DOMAIN surface_locks' : SurfaceKept(y)
    BY <1>4 DEF SurfaceKept, WithoutAll
  <2>3. \A w \in DOMAIN workspace_locks' : WorkspaceKept(w) /\ s \notin Members[w]
    BY <1>2, <1>4 DEF WorkspaceKept, MembersOf
  <2>4. TerminalsKept
    BY <1>4, <2>3 DEF TerminalsKept, WithoutAll
  <2> QED
    BY <2>1, <2>2, <2>3, <2>4 DEF OnlyLess
<1> QED
  BY <1>3, <1>4 DEF ForceDetach

LEMMA ReadyLess ==
    ASSUME TypeOK, NEW c \in Conn,
           surface_locks' = Ready(surface_locks, c), workspace_locks' = Ready(workspace_locks, c),
           UNCHANGED open
    PROVE  OnlyLess({})
<1>1. \A lock \in Lock : [lock EXCEPT !.ready = TRUE] \in Lock
                       /\ [lock EXCEPT !.ready = TRUE].holder = lock.holder
  BY DEF Lock
<1>2. LocksTyped
  BY DEF TypeOK, LocksTyped
<1>3. LocksTyped' /\ DOMAIN surface_locks' = DOMAIN surface_locks
      /\ DOMAIN workspace_locks' = DOMAIN workspace_locks
  BY <1>1, <1>2 DEF LocksTyped, Ready
<1>4. \A s \in DOMAIN surface_locks' : SurfaceKept(s)
  BY <1>1, <1>2, <1>3 DEF LocksTyped, SurfaceKept, Ready
<1>5. \A w \in DOMAIN workspace_locks' : WorkspaceKept(w)
  BY <1>1, <1>2, <1>3 DEF LocksTyped, WorkspaceKept, Ready
<1> QED
  BY <1>3, <1>4, <1>5 DEF OnlyLess, TerminalsKept

\* A grant: what was kept is nobody's who was in the way, what is new is the client's,
\* and a workspace that is held is whole.
Grants(c) ==
    /\ LocksTyped'
    /\ \A s \in DOMAIN surface_locks' :
          \/ SurfaceKept(s) /\ surface_locks[s].holder \notin InTheWay(c, target[c])
          \/ surface_locks'[s].holder = c
    /\ \A w \in DOMAIN workspace_locks' :
          \/ WorkspaceKept(w) /\ workspace_locks[w].holder \notin InTheWay(c, target[c])
          \/ w = target[c] /\ workspace_locks'[w].holder = c
    /\ WorkspaceWhole'

LEMMA GrantedGrants ==
    ASSUME TypeOK, WorkspaceWhole, NEW c \in Conn, NEW ready \in BOOLEAN, c \in DOMAIN target,
           target[c] \in Workspace \cup open, Granted(c, target[c], ready),
           UNCHANGED <<open, target>>
    PROVE  Grants(c) /\ dead_clients' = dead_clients \ InTheWay(c, target[c])
<1> DEFINE x == target[c]
           evicted == InTheWay(c, x)
           lock == [holder |-> c, ready |-> ready]
           s == WithoutAll(surface_locks, GoesWith(evicted))
           w == WithoutAll(workspace_locks, HeldWorkspaces(evicted))
<1>1. LocksTyped /\ lock \in Lock /\ lock.holder = c /\ x \in Target /\ open \subseteq Surface
  BY DEF TypeOK, LocksTyped, Lock, Target
<1>2. /\ surface_locks' = [y \in DOMAIN s \cup Leaves(x) |-> IF y \in DOMAIN s THEN s[y] ELSE lock]
      /\ workspace_locks' = IF x \in Workspace THEN With(w, x, lock) ELSE w
      /\ dead_clients' = dead_clients \ evicted
  BY DEF Granted
<1>3. /\ DOMAIN s = DOMAIN surface_locks \ GoesWith(evicted)
      /\ \A y \in DOMAIN s : s[y] = surface_locks[y] /\ s[y] \in Lock
      /\ DOMAIN w = DOMAIN workspace_locks \ HeldWorkspaces(evicted)
      /\ \A y \in DOMAIN w : w[y] = workspace_locks[y] /\ w[y] \in Lock
  BY <1>1 DEF WithoutAll, LocksTyped
<1>4. Leaves(x) \subseteq open
  BY <1>1 DEF Leaves, TerminalsOf, MembersOf
<1> HIDE DEF x, lock, s, w
<1>5. /\ DOMAIN surface_locks' = DOMAIN s \cup Leaves(x)
      /\ \A y \in DOMAIN surface_locks' : surface_locks'[y] = IF y \in DOMAIN s THEN s[y] ELSE lock
  BY <1>2
<1>6. /\ DOMAIN workspace_locks' = IF x \in Workspace THEN DOMAIN w \cup {x} ELSE DOMAIN w
      /\ \A y \in DOMAIN workspace_locks' :
            workspace_locks'[y] = IF x \in Workspace /\ y = x THEN lock ELSE w[y]
  BY <1>2, <1>3 DEF With, WithoutAll, w
<1>7. LocksTyped'
  <2>1. surface_locks' \in [DOMAIN surface_locks' -> Lock]
    BY <1>1, <1>2, <1>3, <1>5
  <2>2. workspace_locks' \in [DOMAIN workspace_locks' -> Lock]
    BY <1>1, <1>2, <1>3, <1>6 DEF With, WithoutAll, w
  <2> QED
    BY <2>1, <2>2, <1>1, <1>3, <1>4, <1>5, <1>6 DEF LocksTyped
<1>8. ASSUME NEW y \in DOMAIN surface_locks'
      PROVE  \/ SurfaceKept(y) /\ surface_locks[y].holder \notin evicted /\ y \in DOMAIN s
             \/ surface_locks'[y].holder = c /\ y \in Leaves(x) /\ y \notin DOMAIN s
  BY <1>1, <1>3, <1>5, <1>8 DEF SurfaceKept, GoesWith
<1>9. ASSUME NEW y \in DOMAIN workspace_locks'
      PROVE  \/ WorkspaceKept(y) /\ workspace_locks[y].holder \notin evicted /\ y # x
             \/ y = x /\ y \in Workspace /\ workspace_locks'[y].holder = c
  BY <1>1, <1>3, <1>6, <1>9 DEF WorkspaceKept, HeldWorkspaces, LocksTyped
<1>10. ASSUME NEW v \in DOMAIN workspace_locks'
       PROVE  LET h == workspace_locks'[v].holder IN
              /\ h \in DOMAIN target /\ target[h] = v
              /\ \A t \in TerminalsOf(v) : t \in DOMAIN surface_locks' /\ surface_locks'[t].holder = h
  <2>1. CASE v = x /\ v \in Workspace /\ workspace_locks'[v].holder = c
    <3>1. ASSUME NEW t \in TerminalsOf(v)
          PROVE  t \in DOMAIN surface_locks' /\ surface_locks'[t].holder = c
      <4>1. t \in Leaves(x) /\ t \in DOMAIN surface_locks'
        BY <2>1, <1>5 DEF Leaves
      <4>2. t \in DOMAIN s => surface_locks[t].holder \in evicted \cup {c}
        BY <4>1, <1>3 DEF InTheWay
      <4> QED
        BY <4>1, <4>2, <1>8 DEF SurfaceKept
    <3> QED
      BY <2>1, <3>1 DEF x
  <2>2. CASE v # x /\ WorkspaceKept(v) /\ workspace_locks[v].holder \notin evicted
    <3>1. v \in DOMAIN workspace_locks /\ v \in Workspace
          /\ workspace_locks'[v].holder = workspace_locks[v].holder
      BY <2>2, <1>1 DEF WorkspaceKept, LocksTyped
    <3> DEFINE h == workspace_locks[v].holder
    <3>2. h \in DOMAIN target /\ target[h] = v
      BY <3>1 DEF WorkspaceWhole
    <3>3. ASSUME NEW t \in TerminalsOf(v)
          PROVE  t \in DOMAIN surface_locks' /\ surface_locks'[t].holder = h
      <4>1. t \in DOMAIN surface_locks /\ surface_locks[t].holder = h /\ t \in Members[v]
        BY <3>1 DEF WorkspaceWhole, TerminalsOf, MembersOf
      <4>2. ASSUME NEW u \in HeldWorkspaces(evicted), t \in Members[u] PROVE FALSE
        <5>1. u \in DOMAIN workspace_locks /\ workspace_locks[u].holder \in evicted
          BY DEF HeldWorkspaces
        <5>2. u = v
          BY <1>1, <3>1, <4>1, <4>2, <5>1, AttachAssumption DEF LocksTyped
        <5> QED
          BY <2>2, <5>1, <5>2
      <4>3. t \in DOMAIN s
        BY <1>3, <2>2, <4>1, <4>2 DEF GoesWith
      <4> QED
        BY <1>3, <1>5, <4>1, <4>3
    <3> QED
      BY <3>1, <3>2, <3>3
  <2> QED
    BY <1>9, <1>10, <2>1, <2>2
<1>11. WorkspaceWhole'
  BY <1>10 DEF WorkspaceWhole, TerminalsOf, MembersOf
<1>12. dead_clients' = dead_clients \ evicted
  BY <1>2
<1> QED
  BY <1>7, <1>8, <1>9, <1>11, <1>12 DEF Grants, x

-----------------------------------------------------------------------------
(* What a step does to the locks and their holders.                        *)

LEMMA LessKeepsWhole ==
    ASSUME TypeOK, WorkspaceWhole, NEW C, OnlyLess(C), open' \subseteq open,
           \A h \in DOMAIN target : h \in DOMAIN target' /\ target'[h] = target[h]
    PROVE  WorkspaceWhole'
<1> SUFFICES ASSUME NEW w \in DOMAIN workspace_locks'
             PROVE  LET h == workspace_locks'[w].holder IN
                    /\ h \in DOMAIN target' /\ target'[h] = w
                    /\ \A t \in TerminalsOf(w)' :
                          t \in DOMAIN surface_locks' /\ surface_locks'[t].holder = h
  BY DEF WorkspaceWhole
<1> DEFINE h == workspace_locks[w].holder
<1>1. WorkspaceKept(w) /\ w \in DOMAIN workspace_locks /\ workspace_locks'[w].holder = h
  BY DEF OnlyLess, WorkspaceKept
<1>2. h \in DOMAIN target' /\ target'[h] = w
  BY <1>1 DEF WorkspaceWhole
<1>3. ASSUME NEW t \in TerminalsOf(w)'
      PROVE  t \in DOMAIN surface_locks' /\ surface_locks'[t].holder = h
  <2>1. t \in Members[w] \cap Terminal \cap open'
    BY DEF TerminalsOf, MembersOf
  <2>2. t \in DOMAIN surface_locks /\ surface_locks[t].holder = h
    BY <1>1, <2>1 DEF WorkspaceWhole, TerminalsOf, MembersOf
  <2>3. t \in DOMAIN surface_locks'
    BY <1>1, <2>1, <2>2 DEF OnlyLess, TerminalsKept
  <2> QED
    BY <2>2, <2>3 DEF OnlyLess, SurfaceKept
<1> QED
  BY <1>1, <1>2, <1>3

LEMMA LessHolders ==
    ASSUME NEW C, OnlyLess(C) PROVE Holders' \subseteq Holders \ C
  BY DEF OnlyLess, SurfaceKept, WorkspaceKept, Holders

LEMMA GrantHolders ==
    ASSUME NEW c, Grants(c) PROVE Holders' \subseteq (Holders \ InTheWay(c, target[c])) \cup {c}
  BY DEF Grants, SurfaceKept, WorkspaceKept, Holders

\* A holder held before and has kept its mark, or is a connection that is registered
\* and was granted what it asked for.
HolderOf(h) ==
    \/ h \in Holders /\ (h \in dead_clients => h \in dead_clients')
    \/ /\ h \in Conn /\ conn[h] = "open"
       /\ conn' = conn /\ inbound' = inbound /\ batch' \subseteq batch

Effect ==
    /\ LocksTyped'
    /\ WorkspaceWhole'
    /\ dead_clients' \subseteq Conn
    /\ \A h \in Holders' : HolderOf(h)

LEMMA LessEffect ==
    ASSUME TypeOK, WorkspaceWhole, NEW C \in SUBSET Conn, OnlyLess(C), open' \subseteq open,
           dead_clients' \subseteq Conn, dead_clients \ C \subseteq dead_clients',
           \A h \in DOMAIN target : h \in DOMAIN target' /\ target'[h] = target[h]
    PROVE  Effect
<1>1. WorkspaceWhole'
  BY LessKeepsWhole
<1>2. Holders' \subseteq Holders \ C
  BY LessHolders
<1> QED
  BY <1>1, <1>2 DEF Effect, OnlyLess, HolderOf

LEMMA ClientsAreClients ==
    ASSUME TypeOK, NEW k
    PROVE  ClientsOf(inbound, k) \subseteq Conn /\ ClientsOf(batch, k) \subseteq Conn
  BY DEF TypeOK, ClientsOf, Message

LEMMA RefusedEffect ==
    ASSUME TypeOK, WorkspaceWhole, NEW c \in Conn, Refused(c, target[c]), UNCHANGED <<open, target>>
    PROVE  Effect
<1>1. PICK evicted \in SUBSET (InTheWay(c, target[c]) \cap dead_clients) : ReleaseAllFor(evicted)
  BY DEF Refused
<1>2. evicted \in SUBSET Conn
  BY DEF TypeOK
<1>3. OnlyLess(evicted) /\ dead_clients' = dead_clients \ evicted
  BY <1>1, <1>2, ReleaseAllForLess
<1>4. dead_clients' \subseteq Conn
  BY <1>3 DEF TypeOK
<1> QED
  BY <1>2, <1>3, <1>4, LessEffect

LEMMA GrantedEffect ==
    ASSUME TypeOK, WorkspaceWhole, NEW c \in Conn, NEW ready \in BOOLEAN, MayBegin(c),
           Granted(c, target[c], ready), Requested(c)
    PROVE  Effect
<1>1. c \in DOMAIN target /\ conn[c] = "open"
  BY DEF TypeOK, MayBegin
<1>2. UNCHANGED <<conn, target, inbound, open>> /\ batch' \subseteq batch
  BY DEF Requested
<1>3. Grants(c) /\ dead_clients' = dead_clients \ InTheWay(c, target[c])
  BY <1>1, <1>2, GrantedGrants DEF MayBegin
<1>4. Holders' \subseteq (Holders \ InTheWay(c, target[c])) \cup {c}
  BY <1>3, GrantHolders
<1>5. \A h \in Holders' : HolderOf(h)
  BY <1>1, <1>2, <1>3, <1>4 DEF HolderOf
<1> QED
  BY <1>3, <1>5 DEF Effect, Grants, TypeOK

LEMMA EveryStep ==
    ASSUME TypeOK, WorkspaceWhole, [Next]_vars
    PROVE  Effect
<1> DEFINE Extends == \A h \in DOMAIN target : h \in DOMAIN target' /\ target'[h] = target[h]
<1>1. ASSUME NEW c \in Conn, NEW x \in Wanted, Open(c, x) PROVE Effect
  <2>1. c \notin DOMAIN target
    BY <1>1 DEF TypeOK, Open
  <2>2. Extends
    BY <1>1, <2>1 DEF Open, With
  <2>3. UNCHANGED <<occupancy, open>>
    BY <1>1 DEF Open
  <2>4. OnlyLess({})
    BY <2>3, SameLess DEF occupancy
  <2> QED
    BY <2>2, <2>3, <2>4, LessEffect DEF occupancy, TypeOK
<1>2. ASSUME UNCHANGED <<occupancy, open, target>> PROVE Effect
  <2>1. OnlyLess({})
    BY <1>2, SameLess DEF occupancy
  <2> QED
    BY <1>2, <2>1, LessEffect DEF occupancy, TypeOK
<1>3. ASSUME NEW c \in Conn, Send(c) \/ End(c) \/ HangUp(c) PROVE Effect
  BY <1>2, <1>3 DEF Send, End, HangUp
<1>4. ASSUME Pump PROVE Effect
  <2>1. UNCHANGED <<surface_locks, workspace_locks, open, target>>
        /\ dead_clients' = dead_clients \cup ClientsOf(inbound, "disconnected")
    BY <1>4 DEF Pump
  <2>2. OnlyLess({})
    BY <2>1, SameLess
  <2> QED
    BY <2>1, <2>2, LessEffect, ClientsAreClients DEF TypeOK
<1>5. ASSUME NEW c \in Conn, BeginRejected(c) \/ BeginUnbound(c) \/ BeginUnregistered(c) PROVE Effect
  BY <1>2, <1>5 DEF BeginRejected, BeginUnbound, BeginUnregistered, Requested
<1>6. ASSUME NEW c \in Conn, BeginMesh(c) \/ Begin(c) PROVE Effect
  <2>1. Requested(c) /\ MayBegin(c) /\ UNCHANGED <<open, target>>
    BY <1>6 DEF BeginMesh, Begin, Requested
  <2>2. CASE Refused(c, target[c])
    BY <2>1, <2>2, RefusedEffect
  <2>3. CASE \E ready \in BOOLEAN : Granted(c, target[c], ready)
    BY <2>1, <2>3, GrantedEffect
  <2> QED
    BY <1>6, <2>2, <2>3 DEF BeginMesh, Begin
<1>7. ASSUME NEW c \in Conn, FeedPending(c) \/ Feed(c) PROVE Effect
  BY <1>2, <1>7 DEF FeedPending, Feed, Applied
<1>8. ASSUME Cleanup PROVE Effect
  <2> DEFINE C == ClientsOf(batch, "disconnected")
  <2>1. C \in SUBSET Conn /\ ReleaseAllFor(C) /\ UNCHANGED <<open, target>>
    BY <1>8, ClientsAreClients DEF Cleanup
  <2> HIDE DEF C
  <2>2. OnlyLess(C) /\ dead_clients' = dead_clients \ C
    BY <2>1, ReleaseAllForLess
  <2>3. dead_clients' \subseteq Conn
    BY <2>2 DEF TypeOK
  <2> QED
    BY <2>1, <2>2, <2>3, LessEffect
<1>9. ASSUME NEW c \in Conn, Poll(c) PROVE Effect
  <2>1. UNCHANGED <<open, target, dead_clients>>
    BY <1>9 DEF Poll, PollDropped, PollFailed, PollReady, Polled, ReleaseLease
  <2>2. OnlyLess({})
    <3>1. CASE ReleaseLease(c)
      BY <2>1, <3>1, LeaseLess
    <3>2. CASE PollReady(c)
      BY <2>1, <3>2, ReadyLess DEF PollReady
    <3> QED
      BY <1>9, <3>1, <3>2 DEF Poll, PollDropped, PollFailed
  <2> QED
    BY <2>1, <2>2, LessEffect DEF TypeOK
<1>10. ASSUME NEW s \in Surface, Close(s) PROVE Effect
  <2>1. open' \subseteq open /\ UNCHANGED <<target, dead_clients>>
    BY <1>10 DEF Close
  <2>2. OnlyLess({})
    BY <1>10, CloseLess
  <2> QED
    BY <2>1, <2>2, LessEffect DEF TypeOK
<1>11. ASSUME NEW s \in Surface, ForceDetach(s) PROVE Effect
  <2>1. UNCHANGED <<open, target, dead_clients>>
    BY <1>11 DEF ForceDetach
  <2>2. OnlyLess({})
    BY <1>11, ForceDetachLess
  <2> QED
    BY <2>1, <2>2, LessEffect DEF TypeOK
<1>12. CASE UNCHANGED vars
  BY <1>2, <1>12 DEF vars
<1> QED
  BY <1>1, <1>3, <1>4, <1>5, <1>6, <1>7, <1>8, <1>9, <1>10, <1>11, <1>12 DEF Next, Apply

-----------------------------------------------------------------------------
(* The rest of the types.                                                  *)

RestTyped ==
    /\ conn \in [Conn -> {"new", "open", "unregistered", "closed"}]
    /\ DOMAIN target = {c \in Conn : conn[c] # "new"}
    /\ target \in [DOMAIN target -> Wanted]
    /\ told \in [Conn -> Answer]
    /\ inbound \subseteq Message
    /\ batch \subseteq Message
    /\ DOMAIN pending \subseteq Conn
    /\ pending \in [DOMAIN pending -> [cancelled : BOOLEAN, members : SUBSET Surface]]
    /\ open \subseteq Surface
    /\ before \in [Conn -> SUBSET Conn]
    /\ taken_back \subseteq Conn

LEMMA MessagesAreMessages ==
    ASSUME NEW c \in Conn
    PROVE  Ask(c) \in Message /\ Input(c) \in Message /\ Disconnected(c) \in Message
  BY DEF Ask, Input, Disconnected, Message

LEMMA TellTyped ==
    ASSUME TypeOK, NEW c \in Conn, NEW h \in Conn \cup {Nobody},
           NEW e \in {"attached", "already_attached", "refused", "force_detached"}, Tell(c, e, h)
    PROVE  told' \in [Conn -> Answer]
<1>1. [event |-> e, holder |-> h] \in Answer
  BY DEF Answer
<1> QED
  BY <1>1 DEF TypeOK, Tell

LEMMA HoldersAreClients == TypeOK => Holders \subseteq Conn
  BY DEF TypeOK, Holders, Lock

LEMMA InTheWayAreHolders ==
    ASSUME NEW c, NEW x PROVE InTheWay(c, x) \subseteq Holders
  BY DEF InTheWay, Holders

LEMMA RefusedTyped ==
    ASSUME TypeOK, NEW c \in Conn, NEW x, Refused(c, x)
    PROVE  told' \in [Conn -> Answer]
<1>1. PICK h \in InTheWay(c, x) \ dead_clients : Tell(c, "already_attached", h)
  BY DEF Refused
<1>2. h \in Conn \cup {Nobody}
  BY HoldersAreClients, InTheWayAreHolders
<1> QED
  BY <1>1, <1>2, TellTyped

LEMMA RestSame == ASSUME TypeOK, UNCHANGED vars PROVE RestTyped'
  BY DEF TypeOK, RestTyped, vars, history

LEMMA RestStep ==
    ASSUME TypeOK, [Next]_vars
    PROVE  RestTyped'
<1> DEFINE P == [cancelled : BOOLEAN, members : SUBSET Surface]
<1>0. /\ RestTyped /\ Nobody \in Conn \cup {Nobody}
      /\ \A m \in SUBSET Surface : [cancelled |-> FALSE, members |-> m] \in P
      /\ \A r \in P : [r EXCEPT !.cancelled = TRUE] \in P
  BY DEF TypeOK, RestTyped
<1>1. ASSUME NEW c \in Conn, NEW x \in Wanted, Open(c, x) PROVE RestTyped'
  <2>1. conn' = [conn EXCEPT ![c] = "open"] /\ conn[c] = "new"
    BY <1>1 DEF Open
  <2>2. target' \in [DOMAIN target' -> Wanted] /\ DOMAIN target' = DOMAIN target \cup {c}
    BY <1>0, <1>1 DEF Open, With, RestTyped
  <2>3. DOMAIN target' = {d \in Conn : conn'[d] # "new"}
    BY <1>0, <2>1, <2>2 DEF RestTyped
  <2>4. before' \in [Conn -> SUBSET Conn]
    BY <1>0, <1>1 DEF Open, RestTyped
  <2> QED
    BY <1>0, <1>1, <2>1, <2>2, <2>3, <2>4, MessagesAreMessages DEF Open, RestTyped
<1>2. ASSUME NEW c \in Conn, Send(c) PROVE RestTyped'
  BY <1>0, <1>2, MessagesAreMessages DEF Send, RestTyped, history
<1>3. ASSUME NEW c \in Conn, End(c) PROVE RestTyped'
  BY <1>0, <1>3 DEF End, RestTyped, history
<1>4. ASSUME NEW c \in Conn, HangUp(c) PROVE RestTyped'
  BY <1>0, <1>4, MessagesAreMessages DEF HangUp, RestTyped, history
<1>5. ASSUME Pump PROVE RestTyped'
  BY <1>0, <1>5 DEF Pump, Take, RestTyped, history
<1>6. ASSUME NEW c \in Conn, BeginRejected(c) \/ BeginUnregistered(c) PROVE RestTyped'
  <2>1. told' \in [Conn -> Answer]
    BY <1>0, <1>6, TellTyped DEF BeginRejected, BeginUnregistered
  <2> QED
    BY <1>0, <1>6, <2>1 DEF BeginRejected, BeginUnregistered, Requested, RestTyped, history
<1>7. ASSUME NEW c \in Conn, BeginUnbound(c) PROVE RestTyped'
  BY <1>0, <1>7 DEF BeginUnbound, Requested, RestTyped, history
<1>8. ASSUME NEW c \in Conn, BeginMesh(c) PROVE RestTyped'
  <2>1. told' \in [Conn -> Answer]
    BY <1>0, <1>8, TellTyped, RefusedTyped DEF BeginMesh
  <2> QED
    BY <1>0, <1>8, <2>1 DEF BeginMesh, Requested, RestTyped, history
<1>9. ASSUME NEW c \in Conn, Begin(c) PROVE RestTyped'
  <2>1. told' \in [Conn -> Answer]
    BY <1>0, <1>9, RefusedTyped DEF Begin, RestTyped
  <2>2. DOMAIN pending' \subseteq Conn /\ pending' \in [DOMAIN pending' -> P]
    <3>1. CASE pending' = pending
      BY <1>0, <3>1 DEF RestTyped
    <3>2. CASE \E m \in SUBSET Surface :
                 pending' = With(pending, c, [cancelled |-> FALSE, members |-> m])
      BY <1>0, <3>2 DEF RestTyped, With
    <3>3. (IF target[c] \in Workspace THEN MembersOf(target[c]) ELSE {target[c]}) \in SUBSET Surface
      BY <1>0, <1>9 DEF Begin, MayBegin, MembersOf, RestTyped
    <3> QED
      BY <1>9, <3>1, <3>2, <3>3 DEF Begin
  <2> QED
    BY <1>0, <1>9, <2>1, <2>2 DEF Begin, Requested, RestTyped, history
<1>10. ASSUME NEW c \in Conn, FeedPending(c) PROVE RestTyped'
  <2>1. told' \in [Conn -> Answer]
    BY <1>0, <1>10, TellTyped DEF FeedPending
  <2>2. DOMAIN pending' \subseteq Conn /\ pending' \in [DOMAIN pending' -> P]
    BY <1>0, <1>10 DEF FeedPending, RestTyped
  <2> QED
    BY <1>0, <1>10, <2>1, <2>2 DEF FeedPending, Applied, RestTyped, history
<1>11. ASSUME NEW c \in Conn, Feed(c) PROVE RestTyped'
  BY <1>0, <1>11 DEF Feed, Applied, RestTyped, history
<1>12. ASSUME Cleanup PROVE RestTyped'
  BY <1>0, <1>12 DEF Cleanup, RestTyped, history
<1>13. ASSUME NEW c \in Conn, Poll(c) PROVE RestTyped'
  <2>1. told' \in [Conn -> Answer]
    BY <1>0, <1>13, TellTyped DEF Poll, PollDropped, PollFailed, PollReady, RestTyped
  <2>2. Polled(c)
    BY <1>13 DEF Poll, PollDropped, PollFailed, PollReady
  <2>3. DOMAIN pending' \subseteq Conn /\ pending' \in [DOMAIN pending' -> P]
    BY <1>0, <2>2 DEF Polled, RestTyped, WithoutAll
  <2> QED
    BY <1>0, <2>1, <2>2, <2>3 DEF Polled, RestTyped, history
<1>14. ASSUME NEW s \in Surface, Close(s) PROVE RestTyped'
  BY <1>0, <1>14 DEF Close, RestTyped, history
<1>15. ASSUME NEW s \in Surface, ForceDetach(s) PROVE RestTyped'
  <2>1. PICK h \in Conn : Tell(h, "force_detached", Nobody) /\ taken_back' = taken_back \cup {h}
    BY <1>15 DEF ForceDetach
  <2>2. told' \in [Conn -> Answer]
    BY <1>0, <2>1, TellTyped
  <2> QED
    BY <1>0, <1>15, <2>1, <2>2 DEF ForceDetach, RestTyped
<1> QED
  BY <1>1, <1>2, <1>3, <1>4, <1>5, <1>6, <1>7, <1>8, <1>9, <1>10, <1>11, <1>12, <1>13, <1>14,
     <1>15, RestSame DEF Next, Apply

-----------------------------------------------------------------------------
(* The invariant.                                                          *)

\* Nobody is told anything before it is there.
NewKnowNothing == \A c \in Conn : conn[c] = "new" => told[c] = Nothing

NewAskNothing == \A c \in Conn : conn[c] = "new" => Ask(c) \notin inbound \cup batch

\* The end of a connection is announced by a closed connection only.
EndsAreEnds == \A c \in Conn : Disconnected(c) \in inbound \cup batch => conn[c] = "closed"

\* What had ended before a client asked is taken with its request at the latest.
TakenTogether ==
    \A c \in Conn : \A d \in before[c] :
        conn[d] = "closed" /\ (Ask(c) \in batch => Disconnected(d) \notin inbound)

\* Every end that is being applied is known to a request it is in the way of.
EndsAreMarked == \A h \in Holders : Disconnected(h) \in batch => h \in dead_clients

IInv ==
    /\ TypeOK
    /\ WorkspaceWhole
    /\ NewKnowNothing
    /\ NewAskNothing
    /\ EndsAreEnds
    /\ TakenTogether
    /\ EndsAreMarked
    /\ NoLockOutlivesItsClient
    /\ RefusedByTheLiving

LEMMA MessagesDiffer ==
    ASSUME NEW c, NEW d
    PROVE  /\ Ask(c) # Disconnected(d) /\ Input(c) # Disconnected(d) /\ Ask(c) # Input(d)
           /\ Disconnected(c) = Disconnected(d) => c = d
           /\ Ask(c) = Ask(d) => c = d
  BY DEF Ask, Input, Disconnected

LEMMA InitIInv == Init => IInv
<1> SUFFICES ASSUME Init PROVE IInv
  OBVIOUS
<1>1. DOMAIN NoEntry = {} /\ \A S : NoEntry \in [DOMAIN NoEntry -> S]
  BY DEF NoEntry
<1>2. Nothing \in Answer
  BY DEF Nothing, Answer
<1>3. TypeOK
  BY <1>1, <1>2 DEF Init, TypeOK
<1>4. WorkspaceWhole
  BY <1>1 DEF Init, WorkspaceWhole
<1>5. Holders = {}
  BY <1>1 DEF Init, Holders
<1>6. NewKnowNothing /\ NewAskNothing /\ EndsAreEnds /\ TakenTogether
  BY DEF Init, NewKnowNothing, NewAskNothing, EndsAreEnds, TakenTogether
<1>7. EndsAreMarked /\ NoLockOutlivesItsClient
  BY <1>5 DEF EndsAreMarked, NoLockOutlivesItsClient
<1>8. RefusedByTheLiving
  BY DEF Init, RefusedByTheLiving, Nothing
<1> QED
  BY <1>3, <1>4, <1>6, <1>7, <1>8 DEF IInv

\* What a step does to connections and messages.
Moves ==
    \/ \E c \in Conn : /\ conn[c] = "new" /\ conn' = [conn EXCEPT ![c] = "open"]
                       /\ inbound' = inbound \cup {Ask(c)} /\ batch' = batch
                       /\ before' = [before EXCEPT ![c] = {d \in Conn : conn[d] = "closed"}]
    \/ \E c \in Conn : /\ conn' = conn /\ inbound' = inbound \cup {Input(c)}
                       /\ batch' = batch /\ before' = before
    \/ \E c \in Conn : /\ conn[c] = "open" /\ conn' = [conn EXCEPT ![c] = "unregistered"]
                       /\ inbound' = inbound /\ batch' = batch /\ before' = before
    \/ \E c \in Conn : /\ conn[c] = "unregistered" /\ conn' = [conn EXCEPT ![c] = "closed"]
                       /\ inbound' = inbound \cup {Disconnected(c)}
                       /\ batch' = batch /\ before' = before
    \/ /\ conn' = conn /\ inbound' = {} /\ batch' = inbound /\ before' = before
       /\ batch = {} /\ dead_clients' = dead_clients \cup ClientsOf(inbound, "disconnected")
    \/ /\ conn' = conn /\ inbound' = inbound /\ batch' \subseteq batch /\ before' = before
       /\ \A d \in Conn : Disconnected(d) \in batch => Disconnected(d) \in batch'
    \/ Cleanup

LEMMA EveryStepMoves == TypeOK /\ [Next]_vars => Moves
<1> SUFFICES ASSUME TypeOK, [Next]_vars PROVE Moves
  OBVIOUS
<1>1. ASSUME NEW c \in Conn, NEW x \in Wanted, Open(c, x) PROVE Moves
  BY <1>1 DEF Open, Moves
<1>2. ASSUME NEW c \in Conn, Send(c) \/ End(c) \/ HangUp(c) PROVE Moves
  BY <1>2 DEF Send, End, HangUp, Moves, history
<1>3. ASSUME Pump PROVE Moves
  BY <1>3 DEF Pump, Take, Moves, history
<1>4. ASSUME NEW c \in Conn, Requested(c) PROVE Moves
  <2>1. batch' = batch \ {Ask(c)} /\ UNCHANGED <<conn, inbound, before>>
    BY <1>4 DEF Requested, history
  <2> QED
    BY <2>1, MessagesDiffer DEF Moves
<1>5. ASSUME NEW c \in Conn, Applied(c) PROVE Moves
  <2>1. batch' = batch \ {Input(c)} /\ UNCHANGED <<conn, inbound, before>>
    BY <1>5 DEF Applied, history
  <2> QED
    BY <2>1, MessagesDiffer DEF Moves
<1>6. ASSUME UNCHANGED <<conn, inbound, batch, before>> PROVE Moves
  BY <1>6 DEF Moves
<1>7. ASSUME Apply PROVE Moves
  <2>1. \/ \E c \in Conn : Requested(c) \/ Applied(c)
        \/ Cleanup
    BY <1>7 DEF Apply, BeginRejected, BeginUnbound, BeginUnregistered, BeginMesh, Begin, FeedPending, Feed
  <2> QED
    BY <1>4, <1>5, <2>1 DEF Moves
<1>8. ASSUME NEW c \in Conn, Poll(c) PROVE Moves
  BY <1>6, <1>8 DEF Poll, PollDropped, PollFailed, PollReady, Polled, history
<1>9. ASSUME NEW s \in Surface, Close(s) \/ ForceDetach(s) PROVE Moves
  BY <1>6, <1>9 DEF Close, ForceDetach, history
<1>10. CASE UNCHANGED vars
  BY <1>6, <1>10 DEF vars, history
<1> QED
  BY <1>1, <1>2, <1>3, <1>7, <1>8, <1>9, <1>10 DEF Next

LEMMA TypeStep == IInv /\ [Next]_vars => TypeOK' /\ WorkspaceWhole'
<1> SUFFICES ASSUME IInv, [Next]_vars PROVE TypeOK' /\ WorkspaceWhole'
  OBVIOUS
<1>1. Effect
  BY EveryStep DEF IInv
<1>2. RestTyped'
  BY RestStep DEF IInv
<1> QED
  BY <1>1, <1>2 DEF Effect, RestTyped, LocksTyped, TypeOK

LEMMA MessagesStep ==
    IInv /\ [Next]_vars => NewAskNothing' /\ EndsAreEnds' /\ TakenTogether'
<1> SUFFICES ASSUME IInv, [Next]_vars PROVE NewAskNothing' /\ EndsAreEnds' /\ TakenTogether'
  OBVIOUS
<1>1. Moves
  BY EveryStepMoves DEF IInv
<1>2. /\ TypeOK /\ NewAskNothing /\ EndsAreEnds /\ TakenTogether
      /\ conn \in [Conn -> {"new", "open", "unregistered", "closed"}]
      /\ before \in [Conn -> SUBSET Conn]
  BY DEF IInv, TypeOK
<1>3. CASE \E c \in Conn : /\ conn[c] = "new" /\ conn' = [conn EXCEPT ![c] = "open"]
                          /\ inbound' = inbound \cup {Ask(c)} /\ batch' = batch
                          /\ before' = [before EXCEPT ![c] = {d \in Conn : conn[d] = "closed"}]
  <2>1. PICK c \in Conn : /\ conn[c] = "new" /\ conn' = [conn EXCEPT ![c] = "open"]
                          /\ inbound' = inbound \cup {Ask(c)} /\ batch' = batch
                          /\ before' = [before EXCEPT ![c] = {d \in Conn : conn[d] = "closed"}]
    BY <1>3
  <2>2. NewAskNothing' /\ EndsAreEnds'
    BY <1>2, <2>1, MessagesDiffer DEF NewAskNothing, EndsAreEnds
  <2>3. Ask(c) \notin batch
    BY <1>2, <2>1 DEF NewAskNothing
  <2>4. ASSUME NEW b \in Conn, NEW d \in before'[b]
        PROVE  conn'[d] = "closed" /\ (Ask(b) \in batch' => Disconnected(d) \notin inbound')
    <3>1. CASE b # c
      BY <1>2, <2>1, <2>4, <3>1, MessagesDiffer DEF TakenTogether
    <3>2. CASE b = c
      <4>1. conn[d] = "closed" /\ d \in Conn
        BY <1>2, <2>1, <2>4, <3>2
      <4> QED
        BY <2>1, <2>3, <3>2, <4>1
    <3> QED
      BY <3>1, <3>2
  <2> QED
    BY <2>2, <2>4 DEF TakenTogether
<1>4. CASE \E c \in Conn : /\ conn' = conn /\ inbound' = inbound \cup {Input(c)}
                          /\ batch' = batch /\ before' = before
  BY <1>2, <1>4, MessagesDiffer DEF NewAskNothing, EndsAreEnds, TakenTogether
<1>5. CASE \E c \in Conn : /\ conn[c] = "open" /\ conn' = [conn EXCEPT ![c] = "unregistered"]
                          /\ inbound' = inbound /\ batch' = batch /\ before' = before
  BY <1>2, <1>5 DEF NewAskNothing, EndsAreEnds, TakenTogether
<1>6. CASE \E c \in Conn : /\ conn[c] = "unregistered" /\ conn' = [conn EXCEPT ![c] = "closed"]
                          /\ inbound' = inbound \cup {Disconnected(c)}
                          /\ batch' = batch /\ before' = before
  BY <1>2, <1>6, MessagesDiffer DEF NewAskNothing, EndsAreEnds, TakenTogether
<1>7. CASE /\ conn' = conn /\ inbound' = {} /\ batch' = inbound /\ before' = before
  BY <1>2, <1>7 DEF NewAskNothing, EndsAreEnds, TakenTogether
<1>8. CASE /\ conn' = conn /\ inbound' = inbound /\ batch' \subseteq batch /\ before' = before
  BY <1>2, <1>8 DEF NewAskNothing, EndsAreEnds, TakenTogether
<1>9. CASE Cleanup
  BY <1>2, <1>9 DEF Cleanup, NewAskNothing, EndsAreEnds, TakenTogether, history
<1> QED
  BY <1>1, <1>3, <1>4, <1>5, <1>6, <1>7, <1>8, <1>9 DEF Moves

LEMMA EndedClients ==
    ASSUME NEW c, NEW M, Disconnected(c) \in M PROVE c \in ClientsOf(M, "disconnected")
  BY DEF ClientsOf, Disconnected

LEMMA MarkedStep == IInv /\ [Next]_vars => EndsAreMarked'
<1> SUFFICES ASSUME IInv, [Next]_vars, NEW h \in Holders', Disconnected(h) \in batch'
             PROVE  h \in dead_clients'
  BY DEF EndsAreMarked
<1>1. Effect /\ Moves
  BY EveryStep, EveryStepMoves DEF IInv
<1>2. HolderOf(h)
  BY <1>1 DEF Effect
<1>3. CASE h \in Holders /\ (h \in dead_clients => h \in dead_clients')
  <2>1. CASE Disconnected(h) \in batch
    BY <1>3, <2>1 DEF IInv, EndsAreMarked
  <2>2. CASE batch' = inbound /\ dead_clients' = dead_clients \cup ClientsOf(inbound, "disconnected")
    BY <2>2, EndedClients
  <2>3. batch' \subseteq batch \/ (/\ batch' = inbound
                                 /\ dead_clients' = dead_clients \cup ClientsOf(inbound, "disconnected"))
    BY <1>1 DEF Moves, Cleanup
  <2> QED
    BY <2>1, <2>2, <2>3
<1>4. CASE h \in Conn /\ conn[h] = "open" /\ batch' \subseteq batch
  BY <1>4 DEF IInv, EndsAreEnds
<1> QED
  BY <1>2, <1>3, <1>4 DEF HolderOf

LEMMA CleanedUp ==
    ASSUME TypeOK, WorkspaceWhole, Cleanup, NEW h \in Holders' PROVE Disconnected(h) \notin batch
<1>1. ClientsOf(batch, "disconnected") \in SUBSET Conn
  BY ClientsAreClients
<1>2. OnlyLess(ClientsOf(batch, "disconnected"))
  BY <1>1, ReleaseAllForLess DEF Cleanup
<1> QED
  BY <1>2, LessHolders, EndedClients

LEMMA OutlivesStep == IInv /\ [Next]_vars => NoLockOutlivesItsClient'
<1> SUFFICES ASSUME IInv, [Next]_vars, NEW h \in Holders', conn'[h] = "closed"
             PROVE  Disconnected(h) \in inbound' \cup batch'
  BY DEF NoLockOutlivesItsClient
<1>1. Effect /\ Moves
  BY EveryStep, EveryStepMoves DEF IInv
<1>2. h \in Holders
  BY <1>1 DEF Effect, HolderOf
<1>3. h \in Conn /\ conn \in [Conn -> {"new", "open", "unregistered", "closed"}]
  BY <1>2, HoldersAreClients DEF IInv, TypeOK
<1>4. conn[h] = "closed" => Disconnected(h) \in inbound \cup batch
  BY <1>2 DEF IInv, NoLockOutlivesItsClient
<1>5. CASE Cleanup
  BY <1>2, <1>4, <1>5, CleanedUp DEF Cleanup, IInv
<1>6. CASE ~Cleanup
  BY <1>1, <1>3, <1>4, <1>6 DEF Moves
<1> QED
  BY <1>5, <1>6

\* What a client is told, and by whom it is refused.
Hears(c) ==
    /\ conn[c] = "open" /\ conn' = conn /\ before' = before
    /\ \/ told'[c].event # "already_attached"
       \/ Ask(c) \in batch /\ told'[c].holder \in Holders \ dead_clients

LEMMA TellHears ==
    ASSUME TypeOK, NEW c \in Conn, NEW e, NEW h, Tell(c, e, h), UNCHANGED <<conn, before>>,
           \/ e # "already_attached"
           \/ Ask(c) \in batch /\ h \in Holders \ dead_clients
    PROVE  \A b \in Conn : told'[b] = told[b] \/ Hears(b)
<1>1. CASE conn[c] # "open"
  BY <1>1 DEF Tell
<1>2. CASE conn[c] = "open"
  <2>1. /\ told'[c] = [event |-> e, holder |-> h]
        /\ \A b \in Conn \ {c} : told'[b] = told[b]
    BY <1>2 DEF Tell, TypeOK
  <2>2. Hears(c)
    BY <1>2, <2>1 DEF Hears
  <2> QED
    BY <2>1, <2>2
<1> QED
  BY <1>1, <1>2

LEMMA EveryStepTells ==
    ASSUME TypeOK, [Next]_vars
    PROVE  \A b \in Conn : told'[b] = told[b] \/ Hears(b)
<1> DEFINE Told == \A b \in Conn : told'[b] = told[b] \/ Hears(b)
<1>1. ASSUME UNCHANGED told PROVE Told
  BY <1>1
<1>2. ASSUME NEW c \in Conn, Refused(c, target[c]), Ask(c) \in batch, UNCHANGED <<conn, before>>
      PROVE  Told
  <2>1. PICK h \in InTheWay(c, target[c]) \ dead_clients : Tell(c, "already_attached", h)
    BY <1>2 DEF Refused
  <2>2. h \in Holders \ dead_clients
    BY <2>1, InTheWayAreHolders
  <2> QED
    BY <1>2, <2>1, <2>2, TellHears
<1>3. ASSUME NEW c \in Conn,
             BeginRejected(c) \/ BeginUnbound(c) \/ BeginUnregistered(c) \/ BeginMesh(c) \/ Begin(c)
      PROVE  Told
  <2>1. Ask(c) \in batch /\ UNCHANGED <<conn, before>>
    BY <1>3 DEF BeginRejected, BeginUnbound, BeginUnregistered, BeginMesh, Begin, Requested, history
  <2>2. \/ UNCHANGED told
        \/ Tell(c, "refused", Nobody)
        \/ Tell(c, "attached", Nobody)
        \/ Refused(c, target[c])
    BY <1>3 DEF BeginRejected, BeginUnbound, BeginUnregistered, BeginMesh, Begin
  <2> QED
    BY <1>1, <1>2, <2>1, <2>2, TellHears
<1>4. ASSUME NEW c \in Conn, FeedPending(c) \/ Feed(c) \/ Poll(c) PROVE Told
  <2>1. UNCHANGED <<conn, before>>
    BY <1>4 DEF FeedPending, Feed, Applied, Poll, PollDropped, PollFailed, PollReady, Polled, history
  <2>2. \/ UNCHANGED told
        \/ Tell(c, "refused", Nobody)
        \/ Tell(c, "attached", Nobody)
    BY <1>4 DEF FeedPending, Feed, Poll, PollDropped, PollFailed, PollReady
  <2> QED
    BY <1>1, <2>1, <2>2, TellHears
<1>5. ASSUME NEW s \in Surface, ForceDetach(s) PROVE Told
  <2>1. PICK h \in Conn : Tell(h, "force_detached", Nobody)
    BY <1>5 DEF ForceDetach
  <2>2. UNCHANGED <<conn, before>>
    BY <1>5 DEF ForceDetach
  <2> QED
    BY <2>1, <2>2, TellHears
<1>6. ASSUME NEW s \in Surface, Close(s) PROVE Told
  BY <1>1, <1>6 DEF Close
<1>7. ASSUME Pump \/ Cleanup PROVE Told
  BY <1>1, <1>7 DEF Pump, Cleanup
<1>8. ASSUME NEW c \in Conn, Send(c) \/ End(c) \/ HangUp(c) PROVE Told
  BY <1>1, <1>8 DEF Send, End, HangUp
<1>9. ASSUME NEW c \in Conn, NEW x \in Wanted, Open(c, x) PROVE Told
  BY <1>1, <1>9 DEF Open
<1>10. CASE UNCHANGED vars
  BY <1>1, <1>10 DEF vars
<1> QED
  BY <1>3, <1>4, <1>5, <1>6, <1>7, <1>8, <1>9, <1>10 DEF Next, Apply

LEMMA ToldStep == IInv /\ [Next]_vars => NewKnowNothing' /\ RefusedByTheLiving'
<1> SUFFICES ASSUME IInv, [Next]_vars, NEW c \in Conn
             PROVE  /\ conn'[c] = "new" => told'[c] = Nothing
                    /\ told'[c].event = "already_attached" => told'[c].holder \notin before'[c]
  BY DEF NewKnowNothing, RefusedByTheLiving
<1>1. Moves /\ (told'[c] = told[c] \/ Hears(c))
  BY EveryStepMoves, EveryStepTells DEF IInv
<1>2. /\ conn \in [Conn -> {"new", "open", "unregistered", "closed"}]
      /\ before \in [Conn -> SUBSET Conn]
  BY DEF IInv, TypeOK
<1>3. /\ conn[c] = "new" => told[c] = Nothing
      /\ told[c].event = "already_attached" => told[c].holder \notin before[c]
  BY DEF IInv, NewKnowNothing, RefusedByTheLiving
<1>4. CASE told'[c] = told[c]
  <2>1. conn'[c] = "new" => conn[c] = "new"
    BY <1>1, <1>2 DEF Moves, Cleanup
  <2>2. before'[c] = before[c] \/ conn[c] = "new"
    BY <1>1, <1>2 DEF Moves, Cleanup, history
  <2>3. told[c] = Nothing => told[c].event # "already_attached"
    BY DEF Nothing
  <2> QED
    BY <1>3, <1>4, <2>1, <2>2, <2>3
<1>5. CASE Hears(c)
  <2>1. ASSUME Ask(c) \in batch, NEW h \in Holders, h \notin dead_clients
        PROVE  h \notin before[c]
    <3>1. SUFFICES ASSUME h \in before[c] PROVE FALSE
      OBVIOUS
    <3>2. conn[h] = "closed" /\ Disconnected(h) \notin inbound
      BY <2>1, <3>1 DEF IInv, TakenTogether
    <3>3. Disconnected(h) \in batch
      BY <3>2 DEF IInv, NoLockOutlivesItsClient
    <3> QED
      BY <2>1, <3>3 DEF IInv, EndsAreMarked
  <2> QED
    BY <1>5, <2>1 DEF Hears
<1> QED
  BY <1>1, <1>4, <1>5

LEMMA IInvStep == IInv /\ [Next]_vars => IInv'
  BY TypeStep, MessagesStep, MarkedStep, OutlivesStep, ToldStep DEF IInv

LEMMA SpecIInv == Spec => []IInv
  BY InitIInv, IInvStep, PTL DEF Spec

-----------------------------------------------------------------------------
(* The theorems.                                                           *)

\* Every reachable state is well typed; every lock has its holder's record.
THEOREM TypeCorrect == Spec => []TypeOK
<1>1. IInv => TypeOK
  BY DEF IInv
<1> QED
  BY <1>1, SpecIInv, PTL

\* acquire, acquire_workspace and the ways locks are given back keep two clients out
\* of one terminal: a terminal of a workspace that is held is locked by its holder.
THEOREM OneClient == Spec => []OneClientTypes
<1>1. IInv => OneClientTypes
  <2> SUFFICES ASSUME IInv, NEW c \in Conn, NEW t \in Reaches(c)
               PROVE  surface_locks[t].holder = c
    BY DEF OneClientTypes
  <2>1. CASE HeldWorkspaces({c}) = {}
    BY <2>1 DEF Reaches
  <2>2. CASE HeldWorkspaces({c}) # {}
    <3>1. PICK w \in HeldWorkspaces({c}) : t \in Members[w] \cap Terminal \cap open
      BY <2>2 DEF Reaches
    <3>2. w \in DOMAIN workspace_locks /\ workspace_locks[w].holder = c
      BY DEF HeldWorkspaces
    <3> QED
      BY <3>1, <3>2 DEF IInv, WorkspaceWhole, TerminalsOf, MembersOf
  <2> QED
    BY <2>1, <2>2
<1> QED
  BY <1>1, SpecIInv, PTL

\* Every lock of a connection that is closed has the end of that connection still to
\* be applied, whatever the connection asked for and however far that got.
THEOREM LocksGo == Spec => []NoLockOutlivesItsClient
<1>1. IInv => NoLockOutlivesItsClient
  BY DEF IInv
<1> QED
  BY <1>1, SpecIInv, PTL

\* A client that reconnects is not refused in favour of a connection that had ended.
THEOREM LivingRefuse == Spec => []RefusedByTheLiving
<1>1. IInv => RefusedByTheLiving
  BY DEF IInv
<1> QED
  BY <1>1, SpecIInv, PTL

-----------------------------------------------------------------------------
(* What was attached stays held.                                           *)

Mine(c) == [holder |-> c, ready |-> TRUE]

\* c holds what it asked for, and all of it is ready.
Holds(c) ==
    /\ target[c] \in Workspace =>
         target[c] \in DOMAIN workspace_locks /\ workspace_locks[target[c]] = Mine(c)
    /\ \A t \in Leaves(target[c]) \cap Terminal \cap open :
         t \in DOMAIN surface_locks /\ surface_locks[t] = Mine(c)

\* The end of c has not been applied, and nobody has taken its mark.
Unfinished(c) ==
    \/ conn[c] \in {"open", "unregistered"}
    \/ Disconnected(c) \in inbound
    \/ c \in dead_clients

\* What the loop has taken is not inbound any more.
TakenOut ==
    \A c \in Conn : {Ask(c), Disconnected(c)} \cap inbound \cap batch = {}

\* The marked are those whose end is in the batch.
MarkedHaveEnded == \A c \in dead_clients : Disconnected(c) \in batch

\* A client asks once, waits once, and is told once that it attached.
AskedOnce ==
    \A c \in Conn :
        /\ Ask(c) \in inbound \cup batch => c \notin DOMAIN pending /\ told[c].event # "attached"
        /\ c \in DOMAIN pending => conn[c] # "new" /\ told[c].event # "attached"

HeldStill ==
    \A c \in Conn \ taken_back : told[c].event = "attached" /\ Unfinished(c) => Holds(c)

HInv ==
    /\ IInv
    /\ TakenOut
    /\ MarkedHaveEnded
    /\ AskedOnce
    /\ HeldStill

\* The ready locks of c stay, those of closed surfaces aside.
KeepsMine(c) ==
    /\ \A s \in DOMAIN surface_locks \cap Terminal \cap open' : surface_locks[s] = Mine(c) =>
          s \in DOMAIN surface_locks' /\ surface_locks'[s] = Mine(c)
    /\ \A w \in DOMAIN workspace_locks : workspace_locks[w] = Mine(c) =>
          w \in DOMAIN workspace_locks' /\ workspace_locks'[w] = Mine(c)

LEMMA MineIs == ASSUME NEW c PROVE Mine(c).holder = c /\ Mine(c).ready = TRUE
  BY DEF Mine

LEMMA MadeReady ==
    ASSUME NEW c, NEW lock \in Lock, lock.holder = c
    PROVE  [lock EXCEPT !.ready = TRUE] = Mine(c)
<1>1. DOMAIN lock = {"holder", "ready"}
  BY DEF Lock
<1>2. lock = [holder |-> c, ready |-> lock.ready]
  BY DEF Lock
<1>3. DOMAIN Mine(c) = {"holder", "ready"} /\ Mine(c).holder = c /\ Mine(c).ready = TRUE
  BY DEF Mine
<1> QED
  BY <1>1, <1>2, <1>3 DEF Mine

LEMMA KeepsHolds ==
    ASSUME NEW c, Holds(c), KeepsMine(c), open' \subseteq open, target'[c] = target[c]
    PROVE  Holds(c)'
<1>1. ASSUME NEW t \in Leaves(target[c])' \cap Terminal \cap open'
      PROVE  t \in DOMAIN surface_locks' /\ surface_locks'[t] = Mine(c)
  <2>1. t \in Leaves(target[c]) \cap Terminal \cap open
    BY DEF Leaves, TerminalsOf, MembersOf
  <2> QED
    BY <2>1 DEF Holds, KeepsMine
<1>2. target[c] \in Workspace =>
        target[c] \in DOMAIN workspace_locks' /\ workspace_locks'[target[c]] = Mine(c)
  BY DEF Holds, KeepsMine
<1>3. Mine(c)' = Mine(c)
  BY DEF Mine
<1> QED
  BY <1>1, <1>2, <1>3 DEF Holds

\* A terminal that c has locked is not of a workspace that somebody else holds.
LEMMA NotOfOthers ==
    ASSUME WorkspaceWhole, NEW c, NEW t \in DOMAIN surface_locks \cap Terminal \cap open,
           surface_locks[t] = Mine(c), NEW w \in DOMAIN workspace_locks, t \in Members[w]
    PROVE  workspace_locks[w].holder = c
<1>1. t \in TerminalsOf(w)
  BY DEF TerminalsOf, MembersOf
<1>2. surface_locks[t].holder = workspace_locks[w].holder
  BY <1>1 DEF WorkspaceWhole
<1>3. surface_locks[t].holder = c
  BY MineIs
<1> QED
  BY <1>2, <1>3

LEMMA NotGoing ==
    ASSUME WorkspaceWhole, NEW C, NEW c, c \notin C,
           NEW t \in DOMAIN surface_locks \cap Terminal \cap open, surface_locks[t] = Mine(c)
    PROVE  t \notin GoesWith(C)
<1>1. surface_locks[t].holder = c
  BY MineIs
<1>2. \A w \in HeldWorkspaces(C) : t \notin Members[w]
  BY NotOfOthers DEF HeldWorkspaces
<1> QED
  BY <1>1, <1>2 DEF GoesWith

LEMMA ReleaseAllForKeeps ==
    ASSUME WorkspaceWhole, NEW C, NEW c, c \notin C, ReleaseAllFor(C), UNCHANGED open
    PROVE  KeepsMine(c)
<1>1. ASSUME NEW s \in DOMAIN surface_locks \cap Terminal \cap open, surface_locks[s] = Mine(c)
      PROVE  s \in DOMAIN surface_locks' /\ surface_locks'[s] = Mine(c)
  <2>1. s \notin GoesWith(C)
    BY <1>1, NotGoing
  <2> QED
    BY <1>1, <2>1 DEF ReleaseAllFor, WithoutAll
<1>2. ASSUME NEW w \in DOMAIN workspace_locks, workspace_locks[w] = Mine(c)
      PROVE  w \in DOMAIN workspace_locks' /\ workspace_locks'[w] = Mine(c)
  <2>1. w \notin HeldWorkspaces(C)
    BY <1>2, MineIs DEF HeldWorkspaces
  <2> QED
    BY <1>2, <2>1 DEF ReleaseAllFor, WithoutAll
<1> QED
  BY <1>1, <1>2 DEF KeepsMine

LEMMA GrantedKeeps ==
    ASSUME WorkspaceWhole, NEW c, NEW d, NEW x, NEW ready, c # d, c \notin InTheWay(d, x),
           Granted(d, x, ready), UNCHANGED open
    PROVE  KeepsMine(c)
<1> DEFINE evicted == InTheWay(d, x)
           lock == [holder |-> d, ready |-> ready]
           s == WithoutAll(surface_locks, GoesWith(evicted))
           w == WithoutAll(workspace_locks, HeldWorkspaces(evicted))
<1>1. /\ surface_locks' = [y \in DOMAIN s \cup Leaves(x) |-> IF y \in DOMAIN s THEN s[y] ELSE lock]
      /\ workspace_locks' = IF x \in Workspace THEN With(w, x, lock) ELSE w
  BY DEF Granted
<1>2. ASSUME NEW y \in DOMAIN surface_locks \cap Terminal \cap open, surface_locks[y] = Mine(c)
      PROVE  y \in DOMAIN surface_locks' /\ surface_locks'[y] = Mine(c)
  <2>1. y \notin GoesWith(evicted)
    BY <1>2, NotGoing
  <2>2. y \in DOMAIN s /\ s[y] = Mine(c)
    BY <1>2, <2>1 DEF WithoutAll
  <2> HIDE DEF s
  <2> QED
    BY <1>1, <2>2
<1>3. ASSUME NEW v \in DOMAIN workspace_locks, workspace_locks[v] = Mine(c)
      PROVE  v \in DOMAIN workspace_locks' /\ workspace_locks'[v] = Mine(c)
  <2>1. v \notin HeldWorkspaces(evicted)
    BY <1>3, MineIs DEF HeldWorkspaces
  <2>2. v \in DOMAIN w /\ w[v] = Mine(c)
    BY <1>3, <2>1 DEF WithoutAll
  <2>3. x \in Workspace => v # x
    BY <1>3, MineIs DEF InTheWay
  <2> HIDE DEF w
  <2> QED
    BY <1>1, <2>2, <2>3 DEF With
<1> QED
  BY <1>2, <1>3 DEF KeepsMine

LEMMA LeaseKeeps ==
    ASSUME TypeOK, WorkspaceWhole, NEW c, NEW d \in Conn, c # d, ReleaseLease(d), UNCHANGED open
    PROVE  KeepsMine(c)
<1> DEFINE x == target[d]
<1>1. CASE ~LeaseIsCurrent(d)
  BY <1>1 DEF ReleaseLease, KeepsMine
<1>2. CASE LeaseIsCurrent(d)
  <2>1. /\ surface_locks' = WithoutAll(surface_locks, IF x \in Workspace THEN Members[x] ELSE {x})
        /\ workspace_locks' = WithoutAll(workspace_locks, {x})
    BY <1>2 DEF ReleaseLease
  <2>2. ASSUME NEW s \in DOMAIN surface_locks \cap Terminal \cap open, surface_locks[s] = Mine(c)
        PROVE  s \notin IF x \in Workspace THEN Members[x] ELSE {x}
    <3>1. surface_locks[s].holder = c
      BY <2>2, MineIs
    <3>2. x \in Workspace => s \notin Members[x]
      BY <1>2, <2>2, NotOfOthers DEF LeaseIsCurrent
    <3> QED
      BY <1>2, <3>1, <3>2 DEF LeaseIsCurrent
  <2>3. ASSUME NEW w \in DOMAIN workspace_locks, workspace_locks[w] = Mine(c) PROVE w # x
    <3>1. workspace_locks[w].holder = c
      BY <2>3, MineIs
    <3> QED
      BY <1>2, <3>1 DEF LeaseIsCurrent, TypeOK
  <2> QED
    BY <2>1, <2>2, <2>3 DEF KeepsMine, WithoutAll
<1> QED
  BY <1>1, <1>2

LEMMA ReadyKeeps ==
    ASSUME NEW c, NEW d,
           surface_locks' = Ready(surface_locks, d), workspace_locks' = Ready(workspace_locks, d)
    PROVE  KeepsMine(c)
<1>1. DOMAIN Mine(c) = {"holder", "ready"} /\ Mine(c).ready = TRUE
  BY DEF Mine
<1>2. [Mine(c) EXCEPT !.ready = TRUE] = Mine(c)
  BY <1>1 DEF Mine
<1> QED
  BY <1>2 DEF Ready, KeepsMine

LEMMA CloseKeeps == ASSUME NEW c, NEW s, Close(s) PROVE KeepsMine(c)
  BY DEF Close, KeepsMine, WithoutAll

LEMMA ForceDetachKeeps ==
    ASSUME WorkspaceWhole, NEW c, NEW s, ForceDetach(s), c \notin taken_back'
    PROVE  KeepsMine(c)
<1>1. UNCHANGED open
  BY DEF ForceDetach
<1>2. ASSUME NEW w \in DOMAIN workspace_locks, c # workspace_locks[w].holder,
             workspace_locks' = WithoutAll(workspace_locks, {w}),
             surface_locks' = WithoutAll(surface_locks, Members[w])
      PROVE  KeepsMine(c)
  <2>1. ASSUME NEW t \in DOMAIN surface_locks \cap Terminal \cap open, surface_locks[t] = Mine(c)
        PROVE  t \notin Members[w]
    BY <1>2, <2>1, NotOfOthers
  <2>2. workspace_locks[w] # Mine(c)
    BY <1>2, MineIs
  <2> QED
    BY <1>1, <1>2, <2>1, <2>2 DEF KeepsMine, WithoutAll
<1>3. ASSUME s \in DOMAIN surface_locks, c # surface_locks[s].holder,
             surface_locks' = WithoutAll(surface_locks, {s}), UNCHANGED workspace_locks
      PROVE  KeepsMine(c)
  <2>1. surface_locks[s] # Mine(c)
    BY <1>3, MineIs
  <2> QED
    BY <1>3, <2>1 DEF KeepsMine, WithoutAll
<1> QED
  BY <1>2, <1>3 DEF ForceDetach

-----------------------------------------------------------------------------
(* What a step does besides.                                               *)

\* A client keeps its target, a closed surface stays closed, and what the user took
\* back is remembered.
LEMMA EveryStepStays ==
    ASSUME TypeOK, [Next]_vars
    PROVE  /\ \A h \in DOMAIN target : h \in DOMAIN target' /\ target'[h] = target[h]
           /\ open' \subseteq open
           /\ taken_back \subseteq taken_back'
<1> DEFINE Stays == /\ \A h \in DOMAIN target : h \in DOMAIN target' /\ target'[h] = target[h]
                    /\ open' \subseteq open
                    /\ taken_back \subseteq taken_back'
<1>1. ASSUME NEW c \in Conn, NEW x \in Wanted, Open(c, x) PROVE Stays
  <2>1. c \notin DOMAIN target
    BY <1>1 DEF TypeOK, Open
  <2> QED
    BY <1>1, <2>1 DEF Open, With
<1>2. ASSUME UNCHANGED <<target, open, taken_back>> PROVE Stays
  BY <1>2
<1>3. ASSUME NEW c \in Conn, Send(c) \/ End(c) \/ HangUp(c) PROVE Stays
  BY <1>2, <1>3 DEF Send, End, HangUp, history
<1>4. ASSUME Pump \/ Cleanup PROVE Stays
  BY <1>2, <1>4 DEF Pump, Cleanup, history
<1>5. ASSUME NEW c \in Conn, Requested(c) \/ Applied(c) \/ Polled(c) PROVE Stays
  BY <1>2, <1>5 DEF Requested, Applied, Polled, history
<1>6. ASSUME NEW s \in Surface, Close(s) PROVE Stays
  BY <1>6 DEF Close, history
<1>7. ASSUME NEW s \in Surface, ForceDetach(s) PROVE Stays
  BY <1>7 DEF ForceDetach
<1>8. CASE UNCHANGED vars
  BY <1>2, <1>8 DEF vars, history
<1> QED
  BY <1>1, <1>3, <1>4, <1>5, <1>6, <1>7, <1>8 DEF Next, Apply, Poll, BeginRejected, BeginUnbound,
     BeginUnregistered, BeginMesh, Begin, FeedPending, Feed, PollDropped, PollFailed, PollReady

\* Marks are set when messages are taken, and only there.
LEMMA EveryStepMarks ==
    ASSUME [Next]_vars
    PROVE  Pump \/ Cleanup \/ dead_clients' \subseteq dead_clients
<1> DEFINE Fewer == dead_clients' \subseteq dead_clients
<1>1. ASSUME UNCHANGED dead_clients PROVE Fewer
  BY <1>1
<1>2. ASSUME NEW c \in Conn, BeginMesh(c) \/ Begin(c) PROVE Fewer
  BY <1>2 DEF BeginMesh, Begin, Granted, Refused, ReleaseAllFor
<1>3. ASSUME NEW c \in Conn, NEW x \in Wanted, Open(c, x) PROVE Fewer
  BY <1>1, <1>3 DEF Open, occupancy
<1>4. ASSUME NEW c \in Conn,
             Send(c) \/ End(c) \/ HangUp(c) \/ BeginRejected(c) \/ BeginUnbound(c) \/
             BeginUnregistered(c) \/ Applied(c)
      PROVE  Fewer
  BY <1>1, <1>4 DEF Send, End, HangUp, BeginRejected, BeginUnbound, BeginUnregistered, Applied, occupancy
<1>5. ASSUME NEW c \in Conn, Poll(c) PROVE Fewer
  BY <1>1, <1>5 DEF Poll, PollDropped, PollFailed, PollReady, ReleaseLease
<1>6. ASSUME NEW s \in Surface, Close(s) \/ ForceDetach(s) PROVE Fewer
  BY <1>1, <1>6 DEF Close, ForceDetach
<1>7. CASE UNCHANGED vars
  BY <1>1, <1>7 DEF vars, occupancy
<1> QED
  BY <1>2, <1>3, <1>4, <1>5, <1>6, <1>7 DEF Next, Apply, FeedPending, Feed

LEMMA TellAttached ==
    ASSUME TypeOK, NEW c \in Conn, NEW e, NEW h, Tell(c, e, h), NEW b \in Conn,
           told'[b].event = "attached", told[b].event # "attached"
    PROVE  b = c /\ e = "attached"
<1>1. [event |-> e, holder |-> h].event = e
  OBVIOUS
<1>2. conn[c] = "open" /\ told' = [told EXCEPT ![c] = [event |-> e, holder |-> h]]
  BY DEF Tell
<1>3. b = c
  BY <1>2 DEF TypeOK
<1>4. told'[c] = [event |-> e, holder |-> h]
  BY <1>2 DEF TypeOK
<1> QED
  BY <1>1, <1>3, <1>4

\* Who hears that it attached, and who waits.
LEMMA EveryStepAttaches ==
    ASSUME TypeOK, [Next]_vars, NEW b \in Conn
    PROVE  /\ told'[b].event = "attached" =>
                 told[b].event = "attached" \/ BeginMesh(b) \/ PollReady(b)
           /\ b \in DOMAIN pending' => b \in DOMAIN pending \/ Begin(b)
<1> DEFINE A == /\ told'[b].event = "attached" =>
                      told[b].event = "attached" \/ BeginMesh(b) \/ PollReady(b)
                /\ b \in DOMAIN pending' => b \in DOMAIN pending \/ Begin(b)
<1>1. ASSUME UNCHANGED <<told, pending>> PROVE A
  BY <1>1
<1>2. ASSUME NEW c \in Conn, NEW x \in Wanted, Open(c, x) PROVE A
  BY <1>1, <1>2 DEF Open
<1>3. ASSUME NEW c \in Conn, Send(c) \/ End(c) \/ HangUp(c) \/ BeginUnbound(c) \/ Feed(c) PROVE A
  BY <1>1, <1>3 DEF Send, End, HangUp, BeginUnbound, Feed
<1>4. ASSUME Pump \/ Cleanup PROVE A
  BY <1>1, <1>4 DEF Pump, Cleanup
<1>5. ASSUME NEW c, Refused(c, target[c]), c \in Conn
      PROVE  told'[b].event = "attached" => told[b].event = "attached"
  BY <1>5, TellAttached DEF Refused
<1>6. ASSUME NEW c \in Conn, BeginRejected(c) \/ BeginUnregistered(c) PROVE A
  BY <1>6, TellAttached DEF BeginRejected, BeginUnregistered
<1>7. ASSUME NEW c \in Conn, BeginMesh(c) PROVE A
  <2>1. UNCHANGED pending
    BY <1>7 DEF BeginMesh
  <2>2. CASE Refused(c, target[c])
    BY <1>5, <2>1, <2>2
  <2>3. CASE Tell(c, "attached", Nobody)
    BY <1>7, <2>1, <2>3, TellAttached
  <2> QED
    BY <1>7, <2>2, <2>3 DEF BeginMesh
<1>8. ASSUME NEW c \in Conn, Begin(c) PROVE A
  <2>1. told'[b].event = "attached" => told[b].event = "attached"
    BY <1>5, <1>8 DEF Begin
  <2>2. DOMAIN pending' \subseteq DOMAIN pending \cup {c}
    BY <1>8 DEF Begin, With
  <2> QED
    BY <1>8, <2>1, <2>2
<1>9. ASSUME NEW c \in Conn, FeedPending(c) PROVE A
  <2>1. DOMAIN pending' = DOMAIN pending
    BY <1>9 DEF FeedPending
  <2> QED
    BY <1>9, <2>1, TellAttached DEF FeedPending
<1>10. ASSUME NEW c \in Conn, Poll(c) PROVE A
  <2>1. DOMAIN pending' \subseteq DOMAIN pending
    BY <1>10 DEF Poll, PollDropped, PollFailed, PollReady, Polled, WithoutAll
  <2>2. CASE PollReady(c)
    BY <2>1, <2>2, TellAttached DEF PollReady
  <2>3. CASE PollDropped(c) \/ PollFailed(c)
    BY <2>1, <2>3, TellAttached DEF PollDropped, PollFailed
  <2> QED
    BY <1>10, <2>2, <2>3 DEF Poll
<1>11. ASSUME NEW s \in Surface, Close(s) PROVE A
  BY <1>1, <1>11 DEF Close
<1>12. ASSUME NEW s \in Surface, ForceDetach(s) PROVE A
  <2>1. UNCHANGED pending
    BY <1>12 DEF ForceDetach
  <2> QED
    BY <1>12, <2>1, TellAttached DEF ForceDetach
<1>13. CASE UNCHANGED vars
  BY <1>1, <1>13 DEF vars
<1> QED
  BY <1>2, <1>3, <1>4, <1>6, <1>7, <1>8, <1>9, <1>10, <1>11, <1>12, <1>13 DEF Next, Apply

-----------------------------------------------------------------------------
(* The second invariant is preserved.                                      *)

LEMMA ConnTyped == TypeOK => conn \in [Conn -> {"new", "open", "unregistered", "closed"}]
  BY DEF TypeOK

\* A request is new, or it was there before, and it is inbound or taken, not both.
LEMMA AskOrEndMoves ==
    ASSUME IInv, TakenOut, [Next]_vars, NEW c \in Conn
    PROVE  /\ {Ask(c), Disconnected(c)} \cap inbound' \cap batch' = {}
           /\ Ask(c) \in inbound' \cup batch' => Ask(c) \in inbound \cup batch \/ conn[c] = "new"
           /\ conn[c] # "new" => conn'[c] # "new"
<1>1. Moves /\ NewAskNothing /\ EndsAreEnds
      /\ conn \in [Conn -> {"new", "open", "unregistered", "closed"}]
  BY EveryStepMoves, ConnTyped DEF IInv
<1>2. {Ask(c), Disconnected(c)} \cap inbound \cap batch = {}
  BY DEF TakenOut
<1>3. ASSUME NEW b \in Conn, conn[b] = "new", conn' = [conn EXCEPT ![b] = "open"],
             inbound' = inbound \cup {Ask(b)}, batch' = batch
      PROVE  /\ {Ask(c), Disconnected(c)} \cap inbound' \cap batch' = {}
             /\ Ask(c) \in inbound' => Ask(c) \in inbound \/ conn[c] = "new"
             /\ conn[c] # "new" => conn'[c] # "new"
  <2>1. Ask(b) \notin batch
    BY <1>1, <1>3 DEF NewAskNothing
  <2>2. Ask(b) = Ask(c) => b = c
    BY MessagesDiffer
  <2> QED
    BY <1>1, <1>2, <1>3, <2>1, <2>2
<1>4. ASSUME NEW b \in Conn, conn[b] = "unregistered", conn' = [conn EXCEPT ![b] = "closed"],
             inbound' = inbound \cup {Disconnected(b)}, batch' = batch
      PROVE  /\ {Ask(c), Disconnected(c)} \cap inbound' \cap batch' = {}
             /\ Ask(c) \in inbound' => Ask(c) \in inbound
             /\ conn[c] # "new" => conn'[c] # "new"
  <2>1. Disconnected(b) \notin batch
    BY <1>1, <1>4 DEF EndsAreEnds
  <2>2. Ask(c) # Disconnected(b)
    BY MessagesDiffer
  <2> QED
    BY <1>1, <1>2, <1>4, <2>1, <2>2
<1>5. ASSUME NEW b \in Conn, conn' = conn, inbound' = inbound \cup {Input(b)}, batch' = batch
      PROVE  /\ {Ask(c), Disconnected(c)} \cap inbound' \cap batch' = {}
             /\ Ask(c) \in inbound' => Ask(c) \in inbound
             /\ conn[c] # "new" => conn'[c] # "new"
  <2>1. Ask(c) # Input(b) /\ Disconnected(c) # Input(b)
    BY MessagesDiffer
  <2> QED
    BY <1>2, <1>5, <2>1
<1>6. ASSUME NEW b \in Conn, conn[b] = "open", conn' = [conn EXCEPT ![b] = "unregistered"]
      PROVE  conn[c] # "new" => conn'[c] # "new"
  BY <1>1, <1>6
<1>7. Cleanup => conn' = conn /\ inbound' = inbound /\ batch' = {}
  BY DEF Cleanup
<1> QED
  BY <1>1, <1>2, <1>3, <1>4, <1>5, <1>6, <1>7 DEF Moves

\* A request that is served is not there any more.
LEMMA ServedIsGone ==
    ASSUME TakenOut, NEW c \in Conn, Requested(c)
    PROVE  Ask(c) \in batch /\ Ask(c) \notin inbound' \cup batch'
  BY DEF TakenOut, Requested

LEMMA AskedStep == HInv /\ [Next]_vars => AskedOnce'
<1> SUFFICES ASSUME HInv, [Next]_vars, NEW c \in Conn
             PROVE  /\ Ask(c) \in inbound' \cup batch' =>
                          c \notin DOMAIN pending' /\ told'[c].event # "attached"
                    /\ c \in DOMAIN pending' => conn'[c] # "new" /\ told'[c].event # "attached"
  BY DEF AskedOnce
<1>1. IInv /\ TakenOut /\ TypeOK
  BY DEF HInv, IInv
<1>2. /\ Ask(c) \in inbound \cup batch => c \notin DOMAIN pending /\ told[c].event # "attached"
      /\ c \in DOMAIN pending => conn[c] # "new" /\ told[c].event # "attached"
  BY DEF HInv, AskedOnce
<1>3. /\ Ask(c) \in inbound' \cup batch' => Ask(c) \in inbound \cup batch \/ conn[c] = "new"
      /\ conn[c] # "new" => conn'[c] # "new"
  BY <1>1, AskOrEndMoves
<1>4. /\ told'[c].event = "attached" =>
            told[c].event = "attached" \/ BeginMesh(c) \/ PollReady(c)
      /\ c \in DOMAIN pending' => c \in DOMAIN pending \/ Begin(c)
  BY <1>1, EveryStepAttaches
<1>5. conn[c] = "new" => told[c].event # "attached" /\ c \notin DOMAIN pending
  BY <1>1, <1>2 DEF IInv, NewKnowNothing, Nothing
<1>6. CASE BeginMesh(c)
  <2>1. Ask(c) \in batch /\ Ask(c) \notin inbound' \cup batch' /\ pending' = pending
    BY <1>1, <1>6, ServedIsGone DEF BeginMesh
  <2> QED
    BY <1>2, <2>1
<1>7. CASE Begin(c)
  <2>1. Ask(c) \in batch /\ Ask(c) \notin inbound' \cup batch'
    BY <1>1, <1>7, ServedIsGone DEF Begin
  <2>2. conn[c] # "new" /\ ~BeginMesh(c) /\ ~PollReady(c)
    BY <1>7, <2>1 DEF Begin, MayBegin, BeginMesh, PollReady, Polled
  <2> QED
    BY <1>2, <1>3, <1>4, <2>1, <2>2
<1>8. CASE PollReady(c)
  <2>1. c \in DOMAIN pending /\ c \notin DOMAIN pending'
    BY <1>8 DEF PollReady, Polled, WithoutAll
  <2> QED
    BY <1>2, <1>3, <2>1
<1>9. CASE ~BeginMesh(c) /\ ~Begin(c) /\ ~PollReady(c)
  BY <1>2, <1>3, <1>4, <1>5, <1>9
<1> QED
  BY <1>6, <1>7, <1>8, <1>9

LEMMA ClientIn ==
    ASSUME NEW M, M \subseteq Message, NEW c \in ClientsOf(M, "disconnected")
    PROVE  Disconnected(c) \in M
<1>1. PICK m \in M : m.kind = "disconnected" /\ m.client = c
  BY DEF ClientsOf
<1>2. m = [kind |-> m.kind, client |-> m.client]
  BY DEF Message
<1> QED
  BY <1>1, <1>2 DEF Disconnected

LEMMA EndedStep == HInv /\ [Next]_vars => TakenOut' /\ MarkedHaveEnded'
<1> SUFFICES ASSUME HInv, [Next]_vars PROVE TakenOut' /\ MarkedHaveEnded'
  OBVIOUS
<1>1. IInv /\ TakenOut /\ TypeOK /\ MarkedHaveEnded
  BY DEF HInv, IInv
<1>2. TakenOut'
  BY <1>1, AskOrEndMoves DEF TakenOut, Ask, Disconnected
<1>3. ASSUME NEW c \in dead_clients' PROVE Disconnected(c) \in batch'
  <2>1. CASE Pump
    <3>1. /\ batch = {} /\ batch' = inbound
          /\ dead_clients' = dead_clients \cup ClientsOf(inbound, "disconnected")
      BY <2>1 DEF Pump, Take
    <3>2. c \in ClientsOf(inbound, "disconnected")
      BY <1>1, <1>3, <3>1 DEF MarkedHaveEnded
    <3> QED
      BY <1>1, <3>1, <3>2, ClientIn DEF TypeOK
  <2>2. CASE Cleanup
    <3>1. dead_clients' = dead_clients \ ClientsOf(batch, "disconnected")
      BY <2>2 DEF Cleanup, ReleaseAllFor
    <3>2. c \in ClientsOf(batch, "disconnected")
      BY <1>1, <1>3, <3>1, EndedClients DEF MarkedHaveEnded
    <3> QED
      BY <1>3, <3>1, <3>2
  <2>3. CASE ~Pump /\ ~Cleanup
    <3>1. c \in dead_clients /\ c \in Conn /\ Disconnected(c) \in batch
      BY <1>1, <1>3, <2>3, EveryStepMarks DEF MarkedHaveEnded, TypeOK
    <3>2. Moves
      BY <1>1, EveryStepMoves
    <3>3. batch' = batch \/ Disconnected(c) \in batch' \/ batch = {}
      BY <2>3, <3>1, <3>2 DEF Moves
    <3> QED
      BY <3>1, <3>3
  <2> QED
    BY <2>1, <2>2, <2>3
<1> QED
  BY <1>2, <1>3 DEF MarkedHaveEnded, Disconnected

\* Whose end has not been applied after a step, had not ended before it either; it is
\* not among the marked that a request evicts.
LEMMA StillUnfinished ==
    ASSUME HInv, [Next]_vars, NEW c \in Conn, told[c].event = "attached", Unfinished(c)'
    PROVE  Unfinished(c)
<1>1. Moves /\ EndsAreEnds /\ MarkedHaveEnded
      /\ conn \in [Conn -> {"new", "open", "unregistered", "closed"}]
  BY EveryStepMoves, ConnTyped DEF HInv, IInv
<1>2. conn[c] # "new"
  BY DEF HInv, IInv, NewKnowNothing, Nothing
<1>3. CASE conn'[c] \in {"open", "unregistered"}
  <2>1. conn[c] \in {"open", "unregistered"}
    BY <1>1, <1>2, <1>3 DEF Moves, Cleanup
  <2> QED
    BY <2>1 DEF Unfinished
<1>4. CASE Disconnected(c) \in inbound'
  <2>1. ASSUME NEW b \in Conn, Disconnected(c) = Disconnected(b) PROVE b = c
    BY <2>1, MessagesDiffer
  <2>2. ASSUME NEW b \in Conn PROVE Disconnected(c) # Ask(b) /\ Disconnected(c) # Input(b)
    BY MessagesDiffer
  <2>3. Disconnected(c) \in inbound \/ conn[c] = "unregistered"
    BY <1>1, <1>4, <2>1, <2>2 DEF Moves, Cleanup
  <2> QED
    BY <2>3 DEF Unfinished
<1>5. CASE c \in dead_clients'
  <2>1. CASE Pump
    <3>1. c \in dead_clients \/ c \in ClientsOf(inbound, "disconnected")
      BY <1>5, <2>1 DEF Pump
    <3> QED
      BY <3>1, ClientIn DEF Unfinished, HInv, IInv, TypeOK
  <2>2. CASE Cleanup
    BY <1>5, <2>2 DEF Cleanup, ReleaseAllFor, Unfinished
  <2>3. CASE dead_clients' \subseteq dead_clients
    BY <1>5, <2>3 DEF Unfinished
  <2> QED
    BY <2>1, <2>2, <2>3, EveryStepMarks
<1> QED
  BY <1>3, <1>4, <1>5 DEF Unfinished

\* Marked clients that lose their mark without the end of the batch are over.
LEMMA EvictedIsOver ==
    ASSUME HInv, NEW c \in Conn, NEW evicted, evicted \subseteq dead_clients,
           dead_clients' = dead_clients \ evicted, UNCHANGED <<conn, inbound>>, Unfinished(c)'
    PROVE  c \notin evicted
<1> SUFFICES ASSUME c \in evicted PROVE FALSE
  OBVIOUS
<1>1. Disconnected(c) \in batch
  BY DEF HInv, MarkedHaveEnded
<1>2. conn[c] = "closed"
  BY <1>1 DEF HInv, IInv, EndsAreEnds
<1>3. Disconnected(c) \notin inbound
  BY <1>1 DEF HInv, TakenOut
<1> QED
  BY <1>2, <1>3 DEF Unfinished

LEMMA RefusedKeeps ==
    ASSUME HInv, NEW c \in Conn, NEW d, NEW x, Refused(d, x), UNCHANGED <<conn, inbound, open>>,
           Unfinished(c)'
    PROVE  KeepsMine(c)
<1>1. PICK evicted \in SUBSET (InTheWay(d, x) \cap dead_clients) : ReleaseAllFor(evicted)
  BY DEF Refused
<1>2. c \notin evicted
  BY <1>1, EvictedIsOver DEF ReleaseAllFor
<1> QED
  BY <1>1, <1>2, ReleaseAllForKeeps DEF HInv, IInv

LEMMA OthersGrantKeeps ==
    ASSUME HInv, NEW c \in Conn, NEW d \in Conn, c # d, NEW x, NEW ready, Granted(d, x, ready),
           UNCHANGED <<conn, inbound, open>>, Unfinished(c)'
    PROVE  KeepsMine(c)
<1>1. InTheWay(d, x) \subseteq dead_clients /\ dead_clients' = dead_clients \ InTheWay(d, x)
  BY DEF Granted
<1>2. c \notin InTheWay(d, x)
  BY <1>1, EvictedIsOver
<1> QED
  BY <1>2, GrantedKeeps DEF HInv, IInv

\* The end of the batch takes the locks of those only that are over.
LEMMA CleanupKeeps ==
    ASSUME HInv, Cleanup, NEW c \in Conn, Unfinished(c)'
    PROVE  KeepsMine(c)
<1> DEFINE C == ClientsOf(batch, "disconnected")
<1>1. ReleaseAllFor(C) /\ dead_clients' = dead_clients \ C /\ UNCHANGED <<conn, inbound, open>>
  BY DEF Cleanup, ReleaseAllFor
<1>2. c \in C => Disconnected(c) \in batch
  BY ClientIn DEF HInv, IInv, TypeOK
<1>3. c \notin C
  <2> SUFFICES ASSUME c \in C PROVE FALSE
    OBVIOUS
  <2>1. conn[c] = "closed" /\ Disconnected(c) \notin inbound
    BY <1>2 DEF HInv, IInv, EndsAreEnds, TakenOut
  <2> HIDE DEF C
  <2> QED
    BY <1>1, <2>1 DEF Unfinished
<1> HIDE DEF C
<1> QED
  BY <1>1, <1>3, ReleaseAllForKeeps DEF HInv, IInv

\* What a client attached and is not over stays, whatever others and the loop do,
\* unless the user takes it back.
LEMMA EveryStepKeeps ==
    ASSUME HInv, [Next]_vars, NEW c \in Conn, c \notin taken_back', told[c].event = "attached",
           Unfinished(c)'
    PROVE  KeepsMine(c)
<1>1. TypeOK /\ WorkspaceWhole /\ Ask(c) \notin batch /\ c \notin DOMAIN pending
  BY DEF HInv, IInv, AskedOnce
<1>2. ASSUME UNCHANGED <<surface_locks, workspace_locks>> PROVE KeepsMine(c)
  BY <1>2 DEF KeepsMine
<1>3. ASSUME NEW d \in Conn, NEW x \in Wanted, Open(d, x) PROVE KeepsMine(c)
  BY <1>2, <1>3 DEF Open, occupancy
<1>4. ASSUME NEW d \in Conn,
             \/ Send(d) \/ End(d) \/ HangUp(d)
             \/ BeginRejected(d) \/ BeginUnbound(d) \/ BeginUnregistered(d) \/ Applied(d)
      PROVE  KeepsMine(c)
  BY <1>2, <1>4 DEF Send, End, HangUp, BeginRejected, BeginUnbound, BeginUnregistered, Applied, occupancy
<1>5. ASSUME Pump PROVE KeepsMine(c)
  BY <1>2, <1>5 DEF Pump
<1>6. ASSUME NEW d \in Conn, BeginMesh(d) \/ Begin(d) PROVE KeepsMine(c)
  <2>1. Ask(d) \in batch /\ UNCHANGED <<conn, inbound, open>>
    BY <1>6 DEF BeginMesh, Begin, Requested
  <2>2. c # d
    BY <1>1, <2>1
  <2>3. Refused(d, target[d]) \/ \E ready \in BOOLEAN : Granted(d, target[d], ready)
    BY <1>6 DEF BeginMesh, Begin
  <2> QED
    BY <2>1, <2>2, <2>3, RefusedKeeps, OthersGrantKeeps
<1>7. ASSUME Cleanup PROVE KeepsMine(c)
  BY <1>7, CleanupKeeps
<1>8. ASSUME NEW d \in Conn, Poll(d) PROVE KeepsMine(c)
  <2>1. d \in DOMAIN pending /\ UNCHANGED open
    BY <1>8 DEF Poll, PollDropped, PollFailed, PollReady, Polled
  <2>2. c # d
    BY <1>1, <2>1
  <2>3. CASE ReleaseLease(d)
    BY <1>1, <2>1, <2>2, <2>3, LeaseKeeps
  <2>4. CASE PollReady(d)
    BY <2>4, ReadyKeeps DEF PollReady
  <2> QED
    BY <1>8, <2>3, <2>4 DEF Poll, PollDropped, PollFailed
<1>9. ASSUME NEW s \in Surface, Close(s) PROVE KeepsMine(c)
  BY <1>9, CloseKeeps
<1>10. ASSUME NEW s \in Surface, ForceDetach(s) PROVE KeepsMine(c)
  BY <1>1, <1>10, ForceDetachKeeps
<1>11. CASE UNCHANGED vars
  BY <1>2, <1>11 DEF vars, occupancy
<1> QED
  BY <1>3, <1>4, <1>5, <1>6, <1>7, <1>8, <1>9, <1>10, <1>11 DEF Next, Apply, FeedPending, Feed

\* Who hears that it attached holds it: a surface without a terminal has nothing to
\* hold, and a lease that is current covers the terminals it waited for.
LEMMA AttachingHolds ==
    ASSUME HInv, NEW c \in Conn, BeginMesh(c) \/ PollReady(c), told'[c].event = "attached"
    PROVE  Holds(c)'
<1>1. UNCHANGED <<target, open>>
  BY DEF BeginMesh, PollReady, Requested, Polled
<1>2. CASE BeginMesh(c)
  <2>1. target[c] \in Mesh
    BY <1>2 DEF BeginMesh
  <2>2. target[c] \notin Workspace /\ target[c] \notin Terminal
    BY <2>1, AttachAssumption DEF Surface
  <2>3. Leaves(target[c])' = {target[c]}
    BY <1>1, <2>2 DEF Leaves
  <2> QED
    BY <1>1, <2>2, <2>3 DEF Holds
<1>3. CASE PollReady(c)
  <2>1. /\ LeaseIsCurrent(c)
        /\ surface_locks' = Ready(surface_locks, c)
        /\ workspace_locks' = Ready(workspace_locks, c)
    BY <1>3 DEF PollReady, Dropped
  <2>2. LocksTyped /\ WorkspaceWhole
    BY DEF HInv, IInv, TypeOK, LocksTyped
  <2>3. ASSUME NEW s \in DOMAIN surface_locks, surface_locks[s].holder = c
        PROVE  s \in DOMAIN surface_locks' /\ surface_locks'[s] = Mine(c)
    <3>1. surface_locks[s] \in Lock
      BY <2>2 DEF LocksTyped
    <3>2. surface_locks'[s] = [surface_locks[s] EXCEPT !.ready = TRUE] /\ s \in DOMAIN surface_locks'
      BY <2>1, <2>3 DEF Ready
    <3> QED
      BY <2>3, <3>1, <3>2, MadeReady
  <2>4. ASSUME NEW w \in DOMAIN workspace_locks, workspace_locks[w].holder = c
        PROVE  w \in DOMAIN workspace_locks' /\ workspace_locks'[w] = Mine(c)
    <3>1. workspace_locks[w] \in Lock
      BY <2>2 DEF LocksTyped
    <3>2. workspace_locks'[w] = [workspace_locks[w] EXCEPT !.ready = TRUE]
          /\ w \in DOMAIN workspace_locks'
      BY <2>1, <2>4 DEF Ready
    <3> QED
      BY <2>4, <3>1, <3>2, MadeReady
  <2>5. ASSUME NEW t \in Leaves(target[c]) \cap Terminal \cap open
        PROVE  t \in DOMAIN surface_locks /\ surface_locks[t].holder = c
    <3>1. CASE target[c] \in Workspace
      BY <2>1, <2>2, <2>5, <3>1 DEF LeaseIsCurrent, Leaves, WorkspaceWhole
    <3>2. CASE target[c] \notin Workspace
      BY <2>1, <2>5, <3>2 DEF LeaseIsCurrent, Leaves
    <3> QED
      BY <3>1, <3>2
  <2>6. target[c] \in Workspace =>
          target[c] \in DOMAIN workspace_locks /\ workspace_locks[target[c]].holder = c
    BY <2>1 DEF LeaseIsCurrent
  <2>7. Leaves(target[c])' = Leaves(target[c]) /\ Mine(c)' = Mine(c)
    BY <1>1 DEF Leaves, TerminalsOf, MembersOf, Mine
  <2> QED
    BY <1>1, <2>3, <2>4, <2>5, <2>6, <2>7 DEF Holds
<1> QED
  BY <1>2, <1>3

LEMMA HeldStep == HInv /\ [Next]_vars => HeldStill'
<1> SUFFICES ASSUME HInv, [Next]_vars, NEW c \in Conn, c \notin taken_back',
                    told'[c].event = "attached", Unfinished(c)'
             PROVE  Holds(c)'
  BY DEF HeldStill
<1>1. TypeOK
  BY DEF HInv, IInv
<1>2. CASE BeginMesh(c) \/ PollReady(c)
  BY <1>2, AttachingHolds
<1>3. CASE told[c].event = "attached"
  <2>1. Unfinished(c) /\ KeepsMine(c)
    BY <1>3, StillUnfinished, EveryStepKeeps
  <2>2. c \notin taken_back /\ open' \subseteq open
        /\ \A h \in DOMAIN target : h \in DOMAIN target' /\ target'[h] = target[h]
    BY <1>1, EveryStepStays
  <2>3. c \in DOMAIN target
    BY <1>1, <1>3 DEF HInv, IInv, NewKnowNothing, Nothing, TypeOK
  <2>4. Holds(c)
    BY <1>3, <2>1, <2>2 DEF HInv, HeldStill
  <2> QED
    BY <2>1, <2>2, <2>3, <2>4, KeepsHolds
<1> QED
  BY <1>1, <1>2, <1>3, EveryStepAttaches

LEMMA InitHInv == Init => HInv
<1> SUFFICES ASSUME Init PROVE HInv
  OBVIOUS
<1>1. IInv
  BY InitIInv
<1>2. DOMAIN NoEntry = {} /\ Nothing.event # "attached"
  BY DEF NoEntry, Nothing
<1>3. TakenOut /\ MarkedHaveEnded /\ AskedOnce /\ HeldStill
  BY <1>2 DEF Init, TakenOut, MarkedHaveEnded, AskedOnce, HeldStill
<1> QED
  BY <1>1, <1>3 DEF HInv

LEMMA SpecHInv == Spec => []HInv
<1>1. HInv /\ [Next]_vars => HInv'
  BY IInvStep, AskedStep, EndedStep, HeldStep DEF HInv
<1> QED
  BY <1>1, InitHInv, PTL DEF Spec

\* What poll told a client it attached stays locked by it, and ready, until it ends or
\* the user takes it back: the evictions on the way of acquire and acquire_workspace,
\* release_all_for_client for others, and PendingAttach::release leave it alone.
THEOREM AttachedIsHeld == Spec => []AttachedMeansHeld
<1>1. HInv => AttachedMeansHeld
  BY DEF HInv, HeldStill, Holds, Unfinished, Mine, AttachedMeansHeld
<1> QED
  BY <1>1, SpecHInv, PTL

\* Input that comes in one batch with the end of its connection reaches the terminals
\* that were attached, because locks go at the end of the batch only.
THEOREM ResidualInput == Spec => []ResidualInputReaches
<1>1. HInv => ResidualInputReaches
  <2> SUFFICES ASSUME HInv, NEW c \in dead_clients, c \notin taken_back, told[c].event = "attached",
                      NEW t \in Leaves(target[c]) \cap Terminal \cap open
               PROVE  t \in Reaches(c)
    BY DEF ResidualInputReaches
  <2>1. c \in Conn /\ Holds(c)
    BY DEF HInv, IInv, TypeOK, HeldStill, Unfinished
  <2>2. t \in DOMAIN surface_locks /\ surface_locks[t].holder = c /\ surface_locks[t].ready
    BY <2>1, MineIs DEF Holds
  <2>3. CASE target[c] \in Workspace
    <3>1. target[c] \in DOMAIN workspace_locks /\ workspace_locks[target[c]].holder = c
          /\ workspace_locks[target[c]].ready
      BY <2>1, <2>3, MineIs DEF Holds
    <3>2. target[c] \in HeldWorkspaces({c})
      BY <3>1 DEF HeldWorkspaces
    <3>3. t \in Members[target[c]]
      BY <2>3 DEF Leaves, TerminalsOf, MembersOf
    <3> QED
      BY <2>2, <3>1, <3>2, <3>3 DEF Reaches
  <2>4. CASE target[c] \notin Workspace
    <3>1. ASSUME NEW w \in HeldWorkspaces({c}) PROVE FALSE
      BY <2>4 DEF HeldWorkspaces, HInv, IInv, WorkspaceWhole, TypeOK
    <3> QED
      BY <2>2, <3>1 DEF Reaches
  <2> QED
    BY <2>3, <2>4
<1> QED
  BY <1>1, SpecHInv, PTL
=============================================================================
