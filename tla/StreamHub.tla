------------------------------ MODULE StreamHub ------------------------------
(***************************************************************************)
(* The push side of one stream connection: its sink in the hub (crates/    *)
(* tasty-ipc/src/stream_hub.rs), the thread that writes the sink's frames  *)
(* to the socket, the thread that reads the socket and cleans up           *)
(* (src/adapters/production/tcp_ipc_server.rs), and the main loop's pump.  *)
(*                                                                         *)
(* Pushes come from any thread and hold the lock of the sink map; the      *)
(* writer takes frames out of the channel, lowers the backlog counter and  *)
(* reads the cached debt without it.  A step is one access to what is      *)
(* shared without the lock, or a stretch under the lock with none.         *)
(*                                                                         *)
(* What is abstracted.  A frame is the number of its push, or a notice of  *)
(* so many lost frames.  Client ids are never given out twice, so one      *)
(* registration is followed from its start to its end.  A write to a       *)
(* socket whose peer is gone may go through or fail.  The byte charge of   *)
(* frames with its reservations, the publication fences, the bulk bindings *)
(* and the rejected handshake, which never starts a writer, are left out.  *)
(***************************************************************************)
EXTENDS Integers, Sequences

CONSTANTS SinkCap,     \* SINK_CAP
          LagLimit,    \* LAG_LIMIT
          MaxPushes    \* bound of the model

ASSUME StreamHubAssumption == {SinkCap, LagLimit, MaxPushes} \subseteq Nat \ {0}

VARIABLES
    sink,      \* the registered sink: is it in the map, and its lag, loss_notify, pending_loss
    owes,      \* owes_notice, the debt as the writer sees it
    queue, queued,   \* the channel and the backlog counter
    lost,      \* loss.frames
    holder,    \* who holds the lock of the map, and what it does next
    writer,    \* what the writer thread does next, and the frame it holds
    pump,      \* is the main loop inside pump_inbound
    reader,    \* the connection's reading thread: "reads", "joins" the writer, "told" the main loop
    peer,      \* is the other end of the socket there
    pushes,    \* pushes that found the client
    wire       \* what was written: the last push, how many of them, the losses told of

vars == <<sink, owes, queue, queued, lost, holder, writer, pump, reader, peer, pushes, wire>>

Nobody == [by |-> "none", next |-> "none"]
At(by, next) == [by |-> by, next |-> next]
Free == holder = Nobody

Frame(n) == [kind |-> "push", n |-> n]
Detach(n) == [kind |-> "detach", n |-> n]
Loss(n) == [kind |-> "loss", n |-> n]
NoFrame == [kind |-> "none", n |-> 0]

Init ==
    /\ sink = [in |-> TRUE, lag |-> 0, loss_notify |-> FALSE, pending_loss |-> 0]
    /\ owes = FALSE
    /\ queue = <<>> /\ queued = 0
    /\ lost = 0
    /\ holder = Nobody
    /\ writer = [next |-> "recv", hand |-> NoFrame]
    /\ pump = FALSE
    /\ reader = "reads"
    /\ peer = TRUE
    /\ pushes = 0
    /\ wire = [last |-> 0, frames |-> 0, losses |-> 0]

Owes(s) == s.loss_notify /\ s.pending_loss # 0

-----------------------------------------------------------------------------
\* A push takes the lock, finds the client and has its frame charged; the frame
\* of a push is its number, a Detach the last word of a forced release.
Push(detach) ==
    /\ Free /\ sink.in /\ pushes < MaxPushes
    /\ pushes' = pushes + 1
    /\ holder' = At(IF detach THEN "detach" ELSE "push", "repay")
    /\ UNCHANGED <<sink, owes, queue, queued, lost, writer, pump, reader, peer, wire>>

Pushing == holder.by \in {"push", "detach"}

\* After the debt is dealt with a push goes on with its frame, others are done.
AfterRepay == IF Pushing THEN At(holder.by, "raise") ELSE Nobody

\* Is there a receiver, and room in the channel?
Room == writer.next # "gone" /\ Len(queue) < SinkCap

\* repay_pending_loss with nothing to tell.
RepayNothing ==
    /\ holder.next = "repay" /\ ~Owes(sink)
    /\ holder' = AfterRepay
    /\ UNCHANGED <<sink, owes, queue, queued, lost, writer, pump, reader, peer, pushes, wire>>

\* The backlog counter is raised before the channel is tried.
Raise ==
    /\ holder.next = "raise" \/ (holder.next = "repay" /\ Owes(sink))
    /\ queued' = queued + 1
    /\ holder' = At(holder.by, IF holder.next = "raise" THEN "send" ELSE "notice")
    /\ UNCHANGED <<sink, owes, queue, lost, writer, pump, reader, peer, pushes, wire>>

\* Mutant: the debt is cleared although the notice did not fit.
SendNoticeOrNot ==
    /\ holder.next = "notice"
    /\ holder' = At(holder.by, "clear")
    /\ IF Room THEN queue' = Append(queue, Loss(sink.pending_loss)) /\ UNCHANGED queued
               ELSE queued' = queued - 1 /\ UNCHANGED queue
    /\ UNCHANGED <<sink, owes, lost, writer, pump, reader, peer, pushes, wire>>

\* Mutant: the cached debt is cleared, the debt itself is not.
ClearCachedDebt ==
    /\ holder.next = "clear"
    /\ owes' = FALSE
    /\ holder' = AfterRepay
    /\ UNCHANGED <<sink, queue, queued, lost, writer, pump, reader, peer, pushes, wire>>

\* The notice goes in, and only then is the debt cleared, or it does not fit.
SendNotice ==
    /\ holder.next = "notice"
    /\ IF Room
       THEN /\ queue' = Append(queue, Loss(sink.pending_loss))
            /\ holder' = At(holder.by, "clear")
            /\ UNCHANGED queued
       ELSE /\ queued' = queued - 1
            /\ holder' = AfterRepay
            /\ UNCHANGED queue
    /\ UNCHANGED <<sink, owes, lost, writer, pump, reader, peer, pushes, wire>>

ClearDebt ==
    /\ holder.next = "clear"
    /\ sink' = [sink EXCEPT !.pending_loss = 0]
    /\ owes' = FALSE
    /\ holder' = AfterRepay
    /\ UNCHANGED <<queue, queued, lost, writer, pump, reader, peer, pushes, wire>>

\* Mutant: a refused frame stays in the backlog counter.
SendFrameUncounted ==
    /\ holder.next = "send"
    /\ IF Room
       THEN /\ queue' = Append(queue, IF holder.by = "detach" THEN Detach(pushes) ELSE Frame(pushes))
            /\ sink' = [sink EXCEPT !.lag = 0]
            /\ holder' = Nobody
       ELSE /\ sink' = IF writer.next = "gone" THEN [sink EXCEPT !.in = FALSE] ELSE sink
            /\ holder' = IF writer.next = "gone" THEN Nobody ELSE At(holder.by, "count")
            /\ UNCHANGED queue
    /\ UNCHANGED <<owes, queued, lost, writer, pump, reader, peer, pushes, wire>>

\* The frame goes in, is refused by a full channel, or finds no receiver.
SendFrame ==
    /\ holder.next = "send"
    /\ IF Room
       THEN /\ queue' = Append(queue, IF holder.by = "detach" THEN Detach(pushes) ELSE Frame(pushes))
            /\ sink' = [sink EXCEPT !.lag = 0]
            /\ holder' = Nobody
            /\ UNCHANGED queued
       ELSE /\ queued' = queued - 1
            /\ sink' = IF writer.next = "gone" THEN [sink EXCEPT !.in = FALSE] ELSE sink
            /\ holder' = IF writer.next = "gone" THEN Nobody ELSE At(holder.by, "count")
            /\ UNCHANGED queue
    /\ UNCHANGED <<owes, lost, writer, pump, reader, peer, pushes, wire>>

\* A refused frame is lost: it is counted, becomes a debt, and at the limit of
\* losses in a row the sink is taken out of the map.
CountLoss ==
    /\ holder.next = "count"
    /\ lost' = lost + 1
    /\ LET s == [sink EXCEPT !.pending_loss = @ + 1, !.lag = @ + 1]
       IN /\ owes' = Owes(s)
          /\ sink' = [s EXCEPT !.in = s.lag < LagLimit]
    /\ holder' = Nobody
    /\ UNCHANGED <<queue, queued, writer, pump, reader, peer, pushes, wire>>

-----------------------------------------------------------------------------
\* The writer takes a frame out of the channel.
Recv ==
    /\ writer.next = "recv" /\ queue # <<>>
    /\ writer' = [next |-> "took", hand |-> Head(queue)]
    /\ queue' = Tail(queue)
    /\ UNCHANGED <<sink, owes, queued, lost, holder, pump, reader, peer, pushes, wire>>

\* It lowers the backlog counter, and looks whether a notice is due.
Took ==
    /\ writer.next = "took"
    /\ queued' = queued - 1
    /\ writer' = [writer EXCEPT !.next = IF owes THEN "lock" ELSE "check"]
    /\ UNCHANGED <<sink, owes, queue, lost, holder, pump, reader, peer, pushes, wire>>

\* repay_now: with the lock it puts the notice in itself, if the sink is there.
RepayNow ==
    /\ writer.next = "lock" /\ Free
    /\ holder' = IF sink.in THEN At("writer", "repay") ELSE Nobody
    /\ writer' = [writer EXCEPT !.next = "check"]
    /\ UNCHANGED <<sink, owes, queue, queued, lost, pump, reader, peer, pushes, wire>>

\* A frame of a registration that ended is not written.
CheckCurrent ==
    /\ writer.next = "check" /\ holder.by # "writer"
    /\ writer' = IF sink.in THEN [writer EXCEPT !.next = "write"]
                            ELSE [next |-> "recv", hand |-> NoFrame]
    /\ UNCHANGED <<sink, owes, queue, queued, lost, holder, pump, reader, peer, pushes, wire>>

\* When the writer ends, its end of the channel goes with what is in it.
Exit ==
    /\ writer' = [next |-> "gone", hand |-> NoFrame]
    /\ queue' = <<>>

\* The frame reaches the socket; Detach is the last one.
Write ==
    /\ writer.next = "write"
    /\ LET f == writer.hand
       IN /\ wire' = IF f.kind = "loss" THEN [wire EXCEPT !.losses = @ + f.n]
                                        ELSE [wire EXCEPT !.last = f.n, !.frames = @ + 1]
          /\ IF f.kind = "detach"
             THEN Exit
             ELSE writer' = [next |-> "recv", hand |-> NoFrame] /\ UNCHANGED queue
    /\ UNCHANGED <<sink, owes, queued, lost, holder, pump, reader, peer, pushes>>

\* Mutant: the receiver keeps the sinks alive, and with them its own sender.
WriterHoldsSender ==
    /\ ~peer
    /\ writer.next = "write" \/ (writer.next = "recv" /\ queue = <<>>)
    /\ Exit
    /\ UNCHANGED <<sink, owes, queued, lost, holder, pump, reader, peer, pushes, wire>>

\* A write, of a frame or of the Ping of an idle writer, fails; or the channel
\* is empty and its sender is gone.
WriterEnds ==
    /\ \/ ~peer /\ writer.next = "write"
       \/ ~peer /\ writer.next = "recv" /\ queue = <<>>
       \/ ~sink.in /\ writer.next = "recv" /\ queue = <<>>
    /\ Exit
    /\ UNCHANGED <<sink, owes, queued, lost, holder, pump, reader, peer, pushes, wire>>

-----------------------------------------------------------------------------
\* The other end closes, detaches, or one of the two read limits runs out.
PeerGone ==
    /\ peer /\ peer' = FALSE
    /\ UNCHANGED <<sink, owes, queue, queued, lost, holder, writer, pump, reader, pushes, wire>>

\* The reading thread's end of a connection: it takes the sink out of the map,
Unregister ==
    /\ reader = "reads" /\ ~peer /\ Free
    /\ reader' = "joins"
    /\ sink' = [sink EXCEPT !.in = FALSE]
    /\ UNCHANGED <<owes, queue, queued, lost, holder, writer, pump, peer, pushes, wire>>

\* Mutant: the reading thread does not wait for the writer.
TellUnjoined ==
    /\ reader = "joins"
    /\ reader' = "told"
    /\ UNCHANGED <<sink, owes, queue, queued, lost, holder, writer, pump, peer, pushes, wire>>

\* waits for the writer, and tells the main loop, which releases the locks.
Tell ==
    /\ reader = "joins" /\ writer.next = "gone"
    /\ reader' = "told"
    /\ UNCHANGED <<sink, owes, queue, queued, lost, holder, writer, pump, peer, pushes, wire>>

\* The main loop or a worker cuts a registration.
UnregisterBound ==
    /\ Free /\ sink.in
    /\ sink' = [sink EXCEPT !.in = FALSE]
    /\ UNCHANGED <<owes, queue, queued, lost, holder, writer, pump, reader, peer, pushes, wire>>

-----------------------------------------------------------------------------
\* pump_inbound begins: something came in, on this connection or another.
PumpInbound ==
    /\ ~pump /\ pump' = TRUE
    /\ UNCHANGED <<sink, owes, queue, queued, lost, holder, writer, reader, peer, pushes, wire>>

\* Among it the client's ClientLossNotify.
EnableLossNotify ==
    /\ pump /\ Free /\ sink.in /\ ~sink.loss_notify
    /\ sink' = [sink EXCEPT !.loss_notify = TRUE]
    /\ owes' = Owes(sink')
    /\ UNCHANGED <<queue, queued, lost, holder, writer, pump, reader, peer, pushes, wire>>

\* Mutant: the pump ends without looking at the debts.
RepayNone ==
    /\ pump /\ Free
    /\ pump' = FALSE
    /\ UNCHANGED <<sink, owes, queue, queued, lost, holder, writer, reader, peer, pushes, wire>>

\* It ends with the debts of all the sinks in the map.
RepayAll ==
    /\ pump /\ Free
    /\ pump' = FALSE
    /\ holder' = IF sink.in THEN At("pump", "repay") ELSE Nobody
    /\ UNCHANGED <<sink, owes, queue, queued, lost, writer, reader, peer, pushes, wire>>

LockedStep == RepayNothing \/ Raise \/ SendNotice \/ ClearDebt \/ SendFrame \/ CountLoss
WriterStep == Recv \/ Took \/ RepayNow \/ CheckCurrent \/ Write \/ WriterEnds
ReaderStep == Unregister \/ Tell
MainLoop == PumpInbound \/ EnableLossNotify \/ RepayAll

Next ==
    \/ \E detach \in BOOLEAN : Push(detach)
    \/ LockedStep \/ WriterStep \/ ReaderStep \/ MainLoop
    \/ PeerGone \/ UnregisterBound

\* Threads run; a client whose stream fell silent runs into its read limit; one
\* that is there sends its heartbeat, which the main loop pumps.  That a write
\* ends assumes a peer that reads, or a transport that gives up.
Fairness ==
    /\ WF_vars(LockedStep)
    /\ WF_vars(WriterStep)
    /\ SF_vars(RepayNow)
    /\ SF_vars(Unregister) /\ WF_vars(Tell)
    /\ SF_vars(RepayAll) /\ WF_vars(peer /\ PumpInbound)
    /\ WF_vars(writer.next = "gone" /\ PeerGone)

Spec == Init /\ [][Next]_vars /\ Fairness
-----------------------------------------------------------------------------
\* The type invariant.
Kinds == {"none", "push", "detach", "loss"}
FrameType == [kind : Kinds, n : Nat]

TypeOK ==
    /\ sink \in [in : BOOLEAN, lag : Nat, loss_notify : BOOLEAN, pending_loss : Nat]
    /\ owes \in BOOLEAN
    /\ queue \in Seq(FrameType) /\ Len(queue) <= SinkCap
    /\ queued \in Int
    /\ lost \in Nat
    /\ holder \in [by : {"none", "push", "detach", "writer", "pump"},
                   next : {"none", "repay", "notice", "clear", "raise", "send", "count"}]
    /\ writer \in [next : {"recv", "took", "lock", "check", "write", "gone"}, hand : FrameType]
    /\ pump \in BOOLEAN
    /\ reader \in {"reads", "joins", "told"}
    /\ peer \in BOOLEAN
    /\ pushes \in Nat
    /\ wire \in [last : Nat, frames : Nat, losses : Nat]

Live == sink.in /\ writer.next # "gone"

Losses(f) == IF f.kind = "loss" THEN f.n ELSE 0
Pushed(f) == IF f.kind \in {"push", "detach"} THEN 1 ELSE 0

\* Sums(s)[n]: the first n of s, added up.
Sums(s) ==
    LET sum[n \in 0..Len(s)] == IF n = 0 THEN 0 ELSE sum[n - 1] + s[n] IN sum

LossSums(q) == Sums([i \in DOMAIN q |-> Losses(q[i])])
PushSums(q) == Sums([i \in DOMAIN q |-> Pushed(q[i])])

\* While the connection lives every frame dropped is known to the client, on its
\* way to it or owed, exactly once, and every push that found the client arrived,
\* is under way or was counted as lost (push_to, repay_pending_loss).
EveryFrameAccounted ==
    Live => /\ lost = wire.losses + Losses(writer.hand) + LossSums(queue)[Len(queue)]
                        + IF holder.next = "clear" THEN 0 ELSE sink.pending_loss
            /\ pushes = wire.frames + Pushed(writer.hand) + PushSums(queue)[Len(queue)] + lost
                        + IF Pushing THEN 1 ELSE 0

\* What the client was told of by the time a frame comes really lies before that
\* frame: no Loss announces a frame that comes later, or one loss twice.
LossNeverAhead ==
    [][wire'.frames > wire.frames => wire'.frames + wire.losses <= wire'.last]_wire

\* The backlog counter never wraps below zero, and what loss() reads of it under
\* the lock is the channel, or one more while the writer is at its frame.
BacklogHonest ==
    /\ queued >= 0
    /\ Free /\ Live => queued \in Len(queue)..Len(queue) + 1

\* When the main loop hears that a connection ended, and gives its lock to
\* others, nothing of that connection is written any more.
StreamEndsBeforeRelease == [][reader = "told" => wire' = wire]_vars

\* A client that asked for it is told of every loss while its connection lives,
\* even if the writer looked for the debt before it was there: the pump repays.
LossIsTold ==
    peer /\ Live /\ sink.loss_notify /\ wire.losses < lost
        ~> wire.losses = lost \/ ~peer \/ ~Live

\* A connection that is cut, whether by its lag, by the main loop or by its
\* peer, ends and is told to the main loop.
ConnectionReleased == ~sink.in \/ ~peer ~> reader = "told"
=============================================================================
