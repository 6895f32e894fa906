--------------------------- MODULE StreamHub_proofs ---------------------------
(***************************************************************************)
(* The backlog counter, the end of a stream, and the account of the frames *)
(* and losses of a connection, for every capacity of the channel, every    *)
(* limit of losses and any number of pushes.                               *)
(***************************************************************************)
EXTENDS StreamHub, SequenceTheorems, WellFoundedInduction, TLAPS

-----------------------------------------------------------------------------
(* Types.                                                                  *)

LEMMA FramesAreFrames ==
    /\ NoFrame \in FrameType
    /\ \A n \in Nat : Frame(n) \in FrameType /\ Detach(n) \in FrameType /\ Loss(n) \in FrameType
  BY DEF NoFrame, Frame, Detach, Loss, FrameType, Kinds

LEMMA NothingInside == <<>> \in Seq(FrameType) /\ Len(<<>>) = 0
  OBVIOUS

\* The holder's records.
Threads == {"none", "push", "detach", "writer", "pump"}
Stages == {"none", "repay", "notice", "clear", "raise", "send", "count"}

LEMMA HoldersAreHolders ==
    /\ Nobody \in [by : Threads, next : Stages]
    /\ \A b \in Threads, n \in Stages : At(b, n) \in [by : Threads, next : Stages]
  BY DEF Nobody, At, Threads, Stages

LEMMA HolderType ==
    ASSUME TypeOK
    PROVE  /\ holder \in [by : Threads, next : Stages]
           /\ holder.by \in Threads
           /\ AfterRepay \in [by : Threads, next : Stages]
<1>1. holder \in [by : Threads, next : Stages]
  BY DEF TypeOK, Threads, Stages
<1>2. holder.by \in Threads
  BY <1>1
<1>3. "raise" \in Stages
  BY DEF Stages
<1> QED
  BY <1>1, <1>2, <1>3, HoldersAreHolders DEF AfterRepay

\* What a channel holds after a frame is put in.
LEMMA PutIn ==
    ASSUME NEW q \in Seq(FrameType), NEW f \in FrameType
    PROVE  Append(q, f) \in Seq(FrameType) /\ Len(Append(q, f)) = Len(q) + 1
  OBVIOUS

\* What a channel holds after a frame is taken out.
LEMMA TakeOut ==
    ASSUME NEW q \in Seq(FrameType), q # <<>>
    PROVE  /\ Head(q) \in FrameType
           /\ Tail(q) \in Seq(FrameType) /\ Len(Tail(q)) = Len(q) - 1 /\ Len(q) > 0
  OBVIOUS

\* The sink's records.
SinkType == [in : BOOLEAN, lag : Nat, loss_notify : BOOLEAN, pending_loss : Nat]

LEMMA SinksAreSinks ==
    ASSUME NEW s \in SinkType, NEW b \in BOOLEAN, NEW n \in Nat, NEW m \in Nat
    PROVE  /\ [s EXCEPT !.in = b] \in SinkType
           /\ [s EXCEPT !.loss_notify = b] \in SinkType
           /\ [s EXCEPT !.lag = n] \in SinkType
           /\ [s EXCEPT !.pending_loss = n] \in SinkType
           /\ [s EXCEPT !.pending_loss = n, !.lag = m] \in SinkType
  BY DEF SinkType

LEMMA ZeroIsNat == 0 \in Nat
  OBVIOUS

LEMMA Booleans == TRUE \in BOOLEAN /\ FALSE \in BOOLEAN
  OBVIOUS

LEMMA SinkIsSink == TypeOK => sink \in SinkType
  BY DEF TypeOK, SinkType

LEMMA CutIsSink == ASSUME NEW s \in SinkType PROVE [s EXCEPT !.in = FALSE] \in SinkType
<1> DEFINE b == FALSE
<1>1. b \in BOOLEAN
  BY Booleans
<1> HIDE DEF b
<1>2. [s EXCEPT !.in = b] \in SinkType
  BY <1>1, SinksAreSinks
<1> QED
  BY <1>2 DEF b

LEMMA InitType == Init => TypeOK
<1> SUFFICES ASSUME Init PROVE TypeOK
  OBVIOUS
<1>1. sink \in SinkType
  <2>1. sink = [in |-> TRUE, lag |-> 0, loss_notify |-> FALSE, pending_loss |-> 0]
    BY DEF Init
  <2> QED
    BY <2>1, Zenon, Booleans, ZeroIsNat DEF SinkType
<1>2. queue \in Seq(FrameType) /\ Len(queue) <= SinkCap
  BY NothingInside, StreamHubAssumption DEF Init
<1>3. owes \in BOOLEAN /\ pump \in BOOLEAN /\ peer \in BOOLEAN
  BY Booleans, Zenon DEF Init
<1>4. holder \in [by : Threads, next : Stages]
  BY HoldersAreHolders DEF Init
<1>5. writer \in [next : {"recv", "took", "lock", "check", "write", "gone"}, hand : FrameType]
  BY FramesAreFrames DEF Init
<1>6. queued \in Int /\ lost \in Nat /\ pushes \in Nat /\ reader \in {"reads", "joins", "told"}
  BY DEF Init
<1>7. wire \in [last : Nat, frames : Nat, losses : Nat]
  BY DEF Init
<1> QED
  BY <1>1, <1>2, <1>3, <1>4, <1>5, <1>6, <1>7 DEF TypeOK, SinkType, Threads, Stages

LEMMA NextType == TypeOK /\ [Next]_vars => TypeOK'
<1> SUFFICES ASSUME TypeOK, [Next]_vars PROVE TypeOK'
  OBVIOUS
<1> USE DEF TypeOK
<1>1. ASSUME NEW detach \in BOOLEAN, Push(detach) PROVE TypeOK'
  BY <1>1 DEF Push, At
<1>2. CASE RepayNothing
  <2>1. holder' \in [by : Threads, next : Stages]
    BY <1>2, HolderType DEF RepayNothing
  <2> QED
    BY <1>2, <2>1 DEF RepayNothing, Threads, Stages
<1>3. CASE Raise
  <2>1. holder' \in [by : Threads, next : Stages]
    <3>1. {"send", "notice"} \subseteq Stages
      BY DEF Stages
    <3> QED
      BY <1>3, <3>1, HolderType, HoldersAreHolders DEF Raise
  <2>2. queued' \in Int
    BY <1>3 DEF Raise
  <2> QED
    BY <1>3, <2>1, <2>2 DEF Raise, Threads, Stages
<1>4. CASE SendNotice
  <2>1. Loss(sink.pending_loss) \in FrameType
    BY FramesAreFrames
  <2>2. queue' \in Seq(FrameType) /\ Len(queue') <= SinkCap
    <3>1. CASE Room
      <4>1. queue' = Append(queue, Loss(sink.pending_loss))
        BY <1>4, <3>1 DEF SendNotice
      <4> QED
        BY <4>1, <3>1, <2>1, PutIn, StreamHubAssumption DEF Room
    <3>2. CASE ~Room
      BY <1>4, <3>2 DEF SendNotice
    <3> QED
      BY <3>1, <3>2
  <2>3. holder' \in [by : Threads, next : Stages]
    <3>1. "clear" \in Stages
      BY DEF Stages
    <3> QED
      BY <1>4, <3>1, HolderType, HoldersAreHolders DEF SendNotice
  <2>4. queued' \in Int
    BY <1>4 DEF SendNotice
  <2> QED
    BY <1>4, <2>2, <2>3, <2>4 DEF SendNotice, Threads, Stages
<1>5. CASE ClearDebt
  <2>1. holder' \in [by : Threads, next : Stages]
    BY <1>5, HolderType DEF ClearDebt
  <2>2. sink' \in [in : BOOLEAN, lag : Nat, loss_notify : BOOLEAN, pending_loss : Nat]
    BY <1>5 DEF ClearDebt
  <2> QED
    BY <1>5, <2>1, <2>2 DEF ClearDebt, Threads, Stages
<1>6. CASE SendFrame
  <2>1. Frame(pushes) \in FrameType /\ Detach(pushes) \in FrameType
    BY FramesAreFrames
  <2>2. queue' \in Seq(FrameType) /\ Len(queue') <= SinkCap
    <3>1. CASE Room
      <4>1. PICK f \in FrameType : queue' = Append(queue, f)
        BY <1>6, <3>1, <2>1 DEF SendFrame
      <4> QED
        BY <4>1, <3>1, PutIn, StreamHubAssumption DEF Room
    <3>2. CASE ~Room
      BY <1>6, <3>2 DEF SendFrame
    <3> QED
      BY <3>1, <3>2
  <2>3. holder' \in [by : Threads, next : Stages]
    <3>1. "count" \in Stages
      BY DEF Stages
    <3> QED
      BY <1>6, <3>1, HolderType, HoldersAreHolders DEF SendFrame
  <2>5. queued' \in Int
    BY <1>6 DEF SendFrame
  <2>4. sink' \in SinkType
    <3>1. \/ sink' = sink
          \/ sink' = [sink EXCEPT !.lag = 0]
          \/ sink' = [sink EXCEPT !.in = FALSE]
      BY <1>6 DEF SendFrame
    <3>2. sink \in SinkType
      BY SinkIsSink
    <3>3. [sink EXCEPT !.in = FALSE] \in SinkType
      BY <3>2, CutIsSink
    <3>4. [sink EXCEPT !.lag = 0] \in SinkType
      BY <3>2, SinksAreSinks, Booleans, ZeroIsNat
    <3> QED
      BY <3>1, <3>2, <3>3, <3>4
  <2> QED
    BY <1>6, <2>2, <2>3, <2>4, <2>5 DEF SendFrame, SinkType, Threads, Stages
<1>7. CASE CountLoss
  <2>1. sink' \in SinkType
    <3> DEFINE s == [sink EXCEPT !.pending_loss = @ + 1, !.lag = @ + 1]
               b == s.lag < LagLimit
    <3>1. s \in SinkType
      <4>1. sink.pending_loss + 1 \in Nat /\ sink.lag + 1 \in Nat
        OBVIOUS
      <4>2. s = [sink EXCEPT !.pending_loss = sink.pending_loss + 1, !.lag = sink.lag + 1]
        OBVIOUS
      <4> HIDE DEF s
      <4> QED
        BY <4>1, <4>2, SinkIsSink, SinksAreSinks, Booleans
    <3>2. sink' = [s EXCEPT !.in = b]
      BY <1>7 DEF CountLoss
    <3>3. b \in BOOLEAN
      OBVIOUS
    <3> HIDE DEF s, b
    <3> QED
      BY <3>1, <3>2, <3>3, SinksAreSinks, ZeroIsNat
  <2>2. owes' \in BOOLEAN
    BY <1>7 DEF CountLoss, Owes
  <2> QED
    BY <1>7, <2>1, <2>2 DEF CountLoss, Nobody, SinkType
<1>8. CASE Recv
  BY <1>8, TakeOut, StreamHubAssumption DEF Recv
<1>9. CASE Took
  BY <1>9 DEF Took
<1>10. CASE RepayNow
  BY <1>10 DEF RepayNow, At, Nobody
<1>11. CASE CheckCurrent
  BY <1>11, FramesAreFrames DEF CheckCurrent
<1>12. CASE Write
  <2>1. wire' \in [last : Nat, frames : Nat, losses : Nat]
    <3>1. writer.hand.n \in Nat
      BY DEF FrameType
    <3> DEFINE n == writer.hand.n
    <3>2. \/ wire' = [wire EXCEPT !.losses = wire.losses + n]
          \/ wire' = [wire EXCEPT !.last = n, !.frames = wire.frames + 1]
      BY <1>12 DEF Write
    <3> HIDE DEF n
    <3>3. n \in Nat /\ wire.losses + n \in Nat /\ wire.frames + 1 \in Nat
      BY <3>1 DEF n
    <3> QED
      BY <3>2, <3>3
  <2>2. /\ writer' \in [next : {"recv", "took", "lock", "check", "write", "gone"}, hand : FrameType]
        /\ queue' \in Seq(FrameType) /\ Len(queue') <= SinkCap
    <3>1. writer' = [next |-> "recv", hand |-> NoFrame] \/ writer' = [next |-> "gone", hand |-> NoFrame]
      BY <1>12 DEF Write, Exit
    <3>2. queue' = queue \/ queue' = <<>>
      BY <1>12 DEF Write, Exit
    <3>3. writer' \in [next : {"recv", "took", "lock", "check", "write", "gone"}, hand : FrameType]
      BY <3>1, FramesAreFrames
    <3>4. Len(<<>>) <= SinkCap
      BY NothingInside, StreamHubAssumption
    <3> QED
      BY <3>2, <3>3, <3>4, NothingInside
  <2> QED
    BY <1>12, <2>1, <2>2 DEF Write
<1>13. CASE WriterEnds
  BY <1>13, FramesAreFrames, NothingInside, StreamHubAssumption DEF WriterEnds, Exit
<1>14. CASE Unregister
  BY <1>14 DEF Unregister
<1>15. CASE Tell
  BY <1>15 DEF Tell
<1>16. CASE PumpInbound
  BY <1>16 DEF PumpInbound
<1>17. CASE EnableLossNotify
  BY <1>17 DEF EnableLossNotify, Owes
<1>18. CASE RepayAll
  BY <1>18 DEF RepayAll, At, Nobody
<1>19. CASE PeerGone
  <2>1. peer' \in BOOLEAN
    BY <1>19, Booleans, Zenon DEF PeerGone
  <2> QED
    BY <1>19, <2>1 DEF PeerGone
<1>20. CASE UnregisterBound
  <2>1. sink' \in SinkType
    BY <1>20, SinkIsSink, CutIsSink DEF UnregisterBound
  <2> QED
    BY <1>20, <2>1 DEF UnregisterBound, SinkType
<1>21. CASE UNCHANGED vars
  BY <1>21 DEF vars
<1> QED
  BY <1>1, <1>2, <1>3, <1>4, <1>5, <1>6, <1>7, <1>8, <1>9, <1>10, <1>11, <1>12, <1>13, <1>14,
     <1>15, <1>16, <1>17, <1>18, <1>19, <1>20, <1>21
  DEF Next, LockedStep, WriterStep, ReaderStep, MainLoop

\* The state stays well formed, and the channel within its capacity (push_to).
THEOREM TypeCorrect == Spec => []TypeOK
<1>1. Init => TypeOK
  BY InitType
<1>2. TypeOK /\ [Next]_vars => TypeOK'
  BY NextType
<1> QED
  BY <1>1, <1>2, PTL DEF Spec

-----------------------------------------------------------------------------
(* The backlog counter.                                                    *)

\* The frame the writer took and has not yet taken off the counter, and the one
\* that is counted and not yet in the channel.
Taken == IF writer.next = "took" THEN 1 ELSE 0
Raised == IF holder.next \in {"notice", "send"} THEN 1 ELSE 0

\* The counter counts the channel, the frame the writer has just taken and the one
\* about to go in.  A writer that ends leaves the frames of its channel counted.
\* Whoever was told of the end was told after the writer had ended.
Counted ==
    /\ queued >= Len(queue) + Taken + Raised
    /\ writer.next # "gone" => queued = Len(queue) + Taken + Raised
    /\ reader = "told" => writer.next = "gone"

LEMMA InitCounted == Init => Counted
  BY NothingInside DEF Init, Counted, Taken, Raised, Nobody

\* What lies in the channel after the lock's holder tried to put a frame in.
LEMMA TriedCounted ==
    ASSUME TypeOK, Counted, UNCHANGED <<writer, reader>>, holder.next \in {"notice", "send"},
           holder'.next \notin {"notice", "send"}, NEW f \in FrameType,
           IF Room THEN queue' = Append(queue, f) /\ UNCHANGED queued
                   ELSE queued' = queued - 1 /\ UNCHANGED queue
    PROVE  Counted'
<1>1. queued \in Int /\ queue \in Seq(FrameType) /\ Len(queue) \in Nat
  BY DEF TypeOK
<1>2. Taken' = Taken /\ Taken \in {0, 1} /\ Raised = 1 /\ Raised' = 0
  BY DEF Taken, Raised
<1>3. CASE Room
  <2>1. Len(queue') = Len(queue) + 1 /\ queued' = queued
    BY <1>1, <1>3, PutIn
  <2> QED
    BY <1>1, <1>2, <2>1 DEF Counted
<1>4. CASE ~Room
  BY <1>1, <1>2, <1>4 DEF Counted
<1> QED
  BY <1>3, <1>4

\* Steps that change neither the counter nor the channel nor what is under way.
LEMMA UntouchedCounted ==
    ASSUME TypeOK, Counted, UNCHANGED <<queue, queued, reader>>,
           Taken' = Taken, Raised' = Raised, writer.next = "gone" <=> writer'.next = "gone"
    PROVE  Counted'
  BY DEF Counted

\* Nothing is between the counter and the channel after the debt is dealt with.
LEMMA AfterRepayRaisesNothing == AfterRepay.next \notin {"notice", "send"}
  BY DEF AfterRepay, At, Nobody

LEMMA NextCounted == TypeOK /\ TypeOK' /\ Counted /\ [Next]_vars => Counted'
<1> SUFFICES ASSUME TypeOK, TypeOK', Counted, [Next]_vars PROVE Counted'
  OBVIOUS
<1>t. /\ queued \in Int /\ queue \in Seq(FrameType) /\ Len(queue) \in Nat
      /\ Taken \in {0, 1} /\ Raised \in {0, 1}
  BY DEF TypeOK, Taken, Raised
<1>1. ASSUME NEW detach \in BOOLEAN, Push(detach) PROVE Counted'
  <2>1. Raised' = 0 /\ Raised = 0 /\ Taken' = Taken
    BY <1>1 DEF Push, At, Raised, Taken, Free, Nobody
  <2> QED
    BY <1>1, <2>1, UntouchedCounted DEF Push
<1>2. CASE RepayNothing
  <2>1. Raised' = 0 /\ Raised = 0 /\ Taken' = Taken
    BY <1>2, AfterRepayRaisesNothing DEF RepayNothing, Raised, Taken
  <2> QED
    BY <1>2, <2>1, UntouchedCounted DEF RepayNothing
<1>3. CASE Raise
  <2>1. Raised' = 1 /\ Raised = 0 /\ Taken' = Taken
    BY <1>3 DEF Raise, At, Raised, Taken
  <2> QED
    BY <1>3, <1>t, <2>1 DEF Raise, Counted
<1>4. CASE SendNotice
  <2>1. Loss(sink.pending_loss) \in FrameType
    BY FramesAreFrames DEF TypeOK
  <2>2. holder'.next \notin {"notice", "send"}
    BY <1>4, AfterRepayRaisesNothing DEF SendNotice, At
  <2> QED
    BY <1>4, <2>1, <2>2, TriedCounted DEF SendNotice
<1>5. CASE ClearDebt
  <2>1. Raised' = 0 /\ Raised = 0 /\ Taken' = Taken
    BY <1>5, AfterRepayRaisesNothing DEF ClearDebt, Raised, Taken
  <2> QED
    BY <1>5, <2>1, UntouchedCounted DEF ClearDebt
<1>6. CASE SendFrame
  <2> DEFINE f == IF holder.by = "detach" THEN Detach(pushes) ELSE Frame(pushes)
  <2>1. f \in FrameType
    BY FramesAreFrames DEF TypeOK
  <2>2. holder'.next \notin {"notice", "send"}
    BY <1>6 DEF SendFrame, At, Nobody
  <2>3. IF Room THEN queue' = Append(queue, f) /\ UNCHANGED queued
                ELSE queued' = queued - 1 /\ UNCHANGED queue
    BY <1>6 DEF SendFrame
  <2> HIDE DEF f
  <2> QED
    BY <1>6, <2>1, <2>2, <2>3, TriedCounted DEF SendFrame
<1>7. CASE CountLoss
  <2>1. Raised' = 0 /\ Raised = 0 /\ Taken' = Taken
    BY <1>7 DEF CountLoss, Nobody, Raised, Taken
  <2> QED
    BY <1>7, <2>1, UntouchedCounted DEF CountLoss
<1>8. CASE Recv
  <2>1. Len(queue') = Len(queue) - 1
    BY <1>8, <1>t, TakeOut DEF Recv
  <2>2. Taken' = 1 /\ Taken = 0 /\ Raised' = Raised /\ writer.next = "recv" /\ writer'.next = "took"
    BY <1>8 DEF Recv, Taken, Raised
  <2> QED
    BY <1>8, <1>t, <2>1, <2>2 DEF Recv, Counted
<1>9. CASE Took
  <2>1. writer'.next \in {"lock", "check"}
    BY <1>9 DEF Took, TypeOK
  <2>2. Taken' = 0 /\ Taken = 1 /\ Raised' = Raised /\ writer.next = "took"
    BY <1>9, <2>1 DEF Took, Taken, Raised
  <2> QED
    BY <1>9, <1>t, <2>1, <2>2 DEF Took, Counted
<1>10. CASE RepayNow
  <2>1. Raised' = 0 /\ Raised = 0
    BY <1>10 DEF RepayNow, At, Nobody, Free, Raised
  <2>2. Taken' = 0 /\ Taken = 0 /\ writer.next = "lock" /\ writer'.next = "check"
    BY <1>10 DEF RepayNow, Taken, TypeOK
  <2> QED
    BY <1>10, <2>1, <2>2, UntouchedCounted DEF RepayNow
<1>11. CASE CheckCurrent
  <2>1. writer.next = "check" /\ writer'.next \in {"write", "recv"}
    BY <1>11 DEF CheckCurrent, TypeOK
  <2>2. Taken' = 0 /\ Taken = 0 /\ Raised' = Raised
    BY <1>11, <2>1 DEF CheckCurrent, Taken, Raised
  <2> QED
    BY <1>11, <2>1, <2>2, UntouchedCounted DEF CheckCurrent
<1>12. ASSUME writer.next \in {"write", "recv"}, Exit, UNCHANGED <<queued, holder, reader>> PROVE Counted'
  <2>1. Taken' = 0 /\ Taken = 0 /\ Raised' = Raised /\ writer'.next = "gone" /\ Len(queue') = 0
    BY <1>12, NothingInside DEF Exit, Taken, Raised
  <2> QED
    BY <1>12, <1>t, <2>1 DEF Counted
<1>13. CASE Write
  <2>1. CASE writer.hand.kind = "detach"
    BY <1>12, <1>13, <2>1 DEF Write
  <2>2. CASE writer.hand.kind # "detach"
    <3>1. writer' = [next |-> "recv", hand |-> NoFrame] /\ UNCHANGED queue /\ writer.next = "write"
      BY <1>13, <2>2 DEF Write
    <3>2. Taken' = 0 /\ Taken = 0 /\ Raised' = Raised
      BY <1>13, <3>1 DEF Write, Taken, Raised
    <3> QED
      BY <1>13, <3>1, <3>2, UntouchedCounted DEF Write
  <2> QED
    BY <2>1, <2>2
<1>14. CASE WriterEnds
  BY <1>12, <1>14 DEF WriterEnds
<1>15. CASE Tell
  BY <1>15 DEF Tell, Counted, Taken, Raised
<1>16. CASE Unregister
  BY <1>16 DEF Unregister, Counted, Taken, Raised
<1>17. CASE PumpInbound \/ EnableLossNotify \/ PeerGone \/ UnregisterBound
  BY <1>17 DEF PumpInbound, EnableLossNotify, PeerGone, UnregisterBound, Counted, Taken, Raised
<1>18. CASE RepayAll
  <2>1. Raised' = 0 /\ Raised = 0 /\ Taken' = Taken
    BY <1>18 DEF RepayAll, At, Nobody, Free, Raised, Taken
  <2> QED
    BY <1>18, <2>1, UntouchedCounted DEF RepayAll
<1>19. CASE UNCHANGED vars
  BY <1>19 DEF vars, Counted, Taken, Raised
<1> QED
  BY <1>1, <1>2, <1>3, <1>4, <1>5, <1>6, <1>7, <1>8, <1>9, <1>10, <1>11, <1>13, <1>14,
     <1>15, <1>16, <1>17, <1>18, <1>19
  DEF Next, LockedStep, WriterStep, ReaderStep, MainLoop

LEMMA CountedAlways == Spec => [](TypeOK /\ Counted)
<1>1. Init => TypeOK /\ Counted
  BY InitType, InitCounted
<1>2. TypeOK /\ Counted /\ [Next]_vars => (TypeOK /\ Counted)'
  BY NextType, NextCounted
<1> QED
  BY <1>1, <1>2, PTL DEF Spec

\* The backlog counter never wraps, and what loss() reads under the lock is the
\* channel, or one more (enqueue_held, took).
THEOREM BacklogIsHonest == Spec => []BacklogHonest
<1>1. TypeOK /\ Counted => BacklogHonest
  <2> SUFFICES ASSUME TypeOK, Counted PROVE BacklogHonest
    OBVIOUS
  <2>1. /\ queued \in Int /\ Len(queue) \in Nat
        /\ Taken \in {0, 1} /\ Raised \in {0, 1}
    BY DEF TypeOK, Taken, Raised
  <2>2. Free => Raised = 0
    BY DEF Free, Nobody, Raised
  <2> QED
    BY <2>1, <2>2 DEF Counted, BacklogHonest, Live
<1> QED
  BY <1>1, CountedAlways, PTL

\* After the main loop was told, nothing more is written (finish_stream_connection
\* joins the writer first).
THEOREM StreamEnds == Spec => StreamEndsBeforeRelease
<1>1. TypeOK /\ Counted /\ [Next]_vars => [reader = "told" => wire' = wire]_vars
  <2> SUFFICES ASSUME TypeOK, Counted, [Next]_vars, reader = "told" PROVE wire' = wire
    OBVIOUS
  <2>1. writer.next = "gone"
    BY DEF Counted
  <2>2. ~Write
    BY <2>1 DEF Write
  <2>3. CASE UNCHANGED vars
    BY <2>3 DEF vars
  <2>4. CASE Next
    BY <2>2, <2>4
    DEF Next, LockedStep, WriterStep, ReaderStep, MainLoop, Push, RepayNothing, Raise, SendNotice,
        ClearDebt, SendFrame, CountLoss, Recv, Took, RepayNow, CheckCurrent, WriterEnds,
        Unregister, Tell, PumpInbound, EnableLossNotify, RepayAll, PeerGone, UnregisterBound
  <2> QED
    BY <2>3, <2>4
<1> QED
  BY <1>1, CountedAlways, PTL DEF Spec, StreamEndsBeforeRelease

-----------------------------------------------------------------------------
(* Sums.  Induction is by a least counterexample: what holds of 0 and goes *)
(* from each number to the next holds of all of them.                      *)

LEMMA Minimal ==
    ASSUME NEW R, IsWellFoundedOn(R, Nat), NEW T \in SUBSET Nat, T # {}
    PROVE  \E x \in T : \A y \in T : ~(<<y, x>> \in R)
<1>1. T \subseteq Nat
  OBVIOUS
<1> QED
  BY <1>1, WFMin, Zenon

\* The order of the numbers, as a relation.
LEMMA Ordered == \E R : IsWellFoundedOn(R, Nat) /\ \A x, y \in Nat : x < y => <<x, y>> \in R
<1> DEFINE R == OpToRel(<, Nat)
<1>1. \A x, y \in Nat : x < y => <<x, y>> \in R
  BY DEF OpToRel
<1>2. IsWellFoundedOn(R, Nat)
  BY NatLessThanWellFounded
<1> HIDE DEF R
<1> QED
  BY <1>1, <1>2

LEMMA Induction ==
    ASSUME NEW S \in SUBSET Nat, 0 \in S, \A n \in S : n + 1 \in S
    PROVE  Nat \subseteq S
<1> SUFFICES ASSUME Nat \ S # {} PROVE FALSE
  OBVIOUS
<1>1. PICK R : IsWellFoundedOn(R, Nat) /\ \A x, y \in Nat : x < y => <<x, y>> \in R
  BY Ordered
<1>2. PICK m \in Nat \ S : \A k \in Nat \ S : ~(<<k, m>> \in R)
  <2>1. (Nat \ S) \in SUBSET Nat
    OBVIOUS
  <2> QED
    BY <1>1, <2>1, Minimal
<1>3. m # 0 /\ m - 1 \in Nat /\ m - 1 < m
  BY <1>2
<1>4. m - 1 \in S
  BY <1>1, <1>2, <1>3
<1> QED
  BY <1>2, <1>3, <1>4

\* f[n] is the sum of the first n of s, for n up to m.
IsSums(f, s, m) ==
    /\ f \in [0..m -> Nat]
    /\ f[0] = 0
    /\ \A n \in 1..m : f[n] = f[n - 1] + s[n]

LEMMA SumsExist == ASSUME NEW s \in Seq(Nat) PROVE \E f : IsSums(f, s, Len(s))
<1> DEFINE S == {m \in Nat : m <= Len(s) => \E f : IsSums(f, s, m)}
<1>1. 0 \in S
  <2>1. IsSums([i \in 0..0 |-> 0], s, 0)
    BY DEF IsSums
  <2> QED
    BY <2>1
<1>2. ASSUME NEW m \in S PROVE m + 1 \in S
  <2> SUFFICES ASSUME m + 1 <= Len(s) PROVE \E f : IsSums(f, s, m + 1)
    OBVIOUS
  <2>1. PICK f : IsSums(f, s, m)
    OBVIOUS
  <2> DEFINE g == [i \in 0..m + 1 |-> IF i = m + 1 THEN f[m] + s[m + 1] ELSE f[i]]
  <2>2. IsSums(g, s, m + 1)
    <3>1. s[m + 1] \in Nat
      OBVIOUS
    <3> QED
      BY <2>1, <3>1 DEF IsSums
  <2> QED
    BY <2>2
<1> HIDE DEF S
<1>3. Nat \subseteq S
  <2>1. S \in SUBSET Nat
    BY DEF S
  <2> QED
    BY <1>1, <1>2, <2>1, Induction
<1>4. Len(s) \in S /\ Len(s) <= Len(s)
  BY <1>3
<1> QED
  BY <1>4 DEF S

\* What the model calls the sums of s are its sums.
LEMMA SumsAre == ASSUME NEW s \in Seq(Nat) PROVE IsSums(Sums(s), s, Len(s))
<1> DEFINE sum[n \in 0..Len(s)] == IF n = 0 THEN 0 ELSE sum[n - 1] + s[n]
<1>1. PICK f : IsSums(f, s, Len(s))
  BY SumsExist
<1>2. f = [n \in 0..Len(s) |-> IF n = 0 THEN 0 ELSE f[n - 1] + s[n]]
  BY <1>1 DEF IsSums
<1>3. sum = [n \in 0..Len(s) |-> IF n = 0 THEN 0 ELSE sum[n - 1] + s[n]]
  BY <1>2
<1>4. Sums(s) = sum
  BY DEF Sums
<1> HIDE DEF sum
<1>5. \A n \in 0..Len(s) : sum[n] \in Nat
  <2> DEFINE S == {n \in Nat : n <= Len(s) => sum[n] \in Nat}
  <2>1. 0 \in S
    BY <1>3
  <2>2. ASSUME NEW n \in S PROVE n + 1 \in S
    BY <1>3
  <2> HIDE DEF S
  <2>3. S \in SUBSET Nat
    BY DEF S
  <2>4. Nat \subseteq S
    BY <2>1, <2>2, <2>3, Induction
  <2> QED
    BY <2>4 DEF S
<1>6. sum \in [0..Len(s) -> Nat]
  BY <1>3, <1>5
<1>7. sum[0] = 0 /\ \A n \in 1..Len(s) : sum[n] = sum[n - 1] + s[n]
  BY <1>3
<1> QED
  BY <1>4, <1>6, <1>7 DEF IsSums

\* A stretch of s that is the beginning of t adds up to the same.
LEMMA SumsShift ==
    ASSUME NEW s \in Seq(Nat), NEW t \in Seq(Nat), NEW d \in Nat, NEW m \in Nat,
           m <= Len(t), d + m <= Len(s), \A i \in 1..m : t[i] = s[d + i]
    PROVE  \A n \in 0..m : Sums(s)[d + n] = Sums(s)[d] + Sums(t)[n]
<1> DEFINE S == {n \in Nat : n <= m => Sums(s)[d + n] = Sums(s)[d] + Sums(t)[n]}
<1>0. IsSums(Sums(s), s, Len(s)) /\ IsSums(Sums(t), t, Len(t))
  BY SumsAre
<1>1. 0 \in S
  <2>1. d + 0 = d /\ d \in 0..Len(s)
    OBVIOUS
  <2>2. Sums(s)[d] \in Nat /\ Sums(t)[0] = 0
    BY <1>0, <2>1 DEF IsSums
  <2>3. Sums(s)[d + 0] = Sums(s)[d] + Sums(t)[0]
    BY <2>1, <2>2
  <2> QED
    BY <2>3
<1>2. ASSUME NEW n \in S PROVE n + 1 \in S
  <2> SUFFICES ASSUME n + 1 <= m PROVE Sums(s)[d + (n + 1)] = Sums(s)[d] + Sums(t)[n + 1]
    OBVIOUS
  <2>1. Sums(s)[d + n] = Sums(s)[d] + Sums(t)[n] /\ t[n + 1] = s[d + (n + 1)]
    OBVIOUS
  <2>2. d + (n + 1) \in 1..Len(s) /\ n + 1 \in 1..Len(t) /\ (d + (n + 1)) - 1 = d + n /\ (n + 1) - 1 = n
    OBVIOUS
  <2>3. Sums(s)[d + (n + 1)] = Sums(s)[d + n] + s[d + (n + 1)]
    BY <1>0, <2>2 DEF IsSums
  <2>4. Sums(t)[n + 1] = Sums(t)[n] + t[n + 1]
    BY <1>0, <2>2 DEF IsSums
  <2>5. s[d + (n + 1)] \in Nat /\ d \in 0..Len(s) /\ n \in 0..Len(t)
    BY <2>2
  <2>6. Sums(s)[d] \in Nat /\ Sums(t)[n] \in Nat
    BY <1>0, <2>5 DEF IsSums
  <2>7. Sums(s)[d + (n + 1)] = (Sums(s)[d] + Sums(t)[n]) + t[n + 1]
    BY <2>1, <2>3
  <2>8. (Sums(s)[d] + Sums(t)[n]) + t[n + 1] = Sums(s)[d] + (Sums(t)[n] + t[n + 1])
    <3>1. t[n + 1] \in Nat
      BY <2>1, <2>5
    <3>2. \A a, b, c \in Nat : (a + b) + c = a + (b + c)
      OBVIOUS
    <3> QED
      BY <2>6, <3>1, <3>2
  <2> QED
    BY <2>4, <2>7, <2>8
<1> HIDE DEF S
<1>3. S \in SUBSET Nat
  BY DEF S
<1>4. Nat \subseteq S
  BY <1>1, <1>2, <1>3, Induction
<1> QED
  BY <1>4 DEF S

LEMMA SumsAreNat ==
    ASSUME NEW s \in Seq(Nat), NEW n \in 0..Len(s)
    PROVE  Sums(s)[n] \in Nat
  BY SumsAre DEF IsSums

\* One more at the end.
LEMMA SumsOfMore ==
    ASSUME NEW s \in Seq(Nat), NEW t \in Seq(Nat), Len(t) = Len(s) + 1,
           \A i \in 1..Len(s) : t[i] = s[i]
    PROVE  /\ \A n \in 0..Len(s) : Sums(t)[n] = Sums(s)[n]
           /\ Sums(t)[Len(t)] = Sums(s)[Len(s)] + t[Len(t)]
<1>1. IsSums(Sums(t), t, Len(t)) /\ IsSums(Sums(s), s, Len(s))
  BY SumsAre
<1>2. \A n \in 0..Len(s) : Sums(t)[n] = Sums(s)[n]
  <2> DEFINE d == 0
             m == Len(s)
  <2>1. d \in Nat /\ m \in Nat /\ m <= Len(s) /\ d + m <= Len(t) /\ \A i \in 1..m : s[i] = t[d + i]
    OBVIOUS
  <2> HIDE DEF d, m
  <2>2. \A n \in 0..m : Sums(t)[d + n] = Sums(t)[d] + Sums(s)[n]
    BY <2>1, SumsShift
  <2>3. ASSUME NEW n \in 0..Len(s) PROVE Sums(t)[n] = Sums(s)[n]
    <3>1. Sums(t)[0] = 0 /\ Sums(s)[n] \in Nat
      BY <1>1 DEF IsSums
    <3>2. 0 + n = n
      OBVIOUS
    <3>3. Sums(t)[0 + n] = Sums(t)[0] + Sums(s)[n]
      BY <2>2 DEF d, m
    <3> QED
      BY <3>1, <3>2, <3>3
  <2> QED
    BY <2>3
<1>3. Len(s) \in Nat /\ Len(t) \in 1..Len(t) /\ Len(t) - 1 = Len(s) /\ Len(s) \in 0..Len(s)
  OBVIOUS
<1>4. Sums(t)[Len(t)] = Sums(t)[Len(s)] + t[Len(t)]
  BY <1>1, <1>3 DEF IsSums
<1>5. Sums(t)[Len(s)] = Sums(s)[Len(s)]
  BY <1>2, <1>3
<1> QED
  BY <1>2, <1>4, <1>5

\* One less at the front.
LEMMA SumsOfLess ==
    ASSUME NEW s \in Seq(Nat), NEW t \in Seq(Nat), Len(s) = Len(t) + 1,
           \A i \in 1..Len(t) : t[i] = s[i + 1]
    PROVE  \A n \in 0..Len(t) : Sums(s)[n + 1] = s[1] + Sums(t)[n]
<1>1. IsSums(Sums(s), s, Len(s))
  BY SumsAre
<1> DEFINE d == 1
           m == Len(t)
<1>2. d \in Nat /\ m \in Nat /\ m <= Len(t) /\ d + m <= Len(s) /\ \A i \in 1..m : t[i] = s[d + i]
  OBVIOUS
<1>3. Sums(s)[1] = s[1]
  <2>1. 1 \in 1..Len(s) /\ 1 - 1 = 0 /\ s[1] \in Nat
    OBVIOUS
  <2>2. Sums(s)[1] = Sums(s)[0] + s[1] /\ Sums(s)[0] = 0
    BY <1>1, <2>1 DEF IsSums
  <2> QED
    BY <2>1, <2>2
<1> HIDE DEF d, m
<1>4. \A n \in 0..m : Sums(s)[d + n] = Sums(s)[d] + Sums(t)[n]
  BY <1>2, SumsShift
<1>5. ASSUME NEW n \in 0..Len(t) PROVE Sums(s)[n + 1] = s[1] + Sums(t)[n]
  <2>1. Sums(s)[1 + n] = Sums(s)[1] + Sums(t)[n]
    BY <1>4 DEF d, m
  <2>2. 1 + n = n + 1
    OBVIOUS
  <2> QED
    BY <1>3, <2>1, <2>2
<1> QED
  BY <1>5

-----------------------------------------------------------------------------
(* The losses and the pushes that lie in a channel.                        *)

LEMMA FramesWeigh ==
    ASSUME NEW f \in FrameType
    PROVE  Losses(f) \in Nat /\ Pushed(f) \in {0, 1}
  BY DEF FrameType, Losses, Pushed

LossesOf(q) == [i \in DOMAIN q |-> Losses(q[i])]
PushesOf(q) == [i \in DOMAIN q |-> Pushed(q[i])]

LEMMA ChannelsWeigh ==
    ASSUME NEW q \in Seq(FrameType)
    PROVE  /\ LossesOf(q) \in Seq(Nat) /\ Len(LossesOf(q)) = Len(q)
           /\ PushesOf(q) \in Seq(Nat) /\ Len(PushesOf(q)) = Len(q)
           /\ \A i \in 1..Len(q) : LossesOf(q)[i] = Losses(q[i]) /\ PushesOf(q)[i] = Pushed(q[i])
           /\ LossSums(q) = Sums(LossesOf(q)) /\ PushSums(q) = Sums(PushesOf(q))
<1>1. DOMAIN q = 1..Len(q) /\ Len(q) \in Nat
  OBVIOUS
<1>2. \A i \in 1..Len(q) : Losses(q[i]) \in Nat /\ Pushed(q[i]) \in Nat
  BY FramesWeigh
<1>3. LossesOf(q) = [i \in 1..Len(q) |-> Losses(q[i])] /\ PushesOf(q) = [i \in 1..Len(q) |-> Pushed(q[i])]
  BY <1>1 DEF LossesOf, PushesOf
<1>4. LossSums(q) = Sums(LossesOf(q)) /\ PushSums(q) = Sums(PushesOf(q))
  BY DEF LossSums, PushSums, LossesOf, PushesOf
<1> HIDE DEF LossesOf, PushesOf
<1> QED
  BY <1>1, <1>2, <1>3, <1>4

LEMMA ChannelSumsAreNat ==
    ASSUME NEW q \in Seq(FrameType), NEW n \in 0..Len(q)
    PROVE  LossSums(q)[n] \in Nat /\ PushSums(q)[n] \in Nat
  BY ChannelsWeigh, SumsAreNat

LEMMA NothingWeighsNothing == LossSums(<<>>)[0] = 0 /\ PushSums(<<>>)[0] = 0
<1>1. <<>> \in Seq(FrameType) /\ Len(<<>>) = 0
  BY NothingInside
<1>2. LossesOf(<<>>) \in Seq(Nat) /\ PushesOf(<<>>) \in Seq(Nat)
  BY <1>1, ChannelsWeigh
<1> QED
  BY <1>1, <1>2, ChannelsWeigh, SumsAre DEF IsSums

\* A frame put in weighs what it weighs, and nothing before it changes.
LEMMA PutInWeighs ==
    ASSUME NEW q \in Seq(FrameType), NEW f \in FrameType, NEW r, r = Append(q, f)
    PROVE  /\ \A n \in 0..Len(q) : LossSums(r)[n] = LossSums(q)[n] /\ PushSums(r)[n] = PushSums(q)[n]
           /\ LossSums(r)[Len(r)] = LossSums(q)[Len(q)] + Losses(f)
           /\ PushSums(r)[Len(r)] = PushSums(q)[Len(q)] + Pushed(f)
<1>1. /\ r \in Seq(FrameType) /\ Len(r) = Len(q) + 1 /\ Len(q) \in Nat
      /\ r[Len(r)] = f /\ \A i \in 1..Len(q) : r[i] = q[i]
  OBVIOUS
<1>2. /\ LossesOf(q) \in Seq(Nat) /\ LossesOf(r) \in Seq(Nat)
      /\ PushesOf(q) \in Seq(Nat) /\ PushesOf(r) \in Seq(Nat)
      /\ Len(LossesOf(q)) = Len(q) /\ Len(LossesOf(r)) = Len(r)
      /\ Len(PushesOf(q)) = Len(q) /\ Len(PushesOf(r)) = Len(r)
  BY <1>1, ChannelsWeigh
<1>w. /\ \A i \in 1..Len(q) : LossesOf(q)[i] = Losses(q[i]) /\ PushesOf(q)[i] = Pushed(q[i])
      /\ \A i \in 1..Len(r) : LossesOf(r)[i] = Losses(r[i]) /\ PushesOf(r)[i] = Pushed(r[i])
  BY <1>1, ChannelsWeigh
<1>3. \A i \in 1..Len(q) : LossesOf(r)[i] = LossesOf(q)[i] /\ PushesOf(r)[i] = PushesOf(q)[i]
  <2> TAKE i \in 1..Len(q)
  <2>1. i \in 1..Len(r) /\ r[i] = q[i]
    BY <1>1
  <2> QED
    BY <1>w, <2>1
<1>4. LossesOf(r)[Len(r)] = Losses(f) /\ PushesOf(r)[Len(r)] = Pushed(f)
  <2>1. Len(r) \in 1..Len(r)
    BY <1>1
  <2> QED
    BY <1>1, <1>w, <2>1
<1>5. /\ \A n \in 0..Len(q) : Sums(LossesOf(r))[n] = Sums(LossesOf(q))[n]
      /\ Sums(LossesOf(r))[Len(r)] = Sums(LossesOf(q))[Len(q)] + Losses(f)
  <2> DEFINE s == LossesOf(q)
             t == LossesOf(r)
  <2>1. /\ s \in Seq(Nat) /\ t \in Seq(Nat) /\ Len(s) = Len(q) /\ Len(t) = Len(r)
        /\ Len(t) = Len(s) + 1 /\ t[Len(t)] = Losses(f) /\ \A i \in 1..Len(s) : t[i] = s[i]
    BY <1>1, <1>2, <1>3, <1>4
  <2> HIDE DEF s, t
  <2>2. /\ \A n \in 0..Len(s) : Sums(t)[n] = Sums(s)[n]
        /\ Sums(t)[Len(t)] = Sums(s)[Len(s)] + t[Len(t)]
    BY <2>1, SumsOfMore
  <2> QED
    BY <2>1, <2>2 DEF s, t
<1>6. /\ \A n \in 0..Len(q) : Sums(PushesOf(r))[n] = Sums(PushesOf(q))[n]
      /\ Sums(PushesOf(r))[Len(r)] = Sums(PushesOf(q))[Len(q)] + Pushed(f)
  <2> DEFINE s == PushesOf(q)
             t == PushesOf(r)
  <2>1. /\ s \in Seq(Nat) /\ t \in Seq(Nat) /\ Len(s) = Len(q) /\ Len(t) = Len(r)
        /\ Len(t) = Len(s) + 1 /\ t[Len(t)] = Pushed(f) /\ \A i \in 1..Len(s) : t[i] = s[i]
    BY <1>1, <1>2, <1>3, <1>4
  <2> HIDE DEF s, t
  <2>2. /\ \A n \in 0..Len(s) : Sums(t)[n] = Sums(s)[n]
        /\ Sums(t)[Len(t)] = Sums(s)[Len(s)] + t[Len(t)]
    BY <2>1, SumsOfMore
  <2> QED
    BY <2>1, <2>2 DEF s, t
<1> QED
  BY <1>1, <1>5, <1>6, ChannelsWeigh

\* A frame taken out takes its weight with it.
LEMMA TakeOutWeighs ==
    ASSUME NEW q \in Seq(FrameType), q # <<>>, NEW r, r = Tail(q)
    PROVE  \A n \in 0..Len(r) : /\ LossSums(q)[n + 1] = Losses(Head(q)) + LossSums(r)[n]
                                /\ PushSums(q)[n + 1] = Pushed(Head(q)) + PushSums(r)[n]
<1>1. /\ r \in Seq(FrameType) /\ Len(q) = Len(r) + 1 /\ Len(r) \in Nat
      /\ Head(q) = q[1] /\ \A i \in 1..Len(r) : r[i] = q[i + 1]
  OBVIOUS
<1>2. /\ LossesOf(q) \in Seq(Nat) /\ LossesOf(r) \in Seq(Nat)
      /\ PushesOf(q) \in Seq(Nat) /\ PushesOf(r) \in Seq(Nat)
      /\ Len(LossesOf(q)) = Len(q) /\ Len(LossesOf(r)) = Len(r)
      /\ Len(PushesOf(q)) = Len(q) /\ Len(PushesOf(r)) = Len(r)
  BY <1>1, ChannelsWeigh
<1>w. /\ \A i \in 1..Len(q) : LossesOf(q)[i] = Losses(q[i]) /\ PushesOf(q)[i] = Pushed(q[i])
      /\ \A i \in 1..Len(r) : LossesOf(r)[i] = Losses(r[i]) /\ PushesOf(r)[i] = Pushed(r[i])
  BY <1>1, ChannelsWeigh
<1>3. \A i \in 1..Len(r) : LossesOf(r)[i] = LossesOf(q)[i + 1] /\ PushesOf(r)[i] = PushesOf(q)[i + 1]
  <2> TAKE i \in 1..Len(r)
  <2>1. i + 1 \in 1..Len(q) /\ r[i] = q[i + 1]
    BY <1>1
  <2> QED
    BY <1>w, <2>1
<1>4. LossesOf(q)[1] = Losses(Head(q)) /\ PushesOf(q)[1] = Pushed(Head(q))
  <2>1. 1 \in 1..Len(q)
    BY <1>1
  <2> QED
    BY <1>1, <1>w, <2>1
<1>5. \A n \in 0..Len(r) : Sums(LossesOf(q))[n + 1] = LossesOf(q)[1] + Sums(LossesOf(r))[n]
  <2> DEFINE s == LossesOf(q)
             t == LossesOf(r)
  <2>1. /\ s \in Seq(Nat) /\ t \in Seq(Nat) /\ Len(t) = Len(r)
        /\ Len(s) = Len(t) + 1 /\ \A i \in 1..Len(t) : t[i] = s[i + 1]
    BY <1>1, <1>2, <1>3
  <2> HIDE DEF s, t
  <2>2. \A n \in 0..Len(t) : Sums(s)[n + 1] = s[1] + Sums(t)[n]
    BY <2>1, SumsOfLess
  <2> QED
    BY <2>1, <2>2 DEF s, t
<1>6. \A n \in 0..Len(r) : Sums(PushesOf(q))[n + 1] = PushesOf(q)[1] + Sums(PushesOf(r))[n]
  <2> DEFINE s == PushesOf(q)
             t == PushesOf(r)
  <2>1. /\ s \in Seq(Nat) /\ t \in Seq(Nat) /\ Len(t) = Len(r)
        /\ Len(s) = Len(t) + 1 /\ \A i \in 1..Len(t) : t[i] = s[i + 1]
    BY <1>1, <1>2, <1>3
  <2> HIDE DEF s, t
  <2>2. \A n \in 0..Len(t) : Sums(s)[n + 1] = s[1] + Sums(t)[n]
    BY <2>1, SumsOfLess
  <2> QED
    BY <2>1, <2>2 DEF s, t
<1> QED
  BY <1>1, <1>4, <1>5, <1>6, ChannelsWeigh

-----------------------------------------------------------------------------
(* The account of frames and losses.                                       *)

\* There are only frames in the channel; the writer holds one from taking it to
\* writing it; who holds the lock found the sink; only a push has a frame to send.
Framed ==
    /\ \A i \in DOMAIN queue : queue[i].kind # "none"
    /\ IF writer.next \in {"recv", "gone"} THEN writer.hand = NoFrame ELSE writer.hand.kind # "none"
    /\ ~Free => sink.in
    /\ holder.next \in {"raise", "send", "count"} => Pushing

LEMMA InitFramed == Init => Framed
  BY NothingInside DEF Init, Framed, Free, Nobody

LEMMA AfterRepayFramed ==
    ASSUME ~Free => sink.in, ~Free
    PROVE  /\ AfterRepay # Nobody => sink.in
           /\ AfterRepay.next \in {"raise", "send", "count"} => AfterRepay.by \in {"push", "detach"}
           /\ AfterRepay.next # "clear"
           /\ AfterRepay.by \in {"push", "detach"} <=> Pushing
  BY DEF AfterRepay, At, Nobody, Pushing

\* The part of it about the frames and the writer.
LEMMA FramesKept ==
    ASSUME TypeOK, Framed, NEW f \in FrameType, f.kind # "none",
           queue' = queue \/ queue' = <<>> \/ queue' = Append(queue, f) \/ (queue # <<>> /\ queue' = Tail(queue))
    PROVE  \A i \in DOMAIN queue' : queue'[i].kind # "none"
<1> USE DEF TypeOK
<1>1. CASE queue' = queue
  BY <1>1 DEF Framed
<1>2. CASE queue' = <<>>
  BY <1>2
<1>3. CASE queue' = Append(queue, f)
  <2> TAKE i \in DOMAIN queue'
  <2>1. CASE i = Len(queue) + 1
    BY <1>3, <2>1
  <2>2. CASE i # Len(queue) + 1
    <3>1. i \in DOMAIN queue /\ queue'[i] = queue[i]
      BY <1>3, <2>2
    <3> QED
      BY <3>1 DEF Framed
  <2> QED
    BY <2>1, <2>2
<1>4. CASE queue # <<>> /\ queue' = Tail(queue)
  <2> TAKE i \in DOMAIN queue'
  <2>1. i + 1 \in DOMAIN queue /\ queue'[i] = queue[i + 1]
    BY <1>4
  <2> QED
    BY <2>1 DEF Framed
<1> QED
  BY <1>1, <1>2, <1>3, <1>4

LEMMA KindsOfFrames ==
    ASSUME NEW n \in Nat
    PROVE  /\ Loss(n) \in FrameType /\ Loss(n).kind = "loss" /\ Loss(n).n = n
           /\ Frame(n) \in FrameType /\ Frame(n).kind = "push" /\ Frame(n).n = n
           /\ Detach(n) \in FrameType /\ Detach(n).kind = "detach" /\ Detach(n).n = n
           /\ NoFrame \in FrameType /\ NoFrame.kind = "none"
  BY DEF Loss, Frame, Detach, NoFrame, FrameType, Kinds

\* The frame a push puts in.
ThisFrame == IF holder.by = "detach" THEN Detach(pushes) ELSE Frame(pushes)

LEMMA ThisIsAFrame ==
    ASSUME TypeOK
    PROVE  ThisFrame \in FrameType /\ ThisFrame.kind \in {"push", "detach"} /\ ThisFrame.n = pushes
<1>1. pushes \in Nat
  BY DEF TypeOK
<1> QED
  BY <1>1, KindsOfFrames DEF ThisFrame

LEMMA NextFramed == TypeOK /\ TypeOK' /\ Framed /\ [Next]_vars => Framed'
<1> SUFFICES ASSUME TypeOK, TypeOK', Framed, [Next]_vars PROVE Framed'
  OBVIOUS
<1>f. sink.pending_loss \in Nat /\ pushes \in Nat
  BY DEF TypeOK
<1>1. ASSUME NEW detach \in BOOLEAN, Push(detach) PROVE Framed'
  BY <1>1 DEF Push, At, Framed, Free, Pushing
<1>2. CASE RepayNothing
  BY <1>2, AfterRepayFramed DEF RepayNothing, Framed, Free, Pushing, Nobody
<1>3. CASE Raise
  <2>1. ~Free /\ sink.in
    BY <1>3 DEF Raise, Framed, Free, Nobody
  <2> QED
    BY <1>3, <2>1 DEF Raise, At, Framed, Pushing
<1>4. CASE SendNotice
  <2>1. ~Free /\ sink.in
    BY <1>4 DEF SendNotice, Framed, Free, Nobody
  <2>2. \A i \in DOMAIN queue' : queue'[i].kind # "none"
    BY <1>4, <1>f, FramesKept, KindsOfFrames DEF SendNotice
  <2>3. holder' = At(holder.by, "clear") \/ holder' = AfterRepay
    BY <1>4 DEF SendNotice
  <2>4. holder'.next \in {"raise", "send", "count"} => Pushing'
    BY <2>1, <2>3, AfterRepayFramed DEF At, Pushing
  <2> QED
    BY <1>4, <2>1, <2>2, <2>4 DEF SendNotice, Framed
<1>5. CASE ClearDebt
  <2>1. ~Free /\ sink.in
    BY <1>5 DEF ClearDebt, Framed, Free, Nobody
  <2>2. sink'.in
    BY <1>5, <2>1 DEF ClearDebt, TypeOK
  <2>4. holder'.next \in {"raise", "send", "count"} => Pushing'
    BY <1>5, <2>1, AfterRepayFramed DEF ClearDebt, Pushing
  <2> QED
    BY <1>5, <2>2, <2>4 DEF ClearDebt, Framed
<1>6. CASE SendFrame
  <2>1. ~Free /\ sink.in /\ Pushing
    BY <1>6 DEF SendFrame, Framed, Free, Nobody
  <2>2. \A i \in DOMAIN queue' : queue'[i].kind # "none"
    <3>1. queue' = queue \/ queue' = Append(queue, ThisFrame)
      BY <1>6 DEF SendFrame, ThisFrame
    <3> QED
      BY <3>1, FramesKept, ThisIsAFrame
  <2>3. holder' = Nobody \/ (holder' = At(holder.by, "count") /\ sink' = sink)
    BY <1>6 DEF SendFrame
  <2>4. /\ ~Free' => sink'.in
        /\ holder'.next \in {"raise", "send", "count"} => Pushing'
    BY <2>1, <2>3 DEF At, Pushing, Free, Nobody
  <2> QED
    BY <1>6, <2>2, <2>4 DEF SendFrame, Framed
<1>7. CASE CountLoss
  BY <1>7 DEF CountLoss, Framed, Free, Nobody
<1>8. CASE Recv
  <2>1. Head(queue).kind # "none"
    BY <1>8 DEF Recv, Framed, TypeOK
  <2>2. \A i \in DOMAIN queue' : queue'[i].kind # "none"
    <3>1. Head(queue) \in FrameType
      BY <1>8, TakeOut DEF Recv, TypeOK
    <3> QED
      BY <1>8, <2>1, <3>1, FramesKept DEF Recv
  <2> QED
    BY <1>8, <2>1, <2>2 DEF Recv, Framed, Free, Pushing
<1>9. CASE Took
  BY <1>9 DEF Took, Framed, Free, Pushing, TypeOK
<1>10. CASE RepayNow
  BY <1>10 DEF RepayNow, Framed, Free, Nobody, At, Pushing, TypeOK
<1>11. CASE CheckCurrent
  BY <1>11 DEF CheckCurrent, Framed, Free, Pushing, TypeOK
<1>12. CASE Write
  <2>1. writer' \in {[next |-> "recv", hand |-> NoFrame], [next |-> "gone", hand |-> NoFrame]}
    BY <1>12 DEF Write, Exit
  <2>2. \A i \in DOMAIN queue' : queue'[i].kind # "none"
    <3>1. queue' = queue \/ queue' = <<>>
      BY <1>12 DEF Write, Exit
    <3> QED
      BY <3>1 DEF Framed
  <2> QED
    BY <1>12, <2>1, <2>2 DEF Write, Framed, Free, Pushing
<1>13. CASE WriterEnds
  BY <1>13 DEF WriterEnds, Exit, Framed, Free, Pushing
<1>14. CASE Unregister \/ Tell \/ PumpInbound \/ PeerGone \/ UnregisterBound
  BY <1>14 DEF Unregister, Tell, PumpInbound, PeerGone, UnregisterBound, Framed, Free, Pushing
<1>15. CASE EnableLossNotify
  BY <1>15 DEF EnableLossNotify, Framed, Free, Pushing, TypeOK
<1>16. CASE RepayAll
  BY <1>16 DEF RepayAll, Framed, Free, Nobody, At, Pushing
<1>17. CASE UNCHANGED vars
  BY <1>17 DEF vars, Framed, Free, Pushing
<1> QED
  BY <1>1, <1>2, <1>3, <1>4, <1>5, <1>6, <1>7, <1>8, <1>9, <1>10, <1>11, <1>12, <1>13, <1>14,
     <1>15, <1>16, <1>17
  DEF Next, LockedStep, WriterStep, ReaderStep, MainLoop

\* What is lost and pushed, by where it is: in the channel, in the writer's hand,
\* owed, and in the hands of the push under way.
LossesInside == LossSums(queue)[Len(queue)]
PushesInside == PushSums(queue)[Len(queue)]
LossesInHand == Losses(writer.hand)
PushesInHand == Pushed(writer.hand)
Owed == IF holder.next = "clear" THEN 0 ELSE sink.pending_loss
OnPush == IF Pushing THEN 1 ELSE 0

Account ==
    /\ lost = wire.losses + LossesInHand + LossesInside + Owed
    /\ pushes = wire.frames + PushesInHand + PushesInside + lost + OnPush

LEMMA AccountIsAccount == EveryFrameAccounted <=> (Live => Account)
  BY DEF EveryFrameAccounted, Account, LossesInside, PushesInside, LossesInHand, PushesInHand, Owed, OnPush

LEMMA AccountTypes ==
    ASSUME TypeOK
    PROVE  /\ lost \in Nat /\ pushes \in Nat /\ wire.losses \in Nat /\ wire.frames \in Nat
           /\ LossesInHand \in Nat /\ PushesInHand \in {0, 1}
           /\ LossesInside \in Nat /\ PushesInside \in Nat
           /\ sink.pending_loss \in Nat
<1>1. queue \in Seq(FrameType) /\ Len(queue) \in 0..Len(queue) /\ writer.hand \in FrameType
  BY DEF TypeOK
<1>2. LossesInside \in Nat /\ PushesInside \in Nat
  BY <1>1, ChannelSumsAreNat DEF LossesInside, PushesInside
<1>3. LossesInHand \in Nat /\ PushesInHand \in {0, 1}
  BY <1>1, FramesWeigh DEF LossesInHand, PushesInHand
<1> QED
  BY <1>2, <1>3 DEF TypeOK

LEMMA NoFrameWeighs == Losses(NoFrame) = 0 /\ Pushed(NoFrame) = 0
  BY DEF Losses, Pushed, NoFrame

LEMMA InitAccount == Init => EveryFrameAccounted
<1> SUFFICES ASSUME Init PROVE Account
  BY AccountIsAccount
<1>1. LossesInside = 0 /\ PushesInside = 0
  BY NothingInside, NothingWeighsNothing DEF Init, LossesInside, PushesInside
<1>2. LossesInHand = 0 /\ PushesInHand = 0
  BY NoFrameWeighs DEF Init, LossesInHand, PushesInHand
<1> QED
  BY <1>1, <1>2 DEF Init, Account, Owed, OnPush, Pushing, Nobody

\* A step that leaves every part of the account where it is.
LEMMA AccountStays ==
    ASSUME EveryFrameAccounted, Live' => Live, UNCHANGED <<lost, pushes, wire, queue>>,
           writer'.hand = writer.hand, Owed' = Owed, Pushing' <=> Pushing
    PROVE  EveryFrameAccounted'
<1> SUFFICES ASSUME Live' PROVE Account'
  BY DEF EveryFrameAccounted, Account, LossesInside, PushesInside, LossesInHand, PushesInHand, Owed, OnPush
<1>1. Account
  BY AccountIsAccount
<1>2. /\ LossesInside' = LossesInside /\ PushesInside' = PushesInside
      /\ LossesInHand' = LossesInHand /\ PushesInHand' = PushesInHand /\ OnPush' = OnPush
  BY DEF LossesInside, PushesInside, LossesInHand, PushesInHand, OnPush
<1> QED
  BY <1>1, <1>2 DEF Account

LEMMA NextAccount == TypeOK /\ TypeOK' /\ Framed /\ EveryFrameAccounted /\ [Next]_vars => EveryFrameAccounted'
<1> SUFFICES ASSUME TypeOK, TypeOK', Framed, EveryFrameAccounted, [Next]_vars PROVE EveryFrameAccounted'
  OBVIOUS
<1>a. Live => Account
  BY AccountIsAccount
<1>b. ASSUME Live' => Account' PROVE EveryFrameAccounted'
  BY <1>b DEF EveryFrameAccounted, Account, LossesInside, PushesInside, LossesInHand, PushesInHand, Owed, OnPush
<1>t. /\ lost \in Nat /\ pushes \in Nat /\ wire.losses \in Nat /\ wire.frames \in Nat
      /\ LossesInHand \in Nat /\ PushesInHand \in {0, 1}
      /\ LossesInside \in Nat /\ PushesInside \in Nat
      /\ sink.pending_loss \in Nat
  BY AccountTypes
<1>q. queue \in Seq(FrameType) /\ writer.hand \in FrameType
  BY DEF TypeOK
<1>1. ASSUME NEW detach \in BOOLEAN, Push(detach) PROVE EveryFrameAccounted'
  <2>1. Pushing' /\ ~Pushing /\ Owed' = Owed
    BY <1>1 DEF Push, At, Free, Nobody, Pushing, Owed
  <2>2. /\ pushes' = pushes + 1 /\ UNCHANGED <<lost, wire>> /\ (Live' => Live)
        /\ UNCHANGED <<LossesInside, PushesInside, LossesInHand, PushesInHand>>
    BY <1>1 DEF Push, Live, LossesInside, PushesInside, LossesInHand, PushesInHand
  <2> QED
    BY <1>a, <1>b, <1>t, <2>1, <2>2 DEF Account, OnPush
<1>2. CASE RepayNothing
  <2>1. AfterRepay.next # "clear" /\ (Pushing' <=> Pushing)
    BY <1>2 DEF RepayNothing, AfterRepay, At, Nobody, Pushing
  <2> QED
    BY <1>2, <2>1, AccountStays DEF RepayNothing, Live, Owed
<1>3. CASE Raise
  BY <1>3, AccountStays DEF Raise, At, Live, Owed, Pushing
<1>4. CASE SendNotice
  <2>1. CASE Room
    <3>1. queue' = Append(queue, Loss(sink.pending_loss)) /\ holder.next = "notice"
          /\ holder' = At(holder.by, "clear")
      BY <1>4, <2>1 DEF SendNotice
    <3>2. /\ LossesInside' = LossesInside + Losses(Loss(sink.pending_loss))
          /\ PushesInside' = PushesInside + Pushed(Loss(sink.pending_loss))
      <4> DEFINE f == Loss(sink.pending_loss)
      <4>1. f \in FrameType /\ queue' = Append(queue, f)
        BY <1>t, <3>1, KindsOfFrames
      <4> HIDE DEF f
      <4>2. /\ LossesInside' = LossesInside + Losses(f)
            /\ PushesInside' = PushesInside + Pushed(f)
        BY <1>q, <4>1, PutInWeighs DEF LossesInside, PushesInside
      <4> QED
        BY <4>2 DEF f
    <3>3. Losses(Loss(sink.pending_loss)) = sink.pending_loss /\ Pushed(Loss(sink.pending_loss)) = 0
      BY <1>t, KindsOfFrames DEF Losses, Pushed
    <3>4. Owed = sink.pending_loss /\ Owed' = 0 /\ OnPush' = OnPush
      BY <3>1 DEF Owed, At, OnPush, Pushing
    <3>5. /\ UNCHANGED <<lost, pushes, wire, LossesInHand, PushesInHand>> /\ (Live' => Live)
      BY <1>4 DEF SendNotice, Live, LossesInHand, PushesInHand
    <3> QED
      BY <1>a, <1>b, <1>t, <3>2, <3>3, <3>4, <3>5 DEF Account
  <2>2. CASE ~Room
    <3>1. holder' = AfterRepay /\ UNCHANGED queue /\ holder.next = "notice"
      BY <1>4, <2>2 DEF SendNotice
    <3>2. AfterRepay.next # "clear" /\ (Pushing' <=> Pushing)
      BY <3>1 DEF AfterRepay, At, Nobody, Pushing
    <3> QED
      BY <1>4, <3>1, <3>2, AccountStays DEF SendNotice, Live, Owed
  <2> QED
    BY <2>1, <2>2
<1>5. CASE ClearDebt
  <2>1. AfterRepay.next # "clear" /\ (Pushing' <=> Pushing)
    BY <1>5 DEF ClearDebt, AfterRepay, At, Nobody, Pushing
  <2>2. sink'.pending_loss = 0 /\ sink'.in = sink.in
    BY <1>5 DEF ClearDebt, TypeOK
  <2>3. Owed = 0 /\ Owed' = 0
    BY <1>5, <2>1, <2>2 DEF ClearDebt, Owed
  <2> QED
    BY <1>5, <2>1, <2>2, <2>3, AccountStays DEF ClearDebt, Live
<1>6. CASE SendFrame
  <2>p. Pushing /\ holder.next = "send"
    BY <1>6 DEF SendFrame, Framed
  <2>u. UNCHANGED <<lost, pushes, wire, writer>>
    BY <1>6 DEF SendFrame
  <2>o. sink'.pending_loss = sink.pending_loss /\ (sink'.in => sink.in)
    <3>1. \/ sink' = sink
          \/ sink' = [sink EXCEPT !.lag = 0]
          \/ sink' = [sink EXCEPT !.in = FALSE]
      BY <1>6 DEF SendFrame
    <3> QED
      BY <3>1 DEF TypeOK
  <2>1. CASE Room
    <3>1. queue' = Append(queue, ThisFrame) /\ holder' = Nobody
      BY <1>6, <2>1 DEF SendFrame, ThisFrame
    <3>2. /\ LossesInside' = LossesInside + Losses(ThisFrame)
          /\ PushesInside' = PushesInside + Pushed(ThisFrame)
      BY <1>q, <3>1, ThisIsAFrame, PutInWeighs DEF LossesInside, PushesInside
    <3>3. Losses(ThisFrame) = 0 /\ Pushed(ThisFrame) = 1
      BY ThisIsAFrame DEF Losses, Pushed
    <3>4. Owed' = Owed /\ OnPush = 1 /\ OnPush' = 0
      BY <2>o, <2>p, <3>1 DEF Owed, Nobody, OnPush, Pushing
    <3>5. UNCHANGED <<LossesInHand, PushesInHand>> /\ (Live' => Live)
      BY <2>u, <2>o DEF Live, LossesInHand, PushesInHand
    <3> QED
      BY <1>a, <1>b, <1>t, <2>u, <3>2, <3>3, <3>4, <3>5 DEF Account
  <2>2. CASE ~Room /\ writer.next = "gone"
    BY <1>b, <2>u, <2>2 DEF Live
  <2>3. CASE ~Room /\ writer.next # "gone"
    <3>1. holder' = At(holder.by, "count") /\ UNCHANGED queue
      BY <1>6, <2>3 DEF SendFrame
    <3>2. Pushing' /\ Owed' = Owed
      BY <2>o, <2>p, <3>1 DEF At, Pushing, Owed
    <3> QED
      BY <2>u, <2>o, <2>p, <3>1, <3>2, AccountStays DEF Live
  <2> QED
    BY <2>1, <2>2, <2>3
<1>7. CASE CountLoss
  <2>1. Pushing /\ holder.next = "count" /\ ~Free
    BY <1>7 DEF CountLoss, Framed, Free, Nobody
  <2>2. sink'.pending_loss = sink.pending_loss + 1
    BY <1>7 DEF CountLoss, TypeOK
  <2>3. sink.in
    BY <2>1 DEF Framed
  <2>4. Owed' = Owed + 1 /\ OnPush = 1 /\ OnPush' = 0
    BY <1>7, <2>1, <2>2 DEF CountLoss, Owed, Nobody, OnPush, Pushing
  <2>5. /\ lost' = lost + 1 /\ UNCHANGED <<pushes, wire>> /\ (Live' => Live)
        /\ UNCHANGED <<LossesInside, PushesInside, LossesInHand, PushesInHand>>
    BY <1>7, <2>3 DEF CountLoss, Live, LossesInside, PushesInside, LossesInHand, PushesInHand
  <2>6. Owed \in Nat
    BY <1>t DEF Owed
  <2> QED
    BY <1>a, <1>b, <1>t, <2>4, <2>5, <2>6 DEF Account
<1>8. CASE Recv
  <2>1. /\ writer.hand = NoFrame /\ writer'.hand = Head(queue) /\ queue # <<>> /\ queue' = Tail(queue)
        /\ Owed' = Owed /\ OnPush' = OnPush /\ UNCHANGED <<lost, pushes, wire>> /\ (Live' => Live)
    BY <1>8 DEF Recv, Framed, Owed, OnPush, Pushing, Live
  <2>2. LossesInHand = 0 /\ PushesInHand = 0
    BY <2>1, NoFrameWeighs DEF LossesInHand, PushesInHand
  <2>3. /\ Len(queue') \in 0..Len(queue') /\ Len(queue') + 1 = Len(queue)
    BY <1>q, <2>1, TakeOut
  <2>4. /\ LossSums(queue)[Len(queue') + 1] = Losses(Head(queue)) + LossSums(queue')[Len(queue')]
        /\ PushSums(queue)[Len(queue') + 1] = Pushed(Head(queue)) + PushSums(queue')[Len(queue')]
    BY <1>q, <2>1, <2>3, TakeOutWeighs
  <2>5. /\ LossesInside = LossesInHand' + LossesInside'
        /\ PushesInside = PushesInHand' + PushesInside'
    BY <2>1, <2>3, <2>4 DEF LossesInside, PushesInside, LossesInHand, PushesInHand
  <2>6. LossesInHand' \in Nat /\ PushesInHand' \in {0, 1} /\ LossesInside' \in Nat /\ PushesInside' \in Nat
    <3>1. queue' \in Seq(FrameType) /\ writer'.hand \in FrameType
      BY DEF TypeOK
    <3> QED
      BY <2>3, <3>1, ChannelSumsAreNat, FramesWeigh DEF LossesInside, PushesInside, LossesInHand, PushesInHand
  <2>7. Owed \in Nat /\ OnPush \in {0, 1}
    BY <1>t DEF Owed, OnPush
  <2>8. ASSUME Live' PROVE Account'
    <3>1. Account
      BY <1>a, <2>1, <2>8
    <3>2. lost = wire.losses + (LossesInHand' + LossesInside') + Owed
      BY <1>t, <2>2, <2>5, <2>7, <3>1 DEF Account
    <3>3. pushes = wire.frames + (PushesInHand' + PushesInside') + lost + OnPush
      BY <1>t, <2>2, <2>5, <2>7, <3>1 DEF Account
    <3>4. lost = wire.losses + LossesInHand' + LossesInside' + Owed
      BY <1>t, <2>6, <2>7, <3>2
    <3>5. pushes = wire.frames + PushesInHand' + PushesInside' + lost + OnPush
      BY <1>t, <2>6, <2>7, <3>3
    <3> QED
      BY <2>1, <3>4, <3>5 DEF Account
  <2> QED
    BY <1>b, <2>8
<1>9. CASE Took
  <2>1. writer'.hand = writer.hand /\ writer.next # "gone"
    BY <1>9 DEF Took, TypeOK
  <2> QED
    BY <1>9, <2>1, AccountStays DEF Took, Live, Owed, Pushing
<1>10. CASE RepayNow
  <2>1. writer'.hand = writer.hand /\ writer.next # "gone"
    BY <1>10 DEF RepayNow, TypeOK
  <2>2. Owed' = Owed /\ (Pushing' <=> Pushing)
    BY <1>10 DEF RepayNow, Free, Nobody, At, Owed, Pushing
  <2> QED
    BY <1>10, <2>1, <2>2, AccountStays DEF RepayNow, Live
<1>11. CASE CheckCurrent
  <2>1. CASE sink.in
    <3>1. writer'.hand = writer.hand /\ writer.next # "gone"
      BY <1>11, <2>1 DEF CheckCurrent, TypeOK
    <3> QED
      BY <1>11, <3>1, AccountStays DEF CheckCurrent, Live, Owed, Pushing
  <2>2. CASE ~sink.in
    BY <1>11, <1>b, <2>2 DEF CheckCurrent, Live
  <2> QED
    BY <2>1, <2>2
<1>12. CASE Write
  <2>1. CASE writer.hand.kind = "detach"
    BY <1>12, <1>b, <2>1 DEF Write, Exit, Live
  <2>2. CASE writer.hand.kind # "detach"
    <3>1. /\ writer' = [next |-> "recv", hand |-> NoFrame] /\ UNCHANGED <<queue, lost, pushes>>
          /\ Owed' = Owed /\ OnPush' = OnPush /\ (Live' => Live)
      BY <1>12, <2>2 DEF Write, Owed, OnPush, Pushing, Live
    <3>2. LossesInHand' = 0 /\ PushesInHand' = 0 /\ UNCHANGED <<LossesInside, PushesInside>>
      BY <3>1, NoFrameWeighs DEF LossesInHand, PushesInHand, LossesInside, PushesInside
    <3>3. wire'.losses = wire.losses + LossesInHand /\ wire'.frames = wire.frames + PushesInHand
      <4>1. CASE writer.hand.kind = "loss"
        BY <1>12, <4>1 DEF Write, TypeOK, LossesInHand, PushesInHand, Losses, Pushed
      <4>2. CASE writer.hand.kind = "push"
        BY <1>12, <4>2 DEF Write, TypeOK, LossesInHand, PushesInHand, Losses, Pushed
      <4>3. writer.hand.kind # "none"
        BY <1>12 DEF Write, Framed
      <4> QED
        BY <1>q, <2>2, <4>1, <4>2, <4>3 DEF FrameType, Kinds
    <3>4. Owed \in Nat /\ OnPush \in {0, 1}
      BY <1>t DEF Owed, OnPush
    <3> QED
      BY <1>a, <1>b, <1>t, <3>1, <3>2, <3>3, <3>4 DEF Account
  <2> QED
    BY <2>1, <2>2
<1>13. CASE WriterEnds
  BY <1>13, <1>b DEF WriterEnds, Exit, Live
<1>14. CASE Tell \/ PumpInbound \/ PeerGone
  BY <1>14, AccountStays DEF Tell, PumpInbound, PeerGone, Live, Owed, Pushing
<1>15. CASE Unregister \/ UnregisterBound
  <2>1. ~sink'.in
    BY <1>15 DEF Unregister, UnregisterBound, TypeOK
  <2> QED
    BY <1>b, <2>1 DEF Live
<1>16. CASE EnableLossNotify
  <2>1. sink'.pending_loss = sink.pending_loss /\ sink'.in = sink.in
    BY <1>16 DEF EnableLossNotify, TypeOK
  <2> QED
    BY <1>16, <2>1, AccountStays DEF EnableLossNotify, Live, Owed, Pushing
<1>17. CASE RepayAll
  <2>1. Owed' = Owed /\ (Pushing' <=> Pushing)
    BY <1>17 DEF RepayAll, Free, Nobody, At, Owed, Pushing
  <2> QED
    BY <1>17, <2>1, AccountStays DEF RepayAll, Live
<1>18. CASE UNCHANGED vars
  BY <1>18, AccountStays DEF vars, Live, Owed, Pushing
<1> QED
  BY <1>1, <1>2, <1>3, <1>4, <1>5, <1>6, <1>7, <1>8, <1>9, <1>10, <1>11, <1>12, <1>13, <1>14,
     <1>15, <1>16, <1>17, <1>18
  DEF Next, LockedStep, WriterStep, ReaderStep, MainLoop

-----------------------------------------------------------------------------
(* The order of what a client is told.                                     *)

\* What has been written, and what the writer holds.
Written == wire.frames + wire.losses
InHand == LossesInHand + PushesInHand

\* A frame of a push comes behind all the frames and all the losses, told of or
\* about to be told of, that come out of the channel before it.
Ahead ==
    /\ PushesInHand = 1 => Written + 1 <= writer.hand.n
    /\ \A i \in DOMAIN queue :
           Pushed(queue[i]) = 1 => Written + InHand + LossSums(queue)[i] + PushSums(queue)[i] <= queue[i].n

LEMMA InitAhead == Init => Ahead
<1> SUFFICES ASSUME Init PROVE Ahead
  OBVIOUS
<1>1. PushesInHand = 0
  BY NoFrameWeighs DEF Init, PushesInHand
<1>2. DOMAIN queue = {}
  BY DEF Init
<1> QED
  BY <1>1, <1>2 DEF Ahead

LEMMA AheadStays == ASSUME Ahead, UNCHANGED <<queue, wire>>, writer'.hand = writer.hand PROVE Ahead'
  BY DEF Ahead, Written, InHand, PushesInHand, LossesInHand

\* A channel that is emptied and a hand that is emptied leave nothing to ask.
LEMMA AheadEnds == ASSUME queue' = <<>>, writer'.hand = NoFrame PROVE Ahead'
<1>1. PushesInHand' = 0
  BY NoFrameWeighs DEF PushesInHand
<1>2. DOMAIN queue' = {}
  OBVIOUS
<1> QED
  BY <1>1, <1>2 DEF Ahead

\* A frame is put in behind all the others.
LEMMA AheadPutIn ==
    ASSUME TypeOK, Ahead, UNCHANGED <<wire, writer>>, NEW f \in FrameType, queue' = Append(queue, f),
           Pushed(f) = 1 => Written + InHand + LossesInside + (PushesInside + 1) <= f.n
    PROVE  Ahead'
<1>1. queue \in Seq(FrameType)
  BY DEF TypeOK
<1>2. /\ \A n \in 0..Len(queue) : /\ LossSums(queue')[n] = LossSums(queue)[n]
                                  /\ PushSums(queue')[n] = PushSums(queue)[n]
      /\ LossSums(queue')[Len(queue')] = LossesInside + Losses(f)
      /\ PushSums(queue')[Len(queue')] = PushesInside + Pushed(f)
  BY <1>1, PutInWeighs DEF LossesInside, PushesInside
<1>3. UNCHANGED <<Written, InHand, PushesInHand>>
  BY DEF Written, InHand, PushesInHand, LossesInHand
<1>4. ASSUME NEW i \in DOMAIN queue', Pushed(queue'[i]) = 1
      PROVE  Written + InHand + LossSums(queue')[i] + PushSums(queue')[i] <= queue'[i].n
  <2>1. CASE i = Len(queue')
    <3>1. queue'[i] = f /\ Losses(f) = 0 /\ Pushed(f) = 1
      <4>1. queue'[i] = f
        BY <1>1, <2>1
      <4> QED
        BY <1>4, <4>1 DEF Losses, Pushed
    <3>2. LossSums(queue')[i] = LossesInside /\ PushSums(queue')[i] = PushesInside + 1
      BY <1>2, <2>1, <3>1, AccountTypes
    <3> QED
      BY <3>1, <3>2
  <2>2. CASE i # Len(queue')
    <3>1. i \in DOMAIN queue /\ i \in 0..Len(queue) /\ queue'[i] = queue[i]
      BY <1>1, <2>2
    <3> QED
      BY <1>2, <1>4, <3>1 DEF Ahead
  <2> QED
    BY <2>1, <2>2
<1> QED
  BY <1>3, <1>4 DEF Ahead

LEMMA NextAhead ==
    TypeOK /\ TypeOK' /\ Framed /\ EveryFrameAccounted /\ Ahead /\ [Next]_vars => Ahead'
<1> SUFFICES ASSUME TypeOK, TypeOK', Framed, EveryFrameAccounted, Ahead, [Next]_vars PROVE Ahead'
  OBVIOUS
<1>t. /\ lost \in Nat /\ pushes \in Nat /\ wire.losses \in Nat /\ wire.frames \in Nat
      /\ LossesInHand \in Nat /\ PushesInHand \in {0, 1}
      /\ LossesInside \in Nat /\ PushesInside \in Nat
      /\ sink.pending_loss \in Nat
  BY AccountTypes
<1>q. queue \in Seq(FrameType) /\ writer.hand \in FrameType
  BY DEF TypeOK
<1>n. Written \in Nat /\ InHand \in Nat
  BY <1>t DEF Written, InHand
<1>s. \A i \in DOMAIN queue : LossSums(queue)[i] \in Nat /\ PushSums(queue)[i] \in Nat /\ queue[i].n \in Nat
  <2> TAKE i \in DOMAIN queue
  <2>1. i \in 0..Len(queue) /\ queue[i] \in FrameType
    BY <1>q
  <2> QED
    BY <1>q, <2>1, ChannelSumsAreNat DEF FrameType
<1>1. ASSUME NEW detach \in BOOLEAN, Push(detach) PROVE Ahead'
  BY <1>1, AheadStays DEF Push
<1>2. CASE RepayNothing \/ Raise \/ ClearDebt \/ CountLoss
  BY <1>2, AheadStays DEF RepayNothing, Raise, ClearDebt, CountLoss
<1>3. CASE SendNotice
  <2> DEFINE f == Loss(sink.pending_loss)
  <2>1. f \in FrameType /\ Pushed(f) = 0
    BY <1>t, KindsOfFrames DEF Pushed
  <2>2. UNCHANGED <<wire, writer>> /\ (queue' = queue \/ queue' = Append(queue, f))
    BY <1>3 DEF SendNotice
  <2> HIDE DEF f
  <2> QED
    BY <2>1, <2>2, AheadStays, AheadPutIn
<1>4. CASE SendFrame
  <2>u. UNCHANGED <<wire, writer>>
    BY <1>4 DEF SendFrame
  <2>1. CASE Room
    <3>1. queue' = Append(queue, ThisFrame) /\ Pushing /\ Live
      BY <1>4, <2>1 DEF SendFrame, ThisFrame, Room, Framed, Live, Free, Nobody
    <3>2. Account
      BY <3>1, AccountIsAccount
    <3>3. Owed \in Nat /\ OnPush = 1
      BY <1>t, <3>1 DEF Owed, OnPush
    <3>4. Written + InHand + LossesInside + (PushesInside + 1) <= pushes
      BY <1>t, <3>2, <3>3 DEF Account, Written, InHand
    <3> QED
      BY <2>u, <3>1, <3>4, ThisIsAFrame, AheadPutIn
  <2>2. CASE ~Room
    BY <1>4, <2>2, <2>u, AheadStays DEF SendFrame
  <2> QED
    BY <2>1, <2>2
<1>5. CASE Recv
  <2>1. /\ writer.hand = NoFrame /\ writer'.hand = Head(queue) /\ queue # <<>> /\ queue' = Tail(queue)
        /\ UNCHANGED wire
    BY <1>5 DEF Recv, Framed
  <2>2. InHand = 0 /\ Written' = Written
    BY <2>1, NoFrameWeighs DEF InHand, LossesInHand, PushesInHand, Written
  <2>3. \A n \in 0..Len(queue') : /\ LossSums(queue)[n + 1] = LossesInHand' + LossSums(queue')[n]
                                  /\ PushSums(queue)[n + 1] = PushesInHand' + PushSums(queue')[n]
    <3>1. \A n \in 0..Len(queue') : /\ LossSums(queue)[n + 1] = Losses(Head(queue)) + LossSums(queue')[n]
                                    /\ PushSums(queue)[n + 1] = Pushed(Head(queue)) + PushSums(queue')[n]
      BY <1>q, <2>1, TakeOutWeighs
    <3>2. LossesInHand' = Losses(Head(queue)) /\ PushesInHand' = Pushed(Head(queue))
      BY <2>1 DEF LossesInHand, PushesInHand
    <3> QED
      BY <3>1, <3>2
  <2>4. queue' \in Seq(FrameType) /\ writer'.hand \in FrameType
    BY DEF TypeOK
  <2>5. LossesInHand' \in Nat /\ PushesInHand' \in {0, 1}
    BY <2>4, FramesWeigh DEF LossesInHand, PushesInHand
  <2>6. ASSUME PushesInHand' = 1 PROVE Written' + 1 <= writer'.hand.n
    <3>1. 1 \in DOMAIN queue /\ queue[1] = writer'.hand /\ 0 \in 0..Len(queue') /\ 0 + 1 = 1
      BY <1>q, <2>1, <2>4
    <3>2. LossSums(queue')[0] = 0 /\ PushSums(queue')[0] = 0
      BY <2>4, ChannelsWeigh, SumsAre DEF IsSums
    <3>3. LossesInHand' = 0
      BY <2>6 DEF LossesInHand, PushesInHand, Losses, Pushed
    <3>4. LossSums(queue)[1] = 0 /\ PushSums(queue)[1] = 1
      <4>1. LossSums(queue)[0 + 1] = 0 + 0 /\ PushSums(queue)[0 + 1] = 1 + 0
        BY <2>3, <2>6, <3>1, <3>2, <3>3
      <4> QED
        BY <3>1, <4>1
    <3>5. Pushed(queue[1]) = 1
      BY <2>6, <3>1 DEF PushesInHand
    <3>6. Written + InHand + LossSums(queue)[1] + PushSums(queue)[1] <= queue[1].n
      BY <3>1, <3>5 DEF Ahead
    <3> QED
      BY <1>n, <2>2, <3>1, <3>4, <3>6
  <2>7. ASSUME NEW i \in DOMAIN queue', Pushed(queue'[i]) = 1
        PROVE  Written' + InHand' + LossSums(queue')[i] + PushSums(queue')[i] <= queue'[i].n
    <3>1. i \in 0..Len(queue') /\ i + 1 \in DOMAIN queue /\ queue'[i] = queue[i + 1]
      BY <1>q, <2>1, <2>4
    <3>2. Written + InHand + LossSums(queue)[i + 1] + PushSums(queue)[i + 1] <= queue[i + 1].n
      BY <2>7, <3>1 DEF Ahead
    <3>3. /\ LossSums(queue)[i + 1] = LossesInHand' + LossSums(queue')[i]
          /\ PushSums(queue)[i + 1] = PushesInHand' + PushSums(queue')[i]
      BY <2>3, <3>1
    <3>4. LossSums(queue')[i] \in Nat /\ PushSums(queue')[i] \in Nat
      BY <2>4, <3>1, ChannelSumsAreNat
    <3>5. queue[i + 1].n \in Nat /\ InHand' = LossesInHand' + PushesInHand'
      BY <1>s, <3>1 DEF InHand
    <3>6. Written + 0 + (LossesInHand' + LossSums(queue')[i]) + (PushesInHand' + PushSums(queue')[i])
              <= queue[i + 1].n
      BY <2>2, <3>2, <3>3
    <3>7. Written + (LossesInHand' + PushesInHand') + LossSums(queue')[i] + PushSums(queue')[i]
              <= queue[i + 1].n
      BY <1>n, <2>5, <3>4, <3>5, <3>6
    <3> QED
      BY <2>2, <3>1, <3>5, <3>7
  <2> QED
    BY <2>6, <2>7 DEF Ahead
<1>6. CASE Took \/ RepayNow
  <2>1. writer'.hand = writer.hand
    BY <1>6 DEF Took, RepayNow, TypeOK
  <2> QED
    BY <1>6, <2>1, AheadStays DEF Took, RepayNow
<1>7. ASSUME writer'.hand = NoFrame, UNCHANGED queue, Written' <= Written + InHand, Written' \in Nat
      PROVE  Ahead'
  <2>1. InHand' = 0 /\ PushesInHand' = 0
    BY <1>7, NoFrameWeighs DEF InHand, LossesInHand, PushesInHand
  <2>2. ASSUME NEW i \in DOMAIN queue, Pushed(queue[i]) = 1
        PROVE  Written' + 0 + LossSums(queue)[i] + PushSums(queue)[i] <= queue[i].n
    <3>1. Written + InHand + LossSums(queue)[i] + PushSums(queue)[i] <= queue[i].n
      BY <2>2 DEF Ahead
    <3>2. LossSums(queue)[i] \in Nat /\ PushSums(queue)[i] \in Nat /\ queue[i].n \in Nat
      BY <1>s
    <3> QED
      BY <1>7, <1>n, <3>1, <3>2
  <2> QED
    BY <1>7, <2>1, <2>2 DEF Ahead
<1>8. CASE CheckCurrent
  <2>1. CASE sink.in
    <3>1. writer'.hand = writer.hand
      BY <1>8, <2>1 DEF CheckCurrent, TypeOK
    <3> QED
      BY <1>8, <3>1, AheadStays DEF CheckCurrent
  <2>2. CASE ~sink.in
    <3>1. writer'.hand = NoFrame /\ UNCHANGED queue /\ Written' = Written
      BY <1>8, <2>2 DEF CheckCurrent, Written
    <3> QED
      BY <1>7, <1>n, <3>1
  <2> QED
    BY <2>1, <2>2
<1>9. CASE Write
  <2>1. CASE writer.hand.kind = "detach"
    BY <1>9, <2>1, AheadEnds DEF Write, Exit
  <2>2. CASE writer.hand.kind # "detach"
    <3>1. writer'.hand = NoFrame /\ UNCHANGED queue
      BY <1>9, <2>2 DEF Write
    <3>2. Written' = Written + InHand
      <4>1. wire'.losses = wire.losses + LossesInHand /\ wire'.frames = wire.frames + PushesInHand
        <5>1. CASE writer.hand.kind = "loss"
          BY <1>9, <5>1 DEF Write, TypeOK, LossesInHand, PushesInHand, Losses, Pushed
        <5>2. CASE writer.hand.kind = "push"
          BY <1>9, <5>2 DEF Write, TypeOK, LossesInHand, PushesInHand, Losses, Pushed
        <5>3. writer.hand.kind # "none"
          BY <1>9 DEF Write, Framed
        <5> QED
          BY <1>q, <2>2, <5>1, <5>2, <5>3 DEF FrameType, Kinds
      <4> QED
        BY <1>t, <4>1 DEF Written, InHand
    <3> QED
      BY <1>7, <1>n, <3>1, <3>2
  <2> QED
    BY <2>1, <2>2
<1>10. CASE WriterEnds
  BY <1>10, AheadEnds DEF WriterEnds, Exit
<1>11. CASE ReaderStep \/ MainLoop \/ PeerGone \/ UnregisterBound
  BY <1>11, AheadStays
  DEF ReaderStep, MainLoop, Unregister, Tell, PumpInbound, EnableLossNotify, RepayAll, PeerGone,
      UnregisterBound
<1>12. CASE UNCHANGED vars
  BY <1>12, AheadStays DEF vars
<1> QED
  BY <1>1, <1>2, <1>3, <1>4, <1>5, <1>6, <1>8, <1>9, <1>10, <1>11, <1>12
  DEF Next, LockedStep, WriterStep

LEMMA AccountAlways == Spec => [](TypeOK /\ Framed /\ EveryFrameAccounted /\ Ahead)
<1>1. Init => TypeOK /\ Framed /\ EveryFrameAccounted /\ Ahead
  BY InitType, InitFramed, InitAccount, InitAhead
<1>2. TypeOK /\ Framed /\ EveryFrameAccounted /\ Ahead /\ [Next]_vars
      => (TypeOK /\ Framed /\ EveryFrameAccounted /\ Ahead)'
  BY NextType, NextFramed, NextAccount, NextAhead
<1> QED
  BY <1>1, <1>2, PTL DEF Spec

\* Whatever order pushes, dequeues, notices that do not fit and the writer's own
\* notices come in, every frame and every loss of a connection that lives is in
\* exactly one place (push_to, repay_pending_loss, recv_held_timeout).
THEOREM FramesAddUp == Spec => []EveryFrameAccounted
  BY AccountAlways, PTL

\* What a client was told of by the time a frame comes lies before that frame
\* (repay_pending_loss puts the notice in front of the push's own frame).
THEOREM LossesComeInTime == Spec => LossNeverAhead
<1>1. TypeOK /\ Framed /\ Ahead /\ [Next]_vars
      => [wire'.frames > wire.frames => wire'.frames + wire.losses <= wire'.last]_wire
  <2> SUFFICES ASSUME TypeOK, Framed, Ahead, [Next]_vars, wire'.frames > wire.frames
               PROVE  wire'.frames + wire.losses <= wire'.last
    OBVIOUS
  <2>1. wire.frames \in Nat /\ wire.losses \in Nat
    BY DEF TypeOK
  <2>2. Write
    <3>1. wire' # wire
      BY <2>1
    <3>2. ~UNCHANGED vars
      BY <3>1 DEF vars
    <3> QED
      BY <3>1, <3>2
      DEF Next, LockedStep, WriterStep, ReaderStep, MainLoop, Push, RepayNothing, Raise, SendNotice,
          ClearDebt, SendFrame, CountLoss, Recv, Took, RepayNow, CheckCurrent, WriterEnds,
          Unregister, Tell, PumpInbound, EnableLossNotify, RepayAll, PeerGone, UnregisterBound
  <2>3. writer.hand.kind # "loss"
    BY <2>1, <2>2 DEF Write, TypeOK
  <2>4. wire'.last = writer.hand.n /\ wire'.frames = wire.frames + 1
    BY <2>2, <2>3 DEF Write, TypeOK
  <2>5. PushesInHand = 1
    <3>1. writer.hand.kind # "none" /\ writer.hand \in FrameType
      BY <2>2 DEF Write, Framed, TypeOK
    <3> QED
      BY <2>3, <3>1 DEF PushesInHand, Pushed, FrameType, Kinds
  <2>6. Written + 1 <= writer.hand.n
    BY <2>5 DEF Ahead
  <2>7. writer.hand.n \in Nat
    BY DEF TypeOK, FrameType
  <2> QED
    BY <2>1, <2>4, <2>6, <2>7 DEF Written
<1> QED
  BY <1>1, AccountAlways, PTL DEF Spec, LossNeverAhead
=============================================================================
