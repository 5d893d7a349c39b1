------------------------ MODULE ControlChannelProofs ------------------------
(***************************************************************************)
(* What ControlChannel promises, for any number of clients, commands,      *)
(* lost streams and deaths of the daemon, and for any size of its buffers. *)
(***************************************************************************)
EXTENDS ControlChannel, SequenceTheorems, FiniteSetTheorems, TLAPS

Frame ==
    SessionEvent
    \cup [type : {"hello"}, active : [Mac -> SessionId \cup {None}]]
    \cup [type : {"report"}]
    \cup [type : {"row", "answer"}, cid : 1..MaxAsks]

\* The values of the variables, and what each place of the task excludes: a frame is being
\* sent only in a send, a command is only in a handler, and nothing is on its way to a
\* task without a stream but the Hello it has queued.
Typed ==
    /\ table \in [Mac -> SessionId \cup {None}] /\ ending \subseteq Mac \X SessionId
    /\ ring \in Seq(SessionEvent) /\ Len(ring) <= RingSize /\ missed \in BOOLEAN
    /\ pc \in {"backoff", "attach", "select", "handle", "send"}
    /\ job \in Job \cup {None}
    /\ todo \in Seq(Frame)
    /\ outq \in Seq(Frame) /\ Len(outq) <= OutboundSize
    /\ inq \in Seq(Command)
    /\ link \in {"none", "up", "broken"}
    /\ view \in [Mac -> SessionId \cup {None}]
    /\ asks \in 0..MaxAsks /\ grants \in 0..MaxGrants

Placed ==
    /\ (pc = "handle") = (job # None) /\ (pc = "send") = (todo # <<>>)
    /\ (link = "none") = (pc \in {"backoff", "attach"})
    /\ link # "up" => inq = <<>> /\ waiting = <<>>
    /\ pc = "backoff" => outq = <<>>
    /\ pc = "attach" => \E active \in [Mac -> SessionId \cup {None}] : outq = <<Hello(active)>>

TypeInv == Typed /\ Placed

-----------------------------------------------------------------------------
(* The type invariant                                                      *)

LEMMA FrameTypes ==
    /\ \A e \in SessionEvent : e \in Frame
    /\ \A active \in [Mac -> SessionId \cup {None}] : Hello(active) \in Frame
    /\ Report \in Frame
    /\ \A cid \in 1..MaxAsks : Row(cid) \in Frame /\ Answer(cid) \in Frame
    /\ \A m \in Mac, id \in SessionId : Granted(m, id) \in SessionEvent /\ Final(m, id) \in SessionEvent
<1>1. \A e \in SessionEvent : e \in Frame
  BY DEF Frame
<1>2. \A active \in [Mac -> SessionId \cup {None}] : Hello(active) \in Frame
  BY DEF Frame, Hello
<1>3. Report \in Frame
  BY DEF Frame, Report
<1>4. \A cid \in 1..MaxAsks : Row(cid) \in Frame /\ Answer(cid) \in Frame
  BY DEF Frame, Row, Answer
<1>5. \A m \in Mac, id \in SessionId : Granted(m, id) \in SessionEvent /\ Final(m, id) \in SessionEvent
  BY DEF SessionEvent, Granted, Final, Event
<1> QED BY <1>1, <1>2, <1>3, <1>4, <1>5

LEMMA Bounds == MaxAsks \in Nat /\ MaxGrants \in Nat
BY ChannelAssumption DEF ChannelAssumption

LEMMA Sizes == OutboundSize \in Nat /\ OutboundSize >= 1 /\ RingSize \in Nat /\ RingSize >= 1
BY ChannelAssumption DEF ChannelAssumption

LEMMA JobTypes ==
    ASSUME NEW cmd \in Command
    PROVE  /\ cmd.mac \in Mac /\ cmd.id \in SessionId /\ cmd.cid \in 1..MaxAsks /\ cmd.kind \in Kinds
           /\ [cmd |-> cmd, event |-> None] \in Job
           /\ \A e \in SessionEvent : [cmd |-> cmd, event |-> e] \in Job
BY DEF Command, Job

\* A broadcast keeps the ring within its capacity.
LEMMA EmitTypes ==
    ASSUME ring \in Seq(SessionEvent), Len(ring) <= RingSize, missed \in BOOLEAN,
           NEW e \in SessionEvent, Emit(e)
    PROVE  ring' \in Seq(SessionEvent) /\ Len(ring') <= RingSize /\ missed' \in BOOLEAN
<1> USE ChannelAssumption DEF ChannelAssumption
<1>1. CASE Len(ring) = RingSize
  <2>1. ring # <<>> /\ ring' = Append(Tail(ring), e)
    BY <1>1 DEF Emit
  <2>2. Tail(ring) \in Seq(SessionEvent) /\ Len(Tail(ring)) = Len(ring) - 1
    BY <2>1, HeadTailProperties
  <2> QED BY <2>1, <2>2, <1>1, AppendProperties DEF Emit
<1>2. CASE Len(ring) # RingSize
  BY <1>2, AppendProperties DEF Emit
<1> QED BY <1>1, <1>2

LEMMA InitTyped == Init => TypeInv
<1> SUFFICES ASSUME Init PROVE TypeInv
  OBVIOUS
<1> USE ChannelAssumption, NoneAssumption DEF ChannelAssumption
<1>1. Typed
  <2>1. /\ ring \in Seq(SessionEvent) /\ todo \in Seq(Frame) /\ outq \in Seq(Frame)
        /\ inq \in Seq(Command)
    BY EmptySeq DEF Init
  <2>2. Len(ring) <= RingSize /\ Len(outq) <= OutboundSize
    BY Sizes DEF Init
  <2>3. asks \in 0..MaxAsks /\ grants \in 0..MaxGrants
    BY DEF Init
  <2>4. /\ table \in [Mac -> SessionId \cup {None}] /\ ending \subseteq Mac \X SessionId
        /\ view \in [Mac -> SessionId \cup {None}]
    BY DEF Init
  <2> QED BY <2>1, <2>2, <2>3, <2>4 DEF Init, Typed
<1>2. Placed
  BY DEF Init, Placed
<1> QED BY <1>1, <1>2 DEF TypeInv

\* A stream, or an attempt at one, that is over leaves nothing behind.
LEMMA OverTypes ==
    ASSUME TypeInv, NEW established, Over(established),
           UNCHANGED <<manager, events, job, view, asks, grants>>, job = None
    PROVE  TypeInv'
<1> USE ChannelAssumption DEF ChannelAssumption, manager, events
<1>1. Typed'
  BY EmptySeq DEF TypeInv, Typed, Over
<1>2. Placed'
  BY DEF TypeInv, Placed, Over
<1> QED BY <1>1, <1>2 DEF TypeInv

\* A handler that ends leaves its frames, which fill no more than the queue allows.
LEMMA ReplyTypes ==
    ASSUME TypeInv, pc = "handle", NEW frames \in Seq(Frame), Reply(frames),
           ring' \in Seq(SessionEvent), Len(ring') <= RingSize, missed' \in BOOLEAN,
           UNCHANGED <<manager, outq, inq, link, plane, bounds>>
    PROVE  TypeInv'
<1> USE DEF manager, plane, bounds
<1>1. Typed'
  BY DEF TypeInv, Typed, Reply
<1>2. Placed'
  BY DEF TypeInv, Placed, Reply
<1> QED BY <1>1, <1>2 DEF TypeInv

THEOREM TypeCorrectChannel == Spec => []TypeInv
<1>1. ASSUME TypeInv, [Next]_vars PROVE TypeInv'
  <2> USE ChannelAssumption DEF ChannelAssumption
  <2>s. Typed /\ Placed
    BY <1>1 DEF TypeInv
  <2>j. job # None => /\ job = [cmd |-> job.cmd, event |-> job.event] /\ job.cmd \in Command
                      /\ job.event \in SessionEvent \cup {None}
    BY <2>s DEF Typed, Job
  <2>1. ASSUME Dial PROVE TypeInv'
    <3> USE DEF Dial, manager, plane, bounds
    <3>1. Hello(table) \in Frame /\ outq' = <<Hello(table)>>
      BY <2>1, <2>s, FrameTypes DEF Typed
    <3>2. outq' \in Seq(Frame) /\ Len(outq') = 1
      BY <3>1
    <3>3. Typed'
      <4>1. Len(outq') <= OutboundSize
        BY <3>2, Sizes
      <4> QED BY <2>1, <2>s, <3>2, <4>1 DEF Typed
    <3>4. Placed'
      BY <2>1, <2>s, <3>1 DEF Placed, Typed
    <3> QED BY <3>3, <3>4 DEF TypeInv
  <2>2. ASSUME Attach PROVE TypeInv'
    <3> USE DEF Attach, manager, events, dialer, plane, bounds
    <3>1. Typed'
      BY <2>2, <2>s DEF Typed
    <3>2. Placed'
      BY <2>2, <2>s DEF Placed
    <3> QED BY <3>1, <3>2 DEF TypeInv
  <2>3. ASSUME Notice \/ ConnectFails PROVE TypeInv'
    <3>1. job = None
      BY <2>3, <2>s DEF Notice, ConnectFails, Placed
    <3>2. PICK established \in BOOLEAN : Over(established)
      BY <2>3 DEF Notice, ConnectFails
    <3>3. UNCHANGED <<manager, events, job, view, asks, grants>>
      BY <2>3 DEF Notice, ConnectFails, bounds
    <3> QED BY <1>1, <3>1, <3>2, <3>3, OverTypes
  <2>4. ASSUME Break PROVE TypeInv'
    <3> USE DEF Break, manager, events, dialer
    <3>1. Typed'
      BY <2>4, <2>s, EmptySeq DEF Typed
    <3>2. Placed'
      BY <2>4, <2>s DEF Placed
    <3> QED BY <3>1, <3>2 DEF TypeInv
  <2>5. ASSUME TakeCommand PROVE TypeInv'
    <3> USE DEF TakeCommand, manager, events, dialer, plane, bounds
    <3>1. Head(inq) \in Command /\ Tail(inq) \in Seq(Command)
      BY <2>5, <2>s, HeadTailProperties DEF Typed
    <3>2. job' \in Job /\ job' # None
      BY <2>5, <3>1, JobTypes, NoneAssumption
    <3>3. Typed'
      BY <2>5, <2>s, <3>1, <3>2 DEF Typed
    <3>4. Placed'
      <4>1. link # "none" /\ todo = <<>>
        BY <2>5, <2>s DEF Placed
      <4>2. link # "up" => inq' = <<>> /\ waiting' = <<>>
        BY <2>5, <2>s DEF Placed
      <4> QED BY <2>5, <2>s, <3>2, <4>1, <4>2 DEF Placed
    <3> QED BY <3>3, <3>4 DEF TypeInv
  <2>6. ASSUME TakeEvent PROVE TypeInv'
    <3> USE DEF TakeEvent, manager, events, dialer, plane, bounds
    <3>1. Head(ring) \in SessionEvent /\ Tail(ring) \in Seq(SessionEvent) /\ Len(Tail(ring)) = Len(ring) - 1
      BY <2>6, <2>s, HeadTailProperties DEF Typed
    <3>2. todo' \in Seq(Frame) /\ todo' # <<>>
      BY <2>6, <3>1, FrameTypes
    <3>3. Typed'
      BY <2>6, <2>s, <3>1, <3>2 DEF Typed
    <3>4. Placed'
      BY <2>6, <2>s, <3>2 DEF Placed
    <3> QED BY <3>3, <3>4 DEF TypeInv
  <2>7. ASSUME TakeReport PROVE TypeInv'
    <3> USE DEF TakeReport, manager, events, dialer, plane, bounds
    <3>2. todo' \in Seq(Frame) /\ todo' # <<>>
      BY <2>7, FrameTypes
    <3>3. Typed'
      BY <2>7, <2>s, <3>2 DEF Typed
    <3>4. Placed'
      BY <2>7, <2>s, <3>2 DEF Placed
    <3> QED BY <3>3, <3>4 DEF TypeInv
  <2>8. ASSUME Send PROVE TypeInv'
    <3> USE DEF Send, manager, events, dialer, plane, bounds
    <3>1. todo # <<>>
      BY <2>8, <2>s DEF Placed
    <3>2. Head(todo) \in Frame /\ Tail(todo) \in Seq(Frame) /\ Len(Tail(todo)) = Len(todo) - 1
      BY <2>s, <3>1, HeadTailProperties DEF Typed
    <3>3. outq' \in Seq(Frame) /\ Len(outq') = Len(outq) + 1
      BY <2>8, <2>s, <3>2, AppendProperties DEF Typed
    <3>4. Len(outq') <= OutboundSize /\ (todo' = <<>>) = (Len(todo) = 1)
      <4>1. Len(outq) \in Nat /\ Len(todo) \in Nat
        BY <2>s, LenProperties DEF Typed
      <4>2. Len(outq) < OutboundSize
        BY <2>8
      <4>3. (todo' = <<>>) = (Len(todo') = 0)
        BY <3>2, <2>8, EmptySeq, LenProperties
      <4>4. Len(outq') <= OutboundSize
        BY <3>3, <4>1, <4>2, Sizes
      <4>5. Len(todo') = Len(todo) - 1
        BY <2>8, <3>2
      <4>6. (Len(todo') = 0) = (Len(todo) = 1)
        BY <4>1, <4>5
      <4> QED BY <4>3, <4>4, <4>6
    <3>5. Typed'
      BY <2>8, <2>s, <3>2, <3>3, <3>4 DEF Typed
    <3>6. Placed'
      BY <2>8, <2>s, <3>4 DEF Placed
    <3> QED BY <3>5, <3>6 DEF TypeInv
  <2>9. ASSUME Grant \/ Revoke PROVE TypeInv'
    <3> USE DEF Handling, manager, events, stream, dialer, plane, bounds
    <3>0. pc = "handle" /\ job # None
      BY <2>9, <2>s DEF Grant, Revoke, Placed
    <3>1. /\ job.cmd \in Command /\ job.cmd.mac \in Mac /\ job.cmd.id \in SessionId
          /\ table[job.cmd.mac] \in SessionId \cup {None}
      BY <2>s, <2>j, <3>0, JobTypes DEF Typed
    <3>2. PICK e \in SessionEvent : job' = [job EXCEPT !.event = e]
      BY <2>9, <3>1, FrameTypes DEF Grant, Revoke
    <3>3. job' \in Job /\ job' # None
      <4>1. job' = [cmd |-> job.cmd, event |-> e]
        BY <2>j, <3>0, <3>2
      <4>2. job' \in Job
        BY <3>1, <4>1, JobTypes
      <4> QED BY <4>2, NoneAssumption
    <3>4. table' \in [Mac -> SessionId \cup {None}]
      BY <2>9, <2>s, <3>1 DEF Typed, Grant, Revoke
    <3>5. UNCHANGED <<ending, ring, missed, pc, todo, outq, inq, link, view, waiting, asks, grants>>
      BY <2>9 DEF Grant, Revoke
    <3>6. Typed'
      BY <2>s, <3>3, <3>4, <3>5 DEF Typed
    <3>7. Placed'
      BY <2>s, <3>0, <3>3, <3>5 DEF Placed
    <3> QED BY <3>6, <3>7 DEF TypeInv
  <2>10. ASSUME GrantRefused \/ RevokeNobody \/ Acknowledge \/ List \/ Other \/ Ignore
         PROVE  TypeInv'
    <3>0. pc = "handle" /\ job # None
      BY <2>10, <2>s
      DEF GrantRefused, RevokeNobody, Acknowledge, List, Other, Ignore, Handling, Placed
    <3>1. job.cmd.cid \in 1..MaxAsks
      BY <2>j, <3>0, JobTypes
    <3>2. PICK frames \in Seq(Frame) : Reply(frames)
      <4>1. <<Answer(job.cmd.cid)>> \in Seq(Frame) /\ <<>> \in Seq(Frame)
        BY <3>1, FrameTypes
      <4>2. CASE List
        <5> DEFINE rows == Cardinality({m \in Mac : table[m] # None})
                   listed == [n \in 1..rows |-> Row(job.cmd.cid)]
        <5>1. rows \in Nat
          <6> DEFINE gated == {m \in Mac : table[m] # None}
          <6>1. IsFiniteSet(gated)
            BY FS_Subset
          <6> QED BY <6>1, FS_CardinalityType
        <5>2. listed \in Seq(Frame)
          BY <3>1, <5>1, FrameTypes, IsASeq
        <5>3. listed \o <<Answer(job.cmd.cid)>> \in Seq(Frame)
          BY <4>1, <5>2, ConcatProperties
        <5> QED BY <4>2, <5>3 DEF List
      <4> QED
        BY <2>10, <4>1, <4>2 DEF GrantRefused, RevokeNobody, Acknowledge, Other, Ignore
    <3>3. ring' \in Seq(SessionEvent) /\ Len(ring') <= RingSize /\ missed' \in BOOLEAN
      <4>1. CASE Acknowledge
        BY <4>1, <2>s, <2>j, <3>0, EmitTypes DEF Typed, Acknowledge
      <4> QED
        BY <2>10, <2>s, <4>1 DEF GrantRefused, RevokeNobody, List, Other, Ignore, events, Typed
    <3>4. UNCHANGED <<manager, outq, inq, link, plane, bounds>>
      BY <2>10 DEF GrantRefused, RevokeNobody, Acknowledge, List, Other, Ignore
    <3> QED BY <1>1, <3>0, <3>2, <3>3, <3>4, ReplyTypes
  <2>11. ASSUME NEW m \in Mac, End(m) \/ Adopt(m) PROVE TypeInv'
    <3> USE DEF End, Adopt, events, stream, dialer, plane, bounds
    <3>1. Adopted \in SessionId
      BY DEF Adopted, SessionId
    <3>2. table' \in [Mac -> SessionId \cup {None}] /\ ending' \subseteq Mac \X SessionId
      <4>1. CASE End(m)
        BY <4>1, <2>s DEF Typed
      <4>2. CASE Adopt(m)
        BY <4>2, <2>s, <3>1 DEF Typed, manager
      <4> QED BY <2>11, <4>1, <4>2
    <3>3. UNCHANGED <<ring, missed, pc, job, todo, outq, inq, link, view, waiting, asks, grants>>
      BY <2>11
    <3>4. Typed'
      BY <2>s, <3>2, <3>3 DEF Typed
    <3>5. Placed'
      BY <2>s, <3>3 DEF Placed
    <3> QED BY <3>4, <3>5 DEF TypeInv
  <2>12. ASSUME NEW s \in ending, Announce(s) PROVE TypeInv'
    <3>1. Final(s[1], s[2]) \in SessionEvent
      BY <2>s, FrameTypes DEF Typed
    <3>2. ring' \in Seq(SessionEvent) /\ Len(ring') <= RingSize /\ missed' \in BOOLEAN
      BY <2>12, <2>s, <3>1, EmitTypes DEF Typed, Announce
    <3>3. /\ ending' \subseteq Mac \X SessionId
          /\ UNCHANGED <<table, pc, job, todo, outq, inq, link, view, waiting, asks, grants>>
      BY <2>12, <2>s DEF Announce, Typed, stream, plane, bounds
    <3>4. Typed'
      BY <2>s, <3>2, <3>3 DEF Typed
    <3>5. Placed'
      BY <2>s, <3>3 DEF Placed
    <3> QED BY <3>4, <3>5 DEF TypeInv
  <2>13. ASSUME Poll PROVE TypeInv'
    <3> USE DEF Poll, manager, events, stream, dialer, plane
    <3>1. Typed'
      <4>1. asks' \in 0..MaxAsks
        BY <2>13, <2>s, Bounds DEF Typed
      <4>2. UNCHANGED <<table, ending, ring, missed, pc, job, todo, outq, inq, link, view, grants>>
        BY <2>13
      <4> QED BY <2>s, <4>1, <4>2 DEF Typed
    <3>2. Placed'
      BY <2>13, <2>s DEF Placed
    <3> QED BY <3>1, <3>2 DEF TypeInv
  <2>14. ASSUME Ask PROVE TypeInv'
    <3>0. /\ link = "up" /\ asks < MaxAsks /\ asks' = asks + 1
          /\ UNCHANGED <<table, ending, ring, missed, pc, job, todo, outq, link, view>>
      BY <2>14 DEF Ask, manager, events
    <3>1. PICK kind \in Kinds, m \in Mac :
             /\ kind = "grant" => grants < MaxGrants
             /\ grants' = IF kind = "grant" THEN grants + 1 ELSE grants
             /\ inq' = Append(inq, [kind |-> kind, mac |-> m, cid |-> asks + 1,
                                    id |-> IF kind = "grant" THEN grants + 1 ELSE 0])
             /\ waiting' = IF kind = "empty" THEN waiting ELSE Append(waiting, asks + 1)
      BY <2>14 DEF Ask
    <3>2. asks + 1 \in 1..MaxAsks /\ grants' \in 0..MaxGrants
      <4>1. asks \in Nat /\ grants \in 0..MaxGrants
        BY <2>s, Bounds DEF Typed
      <4>2. kind = "grant" => grants < MaxGrants
        BY <3>1
      <4>3. grants' = IF kind = "grant" THEN grants + 1 ELSE grants
        BY <3>1
      <4>4. asks < MaxAsks
        BY <3>0
      <4> QED BY <4>1, <4>2, <4>3, <4>4, Bounds
    <3>3. inq' \in Seq(Command)
      <4>1. (IF kind = "grant" THEN grants + 1 ELSE 0) \in SessionId
        <5>1. grants \in 0..MaxGrants
          BY <2>s DEF Typed
        <5>2. kind = "grant" => grants < MaxGrants
          BY <3>1
        <5> QED BY <5>1, <5>2, Bounds DEF SessionId
      <4> DEFINE cmd == [kind |-> kind, mac |-> m, cid |-> asks + 1,
                         id |-> IF kind = "grant" THEN grants + 1 ELSE 0]
      <4>2. cmd \in Command
        BY <3>2, <4>1 DEF Command
      <4> HIDE DEF cmd
      <4> QED BY <2>s, <3>1, <4>2, AppendProperties DEF Typed, cmd
    <3>4. asks' \in 0..MaxAsks
      BY <3>0, <3>2
    <3>5. Typed'
      BY <2>s, <3>0, <3>2, <3>3, <3>4 DEF Typed
    <3>6. Placed'
      BY <2>s, <3>0 DEF Placed
    <3> QED BY <3>5, <3>6 DEF TypeInv
  <2>15. ASSUME Receive PROVE TypeInv'
    <3>0. /\ link = "up" /\ outq # <<>>
          /\ view' = Learned(Head(outq)) /\ outq' = Tail(outq)
          /\ waiting' = IF Head(outq).type = "answer" THEN Tail(waiting) ELSE waiting
          /\ UNCHANGED <<table, ending, ring, missed, pc, job, todo, inq, link, asks, grants>>
      BY <2>15 DEF Receive, manager, events, bounds
    <3>1. Head(outq) \in Frame /\ Tail(outq) \in Seq(Frame) /\ Len(Tail(outq)) = Len(outq) - 1
      BY <2>s, <3>0, HeadTailProperties DEF Typed
    <3>2. view' \in [Mac -> SessionId \cup {None}]
      BY <2>s, <3>0, <3>1 DEF Typed, Learned, Frame, SessionEvent
    <3>4. Typed'
      <4>1. Len(outq') <= OutboundSize
        <5>1. Len(outq) \in Nat /\ Len(outq) <= OutboundSize
          BY <2>s, LenProperties DEF Typed
        <5> QED BY <3>0, <3>1, <5>1, Sizes
      <4> QED BY <2>s, <3>0, <3>1, <3>2, <4>1 DEF Typed
    <3>5. Placed'
      BY <2>s, <3>0 DEF Placed
    <3> QED BY <3>4, <3>5 DEF TypeInv
  <2>16. ASSUME Die PROVE TypeInv'
    <3>0. /\ ending' = {} /\ ring' = <<>> /\ missed' = FALSE /\ pc' = "backoff" /\ job' = None
          /\ todo' = <<>> /\ outq' = <<>> /\ inq' = <<>> /\ link' = "none" /\ waiting' = <<>>
          /\ UNCHANGED <<view, asks, grants>>
      BY <2>16 DEF Die
    <3>1. table' \in [Mac -> SessionId \cup {None}]
      BY <2>16 DEF Die, Adopted, SessionId
    <3>2. Typed'
      <4>1. Len(ring') <= RingSize /\ Len(outq') <= OutboundSize
        BY <3>0, Sizes
      <4> QED BY <2>s, <3>0, <3>1, <4>1, EmptySeq DEF Typed
    <3>3. Placed'
      BY <3>0 DEF Placed
    <3> QED BY <3>2, <3>3 DEF TypeInv
  <2>17. ASSUME UNCHANGED vars PROVE TypeInv'
    <3> USE DEF vars, manager, events, stream, dialer, plane, bounds
    <3>1. Typed'
      BY <2>17, <2>s DEF Typed
    <3>2. Placed'
      BY <2>17, <2>s DEF Placed
    <3> QED BY <3>1, <3>2 DEF TypeInv
  <2> QED
    BY <1>1, <2>1, <2>2, <2>3, <2>4, <2>5, <2>6, <2>7, <2>8, <2>9, <2>10, <2>11, <2>12, <2>13,
       <2>14, <2>15, <2>16, <2>17
    DEF Next, Connect, Select, Handler, Manager, Emits
<1> QED BY InitTyped, <1>1, PTL DEF Spec
-----------------------------------------------------------------------------
(* Lines of correlation ids                                                *)

\* A line is in order when each part is and the first comes before the second.
LEMMA Joined ==
    ASSUME NEW s \in Seq(Nat), NEW t \in Seq(Nat)
    PROVE  /\ s \o t \in Seq(Nat)
           /\ CidsIn(s \o t) = CidsIn(s) \cup CidsIn(t)
           /\ Ascends(s \o t) <=> /\ Ascends(s) /\ Ascends(t)
                                  /\ \A c \in CidsIn(s), d \in CidsIn(t) : c < d
<1> DEFINE u == s \o t
           k == Len(s)
           n == Len(t)
<1>1. /\ k \in Nat /\ DOMAIN s = 1..k /\ \A i \in 1..k : s[i] \in Nat
      /\ n \in Nat /\ DOMAIN t = 1..n /\ \A i \in 1..n : t[i] \in Nat
  BY LenProperties, ElementOfSeq
<1>2. /\ u \in Seq(Nat) /\ DOMAIN u = 1..(k + n)
      /\ \A i \in 1..(k + n) : u[i] = IF i <= k THEN s[i] ELSE t[i - k]
  BY ConcatProperties, LenProperties
<1> HIDE DEF u, k, n
<1>3. /\ \A i \in 1..k : i \in 1..(k + n) /\ u[i] = s[i]
      /\ \A j \in 1..n : j + k \in 1..(k + n) /\ u[j + k] = t[j]
      /\ \A i \in 1..(k + n) : i \in 1..k \/ (i - k \in 1..n /\ ~(i <= k) /\ u[i] = t[i - k])
  <2>1. ASSUME NEW j \in 1..n PROVE j + k \in 1..(k + n) /\ u[j + k] = t[j]
    <3>1. j + k \in 1..(k + n) /\ ~(j + k <= k) /\ (j + k) - k = j
      BY <1>1
    <3> QED BY <1>2, <3>1
  <2>2. ASSUME NEW i \in 1..k PROVE i \in 1..(k + n) /\ u[i] = s[i]
    BY <1>1, <1>2
  <2>3. ASSUME NEW i \in 1..(k + n), ~(i <= k) PROVE i - k \in 1..n /\ u[i] = t[i - k]
    BY <1>1, <1>2, <2>3
  <2> QED BY <1>1, <2>1, <2>2, <2>3
<1>4. CidsIn(u) = CidsIn(s) \cup CidsIn(t)
  <2>1. {u[i] : i \in 1..(k + n)} \subseteq {s[i] : i \in 1..k} \cup {t[i] : i \in 1..n}
    BY <1>3
  <2>2. {s[i] : i \in 1..k} \subseteq {u[i] : i \in 1..(k + n)}
    BY <1>3
  <2>3. {t[i] : i \in 1..n} \subseteq {u[i] : i \in 1..(k + n)}
    <3> SUFFICES ASSUME NEW j \in 1..n PROVE t[j] \in {u[i] : i \in 1..(k + n)}
      OBVIOUS
    <3> QED BY <1>3
  <2> QED BY <1>1, <1>2, <2>1, <2>2, <2>3 DEF CidsIn
<1>5. ASSUME Ascends(u)
      PROVE  /\ Ascends(s) /\ Ascends(t)
             /\ \A c \in CidsIn(s), d \in CidsIn(t) : c < d
  <2>1. \A i, j \in 1..(k + n) : i < j /\ u[i] # 0 /\ u[j] # 0 => u[i] < u[j]
    BY <1>5, <1>2 DEF Ascends
  <2>2. Ascends(s)
    BY <1>1, <1>3, <2>1 DEF Ascends
  <2>3. Ascends(t)
    <3> SUFFICES ASSUME NEW i \in 1..n, NEW j \in 1..n, i < j, t[i] # 0, t[j] # 0
                 PROVE  t[i] < t[j]
      BY <1>1 DEF Ascends
    <3>1. i + k < j + k /\ i + k \in 1..(k + n) /\ j + k \in 1..(k + n)
      BY <1>1
    <3> QED BY <1>3, <2>1, <3>1
  <2>4. ASSUME NEW c \in CidsIn(s), NEW d \in CidsIn(t) PROVE c < d
    <3>1. PICK i \in 1..k : s[i] = c /\ c # 0
      BY <1>1 DEF CidsIn
    <3>2. PICK j \in 1..n : t[j] = d /\ d # 0
      BY <1>1 DEF CidsIn
    <3>3. i < j + k
      BY <1>1
    <3> QED BY <1>3, <2>1, <3>1, <3>2, <3>3
  <2> QED BY <2>2, <2>3, <2>4
<1>6. ASSUME Ascends(s), Ascends(t), \A c \in CidsIn(s), d \in CidsIn(t) : c < d
      PROVE  Ascends(u)
  <2> SUFFICES ASSUME NEW i \in 1..(k + n), NEW j \in 1..(k + n), i < j, u[i] # 0, u[j] # 0
               PROVE  u[i] < u[j]
    BY <1>2 DEF Ascends
  <2>1. CASE i \in 1..k /\ j \in 1..k
    <3>1. u[i] = s[i] /\ u[j] = s[j]
      BY <1>3, <2>1
    <3> QED BY <1>1, <1>6, <2>1, <3>1 DEF Ascends
  <2>2. CASE i \in 1..k /\ j \notin 1..k
    <3>1. u[i] = s[i] /\ j - k \in 1..n /\ u[j] = t[j - k]
      BY <1>3, <2>2
    <3>2. s[i] \in CidsIn(s) /\ t[j - k] \in CidsIn(t)
      BY <1>1, <2>2, <3>1 DEF CidsIn
    <3> QED BY <1>6, <3>1, <3>2
  <2>3. CASE i \notin 1..k
    <3>1. ~(i <= k) /\ i - k \in 1..n /\ u[i] = t[i - k]
      BY <1>3, <2>3
    <3>2. j \notin 1..k
      BY <1>1, <3>1
    <3>3. j - k \in 1..n /\ u[j] = t[j - k]
      BY <1>3, <3>2
    <3>4. i - k < j - k
      BY <1>1
    <3> QED BY <1>1, <1>6, <3>1, <3>3, <3>4 DEF Ascends
  <2> QED BY <2>1, <2>2, <2>3
<1> QED BY <1>2, <1>4, <1>5, <1>6 DEF u

\* Concatenation under a name of its own: the provers then use only these facts of it.
Cat(s, t) == s \o t

LEMMA CatFacts ==
    ASSUME NEW S, NEW s \in Seq(S), NEW t \in Seq(S), NEW u \in Seq(S)
    PROVE  Cat(s, t) \in Seq(S) /\ Cat(Cat(s, t), u) = Cat(s, Cat(t, u))
<1>1. Cat(s, t) \in Seq(S)
  BY ConcatProperties DEF Cat
<1>2. Cat(Cat(s, t), u) = Cat(s, Cat(t, u))
  BY ConcatAssociative DEF Cat
<1> QED BY <1>1, <1>2

LEMMA Regrouped == \A s, t, u \in Seq(Nat) : (s \o t) \o u = s \o (t \o u)
<1>1. \A s, t, u \in Seq(Nat) : Cat(Cat(s, t), u) = Cat(s, Cat(t, u))
  BY CatFacts
<1> QED BY <1>1, Zenon DEF Cat

\* The first of five sequences, put before the others.
LEMMA CatPulled ==
    ASSUME NEW s \in Seq(Nat), NEW t \in Seq(Nat), NEW u \in Seq(Nat), NEW v \in Seq(Nat),
           NEW w \in Seq(Nat)
    PROVE  /\ Cat(Cat(Cat(Cat(s, t), u), v), w) = Cat(s, Cat(Cat(Cat(t, u), v), w))
           /\ Cat(Cat(Cat(t, u), v), w) \in Seq(Nat)
<1>1. Cat(t, u) \in Seq(Nat) /\ Cat(Cat(s, t), u) = Cat(s, Cat(t, u))
  BY CatFacts
<1>2. /\ Cat(Cat(t, u), v) \in Seq(Nat)
      /\ Cat(Cat(s, Cat(t, u)), v) = Cat(s, Cat(Cat(t, u), v))
  BY <1>1, CatFacts
<1>3. /\ Cat(Cat(Cat(t, u), v), w) \in Seq(Nat)
      /\ Cat(Cat(s, Cat(Cat(t, u), v)), w) = Cat(s, Cat(Cat(Cat(t, u), v), w))
  BY <1>2, CatFacts
<1> QED BY <1>1, <1>2, <1>3, Zenon

LEMMA Alone ==
    /\ <<>> \in Seq(Nat) /\ Ascends(<<>>) /\ CidsIn(<<>>) = {}
    /\ \A c \in Nat : <<c>> \in Seq(Nat) /\ Ascends(<<c>>) /\ CidsIn(<<c>>) = {c} \ {0}
BY DEF Ascends, CidsIn

\* The second line has the ids of the first, in order if they were.
Like(s, t) == /\ s \in Seq(Nat) /\ t \in Seq(Nat)
              /\ CidsIn(t) = CidsIn(s) /\ (Ascends(s) => Ascends(t))

LEMMA LikeJoined ==
    ASSUME NEW s, NEW t, NEW s1, NEW t1, Like(s, s1), Like(t, t1)
    PROVE  Like(s \o t, s1 \o t1)
<1>1. /\ Ascends(s \o t) <=> /\ Ascends(s) /\ Ascends(t)
                             /\ \A c \in CidsIn(s), d \in CidsIn(t) : c < d
      /\ s \o t \in Seq(Nat) /\ CidsIn(s \o t) = CidsIn(s) \cup CidsIn(t)
  BY Joined DEF Like
<1>2. /\ Ascends(s1 \o t1) <=> /\ Ascends(s1) /\ Ascends(t1)
                               /\ \A c \in CidsIn(s1), d \in CidsIn(t1) : c < d
      /\ s1 \o t1 \in Seq(Nat) /\ CidsIn(s1 \o t1) = CidsIn(s1) \cup CidsIn(t1)
  BY Joined DEF Like
<1> QED BY <1>1, <1>2 DEF Like

LEMMA DueTypes ==
    ASSUME NEW frames \in Seq(Frame)
    PROVE  Due(frames) \in Seq(Nat) /\ Len(Due(frames)) = Len(frames)
<1>1. Len(frames) \in Nat /\ DOMAIN frames = 1..Len(frames) /\ \A n \in 1..Len(frames) : frames[n] \in Frame
  BY LenProperties, ElementOfSeq
<1>2. \A f \in Frame : (IF f.type = "answer" THEN f.cid ELSE 0) \in Nat
  BY Bounds DEF Frame, SessionEvent
<1>3. Due(frames) \in [1..Len(frames) -> Nat]
  BY <1>1, <1>2 DEF Due
<1> QED BY <1>1, <1>3, SeqDef, LenProperties

LEMMA OwedTypes ==
    ASSUME NEW commands \in Seq(Command)
    PROVE  Owed(commands) \in Seq(Nat) /\ Len(Owed(commands)) = Len(commands)
<1>1. Len(commands) \in Nat /\ DOMAIN commands = 1..Len(commands)
      /\ \A n \in 1..Len(commands) : commands[n] \in Command
  BY LenProperties, ElementOfSeq
<1>2. \A c \in Command : (IF c.kind = "empty" THEN 0 ELSE c.cid) \in Nat
  BY Bounds DEF Command
<1>3. Owed(commands) \in [1..Len(commands) -> Nat]
  BY <1>1, <1>2 DEF Owed
<1> QED BY <1>1, <1>3, SeqDef, LenProperties

LEMMA DueJoined ==
    ASSUME NEW s \in Seq(Frame), NEW t \in Seq(Frame)
    PROVE  Due(s \o t) = Due(s) \o Due(t)
<1>1. s \o t \in Seq(Frame) /\ Len(s \o t) = Len(s) + Len(t) /\ Len(s) \in Nat /\ Len(t) \in Nat
      /\ \A i \in 1..Len(s) + Len(t) : (s \o t)[i] = IF i <= Len(s) THEN s[i] ELSE t[i - Len(s)]
  BY ConcatProperties, LenProperties
<1>2. /\ Due(s \o t) \in Seq(Nat) /\ Len(Due(s \o t)) = Len(s) + Len(t)
      /\ Due(s) \in Seq(Nat) /\ Len(Due(s)) = Len(s)
      /\ Due(t) \in Seq(Nat) /\ Len(Due(t)) = Len(t)
  BY <1>1, DueTypes
<1>3. /\ Due(s) \o Due(t) \in Seq(Nat) /\ Len(Due(s) \o Due(t)) = Len(s) + Len(t)
      /\ \A i \in 1..Len(s) + Len(t) :
            (Due(s) \o Due(t))[i] = IF i <= Len(s) THEN Due(s)[i] ELSE Due(t)[i - Len(s)]
  <2> DEFINE a == Due(s)
             b == Due(t)
  <2>1. a \in Seq(Nat) /\ b \in Seq(Nat) /\ Len(a) = Len(s) /\ Len(b) = Len(t)
    BY <1>2
  <2> HIDE DEF a, b
  <2>2. /\ a \o b \in Seq(Nat) /\ Len(a \o b) = Len(s) + Len(t)
        /\ \A i \in 1..Len(s) + Len(t) : (a \o b)[i] = IF i <= Len(s) THEN a[i] ELSE b[i - Len(s)]
    <3>1. /\ a \o b \in Seq(Nat) /\ Len(a \o b) = Len(a) + Len(b)
          /\ \A i \in 1..Len(a) + Len(b) : (a \o b)[i] = IF i <= Len(a) THEN a[i] ELSE b[i - Len(a)]
      BY <2>1, ConcatProperties
    <3> QED BY <2>1, <3>1
  <2> QED BY <2>2 DEF a, b
<1>4. ASSUME NEW i \in 1..Len(s) + Len(t) PROVE Due(s \o t)[i] = (Due(s) \o Due(t))[i]
  <2>1. /\ i \in DOMAIN (s \o t)
        /\ i <= Len(s) => i \in DOMAIN s
        /\ ~(i <= Len(s)) => i - Len(s) \in DOMAIN t
    <3>1. DOMAIN s = 1..Len(s) /\ DOMAIN t = 1..Len(t) /\ DOMAIN (s \o t) = 1..Len(s) + Len(t)
      BY <1>1, LenProperties
    <3> QED BY <1>1, <3>1
  <2>2. Due(s \o t)[i] = IF (s \o t)[i].type = "answer" THEN (s \o t)[i].cid ELSE 0
    BY <2>1 DEF Due
  <2>3. /\ i <= Len(s) => Due(s)[i] = IF s[i].type = "answer" THEN s[i].cid ELSE 0
        /\ ~(i <= Len(s)) => Due(t)[i - Len(s)] =
                                 IF t[i - Len(s)].type = "answer" THEN t[i - Len(s)].cid ELSE 0
    BY <2>1 DEF Due
  <2> QED BY <1>1, <1>3, <2>2, <2>3
<1> QED BY <1>2, <1>3, <1>4, SeqEqual

LEMMA OwedJoined ==
    ASSUME NEW s \in Seq(Command), NEW t \in Seq(Command)
    PROVE  Owed(s \o t) = Owed(s) \o Owed(t)
<1>1. s \o t \in Seq(Command) /\ Len(s \o t) = Len(s) + Len(t) /\ Len(s) \in Nat /\ Len(t) \in Nat
      /\ \A i \in 1..Len(s) + Len(t) : (s \o t)[i] = IF i <= Len(s) THEN s[i] ELSE t[i - Len(s)]
  BY ConcatProperties, LenProperties
<1>2. /\ Owed(s \o t) \in Seq(Nat) /\ Len(Owed(s \o t)) = Len(s) + Len(t)
      /\ Owed(s) \in Seq(Nat) /\ Len(Owed(s)) = Len(s)
      /\ Owed(t) \in Seq(Nat) /\ Len(Owed(t)) = Len(t)
  BY <1>1, OwedTypes
<1>3. /\ Owed(s) \o Owed(t) \in Seq(Nat) /\ Len(Owed(s) \o Owed(t)) = Len(s) + Len(t)
      /\ \A i \in 1..Len(s) + Len(t) :
            (Owed(s) \o Owed(t))[i] = IF i <= Len(s) THEN Owed(s)[i] ELSE Owed(t)[i - Len(s)]
  <2> DEFINE a == Owed(s)
             b == Owed(t)
  <2>1. a \in Seq(Nat) /\ b \in Seq(Nat) /\ Len(a) = Len(s) /\ Len(b) = Len(t)
    BY <1>2
  <2> HIDE DEF a, b
  <2>2. /\ a \o b \in Seq(Nat) /\ Len(a \o b) = Len(s) + Len(t)
        /\ \A i \in 1..Len(s) + Len(t) : (a \o b)[i] = IF i <= Len(s) THEN a[i] ELSE b[i - Len(s)]
    <3>1. /\ a \o b \in Seq(Nat) /\ Len(a \o b) = Len(a) + Len(b)
          /\ \A i \in 1..Len(a) + Len(b) : (a \o b)[i] = IF i <= Len(a) THEN a[i] ELSE b[i - Len(a)]
      BY <2>1, ConcatProperties
    <3> QED BY <2>1, <3>1
  <2> QED BY <2>2 DEF a, b
<1>4. ASSUME NEW i \in 1..Len(s) + Len(t) PROVE Owed(s \o t)[i] = (Owed(s) \o Owed(t))[i]
  <2>1. /\ i \in DOMAIN (s \o t)
        /\ i <= Len(s) => i \in DOMAIN s
        /\ ~(i <= Len(s)) => i - Len(s) \in DOMAIN t
    <3>1. DOMAIN s = 1..Len(s) /\ DOMAIN t = 1..Len(t) /\ DOMAIN (s \o t) = 1..Len(s) + Len(t)
      BY <1>1, LenProperties
    <3> QED BY <1>1, <3>1
  <2>2. Owed(s \o t)[i] = IF (s \o t)[i].kind = "empty" THEN 0 ELSE (s \o t)[i].cid
    BY <2>1 DEF Owed
  <2>3. /\ i <= Len(s) => Owed(s)[i] = IF s[i].kind = "empty" THEN 0 ELSE s[i].cid
        /\ ~(i <= Len(s)) => Owed(t)[i - Len(s)] =
                                 IF t[i - Len(s)].kind = "empty" THEN 0 ELSE t[i - Len(s)].cid
    BY <2>1 DEF Owed
  <2> QED BY <1>1, <1>3, <2>2, <2>3
<1> QED BY <1>2, <1>3, <1>4, SeqEqual

\* What one frame or one command adds to a line.
LEMMA OneFrame ==
    /\ Due(<<>>) = <<>> /\ Owed(<<>>) = <<>>
    /\ \A f \in Frame : Due(<<f>>) = << IF f.type = "answer" THEN f.cid ELSE 0 >>
    /\ \A c \in Command : Owed(<<c>>) = << IF c.kind = "empty" THEN 0 ELSE c.cid >>
BY DEF Due, Owed

\* A sequence is its head and its tail.
LEMMA HeadFirst ==
    ASSUME NEW S, NEW s \in Seq(S), s # <<>>
    PROVE  s = <<Head(s)>> \o Tail(s)
<1>1. Head(s) = s[1] /\ Head(s) \in S /\ Tail(s) \in Seq(S) /\ Len(Tail(s)) = Len(s) - 1 /\ Len(s) \in Nat
      /\ \A i \in 1..Len(Tail(s)) : Tail(s)[i] = s[i + 1]
  BY HeadTailProperties, LenProperties
<1>2. \A x \in S : <<x>> \in Seq(S) /\ Len(<<x>>) = 1 /\ <<x>>[1] = x
  OBVIOUS
<1> DEFINE h == <<Head(s)>>
           r == Tail(s)
<1>3. h \in Seq(S) /\ r \in Seq(S) /\ Len(h) = 1 /\ h[1] = s[1] /\ Len(r) = Len(s) - 1
      /\ \A i \in 1..Len(r) : r[i] = s[i + 1]
  BY <1>1, <1>2
<1> HIDE DEF h, r
<1>4. h \o r \in Seq(S) /\ Len(h \o r) = Len(s)
      /\ \A i \in 1..Len(s) : (h \o r)[i] = IF i <= 1 THEN h[i] ELSE r[i - 1]
  <2>1. /\ h \o r \in Seq(S) /\ Len(h \o r) = Len(h) + Len(r)
        /\ \A i \in 1..Len(h) + Len(r) : (h \o r)[i] = IF i <= Len(h) THEN h[i] ELSE r[i - Len(h)]
    <3>1. h \in Seq(S) /\ r \in Seq(S)
      BY <1>3
    <3> QED BY <3>1, ConcatProperties
  <2>2. Len(h) = 1 /\ Len(h) + Len(r) = Len(s)
    <3>1. Len(s) \in Nat
      BY <1>1
    <3>2. Len(h) = 1 /\ Len(r) = Len(s) - 1
      BY <1>3
    <3> QED BY <3>1, <3>2
  <2>3. ASSUME NEW i \in 1..Len(s) PROVE (h \o r)[i] = IF i <= 1 THEN h[i] ELSE r[i - 1]
    <3>1. (h \o r)[i] = IF i <= Len(h) THEN h[i] ELSE r[i - Len(h)]
      BY <2>1, <2>2
    <3> QED BY <2>2, <3>1
  <2> QED BY <2>1, <2>2, <2>3
<1>5. ASSUME NEW i \in 1..Len(s) PROVE (h \o r)[i] = s[i]
  <2>1. CASE i = 1
    BY <1>3, <1>4, <2>1
  <2>2. CASE i # 1
    <3>1. i - 1 \in 1..Len(r) /\ (i - 1) + 1 = i /\ ~(i <= 1)
      BY <1>1, <1>3, <2>2
    <3> QED BY <1>3, <1>4, <3>1
  <2> QED BY <2>1, <2>2
<1>6. h \o r = s
  BY <1>4, <1>5, SeqEqual
<1> QED BY <1>6 DEF h, r
-----------------------------------------------------------------------------
(* Each command is answered once                                           *)

Line == Due(outq) \o Due(todo) \o InHand \o Owed(inq)

\* AnsweredOnce needs two more facts: an id that is waited for has been given out, so that
\* the next one comes after it, and only a command that is answered has an event to emit.
Asked ==
    /\ waiting \in Seq(1..MaxAsks)
    /\ link = "up" => /\ Ascends(Line) /\ Ascends(waiting)
                      /\ CidsIn(waiting) = CidsIn(Line)
                      /\ \A c \in CidsIn(waiting) : c <= asks
    /\ job # None /\ job.event # None => job.cmd.kind # "empty"

LEMMA AskedIsAnswered == Asked => AnsweredOnce
BY DEF Asked, AnsweredOnce, Line

LEMMA LineTypes ==
    ASSUME TypeInv
    PROVE  /\ Due(outq) \in Seq(Nat) /\ Due(todo) \in Seq(Nat) /\ InHand \in Seq(Nat)
           /\ Owed(inq) \in Seq(Nat)
           /\ job # None => job.cmd \in Command /\ InHand = Owed(<<job.cmd>>)
           /\ job = None => InHand = <<>>
<1>1. Due(outq) \in Seq(Nat) /\ Due(todo) \in Seq(Nat) /\ Owed(inq) \in Seq(Nat)
  BY DueTypes, OwedTypes DEF TypeInv, Typed
<1>2. job # None => job.cmd \in Command
  BY DEF TypeInv, Typed, Job
<1>3. InHand \in Seq(Nat)
  <2>1. CASE job = None
    BY <2>1, EmptySeq DEF InHand
  <2>2. CASE job # None
    <3>1. <<job.cmd>> \in Seq(Command)
      BY <1>2, <2>2
    <3> QED BY <2>2, <3>1, OwedTypes DEF InHand
  <2> QED BY <2>1, <2>2
<1> QED BY <1>1, <1>2, <1>3 DEF InHand

LEMMA LineIn == ASSUME TypeInv PROVE Line \in Seq(Nat)
<1> DEFINE A == Due(outq)
           B == Due(todo)
           C == InHand
           D == Owed(inq)
<1>1. A \in Seq(Nat) /\ B \in Seq(Nat) /\ C \in Seq(Nat) /\ D \in Seq(Nat)
  BY LineTypes
<1>2. Line = ((A \o B) \o C) \o D
  BY DEF Line
<1> HIDE DEF A, B, C, D
<1>3. A \o B \in Seq(Nat)
  BY <1>1, Joined
<1>4. (A \o B) \o C \in Seq(Nat)
  BY <1>1, <1>3, Joined
<1> QED BY <1>1, <1>2, <1>4, Joined

\* A step that neither asks nor delivers keeps the ids of the line, in their order.
LEMMA QuietLine ==
    ASSUME Asked, Like(Line, Line'),
           UNCHANGED <<link, waiting, asks>>,
           (job # None /\ job.event # None => job.cmd.kind # "empty")'
    PROVE  Asked'
BY DEF Asked, Like

LEMMA LikeSelf == \A s \in Seq(Nat) : Like(s, s)
BY DEF Like

\* A handler ends: its command leaves the hand, and its frames are what is sent.
LEMMA ReplyAsked ==
    ASSUME TypeInv, Asked, pc = "handle", NEW frames \in Seq(Frame), Reply(frames),
           UNCHANGED <<outq, inq, link, waiting, asks>>,
           Like(InHand, Due(frames))
    PROVE  Asked'
<1> DEFINE A == Due(outq)
           C == InHand
           D == Owed(inq)
           F == Due(frames)
<1>1. todo = <<>> /\ job' = None /\ todo' = frames /\ InHand' = <<>>
  BY DEF TypeInv, Placed, Reply, InHand
<1>2. /\ Line = ((A \o <<>>) \o C) \o D
      /\ Line' = ((A \o F) \o <<>>) \o D
  BY <1>1, OneFrame DEF Line
<1>3. /\ A \in Seq(Nat) /\ C \in Seq(Nat) /\ D \in Seq(Nat) /\ F \in Seq(Nat)
      /\ Like(C, F)
  BY LineTypes, DueTypes
<1> HIDE DEF A, C, D, F
<1>4. A \o <<>> = A /\ (A \o F) \o <<>> = A \o F
  BY <1>3, Joined, ConcatEmptySeq
<1>5. Like(A \o C, A \o F)
  BY <1>3, LikeSelf, LikeJoined
<1>6. Like((A \o C) \o D, (A \o F) \o D)
  BY <1>3, <1>5, LikeSelf, LikeJoined
<1>7. Like(Line, Line')
  BY <1>2, <1>4, <1>6
<1> QED BY <1>1, <1>7, QuietLine

LEMMA InitAsked == Init => Asked
BY EmptySeq DEF Init, Asked

\* The answer that the control plane reads is to the first command it waits for.
LEMMA ReceiveAsked == ASSUME TypeInv, Asked, Receive PROVE Asked'
<1> DEFINE h == Head(outq)
           A == Due(Tail(outq))
           x == IF h.type = "answer" THEN h.cid ELSE 0
           B == Due(todo)
           C == InHand
           D == Owed(inq)
           R == ((A \o B) \o C) \o D
<1>1. /\ link = "up" /\ outq # <<>> /\ outq' = Tail(outq)
      /\ waiting' = IF h.type = "answer" THEN Tail(waiting) ELSE waiting
      /\ UNCHANGED <<job, todo, inq, link, asks>>
  BY DEF Receive, manager, events, bounds
<1>2. /\ h \in Frame /\ Tail(outq) \in Seq(Frame) /\ outq = <<h>> \o Tail(outq)
      /\ <<h>> \in Seq(Frame)
  BY <1>1, HeadTailProperties, HeadFirst DEF TypeInv, Typed
<1>3. x \in Nat /\ (h.type = "answer" => x \in 1..MaxAsks)
  BY <1>2, Bounds DEF Frame, SessionEvent
<1>4. Due(outq) = <<x>> \o A
  <2>1. Due(<<h>>) = <<x>>
    BY <1>2, OneFrame
  <2>2. Due(<<h>> \o Tail(outq)) = Due(<<h>>) \o A
    BY <1>2, DueJoined
  <2> QED BY <1>2, <2>1, <2>2
<1>5. A \in Seq(Nat) /\ B \in Seq(Nat) /\ C \in Seq(Nat) /\ D \in Seq(Nat) /\ <<x>> \in Seq(Nat)
  BY <1>2, <1>3, DueTypes, LineTypes, Alone
<1>6. Line = (((<<x>> \o A) \o B) \o C) \o D /\ Line' = R
  <2>1. Due(outq)' = A /\ Due(todo)' = B /\ InHand' = C /\ Owed(inq)' = D
    BY <1>1 DEF InHand
  <2> QED BY <1>4, <2>1 DEF Line
<1> DEFINE one == <<x>>
<1>7. one \in Seq(Nat) /\ Ascends(one) /\ CidsIn(one) = {x} \ {0} /\ Line = (((one \o A) \o B) \o C) \o D
  BY <1>3, <1>5, <1>6, Alone
<1> HIDE DEF A, B, C, D, one, x
<1>8. Line = one \o R /\ R \in Seq(Nat)
  <2>1. /\ one \in Seq(Nat) /\ A \in Seq(Nat) /\ B \in Seq(Nat) /\ C \in Seq(Nat)
        /\ D \in Seq(Nat)
    BY <1>5, <1>7
  <2>2. /\ Cat(Cat(Cat(Cat(one, A), B), C), D) = Cat(one, Cat(Cat(Cat(A, B), C), D))
        /\ Cat(Cat(Cat(A, B), C), D) \in Seq(Nat)
    BY <2>1, CatPulled
  <2>3. (((one \o A) \o B) \o C) \o D = one \o R /\ R \in Seq(Nat)
    BY <2>2, Zenon DEF Cat, R
  <2> QED BY <1>7, <2>3, Zenon
<1> HIDE DEF R
<1>9. /\ CidsIn(Line) = ({x} \ {0}) \cup CidsIn(R)
      /\ Ascends(R)
      /\ x # 0 => \A d \in CidsIn(R) : x < d
  <2>1. /\ CidsIn(Line) = CidsIn(one) \cup CidsIn(R)
        /\ Ascends(Line) <=> /\ Ascends(one) /\ Ascends(R)
                            /\ \A c \in CidsIn(one), d \in CidsIn(R) : c < d
    <3>1. one \in Seq(Nat) /\ R \in Seq(Nat)
      BY <1>7, <1>8
    <3>2. /\ CidsIn(one \o R) = CidsIn(one) \cup CidsIn(R)
          /\ Ascends(one \o R) <=> /\ Ascends(one) /\ Ascends(R)
                                   /\ \A c \in CidsIn(one), d \in CidsIn(R) : c < d
      BY <3>1, Joined
    <3> QED BY <1>8, <3>2
  <2>2. Ascends(Line)
    BY <1>1 DEF Asked
  <2> QED BY <1>7, <2>1, <2>2
<1>10. /\ waiting \in Seq(1..MaxAsks) /\ Ascends(waiting) /\ CidsIn(waiting) = CidsIn(Line)
       /\ \A c \in CidsIn(waiting) : c <= asks
  BY <1>1 DEF Asked
<1>11. /\ waiting' \in Seq(1..MaxAsks) /\ Ascends(waiting') /\ CidsIn(waiting') = CidsIn(R)
       /\ CidsIn(waiting') \subseteq CidsIn(waiting)
  <2>1. CASE h.type # "answer"
    <3>1. x = 0 /\ waiting' = waiting
      BY <1>1, <2>1 DEF x
    <3> QED BY <1>9, <1>10, <3>1
  <2>2. CASE h.type = "answer"
    <3>1. x \in CidsIn(waiting) /\ x # 0 /\ x \in Nat
      BY <1>3, <1>9, <1>10, <2>2, Bounds
    <3>2. waiting # <<>>
      BY <3>1, Alone
    <3> DEFINE y == Head(waiting)
               S == Tail(waiting)
               first == <<y>>
    <3>3. y \in 1..MaxAsks /\ S \in Seq(1..MaxAsks) /\ waiting = first \o S
      BY <1>10, <3>2, HeadTailProperties, HeadFirst
    <3>4. y \in Nat /\ y # 0 /\ S \in Seq(Nat)
      BY <3>3, Bounds, SeqMonotonic
    <3>5. first \in Seq(Nat) /\ CidsIn(first) = {y}
      BY <3>4, Alone
    <3>6. waiting' = S
      BY <1>1, <2>2
    <3> HIDE DEF y, S, first
    <3>7. /\ CidsIn(waiting) = {y} \cup CidsIn(S) /\ Ascends(S) /\ \A d \in CidsIn(S) : y < d
      BY <1>10, <3>3, <3>4, <3>5, Joined
    <3>8. CidsIn(S) \subseteq Nat /\ CidsIn(R) \subseteq Nat
      BY <1>8, <3>4, LenProperties, ElementOfSeq DEF CidsIn
    <3>9. {y} \cup CidsIn(S) = {x} \cup CidsIn(R)
      BY <1>9, <1>10, <3>1, <3>7
    <3>10. x = y
      BY <1>9, <3>1, <3>4, <3>7, <3>8, <3>9
    <3>11. x \notin CidsIn(R) /\ y \notin CidsIn(S)
      BY <1>9, <3>1, <3>4, <3>7, <3>8
    <3>12. CidsIn(S) = CidsIn(R)
      BY <3>9, <3>10, <3>11
    <3> QED BY <3>3, <3>6, <3>7, <3>12
  <2> QED BY <2>1, <2>2
<1> QED BY <1>1, <1>6, <1>9, <1>10, <1>11 DEF Asked

\* A frame that is no answer adds nothing to the line, and a command taken in hand, or an
\* answer passed on, keeps its place.
LEMMA SelectAsked ==
    ASSUME TypeInv, Asked, TakeCommand \/ TakeEvent \/ TakeReport \/ Send
    PROVE  Asked'
<1> DEFINE A == Due(outq)
           B == Due(todo)
           C == InHand
           D == Owed(inq)
<1>a. /\ A \in Seq(Nat) /\ B \in Seq(Nat) /\ C \in Seq(Nat) /\ D \in Seq(Nat)
  BY LineTypes
<1>b. Line = ((A \o B) \o C) \o D
  BY DEF Line
<1>c. UNCHANGED <<link, waiting, asks>>
  BY DEF TakeCommand, TakeEvent, TakeReport, Send, plane, bounds
<1>1. CASE TakeCommand
  <2> DEFINE E == Owed(<<Head(inq)>>)
             F == Owed(Tail(inq))
  <2>0. /\ pc = "select" /\ inq # <<>> /\ inq' = Tail(inq) /\ outq' = outq /\ todo' = todo
        /\ job' = [cmd |-> Head(inq), event |-> None] /\ job = None
    BY <1>1 DEF TakeCommand, TypeInv, Placed
  <2>1. /\ Head(inq) \in Command /\ Tail(inq) \in Seq(Command) /\ <<Head(inq)>> \in Seq(Command)
        /\ inq = <<Head(inq)>> \o Tail(inq)
    BY <2>0, HeadTailProperties, HeadFirst DEF TypeInv, Typed
  <2>2. D = E \o F /\ E \in Seq(Nat) /\ F \in Seq(Nat)
    BY <2>1, OwedJoined, OwedTypes
  <2>3. C = <<>>
    BY <2>0 DEF InHand
  <2>4. job' # None /\ job'.cmd = Head(inq) /\ job'.event = None
    BY <2>0, <2>1, JobTypes, NoneAssumption
  <2>5. Line' = ((A \o B) \o E) \o F
    BY <2>0, <2>4 DEF Line, InHand
  <2> HIDE DEF A, B, C, D, E, F
  <2> DEFINE AB == A \o B
  <2>6. AB \in Seq(Nat) /\ AB \o <<>> = AB
    BY <1>a, ConcatProperties, ConcatEmptySeq
  <2> HIDE DEF AB
  <2>7. (AB \o E) \o F = AB \o (E \o F) /\ AB \o E \in Seq(Nat)
    BY <2>2, <2>6, ConcatProperties, Regrouped
  <2>8. (AB \o E) \o F \in Seq(Nat)
    BY <2>2, <2>7, ConcatProperties
  <2>9. Line' = Line /\ Line \in Seq(Nat)
    BY <1>b, <2>2, <2>3, <2>5, <2>6, <2>7, <2>8 DEF AB
  <2> QED BY <1>c, <2>4, <2>9, LikeSelf, QuietLine
<1>2. CASE TakeEvent \/ TakeReport
  <2>0. /\ pc = "select" /\ inq' = inq /\ outq' = outq /\ todo = <<>> /\ job' = job
    BY <1>2 DEF TakeEvent, TakeReport, TypeInv, Placed
  <2>1. PICK f \in Frame : todo' = <<f>> /\ f.type # "answer"
    <3>1. CASE TakeEvent
      <4>1. ring # <<>> /\ todo' = <<Head(ring)>>
        BY <3>1 DEF TakeEvent
      <4>2. Head(ring) \in SessionEvent
        BY <4>1, HeadTailProperties DEF TypeInv, Typed
      <4> QED BY <4>1, <4>2, FrameTypes DEF SessionEvent
    <3>2. CASE TakeReport
      BY <3>2, FrameTypes DEF TakeReport, Report
    <3> QED BY <1>2, <3>1, <3>2
  <2>2. B = <<>> /\ Due(todo)' = <<0>>
    BY <2>0, <2>1, OneFrame
  <2>3. Line' = ((A \o <<0>>) \o C) \o D
    BY <2>0, <2>2 DEF Line, InHand
  <2>4. Like(B, <<0>>)
    BY <2>2, Alone DEF Like
  <2> DEFINE Z == <<0>>
  <2> HIDE DEF A, B, C, D, Z
  <2>5. Like(A \o B, A \o Z)
    BY <1>a, <2>4, LikeSelf, LikeJoined DEF Z
  <2>6. Like((A \o B) \o C, (A \o Z) \o C)
    BY <1>a, <2>5, LikeSelf, LikeJoined
  <2>7. Like(((A \o B) \o C) \o D, ((A \o Z) \o C) \o D)
    BY <1>a, <2>6, LikeSelf, LikeJoined
  <2>8. Like(Line, Line')
    BY <1>b, <2>3, <2>7 DEF Z
  <2>9. (job # None /\ job.event # None => job.cmd.kind # "empty")'
    BY <2>0 DEF Asked
  <2> QED BY <1>c, <2>8, <2>9, QuietLine
<1>3. CASE Send
  <2> DEFINE E == Due(<<Head(todo)>>)
             F == Due(Tail(todo))
  <2>0. /\ todo # <<>> /\ outq' = Append(outq, Head(todo)) /\ todo' = Tail(todo)
        /\ job' = job /\ inq' = inq
    BY <1>3 DEF Send, TypeInv, Placed
  <2>1. /\ Head(todo) \in Frame /\ Tail(todo) \in Seq(Frame) /\ <<Head(todo)>> \in Seq(Frame)
        /\ todo = <<Head(todo)>> \o Tail(todo) /\ outq \in Seq(Frame)
    BY <2>0, HeadTailProperties, HeadFirst DEF TypeInv, Typed
  <2>2. B = E \o F /\ E \in Seq(Nat) /\ F \in Seq(Nat)
    BY <2>1, DueJoined, DueTypes
  <2>3. outq' = outq \o <<Head(todo)>>
    BY <2>0, <2>1, AppendIsConcat
  <2>4. Due(outq)' = A \o E
    BY <2>1, <2>3, DueJoined
  <2>5. Line' = (((A \o E) \o F) \o C) \o D
    BY <2>0, <2>4 DEF Line, InHand
  <2> HIDE DEF A, B, C, D, E, F
  <2>6. (A \o E) \o F = A \o (E \o F)
    <3>1. A \in Seq(Nat) /\ E \in Seq(Nat) /\ F \in Seq(Nat)
      BY <1>a, <2>2
    <3> QED BY <3>1, Regrouped
  <2>7. Line' = Line
    BY <1>b, <2>2, <2>5, <2>6
  <2>8. Like(Line, Line')
    BY <2>7, LineIn, LikeSelf
  <2>9. (job # None /\ job.event # None => job.cmd.kind # "empty")'
    BY <2>0 DEF Asked
  <2> QED BY <1>c, <2>8, <2>9, QuietLine
<1> QED BY <1>1, <1>2, <1>3

\* A command joins the end of the line, and of those waited for.
LEMMA AskAsked == ASSUME TypeInv, Asked, Ask PROVE Asked'
<1>1. /\ link = "up" /\ asks < MaxAsks /\ asks' = asks + 1 /\ asks \in 0..MaxAsks
      /\ UNCHANGED <<job, todo, outq, link>>
  BY DEF Ask, TypeInv, Typed
<1>2. PICK kind \in Kinds, cmd \in Command :
         /\ inq' = Append(inq, cmd) /\ cmd.kind = kind /\ cmd.cid = asks + 1
         /\ waiting' = IF kind = "empty" THEN waiting ELSE Append(waiting, asks + 1)
  <2>1. PICK kind \in Kinds, m \in Mac :
           /\ kind = "grant" => grants < MaxGrants
           /\ inq' = Append(inq, [kind |-> kind, mac |-> m, cid |-> asks + 1,
                                  id |-> IF kind = "grant" THEN grants + 1 ELSE 0])
           /\ waiting' = IF kind = "empty" THEN waiting ELSE Append(waiting, asks + 1)
    BY DEF Ask
  <2> DEFINE id == IF kind = "grant" THEN grants + 1 ELSE 0
             cmd == [kind |-> kind, mac |-> m, cid |-> asks + 1, id |-> id]
  <2>2. id \in SessionId
    <3>1. grants \in 0..MaxGrants
      BY DEF TypeInv, Typed
    <3> QED BY <2>1, <3>1, Bounds DEF SessionId
  <2>3. asks + 1 \in 1..MaxAsks
    BY <1>1, Bounds
  <2>4. cmd \in Command /\ cmd.kind = kind /\ cmd.cid = asks + 1
    BY <2>2, <2>3 DEF Command
  <2> QED BY <2>1, <2>4
<1> DEFINE A == Due(outq)
           B == Due(todo)
           C == InHand
           D == Owed(inq)
           x == IF kind = "empty" THEN 0 ELSE asks + 1
           Z == <<x>>
           ABC == (A \o B) \o C
<1>3. x \in Nat /\ Z \in Seq(Nat) /\ Ascends(Z) /\ CidsIn(Z) = {x} \ {0}
  <2>1. x \in Nat
    BY <1>1, Bounds
  <2> HIDE DEF x
  <2> QED BY <2>1, Alone
<1>4. Line = ABC \o D /\ ABC \in Seq(Nat) /\ D \in Seq(Nat)
  <2>1. A \in Seq(Nat) /\ B \in Seq(Nat) /\ C \in Seq(Nat) /\ D \in Seq(Nat)
    BY LineTypes
  <2>2. Line = ABC \o D
    BY DEF Line
  <2> HIDE DEF A, B, C, D
  <2>3. A \o B \in Seq(Nat)
    BY <2>1, ConcatProperties
  <2>4. ABC \in Seq(Nat)
    BY <2>1, <2>3, ConcatProperties
  <2> QED BY <2>1, <2>2, <2>4
<1>5. Line' = ABC \o (D \o Z)
  <2>1. inq \in Seq(Command) /\ <<cmd>> \in Seq(Command) /\ inq' = inq \o <<cmd>>
    BY <1>2, AppendIsConcat DEF TypeInv, Typed
  <2>2. Owed(<<cmd>>) = Z
    BY <1>2, OneFrame
  <2>3. Owed(inq)' = D \o Z
    BY <2>1, <2>2, OwedJoined
  <2>4. Due(outq)' = A /\ Due(todo)' = B /\ InHand' = C
    BY <1>1 DEF InHand
  <2> QED BY <2>3, <2>4 DEF Line
<1> HIDE DEF A, B, C, D, Z, ABC
<1>6. Line' = Line \o Z /\ Line \in Seq(Nat)
  <2>1. ABC \in Seq(Nat) /\ D \in Seq(Nat) /\ Z \in Seq(Nat)
    BY <1>3, <1>4
  <2>2. (ABC \o D) \o Z = ABC \o (D \o Z)
    BY <2>1, Regrouped
  <2>3. ABC \o D \in Seq(Nat)
    BY <2>1, ConcatProperties
  <2> QED BY <1>4, <1>5, <2>2, <2>3
<1>7. /\ waiting \in Seq(1..MaxAsks) /\ Ascends(Line) /\ Ascends(waiting)
      /\ CidsIn(waiting) = CidsIn(Line) /\ \A c \in CidsIn(waiting) : c <= asks
      /\ job # None /\ job.event # None => job.cmd.kind # "empty"
  BY <1>1 DEF Asked
<1>8. waiting \in Seq(Nat) /\ CidsIn(waiting) \subseteq Nat
  <2>1. waiting \in Seq(Nat)
    BY <1>7, Bounds, SeqMonotonic
  <2> QED BY <2>1, LenProperties, ElementOfSeq DEF CidsIn
<1>9. /\ CidsIn(Line') = CidsIn(Line) \cup ({x} \ {0})
      /\ Ascends(Line')
  <2>1. /\ CidsIn(Line \o Z) = CidsIn(Line) \cup CidsIn(Z)
        /\ Ascends(Line \o Z) <=> /\ Ascends(Line) /\ Ascends(Z)
                                  /\ \A c \in CidsIn(Line), d \in CidsIn(Z) : c < d
    <3>1. Line \in Seq(Nat) /\ Z \in Seq(Nat)
      BY <1>3, <1>6
    <3> QED BY <3>1, Joined
  <2>2. \A c \in CidsIn(Line), d \in CidsIn(Z) : c < d
    BY <1>1, <1>3, <1>7, <1>8
  <2> QED BY <1>3, <1>6, <1>7, <2>1, <2>2
<1>10. /\ waiting' \in Seq(1..MaxAsks) /\ Ascends(waiting')
       /\ CidsIn(waiting') = CidsIn(waiting) \cup ({x} \ {0})
  <2>1. CASE kind = "empty"
    BY <1>2, <1>7, <2>1
  <2>2. CASE kind # "empty"
    <3>1. x = asks + 1 /\ x \in 1..MaxAsks /\ waiting' = Append(waiting, x)
      BY <1>1, <1>2, <2>2, Bounds
    <3> HIDE DEF x
    <3>2. waiting' \in Seq(1..MaxAsks) /\ waiting' = waiting \o Z
      BY <1>7, <3>1, AppendProperties, AppendIsConcat DEF Z
    <3>3. /\ CidsIn(waiting \o Z) = CidsIn(waiting) \cup CidsIn(Z)
          /\ Ascends(waiting \o Z) <=> /\ Ascends(waiting) /\ Ascends(Z)
                                       /\ \A c \in CidsIn(waiting), d \in CidsIn(Z) : c < d
      <4>1. waiting \in Seq(Nat) /\ Z \in Seq(Nat)
        BY <1>3, <1>8
      <4> QED BY <4>1, Joined
    <3>4. \A c \in CidsIn(waiting), d \in CidsIn(Z) : c < d
      BY <1>1, <1>3, <1>7, <1>8, <3>1
    <3> QED BY <1>3, <1>7, <3>2, <3>3, <3>4
  <2> QED BY <2>1, <2>2
<1>11. \A c \in CidsIn(waiting') : c <= asks'
  <2>1. \A c \in CidsIn(waiting) : c <= asks + 1
    BY <1>1, <1>7, <1>8
  <2>2. x \in {0, asks + 1}
    OBVIOUS
  <2> QED BY <1>1, <1>10, <2>1, <2>2
<1> HIDE DEF x
<1>12. (job # None /\ job.event # None => job.cmd.kind # "empty")'
  BY <1>1, <1>7
<1> QED BY <1>1, <1>7, <1>9, <1>10, <1>11, <1>12 DEF Asked

\* The answers on their way are to the commands the control plane waits for, in the order
\* they were asked: each is answered, and none twice.
THEOREM EachAnsweredOnce == Spec => []AnsweredOnce
<1>1. ASSUME TypeInv, Asked, [Next]_vars PROVE Asked'
  <2>1. ASSUME Dial PROVE Asked'
    <3>1. link' # "up" /\ UNCHANGED <<waiting, job>>
      BY <1>1, <2>1 DEF Dial, plane, TypeInv, Placed
    <3> QED BY <1>1, <3>1 DEF Asked
  <2>2. ASSUME Attach PROVE Asked'
    <3>1. /\ waiting = <<>> /\ inq = <<>> /\ job = None /\ todo = <<>>
          /\ UNCHANGED <<waiting, inq, job, todo, outq>>
      BY <1>1, <2>2 DEF Attach, TypeInv, Placed, plane
    <3>2. PICK active \in [Mac -> SessionId \cup {None}] : outq = <<Hello(active)>>
      BY <1>1, <2>2 DEF Attach, TypeInv, Placed
    <3>3. Due(outq)' = <<0>>
      BY <3>1, <3>2, FrameTypes, OneFrame DEF Hello
    <3>4. Line' = ((<<0>> \o <<>>) \o <<>>) \o <<>>
      BY <3>1, <3>3, OneFrame DEF Line, InHand
    <3>5. Line' = <<0>>
      <4>1. <<0>> \in Seq(Nat) /\ \A s \in Seq(Nat) : s \o <<>> = s
        BY Alone, ConcatEmptySeq
      <4> QED BY <3>4, <4>1, Zenon
    <3>6. Ascends(Line') /\ CidsIn(Line') = {}
      BY <3>5, Alone
    <3> QED BY <1>1, <3>1, <3>6, Alone, EmptySeq DEF Asked
  <2>3. ASSUME Notice \/ ConnectFails \/ Break \/ Die PROVE Asked'
    <3>1. link' # "up" /\ waiting' = <<>> /\ (job' = job \/ job' = None)
      BY <2>3 DEF Notice, ConnectFails, Break, Die, Over
    <3> QED BY <1>1, <3>1, EmptySeq DEF Asked
  <2>4. ASSUME Grant \/ Revoke PROVE Asked'
    <3>1. /\ pc = "handle" /\ job # None /\ job.cmd.kind # "empty"
          /\ UNCHANGED <<todo, outq, inq, link, waiting, asks>>
      BY <1>1, <2>4
      DEF Grant, Revoke, Handling, TypeInv, Placed, stream, plane, bounds
    <3>2. job.cmd \in Command /\ job = [cmd |-> job.cmd, event |-> job.event]
      BY <1>1, <3>1 DEF TypeInv, Typed, Job
    <3>3. job'.cmd = job.cmd /\ job' # None
      <4>1. PICK e \in SessionEvent : job' = [job EXCEPT !.event = e]
        <5>1. job.cmd.mac \in Mac /\ job.cmd.id \in SessionId
          BY <3>2, JobTypes
        <5>2. table[job.cmd.mac] # None => table[job.cmd.mac] \in SessionId
          BY <1>1, <5>1 DEF TypeInv, Typed
        <5> QED BY <2>4, <5>1, <5>2, FrameTypes DEF Grant, Revoke
      <4>2. job' = [cmd |-> job.cmd, event |-> e]
        BY <3>2, <4>1
      <4> QED BY <3>2, <4>2, JobTypes, NoneAssumption
    <3>4. Line' = Line
      BY <3>1, <3>3 DEF Line, InHand
    <3>5. Like(Line, Line')
      BY <1>1, <3>4, LineIn, LikeSelf
    <3>6. (job # None /\ job.event # None => job.cmd.kind # "empty")'
      BY <3>1, <3>3
    <3> QED BY <1>1, <3>1, <3>5, <3>6, QuietLine
  <2>5. ASSUME GrantRefused \/ RevokeNobody \/ Acknowledge \/ List \/ Other \/ Ignore
        PROVE  Asked'
    <3> DEFINE c == job.cmd.cid
    <3>1. pc = "handle" /\ job # None /\ UNCHANGED <<outq, inq, link, waiting, asks>>
      BY <1>1, <2>5
      DEF GrantRefused, RevokeNobody, Acknowledge, List, Other, Ignore, Handling, TypeInv, Placed,
          plane, bounds
    <3>2. job.cmd \in Command /\ c \in 1..MaxAsks /\ c \in Nat
      <4>1. job.cmd \in Command
        BY <1>1, <3>1, LineTypes
      <4>2. c \in 1..MaxAsks
        BY <4>1, JobTypes
      <4> QED BY <4>1, <4>2, Bounds
    <3>3. InHand = << IF job.cmd.kind = "empty" THEN 0 ELSE c >>
      BY <1>1, <3>1, <3>2, LineTypes, OneFrame
    <3>4. Answer(c) \in Frame /\ Due(<<Answer(c)>>) = <<c>> /\ Row(c) \in Frame
      BY <3>2, FrameTypes, OneFrame DEF Answer
    <3>5. CASE GrantRefused \/ RevokeNobody \/ Acknowledge \/ Other
      <4>1. Reply(<<Answer(c)>>) /\ job.cmd.kind # "empty"
        BY <1>1, <3>1, <3>5
        DEF GrantRefused, RevokeNobody, Acknowledge, Other, Handling, Asked
      <4>2. <<Answer(c)>> \in Seq(Frame)
        BY <3>4
      <4>3. Like(InHand, Due(<<Answer(c)>>))
        BY <3>2, <3>3, <3>4, <4>1, Alone, LikeSelf
      <4> QED BY <1>1, <3>1, <4>1, <4>2, <4>3, ReplyAsked
    <3>6. CASE Ignore
      <4>1. Reply(<<>>) /\ job.cmd.kind = "empty"
        BY <3>6 DEF Ignore, Handling
      <4>2. <<>> \in Seq(Frame) /\ Due(<<>>) = <<>>
        BY OneFrame
      <4>3. Like(InHand, Due(<<>>))
        BY <3>3, <4>1, <4>2, Alone DEF Like
      <4> QED BY <1>1, <3>1, <4>1, <4>2, <4>3, ReplyAsked
    <3>7. CASE List
      <4> DEFINE rows == Cardinality({m \in Mac : table[m] # None})
                 listed == [n \in 1..rows |-> Row(c)]
                 last == <<Answer(c)>>
      <4>1. rows \in Nat
        <5>1. IsFiniteSet({m \in Mac : table[m] # None})
          BY FS_Subset, ChannelAssumption DEF ChannelAssumption
        <5> QED BY <5>1, FS_CardinalityType
      <4>2. listed \in Seq(Frame) /\ last \in Seq(Frame)
        BY <3>4, <4>1, IsASeq
      <4>3. Reply(listed \o last) /\ job.cmd.kind # "empty"
        BY <3>7 DEF List, Handling
      <4>4. Due(listed \o last) = Due(listed) \o <<c>> /\ Due(listed) \in Seq(Nat)
        BY <3>4, <4>2, DueJoined, DueTypes
      <4>5. \A n \in DOMAIN Due(listed) : Due(listed)[n] = 0
        BY DEF Due, Row
      <4> DEFINE L == Due(listed)
                 Z == <<c>>
      <4>6. L \in Seq(Nat) /\ CidsIn(L) = {} /\ Ascends(L)
        BY <4>4, <4>5 DEF CidsIn, Ascends
      <4>7. Z \in Seq(Nat) /\ CidsIn(Z) = {c} \ {0} /\ Ascends(Z) /\ InHand = Z
        BY <3>2, <3>3, <4>3, Alone
      <4> HIDE DEF L, Z
      <4>8. /\ L \o Z \in Seq(Nat) /\ CidsIn(L \o Z) = CidsIn(L) \cup CidsIn(Z)
            /\ Ascends(L \o Z) <=> /\ Ascends(L) /\ Ascends(Z)
                                   /\ \A a \in CidsIn(L), d \in CidsIn(Z) : a < d
        <5>1. L \in Seq(Nat) /\ Z \in Seq(Nat)
          BY <4>6, <4>7
        <5> QED BY <5>1, Joined
      <4>9. Like(InHand, Due(listed \o last))
        <5>1. Due(listed \o last) = L \o Z
          BY <4>4 DEF L, Z
        <5> QED BY <4>6, <4>7, <4>8, <5>1 DEF Like
      <4>10. listed \o last \in Seq(Frame)
        BY <4>2, ConcatProperties
      <4> HIDE DEF listed, last
      <4> QED BY <1>1, <3>1, <4>3, <4>9, <4>10, ReplyAsked
    <3> QED BY <2>5, <3>5, <3>6, <3>7
  <2>6. ASSUME \/ \E m \in Mac : End(m) \/ Adopt(m)
               \/ \E s \in ending : Announce(s)
               \/ Poll \/ UNCHANGED vars
        PROVE  Asked'
    <3>1. /\ UNCHANGED <<job, todo, outq, inq, link, waiting>>
          /\ asks' = asks \/ asks' = asks + 1
      BY <2>6 DEF End, Adopt, Announce, Poll, vars, stream, plane, bounds
    <3>2. asks \in Nat
      BY <1>1, Bounds DEF TypeInv, Typed
    <3>3. Line' = Line
      BY <3>1 DEF Line, InHand
    <3>4. waiting \in Seq(Nat) /\ CidsIn(waiting) \subseteq Nat
      <4>1. waiting \in Seq(Nat)
        BY <1>1, Bounds, SeqMonotonic DEF Asked
      <4> QED BY <4>1, LenProperties, ElementOfSeq DEF CidsIn
    <3>5. link = "up" => \A c \in CidsIn(waiting) : c <= asks'
      BY <1>1, <3>1, <3>2, <3>4 DEF Asked
    <3> QED BY <1>1, <3>1, <3>3, <3>5 DEF Asked
  <2> QED
    BY <1>1, <2>1, <2>2, <2>3, <2>4, <2>5, <2>6, SelectAsked, AskAsked, ReceiveAsked
    DEF Next, Connect, Select, Handler, Manager, Emits
<1>2. Spec => []Asked
  BY InitAsked, <1>1, TypeCorrectChannel, PTL DEF Spec
<1> QED BY <1>2, AskedIsAnswered, PTL
=============================================================================
