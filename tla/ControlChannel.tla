--------------------------- MODULE ControlChannel ---------------------------
(***************************************************************************)
(* The control channel between the engine, which dials, and the control    *)
(* plane: connection and backoff, the Hello snapshot, one command at a     *)
(* time, and the session events, which wait in a bounded ring while there  *)
(* is no stream.  The subject is what the control plane knows.             *)
(***************************************************************************)
EXTENDS Naturals, Sequences, FiniteSets

CONSTANTS
    Mac,
    None,
    RingSize,      \* capacity of the broadcast ring
    OutboundSize,  \* OUTBOUND_BUFFER
    ReconnectMax,  \* reconnect_max, in seconds
    MaxGrants,     \* bound: session ids the control plane hands out
    MaxAsks,       \* bound: commands it sends, and reports that are made
    MaxAdopts,     \* bound: sessions adopted by the reconciler
    MaxFaults      \* bound: failed dials and attaches, lost streams, deaths of the daemon

ASSUME ChannelAssumption ==
    /\ {RingSize, OutboundSize, ReconnectMax} \subseteq Nat \ {0}
    /\ {MaxGrants, MaxAsks, MaxAdopts, MaxFaults} \subseteq Nat
    /\ IsFiniteSet(Mac)

VARIABLES
    table,    \* the session of each client
    ending,   \* sessions that left the table and whose final event is not emitted
    ring,     \* events emitted and not yet received by the channel's task
    missed,   \* history: the ring overran since the last snapshot
    early,    \* history: sessions whose final event was emitted before GRANTED
    pc,       \* what the channel's task is at
    attempt,  \* connection attempts since the last stream
    delay,    \* the backoff it sleeps, in half seconds
    job,      \* the command in its handler
    todo,     \* frames it is sending
    outq,     \* frames in the outbound channel
    inq,      \* commands on their way
    link,     \* the stream: none, up, or broken and not noticed
    reports,  \* reports in the upward channels
    view,     \* what the control plane takes for the table
    waiting,  \* the commands it waits for an answer to, by correlation id
    asks, grants, adopts, faults

manager == <<table, ending>>
events  == <<ring, missed, early>>
stream  == <<todo, outq, inq, link>>
dialer  == <<attempt, delay>>
plane   == <<view, waiting>>
bounds  == <<asks, grants, adopts, faults>>
vars    == <<manager, events, pc, dialer, job, stream, reports, plane, bounds>>
-----------------------------------------------------------------------------
(* Sessions, events and frames                                             *)

Adopted   == 0       \* the placeholder id of an adopted session
SessionId == 0..MaxGrants

Kinds == {"grant", "revoke", "list", "other", "empty"}
Command == [kind : Kinds, mac : Mac, id : SessionId, cid : 1..MaxAsks]
SessionEvent == [type : {"event"}, kind : {"granted", "final"}, mac : Mac, id : SessionId]
Job == [cmd : Command, event : SessionEvent \cup {None}]

ASSUME NoneAssumption == None \notin SessionId \cup SessionEvent \cup Job

Event(kind, m, id) == [type |-> "event", kind |-> kind, mac |-> m, id |-> id]
Granted(m, id) == Event("granted", m, id)
Final(m, id)   == Event("final", m, id)
Hello(active)  == [type |-> "hello", active |-> active]
Report         == [type |-> "report"]
Row(cid)       == [type |-> "row", cid |-> cid]
Answer(cid)    == [type |-> "answer", cid |-> cid]

\* emit: a broadcast that is full loses its oldest event.
Emit(e) ==
    LET full == Len(ring) = RingSize
    IN  /\ ring' = Append(IF full THEN Tail(ring) ELSE ring, e)
        /\ missed' = (missed \/ full)
-----------------------------------------------------------------------------
(* The session manager's own steps                                         *)

\* A session expires, falls idle or is over its quota, also one that the handler is about
\* to announce.
End(m) ==
    /\ table[m] # None
    /\ ending' = ending \cup {<<m, table[m]>>}
    /\ table' = [table EXCEPT ![m] = None]
    /\ UNCHANGED <<events, pc, dialer, job, stream, reports, plane, bounds>>

\* Its teardown gets to the final event.
Announce(s) ==
    /\ s \in ending /\ ending' = ending \ {s}
    /\ Emit(Final(s[1], s[2]))
    /\ early' = IF job # None /\ job.event = Granted(s[1], s[2]) THEN early \cup {s[2]}
                ELSE early
    /\ UNCHANGED <<table, pc, dialer, job, stream, reports, plane, bounds>>

\* The reconciler adopts a client, and emits nothing.
Adopt(m) ==
    /\ table[m] = None /\ adopts < MaxAdopts
    /\ adopts' = adopts + 1
    /\ table' = [table EXCEPT ![m] = Adopted]
    /\ UNCHANGED <<ending, events, pc, dialer, job, stream, reports, plane,
                   asks, grants, faults>>

\* A poller leaves a report.
Poll ==
    /\ asks < MaxAsks
    /\ asks' = asks + 1 /\ reports' = reports + 1
    /\ UNCHANGED <<manager, events, pc, dialer, job, stream, plane, grants, adopts, faults>>
-----------------------------------------------------------------------------
(* Connecting                                                              *)

LowerOf(a, b) == IF a < b THEN a ELSE b
Capped(n) == LowerOf(2 ^ LowerOf(n, 16), ReconnectMax)

\* backoff: between half of the capped power of two and all of it, in half seconds.
Backoff(n) == IF n = 0 THEN {0} ELSE Capped(n)..(2 * Capped(n))

\* Mutant: the ramp carries over.
NextAttemptRamp(established) == attempt + 1

\* After a stream the ramp starts afresh.
NextAttempt(established) == IF established THEN 1 ELSE attempt + 1

\* connect_once returns.  Frames queued, the commands and the sends of the stream go.
Over(established) ==
    /\ pc' = "backoff" /\ attempt' = NextAttempt(established)
    /\ delay' \in Backoff(NextAttempt(established))
    /\ todo' = <<>> /\ outq' = <<>> /\ inq' = <<>> /\ link' = "none" /\ waiting' = <<>>

Fault == faults < MaxFaults /\ faults' = faults + 1

\* The sleep is over, the dial succeeds, and the snapshot is queued as the first frame.
Dial ==
    /\ pc = "backoff" /\ pc' = "attach" /\ delay' = 0
    /\ outq' = <<Hello(table)>> /\ missed' = FALSE
    /\ UNCHANGED <<manager, ring, early, attempt, job, todo, inq, link, reports, plane, bounds>>

\* It fails, or the attach call does.
ConnectFails ==
    /\ pc \in {"backoff", "attach"} /\ Fault /\ Over(FALSE)
    /\ UNCHANGED <<manager, events, job, reports, view, asks, grants, adopts>>

\* Mutant: the events are subscribed to for each stream.
AttachResubscribe ==
    /\ pc = "attach" /\ pc' = "select" /\ link' = "up" /\ ring' = <<>>
    /\ UNCHANGED <<manager, missed, early, dialer, job, todo, outq, inq, reports, plane, bounds>>

Attach ==
    /\ pc = "attach" /\ pc' = "select" /\ link' = "up"
    /\ UNCHANGED <<manager, events, dialer, job, todo, outq, inq, reports, plane, bounds>>

\* The stream breaks: what is in it is not delivered any more.
Break ==
    /\ link = "up" /\ Fault
    /\ link' = "broken" /\ inq' = <<>> /\ waiting' = <<>>
    /\ UNCHANGED <<manager, events, pc, dialer, job, todo, outq, reports, view,
                   asks, grants, adopts>>

\* Mutant: noticed by the receiving side only.
NoticeIdle ==
    /\ link = "broken" /\ pc = "select" /\ Over(TRUE)
    /\ UNCHANGED <<manager, events, job, reports, view, bounds>>

\* Mutant: a handler is dropped where it stands.
NoticeAnywhere ==
    /\ link = "broken" /\ pc \in {"select", "send", "handle"} /\ Over(TRUE)
    /\ UNCHANGED <<manager, events, job, reports, view, bounds>>

\* The task notices, in its select or in a send, never in a handler.
Notice ==
    /\ link = "broken" /\ pc \in {"select", "send"} /\ Over(TRUE)
    /\ UNCHANGED <<manager, events, job, reports, view, bounds>>
-----------------------------------------------------------------------------
(* The select loop                                                         *)

TakeCommand ==
    /\ pc = "select" /\ inq # <<>>
    /\ job' = [cmd |-> Head(inq), event |-> None] /\ inq' = Tail(inq)
    /\ pc' = "handle"
    /\ UNCHANGED <<manager, events, dialer, todo, outq, link, reports, plane, bounds>>

TakeEvent ==
    /\ pc = "select" /\ ring # <<>>
    /\ todo' = <<Head(ring)>> /\ ring' = Tail(ring) /\ pc' = "send"
    /\ UNCHANGED <<manager, missed, early, dialer, job, outq, inq, link, reports, plane,
                   bounds>>

TakeReport ==
    /\ pc = "select" /\ reports > 0
    /\ reports' = reports - 1 /\ todo' = <<Report>> /\ pc' = "send"
    /\ UNCHANGED <<manager, events, dialer, job, outq, inq, link, plane, bounds>>

\* A frame is sent, once the outbound channel has a place for it.
Send ==
    /\ pc = "send" /\ Len(outq) < OutboundSize
    /\ outq' = Append(outq, Head(todo)) /\ todo' = Tail(todo)
    /\ pc' = IF Len(todo) = 1 THEN "select" ELSE "send"
    /\ UNCHANGED <<manager, events, dialer, job, inq, link, reports, plane, bounds>>
-----------------------------------------------------------------------------
(* The handlers                                                            *)

Handling(kind) == pc = "handle" /\ job.event = None /\ job.cmd.kind = kind

\* The handler ends with these frames.
Reply(frames) ==
    /\ job' = None /\ todo' = frames
    /\ pc' = IF frames = <<>> THEN "select" ELSE "send"

\* A grant is converted, admitted by the firewall and put into the table, where it
\* replaces the client's session, if any, without an event.
Grant ==
    /\ Handling("grant")
    /\ table' = [table EXCEPT ![job.cmd.mac] = job.cmd.id]
    /\ job' = [job EXCEPT !.event = Granted(job.cmd.mac, job.cmd.id)]
    /\ UNCHANGED <<ending, events, pc, dialer, stream, reports, plane, bounds>>

\* Mutant: an error is only logged.
GrantRefusedSilently ==
    /\ Handling("grant") /\ Reply(<<>>)
    /\ UNCHANGED <<manager, events, dialer, outq, inq, link, reports, plane, bounds>>

\* It is refused: a bad request, the cap, or the firewall.
GrantRefused ==
    /\ Handling("grant") /\ Reply(<<Answer(job.cmd.cid)>>)
    /\ UNCHANGED <<manager, events, dialer, outq, inq, link, reports, plane, bounds>>

Revoke ==
    /\ Handling("revoke") /\ table[job.cmd.mac] # None
    /\ job' = [job EXCEPT !.event = Final(job.cmd.mac, table[job.cmd.mac])]
    /\ table' = [table EXCEPT ![job.cmd.mac] = None]
    /\ UNCHANGED <<ending, events, pc, dialer, stream, reports, plane, bounds>>

\* Mutant: a revoke of a session that is not there is passed over.
RevokeNobodySilently ==
    /\ Handling("revoke") /\ table[job.cmd.mac] = None /\ Reply(<<>>)
    /\ UNCHANGED <<manager, events, dialer, outq, inq, link, reports, plane, bounds>>

RevokeNobody ==
    /\ Handling("revoke") /\ table[job.cmd.mac] = None /\ Reply(<<Answer(job.cmd.cid)>>)
    /\ UNCHANGED <<manager, events, dialer, outq, inq, link, reports, plane, bounds>>

\* A grant or a revoke emits its event, and is acknowledged.
Acknowledge ==
    /\ pc = "handle" /\ job.event # None
    /\ Emit(job.event) /\ Reply(<<Answer(job.cmd.cid)>>)
    /\ UNCHANGED <<manager, early, dialer, outq, inq, link, reports, plane, bounds>>

\* One frame for each session, and the end of the list.
List ==
    /\ Handling("list")
    /\ LET rows == Cardinality({m \in Mac : table[m] # None})
       IN  Reply([n \in 1..rows |-> Row(job.cmd.cid)] \o <<Answer(job.cmd.cid)>>)
    /\ UNCHANGED <<manager, events, dialer, outq, inq, link, reports, plane, bounds>>

\* Ping, config pushes, introspection, wireless: one frame.
Other ==
    /\ Handling("other") /\ Reply(<<Answer(job.cmd.cid)>>)
    /\ UNCHANGED <<manager, events, dialer, outq, inq, link, reports, plane, bounds>>

\* A frame without a message this engine knows.
Ignore ==
    /\ Handling("empty") /\ Reply(<<>>)
    /\ UNCHANGED <<manager, events, dialer, outq, inq, link, reports, plane, bounds>>
-----------------------------------------------------------------------------
(* The control plane                                                       *)

\* It sends a command; a grant names a session of its own.
Ask ==
    /\ link = "up" /\ asks < MaxAsks /\ asks' = asks + 1
    /\ \E kind \in Kinds, m \in Mac :
           /\ kind = "grant" => grants < MaxGrants
           /\ grants' = IF kind = "grant" THEN grants + 1 ELSE grants
           /\ inq' = Append(inq, [kind |-> kind, mac |-> m, cid |-> asks + 1,
                                  id |-> IF kind = "grant" THEN grants + 1 ELSE 0])
           /\ waiting' = IF kind = "empty" THEN waiting ELSE Append(waiting, asks + 1)
    /\ UNCHANGED <<manager, events, pc, dialer, job, todo, outq, link, reports, view,
                   adopts, faults>>

\* It takes the Hello for the table, and then the events in turn, by session id.
Learned(f) ==
    CASE f.type = "hello" -> f.active
      [] f.type = "event" ->
            IF f.kind = "granted" THEN [view EXCEPT ![f.mac] = f.id]
            ELSE IF view[f.mac] = f.id THEN [view EXCEPT ![f.mac] = None] ELSE view
      [] OTHER -> view

Receive ==
    /\ link = "up" /\ outq # <<>>
    /\ view' = Learned(Head(outq)) /\ outq' = Tail(outq)
    /\ waiting' = IF Head(outq).type = "answer" THEN Tail(waiting) ELSE waiting
    /\ UNCHANGED <<manager, events, pc, dialer, job, todo, inq, link, reports, bounds>>
-----------------------------------------------------------------------------
(* The daemon                                                              *)

\* The daemon dies, and its successor adopts whom the kernel still lets through.
Die ==
    /\ Fault
    /\ \E left \in SUBSET Mac :
           table' = [m \in Mac |-> IF table[m] # None \/ m \in left THEN Adopted ELSE None]
    /\ ending' = {} /\ ring' = <<>> /\ missed' = FALSE
    /\ pc' = "backoff" /\ attempt' = 0 /\ delay' = 0 /\ job' = None
    /\ todo' = <<>> /\ outq' = <<>> /\ inq' = <<>> /\ link' = "none" /\ waiting' = <<>>
    /\ reports' = 0
    /\ UNCHANGED <<early, view, asks, grants, adopts>>

Init ==
    /\ table = [m \in Mac |-> None] /\ ending = {} /\ ring = <<>> /\ missed = FALSE
    /\ early = {} /\ pc = "backoff" /\ attempt = 0 /\ delay = 0 /\ job = None
    /\ todo = <<>> /\ outq = <<>> /\ inq = <<>> /\ link = "none" /\ reports = 0
    /\ view = [m \in Mac |-> None] /\ waiting = <<>>
    /\ asks = 0 /\ grants = 0 /\ adopts = 0 /\ faults = 0

Connect == Dial \/ Attach \/ Notice
Select  == TakeCommand \/ TakeEvent \/ TakeReport \/ Send
Handler == Grant \/ GrantRefused \/ Revoke \/ RevokeNobody \/ Acknowledge
               \/ List \/ Other \/ Ignore
Manager == \E m \in Mac : End(m) \/ Adopt(m)
Emits   == \E s \in ending : Announce(s)

Next == Connect \/ ConnectFails \/ Break \/ Select \/ Handler \/ Manager \/ Emits
            \/ Poll \/ Ask \/ Receive \/ Die

Spec == Init /\ [][Next]_vars

\* The task is polled, teardowns run to their end, and a control plane reads its streams.
FairSpec ==
    /\ Spec
    /\ WF_vars(Connect) /\ WF_vars(Select) /\ WF_vars(Handler)
    /\ WF_vars(Emits) /\ WF_vars(Receive)
-----------------------------------------------------------------------------
(* Properties                                                              *)

TypeOK ==
    /\ table \in [Mac -> SessionId \cup {None}] /\ ending \subseteq Mac \X SessionId
    /\ Len(ring) <= RingSize /\ Len(outq) <= OutboundSize
    /\ pc \in {"backoff", "attach", "select", "handle", "send"}
    /\ (pc = "handle") = (job # None) /\ (pc = "send") = (todo # <<>>)
    /\ link \in {"none", "up", "broken"}
    /\ (link = "none") = (pc \in {"backoff", "attach"})
    /\ view \in [Mac -> SessionId \cup {None}]

Drained == link = "up" /\ ring \o todo \o outq = <<>> /\ ending = {} /\ job = None

\* What the control plane takes for a client's session is the session.  An adopted one
\* it may not know: adoption emits nothing, and an older final event may still come.  And
\* it takes a session for live that it heard of only after its end.
Agrees(m) ==
    \/ view[m] = table[m]
    \/ table[m] = Adopted /\ view[m] = None
    \/ table[m] \in {None, Adopted} /\ view[m] \in early

\* Events wait in the ring while there is no stream and are replayed after a Hello that
\* knows better, some are lost with a stream, and a grant may take effect unanswered:
\* when all is delivered the control plane knows the table, unless the ring overran.
Rebaselined == Drained /\ ~missed => \A m \in Mac : Agrees(m)

\* The answers on their way, and the commands that will be answered, in order; 0: none.
Due(frames)    == [n \in DOMAIN frames |-> IF frames[n].type = "answer" THEN frames[n].cid ELSE 0]
Owed(commands) == [n \in DOMAIN commands |-> IF commands[n].kind = "empty" THEN 0 ELSE commands[n].cid]
InHand         == IF job = None THEN <<>> ELSE Owed(<<job.cmd>>)

Ascends(cids) == \A i, j \in DOMAIN cids : i < j /\ cids[i] # 0 /\ cids[j] # 0 => cids[i] < cids[j]
CidsIn(cids)  == {cids[n] : n \in DOMAIN cids} \ {0}

\* The commands the control plane waits for are those whose answer is on the way, the
\* one in its handler, and those not yet read, in this order: each is answered once.
AnsweredOnce ==
    link = "up" =>
        LET line == Due(outq) \o Due(todo) \o InHand \o Owed(inq)
        IN  Ascends(line) /\ Ascends(waiting) /\ CidsIn(waiting) = CidsIn(line)

\* After a lost stream the engine dials again within two seconds; after n failures in a
\* row it waits at least half of 2^n seconds, and never longer than reconnect_max.
BacksOff ==
    [][/\ link # "none" /\ link' = "none" /\ attempt' # 0 =>
             delay' \in 1..LowerOf(4, 2 * ReconnectMax)
       /\ link = "none" /\ attempt' > attempt =>
             delay' \in LowerOf(2 ^ (attempt + 1), ReconnectMax)..(2 * ReconnectMax)]_vars

\* Commands do not wait for ever for an answer, however slow the stream.
Answered == \A cid \in 1..MaxAsks :
    (\E n \in DOMAIN waiting : waiting[n] = cid) ~> ~\E n \in DOMAIN waiting : waiting[n] = cid

\* When the network and the daemon behave, the engine is connected in the end, and the
\* control plane comes to know every session and to stay so.
Converges == <>[](link = "up" /\ (missed \/ \A m \in Mac : Agrees(m)))
=============================================================================
