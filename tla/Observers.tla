------------------------------ MODULE Observers ------------------------------
(***************************************************************************)
(* Who looks at the sessions from outside, and changes nothing: a client   *)
(* of the unary service that lists them and streams their events, the      *)
(* counters behind /metrics and GetMetrics, and the health flags.  The     *)
(* sessions come and go as in SessionGate, and handlers emit an event some *)
(* time after the step that it tells of.                                   *)
(***************************************************************************)
EXTENDS Integers, Sequences, FiniteSets

CONSTANTS
    None,
    Mac,
    Ring,       \* capacity of the broadcast channel
    Reasons,    \* why sessions are revoked
    MaxGrants,  \* bound: sessions
    MaxLooks    \* bound: questions, and changes of a health flag

VARIABLES
    live,      \* the session of a client, or None
    unsaid,    \* events that handlers have still to emit
    ring,      \* the last events that were emitted
    emitted,   \* how many there were
    counters,  \* Metrics
    gauge,     \* its active_sessions
    health,    \* HealthStatus
    client,    \* a client of the service: how far it is in the stream and what it takes for live
    reply,     \* what the last question was answered
    apart,     \* history: sessions that were adopted, less those that a grant replaced
    early,     \* history: sessions whose final event was emitted before GRANTED
    begun, looks

vars == <<live, unsaid, ring, emitted, counters, gauge, health, client, reply, apart, early, begun, looks>>

sessions == <<live, unsaid, begun, apart, early>>
seen     == <<gauge, health, client, reply, looks>>
-----------------------------------------------------------------------------
(* Sessions and events                                                     *)

\* EventKind::from, for a session that is revoked; one that expires has a kind of its own.
EventKindOf(reason) ==
    CASE reason = "quota"                   -> "quota_exceeded"
      [] reason = "idle_timeout"            -> "idle_timeout"
      [] reason \in {"admin", "mac_change"} -> "revoked"

Finals == {EventKindOf(reason) : reason \in Reasons} \cup {"expired"}
Kinds  == {"granted"} \cup Finals

Event(kind, m, session) == [kind |-> kind, mac |-> m, session |-> session]

\* Metrics: a counter per kind of event, and others of which one is here; incr.
Metrics == [counter \in Kinds \cup {"cp_disconnect"} |-> 0]

Incr(counter) == counters' = [counters EXCEPT ![counter] = @ + 1]

LastOf(all) == IF Len(all) > Ring THEN Tail(all) ELSE all

Say(event) == unsaid' = unsaid \cup {event}

\* The grant is in the table before its event is out.
Grant(m) ==
    /\ begun < MaxGrants /\ begun' = begun + 1
    /\ \A event \in unsaid : event.kind # "granted"
    /\ live' = [live EXCEPT ![m] = [id |-> begun + 1, adopted |-> FALSE]]
    /\ Say(Event("granted", m, begun + 1))
    /\ apart' = IF live[m] = None THEN apart ELSE apart - 1
    /\ UNCHANGED <<early, ring, emitted, counters, seen>>

\* Nothing is emitted of a session that is adopted.
Adopt(m) ==
    /\ begun < MaxGrants /\ begun' = begun + 1 /\ live[m] = None
    /\ live' = [live EXCEPT ![m] = [id |-> begun + 1, adopted |-> TRUE]]
    /\ apart' = apart + 1
    /\ UNCHANGED <<unsaid, early, ring, emitted, counters, seen>>

\* The session is out of the table before its event is out.
End(m) ==
    /\ live[m] # None
    /\ \E kind \in Finals : Say(Event(kind, m, live[m].id))
    /\ live' = [live EXCEPT ![m] = None]
    /\ UNCHANGED <<begun, apart, early, ring, emitted, counters, seen>>

\* GrpcEventSink::emit, and the counter of the event.  A session may end before its GRANTED
\* is out.
Emit(event) ==
    /\ unsaid' = unsaid \ {event}
    /\ early' = IF event.kind # "granted" /\ Event("granted", event.mac, event.session) \in unsaid
                THEN early \cup {event.session} ELSE early
    /\ ring' = LastOf(Append(ring, event)) /\ emitted' = emitted + 1
    /\ Incr(event.kind)
    /\ UNCHANGED <<live, begun, apart, seen>>
-----------------------------------------------------------------------------
(* A client of the service                                                 *)

\* In a behaviour there is a client of the stream, or there are questions: neither can tell
\* of the other.
Look == client = None /\ looks < MaxLooks /\ looks' = looks + 1

\* Mutant: subscribed by the first poll, which loses the event that wakes it.
StreamEventsLate ==
    /\ client = None /\ looks = 0
    /\ client' = [at |-> emitted + 1, lagged |-> FALSE, listed |-> FALSE,
                  view |-> [m \in Mac |-> 0]]
    /\ UNCHANGED <<sessions, ring, emitted, counters, gauge, health, reply, looks>>

\* stream_events: the subscription is there when the call is answered.
StreamEvents ==
    /\ client = None /\ looks = 0
    /\ client' = [at |-> emitted, lagged |-> FALSE, listed |-> FALSE,
                  view |-> [m \in Mac |-> 0]]
    /\ UNCHANGED <<sessions, ring, emitted, counters, gauge, health, reply, looks>>

\* list_sessions: the table as it is at the call.
ListSessions ==
    /\ client # None /\ ~client.listed
    /\ client' = [client EXCEPT !.listed = TRUE,
                     !.view = [m \in Mac |-> IF live[m] = None THEN 0 ELSE live[m].id]]
    /\ UNCHANGED <<sessions, ring, emitted, counters, gauge, health, reply, looks>>

\* session_event_to_pb: every event has the number 0, so that a gap does not show.
SessionEventToPb(event) == [kind |-> event.kind, mac |-> event.mac, session |-> event.session, seq |-> 0]

\* What a client makes of an event.
Learn(view, event) ==
    CASE event.kind = "granted"                                    -> [view EXCEPT ![event.mac] = event.session]
      [] event.kind # "granted" /\ view[event.mac] = event.session -> [view EXCEPT ![event.mac] = 0]
      [] OTHER                                                     -> view

\* broadcast_event_stream: the next event, or if that is out of the ring the oldest one
\* that is not.
ReceiveEvent ==
    /\ client # None /\ client.listed /\ client.at < emitted
    /\ LET lagged == emitted - client.at > Ring
           next   == IF lagged THEN emitted - Ring + 1 ELSE client.at + 1
       IN  client' = [client EXCEPT !.at = next, !.lagged = @ \/ lagged,
                                    !.view = Learn(@, SessionEventToPb(ring[next - (emitted - Len(ring))]))]
    /\ UNCHANGED <<sessions, ring, emitted, counters, gauge, health, reply, looks>>
-----------------------------------------------------------------------------
(* Counters and health                                                     *)

\* render: all of it, with the gauge as it is.  The history is what the reader does not see.
Render(active) ==
    [kind |-> "scrape", active |-> active, counters |-> counters,
     quiet |-> unsaid = {}, apart |-> apart]

\* snapshot: all that is counted, and the gauge.
Snapshot == [active |-> gauge, counters |-> counters]

\* metrics_to_pb: there is no field for disconnects.
MetricsToPb(snapshot) ==
    [kind |-> "metrics", active |-> snapshot.active,
     counters |-> [kind \in Kinds |-> snapshot.counters[kind]]]

\* health_to_pb: enforcement is always reported on.
HealthToPb == [kind |-> "health", enforcement |-> TRUE, flags |-> health]

Active == Cardinality({m \in Mac : live[m] # None})

\* handler of /metrics: the gauge is set, and all of it is rendered.
Scrape ==
    /\ Look /\ gauge' = Active /\ reply' = Render(Active)
    /\ UNCHANGED <<sessions, ring, emitted, counters, health, client>>

\* get_metrics: the gauge is that of the last scrape.
GetMetrics ==
    /\ Look /\ reply' = MetricsToPb(Snapshot)
    /\ UNCHANGED <<sessions, ring, emitted, counters, gauge, health, client>>

\* mark_reconcile: the list of a pass failed, or a repair did, or nothing.
MarkReconcile ==
    /\ Look
    /\ \E table, ok \in BOOLEAN :
          (ok => table) /\ health' = [health EXCEPT !.table = table, !.reconcile = ok]
    /\ UNCHANGED <<sessions, ring, emitted, counters, gauge, client, reply>>

\* The callback of the control channel: the flag, and a disconnect is counted.
CpState ==
    /\ Look /\ health' = [health EXCEPT !.cp = ~@]
    /\ IF health.cp THEN Incr("cp_disconnect") ELSE UNCHANGED counters
    /\ UNCHANGED <<sessions, ring, emitted, gauge, client, reply>>

Health ==
    /\ Look /\ reply' = HealthToPb
    /\ UNCHANGED <<sessions, ring, emitted, counters, gauge, health, client>>

Init ==
    /\ live = [m \in Mac |-> None] /\ unsaid = {} /\ ring = <<>> /\ emitted = 0
    /\ counters = Metrics /\ gauge = 0
    /\ health = [backend |-> TRUE, table |-> FALSE, cp |-> FALSE, reconcile |-> FALSE]
    /\ client = None /\ reply = None /\ apart = 0 /\ early = {} /\ begun = 0 /\ looks = 0

Next ==
    \/ \E m \in Mac : Grant(m) \/ Adopt(m) \/ End(m)
    \/ \E event \in unsaid : Emit(event)
    \/ StreamEvents \/ ListSessions \/ ReceiveEvent
    \/ Scrape \/ GetMetrics \/ MarkReconcile \/ CpState \/ Health
-----------------------------------------------------------------------------
(* Properties                                                              *)

\* A client that subscribes, then lists, and has read what there is to read knows the
\* sessions as soon as no handler is about to speak: no event falls between the two, and
\* one that the list already shows does no harm.  Unless it was too slow for the ring, the
\* session is adopted, or it had ended when it was announced.
Informed ==
    client # None /\ client.listed /\ ~client.lagged /\ client.at = emitted /\ unsaid = {} =>
        \A m \in Mac : \/ live[m] = None /\ client.view[m] \in {0} \cup early
                       \/ live[m] # None /\ (live[m].adopted \/ client.view[m] = live[m].id)

\* From a scrape alone one knows how many sessions there are, unless a handler is about to
\* speak: those that were granted, less those that ended, but for the adopted, which are not
\* counted, and the replaced, which have no end.
Tallied ==
    LET Sum(c, kinds) == Cardinality({k \in kinds \X (1..MaxGrants) : k[2] <= c[k[1]]})
    IN  reply # None /\ reply.kind = "scrape" /\ reply.quiet =>
            reply.active = reply.counters["granted"] + reply.apart - Sum(reply.counters, Finals)
=============================================================================
