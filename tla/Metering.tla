------------------------------ MODULE Metering ------------------------------
(***************************************************************************)
(* What the metering loop makes of conntrack: every tick sums the bytes of *)
(* the flows that exist, by client, and the session table takes the        *)
(* difference to a baseline for what the session moved.                    *)
(***************************************************************************)
EXTENDS Naturals, Sequences, FiniteSetsExt, Neighbours

CONSTANTS
    None,
    MaxFlows,   \* bound: conntrack entries
    Tables,     \* neighbour tables, one of which is there all the time
    Quota,      \* bytes a session is granted
    MaxBytes    \* bound: bytes moved, one at a time

Flow == 1..MaxFlows

VARIABLES
    lines,     \* the neighbour table
    flow,      \* the conntrack entries, None before they are opened
    dump,      \* what the loop has read and not applied, or None
    session,   \* the sessions' counters
    breached,  \* clients found over quota and not yet revoked
    began      \* history: what a client had moved when its session began

vars == <<lines, flow, dump, session, breached, began>>
-----------------------------------------------------------------------------
(* Counting                                                                *)

Direction == {"in", "out"}
Bytes     == [Direction -> Nat]
Zero      == [d \in Direction |-> 0]

Total(bytes) == bytes["in"] + bytes["out"]

Live(flows) == {f \in Flow : flows[f] # None /\ flows[f].open}

SumOver(S, op(_)) == MapThenSumSet(op, S)

\* parse_conntrack: the bytes of each original source, over its flows.
Sources(flows) ==
    [ip \in {flows[f].src : f \in Live(flows)} |->
        [d \in Direction |->
            SumOver({f \in Live(flows) : flows[f].src = ip}, LAMBDA f : flows[f].bytes[d])]]

\* snapshot: sources are resolved, those of one client added up, the others left out.
Snapshot(flows) ==
    LET by    == Sources(flows)
        owner == ResolveMany(lines, DOMAIN by)
    IN  [m \in {owner[ip] : ip \in DOMAIN owner} |->
            [d \in Direction |->
                SumOver({ip \in DOMAIN owner : owner[ip] = m}, LAMBDA ip : by[ip][d])]]

\* delta: what the baseline becomes ...
Baseline(base, current) == IF base = None \/ current < base THEN current ELSE base

\* Mutant: the first sight of a client counts from zero.
DeltaFromZero(base, current) ==
    IF base = None THEN current ELSE IF current < base THEN 0 ELSE current - base

\* ... and what it returns.
Delta(base, current) == IF base = None \/ current < base THEN 0 ELSE current - base

\* apply_counters_at, for one session.
Metered(s, current) ==
    [bytes |-> [d \in Direction |-> Delta(s.base[d], current[d])],
     base  |-> [d \in Direction |-> Baseline(s.base[d], current[d])]]

\* The entries of a client, those that are gone included, and what it moved by them.
Owned(m, flows) ==
    LET owner == ResolveMany(lines, {flows[f].src : f \in {f \in Flow : flows[f] # None}})
    IN  {f \in Flow : /\ flows[f] # None
                      /\ flows[f].src \in DOMAIN owner /\ owner[flows[f].src] = m}

Moved(m, flows) == SumOver(Owned(m, flows), LAMBDA f : Total(flows[f].bytes))
-----------------------------------------------------------------------------
(* Flows                                                                   *)

Open(f, ip) ==
    /\ flow[f] = None /\ \A g \in 1..(f - 1) : flow[g] # None
    /\ flow' = [flow EXCEPT ![f] = [src |-> ip, open |-> TRUE, bytes |-> Zero]]
    /\ UNCHANGED <<lines, dump, session, breached, began>>

Transfer(f, d) ==
    /\ f \in Live(flow)
    /\ SumOver({g \in Flow : flow[g] # None}, LAMBDA g : Total(flow[g].bytes)) < MaxBytes
    /\ flow' = [flow EXCEPT ![f].bytes[d] = @ + 1]
    /\ UNCHANGED <<lines, dump, session, breached, began>>

\* The connection ends, times out or is reaped.
Close(f) ==
    /\ f \in Live(flow) /\ flow' = [flow EXCEPT ![f].open = FALSE]
    /\ UNCHANGED <<lines, dump, session, breached, began>>
-----------------------------------------------------------------------------
(* The loop                                                                *)

\* A tick reads the flows; one that cannot is skipped.
Dump ==
    /\ dump = None /\ breached = {} /\ dump' = flow
    /\ UNCHANGED <<lines, flow, session, breached, began>>

\* The neighbours cannot be read: the tick ends.
Skip ==
    /\ dump # None /\ dump' = None
    /\ UNCHANGED <<lines, flow, session, breached, began>>

Tracked(current) == {m \in DOMAIN current : session[m] # None}

\* It counts for the sessions that are there, and finds those over quota.
Apply ==
    /\ dump # None
    /\ LET current == Snapshot(dump)
       IN  /\ session' = [m \in Mac |-> IF m \in Tracked(current)
                                        THEN Metered(session[m], current[m]) ELSE session[m]]
           /\ breached' = {m \in Tracked(current) : Total(session'[m].bytes) > Quota}
    /\ dump' = None
    /\ UNCHANGED <<lines, flow, began>>

\* revoke_internal for quota, one client after the other.
QuotaRevoke(m) ==
    /\ m \in breached
    /\ breached' = breached \ {m} /\ session' = [session EXCEPT ![m] = None]
    /\ UNCHANGED <<lines, flow, dump, began>>
-----------------------------------------------------------------------------
(* Sessions                                                                *)

\* grant_at or adopt: the counters have no baseline.  A grant replaces a session.
Grant(m) ==
    /\ session' = [session EXCEPT ![m] =
                      [bytes |-> Zero, base |-> [d \in Direction |-> None]]]
    /\ began' = [began EXCEPT ![m] = Moved(m, IF dump = None THEN flow ELSE dump)]
    /\ UNCHANGED <<lines, flow, dump, breached>>

\* A session is revoked or expires.
End(m) ==
    /\ session[m] # None /\ session' = [session EXCEPT ![m] = None]
    /\ UNCHANGED <<lines, flow, dump, breached, began>>

Init ==
    /\ lines \in Tables
    /\ flow = [f \in Flow |-> None] /\ dump = None
    /\ session = [m \in Mac |-> None] /\ breached = {}
    /\ began = [m \in Mac |-> 0]

Next ==
    \/ \E f \in Flow : Close(f) \/ (\E ip \in Ip : Open(f, ip))
                                \/ (\E d \in Direction : Transfer(f, d))
    \/ Dump \/ Skip \/ Apply
    \/ \E m \in Mac : QuotaRevoke(m) \/ Grant(m) \/ End(m)

Spec == Init /\ [][Next]_vars
-----------------------------------------------------------------------------
(* Properties                                                              *)

\* A session is charged at most what its client moved since it began, or since the dump
\* of the tick that was under way then, although flows begin and end, counters fall below
\* their baseline and a client may have several addresses.
NeverOvercharged ==
    \A m \in Mac : session[m] # None =>
        Total(session[m].bytes) <= Moved(m, flow) - began[m]
=============================================================================
