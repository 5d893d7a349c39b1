------------------------------ MODULE Effects ------------------------------
(***************************************************************************)
(* What a session has beside the gate: the cap on its bandwidth, a class   *)
(* of tc that a filter steers its traffic into, and, when the control      *)
(* plane ends it and asks for that, the client's way off the Wi-Fi.  The   *)
(* control task grants and revokes one after the other; the metering loop  *)
(* and the tick end sessions meanwhile.  The gate itself is SessionGate's. *)
(***************************************************************************)
EXTENDS Naturals, Sequences, FiniteSets

CONSTANTS
    None,
    Mac,
    Rates,      \* rates of a grant; 0: no cap
    Hashes,     \* ways the addresses of the clients may be hashed into 2..3
    Ap,         \* access points, each an object of hostapd on ubus
    Objects,    \* what ubus lists, in no particular order
    MaxGrants,  \* bound: grants
    MaxMoves,   \* bound: clients that roam
    MaxFaults   \* bound: commands that fail, deaths of the daemon

VARIABLES
    shaping,  \* whether bandwidth is shaped
    minor,    \* the class of a client
    limit,    \* the rate of a session, or None without a session
    class,    \* tc: the rate of a class, or None
    steered,  \* tc: clients with a filter into their class
    air,      \* the access point of a client, or None
    control,  \* what the control task is at, or None
    ending,   \* per loop, clients whose session it has removed and whose cap it has not
    spoilt,   \* history: clients whose class was not theirs alone, or whose rate is not known
    left,     \* history: how the last client was asked off the Wi-Fi
    granted, moves, faults

tc     == <<class, steered>>
bounds == <<granted, moves, faults>>
vars   == <<shaping, minor, limit, tc, air, control, ending, spoilt, left, bounds>>
-----------------------------------------------------------------------------
(* Commands of tc                                                          *)

\* classid_minor hashes the address: a class may have several clients.
Sharing(m) == {n \in Mac : minor[n] = minor[m]}

\* Those that have a session.
Users(m) == {n \in Sharing(m) : limit[n] # None}

Fault == faults < MaxFaults /\ faults' = faults + 1

Fails(m) == Fault /\ UNCHANGED tc /\ spoilt' = spoilt \cup Users(m)

\* class_args: the class is made, or changed to the rate.
ReplaceClass(m, rate) ==
    class' = [class EXCEPT ![minor[m]] = rate] /\ UNCHANGED <<steered, faults, spoilt>>

\* filter_args: traffic to the client goes into its class.
ReplaceFilter(m) ==
    steered' = steered \cup {m} /\ UNCHANGED <<class, faults, spoilt>>

\* del_class_args: the class goes, with the filters into it, if it is there.
DeleteClass(m) ==
    /\ class' = [class EXCEPT ![minor[m]] = None]
    /\ steered' = IF class[minor[m]] = None THEN steered ELSE steered \ Sharing(m)
    /\ UNCHANGED <<faults, spoilt>>

\* clear, if bandwidth is shaped at all.
Clear(m) ==
    IF shaping THEN DeleteClass(m) \/ Fails(m) ELSE UNCHANGED <<tc, faults, spoilt>>
-----------------------------------------------------------------------------
(* The control task: grants                                                *)

\* The session replaces an earlier one, and its cap follows.  It has the class to itself
\* unless there is another client or somebody is about to delete it.
Grant(m) ==
    /\ control = None /\ granted < MaxGrants /\ granted' = granted + 1
    /\ \E rate \in Rates :
          /\ limit' = [limit EXCEPT ![m] = rate]
          /\ control' = [do |-> IF rate = 0 THEN "clear" ELSE "class", mac |-> m, rate |-> rate]
    /\ LET others == Users(m) \ {m}
           alone  == others = {} /\ \A loop \in DOMAIN ending : ending[loop] \cap Sharing(m) = {}
       IN  spoilt' = IF alone THEN spoilt \ {m} ELSE spoilt \cup {m} \cup others
    /\ UNCHANGED <<shaping, minor, tc, air, ending, left, moves, faults>>

\* Mutant: a session without a cap needs none removed.
ApplyNothing ==
    /\ control # None /\ control.do = "clear" /\ control' = None
    /\ UNCHANGED <<shaping, minor, limit, tc, air, ending, spoilt, left, bounds>>

\* apply, without a rate: no cap remains of an earlier session.
ApplyUnlimited ==
    /\ control # None /\ control.do = "clear" /\ control' = None
    /\ Clear(control.mac)
    /\ UNCHANGED <<shaping, minor, limit, air, ending, left, granted, moves>>

\* apply, with one: the class, and if that succeeds the filter.
ApplyClass ==
    /\ control # None /\ control.do = "class"
    /\ \/ /\ shaping /\ ReplaceClass(control.mac, control.rate)
          /\ control' = [control EXCEPT !.do = "filter"]
       \/ /\ IF shaping THEN Fails(control.mac) ELSE UNCHANGED <<tc, faults, spoilt>>
          /\ control' = None
    /\ UNCHANGED <<shaping, minor, limit, air, ending, left, granted, moves>>

ApplyFilter ==
    /\ control # None /\ control.do = "filter" /\ control' = None
    /\ ReplaceFilter(control.mac) \/ Fails(control.mac)
    /\ UNCHANGED <<shaping, minor, limit, air, ending, left, granted, moves>>
-----------------------------------------------------------------------------
(* The control task: revokes                                               *)

\* revoke_internal: only who removes the session goes on.
Revoke(m) ==
    /\ control = None /\ limit[m] # None
    /\ limit' = [limit EXCEPT ![m] = None]
    /\ spoilt' = spoilt \cup (Users(m) \ {m})
    /\ \E off \in BOOLEAN : control' = [do |-> "unshape", mac |-> m, off |-> off]
    /\ UNCHANGED <<shaping, minor, tc, air, ending, left, bounds>>

\* The session's cap, and then, if it is asked for, the client itself.
Unshape ==
    /\ control # None /\ control.do = "unshape"
    /\ Clear(control.mac)
    /\ control' = IF control.off THEN [do |-> "list", mac |-> control.mac] ELSE None
    /\ UNCHANGED <<shaping, minor, limit, air, ending, left, granted, moves>>

\* parse_hostapd_objects: the access points among all objects.
HostapdObjects == Objects \cap Ap

\* The client has been asked off, or could not be: what comes of it is logged.
Left(told, call) ==
    left' = [told |-> told, listed |-> call.listed, broken |-> call.broken,
             moved |-> call.moved, air |-> air'[call.mac]]

\* The list may fail: then there is nothing to do.
List ==
    /\ control # None /\ control.do = "list"
    /\ LET call == [do |-> "call", mac |-> control.mac, todo |-> HostapdObjects, hits |-> 0,
                    failed |-> FALSE, listed |-> TRUE, broken |-> FALSE, moved |-> FALSE]
       IN  \/ control' = call /\ UNCHANGED <<left, faults>>
           \/ control' = [call EXCEPT !.todo = {}, !.listed = FALSE] /\ Fault /\ UNCHANGED left
    /\ UNCHANGED <<shaping, minor, limit, tc, air, ending, spoilt, granted, moves>>

\* Mutant: an access point that does not have the client is the last one that is asked.
DelClientOnce(ap) ==
    /\ control # None /\ control.do = "call" /\ ap \in control.todo
    /\ \/ /\ air[control.mac] = ap
          /\ air' = [air EXCEPT ![control.mac] = None]
          /\ control' = [control EXCEPT !.todo = @ \ {ap}, !.hits = @ + 1]
          /\ UNCHANGED faults
       \/ /\ air[control.mac] # ap
          /\ control' = [control EXCEPT !.todo = {}, !.failed = TRUE]
          /\ UNCHANGED <<air, faults>>
    /\ UNCHANGED <<shaping, minor, limit, tc, ending, spoilt, left, granted, moves>>

\* del_client at each of them: the one that has the client sends it away, the others
\* refuse, and either call may fail.
DelClient(ap) ==
    /\ control # None /\ control.do = "call" /\ ap \in control.todo
    /\ LET next == [control EXCEPT !.todo = @ \ {ap}]
       IN  \/ /\ air[control.mac] = ap
              /\ air' = [air EXCEPT ![control.mac] = None]
              /\ control' = [next EXCEPT !.hits = @ + 1] /\ UNCHANGED faults
           \/ /\ air[control.mac] # ap
              /\ control' = [next EXCEPT !.failed = TRUE] /\ UNCHANGED <<air, faults>>
           \/ control' = [next EXCEPT !.failed = TRUE, !.broken = TRUE] /\ Fault /\ UNCHANGED air
    /\ UNCHANGED <<shaping, minor, limit, tc, ending, spoilt, left, granted, moves>>

\* The revoke is acknowledged either way.
Deauthenticated ==
    /\ control # None /\ control.do = "call" /\ control.todo = {} /\ control' = None
    /\ UNCHANGED <<shaping, minor, limit, tc, air, ending, spoilt, bounds>>
    /\ Left(IF control.hits > 0 \/ ~control.failed THEN "ok" ELSE "error", control)
-----------------------------------------------------------------------------
(* The loops, the clients, the daemon                                      *)

\* The metering loop ends one session, for its quota; the tick those that expire at once.
Remove(loop, gone) ==
    /\ ending[loop] = {} /\ gone # {} /\ \A m \in gone : limit[m] # None
    /\ loop = "metering" => Cardinality(gone) = 1
    /\ limit' = [m \in Mac |-> IF m \in gone THEN None ELSE limit[m]]
    /\ ending' = [ending EXCEPT ![loop] = gone]
    /\ spoilt' = spoilt \cup UNION {Users(m) : m \in gone}
    /\ UNCHANGED <<shaping, minor, tc, air, control, left, bounds>>

\* Their caps go one after the other.
UnshapeNext(loop) ==
    /\ \E m \in ending[loop] : Clear(m) /\ ending' = [ending EXCEPT ![loop] = @ \ {m}]
    /\ UNCHANGED <<shaping, minor, limit, air, control, left, granted, moves>>

\* The metering loop is cancelled where it stands, and starts again.
Rearm ==
    /\ ending["metering"] # {} /\ ending' = [ending EXCEPT !["metering"] = {}]
    /\ UNCHANGED <<shaping, minor, limit, tc, air, control, spoilt, left, bounds>>

\* A client goes to another access point, comes, or leaves.
Roam(m) ==
    /\ moves < MaxMoves /\ moves' = moves + 1
    /\ \E ap \in (Ap \cup {None}) \ {air[m]} : air' = [air EXCEPT ![m] = ap]
    /\ control' = IF control # None /\ control.do = "call" /\ control.mac = m
                  THEN [control EXCEPT !.moved = TRUE] ELSE control
    /\ UNCHANGED <<shaping, minor, limit, tc, ending, spoilt, left, granted, faults>>

\* The daemon dies and starts: sessions whose clients are still let through are adopted,
\* without a rate, and tc keeps what it has.
Restart ==
    /\ Fault /\ control' = None /\ ending' = [loop \in DOMAIN ending |-> {}]
    /\ LET torn == UNION {ending[loop] : loop \in DOMAIN ending}
       IN  limit' \in {after \in [Mac -> {0, None}] :
                          \A m \in Mac \ torn : after[m] = None <=> limit[m] = None}
    /\ spoilt' = {m \in Mac : limit'[m] # None}
    /\ UNCHANGED <<shaping, minor, tc, air, left, granted, moves>>

Init ==
    /\ shaping \in BOOLEAN /\ minor \in Hashes
    /\ limit = [m \in Mac |-> None] /\ class = [c \in 2..3 |-> None] /\ steered = {}
    /\ air \in {[m \in Mac |-> ap] : ap \in Ap} /\ control = None /\ ending = [loop \in {"metering", "tick"} |-> {}]
    /\ spoilt = {} /\ left = None /\ granted = 0 /\ moves = 0 /\ faults = 0

Next ==
    \/ \E m \in Mac : Grant(m) \/ Revoke(m) \/ Roam(m)
    \/ ApplyUnlimited \/ ApplyClass \/ ApplyFilter
    \/ Unshape \/ List \/ (\E ap \in Ap : DelClient(ap)) \/ Deauthenticated
    \/ \E loop \in DOMAIN ending : UnshapeNext(loop) \/ (\E gone \in SUBSET Mac : Remove(loop, gone))
    \/ Rearm \/ Restart

Spec == Init /\ [][Next]_vars
-----------------------------------------------------------------------------
(* Properties                                                              *)

\* A session granted with a rate is held to it, and one granted without has no cap left
\* over from an earlier session of the client, whatever that one was, however it ended and
\* whether its cap was ever removed, once the grant is done; unless a command failed or
\* the class is not the session's alone: by a hash it is another client's too, an
\* earlier session was still about to lose its cap when this one began, or the session
\* is older than the daemon.
CapKept ==
    \A m \in Mac :
        shaping /\ limit[m] \in Rates /\ m \notin spoilt /\ (control = None \/ control.mac # m) =>
            IF limit[m] = 0 THEN m \notin steered \/ class[minor[m]] = None
                            ELSE m \in steered /\ class[minor[m]] = limit[m]

\* A client that is asked off the Wi-Fi and stays where it is until every access point has
\* been asked is off it, unless a call failed; and if it is said to be off, it is.
OffAir ==
    left # None /\ left.listed /\ ~left.moved =>
        /\ left.told = "ok" => left.air = None
        /\ ~left.broken => left.air = None
=============================================================================
