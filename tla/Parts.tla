------------------------------- MODULE Parts -------------------------------
(***************************************************************************)
(* The smaller parts, that share no state with each other, side by side: a *)
(* behaviour is one of one of them, and the others stand still.            *)
(***************************************************************************)
EXTENDS Naturals, Sequences, FiniteSets

CONSTANTS
    Parts,  \* the parts that are to run
    None, Ip, Mac,
    \* What the modules of the parts take, under their names but for those that differ
    \* from part to part.
    Names, BadNames, Idles, Ifaces,
    Capacity, Unit, MaxKeys, StoreId, Reserved, MaxTime, MaxRequests, MaxChurn,
    Tables, MaxFlows, Quota, MaxBytes,
    Slug, MaxTransfers,
    Lists, Pairs, Foreign, Protected, MaxVifs, MaxRadios,
    Grants, Policies, Messages,
    Rates, Hashes, AccessPoints, Objects, MaxGrants, MaxMoves, MaxErrors,
    Meant, Broken,
    Ours, SavedSections, Versions, Scopes,
    Watched, Ring, Reasons, MaxSessions, MaxLooks,
    PushedGardens, Requests, SettingsFiles, MaxTurns,
    MaxPushes, MaxFaults

\* Classes are numbers of tc, every access point is an object of ubus.
ASSUME PartsAssumption == Hashes \subseteq [Mac -> 2..3] /\ AccessPoints \subseteq Objects

\* "Nothing under way" is no poll and no grant, "no session" is no rate and no session.
ASSUME NoneAssumption ==
    /\ None \notin [step : {"reconcile", "prune", "read"}, ips : SUBSET Ip]
    /\ None \notin [do : {"clear", "class", "filter"}, mac : Mac, rate : Rates]
    /\ None \notin Rates
    /\ None \notin [id : Nat, adopted : BOOLEAN]

\* The reasons are those of RevokeReason; a broadcast channel of no capacity is refused.
ASSUME WatchAssumption ==
    /\ Reasons \subseteq {"admin", "quota", "mac_change", "idle_timeout"}
    /\ Ring \in Nat \ {0} /\ MaxSessions \in Nat /\ IsFiniteSet(Watched)

\* An ampersand is escaped; a store's name is a text.
ASSUME UrlAssumption ==
    /\ <<"char", "&">> \in Reserved
    /\ StoreId \in Seq({"char"} \X STRING)

VARIABLES
    part,  \* the part that runs
    file, config, state, saved, unseen, interval, gate, garden, tmp, conf, sets, lost,
    seed, wireless, record, inherited, scoped, pushes, faults,
    lines, buckets, now, pending, answer, admitted, requests, churn,
    neighbours, flow, dump, session, breached, began,
    reserved, chain, counters, known, poll, report, moved, changes, failures,
    plan, uci, committed, scope, rows,
    policies, sessions, desired, reply, told,
    shaping, minor, limit, class, steered, air, control, ending, spoilt, left, granted, moves, errors,
    text, current, running, meant,
    options, marker, tmpfs, kept, restored, earlier, agreed, attempts,
    live, unsaid, ring, emitted, tally, gauge, health, client, shown, apart, early, begun, looks,
    attached, settings, boots, wanted, info, at, verdict, turns
-----------------------------------------------------------------------------
(* The parts                                                               *)

Runtime == INSTANCE RuntimeConfig

Portal == INSTANCE Portal

Metering == INSTANCE Metering WITH lines <- neighbours

Devices == INSTANCE DeviceMeter WITH
    pushes <- changes, faults <- failures, MaxBytes <- MaxTransfers

Uci == INSTANCE UciPlan

Wire == INSTANCE Wire WITH Configs <- Messages

Effects == INSTANCE Effects WITH
    faults <- errors, MaxFaults <- MaxErrors, Ap <- AccessPoints

ConfigFile == INSTANCE ConfigFile WITH file <- text, Configs <- Meant

PushMarker == INSTANCE PushMarker WITH
    committed <- kept, scope <- restored, pushes <- attempts, Configs <- SavedSections

Observers == INSTANCE Observers WITH
    counters <- tally, reply <- shown, Mac <- Watched, MaxGrants <- MaxSessions

Drift == INSTANCE Drift WITH
    control <- attached, state <- settings, boot <- boots, answer <- verdict,
    Gardens <- PushedGardens, Files <- SettingsFiles
-----------------------------------------------------------------------------
(* The parts, side by side                                                 *)

runtimeVars  == <<file, config, state, saved, unseen, interval, gate, garden, tmp, conf, sets,
                  lost, seed, wireless, record, inherited, scoped, pushes, faults>>
portalVars   == <<lines, buckets, now, pending, answer, admitted, requests, churn>>
meteringVars == <<neighbours, flow, dump, session, breached, began>>
devicesVars  == <<reserved, chain, counters, known, poll, report, moved, changes, failures>>
uciVars      == <<plan, uci, committed, scope, rows>>
wireVars     == <<policies, sessions, desired, reply, told>>
effectsVars  == <<shaping, minor, limit, class, steered, air, control, ending, spoilt, left,
                  granted, moves, errors>>
textsVars    == <<text, current, running, meant>>
markersVars  == <<options, marker, tmpfs, kept, restored, earlier, agreed, attempts>>
observersVars == <<live, unsaid, ring, emitted, tally, gauge, health, client, shown, apart,
                   early, begun, looks>>
driftVars    == <<attached, settings, boots, wanted, info, at, verdict, turns>>

Init ==
    /\ part \in Parts
    /\ Runtime!Init /\ Portal!Init /\ Metering!Init /\ Devices!Init /\ Uci!Init /\ Wire!Init
    /\ Effects!Init /\ ConfigFile!Init /\ PushMarker!Init /\ Observers!Init /\ Drift!Init

Next ==
    \/ /\ part = "runtime" /\ Runtime!Next
       /\ UNCHANGED <<part, portalVars, meteringVars, devicesVars, uciVars, wireVars,
                      effectsVars, textsVars, markersVars, observersVars, driftVars>>
    \/ /\ part = "portal" /\ Portal!Next
       /\ UNCHANGED <<part, runtimeVars, meteringVars, devicesVars, uciVars, wireVars,
                      effectsVars, textsVars, markersVars, observersVars, driftVars>>
    \/ /\ part = "metering" /\ Metering!Next
       /\ UNCHANGED <<part, runtimeVars, portalVars, devicesVars, uciVars, wireVars,
                      effectsVars, textsVars, markersVars, observersVars, driftVars>>
    \/ /\ part = "devices" /\ Devices!Next
       /\ UNCHANGED <<part, runtimeVars, portalVars, meteringVars, uciVars, wireVars,
                      effectsVars, textsVars, markersVars, observersVars, driftVars>>
    \/ /\ part = "uci" /\ Uci!Next
       /\ UNCHANGED <<part, runtimeVars, portalVars, meteringVars, devicesVars, wireVars,
                      effectsVars, textsVars, markersVars, observersVars, driftVars>>
    \/ /\ part = "wire" /\ Wire!Next
       /\ UNCHANGED <<part, runtimeVars, portalVars, meteringVars, devicesVars, uciVars,
                      effectsVars, textsVars, markersVars, observersVars, driftVars>>
    \/ /\ part = "effects" /\ Effects!Next
       /\ UNCHANGED <<part, runtimeVars, portalVars, meteringVars, devicesVars, uciVars,
                      wireVars, textsVars, markersVars, observersVars, driftVars>>
    \/ /\ part = "texts" /\ ConfigFile!Next
       /\ UNCHANGED <<part, runtimeVars, portalVars, meteringVars, devicesVars, uciVars,
                      wireVars, effectsVars, markersVars, observersVars, driftVars>>
    \/ /\ part = "markers" /\ PushMarker!Next
       /\ UNCHANGED <<part, runtimeVars, portalVars, meteringVars, devicesVars, uciVars,
                      wireVars, effectsVars, textsVars, observersVars, driftVars>>
    \/ /\ part = "observers" /\ Observers!Next
       /\ UNCHANGED <<part, runtimeVars, portalVars, meteringVars, devicesVars, uciVars,
                      wireVars, effectsVars, textsVars, markersVars, driftVars>>
    \/ /\ part = "drift" /\ Drift!Next
       /\ UNCHANGED <<part, runtimeVars, portalVars, meteringVars, devicesVars, uciVars,
                      wireVars, effectsVars, textsVars, markersVars, observersVars>>

vars == <<part, runtimeVars, portalVars, meteringVars, devicesVars, uciVars, wireVars,
          effectsVars, textsVars, markersVars, observersVars, driftVars>>

Spec == Init /\ [][Next]_vars

Fairness == part = "runtime" => Runtime!Fairness
FairSpec == Spec /\ Fairness
-----------------------------------------------------------------------------
(* Properties, stated in the modules of the parts                          *)

SurvivesRestart  == part = "runtime" => Runtime!SurvivesRestart
DnsSafe          == part = "runtime" => Runtime!DnsSafe
WithinRate       == part = "portal" => Portal!WithinRate
PortalTrusts     == part = "portal" => Portal!PortalTrusts
NeverOvercharged == part = "metering" => Metering!NeverOvercharged
CountedOnce      == part = "devices" => Devices!CountedOnce
GatedRecovered   == part = "uci" => Uci!GatedRecovered
AsAsked          == part = "uci" => Uci!AsAsked
AirReported      == Uci!AirReported
AsTold           == (part = "wire" => Wire!AsTold) /\ (part = "drift" => Drift!DriftSeen)
CapKept          == part = "effects" => Effects!CapKept
OffAir           == part = "effects" => Effects!OffAir
ReadBack         == /\ part = "texts" => ConfigFile!ReadAsMeant
                    /\ part = "markers" => PushMarker!ReadBack
Informed         == part = "observers" => Observers!Informed /\ Observers!Tallied
=============================================================================
