-------------------------------- MODULE Drift --------------------------------
(***************************************************************************)
(* How the control plane finds out that the settings of an engine are not  *)
(* those it pushed: it compares hashes in the answer to GetEngineInfo with *)
(* the hashes of what it wants.  In between the configuration file may be  *)
(* read again, and the engine may start anew.  What a setting does, and    *)
(* how it is saved, is RuntimeConfig's.                                    *)
(***************************************************************************)
EXTENDS Naturals, Sequences, SequencesExt

CONSTANTS
    None,
    Gardens,  \* gardens that are pushed
    Requests, \* engine parameters that are pushed
    Files,    \* [garden, params] of the configuration files that are read
    MaxTurns  \* bound: pushes, readings and starts

VARIABLES
    control,  \* whether the service has an EngineControl
    state,    \* RuntimeConfig
    boot,     \* boot_id
    wanted,   \* history: what the control plane pushed and was told is in force
    info,     \* the last EngineInfo
    at,       \* history: the settings when it was taken
    answer,   \* what the last push was answered
    turns

vars == <<control, state, boot, wanted, info, at, answer, turns>>

Turn == turns < MaxTurns /\ turns' = turns + 1
-----------------------------------------------------------------------------
(* Messages                                                                *)

\* EngineParameters::default
Params == [interval |-> 15, garden |-> 30, expiry |-> 1, sessions |-> 4096, idle |-> 0]

\* engine_params_from_pb: 0 is the default, but for the idle timeout.
ParamsFromPb(req) ==
    [field \in DOMAIN Params |->
        IF req[field] = 0 /\ field # "idle" THEN Params[field] ELSE req[field]]

\* EngineParameters::validate
InBounds(params) ==
    /\ params.interval \in 1..3600 /\ params.garden \in 5..3600 /\ params.expiry \in 1..60
    /\ params.sessions \in 1..16384 /\ (params.idle = 0 \/ params.idle \in 30..86400)

\* A service without an EngineControl refuses; what is out of bounds is refused as well.
Set(field, value, allowed) ==
    /\ Turn
    /\ IF control /\ allowed
       THEN /\ state' = [state EXCEPT ![field] = value]
            /\ wanted' = [wanted EXCEPT ![field] = value] /\ answer' = "ok"
       ELSE /\ answer' = IF control THEN "invalid_argument" ELSE "unimplemented"
            /\ UNCHANGED <<state, wanted>>
    /\ UNCHANGED <<control, boot, info, at>>

SetEnforcement(on) == Set("enabled", on, TRUE)

SetGarden(garden) == Set("garden", garden, TRUE)

SetEngineParameters(req) == Set("params", ParamsFromPb(req), InBounds(ParamsFromPb(req)))
-----------------------------------------------------------------------------
(* What happens to the engine                                              *)

\* SIGHUP: parameters are those of the file, and the garden if it is another one there.
Hangup(file) ==
    /\ Turn
    /\ \E garden \in {state.garden, file.garden} :
          state' = [state EXCEPT !.garden = garden, !.params = file.params]
    /\ UNCHANGED <<control, boot, wanted, info, at, answer>>

\* A start, with what was saved or without.
Start(file) ==
    /\ Turn /\ boot' = boot + 1
    /\ state' \in {state, [enabled |-> TRUE, garden |-> file.garden, params |-> file.params]}
    /\ UNCHANGED <<control, wanted, info, at, answer>>
-----------------------------------------------------------------------------
(* EngineInfo                                                              *)

\* drift_hash, of texts: nothing but the same text has the same hash.
DriftHash(text) == <<"hash", text>>

\* Mutant: the names of the garden are joined as they were pushed.
JoinedAsPushed(garden) == garden

\* They are sorted first.  A name is a number here, and has no comma in it.
Joined(garden) == SortSeq(garden, LAMBDA a, b : a < b)

\* engine_info, engine_info_to_pb
EngineInfo(s) ==
    [boot |-> boot, enabled |-> s.enabled, params |-> DriftHash(s.params),
     garden |-> DriftHash(Joined(s.garden))]

GetEngineInfo ==
    /\ control /\ info' = EngineInfo(state) /\ at' = state
    /\ UNCHANGED <<control, state, boot, wanted, answer, turns>>

Init ==
    /\ control \in BOOLEAN /\ boot = 1 /\ info = None /\ at = None /\ answer = None /\ turns = 0
    /\ \E file \in Files :
          state = [enabled |-> TRUE, garden |-> file.garden, params |-> file.params]
    /\ wanted = state

Next ==
    \/ \E on \in BOOLEAN : SetEnforcement(on)
    \/ \E garden \in Gardens : SetGarden(garden)
    \/ \E req \in Requests : SetEngineParameters(req)
    \/ \E file \in Files : Hangup(file) \/ Start(file)
    \/ GetEngineInfo
-----------------------------------------------------------------------------
(* Properties                                                              *)

\* By the answer to GetEngineInfo the control plane sees exactly the settings that are not
\* those it wants, in whatever order the names of the garden are, of which none is there twice.
DriftSeen ==
    info # None =>
        LET hoped == EngineInfo(wanted)
        IN  /\ (info.enabled = hoped.enabled) <=> (at.enabled = wanted.enabled)
            /\ (info.params = hoped.params) <=> (at.params = wanted.params)
            /\ (info.garden = hoped.garden) <=> (ToSet(at.garden) = ToSet(wanted.garden))
=============================================================================
