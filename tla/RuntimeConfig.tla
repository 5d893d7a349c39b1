--------------------------- MODULE RuntimeConfig ---------------------------
(***************************************************************************)
(* The settings of a running engine: the control plane pushes them, SIGHUP *)
(* takes them from the configuration file, RuntimeController keeps and     *)
(* saves them, and tasks of their own make them true: the metering loop,   *)
(* the enforcement switch, and the walled garden, by way of dnsmasq or of  *)
(* the engine's own resolver.                                              *)
(***************************************************************************)
EXTENDS Naturals, Sequences, FiniteSets

CONSTANTS
    None,
    Names,        \* names a garden may list
    BadNames,     \* those that are no hostnames
    Idles,        \* idle timeouts in seconds
    Ifaces,       \* interfaces the portal may gate
    MaxPushes,    \* bound: settings pushed, edits of the file, ends of wireless pushes
    MaxFaults     \* bound: failed saves, writes and commands, deaths and reboots

VARIABLES
    file,     \* the configuration file
    config,   \* the configuration the SIGHUP task compares with
    state,    \* RuntimeConfig, or None while there is no daemon
    saved,    \* runtime.json on tmpfs
    unseen,   \* watch channels whose loop has not seen the last value
    interval, \* what the metering loop runs with
    seed,     \* the interfaces gated by the static configuration (hotspot_iface)
    wireless, \* what is known of the gated SSIDs: on flash, in committed.gated (tmpfs), by
              \* the actor, and whether a final status of it is on its way
    gate,     \* the interfaces with a jump into the gating chains (kernel)
    record,   \* those the backend put there, as it believes
    inherited,\* history: the jumps the daemon found when it started
    garden,   \* how the garden is made true: dnsmasq, the engine, or not at all
    tmp,      \* the text in garden.conf.tmp, or None
    conf,     \* the text in garden.conf, or None
    sets,     \* the names whose addresses the engine put into the garden sets
    lost,     \* history: the last save failed
    scoped,   \* history: what set gate last, or "kept": what should have did not
    pushes, faults

disk == <<file, saved, conf, tmp>>
known == <<seed, wireless, record, inherited, scoped>>
vars == <<disk, config, state, unseen, interval, gate, garden, sets, lost, known,
          pushes, faults>>
-----------------------------------------------------------------------------
(* Values                                                                  *)

Gardens == SUBSET Names
Params  == [interval : 1..2, idle : Idles]
Tiers   == {<<>>, <<"vip">>, <<"vip", "vip">>, <<"V.I.P">>}

\* Fields that take a restart (here one stands for them), and those that do not; the
\* files that are not taken are bounded to one parameter set.
Files == {f \in [fixed : {"old", "new"}, valid : BOOLEAN, garden : Gardens, params : Params] :
            f.fixed = "new" \/ ~f.valid => f.params = [interval |-> 2, idle |-> 0]}

\* Config::validate: names in the garden are hostnames, an interval is positive.
Valid(f) == f.valid /\ f.garden \cap BadNames = {}

\* EngineParameters::validate.
InBounds(p) == p.interval \in 1..3600 /\ (p.idle = 0 \/ p.idle \in 30..86400)

\* A set of tier policies has valid names, each once.
TiersOk(t) == (\A n \in DOMAIN t : t[n] # "V.I.P") /\ (\A m, n \in DOMAIN t : t[m] = t[n] => m = n)

\* What RuntimeController is seeded with.
Seed(f) == [enabled |-> TRUE, garden |-> f.garden, tiers |-> <<>>, params |-> f.params]

\* render_dnsmasq: one directive for the hostnames of the list, the others are left out.
Render(g) == [names |-> g \ BadNames, whole |-> TRUE]

Fault == faults < MaxFaults /\ faults' = faults + 1
Push  == pushes < MaxPushes /\ pushes' = pushes + 1
-----------------------------------------------------------------------------
(* The controller                                                          *)

\* Mutant: only what the control plane pushed by itself is saved.
PersistSome(new) ==
    \/ saved' = [new EXCEPT !.tiers = state.tiers] /\ lost' = FALSE /\ UNCHANGED faults
    \/ saved' = saved /\ lost' = TRUE /\ Fault

\* persist: best effort, into the file itself, which may be left torn and is then not
\* taken for a state.
Persist(new) ==
    \/ saved' = new /\ lost' = FALSE /\ UNCHANGED faults
    \/ saved' \in {saved, None} /\ lost' = TRUE /\ Fault

\* A setting is stored, saved and published.
Store(new, channels) ==
    /\ state' = new /\ Persist(new) /\ unseen' = unseen \cup channels
    /\ UNCHANGED <<config, interval, gate, garden, sets, known, file, conf, tmp>>

SetEnforcement ==
    /\ state # None /\ Push
    /\ \E on \in BOOLEAN : Store([state EXCEPT !.enabled = on], {"enforcement"})

\* Any names are taken.
SetGarden ==
    /\ state # None /\ Push
    /\ \E g \in Gardens : Store([state EXCEPT !.garden = g], {"garden"})

SetTierPolicies ==
    /\ state # None /\ Push
    /\ \E t \in Tiers : TiersOk(t) /\ Store([state EXCEPT !.tiers = t], {})

SetEngineParameters ==
    /\ state # None /\ Push
    /\ \E p \in Params : InBounds(p) /\ Store([state EXCEPT !.params = p], {"params"})
-----------------------------------------------------------------------------
(* The provisioning actor                                                  *)

\* A wireless push ends: its gated SSIDs are committed, or it was rolled back.
Wireless ==
    /\ state # None /\ ~wireless.final /\ Push
    /\ \/ \E g \in SUBSET Ifaces :
             wireless' = [flash |-> g, file |-> g, last |-> g, final |-> TRUE]
       \/ wireless' = [wireless EXCEPT !.final = TRUE]
    /\ scoped' = "kept"
    /\ UNCHANGED <<disk, config, state, unseen, interval, gate, garden, sets, lost, seed,
                   record, inherited, faults>>
-----------------------------------------------------------------------------
(* SIGHUP                                                                  *)

\* Somebody edits the file.
Edit ==
    /\ Push /\ \E f \in Files : f # file /\ file' = f
    /\ UNCHANGED <<saved, conf, tmp, config, state, unseen, interval, gate, garden, sets,
                   lost, known, faults>>

\* A file that is valid and changes no restart-only field is taken: its garden if it is
\* another one, its parameters in any case, unless they are out of bounds.
Hangup ==
    /\ state # None /\ Valid(file) /\ file.fixed = config.fixed
    /\ LET regarded == IF file.garden # config.garden
                       THEN [state EXCEPT !.garden = file.garden] ELSE state
           new == IF InBounds(file.params)
                  THEN [regarded EXCEPT !.params = file.params] ELSE regarded
           told == (IF file.garden # config.garden THEN {"garden"} ELSE {})
                     \cup (IF InBounds(file.params) THEN {"params"} ELSE {})
       IN  /\ state' = new /\ unseen' = unseen \cup told
           /\ IF told = {} THEN UNCHANGED <<saved, lost, faults>> ELSE Persist(new)
    /\ config' = file
    /\ UNCHANGED <<file, conf, tmp, interval, gate, garden, sets, known, pushes>>
-----------------------------------------------------------------------------
(* The loops                                                               *)

\* The metering loop is cancelled and starts again.
Rearm ==
    /\ state # None /\ "params" \in unseen
    /\ interval' = state.params.interval /\ unseen' = unseen \ {"params"}
    /\ UNCHANGED <<disk, config, state, gate, garden, sets, lost, known, pushes, faults>>

\* read_committed_gated, and the static interfaces if there is no file.
CommittedOr(default) == IF wireless.file = None THEN default ELSE wireless.file

\* set_gated_ifaces: the jumps it recorded and no longer wants go, those it wants come.
SetScope(ifaces, by) ==
    /\ gate' = (gate \ (record \ ifaces)) \cup (ifaces \ record)
    /\ record' = ifaces /\ scoped' = by /\ UNCHANGED faults

\* It fails, and the prior scope is kept.
KeepScope == UNCHANGED <<gate, record>> /\ scoped' = "kept" /\ Fault

\* Mutant: with the switch off the static interfaces stay.
ToggleSeed ==
    /\ state # None /\ "enforcement" \in unseen
    /\ unseen' = unseen \ {"enforcement"}
    /\ SetScope(IF state.enabled THEN CommittedOr(seed) ELSE seed, "switch") \/ KeepScope
    /\ UNCHANGED <<disk, config, state, interval, garden, sets, lost, seed, wireless, inherited,
                   pushes>>

\* The switch task sets the scope, or fails to and keeps the prior one: none if off, and
\* if on what was committed last, or else the static interfaces, which need not be what
\* the daemon found in UCI when it started.
Toggle ==
    /\ state # None /\ "enforcement" \in unseen
    /\ unseen' = unseen \ {"enforcement"}
    /\ SetScope(IF state.enabled THEN CommittedOr(seed) ELSE {}, "switch") \/ KeepScope
    /\ UNCHANGED <<disk, config, state, interval, garden, sets, lost, seed, wireless, inherited,
                   pushes>>

\* The control channel takes a final wireless status and, whatever the switch says, gates
\* the interfaces of the plan the actor knows, or fails to.
Rescope ==
    /\ state # None /\ wireless.final
    /\ wireless' = [wireless EXCEPT !.final = FALSE]
    /\ SetScope(wireless.last, "plan") \/ KeepScope
    /\ UNCHANGED <<disk, config, state, unseen, interval, garden, sets, lost, seed, inherited,
                   pushes>>


\* A pass of the garden loop, for a change or on its tick, finds another text than the
\* one it wants and writes it to a file next to it ...
GardenPass ==
    /\ state # None /\ garden = "dnsmasq" /\ tmp = None
    /\ conf # Render(state.garden)
    /\ unseen' = unseen \ {"garden"}
    /\ \/ tmp' = Render(state.garden) /\ UNCHANGED faults
       \/ tmp' = None /\ Fault
    /\ UNCHANGED <<file, saved, conf, config, state, interval, gate, garden, sets, lost,
                   known, pushes>>

\* Mutant: the text is written in place.
GardenRenameInPlace ==
    /\ state # None /\ tmp # None
    /\ \/ conf' = tmp /\ tmp' = None
       \/ conf' = [tmp EXCEPT !.whole = FALSE] /\ conf # conf' /\ tmp' = tmp
    /\ UNCHANGED <<file, saved, config, state, unseen, interval, gate, garden, sets, lost,
                   known, pushes, faults>>

\* ... and renames it, or fails to.
GardenRename ==
    /\ state # None /\ tmp # None
    /\ \/ conf' = tmp /\ UNCHANGED faults
       \/ conf' = conf /\ Fault
    /\ tmp' = None
    /\ UNCHANGED <<file, saved, config, state, unseen, interval, gate, garden, sets, lost,
                   known, pushes>>

\* A pass that finds what it wants.
GardenIdle ==
    /\ state # None /\ garden = "dnsmasq" /\ tmp = None
    /\ "garden" \in unseen /\ conf = Render(state.garden)
    /\ unseen' = unseen \ {"garden"}
    /\ UNCHANGED <<disk, config, state, interval, gate, garden, sets, lost, known,
                   pushes, faults>>

\* A pass of the engine's own resolver: the names it can resolve are added to the sets,
\* and none is taken out.
GardenResolve ==
    /\ state # None /\ garden = "engine"
    /\ "garden" \in unseen \/ ~((state.garden \ BadNames) \subseteq sets)
    /\ unseen' = unseen \ {"garden"}
    /\ \/ sets' = sets \cup (state.garden \ BadNames) /\ UNCHANGED faults
       \/ Fault /\ \E some \in SUBSET (state.garden \ BadNames) : sets' = sets \cup some
    /\ UNCHANGED <<disk, config, state, interval, gate, garden, lost, known, pushes>>
-----------------------------------------------------------------------------
(* The daemon                                                              *)

\* The daemon starts: with a valid file, and the settings saved before, if any.  Whatever
\* the switch says it gates what was committed, else what UCI names, else the static
\* interfaces, and keeps the jumps it finds; the switch is looked at when it is set again.  A dnsmasq that cannot fill
\* sets gets no garden.conf.
Start ==
    /\ state = None /\ Valid(file)
    /\ config' = file
    /\ state' = IF saved = None THEN Seed(file) ELSE saved
    /\ interval' = state'.params.interval /\ unseen' = {} /\ lost' = FALSE
    /\ LET target == CommittedOr(IF wireless.flash = {} THEN seed ELSE wireless.flash)
       IN  IF target = {} THEN gate' = gate \cup seed /\ record' = seed
           ELSE /\ gate' = ((gate \cup seed) \ (seed \ target)) \cup target
                /\ record' = target
    /\ inherited' = gate /\ scoped' = "start"
    /\ conf' = IF garden = "dnsmasq" THEN conf ELSE None
    /\ UNCHANGED <<file, saved, tmp, garden, sets, seed, wireless, pushes, faults>>

\* What a process that ends forgets, with the status that was on its way.
Forget(committed) ==
    /\ state' = None /\ unseen' = {}
    /\ wireless' = [wireless EXCEPT !.file = committed, !.last = {}, !.final = FALSE]
    /\ record' = {} /\ inherited' = {} /\ scoped' = "kept"

\* It dies, or is restarted; garden.conf.tmp is overwritten by the next pass.
Die ==
    /\ state # None /\ Fault
    /\ Forget(wireless.file) /\ tmp' = None
    /\ UNCHANGED <<file, saved, conf, config, interval, gate, garden, sets, lost, seed, pushes>>

\* The router restarts: tmpfs and the kernel's sets are gone, and dnsmasq may be another.
Reboot ==
    /\ Fault /\ Forget(None) /\ saved' = None /\ conf' = None /\ tmp' = None
    /\ sets' = {} /\ gate' = {}
    /\ garden' \in {"dnsmasq", "engine", "none"}
    /\ UNCHANGED <<file, config, interval, lost, seed, pushes>>

Init ==
    /\ file = [fixed |-> "old", valid |-> TRUE, garden |-> {}, params |-> [interval |-> 1, idle |-> 0]]
    /\ config = file /\ state = None /\ saved = None /\ unseen = {} /\ interval = 1
    /\ garden = "dnsmasq" /\ tmp = None /\ conf = None /\ sets = {}
    /\ seed \in SUBSET Ifaces /\ gate = {} /\ record = {} /\ inherited = {} /\ scoped = "kept"
    /\ wireless = [flash |-> {}, file |-> None, last |-> {}, final |-> FALSE]
    /\ lost = FALSE /\ pushes = 0 /\ faults = 0

Loops == Rearm \/ Toggle \/ Rescope \/ GardenPass \/ GardenRename \/ GardenIdle \/ GardenResolve
Pushed == SetEnforcement \/ SetGarden \/ SetTierPolicies \/ SetEngineParameters

Next == Loops \/ Pushed \/ Wireless \/ Edit \/ Hangup \/ Start \/ Die \/ Reboot

Spec == Init /\ [][Next]_vars

\* The daemon is restarted when it is down, and its tasks are polled and tick.
Fairness ==
    /\ WF_vars(Start) /\ WF_vars(Rearm) /\ WF_vars(Toggle) /\ WF_vars(Rescope)
    /\ WF_vars(GardenPass \/ GardenRename \/ GardenIdle \/ GardenResolve)
-----------------------------------------------------------------------------
(* Properties                                                              *)

\* What is saved is what is in force, so that a daemon that dies starts again with it,
\* unless the save failed or nothing was set since the router started.
SurvivesRestart == state # None /\ saved # None /\ ~lost => saved = state

\* dnsmasq may read its configuration at any moment: what it finds is complete, names
\* hostnames only, and is not there at all if it would not understand it.
DnsSafe ==
    /\ conf # None => conf.whole /\ conf.names \cap BadNames = {}
    /\ state # None /\ garden # "dnsmasq" => conf = None

=============================================================================
