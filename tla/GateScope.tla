------------------------------ MODULE GateScope ------------------------------
(***************************************************************************)
(* Which interfaces the captive portal gates.  The control channel turns   *)
(* the control plane's frames into requests of the provisioning actor, one *)
(* at a time, and after a final status enforces the SSIDs the actor says   *)
(* are committed; the operator's switch and the start of the daemon set    *)
(* the scope too.  WirelessConfirm is the actor; here are the channel, the *)
(* switch, the boot, and the iptables jumps that are the scope.             *)
(***************************************************************************)
EXTENDS WirelessConfirm

CONSTANTS
    Seed    \* the interfaces of the static configuration

ASSUME ScopeAssumption == Seed \subseteq Bridge

VARIABLES
    scope,     \* interfaces with a jump into the gating chains (kernel)
    record,    \* gated_ifaces of the backend: what it believes scope is
    chan,      \* the control channel: where its task stands
    req,       \* the request it waits for, or None
    enabled,   \* the enforcement switch
    \* History:
    source,    \* where scope was last set from, or "astray"
    lost       \* committed.gated is not of the last commit

gate      == <<scope, record>>
channel   == <<chan, req>>
origin    == <<source, lost>>
scopeVars == <<gate, channel, enabled, origin>>
allVars   == <<vars, scopeVars>>

ScopeInit ==
    /\ Init
    /\ scope = Seed /\ record = Seed
    /\ chan = "down" /\ req = None
    /\ enabled = TRUE
    /\ source = "fresh" /\ lost = FALSE
-----------------------------------------------------------------------------
\* set_gated_ifaces of the iptables backend: the jumps it recorded and no longer
\* wants go, those it wants come.
SetScope(ifaces) ==
    /\ scope' = (scope \ (record \ ifaces)) \cup (ifaces \ record)
    /\ record' = ifaces
-----------------------------------------------------------------------------
(* History: what the scope was set from                                    *)

\* The new scope may leave out what is on the air.
Moved == source' = IF source = "astray" THEN source ELSE "moved"

\* A trial ends with something on the air that no plan accounts for: its rollback failed,
\* or commands whose errors are ignored did.
Strays == pc = "clear" /\ (~job.ok \/ IF job.kind = "confirm" THEN stale # {} ELSE loose # {})

\* The same of a handler's step.
Followed ==
    /\ source' = IF Strays THEN "astray" ELSE source
    /\ lost' = IF pc = "record" THEN gatedFile' # job.push.gated ELSE lost

\* A scope set at boot is as good as committed.gated.
Booted == source' = IF source = "astray" THEN source ELSE IF lost THEN "moved" ELSE "boot"

\* A death without a marker leaves its trial on the air; one before committed.gated is
\* written leaves the older.
Abandoned ==
    /\ source' = IF Open /\ marker = None THEN "astray" ELSE source
    /\ lost' = (lost \/ pc = "record")
-----------------------------------------------------------------------------
(* The control channel                                                     *)

Connect ==
    /\ up /\ chan = "down" /\ chan' = "ready"
    /\ UNCHANGED <<vars, gate, req, enabled, origin>>

Disconnect ==
    /\ chan = "ready" /\ chan' = "down"
    /\ UNCHANGED <<vars, gate, req, enabled, origin>>

\* A frame arrives: the channel sends the command and waits for the answer, and
\* takes no status meanwhile.
Ask ==
    /\ up /\ chan = "ready" /\ chan' = "calling"
    /\ \/ /\ pushes < MaxPushes
          /\ \E p \in Plans : req' = [kind |-> "set", plan |-> p]
       \/ \E v \in 1..pushes : req' = [kind |-> "confirm", version |-> v]
    /\ UNCHANGED <<vars, gate, enabled, origin>>

\* The actor takes the command ...
Serve ==
    /\ chan = "calling"
    /\ \/ req.kind = "set" /\ SetBegin(req.plan)
       \/ req.kind = "confirm" /\ ConfirmBegin(req.version)
    /\ chan' = "waiting"
    /\ UNCHANGED <<gate, req, enabled, origin>>

\* ... or refuses it: another push is pending, or it is not that one.
Refuse ==
    /\ chan = "calling" /\ At("idle")
    /\ \/ req.kind = "set" /\ pending # None
       \/ req.kind = "confirm" /\ ~Awaits(req.version)
    /\ chan' = "ready" /\ req' = None
    /\ UNCHANGED <<vars, gate, enabled, origin>>

\* Mutant: the reply is sent only if the push was applied or confirmed.
WorkSilent ==
    /\ Handler
    /\ IF chan = "waiting" /\ pc' = "idle" /\ job.kind # "undo"
       THEN chan' = "ready" /\ req' = None
       ELSE UNCHANGED channel
    /\ Followed
    /\ UNCHANGED <<gate, enabled>>

\* A handler that ends answers the request it serves.
Work ==
    /\ Handler
    /\ IF chan = "waiting" /\ pc' = "idle" THEN chan' = "ready" /\ req' = None
                                           ELSE UNCHANGED channel
    /\ Followed
    /\ UNCHANGED <<gate, enabled>>

\* The channel takes a status; after a final outcome it rescopes.
TakeStatus ==
    /\ chan = "ready" /\ Drain
    /\ chan' = IF Head(status).state \in {"committed", "rolledback"} THEN "rescoping"
                                                                     ELSE chan
    /\ UNCHANGED <<gate, req, enabled, origin>>

\* rescope_enforcement: the actor answers get_wireless when it is idle, and the
\* gated SSIDs of the last committed plan become the scope.
Rescope ==
    /\ chan = "rescoping" /\ At("idle")
    /\ SetScope(GatedIfaces(last))
    /\ chan' = "ready"
    /\ IF last # NoPlan /\ (source = "astray" => said = "committed" /\ stale = {})
       THEN source' = "fresh"
       ELSE IF source = "fresh" THEN UNCHANGED source ELSE Moved
    /\ UNCHANGED <<vars, req, enabled, lost>>
-----------------------------------------------------------------------------
(* The switch and the boot                                                 *)

CommittedOr(default) == IF gatedFile = None THEN default ELSE gatedFile

\* SetEnforcement: off removes the jumps, on restores committed.gated or the seed.
Toggle ==
    /\ up /\ enabled' = ~enabled
    /\ SetScope(IF enabled' THEN CommittedOr(Seed) ELSE {})
    /\ IF lost \/ (source = "boot" /\ gatedFile = None) THEN Moved ELSE UNCHANGED source
    /\ UNCHANGED <<vars, channel, lost>>

\* parse_gated_bridges_from_uci: the bridges of the SSIDs with a portal rule.
GatedIn(config) ==
    {config[<<"network", s, "name">>] :
        s \in {t \in Slug : /\ config[<<"firewall", t, "section">>] # None
                            /\ config[<<"network", t, "name">>] # None}}

\* Mutant: the boot before the self-heal, without the scope derived from UCI.
BootSeeded ==
    /\ Restart
    /\ LET target == CommittedOr(Seed) IN
       IF target = {} THEN scope' = scope \cup Seed /\ record' = Seed
       ELSE /\ scope' = ((scope \cup Seed) \ (Seed \ target)) \cup target
            /\ record' = target
    /\ Booted
    /\ UNCHANGED <<channel, enabled, lost>>

\* The start: ensure_base keeps the jumps it finds and adds those of the seed;
\* then the scope is taken from committed.gated, else from UCI, else from the seed,
\* and left as it is if that is empty.  The provisioning actor starts after it.
Boot ==
    /\ Restart
    /\ LET derived == GatedIn(staged)
           target  == CommittedOr(IF derived = {} THEN Seed ELSE derived)
       IN  IF target = {} THEN scope' = scope \cup Seed /\ record' = Seed
           ELSE /\ scope' = ((scope \cup Seed) \ (Seed \ target)) \cup target
                /\ record' = target
    /\ Booted
    /\ UNCHANGED <<channel, enabled, lost>>

\* The channel and the backend's record die with the process, the jumps stay.
ScopeCrash ==
    /\ Crash
    /\ record' = {} /\ chan' = "down" /\ req' = None
    /\ Abandoned
    /\ UNCHANGED <<scope, enabled>>

\* The switch is in the runtime state, on tmpfs: the daemon starts with it on.
ScopeReboot ==
    /\ Reboot
    /\ scope' = {} /\ record' = {} /\ chan' = "down" /\ req' = None
    /\ enabled' = TRUE /\ source' = "boot" /\ lost' = FALSE

\* The rest of the router does not know of the scope.
Aside == (Watchdog \/ AdminCommit \/ Tick) /\ UNCHANGED scopeVars
-----------------------------------------------------------------------------
Channel == Connect \/ Refuse \/ TakeStatus \/ Rescope

ScopeNext ==
    \/ Channel \/ Ask \/ Disconnect \/ Serve \/ Work
    \/ Toggle \/ Boot \/ ScopeCrash \/ ScopeReboot \/ Aside

ScopeSpec == ScopeInit /\ [][ScopeNext]_allVars

\* The runtime polls every task, and a channel that is down is dialled again.
ScopeFairSpec == ScopeSpec /\ WF_allVars(Channel \/ Serve \/ Work) /\ WF_allVars(Boot)
-----------------------------------------------------------------------------
(* Properties                                                              *)

\* Every variable has its type, and the channel waits for an answer exactly while a
\* handler runs that will give it.
ScopeTypeOK ==
    /\ {scope, record} \subseteq SUBSET Bridge
    /\ chan \in {"down", "ready", "calling", "waiting", "rescoping"}
    /\ req # None <=> chan \in {"calling", "waiting"}
    /\ chan = "waiting" => pc # "idle" /\ job.kind \in {"apply", "undo", "confirm"}
    /\ enabled \in BOOLEAN
    /\ source \in {"fresh", "boot", "moved", "astray"} /\ lost \in BOOLEAN

\* Nothing is under way: no trial, no status on its way, no frame in hand.
Settled == up /\ pc = "idle" /\ pending = None /\ chan = "ready" /\ status = <<>>

Covered == GatedIn(air) \subseteq scope

\* With the switch on, every gated SSID on the air is enforced once things have
\* settled (rescope_enforcement, the boot self-heal), unless the scope was set from what is
\* known to be older, and no plan was committed since ("moved": after a restart, by a
\* rescope to a plan the daemon forgot or a toggle to the seed; at any time, by a boot or
\* toggle to a committed.gated that a commit failed to write), or a trial ended with
\* something on the air that no plan accounts for ("astray": its rollback failed and
\* is not followed by a rescope, or a command whose errors are ignored failed).
GateCoversAir == Settled /\ enabled /\ source \notin {"moved", "astray"} => Covered

\* The same in every life of the daemon.
GateAlwaysCoversAir == Settled /\ enabled => Covered

\* The actor waits for a place in the status channel, and the task that would make one waits
\* for the actor's answer.
Jammed == chan \in {"calling", "waiting"} /\ pc \in {"announce", "tell"}
          /\ Len(status) = StatusBuffer

\* Every frame is answered, unless the actor and the channel wait for each other: nothing
\* else, whatever fails or dies, leaves the channel waiting (handle.rs, channel.rs).
FramesAnswered == req # None ~> req = None \/ Jammed
=============================================================================
