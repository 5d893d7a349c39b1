------------------------------ MODULE Firewall ------------------------------
(***************************************************************************)
(* What the firewall of the router does with a packet, and how the two     *)
(* backends bring it there: iptables and ipset one command at a time, nft  *)
(* one transaction at a time, behind the writer actor that retries once.   *)
(* The rules themselves are modelled, as lists evaluated first match first;*)
(* that the set of authorized clients is right is SessionGate's subject.   *)
(***************************************************************************)
EXTENDS Naturals, Sequences, FiniteSets, SequencesExt, FiniteSetsExt

CONSTANTS
    Iface,      \* bridges an SSID may be on
    Lan,        \* the bridge of the owner's network
    Hotspots,   \* what hotspot_iface may be: one of them, or None
    None,
    MaxFaults,  \* bound: commands that fail although nothing is wrong with them
    MaxDeaths   \* bound: deaths of the daemon and reboots

ASSUME FirewallAssumption ==
    /\ Hotspots \subseteq Iface \cup {None} /\ Lan \notin Iface /\ None \notin Iface \cup {Lan}
    /\ IsFiniteSet(Iface) /\ {MaxFaults, MaxDeaths} \subseteq Nat

VARIABLES
    cfg,      \* the backend, whether the kernel can do what it asks, hotspot_iface
    sets,     \* ipsets that exist
    chains,   \* our iptables chains: the rules, or None if there is no chain
    jumps,    \* jumps into them, each for one interface
    nft,      \* the two nft chains, or None if there is no table
    up,       \* the daemon runs
    record,   \* gated_ifaces of the backend
    op,       \* the operation the writer is at, or None
    deaths, faults,
    first,    \* history: no daemon ran before this one since the router started
    stale,    \* history: a best-effort removal failed since then
    dirty     \* history: a change of the scope failed in this daemon's life

kernel  == <<sets, chains, jumps, nft>>
daemon  == <<up, record, op>>
bounds  == <<deaths, faults>>
history == <<first, stale, dirty>>
vars    == <<cfg, kernel, daemon, bounds, history>>
-----------------------------------------------------------------------------
(* Packets and rules                                                       *)

Family == {"v4", "v6"}
Table  == {"nat", "filter"}
Place  == Family \X Table

\* The packets that come in at an interface.
PacketsOf(i) == [iface : {i}, family : Family, from : {"authed", "guest"},
                 to : {"garden", "world"}, kind : {"web", "other"}, flow : {"new", "known"}]

\* A rule applies to a packet with all the listed values in the listed fields.
Rule(when, do) == [when |-> when, do |-> do]
Applies(rule, p) == \A test \in rule.when : p[test[1]] = test[2]

\* The first rule that applies decides; after the last one the packet goes on to fw3.
Decision(rules, p) ==
    LET hits == {n \in DOMAIN rules : Applies(rules[n], p)}
    IN  IF hits = {} THEN "pass" ELSE rules[Min(hits)].do

Authed      == Rule({<<"from", "authed">>}, "pass")
ToGarden    == Rule({<<"to", "garden">>}, "pass")
Established == Rule({<<"flow", "known">>}, "pass")

\* The rules of the wifihub_pre and wifihub_fwd chains, the same for each family.
ChainRules == [nat    |-> <<Authed, ToGarden, Rule({<<"kind", "web">>}, "redirect")>>,
               filter |-> <<Established, Authed, ToGarden, Rule({}, "drop")>>]

ToGardenOf(family) == Rule({<<"family", family>>, <<"to", "garden">>}, "pass")

\* For each interface a rule with this test and this verdict.
RuleFor(ifaces, test, do) ==
    [n \in 1..Cardinality(ifaces) |-> Rule(test \cup {<<"iface", SetToSeq(ifaces)[n]>>}, do)]

\* Mutant: the accepts after the redirects and drops.
NftRulesLate == [ifaces \in SUBSET Iface |->
    LET passes == <<Authed, ToGardenOf("v4"), ToGardenOf("v6")>>
    IN  [nat    |-> RuleFor(ifaces, {<<"kind", "web">>}, "redirect") \o passes,
         filter |-> RuleFor(ifaces, {}, "drop") \o <<Established>> \o passes]]

\* prerouting_rules and forward_rules: one redirect and one drop for each interface.
NftRules == [ifaces \in SUBSET Iface |->
    LET passes == <<Authed, ToGardenOf("v4"), ToGardenOf("v6")>>
    IN  [nat    |-> passes \o RuleFor(ifaces, {<<"kind", "web">>}, "redirect"),
         filter |-> <<Established>> \o passes \o RuleFor(ifaces, {}, "drop")]]

\* A packet passes our rules of a table if those of both mechanisms let it: a hook
\* jumps to our chain for the packet's interface, nft's chain sees all of them.
Verdict(table, p) ==
    LET at == <<p.family, table>>
        byChain == IF <<at, p.iface>> \in jumps /\ chains[at] # None
                   THEN Decision(chains[at], p) ELSE "pass"
        byNft == IF nft # None THEN Decision(nft[table], p) ELSE "pass"
    IN  IF byChain # "pass" THEN byChain ELSE byNft

\* What becomes of a packet.  Only the first one of a flow is seen by the nat table.
Fate(p) ==
    IF p.flow = "new" /\ Verdict("nat", p) = "redirect" THEN "portal"
    ELSE IF Verdict("filter", p) = "drop" THEN "blocked" ELSE "passed"
-----------------------------------------------------------------------------
(* Choice of the backend                                                   *)

\* detect_backend: what firewall_backend says; "auto" asks the kernel for nft NAT
\* chains (probe_nft_nat).
Detect(choice, nat) ==
    IF choice = "nft" \/ (choice = "auto" /\ nat) THEN "nft" ELSE "ipset"

\* gated_ifaces of compose.rs: the hotspot interface, if there is one.
Seed == IF cfg.hotspot = None THEN {} ELSE {cfg.hotspot}
-----------------------------------------------------------------------------
(* The commands of an operation                                            *)

Create(set)       == [do |-> "create", set |-> set]
NewChain(at)      == [do |-> "chain", at |-> at]
Flush(at)         == [do |-> "flush", at |-> at]
AddRule(at, rule) == [do |-> "append", at |-> at, rule |-> rule]
Jump(at, i)       == [do |-> "jump", at |-> at, iface |-> i]
Apply(flush, s)   == [do |-> "nft", flush |-> flush, ifaces |-> s]

Appends(at) == [n \in DOMAIN ChainRules[at[2]] |-> AddRule(at, ChainRules[at[2]][n])]
Jumps(at, ifaces) == [n \in 1..Cardinality(ifaces) |-> Jump(at, SetToSeq(ifaces)[n])]

\* Mutant: the jumps first, then the rules.
EnsureChainEager(at, ifaces) ==
    <<NewChain(at)>> \o Jumps(at, ifaces) \o <<Flush(at)>> \o Appends(at)

EnsureChain(at, ifaces) == <<NewChain(at), Flush(at)>> \o Appends(at) \o Jumps(at, ifaces)

Tables == << <<"v4", "nat">>, <<"v4", "filter">>, <<"v6", "nat">>, <<"v6", "filter">> >>

\* ensure_base of the ipset backend: the sets, then the chains.
EnsureBase == [ifaces \in SUBSET Iface |->
    <<Create("auth"), Create("g4"), Create("g6")>>
        \o EnsureChain(Tables[1], ifaces) \o EnsureChain(Tables[2], ifaces)
        \o EnsureChain(Tables[3], ifaces) \o EnsureChain(Tables[4], ifaces)]

\* For each interface, its jump at each place: there to be made, or removed.
AtEach(verb, ifaces) ==
    [n \in 1..(4 * Cardinality(ifaces)) |->
        [do |-> verb, at |-> Tables[((n - 1) % 4) + 1],
         iface |-> SetToSeq(ifaces)[((n - 1) \div 4) + 1]]]

\* Mutant: every jump is removed first, also those that stay.
SetGatedIfacesAfresh == [change \in (SUBSET Iface) \X (SUBSET Iface) |->
    AtEach("unjump", change[1]) \o AtEach("jump", change[2])]

\* Mutant: what is no longer wanted stays.
SetGatedIfacesGrow == [change \in (SUBSET Iface) \X (SUBSET Iface) |->
    AtEach("jump", change[2] \ change[1])]

\* set_gated_ifaces of the ipset backend, from the record to what is wanted: what is
\* no longer wanted goes, then what is new comes.
SetGatedIfaces == [change \in (SUBSET Iface) \X (SUBSET Iface) |->
    AtEach("unjump", change[1] \ change[2]) \o AtEach("jump", change[2] \ change[1])]

\* With nft either operation is one document.
Commands ==
    IF cfg.backend = "nft" THEN
        IF op.kind = "base" THEN <<Apply(FALSE, record)>> ELSE <<Apply(TRUE, op.want)>>
    ELSE IF op.kind = "base" THEN EnsureBase[record] ELSE SetGatedIfaces[<<record, op.want>>]
-----------------------------------------------------------------------------
(* What a command does                                                     *)

\* What the kernel refuses: a command on a chain or with a set that does not exist,
\* and an nft document with a NAT chain where there is no support for them.
Refused(c) ==
    \/ c.do \in {"flush", "append", "jump"} /\ chains[c.at] = None
    \/ /\ c.do = "append"
       /\ \/ c.rule = Authed /\ "auth" \notin sets
          \/ c.rule = ToGarden /\ (IF c.at[1] = "v4" THEN "g4" ELSE "g6") \notin sets
    \/ c.do = "nft" /\ ~cfg.works

\* Commands whose failure is not looked at.
BestEffort(c) == c.do \in {"chain", "unjump"}

NftAdd(rules) ==
    IF nft = None THEN rules
    ELSE [table \in Table |-> nft[table] \o rules[table]]

\* create -exist, -N, -F, -A, -C and else -I, -D; an nft document adds its rules to
\* what the chains have, after a flush if it begins with one.
Effect(c) ==
    /\ sets' = IF c.do = "create" THEN sets \cup {c.set} ELSE sets
    /\ chains' =
        CASE c.do = "chain" /\ chains[c.at] = None -> [chains EXCEPT ![c.at] = <<>>]
          [] c.do = "flush"  -> [chains EXCEPT ![c.at] = <<>>]
          [] c.do = "append" -> [chains EXCEPT ![c.at] = Append(@, c.rule)]
          [] OTHER           -> chains
    /\ jumps' =
        CASE c.do = "jump"   -> jumps \cup {<<c.at, c.iface>>}
          [] c.do = "unjump" -> jumps \ {<<c.at, c.iface>>}
          [] OTHER           -> jumps
    /\ nft' = CASE c.do = "nft" /\ c.flush  -> NftRules[c.ifaces]
                [] c.do = "nft" /\ ~c.flush -> NftAdd(NftRules[c.ifaces])
                [] OTHER                    -> nft
-----------------------------------------------------------------------------
(* The daemon                                                              *)

Operation(kind, want) == [kind |-> kind, want |-> want, at |-> 1, attempt |-> 1]

\* The rules the two backends make, and the operations of the writer.
AnyRule ==
    {Authed, ToGarden, ToGardenOf("v4"), ToGardenOf("v6"), Established,
     Rule({<<"kind", "web">>}, "redirect"), Rule({}, "drop")}
      \cup {Rule({<<"kind", "web">>, <<"iface", i>>}, "redirect") : i \in Iface}
      \cup {Rule({<<"iface", i>>}, "drop") : i \in Iface}
AnyOp == [kind : {"base", "scope"}, want : SUBSET Iface, at : Nat \ {0}, attempt : {1, 2}]

\* "No chain", "no table" and "no operation" are none of them.
ASSUME NoneAssumption == None \notin Seq(AnyRule) \cup [Table -> Seq(AnyRule)] \cup AnyOp

\* The daemon starts: the backend is made with the seed, ensure_base comes first.
Start ==
    /\ ~up /\ up' = TRUE
    /\ record' = Seed /\ op' = Operation("base", {})
    /\ dirty' = FALSE
    /\ UNCHANGED <<cfg, kernel, bounds, first, stale>>

\* The toggle, the control channel: anybody may ask for another scope.
Request ==
    /\ up /\ op = None
    /\ \E want \in SUBSET Iface : op' = Operation("scope", want)
    /\ UNCHANGED <<cfg, kernel, up, record, bounds, history>>

Current == Commands[op.at]

\* The next command works.
Command ==
    /\ op # None /\ op.at <= Len(Commands) /\ ~Refused(Current)
    /\ Effect(Current)
    /\ op' = [op EXCEPT !.at = @ + 1]
    /\ UNCHANGED <<cfg, up, record, bounds, history>>

Breaks(c) == Refused(c) \/ faults < MaxFaults
Charge(c) == faults' = IF Refused(c) THEN faults ELSE faults + 1

\* It fails, and nobody minds.
Shrug ==
    /\ op # None /\ op.at <= Len(Commands) /\ BestEffort(Current)
    /\ Breaks(Current) /\ Charge(Current)
    /\ op' = [op EXCEPT !.at = @ + 1]
    /\ stale' = (stale \/ Current.do = "unjump")
    /\ UNCHANGED <<cfg, kernel, up, record, deaths, first, dirty>>

\* It fails for the first time: the writer does the whole operation once more.
Retry ==
    /\ op # None /\ op.at <= Len(Commands) /\ ~BestEffort(Current) /\ op.attempt = 1
    /\ Breaks(Current) /\ Charge(Current)
    /\ op' = [op EXCEPT !.at = 1, !.attempt = 2]
    /\ UNCHANGED <<cfg, kernel, up, record, deaths, history>>

\* Mutant: a daemon without its base rules runs on.
GiveUpRunOn ==
    /\ op # None /\ op.at <= Len(Commands) /\ ~BestEffort(Current) /\ op.attempt = 2
    /\ Breaks(Current) /\ Charge(Current)
    /\ op' = None
    /\ dirty' = (dirty \/ op.kind = "scope")
    /\ UNCHANGED <<cfg, kernel, up, record, deaths, first, stale>>

\* It fails again.  A daemon without its base rules exits; a scope that could not be
\* set is reported, and the record stays.
GiveUp ==
    /\ op # None /\ op.at <= Len(Commands) /\ ~BestEffort(Current) /\ op.attempt = 2
    /\ Breaks(Current) /\ Charge(Current)
    /\ op' = None
    /\ IF op.kind = "base" THEN up' = FALSE /\ record' = {} /\ first' = FALSE
                           ELSE UNCHANGED <<up, record, first>>
    /\ dirty' = (dirty \/ op.kind = "scope")
    /\ UNCHANGED <<cfg, kernel, deaths, stale>>

\* The scope is set; the base rules are there, and the scope is restored from what
\* the boot finds committed, unless that is empty.
Finish ==
    /\ op # None /\ op.at > Len(Commands)
    /\ \/ op.kind = "scope" /\ record' = op.want /\ op' = None
       \/ /\ op.kind = "base" /\ record' = record
          /\ \E want \in SUBSET Iface :
                 op' = IF want = {} THEN None ELSE Operation("scope", want)
    /\ UNCHANGED <<cfg, kernel, up, bounds, history>>

\* The process dies and leaves the kernel as it is.
Die ==
    /\ up /\ deaths < MaxDeaths
    /\ deaths' = deaths + 1 /\ up' = FALSE /\ record' = {} /\ op' = None
    /\ first' = FALSE
    /\ UNCHANGED <<cfg, kernel, faults, stale, dirty>>

NoKernel == sets' = {} /\ chains' = [at \in Place |-> None] /\ jumps' = {} /\ nft' = None

\* The router restarts.
Reboot ==
    /\ deaths < MaxDeaths /\ deaths' = deaths + 1
    /\ up' = FALSE /\ record' = {} /\ op' = None /\ NoKernel
    /\ first' = TRUE /\ stale' = FALSE /\ dirty' = FALSE
    /\ UNCHANGED <<cfg, faults>>

Init ==
    /\ \E choice \in {"auto", "nft", "ipset"}, nat \in BOOLEAN, h \in Hotspots :
           LET backend == Detect(choice, nat)
           IN  cfg = [backend |-> backend, works |-> backend = "nft" => nat, hotspot |-> h]
    /\ sets = {} /\ chains = [at \in Place |-> None] /\ jumps = {} /\ nft = None
    /\ up = FALSE /\ record = {} /\ op = None
    /\ deaths = 0 /\ faults = 0
    /\ first = TRUE /\ stale = FALSE /\ dirty = FALSE

Work == Command \/ Finish
Next == Start \/ Request \/ Work \/ Shrug \/ Retry \/ GiveUp \/ Die \/ Reboot

Spec == Init /\ [][Next]_vars

\* procd starts the daemon when it is down, the writer's task is polled when it is up,
\* and a command the kernel refuses does fail.
FairSpec == Spec /\ WF_vars(Start \/ Work \/ Shrug \/ Retry \/ GiveUp)
-----------------------------------------------------------------------------
(* Properties                                                              *)

\* What the documentation promises for a packet from a gated interface (ruleset.rs,
\* ipset_iptables.rs): the web goes to the portal, the rest is dropped, except for
\* known flows, authorized clients and the walled garden.
Promise(p) ==
    IF p.from = "authed" \/ p.to = "garden" THEN "passed"
    ELSE IF p.flow = "known" THEN "passed"
    ELSE IF p.kind = "web" THEN "portal" ELSE "blocked"

Gated(i) == \A p \in PacketsOf(i) : Fate(p) = Promise(p)
Free(i)  == \A p \in PacketsOf(i) : Fate(p) = "passed"

\* Interfaces that have to be gated now: those in force; while the scope changes,
\* those that are in force before and after.
Held == IF op = None THEN record
        ELSE IF op.kind = "scope" THEN record \cap op.want ELSE {}

\* Every packet of a gated interface, of either family, fares as documented, also in
\* the middle of a change of the scope that leaves the interface gated, unless a change
\* has failed for good in this life of the daemon.
GateHolds == up /\ ~dirty => \A i \in Held : Gated(i)

\* Whatever fails, dies or is under way, the owner's network is never touched, and an
\* authorized client is never cut off or sent to the portal.
OthersPass ==
    /\ Free(Lan)
    /\ \A i \in Iface : \A p \in PacketsOf(i) : p.from = "authed" => Fate(p) = "passed"

\* An interface out of the scope is left alone, in the first daemon since the router
\* started and as long as no removal failed; later ones inherit jumps they do not know.
NoExcess ==
    up /\ op = None /\ first /\ ~stale /\ ~dirty => \A i \in Iface \ record : Free(i)

\* "first-boot never has a fail-open window": while nothing fails, the jumps of the
\* first daemon lead to complete chains, from the first jump on.
NoWindow == first /\ faults = 0 => \A j \in jumps : chains[j[1]] = ChainRules[j[1][2]]

\* A restart empties the chains of a running router before it fills them again, and may
\* fail or die in between: in the end the hotspot is gated again, unless its scope was
\* changed or a change of it failed, or the kernel cannot do what was configured.
GateCloses ==
    (cfg.hotspot # None /\ ~Gated(cfg.hotspot)) ~>
        \/ Gated(cfg.hotspot) \/ dirty \/ ~cfg.works
        \/ up /\ op = None /\ cfg.hotspot \notin record
=============================================================================
