------------------------------ MODULE UciPlan ------------------------------
(***************************************************************************)
(* What a pushed wireless plan becomes in UCI: it is validated, rendered   *)
(* to sections in the name space of the engine, applied over those of the  *)
(* plan before, and read back after a reboot to find out what is gated,    *)
(* and by the liveness poller to find out what is on the air.  A push is   *)
(* confirmed at once here; WirelessConfirm and GateScope have what lies    *)
(* between.  The words of a name are what its underscores separate.        *)
(***************************************************************************)
EXTENDS Naturals, Sequences, FiniteSets, SequencesExt, TLC

CONSTANTS
    None,
    Lists,      \* the lists of SSIDs that are pushed
    Pairs,      \* the pairs of SSIDs that are to reach each other, at most two at a time
    Foreign,    \* the sections that are not the engine's
    Protected,  \* radios that are off limits
    MaxVifs,    \* MAX_SSIDS_PER_RADIO
    MaxRadios   \* MAX_RADIOS_PER_SSID

VARIABLES
    plan,      \* the last plan accepted
    uci,       \* the sections on flash, and their options
    committed, \* the plan the daemon knows of
    scope,     \* the bridges that are gated
    rows       \* the last liveness snapshot, or None

vars == <<plan, uci, committed, scope, rows>>
-----------------------------------------------------------------------------
(* Sections                                                                *)

Section(config, words) == <<config, <<"pc">> \o words>>

\* is_owned_wireless_section
Owned(section) == Head(section[2]) = "pc"

\* The names that are numbered.
Ap    == <<"ap0", "ap1", "ap2", "ap3">>
Host  == <<"host0", "host1">>
Allow == <<"allow0", "allow1">>

\* An option that is set beside those that are there.
Set(sections, section, options) ==
    [s \in DOMAIN sections \cup {section} |->
        IF s # section THEN sections[s]
        ELSE IF s \in DOMAIN sections THEN options @@ sections[s] ELSE options]
-----------------------------------------------------------------------------
(* Rendering                                                               *)

Radios(spec) == IF spec.radios = <<>> THEN <<"radio0">> ELSE spec.radios

Egress(spec) == IF spec.egress = "" THEN <<"wan">> ELSE <<spec.egress>>

\* What render_ssid has for the firewall: a zone in the name of the SSID that reaches its
\* egress zone and its targets only, DHCP and DNS, and for a gated SSID the portal.
RenderZone(spec) ==
    LET section(word, options) == <<Section("firewall", Append(spec.slug, word)), options>>
        rule(word, port) == section(word, [type |-> "rule", src |-> spec.slug, port |-> port])
    IN  << section("zone", [type |-> "zone", name |-> spec.slug, network |-> Append(spec.slug, "if")]),
           section("fwd", [type |-> "forwarding", src |-> spec.slug, dest |-> Egress(spec)]),
           rule("dhcp", 67), rule("dns", 53) >>
        \o (IF spec.gated THEN << rule("portal", 8080) >> ELSE <<>>)
        \o [n \in DOMAIN spec.targets |->
              section(Allow[n], [type |-> "rule", src |-> spec.slug, dest |-> spec.targets[n]])]

\* The queue of an SSID that has a cap in either direction.
RenderQueue(spec) ==
    IF spec.capped
    THEN << <<Section("sqm", spec.slug), [type |-> "queue", interface |-> spec.bridge]>> >>
    ELSE <<>>

\* render_ssid: the sections of one SSID, in order.
RenderSsid(spec) ==
    LET name(words) == spec.slug \o words
    IN  << <<Section("network", name(<<"dev">>)), [type |-> "device", name |-> spec.bridge]>>,
           <<Section("network", name(<<"if">>)),
             [type |-> "interface", device |-> spec.bridge, ip |-> spec.ip, size |-> spec.size]>> >>
        \o [n \in DOMAIN Radios(spec) |->
              <<Section("wireless", name(<<Ap[n]>>)),
                [type |-> "wifi-iface", device |-> Radios(spec)[n], network |-> name(<<"if">>),
                 macfilter |-> spec.filter]>>]
        \o (IF ~spec.dhcp THEN <<>> ELSE
              << <<Section("dhcp", spec.slug), [type |-> "dhcp", interface |-> name(<<"if">>)]>> >>
              \o [n \in DOMAIN spec.hosts |->
                    <<Section("dhcp", name(<<Host[n]>>)),
                      [type |-> "host", mac |-> spec.hosts[n].mac, ip |-> spec.hosts[n].ip]>>])
        \o RenderZone(spec) \o RenderQueue(spec)

\* render_peer_allow
RenderPeer(peer) ==
    << <<Section("firewall", <<"peer">> \o peer.from \o peer.to),
         [type |-> "forwarding", src |-> peer.from, dest |-> peer.to]>> >>

\* render_wireless: every SSID, then every pair.
Render(p) ==
    FlattenSeq([n \in DOMAIN p.ssids |-> RenderSsid(p.ssids[n])])
        \o FlattenSeq([n \in DOMAIN p.peers |-> RenderPeer(p.peers[n])])

\* apply_wireless: the owned sections that are there are deleted, then the batch is set.
Applied(p) ==
    FoldLeft(LAMBDA sections, set : Set(sections, set[1], set[2]),
             [s \in {s \in DOMAIN uci : ~Owned(s)} |-> uci[s]], Render(p))
-----------------------------------------------------------------------------
(* Validation                                                              *)

Net(spec)       == (spec.ip \div spec.size) * spec.size
Broadcast(spec) == Net(spec) + spec.size - 1

Subnet(spec) == Net(spec)..Broadcast(spec)

\* Mutant: only equal networks overlap.
OverlapNets(a, b) == Net(a) = Net(b)

Overlap(a, b) == Net(a) <= Broadcast(b) /\ Net(b) <= Broadcast(a)

\* A reservation is a host of the subnet, not the gateway, and none is there twice; they
\* are looked at only where there is a pool.
HostsOk(spec) ==
    spec.dhcp =>
        /\ \A n \in DOMAIN spec.hosts :
              spec.hosts[n].ip \in Subnet(spec) \ {Net(spec), Broadcast(spec), spec.ip}
        /\ \A m, n \in DOMAIN spec.hosts :
              m # n => spec.hosts[m].mac # spec.hosts[n].mac /\ spec.hosts[m].ip # spec.hosts[n].ip

\* What is looked at in one SSID; `wellFormed` stands for the texts: its name, encryption,
\* key, mode, filter, mask, pool and lease time.
SpecOk(spec) ==
    /\ spec.wellFormed
    /\ spec.slug \notin {<<"lan">>, <<"wan">>, <<"admin">>} /\ spec.bridge # "br-lan"
    /\ Len(Radios(spec)) <= MaxRadios
    /\ Egress(spec) # <<"lan">>
    /\ spec.ip \notin {Net(spec), Broadcast(spec)}
    /\ HostsOk(spec)
    /\ \A n \in DOMAIN spec.targets : spec.targets[n] \notin {<<>>, spec.slug}

Slugs(p) == {p.ssids[n].slug : n \in DOMAIN p.ssids}

Vifs(p, radio) ==
    Cardinality({v \in (DOMAIN p.ssids) \X (1..MaxRadios) :
                    v[2] \in DOMAIN Radios(p.ssids[v[1]]) /\ Radios(p.ssids[v[1]])[v[2]] = radio})

PeerOk(p, peer) == {peer.from, peer.to} \subseteq Slugs(p) /\ peer.from # peer.to

\* validate_protected_radios: no SSID is on a radio that is off limits, by default or by name.
RadiosFree(p) ==
    \A n \in DOMAIN p.ssids : ToSet(Radios(p.ssids[n])) \cap Protected = {}

\* validate_wireless, and RadiosFree; without SSIDs nothing else is looked at.
Valid(p) ==
    p.ssids # <<>> =>
        /\ \A n \in DOMAIN p.ssids : SpecOk(p.ssids[n])
        /\ \A m, n \in DOMAIN p.ssids : m < n =>
              /\ p.ssids[m].slug # p.ssids[n].slug /\ p.ssids[m].bridge # p.ssids[n].bridge
              /\ ~Overlap(p.ssids[m], p.ssids[n])
        /\ \A radio \in Protected \cup {"radio0", "radio1"} : Vifs(p, radio) <= MaxVifs
        /\ RadiosFree(p)
        /\ IsInjective(p.peers) /\ \A n \in DOMAIN p.peers : PeerOk(p, p.peers[n])
-----------------------------------------------------------------------------
(* Reading back                                                            *)

\* Mutant: the slug ends at the first underscore.
SlugFirstWord(section) == <<section[2][2]>>

\* pc_<slug>_portal: the slug may have underscores of its own.
SlugOf(section) == SubSeq(section[2], 2, Len(section[2]) - 1)

\* parse_gated_bridges_from_uci: an owned rule in the name of a portal tells a gated slug,
\* whose device has the name of the bridge.
Recovered(sections) ==
    LET portals == {s \in DOMAIN sections :
                      /\ s[1] = "firewall" /\ Owned(s) /\ sections[s].type = "rule"
                      /\ Last(s[2]) = "portal" /\ Len(s[2]) > 2}
        devices == {Section("network", SlugOf(s) \o <<"dev">>) : s \in portals}
    IN  {sections[d].name : d \in devices \cap DOMAIN sections} \ {"br-lan"}
-----------------------------------------------------------------------------
(* Pushes and boots                                                        *)

Gated(p) == {n \in DOMAIN p.ssids : p.ssids[n].gated}

\* A plan that is not valid changes nothing; one that is replaces the one before, and
\* once it is committed its gated bridges become the scope.
Push(p) ==
    /\ Valid(p) /\ plan' = p /\ uci' = Applied(p) /\ committed' = p
    /\ scope' = {p.ssids[n].bridge : n \in Gated(p)}
    /\ UNCHANGED rows

NoPlan == [ssids |-> <<>>, peers |-> <<>>]

\* The daemon starts on a router whose tmpfs is empty.
Boot ==
    /\ scope' = Recovered(uci) /\ committed' = NoPlan /\ rows' = None
    /\ UNCHANGED <<plan, uci>>
-----------------------------------------------------------------------------
(* Liveness                                                                *)

\* slug_vifs: the interfaces that netifd has for the sections pc_<slug>_ap.
SlugVifs ==
    {s \in DOMAIN uci : s[1] = "wireless" /\ Owned(s) /\ Last(s[2]) = "ap"}

\* poll_once: a row for each gated SSID with an interface, whether it is on the air, and
\* whether its bridge is gated.
Poll ==
    /\ LET found == {n \in Gated(committed) :
                        \E s \in SlugVifs : SlugOf(s) = committed.ssids[n].slug}
       IN  \E up \in SUBSET found :
              rows' = [slug \in {committed.ssids[n].slug : n \in found} |->
                         [broadcasting |-> \E n \in up : committed.ssids[n].slug = slug,
                          gated |-> \E n \in found : /\ committed.ssids[n].slug = slug
                                                     /\ committed.ssids[n].bridge \in scope]]
    /\ UNCHANGED <<plan, uci, committed, scope>>

\* netifd does not answer: no row.
PollBlind == rows' = <<>> /\ UNCHANGED <<plan, uci, committed, scope>>

Init ==
    /\ plan = NoPlan /\ uci = Foreign /\ committed = NoPlan /\ scope = {} /\ rows = None

Next ==
    \/ \E ssids \in Lists : \E peers \in SeqOf(Pairs, 2) :
          Push([ssids |-> ssids, peers |-> peers])
    \/ Boot \/ Poll \/ PollBlind

Spec == Init /\ [][Next]_vars
-----------------------------------------------------------------------------
(* Properties                                                              *)

\* The section of a pair has the name of an SSID's portal rule, and is set over it: the SSID
\* is peer_x, and the pair leads from x to an SSID that is called portal.
PortalTaken(p, spec) ==
    \E n \in DOMAIN p.peers :
        <<"peer">> \o p.peers[n].from \o p.peers[n].to = Append(spec.slug, "portal")

\* What a boot finds out from flash alone is what the plan gates, whatever the names: no
\* other bridge is gated, and no captive SSID comes up open but one whose portal rule has
\* become the forwarding of a pair (uci.rs:405, 453 and 203).
GatedRecovered ==
    Recovered(uci) = {plan.ssids[n].bridge :
                         n \in {n \in Gated(plan) : ~PortalTaken(plan, plan.ssids[n])}}

Forwardings == {<<uci[s].src, uci[s].dest>> : s \in {s \in DOMAIN uci : uci[s].type = "forwarding"}}

Asked ==
    {<<plan.ssids[n].slug, Egress(plan.ssids[n])>> : n \in DOMAIN plan.ssids}
        \cup {<<plan.peers[n].from, plan.peers[n].to>> : n \in DOMAIN plan.peers}

\* UCI forwards between no two zones that the plan does not name, and between all of them
\* unless names have underscores, when two pairs may have one section; an address is in
\* one SSID at most, and reserved for one device; the foreign sections are untouched.
AsAsked ==
    /\ Forwardings \subseteq Asked
    /\ (\A pair \in Asked : Len(pair[1]) = 1 /\ Len(pair[2]) = 1) => Forwardings = Asked
    /\ \A s, t \in DOMAIN uci :
          /\ s # t /\ uci[s].type = "interface" /\ uci[t].type = "interface" =>
                Subnet(uci[s]) \cap Subnet(uci[t]) = {}
          /\ s # t /\ uci[s].type = "host" /\ uci[t].type = "host" => uci[s].ip # uci[t].ip
    /\ \A s \in DOMAIN Foreign : s \in DOMAIN uci /\ uci[s] = Foreign[s]

\* A poll that nothing disturbs reports "for each **gated** SSID the engine owns" whether
\* it is beaconing (liveness.rs).  The poller looks for the section pc_<slug>_ap, and
\* render_ssid numbers them, pc_<slug>_ap0 and so on: no SSID is ever reported.
AirReported ==
    [][Poll => {committed.ssids[n].slug : n \in Gated(committed)} \subseteq DOMAIN rows']_vars
=============================================================================
