------------------------------ MODULE MCParts ------------------------------
(***************************************************************************)
(* Values for TLC of the constants of Parts, where they are more than a    *)
(* number or a few model values.                                           *)
(***************************************************************************)
EXTENDS Parts, TLC

-----------------------------------------------------------------------------
(* The redirect responder and the counters                                 *)

\* A store's name that would end its parameter.
C(c) == <<"char", c>>

MCStoreId  == <<C("s"), C("&")>>
MCReserved == {C("&"), C("="), C("%"), C(":")}

\* A client with two addresses, and two with one, of which the other has no neighbour.
Neighbour(ip, m) == [ip |-> ip, lladdr |-> m]
MCTables == { <<Neighbour("a", "m1"), Neighbour("b", "m1")>>,
              <<Neighbour("a", "m1"), Neighbour("b", "none")>> }
-----------------------------------------------------------------------------
(* Wireless plans                                                          *)

Ssid == [slug |-> <<"a">>, bridge |-> "br1", radios |-> <<>>, egress |-> "", ip |-> 1,
         size |-> 4, dhcp |-> TRUE, hosts |-> <<>>, targets |-> <<>>, gated |-> TRUE,
         filter |-> {}, capped |-> FALSE, wellFormed |-> TRUE]

\* Names with underscores that make one section of two pairs.
AB == [Ssid EXCEPT !.slug = <<"a", "b">>, !.bridge = "br2", !.ip = 5,
                   !.hosts = <<[mac |-> "m", ip |-> 6]>>]
BC == [Ssid EXCEPT !.slug = <<"b", "c">>, !.bridge = "br3", !.ip = 9, !.gated = FALSE,
                   !.capped = TRUE, !.radios = <<"radio0", "radio1">>]
Cc == [Ssid EXCEPT !.slug = <<"c">>, !.bridge = "br4", !.ip = 13, !.gated = FALSE]

\* A captive SSID whose portal rule has the name of the pair of the other two.
PeerX ==
    << [Ssid EXCEPT !.slug = <<"peer", "x">>],
       [Ssid EXCEPT !.slug = <<"x">>, !.bridge = "br2", !.ip = 5],
       [Cc EXCEPT !.slug = <<"portal">>, !.ip = 9] >>

\* Those, an SSID in a larger subnet, and some that break a rule.
Ssids ==
    { Ssid, AB, BC,
      [Cc EXCEPT !.bridge = "br2", !.size = 8, !.targets = <<<<"lan">>>>],
      [Cc EXCEPT !.ip = 6, !.size = 8, !.dhcp = FALSE, !.hosts = <<[mac |-> "m", ip |-> 0]>>],
      [Cc EXCEPT !.slug = <<"d">>, !.ip = 14, !.egress = "lan"],
      [Cc EXCEPT !.slug = <<"d">>, !.ip = 14, !.bridge = "br-lan"],
      [Cc EXCEPT !.slug = <<"d">>, !.ip = 15, !.bridge = "br5", !.radios = <<"radio1">>],
      [Ssid EXCEPT !.wellFormed = FALSE] }

Peer(a, b) == [from |-> a, to |-> b]

MCLists ==
    {<<>>, <<Ssid, AB, BC, Cc>>, PeerX} \cup {<<a>> : a \in Ssids} \cup {<<a, b>> : a, b \in Ssids}

MCPairs ==
    {Peer(<<"a", "b">>, <<"c">>), Peer(<<"a">>, <<"b", "c">>), Peer(<<"c">>, <<"a">>),
     Peer(<<"x">>, <<"portal">>)}

MCForeign ==
    (<<"network", <<"lan">>>> :> [type |-> "interface", ip |-> 33, size |-> 16])
    @@ (<<"firewall", <<"my", "portal">>>> :> [type |-> "rule", src |-> <<"lan">>, port |-> 80])
-----------------------------------------------------------------------------
(* Messages                                                                *)

Limits(ttl, quota, rate) == [ttl |-> ttl, quota |-> quota, rate |-> rate]
Request(m, tier, ip, limits) == [mac |-> m, tier |-> tier, ip |-> ip, limits |-> limits]
Policy(tier, limits) == [tier |-> tier, limits |-> limits]
Bare == [slug |-> "s1", key |-> "secret", gated |-> TRUE, network |-> None, firewall |-> None]
Full == [Bare EXCEPT !.slug = "s2", !.key = "",
                     !.network = [bridge |-> "br1", dhcp |-> FALSE, reservations |-> <<"m1">>],
                     !.firewall = [egress |-> "wan", targets |-> <<"lan">>]]

MCGrants ==
    { Request("m1", "home", "", Limits(0, 0, 0)), Request("m1", "public", "a", Limits(1, 0, 0)),
      Request("m2", "", "a", Limits(0, 1, 0)), Request("m2", "vip", "", Limits(0, 0, 0)),
      Request("junk", "", "", Limits(0, 0, 0)), Request("m2", "public", "junk", Limits(0, 0, 0)) }

MCPolicies ==
    { <<>>, <<Policy("public", Limits(1, 2, 0))>>, <<Policy("vip", Limits(1, 0, 0))>>,
      <<Policy("home", Limits(2, 2, 2)), Policy("public", Limits(2, 0, 1))>>,
      <<Policy("home", Limits(1, 1, 1)), Policy("home", Limits(2, 2, 2))>>,
      <<Policy("Public", Limits(1, 1, 1))>> }

MCMessages ==
    { [version |-> "v1", timeout |-> 90, peers |-> <<>>, ssids |-> <<Bare>>],
      [version |-> "v2", timeout |-> 0, peers |-> <<<<"s1", "s2">>>>, ssids |-> <<Bare, Full>>] }
-----------------------------------------------------------------------------
(* Caps and access points                                                  *)

\* Two clients with a class each, or with one; other objects of ubus among the access points.
MCHashes == {[m \in Mac |-> 2], [m \in Mac |-> IF m = "m1" THEN 2 ELSE 3]}
-----------------------------------------------------------------------------
(* Texts                                                                   *)

Base == [store |-> <<"s">>, port |-> 8080, idle |-> 30, reap |-> FALSE, garden |-> <<>>, radios |-> <<>>]
Section(type) == <<"config", " ", type>>
Option(key, value) == <<"option", " ", key, " ">> \o value

\* Values with blanks, quotes and what begins a comment; names that are none, and other
\* configurations that are not valid; texts that break one rule each.
MCMeant ==
    { Base, [Base EXCEPT !.store = <<"J", "'", "s", " ", "#">>, !.idle = 0,
                         !.garden = <<<<"a", ".", "b">>, <<"c">>>>],
      [Base EXCEPT !.reap = TRUE, !.radios = <<<<"radio0">>>>], [Base EXCEPT !.store = <<>>],
      [Base EXCEPT !.garden = <<<<"a", ".", ".", "b">>>>], [Base EXCEPT !.port = 0],
      [Base EXCEPT !.garden = <<<<"a", "#">>>>] }

MCBroken ==
    { <<>>, <<Option("store_id", <<"s">>)>>,
      <<Section("portcullis"), Option("store_id", <<"'", "s">>)>>,
      <<Section("portcullis"), Option("store_id", <<"s", " ", "s">>)>>,
      <<Section("portcullis"), Option("responder_port", <<"70000">>)>>,
      <<Section("portcullis"), Option("reap_conntrack", <<"perhaps">>)>>,
      <<Section("other"), Option("store_id", <<"s">>)>> }

Key(section, option) ==
    <<"wireless", ".", section>> \o IF option = "" THEN <<>> ELSE <<".", option>>
Lan   == Key("lan", "") :> <<<<"interface">>>> @@ Key("lan", "ip") :> <<<<"10">>>>
Air   == Key("pc_a", "") :> <<<<"wifi">>>> @@ Key("pc_a", "ssid") :> <<<<"x", "=", "#", " ", "y">>>>
Listed == Air @@ Key("pc_a", "maclist") :> <<<<"m1">>, <<"m2">>>>
Joes  == Key("pc_a", "") :> <<<<"wifi">>>> @@ Key("pc_a", "ssid") :> <<<<"J", "'", "s">>>>
            @@ Key("pc_a", "maclist") :> <<<<"m1">>>>
Rule  == Key("pc_b", "") :> <<<<"rule">>>> @@ Key("pc_b", "name") :> <<<<"b", ",", "+">>>>

MCSections == {Lan, Lan @@ Air, Lan @@ Listed, Lan @@ Joes @@ Rule}
MCVersions == {<<"v">>, <<"-", "=", "---">>}
MCScopes   == {<<>>, <<<<"br1">>>>, <<<<"br1">>, <<"br2">>>>}
-----------------------------------------------------------------------------
(* Settings                                                                *)

Unset  == [interval |-> 0, garden |-> 0, expiry |-> 0, sessions |-> 0, idle |-> 0]
Source == [garden |-> <<1>>, params |-> [interval |-> 15, garden |-> 30, expiry |-> 1,
                                         sessions |-> 4096, idle |-> 0]]

MCGardens  == {<<>>, <<1, 2>>, <<2, 1>>}
MCRequests == {Unset, [Unset EXCEPT !.idle = 30, !.interval = 60], [Unset EXCEPT !.idle = 10]}
MCFiles    == {Source, [Source EXCEPT !.garden = <<1, 2>>, !.params.idle = 30]}
-----------------------------------------------------------------------------
\* Where a part that does not run stands is of no interest.
MCInit ==
    /\ Init
    /\ part # "runtime" => seed = {}
    /\ part # "metering" => neighbours = CHOOSE table \in Tables : TRUE
    /\ part # "effects" => shaping /\ minor["m2"] = 2 /\ air["m1"] = "ap1"
    /\ part # "markers" => options = Lan
    /\ part # "drift" => attached /\ settings.params.idle = 0

MCSpec == MCInit /\ [][Next]_vars /\ Fairness
=============================================================================
