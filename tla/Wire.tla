-------------------------------- MODULE Wire --------------------------------
(***************************************************************************)
(* The control plane's messages and what the engine makes of them: over    *)
(* the Attach stream and over the unary service, requests are checked and  *)
(* converted, a grant takes what it leaves open from the policy of its     *)
(* tier, and what is read back is converted the other way, without keys.   *)
(***************************************************************************)
EXTENDS Naturals, Sequences, FiniteSets

CONSTANTS
    None,
    Mac,
    Grants,    \* the grants that are sent
    Policies,  \* the lists of tier policies that are sent
    Configs    \* the wireless configurations that are sent

VARIABLES
    policies,  \* the tier policies in force
    sessions,  \* the sessions and their limits
    desired,   \* the committed wireless configuration
    reply,     \* what the last request was answered
    told       \* history: what the control plane makes of the answers it got

vars == <<policies, sessions, desired, reply, told>>
-----------------------------------------------------------------------------
(* Texts and messages                                                      *)

Paths  == {"channel", "unary"}
Limits == {"ttl", "quota", "rate"}   \* 0: none given

\* MacAddr, Tier and IpAddr from their texts: a value, or None for what is refused.  A
\* tier's name may be left out or spelled with capitals.
MacOf(text)  == IF text \in Mac THEN text ELSE None
TierOf(text) == CASE text \in {"", "public", "Public"} -> "public"
                  [] text \in {"home", "retail"}       -> text
                  [] OTHER                             -> None
AddressOk(text) == text # "junk"

\* TierPolicy::valid_tier_name: lower case, and not empty.  Any such name is taken.
ValidTierName(text) == text \notin {"", "Public"}

Ack         == [kind |-> "ack"]
Refused(why) == [kind |-> "refused", why |-> why]
-----------------------------------------------------------------------------
(* Grants                                                                  *)

\* tier_policy: looked up by the text of the request.
PolicyOf(list, text) == SelectSeq(list, LAMBDA policy : policy.tier = text)

\* apply_tier_defaults: limits that are left open are those of the policy.
ApplyTierDefaults(req, list) ==
    LET found == PolicyOf(list, req.tier)
    IN  IF found = <<>> THEN req
        ELSE [req EXCEPT !.limits = [l \in Limits |->
                 IF req.limits[l] = 0 THEN Head(found).limits[l] ELSE req.limits[l]]]

\* grant_request_to_params: refused for its MAC, its tier or its address.
Acceptable(req) ==
    MacOf(req.mac) # None /\ TierOf(req.tier) # None /\ AddressOk(req.ip)

Filled(path, req) == IF path = "channel" THEN ApplyTierDefaults(req, policies) ELSE req

\* A grant, over the stream with the defaults of its tier, over the service without.
Grant(path, req) ==
    /\ Acceptable(req)
    /\ sessions' = [sessions EXCEPT ![req.mac] =
          [tier |-> TierOf(req.tier), ip |-> req.ip, limits |-> Filled(path, req).limits]]
    /\ reply' = Ack
    /\ told' = [told EXCEPT !.limits[req.mac] =
          IF path = "channel" THEN ApplyTierDefaults(req, told.policies).limits ELSE req.limits]
    /\ UNCHANGED <<policies, desired>>

\* It is not converted, or the firewall does not take it.
GrantRefused(req) ==
    /\ reply' = Refused(IF Acceptable(req) THEN "internal" ELSE "invalid_argument")
    /\ UNCHANGED <<policies, sessions, desired, told>>

\* revoke_reason_from_pb is left out: the reason does not matter here.
Revoke(text) ==
    /\ IF MacOf(text) = None
       THEN reply' = Refused("invalid_argument") /\ UNCHANGED sessions
       ELSE IF sessions[text] = None
       THEN reply' = Refused("not_found") /\ UNCHANGED sessions
       ELSE reply' = Ack /\ sessions' = [sessions EXCEPT ![text] = None]
    /\ UNCHANGED <<policies, desired, told>>

\* session_info_to_pb, in answer to Get.
SessionInfo(m) == [kind |-> "session", mac |-> m, tier |-> sessions[m].tier,
                   ip |-> sessions[m].ip, limits |-> sessions[m].limits]

Get(text) ==
    /\ reply' = CASE MacOf(text) = None    -> Refused("invalid_argument")
                  [] MacOf(text) # None /\ sessions[text] = None -> Refused("not_found")
                  [] OTHER                 -> SessionInfo(text)
    /\ UNCHANGED <<policies, sessions, desired, told>>
-----------------------------------------------------------------------------
(* Tier policies                                                           *)

TiersOk(list) ==
    /\ \A n \in DOMAIN list : ValidTierName(list[n].tier)
    /\ \A m, n \in DOMAIN list : list[m].tier = list[n].tier => m = n

\* Mutant: the list is stored before it is checked.
SetTierPoliciesUnchecked(list) ==
    /\ policies' = list
    /\ IF TiersOk(list) THEN reply' = Ack /\ told' = [told EXCEPT !.policies = list]
                        ELSE reply' = Refused("bad_request") /\ UNCHANGED told
    /\ UNCHANGED <<sessions, desired>>

\* tier_policies_from_pb and set_tier_policies: all of the list or nothing.
SetTierPolicies(list) ==
    /\ IF TiersOk(list)
       THEN policies' = list /\ reply' = Ack /\ told' = [told EXCEPT !.policies = list]
       ELSE reply' = Refused("bad_request") /\ UNCHANGED <<policies, told>>
    /\ UNCHANGED <<sessions, desired>>
-----------------------------------------------------------------------------
(* Wireless configurations                                                 *)

NoNetwork  == [bridge |-> "", dhcp |-> TRUE, reservations |-> <<>>]
NoFirewall == [egress |-> "", targets |-> <<>>]

\* wireless_ssid_from_pb: the two parts of a message are flattened, and one that is left
\* out is empty.
Flat(ssid) ==
    LET network  == IF ssid.network = None THEN NoNetwork ELSE ssid.network
        firewall == IF ssid.firewall = None THEN NoFirewall ELSE ssid.firewall
    IN  [slug |-> ssid.slug, key |-> ssid.key, gated |-> ssid.gated,
         bridge |-> network.bridge, dhcp |-> network.dhcp,
         reservations |-> network.reservations,
         egress |-> firewall.egress, targets |-> firewall.targets]

\* wireless_config_from_pb
FromPb(config) ==
    [version |-> config.version, timeout |-> config.timeout, peers |-> config.peers,
     ssids |-> [n \in DOMAIN config.ssids |-> Flat(config.ssids[n])]]

\* ssid_spec_to_pb_redacted: the key stays.
Redacted(spec) ==
    [slug |-> spec.slug, key |-> "", gated |-> spec.gated,
     network |-> [bridge |-> spec.bridge, dhcp |-> spec.dhcp,
                  reservations |-> spec.reservations],
     firewall |-> [egress |-> spec.egress, targets |-> spec.targets]]

\* wireless_config_to_pb: neither the peers nor the time to confirm are in it.
ToPb(config) ==
    [kind |-> "config", version |-> config.version,
     ssids |-> [n \in DOMAIN config.ssids |-> Redacted(config.ssids[n])]]

\* set_wireless, confirmed; WirelessConfirm has what lies between.
SetWirelessConfig(config) ==
    /\ desired' = FromPb(config) /\ reply' = Ack
    /\ told' = [told EXCEPT !.ssids = [n \in DOMAIN config.ssids |-> Flat(config.ssids[n])]]
    /\ UNCHANGED <<policies, sessions>>

\* It is not valid, or is rolled back.
WirelessRefused ==
    /\ reply' = Refused("bad_request")
    /\ UNCHANGED <<policies, sessions, desired, told>>

GetWirelessConfig ==
    /\ reply' = ToPb(desired) /\ UNCHANGED <<policies, sessions, desired, told>>

\* What the service does not have.
Unimplemented ==
    /\ reply' = Refused("unimplemented") /\ UNCHANGED <<policies, sessions, desired, told>>
-----------------------------------------------------------------------------
Init ==
    /\ policies = <<>> /\ sessions = [m \in Mac |-> None]
    /\ desired = [version |-> "", timeout |-> 0, peers |-> <<>>, ssids |-> <<>>]
    /\ reply = Ack
    /\ told = [policies |-> <<>>, limits |-> [m \in Mac |-> None], ssids |-> <<>>]

Next ==
    \/ \E req \in Grants : GrantRefused(req) \/ (\E path \in Paths : Grant(path, req))
    \/ \E text \in Mac \cup {"junk"} : Revoke(text) \/ Get(text)
    \/ \E list \in Policies : SetTierPolicies(list)
    \/ \E config \in Configs : SetWirelessConfig(config)
    \/ WirelessRefused \/ GetWirelessConfig \/ Unimplemented
-----------------------------------------------------------------------------
(* Properties                                                              *)

\* From the answers alone the control plane knows what is in force: the limits of each
\* session, whatever policies it pushed before and after, and the wireless configuration
\* it reads back, which has no key in it.
AsTold ==
    /\ \A m \in Mac : sessions[m] # None => sessions[m].limits = told.limits[m]
    /\ reply.kind = "session" => reply.limits = told.limits[reply.mac]
    /\ reply.kind = "config" =>
          /\ \A n \in DOMAIN reply.ssids : reply.ssids[n].key = ""
          /\ [n \in DOMAIN reply.ssids |->
                 [Flat(reply.ssids[n]) EXCEPT !.key = told.ssids[n].key]] = told.ssids
=============================================================================
