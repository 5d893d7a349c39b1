-------------------------- MODULE MCWirelessConfirm --------------------------
(***************************************************************************)
(* Instances of WirelessConfirm for TLC: what the control plane pushes.    *)
(***************************************************************************)
EXTENDS WirelessConfirm, TLC

CONSTANTS s1, s2, b1, b2, m1

Ssid(b, g, m) == [bridge |-> b, gated |-> g, macs |-> m]

\* A gated SSID; the same opened, moved to another bridge and given a MAC filter, next to a
\* second one; and a teardown.
SomePlans == { s1 :> Ssid(b1, TRUE, {}),
               (s1 :> Ssid(b2, FALSE, {m1})) @@ (s2 :> Ssid(b1, TRUE, {})),
               NoPlan }

\* One command, or all of them.
OneOrAll ==
    LET commands == Line \cup ({"wireless"} \X Slug \X {"maclist"})
    IN  {{c} : c \in commands} \cup {commands}
=============================================================================
