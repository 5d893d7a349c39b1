----------------------------- MODULE MCGateScope -----------------------------
(***************************************************************************)
(* Instances of GateScope for TLC: what the control plane pushes.          *)
(***************************************************************************)
EXTENDS GateScope, TLC

CONSTANTS s1, b1, b2

Gated(b) == [bridge |-> b, gated |-> TRUE, macs |-> {}]

\* One SSID, gated, on one bridge or the other.
ScopePlans == { s1 :> Gated(b1), s1 :> Gated(b2) }

\* The command on its portal rule, or all of them.
RuleOrAll == {{<<"firewall", s1, "section">>}, Line}
=============================================================================
