---------------------------- MODULE MCSessionGate ----------------------------
(***************************************************************************)
(* Instances of SessionGate for TLC: the offers the control plane makes.   *)
(***************************************************************************)
EXTENDS SessionGate, TLC

\* A capped, metered grant of two ticks whose client address is known.
FullOffer  == [ttl |-> 2, quota |-> TRUE, rate |-> TRUE, ip |-> TRUE]
FullOffers == {FullOffer}

\* A grant of one tick with no quota, no cap and no known address.
BareOffer  == [ttl |-> 1, quota |-> FALSE, rate |-> FALSE, ip |-> FALSE]
BareOffers == {BareOffer}

\* ... of three ticks, ... and with a ttl of zero, which the conversion lets pass.
PlainOffers   == {[BareOffer EXCEPT !.ttl = 3]}
UnboundOffers == {[BareOffer EXCEPT !.ttl = 0], [BareOffer EXCEPT !.ttl = 2]}
QuotaOffers   == {[BareOffer EXCEPT !.ttl = 2, !.quota = TRUE]}

Clients == Permutations(Mac)
=============================================================================
