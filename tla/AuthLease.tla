------------------------------- MODULE AuthLease -------------------------------
(***************************************************************************)
(* What the gate promises: a client is admitted only while the lease the   *)
(* control plane gave it runs.  The enforcement may gate a client at any   *)
(* time and admit it again while the lease lasts; it never extends it.     *)
(***************************************************************************)
EXTENDS Integers

CONSTANTS Mac, MaxTTL

VARIABLES
    admitted,   \* the clients the gate lets through
    lease       \* ticks left of the longest lease granted

leaseVars == <<admitted, lease>>

Init == admitted = {} /\ lease = [m \in Mac |-> 0]

\* The control plane admits m for at least n ticks.
Admit(m, n) ==
    /\ admitted' = admitted \cup {m}
    /\ lease' = [lease EXCEPT ![m] = IF @ < n THEN n ELSE @]

\* The enforcement puts back a client whose lease still runs.
Readmit(m) ==
    /\ lease[m] > 0
    /\ admitted' = admitted \cup {m}
    /\ UNCHANGED lease

\* The enforcement gates some clients.
Gate(S) == admitted' = admitted \ S /\ UNCHANGED lease

\* One tick: no client stays in whose lease ends with it.
Pass ==
    /\ lease' = [m \in Mac |-> IF lease[m] = 0 THEN 0 ELSE lease[m] - 1]
    /\ admitted' \subseteq {m \in admitted : lease[m] > 1}

Next ==
    \/ \E m \in Mac : Readmit(m) \/ \E n \in 1..MaxTTL : Admit(m, n)
    \/ \E S \in SUBSET Mac : Gate(S)
    \/ Pass

Spec == Init /\ [][Next]_leaseVars
=============================================================================
