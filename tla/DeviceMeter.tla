---------------------------- MODULE DeviceMeter ----------------------------
(***************************************************************************)
(* The device poller: it keeps two named counters, and two rules that      *)
(* refer to them, for each address a committed SSID reserves, and reports  *)
(* what they count.  Provisioning changes the reservations meanwhile.      *)
(***************************************************************************)
EXTENDS Naturals, Sequences, FiniteSets

CONSTANTS
    None,
    Slug, Ip,
    MaxBytes,   \* bound: bytes that cross the router
    MaxPushes,  \* bound: changes of the reservations
    MaxFaults   \* bound: failed commands and deaths of the daemon

VARIABLES
    reserved,  \* the addresses each committed SSID reserves
    chain,     \* how many rules of device_meter match each direction of an address
    counters,  \* the named counters of the table and what they count
    known,     \* known_ips: the addresses of the last poll
    poll,      \* the poll under way: its next command, its addresses
    report,    \* the last report
    moved,     \* history: what crossed since the counter was created
    pushes, faults

vars == <<reserved, chain, counters, known, poll, report, moved, pushes, faults>>
-----------------------------------------------------------------------------
(* The nft documents                                                       *)

\* counter_name: a counter of its own for each direction of an address.
Name == {"ul", "dl"} \X Ip

Of(ips) == {n \in Name : n[2] \in ips}

\* Mutant: the rules are added without the flush.
ReconciledOnTop(ips) == [n \in Name |-> chain[n] + IF n \in Of(ips) THEN 1 ELSE 0]

\* build_reconcile_doc: the chain is flushed and has one rule for each counter then;
\* counters that exist are kept.
Reconciled(ips) == [n \in Name |-> IF n \in Of(ips) THEN 1 ELSE 0]

Created(ips) == [n \in DOMAIN counters \cup Of(ips) |->
                    IF n \in DOMAIN counters THEN counters[n] ELSE 0]

\* build_prune_doc: one transaction, that fails if one counter is not there or is in use.
Prunable(ips) == Of(ips) \subseteq DOMAIN counters /\ \A n \in Of(ips) : chain[n] = 0

\* bytes_for_ip: a counter that is not there reads 0.
BytesFor(read, ip) ==
    [d \in {"ul", "dl"} |-> IF <<d, ip>> \in DOMAIN read THEN read[<<d, ip>>] ELSE 0]
-----------------------------------------------------------------------------
(* The poll                                                                *)

Fault == faults < MaxFaults /\ faults' = faults + 1

Addresses == UNION {reserved[s] : s \in Slug}

\* get_wireless: the addresses of this poll ...
Begin ==
    /\ poll = None /\ poll' = [step |-> "reconcile", ips |-> Addresses]
    /\ UNCHANGED <<reserved, chain, counters, known, report, moved, pushes, faults>>

\* ... or none, and those of the last poll are forgotten.
BeginFails ==
    /\ poll = None /\ Fault
    /\ known' = {} /\ report' = <<>>
    /\ UNCHANGED <<reserved, chain, counters, poll, moved, pushes>>

\* reconcile_counters, its first document: all of it or nothing.
Reconcile ==
    /\ poll # None /\ poll.step = "reconcile"
    /\ \/ /\ chain' = Reconciled(poll.ips) /\ counters' = Created(poll.ips)
          /\ moved' = [n \in Name |-> IF n \in DOMAIN counters THEN moved[n] ELSE 0]
          /\ UNCHANGED faults
       \/ Fault /\ UNCHANGED <<chain, counters, moved>>
    /\ poll' = [poll EXCEPT !.step = "prune"]
    /\ UNCHANGED <<reserved, known, report, pushes>>

\* Its second one: the counters of addresses that are not reserved any more go.
Prune ==
    /\ poll # None /\ poll.step = "prune"
    /\ LET stale == known \ poll.ips
       IN  \/ /\ Prunable(stale) /\ UNCHANGED faults
              /\ counters' = [n \in DOMAIN counters \ Of(stale) |-> counters[n]]
           \/ /\ ~Prunable(stale) /\ UNCHANGED <<counters, faults>>
           \/ stale # {} /\ Fault /\ UNCHANGED counters
    /\ poll' = [poll EXCEPT !.step = "read"]
    /\ UNCHANGED <<reserved, chain, known, report, moved, pushes>>

\* read_counters, and the report; without a counter an address has moved nothing.
Read ==
    /\ poll # None /\ poll.step = "read"
    /\ \/ report' = [ip \in poll.ips |-> BytesFor(counters, ip)] /\ UNCHANGED faults
       \/ poll.ips # {} /\ Fault /\ report' = [ip \in poll.ips |-> BytesFor(<<>>, ip)]
    /\ known' = poll.ips /\ poll' = None
    /\ UNCHANGED <<reserved, chain, counters, moved, pushes>>
-----------------------------------------------------------------------------
(* The router                                                              *)

\* A byte crosses: each rule that matches counts it.
Transfer(n) ==
    /\ n \in DOMAIN counters /\ moved[n] < MaxBytes
    /\ counters' = [counters EXCEPT ![n] = @ + chain[n]]
    /\ moved' = [moved EXCEPT ![n] = @ + 1]
    /\ UNCHANGED <<reserved, chain, known, poll, report, pushes, faults>>

\* Another wireless configuration is committed.
Push ==
    /\ pushes < MaxPushes /\ pushes' = pushes + 1
    /\ \E r \in [Slug -> SUBSET Ip] : r # reserved /\ reserved' = r
    /\ UNCHANGED <<chain, counters, known, poll, report, moved, faults>>

\* The daemon dies and starts again; the kernel keeps what it has.
Die ==
    /\ Fault /\ poll' = None /\ known' = {} /\ report' = <<>>
    /\ UNCHANGED <<reserved, chain, counters, moved, pushes>>

Init ==
    /\ reserved = [s \in Slug |-> {}] /\ chain = [n \in Name |-> 0] /\ counters = <<>>
    /\ known = {} /\ poll = None /\ report = <<>> /\ moved = [n \in Name |-> 0]
    /\ pushes = 0 /\ faults = 0

Next ==
    \/ Begin \/ BeginFails \/ Reconcile \/ Prune \/ Read
    \/ (\E n \in Name : Transfer(n)) \/ Push \/ Die

Spec == Init /\ [][Next]_vars
-----------------------------------------------------------------------------
(* Properties                                                              *)

\* No byte is counted twice, in the counters or in a report, however often the poll is
\* repeated, cut short or started anew by another daemon; and as long as nothing failed,
\* counters are there for the addresses of the last poll, and for no others.
CountedOnce ==
    /\ \A n \in DOMAIN counters : counters[n] <= moved[n]
    /\ poll = None /\ faults = 0 => DOMAIN counters = Of(known)
=============================================================================
