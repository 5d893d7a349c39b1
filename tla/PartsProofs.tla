----------------------------- MODULE PartsProofs -----------------------------
(***************************************************************************)
(* Proofs about the parts that run side by side.                           *)
(***************************************************************************)
EXTENDS Parts, Integers, FiniteSetTheorems, SequenceTheorems, TLAPS

-----------------------------------------------------------------------------
(* One part at a time                                                      *)

\* Which part runs is settled at the start, and a step is one of that part.
LEMMA OnePart ==
    ASSUME [Next]_vars
    PROVE  /\ part' = part
           /\ part = "runtime" => Runtime!Next \/ UNCHANGED runtimeVars
           /\ part = "portal" => Portal!Next \/ UNCHANGED portalVars
           /\ part = "devices" => Devices!Next \/ UNCHANGED devicesVars
           /\ part = "effects" => Effects!Next \/ UNCHANGED effectsVars
           /\ part = "observers" => Observers!Next \/ UNCHANGED observersVars
<1>1. CASE UNCHANGED vars
  BY <1>1 DEF vars
<1>2. CASE Next
  BY <1>2 DEF Next
<1> QED BY <1>1, <1>2

-----------------------------------------------------------------------------
(* The settings                                                            *)

LEMMA SavedStays ==
    ASSUME Runtime!SurvivesRestart, Runtime!Next
    PROVE  Runtime!SurvivesRestart'
<1> USE DEF Runtime!SurvivesRestart
<1>1. ASSUME NEW new, NEW channels, Runtime!Store(new, channels) PROVE Runtime!SurvivesRestart'
  BY <1>1 DEF Runtime!Store, Runtime!Persist
<1>2. CASE Runtime!Pushed
  BY <1>1, <1>2 DEF Runtime!Pushed, Runtime!SetEnforcement, Runtime!SetGarden,
       Runtime!SetTierPolicies, Runtime!SetEngineParameters
<1>3. CASE Runtime!Hangup
  BY <1>3 DEF Runtime!Hangup, Runtime!Persist
<1>4. CASE Runtime!Loops
  BY <1>4 DEF Runtime!Loops, Runtime!Rearm, Runtime!Toggle, Runtime!Rescope,
       Runtime!GardenPass, Runtime!GardenRename, Runtime!GardenIdle, Runtime!GardenResolve,
       Runtime!disk
<1>5. CASE Runtime!Wireless \/ Runtime!Edit \/ Runtime!Start \/ Runtime!Die \/ Runtime!Reboot
  BY <1>5 DEF Runtime!Wireless, Runtime!Edit, Runtime!Start, Runtime!Die, Runtime!Reboot,
       Runtime!Forget, Runtime!disk
<1> QED BY <1>2, <1>3, <1>4, <1>5 DEF Runtime!Next

\* What dnsmasq may read, and what is written next to it.
GardenInv ==
    /\ Runtime!DnsSafe
    /\ tmp # None => tmp.whole /\ tmp.names \cap BadNames = {} /\ garden = "dnsmasq"

LEMMA GardenStays == ASSUME GardenInv, Runtime!Next PROVE GardenInv'
<1> USE DEF GardenInv, Runtime!DnsSafe
<1>1. ASSUME NEW new, NEW channels, Runtime!Store(new, channels), state # None PROVE GardenInv'
  BY <1>1 DEF Runtime!Store
<1>2. CASE Runtime!Pushed
  BY <1>1, <1>2 DEF Runtime!Pushed, Runtime!SetEnforcement, Runtime!SetGarden,
       Runtime!SetTierPolicies, Runtime!SetEngineParameters
<1>3. CASE Runtime!Hangup
  BY <1>3 DEF Runtime!Hangup, Runtime!Persist
<1>4. CASE Runtime!GardenPass
  BY <1>4 DEF Runtime!GardenPass, Runtime!Render
<1>5. CASE Runtime!GardenRename
  BY <1>5 DEF Runtime!GardenRename
<1>6. CASE \/ Runtime!Rearm \/ Runtime!Toggle \/ Runtime!Rescope \/ Runtime!GardenIdle
           \/ Runtime!GardenResolve
  BY <1>6 DEF Runtime!Rearm, Runtime!Toggle, Runtime!Rescope, Runtime!GardenIdle,
       Runtime!GardenResolve, Runtime!disk
<1>7. CASE Runtime!Wireless \/ Runtime!Edit \/ Runtime!Start \/ Runtime!Die \/ Runtime!Reboot
  BY <1>7 DEF Runtime!Wireless, Runtime!Edit, Runtime!Start, Runtime!Die, Runtime!Reboot,
       Runtime!Forget, Runtime!disk
<1> QED BY <1>2, <1>3, <1>4, <1>5, <1>6, <1>7 DEF Runtime!Next, Runtime!Loops

-----------------------------------------------------------------------------
(* The counters of fixed devices                                           *)

\* The counters between two steps of a poll, as long as nothing failed: those of the last
\* poll, those of both, those of this one.
Steps == {"reconcile", "prune", "read"}
Counted(ips) == DOMAIN counters = Devices!Of(ips)
PollInv ==
    /\ reserved \in [Slug -> SUBSET Ip] /\ known \subseteq Ip
    /\ poll \in [step : Steps, ips : SUBSET Ip] \cup {None}
    /\ chain \in [Devices!Name -> {0, 1}] /\ moved \in [Devices!Name -> Nat]
    /\ DOMAIN counters \subseteq Devices!Name /\ failures \in Nat
    /\ \A n \in DOMAIN counters : counters[n] \in Nat /\ counters[n] <= moved[n]
    /\ failures = 0 =>
        /\ poll = None => Counted(known)
        /\ poll # None /\ poll.step = "reconcile" => Counted(known)
        /\ poll # None /\ poll.step = "prune" =>
              Counted(known \cup poll.ips) /\ chain = Devices!Reconciled(poll.ips)
        /\ poll # None /\ poll.step = "read" => Counted(poll.ips)

LEMMA PollStays == ASSUME PollInv, Devices!Next PROVE PollInv'
<1> USE NoneAssumption DEF PollInv, Counted, Steps, Devices!Name, Devices!Of
<1>1. CASE Devices!Begin
  BY <1>1 DEF Devices!Begin, Devices!Addresses
<1>2. CASE Devices!BeginFails
  BY <1>2 DEF Devices!BeginFails, Devices!Fault
<1>3. CASE Devices!Reconcile
  <2>1. /\ poll \in [step : Steps, ips : SUBSET Ip] /\ poll.step = "reconcile"
        /\ poll' = [poll EXCEPT !.step = "prune"]
        /\ UNCHANGED <<reserved, known, report, changes>>
    BY <1>3 DEF Devices!Reconcile
  <2>2. /\ poll' \in [step : Steps, ips : SUBSET Ip]
        /\ poll'.step = "prune" /\ poll'.ips = poll.ips /\ poll.ips \subseteq Ip
    BY <2>1
  <2>3. CASE Devices!Fault /\ UNCHANGED <<chain, counters, moved>>
    BY <2>1, <2>2, <2>3 DEF Devices!Fault
  <2>4. CASE /\ chain' = Devices!Reconciled(poll.ips) /\ counters' = Devices!Created(poll.ips)
             /\ moved' = [n \in Devices!Name |-> IF n \in DOMAIN counters THEN moved[n] ELSE 0]
             /\ UNCHANGED failures
    <3>1. /\ DOMAIN counters' = DOMAIN counters \cup Devices!Of(poll.ips)
          /\ \A n \in DOMAIN counters' :
                counters'[n] = IF n \in DOMAIN counters THEN counters[n] ELSE 0
      BY <2>4 DEF Devices!Created
    <3>2. chain' \in [Devices!Name -> {0, 1}] /\ moved' \in [Devices!Name -> Nat]
      BY <2>4 DEF Devices!Reconciled
    <3>3. DOMAIN counters' \subseteq Devices!Name
      BY <3>1, <2>2
    <3>4. \A n \in DOMAIN counters' : counters'[n] \in Nat /\ counters'[n] <= moved'[n]
      BY <3>1, <3>3, <2>4
    <3>5. failures' = 0 => Counted(known \cup poll.ips)'
      BY <3>1, <2>1, <2>2, <2>4
    <3>6. chain' = Devices!Reconciled(poll.ips)'
      BY <2>2, <2>4 DEF Devices!Reconciled
    <3> QED BY <3>2, <3>3, <3>4, <3>5, <3>6, <2>1, <2>2, <2>4
  <2> QED BY <1>3, <2>3, <2>4 DEF Devices!Reconcile
<1>4. CASE Devices!Prune
  <2> DEFINE stale == known \ poll.ips
  <2>1. /\ poll \in [step : Steps, ips : SUBSET Ip] /\ poll.step = "prune"
        /\ poll' = [poll EXCEPT !.step = "read"]
        /\ UNCHANGED <<reserved, chain, known, report, moved, changes>>
    BY <1>4 DEF Devices!Prune
  <2>2. /\ poll' \in [step : Steps, ips : SUBSET Ip]
        /\ poll'.step = "read" /\ poll'.ips = poll.ips /\ poll.ips \subseteq Ip
    BY <2>1
  <2>3. CASE Devices!Fault /\ UNCHANGED counters
    BY <2>1, <2>2, <2>3 DEF Devices!Fault
  <2>4. failures = 0 => Devices!Prunable(stale)
    BY <2>1 DEF Devices!Prunable, Devices!Reconciled
  <2>5. CASE ~Devices!Prunable(stale) /\ UNCHANGED <<counters, failures>>
    BY <2>1, <2>2, <2>4, <2>5
  <2>6. CASE /\ Devices!Prunable(stale) /\ UNCHANGED failures
             /\ counters' = [n \in DOMAIN counters \ Devices!Of(stale) |-> counters[n]]
    <3>1. /\ DOMAIN counters' = DOMAIN counters \ Devices!Of(stale)
          /\ \A n \in DOMAIN counters' : counters'[n] = counters[n]
      BY <2>6
    <3>2. failures' = 0 => Counted(poll.ips)'
      BY <3>1, <2>1, <2>2, <2>6
    <3> QED BY <3>1, <3>2, <2>1, <2>2, <2>6
  <2> QED BY <1>4, <2>3, <2>5, <2>6 DEF Devices!Prune
<1>5. CASE Devices!Read
  BY <1>5 DEF Devices!Read, Devices!Fault
<1>6. ASSUME NEW n \in Devices!Name, Devices!Transfer(n) PROVE PollInv'
  BY <1>6 DEF Devices!Transfer
<1>7. CASE Devices!Push
  BY <1>7 DEF Devices!Push
<1>8. CASE Devices!Die
  BY <1>8 DEF Devices!Die, Devices!Fault
<1> QED BY <1>1, <1>2, <1>3, <1>4, <1>5, <1>6, <1>7, <1>8 DEF Devices!Next

-----------------------------------------------------------------------------
(* Caps                                                                    *)

Shaping == {"clear", "class", "filter"}
Loops == {"metering", "tick"}

\* What the control task is at.
AtGrant == control # None /\ control.do \in Shaping
AtEnd   == control # None /\ control.do \in {"unshape", "list", "call"}

Ending  == [do : {"unshape"}, mac : Mac, off : BOOLEAN] \cup [do : {"list"}, mac : Mac]
Calling == [do : {"call"}, mac : Mac, todo : SUBSET AccessPoints, hits : Nat, failed : BOOLEAN,
            listed : BOOLEAN, broken : BOOLEAN, moved : BOOLEAN]

EffectTypes ==
    /\ shaping \in BOOLEAN /\ minor \in [Mac -> 2..3] /\ limit \in [Mac -> Rates \cup {0, None}]
    /\ class \in [2..3 -> Rates \cup {None}] /\ steered \subseteq Mac /\ spoilt \subseteq Mac
    /\ ending \in [Loops -> SUBSET Mac]
    /\ control # None => AtGrant \/ AtEnd
    /\ AtGrant => control \in [do : Shaping, mac : Mac, rate : Rates]
    /\ AtEnd => control \in Ending \cup Calling /\ limit[control.mac] = None

\* A session whose cap is vouched for.
Sound(m) == limit[m] # None /\ m \notin spoilt

\* Nobody else has its class, or is about to have it or to take it away,
AloneInv ==
    \A m \in Mac : Sound(m) =>
        /\ \A n \in Mac \ {m} : minor[n] = minor[m] => limit[n] = None
        /\ \A loop \in Loops : \A n \in ending[loop] : minor[n] # minor[m]
        /\ control # None /\ control.mac # m /\ control.do \in Shaping \cup {"unshape"}
              => minor[control.mac] # minor[m]

\* and its grant has come so far.
GrantInv ==
    \A m \in Mac : Sound(m) /\ AtGrant /\ control.mac = m =>
        /\ control.rate = limit[m] /\ (control.do = "clear" <=> limit[m] = 0)
        /\ shaping /\ control.do = "filter" => class[minor[m]] = limit[m]

CapInv == EffectTypes /\ AloneInv /\ GrantInv /\ Effects!CapKept

\* The way off the Wi-Fi has nothing to do with caps.
LEMMA CapAside ==
    ASSUME CapInv, UNCHANGED <<shaping, minor, limit, class, steered, spoilt, ending>>, AtEnd,
           \/ control' = None
           \/ control' \in Calling /\ control'.mac = control.mac
    PROVE  CapInv'
<1> USE NoneAssumption DEF CapInv, AtEnd, Sound, Shaping, Loops
<1>0. limit[control.mac] = None
  BY DEF EffectTypes
<1>1. ~AtGrant' /\ EffectTypes' /\ (control' # None => control'.do = "call")
  BY DEF EffectTypes, AtGrant, Ending, Calling
<1>2. AloneInv'
  BY <1>1 DEF AloneInv
<1>3. Effects!CapKept'
  BY <1>0 DEF Effects!CapKept
<1> QED BY <1>1, <1>2, <1>3 DEF GrantInv

LEMMA EndMac == ASSUME EffectTypes, AtEnd PROVE control.mac \in Mac
BY DEF EffectTypes, Ending, Calling

\* A class is taken away, or cannot be, of a client whose session is over or has no cap.
LEMMA ClearIs ==
    ASSUME CapInv, NEW m \in Mac, Effects!Clear(m)
    PROVE  /\ class' \in [2..3 -> Rates \cup {None}] /\ steered' \subseteq steered
           /\ spoilt \subseteq spoilt' /\ spoilt' \subseteq Mac
           /\ \A n \in Mac : minor[n] # minor[m] =>
                 class'[minor[n]] = class[minor[n]] /\ (n \in steered' <=> n \in steered)
           /\ limit[m] # None /\ m \notin spoilt' /\ shaping => class'[minor[m]] = None
<1> USE DEF CapInv, EffectTypes
<1>1. CASE ~shaping
  BY <1>1 DEF Effects!Clear, Effects!tc
<1>2. CASE shaping /\ Effects!DeleteClass(m)
  BY <1>2 DEF Effects!DeleteClass, Effects!Sharing
<1>3. CASE shaping /\ Effects!Fails(m)
  BY <1>3 DEF Effects!Fails, Effects!tc, Effects!Users, Effects!Sharing
<1> QED BY <1>1, <1>2, <1>3 DEF Effects!Clear

LEMMA CapStays == ASSUME CapInv, Effects!Next PROVE CapInv'
<1> USE NoneAssumption DEF CapInv, EffectTypes, AtGrant, AtEnd, Sound, Shaping, Loops, Ending
<1>1. ASSUME NEW m \in Mac, Effects!Grant(m) PROVE CapInv'
  <2>1. PICK rate \in Rates :
          /\ limit' = [limit EXCEPT ![m] = rate]
          /\ control' = [do |-> IF rate = 0 THEN "clear" ELSE "class", mac |-> m, rate |-> rate]
    BY <1>1 DEF Effects!Grant
  <2>2. control = None /\ UNCHANGED <<shaping, minor, class, steered, ending>>
    BY <1>1 DEF Effects!Grant, Effects!tc
  <2> DEFINE others == Effects!Users(m) \ {m}
             alone == others = {} /\ \A loop \in DOMAIN ending : ending[loop] \cap Effects!Sharing(m) = {}
  <2>3. spoilt' = IF alone THEN spoilt \ {m} ELSE spoilt \cup {m} \cup others
    BY <1>1 DEF Effects!Grant
  <2>4. others = {n \in Mac \ {m} : minor[n] = minor[m] /\ limit[n] # None}
    BY DEF Effects!Users, Effects!Sharing
  <2>5. alone <=> /\ \A n \in Mac \ {m} : minor[n] = minor[m] => limit[n] = None
                  /\ \A loop \in Loops : \A n \in ending[loop] : minor[n] # minor[m]
    BY <2>4 DEF Effects!Sharing
  <2> HIDE DEF alone, others
  <2>6. control' \in [do : Shaping, mac : Mac, rate : Rates] /\ control' # None
    BY <2>1
  <2>7. EffectTypes'
    BY <2>1, <2>2, <2>3, <2>4, <2>6
  <2>8. \A n \in Mac \ {m} : Sound(n)' => Sound(n) /\ minor[n] # minor[m] /\ limit'[n] = limit[n]
    BY <2>1, <2>2, <2>3, <2>4, <2>5 DEF AloneInv
  <2>9. Sound(m)' => alone
    BY <2>3
  <2>10. AloneInv'
    BY <2>1, <2>2, <2>5, <2>8, <2>9 DEF AloneInv
  <2>11. GrantInv'
    BY <2>1, <2>6 DEF GrantInv
  <2>12. Effects!CapKept'
    BY <2>1, <2>2, <2>6, <2>8 DEF Effects!CapKept
  <2> QED BY <2>7, <2>10, <2>11, <2>12
<1>2. ASSUME NEW m \in Mac, Effects!Revoke(m) PROVE CapInv'
  <2>1. PICK off \in BOOLEAN : control' = [do |-> "unshape", mac |-> m, off |-> off]
    BY <1>2 DEF Effects!Revoke
  <2>2. /\ control = None /\ limit' = [limit EXCEPT ![m] = None]
        /\ UNCHANGED <<shaping, minor, class, steered, ending>>
        /\ spoilt' = spoilt \cup {n \in Mac \ {m} : minor[n] = minor[m] /\ limit[n] # None}
    BY <1>2 DEF Effects!Revoke, Effects!tc, Effects!Users, Effects!Sharing
  <2>3. \A n \in Mac : Sound(n)' => Sound(n) /\ minor[n] # minor[m] /\ limit'[n] = limit[n]
    BY <2>2
  <2> QED BY <2>1, <2>2, <2>3 DEF AloneInv, GrantInv, Effects!CapKept
<1>3. ASSUME NEW m \in Mac, Effects!Roam(m) PROVE CapInv'
  <2>1. UNCHANGED <<shaping, minor, limit, class, steered, spoilt, ending>>
    BY <1>3 DEF Effects!Roam, Effects!tc
  <2>2. CASE control' = control
    BY <2>1, <2>2 DEF AloneInv, GrantInv, Effects!CapKept
  <2>3. CASE control # None /\ control.do = "call" /\ control' = [control EXCEPT !.moved = TRUE]
    <3>1. control \in Calling
      BY <2>3
    <3>2. control' \in Calling /\ control'.mac = control.mac
      BY <2>3, <3>1 DEF Calling
    <3> QED BY <2>1, <2>3, <3>2, CapAside
  <2> QED BY <1>3, <2>2, <2>3 DEF Effects!Roam
<1>4. CASE Effects!ApplyUnlimited
  <2>1. /\ AtGrant /\ control.do = "clear" /\ control' = None /\ control.mac \in Mac
        /\ UNCHANGED <<shaping, minor, limit, ending>> /\ Effects!Clear(control.mac)
    BY <1>4 DEF Effects!ApplyUnlimited
  <2>2. EffectTypes'
    BY <2>1, ClearIs
  <2>3. AloneInv' /\ GrantInv'
    BY <2>1, ClearIs DEF AloneInv, GrantInv
  <2>4. Effects!CapKept'
    BY <2>1, ClearIs DEF AloneInv, GrantInv, Effects!CapKept
  <2> QED BY <2>2, <2>3, <2>4
<1>5. CASE Effects!ApplyClass
  <2>1. /\ AtGrant /\ control.do = "class" /\ control.mac \in Mac /\ control.rate \in Rates
        /\ UNCHANGED <<shaping, minor, limit, ending>>
    BY <1>5 DEF Effects!ApplyClass
  <2>2. CASE /\ shaping /\ Effects!ReplaceClass(control.mac, control.rate)
             /\ control' = [control EXCEPT !.do = "filter"]
    <3>1. /\ class' = [class EXCEPT ![minor[control.mac]] = control.rate]
          /\ UNCHANGED <<steered, spoilt>>
      BY <2>2 DEF Effects!ReplaceClass
    <3>2. /\ control' \in [do : Shaping, mac : Mac, rate : Rates] /\ control' # None
          /\ control'.do = "filter" /\ control'.mac = control.mac /\ control'.rate = control.rate
      BY <2>1, <2>2
    <3>3. EffectTypes'
      BY <2>1, <3>1, <3>2
    <3>4. AloneInv' /\ GrantInv'
      BY <2>1, <3>1, <3>2 DEF AloneInv, GrantInv
    <3>5. Effects!CapKept'
      BY <2>1, <3>1, <3>2 DEF AloneInv, Effects!CapKept
    <3> QED BY <3>3, <3>4, <3>5
  <2>3. CASE /\ IF shaping THEN Effects!Fails(control.mac)
                 ELSE UNCHANGED <<class, steered, errors, spoilt>>
             /\ control' = None
    <3>1. /\ UNCHANGED <<class, steered>> /\ spoilt \subseteq spoilt' /\ spoilt' \subseteq Mac
          /\ shaping /\ limit[control.mac] # None => control.mac \in spoilt'
      BY <2>1, <2>3 DEF Effects!Fails, Effects!tc, Effects!Users, Effects!Sharing
    <3> QED BY <2>1, <2>3, <3>1 DEF AloneInv, GrantInv, Effects!CapKept
  <2> QED BY <1>5, <2>2, <2>3 DEF Effects!ApplyClass, Effects!tc
<1>6. CASE Effects!ApplyFilter
  <2>1. /\ AtGrant /\ control.do = "filter" /\ control' = None /\ control.mac \in Mac
        /\ UNCHANGED <<shaping, minor, limit, ending>>
    BY <1>6 DEF Effects!ApplyFilter
  <2>2. CASE Effects!ReplaceFilter(control.mac)
    <3>1. steered' = steered \cup {control.mac} /\ UNCHANGED <<class, spoilt>>
      BY <2>2 DEF Effects!ReplaceFilter
    <3> QED BY <2>1, <3>1 DEF AloneInv, GrantInv, Effects!CapKept
  <2>3. CASE Effects!Fails(control.mac)
    <3>1. /\ UNCHANGED <<class, steered>> /\ spoilt \subseteq spoilt' /\ spoilt' \subseteq Mac
          /\ limit[control.mac] # None => control.mac \in spoilt'
      BY <2>1, <2>3 DEF Effects!Fails, Effects!tc, Effects!Users, Effects!Sharing
    <3> QED BY <2>1, <3>1 DEF AloneInv, GrantInv, Effects!CapKept
  <2> QED BY <1>6, <2>2, <2>3 DEF Effects!ApplyFilter
<1>7. CASE Effects!Unshape
  <2>1. /\ AtEnd /\ control.do = "unshape" /\ control.mac \in Mac /\ limit[control.mac] = None
        /\ UNCHANGED <<shaping, minor, limit, ending>> /\ Effects!Clear(control.mac)
        /\ \/ control' = None
           \/ control' = [do |-> "list", mac |-> control.mac]
    BY <1>7, EndMac DEF Effects!Unshape
  <2>2. EffectTypes'
    BY <2>1, ClearIs
  <2>3. AloneInv' /\ GrantInv'
    BY <2>1, ClearIs DEF AloneInv, GrantInv
  <2>4. Effects!CapKept'
    BY <2>1, ClearIs DEF AloneInv, Effects!CapKept
  <2> QED BY <2>2, <2>3, <2>4
<1>8. CASE Effects!List
  <2>1. AtEnd /\ control.mac \in Mac
    BY <1>8, EndMac DEF Effects!List
  <2> DEFINE call == [do |-> "call", mac |-> control.mac, todo |-> Effects!HostapdObjects,
                      hits |-> 0, failed |-> FALSE, listed |-> TRUE, broken |-> FALSE,
                      moved |-> FALSE]
  <2>2. /\ call \in Calling /\ call.mac = control.mac
        /\ [call EXCEPT !.todo = {}, !.listed = FALSE] \in Calling
        /\ [call EXCEPT !.todo = {}, !.listed = FALSE].mac = control.mac
    BY <2>1 DEF Effects!HostapdObjects, Calling
  <2>3. control' = call \/ control' = [call EXCEPT !.todo = {}, !.listed = FALSE]
    BY <1>8 DEF Effects!List
  <2> HIDE DEF call
  <2>4. control' \in Calling /\ control'.mac = control.mac
    BY <2>2, <2>3
  <2> QED BY <1>8, <2>1, <2>4, CapAside DEF Effects!List, Effects!tc
<1>9. ASSUME NEW ap \in AccessPoints, Effects!DelClient(ap) PROVE CapInv'
  <2>1. control \in Calling
    BY <1>9 DEF Effects!DelClient
  <2> DEFINE next == [control EXCEPT !.todo = @ \ {ap}]
  <2>2. next \in Calling /\ next.mac = control.mac /\ next.hits \in Nat
    BY <2>1 DEF Calling
  <2>3. \/ control' = [next EXCEPT !.hits = @ + 1]
        \/ control' = [next EXCEPT !.failed = TRUE]
        \/ control' = [next EXCEPT !.failed = TRUE, !.broken = TRUE]
    BY <1>9 DEF Effects!DelClient
  <2>4. control' \in Calling /\ control'.mac = control.mac
    <3> HIDE DEF next
    <3>1. CASE control' = [next EXCEPT !.hits = @ + 1]
      BY <2>2, <3>1 DEF Calling
    <3>2. CASE control' = [next EXCEPT !.failed = TRUE]
      BY <2>2, <3>2 DEF Calling
    <3>3. CASE control' = [next EXCEPT !.failed = TRUE, !.broken = TRUE]
      BY <2>2, <3>3 DEF Calling
    <3> QED BY <2>3, <3>1, <3>2, <3>3
  <2> QED BY <1>9, <2>4, CapAside DEF Effects!DelClient, Effects!tc
<1>10. CASE Effects!Deauthenticated
  BY <1>10, CapAside DEF Effects!Deauthenticated, Effects!tc
<1>11. ASSUME NEW loop \in DOMAIN ending, Effects!UnshapeNext(loop) PROVE CapInv'
  <2>1. PICK m \in ending[loop] : Effects!Clear(m) /\ ending' = [ending EXCEPT ![loop] = @ \ {m}]
    BY <1>11 DEF Effects!UnshapeNext
  <2>2. m \in Mac /\ UNCHANGED <<shaping, minor, limit, control>>
    BY <1>11, <2>1 DEF Effects!UnshapeNext
  <2>3. \A n \in Mac : Sound(n)' => Sound(n) /\ minor[n] # minor[m]
    BY <2>1, <2>2, ClearIs DEF AloneInv
  <2>4. EffectTypes'
    BY <2>1, <2>2, ClearIs
  <2>5. AloneInv'
    BY <2>1, <2>2, <2>3 DEF AloneInv
  <2>6. GrantInv' /\ Effects!CapKept'
    BY <2>1, <2>2, <2>3, ClearIs DEF GrantInv, Effects!CapKept
  <2> QED BY <2>4, <2>5, <2>6
<1>12. ASSUME NEW loop \in DOMAIN ending, NEW gone \in SUBSET Mac, Effects!Remove(loop, gone) PROVE CapInv'
  <2>1. /\ \A m \in gone : limit[m] # None
        /\ limit' = [m \in Mac |-> IF m \in gone THEN None ELSE limit[m]]
        /\ ending' = [ending EXCEPT ![loop] = gone]
        /\ UNCHANGED <<shaping, minor, class, steered, control>>
    BY <1>12 DEF Effects!Remove, Effects!tc
  <2>2. spoilt' = spoilt \cup {n \in Mac : limit[n] # None /\ \E m \in gone : minor[n] = minor[m]}
    BY <1>12 DEF Effects!Remove, Effects!Users, Effects!Sharing
  <2>3. \A n \in Mac : Sound(n)' => /\ Sound(n) /\ limit'[n] = limit[n]
                                    /\ \A m \in gone : minor[n] # minor[m]
    BY <2>1, <2>2
  <2>4. EffectTypes'
    BY <2>1, <2>2, EndMac
  <2>5. AloneInv'
    BY <2>1, <2>3 DEF AloneInv
  <2>6. GrantInv' /\ Effects!CapKept'
    BY <2>1, <2>3 DEF GrantInv, Effects!CapKept
  <2> QED BY <2>4, <2>5, <2>6
<1>13. CASE Effects!Rearm
  BY <1>13 DEF Effects!Rearm, Effects!tc, Effects!bounds, AloneInv, GrantInv, Effects!CapKept
<1>14. CASE Effects!Restart
  BY <1>14 DEF Effects!Restart, Effects!tc, AloneInv, GrantInv, Effects!CapKept
<1> QED
  BY <1>1, <1>2, <1>3, <1>4, <1>5, <1>6, <1>7, <1>8, <1>9, <1>10, <1>11, <1>12, <1>13, <1>14
     DEF Effects!Next
-----------------------------------------------------------------------------
(* The way off the Wi-Fi                                                   *)

\* In a round that has its list, for a client that stays where it is: a call that worked has
\* put it off the air, and as long as no call failed that should not, the access point that
\* has it is still to be asked.
RoundInv ==
    /\ Effects!OffAir /\ air \in [Mac -> AccessPoints \cup {None}]
    /\ control # None /\ control.do = "call" /\ control.listed /\ ~control.moved =>
          /\ control.hits > 0 => air[control.mac] = None
          /\ control.broken => control.failed
          /\ ~control.broken /\ air[control.mac] # None => air[control.mac] \in control.todo

LEMMA CallIs ==
    ASSUME CapInv, control # None, control.do = "call"
    PROVE  control \in Calling
BY DEF CapInv, EffectTypes, AtGrant, AtEnd, Shaping, Ending

LEMMA RoundStays == ASSUME CapInv, CapInv', RoundInv, Effects!Next PROVE RoundInv'
<1> USE PartsAssumption, NoneAssumption DEF RoundInv
<1>1. CASE UNCHANGED <<air, left>> /\ (control' = control \/ control' = None \/ control'.do # "call")
  BY <1>1 DEF Effects!OffAir
<1>2. ASSUME NEW m \in Mac, Effects!Grant(m) \/ Effects!Revoke(m) PROVE RoundInv'
  BY <1>1, <1>2 DEF Effects!Grant, Effects!Revoke
<1>3. ASSUME NEW m \in Mac, Effects!Roam(m) PROVE RoundInv'
  <2>1. /\ left' = left /\ air' \in [Mac -> AccessPoints \cup {None}]
        /\ \A n \in Mac \ {m} : air'[n] = air[n]
    BY <1>3 DEF Effects!Roam
  <2>2. CASE control # None /\ control.do = "call" /\ control.mac = m
    <3>1. control \in Calling /\ control' = [control EXCEPT !.moved = TRUE]
      BY <1>3, <2>2, CallIs DEF Effects!Roam
    <3>2. control'.moved
      BY <3>1 DEF Calling
    <3> QED BY <2>1, <3>2 DEF Effects!OffAir
  <2>3. CASE ~(control # None /\ control.do = "call" /\ control.mac = m)
    <3>1. control' = control
      BY <1>3, <2>3 DEF Effects!Roam
    <3>2. control # None /\ control.do = "call" => control.mac \in Mac \ {m}
      BY <2>3, CallIs DEF Calling
    <3> QED BY <2>1, <3>1, <3>2 DEF Effects!OffAir
  <2> QED BY <2>2, <2>3
<1>4. CASE Effects!ApplyUnlimited \/ Effects!ApplyFilter
  BY <1>1, <1>4 DEF Effects!ApplyUnlimited, Effects!ApplyFilter
<1>5. CASE Effects!ApplyClass
  <2>1. control \in [do : Shaping, mac : Mac, rate : Rates]
    BY <1>5 DEF Effects!ApplyClass, CapInv, EffectTypes, AtGrant, Shaping
  <2>2. /\ UNCHANGED <<air, left>>
        /\ control' = None \/ control' = [control EXCEPT !.do = "filter"]
    BY <1>5 DEF Effects!ApplyClass
  <2>3. [control EXCEPT !.do = "filter"].do = "filter"
    BY <2>1
  <2> QED BY <1>1, <2>2, <2>3
<1>7. CASE Effects!Unshape
  BY <1>1, <1>7 DEF Effects!Unshape
<1>8. CASE Effects!List
  <2>1. AtEnd /\ control.mac \in Mac
    BY <1>8, EndMac DEF Effects!List, CapInv, AtEnd
  <2> DEFINE call == [do |-> "call", mac |-> control.mac, todo |-> Effects!HostapdObjects,
                      hits |-> 0, failed |-> FALSE, listed |-> TRUE, broken |-> FALSE,
                      moved |-> FALSE]
  <2>2. UNCHANGED <<air, left>>
    BY <1>8 DEF Effects!List
  <2>3. CASE control' = call
    <3>1. air[control.mac] # None => air[control.mac] \in Effects!HostapdObjects
      BY <2>1 DEF Effects!HostapdObjects
    <3> QED BY <2>2, <2>3, <3>1 DEF Effects!OffAir
  <2>4. CASE control' = [call EXCEPT !.todo = {}, !.listed = FALSE]
    <3>1. ~control'.listed
      BY <2>4
    <3> QED BY <2>2, <3>1 DEF Effects!OffAir
  <2> QED BY <1>8, <2>3, <2>4 DEF Effects!List
<1>9. ASSUME NEW ap \in AccessPoints, Effects!DelClient(ap) PROVE RoundInv'
  <2> DEFINE next == [control EXCEPT !.todo = @ \ {ap}]
  <2>1. control # None /\ control \in Calling /\ left' = left /\ control.do = "call"
    BY <1>9, CallIs DEF Effects!DelClient
  <2>2. next \in Calling /\ next.todo = control.todo \ {ap}
        /\ \A f \in {"mac", "hits", "failed", "listed", "broken", "moved"} : next[f] = control[f]
    BY <2>1 DEF Calling
  <2>3. \/ /\ air[control.mac] = ap /\ air' = [air EXCEPT ![control.mac] = None]
           /\ control' = [next EXCEPT !.hits = @ + 1]
        \/ air[control.mac] # ap /\ control' = [next EXCEPT !.failed = TRUE] /\ air' = air
        \/ control' = [next EXCEPT !.failed = TRUE, !.broken = TRUE] /\ air' = air
    BY <1>9 DEF Effects!DelClient
  <2> HIDE DEF next
  <2>4. CASE /\ air[control.mac] = ap /\ air' = [air EXCEPT ![control.mac] = None]
             /\ control' = [next EXCEPT !.hits = @ + 1]
    <3>1. control'.mac = control.mac /\ control.mac \in Mac /\ control'.broken = control.broken
          /\ control'.failed = control.failed /\ control'.listed = control.listed
          /\ control'.moved = control.moved
      BY <2>1, <2>2, <2>4 DEF Calling
    <3>2. air'[control.mac] = None /\ air' \in [Mac -> AccessPoints \cup {None}]
      BY <3>1, <2>4
    <3> QED BY <2>1, <3>1, <3>2 DEF Effects!OffAir
  <2>5. CASE air[control.mac] # ap /\ control' = [next EXCEPT !.failed = TRUE] /\ air' = air
    <3>1. control'.mac = control.mac /\ control'.broken = control.broken /\ control'.failed
          /\ control'.hits = control.hits /\ control'.todo = control.todo \ {ap}
          /\ control'.listed = control.listed /\ control'.moved = control.moved
      BY <2>1, <2>2, <2>5 DEF Calling
    <3> QED BY <2>1, <2>5, <3>1 DEF Effects!OffAir
  <2>6. CASE control' = [next EXCEPT !.failed = TRUE, !.broken = TRUE] /\ air' = air
    <3>1. control'.mac = control.mac /\ control'.broken /\ control'.failed
          /\ control'.hits = control.hits
          /\ control'.listed = control.listed /\ control'.moved = control.moved
      BY <2>1, <2>2, <2>6 DEF Calling
    <3> QED BY <2>1, <2>6, <3>1 DEF Effects!OffAir
  <2> QED BY <2>3, <2>4, <2>5, <2>6
<1>10. CASE Effects!Deauthenticated
  <2>1. /\ control # None /\ control.do = "call" /\ control \in Calling
        /\ control.todo = {} /\ control' = None /\ air' = air
        /\ left' = [told |-> IF control.hits > 0 \/ ~control.failed THEN "ok" ELSE "error",
                    listed |-> control.listed, broken |-> control.broken,
                    moved |-> control.moved, air |-> air[control.mac]]
    BY <1>10, CallIs DEF Effects!Deauthenticated, Effects!Left
  <2> QED BY <2>1 DEF Effects!OffAir
<1>11. ASSUME NEW loop \in DOMAIN ending, NEW gone \in SUBSET Mac,
              Effects!UnshapeNext(loop) \/ Effects!Remove(loop, gone)
       PROVE  RoundInv'
  BY <1>1, <1>11 DEF Effects!UnshapeNext, Effects!Remove
<1>13. CASE Effects!Rearm
  BY <1>1, <1>13 DEF Effects!Rearm
<1>14. CASE Effects!Restart
  BY <1>1, <1>14 DEF Effects!Restart
<1> QED
  BY <1>2, <1>3, <1>4, <1>5, <1>7, <1>8, <1>9, <1>10, <1>11, <1>13, <1>14 DEF Effects!Next
-----------------------------------------------------------------------------
(* The way to the portal                                                   *)

\* What a concatenation consists of.
ConcatIs(r, s, t) ==
    /\ Len(r) = Len(s) + Len(t)
    /\ \A n \in 1..Len(s) : r[n] = s[n]
    /\ \A n \in 1..Len(t) : r[Len(s) + n] = t[n]

LEMMA Concat ==
    ASSUME NEW S, NEW s \in Seq(S), NEW t \in Seq(S)
    PROVE  s \o t \in Seq(S) /\ ConcatIs(s \o t, s, t)
BY DEF ConcatIs

\* A parameter: its key, "=", its value.
LEMMA ParameterIs ==
    ASSUME NEW S, NEW key, NEW v \in Seq(S), Portal!Char(key) \in S, Portal!Char("=") \in S
    PROVE  LET p == Portal!Parameter(key, v)
           IN  /\ p \in Seq(S) /\ Len(p) = Len(v) + 2
               /\ p[1] = Portal!Char(key) /\ p[2] = Portal!Char("=")
               /\ \A n \in 1..Len(v) : p[n + 2] = v[n]
<1> DEFINE e == <<Portal!Char(key), Portal!Char("=")>>
           p == Portal!Parameter(key, v)
<1>1. e \in Seq(S) /\ Len(e) = 2 /\ e[1] = Portal!Char(key) /\ e[2] = Portal!Char("=")
  OBVIOUS
<1>2. p = e \o v
  BY DEF Portal!Parameter
<1> HIDE DEF e, p
<1>3. p \in Seq(S) /\ ConcatIs(p, e, v)
  BY <1>1, <1>2, Concat
<1> QED BY <1>1, <1>3 DEF p, ConcatIs

\* Two parts with a "&" between them.
Joined(s, t) == s \o <<Portal!Char("&")>> \o t

JoinedFrom(q, s, t) ==
    /\ Len(q) = Len(s) + 1 + Len(t)
    /\ \A n \in 1..Len(s) : q[n] = s[n]
    /\ q[Len(s) + 1] = Portal!Char("&")
    /\ \A n \in 1..Len(t) : q[Len(s) + 1 + n] = t[n]

LEMMA JoinedIs ==
    ASSUME NEW S, NEW s \in Seq(S), NEW t \in Seq(S), Portal!Char("&") \in S
    PROVE  Joined(s, t) \in Seq(S) /\ JoinedFrom(Joined(s, t), s, t)
<1> DEFINE a == <<Portal!Char("&")>>
           sa == s \o a
           q == Joined(s, t)
<1>1. a \in Seq(S) /\ Len(a) = 1 /\ a[1] = Portal!Char("&")
  OBVIOUS
<1>2. q = sa \o t
  BY DEF Joined
<1> HIDE DEF a, q
<1>3. sa \in Seq(S) /\ ConcatIs(sa, s, a)
  BY <1>1, Concat
<1> HIDE DEF sa
<1>4. q \in Seq(S) /\ ConcatIs(q, sa, t)
  BY <1>2, <1>3, Concat
<1>5. JoinedFrom(q, s, t)
  BY <1>1, <1>3, <1>4 DEF ConcatIs, JoinedFrom
<1> QED BY <1>4, <1>5 DEF q

\* Where a query has a parameter with its value.
Part(q, pos, key, v) ==
    /\ pos + Len(v) + 2 <= Len(q)
    /\ q[pos + 1] = Portal!Char(key) /\ q[pos + 2] = Portal!Char("=")
    /\ \A n \in 1..Len(v) : q[pos + 2 + n] = v[n]

LEMMA PartStays ==
    ASSUME NEW S, NEW s \in Seq(S), NEW t \in Seq(S), Portal!Char("&") \in S,
           NEW pos \in Nat, NEW key, NEW v \in Seq(S), Part(s, pos, key, v)
    PROVE  Part(Joined(s, t), pos, key, v)
<1> DEFINE q == Joined(s, t)
<1>1. JoinedFrom(q, s, t)
  BY JoinedIs
<1> HIDE DEF q
<1>2. Len(s) \in Nat /\ Len(t) \in Nat /\ Len(v) \in Nat
  OBVIOUS
<1>3. pos + Len(v) + 2 <= Len(q) /\ \A n \in 1..pos + Len(v) + 2 : q[n] = s[n]
  BY <1>1, <1>2 DEF JoinedFrom, Part
<1>4. q[pos + 1] = s[pos + 1] /\ q[pos + 2] = s[pos + 2]
  <2>1. pos + 1 \in 1..pos + Len(v) + 2 /\ pos + 2 \in 1..pos + Len(v) + 2
    BY <1>2
  <2> QED BY <1>3, <2>1
<1>5. \A n \in 1..Len(v) : q[pos + 2 + n] = s[pos + 2 + n]
  BY <1>2, <1>3
<1>6. Part(q, pos, key, v)
  BY <1>3, <1>4, <1>5 DEF Part
<1> QED BY <1>6 DEF q

AddedTo(q, s, key, v) ==
    /\ Len(q) = Len(s) + Len(v) + 3
    /\ q[Len(s) + 1] = Portal!Char("&") /\ Part(q, Len(s) + 1, key, v)
    /\ \A n \in 1..Len(s) : q[n] = s[n]

LEMMA PartAdded ==
    ASSUME NEW S, NEW s \in Seq(S), NEW v \in Seq(S), NEW key, Portal!Char(key) \in S,
           Portal!Char("=") \in S, Portal!Char("&") \in S
    PROVE  /\ Joined(s, Portal!Parameter(key, v)) \in Seq(S)
           /\ AddedTo(Joined(s, Portal!Parameter(key, v)), s, key, v)
<1> DEFINE p == Portal!Parameter(key, v)
           q == Joined(s, p)
<1>1. /\ p \in Seq(S) /\ Len(p) = Len(v) + 2
      /\ p[1] = Portal!Char(key) /\ p[2] = Portal!Char("=")
      /\ \A n \in 1..Len(v) : p[n + 2] = v[n]
  BY ParameterIs
<1> HIDE DEF p
<1>2. q \in Seq(S) /\ JoinedFrom(q, s, p)
  BY <1>1, JoinedIs
<1> HIDE DEF q
<1>3. q[Len(s) + 2] = p[1] /\ q[Len(s) + 3] = p[2]
  BY <1>1, <1>2 DEF JoinedFrom
<1>4. \A n \in 1..Len(v) : q[Len(s) + 1 + 2 + n] = p[n + 2]
  BY <1>1, <1>2 DEF JoinedFrom
<1>5. Part(q, Len(s) + 1, key, v)
  BY <1>1, <1>2, <1>3, <1>4 DEF Part, JoinedFrom
<1>6. AddedTo(q, s, key, v)
  BY <1>1, <1>2, <1>5 DEF JoinedFrom, AddedTo
<1> QED BY <1>2, <1>6 DEF p, q

\* A query of four parameters, whose values have no "&".
Query(v, w, x, y) ==
    Joined(Joined(Joined(Portal!Parameter("mac", v), Portal!Parameter("nas_id", w)),
                  Portal!Parameter("ts", x)),
           Portal!Parameter("sig", y))

Plain(v) == \A n \in DOMAIN v : v[n] # Portal!Char("&")
Alphabet(S) == {Portal!Char(c) : c \in {"&", "=", "mac", "nas_id", "ts", "sig"}} \subseteq S
Decoded(v) == [n \in DOMAIN v |-> IF v[n][1] = "escape" THEN v[n][2] ELSE v[n]]

LEMMA QueryIs ==
    ASSUME NEW S, Alphabet(S), NEW v \in Seq(S), NEW w \in Seq(S), NEW x \in Seq(S), NEW y \in Seq(S)
    PROVE  LET q == Query(v, w, x, y)
               a == Len(v) + 3
               b == a + Len(w) + 3
               c == b + Len(x) + 3
           IN  /\ q \in Seq(S) /\ Len(q) = c + Len(y) + 2
               /\ q[a] = Portal!Char("&") /\ q[b] = Portal!Char("&") /\ q[c] = Portal!Char("&")
               /\ Part(q, 0, "mac", v) /\ Part(q, a, "nas_id", w) /\ Part(q, b, "ts", x)
               /\ Part(q, c, "sig", y)
<1> DEFINE p == Portal!Parameter("mac", v)
           q2 == Joined(p, Portal!Parameter("nas_id", w))
           q3 == Joined(q2, Portal!Parameter("ts", x))
           q == Joined(q3, Portal!Parameter("sig", y))
           a == Len(v) + 3
           b == a + Len(w) + 3
           c == b + Len(x) + 3
<1>0. \A k \in {"&", "=", "mac", "nas_id", "ts", "sig"} : Portal!Char(k) \in S
  BY DEF Alphabet
<1>1. p \in Seq(S) /\ Len(p) = Len(v) + 2 /\ Part(p, 0, "mac", v)
  <2>1. /\ p \in Seq(S) /\ Len(p) = Len(v) + 2
        /\ p[1] = Portal!Char("mac") /\ p[2] = Portal!Char("=")
        /\ \A n \in 1..Len(v) : p[n + 2] = v[n]
    BY <1>0, ParameterIs
  <2> HIDE DEF p
  <2> QED BY <2>1 DEF Part
<1> HIDE DEF p
<1>2. q2 \in Seq(S) /\ AddedTo(q2, p, "nas_id", w)
  BY <1>0, <1>1, PartAdded
<1>3. Part(q2, 0, "mac", v)
  <2>1. Portal!Parameter("nas_id", w) \in Seq(S)
    BY <1>0, ParameterIs
  <2> QED BY <1>0, <1>1, <2>1, PartStays
<1> HIDE DEF q2
<1>4. q3 \in Seq(S) /\ AddedTo(q3, q2, "ts", x)
  BY <1>0, <1>2, PartAdded
<1>5. Part(q3, 0, "mac", v) /\ Part(q3, Len(p) + 1, "nas_id", w)
  <2>1. Portal!Parameter("ts", x) \in Seq(S)
    BY <1>0, ParameterIs
  <2> QED BY <1>0, <1>1, <1>2, <1>3, <2>1, PartStays DEF AddedTo
<1> HIDE DEF q3
<1>6. q \in Seq(S) /\ AddedTo(q, q3, "sig", y)
  BY <1>0, <1>4, PartAdded
<1>7. Part(q, 0, "mac", v) /\ Part(q, Len(p) + 1, "nas_id", w) /\ Part(q, Len(q2) + 1, "ts", x)
  <2>1. Portal!Parameter("sig", y) \in Seq(S)
    BY <1>0, ParameterIs
  <2> QED BY <1>0, <1>1, <1>2, <1>4, <1>5, <2>1, PartStays DEF AddedTo
<1>8. q = Query(v, w, x, y)
  BY DEF Query, p, q2, q3
<1> HIDE DEF q
<1>9. /\ Len(p) + 1 = a /\ Len(q2) + 1 = b /\ Len(q3) + 1 = c /\ Len(q) = c + Len(y) + 2
  BY <1>1, <1>2, <1>4, <1>6 DEF AddedTo
<1>10. Len(p) \in Nat /\ Len(q2) \in Nat /\ Len(q3) \in Nat /\ Len(w) \in Nat /\ Len(x) \in Nat
  BY <1>1, <1>2, <1>4
<1> HIDE DEF a, b, c
<1>11. a \in 1..Len(q2) /\ b \in 1..Len(q3) /\ a \in 1..Len(q3)
  BY <1>2, <1>4, <1>9, <1>10 DEF AddedTo
<1>12. q[a] = Portal!Char("&") /\ q[b] = Portal!Char("&") /\ q[c] = Portal!Char("&")
  BY <1>2, <1>4, <1>6, <1>9, <1>11 DEF AddedTo
<1>13. Part(q, a, "nas_id", w) /\ Part(q, b, "ts", x) /\ Part(q, c, "sig", y)
  BY <1>6, <1>7, <1>9 DEF AddedTo
<1> QED BY <1>6, <1>7, <1>8, <1>9, <1>12, <1>13 DEF a, b, c

\* No ampersand is within a parameter.
LEMMA PartPlain ==
    ASSUME NEW S, NEW q \in Seq(S), NEW pos \in Nat, NEW v \in Seq(S),
           NEW key \in {"mac", "nas_id", "ts", "sig"}, Part(q, pos, key, v), Plain(v)
    PROVE  \A n \in Nat : pos < n /\ n < pos + Len(v) + 3 => q[n] # Portal!Char("&")
<1> SUFFICES ASSUME NEW n \in Nat, pos < n, n < pos + Len(v) + 3
             PROVE  q[n] # Portal!Char("&")
  OBVIOUS
<1>1. Portal!Char(key) # Portal!Char("&") /\ Portal!Char("=") # Portal!Char("&")
  BY DEF Portal!Char
<1>2. CASE n = pos + 1 \/ n = pos + 2
  BY <1>1, <1>2 DEF Part
<1>3. CASE n > pos + 2
  <2> DEFINE k == n - pos - 2
  <2>1. k \in 1..Len(v) /\ n = pos + 2 + k
    BY <1>3
  <2>2. k \in DOMAIN v
    BY <2>1
  <2> HIDE DEF k
  <2> QED BY <2>1, <2>2 DEF Part, Plain
<1> QED BY <1>2, <1>3

\* Where a query is cut, and that the parameter of a key, and no other, is from one place to
\* another.
Cuts(q) == {0, Len(q) + 1} \cup {n \in DOMAIN q : q[n] = Portal!Char("&")}
Begins(q, key, start) ==
    \A n \in Cuts(q) : n < Len(q) /\ q[n + 1] = Portal!Char(key) <=> n = start
Ends(q, start, end) == start < end /\ \A k \in Cuts(q) : k > start => k >= end

\* What is read under that key.
LEMMA ReadIs ==
    ASSUME NEW S, NEW q \in Seq(S), NEW key, NEW start \in Cuts(q), NEW end \in Cuts(q),
           Begins(q, key, start), Ends(q, start, end), NEW v \in Seq(S),
           Len(v) = end - start - 3, Part(q, start, key, v)
    PROVE  Portal!ValueOf(q, key) = Decoded(v)
<1> DEFINE c == Cuts(q)
           s == CHOOSE n \in c : n < Len(q) /\ q[n + 1] = Portal!Char(key)
           e == CHOOSE n \in c : n > s /\ \A k \in c : k > s => k >= n
           value == SubSeq(q, s + 3, e - 1)
<1>0. c \subseteq 0..Len(q) + 1 /\ Len(q) \in Nat
  BY DEF Cuts
<1> HIDE DEF c
<1>1. s = start
  BY DEF Begins, c
<1>2. \A n \in c : (n > start /\ \A k \in c : k > start => k >= n) <=> n = end
  BY <1>0 DEF Ends, c
<1>3. end \in c
  BY DEF c
<1>4. e = end
  BY <1>1, <1>2, <1>3
<1>5. value = v
  <2>1. end - 1 \in 0..Len(q) /\ start + 3 \in 1..(end - 1) + 1
    BY <1>0 DEF c
  <2>2. value = SubSeq(q, start + 3, end - 1)
    BY <1>1, <1>4
  <2> HIDE DEF value
  <2>3. /\ value \in Seq(S) /\ Len(value) = (end - 1) - (start + 3) + 1
        /\ \A n \in 1..Len(value) : value[n] = q[start + 3 + n - 1]
    BY <2>1, <2>2, SubSeqProperties
  <2>4. Len(value) = Len(v)
    BY <1>0, <2>3 DEF c
  <2>5. ASSUME NEW n \in 1..Len(v) PROVE value[n] = v[n]
    <3>1. start + 3 + n - 1 = start + 2 + n
      BY <1>0 DEF c
    <3>2. q[start + 2 + n] = v[n]
      BY DEF Part
    <3> QED BY <2>3, <2>4, <3>1, <3>2
  <2> QED BY <2>3, <2>4, <2>5
<1> HIDE DEF value
<1>6. Portal!ValueOf(q, key)
        = [n \in DOMAIN value |-> IF value[n][1] = "escape" THEN value[n][2] ELSE value[n]]
  BY DEF Portal!ValueOf, Cuts, c, value
<1> QED BY <1>5, <1>6 DEF Decoded

\* What is read from it is what the values decode to.
LEMMA ValuesAre ==
    ASSUME NEW S, Alphabet(S), NEW v \in Seq(S), NEW w \in Seq(S), NEW x \in Seq(S),
           NEW y \in Seq(S), Plain(v), Plain(w), Plain(x), Plain(y)
    PROVE  LET read(key) == Portal!ValueOf(Query(v, w, x, y), key)
           IN  /\ read("mac") = Decoded(v) /\ read("nas_id") = Decoded(w)
               /\ read("ts") = Decoded(x) /\ read("sig") = Decoded(y)
<1> DEFINE q == Query(v, w, x, y)
           a == Len(v) + 3
           b == a + Len(w) + 3
           c == b + Len(x) + 3
           d == Len(q) + 1
           cuts == {0, a, b, c, d}
<1>1. /\ q \in Seq(S) /\ Len(q) = c + Len(y) + 2
      /\ q[a] = Portal!Char("&") /\ q[b] = Portal!Char("&") /\ q[c] = Portal!Char("&")
      /\ Part(q, 0, "mac", v) /\ Part(q, a, "nas_id", w) /\ Part(q, b, "ts", x)
      /\ Part(q, c, "sig", y)
  BY QueryIs
<1> HIDE DEF q
<1>2. /\ Len(v) \in Nat /\ Len(w) \in Nat /\ Len(x) \in Nat /\ Len(y) \in Nat
      /\ a \in Nat /\ b \in Nat /\ c \in Nat /\ d \in Nat
      /\ 0 + Len(v) + 3 = a /\ a + Len(w) + 3 = b /\ b + Len(x) + 3 = c /\ c + Len(y) + 3 = d
      /\ Len(q) = d - 1
  BY <1>1
<1> HIDE DEF a, b, c, d
<1>3. Cuts(q) = cuts
  <2>1. a \in DOMAIN q /\ b \in DOMAIN q /\ c \in DOMAIN q
    BY <1>1, <1>2
  <2>0. /\ \A n \in Nat : 0 < n /\ n < 0 + Len(v) + 3 => q[n] # Portal!Char("&")
        /\ \A n \in Nat : a < n /\ n < a + Len(w) + 3 => q[n] # Portal!Char("&")
        /\ \A n \in Nat : b < n /\ n < b + Len(x) + 3 => q[n] # Portal!Char("&")
        /\ \A n \in Nat : c < n /\ n < c + Len(y) + 3 => q[n] # Portal!Char("&")
    BY <1>1, <1>2, PartPlain
  <2>2. ASSUME NEW n \in DOMAIN q, q[n] = Portal!Char("&") PROVE n \in {a, b, c}
    <3>1. n \in Nat /\ 0 < n /\ n < d
      BY <1>1, <1>2
    <3> QED BY <1>2, <2>0, <2>2, <3>1
  <2>3. d = Len(q) + 1
    BY DEF d
  <2> QED BY <1>1, <2>1, <2>2, <2>3 DEF Cuts
<1>4. /\ q[0 + 1] = Portal!Char("mac") /\ q[a + 1] = Portal!Char("nas_id")
      /\ q[b + 1] = Portal!Char("ts") /\ q[c + 1] = Portal!Char("sig")
  BY <1>1 DEF Part
<1>5. 0 < a /\ a < b /\ b < c /\ c < d /\ c < Len(q) /\ ~(d < Len(q))
  BY <1>2
<1>6. Begins(q, "mac", 0) /\ Begins(q, "nas_id", a) /\ Begins(q, "ts", b) /\ Begins(q, "sig", c)
  <2>1. \A k, l \in {"mac", "nas_id", "ts", "sig"} : Portal!Char(k) = Portal!Char(l) => k = l
    BY DEF Portal!Char
  <2>2. 0 < Len(q) /\ a < Len(q) /\ b < Len(q)
    BY <1>2, <1>5
  <2>3. Begins(q, "mac", 0)
    BY <1>3, <1>4, <1>5, <2>1, <2>2 DEF Begins
  <2>4. Begins(q, "nas_id", a)
    BY <1>3, <1>4, <1>5, <2>1, <2>2 DEF Begins
  <2>5. Begins(q, "ts", b)
    BY <1>3, <1>4, <1>5, <2>1, <2>2 DEF Begins
  <2>6. Begins(q, "sig", c)
    BY <1>3, <1>4, <1>5, <2>1, <2>2 DEF Begins
  <2> QED BY <2>3, <2>4, <2>5, <2>6
<1>7. Ends(q, 0, a) /\ Ends(q, a, b) /\ Ends(q, b, c) /\ Ends(q, c, d)
  BY <1>2, <1>3, <1>5 DEF Ends
<1>8. 0 \in Cuts(q) /\ a \in Cuts(q) /\ b \in Cuts(q) /\ c \in Cuts(q) /\ d \in Cuts(q)
  BY <1>3
<1>9. /\ Len(v) = a - 0 - 3 /\ Len(w) = b - a - 3 /\ Len(x) = c - b - 3 /\ Len(y) = d - c - 3
  BY <1>2
<1> HIDE DEF cuts
<1>10. Portal!ValueOf(q, "mac") = Decoded(v)
  BY <1>1, <1>6, <1>7, <1>8, <1>9, ReadIs
<1>11. Portal!ValueOf(q, "nas_id") = Decoded(w)
  BY <1>1, <1>6, <1>7, <1>8, <1>9, ReadIs
<1>12. Portal!ValueOf(q, "ts") = Decoded(x)
  BY <1>1, <1>6, <1>7, <1>8, <1>9, ReadIs
<1>13. Portal!ValueOf(q, "sig") = Decoded(y)
  BY <1>1, <1>6, <1>7, <1>8, <1>9, ReadIs
<1> QED BY <1>10, <1>11, <1>12, <1>13 DEF q
\* A value survives its encoding, and is in no danger of being cut.
Text(s) == \A n \in DOMAIN s : s[n][1] # "escape"
Signs(s) == {s[n] : n \in DOMAIN s}

LEMMA EncodeIs ==
    ASSUME NEW T, NEW s \in Seq(T), Text(s), NEW S, Signs(Portal!Encode(s)) \subseteq S
    PROVE  /\ Portal!Encode(s) \in Seq(S) /\ Plain(Portal!Encode(s))
           /\ Decoded(Portal!Encode(s)) = s
<1> DEFINE e == Portal!Encode(s)
<1>1. /\ DOMAIN e = 1..Len(s) /\ Len(s) \in Nat /\ DOMAIN s = 1..Len(s)
      /\ \A n \in 1..Len(s) :
            e[n] = IF s[n] \in Reserved THEN Portal!Escape(s[n]) ELSE s[n]
  BY DEF Portal!Encode
<1>2. e \in Seq(S)
  <2>1. e = [n \in 1..Len(s) |-> e[n]]
    BY <1>1 DEF Portal!Encode
  <2>2. \A n \in 1..Len(s) : e[n] \in S
    BY <1>1 DEF Signs
  <2> HIDE DEF e
  <2> QED BY <1>1, <2>1, <2>2
<1> HIDE DEF e
<1>3. Plain(e)
  <2> SUFFICES ASSUME NEW n \in 1..Len(s) PROVE e[n] # Portal!Char("&")
    BY <1>1 DEF Plain
  <2>1. Portal!Escape(s[n]) # Portal!Char("&") /\ Portal!Char("&") \in Reserved
    BY UrlAssumption DEF Portal!Escape, Portal!Char
  <2> QED BY <1>1, <2>1
<1>4. \A n \in 1..Len(s) : (IF e[n][1] = "escape" THEN e[n][2] ELSE e[n]) = s[n]
  BY <1>1 DEF Text, Portal!Escape
<1>5. Decoded(e) = [n \in 1..Len(s) |-> s[n]]
  BY <1>1, <1>4 DEF Decoded
<1> QED BY <1>1, <1>2, <1>3, <1>5 DEF e

\* So the portal reads what was signed.
LEMMA LocationIs ==
    ASSUME NEW m, NEW ts
    PROVE  LET mac == Portal!MacText(m)
               sig == Portal!Sign(mac, StoreId, ts)
               read(key) == Portal!ValueOf(Portal!Location(mac, StoreId, ts, sig), key)
           IN  /\ read("mac") = mac /\ read("nas_id") = StoreId
               /\ read("ts") = <<Portal!Digits(ts)>> /\ read("sig") = sig
<1> DEFINE mac == Portal!MacText(m)
           sig == Portal!Sign(mac, StoreId, ts)
           v == Portal!Encode(mac)
           w == Portal!Encode(StoreId)
           x == <<Portal!Digits(ts)>>
           y == Portal!Encode(sig)
           S == {Portal!Char(c) : c \in {"&", "=", "mac", "nas_id", "ts", "sig"}}
                    \cup Signs(v) \cup Signs(w) \cup Signs(x) \cup Signs(y)
<1>1. mac \in Seq({Portal!Char(m), Portal!Char(":")}) /\ Text(mac)
  BY DEF Portal!MacText, Text, Portal!Char
<1>2. StoreId \in Seq({"char"} \X STRING) /\ Text(StoreId)
  BY UrlAssumption DEF Text
<1>3. sig \in Seq({sig[1]}) /\ Text(sig)
  BY DEF Portal!Sign, Text, Portal!Digest
<1>4. Portal!Location(mac, StoreId, ts, sig) = Query(v, w, x, y)
  BY DEF Portal!Location, Query, Joined
<1>5. x \in Seq(Signs(x)) /\ Plain(x) /\ Decoded(x) = x
  BY DEF Plain, Decoded, Portal!Digits, Portal!Char, Signs
<1> HIDE DEF mac, sig, x
<1>6. /\ Signs(v) \subseteq S /\ Signs(w) \subseteq S /\ Signs(x) \subseteq S
      /\ Signs(y) \subseteq S /\ Alphabet(S)
  BY DEF Alphabet
<1> HIDE DEF S
<1>7. /\ v \in Seq(S) /\ Plain(v) /\ Decoded(v) = mac
      /\ w \in Seq(S) /\ Plain(w) /\ Decoded(w) = StoreId
      /\ y \in Seq(S) /\ Plain(y) /\ Decoded(y) = sig
  BY <1>1, <1>2, <1>3, <1>6, EncodeIs
<1>8. x \in Seq(S)
  BY <1>5, <1>6
<1> HIDE DEF v, w, y
<1>9. /\ Portal!ValueOf(Query(v, w, x, y), "mac") = mac
      /\ Portal!ValueOf(Query(v, w, x, y), "nas_id") = StoreId
      /\ Portal!ValueOf(Query(v, w, x, y), "ts") = x
      /\ Portal!ValueOf(Query(v, w, x, y), "sig") = sig
  BY <1>5, <1>6, <1>7, <1>8, ValuesAre
<1> QED BY <1>4, <1>9 DEF mac, sig, x

\* The last answer that sends somebody to the portal is one for a client.
SentInv ==
    answer.status = 302 =>
        \E m, ts : LET mac == Portal!MacText(m)
                   IN  /\ answer.mac = mac
                       /\ answer.location =
                             Portal!Location(mac, StoreId, ts, Portal!Sign(mac, StoreId, ts))

LEMMA SentStays == ASSUME SentInv, Portal!Next PROVE SentInv'
<1>1. CASE answer' = answer
  BY <1>1 DEF SentInv
<1>2. ASSUME NEW ip, NEW status, status # 302, answer' = Portal!Answer(ip, status, <<>>, <<>>)
      PROVE  SentInv'
  BY <1>2 DEF SentInv, Portal!Answer
<1>3. ASSUME NEW n, Portal!Redirect(n) PROVE SentInv'
  <2> DEFINE m == Head(Portal!Resolve(lines, pending[n])).lladdr
             mac == Portal!MacText(m)
  <2>1. answer' = Portal!Answer(pending[n], 302, mac,
                     Portal!Location(mac, StoreId, now, Portal!Sign(mac, StoreId, now)))
    BY <1>3 DEF Portal!Redirect
  <2> HIDE DEF m
  <2> QED BY <2>1 DEF SentInv, Portal!Answer
<1>4. ASSUME NEW ip \in Ip, Portal!Request(ip) PROVE SentInv'
  BY <1>1, <1>2, <1>4 DEF Portal!Request
<1>5. ASSUME NEW n, Portal!Unknown(n) \/ Portal!Unavailable(n) PROVE SentInv'
  BY <1>2, <1>5 DEF Portal!Unknown, Portal!Unavailable
<1>6. CASE Portal!Churn \/ Portal!Clock
  BY <1>1, <1>6 DEF Portal!Churn, Portal!Clock
<1> QED BY <1>3, <1>4, <1>5, <1>6 DEF Portal!Next
-----------------------------------------------------------------------------
(* Who looks at the sessions                                               *)

\* The order of the events.
First == emitted - Len(ring)
Window == First + 1..emitted
EventAt(k) == ring[k - First]
Events(b) == [kind : Observers!Kinds, mac : Watched, session : 1..b]
IsFinal(e) == e.kind # "granted"

Alive(s) == \E m \in Watched : live[m] # None /\ live[m].id = s

SessionTypes ==
    /\ begun \in Nat /\ emitted \in Nat
    /\ live \in [Watched -> [id : 1..begun, adopted : BOOLEAN] \cup {None}]
    /\ unsaid \subseteq Events(begun) /\ ring \in Seq(Events(begun))
    /\ Len(ring) = IF emitted < Ring THEN emitted ELSE Ring
    /\ client # None =>
          /\ client \in [at : Nat, lagged : BOOLEAN, listed : BOOLEAN, view : [Watched -> Nat]]
          /\ client.at <= emitted

\* A session is one client's, and is over before its final event is there.
OverInv ==
    /\ \A m, n \in Watched : live[m] # None /\ live[n] # None /\ live[m].id = live[n].id => m = n
    /\ \A e \in unsaid : IsFinal(e) => ~Alive(e.session)
    /\ \A i \in 1..Len(ring) : IsFinal(ring[i]) => ~Alive(ring[i].session)

\* A final event of a session is still to come, or was there before its grant.
Ended(m, s) == s \in early \/ \E e \in unsaid : IsFinal(e) /\ e.mac = m /\ e.session = s
Pending(m) == \E e \in unsaid : e.kind = "granted" /\ e.mac = m
Unsettled(m) == live[m] = None \/ live[m].adopted

GrantedInv ==
    \A e \in unsaid : e.kind = "granted" =>
        \/ live[e.mac] # None /\ live[e.mac].id = e.session
        \/ Unsettled(e.mac) /\ Ended(e.mac, e.session)

\* What a client that has read everything may take for the session of m.
Good(m, x) ==
    \/ Pending(m)
    \/ live[m] # None /\ x = live[m].id
    \/ Unsettled(m) /\ (x = 0 \/ Ended(m, x))

Granted(m, k) == EventAt(k).kind = "granted" /\ EventAt(k).mac = m
EndedAfter(m, s, j) ==
    \E k \in Window : k > j /\ IsFinal(EventAt(k)) /\ EventAt(k).mac = m /\ EventAt(k).session = s
Remains(m, s, j) == IF EndedAfter(m, s, j) THEN 0 ELSE s
Quiet(m, j) == \A k \in Window : k > j => ~Granted(m, k)

RingInv ==
    \A m \in Watched, j \in Window :
        Granted(m, j) /\ Quiet(m, j) => Good(m, Remains(m, EventAt(j).session, j))

Follows == client # None /\ client.listed /\ ~client.lagged /\ emitted - client.at <= Ring

ViewInv ==
    Follows => \A m \in Watched :
        Quiet(m, client.at) => Good(m, Remains(m, client.view[m], client.at))

InformedInv == SessionTypes /\ OverInv /\ GrantedInv /\ RingInv /\ ViewInv

\* A final event is no grant, and no disconnect.
LEMMA FinalsAre ==
    /\ "granted" \notin Observers!Finals /\ "cp_disconnect" \notin Observers!Finals
    /\ Observers!Kinds = {"granted"} \cup Observers!Finals
<1>1. \A reason \in Reasons :
         Observers!EventKindOf(reason) # "granted" /\ Observers!EventKindOf(reason) # "cp_disconnect"
  BY WatchAssumption DEF Observers!EventKindOf
<1> QED BY <1>1 DEF Observers!Finals, Observers!Kinds

\* An event joins the ring, and may push the oldest one out of it.
LEMMA EmitIs ==
    ASSUME SessionTypes, NEW e \in unsaid, Observers!Emit(e)
    PROVE  /\ ring' \in Seq(Events(begun)) /\ emitted' = emitted + 1
           /\ Len(ring') = IF emitted' < Ring THEN emitted' ELSE Ring
           /\ First \in Nat /\ First' \in Nat /\ First <= First'
           /\ \A k \in Window' : k # emitted + 1 => k \in Window /\ EventAt(k)' = EventAt(k)
           /\ \A k \in Window' : k = emitted + 1 => EventAt(k)' = e
<1> DEFINE all == Append(ring, e)
<1>1. ring' = (IF Len(all) > Ring THEN Tail(all) ELSE all) /\ emitted' = emitted + 1
  BY DEF Observers!Emit, Observers!LastOf
<1>2. /\ emitted \in Nat /\ Len(ring) \in Nat /\ Ring \in Nat
      /\ Len(ring) = IF emitted < Ring THEN emitted ELSE Ring
      /\ ring \in Seq(Events(begun)) /\ e \in Events(begun)
  BY WatchAssumption DEF SessionTypes
<1>3. /\ all \in Seq(Events(begun)) /\ Len(all) = Len(ring) + 1 /\ all[Len(ring) + 1] = e
      /\ \A i \in 1..Len(ring) : all[i] = ring[i]
  BY <1>2
<1>4. First = emitted - Len(ring) /\ First' = (emitted + 1) - Len(ring')
  BY <1>1 DEF First
<1>5. Window = First + 1..emitted /\ Window' = First' + 1..emitted + 1
  BY <1>1 DEF Window
<1> HIDE DEF all
<1>6. CASE Len(all) > Ring
  <2>1. /\ ring' = Tail(all) /\ ring' \in Seq(Events(begun)) /\ Len(ring') = Len(ring)
        /\ \A i \in 1..Len(ring) : ring'[i] = all[i + 1]
    BY <1>1, <1>2, <1>3, <1>6
  <2>2. First' = First + 1 /\ First \in Nat
    BY <1>2, <1>4, <2>1
  <2>3. ASSUME NEW k \in Window', k # emitted + 1
        PROVE  k \in Window /\ EventAt(k)' = EventAt(k)
    <3>1. k - First' \in 1..Len(ring) /\ (k - First') + 1 = k - First /\ k - First \in 1..Len(ring)
      BY <1>2, <1>4, <1>5, <2>2, <2>3
    <3>2. ring'[k - First'] = ring[k - First]
      BY <1>3, <2>1, <3>1
    <3>3. k \in Window
      BY <1>2, <1>5, <2>2, <2>3
    <3> QED BY <3>2, <3>3 DEF EventAt
  <2>4. ASSUME NEW k \in Window', k = emitted + 1 PROVE EventAt(k)' = e
    <3>1. k - First' = Len(ring) /\ Len(ring) \in 1..Len(ring)
      BY <1>2, <1>4, <1>5, <2>2, <2>4
    <3> QED BY <1>3, <2>1, <3>1 DEF EventAt
  <2> QED BY <1>1, <1>2, <1>3, <1>6, <2>1, <2>2, <2>3, <2>4
<1>7. CASE ~(Len(all) > Ring)
  <2>1. ring' = all /\ First' = First /\ First \in Nat
    BY <1>1, <1>2, <1>3, <1>4, <1>7
  <2>2. ASSUME NEW k \in Window', k # emitted + 1
        PROVE  k \in Window /\ EventAt(k)' = EventAt(k)
    <3>1. k - First \in 1..Len(ring) /\ k \in Window
      BY <1>2, <1>4, <1>5, <2>1, <2>2
    <3> QED BY <1>3, <2>1, <3>1 DEF EventAt
  <2>3. ASSUME NEW k \in Window', k = emitted + 1 PROVE EventAt(k)' = e
    <3>1. k - First' = Len(ring) + 1
      BY <1>2, <1>4, <2>1, <2>3
    <3> QED BY <1>3, <2>1, <3>1 DEF EventAt
  <2> QED BY <1>1, <1>2, <1>3, <1>7, <2>1, <2>2, <2>3
<1> QED BY <1>6, <1>7

\* What is good to take when an event is emitted.
LEMMA GoodAfter ==
    ASSUME SessionTypes, OverInv, GrantedInv, NEW e \in unsaid, Observers!Emit(e),
           NEW m \in Watched, NEW x \in Nat
    PROVE  /\ e.mac # m /\ Good(m, x) => Good(m, x)'
           /\ e.mac = m /\ IsFinal(e) /\ Good(m, x)
                => Good(m, IF x = e.session THEN 0 ELSE x)'
           /\ e.mac = m /\ ~IsFinal(e) => Good(m, e.session)'
<1>1. /\ e \in Events(begun) /\ unsaid' = unsaid \ {e} /\ live' = live /\ early \subseteq early'
      /\ UNCHANGED begun
  BY DEF SessionTypes, Observers!Emit
<1>2. e.session \in 1..begun /\ begun \in Nat
  BY <1>1 DEF Events, SessionTypes
<1>3. ASSUME e.mac # m, Good(m, x) PROVE Good(m, x)'
  BY <1>1, <1>3 DEF Good, Pending, Unsettled, Ended
<1>4. ASSUME e.mac = m, IsFinal(e), Good(m, x)
      PROVE  Good(m, IF x = e.session THEN 0 ELSE x)'
  <2>1. CASE Pending(m)
    BY <1>1, <1>4, <2>1 DEF Good, Pending, IsFinal
  <2>2. CASE live[m] # None /\ x = live[m].id
    <3>1. x # e.session
      BY <1>4, <2>2 DEF OverInv, Alive
    <3> QED BY <1>1, <2>2, <3>1 DEF Good
  <2>3. CASE Unsettled(m) /\ (x = 0 \/ Ended(m, x))
    <3>1. CASE x = e.session \/ x = 0
      BY <1>1, <2>3, <3>1 DEF Good, Unsettled
    <3>2. CASE x # e.session /\ x # 0
      BY <1>1, <2>3, <3>2 DEF Good, Unsettled, Ended
    <3> QED BY <3>1, <3>2
  <2> QED BY <1>4, <2>1, <2>2, <2>3 DEF Good
<1>5. ASSUME e.mac = m, ~IsFinal(e) PROVE Good(m, e.session)'
  BY <1>1, <1>5 DEF GrantedInv, Good, Unsettled, Ended, IsFinal
<1> QED BY <1>3, <1>4, <1>5

\* What is left of a session when an event is emitted.
LEMMA RemainsAfter ==
    ASSUME SessionTypes, NEW e \in unsaid, Observers!Emit(e), NEW m \in Watched, NEW s \in Nat,
           NEW j \in Nat, First' <= j, j <= emitted
    PROVE  Remains(m, s, j)' = IF e.mac = m /\ IsFinal(e) /\ Remains(m, s, j) = e.session
                               THEN 0 ELSE Remains(m, s, j)
<1>1. emitted \in Nat /\ First \in Nat /\ First' \in Nat /\ First <= First'
  BY EmitIs DEF SessionTypes
<1>1a. PICK f \in Nat : f = First'
  BY <1>1
<1>1b. PICK g \in Nat : g = First
  BY <1>1
<1>2. /\ Window = g + 1..emitted /\ Window' = f + 1..emitted + 1
      /\ g <= f /\ f <= j /\ emitted \in Nat
  BY EmitIs, <1>1, <1>1a, <1>1b DEF Window
<1>3. /\ \A k \in Window' : k # emitted + 1 => k \in Window /\ EventAt(k)' = EventAt(k)
      /\ \A k \in Window' : k = emitted + 1 => EventAt(k)' = e
  BY EmitIs
<1>4. e.session # 0
  BY DEF SessionTypes, Events
<1>5. emitted + 1 \in Window' /\ emitted + 1 > j
  BY <1>2
<1>6. \A k \in Window : k > j => k \in Window' /\ k # emitted + 1
  BY <1>2
<1>7. EndedAfter(m, s, j)' <=>
         (EndedAfter(m, s, j) \/ (e.mac = m /\ IsFinal(e) /\ s = e.session))
  <2>1. EndedAfter(m, s, j)' <=>
           \E k \in Window' : k > j /\ IsFinal(EventAt(k)') /\ EventAt(k)'.mac = m
                               /\ EventAt(k)'.session = s
    BY DEF EndedAfter, IsFinal
  <2>2. ASSUME EndedAfter(m, s, j) PROVE EndedAfter(m, s, j)'
    BY <1>3, <1>6, <2>1, <2>2 DEF EndedAfter
  <2>3. ASSUME e.mac = m, IsFinal(e), s = e.session PROVE EndedAfter(m, s, j)'
    BY <1>3, <1>5, <2>1, <2>3
  <2>4. ASSUME EndedAfter(m, s, j)'
        PROVE  EndedAfter(m, s, j) \/ (e.mac = m /\ IsFinal(e) /\ s = e.session)
    BY <1>3, <2>1, <2>4 DEF EndedAfter
  <2> QED BY <2>2, <2>3, <2>4
<1> QED BY <1>4, <1>7 DEF Remains

\* And what a client that reads on from there may take.
LEMMA RestAfter ==
    ASSUME SessionTypes, OverInv, GrantedInv, NEW e \in unsaid, Observers!Emit(e),
           NEW m \in Watched, NEW s \in Nat, NEW j \in Nat, First' <= j, j <= emitted,
           Quiet(m, j)', Quiet(m, j) => Good(m, Remains(m, s, j))
    PROVE  Good(m, Remains(m, s, j))'
<1>1. emitted \in Nat /\ First \in Nat /\ First' \in Nat /\ First <= First'
  BY EmitIs DEF SessionTypes
<1>2. PICK f \in Nat : f = First'
  BY <1>1
<1>3. PICK g \in Nat : g = First
  BY <1>1
<1>4. /\ Window = g + 1..emitted /\ Window' = f + 1..emitted + 1
      /\ g <= f /\ f <= j /\ emitted \in Nat
  BY EmitIs, <1>1, <1>2, <1>3 DEF Window
<1>5. /\ \A k \in Window' : k # emitted + 1 => k \in Window /\ EventAt(k)' = EventAt(k)
      /\ \A k \in Window' : k = emitted + 1 => EventAt(k)' = e
  BY EmitIs
<1>6. emitted + 1 \in Window' /\ emitted + 1 > j
  BY <1>4
<1>7. \A k \in Window : k > j => k \in Window' /\ k # emitted + 1
  BY <1>4
<1>8. \A k \in Window' : k > j => ~(EventAt(k)'.kind = "granted" /\ EventAt(k)'.mac = m)
  BY DEF Quiet, Granted
<1>9. ~(e.kind = "granted" /\ e.mac = m)
  BY <1>5, <1>6, <1>8
<1>10. Quiet(m, j)
  BY <1>5, <1>7, <1>8 DEF Quiet, Granted
<1>11. Remains(m, s, j) \in Nat /\ Good(m, Remains(m, s, j))
  BY <1>10 DEF Remains
<1>12. PICK x \in Nat : x = Remains(m, s, j)
  BY <1>11
<1>13. Remains(m, s, j)' = IF e.mac = m /\ x = e.session THEN 0 ELSE x
  BY <1>9, <1>12, RemainsAfter DEF IsFinal
<1>14. Good(m, IF e.mac = m /\ x = e.session THEN 0 ELSE x)'
  BY <1>9, <1>11, <1>12, GoodAfter DEF IsFinal
<1>15. PICK y : y = IF e.mac = m /\ x = e.session THEN 0 ELSE x
  OBVIOUS
<1>16. Good(m, y)'
  BY <1>14, <1>15
<1> QED BY <1>13, <1>15, <1>16

\* Nothing else gets into the ring.
LEMMA EmitFrom ==
    ASSUME SessionTypes, NEW e \in unsaid, Observers!Emit(e), NEW i \in 1..Len(ring')
    PROVE  ring'[i] = e \/ \E j \in 1..Len(ring) : ring'[i] = ring[j]
<1> DEFINE all == Append(ring, e)
<1>1. ring' = (IF Len(all) > Ring THEN Tail(all) ELSE all)
  BY DEF Observers!Emit, Observers!LastOf
<1>2. /\ ring \in Seq(Events(begun)) /\ e \in Events(begun) /\ Len(ring) \in Nat
  BY DEF SessionTypes
<1>3. /\ all \in Seq(Events(begun)) /\ Len(all) = Len(ring) + 1 /\ all[Len(ring) + 1] = e
      /\ \A j \in 1..Len(ring) : all[j] = ring[j]
  BY <1>2
<1> HIDE DEF all
<1>4. \A j \in 1..Len(all) : all[j] = e \/ \E k \in 1..Len(ring) : all[j] = ring[k]
  BY <1>2, <1>3
<1>5. CASE Len(all) > Ring
  <2>1. ring' = Tail(all) /\ Len(ring') = Len(ring) /\ ring'[i] = all[i + 1] /\ i + 1 \in 1..Len(all)
    BY <1>1, <1>2, <1>3, <1>5
  <2> QED BY <1>4, <2>1
<1>6. CASE ~(Len(all) > Ring)
  BY <1>1, <1>4, <1>6
<1> QED BY <1>5, <1>6

\* The events are those of sessions.
LEMMA InRing ==
    ASSUME SessionTypes, NEW k \in Window
    PROVE  EventAt(k) \in Events(begun) /\ EventAt(k).session \in Nat
<1>1. /\ emitted \in Nat /\ Len(ring) \in Nat /\ begun \in Nat /\ ring \in Seq(Events(begun))
      /\ Len(ring) <= emitted
  BY WatchAssumption DEF SessionTypes
<1>2. k - First \in 1..Len(ring)
  BY <1>1 DEF Window, First
<1>3. ring[k - First] \in Events(begun)
  BY <1>1, <1>2
<1> QED BY <1>1, <1>3 DEF EventAt, Events

\* Emit.
LEMMA EmitStays ==
    ASSUME InformedInv, NEW e \in unsaid, Observers!Emit(e)
    PROVE  InformedInv'
<1> USE DEF InformedInv
<1>1. /\ e \in Events(begun) /\ unsaid' = unsaid \ {e} /\ live' = live /\ early \subseteq early'
      /\ begun' = begun /\ client' = client
      /\ IsFinal(e) /\ Observers!Event("granted", e.mac, e.session) \in unsaid => e.session \in early'
  BY DEF SessionTypes, Observers!Emit, Observers!seen, IsFinal
<1>2. /\ ring' \in Seq(Events(begun)) /\ emitted' = emitted + 1 /\ emitted \in Nat
      /\ Len(ring') = IF emitted' < Ring THEN emitted' ELSE Ring
  BY EmitIs DEF SessionTypes
<1>3. SessionTypes'
  BY <1>1, <1>2 DEF SessionTypes
<1>4. OverInv'
  BY <1>1, EmitFrom DEF OverInv, Alive, IsFinal
<1>5. GrantedInv'
  <2> SUFFICES ASSUME NEW f \in unsaid', f.kind = "granted"
               PROVE  \/ live[f.mac] # None /\ live[f.mac].id = f.session
                      \/ Unsettled(f.mac) /\ Ended(f.mac, f.session)'
    BY <1>1 DEF GrantedInv, Unsettled, Ended
  <2>1. CASE live[f.mac] # None /\ live[f.mac].id = f.session
    BY <2>1
  <2>2. CASE Unsettled(f.mac) /\ Ended(f.mac, f.session)
    <3>1. CASE f.session \in early
      BY <1>1, <2>2, <3>1 DEF Ended
    <3>2. CASE \E g \in unsaid : IsFinal(g) /\ g.mac = f.mac /\ g.session = f.session
      <4>1. PICK g \in unsaid : IsFinal(g) /\ g.mac = f.mac /\ g.session = f.session
        BY <3>2
      <4>2. CASE g # e
        BY <1>1, <2>2, <4>1, <4>2 DEF Ended, IsFinal
      <4>3. CASE g = e
        <5>1. f \in Events(begun)
          BY <1>1 DEF SessionTypes
        <5>2. f = Observers!Event("granted", e.mac, e.session)
          BY <4>1, <4>3, <5>1 DEF Events, Observers!Event
        <5> QED BY <1>1, <2>2, <4>1, <4>3, <5>2 DEF Ended
      <4> QED BY <4>2, <4>3
    <3> QED BY <2>2, <3>1, <3>2 DEF Ended
  <2> QED BY <1>1, <2>1, <2>2 DEF GrantedInv
<1>6. First \in Nat /\ First' \in Nat
  BY EmitIs
<1>7. PICK f \in Nat : f = First'
  BY <1>6
<1>7a. f \in Nat
  BY <1>6, <1>7
<1>8. /\ Window' = f + 1..emitted + 1 /\ emitted + 1 \in Nat
      /\ f = (emitted + 1) - Len(ring')
  BY <1>2, <1>7 DEF Window, First
<1>9. RingInv'
  <2> SUFFICES ASSUME NEW m \in Watched, NEW j \in Window', Granted(m, j)', Quiet(m, j)'
               PROVE  Good(m, Remains(m, EventAt(j).session, j))'
    BY DEF RingInv
  <2>1. EventAt(j)'.kind = "granted" /\ EventAt(j)'.mac = m
    BY DEF Granted
  <2>2. CASE j = emitted + 1
    <3>1. EventAt(j)' = e
      BY <2>2, EmitIs
    <3>2. e.mac = m /\ ~IsFinal(e) /\ e.session \in Nat
      BY <1>1, <2>1, <3>1 DEF IsFinal, Events, SessionTypes
    <3>3. ~EndedAfter(m, EventAt(j).session, j)'
      BY <1>8, <2>2 DEF EndedAfter
    <3>4. Remains(m, EventAt(j).session, j)' = e.session
      BY <3>1, <3>3 DEF Remains
    <3>5. Good(m, e.session)'
      BY <3>2, GoodAfter
    <3> QED BY <3>4, <3>5, <1>1 DEF Good, Ended
  <2>3. CASE j # emitted + 1
    <3>1. j \in Window /\ EventAt(j)' = EventAt(j)
      BY <2>3, EmitIs
    <3>2. PICK s : s = EventAt(j).session
      OBVIOUS
    <3>3. s \in Nat
      BY <3>1, <3>2, InRing
    <3>4. Granted(m, j)
      BY <2>1, <3>1 DEF Granted
    <3>5. Quiet(m, j) => Good(m, Remains(m, s, j))
      BY <3>1, <3>2, <3>4 DEF RingInv
    <3>6. j \in Nat /\ f <= j /\ j <= emitted
      <4>1. j \in f + 1..emitted + 1
        BY <1>8
      <4>2. emitted \in Nat
        BY <1>2
      <4> QED BY <1>7a, <2>3, <4>1, <4>2
    <3>7. Good(m, Remains(m, s, j))'
      BY <1>7, <3>3, <3>5, <3>6, RestAfter
    <3> QED BY <3>1, <3>2, <3>7 
  <2> QED BY <2>2, <2>3
<1>10. ViewInv'
  <2> SUFFICES ASSUME Follows', NEW m \in Watched, Quiet(m, client.at)'
               PROVE  Good(m, Remains(m, client.view[m], client.at))'
    BY DEF ViewInv
  <2>1. PICK a : a = client.at
    OBVIOUS
  <2>2. PICK s : s = client.view[m]
    OBVIOUS
  <2>3. /\ client # None /\ client.listed /\ ~client.lagged /\ (emitted + 1) - a <= Ring
        /\ a \in Nat /\ a <= emitted /\ s \in Nat
    BY <1>1, <1>2, <2>1, <2>2 DEF Follows, SessionTypes
  <2>4. emitted - a <= Ring /\ f <= a
    BY <1>2, <1>8, <2>3, WatchAssumption
  <2>5. Quiet(m, a) => Good(m, Remains(m, s, a))
    BY <2>1, <2>2, <2>3, <2>4 DEF ViewInv, Follows
  <2>6. Quiet(m, a)'
    BY <1>1, <2>1 DEF Quiet
  <2>7. Good(m, Remains(m, s, a))'
    BY <1>7, <2>3, <2>4, <2>5, <2>6, RestAfter
  <2> QED BY <1>1, <2>1, <2>2, <2>7
<1> QED BY <1>3, <1>4, <1>5, <1>9, <1>10

\* What the ring says is as good as before, as long as no session gets worse.
LEMMA RingKept ==
    ASSUME SessionTypes, RingInv, UNCHANGED <<ring, emitted>>,
           \A m \in Watched, x \in Nat : Good(m, x) => Good(m, x)'
    PROVE  RingInv'
<1>1. /\ Window' = Window /\ \A k \in Window : EventAt(k)' = EventAt(k)
  BY DEF Window, First, EventAt
<1>2. \A m \in Watched, j \in Window, s \in Nat :
         /\ Granted(m, j)' <=> Granted(m, j)
         /\ Quiet(m, j)' <=> Quiet(m, j)
         /\ Remains(m, s, j)' = Remains(m, s, j)
  BY <1>1 DEF Granted, Quiet, Remains, EndedAfter, IsFinal
<1> SUFFICES ASSUME NEW m \in Watched, NEW j \in Window', Granted(m, j)', Quiet(m, j)'
             PROVE  Good(m, Remains(m, EventAt(j).session, j))'
  BY DEF RingInv
<1>3. PICK s : s = EventAt(j).session
  OBVIOUS
<1>4. j \in Window /\ s \in Nat
  BY <1>1, <1>3, InRing
<1>5. PICK x : x = Remains(m, s, j)
  OBVIOUS
<1>6. x \in Nat /\ Good(m, x)
  BY <1>2, <1>3, <1>4, <1>5 DEF RingInv, Remains
<1>7. Remains(m, EventAt(j).session, j)' = x
  <2>1. EventAt(j).session' = s
    BY <1>1, <1>3, <1>4
  <2>2. Remains(m, s, j)' = x
    BY <1>2, <1>4, <1>5
  <2> QED BY <2>1, <2>2
<1>8. Good(m, x)'
  BY <1>6
<1> QED BY <1>7, <1>8

\* So is what the client takes.
LEMMA ViewKept ==
    ASSUME SessionTypes, ViewInv, UNCHANGED <<ring, emitted, client>>,
           \A m \in Watched, x \in Nat : Good(m, x) => Good(m, x)'
    PROVE  ViewInv'
<1>1. /\ Window' = Window /\ \A k \in Window : EventAt(k)' = EventAt(k)
  BY DEF Window, First, EventAt
<1> SUFFICES ASSUME Follows', NEW m \in Watched, Quiet(m, client.at)'
             PROVE  Good(m, Remains(m, client.view[m], client.at))'
  BY DEF ViewInv
<1>2. PICK a : a = client.at
  OBVIOUS
<1>3. PICK s : s = client.view[m]
  OBVIOUS
<1>4. Quiet(m, a)'
  BY <1>2 DEF Quiet
<1>5. Quiet(m, a) /\ Remains(m, s, a)' = Remains(m, s, a)
  BY <1>1, <1>4 DEF Granted, Quiet, Remains, EndedAfter, IsFinal
<1>6. Follows /\ s \in Nat
  BY <1>3 DEF Follows, SessionTypes
<1>7. PICK x : x = Remains(m, s, a)
  OBVIOUS
<1>8. x \in Nat /\ Good(m, x)
  BY <1>2, <1>3, <1>5, <1>6, <1>7 DEF ViewInv, Remains
<1>9. Good(m, x)'
  BY <1>8
<1>10. Good(m, Remains(m, s, a))'
  BY <1>5, <1>7, <1>9
<1> QED BY <1>2, <1>3, <1>10

\* A session more.
LEMMA EventsGrow ==
    ASSUME NEW b \in Nat
    PROVE  Events(b) \subseteq Events(b + 1) /\ Seq(Events(b)) \subseteq Seq(Events(b + 1))
<1>1. Events(b) \subseteq Events(b + 1)
  BY DEF Events
<1>2. \A s \in Seq(Events(b)) : s \in Seq(Events(b + 1))
  BY <1>1
<1> QED BY <1>1, <1>2

\* A session is not none.
LEMMA NoSession ==
    ASSUME SessionTypes, NEW m \in Watched
    PROVE  /\ live[m] # None => live[m].id \in 1..begun /\ live[m].adopted \in BOOLEAN
           /\ \A id \in 1..begun + 1, adopted \in BOOLEAN :
                 [id |-> id, adopted |-> adopted] # None
<1>1. begun \in Nat /\ live[m] \in [id : 1..begun, adopted : BOOLEAN] \cup {None}
  BY DEF SessionTypes
<1> QED BY <1>1, NoneAssumption

\* Grant, Adopt and End.
LEMMA GrantStays ==
    ASSUME InformedInv, NEW m \in Watched, Observers!Grant(m)
    PROVE  InformedInv'
<1> USE DEF InformedInv
<1> DEFINE new == [id |-> begun + 1, adopted |-> FALSE]
           event == [kind |-> "granted", mac |-> m, session |-> begun + 1]
<1>1. /\ live' = [live EXCEPT ![m] = new] /\ unsaid' = unsaid \cup {event} /\ begun' = begun + 1
      /\ UNCHANGED <<early, ring, emitted, client>>
      /\ \A e \in unsaid : e.kind # "granted"
  BY DEF Observers!Grant, Observers!Say, Observers!Event, Observers!seen
<1>2. /\ begun \in Nat /\ unsaid \subseteq Events(begun) /\ ring \in Seq(Events(begun))
      /\ live \in [Watched -> [id : 1..begun, adopted : BOOLEAN] \cup {None}]
  BY DEF SessionTypes
<1>3. new # None /\ new \in [id : 1..begun + 1, adopted : BOOLEAN] /\ event \in Events(begun + 1)
  <2>1. new \in [id : Nat, adopted : BOOLEAN] /\ new \in [id : 1..begun + 1, adopted : BOOLEAN]
    BY <1>2
  <2>2. event \in Events(begun + 1)
    BY <1>2, FinalsAre DEF Events
  <2> QED BY <2>1, <2>2, NoneAssumption
<1>4. live'[m] = new /\ \A n \in Watched : n # m => live'[n] = live[n]
  BY <1>1, <1>2
<1>5. new.id = begun + 1 /\ event.kind = "granted" /\ event.mac = m /\ event.session = begun + 1
  OBVIOUS
<1> HIDE DEF new, event
<1>6. SessionTypes'
  <2>1. /\ begun' \in Nat /\ unsaid' \subseteq Events(begun') /\ ring' \in Seq(Events(begun'))
    BY <1>1, <1>2, <1>3, EventsGrow
  <2>2. [id : 1..begun, adopted : BOOLEAN] \subseteq [id : 1..begun + 1, adopted : BOOLEAN]
    BY <1>2
  <2>3. live' \in [Watched -> [id : 1..begun', adopted : BOOLEAN] \cup {None}]
    BY <1>1, <1>2, <1>3, <2>2
  <2> QED BY <1>1, <2>1, <2>3 DEF SessionTypes
<1>7. \A s \in 1..begun : Alive(s)' => Alive(s)
  BY <1>2, <1>4, <1>5 DEF Alive
<1>8. OverInv'
  <2>1. \A n \in Watched : live[n] # None => live[n].id \in 1..begun
    BY NoSession
  <2>2. \A n, o \in Watched : live'[n] # None /\ live'[o] # None /\ live'[n].id = live'[o].id => n = o
    BY <1>2, <1>4, <1>5, <2>1 DEF OverInv
  <2>3. \A e \in unsaid : e.session \in 1..begun
    BY <1>2 DEF Events
  <2>4. \A i \in 1..Len(ring) : ring[i].session \in 1..begun
    <3>1. \A i \in 1..Len(ring) : ring[i] \in Events(begun)
      BY <1>2
    <3> QED BY <1>2, <3>1 DEF Events
  <2>5. \A e \in unsaid' : IsFinal(e)' => ~Alive(e.session)'
    BY <1>1, <1>5, <1>7, <2>3 DEF OverInv, IsFinal
  <2>6. \A i \in 1..Len(ring') : IsFinal(ring'[i]) => ~Alive(ring[i].session)'
    BY <1>1, <1>7, <2>4 DEF OverInv, IsFinal
  <2> QED BY <1>1, <2>2, <2>5, <2>6 DEF OverInv, IsFinal, Alive
<1>9. GrantedInv'
  BY <1>1, <1>3, <1>4, <1>5 DEF GrantedInv
<1>10. \A n \in Watched, x \in Nat : Good(n, x) => Good(n, x)'
  <2> SUFFICES ASSUME NEW n \in Watched, NEW x \in Nat, Good(n, x) PROVE Good(n, x)'
    OBVIOUS
  <2>1. CASE n = m
    BY <1>1, <1>5, <2>1 DEF Good, Pending
  <2>2. CASE n # m
    BY <1>1, <1>4, <2>2 DEF Good, Pending, Unsettled, Ended
  <2> QED BY <2>1, <2>2
<1> QED BY <1>1, <1>6, <1>8, <1>9, <1>10, RingKept, ViewKept

LEMMA AdoptStays ==
    ASSUME InformedInv, NEW m \in Watched, Observers!Adopt(m)
    PROVE  InformedInv'
<1> USE DEF InformedInv
<1> DEFINE new == [id |-> begun + 1, adopted |-> TRUE]
<1>1. /\ live' = [live EXCEPT ![m] = new] /\ begun' = begun + 1 /\ live[m] = None
      /\ UNCHANGED <<unsaid, early, ring, emitted, client>>
  BY DEF Observers!Adopt, Observers!seen
<1>2. /\ begun \in Nat /\ unsaid \subseteq Events(begun) /\ ring \in Seq(Events(begun))
      /\ live \in [Watched -> [id : 1..begun, adopted : BOOLEAN] \cup {None}]
  BY DEF SessionTypes
<1>3. new # None /\ new \in [id : 1..begun + 1, adopted : BOOLEAN]
  <2>1. new \in [id : Nat, adopted : BOOLEAN] /\ new \in [id : 1..begun + 1, adopted : BOOLEAN]
    BY <1>2
  <2> QED BY <2>1, NoneAssumption
<1>4. live'[m] = new /\ \A n \in Watched : n # m => live'[n] = live[n]
  BY <1>1, <1>2
<1>5. new.id = begun + 1 /\ new.adopted
  OBVIOUS
<1> HIDE DEF new
<1>6. SessionTypes'
  <2>1. /\ begun' \in Nat /\ unsaid' \subseteq Events(begun') /\ ring' \in Seq(Events(begun'))
    BY <1>1, <1>2, EventsGrow
  <2>2. [id : 1..begun, adopted : BOOLEAN] \subseteq [id : 1..begun + 1, adopted : BOOLEAN]
    BY <1>2
  <2>3. live' \in [Watched -> [id : 1..begun', adopted : BOOLEAN] \cup {None}]
    BY <1>1, <1>2, <1>3, <2>2
  <2> QED BY <1>1, <2>1, <2>3 DEF SessionTypes
<1>7. \A s \in 1..begun : Alive(s)' => Alive(s)
  BY <1>2, <1>4, <1>5 DEF Alive
<1>8. OverInv'
  <2>1. \A n \in Watched : live[n] # None => live[n].id \in 1..begun
    BY NoSession
  <2>2. \A n, o \in Watched : live'[n] # None /\ live'[o] # None /\ live'[n].id = live'[o].id => n = o
    BY <1>2, <1>4, <1>5, <2>1 DEF OverInv
  <2>3. \A e \in unsaid : e.session \in 1..begun
    BY <1>2 DEF Events
  <2>4. \A i \in 1..Len(ring) : ring[i].session \in 1..begun
    <3>1. \A i \in 1..Len(ring) : ring[i] \in Events(begun)
      BY <1>2
    <3> QED BY <1>2, <3>1 DEF Events
  <2>5. \A e \in unsaid' : IsFinal(e)' => ~Alive(e.session)'
    BY <1>1, <1>7, <2>3 DEF OverInv, IsFinal
  <2>6. \A i \in 1..Len(ring') : IsFinal(ring'[i]) => ~Alive(ring[i].session)'
    BY <1>1, <1>7, <2>4 DEF OverInv, IsFinal
  <2> QED BY <1>1, <2>2, <2>5, <2>6 DEF OverInv, IsFinal, Alive
<1>9. GrantedInv'
  BY <1>1, <1>3, <1>4, <1>5 DEF GrantedInv, Unsettled, Ended, SessionTypes, Events
<1>10. \A n \in Watched, x \in Nat : Good(n, x) => Good(n, x)'
  BY <1>1, <1>4, <1>5 DEF Good, Pending, Unsettled, Ended
<1> QED BY <1>1, <1>6, <1>8, <1>9, <1>10, RingKept, ViewKept

LEMMA EndStays ==
    ASSUME InformedInv, NEW m \in Watched, Observers!End(m)
    PROVE  InformedInv'
<1> USE DEF InformedInv
<1>1. PICK kind \in Observers!Finals :
         /\ live' = [live EXCEPT ![m] = None] /\ live[m] # None
         /\ unsaid' = unsaid \cup {[kind |-> kind, mac |-> m, session |-> live[m].id]}
         /\ UNCHANGED <<begun, early, ring, emitted, client>>
  BY DEF Observers!End, Observers!Say, Observers!Event, Observers!seen
<1> PICK event : event = [kind |-> kind, mac |-> m, session |-> live[m].id]
  OBVIOUS
<1>2. /\ begun \in Nat /\ unsaid \subseteq Events(begun) /\ ring \in Seq(Events(begun))
      /\ live \in [Watched -> [id : 1..begun, adopted : BOOLEAN] \cup {None}]
  BY DEF SessionTypes
<1>3. live[m].id \in 1..begun
  BY <1>1, NoSession
<1>4. live'[m] = None /\ \A n \in Watched : n # m => live'[n] = live[n]
  BY <1>1, <1>2
<1>5. /\ IsFinal(event) /\ event.mac = m /\ event.session = live[m].id /\ event \in Events(begun)
      /\ unsaid' = unsaid \cup {event}
  BY <1>1, <1>3, FinalsAre DEF Events, IsFinal
<1>6. SessionTypes'
  BY <1>1, <1>2, <1>5 DEF SessionTypes
<1>7. \A s \in Nat : Alive(s)' => Alive(s)
  BY <1>4 DEF Alive
<1>8. OverInv'
  <2>1. \A n, o \in Watched : live'[n] # None /\ live'[o] # None /\ live'[n].id = live'[o].id => n = o
    BY <1>4 DEF OverInv
  <2>2. ~Alive(event.session)'
    BY <1>1, <1>4, <1>5 DEF OverInv, Alive
  <2>3. \A e \in unsaid : e.session \in Nat
    BY <1>2 DEF Events
  <2>4. \A i \in 1..Len(ring) : ring[i].session \in Nat
    <3>1. \A i \in 1..Len(ring) : ring[i] \in Events(begun)
      BY <1>2
    <3> QED BY <1>2, <3>1 DEF Events
  <2>5. \A e \in unsaid' : IsFinal(e)' => ~Alive(e.session)'
    BY <1>5, <1>7, <2>2, <2>3 DEF OverInv, IsFinal
  <2>6. \A i \in 1..Len(ring') : IsFinal(ring'[i]) => ~Alive(ring[i].session)'
    BY <1>1, <1>7, <2>4 DEF OverInv, IsFinal
  <2> QED BY <1>1, <2>1, <2>5, <2>6 DEF OverInv, IsFinal, Alive
<1>9. \A s \in Nat : Ended(m, s)' <=> Ended(m, s) \/ s = live[m].id
  BY <1>1, <1>5 DEF Ended, IsFinal
<1>10. \A n \in Watched, s \in Nat : Ended(n, s) => Ended(n, s)'
  BY <1>1, <1>5 DEF Ended, IsFinal
<1>11. GrantedInv'
  <2> SUFFICES ASSUME NEW f \in unsaid', f.kind = "granted"
               PROVE  \/ live'[f.mac] # None /\ live'[f.mac].id = f.session
                      \/ Unsettled(f.mac)' /\ Ended(f.mac, f.session)'
    BY DEF GrantedInv
  <2>1. f \in unsaid /\ f.mac \in Watched /\ f.session \in Nat
    BY <1>2, <1>5 DEF IsFinal, Events
  <2>2. CASE f.mac = m
    BY <1>4, <1>9, <1>10, <2>1, <2>2 DEF GrantedInv, Unsettled
  <2>3. CASE f.mac # m
    BY <1>4, <1>10, <2>1, <2>3 DEF GrantedInv, Unsettled
  <2> QED BY <2>2, <2>3
<1>12. \A n \in Watched, x \in Nat : Good(n, x) => Good(n, x)'
  <2> SUFFICES ASSUME NEW n \in Watched, NEW x \in Nat, Good(n, x) PROVE Good(n, x)'
    OBVIOUS
  <2>1. Pending(n) => Pending(n)'
    BY <1>5 DEF Pending
  <2>2. CASE n = m
    BY <1>4, <1>9, <1>10, <2>1, <2>2 DEF Good, Unsettled
  <2>3. CASE n # m
    BY <1>4, <1>10, <2>1, <2>3 DEF Good, Unsettled
  <2> QED BY <2>2, <2>3
<1> QED BY <1>1, <1>6, <1>8, <1>11, <1>12, RingKept, ViewKept

\* What the sessions are does not depend on who looks at them.
LEMMA TableKept ==
    ASSUME InformedInv, UNCHANGED <<Observers!sessions, ring, emitted>>
    PROVE  /\ OverInv' /\ GrantedInv' /\ RingInv'
           /\ \A m \in Watched, x \in Nat : Good(m, x)' <=> Good(m, x)
           /\ \A m \in Watched, j \in Nat, s \in Nat :
                 /\ Quiet(m, j)' <=> Quiet(m, j)
                 /\ Remains(m, s, j)' = Remains(m, s, j)
<1> USE DEF InformedInv
<1>1. UNCHANGED <<live, unsaid, early, ring, emitted, begun>>
  BY DEF Observers!sessions
<1>2. OverInv'
  BY <1>1 DEF OverInv, Alive, IsFinal
<1>3. GrantedInv'
  BY <1>1 DEF GrantedInv, Unsettled, Ended, IsFinal
<1>4. \A m \in Watched, x \in Nat : Good(m, x)' <=> Good(m, x)
  BY <1>1 DEF Good, Pending, Unsettled, Ended, IsFinal
<1>5. RingInv'
  BY <1>1, <1>4, RingKept
<1>6. Window' = Window /\ \A k \in Window : EventAt(k)' = EventAt(k)
  BY <1>1 DEF Window, First, EventAt
<1>7. \A m \in Watched, j \in Nat, s \in Nat :
                 /\ Quiet(m, j)' <=> Quiet(m, j)
                 /\ Remains(m, s, j)' = Remains(m, s, j)
  BY <1>6 DEF Quiet, Granted, Remains, EndedAfter, IsFinal
<1> QED BY <1>1, <1>2, <1>3, <1>4, <1>5, <1>7

\* The client subscribes, lists and reads.
LEMMA StreamStays ==
    ASSUME InformedInv, Observers!StreamEvents
    PROVE  InformedInv'
<1>1. /\ client' = [at |-> emitted, lagged |-> FALSE, listed |-> FALSE, view |-> [m \in Watched |-> 0]]
      /\ UNCHANGED <<Observers!sessions, ring, emitted>>
  BY DEF Observers!StreamEvents
<1>2. OverInv' /\ GrantedInv' /\ RingInv'
  BY <1>1, TableKept
<1>3. SessionTypes'
  BY <1>1 DEF InformedInv, SessionTypes, Observers!sessions
<1>4. ViewInv'
  BY <1>1 DEF ViewInv, Follows
<1> QED BY <1>2, <1>3, <1>4 DEF InformedInv

LEMMA ListStays ==
    ASSUME InformedInv, Observers!ListSessions
    PROVE  InformedInv'
<1> USE DEF InformedInv
<1> DEFINE view == [m \in Watched |-> IF live[m] = None THEN 0 ELSE live[m].id]
<1>1. /\ client # None
      /\ client' = [client EXCEPT !.listed = TRUE, !.view = view]
      /\ UNCHANGED <<Observers!sessions, ring, emitted>>
  BY DEF Observers!ListSessions
<1>2. OverInv' /\ GrantedInv' /\ RingInv'
  BY <1>1, TableKept
<1>3. /\ client \in [at : Nat, lagged : BOOLEAN, listed : BOOLEAN, view : [Watched -> Nat]]
      /\ client.at <= emitted
  BY <1>1 DEF SessionTypes
<1>4. view \in [Watched -> Nat]
  BY NoSession DEF SessionTypes
<1>5. client' = [at |-> client.at, lagged |-> client.lagged, listed |-> TRUE, view |-> view]
  BY <1>1, <1>3
<1>6. SessionTypes'
  BY <1>1, <1>3, <1>4, <1>5 DEF SessionTypes, Observers!sessions
<1>7. ASSUME NEW m \in Watched, NEW a \in Nat
      PROVE  Good(m, Remains(m, view[m], a))
  <2>1. CASE live[m] = None
    BY <2>1 DEF Good, Unsettled, Remains
  <2>2. CASE live[m] # None
    <3>1. view[m] = live[m].id
      BY <2>2
    <3>2. ASSUME NEW k \in Window, IsFinal(EventAt(k)) PROVE ~Alive(EventAt(k).session)
      <4>1. k - First \in 1..Len(ring)
        BY WatchAssumption DEF Window, First, SessionTypes
      <4> QED BY <3>2, <4>1 DEF OverInv, EventAt
    <3>3. ~EndedAfter(m, live[m].id, a)
      BY <2>2, <3>2 DEF EndedAfter, Alive
    <3> QED BY <2>2, <3>1, <3>3 DEF Good, Remains
  <2> QED BY <2>1, <2>2
<1> HIDE DEF view
<1>8. ViewInv'
  <2> SUFFICES ASSUME NEW m \in Watched PROVE Good(m, Remains(m, client.view[m], client.at))'
    BY DEF ViewInv
  <2>1. PICK a : a = client.at
    OBVIOUS
  <2>2. PICK s : s = view[m]
    OBVIOUS
  <2>3. a \in Nat /\ s \in Nat
    BY <1>3, <1>4, <2>1, <2>2
  <2>4. PICK x : x = Remains(m, s, a)
    OBVIOUS
  <2>5. x \in Nat /\ Good(m, x)
    BY <1>7, <2>2, <2>3, <2>4 DEF Remains
  <2>6. Good(m, x)' /\ Remains(m, s, a)' = x
    BY <1>1, <2>3, <2>4, <2>5, TableKept
  <2>7. Good(m, Remains(m, s, a))'
    BY <2>6
  <2>8. client'.view[m] = s /\ client'.at = a
    BY <1>5, <2>1, <2>2
  <2> QED BY <2>7, <2>8
<1> QED BY <1>2, <1>6, <1>8

LEMMA ReceiveStays ==
    ASSUME InformedInv, Observers!ReceiveEvent
    PROVE  InformedInv'
<1> USE DEF InformedInv
<1> DEFINE lagged == emitted - client.at > Ring
           next   == IF lagged THEN emitted - Ring + 1 ELSE client.at + 1
<1>1. /\ client # None /\ client.listed /\ client.at < emitted
      /\ client' = [client EXCEPT !.at = next, !.lagged = @ \/ lagged,
                       !.view = Observers!Learn(@, Observers!SessionEventToPb(ring[next - (emitted - Len(ring))]))]
      /\ UNCHANGED <<Observers!sessions, ring, emitted>>
  BY DEF Observers!ReceiveEvent
<1>2. OverInv' /\ GrantedInv' /\ RingInv'
  BY <1>1, TableKept
<1>3. /\ client \in [at : Nat, lagged : BOOLEAN, listed : BOOLEAN, view : [Watched -> Nat]]
      /\ client.at <= emitted /\ emitted \in Nat /\ Ring \in Nat
      /\ Len(ring) = IF emitted < Ring THEN emitted ELSE Ring
  BY <1>1, WatchAssumption DEF SessionTypes
<1>4. PICK e : e = EventAt(next)
  OBVIOUS
<1>5. PICK view : view = client.view
  OBVIOUS
<1> DEFINE learned == Observers!Learn(view, Observers!SessionEventToPb(e))
<1>6. client' = [at |-> next, lagged |-> client.lagged \/ lagged, listed |-> TRUE, view |-> learned]
  <2>1. ring[next - (emitted - Len(ring))] = e
    BY <1>4 DEF EventAt, First
  <2>2. client.listed \in BOOLEAN
    BY <1>3
  <2> HIDE DEF next, lagged
  <2> QED BY <1>1, <1>3, <1>5, <2>1, <2>2
<1>7. next \in Window /\ next \in Nat /\ next <= emitted
  BY <1>1, <1>3, WatchAssumption DEF Window, First
<1>8. e \in Events(begun) /\ e.session \in Nat /\ e.mac \in Watched
  BY <1>4, <1>7, InRing DEF Events
<1>9. /\ ~IsFinal(e) => learned = [view EXCEPT ![e.mac] = e.session]
      /\ IsFinal(e) /\ view[e.mac] = e.session => learned = [view EXCEPT ![e.mac] = 0]
      /\ IsFinal(e) /\ view[e.mac] # e.session => learned = view
  <2> DEFINE pb == Observers!SessionEventToPb(e)
  <2>1. pb.kind = e.kind /\ pb.mac = e.mac /\ pb.session = e.session
    BY DEF Observers!SessionEventToPb
  <2> HIDE DEF pb
  <2> QED BY <2>1 DEF Observers!Learn, IsFinal, pb
<1>10. view \in [Watched -> Nat]
  BY <1>3, <1>5
<1>11. learned \in [Watched -> Nat]
  BY <1>8, <1>9, <1>10
<1> HIDE DEF learned
<1>12. SessionTypes'
  <2>1. (client.lagged \/ lagged) \in BOOLEAN
    BY <1>3
  <2> HIDE DEF next, lagged
  <2>2. /\ client' \in [at : Nat, lagged : BOOLEAN, listed : BOOLEAN, view : [Watched -> Nat]]
        /\ client'.at <= emitted
    BY <1>6, <1>7, <1>11, <2>1
  <2> QED BY <1>1, <2>2 DEF SessionTypes, Observers!sessions
<1>13. ViewInv'
  <2> SUFFICES ASSUME Follows', NEW m \in Watched, Quiet(m, client.at)'
               PROVE  Good(m, Remains(m, client.view[m], client.at))'
    BY DEF ViewInv
  <2>1. PICK a : a = client.at
    OBVIOUS
  <2>2. ~lagged /\ ~client.lagged /\ next = a + 1 /\ a \in Nat
    BY <1>3, <1>6, <2>1 DEF Follows
  <2>3. Follows
    BY <1>1, <1>3, <2>2 DEF Follows
  <2>4. client'.at = a + 1 /\ client'.view = learned
    BY <1>6, <2>2
  <2>5. PICK s : s = learned[m]
    OBVIOUS
  <2>6. a + 1 \in Nat /\ s \in Nat
    BY <1>11, <2>2, <2>5
  <2>7. PICK b \in Nat : b = a + 1
    BY <2>6
  <2>8. b \in Nat
    BY <2>6, <2>7
  <2>9. Quiet(m, b)'
    BY <2>4, <2>7 DEF Quiet
  <2>10. Quiet(m, b)
    BY <1>1, <2>8, <2>9, TableKept
  <2>11. e = EventAt(b) /\ b \in Window
    BY <1>4, <1>7, <2>2, <2>7
  <2>12. \A k \in Window : k > a <=> k = b \/ k > b
    BY <1>3, <2>2, <2>7, WatchAssumption DEF Window, First
  <2>13. Good(m, Remains(m, s, b))
    <3>1. CASE Granted(m, b)
      <4>1. s = EventAt(b).session
        BY <1>8, <1>9, <1>10, <2>5, <2>11, <3>1 DEF Granted, IsFinal
      <4> QED BY <2>10, <2>11, <3>1, <4>1 DEF RingInv
    <3>2. CASE ~Granted(m, b)
      <4>1. Quiet(m, a)
        BY <2>10, <2>12, <3>2 DEF Quiet
      <4>2. Good(m, Remains(m, view[m], a))
        BY <1>5, <2>1, <2>3, <4>1 DEF ViewInv
      <4>3. CASE e.mac = m /\ e.session = view[m]
        <5>1. IsFinal(e) /\ s = 0
          BY <1>8, <1>9, <1>10, <2>5, <2>11, <3>2, <4>3 DEF Granted, IsFinal
        <5>2. EndedAfter(m, view[m], a)
          BY <2>11, <2>12, <4>3, <5>1 DEF EndedAfter
        <5> QED BY <4>2, <5>1, <5>2 DEF Remains
      <4>4. CASE ~(e.mac = m /\ e.session = view[m])
        <5>1. s = view[m]
          BY <1>8, <1>9, <1>10, <2>5, <2>11, <3>2, <4>4 DEF Granted, IsFinal
        <5>2. EndedAfter(m, s, a) <=> EndedAfter(m, s, b)
          BY <2>11, <2>12, <4>4, <5>1 DEF EndedAfter
        <5> QED BY <4>2, <5>1, <5>2 DEF Remains
      <4> QED BY <4>3, <4>4
    <3> QED BY <3>1, <3>2
  <2>14. PICK x : x = Remains(m, s, b)
    OBVIOUS
  <2>15. x \in Nat /\ Good(m, x)
    BY <2>6, <2>13, <2>14 DEF Remains
  <2>16. Good(m, x)' /\ Remains(m, s, b)' = x
    BY <1>1, <2>6, <2>8, <2>14, <2>15, TableKept
  <2>17. Good(m, Remains(m, s, b))'
    BY <2>16
  <2>18. client'.view[m] = s /\ client'.at = b
    BY <2>4, <2>5, <2>7
  <2> QED BY <2>17, <2>18
<1> QED BY <1>2, <1>12, <1>13

\* Whoever looks at the counters, or changes a flag, has no part in it.
LEMMA LookStays ==
    ASSUME InformedInv, UNCHANGED <<Observers!sessions, ring, emitted, client>>
    PROVE  InformedInv'
<1> USE DEF InformedInv
<1>1. OverInv' /\ GrantedInv' /\ RingInv'
  BY TableKept
<1>2. SessionTypes'
  BY DEF SessionTypes, Observers!sessions
<1>3. ViewInv'
  BY TableKept, ViewKept
<1> QED BY <1>1, <1>2, <1>3

\* Every step.
LEMMA InformedStays ==
    ASSUME InformedInv, Observers!Next
    PROVE  InformedInv'
<1>1. ASSUME NEW m \in Watched, Observers!Grant(m) \/ Observers!Adopt(m) \/ Observers!End(m)
      PROVE  InformedInv'
  BY <1>1, GrantStays, AdoptStays, EndStays
<1>2. ASSUME NEW e \in unsaid, Observers!Emit(e) PROVE InformedInv'
  BY <1>2, EmitStays
<1>3. CASE Observers!StreamEvents \/ Observers!ListSessions \/ Observers!ReceiveEvent
  BY <1>3, StreamStays, ListStays, ReceiveStays
<1>4. CASE \/ Observers!Scrape \/ Observers!GetMetrics \/ Observers!MarkReconcile
           \/ Observers!CpState \/ Observers!Health
  <2>1. UNCHANGED <<Observers!sessions, ring, emitted, client>>
    BY <1>4 DEF Observers!Scrape, Observers!GetMetrics, Observers!MarkReconcile, Observers!CpState,
                Observers!Health
  <2> QED BY <2>1, LookStays
<1> QED BY <1>1, <1>2, <1>3, <1>4 DEF Observers!Next

\* A client that has read everything, while nothing is pending.
LEMMA InformedFollows ==
    ASSUME InformedInv
    PROVE  Observers!Informed
<1> USE DEF InformedInv
<1> SUFFICES ASSUME client # None, client.listed, ~client.lagged, client.at = emitted, unsaid = {},
                    NEW m \in Watched
             PROVE  \/ live[m] = None /\ client.view[m] \in {0} \cup early
                    \/ live[m] # None /\ (live[m].adopted \/ client.view[m] = live[m].id)
  BY DEF Observers!Informed
<1>1. emitted \in Nat /\ Len(ring) \in Nat /\ Ring \in Nat
  BY WatchAssumption DEF SessionTypes
<1>2. Follows
  BY <1>1 DEF Follows
<1>3. \A k \in Window : ~(k > emitted)
  BY <1>1 DEF Window, First
<1>4. Good(m, client.view[m])
  BY <1>2, <1>3 DEF ViewInv, Quiet, Remains, EndedAfter
<1> QED BY <1>4 DEF Good, Pending, Unsettled, Ended

\* The sets that are counted: sessions, events that are pending, and what the counters of
\* the final events stand for.
There == {m \in Watched : live[m] # None}
Granting == {e \in unsaid : e.kind = "granted"}
Leaving(kinds) == {e \in unsaid : e.kind \in kinds}
Tokens(c) == {k \in Observers!Finals \X (1..MaxSessions) : k[2] <= c[k[1]]}

CountTypes ==
    /\ tally \in [Observers!Kinds \cup {"cp_disconnect"} -> Nat] /\ apart \in Int
    /\ begun \in 0..MaxSessions
    /\ IsFiniteSet(unsaid) /\ IsFiniteSet(Tokens(tally))

\* Whoever has gone by an event, or is about to, once was there.
KindBound ==
    \A kind \in Observers!Finals :
        tally[kind] + (Cardinality(Leaving({kind})) + Cardinality(There)) <= begun

\* Events that are pending are counted already.
Balance ==
    Cardinality(There) + (Cardinality(Tokens(tally)) + Cardinality(Leaving(Observers!Finals)))
        = (tally["granted"] + Cardinality(Granting)) + apart

TalliedInv == CountTypes /\ KindBound /\ Balance /\ Observers!Tallied

\* The counts are numbers.
LEMMA CountsAre ==
    ASSUME CountTypes
    PROVE  /\ IsFiniteSet(There) /\ Cardinality(There) \in Nat
           /\ IsFiniteSet(Granting) /\ Cardinality(Granting) \in Nat
           /\ Cardinality(Tokens(tally)) \in Nat
           /\ \A kinds : IsFiniteSet(Leaving(kinds)) /\ Cardinality(Leaving(kinds)) \in Nat
           /\ tally["granted"] \in Nat /\ \A kind \in Observers!Finals : tally[kind] \in Nat
<1>1. IsFiniteSet(There)
  <2>1. There \in SUBSET Watched
    BY DEF There
  <2> QED BY <2>1, FS_Subset, WatchAssumption
<1>2. IsFiniteSet(Granting)
  <2>1. Granting \in SUBSET unsaid
    BY DEF Granting
  <2> QED BY <2>1, FS_Subset DEF CountTypes
<1>3. ASSUME NEW kinds PROVE IsFiniteSet(Leaving(kinds))
  <2>1. Leaving(kinds) \in SUBSET unsaid
    BY DEF Leaving
  <2> QED BY <2>1, FS_Subset DEF CountTypes
<1>4. tally["granted"] \in Nat /\ \A kind \in Observers!Finals : tally[kind] \in Nat
  BY FinalsAre DEF CountTypes
<1>5. Cardinality(There) \in Nat
  BY <1>1, FS_CardinalityType
<1>6. Cardinality(Granting) \in Nat
  BY <1>2, FS_CardinalityType
<1>7. \A kinds : Cardinality(Leaving(kinds)) \in Nat
  BY <1>3, FS_CardinalityType
<1>8. Cardinality(Tokens(tally)) \in Nat
  BY FS_CardinalityType DEF CountTypes
<1> QED BY <1>1, <1>2, <1>3, <1>4, <1>5, <1>6, <1>7, <1>8

\* One element more, and one less.
LEMMA OneMore ==
    ASSUME NEW S, IsFiniteSet(S), NEW x, x \notin S
    PROVE  IsFiniteSet(S \cup {x}) /\ Cardinality(S \cup {x}) = Cardinality(S) + 1
BY FS_AddElement

LEMMA OneLess ==
    ASSUME NEW S, IsFiniteSet(S), NEW x, x \in S
    PROVE  /\ IsFiniteSet(S \ {x}) /\ Cardinality(S \ {x}) = Cardinality(S) - 1
           /\ Cardinality(S) \in Nat /\ Cardinality(S) >= 1
<1>1. IsFiniteSet(S \ {x}) /\ Cardinality(S \ {x}) = Cardinality(S) - 1
  BY FS_RemoveElement
<1>2. Cardinality(S \ {x}) \in Nat /\ Cardinality(S) \in Nat
  BY <1>1, FS_CardinalityType
<1> QED BY <1>1, <1>2

\* A scrape is all that says how many there are.
LEMMA NoScrape ==
    ASSUME Observers!Tallied, UNCHANGED shown \/ shown'.kind # "scrape"
    PROVE  Observers!Tallied'
BY DEF Observers!Tallied

\* Grant, Adopt, End and Emit.
LEMMA GrantCounts ==
    ASSUME InformedInv, TalliedInv, NEW m \in Watched, Observers!Grant(m)
    PROVE  TalliedInv'
<1> USE DEF InformedInv, TalliedInv
<1> DEFINE new == [id |-> begun + 1, adopted |-> FALSE]
           event == [kind |-> "granted", mac |-> m, session |-> begun + 1]
<1>1. /\ live' = [live EXCEPT ![m] = new] /\ unsaid' = unsaid \cup {event} /\ begun' = begun + 1
      /\ apart' = IF live[m] = None THEN apart ELSE apart - 1
      /\ UNCHANGED <<tally, shown>> /\ begun < MaxSessions
      /\ \A e \in unsaid : e.kind # "granted"
  BY DEF Observers!Grant, Observers!Say, Observers!Event, Observers!seen
<1>2. /\ begun \in 0..MaxSessions /\ MaxSessions \in Nat /\ apart \in Int /\ begun \in Nat
      /\ live \in [Watched -> [id : 1..begun, adopted : BOOLEAN] \cup {None}]
  BY WatchAssumption DEF SessionTypes, CountTypes
<1>3. new # None
  <2>1. new \in [id : Nat, adopted : BOOLEAN]
    BY <1>2
  <2> QED BY <2>1, NoneAssumption
<1>4. live'[m] = new /\ \A n \in Watched : n # m => live'[n] = live[n]
  BY <1>1, <1>2
<1>5. event.kind = "granted"
  OBVIOUS
<1> HIDE DEF new, event
<1>6. CountTypes'
  <2>1. IsFiniteSet(unsaid')
    BY <1>1, FS_AddElement DEF CountTypes
  <2>2. Tokens(tally)' = Tokens(tally)
    BY <1>1 DEF Tokens
  <2>3. begun' \in 0..MaxSessions /\ apart' \in Int
    BY <1>1, <1>2
  <2> QED BY <1>1, <2>1, <2>2, <2>3 DEF CountTypes
<1>7. There' = There \cup {m}
  BY <1>3, <1>4 DEF There
<1>8. /\ live[m] = None => m \notin There
      /\ live[m] # None => There \cup {m} = There
  BY DEF There
<1>9. Cardinality(There') = IF live[m] = None THEN Cardinality(There) + 1 ELSE Cardinality(There)
  BY <1>7, <1>8, CountsAre, OneMore
<1>10. Granting' = Granting \cup {event} /\ event \notin Granting
  BY <1>1, <1>5 DEF Granting
<1>11. Cardinality(Granting') = Cardinality(Granting) + 1
  BY <1>10, CountsAre, OneMore
<1>12. \A kinds : "granted" \notin kinds => Leaving(kinds)' = Leaving(kinds)
  BY <1>1, <1>5 DEF Leaving
<1>13. Leaving(Observers!Finals)' = Leaving(Observers!Finals) 
  BY <1>12, FinalsAre
<1>14. Tokens(tally)' = Tokens(tally)
  BY <1>1 DEF Tokens
<1>15. KindBound'
  <2> SUFFICES ASSUME NEW kind \in Observers!Finals
               PROVE  tally[kind]' + (Cardinality(Leaving({kind})') + Cardinality(There')) <= begun'
    BY DEF KindBound
  <2>1. Leaving({kind})' = Leaving({kind}) /\ tally[kind]' = tally[kind]
    BY <1>1, <1>12, FinalsAre
  <2>2. tally[kind] + (Cardinality(Leaving({kind})) + Cardinality(There)) <= begun
    BY DEF KindBound
  <2>3. /\ tally[kind] \in Nat /\ Cardinality(Leaving({kind})) \in Nat /\ Cardinality(There) \in Nat
        /\ begun \in Nat /\ begun' = begun + 1
    BY <1>1, <1>2, CountsAre
  <2> QED BY <1>9, <2>1, <2>2, <2>3
<1>16. Balance'
  <2>1. /\ Cardinality(There) \in Nat /\ Cardinality(Granting) \in Nat
        /\ Cardinality(Tokens(tally)) \in Nat /\ Cardinality(Leaving(Observers!Finals)) \in Nat
        /\ tally["granted"] \in Nat /\ tally' = tally
    BY <1>1, CountsAre
  <2>2. Cardinality(There) + (Cardinality(Tokens(tally)) + Cardinality(Leaving(Observers!Finals)))
          = (tally["granted"] + Cardinality(Granting)) + apart
    BY DEF Balance
  <2>3. Cardinality(There') + (Cardinality(Tokens(tally)) + Cardinality(Leaving(Observers!Finals)))
          = (tally["granted"] + Cardinality(Granting')) + apart'
    BY <1>1, <1>2, <1>9, <1>11, <2>1, <2>2
  <2> QED BY <1>13, <1>14, <2>1, <2>3 DEF Balance
<1> QED BY <1>1, <1>6, <1>15, <1>16, NoScrape

LEMMA AdoptCounts ==
    ASSUME InformedInv, TalliedInv, NEW m \in Watched, Observers!Adopt(m)
    PROVE  TalliedInv'
<1> USE DEF InformedInv, TalliedInv
<1> DEFINE new == [id |-> begun + 1, adopted |-> TRUE]
<1>1. /\ live' = [live EXCEPT ![m] = new] /\ begun' = begun + 1 /\ live[m] = None
      /\ apart' = apart + 1 /\ begun < MaxSessions
      /\ UNCHANGED <<unsaid, tally, shown>>
  BY DEF Observers!Adopt, Observers!seen
<1>2. /\ begun \in 0..MaxSessions /\ MaxSessions \in Nat /\ apart \in Int /\ begun \in Nat
      /\ live \in [Watched -> [id : 1..begun, adopted : BOOLEAN] \cup {None}]
  BY WatchAssumption DEF SessionTypes, CountTypes
<1>3. new # None
  <2>1. new \in [id : Nat, adopted : BOOLEAN]
    BY <1>2
  <2> QED BY <2>1, NoneAssumption
<1>4. live'[m] = new /\ \A n \in Watched : n # m => live'[n] = live[n]
  BY <1>1, <1>2
<1> HIDE DEF new
<1>5. Tokens(tally)' = Tokens(tally) /\ Granting' = Granting
  BY <1>1 DEF Tokens, Granting
<1>6. \A kinds : Leaving(kinds)' = Leaving(kinds)
  BY <1>1 DEF Leaving
<1>7. CountTypes'
  <2>1. begun' \in 0..MaxSessions /\ apart' \in Int
    BY <1>1, <1>2
  <2> QED BY <1>1, <1>5, <2>1 DEF CountTypes
<1>8. There' = There \cup {m} /\ m \notin There
  BY <1>1, <1>3, <1>4 DEF There
<1>9. Cardinality(There') = Cardinality(There) + 1
  BY <1>8, CountsAre, OneMore
<1>10. KindBound'
  <2> SUFFICES ASSUME NEW kind \in Observers!Finals
               PROVE  tally[kind]' + (Cardinality(Leaving({kind})') + Cardinality(There')) <= begun'
    BY DEF KindBound
  <2>1. tally[kind] + (Cardinality(Leaving({kind})) + Cardinality(There)) <= begun
    BY DEF KindBound
  <2>2. /\ tally[kind] \in Nat /\ Cardinality(Leaving({kind})) \in Nat /\ Cardinality(There) \in Nat
        /\ begun \in Nat /\ begun' = begun + 1 /\ tally' = tally
    BY <1>1, <1>2, CountsAre
  <2> QED BY <1>6, <1>9, <2>1, <2>2
<1>11. Balance'
  <2>1. /\ Cardinality(There) \in Nat /\ Cardinality(Granting) \in Nat
        /\ Cardinality(Tokens(tally)) \in Nat /\ Cardinality(Leaving(Observers!Finals)) \in Nat
        /\ tally["granted"] \in Nat /\ tally' = tally
    BY <1>1, CountsAre
  <2>2. Cardinality(There) + (Cardinality(Tokens(tally)) + Cardinality(Leaving(Observers!Finals)))
          = (tally["granted"] + Cardinality(Granting)) + apart
    BY DEF Balance
  <2>3. Cardinality(There') + (Cardinality(Tokens(tally)) + Cardinality(Leaving(Observers!Finals)))
          = (tally["granted"] + Cardinality(Granting)) + apart'
    BY <1>1, <1>2, <1>9, <2>1, <2>2
  <2> QED BY <1>5, <1>6, <2>1, <2>3 DEF Balance
<1> QED BY <1>1, <1>7, <1>10, <1>11, NoScrape

LEMMA EndCounts ==
    ASSUME InformedInv, TalliedInv, NEW m \in Watched, Observers!End(m)
    PROVE  TalliedInv'
<1> USE DEF InformedInv, TalliedInv
<1>1. PICK kind \in Observers!Finals :
         /\ live' = [live EXCEPT ![m] = None] /\ live[m] # None
         /\ unsaid' = unsaid \cup {[kind |-> kind, mac |-> m, session |-> live[m].id]}
         /\ UNCHANGED <<begun, apart, tally, shown>>
  BY DEF Observers!End, Observers!Say, Observers!Event, Observers!seen
<1> PICK event : event = [kind |-> kind, mac |-> m, session |-> live[m].id]
  OBVIOUS
<1>2. /\ live \in [Watched -> [id : 1..begun, adopted : BOOLEAN] \cup {None}] /\ begun \in Nat
      /\ apart \in Int
  BY DEF SessionTypes, CountTypes
<1>3. live'[m] = None /\ \A n \in Watched : n # m => live'[n] = live[n]
  BY <1>1, <1>2
<1>4. /\ event.kind = kind /\ kind \in Observers!Finals /\ kind # "granted" /\ event.session = live[m].id
      /\ unsaid' = unsaid \cup {event}
  BY <1>1, FinalsAre
<1>5. event \notin unsaid
  BY <1>1, <1>4 DEF OverInv, Alive, IsFinal
<1>6. Tokens(tally)' = Tokens(tally) /\ Granting' = Granting
  BY <1>1, <1>4 DEF Tokens, Granting
<1>7. /\ Leaving(Observers!Finals)' = Leaving(Observers!Finals) \cup {event}
      /\ event \notin Leaving(Observers!Finals)
  BY <1>4, <1>5 DEF Leaving
<1>8. /\ Leaving({kind})' = Leaving({kind}) \cup {event} /\ event \notin Leaving({kind})
  BY <1>4, <1>5 DEF Leaving
<1>9. \A other \in Observers!Finals : other # kind => Leaving({other})' = Leaving({other})
  BY <1>4 DEF Leaving
<1>10. /\ Cardinality(Leaving(Observers!Finals)') = Cardinality(Leaving(Observers!Finals)) + 1
       /\ Cardinality(Leaving({kind})') = Cardinality(Leaving({kind})) + 1
  BY <1>7, <1>8, CountsAre, OneMore
<1>11. There' = There \ {m} /\ m \in There
  BY <1>1, <1>3 DEF There
<1>12. Cardinality(There') = Cardinality(There) - 1
  BY <1>11, CountsAre, OneLess
<1>13. CountTypes'
  <2>1. IsFiniteSet(unsaid')
    BY <1>4, FS_AddElement DEF CountTypes
  <2> QED BY <1>1, <1>6, <2>1 DEF CountTypes
<1>14. KindBound'
  <2> SUFFICES ASSUME NEW other \in Observers!Finals
               PROVE  tally[other]' + (Cardinality(Leaving({other})') + Cardinality(There')) <= begun'
    BY DEF KindBound
  <2>1. tally[other] + (Cardinality(Leaving({other})) + Cardinality(There)) <= begun
    BY DEF KindBound
  <2>2. /\ tally[other] \in Nat /\ Cardinality(Leaving({other})) \in Nat /\ Cardinality(There) \in Nat
        /\ begun \in Nat /\ begun' = begun /\ tally' = tally
    BY <1>1, <1>2, CountsAre
  <2>3. CASE other = kind
    BY <1>10, <1>12, <2>1, <2>2, <2>3
  <2>4. CASE other # kind
    <3>1. Leaving({other})' = Leaving({other})
      BY <1>9, <2>4
    <3> QED BY <1>12, <2>1, <2>2, <3>1
  <2> QED BY <2>3, <2>4
<1>15. Balance'
  <2>1. /\ Cardinality(There) \in Nat /\ Cardinality(Granting) \in Nat
        /\ Cardinality(Tokens(tally)) \in Nat /\ Cardinality(Leaving(Observers!Finals)) \in Nat
        /\ tally["granted"] \in Nat /\ tally' = tally /\ apart' = apart
    BY <1>1, CountsAre
  <2>2. Cardinality(There) + (Cardinality(Tokens(tally)) + Cardinality(Leaving(Observers!Finals)))
          = (tally["granted"] + Cardinality(Granting)) + apart
    BY DEF Balance
  <2>3. Cardinality(There') + (Cardinality(Tokens(tally)) + Cardinality(Leaving(Observers!Finals)'))
          = (tally["granted"] + Cardinality(Granting)) + apart
    BY <1>2, <1>10, <1>12, <2>1, <2>2
  <2> QED BY <1>6, <2>1, <2>3 DEF Balance
<1> QED BY <1>1, <1>13, <1>14, <1>15, NoScrape

LEMMA EmitCounts ==
    ASSUME InformedInv, TalliedInv, NEW e \in unsaid, Observers!Emit(e)
    PROVE  TalliedInv'
<1> USE DEF InformedInv, TalliedInv
<1>1. /\ unsaid' = unsaid \ {e} /\ tally' = [tally EXCEPT ![e.kind] = @ + 1]
      /\ UNCHANGED <<live, begun, apart, shown>>
  BY DEF Observers!Emit, Observers!Incr, Observers!seen
<1>2. /\ tally \in [Observers!Kinds \cup {"cp_disconnect"} -> Nat] /\ e.kind \in Observers!Kinds
      /\ begun \in 0..MaxSessions /\ apart \in Int
  BY DEF CountTypes, SessionTypes, Events
<1>3. /\ tally'[e.kind] = tally[e.kind] + 1 /\ tally[e.kind] \in Nat
      /\ \A kind \in Observers!Kinds : kind # e.kind => tally'[kind] = tally[kind]
      /\ tally' \in [Observers!Kinds \cup {"cp_disconnect"} -> Nat]
  BY <1>1, <1>2
<1>4. There' = There
  BY <1>1 DEF There
<1>5. IsFiniteSet(unsaid')
  BY <1>1, FS_RemoveElement DEF CountTypes
<1>6. CASE e.kind = "granted"
  <2>1. Granting' = Granting \ {e} /\ e \in Granting
    BY <1>1, <1>6 DEF Granting
  <2>2. Cardinality(Granting') = Cardinality(Granting) - 1
    BY <2>1, CountsAre, OneLess
  <2>3. \A kinds : "granted" \notin kinds => Leaving(kinds)' = Leaving(kinds)
    BY <1>1, <1>6 DEF Leaving
  <2>4. \A kind \in Observers!Finals : tally'[kind] = tally[kind] /\ Leaving({kind})' = Leaving({kind})
    BY <1>3, <1>6, <2>3, FinalsAre
  <2>5. Tokens(tally)' = Tokens(tally)
    BY <2>4 DEF Tokens
  <2>6. CountTypes'
    BY <1>1, <1>3, <1>5, <2>5 DEF CountTypes
  <2>7. KindBound'
    BY <1>1, <1>4, <2>4 DEF KindBound
  <2>8. Balance'
    <3>1. /\ Cardinality(There) \in Nat /\ Cardinality(Granting) \in Nat
          /\ Cardinality(Tokens(tally)) \in Nat /\ Cardinality(Leaving(Observers!Finals)) \in Nat
          /\ tally["granted"] \in Nat /\ tally'["granted"] = tally["granted"] + 1
      BY <1>3, <1>6, CountsAre
    <3>2. Cardinality(There) + (Cardinality(Tokens(tally)) + Cardinality(Leaving(Observers!Finals)))
            = (tally["granted"] + Cardinality(Granting)) + apart
      BY DEF Balance
    <3>3. Cardinality(There) + (Cardinality(Tokens(tally)) + Cardinality(Leaving(Observers!Finals)))
            = (tally'["granted"] + Cardinality(Granting')) + apart
      BY <1>2, <2>2, <3>1, <3>2
    <3>4. Leaving(Observers!Finals)' = Leaving(Observers!Finals)
      BY <2>3, FinalsAre
    <3> QED BY <1>1, <1>4, <2>5, <3>3, <3>4 DEF Balance
  <2> QED BY <1>1, <2>6, <2>7, <2>8, NoScrape
<1>7. CASE e.kind # "granted"
  <2>1. PICK kind \in Observers!Finals : kind = e.kind
    BY <1>2, <1>7, FinalsAre
  <2>2. Granting' = Granting
    BY <1>1, <1>7 DEF Granting
  <2>3. /\ Leaving(Observers!Finals)' = Leaving(Observers!Finals) \ {e} /\ e \in Leaving(Observers!Finals)
        /\ Leaving({kind})' = Leaving({kind}) \ {e} /\ e \in Leaving({kind})
        /\ \A other : other # kind => Leaving({other})' = Leaving({other})
    BY <1>1, <2>1 DEF Leaving
  <2>4. /\ Cardinality(Leaving(Observers!Finals)') = Cardinality(Leaving(Observers!Finals)) - 1
        /\ Cardinality(Leaving({kind})') = Cardinality(Leaving({kind})) - 1
        /\ Cardinality(Leaving({kind})) >= 1
    BY <2>3, CountsAre, OneLess
  <2>5. /\ tally[kind] \in Nat /\ Cardinality(There) \in Nat /\ Cardinality(Leaving({kind})) \in Nat
        /\ tally[kind] + (Cardinality(Leaving({kind})) + Cardinality(There)) <= begun
        /\ tally'[kind] = tally[kind] + 1
    BY <1>3, <2>1, CountsAre DEF KindBound
  <2>6. PICK n : n = tally[kind] + 1
    OBVIOUS
  <2>7. n \in 1..MaxSessions
    BY <1>2, <2>4, <2>5, <2>6, WatchAssumption
  <2>8. \A other \in Observers!Finals : other # kind => tally'[other] = tally[other]
    BY <1>3, <2>1, FinalsAre
  <2>9. Tokens(tally)' = Tokens(tally) \cup {<<kind, n>>} /\ <<kind, n>> \notin Tokens(tally)
    <3>1. \A other \in Observers!Finals, i \in 1..MaxSessions :
             i <= tally'[other] <=> i <= tally[other] \/ (other = kind /\ i = n)
      BY <2>5, <2>6, <2>8
    <3>2. kind \in Observers!Finals
      BY <2>1
    <3>3. <<kind, n>> \notin Tokens(tally)
      BY <2>5, <2>6, <2>7 DEF Tokens
    <3>4. <<kind, n>> \in Tokens(tally)'
      BY <2>5, <2>6, <2>7, <3>2 DEF Tokens
    <3>5. \A k : k \in Tokens(tally)' <=> k \in Tokens(tally) \/ k = <<kind, n>>
      <4>1. ASSUME NEW k, k \in Tokens(tally)' PROVE k \in Tokens(tally) \/ k = <<kind, n>>
        <5>1. PICK other \in Observers!Finals, i \in 1..MaxSessions : k = <<other, i>> /\ i <= tally'[other]
          BY <4>1 DEF Tokens
        <5> QED BY <3>1, <5>1 DEF Tokens
      <4>2. ASSUME NEW k, k \in Tokens(tally) PROVE k \in Tokens(tally)'
        <5>1. PICK other \in Observers!Finals, i \in 1..MaxSessions : k = <<other, i>> /\ i <= tally[other]
          BY <4>2 DEF Tokens
        <5> QED BY <3>1, <5>1 DEF Tokens
      <4> QED BY <3>4, <4>1, <4>2
    <3> QED BY <3>3, <3>5
  <2>10. /\ IsFiniteSet(Tokens(tally)')
         /\ Cardinality(Tokens(tally)') = Cardinality(Tokens(tally)) + 1
    BY <2>9, OneMore DEF CountTypes
  <2>11. CountTypes'
    BY <1>1, <1>3, <1>5, <2>10 DEF CountTypes
  <2>12. KindBound'
    <3> SUFFICES ASSUME NEW other \in Observers!Finals
                 PROVE  tally'[other] + (Cardinality(Leaving({other})') + Cardinality(There)) <= begun
      BY <1>1, <1>4 DEF KindBound
    <3>1. CASE other = kind
      BY <2>4, <2>5, <3>1
    <3>2. CASE other # kind
      BY <2>3, <2>8, <3>2 DEF KindBound
    <3> QED BY <3>1, <3>2
  <2>13. Balance'
    <3>1. /\ Cardinality(There) \in Nat /\ Cardinality(Granting) \in Nat
          /\ Cardinality(Tokens(tally)) \in Nat /\ Cardinality(Leaving(Observers!Finals)) \in Nat
          /\ tally["granted"] \in Nat /\ tally'["granted"] = tally["granted"]
      BY <1>3, <1>7, CountsAre, FinalsAre
    <3>2. Cardinality(There) + (Cardinality(Tokens(tally)) + Cardinality(Leaving(Observers!Finals)))
            = (tally["granted"] + Cardinality(Granting)) + apart
      BY DEF Balance
    <3>3. Cardinality(There) + (Cardinality(Tokens(tally)') + Cardinality(Leaving(Observers!Finals)'))
            = (tally["granted"] + Cardinality(Granting)) + apart
      BY <2>4, <2>10, <3>1, <3>2
    <3> QED BY <1>1, <1>4, <2>2, <3>1, <3>3 DEF Balance
  <2> QED BY <1>1, <2>11, <2>12, <2>13, NoScrape
<1> QED BY <1>6, <1>7

\* Nobody who looks changes what is counted, but for the disconnects.
LEMMA LookCounts ==
    ASSUME TalliedInv, UNCHANGED Observers!sessions,
           \/ UNCHANGED tally
           \/ tally' = [tally EXCEPT !["cp_disconnect"] = @ + 1]
    PROVE  CountTypes' /\ KindBound' /\ Balance'
<1> USE DEF TalliedInv
<1>1. UNCHANGED <<live, unsaid, begun, apart>>
  BY DEF Observers!sessions
<1>2. /\ tally'["granted"] = tally["granted"]
      /\ \A kind \in Observers!Finals : tally'[kind] = tally[kind]
      /\ tally' \in [Observers!Kinds \cup {"cp_disconnect"} -> Nat]
  <2>1. tally \in [Observers!Kinds \cup {"cp_disconnect"} -> Nat]
    BY DEF CountTypes
  <2>2. CASE UNCHANGED tally
    BY <2>1, <2>2
  <2>3. CASE tally' = [tally EXCEPT !["cp_disconnect"] = @ + 1]
    <3>1. \A kind \in Observers!Kinds : kind # "cp_disconnect" => tally'[kind] = tally[kind]
      BY <2>1, <2>3
    <3>2. tally["cp_disconnect"] + 1 \in Nat
      BY <2>1
    <3> QED BY <2>1, <2>3, <3>1, <3>2, FinalsAre
  <2> QED BY <2>2, <2>3
<1>3. There' = There /\ Granting' = Granting /\ \A kinds : Leaving(kinds)' = Leaving(kinds)
  BY <1>1 DEF There, Granting, Leaving
<1>4. Tokens(tally)' = Tokens(tally)
  BY <1>2 DEF Tokens
<1>5. CountTypes'
  BY <1>1, <1>2, <1>4 DEF CountTypes
<1>6. KindBound'
  BY <1>1, <1>2, <1>3 DEF KindBound
<1>7. Balance'
  BY <1>1, <1>2, <1>3, <1>4 DEF Balance
<1> QED BY <1>5, <1>6, <1>7

\* The counting that Observers brings along is the same.
LEMMA SameCardinality ==
    ASSUME NEW S
    PROVE  Observers!Cardinality(S) = Cardinality(S)
BY Zenon DEF Observers!Cardinality, Cardinality

\* A scrape says what is there.
LEMMA ScrapeCounts ==
    ASSUME TalliedInv, Observers!Scrape
    PROVE  TalliedInv'
<1> USE DEF TalliedInv
<1>1. /\ shown' = [kind |-> "scrape", active |-> Observers!Active, counters |-> tally,
                   quiet |-> unsaid = {}, apart |-> apart]
      /\ UNCHANGED <<Observers!sessions, tally>>
  BY DEF Observers!Scrape, Observers!Render
<1>2. Observers!Active = Cardinality(There)
  BY SameCardinality DEF Observers!Active, There
<1>3. ASSUME unsaid = {}
      PROVE  Observers!Active = tally["granted"] + apart - Cardinality(Tokens(tally))
  <2>1. Granting = {} /\ Leaving(Observers!Finals) = {}
    BY <1>3 DEF Granting, Leaving
  <2>2. Cardinality(Granting) = 0 /\ Cardinality(Leaving(Observers!Finals)) = 0
    BY <2>1, FS_EmptySet
  <2>3. /\ Cardinality(There) \in Nat /\ Cardinality(Tokens(tally)) \in Nat
        /\ tally["granted"] \in Nat /\ apart \in Int
    BY CountsAre DEF CountTypes
  <2> QED BY <1>2, <2>2, <2>3 DEF Balance
<1>4. Observers!Tallied'
  <2> DEFINE r == shown'
  <2>1. /\ r.kind = "scrape" /\ r.quiet = (unsaid = {}) /\ r.active = Observers!Active
        /\ r.counters = tally /\ r.apart = apart
    BY <1>1
  <2> HIDE DEF r
  <2>2. r.quiet => r.active = r.counters["granted"] + r.apart - Cardinality(Tokens(r.counters))
    BY <1>3, <2>1
  <2> QED BY <2>2, SameCardinality DEF Observers!Tallied, Tokens, r
<1> QED BY <1>1, <1>4, LookCounts

\* Every step.
LEMMA TalliedStays ==
    ASSUME InformedInv, TalliedInv, Observers!Next
    PROVE  TalliedInv'
<1>1. ASSUME NEW m \in Watched, Observers!Grant(m) \/ Observers!Adopt(m) \/ Observers!End(m)
      PROVE  TalliedInv'
  BY <1>1, GrantCounts, AdoptCounts, EndCounts
<1>2. ASSUME NEW e \in unsaid, Observers!Emit(e) PROVE TalliedInv'
  BY <1>2, EmitCounts
<1>3. CASE Observers!Scrape
  BY <1>3, ScrapeCounts
<1>4. CASE \/ Observers!StreamEvents \/ Observers!ListSessions \/ Observers!ReceiveEvent
           \/ Observers!GetMetrics \/ Observers!MarkReconcile
           \/ Observers!CpState \/ Observers!Health
  <2>1. /\ UNCHANGED Observers!sessions
        /\ \/ UNCHANGED tally
           \/ tally' = [tally EXCEPT !["cp_disconnect"] = @ + 1]
    BY <1>4 DEF Observers!StreamEvents, Observers!ListSessions, Observers!ReceiveEvent,
                Observers!GetMetrics, Observers!MarkReconcile, Observers!CpState, Observers!Health,
                Observers!Incr
  <2>2. UNCHANGED shown \/ shown'.kind # "scrape"
    <3>1. CASE \/ Observers!StreamEvents \/ Observers!ListSessions \/ Observers!ReceiveEvent
               \/ Observers!MarkReconcile \/ Observers!CpState
      BY <3>1 DEF Observers!StreamEvents, Observers!ListSessions, Observers!ReceiveEvent,
                  Observers!MarkReconcile, Observers!CpState
    <3>2. CASE Observers!GetMetrics
      <4>1. shown' = Observers!MetricsToPb(Observers!Snapshot)
        BY <3>2 DEF Observers!GetMetrics
      <4> QED BY <4>1 DEF Observers!MetricsToPb
    <3>3. CASE Observers!Health
      <4>1. shown' = Observers!HealthToPb
        BY <3>3 DEF Observers!Health
      <4> QED BY <4>1 DEF Observers!HealthToPb
    <3> QED BY <1>4, <3>1, <3>2, <3>3
  <2> QED BY <2>1, <2>2, LookCounts, NoScrape DEF TalliedInv
<1> QED BY <1>1, <1>2, <1>3, <1>4 DEF Observers!Next

\* The start.
LEMMA WatchStarts ==
    ASSUME Observers!Init
    PROVE  InformedInv /\ TalliedInv
<1> USE DEF Observers!Init
<1>1. SessionTypes
  BY WatchAssumption DEF SessionTypes
<1>2. OverInv /\ GrantedInv
  BY DEF OverInv, GrantedInv
<1>3. RingInv
  BY DEF RingInv, Window, First
<1>4. ViewInv
  BY DEF ViewInv, Follows
<1>5. /\ tally["granted"] = 0 /\ \A kind \in Observers!Finals : tally[kind] = 0
      /\ tally \in [Observers!Kinds \cup {"cp_disconnect"} -> Nat]
  BY FinalsAre DEF Observers!Metrics
<1>6. There = {} /\ Granting = {} /\ \A kinds : Leaving(kinds) = {}
  BY DEF There, Granting, Leaving
<1>7. Tokens(tally) = {}
  BY <1>5 DEF Tokens
<1>8. CountTypes
  BY <1>5, <1>7, FS_EmptySet, WatchAssumption DEF CountTypes
<1>9. KindBound /\ Balance
  <2>1. apart = 0 /\ begun = 0
    OBVIOUS
  <2>2. /\ Cardinality(There) = 0 /\ Cardinality(Granting) = 0 /\ Cardinality(Tokens(tally)) = 0
        /\ \A kinds : Cardinality(Leaving(kinds)) = 0
    BY <1>6, <1>7, FS_EmptySet
  <2>3. KindBound
    <3> SUFFICES ASSUME NEW kind \in Observers!Finals
                 PROVE  tally[kind] + (Cardinality(Leaving({kind})) + Cardinality(There)) <= begun
      BY DEF KindBound
    <3>1. Cardinality(Leaving({kind})) = 0
      BY <2>2
    <3> QED BY <1>5, <2>1, <2>2, <3>1
  <2>4. Balance
    BY <1>5, <2>1, <2>2 DEF Balance
  <2> QED BY <2>3, <2>4
<1>10. Observers!Tallied
  BY DEF Observers!Tallied
<1> QED BY <1>1, <1>2, <1>3, <1>4, <1>8, <1>9, <1>10 DEF InformedInv, TalliedInv
-----------------------------------------------------------------------------
(* The theorems                                                            *)

\* The runtime settings that were acknowledged are those a restart finds, wherever the
\* daemon dies while it writes or applies them (runtime.rs, Store and its persist).
THEOREM SavedHolds == Spec => []SurvivesRestart
<1>1. Init => SurvivesRestart
  BY DEF Init, Runtime!Init, SurvivesRestart, Runtime!SurvivesRestart
<1>2. SurvivesRestart /\ [Next]_vars => SurvivesRestart'
  <2> SUFFICES ASSUME SurvivesRestart, [Next]_vars, part = "runtime"
               PROVE  Runtime!SurvivesRestart'
    BY OnePart DEF SurvivesRestart
  <2>1. CASE Runtime!Next
    BY <2>1, SavedStays DEF SurvivesRestart
  <2>2. CASE UNCHANGED runtimeVars
    BY <2>2 DEF runtimeVars, SurvivesRestart, Runtime!SurvivesRestart
  <2> QED BY OnePart, <2>1, <2>2
<1> QED BY <1>1, <1>2, PTL DEF Spec

\* What dnsmasq may read is whole and names no name it would refuse, whatever is pushed,
\* whenever the daemon dies while it renders (the garden's write and rename).
THEOREM DnsHolds == Spec => []DnsSafe
<1> DEFINE Inv == part = "runtime" => GardenInv
<1>1. Init => Inv
  BY DEF Init, Runtime!Init, GardenInv, Runtime!DnsSafe
<1>2. Inv /\ [Next]_vars => Inv'
  <2> SUFFICES ASSUME GardenInv, [Next]_vars, part = "runtime" PROVE GardenInv'
    BY OnePart
  <2>1. CASE UNCHANGED runtimeVars
    BY <2>1 DEF runtimeVars, GardenInv, Runtime!DnsSafe
  <2> QED BY OnePart, GardenStays, <2>1
<1>3. Inv => DnsSafe
  BY DEF DnsSafe, GardenInv
<1> QED BY <1>1, <1>2, <1>3, PTL DEF Spec

\* The portal reads from the location the identity of the client, whatever characters the
\* name of the store has, and a signature of that identity (location.rs: build_location).
THEOREM TrustHolds == Spec => []PortalTrusts
<1> DEFINE Inv == part = "portal" => SentInv
<1>1. Init => Inv
  BY DEF Init, Portal!Init, SentInv, Portal!Answer
<1>2. Inv /\ [Next]_vars => Inv'
  <2> SUFFICES ASSUME SentInv, [Next]_vars, part = "portal" PROVE SentInv'
    BY OnePart
  <2>1. CASE UNCHANGED portalVars
    BY <2>1 DEF portalVars, SentInv
  <2> QED BY OnePart, SentStays, <2>1
<1>3. Inv => PortalTrusts
  <2> SUFFICES ASSUME SentInv, answer.status = 302
               PROVE  LET read(key) == Portal!ValueOf(answer.location, key)
                      IN  /\ read("mac") = answer.mac
                          /\ Portal!Verify(read("mac"), read("nas_id"), read("ts")[1][2], read("sig"))
    BY DEF PortalTrusts, Portal!PortalTrusts
  <2>1. PICK m, ts : /\ answer.mac = Portal!MacText(m)
                     /\ answer.location = Portal!Location(Portal!MacText(m), StoreId, ts,
                                             Portal!Sign(Portal!MacText(m), StoreId, ts))
    BY DEF SentInv
  <2>2. <<Portal!Digits(ts)>>[1][2] = ts
    BY DEF Portal!Digits
  <2> QED BY <2>1, <2>2, LocationIs DEF Portal!Verify
<1> QED BY <1>1, <1>2, <1>3, PTL DEF Spec

\* No byte is counted twice, and while nothing has failed the counters are those of the
\* last poll's addresses, for any reservations and however polls are repeated, cut short
\* or begun again by another daemon (reconcile_counters).
THEOREM CountedHolds == Spec => []CountedOnce
<1> DEFINE Inv == part = "devices" => PollInv
<1>1. Init => Inv
  BY NoneAssumption DEF Init, Devices!Init, PollInv, Counted, Devices!Name, Devices!Of
<1>2. Inv /\ [Next]_vars => Inv'
  <2> SUFFICES ASSUME PollInv, [Next]_vars, part = "devices" PROVE PollInv'
    BY OnePart
  <2>1. CASE UNCHANGED devicesVars
    BY <2>1 DEF devicesVars, PollInv, Counted, Devices!Name, Devices!Of, Devices!Reconciled
  <2> QED BY OnePart, PollStays, <2>1
<1>3. Inv => CountedOnce
  BY DEF CountedOnce, Devices!CountedOnce, PollInv, Counted
<1> QED BY <1>1, <1>2, <1>3, PTL DEF Spec

\* A session has the cap it was granted with and no other, for any clients, hash of their
\* addresses, rates and number of grants, with either loop ending sessions in between,
\* commands of tc failing and the daemon dying, as far as CapKept vouches for it
\* (bandwidth.rs: apply and clear).
THEOREM CapsHold == Spec => []CapKept
<1> DEFINE Inv == part = "effects" => CapInv
<1>1. Init => Inv
  BY PartsAssumption, NoneAssumption
     DEF Init, Effects!Init, CapInv, EffectTypes, AloneInv, GrantInv, Sound, AtGrant, AtEnd,
         Effects!CapKept, Loops
<1>2. Inv /\ [Next]_vars => Inv'
  <2> SUFFICES ASSUME CapInv, [Next]_vars, part = "effects" PROVE CapInv'
    BY OnePart
  <2>1. CASE UNCHANGED effectsVars
    BY <2>1 DEF effectsVars, CapInv, EffectTypes, AloneInv, GrantInv, Sound, AtGrant, AtEnd,
         Effects!CapKept
  <2> QED BY OnePart, CapStays, <2>1
<1>3. Inv => CapKept
  BY DEF CapKept, CapInv
<1> QED BY <1>1, <1>2, <1>3, PTL DEF Spec

\* A client that is said to be off the Wi-Fi is off it, and one that is asked off and stays
\* where it is has left unless a call failed, for any access points among any objects
\* (deauth.rs: the round over the access points).
THEOREM OffAirHolds == Spec => []OffAir
<1> DEFINE Inv == part = "effects" => CapInv /\ RoundInv
<1>1. Init => Inv
  BY PartsAssumption, NoneAssumption
     DEF Init, Effects!Init, CapInv, EffectTypes, AloneInv, GrantInv, Sound, AtGrant, AtEnd,
         Effects!CapKept, Loops, RoundInv, Effects!OffAir
<1>2. Inv /\ [Next]_vars => Inv'
  <2> SUFFICES ASSUME CapInv, RoundInv, [Next]_vars, part = "effects"
               PROVE  CapInv' /\ RoundInv'
    BY OnePart
  <2>1. CASE UNCHANGED effectsVars
    BY <2>1 DEF effectsVars, CapInv, EffectTypes, AloneInv, GrantInv, Sound, AtGrant, AtEnd,
         Effects!CapKept, RoundInv, Effects!OffAir
  <2> QED BY OnePart, CapStays, RoundStays, <2>1
<1>3. Inv => OffAir
  BY DEF OffAir, RoundInv
<1> QED BY <1>1, <1>2, <1>3, PTL DEF Spec

\* A client that subscribes, lists and reads its stream knows the sessions once nobody is
\* about to speak, and a scrape tells how many there are, for any clients, reasons, number
\* of sessions and capacity of the channel (service.rs: the stream and its sink; metrics.rs).
THEOREM InformedHolds == Spec => []Informed
<1> DEFINE Inv == part = "observers" => InformedInv /\ TalliedInv
<1>1. Init => Inv
  BY WatchStarts DEF Init
<1>2. Inv /\ [Next]_vars => Inv'
  <2> SUFFICES ASSUME InformedInv, TalliedInv, [Next]_vars, part = "observers"
               PROVE  InformedInv' /\ TalliedInv'
    BY OnePart
  <2>1. CASE UNCHANGED observersVars
    <3>1. /\ UNCHANGED <<Observers!sessions, ring, emitted, client>>
          /\ UNCHANGED tally /\ UNCHANGED shown
      BY <2>1 DEF observersVars, Observers!sessions
    <3> QED BY <3>1, LookStays, LookCounts, NoScrape DEF TalliedInv
  <2> QED BY OnePart, InformedStays, TalliedStays, <2>1
<1>3. Inv => Informed
  BY InformedFollows DEF Informed, TalliedInv
<1> QED BY <1>1, <1>2, <1>3, PTL DEF Spec
=============================================================================
