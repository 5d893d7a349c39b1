--------------------------- MODULE SessionEndsProofs ---------------------------
(***************************************************************************)
(* The end of a session: one final event for each, none forgotten, and     *)
(* none the control plane has not heard of.  A session id wanders from the *)
(* pending grant to the table, from there to the sweep or to the task that *)
(* tears it down, and at last to its final event.  And how many of them    *)
(* the table may hold.                                                     *)
(***************************************************************************)
EXTENDS SessionGateProofs, FiniteSetTheorems

\* The session id that each client has in the table, and that each task tears down.
TableId == [m \in Mac |-> IF ram[m] = NoSession THEN Adopted ELSE ram[m].sid]
TornId  == [t \in Task |-> IF cur[t] = NoSession THEN Adopted ELSE cur[t].sid]

\* An id is in one place.
Once ==
    /\ \A m, n \in Mac : TableId[m] = TableId[n] /\ TableId[m] # Adopted => m = n
    /\ \A j, k \in held : j.sid = k.sid /\ j.sid # Adopted => j = k
    /\ \A t, u \in Task : TornId[t] = TornId[u] /\ TornId[t] # Adopted => t = u
    /\ \A m \in Mac, k \in held : TableId[m] = k.sid => k.sid = Adopted
    /\ \A m \in Mac, t \in Task : TableId[m] = TornId[t] => TornId[t] = Adopted
    /\ \A k \in held, t \in Task : k.sid = TornId[t] => k.sid = Adopted

\* One whose final event is out is in no place.
Gone ==
    /\ \A m \in Mac : TableId[m] \notin closed
    /\ \A k \in held : k.sid \notin closed
    /\ \A t \in Task : TornId[t] \notin closed

\* The control plane gave it out before, and not for the grant that is with the writer.
Used == IF pc["control"] = "add" THEN grants - 1 ELSE grants

Issued ==
    /\ pc["control"] \in {"add", "shape"} => pend.s.sid = grants
    /\ \A m \in Mac : TableId[m] <= Used
    /\ \A k \in held : k.sid <= Used
    /\ \A t \in Task : TornId[t] <= Used
    /\ \A i \in closed \cup owed : i <= Used

\* It was announced, or is about to be.
Known ==
    /\ \A m \in Mac : TableId[m] \in {Adopted} \cup announced \cup Announcing
    /\ \A k \in held : k.sid \in {Adopted} \cup announced \cup Announcing
    /\ \A t \in Task : TornId[t] \in {Adopted} \cup announced \cup Announcing

Places == Once /\ Gone /\ Issued /\ Known

\* A task that is not in a teardown has no ticket, and what the sweep holds is what it
\* will come to when the teardown at hand is over.
Passing ==
    /\ \A t \in Task : cur[t] # NoSession => pc[t] \in {"del", "unshape"}
    /\ held # {} => /\ pc["sweep"] \in {"expire", "del", "unshape"}
                    /\ cur["sweep"] # NoSession => cur["sweep"].why = "expired"
    /\ \A k \in held : k.why = "expired"

\* A daemon that is down has no sessions, and does nothing.
Down == ~up => (\A m \in Mac : ram[m] = NoSession) /\ (\A t \in Task : pc[t] = "idle")

\* What is tracked is owed an end; and what is owed is tracked, unless the metering loop
\* was dropped in the middle of a teardown.
Owing == Tracked \subseteq owed /\ ("rearm" \notin Faults => owed \subseteq Tracked)

EndsInv == TypeInv /\ Down /\ Passing /\ Places /\ Owing

-----------------------------------------------------------------------------
(* Down and Passing                                                          *)

LEMMA StepUp == ASSUME Down, NEW t \in Task, Step(t) PROVE up /\ up' = up
<1> USE DEF Down, kernel, calls, plans, history, Task
<1>1. CASE TeardownReap(t) \/ TeardownEnd(t)
  BY <1>1 DEF TeardownReap, TeardownEnd
<1>2. CASE GrantStep
  BY <1>2 DEF GrantStep, GrantRefused, GrantInsert, GrantAnnounce
<1>3. CASE MeterStep
  BY <1>3 DEF MeterStep, MeterApply, QuotaRevoke, QuotaDone
<1>4. CASE SweepStep
  BY <1>4 DEF SweepStep, ExpireTake, IdleTake, IdleDone, ExpireNext, IdleRevoke
<1>5. CASE ReconStep
  BY <1>5 DEF ReconStep, ListBegin, ListFailed, ReconcilePlan, ReconcileReadd,
     ReconcileDelete, ReconcileReply, ReconcileDone
<1>6. CASE ReapStep
  BY <1>6 DEF ReapStep, ListBegin, ListFailed, ReapPlan, ReapOrphan, ReapDone
<1> QED BY <1>1, <1>2, <1>3, <1>4, <1>5, <1>6 DEF Step

LEMMA NextDown == ASSUME Down, [Next]_vars PROVE Down'
<1> USE DEF kernel, calls, plans, history
<1>1. ASSUME NEW t \in Task, Step(t) PROVE Down'
  BY <1>1, StepUp DEF Down
<1>2. CASE Control \/ MeterRearm
  <2>1. up /\ up' = up
    BY <1>2 DEF Control, Revoke, GrantBegin, MeterRearm
  <2> QED BY <2>1 DEF Down
<1>6. CASE Restart
  BY <1>6 DEF Restart, Down
<1>3. CASE Crash \/ Reboot
  BY <1>3 DEF Crash, Reboot, DaemonGone, Down
<1>4. CASE Tick
  BY <1>4 DEF Tick, Down
<1>5. CASE Writer \/ Client \/ UNCHANGED vars
  BY <1>5 DEF Writer, WriterExec, WriterFail, Client, OpenFlow, EndFlow, KernelDrop, vars,
     Down
<1> QED BY <1>1, <1>2, <1>3, <1>4, <1>5, <1>6 DEF Next

LEMMA InitPassing == Init => Passing
  BY DEF Init, Passing

LEMMA RemovePassing ==
    ASSUME TypeInv, Passing, NEW t \in Task, NEW m \in Mac, NEW why \in Reason,
           RevokeRemove(t, m, why), held' = held, t = "sweep" => held = {}
    PROVE  Passing'
  BY DEF TypeInv, TypeOK, Passing, RevokeRemove, Goto, Task

LEMMA TeardownPassing ==
    ASSUME TypeInv, Passing, NEW t \in Task, TeardownReap(t) \/ TeardownEnd(t)
    PROVE  Passing'
<1> USE DEF TypeInv, TypeOK, Passing, Goto, Task
<1>1. CASE TeardownReap(t)
  BY <1>1 DEF TeardownReap
<1>2. CASE TeardownEnd(t)
  BY <1>2 DEF TeardownEnd, Busy, Resume
<1> QED BY <1>1, <1>2

LEMMA StepPassing ==
    ASSUME TypeInv, Passing, NEW t \in Task, Step(t) PROVE Passing'
<1> USE DEF TypeInv, TypeOK, Goto, Task, kernel, calls, plans, history
<1>1. CASE t = "control" /\ GrantStep
  BY <1>1 DEF Passing, GrantStep, GrantRefused, GrantInsert, GrantAnnounce
<1>2. CASE t = "meter" /\ MeterStep
  <2>1. ASSUME NEW S \in SUBSET Live, MeterApply(S) PROVE Passing'
    BY SMTT(30), <2>1 DEF Passing, MeterApply
  <2>2. ASSUME NEW m \in Mac, QuotaRevoke(m) PROVE Passing'
    <3>1. CASE RevokeRemove("meter", m, "quota")
      BY <2>2, <3>1, RemovePassing DEF QuotaRevoke, Reason
    <3>2. CASE UNCHANGED <<cur, ram, mail, pc, age>>
      BY <2>2, <3>2 DEF QuotaRevoke, Passing
    <3> QED BY <2>2, <3>1, <3>2 DEF QuotaRevoke
  <2>3. CASE QuotaDone
    BY <2>3 DEF QuotaDone, Passing
  <2> QED BY <1>2, <2>1, <2>2, <2>3 DEF MeterStep
<1>3. CASE t = "sweep" /\ SweepStep
  <2>1. CASE ExpireTake \/ IdleTake \/ IdleDone
    BY <2>1 DEF ExpireTake, IdleTake, IdleDone, TicketFor, Passing
  <2>2. ASSUME NEW k \in held, ExpireNext(k) PROVE Passing'
    BY <2>2 DEF ExpireNext, Passing
  <2>3. ASSUME NEW m \in Mac, IdleRevoke(m) PROVE Passing'
    <3>1. held = {}
      BY <2>3 DEF IdleRevoke, Passing
    <3>2. CASE RevokeRemove("sweep", m, "idle")
      BY <2>3, <3>1, <3>2, RemovePassing DEF IdleRevoke, Reason
    <3>3. CASE UNCHANGED <<cur, ram, mail, pc, age>>
      BY <2>3, <3>3 DEF IdleRevoke, Passing
    <3> QED BY <2>3, <3>2, <3>3 DEF IdleRevoke
  <2> QED BY <1>3, <2>1, <2>2, <2>3 DEF SweepStep
<1>4. CASE t = "recon" /\ ReconStep
  <2>1. cur' = cur /\ held' = held /\ \A u \in Task \ {"recon"} : pc'[u] = pc[u]
    BY <1>4 DEF ReconStep, ListBegin, ListFailed, ReconcilePlan, ReconcileReadd,
       ReconcileDelete, ReconcileReply, ReconcileDone
  <2>2. cur["recon"] = NoSession
    BY <1>4 DEF ReconStep, ListBegin, ListFailed, ReconcilePlan, ReconcileReadd,
       ReconcileDelete, ReconcileReply, ReconcileDone, Passing
  <2> QED BY <2>1, <2>2 DEF Passing
<1>5. CASE t = "reap" /\ ReapStep
  <2>1. cur' = cur /\ held' = held /\ \A u \in Task \ {"reap"} : pc'[u] = pc[u]
    BY <1>5 DEF ReapStep, ListBegin, ListFailed, ReapPlan, ReapOrphan, ReapDone
  <2>2. cur["reap"] = NoSession
    BY <1>5 DEF ReapStep, ListBegin, ListFailed, ReapPlan, ReapOrphan, ReapDone, Passing
  <2> QED BY <2>1, <2>2 DEF Passing
<1> QED BY <1>1, <1>2, <1>3, <1>4, <1>5, TeardownPassing DEF Step

LEMMA NextPassing ==
    ASSUME TypeInv, Passing, [Next]_vars PROVE Passing'
<1> USE DEF TypeInv, TypeOK, Goto, Task, kernel, calls, plans, history
<1>1. ASSUME NEW m \in Mac, Revoke(m) PROVE Passing'
  BY <1>1, RemovePassing DEF Revoke, Reason
<1>2. ASSUME NEW m \in Mac, NEW o \in Offers, GrantBegin(m, o) PROVE Passing'
  BY <1>2 DEF GrantBegin, Passing
<1>3. CASE Writer \/ Tick
  BY <1>3 DEF Writer, WriterExec, WriterFail, Tick, Passing
<1>4. CASE Client
  BY <1>4 DEF Client, OpenFlow, EndFlow, KernelDrop, Passing
<1>5. CASE MeterRearm
  BY <1>5 DEF MeterRearm, Passing
<1>6. CASE Crash \/ Reboot \/ Restart
  BY <1>6 DEF Crash, Reboot, DaemonGone, Restart, Passing
<1>7. CASE UNCHANGED vars
  BY <1>7 DEF vars, Passing
<1> QED BY <1>1, <1>2, <1>3, <1>4, <1>5, <1>6, <1>7, StepPassing DEF Next, Control

-----------------------------------------------------------------------------
(* How the ids move                                                          *)

LEMMA IdType ==
    ASSUME TypeInv
    PROVE  /\ TableId \in [Mac -> Sid \cup {Adopted}]
           /\ TornId \in [Task -> Sid \cup {Adopted}]
           /\ \A k \in held : k.sid \in Sid \cup {Adopted}
           /\ Adopted \notin Sid /\ Sid \subseteq Nat /\ grants \in Nat
           /\ closed \subseteq Sid /\ owed \subseteq Sid /\ announced \subseteq Sid
<1>1. TableId \in [Mac -> Sid \cup {Adopted}]
  BY DEF TypeInv, TypeOK, TableId, Session
<1>2. TornId \in [Task -> Sid \cup {Adopted}]
  BY DEF TypeInv, TypeOK, TornId, Ticket
<1>3. \A k \in held : k.sid \in Sid \cup {Adopted}
  BY DEF TypeInv, TypeOK, Ticket
<1>4. Adopted \notin Sid /\ Sid \subseteq Nat /\ grants \in Nat
  BY DEF TypeInv, TypeOK, Adopted, Sid
<1> QED BY <1>1, <1>2, <1>3, <1>4 DEF TypeInv, TypeOK

\* Where a tracked id is.
IsAt(i) == \/ \E m \in Mac : TableId[m] = i
           \/ \E k \in held : k.sid = i
           \/ \E t \in Task : TornId[t] = i

AtPlaces == \A i : i \in Tracked <=> i # Adopted /\ IsAt(i)

LEMMA TrackedIds == TypeInv => AtPlaces
<1> SUFFICES ASSUME TypeInv PROVE AtPlaces
  OBVIOUS
<1>1. \A i : i \in TableSids <=> i # Adopted /\ \E m \in Mac : TableId[m] = i
  BY IdType DEF TableSids, TableId, Live
<1>2. \A i : i \in HeldSids <=> i # Adopted /\ \E k \in held : k.sid = i
  BY IdType DEF HeldSids
<1>3. \A t \in Task : \A i : i \in TornSids(t) <=> i # Adopted /\ TornId[t] = i
  BY IdType DEF TornSids, TornId
<1> QED BY <1>1, <1>2, <1>3 DEF Tracked, IsAt, AtPlaces

LEMMA TrackedBoth == TypeInv /\ TypeInv' => AtPlaces /\ AtPlaces'
  BY TrackedIds, PTL

\* A step that is none of the control task's grants.
Aside ==
    /\ grants' = grants /\ announced' = announced
    /\ pc["control"] \in {"add", "shape"} \/ pc'["control"] \in {"add", "shape"} =>
           pc'["control"] = pc["control"] /\ pend'.s.sid = pend.s.sid

Settled == Places' /\ Owing'

LEMMA AsideUsed ==
    ASSUME Aside PROVE Used' = Used /\ Announcing' = Announcing
  BY DEF Aside, Used, Announcing

LEMMA UsedType == ASSUME TypeInv, Issued PROVE Used \in Nat /\ Adopted <= Used
<1>1. grants \in Nat
  BY IdType
<1>2. pc["control"] = "add" => grants \in Sid
  BY DEF Issued, TypeInv, TypeOK, Busy, Pending
<1> QED BY <1>1, <1>2 DEF Used, Adopted, Sid

\* Nothing moves.
LEMMA Still ==
    ASSUME EndsInv, TypeInv', Aside, TableId' = TableId, TornId' = TornId,
           UNCHANGED <<held, closed, owed>>
    PROVE  Settled
<1>1. Tracked' = Tracked
  BY TrackedBoth DEF EndsInv, AtPlaces, IsAt
<1>2. Places'
  BY AsideUsed DEF EndsInv, Places, Once, Gone, Issued, Known, Aside
<1> QED BY <1>1, <1>2 DEF Settled, EndsInv, Owing

\* A session leaves the table for a teardown.
LEMMA Removed ==
    ASSUME EndsInv, TypeInv', Aside, NEW t \in Task, NEW m \in Mac,
           TornId[t] = Adopted,
           TableId' = [TableId EXCEPT ![m] = Adopted],
           TornId' = [TornId EXCEPT ![t] = TableId[m]],
           UNCHANGED <<held, closed, owed>>
    PROVE  Settled
<1> USE IdType DEF EndsInv
<1>1. Tracked' = Tracked
  <2>1. \A i : i # Adopted => (IsAt(i)' <=> IsAt(i))
    BY DEF IsAt
  <2> QED BY <2>1, TrackedBoth DEF AtPlaces
<1>2. Once'
  BY DEF Places, Once
<1>3. Gone' /\ Issued' /\ Known'
  BY AsideUsed DEF Places, Gone, Issued, Known, Aside
<1> QED BY <1>1, <1>2, <1>3 DEF Settled, Places, Owing

\* Expired sessions leave the table for the sweep.
LEMMA Taken ==
    ASSUME EndsInv, TypeInv', Aside, held = {}, NEW gone \in SUBSET Live,
           TableId' = [m \in Mac |-> IF m \in gone THEN Adopted ELSE TableId[m]],
           held' = {TicketFor(m, "expired") : m \in gone},
           UNCHANGED <<TornId, closed, owed>>
    PROVE  Settled
<1> USE IdType DEF EndsInv
<1>1. \A m \in gone : TicketFor(m, "expired").sid = TableId[m]
  BY DEF TicketFor, TableId, Live
<1>2. /\ \A k \in held' : \E m \in gone : k = TicketFor(m, "expired") /\ k.sid = TableId[m]
      /\ \A m \in gone : \E k \in held' : k.sid = TableId[m]
  BY <1>1
<1>3. Tracked' = Tracked
  <2>1. \A i : i # Adopted => (IsAt(i)' <=> IsAt(i))
    BY <1>2 DEF IsAt, Live
  <2> QED BY <2>1, TrackedBoth DEF AtPlaces
<1>4. \A m \in Mac : TableId'[m] = IF m \in gone THEN Adopted ELSE TableId[m]
  BY DEF Live
<1>5. Once'
  <2>1. \A m, n \in Mac : TableId'[m] = TableId'[n] /\ TableId'[m] # Adopted => m = n
    BY <1>4 DEF Places, Once
  <2>2. \A j, k \in held' : j.sid = k.sid /\ j.sid # Adopted => j = k
    <3> SUFFICES ASSUME NEW j \in held', NEW k \in held', j.sid = k.sid, j.sid # Adopted
                 PROVE  j = k
      OBVIOUS
    <3>1. PICK m \in gone : j = TicketFor(m, "expired") /\ j.sid = TableId[m]
      BY <1>2
    <3>2. PICK n \in gone : k = TicketFor(n, "expired") /\ k.sid = TableId[n]
      BY <1>2
    <3>3. m = n
      BY <3>1, <3>2 DEF Places, Once, Live
    <3> QED BY <3>1, <3>2, <3>3
  <2>3. \A m \in Mac, k \in held' : TableId'[m] = k.sid => k.sid = Adopted
    BY <1>2, <1>4 DEF Places, Once, Live
  <2>4. \A m \in Mac, t \in Task : TableId'[m] = TornId'[t] => TornId'[t] = Adopted
    BY <1>4 DEF Places, Once
  <2>5. \A k \in held', t \in Task : k.sid = TornId'[t] => k.sid = Adopted
    BY <1>2 DEF Places, Once, Live
  <2> QED BY <2>1, <2>2, <2>3, <2>4, <2>5 DEF Places, Once
<1>6. Gone'
  BY <1>2, <1>4 DEF Places, Gone, Live
<1>7. Issued'
  BY <1>2, <1>4, AsideUsed, UsedType DEF Places, Issued, Aside, Live
<1>8. Known'
  BY <1>2, <1>4, AsideUsed DEF Places, Known, Aside, Live
<1> QED BY <1>3, <1>5, <1>6, <1>7, <1>8 DEF Settled, Places, Owing

\* The sweep turns to one of them.
LEMMA Picked ==
    ASSUME EndsInv, TypeInv', Aside, NEW k \in held, TornId["sweep"] = Adopted,
           held' = held \ {k}, TornId' = [TornId EXCEPT !["sweep"] = k.sid],
           UNCHANGED <<TableId, closed, owed>>
    PROVE  Settled
<1> USE IdType DEF EndsInv, Task
<1>1. Tracked' = Tracked
  <2>1. \A i : i # Adopted => (IsAt(i)' <=> IsAt(i))
    BY DEF IsAt
  <2> QED BY <2>1, TrackedBoth DEF AtPlaces
<1>2. Once'
  BY DEF Places, Once
<1>3. Gone' /\ Issued' /\ Known'
  BY AsideUsed DEF Places, Gone, Issued, Known, Aside
<1> QED BY <1>1, <1>2, <1>3 DEF Settled, Places, Owing

\* A teardown gets to its final event.
LEMMA Ended ==
    ASSUME EndsInv, TypeInv', Aside, NEW t \in Task,
           TornId' = [TornId EXCEPT ![t] = Adopted],
           closed' = closed \cup ({TornId[t]} \cap Sid),
           owed' = owed \ {TornId[t]},
           UNCHANGED <<TableId, held>>
    PROVE  Settled
<1> USE IdType DEF EndsInv
<1>1. Tracked' = Tracked \ {TornId[t]}
  <2>1. \A i : i # Adopted => (IsAt(i)' <=> IsAt(i) /\ i # TornId[t])
    BY DEF IsAt, Places, Once
  <2> QED BY <2>1, TrackedBoth DEF AtPlaces
<1>2. Once'
  BY DEF Places, Once
<1>3. Gone'
  BY DEF Places, Once, Gone
<1>4. Issued'
  BY AsideUsed, UsedType DEF Places, Issued, Aside
<1>5. Known'
  BY AsideUsed DEF Places, Known, Aside
<1> QED BY <1>1, <1>2, <1>3, <1>4, <1>5 DEF Settled, Places, Owing

\* The metering loop is dropped, with its ticket.
LEMMA Dropped ==
    ASSUME EndsInv, TypeInv', Aside, "rearm" \in Faults,
           TornId' = [TornId EXCEPT !["meter"] = Adopted],
           UNCHANGED <<TableId, held, closed, owed>>
    PROVE  Settled
<1> USE IdType DEF EndsInv, Task
<1>1. Tracked' \subseteq Tracked
  <2>1. \A i : i # Adopted => (IsAt(i)' => IsAt(i))
    BY DEF IsAt
  <2> QED BY <2>1, TrackedBoth DEF AtPlaces
<1>2. Once'
  BY DEF Places, Once
<1>3. Gone' /\ Known'
  BY AsideUsed DEF Places, Gone, Known, Aside
<1>4. Issued'
  BY AsideUsed, UsedType DEF Places, Issued, Aside
<1> QED BY <1>1, <1>2, <1>3, <1>4 DEF Settled, Places, Owing

\* The daemon is gone, with all it tracked and owed.
LEMMA Lost ==
    ASSUME EndsInv, TypeInv', DaemonGone PROVE Settled
<1> USE IdType DEF EndsInv
<1>1. /\ TableId' = [m \in Mac |-> Adopted] /\ TornId' = [t \in Task |-> Adopted]
      /\ held' = {} /\ owed' = {} /\ closed' = closed /\ grants' = grants
      /\ pc'["control"] = "idle"
  BY DEF DaemonGone, TableId, TornId, Task
<1>2. Tracked' = {}
  <2>1. \A i : ~(i # Adopted /\ IsAt(i)')
    BY <1>1 DEF IsAt
  <2> QED BY <2>1, TrackedBoth DEF AtPlaces
<1>3. Once' /\ Gone' /\ Known'
  BY <1>1 DEF Once, Gone, Known
<1>4. Issued'
  <2>1. Used <= grants /\ Used' = grants
    BY <1>1 DEF Used
  <2>2. Adopted <= grants
    BY DEF Adopted
  <2> QED BY <1>1, <2>1, <2>2, IdType DEF Issued, Places, Used
<1> QED BY <1>1, <1>2, <1>3, <1>4 DEF Settled, Places, Owing

\* A grant begins, is refused or is announced: nothing moves.
LEMMA StillGrant ==
    ASSUME EndsInv, TypeInv', TableId' = TableId, TornId' = TornId,
           UNCHANGED <<held, closed, owed>>,
           pc'["control"] \in {"add", "shape"} => pend'.s.sid = grants',
           Used' \in Nat, Used <= Used',
           announced \cup Announcing \subseteq announced' \cup Announcing'
    PROVE  Settled
<1> USE IdType, UsedType DEF EndsInv
<1>1. Tracked' = Tracked
  <2>1. \A i : IsAt(i)' <=> IsAt(i)
    BY DEF IsAt
  <2> QED BY <2>1, TrackedBoth DEF AtPlaces
<1>2. Once' /\ Gone'
  BY DEF Places, Once, Gone
<1>3. Known'
  BY DEF Places, Known
<1>4. Issued'
  <2>1. \A n \in Nat : n <= Used => n <= Used'
    BY DEF Places
  <2>2. (\A m \in Mac : TableId[m] \in Nat) /\ (\A t \in Task : TornId[t] \in Nat)
        /\ (\A k \in held : k.sid \in Nat) /\ closed \cup owed \subseteq Nat
    BY DEF Adopted
  <2> QED BY <2>1, <2>2 DEF Places, Issued
<1> QED BY <1>1, <1>2, <1>3, <1>4 DEF Settled, Places, Owing

LEMMA GrantBeginEnds ==
    ASSUME EndsInv, TypeInv', NEW m \in Mac, NEW o \in Offers, GrantBegin(m, o)
    PROVE  Settled
<1>1. TableId' = TableId /\ TornId' = TornId /\ UNCHANGED <<held, closed, owed, announced>>
  BY DEF GrantBegin, TableId, TornId
<1>2. pc["control"] = "idle" /\ pc'["control"] = "add"
  BY DEF GrantBegin, Goto, EndsInv, TypeInv, TypeOK, Task
<1>3. grants' = grants + 1 /\ pend'.s.sid = grants + 1
  BY DEF GrantBegin, NewSession
<1>4. Used = grants /\ Used' = grants /\ Announcing = {} /\ grants \in Nat
  BY <1>1, <1>2, <1>3, IdType DEF Used, Announcing, EndsInv
<1> QED BY <1>1, <1>2, <1>3, <1>4, StillGrant

LEMMA GrantRefusedEnds ==
    ASSUME EndsInv, TypeInv', GrantRefused PROVE Settled
<1>1. /\ TableId' = TableId /\ TornId' = TornId /\ UNCHANGED <<held, closed, owed>>
      /\ pc["control"] = "add" /\ pc'["control"] = "idle"
      /\ grants' = grants /\ announced' = announced
  BY DEF GrantRefused, Goto, TableId, TornId, EndsInv, TypeInv, TypeOK, Task, history
<1>2. Used = grants - 1 /\ Used' = grants /\ Announcing = {} /\ grants \in Nat
  BY <1>1, IdType DEF Used, Announcing, EndsInv
<1> QED BY <1>1, <1>2, StillGrant

LEMMA GrantAnnounceEnds ==
    ASSUME EndsInv, TypeInv', GrantAnnounce PROVE Settled
<1>1. /\ TableId' = TableId /\ TornId' = TornId /\ UNCHANGED <<held, closed, owed>>
      /\ pc["control"] = "shape" /\ pc'["control"] = "idle"
      /\ grants' = grants /\ announced' = announced \cup {pend.s.sid}
  BY DEF GrantAnnounce, Goto, TableId, TornId, EndsInv, TypeInv, TypeOK, Task
<1>2. Used = grants /\ Used' = grants /\ Announcing = {pend.s.sid} /\ grants \in Nat
  BY <1>1, IdType DEF Used, Announcing, EndsInv
<1> QED BY <1>1, <1>2, StillGrant

LEMMA GrantInsertEnds ==
    ASSUME EndsInv, TypeInv', GrantInsert PROVE Settled
<1> DEFINE m == pend.mac
<1> USE IdType DEF EndsInv
<1>1. m \in Mac /\ pend.s.sid \in Sid /\ pend.s # NoSession /\ pend.s.sid = grants
      /\ pc["control"] = "add" /\ pc'["control"] = "shape"
      /\ grants' = grants /\ announced' = announced /\ pend' = pend
      /\ UNCHANGED <<held, closed, cur>>
  BY GateAssumption DEF GrantInsert, Goto, TypeInv, TypeOK, Busy, Pending, Task, Places,
     Issued, GateAssumption
<1>2. TableId' = [TableId EXCEPT ![m] = grants]
  BY <1>1 DEF GrantInsert, TableId, TypeInv, TypeOK
<1>3. owed' = (owed \ {TableId[m]}) \cup {grants}
  BY <1>1 DEF GrantInsert, TableId, Live
<1>4. Used = grants - 1 /\ Used' = grants /\ grants \in Nat
      /\ Announcing = {} /\ Announcing' = {grants}
  BY <1>1 DEF Used, Announcing
<1>5. TornId' = TornId
  BY <1>1 DEF TornId
<1>6. /\ \A n \in Mac : TableId[n] < grants
      /\ \A k \in held : k.sid < grants
      /\ \A t \in Task : TornId[t] < grants
      /\ \A i \in closed \cup owed : i < grants
  <2>1. \A n \in Nat : n <= Used => n < grants
    BY <1>4
  <2> QED BY <2>1 DEF Places, Issued, Adopted
<1>7. Tracked' = (Tracked \ {TableId[m]}) \cup {grants}
  <2>1. grants # Adopted
    BY <1>1
  <2>2. \A i : i # Adopted => (IsAt(i)' <=> (IsAt(i) /\ i # TableId[m]) \/ i = grants)
    BY <1>1, <1>2, <1>5 DEF IsAt, Places, Once
  <2> QED BY <2>1, <2>2, TrackedBoth DEF AtPlaces
<1>8. Once'
  BY <1>1, <1>2, <1>5, <1>6 DEF Places, Once
<1>9. Gone' /\ Known'
  BY <1>1, <1>2, <1>4, <1>5, <1>6 DEF Places, Gone, Known
<1>10. Issued'
  <2>1. \A n \in Nat : n < grants => n <= Used'
    BY <1>4
  <2> QED BY <1>1, <1>2, <1>3, <1>4, <1>5, <1>6, <2>1 DEF Issued, Adopted
<1>11. Owing'
  BY <1>3, <1>7 DEF Owing
<1> QED BY <1>8, <1>9, <1>10, <1>11 DEF Settled, Places

-----------------------------------------------------------------------------
(* The steps                                                                 *)

LEMMA GrantEnds == ASSUME EndsInv, TypeInv', GrantStep PROVE Settled
  BY GrantRefusedEnds, GrantInsertEnds, GrantAnnounceEnds DEF GrantStep

LEMMA RemoveEnds ==
    ASSUME EndsInv, TypeInv', NEW t \in Task, NEW m \in Mac, NEW why \in Reason,
           RevokeRemove(t, m, why), pc[t] \notin {"add", "shape", "del", "unshape"},
           pend' = pend, UNCHANGED <<held, closed, owed, grants, announced>>
    PROVE  Settled
<1> USE GateAssumption DEF EndsInv, TypeInv, TypeOK, GateAssumption
<1>1. cur[t] = NoSession /\ TornId[t] = Adopted
  BY DEF Passing, TornId
<1>2. cur'[t] # NoSession /\ cur'[t].sid = ram[m].sid
  <2>1. m \in Live /\ cur' = [cur EXCEPT ![t] = TicketFor(m, why)]
    BY DEF RevokeRemove
  <2>2. TicketFor(m, why) \in Ticket
    BY <2>1, TicketType
  <2>3. TicketFor(m, why) # NoSession /\ TicketFor(m, why).sid = ram[m].sid
    BY <2>2 DEF TicketFor, Ticket
  <2>4. t \in DOMAIN cur
    OBVIOUS
  <2> QED BY <2>1, <2>3, <2>4, Zenon
<1>3. TableId' = [TableId EXCEPT ![m] = Adopted]
  BY DEF RevokeRemove, TableId
<1>4. TornId' = [TornId EXCEPT ![t] = TableId[m]]
  BY <1>2 DEF RevokeRemove, TornId, TableId, Live
<1>5. Aside
  BY DEF RevokeRemove, Goto, Aside, Task
<1> HIDE DEF EndsInv, TypeInv, TypeOK
<1> QED BY <1>1, <1>3, <1>4, <1>5, Removed

LEMMA TeardownEnds ==
    ASSUME EndsInv, TypeInv', NEW t \in Task, TeardownReap(t) \/ TeardownEnd(t)
    PROVE  Settled
<1> USE DEF EndsInv, TypeInv, TypeOK, Goto, Task
<1>1. CASE TeardownReap(t)
  <2>1. TableId' = TableId /\ TornId' = TornId /\ UNCHANGED <<held, closed, owed>>
    BY <1>1 DEF TeardownReap, TableId, TornId, history
  <2>2. Aside
    BY <1>1 DEF TeardownReap, Aside, history
  <2> HIDE DEF EndsInv, TypeInv, TypeOK
  <2> QED BY <2>1, <2>2, Still
<1>2. CASE TeardownEnd(t)
  <2>1. cur[t] # NoSession /\ TornId[t] = cur[t].sid
    BY <1>2 DEF TeardownEnd, Busy, TornId
  <2>2. TornId' = [TornId EXCEPT ![t] = Adopted]
    BY <1>2 DEF TeardownEnd, TornId
  <2>3. TableId' = TableId /\ held' = held
    BY <1>2 DEF TeardownEnd, TableId
  <2>4. Resume(cur[t].why) \in {"idle", "breached", "expire", "idlers"}
    BY <2>1 DEF Resume, Ticket, Reason
  <2>5. Aside
    BY <1>2, <2>4 DEF TeardownEnd, Aside
  <2>6. closed' = closed \cup ({TornId[t]} \cap Sid) /\ owed' = owed \ {TornId[t]}
    BY <1>2, <2>1 DEF TeardownEnd
  <2> HIDE DEF EndsInv, TypeInv, TypeOK
  <2> QED BY <2>2, <2>3, <2>5, <2>6, Ended
<1> QED BY <1>1, <1>2

\* A step of the others that leaves the table and the tickets alone.
LEMMA OtherStill ==
    ASSUME EndsInv, TypeInv', NEW t \in Task \ {"control"},
           UNCHANGED <<ram, cur, held, closed, owed, grants, announced, pend>>,
           \A u \in Task \ {t} : pc'[u] = pc[u]
    PROVE  Settled
<1>1. TableId' = TableId /\ TornId' = TornId
  BY DEF TableId, TornId
<1>2. Aside
  BY DEF Aside, Task
<1> QED BY <1>1, <1>2, Still

LEMMA MeterEnds == ASSUME EndsInv, TypeInv', MeterStep \/ MeterRearm PROVE Settled
<1> USE DEF Task, Goto, kernel, calls, plans, history
<1>1. ASSUME NEW S \in SUBSET Live, MeterApply(S) PROVE Settled
  <2>1. \A m \in S : ram[m] \in Session
    BY DEF EndsInv, TypeInv, TypeOK, Live
  <2>2. \A s \in Session : \A r \in Metered(s) : r \in Session /\ r.sid = s.sid
    <3> SUFFICES ASSUME NEW s \in Session, NEW r \in Metered(s)
                 PROVE  r \in Session /\ r.sid = s.sid
      OBVIOUS
    <3>1. 0 \in 0..IdleCap
      BY GateAssumption DEF GateAssumption, IdleCap
    <3>2. PICK o \in BOOLEAN : \/ r = [s EXCEPT !.base = TRUE, !.over = o]
                               \/ r = [s EXCEPT !.idle = 0, !.over = o]
                               \/ r = [s EXCEPT !.over = o]
      BY DEF Metered, Session
    <3> QED BY <3>1, <3>2 DEF Session
  <2>3. \A m \in Mac : \/ ram'[m] = NoSession /\ ram[m] = NoSession
                       \/ ram'[m] # NoSession /\ ram[m] # NoSession /\ ram'[m].sid = ram[m].sid
    BY <1>1, <2>1, <2>2, GateAssumption DEF MeterApply, GateAssumption
  <2>4. TableId' = TableId /\ TornId' = TornId
    <3>1. cur' = cur
      BY <1>1 DEF MeterApply
    <3>2. TableId' = TableId
      BY <2>3 DEF TableId
    <3> QED BY <3>1, <3>2 DEF TornId
  <2>5. Aside /\ UNCHANGED <<held, closed, owed>>
    BY <1>1 DEF MeterApply, Aside, EndsInv, TypeInv, TypeOK
  <2> QED BY <2>4, <2>5, Still
<1>2. ASSUME NEW m \in Mac, QuotaRevoke(m) PROVE Settled
  <2>1. CASE RevokeRemove("meter", m, "quota")
    BY <1>2, <2>1, RemoveEnds DEF QuotaRevoke, Reason
  <2>2. CASE UNCHANGED <<cur, ram, mail, pc, age>>
    BY <1>2, <2>2, OtherStill DEF QuotaRevoke
  <2> QED BY <1>2, <2>1, <2>2 DEF QuotaRevoke
<1>3. CASE QuotaDone
  BY <1>3, OtherStill DEF QuotaDone, EndsInv, TypeInv, TypeOK
<1>4. CASE MeterRearm
  <2>1. TableId' = TableId
    BY <1>4 DEF MeterRearm, TableId
  <2>2. cur' = [cur EXCEPT !["meter"] = NoSession]
    BY <1>4 DEF MeterRearm
  <2>3. TornId' = [TornId EXCEPT !["meter"] = Adopted]
    BY <2>2 DEF TornId, EndsInv, TypeInv, TypeOK
  <2>4. "rearm" \in Faults /\ UNCHANGED <<held, closed, owed>>
    BY <1>4 DEF MeterRearm, Fault
  <2>5. Aside
    BY <1>4 DEF MeterRearm, Aside, EndsInv, TypeInv, TypeOK
  <2> QED BY <2>1, <2>3, <2>4, <2>5, Dropped
<1> QED BY <1>1, <1>2, <1>3, <1>4 DEF MeterStep

LEMMA SweepEnds == ASSUME EndsInv, TypeInv', SweepStep PROVE Settled
<1> USE DEF Task, Goto, kernel, calls, plans, history
<1>1. CASE ExpireTake
  <2> DEFINE gone == {m \in Live : Expired(ram[m])}
  <2>1. held = {}
    BY <1>1 DEF ExpireTake, EndsInv, Passing
  <2>2. TableId' = [m \in Mac |-> IF m \in gone THEN Adopted ELSE TableId[m]]
    BY <1>1 DEF ExpireTake, TableId
  <2>3. held' = {TicketFor(m, "expired") : m \in gone} /\ UNCHANGED <<TornId, closed, owed>>
    BY <1>1 DEF ExpireTake, TornId
  <2>4. Aside
    BY <1>1 DEF ExpireTake, Aside, EndsInv, TypeInv, TypeOK
  <2> QED BY <2>1, <2>2, <2>3, <2>4, Taken
<1>2. CASE IdleTake \/ IdleDone
  BY <1>2, OtherStill DEF IdleTake, IdleDone, EndsInv, TypeInv, TypeOK
<1>3. ASSUME NEW k \in held, ExpireNext(k) PROVE Settled
  <2>1. TornId["sweep"] = Adopted
    BY <1>3 DEF ExpireNext, TornId, EndsInv, Passing
  <2>2. cur' = [cur EXCEPT !["sweep"] = k] /\ k # NoSession
    BY <1>3, GateAssumption DEF ExpireNext, EndsInv, TypeInv, TypeOK, GateAssumption
  <2>3. TornId' = [TornId EXCEPT !["sweep"] = k.sid]
    BY <2>2 DEF TornId, EndsInv, TypeInv, TypeOK
  <2>4. held' = held \ {k} /\ UNCHANGED <<TableId, closed, owed>>
    BY <1>3 DEF ExpireNext, TableId
  <2>5. Aside
    BY <1>3 DEF ExpireNext, Aside, EndsInv, TypeInv, TypeOK
  <2> QED BY <2>1, <2>3, <2>4, <2>5, Picked
<1>4. ASSUME NEW m \in Mac, IdleRevoke(m) PROVE Settled
  <2>1. CASE RevokeRemove("sweep", m, "idle")
    BY <1>4, <2>1, RemoveEnds DEF IdleRevoke, Reason
  <2>2. CASE UNCHANGED <<cur, ram, mail, pc, age>>
    BY <1>4, <2>2, OtherStill DEF IdleRevoke
  <2> QED BY <1>4, <2>1, <2>2 DEF IdleRevoke
<1> QED BY <1>1, <1>2, <1>3, <1>4 DEF SweepStep

LEMMA AdoptEnds ==
    ASSUME EndsInv, NEW A, \A e \in A : e.mac \notin Live, ram' = WithAdopted(A)
    PROVE  TableId' = TableId
<1>1. \A m \in Mac : \/ ram'[m] = ram[m]
                     \/ ram[m] = NoSession /\ ram'[m].sid = Adopted
  BY DEF WithAdopted, SynthSession, Live
<1> QED BY <1>1 DEF TableId

LEMMA ReconEnds == ASSUME EndsInv, TypeInv', ReconStep PROVE Settled
<1> USE DEF Task, Goto, kernel, calls, plans, history
<1>1. CASE ReconcilePlan
  <2>1. TableId' = TableId
    <3>1. CASE UnknownPolicy = "Adopt"
      <4>1. PICK A \in Room(Unknown, Cardinality(Live)) : ram' = WithAdopted(A)
        BY <1>1, <3>1 DEF ReconcilePlan
      <4>2. \A e \in A : e.mac \notin Live
        BY DEF Room, Unknown
      <4> QED BY <4>1, <4>2, AdoptEnds
    <3>2. CASE UnknownPolicy # "Adopt"
      BY <1>1, <3>2 DEF ReconcilePlan, TableId
    <3> QED BY <3>1, <3>2
  <2>2. TornId' = TornId /\ UNCHANGED <<held, closed, owed>>
    BY <1>1 DEF ReconcilePlan, TornId
  <2>3. Aside
    BY <1>1 DEF ReconcilePlan, Aside, EndsInv, TypeInv, TypeOK
  <2> QED BY <2>1, <2>2, <2>3, Still
<1>2. CASE ~ReconcilePlan
  <2>1. /\ UNCHANGED <<ram, cur, held, closed, owed, grants, announced, pend>>
        /\ \A u \in Task \ {"recon"} : pc'[u] = pc[u]
    BY <1>2 DEF ReconStep, ListBegin, ListFailed, ReconcileReadd, ReconcileDelete,
       ReconcileReply, ReconcileDone, EndsInv, TypeInv, TypeOK
  <2> QED BY <2>1, OtherStill
<1> QED BY <1>1, <1>2

LEMMA ReapEnds == ASSUME EndsInv, TypeInv', ReapStep PROVE Settled
<1> USE DEF Task, Goto, kernel, calls, plans, history
<1>1. /\ UNCHANGED <<ram, cur, held, closed, owed, grants, announced, pend>>
      /\ \A u \in Task \ {"reap"} : pc'[u] = pc[u]
  BY DEF ReapStep, ListBegin, ListFailed, ReapPlan, ReapOrphan, ReapDone, EndsInv, TypeInv,
     TypeOK
<1> QED BY <1>1, OtherStill

LEMMA QuietEnds ==
    ASSUME EndsInv, TypeInv', Tick \/ Writer \/ Client \/ UNCHANGED vars PROVE Settled
<1> USE DEF kernel, calls, plans, history
<1>1. TableId' = TableId
  <2>1. CASE Tick
    <3>1. \A m \in Mac : ram[m] # NoSession => ram'[m] # NoSession /\ ram'[m].sid = ram[m].sid
      BY <2>1, AgedType, GateAssumption DEF Tick, EndsInv, TypeInv, TypeOK, GateAssumption
    <3>2. \A m \in Mac : ram[m] = NoSession => ram'[m] = NoSession
      BY <2>1 DEF Tick
    <3> QED BY <3>1, <3>2 DEF TableId
  <2>2. CASE ~Tick
    BY <2>2 DEF Writer, WriterExec, WriterFail, Client, OpenFlow, EndFlow, KernelDrop,
       vars, TableId
  <2> QED BY <2>1, <2>2
<1>2. TornId' = TornId /\ UNCHANGED <<held, closed, owed>>
  BY DEF Tick, Writer, WriterExec, WriterFail, Client, OpenFlow, EndFlow, KernelDrop, vars,
     TornId
<1>3. Aside
  <2>1. CASE Tick
    <3>1. pend # NoSession => pend.s \in Session /\ pend'.s.sid = pend.s.sid
      BY <2>1, AgedType DEF Tick, EndsInv, TypeInv, TypeOK, Pending
    <3>2. pc["control"] \in {"add", "shape"} => pend # NoSession
      BY DEF EndsInv, TypeInv, Busy
    <3> QED BY <2>1, <3>1, <3>2 DEF Tick, Aside
  <2>2. CASE ~Tick
    BY <2>2 DEF Writer, WriterExec, WriterFail, Client, OpenFlow, EndFlow, KernelDrop,
       vars, Aside
  <2> QED BY <2>1, <2>2
<1> QED BY <1>1, <1>2, <1>3, Still

LEMMA CrashEnds ==
    ASSUME EndsInv, TypeInv', Crash \/ Reboot \/ Restart PROVE Settled
<1> USE DEF kernel, calls, plans, history
<1>1. CASE Crash \/ Reboot
  BY <1>1, Lost DEF Crash, Reboot
<1>2. CASE Restart
  <2> DEFINE E == {[mac |-> m, left |-> timer[m]] : m \in auth}
  <2>1. \A m \in Mac : m \notin Live
    BY <1>2 DEF Restart, EndsInv, Down, Live
  <2>2. TableId' = TableId
    <3>1. CASE \E A \in Room(E, 0) : ram' = WithAdopted(A)
      <4>1. PICK A \in Room(E, 0) : ram' = WithAdopted(A)
        BY <3>1
      <4>2. \A e \in A : e.mac \notin Live
        BY <2>1 DEF Room, Live
      <4> QED BY <4>1, <4>2, AdoptEnds
    <3>2. CASE UNCHANGED ram
      BY <3>2 DEF TableId
    <3> QED BY <1>2, <3>1, <3>2 DEF Restart
  <2>3. TornId' = TornId /\ UNCHANGED <<held, closed, owed>>
    BY <1>2 DEF Restart, TornId
  <2>4. Aside
    BY <1>2 DEF Restart, Aside
  <2> QED BY <2>2, <2>3, <2>4, Still
<1> QED BY <1>1, <1>2

LEMMA InitEnds == Init => EndsInv
<1> SUFFICES ASSUME Init PROVE EndsInv OBVIOUS
<1>1. TypeInv /\ Passing /\ Down
  BY InitType, InitPassing DEF Init, Down
<1>2. /\ TableId = [m \in Mac |-> Adopted] /\ TornId = [t \in Task |-> Adopted]
      /\ held = {} /\ owed = {} /\ closed = {} /\ Used = 0 /\ pc["control"] = "idle"
  BY DEF Init, TableId, TornId, Used, Task
<1>3. Places
  BY <1>2 DEF Places, Once, Gone, Issued, Known, Adopted
<1>4. Owing
  BY <1>1, <1>2, TrackedIds DEF AtPlaces, IsAt, Owing
<1> QED BY <1>1, <1>3, <1>4 DEF EndsInv

LEMMA NextEnds == EndsInv /\ [Next]_vars => EndsInv'
<1> SUFFICES ASSUME EndsInv, [Next]_vars PROVE EndsInv' OBVIOUS
<1>1. TypeInv' /\ Down' /\ Passing'
  BY NextType, NextDown, NextPassing DEF EndsInv
<1>2. ASSUME NEW t \in Task, Step(t) PROVE Settled
  BY <1>1, <1>2, TeardownEnds, GrantEnds, MeterEnds, SweepEnds, ReconEnds, ReapEnds DEF Step
<1>3. ASSUME NEW m \in Mac, Revoke(m) PROVE Settled
  BY <1>1, <1>3, RemoveEnds DEF Revoke, Task, Reason, history
<1>4. ASSUME NEW m \in Mac, NEW o \in Offers, GrantBegin(m, o) PROVE Settled
  BY <1>1, <1>4, GrantBeginEnds
<1>5. Settled
  BY <1>1, <1>2, <1>3, <1>4, QuietEnds, MeterEnds, CrashEnds DEF Next, Control
<1> QED BY <1>1, <1>5 DEF Settled, EndsInv

LEMMA EndsInductive == Spec => []EndsInv
  BY InitEnds, NextEnds, PTL DEF Spec

\* Only the end of a teardown emits a final event.
LEMMA ClosedKept ==
    ASSUME [Next]_vars PROVE closed' = closed \/ \E t \in Task : TeardownEnd(t)
<1> USE DEF kernel, calls, plans, history
<1>1. ASSUME NEW t \in Task, Step(t), ~TeardownEnd(t) PROVE closed' = closed
  <2>1. CASE TeardownReap(t) \/ GrantStep
    BY <2>1 DEF TeardownReap, GrantStep, GrantRefused, GrantInsert, GrantAnnounce
  <2>2. CASE MeterStep
    BY <2>2 DEF MeterStep, MeterApply, QuotaRevoke, QuotaDone
  <2>3. CASE SweepStep
    BY <2>3 DEF SweepStep, ExpireTake, IdleTake, IdleDone, ExpireNext, IdleRevoke
  <2>4. CASE ReconStep
    BY <2>4 DEF ReconStep, ListBegin, ListFailed, ReconcilePlan, ReconcileReadd,
       ReconcileDelete, ReconcileReply, ReconcileDone
  <2>5. CASE ReapStep
    BY <2>5 DEF ReapStep, ListBegin, ListFailed, ReapPlan, ReapOrphan, ReapDone
  <2> QED BY <1>1, <2>1, <2>2, <2>3, <2>4, <2>5 DEF Step
<1>2. CASE Control \/ MeterRearm \/ Crash \/ Reboot \/ Restart
  BY <1>2 DEF Control, Revoke, GrantBegin, MeterRearm, Crash, Reboot, DaemonGone, Restart
<1>3. CASE Writer \/ Tick \/ Client \/ UNCHANGED vars
  BY <1>3 DEF Writer, WriterExec, WriterFail, Tick, Client, OpenFlow, EndFlow, KernelDrop,
     vars
<1> QED BY <1>1, <1>2, <1>3 DEF Next

-----------------------------------------------------------------------------
(* The theorems                                                              *)

\* Every session ends at most once, whatever teardowns overlap: its id is in one place,
\* and once its final event is out no step brings it back.
THEOREM EndsOnce == Spec => []OneTerminal
<1>1. EndsInv => OneTerminal
  <2> SUFFICES ASSUME EndsInv PROVE OneTerminal OBVIOUS
  <2>1. /\ \A i \in TableSids : i # Adopted /\ \E m \in Mac : TableId[m] = i
        /\ \A i \in HeldSids : i # Adopted /\ \E k \in held : k.sid = i
        /\ \A t \in Task : \A i \in TornSids(t) : i # Adopted /\ TornId[t] = i
    BY IdType DEF TableSids, HeldSids, TornSids, TableId, TornId, Live, EndsInv
  <2>2. closed \cap Tracked = {}
    BY TrackedIds DEF AtPlaces, IsAt, EndsInv, Places, Gone
  <2> QED BY <2>1, <2>2 DEF OneTerminal, EndsInv, Places, Once
<1> QED BY <1>1, EndsInductive, PTL

\* No session is forgotten: unless the metering loop is retuned in the middle of a
\* teardown, what was inserted and not superseded is in the table or on its way to its
\* final event.
THEOREM NoneForgotten == ASSUME "rearm" \notin Faults PROVE Spec => []Accounted
<1>1. EndsInv => Accounted
  BY DEF EndsInv, Owing, Accounted
<1> QED BY <1>1, EndsInductive, PTL

\* A final event is of a session that the control plane was told of or is about to be,
\* however early it ends and whatever becomes of the shaper.
THEOREM EndsKnown == Spec => GrantedToo
<1>1. EndsInv /\ [Next]_vars => [closed' \ closed \subseteq announced \cup Announcing]_vars
  <2> SUFFICES ASSUME EndsInv, [Next]_vars
               PROVE  closed' \ closed \subseteq announced \cup Announcing
    OBVIOUS
  <2>1. ASSUME NEW t \in Task, TeardownEnd(t)
        PROVE  closed' \ closed \subseteq announced \cup Announcing
    <3>1. cur[t] # NoSession /\ TornId[t] = cur[t].sid
      BY <2>1 DEF TeardownEnd, TornId, EndsInv, TypeInv, Busy
    <3>2. closed' \ closed \subseteq {TornId[t]} \ {Adopted}
      BY <2>1, <3>1, IdType DEF TeardownEnd, EndsInv
    <3> QED BY <3>1, <3>2 DEF EndsInv, Places, Known
  <2> QED BY <2>1, ClosedKept
<1> QED BY <1>1, EndsInductive, PTL DEF Spec, GrantedToo

-----------------------------------------------------------------------------
(* The cap on the session table.  A grant checks it an await before it inserts, and the
   reconciler may fill the table up to the cap in that await: one session more than the cap,
   and never two, because the control plane is served one command at a time.              *)

\* While a grant is with the writer, the other clients fill the table at most to the cap.
Reserved == pc["control"] = "add" => Cardinality(Live \ {pend.mac}) <= MaxSessions

CapInv == TypeInv /\ Down /\ Reserved /\ CapPlusOne

\* How a step may leave the table, if it keeps the grant that is with the writer.
SameGrant == pc'["control"] = "add" => pc["control"] = "add" /\ pend'.mac = pend.mac

-----------------------------------------------------------------------------
(* Sizes                                                                     *)

LEMMA Without ==
    ASSUME NEW S, IsFiniteSet(S), NEW x
    PROVE  /\ IsFiniteSet(S \ {x}) /\ Cardinality(S \ {x}) \in Nat
           /\ Cardinality(S \ {x}) <= Cardinality(S)
           /\ x \in S => Cardinality(S \ {x}) = Cardinality(S) - 1
<1>1. Cardinality(S) \in Nat
  BY FS_CardinalityType
<1>2. /\ IsFiniteSet(S \ {x})
      /\ Cardinality(S \ {x}) = IF x \in S THEN Cardinality(S) - 1 ELSE Cardinality(S)
  BY FS_RemoveElement
<1>3. Cardinality(S \ {x}) \in Nat
  BY <1>2, FS_CardinalityType
<1> QED BY <1>1, <1>2, <1>3

LEMMA Joined ==
    ASSUME NEW S, IsFiniteSet(S), NEW T, IsFiniteSet(T), NEW U \in SUBSET (S \cup T)
    PROVE  /\ IsFiniteSet(U) /\ Cardinality(U) \in Nat
           /\ Cardinality(U) <= Cardinality(S) + Cardinality(T)
<1>1. Cardinality(S) \in Nat /\ Cardinality(T) \in Nat
  BY FS_CardinalityType
<1>2. Cardinality(S \cap T) \in Nat
  BY FS_Intersection, FS_CardinalityType
<1>3. /\ IsFiniteSet(S \cup T)
      /\ Cardinality(S \cup T) = Cardinality(S) + Cardinality(T) - Cardinality(S \cap T)
  BY FS_Union
<1>4. IsFiniteSet(U) /\ Cardinality(U) <= Cardinality(S \cup T)
  BY <1>3, FS_Subset
<1>5. Cardinality(U) \in Nat
  BY <1>4, FS_CardinalityType
<1> QED BY <1>1, <1>2, <1>3, <1>4, <1>5

\* A listing of the kernel set is finite, since the clients are.
LEMMA ElementsFinite == ASSUME NEW E \in SUBSET AuthElement PROVE IsFiniteSet(E)
<1> DEFINE f == [p \in Mac \X (0..MaxTTL) |-> [mac |-> p[1], left |-> p[2]]]
<1>1. IsFiniteSet(Mac \X (0..MaxTTL))
  <2>1. IsFiniteSet(Mac) /\ IsFiniteSet(0..MaxTTL)
    BY GateAssumption, FS_Interval DEF GateAssumption
  <2> QED BY Zenon, <2>1, FS_Product
<1>2. f \in Surjection(Mac \X (0..MaxTTL), AuthElement)
  <2>1. f \in [Mac \X (0..MaxTTL) -> AuthElement]
    BY DEF AuthElement
  <2>2. ASSUME NEW e \in AuthElement
        PROVE  \E p \in Mac \X (0..MaxTTL) : f[p] = e
    <3>1. <<e.mac, e.left>> \in Mac \X (0..MaxTTL)
      BY DEF AuthElement
    <3>2. f[<<e.mac, e.left>>] = [mac |-> e.mac, left |-> e.left]
      BY <3>1
    <3>3. e = [mac |-> e.mac, left |-> e.left]
      BY DEF AuthElement
    <3> QED BY <3>1, <3>2, <3>3
  <2> QED BY <2>1, <2>2 DEF Surjection
<1>3. IsFiniteSet(AuthElement)
  BY <1>1, <1>2, FS_Surjection
<1> QED BY <1>3, FS_Subset

-----------------------------------------------------------------------------
(* The shapes of a step                                                      *)

LEMMA LiveFinite ==
    /\ IsFiniteSet(Live) /\ Cardinality(Live) \in Nat
    /\ IsFiniteSet(Live') /\ Cardinality(Live') \in Nat
<1>1. IsFiniteSet(Live) /\ IsFiniteSet(Live')
  BY GateAssumption, FS_Subset DEF GateAssumption, Live
<1> QED BY <1>1, FS_CardinalityType

\* The table loses clients or stays as it is.
LEMMA Shrunk ==
    ASSUME CapInv, Live' \subseteq Live, SameGrant
    PROVE  Reserved' /\ CapPlusOne'
<1> USE GateAssumption, LiveFinite DEF GateAssumption
<1>1. Cardinality(Live') <= Cardinality(Live)
  BY FS_Subset
<1>2. CapPlusOne'
  BY <1>1 DEF CapInv, CapPlusOne
<1>3. ASSUME pc'["control"] = "add" PROVE Cardinality(Live' \ {pend'.mac}) <= MaxSessions
  <2>1. pc["control"] = "add" /\ pend'.mac = pend.mac
    BY <1>3 DEF SameGrant
  <2>2. Cardinality(Live \ {pend.mac}) <= MaxSessions
    BY <2>1 DEF CapInv, Reserved
  <2>3. IsFiniteSet(Live \ {pend.mac}) /\ IsFiniteSet(Live' \ {pend.mac})
    BY FS_RemoveElement
  <2>4. Cardinality(Live' \ {pend.mac}) <= Cardinality(Live \ {pend.mac})
    BY <2>3, FS_Subset
  <2> QED BY <2>1, <2>2, <2>3, <2>4, FS_CardinalityType
<1> QED BY <1>2, <1>3 DEF Reserved

\* The reconciler or the startup adopts clients of E.
LEMMA AdoptedCap ==
    ASSUME CapInv, SameGrant, NEW E, IsFiniteSet(E), NEW A \in Room(E, Cardinality(Live)),
           ram' = WithAdopted(A)
    PROVE  Reserved' /\ CapPlusOne'
<1> USE GateAssumption, LiveFinite DEF GateAssumption
<1>1. IsFiniteSet(A) /\ Cardinality(A) \in Nat /\ Cardinality(E) \in Nat
  BY FS_Subset, FS_CardinalityType DEF Room
<1>2. Live' \subseteq Live \cup {e.mac : e \in A}
  BY DEF Live, WithAdopted
<1> DEFINE M == {e.mac : e \in A}
<1>3. IsFiniteSet(M) /\ Cardinality(M) <= Cardinality(A) /\ Cardinality(M) \in Nat
  <2>1. [e \in A |-> e.mac] \in Surjection(A, M)
    BY DEF Surjection
  <2> QED BY <1>1, <2>1, FS_Surjection, FS_CardinalityType
<1>4. CASE Cardinality(Live) < MaxSessions
  <2>1. Cardinality(A) <= MaxSessions - Cardinality(Live)
    BY <1>1, <1>4 DEF Room
  <2>2. Cardinality(Live') <= Cardinality(Live) + Cardinality(M)
    BY <1>2, <1>3, Joined
  <2>3. Cardinality(Live') <= MaxSessions
    BY <1>1, <1>3, <2>1, <2>2
  <2>4. /\ Cardinality(Live' \ {pend'.mac}) <= Cardinality(Live')
        /\ Cardinality(Live' \ {pend'.mac}) \in Nat
    BY Without
  <2>5. CapPlusOne'
    BY <2>3 DEF CapPlusOne
  <2> QED BY <2>3, <2>4, <2>5 DEF Reserved
<1>5. CASE ~(Cardinality(Live) < MaxSessions)
  <2>1. A = {}
    BY <1>1, <1>5, FS_EmptySet DEF Room
  <2>2. Live' \subseteq Live
    BY <1>2, <2>1
  <2> QED BY <2>2, Shrunk
<1> QED BY <1>4, <1>5

LEMMA GrantCap ==
    ASSUME CapInv, NEW m \in Mac, NEW o \in Offers, GrantBegin(m, o)
    PROVE  Reserved' /\ CapPlusOne'
<1> USE GateAssumption, LiveFinite DEF GateAssumption
<1>1. Live' = Live /\ pend'.mac = m
  BY DEF GrantBegin, Live
<1>2. Cardinality(Live \ {m}) <= MaxSessions
  <2>1. m \in Live \/ Cardinality(Live) < MaxSessions
    BY DEF GrantBegin
  <2>2. Cardinality(Live) <= MaxSessions + 1
    BY DEF CapInv, CapPlusOne
  <2>3. /\ Cardinality(Live \ {m}) <= Cardinality(Live)
        /\ m \in Live => Cardinality(Live \ {m}) = Cardinality(Live) - 1
        /\ Cardinality(Live \ {m}) \in Nat
    BY Without
  <2> QED BY <2>1, <2>2, <2>3
<1>3. Cardinality(Live' \ {pend'.mac}) <= MaxSessions
  BY <1>1, <1>2
<1>4. Cardinality(Live') <= MaxSessions + 1
  BY <1>1 DEF CapInv, CapPlusOne
<1> QED BY <1>3, <1>4 DEF CapPlusOne, Reserved

LEMMA InsertCap ==
    ASSUME CapInv, GrantInsert
    PROVE  Reserved' /\ CapPlusOne'
<1> USE GateAssumption, LiveFinite DEF GateAssumption
<1>1. Live' \subseteq (Live \ {pend.mac}) \cup {pend.mac}
  BY DEF GrantInsert, Live, CapInv, TypeInv, TypeOK
<1>2. /\ IsFiniteSet(Live \ {pend.mac})
      /\ Cardinality(Live \ {pend.mac}) \in Nat
      /\ Cardinality(Live \ {pend.mac}) <= MaxSessions
  BY Without DEF GrantInsert, CapInv, Reserved
<1>3. IsFiniteSet({pend.mac}) /\ Cardinality({pend.mac}) = 1
  BY FS_Singleton
<1>4. Cardinality(Live') <= MaxSessions + 1
  BY <1>1, <1>2, <1>3, Joined
<1>5. pc'["control"] # "add"
  BY DEF GrantInsert, Goto, CapInv, TypeInv, TypeOK, Task
<1> QED BY <1>4, <1>5 DEF CapPlusOne, Reserved

-----------------------------------------------------------------------------
(* The steps                                                                 *)

LEMMA RemoveSheds ==
    ASSUME CapInv, NEW t \in Task, NEW m \in Mac, NEW why \in Reason,
           RevokeRemove(t, m, why), pend' = pend
    PROVE  Live' \subseteq Live /\ SameGrant
  BY DEF RevokeRemove, Live, SameGrant, Goto, CapInv, TypeInv, TypeOK, Task

LEMMA StepCap ==
    ASSUME CapInv, NEW t \in Task, Step(t) PROVE Reserved' /\ CapPlusOne'
<1> USE DEF CapInv, TypeInv, TypeOK, Goto, Task, kernel, calls, plans, history, Live,
        SameGrant
<1>1. CASE TeardownReap(t)
  BY <1>1, Shrunk DEF TeardownReap
<1>2. CASE TeardownEnd(t)
  <2>1. Resume(cur[t].why) # "add"
    BY <1>2 DEF TeardownEnd, Resume, Busy, Ticket, Reason
  <2> QED BY <1>2, <2>1, Shrunk DEF TeardownEnd
<1>3. CASE t = "control" /\ GrantStep
  <2>1. CASE GrantRefused \/ GrantAnnounce
    BY <2>1, Shrunk DEF GrantRefused, GrantAnnounce
  <2> QED BY <1>3, <2>1, InsertCap DEF GrantStep
<1>4. CASE t = "meter" /\ MeterStep
  <2>1. ASSUME NEW S \in SUBSET Live, MeterApply(S)
        PROVE  Live' \subseteq Live /\ SameGrant
    <3>1. ASSUME NEW m \in Mac, ram[m] = NoSession PROVE ram'[m] = NoSession
      BY <2>1, <3>1 DEF MeterApply
    <3> QED BY <2>1, <3>1 DEF MeterApply
  <2>2. ASSUME NEW m \in Mac, QuotaRevoke(m) PROVE Live' \subseteq Live /\ SameGrant
    <3>1. CASE RevokeRemove("meter", m, "quota")
      BY <2>2, <3>1, RemoveSheds DEF QuotaRevoke, Reason
    <3>2. CASE UNCHANGED <<cur, ram, mail, pc, age>>
      BY <2>2, <3>2 DEF QuotaRevoke
    <3> QED BY <2>2, <3>1, <3>2 DEF QuotaRevoke
  <2>3. CASE QuotaDone
    BY <2>3, Shrunk DEF QuotaDone
  <2> QED BY <1>4, <2>1, <2>2, <2>3, Shrunk DEF MeterStep
<1>5. CASE t = "sweep" /\ SweepStep
  <2>1. CASE ExpireTake
    BY <2>1, Shrunk DEF ExpireTake
  <2>2. CASE IdleTake \/ IdleDone \/ \E k \in held : ExpireNext(k)
    BY <2>2, Shrunk DEF IdleTake, IdleDone, ExpireNext
  <2>3. ASSUME NEW m \in Mac, IdleRevoke(m) PROVE Live' \subseteq Live /\ SameGrant
    <3>1. CASE RevokeRemove("sweep", m, "idle")
      BY <2>3, <3>1, RemoveSheds DEF IdleRevoke, Reason
    <3>2. CASE UNCHANGED <<cur, ram, mail, pc, age>>
      BY <2>3, <3>2 DEF IdleRevoke
    <3> QED BY <2>3, <3>1, <3>2 DEF IdleRevoke
  <2> QED BY <1>5, <2>1, <2>2, <2>3, Shrunk DEF SweepStep
<1>6. CASE t = "recon" /\ ReconStep
  <2>1. CASE ReconcilePlan
    <3>1. SameGrant
      BY <2>1 DEF ReconcilePlan
    <3>2. IsFiniteSet(Unknown)
      BY ElementsFinite DEF Unknown, Lister
    <3>3. CASE \E A \in Room(Unknown, Cardinality(Live)) : ram' = WithAdopted(A)
      <4>1. PICK A \in Room(Unknown, Cardinality(Live)) : ram' = WithAdopted(A)
        BY <3>3
      <4> HIDE DEF CapInv, SameGrant, Live
      <4> QED BY <3>1, <3>2, <4>1, AdoptedCap
    <3>4. CASE ram' = ram
      BY <3>1, <3>4, Shrunk
    <3> QED BY <2>1, <3>3, <3>4 DEF ReconcilePlan
  <2>2. CASE ReconStep /\ ~ReconcilePlan
    BY <2>2, Shrunk DEF ReconStep, ListBegin, ListFailed, ReconcileReadd,
       ReconcileDelete, ReconcileReply, ReconcileDone
  <2> QED BY <1>6, <2>1, <2>2
<1>7. CASE t = "reap" /\ ReapStep
  BY <1>7, Shrunk DEF ReapStep, ListBegin, ListFailed, ReapPlan, ReapOrphan, ReapDone
<1> QED BY <1>1, <1>2, <1>3, <1>4, <1>5, <1>6, <1>7 DEF Step

LEMMA OtherCap ==
    ASSUME CapInv,
           \/ Control \/ Writer \/ Tick \/ Client \/ MeterRearm
           \/ Crash \/ Reboot \/ Restart \/ UNCHANGED vars
    PROVE  Reserved' /\ CapPlusOne'
<1> USE DEF CapInv, TypeInv, TypeOK, Goto, Task, kernel, calls, plans, history, Live,
        SameGrant
<1>1. ASSUME NEW m \in Mac, Revoke(m) PROVE Reserved' /\ CapPlusOne'
  BY <1>1, RemoveSheds, Shrunk DEF Revoke, Reason
<1>2. CASE Writer \/ Client \/ MeterRearm \/ UNCHANGED vars
  BY <1>2, Shrunk DEF Writer, WriterExec, WriterFail, Client, OpenFlow, EndFlow, KernelDrop,
     MeterRearm, vars
<1>3. CASE Tick
  <2>1. Live' \subseteq Live
    BY <1>3 DEF Tick
  <2>2. SameGrant
    BY <1>3 DEF Tick, Pending, Busy
  <2> QED BY <2>1, <2>2, Shrunk
<1>4. CASE Crash \/ Reboot
  BY <1>4, Shrunk DEF Crash, Reboot, DaemonGone
<1>5. CASE Restart
  <2> DEFINE E == {[mac |-> m, left |-> timer[m]] : m \in auth}
  <2>1. SameGrant
    BY <1>5 DEF Restart
  <2>2. IsFiniteSet(E)
    BY ElementsFinite DEF AuthElement
  <2>3. Cardinality(Live) = 0
    BY <1>5, FS_EmptySet DEF Restart, Down
  <2>4. CASE \E A \in Room(E, 0) : ram' = WithAdopted(A)
    <3>1. PICK A \in Room(E, Cardinality(Live)) : ram' = WithAdopted(A)
      BY <2>3, <2>4
    <3> HIDE DEF CapInv, SameGrant, Live, E
    <3> QED BY <2>1, <2>2, <3>1, AdoptedCap
  <2>5. CASE ram' = ram
    BY <2>1, <2>5, Shrunk
  <2> QED BY <1>5, <2>4, <2>5 DEF Restart
<1> QED BY <1>1, <1>2, <1>3, <1>4, <1>5, GrantCap DEF Control

-----------------------------------------------------------------------------

\* The table passes its cap by one session at most: whatever the reconciler adopts while
\* a grant waits for the writer, for any cap, any clients and any kernel set.
THEOREM CapHolds == Spec => []CapPlusOne
<1>1. Init => CapInv
  <2> SUFFICES ASSUME Init PROVE CapInv OBVIOUS
  <2>1. Live = {}
    BY DEF Init, Live
  <2> QED BY <2>1, InitType, FS_EmptySet, GateAssumption
          DEF GateAssumption, Init, Down, CapInv, CapPlusOne, Reserved, Task
<1>2. CapInv /\ [Next]_vars => CapInv'
  <2> SUFFICES ASSUME CapInv, [Next]_vars PROVE CapInv' OBVIOUS
  <2>1. TypeInv' /\ Down'
    BY NextType, NextDown DEF CapInv
  <2>2. Reserved' /\ CapPlusOne'
    BY StepCap, OtherCap DEF Next
  <2> QED BY <2>1, <2>2 DEF CapInv
<1>3. CapInv => CapPlusOne
  BY DEF CapInv
<1> QED BY <1>1, <1>2, <1>3, PTL DEF Spec
=============================================================================
