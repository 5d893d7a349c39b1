--------------------------- MODULE SessionGateProofs ---------------------------
(***************************************************************************)
(* What holds of the session gate for every value of its constants.        *)
(***************************************************************************)
EXTENDS SessionGate, SequenceTheorems, TLAPS

\* A task that tears a session down has one, and so has a grant in progress.
Busy ==
    /\ \A t \in Task : pc[t] \in {"del", "unshape"} => cur[t] # NoSession
    /\ pc["control"] \in {"add", "shape"} => pend # NoSession

TypeInv == TypeOK /\ Busy

LEMMA AgedType ==
    ASSUME NEW s \in Session
    PROVE  Aged(s) \in Session /\ Aged(s).sid = s.sid
<1>1. s.left \in 0..MaxTTL /\ s.idle \in 0..IdleCap
  BY DEF Session
<1>2. Less(s.left) \in 0..MaxTTL
  BY <1>1, GateAssumption DEF GateAssumption, Less
<1>3. (IF s.idle < IdleCap THEN s.idle + 1 ELSE s.idle) \in 0..IdleCap
  BY <1>1, GateAssumption DEF GateAssumption, IdleCap
<1> QED BY <1>2, <1>3 DEF Aged, Session

LEMMA InitType == Init => TypeInv
  BY GateAssumption DEF GateAssumption, Init, TypeInv, TypeOK, Busy, Task, Lister,
     Periodic, Label

LEMMA TickType == TypeInv /\ Tick => TypeInv'
<1> SUFFICES ASSUME TypeInv, Tick PROVE TypeInv' OBVIOUS
<1> USE GateAssumption DEF GateAssumption, TypeInv, TypeOK, Busy, Tick, kernel, calls,
        plans, history
<1>1. timer' \in [Mac -> 0..MaxTTL] /\ lease' \in [Mac -> 0..MaxTTL]
  BY SMTT(30) DEF Less
<1>2. ram' \in [Mac -> Session \cup {NoSession}]
  BY AgedType
<1>3. pend' \in Pending \cup {NoSession}
  BY AgedType DEF Pending
<1>4. age' \in [Task -> 0..MaxDelay]
  OBVIOUS
<1>5. pend # NoSession => pend' # NoSession
  <2>1. CASE pend = NoSession \/ pc["control"] # "add"
    BY <2>1
  <2>2. CASE ~(pend = NoSession \/ pc["control"] # "add")
    <3>1. pend' \in Pending
      BY <2>2, AgedType DEF Pending
    <3> QED BY <3>1
  <2> QED BY <2>1, <2>2
<1> QED BY <1>1, <1>2, <1>3, <1>4, <1>5 DEF Periodic

\* A step that may take a fault keeps the fault count in its bound.
LEMMA FaultType ==
    ASSUME faults \in 0..MaxFaults, NEW k, Fault(k) \/ NoFault
    PROVE  faults' \in 0..MaxFaults
  BY GateAssumption DEF GateAssumption, Fault, NoFault

LEMMA NewSessionType ==
    ASSUME NEW o \in Offers, NEW sid \in Sid
    PROVE  NewSession(sid, o) \in Session /\ NewSession(sid, o).sid = sid
<1>1. o \in Offer
  BY GateAssumption DEF GateAssumption
<1>2. 0 \in 0..IdleCap
  BY GateAssumption DEF GateAssumption, IdleCap
<1> QED BY <1>1, <1>2 DEF Offer, NewSession, Session

LEMMA SynthSessionType ==
    ASSUME NEW n \in 0..MaxTTL PROVE SynthSession(n) \in Session
<1>1. 0 \in 0..IdleCap
  BY GateAssumption DEF GateAssumption, IdleCap
<1> QED BY <1>1 DEF SynthSession, Session

LEMMA TicketType ==
    ASSUME TypeOK, NEW m \in Live, NEW why \in Reason PROVE TicketFor(m, why) \in Ticket
  BY DEF TypeOK, Live, TicketFor, Ticket, Session

LEMMA AdoptedType ==
    ASSUME TypeOK, NEW A, A \subseteq AuthElement
    PROVE  WithAdopted(A) \in [Mac -> Session \cup {NoSession}]
<1> SUFFICES ASSUME NEW m \in Mac, \E e \in A : e.mac = m
             PROVE  SynthSession((CHOOSE e \in A : e.mac = m).left) \in Session
  BY DEF WithAdopted, TypeOK
<1>1. (CHOOSE e \in A : e.mac = m) \in AuthElement
  OBVIOUS
<1>2. (CHOOSE e \in A : e.mac = m).left \in 0..MaxTTL
  BY <1>1 DEF AuthElement
<1> QED BY <1>2, SynthSessionType

\* The mailbox after a command is sent and after one is taken.
LEMMA SendType ==
    ASSUME mail \in Seq(Command), NEW c \in Command, Send(c)
    PROVE  mail' \in Seq(Command)
  BY DEF Send

LEMMA MailTail ==
    ASSUME mail \in Seq(Command), mail # <<>>
    PROVE  Head(mail) \in Command /\ Tail(mail) \in Seq(Command)
  OBVIOUS

LEMMA ClientType ==
    ASSUME TypeInv, NEW m \in Mac, OpenFlow(m) \/ EndFlow(m) \/ KernelDrop(m)
    PROVE  TypeInv'
<1> USE GateAssumption DEF GateAssumption, TypeInv, TypeOK, Busy, kernel, calls, plans,
        history
<1>1. CASE OpenFlow(m) \/ EndFlow(m)
  BY <1>1 DEF OpenFlow, EndFlow
<1>2. CASE KernelDrop(m)
  <2>1. faults' \in 0..MaxFaults
    BY <1>2, FaultType DEF KernelDrop
  <2> QED BY <1>2, <2>1 DEF KernelDrop
<1> QED BY <1>1, <1>2

LEMMA WriterType ==
    ASSUME TypeInv, Writer PROVE TypeInv'
<1> USE GateAssumption DEF GateAssumption, TypeInv, TypeOK, Busy, kernel, calls, plans,
        history
<1> DEFINE c == Head(mail)
<1>1. mail # <<>> /\ mail' \in Seq(Command) /\ c \in Command
  BY MailTail DEF Writer, WriterExec, WriterFail
<1>2. CASE WriterFail
  <2>1. faults' \in 0..MaxFaults
    BY <1>2, FaultType DEF WriterFail
  <2>2. reply' \in [Task -> {"none", "ok", "err"}]
    BY SMTT(30), <1>1, <1>2 DEF WriterFail, Answer, Command, Task, Lister
  <2> QED BY SMTT(30), <1>1, <1>2, <2>1, <2>2 DEF WriterFail
<1>3. CASE WriterExec /\ ExecAdd(c)
  <2>1. c.mac \in Mac /\ c.left \in 0..MaxTTL
    BY <1>1, <1>3 DEF ExecAdd, Command
  <2>2. timer' \in [Mac -> 0..MaxTTL] /\ lease' \in [Mac -> 0..MaxTTL]
    <3>1. timer \in [Mac -> 0..MaxTTL] /\ lease \in [Mac -> 0..MaxTTL]
      OBVIOUS
    <3>2. timer' = timer \/ timer' = [timer EXCEPT ![c.mac] = c.left]
      BY <1>3 DEF ExecAdd
    <3>3. \/ lease' = lease
          \/ lease' = [lease EXCEPT ![c.mac] = IF @ < c.left THEN c.left ELSE @]
      BY <1>3 DEF ExecAdd
    <3> HIDE DEF GateAssumption, TypeInv, TypeOK, Busy
    <3>4. timer' \in [Mac -> 0..MaxTTL]
      BY <2>1, <3>1, <3>2
    <3>5. lease' \in [Mac -> 0..MaxTTL]
      BY <2>1, <3>1, <3>3
    <3> QED BY <3>4, <3>5
  <2>3. reply' \in [Task -> {"none", "ok", "err"}]
    BY <1>1, <1>3 DEF ExecAdd, Answer, Command, Task, Lister
  <2>4. auth' \subseteq Mac
    BY <1>3, <2>1 DEF ExecAdd
  <2> QED BY <1>1, <1>3, <2>2, <2>3, <2>4 DEF WriterExec, ExecAdd, NoFault
<1>4. CASE WriterExec /\ ExecDel(c)
  <2>1. c.mac \in Mac
    BY <1>1, <1>4 DEF ExecDel, Command
  <2>2. reply' \in [Task -> {"none", "ok", "err"}]
    BY <1>1, <1>4 DEF ExecDel, Answer, Command, Task, Lister
  <2>3. auth' \subseteq Mac /\ timer' \in [Mac -> 0..MaxTTL]
    BY <1>4, <2>1 DEF ExecDel
  <2> QED BY <1>1, <1>4, <2>2, <2>3 DEF WriterExec, ExecDel, NoFault
<1>5. CASE WriterExec /\ ExecList(c)
  <2>1. reply' \in [Task -> {"none", "ok", "err"}]
    BY <1>1, <1>5 DEF ExecList, Answer, Command, Task, Lister
  <2>2. {[mac |-> m, left |-> timer[m]] : m \in auth} \subseteq AuthElement
    BY DEF AuthElement
  <2>3. seen' \in [Lister -> SUBSET AuthElement]
    BY <1>5, <2>2 DEF ExecList
  <2> QED BY <1>1, <1>5, <2>1, <2>3 DEF WriterExec, ExecList, NoFault
<1> QED BY <1>2, <1>3, <1>4, <1>5 DEF Writer, WriterExec

LEMMA GrantType ==
    ASSUME TypeInv,
           GrantStep \/ \E m \in Mac, o \in Offers : GrantBegin(m, o)
    PROVE  TypeInv'
<1> USE GateAssumption DEF GateAssumption, TypeInv, TypeOK, Busy, kernel, calls, plans,
        history, Goto, Task, Label, TakeReply
<1>1. ASSUME NEW m \in Mac, NEW o \in Offers, GrantBegin(m, o) PROVE TypeInv'
  <2>1. grants + 1 \in Sid
    BY <1>1 DEF GrantBegin, Sid
  <2>2. pend' \in Pending
    BY <1>1, <2>1, NewSessionType DEF GrantBegin, Pending
  <2>3. o.ttl \in 0..MaxTTL
    BY DEF Offer
  <2>4. mail' \in Seq(Command)
    BY <1>1, <2>3, SendType DEF GrantBegin, Command
  <2>5. grants' \in 0..MaxGrants
    BY <1>1 DEF GrantBegin
  <2> QED BY <1>1, <2>2, <2>4, <2>5 DEF GrantBegin
<1>2. CASE GrantRefused
  BY <1>2 DEF GrantRefused
<1>3. CASE GrantInsert
  <2>1. pend.mac \in Mac /\ pend.s \in Session /\ pend.s.sid \in Sid
    BY <1>3 DEF GrantInsert, Pending
  <2>2. ram' \in [Mac -> Session \cup {NoSession}]
    BY <1>3, <2>1 DEF GrantInsert
  <2>3. owed' \subseteq Sid
    BY <1>3, <2>1 DEF GrantInsert
  <2> QED BY <1>3, <2>2, <2>3 DEF GrantInsert
<1>4. CASE GrantAnnounce
  <2>1. pend.mac \in Mac /\ pend.s.sid \in Sid
    BY <1>4 DEF GrantAnnounce, Pending
  <2>2. faults' \in 0..MaxFaults
    BY <1>4, FaultType DEF GrantAnnounce
  <2>3. shaped' \subseteq Mac /\ announced' \subseteq Sid
    BY <1>4, <2>1 DEF GrantAnnounce
  <2> QED BY <1>4, <2>2, <2>3 DEF GrantAnnounce
<1> QED BY <1>1, <1>2, <1>3, <1>4 DEF GrantStep

\* Taking a session out of the table for teardown keeps the types, whoever does it.
LEMMA RemoveType ==
    ASSUME TypeInv, NEW t \in Task, NEW m \in Mac, NEW why \in Reason,
           RevokeRemove(t, m, why)
    PROVE  /\ ram' \in [Mac -> Session \cup {NoSession}]
           /\ mail' \in Seq(Command)
           /\ pc' \in [Task -> Label] /\ age' \in [Task -> 0..MaxDelay]
           /\ cur' \in [Task -> Ticket \cup {NoSession}]
           /\ \A u \in Task : pc'[u] \in {"del", "unshape"} => cur'[u] # NoSession
           /\ t # "control" => pc'["control"] = pc["control"]
           /\ t = "control" => pc'["control"] = "del"
<1> USE GateAssumption DEF GateAssumption, TypeInv, TypeOK, Busy, RevokeRemove, Goto
<1>1. TicketFor(m, why) \in Ticket
  BY TicketType
<1>2. mail' \in Seq(Command)
  BY SendType DEF Command
<1> QED BY <1>1, <1>2 DEF Label, Task

LEMMA TeardownType ==
    ASSUME TypeInv, NEW t \in Task, TeardownReap(t) \/ TeardownEnd(t)
    PROVE  TypeInv'
<1> USE GateAssumption DEF GateAssumption, TypeInv, TypeOK, Busy, kernel, calls, plans,
        history, Goto, Task, Label
<1>1. CASE TeardownReap(t)
  <2>1. faults' \in 0..MaxFaults
    BY <1>1, FaultType DEF TeardownReap
  <2> QED BY <1>1, <2>1 DEF TeardownReap, TakeReply
<1>2. CASE TeardownEnd(t)
  <2>1. faults' \in 0..MaxFaults
    BY <1>2, FaultType DEF TeardownEnd
  <2>2. cur[t].mac \in Mac /\ cur[t].why \in Reason
    BY <1>2 DEF TeardownEnd, Ticket
  <2>3. Resume(cur[t].why) \in {"idle", "breached", "expire", "idlers"}
    BY <2>2 DEF Resume, Reason
  <2>4. gated' \subseteq Mac /\ closed' \subseteq Sid /\ owed' \subseteq Sid
    BY <1>2, <2>2 DEF TeardownEnd
  <2>5. shaped' \subseteq Mac
    BY <1>2 DEF TeardownEnd
  <2>6. pc' \in [Task -> Label] /\ age' \in [Task -> 0..MaxDelay]
    BY <1>2, <2>3 DEF TeardownEnd
  <2>7. cur' \in [Task -> Ticket \cup {NoSession}]
    BY <1>2 DEF TeardownEnd
  <2>8. Busy'
    BY <1>2, <2>3 DEF TeardownEnd
  <2> QED BY <1>2, <2>1, <2>4, <2>5, <2>6, <2>7, <2>8 DEF TeardownEnd
<1> QED BY <1>1, <1>2

LEMMA RevokeType ==
    ASSUME TypeInv, NEW m \in Mac, Revoke(m) PROVE TypeInv'
  BY RemoveType DEF Revoke, TypeInv, TypeOK, Busy, kernel, calls, plans, history, Task,
     Reason

LEMMA MeterType ==
    ASSUME TypeInv, MeterStep \/ MeterRearm PROVE TypeInv'
<1> USE GateAssumption DEF GateAssumption, TypeInv, TypeOK, Busy, kernel, calls, plans,
        history, Goto, Task, Label
<1>1. ASSUME NEW S \in SUBSET Live, MeterApply(S) PROVE TypeInv'
  <2>1. S \subseteq Mac /\ \A m \in S : ram[m] \in Session
    BY DEF Live
  <2>2. \A m \in S : Metered(ram[m]) \subseteq Session
    <3>1. SUFFICES ASSUME NEW s \in Session PROVE Metered(s) \subseteq Session
      BY <2>1
    <3>2. 0 \in 0..IdleCap
      BY DEF IdleCap
    <3>3. s.over \in BOOLEAN /\ s.quota \in BOOLEAN
      BY DEF Session
    <3>4. \A o \in BOOLEAN : /\ [s EXCEPT !.over = o] \in Session
                            /\ [s EXCEPT !.idle = 0, !.over = o] \in Session
                            /\ [s EXCEPT !.base = TRUE, !.over = o] \in Session
      BY <3>2 DEF Session
    <3> HIDE DEF TypeInv, TypeOK, Busy
    <3> QED BY <3>3, <3>4 DEF Metered
  <2>3. ram' \in [Mac -> Session \cup {NoSession}]
    BY <1>1, <2>1, <2>2 DEF MeterApply
  <2>4. todo' \in [Task -> SUBSET Mac]
    BY <1>1, <2>1 DEF MeterApply
  <2>5. pc' \in [Task -> Label] /\ age' \in [Task -> 0..MaxDelay]
    BY SMTT(30), <1>1 DEF MeterApply
  <2>6. due' \subseteq Periodic
    BY <1>1 DEF MeterApply
  <2>7. Busy'
    BY <1>1 DEF MeterApply
  <2> QED BY <1>1, <2>3, <2>4, <2>5, <2>6, <2>7 DEF MeterApply
<1>2. ASSUME NEW m \in Mac, QuotaRevoke(m) PROVE TypeInv'
  <2>1. CASE RevokeRemove("meter", m, "quota")
    <3> HIDE DEF Goto
    <3> QED BY <1>2, <2>1, RemoveType DEF QuotaRevoke, Reason
  <2>2. CASE m \notin Live /\ UNCHANGED <<cur, ram, mail, pc, age>>
    BY <1>2, <2>2 DEF QuotaRevoke
  <2> QED BY <1>2, <2>1, <2>2 DEF QuotaRevoke
<1>3. CASE QuotaDone
  BY <1>3 DEF QuotaDone
<1>4. CASE MeterRearm
  <2>1. faults' \in 0..MaxFaults
    BY <1>4, FaultType DEF MeterRearm
  <2>2. \A i \in DOMAIN mail : mail'[i] \in Command
    <3> SUFFICES ASSUME NEW i \in DOMAIN mail PROVE mail'[i] \in Command OBVIOUS
    <3>1. mail[i] \in Command
      OBVIOUS
    <3>2. CASE mail[i].from = "meter"
      <4>1. mail[i] \in [op : {"del"}, from : Task \cup {Nobody}, mac : Mac]
        BY <3>1, <3>2 DEF Command, Lister
      <4> QED BY <1>4, <3>2, <4>1 DEF MeterRearm, Command
    <3>3. CASE mail[i].from # "meter"
      BY <1>4, <3>1, <3>3 DEF MeterRearm
    <3> QED BY <3>2, <3>3
  <2>3. mail' \in Seq(Command)
    <3>1. mail' \in [1..Len(mail) -> Command] /\ Len(mail) \in Nat
      <4>1. DOMAIN mail = 1..Len(mail) /\ Len(mail) \in Nat
        OBVIOUS
      <4>2. mail' = [i \in DOMAIN mail |-> mail'[i]]
        BY <1>4 DEF MeterRearm
      <4> HIDE DEF GateAssumption, TypeInv, TypeOK, Busy
      <4> QED BY <2>2, <4>1, <4>2, Zenon
    <3> HIDE DEF GateAssumption, TypeInv, TypeOK, Busy
    <3> QED BY <3>1, SeqDef
  <2>4. /\ reply' \in [Task -> {"none", "ok", "err"}] /\ todo' \in [Task -> SUBSET Mac]
        /\ due' \subseteq Periodic
    BY <1>4 DEF MeterRearm, TakeReply, Periodic
  <2>5. cur' \in [Task -> Ticket \cup {NoSession}]
    BY <1>4 DEF MeterRearm
  <2>6. pc' \in [Task -> Label] /\ age' \in [Task -> 0..MaxDelay] /\ "meter" \in Task
    <3>1. /\ pc' = [pc EXCEPT !["meter"] = "idle"] /\ age' = [age EXCEPT !["meter"] = 0]
      BY <1>4 DEF MeterRearm, Goto
    <3>2. "meter" \in Task /\ "idle" \in Label
      BY DEF Task, Periodic, Lister, Label
    <3>3. 0 \in 0..MaxDelay
      OBVIOUS
    <3> QED BY <3>1, <3>2, <3>3
  <2>7. \A t \in Task : pc'[t] \in {"del", "unshape"} => cur'[t] # NoSession
    <3>1. /\ pc' = [pc EXCEPT !["meter"] = "idle"] /\ cur' = [cur EXCEPT !["meter"] = NoSession]
      BY <1>4 DEF MeterRearm, Goto
    <3>2. /\ pc \in [Task -> Label] /\ cur \in [Task -> Ticket \cup {NoSession}]
          /\ \A t \in Task : pc[t] \in {"del", "unshape"} => cur[t] # NoSession
      OBVIOUS
    <3> HIDE DEF GateAssumption, TypeInv, TypeOK, Busy
    <3> QED BY <3>1, <3>2
  <2>8. pend' = pend /\ (pc'["control"] \in {"add", "shape"} => pc["control"] \in {"add", "shape"})
    BY <1>4, <2>6 DEF MeterRearm, Goto
  <2>9. UNCHANGED <<kernel, up, ram, pend, held, seen, readd, history>>
    BY <1>4 DEF MeterRearm
  <2> QED BY <2>1, <2>3, <2>4, <2>5, <2>6, <2>7, <2>8, <2>9
<1> QED BY <1>1, <1>2, <1>3, <1>4 DEF MeterStep

LEMMA SweepType ==
    ASSUME TypeInv, SweepStep PROVE TypeInv'
<1> USE GateAssumption DEF GateAssumption, TypeInv, TypeOK, Busy, kernel, calls, plans,
        history, Goto, Task, Label
<1>1. CASE ExpireTake
  <2>1. held' \subseteq Ticket
    <3>1. "expired" \in Reason
      BY DEF Reason
    <3>2. \A m \in Live : TicketFor(m, "expired") \in Ticket
      BY <3>1, TicketType
    <3> QED BY <1>1, <3>2 DEF ExpireTake
  <2> QED BY <1>1, <2>1 DEF ExpireTake
<1>2. CASE IdleTake
  BY <1>2 DEF IdleTake, Live
<1>3. CASE IdleDone
  BY <1>3 DEF IdleDone
<1>4. ASSUME NEW k \in held, ExpireNext(k) PROVE TypeInv'
  <2>1. k \in Ticket /\ k.mac \in Mac
    BY DEF Ticket
  <2>2. mail' \in Seq(Command)
    BY <1>4, <2>1, SendType DEF ExpireNext, Command
  <2> QED BY <1>4, <2>1, <2>2 DEF ExpireNext
<1>5. ASSUME NEW m \in Mac, IdleRevoke(m) PROVE TypeInv'
  <2>1. CASE RevokeRemove("sweep", m, "idle")
    <3> HIDE DEF Goto
    <3> QED BY <1>5, <2>1, RemoveType DEF IdleRevoke, Reason
  <2>2. CASE m \notin Live /\ UNCHANGED <<cur, ram, mail, pc, age>>
    BY <1>5, <2>2 DEF IdleRevoke
  <2> QED BY <1>5, <2>1, <2>2 DEF IdleRevoke
<1> QED BY <1>1, <1>2, <1>3, <1>4, <1>5 DEF SweepStep

LEMMA ListType ==
    ASSUME TypeInv, NEW t \in Lister, ListBegin(t) \/ ListFailed(t) PROVE TypeInv'
<1> USE GateAssumption DEF GateAssumption, TypeInv, TypeOK, Busy, kernel, calls, plans,
        history, Goto, Task, Lister, Label
<1>1. CASE ListBegin(t)
  <2>1. mail' \in Seq(Command)
    BY <1>1, SendType DEF ListBegin, Command
  <2> QED BY <1>1, <2>1 DEF ListBegin
<1>2. CASE ListFailed(t)
  BY <1>2 DEF ListFailed, TakeReply
<1> QED BY <1>1, <1>2

LEMMA ReconType ==
    ASSUME TypeInv, ReconStep PROVE TypeInv'
<1> USE GateAssumption DEF GateAssumption, TypeInv, TypeOK, Busy, kernel, calls, plans,
        history, Goto, Task, Lister, Label
<1>1. CASE ListBegin("recon") \/ ListFailed("recon")
  BY <1>1, ListType
<1>2. CASE ReconcilePlan
  <2>1. readd' \subseteq AuthElement
    BY <1>2 DEF ReconcilePlan, Remaining, AuthElement, Live, Session
  <2>2. ram' \in [Mac -> Session \cup {NoSession}]
    <3>1. CASE UnknownPolicy = "Adopt"
      <4>1. PICK A \in Room(Unknown, Cardinality(Live)) : ram' = WithAdopted(A)
        BY <1>2, <3>1 DEF ReconcilePlan
      <4>2. A \subseteq AuthElement
        BY DEF Room, Unknown
      <4> QED BY <4>1, <4>2, AdoptedType
    <3>2. CASE UnknownPolicy # "Adopt"
      BY <1>2, <3>2 DEF ReconcilePlan
    <3> QED BY <3>1, <3>2
  <2>3. todo' \in [Task -> SUBSET Mac]
    <3>1. {e.mac : e \in Unknown} \subseteq Mac
      BY SMTT(30) DEF Unknown, AuthElement
    <3>2. \/ todo' = todo
          \/ todo' = [todo EXCEPT !["recon"] = {e.mac : e \in Unknown}]
      BY <1>2 DEF ReconcilePlan
    <3>3. todo \in [Task -> SUBSET Mac]
      OBVIOUS
    <3> HIDE DEF TypeInv, TypeOK, Busy
    <3> QED BY SMTT(30), <3>1, <3>2, <3>3
  <2>4. seen' \in [Lister -> SUBSET AuthElement]
    BY <1>2 DEF ReconcilePlan
  <2>5. reply' \in [Task -> {"none", "ok", "err"}]
    BY <1>2 DEF ReconcilePlan, TakeReply
  <2>6. pc' \in [Task -> Label] /\ age' \in [Task -> 0..MaxDelay] /\ Busy'
    BY <1>2 DEF ReconcilePlan
  <2> QED BY <1>2, <2>1, <2>2, <2>3, <2>4, <2>5, <2>6 DEF ReconcilePlan
<1>3. ASSUME NEW e \in readd, ReconcileReadd(e) PROVE TypeInv'
  <2>1. e \in AuthElement /\ e.mac \in Mac /\ e.left \in 0..MaxTTL
    BY DEF AuthElement
  <2>2. mail' \in Seq(Command)
    BY <1>3, <2>1, SendType DEF ReconcileReadd, Command
  <2> QED BY <1>3, <2>2 DEF ReconcileReadd
<1>4. ASSUME NEW m \in Mac, ReconcileDelete(m) PROVE TypeInv'
  <2>1. mail' \in Seq(Command)
    BY <1>4, SendType DEF ReconcileDelete, Command
  <2> QED BY <1>4, <2>1 DEF ReconcileDelete
<1>5. CASE ReconcileReply
  BY <1>5 DEF ReconcileReply, TakeReply
<1>6. CASE ReconcileDone
  BY <1>6 DEF ReconcileDone
<1> QED BY <1>1, <1>2, <1>3, <1>4, <1>5, <1>6 DEF ReconStep

LEMMA ReapType ==
    ASSUME TypeInv, ReapStep PROVE TypeInv'
<1> USE GateAssumption DEF GateAssumption, TypeInv, TypeOK, Busy, kernel, calls, plans,
        history, Goto, Task, Lister, Label
<1>1. CASE ListBegin("reap") \/ ListFailed("reap")
  BY <1>1, ListType
<1>2. CASE ReapPlan
  <2>1. todo' \in [Task -> SUBSET Mac] /\ seen' \in [Lister -> SUBSET AuthElement]
    BY <1>2 DEF ReapPlan
  <2> QED BY <1>2, <2>1 DEF ReapPlan, TakeReply
<1>3. ASSUME NEW m \in Mac, ReapOrphan(m) PROVE TypeInv'
  <2>1. faults' \in 0..MaxFaults
    BY <1>3, FaultType DEF ReapOrphan
  <2> QED BY <1>3, <2>1 DEF ReapOrphan
<1>4. CASE ReapDone
  BY <1>4 DEF ReapDone
<1> QED BY <1>1, <1>2, <1>3, <1>4 DEF ReapStep

LEMMA CrashType ==
    ASSUME TypeInv, Crash \/ Reboot \/ Restart PROVE TypeInv'
<1> USE GateAssumption DEF GateAssumption, TypeInv, TypeOK, Busy, kernel, calls, plans,
        history, Task, Label
<1>1. faults' \in 0..MaxFaults
  BY FaultType DEF Crash, Reboot, Restart
<1>2. CASE Crash \/ Reboot
  <2>1. <<>> \in Seq(Command)
    OBVIOUS
  <2>2. DaemonGone /\ auth' \subseteq Mac /\ timer' \in [Mac -> 0..MaxTTL]
        /\ shaped' \subseteq Mac /\ flows' \subseteq Mac
    BY <1>2 DEF Crash, Reboot
  <2>3. mail' \in Seq(Command) /\ owed' \subseteq Sid /\ Busy'
    BY <2>1, <2>2 DEF DaemonGone
  <2>4. /\ ram' \in [Mac -> Session \cup {NoSession}]
        /\ reply' \in [Task -> {"none", "ok", "err"}]
        /\ pc' \in [Task -> Label] /\ age' \in [Task -> 0..MaxDelay]
        /\ cur' \in [Task -> Ticket \cup {NoSession}]
        /\ todo' \in [Task -> SUBSET Mac]
        /\ seen' \in [Lister -> SUBSET AuthElement]
    BY <2>2 DEF DaemonGone
  <2>5. /\ up' \in BOOLEAN /\ due' \subseteq Periodic /\ held' \subseteq Ticket
        /\ pend' \in Pending \cup {NoSession} /\ readd' \subseteq AuthElement
        /\ grants' \in 0..MaxGrants /\ lease' \in [Mac -> 0..MaxTTL]
        /\ gated' \subseteq Mac /\ announced' \subseteq Sid /\ closed' \subseteq Sid
    BY <2>2 DEF DaemonGone
  <2> QED BY <1>1, <2>2, <2>3, <2>4, <2>5
<1>3. CASE Restart
  <2> DEFINE E == {[mac |-> m, left |-> timer[m]] : m \in auth}
  <2>1. E \subseteq AuthElement
    BY DEF AuthElement
  <2>2. ram' \in [Mac -> Session \cup {NoSession}]
    <3>1. CASE \E A \in Room(E, 0) : ram' = WithAdopted(A)
      <4>1. PICK A \in Room(E, 0) : ram' = WithAdopted(A)
        BY <3>1
      <4>2. A \subseteq AuthElement
        BY <2>1 DEF Room
      <4> QED BY <4>1, <4>2, AdoptedType
    <3>2. CASE UNCHANGED ram
      BY <3>2
    <3> QED BY <1>3, <3>1, <3>2 DEF Restart
  <2> QED BY <1>1, <1>3, <2>2 DEF Restart
<1> QED BY <1>2, <1>3

LEMMA StepType ==
    ASSUME TypeInv, NEW t \in Task, Step(t) PROVE TypeInv'
  BY TeardownType, GrantType, MeterType, SweepType, ReconType, ReapType DEF Step

LEMMA NextType == TypeInv /\ [Next]_vars => TypeInv'
<1> SUFFICES ASSUME TypeInv, [Next]_vars PROVE TypeInv' OBVIOUS
<1>1. CASE Next
  BY <1>1, StepType, RevokeType, GrantType, WriterType, TickType, ClientType, MeterType,
     CrashType DEF Next, Control, Client
<1>2. CASE UNCHANGED vars
  BY <1>2 DEF vars, TypeInv, TypeOK, Busy, kernel, calls, plans, history
<1> QED BY <1>1, <1>2

\* Every variable keeps its type, a teardown in progress has its session and a
\* grant in progress its pending record: no step reads a slot that is empty.
THEOREM TypeCorrect == Spec => []TypeOK
<1>1. Spec => []TypeInv
  BY InitType, NextType, PTL DEF Spec
<1> QED BY <1>1, PTL DEF TypeInv
=============================================================================
