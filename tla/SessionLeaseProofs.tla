--------------------------- MODULE SessionLeaseProofs ---------------------------
(***************************************************************************)
(* The lease: no client is admitted for longer than the control plane      *)
(* allowed.  Proved for handlers that end within the tick they started in  *)
(* and for grants of at least one tick.                                    *)
(***************************************************************************)
EXTENDS SessionGateProofs

Prompt == MaxDelay = 0 /\ \A o \in Offers : o.ttl > 0

\* The label at which the sender of a command waits for the reply.
Waits == {"add", "del", "list", "readd", "delete"}
Awaits(c) ==
    CASE c.op = "list" -> "list"
      [] c.op = "add"  -> IF c.from = "control" THEN "add" ELSE "readd"
      [] c.op = "del"  -> IF c.from = "recon" THEN "delete" ELSE "del"

\* A task has at most one command in the mailbox, and it has then no reply yet
\* and stands where it waits for one.
Mailbox ==
    /\ \A i \in DOMAIN mail : mail[i].from # Nobody =>
           reply[mail[i].from] = "none" /\ pc[mail[i].from] = Awaits(mail[i])
    /\ \A i, j \in DOMAIN mail :
           mail[i].from = mail[j].from /\ i # j => mail[i].from = Nobody
    /\ \A t \in Task : reply[t] # "none" => pc[t] \in Waits

LEMMA AwaitsType == \A c \in Command : Awaits(c) \in Waits
  BY DEF Awaits, Waits, Command

LEMMA FromType ==
    ASSUME TypeInv
    PROVE  \A i \in DOMAIN mail : mail[i] \in Command
                                  /\ mail[i].from \in Task \cup {Nobody}
  BY DEF TypeInv, TypeOK, Command, Task, Lister

LEMMA NobodyType == Nobody \notin Task
  BY DEF Nobody, Task

\* Where no command of a task is in the mailbox.
LEMMA NoMail ==
    ASSUME TypeInv, Mailbox, NEW t \in Task, reply[t] # "none" \/ pc[t] \notin Waits
    PROVE  \A i \in DOMAIN mail : mail[i].from # t
  BY FromType, AwaitsType, NobodyType DEF Mailbox

\* A task that takes its reply, and one that goes on without an await.
LEMMA TakeMail ==
    ASSUME TypeInv, Mailbox, NEW t \in Task, NEW l, reply[t] # "none",
           TakeReply(t), mail' = mail, pc' = [pc EXCEPT ![t] = l]
    PROVE  Mailbox'
<1>1. \A i \in DOMAIN mail : mail[i].from # t
  BY NoMail
<1> QED BY <1>1, FromType DEF Mailbox, TakeReply, TypeInv, TypeOK

LEMMA GoMail ==
    ASSUME TypeInv, Mailbox, NEW t \in Task, NEW l, pc[t] \notin Waits,
           reply' = reply, mail' = mail, pc' = [pc EXCEPT ![t] = l]
    PROVE  Mailbox'
<1>1. \A i \in DOMAIN mail : mail[i].from # t
  BY NoMail
<1> QED BY <1>1, FromType DEF Mailbox, TypeInv, TypeOK

LEMMA SentMail ==
    ASSUME TypeInv, NEW c \in Command, Send(c)
    PROVE  \A i \in DOMAIN mail' : \/ i \in DOMAIN mail /\ mail'[i] = mail[i]
                                   \/ i = Len(mail) + 1 /\ mail'[i] = c
                                      /\ i \notin DOMAIN mail
<1>1. mail \in Seq(Command) /\ mail' = Append(mail, c)
  BY DEF Send, TypeInv, TypeOK
<1>2. DOMAIN mail = 1..Len(mail) /\ Len(mail) \in Nat
  BY <1>1
<1>3. /\ DOMAIN mail' = 1..(Len(mail) + 1)
      /\ mail'[Len(mail) + 1] = c
      /\ \A i \in 1..Len(mail) : mail'[i] = mail[i]
  BY <1>1, <1>2
<1> SUFFICES ASSUME NEW i \in DOMAIN mail'
             PROVE  \/ i \in DOMAIN mail /\ mail'[i] = mail[i]
                    \/ i = Len(mail) + 1 /\ mail'[i] = c /\ i \notin DOMAIN mail
  OBVIOUS
<1>4. CASE i \in 1..Len(mail)
  BY <1>2, <1>3, <1>4
<1>5. CASE i = Len(mail) + 1
  BY <1>2, <1>3, <1>5
<1> QED BY <1>2, <1>3, <1>4, <1>5

LEMMA SendMail ==
    ASSUME TypeInv, Mailbox, NEW t \in Task, NEW c \in Command, c.from = t,
           pc[t] \notin Waits, Send(c), reply' = reply,
           pc' = [pc EXCEPT ![t] = Awaits(c)]
    PROVE  Mailbox'
<1>1. \A i \in DOMAIN mail : mail[i].from # t
  BY NoMail
<1>2. \A i \in DOMAIN mail' : mail'[i].from # Nobody =>
          reply'[mail'[i].from] = "none" /\ pc'[mail'[i].from] = Awaits(mail'[i])
  <2> SUFFICES ASSUME NEW i \in DOMAIN mail', mail'[i].from # Nobody
               PROVE  /\ reply'[mail'[i].from] = "none"
                      /\ pc'[mail'[i].from] = Awaits(mail'[i])
    OBVIOUS
  <2>1. CASE i \in DOMAIN mail /\ mail'[i] = mail[i]
    BY <1>1, <2>1, FromType DEF Mailbox, TypeInv, TypeOK
  <2>2. CASE mail'[i] = c
    <3>1. reply[t] = "none"
      BY DEF Mailbox
    <3> QED BY <2>2, <3>1 DEF TypeInv, TypeOK
  <2> QED BY <2>1, <2>2, SentMail
<1>3. \A i, j \in DOMAIN mail' :
          mail'[i].from = mail'[j].from /\ i # j => mail'[i].from = Nobody
  BY <1>1, SentMail DEF Mailbox
<1>4. \A u \in Task : reply'[u] # "none" => pc'[u] \in Waits
  BY AwaitsType DEF Mailbox, TypeInv, TypeOK
<1> QED BY <1>2, <1>3, <1>4 DEF Mailbox

\* The writer takes the oldest command and answers it.
LEMMA RestMail ==
    ASSUME TypeInv, mail # <<>>, mail' = Tail(mail)
    PROVE  /\ 1 \in DOMAIN mail /\ Head(mail) = mail[1]
           /\ \A i \in DOMAIN mail' : i + 1 \in DOMAIN mail /\ mail'[i] = mail[i + 1]
                                      /\ i \in Nat /\ i # 0
  BY DEF TypeInv, TypeOK

LEMMA ReceiveMail ==
    ASSUME TypeInv, Mailbox, mail # <<>>, mail' = Tail(mail), pc' = pc,
           NEW r \in {"ok", "err"}, Answer(Head(mail).from, r)
    PROVE  Mailbox'
<1> DEFINE c == Head(mail)
<1>1. c \in Command /\ c.from \in Task \cup {Nobody}
  BY RestMail, FromType
<1>2. \A i \in DOMAIN mail' : mail'[i].from = c.from => c.from = Nobody
  BY RestMail DEF Mailbox
<1>3. c.from # Nobody => pc[c.from] \in Waits
  BY <1>1, RestMail, AwaitsType DEF Mailbox
<1>4. \A i \in DOMAIN mail' : mail'[i].from # Nobody =>
          reply'[mail'[i].from] = "none" /\ pc'[mail'[i].from] = Awaits(mail'[i])
  <2> SUFFICES ASSUME NEW i \in DOMAIN mail', mail'[i].from # Nobody
               PROVE  /\ reply'[mail'[i].from] = "none"
                      /\ pc'[mail'[i].from] = Awaits(mail'[i])
    OBVIOUS
  <2>1. mail'[i].from # c.from /\ mail'[i].from \in Task
    BY <1>2, RestMail, FromType
  <2>2. reply[mail'[i].from] = "none" /\ pc[mail'[i].from] = Awaits(mail'[i])
    BY RestMail DEF Mailbox
  <2> QED BY <2>1, <2>2 DEF Answer, TypeInv, TypeOK
<1>5. \A i, j \in DOMAIN mail' :
          mail'[i].from = mail'[j].from /\ i # j => mail'[i].from = Nobody
  BY RestMail DEF Mailbox
<1>6. \A u \in Task : reply'[u] # "none" => pc'[u] \in Waits
  BY <1>1, <1>3 DEF Mailbox, Answer, TypeInv, TypeOK
<1> QED BY <1>4, <1>5, <1>6 DEF Mailbox

LEMMA KeepMail ==
    ASSUME Mailbox, UNCHANGED <<mail, reply, pc>> PROVE Mailbox'
  BY DEF Mailbox

LEMMA RemoveMail ==
    ASSUME TypeInv, Mailbox, NEW t \in {"control", "meter", "sweep"}, NEW m \in Mac,
           NEW why, RevokeRemove(t, m, why), reply' = reply, pc[t] \notin Waits
    PROVE  Mailbox'
<1> DEFINE c == [op |-> "del", from |-> t, mac |-> m]
<1>1. c \in Command /\ c.from = t /\ Awaits(c) = "del" /\ t \in Task
  BY DEF Command, Task, Awaits
<1>2. Send(c) /\ pc' = [pc EXCEPT ![t] = "del"]
  BY DEF RevokeRemove, Goto
<1> QED BY <1>1, <1>2, SendMail

LEMMA RearmMail ==
    ASSUME TypeInv, Mailbox, MeterRearm PROVE Mailbox'
<1>1. DOMAIN mail' = DOMAIN mail
  BY DEF MeterRearm
<1>2. \A i \in DOMAIN mail : IF mail[i].from = "meter"
                             THEN mail'[i].from = Nobody ELSE mail'[i] = mail[i]
  BY FromType DEF MeterRearm, Command
<1>3. reply' = [reply EXCEPT !["meter"] = "none"] /\ pc' = [pc EXCEPT !["meter"] = "idle"]
  BY DEF MeterRearm, TakeReply, Goto
<1> QED BY <1>1, <1>2, <1>3, FromType, NobodyType DEF Mailbox, TypeInv, TypeOK, Task

LEMMA InitMail == Init => Mailbox
  BY DEF Init, Mailbox

LEMMA NextMail ==
    ASSUME TypeInv, Mailbox, [Next]_vars PROVE Mailbox'
<1> USE DEF Goto, Task, Waits, kernel, calls, plans, history
<1>1. CASE UNCHANGED vars
  BY <1>1, KeepMail DEF vars
<1>2. ASSUME NEW t \in Task, Step(t) PROVE Mailbox'
  <2>1. CASE TeardownReap(t)
    BY <2>1, TakeMail DEF TeardownReap
  <2>2. CASE TeardownEnd(t)
    BY <2>2, GoMail DEF TeardownEnd
  <2>3. CASE GrantStep
    BY <2>3, TakeMail, GoMail DEF GrantStep, GrantRefused, GrantInsert, GrantAnnounce
  <2>4. CASE MeterStep
    <3>1. ASSUME NEW S \in SUBSET Live, MeterApply(S) PROVE Mailbox'
      BY <3>1, GoMail DEF MeterApply
    <3>2. ASSUME NEW m \in Mac, QuotaRevoke(m) PROVE Mailbox'
      BY <3>2, RemoveMail, KeepMail DEF QuotaRevoke
    <3>3. CASE QuotaDone
      BY <3>3, GoMail DEF QuotaDone
    <3> QED BY <2>4, <3>1, <3>2, <3>3 DEF MeterStep
  <2>5. CASE SweepStep
    <3>1. CASE ExpireTake \/ IdleTake \/ IdleDone
      BY <3>1, GoMail DEF ExpireTake, IdleTake, IdleDone
    <3>2. ASSUME NEW k \in held, ExpireNext(k) PROVE Mailbox'
      <4> DEFINE c == [op |-> "del", from |-> "sweep", mac |-> k.mac]
      <4>1. c \in Command /\ c.from = "sweep" /\ Awaits(c) = "del"
        BY DEF TypeInv, TypeOK, Ticket, Command, Awaits
      <4> QED BY <3>2, <4>1, SendMail DEF ExpireNext
    <3>3. ASSUME NEW m \in Mac, IdleRevoke(m) PROVE Mailbox'
      BY <3>3, RemoveMail, KeepMail DEF IdleRevoke
    <3> QED BY <2>5, <3>1, <3>2, <3>3 DEF SweepStep
  <2>6. ASSUME NEW u \in Lister, ListBegin(u) \/ ListFailed(u) PROVE Mailbox'
    <3> DEFINE c == [op |-> "list", from |-> u]
    <3>1. c \in Command /\ c.from = u /\ Awaits(c) = "list" /\ u \in Task
      BY DEF Command, Awaits, Lister
    <3>2. CASE ListBegin(u)
      BY <3>1, <3>2, SendMail DEF ListBegin
    <3>3. CASE ListFailed(u)
      BY <3>1, <3>3, TakeMail DEF ListFailed
    <3> QED BY <2>6, <3>2, <3>3
  <2>7. CASE ReconStep
    <3>1. CASE ListBegin("recon") \/ ListFailed("recon")
      BY <3>1, <2>6 DEF Lister
    <3>2. CASE ReconcilePlan \/ ReconcileReply
      BY <3>2, TakeMail DEF ReconcilePlan, ReconcileReply
    <3>3. ASSUME NEW e \in readd, ReconcileReadd(e) PROVE Mailbox'
      <4> DEFINE c == [op |-> "add", from |-> "recon", mac |-> e.mac, left |-> e.left]
      <4>1. c \in Command /\ c.from = "recon" /\ Awaits(c) = "readd"
        BY DEF TypeInv, TypeOK, AuthElement, Command, Awaits
      <4> QED BY <3>3, <4>1, SendMail DEF ReconcileReadd
    <3>4. ASSUME NEW m \in Mac, ReconcileDelete(m) PROVE Mailbox'
      <4> DEFINE c == [op |-> "del", from |-> "recon", mac |-> m]
      <4>1. c \in Command /\ c.from = "recon" /\ Awaits(c) = "delete"
        BY DEF Command, Awaits
      <4> QED BY <3>4, <4>1, SendMail DEF ReconcileDelete
    <3>5. CASE ReconcileDone
      BY <3>5, GoMail DEF ReconcileDone
    <3> QED BY <2>7, <3>1, <3>2, <3>3, <3>4, <3>5 DEF ReconStep
  <2>8. CASE ReapStep
    <3>1. CASE ListBegin("reap") \/ ListFailed("reap")
      BY <3>1, <2>6 DEF Lister
    <3>2. CASE ReapPlan
      BY <3>2, TakeMail DEF ReapPlan
    <3>3. ASSUME NEW m \in Mac, ReapOrphan(m) PROVE Mailbox'
      BY <3>3, KeepMail DEF ReapOrphan
    <3>4. CASE ReapDone
      BY <3>4, GoMail DEF ReapDone
    <3> QED BY <2>8, <3>1, <3>2, <3>3, <3>4 DEF ReapStep
  <2> QED BY <1>2, <2>1, <2>2, <2>3, <2>4, <2>5, <2>7, <2>8 DEF Step
<1>3. ASSUME NEW m \in Mac, Revoke(m) PROVE Mailbox'
  BY <1>3, RemoveMail DEF Revoke
<1>4. ASSUME NEW m \in Mac, NEW o \in Offers, GrantBegin(m, o) PROVE Mailbox'
  <2> DEFINE c == [op |-> "add", from |-> "control", mac |-> m, left |-> o.ttl]
  <2>1. o.ttl \in 0..MaxTTL
    BY GateAssumption DEF GateAssumption, Offer
  <2>2. c \in Command /\ c.from = "control" /\ Awaits(c) = "add"
    BY <2>1 DEF Command, Awaits
  <2> QED BY <1>4, <2>2, SendMail DEF GrantBegin
<1>5. CASE WriterExec
  BY <1>5, ReceiveMail DEF WriterExec, ExecAdd, ExecDel, ExecList
<1>6. CASE WriterFail
  BY <1>6, ReceiveMail DEF WriterFail
<1>7. CASE Tick
  BY <1>7, KeepMail DEF Tick
<1>8. CASE Client
  BY <1>8, KeepMail DEF Client, OpenFlow, EndFlow, KernelDrop
<1>9. CASE MeterRearm
  BY <1>9, RearmMail
<1>10. CASE Crash \/ Reboot
  BY <1>10 DEF Crash, Reboot, DaemonGone, Mailbox
<1>11. CASE Restart
  BY <1>11, KeepMail DEF Restart
<1> QED BY <1>1, <1>2, <1>3, <1>4, <1>5, <1>6, <1>7, <1>8, <1>9, <1>10, <1>11
        DEF Next, Control, Writer

-----------------------------------------------------------------------------
(* The inductive invariant of the lease.  Whatever may become a timeout of   *)
(* the kernel is bounded by the lease already: the time left of a session,   *)
(* of a command on its way, of an element listed, of an element to put back. *)

LeftBound == \A m \in Live : ram[m].left <= lease[m]

AddBound ==
    \A i \in DOMAIN mail : mail[i].op = "add" =>
        /\ mail[i].left > 0
        /\ mail[i].from = "control" =>
               mail[i].mac = pend.mac /\ mail[i].left = pend.s.left
        /\ mail[i].from # "control" => mail[i].left <= lease[mail[i].mac]

PendBound ==
    pc["control"] = "add" /\ reply["control"] = "ok" => pend.s.left <= lease[pend.mac]

SeenBound ==
    \A t \in Lister : /\ seen[t] # {} => pc[t] = "list" /\ reply[t] = "ok"
                      /\ \A e \in seen[t] : e.left > 0 /\ e.left <= lease[e.mac]

ReaddBound ==
    /\ readd # {} => pc["recon"] \in {"repair", "readd", "delete"}
    /\ \A e \in readd : e.left > 0 /\ e.left <= lease[e.mac]

Leases   == LeaseBound /\ LeftBound /\ AddBound /\ PendBound /\ SeenBound /\ ReaddBound
LeaseInv == TypeInv /\ Mailbox /\ Leases

\* Every add command of the mailbox was there before.
NoNewAdd == \A i \in DOMAIN mail' : mail'[i].op = "add" =>
                \E j \in DOMAIN mail : mail[j] = mail'[i]

\* A step of task t that brings no new time.
BringsNothing(t) ==
    /\ UNCHANGED <<auth, timer, lease>>
    /\ NoNewAdd
    /\ \A m \in Mac : ram'[m] = NoSession \/ (m \in Live /\ ram'[m].left = ram[m].left)
    /\ \/ pend' = pend
       \/ pc'["control"] # "add" /\ \A i \in DOMAIN mail : mail[i].from # "control"
    /\ \A u \in Task \ {t} : pc'[u] = pc[u] /\ reply'[u] = reply[u]
    /\ pc'[t] # "add"
    /\ \A u \in Lister : seen'[u] = IF u = t THEN {} ELSE seen[u]
    /\ readd' \subseteq readd
    /\ readd' # {} => pc'["recon"] \in {"repair", "readd", "delete"}

LEMMA QuietStep ==
    ASSUME LeaseInv, NEW t \in Task, BringsNothing(t) PROVE Leases'
<1> USE DEF BringsNothing
<1> USE DEF LeaseInv, Leases, TypeInv, TypeOK
<1>1. LeaseBound' /\ LeftBound'
  BY DEF LeaseBound, LeftBound, Live
<1>2. AddBound'
  BY DEF AddBound, NoNewAdd
<1>3. PendBound'
  BY DEF PendBound, Task
<1>4. SeenBound'
  BY DEF SeenBound, Task, Lister
<1>5. ReaddBound'
  BY DEF ReaddBound, Task
<1> QED BY <1>1, <1>2, <1>3, <1>4, <1>5

LEMMA SentNoAdd ==
    ASSUME TypeInv, NEW c \in Command, Send(c), c.op # "add" PROVE NoNewAdd
  BY SentMail DEF NoNewAdd

\* An add command that is sent keeps the bound of the commands on their way.
LEMMA SentAdd ==
    ASSUME TypeInv, AddBound, NEW c \in Command, Send(c), lease' = lease,
           c.left > 0,
           c.from = "control" => c.mac = pend'.mac /\ c.left = pend'.s.left,
           c.from # "control" => c.left <= lease[c.mac],
           pend' = pend \/ \A i \in DOMAIN mail : mail[i].from # "control"
    PROVE  AddBound'
<1> SUFFICES ASSUME NEW i \in DOMAIN mail', mail'[i].op = "add"
             PROVE  /\ mail'[i].left > 0
                    /\ mail'[i].from = "control" =>
                           mail'[i].mac = pend'.mac /\ mail'[i].left = pend'.s.left
                    /\ mail'[i].from # "control" => mail'[i].left <= lease[mail'[i].mac]
  BY DEF AddBound
<1>1. CASE mail'[i] = c
  BY <1>1
<1>2. CASE i \in DOMAIN mail /\ mail'[i] = mail[i]
  BY <1>2 DEF AddBound
<1> QED BY <1>1, <1>2, SentMail

LEMMA KeptNoAdd == ASSUME mail' = mail PROVE NoNewAdd
  BY DEF NoNewAdd

\* A task that lists nothing has nothing in `seen`.
LEMMA SeenEmpty ==
    ASSUME LeaseInv, NEW t \in Lister, pc[t] # "list" \/ reply[t] # "ok"
    PROVE  seen[t] = {}
  BY DEF LeaseInv, Leases, SeenBound

LEMMA TeardownLease ==
    ASSUME LeaseInv, NEW t \in Task, TeardownReap(t) \/ TeardownEnd(t) PROVE Leases'
<1>1. t \in Lister => seen[t] = {}
  BY SeenEmpty DEF TeardownReap, TeardownEnd
<1>2. readd # {} => pc["recon"] # pc[t]
  BY DEF LeaseInv, Leases, ReaddBound, TeardownReap, TeardownEnd
<1>3. \E l : l # "add" /\ pc' = [pc EXCEPT ![t] = l]
  <2>1. CASE TeardownReap(t)
    BY <2>1 DEF TeardownReap, Goto
  <2>2. CASE TeardownEnd(t)
    <3>1. cur[t] \in Ticket
      BY <2>2 DEF TeardownEnd, LeaseInv, TypeInv, TypeOK, Busy
    <3>2. Resume(cur[t].why) # "add"
      BY <3>1 DEF Resume, Ticket, Reason
    <3> QED BY <2>2, <3>2 DEF TeardownEnd, Goto
  <2> QED BY <2>1, <2>2
<1>4. /\ UNCHANGED <<auth, timer, lease, mail, ram, pend, seen, readd>>
      /\ \A u \in Task \ {t} : reply'[u] = reply[u]
  BY DEF TeardownReap, TeardownEnd, TakeReply, kernel, calls, plans, history, LeaseInv,
     TypeInv, TypeOK
<1>5. \A m \in Mac : ram'[m] = NoSession \/ (m \in Live /\ ram'[m].left = ram[m].left)
  BY <1>4 DEF Live
<1>6. /\ readd' \subseteq readd
      /\ readd' # {} => pc'["recon"] \in {"repair", "readd", "delete"}
  BY <1>2, <1>3, <1>4 DEF LeaseInv, Leases, ReaddBound, TypeInv, TypeOK, Task
<1>7. /\ \A u \in Task \ {t} : pc'[u] = pc[u]
      /\ pc'[t] # "add"
  BY <1>3 DEF LeaseInv, TypeInv, TypeOK
<1>8. \A u \in Lister : seen'[u] = IF u = t THEN {} ELSE seen[u]
  BY <1>1, <1>4
<1>9. BringsNothing(t)
  BY <1>4, <1>5, <1>6, <1>7, <1>8, KeptNoAdd DEF BringsNothing
<1> QED BY <1>9, QuietStep

LEMMA GrantLease ==
    ASSUME LeaseInv, GrantStep PROVE Leases'
<1> USE DEF LeaseInv, Leases, TypeInv, TypeOK, kernel, calls, plans, history, Goto,
        TakeReply, Task, Lister
<1>1. CASE GrantRefused
  <2>1. \A i \in DOMAIN mail : mail[i].from # "control"
    BY <1>1, NoMail DEF GrantRefused
  <2>2. BringsNothing("control")
    BY <1>1, <2>1, KeptNoAdd DEF GrantRefused, BringsNothing, ReaddBound, Live
  <2> QED BY <2>2, QuietStep
<1>2. CASE GrantInsert
  <2>1. pend.mac \in Mac /\ pend.s \in Session
    BY <1>2 DEF GrantInsert, Pending, Busy
  <2>2. \A m \in Mac : ram'[m] = IF m = pend.mac THEN pend.s ELSE ram[m]
    BY <1>2 DEF GrantInsert
  <2>3. pend.s.left <= lease[pend.mac]
    BY <1>2 DEF GrantInsert, PendBound
  <2>4. LeftBound'
    BY <1>2, <2>2, <2>3 DEF GrantInsert, LeftBound, Live
  <2>5. LeaseBound' /\ AddBound'
    BY <1>2 DEF GrantInsert, LeaseBound, AddBound
  <2>6. PendBound' /\ SeenBound' /\ ReaddBound'
    BY <1>2 DEF GrantInsert, PendBound, SeenBound, ReaddBound
  <2> QED BY <2>4, <2>5, <2>6
<1>3. CASE GrantAnnounce
  <2>1. \A i \in DOMAIN mail : mail[i].from # "control"
    BY <1>3, NoMail DEF GrantAnnounce, Waits
  <2>2. BringsNothing("control")
    BY <1>3, <2>1, KeptNoAdd DEF GrantAnnounce, BringsNothing, ReaddBound, Live
  <2> QED BY <2>2, QuietStep
<1> QED BY <1>1, <1>2, <1>3 DEF GrantStep

\* A task that revokes a session.
LEMMA RemoveLease ==
    ASSUME LeaseInv, NEW t \in {"control", "meter", "sweep"}, NEW m \in Mac,
           NEW why \in Reason, RevokeRemove(t, m, why),
           UNCHANGED <<auth, timer, lease, reply, pend, seen, readd>>
    PROVE  Leases'
<1> DEFINE c == [op |-> "del", from |-> t, mac |-> m]
<1>1. c \in Command /\ c.op # "add" /\ t \in Task /\ t \notin Lister /\ t # "recon"
  BY DEF Command, Task, Lister
<1>2. NoNewAdd
  BY <1>1, SentNoAdd DEF RevokeRemove, LeaseInv
<1>3. pc' = [pc EXCEPT ![t] = "del"]
  BY DEF RevokeRemove, Goto
<1>4. \A n \in Mac : ram'[n] = NoSession \/ (n \in Live /\ ram'[n].left = ram[n].left)
  BY DEF RevokeRemove, Live, LeaseInv, TypeInv, TypeOK
<1>5. BringsNothing(t)
  BY <1>1, <1>2, <1>3, <1>4 DEF BringsNothing, LeaseInv, Leases, ReaddBound, TypeInv,
     TypeOK, Task
<1> QED BY <1>1, <1>5, QuietStep

LEMMA MeteredLeft ==
    ASSUME NEW r \in Session PROVE \A s \in Metered(r) : s.left = r.left
<1>1. \A o : /\ [r EXCEPT !.base = TRUE, !.over = o].left = r.left
             /\ [r EXCEPT !.idle = 0, !.over = o].left = r.left
             /\ [r EXCEPT !.over = o].left = r.left
  BY DEF Session
<1> QED BY <1>1 DEF Metered

LEMMA MeterLease ==
    ASSUME LeaseInv, MeterStep \/ MeterRearm PROVE Leases'
<1> USE DEF LeaseInv, Leases, TypeInv, TypeOK, kernel, calls, plans, history, Task,
        Lister
<1>1. ASSUME NEW S \in SUBSET Live, MeterApply(S) PROVE Leases'
  <2>1. \A m \in S : ram[m] \in Session /\ m \in Mac
    BY DEF Live
  <2>2. \A m \in S : \A s \in Metered(ram[m]) : s.left = ram[m].left
    BY <2>1, MeteredLeft
  <2>3. \A m \in Mac : ram'[m] = NoSession \/ (m \in Live /\ ram'[m].left = ram[m].left)
    BY <1>1, <2>2 DEF MeterApply, Live
  <2>4. \E l \in {"breached", "idle"} : pc' = [pc EXCEPT !["meter"] = l]
    BY <1>1 DEF MeterApply, Goto
  <2>5. /\ UNCHANGED <<auth, timer, lease, mail, reply, pend, seen, readd>>
    BY <1>1 DEF MeterApply
  <2>6. BringsNothing("meter")
    BY <2>3, <2>4, <2>5, KeptNoAdd DEF BringsNothing, ReaddBound
  <2> QED BY <2>6, QuietStep
<1>2. ASSUME NEW m \in Mac, QuotaRevoke(m) PROVE Leases'
  <2>1. CASE RevokeRemove("meter", m, "quota")
    BY <1>2, <2>1, RemoveLease DEF QuotaRevoke, Reason
  <2>2. CASE m \notin Live /\ UNCHANGED <<cur, ram, mail, pc, age>>
    <3>1. BringsNothing("meter")
      BY <1>2, <2>2, KeptNoAdd DEF QuotaRevoke, BringsNothing, ReaddBound, Live
    <3> QED BY <3>1, QuietStep
  <2> QED BY <1>2, <2>1, <2>2 DEF QuotaRevoke
<1>3. CASE QuotaDone
  <2>1. BringsNothing("meter")
    BY <1>3, KeptNoAdd DEF QuotaDone, BringsNothing, ReaddBound, Live, Goto
  <2> QED BY <2>1, QuietStep
<1>4. CASE MeterRearm
  <2>1. \A i \in DOMAIN mail' : i \in DOMAIN mail /\
            (mail'[i].op = "add" => mail'[i] = mail[i])
    BY <1>4, FromType DEF MeterRearm, Command
  <2>2. NoNewAdd
    BY <2>1 DEF NoNewAdd
  <2>3. UNCHANGED <<auth, timer, lease, ram, pend, seen, readd>>
    BY <1>4 DEF MeterRearm
  <2>4. reply' = [reply EXCEPT !["meter"] = "none"] /\ pc' = [pc EXCEPT !["meter"] = "idle"]
    BY <1>4 DEF MeterRearm, TakeReply, Goto
  <2>5. BringsNothing("meter")
    BY <2>2, <2>3, <2>4 DEF BringsNothing, ReaddBound, Live
  <2> QED BY <2>5, QuietStep
<1> QED BY <1>1, <1>2, <1>3, <1>4 DEF MeterStep

LEMMA SweepLease ==
    ASSUME LeaseInv, SweepStep PROVE Leases'
<1> USE DEF LeaseInv, Leases, TypeInv, TypeOK, kernel, calls, plans, history, Task,
        Lister
<1>1. CASE ExpireTake \/ IdleTake \/ IdleDone
  <2>1. BringsNothing("sweep")
    BY <1>1, KeptNoAdd DEF ExpireTake, IdleTake, IdleDone, BringsNothing, ReaddBound,
       Live, Goto
  <2> QED BY <2>1, QuietStep
<1>2. ASSUME NEW k \in held, ExpireNext(k) PROVE Leases'
  <2> DEFINE c == [op |-> "del", from |-> "sweep", mac |-> k.mac]
  <2>1. c \in Command /\ c.op # "add"
    BY DEF Command, Ticket
  <2>2. NoNewAdd
    BY <1>2, <2>1, SentNoAdd DEF ExpireNext
  <2>3. BringsNothing("sweep")
    BY <1>2, <2>2 DEF ExpireNext, BringsNothing, ReaddBound, Live, Goto
  <2> QED BY <2>3, QuietStep
<1>3. ASSUME NEW m \in Mac, IdleRevoke(m) PROVE Leases'
  <2>1. CASE RevokeRemove("sweep", m, "idle")
    BY <1>3, <2>1, RemoveLease DEF IdleRevoke, Reason
  <2>2. CASE m \notin Live /\ UNCHANGED <<cur, ram, mail, pc, age>>
    <3>1. BringsNothing("sweep")
      BY <1>3, <2>2, KeptNoAdd DEF IdleRevoke, BringsNothing, ReaddBound, Live
    <3> QED BY <3>1, QuietStep
  <2> QED BY <1>3, <2>1, <2>2 DEF IdleRevoke
<1> QED BY <1>1, <1>2, <1>3 DEF SweepStep

LEMMA ListLease ==
    ASSUME LeaseInv, NEW t \in Lister, ListBegin(t) \/ ListFailed(t) PROVE Leases'
<1> USE DEF LeaseInv, Leases, TypeInv, TypeOK, kernel, calls, plans, history
<1>1. seen[t] = {} /\ t \in Task
  BY SeenEmpty DEF ListBegin, ListFailed, Lister, Task
<1>2. NoNewAdd
  <2> DEFINE c == [op |-> "list", from |-> t]
  <2>1. c \in Command /\ c.op # "add"
    BY DEF Command
  <2> QED BY <2>1, SentNoAdd, KeptNoAdd DEF ListBegin, ListFailed
<1>3. pc[t] \notin {"repair", "readd", "delete"}
  BY DEF ListBegin, ListFailed
<1>4. \E l \in {"list", "idle"} : pc' = [pc EXCEPT ![t] = l]
  BY DEF ListBegin, ListFailed, Goto
<1>5. /\ UNCHANGED <<auth, timer, lease, ram, pend, seen, readd>>
      /\ \A u \in Task \ {t} : reply'[u] = reply[u]
  BY DEF ListBegin, ListFailed, TakeReply
<1>6. readd' # {} => pc'["recon"] \in {"repair", "readd", "delete"}
  BY <1>3, <1>4, <1>5 DEF ReaddBound, Task
<1>7. BringsNothing(t)
  BY <1>1, <1>2, <1>4, <1>5, <1>6 DEF BringsNothing, Live
<1> QED BY <1>1, <1>7, QuietStep

LEMMA ReconLease ==
    ASSUME LeaseInv, ReconStep PROVE Leases'
<1> USE GateAssumption DEF GateAssumption, LeaseInv, Leases, TypeInv, TypeOK, kernel,
        calls, plans, history, Task, Lister
<1>1. CASE ListBegin("recon") \/ ListFailed("recon")
  BY <1>1, ListLease
<1>2. CASE ReconcilePlan
  <2>1. UNCHANGED <<auth, timer, lease, mail, pend>> /\ seen' = [seen EXCEPT !["recon"] = {}]
        /\ pc' = [pc EXCEPT !["recon"] = "repair"]
        /\ reply' = [reply EXCEPT !["recon"] = "none"]
    BY <1>2 DEF ReconcilePlan, TakeReply, Goto
  <2>2. ReaddBound'
    <3>1. \A m \in Live : ram[m].left \in Int
      BY DEF Live, Session
    <3>2. \A e \in readd' : e.left > MinReadd /\ e.left <= lease[e.mac] /\ e.left \in Int
      BY <1>2, <3>1 DEF ReconcilePlan, WorthReadding, Remaining, LeftBound
    <3> QED BY SMTT(30), <2>1, <3>2 DEF ReaddBound
  <2>3. LeftBound'
    <3>1. CASE UnknownPolicy = "Adopt"
      <4>1. PICK A \in Room(Unknown, Cardinality(Live)) : ram' = WithAdopted(A)
        BY <1>2, <3>1 DEF ReconcilePlan
      <4>2. A \subseteq seen["recon"]
        BY DEF Room, Unknown
      <4>3. ASSUME NEW m \in Mac, \E e \in A : e.mac = m
            PROVE  ram'[m].left <= lease[m]
        <5>1. PICK e \in A : e.mac = m /\ ram'[m] = SynthSession(e.left)
          BY <4>1, <4>3 DEF WithAdopted
        <5> QED BY <4>2, <5>1 DEF SynthSession, SeenBound
      <4>4. ASSUME NEW m \in Mac, ~ \E e \in A : e.mac = m
            PROVE  ram'[m] = ram[m]
        BY <4>1, <4>4 DEF WithAdopted
      <4> QED BY <2>1, <4>3, <4>4 DEF LeftBound, Live
    <3>2. CASE UnknownPolicy # "Adopt"
      BY <1>2, <2>1, <3>2 DEF ReconcilePlan, LeftBound, Live
    <3> QED BY <3>1, <3>2
  <2>4. LeaseBound' /\ AddBound' /\ PendBound' /\ SeenBound'
    BY <2>1 DEF LeaseBound, AddBound, PendBound, SeenBound
  <2> QED BY <2>2, <2>3, <2>4
<1>3. ASSUME NEW e \in readd, ReconcileReadd(e) PROVE Leases'
  <2> DEFINE c == [op |-> "add", from |-> "recon", mac |-> e.mac, left |-> e.left]
  <2>1. c \in Command /\ Send(c)
    BY <1>3 DEF AuthElement, Command, ReconcileReadd
  <2>2. AddBound'
    <3>1. c.left > 0 /\ c.left <= lease[c.mac] /\ c.from # "control"
      BY DEF ReaddBound
    <3>2. pend' = pend /\ lease' = lease
      BY <1>3 DEF ReconcileReadd
    <3> HIDE DEF c
    <3> QED BY <2>1, <3>1, <3>2, SentAdd
  <2>3. pc' = [pc EXCEPT !["recon"] = "readd"]
    BY <1>3 DEF ReconcileReadd, Goto
  <2>4. SeenBound'
    BY <1>3, <2>3 DEF ReconcileReadd, SeenBound
  <2>5. LeaseBound' /\ LeftBound' /\ PendBound' /\ ReaddBound'
    BY <1>3, <2>3 DEF ReconcileReadd, LeaseBound, LeftBound, Live, PendBound, ReaddBound
  <2> QED BY <2>2, <2>4, <2>5
<1>4. ASSUME NEW m \in Mac, ReconcileDelete(m) PROVE Leases'
  <2> DEFINE c == [op |-> "del", from |-> "recon", mac |-> m]
  <2>1. c \in Command /\ c.op # "add"
    BY DEF Command
  <2>2. NoNewAdd
    BY <1>4, <2>1, SentNoAdd DEF ReconcileDelete
  <2>3. seen["recon"] = {}
    BY <1>4, SeenEmpty DEF ReconcileDelete
  <2>4. BringsNothing("recon")
    BY <1>4, <2>2, <2>3 DEF ReconcileDelete, BringsNothing, Live, Goto
  <2> QED BY <2>4, QuietStep
<1>5. CASE ReconcileReply
  <2>1. seen["recon"] = {}
    BY <1>5, SeenEmpty DEF ReconcileReply
  <2>2. BringsNothing("recon")
    BY <1>5, <2>1, KeptNoAdd DEF ReconcileReply, BringsNothing, Live, Goto, TakeReply
  <2> QED BY <2>2, QuietStep
<1>6. CASE ReconcileDone
  <2>1. seen["recon"] = {}
    BY <1>6, SeenEmpty DEF ReconcileDone
  <2>2. BringsNothing("recon")
    BY <1>6, <2>1, KeptNoAdd DEF ReconcileDone, BringsNothing, Live, Goto
  <2> QED BY <2>2, QuietStep
<1> QED BY <1>1, <1>2, <1>3, <1>4, <1>5, <1>6 DEF ReconStep

LEMMA ReapLease ==
    ASSUME LeaseInv, ReapStep PROVE Leases'
<1> USE DEF LeaseInv, Leases, TypeInv, TypeOK, kernel, calls, plans, history, Task,
        Lister
<1>1. CASE ListBegin("reap") \/ ListFailed("reap")
  BY <1>1, ListLease
<1>2. CASE ReapPlan
  <2>1. BringsNothing("reap")
    BY <1>2, KeptNoAdd DEF ReapPlan, BringsNothing, Live, Goto, TakeReply, ReaddBound
  <2> QED BY <2>1, QuietStep
<1>3. ASSUME NEW m \in Mac, ReapOrphan(m) PROVE Leases'
  <2>1. seen["reap"] = {}
    BY <1>3, SeenEmpty DEF ReapOrphan
  <2>2. BringsNothing("reap")
    BY <1>3, <2>1, KeptNoAdd DEF ReapOrphan, BringsNothing, Live, ReaddBound
  <2> QED BY <2>2, QuietStep
<1>4. CASE ReapDone
  <2>1. seen["reap"] = {}
    BY <1>4, SeenEmpty DEF ReapDone
  <2>2. BringsNothing("reap")
    BY <1>4, <2>1, KeptNoAdd DEF ReapDone, BringsNothing, Live, Goto, ReaddBound
  <2> QED BY <2>2, QuietStep
<1> QED BY <1>1, <1>2, <1>3, <1>4 DEF ReapStep

LEMMA ControlLease ==
    ASSUME Prompt, LeaseInv, Control PROVE Leases'
<1> USE DEF LeaseInv, Leases, TypeInv, TypeOK, kernel, calls, plans, history, Task,
        Lister
<1>1. ASSUME NEW m \in Mac, Revoke(m) PROVE Leases'
  BY <1>1, RemoveLease DEF Revoke, Reason
<1>2. ASSUME NEW m \in Mac, NEW o \in Offers, GrantBegin(m, o) PROVE Leases'
  <2> DEFINE c == [op |-> "add", from |-> "control", mac |-> m, left |-> o.ttl]
  <2>1. o.ttl \in 0..MaxTTL /\ o.ttl > 0
    BY GateAssumption DEF GateAssumption, Offer, Prompt
  <2>2. c \in Command /\ Send(c)
    BY <1>2, <2>1 DEF Command, GrantBegin
  <2>3. \A i \in DOMAIN mail : mail[i].from # "control"
    BY <1>2, NoMail DEF GrantBegin, Waits
  <2>4. AddBound'
    <3>1. c.left > 0 /\ c.from = "control" /\ c.mac = pend'.mac /\ c.left = pend'.s.left
      BY <1>2, <2>1 DEF GrantBegin, NewSession
    <3>2. lease' = lease
      BY <1>2 DEF GrantBegin
    <3> HIDE DEF c
    <3> QED BY <2>2, <2>3, <3>1, <3>2, SentAdd
  <2>5. PendBound'
    <3>1. reply["control"] = "none" /\ reply' = reply
      BY <1>2 DEF GrantBegin, Mailbox, Waits
    <3> QED BY <3>1 DEF PendBound
  <2>6. LeaseBound' /\ LeftBound' /\ SeenBound' /\ ReaddBound'
    BY <1>2 DEF GrantBegin, LeaseBound, LeftBound, Live, SeenBound, ReaddBound, Goto
  <2> QED BY <2>4, <2>5, <2>6
<1> QED BY <1>1, <1>2 DEF Control

\* The command that the writer takes, and what it knows of the rest.
LEMMA HeadBound ==
    ASSUME LeaseInv, mail # <<>>, mail' = Tail(mail), NEW c, c = Head(mail)
    PROVE  /\ c \in Command
           /\ c.op = "add" => c.left > 0
           /\ c.op = "add" /\ c.from = "control" =>
                  pend # NoSession /\ c.mac = pend.mac /\ c.left = pend.s.left
           /\ c.op = "add" /\ c.from # "control" => c.left <= lease[c.mac]
           /\ c.from # Nobody => reply[c.from] = "none" /\ pc[c.from] = Awaits(c)
           /\ NoNewAdd
<1>1. 1 \in DOMAIN mail /\ c = mail[1]
  BY RestMail DEF LeaseInv
<1>2. c \in Command
  BY <1>1, FromType DEF LeaseInv
<1>3. NoNewAdd
  BY RestMail DEF NoNewAdd, LeaseInv
<1>4. c.from # Nobody => reply[c.from] = "none" /\ pc[c.from] = Awaits(c)
  BY <1>1 DEF LeaseInv, Mailbox
<1>5. c.op = "add" /\ c.from = "control" => pend # NoSession
  BY <1>4 DEF LeaseInv, TypeInv, Busy, Awaits, Nobody
<1> QED BY <1>1, <1>2, <1>3, <1>4, <1>5 DEF LeaseInv, Leases, AddBound

LEMMA WriterLease ==
    ASSUME LeaseInv, Writer PROVE Leases'
<1> USE DEF LeaseInv, Leases, TypeInv, TypeOK, kernel, calls, plans, history, Task,
        Lister
<1> DEFINE c == Head(mail)
<1>0. mail # <<>> /\ mail' = Tail(mail) /\ pc' = pc
  BY DEF Writer, WriterExec, WriterFail
<1>1. /\ c \in Command
      /\ c.op = "add" => c.left > 0
      /\ c.op = "add" /\ c.from = "control" =>
             pend # NoSession /\ c.mac = pend.mac /\ c.left = pend.s.left
      /\ c.op = "add" /\ c.from # "control" => c.left <= lease[c.mac]
      /\ c.from # Nobody => reply[c.from] = "none" /\ pc[c.from] = Awaits(c)
      /\ NoNewAdd
  BY <1>0, HeadBound
<1>2. AddBound /\ pend' = pend /\ (\A m \in Mac : lease[m] <= lease'[m]) => AddBound'
  <2> SUFFICES ASSUME AddBound, pend' = pend, \A m \in Mac : lease[m] <= lease'[m],
                      NEW i \in DOMAIN mail', mail'[i].op = "add"
               PROVE  /\ mail'[i].left > 0
                      /\ mail'[i].from = "control" =>
                             mail'[i].mac = pend.mac /\ mail'[i].left = pend.s.left
                      /\ mail'[i].from # "control" => mail'[i].left <= lease'[mail'[i].mac]
    BY DEF AddBound
  <2>1. PICK j \in DOMAIN mail : mail[j] = mail'[i]
    BY <1>1 DEF NoNewAdd
  <2>2. mail[j].mac \in Mac /\ mail[j].left \in Int
    BY <2>1, FromType DEF Command
  <2>3. lease[mail[j].mac] \in Int /\ lease'[mail[j].mac] \in Int
    <3>1. lease' \in [Mac -> 0..MaxTTL]
      BY WriterType
    <3> QED BY <2>2, <3>1, GateAssumption DEF GateAssumption
  <2>4. /\ mail[j].left > 0
        /\ mail[j].from = "control" => mail[j].mac = pend.mac /\ mail[j].left = pend.s.left
        /\ mail[j].from # "control" => mail[j].left <= lease[mail[j].mac]
    BY <2>1 DEF AddBound
  <2>5. lease[mail[j].mac] <= lease'[mail[j].mac]
    BY <2>2
  <2>6. mail[j].from # "control" => mail[j].left <= lease'[mail[j].mac]
    BY <2>2, <2>3, <2>4, <2>5
  <2> QED BY <2>1, <2>4, <2>6
<1>3. CASE WriterExec /\ ExecAdd(c)
  <2>1. c.mac \in Mac /\ c.left \in 1..MaxTTL /\ c.from \in {"control", "recon"}
    BY <1>1, <1>3, GateAssumption DEF ExecAdd, Command, GateAssumption
  <2>2. \A m \in Mac : lease[m] \in 0..MaxTTL /\ lease[m] <= lease'[m]
                       /\ lease'[m] \in 0..MaxTTL
    <3>1. lease' = [lease EXCEPT ![c.mac] = IF lease[c.mac] < c.left THEN c.left
                                           ELSE lease[c.mac]] \/ lease' = lease
      BY <1>3 DEF ExecAdd
    <3>2. lease \in [Mac -> 0..MaxTTL]
      OBVIOUS
    <3> HIDE DEF c, LeaseInv
    <3> QED BY <2>1, <3>1, <3>2, GateAssumption DEF GateAssumption
  <2>3. c.left <= lease'[c.mac]
    <3>1. lease \in [Mac -> 0..MaxTTL] /\ c.left \in Int
      BY <2>1
    <3>2. CASE c.from = "control"
      <4>1. lease' = [lease EXCEPT ![c.mac] = IF lease[c.mac] < c.left THEN c.left
                                             ELSE lease[c.mac]]
        BY <1>3, <3>2 DEF ExecAdd
      <4> HIDE DEF c, LeaseInv
      <4> QED BY <2>1, <2>2, <3>1, <4>1, GateAssumption DEF GateAssumption
    <3>3. CASE c.from # "control"
      <4>1. lease' = lease /\ c.left <= lease[c.mac]
        BY <1>1, <1>3, <3>3 DEF ExecAdd
      <4> HIDE DEF c, LeaseInv
      <4> QED BY <4>1
    <3> QED BY <3>2, <3>3
  <2>4. LeaseBound'
    <3> SUFFICES ASSUME NEW m \in auth' PROVE 0 < timer'[m] /\ timer'[m] <= lease'[m]
      BY DEF LeaseBound
    <3>1. m \in Mac /\ (m # c.mac => m \in auth)
      BY <1>3, <2>1 DEF ExecAdd
    <3>2. \/ timer'[m] = timer[m] /\ m \in auth
          \/ m = c.mac /\ timer'[m] = c.left
      BY <1>3, <2>1, <3>1 DEF ExecAdd
    <3>3. timer[m] \in Int
      BY <3>1, GateAssumption DEF GateAssumption
    <3> QED BY SMTT(30), <2>1, <2>2, <2>3, <3>1, <3>2, <3>3 DEF LeaseBound
  <2>5. LeftBound'
    <3>1. \A m \in Live : ram[m].left \in Int
      BY DEF Live, Session
    <3>2. ram' = ram
      BY <1>3 DEF WriterExec
    <3> QED BY <2>2, <3>1, <3>2 DEF LeftBound, Live
  <2>6. AddBound'
    BY <1>2, <1>3, <2>2 DEF WriterExec
  <2>7. PendBound'
    <3>1. CASE c.from = "control"
      <4>1. pend' = pend /\ c.mac = pend.mac /\ c.left = pend.s.left
        BY <1>1, <1>3, <3>1 DEF WriterExec, ExecAdd
      <4> QED BY <2>3, <4>1 DEF PendBound
    <3>2. CASE c.from = "recon"
      <4> SUFFICES ASSUME pc["control"] = "add", reply'["control"] = "ok"
                   PROVE  pend.s.left <= lease'[pend.mac]
        BY <1>3 DEF PendBound, WriterExec
      <4>1. reply["control"] = "ok"
        BY <1>3, <3>2 DEF ExecAdd, Answer
      <4>2. pend.mac \in Mac /\ pend.s.left \in Int
        BY DEF Busy, Pending, Session
      <4> QED BY <2>2, <4>1, <4>2 DEF PendBound
    <3> QED BY <2>1, <3>1, <3>2
  <2>8. SeenBound'
    <3>1. \A t \in Lister : seen'[t] = seen[t] /\ (pc[t] = "list" => reply'[t] = reply[t])
      BY <1>1, <1>3, <2>1 DEF ExecAdd, Answer, Awaits, Nobody
    <3>2. \A t \in Lister : \A e \in seen[t] : e.mac \in Mac /\ e.left \in Int
      BY GateAssumption DEF AuthElement, GateAssumption
    <3> QED BY SMTT(30), <1>0, <2>2, <3>1, <3>2 DEF SeenBound
  <2>9. ReaddBound'
    <3>1. \A e \in readd : e.mac \in Mac /\ e.left \in Int
      BY GateAssumption DEF AuthElement, GateAssumption
    <3>2. readd' = readd
      BY <1>3 DEF WriterExec
    <3> QED BY SMTT(30), <1>0, <2>2, <3>1, <3>2 DEF ReaddBound
  <2> QED BY <2>4, <2>5, <2>6, <2>7, <2>8, <2>9
<1> HIDE DEF c
<1>4. CASE WriterExec /\ ExecDel(c)
  <2>1. c.mac \in Mac /\ lease' = lease /\ seen' = seen /\ c.op = "del"
    BY <1>1, <1>4 DEF ExecDel, Command
  <2>2. LeaseBound'
    BY <1>4, <2>1 DEF ExecDel, LeaseBound
  <2>3. LeftBound' /\ ReaddBound'
    BY <1>0, <1>4, <2>1 DEF WriterExec, LeftBound, Live, ReaddBound
  <2>4. AddBound'
    BY <1>2, <1>4, <2>1, GateAssumption DEF WriterExec, GateAssumption
  <2>5. \A t \in Task : pc[t] \in {"add", "list"} => reply'[t] = reply[t]
    BY <1>1, <1>4, <2>1 DEF ExecDel, Answer, Awaits
  <2>6. PendBound'
    BY <1>0, <1>4, <2>1, <2>5 DEF WriterExec, PendBound
  <2>7. SeenBound'
    BY <1>0, <2>1, <2>5 DEF SeenBound
  <2> QED BY <2>2, <2>3, <2>4, <2>6, <2>7
<1>5. CASE WriterExec /\ ExecList(c)
  <2>1. /\ UNCHANGED <<auth, timer, lease, ram, pend, readd>>
        /\ c.op = "list" /\ c.from \in Lister /\ c.from \in Task
    BY <1>1, <1>5 DEF WriterExec, ExecList, Command
  <2>2. pc[c.from] = "list"
    BY <1>1, <2>1 DEF Awaits, Nobody
  <2>3. LeaseBound' /\ LeftBound' /\ ReaddBound'
    BY <1>0, <2>1 DEF LeaseBound, LeftBound, Live, ReaddBound
  <2>4. AddBound'
    BY <1>2, <2>1, GateAssumption DEF GateAssumption
  <2>5. PendBound'
    BY <1>0, <1>5, <2>1, <2>2 DEF ExecList, Answer, PendBound
  <2>6. SeenBound'
    <3>1. \A t \in Lister \ {c.from} : seen'[t] = seen[t] /\ reply'[t] = reply[t]
      BY <1>5, <2>1 DEF ExecList, Answer
    <3>2. /\ seen'[c.from] = {[mac |-> m, left |-> timer[m]] : m \in auth}
          /\ reply'[c.from] = "ok"
      BY <1>5, <2>1 DEF ExecList, Answer, Nobody
    <3>3. \A e \in seen'[c.from] : e.left > 0 /\ e.left <= lease[e.mac]
      BY <3>2 DEF LeaseBound
    <3>4. lease' = lease /\ pc' = pc
      BY <1>0, <2>1
    <3> QED BY <2>1, <2>2, <3>1, <3>2, <3>3, <3>4 DEF SeenBound
  <2> QED BY <2>3, <2>4, <2>5, <2>6
<1>6. CASE WriterFail
  <2>1. /\ UNCHANGED <<auth, timer, lease, ram, pend, readd, seen>>
        /\ Answer(c.from, "err")
    BY <1>6 DEF WriterFail, c
  <2>2. LeaseBound' /\ LeftBound' /\ ReaddBound'
    BY <1>0, <2>1 DEF LeaseBound, LeftBound, Live, ReaddBound
  <2>3. AddBound'
    BY <1>2, <2>1, GateAssumption DEF GateAssumption
  <2>4. PendBound'
    BY <1>0, <2>1 DEF PendBound, Answer
  <2>5. SeenBound'
    <3>1. \A t \in Lister : reply[t] = "ok" => reply'[t] = "ok"
      BY <1>1, <2>1 DEF Answer
    <3> QED BY <1>0, <2>1, <3>1 DEF SeenBound
  <2> QED BY <2>2, <2>3, <2>4, <2>5
<1> QED BY <1>3, <1>4, <1>5, <1>6 DEF Writer, WriterExec, c

\* One tick: every handler has ended, so no command waits that could admit.
LEMMA TickLease ==
    ASSUME Prompt, LeaseInv, Tick PROVE Leases'
<1> USE GateAssumption DEF GateAssumption, LeaseInv, Leases, TypeInv, TypeOK, kernel,
        calls, plans, history
<1>1. \A t \in Task : pc[t] = "idle"
  BY DEF Tick, Prompt
<1>2. \A m \in Mac : /\ lease[m] \in Nat /\ lease'[m] = Less(lease[m])
                     /\ timer[m] \in Nat /\ timer'[m] = Less(timer[m])
  BY DEF Tick
<1>3. LeaseBound'
  <2> SUFFICES ASSUME NEW m \in auth' PROVE 0 < timer'[m] /\ timer'[m] <= lease'[m]
    BY DEF LeaseBound
  <2>1. m \in auth /\ m \in Mac /\ timer[m] # 1
    BY DEF Tick
  <2>2. 0 < timer[m] /\ timer[m] <= lease[m]
    BY <2>1 DEF LeaseBound
  <2>3. timer[m] \in Nat /\ lease[m] \in Nat /\ timer[m] > 1
    BY <1>2, <2>1, <2>2
  <2>4. Less(timer[m]) > 0 /\ Less(timer[m]) <= Less(lease[m])
    <3> HIDE DEF LeaseInv, GateAssumption, TypeInv, Leases
    <3> QED BY <2>2, <2>3 DEF Less
  <2> QED BY <1>2, <2>1, <2>4
<1>4. LeftBound'
  <2> SUFFICES ASSUME NEW m \in Mac, ram'[m] # NoSession PROVE ram'[m].left <= lease'[m]
    BY DEF LeftBound, Live
  <2>1. ram[m] \in Session /\ ram'[m] = Aged(ram[m])
    BY DEF Tick
  <2>2. ram'[m].left = Less(ram[m].left) /\ ram[m].left \in Nat
    BY <2>1 DEF Aged, Session
  <2>3. ram[m].left <= lease[m]
    BY <2>1 DEF LeftBound, Live
  <2>4. Less(ram[m].left) <= Less(lease[m])
    <3>1. lease[m] \in Nat
      BY <1>2
    <3> HIDE DEF LeaseInv, GateAssumption, TypeInv, Leases
    <3> QED BY <2>2, <2>3, <3>1 DEF Less
  <2> QED BY <1>2, <2>2, <2>4
<1>5. \A i \in DOMAIN mail : mail[i].op # "add"
  <2> SUFFICES ASSUME NEW i \in DOMAIN mail, mail[i].op = "add" PROVE FALSE
    OBVIOUS
  <2>1. mail[i].from \in {"control", "recon"} /\ mail[i] \in Command
    BY FromType DEF Command
  <2>2. pc[mail[i].from] = Awaits(mail[i]) /\ Awaits(mail[i]) \in Waits
    BY <2>1, AwaitsType DEF Mailbox, Nobody
  <2> QED BY <1>1, <2>1, <2>2 DEF Waits, Task
<1>6. /\ AddBound' /\ PendBound' /\ SeenBound' /\ ReaddBound'
  <2>1. /\ mail' = mail /\ pc' = pc /\ seen' = seen /\ readd' = readd
    BY DEF Tick
  <2>2. readd = {} /\ \A t \in Lister : seen[t] = {}
    BY <1>1 DEF ReaddBound, SeenBound, Task, Lister
  <2> QED BY <1>1, <1>5, <2>1, <2>2 DEF AddBound, PendBound, SeenBound, ReaddBound, Task
<1> QED BY <1>3, <1>4, <1>6

LEMMA ClientLease ==
    ASSUME LeaseInv, Client PROVE Leases'
<1> USE DEF LeaseInv, Leases, TypeInv, TypeOK, kernel, calls, plans, history
<1>1. /\ UNCHANGED <<lease, ram, mail, pend, pc, reply, seen, readd>>
      /\ auth' \subseteq auth /\ \A m \in auth' : timer'[m] = timer[m]
  BY DEF Client, OpenFlow, EndFlow, KernelDrop
<1> QED BY <1>1 DEF LeaseBound, LeftBound, Live, AddBound, PendBound, SeenBound,
           ReaddBound

LEMMA CrashLease ==
    ASSUME LeaseInv, Crash \/ Reboot \/ Restart PROVE Leases'
<1> USE DEF LeaseInv, Leases, TypeInv, TypeOK, kernel, calls, plans, history
<1>1. CASE Crash \/ Reboot
  <2>1. lease' = lease /\ (auth' = {} \/ (auth' = auth /\ timer' = timer))
    BY <1>1 DEF Crash, Reboot, DaemonGone
  <2>2. /\ \A m \in Mac : ram'[m] = NoSession
        /\ mail' = <<>> /\ readd' = {}
        /\ \A t \in Lister : seen'[t] = {}
        /\ pc'["control"] = "idle"
    BY <1>1 DEF Crash, Reboot, DaemonGone, Task
  <2> QED BY <2>1, <2>2 DEF LeaseBound, LeftBound, Live, AddBound, PendBound, SeenBound,
             ReaddBound
<1>2. CASE Restart
  <2> DEFINE E == {[mac |-> m, left |-> timer[m]] : m \in auth}
  <2>1. UNCHANGED <<auth, timer, lease, mail, pend, pc, reply, seen, readd>>
    BY <1>2 DEF Restart
  <2>2. LeftBound'
    <3>1. CASE \E A \in Room(E, 0) : ram' = WithAdopted(A)
      <4>1. PICK A \in Room(E, 0) : ram' = WithAdopted(A)
        BY <3>1
      <4>2. A \subseteq E
        BY DEF Room
      <4>3. ASSUME NEW m \in Mac, \E e \in A : e.mac = m
            PROVE  ram'[m].left <= lease[m]
        <5>1. PICK e \in A : e.mac = m /\ ram'[m] = SynthSession(e.left)
          BY <4>1, <4>3 DEF WithAdopted
        <5>2. m \in auth /\ e.left = timer[m]
          BY <4>2, <5>1
        <5> QED BY <5>1, <5>2 DEF SynthSession, LeaseBound
      <4>4. ASSUME NEW m \in Mac, ~ \E e \in A : e.mac = m
            PROVE  ram'[m] = ram[m]
        BY <4>1, <4>4 DEF WithAdopted
      <4> QED BY <2>1, <4>3, <4>4 DEF LeftBound, Live
    <3>2. CASE UNCHANGED ram
      BY <2>1, <3>2 DEF LeftBound, Live
    <3> QED BY <1>2, <3>1, <3>2 DEF Restart
  <2> QED BY <2>1, <2>2 DEF LeaseBound, AddBound, PendBound, SeenBound, ReaddBound
<1> QED BY <1>1, <1>2

LEMMA InitLease == Init => Leases
  BY DEF Init, Leases, LeaseBound, LeftBound, Live, AddBound, PendBound, SeenBound,
     ReaddBound, Task

LEMMA NextLease ==
    ASSUME Prompt, LeaseInv, [Next]_vars PROVE LeaseInv'
<1>1. TypeInv' /\ Mailbox'
  BY NextType, NextMail DEF LeaseInv
<1>2. Leases'
  <2>1. CASE Next
    <3>1. ASSUME NEW t \in Task, Step(t) PROVE Leases'
      BY <3>1, TeardownLease, GrantLease, MeterLease, SweepLease, ReconLease, ReapLease
         DEF Step
    <3> QED BY <2>1, <3>1, ControlLease, WriterLease, TickLease, ClientLease,
               MeterLease, CrashLease DEF Next
  <2>2. CASE UNCHANGED vars
    BY <2>2 DEF vars, kernel, calls, plans, history, LeaseInv, Leases, LeaseBound,
       LeftBound, Live, AddBound, PendBound, SeenBound, ReaddBound
  <2> QED BY <2>1, <2>2
<1> QED BY <1>1, <1>2 DEF LeaseInv

LEMMA LeaseInductive == ASSUME Prompt PROVE Spec => []LeaseInv
<1>1. Init => LeaseInv
  BY InitType, InitMail, InitLease DEF LeaseInv
<1>2. LeaseInv /\ [Next]_vars => LeaseInv'
  BY NextLease
<1> QED BY <1>1, <1>2, PTL DEF Spec

\* The timeout of every admitted client is positive and within the longest lease
\* the control plane gave it: for any number of clients and grants, any faults.
THEOREM LeaseHolds == ASSUME Prompt PROVE Spec => []LeaseBound
<1>1. LeaseInv => LeaseBound
  BY DEF LeaseInv, Leases
<1> QED BY <1>1, LeaseInductive, PTL

-----------------------------------------------------------------------------
(* The gate implements the abstract lease.                                   *)

LEMMA StepKeepsAuth ==
    ASSUME NEW t \in Task, Step(t) PROVE UNCHANGED <<auth, lease>>
<1> USE DEF kernel, calls, plans, history
<1>1. CASE TeardownReap(t) \/ TeardownEnd(t)
  BY <1>1 DEF TeardownReap, TeardownEnd
<1>2. CASE GrantStep
  BY <1>2 DEF GrantStep, GrantRefused, GrantInsert, GrantAnnounce
<1>3. CASE MeterStep
  BY <1>3 DEF MeterStep, MeterApply, QuotaRevoke, QuotaDone
<1>4. CASE SweepStep
  BY <1>4 DEF SweepStep, ExpireTake, IdleTake, IdleDone, ExpireNext, IdleRevoke
<1>5. CASE ReconStep
  BY <1>5 DEF ReconStep, ListBegin, ListFailed, ReconcilePlan, ReconcileReadd,
     ReconcileDelete, ReconcileReply, ReconcileDone
<1>6. CASE ReapStep
  BY <1>6 DEF ReapStep, ListBegin, ListFailed, ReapPlan, ReapOrphan, ReapDone
<1> QED BY <1>1, <1>2, <1>3, <1>4, <1>5, <1>6 DEF Step

LEMMA WriterRefines ==
    ASSUME LeaseInv, Writer PROVE Lease!Next \/ UNCHANGED <<auth, lease>>
<1> DEFINE c == Head(mail)
<1>1. mail # <<>> /\ mail' = Tail(mail)
  BY DEF Writer, WriterExec, WriterFail
<1>2. /\ c \in Command
      /\ c.op = "add" => c.left > 0
      /\ c.op = "add" /\ c.from # "control" => c.left <= lease[c.mac]
  BY <1>1, HeadBound
<1>3. CASE WriterExec /\ ExecAdd(c)
  <2>1. c.mac \in Mac /\ c.left \in 1..MaxTTL
    BY <1>2, <1>3, GateAssumption DEF ExecAdd, Command, GateAssumption
  <2>2. auth' = auth \cup {c.mac}
    BY <1>3 DEF ExecAdd
  <2>3. CASE c.from = "control"
    <3>1. Lease!Admit(c.mac, c.left)
      BY <1>3, <2>2, <2>3 DEF ExecAdd, Lease!Admit
    <3> QED BY <2>1, <3>1 DEF Lease!Next
  <2>4. CASE c.from # "control"
    <3>1. lease' = lease
      BY <1>3, <2>4 DEF ExecAdd
    <3>2. lease[c.mac] > 0
      <4>1. c.left <= lease[c.mac] /\ lease[c.mac] \in 0..MaxTTL
        BY <1>2, <1>3, <2>1, <2>4 DEF ExecAdd, LeaseInv, TypeInv, TypeOK
      <4> HIDE DEF c
      <4> QED BY <2>1, <4>1, GateAssumption DEF GateAssumption
    <3>3. Lease!Readmit(c.mac)
      BY <2>2, <3>1, <3>2 DEF Lease!Readmit
    <3> QED BY <2>1, <3>3 DEF Lease!Next
  <2> QED BY <2>3, <2>4
<1>4. CASE WriterExec /\ ExecDel(c)
  <2>1. c.mac \in Mac
    BY <1>2, <1>4 DEF ExecDel, Command
  <2>2. Lease!Gate({c.mac})
    BY <1>4 DEF ExecDel, Lease!Gate
  <2> QED BY <2>1, <2>2 DEF Lease!Next
<1>5. CASE WriterExec /\ ExecList(c)
  BY <1>5 DEF ExecList
<1>6. CASE WriterFail
  BY <1>6 DEF WriterFail, kernel, history
<1> QED BY <1>3, <1>4, <1>5, <1>6 DEF Writer, WriterExec

LEMMA TickRefines ==
    ASSUME LeaseInv, Tick PROVE Lease!Next
<1>1. lease' = [m \in Mac |-> IF lease[m] = 0 THEN 0 ELSE lease[m] - 1]
  BY DEF Tick, Less
<1>2. auth' \subseteq {m \in auth : lease[m] > 1}
  <2> SUFFICES ASSUME NEW m \in auth' PROVE m \in auth /\ lease[m] > 1
    OBVIOUS
  <2>1. m \in auth /\ timer[m] # 1
    BY DEF Tick
  <2>2. 0 < timer[m] /\ timer[m] <= lease[m]
    BY <2>1 DEF LeaseInv, Leases, LeaseBound
  <2>3. timer[m] \in Nat /\ lease[m] \in Nat
    BY <2>1, GateAssumption DEF GateAssumption, LeaseInv, TypeInv, TypeOK
  <2> HIDE DEF LeaseInv
  <2> QED BY <2>1, <2>2, <2>3
<1> QED BY <1>1, <1>2 DEF Lease!Next, Lease!Pass

LEMMA StepRefines ==
    ASSUME LeaseInv, [Next]_vars PROVE [Lease!Next]_(Lease!leaseVars)
<1> USE DEF Lease!leaseVars, kernel, calls, plans, history
<1>1. ASSUME NEW t \in Task, Step(t) PROVE UNCHANGED <<auth, lease>>
  BY <1>1, StepKeepsAuth
<1>2. CASE Control \/ MeterRearm \/ Crash \/ Restart
  BY <1>2 DEF Control, Revoke, GrantBegin, MeterRearm, Crash, DaemonGone, Restart
<1>3. CASE Writer
  BY <1>3, WriterRefines
<1>4. CASE Tick
  BY <1>4, TickRefines
<1>5. ASSUME NEW m \in Mac, OpenFlow(m) \/ EndFlow(m) \/ KernelDrop(m)
      PROVE  Lease!Next \/ UNCHANGED <<auth, lease>>
  <2>1. CASE OpenFlow(m) \/ EndFlow(m)
    BY <2>1 DEF OpenFlow, EndFlow
  <2>2. CASE KernelDrop(m)
    <3>1. Lease!Gate({m})
      BY <2>2 DEF KernelDrop, Lease!Gate
    <3> QED BY <3>1 DEF Lease!Next
  <2> QED BY <1>5, <2>1, <2>2
<1>6. CASE Reboot
  <2>1. Lease!Gate(auth)
    BY <1>6 DEF Reboot, DaemonGone, Lease!Gate
  <2> QED BY <2>1 DEF Lease!Next, LeaseInv, TypeInv, TypeOK
<1>7. CASE UNCHANGED vars
  BY <1>7 DEF vars
<1> QED BY <1>1, <1>2, <1>3, <1>4, <1>5, <1>6, <1>7 DEF Next, Client

\* The gate implements AuthLease: clients are admitted by grants of the control
\* plane, stay while the lease lasts at most, and no repair extends it.
THEOREM GateImplementsLease == ASSUME Prompt PROVE Spec => LeaseSpec
<1>1. Init => Lease!Init
  BY DEF Init, Lease!Init
<1>2. LeaseInv /\ [Next]_vars => [Lease!Next]_(Lease!leaseVars)
  BY StepRefines
<1> QED BY <1>1, <1>2, LeaseInductive, PTL DEF Spec, LeaseSpec, Lease!Spec
=============================================================================
