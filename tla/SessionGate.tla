------------------------------ MODULE SessionGate ------------------------------
(***************************************************************************)
(* The session gate of portcullis: the daemon's in-RAM session table       *)
(* (portcullis-session), the single-owner writer actor in front of the     *)
(* kernel `auth` set (portcullis-nft), and the tasks the composition root  *)
(* starts over them (portcullis-engined, portcullis-accounting):           *)
(*                                                                         *)
(*   "control"  the control channel, one command at a time: grant, revoke  *)
(*   "meter"    the metering loop: counters, quota                         *)
(*   "sweep"    the one-second tick: tick_expiry, then sweep_idle          *)
(*   "recon"    the drift reconciler: list_auth, then reconcile_at         *)
(*   "reap"     the conntrack sweep: list_auth, then reap_orphan_flows     *)
(*                                                                         *)
(* The runtime is single-threaded, so a task runs alone between two awaits *)
(* and may be overtaken by every other task at one.  An action is the code *)
(* from one await to the next.  A call to the writer is three steps: the   *)
(* task puts a command in the mailbox, the writer executes it, the task    *)
(* takes the reply.                                                        *)
(*                                                                         *)
(* Time is modelled by countdowns: a deadline is the number of ticks left. *)
(***************************************************************************)
EXTENDS Integers, Sequences, FiniteSets

CONSTANTS
    Mac,             \* the clients
    Offers,          \* the limits a grant may carry: a set of records
    MaxTTL,          \* the longest ttl of an offer, in ticks
    MinReadd,        \* RECONCILE_MIN_TTL, in ticks
    IdleTimeout,     \* the engine's idle_timeout, in ticks; 0 disables the sweep
    MaxSessions,     \* MAX_SESSIONS
    UnknownPolicy,   \* UnknownKernelPolicy: "Adopt" (the default) or "Delete"
    Backend,         \* "ipset" or "nft": what add and del do to an element
    ReapConntrack,   \* cfg.reap_conntrack: is the "reap" task started
    Talkers,         \* the clients whose established flows are followed
    NoSession,       \* the value of an empty slot
    MaxDelay,        \* bound: ticks a handler may take from start to end
    MaxGrants,       \* bound: grants the control plane issues
    Faults,          \* the kinds of fault that may happen
    MaxFaults        \* bound: faults in a behaviour

Offer   == [ttl : 0..MaxTTL, quota : BOOLEAN, rate : BOOLEAN, ip : BOOLEAN]
Sid     == 1..MaxGrants          \* session ids the control plane issues
Adopted == 0                     \* the placeholder id `adopted:<mac>`
IdleCap == IdleTimeout + MaxDelay + 1   \* bound: idle time is counted up to here

\* An entry of the session table.  `base`: the counter baseline is set;
\* `over`: the byte total exceeds the quota; `idle`: ticks since last_activity.
Session == [sid : Sid \cup {Adopted}, left : 0..MaxTTL, idle : 0..IdleCap,
            base : BOOLEAN, over : BOOLEAN, quota : BOOLEAN, rate : BOOLEAN,
            ip : BOOLEAN]

\* A session taken out of the table and being torn down.
Reason == {"admin", "quota", "idle", "expired"}
Ticket == [sid : Sid \cup {Adopted}, mac : Mac, ip : BOOLEAN, why : Reason]

\* A grant in progress.
Pending == [mac : Mac, s : {s \in Session : s.sid \in Sid}]

\* What list_auth returns for one element.
AuthElement == [mac : Mac, left : 0..MaxTTL]

Task     == {"control", "meter", "sweep", "recon", "reap"}
Lister   == {"recon", "reap"}
Periodic == {"meter", "sweep", "recon"} \cup (IF ReapConntrack THEN {"reap"} ELSE {})
Nobody   == "nobody"             \* the sender of a command whose reply is dropped
Label    == {"idle", "add", "shape", "del", "unshape", "breached", "expire",
             "idlers", "list", "repair", "readd", "delete", "reaping"}
Running  == {"breached", "expire", "idlers", "repair"}   \* not at an await
Command  == [op : {"add"}, from : {"control", "recon"}, mac : Mac, left : 0..MaxTTL]
            \cup [op : {"del"}, from : Task \cup {Nobody}, mac : Mac]
            \cup [op : {"list"}, from : Lister]

ASSUME GateAssumption ==
    /\ MaxTTL \in Nat /\ MinReadd \in Nat /\ IdleTimeout \in Nat
    /\ MaxSessions \in Nat /\ MaxDelay \in Nat /\ MaxGrants \in Nat
    /\ MaxFaults \in Nat
    /\ IsFiniteSet(Mac)
    /\ Offers \subseteq Offer
    /\ Talkers \subseteq Mac
    /\ UnknownPolicy \in {"Adopt", "Delete"}
    /\ Backend \in {"ipset", "nft"}
    /\ ReapConntrack \in BOOLEAN
    /\ NoSession \notin Session \cup Ticket \cup Pending

VARIABLES
    \* the kernel; it outlives the daemon
    auth,       \* the members of the `auth` set
    timer,      \* the timeout left on each member; 0 on a member: permanent
    shaped,     \* the clients with an HTB class
    flows,      \* the clients with an established conntrack flow
    \* the daemon
    up,         \* is the daemon running
    ram,        \* the session table
    mail,       \* the writer's mailbox, oldest command first
    reply,      \* the reply each task has received
    pc,         \* where each task stands
    age,        \* ticks since each task's handler started
    due,        \* periodic tasks whose interval has elapsed
    pend,       \* "control": the grant in progress
    cur,        \* the session each task is tearing down
    held,       \* "sweep": expired sessions taken out and not torn down yet
    todo,       \* clients each task has left to act on
    seen,       \* the auth elements each lister was told of
    readd,      \* "recon": elements left to put back
    \* bounds and history
    grants,     \* grants issued so far
    faults,     \* faults so far
    lease,      \* ticks left of the longest ttl the kernel was ever given for a client
    gated,      \* clients whose revoke was answered and who got no grant since
    announced,  \* session ids whose GRANTED was emitted
    owed,       \* session ids the control plane is owed a final event for
    closed      \* session ids whose final event was emitted

kernel  == <<auth, timer, shaped, flows>>
calls   == <<mail, reply>>
plans   == <<todo, seen, readd>>
history == <<grants, lease, gated, announced, owed, closed>>
vars == <<kernel, up, ram, calls, pc, age, due, pend, cur, held, plans, faults, history>>

-----------------------------------------------------------------------------
(* Helpers *)

Live == {m \in Mac : ram[m] # NoSession}

\* Mutant: a subtraction that does not saturate.
LessWrapping(n) == n - 1

Less(n) == IF n = 0 THEN 0 ELSE n - 1

\* A session one tick later.
Aged(s) == [s EXCEPT !.left = Less(@), !.idle = IF @ < IdleCap THEN @ + 1 ELSE @]

\* The session of a new grant, and the one built from a kernel element alone.
NewSession(sid, o) ==
    [sid |-> sid, left |-> o.ttl, idle |-> 0, base |-> FALSE, over |-> FALSE,
     quota |-> o.quota, rate |-> o.rate, ip |-> o.ip]
SynthSession(remaining) ==
    [sid |-> Adopted, left |-> remaining, idle |-> 0, base |-> FALSE, over |-> FALSE,
     quota |-> FALSE, rate |-> FALSE, ip |-> FALSE]

TicketFor(m, why) == [sid |-> ram[m].sid, mac |-> m, ip |-> ram[m].ip, why |-> why]

\* A fault of kind k may happen in this step.
Fault(k) == k \in Faults /\ faults < MaxFaults /\ faults' = faults + 1
NoFault  == faults' = faults

\* Task t goes on at label l; a handler that ends forgets its age.
Goto(t, l) ==
    /\ pc' = [pc EXCEPT ![t] = l]
    /\ age' = [age EXCEPT ![t] = IF l = "idle" THEN 0 ELSE @]

Send(c) == mail' = Append(mail, c)
TakeReply(t) == reply' = [reply EXCEPT ![t] = "none"]

\* Where a task goes on when the teardown of a session is over.
Resume(why) == CASE why = "admin"   -> "idle"
                 [] why = "quota"   -> "breached"
                 [] why = "expired" -> "expire"
                 [] why = "idle"    -> "idlers"

-----------------------------------------------------------------------------
(* Time and the kernel *)

\* One tick: the kernel drops the elements that time out, every deadline comes
\* one tick nearer, and the periodic tasks are due.  No handler takes longer
\* than MaxDelay ticks.
Tick ==
    /\ \A t \in Task : pc[t] = "idle" \/ age[t] < MaxDelay
    /\ auth' = auth \ {m \in auth : timer[m] = 1}
    /\ timer' = [m \in Mac |-> Less(timer[m])]
    /\ ram' = [m \in Mac |-> IF ram[m] = NoSession THEN NoSession ELSE Aged(ram[m])]
    /\ pend' = IF pend = NoSession \/ pc["control"] # "add" THEN pend
               ELSE [pend EXCEPT !.s = Aged(@)]
    /\ age' = [t \in Task |-> IF pc[t] = "idle" THEN 0 ELSE age[t] + 1]
    /\ due' = IF up THEN Periodic ELSE {}
    /\ lease' = [m \in Mac |-> Less(lease[m])]
    /\ UNCHANGED <<shaped, flows, up, calls, pc, cur, held, plans, faults,
                   grants, gated, announced, owed, closed>>

\* The forward chain lets an authorized client open a flow; a flow may end by itself.
OpenFlow(m) ==
    /\ m \in (Talkers \cap auth) \ flows
    /\ flows' = flows \cup {m}
    /\ UNCHANGED <<auth, timer, shaped, up, ram, calls, pc, age, due, pend, cur,
                   held, plans, faults, history>>

EndFlow(m) ==
    /\ m \in flows
    /\ flows' = flows \ {m}
    /\ UNCHANGED <<auth, timer, shaped, up, ram, calls, pc, age, due, pend, cur,
                   held, plans, faults, history>>

\* Something other than the daemon takes an element out of the set.
KernelDrop(m) ==
    /\ m \in auth
    /\ Fault("drop")
    /\ auth' = auth \ {m}
    /\ timer' = [timer EXCEPT ![m] = 0]
    /\ UNCHANGED <<shaped, flows, up, ram, calls, pc, age, due, pend, cur, held,
                   plans, history>>

-----------------------------------------------------------------------------
(* The writer actor: one command at a time, in the order they were sent.  A *)
(* command that fails is retried once; that both attempts fail is one fault. *)

Answer(from, r) ==
    reply' = IF from = Nobody THEN reply ELSE [reply EXCEPT ![from] = r]

\* Mutant: the element is added without its timeout.
ExecAddPermanent(c) ==
    /\ c.op = "add"
    /\ auth' = auth \cup {c.mac}
    /\ timer' = [timer EXCEPT ![c.mac] = 0]
    /\ IF c.from = "control"
       THEN lease' = [lease EXCEPT ![c.mac] = IF @ < c.left THEN c.left ELSE @]
       ELSE lease' = lease
    /\ Answer(c.from, "ok")
    /\ UNCHANGED seen

\* `ipset add -exist` refreshes the timeout of a member, nft leaves it alone.
ExecAdd(c) ==
    /\ c.op = "add"
    /\ auth' = auth \cup {c.mac}
    /\ timer' = IF c.mac \in auth /\ Backend = "nft" THEN timer
                ELSE [timer EXCEPT ![c.mac] = c.left]
    /\ IF c.from = "control"
       THEN lease' = [lease EXCEPT ![c.mac] = IF @ < c.left THEN c.left ELSE @]
       ELSE lease' = lease
    /\ Answer(c.from, "ok")
    /\ UNCHANGED seen

\* `ipset del -exist` accepts an absent element, nft reports an error.
ExecDel(c) ==
    /\ c.op = "del"
    /\ auth' = auth \ {c.mac}
    /\ timer' = [timer EXCEPT ![c.mac] = 0]
    /\ Answer(c.from, IF c.mac \notin auth /\ Backend = "nft" THEN "err" ELSE "ok")
    /\ UNCHANGED <<seen, lease>>

ExecList(c) ==
    /\ c.op = "list"
    /\ seen' = [seen EXCEPT ![c.from] = {[mac |-> m, left |-> timer[m]] : m \in auth}]
    /\ Answer(c.from, "ok")
    /\ UNCHANGED <<auth, timer, lease>>

WriterExec ==
    /\ mail # <<>>
    /\ LET c == Head(mail) IN ExecAdd(c) \/ ExecDel(c) \/ ExecList(c)
    /\ mail' = Tail(mail)
    /\ NoFault
    /\ UNCHANGED <<shaped, flows, up, ram, pc, age, due, pend, cur, held, todo, readd,
                   grants, gated, announced, owed, closed>>

WriterFail ==
    /\ mail # <<>>
    /\ Fault("writer")
    /\ Answer(Head(mail).from, "err")
    /\ mail' = Tail(mail)
    /\ UNCHANGED <<kernel, up, ram, pc, age, due, pend, cur, held, plans, history>>

-----------------------------------------------------------------------------
(* grant: cap check, add_auth, insert, shape, GRANTED *)

\* Mutant: the cap is not checked.
GrantBeginUncapped(m, o) ==
    /\ up /\ pc["control"] = "idle"
    /\ grants < MaxGrants
    /\ grants' = grants + 1
    /\ gated' = gated \ {m}
    /\ pend' = [mac |-> m, s |-> NewSession(grants + 1, o)]
    /\ Send([op |-> "add", from |-> "control", mac |-> m, left |-> o.ttl])
    /\ Goto("control", "add")
    /\ UNCHANGED <<kernel, up, ram, reply, due, cur, held, plans, faults,
                   lease, announced, owed, closed>>

GrantBegin(m, o) ==
    /\ up /\ pc["control"] = "idle"
    /\ grants < MaxGrants
    /\ m \in Live \/ Cardinality(Live) < MaxSessions
    /\ grants' = grants + 1
    /\ gated' = gated \ {m}
    /\ pend' = [mac |-> m, s |-> NewSession(grants + 1, o)]
    /\ Send([op |-> "add", from |-> "control", mac |-> m, left |-> o.ttl])
    /\ Goto("control", "add")
    /\ UNCHANGED <<kernel, up, ram, reply, due, cur, held, plans, faults,
                   lease, announced, owed, closed>>

\* A writer error: no session, no GRANTED, the error goes to the control plane.
GrantRefused ==
    /\ pc["control"] = "add" /\ reply["control"] = "err"
    /\ TakeReply("control")
    /\ pend' = NoSession
    /\ Goto("control", "idle")
    /\ UNCHANGED <<kernel, up, ram, mail, due, cur, held, plans, faults, history>>

GrantInsert ==
    /\ pc["control"] = "add" /\ reply["control"] = "ok"
    /\ TakeReply("control")
    /\ LET m == pend.mac IN
       /\ ram' = [ram EXCEPT ![m] = pend.s]
       /\ owed' = (owed \ (IF m \in Live THEN {ram[m].sid} ELSE {})) \cup {pend.s.sid}
    /\ Goto("control", "shape")
    /\ UNCHANGED <<kernel, up, mail, due, pend, cur, held, plans, faults,
                   grants, lease, gated, announced, closed>>

\* Mutant: a shaper error ends the grant before GRANTED.
GrantAnnounceIfShaped ==
    /\ pc["control"] = "shape"
    /\ \/ /\ shaped' = IF pend.s.rate THEN shaped \cup {pend.mac} ELSE shaped \ {pend.mac}
          /\ NoFault
          /\ announced' = announced \cup {pend.s.sid}
       \/ Fault("shape") /\ UNCHANGED <<shaped, announced>>
    /\ pend' = NoSession
    /\ Goto("control", "idle")
    /\ UNCHANGED <<auth, timer, flows, up, ram, calls, due, cur, held, plans,
                   grants, lease, gated, owed, closed>>

\* A shaper error leaves the session uncapped and does not fail the grant.
GrantAnnounce ==
    /\ pc["control"] = "shape"
    /\ \/ /\ shaped' = IF pend.s.rate THEN shaped \cup {pend.mac} ELSE shaped \ {pend.mac}
          /\ NoFault
       \/ Fault("shape") /\ UNCHANGED shaped
    /\ announced' = announced \cup {pend.s.sid}
    /\ pend' = NoSession
    /\ Goto("control", "idle")
    /\ UNCHANGED <<auth, timer, flows, up, ram, calls, due, cur, held, plans,
                   grants, lease, gated, owed, closed>>

-----------------------------------------------------------------------------
(* Teardown of a session that is out of the table: del_auth, reap, unshape,  *)
(* the final event.  revoke_internal and tick_expiry share these steps.      *)

\* Mutant: the session is read, and stays in the table.
RevokeGet(t, m, why) ==
    /\ m \in Live
    /\ cur' = [cur EXCEPT ![t] = TicketFor(m, why)]
    /\ ram' = ram
    /\ Send([op |-> "del", from |-> t, mac |-> m])
    /\ Goto(t, "del")

\* revoke_internal: take the session of m out of the table, ask for del_auth.
RevokeRemove(t, m, why) ==
    /\ m \in Live
    /\ cur' = [cur EXCEPT ![t] = TicketFor(m, why)]
    /\ ram' = [ram EXCEPT ![m] = NoSession]
    /\ Send([op |-> "del", from |-> t, mac |-> m])
    /\ Goto(t, "del")

\* del_auth was answered, well or not: sever the client's flows if its address
\* is known.  A reaper error is swallowed.
TeardownReap(t) ==
    /\ pc[t] = "del" /\ cur[t] # NoSession /\ reply[t] # "none"
    /\ TakeReply(t)
    /\ \/ /\ flows' = IF cur[t].ip THEN flows \ {cur[t].mac} ELSE flows
          /\ NoFault
       \/ cur[t].ip /\ Fault("reap") /\ UNCHANGED flows
    /\ Goto(t, "unshape")
    /\ UNCHANGED <<auth, timer, shaped, up, ram, mail, due, pend, cur, held, plans,
                   history>>

\* Drop the bandwidth cap and emit the final event.  A revoke commanded by the
\* control plane is acknowledged here.
TeardownEnd(t) ==
    /\ pc[t] = "unshape"
    /\ \/ shaped' = shaped \ {cur[t].mac} /\ NoFault
       \/ Fault("shape") /\ UNCHANGED shaped
    /\ closed' = closed \cup ({cur[t].sid} \cap Sid)
    /\ owed' = owed \ {cur[t].sid}
    /\ gated' = IF cur[t].why = "admin" THEN gated \cup {cur[t].mac} ELSE gated
    /\ cur' = [cur EXCEPT ![t] = NoSession]
    /\ Goto(t, Resume(cur[t].why))
    /\ UNCHANGED <<auth, timer, flows, up, ram, calls, due, pend, held, plans,
                   grants, lease, announced>>

-----------------------------------------------------------------------------
(* revoke: a command for a client with no session is answered with an error  *)

Revoke(m) ==
    /\ up /\ pc["control"] = "idle"
    /\ RevokeRemove("control", m, "admin")
    /\ UNCHANGED <<kernel, up, reply, due, pend, held, plans, faults, history>>

-----------------------------------------------------------------------------
(* The metering loop *)

\* What a snapshot may make of a session: the first one only sets the baseline;
\* later ones grow the total, leave it, or find the counters reset.
Metered(s) ==
    IF ~s.base THEN {[s EXCEPT !.base = TRUE, !.over = FALSE]}
    ELSE {[s EXCEPT !.idle = 0, !.over = o] : o \in {s.over, s.quota}}
         \cup {[s EXCEPT !.over = o] : o \in {s.over, FALSE}}

\* A snapshot for the clients of S has come: apply it under the lock.
MeterApply(S) ==
    /\ up /\ pc["meter"] = "idle" /\ "meter" \in due
    /\ due' = due \ {"meter"}
    /\ ram' \in [Mac -> UNION {Metered(ram[m]) : m \in S} \cup {ram[m] : m \in Mac}]
    /\ \A m \in Mac : IF m \in S THEN ram'[m] \in Metered(ram[m]) ELSE ram'[m] = ram[m]
    /\ todo' = [todo EXCEPT !["meter"] = {m \in S : ram'[m].over}]
    /\ Goto("meter", IF \E m \in S : ram'[m].over THEN "breached" ELSE "idle")
    /\ UNCHANGED <<kernel, up, calls, pend, cur, held, seen, readd, faults, history>>

\* Revoke the sessions found over quota, by client, one after the other.
QuotaRevoke(m) ==
    /\ pc["meter"] = "breached" /\ m \in todo["meter"]
    /\ todo' = [todo EXCEPT !["meter"] = @ \ {m}]
    /\ \/ RevokeRemove("meter", m, "quota")
       \/ m \notin Live /\ UNCHANGED <<cur, ram, mail, pc, age>>
    /\ UNCHANGED <<kernel, up, reply, due, pend, held, seen, readd, faults, history>>

QuotaDone ==
    /\ pc["meter"] = "breached" /\ todo["meter"] = {}
    /\ Goto("meter", "idle")
    /\ UNCHANGED <<kernel, up, ram, calls, due, pend, cur, held, plans, faults, history>>

\* The accounting interval changed: the loop's future is dropped wherever it
\* stands and a new loop starts, its first tick at once.  A command already in
\* the mailbox stays there; nobody waits for its reply.
MeterRearm ==
    /\ up /\ pc["meter"] # "idle"
    /\ Fault("rearm")
    /\ mail' = [i \in DOMAIN mail |-> IF mail[i].from = "meter"
                                      THEN [mail[i] EXCEPT !.from = Nobody] ELSE mail[i]]
    /\ TakeReply("meter")
    /\ todo' = [todo EXCEPT !["meter"] = {}]
    /\ cur' = [cur EXCEPT !["meter"] = NoSession]
    /\ due' = due \cup {"meter"}
    /\ Goto("meter", "idle")
    /\ UNCHANGED <<kernel, up, ram, pend, held, seen, readd, history>>

-----------------------------------------------------------------------------
(* The expiry and idle sweep *)

Expired(s) == s.left = 0

\* tick_expiry: every expired session leaves the table at once.
ExpireTake ==
    /\ up /\ pc["sweep"] = "idle" /\ "sweep" \in due
    /\ due' = due \ {"sweep"}
    /\ LET gone == {m \in Live : Expired(ram[m])} IN
       /\ held' = {TicketFor(m, "expired") : m \in gone}
       /\ ram' = [m \in Mac |-> IF m \in gone THEN NoSession ELSE ram[m]]
    /\ Goto("sweep", "expire")
    /\ UNCHANGED <<kernel, up, calls, pend, cur, plans, faults, history>>

\* ... and they are torn down one after the other.
ExpireNext(k) ==
    /\ pc["sweep"] = "expire" /\ k \in held
    /\ held' = held \ {k}
    /\ cur' = [cur EXCEPT !["sweep"] = k]
    /\ Send([op |-> "del", from |-> "sweep", mac |-> k.mac])
    /\ Goto("sweep", "del")
    /\ UNCHANGED <<kernel, up, ram, reply, due, pend, plans, faults, history>>

\* sweep_idle, with the `now` read before the expiry pass.
Quiet(s) == s.idle - age["sweep"] > IdleTimeout

IdleTake ==
    /\ pc["sweep"] = "expire" /\ held = {}
    /\ todo' = [todo EXCEPT !["sweep"] =
                    IF IdleTimeout = 0 THEN {} ELSE {m \in Live : Quiet(ram[m])}]
    /\ Goto("sweep", "idlers")
    /\ UNCHANGED <<kernel, up, ram, calls, due, pend, cur, held, seen, readd, faults,
                   history>>

IdleRevoke(m) ==
    /\ pc["sweep"] = "idlers" /\ m \in todo["sweep"]
    /\ todo' = [todo EXCEPT !["sweep"] = @ \ {m}]
    /\ \/ RevokeRemove("sweep", m, "idle")
       \/ m \notin Live /\ UNCHANGED <<cur, ram, mail, pc, age>>
    /\ UNCHANGED <<kernel, up, reply, due, pend, held, seen, readd, faults, history>>

IdleDone ==
    /\ pc["sweep"] = "idlers" /\ todo["sweep"] = {}
    /\ Goto("sweep", "idle")
    /\ UNCHANGED <<kernel, up, ram, calls, due, pend, cur, held, plans, faults, history>>

-----------------------------------------------------------------------------
(* The reconciler, and what it shares with the conntrack sweep: list_auth    *)

ListBegin(t) ==
    /\ up /\ pc[t] = "idle" /\ t \in due
    /\ due' = due \ {t}
    /\ Send([op |-> "list", from |-> t])
    /\ Goto(t, "list")
    /\ UNCHANGED <<kernel, up, ram, reply, pend, cur, held, plans, faults, history>>

\* The pass is skipped: the next one is an interval away.
ListFailed(t) ==
    /\ pc[t] = "list" /\ reply[t] = "err"
    /\ TakeReply(t)
    /\ Goto(t, "idle")
    /\ UNCHANGED <<kernel, up, ram, mail, due, pend, cur, held, plans, faults, history>>

Listed(t) == {e.mac : e \in seen[t]}

\* The elements of E that find room in a table with n sessions, in any order.
Room(E, n) == {A \in SUBSET E : Cardinality(A) =
                   LET room == IF n < MaxSessions THEN MaxSessions - n ELSE 0
                   IN  IF Cardinality(E) < room THEN Cardinality(E) ELSE room}

WithAdopted(A) ==
    [m \in Mac |-> IF \E e \in A : e.mac = m
                   THEN SynthSession((CHOOSE e \in A : e.mac = m).left)
                   ELSE ram[m]]

\* reconcile_at, the plan: under one lock, against the snapshot in `seen`.
\* Mutants: no minimum; the elapsed time is forgotten; tracked clients are adopted;
\* elements without a timeout are left out.
AnyLeft(s)  == s.left > 0
FullLeft(s) == MaxTTL
AllListed   == seen["recon"]
TimedOnly   == {e \in seen["recon"] : e.mac \notin Live /\ e.left > 0}

WorthReadding(s) == s.left > MinReadd
Remaining(s) == s.left
Unknown == {e \in seen["recon"] : e.mac \notin Live}

ReconcilePlan ==
    /\ pc["recon"] = "list" /\ reply["recon"] = "ok"
    /\ TakeReply("recon")
    /\ readd' = {[mac |-> m, left |-> Remaining(ram[m])] :
                    m \in {n \in Live \ Listed("recon") : WorthReadding(ram[n])}}
    /\ \/ /\ UnknownPolicy = "Adopt"
          /\ \E A \in Room(Unknown, Cardinality(Live)) : ram' = WithAdopted(A)
          /\ UNCHANGED todo
       \/ /\ UnknownPolicy = "Delete"
          /\ todo' = [todo EXCEPT !["recon"] = {e.mac : e \in Unknown}]
          /\ UNCHANGED ram
    /\ seen' = [seen EXCEPT !["recon"] = {}]
    /\ Goto("recon", "repair")
    /\ UNCHANGED <<kernel, up, mail, due, pend, cur, held, faults, history>>

\* The writer calls of the plan, outside the lock; an error is only tallied.
ReconcileReadd(e) ==
    /\ pc["recon"] = "repair" /\ e \in readd
    /\ readd' = readd \ {e}
    /\ Send([op |-> "add", from |-> "recon", mac |-> e.mac, left |-> e.left])
    /\ Goto("recon", "readd")
    /\ UNCHANGED <<kernel, up, ram, reply, due, pend, cur, held, todo, seen, faults,
                   history>>

ReconcileDelete(m) ==
    /\ pc["recon"] = "repair" /\ readd = {} /\ m \in todo["recon"]
    /\ todo' = [todo EXCEPT !["recon"] = @ \ {m}]
    /\ Send([op |-> "del", from |-> "recon", mac |-> m])
    /\ Goto("recon", "delete")
    /\ UNCHANGED <<kernel, up, ram, reply, due, pend, cur, held, seen, readd, faults,
                   history>>

ReconcileReply ==
    /\ pc["recon"] \in {"readd", "delete"} /\ reply["recon"] # "none"
    /\ TakeReply("recon")
    /\ Goto("recon", "repair")
    /\ UNCHANGED <<kernel, up, ram, mail, due, pend, cur, held, plans, faults, history>>

ReconcileDone ==
    /\ pc["recon"] = "repair" /\ readd = {} /\ todo["recon"] = {}
    /\ Goto("recon", "idle")
    /\ UNCHANGED <<kernel, up, ram, calls, due, pend, cur, held, plans, faults, history>>

-----------------------------------------------------------------------------
(* The conntrack sweep: reap the neighbours that were not listed             *)

\* Mutant: only clients with a session are looked at.
ReapPlanLive ==
    /\ pc["reap"] = "list" /\ reply["reap"] = "ok"
    /\ TakeReply("reap")
    /\ todo' = [todo EXCEPT !["reap"] = (Talkers \cap Live) \ Listed("reap")]
    /\ seen' = [seen EXCEPT !["reap"] = {}]
    /\ Goto("reap", "reaping")
    /\ UNCHANGED <<kernel, up, ram, mail, due, pend, cur, held, readd, faults, history>>

ReapPlan ==
    /\ pc["reap"] = "list" /\ reply["reap"] = "ok"
    /\ TakeReply("reap")
    /\ todo' = [todo EXCEPT !["reap"] = Talkers \ Listed("reap")]
    /\ seen' = [seen EXCEPT !["reap"] = {}]
    /\ Goto("reap", "reaping")
    /\ UNCHANGED <<kernel, up, ram, mail, due, pend, cur, held, readd, faults, history>>

ReapOrphan(m) ==
    /\ pc["reap"] = "reaping" /\ m \in todo["reap"]
    /\ todo' = [todo EXCEPT !["reap"] = @ \ {m}]
    /\ \/ flows' = flows \ {m} /\ NoFault
       \/ Fault("reap") /\ UNCHANGED flows
    /\ UNCHANGED <<auth, timer, shaped, up, ram, calls, pc, age, due, pend, cur, held,
                   seen, readd, history>>

ReapDone ==
    /\ pc["reap"] = "reaping" /\ todo["reap"] = {}
    /\ Goto("reap", "idle")
    /\ UNCHANGED <<kernel, up, ram, calls, due, pend, cur, held, plans, faults, history>>

-----------------------------------------------------------------------------
(* Crash and restart *)

\* What the death of the daemon leaves of its own state: nothing.
DaemonGone ==
    /\ up' = FALSE
    /\ ram' = [m \in Mac |-> NoSession]
    /\ mail' = <<>>
    /\ reply' = [t \in Task |-> "none"]
    /\ pc' = [t \in Task |-> "idle"]
    /\ age' = [t \in Task |-> 0]
    /\ due' = {}
    /\ pend' = NoSession
    /\ cur' = [t \in Task |-> NoSession]
    /\ held' = {}
    /\ todo' = [t \in Task |-> {}]
    /\ seen' = [t \in Lister |-> {}]
    /\ readd' = {}
    /\ owed' = {}
    /\ UNCHANGED <<grants, lease, gated, announced, closed>>

\* The daemon stops or is killed: the kernel keeps the set and its timeouts.
Crash ==
    /\ up /\ Fault("crash")
    /\ DaemonGone
    /\ UNCHANGED kernel

\* The router reboots: the kernel state is gone too.
Reboot ==
    /\ Fault("reboot")
    /\ DaemonGone
    /\ auth' = {} /\ timer' = [m \in Mac |-> 0] /\ shaped' = {} /\ flows' = {}

\* Startup: ensure_base leaves a present set alone, list_auth, adopt.  A list
\* that fails starts the daemon with an empty table.
Restart ==
    /\ ~up
    /\ up' = TRUE
    /\ \/ /\ \E A \in Room({[mac |-> m, left |-> timer[m]] : m \in auth}, 0) :
                ram' = WithAdopted(A)
          /\ NoFault
       \/ Fault("writer") /\ UNCHANGED ram
    /\ due' = Periodic
    /\ UNCHANGED <<kernel, calls, pc, age, pend, cur, held, plans, history>>

-----------------------------------------------------------------------------

Init ==
    /\ auth = {} /\ timer = [m \in Mac |-> 0] /\ shaped = {} /\ flows = {}
    /\ up = TRUE
    /\ ram = [m \in Mac |-> NoSession]
    /\ mail = <<>> /\ reply = [t \in Task |-> "none"]
    /\ pc = [t \in Task |-> "idle"] /\ age = [t \in Task |-> 0]
    /\ due = Periodic
    /\ pend = NoSession
    /\ cur = [t \in Task |-> NoSession]
    /\ held = {}
    /\ todo = [t \in Task |-> {}] /\ seen = [t \in Lister |-> {}] /\ readd = {}
    /\ grants = 0 /\ faults = 0
    /\ lease = [m \in Mac |-> 0] /\ gated = {}
    /\ announced = {} /\ owed = {} /\ closed = {}

Control ==
    \/ \E m \in Mac : Revoke(m)
    \/ \E m \in Mac, o \in Offers : GrantBegin(m, o)
GrantStep == GrantRefused \/ GrantInsert \/ GrantAnnounce

MeterStep ==
    \/ \E S \in SUBSET Live : MeterApply(S)
    \/ \E m \in Mac : QuotaRevoke(m)
    \/ QuotaDone

SweepStep ==
    \/ ExpireTake \/ IdleTake \/ IdleDone
    \/ \E k \in held : ExpireNext(k)
    \/ \E m \in Mac : IdleRevoke(m)

ReconStep ==
    \/ ListBegin("recon") \/ ListFailed("recon") \/ ReconcilePlan
    \/ \E e \in readd : ReconcileReadd(e)
    \/ \E m \in Mac : ReconcileDelete(m)
    \/ ReconcileReply \/ ReconcileDone

ReapStep ==
    \/ ListBegin("reap") \/ ListFailed("reap") \/ ReapPlan
    \/ \E m \in Mac : ReapOrphan(m)
    \/ ReapDone

\* What task t does once it has started.
Step(t) ==
    \/ TeardownReap(t) \/ TeardownEnd(t)
    \/ t = "control" /\ GrantStep
    \/ t = "meter" /\ MeterStep
    \/ t = "sweep" /\ SweepStep
    \/ t = "recon" /\ ReconStep
    \/ t = "reap" /\ ReapStep

Writer == WriterExec \/ WriterFail

Client == \E m \in Mac : OpenFlow(m) \/ EndFlow(m) \/ KernelDrop(m)

\* The runtime has one thread: while a task is between two awaits, nobody else
\* runs; what the kernel and the clients do meanwhile can wait for the await.
Turn(t)   == \A u \in Task \ {t} : pc[u] \notin Running
Quiescent == \A u \in Task : pc[u] \notin Running

Next ==
    \/ \E t \in Task : Turn(t) /\ Step(t)
    \/ Quiescent /\ (Control \/ Writer \/ Tick \/ Client)
    \/ Quiescent /\ (MeterRearm \/ Crash \/ Reboot \/ Restart)

Spec == Init /\ [][Next]_vars

\* Time passes, the writer works, a started handler goes on, an elapsed interval
\* starts the next pass, and procd respawns the daemon.  A ready task waits for
\* its turn while another runs, again and again: the scheduler's queue is first
\* in, first out, so it gets the turn (strong fairness).  The control plane, the
\* clients and the faults are not fair.
Fairness ==
    /\ WF_vars(Quiescent /\ Tick)
    /\ WF_vars(Quiescent /\ Writer)
    /\ WF_vars(Quiescent /\ Restart)
    /\ \A t \in Task : SF_vars(Turn(t) /\ Step(t))

FairSpec == Spec /\ Fairness
-----------------------------------------------------------------------------
(* Properties *)

TypeOK ==
    /\ auth \subseteq Mac /\ timer \in [Mac -> 0..MaxTTL]
    /\ shaped \subseteq Mac /\ flows \subseteq Mac
    /\ up \in BOOLEAN
    /\ ram \in [Mac -> Session \cup {NoSession}]
    /\ mail \in Seq(Command)
    /\ reply \in [Task -> {"none", "ok", "err"}]
    /\ pc \in [Task -> Label] /\ age \in [Task -> 0..MaxDelay]
    /\ due \subseteq Periodic
    /\ pend \in Pending \cup {NoSession}
    /\ cur \in [Task -> Ticket \cup {NoSession}]
    /\ held \subseteq Ticket
    /\ todo \in [Task -> SUBSET Mac]
    /\ seen \in [Lister -> SUBSET AuthElement]
    /\ readd \subseteq AuthElement
    /\ grants \in 0..MaxGrants /\ faults \in 0..MaxFaults
    /\ lease \in [Mac -> 0..MaxTTL]
    /\ gated \subseteq Mac
    /\ announced \subseteq Sid /\ owed \subseteq Sid /\ closed \subseteq Sid

\* Where a session id may be: in the table, out of it and waiting for the
\* sweep, or being torn down by task t.
TableSids  == {ram[m].sid : m \in Live} \cap Sid
HeldSids   == {k.sid : k \in held} \cap Sid
TornSids(t) == IF cur[t] = NoSession THEN {} ELSE {cur[t].sid} \cap Sid
Tracked    == TableSids \cup HeldSids \cup UNION {TornSids(t) : t \in Task}

\* The kernel never admits a client for longer than the longest lease the
\* control plane gave it, whatever re-adds, adoptions, crashes and late replies
\* come between: re-adding and adopting carry the time left, not the ttl.
LeaseBound == \A m \in auth : 0 < timer[m] /\ timer[m] <= lease[m]

\* A session id is in one place at a time, and once its final event is emitted
\* it is nowhere: quota, idle, expiry and admin teardowns that overlap end a
\* session once, never twice, and no step brings an ended session back.
OneTerminal ==
    /\ TableSids \cap HeldSids = {}
    /\ closed \cap Tracked = {}
    /\ \A t \in Task : TornSids(t) \cap (TableSids \cup HeldSids) = {}
    /\ \A t, u \in Task : t # u => TornSids(t) \cap TornSids(u) = {}

\* No session is forgotten: one that was inserted, and that no later grant for
\* its client superseded, is in the table or on its way to its final event.
Accounted == owed = Tracked

\* A session is in the table an await before its GRANTED goes out, and an expiry or a
\* verdict of the meter may end it right then: its final event may come first.  But
\* nobody hears of the end of a session that the control task neither announced nor is
\* about to announce, whatever the shaper answers.
Announcing == IF pc["control"] = "shape" THEN {pend.s.sid} ELSE {}
GrantedToo == [][closed' \ closed \subseteq announced \cup Announcing]_vars

\* The check of the cap and the insert are an await apart, and the reconciler
\* adopts in between: the table may pass the cap by one, and never by more.
CapPlusOne == Cardinality(Live) <= MaxSessions + 1

\* Once the control plane is silent every client is out in the end: the repairs
\* of the reconciler and the adoptions of stale elements do not feed each other.
\* A stale list and a late re-add each add up to MaxDelay to what is left, so it
\* takes MinReadd >= 2 * MaxDelay.
GateDrains == <>[](pc["control"] = "idle") => <>[](auth = {} /\ Live = {})

\* An established flow of a client that is not admitted is cut in the end, also
\* when the session's address was unknown or the fast path failed (invariant #9).
FlowsFollowAuth == \A m \in Mac : (m \in flows \ auth) ~> (m \notin flows \ auth)

\* The kernel's view is the abstract lease: see AuthLease.
Lease == INSTANCE AuthLease WITH admitted <- auth, lease <- lease
LeaseSpec == Lease!Spec

-----------------------------------------------------------------------------
(* What the documentation and the comments say, and the code does not do.    *)

\* A revoked client stays out until it is granted again: "the gate errs toward
\* blocked, never open" (ADR 0007).
GatedStaysOut == gated \cap auth = {}
=============================================================================
