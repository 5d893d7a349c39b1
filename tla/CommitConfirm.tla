---------------------------- MODULE CommitConfirm ----------------------------
(***************************************************************************)
(* What commit-confirm promises.  A change of the router's configuration   *)
(* is a trial: while it is open anything may be live, and when it closes   *)
(* either the control plane has confirmed what is live, or what was        *)
(* accepted before is live again, or the failure is said.  A power cycle   *)
(* closes a trial and makes what is live the truth (sm.rs says so).        *)
(* Restoring is best effort: lines that could not be restored are loose.   *)
(***************************************************************************)
EXTENDS Naturals

VARIABLES
    live,   \* the configuration a reboot would come up with
    base,   \* the configuration last accepted
    open,   \* a trial is under way
    said,   \* how the last trial ended: "none" while it is open or was cut off
    loose   \* the lines nobody vouches for

confirmVars == <<live, base, open, said, loose>>

\* But for the loose lines, what is live is what was accepted.
Agrees == \A c \in DOMAIN base \ loose : live[c] = base[c]

Init == base = live /\ open = FALSE /\ said = "none" /\ loose = {}

Try == ~open /\ open' /\ said' = "none" /\ UNCHANGED <<live, base, loose>>

\* During a trial the configuration may become anything.
Change == open /\ open' /\ loose \subseteq loose' /\ UNCHANGED <<base, said>>

\* Without one, only a loose line may.
Slip == ~open /\ ~open' /\ Agrees' /\ UNCHANGED <<base, said, loose>>

Close == open /\ open' = FALSE /\ UNCHANGED live

\* The control plane has confirmed the trial.
Commit == Close /\ said' = "committed" /\ base' = live /\ loose' = {}

\* What was accepted is live again; if the daemon died nobody was told.
Restore == /\ Close /\ Agrees
           /\ said' \in {"rolledback", "failed", "none"} /\ UNCHANGED <<base, loose>>

\* The rollback failed, and that is said: what it left is the new truth.
GiveUp == Close /\ said' = "failed" /\ base' = live /\ loose' \subseteq loose

PowerCycle == /\ open' = FALSE /\ said' = "none" /\ base' = live /\ loose' = {}
              /\ UNCHANGED live

Next == Try \/ Change \/ Slip \/ Commit \/ Restore \/ GiveUp \/ PowerCycle

Spec == Init /\ [][Next]_confirmVars

\* What stays without a trial under way has been accepted, but for the loose lines.
NothingUnconfirmed == ~open => Agrees
=============================================================================
