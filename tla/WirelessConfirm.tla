--------------------------- MODULE WirelessConfirm ---------------------------
(***************************************************************************)
(* CP-managed wireless provisioning: the actor of handle.rs over the       *)
(* machine of sm.rs, with the UCI configuration it owns.                   *)
(*                                                                         *)
(* A push stages a batch of `uci` commands, commits it file by file,       *)
(* reloads the radios, writes a marker to tmpfs and waits, for Window      *)
(* ticks, to be confirmed; else it is rolled back to the snapshot taken    *)
(* before.  An action is the code from one external command to the next.   *)
(***************************************************************************)
EXTENDS Integers, Sequences

CONSTANTS
    Slug, Bridge,   \* names of SSIDs; the bridges they sit on
    Mac,            \* the stations a MAC filter may name
    Plans,          \* the desired states the control plane pushes
    Window,         \* the confirm timeout, in ticks
    StatusBuffer,   \* capacity of the upward status channel
    MaxPushes,      \* bound: pushes per behaviour
    Faults,         \* the kinds of fault that may happen
    MaxFaults,      \* bound: faults per behaviour
    Failing,        \* the sets of `uci` commands that may fail together
    Blind,          \* <<handler, step>>: where the daemon does not die
    None            \* no section, no marker, nothing pending

\* An SSID of a desired state: its bridge, whether the captive portal gates it, and the
\* stations its optional MAC filter names.
SsidSpec == [bridge: Bridge, gated: BOOLEAN, macs: SUBSET Mac]

\* From the first staged deltas until the marker is on tmpfs a push has no rollback that
\* would survive the daemon; nor has one whose undoing failed until that is said.
Unarmed == {"apply", "undo"} \X {"set", "commit", "revert", "reload", "undo", "mark"}
           \cup {<<"undo", "clear">>}

FaultKind == {"delete", "set", "commit", "revert", "reload", "undo", "marker", "clear", "record",
              "crash", "reboot"}

ASSUME ConfirmAssumption ==
    /\ \A p \in Plans : DOMAIN p \subseteq Slug /\ \A s \in DOMAIN p : p[s] \in SsidSpec
    /\ Window \in Nat \ {0} /\ StatusBuffer \in Nat \ {0}
    /\ MaxPushes \in Nat /\ MaxFaults \in Nat
    /\ Faults \subseteq FaultKind
    /\ Mac \cap {"section", "name", "macfilter"} = {}

VARIABLES
    flash,      \* the committed configuration: the value of each Line, or None
    staged,     \* what `uci show` shows: flash under the uncommitted deltas
    air,        \* the configuration the radios and the firewall run
    marker,     \* wireless.marker on tmpfs
    gatedFile,  \* committed.gated on tmpfs
    up,         \* the daemon runs
    pc,         \* what the actor does next; "idle": it waits for a command
    job,        \* the locals of the handler under way
    file,       \* the position of `uci commit` in Files
    pending,    \* pending_wireless
    last,       \* last_committed
    status,     \* the upward channel of WirelessStatus
    pushes, faults,
    \* History:
    accepted,   \* the configuration last accepted
    said,       \* how the last trial ended
    told,       \* every status sent
    asked,      \* the plan of each push
    stale,      \* lines of the sections the last push could not delete
    loose       \* lines that nobody vouches for since the configuration was accepted

machine  == <<flash, staged, air, marker, gatedFile>>
actor    == <<pc, job, file, pending, last>>
history  == <<accepted, said, told, asked, stale, loose>>
vars     == <<machine, up, actor, status, pushes, faults, history>>
-----------------------------------------------------------------------------
(* The configuration                                                       *)

\* The configs are committed in this order.  dhcp and sqm have no section the
\* properties tell apart from those of network.
Files == <<"network", "wireless", "firewall">>

\* The lines of `uci show`: <<config, SSID, option>>.  The line "section" declares a section;
\* each station of the list option maclist is a line.  An SSID has its bridge device, its
\* access point and, only if it is gated, the portal rule.
Line == ({"network"} \X Slug \X {"section", "name"})
        \cup ({"wireless"} \X Slug \X ({"section", "macfilter"} \cup Mac))
        \cup ({"firewall"} \X Slug \X {"section"})

SectionOf(c) == <<c[1], c[2], "section">>

\* The command that clears the list a station's line belongs to.
ListOf(c) == <<c[1], c[2], "maclist">>

Value  == Bridge \cup {"set", None}
Config == [Line -> Value]
Empty  == [c \in Line |-> None]
NoPlan == [s \in {} |-> None]

\* render_ssid: the value of one line.
Setting(ssid, c) ==
    CASE c[1] = "firewall" -> IF ssid.gated THEN "set" ELSE None
      [] c[3] = "name"      -> ssid.bridge
      [] c[3] = "macfilter" -> IF ssid.macs # {} THEN "set" ELSE None
      [] c[3] \in Mac       -> IF c[3] \in ssid.macs THEN "set" ELSE None
      [] OTHER              -> "set"

Render(p)   == [c \in Line |-> IF c[2] \in DOMAIN p THEN Setting(p[c[2]], c) ELSE None]
Sections(p) == {c \in Line : c[3] = "section" /\ Render(p)[c] # None}

GatedIfaces(p) == {p[s].bridge : s \in {t \in DOMAIN p : p[t].gated}}

\* `uci set` and `uci add_list` of what a plan says of some SSIDs, over what is staged.
Over(config, p, ssids) ==
    [c \in Line |-> IF c[2] \in ssids /\ Render(p)[c] # None THEN Render(p)[c] ELSE config[c]]

\* A configuration holds the option of a line: for a station's line, any of its list.
Holds(config, c) ==
    IF c[3] \in Mac THEN \E m \in Mac : config[<<c[1], c[2], m>>] # None ELSE config[c] # None

\* What the commands of rollback_to stage if some fail: sections the snapshot lacks are
\* deleted; every line it holds is set, a list after it is cleared, if there is a section
\* to set it in; what it does not mention stays.
Undone(snap, sections, failing) ==
    LET Ran(command) == command \notin failing
        dropped  == {c \in Line : /\ snap[SectionOf(c)] = None /\ SectionOf(c) \in sections
                                  /\ Ran(SectionOf(c))}
        orphans  == {c \in Line : /\ snap[SectionOf(c)] # None /\ staged[SectionOf(c)] = None
                                  /\ ~Ran(SectionOf(c))}
        restored == {c \in Line : snap[c] # None /\ Ran(c)}
        cleared  == {c \in Line : c[3] \in Mac /\ Holds(snap, c) /\ Ran(ListOf(c))}
    IN  [c \in Line |-> IF c \in dropped \cup orphans THEN None
                        ELSE IF c \in restored THEN snap[c]
                        ELSE IF c \in cleared THEN None ELSE staged[c]]

\* The lines that failing commands concern, and the options that a plan puts in a section
\* the snapshot has without them: rollback_to does not undo those.
Concerned(failing) == {c \in Line : failing \cap {c, SectionOf(c), ListOf(c)} # {}}
Additions(snap, p) ==
    {c \in Line : snap[SectionOf(c)] # None /\ ~Holds(snap, c) /\ Render(p)[c] # None}

\* Two configurations agree but for some lines.
Alike(x, y, but) == \A c \in Line \ but : x[c] = y[c]
-----------------------------------------------------------------------------
(* Records                                                                 *)

\* WirelessPending, WirelessMarker (whose plan is NoPlan) and the locals of a push.
Push == [version: 1..MaxPushes, plan: Plans \cup {NoPlan}, snap: Config,
         sections: SUBSET Line, gated: SUBSET Bridge, left: 0..Window]

\* The kinds of handler.
Kind == {"apply", "undo", "watchdog", "boot", "confirm"}

ASSUME NoneAssumption ==
    None \notin Bridge \cup {"set"} \cup Push \cup [kind: Kind, push: Push, ok: BOOLEAN]

Job(kind, push) == [kind |-> kind, push |-> push, ok |-> TRUE]

Outcome(j) ==
    CASE j.kind = "confirm"                     -> "committed"
      [] j.kind \in {"watchdog", "boot"} /\ j.ok -> "rolledback"
      [] OTHER                                  -> "failed"

Happens(kind) == kind \in Faults /\ faults < MaxFaults /\ faults' = faults + 1

At(label) == up /\ pc = label

Awaits(v) == pending # None /\ pending.version = v

Status(v, s) == [version |-> v, state |-> s]

\* emit_wireless: the actor waits while the channel is full.
Emit(s) ==
    /\ Len(status) < StatusBuffer
    /\ status' = Append(status, s)
    /\ told' = Append(told, s)
-----------------------------------------------------------------------------
(* The configuration starts empty and the daemon waits for commands.       *)
Init ==
    /\ flash = Empty /\ staged = Empty /\ air = Empty
    /\ marker = None /\ gatedFile = None
    /\ up = TRUE /\ pc = "idle" /\ job = None /\ file = 1
    /\ pending = None /\ last = NoPlan
    /\ status = <<>> /\ pushes = 0 /\ faults = 0
    /\ accepted = Empty /\ said = "none" /\ told = <<>> /\ asked = <<>>
    /\ stale = {} /\ loose = {}
-----------------------------------------------------------------------------
(* A push                                                                  *)

\* handle_set_wireless up to the first command: the snapshot is what `uci show`
\* says, staged deltas included.
SetBegin(p) ==
    /\ At("idle") /\ pending = None /\ pushes < MaxPushes
    /\ pushes' = pushes + 1
    /\ job' = Job("apply", [version |-> pushes + 1, plan |-> p, snap |-> staged,
                            sections |-> Sections(p), gated |-> GatedIfaces(p),
                            left |-> Window])
    /\ pc' = "delete"
    /\ said' = "none" /\ asked' = Append(asked, p) /\ stale' = {}
    /\ UNCHANGED <<machine, up, file, pending, last, status, faults, accepted, told, loose>>

\* Mutant: the pre-existing sections are not deleted first.
StageNothing ==
    /\ At("delete")
    /\ pc' = "set"
    /\ UNCHANGED <<machine, up, job, file, pending, last, status, pushes, faults, history>>

\* The reconcile deletes every owned section that exists.  A `uci delete` that fails is
\* taken for one of an absent section: the section stays.
StageDeletes ==
    /\ At("delete")
    /\ \E failing \in Failing \cup {{}} :
           /\ stale' = {c \in Line : SectionOf(c) \in failing /\ staged[SectionOf(c)] # None}
           /\ staged' = [c \in Line |-> IF c \in stale' THEN staged[c] ELSE None]
    /\ IF stale' = {} THEN UNCHANGED faults ELSE Happens("delete")
    /\ pc' = "set"
    /\ UNCHANGED <<flash, air, marker, gatedFile, up, job, file, pending, last, status,
                   pushes, accepted, said, told, asked, loose>>

\* The sections of the desired state are set, SSID by SSID, until a command fails.
StageSets ==
    /\ At("set")
    /\ \/ /\ staged' = Over(staged, job.push.plan, Slug)
          /\ pc' = "commit" /\ file' = 1
          /\ UNCHANGED faults
       \/ /\ Happens("set")
          /\ \E done \in SUBSET Slug : staged' = Over(staged, job.push.plan, done)
          /\ pc' = "revert"
          /\ UNCHANGED file
    /\ UNCHANGED <<flash, air, marker, gatedFile, up, job, pending, last, status, pushes, history>>

\* The apply failed: it is undone.  The rollback failed: that will be said.
Fail ==
    IF job.kind = "apply"
    THEN pc' = "undo"  /\ job' = [job EXCEPT !.kind = "undo"]
    ELSE pc' = "clear" /\ job' = [job EXCEPT !.ok = FALSE]

\* Mutant: the staged remainder is not dropped.
RevertNothing ==
    /\ At("revert") /\ Fail
    /\ UNCHANGED <<machine, up, file, pending, last, status, pushes, faults, history>>

\* revert_owned: the staged remainder is dropped, file by file, best effort.  What a rollback
\* cannot drop stays.
Revert ==
    /\ At("revert") /\ Fail
    /\ \E kept \in SUBSET {Files[n] : n \in 1..Len(Files)} :
           LET left == {c \in Line : c[1] \in kept /\ staged[c] # flash[c]}
           IN  /\ staged' = [c \in Line |-> IF c \in left THEN staged[c] ELSE flash[c]]
               /\ loose' = IF job.kind = "apply" THEN loose ELSE loose \cup left
               /\ IF left = {} THEN UNCHANGED faults ELSE Happens("revert")
    /\ UNCHANGED <<flash, air, marker, gatedFile, up, file, pending, last, status, pushes,
                   accepted, said, told, asked, stale>>
-----------------------------------------------------------------------------
(* commit_and_reload_multi, shared by a push and a rollback                *)

\* `uci commit <config>`.
CommitFile ==
    /\ At("commit")
    /\ \/ /\ flash' = [c \in Line |-> IF c[1] = Files[file] THEN staged[c] ELSE flash[c]]
          /\ IF file < Len(Files) THEN file' = file + 1 /\ UNCHANGED pc
                                  ELSE file' = 1 /\ pc' = "reload"
          /\ UNCHANGED faults
       \/ /\ Happens("commit")
          /\ pc' = "revert" /\ file' = 1
          /\ UNCHANGED flash
    /\ UNCHANGED <<staged, air, marker, gatedFile, up, job, pending, last, status, pushes, history>>

\* Network, firewall, radios: the whole sequence runs even if a step fails.
Reload ==
    /\ At("reload")
    /\ \/ /\ air' = flash
          /\ pc' = IF job.kind = "apply" THEN "mark" ELSE "clear"
          /\ UNCHANGED <<job, faults>>
       \/ /\ Happens("reload")
          /\ air' \in {air, flash}
          /\ Fail
    /\ UNCHANGED <<flash, staged, marker, gatedFile, up, file, pending, last, status,
                   pushes, history>>

\* rollback_to.  Its commands are best effort, and what it leaves astray is not told.
Undo ==
    /\ At("undo")
    /\ \E failing \in Failing \cup {{}} :
           LET snap   == job.push.snap
               Astray(lines) == {c \in lines : staged'[c] # snap[c]}
           IN  /\ staged' = Undone(snap, job.push.sections, failing)
               /\ loose' = loose \cup Astray(Concerned(failing))
                                \cup Astray(Additions(snap, asked[job.push.version]))
               /\ IF Astray(Concerned(failing)) = {} THEN UNCHANGED faults ELSE Happens("undo")
    /\ pc' = "commit"
    /\ UNCHANGED <<flash, air, marker, gatedFile, up, job, file, pending, last, status,
                   pushes, accepted, said, told, asked, stale>>
-----------------------------------------------------------------------------
(* Arming the watchdog                                                     *)

\* The marker holds everything but the plan.
Mark ==
    /\ At("mark")
    /\ \/ marker' = [job.push EXCEPT !.plan = NoPlan] /\ UNCHANGED faults
       \/ Happens("marker") /\ UNCHANGED marker
    /\ pc' = "announce"
    /\ UNCHANGED <<flash, staged, air, gatedFile, up, job, file, pending, last, status,
                   pushes, history>>

Announce ==
    /\ At("announce")
    /\ Emit(Status(job.push.version, "applied"))
    /\ pending' = job.push
    /\ pc' = "idle" /\ job' = None
    /\ UNCHANGED <<machine, up, file, last, pushes, faults, accepted, said, asked, stale, loose>>
-----------------------------------------------------------------------------
(* The end of a trial                                                      *)

\* Mutant: the confirm looks at the pending push without taking it.
ConfirmBeginPeek(v) ==
    /\ At("idle") /\ Awaits(v)
    /\ job' = Job("confirm", pending) /\ pc' = "clear"
    /\ UNCHANGED <<machine, up, file, pending, last, status, pushes, faults, history>>

\* handle_confirm_wireless; the version must be the pending one.  A confirm that
\* is already queued when the deadline passes may be taken first.
ConfirmBegin(v) ==
    /\ At("idle") /\ Awaits(v)
    /\ job' = Job("confirm", pending) /\ pc' = "clear"
    /\ pending' = None
    /\ UNCHANGED <<machine, up, file, last, status, pushes, faults, history>>

\* Mutant: a push resumed after a restart has no watchdog.
WatchdogUnlessResumed ==
    /\ At("idle") /\ pending # None /\ pending.left = 0 /\ pending.plan # NoPlan
    /\ job' = Job("watchdog", pending) /\ pc' = "undo"
    /\ pending' = None
    /\ UNCHANGED <<machine, up, file, last, status, pushes, faults, history>>

\* handle_wireless_watchdog_fire.
Watchdog ==
    /\ At("idle") /\ pending # None /\ pending.left = 0
    /\ job' = Job("watchdog", pending) /\ pc' = "undo"
    /\ pending' = None
    /\ UNCHANGED <<machine, up, file, last, status, pushes, faults, history>>

\* clear_wireless_marker, best effort; with it the trial is decided.  A confirmed
\* configuration is accepted, and so is what a rollback that failed has left, but for deltas
\* it could not drop.
Clear ==
    /\ At("clear")
    /\ \/ marker' = None /\ UNCHANGED faults
       \/ Happens("clear") /\ UNCHANGED marker
    /\ said' = Outcome(job)
    /\ IF job.kind = "confirm" \/ ~job.ok
       THEN accepted' = flash /\ loose' = {c \in loose : staged[c] # flash[c]}
       ELSE UNCHANGED <<accepted, loose>>
    /\ pc' = IF job.kind = "confirm" THEN "record" ELSE "tell"
    /\ UNCHANGED <<flash, staged, air, gatedFile, up, job, file, pending, last, status,
                   pushes, told, asked, stale>>

\* write_committed_gated, best effort, then last_committed.
Record ==
    /\ At("record")
    /\ \/ gatedFile' = job.push.gated /\ UNCHANGED faults
       \/ Happens("record") /\ UNCHANGED gatedFile
    /\ last' = job.push.plan
    /\ pc' = "tell"
    /\ UNCHANGED <<flash, staged, air, marker, up, job, file, pending, status, pushes, history>>

Tell ==
    /\ At("tell")
    /\ Emit(Status(job.push.version, Outcome(job)))
    /\ pc' = "idle" /\ job' = None
    /\ UNCHANGED <<machine, up, file, pending, last, pushes, faults, accepted, said, asked, stale,
                   loose>>
-----------------------------------------------------------------------------
(* Death, restart, and the others                                          *)

Die ==
    /\ up' = FALSE
    /\ pc' = "idle" /\ job' = None /\ file' = 1
    /\ pending' = None /\ last' = NoPlan /\ status' = <<>>

\* The process dies.  Staged deltas, marker and committed.gated are on tmpfs.
Crash ==
    /\ up /\ Happens("crash")
    /\ job # None => <<job.kind, pc>> \notin Blind
    /\ Die
    /\ UNCHANGED <<machine, pushes, history>>

\* A power cycle also wipes tmpfs; the router comes up with what is on flash.
Reboot ==
    /\ Happens("reboot")
    /\ Die
    /\ staged' = flash /\ air' = flash /\ marker' = None /\ gatedFile' = None
    /\ accepted' = flash /\ said' = "none" /\ loose' = {}
    /\ UNCHANGED <<flash, pushes, told, asked, stale>>

\* reconcile_wireless_on_start: roll back a push past its deadline, resume the
\* watchdog of the others (without the plan).
Restart ==
    /\ ~up /\ up' = TRUE
    /\ \/ marker = None /\ UNCHANGED <<pc, job, pending>>
       \/ /\ marker # None /\ marker.left = 0
          /\ pc' = "undo" /\ job' = Job("boot", marker)
          /\ UNCHANGED pending
       \/ /\ marker # None /\ marker.left > 0
          /\ pending' = marker
          /\ UNCHANGED <<pc, job>>
    /\ UNCHANGED <<machine, file, last, status, pushes, faults, history>>

\* Somebody else runs `uci commit`: an admin or the vendor's config manager.
AdminCommit ==
    /\ staged # flash /\ flash' = staged
    /\ UNCHANGED <<staged, air, marker, gatedFile, up, actor, status, pushes, faults, history>>

\* Mutant: the time left is not bounded by zero.
AgedPast(p) == IF p = None THEN None ELSE [p EXCEPT !.left = @ - 1]

Aged(p) == IF p = None THEN None ELSE [p EXCEPT !.left = IF @ = 0 THEN 0 ELSE @ - 1]

\* One tick.  The deadline runs from the moment the apply is done.
Tick ==
    /\ marker' = Aged(marker) /\ pending' = Aged(pending)
    /\ job' = IF pc = "announce" THEN [job EXCEPT !.push = Aged(@)] ELSE job
    /\ UNCHANGED <<flash, staged, air, gatedFile, up, pc, file, last, status, pushes,
                   faults, history>>

\* The control channel takes a status.
Drain ==
    /\ status # <<>> /\ status' = Tail(status)
    /\ UNCHANGED <<machine, up, actor, pushes, faults, history>>
-----------------------------------------------------------------------------
Handler == StageDeletes \/ StageSets \/ Revert \/ CommitFile \/ Reload \/ Undo \/ Mark \/ Announce
           \/ Clear \/ Record \/ Tell

Request == \/ \E p \in Plans : SetBegin(p)
           \/ \E v \in 1..MaxPushes : ConfirmBegin(v)

Next == Request \/ Handler \/ Watchdog \/ Crash \/ Reboot \/ Restart \/ AdminCommit
        \/ Tick \/ Drain

\* The runtime polls the actor, the clock runs, the service manager restarts
\* the daemon, and the channel drains its statuses.
Fairness == WF_vars(Handler) /\ WF_vars(Watchdog) /\ WF_vars(Restart) /\ WF_vars(Tick)
            /\ WF_vars(Drain)

Spec     == Init /\ [][Next]_vars
FairSpec == Spec /\ Fairness
-----------------------------------------------------------------------------
(* Properties                                                              *)

Label == {"idle", "delete", "set", "revert", "commit", "reload", "undo", "mark", "announce",
          "clear", "record", "tell"}

\* A trial is under way: its handler runs and has not decided, or it waits to be
\* confirmed, or the daemon is down and will find its marker.
Open == \/ pc \notin {"idle", "record", "tell"}
        \/ pending # None
        \/ ~up /\ marker # None

Confirm == INSTANCE CommitConfirm WITH live <- flash, base <- accepted, open <- Open

\* The actor implements commit-confirm: whatever commands fail, wherever the daemon
\* dies outside Blind, and whoever else commits staged deltas, nothing unconfirmed
\* stays on flash once its trial is closed, but for the loose lines: those a command of
\* the rollback failed to restore, options the push put in a section that was there
\* before, and deltas a failed rollback could not drop (handle.rs, sm.rs).
ConfirmSpec == Confirm!Spec

\* A push has one final status, and nothing follows it (emit_wireless at the
\* end of the four handlers that can end a push).
OneOutcome ==
    \A i, j \in 1..Len(told) :
        i < j /\ told[i].version = told[j].version => told[i].state = "applied"

\* What a plan asks for is set, and nothing else is: in a section that the push could not
\* delete old lines may stay, as may old stations of a list in it.
Fits(config, p) ==
    \A c \in Line : config[c] = Render(p)[c] \/ (c \in stale /\ Render(p)[c] = None)

\* COMMITTED says that what the control plane asked for in that push is what is on
\* flash and on the air, even if the push was resumed after a restart.
CommittedIsLive ==
    [][ \A v \in 1..MaxPushes :
            told' # told /\ told'[Len(told')] = Status(v, "committed")
                => Fits(flash, asked[v]) /\ air = flash ]_vars

\* The watchdog's promise: every trial ends, whatever the control plane does.
Resolved == Open ~> ~Open

State == {"applied", "committed", "rolledback", "failed"}

\* Every variable has its type, the handler's locals exist exactly while a handler
\* runs, and only one push is in the daemon's hands.
TypeOK ==
    /\ {flash, staged, air, accepted} \subseteq Config
    /\ {marker, pending} \subseteq Push \cup {None}
    /\ gatedFile \in (SUBSET Bridge) \cup {None}
    /\ up \in BOOLEAN /\ pc \in Label /\ file \in 1..Len(Files)
    /\ IF pc = "idle" THEN job = None
                      ELSE up /\ pending = None /\ job \in [kind: Kind, push: Push, ok: BOOLEAN]
    /\ last \in Plans \cup {NoPlan}
    /\ pushes \in 0..MaxPushes /\ faults \in 0..MaxFaults
    /\ Len(status) <= StatusBuffer
    /\ {status, told} \subseteq Seq([version: 1..MaxPushes, state: State])
    /\ said \in (State \ {"applied"}) \cup {"none"}
    /\ asked \in Seq(Plans) /\ Len(asked) = pushes
    /\ {stale, loose} \subseteq SUBSET Line
=============================================================================
