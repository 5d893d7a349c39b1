------------------------- MODULE WirelessConfirmProofs -------------------------
(***************************************************************************)
(* What holds of the provisioning actor for every set of plans, window,    *)
(* buffer and bound: its types, one final status for each push, and that   *)
(* it implements commit-confirm.                                           *)
(***************************************************************************)
EXTENDS WirelessConfirm, SequenceTheorems, TLAPS

\* The daemon that is down has nothing pending.
Typed == ~up => pending = None

TypeInv == TypeOK /\ Typed

-----------------------------------------------------------------------------
(* The configuration                                                       *)

LEMMA EmptyType == Empty \in Config
  BY DEF Empty, Config, Value

LEMMA SectionOfType == ASSUME NEW c \in Line PROVE SectionOf(c) \in Line
  BY DEF SectionOf, Line

LEMMA FilesCover == /\ Len(Files) = 3
                    /\ \A c \in Line : \E n \in 1..3 : c[1] = Files[n]
                    /\ \A m, n \in 1..3 : Files[m] = Files[n] => m = n
  BY DEF Files, Line

LEMMA RenderType ==
    ASSUME NEW p \in Plans \cup {NoPlan}
    PROVE  /\ Render(p) \in Config
           /\ Sections(p) \subseteq Line
           /\ \A c \in Line : Render(p)[c] # None => SectionOf(c) \in Sections(p)
<1>1. ASSUME NEW s \in DOMAIN p PROVE p[s] \in SsidSpec
  BY <1>1, ConfirmAssumption DEF ConfirmAssumption, NoPlan
<1>2. ASSUME NEW ssid \in SsidSpec, NEW c \in Line
      PROVE  /\ Setting(ssid, c) \in Value
             /\ Setting(ssid, c) # None => Setting(ssid, SectionOf(c)) # None
  <2>1. ssid.bridge \in Bridge
    BY DEF SsidSpec
  <2>2. Setting(ssid, c) \in Value
    BY <2>1 DEF Setting, Value
  <2>3. /\ SectionOf(c)[1] = c[1] /\ SectionOf(c)[3] = "section"
        /\ "section" \notin Mac /\ "set" # None
    BY ConfirmAssumption, NoneAssumption DEF SectionOf, ConfirmAssumption, NoneAssumption
  <2>4. PICK h : h = SectionOf(c)
    OBVIOUS
  <2>5. CASE c[1] = "firewall"
    <3>1. /\ h[1] = "firewall" /\ h[3] = "section" /\ h[3] \notin Mac
          /\ c[3] = "section" /\ c[3] \notin Mac
      BY <2>3, <2>4, <2>5 DEF Line
    <3>2. CASE ssid.gated
      <4>1. Setting(ssid, h) = "set"
        BY <3>1, <3>2 DEF Setting
      <4> QED BY <2>2, <2>3, <2>4, <4>1
    <3>3. CASE ~ssid.gated
      <4>1. Setting(ssid, c) = None
        BY <2>5, <3>1, <3>3 DEF Setting
      <4> QED BY <2>2, <4>1
    <3> QED BY <3>2, <3>3
  <2>6. CASE c[1] # "firewall"
    <3>1. h[1] # "firewall" /\ h[3] = "section" /\ h[3] \notin Mac
      BY <2>3, <2>4, <2>6
    <3>2. Setting(ssid, h) = "set"
      BY <3>1 DEF Setting
    <3> QED BY <2>2, <2>3, <2>4, <3>2
  <2> QED BY <2>5, <2>6
<1>3. Render(p) \in Config
  BY <1>1, <1>2 DEF Render, Config, Value
<1>4. ASSUME NEW c \in Line, Render(p)[c] # None PROVE SectionOf(c) \in Sections(p)
  <2>1. c[2] \in DOMAIN p /\ Setting(p[c[2]], c) # None
    BY <1>4 DEF Render
  <2>2. SectionOf(c) \in Line /\ SectionOf(c)[2] = c[2] /\ SectionOf(c)[3] = "section"
    BY SectionOfType DEF SectionOf
  <2>3. Render(p)[SectionOf(c)] # None
    BY <1>1, <1>2, <2>1, <2>2 DEF Render
  <2> QED BY <2>2, <2>3 DEF Sections
<1> QED BY <1>3, <1>4 DEF Sections

LEMMA OverType ==
    ASSUME NEW p \in Plans \cup {NoPlan}, NEW config \in Config, NEW ssids
    PROVE  Over(config, p, ssids) \in Config
  BY RenderType DEF Over, Config

LEMMA UndoneType ==
    ASSUME NEW snap \in Config, NEW sections, NEW failing, staged \in Config
    PROVE  Undone(snap, sections, failing) \in Config
  BY DEF Undone, Config, Value

-----------------------------------------------------------------------------
(* Types                                                                   *)

LEMMA HappensType ==
    ASSUME faults \in 0..MaxFaults, NEW kind, Happens(kind) \/ UNCHANGED faults
    PROVE  faults' \in 0..MaxFaults
  BY ConfirmAssumption DEF ConfirmAssumption, Happens

LEMMA InitTyped == Init => TypeInv
<1> SUFFICES ASSUME Init PROVE TypeInv OBVIOUS
<1>1. {flash, staged, air, accepted} \subseteq Config
  BY EmptyType DEF Init
<1>2. <<>> \in Seq([version: 1..MaxPushes, state: State]) /\ <<>> \in Seq(Plans)
  OBVIOUS
<1> QED BY <1>1, <1>2, ConfirmAssumption
        DEF Init, TypeInv, TypeOK, Typed, Label, Files, State, ConfirmAssumption

LEMMA EmitType ==
    ASSUME TypeInv, NEW s \in [version: 1..MaxPushes, state: State], Emit(s)
    PROVE  /\ {status', told'} \subseteq Seq([version: 1..MaxPushes, state: State])
           /\ Len(status') <= StatusBuffer
<1>1. status \in Seq([version: 1..MaxPushes, state: State])
      /\ told \in Seq([version: 1..MaxPushes, state: State])
  BY DEF TypeInv, TypeOK
<1>2. Len(status') = Len(status) + 1
  BY <1>1 DEF Emit
<1> QED BY <1>1, <1>2, ConfirmAssumption DEF Emit, ConfirmAssumption

LEMMA SetBeginType == ASSUME TypeInv, NEW p \in Plans, SetBegin(p) PROVE TypeInv'
<1> USE ConfirmAssumption DEF ConfirmAssumption, TypeInv, TypeOK, Typed, machine, At
<1> DEFINE push == [version |-> pushes + 1, plan |-> p, snap |-> staged,
                    sections |-> Sections(p), gated |-> GatedIfaces(p), left |-> Window]
<1>1. GatedIfaces(p) \subseteq Bridge
  BY DEF GatedIfaces, SsidSpec
<1>2. push \in Push
  BY <1>1 DEF SetBegin, Push, Sections
<1>3. job' \in [kind: Kind, push: Push, ok: BOOLEAN] /\ job'.push.snap = staged
  BY <1>2 DEF SetBegin, Job, Kind
<1>4. asked' \in Seq(Plans) /\ Len(asked') = pushes'
  <2>1. asked \in Seq(Plans) /\ Len(asked) = pushes
    OBVIOUS
  <2>2. asked' = Append(asked, p) /\ pushes' = pushes + 1
    BY DEF SetBegin
  <2> HIDE DEF ConfirmAssumption, TypeInv, TypeOK, Typed, machine, At
  <2>3. asked' \in Seq(Plans) /\ Len(asked') = Len(asked) + 1
    BY <2>1, <2>2, AppendProperties
  <2> QED BY <2>1, <2>2, <2>3
<1>5. pushes' \in 0..MaxPushes
  BY DEF SetBegin
<1> HIDE DEF push
<1> QED BY <1>3, <1>4, <1>5 DEF SetBegin, Label, State

LEMMA StageType == ASSUME TypeInv, StageDeletes \/ StageSets PROVE TypeInv'
<1> USE ConfirmAssumption DEF ConfirmAssumption, TypeInv, TypeOK, Typed, machine, At,
        history, Label
<1>1. CASE StageDeletes
  <2>1. PICK failing \in Failing \cup {{}} :
            /\ stale' = {c \in Line : SectionOf(c) \in failing /\ staged[SectionOf(c)] # None}
            /\ staged' = [c \in Line |-> IF c \in stale' THEN staged[c] ELSE None]
    BY <1>1 DEF StageDeletes
  <2>2. staged' \in Config /\ stale' \subseteq Line
    BY <2>1 DEF Config, Value
  <2>3. faults' \in 0..MaxFaults
    BY <1>1, HappensType DEF StageDeletes
  <2> QED BY <1>1, <2>2, <2>3 DEF StageDeletes
<1>2. CASE StageSets
  <2>1. job \in [kind: Kind, push: Push, ok: BOOLEAN] /\ job.push.plan \in Plans \cup {NoPlan}
    BY <1>2 DEF StageSets, Push
  <2>2. staged' \in Config
    <3>1. PICK ssids \in SUBSET Slug : staged' = Over(staged, job.push.plan, ssids)
      BY <1>2 DEF StageSets
    <3>2. staged \in Config
      OBVIOUS
    <3> QED BY <2>1, <3>1, <3>2, OverType
  <2>3. faults' \in 0..MaxFaults
    BY <1>2, HappensType DEF StageSets
  <2> QED BY <1>2, <2>1, <2>2, <2>3 DEF StageSets, Files
<1> QED BY <1>1, <1>2

LEMMA FailType ==
    ASSUME TypeInv, pc # "idle", Fail
    PROVE  /\ pc' \in {"undo", "clear"} /\ job'.push = job.push
           /\ job' \in [kind: Kind, push: Push, ok: BOOLEAN]
  BY DEF TypeInv, TypeOK, Fail, Kind

LEMMA CommitsType == ASSUME TypeInv, CommitFile \/ Revert \/ Reload \/ Undo PROVE TypeInv'
<1> USE ConfirmAssumption DEF ConfirmAssumption, TypeInv, TypeOK, Typed, machine, At,
        history
<1>1. job \in [kind: Kind, push: Push, ok: BOOLEAN] /\ pc # "idle"
  BY DEF CommitFile, Revert, Reload, Undo
<1>2. CASE CommitFile
  <2>1. flash' \in Config
    BY <1>2 DEF CommitFile, Config
  <2>2. faults' \in 0..MaxFaults
    BY <1>2, HappensType DEF CommitFile
  <2>3. pc' \in {"commit", "reload", "revert"} /\ job' = job
    BY <1>1, <1>2 DEF CommitFile
  <2>4. file' \in 1..Len(Files)
    BY <1>2 DEF CommitFile, Files
  <2> QED BY <1>1, <1>2, <2>1, <2>2, <2>3, <2>4 DEF CommitFile, Label
<1>3. CASE Revert
  <2>1. PICK kept \in SUBSET {Files[n] : n \in 1..Len(Files)} :
          LET left == {c \in Line : c[1] \in kept /\ staged[c] # flash[c]}
          IN  /\ staged' = [c \in Line |-> IF c \in left THEN staged[c] ELSE flash[c]]
              /\ loose' = IF job.kind = "apply" THEN loose ELSE loose \cup left
              /\ IF left = {} THEN UNCHANGED faults ELSE Happens("revert")
    BY <1>3 DEF Revert
  <2>2. staged' \in Config /\ loose' \subseteq Line
    BY <2>1 DEF Config
  <2>3. faults' \in 0..MaxFaults
    BY <2>1, HappensType
  <2>4. /\ pc' \in {"undo", "clear"} /\ job' \in [kind: Kind, push: Push, ok: BOOLEAN]
    BY <1>1, <1>3, FailType DEF Revert
  <2> QED BY <1>3, <2>2, <2>3, <2>4 DEF Revert, Label
<1>4. CASE Reload
  <2>1. air' \in Config
    BY <1>4 DEF Reload
  <2>2. faults' \in 0..MaxFaults
    BY <1>4, HappensType DEF Reload
  <2>3. /\ pc' \in {"mark", "undo", "clear"} /\ job'.push = job.push
        /\ job' \in [kind: Kind, push: Push, ok: BOOLEAN]
    BY <1>1, <1>4, FailType DEF Reload
  <2> QED BY <1>4, <2>1, <2>2, <2>3 DEF Reload, Label
<1>5. CASE Undo
  <2> DEFINE snap == job.push.snap
             Astray(lines) == {c \in lines : staged'[c] # snap[c]}
  <2>1. PICK failing \in Failing \cup {{}} :
            /\ staged' = Undone(snap, job.push.sections, failing)
            /\ loose' = loose \cup Astray(Concerned(failing))
                             \cup Astray(Additions(snap, asked[job.push.version]))
            /\ IF Astray(Concerned(failing)) = {} THEN UNCHANGED faults ELSE Happens("undo")
    BY <1>5 DEF Undo
  <2>2. snap \in Config
    BY <1>1 DEF Push
  <2>3. staged' \in Config
    BY <2>1, <2>2, UndoneType
  <2>4. loose' \subseteq Line
    BY <2>1 DEF Concerned, Additions
  <2>5. faults' \in 0..MaxFaults
    BY <2>1, HappensType
  <2> QED BY <1>1, <1>5, <2>3, <2>4, <2>5 DEF Undo, Label
<1> QED BY <1>2, <1>3, <1>4, <1>5

LEMMA ArmType == ASSUME TypeInv, Mark \/ Announce PROVE TypeInv'
<1> USE ConfirmAssumption DEF ConfirmAssumption, TypeInv, TypeOK, Typed, machine, At,
        history
<1>1. /\ job \in [kind: Kind, push: Push, ok: BOOLEAN] /\ job.push \in Push /\ job # None
      /\ job.push.version \in 1..MaxPushes
  BY NoneAssumption DEF NoneAssumption, Mark, Announce, Push
<1>2. CASE Mark
  <2>1. marker' \in Push \cup {None}
    BY <1>1, <1>2 DEF Mark, Push
  <2>2. faults' \in 0..MaxFaults
    BY <1>2, HappensType DEF Mark
  <2> QED BY <1>2, <2>1, <2>2 DEF Mark, Label
<1>3. CASE Announce
  <2>1. Status(job.push.version, "applied") \in [version: 1..MaxPushes, state: State]
    BY <1>1 DEF Status, State
  <2>2. /\ {status', told'} \subseteq Seq([version: 1..MaxPushes, state: State])
        /\ Len(status') <= StatusBuffer
    BY <1>3, <2>1, EmitType DEF Announce
  <2> QED BY <1>1, <1>3, <2>2 DEF Announce, Label
<1> QED BY <1>2, <1>3

LEMMA JobType ==
    ASSUME NEW kind \in Kind, NEW p \in Push
    PROVE  Job(kind, p) \in [kind: Kind, push: Push, ok: BOOLEAN] /\ Job(kind, p).push = p
  BY DEF Job

LEMMA EndType ==
    ASSUME TypeInv, (\E v \in 1..MaxPushes : ConfirmBegin(v)) \/ Watchdog PROVE TypeInv'
<1> USE ConfirmAssumption DEF ConfirmAssumption, TypeInv, TypeOK, Typed, machine, At,
        history
<1>1. pending \in Push
  BY DEF ConfirmBegin, Watchdog, Awaits
<1>2. /\ job' \in [kind: Kind, push: Push, ok: BOOLEAN] /\ job'.push = pending
      /\ pc' \in {"clear", "undo"}
  BY <1>1, JobType DEF ConfirmBegin, Watchdog, Kind
<1> QED BY <1>1, <1>2 DEF ConfirmBegin, Watchdog, Label

LEMMA CloseType == ASSUME TypeInv, Clear \/ Record \/ Tell PROVE TypeInv'
<1> USE ConfirmAssumption DEF ConfirmAssumption, TypeInv, TypeOK, Typed, machine, At,
        history
<1>1. job \in [kind: Kind, push: Push, ok: BOOLEAN] /\ job.push \in Push
  BY DEF Clear, Record, Tell
<1>2. Outcome(job) \in State \ {"applied"}
  BY DEF Outcome, State
<1>3. CASE Clear
  <2>1. faults' \in 0..MaxFaults
    BY <1>3, HappensType DEF Clear
  <2> QED BY <1>1, <1>2, <1>3, <2>1 DEF Clear, Label
<1>4. CASE Record
  <2>1. faults' \in 0..MaxFaults
    BY <1>4, HappensType DEF Record
  <2> QED BY <1>1, <1>4, <2>1 DEF Record, Label, Push
<1>5. CASE Tell
  <2>1. Status(job.push.version, Outcome(job)) \in [version: 1..MaxPushes, state: State]
    BY <1>1, <1>2 DEF Status, State, Push
  <2>2. /\ {status', told'} \subseteq Seq([version: 1..MaxPushes, state: State])
        /\ Len(status') <= StatusBuffer
    BY <1>5, <2>1, EmitType DEF Tell
  <2> QED BY <1>5, <2>2 DEF Tell, Label
<1> QED BY <1>3, <1>4, <1>5

LEMMA AgedType ==
    ASSUME NEW p \in Push \cup {None}
    PROVE  /\ Aged(p) \in Push \cup {None} /\ (Aged(p) = None <=> p = None)
           /\ p # None => /\ Aged(p).snap = p.snap /\ Aged(p).sections = p.sections
                          /\ Aged(p).version = p.version /\ Aged(p).plan = p.plan
                          /\ Aged(p).left = IF p.left = 0 THEN 0 ELSE p.left - 1
<1>1. CASE p = None
  BY <1>1 DEF Aged
<1>2. CASE p \in Push
  <2>1. p # None /\ p.left \in 0..Window
    BY <1>2, NoneAssumption DEF NoneAssumption, Push
  <2>2. (IF p.left = 0 THEN 0 ELSE p.left - 1) \in 0..Window
    BY <2>1, ConfirmAssumption DEF ConfirmAssumption
  <2>3. Aged(p) = [p EXCEPT !.left = IF p.left = 0 THEN 0 ELSE p.left - 1]
    BY <2>1 DEF Aged
  <2>4. Aged(p) \in Push
    BY <1>2, <2>2, <2>3 DEF Push
  <2>5. Aged(p) # None
    BY <2>4, NoneAssumption DEF NoneAssumption
  <2> QED BY <1>2, <2>1, <2>3, <2>4, <2>5 DEF Push
<1> QED BY <1>1, <1>2

LEMMA OthersType ==
    ASSUME TypeInv, Crash \/ Reboot \/ Restart \/ AdminCommit \/ Tick \/ Drain
    PROVE  TypeInv'
<1> USE ConfirmAssumption DEF ConfirmAssumption, TypeInv, TypeOK, Typed, machine, actor,
        history, Label
<1>1. CASE Crash \/ Reboot
  <2>1. faults' \in 0..MaxFaults
    BY <1>1, HappensType DEF Crash, Reboot
  <2>2. up' = FALSE /\ pc' = "idle" /\ job' = None /\ file' = 1 /\ pending' = None
    BY <1>1 DEF Crash, Reboot, Die
  <2>3. last' = NoPlan /\ status' = <<>> /\ UNCHANGED <<pushes, told, asked>>
    BY <1>1 DEF Crash, Reboot, Die
  <2>4. /\ {flash', staged', air', accepted'} \subseteq Config
        /\ marker' \in {marker, None} /\ gatedFile' \in {gatedFile, None}
        /\ said' \in {said, "none"} /\ stale' = stale /\ loose' \in {loose, {}}
    BY <1>1 DEF Crash, Reboot
  <2>5. 1 \in 1..Len(Files)
    BY DEF Files
  <2>6. <<>> \in Seq([version: 1..MaxPushes, state: State]) /\ Len(<<>>) = 0
    OBVIOUS
  <2>7. TypeOK'
    <3>1. /\ {flash', staged', air', accepted'} \subseteq Config
          /\ {marker', pending'} \subseteq Push \cup {None}
          /\ gatedFile' \in (SUBSET Bridge) \cup {None}
      BY <2>2, <2>4
    <3>2. up' \in BOOLEAN /\ pc' \in Label /\ file' \in 1..Len(Files) /\ last' \in Plans \cup {NoPlan}
      BY <2>2, <2>3, <2>5
    <3>3. pushes' \in 0..MaxPushes /\ asked' \in Seq(Plans) /\ Len(asked') = pushes'
      BY <2>3
    <3>4. /\ {status', told'} \subseteq Seq([version: 1..MaxPushes, state: State])
          /\ Len(status') <= StatusBuffer
      BY <2>3, <2>6
    <3>5. said' \in (State \ {"applied"}) \cup {"none"} /\ {stale', loose'} \subseteq SUBSET Line
      BY <2>4
    <3> QED BY <2>1, <2>2, <3>1, <3>2, <3>3, <3>4, <3>5
  <2> QED BY <2>1, <2>2, <2>3, <2>4, <2>7
<1>2. CASE Restart
  <2>1. CASE marker = None
    BY <1>2, <2>1 DEF Restart
  <2>2. CASE marker # None /\ marker.left = 0
    <3>1. job' \in [kind: Kind, push: Push, ok: BOOLEAN] /\ job'.push = marker /\ pc' = "undo"
      BY <1>2, <2>2, JobType DEF Restart, Kind
    <3> QED BY <1>2, <2>2, <3>1 DEF Restart
  <2>3. CASE marker # None /\ marker.left > 0
    BY <1>2, <2>3 DEF Restart
  <2> QED BY <1>2, <2>1, <2>2, <2>3 DEF Restart
<1>3. CASE AdminCommit
  BY <1>3 DEF AdminCommit
<1>4. CASE Tick
  <2>1. /\ {marker', pending'} \subseteq Push \cup {None}
        /\ pending = None => pending' = None
    BY <1>4, AgedType DEF Tick
  <2>2. CASE pc = "announce"
    <3>1. job \in [kind: Kind, push: Push, ok: BOOLEAN] /\ job.push \in Push /\ job # None
      BY <2>2, NoneAssumption DEF NoneAssumption
    <3>2. Aged(job.push) \in Push
      BY <3>1, AgedType, NoneAssumption DEF NoneAssumption
    <3>3. job' \in [kind: Kind, push: Push, ok: BOOLEAN] /\ job'.push = Aged(job.push)
      BY <1>4, <2>2, <3>1, <3>2 DEF Tick
    <3> QED BY <1>4, <2>1, <2>2, <3>1, <3>2, <3>3, NoneAssumption DEF Tick, NoneAssumption
  <2>3. CASE pc # "announce"
    BY <1>4, <2>1, <2>3 DEF Tick
  <2> QED BY <2>2, <2>3
<1>5. CASE Drain
  <2>1. status' \in Seq([version: 1..MaxPushes, state: State]) /\ Len(status') <= StatusBuffer
    BY <1>5 DEF Drain
  <2> QED BY <1>5, <2>1 DEF Drain
<1> QED BY <1>1, <1>2, <1>3, <1>4, <1>5

LEMMA NextTyped == TypeInv /\ [Next]_vars => TypeInv'
<1> SUFFICES ASSUME TypeInv, [Next]_vars PROVE TypeInv' OBVIOUS
<1>1. CASE UNCHANGED vars
  BY <1>1 DEF vars, machine, actor, history, TypeInv, TypeOK, Typed
<1>2. CASE Request
  BY <1>2, SetBeginType, EndType DEF Request
<1>3. CASE Handler
  BY <1>3, StageType, CommitsType, ArmType, CloseType DEF Handler
<1> QED BY <1>1, <1>2, <1>3, EndType, OthersType DEF Next

\* Every reachable state of the actor is well typed, the locals of a handler exist exactly
\* while it runs, and one push at most is in the daemon's hands.
THEOREM TypeCorrect == Spec => []TypeOK
<1>1. TypeInv => TypeOK
  BY DEF TypeInv
<1> QED BY <1>1, InitTyped, NextTyped, PTL DEF Spec

-----------------------------------------------------------------------------
(* The invariant of a trial                                                *)

\* Where the daemon may die there is a rollback that survives it, and the marker is as
\* the handlers leave it.
Sheltered ==
    "crash" \in Faults => Unarmed \subseteq Blind /\ Faults \cap {"marker", "clear"} = {}

\* No option is without its section.
Whole(config) == \A c \in Line : config[c] # None => config[SectionOf(c)] # None

Mortal   == "crash" \in Faults
Deciding == pc \notin {"idle", "record", "tell"}
Undoing  == {"undo", "watchdog", "boot"}

\* A handler is at a step of its own, fails only when it undoes, and an apply sets what was
\* asked for.
Roles ==
    pc # "idle" =>
      /\ job.kind = "apply" => pc \in {"delete", "set", "revert", "commit", "reload", "mark",
                                       "announce"}
                               /\ job.push.plan = asked[job.push.version]
      /\ job.kind \in Undoing => pc \in {"undo", "commit", "revert", "reload", "clear", "tell"}
      /\ job.kind = "confirm" => pc \in {"clear", "record", "tell"}
      /\ ~job.ok => job.kind \in Undoing /\ pc \in {"clear", "tell"}

\* The marker is there exactly while a trial would outlive the daemon, with its deadline.
Armed ==
    /\ ~Mortal /\ ~up => marker = None
    /\ Mortal =>
         /\ pending # None => marker # None /\ marker.left = pending.left
         /\ pc = "announce" => marker # None /\ marker.left = job.push.left
         /\ Deciding /\ job.kind \in {"watchdog", "boot"} => marker # None /\ marker.left = 0
         /\ Deciding /\ job.kind = "confirm" => marker # None
         /\ up /\ pending = None /\ marker # None =>
                pc = "announce" \/ (Deciding /\ job.kind \in {"watchdog", "boot", "confirm"})

\* Two configurations agree but for the loose lines.
Same(x, y) == Alike(x, y, loose)

\* A push can be undone: its snapshot is what was accepted, and a line that is there now and
\* was not then is one it asked for.
Undoable(p) ==
    /\ Same(p.snap, accepted) /\ Whole(p.snap)
    /\ asked[p.version] \in Plans /\ p.sections = Sections(asked[p.version])
    /\ \A c \in Line \ loose : p.snap[c] = None /\ Render(asked[p.version])[c] = None
                                   => staged[c] = None /\ flash[c] = None
Kept ==
    /\ pending # None => Undoable(pending)
    /\ Mortal /\ marker # None => Undoable(marker)
    /\ Deciding => Undoable(job.push)

\* How far a handler has come with the configuration.
Progress ==
    /\ pc = "delete" => Same(staged, accepted) /\ Same(flash, accepted)
    /\ pc = "set" => \A c \in Line : staged[c] # None => c \in stale
    /\ pc # "commit" => file = 1
    /\ pc = "commit" => \A n \in 1..Len(Files), c \in Line :
                            n < file /\ c[1] = Files[n] => flash[c] = staged[c]
    /\ pc \in {"commit", "reload"} /\ job.kind \in Undoing => Same(staged, accepted)
    /\ pc \in {"reload", "mark", "announce"} => staged = flash
    /\ pc \in {"clear", "record", "tell"} /\ job.kind = "confirm" => staged = flash
    /\ pc = "clear" /\ job.kind \in Undoing =>
           Same(staged, flash) /\ (job.ok => Same(flash, accepted))
    /\ pending # None => staged = flash
    /\ ~up /\ marker # None /\ marker.left > 0 => staged = flash

\* Without a trial what is staged and what is on flash was accepted, but for loose lines.
Settled == ~Open => Same(staged, accepted) /\ Same(flash, accepted)

Entire == Whole(staged) /\ Whole(flash)

Tried ==
    Roles /\ Armed /\ Kept /\ Progress /\ Settled /\ Entire /\ (Open => said = "none")

TrialInv == TypeInv /\ Tried

-----------------------------------------------------------------------------
(* Lemmas                                                                  *)

LEMMA InitTried == Init => Tried
<1> SUFFICES ASSUME Init PROVE Tried OBVIOUS
<1>1. ~Open /\ pc = "idle" /\ pending = None /\ marker = None /\ up
  BY DEF Init, Open
<1>2. Entire
  BY DEF Init, Entire, Whole, Empty
<1>3. Roles /\ Armed /\ Kept /\ Progress /\ Settled
  BY <1>1 DEF Init, Roles, Armed, Kept, Progress, Settled, Deciding, Same, Alike
<1> QED BY <1>1, <1>2, <1>3 DEF Tried

LEMMA SectionOfSection ==
    ASSUME NEW c \in Line
    PROVE  /\ SectionOf(c) \in Line /\ SectionOf(SectionOf(c)) = SectionOf(c)
           /\ SectionOf(c)[1] = c[1] /\ SectionOf(c)[2] = c[2] /\ SectionOf(c)[3] = "section"
           /\ SectionOf(c)[3] \notin Mac
  BY SectionOfType, ConfirmAssumption DEF SectionOf, ConfirmAssumption

\* Taking a configuration from two others, section by section, breaks no section up.
LEMMA WholeMix ==
    ASSUME NEW x, NEW y, Whole(x), Whole(y), NEW z,
           \A c \in Line : \/ z[c] = x[c] /\ z[SectionOf(c)] = x[SectionOf(c)]
                           \/ z[c] = y[c] /\ z[SectionOf(c)] = y[SectionOf(c)]
                           \/ z[c] = None
    PROVE  Whole(z)
  BY DEF Whole

LEMMA WholeOver ==
    ASSUME NEW x, Whole(x), NEW p \in Plans, NEW ssids PROVE Whole(Over(x, p, ssids))
<1> DEFINE z == Over(x, p, ssids)
<1>1. \A c \in Line : Render(p)[c] # None => Render(p)[SectionOf(c)] # None
  BY RenderType DEF Sections
<1>2. ASSUME NEW c \in Line, z[c] # None PROVE z[SectionOf(c)] # None
  BY <1>1, <1>2, SectionOfSection DEF Over, Whole
<1> QED BY <1>2 DEF Whole

LEMMA WholeUndone ==
    ASSUME NEW snap, Whole(snap), Whole(staged), NEW sections, NEW failing
    PROVE  Whole(Undone(snap, sections, failing))
<1> DEFINE z == Undone(snap, sections, failing)
<1>1. ASSUME NEW c \in Line, z[c] # None PROVE z[SectionOf(c)] # None
  <2> DEFINE h == SectionOf(c)
  <2>1. h \in Line /\ SectionOf(h) = h /\ h[3] \notin Mac
    BY SectionOfSection
  <2>2. snap[c] # None => snap[h] # None
    BY DEF Whole
  <2>3. staged[c] # None => staged[h] # None
    BY DEF Whole
  <2>4. /\ ~(snap[h] = None /\ h \in sections /\ h \notin failing)
        /\ ~(snap[h] # None /\ staged[h] = None /\ h \in failing)
        /\ snap[c] # None \/ staged[c] # None
    BY <1>1 DEF Undone
  <2>5. z[h] = IF snap[h] # None /\ h \notin failing THEN snap[h] ELSE staged[h]
    <3> HIDE DEF h
    <3> QED BY <2>1, <2>4 DEF Undone
  <2> QED BY <2>2, <2>3, <2>4, <2>5
<1> QED BY <1>1 DEF Whole

\* An undo stages what was accepted, however far the push had got, but for lines that a
\* failing command concerns and options the push added.
LEMMA UndoneIs ==
    ASSUME TypeInv, NEW p \in Push, Undoable(p), NEW failing, NEW c \in Line \ loose,
           c \notin Concerned(failing), c \notin Additions(p.snap, asked[p.version])
    PROVE  Undone(p.snap, p.sections, failing)[c] = accepted[c]
<1> DEFINE snap == p.snap
           h == SectionOf(c)
           z == Undone(p.snap, p.sections, failing)
           want == Render(asked[p.version])
<1>1. c \notin failing /\ h \notin failing /\ ListOf(c) \notin failing
  BY DEF Concerned
<1>2. snap[c] = accepted[c] /\ (snap[h] = None => snap[c] = None)
  BY DEF Undoable, Same, Alike, Whole
<1>3. want[c] # None => h \in p.sections
  BY RenderType DEF Undoable
<1>4. snap[c] = None /\ want[c] = None => staged[c] = None
  BY DEF Undoable
<1>5. snap[h] # None => Holds(snap, c) \/ want[c] = None
  BY DEF Additions
<1>6. c[3] \notin Mac => (Holds(snap, c) <=> snap[c] # None)
  BY DEF Holds
<1>7. z[c] = IF snap[h] = None /\ h \in p.sections THEN None
             ELSE IF snap[c] # None THEN snap[c]
             ELSE IF c[3] \in Mac /\ Holds(snap, c) THEN None ELSE staged[c]
  BY <1>1 DEF Undone
<1> HIDE DEF snap, h, z, want
<1>8. z[c] = snap[c]
  BY <1>2, <1>3, <1>4, <1>5, <1>6, <1>7
<1> QED BY <1>2, <1>8 DEF z

\* A step as the abstract specification sees it.
AbstractStep == [Confirm!Next]_<<flash, accepted, Open, said, loose>>

LEMMA Opens ==
    ASSUME ~Open, Open', said' = "none", UNCHANGED <<flash, accepted, loose>> PROVE AbstractStep
  BY DEF AbstractStep, Confirm!Next, Confirm!Try

LEMMA Stays ==
    ASSUME Open, Open', UNCHANGED <<accepted, said>>, loose \subseteq loose' PROVE AbstractStep
  BY DEF AbstractStep, Confirm!Next, Confirm!Change

LEMMA Nothing ==
    ASSUME Open' = Open, UNCHANGED <<flash, accepted, said, loose>> PROVE AbstractStep
  BY DEF AbstractStep

LEMMA Slips ==
    ASSUME TypeInv, ~Open, ~Open', UNCHANGED <<accepted, said, loose>>, Alike(flash', accepted, loose)
    PROVE  AbstractStep
<1>1. DOMAIN accepted = Line
  BY DEF TypeInv, TypeOK, Config
<1> QED BY <1>1 DEF AbstractStep, Confirm!Next, Confirm!Slip, Confirm!Agrees, Alike, Open

LEMMA Closes ==
    ASSUME TypeInv, Open, ~Open', UNCHANGED flash,
           \/ said' = "committed" /\ accepted' = flash /\ loose' = {}
           \/ said' = "failed" /\ accepted' = flash /\ loose' \subseteq loose
           \/ /\ Same(flash, accepted) /\ said' \in {"rolledback", "failed", "none"}
              /\ UNCHANGED <<accepted, loose>>
    PROVE  AbstractStep
<1>1. DOMAIN accepted = Line
  BY DEF TypeInv, TypeOK, Config
<1> QED BY <1>1 DEF AbstractStep, Confirm!Next, Confirm!Close, Confirm!Commit, Confirm!Restore,
        Confirm!GiveUp, Confirm!Agrees, Same, Alike, Open

LEMMA PowerCycles ==
    ASSUME ~Open', said' = "none", accepted' = flash, loose' = {}, UNCHANGED flash
    PROVE  AbstractStep
  BY DEF AbstractStep, Confirm!Next, Confirm!PowerCycle, Open

-----------------------------------------------------------------------------
(* The steps of a trial                                                    *)

LEMMA InHandler ==
    ASSUME TypeInv, pc # "idle"
    PROVE  /\ up /\ pending = None /\ job # None /\ job.push \in Push
           /\ job.kind \in Kind /\ job.ok \in BOOLEAN
           /\ job = [kind |-> job.kind, push |-> job.push, ok |-> job.ok]
           /\ marker \in Push \cup {None}
  BY NoneAssumption DEF NoneAssumption, TypeInv, TypeOK

LEMMA SetBeginStep ==
    ASSUME TrialInv, NEW p \in Plans, SetBegin(p) PROVE Tried' /\ AbstractStep
<1> USE DEF TrialInv, Tried
<1>1. ~Open /\ pc = "idle" /\ up /\ pending = None
  BY DEF SetBegin, At, Open
<1>2. Same(staged, accepted) /\ Same(flash, accepted) /\ (Mortal => marker = None)
  BY <1>1 DEF Settled, Armed, Deciding
<1>3. /\ pc' = "delete" /\ said' = "none"
      /\ UNCHANGED <<flash, staged, marker, up, pending, accepted, file, loose>>
      /\ job'.kind = "apply" /\ job'.ok = TRUE /\ job'.push.snap = staged
      /\ job'.push.version = pushes + 1 /\ job'.push.sections = Sections(p)
      /\ job'.push.plan = p
      /\ asked' = Append(asked, p)
  BY DEF SetBegin, Job, machine
<1>4. Open'
  BY <1>3 DEF Open
<1>5. Armed'
  BY <1>1, <1>2, <1>3 DEF Armed, Deciding
<1>6. asked'[pushes + 1] = p
  BY <1>3 DEF TypeInv, TypeOK
<1>7. Roles'
  BY <1>3, <1>6 DEF Roles, Undoing
<1>8. Undoable(job.push)'
  <2>1. \A c \in Line \ loose : staged[c] = None => staged[c] = None /\ flash[c] = None
    BY <1>2 DEF Same, Alike
  <2>2. Whole(staged)
    BY DEF Entire
  <2> QED BY <1>2, <1>3, <1>6, <2>1, <2>2 DEF Undoable, Same
<1>9. Kept'
  BY <1>1, <1>2, <1>3, <1>8 DEF Kept
<1>10. Progress'
  BY <1>1, <1>2, <1>3 DEF Progress, Undoing, Same
<1>11. Settled' /\ Entire'
  BY <1>3, <1>4 DEF Settled, Entire
<1> QED BY <1>1, <1>3, <1>4, <1>5, <1>7, <1>9, <1>10, <1>11, Opens

\* What the steps that change the configuration have in common: the marker stays, and what is
\* staged or on flash at a line, unless the line is loose, was staged or on flash there, or had
\* been accepted, or is asked for.
LEMMA CommonStep ==
    ASSUME TrialInv, Deciding, Deciding', UNCHANGED <<marker, up, pending, accepted, said, asked>>,
           loose \subseteq loose',
           pc # "announce", pc' # "announce", job'.push = job.push,
           \/ job'.kind = job.kind
           \/ {job.kind, job'.kind} \subseteq {"apply", "undo"},
           \A c \in Line \ loose' :
               /\ staged'[c] \in {staged[c], flash[c], accepted[c], None}
                      \/ (job.kind = "apply" /\ staged'[c] = Render(asked[job.push.version])[c])
               /\ flash'[c] \in {staged[c], flash[c], accepted[c]},
           Roles', Progress', Entire'
    PROVE  Tried' /\ AbstractStep
<1> USE DEF TrialInv, Tried
<1>1. Open /\ Open' /\ pc # "idle" /\ up /\ pending = None
  BY InHandler DEF Deciding, Open
<1>2. Armed'
  BY <1>1 DEF Armed, Deciding
<1>3. Undoable(job.push) /\ (Mortal /\ marker # None => Undoable(marker) /\ job.kind # "apply")
  BY <1>1 DEF Kept, Armed, Deciding
<1>4. ASSUME NEW q, Undoable(q), job.kind = "apply" => q = job.push PROVE Undoable(q)'
  <2>1. /\ q.snap \in {q.snap} /\ Same(q.snap, accepted)' /\ Whole(q.snap)
        /\ asked'[q.version] \in Plans /\ q.sections = Sections(asked'[q.version])
    BY <1>4 DEF Undoable, Same, Alike
  <2>2. ASSUME NEW c \in Line \ loose', q.snap[c] = None, Render(asked[q.version])[c] = None
        PROVE  staged'[c] = None /\ flash'[c] = None
    <3>1. c \in Line \ loose
      OBVIOUS
    <3>2. staged[c] = None /\ flash[c] = None /\ accepted[c] = None
      BY <1>4, <2>2, <3>1 DEF Undoable, Same, Alike
    <3> QED BY <1>4, <2>2, <3>2
  <2> QED BY <2>1, <2>2 DEF Undoable
<1>5. Kept'
  <2>1. Undoable(job.push)'
    BY <1>3, <1>4
  <2>2. Mortal /\ marker # None => Undoable(marker)'
    BY <1>3, <1>4
  <2> QED BY <1>1, <2>1, <2>2 DEF Kept, Mortal, Undoable
<1>6. Settled'
  BY <1>1 DEF Settled
<1> QED BY <1>1, <1>2, <1>5, <1>6, Stays

LEMMA StageDeletesStep ==
    ASSUME TrialInv, StageDeletes PROVE Tried' /\ AbstractStep
<1> USE DEF TrialInv, Tried
<1>1. /\ pc = "delete" /\ pc' = "set" /\ Deciding /\ Deciding' /\ up /\ pending = None
      /\ job.kind \in Kind
      /\ UNCHANGED <<flash, marker, up, pending, accepted, job, said, file, loose, asked>>
  BY InHandler DEF StageDeletes, At, Deciding
<1>2. job.kind = "apply"
  BY <1>1 DEF Roles, Undoing, Kind
<1>3. PICK failing \in Failing \cup {{}} :
          /\ stale' = {c \in Line : SectionOf(c) \in failing /\ staged[SectionOf(c)] # None}
          /\ staged' = [c \in Line |-> IF c \in stale' THEN staged[c] ELSE None]
  BY DEF StageDeletes
<1>4. \A c \in Line : staged'[c] \in {staged[c], None} /\ (staged'[c] # None => c \in stale')
  BY <1>3
<1>5. Roles'
  BY <1>1, <1>2 DEF Roles, Undoing
<1>6. Progress'
  BY <1>1, <1>2, <1>4 DEF Progress, Undoing
<1>7. Entire'
  <2>1. ASSUME NEW c \in Line, staged'[c] # None PROVE staged'[SectionOf(c)] # None
    BY <1>3, <2>1, SectionOfSection DEF Entire, Whole
  <2> QED BY <1>1, <2>1 DEF Entire, Whole
<1> QED BY <1>1, <1>4, <1>5, <1>6, <1>7, CommonStep

LEMMA StageSetsStep ==
    ASSUME TrialInv, StageSets PROVE Tried' /\ AbstractStep
<1> USE DEF TrialInv, Tried
<1>1. /\ pc = "set" /\ pc' \in {"commit", "revert"} /\ Deciding /\ Deciding' /\ up /\ pending = None
      /\ job.kind \in Kind /\ file = 1 /\ file' = 1
      /\ UNCHANGED <<flash, marker, up, pending, accepted, job, said, loose, asked, stale>>
  BY InHandler DEF StageSets, At, Deciding, history, Progress
<1>2. job.kind = "apply" /\ job.push.plan = asked[job.push.version] /\ job.ok
      /\ job.push.plan \in Plans
  BY <1>1, InHandler DEF Roles, Undoing, Kind, Kept, Undoable
<1>3. PICK done \in SUBSET Slug : staged' = Over(staged, job.push.plan, done)
  BY DEF StageSets
<1>4. \A c \in Line : staged'[c] \in {staged[c], Render(asked[job.push.version])[c]}
  BY <1>2, <1>3 DEF Over
<1>5. Roles'
  BY <1>1, <1>2 DEF Roles, Undoing
<1>6. Progress'
  BY <1>1, <1>2 DEF Progress, Undoing, Files
<1>7. Entire'
  <2>1. Whole(staged')
    BY <1>2, <1>3, WholeOver DEF Entire
  <2> QED BY <1>1, <2>1 DEF Entire, Whole
<1> QED BY <1>1, <1>2, <1>4, <1>5, <1>6, <1>7, CommonStep

\* The commit or the reload failed.
LEMMA Failed ==
    ASSUME TrialInv, pc \in {"revert", "reload"}, Fail
    PROVE  /\ pc' \in {"undo", "clear"} /\ job'.push = job.push
           /\ pc' = "undo"  => job.kind = "apply" /\ job'.kind = "undo" /\ job'.ok
           /\ pc' = "clear" => job.kind \in Undoing /\ job'.kind = job.kind /\ ~job'.ok
<1>1. pc # "idle" /\ job.kind \in {"apply"} \cup Undoing /\ job.ok
  BY InHandler DEF TrialInv, Tried, Roles, Undoing, Kind
<1> QED BY <1>1, InHandler DEF Fail, TrialInv

LEMMA CommitFileStep ==
    ASSUME TrialInv, TypeInv', CommitFile PROVE Tried' /\ AbstractStep
<1> USE DEF TrialInv, Tried
<1>1. /\ pc = "commit" /\ pc' \in {"commit", "reload", "revert"} /\ Deciding /\ Deciding'
      /\ up /\ pending = None /\ job.kind \in Kind /\ file \in 1..3
      /\ UNCHANGED <<staged, marker, up, pending, accepted, job, said, loose, asked, stale>>
  BY InHandler, FilesCover DEF CommitFile, At, Deciding, TypeInv, TypeOK, history
<1>2. job.kind \in {"apply"} \cup Undoing /\ job.ok
  BY <1>1, InHandler DEF Roles, Undoing, Kind
<1>3. \A n \in 1..3, c \in Line : n < file /\ c[1] = Files[n] => flash[c] = staged[c]
  BY <1>1, FilesCover DEF Progress
<1>4. flash \in Config /\ staged \in Config /\ flash' \in Config
  BY DEF TypeInv, TypeOK
<1>5. Roles'
  BY <1>1, <1>2 DEF Roles, Undoing
<1>6. CASE /\ flash' = [c \in Line |-> IF c[1] = Files[file] THEN staged[c] ELSE flash[c]]
           /\ IF file < Len(Files) THEN file' = file + 1 /\ UNCHANGED pc
                                   ELSE file' = 1 /\ pc' = "reload"
  <2>1. \A c \in Line : flash'[c] \in {staged[c], flash[c]}
    BY <1>6
  <2>2. Entire'
    <3>1. ASSUME NEW c \in Line, flash'[c] # None PROVE flash'[SectionOf(c)] # None
      BY <1>6, <3>1, SectionOfSection DEF Entire, Whole
    <3> QED BY <1>1, <3>1 DEF Entire, Whole
  <2>3. CASE file < 3
    <3>1. pc' = "commit" /\ file' = file + 1
      BY <1>1, <1>6, <2>3, FilesCover
    <3>2. \A n \in 1..3, c \in Line : n < file' /\ c[1] = Files[n] => flash'[c] = staged'[c]
      BY <1>1, <1>3, <1>6, <3>1
    <3>3. Progress'
      BY <1>1, <3>1, <3>2, FilesCover DEF Progress, Same
    <3> QED BY <1>1, <1>5, <2>1, <2>2, <3>1, <3>3, CommonStep
  <2>4. CASE file = 3
    <3>1. pc' = "reload" /\ file' = 1
      BY <1>6, <2>4, FilesCover
    <3>2. \A c \in Line : flash'[c] = staged[c]
      BY <1>3, <1>6, <2>4, FilesCover
    <3>3. flash' = staged
      BY <1>4, <3>2 DEF Config
    <3>4. Progress'
      BY <1>1, <3>1, <3>3 DEF Progress, Same
    <3> QED BY <1>1, <1>5, <2>1, <2>2, <3>1, <3>4, CommonStep
  <2> QED BY <1>1, <2>3, <2>4
<1>7. CASE pc' = "revert" /\ file' = 1 /\ UNCHANGED flash
  <2>1. Progress'
    BY <1>1, <1>2, <1>7 DEF Progress
  <2>2. Entire'
    BY <1>1, <1>7 DEF Entire
  <2> QED BY <1>1, <1>5, <1>7, <2>1, <2>2, CommonStep
<1> QED BY <1>6, <1>7 DEF CommitFile

LEMMA RevertStep ==
    ASSUME TrialInv, Revert PROVE Tried' /\ AbstractStep
<1> USE DEF TrialInv, Tried
<1>1. /\ pc = "revert" /\ Deciding /\ up /\ pending = None /\ job.kind \in Kind /\ Fail /\ file = 1
      /\ UNCHANGED <<flash, marker, up, pending, accepted, said, file, asked, stale>>
  BY InHandler DEF Revert, At, Deciding, Progress
<1>2. /\ pc' \in {"undo", "clear"} /\ job'.push = job.push
      /\ pc' = "undo"  => job.kind = "apply" /\ job'.kind = "undo" /\ job'.ok
      /\ pc' = "clear" => job.kind \in Undoing /\ job'.kind = job.kind /\ ~job'.ok
  BY <1>1, Failed
<1>3. PICK kept \in SUBSET {Files[n] : n \in 1..Len(Files)} :
        LET left == {c \in Line : c[1] \in kept /\ staged[c] # flash[c]}
        IN  /\ staged' = [c \in Line |-> IF c \in left THEN staged[c] ELSE flash[c]]
            /\ loose' = IF job.kind = "apply" THEN loose ELSE loose \cup left
            /\ IF left = {} THEN UNCHANGED faults ELSE Happens("revert")
  BY DEF Revert
<1>4. /\ \A c \in Line : staged'[c] = IF c[1] \in kept THEN staged[c] ELSE flash[c]
      /\ loose \subseteq loose'
      /\ job.kind # "apply" => \A c \in Line \ loose' : staged'[c] = flash[c]
  BY <1>3
<1>5. Roles' /\ Deciding'
  BY <1>2 DEF Roles, Undoing, Deciding
<1>6. Progress'
  BY <1>1, <1>2, <1>4 DEF Progress, Same, Alike, Undoing
<1>7. Entire'
  <2>1. ASSUME NEW c \in Line, staged'[c] # None PROVE staged'[SectionOf(c)] # None
    BY <1>4, <2>1, SectionOfSection DEF Entire, Whole
  <2> QED BY <1>1, <2>1 DEF Entire, Whole
<1>8. job'.kind = job.kind \/ {job.kind, job'.kind} \subseteq {"apply", "undo"}
  BY <1>2
<1> QED BY <1>1, <1>2, <1>4, <1>5, <1>6, <1>7, <1>8, CommonStep

LEMMA ReloadStep ==
    ASSUME TrialInv, Reload PROVE Tried' /\ AbstractStep
<1> USE DEF TrialInv, Tried
<1>1. /\ pc = "reload" /\ Deciding /\ up /\ pending = None /\ job.kind \in Kind
      /\ pc' # "announce"
      /\ UNCHANGED <<flash, staged, marker, up, pending, accepted, said, file, loose, asked, stale>>
  BY InHandler DEF Reload, At, Deciding, Fail, history
<1>2. job.kind \in {"apply"} \cup Undoing /\ job.ok /\ staged = flash
  BY <1>1, InHandler DEF Roles, Undoing, Kind, Progress
<1>3. Entire'
  BY <1>1 DEF Entire
<1>4. CASE pc' = (IF job.kind = "apply" THEN "mark" ELSE "clear") /\ UNCHANGED job
  <2>1. Roles' /\ Deciding'
    BY <1>1, <1>2, <1>4 DEF Roles, Undoing, Deciding
  <2>2. Progress'
    BY <1>1, <1>2, <1>4 DEF Progress, Same, Alike, Undoing
  <2> QED BY <1>1, <1>3, <1>4, <2>1, <2>2, CommonStep
<1>5. CASE Fail
  <2>1. /\ pc' \in {"undo", "clear"} /\ job'.push = job.push
        /\ pc' = "undo"  => job.kind = "apply" /\ job'.kind = "undo" /\ job'.ok
        /\ pc' = "clear" => job.kind \in Undoing /\ job'.kind = job.kind /\ ~job'.ok
    BY <1>1, <1>5, Failed
  <2>2. Roles' /\ Deciding'
    BY <2>1 DEF Roles, Undoing, Deciding
  <2>3. Progress'
    BY <1>1, <1>2, <2>1 DEF Progress, Same, Alike, Undoing
  <2>4. job'.kind = job.kind \/ {job.kind, job'.kind} \subseteq {"apply", "undo"}
    BY <2>1
  <2> QED BY <1>1, <1>3, <2>1, <2>2, <2>3, <2>4, CommonStep
<1> QED BY <1>4, <1>5 DEF Reload

LEMMA UndoStep ==
    ASSUME TrialInv, Undo PROVE Tried' /\ AbstractStep
<1> USE DEF TrialInv, Tried
<1>1. /\ pc = "undo" /\ pc' = "commit" /\ Deciding /\ Deciding' /\ up /\ pending = None
      /\ job.kind \in Kind /\ job.push \in Push /\ file = 1
      /\ UNCHANGED <<flash, job, file, marker, up, pending, accepted, said, asked, stale>>
  BY InHandler DEF Undo, At, Deciding, Progress
<1>2. job.kind \in Undoing /\ job.ok
  BY <1>1, InHandler DEF Roles, Undoing, Kind
<1>3. Undoable(job.push)
  BY <1>1 DEF Kept
<1> DEFINE snap == job.push.snap
           Astray(lines) == {c \in lines : staged'[c] # snap[c]}
<1>4. PICK failing \in Failing \cup {{}} :
          /\ staged' = Undone(snap, job.push.sections, failing)
          /\ loose' = loose \cup Astray(Concerned(failing))
                           \cup Astray(Additions(snap, asked[job.push.version]))
  BY DEF Undo
<1>5. loose \subseteq loose'
  BY <1>4
<1>6. ASSUME NEW c \in Line \ loose' PROVE staged'[c] = accepted[c]
  <2>1. snap[c] = accepted[c]
    BY <1>3, <1>5 DEF Undoable, Same, Alike
  <2>2. CASE c \in Concerned(failing) \cup Additions(snap, asked[job.push.version])
    BY <1>4, <1>6, <2>1, <2>2
  <2>3. CASE c \notin Concerned(failing) \cup Additions(snap, asked[job.push.version])
    BY <1>1, <1>3, <1>4, <1>5, <2>3, UndoneIs
  <2> QED BY <2>2, <2>3
<1>7. Roles'
  BY <1>1, <1>2 DEF Roles, Undoing
<1>8. Progress'
  BY <1>1, <1>2, <1>6 DEF Progress, Files, Same, Alike, Undoing
<1>9. Entire'
  <2>1. Whole(staged')
    BY <1>3, <1>4, WholeUndone DEF Entire, Undoable
  <2> QED BY <1>1, <2>1 DEF Entire, Whole
<1> QED BY <1>1, <1>5, <1>6, <1>7, <1>8, <1>9, CommonStep

LEMMA MarkStep ==
    ASSUME TrialInv, Sheltered, Mark PROVE Tried' /\ AbstractStep
<1> USE DEF TrialInv, Tried
<1>1. /\ pc = "mark" /\ pc' = "announce" /\ Deciding /\ Deciding' /\ up /\ pending = None
      /\ job.kind \in Kind /\ job.push \in Push /\ Open
      /\ UNCHANGED <<flash, staged, job, file, up, pending, accepted, said, loose, asked, stale>>
  BY InHandler DEF Mark, At, Deciding, history, Open
<1>2. job.kind = "apply" /\ staged = flash
  BY <1>1 DEF Roles, Undoing, Kind, Progress
<1>3. Mortal => marker' = [job.push EXCEPT !.plan = NoPlan]
  BY DEF Mark, Mortal, Sheltered, Happens
<1>4. Mortal => /\ marker' # None /\ marker'.snap = job.push.snap
                /\ marker'.version = job.push.version
                /\ marker'.sections = job.push.sections /\ marker'.left = job.push.left
  <2>1. [job.push EXCEPT !.plan = NoPlan] \in Push
    BY <1>1 DEF Push
  <2> QED BY <1>1, <1>3, <2>1, NoneAssumption DEF NoneAssumption, Push
<1>5. Open'
  BY <1>1 DEF Open
<1>6. Roles'
  BY <1>1, <1>2 DEF Roles, Undoing
<1>7. Armed'
  BY <1>1, <1>2, <1>4 DEF Armed
<1>8. Kept'
  BY <1>1, <1>4 DEF Kept, Undoable, Same
<1>9. Progress'
  BY <1>1, <1>2 DEF Progress
<1>10. Settled' /\ Entire'
  BY <1>1, <1>5 DEF Settled, Entire
<1>11. AbstractStep
  BY <1>1, <1>5, Stays
<1>12. Open' => said' = "none"
  BY <1>1
<1> QED BY <1>6, <1>7, <1>8, <1>9, <1>10, <1>11, <1>12

LEMMA AnnounceStep ==
    ASSUME TrialInv, Announce PROVE Tried' /\ AbstractStep
<1> USE DEF TrialInv, Tried
<1>1. /\ pc = "announce" /\ pc' = "idle" /\ Deciding /\ ~Deciding' /\ up /\ pending = None
      /\ job.push \in Push /\ pending' = job.push /\ pending' # None /\ Open /\ Open'
      /\ UNCHANGED <<flash, staged, marker, file, up, accepted, said, loose, asked, stale>>
  BY InHandler, NoneAssumption DEF NoneAssumption, Announce, At, Deciding, machine, Open
<1>2. staged = flash
  BY <1>1 DEF Progress
<1>3. Roles' /\ Armed'
  BY <1>1 DEF Roles, Armed
<1>4. Kept'
  BY <1>1 DEF Kept, Undoable, Same
<1>5. Progress'
  BY <1>1, <1>2 DEF Progress
<1>6. Settled' /\ Entire'
  BY <1>1 DEF Settled, Entire
<1> QED BY <1>1, <1>3, <1>4, <1>5, <1>6, Stays

LEMMA EndBeginStep ==
    ASSUME TrialInv, (\E v \in 1..MaxPushes : ConfirmBegin(v)) \/ Watchdog
    PROVE  Tried' /\ AbstractStep
<1> USE DEF TrialInv, Tried
<1>1. /\ pc = "idle" /\ up /\ pending # None /\ pending' = None /\ Open
      /\ job' \in {Job("confirm", pending), Job("watchdog", pending)}
      /\ job' = Job("confirm", pending)  => pc' = "clear"
      /\ job' = Job("watchdog", pending) => pc' = "undo" /\ pending.left = 0
      /\ UNCHANGED <<flash, staged, marker, file, up, accepted, said, loose, asked, stale>>
  BY DEF ConfirmBegin, Watchdog, Awaits, At, machine, history, Open, Job
<1>2. staged = flash
  BY <1>1 DEF Progress
<1>3. /\ job'.push = pending /\ job'.ok /\ job'.kind \in {"confirm", "watchdog"}
      /\ job'.kind = "confirm"  => pc' = "clear"
      /\ job'.kind = "watchdog" => pc' = "undo" /\ pending.left = 0
  BY <1>1 DEF Job
<1>4. Open' /\ Deciding'
  BY <1>3 DEF Open, Deciding
<1>5. Roles'
  BY <1>3 DEF Roles, Undoing
<1>6. Armed'
  BY <1>1, <1>3, <1>4 DEF Armed
<1>7. Kept'
  BY <1>1, <1>3, <1>4 DEF Kept, Undoable, Same
<1>8. Progress'
  BY <1>1, <1>2, <1>3 DEF Progress, Undoing
<1>9. Settled' /\ Entire'
  BY <1>1, <1>4 DEF Settled, Entire
<1> QED BY <1>1, <1>4, <1>5, <1>6, <1>7, <1>8, <1>9, Stays

LEMMA ClearStep ==
    ASSUME TrialInv, TypeInv', Sheltered, Clear PROVE Tried' /\ AbstractStep
<1> USE DEF TrialInv, Tried
<1>1. /\ pc = "clear" /\ pc' \in {"record", "tell"} /\ ~Deciding' /\ up /\ pending = None /\ Open
      /\ job.kind \in Kind /\ job.ok \in BOOLEAN
      /\ (pc' = "record") <=> (job.kind = "confirm")
      /\ said' = Outcome(job)
      /\ UNCHANGED <<flash, staged, job, file, up, pending, asked, stale>>
  BY InHandler DEF Clear, At, Deciding, Open
<1>2. job.kind \in {"confirm"} \cup Undoing /\ (job.kind = "confirm" => job.ok)
  BY <1>1 DEF Roles, Undoing, Kind
<1>3. Mortal => marker' = None
  BY DEF Clear, Mortal, Sheltered, Happens
<1>4. ~Open'
  BY <1>1 DEF Open
<1>5. Roles'
  BY <1>1, <1>2 DEF Roles, Undoing
<1>6. Armed' /\ Kept'
  BY <1>1, <1>3 DEF Armed, Kept
<1>7. Progress'
  BY <1>1, <1>2 DEF Progress, Undoing
<1>8. Entire'
  BY <1>1 DEF Entire
<1>9. CASE job.kind = "confirm"
  <2>1. /\ accepted' = flash /\ loose' = {c \in loose : staged[c] # flash[c]}
        /\ said' = "committed" /\ staged = flash
    BY <1>1, <1>9 DEF Clear, Outcome, Progress
  <2>2. loose' = {}
    BY <2>1
  <2>3. Settled'
    BY <1>1, <2>1 DEF Settled, Same, Alike
  <2>4. AbstractStep
    BY <1>1, <1>4, <2>1, <2>2, Closes
  <2> QED BY <1>4, <1>5, <1>6, <1>7, <1>8, <2>3, <2>4
<1>10. CASE job.kind # "confirm" /\ ~job.ok
  <2>1. /\ accepted' = flash /\ loose' = {c \in loose : staged[c] # flash[c]}
        /\ said' = "failed" /\ Same(staged, flash)
    BY <1>1, <1>2, <1>10 DEF Clear, Outcome, Progress
  <2>2. loose' \subseteq loose
    BY <2>1
  <2>3. Settled'
    BY <1>1, <2>1 DEF Settled, Same, Alike
  <2>4. AbstractStep
    BY <1>1, <1>4, <2>1, <2>2, Closes
  <2> QED BY <1>4, <1>5, <1>6, <1>7, <1>8, <2>3, <2>4
<1>11. CASE job.kind # "confirm" /\ job.ok
  <2>1. /\ UNCHANGED <<accepted, loose>> /\ said' \in {"rolledback", "failed"}
        /\ Same(staged, flash) /\ Same(flash, accepted)
    BY <1>1, <1>2, <1>11 DEF Clear, Outcome, Progress
  <2>2. Settled'
    BY <1>1, <2>1 DEF Settled, Same, Alike
  <2>3. AbstractStep
    BY <1>1, <1>4, <2>1, Closes
  <2> QED BY <1>4, <1>5, <1>6, <1>7, <1>8, <2>2, <2>3
<1> QED BY <1>1, <1>9, <1>10, <1>11

LEMMA CloseStep ==
    ASSUME TrialInv, Record \/ Tell PROVE Tried' /\ AbstractStep
<1> USE DEF TrialInv, Tried
<1>1. /\ pc \in {"record", "tell"} /\ pc' \in {"tell", "idle"} /\ ~Deciding /\ ~Deciding'
      /\ up /\ pending = None /\ ~Open /\ ~Open'
      /\ pc' = "tell" => job' = job /\ pc = "record"
      /\ UNCHANGED <<flash, staged, marker, file, up, pending, accepted, said, loose, asked, stale>>
  BY InHandler DEF Record, Tell, At, Deciding, machine, history, Open
<1>2. Same(staged, accepted) /\ Same(flash, accepted)
  BY <1>1 DEF Settled
<1>3. Roles'
  BY <1>1 DEF Roles, Undoing
<1>4. Armed' /\ Kept'
  BY <1>1 DEF Armed, Kept, Undoable, Same
<1>5. Progress'
  BY <1>1 DEF Progress
<1>6. Settled' /\ Entire'
  BY <1>1, <1>2 DEF Settled, Entire, Same
<1>7. Open' = Open
  BY <1>1 DEF Open
<1>8. AbstractStep
  BY <1>1, <1>7, Nothing
<1> QED BY <1>1, <1>3, <1>4, <1>5, <1>6, <1>8

-----------------------------------------------------------------------------
(* Death, restart, and the others                                          *)

\* A handler that dies with no marker, where it may die, has left what was accepted.
LEMMA CrashStep ==
    ASSUME TrialInv, Sheltered, Crash PROVE Tried' /\ AbstractStep
<1> USE DEF TrialInv, Tried
<1>1. /\ up /\ ~up' /\ Mortal /\ pc' = "idle" /\ pending' = None /\ file' = 1 /\ ~Deciding'
      /\ UNCHANGED <<flash, staged, marker, accepted, said, loose, asked, stale>>
  BY DEF Crash, Die, machine, history, Happens, Mortal, Deciding
<1>2. Open' <=> marker # None
  BY <1>1 DEF Open
<1>3. ASSUME marker = None PROVE Same(staged, accepted) /\ Same(flash, accepted)
  <2>1. CASE ~Open
    BY <2>1 DEF Settled
  <2>2. CASE Open
    <3>1. pending = None /\ Deciding /\ pc # "announce"
          /\ job.kind \notin {"watchdog", "boot", "confirm"}
      BY <1>1, <1>3, <2>2 DEF Open, Deciding, Armed
    <3>2. job # None /\ job.kind \in Kind /\ <<job.kind, pc>> \notin Unarmed
      BY <3>1, <1>1, InHandler DEF Deciding, Crash, Sheltered, Mortal
    <3>3. pc = "delete"
      BY <3>1, <3>2 DEF Kind, Roles, Undoing, Unarmed, Deciding
    <3> QED BY <3>3 DEF Progress
  <2> QED BY <2>1, <2>2
<1>4. Roles' /\ Armed'
  BY <1>1 DEF Roles, Armed
<1>5. Kept'
  BY <1>1 DEF Kept, Undoable, Same
<1>6. ASSUME marker # None, marker.left > 0 PROVE staged = flash
  <2>1. pending # None \/ (Deciding /\ job.kind = "confirm") \/ pc = "announce"
    BY <1>1, <1>6 DEF Armed
  <2>2. Deciding /\ job.kind = "confirm" => pc = "clear"
    BY DEF Roles, Deciding
  <2> QED BY <2>1, <2>2 DEF Progress
<1>7. Progress'
  BY <1>1, <1>6 DEF Progress
<1>8. Settled' /\ Entire'
  BY <1>1, <1>2, <1>3 DEF Settled, Entire, Same
<1>9. AbstractStep
  <2>1. CASE Open /\ marker = None
    BY <1>1, <1>2, <1>3, <2>1, Closes
  <2>2. CASE Open /\ marker # None
    BY <1>1, <1>2, <2>2, Stays
  <2>3. CASE ~Open
    <3>1. marker = None
      BY <1>1, <2>3 DEF Open, Armed, Deciding
    <3> QED BY <1>1, <1>2, <2>3, <3>1, Nothing DEF Open
  <2> QED BY <2>1, <2>2, <2>3
<1>10. Open' => said' = "none"
  <2>1. CASE Open
    BY <1>1, <2>1
  <2>2. CASE ~Open
    BY <1>1, <1>2, <2>2 DEF Open, Armed, Deciding
  <2> QED BY <2>1, <2>2
<1> QED BY <1>4, <1>5, <1>7, <1>8, <1>9, <1>10

\* A power cycle: the router comes up with what is on flash, and nobody watches it.
LEMMA RebootStep ==
    ASSUME TrialInv, Reboot PROVE Tried' /\ AbstractStep
<1> USE DEF TrialInv, Tried
<1>1. /\ ~up' /\ pc' = "idle" /\ pending' = None /\ file' = 1 /\ marker' = None
      /\ staged' = flash /\ accepted' = flash /\ said' = "none" /\ flash' = flash /\ loose' = {}
  BY DEF Reboot, Die
<1>2. ~Open' /\ ~Deciding'
  BY <1>1 DEF Open, Deciding
<1>3. Roles' /\ Armed' /\ Kept' /\ Progress'
  BY <1>1, <1>2 DEF Roles, Armed, Kept, Progress
<1>4. Settled'
  BY <1>1 DEF Settled, Same, Alike
<1>5. Entire'
  BY <1>1 DEF Entire
<1>6. AbstractStep
  BY <1>1, <1>2, PowerCycles
<1> QED BY <1>2, <1>3, <1>4, <1>5, <1>6

\* The daemon takes up the trial it finds: it undoes it, or waits on.
LEMMA RestartStep ==
    ASSUME TrialInv, Restart PROVE Tried' /\ AbstractStep
<1> USE DEF TrialInv, Tried
<1>1. /\ ~up /\ up' /\ pc = "idle" /\ pending = None /\ marker \in Push \cup {None}
      /\ UNCHANGED <<flash, staged, marker, file, accepted, said, loose, asked, stale>>
  BY DEF Restart, TypeInv, TypeOK, Typed, machine, history
<1>2. Open <=> marker # None
  BY <1>1 DEF Open
<1>3. file' = 1 /\ Entire'
  BY <1>1 DEF Progress, Entire
<1>4. CASE marker = None
  <2>1. pc' = "idle" /\ pending' = None /\ marker' = None /\ ~Deciding'
    BY <1>1, <1>4 DEF Restart, Deciding
  <2>2. ~Open' /\ Open' = Open
    BY <1>1, <1>4, <2>1 DEF Open
  <2>3. Roles' /\ Armed' /\ Kept' /\ Progress'
    BY <1>1, <1>3, <2>1 DEF Roles, Armed, Kept, Progress
  <2>4. Settled'
    BY <1>1, <1>2, <1>4 DEF Settled, Same
  <2>5. AbstractStep
    BY <1>1, <2>2, Nothing
  <2> QED BY <1>3, <2>2, <2>3, <2>4, <2>5
<1>5. ASSUME marker # None, marker.left = 0 PROVE Tried' /\ AbstractStep
  <2>1. /\ pc' = "undo" /\ pending' = None /\ marker' # None /\ Deciding' /\ Open'
        /\ job'.kind = "boot" /\ job'.push = marker /\ job'.ok
    BY <1>1, <1>5 DEF Restart, Deciding, Job, Open
  <2>2. Mortal
    BY <1>1, <1>5 DEF Armed
  <2>3. Roles'
    BY <2>1 DEF Roles, Undoing
  <2>4. Armed'
    BY <1>1, <1>5, <2>1, <2>2 DEF Armed
  <2>5. Kept'
    BY <1>1, <2>1, <2>2 DEF Kept, Undoable, Same
  <2>6. Progress' /\ Settled'
    BY <1>1, <1>3, <2>1 DEF Progress, Settled, Undoing
  <2>7. AbstractStep /\ (Open' => said' = "none")
    BY <1>1, <1>2, <1>5, <2>1, Stays
  <2> QED BY <1>3, <2>3, <2>4, <2>5, <2>6, <2>7
<1>6. ASSUME marker # None, marker.left > 0 PROVE Tried' /\ AbstractStep
  <2>1. pc' = "idle" /\ pending' = marker /\ pending' # None /\ ~Deciding' /\ Open'
    BY <1>1, <1>6 DEF Restart, Deciding, Open
  <2>2. Mortal /\ staged = flash
    BY <1>1, <1>6 DEF Armed, Progress
  <2>3. Roles' /\ Armed'
    BY <1>1, <1>6, <2>1, <2>2 DEF Roles, Armed
  <2>4. Kept'
    BY <1>1, <2>1, <2>2 DEF Kept, Undoable, Same
  <2>5. Progress' /\ Settled'
    BY <1>1, <1>3, <2>1, <2>2 DEF Progress, Settled
  <2>6. AbstractStep /\ (Open' => said' = "none")
    BY <1>1, <1>2, <1>6, <2>1, Stays
  <2> QED BY <1>3, <2>3, <2>4, <2>5, <2>6
<1>7. marker # None => marker.left \in Nat
  BY <1>1, ConfirmAssumption DEF Push, ConfirmAssumption
<1> QED BY <1>4, <1>5, <1>6, <1>7

\* Nobody else can commit anything but what the trial has staged, or loose lines.
LEMMA AdminCommitStep ==
    ASSUME TrialInv, AdminCommit PROVE Tried' /\ AbstractStep
<1> USE DEF TrialInv, Tried
<1>1. /\ staged # flash /\ flash' = staged
      /\ UNCHANGED <<staged, marker, up, pc, job, file, pending, accepted, said, loose, asked, stale>>
  BY DEF AdminCommit, actor, history
<1>2. Open' = Open /\ Deciding' = Deciding
  BY <1>1 DEF Open, Deciding
<1>3. Roles' /\ Armed'
  BY <1>1, <1>2 DEF Roles, Armed
<1>4. Kept'
  BY <1>1, <1>2 DEF Kept, Undoable, Same
<1>5. Progress'
  BY <1>1 DEF Progress, Same, Alike
<1>6. Settled' /\ Entire'
  BY <1>1, <1>2 DEF Settled, Entire, Same
<1>7. AbstractStep
  <2>1. CASE Open
    BY <1>1, <1>2, <2>1, Stays
  <2>2. CASE ~Open
    <3>1. Alike(flash', accepted, loose)
      BY <1>1, <2>2 DEF Settled, Same
    <3> QED BY <1>1, <1>2, <2>2, <3>1, Slips
  <2> QED BY <2>1, <2>2
<1> QED BY <1>1, <1>2, <1>3, <1>4, <1>5, <1>6, <1>7

\* A tick ages the push and its marker alike.
LEMMA TickStep ==
    ASSUME TrialInv, Tick PROVE Tried' /\ AbstractStep
<1> USE DEF TrialInv, Tried
<1>1. /\ marker' = Aged(marker) /\ pending' = Aged(pending)
      /\ UNCHANGED <<flash, staged, up, pc, file, accepted, said, loose, asked, stale>>
  BY DEF Tick, history
<1>2. {marker, pending} \subseteq Push \cup {None}
  BY DEF TypeInv, TypeOK
<1>3. ASSUME NEW p \in Push
      PROVE  /\ Aged(p) # None /\ Aged(p).snap = p.snap /\ Aged(p).sections = p.sections
             /\ Aged(p).plan = p.plan /\ Aged(p).version = p.version
             /\ Aged(p).left = IF p.left = 0 THEN 0 ELSE p.left - 1
             /\ p.left \in Nat
  BY AgedType, NoneAssumption, ConfirmAssumption DEF NoneAssumption, ConfirmAssumption, Push
<1>4. Aged(None) = None
  BY DEF Aged
<1>5. (marker' = None <=> marker = None) /\ (pending' = None <=> pending = None)
  BY <1>1, <1>2, <1>3, <1>4
<1>6. Open' = Open /\ Deciding' = Deciding
  BY <1>1, <1>5 DEF Open, Deciding
<1>7. pc # "idle" =>
          /\ job'.kind = job.kind /\ job'.ok = job.ok
          /\ job'.push = IF pc = "announce" THEN Aged(job.push) ELSE job.push
          /\ job.push \in Push
  BY InHandler DEF Tick
<1>8. Roles'
  BY <1>1, <1>3, <1>7 DEF Roles
<1>9. Armed'
  BY <1>1, <1>2, <1>3, <1>5, <1>6, <1>7 DEF Armed, Deciding
<1>10. Kept'
  <2>1. \A p \in Push : Undoable(p) => Undoable(Aged(p))'
    BY <1>1, <1>3 DEF Undoable, Same
  <2> QED BY <1>1, <1>2, <1>5, <1>6, <1>7, <2>1 DEF Kept, Deciding, Undoable, Same
<1>11. Progress'
  BY <1>1, <1>2, <1>3, <1>5, <1>7 DEF Progress, Undoing, Same
<1>12. Settled' /\ Entire' /\ AbstractStep
  BY <1>1, <1>6, Nothing DEF Settled, Entire, Same
<1> QED BY <1>1, <1>6, <1>8, <1>9, <1>10, <1>11, <1>12

LEMMA OtherStep ==
    ASSUME TrialInv, Drain \/ UNCHANGED vars PROVE Tried' /\ AbstractStep
<1> USE DEF TrialInv, Tried
<1>1. UNCHANGED <<flash, staged, marker, up, pc, job, file, pending, accepted, said, loose, asked,
                  stale>>
  BY DEF Drain, vars, machine, actor, history
<1>2. Open' = Open /\ Deciding' = Deciding
  BY <1>1 DEF Open, Deciding
<1>3. Roles' /\ Armed' /\ Kept' /\ Progress'
  BY <1>1, <1>2 DEF Roles, Armed, Kept, Progress, Undoable, Same
<1>4. Settled' /\ Entire' /\ AbstractStep
  BY <1>1, <1>2, Nothing DEF Settled, Entire, Same
<1> QED BY <1>1, <1>2, <1>3, <1>4

-----------------------------------------------------------------------------
LEMMA NextTried ==
    ASSUME TrialInv, Sheltered, [Next]_vars PROVE TrialInv' /\ AbstractStep
<1>1. TypeInv'
  BY NextTyped DEF TrialInv
<1> SUFFICES Tried' /\ AbstractStep
  BY <1>1 DEF TrialInv
<1>2. CASE Request
  BY <1>2, SetBeginStep, EndBeginStep DEF Request
<1>3. CASE Handler
  BY <1>1, <1>3, StageDeletesStep, StageSetsStep, RevertStep, CommitFileStep, ReloadStep, UndoStep, MarkStep,
     AnnounceStep, ClearStep, CloseStep DEF Handler
<1>4. CASE Watchdog
  BY <1>4, EndBeginStep
<1> QED BY <1>2, <1>3, <1>4, CrashStep, RebootStep, RestartStep, AdminCommitStep, TickStep,
           OtherStep DEF Next

\* The actor implements commit-confirm: if the daemon dies only where a rollback survives it,
\* then whatever commands fail and whoever commits what is staged, nothing unconfirmed stays on
\* flash once its trial is closed but for the loose lines, and what the control plane is told
\* of the end is true (handle.rs, sm.rs).
THEOREM ConfirmRefined == ASSUME Sheltered PROVE Spec => ConfirmSpec
<1>1. Init => TrialInv /\ Confirm!Init
  <2>1. Init => flash = accepted /\ Open = FALSE /\ said = "none" /\ loose = {}
    BY DEF Init, Open
  <2> QED BY <2>1, InitTyped, InitTried DEF TrialInv, Confirm!Init
<1>2. TrialInv /\ [Next]_vars => TrialInv' /\ [Confirm!Next]_(Confirm!confirmVars)
  BY NextTried DEF AbstractStep, Confirm!confirmVars
<1> QED BY <1>1, <1>2, PTL DEF Spec, ConfirmSpec, Confirm!Spec

\* What commit-confirm promises is enough: without a trial under way nothing unconfirmed
\* is live.
LEMMA NothingStays == ConfirmSpec => []Confirm!NothingUnconfirmed
<1>1. Confirm!Init => Confirm!NothingUnconfirmed
  BY DEF Confirm!Init, Confirm!NothingUnconfirmed, Confirm!Agrees
<1>2. Confirm!NothingUnconfirmed /\ [Confirm!Next]_(Confirm!confirmVars)
          => Confirm!NothingUnconfirmed'
  <2> SUFFICES ASSUME Confirm!NothingUnconfirmed, [Confirm!Next]_(Confirm!confirmVars)
               PROVE  Confirm!NothingUnconfirmed'
    OBVIOUS
  <2> USE DEF Confirm!NothingUnconfirmed, Confirm!Agrees
  <2>1. CASE Confirm!Try \/ Confirm!Change \/ Confirm!Slip \/ Confirm!PowerCycle
    BY <2>1 DEF Confirm!Try, Confirm!Change, Confirm!Slip, Confirm!PowerCycle
  <2>2. CASE Confirm!Commit \/ Confirm!Restore \/ Confirm!GiveUp
    BY <2>2 DEF Confirm!Commit, Confirm!Restore, Confirm!GiveUp, Confirm!Close
  <2>3. CASE UNCHANGED Confirm!confirmVars
    BY <2>3 DEF Confirm!confirmVars
  <2> QED BY <2>1, <2>2, <2>3 DEF Confirm!Next
<1> QED BY <1>1, <1>2, PTL DEF ConfirmSpec, Confirm!Spec

\* So while no trial is under way, every line on flash that is not loose is as it was last
\* accepted: confirmed, restored, told as failed, or made the truth by a power cycle (sm.rs).
THEOREM Accepted ==
    ASSUME Sheltered PROVE Spec => [](~Open => Alike(flash, accepted, loose))
<1>1. TypeOK /\ Confirm!NothingUnconfirmed => (~Open => Alike(flash, accepted, loose))
  BY DEF Confirm!NothingUnconfirmed, Confirm!Agrees, Alike, TypeOK, Config
<1> QED BY <1>1, ConfirmRefined, NothingStays, TypeCorrect, PTL
-----------------------------------------------------------------------------
(* One final status                                                        *)

\* A push that is in the daemon's hands, or will be after a restart, has had no final status.
Alive(p) == /\ p.version <= pushes
            /\ \A i \in 1..Len(told) : told[i].version = p.version => told[i].state = "applied"

Untold ==
    /\ \A i \in 1..Len(told) : told[i].version <= pushes
    /\ pc # "idle" => Alive(job.push)
    /\ pending # None => Alive(pending)
    /\ Mortal /\ marker # None => Alive(marker)
    /\ ~Mortal /\ ~up => marker = None
    /\ Mortal /\ pc \in {"record", "tell"} => marker = None

OutcomeInv == TypeInv /\ Untold /\ OneOutcome

\* A step that says nothing ends nothing.
LEMMA SilentAlive ==
    ASSUME UNCHANGED <<told, pushes>>, NEW p, NEW q, q.version = p.version, Alive(p)
    PROVE  Alive(q)'
  BY DEF Alive

\* A status of a push that had no final one is the only final one, if it is one.
LEMMA EmitStep ==
    ASSUME OutcomeInv, NEW p, Alive(p), p.version \in 1..MaxPushes, NEW state \in State,
           Emit(Status(p.version, state)), UNCHANGED pushes
    PROVE  /\ OneOutcome'
           /\ \A i \in 1..Len(told') : told'[i].version <= pushes'
           /\ state = "applied" => \A q \in Push : Alive(q) => Alive(q)'
<1> DEFINE n == Len(told)
<1>1. told \in Seq([version: 1..MaxPushes, state: State]) /\ n \in Nat
  BY DEF OutcomeInv, TypeInv, TypeOK
<1>2. /\ Len(told') = n + 1
      /\ \A i \in 1..n : told'[i] = told[i]
      /\ told'[n + 1].version = p.version /\ told'[n + 1].state = state
  BY <1>1 DEF Emit, Status
<1> HIDE DEF n
<1>3. \A i \in 1..n : told[i].version = p.version => told[i].state = "applied"
  BY DEF Alive, n
<1>4. OneOutcome'
  <2> SUFFICES ASSUME NEW i \in 1..(n + 1), NEW j \in 1..(n + 1), i < j,
                      told'[i].version = told'[j].version
               PROVE  told'[i].state = "applied"
    BY <1>2 DEF OneOutcome
  <2>1. i \in 1..n
    BY <1>1
  <2>2. CASE j \in 1..n
    BY <1>2, <2>1, <2>2 DEF OutcomeInv, OneOutcome, n
  <2>3. CASE j = n + 1
    BY <1>2, <1>3, <2>1, <2>3
  <2> QED BY <1>1, <2>2, <2>3
<1>5. \A i \in 1..(n + 1) : i \in 1..n \/ i = n + 1
  BY <1>1
<1>6. \A i \in 1..Len(told') : told'[i].version <= pushes'
  BY <1>2, <1>5 DEF OutcomeInv, Untold, Alive, n
<1>7. ASSUME state = "applied", NEW q \in Push, Alive(q) PROVE Alive(q)'
  BY <1>2, <1>5, <1>7 DEF Alive, n
<1> QED BY <1>4, <1>6, <1>7

LEMMA InitOutcome == Init => OutcomeInv
  BY InitTyped DEF Init, OutcomeInv, Untold, OneOutcome

LEMMA NextOutcome ==
    ASSUME OutcomeInv, "crash" \in Faults => "clear" \notin Faults, [Next]_vars
    PROVE  OutcomeInv'
<1> USE DEF OutcomeInv
<1>1. TypeInv'
  BY NextTyped
<1>2. CASE \E p \in Plans : SetBegin(p)
  <2>1. PICK p \in Plans : SetBegin(p)
    BY <1>2
  <2>2. /\ pc = "idle" /\ up /\ up' /\ pushes' = pushes + 1 /\ job'.push.version = pushes + 1
        /\ UNCHANGED <<told, pending, marker>> /\ pending = None /\ pc' = "delete"
    BY <2>1 DEF SetBegin, At, Job, machine
  <2>3. /\ pushes \in Nat
        /\ \A i \in 1..Len(told) : told[i].version \in Nat /\ told[i].version <= pushes
    <3>1. pushes \in 0..MaxPushes
      BY DEF TypeInv, TypeOK
    <3>2. told \in Seq([version: 1..MaxPushes, state: State])
      BY DEF TypeInv, TypeOK
    <3>3. \A i \in 1..Len(told) : told[i] \in [version: 1..MaxPushes, state: State]
      BY <3>2, ElementOfSeq
    <3> QED BY <3>1, <3>3, ConfirmAssumption DEF Untold, ConfirmAssumption
  <2>4. Alive(job.push)'
    BY <2>2, <2>3 DEF Alive
  <2>5. marker # None => marker.version \in Nat
    BY ConfirmAssumption DEF TypeInv, TypeOK, ConfirmAssumption, Push
  <2>6. Mortal /\ marker # None => Alive(marker)'
    BY <2>2, <2>3, <2>5 DEF Alive, Untold
  <2>7. Untold'
    BY <2>2, <2>3, <2>4, <2>6 DEF Untold, Mortal
  <2>8. OneOutcome'
    BY <2>2 DEF OneOutcome
  <2> QED BY <1>1, <2>7, <2>8
<1>3. CASE Announce
  <2>1. /\ pc = "announce" /\ up /\ up' /\ pc' = "idle" /\ pending' = job.push
        /\ UNCHANGED <<marker, pushes>>
        /\ job.push \in Push /\ Emit(Status(job.push.version, "applied"))
        /\ marker \in Push \cup {None}
    BY <1>3, InHandler DEF Announce, At, machine
  <2>2. Alive(job.push) /\ job.push.version \in 1..MaxPushes
    BY <2>1 DEF Untold, Push
  <2>3. /\ OneOutcome' /\ \A i \in 1..Len(told') : told'[i].version <= pushes'
        /\ \A q \in Push : Alive(q) => Alive(q)'
    BY <2>1, <2>2, EmitStep DEF State
  <2>4. Untold'
    BY <2>1, <2>2, <2>3 DEF Untold, Mortal, Alive
  <2> QED BY <1>1, <2>3, <2>4
<1>4. CASE Tell
  <2>1. /\ pc = "tell" /\ up /\ up' /\ pc' = "idle" /\ pending' = None
        /\ UNCHANGED <<marker, pushes>>
        /\ job.push \in Push /\ Emit(Status(job.push.version, Outcome(job)))
    BY <1>4, InHandler DEF Tell, At, machine
  <2>2. Alive(job.push) /\ job.push.version \in 1..MaxPushes
    BY <2>1 DEF Untold, Push
  <2>3. Outcome(job) \in State
    BY DEF Outcome, State
  <2>4. OneOutcome' /\ \A i \in 1..Len(told') : told'[i].version <= pushes'
    BY <2>1, <2>2, <2>3, EmitStep
  <2>5. Untold'
    BY <2>1, <2>4 DEF Untold, Mortal
  <2> QED BY <1>1, <2>4, <2>5
<1>5. ASSUME UNCHANGED <<told, pushes>>,
             pc' # "idle" => \E p \in {job.push, pending, marker} :
                                 /\ job'.push.version = p.version
                                 /\ Alive(p),
             pending' # None => \E p \in {pending, marker} :
                                    pending'.version = p.version /\ Alive(p),
             Mortal /\ marker' # None => \E p \in {job.push, marker} :
                                    marker'.version = p.version /\ Alive(p),
             ~Mortal /\ ~up' => marker' = None,
             Mortal /\ pc' \in {"record", "tell"} => marker' = None
      PROVE  OutcomeInv'
  <2>1. OneOutcome' /\ \A i \in 1..Len(told') : told'[i].version <= pushes'
    BY <1>5 DEF OneOutcome, Untold
  <2>2. pc' # "idle" => Alive(job.push)'
    BY <1>5, SilentAlive
  <2>3. pending' # None => Alive(pending)'
    BY <1>5, SilentAlive
  <2>4. Mortal /\ marker' # None => Alive(marker)'
    BY <1>5, SilentAlive
  <2> QED BY <1>1, <1>5, <2>1, <2>2, <2>3, <2>4 DEF Untold, Mortal
<1>6. CASE StageDeletes \/ StageSets \/ Revert \/ CommitFile \/ Reload \/ Undo
  <2>1. /\ pc # "idle" /\ pc' \notin {"record", "tell"} /\ up /\ up' /\ job'.push = job.push
        /\ UNCHANGED <<told, pushes, pending, marker>>
    BY <1>6, InHandler DEF StageDeletes, StageSets, Revert, CommitFile, Reload, Undo, At, Fail, history
  <2> QED BY <1>5, <2>1 DEF Untold
<1>7. CASE Mark
  <2>1. /\ pc = "mark" /\ pc' = "announce" /\ up /\ up' /\ job' = job /\ job.push \in Push
        /\ UNCHANGED <<told, pushes, pending>>
        /\ marker' = marker \/ marker' = [job.push EXCEPT !.plan = NoPlan]
    BY <1>7, InHandler DEF Mark, At, history
  <2>2. marker' = marker \/ marker'.version = job.push.version
    BY <2>1 DEF Push
  <2> QED BY <1>5, <2>1, <2>2 DEF Untold
<1>8. CASE (\E v \in 1..MaxPushes : ConfirmBegin(v)) \/ Watchdog
  <2>1. /\ pc = "idle" /\ pc' \in {"clear", "undo"} /\ up /\ up' /\ pending # None
        /\ job'.push = pending /\ pending' = None
        /\ UNCHANGED <<told, pushes, marker>>
    BY <1>8 DEF ConfirmBegin, Watchdog, Awaits, At, Job, machine, history
  <2> QED BY <1>5, <2>1 DEF Untold
<1>9. CASE Clear \/ Record
  <2>1. /\ pc \in {"clear", "record"} /\ pc' \in {"record", "tell"} /\ up /\ up' /\ job' = job
        /\ UNCHANGED <<told, pushes, pending>>
        /\ marker' \in {marker, None}
        /\ Mortal => marker' = None
    BY <1>9 DEF Clear, Record, At, history, Happens, Mortal, Untold
  <2> QED BY <1>5, <2>1 DEF Untold
<1>10. CASE Crash \/ Reboot
  <2>1. /\ pc' = "idle" /\ pending' = None /\ UNCHANGED <<told, pushes>>
        /\ marker' = None \/ (Mortal /\ marker' = marker)
    BY <1>10 DEF Crash, Reboot, Die, machine, history, Happens, Mortal
  <2> QED BY <1>5, <2>1 DEF Untold
<1>11. CASE Restart
  <2>1. /\ pc = "idle" /\ pending = None /\ up' /\ UNCHANGED <<told, pushes, marker>>
        /\ marker = None \/ Mortal
        /\ pc' \in {"idle", "undo"}
        /\ pc' # "idle" => marker # None /\ job'.push = marker
        /\ pending' # None => marker # None /\ pending' = marker
    BY <1>11 DEF Restart, Untold, TypeInv, TypeOK, Typed, Job, machine, history
  <2> QED BY <1>5, <2>1 DEF Untold
<1>12. CASE Tick
  <2>1. /\ marker' = Aged(marker) /\ pending' = Aged(pending)
        /\ UNCHANGED <<told, pushes, pc, up>>
    BY <1>12 DEF Tick, history
  <2>2. {marker, pending} \subseteq Push \cup {None}
    BY DEF TypeInv, TypeOK
  <2>3. /\ marker' = None <=> marker = None
        /\ marker # None => marker'.version = marker.version
        /\ pending' = None <=> pending = None
        /\ pending # None => pending'.version = pending.version
    BY <2>1, <2>2, AgedType
  <2>4. pc # "idle" => job'.push.version = job.push.version
    BY <1>12, InHandler, AgedType, NoneAssumption DEF Tick, NoneAssumption
  <2> QED BY <1>5, <2>1, <2>3, <2>4 DEF Untold
<1>13. CASE AdminCommit \/ Drain \/ UNCHANGED vars
  <2>1. UNCHANGED <<told, pushes, pc, up, job, pending, marker>>
    BY <1>13 DEF AdminCommit, Drain, vars, actor, machine, history
  <2> QED BY <1>5, <2>1 DEF Untold
<1> QED BY <1>2, <1>3, <1>4, <1>6, <1>7, <1>8, <1>9, <1>10, <1>11, <1>12, <1>13
        DEF Next, Request, Handler

\* A push has one final status and nothing follows it, across restarts too, if a daemon that
\* may die always manages to remove its marker (emit_wireless, clear_wireless_marker).
THEOREM OutcomeOnce ==
    ASSUME "crash" \in Faults => "clear" \notin Faults PROVE Spec => []OneOutcome
<1>1. OutcomeInv /\ [Next]_vars => OutcomeInv'
  BY NextOutcome
<1>2. OutcomeInv => OneOutcome
  BY DEF OutcomeInv
<1> QED BY <1>1, <1>2, InitOutcome, PTL DEF Spec
-----------------------------------------------------------------------------
(* What COMMITTED says                                                     *)

\* What was asked for in a push is on flash and on the air.
Live(p) == Fits(flash, asked[p.version]) /\ air = flash

\* From its commit on, what an apply has staged fits its plan; what waits to be confirmed, and
\* what a restart would resume, is live.
Asked ==
    /\ pc \in {"commit", "reload", "mark", "announce"} /\ job.kind = "apply"
           => Fits(staged, job.push.plan)
    /\ pc \in {"mark", "announce"} => air = flash
    /\ pending # None => Live(pending)
    /\ pc # "idle" /\ job.kind = "confirm" => Live(job.push)
    /\ Mortal /\ marker # None /\ marker.left > 0 => Live(marker)

LiveInv == TrialInv /\ Asked

\* While a handler has still to change the configuration no restart would resume the push.
LEMMA NoneResumes ==
    ASSUME TrialInv, Deciding, pc \notin {"announce", "clear"}, Mortal, marker # None
    PROVE  ~(marker.left > 0)
  BY InHandler DEF Deciding, TrialInv, Tried, Armed, Roles

LEMMA StageAsked ==
    ASSUME LiveInv, StageDeletes \/ StageSets \/ Undo PROVE Asked'
<1> USE DEF LiveInv, TrialInv, Tried
<1>1. /\ pc \in {"delete", "set", "undo"} /\ pc' \in {"set", "commit", "revert"} /\ Deciding
      /\ pending' = None /\ job.kind \in Kind /\ job' = job
      /\ pc' = "commit" => pc \in {"set", "undo"}
      /\ UNCHANGED <<flash, air, marker, asked>>
  BY InHandler DEF StageDeletes, StageSets, Undo, At, Deciding, history
<1>2. job.kind # "confirm" /\ (job.kind = "apply" => pc # "undo")
  BY <1>1 DEF Roles
<1>3. Mortal /\ marker' # None => ~(marker'.left > 0)
  BY <1>1, NoneResumes
<1>4. ASSUME pc' = "commit", job.kind = "apply" PROVE Fits(staged, job.push.plan)'
  <2>1. /\ pc = "set" /\ UNCHANGED stale
        /\ staged' = Over(staged, job.push.plan, Slug)
    BY <1>1, <1>2, <1>4 DEF StageDeletes, StageSets, Undo, At, history
  <2>2. \A c \in Line : c[2] \in Slug /\ (staged[c] # None => c \in stale)
    BY <2>1 DEF Progress, Line
  <2>3. \A c \in Line : staged'[c] = IF Render(job.push.plan)[c] # None
                                    THEN Render(job.push.plan)[c] ELSE staged[c]
    BY <2>1, <2>2 DEF Over
  <2>4. \A c \in Line : staged'[c] = Render(job.push.plan)[c]
                         \/ (c \in stale /\ Render(job.push.plan)[c] = None)
    BY <2>2, <2>3
  <2> QED BY <1>1, <2>1, <2>4 DEF Fits
<1> QED BY <1>1, <1>2, <1>3, <1>4 DEF Asked, Mortal

LEMMA CommitAsked ==
    ASSUME LiveInv, CommitFile \/ Revert \/ Reload PROVE Asked'
<1> USE DEF LiveInv, TrialInv, Tried
<1>1. /\ pc \in {"commit", "revert", "reload"} /\ pc' # "announce" /\ Deciding
      /\ pending' = None /\ job.kind \in Kind
      /\ UNCHANGED <<marker, asked, stale>>
  BY InHandler DEF CommitFile, Revert, Reload, At, Deciding, Fail, history
<1>2. job.kind # "confirm"
  BY <1>1 DEF Roles
<1>3. /\ job'.push = job.push /\ job'.kind \in {job.kind, "undo"}
      /\ job'.kind = "apply" => job' = job
      /\ job'.kind = "apply" /\ pc' \in {"commit", "reload", "mark"} =>
             staged' = staged /\ pc \in {"commit", "reload"}
      /\ pc' = "mark" => air' = flash' /\ job'.kind = "apply"
  <2>1. CASE CommitFile
    BY <2>1, <1>1, InHandler DEF CommitFile, At, Kind
  <2>2. CASE Reload
    BY <2>2, <1>1, InHandler DEF Reload, Fail, At, Kind
  <2>3. CASE Revert
    BY <2>3, <1>1, InHandler DEF Revert, Fail, At, Kind
  <2> QED BY <2>1, <2>2, <2>3
<1>4. Mortal /\ marker' # None => ~(marker'.left > 0)
  BY <1>1, NoneResumes
<1>5. job'.kind = "apply" /\ pc' \in {"commit", "reload", "mark"} =>
          Fits(staged, job.push.plan)' /\ job'.push = job.push
  BY <1>1, <1>2, <1>3 DEF Asked, Fits
<1> QED BY <1>1, <1>2, <1>3, <1>4, <1>5 DEF Asked, Mortal, Fits

LEMMA ArmAsked ==
    ASSUME LiveInv, Sheltered, Mark \/ Announce PROVE Asked'
<1> USE DEF LiveInv, TrialInv, Tried
<1>1. /\ pc \in {"mark", "announce"} /\ Deciding /\ job.kind \in Kind /\ job.push \in Push
      /\ pc' \in {"announce", "idle"}
      /\ pc' = "announce" => job' = job /\ pending' = None
      /\ pc' = "idle" => pending' = job.push /\ marker' = marker
      /\ UNCHANGED <<flash, air, staged, asked, stale>>
  BY InHandler DEF Mark, Announce, At, Deciding, machine, history
<1>2. job.kind = "apply" /\ staged = flash /\ air = flash
  BY <1>1 DEF Roles, Undoing, Kind, Progress, Asked
<1>3. Fits(flash, asked[job.push.version])
  BY <1>1, <1>2 DEF Asked, Roles
<1>4. Mortal /\ pc' = "announce" => marker' = [job.push EXCEPT !.plan = NoPlan]
  BY <1>1 DEF Mark, Announce, Mortal, Sheltered, Happens
<1>5. [job.push EXCEPT !.plan = NoPlan].version = job.push.version
  BY <1>1 DEF Push
<1>6. Mortal /\ marker' # None /\ marker'.left > 0 =>
          Fits(flash, asked[marker'.version]) /\ air = flash
  BY <1>1, <1>2, <1>3, <1>4, <1>5 DEF Asked, Live
<1> QED BY <1>1, <1>2, <1>3, <1>6 DEF Asked, Mortal, Live, Fits

\* A step that leaves the configuration alone and takes up only what is live.
LEMMA QuietAsked ==
    ASSUME LiveInv, UNCHANGED <<flash, air, staged, asked, stale>>,
           pc' \notin {"idle", "clear", "record", "tell"} =>
               \/ /\ UNCHANGED pc /\ job'.kind = job.kind
                  /\ job'.push.version = job.push.version /\ job'.push.plan = job.push.plan
               \/ pc' = "undo" /\ job'.kind \notin {"apply", "confirm"},
           pc' \in {"clear", "record", "tell"} =>
               /\ job'.kind # "apply"
               /\ job'.kind = "confirm" =>
                      \/ pc # "idle" /\ job.kind = "confirm" /\ job'.push.version = job.push.version
                      \/ pending # None /\ job'.push = pending,
           pending' # None =>
               \/ pending # None /\ pending'.version = pending.version
               \/ Mortal /\ marker # None /\ marker.left > 0 /\ pending' = marker,
           Mortal /\ marker' # None /\ marker'.left > 0 =>
               marker # None /\ marker.left > 0 /\ marker'.version = marker.version
    PROVE  Asked'
  BY DEF LiveInv, Asked, Live, Mortal, Fits

LEMMA NextAsked ==
    ASSUME LiveInv, Sheltered, [Next]_vars PROVE LiveInv'
<1> USE DEF LiveInv, TrialInv, Tried
<1>1. TrialInv'
  BY NextTried
<1> SUFFICES Asked'
  BY <1>1
<1>2. CASE \E p \in Plans : SetBegin(p)
  <2>1. PICK p \in Plans : SetBegin(p)
    BY <1>2
  <2>2. /\ pc' = "delete" /\ pending' = None /\ job'.kind = "apply" /\ job'.push.plan = p
        /\ job'.push.version = pushes + 1 /\ asked' = Append(asked, p) /\ marker' = marker
        /\ ~Open /\ up
    BY <2>1 DEF SetBegin, At, Job, machine, Open
  <2>3. Mortal => marker = None
    BY <2>1 DEF SetBegin, At, Armed, Deciding
  <2>4. asked'[pushes + 1] = p
    BY <2>2 DEF TypeInv, TypeOK
  <2> QED BY <2>2, <2>3, <2>4 DEF Asked, Mortal
<1>3. CASE (\E v \in 1..MaxPushes : ConfirmBegin(v)) \/ Watchdog
  <2>1. /\ pending # None /\ pending' = None /\ job'.push = pending
        /\ \/ job'.kind = "confirm"  /\ pc' = "clear"
           \/ job'.kind = "watchdog" /\ pc' = "undo"
        /\ UNCHANGED <<flash, air, staged, asked, marker, stale>>
    BY <1>3 DEF ConfirmBegin, Watchdog, Awaits, Job, machine, history
  <2> QED BY <2>1, QuietAsked
<1>4. CASE Clear \/ Record \/ Tell
  <2>1. /\ pc \in {"clear", "record", "tell"} /\ pc' \in {"record", "tell", "idle"}
        /\ pending' = None
        /\ pc' # "idle" => job' = job
        /\ UNCHANGED <<flash, air, staged, asked, stale>>
        /\ marker' \in {marker, None}
        /\ job.kind \in Kind
    BY <1>4, InHandler DEF Clear, Record, Tell, At, machine, history
  <2>2. job.kind # "apply"
    BY <2>1 DEF Roles
  <2> QED BY <2>1, <2>2, QuietAsked
<1>5. CASE Crash \/ Reboot
  <2>1. /\ pc' = "idle" /\ pending' = None
        /\ marker' = None \/ UNCHANGED <<flash, air, staged, marker, asked, stale>>
    BY <1>5 DEF Crash, Reboot, Die, machine, history
  <2> QED BY <2>1 DEF Asked, Mortal, Live, Fits
<1>6. CASE Restart
  <2>1. /\ ~up /\ pc = "idle" /\ pending = None /\ UNCHANGED <<flash, air, staged, asked, marker, stale>>
    BY <1>6 DEF Restart, TypeInv, TypeOK, Typed, machine, history
  <2>2. /\ pc' \in {"idle", "undo"}
        /\ pc' = "undo" => job'.kind = "boot"
        /\ pending' # None => marker # None /\ marker.left > 0 /\ pending' = marker
    BY <1>6, <2>1 DEF Restart, Job
  <2>3. marker # None => Mortal
    BY <2>1 DEF Armed
  <2> QED BY <2>1, <2>2, <2>3, QuietAsked
<1>7. CASE AdminCommit
  <2>1. /\ staged # flash
        /\ UNCHANGED <<staged, air, asked, marker, up, pc, job, pending, stale>>
    BY <1>7 DEF AdminCommit, actor, history
  <2>2. pending = None /\ pc \notin {"reload", "mark", "announce"}
    BY <2>1 DEF Progress
  <2>3. ~(pc # "idle" /\ job.kind = "confirm")
    BY <2>1 DEF Progress, Roles
  <2>4. ~(Mortal /\ marker # None /\ marker.left > 0)
    <3>1. CASE up
      BY <2>2, <2>3, <3>1, InHandler DEF Armed, Deciding
    <3>2. CASE ~up
      BY <2>1, <3>2 DEF Progress
    <3> QED BY <3>1, <3>2
  <2> QED BY <2>1, <2>2, <2>3, <2>4 DEF Asked, Mortal, Fits
<1>8. CASE Tick
  <2>1. /\ marker' = Aged(marker) /\ pending' = Aged(pending)
        /\ UNCHANGED <<flash, air, staged, asked, pc, stale>>
    BY <1>8 DEF Tick, history
  <2>2. {marker, pending} \subseteq Push \cup {None}
    BY DEF TypeInv, TypeOK
  <2>3. /\ marker' # None => marker # None /\ marker'.version = marker.version
        /\ pending' # None => pending # None /\ pending'.version = pending.version
    BY <2>1, <2>2, AgedType
  <2>4. marker' # None /\ marker'.left > 0 => marker.left > 0
    BY <2>1, <2>2, <2>3, AgedType, ConfirmAssumption DEF Push, ConfirmAssumption
  <2>5. pc # "idle" => /\ job'.push.version = job.push.version /\ job'.kind = job.kind
                       /\ job'.push.plan = job.push.plan
    BY <1>8, InHandler, AgedType, NoneAssumption DEF Tick, NoneAssumption
  <2>6. pc \in {"clear", "record", "tell"} => job.kind # "apply"
    BY DEF Roles
  <2> QED BY <2>1, <2>3, <2>4, <2>5, <2>6, QuietAsked
<1>9. CASE Drain \/ UNCHANGED vars
  <2>1. UNCHANGED <<flash, air, staged, asked, pc, job, pending, marker, stale>>
    BY <1>9 DEF Drain, vars, machine, actor, history
  <2> QED BY <2>1 DEF Asked, Mortal, Live, Fits
<1> QED BY <1>2, <1>3, <1>4, <1>5, <1>6, <1>7, <1>8, <1>9, StageAsked, CommitAsked, ArmAsked
        DEF Next, Request, Handler

\* COMMITTED says that what the control plane asked for in that push is on flash and on the
\* air, and nothing else but old lines of sections that could not be deleted, though the
\* daemon has died and resumed it meanwhile (handle_confirm_wireless,
\* reconcile_wireless_on_start).
THEOREM CommittedTrue == ASSUME Sheltered PROVE Spec => CommittedIsLive
<1> DEFINE Says(v) == told' # told /\ told'[Len(told')] = Status(v, "committed")
<1>1. ASSUME LiveInv, [Next]_vars, NEW v \in 1..MaxPushes, Says(v)
      PROVE  Fits(flash, asked[v]) /\ air = flash
  <2>1. PICK state \in State, p \in Push :
            /\ Emit(Status(p.version, state))
            /\ \/ Announce /\ state = "applied"
               \/ Tell /\ p = job.push /\ state = Outcome(job)
    <3>1. Announce \/ Tell
      BY <1>1 DEF Next, Request, Handler, SetBegin, ConfirmBegin, StageDeletes, StageSets,
         Revert, CommitFile, Reload, Undo, Mark, Clear, Record, Watchdog, Crash, Reboot, Restart,
         AdminCommit, Tick, Drain, history, vars
    <3>2. job.push \in Push
      BY <1>1, <3>1, InHandler DEF Announce, Tell, At, LiveInv, TrialInv
    <3>3. "applied" \in State /\ Outcome(job) \in State
      BY DEF State, Outcome
    <3> QED BY <3>1, <3>2, <3>3 DEF Announce, Tell
  <2>2. told \in Seq([version: 1..MaxPushes, state: State])
    BY <1>1 DEF LiveInv, TrialInv, TypeInv, TypeOK
  <2>3. told'[Len(told')] = Status(p.version, state)
    BY <2>1, <2>2 DEF Emit
  <2>4. p.version = v /\ state = "committed"
    BY <1>1, <2>3 DEF Status
  <2>5. Tell /\ p = job.push /\ job.kind = "confirm"
    BY <2>1, <2>4 DEF Outcome
  <2> QED BY <1>1, <2>4, <2>5 DEF LiveInv, Asked, Live, Tell, At
<1>2. LiveInv /\ [Next]_vars =>
          [\A v \in 1..MaxPushes :
               told' # told /\ told'[Len(told')] = Status(v, "committed")
                   => Fits(flash, asked[v]) /\ air = flash]_vars
  BY <1>1
<1>3. Init => LiveInv
  <2>1. Init => Asked
    BY DEF Init, Asked
  <2> QED BY <2>1, InitTyped, InitTried DEF LiveInv, TrialInv
<1>4. LiveInv /\ [Next]_vars => LiveInv'
  BY NextAsked
<1> QED BY <1>2, <1>3, <1>4, PTL DEF Spec, CommittedIsLive
=============================================================================
