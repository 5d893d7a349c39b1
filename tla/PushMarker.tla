----------------------------- MODULE PushMarker -----------------------------
(***************************************************************************)
(* What a wireless push leaves on tmpfs: the marker of a push that is not  *)
(* confirmed, with the owned options as `uci show` printed them before it, *)
(* and the scope of the last push that was.  A daemon that starts knows of *)
(* both by their texts alone, and rolls back by them.  When it does so is  *)
(* WirelessConfirm's, and what it sets UciPlan's.                          *)
(***************************************************************************)
EXTENDS Texts, FiniteSets, TLC

CONSTANTS
    Ours,      \* names of sections that are owned
    Configs,   \* options in uci: from keys to sequences of values, of which only a list has many
    Versions,  \* versions of a push
    Scopes,    \* bridges of the gated SSIDs of a push
    MaxPushes  \* bound: pushes

VARIABLES
    options,   \* uci
    marker,    \* the pending push in the daemon's memory, or None
    tmpfs,     \* the text of the marker, or None
    committed, \* the text of committed.gated, or None
    scope,     \* the scope of the last push the daemon knows was confirmed, or None
    earlier,   \* history: what the last push was, what was there before, and what became of it
    agreed,    \* history: the scope of the last push that was confirmed since the boot, or None
    pushes

vars == <<options, marker, tmpfs, committed, scope, earlier, agreed, pushes>>
-----------------------------------------------------------------------------
(* Keys                                                                    *)

Section(key) == Cardinality({n \in DOMAIN key : key[n] = "."}) = 1

\* The only list that is owned.
List(key) == Last(key) = "maclist"

\* is_owned_wireless_section
Owned(key) ==
    LET parts == SplitOnce(key, ".") IN parts # None /\ parts[2] # <<>> /\ Head(parts[2]) \in Ours

\* The keys of a section: its own, and those of its options.
Within(section, key) == SubSeq(key, 1, Len(section)) = section

Sections(uci) == {key \in DOMAIN uci : Section(key) /\ Owned(key)}
-----------------------------------------------------------------------------
(* What uci prints                                                         *)

\* uci show: values in apostrophes, and one within them as '\''.
Show(uci) ==
    LET Escape(value) ==
            FoldLeft(LAMBDA line, c : line \o IF c = "'" THEN <<"'", "\\", "'", "'">> ELSE <<c>>,
                     <<>>, value)
        Quoted(n, values) == <<"'">> \o Escape(values[n]) \o <<"'">>
        Printed(key) == IF Section(key) THEN uci[key][1]
                        ELSE Join([n \in DOMAIN uci[key] |-> Quoted(n, uci[key])], " ")
        keys == InOrder(DOMAIN uci)
    IN  [n \in DOMAIN keys |-> keys[n] \o <<"=">> \o Printed(keys[n])]

\* unquote: one pair of quotes around all of it.
Unquote(value) ==
    IF Len(value) >= 2 /\ Head(value) = Last(value) /\ Head(value) \in {"'", "\""}
    THEN SubSeq(value, 2, Len(value) - 1) ELSE value

\* parse_uci_list
ParseUciList(value) ==
    FoldLeft(LAMBDA list, word : list \o IF Unquote(word) = <<>> THEN <<>> ELSE <<Unquote(word)>>,
             <<>>, Words(value, " "))

Nothing == [existing |-> {}, prior |-> <<>>, lists |-> <<>>]

\* snapshot_wireless: sections, options and lists that are owned.
SnapshotWireless(shown) ==
    LET Take(snapshot, line) ==
            LET pair == SplitOnce(line, "=")
                key  == pair[1]
                taken == IF Section(key) THEN [snapshot EXCEPT !.existing = @ \cup {key}] ELSE snapshot
            IN  CASE pair = None \/ ~Owned(key) -> snapshot
                  [] OTHER -> IF List(key)
                              THEN [taken EXCEPT !.lists = key :> ParseUciList(pair[2]) @@ @]
                              ELSE [taken EXCEPT !.prior = key :> Unquote(pair[2]) @@ @]
    IN  FoldLeft(Take, Nothing, shown)
-----------------------------------------------------------------------------
(* The marker's text                                                       *)

\* Snapshot::to_text: a line for an option, and one for an element of a list.
SnapshotText(snapshot) ==
    LET Options(lines, key) == Append(lines, key \o <<"=">> \o snapshot.prior[key])
        Elements(lines, key) ==
            FoldLeft(LAMBDA all, value : Append(all, key \o <<"+", "=">> \o value),
                     lines, snapshot.lists[key])
        header == <<"#sections", "=">> \o Join(InOrder(snapshot.existing), ",")
    IN  FoldLeft(Elements, FoldLeft(Options, <<header>>, InOrder(DOMAIN snapshot.prior)),
                 InOrder(DOMAIN snapshot.lists))

\* Snapshot::from_text
SnapshotFrom(text) ==
    LET Take(snapshot, line) ==
            LET pair == SplitOnce(line, "=")
                key  == pair[1]
                list == Front(key)
                had  == IF list \in DOMAIN snapshot.lists THEN snapshot.lists[list] ELSE <<>>
            IN  CASE pair = None -> snapshot
                  [] key = <<"#sections">> ->
                        [snapshot EXCEPT !.existing = ToSet(Words(pair[2], ","))]
                  [] Last(key) = "+" ->
                        [snapshot EXCEPT !.lists = list :> Append(had, pair[2]) @@ @]
                  [] OTHER -> [snapshot EXCEPT !.prior = key :> pair[2] @@ @]
    IN  FoldLeft(Take, Nothing, text)

\* WirelessMarker::to_text
MarkerText(m) ==
    << <<"config_version", "=">> \o m.version, <<"radios", "=">> \o Join(m.radios, ","),
       <<"current_sections", "=">> \o Join(InOrder(m.current), ","),
       <<"gated_ifaces", "=">> \o Join(m.gated, ","), <<"deadline_unix", "=", m.deadline>>,
       <<"---">> >> \o SnapshotText(m.snapshot)

\* WirelessMarker::from_text: None without a snapshot, a deadline, or a = in every line.
MarkerFrom(text) ==
    LET cut == SelectInSeq(text, LAMBDA line : line = <<"---">>)
        Take(read, line) ==
            LET pair == SplitOnce(line, "=")
            IN  IF pair = None THEN [read EXCEPT !.whole = FALSE]
                ELSE CASE pair[1] = <<"config_version">> -> [read EXCEPT !.version = pair[2]]
                       [] pair[1] = <<"radios">> -> [read EXCEPT !.radios = Words(pair[2], ",")]
                       [] pair[1] = <<"current_sections">> ->
                             [read EXCEPT !.current = ToSet(Words(pair[2], ","))]
                       [] pair[1] = <<"gated_ifaces">> -> [read EXCEPT !.gated = Words(pair[2], ",")]
                       [] pair[1] = <<"deadline_unix">> -> [read EXCEPT !.deadline = pair[2][1]]
        read == FoldLeft(Take, [version |-> <<>>, radios |-> <<>>, current |-> {}, gated |-> <<>>,
                                deadline |-> None, whole |-> TRUE], SubSeq(text, 1, cut - 1))
    IN  IF cut <= 1 \/ ~read.whole \/ read.deadline = None THEN None
        ELSE [version |-> read.version, radios |-> read.radios, current |-> read.current,
              gated |-> read.gated, deadline |-> read.deadline,
              snapshot |-> SnapshotFrom(SubSeq(text, cut + 1, Len(text)))]
-----------------------------------------------------------------------------
(* A push                                                                  *)

\* The owned sections are replaced; the marker is written first.
PushWireless ==
    /\ marker = None /\ tmpfs = None /\ pushes < MaxPushes /\ pushes' = pushes + 1
    /\ \E config \in Configs, version \in Versions, gated \in Scopes :
          LET new == [version |-> version, radios |-> <<<<"radio0">>, <<"radio1">>>>,
                      current |-> Sections(config), gated |-> gated,
                      deadline |-> "180", snapshot |-> SnapshotWireless(Show(options))]
          IN  /\ marker' = new /\ tmpfs' = MarkerText(new)
              /\ earlier' = [push |-> new, options |-> options, end |-> "pending"]
              /\ options' = Restrict(config, {key \in DOMAIN config : Owned(key)})
                            @@ Restrict(options, {key \in DOMAIN options : ~Owned(key)})
    /\ UNCHANGED <<committed, scope, agreed>>

Resolved(end) ==
    /\ marker' = None /\ tmpfs' = None /\ UNCHANGED pushes
    /\ earlier' = [earlier EXCEPT !.end = end]

\* Mutant: a list gets its elements added, and loses none.
RollbackAdding ==
    /\ marker # None /\ Resolved("rolled back") /\ UNCHANGED <<committed, scope, agreed>>
    /\ LET snapshot == marker.snapshot
           added == marker.current \ snapshot.existing
           kept  == {key \in DOMAIN options : \A section \in added : ~Within(section, key)}
           Had(key) == IF key \in DOMAIN options THEN options[key] ELSE <<>>
       IN  options' = [key \in DOMAIN snapshot.prior |-> <<snapshot.prior[key]>>]
                      @@ [key \in DOMAIN snapshot.lists |-> Had(key) \o snapshot.lists[key]]
                      @@ Restrict(options, kept)

\* rollback_to: sections the push added go, options and lists of before are set.
RollbackTo ==
    /\ marker # None /\ Resolved("rolled back") /\ UNCHANGED <<committed, scope, agreed>>
    /\ LET snapshot == marker.snapshot
           added == marker.current \ snapshot.existing
           kept  == {key \in DOMAIN options : \A section \in added : ~Within(section, key)}
       IN  options' = [key \in DOMAIN snapshot.prior |-> <<snapshot.prior[key]>>]
                      @@ snapshot.lists @@ Restrict(options, kept)

\* write_committed_gated
Confirm ==
    /\ marker # None /\ Resolved("confirmed")
    /\ committed' = Join(marker.gated, ",") /\ scope' = marker.gated
    /\ agreed' = earlier.push.gated
    /\ UNCHANGED options

\* read_committed_gated, read_wireless_marker: what the daemon starts with.
Restart ==
    /\ scope' = IF committed = None THEN None ELSE Words(committed, ",")
    /\ marker' = IF tmpfs = None THEN None ELSE MarkerFrom(tmpfs)
    /\ UNCHANGED <<options, tmpfs, committed, earlier, agreed, pushes>>

\* tmpfs is empty.
Reboot ==
    /\ marker' = None /\ tmpfs' = None /\ committed' = None /\ scope' = None
    /\ earlier' = None /\ agreed' = None /\ UNCHANGED <<options, pushes>>

Init ==
    /\ options \in Configs /\ marker = None /\ tmpfs = None /\ committed = None /\ scope = None
    /\ earlier = None /\ agreed = None /\ pushes = 0

Next == PushWireless \/ RollbackTo \/ Confirm \/ Restart \/ Reboot
-----------------------------------------------------------------------------
(* Properties                                                              *)

\* A value with an apostrophe in it is printed with four characters for one, and kept so.
Plain(values) == \A n \in DOMAIN values : ~Contains(values[n], "'")

\* After a rollback, by the push itself or by a daemon that found its marker, the sections
\* are those of before, and every option and list of theirs is what it was, if it is plain.
Restored ==
    earlier # None /\ earlier.end = "rolled back" =>
        /\ Sections(options) = Sections(earlier.options)
        /\ \A key \in DOMAIN earlier.options :
              Plain(earlier.options[key]) =>
                 key \in DOMAIN options /\ options[key] = earlier.options[key]

\* A daemon that starts finds the push that is pending as it was made, and the scope of the
\* last one that was confirmed: an empty one is not taken for none.
FoundAgain ==
    /\ tmpfs # None => marker # None /\ [marker EXCEPT !.snapshot = None]
                                          = [earlier.push EXCEPT !.snapshot = None]
    /\ scope = agreed

ReadBack == Restored /\ FoundAgain
=============================================================================
