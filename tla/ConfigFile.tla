----------------------------- MODULE ConfigFile -----------------------------
(***************************************************************************)
(* The configuration file of the engine, in the format of UCI, as it is    *)
(* read when the daemon starts and when it is told to read it again.       *)
(***************************************************************************)
EXTENDS Texts

CONSTANTS
    Configs,  \* configurations somebody may have in mind
    Broken    \* texts that are no configuration

VARIABLES
    file,     \* the file: its text, and the configuration that was meant, or None
    current,  \* the configuration SIGHUP compares with, or None while there is no daemon
    running,  \* the configuration in force, or None
    meant     \* history: what was meant to be in force by who wrote the files

vars == <<file, current, running, meant>>
-----------------------------------------------------------------------------
(* Quotes                                                                  *)

Quotes == {"'", "\""}

\* The quote that is open after a text, or "".
OpenQuote(text) ==
    FoldLeft(LAMBDA open, c : IF open = "" /\ c \in Quotes THEN c
                              ELSE IF c = open THEN "" ELSE open, "", text)
-----------------------------------------------------------------------------
(* Reading a line                                                          *)

\* Mutant: any # begins a comment.
StripAnyComment(line) == SubSeq(line, 1, SelectInSeq(Append(line, "#"), LAMBDA c : c = "#") - 1)

\* strip_comment: a # within quotes does not begin one.
StripComment(line) ==
    LET begins == {n \in DOMAIN line : line[n] = "#" /\ OpenQuote(SubSeq(line, 1, n - 1)) = ""}
    IN  IF begins = {} THEN line ELSE SubSeq(line, 1, Min(begins) - 1)

\* tokenize: blanks outside of quotes separate tokens; quotes are not part of a token, but
\* make one, if only an empty one.  None if a quote stays open.
Tokenize(line) ==
    LET Step(s, c) ==
            CASE c = s.open                   -> [s EXCEPT !.open = ""]
              [] s.open # "" /\ c # s.open    -> [s EXCEPT !.token = Append(@, c)]
              [] s.open = "" /\ c \in Quotes  -> [s EXCEPT !.open = c, !.within = TRUE]
              [] s.open = "" /\ c = " " /\ s.within ->
                    [s EXCEPT !.tokens = Append(@, s.token), !.token = <<>>, !.within = FALSE]
              [] s.open = "" /\ c = " " /\ ~s.within -> s
              [] OTHER -> [s EXCEPT !.token = Append(@, c), !.within = TRUE]
        end == FoldLeft(Step, [tokens |-> <<>>, token |-> <<>>, within |-> FALSE, open |-> ""], line)
    IN  CASE end.open # "" -> None
          [] end.open = "" /\ end.within -> Append(end.tokens, end.token)
          [] OTHER         -> end.tokens
-----------------------------------------------------------------------------
(* A configuration: one option stands for those of its type                *)

\* Config::default
Default == [store |-> <<>>, port |-> 8080, idle |-> 0, reap |-> TRUE, garden |-> <<>>, radios |-> <<>>]

Numbers == [n \in {"0", "30", "8080", "70000"} |->
               CASE n = "0" -> 0 [] n = "30" -> 30 [] n = "8080" -> 8080 [] OTHER -> 70000]

Truths   == {<<"1">>, <<"true">>, <<"yes">>, <<"on">>}
Untruths == {<<"0">>, <<"false">>, <<"no">>, <<"off">>}

\* apply_option: None for a value that is not of the option's type, and for no option.
ApplyOption(config, key, value) ==
    LET number == IF Len(value) = 1 /\ value[1] \in DOMAIN Numbers THEN Numbers[value[1]] ELSE None
    IN  CASE key = <<"store_id">>                              -> [config EXCEPT !.store = value]
          [] key = <<"idle_timeout">> /\ number # None         -> [config EXCEPT !.idle = number]
          [] key = <<"responder_port">> /\ number \in 0..65535 -> [config EXCEPT !.port = number]
          [] key = <<"reap_conntrack">> /\ value \in Truths    -> [config EXCEPT !.reap = TRUE]
          [] key = <<"reap_conntrack">> /\ value \in Untruths  -> [config EXCEPT !.reap = FALSE]
          [] OTHER                                             -> None

ApplyList(config, key, value) ==
    CASE key = <<"garden_fqdn">>              -> [config EXCEPT !.garden = Append(@, value)]
      [] key = <<"wireless_protected_radio">> -> [config EXCEPT !.radios = Append(@, value)]
      [] OTHER                                -> None

\* The configuration after a line: an option takes its last value, a list them all.
ApplyTokens(config, tokens) ==
    LET kw == tokens[1]
    IN  CASE kw = <<"config">> /\ Len(tokens) > 1 /\ tokens[2] = <<"portcullis">> -> config
          [] kw = <<"option">> /\ Len(tokens) = 3 -> ApplyOption(config, tokens[2], tokens[3])
          [] kw = <<"list">> /\ Len(tokens) = 3   -> ApplyList(config, tokens[2], tokens[3])
          [] OTHER                                -> None

\* from_uci_str: nothing of a text is taken if a line is wrong, or no section is there.
FromUci(text) ==
    LET Take(read, line) ==
            LET tokens == Tokenize(StripComment(line))
            IN  CASE read.config = None \/ tokens = None -> [read EXCEPT !.config = None]
                  [] tokens = <<>> -> read
                  [] OTHER -> [config |-> ApplyTokens(read.config, tokens),
                               section |-> read.section \/ tokens[1] = <<"config">>]
        read == FoldLeft(Take, [config |-> Default, section |-> FALSE], text)
    IN  IF read.section THEN read.config ELSE None

\* validate, is_valid_garden_fqdn: labels of letters, digits and hyphens, none of them empty
\* or with a hyphen at an end.
Valid(config) ==
    /\ config.store # <<>> /\ config.port # 0
    /\ \A n \in DOMAIN config.garden :
          LET labels == Split(config.garden[n], ".")
          IN  \A l \in DOMAIN labels :
                 /\ labels[l] # <<>> /\ Head(labels[l]) # "-" /\ Last(labels[l]) # "-"
                 /\ \A c \in DOMAIN labels[l] : labels[l][c] \notin Quotes \cup {"#", " "}

\* diff: the change of some options takes a restart.
RequiresRestart(old, new) == old.store # new.store \/ old.port # new.port
-----------------------------------------------------------------------------
(* The file and the daemon                                                 *)

\* The text of a configuration, as somebody writes it: quotes of either kind, comments.
Write(config, quote, note) ==
    LET Option(key, value) == <<"option", " ", key, " ", quote>> \o value \o <<quote>> \o note
        Entries(key, list) ==
            [n \in DOMAIN list |-> <<" ", "list", " ", key, " ", quote>> \o list[n] \o <<quote>>]
        Digits(number) == <<CHOOSE n \in DOMAIN Numbers : Numbers[n] = number>>
    IN  <<note, <<"config", " ", "portcullis", " ", quote, "main", quote>>,
               Option("store_id", <<"another">>), Option("store_id", config.store),
               Option("responder_port", Digits(config.port)), <<" ">>,
               Option("idle_timeout", Digits(config.idle)),
               Option("reap_conntrack", IF config.reap THEN <<"yes">> ELSE <<"off">>)>>
             \o Entries("garden_fqdn", config.garden)
             \o Entries("wireless_protected_radio", config.radios)

\* A value cannot hold the quote that it is in.
Edit ==
    /\ \/ \E config \in Configs, quote \in Quotes, note \in {<<>>, <<" ", "#", "'", " ">>} :
             /\ ~Contains(config.store, quote)
             /\ file' = [text |-> Write(config, quote, note), is |-> config]
       \/ \E text \in Broken : file' = [text |-> text, is |-> None]
       \/ file' = None
    /\ UNCHANGED <<current, running, meant>>

\* A text that is read, and passes.
Usable(config) == config # None /\ Valid(config)

\* load_config: without a file the daemon runs on the defaults, and with one that cannot be
\* used not at all.
LoadConfig ==
    /\ running = None
    /\ IF file = None THEN running' = Default /\ meant' = Default
       ELSE /\ running' = IF Usable(FromUci(file.text)) THEN FromUci(file.text) ELSE None
            /\ meant' = IF Usable(file.is) THEN file.is ELSE None
    /\ current' = running'
    /\ UNCHANGED file

\* SIGHUP: a file that cannot be used, or takes a restart, changes nothing.  Of another, the
\* garden, if it has changed, and the parameters get in force; the rest waits for a restart,
\* though the file is from now on the one that is compared with.
ReloadConfig ==
    /\ running # None /\ file # None
    /\ LET read == FromUci(file.text)
       IN  IF Usable(read) /\ ~RequiresRestart(current, read)
           THEN /\ current' = read
                /\ running' = [running EXCEPT
                      !.garden = IF read.garden # current.garden THEN read.garden ELSE @,
                      !.idle = read.idle]
           ELSE UNCHANGED <<current, running>>
    /\ meant' = IF Usable(file.is) /\ ~RequiresRestart(meant, file.is)
                THEN [meant EXCEPT !.garden = file.is.garden, !.idle = file.is.idle] ELSE meant
    /\ UNCHANGED file

Stop == current' = None /\ running' = None /\ meant' = None /\ UNCHANGED file

Init == file = None /\ current = None /\ running = None /\ meant = None

Next == Edit \/ LoadConfig \/ ReloadConfig \/ Stop
-----------------------------------------------------------------------------
(* Properties                                                              *)

\* The daemon runs on what was meant by the file it started with, but for the garden and the
\* parameters, which are those meant by the file it took last: whatever quotes and comments
\* they were written with, no value is cut short, split, or lost, and of a file that is not
\* one, or that takes a restart, nothing gets in force (from_uci_str, diff, SIGHUP).
ReadAsMeant == running = meant
=============================================================================
